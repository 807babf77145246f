---------------------------- MODULE MCTokenSource ----------------------------
(***************************************************************************)
(* An instance of TokenSource for TLC.  One unit of time is 30 seconds.    *)
(***************************************************************************)
EXTENDS TokenSource

CONSTANTS a, b, e1, e2
=============================================================================
