---------------------------- MODULE MCAuthCommands ----------------------------
(***************************************************************************)
(* Instances of AuthCommands for TLC.                                      *)
(***************************************************************************)
EXTENDS AuthCommands, TLC

CONSTANTS a, b, c, l1, l2

\* A login, a token command and a third command of any kind.  Only the third
\* is killed: a command that stands still leaves the same stores behind.
OneOfEach ==
  /\ Init /\ command[b] = "login" /\ command[c] = "token"
  /\ [][Next /\ "killed" \notin {outcome'[b], outcome'[c]}]_vars

\* Clients only differ in their name.
Symmetry == Permutations(Logins)
===============================================================================
