-------------------------- MODULE MutationContract ---------------------------
(***************************************************************************)
(* What one call of Client.Do promises about a write that must not happen  *)
(* twice (POST, PATCH, PUT).  The tenant applies it at most once; a call   *)
(* that reports success was applied; a call that reports a definite        *)
(* failure was not applied and never will be; every other failure leaves   *)
(* the question open, and the write may still land after the call returned.*)
(***************************************************************************)
EXTENDS Naturals

CONSTANT Calls

VARIABLES status,    \* status[c]: what the caller has been told
          effects    \* effects[c]: how many times the tenant applied c

vars == <<status, effects>>

Statuses == {"open", "succeeded", "rejected", "unknown"}

Init ==
    /\ status = [c \in Calls |-> "open"]
    /\ effects = [c \in Calls |-> 0]

Apply(c) ==
    /\ status[c] \in {"open", "unknown"}
    /\ effects[c] = 0
    /\ effects' = [effects EXCEPT ![c] = 1]
    /\ UNCHANGED status

Succeed(c) ==
    /\ status[c] = "open"
    /\ effects[c] = 1
    /\ status' = [status EXCEPT ![c] = "succeeded"]
    /\ UNCHANGED effects

Reject(c) ==
    /\ status[c] = "open"
    /\ effects[c] = 0
    /\ status' = [status EXCEPT ![c] = "rejected"]
    /\ UNCHANGED effects

GiveUp(c) ==
    /\ status[c] = "open"
    /\ status' = [status EXCEPT ![c] = "unknown"]
    /\ UNCHANGED effects

Next == \E c \in Calls : Apply(c) \/ Succeed(c) \/ Reject(c) \/ GiveUp(c)

Spec == Init /\ [][Next]_vars
=============================================================================
