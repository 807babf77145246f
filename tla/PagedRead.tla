------------------------------ MODULE PagedRead ------------------------------
(***************************************************************************)
(* What a command that reads a result in pages promises.  The result at    *)
(* the tenant is the rows 1 to total; its pages may lead in a circle.      *)
(***************************************************************************)
EXTENDS Naturals, Sequences

VARIABLES
  raw,      \* the command hands on every answer as it is
  total,    \* the number of rows at the tenant
  loops,    \* the last page leads back to the first
  shown,    \* the rows the user got
  claim,    \* what the output says of them: "all", "more" or nothing
  resume,   \* after how many rows the locator in the output goes on
  outcome   \* "running", "ok" or "error"

vars == <<raw, total, loops, shown, claim, resume, outcome>>

\* In the place of a row: the body of an answer that is no page.
Odd == 0

Prefix(n) == [i \in 1 .. n |-> i]

\* Row by row from the first on, and round the circle if there is one; the
\* answer that ends the reading may be no page.
Nth(s, i) == IF ~ loops THEN i
             ELSE IF i = 1 \/ s[i - 1] = total THEN 1 ELSE s[i - 1] + 1
InOrder(s) ==
  \A i \in 1 .. Len(s) : \/ s[i] = Odd /\ i = Len(s)
                         \/ s[i] \in 1 .. total /\ s[i] = Nth(s, i)

Init ==
  /\ raw \in BOOLEAN
  /\ total \in Nat
  /\ loops \in BOOLEAN
  /\ shown = Prefix(0)
  /\ claim = "none"
  /\ resume = 0
  /\ outcome = "running"

\* The user gets the first rows, none twice and none left out.  The output
\* says that they are all of them, or where the others are, only if so.
ShowRows ==
  /\ ~ loops
  /\ \E n \in 0 .. total :
       /\ shown' = Prefix(n)
       /\ \/ claim' = "all" /\ n = total /\ resume' = 0
          \/ claim' = "more" /\ resume' = n
          \/ claim' = "none" /\ resume' = 0

\* Or, by a command that vouches for nothing, what was read.
HandOn ==
  /\ raw
  /\ InOrder(shown')
  /\ claim' = "none" /\ resume' = 0

Show ==
  /\ outcome = "running"
  /\ outcome' = "ok"
  /\ ShowRows \/ HandOn
  /\ UNCHANGED <<raw, total, loops>>

\* Or nothing, and an error.
Fail ==
  /\ outcome = "running"
  /\ outcome' = "error"
  /\ UNCHANGED <<raw, total, loops, shown, claim, resume>>

Next == Show \/ Fail

Spec == Init /\ [][Next]_vars
=============================================================================
