-------------------------------- MODULE Paging --------------------------------
(***************************************************************************)
(* The two commands that follow pages: `query`, which asks queryMore until *)
(* the result is done, and `zr api --paginate`, which follows nextPage.    *)
(*                                                                         *)
(* The result at the tenant is the rows 1 to total.  A locator (for `zr    *)
(* api` the address in nextPage) stands for the number of rows before the  *)
(* page it leads to.                                                       *)
(***************************************************************************)
EXTENDS Naturals, Sequences

CONSTANTS MaxTotal,  \* bound on the rows at the tenant
          MaxPages   \* the limit of DoPaginated

ASSUME BoundsAssumption == MaxTotal \in Nat /\ MaxPages \in Nat \ {0}

VARIABLES
  command,  \* "query" or "paginate"
  opts,     \* --limit or 0, --export, and whether the form of the output has
            \* a place to say that it is complete
  total,    \* the number of rows at the tenant
  loops,    \* the last page leads back to the first
  pc,       \* where the command is
  page,     \* DoPaginated's count of pages, from 0
  rows,     \* the rows collected, as they come, and at last perhaps Odd
  done,     \* `done` of the last answer
  more,     \* the last answer has a locator
  at,       \* that locator
  trimmed,  \* rows were cut off
  shown,    \* the rows on the standard output, or in the new file of --export
  claim,    \* what the output says of them: "all", "more" or "none"
  resume,   \* the locator in the output
  outcome   \* "running", "ok" or "error"

vars == <<command, opts, total, loops, pc, page, rows, done, more, at, trimmed,
          shown, claim, resume, outcome>>

Options(cmd) ==
  IF cmd = "query"
  THEN [limit : 0 .. MaxTotal + 1, export : BOOLEAN, claims : BOOLEAN]
  ELSE [limit : {0}, export : {FALSE}, claims : {FALSE}]

PCs == {"ask", "decide", "write", "close", "done"}

Init ==
  /\ command \in {"query", "paginate"}
  /\ opts \in Options(command)
  /\ total \in 0 .. MaxTotal
  /\ loops \in {FALSE} \cup {command = "paginate"}
  /\ pc = "ask"
  /\ page = 0
  /\ rows = << >>
  /\ done = FALSE
  /\ more = FALSE
  /\ at = 0
  /\ trimmed = FALSE
  /\ shown = << >>
  /\ claim = "none"
  /\ resume = 0
  /\ outcome = "running"

request == <<command, opts, total, loops>>
answer == <<done, more, at>>
output == <<shown, claim, resume, outcome>>

Goto(label) == pc' = label

\* The client, the tenant, the answer, the limit of pages, the output, the
\* temp file or the rename: nothing is shown, and the old file stays.
Fail ==
  /\ pc \in {"ask", "decide", "write", "close"}
  /\ pc = "decide" => command = "paginate" /\ more /\ page = MaxPages - 1
  /\ Goto("done")
  /\ outcome' = "error"
  /\ UNCHANGED <<request, page, rows, answer, trimmed, shown, claim, resume>>

----------------------------------------------------------------------------
(* The pages.                                                              *)

RowsFrom(start, n) == [i \in 1 .. n |-> start + i]

\* What follows the rows up to `end`: nothing, or another page, which may turn
\* out empty.
Follows(end) ==
  \/ /\ end = total
     /\ done' = ~ loops /\ more' = loops
     /\ at' = IF loops THEN 0 ELSE end
  \/ /\ end > at
     /\ done' = FALSE /\ more' = TRUE /\ at' = end

\* A page.  To `zr api` every answer with a nextPage is one, whatever the form
\* of its data.
Answer ==
  /\ pc = "ask"
  /\ \E n \in 0 .. total - at :
       /\ rows' = rows \o RowsFrom(at, n)
       /\ Follows(at + n)
  /\ Goto("decide")
  /\ UNCHANGED <<request, page, trimmed, output>>

\* JSON that is no page, like the error of a GET, which `zr api` hands on: it
\* leads nowhere.  DoPaginated takes the body for further rows, here one 0, or
\* for none if it is an empty list; `query` finds no rows in it.
Odd == 0
OddAnswer ==
  /\ pc = "ask"
  /\ \/ command = "paginate" /\ rows' = Append(rows, Odd)
     \/ rows' = rows
  /\ done' = FALSE /\ more' = FALSE
  /\ Goto("decide")
  /\ UNCHANGED <<request, page, at, trimmed, output>>

LimitReached == opts.limit > 0 /\ Len(rows) >= opts.limit

\* Mutant: the limit is looked at after another page.
AnyPage == page <= MaxPages
UnderLimit == page < MaxPages - 1

GoesOn ==
  IF command = "query" THEN more /\ ~ done /\ ~ LimitReached ELSE more

\* queryMore, or the next page.
AskMore ==
  /\ pc = "decide" /\ GoesOn
  /\ IF command = "query" THEN UNCHANGED page ELSE UnderLimit /\ page' = page + 1
  /\ Goto("ask")
  /\ UNCHANGED <<request, rows, answer, trimmed, output>>

\* Rows over the limit are cut off.
Collected ==
  /\ pc = "decide" /\ ~ GoesOn
  /\ trimmed' = (opts.limit > 0 /\ Len(rows) > opts.limit)
  /\ rows' = IF trimmed' THEN SubSeq(rows, 1, opts.limit) ELSE rows
  /\ Goto("write")
  /\ UNCHANGED <<request, page, answer, output>>

----------------------------------------------------------------------------
(* The output.                                                             *)

\* Mutant: done as the tenant said it.
DoneAsAnswered == done
IsDone == done /\ ~ trimmed

\* Mutant: a locator is a locator.
LocatorAsAnswered == more
HasLocator == more /\ ~ trimmed

Show ==
  /\ Goto("done")
  /\ outcome' = "ok"
  /\ shown' = rows
  /\ claim' = IF ~ opts.claims THEN "none"
              ELSE IF IsDone THEN "all"
              ELSE IF HasLocator THEN "more" ELSE "none"
  /\ resume' = IF claim' = "more" THEN at ELSE 0

\* To the standard output, or into the temp file.
Write ==
  /\ pc = "write"
  /\ IF opts.export THEN Goto("close") /\ UNCHANGED output ELSE Show
  /\ UNCHANGED <<request, page, rows, answer, trimmed>>

\* The temp file is closed and renamed.
Export ==
  /\ pc = "close"
  /\ Show
  /\ UNCHANGED <<request, page, rows, answer, trimmed>>

Kill ==
  /\ pc # "done"
  /\ Goto("done")
  /\ UNCHANGED <<request, page, rows, answer, trimmed, output>>

Next ==
  \/ Fail \/ Answer \/ OddAnswer \/ AskMore \/ Collected
  \/ Write \/ Export \/ Kill

Spec == Init /\ [][Next]_vars

----------------------------------------------------------------------------
(* Properties.                                                             *)

TypeOK ==
  /\ command \in {"query", "paginate"}
  /\ opts \in Options(command)
  /\ total \in 0 .. MaxTotal
  /\ loops \in BOOLEAN
  /\ pc \in PCs
  /\ page \in 0 .. MaxPages - 1
  /\ rows \in Seq(0 .. MaxTotal)
  /\ done \in BOOLEAN /\ more \in BOOLEAN /\ trimmed \in BOOLEAN
  /\ at \in 0 .. MaxTotal
  /\ shown \in Seq(0 .. MaxTotal)
  /\ claim \in {"all", "more", "none"}
  /\ resume \in 0 .. MaxTotal
  /\ outcome \in {"running", "ok", "error"}

Promise == INSTANCE PagedRead WITH raw <- (command = "paginate")

\* Whatever the pages, the limit and the answers that are no page: `query`
\* gives the first rows without a gap or a double, in one piece or not at all;
\* `done` is said of a complete result only, and a locator goes on behind the
\* last row.  `zr api --paginate` vouches for nothing, but gives the rows in
\* their order too, before an answer that is no page and nothing after it; a
\* row comes twice only where the tenant's pages lead in a circle.
KeepsPromise == Promise!Spec

\* "Fetch all pages automatically" (api.go:57): a command that has shown rows
\* and succeeds has shown every row.
Shown == {shown[i] : i \in DOMAIN shown} \ {Odd}
AllPagesFetched ==
  (command = "paginate" /\ outcome = "ok" /\ Shown # {}) => Shown = 1 .. total
===============================================================================
