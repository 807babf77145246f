--------------------------- MODULE JobPollingProofs ---------------------------
(***************************************************************************)
(* The safety properties of JobPolling, proved for every length of a run:  *)
(* any number of polls and answers, every moment at which a context can    *)
(* end, the process can be killed and the tenant can move the job on, and  *)
(* whatever words the tenant has for a job that the program does not know. *)
(***************************************************************************)
EXTENDS JobPolling, TLAPS

(* The parts of the inductive invariant.                                   *)

\* A job that is over stays as it is, so a final word that was once heard is
\* still the status of the job, however long ago it was heard.
WordsStand ==
  /\ pc = "start" \/ job = "none" => reply = "none" /\ status = "none"
  /\ Over(reply) => job = reply
  /\ Over(status) => job = status

\* What the command has checked by the time it gets where it is.
Checked ==
  /\ pc \in {"ended", "download", "close", "rename"} => Terminal(status)
  /\ pc \in {"download", "close", "rename"} =>
       command = "run" /\ ~Failed(status) /\ opts.output # "none"
  /\ pc \in {"close", "rename"} => opts.output = "file"
  /\ pc = "done" <=> result # "running"

\* The files, by where the command is.
Files ==
  /\ pc # "done" => target = "old"
  /\ pc \notin {"download", "close", "rename", "done"} => tmp = "none" /\ stdout = "none"
  /\ pc = "download" /\ opts.output = "file" => tmp \in {"empty", "part", "whole"}
  /\ pc \in {"close", "rename"} => tmp = "whole"

\* A context ends by one of its own events.
Ends == \A c \in Contexts : ctx[c] \in {"live"} \cup EndedBy[c]

IInv ==
  /\ TypeOK
  /\ WordsStand
  /\ Checked
  /\ Files
  /\ Ends
  /\ SaysWhatHappened
  /\ TargetKept
  /\ EndIsExplained

----------------------------------------------------------------------------
(* The words.                                                              *)

\* A final status is of a job that is over, and what the command makes of it
\* is what it means.
LEMMA FinalWords ==
  ASSUME command \in Commands, NEW w \in Words(command) \cup {"none"}, Terminal(w)
  PROVE  /\ Over(w)
         /\ command = "run" => w \in Foreseen("run")
         /\ command = "run" /\ ~Failed(w) => Meaning[w] = "success"
         /\ command = "run" /\ Failed(w) => Meaning[w] = "failure"
<1>1. CASE command = "run"
  <2>1. w \in {"completed", "failed", "FAILED", "cancelled", "canceled"}
    BY <1>1 DEF Terminal, IsTerminalStatus, ToLower
  <2>2. w \in Foreseen("run") /\ w \in DOMAIN Meaning
    BY <2>1 DEF Foreseen, Meaning
  <2>3. Over(w)
    BY <2>1, <2>2, WordsAssumption DEF Over
  <2>4. ~Failed(w) => Meaning[w] = "success"
    BY <2>1 DEF Failed, ToLower, Meaning
  <2>5. Failed(w) => Meaning[w] = "failure"
    BY <2>1 DEF Failed, ToLower, Meaning
  <2>6. QED
    BY <2>2, <2>3, <2>4, <2>5
<1>2. CASE command = "watch"
  <2>1. w \in {"Completed", "Failed", "Error", "Cancelled", "Canceled"}
    BY <1>2 DEF Terminal, isTerminalStatus
  <2>2. w \in DOMAIN Meaning
    BY <2>1 DEF Meaning
  <2>3. Over(w)
    BY <2>1, <2>2, WordsAssumption DEF Over
  <2>4. QED
    BY <1>2, <2>3
<1>3. QED
  BY <1>1, <1>2 DEF Commands

LEMMA SomeWords ==
  ASSUME NEW cmd
  PROVE  "none" \notin Words(cmd) /\ Waiting \subseteq Words(cmd)
<1>1. "none" \notin Foreseen(cmd)
  BY DEF Foreseen
<1>2. QED
  BY <1>1, WordsAssumption DEF Words

----------------------------------------------------------------------------
(* The steps.                                                              *)

LEMMA InitHolds == Init => IInv
  BY SomeWords DEF Init, IInv, TypeOK, WordsStand, Checked, Files, Ends, SaysWhatHappened,
     TargetKept, EndIsExplained, Commands, Options, PCs, Contexts, Events, Bytes, Classes, Over, EndedBy

\* A command that gives up or is refused has nothing to answer for but the
\* reason it gives.
LEMMA ReturnHolds ==
  ASSUME IInv, NEW class \in Classes \ {"running", "ok", "killed", "job failed"}, Return(class),
         UNCHANGED <<world, reply, status, stdout, target>>, pc # "done",
         tmp' \in {"none", "removed"},
         class = "gave up" => "waitTimeout" \in opts.deadlines /\ ctx.poll \in {"timeout", "waitTimeout"},
         class = "timed out" => ctx.download \in {"timeout", "downloadTimeout"},
         class = "canceled" => "interrupt" \in {ctx.poll, ctx.download}
  PROVE  IInv'
<1>1. TypeOK'
  BY DEF IInv, TypeOK, Return, world, PCs, Bytes
<1>2. WordsStand'
  BY DEF IInv, WordsStand, Return, world
<1>3. Checked' /\ Files'
  BY DEF IInv, Checked, Files, Return, world, Classes
<1>4. Ends'
  BY DEF IInv, Ends, world
<1>5. SaysWhatHappened' /\ TargetKept'
  BY DEF IInv, SaysWhatHappened, TargetKept, Files, Return, world
<1>6. EndIsExplained'
  BY DEF IInv, EndIsExplained, Return, world
<1>7. QED
  BY <1>1, <1>2, <1>3, <1>4, <1>5, <1>6 DEF IInv

\* The command moves on, and its files stay.
LEMMA GotoHolds ==
  ASSUME IInv, NEW label \in PCs \ {"start", "download", "close", "rename", "done"}, Goto(label),
         pc \in {"start", "submit", "look", "sleep", "get"},
         label = "ended" => Terminal(status),
         UNCHANGED <<world, reply, status, files>>
  PROVE  IInv'
  BY DEF IInv, TypeOK, WordsStand, Checked, Files, Ends, SaysWhatHappened, TargetKept, EndIsExplained,
         Goto, world, files, PCs, Terminal

\* The errors a request or a wait can end in, and what they say of the contexts.
LEMMA ErrExplained ==
  ASSUME IInv
  PROVE  /\ Err("poll") = "canceled" => ctx.poll = "interrupt"
         /\ Err("poll") = "deadline" => ctx.poll \in {"timeout", "waitTimeout"}
         /\ Err("download") = "canceled" => ctx.download = "interrupt"
         /\ Err("download") = "deadline" => ctx.download \in {"timeout", "downloadTimeout"}
  BY DEF IInv, Ends, Err, Contexts, EndedBy

LEMMA WaitErrorHolds ==
  ASSUME IInv, NEW class \in {"request", Err("poll")}, class \in Classes,
         Return(class) \/ Return(WaitError(class)),
         UNCHANGED <<world, reply, status, files>>,
         pc \in {"submit", "get", "sleep"}, ctx.poll = "live" => class = "request"
  PROVE  IInv'
<1> DEFINE c == IF result' = class THEN class ELSE WaitError(class)
<1>1. Return(c)
  BY DEF Return
<1>2. c \in {"request", "deadline", "canceled", "gave up"}
  BY DEF Err, WaitError
<1>3. c = "gave up" => "waitTimeout" \in opts.deadlines /\ ctx.poll \in {"timeout", "waitTimeout"}
  BY ErrExplained DEF WaitError, Err
<1>4. c = "canceled" => "interrupt" \in {ctx.poll, ctx.download}
  BY ErrExplained DEF WaitError, Err
<1>5. tmp = "none" /\ tmp' = tmp /\ UNCHANGED <<stdout, target>>
  BY DEF IInv, Files, files
<1> HIDE DEF c
<1>6. QED
  BY <1>1, <1>2, <1>3, <1>4, <1>5, ReturnHolds DEF Classes

LEMMA AbandonHolds ==
  ASSUME IInv, pc \in {"download", "close", "rename"}, Abandon
  PROVE  IInv'
<1>0. PICK class \in DownloadErrors : Return(class)
  BY DEF Abandon
<1>1. class \in {"timed out", "canceled", "download"}
  BY DEF DownloadErrors
<1>2. class = "timed out" => ctx.download \in {"timeout", "downloadTimeout"}
  BY ErrExplained DEF DownloadErrors
<1>3. class = "canceled" => "interrupt" \in {ctx.poll, ctx.download}
  BY ErrExplained DEF DownloadErrors, Err
<1>4. tmp' \in {"none", "removed"} /\ UNCHANGED <<world, reply, status, stdout, target>>
  BY DEF Abandon
<1>5. QED
  BY <1>0, <1>1, <1>2, <1>3, <1>4, ReturnHolds DEF Classes

LEMMA NextHolds == IInv /\ [Next]_vars => IInv'
<1> SUFFICES ASSUME IInv, [Next]_vars PROVE IInv'
  OBVIOUS
<1> USE DEF IInv
<1>1. CASE Refuse
  <2>1. tmp = "none" /\ tmp' = tmp
    BY <1>1 DEF Refuse, Files, files
  <2>2. QED
    BY <1>1, <2>1, ReturnHolds DEF Refuse, files, Classes
<1>2. CASE Start
  BY <1>2, GotoHolds DEF Start, PCs
<1>3. CASE RequestFails
  BY <1>3, WaitErrorHolds DEF RequestFails, Asking, RequestErrors, Err, Classes
<1>4. CASE BadAnswer
  <2>1. tmp = "none" /\ tmp' = tmp
    BY <1>4 DEF BadAnswer, Asking, Files, files
  <2>2. QED
    BY <1>4, <2>1, ReturnHolds DEF BadAnswer, Asking, files, Classes
<1>5. CASE Receive
  BY <1>5 DEF Receive, Asking, Goto, world, files, TypeOK, PCs, WordsStand, Checked, Files, Ends,
     SaysWhatHappened, TargetKept, EndIsExplained, Over, Terminal
<1>6. CASE Look
  BY <1>6, GotoHolds DEF Look, PCs
<1>7. CASE Wake
  BY <1>7, GotoHolds DEF Wake, PCs
<1>8. CASE SleepEnds
  <2>1. Err("poll") \in Classes
    BY <1>8 DEF SleepEnds, Err, Classes
  <2>2. QED
    BY <1>8, <2>1, WaitErrorHolds DEF SleepEnds
<1>9. CASE ShowJob
  <2>1. Over(job)
    BY <1>9, FinalWords DEF ShowJob, TypeOK, Checked, WordsStand
  <2>2. QED
    BY <1>9, <2>1 DEF ShowJob, Return, world, files, TypeOK, PCs, Classes, WordsStand, Checked, Files,
       Ends, SaysWhatHappened, TargetKept, EndIsExplained, Terminal
<1>10. CASE ReportFailure
  <2>1. job = status /\ job \in Foreseen("run") /\ Meaning[status] = "failure"
    BY <1>10, FinalWords DEF ReportFailure, TypeOK, Checked, WordsStand
  <2>2. QED
    BY <1>10, <2>1 DEF ReportFailure, Return, world, files, TypeOK, PCs, Classes, WordsStand, Checked,
       Files, Ends, SaysWhatHappened, TargetKept, EndIsExplained, Terminal
<1>11. CASE ShowQuery
  <2>1. Over(job) /\ job \in Foreseen("run") /\ Meaning[job] = "success"
    BY <1>11, FinalWords DEF ShowQuery, TypeOK, Checked, WordsStand
  <2>2. QED
    BY <1>11, <2>1 DEF ShowQuery, Return, world, files, TypeOK, PCs, Classes, WordsStand, Checked, Files,
       Ends, SaysWhatHappened, TargetKept, EndIsExplained, Terminal
<1>12. CASE CannotDownload
  <2>1. tmp = "none" /\ tmp' = tmp
    BY <1>12 DEF CannotDownload, Files, files
  <2>2. QED
    BY <1>12, <2>1, ReturnHolds DEF CannotDownload, files, Classes
<1>13. CASE StartDownload
  BY <1>13 DEF StartDownload, Goto, world, TypeOK, PCs, Bytes, Options, Outputs, WordsStand, Checked,
     Files, Ends, SaysWhatHappened, TargetKept, EndIsExplained, Terminal, Failed
<1>14. CASE Copy
  BY <1>14 DEF Copy, More, world, TypeOK, Bytes, WordsStand, Checked, Files, Ends, SaysWhatHappened,
     TargetKept, EndIsExplained, Terminal, Failed
<1>15. CASE Copied
  <2>1. Over(job) /\ job \in Foreseen("run") /\ Meaning[job] = "success"
    BY <1>15, FinalWords DEF Copied, TypeOK, Checked, WordsStand
  <2>2. opts.output \in {"file", "-"}
    BY <1>15 DEF Copied, TypeOK, Options, Outputs, Checked, Commands
  <2>3. QED
    BY <1>15, <2>1, <2>2 DEF Copied, Goto, Return, world, files, TypeOK, PCs, Classes, WordsStand, Checked,
       Files, Ends, SaysWhatHappened, TargetKept, EndIsExplained, Terminal, Failed
<1>16. CASE DownloadFails
  BY <1>16, AbandonHolds DEF DownloadFails
<1>17. CASE Close
  <2> PICK failed \in BOOLEAN : IF failed THEN Abandon
                                ELSE /\ tmp' = tmp /\ Goto("rename")
                                     /\ UNCHANGED <<world, reply, status, target, stdout>>
    BY <1>17 DEF Close, CloseFailed
  <2>1. CASE failed
    BY <1>17, <2>1, AbandonHolds DEF Close
  <2>2. CASE ~failed
    BY <1>17, <2>2 DEF Close, Goto, world, TypeOK, PCs, WordsStand, Checked, Files, Ends,
       SaysWhatHappened, TargetKept, EndIsExplained, Terminal, Failed
  <2>3. QED
    BY <2>1, <2>2
<1>18. CASE Rename
  <2>1. Over(job) /\ job \in Foreseen("run") /\ Meaning[job] = "success"
    BY <1>18, FinalWords DEF Rename, TypeOK, Checked, WordsStand
  <2>2. QED
    BY <1>18, <2>1 DEF Rename, Return, world, TypeOK, PCs, Bytes, Classes, WordsStand, Checked, Files, Ends,
       SaysWhatHappened, TargetKept, EndIsExplained, Terminal, Failed
<1>19. CASE Accept
  <2>1. job' # "none" /\ job' \in Words(command)
    BY <1>19, SomeWords DEF Accept
  <2>2. QED
    BY <1>19, <2>1 DEF Accept, Heard, files, TypeOK, WordsStand, Checked, Files, Ends, SaysWhatHappened,
       TargetKept, EndIsExplained, Over, Terminal, Failed
<1>20. CASE Answer
  BY <1>20 DEF Answer, Heard, world, files, TypeOK, WordsStand, Checked, Files, Ends, SaysWhatHappened,
     TargetKept, EndIsExplained, Over, Terminal, Failed
<1>21. CASE JobMoves
  <2>1. job' # "none" /\ job' \in Words(command)
    BY <1>21, SomeWords DEF JobMoves
  <2>2. ~Over(job)
    BY <1>21 DEF JobMoves, Over
  <2>3. TypeOK' /\ Files' /\ TargetKept'
    BY <1>21, <2>1 DEF JobMoves, files, TypeOK, Files, TargetKept
  <2>4. WordsStand' /\ SaysWhatHappened'
    <3>1. job \notin Foreseen("run")
      BY <1>21, WordsAssumption DEF JobMoves, Foreseen, Meaning
    <3>2. QED
      BY <1>21, <2>1, <2>2, <3>1 DEF JobMoves, files, WordsStand, SaysWhatHappened, Over
  <2>5. Checked'
    BY <1>21 DEF JobMoves, Checked, Terminal, Failed
  <2>6. Ends' /\ EndIsExplained'
    BY <1>21 DEF JobMoves, Ends, EndIsExplained
  <2>7. QED
    BY <2>3, <2>4, <2>5, <2>6
<1>22. ASSUME NEW event \in Events, End(event), UNCHANGED result PROVE IInv'
  <2>1. \A c \in Contexts : /\ ctx[c] # "live" => ctx'[c] = ctx[c]
                           /\ ctx'[c] \in {ctx[c]} \cup EndedBy[c]
    BY <1>22 DEF End
  <2>2. ctx' \in [Contexts -> Events \cup {"live"}]
    BY <1>22 DEF End, TypeOK
  <2>3. /\ TypeOK' /\ WordsStand' /\ Files'
        /\ Checked'
        /\ SaysWhatHappened' /\ TargetKept'
    <3>1. TypeOK' /\ WordsStand' /\ Files'
      BY <1>22, <2>2 DEF End, files, TypeOK, WordsStand, Files
    <3>2. Checked'
      BY <1>22 DEF End, Checked, Terminal, Failed
    <3>3. SaysWhatHappened' /\ TargetKept'
      BY <1>22 DEF End, files, SaysWhatHappened, TargetKept
    <3>4. QED
      BY <3>1, <3>2, <3>3
  <2>4. Ends'
    BY <2>1 DEF Ends
  <2>5. EndIsExplained'
    BY <1>22, <2>1 DEF End, EndIsExplained, Contexts, EndedBy
  <2>6. QED
    BY <2>3, <2>4, <2>5
<1>23. CASE \E deadline \in Deadlines : Expire(deadline)
  BY <1>22, <1>23 DEF Expire, End, Events, Deadlines
<1>24. CASE Interrupt
  BY <1>22, <1>24 DEF Interrupt, End, Events
<1>25. CASE Kill
  BY <1>25 DEF Kill, Return, world, files, TypeOK, PCs, Classes, WordsStand, Checked, Files, Ends,
     SaysWhatHappened, TargetKept, EndIsExplained
<1>26. CASE UNCHANGED vars
  <2>1. TypeOK' /\ WordsStand' /\ Files' /\ Ends'
    BY <1>26 DEF vars, TypeOK, WordsStand, Files, Ends
  <2>2. Checked'
    BY <1>26 DEF vars, Checked, Terminal, Failed
  <2>3. SaysWhatHappened' /\ TargetKept' /\ EndIsExplained'
    BY <1>26 DEF vars, SaysWhatHappened, TargetKept, EndIsExplained
  <2>4. QED
    BY <2>1, <2>2, <2>3
<1>27. QED
  BY <1>1, <1>2, <1>3, <1>4, <1>5, <1>6, <1>7, <1>8, <1>9, <1>10, <1>11, <1>12, <1>13, <1>14, <1>15,
     <1>16, <1>17, <1>18, <1>19, <1>20, <1>21, <1>23, <1>24, <1>25, <1>26 DEF Next, Client

----------------------------------------------------------------------------
(* The theorems.                                                           *)

\* Every run keeps the inductive invariant.
THEOREM Invariant == Spec => []IInv
<1>1. Init => IInv
  BY InitHolds
<1>2. IInv /\ [Next]_vars => IInv'
  BY NextHolds
<1>3. QED
  BY <1>1, <1>2, PTL DEF Spec

\* The variables stay in their types.
THEOREM Typing == Spec => []TypeOK
<1>1. IInv => TypeOK
  BY DEF IInv
<1>2. QED
  BY <1>1, Invariant, PTL

\* What the exit of `data-query run` and of a watch says of the job is so at
\* the tenant, and a result that was reported is whole.
THEOREM Truthful == Spec => []SaysWhatHappened
<1>1. IInv => SaysWhatHappened
  BY DEF IInv
<1>2. QED
  BY <1>1, Invariant, PTL

\* The file at --output is never a part of the result, and a command that
\* fails leaves the old file and no temp file behind.
THEOREM WholeOrOld == Spec => []TargetKept
<1>1. IInv => TargetKept
  BY DEF IInv
<1>2. QED
  BY <1>1, Invariant, PTL

\* The reason a command gives for its end has happened.
THEOREM ReasonsHold == Spec => []EndIsExplained
<1>1. IInv => EndIsExplained
  BY DEF IInv
<1>2. QED
  BY <1>1, Invariant, PTL

===============================================================================
