----------------------------- MODULE JobPolling -----------------------------
(***************************************************************************)
(* The two commands that wait for a job at the tenant: `data-query run`    *)
(* submits one, polls it and downloads its result; `order job-status       *)
(* --watch` polls one that is there.  Both wait under contexts that end by *)
(* Ctrl-C, by the global --timeout and by deadlines of their own.          *)
(*                                                                         *)
(* A status is a word of the tenant's.  A request is one call of Do: it    *)
(* ends in an answer, which may be older than the job by then, or in an    *)
(* error (ApiClient).                                                      *)
(***************************************************************************)
EXTENDS Naturals

CONSTANTS
  Waiting,     \* the tenant's words for a job that is under way
  Unforeseen   \* words for a job that is over which the program does not know

VARIABLES
  command,  \* "run" or "watch"
  opts,     \* [deadlines: those that were set, output: where the result goes]
  pc,       \* where the command is
  job,      \* the status of the job at the tenant, or "none"
  reply,    \* the answer on its way to the command
  status,   \* the last status the command has seen
  ctx,      \* ctx[c]: what ended context c, or "live"
  tmp,      \* the temp file of the download
  target,   \* the file named by --output
  stdout,   \* what of the result went to the standard output
  result    \* "running", "ok", "killed" or the class of the error

vars == <<command, opts, pc, job, reply, status, ctx, tmp, target, stdout, result>>

Commands == {"run", "watch"}
Deadlines == {"timeout", "waitTimeout", "downloadTimeout"}
Outputs == {"none", "file", "-"}
Options(cmd) ==
  IF cmd = "run" THEN [deadlines : SUBSET Deadlines, output : Outputs]
  ELSE [deadlines : SUBSET {"timeout", "waitTimeout"}, output : {"none"}]

PCs == {"start", "submit", "look", "sleep", "get", "ended", "download", "close", "rename", "done"}

\* The words for a job that is over: what they mean.  Of a job that failed
\* the data query service is also heard in capitals, of one that was
\* cancelled in the American spelling.  What a word nobody foresaw means, the
\* command cannot know.
Meaning == [ completed |-> "success", Completed |-> "success",
             failed    |-> "failure", FAILED    |-> "failure", Failed |-> "failure",
             Error     |-> "failure",
             cancelled |-> "failure", canceled  |-> "failure",
             Cancelled |-> "failure", Canceled  |-> "failure" ]
Foreseen(cmd) ==
  IF cmd = "run" THEN {"completed", "failed", "FAILED", "cancelled", "canceled"}
  ELSE {"Completed", "Failed", "Error", "Cancelled", "Canceled"}
Words(cmd) == Waiting \cup Unforeseen \cup Foreseen(cmd)
Over(word) == word \notin {"none"} \cup Waiting

ASSUME WordsAssumption ==
  /\ Waiting # {} /\ Waiting \cap Unforeseen = {}
  /\ (Waiting \cup Unforeseen) \cap ({"none"} \cup DOMAIN Meaning) = {}

\* strings.ToLower, on the words of the data query service.
ToLower(word) == IF word = "FAILED" THEN "failed" ELSE word

\* Mutant: the American spelling is not in the list.
BritishOnly(word) == word \in {"Completed", "Failed", "Error", "Cancelled"}
isTerminalStatus(word) == word \in {"Completed", "Failed", "Error", "Cancelled", "Canceled"}
IsTerminalStatus(word) == ToLower(word) \in {"completed", "failed", "cancelled", "canceled"}
Terminal(word) == IF command = "run" THEN IsTerminalStatus(word) ELSE isTerminalStatus(word)

----------------------------------------------------------------------------
(* Contexts.  What ends one ends those derived from it.                    *)

Contexts == {"base", "poll", "download"}
Events == Deadlines \cup {"interrupt"}

\* Mutant: the download runs under the context of the polling.
DownloadUnderPoll ==
  [ base     |-> {"interrupt", "timeout"},
    poll     |-> {"interrupt", "timeout", "waitTimeout"},
    download |-> {"interrupt", "timeout", "waitTimeout", "downloadTimeout"} ]
EndedBy ==
  [ base     |-> {"interrupt", "timeout"},
    poll     |-> {"interrupt", "timeout", "waitTimeout"},
    download |-> {"interrupt", "timeout", "downloadTimeout"} ]

\* Context.Err.
Err(c) == CASE ctx[c] = "live" -> "none"
            [] ctx[c] = "interrupt" -> "canceled"
            [] OTHER -> "deadline"

----------------------------------------------------------------------------

Init ==
  /\ command \in Commands
  /\ opts \in Options(command)
  /\ pc = "start"
  /\ job \in IF command = "run" THEN {"none"} ELSE Waiting
  /\ reply = "none"
  /\ status = "none"
  /\ ctx = [c \in Contexts |-> "live"]
  /\ tmp = "none"
  /\ target = "old"
  /\ stdout = "none"
  /\ result = "running"

files == <<tmp, target, stdout>>
world == <<command, opts, job, ctx>>

Goto(label) == pc' = label /\ UNCHANGED result
Return(class) == pc' = "done" /\ result' = class

\* A command line that is refused, a client that cannot be built.
Refuse ==
  /\ pc = "start"
  /\ Return("usage")
  /\ UNCHANGED <<world, reply, status, files>>

Start ==
  /\ pc = "start"
  /\ Goto(IF command = "run" THEN "submit" ELSE "get")
  /\ UNCHANGED <<world, reply, status, files>>

----------------------------------------------------------------------------
(* Requests to the tenant.                                                 *)

Asking == pc \in {"submit", "get"}

\* The error a request under the polling context ends in.
RequestErrors == {"request"} \cup (IF ctx.poll = "live" THEN {} ELSE {Err("poll")})

\* Mutant: any end of the context is called a wait that was given up.
AnyEndGivesUp(class) ==
  IF "waitTimeout" \in opts.deadlines /\ Err("poll") # "none" THEN "gave up" ELSE class
\* A local deadline is set and the polling context ended by one.
WaitError(class) ==
  IF "waitTimeout" \in opts.deadlines /\ Err("poll") = "deadline" THEN "gave up" ELSE class

\* A request is not sent once its context has ended, and what is served after
\* that nobody waits for.
Heard == reply = "none" /\ ctx.poll = "live"

\* The job is accepted; the answer tells its status at that moment.
Accept ==
  /\ pc = "submit" /\ Heard /\ job = "none"
  /\ job' \in Words(command) /\ reply' = job'
  /\ UNCHANGED <<command, opts, pc, ctx, status, files, result>>

\* The tenant answers a poll.
Answer ==
  /\ pc = "get" /\ Heard
  /\ reply' = job
  /\ UNCHANGED <<world, pc, status, files, result>>

\* The request fails, before or after the tenant has served it.
RequestFails ==
  /\ Asking
  /\ \E class \in RequestErrors : Return(IF pc = "submit" THEN class ELSE WaitError(class))
  /\ UNCHANGED <<world, reply, status, files>>

\* The answer does not decode, or names no job.
BadAnswer ==
  /\ Asking /\ reply # "none"
  /\ Return("answer")
  /\ UNCHANGED <<world, reply, status, files>>

Receive ==
  /\ Asking /\ reply # "none"
  /\ status' = reply /\ reply' = "none"
  /\ Goto("look")
  /\ UNCHANGED <<world, files>>

----------------------------------------------------------------------------
(* The polling loop.                                                       *)

Look ==
  /\ pc = "look"
  /\ Goto(IF Terminal(status) THEN "ended" ELSE "sleep")
  /\ UNCHANGED <<world, reply, status, files>>

\* SleepContext: the timer, or the context.  Both may be there.
Wake ==
  /\ pc = "sleep"
  /\ Goto("get")
  /\ UNCHANGED <<world, reply, status, files>>

SleepEnds ==
  /\ pc = "sleep" /\ ctx.poll # "live"
  /\ Return(WaitError(Err("poll")))
  /\ UNCHANGED <<world, reply, status, files>>

\* order job-status shows the job, however it ended.
ShowJob ==
  /\ pc = "ended" /\ command = "watch"
  /\ \E class \in {"ok", "format"} : Return(class)
  /\ UNCHANGED <<world, reply, status, files>>

\* Mutant: the status is compared as it was spelled.
FailedAsSpelled(word) == word \in {"failed", "cancelled", "canceled"}
Failed(word) == ToLower(word) \in {"failed", "cancelled", "canceled"}

ReportFailure ==
  /\ pc = "ended" /\ command = "run" /\ Failed(status)
  /\ Return("job failed")
  /\ UNCHANGED <<world, reply, status, files>>

ShowQuery ==
  /\ pc = "ended" /\ command = "run" /\ ~ Failed(status) /\ opts.output = "none"
  /\ \E class \in {"ok", "format"} : Return(class)
  /\ UNCHANGED <<world, reply, status, files>>

----------------------------------------------------------------------------
(* The download.                                                           *)

\* No URL in the answer, or no temp file beside the target.
CannotDownload ==
  /\ pc = "ended" /\ command = "run" /\ ~ Failed(status) /\ opts.output # "none"
  /\ Return("download")
  /\ UNCHANGED <<world, reply, status, files>>

StartDownload ==
  /\ pc = "ended" /\ command = "run" /\ ~ Failed(status) /\ opts.output # "none"
  /\ Goto("download")
  /\ IF opts.output = "file" THEN tmp' = "empty" /\ UNCHANGED stdout
     ELSE stdout' = "empty" /\ UNCHANGED tmp
  /\ UNCHANGED <<world, reply, status, target>>

More(bytes) == IF bytes = "empty" THEN "part" ELSE "whole"

\* io.Copy, in two pieces.
Copy ==
  /\ pc = "download"
  /\ IF opts.output = "file" THEN tmp \in {"empty", "part"} /\ tmp' = More(tmp) /\ UNCHANGED stdout
     ELSE stdout \in {"empty", "part"} /\ stdout' = More(stdout) /\ UNCHANGED tmp
  /\ UNCHANGED <<world, pc, reply, status, target, result>>

\* The end of the body; a stream to the standard output is done.
Copied ==
  /\ pc = "download"
  /\ IF opts.output = "file" THEN tmp = "whole" /\ Goto("close")
     ELSE stdout = "whole" /\ Return("ok")
  /\ UNCHANGED <<world, reply, status, files>>

\* A deadline of the download context counts, whatever the error was.
\* Mutant: the error of the context stands for that of the download.
ContextError == {Err("download")}
DownloadErrors ==
  CASE Err("download") = "deadline" -> {"timed out"}
    [] Err("download") = "canceled" -> {"canceled", "download"}
    [] OTHER -> {"download"}

\* The temp file is removed, the target is left alone.
Abandon ==
  /\ tmp' = IF tmp = "none" THEN "none" ELSE "removed"
  /\ \E class \in DownloadErrors : Return(class)
  /\ UNCHANGED <<world, reply, status, target, stdout>>

\* The server refuses or breaks off, the disk is full, the context ends; the
\* rename fails.
DownloadFails == pc \in {"download", "rename"} /\ Abandon

\* Mutant: the error of Close is dropped.
CloseUnchecked(failed) == FALSE
CloseFailed(failed) == failed

\* What Close cannot write is missing in the file.
Close ==
  /\ pc = "close"
  /\ \E failed \in BOOLEAN :
       IF CloseFailed(failed) THEN Abandon
       ELSE /\ tmp' = IF failed THEN "part" ELSE tmp
            /\ Goto("rename")
            /\ UNCHANGED <<world, reply, status, target, stdout>>

Rename ==
  /\ pc = "rename"
  /\ target' = tmp /\ tmp' = "none"
  /\ Return("ok")
  /\ UNCHANGED <<world, reply, status, stdout>>

----------------------------------------------------------------------------
(* The job, the clocks and the user.                                       *)

\* The job goes on, or ends in one of the ways there are.
JobMoves ==
  /\ job \in Waiting
  /\ job' \in Words(command) \ {job}
  /\ UNCHANGED <<command, opts, pc, reply, status, ctx, files, result>>

End(event) ==
  /\ ctx' = [c \in Contexts |-> IF ctx[c] = "live" /\ event \in EndedBy[c] THEN event ELSE ctx[c]]
  /\ ctx' # ctx
  /\ UNCHANGED <<command, opts, pc, job, reply, status, files, result>>

\* The global deadline runs from before the command, the others from where
\* the code derives their context.
Running(deadline) ==
  CASE deadline = "timeout" -> pc # "done"
    [] deadline = "waitTimeout" -> pc \notin {"start", "done"}
    [] deadline = "downloadTimeout" -> pc \in {"download", "close", "rename"}

Expire(deadline) ==
  /\ deadline \in opts.deadlines /\ Running(deadline)
  /\ End(deadline)

Interrupt == pc # "done" /\ End("interrupt")

Kill ==
  /\ pc # "done"
  /\ Return("killed")
  /\ UNCHANGED <<world, reply, status, files>>

Client ==
  \/ Refuse \/ Start \/ RequestFails \/ BadAnswer \/ Receive
  \/ Look \/ Wake \/ SleepEnds \/ ShowJob \/ ReportFailure \/ ShowQuery
  \/ CannotDownload \/ StartDownload \/ Copied \/ Close \/ Rename

Next ==
  \/ Client \/ Copy \/ DownloadFails
  \/ Accept \/ Answer \/ JobMoves
  \/ \E deadline \in Deadlines : Expire(deadline)
  \/ Interrupt \/ Kill

Spec == Init /\ [][Next]_vars

\* The process runs, a request ends at the latest in the timeout of the HTTP
\* client, a clock that was set goes off, and what hangs on a context that
\* has ended is broken off.  The server of the result owes no byte: the
\* client of the download has no timeout.
Aborted == ctx.download # "live" /\ DownloadFails
Fairness ==
  /\ WF_vars(Client)
  /\ WF_vars(Aborted)
  /\ \A deadline \in Deadlines : WF_vars(Expire(deadline))
FairSpec == Spec /\ Fairness

----------------------------------------------------------------------------
(* Properties.                                                             *)

Bytes == {"none", "empty", "part", "whole"}
Classes == {"running", "ok", "killed", "usage", "request", "canceled", "deadline", "gave up",
            "answer", "format", "job failed", "download", "timed out"}

TypeOK ==
  /\ command \in Commands
  /\ opts \in Options(command)
  /\ pc \in PCs
  /\ job \in Words(command) \cup {"none"}
  /\ reply \in Words(command) \cup {"none"}
  /\ status \in Words(command) \cup {"none"}
  /\ ctx \in [Contexts -> Events \cup {"live"}]
  /\ tmp \in Bytes \cup {"removed"}
  /\ target \in Bytes \cup {"old"}
  /\ stdout \in Bytes
  /\ result \in Classes

\* What the exit says of the job is so, at the tenant and not only in an
\* answer: `data-query run` succeeds only with a job that succeeded, its
\* result whole where the user wanted it, and calls a job failed only if it
\* did; a watch that succeeds shows a job that is over.
SaysWhatHappened ==
  /\ result = "ok" => Over(job)
  /\ result = "ok" /\ command = "run" =>
       /\ job \in Foreseen("run") /\ Meaning[job] = "success"
       /\ opts.output = "file" => target = "whole"
       /\ opts.output = "-" => stdout = "whole"
  /\ result = "job failed" => job \in Foreseen("run") /\ Meaning[job] = "failure"

\* The file at --output is the old one or the whole new one, at every moment
\* and so after a kill; a command that fails has left the old one and no
\* temp file.
TargetKept ==
  /\ target \in {"old", "whole"}
  /\ result \notin {"running", "ok", "killed"} => target = "old" /\ tmp \in {"none", "removed"}

\* What the command blames for its end has happened: it gave up waiting
\* because a deadline ended the wait, with --wait-timeout given, it timed out
\* because the download's own deadline or the global one had passed, never
\* that of the wait before it; Ctrl-C is never dressed up as either.
EndIsExplained ==
  /\ result = "gave up" => "waitTimeout" \in opts.deadlines
                           /\ ctx.poll \in {"timeout", "waitTimeout"}
  /\ result = "timed out" => ctx.download \in {"timeout", "downloadTimeout"}
  /\ result = "canceled" => "interrupt" \in {ctx.poll, ctx.download}

\* A wait that is bounded by deadlines comes to an end, Ctrl-C ends it, and
\* so does the end of the job under any word the documentation has for it.
Bounded ==
  \/ "timeout" \in opts.deadlines
  \/ "waitTimeout" \in opts.deadlines /\ (opts.output = "none" \/ "downloadTimeout" \in opts.deadlines)
Returns ==
  /\ Bounded ~> pc = "done"
  /\ ctx.base = "interrupt" ~> pc = "done"
  /\ Over(job) /\ job \notin Unforeseen ~> pc \in {"download", "done"}
=============================================================================
