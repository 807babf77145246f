----------------------------- MODULE CommandRun -----------------------------
(***************************************************************************)
(* One run of one command, from the global flags to the exit: the steps of *)
(* its RunE in the order of the code, each of which may end it, the gate   *)
(* of read-only mode, the tenant, and the way the answer is shown.         *)
(*                                                                         *)
(* What the user typed is chosen where the code first looks at it.  Do is  *)
(* ApiClient's business: here it refuses, loses or delivers a request.     *)
(***************************************************************************)
EXTENDS CommandTable, ReadOnlyPaths

CONSTANTS
  Names,       \* the commands that may be run
  Keys,        \* values of arguments and of the flags that enter a path
  RawMethods,  \* methods given to zr api
  Typed        \* output formats asked for

Formats == {"plain", "json", "csv", "jq", "template", "badjq", "badtemplate"}

\* A command escapes its arguments: none of them starts a fragment.
ASSUME KeysAssumption == Keys \cap Hashes = {}
ASSUME NamesAssumption == Names \subseteq DOMAIN commands
ASSUME TypedAssumption == Typed \subseteq Formats \cup {"json and template"}

VARIABLES
  name,     \* the command
  todo,     \* its steps still to come
  typed,    \* what has been read of the user's flags
  mode,     \* the client's read-only settings, and what the user asked for
  sent,     \* the requests that left the process
  applied,  \* the tenant carried out a request that is not a read
  answer,   \* the last 2xx answer
  printed,  \* the flags of the command the pagination hint prints
  result    \* "running", "ok" or the class of the error

vars == <<name, todo, typed, mode, sent, applied, answer, printed, result>>

Cmd == commands[name]

Steps == {"apply", "usage", "confirm", "csv", "client", "body", "file",
          "send", "more", "render", "hint"}
Contents == {"object", "array", "malformed", "empty", "unreadable"}
Bodies == {"object", "array", "text", "empty"}
Nexts == {"none", "page", "opaque"}

\* Errors that end a command before it asks the tenant for anything.
Refusals == {"usage", "unconfirmed", "csv", "config", "body"}
Results == {"running", "ok", "blocked", "refused", "lost", "unreadable", "format", "panic"}
           \cup Refusals

Init ==
  /\ name \in Names
  /\ todo = <<"apply", "usage">> \o commands[name].steps
  /\ typed = [options |-> {}, format |-> "plain", confirm |-> FALSE, body |-> "empty"]
  /\ mode = [readOnly |-> FALSE, allowDataQuery |-> FALSE, asked |-> "open"]
  /\ sent = {}
  /\ applied = FALSE
  /\ answer = [body |-> "empty", next |-> "none"]
  /\ printed = {}
  /\ result = "running"

At(step) == result = "running" /\ todo # <<>> /\ Head(todo) = step
Advance == /\ todo' = Tail(todo)
           /\ result' = IF Tail(todo) = <<>> THEN "ok" ELSE "running"
Fail(class) == result' = class /\ UNCHANGED todo
AdvanceOr(ok, class) == IF ok THEN Advance ELSE Fail(class)

----------------------------------------------------------------------------
(* The persistent flags: globalflags.Apply.                                *)

FlagValues == {"absent", "true", "false"}
VariableValues == {"unset", "off", "on", "unclear"}
Settings == [roFlag : FlagValues, roVar : VariableValues,
             dqFlag : FlagValues, dqVar : VariableValues]

\* Mutant: a value the program does not know leaves the client writable.
UnclearIsOff(v) == v = "on"
EnvReadOnly(v) == v \notin {"unset", "off"}
EnvReadOnlyAllowDataQuery(v) == v = "on"
Resolved(flag, variable) == IF flag = "absent" THEN variable ELSE flag = "true"

\* What the settings ask for: writes, reads only, or reads and Data Query
\* jobs.  Read-only ends only where a clear word says so, the opt-in begins
\* only where one does.
Asked(s) ==
  CASE s.roFlag = "false" \/ (s.roFlag = "absent" /\ s.roVar \in {"unset", "off"}) -> "open"
    [] OTHER -> IF s.dqFlag = "true" \/ (s.dqFlag = "absent" /\ s.dqVar = "on")
                THEN "queries" ELSE "closed"

\* --json with --template is refused; default_output=json applies when no
\* format was asked for and the output is not a terminal.
Apply ==
  /\ At("apply")
  /\ \E s \in Settings, f \in Typed, piped \in BOOLEAN :
       /\ mode' = [readOnly |-> Resolved(s.roFlag, EnvReadOnly(s.roVar)),
                   allowDataQuery |-> Resolved(s.dqFlag, EnvReadOnlyAllowDataQuery(s.dqVar)),
                   asked |-> Asked(s)]
       /\ IF f = "json and template"
          THEN Fail("usage") /\ UNCHANGED typed
          ELSE /\ Advance
               /\ typed' = [typed EXCEPT !.format = IF f = "plain" /\ piped THEN "json" ELSE f]
  /\ UNCHANGED <<name, sent, applied, answer, printed>>

----------------------------------------------------------------------------
(* What a command checks before it sends anything.                         *)

\* cobra's required flags and the command's own rules.
CheckUsage ==
  /\ At("usage")
  /\ \E o \in Cmd.inputs :
       /\ typed' = [typed EXCEPT !.options = o]
       /\ AdvanceOr(o \in Cmd.accepts, "usage")
  /\ UNCHANGED <<name, mode, sent, applied, answer, printed>>

RequireConfirm ==
  /\ At("confirm")
  /\ \E confirm \in BOOLEAN :
       /\ typed' = [typed EXCEPT !.confirm = confirm]
       /\ AdvanceOr(confirm, "unconfirmed")
  /\ UNCHANGED <<name, mode, sent, applied, answer, printed>>

\* Format records that --csv stands alone: --json, --jq and --template win
\* over it.
RejectBareCSV ==
  /\ At("csv")
  /\ AdvanceOr(typed.format # "csv", "csv")
  /\ UNCHANGED <<name, typed, mode, sent, applied, answer, printed>>

\* The configuration does not load, or names no such environment.
HttpClient ==
  /\ At("client")
  /\ \E ok \in BOOLEAN : AdvanceOr(ok, "config")
  /\ UNCHANGED <<name, typed, mode, sent, applied, answer, printed>>

\* An empty --body is an error where the flag is needed, and no --body where
\* it is not.
ResolveBody ==
  /\ At("body")
  /\ IF "body" \notin typed.options
     THEN Advance /\ UNCHANGED typed
     ELSE \E b \in Contents : /\ typed' = [typed EXCEPT !.body = b]
                              /\ AdvanceOr(/\ b \in Cmd.bodies
                                           /\ b = "empty" => typed.options \ {"body"} \in Cmd.accepts,
                                           "body")
  /\ UNCHANGED <<name, mode, sent, applied, answer, printed>>

\* A file that is not JSON: the SQL of a Data Query, the CSV of an upload.
ReadFile ==
  /\ At("file")
  /\ \E ok \in BOOLEAN : /\ ok \/ "file" \in typed.options
                         /\ AdvanceOr(ok, "body")
  /\ UNCHANGED <<name, typed, mode, sent, applied, answer, printed>>

----------------------------------------------------------------------------
(* The request.                                                            *)

\* A path with its placeholders filled in from args.
Fill(path, args) == [i \in DOMAIN path |-> IF path[i] \in DOMAIN args THEN args[path[i]] ELSE path[i]]
Placeholders == {"<1>", "<2>", "<account-key>", "<subscription>", "<subscription-owner>",
                 "<invoice-owner>", "<order>", "<number>", "<version>"}
Args(path, values) == [{path[i] : i \in DOMAIN path} \cap Placeholders -> values]
FilledFrom(route, values) ==
  {[route EXCEPT !.path = Fill(@, args)] : args \in Args(route.path, values)}
Filled(route) == FilledFrom(route, Keys)

\* zr api can ask for any path relative to the tenant: that of another command,
\* with any argument, also one with a '#' in it, or one below it.  What a
\* request is for is what the command that makes it is for, in whatever case
\* the path is written; a request no command makes is a write, unless it is a
\* GET, and so is one with an empty segment, which a server may take for none.
allPaths == UNION {{r.path : r \in FilledFrom(route, Keys \cup Hashes)} : route \in routes}
rawPaths == allPaths \cup {Append(p, "key") : p \in allPaths}
Blank(path) == "" \in {path[i] : i \in DOMAIN path}
IsOf(path, route) ==
  /\ DOMAIN path = DOMAIN route.path
  /\ \A i \in DOMAIN path : \/ route.path[i] \in Placeholders
                            \/ extractPath(path)[i] = extractPath(route.path)[i]
KindOf(method, path) ==
  LET kinds == {route.kind : route \in {r \in routes : r.method = method /\ IsOf(path, r)}}
  IN IF method \in {"GET", "HEAD", "OPTIONS"} THEN "read"
     ELSE IF kinds = {} \/ "write" \in kinds \/ Blank(path) THEN "write"
     ELSE CHOOSE k \in kinds : TRUE

\* The path of a request is the one typed, what it is for follows from the one
\* sent.
RawRequest(method, path) == Request(method, path, KindOf(method, OnTheWire(path)))
rawRequests == {RawRequest(m, p) : m \in RawMethods, p \in rawPaths}

Requests == IF Cmd.view = "raw" THEN rawRequests ELSE Filled(Cmd.route[typed.options])

\* Whether an answer can name a next page that the command looks at.
Pages == IF "hint" \in {Cmd.steps[i] : i \in DOMAIN Cmd.steps} \/ Cmd.more # <<>>
         THEN Nexts ELSE {"none"}

\* Do refuses what read-only mode excludes before it builds a request; what
\* it sends is turned down, or carried out; the answer to it may be lost.
Do(r) ==
  IF Blocks(mode.readOnly, mode.allowDataQuery, r.method, r.path)
  THEN Fail("blocked") /\ UNCHANGED <<sent, applied, answer>>
  ELSE /\ sent' = sent \cup {r}
       /\ \/ /\ Fail("refused")
             /\ UNCHANGED <<applied, answer>>
          \/ /\ Fail("lost")
             /\ applied' \in {applied, applied \/ r.kind # "read"}
             /\ UNCHANGED answer
          \/ /\ answer' \in [body : Bodies, next : Pages]
             /\ applied' = (applied \/ r.kind # "read")
             /\ Advance

Send ==
  /\ At("send")
  /\ \E r \in Requests : Do(r)
  /\ UNCHANGED <<name, typed, mode, printed>>

\* The next page of a ZOQL query: the answer so far has to be an object, and
\* the loop ends with the last page, an empty locator, or the limit.
FollowQueryMore ==
  /\ At("more")
  /\ \/ /\ answer.body # "object"
        /\ Fail("unreadable")
        /\ UNCHANGED <<sent, applied, answer>>
     \/ /\ answer.body = "object"
        /\ answer.next # "page" \/ "limit" \in typed.options
        /\ Advance
        /\ UNCHANGED <<sent, applied, answer>>
     \/ /\ answer.body = "object" /\ answer.next = "page"
        /\ LET r == Search(Cmd.more)
           IN IF Blocks(mode.readOnly, mode.allowDataQuery, r.method, r.path)
              THEN Fail("blocked") /\ UNCHANGED <<sent, applied, answer>>
              ELSE /\ sent' = sent \cup {r}
                   /\ \/ Fail("refused") /\ UNCHANGED answer
                      \/ Fail("lost") /\ UNCHANGED answer
                      \/ answer' \in [body : Bodies, next : Pages] /\ UNCHANGED <<todo, result>>
                   /\ UNCHANGED applied
  /\ UNCHANGED <<name, typed, mode, printed>>

----------------------------------------------------------------------------
(* The output.  Each operator gives the classes of error a runner can end  *)
(* with, or "ok", for the format asked for and the body of the answer.     *)

\* --jq or --template, with an expression that parses or one that does not.
IllFormed == {"badjq", "badtemplate"}
Expressions == {"jq", "template"} \cup IllFormed
Machine == {"json"} \cup Expressions

\* An expression that parses may fail on the answer it is given; an empty
\* answer is given to none.
RenderJSON(format, body) ==
  CASE format \in IllFormed -> {"format"}
    [] format \notin IllFormed /\ body = "text" -> {"unreadable"}
    [] format \in {"jq", "template"} /\ body \in {"object", "array"} -> {"ok", "format"}
    [] OTHER -> {"ok"}

\* A synthesized {"success": true} for the machine, a sentence for people.
RenderSuccess(format) == IF format \in Machine THEN RenderJSON(format, "object") ELSE {"ok"}
Render(format, body) == IF format \in Machine THEN RenderJSON(format, body) ELSE {"ok"}
PrintJSON(body) == IF body = "text" THEN {"unreadable"} ELSE {"ok"}

\* Mutant: an answer with no body cannot be decoded.
RunDetailStrict(format, body) ==
  IF body = "object" THEN Render(format, body) ELSE {"unreadable"}
RunDetail(format, body) ==
  CASE body = "object" -> Render(format, body)
    [] body = "empty" /\ Cmd.message -> RenderSuccess(format)
    [] OTHER -> {"unreadable"}
RenderDeleteResult(format, body) ==
  CASE body \in {"empty", "text"} -> RenderSuccess(format)
    [] body = "array" -> {"unreadable"}
    [] OTHER -> Render(format, body)
RenderJSONOnly(format, body) ==
  IF format \in Machine THEN RenderJSON(format, body)
  ELSE IF format = "csv" THEN {"csv"} ELSE PrintJSON(body)
RenderJSONWithMessage(format, body) ==
  IF format \in Expressions THEN RenderJSON(format, body) ELSE PrintJSON(body)
runAPI(format, body) == IF format \in Expressions THEN RenderJSON(format, body) ELSE {"ok"}
RenderTable(format, body) == IF body = "object" THEN Render(format, body) ELSE {"unreadable"}

Shown(format, body) ==
  CASE Cmd.view = "detail" -> RunDetail(format, body)
    [] Cmd.view = "delete" -> RenderDeleteResult(format, body)
    [] Cmd.view = "json"   -> RenderJSONOnly(format, body)
    [] Cmd.view = "notice" -> RenderJSONWithMessage(format, body)
    [] Cmd.view = "table"  -> RenderTable(format, body)
    [] Cmd.view = "raw"    -> runAPI(format, body)

ShowAnswer ==
  /\ At("render")
  /\ \E class \in Shown(typed.format, answer.body) : AdvanceOr(class = "ok", class)
  /\ UNCHANGED <<name, typed, mode, sent, applied, answer, printed>>

\* The command that fetches the next page, printed after a table.  A bool
\* flag is in none of the maps the loop over the flags reads.
printHint ==
  /\ At("hint")
  /\ IF \/ typed.format \in Machine \/ answer.next = "none"
        \/ Cmd.cursor = "" \/ (answer.next = "opaque" /\ Cmd.cursor # "cursor")
     THEN Advance /\ UNCHANGED printed
     ELSE IF Cmd.bools # {}
     THEN Fail("panic") /\ UNCHANGED printed
     ELSE Advance /\ printed' = typed.options \cup {Cmd.cursor}
  /\ UNCHANGED <<name, typed, mode, sent, applied, answer>>

Ended == result # "running" /\ UNCHANGED vars

Next == Apply \/ CheckUsage \/ RequireConfirm \/ RejectBareCSV \/ HttpClient \/ ResolveBody
        \/ ReadFile \/ Send \/ FollowQueryMore \/ ShowAnswer \/ printHint \/ Ended

Spec == Init /\ [][Next]_vars

----------------------------------------------------------------------------
(* Properties.                                                             *)

TypeOK ==
  /\ name \in Names
  /\ todo \in Seq(Steps)
  /\ typed \in [options : Cmd.inputs, format : Formats, confirm : BOOLEAN, body : Contents]
  /\ mode \in [readOnly : BOOLEAN, allowDataQuery : BOOLEAN, asked : {"open", "closed", "queries"}]
  /\ \A r \in sent : r.kind \in {"read", "query", "write"}
  /\ applied \in BOOLEAN
  /\ answer \in [body : Bodies, next : Nexts]
  /\ printed \subseteq Cmd.options
  /\ result \in Results

\* Read-only mode holds for every command, and for every request a user makes
\* by hand on a path that is sent as it was typed: whatever the flag and the
\* environment said, unless one of them clearly said no, only requests that
\* leave the tenant as it is get out, and Data Query jobs only where someone
\* clearly opted in.  Where a '#' in the path of zr api makes the gate look at
\* more than is sent, a POST may get out as well, and under the opt-in a
\* DELETE; never a PUT or a PATCH.
Misread(r) == Cmd.view = "raw" /\ Fragment(r.path)
ReadOnlyHolds ==
  /\ mode.asked = "closed" =>
       \A r \in sent : r.kind = "read" \/ (Misread(r) /\ r.method = "POST")
  /\ mode.asked = "queries" =>
       \A r \in sent : \/ r.kind \in {"read", "query"}
                       \/ Misread(r) /\ r.method \in {"POST", "DELETE"}

\* The gate knows requests by method and path, and many reads are POSTs.
\* None of the program's own reads runs into it, whatever its arguments.
ReadsStayOpen ==
  result = "blocked" =>
    \/ Cmd.view = "raw"
    \/ \E r \in Requests : r.kind # "read"
    \/ \E r \in Requests : Blank(r.path)

\* The destructive operations of README.md.
Destructive ==
  { "AccountDelete", "BillRunCancel", "BillRunDelete", "BillRunPost", "ContactDelete",
    "ContactScrub", "DataQueryCancel", "FulfillmentDelete", "FulfillmentItemDelete",
    "InvoicePost", "InvoiceReverse", "InvoiceWriteoff", "OmnichannelDelete", "OrderCancel",
    "OrderDelete", "OrderDeleteAsync", "OrderRevert", "PaymentCancel", "PaymentRefund",
    "PrepaidDeplete", "PrepaidReverseRollover", "SubscriptionCancel", "SubscriptionDelete",
    "UsageDelete" }

\* A destructive operation reaches the tenant only with --confirm, on every
\* path through the command.
ConfirmedFirst == name \in Destructive /\ sent # {} => typed.confirm

\* A command that refuses its flags, its body, a bare --csv or its
\* configuration has asked the tenant for nothing: running it again after the
\* mistake is mended repeats no write.  An expression that does not parse is
\* not refused: it is found when the answer is shown (AppliedIsReported).
RefusedSendsNothing == result \in Refusals => sent = {}

\* A write the tenant carried out, and answered with an object or with
\* nothing, is not reported as a failure because of the form of that answer:
\* an error would invite the user to do it twice.  The only thing that turns
\* it into one is an expression of the user's own, one that does not parse or
\* one that fails on the answer, or on the {"success": true} put in its place.
AppliedIsReported ==
  applied /\ result \in {"unreadable", "csv", "format"} =>
    \/ result = "format" /\ typed.format \in Expressions
    \/ answer.body \notin {"object", "empty"}

\* A table with a next page the cursor flag can carry ends with the command
\* for that page, rebuilt from all the flags given.
HintIsComplete ==
  /\ result \in {"ok", "panic"} /\ Cmd.cursor # ""
  /\ answer.next = "page" /\ typed.format \notin Machine
  => printed = typed.options \cup {Cmd.cursor}
=============================================================================
