--------------------------- MODULE CommandShapes ---------------------------
(***************************************************************************)
(* The shapes a zr command can take.  A command is a record: the flags it  *)
(* has and the combinations of them it accepts, the request each accepted  *)
(* combination makes, the steps of its RunE in the order of the code, and  *)
(* the way it shows the answer.  The command tables build every command    *)
(* out of these operators; CommandRun runs them.                           *)
(*                                                                         *)
(* A path is the sequence of its segments.  A segment in angle brackets    *)
(* stands for an argument or a flag value of the user, and is filled in    *)
(* when the request is sent.                                               *)
(***************************************************************************)
EXTENDS Sequences, FiniteSets

(* A request and what it is for: "read" leaves the tenant as it is,        *)
(* "query" starts or cancels a Data Query job, "write" changes data.       *)
Request(method, path, kind) == [method |-> method, path |-> path, kind |-> kind]

Get(path)    == Request("GET", path, "read")
Post(path)   == Request("POST", path, "write")
Search(path) == Request("POST", path, "read")
Put(path)    == Request("PUT", path, "write")
Delete(path) == Request("DELETE", path, "write")

Command(request, steps, view) ==
  [ options |-> {},                       \* flags and optional arguments
    inputs  |-> {{}},                     \* the combinations a user can type
    accepts |-> {{}},                     \* the combinations that pass the checks
    route   |-> [o \in {{}} |-> request], \* the request of each of them
    steps   |-> steps,                    \* the steps of RunE, in order
    bodies  |-> {},                       \* contents of --body it takes
    view    |-> view,                     \* how the answer is shown
    message |-> FALSE,                    \* Action.SuccessMsg is given
    bools   |-> {},                       \* bool flags of a listcmd.Spec
    cursor  |-> "",                       \* NextPage.Flag of a listcmd.Spec
    more    |-> <<>> ]                    \* path of the follow-up request

----------------------------------------------------------------------------
(* Flags.                                                                  *)

(* The flags of a command, and the combinations its checks let through.    *)
Flags(c, options, accepts) ==
  [c EXCEPT !.options = options, !.inputs = SUBSET options, !.accepts = accepts,
            !.route = [o \in accepts |-> CHOOSE r \in {c.route[a] : a \in c.accepts} : TRUE]]

(* Flags cobra marks as required, and nothing else.                        *)
Requires(c, options) == Flags(c, options, {options})

(* Flags whose combination selects the request.                            *)
Routes(c, options, route) ==
  [c EXCEPT !.options = options, !.inputs = SUBSET options,
            !.accepts = DOMAIN route, !.route = route]

JsonValues == {"object", "array"}

(* AddBodyFlag(cmd, &body, true): the flag has to be there.                *)
RequiresBody(c) ==
  [Flags(c, c.options \cup {"body"}, {o \cup {"body"} : o \in c.accepts})
     EXCEPT !.bodies = JsonValues]

(* AddBodyFlag(cmd, &body, false): without the flag, or with an empty      *)
(* value, the command sends a body of its own.                             *)
AllowsBody(c) ==
  [Flags(c, c.options \cup {"body"}, {o \cup b : o \in c.accepts, b \in {{}, {"body"}}})
     EXCEPT !.bodies = JsonValues \cup {"empty"}]

----------------------------------------------------------------------------
(* Runners.                                                                *)

(* cmdutil.RunDetail: one request, one detail view.                        *)
Detail(request) == Command(request, <<"client", "send", "render">>, "detail")

(* Action.SuccessMsg.                                                      *)
Announced(c) == [c EXCEPT !.message = TRUE]

(* ResolveBody runs before RunDetail asks for the client.                  *)
WithBody(request) ==
  RequiresBody(Announced(Command(request, <<"body", "client", "send", "render">>, "detail")))

MayHaveBody(request) ==
  AllowsBody(Announced(Command(request, <<"body", "client", "send", "render">>, "detail")))

(* RequireConfirm is the first thing RunE does.                            *)
Confirmed(c) == [c EXCEPT !.steps = <<"confirm">> \o @]

(* A delete rendered by cmdutil.RenderDeleteResult.                        *)
Removal(request) ==
  Confirmed(Command(request, <<"client", "send", "render">>, "delete"))

(* Mutant: --csv is refused only when the answer is rendered.              *)
DocumentUnchecked(request) == Command(request, <<"client", "send", "render">>, "json")

(* output.RenderJSONOnly, with --csv alone refused before the request.     *)
Document(request) == Command(request, <<"csv", "client", "send", "render">>, "json")

DocumentOf(request) ==
  RequiresBody(Command(request, <<"csv", "client", "body", "send", "render">>, "json"))

(* The writes of the Commerce API: output.RenderJSONWithMessage.           *)
Commerce(request) ==
  RequiresBody(Command(request, <<"csv", "client", "body", "send", "render">>, "notice"))

(* Commands that decode the answer themselves and call output.Render or    *)
(* output.RenderDetail.                                                    *)
Table(request) == Command(request, <<"client", "send", "render">>, "table")

(* Mutant: the next page goes into the flag of another list.               *)
ListingByCursor(path, options, cursor) ==
  [Flags(Command(Get(path), <<"client", "send", "render", "hint">>, "table"),
         options, SUBSET options)
     EXCEPT !.cursor = "cursor"]

(* listcmd: one GET, a table and the hint of the next page.                *)
Listing(path, options, cursor) ==
  [Flags(Command(Get(path), <<"client", "send", "render", "hint">>, "table"),
         options, SUBSET options)
     EXCEPT !.cursor = cursor]

(* A listcmd.Flag that is Required.                                        *)
Keyed(c, key) == Flags(c, c.options, {o \in c.accepts : key \in o})

(* Commands that follow queryMore until the answer is done.                *)
Following(c, path) == [c EXCEPT !.steps = <<"client", "send", "more", "render">>, !.more = path]
=============================================================================
