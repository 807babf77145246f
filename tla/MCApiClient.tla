----------------------------- MODULE MCApiClient -----------------------------
(***************************************************************************)
(* Instances of ApiClient for TLC.                                         *)
(***************************************************************************)
EXTENDS ApiClient

CONSTANTS k1   \* a key given by callers (data-query run --idempotency-key)

Request(method) ==
    [method |-> method, listed |-> FALSE, dataQuery |-> FALSE, sameHost |-> TRUE,
     passthrough |-> FALSE, header |-> NoHeader, readOnly |-> FALSE, allowDQ |-> FALSE]

GetRequest == Request("GET")
PostRequest == Request("POST")
PutRequest == Request("PUT")
DeleteRequest == Request("DELETE")

\* One request of each shape the commands issue.
AllRequests ==
    {GetRequest, PostRequest, PutRequest, DeleteRequest,
     [GetRequest EXCEPT !.passthrough = TRUE],
     [PostRequest EXCEPT !.sameHost = FALSE],
     [PostRequest EXCEPT !.header = k1],
     [PutRequest EXCEPT !.header = k1],
     [PostRequest EXCEPT !.header = NoKey],
     [PostRequest EXCEPT !.listed = TRUE, !.readOnly = TRUE],
     [PostRequest EXCEPT !.readOnly = TRUE],
     [PutRequest EXCEPT !.readOnly = TRUE, !.allowDQ = TRUE],
     [PostRequest EXCEPT !.readOnly = TRUE, !.allowDQ = TRUE],
     [PostRequest EXCEPT !.readOnly = TRUE, !.allowDQ = TRUE, !.dataQuery = TRUE],
     [DeleteRequest EXCEPT !.readOnly = TRUE, !.dataQuery = TRUE],
     [DeleteRequest EXCEPT !.readOnly = TRUE, !.allowDQ = TRUE, !.dataQuery = TRUE]}

\* A write whose caller gave a key (data-query run --idempotency-key), and the
\* same write with the key Do draws.
KeyedWrite == [PostRequest EXCEPT !.header = k1]
PlainWrite == {PostRequest}

CallerKeys == {k1}

CONSTANTS r1, r2

\* Two cases in one run.  Either r1 is alone with a request of any shape, after
\* r2 was stopped by the read-only gate; or both send the same write under one
\* key.  The two are alike then, so r1 may start first, and nobody presses
\* Ctrl-C.
Stopped == [PostRequest EXCEPT !.readOnly = TRUE]
Shared == \A r \in Runs : req[r] = KeyedWrite
Leaves(r) == pc[r] = "start" /\ pc'[r] # "start"
InOrder ==
    IF Shared THEN (Leaves(r2) => pc[r1] # "start") /\ UNCHANGED cancelled
    ELSE Leaves(r1) => pc[r2] = "done"

AloneOrShared ==
    /\ Init /\ (req[r2] = Stopped \/ Shared)
    /\ [][Next /\ InOrder]_vars
    /\ \A r \in Runs : WF_vars(Step(r))

\* The user runs the command again only after a run told them it is safe.
Rerun(first, second) ==
    (pc[second] = "start" /\ pc'[second] # "start") => result[first].safe

RerunSpec == Init /\ [][Next /\ Rerun(r1, r2)]_vars
=============================================================================
