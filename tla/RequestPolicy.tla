---------------------------- MODULE RequestPolicy ----------------------------
(***************************************************************************)
(* The stateless decisions of the API client (internal/api): which HTTP    *)
(* methods are resent, which carry an Idempotency-Key, and what read-only  *)
(* mode lets through.                                                      *)
(*                                                                         *)
(* A request is a record:                                                  *)
(*   method     the HTTP method                                            *)
(*   listed     the path is on the read-only POST allow-list               *)
(*   dataQuery  the path is a Data Query job path (submit or cancel)       *)
(*   sameHost   checkHost accepts the URL                                  *)
(*   passthrough  WithoutCheckSuccess (the GET and HEAD of `zr api`)       *)
(*   header     the Idempotency-Key a caller sets with WithHeader, which   *)
(*              may be empty, or the value that says he sets none          *)
(*   readOnly   the client runs in read-only mode                          *)
(*   allowDQ    --read-only-allow-data-query                               *)
(***************************************************************************)
EXTENDS Naturals

SafeMethods == {"GET", "HEAD", "OPTIONS"}
Methods == SafeMethods \cup {"POST", "PUT", "PATCH", "DELETE"}

\* Mutant: PUT counts as idempotent, the reading of RFC 9110.
PutIsIdempotent(method) == method \in SafeMethods \cup {"DELETE", "PUT"}

\* Resent after a 5xx or a transport error.
isIdempotent(method) == method \in SafeMethods \cup {"DELETE"}

\* Do attaches an Idempotency-Key to these methods.
carriesIdempotencyKey(method) == method \in {"POST", "PATCH"}

\* A success=false body is resent: "transient" stands for a single reason
\* whose numeric code ends in 50, 61, 70 or 99.
isRetriableSuccessEnvelope(class, method) ==
    /\ isIdempotent(method) \/ carriesIdempotencyKey(method)
    /\ class = "transient"

\* The success flag of a 2xx body is interpreted unless the caller opted out;
\* the mutant is the old default.
NeverChecked(q) == FALSE
checkSuccess(q) == ~q.passthrough

isReadOnlyAllowed(q) ==
    \/ q.method \in SafeMethods
    \/ q.method = "POST" /\ q.listed

isDataQueryWrite(q) == q.method \in {"POST", "DELETE"} /\ q.dataQuery

\* Mutant: the Data Query opt-in opens every write.
OptInOpensAll(q) == q.readOnly /\ ~isReadOnlyAllowed(q) /\ ~q.allowDQ

\* The gate at the top of Do.
ReadOnlyBlocks(q) ==
    /\ q.readOnly
    /\ ~isReadOnlyAllowed(q)
    /\ ~(q.allowDQ /\ isDataQueryWrite(q))

\* What the tenant does with a request it accepts: anything but a read
\* changes billing data.
Mutates(q) == q.method \notin SafeMethods /\ ~q.listed
=============================================================================
