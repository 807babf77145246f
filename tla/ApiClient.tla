------------------------------ MODULE ApiClient ------------------------------
(***************************************************************************)
(* Client.Do and doWithRetry (internal/api/client.go, retry.go) against a  *)
(* tenant that may apply a request, refuse it, answer late, or whose       *)
(* answer may be lost.  A run is one call of Do, made by one `zr` process; *)
(* runs of different processes are concurrent and share only the tenant.   *)
(*                                                                         *)
(* The control state pc follows the code: "start" is the top of Do, "top"  *)
(* the head of doWithRetry's loop, "response" its switch on the status,    *)
(* "outer" the backoff of Do's own loop over success=false bodies.         *)
(***************************************************************************)
EXTENDS RequestPolicy, FiniteSets

CONSTANTS Runs,         \* the calls of Do
          MaxRetries,   \* maxRetries in retry.go
          Requests,     \* the requests a run may issue
          HeaderKeys,   \* Idempotency-Key values callers may set themselves
          NoKey,        \* no Idempotency-Key, or an empty one
          NoHeader      \* the caller sets no Idempotency-Key header

\* The key newIdempotencyKey draws is random: run r draws the key r.
Keys == Runs \cup HeaderKeys

RequestType ==
    [method: Methods, listed: BOOLEAN, dataQuery: BOOLEAN, sameHost: BOOLEAN,
     passthrough: BOOLEAN, header: HeaderKeys \cup {NoKey, NoHeader},
     readOnly: BOOLEAN, allowDQ: BOOLEAN]

ASSUME RetriesAssumption == MaxRetries \in Nat
ASSUME KeysAssumption ==
    /\ Runs \cap HeaderKeys = {}
    /\ NoKey \notin Keys
    /\ NoHeader \notin Keys \cup {NoKey}
\* Only `zr api` opts out of the success check, and only for GET and HEAD.
ASSUME RequestsAssumption ==
    /\ Requests \subseteq RequestType
    /\ \A q \in Requests : q.passthrough => q.method \in {"GET", "HEAD"}

VARIABLES
    pc,         \* pc[r]: where run r is
    req,        \* req[r]: the request of run r
    key,        \* key[r]: the Idempotency-Key header of the request
    budget,     \* budget[r]: sends left, shared by the two retry loops
    retrying,   \* retrying[r]: attempt > 0 in doWithRetry
    refreshed,  \* refreshed[r]: tokenRefreshed in doWithRetry
    skip,       \* skip[r]: skipBackoff in doWithRetry
    lastErr,    \* lastErr[r]: the error doWithRetry returns on exhaustion
    resp,       \* resp[r]: the response being handled
    result,     \* result[r]: what Do returned
    cancelled,  \* cancelled[r]: the context is done (Ctrl-C or a deadline)
    net,        \* requests that reached the wire and may still be served
    seen,       \* keys the tenant has already honoured
    applied,    \* applied[r]: how often the tenant applied run r's request
    sends,      \* sends[r]: requests put on the wire (history)
    pause       \* pause[r]: since the last send a pause is still "due", or
                \* there was one or a new token ("made"), or the tenant asked
                \* for none ("waived") (history)

client == <<pc, key, budget, retrying, refreshed, skip, lastErr, resp, result>>
tenant == <<net, seen, applied>>
history == <<sends, pause>>
vars == <<pc, req, key, budget, retrying, refreshed, skip, lastErr, resp,
          result, cancelled, net, seen, applied, sends, pause>>

PCs == {"start", "authorize", "top", "backoff", "send", "wait", "response",
        "ratewait", "refresh", "outer", "done"}

\* 429after is a 429 with a Retry-After that lies ahead, 429now one with a
\* Retry-After of zero, a negative value or a past date; cut is a response
\* whose body cannot be read; transient and permanent are success=false bodies.
Limits == {"429", "429after", "429now"}
Responses == {"ok", "transient", "permanent", "401", "4xx", "5xx", "cut"} \cup Limits

Errors == {"transport", "client", "server"}

Kinds == {"ok", "blocked", "refused", "setup", "auth", "cancelled", "app",
          "read", "nil"}
         \cup Errors

Result == [kind: Kinds, safe: BOOLEAN, idem: Keys \cup {NoKey}]

Wire == [run: Runs, n: Nat, key: Keys \cup {NoKey}]

None == "none"
NoResult == [kind |-> "none", safe |-> FALSE, idem |-> NoKey]

Plain(kind) == [kind |-> kind, safe |-> FALSE, idem |-> NoKey]

\* The error of a step that takes the context: what failed, or the
\* cancellation that made it fail.
Failed(r, kind) == {Plain(kind)} \cup (IF cancelled[r] THEN {Plain("cancelled")} ELSE {})

\* Mutant: every write that is not resent is declared safe to run again.
HintForAllWrites(r, kind) == [kind |-> kind, safe |-> TRUE, idem |-> key[r]]

\* A failure that may hide an applied write: the SafeToRetry hint and the key
\* it quotes.
Ambiguous(r, kind) ==
    [kind |-> kind, safe |-> carriesIdempotencyKey(req[r].method), idem |-> key[r]]

TypeOK ==
    /\ pc \in [Runs -> PCs]
    /\ req \in [Runs -> RequestType]
    /\ key \in [Runs -> Keys \cup {NoKey}]
    /\ budget \in [Runs -> 0..(MaxRetries + 1)]
    /\ retrying \in [Runs -> BOOLEAN]
    /\ refreshed \in [Runs -> BOOLEAN]
    /\ skip \in [Runs -> BOOLEAN]
    /\ lastErr \in [Runs -> Errors \cup {None}]
    /\ resp \in [Runs -> Responses \cup {None}]
    /\ result \in [Runs -> Result \cup {NoResult}]
    /\ cancelled \in [Runs -> BOOLEAN]
    /\ net \subseteq Wire
    /\ seen \subseteq Keys
    /\ applied \in [Runs -> Nat]
    /\ sends \in [Runs -> 0..(MaxRetries + 2)]
    /\ pause \in [Runs -> {"due", "made", "waived"}]

Init ==
    /\ pc = [r \in Runs |-> "start"]
    /\ req \in [Runs -> Requests]
    /\ key = [r \in Runs |-> NoKey]
    /\ budget = [r \in Runs |-> MaxRetries + 1]
    /\ retrying = [r \in Runs |-> FALSE]
    /\ refreshed = [r \in Runs |-> FALSE]
    /\ skip = [r \in Runs |-> FALSE]
    /\ lastErr = [r \in Runs |-> None]
    /\ resp = [r \in Runs |-> None]
    /\ result = [r \in Runs |-> NoResult]
    /\ cancelled = [r \in Runs |-> FALSE]
    /\ net = {}
    /\ seen = {}
    /\ applied = [r \in Runs |-> 0]
    /\ sends = [r \in Runs |-> 0]
    /\ pause = [r \in Runs |-> "made"]

-----------------------------------------------------------------------------
(* Steps shared by the handlers.                                           *)

Goto(r, label) == pc' = [pc EXCEPT ![r] = label]

\* Do returns.
Return(r, res) ==
    /\ Goto(r, "done")
    /\ result' = [result EXCEPT ![r] = res]

\* `continue` in doWithRetry, remembering err as the last error.
Continue(r, err) ==
    /\ lastErr' = [lastErr EXCEPT ![r] = err]
    /\ retrying' = [retrying EXCEPT ![r] = TRUE]

\* doWithRetry is entered: its locals start afresh.
EnterRetryLoop(r) ==
    /\ Goto(r, "top")
    /\ retrying' = [retrying EXCEPT ![r] = FALSE]
    /\ refreshed' = [refreshed EXCEPT ![r] = FALSE]
    /\ skip' = [skip EXCEPT ![r] = FALSE]
    /\ lastErr' = [lastErr EXCEPT ![r] = None]

loopVars == <<retrying, refreshed, skip, lastErr>>

-----------------------------------------------------------------------------
(* Do: the gate, the host check, the token and the headers.                *)

BlockReadOnly(r) ==
    /\ pc[r] = "start"
    /\ ReadOnlyBlocks(req[r])
    /\ Return(r, Plain("blocked"))
    /\ UNCHANGED <<req, key, budget, loopVars, resp, cancelled, tenant, history>>

RefuseHost(r) ==
    /\ pc[r] = "start"
    /\ ~ReadOnlyBlocks(req[r])
    /\ ~req[r].sameHost
    /\ Return(r, Plain("refused"))
    /\ UNCHANGED <<req, key, budget, loopVars, resp, cancelled, tenant, history>>

Admit(r) ==
    /\ pc[r] = "start"
    /\ ~ReadOnlyBlocks(req[r])
    /\ req[r].sameHost
    /\ Goto(r, "authorize")
    /\ UNCHANGED <<req, key, budget, loopVars, resp, result, cancelled, tenant,
                   history>>

\* tokenSource failed (or the body could not be buffered): nothing was sent.
AuthorizeFail(r) ==
    /\ pc[r] = "authorize"
    /\ \E res \in Failed(r, "setup") : Return(r, res)
    /\ UNCHANGED <<req, key, budget, loopVars, resp, cancelled, tenant, history>>

\* Mutant: the drawn key overwrites the caller's.
AlwaysDrawn(r) ==
    IF carriesIdempotencyKey(req[r].method) THEN r
    ELSE IF req[r].header = NoHeader THEN NoKey ELSE req[r].header

\* The Idempotency-Key: drawn for POST and PATCH, then overridden by a header
\* the caller gave, also by an empty one.
KeyOf(r) ==
    IF req[r].header # NoHeader THEN req[r].header
    ELSE IF carriesIdempotencyKey(req[r].method) THEN r ELSE NoKey

AuthorizeOk(r) ==
    /\ pc[r] = "authorize"
    /\ key' = [key EXCEPT ![r] = KeyOf(r)]
    /\ EnterRetryLoop(r)
    /\ UNCHANGED <<req, budget, resp, result, cancelled, tenant, history>>

-----------------------------------------------------------------------------
(* doWithRetry: the head of the loop, the backoff and the send.            *)

TopCancelled(r) ==
    /\ pc[r] = "top"
    /\ cancelled[r]
    /\ Return(r, Plain("cancelled"))
    /\ UNCHANGED <<req, key, budget, loopVars, resp, cancelled, tenant, history>>

\* Mutant: the check lets one send too many through.
OverdrawnOnly(r) == budget[r] < 0
Exhausted(r) == budget[r] <= 0

\* Mutant: an exhausted budget is noticed before the cancellation.
ExhaustedFirst(r) ==
    /\ pc[r] = "top"
    /\ Exhausted(r)
    /\ Return(r, Plain(IF lastErr[r] = None THEN "nil" ELSE lastErr[r]))
    /\ UNCHANGED <<req, key, budget, loopVars, resp, cancelled, tenant, history>>

\* `return nil, lastErr`: with no error to return Do would go on with a nil
\* response, the kind "nil".
TopExhausted(r) ==
    /\ pc[r] = "top"
    /\ ~cancelled[r]
    /\ Exhausted(r)
    /\ Return(r, Plain(IF lastErr[r] = None THEN "nil" ELSE lastErr[r]))
    /\ UNCHANGED <<req, key, budget, loopVars, resp, cancelled, tenant, history>>

\* Mutant: after a token refresh no resend backs off any more.
NoBackoffOnceRefreshed(r) == retrying[r] /\ ~refreshed[r] /\ ~skip[r]
NeedsBackoff(r) == retrying[r] /\ ~skip[r]

TopAttempt(r) ==
    /\ pc[r] = "top"
    /\ ~cancelled[r]
    /\ ~Exhausted(r)
    /\ Goto(r, IF NeedsBackoff(r) THEN "backoff" ELSE "send")
    /\ skip' = [skip EXCEPT ![r] = FALSE]
    /\ UNCHANGED <<req, key, budget, retrying, refreshed, lastErr, resp, result,
                   cancelled, tenant, history>>

\* A sleep ends; select may still prefer the timer over a done context.
Sleep(r, from, to) ==
    /\ pc[r] = from
    /\ Goto(r, to)
    /\ pause' = [pause EXCEPT ![r] = "made"]
    /\ UNCHANGED <<req, key, budget, loopVars, resp, result, cancelled, tenant,
                   sends>>

SleepCancelled(r) ==
    /\ pc[r] \in {"backoff", "ratewait", "outer"}
    /\ cancelled[r]
    /\ Return(r, Plain("cancelled"))
    /\ UNCHANGED <<req, key, budget, loopVars, resp, cancelled, tenant, history>>

BackoffDone(r) == Sleep(r, "backoff", "send")
RateWaitDone(r) == Sleep(r, "ratewait", "top")

\* Mutant: the budget is never charged.
FreeSend(r) == UNCHANGED budget
SpendBudget(r) == budget' = [budget EXCEPT ![r] = @ - 1]

\* *budget--; httpClient.Do(req).  With a done context the transport refuses
\* before anything is written.  n, unique in the run, pairs an answer with
\* the send that waits for it.
Send(r) ==
    /\ pc[r] = "send"
    /\ SpendBudget(r)
    /\ Goto(r, "wait")
    /\ IF cancelled[r]
       THEN UNCHANGED <<net, history>>
       ELSE /\ net' = net \cup {[run |-> r, n |-> budget'[r], key |-> key[r]]}
            /\ sends' = [sends EXCEPT ![r] = IF @ < MaxRetries + 2 THEN @ + 1 ELSE @]
            /\ pause' = [pause EXCEPT ![r] = "due"]
    /\ UNCHANGED <<req, key, loopVars, resp, result, cancelled, seen, applied>>

-----------------------------------------------------------------------------
(* doWithRetry: what a send can end in.                                    *)

\* A transport error of an idempotent method: resend.
TransportRetry(r) ==
    /\ pc[r] = "wait"
    /\ isIdempotent(req[r].method)
    /\ Goto(r, "top")
    /\ Continue(r, "transport")
    /\ UNCHANGED <<req, key, budget, refreshed, skip, resp, result, cancelled,
                   tenant, history>>

\* A transport error of any other method: the request may have been applied.
TransportGiveUp(r) ==
    /\ pc[r] = "wait"
    /\ ~isIdempotent(req[r].method)
    /\ Return(r, IF cancelled[r] THEN Plain("cancelled")
                 ELSE Ambiguous(r, "transport"))
    /\ UNCHANGED <<req, key, budget, loopVars, resp, cancelled, tenant, history>>

\* CheckRedirect refused a hop (a redirecting server did not process it).
RedirectRefused(r) ==
    /\ pc[r] = "wait"
    /\ \E m \in net :
        /\ m.run = r /\ m.n = budget[r]
        /\ net' = net \ {m}
    /\ Return(r, Plain("refused"))
    /\ UNCHANGED <<req, key, budget, loopVars, resp, cancelled, seen, applied,
                   history>>

\* A usable Retry-After takes the place of the backoff, also one that has
\* nothing to wait for: the sleep of zero only looks at the context, as the
\* top of the loop does.
RateLimited(r) ==
    /\ pc[r] = "response"
    /\ resp[r] \in Limits
    /\ Continue(r, "client")
    /\ Goto(r, IF resp[r] = "429after" THEN "ratewait" ELSE "top")
    /\ skip' = [skip EXCEPT ![r] = (resp[r] # "429")]
    /\ pause' = [pause EXCEPT ![r] = IF resp[r] = "429now" THEN "waived" ELSE @]
    /\ resp' = [resp EXCEPT ![r] = None]
    /\ UNCHANGED <<req, key, budget, refreshed, result, cancelled, tenant, sends>>

Unauthorized(r) ==
    /\ pc[r] = "response"
    /\ resp[r] = "401"
    /\ ~refreshed[r]
    /\ Continue(r, "client")
    /\ Goto(r, "refresh")
    /\ resp' = [resp EXCEPT ![r] = None]
    /\ UNCHANGED <<req, key, budget, refreshed, skip, result, cancelled, tenant,
                   history>>

RefreshOk(r) ==
    /\ pc[r] = "refresh"
    /\ Goto(r, "top")
    /\ refreshed' = [refreshed EXCEPT ![r] = TRUE]
    /\ skip' = [skip EXCEPT ![r] = TRUE]
    /\ pause' = [pause EXCEPT ![r] = "made"]
    /\ UNCHANGED <<req, key, budget, retrying, lastErr, resp, result, cancelled,
                   tenant, sends>>

RefreshFail(r) ==
    /\ pc[r] = "refresh"
    /\ \E res \in Failed(r, "auth") : Return(r, res)
    /\ UNCHANGED <<req, key, budget, loopVars, resp, cancelled, tenant, history>>

ServerErrorRetry(r) ==
    /\ pc[r] = "response"
    /\ resp[r] = "5xx"
    /\ isIdempotent(req[r].method)
    /\ Goto(r, "top")
    /\ Continue(r, "server")
    /\ resp' = [resp EXCEPT ![r] = None]
    /\ UNCHANGED <<req, key, budget, refreshed, skip, result, cancelled, tenant,
                   history>>

ServerErrorGiveUp(r) ==
    /\ pc[r] = "response"
    /\ resp[r] = "5xx"
    /\ ~isIdempotent(req[r].method)
    /\ Return(r, Ambiguous(r, "server"))
    /\ UNCHANGED <<req, key, budget, loopVars, resp, cancelled, tenant, history>>

-----------------------------------------------------------------------------
(* Do: the response doWithRetry returned.                                  *)

ReadFailed(r) ==
    /\ pc[r] = "response"
    /\ resp[r] = "cut"
    /\ \E res \in Failed(r, "read") : Return(r, res)
    /\ UNCHANGED <<req, key, budget, loopVars, resp, cancelled, tenant, history>>

\* Any other 4xx, and a 401 that follows a refresh.
ReturnClientError(r) ==
    /\ pc[r] = "response"
    /\ resp[r] = "4xx" \/ (resp[r] = "401" /\ refreshed[r])
    /\ Return(r, Plain("client"))
    /\ UNCHANGED <<req, key, budget, loopVars, resp, cancelled, tenant, history>>

Envelope(r) == pc[r] = "response" /\ resp[r] \in {"transient", "permanent"}

\* Mutant: the success=false retry does not look at the shared budget.
RetriesUnbudgeted(r) == isRetriableSuccessEnvelope(resp[r], req[r].method)

RetriesEnvelope(r) ==
    /\ budget[r] > 0
    /\ isRetriableSuccessEnvelope(resp[r], req[r].method)

RetryEnvelope(r) ==
    /\ Envelope(r)
    /\ checkSuccess(req[r])
    /\ RetriesEnvelope(r)
    /\ Goto(r, "outer")
    /\ resp' = [resp EXCEPT ![r] = None]
    /\ UNCHANGED <<req, key, budget, loopVars, result, cancelled, tenant, history>>

\* The backoff of Do's loop ends and doWithRetry is entered again.
OuterBackoffDone(r) ==
    /\ pc[r] = "outer"
    /\ EnterRetryLoop(r)
    /\ pause' = [pause EXCEPT ![r] = "made"]
    /\ UNCHANGED <<req, key, budget, resp, result, cancelled, tenant, sends>>

ReturnEnvelopeError(r) ==
    /\ Envelope(r)
    /\ checkSuccess(req[r])
    /\ ~RetriesEnvelope(r)
    /\ Return(r, Plain("app"))
    /\ UNCHANGED <<req, key, budget, loopVars, resp, cancelled, tenant, history>>

ReturnOk(r) ==
    /\ pc[r] = "response"
    /\ resp[r] = "ok" \/ (Envelope(r) /\ ~checkSuccess(req[r]))
    /\ Return(r, Plain("ok"))
    /\ UNCHANGED <<req, key, budget, loopVars, resp, cancelled, tenant, history>>

-----------------------------------------------------------------------------
(* The environment: Ctrl-C or a deadline, the network and the tenant.      *)

Cancel(r) ==
    /\ pc[r] # "done"
    /\ ~cancelled[r]
    /\ cancelled' = [cancelled EXCEPT ![r] = TRUE]
    /\ UNCHANGED <<client, req, tenant, history>>

\* The answer reaches the send that waits for it, or nobody.
Deliver(m, answer) ==
    \/ /\ pc[m.run] = "wait"
       /\ budget[m.run] = m.n
       /\ Goto(m.run, "response")
       /\ resp' = [resp EXCEPT ![m.run] = answer]
    \/ UNCHANGED <<pc, resp>>

Untouched == UNCHANGED <<req, key, budget, loopVars, result, cancelled, history>>

\* Refused before processing, or processed without effect.  A success=false
\* answer may or may not use the key up.
TenantRefuses(m) ==
    /\ \E answer \in Limits \cup {"401", "4xx", "cut"} : Deliver(m, answer)
    /\ net' = net \ {m}
    /\ UNCHANGED <<seen, applied>>
    /\ Untouched

TenantReportsFailure(m) ==
    /\ m.key \notin seen
    /\ \E answer \in {"transient", "permanent"} : Deliver(m, answer)
    /\ net' = net \ {m}
    /\ seen' \in {seen, seen \cup ({m.key} \ {NoKey})}
    /\ UNCHANGED applied
    /\ Untouched

\* Carried out.  A key already honoured is answered with 409 instead
\* (TenantRefuses), and a PUT that carries a key is refused.
TenantApplies(m) ==
    /\ m.key \notin seen
    /\ ~(req[m.run].method = "PUT" /\ m.key # NoKey)
    /\ \E answer \in {"ok", "5xx", "cut"} : Deliver(m, answer)
    /\ net' = net \ {m}
    /\ seen' = seen \cup ({m.key} \ {NoKey})
    /\ applied' = IF Mutates(req[m.run])
                  THEN [applied EXCEPT ![m.run] = @ + 1] ELSE applied
    /\ Untouched

\* A gateway answers 5xx while the request may still be carried out.
GatewayError(m) ==
    /\ Deliver(m, "5xx")
    /\ UNCHANGED tenant
    /\ Untouched

Lose(m) ==
    /\ net' = net \ {m}
    /\ UNCHANGED <<pc, resp, seen, applied>>
    /\ Untouched

-----------------------------------------------------------------------------

\* The steps the process itself takes.
Step(r) ==
    \/ BlockReadOnly(r) \/ RefuseHost(r) \/ Admit(r)
    \/ AuthorizeFail(r) \/ AuthorizeOk(r)
    \/ TopCancelled(r) \/ TopExhausted(r) \/ TopAttempt(r)
    \/ BackoffDone(r) \/ RateWaitDone(r) \/ SleepCancelled(r)
    \/ Send(r)
    \/ TransportRetry(r) \/ TransportGiveUp(r) \/ RedirectRefused(r)
    \/ RateLimited(r)
    \/ Unauthorized(r) \/ RefreshOk(r) \/ RefreshFail(r)
    \/ ServerErrorRetry(r) \/ ServerErrorGiveUp(r)
    \/ ReadFailed(r) \/ ReturnClientError(r)
    \/ RetryEnvelope(r) \/ OuterBackoffDone(r) \/ ReturnEnvelopeError(r)
    \/ ReturnOk(r)

Environment ==
    \/ \E r \in Runs : Cancel(r)
    \/ \E m \in net :
        \/ TenantRefuses(m) \/ TenantReportsFailure(m) \/ TenantApplies(m)
        \/ GatewayError(m) \/ Lose(m)

Next == (\E r \in Runs : Step(r)) \/ Environment

Spec == Init /\ [][Next]_vars

\* A process keeps running: its sleeps end, and a send ends at the latest in
\* the transport error of the 120 s client timeout.  Neither the tenant nor
\* the network owes an answer.
FairSpec == Spec /\ \A r \in Runs : WF_vars(Step(r))

-----------------------------------------------------------------------------
(* Properties.                                                             *)

\* A write that may not be doubled: POST, PATCH and PUT outside the read
\* endpoints.
Covered(r) == req[r].method \in {"POST", "PATCH", "PUT"} /\ Mutates(req[r])

\* The two nested retry loops (transport, 429, 401 and 5xx inside;
\* success=false outside) together send a request at most MaxRetries + 1 times.
SendBound == \A r \in Runs : sends[r] <= MaxRetries + 1

\* No retry applies a POST, PATCH or PUT twice, whatever the tenant answered
\* and however late an earlier attempt is carried out; two runs given the same
\* key by their callers are together applied once.
AtMostOnce ==
    /\ \A r \in Runs : Covered(r) => applied[r] <= 1
    /\ \A r, s \in Runs :
        (r # s /\ Covered(r) /\ Covered(s) /\ key[r] = key[s] /\ key[r] # NoKey)
            => applied[r] + applied[s] <= 1

\* "It is safe to run the command again" is only said of a request that
\* carried a key, the error quotes that key, and if the write did go through
\* the tenant knows the key.  One request without a key draws the hint all the
\* same: that of a caller who emptied the header himself (`zr api -X POST -H
\* 'Idempotency-Key:'`), to whom no key is quoted.
SafeHintSound ==
    \A r \in Runs :
        result[r].safe =>
            /\ result[r].idem = key[r]
            /\ key[r] = NoKey => req[r].header = NoKey
            /\ applied[r] > 0 /\ key[r] # NoKey => key[r] \in seen

\* "It is safe to run the command again": the hint of APIError.Error promises
\* that another run of the same command cannot create a duplicate of a write
\* the first one got through.
HintHoldsFor(r, s) ==
    (req[r] = req[s] /\ result[r].safe) => applied[r] + applied[s] <= 1
HintHolds == \A r, s \in Runs : r # s => HintHoldsFor(r, s)

\* doWithRetry never returns neither a response nor an error: Do would
\* dereference a nil response.
NoNilResponse == \A r \in Runs : result[r].kind # "nil"

\* In read-only mode nothing changes at the tenant, but for Data Query jobs
\* under the explicit opt-in: of requests whose path is sent as the gate sees
\* it.  Where a '#' in a path typed by hand sets the two apart, see ReadOnlyHolds
\* of CommandRun.
ReadOnlyHarmless ==
    \A r \in Runs :
        (req[r].readOnly /\ applied[r] > 0) =>
            req[r].allowDQ /\ req[r].dataQuery

\* A request is resent at once only where the tenant just asked for that, by a
\* Retry-After of zero: every other resend waited (the backoff, or the time a
\* Retry-After asked for) or carries a new token.
NoHotResend ==
    \A r \in Runs :
        /\ pc[r] = "send" => pause[r] # "due"
        /\ pc[r] = "send" /\ pause[r] = "waived" => lastErr[r] = "client"

\* Every call of Do returns, though the tenant and the network may be silent
\* for ever.
Termination == \A r \in Runs : <>(pc[r] = "done")

\* Cancelled while it waits for another attempt, Do reports the cancellation
\* and not a stale API error of an earlier attempt.
CancelWins ==
    \A r \in Runs :
        (cancelled[r] /\ pc[r] \in {"top", "backoff", "ratewait", "outer", "send"})
            ~> (pc[r] = "done" /\ result[r].kind = "cancelled")

\* The contract of a write call, told in the words of MutationContract.
ToldOf(kind) ==
    CASE kind = "ok" -> "succeeded"
      [] kind \in {"blocked", "refused", "setup", "auth", "client", "app"} -> "rejected"
      [] kind \in {"cancelled", "transport", "server", "read", "nil"} -> "unknown"
      [] OTHER -> "open"

told == [r \in Runs |-> IF Covered(r) THEN ToldOf(result[r].kind) ELSE "open"]
landed == [r \in Runs |-> IF Covered(r) THEN applied[r] ELSE 0]

Contract == INSTANCE MutationContract
                WITH Calls <- Runs, status <- told, effects <- landed

\* Every behaviour of the client and the tenant keeps the contract: success
\* was applied, a definite failure never is, nothing is applied twice.
KeepsContract == Contract!Spec
=============================================================================
