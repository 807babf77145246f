--------------------------- MODULE ApiClientProofs ---------------------------
(***************************************************************************)
(* What TLAPS proves of ApiClient for every set of runs, every retry limit *)
(* and every set of requests.                                              *)
(***************************************************************************)
EXTENDS ApiClient, Integers, TLAPS

-----------------------------------------------------------------------------
(* The inductive invariant.                                                *)

\* The budget: a send is only ever reached with budget left, what was sent
\* and what is left never exceed the limit together, and the loop of
\* doWithRetry is exhausted only after an error was remembered.
BudgetInv(r) ==
    /\ pc[r] \in {"start", "authorize", "backoff", "send", "outer"} => budget[r] > 0
    /\ sends[r] + budget[r] <= MaxRetries + 1
    /\ pc[r] \in {"ratewait", "refresh"} => lastErr[r] # None
    /\ pc[r] = "top" /\ lastErr[r] = None => budget[r] > 0
    /\ result[r].kind # "nil"

\* The key: chosen once, and before the first send.
KeyInv(r) ==
    /\ pc[r] \in {"top", "backoff", "send", "wait", "response", "ratewait",
                   "refresh", "outer"} => key[r] = KeyOf(r)
    /\ result[r].safe => /\ pc[r] = "done"
                         /\ key[r] = KeyOf(r)
                         /\ result[r].idem = key[r]
                         /\ carriesIdempotencyKey(req[r].method)

\* Nothing of run r was applied, and nothing of it can still be.
Clean(r) == applied[r] = 0 /\ \A m \in net : m.run # r

\* At most one application of run r: the one made, or the one in flight.
AtMostOneLeft(r) ==
    /\ applied[r] <= 1
    /\ \A m \in net : m.run = r =>
        applied[r] = 0 /\ \A o \in net : o.run = r => o = m

\* Answers that prove that the request was not carried out.
Refusals == Limits \cup {"transient", "permanent", "401", "4xx"}

\* A write that must not be doubled is only ever resent from a clean state.
WriteInv(r) ==
    Covered(r) =>
        /\ AtMostOneLeft(r)
        /\ pc[r] \notin {"wait", "response", "done"} => Clean(r)
        /\ pc[r] = "response" /\ resp[r] \in Refusals => Clean(r)

\* Messages carry the key of their run, and the tenant knows the key of every
\* request it applied.
WireInv ==
    /\ \A m \in net : m.key = key[m.run] /\ pc[m.run] \notin {"start", "authorize"}
    /\ \A r \in Runs : applied[r] > 0 =>
        /\ pc[r] \notin {"start", "authorize"}
        /\ key[r] # NoKey => key[r] \in seen

\* The gate: past the top of Do, and so on the wire and at the tenant, are
\* only requests that read-only mode lets through.
GateInv(r) ==
    /\ pc[r] \notin {"start", "done"} => ~ReadOnlyBlocks(req[r])
    /\ \A m \in net : m.run = r => ~ReadOnlyBlocks(req[r])
    /\ applied[r] > 0 => Mutates(req[r]) /\ ~ReadOnlyBlocks(req[r])

\* The pace: the backoff is only skipped before the first send, after a usable
\* Retry-After and with a new token, and skipBackoff does not outlive the
\* attempt it was set for.  What a Retry-After of zero waives is the pause
\* before the very next send; only a call that is cancelled in between takes
\* the waiver along, and that one sends nothing any more.
PaceInv(r) ==
    /\ pc[r] \in {"start", "authorize"} => pause[r] = "made"
    /\ pc[r] = "send" => pause[r] # "due"
    /\ pc[r] = "top" /\ ~NeedsBackoff(r) => pause[r] # "due"
    /\ pause[r] = "waived" =>
        cancelled[r] \/ (pc[r] \in {"top", "send", "done"} /\ lastErr[r] = "client")
    /\ pc[r] = "top" /\ pause[r] = "waived" => cancelled[r] \/ skip[r]
    /\ pc[r] = "send" /\ pause[r] = "waived" => lastErr[r] = "client"
    /\ skip[r] => pc[r] \in {"top", "ratewait", "done"}

IInv ==
    /\ TypeOK
    /\ \A r \in Runs : BudgetInv(r) /\ KeyInv(r) /\ WriteInv(r)
    /\ \A r \in Runs : GateInv(r) /\ PaceInv(r)
    /\ WireInv

-----------------------------------------------------------------------------
(* Type correctness.                                                       *)

\* The error of a cancellable step is a result, whether the step failed or
\* the context was done.
LEMMA FailedType ==
    ASSUME NEW r \in Runs, NEW kind \in Kinds, NEW res \in Failed(r, kind)
    PROVE  res \in Result
<1>1. res = Plain(kind) \/ res = Plain("cancelled")
  BY DEF Failed
<1>2. Plain(kind) \in Result /\ Plain("cancelled") \in Result
  BY DEF Plain, Result, Kinds
<1>3. QED
  BY <1>1, <1>2

\* A step keeps every variable in its type.  Send needs BudgetInv: the budget
\* it decrements is not yet zero.
LEMMA TypeStep ==
    ASSUME TypeOK, \A r \in Runs : BudgetInv(r), [Next]_vars
    PROVE  TypeOK'
<1> USE DEF TypeOK, PCs, tenant, history, loopVars, Goto, Return, Plain
<1>1. ASSUME NEW r \in Runs, Step(r) PROVE TypeOK'
  <2>1. CASE BlockReadOnly(r)
    BY <2>1 DEF BlockReadOnly, Result, Kinds
  <2>26. CASE RefuseHost(r)
    BY <2>26 DEF RefuseHost, Result, Kinds
  <2>27. CASE Admit(r)
    BY <2>27 DEF Admit
  <2>2. CASE AuthorizeFail(r)
    <3>1. PICK res \in Failed(r, "setup") : Return(r, res)
      BY <2>2 DEF AuthorizeFail
    <3>2. res \in Result
      BY FailedType DEF Kinds
    <3>3. QED
      BY <2>2, <3>1, <3>2 DEF AuthorizeFail
  <2>3. CASE AuthorizeOk(r)
    <3>1. KeyOf(r) \in Keys \cup {NoKey}
      BY KeysAssumption DEF KeyOf, Keys, RequestType
    <3>2. QED
      BY <2>3, <3>1 DEF AuthorizeOk, EnterRetryLoop
  <2>4. CASE TopCancelled(r)
    BY <2>4 DEF TopCancelled, Result, Kinds
  <2>5. CASE TopExhausted(r)
    BY <2>5 DEF Exhausted, TopExhausted, Result, Kinds, Errors, None
  <2>6. CASE TopAttempt(r)
    BY <2>6 DEF TopAttempt, NeedsBackoff
  <2>7. CASE BackoffDone(r) \/ RateWaitDone(r)
    BY <2>7 DEF BackoffDone, RateWaitDone, Sleep
  <2>8. CASE SleepCancelled(r)
    BY <2>8 DEF SleepCancelled, Result, Kinds
  <2>9. CASE Send(r)
    <3>1. budget[r] \in 0..(MaxRetries + 1) /\ budget[r] > 0
      BY <2>9 DEF Send, BudgetInv
    <3>2. budget' \in [Runs -> 0..(MaxRetries + 1)] /\ budget'[r] \in Nat
      BY <2>9, <3>1, RetriesAssumption DEF Send, SpendBudget
    <3>3. CASE cancelled[r]
      BY <2>9, <3>2, <3>3 DEF Send
    <3>4. CASE ~cancelled[r]
      <4>1. net' \subseteq Wire
        BY <2>9, <3>2, <3>4 DEF Send, Wire
      <4>2. sends' \in [Runs -> 0..(MaxRetries + 2)]
        BY <2>9, <3>4, RetriesAssumption DEF Send
      <4>3. QED
        BY <2>9, <3>2, <3>4, <4>1, <4>2 DEF Send
    <3>5. QED
      BY <3>3, <3>4
  <2>10. CASE TransportRetry(r)
    BY <2>10 DEF TransportRetry, Continue, Errors
  <2>11. CASE TransportGiveUp(r)
    BY <2>11 DEF TransportGiveUp, Ambiguous, Result, Kinds, Errors,
                 carriesIdempotencyKey
  <2>12. CASE RedirectRefused(r)
    BY <2>12 DEF RedirectRefused, Result, Kinds
  <2>13. CASE RateLimited(r)
    BY <2>13 DEF RateLimited, Continue, Errors
  <2>14. CASE Unauthorized(r)
    BY <2>14 DEF Unauthorized, Continue, Errors
  <2>15. CASE RefreshOk(r)
    BY <2>15 DEF RefreshOk
  <2>16. CASE RefreshFail(r)
    <3>1. PICK res \in Failed(r, "auth") : Return(r, res)
      BY <2>16 DEF RefreshFail
    <3>2. res \in Result
      BY FailedType DEF Kinds
    <3>3. QED
      BY <2>16, <3>1, <3>2 DEF RefreshFail
  <2>17. CASE ServerErrorRetry(r)
    BY <2>17 DEF ServerErrorRetry, Continue, Errors
  <2>18. CASE ServerErrorGiveUp(r)
    BY <2>18 DEF ServerErrorGiveUp, Ambiguous, Result, Kinds, Errors,
                 carriesIdempotencyKey
  <2>19. CASE ReadFailed(r)
    <3>1. PICK res \in Failed(r, "read") : Return(r, res)
      BY <2>19 DEF ReadFailed
    <3>2. res \in Result
      BY FailedType DEF Kinds
    <3>3. QED
      BY <2>19, <3>1, <3>2 DEF ReadFailed
  <2>20. CASE ReturnClientError(r)
    BY <2>20 DEF ReturnClientError, Result, Kinds, Errors
  <2>21. CASE RetryEnvelope(r)
    BY <2>21 DEF RetryEnvelope
  <2>22. CASE OuterBackoffDone(r)
    BY <2>22 DEF OuterBackoffDone, EnterRetryLoop
  <2>23. CASE ReturnEnvelopeError(r)
    BY <2>23 DEF ReturnEnvelopeError, Result, Kinds
  <2>24. CASE ReturnOk(r)
    BY <2>24 DEF ReturnOk, Result, Kinds
  <2>25. QED
    BY <1>1, <2>1, <2>26, <2>27, <2>2, <2>3, <2>4, <2>5, <2>6, <2>7, <2>8, <2>9, <2>10,
       <2>11, <2>12, <2>13, <2>14, <2>15, <2>16, <2>17, <2>18, <2>19, <2>20,
       <2>21, <2>22, <2>23, <2>24 DEF Step
<1>2. ASSUME NEW r \in Runs, Cancel(r) PROVE TypeOK'
  BY <1>2 DEF Cancel, client
<1>3. ASSUME NEW m \in net,
             \/ TenantRefuses(m) \/ TenantReportsFailure(m) \/ TenantApplies(m)
             \/ GatewayError(m) \/ Lose(m)
      PROVE TypeOK'
  <2>1. m.run \in Runs /\ m.key \in Keys \cup {NoKey}
    BY <1>3 DEF Wire
  <2>2. CASE TenantRefuses(m)
    BY <2>1, <2>2 DEF TenantRefuses, Deliver, Untouched, Responses
  <2>3. CASE TenantReportsFailure(m)
    BY <2>1, <2>3 DEF TenantReportsFailure, Deliver, Untouched, Responses
  <2>4. CASE TenantApplies(m)
    BY <2>1, <2>4 DEF TenantApplies, Deliver, Untouched, Responses
  <2>5. CASE GatewayError(m)
    BY <2>1, <2>5 DEF GatewayError, Deliver, Untouched, Responses
  <2>6. CASE Lose(m)
    BY <2>6 DEF Lose, Untouched
  <2>7. QED
    BY <1>3, <2>2, <2>3, <2>4, <2>5, <2>6
<1>4. CASE UNCHANGED vars
  BY <1>4 DEF vars
<1>5. QED
  BY <1>1, <1>2, <1>3, <1>4 DEF Next, Environment

\* The budget part of the invariant is inductive: every path that comes back
\* to a send was left with budget, and the retry of a success=false body
\* checks it (the other exhausted path carries an error).
LEMMA BudgetStep ==
    ASSUME TypeOK, TypeOK', \A s \in Runs : BudgetInv(s), [Next]_vars,
           NEW t \in Runs
    PROVE  BudgetInv(t)'
<1> USE DEF BudgetInv, TypeOK, tenant, history, loopVars, Goto, Return, Plain, None
<1>1. ASSUME NEW r \in Runs, Step(r) PROVE BudgetInv(t)'
  <2>1. CASE BlockReadOnly(r)
    BY <2>1 DEF BlockReadOnly
  <2>2. CASE RefuseHost(r)
    BY <2>2 DEF RefuseHost
  <2>3. CASE Admit(r)
    BY <2>3 DEF Admit
  <2>4. CASE AuthorizeFail(r)
    BY <2>4 DEF Failed, AuthorizeFail
  <2>5. CASE AuthorizeOk(r)
    BY <2>5 DEF EnterRetryLoop, AuthorizeOk
  <2>6. CASE TopCancelled(r)
    BY <2>6 DEF TopCancelled
  <2>7. CASE TopExhausted(r)
    <3>1. lastErr[r] \in Errors /\ lastErr[r] # "nil"
      BY <2>7 DEF Exhausted, TopExhausted, Errors
    <3>2. QED
      BY <2>7, <3>1 DEF Exhausted, TopExhausted
  <2>8. CASE TopAttempt(r)
    BY <2>8 DEF NeedsBackoff, Exhausted, TopAttempt
  <2>9. CASE BackoffDone(r)
    BY <2>9 DEF Sleep, BackoffDone
  <2>10. CASE RateWaitDone(r)
    BY <2>10 DEF Sleep, RateWaitDone
  <2>11. CASE SleepCancelled(r)
    BY <2>11 DEF SleepCancelled
  <2>12. CASE Send(r)
    <3>1. CASE t # r
      BY <2>12, <3>1 DEF SpendBudget, Send
    <3>2. CASE t = r
      <4>1. budget'[r] = budget[r] - 1 /\ pc'[r] = "wait" /\ result' = result
        BY <2>12 DEF SpendBudget, Send
      <4>2. sends'[r] <= sends[r] + 1
        BY <2>12, RetriesAssumption DEF Send
      <4>3. sends'[r] \in Nat /\ sends[r] \in Nat /\ budget[r] \in Nat
        BY RetriesAssumption
      <4>4. sends'[r] + budget'[r] <= MaxRetries + 1
        BY <4>1, <4>2, <4>3, RetriesAssumption
      <4>5. QED
        BY <3>2, <4>1, <4>4
    <3>3. QED
      BY <3>1, <3>2
  <2>13. CASE TransportRetry(r)
    BY <2>13 DEF Continue, TransportRetry
  <2>14. CASE TransportGiveUp(r)
    BY <2>14 DEF Ambiguous, TransportGiveUp
  <2>15. CASE RedirectRefused(r)
    BY <2>15 DEF RedirectRefused
  <2>16. CASE RateLimited(r)
    BY <2>16 DEF Continue, RateLimited
  <2>17. CASE Unauthorized(r)
    BY <2>17 DEF Continue, Unauthorized
  <2>18. CASE RefreshOk(r)
    BY <2>18 DEF RefreshOk
  <2>19. CASE RefreshFail(r)
    BY <2>19 DEF Failed, RefreshFail
  <2>20. CASE ServerErrorRetry(r)
    BY <2>20 DEF Continue, ServerErrorRetry
  <2>21. CASE ServerErrorGiveUp(r)
    BY <2>21 DEF Ambiguous, ServerErrorGiveUp
  <2>22. CASE ReadFailed(r)
    BY <2>22 DEF Failed, ReadFailed
  <2>23. CASE ReturnClientError(r)
    BY <2>23 DEF ReturnClientError
  <2>24. CASE RetryEnvelope(r)
    BY <2>24 DEF RetriesEnvelope, RetryEnvelope
  <2>25. CASE OuterBackoffDone(r)
    BY <2>25 DEF EnterRetryLoop, OuterBackoffDone
  <2>26. CASE ReturnEnvelopeError(r)
    BY <2>26 DEF RetriesEnvelope, ReturnEnvelopeError
  <2>27. CASE ReturnOk(r)
    BY <2>27 DEF ReturnOk
  <2>28. QED
    BY <1>1, <2>1, <2>2, <2>3, <2>4, <2>5, <2>6, <2>7, <2>8, <2>9, <2>10, <2>11, <2>12, <2>13, <2>14, <2>15, <2>16, <2>17, <2>18, <2>19, <2>20, <2>21, <2>22, <2>23, <2>24, <2>25, <2>26, <2>27 DEF Step
<1>2. ASSUME NEW r \in Runs, Cancel(r) PROVE BudgetInv(t)'
  BY <1>2 DEF Cancel, client
<1>3. ASSUME NEW m \in net,
             \/ TenantRefuses(m) \/ TenantReportsFailure(m) \/ TenantApplies(m)
             \/ GatewayError(m) \/ Lose(m)
      PROVE BudgetInv(t)'
  <2>1. m.run \in Runs /\ m.key \in Keys \cup {NoKey}
    BY DEF Wire
  <2>2. CASE TenantRefuses(m)
    BY <2>1, <2>2 DEF TenantRefuses, Deliver, Untouched
  <2>3. CASE TenantReportsFailure(m)
    BY <2>1, <2>3 DEF TenantReportsFailure, Deliver, Untouched
  <2>4. CASE TenantApplies(m)
    BY <2>1, <2>4 DEF TenantApplies, Deliver, Untouched
  <2>5. CASE GatewayError(m)
    BY <2>1, <2>5 DEF GatewayError, Deliver, Untouched
  <2>6. CASE Lose(m)
    BY <2>1, <2>6 DEF Lose, Deliver, Untouched
  <2>7. QED
    BY <1>3, <2>2, <2>3, <2>4, <2>5, <2>6
<1>4. CASE UNCHANGED vars
  BY <1>4 DEF vars
<1>5. QED
  BY <1>1, <1>2, <1>3, <1>4 DEF Next, Environment

\* The key part is inductive: the header is written once, by AuthorizeOk, and
\* the hint is only built by Ambiguous, which reads it.
LEMMA KeyStep ==
    ASSUME TypeOK, \A s \in Runs : KeyInv(s), [Next]_vars, NEW t \in Runs
    PROVE  KeyInv(t)'
<1> USE DEF KeyInv, KeyOf, TypeOK, tenant, history, loopVars, Goto, Return, Plain
<1>1. ASSUME NEW r \in Runs, Step(r) PROVE KeyInv(t)'
  <2>1. CASE BlockReadOnly(r)
    BY <2>1 DEF BlockReadOnly
  <2>2. CASE RefuseHost(r)
    BY <2>2 DEF RefuseHost
  <2>3. CASE Admit(r)
    BY <2>3 DEF Admit
  <2>4. CASE AuthorizeFail(r)
    BY <2>4 DEF Failed, AuthorizeFail
  <2>5. CASE AuthorizeOk(r)
    BY <2>5 DEF EnterRetryLoop, AuthorizeOk
  <2>6. CASE TopCancelled(r)
    BY <2>6 DEF TopCancelled
  <2>7. CASE TopExhausted(r)
    BY <2>7 DEF Exhausted, TopExhausted
  <2>8. CASE TopAttempt(r)
    BY <2>8 DEF NeedsBackoff, Exhausted, TopAttempt
  <2>9. CASE BackoffDone(r)
    BY <2>9 DEF Sleep, BackoffDone
  <2>10. CASE RateWaitDone(r)
    BY <2>10 DEF Sleep, RateWaitDone
  <2>11. CASE SleepCancelled(r)
    BY <2>11 DEF SleepCancelled
  <2>12. CASE Send(r)
    BY <2>12 DEF SpendBudget, Send
  <2>13. CASE TransportRetry(r)
    BY <2>13 DEF Continue, TransportRetry
  <2>14. CASE TransportGiveUp(r)
    BY <2>14 DEF Ambiguous, TransportGiveUp
  <2>15. CASE RedirectRefused(r)
    BY <2>15 DEF RedirectRefused
  <2>16. CASE RateLimited(r)
    BY <2>16 DEF Continue, RateLimited
  <2>17. CASE Unauthorized(r)
    BY <2>17 DEF Continue, Unauthorized
  <2>18. CASE RefreshOk(r)
    BY <2>18 DEF RefreshOk
  <2>19. CASE RefreshFail(r)
    BY <2>19 DEF Failed, RefreshFail
  <2>20. CASE ServerErrorRetry(r)
    BY <2>20 DEF Continue, ServerErrorRetry
  <2>21. CASE ServerErrorGiveUp(r)
    BY <2>21 DEF Ambiguous, ServerErrorGiveUp
  <2>22. CASE ReadFailed(r)
    BY <2>22 DEF Failed, ReadFailed
  <2>23. CASE ReturnClientError(r)
    BY <2>23 DEF ReturnClientError
  <2>24. CASE RetryEnvelope(r)
    BY <2>24 DEF Envelope, RetryEnvelope
  <2>25. CASE OuterBackoffDone(r)
    BY <2>25 DEF EnterRetryLoop, OuterBackoffDone
  <2>26. CASE ReturnEnvelopeError(r)
    BY <2>26 DEF RetriesEnvelope, ReturnEnvelopeError
  <2>27. CASE ReturnOk(r)
    BY <2>27 DEF ReturnOk
  <2>28. QED
    BY <1>1, <2>1, <2>2, <2>3, <2>4, <2>5, <2>6, <2>7, <2>8, <2>9, <2>10, <2>11, <2>12, <2>13, <2>14, <2>15, <2>16, <2>17, <2>18, <2>19, <2>20, <2>21, <2>22, <2>23, <2>24, <2>25, <2>26, <2>27 DEF Step
<1>2. ASSUME NEW r \in Runs, Cancel(r) PROVE KeyInv(t)'
  BY <1>2 DEF Cancel, client
<1>3. ASSUME NEW m \in net,
             \/ TenantRefuses(m) \/ TenantReportsFailure(m) \/ TenantApplies(m)
             \/ GatewayError(m) \/ Lose(m)
      PROVE KeyInv(t)'
  <2>1. m.run \in Runs /\ m.key \in Keys \cup {NoKey}
    BY DEF Wire
  <2>2. CASE TenantRefuses(m)
    BY <2>1, <2>2 DEF TenantRefuses, Deliver, Untouched
  <2>3. CASE TenantReportsFailure(m)
    BY <2>1, <2>3 DEF TenantReportsFailure, Deliver, Untouched
  <2>4. CASE TenantApplies(m)
    BY <2>1, <2>4 DEF TenantApplies, Deliver, Untouched
  <2>5. CASE GatewayError(m)
    BY <2>1, <2>5 DEF GatewayError, Deliver, Untouched
  <2>6. CASE Lose(m)
    BY <2>1, <2>6 DEF Lose, Deliver, Untouched
  <2>7. QED
    BY <1>3, <2>2, <2>3, <2>4, <2>5, <2>6
<1>4. CASE UNCHANGED vars
  BY <1>4 DEF vars
<1>5. QED
  BY <1>1, <1>2, <1>3, <1>4 DEF Next, Environment

\* The wire part is inductive: only a request whose run has its key is sent,
\* and the tenant remembers the key of what it carries out.
LEMMA WireStep ==
    ASSUME TypeOK, WireInv, [Next]_vars
    PROVE  WireInv'
<1> USE DEF WireInv, TypeOK, tenant, history, loopVars, Goto, Return, Plain
<1>1. ASSUME NEW r \in Runs, Step(r) PROVE WireInv'
  <2>1. CASE BlockReadOnly(r)
    BY <2>1 DEF BlockReadOnly
  <2>2. CASE RefuseHost(r)
    BY <2>2 DEF RefuseHost
  <2>3. CASE Admit(r)
    BY <2>3 DEF Admit
  <2>4. CASE AuthorizeFail(r)
    BY <2>4 DEF Failed, AuthorizeFail
  <2>5. CASE AuthorizeOk(r)
    BY <2>5 DEF EnterRetryLoop, AuthorizeOk
  <2>6. CASE TopCancelled(r)
    BY <2>6 DEF TopCancelled
  <2>7. CASE TopExhausted(r)
    BY <2>7 DEF Exhausted, TopExhausted
  <2>8. CASE TopAttempt(r)
    BY <2>8 DEF NeedsBackoff, Exhausted, TopAttempt
  <2>9. CASE BackoffDone(r)
    BY <2>9 DEF Sleep, BackoffDone
  <2>10. CASE RateWaitDone(r)
    BY <2>10 DEF Sleep, RateWaitDone
  <2>11. CASE SleepCancelled(r)
    BY <2>11 DEF SleepCancelled
  <2>12. CASE Send(r)
    BY <2>12 DEF SpendBudget, Send
  <2>13. CASE TransportRetry(r)
    BY <2>13 DEF Continue, TransportRetry
  <2>14. CASE TransportGiveUp(r)
    BY <2>14 DEF Ambiguous, TransportGiveUp
  <2>15. CASE RedirectRefused(r)
    BY <2>15 DEF RedirectRefused
  <2>16. CASE RateLimited(r)
    BY <2>16 DEF Continue, RateLimited
  <2>17. CASE Unauthorized(r)
    BY <2>17 DEF Continue, Unauthorized
  <2>18. CASE RefreshOk(r)
    BY <2>18 DEF RefreshOk
  <2>19. CASE RefreshFail(r)
    BY <2>19 DEF Failed, RefreshFail
  <2>20. CASE ServerErrorRetry(r)
    BY <2>20 DEF Continue, ServerErrorRetry
  <2>21. CASE ServerErrorGiveUp(r)
    BY <2>21 DEF Ambiguous, ServerErrorGiveUp
  <2>22. CASE ReadFailed(r)
    BY <2>22 DEF Failed, ReadFailed
  <2>23. CASE ReturnClientError(r)
    BY <2>23 DEF ReturnClientError
  <2>24. CASE RetryEnvelope(r)
    BY <2>24 DEF Envelope, RetryEnvelope
  <2>25. CASE OuterBackoffDone(r)
    BY <2>25 DEF EnterRetryLoop, OuterBackoffDone
  <2>26. CASE ReturnEnvelopeError(r)
    BY <2>26 DEF RetriesEnvelope, ReturnEnvelopeError
  <2>27. CASE ReturnOk(r)
    BY <2>27 DEF ReturnOk
  <2>28. QED
    BY <1>1, <2>1, <2>2, <2>3, <2>4, <2>5, <2>6, <2>7, <2>8, <2>9, <2>10, <2>11, <2>12, <2>13, <2>14, <2>15, <2>16, <2>17, <2>18, <2>19, <2>20, <2>21, <2>22, <2>23, <2>24, <2>25, <2>26, <2>27 DEF Step
<1>2. ASSUME NEW r \in Runs, Cancel(r) PROVE WireInv'
  BY <1>2 DEF Cancel, client
<1>3. ASSUME NEW m \in net,
             \/ TenantRefuses(m) \/ TenantReportsFailure(m) \/ TenantApplies(m)
             \/ GatewayError(m) \/ Lose(m)
      PROVE WireInv'
  <2>1. m.run \in Runs /\ m.key \in Keys \cup {NoKey}
    BY DEF Wire
  <2>8. net' \subseteq net /\ key' = key
    BY <1>3 DEF TenantRefuses, TenantReportsFailure, TenantApplies, GatewayError,
                Lose, Untouched
  <2>9. \A s \in Runs : pc[s] \notin {"start", "authorize"}
                            => pc'[s] \notin {"start", "authorize"}
    <3>1. UNCHANGED pc \/ \E answer \in Responses : Deliver(m, answer)
      BY <1>3 DEF TenantRefuses, TenantReportsFailure, TenantApplies,
                  GatewayError, Lose, Responses
    <3>2. QED
      BY <2>1, <3>1 DEF Deliver
  <2>10. \A o \in net' : o.key = key'[o.run] /\ pc'[o.run] \notin {"start", "authorize"}
    BY <2>8, <2>9 DEF Wire
  <2>2. CASE TenantRefuses(m)
    BY <2>8, <2>9, <2>10, <2>2 DEF TenantRefuses
  <2>3. CASE TenantReportsFailure(m)
    BY <2>8, <2>9, <2>10, <2>3 DEF TenantReportsFailure
  <2>4. CASE TenantApplies(m)
    <3>1. seen' = seen \cup ({m.key} \ {NoKey}) /\ m.key = key[m.run]
      BY <2>4 DEF TenantApplies
    <3>2. pc[m.run] \notin {"start", "authorize"}
      OBVIOUS
    <3>3. \A s \in Runs : s # m.run => applied'[s] = applied[s]
      BY <2>4 DEF TenantApplies
    <3>4. ASSUME NEW s \in Runs, applied'[s] > 0
          PROVE  /\ pc'[s] \notin {"start", "authorize"}
                 /\ key'[s] # NoKey => key'[s] \in seen'
      <4>1. CASE s = m.run
        BY <2>8, <2>9, <3>1, <3>2, <4>1
      <4>2. CASE s # m.run
        BY <2>8, <2>9, <3>1, <3>3, <3>4, <4>2
      <4>3. QED
        BY <4>1, <4>2
    <3>5. QED
      BY <2>10, <3>4
  <2>5. CASE GatewayError(m)
    BY <2>8, <2>9, <2>10, <2>5 DEF GatewayError
  <2>6. CASE Lose(m)
    BY <2>8, <2>9, <2>10, <2>6 DEF Lose
  <2>7. QED
    BY <1>3, <2>2, <2>3, <2>4, <2>5, <2>6
<1>4. CASE UNCHANGED vars
  BY <1>4 DEF vars
<1>5. QED
  BY <1>1, <1>2, <1>3, <1>4 DEF Next, Environment

\* The write part is inductive: a request that must not be doubled goes back
\* to the loop only on an answer that proves it was not carried out.
LEMMA WriteStep ==
    ASSUME TypeOK, \A s \in Runs : WriteInv(s), WireInv, [Next]_vars,
           NEW t \in Runs
    PROVE  WriteInv(t)'
<1> USE DEF WriteInv, Clean, AtMostOneLeft, Covered, isIdempotent, SafeMethods, Refusals, Limits, TypeOK, tenant, history, loopVars, Goto, Return, Plain
<1>1. ASSUME NEW r \in Runs, Step(r) PROVE WriteInv(t)'
  <2>1. CASE BlockReadOnly(r)
    BY <2>1 DEF BlockReadOnly
  <2>2. CASE RefuseHost(r)
    BY <2>2 DEF RefuseHost
  <2>3. CASE Admit(r)
    BY <2>3 DEF Admit
  <2>4. CASE AuthorizeFail(r)
    BY <2>4 DEF Failed, AuthorizeFail
  <2>5. CASE AuthorizeOk(r)
    BY <2>5 DEF EnterRetryLoop, AuthorizeOk
  <2>6. CASE TopCancelled(r)
    BY <2>6 DEF TopCancelled
  <2>7. CASE TopExhausted(r)
    BY <2>7 DEF Exhausted, TopExhausted
  <2>8. CASE TopAttempt(r)
    BY <2>8 DEF NeedsBackoff, Exhausted, TopAttempt
  <2>9. CASE BackoffDone(r)
    BY <2>9 DEF Sleep, BackoffDone
  <2>10. CASE RateWaitDone(r)
    BY <2>10 DEF Sleep, RateWaitDone
  <2>11. CASE SleepCancelled(r)
    BY <2>11 DEF SleepCancelled
  <2>12. CASE Send(r)
    BY <2>12 DEF SpendBudget, Send
  <2>13. CASE TransportRetry(r)
    BY <2>13 DEF Continue, TransportRetry
  <2>14. CASE TransportGiveUp(r)
    BY <2>14 DEF Ambiguous, TransportGiveUp
  <2>15. CASE RedirectRefused(r)
    BY <2>15 DEF RedirectRefused
  <2>16. CASE RateLimited(r)
    BY <2>16 DEF Continue, RateLimited
  <2>17. CASE Unauthorized(r)
    BY <2>17 DEF Continue, Unauthorized
  <2>18. CASE RefreshOk(r)
    BY <2>18 DEF RefreshOk
  <2>19. CASE RefreshFail(r)
    BY <2>19 DEF Failed, RefreshFail
  <2>20. CASE ServerErrorRetry(r)
    BY <2>20 DEF Continue, ServerErrorRetry
  <2>21. CASE ServerErrorGiveUp(r)
    BY <2>21 DEF Ambiguous, ServerErrorGiveUp
  <2>22. CASE ReadFailed(r)
    BY <2>22 DEF Failed, ReadFailed
  <2>23. CASE ReturnClientError(r)
    BY <2>23 DEF ReturnClientError
  <2>24. CASE RetryEnvelope(r)
    BY <2>24 DEF Envelope, RetryEnvelope
  <2>25. CASE OuterBackoffDone(r)
    BY <2>25 DEF EnterRetryLoop, OuterBackoffDone
  <2>26. CASE ReturnEnvelopeError(r)
    BY <2>26 DEF RetriesEnvelope, ReturnEnvelopeError
  <2>27. CASE ReturnOk(r)
    BY <2>27 DEF ReturnOk
  <2>28. QED
    BY <1>1, <2>1, <2>2, <2>3, <2>4, <2>5, <2>6, <2>7, <2>8, <2>9, <2>10, <2>11, <2>12, <2>13, <2>14, <2>15, <2>16, <2>17, <2>18, <2>19, <2>20, <2>21, <2>22, <2>23, <2>24, <2>25, <2>26, <2>27 DEF Step
<1>2. ASSUME NEW r \in Runs, Cancel(r) PROVE WriteInv(t)'
  BY <1>2 DEF Cancel, client
<1>3. ASSUME NEW m \in net,
             \/ TenantRefuses(m) \/ TenantReportsFailure(m) \/ TenantApplies(m)
             \/ GatewayError(m) \/ Lose(m)
      PROVE WriteInv(t)'
  <2>1. m.run \in Runs /\ m.key \in Keys \cup {NoKey}
    BY DEF Wire
  <2>2. CASE TenantRefuses(m)
    BY <2>1, <2>2 DEF TenantRefuses, Deliver, Untouched
  <2>3. CASE TenantReportsFailure(m)
    BY <2>1, <2>3 DEF TenantReportsFailure, Deliver, Untouched
  <2>4. CASE TenantApplies(m)
    BY <2>1, <2>4 DEF TenantApplies, Deliver, Untouched
  <2>5. CASE GatewayError(m)
    BY <2>1, <2>5 DEF GatewayError, Deliver, Untouched
  <2>6. CASE Lose(m)
    BY <2>1, <2>6 DEF Lose, Deliver, Untouched
  <2>7. QED
    BY <1>3, <2>2, <2>3, <2>4, <2>5, <2>6
<1>4. CASE UNCHANGED vars
  BY <1>4 DEF vars
<1>5. QED
  BY <1>1, <1>2, <1>3, <1>4 DEF Next, Environment

\* The gate part is inductive: Admit is the only way past the top of Do, and
\* the request does not change on its way.
LEMMA GateStep ==
    ASSUME TypeOK, \A s \in Runs : GateInv(s), [Next]_vars, NEW t \in Runs
    PROVE  GateInv(t)'
<1> USE DEF GateInv, TypeOK, tenant, history, loopVars, Goto, Return, Plain
<1>1. ASSUME NEW r \in Runs, Step(r) PROVE GateInv(t)'
  <2>1. CASE BlockReadOnly(r)
    BY <2>1 DEF BlockReadOnly
  <2>2. CASE RefuseHost(r)
    BY <2>2 DEF RefuseHost
  <2>3. CASE Admit(r)
    BY <2>3 DEF Admit
  <2>4. CASE AuthorizeFail(r)
    BY <2>4 DEF Failed, AuthorizeFail
  <2>5. CASE AuthorizeOk(r)
    BY <2>5 DEF EnterRetryLoop, AuthorizeOk
  <2>6. CASE TopCancelled(r)
    BY <2>6 DEF TopCancelled
  <2>7. CASE TopExhausted(r)
    BY <2>7 DEF Exhausted, TopExhausted
  <2>8. CASE TopAttempt(r)
    BY <2>8 DEF NeedsBackoff, Exhausted, TopAttempt
  <2>9. CASE BackoffDone(r)
    BY <2>9 DEF Sleep, BackoffDone
  <2>10. CASE RateWaitDone(r)
    BY <2>10 DEF Sleep, RateWaitDone
  <2>11. CASE SleepCancelled(r)
    BY <2>11 DEF SleepCancelled
  <2>12. CASE Send(r)
    BY <2>12 DEF SpendBudget, Send
  <2>13. CASE TransportRetry(r)
    BY <2>13 DEF Continue, TransportRetry
  <2>14. CASE TransportGiveUp(r)
    BY <2>14 DEF Ambiguous, TransportGiveUp
  <2>15. CASE RedirectRefused(r)
    BY <2>15 DEF RedirectRefused
  <2>16. CASE RateLimited(r)
    BY <2>16 DEF Continue, RateLimited
  <2>17. CASE Unauthorized(r)
    BY <2>17 DEF Continue, Unauthorized
  <2>18. CASE RefreshOk(r)
    BY <2>18 DEF RefreshOk
  <2>19. CASE RefreshFail(r)
    BY <2>19 DEF Failed, RefreshFail
  <2>20. CASE ServerErrorRetry(r)
    BY <2>20 DEF Continue, ServerErrorRetry
  <2>21. CASE ServerErrorGiveUp(r)
    BY <2>21 DEF Ambiguous, ServerErrorGiveUp
  <2>22. CASE ReadFailed(r)
    BY <2>22 DEF Failed, ReadFailed
  <2>23. CASE ReturnClientError(r)
    BY <2>23 DEF ReturnClientError
  <2>24. CASE RetryEnvelope(r)
    BY <2>24 DEF Envelope, RetryEnvelope
  <2>25. CASE OuterBackoffDone(r)
    BY <2>25 DEF EnterRetryLoop, OuterBackoffDone
  <2>26. CASE ReturnEnvelopeError(r)
    BY <2>26 DEF RetriesEnvelope, ReturnEnvelopeError
  <2>27. CASE ReturnOk(r)
    BY <2>27 DEF ReturnOk
  <2>28. QED
    BY <1>1, <2>1, <2>2, <2>3, <2>4, <2>5, <2>6, <2>7, <2>8, <2>9, <2>10, <2>11, <2>12, <2>13, <2>14, <2>15, <2>16, <2>17, <2>18, <2>19, <2>20, <2>21, <2>22, <2>23, <2>24, <2>25, <2>26, <2>27 DEF Step
<1>2. ASSUME NEW r \in Runs, Cancel(r) PROVE GateInv(t)'
  BY <1>2 DEF Cancel, client
<1>3. ASSUME NEW m \in net,
             \/ TenantRefuses(m) \/ TenantReportsFailure(m) \/ TenantApplies(m)
             \/ GatewayError(m) \/ Lose(m)
      PROVE GateInv(t)'
  <2>1. m.run \in Runs /\ m.key \in Keys \cup {NoKey}
    BY DEF Wire
  <2>2. CASE TenantRefuses(m)
    BY <2>1, <2>2 DEF TenantRefuses, Deliver, Untouched
  <2>3. CASE TenantReportsFailure(m)
    BY <2>1, <2>3 DEF TenantReportsFailure, Deliver, Untouched
  <2>4. CASE TenantApplies(m)
    BY <2>1, <2>4 DEF TenantApplies, Deliver, Untouched
  <2>5. CASE GatewayError(m)
    BY <2>1, <2>5 DEF GatewayError, Deliver, Untouched
  <2>6. CASE Lose(m)
    BY <2>1, <2>6 DEF Lose, Deliver, Untouched
  <2>7. QED
    BY <1>3, <2>2, <2>3, <2>4, <2>5, <2>6
<1>4. CASE UNCHANGED vars
  BY <1>4 DEF vars
<1>5. QED
  BY <1>1, <1>2, <1>3, <1>4 DEF Next, Environment

\* The pace part is inductive: each way back to the loop either waits, brings
\* a new token or sets attempt > 0 and leaves skipBackoff off.
LEMMA PaceStep ==
    ASSUME TypeOK, \A s \in Runs : PaceInv(s), [Next]_vars, NEW t \in Runs
    PROVE  PaceInv(t)'
<1> USE DEF PaceInv, NeedsBackoff, TypeOK, tenant, history, loopVars, Goto, Return, Plain
<1>1. ASSUME NEW r \in Runs, Step(r) PROVE PaceInv(t)'
  <2>1. CASE BlockReadOnly(r)
    BY <2>1 DEF BlockReadOnly
  <2>2. CASE RefuseHost(r)
    BY <2>2 DEF RefuseHost
  <2>3. CASE Admit(r)
    BY <2>3 DEF Admit
  <2>4. CASE AuthorizeFail(r)
    BY <2>4 DEF Failed, AuthorizeFail
  <2>5. CASE AuthorizeOk(r)
    BY <2>5 DEF EnterRetryLoop, AuthorizeOk
  <2>6. CASE TopCancelled(r)
    BY <2>6 DEF TopCancelled
  <2>7. CASE TopExhausted(r)
    BY <2>7 DEF Exhausted, TopExhausted
  <2>8. CASE TopAttempt(r)
    BY <2>8 DEF NeedsBackoff, Exhausted, TopAttempt
  <2>9. CASE BackoffDone(r)
    BY <2>9 DEF Sleep, BackoffDone
  <2>10. CASE RateWaitDone(r)
    BY <2>10 DEF Sleep, RateWaitDone
  <2>11. CASE SleepCancelled(r)
    BY <2>11 DEF SleepCancelled
  <2>12. CASE Send(r)
    BY <2>12 DEF SpendBudget, Send
  <2>13. CASE TransportRetry(r)
    BY <2>13 DEF Continue, TransportRetry
  <2>14. CASE TransportGiveUp(r)
    BY <2>14 DEF Ambiguous, TransportGiveUp
  <2>15. CASE RedirectRefused(r)
    BY <2>15 DEF RedirectRefused
  <2>16. CASE RateLimited(r)
    BY <2>16 DEF Continue, Limits, RateLimited
  <2>17. CASE Unauthorized(r)
    BY <2>17 DEF Continue, Unauthorized
  <2>18. CASE RefreshOk(r)
    BY <2>18 DEF RefreshOk
  <2>19. CASE RefreshFail(r)
    BY <2>19 DEF Failed, RefreshFail
  <2>20. CASE ServerErrorRetry(r)
    BY <2>20 DEF Continue, ServerErrorRetry
  <2>21. CASE ServerErrorGiveUp(r)
    BY <2>21 DEF Ambiguous, ServerErrorGiveUp
  <2>22. CASE ReadFailed(r)
    BY <2>22 DEF Failed, ReadFailed
  <2>23. CASE ReturnClientError(r)
    BY <2>23 DEF ReturnClientError
  <2>24. CASE RetryEnvelope(r)
    BY <2>24 DEF Envelope, RetryEnvelope
  <2>25. CASE OuterBackoffDone(r)
    BY <2>25 DEF EnterRetryLoop, OuterBackoffDone
  <2>26. CASE ReturnEnvelopeError(r)
    BY <2>26 DEF RetriesEnvelope, ReturnEnvelopeError
  <2>27. CASE ReturnOk(r)
    BY <2>27 DEF ReturnOk
  <2>28. QED
    BY <1>1, <2>1, <2>2, <2>3, <2>4, <2>5, <2>6, <2>7, <2>8, <2>9, <2>10, <2>11, <2>12, <2>13, <2>14, <2>15, <2>16, <2>17, <2>18, <2>19, <2>20, <2>21, <2>22, <2>23, <2>24, <2>25, <2>26, <2>27 DEF Step
<1>2. ASSUME NEW r \in Runs, Cancel(r) PROVE PaceInv(t)'
  BY <1>2 DEF Cancel, client
<1>3. ASSUME NEW m \in net,
             \/ TenantRefuses(m) \/ TenantReportsFailure(m) \/ TenantApplies(m)
             \/ GatewayError(m) \/ Lose(m)
      PROVE PaceInv(t)'
  <2>1. m.run \in Runs /\ m.key \in Keys \cup {NoKey}
    BY DEF Wire
  <2>2. CASE TenantRefuses(m)
    BY <2>1, <2>2 DEF TenantRefuses, Deliver, Untouched
  <2>3. CASE TenantReportsFailure(m)
    BY <2>1, <2>3 DEF TenantReportsFailure, Deliver, Untouched
  <2>4. CASE TenantApplies(m)
    BY <2>1, <2>4 DEF TenantApplies, Deliver, Untouched
  <2>5. CASE GatewayError(m)
    BY <2>1, <2>5 DEF GatewayError, Deliver, Untouched
  <2>6. CASE Lose(m)
    BY <2>1, <2>6 DEF Lose, Deliver, Untouched
  <2>7. QED
    BY <1>3, <2>2, <2>3, <2>4, <2>5, <2>6
<1>4. CASE UNCHANGED vars
  BY <1>4 DEF vars
<1>5. QED
  BY <1>1, <1>2, <1>3, <1>4 DEF Next, Environment

\* The invariant holds initially.
LEMMA InitInv == Init => IInv
<1> SUFFICES ASSUME Init PROVE IInv
  OBVIOUS
<1> USE RetriesAssumption, RequestsAssumption DEF Init
<1>1. TypeOK
  BY DEF TypeOK, PCs, Result, NoResult, Wire, RequestType
<1>2. \A r \in Runs : BudgetInv(r) /\ KeyInv(r)
  BY DEF BudgetInv, KeyInv, NoResult
<1>3. \A r \in Runs : WriteInv(r)
  BY DEF WriteInv, AtMostOneLeft, Clean
<1>4. WireInv
  BY DEF WireInv
<1>5. \A r \in Runs : GateInv(r) /\ PaceInv(r)
  BY DEF GateInv, PaceInv
<1>6. QED
  BY <1>1, <1>2, <1>3, <1>4, <1>5 DEF IInv

\* The invariant is inductive.
LEMMA StepInv == IInv /\ [Next]_vars => IInv'
<1> SUFFICES ASSUME IInv, [Next]_vars PROVE IInv'
  OBVIOUS
<1>1. TypeOK'
  BY TypeStep DEF IInv
<1>2. \A r \in Runs : BudgetInv(r)' /\ KeyInv(r)' /\ WriteInv(r)'
  BY <1>1, BudgetStep, KeyStep, WriteStep DEF IInv
<1>3. WireInv'
  BY WireStep DEF IInv
<1>4. \A r \in Runs : GateInv(r)' /\ PaceInv(r)'
  BY GateStep, PaceStep DEF IInv
<1>5. QED
  BY <1>1, <1>2, <1>3, <1>4 DEF IInv

-----------------------------------------------------------------------------
(* The theorems.                                                           *)

\* Every reachable state satisfies the inductive invariant: the retry budget,
\* the key, the clean state before a resend and the keys the tenant knows.
THEOREM Invariance == Spec => []IInv
BY InitInv, StepInv, PTL DEF Spec

\* Every variable keeps its type; in particular the budget the two retry
\* loops share never leaves 0..(MaxRetries + 1).
THEOREM Typing == Spec => []TypeOK
<1>1. IInv => TypeOK
  BY DEF IInv
<1>2. QED
  BY <1>1, Invariance, PTL

\* Do puts a request on the wire at most MaxRetries + 1 times.
THEOREM SendsAreBounded == Spec => []SendBound
<1>1. IInv => SendBound
  <2> SUFFICES ASSUME IInv, NEW r \in Runs PROVE sends[r] <= MaxRetries + 1
    BY DEF SendBound
  <2>1. sends[r] + budget[r] <= MaxRetries + 1
    BY DEF IInv, BudgetInv
  <2>2. sends[r] \in Nat /\ budget[r] \in Nat
    BY RetriesAssumption DEF IInv, TypeOK
  <2>3. QED
    BY <2>1, <2>2, RetriesAssumption
<1>2. QED
  BY <1>1, Invariance, PTL

\* doWithRetry never returns a nil response with a nil error.
THEOREM NeverNilResponse == Spec => []NoNilResponse
<1>1. IInv => NoNilResponse
  BY DEF IInv, BudgetInv, NoNilResponse
<1>2. QED
  BY <1>1, Invariance, PTL

\* The SafeToRetry hint is only given with the key the request carried, and
\* the tenant knows that key if the request was applied; the one hint without
\* a key is that of a caller who emptied the header.
THEOREM HintIsSound == Spec => []SafeHintSound
<1>1. IInv => SafeHintSound
  <2> SUFFICES ASSUME IInv, NEW r \in Runs, result[r].safe
               PROVE  /\ result[r].idem = key[r]
                      /\ key[r] = NoKey => req[r].header = NoKey
                      /\ applied[r] > 0 /\ key[r] # NoKey => key[r] \in seen
    BY DEF SafeHintSound
  <2>1. key[r] = KeyOf(r) /\ result[r].idem = key[r] /\ carriesIdempotencyKey(req[r].method)
    BY DEF IInv, KeyInv
  <2>2. key[r] = NoKey => req[r].header = NoKey
    BY <2>1, KeysAssumption DEF KeyOf, Keys
  <2>3. QED
    BY <2>1, <2>2 DEF IInv, WireInv
<1>2. QED
  BY <1>1, Invariance, PTL

\* In read-only mode the tenant applies nothing but Data Query jobs, and
\* those only under the opt-in: with any number of runs and retries.
THEOREM ReadOnlyChangesNothing == Spec => []ReadOnlyHarmless
<1>1. IInv => ReadOnlyHarmless
  BY DEF IInv, GateInv, ReadOnlyHarmless, Mutates, ReadOnlyBlocks,
         isReadOnlyAllowed, isDataQueryWrite
<1>2. QED
  BY <1>1, Invariance, PTL

\* No request is resent at once, unless the tenant has just asked for it:
\* between two sends there is a backoff, the wait a Retry-After asked for, a
\* new token, or a Retry-After of zero.
THEOREM ResendsArePaced == Spec => []NoHotResend
<1>1. IInv => NoHotResend
  BY DEF IInv, PaceInv, NoHotResend
<1>2. QED
  BY <1>1, Invariance, PTL

\* What a step may change at all: requests never, keys only when the headers
\* are set, effects only when the tenant carries a request out.
LEMMA Frame ==
    ASSUME [Next]_vars
    PROVE  /\ req' = req
           /\ key' = key \/ \E r \in Runs : AuthorizeOk(r)
           /\ applied' = applied \/ \E m \in net : TenantApplies(m)
<1> USE DEF tenant, history, loopVars
<1>1. ASSUME NEW r \in Runs, Step(r)
      PROVE  /\ req' = req /\ applied' = applied
             /\ key' = key \/ AuthorizeOk(r)
  BY <1>1 DEF Step, BlockReadOnly, RefuseHost, Admit, AuthorizeFail, AuthorizeOk,
     TopCancelled, TopExhausted, TopAttempt, BackoffDone, RateWaitDone, Sleep,
     SleepCancelled, Send, TransportRetry, TransportGiveUp, RedirectRefused,
     RateLimited, Unauthorized, RefreshOk, RefreshFail, ServerErrorRetry,
     ServerErrorGiveUp, ReadFailed, ReturnClientError, RetryEnvelope,
     OuterBackoffDone, ReturnEnvelopeError, ReturnOk
<1>2. ASSUME NEW r \in Runs, Cancel(r)
      PROVE  req' = req /\ applied' = applied /\ key' = key
  BY <1>2 DEF Cancel, client
<1>3. ASSUME NEW m \in net,
             \/ TenantRefuses(m) \/ TenantReportsFailure(m) \/ TenantApplies(m)
             \/ GatewayError(m) \/ Lose(m)
      PROVE  req' = req /\ key' = key /\ (applied' = applied \/ TenantApplies(m))
  BY <1>3 DEF TenantRefuses, TenantReportsFailure, TenantApplies, GatewayError,
              Lose, Untouched
<1>4. CASE UNCHANGED vars
  BY <1>4 DEF vars
<1>5. QED
  BY <1>1, <1>2, <1>3, <1>4 DEF Next, Environment

\* A step keeps AtMostOnce: for one run it is part of the invariant; for two
\* runs with one key, the second application would need a key the tenant has
\* already seen.
LEMMA AtMostOnceStep ==
    ASSUME IInv, IInv', AtMostOnce, [Next]_vars
    PROVE  AtMostOnce'
<1> USE DEF IInv, TypeOK
<1>1. \A r \in Runs : Covered(r)' => applied'[r] <= 1
  BY DEF WriteInv, AtMostOneLeft
<1>2. ASSUME NEW r \in Runs, NEW s \in Runs, r # s, Covered(r)', Covered(s)',
             key'[r] = key'[s], key'[r] # NoKey
      PROVE  applied'[r] + applied'[s] <= 1
  <2>1. Covered(r) /\ Covered(s)
    BY <1>2, Frame DEF Covered
  <2>2. applied[r] \in Nat /\ applied[s] \in Nat /\ applied'[r] \in Nat /\ applied'[s] \in Nat
    OBVIOUS
  <2>3. CASE applied' = applied /\ key' = key
    BY <1>2, <2>1, <2>3 DEF AtMostOnce
  <2>4. ASSUME NEW q \in Runs, AuthorizeOk(q)
        PROVE  applied'[r] + applied'[s] <= 1
    <3>1. applied' = applied /\ applied[q] = 0
      BY <2>4 DEF AuthorizeOk, tenant, WireInv
    <3>2. \A t \in Runs : t # q => key'[t] = key[t]
      BY <2>4 DEF AuthorizeOk
    <3>3. CASE r = q \/ s = q
      BY <1>1, <1>2, <2>2, <3>1, <3>3
    <3>4. CASE r # q /\ s # q
      BY <1>2, <2>1, <3>1, <3>2, <3>4 DEF AtMostOnce
    <3>5. QED
      BY <3>3, <3>4
  <2>5. ASSUME NEW m \in net, TenantApplies(m)
        PROVE  applied'[r] + applied'[s] <= 1
    <3>1. key' = key /\ m.key \notin seen /\ m.key = key[m.run] /\ m.run \in Runs
      BY <2>5 DEF TenantApplies, Untouched, WireInv, Wire
    <3>2. \A t \in Runs : t # m.run => applied'[t] = applied[t]
      BY <2>5 DEF TenantApplies
    <3>3. \A t \in Runs : key[t] = m.key /\ key[t] # NoKey => applied[t] = 0
      BY <3>1 DEF WireInv
    <3>4. CASE r = m.run \/ s = m.run
      BY <1>1, <1>2, <2>2, <3>1, <3>2, <3>3, <3>4
    <3>5. CASE r # m.run /\ s # m.run
      BY <1>2, <2>1, <3>1, <3>2, <3>5 DEF AtMostOnce
    <3>6. QED
      BY <3>4, <3>5
  <2>6. QED
    <3>1. \/ applied' = applied /\ key' = key
          \/ \E q \in Runs : AuthorizeOk(q)
          \/ \E m \in net : TenantApplies(m)
      BY Frame
    <3>2. QED
      BY <2>3, <2>4, <2>5, <3>1
<1>3. QED
  BY <1>1, <1>2 DEF AtMostOnce

\* No retry applies a POST, PATCH or PUT twice, and two runs given one key by
\* their callers are together applied once: for any number of concurrent runs,
\* any retry limit, and answers lost, late or reordered.
THEOREM WritesAtMostOnce == Spec => []AtMostOnce
<1>1. Init => AtMostOnce
  BY DEF Init, AtMostOnce
<1>2. IInv /\ IInv' /\ AtMostOnce /\ [Next]_vars => AtMostOnce'
  BY AtMostOnceStep
<1>3. QED
  BY <1>1, <1>2, Invariance, PTL DEF Spec

\* Whatever reached the wire went there with the key of KeyOf.
CarriedKey ==
    \A r \in Runs : applied[r] > 0 \/ (\E m \in net : m.run = r) => key[r] = KeyOf(r)

\* Only Send puts a message on the wire, one, and of its own run.
LEMMA WireFrame ==
    ASSUME TypeOK, [Next]_vars
    PROVE  \/ net' \subseteq net
           \/ \E r \in Runs : Send(r) /\ \A m \in net' : m \in net \/ m.run = r
<1> USE DEF tenant
<1>1. ASSUME NEW r \in Runs, Step(r), ~Send(r) PROVE net' \subseteq net
  BY <1>1 DEF Step, BlockReadOnly, RefuseHost, Admit, AuthorizeFail, AuthorizeOk,
     TopCancelled, TopExhausted, TopAttempt, BackoffDone, RateWaitDone, Sleep,
     SleepCancelled, TransportRetry, TransportGiveUp, RedirectRefused,
     RateLimited, Unauthorized, RefreshOk, RefreshFail, ServerErrorRetry,
     ServerErrorGiveUp, ReadFailed, ReturnClientError, RetryEnvelope,
     OuterBackoffDone, ReturnEnvelopeError, ReturnOk
<1>2. ASSUME NEW r \in Runs, Send(r) PROVE \A m \in net' : m \in net \/ m.run = r
  BY <1>2 DEF Send
<1>3. ASSUME Environment PROVE net' \subseteq net
  BY <1>3 DEF Environment, Cancel, TenantRefuses, TenantReportsFailure, TenantApplies,
     GatewayError, Lose
<1>4. CASE UNCHANGED vars
  BY <1>4 DEF vars
<1>5. QED
  BY <1>1, <1>2, <1>3, <1>4 DEF Next

LEMMA CarriedKeyStep ==
    ASSUME IInv, CarriedKey, [Next]_vars
    PROVE  CarriedKey'
<1> SUFFICES ASSUME NEW r \in Runs, applied'[r] > 0 \/ \E m \in net' : m.run = r
             PROVE  key'[r] = KeyOf(r)'
  BY DEF CarriedKey
<1>1. KeyOf(r)' = KeyOf(r)
  BY Frame DEF KeyOf
<1>2. pc[r] = "send" => key[r] = KeyOf(r)
  BY DEF IInv, KeyInv
<1>3. ASSUME applied[r] > 0 \/ \E m \in net : m.run = r PROVE key'[r] = KeyOf(r)
  <2>1. key[r] = KeyOf(r)
    BY <1>3 DEF CarriedKey
  <2>2. pc[r] \notin {"start", "authorize"}
    BY <1>3 DEF IInv, WireInv
  <2>3. ASSUME NEW q \in Runs, AuthorizeOk(q) PROVE key'[r] = key[r]
    BY <2>2, <2>3 DEF AuthorizeOk, IInv, TypeOK
  <2>4. QED
    BY <2>1, <2>3, Frame
<1>4. CASE \E m \in net' : m.run = r /\ m \notin net
  <2>1. Send(r)
    BY <1>4, WireFrame DEF IInv
  <2>2. key' = key /\ pc[r] = "send"
    BY <2>1 DEF Send
  <2>3. QED
    BY <1>1, <1>2, <2>2
<1>5. CASE applied'[r] > 0 /\ ~(applied[r] > 0)
  <2>1. PICK m \in net : TenantApplies(m)
    BY <1>5, Frame
  <2>2. m.run = r
    BY <1>5, <2>1 DEF TenantApplies, IInv, TypeOK, Wire
  <2>3. QED
    BY <1>1, <1>3, <2>2
<1>6. QED
  BY <1>1, <1>3, <1>4, <1>5

\* Where a caller gave the key of a write (data-query run --idempotency-key),
\* the hint keeps its promise: another run of the command, before, after or
\* during the one that printed it, adds no second write.
THEOREM KeyedHintHolds ==
    Spec => [](\A r, s \in Runs : r # s /\ req[r].header \in HeaderKeys => HintHoldsFor(r, s))
<1>1. Init => CarriedKey
  BY DEF Init, CarriedKey
<1>2. IInv /\ CarriedKey /\ [Next]_vars => CarriedKey'
  BY CarriedKeyStep
<1>3. IInv /\ CarriedKey /\ AtMostOnce =>
        \A r, s \in Runs : r # s /\ req[r].header \in HeaderKeys => HintHoldsFor(r, s)
  <2> SUFFICES ASSUME IInv, CarriedKey, AtMostOnce, NEW r \in Runs, NEW s \in Runs, r # s,
                      req[r].header \in HeaderKeys, req[r] = req[s], result[r].safe
               PROVE  applied[r] + applied[s] <= 1
    BY DEF HintHoldsFor
  <2>1. applied[r] \in Nat /\ applied[s] \in Nat
    BY DEF IInv, TypeOK
  <2>2. carriesIdempotencyKey(req[r].method)
    BY DEF IInv, KeyInv
  <2>3. CASE ~Mutates(req[r])
    <3>1. applied[r] = 0 /\ applied[s] = 0
      BY <2>1, <2>3 DEF IInv, GateInv
    <3>2. QED
      BY <3>1
  <2>4. CASE Mutates(req[r])
    <3>1. Covered(r) /\ Covered(s)
      BY <2>2, <2>4 DEF Covered, carriesIdempotencyKey
    <3>2. applied[r] <= 1 /\ applied[s] <= 1
      BY <3>1 DEF AtMostOnce
    <3>3. CASE applied[r] > 0 /\ applied[s] > 0
      <4>1. req[r].header \notin {NoHeader, NoKey}
        BY KeysAssumption DEF Keys
      <4>2. key[r] = req[r].header /\ key[s] = req[r].header
        BY <3>3, <4>1 DEF CarriedKey, KeyOf
      <4>3. QED
        BY <3>1, <4>1, <4>2 DEF AtMostOnce
    <3>4. CASE ~(applied[r] > 0 /\ applied[s] > 0)
      BY <2>1, <3>2, <3>4
    <3>5. QED
      BY <3>3, <3>4
  <2>5. QED
    BY <2>3, <2>4
<1>4. QED
  BY <1>1, <1>2, <1>3, Invariance, WritesAtMostOnce, PTL DEF Spec

\* So if every command carries a key its caller gave, the hint holds of all of
\* them.  Without it Do draws a key per run, and the run api_rerun refutes it.
THEOREM HintHoldsWithKeys ==
    ASSUME \A q \in Requests : q.header \in HeaderKeys
    PROVE  Spec => []HintHolds
<1>1. Init => \A r \in Runs : req[r].header \in HeaderKeys
  BY DEF Init
<1>2. (\A r \in Runs : req[r].header \in HeaderKeys) /\ [Next]_vars => (\A r \in Runs : req[r].header \in HeaderKeys)'
  BY Frame
<1>3. /\ \A r \in Runs : req[r].header \in HeaderKeys
      /\ \A r, s \in Runs : r # s /\ req[r].header \in HeaderKeys => HintHoldsFor(r, s)
      => HintHolds
  BY DEF HintHolds
<1>4. QED
  BY <1>1, <1>2, <1>3, KeyedHintHolds, PTL DEF Spec

-----------------------------------------------------------------------------
(* Why every call returns: its steps are numbered.                         *)

\* What is left to do before the next send, and ten for every send left.
Rank(label) ==
    CASE label = "done" -> 0
      [] label = "send" -> 1
      [] label = "backoff" -> 2
      [] label = "top" -> 3
      [] label \in {"ratewait", "refresh", "outer"} -> 4
      [] label = "response" -> 5
      [] label = "wait" -> 6
      [] label = "authorize" -> 7
      [] label = "start" -> 8
StepsLeft(r) == 10 * budget[r] + Rank(pc[r])

LEMMA RankType == \A label \in PCs : Rank(label) \in 0..8
  BY DEF Rank, PCs

\* The environment never gives a call more to do; the call itself does less
\* with every step.
Shrinks ==
    \A r \in Runs : /\ StepsLeft(r)' <= StepsLeft(r)
                    /\ Step(r) => StepsLeft(r)' < StepsLeft(r)

LEMMA StepShrinks ==
    ASSUME TypeOK, NEW r \in Runs, Step(r)
    PROVE  /\ StepsLeft(r)' < StepsLeft(r)
           /\ \A s \in Runs : s # r => StepsLeft(s)' = StepsLeft(s)
<1> USE DEF TypeOK, Goto, Return
<1>1. budget[r] \in Int /\ pc[r] \in PCs /\ budget \in [Runs -> 0..(MaxRetries + 1)] /\ pc \in [Runs -> PCs]
  BY RetriesAssumption
<1>2. CASE Send(r)
  <2>1. pc[r] = "send" /\ budget'[r] = budget[r] - 1 /\ pc'[r] = "wait"
    BY <1>1, <1>2 DEF Send, SpendBudget
  <2>2. StepsLeft(r)' < StepsLeft(r)
    BY <1>1, <2>1 DEF StepsLeft, Rank
  <2>3. \A s \in Runs : s # r => budget'[s] = budget[s] /\ pc'[s] = pc[s]
    BY <1>1, <1>2 DEF Send, SpendBudget
  <2>4. QED
    BY <2>2, <2>3 DEF StepsLeft
<1>3. CASE ~Send(r)
  <2>1. budget' = budget
    BY <1>3 DEF Step, BlockReadOnly, RefuseHost, Admit, AuthorizeFail, AuthorizeOk,
       TopCancelled, TopExhausted, TopAttempt, BackoffDone, RateWaitDone, Sleep,
       SleepCancelled, TransportRetry, TransportGiveUp, RedirectRefused,
       RateLimited, Unauthorized, RefreshOk, RefreshFail, ServerErrorRetry,
       ServerErrorGiveUp, ReadFailed, ReturnClientError, RetryEnvelope,
       OuterBackoffDone, ReturnEnvelopeError, ReturnOk
  <2>2. \E label \in PCs : pc' = [pc EXCEPT ![r] = label] /\ Rank(label) < Rank(pc[r])
    <3>1. CASE BlockReadOnly(r) \/ RefuseHost(r)
      BY <3>1 DEF BlockReadOnly, RefuseHost, PCs, Rank
    <3>2. CASE Admit(r)
      BY <3>2 DEF Admit, PCs, Rank
    <3>3. CASE AuthorizeFail(r) \/ AuthorizeOk(r)
      BY <3>3 DEF AuthorizeFail, AuthorizeOk, EnterRetryLoop, PCs, Rank
    <3>4. CASE TopCancelled(r) \/ TopExhausted(r)
      BY <3>4 DEF TopCancelled, TopExhausted, PCs, Rank
    <3>5. CASE TopAttempt(r)
      <4>1. pc[r] = "top" /\ \E label \in {"backoff", "send"} : pc' = [pc EXCEPT ![r] = label]
        BY <3>5 DEF TopAttempt
      <4>2. PICK label \in {"backoff", "send"} : pc' = [pc EXCEPT ![r] = label]
        BY <4>1
      <4>3. label \in PCs /\ Rank(label) < Rank(pc[r])
        BY <4>1 DEF PCs, Rank
      <4>4. QED
        BY <4>2, <4>3
    <3>6. CASE BackoffDone(r)
      BY <3>6 DEF BackoffDone, Sleep, PCs, Rank
    <3>7. CASE RateWaitDone(r)
      BY <3>7 DEF RateWaitDone, Sleep, PCs, Rank
    <3>8. CASE SleepCancelled(r)
      BY <3>8 DEF SleepCancelled, PCs, Rank
    <3>9. CASE TransportRetry(r) \/ TransportGiveUp(r) \/ RedirectRefused(r)
      BY <3>9 DEF TransportRetry, TransportGiveUp, RedirectRefused, PCs, Rank
    <3>10. CASE RateLimited(r)
      <4>1. pc[r] = "response" /\ \E label \in {"ratewait", "top"} : pc' = [pc EXCEPT ![r] = label]
        BY <3>10 DEF RateLimited
      <4>2. PICK label \in {"ratewait", "top"} : pc' = [pc EXCEPT ![r] = label]
        BY <4>1
      <4>3. label \in PCs /\ Rank(label) < Rank(pc[r])
        BY <4>1 DEF PCs, Rank
      <4>4. QED
        BY <4>2, <4>3
    <3>11. CASE Unauthorized(r)
      BY <3>11 DEF Unauthorized, PCs, Rank
    <3>12. CASE RefreshOk(r) \/ RefreshFail(r)
      BY <3>12 DEF RefreshOk, RefreshFail, PCs, Rank
    <3>13. CASE ServerErrorRetry(r) \/ ServerErrorGiveUp(r)
      BY <3>13 DEF ServerErrorRetry, ServerErrorGiveUp, PCs, Rank
    <3>14. CASE ReadFailed(r) \/ ReturnClientError(r)
      BY <3>14 DEF ReadFailed, ReturnClientError, PCs, Rank
    <3>15. CASE RetryEnvelope(r)
      BY <3>15 DEF RetryEnvelope, Envelope, PCs, Rank
    <3>16. CASE OuterBackoffDone(r)
      BY <3>16 DEF OuterBackoffDone, EnterRetryLoop, PCs, Rank
    <3>17. CASE ReturnEnvelopeError(r) \/ ReturnOk(r)
      BY <3>17 DEF ReturnEnvelopeError, ReturnOk, Envelope, PCs, Rank
    <3>18. QED
      BY <1>3, <3>1, <3>2, <3>3, <3>4, <3>5, <3>6, <3>7, <3>8, <3>9, <3>10, <3>11,
         <3>12, <3>13, <3>14, <3>15, <3>16, <3>17 DEF Step
  <2>3. PICK label \in PCs : pc' = [pc EXCEPT ![r] = label] /\ Rank(label) < Rank(pc[r])
    BY <2>2
  <2>4. pc'[r] = label /\ Rank(label) \in Int /\ Rank(pc[r]) \in Int
    BY <1>1, <2>3, RankType
  <2>5. StepsLeft(r)' < StepsLeft(r)
    BY <1>1, <2>1, <2>3, <2>4 DEF StepsLeft
  <2>6. \A s \in Runs : s # r => pc'[s] = pc[s]
    BY <1>1, <2>3
  <2>7. QED
    BY <2>1, <2>5, <2>6 DEF StepsLeft
<1>4. QED
  BY <1>2, <1>3

\* A call of Do ends after at most 10 * MaxRetries + 18 steps, however the
\* tenant and the network behave: the two retry loops share one budget, and
\* between two sends every step leads on.  (That a call which has not ended
\* has a step to take is what TLC checks with Termination.)
THEOREM CallsRunOut ==
    Spec => /\ [](\A r \in Runs : StepsLeft(r) \in 0..(10 * MaxRetries + 18))
            /\ [][Shrinks]_vars
<1>1. TypeOK => \A r \in Runs : StepsLeft(r) \in 0..(10 * MaxRetries + 18)
  <2> SUFFICES ASSUME TypeOK, NEW r \in Runs
               PROVE  StepsLeft(r) \in 0..(10 * MaxRetries + 18)
    OBVIOUS
  <2>1. budget[r] \in 0..(MaxRetries + 1) /\ Rank(pc[r]) \in 0..8
    BY RankType DEF TypeOK
  <2>2. QED
    BY <2>1, RetriesAssumption DEF StepsLeft
<1>2. TypeOK /\ TypeOK' /\ [Next]_vars => [Shrinks]_vars
  <2> SUFFICES ASSUME TypeOK, TypeOK', Next, NEW r \in Runs
               PROVE  /\ StepsLeft(r)' <= StepsLeft(r)
                      /\ Step(r) => StepsLeft(r)' < StepsLeft(r)
    BY DEF Shrinks
  <2>1. StepsLeft(r) \in Int
    BY <1>1
  <2>2. CASE Step(r)
    <3>1. StepsLeft(r)' < StepsLeft(r)
      BY <2>2, StepShrinks
    <3>2. StepsLeft(r)' \in Int
      <4>1. budget'[r] \in Int /\ pc'[r] \in PCs
        BY RetriesAssumption DEF TypeOK
      <4>2. QED
        BY <4>1, RankType DEF StepsLeft
    <3>3. QED
      BY <2>1, <3>1, <3>2
  <2>3. CASE ~Step(r) /\ \E s \in Runs : Step(s)
    BY <2>1, <2>3, StepShrinks
  <2>4. CASE ~Step(r) /\ Environment
    <3>1. budget' = budget
      BY <2>4 DEF Environment, Cancel, TenantRefuses, TenantReportsFailure, TenantApplies,
         GatewayError, Lose, Untouched, client
    <3>2. pc'[r] = pc[r] \/ (pc[r] = "wait" /\ pc'[r] = "response")
      <4>1. ASSUME NEW m \in net, NEW answer, Deliver(m, answer)
            PROVE  pc'[r] = pc[r] \/ (pc[r] = "wait" /\ pc'[r] = "response")
        BY <4>1 DEF Deliver, Goto, TypeOK, Wire
      <4>2. QED
        BY <2>4, <4>1 DEF Environment, Cancel, TenantRefuses, TenantReportsFailure,
           TenantApplies, GatewayError, Lose, client
    <3>3. StepsLeft(r)' = StepsLeft(r) \/ StepsLeft(r)' = StepsLeft(r) - 1
      <4>1. budget[r] \in Int
        BY RetriesAssumption DEF TypeOK
      <4>2. Rank("wait") = 6 /\ Rank("response") = 5
        BY DEF Rank
      <4>3. Rank(pc[r]) \in Int
        BY RankType DEF TypeOK
      <4>4. QED
        BY <3>1, <3>2, <4>1, <4>2, <4>3 DEF StepsLeft
    <3>4. QED
      BY <2>1, <2>4, <3>3
  <2>5. QED
    BY <2>2, <2>3, <2>4 DEF Next
<1>3. QED
  BY <1>1, <1>2, Typing, PTL DEF Spec
=============================================================================
