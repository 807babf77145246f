-------------------------- MODULE ApiContractProofs --------------------------
(***************************************************************************)
(* ApiClient implements MutationContract: proved for all constants.        *)
(***************************************************************************)
EXTENDS ApiClientProofs

\* What a covered call has been told agrees with what the tenant did.
TruthInv(r) ==
    /\ req[r] \in Requests
    /\ pc[r] # "done" => result[r] = NoResult
    /\ Covered(r) =>
        /\ pc[r] = "response" /\ resp[r] = "ok" => applied[r] = 1
        /\ result[r].kind = "ok" => applied[r] = 1
        /\ ToldOf(result[r].kind) = "rejected" => Clean(r)

\* TruthInv is inductive beside IInv: only ReturnOk tells success, and only of
\* an answer the tenant gave when it applied the request; every definite
\* failure is told from a state in which nothing of the request is left.
LEMMA TruthStep ==
    ASSUME IInv, IInv', \A s \in Runs : TruthInv(s), [Next]_vars, NEW t \in Runs
    PROVE  TruthInv(t)'
<1> USE DEF TruthInv, IInv, WriteInv, Clean, AtMostOneLeft, Covered, isIdempotent, SafeMethods, Refusals, Limits, ToldOf, NoResult, TypeOK, tenant, history, loopVars, Goto, Return, Plain
<1>1. ASSUME NEW r \in Runs, Step(r) PROVE TruthInv(t)'
  <2>1. CASE BlockReadOnly(r)
    <3>1. /\ result' = [result EXCEPT ![r] = result'[r]] /\ result'[r].kind = "blocked"
          /\ pc' = [pc EXCEPT ![r] = "done"] /\ pc[r] = "start"
          /\ UNCHANGED <<req, applied, net, resp>>
      BY <2>1 DEF BlockReadOnly
    <3>2. CASE t # r
      BY <3>1, <3>2
    <3>3. CASE t = r
      BY <3>1, <3>3
    <3>4. QED
      BY <3>2, <3>3
  <2>2. CASE RefuseHost(r)
    <3>1. /\ result' = [result EXCEPT ![r] = result'[r]] /\ result'[r].kind = "refused"
          /\ pc' = [pc EXCEPT ![r] = "done"] /\ pc[r] = "start"
          /\ UNCHANGED <<req, applied, net, resp>>
      BY <2>2 DEF RefuseHost
    <3>2. CASE t # r
      BY <3>1, <3>2
    <3>3. CASE t = r
      BY <3>1, <3>3
    <3>4. QED
      BY <3>2, <3>3
  <2>3. CASE Admit(r)
    BY <2>3 DEF Admit
  <2>4. CASE AuthorizeFail(r)
    BY <2>4 DEF Failed, AuthorizeFail
  <2>5. CASE AuthorizeOk(r)
    BY <2>5 DEF EnterRetryLoop, AuthorizeOk
  <2>6. CASE TopCancelled(r)
    BY <2>6 DEF TopCancelled
  <2>7. CASE TopExhausted(r)
    <3>1. /\ result' = [result EXCEPT ![r] = result'[r]]
          /\ result'[r].kind \in {"transport", "client", "server", "nil"}
          /\ pc' = [pc EXCEPT ![r] = "done"] /\ pc[r] = "top"
          /\ UNCHANGED <<req, applied, net, resp>>
      BY <2>7 DEF TopExhausted, Errors
    <3>2. CASE t # r
      BY <3>1, <3>2
    <3>3. CASE t = r
      BY <3>1, <3>3
    <3>4. QED
      BY <3>2, <3>3
  <2>8. CASE TopAttempt(r)
    BY <2>8 DEF NeedsBackoff, TopAttempt
  <2>9. CASE BackoffDone(r)
    BY <2>9 DEF Sleep, BackoffDone
  <2>10. CASE RateWaitDone(r)
    BY <2>10 DEF Sleep, RateWaitDone
  <2>11. CASE SleepCancelled(r)
    BY <2>11 DEF SleepCancelled
  <2>12. CASE Send(r)
    BY <2>12 DEF SpendBudget, Send
  <2>13. CASE TransportRetry(r)
    BY <2>13 DEF Continue, TransportRetry
  <2>14. CASE TransportGiveUp(r)
    BY <2>14 DEF Ambiguous, TransportGiveUp
  <2>15. CASE RedirectRefused(r)
    BY <2>15 DEF RedirectRefused
  <2>16. CASE RateLimited(r)
    BY <2>16 DEF Continue, RateLimited
  <2>17. CASE Unauthorized(r)
    BY <2>17 DEF Continue, Unauthorized
  <2>18. CASE RefreshOk(r)
    BY <2>18 DEF RefreshOk
  <2>19. CASE RefreshFail(r)
    BY <2>19 DEF Failed, RefreshFail
  <2>20. CASE ServerErrorRetry(r)
    BY <2>20 DEF Continue, ServerErrorRetry
  <2>21. CASE ServerErrorGiveUp(r)
    BY <2>21 DEF Ambiguous, ServerErrorGiveUp
  <2>22. CASE ReadFailed(r)
    BY <2>22 DEF Failed, ReadFailed
  <2>23. CASE ReturnClientError(r)
    BY <2>23 DEF ReturnClientError
  <2>24. CASE RetryEnvelope(r)
    BY <2>24 DEF Envelope, RetryEnvelope
  <2>25. CASE OuterBackoffDone(r)
    BY <2>25 DEF EnterRetryLoop, OuterBackoffDone
  <2>26. CASE ReturnEnvelopeError(r)
    BY <2>26 DEF Envelope, ReturnEnvelopeError
  <2>27. CASE ReturnOk(r)
    <3>1. Covered(r) => resp[r] = "ok"
      BY <2>27, RequestsAssumption DEF ReturnOk, Envelope, checkSuccess,
                                       isIdempotent, SafeMethods
    <3>2. QED
      BY <2>27, <3>1 DEF ReturnOk
  <2>28. QED
    BY <1>1, <2>1, <2>2, <2>3, <2>4, <2>5, <2>6, <2>7, <2>8, <2>9, <2>10, <2>11, <2>12, <2>13, <2>14, <2>15, <2>16, <2>17, <2>18, <2>19, <2>20, <2>21, <2>22, <2>23, <2>24, <2>25, <2>26, <2>27 DEF Step
<1>2. ASSUME NEW r \in Runs, Cancel(r) PROVE TruthInv(t)'
  BY <1>2 DEF Cancel, client
<1>3. ASSUME NEW m \in net,
             \/ TenantRefuses(m) \/ TenantReportsFailure(m) \/ TenantApplies(m)
             \/ GatewayError(m) \/ Lose(m)
      PROVE TruthInv(t)'
  <2>1. m.run \in Runs /\ m.key \in Keys \cup {NoKey}
    BY DEF Wire
  <2>2. CASE TenantRefuses(m)
    BY <2>1, <2>2 DEF TenantRefuses, Deliver, Untouched
  <2>3. CASE TenantReportsFailure(m)
    BY <2>1, <2>3 DEF TenantReportsFailure, Deliver, Untouched
  <2>4. CASE TenantApplies(m)
    BY <2>1, <2>4 DEF TenantApplies, Deliver, Untouched
  <2>5. CASE GatewayError(m)
    BY <2>1, <2>5 DEF GatewayError, Deliver, Untouched
  <2>6. CASE Lose(m)
    BY <2>1, <2>6 DEF Lose, Deliver, Untouched
  <2>7. QED
    BY <1>3, <2>2, <2>3, <2>4, <2>5, <2>6
<1>4. CASE UNCHANGED vars
  BY <1>4 DEF vars
<1>5. QED
  BY <1>1, <1>2, <1>3, <1>4 DEF Next, Environment

\* The two variables of the contract, as the refinement mapping computes them.
TruthVars == <<told, landed>>

\* The initial states of the client are initial states of the contract.
LEMMA ContractInit == Init => Contract!Init
<1> SUFFICES ASSUME Init PROVE Contract!Init
  OBVIOUS
<1>1. \A r \in Runs : ToldOf(result[r].kind) = "open"
  BY DEF Init, NoResult, ToldOf
<1>2. \A r \in Runs : applied[r] = 0
  BY DEF Init
<1>3. told = [r \in Runs |-> "open"] /\ landed = [r \in Runs |-> 0]
  BY <1>1, <1>2 DEF told, landed
<1>4. QED
  BY <1>3 DEF Contract!Init

\* A run whose result and effects do not change does not change for the
\* contract either.
LEMMA ToldFrame ==
    ASSUME [Next]_vars, NEW r \in Runs, applied'[r] = applied[r], result'[r] = result[r]
    PROVE  told'[r] = told[r] /\ landed'[r] = landed[r]
BY Frame DEF told, landed, Covered

\* Do returns, or the tenant applies a request, or nothing the contract sees
\* changes.
LEMMA Visible ==
    ASSUME TypeOK, [Next]_vars
    PROVE  \/ UNCHANGED <<applied, result>>
           \/ \E r \in Runs : /\ applied' = applied
                              /\ pc[r] # "done" /\ pc'[r] = "done"
                              /\ result' = [result EXCEPT ![r] = result'[r]]
           \/ \E m \in net : TenantApplies(m)
<1> USE DEF tenant, history, loopVars, TypeOK, Goto, Return, EnterRetryLoop
<1>1. ASSUME NEW r \in Runs, Step(r)
      PROVE  \/ UNCHANGED <<applied, result>>
             \/ /\ applied' = applied
                /\ pc[r] # "done" /\ pc'[r] = "done"
                /\ result' = [result EXCEPT ![r] = result'[r]]
  <2>1. CASE \/ BlockReadOnly(r) \/ RefuseHost(r) \/ AuthorizeFail(r)
             \/ TopCancelled(r) \/ TopExhausted(r) \/ SleepCancelled(r)
             \/ TransportGiveUp(r) \/ RedirectRefused(r) \/ RefreshFail(r)
             \/ ServerErrorGiveUp(r) \/ ReadFailed(r) \/ ReturnClientError(r)
             \/ ReturnEnvelopeError(r) \/ ReturnOk(r)
    <3>1. applied' = applied /\ pc[r] # "done"
      BY <2>1 DEF BlockReadOnly, RefuseHost, AuthorizeFail, TopCancelled,
         TopExhausted, SleepCancelled, TransportGiveUp, RedirectRefused,
         RefreshFail, ServerErrorGiveUp, ReadFailed, ReturnClientError,
         ReturnEnvelopeError, ReturnOk, Envelope
    <3>2. \E res : Return(r, res)
      BY <2>1 DEF BlockReadOnly, RefuseHost, AuthorizeFail, TopCancelled,
         TopExhausted, SleepCancelled, TransportGiveUp, RedirectRefused,
         RefreshFail, ServerErrorGiveUp, ReadFailed, ReturnClientError,
         ReturnEnvelopeError, ReturnOk
    <3>3. QED
      BY <3>1, <3>2
  <2>2. CASE \/ Admit(r) \/ AuthorizeOk(r) \/ TopAttempt(r) \/ BackoffDone(r)
             \/ RateWaitDone(r) \/ Send(r) \/ TransportRetry(r) \/ RateLimited(r)
             \/ Unauthorized(r) \/ RefreshOk(r) \/ ServerErrorRetry(r)
             \/ RetryEnvelope(r) \/ OuterBackoffDone(r)
    BY <2>2 DEF Admit, AuthorizeOk, TopAttempt, BackoffDone, RateWaitDone, Sleep,
       Send, TransportRetry, RateLimited, Unauthorized, RefreshOk,
       ServerErrorRetry, RetryEnvelope, OuterBackoffDone
  <2>3. QED
    BY <1>1, <2>1, <2>2 DEF Step
<1>2. ASSUME NEW r \in Runs, Cancel(r) PROVE UNCHANGED <<applied, result>>
  BY <1>2 DEF Cancel, client
<1>3. ASSUME NEW m \in net,
             TenantRefuses(m) \/ TenantReportsFailure(m) \/ GatewayError(m) \/ Lose(m)
      PROVE  UNCHANGED <<applied, result>>
  BY <1>3 DEF TenantRefuses, TenantReportsFailure, GatewayError, Lose, Untouched
<1>4. CASE UNCHANGED vars
  BY <1>4 DEF vars
<1>5. QED
  BY <1>1, <1>2, <1>3, <1>4 DEF Next, Environment

\* A call of Do that returns makes one step of the contract, or none when the
\* contract does not cover it.
LEMMA ReturnStep ==
    ASSUME IInv, IInv', \A s \in Runs : TruthInv(s), \A s \in Runs : TruthInv(s)',
           [Next]_vars, NEW r \in Runs, applied' = applied,
           pc[r] # "done", pc'[r] = "done",
           result' = [result EXCEPT ![r] = result'[r]]
    PROVE  [Contract!Next]_TruthVars
<1> DEFINE kind == result'[r].kind
<1> USE DEF IInv, TypeOK
<1>1. landed' = landed
  BY Frame DEF landed, Covered
<1>2. \A s \in Runs : s # r => told'[s] = told[s]
  BY ToldFrame
<1>3. CASE ~Covered(r)
  <2>1. told'[r] = told[r]
    BY <1>3, Frame DEF told, Covered
  <2>2. told' = told
    BY <1>2, <2>1 DEF told
  <2>3. QED
    BY <1>1, <2>2 DEF TruthVars
<1>4. CASE Covered(r)
  <2>1. /\ told[r] = "open"
        /\ told'[r] = ToldOf(kind)
        /\ landed[r] = applied[r]
        /\ Covered(r)'
    <3>1. result[r] = NoResult /\ Covered(r)'
      BY <1>4, Frame DEF TruthInv, Covered
    <3>2. QED
      BY <1>4, <3>1 DEF told, landed, NoResult, ToldOf
  <2>2. told' = [told EXCEPT ![r] = ToldOf(kind)]
    BY <1>2, <2>1 DEF told
  <2>3. CASE ToldOf(kind) = "open"
    <3>1. \A s \in Runs : told'[s] = told[s]
      BY <1>2, <2>1, <2>3
    <3>2. told' = told
      BY <3>1 DEF told
    <3>3. QED
      BY <1>1, <3>2 DEF TruthVars
  <2>4. CASE kind = "ok"
    <3>1. ToldOf(kind) = "succeeded" /\ landed[r] = 1
      BY <2>1, <2>4 DEF ToldOf, TruthInv
    <3>2. Contract!Succeed(r)
      BY <1>1, <2>1, <2>2, <3>1 DEF Contract!Succeed
    <3>3. QED
      BY <3>2 DEF Contract!Next
  <2>5. CASE ToldOf(kind) = "rejected"
    <3>1. landed[r] = 0
      BY <2>1, <2>5 DEF TruthInv, Clean
    <3>2. Contract!Reject(r)
      BY <1>1, <2>1, <2>2, <2>5, <3>1 DEF Contract!Reject
    <3>3. QED
      BY <3>2 DEF Contract!Next
  <2>6. CASE ToldOf(kind) = "unknown"
    <3>1. Contract!GiveUp(r)
      BY <1>1, <2>1, <2>2, <2>6 DEF Contract!GiveUp
    <3>2. QED
      BY <3>1 DEF Contract!Next
  <2>7. ToldOf(kind) \in {"open", "rejected", "unknown"} \/ kind = "ok"
    BY DEF ToldOf
  <2>8. QED
    BY <2>3, <2>4, <2>5, <2>6, <2>7
<1>5. QED
  BY <1>3, <1>4

\* The tenant applies a request while its call is open, or after the call gave
\* up on it.
LEMMA ApplyStep ==
    ASSUME IInv, IInv', \A s \in Runs : TruthInv(s), [Next]_vars,
           NEW m \in net, TenantApplies(m)
    PROVE  [Contract!Next]_TruthVars
<1> DEFINE r == m.run
<1> USE DEF IInv, TypeOK
<1>1. r \in Runs /\ result' = result
  BY DEF Wire, TenantApplies, Untouched
<1>2. \A s \in Runs : s # r => applied'[s] = applied[s]
  BY DEF TenantApplies
<1>3. told' = told
  BY <1>1, Frame DEF told, Covered
<1>4. \A s \in Runs : s # r => landed'[s] = landed[s]
  BY <1>1, <1>2, ToldFrame
<1>5. CASE ~Covered(r)
  <2>1. landed'[r] = landed[r]
    BY <1>1, <1>5, Frame DEF landed, Covered
  <2>2. landed' = landed
    BY <1>4, <2>1 DEF landed
  <2>3. QED
    BY <1>3, <2>2 DEF TruthVars
<1>6. CASE Covered(r)
  <2>1. applied[r] = 0 /\ applied'[r] = 1 /\ Covered(r)'
    BY <1>1, <1>6, Frame DEF WriteInv, AtMostOneLeft, TenantApplies, Covered
  <2>2. landed' = [landed EXCEPT ![r] = 1] /\ landed[r] = 0
    BY <1>1, <1>4, <1>6, <2>1 DEF landed
  <2>3. result[r].kind # "ok" /\ ToldOf(result[r].kind) # "rejected"
    BY <1>1, <1>6, <2>1 DEF TruthInv, Clean
  <2>4. told[r] \in {"open", "unknown"}
    BY <1>1, <1>6, <2>3 DEF told, ToldOf
  <2>5. Contract!Apply(r)
    BY <1>3, <2>2, <2>4 DEF Contract!Apply
  <2>6. QED
    BY <1>1, <2>5 DEF Contract!Next
<1>7. QED
  BY <1>5, <1>6

\* A write call keeps its promises: success means applied, a definite failure
\* means never applied, and nothing is applied twice.
THEOREM ClientKeepsContract == Spec => KeepsContract
<1>1. Init => \A r \in Runs : TruthInv(r)
  BY RequestsAssumption DEF Init, TruthInv, NoResult, ToldOf
<1>2. IInv /\ IInv' /\ (\A r \in Runs : TruthInv(r)) /\ [Next]_vars
        => (\A r \in Runs : TruthInv(r))'
  BY TruthStep
<1>3. Spec => [](\A r \in Runs : TruthInv(r))
  BY <1>1, <1>2, Invariance, PTL DEF Spec
<1>4. ASSUME IInv, IInv', \A r \in Runs : TruthInv(r), (\A r \in Runs : TruthInv(r))',
             [Next]_vars
      PROVE  [Contract!Next]_Contract!vars
  <2>1. Contract!vars = TruthVars /\ Contract!vars' = TruthVars'
    BY DEF Contract!vars, TruthVars
  <2>2. CASE UNCHANGED <<applied, result>>
    <3>1. told' = told /\ landed' = landed
      BY <1>4, <2>2, Frame DEF told, landed, Covered
    <3>2. QED
      BY <3>1 DEF Contract!vars
  <2>3. ASSUME NEW r \in Runs, applied' = applied, pc[r] # "done", pc'[r] = "done",
               result' = [result EXCEPT ![r] = result'[r]]
        PROVE  [Contract!Next]_TruthVars
    BY <1>4, <2>3, ReturnStep
  <2>4. ASSUME NEW m \in net, TenantApplies(m)
        PROVE  [Contract!Next]_TruthVars
    BY <1>4, <2>4, ApplyStep
  <2>5. QED
    BY <1>4, <2>1, <2>2, <2>3, <2>4, Visible DEF IInv
<1>5. QED
  BY <1>3, <1>4, ContractInit, Invariance, PTL DEF Spec, KeepsContract, Contract!Spec
=============================================================================
