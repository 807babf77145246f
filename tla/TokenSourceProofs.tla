-------------------------- MODULE TokenSourceProofs --------------------------
(***************************************************************************)
(* What TLAPS proves of TokenSource for any number of callers and          *)
(* environments, any lifetimes and any margin not below the timeout.       *)
(***************************************************************************)
EXTENDS TokenSource, TLAPS

-----------------------------------------------------------------------------
(* The inductive invariant.                                                *)

\* Who refreshes holds the lock of its environment.
LockInv == \A c \in Callers : Refreshing(c) => holder[env(c)] = c

\* Token ids follow the order of issue: a token that is on its way is newer
\* than the one it will replace, and what is saved is never newer than what
\* is cached.
OrderInv ==
    /\ \A e \in Envs : saved[e].id <= cached[e].id /\ cached[e].id <= issued
    /\ \A c \in Callers :
        /\ reply[c].id <= issued
        /\ pc[c] # "posted" => reply[c] = NoReply
        /\ reply[c].id # 0 => reply[c].id > cached[env(c)].id
        /\ floor[c] <= cached[env(c)].id
        /\ pc[c] = "save" => cached[env(c)].id > floor[c]

\* What a call returned: a forced refresh only newer tokens, and nothing
\* before it was done.
OutcomeInv ==
    /\ \A c \in Callers : pc[c] # "done" => outcome[c] = NoOutcome
    /\ \A c \in Callers : call[c].force => pc[c] # "recheck"
    /\ ForcedTokenIsNew
    /\ FreshTokenSaved

\* The client dates a token too late by at most the timeout of the request.
ClockInv ==
    /\ \A c \in Callers : pc[c] = "posted" =>
        /\ sentAt[c] <= now /\ now <= sentAt[c] + Timeout
        /\ reply[c].id # 0 => reply[c].dies >= sentAt[c] + reply[c].life
    /\ \A e \in Envs : cached[e].id # 0 => cached[e].expires <= cached[e].dies + Timeout

IInv == TypeOK /\ LockInv /\ OrderInv /\ OutcomeInv /\ ClockInv
        /\ NoNeedlessPost /\ CachedTokenAlive

-----------------------------------------------------------------------------
(* One lemma per part: a step preserves it.                                *)

\* A call that returns a token, or an error, keeps the types.
LEMMA ReturnType ==
    ASSUME TypeOK, NEW c \in Callers, NEW kind, NEW token \in Token,
           Return(c, kind, token),
           \/ kind \in {"cached", "fresh"} /\ token.id # 0
           \/ kind = "error" /\ token = NoToken
    PROVE  outcome' \in [Callers -> Outcome] /\ pc' \in [Callers -> PCs]
<1> DEFINE alive == now < token.dies
           o == [kind |-> kind, id |-> token.id, alive |-> alive]
<1>1. token.id \in Nat /\ token.dies \in Nat /\ alive \in BOOLEAN
  BY DEF Token
<1>2. o \in Outcome
  <2>1. CASE kind \in {"cached", "fresh"} /\ token.id # 0
    <3> HIDE DEF alive
    <3>1. token.id \in Nat \ {0}
      BY <1>1, <2>1
    <3>2. o \in [kind: {"cached", "fresh"}, id: Nat \ {0}, alive: BOOLEAN]
      BY <1>1, <2>1, <3>1, Zenon
    <3>3. QED
      BY <3>2 DEF Outcome
  <2>2. CASE kind = "error" /\ token = NoToken
    <3>1. alive = FALSE /\ token.id = 0
      BY <2>2 DEF NoToken, TypeOK
    <3>2. o = [kind |-> "error", id |-> 0, alive |-> FALSE]
      BY <2>2, <3>1
    <3>3. QED
      BY <3>2 DEF Outcome
  <2>3. QED
    BY <2>1, <2>2
<1>3. QED
  BY <1>2 DEF Return, TypeOK, Goto, PCs

\* A valid cache entry is alive: the margin covers the late date.
LEMMA ValidIsAlive ==
    ASSUME TypeOK, ClockInv, NEW e \in Envs, IsValid(cached[e])
    PROVE  now < cached[e].dies
<1>1. cached[e].expires <= cached[e].dies + Timeout /\ now + Buffer < cached[e].expires
  BY DEF ClockInv, IsValid
<1>2. now \in Nat /\ cached[e].expires \in Nat /\ cached[e].dies \in Nat
  BY DEF TypeOK, Token
<1>3. QED
  BY <1>1, <1>2, TimesAssumption

\* A step keeps every variable in its type.  That a returned token is not
\* empty needs the order of ids: what is being saved is newer than the floor.
LEMMA TypeStep ==
    ASSUME TypeOK, OrderInv, [Next]_vars
    PROVE  TypeOK'
<1> USE TimesAssumption, FreeAssumption DEF TypeOK, PCs, Token, NoToken, Reply, NoReply, Goto, request, env
<1>1. ASSUME NEW c \in Callers, Step(c) \/ Lock(c) \/ Issue(c) \/ AnswerEmpty(c) \/ Cancel(c)
      PROVE  TypeOK'
  <2>1. CASE CacheHit(c)
    <3>1. outcome' \in [Callers -> Outcome] /\ pc' \in [Callers -> PCs]
      BY <2>1, ReturnType DEF CacheHit, IsValid
    <3>2. QED
      BY <2>1, <3>1 DEF CacheHit, IsValid
  <2>2. CASE WantLock(c)
    BY <2>2 DEF WantLock
  <2>3. CASE Lock(c)
    BY <2>3 DEF Lock, LockIsFree, AfterLock
  <2>4. CASE RecheckHit(c)
    <3>1. outcome' \in [Callers -> Outcome] /\ pc' \in [Callers -> PCs]
      BY <2>4, ReturnType DEF RecheckHit, IsValid
    <3>2. QED
      BY <2>4, <3>1 DEF RecheckHit, Unlock
  <2>5. CASE RecheckMiss(c)
    BY <2>5 DEF RecheckMiss
  <2>6. CASE RefuseToPost(c)
    <3>1. outcome' \in [Callers -> Outcome] /\ pc' \in [Callers -> PCs]
      BY <2>6, ReturnType DEF RefuseToPost
    <3>2. QED
      BY <2>6, <3>1 DEF RefuseToPost, Unlock
  <2>7. CASE Post(c)
    BY <2>7 DEF Post
  <2>8. CASE PostFails(c)
    <3>1. outcome' \in [Callers -> Outcome] /\ pc' \in [Callers -> PCs]
      BY <2>8, ReturnType DEF PostFails
    <3>2. QED
      BY <2>8, <3>1 DEF PostFails, Unlock, EndRequest
  <2>9. CASE Store(c)
    BY <2>9 DEF Store, HasToken, Entry, EndRequest
  <2>10. CASE Save(c)
    <3>1. outcome' \in [Callers -> Outcome] /\ pc' \in [Callers -> PCs]
      BY <2>10, ReturnType DEF Save, OrderInv
    <3>2. QED
      BY <2>10, <3>1 DEF Save, Unlock, SaveTokens
  <2>11. CASE SaveFails(c)
    <3>1. outcome' \in [Callers -> Outcome] /\ pc' \in [Callers -> PCs]
      BY <2>11, ReturnType DEF SaveFails
    <3>2. QED
      BY <2>11, <3>1 DEF SaveFails, Unlock
  <2>12. CASE Issue(c)
    BY <2>12 DEF Issue
  <2>13. CASE AnswerEmpty(c)
    BY <2>13 DEF AnswerEmpty, EmptyReply
  <2>14. CASE Cancel(c)
    BY <2>14 DEF Cancel
  <2>15. QED
    BY <1>1, <2>1, <2>2, <2>3, <2>4, <2>5, <2>6, <2>7, <2>8, <2>9, <2>10, <2>11, <2>12, <2>13, <2>14 DEF Step
<1>2. CASE Tick
  BY <1>2 DEF Tick
<1>3. CASE UNCHANGED vars
  BY <1>3 DEF vars
<1>4. QED
  BY <1>1, <1>2, <1>3 DEF Next

\* Only a caller that found the lock free, or that holds it, changes it.
LEMMA LockStep ==
    ASSUME TypeOK, LockInv, [Next]_vars
    PROVE  LockInv'
<1> USE FreeAssumption DEF TypeOK, LockInv, Refreshing, Goto, request, env
<1>1. ASSUME NEW c \in Callers, Step(c) \/ Lock(c) \/ Issue(c) \/ AnswerEmpty(c) \/ Cancel(c)
      PROVE  LockInv'
  <2>1. CASE CacheHit(c)
    BY <2>1 DEF CacheHit, Return
  <2>2. CASE WantLock(c)
    BY <2>2 DEF WantLock
  <2>3. CASE Lock(c)
    BY <2>3 DEF Lock, LockIsFree, AfterLock
  <2>4. CASE RecheckHit(c)
    BY <2>4 DEF RecheckHit, Return, Unlock
  <2>5. CASE RecheckMiss(c)
    BY <2>5 DEF RecheckMiss
  <2>6. CASE RefuseToPost(c)
    BY <2>6 DEF RefuseToPost, Return, Unlock
  <2>7. CASE Post(c)
    BY <2>7 DEF Post
  <2>8. CASE PostFails(c)
    BY <2>8 DEF PostFails, Return, Unlock, EndRequest
  <2>9. CASE Store(c)
    BY <2>9 DEF Store, HasToken, Entry, EndRequest
  <2>10. CASE Save(c)
    BY <2>10 DEF Save, SaveTokens, Return, Unlock
  <2>11. CASE SaveFails(c)
    BY <2>11 DEF SaveFails, Return, Unlock
  <2>12. CASE Issue(c)
    BY <2>12 DEF Issue
  <2>13. CASE AnswerEmpty(c)
    BY <2>13 DEF AnswerEmpty
  <2>14. CASE Cancel(c)
    BY <2>14 DEF Cancel
  <2>15. QED
    BY <1>1, <2>1, <2>2, <2>3, <2>4, <2>5, <2>6, <2>7, <2>8, <2>9, <2>10, <2>11, <2>12, <2>13, <2>14 DEF Step
<1>2. CASE Tick
  BY <1>2 DEF Tick
<1>3. CASE UNCHANGED vars
  BY <1>3 DEF vars
<1>4. QED
  BY <1>1, <1>2, <1>3 DEF Next

\* The order of ids survives a Store because only the holder of the lock
\* stores, so no other token was stored since its token was issued.
LEMMA OrderStep ==
    ASSUME TypeOK, TypeOK', LockInv, OrderInv, [Next]_vars
    PROVE  OrderInv'
<1> USE DEF TypeOK, LockInv, OrderInv, Refreshing, Token, NoToken, Reply, NoReply, Goto, request, env
<1>1. ASSUME NEW c \in Callers, Step(c) \/ Lock(c) \/ Issue(c) \/ AnswerEmpty(c) \/ Cancel(c)
      PROVE  OrderInv'
  <2>1. CASE CacheHit(c)
    BY <2>1 DEF CacheHit, Return
  <2>2. CASE WantLock(c)
    BY <2>2 DEF WantLock
  <2>3. CASE Lock(c)
    BY <2>3 DEF Lock, LockIsFree, AfterLock
  <2>4. CASE RecheckHit(c)
    BY <2>4 DEF RecheckHit, Return, Unlock
  <2>5. CASE RecheckMiss(c)
    BY <2>5 DEF RecheckMiss
  <2>6. CASE RefuseToPost(c)
    BY <2>6 DEF RefuseToPost, Return, Unlock
  <2>7. CASE Post(c)
    BY <2>7 DEF Post
  <2>8. CASE PostFails(c)
    BY <2>8 DEF PostFails, Return, Unlock, EndRequest
  <2>9. CASE Store(c)
    BY <2>9 DEF Store, HasToken, Entry, EndRequest
  <2>10. CASE Save(c)
    BY <2>10 DEF Save, SaveTokens, Return, Unlock
  <2>11. CASE SaveFails(c)
    BY <2>11 DEF SaveFails, Return, Unlock
  <2>12. CASE Issue(c)
    BY <2>12 DEF Issue
  <2>13. CASE AnswerEmpty(c)
    BY <2>13 DEF AnswerEmpty, EmptyReply
  <2>14. CASE Cancel(c)
    BY <2>14 DEF Cancel
  <2>15. QED
    BY <1>1, <2>1, <2>2, <2>3, <2>4, <2>5, <2>6, <2>7, <2>8, <2>9, <2>10, <2>11, <2>12, <2>13, <2>14 DEF Step
<1>2. CASE Tick
  BY <1>2 DEF Tick
<1>3. CASE UNCHANGED vars
  BY <1>3 DEF vars
<1>4. QED
  BY <1>1, <1>2, <1>3 DEF Next

\* A forced refresh never takes the paths that serve the cache, and a fresh
\* token is returned together with the save.
LEMMA OutcomeStep ==
    ASSUME TypeOK, TypeOK', OrderInv, OutcomeInv, [Next]_vars
    PROVE  OutcomeInv'
<1> USE DEF TypeOK, OrderInv, OutcomeInv, ForcedTokenIsNew, FreshTokenSaved, Token, NoToken, NoOutcome, Goto, request, env
<1>1. ASSUME NEW c \in Callers, Step(c) \/ Lock(c) \/ Issue(c) \/ AnswerEmpty(c) \/ Cancel(c)
      PROVE  OutcomeInv'
  <2>1. CASE CacheHit(c)
    BY <2>1 DEF CacheHit, Return
  <2>2. CASE WantLock(c)
    BY <2>2 DEF WantLock
  <2>3. CASE Lock(c)
    BY <2>3 DEF Lock, LockIsFree, AfterLock
  <2>4. CASE RecheckHit(c)
    BY <2>4 DEF RecheckHit, Return, Unlock
  <2>5. CASE RecheckMiss(c)
    BY <2>5 DEF RecheckMiss
  <2>6. CASE RefuseToPost(c)
    BY <2>6 DEF RefuseToPost, Return, Unlock
  <2>7. CASE Post(c)
    BY <2>7 DEF Post
  <2>8. CASE PostFails(c)
    BY <2>8 DEF PostFails, Return, Unlock, EndRequest
  <2>9. CASE Store(c)
    BY <2>9 DEF Store, HasToken, Entry, EndRequest
  <2>10. CASE Save(c)
    <3>1. outcome'[c].kind = "fresh" /\ outcome'[c].id = cached[env(c)].id
      BY <2>10 DEF Save, Return
    <3>2. saved' = cached /\ cached' = cached /\ call' = call /\ floor' = floor
      BY <2>10 DEF Save, SaveTokens
    <3>3. \A d \in Callers : d # c => outcome'[d] = outcome[d] /\ pc'[d] = pc[d]
      BY <2>10 DEF Save, Return
    <3>4. \A e \in Envs : saved[e].id \in Nat /\ cached[e].id \in Nat /\ saved[e].id <= cached[e].id
      OBVIOUS
    <3>5. FreshTokenSaved'
      <4>1. ASSUME NEW d \in Callers, outcome'[d].kind = "fresh"
            PROVE  saved'[env(d)].id >= outcome'[d].id
        <5>1. CASE d = c
          BY <3>1, <3>2, <3>4, <5>1
        <5>2. CASE d # c
          <6>1. saved[env(d)].id >= outcome[d].id /\ outcome[d] \in Outcome
            BY <3>3, <4>1, <5>2
          <6>2. outcome[d].id \in Nat
            <7>1. \/ outcome[d] \in [kind: {"cached", "fresh"}, id: Nat \ {0}, alive: BOOLEAN]
                  \/ outcome[d] \in [kind: {"none", "error"}, id: {0}, alive: {FALSE}]
              BY <6>1 DEF Outcome
            <7>2. CASE outcome[d] \in [kind: {"cached", "fresh"}, id: Nat \ {0}, alive: BOOLEAN]
              BY <7>2, Zenon
            <7>3. CASE outcome[d] \in [kind: {"none", "error"}, id: {0}, alive: {FALSE}]
              BY <7>3
            <7>4. QED
              BY <7>1, <7>2, <7>3
          <6>3. QED
            BY <3>2, <3>3, <3>4, <5>2, <6>1, <6>2
        <5>3. QED
          BY <5>1, <5>2
      <4>2. QED
        BY <3>2, <4>1
    <3>6. ForcedTokenIsNew'
      BY <3>1, <3>2, <3>3, <2>10 DEF Save, Return
    <3>7. QED
      BY <3>5, <3>6, <3>1, <3>2, <3>3, <2>10 DEF Save, Return
  <2>11. CASE SaveFails(c)
    BY <2>11 DEF SaveFails, Return, Unlock
  <2>12. CASE Issue(c)
    BY <2>12 DEF Issue
  <2>13. CASE AnswerEmpty(c)
    BY <2>13 DEF AnswerEmpty
  <2>14. CASE Cancel(c)
    BY <2>14 DEF Cancel
  <2>15. QED
    BY <1>1, <2>1, <2>2, <2>3, <2>4, <2>5, <2>6, <2>7, <2>8, <2>9, <2>10, <2>11, <2>12, <2>13, <2>14 DEF Step
<1>2. CASE Tick
  BY <1>2 DEF Tick
<1>3. CASE UNCHANGED vars
  BY <1>3 DEF vars
<1>4. QED
  BY <1>1, <1>2, <1>3 DEF Next

\* Tick never lets a token request outlive its timeout, so the date Store
\* computes is late by no more than that.
LEMMA ClockStep ==
    ASSUME TypeOK, TypeOK', LockInv, OrderInv, ClockInv, [Next]_vars
    PROVE  ClockInv'
<1> USE TimesAssumption DEF TypeOK, OrderInv, ClockInv, Token, Reply, NoReply, Goto, request, env
<1>1. ASSUME NEW c \in Callers, Step(c) \/ Lock(c) \/ Issue(c) \/ AnswerEmpty(c) \/ Cancel(c)
      PROVE  ClockInv'
  <2>1. CASE CacheHit(c)
    BY <2>1 DEF CacheHit, Return
  <2>2. CASE WantLock(c)
    BY <2>2 DEF WantLock
  <2>3. CASE Lock(c)
    BY <2>3 DEF Lock, LockIsFree, AfterLock
  <2>4. CASE RecheckHit(c)
    BY <2>4 DEF RecheckHit, Return, Unlock
  <2>5. CASE RecheckMiss(c)
    BY <2>5 DEF RecheckMiss
  <2>6. CASE RefuseToPost(c)
    BY <2>6 DEF RefuseToPost, Return, Unlock
  <2>7. CASE Post(c)
    BY <2>7 DEF Post
  <2>8. CASE PostFails(c)
    BY <2>8 DEF PostFails, Return, Unlock, EndRequest
  <2>9. CASE Store(c)
    BY <2>9 DEF Store, HasToken, Entry, EndRequest
  <2>10. CASE Save(c)
    BY <2>10 DEF Save, SaveTokens, Return, Unlock
  <2>11. CASE SaveFails(c)
    BY <2>11 DEF SaveFails, Return, Unlock
  <2>12. CASE Issue(c)
    BY <2>12 DEF Issue
  <2>13. CASE AnswerEmpty(c)
    BY <2>13 DEF AnswerEmpty, EmptyReply
  <2>14. CASE Cancel(c)
    BY <2>14 DEF Cancel
  <2>15. QED
    BY <1>1, <2>1, <2>2, <2>3, <2>4, <2>5, <2>6, <2>7, <2>8, <2>9, <2>10, <2>11, <2>12, <2>13, <2>14 DEF Step
<1>2. CASE Tick
  BY <1>2 DEF Tick
<1>3. CASE UNCHANGED vars
  BY <1>3 DEF vars
<1>4. QED
  BY <1>1, <1>2, <1>3 DEF Next

\* The cache of an environment does not change while a caller holds its lock
\* and has found it without a valid token, and time makes no token valid.
LEMMA NeedStep ==
    ASSUME TypeOK, TypeOK', LockInv, NoNeedlessPost, OutcomeInv, [Next]_vars
    PROVE  NoNeedlessPost'
<1> USE TimesAssumption DEF TypeOK, LockInv, OutcomeInv, NoNeedlessPost, Refreshing, IsValid, Token, Goto, request, env
<1>1. ASSUME NEW c \in Callers, Step(c) \/ Lock(c) \/ Issue(c) \/ AnswerEmpty(c) \/ Cancel(c)
      PROVE  NoNeedlessPost'
  <2>1. CASE CacheHit(c)
    BY <2>1 DEF CacheHit, Return
  <2>2. CASE WantLock(c)
    BY <2>2 DEF WantLock
  <2>3. CASE Lock(c)
    BY <2>3 DEF Lock, LockIsFree, AfterLock
  <2>4. CASE RecheckHit(c)
    BY <2>4 DEF RecheckHit, Return, Unlock
  <2>5. CASE RecheckMiss(c)
    BY <2>5 DEF RecheckMiss
  <2>6. CASE RefuseToPost(c)
    BY <2>6 DEF RefuseToPost, Return, Unlock
  <2>7. CASE Post(c)
    BY <2>7 DEF Post
  <2>8. CASE PostFails(c)
    BY <2>8 DEF PostFails, Return, Unlock, EndRequest
  <2>9. CASE Store(c)
    BY <2>9 DEF Store, HasToken, Entry, EndRequest
  <2>10. CASE Save(c)
    BY <2>10 DEF Save, SaveTokens, Return, Unlock
  <2>11. CASE SaveFails(c)
    BY <2>11 DEF SaveFails, Return, Unlock
  <2>12. CASE Issue(c)
    BY <2>12 DEF Issue
  <2>13. CASE AnswerEmpty(c)
    BY <2>13 DEF AnswerEmpty
  <2>14. CASE Cancel(c)
    BY <2>14 DEF Cancel
  <2>15. QED
    BY <1>1, <2>1, <2>2, <2>3, <2>4, <2>5, <2>6, <2>7, <2>8, <2>9, <2>10, <2>11, <2>12, <2>13, <2>14 DEF Step
<1>2. CASE Tick
  BY <1>2 DEF Tick
<1>3. CASE UNCHANGED vars
  BY <1>3 DEF vars
<1>4. QED
  BY <1>1, <1>2, <1>3 DEF Next

\* A token that passes IsValid has the margin left that the client's late date
\* may take away.
LEMMA AliveStep ==
    ASSUME TypeOK, TypeOK', ClockInv, CachedTokenAlive, [Next]_vars
    PROVE  CachedTokenAlive'
<1> USE DEF TypeOK, CachedTokenAlive, Token, Goto, request, env
<1>1. ASSUME NEW c \in Callers, Step(c) \/ Lock(c) \/ Issue(c) \/ AnswerEmpty(c) \/ Cancel(c)
      PROVE  CachedTokenAlive'
  <2>1. CASE CacheHit(c)
    BY <2>1, ValidIsAlive DEF CacheHit, Return
  <2>2. CASE WantLock(c)
    BY <2>2 DEF WantLock
  <2>3. CASE Lock(c)
    BY <2>3 DEF Lock, LockIsFree, AfterLock
  <2>4. CASE RecheckHit(c)
    BY <2>4, ValidIsAlive DEF RecheckHit, Return
  <2>5. CASE RecheckMiss(c)
    BY <2>5 DEF RecheckMiss
  <2>6. CASE RefuseToPost(c)
    BY <2>6 DEF RefuseToPost, Return, Unlock
  <2>7. CASE Post(c)
    BY <2>7 DEF Post
  <2>8. CASE PostFails(c)
    BY <2>8 DEF PostFails, Return, Unlock, EndRequest
  <2>9. CASE Store(c)
    BY <2>9 DEF Store, HasToken, Entry, EndRequest
  <2>10. CASE Save(c)
    BY <2>10 DEF Save, SaveTokens, Return, Unlock
  <2>11. CASE SaveFails(c)
    BY <2>11 DEF SaveFails, Return, Unlock
  <2>12. CASE Issue(c)
    BY <2>12 DEF Issue
  <2>13. CASE AnswerEmpty(c)
    BY <2>13 DEF AnswerEmpty
  <2>14. CASE Cancel(c)
    BY <2>14 DEF Cancel
  <2>15. QED
    BY <1>1, <2>1, <2>2, <2>3, <2>4, <2>5, <2>6, <2>7, <2>8, <2>9, <2>10, <2>11, <2>12, <2>13, <2>14 DEF Step
<1>2. CASE Tick
  BY <1>2 DEF Tick
<1>3. CASE UNCHANGED vars
  BY <1>3 DEF vars
<1>4. QED
  BY <1>1, <1>2, <1>3 DEF Next

\* The invariant holds initially.
LEMMA InitInv == Init => IInv
<1> SUFFICES ASSUME Init PROVE IInv
  OBVIOUS
<1> USE TimesAssumption, FreeAssumption DEF Init, NoToken, NoReply, NoOutcome
<1>1. TypeOK
  BY DEF TypeOK, PCs, Token, Reply, Outcome
<1>2. LockInv /\ NoNeedlessPost /\ CachedTokenAlive
  BY DEF LockInv, Refreshing, NoNeedlessPost, CachedTokenAlive
<1>3. OrderInv /\ ClockInv
  BY DEF OrderInv, ClockInv, env
<1>4. OutcomeInv
  BY DEF OutcomeInv, ForcedTokenIsNew, FreshTokenSaved
<1>5. QED
  BY <1>1, <1>2, <1>3, <1>4 DEF IInv

\* The invariant is inductive.
LEMMA StepInv == IInv /\ [Next]_vars => IInv'
<1> SUFFICES ASSUME IInv, [Next]_vars PROVE IInv'
  OBVIOUS
<1> USE DEF IInv
<1>1. TypeOK'
  BY TypeStep
<1>2. LockInv' /\ OrderInv'
  BY <1>1, LockStep, OrderStep
<1>3. OutcomeInv' /\ ClockInv'
  BY <1>1, OutcomeStep, ClockStep
<1>4. NoNeedlessPost' /\ CachedTokenAlive'
  BY <1>1, NeedStep, AliveStep
<1>5. QED
  BY <1>1, <1>2, <1>3, <1>4

-----------------------------------------------------------------------------
(* The theorems.                                                           *)

\* Every reachable state satisfies the inductive invariant: lock, order of
\* tokens, outcomes and clock.
THEOREM Invariance == Spec => []IInv
BY InitInv, StepInv, PTL DEF Spec

\* Every variable keeps its type; in particular no call returns an empty token.
THEOREM Typing == Spec => []TypeOK
<1>1. IInv => TypeOK
  BY DEF IInv
<1>2. QED
  BY <1>1, Invariance, PTL

\* The refreshes of one environment never overlap.
THEOREM MutualExclusion == Spec => []OneRefreshAtATime
<1>1. IInv => OneRefreshAtATime
  BY DEF IInv, LockInv, OneRefreshAtATime
<1>2. QED
  BY <1>1, Invariance, PTL

\* TokenContext posts only when the cache holds no valid token.
THEOREM SingleFlight == Spec => []NoNeedlessPost
<1>1. IInv => NoNeedlessPost
  BY DEF IInv
<1>2. QED
  BY <1>1, Invariance, PTL

\* A token served from the cache is alive, if the margin of IsValid is at
\* least the timeout of the token request.
THEOREM ServedTokensLive == Spec => []CachedTokenAlive
<1>1. IInv => CachedTokenAlive
  BY DEF IInv
<1>2. QED
  BY <1>1, Invariance, PTL

\* A forced refresh never returns a token that was cached when it began.
THEOREM ForcedTokensAreNew == Spec => []ForcedTokenIsNew
<1>1. IInv => ForcedTokenIsNew
  BY DEF IInv, OutcomeInv
<1>2. QED
  BY <1>1, Invariance, PTL

\* A fresh token is on disk, or a newer one is, when it is returned without a
\* warning.
THEOREM FreshTokensAreSaved == Spec => []FreshTokenSaved
<1>1. IInv => FreshTokenSaved
  BY DEF IInv, OutcomeInv
<1>2. QED
  BY <1>1, Invariance, PTL

\* Only Store changes the cache and only Save changes tokens.yml, each to a
\* newer token.
LEMMA NewerStep ==
    ASSUME IInv, [Next]_vars
    PROVE  StepToNewer
<1> USE DEF StepToNewer, IInv, TypeOK, OrderInv, Token, Reply, request, env
<1>1. ASSUME NEW c \in Callers, Step(c) \/ Lock(c) \/ Issue(c) \/ AnswerEmpty(c) \/ Cancel(c)
      PROVE  StepToNewer
  <2>1. CASE CacheHit(c)
    BY <2>1 DEF CacheHit, Return
  <2>2. CASE WantLock(c)
    BY <2>2 DEF WantLock
  <2>3. CASE Lock(c)
    BY <2>3 DEF Lock, LockIsFree, AfterLock
  <2>4. CASE RecheckHit(c)
    BY <2>4 DEF RecheckHit, Return, Unlock
  <2>5. CASE RecheckMiss(c)
    BY <2>5 DEF RecheckMiss
  <2>6. CASE RefuseToPost(c)
    BY <2>6 DEF RefuseToPost, Return, Unlock
  <2>7. CASE Post(c)
    BY <2>7 DEF Post
  <2>8. CASE PostFails(c)
    BY <2>8 DEF PostFails, Return, Unlock, EndRequest
  <2>9. CASE Store(c)
    BY <2>9 DEF Store, HasToken, Entry, EndRequest
  <2>10. CASE Save(c)
    BY <2>10 DEF Save, SaveTokens, Return, Unlock
  <2>11. CASE SaveFails(c)
    BY <2>11 DEF SaveFails, Return, Unlock
  <2>12. CASE Issue(c)
    BY <2>12 DEF Issue
  <2>13. CASE AnswerEmpty(c)
    BY <2>13 DEF AnswerEmpty
  <2>14. CASE Cancel(c)
    BY <2>14 DEF Cancel
  <2>15. QED
    BY <1>1, <2>1, <2>2, <2>3, <2>4, <2>5, <2>6, <2>7, <2>8, <2>9, <2>10, <2>11, <2>12, <2>13, <2>14 DEF Step
<1>2. CASE Tick
  BY <1>2 DEF Tick
<1>3. CASE UNCHANGED vars
  BY <1>3 DEF vars
<1>4. QED
  BY <1>1, <1>2, <1>3 DEF Next

\* Neither the cache nor tokens.yml goes back to an older token.
THEOREM TokensOnlyGetNewer == Spec => NeverOlder
<1>1. IInv /\ [Next]_vars => [StepToNewer]_vars
  BY NewerStep
<1>2. QED
  BY <1>1, Invariance, PTL DEF Spec, NeverOlder

-----------------------------------------------------------------------------
(* Why every call returns: whoever keeps the others waiting is at work,    *)
(* and every step of a call is one of its last few.                        *)

\* A lock that is taken is held by a caller that is refreshing that very
\* environment, never by one that has returned.
LockOwned ==
    \A e \in Envs : holder[e] # Free => Refreshing(holder[e]) /\ env(holder[e]) = e

\* Every return from inside the lock gives it back.
LEMMA OwnedStep ==
    ASSUME TypeOK, LockInv, LockOwned, [Next]_vars
    PROVE  LockOwned'
<1> USE FreeAssumption DEF TypeOK, LockOwned, LockInv, Refreshing, env, PCs, Goto, Return, Unlock, request
<1>1. ASSUME NEW c \in Callers, Step(c) \/ Lock(c) \/ Issue(c) \/ AnswerEmpty(c) \/ Cancel(c)
      PROVE  LockOwned'
  <2>1. CASE CacheHit(c)
    BY <2>1 DEF CacheHit
  <2>2. CASE WantLock(c)
    BY <2>2 DEF WantLock
  <2>3. CASE Lock(c)
    BY <2>3 DEF Lock, AfterLock
  <2>4. CASE RecheckHit(c)
    BY <2>4 DEF RecheckHit
  <2>5. CASE RecheckMiss(c)
    BY <2>5 DEF RecheckMiss
  <2>6. CASE RefuseToPost(c)
    BY <2>6 DEF RefuseToPost
  <2>7. CASE Post(c)
    BY <2>7 DEF Post
  <2>8. CASE PostFails(c)
    BY <2>8 DEF PostFails
  <2>9. CASE Store(c)
    BY <2>9 DEF Store
  <2>10. CASE Save(c)
    BY <2>10 DEF Save
  <2>11. CASE SaveFails(c)
    BY <2>11 DEF SaveFails
  <2>12. CASE Issue(c) \/ AnswerEmpty(c) \/ Cancel(c)
    BY <2>12 DEF Issue, AnswerEmpty, Cancel
  <2>13. QED
    BY <1>1, <2>1, <2>2, <2>3, <2>4, <2>5, <2>6, <2>7, <2>8, <2>9, <2>10, <2>11, <2>12 DEF Step
<1>2. CASE Tick
  BY <1>2 DEF Tick
<1>3. CASE UNCHANGED vars
  BY <1>3 DEF vars
<1>4. QED
  BY <1>1, <1>2, <1>3 DEF Next

\* No path leaves the lock of an environment held: its holder is a call that
\* is still refreshing that environment.
THEOREM LockIsGivenBack == Spec => []LockOwned
<1>1. Init => LockOwned
  BY DEF Init, LockOwned
<1>2. IInv /\ LockOwned /\ [Next]_vars => LockOwned'
  BY OwnedStep DEF IInv
<1>3. QED
  BY <1>1, <1>2, Invariance, PTL DEF Spec

\* The steps a call has left, at most.
StepsLeft(c) ==
    IF pc[c] = "idle" THEN 6
    ELSE IF pc[c] = "lock" THEN 5
    ELSE IF pc[c] = "recheck" THEN 4
    ELSE IF pc[c] = "refresh" THEN 3
    ELSE IF pc[c] = "posted" THEN 2
    ELSE IF pc[c] = "save" THEN 1
    ELSE 0

Shrinks ==
    \A c \in Callers : /\ StepsLeft(c)' <= StepsLeft(c)
                       /\ Step(c) \/ Lock(c) => StepsLeft(c)' < StepsLeft(c)

\* A call takes six steps at most, one of them the lock, and nobody can make
\* it longer: neither another caller nor the server, the clock or Ctrl-C.
\* (That a call waiting for the lock gets it, and one inside has a step to
\* take, is what TLC checks with EveryCallReturns.)
THEOREM CallsRunOut == Spec => [][Shrinks]_vars
<1>1. ASSUME TypeOK, Next, NEW c \in Callers
      PROVE  /\ StepsLeft(c)' <= StepsLeft(c)
             /\ Step(c) \/ Lock(c) => StepsLeft(c)' < StepsLeft(c)
  <2> USE <1>1 DEF TypeOK, Goto, Return
  <2>1. ASSUME NEW d \in Callers, Step(d) \/ Lock(d)
        PROVE  /\ StepsLeft(d)' < StepsLeft(d)
               /\ d # c => pc'[c] = pc[c]
    BY <2>1 DEF Step, Lock, CacheHit, WantLock, RecheckHit, RecheckMiss, RefuseToPost, Post,
                PostFails, Store, Save, SaveFails, AfterLock, StepsLeft
  <2>2. ASSUME NEW d \in Callers, Issue(d) \/ AnswerEmpty(d) \/ Cancel(d)
        PROVE  pc' = pc
    BY <2>2 DEF Issue, AnswerEmpty, Cancel
  <2>3. Tick => pc' = pc
    BY DEF Tick
  <2>4. StepsLeft(c) \in 0..6
    BY DEF StepsLeft
  <2>5. pc'[c] = pc[c] => StepsLeft(c)' = StepsLeft(c)
    BY DEF StepsLeft
  <2>6. Step(c) \/ Lock(c) => StepsLeft(c)' < StepsLeft(c)
    BY <2>1
  <2>7. StepsLeft(c)' <= StepsLeft(c)
    <3>1. \/ \E d \in Callers : Step(d) \/ Lock(d)
          \/ pc' = pc
      BY <2>2, <2>3 DEF Next
    <3>2. pc'[c] = pc[c] \/ Step(c) \/ Lock(c)
      BY <2>1, <3>1
    <3>3. StepsLeft(c)' \in 0..6
      BY DEF StepsLeft
    <3>4. QED
      BY <2>4, <2>5, <2>6, <3>2, <3>3
  <2>8. QED
    BY <2>6, <2>7
<1>2. TypeOK /\ [Next]_vars => [Shrinks]_vars
  BY <1>1 DEF Shrinks
<1>3. QED
  BY <1>2, Typing, PTL DEF Spec
=============================================================================
