----------------------------- MODULE TokenSource -----------------------------
(***************************************************************************)
(* OAuth token acquisition and caching inside one process                  *)
(* (internal/auth/oauth.go, the token part of internal/config).            *)
(*                                                                         *)
(* Concurrent callers ask for the token of an environment, with            *)
(* TokenContext (cache first) or with ForceRefreshContext (after a 401,    *)
(* and in `auth login`).  Refreshes of one environment are serialized by   *)
(* the lock refreshLocks holds for it.                                     *)
(*                                                                         *)
(* Time is counted in units of Timeout's unit; a token carries the moment  *)
(* the client believes it expires (time.Now() when the answer was parsed,  *)
(* plus expires_in) and the moment it really dies (expires_in after the    *)
(* server issued it), which is earlier by the latency of the answer.       *)
(***************************************************************************)
EXTENDS Naturals, FiniteSets

CONSTANTS Callers,    \* calls of TokenContext or ForceRefreshContext
          Envs,       \* environments, each with a lock and a cache entry
          Lifetimes,  \* values of expires_in
          Buffer,     \* the 60 s margin of TokenEntry.IsValid
          Timeout,    \* the 30 s timeout of the token request
          MaxTime,    \* bound on the clock
          Free        \* the holder of an unlocked lock

ASSUME TimesAssumption ==
    /\ Lifetimes \subseteq Nat
    /\ Buffer \in Nat /\ Timeout \in Nat /\ MaxTime \in Nat
    /\ Timeout <= Buffer
ASSUME FreeAssumption == Free \notin Callers

VARIABLES
    now,        \* the clock
    call,       \* call[c]: the environment c asks for, and whether it forces
    pc,         \* pc[c]: where caller c is
    cached,     \* cached[e]: the entry of e in memory (SetToken)
    saved,      \* saved[e]: the entry of e in tokens.yml (Save)
    holder,     \* holder[e]: who holds refreshLocks[e]
    sentAt,     \* sentAt[c]: when the token request of c was sent
    reply,      \* reply[c]: the token the server issued to c
    issued,     \* tokens issued so far
    cancelled,  \* cancelled[c]: the context of c is done
    outcome,    \* outcome[c]: what the call returned
    floor       \* floor[c]: the newest token cached when c was called (history)

vars == <<now, call, pc, cached, saved, holder, sentAt, reply, issued,
          cancelled, outcome, floor>>

PCs == {"idle", "lock", "recheck", "refresh", "posted", "save", "done"}

Token == [id: Nat, expires: Nat, dies: Nat]
NoToken == [id |-> 0, expires |-> 0, dies |-> 0]

Reply == [id: Nat, life: Nat, dies: Nat]
NoReply == [id |-> 0, life |-> 0, dies |-> 0]
\* A 200 answer without an access_token.
EmptyReply == [id |-> 0, life |-> 1, dies |-> 0]

\* What a call returned: a token, from the cache or fresh, or an error, and
\* whether the token was still alive at the tenant.
Outcome == [kind: {"cached", "fresh"}, id: Nat \ {0}, alive: BOOLEAN]
           \cup [kind: {"none", "error"}, id: {0}, alive: {FALSE}]
NoOutcome == [kind |-> "none", id |-> 0, alive |-> FALSE]

TypeOK ==
    /\ now \in Nat
    /\ call \in [Callers -> [env: Envs, force: BOOLEAN]]
    /\ pc \in [Callers -> PCs]
    /\ cached \in [Envs -> Token]
    /\ saved \in [Envs -> Token]
    /\ holder \in [Envs -> Callers \cup {Free}]
    /\ sentAt \in [Callers -> Nat]
    /\ reply \in [Callers -> Reply]
    /\ issued \in Nat
    /\ cancelled \in [Callers -> BOOLEAN]
    /\ outcome \in [Callers -> Outcome]
    /\ floor \in [Callers -> Nat]

Init ==
    /\ now = 0
    /\ call \in [Callers -> [env: Envs, force: BOOLEAN]]
    /\ pc = [c \in Callers |-> "idle"]
    /\ cached = [e \in Envs |-> NoToken]
    /\ saved = cached
    /\ holder = [e \in Envs |-> Free]
    /\ sentAt = [c \in Callers |-> 0]
    /\ reply = [c \in Callers |-> NoReply]
    /\ issued = 0
    /\ cancelled = [c \in Callers |-> FALSE]
    /\ outcome = [c \in Callers |-> NoOutcome]
    /\ floor = [c \in Callers |-> 0]

-----------------------------------------------------------------------------

env(c) == call[c].env

\* Mutant: without the 60 s margin.
IsUnexpired(t) == t.id # 0 /\ now < t.expires
IsValid(t) == t.id # 0 /\ now + Buffer < t.expires

Goto(c, label) == pc' = [pc EXCEPT ![c] = label]

Return(c, kind, token) ==
    /\ Goto(c, "done")
    /\ outcome' = [outcome EXCEPT ![c] =
                    [kind |-> kind, id |-> token.id, alive |-> now < token.dies]]

\* Mutant: an early return forgets the deferred unlock.
KeepLocked(c) == UNCHANGED holder
Unlock(c) == holder' = [holder EXCEPT ![env(c)] = Free]

\* Mutant: every call makes a lock of its own.
AlwaysFree(c) == TRUE
LockIsFree(c) == holder[env(c)] = Free

request == <<call, sentAt, reply, issued, cancelled>>

\* TokenContext returns the cached token without taking the lock.
CacheHit(c) ==
    /\ pc[c] = "idle"
    /\ ~call[c].force
    /\ IsValid(cached[env(c)])
    /\ floor' = [floor EXCEPT ![c] = cached[env(c)].id]
    /\ Return(c, "cached", cached[env(c)])
    /\ UNCHANGED <<now, cached, saved, holder, request>>

\* TokenContext found no valid token, or the refresh is forced.
WantLock(c) ==
    /\ pc[c] = "idle"
    /\ call[c].force \/ ~IsValid(cached[env(c)])
    /\ floor' = [floor EXCEPT ![c] = cached[env(c)].id]
    /\ Goto(c, "lock")
    /\ UNCHANGED <<now, cached, saved, holder, outcome, request>>

\* Mutant: a caller that waited refreshes without looking again.
NoRecheck(c) == "refresh"
\* Mutant: a forced refresh is content with what another caller cached.
RecheckAlways(c) == "recheck"
AfterLock(c) == IF call[c].force THEN "refresh" ELSE "recheck"

\* sync.Mutex.Lock: not interrupted by the context.
Lock(c) ==
    /\ pc[c] = "lock"
    /\ LockIsFree(c)
    /\ holder' = [holder EXCEPT ![env(c)] = c]
    /\ Goto(c, AfterLock(c))
    /\ UNCHANGED <<now, cached, saved, outcome, floor, request>>

RecheckHit(c) ==
    /\ pc[c] = "recheck"
    /\ IsValid(cached[env(c)])
    /\ Return(c, "cached", cached[env(c)])
    /\ Unlock(c)
    /\ UNCHANGED <<now, cached, saved, floor, request>>

RecheckMiss(c) ==
    /\ pc[c] = "recheck"
    /\ ~IsValid(cached[env(c)])
    /\ Goto(c, "refresh")
    /\ UNCHANGED <<now, cached, saved, holder, outcome, floor, request>>

\* No credentials, an unknown environment, a bad or cleartext URL, a done
\* context: nothing is sent.
RefuseToPost(c) ==
    /\ pc[c] = "refresh"
    /\ Return(c, "error", NoToken)
    /\ Unlock(c)
    /\ UNCHANGED <<now, cached, saved, floor, request>>

Post(c) ==
    /\ pc[c] = "refresh"
    /\ ~cancelled[c]
    /\ Goto(c, "posted")
    /\ sentAt' = [sentAt EXCEPT ![c] = now]
    /\ UNCHANGED <<now, cached, saved, holder, outcome, floor, call, reply,
                   issued, cancelled>>

\* The token request is over.
EndRequest(c) ==
    /\ sentAt' = [sentAt EXCEPT ![c] = 0]
    /\ reply' = [reply EXCEPT ![c] = NoReply]

\* A transport error, the timeout, a status other than 200, a body that does
\* not parse or holds no token.
PostFails(c) ==
    /\ pc[c] = "posted"
    /\ Return(c, "error", NoToken)
    /\ Unlock(c)
    /\ EndRequest(c)
    /\ UNCHANGED <<now, call, cached, saved, issued, cancelled, floor>>

\* The token of c's answer, dated by the client's clock as it is now.
Entry(c) == [id |-> reply[c].id, expires |-> now + reply[c].life,
             dies |-> reply[c].dies]

\* Mutant: the missing access_token goes unnoticed.
AnyToken(c) == reply[c] # NoReply
HasToken(c) == reply[c].id # 0

\* The answer is parsed and SetToken called.
Store(c) ==
    /\ pc[c] = "posted"
    /\ HasToken(c)
    /\ cached' = [cached EXCEPT ![env(c)] = Entry(c)]
    /\ Goto(c, "save")
    /\ EndRequest(c)
    /\ UNCHANGED <<now, call, saved, holder, issued, cancelled, outcome, floor>>

\* Mutant: the caller has its token whether or not it reached the disk.
SaveIgnored(c) == saved' \in {saved, cached}
\* Save writes every entry of the cache.
SaveTokens(c) == saved' = cached

Save(c) ==
    /\ pc[c] = "save"
    /\ SaveTokens(c)
    /\ Return(c, "fresh", cached[env(c)])
    /\ Unlock(c)
    /\ UNCHANGED <<now, cached, floor, request>>

\* Save failed: the caller gets the error, the token stays in memory.
SaveFails(c) ==
    /\ pc[c] = "save"
    /\ Return(c, "error", NoToken)
    /\ Unlock(c)
    /\ UNCHANGED <<now, cached, saved, floor, request>>

-----------------------------------------------------------------------------
(* The environment: the OAuth server, cancellation and the clock.          *)

\* The server issues a token to the request of c.
Issue(c) ==
    /\ pc[c] = "posted"
    /\ reply[c] = NoReply
    /\ issued' = issued + 1
    /\ \E life \in Lifetimes :
        reply' = [reply EXCEPT ![c] = [id |-> issued + 1, life |-> life,
                                       dies |-> now + life]]
    /\ UNCHANGED <<now, call, pc, cached, saved, holder, sentAt, cancelled,
                   outcome, floor>>

AnswerEmpty(c) ==
    /\ pc[c] = "posted"
    /\ reply[c] = NoReply
    /\ reply' = [reply EXCEPT ![c] = EmptyReply]
    /\ UNCHANGED <<now, call, pc, cached, saved, holder, sentAt, issued,
                   cancelled, outcome, floor>>

Cancel(c) ==
    /\ pc[c] # "done"
    /\ ~cancelled[c]
    /\ cancelled' = [cancelled EXCEPT ![c] = TRUE]
    /\ UNCHANGED <<now, call, pc, cached, saved, holder, sentAt, reply, issued,
                   outcome, floor>>

\* Time passes, but no token request outlives its timeout.
Tick ==
    /\ now < MaxTime
    /\ \A c \in Callers : pc[c] = "posted" => now < sentAt[c] + Timeout
    /\ now' = now + 1
    /\ UNCHANGED <<call, pc, cached, saved, holder, sentAt, reply, issued,
                   cancelled, outcome, floor>>

-----------------------------------------------------------------------------

Step(c) ==
    \/ CacheHit(c) \/ WantLock(c) \/ RecheckHit(c) \/ RecheckMiss(c)
    \/ RefuseToPost(c) \/ Post(c) \/ PostFails(c) \/ Store(c)
    \/ Save(c) \/ SaveFails(c)

Next ==
    \/ \E c \in Callers : Step(c) \/ Lock(c) \/ Issue(c) \/ AnswerEmpty(c) \/ Cancel(c)
    \/ Tick

Spec == Init /\ [][Next]_vars

\* A call once made keeps running, its token request ends at the latest with
\* the timeout, and sync.Mutex starves nobody.  Nobody has to call, and the
\* server owes no answer.
FairSpec ==
    /\ Spec
    /\ \A c \in Callers : WF_vars(pc[c] # "idle" /\ Step(c)) /\ SF_vars(Lock(c))

-----------------------------------------------------------------------------
(* Properties.                                                             *)

Refreshing(c) == pc[c] \in {"recheck", "refresh", "posted", "save"}

\* Refreshes of one environment never overlap, so the OAuth endpoint is not
\* stampeded: neither by callers that missed the cache together nor by forced
\* refreshes.
OneRefreshAtATime ==
    \A c, d \in Callers :
        (c # d /\ Refreshing(c) /\ Refreshing(d)) => env(c) # env(d)

\* A caller of TokenContext only posts when the cache, as it is at that
\* moment, holds no valid token: whoever waited for a refresh uses its token.
NoNeedlessPost ==
    \A c \in Callers :
        (pc[c] = "refresh" /\ ~call[c].force) => ~IsValid(cached[env(c)])

\* A token served from the cache is still alive at the tenant, although the
\* client dates it too late by the latency of the answer.
CachedTokenAlive ==
    \A c \in Callers :
        outcome[c].kind = "cached" => outcome[c].alive

\* A forced refresh never hands back a token that was already cached when it
\* was asked for (the token a 401 has just refused).
ForcedTokenIsNew ==
    \A c \in Callers :
        (call[c].force /\ pc[c] = "done" /\ outcome[c].kind # "error")
            => outcome[c].id > floor[c]

\* A refresh that returned its token also wrote it to tokens.yml, where only a
\* newer one replaces it.
FreshTokenSaved ==
    \A c \in Callers :
        outcome[c].kind = "fresh" => saved[env(c)].id >= outcome[c].id

StepToNewer ==
    \A e \in Envs : cached'[e].id >= cached[e].id /\ saved'[e].id >= saved[e].id

\* Neither the cache nor tokens.yml ever goes back to an older token.
NeverOlder == [][StepToNewer]_vars

\* Every call returns, whichever way the refreshes before it ended: no path
\* leaves the lock held.
EveryCallReturns == \A c \in Callers : pc[c] = "lock" ~> pc[c] = "done"
=============================================================================
