-------------------------- MODULE AuthCommandsProofs --------------------------
(***************************************************************************)
(* The properties of AuthCommands, proved for any number of processes and  *)
(* clients.                                                                *)
(***************************************************************************)
EXTENDS AuthCommands, TLAPS

Trying == {"setid", "setsecret"}
Deleting == {"deleteid", "deletesecret"}

\* Where a command is tells what it has found out: credentials that are stored
\* have been accepted, and a token to be saved is theirs.
KnowsWhy(p) ==
  /\ pc[p] # "done" => outcome[p] = "running"
  /\ outcome[p] \in Logins => command[p] = "token"
  /\ pc[p] \in {"getid", "getsecret"} => command[p] = "token"
  /\ pc[p] \in {"getsecret", "post"} => command[p] # "logout" /\ creds[p].id \in Logins
  /\ pc[p] \in Trying => command[p] = "login"
  /\ pc[p] \in Deleting => command[p] = "logout"
  /\ pc[p] = "loaded" => command[p] # "logout"
  /\ pc[p] = "finish" => command[p] # "token"
  /\ pc[p] \in Trying \cup {"save", "finish"} /\ command[p] # "logout" =>
       creds[p].id \in accepted /\ creds[p].secret = creds[p].id
  /\ pc[p] = "save" /\ command[p] # "logout" => mem[p] = TokenOf(creds[p].id, p)
  /\ pc[p] = "save" /\ command[p] = "logout" => mem[p] = NoToken

\* Nothing is written before the server has accepted the credentials, and what
\* is in a store has been accepted.
OnlyAccepted ==
  /\ {keyring.id, keyring.secret, file.of} \subseteq accepted \cup {NoLogin}
  /\ \A p \in Procs :
       /\ mem[p].of \in accepted \cup {NoLogin}
       /\ pc[p] \in {"start", "loaded", "getid", "getsecret", "post", "save"} /\ command[p] # "logout"
            => wrote[p] = {}
       /\ command[p] = "login" /\ outcome[p] = "error" => wrote[p] = {}

\* The login that stands is in all the stores.
StandsInStores ==
  standing # Unclear =>
    /\ keyring = IF standing = Out THEN NoPair ELSE PairOf(standing)
    /\ file.of \in {NoLogin, standing}

\* A token command that started from it has found nothing else.
Follows(p) ==
  basis[p] # Unclear =>
    /\ basis[p] = standing
    /\ command[p] = "token" =>
         /\ pc[p] \in {"loaded", "getid", "getsecret", "post", "save"} => mem[p].of \in {NoLogin, basis[p]}
         /\ pc[p] \in {"getsecret", "post"} => creds[p].id = basis[p]
         /\ pc[p] = "post" => creds[p].secret = basis[p]
         /\ outcome[p] \in Logins => outcome[p] = basis[p]

\* What a process has written is there until another one writes.
Owner(p) == IF command[p] = "login" THEN creds[p].id ELSE NoLogin
WrittenIsThere(p) ==
  command[p] # "token" =>
    /\ "id" \in wrote[p] \ disturbed[p] => keyring.id = Owner(p)
    /\ "secret" \in wrote[p] \ disturbed[p] => keyring.secret = Owner(p)
    /\ "token" \in wrote[p] \ disturbed[p] => file.of = Owner(p)
    /\ command[p] = "login" =>
         /\ pc[p] \in Trying => "token" \in wrote[p]
         /\ pc[p] = "setsecret" => "id" \in wrote[p]
    /\ command[p] = "logout" /\ ~ warned[p] =>
         /\ pc[p] = "deletesecret" => "id" \in wrote[p]
         /\ pc[p] = "save" => {"id", "secret"} \subseteq wrote[p]
    /\ pc[p] \in {"start", "loaded", "post"} => wrote[p] = {}
    /\ command[p] = "login" /\ pc[p] = "save" => wrote[p] = {}
    /\ pc[p] = "finish" /\ ~ warned[p] => Items \subseteq wrote[p]

IInv ==
  /\ TypeOK
  /\ OnlyAccepted
  /\ StandsInStores
  /\ \A p \in Procs : KnowsWhy(p) /\ Follows(p) /\ WrittenIsThere(p)

\* Every step keeps the types.
LEMMA StepTyping ==
  ASSUME IInv, [Next]_vars
  PROVE  TypeOK'
<1> USE NamesAssumption, StandingAssumption, EndsAssumption DEF IInv, TypeOK, PCs, Ends, Pairs, NoPair, Tokens, NoToken, TokenOf, Commands, stores, notes, Goto, Running, End, Warn, Written, Stands, Items, Trying, Deleting, PairOf, KnowsWhy
<1>1. ASSUME NEW p \in Procs, Step(p) PROVE TypeOK'
  <2>1. CASE Refuse(p)
    BY <2>1 DEF Refuse
  <2>2. CASE Load(p)
    BY <2>2 DEF Load
  <2>3. CASE Resolve(p)
    BY <2>3 DEF Resolve, Filled, AfterResolve, EnvCredentials
  <2>4. CASE CannotAsk(p)
    BY <2>4 DEF CannotAsk
  <2>5. CASE CacheHit(p)
    BY <2>5 DEF CacheHit, IsValid
  <2>6. CASE UseVariables(p)
    BY <2>6 DEF UseVariables, EnvCredentials
  <2>7. CASE UseKeyring(p)
    BY <2>7 DEF UseKeyring
  <2>8. CASE GetId(p)
    BY <2>8 DEF GetId
  <2>9. CASE GetSecret(p)
    BY <2>9 DEF GetSecret
  <2>10. CASE GetFails(p)
    BY <2>10 DEF GetFails
  <2>11. CASE Post(p)
    BY <2>11 DEF Post
  <2>12. CASE PostFails(p)
    BY <2>12 DEF PostFails
  <2>13. CASE Save(p)
    <3>1. CASE command[p] = "login"
      BY <2>13, <3>1 DEF Save
    <3>2. CASE command[p] = "logout"
      BY <2>13, <3>2 DEF Save
    <3>3. CASE command[p] = "token"
      <4>1. mem[p].of \in Logins
        BY <2>13, <3>3 DEF Save
      <4>2. pc' = [pc EXCEPT ![p] = "done"] /\ outcome' = [outcome EXCEPT ![p] = mem[p].of]
        BY <2>13, <3>3 DEF Save
      <4>3. pc' \in [Procs -> PCs]
        BY <4>2
      <4>4. outcome' \in [Procs -> Ends \cup Logins]
        BY <4>1, <4>2
      <4>5. file' \in Tokens \cup {NoToken} /\ UNCHANGED <<command, creds, mem, keyring, expired, warned>>
        BY <2>13 DEF Save
      <4>6. wrote' \in [Procs -> SUBSET Items] /\ disturbed' \in [Procs -> SUBSET Items] /\ UNCHANGED accepted
        BY <2>13 DEF Save
      <4>7. standing' \in Logins \cup {Out, Unclear} /\ basis' \in [Procs -> Logins \cup {Out, Unclear}]
        BY <2>13 DEF Save
      <4>8. QED
        BY <4>3, <4>4, <4>5, <4>6, <4>7
    <3>4. QED
      BY <3>1, <3>2, <3>3
  <2>14. CASE SaveFails(p)
    BY <2>14 DEF SaveFails
  <2>15. CASE SetId(p)
    BY <2>15 DEF SetId
  <2>16. CASE SetSecret(p)
    BY <2>16 DEF SetSecret
  <2>17. CASE SetFails(p)
    BY <2>17 DEF SetFails
  <2>18. CASE DeleteId(p)
    BY <2>18 DEF DeleteId
  <2>19. CASE DeleteSecret(p)
    BY <2>19 DEF DeleteSecret, RemoveToken
  <2>20. CASE DeleteIdFails(p)
    BY <2>20 DEF DeleteIdFails
  <2>21. CASE DeleteSecretFails(p)
    BY <2>21 DEF DeleteSecretFails, RemoveToken
  <2>22. CASE Finish(p)
    BY <2>22 DEF Finish, Stands
  <2>23. CASE Kill(p)
    BY <2>23 DEF Kill
  <2>24. QED
    BY <1>1, <2>1, <2>2, <2>3, <2>4, <2>5, <2>6, <2>7, <2>8, <2>9, <2>10, <2>11, <2>12, <2>13, <2>14, <2>15, <2>16, <2>17, <2>18, <2>19, <2>20, <2>21, <2>22, <2>23 DEF Step
<1>2. ASSUME NEW by \in Procs \cup {Earlier}, Expire(by) PROVE TypeOK'
  BY <1>2 DEF Expire
<1>3. CASE UNCHANGED vars
  BY <1>3 DEF vars
<1>4. QED
  BY <1>1, <1>2, <1>3 DEF Next

\* Every step keeps what a command knows.
LEMMA StepKnows ==
  ASSUME IInv, [Next]_vars, NEW t \in Procs
  PROVE  KnowsWhy(t)'
<1> USE NamesAssumption, StandingAssumption, EndsAssumption DEF IInv, TypeOK, PCs, Ends, Pairs, NoPair, Tokens, NoToken, TokenOf, Commands, stores, notes, Goto, Running, End, Warn, Written, Stands, Items, Trying, Deleting, PairOf, KnowsWhy
<1>1. ASSUME NEW p \in Procs, Step(p) PROVE KnowsWhy(t)'
  <2>1. CASE Refuse(p)
    BY <2>1 DEF Refuse
  <2>2. CASE Load(p)
    BY <2>2 DEF Load
  <2>3. CASE Resolve(p)
    BY <2>3 DEF Resolve, Filled, AfterResolve, EnvCredentials
  <2>4. CASE CannotAsk(p)
    BY <2>4 DEF CannotAsk
  <2>5. CASE CacheHit(p)
    BY <2>5 DEF CacheHit, IsValid
  <2>6. CASE UseVariables(p)
    BY <2>6 DEF UseVariables, EnvCredentials
  <2>7. CASE UseKeyring(p)
    BY <2>7 DEF UseKeyring
  <2>8. CASE GetId(p)
    BY <2>8 DEF GetId
  <2>9. CASE GetSecret(p)
    BY <2>9 DEF GetSecret
  <2>10. CASE GetFails(p)
    BY <2>10 DEF GetFails
  <2>11. CASE Post(p)
    BY <2>11 DEF Post
  <2>12. CASE PostFails(p)
    BY <2>12 DEF PostFails
  <2>13. CASE Save(p)
    BY <2>13 DEF Save
  <2>14. CASE SaveFails(p)
    BY <2>14 DEF SaveFails
  <2>15. CASE SetId(p)
    BY <2>15 DEF SetId
  <2>16. CASE SetSecret(p)
    BY <2>16 DEF SetSecret
  <2>17. CASE SetFails(p)
    BY <2>17 DEF SetFails
  <2>18. CASE DeleteId(p)
    BY <2>18 DEF DeleteId
  <2>19. CASE DeleteSecret(p)
    BY <2>19 DEF DeleteSecret, RemoveToken
  <2>20. CASE DeleteIdFails(p)
    BY <2>20 DEF DeleteIdFails
  <2>21. CASE DeleteSecretFails(p)
    BY <2>21 DEF DeleteSecretFails, RemoveToken
  <2>22. CASE Finish(p)
    BY <2>22 DEF Finish, Stands
  <2>23. CASE Kill(p)
    BY <2>23 DEF Kill
  <2>24. QED
    BY <1>1, <2>1, <2>2, <2>3, <2>4, <2>5, <2>6, <2>7, <2>8, <2>9, <2>10, <2>11, <2>12, <2>13, <2>14, <2>15, <2>16, <2>17, <2>18, <2>19, <2>20, <2>21, <2>22, <2>23 DEF Step
<1>2. ASSUME NEW by \in Procs \cup {Earlier}, Expire(by) PROVE KnowsWhy(t)'
  BY <1>2 DEF Expire
<1>3. CASE UNCHANGED vars
  BY <1>3 DEF vars
<1>4. QED
  BY <1>1, <1>2, <1>3 DEF Next

\* Only accepted credentials and their tokens reach a store.
LEMMA StepAccepted ==
  ASSUME IInv, [Next]_vars
  PROVE  OnlyAccepted'
<1> USE NamesAssumption, StandingAssumption, EndsAssumption DEF IInv, TypeOK, PCs, Ends, Pairs, NoPair, Tokens, NoToken, TokenOf, Commands, stores, notes, Goto, Running, End, Warn, Written, Stands, Items, Trying, Deleting, PairOf, KnowsWhy, OnlyAccepted
<1>1. ASSUME NEW p \in Procs, Step(p) PROVE OnlyAccepted'
  <2>1. CASE Refuse(p)
    BY <2>1 DEF Refuse
  <2>2. CASE Load(p)
    BY <2>2 DEF Load
  <2>3. CASE Resolve(p)
    BY <2>3 DEF Resolve, Filled, AfterResolve, EnvCredentials
  <2>4. CASE CannotAsk(p)
    BY <2>4 DEF CannotAsk
  <2>5. CASE CacheHit(p)
    BY <2>5 DEF CacheHit, IsValid
  <2>6. CASE UseVariables(p)
    BY <2>6 DEF UseVariables, EnvCredentials
  <2>7. CASE UseKeyring(p)
    BY <2>7 DEF UseKeyring
  <2>8. CASE GetId(p)
    BY <2>8 DEF GetId
  <2>9. CASE GetSecret(p)
    BY <2>9 DEF GetSecret
  <2>10. CASE GetFails(p)
    BY <2>10 DEF GetFails
  <2>11. CASE Post(p)
    BY <2>11 DEF Post
  <2>12. CASE PostFails(p)
    BY <2>12 DEF PostFails
  <2>13. CASE Save(p)
    BY <2>13 DEF Save
  <2>14. CASE SaveFails(p)
    BY <2>14 DEF SaveFails
  <2>15. CASE SetId(p)
    BY <2>15 DEF SetId
  <2>16. CASE SetSecret(p)
    BY <2>16 DEF SetSecret
  <2>17. CASE SetFails(p)
    BY <2>17 DEF SetFails
  <2>18. CASE DeleteId(p)
    BY <2>18 DEF DeleteId
  <2>19. CASE DeleteSecret(p)
    BY <2>19 DEF DeleteSecret, RemoveToken
  <2>20. CASE DeleteIdFails(p)
    BY <2>20 DEF DeleteIdFails
  <2>21. CASE DeleteSecretFails(p)
    BY <2>21 DEF DeleteSecretFails, RemoveToken
  <2>22. CASE Finish(p)
    BY <2>22 DEF Finish, Stands
  <2>23. CASE Kill(p)
    BY <2>23 DEF Kill
  <2>24. QED
    BY <1>1, <2>1, <2>2, <2>3, <2>4, <2>5, <2>6, <2>7, <2>8, <2>9, <2>10, <2>11, <2>12, <2>13, <2>14, <2>15, <2>16, <2>17, <2>18, <2>19, <2>20, <2>21, <2>22, <2>23 DEF Step
<1>2. ASSUME NEW by \in Procs \cup {Earlier}, Expire(by) PROVE OnlyAccepted'
  BY <1>2 DEF Expire
<1>3. CASE UNCHANGED vars
  BY <1>3 DEF vars
<1>4. QED
  BY <1>1, <1>2, <1>3 DEF Next

\* A login stands only once it is in all the stores, and no longer than that.
LEMMA StepStands ==
  ASSUME IInv, [Next]_vars
  PROVE  StandsInStores'
<1> USE NamesAssumption, StandingAssumption, EndsAssumption DEF IInv, TypeOK, PCs, Ends, Pairs, NoPair, Tokens, NoToken, TokenOf, Commands, stores, notes, Goto, Running, End, Warn, Written, Stands, Items, Trying, Deleting, PairOf, KnowsWhy, StandsInStores, WrittenIsThere, Owner
<1>1. ASSUME NEW p \in Procs, Step(p) PROVE StandsInStores'
  <2>1. CASE Refuse(p)
    BY <2>1 DEF Refuse
  <2>2. CASE Load(p)
    BY <2>2 DEF Load
  <2>3. CASE Resolve(p)
    BY <2>3 DEF Resolve, Filled, AfterResolve, EnvCredentials
  <2>4. CASE CannotAsk(p)
    BY <2>4 DEF CannotAsk
  <2>5. CASE CacheHit(p)
    BY <2>5 DEF CacheHit, IsValid
  <2>6. CASE UseVariables(p)
    BY <2>6 DEF UseVariables, EnvCredentials
  <2>7. CASE UseKeyring(p)
    BY <2>7 DEF UseKeyring
  <2>8. CASE GetId(p)
    BY <2>8 DEF GetId
  <2>9. CASE GetSecret(p)
    BY <2>9 DEF GetSecret
  <2>10. CASE GetFails(p)
    BY <2>10 DEF GetFails
  <2>11. CASE Post(p)
    BY <2>11 DEF Post
  <2>12. CASE PostFails(p)
    BY <2>12 DEF PostFails
  <2>13. CASE Save(p)
    BY <2>13 DEF Save
  <2>14. CASE SaveFails(p)
    BY <2>14 DEF SaveFails
  <2>15. CASE SetId(p)
    BY <2>15 DEF SetId
  <2>16. CASE SetSecret(p)
    BY <2>16 DEF SetSecret
  <2>17. CASE SetFails(p)
    BY <2>17 DEF SetFails
  <2>18. CASE DeleteId(p)
    BY <2>18 DEF DeleteId
  <2>19. CASE DeleteSecret(p)
    BY <2>19 DEF DeleteSecret, RemoveToken
  <2>20. CASE DeleteIdFails(p)
    BY <2>20 DEF DeleteIdFails
  <2>21. CASE DeleteSecretFails(p)
    BY <2>21 DEF DeleteSecretFails, RemoveToken
  <2>22. CASE Finish(p)
    BY <2>22 DEF Finish, Stands
  <2>23. CASE Kill(p)
    BY <2>23 DEF Kill
  <2>24. QED
    BY <1>1, <2>1, <2>2, <2>3, <2>4, <2>5, <2>6, <2>7, <2>8, <2>9, <2>10, <2>11, <2>12, <2>13, <2>14, <2>15, <2>16, <2>17, <2>18, <2>19, <2>20, <2>21, <2>22, <2>23 DEF Step
<1>2. ASSUME NEW by \in Procs \cup {Earlier}, Expire(by) PROVE StandsInStores'
  BY <1>2 DEF Expire
<1>3. CASE UNCHANGED vars
  BY <1>3 DEF vars
<1>4. QED
  BY <1>1, <1>2, <1>3 DEF Next

\* A token command sees the stores of the login that stands.
LEMMA StepFollows ==
  ASSUME IInv, [Next]_vars, NEW t \in Procs
  PROVE  Follows(t)'
<1> USE NamesAssumption, StandingAssumption, EndsAssumption DEF IInv, TypeOK, PCs, Ends, Pairs, NoPair, Tokens, NoToken, TokenOf, Commands, stores, notes, Goto, Running, End, Warn, Written, Stands, Items, Trying, Deleting, PairOf, KnowsWhy, StandsInStores, Follows
<1>1. ASSUME NEW p \in Procs, Step(p) PROVE Follows(t)'
  <2>1. CASE Refuse(p)
    BY <2>1 DEF Refuse
  <2>2. CASE Load(p)
    BY <2>2 DEF Load
  <2>3. CASE Resolve(p)
    BY <2>3 DEF Resolve, Filled, AfterResolve, EnvCredentials
  <2>4. CASE CannotAsk(p)
    BY <2>4 DEF CannotAsk
  <2>5. CASE CacheHit(p)
    BY <2>5 DEF CacheHit, IsValid
  <2>6. CASE UseVariables(p)
    BY <2>6 DEF UseVariables, EnvCredentials
  <2>7. CASE UseKeyring(p)
    BY <2>7 DEF UseKeyring
  <2>8. CASE GetId(p)
    BY <2>8 DEF GetId
  <2>9. CASE GetSecret(p)
    BY <2>9 DEF GetSecret
  <2>10. CASE GetFails(p)
    BY <2>10 DEF GetFails
  <2>11. CASE Post(p)
    BY <2>11 DEF Post
  <2>12. CASE PostFails(p)
    BY <2>12 DEF PostFails
  <2>13. CASE Save(p)
    <3>1. CASE command[p] = "token" /\ mem[p].of = standing
      <4>1. UNCHANGED <<command, creds, mem, standing, basis>> /\ pc' = [pc EXCEPT ![p] = "done"]
        BY <2>13, <3>1 DEF Save
      <4>2. outcome' = [outcome EXCEPT ![p] = standing]
        BY <2>13, <3>1 DEF Save
      <4>3. basis[p] # Unclear => basis[p] = standing
        OBVIOUS
      <4>4. QED
        BY <4>1, <4>2, <4>3
    <3>2. CASE ~ (command[p] = "token" /\ mem[p].of = standing)
      <4>1. basis'[t] = Unclear
        BY <2>13, <3>2 DEF Save
      <4>2. QED
        BY <4>1
    <3>3. QED
      BY <3>1, <3>2
  <2>14. CASE SaveFails(p)
    BY <2>14 DEF SaveFails
  <2>15. CASE SetId(p)
    BY <2>15 DEF SetId
  <2>16. CASE SetSecret(p)
    BY <2>16 DEF SetSecret
  <2>17. CASE SetFails(p)
    BY <2>17 DEF SetFails
  <2>18. CASE DeleteId(p)
    BY <2>18 DEF DeleteId
  <2>19. CASE DeleteSecret(p)
    BY <2>19 DEF DeleteSecret, RemoveToken
  <2>20. CASE DeleteIdFails(p)
    BY <2>20 DEF DeleteIdFails
  <2>21. CASE DeleteSecretFails(p)
    BY <2>21 DEF DeleteSecretFails, RemoveToken
  <2>22. CASE Finish(p)
    BY <2>22 DEF Finish, Stands
  <2>23. CASE Kill(p)
    BY <2>23 DEF Kill
  <2>24. QED
    BY <1>1, <2>1, <2>2, <2>3, <2>4, <2>5, <2>6, <2>7, <2>8, <2>9, <2>10, <2>11, <2>12, <2>13, <2>14, <2>15, <2>16, <2>17, <2>18, <2>19, <2>20, <2>21, <2>22, <2>23 DEF Step
<1>2. ASSUME NEW by \in Procs \cup {Earlier}, Expire(by) PROVE Follows(t)'
  BY <1>2 DEF Expire
<1>3. CASE UNCHANGED vars
  BY <1>3 DEF vars
<1>4. QED
  BY <1>1, <1>2, <1>3 DEF Next

\* A write is undone only by one that disturbs it.
LEMMA StepWritten ==
  ASSUME IInv, [Next]_vars, NEW t \in Procs
  PROVE  WrittenIsThere(t)'
<1> USE NamesAssumption, StandingAssumption, EndsAssumption DEF IInv, TypeOK, PCs, Ends, Pairs, NoPair, Tokens, NoToken, TokenOf, Commands, stores, notes, Goto, Running, End, Warn, Written, Stands, Items, Trying, Deleting, PairOf, KnowsWhy, WrittenIsThere, Owner
<1>1. ASSUME NEW p \in Procs, Step(p) PROVE WrittenIsThere(t)'
  <2>1. CASE Refuse(p)
    BY <2>1 DEF Refuse
  <2>2. CASE Load(p)
    BY <2>2 DEF Load
  <2>3. CASE Resolve(p)
    BY <2>3 DEF Resolve, Filled, AfterResolve, EnvCredentials
  <2>4. CASE CannotAsk(p)
    BY <2>4 DEF CannotAsk
  <2>5. CASE CacheHit(p)
    BY <2>5 DEF CacheHit, IsValid
  <2>6. CASE UseVariables(p)
    BY <2>6 DEF UseVariables, EnvCredentials
  <2>7. CASE UseKeyring(p)
    BY <2>7 DEF UseKeyring
  <2>8. CASE GetId(p)
    BY <2>8 DEF GetId
  <2>9. CASE GetSecret(p)
    BY <2>9 DEF GetSecret
  <2>10. CASE GetFails(p)
    BY <2>10 DEF GetFails
  <2>11. CASE Post(p)
    BY <2>11 DEF Post
  <2>12. CASE PostFails(p)
    BY <2>12 DEF PostFails
  <2>13. CASE Save(p)
    <3>1. CASE command[p] = "login"
      BY <2>13, <3>1 DEF Save
    <3>2. CASE command[p] = "logout"
      BY <2>13, <3>2 DEF Save
    <3>3. CASE command[p] = "token"
      BY <2>13, <3>3 DEF Save
    <3>4. QED
      BY <3>1, <3>2, <3>3
  <2>14. CASE SaveFails(p)
    BY <2>14 DEF SaveFails
  <2>15. CASE SetId(p)
    BY <2>15 DEF SetId
  <2>16. CASE SetSecret(p)
    BY <2>16 DEF SetSecret
  <2>17. CASE SetFails(p)
    BY <2>17 DEF SetFails
  <2>18. CASE DeleteId(p)
    BY <2>18 DEF DeleteId
  <2>19. CASE DeleteSecret(p)
    BY <2>19 DEF DeleteSecret, RemoveToken
  <2>20. CASE DeleteIdFails(p)
    BY <2>20 DEF DeleteIdFails
  <2>21. CASE DeleteSecretFails(p)
    BY <2>21 DEF DeleteSecretFails, RemoveToken
  <2>22. CASE Finish(p)
    BY <2>22 DEF Finish, Stands
  <2>23. CASE Kill(p)
    BY <2>23 DEF Kill
  <2>24. QED
    BY <1>1, <2>1, <2>2, <2>3, <2>4, <2>5, <2>6, <2>7, <2>8, <2>9, <2>10, <2>11, <2>12, <2>13, <2>14, <2>15, <2>16, <2>17, <2>18, <2>19, <2>20, <2>21, <2>22, <2>23 DEF Step
<1>2. ASSUME NEW by \in Procs \cup {Earlier}, Expire(by) PROVE WrittenIsThere(t)'
  BY <1>2 DEF Expire
<1>3. CASE UNCHANGED vars
  BY <1>3 DEF vars
<1>4. QED
  BY <1>1, <1>2, <1>3 DEF Next

LEMMA InitHolds == Init => IInv
<1> SUFFICES ASSUME Init PROVE IInv
  OBVIOUS
<1> USE NamesAssumption, StandingAssumption, EndsAssumption DEF Init, PCs, Ends, Pairs, NoPair, Tokens, NoToken, TokenOf, Commands, Items, PairOf
<1>1. TypeOK
  BY DEF TypeOK
<1>2. OnlyAccepted
  BY DEF OnlyAccepted
<1>3. StandsInStores
  BY DEF StandsInStores
<1>4. ASSUME NEW p \in Procs PROVE KnowsWhy(p) /\ Follows(p) /\ WrittenIsThere(p)
  BY <1>4 DEF KnowsWhy, Follows, WrittenIsThere, Trying, Deleting
<1>5. QED
  BY <1>1, <1>2, <1>3, <1>4 DEF IInv

LEMMA Inductive == Spec => []IInv
<1>1. IInv /\ [Next]_vars => IInv'
  BY StepTyping, StepKnows, StepAccepted, StepStands, StepFollows, StepWritten DEF IInv
<1>2. QED
  BY <1>1, InitHolds, PTL DEF Spec

-----------------------------------------------------------------------------

\* The state of the commands is well typed; a token command that ends well acts
\* for a client.
THEOREM Typing == Spec => []TypeOK
<1>1. IInv => TypeOK
  BY DEF IInv
<1>2. QED
  BY <1>1, Inductive, PTL

\* However many commands overlap, are killed or lose the keyring, the stores
\* only hold what the server has accepted, and a login that fails has written
\* nothing.
THEOREM NothingInvalidStored == Spec => []InvalidNeverStored
<1>1. IInv => InvalidNeverStored
  BY DEF IInv, OnlyAccepted, InvalidNeverStored
<1>2. QED
  BY <1>1, Inductive, PTL

\* A login or logout that went through decides whom later commands act for,
\* until another command writes.
THEOREM LoginsStand == Spec => []LaterCommandsFollow
<1>1. IInv => LaterCommandsFollow
  <2> SUFFICES ASSUME IInv, NEW p \in Procs, basis[p] # Unclear, outcome[p] \in Logins
               PROVE  outcome[p] = basis[p]
    BY DEF LaterCommandsFollow
  <2>1. QED
    BY DEF IInv, KnowsWhy, Follows
<1>2. QED
  BY <1>1, Inductive, PTL
===============================================================================
