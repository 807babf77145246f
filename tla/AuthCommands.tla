----------------------------- MODULE AuthCommands -----------------------------
(***************************************************************************)
(* `auth login`, `auth logout` and `auth token` of one environment, by     *)
(* several processes: the two keyring items, the entry of tokens.yml and   *)
(* the OAuth server.  Nothing joins the three stores; each can fail.       *)
(*                                                                         *)
(* A login is a client of the tenant.  Its name stands for its id, for its *)
(* secret, and in a token for whom the token acts.                         *)
(***************************************************************************)
EXTENDS FiniteSets

CONSTANTS
  Procs,    \* processes, each running one command
  Logins,   \* clients registered at the tenant
  NoLogin,  \* no value
  Earlier   \* who obtained a token that was there before

ASSUME NamesAssumption == NoLogin \notin Logins /\ Earlier \notin Procs

VARIABLES
  command,    \* command[p]: what p runs
  pc,         \* pc[p]: where p is
  creds,      \* creds[p]: the credentials p has gathered
  mem,        \* mem[p]: the token entry in p's configuration
  keyring,    \* the two items of the environment
  file,       \* the token entry in tokens.yml
  expired,    \* who obtained the tokens that have expired
  warned,     \* warned[p]: p has warned that the keyring failed
  outcome,    \* outcome[p]: "running", how p ended, or for whom its token acts
  accepted,   \* clients whose credentials the server has accepted (history)
  wrote,      \* wrote[p]: the items p has written (history)
  disturbed,  \* disturbed[p]: the items others wrote since p did (history)
  standing,   \* the login the last complete login or logout left (history)
  basis       \* basis[p]: standing when p started, as long as it stays (history)

vars == <<command, pc, creds, mem, keyring, file, expired, warned, outcome,
          accepted, wrote, disturbed, standing, basis>>

Out == "out"          \* nobody is logged in
Unclear == "unclear"  \* a command is in between, or has failed
ASSUME StandingAssumption == {Out, Unclear} \cap (Logins \cup {NoLogin}) = {}

Commands == {"login", "logout", "token"}
PCs == {"start", "loaded", "getid", "getsecret", "post", "save",
        "setid", "setsecret", "deleteid", "deletesecret", "finish", "done"}
Items == {"id", "secret", "token"}

\* Two values that were given; either may be missing.
Pairs == [id : Logins \cup {NoLogin}, secret : Logins \cup {NoLogin}]
NoPair == [id |-> NoLogin, secret |-> NoLogin]
PairOf(login) == [id |-> login, secret |-> login]

Tokens == [of : Logins, by : Procs \cup {Earlier}]
NoToken == [of |-> NoLogin, by |-> Earlier]
TokenOf(login, by) == [of |-> login, by |-> by]

Ends == {"running", "ok", "error", "format", "killed"}
ASSUME EndsAssumption == Ends \cap (Logins \cup {NoLogin}) = {}

Init ==
  /\ command \in [Procs -> Commands]
  /\ pc = [p \in Procs |-> "start"]
  /\ creds = [p \in Procs |-> NoPair]
  /\ mem = [p \in Procs |-> NoToken]
  /\ standing \in Logins \cup {Out}
  /\ keyring = IF standing = Out THEN NoPair ELSE PairOf(standing)
  /\ file \in {NoToken} \cup {TokenOf(l, Earlier) : l \in {standing} \cap Logins}
  /\ expired = {}
  /\ warned = [p \in Procs |-> FALSE]
  /\ outcome = [p \in Procs |-> "running"]
  /\ accepted = {standing} \cap Logins
  /\ wrote = [p \in Procs |-> {}]
  /\ disturbed = [p \in Procs |-> {}]
  /\ basis = [p \in Procs |-> Unclear]

----------------------------------------------------------------------------

stores == <<keyring, file>>
notes == <<accepted, wrote, disturbed, standing, basis>>

Goto(p, label) == pc' = [pc EXCEPT ![p] = label]
Running(p, label) == pc[p] = label /\ UNCHANGED <<command, expired>>
End(p, how) == Goto(p, "done") /\ outcome' = [outcome EXCEPT ![p] = how]

\* What is known of the login that stands; who started from another one has
\* nothing to go by any more.
Stands(login) ==
  /\ standing' = login
  /\ basis' = [p \in Procs |-> IF basis[p] = login THEN login ELSE Unclear]

\* p has written an item, and a token for the login that stands is no change.
Written(p, item, same) ==
  /\ wrote' = [wrote EXCEPT ![p] = @ \cup {item}]
  /\ disturbed' = [q \in Procs |-> IF q = p THEN disturbed[q] \ {item}
                                            ELSE disturbed[q] \cup {item}]
  /\ IF same THEN UNCHANGED <<standing, basis>> ELSE Stands(Unclear)
  /\ UNCHANGED accepted

\* A bare --csv, a configuration that does not load, an unknown environment.
Refuse(p) ==
  /\ Running(p, "start")
  /\ End(p, "error")
  /\ UNCHANGED <<creds, mem, stores, warned, notes>>

\* The configuration is read once, when the command starts.
Load(p) ==
  /\ Running(p, "start")
  /\ mem' = [mem EXCEPT ![p] = file]
  /\ basis' = [basis EXCEPT ![p] = standing]
  /\ Goto(p, IF command[p] = "logout" THEN "deleteid" ELSE "loaded")
  /\ UNCHANGED <<creds, stores, warned, outcome, accepted, wrote, disturbed, standing>>

\* ZR_CLIENT_ID and ZR_CLIENT_SECRET count only together.
EnvCredentials(variables) ==
  IF NoLogin \in {variables.id, variables.secret} THEN NoPair ELSE variables

\* Flags before variables; what is missing is asked for at a terminal.
Filled(flag, variable, typed) ==
  IF flag # NoLogin THEN {flag} ELSE IF variable # NoLogin THEN {variable} ELSE typed

\* Mutant: the credentials are stored before they are tried.
Untried == "setid"
AfterResolve == "post"

\* An empty line is a secret, but not an id.
Resolve(p) ==
  /\ command[p] = "login" /\ Running(p, "loaded")
  /\ \E flags, variables \in Pairs :
       LET env == EnvCredentials(variables) IN
       \E id \in Filled(flags.id, env.id, Logins),
          secret \in Filled(flags.secret, env.secret, Logins \cup {NoLogin}) :
         creds' = [creds EXCEPT ![p] = [id |-> id, secret |-> secret]]
  /\ Goto(p, AfterResolve)
  /\ UNCHANGED <<mem, stores, warned, outcome, notes>>

\* Something is missing and there is no terminal, or its input ends.
CannotAsk(p) ==
  /\ command[p] = "login" /\ Running(p, "loaded")
  /\ End(p, "error")
  /\ UNCHANGED <<creds, mem, stores, warned, notes>>

----------------------------------------------------------------------------
(* Getting a token.                                                        *)

\* Mutant: an environment without a token has a valid one.
NotExpired(t) == t.by \notin expired
IsValid(t) == t # NoToken /\ t.by \notin expired

CacheHit(p) ==
  /\ command[p] = "token" /\ Running(p, "loaded")
  /\ IsValid(mem[p])
  /\ End(p, mem[p].of)
  /\ UNCHANGED <<creds, mem, stores, warned, notes>>

\* The variables stand in for the keyring, and the command does not depend on
\* who is logged in.
UseVariables(p) ==
  /\ command[p] = "token" /\ Running(p, "loaded")
  /\ ~ IsValid(mem[p])
  /\ \E variables \in Pairs :
       /\ EnvCredentials(variables) # NoPair
       /\ creds' = [creds EXCEPT ![p] = EnvCredentials(variables)]
  /\ basis' = [basis EXCEPT ![p] = Unclear]
  /\ Goto(p, "post")
  /\ UNCHANGED <<mem, stores, warned, outcome, accepted, wrote, disturbed, standing>>

UseKeyring(p) ==
  /\ command[p] = "token" /\ Running(p, "loaded")
  /\ ~ IsValid(mem[p])
  /\ Goto(p, "getid")
  /\ UNCHANGED <<creds, mem, stores, warned, outcome, notes>>

GetId(p) ==
  /\ Running(p, "getid")
  /\ keyring.id # NoLogin
  /\ creds' = [creds EXCEPT ![p].id = keyring.id]
  /\ Goto(p, "getsecret")
  /\ UNCHANGED <<mem, stores, warned, outcome, notes>>

GetSecret(p) ==
  /\ Running(p, "getsecret")
  /\ keyring.secret # NoLogin
  /\ creds' = [creds EXCEPT ![p].secret = keyring.secret]
  /\ Goto(p, "post")
  /\ UNCHANGED <<mem, stores, warned, outcome, notes>>

\* The item is not there, or the keyring is not.
GetFails(p) ==
  /\ \E label \in {"getid", "getsecret"} : Running(p, label)
  /\ End(p, "error")
  /\ UNCHANGED <<creds, mem, stores, warned, notes>>

\* The server knows the pair and issues a token, which goes into the
\* configuration in memory.
Post(p) ==
  /\ Running(p, "post")
  /\ creds[p].id = creds[p].secret
  /\ mem' = [mem EXCEPT ![p] = TokenOf(creds[p].id, p)]
  /\ accepted' = accepted \cup {creds[p].id}
  /\ Goto(p, "save")
  /\ UNCHANGED <<creds, stores, warned, outcome, wrote, disturbed, standing, basis>>

\* The server refuses, or there is no usable answer.
PostFails(p) ==
  /\ Running(p, "post")
  /\ End(p, "error")
  /\ UNCHANGED <<creds, mem, stores, warned, notes>>

----------------------------------------------------------------------------
(* Writing the stores.                                                     *)

\* Save writes tokens.yml; what else it writes is ConfigStore.
Save(p) ==
  /\ Running(p, "save")
  /\ file' = mem[p]
  /\ Written(p, "token", command[p] = "token" /\ mem[p].of = standing)
  /\ \/ command[p] = "login" /\ Goto(p, "setid") /\ UNCHANGED outcome
     \/ command[p] = "logout" /\ Goto(p, "finish") /\ UNCHANGED outcome
     \/ command[p] = "token" /\ End(p, mem[p].of)
  /\ UNCHANGED <<creds, mem, keyring, warned>>

SaveFails(p) ==
  /\ Running(p, "save")
  /\ End(p, "error")
  /\ UNCHANGED <<creds, mem, stores, warned, notes>>

\* keyringStore.Set, the id first.
SetId(p) ==
  /\ Running(p, "setid")
  /\ keyring' = [keyring EXCEPT !.id = creds[p].id]
  /\ Written(p, "id", FALSE)
  /\ Goto(p, "setsecret")
  /\ UNCHANGED <<creds, mem, file, warned, outcome>>

SetSecret(p) ==
  /\ Running(p, "setsecret")
  /\ keyring' = [keyring EXCEPT !.secret = creds[p].secret]
  /\ Written(p, "secret", FALSE)
  /\ Goto(p, "finish")
  /\ UNCHANGED <<creds, mem, file, warned, outcome>>

Warn(p) == warned' = [warned EXCEPT ![p] = TRUE]

\* Login warns and goes on: it has its token.
SetFails(p) ==
  /\ \E label \in {"setid", "setsecret"} : Running(p, label)
  /\ Warn(p)
  /\ Goto(p, "finish")
  /\ UNCHANGED <<creds, mem, stores, outcome, notes>>

\* Mutant: the token stays.
KeepToken(p) == mem
RemoveToken(p) == [mem EXCEPT ![p] = NoToken]

\* keyringStore.Delete tries both items, whether or not they are there.
DeleteId(p) ==
  /\ Running(p, "deleteid")
  /\ keyring' = [keyring EXCEPT !.id = NoLogin]
  /\ Written(p, "id", FALSE)
  /\ Goto(p, "deletesecret")
  /\ UNCHANGED <<creds, mem, file, warned, outcome>>

DeleteSecret(p) ==
  /\ Running(p, "deletesecret")
  /\ keyring' = [keyring EXCEPT !.secret = NoLogin]
  /\ Written(p, "secret", FALSE)
  /\ mem' = RemoveToken(p)
  /\ Goto(p, "save")
  /\ UNCHANGED <<creds, file, warned, outcome>>

DeleteIdFails(p) ==
  /\ Running(p, "deleteid")
  /\ Warn(p)
  /\ Goto(p, "deletesecret")
  /\ UNCHANGED <<creds, mem, stores, outcome, notes>>

DeleteSecretFails(p) ==
  /\ Running(p, "deletesecret")
  /\ Warn(p)
  /\ mem' = RemoveToken(p)
  /\ Goto(p, "save")
  /\ UNCHANGED <<creds, stores, outcome, notes>>

\* A login or logout that went through, and that nobody has interfered with,
\* stands from here on.  An expression for --jq that does not parse is found
\* only now.
Finish(p) ==
  /\ Running(p, "finish")
  /\ \E how \in {"ok", "format"} : End(p, how)
  /\ IF warned[p] \/ disturbed[p] # {} THEN UNCHANGED <<standing, basis>>
     ELSE Stands(IF command[p] = "login" THEN creds[p].id ELSE Out)
  /\ UNCHANGED <<creds, mem, stores, warned, accepted, wrote, disturbed>>

----------------------------------------------------------------------------

\* A signal, or the machine stops.
Kill(p) ==
  /\ pc[p] # "done" /\ UNCHANGED <<command, expired>>
  /\ End(p, "killed")
  /\ UNCHANGED <<creds, mem, stores, warned, notes>>

\* A token somebody holds expires.
Expire(by) ==
  /\ by \notin expired
  /\ \E t \in {file} \cup {mem[p] : p \in Procs} : t # NoToken /\ t.by = by
  /\ expired' = expired \cup {by}
  /\ UNCHANGED <<command, pc, creds, mem, stores, warned, outcome, notes>>

Step(p) ==
  \/ Refuse(p) \/ Load(p) \/ Resolve(p) \/ CannotAsk(p)
  \/ CacheHit(p) \/ UseVariables(p) \/ UseKeyring(p)
  \/ GetId(p) \/ GetSecret(p) \/ GetFails(p) \/ Post(p) \/ PostFails(p)
  \/ Save(p) \/ SaveFails(p) \/ SetId(p) \/ SetSecret(p) \/ SetFails(p)
  \/ DeleteId(p) \/ DeleteSecret(p) \/ DeleteIdFails(p) \/ DeleteSecretFails(p)
  \/ Finish(p) \/ Kill(p)

Next ==
  \/ \E p \in Procs : Step(p)
  \/ \E by \in Procs \cup {Earlier} : Expire(by)

Spec == Init /\ [][Next]_vars

----------------------------------------------------------------------------
(* Properties.                                                             *)

TypeOK ==
  /\ command \in [Procs -> Commands]
  /\ pc \in [Procs -> PCs]
  /\ creds \in [Procs -> Pairs]
  /\ mem \in [Procs -> Tokens \cup {NoToken}]
  /\ keyring \in Pairs
  /\ file \in Tokens \cup {NoToken}
  /\ expired \subseteq Procs \cup {Earlier}
  /\ warned \in [Procs -> BOOLEAN]
  /\ outcome \in [Procs -> Ends \cup Logins]
  /\ accepted \subseteq Logins
  /\ wrote \in [Procs -> SUBSET Items]
  /\ disturbed \in [Procs -> SUBSET Items]
  /\ standing \in Logins \cup {Out, Unclear}
  /\ basis \in [Procs -> Logins \cup {Out, Unclear}]

\* No store ever holds a value the server has not accepted as part of a pair,
\* and a command that ends in an error of its login has written to none: by
\* whomever, whenever it is killed and whatever fails.
InvalidNeverStored ==
  /\ {keyring.id, keyring.secret, file.of} \subseteq accepted \cup {NoLogin}
  /\ \A p \in Procs : (command[p] = "login" /\ outcome[p] = "error") => wrote[p] = {}

\* Once a login or a logout has gone through without a warning, and until
\* somebody else writes to a store, a command that starts acts for that login,
\* and for nobody after a logout, however tokens expire; variables that name
\* other credentials excepted.
LaterCommandsFollow ==
  \A p \in Procs :
    (basis[p] # Unclear /\ outcome[p] \in Logins) => outcome[p] = basis[p]

\* "Credentials are validated by fetching a token first (invalid credentials
\* are never stored)" (README.md:177): when no command is in between, and none
\* was killed, a pair in the keyring is one the server takes.
StoredPairIsValid ==
  (\A p \in Procs : pc[p] = "done" /\ outcome[p] # "killed") =>
    (NoLogin \in {keyring.id, keyring.secret} \/ keyring.id = keyring.secret)
===============================================================================
