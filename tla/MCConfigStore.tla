---------------------------- MODULE MCConfigStore ----------------------------
(***************************************************************************)
(* Instances of ConfigStore for TLC: the three files of the configuration, *)
(* with one built-in environment and one of the user's, and the aliases.   *)
(***************************************************************************)
EXTENDS ConfigHistory, TLC

CONSTANTS p, q,         \* processes
          Sandbox,      \* built in, and active by default
          Tenant,       \* an environment the user may add
          url, tok,     \* a base URL, a token
          ls, inv,      \* names of aliases
          words         \* what an alias stands for

ThreeFiles == <<"config.yml", "environments.yml", "tokens.yml">>
ConfigOrAliases == {ThreeFiles, <<"aliases.yml">>}
ConfigOnly == {ThreeFiles}

Active == <<"config.yml", "active_environment">>
Env(e) == <<"environments.yml", e>>
TokenOf(e) == <<"tokens.yml", e>>
Alias(n) == <<"aliases.yml", n>>

ConfigKeys == {Active} \cup {Env(e) : e \in {Sandbox, Tenant}}
              \cup {TokenOf(e) : e \in {Sandbox, Tenant}}
AllKeys == ConfigKeys \cup {Alias(n) : n \in {ls, inv}}

FileOfKey == [k \in AllKeys |-> k[1]]
Defaults == [k \in AllKeys |-> IF k = Active THEN Sandbox
                               ELSE IF k = Env(Sandbox) THEN url ELSE Unset]

SomeValues == {Sandbox, Tenant, url, tok, words}

\* config env, config set active_environment
Use(e) == [key |-> Active, value |-> e, needs |-> Env(e)]
\* AddEnvironment, RemoveEnvironment
Add(e) == [key |-> Env(e), value |-> url, needs |-> NoKey]
Remove(e) == [key |-> Env(e), value |-> Unset, needs |-> Env(e)]
\* A token refresh or login, a logout.
Login(e) == [key |-> TokenOf(e), value |-> tok, needs |-> Env(e)]
Logout(e) == [key |-> TokenOf(e), value |-> Unset, needs |-> NoKey]
\* alias set, alias delete
SetAlias(n) == [key |-> Alias(n), value |-> words, needs |-> NoKey]
DeleteAlias(n) == [key |-> Alias(n), value |-> Unset, needs |-> Alias(n)]

AllChanges == {Use(Tenant), Add(Tenant), Remove(Tenant), Remove(Sandbox),
               Login(Sandbox), Login(Tenant), Logout(Sandbox),
               SetAlias(ls), SetAlias(inv), DeleteAlias(ls)}

\* A switch of the active environment beside a token refresh.
SwitchAndRefresh == {Use(Tenant), Login(Sandbox)}
ConfigFileOfKey == [k \in ConfigKeys |-> k[1]]
DefaultsWithTenant == [k \in ConfigKeys |-> IF k = Env(Tenant) THEN url ELSE Defaults[k]]

Symmetry == Permutations(Procs)

\* "Select an environment ... persistently with `zr config set
\* active_environment <name>` / `zr config env <name>`" (README): the selection
\* stays until somebody selects another one.
SelectionPersists ==
    \A r \in Procs :
        (/\ pc[r] = "saved" /\ change[r].key = Active
         /\ \A s \in Procs : change[s].key = Active => s = r
         /\ \A s \in Procs : pc[s] # "crashed")
            => View(Active) = change[r].value
=============================================================================
