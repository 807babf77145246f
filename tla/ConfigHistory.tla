---------------------------- MODULE ConfigHistory ----------------------------
(***************************************************************************)
(* ConfigStore with a history of what a reader could have found in each    *)
(* file, and how it implements SettingsHistory.                            *)
(***************************************************************************)
EXTENDS ConfigStore

VARIABLE seen       \* seen[f]: the contents of f so far (history)

KeysIn == [f \in Files |-> {k \in Keys : FileOf[k] = f}]

\* What a process that loads now would use of file f.
Content(f) == [k \in KeysIn[f] |-> View(k)]

HInit == Init /\ seen = [f \in Files |-> {Content(f)}]
Remember ==
    seen' = IF disk' = disk THEN seen ELSE [f \in Files |-> seen[f] \cup {Content(f)'}]
HNext == Next /\ Remember
HSpec == HInit /\ [][HNext]_<<vars, seen>>

-----------------------------------------------------------------------------

Edit(c) == [key |-> c.key, value |-> Shown(c), needs |-> c.needs]

History == INSTANCE SettingsHistory
    WITH Missing <- Unset,
         Edits <- {Edit(c) : c \in Changes},
         shown <- [f \in Files |-> Content(f)],
         readable <- [f \in Files |-> Parses(f)]

\* No mixture and no invention: whatever writers, failures and power losses do
\* to each other, every content of a file (internal/config/file_config.go,
\* pkg/cmd/alias/alias_store.go) is an earlier one, or an earlier one with the
\* one change a setter was asked for, whose precondition held of a content
\* that was there; no file becomes unreadable, or readable again.
KeepsHistory == History!Spec
=============================================================================
