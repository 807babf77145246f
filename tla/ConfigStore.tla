----------------------------- MODULE ConfigStore -----------------------------
(***************************************************************************)
(* The configuration directory: files that a `zr` process loads whole when *)
(* it first needs them, changes in memory and writes back whole, with no   *)
(* lock between processes.  A process works on the three files of the      *)
(* configuration (internal/config/file_config.go), or on the aliases       *)
(* (pkg/cmd/alias/alias_store.go).                                         *)
(*                                                                         *)
(* A setting is a key: the active environment, the URL of an environment,  *)
(* the token of an environment, an alias.  A file is a document that gives *)
(* values to its keys; what it does not say is decided by the defaults.    *)
(***************************************************************************)
EXTENDS Naturals, Sequences

CONSTANTS Procs,      \* the processes
          Orders,     \* the files a process works on, in the order load reads
                      \* and Save writes them
          FileOf,     \* FileOf[k]: the file that holds key k
          Values,     \* what keys are set to
          Unset,      \* a key a document says nothing about
          Default,    \* Default[k]: what a process uses then
          Changes,    \* what the setters may be asked: [key, value, needs]
          NoKey,      \* a setter without precondition
          MaxSaves    \* bound on the changes one process makes

FilesIn(o) == {o[i] : i \in 1..Len(o)}
Files == UNION {FilesIn(o) : o \in Orders}
Keys == DOMAIN FileOf
Setting == Values \cup {Unset}
Change == [key: Keys, value: Setting, needs: Keys \cup {NoKey}]

ASSUME FilesAssumption ==
    /\ \A o \in Orders : o \in Seq(Files) /\ Len(o) > 0
    /\ FileOf \in [Keys -> Files]
ASSUME ValuesAssumption ==
    /\ Unset \notin Values /\ NoKey \notin Keys
    /\ Default \in [Keys -> Setting]
    /\ Changes \subseteq Change
ASSUME MaxSavesAssumption == MaxSaves \in Nat

VARIABLES
    order,      \* order[p]: the files process p works on
    pc,         \* pc[p]: what process p is doing
    at,         \* at[p]: index of the file it reads or writes
    snapshot,   \* snapshot[p]: the settings in its memory
    change,     \* change[p]: the setter it called last
    temp,       \* temp[p]: its temp file
    saves,      \* saves[p]: setters it called
    disk,       \* disk[f]: what a reader of file f finds
    durable,    \* durable[f]: what of it would survive a power loss
    fragile,    \* files renamed into place before their data was synced
    disturbed   \* disturbed[p]: files replaced by others since p read or
                \* wrote them (history)

vars == <<order, pc, at, snapshot, change, temp, saves, disk, durable, fragile, disturbed>>

PCs == {"load", "ready", "save", "saved", "failed", "crashed"}

\* CreateTemp, Write and Sync in AtomicWriteFile.
Temps == {"none", "created", "written", "synced"}

Document == [Keys -> Setting]
Empty == [k \in Keys |-> Unset]

\* broken: a file a hand edit has left unparsable; torn: one that a crash has.
File == [state: {"absent", "whole", "broken", "torn"}, doc: Document]
Absent == [state |-> "absent", doc |-> Empty]
Broken == [state |-> "broken", doc |-> Empty]
Torn == [state |-> "torn", doc |-> Empty]

NoChange == [key |-> NoKey, value |-> Unset, needs |-> NoKey]

TypeOK ==
    /\ order \in [Procs -> Orders]
    /\ pc \in [Procs -> PCs]
    /\ at \in [Procs -> Nat] /\ \A p \in Procs : at[p] \in 1..Len(order[p])
    /\ snapshot \in [Procs -> Document]
    /\ change \in [Procs -> Change \cup {NoChange}]
    /\ temp \in [Procs -> Temps]
    /\ saves \in [Procs -> 0..MaxSaves]
    /\ disk \in [Files -> File]
    /\ durable \in [Files -> File]
    /\ fragile \subseteq Files
    /\ disturbed \in [Procs -> SUBSET Files]

\* The directory is new, or a user has edited one of its files by hand.
Init ==
    /\ order \in [Procs -> Orders]
    /\ pc = [p \in Procs |-> "load"]
    /\ at = [p \in Procs |-> 1]
    /\ snapshot = [p \in Procs |-> Default]
    /\ change = [p \in Procs |-> NoChange]
    /\ temp = [p \in Procs |-> "none"]
    /\ saves = [p \in Procs |-> 0]
    /\ disk \in {[f \in Files |-> IF f \in bad THEN Broken ELSE Absent] :
                    bad \in {{}} \cup {{f} : f \in Files}}
    /\ durable = disk
    /\ fragile = {}
    /\ disturbed = [p \in Procs |-> {}]

-----------------------------------------------------------------------------

FilesOf(p) == FilesIn(order[p])
FileAt(p) == order[p][at[p]]

\* Mutant: the loop runs past the last file.
PastLastFile(p) == at[p] > Len(order[p])
LastFile(p) == at[p] = Len(order[p])

\* What a process that loads now would use for key k: a document is decoded
\* over the defaults.
View(k) ==
    LET doc == disk[FileOf[k]].doc
    IN  IF doc[k] = Unset THEN Default[k] ELSE doc[k]

\* The loop over the files has another turn, or ends in label.
Advance(p, label) ==
    IF LastFile(p)
    THEN /\ pc' = [pc EXCEPT ![p] = label]
         /\ at' = [at EXCEPT ![p] = 1]
    ELSE /\ at' = [at EXCEPT ![p] = @ + 1]
         /\ UNCHANGED pc

files == <<disk, durable, fragile>>

\* Mutant: a file that does not parse counts as absent.
AlwaysParses(f) == TRUE
Parses(f) == disk[f].state \in {"absent", "whole"}

Read(p) ==
    /\ pc[p] = "load"
    /\ Parses(FileAt(p))
    /\ snapshot' = [snapshot EXCEPT ![p] =
            [k \in Keys |-> IF FileOf[k] = FileAt(p) THEN View(k) ELSE @[k]]]
    /\ disturbed' = [disturbed EXCEPT ![p] = @ \ {FileAt(p)}]
    /\ Advance(p, "ready")
    /\ UNCHANGED <<order, change, temp, saves, files>>

\* The file cannot be read or does not parse: the command ends.
ReadFails(p) ==
    /\ pc[p] = "load"
    /\ pc' = [pc EXCEPT ![p] = "failed"]
    /\ UNCHANGED <<order, at, snapshot, change, temp, saves, files, disturbed>>

\* The setter's own check against the snapshot.
Accepts(p, c) == c.needs # NoKey => snapshot[p][c.needs] # Unset

\* Mutant: removing one entry clears the whole file.
ClearFile(p, c) ==
    [k \in Keys |-> IF k = c.key THEN c.value
                    ELSE IF c.value = Unset /\ FileOf[k] = FileOf[c.key] THEN Unset
                    ELSE snapshot[p][k]]
Updated(p, c) == [snapshot[p] EXCEPT ![c.key] = c.value]

\* A setter and the call of Save that follows it.
Set(p) ==
    /\ pc[p] \in {"ready", "saved"}
    /\ saves[p] < MaxSaves
    /\ \E c \in Changes :
        /\ FileOf[c.key] \in FilesOf(p) /\ Accepts(p, c)
        /\ snapshot' = [snapshot EXCEPT ![p] = Updated(p, c)]
        /\ change' = [change EXCEPT ![p] = c]
    /\ pc' = [pc EXCEPT ![p] = "save"]
    /\ saves' = [saves EXCEPT ![p] = @ + 1]
    /\ UNCHANGED <<order, at, temp, files, disturbed>>

\* The setter returned an error (an unknown environment, an invalid value):
\* nothing is saved.
Refuse(p) ==
    /\ pc[p] \in {"ready", "saved"}
    /\ pc' = [pc EXCEPT ![p] = "failed"]
    /\ UNCHANGED <<order, at, snapshot, change, temp, saves, files, disturbed>>

-----------------------------------------------------------------------------
(* Save: AtomicWriteFile for each file in turn.                            *)

CreateTemp(p) ==
    /\ pc[p] = "save" /\ temp[p] = "none"
    /\ temp' = [temp EXCEPT ![p] = "created"]
    /\ UNCHANGED <<order, pc, at, snapshot, change, saves, files, disturbed>>

Write(p) ==
    /\ pc[p] = "save" /\ temp[p] = "created"
    /\ temp' = [temp EXCEPT ![p] = "written"]
    /\ UNCHANGED <<order, pc, at, snapshot, change, saves, files, disturbed>>

Sync(p) ==
    /\ pc[p] = "save" /\ temp[p] = "written"
    /\ temp' = [temp EXCEPT ![p] = "synced"]
    /\ UNCHANGED <<order, pc, at, snapshot, change, saves, files, disturbed>>

\* Mutant: the temp file is renamed without fsync.
RenameUnsynced(p) == temp[p] = "written"
MayRename(p) == temp[p] = "synced"

Marshalled(p) ==
    [state |-> "whole",
     doc |-> [k \in Keys |-> IF FileOf[k] = FileAt(p) THEN snapshot[p][k] ELSE Unset]]

Rename(p) ==
    /\ pc[p] = "save" /\ MayRename(p)
    /\ disk' = [disk EXCEPT ![FileAt(p)] = Marshalled(p)]
    /\ fragile' = IF temp[p] = "synced" THEN fragile \ {FileAt(p)}
                  ELSE fragile \cup {FileAt(p)}
    /\ temp' = [temp EXCEPT ![p] = "none"]
    /\ disturbed' = [q \in Procs |-> IF q = p THEN disturbed[q] \ {FileAt(p)}
                                     ELSE disturbed[q] \cup {FileAt(p)}]
    /\ Advance(p, "saved")
    /\ UNCHANGED <<order, snapshot, change, saves, durable>>

\* A full disk, a directory that cannot be written: the temp file is removed,
\* files already renamed stay.  Mutant: the error of the last file is dropped.
FailsUnlessLast(p) ==
    pc' = [pc EXCEPT ![p] = IF LastFile(p) THEN "saved" ELSE "failed"]
Fails(p) == pc' = [pc EXCEPT ![p] = "failed"]

SaveFails(p) ==
    /\ pc[p] = "save"
    /\ Fails(p)
    /\ temp' = [temp EXCEPT ![p] = "none"]
    /\ at' = [at EXCEPT ![p] = 1]
    /\ UNCHANGED <<order, snapshot, change, saves, files, disturbed>>

-----------------------------------------------------------------------------
(* Crashes.                                                                *)

Running(p) == pc[p] \notin {"failed", "crashed"}
Started(p) == pc[p] # "load" \/ at[p] # 1

\* The process is killed; its temp file stays.
Crash(p) ==
    /\ Running(p) /\ Started(p)
    /\ pc' = [pc EXCEPT ![p] = "crashed"]
    /\ UNCHANGED <<order, at, snapshot, change, temp, saves, files, disturbed>>

\* The kernel writes the directory back, in its own time: the directory is
\* not synced after a rename.  Of a file renamed before its data was synced
\* the name may arrive first.
WriteBack(f) ==
    /\ durable' = [durable EXCEPT ![f] = IF f \in fragile THEN Torn ELSE disk[f]]
    /\ UNCHANGED <<order, pc, at, snapshot, change, temp, saves, disk, fragile, disturbed>>

PowerLoss ==
    /\ disk' = durable
    /\ pc' = [p \in Procs |-> IF Started(p) THEN "crashed" ELSE pc[p]]
    /\ fragile' = {}
    /\ disturbed' = [p \in Procs |-> Files]
    /\ UNCHANGED <<order, at, snapshot, change, temp, saves, durable>>

-----------------------------------------------------------------------------

Step(p) ==
    \/ Read(p) \/ ReadFails(p) \/ Set(p) \/ Refuse(p)
    \/ CreateTemp(p) \/ Write(p) \/ Sync(p) \/ Rename(p) \/ SaveFails(p)
    \/ Crash(p)

Next ==
    \/ \E p \in Procs : Step(p)
    \/ \E f \in Files : WriteBack(f)
    \/ PowerLoss

Spec == Init /\ [][Next]_vars

-----------------------------------------------------------------------------
(* Properties.                                                             *)

\* No crash, failure or concurrent writer leaves a truncated file: what a
\* reader finds, now or after a power loss, was written whole.
FilesWhole == \A f \in Files : disk[f].state # "torn" /\ durable[f].state # "torn"

\* A file nobody could parse is never written over: neither with the defaults
\* nor with anything else.
BrokenStays == \A f \in Files : disk[f] = Broken => disk'[f] = Broken
BrokenKept == [][BrokenStays]_vars

\* Save rewrites all its files, yet what the others read changes in one key
\* only: replacing a file nobody else replaced since p read or wrote it, p
\* changes no setting but the one its setter was asked to change.  A Save that
\* fails or is killed half way therefore leaves no mixture.
RenameBy(p) == disk' # disk /\ temp[p] = "synced" /\ temp'[p] = "none"
Unstale(p) == FileAt(p) \notin disturbed[p]
ChangesOwnKeyOnly ==
    \A p \in Procs :
        (RenameBy(p) /\ Unstale(p)) =>
            \A k \in Keys \ {change[p].key} : View(k)' = View(k)
OwnChangeOnly == [][ChangesOwnKeyOnly]_vars

\* A Save that reported success has made the change visible, until another
\* process or a power loss replaces the file.  (An entry that was removed
\* reads as its default again, so a built-in environment cannot be removed.)
Shown(c) == IF c.value = Unset THEN Default[c.key] ELSE c.value
SavedIsSeen ==
    \A p \in Procs :
        (pc[p] = "saved" /\ FileOf[change[p].key] \notin disturbed[p])
            => View(change[p].key) = Shown(change[p])
=============================================================================
