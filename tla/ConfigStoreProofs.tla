-------------------------- MODULE ConfigStoreProofs --------------------------
(***************************************************************************)
(* What TLAPS proves of ConfigStore, for any number of processes, files,   *)
(* settings and changes.                                                   *)
(***************************************************************************)
EXTENDS ConfigHistory, TLAPS

-----------------------------------------------------------------------------
(* The inductive invariant.                                                *)

\* Only synced data is ever renamed into place.
WholeInv == FilesWhole /\ fragile = {}

Loaded(p) == pc[p] \in {"ready", "save", "saved"}

\* The files p has behind it in the loop over them.
Past(p, f) == \E i \in 1..(at[p] - 1) : order[p][i] = f

\* Whoever loaded a file found it readable, and it still is; a power loss does
\* not bring an unreadable one back.
BrokenInv ==
    /\ \A f \in Files : disk[f] = Broken <=> durable[f] = Broken
    /\ \A p \in Procs : Loaded(p) => \A f \in FilesOf(p) : disk[f] # Broken
    /\ \A p \in Procs : pc[p] = "load" =>
        \A f \in FilesOf(p) : Past(p, f) => disk[f] # Broken

\* The loop of Save starts at the first file, with the change in memory.
ChangeInv ==
    \A p \in Procs :
        /\ pc[p] \in {"ready", "saved"} => at[p] = 1
        /\ pc[p] \in {"save", "saved"} =>
            /\ change[p] \in Change /\ FileOf[change[p].key] \in FilesOf(p)
            /\ snapshot[p][change[p].key] = change[p].value

\* What p itself would use for key k.
Held(p, k) == IF snapshot[p][k] = Unset THEN Default[k] ELSE snapshot[p][k]

Agrees(p, k) == FileOf[k] \notin disturbed[p] => Held(p, k) = View(k)

\* Memory and file agree on what nobody else replaced, but for the change
\* that is being saved.
AgreeInv ==
    \A p \in Procs : \A k \in {l \in Keys : FileOf[l] \in FilesOf(p)} :
        /\ pc[p] = "load" /\ Past(p, FileOf[k]) => Agrees(p, k)
        /\ pc[p] \in {"ready", "saved"} => Agrees(p, k)
        /\ pc[p] = "save" /\ (Past(p, FileOf[k]) \/ k # change[p].key) => Agrees(p, k)

IInv == TypeOK /\ WholeInv /\ BrokenInv /\ ChangeInv /\ AgreeInv

-----------------------------------------------------------------------------
(* The loops over the files.                                               *)

\* A process works on files, on at least one, and is at one of them.
LEMMA OrderType ==
    ASSUME TypeOK, NEW p \in Procs
    PROVE  /\ Len(order[p]) \in Nat /\ Len(order[p]) > 0 /\ at[p] \in 1..Len(order[p])
           /\ FilesOf(p) \subseteq Files
           /\ FileAt(p) \in FilesOf(p)
<1>1. order[p] \in Orders /\ at[p] \in 1..Len(order[p])
  BY DEF TypeOK
<1>2. order[p] \in Seq(Files) /\ Len(order[p]) > 0
  BY <1>1, FilesAssumption
<1>3. Len(order[p]) \in Nat
  BY <1>2
<1>4. FilesOf(p) \subseteq Files
  BY <1>1 DEF FilesOf, Files
<1>5. FileAt(p) \in FilesOf(p)
  BY <1>1 DEF FileAt, FilesOf, FilesIn
<1>6. QED
  BY <1>1, <1>2, <1>3, <1>4, <1>5

\* It works on the same files all along.
LEMMA OrderKept ==
    ASSUME [Next]_vars
    PROVE  order' = order
<1>1. ASSUME NEW p \in Procs, Step(p) PROVE order' = order
  BY <1>1 DEF Step, Read, ReadFails, Set, Refuse, CreateTemp, Write, Sync, Rename, SaveFails, Crash
<1>2. ASSUME NEW f \in Files, WriteBack(f) PROVE order' = order
  BY <1>2 DEF WriteBack
<1>3. CASE PowerLoss
  BY <1>3 DEF PowerLoss
<1>4. CASE UNCHANGED vars
  BY <1>4 DEF vars
<1>5. QED
  BY <1>1, <1>2, <1>3, <1>4 DEF Next

\* A loop that advances keeps its index in range.  If it ends, every file is
\* behind it; if not, one more is.
LEMMA AdvanceLoop ==
    ASSUME TypeOK, NEW p \in Procs, NEW label \in PCs, Advance(p, label),
           NEW f \in FilesOf(p), UNCHANGED order
    PROVE  /\ pc' \in [Procs -> PCs] /\ at' \in [Procs -> Nat]
           /\ \A q \in Procs : at'[q] \in 1..Len(order[q])
           /\ \A q \in Procs : q # p => pc'[q] = pc[q] /\ at'[q] = at[q]
           /\ \/ /\ pc'[p] = label /\ at'[p] = 1
                 /\ f = FileAt(p) \/ Past(p, f)
              \/ /\ pc'[p] = pc[p] /\ at'[p] = at[p] + 1
                 /\ Past(p, f)' <=> (f = FileAt(p) \/ Past(p, f))
<1>1. Len(order[p]) \in Nat /\ Len(order[p]) > 0 /\ at[p] \in 1..Len(order[p])
  BY OrderType
<1>2. pc \in [Procs -> PCs] /\ at \in [Procs -> Nat] /\ \A q \in Procs : at[q] \in 1..Len(order[q])
  BY DEF TypeOK
<1>3. CASE LastFile(p)
  <2>1. pc' = [pc EXCEPT ![p] = label] /\ at' = [at EXCEPT ![p] = 1]
    BY <1>3 DEF Advance
  <2>2. PICK i \in 1..Len(order[p]) : order[p][i] = f
    BY DEF FilesOf, FilesIn
  <2>3. f = FileAt(p) \/ Past(p, f)
    BY <1>1, <1>3, <2>2 DEF Past, FileAt, LastFile
  <2>4. QED
    BY <1>1, <1>2, <2>1, <2>3
<1>4. CASE ~LastFile(p)
  <2>1. pc' = pc /\ at' = [at EXCEPT ![p] = @ + 1]
    BY <1>4 DEF Advance
  <2>2. at[p] + 1 \in 1..Len(order[p])
    BY <1>1, <1>4 DEF LastFile
  <2>3. at'[p] = at[p] + 1
    BY <1>2, <2>1
  <2>4. ASSUME Past(p, f)' PROVE f = FileAt(p) \/ Past(p, f)
    <3>1. PICK i \in 1..(at'[p] - 1) : order[p][i] = f
      BY <2>4 DEF Past
    <3>2. i \in 1..at[p]
      BY <1>1, <2>3, <3>1
    <3>3. QED
      BY <1>1, <3>1, <3>2 DEF Past, FileAt
  <2>5. ASSUME f = FileAt(p) \/ Past(p, f) PROVE Past(p, f)'
    <3>1. PICK i \in 1..at[p] : order[p][i] = f
      BY <1>1, <2>5 DEF Past, FileAt
    <3>2. i \in 1..(at'[p] - 1)
      BY <1>1, <2>3, <3>1
    <3>3. QED
      BY <3>1, <3>2 DEF Past
  <2>6. QED
    BY <1>2, <2>1, <2>2, <2>3, <2>4, <2>5
<1>5. QED
  BY <1>3, <1>4

-----------------------------------------------------------------------------
(* One lemma per part of the invariant: a step preserves it.               *)

\* A default or a document decides every key.
LEMMA ViewType ==
    ASSUME TypeOK, NEW k \in Keys
    PROVE  View(k) \in Setting
BY ValuesAssumption, FilesAssumption DEF View, TypeOK, File, Document

\* A step keeps every variable in its type.
LEMMA TypeStep ==
    ASSUME TypeOK, WholeInv, [Next]_vars
    PROVE  TypeOK'
<1> USE DEF TypeOK, files
<1>1. ASSUME NEW p \in Procs, Step(p) PROVE TypeOK'
  <2>1. CASE Read(p)
    <3>1. pc' \in [Procs -> PCs] /\ at' \in [Procs -> Nat] /\ \A q \in Procs : at'[q] \in 1..Len(order[q])
      <4>1. Advance(p, "ready") /\ "ready" \in PCs /\ FileAt(p) \in FilesOf(p) /\ UNCHANGED order
        BY <2>1, OrderType DEF Read, PCs
      <4>2. QED
        BY <4>1, AdvanceLoop
    <3>2. [k \in Keys |-> IF FileOf[k] = FileAt(p) THEN View(k) ELSE snapshot[p][k]] \in Document
      BY ViewType DEF Document
    <3>3. QED
      BY <2>1, <3>1, <3>2 DEF Read
  <2>2. CASE ReadFails(p)
    BY <2>2 DEF ReadFails, PCs
  <2>3. CASE Set(p)
    <3>1. PICK c \in Changes : /\ snapshot' = [snapshot EXCEPT ![p] = Updated(p, c)]
                                /\ change' = [change EXCEPT ![p] = c]
      BY <2>3 DEF Set
    <3>2. c \in Change
      BY ValuesAssumption
    <3>3. Updated(p, c) \in Document
      BY <3>2 DEF Updated, Document, Change
    <3>4. saves' \in [Procs -> 0..MaxSaves]
      BY <2>3, MaxSavesAssumption DEF Set
    <3>5. pc' \in [Procs -> PCs]
      BY <2>3 DEF Set, PCs
    <3>6. QED
      BY <2>3, <3>1, <3>2, <3>3, <3>4, <3>5 DEF Set
  <2>4. CASE Refuse(p)
    BY <2>4 DEF Refuse, PCs
  <2>5. CASE CreateTemp(p)
    BY <2>5 DEF CreateTemp, Temps
  <2>6. CASE Write(p)
    BY <2>6 DEF Write, Temps
  <2>7. CASE Sync(p)
    BY <2>7 DEF Sync, Temps
  <2>8. CASE Rename(p)
    <3>1. pc' \in [Procs -> PCs] /\ at' \in [Procs -> Nat] /\ \A q \in Procs : at'[q] \in 1..Len(order[q])
      <4>1. Advance(p, "saved") /\ "saved" \in PCs /\ FileAt(p) \in FilesOf(p) /\ UNCHANGED order
        BY <2>8, OrderType DEF Rename, PCs
      <4>2. QED
        BY <4>1, AdvanceLoop
    <3>2. FileAt(p) \in Files
      BY OrderType
    <3>3. [k \in Keys |-> IF FileOf[k] = FileAt(p) THEN snapshot[p][k] ELSE Unset] \in Document
      BY DEF Document, Setting
    <3>4. Marshalled(p) \in File
      BY <3>3 DEF Marshalled, File
    <3>5. disk' \in [Files -> File] /\ fragile' \subseteq Files /\ temp' \in [Procs -> Temps]
      BY <2>8, <3>2, <3>4 DEF Rename, Temps
    <3>6. disturbed' \in [Procs -> SUBSET Files]
      BY <2>8, <3>2 DEF Rename
    <3>7. QED
      BY <2>8, <3>1, <3>5, <3>6 DEF Rename
  <2>9. CASE SaveFails(p)
    <3>1. 1 \in 1..Len(order[p])
      BY OrderType
    <3>2. QED
      BY <2>9, <3>1 DEF SaveFails, PCs, Temps, Fails
  <2>10. CASE Crash(p)
    BY <2>10 DEF Crash, PCs
  <2>11. QED
    BY <1>1, <2>1, <2>2, <2>3, <2>4, <2>5, <2>6, <2>7, <2>8, <2>9, <2>10 DEF Step
<1>2. ASSUME NEW f \in Files, WriteBack(f) PROVE TypeOK'
  BY <1>2 DEF WriteBack, WholeInv
<1>3. CASE PowerLoss
  BY <1>3 DEF PowerLoss, PCs
<1>4. CASE UNCHANGED vars
  BY <1>4 DEF vars
<1>5. QED
  BY <1>1, <1>2, <1>3, <1>4 DEF Next

\* What is renamed was synced, so no file is ever torn.
LEMMA WholeStep ==
    ASSUME TypeOK, WholeInv, [Next]_vars
    PROVE  WholeInv'
<1> USE DEF WholeInv, FilesWhole, TypeOK, files
<1>1. ASSUME NEW p \in Procs, Step(p) PROVE WholeInv'
  <2>1. CASE Read(p)
    BY <2>1 DEF Read
  <2>2. CASE ReadFails(p)
    BY <2>2 DEF ReadFails
  <2>3. CASE Set(p)
    BY <2>3 DEF Set
  <2>4. CASE Refuse(p)
    BY <2>4 DEF Refuse
  <2>5. CASE CreateTemp(p)
    BY <2>5 DEF CreateTemp
  <2>6. CASE Write(p)
    BY <2>6 DEF Write
  <2>7. CASE Sync(p)
    BY <2>7 DEF Sync
  <2>8. CASE Rename(p)
    <3>1. FileAt(p) \in Files /\ Marshalled(p).state = "whole"
      BY OrderType DEF Marshalled
    <3>2. QED
      BY <2>8, <3>1 DEF Rename, MayRename
  <2>9. CASE SaveFails(p)
    BY <2>9 DEF SaveFails
  <2>10. CASE Crash(p)
    BY <2>10 DEF Crash
  <2>11. QED
    BY <1>1, <2>1, <2>2, <2>3, <2>4, <2>5, <2>6, <2>7, <2>8, <2>9, <2>10 DEF Step
<1>2. ASSUME NEW f \in Files, WriteBack(f) PROVE WholeInv'
  BY <1>2 DEF WriteBack
<1>3. CASE PowerLoss
  BY <1>3 DEF PowerLoss, Started
<1>4. CASE UNCHANGED vars
  BY <1>4 DEF vars
<1>5. QED
  BY <1>1, <1>2, <1>3, <1>4 DEF Next

\* Nobody who got past a file's Read found it unreadable, so no Rename meets
\* one.
LEMMA BrokenStep ==
    ASSUME TypeOK, WholeInv, BrokenInv, [Next]_vars
    PROVE  BrokenInv'
<1>0. order' = order
  BY OrderKept
<1> USE <1>0 DEF BrokenInv, TypeOK, files, Loaded, FilesOf
<1>1. ASSUME NEW p \in Procs, Step(p) PROVE BrokenInv'
  <2>1. CASE Read(p)
    <3>1. disk' = disk /\ durable' = durable /\ pc[p] = "load"
      BY <2>1 DEF Read
    <3>2. disk[FileAt(p)] # Broken
      BY <2>1 DEF Read, Parses, Broken
    <3>3. ASSUME NEW f \in FilesOf(p)
          PROVE  /\ Loaded(p)' => disk[f] # Broken
                 /\ pc'[p] = "load" /\ Past(p, f)' => disk[f] # Broken
                 /\ \A q \in Procs : q # p => pc'[q] = pc[q] /\ at'[q] = at[q]
      <4>1. Advance(p, "ready") /\ "ready" \in PCs
        BY <2>1 DEF Read, PCs
      <4>2. QED
        BY <3>1, <3>2, <4>1, AdvanceLoop
    <3>4. \A q \in Procs : q # p => /\ pc'[q] = pc[q]
                                      /\ \A f \in Files : Past(q, f)' <=> Past(q, f)
      BY <3>3, OrderType DEF Past
    <3>5. \A q \in Procs : FilesOf(q) \subseteq Files
      BY OrderType
    <3>6. QED
      BY <3>1, <3>3, <3>4, <3>5
  <2>2. CASE ReadFails(p)
    BY <2>2 DEF ReadFails, Past
  <2>3. CASE Set(p)
    BY <2>3 DEF Set, Past
  <2>4. CASE Refuse(p)
    BY <2>4 DEF Refuse, Past
  <2>5. CASE CreateTemp(p)
    BY <2>5 DEF CreateTemp, Past
  <2>6. CASE Write(p)
    BY <2>6 DEF Write, Past
  <2>7. CASE Sync(p)
    BY <2>7 DEF Sync, Past
  <2>8. CASE Rename(p)
    <3>1. FileAt(p) \in Files /\ FileAt(p) \in FilesOf(p) /\ Marshalled(p) # Broken /\ pc[p] = "save"
      BY <2>8, OrderType DEF Marshalled, Broken, Rename
    <3>2. disk[FileAt(p)] # Broken /\ durable[FileAt(p)] # Broken
      BY <3>1
    <3>3. \A f \in Files : disk'[f] = Broken <=> disk[f] = Broken
      BY <2>8, <3>1, <3>2 DEF Rename
    <3>4. durable' = durable
      BY <2>8 DEF Rename
    <3>5. FileAt(p) \in FilesOf(p) /\ UNCHANGED order /\ Advance(p, "saved") /\ "saved" \in PCs
      BY <2>8, OrderType DEF Rename, PCs
    <3>6. /\ pc'[p] \in {"save", "saved"}
          /\ \A q \in Procs : q # p => pc'[q] = pc[q] /\ at'[q] = at[q]
      BY <3>1, <3>5, AdvanceLoop
    <3>7. \A q \in Procs : q # p => \A f \in Files : Past(q, f)' <=> Past(q, f)
      BY <3>6 DEF Past
    <3>8. \A q \in Procs : FilesOf(q) \subseteq Files
      BY OrderType
    <3>9. QED
      BY <3>1, <3>3, <3>4, <3>6, <3>7, <3>8
  <2>9. CASE SaveFails(p)
    BY <2>9 DEF SaveFails, Fails, Past
  <2>10. CASE Crash(p)
    BY <2>10 DEF Crash, Past
  <2>11. QED
    BY <1>1, <2>1, <2>2, <2>3, <2>4, <2>5, <2>6, <2>7, <2>8, <2>9, <2>10 DEF Step
<1>2. ASSUME NEW f \in Files, WriteBack(f) PROVE BrokenInv'
  BY <1>2 DEF WriteBack, WholeInv, Past
<1>3. CASE PowerLoss
  BY <1>3 DEF PowerLoss, Started, Past
<1>4. CASE UNCHANGED vars
  BY <1>4 DEF vars, Past
<1>5. QED
  BY <1>1, <1>2, <1>3, <1>4 DEF Next

\* The change stays in memory while it is saved.
LEMMA ChangeStep ==
    ASSUME TypeOK, ChangeInv, [Next]_vars
    PROVE  ChangeInv'
<1>0. order' = order
  BY OrderKept
<1> USE <1>0 DEF ChangeInv, TypeOK, files, FilesOf
<1>1. ASSUME NEW p \in Procs, Step(p) PROVE ChangeInv'
  <2>1. CASE Read(p)
    <3>1. /\ pc[p] = "load"
          /\ \A q \in Procs : q # p => /\ pc'[q] = pc[q] /\ at'[q] = at[q]
                                        /\ snapshot'[q] = snapshot[q]
          /\ (pc'[p] = "ready" /\ at'[p] = 1) \/ pc'[p] = "load"
      <4>1. Advance(p, "ready") /\ "ready" \in PCs /\ FileAt(p) \in FilesOf(p) /\ UNCHANGED order
        BY <2>1, OrderType DEF Read, PCs
      <4>2. QED
        BY <2>1, <4>1, AdvanceLoop DEF Read
    <3>2. change' = change
      BY <2>1 DEF Read
    <3>3. QED
      BY <3>1, <3>2
  <2>2. CASE ReadFails(p)
    BY <2>2 DEF ReadFails
  <2>3. CASE Set(p)
    <3>1. PICK c \in Changes : /\ snapshot' = [snapshot EXCEPT ![p] = Updated(p, c)]
                                /\ change' = [change EXCEPT ![p] = c]
      BY <2>3 DEF Set
    <3>2. c \in Change
      BY ValuesAssumption
    <3>3. Updated(p, c)[c.key] = c.value
      BY <3>2 DEF Updated, Document, Change
    <3>4. change'[p] \in Change /\ snapshot'[p][change'[p].key] = change'[p].value
      BY <3>1, <3>2, <3>3
    <3>5. QED
      BY <2>3, <3>1, <3>4 DEF Set
  <2>4. CASE Refuse(p)
    BY <2>4 DEF Refuse
  <2>5. CASE CreateTemp(p)
    BY <2>5 DEF CreateTemp
  <2>6. CASE Write(p)
    BY <2>6 DEF Write
  <2>7. CASE Sync(p)
    BY <2>7 DEF Sync
  <2>8. CASE Rename(p)
    <3>1. /\ pc[p] = "save"
          /\ \A q \in Procs : q # p => pc'[q] = pc[q] /\ at'[q] = at[q]
          /\ (pc'[p] = "saved" /\ at'[p] = 1) \/ pc'[p] = "save"
      <4>1. Advance(p, "saved") /\ "saved" \in PCs /\ FileAt(p) \in FilesOf(p) /\ UNCHANGED order
        BY <2>8, OrderType DEF Rename, PCs
      <4>2. QED
        BY <2>8, <4>1, AdvanceLoop DEF Rename
    <3>2. change' = change /\ snapshot' = snapshot
      BY <2>8 DEF Rename
    <3>3. QED
      BY <3>1, <3>2
  <2>9. CASE SaveFails(p)
    BY <2>9 DEF SaveFails, Fails
  <2>10. CASE Crash(p)
    BY <2>10 DEF Crash
  <2>11. QED
    BY <1>1, <2>1, <2>2, <2>3, <2>4, <2>5, <2>6, <2>7, <2>8, <2>9, <2>10 DEF Step
<1>2. ASSUME NEW f \in Files, WriteBack(f) PROVE ChangeInv'
  BY <1>2 DEF WriteBack
<1>3. CASE PowerLoss
  BY <1>3 DEF PowerLoss
<1>4. CASE UNCHANGED vars
  BY <1>4 DEF vars
<1>5. QED
  BY <1>1, <1>2, <1>3, <1>4 DEF Next

\* Read and Rename make memory and file agree, Set lets them differ in its own
\* key, and a Rename by another process is remembered in disturbed.
LEMMA AgreeStep ==
    ASSUME TypeOK, ChangeInv, AgreeInv, [Next]_vars
    PROVE  AgreeInv'
<1>0. order' = order
  BY OrderKept
<1> USE <1>0 DEF AgreeInv, TypeOK, files, FilesOf
<1>1. ASSUME NEW p \in Procs, Step(p) PROVE AgreeInv'
  <2>1. CASE Read(p)
    <3>1. /\ disk' = disk /\ pc[p] = "load" /\ change' = change
          /\ snapshot' = [snapshot EXCEPT ![p] =
                [k \in Keys |-> IF FileOf[k] = FileAt(p) THEN View(k) ELSE snapshot[p][k]]]
          /\ disturbed' = [disturbed EXCEPT ![p] = disturbed[p] \ {FileAt(p)}]
      BY <2>1 DEF Read
    <3>2. SUFFICES ASSUME NEW q \in Procs, NEW k \in Keys, FileOf[k] \in FilesOf(q)
          PROVE  /\ pc'[q] = "load" /\ Past(q, FileOf[k])' => Agrees(q, k)'
                 /\ pc'[q] \in {"ready", "saved"} => Agrees(q, k)'
                 /\ pc'[q] = "save" /\ (Past(q, FileOf[k])' \/ k # change'[q].key)
                    => Agrees(q, k)'
      OBVIOUS
    <3>3. View(k)' = View(k) /\ FileOf[k] \in Files
      BY <3>1, FilesAssumption DEF View
    <3>4. Advance(p, "ready") /\ "ready" \in PCs
      BY <2>1 DEF Read, PCs
    <3>5. CASE q # p
      <4>1. pc'[q] = pc[q] /\ at'[q] = at[q]
        BY <3>4, <3>5, AdvanceLoop, OrderType
      <4>2. (Past(q, FileOf[k])' <=> Past(q, FileOf[k])) /\ (Agrees(q, k)' <=> Agrees(q, k))
        BY <3>1, <3>3, <3>5, <4>1 DEF Past, Agrees, Held
      <4>3. QED
        BY <3>1, <3>2, <4>1, <4>2
    <3>6. CASE q = p
      <4>1. CASE FileOf[k] = FileAt(p)
        <5>1. snapshot'[p][k] = View(k)
          BY <3>1, <4>1
        <5>2. Held(p, k)' = View(k)
          BY <5>1 DEF Held, View
        <5>3. QED
          BY <3>3, <3>6, <5>2 DEF Agrees
      <4>2. CASE FileOf[k] # FileAt(p)
        <5>1. Agrees(p, k) => Agrees(p, k)'
          BY <3>1, <3>3, <4>2 DEF Agrees, Held
        <5>2. (pc'[p] = "ready" /\ Past(p, FileOf[k])) \/ (pc'[p] = "load" /\ (Past(p, FileOf[k])' => Past(p, FileOf[k])))
          BY <3>1, <3>2, <3>4, <3>6, <4>2, AdvanceLoop
        <5>3. QED
          BY <3>1, <3>2, <3>6, <5>1, <5>2
      <4>3. QED
        BY <4>1, <4>2
    <3>7. QED
      BY <3>5, <3>6
  <2>2. CASE ReadFails(p)
    BY <2>2 DEF ReadFails, Past, Agrees, Held, View
  <2>3. CASE Set(p)
    <3>1. PICK c \in Changes : /\ snapshot' = [snapshot EXCEPT ![p] = Updated(p, c)]
                                /\ change' = [change EXCEPT ![p] = c]
      BY <2>3 DEF Set
    <3>2. c \in Change
      BY ValuesAssumption
    <3>3. \A k \in Keys : k # c.key => snapshot'[p][k] = snapshot[p][k]
      BY <3>1, <3>2 DEF Updated, Document, Change
    <3>4. /\ pc[p] \in {"ready", "saved"} /\ pc' = [pc EXCEPT ![p] = "save"]
          /\ at' = at /\ disk' = disk /\ disturbed' = disturbed /\ at[p] = 1
      BY <2>3 DEF Set, ChangeInv
    <3>5. \A f \in Files : ~Past(p, f)'
      BY <3>4 DEF Past
    <3>6. \A k \in Keys : FileOf[k] \in FilesOf(p) /\ k # c.key => Agrees(p, k)'
      BY <3>3, <3>4 DEF Agrees, Held, View
    <3>7. \A k \in Keys : FileOf[k] \in Files
      BY FilesAssumption
    <3>8. ASSUME NEW q \in Procs, q # p, NEW k \in Keys
          PROVE  /\ pc'[q] = pc[q] /\ change'[q] = change[q]
                 /\ Past(q, FileOf[k])' <=> Past(q, FileOf[k])
                 /\ Agrees(q, k)' <=> Agrees(q, k)
      BY <3>1, <3>4, <3>8 DEF Past, Agrees, Held, View
    <3>9. change'[p] = c /\ pc'[p] = "save"
      BY <3>1, <3>4
    <3>10. SUFFICES ASSUME NEW q \in Procs, NEW k \in Keys, FileOf[k] \in FilesOf(q)
           PROVE  /\ pc'[q] = "load" /\ Past(q, FileOf[k])' => Agrees(q, k)'
                  /\ pc'[q] \in {"ready", "saved"} => Agrees(q, k)'
                  /\ pc'[q] = "save" /\ (Past(q, FileOf[k])' \/ k # change'[q].key)
                     => Agrees(q, k)'
      OBVIOUS
    <3>11. CASE q = p
      BY <3>5, <3>6, <3>7, <3>9, <3>10, <3>11
    <3>12. CASE q # p
      BY <3>8, <3>10, <3>12
    <3>13. QED
      BY <3>11, <3>12
  <2>4. CASE Refuse(p)
    BY <2>4 DEF Refuse, Past, Agrees, Held, View
  <2>5. CASE CreateTemp(p)
    BY <2>5 DEF CreateTemp, Past, Agrees, Held, View
  <2>6. CASE Write(p)
    BY <2>6 DEF Write, Past, Agrees, Held, View
  <2>7. CASE Sync(p)
    BY <2>7 DEF Sync, Past, Agrees, Held, View
  <2>8. CASE Rename(p)
    <3>1. /\ pc[p] = "save" /\ change' = change /\ snapshot' = snapshot
          /\ disk' = [disk EXCEPT ![FileAt(p)] = Marshalled(p)]
          /\ disturbed' = [q \in Procs |-> IF q = p THEN disturbed[q] \ {FileAt(p)}
                                           ELSE disturbed[q] \cup {FileAt(p)}]
          /\ Advance(p, "saved") /\ "saved" \in PCs
      BY <2>8 DEF Rename, PCs
    <3>2. SUFFICES ASSUME NEW q \in Procs, NEW k \in Keys, FileOf[k] \in FilesOf(q)
          PROVE  /\ pc'[q] = "load" /\ Past(q, FileOf[k])' => Agrees(q, k)'
                 /\ pc'[q] \in {"ready", "saved"} => Agrees(q, k)'
                 /\ pc'[q] = "save" /\ (Past(q, FileOf[k])' \/ k # change'[q].key)
                    => Agrees(q, k)'
      OBVIOUS
    <3>3. FileOf[k] \in Files /\ FileAt(p) \in Files
      BY FilesAssumption, OrderType
    <3>4. FileOf[k] # FileAt(p) => View(k)' = View(k)
      BY <3>1, <3>3 DEF View
    <3>5. FileOf[k] = FileAt(p) => View(k)' = Held(p, k)
      BY <3>1, <3>3 DEF View, Held, Marshalled
    <3>6. CASE q # p
      <4>1. pc'[q] = pc[q] /\ at'[q] = at[q]
        BY <3>1, <3>6, AdvanceLoop, OrderType
      <4>2. Past(q, FileOf[k])' <=> Past(q, FileOf[k])
        BY <4>1 DEF Past
      <4>3. Agrees(q, k) => Agrees(q, k)'
        BY <3>1, <3>3, <3>4, <3>6 DEF Agrees, Held
      <4>4. QED
        BY <3>1, <3>2, <4>1, <4>2, <4>3
    <3>7. CASE q = p
      <4>1. CASE FileOf[k] = FileAt(p)
        <5>1. Held(p, k)' = Held(p, k)
          BY <3>1 DEF Held
        <5>2. QED
          BY <3>5, <3>7, <4>1, <5>1 DEF Agrees
      <4>2. CASE FileOf[k] # FileAt(p)
        <5>1. Agrees(p, k) => Agrees(p, k)'
          BY <3>1, <3>3, <3>4, <4>2 DEF Agrees, Held
        <5>2. \/ pc'[p] = "saved" /\ Past(p, FileOf[k])
              \/ pc'[p] = "save" /\ (Past(p, FileOf[k])' => Past(p, FileOf[k]))
          BY <3>1, <3>2, <3>7, <4>2, AdvanceLoop
        <5>3. QED
          BY <3>1, <3>2, <3>7, <5>1, <5>2
      <4>3. QED
        BY <4>1, <4>2
    <3>8. QED
      BY <3>6, <3>7
  <2>9. CASE SaveFails(p)
    BY <2>9 DEF SaveFails, Fails, Past, Agrees, Held, View
  <2>10. CASE Crash(p)
    BY <2>10 DEF Crash, Past, Agrees, Held, View
  <2>11. QED
    BY <1>1, <2>1, <2>2, <2>3, <2>4, <2>5, <2>6, <2>7, <2>8, <2>9, <2>10 DEF Step
<1>2. ASSUME NEW f \in Files, WriteBack(f) PROVE AgreeInv'
  BY <1>2 DEF WriteBack, Past, Agrees, Held, View
<1>3. CASE PowerLoss
  <2>1. \A p \in Procs, k \in Keys : Agrees(p, k)'
    BY <1>3, FilesAssumption DEF PowerLoss, Agrees
  <2>2. QED
    BY <2>1
<1>4. CASE UNCHANGED vars
  <2>1. \A p \in Procs, k \in Keys :
            /\ Past(p, FileOf[k])' <=> Past(p, FileOf[k])
            /\ Agrees(p, k)' <=> Agrees(p, k)
    BY <1>4 DEF vars, Past, Agrees, Held, View
  <2>2. pc' = pc /\ change' = change
    BY <1>4 DEF vars
  <2>3. QED
    BY <2>1, <2>2
<1>5. QED
  BY <1>1, <1>2, <1>3, <1>4 DEF Next

-----------------------------------------------------------------------------
(* The theorems.                                                           *)

\* The invariant holds of a new or hand-edited directory.
LEMMA InitInv ==
    ASSUME Init
    PROVE  IInv
<1> USE DEF Init
<1>1. \A p \in Procs : Len(order[p]) \in Nat /\ Len(order[p]) > 0
  <2>1. ASSUME NEW p \in Procs PROVE Len(order[p]) \in Nat /\ Len(order[p]) > 0
    <3>1. order[p] \in Seq(Files) /\ Len(order[p]) > 0
      BY FilesAssumption
    <3>2. QED
      BY <3>1
  <2>2. QED
    BY <2>1
<1>2. Empty \in Document
  BY DEF Empty, Document, Setting
<1>3. disk \in [Files -> {Absent, Broken}] /\ durable = disk
  OBVIOUS
<1>4. Absent \in File /\ Broken \in File
  BY <1>2 DEF Absent, Broken, File
<1>5. TypeOK
  BY <1>1, <1>3, <1>4, ValuesAssumption, MaxSavesAssumption DEF TypeOK, PCs, Temps, Document
<1>6. WholeInv
  BY <1>3 DEF WholeInv, FilesWhole, Absent, Broken
<1>7. \A p \in Procs, f \in Files : ~Past(p, f)
  BY DEF Past
<1>8. (\A k \in Keys : FileOf[k] \in Files) /\ \A p \in Procs : FilesOf(p) \subseteq Files
  BY <1>5, FilesAssumption, OrderType
<1>9. BrokenInv /\ ChangeInv /\ AgreeInv
  BY <1>3, <1>7, <1>8 DEF BrokenInv, ChangeInv, AgreeInv, Loaded
<1>10. QED
  BY <1>5, <1>6, <1>9 DEF IInv

\* A step preserves the invariant.
LEMMA StepInv ==
    ASSUME IInv, [Next]_vars
    PROVE  IInv'
BY TypeStep, WholeStep, BrokenStep, ChangeStep, AgreeStep DEF IInv

\* IInv is an invariant of the configuration directory.
THEOREM Invariance == Spec => []IInv
BY InitInv, StepInv, PTL DEF Spec

\* Type correctness.
THEOREM Typing == Spec => []TypeOK
BY Invariance, PTL DEF IInv

\* No crash, failure, power loss or concurrent writer leaves a truncated file.
THEOREM NoTornFile == Spec => []FilesWhole
<1>1. IInv => FilesWhole
  BY DEF IInv, WholeInv
<1>2. QED
  BY <1>1, Invariance, PTL

\* A file that does not parse is never written over.
THEOREM UnreadableFileKept == Spec => BrokenKept
<1>1. ASSUME IInv, [Next]_vars PROVE [BrokenStays]_vars
  <2> SUFFICES ASSUME Next, NEW f \in Files, disk[f] = Broken PROVE disk'[f] = Broken
    BY <1>1 DEF BrokenStays
  <2> USE <1>1 DEF IInv, BrokenInv, TypeOK, files
  <2>1. ASSUME NEW p \in Procs, Step(p) PROVE disk'[f] = Broken
    <3>1. CASE Rename(p)
      BY <3>1, OrderType DEF Rename, Loaded
    <3>2. CASE ~Rename(p)
      BY <2>1, <3>2 DEF Step, Read, ReadFails, Set, Refuse, CreateTemp, Write, Sync,
                        SaveFails, Crash
    <3>3. QED
      BY <3>1, <3>2
  <2>2. ASSUME NEW g \in Files, WriteBack(g) PROVE disk'[f] = Broken
    BY <2>2 DEF WriteBack
  <2>3. CASE PowerLoss
    BY <2>3 DEF PowerLoss
  <2>4. QED
    BY <2>1, <2>2, <2>3 DEF Next
<1>2. QED
  BY <1>1, Invariance, PTL DEF Spec, BrokenKept

\* Replacing a file nobody else replaced since it was read, a process changes
\* no setting but the one its setter was asked to change.
THEOREM NothingElseChanges == Spec => OwnChangeOnly
<1>1. ASSUME IInv, [Next]_vars PROVE [ChangesOwnKeyOnly]_vars
  <2> SUFFICES ASSUME Next, NEW p \in Procs, RenameBy(p), Unstale(p),
                      NEW k \in Keys \ {change[p].key}
               PROVE  View(k)' = View(k)
    BY <1>1 DEF ChangesOwnKeyOnly
  <2> USE <1>1 DEF IInv, TypeOK, files
  <2>1. Rename(p)
    <3>1. ASSUME NEW q \in Procs, Step(q) PROVE Rename(p)
      <4>1. Rename(q)
        BY <3>1 DEF RenameBy, Step, Read, ReadFails, Set, Refuse, CreateTemp, Write, Sync,
                    SaveFails, Crash
      <4>2. q = p
        BY <4>1 DEF RenameBy, Rename
      <4>3. QED
        BY <4>1, <4>2
    <3>2. ASSUME NEW g \in Files PROVE ~WriteBack(g)
      BY DEF RenameBy, WriteBack
    <3>3. ~PowerLoss
      BY DEF RenameBy, PowerLoss
    <3>4. QED
      BY <3>1, <3>2, <3>3 DEF Next
  <2>2. FileOf[k] \in Files /\ FileAt(p) \in FilesOf(p) /\ FilesOf(p) \subseteq Files
    BY FilesAssumption, OrderType
  <2>3. disk' = [disk EXCEPT ![FileAt(p)] = Marshalled(p)] /\ pc[p] = "save"
    BY <2>1 DEF Rename
  <2>4. CASE FileOf[k] # FileAt(p)
    BY <2>2, <2>3, <2>4 DEF View
  <2>5. CASE FileOf[k] = FileAt(p)
    <3>1. Held(p, k) = View(k)
      BY <2>2, <2>3, <2>5 DEF AgreeInv, Agrees, Unstale
    <3>2. View(k)' = Held(p, k)
      BY <2>2, <2>3, <2>5 DEF View, Held, Marshalled
    <3>3. QED
      BY <3>1, <3>2
  <2>6. QED
    BY <2>4, <2>5
<1>2. QED
  BY <1>1, Invariance, PTL DEF Spec, OwnChangeOnly

\* A Save that reported success has made its change visible.
THEOREM SavedChangesSeen == Spec => []SavedIsSeen
<1>1. IInv => SavedIsSeen
  BY DEF IInv, SavedIsSeen, ChangeInv, AgreeInv, Agrees, Held, Shown, Change
<1>2. QED
  BY <1>1, Invariance, PTL

-----------------------------------------------------------------------------
(* The refinement: whatever happens, a content is an earlier one or one    *)
(* asked-for change away from it.                                          *)

\* What a document says of file f, with the defaults.
Picture(doc, f) == [k \in KeysIn[f] |-> IF doc[k] = Unset THEN Default[k] ELSE doc[k]]
Memory(p, f) == Picture(snapshot[p], f)

\* A change whose precondition was once seen to hold.
Founded(c) == c.needs = NoKey \/ \E content \in seen[FileOf[c.needs]] : content[c.needs] # Unset

Altered(p, f) ==
    \E old \in seen[f] : Memory(p, f) = [old EXCEPT ![change[p].key] = Shown(change[p])]

\* What the disk holds was seen.  So was, for each file, what a process has in
\* memory, before it has read the file (the defaults were there first) and
\* after; but while it saves, the one change is on top, in the one file, until
\* that file is written.
HistoryInv ==
    /\ seen = [f \in Files |-> seen[f]]
    /\ \A f \in Files : /\ Picture(disk[f].doc, f) \in seen[f]
                        /\ Picture(durable[f].doc, f) \in seen[f]
                        /\ disk[f].state = "broken" => disk[f] = Broken
                        /\ durable[f].state = "broken" => durable[f] = Broken
    /\ \A p \in Procs :
        /\ pc[p] \in {"load", "ready", "saved"} => \A f \in Files : Memory(p, f) \in seen[f]
        /\ pc[p] = "save" =>
            /\ change[p] \in Changes /\ Founded(change[p])
            /\ Altered(p, FileOf[change[p].key])
            /\ \A f \in Files : f # FileOf[change[p].key] \/ Past(p, f) => Memory(p, f) \in seen[f]

LEMMA ContentIs ==
    ASSUME NEW f \in Files
    PROVE  /\ Content(f) = Picture(disk[f].doc, f)
           /\ Content(f)' = Picture(disk'[f].doc, f)
BY DEF Content, View, Picture, KeysIn

\* Nothing that was seen is forgotten, and what is there now is seen.
LEMMA SeenGrows ==
    ASSUME HistoryInv, [HNext]_<<vars, seen>>, NEW f \in Files
    PROVE  seen[f] \subseteq seen'[f] /\ Picture(disk'[f].doc, f) \in seen'[f]
<1>1. CASE disk' = disk
  <2>1. seen' = seen
    BY <1>1 DEF HNext, Remember
  <2>2. QED
    BY <1>1, <2>1 DEF HistoryInv
<1>2. CASE disk' # disk
  <2>1. seen' = [g \in Files |-> seen[g] \cup {Content(g)'}]
    BY <1>2 DEF HNext, Remember, vars
  <2>2. seen'[f] = seen[f] \cup {Content(f)'}
    BY <2>1
  <2>3. QED
    BY <2>2, ContentIs
<1>3. QED
  BY <1>1, <1>2

\* The disk: a file is replaced whole, and power brings back what was synced
\* from a file that was shown.
LEMMA DiskStep ==
    ASSUME IInv, HistoryInv, [HNext]_<<vars, seen>>, NEW f \in Files
    PROVE  /\ Picture(durable'[f].doc, f) \in seen'[f]
           /\ disk'[f].state = "broken" => disk'[f] = Broken
           /\ durable'[f].state = "broken" => durable'[f] = Broken
<1> USE DEF IInv, TypeOK, files
<1>1. seen[f] \subseteq seen'[f]
  BY SeenGrows
<1>2. /\ Picture(disk[f].doc, f) \in seen[f] /\ Picture(durable[f].doc, f) \in seen[f]
      /\ disk[f].state = "broken" => disk[f] = Broken
      /\ durable[f].state = "broken" => durable[f] = Broken
  BY DEF HistoryInv
<1>3. ASSUME NEW p \in Procs, Step(p)
      PROVE  /\ durable' = durable
             /\ disk'[f] = disk[f] \/ disk'[f].state = "whole"
  <2>1. CASE Rename(p)
    BY <2>1, OrderType DEF Rename, Marshalled
  <2>2. CASE ~Rename(p)
    BY <1>3, <2>2 DEF Step, Read, ReadFails, Set, Refuse, CreateTemp, Write, Sync, SaveFails, Crash
  <2>3. QED
    BY <2>1, <2>2
<1>4. ASSUME NEW g \in Files, WriteBack(g)
      PROVE  disk' = disk /\ (durable'[f] = durable[f] \/ durable'[f] = disk[f])
  BY <1>4 DEF WriteBack, WholeInv
<1>5. PowerLoss => disk' = durable /\ durable' = durable
  BY DEF PowerLoss
<1>6. UNCHANGED vars => disk' = disk /\ durable' = durable
  BY DEF vars
<1>7. \/ /\ durable'[f] = durable[f]
         /\ disk'[f] \in {disk[f], durable[f]} \/ disk'[f].state = "whole"
      \/ disk'[f] = disk[f] /\ durable'[f] = disk[f]
  BY <1>3, <1>4, <1>5, <1>6 DEF HNext, Next, vars
<1>8. QED
  BY <1>1, <1>2, <1>7

\* What a process has in memory, by the step that changes it.
LEMMA MemoryStep ==
    ASSUME IInv, HistoryInv, [HNext]_<<vars, seen>>, NEW p \in Procs
    PROVE  /\ pc'[p] \in {"load", "ready", "saved"} => \A f \in Files : Memory(p, f)' \in seen'[f]
           /\ pc'[p] = "save" =>
               /\ change'[p] \in Changes /\ Founded(change[p])'
               /\ Altered(p, FileOf[change[p].key])'
               /\ \A f \in Files : f # FileOf[change'[p].key] \/ Past(p, f)'
                                     => Memory(p, f)' \in seen'[f]
<1> DEFINE Fine == /\ pc[p] \in {"load", "ready", "saved"} => \A f \in Files : Memory(p, f) \in seen[f]
                   /\ pc[p] = "save" =>
                       /\ change[p] \in Changes /\ Founded(change[p])
                       /\ Altered(p, FileOf[change[p].key])
                       /\ \A f \in Files : f # FileOf[change[p].key] \/ Past(p, f)
                                             => Memory(p, f) \in seen[f]
<1> USE DEF IInv, TypeOK, files
<1>1. Fine
  BY DEF HistoryInv
<1>2. \A f \in Files : seen[f] \subseteq seen'[f] /\ Picture(disk'[f].doc, f) \in seen'[f]
  BY SeenGrows
<1>3. \A c \in Changes : /\ c \in Change /\ c.key \in Keys /\ FileOf[c.key] \in Files
                         /\ c.needs # NoKey => c.needs \in Keys /\ FileOf[c.needs] \in Files
  BY ValuesAssumption, FilesAssumption DEF Change
<1>4. ASSUME NEW c \in Changes, Founded(c) PROVE Founded(c)'
  BY <1>2, <1>3, <1>4 DEF Founded
<1>5. order' = order
  BY OrderKept DEF HNext, vars
<1>6. ASSUME snapshot'[p] = snapshot[p], change'[p] = change[p], at'[p] = at[p],
             pc'[p] = pc[p] \/ pc'[p] \in {"failed", "crashed"}
      PROVE  Fine'
  <2>1. \A f \in Files : Memory(p, f)' = Memory(p, f) /\ (Past(p, f)' <=> Past(p, f))
    BY <1>5, <1>6 DEF Memory, Past
  <2>2. ASSUME pc[p] = "save", Altered(p, FileOf[change[p].key])
        PROVE  Altered(p, FileOf[change[p].key])'
    <3>1. change[p] \in Changes /\ FileOf[change[p].key] \in Files
      BY <1>1, <1>3, <2>2
    <3>2. PICK old \in seen[FileOf[change[p].key]] :
            Memory(p, FileOf[change[p].key]) = [old EXCEPT ![change[p].key] = Shown(change[p])]
      BY <2>2 DEF Altered
    <3>3. old \in seen'[FileOf[change[p].key]]
      BY <1>2, <3>1
    <3>4. Picture(snapshot'[p], FileOf[change[p].key])
            = [old EXCEPT ![change[p].key] = Shown(change[p])]
      BY <1>6, <3>2 DEF Memory
    <3>5. QED
      BY <1>6, <3>3, <3>4 DEF Altered, Memory, Shown
  <2>3. QED
    BY <1>1, <1>2, <1>4, <1>6, <2>1, <2>2
<1>7. CASE Read(p)
  <2>1. /\ pc[p] = "load" /\ disk' = disk /\ Advance(p, "ready") /\ "ready" \in PCs
        /\ snapshot'[p] = [k \in Keys |-> IF FileOf[k] = FileAt(p) THEN View(k) ELSE snapshot[p][k]]
    BY <1>7 DEF Read, PCs
  <2>2. ASSUME NEW f \in Files PROVE Memory(p, f)' \in seen'[f]
    <3>1. CASE f = FileAt(p)
      <4>1. \A k \in KeysIn[f] : snapshot'[p][k] = View(k)
        BY <2>1, <3>1 DEF KeysIn
      <4>2. \A k \in KeysIn[f] : (IF View(k) = Unset THEN Default[k] ELSE View(k)) = View(k)
        BY DEF View
      <4>3. Memory(p, f)' = [k \in KeysIn[f] |-> View(k)]
        BY <4>1, <4>2 DEF Memory, Picture
      <4>4. [k \in KeysIn[f] |-> View(k)] = Picture(disk[f].doc, f)
        BY ContentIs DEF Content
      <4>5. QED
        BY <1>2, <2>1, <4>3, <4>4
    <3>2. CASE f # FileAt(p)
      <4>1. \A k \in KeysIn[f] : snapshot'[p][k] = snapshot[p][k]
        BY <2>1, <3>2 DEF KeysIn
      <4>2. Memory(p, f)' = Memory(p, f)
        BY <4>1 DEF Memory, Picture
      <4>3. QED
        BY <1>1, <1>2, <2>1, <4>2
    <3>3. QED
      BY <3>1, <3>2
  <2>3. pc'[p] \in {"load", "ready"}
    BY <1>5, <2>1, AdvanceLoop, OrderType
  <2>4. QED
    BY <2>2, <2>3
<1>8. CASE Set(p)
  <2>1. PICK c \in Changes : /\ Accepts(p, c)
                              /\ snapshot' = [snapshot EXCEPT ![p] = Updated(p, c)]
                              /\ change' = [change EXCEPT ![p] = c]
    BY <1>8 DEF Set
  <2>2. /\ pc[p] \in {"ready", "saved"} /\ pc'[p] = "save" /\ change'[p] = c
        /\ snapshot'[p] = Updated(p, c) /\ at'[p] = 1
    BY <1>8, <2>1 DEF Set, ChangeInv
  <2>3. c.key \in Keys /\ FileOf[c.key] \in Files
    BY <1>3
  <2>4. \A f \in Files : Memory(p, f) \in seen[f]
    BY <1>1, <2>2
  <2>5. Founded(c)
    <3>1. CASE c.needs # NoKey
      <4>1. c.needs \in Keys /\ FileOf[c.needs] \in Files /\ snapshot[p][c.needs] # Unset
        BY <1>3, <2>1, <3>1 DEF Accepts
      <4>2. c.needs \in KeysIn[FileOf[c.needs]]
        BY <4>1 DEF KeysIn
      <4>3. Memory(p, FileOf[c.needs])[c.needs] = snapshot[p][c.needs]
        BY <4>1, <4>2 DEF Memory, Picture
      <4>4. QED
        BY <2>4, <4>1, <4>3 DEF Founded
    <3>2. QED
      BY <3>1 DEF Founded
  <2>6. snapshot'[p] = [k \in Keys |-> IF k = c.key THEN c.value ELSE snapshot[p][k]]
    BY <2>2, <2>3 DEF Updated, Document
  <2>7. ASSUME NEW f \in Files, f # FileOf[c.key] PROVE Memory(p, f)' \in seen'[f]
    <3>1. \A k \in KeysIn[f] : snapshot'[p][k] = snapshot[p][k]
      BY <2>6, <2>7 DEF KeysIn
    <3>2. Memory(p, f)' = Memory(p, f)
      BY <3>1 DEF Memory, Picture
    <3>3. QED
      BY <1>2, <2>4, <3>2
  <2>8. Altered(p, FileOf[change[p].key])'
    <3> DEFINE g == FileOf[c.key]
    <3>1. c.key \in KeysIn[g]
      BY <2>3 DEF KeysIn
    <3>2. \A k \in KeysIn[g] : k \in Keys
      BY <2>3 DEF KeysIn
    <3>3. Memory(p, g)' = [Memory(p, g) EXCEPT ![c.key] = Shown(c)]
      BY <2>6, <3>1, <3>2 DEF Memory, Picture, Shown
    <3>4. Memory(p, g) \in seen'[g]
      BY <1>2, <2>3, <2>4
    <3>5. QED
      BY <2>2, <3>3, <3>4 DEF Altered, Shown
  <2>9. ~Past(p, FileOf[c.key])'
    BY <2>2 DEF Past
  <2>10. Founded(c)'
    BY <1>4, <2>5
  <2>11. QED
    BY <2>2, <2>7, <2>8, <2>9, <2>10
<1>9. CASE Rename(p)
  <2>1. /\ pc[p] = "save" /\ snapshot' = snapshot /\ change' = change
        /\ Advance(p, "saved") /\ "saved" \in PCs
        /\ disk' = [disk EXCEPT ![FileAt(p)] = Marshalled(p)]
    BY <1>9 DEF Rename, PCs
  <2> DEFINE g == FileOf[change[p].key]
  <2>2. g \in FilesOf(p) /\ g \in Files
    BY <2>1, OrderType DEF ChangeInv
  <2>3. \A f \in Files : Memory(p, f)' = Memory(p, f)
    BY <2>1 DEF Memory
  <2>4. Memory(p, FileAt(p)) \in seen'[FileAt(p)]
    <3>1. FileAt(p) \in Files
      BY OrderType
    <3>2. \A k \in KeysIn[FileAt(p)] : disk'[FileAt(p)].doc[k] = snapshot[p][k]
      BY <2>1, <3>1 DEF Marshalled, KeysIn
    <3>3. Picture(disk'[FileAt(p)].doc, FileAt(p)) = Memory(p, FileAt(p))
      BY <3>2 DEF Memory, Picture
    <3>4. QED
      BY <1>2, <3>1, <3>3
  <2>5. ASSUME NEW f \in Files, f # g PROVE Memory(p, f)' \in seen'[f]
    BY <1>1, <1>2, <2>1, <2>3, <2>5
  <2>6. g = FileAt(p) \/ Past(p, g) => Memory(p, g)' \in seen'[g]
    BY <1>1, <1>2, <2>1, <2>2, <2>3, <2>4
  <2>7. Altered(p, FileOf[change[p].key])'
    BY <1>1, <1>2, <2>1, <2>2, <2>3 DEF Altered, Shown
  <2>8. Founded(change[p])'
    BY <1>1, <1>4, <2>1
  <2>9. \/ pc'[p] = "saved" /\ (g = FileAt(p) \/ Past(p, g))
        \/ pc'[p] = "save" /\ (Past(p, g)' <=> (g = FileAt(p) \/ Past(p, g)))
    BY <1>5, <2>1, <2>2, AdvanceLoop
  <2>10. QED
    BY <1>1, <2>1, <2>5, <2>6, <2>7, <2>8, <2>9
<1>10. ASSUME ~Read(p), ~Set(p), ~Rename(p)
       PROVE  /\ snapshot'[p] = snapshot[p] /\ change'[p] = change[p]
              /\ pc'[p] \in {"failed", "crashed"} \/ (pc'[p] = pc[p] /\ at'[p] = at[p])
  <2>1. ASSUME NEW q \in Procs, Step(q)
        PROVE  /\ snapshot'[p] = snapshot[p] /\ change'[p] = change[p]
               /\ pc'[p] \in {"failed", "crashed"} \/ (pc'[p] = pc[p] /\ at'[p] = at[p])
    <3>1. CASE q # p
      BY <2>1, <3>1 DEF Step, Read, ReadFails, Set, Refuse, CreateTemp, Write, Sync, Rename,
                        SaveFails, Fails, Crash, Advance
    <3>2. CASE q = p
      BY <1>10, <2>1, <3>2 DEF Step, ReadFails, Refuse, CreateTemp, Write, Sync, SaveFails, Fails, Crash
    <3>3. QED
      BY <3>1, <3>2
  <2>2. ASSUME NEW g \in Files, WriteBack(g)
        PROVE  snapshot' = snapshot /\ change' = change /\ pc' = pc /\ at' = at
    BY <2>2 DEF WriteBack
  <2>3. PowerLoss => /\ snapshot' = snapshot /\ change' = change /\ at' = at
                     /\ pc'[p] \in {"crashed", pc[p]}
    BY DEF PowerLoss
  <2>4. QED
    BY <2>1, <2>2, <2>3 DEF HNext, Next, vars
<1>11. CASE ~Read(p) /\ ~Set(p) /\ ~Rename(p)
  <2>1. CASE pc'[p] \in {"failed", "crashed"}
    BY <2>1
  <2>2. CASE pc'[p] = pc[p] /\ at'[p] = at[p]
    BY <1>6, <1>10, <1>11, <2>2
  <2>3. QED
    BY <1>10, <1>11, <2>1, <2>2
<1>12. QED
  BY <1>7, <1>8, <1>9, <1>11

LEMMA HistoryInit ==
    ASSUME HInit
    PROVE  HistoryInv
<1>1. TypeOK
  BY InitInv DEF HInit, IInv
<1>2. ASSUME NEW f \in Files
      PROVE  /\ seen[f] = {Content(f)}
             /\ disk[f] = durable[f] /\ disk[f] \in {Absent, Broken}
             /\ disk[f].state = "broken" => disk[f] = Broken
  BY DEF HInit, Init, Absent
<1>3. ASSUME NEW f \in Files PROVE Picture(disk[f].doc, f) = [k \in KeysIn[f] |-> Default[k]]
  BY <1>2 DEF Picture, Absent, Broken, Empty, KeysIn
<1>4. ASSUME NEW f \in Files, NEW p \in Procs PROVE Memory(p, f) = [k \in KeysIn[f] |-> Default[k]]
  <2>1. snapshot[p] = Default
    BY DEF HInit, Init
  <2>2. QED
    BY <2>1 DEF Memory, Picture
<1>5. \A p \in Procs : pc[p] = "load"
  BY DEF HInit, Init
<1>6. seen = [f \in Files |-> seen[f]]
  BY DEF HInit
<1>7. QED
  BY <1>2, <1>3, <1>4, <1>5, <1>6, ContentIs DEF HistoryInv

LEMMA HistoryStep ==
    ASSUME IInv, HistoryInv, [HNext]_<<vars, seen>>
    PROVE  HistoryInv'
<1>1. seen' = [f \in Files |-> seen'[f]]
  BY DEF HistoryInv, HNext, Remember
<1>2. QED
  BY <1>1, SeenGrows, DiskStep, MemoryStep DEF HistoryInv

\* A step of the directory is a step of SettingsHistory, or none.
LEMMA HistoryRefines ==
    ASSUME IInv, HistoryInv, IInv', [HNext]_<<vars, seen>>
    PROVE  [History!Next]_(History!hvars)
<1> DEFINE S == [f \in Files |-> Content(f)]
           R == [f \in Files |-> Parses(f)]
<1> USE DEF IInv, TypeOK, files
<1>1. R' = R
  <2>1. ASSUME NEW f \in Files PROVE Parses(f)' <=> Parses(f)
    <3>1. /\ disk[f].state \in {"absent", "whole", "broken"} /\ disk'[f].state \in {"absent", "whole", "broken"}
      BY DEF WholeInv, FilesWhole, File
    <3>2. disk[f].state = "broken" <=> disk[f] = Broken
      BY DEF HistoryInv, Broken
    <3>3. disk'[f].state = "broken" <=> disk'[f] = Broken
      BY HistoryStep DEF HistoryInv, Broken
    <3>4. disk'[f] = Broken <=> disk[f] = Broken
      <4>1. ASSUME NEW p \in Procs, Rename(p)
            PROVE  disk'[f] = Broken <=> disk[f] = Broken
        <5>1. FileAt(p) \in Files /\ disk[FileAt(p)] # Broken /\ Marshalled(p) # Broken
          BY <4>1, OrderType DEF Rename, BrokenInv, Loaded, Marshalled, Broken
        <5>2. QED
          BY <4>1, <5>1 DEF Rename
      <4>2. ASSUME NEW p \in Procs, Step(p), ~Rename(p) PROVE disk' = disk
        BY <4>2 DEF Step, Read, ReadFails, Set, Refuse, CreateTemp, Write, Sync, SaveFails, Crash
      <4>3. ASSUME NEW g \in Files, WriteBack(g) PROVE disk' = disk
        BY <4>3 DEF WriteBack
      <4>4. PowerLoss => (disk'[f] = Broken <=> disk[f] = Broken)
        BY DEF PowerLoss, BrokenInv
      <4>5. QED
        BY <4>1, <4>2, <4>3, <4>4 DEF HNext, Next, vars
    <3>5. QED
      BY <3>1, <3>2, <3>3, <3>4 DEF Parses
  <2>2. QED
    BY <2>1 DEF Parses
<1>2. CASE disk' = disk
  <2>1. \A f \in Files : Content(f)' = Content(f)
    BY <1>2 DEF Content, View
  <2>2. S' = S /\ seen' = seen
    BY <1>2, <2>1 DEF HNext, Remember
  <2>3. QED
    BY <1>1, <2>2 DEF History!hvars
<1>3. seen' = [f \in Files |-> seen[f] \cup {Content(f)'}]
  <2>1. CASE disk' = disk
    <3>1. seen' = seen /\ seen = [f \in Files |-> seen[f]]
      BY <2>1 DEF HNext, Remember, HistoryInv
    <3>2. \A f \in Files : Content(f)' = Content(f) /\ Content(f) \in seen[f]
      BY <2>1, ContentIs DEF HistoryInv
    <3>3. [f \in Files |-> seen[f]] = [f \in Files |-> seen[f] \cup {Content(f)'}]
      BY <3>2
    <3>4. QED
      BY <3>1, <3>3
  <2>2. QED
    BY <2>1 DEF HNext, Remember, vars
<1>4. S' = [f \in Files |-> Content(f)']
  OBVIOUS
<1>5. ASSUME \A f \in Files : Content(f)' \in seen[f] PROVE History!GoBack
  <2>1. [f \in Files |-> seen[f] \cup {Content(f)'}] = [f \in Files |-> seen[f]]
    BY <1>5
  <2>2. seen' = seen
    BY <1>3, <2>1 DEF HistoryInv
  <2>3. QED
    BY <1>1, <1>4, <1>5, <2>2 DEF History!GoBack
<1>6. CASE PowerLoss
  <2>1. \A f \in Files : Content(f)' \in seen[f]
    BY <1>6, ContentIs DEF PowerLoss, HistoryInv
  <2>2. QED
    BY <1>5, <2>1 DEF History!Next
<1>7. ASSUME NEW p \in Procs, Rename(p), NEW g \in Files, g = FileAt(p) PROVE History!Next
  <2> DEFINE c == change[p]
  <2>1. /\ g \in FilesOf(p) /\ g \in Files /\ pc[p] = "save"
        /\ disk' = [disk EXCEPT ![g] = Marshalled(p)]
    BY <1>7, OrderType DEF Rename
  <2>2. c \in Changes /\ Founded(c) /\ c.key \in Keys /\ FileOf[c.key] \in Files
    BY <2>1, ValuesAssumption, FilesAssumption DEF HistoryInv, Change
  <2>3. Content(g)' = Memory(p, g)
    <3>1. \A k \in KeysIn[g] : disk'[g].doc[k] = snapshot[p][k]
      BY <1>7, <2>1 DEF Marshalled, KeysIn
    <3>2. Picture(disk'[g].doc, g) = Memory(p, g)
      BY <3>1 DEF Memory, Picture
    <3>3. QED
      BY <2>1, <3>2, ContentIs
  <2>4. \A f \in Files \ {g} : Content(f)' = Content(f) /\ Content(f) \in seen[f]
    BY <2>1, ContentIs DEF HistoryInv
  <2>5. CASE Memory(p, g) \in seen[g]
    BY <1>5, <2>3, <2>4, <2>5 DEF History!Next
  <2>6. CASE Memory(p, g) \notin seen[g]
    <3>1. g = FileOf[c.key] /\ Altered(p, g)
      BY <2>1, <2>6 DEF HistoryInv
    <3>2. PICK old \in seen[g] : Memory(p, g) = [old EXCEPT ![c.key] = Shown(c)]
      BY <3>1 DEF Altered
    <3>3. S' = [S EXCEPT ![g] = [old EXCEPT ![c.key] = Shown(c)]]
      BY <1>4, <2>1, <2>3, <2>4, <3>2
    <3>4. seen' = [seen EXCEPT ![g] = @ \cup {S'[g]}]
      <4>1. \A f \in Files \ {g} : seen[f] \cup {Content(f)'} = seen[f]
        BY <2>4
      <4>2. seen = [f \in Files |-> seen[f]]
        BY DEF HistoryInv
      <4>3. QED
        BY <1>3, <1>4, <2>1, <4>1, <4>2
    <3>5. R[g]
      <4>1. disk[g].state \in {"absent", "whole", "broken"}
        BY <2>1 DEF WholeInv, FilesWhole, File
      <4>2. disk[g].state # "broken"
        BY <2>1 DEF BrokenInv, Loaded, HistoryInv
      <4>3. QED
        BY <2>1, <4>1, <4>2 DEF Parses
    <3> DEFINE e == Edit(c)
    <3>6. e.key = c.key /\ e.value = Shown(c) /\ e.needs = c.needs
      BY DEF Edit
    <3>7. e \in {d \in {Edit(x) : x \in Changes} : FileOf[d.key] = g}
      BY <2>2, <3>1, <3>6
    <3>8. History!Met(e)
      BY <2>2, <3>6 DEF Founded, History!Met
    <3>9. S' = [S EXCEPT ![g] = [old EXCEPT ![e.key] = e.value]]
      BY <3>3, <3>6
    <3> HIDE DEF e
    <3>10. History!Publish(g)
      BY <1>1, <3>2, <3>4, <3>5, <3>7, <3>8, <3>9 DEF History!Publish
    <3>11. QED
      BY <2>1, <3>10 DEF History!Next
  <2>7. QED
    BY <2>5, <2>6
<1>8. ASSUME NEW p \in Procs, Step(p), ~Rename(p) PROVE disk' = disk
  BY <1>8 DEF Step, Read, ReadFails, Set, Refuse, CreateTemp, Write, Sync, SaveFails, Crash
<1>9. ASSUME NEW f \in Files, WriteBack(f) PROVE disk' = disk
  BY <1>9 DEF WriteBack
<1>10. ASSUME NEW p \in Procs PROVE FileAt(p) \in Files
  BY OrderType
<1>11. QED
  BY <1>2, <1>6, <1>7, <1>8, <1>9, <1>10 DEF HNext, Next, vars

\* Every content a reader ever finds in a file, with any number of writers,
\* failures, kills and power losses, is an earlier one, or an earlier one with
\* one change somebody asked for.
THEOREM HistoryKept == HSpec => KeepsHistory
<1>1. HInit => History!Init
  <2> SUFFICES ASSUME HInit PROVE History!Init
    OBVIOUS
  <2>1. ASSUME NEW f \in Files PROVE Content(f) = [k \in KeysIn[f] |-> Default[k]]
    <3>1. disk[f].doc = Empty
      BY DEF HInit, Init, Absent, Broken
    <3>2. QED
      BY <3>1, ContentIs DEF Picture, Empty, KeysIn
  <2>2. KeysIn = History!KeysIn
    BY DEF KeysIn, History!KeysIn, Keys
  <2>3. \A f \in Files : Parses(f) \in BOOLEAN
    BY DEF Parses
  <2>4. seen = [f \in Files |-> {Content(f)}]
    BY DEF HInit
  <2>5. QED
    BY <2>1, <2>2, <2>3, <2>4 DEF History!Init
<1>2. HSpec => [](IInv /\ HistoryInv)
  <2>1. HInit => IInv /\ HistoryInv
    BY InitInv, HistoryInit DEF HInit
  <2>2. IInv /\ HistoryInv /\ [HNext]_<<vars, seen>> => IInv' /\ HistoryInv'
    <3>1. [HNext]_<<vars, seen>> => [Next]_vars
      BY DEF HNext
    <3>2. QED
      BY <3>1, StepInv, HistoryStep
  <2>3. QED
    BY <2>1, <2>2, PTL DEF HSpec
<1>3. IInv /\ HistoryInv /\ IInv' /\ [HNext]_<<vars, seen>> => [History!Next]_(History!hvars)
  BY HistoryRefines
<1>4. QED
  BY <1>1, <1>2, <1>3, PTL DEF HSpec, KeepsHistory, History!Spec
=============================================================================
