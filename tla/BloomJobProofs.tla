--------------------------- MODULE BloomJobProofs ---------------------------
(***************************************************************************)
(* Proofs about BloomJob, for any table, page size and number of app       *)
(* instances.                                                              *)
(***************************************************************************)
EXTENDS BloomJob, TLAPS

LEMMA TypeInit == Init => TypeOK
<1> SUFFICES ASSUME Init PROVE TypeOK
  OBVIOUS
<1>1. mint \in [Codes -> {"none", "added", "linked", "deleted"}] /\ old \subseteq Codes
  BY DEF Init, links
<1>2. temp \in [Apps -> Filters] /\ filter \in Filters
  BY DEF Init, Filters
<1>3. disk \in [filter : Filters, ready : BOOLEAN, marker : SUBSET Apps,
               temp : [Apps -> Filters]]
  BY <1>2 DEF Init
<1> QED
  BY <1>1, <1>2, <1>3 DEF Init, TypeOK

LEMMA ShortenTypes ==
  ASSUME TypeOK, NEW c \in Codes, Add(c) \/ Insert(c) \/ Delete(c) \/ Age(c)
  PROVE  TypeOK'
BY DEF TypeOK, Filters, Add, Insert, Delete, Age, Held, CodesOf, jobVars, redisVars

LEMMA FinishTypes ==
  ASSUME TypeOK, NEW i \in Apps, Finish(i)
  PROVE  /\ pc' \in [Apps -> {"idle", "check", "mark", "restore", "swap", "since", "page",
                              "add_page", "publish", "snapshot_due", "dump", "dumping",
                              "commit"}]
         /\ rebuilding' \in [Apps -> BOOLEAN]
         /\ before' \in [Apps -> SUBSET Codes]
         /\ cursor' \in [Apps -> Codes \cup {0}]
         /\ hand' \in [Apps -> SUBSET Codes]
         /\ lock' \in Apps \cup {NoApp}
         /\ marker' \subseteq Apps
         /\ temp' \in [Apps -> Filters]
         /\ disk' \in [filter : Filters, ready : BOOLEAN, marker : SUBSET Apps,
                       temp : [Apps -> Filters]]
BY DEF TypeOK, Filters, Finish, Goto

LEMMA JobTypes == ASSUME TypeOK, NEW i \in Apps, JobStep(i) PROVE TypeOK'
<1>1. CASE JobStart(i) \/ JobCheck(i)
  BY <1>1 DEF TypeOK, JobStart, JobCheck, Goto, redisVars
<1>2. CASE SetMarker(i) \/ Restore(i)
  BY <1>2 DEF TypeOK, Filters, SetMarker, Restore, Goto
<1>3. CASE Swap(i)
  BY <1>3 DEF TypeOK, Filters, Swap, Straddlers, LinksMissed, links, Goto
<1>4. CASE Since(i) \/ SnapshotDue(i) \/ LastPage(i) \/ DumpEnd(i)
  BY <1>4 DEF TypeOK, Since, SnapshotDue, LastPage, DumpEnd, Goto, redisVars
<1>5. CASE FetchPage(i)
  <2>1. PICK last \in Due(i) :
          /\ hand' = [hand EXCEPT ![i] = {c \in Due(i) : c <= last}]
          /\ cursor' = [cursor EXCEPT ![i] = last]
    BY <1>5 DEF FetchPage
  <2>2. Due(i) \subseteq Codes
    BY DEF Due, links
  <2> QED
    BY <1>5, <2>1, <2>2 DEF TypeOK, FetchPage, Goto, redisVars
<1>6. CASE AddPage(i) \/ DumpChunk(i)
  BY <1>6 DEF TypeOK, Filters, AddPage, DumpChunk, Held, CodesOf, Goto, redisVars
<1>7. CASE Publish(i) \/ NoSnapshotDue(i) \/ DumpNoKey(i) \/ CommitSnapshot(i)
  <2>1. Finish(i)
    BY <1>7 DEF Publish, NoSnapshotDue, DumpNoKey, CommitSnapshot
  <2>2. mint' = mint /\ old' = old /\ filter' = filter /\ lost' = lost
    BY <1>7 DEF Publish, NoSnapshotDue, DumpNoKey, CommitSnapshot
  <2>3. ready' \in BOOLEAN
    BY <1>7, Zenon DEF TypeOK, Publish, NoSnapshotDue, DumpNoKey, CommitSnapshot
  <2>4. snap' \in {NoSnap} \cup [content : SUBSET Codes, before : SUBSET Codes]
    BY <1>7 DEF TypeOK, Publish, NoSnapshotDue, DumpNoKey, CommitSnapshot
  <2> QED
    BY <2>1, <2>2, <2>3, <2>4, FinishTypes DEF TypeOK
<1> QED
  BY <1>1, <1>2, <1>3, <1>4, <1>5, <1>6, <1>7 DEF JobStep, RecoverStep, RestoreStep, ScanStep, SaveStep

LEMMA TroubleTypes == ASSUME TypeOK, Trouble \/ Fsync PROVE TypeOK'
<1>1. ASSUME NEW i \in Apps, JobFail(i) PROVE TypeOK'
  BY <1>1, FinishTypes DEF TypeOK, JobFail
<1>2. CASE Flush
  <2>1. temp' \in [Apps -> Filters]
    BY <1>2 DEF Flush, Filters
  <2> QED
    BY <1>2, <2>1 DEF TypeOK, Filters, Flush, Straddlers, jobVars
<1>3. CASE ClearSnapshot \/ ClearFilter \/ DropLock
  BY <1>3 DEF TypeOK, Filters, ClearSnapshot, ClearFilter, DropLock, Straddlers,
              jobVars, redisVars
<1>4. CASE Fsync \/ Crash
  BY <1>4 DEF TypeOK, Fsync, Crash, Straddlers, Undone, links, jobVars, redisVars
<1> QED
  BY <1>1, <1>2, <1>3, <1>4 DEF Trouble

LEMMA TypeStep == TypeOK /\ [Next]_vars => TypeOK'
<1>1. ASSUME TypeOK, UNCHANGED vars PROVE TypeOK'
  BY <1>1 DEF TypeOK, vars
<1> QED
  BY <1>1, ShortenTypes, JobTypes, TroubleTypes DEF Next

(* Type correctness of the filter, the job and the snapshot.               *)
THEOREM TypeCorrect == Spec => []TypeOK
BY TypeInit, TypeStep, PTL DEF Spec

----------------------------------------------------------------------------
(* Completeness of the filter, while flushes, operators and crashes of     *)
(* Redis leave passes that have seen bloom:ready, resp. all passes, alone. *)
(* (Two runs show what they do otherwise.)  The lock is not needed: passes *)
(* may overlap as they like.                                               *)

Undisturbed == /\ FlushDuringReadyPass = FALSE
               /\ ClearDuringJob = FALSE
               /\ CrashDuringJob = FALSE

(* Each app knows which branch it is in, and a marker, in memory or on     *)
(* disk, belongs to a rebuild.                                             *)
Branches == \A i \in Apps :
  /\ pc[i] \in {"mark", "restore", "swap", "publish"} => rebuilding[i]
  /\ pc[i] \in {"idle", "check", "since", "snapshot_due", "dump", "dumping", "commit"}
       => ~rebuilding[i]
  /\ pc[i] \in {"idle", "check", "mark", "restore"} => before[i] = {}
  /\ pc[i] \in {"idle", "check", "mark", "restore", "swap", "since"} => cursor[i] = 0
  /\ i \in marker \cup disk.marker => rebuilding[i]

Past == {c \in Codes : mint[c] \in {"linked", "deleted"}}

(* What a scan skips and what a snapshot covers has been in the table. *)
CutoffsPast == /\ old \subseteq Past
               /\ \A i \in Apps : before[i] \subseteq Past
               /\ snap # NoSnap => snap.before \subseteq Past

(* A code with a row on its way is in the filter, or is a lost straddler. *)
AddedHeld == \A c \in Codes : mint[c] = "added" => c \in Held \cup lost

Complete == links \subseteq Held \cup lost

(* A ready filter is complete; what a crash would bring back of it has the *)
(* links older than OVERLAP.                                               *)
FilterHolds == /\ ready => Complete
               /\ disk.ready => links \cap old \subseteq OnDisk \cup lost

(* A link is in the filter, on the page in hand, or still to be scanned. *)
ScanHolds(i) ==
  \A c \in links : \/ c \in Held \cup lost
                   \/ pc[i] = "add_page" /\ c \in hand[i]
                   \/ c \notin before[i] /\ c > cursor[i]

(* A pass that has seen the flag can rely on it; what is restored or dumped*)
(* covers what it should; and a rebuild whose marker is still there has not*)
(* been flushed, which is what its RENAME to bloom:ready will rely on.     *)
OfApp(i) ==
  /\ ReadyPass(i) => ready
  /\ pc[i] = "swap" /\ temp[i] # NoKey => before[i] \cap links \subseteq temp[i] \cup lost
  /\ pc[i] \in {"dumping", "commit"} => before[i] \cap links \subseteq hand[i] \cup lost
  /\ i \in marker /\ pc[i] \in {"page", "add_page"} => ScanHolds(i)
  /\ i \in marker /\ pc[i] = "publish" => Complete

IInv == /\ TypeOK
        /\ Branches /\ CutoffsPast /\ AddedHeld /\ FilterHolds /\ SnapshotCovers
        /\ \A i \in Apps : OfApp(i)


LEMMA IInvInit == Init => IInv
<1> SUFFICES ASSUME Init PROVE IInv
  OBVIOUS
<1>1. Branches /\ CutoffsPast
  BY DEF Init, Branches, CutoffsPast, Past, links
<1>2. AddedHeld /\ FilterHolds /\ SnapshotCovers
  BY DEF Init, AddedHeld, FilterHolds, SnapshotCovers
<1>3. \A i \in Apps : OfApp(i)
  BY DEF Init, OfApp, ReadyPass
<1> QED
  BY <1>1, <1>2, <1>3, TypeInit DEF IInv

(* BF.INSERT only adds. *)
LEMMA HeldGrows ==
  ASSUME TypeOK, NEW codes \in SUBSET Codes, filter' = Held \cup codes
  PROVE  Held' = Held \cup codes
BY KeysDiffer DEF TypeOK, Filters, Held, CodesOf

(* Shortens, deletes and time. *)
LEMMA ShortenKeeps ==
  ASSUME IInv, TypeOK', NEW c \in Codes, Add(c) \/ Insert(c) \/ Delete(c) \/ Age(c)
  PROVE  IInv'
<1>1. /\ UNCHANGED <<snap, lock, ready, marker, temp, disk, jobVars, lost>>
      /\ OnDisk' = OnDisk
  BY DEF Add, Insert, Delete, Age, redisVars, OnDisk
<1>2. Held \subseteq Held' /\ (mint'[c] = "added" => c \in Held' \cup lost)
  <2>1. CASE Add(c)
    <3>1. {c} \in SUBSET Codes /\ filter' = Held \cup {c}
      BY <2>1 DEF Add
    <3> QED
      BY <3>1, HeldGrows DEF IInv
  <2>2. CASE Insert(c) \/ Delete(c) \/ Age(c)
    BY <2>2 DEF IInv, TypeOK, AddedHeld, Insert, Delete, Age, redisVars, Held
  <2> QED
    BY <2>1, <2>2
<1>3. /\ Past \subseteq Past' /\ links' \subseteq links \cup (Held \cup lost)
      /\ (links' \ links) \cap Past = {}
      /\ \A d \in Codes : d # c => mint'[d] = mint[d]
  BY DEF IInv, TypeOK, Past, links, AddedHeld, Add, Insert, Delete, Age
<1>4. /\ old' \subseteq Past'
      /\ disk.ready => links' \cap old' \subseteq OnDisk \cup lost
  <2>1. CASE Age(c)
    BY <2>1 DEF IInv, CutoffsPast, FilterHolds, Age, Past, links, OnDisk
  <2>2. CASE Add(c) \/ Insert(c) \/ Delete(c)
    <3>1. old' = old
      BY <2>2 DEF Add, Insert, Delete
    <3> QED
      BY <1>3, <3>1 DEF IInv, CutoffsPast, FilterHolds
  <2> QED
    BY <2>1, <2>2
<1>5. Branches' /\ CutoffsPast' /\ AddedHeld' /\ SnapshotCovers'
  <2>1. Branches'
    BY <1>1 DEF IInv, Branches, jobVars
  <2>2. CutoffsPast'
    BY <1>1, <1>3, <1>4 DEF IInv, CutoffsPast, jobVars
  <2>3. AddedHeld'
    BY <1>1, <1>2, <1>3 DEF IInv, AddedHeld
  <2>4. SnapshotCovers'
    BY <1>1, <1>3 DEF IInv, SnapshotCovers, CutoffsPast
  <2> QED
    BY <2>1, <2>2, <2>3, <2>4
<1>6. Complete => Complete'
  BY <1>1, <1>2, <1>3 DEF Complete
<1>7. FilterHolds'
  BY <1>1, <1>4, <1>6 DEF IInv, FilterHolds
<1>8. ASSUME NEW i \in Apps PROVE OfApp(i)'
  <2>1. before[i] \subseteq Past /\ OfApp(i)
    BY DEF IInv, CutoffsPast
  <2>2. ScanHolds(i) => ScanHolds(i)'
    BY <1>1, <1>2, <1>3, <2>1 DEF ScanHolds, jobVars
  <2>3. before[i] \cap links' \subseteq before[i] \cap links
    BY <1>3, <2>1
  <2> QED
    BY <1>1, <1>6, <2>1, <2>2, <2>3 DEF OfApp, ReadyPass, jobVars
<1> QED
  BY <1>5, <1>7, <1>8 DEF IInv

----------------------------------------------------------------------------
(* The steps of app i.  Of another app j only what is said of the filter   *)
(* and the flag can change.                                                *)
LEMMA OthersKeep ==
  ASSUME NEW j \in Apps, OfApp(j), links' = links, lost \subseteq lost', ready => ready',
         \/ Held \subseteq Held'
         \/ pc[j] \in {"page", "add_page", "publish"} => links \subseteq Held' \cup lost',
         pc'[j] = pc[j], rebuilding'[j] = rebuilding[j], before'[j] = before[j],
         cursor'[j] = cursor[j], hand'[j] = hand[j], temp'[j] = temp[j],
         j \in marker' => j \in marker
  PROVE  OfApp(j)'
<1>1. pc[j] = "publish" /\ Complete => Complete'
  BY DEF Complete
<1>2. pc[j] \in {"page", "add_page"} /\ ScanHolds(j) => ScanHolds(j)'
  BY DEF ScanHolds
<1> QED
  BY <1>1, <1>2 DEF OfApp, ReadyPass

(* The end of a pass, successful or not, leaves nothing half done.         *)
LEMMA FinishKeeps ==
  ASSUME IInv, TypeOK', NEW i \in Apps, Finish(i), UNCHANGED <<mint, old, filter, lost>>,
         ready => ready', ready' => Complete,
         snap' # NoSnap => /\ snap'.before \subseteq Past
                           /\ snap'.before \cap links \subseteq snap'.content \cup lost
  PROVE  IInv'
<1> USE DEF Finish, Goto
<1>1. links' = links /\ Held' = Held /\ Past' = Past
  BY DEF links, Held, Past
<1>2. OnDisk' = OnDisk /\ disk'.ready = disk.ready /\ disk'.marker = disk.marker \ {i}
  BY DEF IInv, TypeOK, OnDisk
<1>3. Branches' /\ CutoffsPast'
  BY <1>1, <1>2 DEF IInv, TypeOK, Branches, CutoffsPast
<1>4. AddedHeld' /\ SnapshotCovers'
  BY <1>1 DEF IInv, AddedHeld, SnapshotCovers
<1>5. FilterHolds'
  BY <1>1, <1>2 DEF IInv, FilterHolds, Complete
<1>6. ASSUME NEW j \in Apps PROVE OfApp(j)'
  <2>1. CASE j = i
    BY <2>1 DEF IInv, TypeOK, OfApp, ReadyPass
  <2>2. CASE j # i
    <3>1. /\ pc'[j] = pc[j] /\ rebuilding'[j] = rebuilding[j] /\ before'[j] = before[j]
          /\ cursor'[j] = cursor[j] /\ hand'[j] = hand[j] /\ temp'[j] = temp[j]
          /\ j \in marker' => j \in marker
      BY <2>2 DEF IInv, TypeOK
    <3> QED
      BY <1>1, <3>1, OthersKeep DEF IInv
  <2> QED
    BY <2>1, <2>2
<1> QED
  BY <1>3, <1>4, <1>5, <1>6 DEF IInv

LEMMA EndKeeps ==
  ASSUME IInv, TypeOK', NEW i \in Apps,
         Publish(i) \/ NoSnapshotDue(i) \/ DumpNoKey(i) \/ CommitSnapshot(i) \/ JobFail(i)
  PROVE  IInv'
<1> USE DEF Publish, NoSnapshotDue, DumpNoKey, CommitSnapshot, JobFail
<1>1. Finish(i) /\ UNCHANGED <<mint, old, filter, lost>>
  OBVIOUS
<1>2. ready' => ready \/ (pc[i] = "publish" /\ i \in marker)
  BY Zenon
<1>up. ready => ready'
  BY Zenon
<1>3. ready' => Complete
  BY <1>2 DEF IInv, FilterHolds, OfApp
<1>4. snap' = snap \/ (snap' = [content |-> hand[i], before |-> before[i]]
                       /\ pc[i] = "commit")
  OBVIOUS
<1>5. snap' # NoSnap => /\ snap'.before \subseteq Past
                        /\ snap'.before \cap links \subseteq snap'.content \cup lost
  BY <1>4 DEF IInv, SnapshotCovers, CutoffsPast, OfApp
<1> QED
  BY <1>1, <1>up, <1>3, <1>5, FinishKeeps

(* Steps that touch neither Redis, nor its disk, nor the snapshot. *)
LEMMA LocalKeeps ==
  ASSUME IInv, TypeOK', NEW i \in Apps,
         JobStart(i) \/ JobCheck(i) \/ Since(i) \/ SnapshotDue(i) \/ FetchPage(i)
           \/ LastPage(i) \/ DumpChunk(i) \/ DumpEnd(i)
  PROVE  IInv'
<1>fetched. ASSUME FetchPage(i)
      PROVE  \E last \in Due(i) :
               /\ hand' = [hand EXCEPT ![i] = {c \in Due(i) : c <= last}]
               /\ cursor' = [cursor EXCEPT ![i] = last]
  BY <1>fetched DEF FetchPage
<1> USE DEF Goto, redisVars
<1>1. /\ UNCHANGED <<mint, old, snap, redisVars, disk, lost>>
      /\ \A j \in Apps \ {i} :
           /\ pc'[j] = pc[j] /\ rebuilding'[j] = rebuilding[j] /\ before'[j] = before[j]
           /\ cursor'[j] = cursor[j] /\ hand'[j] = hand[j]
      /\ before' \in {before, [before EXCEPT ![i] = old]}
  <2>1. CASE FetchPage(i)
    BY <1>fetched, <2>1 DEF FetchPage, IInv, TypeOK
  <2>2. CASE JobStart(i) \/ JobCheck(i) \/ Since(i) \/ SnapshotDue(i)
               \/ LastPage(i) \/ DumpChunk(i) \/ DumpEnd(i)
    BY <2>2 DEF JobStart, JobCheck, Since, SnapshotDue, LastPage, DumpChunk, DumpEnd,
                IInv, TypeOK
  <2> QED
    BY <2>1, <2>2
<1>2. /\ links' = links /\ Held' = Held /\ Past' = Past /\ OnDisk' = OnDisk
      /\ Complete' = Complete
  BY <1>1 DEF links, Held, Past, OnDisk, Complete
<1>3. Branches'
  <2> USE DEF IInv, TypeOK
  <2>1. CASE FetchPage(i)
    BY <1>1, <2>1 DEF FetchPage, Branches
  <2>2. CASE JobStart(i)
    BY <2>2 DEF JobStart, Branches
  <2>3. CASE JobCheck(i)
    BY <2>3 DEF JobCheck, Branches
  <2>4. CASE Since(i) \/ SnapshotDue(i)
    BY <2>4 DEF Since, SnapshotDue, Branches
  <2>5. CASE LastPage(i)
    BY <2>5 DEF LastPage, Branches
  <2>6. CASE DumpChunk(i) \/ DumpEnd(i)
    BY <2>6 DEF DumpChunk, DumpEnd, Branches
  <2> QED
    BY <2>1, <2>2, <2>3, <2>4, <2>5, <2>6
<1>4. CutoffsPast' /\ AddedHeld' /\ FilterHolds' /\ SnapshotCovers'
  <2>1. CutoffsPast'
    BY <1>1, <1>2 DEF IInv, TypeOK, CutoffsPast
  <2>2. AddedHeld' /\ FilterHolds' /\ SnapshotCovers'
    BY <1>1, <1>2 DEF IInv, AddedHeld, FilterHolds, SnapshotCovers
  <2> QED
    BY <2>1, <2>2
<1>5. OfApp(i)'
  <2> USE DEF IInv, TypeOK
  <2>1. CASE JobStart(i) \/ JobCheck(i)
    BY <1>1, <2>1 DEF JobStart, JobCheck, OfApp, ReadyPass
  <2>2. CASE Since(i) \/ SnapshotDue(i)
    <3>1. i \notin marker
      BY <2>2 DEF Since, SnapshotDue, Branches
    <3> QED
      BY <1>1, <2>2, <3>1 DEF Since, SnapshotDue, OfApp, ReadyPass
  <2>3. CASE FetchPage(i)
    <3>1. PICK last \in Due(i) :
            hand'[i] = {c \in Due(i) : c <= last} /\ cursor'[i] = last
      BY <1>fetched, <2>3
    <3>2. /\ pc[i] = "page" /\ pc'[i] = "add_page" /\ marker' = marker /\ ready' = ready
          /\ rebuilding' = rebuilding /\ before' = before
      BY <2>3 DEF FetchPage
    <3>3. i \in marker => ScanHolds(i)'
      <4> SUFFICES ASSUME i \in marker, NEW c \in links, c \notin Held \cup lost
                   PROVE  c \in hand'[i] \/ (c \notin before'[i] /\ c > cursor'[i])
        BY <1>1, <1>2, <3>2 DEF ScanHolds
      <4>1. c \notin before[i] /\ c > cursor[i]
        BY <3>2 DEF OfApp, ScanHolds
      <4>2. c \in Due(i)
        BY <4>1 DEF Due
      <4>3. c \in Nat /\ last \in Nat
        BY CodesOrdered DEF links, Due
      <4> QED
        BY <3>1, <3>2, <4>1, <4>2, <4>3
    <3> QED
      BY <1>2, <3>2, <3>3 DEF OfApp, ReadyPass
  <2>4. CASE LastPage(i)
    <3>1. i \in marker => Complete
      BY <2>4 DEF LastPage, OfApp, ScanHolds, Due, Complete
    <3> QED
      BY <1>2, <2>4, <3>1 DEF LastPage, OfApp, ReadyPass
  <2>5. CASE DumpChunk(i) \/ DumpEnd(i)
    <3>1. ready /\ ~rebuilding[i]
      BY <2>5 DEF DumpChunk, DumpEnd, OfApp, ReadyPass, Branches
    <3>2. links \subseteq Held \cup lost
      BY <3>1 DEF FilterHolds, Complete
    <3>3. before'[i] \cap links \subseteq hand'[i] \cup lost
      BY <2>5, <3>2 DEF DumpChunk, DumpEnd, OfApp, Held, CodesOf
    <3>4. /\ pc'[i] \in {"dumping", "commit"} /\ ready' /\ lost' = lost
      BY <2>5, <3>1 DEF DumpChunk, DumpEnd
    <3> QED
      BY <1>2, <3>3, <3>4 DEF OfApp
  <2> QED
    BY <2>1, <2>2, <2>3, <2>4, <2>5
<1>6. ASSUME NEW j \in Apps, j # i PROVE OfApp(j)'
  <2>1. OfApp(j)
    BY DEF IInv
  <2> QED
    BY <1>1, <1>2, <1>6, <2>1, OthersKeep
<1> QED
  BY <1>3, <1>4, <1>5, <1>6 DEF IInv

(* Steps that change Redis.  A RENAME that takes away what another pass    *)
(* relies on is what LinksMissed records.                                  *)
LEMMA RedisKeeps ==
  ASSUME IInv, TypeOK', NEW i \in Apps,
         SetMarker(i) \/ Restore(i) \/ Swap(i) \/ AddPage(i)
  PROVE  IInv'
<1> USE DEF Goto
<1>1. /\ UNCHANGED <<mint, old, snap, ready, disk>>
      /\ pc[i] \in {"mark", "restore", "swap", "add_page"}
      /\ marker' \ {i} = marker \ {i} /\ lost \subseteq lost'
      /\ \A j \in Apps \ {i} :
           /\ pc'[j] = pc[j] /\ rebuilding'[j] = rebuilding[j] /\ before'[j] = before[j]
           /\ cursor'[j] = cursor[j] /\ hand'[j] = hand[j] /\ temp'[j] = temp[j]
  BY DEF IInv, TypeOK, SetMarker, Restore, Swap, AddPage
<1>2. links' = links /\ Past' = Past /\ OnDisk' = OnDisk
  BY <1>1 DEF links, Past, OnDisk
<1>3. \/ Held \subseteq Held'
      \/ /\ Swap(i) /\ Held' = temp[i]
         /\ lost' = lost \cup Straddlers(temp[i]) \cup LinksMissed(temp[i], i)
  <2>1. CASE SetMarker(i) \/ Restore(i)
    BY <2>1 DEF SetMarker, Restore, Held
  <2>2. CASE Swap(i)
    BY <2>2 DEF Swap, Held, CodesOf
  <2>3. CASE AddPage(i)
    <3>1. hand[i] \in SUBSET Codes /\ filter' = Held \cup hand[i]
      BY <2>3 DEF IInv, TypeOK, AddPage
    <3> QED
      BY <3>1, HeldGrows DEF IInv
  <2> QED
    BY <2>1, <2>2, <2>3
<1>4. \A c \in Codes : mint[c] = "added" => c \in Held' \cup lost'
  BY <1>1, <1>3 DEF IInv, AddedHeld, Straddlers
<1>5. ASSUME ready \/ \E j \in Apps \ {i} : pc[j] \in {"page", "add_page", "publish"}
      PROVE  Held \subseteq Held' \/ links \subseteq Held' \cup lost'
  BY <1>3, <1>5 DEF LinksMissed
<1>6. Branches'
  BY <1>1 DEF IInv, TypeOK, SetMarker, Restore, Swap, AddPage, Branches
<1>7. CutoffsPast' /\ AddedHeld' /\ SnapshotCovers'
  <2>1. before' \in {before, [before EXCEPT ![i] = {}]}
        \/ (snap # NoSnap /\ before' = [before EXCEPT ![i] = snap.before])
    BY DEF SetMarker, Restore, Swap, AddPage
  <2>2. CutoffsPast'
    BY <1>1, <1>2, <2>1 DEF IInv, TypeOK, CutoffsPast
  <2>3. AddedHeld' /\ SnapshotCovers'
    BY <1>1, <1>2, <1>4 DEF IInv, AddedHeld, SnapshotCovers
  <2> QED
    BY <2>2, <2>3
<1>8. FilterHolds'
  BY <1>1, <1>2, <1>5 DEF IInv, FilterHolds, Complete
<1>9. OfApp(i)'
  <2> USE DEF IInv, TypeOK
  <2>1. CASE SetMarker(i)
    BY <1>2, <2>1 DEF SetMarker, OfApp, ReadyPass, Branches
  <2>2. CASE Restore(i)
    <3>1. pc'[i] = "page" => ScanHolds(i)'
      BY <1>2, <2>2, CodesOrdered DEF Restore, ScanHolds, Branches, links
    <3>2. pc'[i] = "swap" => before'[i] \cap links \subseteq temp'[i] \cup lost
      BY <2>2 DEF Restore, SnapshotCovers
    <3> QED
      BY <1>2, <2>2, <3>1, <3>2 DEF Restore, OfApp, ReadyPass, Branches
  <2>3. CASE Swap(i)
    <3>1. ScanHolds(i)'
      <4>1. cursor'[i] = 0
        BY <2>3 DEF Swap, Branches
      <4>2. \/ before'[i] = {}
            \/ /\ before' = before /\ temp[i] # NoKey
               /\ filter' = temp[i]
        BY <2>3 DEF Swap
      <4>3. before'[i] = {} \/ before'[i] \cap links \subseteq Held' \cup lost
        BY <2>3, <4>2 DEF Swap, OfApp, Held, CodesOf
      <4> QED
        BY <1>1, <1>2, <4>1, <4>3, CodesOrdered DEF ScanHolds, links
    <3> QED
      BY <1>2, <2>3, <3>1 DEF Swap, OfApp, ReadyPass, Branches
  <2>4. CASE AddPage(i)
    <3>1. Held' = Held \cup hand[i]
      BY <2>4, HeldGrows DEF AddPage
    <3> QED
      BY <1>2, <2>4, <3>1 DEF AddPage, OfApp, ReadyPass, ScanHolds
  <2> QED
    BY <2>1, <2>2, <2>3, <2>4
<1>10. ASSUME NEW j \in Apps, j # i PROVE OfApp(j)'
  <2>1. OfApp(j) /\ (j \in marker' => j \in marker)
    BY <1>1, <1>10 DEF IInv
  <2>2. \/ Held \subseteq Held'
        \/ pc[j] \in {"page", "add_page", "publish"} => links \subseteq Held' \cup lost'
    BY <1>5, <1>10
  <2> QED
    BY <1>1, <1>2, <1>10, <2>1, <2>2, OthersKeep
<1> QED
  BY <1>6, <1>7, <1>8, <1>9, <1>10 DEF IInv

----------------------------------------------------------------------------
(* What happens to the servers. *)
LEMMA TroubleKeeps ==
  ASSUME Undisturbed, IInv, TypeOK',
         Flush \/ ClearSnapshot \/ ClearFilter \/ Fsync \/ Crash \/ DropLock
  PROVE  IInv'
<1> USE DEF IInv, TypeOK, Undisturbed, jobVars
<1>1. /\ UNCHANGED <<mint, old, jobVars>> /\ lost \subseteq lost'
      /\ links' = links /\ Past' = Past
  BY DEF Flush, ClearSnapshot, ClearFilter, Fsync, Crash, DropLock, links, Past, redisVars
<1>2. snap' \in {snap, NoSnap}
  BY DEF Flush, ClearSnapshot, ClearFilter, Fsync, Crash, DropLock
<1>3. CutoffsPast' /\ SnapshotCovers'
  BY <1>1, <1>2 DEF CutoffsPast, SnapshotCovers
<1>4. CASE Flush
  <2>1. \A i \in Apps : ~ReadyPass(i) /\ pc[i] \notin {"dumping", "commit"}
    BY <1>4 DEF Flush, ReadyPass, Branches
  <2>2. Branches' /\ FilterHolds' /\ \A i \in Apps : OfApp(i)'
    BY <1>4, <2>1 DEF Flush, Branches, FilterHolds, OfApp, ReadyPass
  <2>3. AddedHeld'
    BY <1>4 DEF Flush, AddedHeld, Straddlers
  <2> QED
    BY <1>3, <2>2, <2>3
<1>5. CASE ClearFilter \/ Crash
  <2>1. Resting
    BY <1>5 DEF ClearFilter, Crash
  <2>2. \A i \in Apps : pc[i] \in {"idle", "check"} /\ i \notin marker \cup disk.marker
    BY <2>1 DEF Resting, Branches
  <2>3. UNCHANGED <<pc, rebuilding, before, cursor, disk>> /\ marker' \in {marker, disk.marker}
    BY <1>5 DEF ClearFilter, Crash
  <2>4. Branches' /\ \A i \in Apps : OfApp(i)'
    BY <2>2, <2>3 DEF Branches, OfApp, ReadyPass
  <2>5. AddedHeld' /\ FilterHolds'
    <3>1. CASE ClearFilter
      BY <1>1, <3>1 DEF ClearFilter, AddedHeld, FilterHolds, Straddlers, OnDisk
    <3>2. CASE Crash
      <4>1. Held' = OnDisk /\ OnDisk' = OnDisk /\ ready' = disk.ready
            /\ lost' = lost \cup Straddlers(OnDisk) \cup Undone
        BY <3>2 DEF Crash, Held, OnDisk
      <4>2. disk.ready => links \subseteq OnDisk \cup lost'
        BY <4>1 DEF FilterHolds, Undone
      <4>3. AddedHeld'
        BY <1>1, <4>1 DEF AddedHeld, Straddlers
      <4> QED
        BY <1>1, <2>3, <4>1, <4>2, <4>3 DEF FilterHolds, Complete
    <3> QED
      BY <1>5, <3>1, <3>2
  <2> QED
    BY <1>3, <2>4, <2>5
<1>6. CASE ClearSnapshot \/ Fsync \/ DropLock
  <2>1. UNCHANGED <<filter, ready, marker, temp, lost>>
    BY <1>6 DEF ClearSnapshot, Fsync, DropLock, redisVars
  <2>2. disk' = disk
        \/ disk' = [filter |-> filter, ready |-> ready, marker |-> marker, temp |-> temp]
    BY <1>6 DEF ClearSnapshot, Fsync, DropLock
  <2>3. Held' = Held
    BY <2>1 DEF Held
  <2>4. Branches' /\ AddedHeld'
    BY <1>1, <2>1, <2>2, <2>3 DEF Branches, AddedHeld
  <2>5. disk'.ready => links \cap old \subseteq OnDisk' \cup lost
    BY <2>2 DEF FilterHolds, Complete, OnDisk, Held
  <2>6. FilterHolds'
    BY <1>1, <2>1, <2>3, <2>5 DEF FilterHolds, Complete
  <2>7. \A i \in Apps : OfApp(i)'
    BY <1>1, <2>1, <2>3 DEF OfApp, ReadyPass, ScanHolds, Complete
  <2> QED
    BY <1>3, <2>4, <2>6, <2>7
<1> QED
  BY <1>4, <1>5, <1>6

LEMMA IInvStep == Undisturbed /\ IInv /\ [Next]_vars => IInv'
<1> SUFFICES ASSUME Undisturbed, IInv, [Next]_vars PROVE IInv'
  OBVIOUS
<1>1. TypeOK'
  BY TypeStep DEF IInv
<1>2. CASE UNCHANGED vars
  <2>1. links' = links /\ Held' = Held /\ Past' = Past /\ OnDisk' = OnDisk
    BY <1>2 DEF vars, links, Held, Past, OnDisk
  <2>2. Branches' /\ CutoffsPast' /\ AddedHeld' /\ FilterHolds' /\ SnapshotCovers'
    BY <1>2, <2>1 DEF vars, IInv, Branches, CutoffsPast, AddedHeld, FilterHolds, Complete,
                      SnapshotCovers
  <2>3. \A i \in Apps : OfApp(i)'
    BY <1>2, <2>1 DEF vars, IInv, OfApp, ReadyPass, ScanHolds, Complete
  <2> QED
    BY <1>1, <2>2, <2>3 DEF IInv
<1>3. ASSUME NEW i \in Apps, JobStep(i) \/ JobFail(i) PROVE IInv'
  BY <1>1, <1>3, LocalKeeps, RedisKeeps, EndKeeps
  DEF JobStep, RecoverStep, RestoreStep, ScanStep, SaveStep
<1>4. ASSUME NEW c \in Codes, Add(c) \/ Insert(c) \/ Delete(c) \/ Age(c) PROVE IInv'
  BY <1>1, <1>4, ShortenKeeps
<1> QED
  BY <1>1, <1>2, <1>3, <1>4, TroubleKeeps DEF Next, Trouble

(* A ready filter misses no link but the lost ones, with any number of     *)
(* jobs, codes and pages: through flushes during rebuilds, failed passes,  *)
(* restored snapshots, crashes of Redis between passes, and passes that    *)
(* overlap because a lock broke.                                           *)
THEOREM ReadyFilterComplete ==
  ASSUME Undisturbed PROVE Spec => []OnlyLostMissing
<1>1. IInv => OnlyLostMissing
  BY DEF IInv, FilterHolds, Complete, OnlyLostMissing, SaidAbsent
<1>2. Undisturbed
  OBVIOUS
<1> QED
  BY <1>1, <1>2, IInvInit, IInvStep, PTL DEF Spec

(* Every snapshot covers what catching up from it skips: daily snapshots   *)
(* of a growing table, restored at any later time, leave no gap.           *)
THEOREM SnapshotsCover ==
  ASSUME Undisturbed PROVE Spec => []SnapshotCovers
<1>1. IInv => SnapshotCovers
  BY DEF IInv
<1>2. Undisturbed
  OBVIOUS
<1> QED
  BY <1>1, <1>2, IInvInit, IInvStep, PTL DEF Spec

----------------------------------------------------------------------------
(* Within the time in which no further row grows old, every cutoff covers  *)
(* the old links, and none of them is ever lost.                           *)

OldCovered(i) ==
  /\ pc[i] \in {"dump", "dumping", "commit"} => old \subseteq before[i]
  /\ pc[i] = "swap" /\ temp[i] # NoKey => old \subseteq before[i]

OldKept == /\ links \cap old \cap lost = {}
           /\ snap # NoSnap => old \subseteq snap.before
           /\ \A i \in Apps : OldCovered(i)

LEMMA OldInit == Init => OldKept
BY DEF Init, OldKept, OldCovered

LEMMA OldShorten ==
  ASSUME CodesAge = FALSE, IInv, OldKept, NEW c \in Codes,
         Add(c) \/ Insert(c) \/ Delete(c) \/ Age(c)
  PROVE  OldKept'
<1>1. UNCHANGED <<old, snap, temp, jobVars, lost>>
  BY DEF Add, Insert, Delete, Age, redisVars
<1>2. links' \cap old \subseteq links
  BY DEF IInv, TypeOK, CutoffsPast, Past, links, Add, Insert, Delete, Age
<1> QED
  BY <1>1, <1>2 DEF OldKept, OldCovered, jobVars

LEMMA OldJob ==
  ASSUME IInv, OldKept, NEW i \in Apps, JobStep(i) \/ JobFail(i)
  PROVE  OldKept'
<1> USE DEF Goto, redisVars
<1>1. mint' = mint /\ old' = old /\ links' = links
  BY DEF JobStep, RecoverStep, RestoreStep, ScanStep, SaveStep, JobStart, JobCheck, SetMarker,
         Restore, Swap, Publish, Since, FetchPage, AddPage, LastPage, SnapshotDue,
         NoSnapshotDue, DumpChunk, DumpEnd, DumpNoKey, CommitSnapshot, JobFail, links
<1>2. CASE Swap(i)
  <2>1. old \cap Straddlers(temp[i]) = {}
    BY DEF IInv, CutoffsPast, Past, Straddlers
  <2>2. temp[i] # NoKey => old \cap LinksMissed(temp[i], i) \subseteq lost
    BY <1>2 DEF IInv, OfApp, OldKept, OldCovered, LinksMissed, Swap
  <2>3. links \cap old \cap lost' = {}
    BY <1>2, <2>1, <2>2 DEF OldKept, Swap
  <2>4. \A j \in Apps : OldCovered(j)'
    BY <1>1, <1>2 DEF IInv, TypeOK, OldKept, OldCovered, Swap
  <2> QED
    BY <1>1, <1>2, <2>3, <2>4 DEF OldKept, Swap
<1>3. CASE Restore(i)
  BY <1>1, <1>3 DEF IInv, TypeOK, OldKept, OldCovered, Restore
<1>4. CASE JobStart(i) \/ JobCheck(i) \/ SetMarker(i) \/ Since(i) \/ AddPage(i) \/ LastPage(i)
  BY <1>1, <1>4 DEF IInv, TypeOK, OldKept, OldCovered, JobStart, JobCheck, SetMarker, Since,
                    AddPage, LastPage
<1>5. CASE FetchPage(i)
  BY <1>1, <1>5 DEF IInv, TypeOK, OldKept, OldCovered, FetchPage
<1>6. CASE SnapshotDue(i) \/ DumpChunk(i) \/ DumpEnd(i)
  BY <1>1, <1>6 DEF IInv, TypeOK, OldKept, OldCovered, SnapshotDue, DumpChunk, DumpEnd
<1>7. CASE Publish(i) \/ NoSnapshotDue(i) \/ DumpNoKey(i) \/ CommitSnapshot(i) \/ JobFail(i)
  <2>1. Finish(i) /\ lost' = lost
    BY <1>7 DEF Publish, NoSnapshotDue, DumpNoKey, CommitSnapshot, JobFail
  <2>2. \A j \in Apps : OldCovered(j)'
    BY <1>1, <2>1 DEF IInv, TypeOK, OldKept, OldCovered, Finish
  <2>3. snap' = snap \/ (snap' = [content |-> hand[i], before |-> before[i]]
                         /\ pc[i] = "commit")
    BY <1>7 DEF Publish, NoSnapshotDue, DumpNoKey, CommitSnapshot, JobFail
  <2> QED
    BY <1>1, <2>1, <2>2, <2>3 DEF OldKept, OldCovered
<1> QED
  BY <1>2, <1>3, <1>4, <1>5, <1>6, <1>7
  DEF JobStep, RecoverStep, RestoreStep, ScanStep, SaveStep

LEMMA OldTrouble ==
  ASSUME Undisturbed, IInv, OldKept,
         Flush \/ ClearSnapshot \/ ClearFilter \/ Fsync \/ Crash \/ DropLock
  PROVE  OldKept'
<1> USE DEF Undisturbed, jobVars, redisVars
<1>1. /\ UNCHANGED <<mint, old, pc, before>> /\ links' = links /\ snap' \in {snap, NoSnap}
  BY DEF Flush, ClearSnapshot, ClearFilter, Fsync, Crash, DropLock, links
<1>2. old \cap Straddlers({}) = {} /\ old \cap (Straddlers(OnDisk) \cup Undone) = {}
  BY DEF IInv, CutoffsPast, Past, Straddlers, Undone
<1>3. lost' = lost \/ lost' = lost \cup Straddlers({})
      \/ lost' = lost \cup Straddlers(OnDisk) \cup Undone
  BY DEF Flush, ClearSnapshot, ClearFilter, Fsync, Crash, DropLock
<1>4. temp' = temp \/ temp' = [i \in Apps |-> NoKey] \/ \A i \in Apps : pc[i] # "swap"
  BY DEF Flush, ClearSnapshot, ClearFilter, Fsync, Crash, DropLock, Resting
<1>5. \A i \in Apps : OldCovered(i)'
  BY <1>1, <1>4 DEF OldKept, OldCovered
<1> QED
  BY <1>1, <1>2, <1>3, <1>5 DEF OldKept

LEMMA OldStep ==
  CodesAge = FALSE /\ Undisturbed /\ IInv /\ OldKept /\ [Next]_vars => OldKept'
<1> SUFFICES ASSUME CodesAge = FALSE, Undisturbed, IInv, OldKept, [Next]_vars PROVE OldKept'
  OBVIOUS
<1>1. CASE UNCHANGED vars
  BY <1>1 DEF vars, OldKept, OldCovered, links
<1> QED
  BY <1>1, OldShorten, OldJob, OldTrouble DEF Next, Trouble

(* No link of a table older than OVERLAP is ever said to be absent, though *)
(* Redis may crash between passes and lose what is not yet on its disk,    *)
(* and though broken locks may let passes overlap and rename their         *)
(* snapshots over each other's work.                                       *)
THEOREM OldLinksSurvive ==
  ASSUME Undisturbed, CodesAge = FALSE PROVE Spec => []OldLinksHeld
<1>1. IInv /\ OldKept => OldLinksHeld
  BY DEF IInv, FilterHolds, Complete, OldKept, OldLinksHeld, SaidAbsent
<1>2. Undisturbed /\ CodesAge = FALSE
  OBVIOUS
<1> QED
  BY <1>1, <1>2, IInvInit, IInvStep, OldInit, OldStep, PTL DEF Spec
=============================================================================
