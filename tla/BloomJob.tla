------------------------------ MODULE BloomJob ------------------------------
(***************************************************************************)
(* The Bloom filter of tiers 4.2 to 4.4 and the job that maintains it      *)
(* (bloom.rs, the same in the three tiers), next to the shortens and       *)
(* deletes that run at the same time.                                      *)
(*                                                                         *)
(* The filter is the set of codes added to it; its false positives only    *)
(* cost a query and are left out.  Created_at timestamps only matter as    *)
(* "more than OVERLAP ago or not": that is the set old.  A step of a job   *)
(* is one command to Redis or Postgres, or one exchange with the object    *)
(* store.                                                                  *)
(***************************************************************************)
EXTENDS Naturals, FiniteSets

CONSTANTS
  Apps,        \* app instances, each running Bloom::run
  Codes,       \* short codes; < is the text order of links.code
  PageSize,    \* PAGE_SIZE
  NoKey,       \* a Redis key that does not exist
  NoSnap,      \* bloom_snapshots is empty
  NoApp,       \* nobody holds the advisory lock
  CodesAge,              \* does the time modelled exceed OVERLAP?
  FlushDuringReadyPass,  \* may a FLUSHALL hit a pass that has seen bloom:ready?
  ClearDuringJob,        \* may an operator clear the filter during a job?
  LocksMayDrop,          \* may the connection holding the lock break?
  Crashes,               \* may Redis crash and lose its unsynced writes?
  CrashDuringJob         \* may it do so during a job?

ASSUME CodesOrdered == Codes \subseteq Nat \ {0}
ASSUME PageSizePositive == PageSize \in Nat \ {0}
ASSUME KeysDiffer == (\A codes \in SUBSET Codes : codes # NoKey) /\ NoApp \notin Apps
ASSUME SwitchesAreBoolean ==
  {CodesAge, FlushDuringReadyPass, ClearDuringJob, LocksMayDrop, Crashes, CrashDuringJob}
    \subseteq BOOLEAN

VARIABLES
  (* Postgres *)
  mint,        \* per code: how far its shorten, later its DELETE, has come
  old,         \* codes whose created_at is more than OVERLAP ago
  snap,        \* the row of bloom_snapshots with the dump it points to
  lock,        \* the app whose transaction holds JOB_LOCK
  (* Redis *)
  filter,      \* codes_bloom
  ready,       \* whether bloom:ready exists
  marker,      \* apps whose bloom:building:{id} exists
  temp,        \* per app: codes_bloom:restoring:{id}
  disk,        \* what of the four above has reached the append-only file
  (* the jobs *)
  pc,          \* per app: next command of the job
  rebuilding,  \* per app: running recover (or else add_recent)
  before,      \* per app: codes created before "since", resp. before the
               \* snapshot's taken_at - OVERLAP
  cursor,      \* per app: last_code
  hand,        \* per app: the page fetched, resp. what the dump has captured
  lost         \* history: codes that a wipe, a RENAME or a crash has taken
               \* out of the filter and that no rebuild is bound to re-add

jobVars   == <<pc, rebuilding, before, cursor, hand>>
redisVars == <<filter, ready, marker, temp>>
vars == <<mint, old, snap, lock, filter, ready, marker, temp, disk,
          pc, rebuilding, before, cursor, hand, lost>>

----------------------------------------------------------------------------
links == {c \in Codes : mint[c] = "linked"}

CodesOf(key) == IF key = NoKey THEN {} ELSE key
Held   == CodesOf(filter)
OnDisk == CodesOf(disk.filter)

(* might_exist answers "no" for these codes; BF.EXISTS is 0 on no key.     *)
SaidAbsent == IF ready THEN Codes \ Held ELSE {}

(* Codes in the filter whose row is not there yet, when new replaces it.   *)
Straddlers(new) == {c \in Codes : mint[c] = "added"} \ new

(* Besides, the links that nobody is bound to re-add, because the filter is*)
(* ready or another rebuild may have scanned them already.                 *)
LinksMissed(new, i) ==
  IF ready \/ \E j \in Apps \ {i} : pc[j] \in {"page", "add_page", "publish"}
  THEN links \ new ELSE {}

(* The most recent links a crash loses; what is older is on disk.          *)
Undone == IF disk.ready THEN (links \ old) \ OnDisk ELSE {}

Goto(i, step) == pc' = [pc EXCEPT ![i] = step]

(* The job function returns: its locals are gone, its transaction ends, and*)
(* the keys named after this pass are never looked at again.               *)
Finish(i) ==
  /\ Goto(i, "idle")
  /\ rebuilding' = [rebuilding EXCEPT ![i] = FALSE]
  /\ before' = [before EXCEPT ![i] = {}]
  /\ cursor' = [cursor EXCEPT ![i] = 0]
  /\ hand' = [hand EXCEPT ![i] = {}]
  /\ lock' = IF lock = i THEN NoApp ELSE lock
  /\ marker' = marker \ {i}
  /\ temp' = [temp EXCEPT ![i] = NoKey]
  /\ disk' = [disk EXCEPT !.marker = @ \ {i}, !.temp[i] = NoKey]

----------------------------------------------------------------------------
(* Shorten and delete, as far as filter and table see them. *)

(* BF.INSERT of the fresh code; it creates a missing filter.  If it fails  *)
(* shorten returns, and the code, in the filter or not, never gets a row.  *)
Add(c) ==
  /\ mint[c] = "none"
  /\ mint' = [mint EXCEPT ![c] = "added"]
  /\ filter' = Held \cup {c}
  /\ UNCHANGED <<old, snap, lock, ready, marker, temp, disk, jobVars, lost>>

(* The INSERT commits within OVERLAP of its created_at.  It may never come.*)
Insert(c) ==
  /\ mint[c] = "added"
  /\ mint' = [mint EXCEPT ![c] = "linked"]
  /\ UNCHANGED <<old, snap, lock, redisVars, disk, jobVars, lost>>

Delete(c) ==
  /\ mint[c] = "linked"
  /\ mint' = [mint EXCEPT ![c] = "deleted"]
  /\ UNCHANGED <<old, snap, lock, redisVars, disk, jobVars, lost>>

(* now() - OVERLAP passes the created_at of a row.  The disk is a second    *)
(* behind, OVERLAP is five minutes: by then the disk has what was added.   *)
Age(c) ==
  /\ CodesAge
  /\ c \in links \ old
  /\ disk.ready => c \in OnDisk \cup lost
  /\ old' = old \cup {c}
  /\ UNCHANGED <<mint, snap, lock, redisVars, disk, jobVars, lost>>

----------------------------------------------------------------------------
(* job: one pass, serialized by the advisory lock. *)

(* pg_try_advisory_xact_lock; without the lock the pass is over at once. *)
JobStart(i) ==
  /\ pc[i] = "idle"
  /\ lock = NoApp
  /\ lock' = i
  /\ Goto(i, "check")
  /\ UNCHANGED <<mint, old, snap, redisVars, disk, rebuilding, before, cursor, hand, lost>>

JobCheck(i) ==
  /\ pc[i] = "check"
  /\ Goto(i, IF ready THEN "since" ELSE "mark")
  /\ rebuilding' = [rebuilding EXCEPT ![i] = ~ready]
  /\ UNCHANGED <<mint, old, snap, lock, redisVars, disk, before, cursor, hand, lost>>

(* recover: SET bloom:building:{id}. *)
SetMarker(i) ==
  /\ pc[i] = "mark"
  /\ marker' = marker \cup {i}
  /\ Goto(i, "restore")
  /\ UNCHANGED <<mint, old, snap, lock, filter, ready, temp, disk,
                 rebuilding, before, cursor, hand, lost>>

(* Mutant: after a failed load the scan still starts at the snapshot. *)
RestoreKeepsSince(i) ==
  /\ pc[i] = "restore"
  /\ \/ /\ snap # NoSnap
        /\ temp' \in {temp, [temp EXCEPT ![i] = snap.content]}
        /\ before' = [before EXCEPT ![i] = snap.before]
        /\ Goto(i, IF temp'[i] = NoKey THEN "page" ELSE "swap")
     \/ /\ snap = NoSnap
        /\ Goto(i, "page")
        /\ UNCHANGED <<temp, before>>
  /\ UNCHANGED <<mint, old, snap, lock, filter, ready, marker, disk,
                 rebuilding, cursor, hand, lost>>

(* restore_snapshot up to its RENAME: the chunks load into the temporary   *)
(* key.  No snapshot, or a chunk that does not load, means a full scan.    *)
Restore(i) ==
  /\ pc[i] = "restore"
  /\ \/ /\ snap # NoSnap
        /\ temp' = [temp EXCEPT ![i] = snap.content]
        /\ before' = [before EXCEPT ![i] = snap.before]
        /\ Goto(i, "swap")
     \/ /\ Goto(i, "page")
        /\ UNCHANGED <<temp, before>>
  /\ UNCHANGED <<mint, old, snap, lock, filter, ready, marker, disk,
                 rebuilding, cursor, hand, lost>>

(* RENAME of the temporary key over the filter.  It fails if the key is    *)
(* gone, and its reply may be lost; either way a full scan follows.        *)
Swap(i) ==
  /\ pc[i] = "swap"
  /\ \/ /\ temp[i] # NoKey
        /\ filter' = temp[i]
        /\ lost' = lost \cup Straddlers(temp[i]) \cup LinksMissed(temp[i], i)
        /\ before' \in {before, [before EXCEPT ![i] = {}]}
     \/ /\ before' = [before EXCEPT ![i] = {}]
        /\ UNCHANGED <<filter, lost>>
  /\ temp' = [temp EXCEPT ![i] = NoKey]
  /\ Goto(i, "page")
  /\ UNCHANGED <<mint, old, snap, lock, ready, marker, disk, rebuilding, cursor, hand>>

(* Mutant: since is now(), without the overlap. *)
SinceNow(i) ==
  /\ pc[i] = "since"
  /\ before' = [before EXCEPT ![i] = links]
  /\ Goto(i, "page")
  /\ UNCHANGED <<mint, old, snap, lock, redisVars, disk, rebuilding, cursor, hand, lost>>

(* add_recent: since is now() - OVERLAP. *)
Since(i) ==
  /\ pc[i] = "since"
  /\ before' = [before EXCEPT ![i] = old]
  /\ Goto(i, "page")
  /\ UNCHANGED <<mint, old, snap, lock, redisVars, disk, rebuilding, cursor, hand, lost>>

(* add_since: created_at >= since AND code > last_code ORDER BY code LIMIT *)
Due(i) == {c \in links \ before[i] : c > cursor[i]}

IsPage(page, due) == /\ Cardinality(page) <= PageSize
                     /\ Cardinality(page) < PageSize => page = due

(* Mutant: the next page starts after the code that follows the last one. *)
FetchPageSkips(i) ==
  /\ pc[i] = "page"
  /\ \E last \in Due(i) :
       LET page == {c \in Due(i) : c <= last} IN
         /\ IsPage(page, Due(i))
         /\ hand' = [hand EXCEPT ![i] = page]
         /\ cursor' = [cursor EXCEPT ![i] = last + 1]
  /\ Goto(i, "add_page")
  /\ UNCHANGED <<mint, old, snap, lock, redisVars, disk, rebuilding, before, lost>>

FetchPage(i) ==
  /\ pc[i] = "page"
  /\ \E last \in Due(i) :
       LET page == {c \in Due(i) : c <= last} IN
         /\ IsPage(page, Due(i))
         /\ hand' = [hand EXCEPT ![i] = page]
         /\ cursor' = [cursor EXCEPT ![i] = last]
  /\ Goto(i, "add_page")
  /\ UNCHANGED <<mint, old, snap, lock, redisVars, disk, rebuilding, before, lost>>

(* An empty page ends the loop. *)
LastPage(i) ==
  /\ pc[i] = "page"
  /\ Due(i) = {}
  /\ Goto(i, IF rebuilding[i] THEN "publish" ELSE "snapshot_due")
  /\ UNCHANGED <<mint, old, snap, lock, redisVars, disk, rebuilding, before, cursor,
                 hand, lost>>

AddPage(i) ==
  /\ pc[i] = "add_page"
  /\ filter' = Held \cup hand[i]
  /\ hand' = [hand EXCEPT ![i] = {}]
  /\ Goto(i, "page")
  /\ UNCHANGED <<mint, old, snap, lock, ready, marker, temp, disk, rebuilding, before,
                 cursor, lost>>

(* Mutant: SET bloom:ready, marker or not. *)
PublishUnmarked(i) ==
  /\ pc[i] = "publish"
  /\ ready' = TRUE
  /\ Finish(i)
  /\ UNCHANGED <<mint, old, snap, filter, lost>>

(* publish_ready: RENAME marker bloom:ready, an error without the marker. *)
Publish(i) ==
  /\ pc[i] = "publish"
  /\ ready' = (ready \/ i \in marker)
  /\ Finish(i)
  /\ UNCHANGED <<mint, old, snap, filter, lost>>

(* A snapshot is due daily, and always when there is none; taken_at is     *)
(* read before the dump.                                                   *)
SnapshotDue(i) ==
  /\ pc[i] = "snapshot_due"
  /\ before' = [before EXCEPT ![i] = old]
  /\ Goto(i, "dump")
  /\ UNCHANGED <<mint, old, snap, lock, redisVars, disk, rebuilding, cursor, hand, lost>>

NoSnapshotDue(i) ==
  /\ pc[i] = "snapshot_due"
  /\ snap # NoSnap
  /\ Finish(i)
  /\ UNCHANGED <<mint, old, snap, filter, ready, lost>>

(* BF.SCANDUMP and upload, chunk by chunk.  A code whose bits were not     *)
(* there for every chunk counts as not captured.                           *)
DumpChunk(i) ==
  /\ pc[i] \in {"dump", "dumping"}
  /\ filter # NoKey
  /\ hand' = [hand EXCEPT ![i] = IF pc[i] = "dump" THEN filter ELSE hand[i] \cap filter]
  /\ Goto(i, "dumping")
  /\ UNCHANGED <<mint, old, snap, lock, redisVars, disk, rebuilding, before, cursor, lost>>

(* SCANDUMP answers 0: every chunk is uploaded. *)
DumpEnd(i) ==
  /\ pc[i] = "dumping"
  /\ filter # NoKey
  /\ Goto(i, "commit")
  /\ UNCHANGED <<mint, old, snap, lock, redisVars, disk, rebuilding, before, cursor,
                 hand, lost>>

(* SCANDUMP without a filter is an error. *)
DumpNoKey(i) ==
  /\ pc[i] \in {"dump", "dumping"}
  /\ filter = NoKey
  /\ Finish(i)
  /\ UNCHANGED <<mint, old, snap, filter, ready, lost>>

(* Mutant: taken_at is read after the dump. *)
CommitTakenLate(i) ==
  /\ pc[i] = "commit"
  /\ snap' = [content |-> hand[i], before |-> old]
  /\ Finish(i)
  /\ UNCHANGED <<mint, old, filter, ready, lost>>

(* The transaction that points bloom_snapshots at the upload.  Removing    *)
(* other uploads afterwards cannot touch this one.                         *)
CommitSnapshot(i) ==
  /\ pc[i] = "commit"
  /\ snap' = [content |-> hand[i], before |-> before[i]]
  /\ Finish(i)
  /\ UNCHANGED <<mint, old, filter, ready, lost>>

(* A command fails, before or after its effect, or the app dies. *)
JobFail(i) ==
  /\ pc[i] # "idle"
  /\ Finish(i)
  /\ UNCHANGED <<mint, old, snap, filter, ready, lost>>

----------------------------------------------------------------------------
(* What happens to the servers. *)

(* A pass that has seen bloom:ready: add_recent, then save_snapshot.       *)
ReadyPass(i) == pc[i] \notin {"idle", "check"} /\ ~rebuilding[i]

(* No pass is past its look at bloom:ready. *)
Resting == \A i \in Apps : pc[i] \in {"idle", "check"}

(* FLUSHALL, or a Redis that comes back empty. *)
Flush ==
  /\ FlushDuringReadyPass \/ \A i \in Apps : ~ReadyPass(i)
  /\ filter' = NoKey
  /\ ready' = FALSE
  /\ marker' = {}
  /\ temp' = [i \in Apps |-> NoKey]
  /\ disk' = [filter |-> NoKey, ready |-> FALSE, marker |-> {}, temp |-> temp']
  /\ lost' = lost \cup Straddlers({})
  /\ UNCHANGED <<mint, old, snap, lock, jobVars>>

(* "Clearing deleted codes": first the snapshot, then filter and flag. *)
ClearSnapshot ==
  /\ snap' = NoSnap
  /\ UNCHANGED <<mint, old, lock, redisVars, disk, jobVars, lost>>

ClearFilter ==
  /\ ClearDuringJob \/ Resting
  /\ snap = NoSnap
  /\ filter' = NoKey
  /\ ready' = FALSE
  /\ lost' = lost \cup Straddlers({})
  /\ UNCHANGED <<mint, old, snap, lock, marker, temp, disk, jobVars>>

(* Appendonly with everysec: writes reach the disk in order, a second late.*)
Fsync ==
  /\ Crashes
  /\ disk' = [filter |-> filter, ready |-> ready, marker |-> marker, temp |-> temp]
  /\ UNCHANGED <<mint, old, snap, lock, redisVars, jobVars, lost>>

Crash ==
  /\ Crashes
  /\ CrashDuringJob \/ Resting
  /\ filter' = disk.filter
  /\ ready' = disk.ready
  /\ marker' = disk.marker
  /\ temp' = disk.temp
  /\ lost' = lost \cup Straddlers(OnDisk) \cup Undone
  /\ UNCHANGED <<mint, old, snap, lock, disk, jobVars>>

(* The connection of the lock's transaction breaks; the job goes on. *)
DropLock ==
  /\ LocksMayDrop
  /\ lock # NoApp
  /\ lock' = NoApp
  /\ UNCHANGED <<mint, old, snap, redisVars, disk, jobVars, lost>>

----------------------------------------------------------------------------
(* An empty Redis before a table with or without rows. *)
Init ==
  /\ mint \in [Codes -> {"none", "linked"}]
  /\ old = links
  /\ snap = NoSnap
  /\ lock = NoApp
  /\ filter = NoKey
  /\ ready = FALSE
  /\ marker = {}
  /\ temp = [i \in Apps |-> NoKey]
  /\ disk = [filter |-> NoKey, ready |-> FALSE, marker |-> {}, temp |-> temp]
  /\ pc = [i \in Apps |-> "idle"]
  /\ rebuilding = [i \in Apps |-> FALSE]
  /\ before = [i \in Apps |-> {}]
  /\ cursor = [i \in Apps |-> 0]
  /\ hand = [i \in Apps |-> {}]
  /\ lost = {}

(* The functions of bloom.rs, and job itself. *)
RestoreStep(i) == Restore(i) \/ Swap(i)
RecoverStep(i) == SetMarker(i) \/ RestoreStep(i) \/ Publish(i)
ScanStep(i)    == Since(i) \/ FetchPage(i) \/ AddPage(i) \/ LastPage(i)
SaveStep(i)    == DumpChunk(i) \/ DumpEnd(i) \/ DumpNoKey(i) \/ CommitSnapshot(i)

JobStep(i) ==
  \/ JobStart(i) \/ JobCheck(i)
  \/ RecoverStep(i)
  \/ ScanStep(i)
  \/ SnapshotDue(i) \/ NoSnapshotDue(i) \/ SaveStep(i)

(* Redis or a job in trouble. *)
Trouble ==
  \/ \E i \in Apps : JobFail(i)
  \/ Flush \/ ClearSnapshot \/ ClearFilter \/ Crash \/ DropLock

Next ==
  \/ \E c \in Codes : Add(c) \/ Insert(c) \/ Delete(c) \/ Age(c)
  \/ \E i \in Apps : JobStep(i)
  \/ Trouble
  \/ Fsync

Spec == Init /\ [][Next]_vars

(* Bloom::run ticks forever, and servers answer or fail.                   *)
LiveSpec == Spec /\ \A i \in Apps : WF_vars(JobStep(i))

----------------------------------------------------------------------------
Filters == {NoKey} \cup SUBSET Codes

TypeOK ==
  /\ mint \in [Codes -> {"none", "added", "linked", "deleted"}]
  /\ old \subseteq Codes
  /\ snap \in {NoSnap} \cup [content : SUBSET Codes, before : SUBSET Codes]
  /\ lock \in Apps \cup {NoApp}
  /\ filter \in Filters
  /\ ready \in BOOLEAN
  /\ marker \subseteq Apps
  /\ temp \in [Apps -> Filters]
  /\ disk \in [filter : Filters, ready : BOOLEAN, marker : SUBSET Apps,
               temp : [Apps -> Filters]]
  /\ pc \in [Apps -> {"idle", "check", "mark", "restore", "swap", "since", "page",
                     "add_page", "publish", "snapshot_due", "dump", "dumping", "commit"}]
  /\ rebuilding \in [Apps -> BOOLEAN]
  /\ before \in [Apps -> SUBSET Codes]
  /\ cursor \in [Apps -> Codes \cup {0}]
  /\ hand \in [Apps -> SUBSET Codes]
  /\ lost \subseteq Codes

(* "Ready" does not quite mean "holds every code", as READY_KEY's comment  *)
(* has it: a ready filter can miss a link whose shorten was between        *)
(* BF.INSERT and INSERT when a flush, an operator or the RENAME of a       *)
(* restored snapshot took its code out; one whose BF.INSERT a crash of     *)
(* Redis undid; and one that a pass without the lock renamed its snapshot  *)
(* over.  It misses no other link.                                         *)
OnlyLostMissing == links \cap SaidAbsent \subseteq lost

(* A snapshot holds every link that catching up from it would skip, the    *)
(* lost ones excepted.                                                     *)
SnapshotCovers ==
  snap # NoSnap => snap.before \cap links \subseteq snap.content \cup lost

(* Links older than OVERLAP, which no later pass re-adds, are never said   *)
(* to be absent.                                                           *)
OldLinksHeld == links \cap old \cap SaidAbsent = {}

(* Once the trouble stops, the job makes the filter ready and complete,    *)
(* whatever a flush, a crash of Redis or failed passes have left behind,   *)
(* but for the links that grew older than OVERLAP before a pass came to    *)
(* re-add them: those stay missing.                                        *)
(* (A pass that ends early can look the same as one that fails at its end; *)
(* such a step is no trouble.)                                             *)
FilterHeals ==
  <>[][Trouble => \E i \in Apps : JobStep(i)]_vars =>
    <>[](ready /\ links \ Held \subseteq old \cap lost)
============================================================================
