------------------------ MODULE CoalescedLeaseProofs ------------------------
(***************************************************************************)
(* Tier 4.4 keeps what tier 4.3 promises about row and cache, although     *)
(* redirects now extend TTLs, share flights and leave them half way: for   *)
(* any requests, processes, cells and TTLs.                                *)
(***************************************************************************)
EXTENDS CoalescedFlightProofs

(* What val holds on the way; a flight carries a reply, never Ok.          *)
ArgumentsOK ==
  \A r \in Requests :
    /\ pc[r] \in ShortenSteps \cup {"populate", "extend"} => val[r] \in Urls
    /\ pc[r] \in {"write_lease", "write_query"} => val[r] \in Urls \cup {NoUrl}
    /\ pc[r] \in {"get", "filter_check", "join", "await", "read", "miss_get", "miss_lease",
                  "select"} => val[r] = NoUrl
    /\ pc[r] \in {"miss_release", "finish", "leave"} => val[r] \in Urls \cup {NoUrl, Err}
    /\ pc[r] = "invalidate" => val[r] = Ok

Typed == CellInv /\ TypeOK /\ ArgumentsOK

----------------------------------------------------------------------------
(* What resolve adds to the protocol leaves row, cache and lease alone and *)
(* moves one request from one unguarded step to another.                   *)
Lookup(r) == \/ Get(r) \/ Extend(r) \/ FilterCheck(r)
             \/ Join(r) \/ Await(r) \/ Finish(r) \/ Leave(r)

LookupSteps == {"get", "extend", "filter_check", "join", "await", "finish", "leave"}

LEMMA LookupMoves ==
  ASSUME Typed, NEW r \in Requests, Lookup(r)
  PROVE  /\ UNCHANGED <<row, cache, lease, stage, committed, absent>>
         /\ pc[r] \in LookupSteps
         /\ \E s \in (LookupSteps \ {"get", "finish"}) \cup {"miss_get", "done"},
               v \in Urls \cup {NoUrl, Err} :
              /\ Goto(r, s, v)
              /\ s = "extend" => v \in Urls
              /\ s \in {"filter_check", "join", "await", "miss_get"} => v = NoUrl
<1> USE DEF Typed, TypeOK, ArgumentsOK, Reply, LookupSteps
<1>1. CASE Get(r)
  BY <1>1 DEF Get
<1>2. CASE Extend(r)
  BY <1>2 DEF Extend
<1>3. CASE FilterCheck(r)
  BY <1>3 DEF FilterCheck
<1>4. CASE Join(r)
  BY <1>4 DEF Join
<1>5. CASE Await(r)
  <2>1. pc[r] = "await" /\ UNCHANGED <<row, cache, lease, stage, committed, absent>>
    BY <1>5 DEF Await
  <2>2. cell[r] \in Cells
    BY <2>1 DEF CellInv, CellTypes, Holding
  <2>3. outcome[cell[r]] \in Urls \cup {NoUrl, Pending}
    BY <2>2
  <2>4. \/ outcome[cell[r]] # Pending /\ Goto(r, "leave", outcome[cell[r]])
        \/ Goto(r, "miss_get", NoUrl)
    BY <1>5 DEF Await
  <2> QED
    BY <2>1, <2>3, <2>4
<1>6. CASE Finish(r)
  BY <1>6 DEF Finish
<1>7. CASE Leave(r)
  BY <1>7 DEF Leave
<1> QED
  BY <1>1, <1>2, <1>3, <1>4, <1>5, <1>6, <1>7 DEF Lookup

(* The kinds of step, as the proofs below go through them. *)
LEMMA StepKinds ==
  ASSUME [Next]_allvars
  PROVE  \/ \E r \in Requests : Arrive(r) \/ Lookup(r) \/ ProtocolStep(r, "finish") \/ Cancel(r)
         \/ /\ cache' \in {cache, NoUrl} /\ lease' \in {lease, Free}
            /\ lease' # lease => (pc[lease] \in Guarded => pc[lease] \in LapseAt)
            /\ UNCHANGED <<row, stage, pc, val, committed, absent, cells>>
<1>1. ASSUME NEW r \in Requests, Step(r) PROVE Lookup(r) \/ ProtocolStep(r, "finish")
  BY <1>1 DEF Step, Lookup
<1>2. ASSUME NEW r \in Requests, Abandon(r) PROVE Cancel(r)
  BY <1>2 DEF Abandon
<1>3. CASE Tick \/ Evict \/ (ExpireLease /\ UNCHANGED <<cells, ttl>>) \/ UNCHANGED allvars
  BY <1>3 DEF Tick, Evict, ExpireCache, ExpireLease, allvars, vars
<1> QED
  BY <1>1, <1>2, <1>3 DEF Next

----------------------------------------------------------------------------
(* Type correctness. *)
CoreTypes ==
  /\ row \in Urls \cup {NoUrl}
  /\ cache \in Urls \cup {NoUrl}
  /\ lease \in Requests \cup {Free}
  /\ stage \in Stages
  /\ val \in [Requests -> Urls \cup {NoUrl, Ok, Err}]
  /\ committed \subseteq Urls
  /\ absent \subseteq Requests

LEMMA CoreStep == ASSUME Typed, [Next]_allvars PROVE CoreTypes' /\ ArgumentsOK'
<1> DEFINE Goal == CoreTypes' /\ ArgumentsOK'
<1> SUFFICES Goal
  OBVIOUS
<1> USE NamesDiffer DEF Typed, TypeOK, ArgumentsOK, CoreTypes, Goto, Reply, ShortenSteps
<1>1. ASSUME NEW r \in Requests, Arrive(r) PROVE Goal
  BY <1>1 DEF Arrive, Shorten, Update, Delete, Resolve, Start, Stages
<1>2. ASSUME NEW r \in Requests, Lookup(r) PROVE Goal
  <2>1. UNCHANGED <<row, cache, lease, stage, committed, absent>>
    BY <1>2, LookupMoves, Zenon DEF Typed
  <2>2. PICK s \in (LookupSteps \ {"get", "finish"}) \cup {"miss_get", "done"},
              v \in Urls \cup {NoUrl, Err} :
          /\ Goto(r, s, v)
          /\ s = "extend" => v \in Urls
          /\ s \in {"filter_check", "join", "await", "miss_get"} => v = NoUrl
    BY <1>2, LookupMoves, Zenon
  <2>3. CoreTypes'
    BY <2>1, <2>2
  <2>4. s \in {"extend", "filter_check", "join", "await", "leave", "miss_get", "done"}
    BY <2>2 DEF LookupSteps
  <2>5. ArgumentsOK'
    BY <2>2, <2>4
  <2> QED
    BY <2>3, <2>5
<1>3. ASSUME NEW r \in Requests, FilterAdd(r) \/ WriteThrough(r) PROVE Goal
  BY <1>3 DEF FilterAdd, WriteThrough, Stages
<1>4. ASSUME NEW r \in Requests, Insert(r) PROVE Goal
  BY <1>4 DEF Insert, KeepCommitted, KeepAbsent
<1>5. ASSUME NEW r \in Requests, WriteLease(r) PROVE Goal
  BY <1>5 DEF WriteLease, TakeLease, TakeLeaseFails
<1>6. ASSUME NEW r \in Requests, WriteQuery(r) PROVE Goal
  BY <1>6 DEF WriteQuery, KeepCommitted, KeepAbsent
<1>7. ASSUME NEW r \in Requests, Invalidate(r) \/ WriteRelease(r) PROVE Goal
  BY <1>7 DEF Invalidate, WriteRelease
<1>8. ASSUME NEW r \in Requests, ReadPostgres(r, "finish") \/ MissGet(r, "finish") PROVE Goal
  BY <1>8 DEF ReadPostgres, MissGet
<1>9. ASSUME NEW r \in Requests, MissLease(r) PROVE Goal
  BY <1>9 DEF MissLease, TakeLease, TakeLeaseFails
<1>10. ASSUME NEW r \in Requests, Select(r) \/ Populate(r) \/ MissRelease(r, "finish")
       PROVE Goal
  BY <1>10 DEF Select, Populate, MissRelease
<1>11. ASSUME NEW r \in Requests, Cancel(r) PROVE Goal
  BY <1>11 DEF Cancel
<1>12. CASE /\ cache' \in {cache, NoUrl} /\ lease' \in {lease, Free}
            /\ UNCHANGED <<row, stage, pc, val, committed, absent>>
  BY <1>12
<1> HIDE DEF Goal
<1> QED
  BY <1>1, <1>2, <1>3, <1>4, <1>5, <1>6, <1>7, <1>8, <1>9, <1>10, <1>11, <1>12, StepKinds
  DEF ProtocolStep

LEMMA OutcomeStep ==
  ASSUME Typed, [Next]_allvars PROVE outcome' \in [Cells -> Urls \cup {NoUrl, Pending}]
<1> USE DEF Typed, TypeOK, ArgumentsOK
<1>1. ASSUME NEW r \in Requests, Finish(r) PROVE outcome' \in [Cells -> Urls \cup {NoUrl, Pending}]
  BY <1>1 DEF Finish
<1>2. CASE FreeUnused
  BY <1>2 DEF FreeUnused
<1>3. CASE UNCHANGED outcome
  BY <1>3
<1> QED
  BY <1>1, <1>2, <1>3
  DEF Next, Arrive, Step, Abandon, Get, Extend, FilterCheck, Join, Await, Leave, cells,
      Tick, Evict, allvars

LEMMA TtlStep == ASSUME Typed, [Next]_allvars PROVE ttl' \in 0 .. FullTtl
<1> USE TtlsOK DEF Typed, TypeOK
<1>1. ASSUME NEW r \in Requests, Extend(r) PROVE ttl' \in 0 .. FullTtl
  BY <1>1 DEF Extend
<1>2. ASSUME NEW r \in Requests, TtlFollows(r) PROVE ttl' \in 0 .. FullTtl
  BY <1>2 DEF TtlFollows
<1>3. CASE Tick \/ ttl' = 0 \/ UNCHANGED ttl
  BY <1>3 DEF Tick
<1> QED
  BY <1>1, <1>2, <1>3
  DEF Next, Arrive, Step, Abandon, Get, FilterCheck, Join, Await, Finish, Leave, cells,
      Evict, allvars

LEMMA WindowStep ==
  ASSUME Typed, CoreTypes', [Next]_allvars
  PROVE  window' \in [Requests -> SUBSET (Urls \cup {NoUrl})]
<1> USE DEF Typed, TypeOK
<1>1. CASE Observe
  <2>1. Shown' \subseteq Urls \cup {NoUrl}
    BY DEF Shown, CoreTypes
  <2>2. ASSUME NEW r \in Requests
        PROVE  UNION {window[q] : q \in Sharing(r)} \subseteq Urls \cup {NoUrl}
    BY DEF Sharing
  <2> QED
    BY <1>1, <2>1, <2>2 DEF Observe
<1>2. CASE UNCHANGED allvars
  BY <1>2 DEF allvars
<1> QED
  BY <1>1, <1>2 DEF Next

LEMMA TypedInit == StoreInit => Typed
<1> SUFFICES ASSUME StoreInit PROVE Typed
  OBVIOUS
<1>1. TypeOK
  BY NamesDiffer, TtlsOK DEF StoreInit, Init, TypeOK, Steps, Stages
<1>2. ArgumentsOK
  BY DEF StoreInit, Init, ArgumentsOK, ShortenSteps
<1> QED
  BY <1>1, <1>2, InitHolds DEF Typed

LEMMA TypedStep == Typed /\ [Next]_allvars => Typed'
<1> SUFFICES ASSUME Typed, [Next]_allvars PROVE Typed'
  OBVIOUS
<1>1. CellInv' /\ CoreTypes' /\ ArgumentsOK'
  BY NextKeeps, CoreStep DEF Typed
<1>2. TypeOK'
  BY <1>1, OutcomeStep, TtlStep, WindowStep DEF CellInv, CellTypes, CoreTypes, TypeOK
<1> QED
  BY <1>1, <1>2 DEF Typed

(* Type correctness of tier 4.4's store: the TTL, and cells and windows    *)
(* included, which only ever hold replies.                                 *)
THEOREM TypeCorrect == Spec => []TypeOK
<1>1. Spec => []Typed
  BY TypedInit, TypedStep, PTL DEF Spec
<1> QED
  BY <1>1, PTL DEF Typed
----------------------------------------------------------------------------
(* The lease, as long as it outlives the work of its holder.               *)
LEMMA LookupPasses ==
  ASSUME Typed, NEW r \in Requests, Lookup(r)
  PROVE  /\ UNCHANGED <<row, cache, lease, stage, committed, absent>>
         /\ Active(r) /\ pc[r] \notin Guarded \cup ShortenSteps \cup WriteSteps
         /\ pc'[r] \notin Guarded \cup ShortenSteps \cup WriteSteps
         /\ \A q \in Requests \ {r} : pc'[q] = pc[q] /\ val'[q] = val[q]
<1>1. PICK s \in (LookupSteps \ {"get", "finish"}) \cup {"miss_get", "done"},
           v \in Urls \cup {NoUrl, Err} : Goto(r, s, v)
  BY LookupMoves, Zenon
<1>2. UNCHANGED <<row, cache, lease, stage, committed, absent>> /\ pc[r] \in LookupSteps
  BY LookupMoves, Zenon
<1> QED
  BY <1>1, <1>2 DEF Typed, TypeOK, Goto, Active, LookupSteps, Guarded, ShortenSteps, WriteSteps

LEMMA GuardedStep ==
  ASSUME LapseAt = {}
  PROVE  Typed /\ GuardedHoldLease /\ [Next]_allvars => GuardedHoldLease'
<1> SUFFICES ASSUME Typed, GuardedHoldLease, [Next]_allvars PROVE GuardedHoldLease'
  OBVIOUS
<1>1. ASSUME NEW r \in Requests, Lookup(r) PROVE GuardedHoldLease'
  BY <1>1, LookupPasses DEF GuardedHoldLease
<1> USE NamesDiffer DEF Typed, TypeOK, GuardedHoldLease, Guarded, Goto, Reply
<1>2. ASSUME NEW r \in Requests, Arrive(r) PROVE GuardedHoldLease'
  BY <1>2 DEF Arrive, Shorten, Update, Delete, Resolve, Start
<1>3. ASSUME NEW r \in Requests, FilterAdd(r) \/ Insert(r) \/ WriteThrough(r)
      PROVE GuardedHoldLease'
  BY <1>3 DEF FilterAdd, Insert, WriteThrough
<1>4. ASSUME NEW r \in Requests, WriteLease(r) \/ MissLease(r) PROVE GuardedHoldLease'
  BY <1>4 DEF WriteLease, MissLease, TakeLease, TakeLeaseFails
<1>5. ASSUME NEW r \in Requests, WriteQuery(r) \/ Invalidate(r) \/ Select(r) \/ Populate(r)
      PROVE GuardedHoldLease'
  BY <1>5 DEF WriteQuery, Invalidate, Select, Populate
<1>6. ASSUME NEW r \in Requests, WriteRelease(r) \/ MissRelease(r, "finish")
      PROVE GuardedHoldLease'
  BY <1>6 DEF WriteRelease, MissRelease
<1>7. ASSUME NEW r \in Requests, ReadPostgres(r, "finish") \/ MissGet(r, "finish") \/ Cancel(r)
      PROVE GuardedHoldLease'
  BY <1>7 DEF ReadPostgres, MissGet, Cancel
<1>8. CASE /\ lease' \in {lease, Free} /\ pc' = pc
           /\ lease' # lease => (pc[lease] \in Guarded => pc[lease] \in LapseAt)
  BY <1>8
<1> QED
  BY <1>1, <1>2, <1>3, <1>4, <1>5, <1>6, <1>7, <1>8, StepKinds DEF ProtocolStep

(* The lease excludes writers and rebuilds across all processes: even when *)
(* a follower's late remove makes one process start a second flight, the   *)
(* two are not between SET NX and DEL at the same time.                    *)
THEOREM LeaseExcludes ==
  ASSUME LapseAt = {}
  PROVE  Spec => []GuardedHoldLease
<1>1. StoreInit => GuardedHoldLease
  BY DEF StoreInit, Init, GuardedHoldLease, Guarded
<1>2. Spec => [](Typed /\ GuardedHoldLease)
  BY <1>1, TypedInit, TypedStep, GuardedStep, PTL DEF Spec
<1> QED
  BY <1>2, PTL

----------------------------------------------------------------------------
(* Until shorten has returned, its request is alone with the code.         *)
ShortenAlone ==
  /\ stage = "unminted" => \A r \in Requests : ~Active(r)
  /\ \A r \in Requests :
       pc[r] \in ShortenSteps =>
         stage \in {"minted", "in_filter"} /\ \A q \in Requests : Active(q) => q = r
  /\ stage # "public" => \A r \in Requests : Active(r) => pc[r] \in ShortenSteps

LEMMA ShortenAloneStep ==
  ASSUME CodesGuessable = FALSE
  PROVE  Typed /\ ShortenAlone /\ [Next]_allvars => ShortenAlone'
<1> SUFFICES ASSUME Typed, ShortenAlone, [Next]_allvars PROVE ShortenAlone'
  OBVIOUS
<1>1. ASSUME NEW r \in Requests, Lookup(r) PROVE ShortenAlone'
  BY <1>1, LookupPasses DEF ShortenAlone, Active
<1> USE DEF Typed, TypeOK, Stages, ShortenAlone, ShortenSteps, Active, Goto, Reply
<1>2. ASSUME NEW r \in Requests, Arrive(r) PROVE ShortenAlone'
  BY <1>2 DEF Arrive, Shorten, Update, Delete, Resolve, Start, CodeKnown
<1>3. ASSUME NEW r \in Requests, FilterAdd(r) \/ Insert(r) \/ WriteThrough(r)
      PROVE ShortenAlone'
  BY <1>3 DEF FilterAdd, Insert, WriteThrough
<1>4. ASSUME NEW r \in Requests,
             WriteLease(r) \/ WriteQuery(r) \/ Invalidate(r) \/ WriteRelease(r)
      PROVE ShortenAlone'
  BY <1>4 DEF WriteLease, WriteQuery, Invalidate, WriteRelease
<1>5. ASSUME NEW r \in Requests,
             ReadPostgres(r, "finish") \/ MissGet(r, "finish") \/ MissLease(r) \/ Select(r)
               \/ Populate(r) \/ MissRelease(r, "finish")
      PROVE ShortenAlone'
  BY <1>5 DEF ReadPostgres, MissGet, MissLease, Select, Populate, MissRelease
<1>6. ASSUME NEW r \in Requests, Cancel(r) PROVE ShortenAlone'
  BY <1>6 DEF Cancel
<1>7. CASE UNCHANGED <<stage, pc>>
  BY <1>7
<1> QED
  BY <1>1, <1>2, <1>3, <1>4, <1>5, <1>6, <1>7, StepKinds DEF ProtocolStep
----------------------------------------------------------------------------
(* Coherence: fills carry the row, and whoever outdates an entry is about  *)
(* to delete it.                                                           *)
FillsFresh ==
  \A r \in Requests : pc[r] \in {"write_through", "populate"} => val[r] = row

UncachedBeforeInsert ==
  /\ stage = "unminted" => cache = NoUrl
  /\ \A r \in Requests : pc[r] \in ShortenSteps => cache = NoUrl

CoherentInv ==
  /\ Typed /\ GuardedHoldLease /\ ShortenAlone /\ FillsFresh
  /\ UncachedBeforeInsert
  /\ Coherent

LEMMA FillsFreshStep ==
  Typed /\ GuardedHoldLease /\ ShortenAlone /\ FillsFresh /\ [Next]_allvars => FillsFresh'
<1> SUFFICES ASSUME Typed, GuardedHoldLease, ShortenAlone, FillsFresh, [Next]_allvars
             PROVE  FillsFresh'
  OBVIOUS
<1>1. ASSUME NEW r \in Requests, Lookup(r) PROVE FillsFresh'
  BY <1>1, LookupPasses DEF FillsFresh, Guarded, ShortenSteps
<1> USE DEF Typed, TypeOK, FillsFresh, Goto, Reply
<1>2. ASSUME NEW r \in Requests, Arrive(r) PROVE FillsFresh'
  BY <1>2 DEF Arrive, Shorten, Update, Delete, Resolve, Start
<1>3. ASSUME NEW r \in Requests, Insert(r) PROVE FillsFresh'
  <2>1. \A q \in Requests : pc[q] \in {"write_through", "populate"} => q = r
    BY <1>3 DEF Insert, ShortenAlone, ShortenSteps, Active
  <2> QED
    BY <1>3, <2>1 DEF Insert
<1>4. ASSUME NEW r \in Requests, WriteQuery(r) PROVE FillsFresh'
  <2>1. \A q \in Requests : pc[q] \notin {"write_through", "populate"}
    BY <1>4 DEF WriteQuery, GuardedHoldLease, Guarded, ShortenAlone, ShortenSteps, Active
  <2> QED
    BY <1>4, <2>1 DEF WriteQuery
<1>5. ASSUME NEW r \in Requests,
             FilterAdd(r) \/ WriteThrough(r) \/ WriteLease(r) \/ Invalidate(r) \/ WriteRelease(r)
      PROVE FillsFresh'
  BY <1>5 DEF FilterAdd, WriteThrough, WriteLease, Invalidate, WriteRelease
<1>6. ASSUME NEW r \in Requests,
             ReadPostgres(r, "finish") \/ MissGet(r, "finish") \/ MissLease(r) \/ Select(r)
               \/ Populate(r) \/ MissRelease(r, "finish") \/ Cancel(r)
      PROVE FillsFresh'
  BY <1>6 DEF ReadPostgres, MissGet, MissLease, Select, Populate, MissRelease, Cancel
<1>7. CASE UNCHANGED <<row, pc, val>>
  BY <1>7
<1> QED
  BY <1>1, <1>2, <1>3, <1>4, <1>5, <1>6, <1>7, StepKinds DEF ProtocolStep

LEMMA FreshFillsStep ==
  ASSUME Typed, FillsFresh, [Next]_allvars
  PROVE  cache' \in {cache, NoUrl, row}
<1>1. ASSUME NEW r \in Requests, Arrive(r) \/ Lookup(r) \/ Cancel(r)
      PROVE  cache' \in {cache, NoUrl, row}
  BY <1>1, LookupPasses DEF Arrive, Shorten, Update, Delete, Resolve, Cancel
<1>2. ASSUME NEW r \in Requests, WriteThrough(r) \/ Populate(r)
      PROVE  cache' \in {cache, NoUrl, row}
  BY <1>2 DEF FillsFresh, WriteThrough, Populate
<1>3. ASSUME NEW r \in Requests, Invalidate(r) PROVE cache' \in {cache, NoUrl, row}
  BY <1>3 DEF Invalidate
<1>4. ASSUME NEW r \in Requests,
             FilterAdd(r) \/ Insert(r) \/ WriteLease(r) \/ WriteQuery(r) \/ WriteRelease(r)
               \/ ReadPostgres(r, "finish") \/ MissGet(r, "finish") \/ MissLease(r)
               \/ Select(r) \/ MissRelease(r, "finish")
      PROVE  cache' \in {cache, NoUrl, row}
  BY <1>4 DEF FilterAdd, Insert, WriteLease, WriteQuery, WriteRelease, ReadPostgres, MissGet,
              MissLease, Select, MissRelease
<1> QED
  BY <1>1, <1>2, <1>3, <1>4, StepKinds DEF ProtocolStep

(* In tier 4.4, too, whatever is put into the cache is what Postgres holds *)
(* at that moment, whichever flight it comes from.                         *)
THEOREM FillsAreFresh ==
  ASSUME LapseAt = {}, CodesGuessable = FALSE
  PROVE  Spec => NoStaleFill
<1>1. StoreInit => GuardedHoldLease /\ ShortenAlone /\ FillsFresh
  BY DEF StoreInit, Init, GuardedHoldLease, Guarded, ShortenAlone, FillsFresh, Active,
         ShortenSteps
<1>2. Spec => [](Typed /\ GuardedHoldLease /\ ShortenAlone /\ FillsFresh)
  BY <1>1, TypedInit, TypedStep, GuardedStep, ShortenAloneStep, FillsFreshStep, PTL DEF Spec
<1>3. Typed /\ FillsFresh /\ [Next]_allvars => [cache' \in {cache, NoUrl, row}]_vars
  BY FreshFillsStep
<1> QED
  BY <1>2, <1>3, PTL DEF Spec, NoStaleFill

LEMMA UncachedStep ==
  Typed /\ ShortenAlone /\ UncachedBeforeInsert /\ [Next]_allvars => UncachedBeforeInsert'
<1> SUFFICES ASSUME Typed, ShortenAlone, UncachedBeforeInsert, [Next]_allvars
             PROVE  UncachedBeforeInsert'
  OBVIOUS
<1>1. ASSUME NEW r \in Requests, Lookup(r) PROVE UncachedBeforeInsert'
  BY <1>1, LookupPasses DEF UncachedBeforeInsert
<1> USE DEF Typed, TypeOK, ShortenAlone, ShortenSteps, Active, UncachedBeforeInsert, Goto, Reply
<1>2. ASSUME NEW r \in Requests, Arrive(r) PROVE UncachedBeforeInsert'
  BY <1>2 DEF Arrive, Shorten, Update, Delete, Resolve, Start
<1>3. ASSUME NEW r \in Requests, FilterAdd(r) \/ Insert(r) \/ WriteThrough(r)
      PROVE UncachedBeforeInsert'
  BY <1>3 DEF FilterAdd, Insert, WriteThrough
<1>4. ASSUME NEW r \in Requests,
             WriteLease(r) \/ WriteQuery(r) \/ Invalidate(r) \/ WriteRelease(r)
      PROVE UncachedBeforeInsert'
  BY <1>4 DEF WriteLease, WriteQuery, Invalidate, WriteRelease
<1>5. ASSUME NEW r \in Requests,
             ReadPostgres(r, "finish") \/ MissGet(r, "finish") \/ MissLease(r) \/ Select(r)
               \/ Populate(r) \/ MissRelease(r, "finish") \/ Cancel(r)
      PROVE UncachedBeforeInsert'
  BY <1>5 DEF ReadPostgres, MissGet, MissLease, Select, Populate, MissRelease, Cancel
<1>6. CASE cache' \in {cache, NoUrl} /\ UNCHANGED <<stage, pc>>
  BY <1>6
<1> QED
  BY <1>1, <1>2, <1>3, <1>4, <1>5, <1>6, StepKinds DEF ProtocolStep

LEMMA CoherentStep ==
  ASSUME "write" \notin RedisFaults \cup PostgresFaults \cup Cancels
  PROVE  CoherentInv /\ [Next]_allvars => Coherent'
<1> SUFFICES ASSUME CoherentInv, [Next]_allvars PROVE Coherent'
  OBVIOUS
<1>1. ASSUME NEW r \in Requests, Lookup(r) PROVE Coherent'
  BY <1>1, LookupPasses DEF CoherentInv, Coherent, WriteSteps
<1> USE DEF CoherentInv, Typed, TypeOK, Coherent, Goto, Reply, RedisFails, PostgresFails,
            KindOf, ShortenSteps, WriteSteps
<1>2. ASSUME NEW r \in Requests, Arrive(r) PROVE Coherent'
  BY <1>2 DEF Arrive, Shorten, Update, Delete, Resolve, Start, Active
<1>3. ASSUME NEW r \in Requests, Insert(r) PROVE Coherent'
  BY <1>3 DEF Insert, UncachedBeforeInsert
<1>4. ASSUME NEW r \in Requests, WriteQuery(r) PROVE Coherent'
  <2>1. CASE row # NoUrl
    <3>1. pc'[r] = "invalidate"
      BY <1>4, <2>1 DEF WriteQuery
    <3> QED
      BY <3>1
  <2>2. CASE row = NoUrl
    <3>1. \A q \in Requests \ {r} : pc'[q] = pc[q]
      BY <1>4 DEF WriteQuery
    <3>2. pc[r] # "invalidate" /\ row' = row /\ cache' = cache
      BY <1>4, <2>2 DEF WriteQuery
    <3> QED
      BY <3>1, <3>2
  <2> QED
    BY <2>1, <2>2
<1>5. ASSUME NEW r \in Requests, Invalidate(r) PROVE Coherent'
  BY <1>5 DEF Invalidate
<1>6. ASSUME NEW r \in Requests, WriteThrough(r) \/ Populate(r) PROVE Coherent'
  <2>1. val[r] = row /\ row' = row /\ cache' \in {cache, row}
    BY <1>6 DEF FillsFresh, WriteThrough, Populate
  <2>2. \A q \in Requests : pc[q] = "invalidate" => pc'[q] = "invalidate"
    BY <1>6 DEF WriteThrough, Populate
  <2> QED
    BY <2>1, <2>2
<1>7. ASSUME NEW r \in Requests,
             FilterAdd(r) \/ WriteLease(r) \/ WriteRelease(r) \/ ReadPostgres(r, "finish")
               \/ MissGet(r, "finish") \/ MissLease(r) \/ Select(r) \/ MissRelease(r, "finish")
               \/ Cancel(r)
      PROVE Coherent'
  <2>1. row' = row /\ cache' = cache
    BY <1>7 DEF FilterAdd, WriteLease, WriteRelease, ReadPostgres, MissGet, MissLease, Select,
                MissRelease, Cancel
  <2>2. \A q \in Requests : pc[q] = "invalidate" => pc'[q] = "invalidate"
    BY <1>7 DEF FilterAdd, WriteLease, WriteRelease, ReadPostgres, MissGet, MissLease, Select,
                MissRelease, Cancel
  <2> QED
    BY <2>1, <2>2
<1>8. CASE cache' \in {cache, NoUrl} /\ UNCHANGED <<row, pc>>
  BY <1>8
<1> QED
  BY <1>1, <1>2, <1>3, <1>4, <1>5, <1>6, <1>7, <1>8, StepKinds DEF ProtocolStep

(* In tier 4.4, too, the cache shows the row or its writer is about to     *)
(* delete the entry: extending a TTL, sharing a flight and abandoning one  *)
(* never put back what a PATCH or DELETE has replaced.                     *)
THEOREM CacheIsCoherent ==
  ASSUME LapseAt = {}, CodesGuessable = FALSE,
         "write" \notin RedisFaults \cup PostgresFaults \cup Cancels
  PROVE  Spec => []Coherent
<1>1. StoreInit => CoherentInv
  <2>1. StoreInit => GuardedHoldLease /\ ShortenAlone /\ FillsFresh
    BY DEF StoreInit, Init, GuardedHoldLease, Guarded, ShortenAlone, FillsFresh, Active,
           ShortenSteps
  <2>2. StoreInit => UncachedBeforeInsert /\ Coherent
    BY DEF StoreInit, Init, UncachedBeforeInsert, Coherent, ShortenSteps
  <2> QED
    BY <2>1, <2>2, TypedInit DEF CoherentInv
<1>2. CoherentInv /\ [Next]_allvars => CoherentInv'
  BY TypedStep, GuardedStep, ShortenAloneStep, FillsFreshStep, UncachedStep, CoherentStep
  DEF CoherentInv
<1> QED
  BY <1>1, <1>2, PTL DEF Spec, CoherentInv
----------------------------------------------------------------------------
(* No dead link.  A flight may have been under way for long when a request *)
(* joins it; what helps is that a row, once missing from a public code,    *)
(* never comes back.                                                       *)
AbsenceSeen ==
  /\ row = NoUrl => \A r \in Requests : Active(r) => r \in absent
  /\ \A r \in Requests :
       pc[r] \in {"write_release", "done"} /\ val[r] = NoUrl => r \in absent

MissIsFinal ==
  /\ \A r \in Requests :
       pc[r] \in {"miss_release", "finish", "leave"} /\ val[r] = NoUrl => row = NoUrl
  /\ \A c \in Cells : outcome[c] = NoUrl => row = NoUrl

(* While a shorten runs there is no flight, not even one that has ended.   *)
LEMMA NoFlightYet ==
  ASSUME Typed, ShortenAlone, NEW r \in Requests, pc[r] \in ShortenSteps, NEW c \in Cells
  PROVE  outcome[c] = Pending
<1>1. \A q \in Requests : pc[q] \notin Holding
  BY DEF ShortenAlone, Active, Holding, MissSteps, ShortenSteps
<1>2. c # NoCell
  BY CellNames
<1>3. \A q \in Requests : cell[q] # c
  BY <1>1, <1>2 DEF Typed, CellInv, CellTypes
<1>4. \A a \in Apps : inflight[a] = c => outcome[c] = Pending
  BY <1>1, <1>2 DEF Typed, CellInv, NoFrozenCell, Holding
<1> QED
  BY <1>3, <1>4 DEF Typed, CellInv, UnusedPending, InUse

(* The row of a code that somebody resolves does not come into being.      *)
LEMMA RowStaysGone ==
  ASSUME Typed, ShortenAlone, row = NoUrl, [Next]_allvars
  PROVE  row' = NoUrl \/ \E r \in Requests : Insert(r)
<1> USE DEF Typed, TypeOK
<1>1. ASSUME NEW r \in Requests, Arrive(r) \/ Cancel(r) PROVE row' = row
  BY <1>1 DEF Arrive, Shorten, Update, Delete, Resolve, Cancel
<1>2. ASSUME NEW r \in Requests, Lookup(r) PROVE row' = row
  BY <1>2, LookupPasses
<1>3. ASSUME NEW r \in Requests, WriteQuery(r) PROVE row' = row
  BY <1>3 DEF WriteQuery
<1>4. ASSUME NEW r \in Requests,
             FilterAdd(r) \/ WriteThrough(r) \/ WriteLease(r) \/ Invalidate(r) \/ WriteRelease(r)
               \/ ReadPostgres(r, "finish") \/ MissGet(r, "finish") \/ MissLease(r) \/ Select(r)
               \/ Populate(r) \/ MissRelease(r, "finish")
      PROVE row' = row
  BY <1>4 DEF FilterAdd, WriteThrough, WriteLease, Invalidate, WriteRelease, ReadPostgres,
              MissGet, MissLease, Select, Populate, MissRelease
<1> QED
  BY <1>1, <1>2, <1>3, <1>4, StepKinds DEF ProtocolStep

LEMMA AbsenceStep ==
  ASSUME CodesGuessable = FALSE
  PROVE  Typed /\ ShortenAlone /\ AbsenceSeen /\ MissIsFinal /\ [Next]_allvars => AbsenceSeen'
<1> SUFFICES ASSUME Typed, ShortenAlone, AbsenceSeen, MissIsFinal, [Next]_allvars
             PROVE  AbsenceSeen'
  OBVIOUS
<1>1. ASSUME NEW r \in Requests, Lookup(r) PROVE AbsenceSeen'
  <2>1. pc'[r] = "done" /\ val'[r] = NoUrl => row = NoUrl
    <3>1. CASE FilterCheck(r)
      <4>1. stage = "public"
        BY <3>1 DEF FilterCheck, ShortenAlone, ShortenSteps, Active
      <4> QED
        BY <3>1, <4>1 DEF FilterCheck, FilterMayDeny, Goto, Typed, TypeOK
    <3>2. CASE Get(r) \/ Extend(r)
      BY <3>2, NamesDiffer DEF Get, Extend, Goto, Reply, Typed, TypeOK, ArgumentsOK
    <3>3. CASE Join(r) \/ Await(r) \/ Finish(r)
      BY <3>3 DEF Join, Await, Finish, Goto, Typed, TypeOK
    <3>4. CASE Leave(r)
      BY <3>4 DEF Leave, Goto, Reply, Typed, TypeOK, MissIsFinal
    <3> QED
      BY <1>1, <3>1, <3>2, <3>3, <3>4 DEF Lookup
  <2> QED
    BY <1>1, <2>1, LookupPasses DEF AbsenceSeen, Active, WriteSteps
<1> USE NamesDiffer DEF Typed, TypeOK, ArgumentsOK, AbsenceSeen, Active, Goto, Reply
<1>2. ASSUME NEW r \in Requests, Arrive(r) PROVE AbsenceSeen'
  BY <1>2 DEF Arrive, Shorten, Update, Delete, Resolve, Start
<1>3. ASSUME NEW r \in Requests, FilterAdd(r) \/ WriteThrough(r) PROVE AbsenceSeen'
  BY <1>3 DEF FilterAdd, WriteThrough
<1>4. ASSUME NEW r \in Requests, Insert(r) PROVE AbsenceSeen'
  BY <1>4 DEF Insert, KeepAbsent
<1>5. ASSUME NEW r \in Requests, WriteQuery(r) PROVE AbsenceSeen'
  BY <1>5 DEF WriteQuery, KeepAbsent
<1>6. ASSUME NEW r \in Requests, WriteLease(r) \/ Invalidate(r) \/ WriteRelease(r)
      PROVE AbsenceSeen'
  BY <1>6 DEF WriteLease, Invalidate, WriteRelease
<1>7. ASSUME NEW r \in Requests,
             ReadPostgres(r, "finish") \/ MissGet(r, "finish") \/ MissLease(r) \/ Select(r)
               \/ Populate(r) \/ MissRelease(r, "finish")
      PROVE AbsenceSeen'
  BY <1>7 DEF ReadPostgres, MissGet, MissLease, Select, Populate, MissRelease
<1>8. ASSUME NEW r \in Requests, Cancel(r) PROVE AbsenceSeen'
  BY <1>8 DEF Cancel
<1>9. CASE UNCHANGED <<row, pc, val, absent>>
  BY <1>9
<1> QED
  BY <1>1, <1>2, <1>3, <1>4, <1>5, <1>6, <1>7, <1>8, <1>9, StepKinds DEF ProtocolStep
LEMMA OutcomeMoves ==
  ASSUME Typed, [Next]_allvars, NEW c \in Cells
  PROVE  \/ outcome'[c] \in {outcome[c], Pending}
         \/ \E q \in Requests :
              pc[q] = "finish" /\ val[q] # Err /\ outcome'[c] = val[q] /\ row' = row
<1>1. CASE \E q \in Requests : Finish(q)
  BY <1>1 DEF Finish, Typed, TypeOK
<1>2. CASE FreeUnused
  BY <1>2 DEF FreeUnused
<1>3. CASE UNCHANGED outcome
  BY <1>3
<1> QED
  BY <1>1, <1>2, <1>3
  DEF Next, Arrive, Step, Abandon, Get, Extend, FilterCheck, Join, Await, Leave, cells,
      Tick, Evict, allvars

LEMMA MissStep ==
  Typed /\ ShortenAlone /\ MissIsFinal /\ [Next]_allvars => MissIsFinal'
<1> SUFFICES ASSUME Typed, ShortenAlone, MissIsFinal, [Next]_allvars PROVE MissIsFinal'
  OBVIOUS
<1> DEFINE Replying == {"miss_release", "finish", "leave"}
<1>1. CASE \E r \in Requests : Insert(r)
  <2>1. PICK r \in Requests : Insert(r)
    BY <1>1
  <2>2. pc[r] = "insert" /\ \A q \in Requests : pc'[q] \notin Replying /\ pc[q] # "finish"
    BY <2>1 DEF Insert, ShortenAlone, ShortenSteps, Active, Goto, Reply, Typed, TypeOK
  <2>3. \A c \in Cells : outcome[c] = Pending
    BY <2>2, NoFlightYet DEF ShortenSteps
  <2>4. \A c \in Cells : outcome'[c] = Pending
    BY <2>2, <2>3, OutcomeMoves
  <2> QED
    BY <2>2, <2>4, CellNames DEF MissIsFinal
<1>2. CASE ~ \E r \in Requests : Insert(r)
  <2>1. row = NoUrl => row' = NoUrl
    BY <1>2, RowStaysGone
  <2>2. ASSUME NEW c \in Cells, outcome'[c] = NoUrl PROVE row' = NoUrl
    BY <2>1, <2>2, OutcomeMoves, CellNames DEF MissIsFinal
  <2>3. ASSUME NEW r \in Requests, pc'[r] \in Replying, val'[r] = NoUrl
        PROVE  row' = NoUrl
    <3> USE NamesDiffer DEF Typed, TypeOK, ArgumentsOK, MissIsFinal, Goto, Reply
    <3>1. CASE pc'[r] = pc[r] /\ val'[r] = val[r]
      BY <2>1, <2>3, <3>1
    <3>2. ASSUME NEW q \in Requests, Arrive(q) PROVE row' = NoUrl
      BY <2>1, <2>3, <3>2 DEF Arrive, Shorten, Update, Delete, Resolve, Start
    <3>3. ASSUME NEW q \in Requests, Get(q) \/ Extend(q) \/ FilterCheck(q) \/ Join(q)
                                       \/ Finish(q) \/ Leave(q)
          PROVE row' = NoUrl
      BY <2>1, <2>3, <3>3 DEF Get, Extend, FilterCheck, Join, Finish, Leave
    <3>4. ASSUME NEW q \in Requests, Await(q) PROVE row' = NoUrl
      <4>1. cell[q] \in Cells
        BY <3>4 DEF Await, CellInv, CellTypes, Holding
      <4> QED
        BY <2>1, <2>3, <3>4, <4>1 DEF Await
    <3>5. ASSUME NEW q \in Requests, FilterAdd(q) \/ WriteThrough(q) \/ WriteLease(q)
                                       \/ WriteQuery(q) \/ Invalidate(q) \/ WriteRelease(q)
          PROVE row' = NoUrl
      BY <2>1, <2>3, <3>5 DEF FilterAdd, WriteThrough, WriteLease, WriteQuery, Invalidate,
                              WriteRelease
    <3>6. ASSUME NEW q \in Requests, ReadPostgres(q, "finish") \/ MissGet(q, "finish")
                                       \/ MissLease(q) \/ Select(q) \/ Populate(q)
                                       \/ MissRelease(q, "finish")
          PROVE row' = NoUrl
      BY <2>1, <2>3, <3>6 DEF ReadPostgres, MissGet, MissLease, Select, Populate, MissRelease
    <3>7. ASSUME NEW q \in Requests, Cancel(q) PROVE row' = NoUrl
      BY <2>1, <2>3, <3>7 DEF Cancel
    <3> HIDE DEF Typed, TypeOK, ArgumentsOK, MissIsFinal, Goto, Reply
    <3> QED
      BY <1>2, <3>1, <3>2, <3>3, <3>4, <3>5, <3>6, <3>7, StepKinds DEF ProtocolStep, Lookup
  <2> QED
    BY <2>2, <2>3 DEF MissIsFinal
<1> QED
  BY <1>1, <1>2

(* In tier 4.4, too, "not found" is only said of a link that was missing   *)
(* at some moment of the request, a follower's reply included, although    *)
(* its flight is older: as long as no code is asked for before shorten has *)
(* returned it.  Leases may lapse and anything may fail.                   *)
THEOREM NoLinkDies ==
  ASSUME CodesGuessable = FALSE
  PROVE  Spec => []NoDeadLink
<1>1. StoreInit => ShortenAlone /\ AbsenceSeen /\ MissIsFinal
  <2>1. StoreInit => ShortenAlone /\ AbsenceSeen
    BY NamesDiffer DEF StoreInit, Init, ShortenAlone, AbsenceSeen, Active, ShortenSteps
  <2>2. StoreInit => MissIsFinal
    BY CellNames DEF StoreInit, Init, MissIsFinal
  <2> QED
    BY <2>1, <2>2
<1>2. Spec => [](Typed /\ ShortenAlone /\ AbsenceSeen /\ MissIsFinal)
  BY <1>1, TypedInit, TypedStep, ShortenAloneStep, AbsenceStep, MissStep, PTL DEF Spec
<1>3. AbsenceSeen => NoDeadLink
  BY DEF AbsenceSeen, NoDeadLink
<1> QED
  BY <1>2, <1>3, PTL
----------------------------------------------------------------------------
(* Nothing is invented: what a request carries past its INSERT or SELECT,  *)
(* and what a cell was initialised with, has been in the row.              *)
NotYetCommitted == {"filter_add", "insert", "write_lease", "write_query", "dropped"}

Traced ==
  /\ cache \in committed \cup {NoUrl}
  /\ row \in committed \cup {NoUrl}
  /\ \A r \in Requests :
       pc[r] \notin NotYetCommitted /\ val[r] \in Urls => val[r] \in committed
  /\ \A c \in Cells : outcome[c] \in committed \cup {NoUrl, Pending}

LEMMA CommittedGrows == ASSUME Typed, [Next]_allvars PROVE committed \subseteq committed'
<1>1. ASSUME NEW r \in Requests, Lookup(r) PROVE committed \subseteq committed'
  BY <1>1, LookupPasses
<1>2. ASSUME NEW r \in Requests, Arrive(r) \/ Cancel(r) PROVE committed \subseteq committed'
  BY <1>2 DEF Arrive, Shorten, Update, Delete, Resolve, Cancel
<1>3. ASSUME NEW r \in Requests, ProtocolStep(r, "finish") PROVE committed \subseteq committed'
  BY <1>3 DEF ProtocolStep, FilterAdd, Insert, WriteThrough, WriteLease, WriteQuery, Invalidate,
              WriteRelease, ReadPostgres, MissGet, MissLease, Select, Populate, MissRelease,
              KeepCommitted
<1> QED
  BY <1>1, <1>2, <1>3, StepKinds

LEMMA TracedStep == Typed /\ Traced /\ [Next]_allvars => Traced'
<1> SUFFICES ASSUME Typed, Traced, [Next]_allvars PROVE Traced'
  OBVIOUS
<1> DEFINE Core == /\ cache' \in committed' \cup {NoUrl}
                   /\ row' \in committed' \cup {NoUrl}
                   /\ \A r \in Requests :
                        pc'[r] \notin NotYetCommitted /\ val'[r] \in Urls => val'[r] \in committed'
<1>1. committed \subseteq committed'
  BY CommittedGrows
<1>2. \A c \in Cells : outcome'[c] \in committed' \cup {NoUrl, Pending}
  <2>1. \A q \in Requests : pc[q] = "finish" => val[q] \in committed \cup {NoUrl, Err}
    BY DEF Traced, NotYetCommitted, Typed, ArgumentsOK
  <2> QED
    BY <1>1, <2>1, OutcomeMoves DEF Traced
<1>3. Core
  <2>1. ASSUME NEW r \in Requests, Lookup(r) PROVE Core
    <3>1. UNCHANGED <<row, cache, committed>>
          /\ \A q \in Requests \ {r} : pc'[q] = pc[q] /\ val'[q] = val[q]
      BY <2>1, LookupPasses
    <3>2. val'[r] \in Urls => val'[r] \in committed
      <4> USE DEF Typed, TypeOK, Traced, Goto, Reply
      <4>1. CASE Get(r) \/ FilterCheck(r) \/ Join(r)
        BY <4>1, NamesDiffer DEF Get, FilterCheck, Join
      <4>2. CASE Extend(r) \/ Finish(r) \/ Leave(r)
        BY <4>2 DEF Extend, Finish, Leave, NotYetCommitted
      <4>3. CASE Await(r)
        <5>1. cell[r] \in Cells
          BY <4>3 DEF Await, CellInv, CellTypes, Holding
        <5> QED
          BY <4>3, <5>1, NamesDiffer DEF Await
      <4> QED
        BY <2>1, <4>1, <4>2, <4>3 DEF Lookup
    <3> QED
      BY <3>1, <3>2 DEF Traced
  <2> HIDE DEF Core
  <2>2. ASSUME NEW r \in Requests, Arrive(r) \/ Cancel(r) PROVE Core
    BY <2>2, NamesDiffer
    DEF Core, Arrive, Shorten, Update, Delete, Resolve, Start, Cancel, Typed, TypeOK, Traced,
        NotYetCommitted, Goto
  <2> USE NamesDiffer DEF Core, Typed, TypeOK, ArgumentsOK, Traced, NotYetCommitted, Goto, Reply
  <2>3. ASSUME NEW r \in Requests, FilterAdd(r) \/ WriteThrough(r) \/ WriteLease(r)
                                     \/ Invalidate(r) \/ WriteRelease(r)
        PROVE Core
    BY <2>3 DEF FilterAdd, WriteThrough, WriteLease, Invalidate, WriteRelease, ShortenSteps
  <2>4. ASSUME NEW r \in Requests, Insert(r) \/ WriteQuery(r) PROVE Core
    <3>1. row' \in committed' \cup {NoUrl}
      BY <2>4 DEF Insert, WriteQuery, KeepCommitted
    <3>2. /\ cache' = cache
          /\ \A q \in Requests \ {r} : pc'[q] = pc[q] /\ val'[q] = val[q]
      BY <2>4 DEF Insert, WriteQuery
    <3>3. val'[r] \in Urls => val'[r] \in committed'
      BY <2>4 DEF Insert, WriteQuery, KeepCommitted, ShortenSteps
    <3> QED
      BY <1>1, <3>1, <3>2, <3>3
  <2>5. ASSUME NEW r \in Requests,
               ReadPostgres(r, "finish") \/ MissGet(r, "finish") \/ MissLease(r) \/ Select(r)
                 \/ Populate(r) \/ MissRelease(r, "finish")
        PROVE Core
    BY <2>5 DEF ReadPostgres, MissGet, MissLease, Select, Populate, MissRelease
  <2>6. CASE cache' \in {cache, NoUrl} /\ UNCHANGED <<row, pc, val, committed>>
    BY <2>6
  <2> HIDE DEF Core
  <2> QED
    BY <2>1, <2>2, <2>3, <2>4, <2>5, <2>6, StepKinds DEF ProtocolStep
<1> QED
  BY <1>2, <1>3 DEF Traced

(* Whatever fails, and whoever fills a cell for whom, neither the cache nor*)
(* a reply shows a URL that Postgres never held for the code.              *)
THEOREM NothingInvented == Spec => []NeverInvented
<1>1. StoreInit => Traced
  BY NamesDiffer, CellNames DEF StoreInit, Init, Traced, NotYetCommitted
<1>2. Spec => [](Typed /\ Traced)
  BY <1>1, TypedInit, TypedStep, TracedStep, PTL DEF Spec
<1>3. Traced => NeverInvented
  BY DEF Traced, NeverInvented, NotYetCommitted
<1> QED
  BY <1>2, <1>3, PTL
----------------------------------------------------------------------------
(* Reads without Redis: a failing runner has Postgres to blame, and those  *)
(* waiting for it do not inherit its error.                                *)
NoReadError == \A r \in Requests : Resolving(r) => val[r] # Err

LEMMA NoReadErrorStep ==
  ASSUME PostgresFaults = {}, Typed, NoReadError, [Next]_allvars
  PROVE  \A r \in Requests : Resolving(r) \/ Resolving(r)' => val'[r] # Err
<1> DEFINE Good == \A r \in Requests : Resolving(r) \/ Resolving(r)' => val'[r] # Err
<1> SUFFICES Good
  OBVIOUS
<1> USE DEF Resolving, Active, KindOf, ShortenSteps, WriteSteps
<1>1. ASSUME NEW r \in Requests, Lookup(r) PROVE Good
  <2>1. \A q \in Requests \ {r} : pc'[q] = pc[q] /\ val'[q] = val[q]
    BY <1>1, LookupPasses
  <2>2. val[r] # Err
    <3>1. Active(r) /\ pc[r] \notin ShortenSteps \cup WriteSteps
      BY <1>1, LookupPasses
    <3> QED
      BY <3>1 DEF NoReadError
  <2>3. val'[r] # Err
    <3> USE NamesDiffer DEF Typed, TypeOK, Goto, Reply
    <3>1. CASE Get(r) \/ Extend(r) \/ FilterCheck(r)
      <4>1. pc[r] \in {"get", "extend", "filter_check"}
        BY <3>1 DEF Get, Extend, FilterCheck
      <4> QED
        BY <3>1, <2>2, <4>1 DEF Get, Extend, FilterCheck
    <3>2. CASE Join(r) \/ Finish(r) \/ Leave(r)
      BY <3>2, <2>2 DEF Join, Finish, Leave
    <3>3. CASE Await(r)
      <4>1. cell[r] \in Cells
        BY <3>3 DEF Await, CellInv, CellTypes, Holding
      <4> QED
        BY <3>3, <4>1 DEF Await
    <3> QED
      BY <1>1, <3>1, <3>2, <3>3 DEF Lookup
  <2> QED
    BY <2>1, <2>3 DEF NoReadError
<1>2. ASSUME NEW r \in Requests, Arrive(r) PROVE Good
  BY <1>2, NamesDiffer
  DEF Arrive, Shorten, Update, Delete, Resolve, Start, Goto, NoReadError, Typed, TypeOK
<1>3. ASSUME NEW r \in Requests,
             FilterAdd(r) \/ Insert(r) \/ WriteThrough(r) \/ WriteLease(r)
               \/ WriteQuery(r) \/ Invalidate(r) \/ WriteRelease(r)
      PROVE Good
  <2>1. ~Resolving(r) /\ ~Resolving(r)'
    BY <1>3 DEF FilterAdd, Insert, WriteThrough, WriteLease, WriteQuery, Invalidate,
                WriteRelease, Goto, Reply, Typed, TypeOK
  <2>2. \A q \in Requests \ {r} : pc'[q] = pc[q] /\ val'[q] = val[q]
    BY <1>3 DEF FilterAdd, Insert, WriteThrough, WriteLease, WriteQuery, Invalidate,
                WriteRelease, Goto, Reply, Typed, TypeOK
  <2> QED
    BY <2>1, <2>2 DEF NoReadError
<1>4. ASSUME NEW r \in Requests,
             ReadPostgres(r, "finish") \/ MissGet(r, "finish") \/ MissLease(r) \/ Select(r)
               \/ Populate(r) \/ MissRelease(r, "finish")
      PROVE Good
  <2>1. Resolving(r) /\ \A q \in Requests \ {r} : pc'[q] = pc[q] /\ val'[q] = val[q]
    BY <1>4 DEF ReadPostgres, MissGet, MissLease, Select, Populate, MissRelease, Goto, Reply,
                Typed, TypeOK
  <2>2. val'[r] # Err
    BY <1>4, <2>1, NamesDiffer
    DEF NoReadError, ReadPostgres, MissGet, MissLease, Select, Populate, MissRelease,
        PostgresFails, Goto, Reply, Typed, TypeOK
  <2> QED
    BY <2>1, <2>2 DEF NoReadError
<1>5. ASSUME NEW r \in Requests, Cancel(r) PROVE Good
  BY <1>5 DEF Cancel, NoReadError, Typed, TypeOK
<1>6. CASE UNCHANGED <<pc, val>>
  BY <1>6 DEF NoReadError
<1> HIDE DEF Good
<1> QED
  BY <1>1, <1>2, <1>3, <1>4, <1>5, <1>6, StepKinds DEF ProtocolStep

(* While Postgres works no redirect of tier 4.4 fails, whatever Redis does *)
(* and whichever runner is dropped.                                        *)
THEOREM RedirectsSurviveRedis ==
  ASSUME PostgresFaults = {}
  PROVE  Spec => ReadsSurviveRedis
<1> DEFINE Survives ==
      \A r \in Requests :
        KindOf(pc[r]) = "resolve" /\ Active(r) /\ pc'[r] = "done" => val'[r] # Err
<1>1. StoreInit => NoReadError
  BY DEF StoreInit, Init, NoReadError, Resolving, Active
<1>2. Typed /\ NoReadError /\ [Next]_allvars => NoReadError' /\ [Survives]_vars
  BY NoReadErrorStep DEF NoReadError, Resolving
<1>3. Spec => [](Typed /\ NoReadError)
  BY <1>1, <1>2, TypedInit, TypedStep, PTL DEF Spec
<1> QED
  BY <1>2, <1>3, PTL DEF Spec, ReadsSurviveRedis
=============================================================================
