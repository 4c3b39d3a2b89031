------------------------- MODULE LeasedStoreProofs -------------------------
(***************************************************************************)
(* Proofs about LeasedStore, for any set of requests and of URLs.  The     *)
(* first three theorems hold under every fault and with lapsing leases;    *)
(* the others name what they need.                                         *)
(***************************************************************************)
EXTENDS LeasedStore, TLAPS

(* What val holds on the way: the argument of a write, nothing during a    *)
(* lookup, Ok between a successful write and its DEL.                      *)
ArgumentsOK ==
  \A r \in Requests :
    /\ pc[r] \in ShortenSteps \cup {"populate"} => val[r] \in Urls
    /\ pc[r] \in {"write_lease", "write_query"} => val[r] \in Urls \cup {NoUrl}
    /\ pc[r] \in {"get", "filter_check", "read", "miss_get", "miss_lease", "select"} =>
         val[r] = NoUrl
    /\ pc[r] = "invalidate" => val[r] = Ok

Typed == TypeOK /\ ArgumentsOK

LEMMA TypedInit == Init => Typed
BY DEF Init, Typed, TypeOK, ArgumentsOK, Steps, Stages, ShortenSteps

LEMMA TypedStep == Typed /\ [Next]_vars => Typed'
<1> SUFFICES ASSUME Typed, [Next]_vars PROVE Typed'
  OBVIOUS
<1> USE NamesDiffer DEF Typed, TypeOK, ArgumentsOK, Goto, Reply, Steps, ShortenSteps
<1>1. ASSUME NEW r \in Requests, Arrive(r) PROVE Typed'
  BY <1>1 DEF Arrive, Shorten, Update, Delete, Resolve, Start,
              WriteSteps, MissSteps, Stages
<1>2. ASSUME NEW r \in Requests, FilterAdd(r) PROVE Typed'
  BY <1>2 DEF FilterAdd, Stages
<1>3. ASSUME NEW r \in Requests, Insert(r) PROVE Typed'
  BY <1>3 DEF Insert, KeepCommitted, KeepAbsent
<1>4. ASSUME NEW r \in Requests, WriteThrough(r) PROVE Typed'
  BY <1>4 DEF WriteThrough, Stages
<1>5. ASSUME NEW r \in Requests, WriteLease(r) PROVE Typed'
  BY <1>5 DEF WriteLease, TakeLease, TakeLeaseFails, WriteSteps
<1>6. ASSUME NEW r \in Requests, WriteQuery(r) PROVE Typed'
  BY <1>6 DEF WriteQuery, WriteSteps, KeepCommitted, KeepAbsent
<1>7. ASSUME NEW r \in Requests, Invalidate(r) \/ WriteRelease(r) PROVE Typed'
  BY <1>7 DEF Invalidate, WriteRelease, WriteSteps
<1>8. ASSUME NEW r \in Requests,
             Get(r) \/ FilterCheck(r) \/ ReadPostgres(r, "done") \/ MissGet(r, "done")
      PROVE Typed'
  BY <1>8 DEF Get, FilterCheck, FilterMayDeny, ReadPostgres, MissGet, MissSteps
<1>9. ASSUME NEW r \in Requests, MissLease(r) PROVE Typed'
  BY <1>9 DEF MissLease, TakeLease, TakeLeaseFails, MissSteps
<1>10. ASSUME NEW r \in Requests, Select(r) \/ Populate(r) \/ MissRelease(r, "done")
       PROVE Typed'
  BY <1>10 DEF Select, Populate, MissRelease, MissSteps
<1>11. ASSUME NEW r \in Requests, Cancel(r) PROVE Typed'
  BY <1>11 DEF Cancel
<1>12. CASE ExpireCache \/ ExpireLease
  BY <1>12 DEF ExpireCache, ExpireLease
<1>13. CASE UNCHANGED vars
  BY <1>13 DEF vars
<1> QED
  BY <1>1, <1>2, <1>3, <1>4, <1>5, <1>6, <1>7, <1>8, <1>9, <1>10, <1>11, <1>12, <1>13
  DEF Next, Step, ProtocolStep

(* Type correctness of tier 4.3's store.                                   *)
THEOREM TypeCorrect == Spec => []TypeOK
<1>1. Spec => []Typed
  BY TypedInit, TypedStep, PTL DEF Spec
<1> QED
  BY <1>1, PTL DEF Typed

----------------------------------------------------------------------------
(* NeverInvented.  A URL in a request that is past its INSERT or SELECT    *)
(* has been in the row, so what it caches or replies has been too.         *)
NotYetCommitted == {"filter_add", "insert", "write_lease", "write_query", "dropped"}

Traced ==
  /\ cache \in committed \cup {NoUrl}
  /\ row \in committed \cup {NoUrl}
  /\ \A r \in Requests :
       pc[r] \notin NotYetCommitted /\ val[r] \in Urls => val[r] \in committed

LEMMA TracedInit == Init => Traced
BY NamesDiffer DEF Init, Traced, NotYetCommitted

LEMMA TracedStep == Typed /\ Traced /\ [Next]_vars => Traced'
<1> SUFFICES ASSUME Typed, Traced, [Next]_vars PROVE Traced'
  OBVIOUS
<1> USE NamesDiffer
    DEF Typed, TypeOK, ArgumentsOK, Traced, NotYetCommitted, Goto, Reply
<1>1. ASSUME NEW r \in Requests, Arrive(r) PROVE Traced'
  BY <1>1 DEF Arrive, Shorten, Update, Delete, Resolve, Start
<1>2. ASSUME NEW r \in Requests,
             FilterAdd(r) \/ WriteThrough(r) \/ WriteLease(r) \/ Invalidate(r)
               \/ WriteRelease(r)
      PROVE Traced'
  BY <1>2 DEF FilterAdd, WriteThrough, WriteLease, Invalidate, WriteRelease, ShortenSteps
<1>3. ASSUME NEW r \in Requests, Insert(r) \/ WriteQuery(r) PROVE Traced'
  <2>1. committed \subseteq committed'
    BY <1>3 DEF Insert, WriteQuery, KeepCommitted
  <2>2. row' \in committed' \cup {NoUrl}
    BY <1>3 DEF Insert, WriteQuery, KeepCommitted
  <2>3. \A q \in Requests \ {r} : pc'[q] = pc[q] /\ val'[q] = val[q]
    BY <1>3 DEF Insert, WriteQuery
  <2>4. val'[r] \in Urls => val'[r] \in committed'
    BY <1>3 DEF Insert, WriteQuery, KeepCommitted, ShortenSteps
  <2>5. cache' = cache
    BY <1>3 DEF Insert, WriteQuery
  <2> QED
    BY <2>1, <2>2, <2>3, <2>4, <2>5
<1>4. ASSUME NEW r \in Requests,
             Get(r) \/ FilterCheck(r) \/ ReadPostgres(r, "done") \/ MissGet(r, "done")
               \/ MissLease(r)
      PROVE Traced'
  BY <1>4 DEF Get, FilterCheck, FilterMayDeny, ReadPostgres, MissGet, MissLease
<1>5. ASSUME NEW r \in Requests, Select(r) \/ Populate(r) \/ MissRelease(r, "done")
      PROVE Traced'
  BY <1>5 DEF Select, Populate, MissRelease
<1>6. ASSUME NEW r \in Requests, Cancel(r) PROVE Traced'
  BY <1>6 DEF Cancel
<1>7. CASE ExpireCache \/ ExpireLease
  BY <1>7 DEF ExpireCache, ExpireLease
<1>8. CASE UNCHANGED vars
  BY <1>8 DEF vars
<1> QED
  BY <1>1, <1>2, <1>3, <1>4, <1>5, <1>6, <1>7, <1>8 DEF Next, Step, ProtocolStep

(* Whatever fails, neither the cache nor a reply shows a URL that Postgres *)
(* never held for the code.                                                *)
THEOREM NothingInvented == Spec => []NeverInvented
<1>1. Spec => [](Typed /\ Traced)
  BY TypedInit, TypedStep, TracedInit, TracedStep, PTL DEF Spec
<1>2. Traced => NeverInvented
  BY DEF Traced, NeverInvented, NotYetCommitted
<1> QED
  BY <1>1, <1>2, PTL

----------------------------------------------------------------------------
(* NoDeadLink.  The filter's "no" is sound because a row only exists after *)
(* the code has entered the filter; every other "not found" copies a row   *)
(* that was missing while the request ran.                                 *)
FilterFirst ==
  /\ row # NoUrl => stage \in {"in_filter", "public"}
  /\ \A r \in Requests :
       pc[r] \in {"insert", "write_through"} => stage \in {"in_filter", "public"}

AbsenceSeen ==
  /\ row = NoUrl => \A r \in Requests : Active(r) => r \in absent
  /\ \A r \in Requests :
       pc[r] \in {"miss_release", "write_release", "done"} /\ val[r] = NoUrl => r \in absent

LEMMA AbsenceInit == Init => FilterFirst /\ AbsenceSeen
BY NamesDiffer DEF Init, FilterFirst, AbsenceSeen, Active

LEMMA FilterFirstStep == Typed /\ FilterFirst /\ [Next]_vars => FilterFirst'
<1> SUFFICES ASSUME Typed, FilterFirst, [Next]_vars PROVE FilterFirst'
  OBVIOUS
<1> USE NamesDiffer DEF Typed, TypeOK, FilterFirst, Goto, Reply
<1>1. ASSUME NEW r \in Requests, Arrive(r) PROVE FilterFirst'
  BY <1>1 DEF Arrive, Shorten, Update, Delete, Resolve, Start
<1>2. ASSUME NEW r \in Requests,
             FilterAdd(r) \/ Insert(r) \/ WriteThrough(r) \/ WriteQuery(r)
      PROVE FilterFirst'
  BY <1>2 DEF FilterAdd, Insert, WriteThrough, WriteQuery
<1>3. ASSUME NEW r \in Requests,
             WriteLease(r) \/ Invalidate(r) \/ WriteRelease(r) \/ Get(r) \/ FilterCheck(r)
               \/ ReadPostgres(r, "done") \/ MissGet(r, "done") \/ MissLease(r)
               \/ Select(r) \/ Populate(r) \/ MissRelease(r, "done") \/ Cancel(r)
      PROVE FilterFirst'
  BY <1>3 DEF WriteLease, Invalidate, WriteRelease, Get, FilterCheck, FilterMayDeny, ReadPostgres,
              MissGet, MissLease, Select, Populate, MissRelease, Cancel
<1>4. CASE ExpireCache \/ ExpireLease \/ UNCHANGED vars
  BY <1>4 DEF ExpireCache, ExpireLease, vars
<1> QED
  BY <1>1, <1>2, <1>3, <1>4 DEF Next, Step, ProtocolStep

LEMMA AbsenceSeenStep ==
  Typed /\ FilterFirst /\ AbsenceSeen /\ [Next]_vars => AbsenceSeen'
<1> SUFFICES ASSUME Typed, FilterFirst, AbsenceSeen, [Next]_vars PROVE AbsenceSeen'
  OBVIOUS
<1> USE NamesDiffer
    DEF Typed, TypeOK, ArgumentsOK, AbsenceSeen, Active, Goto, Reply
<1>1. ASSUME NEW r \in Requests, Arrive(r) PROVE AbsenceSeen'
  BY <1>1 DEF Arrive, Shorten, Update, Delete, Resolve, Start
<1>2. ASSUME NEW r \in Requests, FilterAdd(r) \/ WriteThrough(r) PROVE AbsenceSeen'
  BY <1>2 DEF FilterAdd, WriteThrough
<1>3. ASSUME NEW r \in Requests, Insert(r) PROVE AbsenceSeen'
  BY <1>3 DEF Insert, KeepAbsent
<1>4. ASSUME NEW r \in Requests, WriteQuery(r) PROVE AbsenceSeen'
  BY <1>4 DEF WriteQuery, KeepAbsent
<1>5. ASSUME NEW r \in Requests, WriteLease(r) \/ Invalidate(r) \/ WriteRelease(r)
      PROVE AbsenceSeen'
  BY <1>5 DEF WriteLease, Invalidate, WriteRelease
<1>6. ASSUME NEW r \in Requests, FilterCheck(r) PROVE AbsenceSeen'
  BY <1>6 DEF FilterCheck, FilterMayDeny, FilterFirst
<1>7. ASSUME NEW r \in Requests,
             Get(r) \/ ReadPostgres(r, "done") \/ MissGet(r, "done") \/ MissLease(r)
      PROVE AbsenceSeen'
  BY <1>7 DEF Get, ReadPostgres, MissGet, MissLease
<1>8. ASSUME NEW r \in Requests, Select(r) \/ Populate(r) \/ MissRelease(r, "done")
      PROVE AbsenceSeen'
  BY <1>8 DEF Select, Populate, MissRelease
<1>9. ASSUME NEW r \in Requests, Cancel(r) PROVE AbsenceSeen'
  BY <1>9 DEF Cancel
<1>10. CASE ExpireCache \/ ExpireLease \/ UNCHANGED vars
  BY <1>10 DEF ExpireCache, ExpireLease, vars
<1> QED
  BY <1>1, <1>2, <1>3, <1>4, <1>5, <1>6, <1>7, <1>8, <1>9, <1>10
  DEF Next, Step, ProtocolStep

(* Whatever fails, "not found" is only said of a link that Postgres did    *)
(* not have at some moment of the request.                                 *)
THEOREM NoLinkDies == Spec => []NoDeadLink
<1>1. Spec => [](Typed /\ FilterFirst /\ AbsenceSeen)
  BY TypedInit, TypedStep, AbsenceInit, FilterFirstStep, AbsenceSeenStep, PTL DEF Spec
<1>2. AbsenceSeen => NoDeadLink
  BY DEF AbsenceSeen, NoDeadLink
<1> QED
  BY <1>1, <1>2, PTL

----------------------------------------------------------------------------
(* The lease, as long as it outlives the work of its holder.               *)
LEMMA GuardedInit == Init => GuardedHoldLease
BY DEF Init, GuardedHoldLease, Guarded

LEMMA GuardedStep ==
  ASSUME LapseAt = {}
  PROVE  Typed /\ GuardedHoldLease /\ [Next]_vars => GuardedHoldLease'
<1> SUFFICES ASSUME Typed, GuardedHoldLease, [Next]_vars PROVE GuardedHoldLease'
  OBVIOUS
<1> USE NamesDiffer DEF Typed, TypeOK, GuardedHoldLease, Guarded, Goto, Reply
<1>1. ASSUME NEW r \in Requests, Arrive(r) PROVE GuardedHoldLease'
  BY <1>1 DEF Arrive, Shorten, Update, Delete, Resolve, Start
<1>2. ASSUME NEW r \in Requests, FilterAdd(r) \/ Insert(r) \/ WriteThrough(r)
      PROVE GuardedHoldLease'
  BY <1>2 DEF FilterAdd, Insert, WriteThrough
<1>3. ASSUME NEW r \in Requests, WriteLease(r) \/ MissLease(r)
      PROVE GuardedHoldLease'
  BY <1>3 DEF WriteLease, MissLease, TakeLease, TakeLeaseFails
<1>4. ASSUME NEW r \in Requests,
             WriteQuery(r) \/ Invalidate(r) \/ Select(r) \/ Populate(r)
      PROVE GuardedHoldLease'
  BY <1>4 DEF WriteQuery, Invalidate, Select, Populate
<1>5. ASSUME NEW r \in Requests, WriteRelease(r) \/ MissRelease(r, "done")
      PROVE GuardedHoldLease'
  BY <1>5 DEF WriteRelease, MissRelease
<1>6. ASSUME NEW r \in Requests,
             Get(r) \/ FilterCheck(r) \/ ReadPostgres(r, "done") \/ MissGet(r, "done")
               \/ Cancel(r)
      PROVE GuardedHoldLease'
  BY <1>6 DEF Get, FilterCheck, FilterMayDeny, ReadPostgres, MissGet, Cancel
<1>7. CASE ExpireCache \/ ExpireLease \/ UNCHANGED vars
  BY <1>7 DEF ExpireCache, ExpireLease, vars
<1> QED
  BY <1>1, <1>2, <1>3, <1>4, <1>5, <1>6, <1>7 DEF Next, Step, ProtocolStep

(* The lease excludes: between its SET NX and its DEL a request is the     *)
(* holder of lease:{code}, although the DEL is not fenced.                 *)
THEOREM LeaseExcludes ==
  ASSUME LapseAt = {}
  PROVE  Spec => []GuardedHoldLease
<1>1. Spec => [](Typed /\ GuardedHoldLease)
  BY TypedInit, TypedStep, GuardedInit, GuardedStep, PTL DEF Spec
<1> QED
  BY <1>1, PTL

----------------------------------------------------------------------------
(* Stale fills.  Until shorten has returned, its request is the only one   *)
(* that knows the code, so its unleased SET cannot cross another write.    *)
ShortenAlone ==
  /\ stage = "unminted" => \A r \in Requests : ~Active(r)
  /\ \A r \in Requests :
       pc[r] \in ShortenSteps =>
         stage \in {"minted", "in_filter"} /\ \A q \in Requests : Active(q) => q = r
  /\ stage # "public" => \A r \in Requests : Active(r) => pc[r] \in ShortenSteps

(* What a request is about to cache is what Postgres holds.                *)
FillsFresh ==
  \A r \in Requests : pc[r] \in {"write_through", "populate"} => val[r] = row

LEMMA FreshInit == Init => ShortenAlone /\ FillsFresh
BY DEF Init, ShortenAlone, FillsFresh, Active, ShortenSteps

LEMMA ShortenAloneStep ==
  ASSUME CodesGuessable = FALSE
  PROVE  Typed /\ ShortenAlone /\ [Next]_vars => ShortenAlone'
<1> SUFFICES ASSUME Typed, ShortenAlone, [Next]_vars PROVE ShortenAlone'
  OBVIOUS
<1> USE DEF Typed, TypeOK, Stages, ShortenAlone, ShortenSteps, Active, Goto, Reply
<1>1. ASSUME NEW r \in Requests, Arrive(r) PROVE ShortenAlone'
  BY <1>1 DEF Arrive, Shorten, Update, Delete, Resolve, Start, CodeKnown
<1>2. ASSUME NEW r \in Requests, FilterAdd(r) \/ Insert(r) \/ WriteThrough(r)
      PROVE ShortenAlone'
  BY <1>2 DEF FilterAdd, Insert, WriteThrough
<1>3. ASSUME NEW r \in Requests,
             WriteLease(r) \/ WriteQuery(r) \/ Invalidate(r) \/ WriteRelease(r)
               \/ Get(r) \/ FilterCheck(r) \/ ReadPostgres(r, "done")
               \/ MissGet(r, "done") \/ MissLease(r) \/ Select(r) \/ Populate(r)
               \/ MissRelease(r, "done")
      PROVE ShortenAlone'
  BY <1>3 DEF WriteLease, WriteQuery, Invalidate, WriteRelease, Get, FilterCheck, FilterMayDeny,
              ReadPostgres, MissGet, MissLease, Select, Populate, MissRelease
<1>4. ASSUME NEW r \in Requests, Cancel(r) PROVE ShortenAlone'
  BY <1>4 DEF Cancel
<1>5. CASE ExpireCache \/ ExpireLease \/ UNCHANGED vars
  BY <1>5 DEF ExpireCache, ExpireLease, vars
<1> QED
  BY <1>1, <1>2, <1>3, <1>4, <1>5 DEF Next, Step, ProtocolStep

LEMMA FillsFreshStep ==
  Typed /\ GuardedHoldLease /\ ShortenAlone /\ FillsFresh /\ [Next]_vars => FillsFresh'
<1> SUFFICES ASSUME Typed, GuardedHoldLease, ShortenAlone, FillsFresh, [Next]_vars
             PROVE  FillsFresh'
  OBVIOUS
<1> USE DEF Typed, TypeOK, FillsFresh, Goto, Reply
<1>1. ASSUME NEW r \in Requests, Arrive(r) PROVE FillsFresh'
  BY <1>1 DEF Arrive, Shorten, Update, Delete, Resolve, Start
<1>2. ASSUME NEW r \in Requests, Insert(r) PROVE FillsFresh'
  <2>1. \A q \in Requests : pc[q] \in {"write_through", "populate"} => q = r
    BY <1>2 DEF Insert, ShortenAlone, ShortenSteps, Active
  <2> QED
    BY <1>2, <2>1 DEF Insert
<1>3. ASSUME NEW r \in Requests, WriteQuery(r) PROVE FillsFresh'
  <2>1. \A q \in Requests : pc[q] \notin {"write_through", "populate"}
    BY <1>3 DEF WriteQuery, GuardedHoldLease, Guarded, ShortenAlone, ShortenSteps, Active
  <2> QED
    BY <1>3, <2>1 DEF WriteQuery
<1>4. ASSUME NEW r \in Requests,
             FilterAdd(r) \/ WriteThrough(r) \/ WriteLease(r) \/ Invalidate(r)
               \/ WriteRelease(r) \/ Get(r) \/ FilterCheck(r) \/ ReadPostgres(r, "done")
               \/ MissGet(r, "done") \/ MissLease(r) \/ Select(r) \/ Populate(r)
               \/ MissRelease(r, "done") \/ Cancel(r)
      PROVE FillsFresh'
  BY <1>4 DEF FilterAdd, WriteThrough, WriteLease, Invalidate, WriteRelease, Get,
              FilterCheck, FilterMayDeny, ReadPostgres, MissGet, MissLease, Select, Populate,
              MissRelease, Cancel
<1>5. CASE ExpireCache \/ ExpireLease \/ UNCHANGED vars
  BY <1>5 DEF ExpireCache, ExpireLease, vars
<1> QED
  BY <1>1, <1>2, <1>3, <1>4, <1>5 DEF Next, Step, ProtocolStep

LEMMA FreshFillsStep == FillsFresh /\ [Next]_vars => cache' \in {cache, NoUrl, row}
<1> SUFFICES ASSUME FillsFresh, [Next]_vars PROVE cache' \in {cache, NoUrl, row}
  OBVIOUS
<1>1. ASSUME NEW r \in Requests, Arrive(r) PROVE cache' = cache
  BY <1>1 DEF Arrive, Shorten, Update, Delete, Resolve
<1>2. ASSUME NEW r \in Requests, WriteThrough(r) \/ Populate(r) \/ Invalidate(r)
      PROVE cache' \in {cache, NoUrl, row}
  BY <1>2 DEF FillsFresh, WriteThrough, Populate, Invalidate
<1>3. ASSUME NEW r \in Requests,
             FilterAdd(r) \/ Insert(r) \/ WriteLease(r) \/ WriteQuery(r)
               \/ WriteRelease(r) \/ Get(r) \/ FilterCheck(r) \/ ReadPostgres(r, "done")
               \/ MissGet(r, "done") \/ MissLease(r) \/ Select(r)
               \/ MissRelease(r, "done") \/ Cancel(r)
      PROVE cache' = cache
  BY <1>3 DEF FilterAdd, Insert, WriteLease, WriteQuery, WriteRelease, Get, FilterCheck, FilterMayDeny,
              ReadPostgres, MissGet, MissLease, Select, MissRelease, Cancel
<1>4. CASE ExpireCache \/ ExpireLease \/ UNCHANGED vars
  BY <1>4 DEF ExpireCache, ExpireLease, vars
<1> QED
  BY <1>1, <1>2, <1>3, <1>4 DEF Next, Step, ProtocolStep

(* Nothing stale enters the cache, provided a working holder keeps its     *)
(* lease and nobody uses a code before shorten has returned it.            *)
THEOREM FillsAreFresh ==
  ASSUME LapseAt = {}, CodesGuessable = FALSE
  PROVE  Spec => NoStaleFill
<1>1. Spec => [](Typed /\ GuardedHoldLease /\ ShortenAlone /\ FillsFresh)
  BY TypedInit, TypedStep, GuardedInit, GuardedStep, FreshInit, ShortenAloneStep,
     FillsFreshStep, PTL DEF Spec
<1>2. FillsFresh /\ [Next]_vars => [cache' \in {cache, NoUrl, row}]_vars
  BY FreshFillsStep
<1> QED
  BY <1>1, <1>2, PTL DEF Spec, NoStaleFill

----------------------------------------------------------------------------
(* Coherence.  Besides fresh fills it takes writers that get through: from *)
(* its UPDATE or DELETE to its DEL a writer covers the entry it outdates.  *)
UncachedBeforeInsert ==
  /\ stage = "unminted" => cache = NoUrl
  /\ \A r \in Requests : pc[r] \in ShortenSteps => cache = NoUrl

CoherentInv ==
  /\ Typed /\ GuardedHoldLease /\ ShortenAlone /\ FillsFresh
  /\ UncachedBeforeInsert
  /\ Coherent

LEMMA CoherentInit == Init => UncachedBeforeInsert /\ Coherent
BY DEF Init, UncachedBeforeInsert, Coherent, ShortenSteps

LEMMA UncachedStep ==
  Typed /\ ShortenAlone /\ UncachedBeforeInsert /\ [Next]_vars => UncachedBeforeInsert'
<1> SUFFICES ASSUME Typed, ShortenAlone, UncachedBeforeInsert, [Next]_vars
             PROVE  UncachedBeforeInsert'
  OBVIOUS
<1> USE DEF Typed, TypeOK, ShortenAlone, ShortenSteps, Active,
            UncachedBeforeInsert, Goto, Reply
<1>1. ASSUME NEW r \in Requests, Arrive(r) PROVE UncachedBeforeInsert'
  BY <1>1 DEF Arrive, Shorten, Update, Delete, Resolve, Start
<1>2. ASSUME NEW r \in Requests, FilterAdd(r) \/ Insert(r) \/ WriteThrough(r)
      PROVE UncachedBeforeInsert'
  BY <1>2 DEF FilterAdd, Insert, WriteThrough
<1>3. ASSUME NEW r \in Requests,
             WriteLease(r) \/ WriteQuery(r) \/ Invalidate(r) \/ WriteRelease(r)
               \/ Get(r) \/ FilterCheck(r) \/ ReadPostgres(r, "done")
               \/ MissGet(r, "done") \/ MissLease(r) \/ Select(r) \/ Populate(r)
               \/ MissRelease(r, "done") \/ Cancel(r)
      PROVE UncachedBeforeInsert'
  BY <1>3 DEF WriteLease, WriteQuery, Invalidate, WriteRelease, Get, FilterCheck, FilterMayDeny,
              ReadPostgres, MissGet, MissLease, Select, Populate, MissRelease, Cancel
<1>4. CASE ExpireCache \/ ExpireLease \/ UNCHANGED vars
  BY <1>4 DEF ExpireCache, ExpireLease, vars
<1> QED
  BY <1>1, <1>2, <1>3, <1>4 DEF Next, Step, ProtocolStep

LEMMA CoherentStep ==
  ASSUME "write" \notin RedisFaults \cup PostgresFaults \cup Cancels
  PROVE  CoherentInv /\ [Next]_vars => Coherent'
<1> SUFFICES ASSUME CoherentInv, [Next]_vars PROVE Coherent'
  OBVIOUS
<1> USE DEF CoherentInv, Typed, TypeOK, Coherent, Goto, Reply, RedisFails,
            PostgresFails, KindOf, ShortenSteps, WriteSteps
<1>1. ASSUME NEW r \in Requests, Arrive(r) PROVE Coherent'
  BY <1>1 DEF Arrive, Shorten, Update, Delete, Resolve, Start, Active
<1>2. ASSUME NEW r \in Requests, Insert(r) PROVE Coherent'
  BY <1>2 DEF Insert, UncachedBeforeInsert
<1>3. ASSUME NEW r \in Requests, WriteQuery(r) PROVE Coherent'
  <2>1. CASE row # NoUrl
    <3>1. pc'[r] = "invalidate"
      BY <1>3, <2>1 DEF WriteQuery
    <3> QED
      BY <3>1
  <2>2. CASE row = NoUrl
    <3>1. \A q \in Requests \ {r} : pc'[q] = pc[q]
      BY <1>3 DEF WriteQuery
    <3>2. pc[r] # "invalidate" /\ row' = row /\ cache' = cache
      BY <1>3, <2>2 DEF WriteQuery
    <3> QED
      BY <3>1, <3>2
  <2> QED
    BY <2>1, <2>2
<1>4. ASSUME NEW r \in Requests, Invalidate(r) PROVE Coherent'
  BY <1>4 DEF Invalidate
<1>5. ASSUME NEW r \in Requests, WriteThrough(r) \/ Populate(r) PROVE Coherent'
  <2>1. val[r] = row /\ row' = row /\ cache' \in {cache, row}
    BY <1>5 DEF FillsFresh, WriteThrough, Populate
  <2>2. \A q \in Requests : pc[q] = "invalidate" => pc'[q] = "invalidate"
    BY <1>5 DEF WriteThrough, Populate
  <2> QED
    BY <2>1, <2>2
<1>6. ASSUME NEW r \in Requests,
             FilterAdd(r) \/ WriteLease(r) \/ WriteRelease(r) \/ Get(r) \/ FilterCheck(r)
               \/ ReadPostgres(r, "done") \/ MissGet(r, "done") \/ MissLease(r)
               \/ Select(r) \/ MissRelease(r, "done") \/ Cancel(r)
      PROVE Coherent'
  <2>1. row' = row /\ cache' = cache
    BY <1>6 DEF FilterAdd, WriteLease, WriteRelease, Get, FilterCheck, FilterMayDeny, ReadPostgres,
                MissGet, MissLease, Select, MissRelease, Cancel
  <2>2. \A q \in Requests : pc[q] = "invalidate" => pc'[q] = "invalidate"
    BY <1>6 DEF FilterAdd, WriteLease, WriteRelease, Get, FilterCheck, FilterMayDeny, ReadPostgres,
                MissGet, MissLease, Select, MissRelease, Cancel
  <2> QED
    BY <2>1, <2>2
<1>7. CASE ExpireCache \/ ExpireLease \/ UNCHANGED vars
  BY <1>7 DEF ExpireCache, ExpireLease, vars
<1> QED
  BY <1>1, <1>2, <1>3, <1>4, <1>5, <1>6, <1>7 DEF Next, Step, ProtocolStep

(* The cache shows the row, or its writer is about to delete the entry:    *)
(* for every code kept secret until it is returned, if working holders     *)
(* keep their leases and no PATCH or DELETE fails or is dropped half way.  *)
THEOREM CacheIsCoherent ==
  ASSUME LapseAt = {}, CodesGuessable = FALSE,
         "write" \notin RedisFaults \cup PostgresFaults \cup Cancels
  PROVE  Spec => []Coherent
<1>1. Init => CoherentInv
  BY TypedInit, GuardedInit, FreshInit, CoherentInit DEF CoherentInv
<1>2. CoherentInv /\ [Next]_vars => CoherentInv'
  BY TypedStep, GuardedStep, ShortenAloneStep, FillsFreshStep, UncachedStep, CoherentStep
  DEF CoherentInv
<1> QED
  BY <1>1, <1>2, PTL DEF Spec, CoherentInv

----------------------------------------------------------------------------
(* Reads without Redis.  An error inside a lookup can only be Postgres's.  *)
NoReadError ==
  \A r \in Requests : Active(r) /\ KindOf(pc[r]) = "resolve" => val[r] # Err

LEMMA NoReadErrorInit == Init => NoReadError
BY DEF Init, NoReadError, Active

LEMMA ReadStep ==
  ASSUME PostgresFaults = {},
         Typed, NoReadError, NEW r \in Requests,
         Get(r) \/ FilterCheck(r) \/ ReadPostgres(r, "done") \/ MissGet(r, "done")
           \/ MissLease(r) \/ Select(r) \/ Populate(r) \/ MissRelease(r, "done")
  PROVE  val'[r] # Err /\ \A q \in Requests \ {r} : pc'[q] = pc[q] /\ val'[q] = val[q]
BY NamesDiffer
DEF Typed, TypeOK, ArgumentsOK, NoReadError, Active, KindOf, ShortenSteps, WriteSteps,
    Goto, Reply, PostgresFails, Get, FilterCheck, FilterMayDeny, ReadPostgres, MissGet, MissLease,
    Select, Populate, MissRelease

LEMMA NoReadErrorStep ==
  ASSUME PostgresFaults = {}
  PROVE  Typed /\ NoReadError /\ [Next]_vars =>
           /\ NoReadError'
           /\ \A r \in Requests :
                KindOf(pc[r]) = "resolve" /\ Active(r) /\ pc'[r] = "done" => val'[r] # Err
<1> DEFINE Survives ==
      \A r \in Requests :
        KindOf(pc[r]) = "resolve" /\ Active(r) /\ pc'[r] = "done" => val'[r] # Err
<1> SUFFICES ASSUME Typed, NoReadError, [Next]_vars PROVE NoReadError' /\ Survives
  OBVIOUS
<1>1. ASSUME NEW r \in Requests, Arrive(r) PROVE NoReadError' /\ Survives
  BY <1>1, NamesDiffer
  DEF Arrive, Shorten, Update, Delete, Resolve, Start, Goto, Active, KindOf, NoReadError,
      Typed, TypeOK, ShortenSteps, WriteSteps
<1>2. ASSUME NEW r \in Requests,
             FilterAdd(r) \/ Insert(r) \/ WriteThrough(r) \/ WriteLease(r)
               \/ WriteQuery(r) \/ Invalidate(r) \/ WriteRelease(r)
      PROVE NoReadError' /\ Survives
  <2>1. KindOf(pc[r]) # "resolve" /\ (pc'[r] = "done" \/ KindOf(pc'[r]) # "resolve")
    BY <1>2 DEF KindOf, ShortenSteps, WriteSteps, FilterAdd, Insert, WriteThrough,
                WriteLease, WriteQuery, Invalidate, WriteRelease, Goto, Reply, Typed, TypeOK
  <2>2. \A q \in Requests \ {r} : pc'[q] = pc[q] /\ val'[q] = val[q]
    BY <1>2 DEF FilterAdd, Insert, WriteThrough, WriteLease, WriteQuery, Invalidate,
                WriteRelease, Goto, Reply, Typed, TypeOK
  <2> QED
    BY <2>1, <2>2 DEF NoReadError, Active
<1>3. ASSUME NEW r \in Requests,
             Get(r) \/ FilterCheck(r) \/ ReadPostgres(r, "done") \/ MissGet(r, "done")
               \/ MissLease(r) \/ Select(r) \/ Populate(r) \/ MissRelease(r, "done")
      PROVE NoReadError' /\ Survives
  BY <1>3, ReadStep DEF NoReadError, Active
<1>4. ASSUME NEW r \in Requests, Cancel(r) PROVE NoReadError' /\ Survives
  BY <1>4 DEF Cancel, NoReadError, Active, Typed, TypeOK
<1>5. CASE ExpireCache \/ ExpireLease \/ UNCHANGED vars
  BY <1>5 DEF ExpireCache, ExpireLease, vars, NoReadError, Active
<1> QED
  BY <1>1, <1>2, <1>3, <1>4, <1>5 DEF Next, Step, ProtocolStep

(* While Postgres works a redirect never fails, whatever Redis does.       *)
THEOREM RedirectsSurviveRedis ==
  ASSUME PostgresFaults = {}
  PROVE  Spec => ReadsSurviveRedis
<1>1. Spec => [](Typed /\ NoReadError)
  BY TypedInit, TypedStep, NoReadErrorInit, NoReadErrorStep, PTL DEF Spec
<1>2. Typed /\ NoReadError /\ [Next]_vars =>
        [\A r \in Requests :
           KindOf(pc[r]) = "resolve" /\ Active(r) /\ pc'[r] = "done" => val'[r] # Err]_vars
  BY NoReadErrorStep
<1> QED
  BY <1>1, <1>2, PTL DEF Spec, ReadsSurviveRedis
============================================================================
