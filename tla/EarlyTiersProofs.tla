-------------------------- MODULE EarlyTiersProofs --------------------------
(***************************************************************************)
(* The early tiers implement AtomicLink, for any requests and URLs and     *)
(* with every fault, and are type-correct.                                 *)
(***************************************************************************)
EXTENDS EarlyTiers, Base62Proofs

AsideSteps == {"filter_add", "insert", "write_through", "get", "filter_check",
               "read", "select", "populate", "done", "dropped"}
Creating == {"filter_add", "insert", "write_through"}
Reading  == {"get", "filter_check", "read", "select"}

StateTypes ==
  /\ row \in Urls \cup {NoUrl}
  /\ cache \in {NoUrl, row}
  /\ committed = {row} \ {NoUrl}
  /\ stage \in Stages
  /\ pc \in [Requests -> AsideSteps]
  /\ val \in [Requests -> Urls \cup {NoUrl, Ok, Err}]

(* The code is minted for one request, and the row is written by its INSERT.*)
OneCreator ==
  /\ \A q, r \in Requests : pc[q] \in Creating /\ pc[r] \in Creating => q = r
  /\ stage = "unminted" => row = NoUrl /\ \A r \in Requests : pc[r] \notin Creating
  /\ \A r \in Requests : pc[r] \in {"filter_add", "insert"} => val[r] \in Urls /\ row = NoUrl
  /\ \A r \in Requests : pc[r] = "write_through" => val[r] = row /\ row # NoUrl

(* A redirect has no value until it has read one; then it is the row's. *)
Readers ==
  /\ \A r \in Requests : pc[r] \in Reading => val[r] = NoUrl
  /\ \A r \in Requests : pc[r] = "populate" => val[r] = row /\ row # NoUrl

(* What makes tier 4.2's filter right in saying "no". *)
Filtered ==
  /\ \A r \in Requests : pc[r] = "filter_check" => tier = "4.2"
  /\ tier = "4.2" /\ stage \in {"unminted", "minted"} =>
       row = NoUrl /\ \A r \in Requests : pc[r] # "insert"

AsideInv == StateTypes /\ OneCreator /\ Readers /\ Filtered

----------------------------------------------------------------------------
LEMMA InitAside == AsideInit => AsideInv
BY NamesDiffer DEF AsideInit, Init, AsideInv, StateTypes, OneCreator, Readers, Filtered,
                   Stages, AsideSteps, Creating, Reading

LEMMA InitMaps == AsideInit => Link!LinkInit
BY NamesDiffer DEF AsideInit, Init, Link!LinkInit, PhaseOf, ValueOf

(* One request moves, and with it its phase and its value. *)
LEMMA Maps ==
  ASSUME AsideInv, NEW r \in Requests, NEW s, NEW v, Goto(r, s, v),
         NEW p, NEW w, PhaseOf(r)' = p, ValueOf(r)' = w
  PROVE  Link!Becomes(r, p, w)
<1>1. \A q \in Requests : q # r => PhaseOf(q)' = PhaseOf(q) /\ ValueOf(q)' = ValueOf(q)
  BY DEF Goto, AsideInv, StateTypes, PhaseOf, ValueOf
<1> QED
  BY <1>1 DEF Link!Becomes

----------------------------------------------------------------------------
(* A new request. *)
LEMMA ArriveAside ==
  ASSUME AsideInv, NEW r \in Requests, AsideArrive(r), UNCHANGED tier
  PROVE  AsideInv' /\ Link!Ask(r)
<1> USE NamesDiffer DEF Start, Goto, Active, AsideInv, StateTypes, AsideSteps, Stages
<1>1. CASE \E url \in Urls : Mint(r, url)
  <2>1. PICK url \in Urls, s \in {"filter_add", "insert"} :
          Goto(r, s, url) /\ (s = "insert" => tier # "4.2")
    BY <1>1 DEF Mint
  <2>2. /\ stage = "unminted" /\ stage' = "minted"
        /\ row' = row /\ cache' = cache /\ committed' = committed
        /\ pc[r] \in {"done", "dropped"}
    BY <1>1 DEF Mint
  <2>3. AsideInv'
    BY <2>1, <2>2 DEF OneCreator, Readers, Filtered, Creating, Reading
  <2>4. Link!Becomes(r, "create", url)
    BY <2>1, Maps DEF PhaseOf, ValueOf
  <2> QED
    BY <2>2, <2>3, <2>4 DEF Link!Ask, PhaseOf
<1>2. CASE Resolve(r)
  <2>1. PICK s \in {"get", "read"} : Goto(r, s, NoUrl)
    BY <1>2 DEF Resolve
  <2>2. /\ stage' = stage /\ row' = row /\ cache' = cache /\ committed' = committed
        /\ pc[r] \in {"done", "dropped"}
    BY <1>2 DEF Resolve
  <2>3. AsideInv'
    BY <2>1, <2>2 DEF OneCreator, Readers, Filtered, Creating, Reading
  <2>4. Link!Becomes(r, "read", NoUrl)
    BY <2>1, Maps DEF PhaseOf, ValueOf
  <2> QED
    BY <2>2, <2>3, <2>4 DEF Link!Ask, PhaseOf
<1> QED
  BY <1>1, <1>2 DEF AsideArrive

(* A request ends: by Err it may always, and what else it says is the      *)
(* link's destination.                                                     *)
LEMMA EndAside ==
  ASSUME AsideInv, NEW r \in Requests, NEW v \in {row, NoUrl, Ok, Err}, Reply(r, v),
         row' = row, cache' \in {NoUrl, row}, committed' = committed, stage' = stage,
         UNCHANGED tier
  PROVE  AsideInv'
BY NamesDiffer DEF Reply, Goto, AsideInv, StateTypes, AsideSteps, OneCreator, Readers,
                   Filtered, Creating, Reading

(* The commands of a redirect. *)
LEMMA ReadAside ==
  ASSUME AsideInv, NEW r \in Requests, UNCHANGED tier,
         \/ Lookup(r) \/ Get(r, TRUE) \/ FilterCheck(r)
         \/ ReadPostgres(r, "done") \/ RebuildQuery(r) \/ RebuildSet(r)
  PROVE  AsideInv' /\ (Link!LinkNext \/ UNCHANGED Link!linkvars)
<1> USE NamesDiffer
<1>1. /\ row' = row /\ committed' = committed /\ stage' = stage
      /\ cache' \in {NoUrl, row}
  BY DEF Lookup, Get, FilterCheck, ReadPostgres, RebuildQuery, RebuildSet,
         AsideInv, StateTypes, Readers
<1>2. \/ pc[r] \in Reading /\ (Reply(r, row) \/ (row # NoUrl /\ Goto(r, "populate", row)))
      \/ Reply(r, Err)
      \/ /\ pc[r] \in Reading
         /\ \E s \in Reading : Goto(r, s, NoUrl) /\ (s = "filter_check" => tier = "4.2")
      \/ pc[r] = "populate" /\ Reply(r, val[r])
  BY DEF Lookup, Get, FilterCheck, FilterMayDeny, ReadPostgres, RebuildQuery, RebuildSet,
         Reply, Reading, AsideInv, StateTypes, Filtered
<1>3. CASE pc[r] \in Reading /\ (Reply(r, row) \/ (row # NoUrl /\ Goto(r, "populate", row)))
  <2>1. AsideInv'
    BY <1>1, <1>3 DEF Reply, Goto, AsideInv, StateTypes, AsideSteps, OneCreator, Readers,
                      Filtered, Creating, Reading
  <2>2. PICK s \in {"done", "populate"} : Goto(r, s, row)
    BY <1>3 DEF Reply
  <2>3. PhaseOf(r)' = "ended" /\ ValueOf(r)' = row /\ PhaseOf(r) = "read"
    BY <1>3, <2>2 DEF Goto, AsideInv, StateTypes, PhaseOf, ValueOf, Reading
  <2>4. Link!Becomes(r, "ended", row)
    BY <2>2, <2>3, Maps
  <2>5. Link!Read(r)
    BY <1>1, <2>3, <2>4 DEF Link!Read
  <2> QED
    BY <2>1, <2>5 DEF Link!LinkNext
<1>4. CASE Reply(r, Err)
  <2>1. AsideInv'
    BY <1>1, <1>4, EndAside
  <2>2. Link!Becomes(r, "ended", Err)
    BY <1>4, Maps DEF Reply, Goto, AsideInv, StateTypes, PhaseOf, ValueOf
  <2> QED
    BY <1>1, <2>1, <2>2 DEF Link!LinkNext, Link!Fail
<1>5. ASSUME NEW s \in Reading, pc[r] \in Reading, Goto(r, s, NoUrl),
             s = "filter_check" => tier = "4.2"
      PROVE  AsideInv' /\ UNCHANGED Link!linkvars
  <2>1. AsideInv'
    BY <1>1, <1>5 DEF Goto, AsideInv, StateTypes, AsideSteps, OneCreator, Readers,
                      Filtered, Creating, Reading
  <2>2. \A q \in Requests : PhaseOf(q)' = PhaseOf(q) /\ ValueOf(q)' = ValueOf(q)
    BY <1>5 DEF Goto, AsideInv, StateTypes, Readers, PhaseOf, ValueOf, Reading
  <2> QED
    BY <1>1, <2>1, <2>2 DEF Link!linkvars
<1>6. CASE pc[r] = "populate" /\ Reply(r, val[r])
  <2>1. AsideInv'
    BY <1>1, <1>6, EndAside DEF AsideInv, Readers
  <2>2. \A q \in Requests : PhaseOf(q)' = PhaseOf(q) /\ ValueOf(q)' = ValueOf(q)
    BY <1>6 DEF Reply, Goto, AsideInv, StateTypes, PhaseOf, ValueOf
  <2> QED
    BY <1>1, <2>1, <2>2 DEF Link!linkvars
<1>7. CASE pc[r] \in Reading /\ \E s \in Reading :
             Goto(r, s, NoUrl) /\ (s = "filter_check" => tier = "4.2")
  <2>1. PICK s \in Reading : Goto(r, s, NoUrl) /\ (s = "filter_check" => tier = "4.2")
    BY <1>7
  <2> QED
    BY <1>5, <1>7, <2>1
<1> QED
  BY <1>2, <1>3, <1>4, <1>6, <1>7

(* The INSERT of any tier: with an effect or without, answered or not yet. *)
LEMMA InsertAside ==
  ASSUME AsideInv, NEW r \in Requests, UNCHANGED <<tier, cache>>,
         \/ tier = "1" /\ InsertLocked(r)
         \/ tier = "3" /\ InsertLast(r)
         \/ tier \in Cached /\ Insert(r)
  PROVE  AsideInv' /\ Link!LinkNext
<1> USE NamesDiffer DEF KeepCommitted
<1>1. /\ pc[r] = "insert" /\ val[r] \in Urls /\ row = NoUrl /\ row' \in {NoUrl, val[r]}
      /\ cache = NoUrl /\ committed = {} /\ committed' = {row'} \ {NoUrl}
      /\ PhaseOf(r) = "create" /\ ValueOf(r) = val[r]
  <2>1. pc[r] = "insert" /\ row' \in {row, val[r]} /\ committed' = committed \cup ({row'} \ {NoUrl})
    BY DEF InsertLocked, InsertLast, Insert
  <2>2. val[r] \in Urls /\ row = NoUrl /\ cache = NoUrl /\ committed = {}
    BY <2>1 DEF AsideInv, StateTypes, OneCreator
  <2>3. committed' = {row'} \ {NoUrl}
    BY <2>1, <2>2
  <2>4. PhaseOf(r) = "create" /\ ValueOf(r) = val[r]
    BY <2>1 DEF PhaseOf, ValueOf
  <2> QED
    BY <2>1, <2>2, <2>3, <2>4
<1>2. /\ stage # "unminted" /\ stage' \in {stage, "public"}
      /\ tier = "4.2" => stage # "minted"
  BY <1>1 DEF InsertLocked, InsertLast, Insert, AsideInv, StateTypes, OneCreator, Filtered,
              Creating, Stages
<1>3. \/ row' = val[r] /\ Goto(r, "write_through", val[r])
      \/ row' = val[r] /\ Reply(r, Ok)
      \/ Reply(r, Err)
  BY DEF InsertLocked, InsertLast, Insert
<1>4. AsideInv'
  BY <1>1, <1>2, <1>3 DEF Reply, Goto, AsideInv, StateTypes, AsideSteps, Stages, OneCreator,
                          Readers, Filtered, Creating, Reading
<1>5. \/ row' = val[r] /\ Link!Becomes(r, "effected", Ok)
      \/ \E v \in {Ok, Err} : row' = val[r] /\ Link!Becomes(r, "ended", v)
      \/ row' = row /\ Link!Becomes(r, "ended", Err)
  <2>1. CASE row' = val[r] /\ Goto(r, "write_through", val[r])
    BY <2>1, Maps DEF Goto, AsideInv, StateTypes, PhaseOf, ValueOf
  <2>2. ASSUME NEW v \in {Ok, Err}, Reply(r, v) PROVE Link!Becomes(r, "ended", v)
    BY <2>2, Maps DEF Reply, Goto, AsideInv, StateTypes, PhaseOf, ValueOf
  <2> QED
    BY <1>1, <1>3, <2>1, <2>2
<1>6. Link!Create(r) \/ Link!Fail(r)
  BY <1>1, <1>5 DEF Link!Create, Link!Fail
<1> QED
  BY <1>4, <1>6 DEF Link!LinkNext

(* The commands of shorten around the INSERT. *)
LEMMA ShortenAside ==
  ASSUME AsideInv, NEW r \in Requests, UNCHANGED tier, FilterAdd(r) \/ WriteThrough(r)
  PROVE  AsideInv' /\ (Link!LinkNext \/ UNCHANGED Link!linkvars)
<1> USE NamesDiffer
<1>1. /\ row' = row /\ committed' = committed /\ cache' \in {NoUrl, row}
      /\ stage # "unminted" /\ stage' \in Stages \ {"unminted"}
      /\ stage' = "minted" => stage = "minted"
      /\ pc[r] \in {"filter_add", "write_through"}
  BY DEF FilterAdd, WriteThrough, AsideInv, StateTypes, OneCreator, Creating, Stages
<1>2. \/ /\ pc[r] = "filter_add" /\ stage' = "in_filter"
         /\ Goto(r, "insert", val[r])
      \/ \E v \in {Ok, Err} : Reply(r, v) /\ (v = Ok => pc[r] = "write_through")
  BY DEF FilterAdd, WriteThrough
<1>3. AsideInv'
  BY <1>1, <1>2 DEF Reply, Goto, AsideInv, StateTypes, AsideSteps, Stages, OneCreator,
                    Readers, Filtered, Creating, Reading
<1>4. CASE pc[r] = "filter_add" /\ Goto(r, "insert", val[r])
  <2>1. \A q \in Requests : PhaseOf(q)' = PhaseOf(q) /\ ValueOf(q)' = ValueOf(q)
    BY <1>4 DEF Goto, AsideInv, StateTypes, PhaseOf, ValueOf
  <2> QED
    BY <1>1, <1>3, <2>1 DEF Link!linkvars
<1>5. ASSUME NEW v \in {Ok, Err}, Reply(r, v), v = Ok => pc[r] = "write_through"
      PROVE  Link!Confirm(r) \/ Link!Fail(r)
  <2>1. Link!Becomes(r, "ended", v)
    BY <1>5, Maps DEF Reply, Goto, AsideInv, StateTypes, PhaseOf, ValueOf
  <2>2. v = Ok => PhaseOf(r) = "effected"
    BY <1>5 DEF PhaseOf
  <2> QED
    BY <1>1, <2>1, <2>2 DEF Link!Confirm, Link!Fail
<1>6. CASE \E v \in {Ok, Err} : Reply(r, v) /\ (v = Ok => pc[r] = "write_through")
  <2>1. PICK v \in {Ok, Err} : Reply(r, v) /\ (v = Ok => pc[r] = "write_through")
    BY <1>6
  <2> QED
    BY <1>3, <1>5, <2>1 DEF Link!LinkNext
<1> QED
  BY <1>2, <1>4, <1>6

(* A handler is dropped; or the cache loses its entry. *)
LEMMA CancelAside ==
  ASSUME AsideInv, NEW r \in Requests, Cancel(r), UNCHANGED tier
  PROVE  AsideInv' /\ Link!LinkNext
<1>1. AsideInv'
  BY DEF Cancel, AsideInv, StateTypes, AsideSteps, OneCreator, Readers, Filtered,
         Creating, Reading
<1>2. PhaseOf(r)' = "ended" /\ ValueOf(r)' = Err /\ Goto(r, "dropped", val[r])
  BY DEF Cancel, Goto, AsideInv, StateTypes, PhaseOf, ValueOf
<1>3. Link!Becomes(r, "ended", Err)
  BY <1>2, Maps
<1> QED
  BY <1>1, <1>3 DEF Cancel, Link!LinkNext, Link!Fail

LEMMA UnseenAside ==
  ASSUME AsideInv, UNCHANGED <<row, stage, pc, val, committed, tier>>, cache' \in {cache, NoUrl}
  PROVE  AsideInv' /\ UNCHANGED Link!linkvars
BY DEF AsideInv, StateTypes, OneCreator, Readers, Filtered, Link!linkvars, PhaseOf, ValueOf

----------------------------------------------------------------------------
LEMMA EarlyStep ==
  ASSUME AsideInv, CodesAreValid, [EarlyNext]_earlyvars
  PROVE  AsideInv' /\ [Link!LinkNext]_(Link!linkvars)
<1>1. CASE UNCHANGED asidevars
  BY <1>1, UnseenAside DEF asidevars, vars
<1>2. CASE codec = "encoded" /\ AsideNext(IsValid(text))
  <2>1. IsValid(text) /\ UNCHANGED tier
    BY <1>2 DEF CodesAreValid, AsideNext
  <2>2. CASE ExpireCache
    BY <2>1, <2>2, UnseenAside DEF ExpireCache
  <2>3. ASSUME NEW r \in Requests,
               \/ AsideArrive(r)
               \/ NaiveStep(r) \/ PersistentStep(r) \/ CachedStep(r, IsValid(text))
               \/ Cancel(r)
        PROVE  AsideInv' /\ [Link!LinkNext]_(Link!linkvars)
    <3>1. CASE AsideArrive(r)
      BY <2>1, <3>1, ArriveAside DEF Link!LinkNext
    <3>2. CASE Cancel(r)
      BY <2>1, <3>2, CancelAside
    <3>3. CASE \/ tier = "1" /\ InsertLocked(r)
               \/ tier = "3" /\ InsertLast(r)
               \/ tier \in Cached /\ Insert(r)
      <4>1. UNCHANGED cache
        BY <3>3 DEF InsertLocked, InsertLast, Insert
      <4> QED
        BY <2>1, <3>3, <4>1, InsertAside
    <3>4. CASE FilterAdd(r) \/ WriteThrough(r)
      BY <2>1, <3>4, ShortenAside
    <3>5. CASE \/ Lookup(r) \/ Get(r, TRUE) \/ FilterCheck(r)
               \/ ReadPostgres(r, "done") \/ RebuildQuery(r) \/ RebuildSet(r)
      BY <2>1, <3>5, ReadAside
    <3>6. CASE Get(r, IsValid(text))
      <4>1. Get(r, TRUE)
        BY <2>1, <3>6 DEF Get
      <4> QED
        BY <2>1, <4>1, ReadAside
    <3> QED
      BY <2>3, <3>1, <3>2, <3>3, <3>4, <3>5, <3>6 DEF NaiveStep, PersistentStep, CachedStep
  <2> QED
    BY <1>2, <2>2, <2>3 DEF AsideNext
<1> QED
  BY <1>1, <1>2 DEF EarlyNext, earlyvars

(* The codec in front of the stores.  What it has encoded is valid. *)
CodeInv == CodecInv /\ FitsSoFar /\ CodesAreValid /\ OverflowIsExact

LEMMA InitCode == EarlyInit => CodeInv
BY InitTurns, InitFits, InitExact DEF EarlyInit, CodeInv

LEMMA CodeKeeps == ASSUME CodeInv, [EarlyNext]_earlyvars PROVE CodeInv'
<1>1. [CodecNext]_codecvars
  BY DEF EarlyNext, earlyvars
<1> QED
  BY <1>1, CodecKeeps, CodecKeepsFit, CodecKeepsExact DEF CodeInv

LEMMA CodeAlways == EarlySpec => []CodeInv
BY InitCode, CodeKeeps, PTL DEF EarlySpec

(* Redirects of tiers 1, 3, 4.1 and 4.2 read one link that is created      *)
(* once, whatever fails and though nothing coordinates those who fill the  *)
(* cache.  tier 4.2's is_valid never stands in the way, since it accepts   *)
(* every code that encode returns.                                         *)
THEOREM OneLink == EarlySpec => ImplementsLink
<1>1. EarlyInit => AsideInv /\ Link!LinkInit
  BY InitAside, InitMaps DEF EarlyInit
<1>2. CodeInv => CodesAreValid
  BY DEF CodeInv
<1> QED
  BY <1>1, <1>2, CodeAlways, EarlyStep, PTL DEF EarlySpec, ImplementsLink, Link!LinkSpec

(* The codec keeps its promises to the tiers that call it. *)
THEOREM CodesCanBeTrusted == EarlySpec => [](RoundTrip /\ CodesAreValid /\ OverflowIsExact)
<1>1. CodeInv => RoundTrip /\ CodesAreValid /\ OverflowIsExact
  BY InvRoundTrips DEF CodeInv
<1> QED
  BY <1>1, CodeAlways, PTL

----------------------------------------------------------------------------
(* What a tier does not have, it does not use: no lease in any of them, no *)
(* cache before 4.1, no filter before 4.2.                                 *)
TierInv ==
  /\ tier \in Tiers /\ lease = Free /\ absent \subseteq Requests
  /\ tier \notin Cached => cache = NoUrl
  /\ tier # "4.2" => stage # "in_filter" /\ \A r \in Requests : pc[r] # "filter_add"

LEMMA InitTier == AsideInit => TierInv
BY DEF AsideInit, Init, TierInv

LEMMA EarlyTypes ==
  ASSUME AsideInv, TierInv, [EarlyNext]_earlyvars
  PROVE  TierInv'
<1> USE DEF AsideInv, StateTypes, TierInv, Tiers, Cached
<1>1. CASE UNCHANGED asidevars
  BY <1>1 DEF asidevars, vars
<1>2. ASSUME NEW valid, AsideNext(valid) PROVE TierInv'
  <2>1. tier' = tier
    BY <1>2 DEF AsideNext
  <2>2. CASE ExpireCache
    BY <2>1, <2>2 DEF ExpireCache
  <2>3. ASSUME NEW r \in Requests, AsideArrive(r) PROVE TierInv'
    <3>1. CASE \E url \in Urls : Mint(r, url)
      BY <2>1, <3>1 DEF Mint, Start, Goto
    <3>2. CASE Resolve(r)
      BY <2>1, <3>2 DEF Resolve, Start, Goto
    <3> QED
      BY <2>3, <3>1, <3>2 DEF AsideArrive
  <2>4. ASSUME NEW r \in Requests, NaiveStep(r) \/ PersistentStep(r) PROVE TierInv'
    BY <2>1, <2>4 DEF NaiveStep, PersistentStep, InsertLocked, InsertLast, Lookup,
                      ReadPostgres, Reply, Goto, KeepAbsent
  <2>5. ASSUME NEW r \in Requests, CachedStep(r, valid) PROVE TierInv'
    <3>1. CASE FilterAdd(r) \/ Insert(r) \/ WriteThrough(r)
      BY <2>1, <2>5, <3>1 DEF CachedStep, FilterAdd, Insert, WriteThrough, Reply, Goto, KeepAbsent
    <3>2. CASE Get(r, valid) \/ FilterCheck(r) \/ ReadPostgres(r, "done")
      BY <2>1, <2>5, <3>2 DEF CachedStep, Get, FilterCheck, ReadPostgres, Reply, Goto
    <3>3. CASE RebuildQuery(r) \/ RebuildSet(r)
      BY <2>1, <2>5, <3>3 DEF CachedStep, RebuildQuery, RebuildSet, Reply, Goto
    <3> QED
      BY <2>5, <3>1, <3>2, <3>3 DEF CachedStep
  <2>6. ASSUME NEW r \in Requests, Cancel(r) PROVE TierInv'
    BY <2>1, <2>6 DEF Cancel
  <2> QED
    BY <1>2, <2>2, <2>3, <2>4, <2>5, <2>6 DEF AsideNext
<1> QED
  BY <1>1, <1>2 DEF EarlyNext, earlyvars

LEMMA InvTypes == AsideInv /\ TierInv => AsideTypeOK
BY NamesDiffer DEF AsideInv, StateTypes, TierInv, AsideTypeOK, AsideSteps, Tiers, Cached, Stages

(* The types of the early tiers: among them that no tier uses what it does *)
(* not have yet.                                                           *)
THEOREM AsideTypes == EarlySpec => []AsideTypeOK
<1>1. EarlyInit => AsideInv /\ TierInv
  BY InitAside, InitTier DEF EarlyInit
<1>2. AsideInv /\ TierInv /\ CodeInv /\ [EarlyNext]_earlyvars => AsideInv' /\ TierInv'
  BY EarlyStep, EarlyTypes DEF CodeInv
<1> QED
  BY <1>1, <1>2, CodeAlways, InvTypes, PTL DEF EarlySpec
=============================================================================
