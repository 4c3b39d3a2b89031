-------------------------- MODULE LeasedLinkProofs --------------------------
(***************************************************************************)
(* The store of tier 4.3 implements AtomicLink, for any requests and URLs: *)
(* under the assumptions that make the cache coherent, each step of the    *)
(* protocol is one step of the link or invisible.                          *)
(***************************************************************************)
EXTENDS LeasedStoreProofs

(* The link is born with the first INSERT. *)
Unborn ==
  /\ stage = "unminted" => committed = {}
  /\ \A r \in Requests : pc[r] \in {"filter_add", "insert"} => committed = {}

LinkInv == CoherentInv /\ Traced /\ FilterFirst /\ Unborn

LEMMA UnbornInit == Init => Unborn
BY DEF Init, Unborn

LEMMA UnbornStep == Typed /\ ShortenAlone /\ Unborn /\ [Next]_vars => Unborn'
<1> SUFFICES ASSUME Typed, ShortenAlone, Unborn, [Next]_vars PROVE Unborn'
  OBVIOUS
<1> USE DEF Typed, TypeOK, ShortenAlone, ShortenSteps, Active, Unborn, Goto, Reply
<1>1. ASSUME NEW r \in Requests, Arrive(r) PROVE Unborn'
  BY <1>1 DEF Arrive, Shorten, Update, Delete, Resolve, Start
<1>2. ASSUME NEW r \in Requests, FilterAdd(r) \/ WriteThrough(r) PROVE Unborn'
  BY <1>2 DEF FilterAdd, WriteThrough
<1>3. ASSUME NEW r \in Requests, Insert(r) \/ WriteQuery(r) PROVE Unborn'
  BY <1>3 DEF Insert, WriteQuery
<1>4. ASSUME NEW r \in Requests,
             WriteLease(r) \/ Invalidate(r) \/ WriteRelease(r)
               \/ Get(r) \/ FilterCheck(r) \/ ReadPostgres(r, "done")
               \/ MissGet(r, "done") \/ MissLease(r) \/ Select(r) \/ Populate(r)
               \/ MissRelease(r, "done") \/ Cancel(r)
      PROVE Unborn'
  BY <1>4 DEF WriteLease, Invalidate, WriteRelease, Get, FilterCheck, FilterMayDeny,
              ReadPostgres, MissGet, MissLease, Select, Populate, MissRelease, Cancel
<1>5. CASE ExpireCache \/ ExpireLease \/ UNCHANGED vars
  BY <1>5 DEF ExpireCache, ExpireLease, vars
<1> QED
  BY <1>1, <1>2, <1>3, <1>4, <1>5 DEF Next, Step, ProtocolStep

----------------------------------------------------------------------------
LEMMA LinkInit == Init => Link!LinkInit
BY NamesDiffer DEF Init, Link!LinkInit, View, PhaseOf, ValueOf

(* One request moves, and with it its phase and its value; those of the    *)
(* others only depend on row and cache while they invalidate.              *)
LEMMA Moves ==
  ASSUME LinkInv, NEW r \in Requests, NEW s, NEW v, Goto(r, s, v),
         \/ row' = row /\ cache' = cache
         \/ \A q \in Requests \ {r} : pc[q] # "invalidate",
         NEW p, NEW w, PhaseOf(r)' = p, ValueOf(r)' = w
  PROVE  Link!Becomes(r, p, w)
<1>1. \A q \in Requests : q # r => PhaseOf(q)' = PhaseOf(q) /\ ValueOf(q)' = ValueOf(q)
  BY DEF Goto, LinkInv, CoherentInv, Typed, TypeOK, PhaseOf, ValueOf
<1> QED
  BY <1>1 DEF Link!Becomes

(* The same, of a request whose phase and value stay as they are. *)
LEMMA Rests ==
  ASSUME LinkInv, NEW r \in Requests, NEW s, NEW v, Goto(r, s, v),
         \/ row' = row /\ cache' = cache
         \/ \A q \in Requests \ {r} : pc[q] # "invalidate",
         PhaseOf(r)' = PhaseOf(r), ValueOf(r)' = ValueOf(r),
         View' = View, (committed # {})' = (committed # {})
  PROVE  UNCHANGED Link!linkvars
<1>1. \A q \in Requests : PhaseOf(q)' = PhaseOf(q) /\ ValueOf(q)' = ValueOf(q)
  BY DEF Goto, LinkInv, CoherentInv, Typed, TypeOK, PhaseOf, ValueOf
<1> QED
  BY <1>1 DEF Link!linkvars

(* With the lease in hand nobody else can be about to delete the entry.    *)
LEMMA HolderSeesRow ==
  ASSUME LinkInv, NEW r \in Requests, pc[r] \in Guarded
  PROVE  /\ \A q \in Requests \ {r} : pc[q] # "invalidate"
         /\ pc[r] # "invalidate" => View = row
BY DEF LinkInv, CoherentInv, GuardedHoldLease, Guarded, Coherent, View

(* What a redirect may be told: the link, or what it is about to become.   *)
LEMMA RowInSight ==
  ASSUME LinkInv
  PROVE  row \in {View} \cup Link!UnderWay
<1>1. CASE cache \in {NoUrl, row}
  BY <1>1 DEF View
<1>2. CASE cache \notin {NoUrl, row}
  <2>1. PICK w \in Requests : pc[w] = "invalidate"
    BY <1>2 DEF LinkInv, CoherentInv, Coherent
  <2>2. PhaseOf(w) = "change" /\ ValueOf(w) = row
    BY <1>2, <2>1 DEF PhaseOf, ValueOf
  <2> QED
    BY <2>2 DEF Link!UnderWay
<1> QED
  BY <1>1, <1>2

----------------------------------------------------------------------------
(* A step is one of the link's, or nobody sees it. *)
Allowed == Link!LinkNext \/ UNCHANGED Link!linkvars

LEMMA ArriveLink == ASSUME LinkInv, NEW r \in Requests, Arrive(r) PROVE Allowed
<1>1. /\ UNCHANGED <<row, cache, committed>>
      /\ \/ \E url \in Urls : Goto(r, "filter_add", url)
         \/ \E url \in Urls \cup {NoUrl} : Goto(r, "write_lease", url)
         \/ Goto(r, "get", NoUrl)
  BY DEF Arrive, Shorten, Update, Delete, Resolve, Start
<1>2. PhaseOf(r) = "ended"
  BY DEF Arrive, Shorten, Update, Delete, Resolve, Start, Active, PhaseOf,
         LinkInv, CoherentInv, Typed, TypeOK
<1>3. \/ \E url \in Urls : Link!Becomes(r, "create", url)
      \/ \E url \in Urls \cup {NoUrl} : Link!Becomes(r, "change", url)
      \/ Link!Becomes(r, "read", NoUrl)
  <2>1. ASSUME NEW url \in Urls, Goto(r, "filter_add", url)
        PROVE  Link!Becomes(r, "create", url)
    BY <1>1, <2>1, Moves DEF Goto, PhaseOf, ValueOf, LinkInv, CoherentInv, Typed, TypeOK
  <2>2. ASSUME NEW url \in Urls \cup {NoUrl}, Goto(r, "write_lease", url)
        PROVE  Link!Becomes(r, "change", url)
    BY <1>1, <2>2, Moves DEF Goto, PhaseOf, ValueOf, LinkInv, CoherentInv, Typed, TypeOK
  <2>3. CASE Goto(r, "get", NoUrl)
    BY <1>1, <2>3, Moves DEF Goto, PhaseOf, ValueOf, LinkInv, CoherentInv, Typed, TypeOK
  <2> QED
    BY <1>1, <2>1, <2>2, <2>3
<1>4. Link!Ask(r)
  BY <1>1, <1>2, <1>3 DEF Link!Ask, View
<1> QED
  BY <1>4 DEF Allowed, Link!LinkNext

(* Ending a request: with Err always, otherwise as its phase has it. *)
LEMMA EndLink ==
  ASSUME LinkInv, NEW r \in Requests, NEW s \in {"done", "populate", "miss_release"}, NEW v,
         Goto(r, s, v), UNCHANGED <<row, cache, committed>>,
         \/ v = Err
         \/ PhaseOf(r) = "effected" /\ v = Ok
         \/ PhaseOf(r) = "read" /\ v \in {View} \cup Link!UnderWay
  PROVE  Allowed
<1>1. Link!Becomes(r, "ended", v)
  BY Moves DEF Goto, PhaseOf, ValueOf, LinkInv, CoherentInv, Typed, TypeOK
<1>2. View' = View /\ (committed # {})' = (committed # {})
  BY DEF View
<1>3. Link!Fail(r) \/ Link!Confirm(r) \/ Link!Read(r)
  BY <1>1, <1>2 DEF Link!Fail, Link!Confirm, Link!Read
<1> QED
  BY <1>3 DEF Allowed, Link!LinkNext

LEMMA CancelLink ==
  ASSUME LinkInv, NEW r \in Requests, Cancel(r)
  PROVE  Allowed
<1>1. Goto(r, "dropped", val[r]) /\ PhaseOf(r)' = "ended" /\ ValueOf(r)' = Err
  BY DEF Cancel, Goto, PhaseOf, ValueOf, LinkInv, CoherentInv, Typed, TypeOK
<1>2. Link!Becomes(r, "ended", Err)
  BY <1>1, Moves DEF Cancel
<1> QED
  BY <1>2 DEF Cancel, View, Link!Fail, Link!LinkNext, Allowed

(* shorten. *)
LEMMA ShortenLink ==
  ASSUME LinkInv, NEW r \in Requests, FilterAdd(r) \/ Insert(r) \/ WriteThrough(r)
  PROVE  Allowed
<1> USE NamesDiffer
<1>1. /\ cache = NoUrl /\ val[r] \in Urls
      /\ \A q \in Requests \ {r} : pc[q] # "invalidate"
  BY DEF FilterAdd, Insert, WriteThrough, LinkInv, CoherentInv, Typed, ArgumentsOK,
         UncachedBeforeInsert, ShortenAlone, ShortenSteps, Active
<1>2. CASE FilterAdd(r)
  <2>1. CASE Goto(r, "insert", val[r])
    <3>1. /\ UNCHANGED <<row, cache, committed>>
          /\ PhaseOf(r)' = PhaseOf(r) /\ ValueOf(r)' = ValueOf(r) /\ View' = View
      BY <1>2, <2>1 DEF FilterAdd, Goto, PhaseOf, ValueOf, View, LinkInv, CoherentInv,
                        Typed, TypeOK
    <3> QED
      BY <2>1, <3>1, Rests DEF Allowed
  <2>2. CASE Reply(r, Err)
    BY <1>2, <2>2, EndLink DEF FilterAdd, Reply
  <2> QED
    BY <1>2, <2>1, <2>2 DEF FilterAdd
<1>3. CASE Insert(r)
  <2>1. /\ committed = {} /\ row = NoUrl /\ View = NoUrl /\ View' = row'
        /\ PhaseOf(r) = "create" /\ ValueOf(r) = val[r]
    <3>1. pc[r] = "insert" /\ cache' = cache
      BY <1>3 DEF Insert
    <3>2. committed = {} /\ row = NoUrl
      BY <3>1 DEF LinkInv, Unborn, Traced
    <3>3. PhaseOf(r) = "create" /\ ValueOf(r) = val[r]
      BY <3>1 DEF PhaseOf, ValueOf
    <3> QED
      BY <1>1, <3>1, <3>2, <3>3 DEF View
  <2>2. committed' = {row'} \ {NoUrl}
    BY <1>3, <2>1 DEF Insert, KeepCommitted
  <2>3. CASE row' = val[r] /\ Goto(r, "write_through", val[r])
    <3>1. Link!Becomes(r, "effected", Ok)
      BY <1>1, <2>3, Moves DEF Goto, PhaseOf, ValueOf, LinkInv, CoherentInv, Typed, TypeOK
    <3>2. Link!Create(r)
      BY <1>1, <2>1, <2>2, <2>3, <3>1 DEF Link!Create
    <3> QED
      BY <3>2 DEF Allowed, Link!LinkNext
  <2>4. CASE row' \in {row, val[r]} /\ Reply(r, Err)
    <3>1. Link!Becomes(r, "ended", Err)
      BY <1>1, <2>4, Moves DEF Reply, Goto, PhaseOf, ValueOf, LinkInv, CoherentInv,
                               Typed, TypeOK
    <3>2. Link!Create(r) \/ Link!Fail(r)
      BY <1>1, <2>1, <2>2, <2>4, <3>1 DEF Link!Create, Link!Fail
    <3> QED
      BY <3>2 DEF Allowed, Link!LinkNext
  <2> QED
    BY <1>3, <2>3, <2>4 DEF Insert
<1>4. CASE WriteThrough(r)
  <2>1. View' = View /\ PhaseOf(r) = "effected"
    BY <1>1, <1>4 DEF WriteThrough, View, PhaseOf, LinkInv, CoherentInv, FillsFresh
  <2>2. PICK v \in {Ok, Err} : Goto(r, "done", v)
    BY <1>4 DEF WriteThrough, Reply
  <2>3. Link!Becomes(r, "ended", v)
    BY <1>1, <2>2, Moves DEF Goto, PhaseOf, ValueOf, LinkInv, CoherentInv, Typed, TypeOK
  <2>4. Link!Confirm(r) \/ Link!Fail(r)
    BY <1>4, <2>1, <2>3 DEF WriteThrough, Link!Confirm, Link!Fail
  <2> QED
    BY <2>4 DEF Allowed, Link!LinkNext
<1> QED
  BY <1>2, <1>3, <1>4

(* update and delete: visible when the old entry goes, or at once without  *)
(* one.                                                                    *)
LEMMA WriteLink ==
  ASSUME "write" \notin RedisFaults \cup PostgresFaults \cup Cancels,
         LinkInv, NEW r \in Requests,
         WriteLease(r) \/ WriteQuery(r) \/ Invalidate(r) \/ WriteRelease(r)
  PROVE  Allowed
<1> USE NamesDiffer
<1>1. ~RedisFails(r) /\ ~PostgresFails(r)
  BY DEF WriteLease, WriteQuery, Invalidate, WriteRelease, RedisFails, PostgresFails,
         KindOf, ShortenSteps, WriteSteps
<1>2. CASE WriteLease(r)
  <2>1. Goto(r, "write_query", val[r]) /\ UNCHANGED <<row, cache, committed>>
    BY <1>1, <1>2 DEF WriteLease, TakeLeaseFails
  <2>2. PhaseOf(r)' = PhaseOf(r) /\ ValueOf(r)' = ValueOf(r) /\ View' = View
    BY <1>2, <2>1 DEF WriteLease, Goto, PhaseOf, ValueOf, View, LinkInv, CoherentInv,
                      Typed, TypeOK
  <2> QED
    BY <2>1, <2>2, Rests DEF Allowed
<1>3. CASE WriteQuery(r)
  <2>1. /\ \A q \in Requests \ {r} : pc[q] # "invalidate"
        /\ View = row /\ cache' = cache /\ cache \in {NoUrl, row}
        /\ PhaseOf(r) = "change" /\ ValueOf(r) = val[r] /\ val[r] \in Urls \cup {NoUrl}
    <3>1. pc[r] = "write_query" /\ cache' = cache
      BY <1>3 DEF WriteQuery
    <3>2. /\ \A q \in Requests \ {r} : pc[q] # "invalidate"
          /\ View = row
      BY <3>1, HolderSeesRow DEF Guarded
    <3>3. PhaseOf(r) = "change" /\ ValueOf(r) = val[r]
      BY <3>1 DEF PhaseOf, ValueOf
    <3> QED
      BY <3>1, <3>2, <3>3 DEF View, LinkInv, CoherentInv, Typed, ArgumentsOK
  <2>2. CASE row # NoUrl /\ row' = val[r] /\ Goto(r, "invalidate", Ok)
    <3>1. (committed # {})' = (committed # {})
      BY <1>3, <2>2 DEF WriteQuery, KeepCommitted, LinkInv, Traced
    <3>2. CASE cache = NoUrl
      <4>1. Link!Becomes(r, "effected", Ok)
        BY <2>1, <2>2, <3>2, Moves DEF Goto, PhaseOf, ValueOf, LinkInv, CoherentInv,
                                       Typed, TypeOK
      <4>2. View' = val[r]
        BY <2>1, <2>2, <3>2 DEF View
      <4>3. Link!Change(r)
        BY <2>1, <2>2, <3>1, <4>1, <4>2 DEF Link!Change
      <4> QED
        BY <4>3 DEF Allowed, Link!LinkNext
    <3>3. CASE cache # NoUrl
      <4>1. PhaseOf(r)' = "change" /\ ValueOf(r)' = val[r] /\ View' = View
        BY <2>1, <2>2, <3>3 DEF Goto, PhaseOf, ValueOf, View, LinkInv, CoherentInv,
                                Typed, TypeOK
      <4> QED
        BY <2>1, <2>2, <3>1, <4>1, Rests DEF Allowed
    <3> QED
      BY <3>2, <3>3
  <2>3. CASE row = NoUrl /\ row' = row /\ Goto(r, "write_release", NoUrl)
    <3>1. Link!Becomes(r, "ended", NoUrl)
      BY <2>1, <2>3, Moves DEF Goto, PhaseOf, ValueOf, LinkInv, CoherentInv, Typed, TypeOK
    <3>2. committed' = committed /\ View' = View
      BY <1>3, <2>1, <2>3 DEF WriteQuery, KeepCommitted, View
    <3>3. Link!Refuse(r)
      BY <2>1, <2>3, <3>1, <3>2 DEF Link!Refuse
    <3> QED
      BY <3>3 DEF Allowed, Link!LinkNext
  <2> QED
    BY <1>1, <1>3, <2>2, <2>3 DEF WriteQuery
<1>4. CASE Invalidate(r)
  <2>1. /\ pc[r] = "invalidate" /\ cache' = NoUrl /\ Goto(r, "write_release", Ok)
        /\ UNCHANGED <<row, committed>>
    BY <1>1, <1>4 DEF Invalidate
  <2>2. \A q \in Requests \ {r} : pc[q] # "invalidate"
    BY <2>1, HolderSeesRow DEF Guarded
  <2>3. PhaseOf(r)' = "effected" /\ ValueOf(r)' = Ok /\ View' = row
    BY <2>1 DEF Goto, PhaseOf, ValueOf, View, LinkInv, CoherentInv, Typed, TypeOK
  <2>4. CASE cache = NoUrl
    <3>1. PhaseOf(r) = "effected" /\ ValueOf(r) = Ok /\ View = row
      BY <2>1, <2>4 DEF PhaseOf, ValueOf, View
    <3> QED
      BY <2>1, <2>2, <2>3, <3>1, Rests DEF Allowed
  <2>5. CASE cache # NoUrl
    <3>1. PhaseOf(r) = "change" /\ ValueOf(r) = row /\ View # NoUrl
      BY <2>1, <2>5 DEF PhaseOf, ValueOf, View
    <3>2. Link!Becomes(r, "effected", Ok)
      BY <2>1, <2>2, <2>3, Moves
    <3>3. Link!Change(r)
      BY <2>1, <2>3, <3>1, <3>2 DEF Link!Change
    <3> QED
      BY <3>3 DEF Allowed, Link!LinkNext
  <2> QED
    BY <2>4, <2>5
<1>5. CASE WriteRelease(r)
  <2>1. pc[r] = "write_release" /\ Goto(r, "done", val[r]) /\ UNCHANGED <<row, cache, committed>>
    BY <1>1, <1>5 DEF WriteRelease, Reply
  <2>2. CASE val[r] = Ok
    <3>1. PhaseOf(r) = "effected"
      BY <2>1, <2>2 DEF PhaseOf
    <3> QED
      BY <2>1, <2>2, <3>1, EndLink
  <2>3. CASE val[r] # Ok
    <3>1. PhaseOf(r)' = PhaseOf(r) /\ ValueOf(r)' = ValueOf(r) /\ View' = View
      BY <2>1, <2>3 DEF Goto, PhaseOf, ValueOf, View, LinkInv, CoherentInv, Typed, TypeOK
    <3> QED
      BY <2>1, <3>1, Rests DEF Allowed
  <2> QED
    BY <2>2, <2>3
<1> QED
  BY <1>2, <1>3, <1>4, <1>5

(* resolve up to the value it has read. *)
LEMMA ReadLink ==
  ASSUME LinkInv, NEW r \in Requests,
         Get(r) \/ FilterCheck(r) \/ ReadPostgres(r, "done") \/ MissGet(r, "done")
           \/ MissLease(r) \/ Select(r)
  PROVE  Allowed
<1> USE NamesDiffer
<1>1. /\ UNCHANGED <<row, cache, committed>>
      /\ PhaseOf(r) = "read" /\ pc[r] # "dropped" /\ val[r] = NoUrl /\ ValueOf(r) = NoUrl
  BY DEF Get, FilterCheck, ReadPostgres, MissGet, MissLease, Select, PhaseOf, ValueOf,
         LinkInv, CoherentInv, Typed, ArgumentsOK
<1>2. cache # NoUrl => cache = View
  BY DEF View
<1>3. \/ \E s \in {"filter_check", "read", "miss_get", "miss_lease", "select"} :
           Goto(r, s, NoUrl)
      \/ \E s \in {"done", "populate", "miss_release"} :
           \E v \in {Err} \cup {View} \cup Link!UnderWay : Goto(r, s, v)
  <2>1. CASE Get(r)
    BY <1>2, <2>1 DEF Get, Reply
  <2>2. CASE FilterCheck(r)
    <3>1. FilterMayDeny => row = NoUrl
      BY <2>2 DEF FilterMayDeny, LinkInv, FilterFirst, FilterCheck
    <3> QED
      BY <2>2, <3>1, RowInSight DEF FilterCheck, Reply
  <2>3. CASE ReadPostgres(r, "done") \/ MissGet(r, "done")
    BY <1>2, <2>3, RowInSight DEF ReadPostgres, MissGet
  <2>4. CASE MissLease(r)
    BY <2>4 DEF MissLease
  <2>5. CASE Select(r)
    BY <2>5, RowInSight DEF Select
  <2> QED
    BY <2>1, <2>2, <2>3, <2>4, <2>5
<1>4. ASSUME NEW s \in {"filter_check", "read", "miss_get", "miss_lease", "select"},
             Goto(r, s, NoUrl)
      PROVE  Allowed
  <2>1. PhaseOf(r)' = "read" /\ ValueOf(r)' = NoUrl /\ View' = View
    BY <1>1, <1>4 DEF Goto, PhaseOf, ValueOf, View, LinkInv, CoherentInv, Typed, TypeOK
  <2> QED
    BY <1>1, <1>4, <2>1, Rests DEF Allowed
<1>5. ASSUME NEW s \in {"done", "populate", "miss_release"},
             NEW v \in {Err} \cup {View} \cup Link!UnderWay, Goto(r, s, v)
      PROVE  Allowed
  BY <1>1, <1>5, EndLink
<1> QED
  BY <1>3, <1>4, <1>5

(* resolve_miss after its SELECT. *)
LEMMA FillLink ==
  ASSUME LinkInv, NEW r \in Requests, Populate(r) \/ MissRelease(r, "done")
  PROVE  Allowed
<1> USE NamesDiffer
<1>1. PICK s \in {"miss_release", "done"} : Goto(r, s, val[r])
  BY DEF Populate, MissRelease
<1>2. /\ UNCHANGED <<row, committed>>
      /\ PhaseOf(r)' = PhaseOf(r) /\ ValueOf(r)' = ValueOf(r)
  BY <1>1 DEF Populate, MissRelease, Goto, PhaseOf, ValueOf, LinkInv, CoherentInv,
              Typed, TypeOK
<1>3. CASE Populate(r)
  <2>1. pc[r] = "populate" /\ cache' \in {cache, row} /\ val[r] = row
    BY <1>3 DEF Populate, LinkInv, CoherentInv, FillsFresh
  <2>2. (\A q \in Requests \ {r} : pc[q] # "invalidate") /\ View = row
    BY <2>1, HolderSeesRow DEF Guarded
  <2>3. View' = View
    BY <1>2, <2>1, <2>2 DEF View
  <2> QED
    BY <1>1, <1>2, <2>2, <2>3, Rests DEF Allowed
<1>4. CASE MissRelease(r, "done")
  <2>1. cache' = cache /\ View' = View
    BY <1>2, <1>4 DEF MissRelease, View
  <2> QED
    BY <1>1, <1>2, <2>1, Rests DEF Allowed
<1> QED
  BY <1>3, <1>4

(* An entry vanishes on its own: if its writer is still on the way to      *)
(* delete it, that is when the write becomes visible.                      *)
LEMMA ExpireLink == ASSUME LinkInv, ExpireCache PROVE Allowed
<1>1. /\ cache # NoUrl /\ cache' = NoUrl /\ UNCHANGED <<row, pc, val, committed>>
      /\ View = cache /\ View' = row
  BY DEF ExpireCache, View
<1>2. CASE \A w \in Requests : pc[w] # "invalidate"
  <2>1. View' = View
    BY <1>1, <1>2 DEF LinkInv, CoherentInv, Coherent
  <2>2. \A q \in Requests : PhaseOf(q)' = PhaseOf(q) /\ ValueOf(q)' = ValueOf(q)
    BY <1>1, <1>2 DEF PhaseOf, ValueOf
  <2> QED
    BY <1>1, <2>1, <2>2 DEF Allowed, Link!linkvars
<1>3. ASSUME NEW w \in Requests, pc[w] = "invalidate" PROVE Allowed
  <2>1. \A q \in Requests \ {w} : pc[q] # "invalidate"
    BY <1>3, HolderSeesRow DEF Guarded
  <2>2. Goto(w, "invalidate", Ok)
    BY <1>1, <1>3 DEF Goto, LinkInv, CoherentInv, Typed, TypeOK, ArgumentsOK
  <2>3. /\ PhaseOf(w) = "change" /\ ValueOf(w) = row
        /\ PhaseOf(w)' = "effected" /\ ValueOf(w)' = Ok
    BY <1>1, <1>3 DEF PhaseOf, ValueOf
  <2>4. Link!Becomes(w, "effected", Ok)
    BY <2>1, <2>2, <2>3, Moves
  <2>5. Link!Change(w)
    BY <1>1, <2>3, <2>4 DEF Link!Change
  <2> QED
    BY <2>5 DEF Allowed, Link!LinkNext
<1> QED
  BY <1>2, <1>3

----------------------------------------------------------------------------
LEMMA LinkStep ==
  ASSUME "write" \notin RedisFaults \cup PostgresFaults \cup Cancels
  PROVE  LinkInv /\ [Next]_vars => [Link!LinkNext]_(Link!linkvars)
<1> SUFFICES ASSUME LinkInv, [Next]_vars PROVE Allowed
  BY DEF Allowed
<1>1. ASSUME NEW r \in Requests, Arrive(r) \/ Step(r) \/ Cancel(r) PROVE Allowed
  <2>1. CASE Arrive(r)
    BY <2>1, ArriveLink
  <2>2. CASE Cancel(r)
    BY <2>2, CancelLink
  <2>3. CASE FilterAdd(r) \/ Insert(r) \/ WriteThrough(r)
    BY <2>3, ShortenLink
  <2>4. CASE WriteLease(r) \/ WriteQuery(r) \/ Invalidate(r) \/ WriteRelease(r)
    BY <2>4, WriteLink
  <2>5. CASE Get(r) \/ FilterCheck(r) \/ ReadPostgres(r, "done") \/ MissGet(r, "done")
               \/ MissLease(r) \/ Select(r)
    BY <2>5, ReadLink
  <2>6. CASE Populate(r) \/ MissRelease(r, "done")
    BY <2>6, FillLink
  <2> QED
    BY <1>1, <2>1, <2>2, <2>3, <2>4, <2>5, <2>6 DEF Step, ProtocolStep
<1>2. CASE ExpireCache
  BY <1>2, ExpireLink
<1>3. CASE ExpireLease \/ UNCHANGED vars
  BY <1>3 DEF ExpireLease, vars, Allowed, Link!linkvars, View, PhaseOf, ValueOf
<1> QED
  BY <1>1, <1>2, <1>3 DEF Next

(* Tier 4.3 answers as one link would that every request reads or changes  *)
(* in one step: whatever fails in shorten and resolve, provided that codes *)
(* are secret until returned, that working holders keep their leases, and  *)
(* that no PATCH or DELETE fails or is dropped half way.                   *)
THEOREM StoreIsOneLink ==
  ASSUME LapseAt = {}, CodesGuessable = FALSE,
         "write" \notin RedisFaults \cup PostgresFaults \cup Cancels
  PROVE  Spec => ImplementsLink
<1>1. Init => LinkInv /\ Link!LinkInit
  BY TypedInit, GuardedInit, FreshInit, CoherentInit, TracedInit, AbsenceInit, UnbornInit,
     LinkInit
  DEF LinkInv, CoherentInv
<1>2. LinkInv /\ [Next]_vars => LinkInv'
  BY TypedStep, GuardedStep, ShortenAloneStep, FillsFreshStep, UncachedStep, CoherentStep,
     TracedStep, FilterFirstStep, UnbornStep
  DEF LinkInv, CoherentInv
<1> QED
  BY <1>1, <1>2, LinkStep, PTL DEF Spec, ImplementsLink, Link!LinkSpec
=============================================================================
