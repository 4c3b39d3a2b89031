------------------------ MODULE CoalescedStoreProofs ------------------------
(***************************************************************************)
(* Singleflight, for any requests, processes and cells, with every fault:  *)
(* no cell with a value that nobody will remove.                           *)
(***************************************************************************)
EXTENDS CoalescedStore, TLAPS

(* The steps at which a request holds a cell. *)
Holding == MissSteps \cup {"await", "finish", "leave"}

CellTypes ==
  /\ pc \in [Requests -> Steps]
  /\ cell \in [Requests -> Cells \cup {NoCell}]
  /\ inflight \in [Apps -> Cells \cup {NoCell}]
  /\ outcome = [c \in Cells |-> outcome[c]]
  /\ \A r \in Requests : cell[r] # NoCell <=> pc[r] \in Holding

(* A cell is known to the requests and the map of one process only. *)
CellsApart ==
  /\ \A r \in Requests, a \in Apps : cell[r] # NoCell /\ cell[r] = inflight[a] => AppOf[r] = a
  /\ \A a, b \in Apps : inflight[a] # NoCell /\ inflight[a] = inflight[b] => a = b

(* The single permit of a OnceCell, as Await has it. *)
SoleRunner == \A q, r \in Requests : Runs(q) /\ Runs(r) /\ cell[q] = cell[r] => q = r

RunnersPending == \A r \in Requests : Runs(r) => outcome[cell[r]] = Pending

UnusedPending == \A c \in Cells \ InUse : outcome[c] = Pending

CellInv == /\ CellTypes /\ CellsApart
           /\ RunnersPending /\ UnusedPending /\ SoleRunner /\ NoFrozenCell

----------------------------------------------------------------------------
(* A command of the protocol moves a request along shorten or write, or    *)
(* along resolve_miss up to its last reply.                                *)
LEMMA ProtocolMoves ==
  ASSUME CellTypes, NEW r \in Requests, ProtocolStep(r, "finish")
  PROVE  \E s \in Steps :
           /\ pc' = [pc EXCEPT ![r] = s]
           /\ \/ pc[r] \in MissSteps /\ s \in MissSteps \cup {"finish"}
              \/ pc[r] \notin Holding /\ s \notin Holding
<1> USE DEF CellTypes, Steps, ShortenSteps, WriteSteps, MissSteps, Holding, Goto, Reply
<1>1. CASE FilterAdd(r) \/ Insert(r) \/ WriteThrough(r)
  BY <1>1 DEF FilterAdd, Insert, WriteThrough
<1>2. CASE WriteLease(r) \/ WriteQuery(r) \/ Invalidate(r) \/ WriteRelease(r)
  BY <1>2 DEF WriteLease, WriteQuery, Invalidate, WriteRelease
<1>3. CASE ReadPostgres(r, "finish") \/ MissGet(r, "finish") \/ MissRelease(r, "finish")
  BY <1>3 DEF ReadPostgres, MissGet, MissRelease
<1>4. CASE MissLease(r) \/ Select(r) \/ Populate(r)
  BY <1>4 DEF MissLease, Select, Populate
<1> QED
  BY <1>1, <1>2, <1>3, <1>4 DEF ProtocolStep

(* Steps that leave cells and map alone and neither begin nor end a hold   *)
(* or a run keep the invariant.                                            *)
LEMMA MoveKeeps ==
  ASSUME CellInv, UNCHANGED cells, NEW r \in Requests, NEW s \in Steps,
         pc' = [pc EXCEPT ![r] = s],
         \/ Runs(r) /\ s \in MissSteps \cup {"finish"}
         \/ pc[r] \notin Holding /\ s \notin Holding
  PROVE  CellInv'
<1>1. \A q \in Requests : Runs(q)' <=> Runs(q)
  BY DEF CellInv, CellTypes, Runs, Holding, MissSteps
<1>2. \A q \in Requests : pc'[q] \in Holding <=> pc[q] \in Holding
  BY DEF CellInv, CellTypes, Runs, Holding, MissSteps
<1>3. \A q \in Requests : pc[q] = "leave" => pc'[q] = "leave"
  BY DEF CellInv, CellTypes, Runs, Holding, MissSteps
<1>4. cell' = cell /\ inflight' = inflight /\ outcome' = outcome
  BY DEF cells
<1>5. CellTypes'
  BY <1>2, <1>4 DEF CellInv, CellTypes
<1>6. CellsApart' /\ UnusedPending'
  BY <1>4 DEF CellInv, CellsApart, UnusedPending, InUse
<1>7. RunnersPending' /\ SoleRunner'
  BY <1>1, <1>4 DEF CellInv, RunnersPending, SoleRunner
<1>8. NoFrozenCell'
  BY <1>3, <1>4 DEF CellInv, NoFrozenCell
<1> QED
  BY <1>5, <1>6, <1>7, <1>8 DEF CellInv

LEMMA JoinKeeps == ASSUME CellInv, NEW r \in Requests, Join(r) PROVE CellInv'
<1> DEFINE a == AppOf[r]
<1>1. /\ pc[r] = "join" /\ pc' = [pc EXCEPT ![r] = "await"] /\ outcome' = outcome
      /\ a \in Apps /\ cell[r] = NoCell
  BY AppOfOK DEF Join, Goto, CellInv, CellTypes, Holding, MissSteps
<1>2. PICK c \in Cells :
        /\ c # NoCell
        /\ cell' = [cell EXCEPT ![r] = c]
        /\ \/ inflight' = inflight /\ inflight[a] = c
           \/ inflight' = [inflight EXCEPT ![a] = c] /\ inflight[a] = NoCell /\ c \notin InUse
  <2>1. CASE inflight[a] # NoCell
    <3>1. inflight[a] \in Cells
      BY <1>1, <2>1 DEF CellInv, CellTypes
    <3>2. inflight' = inflight /\ cell' = [cell EXCEPT ![r] = inflight[a]]
      BY <2>1 DEF Join
    <3> QED
      BY <2>1, <3>1, <3>2
  <2>2. CASE inflight[a] = NoCell
    <3> DEFINE c == CHOOSE d \in Cells : d \notin InUse
    <3>1. Cells \ InUse # {}
      BY <2>2 DEF Join
    <3>2. c \in Cells /\ c \notin InUse
      BY <3>1
    <3>3. /\ inflight' = [inflight EXCEPT ![a] = c]
          /\ cell' = [cell EXCEPT ![r] = c]
      BY <2>2 DEF Join
    <3>4. c # NoCell
      BY <3>2, CellNames
    <3> HIDE DEF c
    <3> QED
      BY <2>2, <3>2, <3>3, <3>4
  <2> QED
    BY <2>1, <2>2
<1>3. inflight'[a] = c
  BY <1>1, <1>2 DEF CellInv, CellTypes
<1>4. CellTypes'
  BY <1>1, <1>2 DEF CellInv, CellTypes, Steps, Holding, MissSteps
<1>5. CellsApart'
  BY <1>1, <1>2 DEF CellInv, CellTypes, CellsApart, InUse
<1>6. \A q \in Requests : Runs(q)' <=> Runs(q)
  BY <1>1 DEF CellInv, CellTypes, Runs, MissSteps
<1>7. \A q \in Requests : Runs(q) => cell'[q] = cell[q]
  BY <1>1, <1>2 DEF CellInv, CellTypes, Runs, MissSteps
<1>8. RunnersPending' /\ SoleRunner'
  BY <1>1, <1>6, <1>7 DEF CellInv, RunnersPending, SoleRunner
<1>9. InUse \ {NoCell} \subseteq InUse'
  BY <1>1, <1>2 DEF CellInv, CellTypes, InUse
<1>10. UnusedPending'
  BY <1>1, <1>9, CellNames DEF CellInv, UnusedPending
<1>11. NoFrozenCell'
  <2> SUFFICES ASSUME NEW b \in Apps, inflight'[b] # NoCell, outcome[inflight'[b]] # Pending
               PROVE  \E q \in Requests : pc'[q] = "leave" /\ cell'[q] = inflight'[b]
    BY <1>1 DEF NoFrozenCell
  <2>1. inflight'[b] = inflight[b]
    BY <1>1, <1>2 DEF CellInv, CellTypes, UnusedPending
  <2>2. PICK q \in Requests : pc[q] = "leave" /\ cell[q] = inflight[b]
    BY <2>1 DEF CellInv, NoFrozenCell
  <2>3. pc'[q] = "leave" /\ cell'[q] = cell[q]
    BY <1>1, <1>2, <2>2 DEF CellInv, CellTypes
  <2> QED
    BY <2>1, <2>2, <2>3
<1> QED
  BY <1>4, <1>5, <1>8, <1>10, <1>11 DEF CellInv

LEMMA AwaitKeeps == ASSUME CellInv, NEW r \in Requests, Await(r) PROVE CellInv'
<1>1. pc[r] = "await" /\ cell' = cell /\ inflight' = inflight /\ outcome' = outcome
  BY DEF Await, cells
<1>2. PICK s \in {"leave", "miss_get"} :
        /\ pc' = [pc EXCEPT ![r] = s]
        /\ s = "miss_get" => /\ outcome[cell[r]] = Pending
                             /\ \A q \in Requests : Runs(q) => cell[q] # cell[r]
  BY DEF Await, Goto
<1>3. \A q \in Requests : q # r => Runs(q)' = Runs(q)
  BY <1>2 DEF CellInv, CellTypes, Runs
<1>4. Runs(r)' => s = "miss_get"
  BY <1>2 DEF CellInv, CellTypes, Runs, MissSteps
<1>5. CellTypes'
  BY <1>1, <1>2 DEF CellInv, CellTypes, Steps, Holding, MissSteps
<1>6. CellsApart' /\ UnusedPending'
  BY <1>1 DEF CellInv, CellsApart, UnusedPending, InUse
<1>7. RunnersPending'
  BY <1>1, <1>2, <1>3, <1>4 DEF CellInv, RunnersPending
<1>8. SoleRunner'
  BY <1>1, <1>2, <1>3, <1>4 DEF CellInv, SoleRunner
<1>9. NoFrozenCell'
  <2>1. \A q \in Requests : pc[q] = "leave" => pc'[q] = "leave"
    BY <1>1, <1>2 DEF CellInv, CellTypes
  <2> QED
    BY <1>1, <2>1 DEF CellInv, NoFrozenCell
<1> QED
  BY <1>5, <1>6, <1>7, <1>8, <1>9 DEF CellInv

LEMMA FinishKeeps == ASSUME CellInv, NEW r \in Requests, Finish(r) PROVE CellInv'
<1>1. /\ pc[r] = "finish" /\ pc' = [pc EXCEPT ![r] = "leave"]
      /\ cell' = cell /\ inflight' = inflight
      /\ cell[r] \in Cells /\ Runs(r)
  BY CellNames DEF Finish, Goto, CellInv, CellTypes, Holding, Runs
<1>2. /\ outcome' = [d \in Cells |-> outcome'[d]]
      /\ \A d \in Cells : d # cell[r] => outcome'[d] = outcome[d]
  BY <1>1 DEF Finish, CellInv, CellTypes
<1>3. \A q \in Requests : Runs(q)' <=> Runs(q) /\ q # r
  BY <1>1 DEF CellInv, CellTypes, Runs, MissSteps
<1>4. \A q \in Requests : Runs(q) /\ q # r => cell[q] \in Cells /\ cell[q] # cell[r]
  BY <1>1 DEF CellInv, CellTypes, SoleRunner, Runs, Holding
<1>5. CellTypes'
  BY <1>1, <1>2 DEF CellInv, CellTypes, Steps, Holding, MissSteps
<1>6. CellsApart' /\ SoleRunner'
  BY <1>1, <1>3 DEF CellInv, CellsApart, SoleRunner
<1>7. RunnersPending'
  BY <1>1, <1>2, <1>3, <1>4 DEF CellInv, RunnersPending
<1>8. UnusedPending'
  BY <1>1, <1>2 DEF CellInv, UnusedPending, InUse
<1>9. NoFrozenCell'
  <2> SUFFICES ASSUME NEW b \in Apps, inflight[b] # NoCell, outcome'[inflight[b]] # Pending
               PROVE  \E q \in Requests : pc'[q] = "leave" /\ cell[q] = inflight[b]
    BY <1>1 DEF NoFrozenCell
  <2>1. CASE inflight[b] = cell[r]
    BY <1>1, <2>1 DEF CellInv, CellTypes
  <2>2. CASE inflight[b] # cell[r]
    <3>1. inflight[b] \in Cells /\ outcome[inflight[b]] # Pending
      BY <1>2, <2>2 DEF CellInv, CellTypes
    <3>2. PICK q \in Requests : pc[q] = "leave" /\ cell[q] = inflight[b]
      BY <3>1 DEF CellInv, NoFrozenCell
    <3> QED
      BY <1>1, <3>2 DEF CellInv, CellTypes
  <2> QED
    BY <2>1, <2>2
<1> QED
  BY <1>5, <1>6, <1>7, <1>8, <1>9 DEF CellInv

(* Letting go of a cell: by leaving, or dropped anywhere else. *)
LEMMA LetGoKeeps ==
  ASSUME CellInv, NEW r \in Requests, NEW s \in Steps \ Holding,
         pc' = [pc EXCEPT ![r] = s], cell' = [cell EXCEPT ![r] = NoCell], FreeUnused,
         \/ inflight' = [inflight EXCEPT ![AppOf[r]] = NoCell]
         \/ pc[r] # "leave" /\ inflight' = inflight
  PROVE  CellInv'
<1>1. AppOf[r] \in Apps
  BY AppOfOK
<1>2. /\ inflight' \in [Apps -> Cells \cup {NoCell}]
      /\ \A a \in Apps : inflight'[a] # NoCell => inflight'[a] = inflight[a]
      /\ \A q \in Requests : cell'[q] # NoCell => cell'[q] = cell[q]
      /\ cell' \in [Requests -> Cells \cup {NoCell}]
  BY <1>1 DEF CellInv, CellTypes
<1>3. /\ outcome' = [d \in Cells |-> outcome'[d]]
      /\ \A d \in Cells : d \in InUse' => outcome'[d] = outcome[d]
      /\ \A d \in Cells : d \notin InUse' => outcome'[d] = Pending
  BY DEF FreeUnused
<1>4. CellTypes'
  BY <1>2, <1>3 DEF CellInv, CellTypes
<1>5. CellsApart'
  BY <1>2 DEF CellInv, CellsApart
<1>6. \A q \in Requests : Runs(q)' <=> Runs(q) /\ q # r
  BY DEF CellInv, CellTypes, Runs, Holding
<1>7. \A q \in Requests : Runs(q) /\ q # r =>
        cell'[q] = cell[q] /\ cell[q] \in Cells /\ cell[q] \in InUse'
  <2> SUFFICES ASSUME NEW q \in Requests, Runs(q), q # r
               PROVE  cell'[q] = cell[q] /\ cell[q] \in Cells /\ cell[q] \in InUse'
    OBVIOUS
  <2>1. cell'[q] = cell[q] /\ cell[q] \in Cells
    BY DEF CellInv, CellTypes, Runs, Holding
  <2> QED
    BY <2>1 DEF InUse
<1>8. RunnersPending'
  BY <1>3, <1>6, <1>7 DEF CellInv, RunnersPending
<1>9. SoleRunner'
  BY <1>6, <1>7 DEF CellInv, SoleRunner
<1>10. UnusedPending'
  BY <1>3 DEF UnusedPending
<1>11. NoFrozenCell'
  <2> SUFFICES ASSUME NEW b \in Apps, inflight'[b] # NoCell, outcome'[inflight'[b]] # Pending
               PROVE  \E q \in Requests : pc'[q] = "leave" /\ cell'[q] = inflight'[b]
    BY DEF NoFrozenCell
  <2>1. inflight'[b] = inflight[b] /\ inflight[b] \in Cells
    BY <1>2 DEF CellInv, CellTypes
  <2>2. inflight[b] \in InUse'
    BY <2>1 DEF InUse
  <2>3. outcome[inflight[b]] # Pending
    BY <1>3, <2>1, <2>2
  <2>4. PICK q \in Requests : pc[q] = "leave" /\ cell[q] = inflight[b]
    BY <2>1, <2>3 DEF CellInv, NoFrozenCell
  <2>5. q # r
    <3>1. AppOf[q] = b
      BY <2>1, <2>4 DEF CellInv, CellsApart
    <3> QED
      BY <1>1, <2>1, <2>4, <3>1 DEF CellInv, CellTypes
  <2> QED
    BY <2>1, <2>4, <2>5 DEF CellInv, CellTypes
<1> QED
  BY <1>4, <1>5, <1>8, <1>9, <1>10, <1>11 DEF CellInv

----------------------------------------------------------------------------
(* Now one lemma for each kind of step, after which the theorems follow. *)
LEMMA ArriveKeeps == ASSUME CellInv, NEW r \in Requests, Arrive(r) PROVE CellInv'
<1>1. pc[r] \notin Holding /\ UNCHANGED cells
  BY DEF Arrive, Shorten, Update, Delete, Resolve, Start, Active, CellInv, CellTypes,
         Holding, MissSteps
<1>2. PICK s \in {"filter_add", "write_lease", "get"} : pc' = [pc EXCEPT ![r] = s]
  BY DEF Arrive, Shorten, Update, Delete, Resolve, Start, Goto
<1> QED
  BY <1>1, <1>2, MoveKeeps DEF Steps, ShortenSteps, WriteSteps, MissSteps, Holding

LEMMA LookupKeeps ==
  ASSUME CellInv, NEW r \in Requests, Get(r) \/ Extend(r) \/ FilterCheck(r)
  PROVE  CellInv'
<1>1. pc[r] \in {"get", "extend", "filter_check"} /\ UNCHANGED cells
  BY DEF Get, Extend, FilterCheck
<1>2. PICK s \in {"extend", "filter_check", "join", "done"} : pc' = [pc EXCEPT ![r] = s]
  BY DEF Get, Extend, FilterCheck, Goto, Reply
<1> QED
  BY <1>1, <1>2, MoveKeeps DEF Steps, MissSteps, Holding

LEMMA ProtocolKeeps ==
  ASSUME CellInv, NEW r \in Requests, ProtocolStep(r, "finish"), UNCHANGED cells
  PROVE  CellInv'
<1>1. PICK s \in Steps :
        /\ pc' = [pc EXCEPT ![r] = s]
        /\ \/ pc[r] \in MissSteps /\ s \in MissSteps \cup {"finish"}
           \/ pc[r] \notin Holding /\ s \notin Holding
  BY ProtocolMoves DEF CellInv
<1> QED
  BY <1>1, MoveKeeps DEF Runs

LEMMA StepKeeps == ASSUME CellInv, NEW r \in Requests, Step(r) PROVE CellInv'
<1>1. CASE Get(r) \/ Extend(r) \/ FilterCheck(r)
  BY <1>1, LookupKeeps
<1>2. CASE Join(r)
  BY <1>2, JoinKeeps
<1>3. CASE Await(r)
  BY <1>3, AwaitKeeps
<1>4. CASE Finish(r)
  BY <1>4, FinishKeeps
<1>5. CASE Leave(r)
  BY <1>5, LetGoKeeps DEF Leave, Reply, Goto, Steps, Holding, MissSteps
<1>6. CASE ProtocolStep(r, "finish") /\ UNCHANGED cells
  BY <1>6, ProtocolKeeps
<1> QED
  BY <1>1, <1>2, <1>3, <1>4, <1>5, <1>6 DEF Step

LEMMA AbandonKeeps == ASSUME CellInv, NEW r \in Requests, Abandon(r) PROVE CellInv'
BY LetGoKeeps DEF Abandon, Cancel, Steps, Holding, MissSteps

(* Redis on its own: neither a request nor a cell takes part. *)
LEMMA IdleKeeps == ASSUME CellInv, UNCHANGED <<pc, cells>> PROVE CellInv'
BY DEF CellInv, CellTypes, CellsApart, RunnersPending, UnusedPending, SoleRunner,
       NoFrozenCell, Runs, InUse, cells

LEMMA NextKeeps == ASSUME CellInv, [Next]_allvars PROVE CellInv'
<1>1. CASE \E r \in Requests : Arrive(r) \/ Step(r) \/ Abandon(r)
  BY <1>1, ArriveKeeps, StepKeeps, AbandonKeeps
<1>2. CASE Tick \/ Evict \/ (ExpireLease /\ UNCHANGED <<cells, ttl>>)
  BY <1>2, IdleKeeps DEF Tick, Evict, ExpireCache, ExpireLease
<1>3. CASE UNCHANGED allvars
  BY <1>3, IdleKeeps DEF allvars, vars
<1> QED
  BY <1>1, <1>2, <1>3 DEF Next

LEMMA InitHolds == StoreInit => CellInv
BY DEF StoreInit, Init, CellInv, CellTypes, CellsApart, RunnersPending, UnusedPending,
       SoleRunner, NoFrozenCell, Runs, InUse, Steps, Holding, MissSteps

LEMMA CellInvHolds == Spec => []CellInv
BY InitHolds, NextKeeps, PTL DEF Spec

(* No initialised cell stays in a map: the request that has filled it is   *)
(* still there to remove it, and no dropped handler is in its place.       *)
THEOREM NothingFrozen == Spec => []NoFrozenCell
<1>1. CellInv => NoFrozenCell
  BY DEF CellInv
<1> QED
  BY <1>1, CellInvHolds, PTL
=============================================================================
