----------------------- MODULE CoalescedFlightProofs -----------------------
(***************************************************************************)
(* What singleflight may answer, for any requests, processes and cells,    *)
(* with every fault: nothing older than the flight that is joined.         *)
(***************************************************************************)
EXTENDS CoalescedStoreProofs

(* The row comes after the filter, as in LeasedStoreProofs.                *)
FilterFirst ==
  /\ row # NoUrl => stage \in {"in_filter", "public"}
  /\ \A r \in Requests :
       pc[r] \in {"insert", "write_through"} => stage \in {"in_filter", "public"}

Resolving(r) == Active(r) /\ KindOf(pc[r]) = "resolve"

(* The steps at which a redirect has a value, Err or one to answer with.   *)
HasValue == {"extend", "populate", "miss_release", "finish", "leave"}

InWindow ==
  /\ val = [r \in Requests |-> val[r]]
  /\ \A r \in Requests : Resolving(r) => Shown \subseteq window[r]
  /\ \A r \in Requests : pc[r] \in HasValue => val[r] \in window[r] \cup {Err}
  /\ \A r \in Requests :
       cell[r] # NoCell => outcome[cell[r]] \in window[r] \cup {Pending}

FlightInv == CellInv /\ FilterFirst /\ InWindow

----------------------------------------------------------------------------
LEMMA HoldersResolve ==
  ASSUME CellTypes, NEW r \in Requests, cell[r] # NoCell
  PROVE  Resolving(r)
BY DEF CellTypes, Resolving, Active, KindOf, Holding, MissSteps, ShortenSteps, WriteSteps

(* The window of a request only grows while it runs, by what row and cache *)
(* show and by the windows of those with whom it shares a cell.            *)
LEMMA WindowGrows ==
  ASSUME Observe, NEW r \in Requests, Resolving(r)'
  PROVE  /\ Shown' \subseteq window'[r]
         /\ window[r] \subseteq window'[r]
         /\ \A q \in Requests :
              Active(q) /\ cell'[r] # NoCell /\ cell'[q] = cell'[r]
                => window[q] \subseteq window'[r]
<1>1. window'[r] = Shown' \cup window[r] \cup UNION {window[q] : q \in Sharing(r)}
  BY DEF Observe, Resolving
<1> QED
  BY <1>1 DEF Sharing

(* One request takes a step: the others keep their values, and its own is  *)
(* one from its window.                                                    *)
Shows(r) ==
  /\ \A q \in Requests \ {r} : pc'[q] = pc[q] /\ val'[q] = val[q]
  /\ val' = [q \in Requests |-> val'[q]]
  /\ pc'[r] \in HasValue => Resolving(r)
  /\ Resolving(r) /\ pc'[r] \in HasValue \cup {"done"} => val'[r] \in window[r] \cup {Err}

LEMMA LookupShows ==
  ASSUME FlightInv, NEW r \in Requests, Get(r) \/ Extend(r) \/ FilterCheck(r)
  PROVE  Shows(r)
<1>1. Resolving(r) /\ pc[r] \in {"get", "extend", "filter_check"}
  BY DEF Get, Extend, FilterCheck, Resolving, Active, KindOf, ShortenSteps, WriteSteps
<1>2. Shown \subseteq window[r]
  BY <1>1 DEF FlightInv, InWindow
<1>3. FilterCheck(r) /\ FilterMayDeny => row = NoUrl
  BY DEF FilterMayDeny, FlightInv, FilterFirst
<1>4. CASE Get(r)
  BY <1>1, <1>2, <1>4 DEF Get, Goto, Reply, Shows, Shown, HasValue, FlightInv, InWindow,
                          CellInv, CellTypes
<1>5. CASE Extend(r)
  BY <1>1, <1>5 DEF Extend, Goto, Reply, Shows, HasValue, FlightInv, InWindow,
                    CellInv, CellTypes
<1>6. CASE FilterCheck(r)
  BY <1>1, <1>2, <1>3, <1>6 DEF FilterCheck, Goto, Reply, Shows, Shown, HasValue, FlightInv,
                                InWindow, CellInv, CellTypes
<1> QED
  BY <1>4, <1>5, <1>6

LEMMA ProtocolShows ==
  ASSUME FlightInv, NEW r \in Requests, ProtocolStep(r, "finish")
  PROVE  Shows(r)
<1> USE DEF Goto, Reply, Shows, HasValue, FlightInv, InWindow, CellInv, CellTypes,
            Resolving, Active, KindOf, ShortenSteps, WriteSteps
<1>1. CASE FilterAdd(r) \/ Insert(r) \/ WriteThrough(r)
  BY <1>1 DEF FilterAdd, Insert, WriteThrough
<1>2. CASE WriteLease(r) \/ WriteQuery(r) \/ Invalidate(r) \/ WriteRelease(r)
  BY <1>2 DEF WriteLease, WriteQuery, Invalidate, WriteRelease
<1>3. CASE ReadPostgres(r, "finish") \/ MissGet(r, "finish") \/ Select(r)
  <2>1. Shown \subseteq window[r]
    BY <1>3 DEF ReadPostgres, MissGet, Select
  <2> QED
    BY <1>3, <2>1 DEF ReadPostgres, MissGet, Select, Shown
<1>4. CASE MissLease(r) \/ Populate(r) \/ MissRelease(r, "finish")
  BY <1>4 DEF MissLease, Populate, MissRelease
<1> QED
  BY <1>1, <1>2, <1>3, <1>4 DEF ProtocolStep

LEMMA CellShows ==
  ASSUME FlightInv, NEW r \in Requests, Join(r) \/ Await(r) \/ Finish(r) \/ Leave(r)
  PROVE  Shows(r)
<1> USE DEF Goto, Reply, Shows, HasValue, FlightInv, InWindow, CellInv, CellTypes,
            Resolving, Active, KindOf, ShortenSteps, WriteSteps
<1>1. CASE Join(r)
  BY <1>1 DEF Join
<1>2. CASE Await(r)
  BY <1>2 DEF Await, Holding
<1>3. CASE Finish(r)
  BY <1>3 DEF Finish
<1>4. CASE Leave(r)
  BY <1>4 DEF Leave
<1> QED
  BY <1>1, <1>2, <1>3, <1>4

LEMMA StepShows == ASSUME FlightInv, NEW r \in Requests, Step(r) PROVE Shows(r)
BY LookupShows, ProtocolShows, CellShows DEF Step

LEMMA ArriveShows ==
  ASSUME FlightInv, NEW r \in Requests, Arrive(r)
  PROVE  Shows(r) /\ cell[r] = NoCell
BY DEF Arrive, Shorten, Update, Delete, Resolve, Start, Goto, Shows, HasValue, FlightInv,
       InWindow, CellInv, CellTypes, Resolving, Active, Holding, MissSteps

LEMMA AbandonShows == ASSUME FlightInv, NEW r \in Requests, Abandon(r) PROVE Shows(r)
BY DEF Abandon, Cancel, Shows, HasValue, FlightInv, InWindow, CellInv, CellTypes

----------------------------------------------------------------------------
(* FilterFirst is the business of shorten and of the writers.              *)
LEMMA FilterFirstKept == ASSUME FlightInv, [Next]_allvars PROVE FilterFirst'
<1> USE NamesDiffer DEF FlightInv, CellInv, CellTypes, FilterFirst, Goto, Reply
<1>1. ASSUME NEW r \in Requests, Arrive(r) PROVE FilterFirst'
  BY <1>1 DEF Arrive, Shorten, Update, Delete, Resolve, Start
<1>2. ASSUME NEW r \in Requests,
             FilterAdd(r) \/ Insert(r) \/ WriteThrough(r) \/ WriteQuery(r)
      PROVE FilterFirst'
  BY <1>2 DEF FilterAdd, Insert, WriteThrough, WriteQuery
<1>3. ASSUME NEW r \in Requests,
             WriteLease(r) \/ Invalidate(r) \/ WriteRelease(r)
               \/ ReadPostgres(r, "finish") \/ MissGet(r, "finish") \/ MissLease(r)
               \/ Select(r) \/ Populate(r) \/ MissRelease(r, "finish")
      PROVE FilterFirst'
  BY <1>3 DEF WriteLease, Invalidate, WriteRelease, ReadPostgres, MissGet, MissLease,
              Select, Populate, MissRelease
<1>4. ASSUME NEW r \in Requests,
             Get(r) \/ Extend(r) \/ FilterCheck(r) \/ Join(r) \/ Await(r) \/ Finish(r)
               \/ Leave(r) \/ Abandon(r)
      PROVE FilterFirst'
  BY <1>4 DEF Get, Extend, FilterCheck, Join, Await, Finish, Leave, Abandon, Cancel
<1>5. CASE Tick \/ Evict \/ (ExpireLease /\ UNCHANGED <<cells, ttl>>) \/ UNCHANGED allvars
  BY <1>5 DEF Tick, Evict, ExpireCache, ExpireLease, allvars, vars
<1> QED
  BY <1>1, <1>2, <1>3, <1>4, <1>5 DEF Next, Step, ProtocolStep

----------------------------------------------------------------------------
(* What a cell holds is in the windows of all who hold it. *)
OutcomesInWindow ==
  \A q \in Requests : cell[q] # NoCell => outcome[cell[q]] \in window[q] \cup {Pending}

LEMMA QuietCells ==
  ASSUME FlightInv, CellInv', Observe,
         \A q \in Requests : cell'[q] # NoCell =>
           cell'[q] = cell[q] /\ outcome'[cell[q]] \in {outcome[cell[q]], Pending}
  PROVE  OutcomesInWindow'
<1> SUFFICES ASSUME NEW q \in Requests, cell'[q] # NoCell
             PROVE  outcome'[cell'[q]] \in window'[q] \cup {Pending}
  BY DEF OutcomesInWindow
<1>1. Resolving(q)'
  BY HoldersResolve DEF CellInv, CellTypes, Resolving, Active, KindOf, Holding, MissSteps,
                        ShortenSteps, WriteSteps
<1>2. window[q] \subseteq window'[q]
  BY <1>1, WindowGrows
<1>3. outcome[cell[q]] \in window[q] \cup {Pending}
  BY DEF FlightInv, InWindow
<1> QED
  BY <1>2, <1>3

LEMMA JoinCells ==
  ASSUME FlightInv, CellInv', Observe, NEW r \in Requests, Join(r)
  PROVE  OutcomesInWindow'
<1> SUFFICES ASSUME NEW q \in Requests, cell'[q] # NoCell
             PROVE  outcome'[cell'[q]] \in window'[q] \cup {Pending}
  BY DEF OutcomesInWindow
<1>1. Resolving(q)'
  BY DEF CellInv, CellTypes, Resolving, Active, KindOf, Holding, MissSteps,
         ShortenSteps, WriteSteps
<1>2. outcome' = outcome /\ AppOf[r] \in Apps /\ cell \in [Requests -> Cells \cup {NoCell}]
  BY AppOfOK DEF Join, FlightInv, CellInv, CellTypes
<1>3. CASE q # r
  <2>1. cell'[q] = cell[q]
    BY <1>2, <1>3 DEF Join
  <2>2. outcome[cell[q]] \in window[q] \cup {Pending}
    BY <2>1 DEF FlightInv, InWindow
  <2> QED
    BY <1>1, <1>2, <2>1, <2>2, WindowGrows
<1>4. CASE q = r /\ inflight[AppOf[r]] # NoCell
  <2>1. cell' = [cell EXCEPT ![r] = inflight[AppOf[r]]]
    BY <1>4 DEF Join
  <2>2. cell'[r] = inflight[AppOf[r]]
    BY <1>2, <2>1
  <2>3. CASE outcome[cell'[r]] # Pending
    <3>1. PICK w \in Requests : pc[w] = "leave" /\ cell[w] = inflight[AppOf[r]]
      BY <1>2, <1>4, <2>2, <2>3 DEF FlightInv, CellInv, NoFrozenCell
    <3>2. cell'[w] = cell'[r] /\ cell[w] # NoCell
      BY <1>2, <1>4, <2>1, <2>2, <3>1
    <3>3. Active(w) /\ outcome[cell[w]] \in window[w] \cup {Pending}
      BY <3>1, <3>2 DEF Active, FlightInv, InWindow
    <3>4. window[w] \subseteq window'[r]
      BY <1>1, <1>4, <3>2, <3>3, WindowGrows
    <3> QED
      BY <1>2, <1>4, <2>2, <3>1, <3>3, <3>4
  <2> QED
    BY <1>2, <1>4, <2>3
<1>5. CASE q = r /\ inflight[AppOf[r]] = NoCell
  <2> DEFINE c == CHOOSE d \in Cells : d \notin InUse
  <2>1. cell' = [cell EXCEPT ![r] = c] /\ Cells \ InUse # {}
    BY <1>5 DEF Join
  <2>2. c \in Cells \ InUse
    BY <2>1
  <2>3. cell'[r] = c
    BY <1>2, <2>1
  <2> HIDE DEF c
  <2> QED
    BY <1>2, <1>5, <2>2, <2>3 DEF FlightInv, CellInv, UnusedPending
<1> QED
  BY <1>3, <1>4, <1>5

LEMMA FinishCells ==
  ASSUME FlightInv, CellInv', Observe, NEW r \in Requests, Finish(r)
  PROVE  OutcomesInWindow'
<1> SUFFICES ASSUME NEW q \in Requests, cell'[q] # NoCell
             PROVE  outcome'[cell'[q]] \in window'[q] \cup {Pending}
  BY DEF OutcomesInWindow
<1>1. Resolving(q)'
  BY DEF CellInv, CellTypes, Resolving, Active, KindOf, Holding, MissSteps,
         ShortenSteps, WriteSteps
<1>2. /\ cell' = cell /\ cell[q] \in Cells /\ Active(r)
      /\ val[r] \in window[r] \cup {Err}
      /\ outcome[cell[q]] \in window[q] \cup {Pending}
  BY CellNames DEF Finish, FlightInv, CellInv, CellTypes, InWindow, HasValue, Active
<1>3. CASE outcome'[cell[q]] = outcome[cell[q]]
  BY <1>1, <1>2, <1>3, WindowGrows
<1>4. CASE outcome'[cell[q]] # outcome[cell[q]]
  <2>1. val[r] # Err /\ outcome' = [outcome EXCEPT ![cell[r]] = val[r]]
    BY <1>4 DEF Finish
  <2>2. cell[q] = cell[r] /\ outcome'[cell[q]] = val[r]
    BY <1>2, <1>4, <2>1 DEF FlightInv, CellInv, CellTypes
  <2>3. window[r] \subseteq window'[q]
    BY <1>1, <1>2, <2>2, WindowGrows
  <2> QED
    BY <1>2, <2>1, <2>2, <2>3
<1> QED
  BY <1>3, <1>4

LEMMA LetGoCells ==
  ASSUME FlightInv, CellInv', Observe, NEW r \in Requests,
         cell' = [cell EXCEPT ![r] = NoCell], FreeUnused
  PROVE  OutcomesInWindow'
<1>1. \A q \in Requests : cell'[q] # NoCell => cell'[q] = cell[q] /\ cell[q] \in Cells
  BY DEF FlightInv, CellInv, CellTypes
<1>2. \A c \in Cells : outcome'[c] \in {outcome[c], Pending}
  BY DEF FreeUnused
<1> QED
  BY <1>1, <1>2, QuietCells

LEMMA StillCells == ASSUME FlightInv, CellInv', Observe, UNCHANGED cells PROVE OutcomesInWindow'
BY QuietCells DEF cells

----------------------------------------------------------------------------
LEMMA ActorKeeps ==
  ASSUME FlightInv, CellInv', Observe, NEW r \in Requests, Shows(r), OutcomesInWindow'
  PROVE  InWindow'
<1>1. \A q \in Requests : Resolving(q)' => Shown' \subseteq window'[q]
  BY WindowGrows
<1>2. ASSUME NEW q \in Requests, pc'[q] \in HasValue
      PROVE  val'[q] \in window'[q] \cup {Err}
  <2>1. Resolving(q)'
    BY <1>2 DEF HasValue, Resolving, Active, KindOf, ShortenSteps, WriteSteps
  <2>2. window[q] \subseteq window'[q]
    BY <2>1, WindowGrows
  <2>3. val'[q] \in window[q] \cup {Err}
    BY <1>2 DEF Shows, FlightInv, InWindow
  <2> QED
    BY <2>2, <2>3
<1> QED
  BY <1>1, <1>2 DEF InWindow, OutcomesInWindow, Shows

LEMMA StillKeeps ==
  ASSUME FlightInv, CellInv', Observe, UNCHANGED <<pc, val, cells>>
  PROVE  InWindow'
<1>1. OutcomesInWindow'
  BY StillCells
<1>2. \A q \in Requests : Resolving(q)' => Shown' \subseteq window'[q]
  BY WindowGrows
<1>3. ASSUME NEW q \in Requests, pc'[q] \in HasValue
      PROVE  val'[q] \in window'[q] \cup {Err}
  <2>1. Resolving(q)'
    BY <1>3 DEF HasValue, Resolving, Active, KindOf, ShortenSteps, WriteSteps
  <2> QED
    BY <1>3, <2>1, WindowGrows DEF FlightInv, InWindow
<1> QED
  BY <1>1, <1>2, <1>3 DEF InWindow, OutcomesInWindow, FlightInv

LEMMA StepCells ==
  ASSUME FlightInv, CellInv', Observe, NEW r \in Requests, Step(r)
  PROVE  OutcomesInWindow'
<1>1. CASE Join(r)
  BY <1>1, JoinCells
<1>2. CASE Finish(r)
  BY <1>2, FinishCells
<1>3. CASE Leave(r)
  BY <1>3, LetGoCells DEF Leave
<1>4. CASE \/ Get(r) \/ Extend(r) \/ FilterCheck(r) \/ Await(r)
           \/ ProtocolStep(r, "finish") /\ TtlFollows(r) /\ UNCHANGED cells
  BY <1>4, StillCells DEF Get, Extend, FilterCheck, Await
<1> QED
  BY <1>1, <1>2, <1>3, <1>4 DEF Step

LEMMA InWindowKept == ASSUME FlightInv, CellInv', [Next]_allvars PROVE InWindow'
<1>1. ASSUME NEW r \in Requests, Arrive(r) \/ Step(r) \/ Abandon(r), Observe PROVE InWindow'
  <2>1. Shows(r)
    BY <1>1, ArriveShows, StepShows, AbandonShows
  <2>2. OutcomesInWindow'
    <3>1. CASE Arrive(r)
      BY <1>1, <3>1, StillCells DEF Arrive
    <3>2. CASE Step(r)
      BY <1>1, <3>2, StepCells
    <3>3. CASE Abandon(r)
      BY <1>1, <3>3, LetGoCells DEF Abandon
    <3> QED
      BY <1>1, <3>1, <3>2, <3>3
  <2> QED
    BY <1>1, <2>1, <2>2, ActorKeeps
<1>2. CASE (Tick \/ Evict \/ (ExpireLease /\ UNCHANGED <<cells, ttl>>)) /\ Observe
  BY <1>2, StillKeeps DEF Tick, Evict, ExpireCache, ExpireLease
<1>3. CASE UNCHANGED allvars
  BY <1>3 DEF FlightInv, InWindow, Resolving, Active, Shown, allvars, vars, cells
<1> QED
  BY <1>1, <1>2, <1>3 DEF Next

LEMMA FlightInit == StoreInit => FlightInv
<1>1. StoreInit => FilterFirst
  BY NamesDiffer DEF StoreInit, Init, FilterFirst
<1>2. StoreInit => InWindow
  BY DEF StoreInit, Init, InWindow, Resolving, Active, HasValue
<1> QED
  BY <1>1, <1>2, InitHolds DEF FlightInv

LEMMA FlightStep == FlightInv /\ [Next]_allvars => FlightInv'
<1> SUFFICES ASSUME FlightInv, [Next]_allvars PROVE FlightInv'
  OBVIOUS
<1>1. CellInv'
  BY NextKeeps DEF FlightInv
<1> QED
  BY <1>1, FilterFirstKept, InWindowKept DEF FlightInv

(* A redirect says what row or cache have shown since the oldest of those  *)
(* sharing its cell arrived: a follower may be told something older than   *)
(* itself, but nobody something older than the flight, whatever fails and  *)
(* however often the permit of the cell changes hands.                     *)
THEOREM AnswersAreOfTheFlight == Spec => AnswersFromTheFlight
<1> DEFINE Answer ==
      \A r \in Requests :
        KindOf(pc[r]) = "resolve" /\ Active(r) /\ pc'[r] = "done" /\ val'[r] # Err
          => val'[r] \in window[r]
<1>1. FlightInv /\ [Next]_allvars => [Answer]_allvars
  <2> SUFFICES ASSUME FlightInv, Next,
                      NEW r \in Requests, Resolving(r), pc'[r] = "done", val'[r] # Err
               PROVE  val'[r] \in window[r]
    BY DEF Resolving
  <2>1. ASSUME NEW q \in Requests, Arrive(q) \/ Step(q) \/ Abandon(q)
        PROVE  val'[r] \in window[r]
    <3>1. Shows(q)
      BY <2>1, ArriveShows, StepShows, AbandonShows
    <3> QED
      BY <3>1 DEF Shows, Resolving, Active
  <2>2. CASE Tick \/ Evict \/ (ExpireLease /\ UNCHANGED <<cells, ttl>>)
    BY <2>2 DEF Tick, Evict, ExpireCache, ExpireLease, Resolving, Active
  <2> QED
    BY <2>1, <2>2 DEF Next
<1> QED
  BY <1>1, FlightInit, FlightStep, PTL DEF Spec, AnswersFromTheFlight
=============================================================================
