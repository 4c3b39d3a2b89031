--------------------------- MODULE CoalescedStore ---------------------------
(***************************************************************************)
(* The store of tier 4.4 for one short code, running in several processes: *)
(* LeaseProtocol plus a resolve that keeps hot entries alive and puts      *)
(* singleflight in front of resolve_miss.                                  *)
(*                                                                         *)
(* Each process has a map from codes to cells (Arc<OnceCell>).  A request  *)
(* that misses clones the code's cell, creating it if need be, and either  *)
(* runs resolve_miss to fill it or waits for the request that does.        *)
(***************************************************************************)
EXTENDS LeaseProtocol, Naturals

CONSTANTS
  Writers,    \* bound: the requests that may be a shorten, update or delete
  Apps,       \* processes of the program
  AppOf,      \* the process a request arrives at
  Cells,      \* identities of OnceCells
  NoCell,     \* no entry in a map, no cell held
  Pending,    \* the content of a cell that is not initialised
  FullTtl,    \* CACHE_TTL_SECONDS with jitter, in ticks
  Extension,  \* TTL_EXTENSION_SECONDS, in ticks
  RollBelow   \* the longest remaining TTL at which the roll can succeed

ASSUME WritersOK == Writers \subseteq Requests
ASSUME AppOfOK == AppOf \in [Requests -> Apps]
ASSUME CellNames == NoCell \notin Cells /\ Pending \notin Urls \cup {NoUrl}
ASSUME TtlsOK == /\ FullTtl \in Nat /\ Extension \in 1 .. FullTtl
                 /\ RollBelow \in 1 .. FullTtl

VARIABLES
  inflight,  \* per process: the entry of the map for this code
  cell,      \* per request: the cell whose Arc it holds
  outcome,   \* per cell: what it was initialised with
  ttl,       \* remaining TTL of the Redis key {code}; 0 without a TTL
  window     \* history, per active request: all that row and cache have shown
             \* since the oldest request sharing its cell arrived

cells == <<inflight, cell, outcome>>
allvars == <<vars, cells, ttl, window>>

Steps == ShortenSteps \cup WriteSteps \cup MissSteps
           \cup {"get", "extend", "filter_check", "join", "await", "finish",
                 "leave", "done", "dropped"}

(* The request that runs resolve_miss for its cell. *)
Runs(r) == pc[r] \in MissSteps \cup {"finish"}

----------------------------------------------------------------------------
(* resolve up to the miss: one pipelined GET and TTL, then the roll. *)

Resolve(r) ==
  /\ CodeKnown
  /\ Start(r, "get", NoUrl)
  /\ UNCHANGED <<row, cache, lease, stage, committed>>

(* should_extend_ttl: ever likelier as the TTL runs down; a positive TTL.  *)
RollMaySucceed == ttl \in 1 .. RollBelow

Get(r) ==
  /\ pc[r] = "get"
  /\ \/ cache # NoUrl /\ Reply(r, cache)
     \/ cache # NoUrl /\ RollMaySucceed /\ Goto(r, "extend", cache)
     \/ cache = NoUrl /\ Goto(r, "filter_check", NoUrl)
     \/ RedisFails(r) /\ Goto(r, "join", NoUrl)
  /\ UNCHANGED <<row, cache, lease, stage, committed, absent, cells, ttl>>

(* Mutant: PERSIST instead of EXPIRE. *)
ExtendForGood(r) ==
  /\ pc[r] = "extend"
  /\ ttl' = 0
  /\ Reply(r, val[r])
  /\ UNCHANGED <<row, cache, lease, stage, committed, absent, cells>>

(* EXPIRE takes whatever entry is there by now; without one it does nothing.*)
Extend(r) ==
  /\ pc[r] = "extend"
  /\ \/ ttl' = IF cache = NoUrl THEN 0 ELSE Extension
     \/ RedisFails(r) /\ UNCHANGED ttl
  /\ Reply(r, val[r])
  /\ UNCHANGED <<row, cache, lease, stage, committed, absent, cells>>

FilterCheck(r) ==
  /\ pc[r] = "filter_check"
  /\ \/ FilterMayDeny /\ Reply(r, NoUrl)
     \/ Goto(r, "join", NoUrl)
  /\ UNCHANGED <<row, cache, lease, stage, committed, absent, cells, ttl>>

----------------------------------------------------------------------------
(* resolve_miss_coalesced. *)

InUse == {cell[r] : r \in Requests} \cup {inflight[a] : a \in Apps}

(* A cell nobody holds is freed; its identity is then used for another. *)
FreeUnused ==
  outcome' = [c \in Cells |-> IF c \in InUse' THEN outcome[c] ELSE Pending]

(* lock().entry(code).or_default().clone() *)
Join(r) ==
  /\ pc[r] = "join"
  /\ \/ /\ inflight[AppOf[r]] # NoCell
        /\ cell' = [cell EXCEPT ![r] = inflight[AppOf[r]]]
        /\ UNCHANGED inflight
     \/ /\ inflight[AppOf[r]] = NoCell
        /\ Cells \ InUse # {}
        /\ LET c == CHOOSE c \in Cells : c \notin InUse IN
             /\ inflight' = [inflight EXCEPT ![AppOf[r]] = c]
             /\ cell' = [cell EXCEPT ![r] = c]
  /\ Goto(r, "await", NoUrl)
  /\ UNCHANGED <<row, cache, lease, stage, committed, absent, outcome, ttl>>

(* get_or_try_init: the value, or the permit to fill the cell, which a     *)
(* runner that fails or is dropped passes on to one of those waiting.      *)
(* That there is a single permit is what tokio guarantees, not store.rs.   *)
Await(r) ==
  /\ pc[r] = "await"
  /\ \/ outcome[cell[r]] # Pending /\ Goto(r, "leave", outcome[cell[r]])
     \/ /\ outcome[cell[r]] = Pending
        /\ \A q \in Requests : Runs(q) => cell[q] # cell[r]
        /\ Goto(r, "miss_get", NoUrl)
  /\ UNCHANGED <<row, cache, lease, stage, committed, absent, cells, ttl>>

(* Mutant: get_or_init, which keeps a failure as well. *)
FinishKeepsErrors(r) ==
  /\ pc[r] = "finish"
  /\ outcome' = [outcome EXCEPT ![cell[r]] = val[r]]
  /\ Goto(r, "leave", val[r])
  /\ UNCHANGED <<row, cache, lease, stage, committed, absent, inflight, cell, ttl>>

(* Mutant: a failure counts as "not found". *)
FinishFailsAsMissing(r) ==
  /\ pc[r] = "finish"
  /\ LET found == IF val[r] = Err THEN NoUrl ELSE val[r] IN
       outcome' = [outcome EXCEPT ![cell[r]] = found] /\ Goto(r, "leave", found)
  /\ UNCHANGED <<row, cache, lease, stage, committed, absent, inflight, cell, ttl>>

(* resolve_miss has its last reply: a success initialises the cell. *)
Finish(r) ==
  /\ pc[r] = "finish"
  /\ outcome' = IF val[r] = Err THEN outcome ELSE [outcome EXCEPT ![cell[r]] = val[r]]
  /\ Goto(r, "leave", val[r])
  /\ UNCHANGED <<row, cache, lease, stage, committed, absent, inflight, cell, ttl>>

(* Mutant: the cell stays in the map. *)
LeaveBehind(r) ==
  /\ pc[r] = "leave"
  /\ cell' = [cell EXCEPT ![r] = NoCell]
  /\ Reply(r, val[r])
  /\ UNCHANGED <<row, cache, lease, stage, committed, absent, inflight, ttl>>
  /\ FreeUnused

(* lock().remove(code): whichever cell the map holds by now. *)
Leave(r) ==
  /\ pc[r] = "leave"
  /\ inflight' = [inflight EXCEPT ![AppOf[r]] = NoCell]
  /\ cell' = [cell EXCEPT ![r] = NoCell]
  /\ Reply(r, val[r])
  /\ FreeUnused
  /\ UNCHANGED <<row, cache, lease, stage, committed, absent, ttl>>

(* A dropped handler lets go of its cell and leaves the map alone.  From   *)
(* the end of get_or_try_init to the remove there is no await to drop it at.*)
Abandon(r) ==
  /\ pc[r] # "leave"
  /\ Cancel(r)
  /\ cell' = [cell EXCEPT ![r] = NoCell]
  /\ UNCHANGED <<inflight, ttl>>
  /\ FreeUnused

----------------------------------------------------------------------------
(* The remaining TTL. *)

(* SET EX starts a full TTL, a DEL ends it.  A SET that fails and finds    *)
(* the same value may have done either.                                    *)
TtlFollows(r) ==
  ttl' \in IF cache' = NoUrl THEN {0}
           ELSE IF pc[r] \notin {"write_through", "populate"} THEN {ttl}
           ELSE IF cache' = cache /\ RedisFails(r) THEN {ttl, FullTtl}
           ELSE {FullTtl}

Tick ==
  /\ ttl > 0
  /\ ttl' = ttl - 1
  /\ cache' = IF ttl = 1 THEN NoUrl ELSE cache
  /\ UNCHANGED <<row, lease, stage, pc, val, committed, absent, cells>>

Evict == ExpireCache /\ ttl' = 0 /\ UNCHANGED cells

----------------------------------------------------------------------------
(* History. *)
Shown == {row} \cup ({cache} \ {NoUrl})

Sharing(r) == {q \in Requests : Active(q) /\ cell'[q] = cell'[r] /\ cell'[r] # NoCell}

Observe ==
  window' = [r \in Requests |->
               IF Active(r)' /\ KindOf(pc'[r]) = "resolve"
               THEN Shown' \cup window[r] \cup UNION {window[q] : q \in Sharing(r)}
               ELSE {}]

----------------------------------------------------------------------------
StoreInit ==
  /\ Init
  /\ inflight = [a \in Apps |-> NoCell]
  /\ cell = [r \in Requests |-> NoCell]
  /\ outcome = [c \in Cells |-> Pending]
  /\ ttl = IF cache = NoUrl THEN 0 ELSE FullTtl
  /\ window = [r \in Requests |-> {}]

Arrive(r) ==
  /\ \/ r \in Writers /\ \E url \in Urls : Shorten(r, url) \/ Update(r, url)
     \/ r \in Writers /\ Delete(r)
     \/ Resolve(r)
  /\ UNCHANGED <<cells, ttl>>

Step(r) ==
  \/ Get(r) \/ Extend(r) \/ FilterCheck(r)
  \/ Join(r) \/ Await(r) \/ Finish(r) \/ Leave(r)
  \/ ProtocolStep(r, "finish") /\ TtlFollows(r) /\ UNCHANGED cells

Next ==
  /\ \/ \E r \in Requests : Arrive(r) \/ Step(r) \/ Abandon(r)
     \/ Tick
     \/ Evict
     \/ ExpireLease /\ UNCHANGED <<cells, ttl>>
  /\ Observe

Spec == StoreInit /\ [][Next]_allvars

(* As in LeasedStore; besides, TTLs run down. *)
Fairness == /\ \A r \in Requests : WF_allvars(Step(r) /\ Observe)
            /\ WF_allvars(ExpireLease /\ UNCHANGED <<cells, ttl>> /\ Observe)
            /\ WF_allvars(Tick /\ Observe)

LiveSpec == Spec /\ Fairness

----------------------------------------------------------------------------
TypeOK ==
  /\ row \in Urls \cup {NoUrl}
  /\ cache \in Urls \cup {NoUrl}
  /\ lease \in Requests \cup {Free}
  /\ stage \in Stages
  /\ pc \in [Requests -> Steps]
  /\ val \in [Requests -> Urls \cup {NoUrl, Ok, Err}]
  /\ committed \subseteq Urls
  /\ absent \subseteq Requests
  /\ inflight \in [Apps -> Cells \cup {NoCell}]
  /\ cell \in [Requests -> Cells \cup {NoCell}]
  /\ outcome \in [Cells -> Urls \cup {NoUrl, Pending}]
  /\ ttl \in 0 .. FullTtl
  /\ window \in [Requests -> SUBSET (Urls \cup {NoUrl})]

(* A cell that is initialised can be found in the map only while the one   *)
(* that filled it is about to remove it: no code's value is ever frozen.   *)
NoFrozenCell ==
  \A a \in Apps :
    inflight[a] # NoCell /\ outcome[inflight[a]] # Pending =>
      \E r \in Requests : pc[r] = "leave" /\ cell[r] = inflight[a]

(* A redirect is answered with something that row or cache has shown since *)
(* the oldest request sharing its cell arrived; followers may get a value  *)
(* older than themselves, but none older than the flight they have joined. *)
AnswersFromTheFlight ==
  [][\A r \in Requests :
       KindOf(pc[r]) = "resolve" /\ Active(r) /\ pc'[r] = "done" /\ val'[r] # Err
         => val'[r] \in window[r]]_allvars

(* The claim of resolve_miss_coalesced's comment: all concurrent calls of  *)
(* one process share one resolve_miss.  It fails: see the README.          *)
OneFlightPerProcess ==
  \A q, r \in Requests : Runs(q) /\ Runs(r) /\ AppOf[q] = AppOf[r] => q = r

(* If requests for the code stop arriving, every request in flight ends:   *)
(* no follower waits forever for a runner that has failed or is gone.      *)
EveryRequestEnds ==
  <>[][\A r \in Requests : ~Arrive(r)]_allvars =>
    \A r \in Requests : Active(r) ~> ~Active(r)

(* An entry that a failed DEL has left behind is gone within a TTL of the  *)
(* last request: the keep-alive only ever lengthens the life of an entry   *)
(* by a bounded time.                                                      *)
StaleEntryExpires ==
  <>[][\A r \in Requests : ~Arrive(r)]_allvars =>
    (cache \notin {NoUrl, row}) ~> (cache \in {NoUrl, row})
============================================================================
