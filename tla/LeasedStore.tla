---------------------------- MODULE LeasedStore ----------------------------
(***************************************************************************)
(* The store of tier 4.3 for one short code: LeaseProtocol plus resolve,   *)
(* which asks Redis, then the Bloom filter, then resolve_miss.             *)
(***************************************************************************)
EXTENDS LeaseProtocol

Steps == ShortenSteps \cup WriteSteps \cup MissSteps
           \cup {"get", "filter_check", "done", "dropped"}

(* A request outside is_valid's code alphabet is answered without any      *)
(* command; the code of this model is one that base62::encode returned.    *)
Resolve(r) ==
  /\ CodeKnown
  /\ Start(r, "get", NoUrl)
  /\ UNCHANGED <<row, cache, lease, stage, committed>>

Get(r) ==
  /\ pc[r] = "get"
  /\ \/ cache # NoUrl /\ Reply(r, cache)
     \/ cache = NoUrl /\ Goto(r, "filter_check", NoUrl)
     \/ RedisFails(r) /\ Goto(r, "read", NoUrl)
  /\ UNCHANGED <<row, cache, lease, stage, committed, absent>>

FilterCheck(r) ==
  /\ pc[r] = "filter_check"
  /\ \/ FilterMayDeny /\ Reply(r, NoUrl)
     \/ Goto(r, "miss_get", NoUrl)
     \/ RedisFails(r) /\ Goto(r, "read", NoUrl)
  /\ UNCHANGED <<row, cache, lease, stage, committed, absent>>

Step(r) == Get(r) \/ FilterCheck(r) \/ ProtocolStep(r, "done")

Arrive(r) ==
  \/ \E url \in Urls : Shorten(r, url) \/ Update(r, url)
  \/ Delete(r)
  \/ Resolve(r)

Next ==
  \/ \E r \in Requests : Arrive(r) \/ Step(r) \/ Cancel(r)
  \/ ExpireCache
  \/ ExpireLease

Spec == Init /\ [][Next]_vars

----------------------------------------------------------------------------
TypeOK ==
  /\ row \in Urls \cup {NoUrl}
  /\ cache \in Urls \cup {NoUrl}
  /\ lease \in Requests \cup {Free}
  /\ stage \in Stages
  /\ pc \in [Requests -> Steps]
  /\ val \in [Requests -> Urls \cup {NoUrl, Ok, Err}]
  /\ committed \subseteq Urls
  /\ absent \subseteq Requests

----------------------------------------------------------------------------
(* The link a client sees: the entry, and without one the row.  A change   *)
(* becomes visible when the old entry goes, by the DEL or on its own.      *)
View == IF cache # NoUrl THEN cache ELSE row

PhaseOf(r) ==
  CASE pc[r] \in {"filter_add", "insert"}      -> "create"
    [] pc[r] \in {"write_lease", "write_query"} -> "change"
    [] pc[r] = "invalidate"                     -> IF cache = NoUrl THEN "effected" ELSE "change"
    [] pc[r] = "write_through"                  -> "effected"
    [] pc[r] = "write_release"                  -> IF val[r] = Ok THEN "effected" ELSE "ended"
    [] pc[r] \in {"get", "filter_check", "read", "miss_get", "miss_lease", "select"} -> "read"
    [] OTHER                                    -> "ended"

ValueOf(r) ==
  CASE pc[r] = "write_through" -> Ok
    [] pc[r] = "invalidate"    -> IF cache = NoUrl THEN Ok ELSE row
    [] pc[r] = "dropped"       -> Err
    [] OTHER                   -> val[r]

Link == INSTANCE AtomicLink WITH
          link <- View,
          born <- committed # {},
          phase <- [r \in Requests |-> PhaseOf(r)],
          value <- [r \in Requests |-> ValueOf(r)],
          Anticipates <- TRUE

(* Cache, lease and filter are invisible: the store behaves like one link  *)
(* that every request reads or changes in a single step.  Only a read that *)
(* falls back to Postgres, or that the filter denies after a cache miss,   *)
(* may run ahead of an invalidation still to come.                         *)
ImplementsLink == Link!LinkSpec
============================================================================
