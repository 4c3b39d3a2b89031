----------------------------- MODULE CacheAside -----------------------------
(***************************************************************************)
(* The stores of tiers 1, 3, 4.1 and 4.2 for one short code.  No link is   *)
(* ever changed or removed here, and nothing coordinates those who fill    *)
(* the cache.  row is the link wherever the tier keeps it: in the HashMap  *)
(* of tier 1, in Postgres from tier 3 on.                                  *)
(***************************************************************************)
EXTENDS LeaseProtocol

VARIABLE tier  \* the program that runs; it never changes

Tiers == {"1", "3", "4.1", "4.2"}
Cached == {"4.1", "4.2"}

asidevars == <<vars, tier>>

----------------------------------------------------------------------------
(* shorten.  A counter value or a nextval is handed out once. *)

Mint(r, url) ==
  /\ stage = "unminted"
  /\ stage' = "minted"
  /\ Start(r, IF tier = "4.2" THEN "filter_add" ELSE "insert", url)
  /\ UNCHANGED <<row, cache, lease, committed>>

(* Tier 1: all of shorten runs under the mutex, and HashMap::insert does   *)
(* not fail.                                                               *)
InsertLocked(r) ==
  /\ pc[r] = "insert"
  /\ row' = val[r]
  /\ stage' = "public"
  /\ Reply(r, Ok)
  /\ KeepCommitted /\ KeepAbsent
  /\ UNCHANGED <<cache, lease>>

(* Tier 3: the INSERT is the last command. *)
InsertLast(r) ==
  /\ pc[r] = "insert"
  /\ \/ row' = val[r] /\ stage' = "public" /\ Reply(r, Ok)
     \/ PostgresFails(r) /\ row' \in {row, val[r]} /\ Reply(r, Err) /\ UNCHANGED stage
  /\ KeepCommitted /\ KeepAbsent
  /\ UNCHANGED <<cache, lease>>

(* Tiers 4.1 and 4.2 go on to the cache: Insert and WriteThrough of        *)
(* LeaseProtocol.                                                          *)

----------------------------------------------------------------------------
(* resolve.  valid is the verdict of is_valid, which tier 4.2 asks first.  *)

Resolve(r) ==
  /\ CodeKnown
  /\ Start(r, IF tier \in Cached THEN "get" ELSE "read", NoUrl)
  /\ UNCHANGED <<row, cache, lease, stage, committed>>

Lookup(r) ==
  /\ pc[r] = "read"
  /\ Reply(r, row)
  /\ UNCHANGED <<row, cache, lease, stage, committed, absent>>

Get(r, valid) ==
  /\ pc[r] = "get"
  /\ \/ tier = "4.2" /\ ~valid /\ Reply(r, NoUrl)
     \/ /\ tier = "4.2" => valid
        /\ \/ cache # NoUrl /\ Reply(r, cache)
           \/ cache = NoUrl /\ tier = "4.1" /\ Goto(r, "select", NoUrl)
           \/ cache = NoUrl /\ tier = "4.2" /\ Goto(r, "filter_check", NoUrl)
           \/ RedisFails(r) /\ Goto(r, "read", NoUrl)
  /\ UNCHANGED <<row, cache, lease, stage, committed, absent>>

FilterCheck(r) ==
  /\ pc[r] = "filter_check"
  /\ \/ FilterMayDeny /\ Reply(r, NoUrl)
     \/ Goto(r, "select", NoUrl)
     \/ RedisFails(r) /\ Goto(r, "read", NoUrl)
  /\ UNCHANGED <<row, cache, lease, stage, committed, absent>>

(* Mutant: whatever the SELECT yields is cached, its failure too. *)
RebuildCachesErrors(r) ==
  /\ pc[r] = "select"
  /\ \/ Goto(r, "populate", row)
     \/ PostgresFails(r) /\ Goto(r, "populate", Err)
  /\ UNCHANGED <<row, cache, lease, stage, committed, absent>>

(* rebuild: the SELECT, and on a hit the SET, whose failure is only logged. *)
RebuildQuery(r) ==
  /\ pc[r] = "select"
  /\ \/ row # NoUrl /\ Goto(r, "populate", row)
     \/ row = NoUrl /\ Reply(r, NoUrl)
     \/ PostgresFails(r) /\ Reply(r, Err)
  /\ UNCHANGED <<row, cache, lease, stage, committed, absent>>

RebuildSet(r) ==
  /\ pc[r] = "populate"
  /\ \/ cache' = val[r]
     \/ RedisFails(r) /\ cache' \in {cache, val[r]}
  /\ Reply(r, val[r])
  /\ UNCHANGED <<row, lease, stage, committed, absent>>

----------------------------------------------------------------------------
AsideInit ==
  /\ Init
  /\ tier \in Tiers
  /\ tier \notin Cached => cache = NoUrl

AsideArrive(r) == (\E url \in Urls : Mint(r, url)) \/ Resolve(r)

NaiveStep(r) == tier = "1" /\ (InsertLocked(r) \/ Lookup(r))

PersistentStep(r) == tier = "3" /\ (InsertLast(r) \/ ReadPostgres(r, "done"))

CachedStep(r, valid) ==
  /\ tier \in Cached
  /\ \/ FilterAdd(r) \/ Insert(r) \/ WriteThrough(r)
     \/ Get(r, valid) \/ FilterCheck(r) \/ ReadPostgres(r, "done")
     \/ RebuildQuery(r) \/ RebuildSet(r)

(* Tier 1 has no await at which a handler could be dropped. *)
AsideNext(valid) ==
  /\ \/ \E r \in Requests :
          \/ AsideArrive(r)
          \/ NaiveStep(r) \/ PersistentStep(r) \/ CachedStep(r, valid)
          \/ tier # "1" /\ Cancel(r)
     \/ ExpireCache
  /\ UNCHANGED tier

----------------------------------------------------------------------------
AsideTypeOK ==
  /\ tier \in Tiers
  /\ row \in Urls \cup {NoUrl}
  /\ cache \in IF tier \in Cached THEN Urls \cup {NoUrl} ELSE {NoUrl}
  /\ lease = Free
  /\ stage \in IF tier = "4.2" THEN Stages ELSE Stages \ {"in_filter"}
  /\ pc \in [Requests -> {"filter_add", "insert", "write_through", "get", "filter_check",
                          "read", "select", "populate", "done", "dropped"}]
  /\ val \in [Requests -> Urls \cup {NoUrl, Ok, Err}]
  /\ committed \subseteq Urls
  /\ absent \subseteq Requests

(* What each request amounts to on the link; a rebuild has read the link   *)
(* by the time it sends its SET.                                           *)
PhaseOf(r) ==
  CASE pc[r] \in {"filter_add", "insert"}                  -> "create"
    [] pc[r] = "write_through"                             -> "effected"
    [] pc[r] \in {"get", "filter_check", "read", "select"} -> "read"
    [] OTHER                                               -> "ended"

ValueOf(r) == CASE pc[r] = "write_through" -> Ok
                [] pc[r] = "dropped"       -> Err
                [] OTHER                   -> val[r]

Link == INSTANCE AtomicLink WITH
          link <- row,
          born <- committed # {},
          phase <- [r \in Requests |-> PhaseOf(r)],
          value <- [r \in Requests |-> ValueOf(r)],
          Anticipates <- FALSE

(* Each of these tiers behaves like one link that is created once and then *)
(* read, under every failure: filling the cache without coordination is    *)
(* harmless since all who fill it write the one value the link ever has.   *)
ImplementsLink == Link!LinkSpec
=============================================================================
