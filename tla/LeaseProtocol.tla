--------------------------- MODULE LeaseProtocol ---------------------------
(***************************************************************************)
(* The part of the store that tiers 4.3 and 4.4 share: shorten, update,    *)
(* delete and resolve_miss, for ONE short code.  Every operation touches   *)
(* the keys of a single code, so requests for other codes never interfere. *)
(*                                                                         *)
(* A request is an HTTP handler running one async fn of Store.  One step   *)
(* of a request is one command to Redis or Postgres together with the      *)
(* local computation up to the next await; the servers execute commands    *)
(* one at a time.  A command that fails may or may not have taken effect,  *)
(* and a handler may be dropped (the client went away) at any await.       *)
(*                                                                         *)
(* This module holds the state and the actions; LeasedStore adds the       *)
(* resolve of tier 4.3 and the specification.                              *)
(***************************************************************************)

CONSTANTS
  Requests,        \* identities of concurrent HTTP requests
  Urls,            \* long URLs
  NoUrl,           \* None: no such row, no such cache entry, "not found"
  Ok, Err,         \* replies of writes; Err is a 500
  Free,            \* the value of lease when lease:{code} does not exist
  LapseAt,         \* the guarded steps at which a holder may be so slow that
                   \* lease:{code} vanishes under it
  CodesGuessable,  \* may a client use a code before shorten has returned it?
  RedisFaults,     \* kinds of request whose Redis commands may fail
  PostgresFaults,  \* kinds of request whose Postgres commands may fail
  Cancels          \* kinds of request that may be dropped half way

Kinds == {"shorten", "write", "resolve"}

ASSUME NamesDiffer ==
  /\ NoUrl \notin Urls \cup {Ok, Err}
  /\ Ok \notin Urls \cup {Err}
  /\ Err \notin Urls
  /\ Free \notin Requests
ASSUME GuessableIsBoolean == CodesGuessable \in BOOLEAN
ASSUME FaultsAreKinds == RedisFaults \cup PostgresFaults \cup Cancels \subseteq Kinds

VARIABLES
  row,        \* links.long_url in Postgres, NoUrl when there is no row
  cache,      \* the Redis key {code}
  lease,      \* the request whose SET NX created lease:{code}, or Free; the
              \* code stores 1 there and its DEL never looks at the holder
  stage,      \* what has become of the code, one of Stages
  pc, val,    \* per request: next command; argument, later the reply
  committed,  \* history: every URL the row has ever held
  absent      \* history: requests during which the row was missing at some time

vars == <<row, cache, lease, stage, pc, val, committed, absent>>

----------------------------------------------------------------------------
Stages == {"unminted", "minted", "in_filter", "public"}

ShortenSteps == {"filter_add", "insert", "write_through"}
WriteSteps   == {"write_lease", "write_query", "invalidate", "write_release"}
MissSteps    == {"read", "miss_get", "miss_lease", "select", "populate", "miss_release"}

(* The steps a request only takes after a SET NX of its own has succeeded. *)
Guarded == {"write_query", "invalidate", "write_release",
            "select", "populate", "miss_release"}

KindOf(step) == CASE step \in ShortenSteps -> "shorten"
                  [] step \in WriteSteps   -> "write"
                  [] OTHER                 -> "resolve"

Active(r) == pc[r] \notin {"done", "dropped"}

Goto(r, step, v) == /\ pc' = [pc EXCEPT ![r] = step]
                    /\ val' = [val EXCEPT ![r] = v]

Reply(r, v) == Goto(r, "done", v)

RedisFails(r)    == KindOf(pc[r]) \in RedisFaults
PostgresFails(r) == KindOf(pc[r]) \in PostgresFaults

(* History is updated together with every write of the row. *)
KeepCommitted == committed' = committed \cup ({row'} \ {NoUrl})
KeepAbsent == absent' = IF row' = NoUrl THEN absent \cup {q \in Requests : Active(q)}
                                        ELSE absent

(* A handler starts; r becomes the identity of a fresh request. *)
Start(r, step, v) ==
  /\ ~Active(r)
  /\ Goto(r, step, v)
  /\ absent' = IF row = NoUrl THEN absent \cup {r} ELSE absent \ {r}

(* A client can only name a code it has been given, unless it guesses one. *)
CodeKnown == CodesGuessable \/ stage = "public"

----------------------------------------------------------------------------
(* shorten: the filter before the INSERT, the cache after it. *)

(* nextval hands out a code once; a failed nextval changes nothing here. *)
Shorten(r, url) ==
  /\ stage = "unminted"
  /\ stage' = "minted"
  /\ Start(r, "filter_add", url)
  /\ UNCHANGED <<row, cache, lease, committed>>

(* Mutant: the code never reaches the filter. *)
FilterAddForgotten(r) ==
  /\ pc[r] = "filter_add"
  /\ Goto(r, "insert", val[r])
  /\ UNCHANGED <<row, cache, lease, stage, committed, absent>>

FilterAdd(r) ==
  /\ pc[r] = "filter_add"
  /\ \/ /\ stage' = "in_filter"
        /\ Goto(r, "insert", val[r])
     \/ /\ RedisFails(r)
        /\ stage' \in {stage, "in_filter"}
        /\ Reply(r, Err)
  /\ UNCHANGED <<row, cache, lease, committed, absent>>

(* Mutant: the cache is written although the INSERT has failed. *)
InsertErrorIgnored(r) ==
  /\ pc[r] = "insert"
  /\ row' \in {row, val[r]}
  /\ Goto(r, "write_through", val[r])
  /\ KeepCommitted
  /\ KeepAbsent
  /\ UNCHANGED <<cache, lease, stage>>

Insert(r) ==
  /\ pc[r] = "insert"
  /\ \/ /\ row' = val[r]
        /\ Goto(r, "write_through", val[r])
     \/ /\ PostgresFails(r)
        /\ row' \in {row, val[r]}
        /\ Reply(r, Err)
  /\ KeepCommitted
  /\ KeepAbsent
  /\ UNCHANGED <<cache, lease, stage>>

WriteThrough(r) ==
  /\ pc[r] = "write_through"
  /\ \/ /\ cache' = val[r]
        /\ stage' = "public"
        /\ Reply(r, Ok)
     \/ /\ RedisFails(r)
        /\ cache' \in {cache, val[r]}
        /\ Reply(r, Err)
        /\ UNCHANGED stage
  /\ UNCHANGED <<row, lease, committed, absent>>

----------------------------------------------------------------------------
(* update and delete: write_and_invalidate with an UPDATE or a DELETE. *)

Update(r, url) ==
  /\ CodeKnown
  /\ Start(r, "write_lease", url)
  /\ UNCHANGED <<row, cache, lease, stage, committed>>

Delete(r) ==
  /\ CodeKnown
  /\ Start(r, "write_lease", NoUrl)
  /\ UNCHANGED <<row, cache, lease, stage, committed>>

(* Mutant: SET without NX. *)
TakeLeaseNoNX(r) == lease' = r

(* SET lease:{code} 1 NX EX: taken only while the key does not exist. *)
TakeLease(r) == lease = Free /\ lease' = r

(* The same command failing: the key may have been created all the same. *)
TakeLeaseFails(r) ==
  /\ RedisFails(r)
  /\ lease' \in IF lease = Free THEN {Free, r} ELSE {lease}

(* Mutant: tier 4.2's PATCH, which takes no lease. *)
WriteWithoutLease(r) ==
  /\ pc[r] = "write_lease"
  /\ Goto(r, "write_query", val[r])
  /\ UNCHANGED <<row, cache, lease, stage, committed, absent>>

(* Finding the lease taken, the loop sleeps and tries again: no change. *)
WriteLease(r) ==
  /\ pc[r] = "write_lease"
  /\ \/ TakeLease(r) /\ Goto(r, "write_query", val[r])
     \/ TakeLeaseFails(r) /\ Reply(r, Err)
  /\ UNCHANGED <<row, cache, stage, committed, absent>>

(* Only a row that was there needs the DEL; an error skips it. *)
WriteQuery(r) ==
  /\ pc[r] = "write_query"
  /\ \/ /\ row # NoUrl
        /\ row' = val[r]
        /\ Goto(r, "invalidate", Ok)
     \/ /\ row = NoUrl
        /\ UNCHANGED row
        /\ Goto(r, "write_release", NoUrl)
     \/ /\ PostgresFails(r)
        /\ row' \in IF row = NoUrl THEN {NoUrl} ELSE {row, val[r]}
        /\ Goto(r, "write_release", Err)
  /\ KeepCommitted
  /\ KeepAbsent
  /\ UNCHANGED <<cache, lease, stage>>

Invalidate(r) ==
  /\ pc[r] = "invalidate"
  /\ \/ /\ cache' = NoUrl
        /\ Goto(r, "write_release", Ok)
     \/ /\ RedisFails(r)
        /\ cache' \in {cache, NoUrl}
        /\ Goto(r, "write_release", Err)
  /\ UNCHANGED <<row, lease, stage, committed, absent>>

(* DEL lease:{code}, whoever holds it; its failure replaces the outcome. *)
WriteRelease(r) ==
  /\ pc[r] = "write_release"
  /\ \/ lease' = Free /\ Reply(r, val[r])
     \/ RedisFails(r) /\ lease' \in {lease, Free} /\ Reply(r, Err)
  /\ UNCHANGED <<row, cache, stage, committed, absent>>

(* The filter may say "no" of a code that has not been added, and, after a *)
(* rebuild, of one without a row; it may say "maybe" of any code.  That it *)
(* keeps to this, but for straddled shortens, is BloomJob's matter.        *)
FilterMayDeny ==
  \/ stage \in {"unminted", "minted"}
  \/ row = NoUrl /\ \A q \in Requests : pc[q] # "insert"

----------------------------------------------------------------------------
(* resolve_miss and read_postgres.  ret is the step at which the caller    *)
(* goes on once they return.                                               *)

(* Mutant: the fallback read writes its value back, without a lease. *)
ReadPostgresWritesBack(r, ret) ==
  /\ pc[r] = "read"
  /\ IF row # NoUrl THEN Goto(r, "populate", row) ELSE Goto(r, ret, NoUrl)
  /\ UNCHANGED <<row, cache, lease, stage, committed, absent>>

ReadPostgres(r, ret) ==
  /\ pc[r] = "read"
  /\ \/ Goto(r, ret, row)
     \/ PostgresFails(r) /\ Goto(r, ret, Err)
  /\ UNCHANGED <<row, cache, lease, stage, committed, absent>>

MissGet(r, ret) ==
  /\ pc[r] = "miss_get"
  /\ \/ cache # NoUrl /\ Goto(r, ret, cache)
     \/ cache = NoUrl /\ Goto(r, "miss_lease", NoUrl)
     \/ RedisFails(r) /\ Goto(r, "read", NoUrl)
  /\ UNCHANGED <<row, cache, lease, stage, committed, absent>>

(* Mutant: a failure to take the lease is passed on with "?". *)
MissLeaseErrorReturned(r) ==
  /\ pc[r] = "miss_lease"
  /\ \/ TakeLease(r) /\ Goto(r, "select", NoUrl)
     \/ lease # Free /\ Goto(r, "miss_get", NoUrl) /\ UNCHANGED lease
     \/ TakeLeaseFails(r) /\ Reply(r, Err)
  /\ UNCHANGED <<row, cache, stage, committed, absent>>

MissLease(r) ==
  /\ pc[r] = "miss_lease"
  /\ \/ TakeLease(r) /\ Goto(r, "select", NoUrl)
     \/ lease # Free /\ Goto(r, "miss_get", NoUrl) /\ UNCHANGED lease
     \/ TakeLeaseFails(r) /\ Goto(r, "read", NoUrl)
  /\ UNCHANGED <<row, cache, stage, committed, absent>>

(* Mutant: whatever the SELECT yields is cached, its failure too. *)
SelectCachesErrors(r) ==
  /\ pc[r] = "select"
  /\ \/ Goto(r, "populate", row)
     \/ PostgresFails(r) /\ Goto(r, "populate", Err)
  /\ UNCHANGED <<row, cache, lease, stage, committed, absent>>

(* rebuild: the SELECT, and on a hit the SET; a genuine miss is not cached. *)
Select(r) ==
  /\ pc[r] = "select"
  /\ \/ row # NoUrl /\ Goto(r, "populate", row)
     \/ row = NoUrl /\ Goto(r, "miss_release", NoUrl)
     \/ PostgresFails(r) /\ Goto(r, "miss_release", Err)
  /\ UNCHANGED <<row, cache, lease, stage, committed, absent>>

Populate(r) ==
  /\ pc[r] = "populate"
  /\ \/ cache' = val[r]
     \/ RedisFails(r) /\ cache' \in {cache, val[r]}
  /\ Goto(r, "miss_release", val[r])
  /\ UNCHANGED <<row, lease, stage, committed, absent>>

MissRelease(r, ret) ==
  /\ pc[r] = "miss_release"
  /\ \/ lease' = Free
     \/ RedisFails(r) /\ lease' \in {lease, Free}
  /\ Goto(r, ret, val[r])
  /\ UNCHANGED <<row, cache, stage, committed, absent>>

----------------------------------------------------------------------------
(* Redis and the clients, on their own. *)

(* The TTL of the entry runs out, or volatile-lfu evicts it. *)
ExpireCache ==
  /\ cache # NoUrl
  /\ cache' = NoUrl
  /\ UNCHANGED <<row, lease, stage, pc, val, committed, absent>>

(* Mutant: the lease is set without EX. *)
LeaseWithoutTTL == FALSE /\ UNCHANGED vars

(* EX 5 runs out, or volatile-lfu evicts the key.  A working holder is     *)
(* quicker than that, except at the steps in LapseAt.                      *)
ExpireLease ==
  /\ lease # Free
  /\ pc[lease] \in Guarded => pc[lease] \in LapseAt
  /\ lease' = Free
  /\ UNCHANGED <<row, cache, stage, pc, val, committed, absent>>

(* The server drops the future of a handler whose client has disconnected: *)
(* nothing after its current await runs, the release of the lease included.*)
Cancel(r) ==
  /\ Active(r)
  /\ KindOf(pc[r]) \in Cancels
  /\ pc' = [pc EXCEPT ![r] = "dropped"]
  /\ UNCHANGED <<row, cache, lease, stage, val, committed, absent>>

----------------------------------------------------------------------------
(* A fresh code about to be minted, or a link that already exists. *)
Init ==
  /\ lease = Free
  /\ pc = [r \in Requests |-> "done"]
  /\ val = [r \in Requests |-> Ok]
  /\ absent = {}
  /\ \/ stage = "unminted" /\ row = NoUrl /\ cache = NoUrl /\ committed = {}
     \/ /\ stage = "public"
        /\ row \in Urls
        /\ cache \in {row, NoUrl}
        /\ committed = {row}

ProtocolStep(r, ret) ==
  \/ FilterAdd(r) \/ Insert(r) \/ WriteThrough(r)
  \/ WriteLease(r) \/ WriteQuery(r) \/ Invalidate(r) \/ WriteRelease(r)
  \/ ReadPostgres(r, ret)
  \/ MissGet(r, ret) \/ MissLease(r) \/ Select(r) \/ Populate(r) \/ MissRelease(r, ret)

----------------------------------------------------------------------------
(* What the protocol is for; each store says which of these it keeps. *)

(* Neither the cache nor a reply ever shows a URL that Postgres never held *)
(* for this code, whatever fails: the reason shorten caches after INSERT.  *)
NeverInvented ==
  /\ cache \in committed \cup {NoUrl}
  /\ \A r \in Requests : pc[r] = "done" /\ val[r] \in Urls => val[r] \in committed

(* "Not found" is only said of a link that was missing from Postgres at    *)
(* some moment of the request: a stale redirect is acceptable, a dead link *)
(* is not.  Holds under every fault and with lapsing leases.               *)
NoDeadLink ==
  \A r \in Requests : pc[r] = "done" /\ val[r] = NoUrl => r \in absent

(* While Postgres works, no failure of Redis makes a redirect fail.        *)
ReadsSurviveRedis ==
  [][\A r \in Requests :
       KindOf(pc[r]) = "resolve" /\ Active(r) /\ pc'[r] = "done" => val'[r] # Err]_vars

(* A request between its SET NX and its DEL is the holder of lease:{code}, *)
(* so writers and rebuilds of one code exclude one another.                *)
GuardedHoldLease == \A r \in Requests : pc[r] \in Guarded => lease = r

(* An entry that differs from the row has a writer on its way to delete it.*)
Coherent ==
  cache \in {NoUrl, row} \/ \E w \in Requests : pc[w] = "invalidate"

(* Whatever is put into the cache is what Postgres holds at that moment: a *)
(* rebuild never puts back a value an update has replaced.                 *)
NoStaleFill == [][cache' \in {cache, NoUrl, row}]_vars
============================================================================
