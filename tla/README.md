# URL shortener: TLA+ models and proofs

Models, model checks and machine-checked proofs of the URL shortener in this
repository: every store from tier 1 to tier 4.4, the codec, and the Bloom filter with
its job. What they add up to is one question: do Postgres, Redis, a lease, a filter, an
object store and the processes' own memory agree on what a short code means?

| Module | What it holds |
|---|---|
| `AtomicLink` | the abstract specification: one link that every request reads or changes in one step |
| `LeaseProtocol` | `shorten`, `update`, `delete`, `resolve_miss` for one code: state and actions tiers 4.3 and 4.4 share |
| `LeasedStore` | the store of tier 4.3: `LeaseProtocol` plus `resolve`; implements `AtomicLink` |
| `CoalescedStore` | the store of tier 4.4 in several processes: `LeaseProtocol` plus keep-alive and singleflight |
| `CacheAside` | the stores of tiers 1, 3, 4.1 and 4.2; implements `AtomicLink` |
| `Base62` | `encode`, `decode`, `is_valid`, for any base and word size |
| `EarlyTiers` | `Base62` and `CacheAside` put together |
| `BloomJob` | the Bloom filter, its maintenance job, its snapshots (`bloom.rs`), next to shortens and deletes |
| `MCLeasedStore`, `MCCoalescedStore`, `MCEarlyTiers`, `MCBloomJob` | TLC instances; the constants are in the `.cfg` files |
| `LeasedStoreProofs`, `LeasedLinkProofs`, `CoalescedStoreProofs`, `CoalescedFlightProofs`, `CoalescedLeaseProofs`, `Base62Proofs`, `EarlyTiersProofs`, `BloomJobProofs` | inductive invariants and theorems, checked by `tlapm` |

`tlc -workers 4 -config LeasedFaults.cfg MCLeasedStore.tla` runs a check (the
run's name in `PROJECT.json` gives module and cfg), `tlapm LeasedStoreProofs.tla`
checks proofs.

## 1. Inventory

The repository is a class in tiers; each tier is a complete program, a copy of
the one before plus one idea.

| Part | State | Operations | Talks to |
|---|---|---|---|
| Tier 1 `store.rs` | map code -> URL, counter, behind one mutex | shorten, resolve | base62 |
| Tier 3 `store.rs` | table `links`, sequence `link_ids` | shorten (nextval, INSERT), resolve (SELECT) | Postgres |
| Tiers 4.1/4.2 `store.rs` | the above plus Redis keys `{code}` with a TTL | shorten (INSERT, SET), resolve (GET, filter, SELECT, SET) | Postgres, Redis |
| Tier 4.3 `store.rs` | plus `lease:{code}` | plus update and delete (lease, write, DEL, release) and the leased `resolve_miss` | Postgres, Redis |
| Tier 4.4 `store.rs` | plus the process-local `inflight` map of `OnceCell`s; TTLs | resolve rolls for `EXPIRE`, misses are coalesced | Postgres, Redis, other requests of the process |
| Tiers 4.2-4.4 `bloom.rs` | `codes_bloom`, `bloom:ready`, `bloom:building:{id}`, `codes_bloom:restoring:{id}`, table `bloom_snapshots`, objects `bloom/{id}/{iter}`, an advisory lock | add, might_exist, and a job each minute: recover (restore, scan, publish) or add_recent and save_snapshot | Postgres, Redis, object store |
| `base62.rs` | none | encode, decode (tier 1), is_valid (4.2 on) | - |
| `main.rs` | none | maps results to 201/204/307/404/500 | store |
| `config.rs`, migrations, docker-compose, demo | configuration | - | - |

**Interactions.** Handlers are async functions on one runtime; several processes
may share the servers. All coordination is through single commands: Postgres
statements, Redis commands (atomic one by one; `might_exist` and tier 4.4's GET+TTL
are MULTI blocks), `pg_try_advisory_xact_lock`. Between any two awaits anything can
run, a command may fail before or after its effect, and axum drops a handler
whose client has gone.

**What is hard.** No transaction spans Postgres and Redis, so the order of the
writes and the lease carry all the correctness of the cache. The lease is not
fenced and has a TTL. Singleflight passes the right to rebuild on from a request that
fails or is dropped, and every follower removes the map's entry, its own or a newer one.
The filter must never say "no" of a link, though adding to
it, the INSERT, the job's scans, snapshots, flushes and crashes interleave. The
full list, each at its line, is under `hazards` in `PROJECT.json`.

**What makes each part correct.**

- cache protocol: nothing is invented, no link is denied, a redirect survives Redis;
  fills are fresh and entries coherent as long as the lease does its job; nothing
  waits forever;
- filter: a ready filter is complete, a snapshot loses nothing, trouble heals;
- one link: all this machinery is invisible, and a client sees a link that is read and
  changed in single steps (`AtomicLink`);
- singleflight: no value frozen in the map, no reply older than the
  flight it belongs to, no follower that waits forever;
- keep-alive: it cannot keep a stale entry alive for good;
- early tiers: uncoordinated rebuilds are harmless while no link changes;
- codec: injective, decode inverts encode, overflow is exact, minted codes are valid.

## 2. Cache protocol: `LeaseProtocol`, `LeasedStore`

Every operation touches the keys of one code only, so one code is the whole story:

| Variable | Code |
|---|---|
| `row` | `links.long_url`, `NoUrl` without a row |
| `cache` | Redis key `{code}` |
| `lease` | `lease:{code}`; the program stores 1, the model remembers who created it |
| `stage` | how far the code has come: minted, in the filter, returned |
| `pc`, `val` | per request, the next command and its data; a request is `done` or `dropped` at the end, and its identity is then used for another |
| `committed`, `absent` | history: URLs the row has held; requests that have seen the row missing at some moment |

One action is one command with the local code up to the next await:

| Code | Actions |
|---|---|
| `shorten` | `Shorten`, `FilterAdd`, `Insert`, `WriteThrough` |
| `update`, `delete`, `write_and_invalidate` | `Update`, `Delete`, `WriteLease`, `WriteQuery`, `Invalidate`, `WriteRelease` |
| `resolve` (4.3) | `Resolve`, `Get`, `FilterCheck` |
| `resolve_miss`, `rebuild`, `read_postgres` | `MissGet`, `MissLease`, `Select`, `Populate`, `MissRelease`, `ReadPostgres` |
| TTLs, volatile-lfu | `ExpireCache`, `ExpireLease` |
| the client hangs up | `Cancel` |

Each action has the failing outcomes of its command as disjuncts, with and without
the effect. `RedisFaults`, `PostgresFaults` and `Cancels` say which kinds of request
they are enabled for; `LapseAt` at which steps a lease may run out under its holder;
`CodesGuessable` whether a client may name a code that has not been returned (codes
are sequential, so it may).

**Abstractions.** URLs are model values. A failed command takes effect, if at all,
before its error returns. A failed `nextval` changes nothing. `is_valid` answers
without a command and accepts every minted code. No code sets `expires_at`. The
filter is reduced to its promise (`FilterMayDeny`): "no" only for a code never added
or, as after a rebuild, for one that has neither a row nor an INSERT to come.
`BloomJob` checks that promise, and section 5 lists where it is broken. Metrics, logging and
the demo delay are left out; the 50 ms sleeps are stuttering.

**Runs.**

| Run | Bounds and assumptions | Shows |
|---|---|---|
| `leased_faults` | 3 requests, 2 URLs; all Redis faults, drops, lapses, guessed codes; Postgres fails for writes | `NeverInvented`, `NoDeadLink`, `ReadsSurviveRedis` |
| `leased_coherent` | 4 requests, 2 URLs; no lapse, no guess; faults in shorten and resolve | `TypeOK`, `GuardedHoldLease`, `Coherent`, `NoStaleFill`, `ImplementsLink` |
| `leased_guessed` | 2 requests, no fault | refutes `Coherent`: shorten's SET is outside the lease |
| `leased_late_release` | 3 requests, only rebuilds at their release may be slow | refutes `Coherent`: the unfenced DEL is not harmless |

Three requests are the least that show a rebuild, a writer and a late releaser at
once; the fourth adds a reader beside them. Since identities are reused, histories are
not limited to so many requests, only their overlap is. Two URLs tell old from new.
`CHECK_DEADLOCK FALSE`: when a shorten fails and the code stays unknown, nobody has
anything to do.

**Refinement.** `LeasedStore!Link` maps the store to `AtomicLink`: the link is the cache
entry and, without one, the row (`View`). A PATCH or DELETE changes the link when the old
entry goes, by its DEL or because Redis expired it after the UPDATE; if nothing was
cached, at the UPDATE. A redirect reads the link at the command that decides its reply,
with one exception the abstract specification names (`Anticipates`): one that falls back
to Postgres, or that misses the cache and is then denied by the filter, may see the row
of a change whose DEL is still to come, and a later redirect the old URL again.
The mapping holds while nobody lapses or guesses and PATCH and DELETE neither fail nor
are dropped; `leased_guessed` and `leased_late_release` show what happens otherwise.
Liveness is stated for tier 4.4, whose requests do all that those of tier 4.3 do.

## 3. Singleflight and keep-alive: `CoalescedStore`

Tier 4.4 changes `resolve` only; `LeaseProtocol` is the rest. Besides its variables:

| Variable | Code |
|---|---|
| `inflight` | per process, the entry of `self.inflight` for the code |
| `cell` | per request, the cell whose `Arc` it holds |
| `outcome` | per `OnceCell`, what it was initialised with |
| `ttl` | remaining TTL of `{code}` in ticks, 0 without one |
| `window` | history, per redirect: all that row and cache have shown since the oldest request sharing its cell arrived |

| Code | Actions |
|---|---|
| `resolve` | `Resolve`, `Get` (the GET and TTL in one pipeline, and the roll), `Extend`, `FilterCheck` |
| `resolve_miss_coalesced` | `Join`, `Await`, `Finish`, `Leave` |
| `resolve_miss` and the writers | `ProtocolStep`, with `TtlFollows` for what its SET and DEL do to the TTL |
| the client hangs up | `Abandon` |
| TTLs, volatile-lfu | `Tick`, `Evict`, `ExpireLease` |

**Abstractions.** A cell nobody holds is freed and its identity used for another, so
few identities stand for any number of cells. The roll is a free choice while the TTL is
positive and at most `RollBelow`; jitter only lengthens a TTL and is part of `FullTtl`.
The mutex of the map is never held across an await, so `Join` and `Leave` are single
steps. That one request at a time runs the closure of a cell, and that the next one
takes over when it fails or is dropped, is tokio's promise about `get_or_try_init` and
part of `Await`. Between the end of `get_or_try_init` and the `remove` there is no await, hence no
`Abandon` at `leave`; threads still run in between, hence the step of its own.

**Runs.**

| Run | Bounds and assumptions | Shows |
|---|---|---|
| `coalesced` | 3 requests, 1 URL, 2 processes; the request of the second process may also write; every fault of a redirect | `TypeOK`, `GuardedHoldLease`, `NoFrozenCell`, `NeverInvented`, `NoDeadLink`, `Coherent`, `NoStaleFill`, `AnswersFromTheFlight` |
| `coalesced_live` | 2 requests, 1 process; all faults of Redis, drops, and lapsing leases in writes and redirects; TTL 3, roll up to 2 | `EveryRequestEnds`, `StaleEntryExpires` |
| `coalesced_two_flights` | 3 requests, 1 process, no fault | refutes `OneFlightPerProcess` |

Two requests of one process and a writer at another are what a flight, a follower and
the change they may miss take; a link that is there, deleted or not yet created gives
the three kinds of value a flight can carry with one URL. One tick of TTL suffices for
safety, where expiry and extension are the only events; for liveness the TTL is longer
than the roll's threshold, so that there are ticks at which the roll cannot succeed. There are
enough cells that `Join` always finds one: one per request and one per map.

What `LeaseProtocol` promises is checked and proved again here, since a reply may now
come from a flight that is older than the request. One promise becomes weaker: with
`CodesGuessable`, `NoDeadLink` holds in tier 4.3 but not in this tier. A redirect of a
guessed code can start a flight before the INSERT, and a second one that arrives after
it joins that flight and is told "not found" of a link that exists. Among clients that
only use codes they have been given this cannot happen, because a row that is missing
from such a code never comes back (`NoLinkDies`).

**Fairness.** `LiveSpec` is weakly fair to each request's own step (the runtime polls
tasks, servers answer or fail), to `ExpireLease` (Redis expires keys) and to `Tick`.
Nothing is assumed of clients. Both properties are conditional on arrivals ceasing: the
spin on the lease has no queue, so under endless traffic one request may lose every
race, and endless redirects may keep a stale entry alive by one lucky roll after the other.
Leases may lapse under working holders here (and in `leased_faults`): what
`leased_late_release` shows to go wrong then, a stale entry, goes away by itself.

## 4. Early tiers and codec: `CacheAside`, `Base62`, `EarlyTiers`

`CacheAside` uses the variables of `LeaseProtocol`, with `row` the link wherever the tier
keeps it, and `tier`, the program that runs. `Mint`, `InsertLocked`, `InsertLast` and the
shared `FilterAdd`, `Insert`, `WriteThrough` are `shorten`; `Resolve`, `Lookup`, `Get`,
`FilterCheck`, `RebuildQuery`, `RebuildSet` and the shared `ReadPostgres` are `resolve`,
`rebuild` and `read_postgres`. Tier 1 answers under its mutex without an await.
`Base62` takes one step per loop iteration of `encode` (`PushDigit`, `ReverseDigits`,
`EncodeZero`) and `decode` (`ReadByte` with its checked arithmetic); a text is a sequence
of digits, with one further symbol for every character outside the alphabet. `EarlyTiers`
has an id encoded before anything is stored under its code, and gives `resolve` of
tier 4.2 the verdict of `is_valid` on it.

`early_tiers` runs all four tiers with 3 requests, 2 URLs and every fault, next to the
codec with base 3, words up to 15 and all texts of up to four symbols: words of every
length up to three digits, a largest word that is neither a power of the base nor the
largest of its length, and texts that overflow by one, in the product as well as in the
sum. It shows `AsideTypeOK`, `RoundTrip`, `CodesAreValid`, `OverflowIsExact` and
`ImplementsLink`: rebuilds are not coordinated, yet no redirect is ever wrong, because
all who fill the cache write the one URL the link ever has.

A restart of tier 1 forgets every link by design and is left out. Codes that spell a
static route (`main.rs:151-154`) are a matter of axum's router.

`Power`, `Places` and `Value`, the reference `OverflowIsExact` compares `decode` with, are
recursive functions, so that TLC can evaluate them and TLAPS can reason about them.

## 5. Bloom filter: `BloomJob`

| Variable | Code |
|---|---|
| `mint` | per code: none, added (after BF.INSERT), linked (after INSERT), deleted |
| `old` | codes with `created_at` more than OVERLAP ago |
| `filter`, `ready`, `marker`, `temp` | `codes_bloom`, `bloom:ready`, `bloom:building:{id}`, `codes_bloom:restoring:{id}` |
| `disk` | the part of these that has reached the append-only file |
| `snap` | the row of `bloom_snapshots` with its dump: `content`, and `before`, the codes older than `taken_at - OVERLAP` |
| `lock` | the advisory lock |
| `pc`, `rebuilding`, `before`, `cursor`, `hand` | per app: next command, branch of the job, what its scan skips, `last_code`, the page or dump in hand |
| `lost` | history: codes that a wipe, a RENAME or a crash has taken out and that no rebuild is bound to re-add |

| Code | Actions |
|---|---|
| `shorten`, `delete` | `Add`, `Insert`, `Delete`; time: `Age` |
| `job` | `JobStart`, `JobCheck`, `SnapshotDue`, `NoSnapshotDue`; an error or a dead app: `JobFail` |
| `recover`, `restore_snapshot`, `publish_ready` | `RecoverStep`: `SetMarker`, `RestoreStep` (`Restore`, `Swap`), `Publish` |
| `add_recent`, `add_since` | `ScanStep`: `Since`, `FetchPage`, `AddPage`, `LastPage` |
| `save_snapshot` | `SaveStep`: `DumpChunk`, `DumpEnd`, `DumpNoKey`, `CommitSnapshot` |
| `might_exist` | `SaidAbsent`, the codes it answers "no" for |
| servers, operator | `Flush`, `ClearSnapshot`, `ClearFilter`, `Fsync`, `Crash`, `DropLock` |

**Abstractions.** The filter is a set: false positives only cost a query. Timestamps
are compared with `now() - OVERLAP` only, which is the set `old`; rows may grow old in
any order, more than real time allows. Two facts about time are assumed: an INSERT commits
within OVERLAP (five minutes) of its `created_at`, and what was added reaches the disk
(one second) before its row is that old (`Age`). A code whose bits were not there for every SCANDUMP chunk counts as not
captured. Chunks load all or not at all, as the temporary key makes sure; a temporary key
that a crash of Redis leaves half loaded is not modelled. Cleaning up
other uploads cannot touch the current one. A crash of Redis leaves what an earlier
`Fsync` wrote, a prefix of its writes.

**Runs.**

| Run | Bounds and assumptions | Shows |
|---|---|---|
| `bloom_ready` | 2 apps, 3 codes, pages of 1, ageing; flushes outside a pass that has seen `bloom:ready`, clears between passes | `TypeOK`, `OnlyLostMissing`, `SnapshotCovers` |
| `bloom_heals` | 2 apps, 1 code, ageing; overlapping passes after a broken lock, flushes as above, clears and crashes of Redis between passes | `OnlyLostMissing`, `FilterHeals` |
| `bloom_flushed_save` | 1 app, 2 codes, flushes at any time | refutes `OnlyLostMissing` |
| `bloom_crashed_rebuild` | 1 app, 2 codes, no ageing, crashes during a job | refutes `OldLinksHeld` |

Three codes with pages of one give a scan a first, a middle and a last page, with
insertions and deletions around each; the jobs interact through one filter, so two
apps show every overlap the lock allows. Broken locks and crashes add so many
interleavings that `bloom_heals` follows a single code, whose row is minted, grows old
and is deleted at any time; the theorems of section 6 cover any number of codes.

`OnlyLostMissing` says which links a ready filter may lack, and `lost` when that is so:

- the shorten was between BF.INSERT and INSERT when a flush, an operator or the RENAME of
  a restored snapshot took its bits out;
- a crash of Redis undid the BF.INSERT of a link younger than OVERLAP;
- a pass that has lost the lock renamed its older snapshot over a filter that is ready,
  or under another pass that may already have scanned the link.

`FilterHeals` says how long: the next pass re-adds what is younger than OVERLAP. A link
that grows older before a pass comes, because Redis or the job is down longer than five
minutes, is never scanned again while `bloom:ready` exists and stays missing for good.
(Tier 4.2's `README.md:116` has "up to a minute, until the job repairs it".) The
property names that exception, `old \cap lost`, and the run lets rows grow old, so that
it occurs.

Three switches are off in both passing runs. `FlushDuringReadyPass` and `CrashDuringJob`
have refuting runs of their own. Under `ClearDuringJob` the operator's
`DEL bloom:ready codes_bloom` leaves the marker of a running rebuild, which then
publishes a filter without the pages it had already added: it refutes `OnlyLostMissing`
when turned on in `BloomReady.cfg`.

**Fairness.** `LiveSpec` is weakly fair to each job's next command: `Bloom::run` ticks
forever, and servers answer or fail. `FilterHeals` is conditional on the trouble
(failures, flushes, clears, crashes, lost locks) ceasing.

## 6. Proofs

TLC checks the instances above; the theorems hold for every set of requests, URLs,
codes, processes and cells, every page size, base and word size, and every setting of
the switches they do not name.

| Theorem | Property | Assumes |
|---|---|---|
| `LeasedStoreProofs!TypeCorrect` | `TypeOK` | - |
| `NothingInvented` | `NeverInvented` | - |
| `NoLinkDies` | `NoDeadLink` | - |
| `RedirectsSurviveRedis` | `ReadsSurviveRedis` | `PostgresFaults = {}` |
| `LeaseExcludes` | `GuardedHoldLease` | no lapse |
| `FillsAreFresh` | `NoStaleFill` | no lapse, no guessed codes |
| `CacheIsCoherent` | `Coherent` | and PATCH and DELETE neither fail nor are dropped |
| `LeasedLinkProofs!StoreIsOneLink` | `ImplementsLink` | the same |
| `CoalescedStoreProofs!NothingFrozen` | `NoFrozenCell` | - |
| `CoalescedFlightProofs!AnswersAreOfTheFlight` | `AnswersFromTheFlight` | - |
| `CoalescedLeaseProofs!TypeCorrect` | `TypeOK` | - |
| `NothingInvented` | `NeverInvented` | - |
| `NoLinkDies` | `NoDeadLink` | no guessed codes |
| `RedirectsSurviveRedis` | `ReadsSurviveRedis` | `PostgresFaults = {}` |
| `LeaseExcludes` | `GuardedHoldLease` | no lapse |
| `FillsAreFresh` | `NoStaleFill` | no lapse, no guessed codes |
| `CacheIsCoherent` | `Coherent` | and PATCH and DELETE neither fail nor are dropped |
| `Base62Proofs!DecodeInvertsEncode` | `RoundTrip` | - |
| `CodesPassIsValid` | `CodesAreValid` | - |
| `OverflowMeansTooLarge` | `OverflowIsExact` | - |
| `EarlyTiersProofs!OneLink` | `ImplementsLink` | - |
| `AsideTypes` | `AsideTypeOK` | - |
| `CodesCanBeTrusted` | the three of `Base62`, in the tiers | - |
| `BloomJobProofs!TypeCorrect` | `TypeOK` | - |
| `ReadyFilterComplete` | `OnlyLostMissing` | `Undisturbed` |
| `SnapshotsCover` | `SnapshotCovers` | `Undisturbed` |
| `OldLinksSurvive` | `OldLinksHeld` | `Undisturbed`, `CodesAge = FALSE` |

Every module also rests on the named ASSUMEs about its constants, which TLC evaluates:
that names differ, that base and page size are not degenerate, and `LenOK`, that `MaxLen`
digits have room for the largest word (62^11 > 2^64).

**Lease.** `GuardedHoldLease` is inductive on top of a stronger type invariant: an
unfenced DEL is sent from a guarded step only, where the sender is the holder. Fresh
fills need two more facts: while a code is being shortened nobody else names it, and a
request about to populate carries the row's present value, because every change of
the row needs the lease it holds. Coherence adds that a cached value that differs from
the row has a writer at `invalidate`.

**Refinement of `AtomicLink`.** Coherence is what makes the mapping work: an entry that
differs from the row has the one writer whose `change` is still under way. On top of it
`LinkInv` has three facts: whatever row, entry or a request shows was committed before
(`Traced`), nothing was before the INSERT (`Unborn`), and the code is in the filter before
its row appears (`FilterFirst`), so that a denial reads no link. Each
action then maps to one abstract action or a stutter. For the early tiers the invariant
is shorter: row, entry and whatever a rebuild has in hand are one and the same URL once
there is a row. Tier 4.2 would deny a link whose code `is_valid` rejects; that there is
none is `CodesPassIsValid`, which `EarlyTiersProofs` carries along as `CodeInv`.
`TierInv` says what each tier does without.

**Singleflight.** `CellInv`: whoever runs `resolve_miss` holds a cell that is still
pending and has no other runner (`SoleRunner`, tokio's guarantee), and an initialised cell that is still in the map belongs
to a request at `leave`, which will remove it. Only what holds a cell keeps it, and a
freed one is pending again, so reusing identities is safe. `FlightInv` adds that what a
redirect carries, or what its cell was initialised with, lies in its window (`InWindow`).

**The lease under singleflight.** The argument of tier 4.3 carries over because a step of
the new `resolve` (`Lookup`) touches neither row, entry nor lease and enters no guarded
step (`LookupPasses`). Three invariants have to speak of cells as well: what a cell was
initialised with was committed (`Traced`); an error is in nobody's hands while Postgres
works, since `Finish` leaves the cell pending on an error (`NoReadError`); and for
`NoLinkDies` a cell or a request that carries "not found" means that the row is missing
for good (`MissIsFinal`).

**Codec.** The round trip: `trail` records the values `n` takes in `encode`. Digit and
quotient of each step determine the number before it (division with remainder), so
`decode`, reading the reversed digits, walks the same trail backwards and never leaves the word. The length of
codes: what is left to encode is less than the power of the base for the places left
(`FitsSoFar`). Overflow: one more digit multiplies the place value of what was read by
the base and adds the digit (`OneMoreDigit`), by induction along the sum. The provers see
a recursive function as a CHOOSE and cannot apply the library's induction rules, which
take an operator; `SetInduction` states induction for a set of naturals, from the least
element that well-foundedness gives its complement, and `Recursion` derives from it that
functions such as `Power` exist.

**Bloom.** `Undisturbed` says that `FlushDuringReadyPass`, `ClearDuringJob` and
`CrashDuringJob` are off. Locks may break, so passes overlap, Redis may crash between
passes, and rows grow old. The invariant `IInv` speaks of each app on its own: it knows
its branch, and a marker belongs to a rebuild (`Branches`); what a scan skips or a
snapshot covers was in the table before (`CutoffsPast`); an added code is held or lost
(`AddedHeld`); a ready filter holds every link, and what the disk would bring back of it
those older than OVERLAP (`FilterHolds`), which is where `Age` and the disk's one second
come in; and, in `OfApp`, what a pass relies on. One that has seen the flag can rely on
it. A restored key and a dump cover what the scan after them skips. During a rebuild
whose marker survives, every link is held, on the page in hand or still ahead of the
cursor (`ScanHolds`): the marker stands for "not flushed since", which is what its RENAME
to `bloom:ready` relies on. `OldLinksSurvive` is about times shorter than OVERLAP
(`CodesAge = FALSE`), in which every cutoff covers the links that were old at the start,
so that none of them can get lost (`OldKept`). `IInv` and `OldKept` were model-checked
before they were proved.

Out of the prover's reach and only model-checked: liveness (`EveryRequestEnds`,
`StaleEntryExpires`, `FilterHeals`). Every safety invariant, action property and
refinement that a passing run checks is stated by a theorem.

## 7. Where code and documentation differ

The five refuting runs, with quotes, are under `findings` in `PROJECT.json`:

- `leased_guessed`: a PATCH of a code not yet returned is undone by the shorten's SET;
- `leased_late_release`: the late DEL of a lapsed lease is not harmless;
- `coalesced_two_flights`: a late follower removes the next flight's cell, and one process
  then runs `resolve_miss` twice (the lease still serializes the two);
- `bloom_flushed_save`: a flush between the flag check and the dump becomes a snapshot;
- `bloom_crashed_rebuild`: a crash of Redis in the middle of a rebuild loses pages for good.

The properties that hold are stated so that each of these exceptions is visible in them.

## 8. Not modelled, and what is left

Configuration, demo and documents have no behaviour. Of the HTTP handlers only what
arrives and what is replied is modelled: `/stats` and `/metrics` just read, and status
codes are one case per reply. `expires_at` is never set by any code. Connections, pools
and their timeouts appear as failing commands.

Left to state and prove: an abstract specification for tier 4.4, a link whose redirects
may be answered from the window of their flight, and that `CoalescedStore` implements it.
