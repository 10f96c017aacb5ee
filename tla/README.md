# Verification of DirectSwarm

TLA+ models of DirectSwarm's own logic, TLC configurations that check them on
small instances, and TLAPS proofs for every instance. DirectSwarm fetches
content-addressed chunks straight from the Swarm nodes that store them, over
many libp2p connections at once, and pays the storers with cheques; what it
cannot get directly it asks of a local bee node. Paths below are relative to
`rust/`.

## 1. The system

### Components, their state and operations

| Part | State | Operations | Modelled in |
|---|---|---|---|
| Fetch scheduler, `ds-net/src/schedule.rs` | shared work buckets, dispatcher books, one actor per connection (pending chunk, task set, flags), fallback channel, report counters, warm pool | `fetch_scheduled`, `Dispatch::next/done`, `run_connection`, `run_established`, `measure_lambda`, `drive`, fallback worker, stall sampler | `FetchScheduler`, contract in `ChunkDelivery` |
| Cheque ledger, `ds-net/src/ledger.rs` | map beneficiary → cumulative, dirty flag, JSON file and its temporary | `open`, `cumulative_for`, `record_issued`, persister, `flush` | `ChequeLedger` |
| Cheque emission and spend cap, `ds-net/src/direct.rs` 796–947 and the money side of `drive` | `issued_plur` (shared `AtomicU64`), cap, cached issuable amount, per connection `Mirror` and `Pacer` | `emit_settlement_cheque`, `emit`, `emit_prepay`, `refresh`, spend projection | `ChequeEmission` |
| Exposure pacing, `Pacer::admit` | unvalidated cheques, threshold feed, λ | `admit`, `window`, `unvalidated_sum` | `PeerExposure` |
| Growth probe, `growth.rs` | `Conn`: mirror, threshold, phases, prepayment | `run_fetch_phase`, `lambda_sample`, `prepay`, `probe_growth` | `PeerExposure` |
| Storer probe, `direct.rs` | accounting, reserve cap, pending cheque units, detached credits | `probe_storer`, `settlement_loop`, `handshake_with_fallback` | `StorerProbe` |
| Chunk store, `store.rs` | data file, index in memory and on disk, dirty count | `open`, `put`, `get`, `flush`, recovery | `ChunkStore` (a set of addresses in `FetchScheduler`) |
| Peer state, `peerstate.rs` | per-peer observations, CSV file and its temporary | `open`, `record`, `save` | `PeerState` |
| Resumable fetch, `fetch.rs`, `bee_api.rs`, `ds-core/src/resume.rs` | output file, sidecar, retries | `fetch_to_file`, `commit_sidecar`, `read_resume_offset` | `ResumableFetch` |
| Crawler, `crawl.rs`, `hive.rs` | frontier, queued set, event and hint channels | `crawl`, `dial_and_handshake`, `harvest`, hive sinks | `Crawler` |
| Topology, `ds-core/src/{topology,swarm}.rs` | the cache of node records | `proximity`, `neighborhood`, `upsert`, `bin_counts`, `storers_for`, `coverage` | `Topology` (operators), `Crawler` |
| Command line, `ds-cli` | – | `load_seeds`, `write_cache_csv`, `load_topology`, clear of the repeat loop; the rest is parsing and printing | partly: `Crawler`, `ChunkStore` |
| Keys, funding, Go spikes | – | cryptography, chain transactions, measurement | not modelled |

### How they interact

`fetch_scheduled` drops what the store already has, routes every other chunk
to the bucket of its neighbourhood or to the fallback channel, and keeps a
window of connection actors running. The actors share the buckets (work
stealing), the store, the fallback channel, the spend counter, the ledger, the
wind-down flag and the report counters; nothing else is exchanged between
them. Each actor spawns retrieval tasks that end at any time and settles its
debt with refreshes and cheques. The ledger is written by a background
persister and by one flush at the end. A connection that is settled when it
finishes may be parked for the next fetch.

A connection starts from what `peerstate.rs` remembers of its storer and
records what it learned when it closes. Its gate is the growth probe's: both
keep a mirror of the storer's books and hold back what the storer may not have
validated yet. The crawler finds the storers and leaves them in a CSV file that
`fetch-direct` reads; the chunks a direct fetch leaves in the store, and the
file a single-source fetch writes, are read by nobody who checks them again.

### What is hard

Several actors and their tasks pass a chunk between containers while peers
hang up, admissions are refused, members are recycled and the stall detector
trips. Money is reserved, checked and released in separate atomic steps around
awaits; two parties keep books of the same debt, and credits reach the two at
different times. File rewrites overlap, fail, and are cut off by crashes and
power failures, and the next process believes what it finds. The crawler's
loop reads events of attempts it has given up and gossip nobody vouches for. The full
list, with source lines and the properties that watch each one, is `hazards`
in `PROJECT.json`.

## 2. Modules

`FetchScheduler` follows every entry of the caller's chunk list (`Item`;
addresses may repeat) through the containers the code has: `pool` (buckets),
`pending`, `flight` (running retrievals), `tasks` (the JoinSet, finished but
unreaped ones included), `fbq` and `fbTasks` (fallback channel and worker),
`failed`, `dropped`. `pc[s]` is where storer `s`'s actor is: `setup` and then
`measure`/`probe`/`sweep` (`measure_lambda`), `top`/`admit`/`settle` (one turn
of `drive`), `closing`, `returned`. Actions are the steps between two awaits
or two operations on shared state. Three things are abstracted: the exposure
gate is a free choice between admission (`AdmitSpawn`) and refusal
(`AdmitRefused`); a mirror is the one bit `owes` (debt above the prepayment);
the ranking of storers and their rates are constants. `lost` is a history
variable for the two places where the code lets go of a chunk.

`ChunkDelivery` is the contract of one fetch: chunks are stored or given up,
and a successful report is made once, when every list entry is one or the
other, after which nothing moves.

`ChequeLedger` has the two names of the ledger's file (`path`, `tmp`) pointing
to inodes, and the handles of two writers: `tick`, the persister, and `flush`.
`File::create` on an existing name truncates the inode it points to; `rename`
moves whatever the temporary name points to now. `write_all` and `sync_all`
are one step that replaces the content. A crash may happen at any step. The
history variable `overlapped` records that a flush met a rewrite of the
persister. A reopening of the ledger inside the same process while the old
persister is still writing is not modelled.

`ChequeEmission` has connections that fetch chunks of one unit each, project
the cap, refresh and pay. An emission is the steps of
`emit_settlement_cheque`: quote and `fetch_add` (`Quote`), the guard
(`Refuse`), the issuable check (`Unbacked`, `Sign`), the stream (`WireOk`,
`WireErr`, the latter with or without delivery), the record and the credit
(`Record`). `Wrap` is the size of the counter's word; amounts themselves are
`U256` in the code and unbounded here. Peers quote from the set `Quotes`, and
accept of a refresh any part of the mirror's debt, prepaid or not (`accepted`
remembers how much). `held` is the last cheque of each beneficiary; `stray`
adds up the cheques whose stream failed after delivery, `ambiguous` are their
beneficiaries, and `crossed` those two of whose cheques were signed on one
recorded cumulative.

`StorerProbe` is one probe of one storer: the main task (`phase`), the event
task (`HangUp`), one retrieval task per chunk (`waiting` for room, `flying`),
`settlement_loop` (`pc`, with the balance and the pending units read in
separate steps, as the code awaits in between), and the detached tasks that
credit a cheque and then take it off `pending_cheque_units` (`CreditLater`,
`Unpend`). `owed` and `unval` are the storer's side: what it served unpaid, and
the cheques it has not validated. Retrievals, refreshes and cheques are awaited
without a deadline, and so they end only if the storer lets them.

`PeerExposure` is one storer's books against one mirror, for both users of the
gate: the growth probe (`user = "growth"`, `stage` is its phase) and the
scheduler's pacer (`user = "pacer"`, which starts at the ceiling and tops up).
There is no clock. Units of emitted cheques are `fresh` (in the window, not
validated), `seasoned` (in the window, validated) or `stale` (out of the
window, not validated); both events happen at any time, and `late` remembers
that a unit became stale. A chunk costs one unit; a cheque is charged at the
rate the storer quotes for it (`Quotes`), while the growth probe's projection
uses the rate of its first cheque, or a default before that (`Rate`). `risen`
remembers a cheque charged above the projected rate.

`Topology` has the overlay arithmetic and the cache as operators; addresses are
sequences of digits so that `proximity` (a leading-zero count, byte by byte) and
`neighborhood` (a shifted prefix) are both computed as the code does.
`Crawler` extends it with the crawl loop, the task that owns the swarm and the
hive sinks. An address has the peer id it names and the peer that listens
there, which may differ. The event channel between the swarm task and the loop
is what a dial attempt may see of earlier ones; hints pass through `streams`.
Both channels of the swarm task are bounded (`EvtCap`, `CmdCap`): a full one
holds up the task that sends, and the swarm task that is held up neither takes
commands nor opens streams. `Stalled` is the state where the two wait for each
other. The result is written as CSV, whole or cut anywhere, also within an
address (`Torn`), and read back; an empty cell is read as one empty address.

`ChunkStore` has the data file as a sequence of bytes, the index file, and
`safe`, the length known to be on the medium. `put` and `flush` are atomic for
other threads (one mutex) but may stop half way; a kill loses the memory; a
power failure also cuts or scrambles the data past `safe`. `ClearData` and
`ClearIndex` are the two removals of the repeat loop.

`ResumableFetch` has the output file, its synced prefix and the sidecar, whose
text may be cut at any character: `Cuts` are the states the parser then reads
(a shorter decimal number is a smaller offset, or none). Runs have any root.

`PeerState` uses the same files and inodes as `ChequeLedger`, with one writer
per closing connection. A connection measures the latency (`build`, `probe`),
buys, pays, prepays and refreshes, and asks for the zero confirmation before it
records. Against the program's `prepaid` and `debt` stand the storer's books:
`held` is the credit it really holds, `ahead` how much of that comes from a
cheque whose stream failed after delivery (the next cheque is drawn on the
ledger's cumulative, and adds only what exceeds it), and `uncounted` are
refreshes it accepted and no mirror was credited with.

`MC*` modules hold the instances. Mutants (definitions marked so in a comment)
are single plausible mistakes; each property of a passing run is violated by
one of them.

## 3. Runs

| Run | Instance | Shows |
|---|---|---|
| `SchedShared` | 2 storers of one bucket, 2 chunks, recycling, hang-ups, warm pool, latency measurement, failing store | `OneHand`, `DispatchConsistent`, `DrainedIsFinal`, `NoSilentDebt`, `ParkedSettled`, `AccountedFor` |
| `SchedFallback` | 3 entries over 2 addresses, one uncovered, resumed store, a parked connection; fair | `FailedNotUnderstated`, `Delivery` (it implements `ChunkDelivery`), `Terminates` |
| `LedgerPersist` | 2 beneficiaries, 3 lives, overlap, crash, failing rewrites; fair | `CleanMeansSaved`, `CleanRunPersisted`, `DiskMonotone`, `EventuallySaved` |
| `EmitShared` | 2 connections, 2 beneficiaries, moving rate and deduction | `IssuedBalances`, `SpendCapHeld`, `CreditExact` |
| `EmitPrepay` | prepayment, shared bucket, one shared beneficiary, parked surplus | `PrepayBounded`, `ChequeAdvances` |
| `ProbeSettle` | 3 chunks of prices 1, 2, 1, pipeline 2, threshold 4; fair | `MirrorCovers`, `PeakBounded`, `ResidualTruthful`, `Terminates`, `TypeOK` |
| `Exposure` | threshold 4 growing to 5, cap 8, rates 2 and 4 around a default of 3, one latency sample, prepayment, deduction; fair | `MirrorCovers`, `ExposureBounded`, `SweepAffordable`, `SettledAtEnd`, `Terminates` |
| `Crawl` | 4 peers, 3 seeds, 3 gossip batches with wrong overlays and addresses, channels of 2; all 64 chunk addresses for coverage; fair | `DialedReliable`, `DrainedMeansTried`, `OncePerPeer`, `ReportExact`, `LoadedFaithful`, `Terminates` |
| `Store` | 3 chunks, 4 lives, 2 failures, 1 clear | `ReadsBack`, `FlushedKept` |
| `Resume` | roots of 5 and 3 bytes, commit every 2, 5 runs, 4 failures | `SidecarHonest`, `OutputExact` |
| `ResumeCrossed` | the same; violated | `OutputAlwaysExact` |
| `Peers` | 2 storers (symmetric), 2 connections, 2 lives, 4 payments, refreshes and purchases | `SurplusExact`, `DiskLearns` |

`TypeOK` of the scheduler, the ledger, the emission and the exposure model is
proved rather than checked, as are `NoChunkLost` (which `Delivery` subsumes in
its run), `NothingOutlives`, `NeverTorn` and `LedgerHighest`. `ProbeSettle`
checks `TypeOK` because it says that the unsigned `pending_cheque_units` never
wraps. The other modules' `TypeOK` documents their state; it holds in their runs.

Deadlock is checked in all runs but the ledger's: a finished fetch, probe or
crawl stutters (`Done`, `Ended`), as does a crawl that is `Stalled`, and a ledger
whose process has ended and is not started again simply stops.

### Disagreements between the code and its documentation

`ResumeCrossed` is a run that TLC is expected to find violated. `resume.rs`
says of the sidecar that it records "the root reference and the byte offset up
to which the output file's contents are flushed and chunk-verified". A run of
another root into the same path truncates and overwrites the file and leaves
the sidecar it found alone until its own first commit. Killed before, it leaves
a sidecar that vouches for bytes which are gone; the next run of the first root
resumes there and returns Ok with a wrong file. `OutputExact` and
`SidecarHonest` except exactly this case (`crossed`).

Nine more texts disagree with the code. Each is a property of a module or an
instance of it that fails as described, with the change to a run that shows it.

| Change | The text | What the code does |
|---|---|---|
| `SchedFallback` with `MeasureLambda = TRUE`: `NoChunkLost` | the fallback is "total, not best-effort" (`DESIGN.md`) | `measure_lambda` drops a popped chunk when its reservation is refused |
| `SchedFallback` with `PutMayFail = TRUE`: `FailedNotUnderstated` | per-chunk failures "are recorded" (`schedule.rs`) | a failed store write is counted as a delivery |
| `LedgerPersist` with `CleanRunAlways` | the sweep at exit leaves no window "on any clean run" (`ledger.rs`) | a persister with an older snapshot renames after the flush |
| `EmitShared` with `StopPercent = 60`: `SweepHasRoom` | projected "so the final sweep always has room" (`schedule.rs`) | each connection projects only its own debt |
| `EmitShared` with `SpendCapAlways` | a "Global cheque spend cap in PLUR", "Enforced at emit" (`schedule.rs`) | a cheque whose stream fails after delivery gives its reservation back, and the next one spends it again |
| `Exposure` with `SweepAlwaysRoom` | the cap is projected "so the final sweep always has room" (`growth.rs`) | the projection uses the first cheque's rate or a default; a storer that quotes more makes the guard refuse the sweep |
| `Crawl` with `OncePerPeerAlways` | "one attempt per peer" (`crawl.rs`) | seeds enter the frontier without a look at the queued set: a peer seeded twice is dialed twice |
| `Crawl` with `ReportAtFullDepth` | `neighborhood` asserts only `depth <= 32` (`swarm.rs`) | `proximity` is capped at 31, so at depth 32 it cannot tell what the prefix tells |
| `EmitShared` with `PromisesBacked` | "the multi-peer scheduler sums the ledger" (`direct.rs`) | the ceiling is checked per beneficiary |

Further limits showed while modelling; they are assumptions of the passing
runs, and `hazards` names their lines.

* `flush` and the persister build their file under one temporary name. If they
  overlap, one truncates the inode the other is about to rename, and the ledger's
  name points to an empty file until the next rewrite, which `load_map` would
  read as an empty ledger. `NeverTorn`, `DiskMonotone` and `CleanRunPersisted`
  are therefore stated until the first overlap. `PeerStateStore::save` has the
  same shape, and `SurplusExact` and `DiskLearns` the same exception;
  `SurplusExact` also excepts a failed save, which the code ignores.
* The clear between two iterations removes the data file first. Killed between
  the two removals, the old index describes the file the next life writes, and
  chunks read back as others: `ReadsBack` excepts it (`orphan`), and
  `ReadsBackAlways` fails in `Store`. The clear also forms its names with
  `with_extension`, the store by appending: for a base name with a dot in it they
  differ and nothing is cleared. The model has the names agree.
* `settlement_loop` reads the balance and the pending units in two steps. A
  detached task between them makes the residual too small by that cheque; this
  is `blur` in `ResidualTruthful`, and the cheque is not owed any more once it
  is validated.
* After a storer has validated a cheque later than 1.5 λ nothing bounds its
  books: `ExposureBounded` is stated until then (`late`).
* `record_issued` inserts whatever it is given. Two storers of one beneficiary
  read the same cumulative, and the record that comes last moves the ledger
  back if it is the smaller. `ChequeAdvances` and `LedgerHighest` allow any
  sharing of beneficiaries and except those this has happened to (`crossed`).
* A cheque whose stream failed after delivery is the storer's and not the
  ledger's. `ChequeAdvances` excepts its beneficiary (`ambiguous`),
  `SpendCapHeld` allows its amount (`stray`), and `SurplusExact` has it as
  `ahead`. Refreshes accepted by the latency probes after its sweep, by the zero
  confirmation, or beyond the mirror's debt are credit the program never learns
  of (`uncounted`).
* In the probes and the crawl only a dial and a retrieval of the growth probe's
  fetch phases have a deadline. Handshakes, streams, other retrievals, refreshes
  and cheques wait as long as the peer does, and the wall caps are looked at in
  between. The three `Terminates` of the probes and the crawl are therefore
  implications (see Fairness).
* A storer probe whose storer announces less than twice the price of a chunk
  can never reserve that chunk, and its task looks for room until the storer
  hangs up: `TooDear` in `Terminates` of `StorerProbe`.
* The event channel of the crawl is read only while a dial waits. When it is
  full the swarm task stops, and a handshake that needs it to open a stream
  never ends: `Stalled` in `Terminates` of `Crawler`. TLC reaches it with
  channels of 2; the code's hold 64 events and 16 commands.
* A crash of the process may take the last cheques from the ledger; `SurplusExact`
  excepts the storers concerned (`cut`). It also has every storer its own
  beneficiary. A power failure in `ResumableFetch` never brings back an older or
  a removed sidecar.
* The reservation is a wrapping `fetch_add` made before the check. An amount
  near 2^64 (a rate out of range is clamped to `u64::MAX`) makes the counter
  small until it is released, and another emission may pass the guard.
  `SpendCapHeld` is checked for amounts that fit the counter (`Wrap`).
* A threshold below five units makes the cheque trigger `t / 5` zero, and a
  cheque for no debt falls due; `CreditExact` needs `Trigger > 0`.

### Bounds, and why they are enough

Two storers in one bucket are enough for stealing, recycling while a sibling
runs and two hang-ups; two chunks with a pipeline of one let one be in flight
while the other is popped, refused or stranded, and three entries over two
addresses let one address be stored while its duplicate is in flight.
`NearEmpty = 2` (30 in the code) makes both sides of every comparison with it
reachable, `MaxRecycles = 1` and `MaxSweeps = 2` (3 in the code) reach the last
round and the one after it, `FbMax = 1` makes the fallback worker wait. The
ledger needs two records around one rewrite (one for each of two
beneficiaries), one restart to read the file and one more to read what that life
wrote. In the emission runs three
chunks and a cap of a few cheques make both the cap and the ceiling bind.
`StopPercent` is 92 in the code; `EmitPrepay` uses 60 and `Exposure` 80 with a
small cap so that the margin is a whole unit or more, as it is with the code's
numbers; the two rates lie below and above the default.
`Wrap` is 64 in place of 2^64. The stall detector is on in
`SchedFallback` only. Direct-only mode has no run of its own:
the scheduler's theorems quantify over `DirectOnly`.

`ProbeSettle` has a chunk that needs the whole cap between two that do not, so
that tasks wait for room, and a cheque under way while the sweep starts.
`Exposure` crosses one upgrade of the threshold, reaches the spend stop and
fails a cheque; every stage is reached. `Crawl` has one peer for each kind of
gossip (repeated, hidden behind a bare address, under a wrong overlay, without
underlays, short), channels of two places, so that both fill up within the four
dials, and a digit width and prefix that make `MAX_PO` reachable
before the last byte. `Store` needs a life to write, one to fail, one to recover
and one to read; `Size` differs so that a torn chunk overlaps the next.
`Resume` needs three runs for the crossed sidecar and two more for torn ones; base
2 gives offsets of several digits. `Peers` needs two connections that close
together, or one that starts in the second life from what the first left; four
payments, refreshes and purchases let a cheque be delivered only and be made up
for by the next. All bounds (`Max...`) appear in guards only.

### Fairness

`FetchScheduler!Fairness`: the runtime runs ready tasks (weak fairness of the
main loop, of the worker and of every actor). Retrievals, dials and streams
end: dial and handshake have timeouts, retrievals rely on the connection being
declared dead; the ant library that does them is external. With `stall_exit`
the sampler trips because a finite list cannot progress for ever. A
finishing connection sends a cheque every 500 ms that succeeds or fails, which
is the strong fairness of `Sweep`: other turns of the loop, in which no cheque
is due, come in between. Without `stall_exit` nothing is claimed.
`ChequeLedger!FairSpec`: the persister ticks, a started rewrite ends, a cheque
on the wire is recorded or fails. Failing rewrites are bounded by `MaxFails`.
`StorerProbe!FairSpec`: every task that is ready runs, dialing ends by its
timeout, and the loop, which polls `fetch_done` at every wake-up, does see it
(the strong fairness of `Wake`; a wake-up that read it as false a moment earlier
may come in between). `PeerExposure!FairSpec`: the retrievals of the fetch
phases end by their timeout, and the steps between two awaits run.
`Crawler!FairSpec`: the crawl loop and the task that owns the swarm run, and a
dial and a harvest end by their deadline; the network need not do anything.
What has no deadline in the code has no fairness in these three specifications.
That the other side ends its calls, with an answer or an error, is the
hypothesis of their `Terminates` (`StorerAnswers`, `PeersAnswer`); nothing is
asked of a storer's validation, nor of cheques and refreshes it may refuse.

## 4. Proofs

All theorems hold for every value of the constants under the module's named
assumptions.

* `FetchSchedulerProofs`: `TypeCorrect`; `BooksCorrect`, by the invariant
  `Books` (per bucket, the active count is the number of actors serving it,
  and the members are split without repetition between `cands`, `used` and
  those running). It is needed because a recycled bucket hands out members
  again: the guard `activeN = 0` only implies that nobody runs if the count is
  exact. The
  inductive invariant `Inv` on top of it says for every list
  entry in which containers it may be (`HandsInv`), what each phase implies
  about actors (`PhaseInv`), who may owe (`DebtInv`), when `lost` can grow
  (`LostInv`), and that every needed entry is somewhere (`AllTracked`). From it:
  `NeverTwoHands`, `Accounted`, `DrainedFinal`, `NoneOutlives`,
  `DebtReported`, `ParkedClean`; and, with the latency measurement off and a
  store that accepts writes (both necessary, see section 3), `NoneLost` and
  `ImplementsDelivery`, the refinement of `ChunkDelivery`.
  `ReportNotUnderstated` assumes a store that accepts writes: a chunk whose
  write failed is counted as delivered. `CountInv` says that the two delivery
  counters count a set of list entries, each stored and in nobody's hands, so
  that no entry is counted twice by a connection and the fallback.
* `ChequeLedgerProofs`: `TypeCorrect`; `DirtyProtocol`, where the invariant says
  that a snapshot or file which is behind the map is behind only in entries that
  are marked or about to be; and, without overlap, `RewriteAtomic` and
  `CleanRun` (the writer that is under way owns the temporary name) and
  `DiskNeverBack`, by the invariant `Ahead`: per beneficiary the file is at most
  what a rewrite carries, that at most the map, and the map at most the wire.
* `ChequeEmissionProofs`: `TypeCorrect` (with it, a reserved unit has its task
  and a finishing connection has none); `ChequeCovered` and `SurplusBounded`,
  by the invariant that the amount of an emission under way fits the books of
  its connection at every step until it is credited (`Fits`), whatever refreshes
  are accepted meanwhile; `ChequesAdvance`
  and `LedgerNeverBack`, by the invariant that a signed cheque stands on the
  recorded cumulative (`OnTop`) and that a payee has no more than is recorded
  or about to be (`Known`), both for beneficiaries whose cheques never crossed;
  connections may share beneficiaries as they like. They assume a cheque trigger
  above zero (a threshold of at least five units).
  `CounterBalances` and `CapHeld` are about the counter all
  connections share. The counter balances because only an amount it holds in full
  is ever signed or given back (`Whole`), and equals what was paid and what is
  reserved up to a multiple of its word (`Balance`); the hypothesis
  `Cap + 1 < Wrap` says that the cap is a value of the word that is not its
  largest. The cap holds because the
  connections can be put in the order in which they reserved: whoever is past
  the guard fits the cap together with all that reserved before it, and whoever
  is still at the guard will see at least that much (`CapInv`; the order is
  existentially quantified, so no history variable is needed), and because what
  payees hold is at most what was paid plus the stray cheques (`CashInv`). Its
  hypothesis
  `NeverWraps` bounds the amount of one cheque so that the cap and one cheque of
  every connection fit the word. It is necessary: `fetch_add` wraps, and with
  exchange rates near 2^64 a reservation can wrap the counter to a small value,
  which lets the next one through. It holds as long as no cheque comes near the
  size of the word; the run `EmitShared` satisfies it.
  Sums are the cardinality of a set with one element per unit (`Total`), which
  the theorems on finite sets can reason about.
* `StorerProbeProofs`: `MirrorAlwaysCovers`, `PeakAlwaysBounded`,
  `ResidualAlwaysTruthful`, `TypeCorrect`. The inductive invariant `IInv` adds to `MirrorCovers`
  that debt and reservations fit the cap (`CapRespected`), that nothing is owed
  before the handshake (`EarlyIdle`), that no retrieval runs during the sweep
  (`SweepQuiet`), and what the sweep's two reads still cover at each of its steps
  (`SweepReads`): the balance it read is old when it is used, and only because
  nothing is served any more does it still cover the debt. That neither unsigned
  counter wraps (`TypeCorrect`) rests on their being sums: pending_cheque_units of
  the open cheques, the reservations of the prices of the flying tasks
  (`PendingIsSum`, `ReservedIsSum`). Each sum is stated by the existence of its
  partial sums, and each step exhibits the new ones.
* `PeerExposureProofs`: `TypeCorrect`, `MirrorAlwaysCovers`,
  `ExposureAlwaysBounded`, `SweepAlwaysAffordable`, `EndsSettled`. The exposure
  bound is inductive only with what each phase guarantees the next: while the
  threshold grows the mirror stays under half of it and the storer is ahead by
  at most one cheque of a quarter (`Growing`, hence `Percent >= 75` in the
  assumption), tasks run only in the fetch phases and nothing is prepaid before
  phase B (`Idle`), only a late validation leaves the window (`OnTime`), and
  what was issued plus what is owed at the projected rate fits the spend stop,
  deductions aside, until a cheque is charged above that rate (`Projected`): the
  first quote may lower the projected rate, and no later one raises it.
* `PeerStateProofs`: `FileLearns` and `SurplusIsHeld`, for any finite set of
  storers. While no two saves met, the invariant `Saves` says that a save is
  alone, owns the temporary name (never the file's inode) and carries the map as
  it is now (`Alone`, `Owned`, `Current`), and that the map has learned all the
  file knows (`Behind`), so the rename can only add. For the surplus, every
  step of an open connection moves the program's books and the storer's
  together (`Balance`). `SurplusExact` is not
  inductive, because it says nothing while the process is down: `Exact` adds that
  a storer which is not being saved has its row on disk, so that the file holds
  its credit between two lives, and that a connection which does not prepay is
  never above what it was remembered with, so that at its close it either owes
  or is where it started.
* `FileProofs`: the two components that keep bytes in a file.
  `SidecarAlwaysHonest` and `OutputAsFetched` of `ResumableFetch`, for any file
  lengths and commit intervals: the invariant says what the file holds at each
  step of a run (`Running`), that the sidecar vouches for synced bytes of its
  own root, in every prefix a torn write may leave of its decimal offset too
  (`Honest`), and what a returned run leaves (`Returned`). `IndexedReadsBack` and
  `FlushedStaysFound` of `ChunkStore`, for any chunk sizes and any sequence of
  puts, torn writes, failing flushes, kills, power failures and restarts: the
  invariant keeps the two files in step. The disk's index speaks only of the
  part of the data file that was synced before it, an open store writes only
  behind everything its index speaks of (`Lengths`, `Modes`), a flushed chunk is
  in the disk's index and in that of the open store (`Flushes`), and the bytes an
  entry points to are its chunk's (`Right`). The module extends both
  components, so the specification of the store and its parts carry the prefix
  `Store`.
* `CrawlerProofs`: `TypeCorrect`, `DialedAlwaysReliable`, `DrainedTried`,
  `DialedOnce` and `LoadedAsFound`, for any peers, seeds and gossip and any order
  of events. `DialedReliable` and `DrainedMeansTried` relate the cache to the
  dedup set, which no conjunct of theirs mentions after a merge, so the invariant
  says of every record (`Records`) that its round trip is measured exactly when
  it was dialed and that one of its addresses was queued, and of the set
  (`Known`, `Remembered`) that it has every peer that is or was in the frontier,
  each of which was dialed or still waits. `OncePerPeer` is inductive only with
  the dials still to come: `Counted` adds the hints of a peer in the frontier to
  its dials, and a gossiped peer joins only while both are zero. `Rows` says that
  each row of the file is of a record, one of them perhaps cut in or after its
  addresses.
  `TypeCorrect` adds that an attempt is ahead of its handshake until it ends
  (`Stats`). Subsequences (the addresses a record gains, the hints that decode)
  are defined by the rank of a position among those that are kept (`Picked`), so
  that the theorems on finite sets give what they contain; a recursive definition
  would need induction. The assumptions are the types of the constants.

Only model-checked: liveness (`Terminates`, `EventuallySaved`), which is out of
the prover's reach, and `ReportExact`, which compares the byte-wise leading-zero
count with the shifted big-endian prefix and adds up the bins. What a fold
computes for every input needs induction over data, and the theorems for that
take an operator as a parameter, which the provers here cannot instantiate; of
powers of two they know only that they are integers. Sums and counts do not need
induction when they are stated as cardinalities or by their partial sums, as
above.

## 5. Not modelled

* Key derivation, the key file, funding and chain transactions: cryptography
  and I/O without state of their own.
* The wire formats of handshake, pricing, pseudosettle, swap and retrieval, and
  the ant libraries behind them: external, modelled by their outcomes.
* Argument parsing, listing and printing in `ds-cli`, and the choice of peers in
  `probe` and `growth`.
* The stall sampler's window arithmetic (a free trip in `FetchScheduler`), the
  ranking of storers by rate and latency in `select_storers` (a constant), and
  the times kept in peer state and topology records that nothing reads.
* Panics of tasks, poisoned mutexes, and several processes at once on one store,
  ledger or peer-state file.
* The composition of scheduler, ledger, store and peer state in one module:
  each sees the others by what it uses of them (a set of addresses, a cumulative,
  a remembered surplus).
