# A TLA+ verification of sumer

sumer keeps a person's financial records on their own machine.  Adapters, separate
processes, read a provider (a bank, a chain) and report *observations* of records over
a line-delimited JSON protocol on their stdin and stdout.  The host runs an adapter,
judges what it says, and the store keeps an append-only history from which it derives
what is live now and, when a record has gone, a *retraction*.  Two decisions in it can
do lasting harm: to retract a record the provider still has, and to trust (or to
condemn) an adapter wrongly.  This project models the code that makes them.

Paths below are under `src/`; line numbers are in the `map` of `PROJECT.json`.

## 1. Inventory

| component | source | state | operations | status |
|---|---|---|---|---|
| Sweep and retraction gate | `core/store/src/sweep.rs`, `core/host/src/{fold,paging}.rs` | locals of `sweep_resource`, the snapshot loaded before page 1, the open transaction | start, page, ingest, page commit, gate, derive, final commit, read failure, page limit | modelled: `Sweep` |
| Store tables | `core/store/src/{store,schema,hash}.rs` | crawl, observation, retraction, resource, discrepancy and balance tables | append, stamp, open/finish crawl, cursor, definitions, retract | modelled: `Store`, `Balances`; not the queries of `history`, `show`, `status` |
| Refresh and the writer lock | `core/store/src/{refresh,profile,main}.rs` | lock file, `connection_violation`, the list of resources | lock, connect, refresh each adapter, sweep each resource, disconnect | up to the sweeps: `Balances`; the sweeps: `Sweep` |
| Request multiplexer | `core/host/src/mux.rs` | ids and slots, outbox, permits, terminal reason, verdict | call, pump, waiter, reader, finish, publish, hold | modelled: `Connection`, `Verdict` |
| Process supervision, the handle | `core/host/src/{process,lib}.rs` | kill channel, `exited`, child, handle | spawn with hello, supervise, close, drop | modelled: `Connection` |
| Typed reads of the host | `core/host/src/{lib,time,paging}.rs` | none | status coverage, staleness, refusals, oversize, instants | partly: of balances in `Balances`, of a page in `Sweep`, `drop_oversized` in `Conformance`, `time.rs` in `Instant` |
| Balances and freshness | `core/store/src/{refresh,store,render}.rs` | read counter, balance lines | open read, append, show | modelled: `Balances` |
| Wire codec and types | `core/wire/src/` | decoder buffer | push, finish, (de)serialise | partly: `Decoder`, the timestamp validator in `Instant`; not the serde shapes |
| Money | `core/money/src/` | none | parse, format, add, negate, compare, canonical form | partly: `Money`; not the grammar of an asset |
| Bitcoin adapter | `adapters/bitcoin/src/` | per resource the snapshot of its crawl, the figures on disk; the request in hand | history, balances and status reads, the sync of a wallet, the cut of a page | partly: `Bitcoin`; `Crawl` is what it promises |
| Conformance suite | `conformance/src/` | transcript, ledger, folds and paging state of an execution | run, judge, compare | partly: `Conformance`, the crawl made twice and the crawl killed and resumed |
| Fake adapter | `adapters/fake/` | a fixture player for tests | | not modelled: test support |
| Command line, rendering | `core/store/src/{main,render}.rs` | none | parse, print | not modelled: text |

**How they interact.**  `sumer refresh` takes the profile's lock file, opens a read of the
adapter's balances, spawns the adapter (hello handshake), lists its resources, reads their
status and their balances, and sweeps each in turn.  A sweep
calls `history_read` for every page; each call goes through the multiplexer's outbox to
the pump, which holds a permit, issues an id, writes the frame and leaves a waiter task
behind.  The reader task delivers replies to waiters and judges every frame; a breach is
*published* in a latch and asks the supervisor, over a channel of one place, to kill the
child.  The supervisor waits for the child or for a kill, lets the reader drain, and
finishes the connection with one terminal reason.  The commit of a sweep runs inside
`with_contract_violation_held`: the latch is read and frozen until the transaction is in.

The Bitcoin adapter is one serial process at the other end of that pipe.  It reads a
request, asks an Esplora server for the addresses of each resource in turn, and writes one
reply.  The first page of a history freezes what the provider said in a snapshot; the host
carries the cursors, so a reply that is lost, a host that gives up or another process with
another wallet file may come between any two pages.  The conformance suite is a host of its
own: it drives an adapter through the same handle, against a fixture that says what should
come.

**What is hard about it.**

- The tasks of a connection run on several threads: a step is what one task does between
  two awaits or under one lock, and terminal reason, verdict, slots and exit flag live
  under different locks.
- A sweep reads state (fold, rules of the heads, buried set) before its first await and
  uses it after the last.
- A crash may fall between any two transactions; a later sweep may resume from a cursor.
- `received_at` comes from a wall clock that may step backwards, and the fold orders by
  it, so the newest row of a chain need not be its head.
- A violation is published by another thread at any moment, the commit's included.
- The adapter is arbitrary: late, duplicate, unasked or cut-off frames, no reading, no
  exit, a child of its own that keeps the pipe.
- The chain moves between any two requests of a sync: a transaction is broadcast, evicted,
  mined or thrown back while the listings it should be in are being read.
- A batch of resources shares one frame, of which a budget counts a part, and an oversized
  frame costs the connection.
- A conformance case is one verdict from executions judged apart, on different fields.

The list of hazards, each at its line with the properties that would catch it going
wrong, is `hazards` in `PROJECT.json`.

**What makes each component correct.**  Sweep: a retraction needs a whole, clean sweep
on a connection not caught lying, that did not see the record; it buries what was known
and nothing later; an observed record is live again; exemptions hold; a complete sweep
settles its resource.  Store: append-only, one row per revision, one resume point per
resource.  Multiplexer: an answer reaches its own call, permits are conserved, every
call returns with the true reason.  Supervision: who is caught is ended, who exits
cleanly is not accused, no process is left.  Balances: a line is shown as fresh only when
the read that produced it is the latest one.  Decoder: frames do not depend on chunking.
Instants: order agrees with the calendar, and what cannot be ordered says so.  Money: exact
decimals, one text for one amount.  Bitcoin: a sync has all there is, a crawl sends what was
frozen, each confirmed record once, and ends; a stale figure was once read; a page of history
fits its frame.  Conformance: the honest are not failed, and a pass means what it says.

## 2. Modules

| module | what it is |
|---|---|
| `Store` | the tables as one database value and every store and fold operation a sweep makes, as operators from database to database |
| `Sweep` | EXTENDS `Store`: host processes that refresh one adapter; its properties |
| `MCSweep` | the adapters and users TLC runs `Sweep` against |
| `SweepProofs`, `SweepCrawlProofs` | theorems about `Sweep`: types, locks, revisions and history; crawls, retractions, settlement and blame |
| `Verdict` | abstract: what a connection promises about its verdict |
| `Connection` | multiplexer, pump, waiters, reader, supervisor, handle and adapter; implements `Verdict` |
| `MCConnection` | instances for TLC |
| `ConnectionProofs` | the refinement theorem and the other theorems about `Connection` |
| `Balances` | the loop of a refresh over the adapters, connect, the balance lines and what is shown of them |
| `MCBalances` | what the adapters say in TLC's run |
| `BalancesProofs` | theorems about `Balances` |
| `Crawl` | abstract: what a paged read with an exact cursor promises the host that follows it |
| `Bitcoin` | the Bitcoin adapter, its provider, its disk and its host; implements `Crawl` |
| `MCBitcoin` | instances for TLC |
| `BitcoinProofs`, `BitcoinCrawlProofs` | theorems about `Bitcoin`; the refinement of `Crawl` |
| `Decoder`, `Instant`, `Money` | the frame decoder, the instants of the two crates, decimal amounts, each beside a reference definition |
| `MCValues` | one of the three in a behaviour |
| `ValuesProofs` | theorems about `Decoder`, `Instant` and `Money` |
| `Conformance` | two cases of the suite against an adapter with faults |
| `MCConformance` | fixtures for TLC |
| `ConformanceProofs` | theorems about `Conformance` |

### Store and Sweep

`db` is the committed database.  A SQLite transaction is a copy (`txn[h]`): operations
change the copy, a commit installs it, a crash drops it.  `chain[l]` is the rows of
record `l` in insertion order; `crawl` and `retraction` are the tables of these names.
`snap[h]` is what `sweep_resource` loads before its first page, `sweep[h]` its locals,
`conn[h]` what `refresh_adapter` keeps for the connection, `violated[h]` the verdict of
the connection as `Verdict` promises it.

| action | code |
|---|---|
| `Connect` | `cmd_refresh`, `Profile::lock`, `refresh_adapter` up to the first sweep |
| `StartSweep` | `sweep_resource` up to the page loop: status, fingerprint, resume point, `open_crawl`, snapshot |
| `PageArrives` | a `history_read` reply: `judge_page`, `ResumeState::record`, the transaction opens |
| `Ingest` | one turn of `ingest_page` |
| `CommitPage` | a page that is not the last: cursor and commit |
| `JudgeSweep`, `CommitSweep` | the last page: `Gate::disqualifier`, `derive_retractions`, the resource's metadata, `finish_crawl`; then the commit, still inside the held verdict |
| `ReadFails`, `PageLimit` | the error paths of the page loop |
| `Publish` | the reader thread catches the adapter |
| `Crash` | the process dies, or a store error unwinds it |
| `Disconnect` | all resources swept |

Data is abstracted to what the properties tell apart.  An observation keeps its resource,
surface, state, timestamp and a token for the other hashed fields; the content hash is
taken to be injective.  A timestamp is a number or `Unorderable` (`time::instant` returned
nothing).  A derivation may be the empty string.  Reports, counts and wording are left
out.

A page is revealed one observation at a time.  The code has the whole page before the
transaction opens, but nothing it decides depends on an observation not yet ingested, so
the order of revealing is not observable and TLC is spared the set of all pages.

### Connection and Verdict

Every task is a program counter: `callpc[c]`, `pump.at`, `waiter[i].at`, `reader.at`,
`sup.at`, `handle`.  One action is one step between two awaits or locks, named after the
task: `PumpAdmit`, `PumpPermit`, `PumpRecheck`, `PumpIssue`, `PumpWrite` are the
iterations of `pump`, in the order of the code, with its two checks of the terminal reason
around the permit.  `finish`, `terminal_error`, `tombstone`, `deliver`, `on_frame` and
`try_send` keep the names of the functions they translate.  `closing` is the stored permit
of the `Notify`.  Time is abstract: a deadline may pass whenever what it bounds has not
happened, so every order of a deadline and the event it races is explored.

The child is the environment.  It answers each request at most once, at any time and in
any order, or never; what it may do besides is switched on per run (`Behaviours`,
`Strays`).  A reply carries the call it was meant for, which the host never reads: it is
there so that `NoCrossAttribution` can be stated.

`Verdict` has three variables and five actions: publish, end for a violation, end
otherwise, hold, release.  `Connection` implements it under the identity mapping of
`verdict`, `held` and `terminal`.  `Sweep` relies on the same promises: its `violated` is
monotone within a connection and frozen while a host is "committing".

### Balances

The tables are variables: `registered`, `reauth` and `balance_read` are the adapter table,
`resource` and `balance[a]` those of these names.  `host[h]` is a process: `at` is its place
in `cmd_connect`, `refresh` or `refresh_adapter`, the rest its locals.  Each statement
commits by itself, so each is an action; only the rows of one reply share one.

| action | code |
|---|---|
| `BeginConnect`, `upsert_adapter`, `upsert_resource` | `cmd_connect`: the probe, then its writes |
| `BeginRefresh`, `OpenRead`, `SpawnFails`, `Spawned` | `refresh`: lock, adapters, `open_balance_read`, spawn |
| `EnterAdapter`, `List`, `Upserted`, `StatusRead` | `refresh_adapter`: its own read, the hello, `resources.list`, `status.read` and `needs_reauth` |
| `BalancesRead`, `ReadFails` | `balances_read` with what it refuses, the transaction of `append_balance` |
| `AdapterFails`, `Swept` | an error returned by `refresh_adapter`; the sweeps and the close |
| `End`, `Crash` | the command returns; the process dies or an error ends it |

`balance_line` is the freshness join of `balance_history` and the choice of
`render::balance_line`: `shows` is the word on the line and `amount` the figure.  `sumer
balances` takes no lock and reads a resource in one statement, so a property of every state
is one of everything it can show.  A line keeps the adapter it names (`says`), which the
table does not store, to state `FiledUnderItsOwn`.  The date, provider and asset of a line
are left out.

### Bitcoin and Crawl

`place` is the provider: where each transaction is, absent, in the pool or at a height.
`wallets` is the file this process loaded, `crawls[r]` its `Crawl` in hand, `cache[r]` the
file of `seen.rs`.  `at`, `request` and `fetch` are the request loop and the sync it is in,
`host[r]` the crawl a host follows and what it has been sent.  `read` is history: every
balance that was read whole.

| action | code |
|---|---|
| `Ask` | a frame is read from stdin; a batch that repeats a resource is refused |
| `BadPage`, `NotFetched`, `ContinueCrawl`, `StartFetch` | one turn of `history_read`, `balances_read` or `status_read` that needs no provider: a cursor that does not parse, a resource that is not configured or comes after a refusal to go on, a page of the crawl in hand, the begin of a sync |
| `AddressChain`, `PaginationStalled`, `AddressMempool` | one HTTP request of `wallet::sync`, and what it makes of the answer; the last one cuts the first page |
| `AddressStats`, `StatusRead` | one HTTP request of `wallet::balances` or of a probe; `SaveBalances` may fail |
| `FetchFails`, `BalanceUnavailable` | an HTTP error, `Source::classify`, the stale answer |
| `WriteReply` | the only write to stdout, and what the host makes of it |
| `BeginCrawl`, `Timeout` | the host begins or resumes a crawl, or stops waiting |
| `Broadcast`, `Evict`, `Mine`, `Reorg` | the provider, between any two requests |
| `Restart`, `Damage` | the process is replaced, on another wallet file; its file is torn, or loses one figure |

A page is cut under the byte budget (`CutPage`): an observation costs its bytes and a
comma, one over the cap is sent truncated or, when it still does not fit, reported.  Not all
bytes of a reply are in the budget, and there is one in `history.read` only: `Uncharged` has
what nobody counts, the two balance lines of every wallet in a `balances.read` and the degraded
records an entry is given after it was charged.  Sizes
are small numbers with the order relations of the real ones.  A plan, a page and a batch are
`Sorted` sets, the sequences that list a set in its order; `Spent` is what each front of a
plan costs, and a page is the longest front the budget pays for, which is where the loop of
`cut_page` breaks, for no cost is negative.

A listing goes on after the last transaction seen.  When that transaction has itself moved, the
code has no sign of it and the provider makes no promise: it may go on from anywhere, begin
again or have nothing (`GoesOnFrom`), and `fetch.adrift` remembers, for the properties, that
the sync asked such a question.  A file of figures may be torn, when it does not decode, or have
lost a figure, when it decodes and the figure is unknown.

`Crawl` has a plan that is frozen, a reader that is sent its front, and loses the plan at
any time; a page moves the front and reports what it leaves out, and a new plan holds no
confirmed key at or below what was sent.  `Bitcoin` is checked and proved to implement it
for each resource, with the plan read off the snapshot and the cursor the host holds.

### Values

Each of the three modules has the code's algorithm and a reference that says what it is
for: `Decoder` cuts a stream where the pipe does and compares with the split of the whole
stream; `Instant` converts with the formulas of both crates and compares with a calendar
counted one day at a time; `Money` computes on sign, digits and scale and compares with the
integer the text denotes.

### Conformance

`step` is the place in `run_crawl`, one action per await; `exec` is what crossed the wire in
one execution, `across` the `Resumption` that a killed and a resumed run share, `judged` the
executions whose verdict is in.  `Judge` is `assert_execution`, `Compare` the end of
`case_crawl` or `run_pagination_family`.  The adapter plays the fixture, but for at most
`MaxFaults` deviations: an observation lost, invented, repeated or altered, a wrong cursor,
another page, an error, a death, an extra status, a violation.  A fixture is any of
`FixtureFiles` that is true of its own history (`Consistent`, an assumption): it names what
is live, cuts where what is live before the kill is live in the end, and has no more pages
than `MaxPages`, since a drain asks for no more.  `ByLocalId`, the crawl's drift comparison,
is a set of observations numbered within their record.  There is one resource and one
surface, and `received_at` does not step back inside a case.

## 3. Runs

All runs together take about sixteen minutes with two workers.  State counts are distinct
states.

| run | question | bounds | states |
|---|---|---|---|
| `SweepPages` | do the writer lock, resumption and the gate hold up under two processes, several pages and crashes? | 2 hosts (symmetric), 1 record, 2 pages, exact and inexact cursors, 2 definitions, 3 sweeps | 1,456,425 |
| `SweepClock` | what do retraction, revival and the rules of a row do under a clock that steps back? | 1 record, 2 instants, tombstones, 2 definitions, 3 sweeps | 751,133 |
| `SweepGate` | does any fault of a page, a reply or the connection let a retraction through, and does a refresh end? | 2 resources, all faults, all cursor kinds, 2 sweeps, fairness | 406,089 |
| `SweepExempt` | do exactly the exempt records survive? | 2 records, 3 ages, `history_start`, degraded records, 2 vantages, 2 sweeps | 1,652,889 |
| `ConnAnswers` | is an honest adapter, however slow, served right and not accused, and does every call return, the queue full or not? | 4 calls, 3 ids, 2 permits, queue of 1, 1 frame in the pipe, fairness | 158,967 |
| `ConnEnds` | does everything end, and for the true reason, with an adapter that does anything? | 2 calls, 2 ids, 1 frame, fairness | 154,321 |
| `Freshness` | is a line shown as current exactly while the read behind it is the last one tried? | 1 process, 2 adapters sharing a resource, 1 line, 2 figures, 3 refreshes of one adapter and 1 of the other | 455,031 |
| `ConnDuplicate` | (violation) can an adapter that answers once be charged with a duplicate? | 3 calls | |
| `Bitcoin` | is a host that follows its cursors served the crawl it was promised, whatever the chain, the provider, the disk and the process do? | 2 resources, 2 addresses (one shared), 3 transactions, 2 heights, listings of one entry, 2 requests or crawls, 1 move of the chain, 1 fault, fairness | 197,990 |
| `SyncMisses` | (violation) is a sync the wallet's whole current state? | 1 address, 1 transaction | |
| `Values` | are frames, instants and amounts what their references say? | see below | 205,368 |
| `Conformance` | is no honest adapter failed, and every pass earned? | 3 fixtures of at most 4 observations, 4 pages, 2 faults | 220,034 |

**Why the bounds are enough.**  Three sweeps are what the longest story needs: a record is
observed, disappears and is retracted, and returns; or it is observed under one
definition, seen under another, and disappears.  The rules are per record, except
emptiness and exemption, which need two (`SweepExempt`).  Two pages give a page that is
not the last, and two instants every order of two rows.  Four calls on three ids run out of
ids with `MaxInFlight` 2 in flight and one queued; a queue of one is full with one, and then the third
call after the hello waits for room, while the pump holds the first with its write blocked.
`SweepPages` has a fault on a page that is not the last (a cursor that is not exact);
`SweepGate` has every fault, on single pages, and with any one condition of the gate left out
one of the two finds a retraction.  Every
bound is a named constant: `MaxPages` is `MAX_PAGES`; `PageCap`, `MaxListed`, `MaxCrawls`,
`MaxFrames` exist in the model only, and `IdLimit` stands for `u64::MAX`.

In `Freshness` a second process could only wait for the lock, and the reader needs no
process; three refreshes are a figure, a failure, and what is shown after another look; the
second adapter is there to answer in the first one's place.  `MaxReads`, `MaxLines` and
`MaxEntries` are bounds of the model: the counter is 64 bits wide and a refresh adds two.

`Bitcoin`: listings of one entry page after every transaction; one of three is over the cap
until it is truncated, one fits only when it is confirmed, and a frame of seven bytes holds
the entries of a batch and little more, so a page may carry everything, something or
nothing; the report of a record left out weighs `ReportBytes`, four of the seven, and a balance
line of a wallet `LineBytes`, so what nobody counts may well take a reply over its frame.  Each mutant of a paging rule needs one lost reply or restart, or one move of the
chain, and dies within these bounds.  `MaxHeight`, `MaxTime`, `MaxUses`, `MaxChanges` and
`MaxFaults` exist in the model only.

`Values`: streams of up to six bytes over five kinds of byte (LF, a digit, a quote, the two
halves of a character) with frames of up to four, so a frame may meet, pass or miss its
limit wherever the stream is cut.  The calendar runs from year 0 over one whole era of 400
years and the seam after it, and ten years from the epoch; times, offsets and fractions are
put on each day from 1999-12-25 to 2004-03, which has a leap century, a leap year and the
years between.  `Resolution` is three digits for nine.  Amounts have three digits and two
decimals at most, and the texts are all of up to four characters over seven, with some
longer ones, so every limit is met from both sides.

`Conformance`: two deviations are the same drift in both executions that are compared.  The
fixtures have a record superseded after the cut, one tombstoned before it, a cursor and a
restart, an omission and a balance.  The run stops following a behaviour once an assertion
has failed (`CONSTRAINT Undecided`): both properties speak of behaviours without a failure,
and no action takes one back.

**Symmetry.**  `HostSymmetry` (`SweepPages`) and `CallSymmetry` (`ConnDuplicate`) are used in
runs without liveness only; nothing orders hosts, or the calls after hello.

**Deadlock** is checked in the runs of `Sweep` and `Balances` (an idle process may
always begin).  A connection really ends, a stream is read, a case is decided, and the host
of `Bitcoin` has used up its requests, so the other runs say `CHECK_DEADLOCK FALSE`.

**What the properties say.**

- `SweepPages`: `NoRetractionOnceViolated` (see `SweepGate`; here over two pages, and resumed),
  `SnapshotCurrent` (what was loaded before page 1 is what the store holds
  when it is used), `RevisionsAreArrivalOrder` (a revision names one row, and a replay
  gives it back), `ResumesWhereItStopped` (a resource has one resume point, and a sweep that
  starts at a cursor continues an unfinished one of the same definition), `RetractionLicensed`
  (a whole, clean sweep that did not see the record), `BlameFollowsTheLastSighting` (the
  reason of a retraction).
- `SweepClock`: `RetractionCutsChain` (rows up to a retraction's revision come from
  earlier crawls, rows above from later ones), `ObservedNotBuried` (revival),
  `RulesAreTheHeads` (a row has the rules of the crawl that saw it last),
  `HistoryIsAppendOnly`.
- `SweepGate`: `NoRetractionOnceViolated` (no retraction commits on a connection caught lying,
  nor after a sweep that did not start at the beginning, did not drain, met a fault of any kind
  on any page or had no derivation; and a sweep never forgets a fault.  It is said of the
  sweep's own state when it commits and not of what the gate recorded),
  `LastSweepOwnsTheRecord` (a record two resources
  report is live under the one swept last), `RefreshEnds`.
- `SweepExempt`: `ExemptRecordsSurvive`, `CompleteSweepSettles` (what a complete sweep leaves
  live it saw, or it was exempt).
- `ConnAnswers`: `NoCrossAttribution`, `PermitsAreConserved`, `HonestIsNotCharged`,
  `EveryCallReturns` (the call whose write is blocked, the one in the queue, the one that waits
  for room in it).
- `ConnEnds`: `ExitedMeansClean`, `VerdictSpec` (the refinement), `CaughtMeansEnded` (a caught
  adapter is killed, whoever sent the kill; a gone handle leaves no process; every close
  completes; a connection that has ended leaves no call untold).
- `Freshness`: `UnreadIsNotLive` (between the opening of a read and its rows no line is
  current, whatever fails), `FreshnessFollowsTheRead` (a line becomes current only with a
  reply that carries it, stops only with another read, and no failure blanks it),
  `FiledUnderItsOwn`.
- `Bitcoin`: `CrawlSpec` (the refinement: one frozen plan, in order, each confirmed record
  once, an account of what is left out), `CrawlsEnd` (page after page the crawl comes to its
  end), `SettledIsRead` (what stays confirmed while its address is walked is in the sync,
  however the listing is paged, as long as the transaction a page was asked after was still
  there), `ConfirmedWins` (what was shown confirmed is never planned
  as pending), `StaleWasRead` (a stale figure was read, of this very address set, at the
  instant it is dated, or is unknown), `RepliesFit` (a reply to `history.read` without evidence
  fits its frame but for the degraded records it names, unless the entries alone, which nothing
  can leave out, do not).
- `Values`: `SplitInvariant`, `InstantsAreExact`, `TextIsTheAmount`, `ArithmeticIsExact`.
- `Conformance`: `HonestPasses` (an adapter that plays its fixture right fails no assertion,
  across kill and resume too), `PassIsEarned` (where nothing failed, each execution said what
  the fixture says, and the executions agree).

Besides, `TypeOK` of each of `Sweep`, `Connection` and `Bitcoin` is an invariant of one run;
those of `Balances` and `Conformance` are proved only.

Each property of a run has a mutant in `PROJECT.json`: a definition changed as a plausible bug would change
it, under which TLC finds the property violated.

**Fairness.**  `Sweep`: weak fairness of each host's steps, for a process that is not
killed is scheduled and every read has a deadline; none of `Connect`, `Publish` or `Crash`.
`Connection`: weak fairness of each task (the runtime schedules it and its timers fire)
and of `Release` (a commit returns).  `ReaderPublish` and `SupFinish` have strong fairness,
because both wait for the verdict latch that a caller may take and release again; a
connection makes finitely many commits, so a waiter gets the latch.  Nothing is assumed of
the adapter or of the callers; `ReadError`, `Drop` and `CloseBegins` need never happen.
`Bitcoin`: weak fairness of the process, every HTTP request of which has a deadline, and of
the host that follows a crawl and asks on; none of the provider, the restarts or the losses.

## 4. Findings

Disagreements between the code and what the repository says of it, each with a run:

1. **A first answer judged a duplicate** (`ConnDuplicate`).  `Mux::finish` marks pending
   slots answered.  When a write deadline makes the pump finish the connection, the reader
   is still reading, and an answer already in the pipe is charged as `DuplicateId`.
2. **A transaction missing from both listings** (`SyncMisses`).  A sync asks for an address's
   confirmed listing and then for its pool.  What is mined between the two is in neither, and
   nothing fails, though `wallet.rs` promises the whole current state and guards against the
   other order only.  The host takes the crawl for complete and retracts the pending record.

Noted while reading, with no run of their own:

- A record that is retracted and comes back unchanged gets a second row with the same
  content hash; a comment in `render.rs` assumes two such rows cannot both exist.
- With a backwards clock the rules that decide a retraction's reason are those of the
  fold's head and not of the last sighting, and the resource that swept a record last need
  not own it, although a comment in `hash.rs` says so.  `BlameFollowsTheLastSighting` and
  `LastSweepOwnsTheRecord` are therefore checked with one instant, and proved of every clock
  that goes on (section 5).
- The pump looks at the terminal reason and issues the id under two acquisitions of the
  lock; a finish in between leaves the request pending until its own deadline, and its caller
  is told Timeout.
- After a timeout the permit is released and a serial adapter is sent the next request
  while it may still be working on the last; `spec/wire.md` §7 says the host waits for each
  reply.
- A host that kills a child in the middle of a frame charges it with `UnterminatedFrame`.
  `HonestIsNotCharged` and `ExitedMeansClean` therefore except a connection the host is
  tearing down itself.
- A kill request without a violation that is first in the channel makes the terminal reason
  an ordinary exit, although the reader has published a violation.
- Bitcoin: `balances_read` has no budget, and adds two balance lines for every configured wallet,
  null ones included (`main.rs:583-584`), to its status entry.  With enough wallets the reply
  passes the frame limit although the entries alone fit it many times over, and an error goes
  out in its place, on every read; `main.rs:128-130` says of an over-sized reply that the status
  entries alone overflow it.  An entry of history is given its degraded records (`main.rs:719`)
  after it was charged (`main.rs:683`), and a page does not count them (`map.rs:705-709`).
  `RepliesFit` therefore speaks of `history.read`, and allows what is reported on top.
- Bitcoin: a listing is continued after a transaction that a reorganisation may have thrown out
  since, and what a provider answers then is its own; the sync takes an early end for the end
  of the listing.  `SettledIsRead` claims nothing of a sync that asked this.
- Bitcoin: the evidence of an HTTP error is charged when its entry is pushed, after earlier
  resources may have spent the budget, so a reply with evidence can pass the frame limit and
  go out as an error (`RepliesFit` excepts it).  A batch whose entries alone use up the
  frame would be served empty pages forever; the batches TLC runs do not, and for larger ones
  `RepliesFit` says that the entries are all there is in the reply.
- Bitcoin: only a page that repeats the one before it counts as a stalled listing; a provider
  that answers in a longer cycle keeps `address_chain` reading.  A pool listing cut at the
  server's limit is taken for complete.
- Bitcoin: amid the unconfirmed, a cursor resumed by another process may send a pending
  record again; `Crawl` allows that of what is not confirmed.  A record that confirms at or
  below the resumed mark is not sent by that crawl: one of the adapter's "Known limits".
- Conformance: an honest adapter can be failed if the clock steps back between a killed run
  and its resume, or if a fixture cuts between a record and its tombstone; `Consistent`
  excepts the latter.  A resumed case compares what is live, so a superseded revision may be
  lost across the kill and the case still pass.

## 5. Proofs

TLAPS proves these for every value of the constants, from the named assumptions
`NumbersAssumption`, `SentinelAssumption` and `ReasonAssumption` (`Store`),
`BoundsAssumption` (`Sweep`), `ConnectionAssumption` (`Connection`),
`BalancesAssumption` (`Balances`), `BitcoinAssumption` and `SentinelAssumption` (`Bitcoin`),
`ConformanceAssumption` (`Conformance`), `DecoderAssumption` (`Decoder`),
`InstantAssumption` and `CalendarAssumption` (`Instant`) and `MoneyAssumption` (`Money`),
which say that adapters, instants, surfaces and transactions are ordered as
numbers, that NULL is no value, that a foreign cursor is none of the adapter's own, that an
observation at the cap fits a page and a page a frame, that a fixture is true of its own
history and readable within `MaxPages` pages, that the days counting starts from are real dates
with their number, that times are put on days of the validator's years and fractions have some
greatest length, that every amount has a text short enough to be read, and that the sets are what their comments
say.  No instance is assumed finite, except that a connection has the ids
`0..IdLimit` and that the transactions and the resources of `Bitcoin` are finitely many.

| theorem | statement |
|---|---|
| `TypeCorrect` (`SweepProofs`) | `Spec => []TypeOK` |
| `SnapshotStaysCurrent` | `Spec => []SnapshotCurrent` |
| `RevisionsFollowArrival` | `Spec => []RevisionsAreArrivalOrder` |
| `CaughtConnectionsNeverRetract` | `Spec => NoRetractionOnceViolated` |
| `ObservedIsAlive` | `Spec => []ObservedNotBuried` |
| `HistoryOnlyGrows` | `Spec => HistoryIsAppendOnly` |
| `ResumesAreContinuations` (`SweepCrawlProofs`) | `Spec => []ResumesWhereItStopped` |
| `RetractionsAreLicensed` | `Spec => []RetractionLicensed` |
| `RetractionsCutChains` | `Spec => []RetractionCutsChain` |
| `RulesFollowTheHeads` | `Spec => []RulesAreTheHeads` |
| `ExemptionsHold` | `Spec => ExemptRecordsSurvive` |
| `CompleteSweepsSettle` | `Spec => CompleteSweepSettles` |
| `BlameIsRight` | `Spec /\ ClockGoesOn => BlameFollowsTheLastSighting` |
| `LastSweepOwns` | `NoTombstones => (Spec /\ ClockGoesOn => LastSweepOwnsTheRecord)` |
| `ConnectionImplementsVerdict` (`ConnectionProofs`) | `Spec => VerdictSpec` |
| `TypeInvariant` | `Spec => [](TypeOK /\ Requests)` |
| `AnswersAreAttributed` | `Spec => []NoCrossAttribution` |
| `PermitsAreNeverLost` | `Spec => []PermitsAreConserved` |
| `ExitsAreClean` | `Spec => []ExitedMeansClean` |
| `LateAnswersAreNotCharged` | `Contract => (Spec => []HonestIsNotCharged)` |
| `TypeCorrect` (`BalancesProofs`) | `Spec => []TypeOK` |
| `UnreadNeverLive` | `Spec => []UnreadIsNotLive` |
| `FiledUnderTheirOwn` | `Spec => []FiledUnderItsOwn` |
| `FreshnessFollows` | `Spec => FreshnessFollowsTheRead` |
| `SpecTypeOK` (`BitcoinProofs`) | `Spec => []TypeOK` |
| `SpecStaleWasRead` | `Spec => []StaleWasRead` |
| `SpecRepliesFit` | `Spec => []RepliesFit` |
| `SpecSettledIsRead` | `Spec => []SettledIsRead` |
| `SpecConfirmedWins` | `Spec => []ConfirmedWins` |
| `SpecCrawlSpec` (`BitcoinCrawlProofs`) | `Spec => CrawlSpec` |
| `SpecExactlyOnce` | `Spec => [](\A r \in Resources : Followable(r)!ExactlyOnce)` |
| `SpecTypeOK` (`ConformanceProofs`) | `Spec => []TypeOK` |
| `SpecPassIsEarned` | `Spec => []PassIsEarned` |
| `SpecHonestPasses` | `Spec => []HonestPasses` |
| `SplitAnywhere` (`ValuesProofs`) | `DecoderSpec => []SplitInvariant` |
| `InstantsExact` | `CountSpec => []InstantsAreExact` |
| `ArithmeticExact` | `MoneySpec => []ArithmeticIsExact` |
| `TextsExact` | `MoneySpec => []TextIsTheAmount` |

*Types.*  `TypeOK` is inductive by itself: it says besides the types which locals exist in
which phase.  One lemma per store operation says that it maps a database to a database, one
per action that it keeps `TypeOK`.

*The snapshot and the revisions.*  Neither is inductive: a second writer, or an appended row
whose revision does not follow the fold, would break them.  `SweepInv` adds that a host at
work holds the lock (so every other is idle), and for the working host that its snapshot
is current, that the revisions of its transaction are in arrival order too, and what its
transaction can have changed of the committed database before it commits.  The lemmas
`ReplayOfAppend` and `ReplayOfStamp` relate the store's operations to the fold's: to append a
row and replay is to replay and ingest; a stamp changes no replay.

*The verdict.*  A step that retracts is `CommitSweep` of the lock's holder; what it commits
was settled by `JudgeSweep` with the verdict read, and `Publish` cannot move it since.
`SweepInv` carries that: a transaction about to commit that holds new retractions was judged
with no violation.

*History.*  A commit installs a copy made pages ago, so that history only grows needs the copy to
hold all that is committed (`Stays`), and that a new row is buried by nothing needs that no
retraction reaches past its chain (`Within`).  `HistoryInv` says both of every transaction,
and that what a host has observed is alive in it.  An observation that is only stamped is
not buried because the fold's dedup asks; one that is appended lies above every retraction; and
the judgement retracts nothing it has seen.

*Crawls and retractions.*  What a retraction says is said of its crawl, the rows of its chain and
the order of the two.  `Sound` collects it: cursors belong to the newest crawl, rows carry
crawls that exist, a retraction has a whole crawl between the rows it buries and those it
does not.  `CrawlInv` says it of the committed database and of every transaction, and that a
sweep at work (`AtWork`) has the newest crawl, still open, which is on no row of a record it
has not observed.  Then a new row of the open crawl lies after every retraction, since none
was licensed by an open crawl (`IngestedSound`), and the judgement's retractions lie after
every row of their chains (`SettleSound`).

*Settlement.*  What the commit of a sweep does is a property of one step, but everything it does
was decided a step earlier, from what pages wrote before that.  `SettleInv` therefore keeps,
while a host waits to commit, where its transaction came from: `Judged` says that it is
`settle` of a database that differs from the committed one only in the chains of what the
sweep observed (`Beside`), each of which carries the open crawl (`Seen`), with the verdict
that still stands.  `SettlementSpares` and `SettlementLeaves` then read the two properties off
the cases of the derivation (`DeriveOutcome`), which ask for a chain's head: `HeadExists`
shows by well-founded induction on lengths that every chain has one.  That a vantage moves
only with a *new* discrepancy needs that a discrepancy's crawl has drained (`NotedByDrained`),
and that a row carries the rules of the last crawl that saw it is `RulesOfCrawl`.

*Blame.*  Which report is a record's head is decided by the wall clock, the rules it is
judged by are the head's, and what a reader expects is the word of the last crawl.  That the
three agree is no theorem of `Spec` (section 4).  `ClockGoesOn` is the hypothesis that makes it
one: no page is stamped before a row that is already stored, nor with the very instant of a row
of another crawl unless there is only one surface, because the fold breaks such a tie by the
surface.  The runs with one instant and one surface are behaviours of that kind.  `SightInv` then
says, of the committed database and every transaction, that the head of a chain was seen last of
all its rows (`HeadSeenLast`) and that a row's report is of the resource of the crawl that saw it
last (`OfResource`).  `LastSweepOwns` assumes besides that nothing reported is a tombstone
(`NoTombstones`), for a tombstone ends a record wherever it was reported.

*The refinement.*  A step of `Connection` maps to a step of `Verdict` only if what the reader,
the kill channel and the supervisor carry from one step to a later one is a violation, or an
end, when it is used.  `Carried` says so and is inductive; then each action is a step of
`Verdict` or a stutter.

*Answers.*  `TypeOK` of `Connection` needs `Requests`: between taking a request and being done
with it the pump has one.  Whose reply a call gets is decided when an id goes out, long before
the reply: `Attributed` says that from then on everything in the id's name (the waiter, the
oneshot, what the adapter has yet to answer, what is on the pipe) means one request, and that an id
not asked yet has nothing in its name; `MeantFor` and `Unasked` are its parts.  A call is
answered in two places, by its waiter and by `finish`, so `Queued` and `Taken` say that a request is
in one of them only.  That a call told of an end is told the one there was needs `Truthful` of
results and oneshots, and of the pump that it stops only with a terminal reason or a closed
handle (`Quiet`).

*Permits.*  `PermitsAreConserved` is inductive given the types and `Answers`: a permit moves between the
semaphore, the pump and a waiter, and an id that gains a waiter had none (`Attributed`), which is
what makes the count of waiters grow by one.

*Exits.*  An exit is judged after the reader was joined (`Joined`), and a verdict published in a
connection still up is either about to be sent on the kill channel or in it (`Reported`); the
channel has capacity one, so what could be in its place is only the pump's own word that the
host is tearing down.  Then a supervisor that drained the reader and found the channel empty
has nothing against the adapter (`Clean`).

*The adapter that keeps the contract.*  `HonestIsNotCharged` is no theorem for every adapter, so the
theorem assumes `Contract` of the constants: no unasked replies (`Strays = {}`), and of
`Behaviours` none that dies, forks or outlives its stdin.  It may be slow, deaf, or cut off in
the middle of a frame, and the pipe may fail.  Until the host tears the connection down, every
issued id is asked at most once and answered at most once (`Once`), so `deliver` finds an id
pending or tombstoned, never answered; the hello is alone until it is answered
(`HelloFirst`); nothing has ended (`Calm`).

*Balances.*  That a line is not current between the opening of a read and its rows is not
inductive: it needs that no row is newer than the read of its adapter, and that the read a
process carries is still the current one when its rows are written, so that nobody else
opens one meanwhile.  `BalInv` says so, with the lock's holder as the only process at work;
`FiledUnderItsOwn` needs besides that a process past the hello check is on a connection of
its own adapter, and that what it asks about has rows.  A step that stores nothing is
reduced to its process by `NothingStored`; `LatestIsLast` gives the newest row of a line.
What `sumer balances` shows is a function of one table and one read (`LineOf`), so
`FreshnessFollowsTheRead` comes down to the two writes it reads: a new read, which no row can
be of yet (`Reopened`), and a reply added to the table (`Extended`).  The figure of a line
that is stale is the last there is (`LineShows`), whatever made it stale.

*Sets in order.*  A plan, a page and a batch are chosen, as the sequence that lists a set in
its order, so everything about them first needs that there is one: `SetsHaveOrder` takes the
smallest set without one, which has a first key or resource, and lists the rest.  `SumsExist`
does the same for the running cost of a plan.  From these come `PlanSorts`
and `PageIsFront`: a page is a front of the plan that the budget pays for.

*The adapter's types.*  `TypeOK` of `Bitcoin` needs `Working`: a process that works on a request
has a query left, and one that reads the provider a page it can resume from.  `Asked` goes with
it: a resource of the batch has an entry exactly when its query is gone, and no resource has two.
`ProcessAnswers` then says of all the turns and reads together what a step may do to a request:
nothing, refuse its page, or push one entry for the query in hand; most of what follows goes by
that and not by the actions.

*Stale answers.*  The figures an answer is made of were read before it, perhaps by another
process: `FilesWereRead` says of every file that decodes what `StaleWasRead` says of an answer
(`WasRead`), and a file that has lost a figure still says it of the other (`FileDamaged`).

*Replies.*  What a reply to `history.read` weighs is bounded by the budget that is left
(`WithinFrame`): the two add up to at most the frame and what is reported so far (`Reported`),
or nothing was left from the start and the entries and the reports are all there is.  What an
entry adds to the reply beyond its charge is what it newly reports (`ReportedGrows`).

*Syncs.*  `SettledIsRead` and `ConfirmedWins` speak of the end of an address's listing, and hold
of it because of each page before.  `Surely` says how far a listing has come: what stayed
confirmed and lies above the last key seen is in the sync, where it is, unless the sync is adrift.  `PageOfListing` is the
lemma about the provider's paging: a page of the greatest keys below the last one, full or not,
leaves nothing out above its own least.

*The crawl.*  `CrawlInv` has three parts.  `Following`: a request carries the cursors its hosts
have, and asks the provider only of a crawl that is not in hand.  `Cut`: an entry in flight is a
page of one plan, cut at the host's cursor, and the snapshot kept is the one it was cut from,
or gone with its last page.  `Resumable`: nothing confirmed that a host has lies above its
cursor.  `StepSorts` shows that a step does one of five things to a resource's crawl (leaves it
the same, drops it, begins it, serves a page, delivers one), and there is one lemma for each:
dropping is `Lose` or `Stop`, serving `Plan`, when nothing was held, or no step, delivering
`Page`.  `CursorResumes` is the heart of it: the cursor after a page leaves all that was not sent
and nothing confirmed that was, whether it points amid the confirmed or carries the high-water
mark amid the pending.  `WholePlan` says that what the last page sent and reported is all of
the plan.

*Once.*  That no confirmed record is sent twice follows from the steps of `Crawl` alone
(`OnceKept`): what is sent and what is left, one after the other, repeat nothing.

*A pass.*  What a run shows is settled when it is judged, but what is compared at the end are
runs judged long before.  `PassInv` keeps of each what its judgement asked (`Earned`), that
nothing was dropped of a transcript in which nothing is over the cap (`Drained`, by `KeptOf`),
that the fold across the kill is that of the two runs one after the other (`Folded`), and of
a finished case what the comparison asked (`Agreed`).  `SameByLocalId` takes the comparison of
two crawls back to their transcripts: the sets are equal only if each record has the same
observations in the same order (`PlacesDiffer`).

*The honest adapter.*  `HonestInv` says that without a fault nothing has failed, every judged
run was `Played` (it read a whole stretch of the history, page after page, and asked what the
script has it ask), the run at hand is on the way there (`OnScript`), and that the paging
state of a killed run points where the resumed one begins (`Spanned`).  The drain asks for a page
only while pages are left, and as many as `MaxPages` are enough (`OneMoreTurn`).  A killed run ends
in the middle of the history and what is live there is live in the end (`LiveAfter`); what
the two runs have live together is what the whole has, both when the resumed run goes on at the cut
and when it begins again (`LiveInTheEnd`).  `PlayedIsJudged` and `PlayedAreAlike` then say that a
run that was played fails no assertion and that two of them compare equal.

*Steps of a computation.*  What a decoder, a counter of digits or a table of powers computes is
written as a recursive function on `0 .. n`.  `Iteration` shows, by the least number at which it
would fail, that such a function exists and takes the values its equation gives; what is
said of all its arguments after that is said by a least counterexample again.

*The decoder.*  The code judges a stream byte by byte as the pipe delivers it; the reference
looks at the stream whole.  `OneByteMore` says of the reference what one more byte changes: it
ends the line in progress, or makes it longer, and judges no earlier byte anew.  `Judged` relates
the decoder's buffer, violation and frames to the bytes it was given, and one byte keeps it
(`JudgeByte`).  `Push` is then as many such steps as the chunk has bytes, so where the stream is
cut cannot matter.

*The calendar.*  Both algorithms count years from March.  The date of a day number and the
number of a date are shown to be inverse (`ThereAndBack`, `BackAndThere`), era by era, from the
divisions they are made of; the day after a date has the number after its number
(`FollowingCounts`), month ends, leap years and centuries included, and so counting from any real
date meets the formulas on every day.  An instant adds a wall clock, which may show the day before
or after, and a fraction: the digits that are kept and the digits that were written are compared
in the finer unit of the two (`FractionIsExact`).

*Amounts.*  Every amount there is has fewer digits than the limit, whatever operations made it
(`MoneyInv`), and this is what bounds what a sum can be: two coefficients rescaled to the finer
scale stay below the highest power of ten that digits are counted by, so the count is right
(`DigitCountIs`) and a refusal says that the digits really are too many.  Comparison and hashing
go by what an amount is worth in the smallest unit: `NormalUnique` shows that a worth has one
form without trailing zeros.

*Texts.*  A text of the grammar is an optional sign, digits and a point before the last few of them
(`TextOf`, `ShapedText`, `TextShaped`), and so is what is written (`FormatIs`).  The number that is
read counts the digits up from the left, the digits that are written are taken off a number from
the right: `CountedSpells` and `SpelledCounts` say that either has what the other made, and
`TextUnique` that sign, digits and scale make one text.  From these come both directions,
`ReadsBack` for every amount there is and `WritesBack` for every text that was read.  `ParseCases`
goes through the early returns of the parser: what it calls misplaced is a character that nothing
in the grammar has behind what came before (`HaltedIsRight`, `CutIsRight`), and whatever gets past
them is a text of the grammar (`GrammarIs`), refused only beyond a limit (`OutcomeIs`).

**Only model-checked:** liveness (`RefreshEnds`, `EveryCallReturns`, `CaughtMeansEnded`,
`CrawlsEnd`), which needs fairness and ENABLED.  Every invariant and action property of the passing
runs is proved, three of them (`BlameFollowsTheLastSighting`, `LastSweepOwnsTheRecord` and
`HonestIsNotCharged`) under the hypotheses their theorems name.

## 6. Not modelled

Besides the components marked so in the inventory: `init`, the counts and texts of
reports, the recorded transcript of the multiplexer, serialisation errors of a request (they
cannot happen) and the closing of the semaphore (nothing closes it), the child's
environment, and SQLite itself (transactions are atomic, the disk keeps what was
committed).

Of a connection, frames are whole lines: the decoder's oversize and non-UTF-8 violations
take the same way as a line that is not JSON.  A process forked by the adapter that writes
does so as the adapter while the adapter lives.

Of the Bitcoin adapter: hello, `resources.list`, unsupported operations and frames that do
not parse (they change no state), how the fields of an observation are derived from a
transaction, the command line, and the recording and replay of HTTP fixtures.  The provider
is one that answers a request from one state of the chain, and anything to a listing continued
after a transaction that has moved.

Of the conformance suite: the probe of an undeclared operation, the envelope errors, the
comparison of resources, statuses, grammar, provenance and the FDX map, which judge one
reply by itself, and `protocol_violations`, whose adapter is the one `Connection` has.

Of the wire and money crates: the serde shapes and the grammar of an `AssetId`, parsing
without state.  The fake adapter plays fixtures for tests; the models have adapters that
may do more.

## 7. Plan

In order of what a mistake would cost:

1. `Sweep` with `Verdict` in place of `violated`, as a composition.
2. Several resources and surfaces in `Conformance`, and the cases it leaves out.
3. The queries of `history` and `show` against the tables of `Store`.
