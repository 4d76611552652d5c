# Busbar: TLA+ verification project

Busbar is an LLM gateway written in Rust. Clients speak one of six wire
protocols to it; it picks an upstream ("lane") from a pool, forwards the
request, translates the answer back, fails over to another lane when the
upstream misbehaves, and meters clients that hold virtual keys. It keeps no
queue and no log: what can go wrong lives in a handful of atomics, small locked
maps and one SQLite table that every request task, a health prober and some
detached writer tasks touch concurrently. This directory models that part.

Paths below are relative to the repository; `src/store.rs` is the file
`src/src/store.rs` of `PROJECT.json`.

## 1. The system and its parts

| component | code | state it keeps | operations | depends on |
|---|---|---|---|---|
| breaker cell | `store.rs` `BreakerCell`, `cell_*` | per (pool, lane): state, cooldown deadline, streak, probe flag, outcome window, SWRR accumulator; a transition lock | peek (`cell_ready_breaker`), admit / win the probe (`cell_acquire_breaker`), record failure / success, release the probe, trip on hard-down, recover | called by the failover engine and the prober |
| cells of a lane | `store.rs` `cell`, `record_hard_down_all_cells`, `recover_lane`, `record_probe_*_all_cells` | the default cell and a map pool -> cell behind a read-write lock | create on first use (copying the default cell), apply an outcome to all cells | breaker cell |
| weighted selection | `store.rs` `select_weighted_for`, `reset_swrr_for` | `current_weight` of each cell, a shard lock per pool | filter, pick, reset after a recovery | breaker cell (peek) |
| cooldown escalation | `store.rs` `compute_cooldown_with_retry_after` | none | backoff, jitter, Retry-After floor | breaker cell |
| lane permits, lifetime budget | `store.rs` `try_acquire`, `spend_budget`, `refund_budget` | a semaphore and a `max_requests` counter per lane | acquire / release, spend / refund | failover engine |
| disposition pipeline | `breaker.rs` `classify`, `normalize_raw_error` | none | upstream error -> transient, rate limit, hard down, client fault, context length | failover engine |
| failover engine | `forward.rs` `pick_among`, `forward_with_pool_parsed`, `forward_once`, `handle_*` | per request: excluded lanes, hops, deadline, the permit, the probe guard | pick, dispatch, relay, record, retry, exhaustion modes, fallback chain | all of the above |
| stream body | `forward.rs` `FirstByteBody` | per stream: the permit, the translator, what is still to be billed and refunded | relay a chunk, end, break, be dropped | failover, translation, metering |
| health prober | `health.rs` | per lane a ticker | probe, record on all cells | cells of a lane |
| governance metering | `governance.rs`, guards of `route.rs` | rate map, sub-cent carry, `usage_counters` rows in SQLite | rate check, atomic charge, refund, token spend, sweep | ingress, stream bodies |
| virtual keys, admin API | `governance.rs` `lookup`, `refresh`; `admin.rs` | key table in SQLite, two cached indices, `EXISTENCE_GATE` | create, patch, delete, list, refresh | metering, auth |
| front-door auth | `auth.rs` | none | extract and compare credentials | keys |
| ingress routing | `route.rs` | none | parse path and body, ACL, guards, dispatch, finish | metering, failover |
| routing policies | `routing/*` | latency averages (`store.rs`) | order the candidates | failover |
| configuration | `config.rs`, `config_validate.rs` | immutable after start | parse, validate | all |
| protocol translation | `proto/*`, `ir.rs`, `json.rs` | per stream: `StreamDecodeState` of a reader, the open blocks of a writer, the counts and the framing of `StreamTranslate`, `GeminiJsonArrayFramer` | requests, answers and streams to and from a common form | stream body |
| wire encodings | `eventstream.rs`, `sigv4.rs` | none | framing, signing | translation |
| observability | `observability.rs`, `metrics.rs` | counters nobody reads back | export | - |
| process, TLS, guards | `main.rs`, `tls.rs`, `net_guard.rs`, `limits.rs`, `handlers.rs`, `state.rs` | - | start-up, sockets, read-only handlers | - |

How they interact. A request task authenticates, pins its clock, passes the
rate and budget guards, then loops: it filters the pool's lanes by peeking at
their cells, picks one by weight (or by policy, or by session affinity), admits
itself to the cell (winning the probe if the cell is Open and its deadline has
passed), takes a permit of the lane, sends, and records one outcome. The answer
is streamed to the client by a body object that keeps the permit, may still
record a failure, and bills tokens at its end. The prober and hard-downs touch
every cell of a lane at once. Refunds and token spend are written by detached
tasks.

What is hard. (1) A cell is several atomics; readers take no lock, writers do,
and some decisions are made before the lock and used under it. (2) Outcomes of
requests dispatched before a trip arrive after it. (3) The single-flight probe
is a flag anyone may clear, and a request may die between winning it and
reporting. (4) Cells are born while operations over all cells run. (5) Selection
works on a set filtered before the lock, while a recovery resets accumulators.
(6) Backoff arithmetic in fixed-width words over unbounded streaks. (7) Charges,
refunds, late token counts, lost writes and restarts on one ledger row. (8) The
loops of failover: one set of exclusions over lanes, lost races, permit waits and
fallback pools. (9) A stream ends by its end, a transport error or a drop, in any
order, and permit, budget unit, breaker and bill must each be settled once.
(10) Streaming protocols that mark blocks are synthesized from protocols that do
not, with indices computed from what happens to be open. (11) A change of a
virtual key and the reload of the cache it ends with are four separate database
calls and a swap.
`PROJECT.json` lists these under `hazards`, each at its line with the properties
that watch it.

What makes each part correct:

* cell: flag and state agree; a HalfOpen cell holds no future deadline; nobody
  but a hard-down moves the deadline of an Open cell; a trip has the evidence
  its configuration asks for; a probe is always decided; the phases change only
  as `docs/reliability.md` draws them.
* lane: a hard-down seals all cells and a recovery reaches all of them, those
  being created included.
* selection: shares proportional to weights, no drift, no starvation.
* cooldown: the documented doubling, capped, jittered, floored by Retry-After.
* metering: the ledger accounts for every fee; the flat fee is a hard cap;
  remainders are not billed twice; RPM holds.
* failover: permits and budget units are conserved, every probe has an owner, a
  lane that failed is not asked again, faults count once and not against the
  innocent, every request can go on by itself and has less to go through with
  each step.
* streams: blocks pair, frames come in the order a strict client accepts, every
  end is told, and breaker, budget and bill are told the same story once.
* keys: after the answer to an admin call the change is visible to every
  request, and a revoked key stays out.

## 2. Modules

| module | models | extends / composes |
|---|---|---|
| `CellOps` | a cell as a record and what each critical section does to it, as operators | - |
| `BreakerCell` | one cell with the requests and the prober that drive it, step by step | `CellOps` |
| `BreakerFsm` | the abstract breaker of `docs/reliability.md`: phases, a deadline, who was admitted | - |
| `LaneCells` | all cells of a lane: creation against all-cells operations | `CellOps` |
| `Cooldown` | the escalation of a lane whose probes keep failing | `CellOps` |
| `Swrr` | weighted selection with recoveries and staleness | - |
| `Metering` | one virtual key: limiter, ledger, carry, offloaded writes, crash | - |
| `Disposition` | `breaker.rs`: what an upstream's error means, as operators | - |
| `PoolConfig` | pools, their lanes and exhaustion modes, and what the validation accepts | - |
| `Dispatch` | requests over the lanes of pools: selection, permits, attempts, failover, exhaustion, the body that ends | `Disposition`, `PoolConfig` |
| `StreamEvents` | the events of `ir.rs` and the state of a reader | - |
| `OpenAiReader`, `GeminiReader`, `CohereReader`, `BedrockReader`, `ResponsesReader`, `AnthropicReader` | one `read_response_events` each | `StreamEvents` |
| `Writers` | the six `write_response_event` and their state | `StreamEvents` |
| `Backends` | the streams the six upstreams send (external) | `StreamEvents` |
| `StreamTranslate` | the translator: counting, ordering, framing | the readers, `Writers`, `Backends` |
| `FirstByteBody` | a streamed answer from upstream to client, with its ends | `StreamTranslate` |
| `KeyLife` | the abstract life of a key: unborn, issued with its row, revoked | - |
| `KeyCache` | the key table, the cached indices, admin calls step by step, failures and restarts | `KeyLife` |
| `BreakerCellProofs` | the inductive invariant of `BreakerCell`, its action properties and the refinement of `BreakerFsm` | `BreakerCell`, `TLAPS` |
| `StoreProofs` | sums over finite sets, the inductive invariant of `Swrr`, the shares of a turn; what a lane that keeps failing waits, and where a word is wide enough for it | `Swrr`, `Cooldown`, `TLAPS` |
| `MeteringProofs` | the invariants of `Metering` | `Metering`, `TLAPS` |
| `LaneCellsProofs` | the inductive invariant of `LaneCells` and what its operations promise | `LaneCells`, `TLAPS` |
| `DispatchProofs` | the inductive invariant of `Dispatch`, what failover never tries twice, and what each step uses up | `Dispatch`, `TLAPS` |
| `KeyCacheProofs` | the inductive invariant of `KeyCache`, its action properties and the refinement of `KeyLife` | `KeyCache`, `TLAPS` |
| `StreamProofs` | the six readers, the six writers and the translator as steps of one tale, and the inductive invariant of `FirstByteBody` | `FirstByteBody`, `TLAPS` |
| `BlockProofs` | the same once more for the blocks of an answer, as they are put on a board and taken off | `StreamProofs` |
| `MC*` | constants for TLC | the module of the same name |

### How state and actions correspond to the code

*`CellOps`.* A cell is the record of the atomics of `BreakerCell`. Each operator
is one critical section of the transition lock: `AfterFailure` is
`cell_record_failure` after its `push`, `Opened` is `cell_open_locked`, and so
on. The jitter is the set of values it can give. Reads without the lock
(`Ready`) see one record: the code stores the deadline before the state and the
state before the probe flag is won by anyone else, so a torn read can only be
more conservative than a whole one.

*`BreakerCell`.* A request slot walks through `pc`. `Choose` is the peek of
selection (or of the policy walk, or of affinity); `Precheck` and `LockProbe`
are the two halves of `cell_acquire_breaker`, which carries the time `at` it
read across them; `TakePermit`, `Unpark` and `GiveUp` are the permit of
`pick_among`, `GiveUp` being the `ProbeGuard` that releases whatever probe the
cell holds; the `Answer*` actions are the arms of the failover loop;
`BeginFailure` and `RecordFailure` are the push before and the transition under
the lock. `fallback` and `least_bad` requests go through `forward_once`, which
treats every non-2xx as transient, drops its Retry-After, and then releases the
probe (not after a transport error). A stream that breaks off records a failure
on the same cell. `Disconnect` is the handler's future dropped while it awaits
the upstream: the permit is returned and nothing is recorded. The prober's
actions are `probe_lane` seen from this cell. `NewbornCells` are the cells a pool
may begin with: `cell` copies the state, the cooldown and the streak of the lane's
own cell without its lock, so any mix of them is possible, a Closed cell with a
streak at the threshold among them.

*`LaneCells`.* `BeginCreate`, `CopyCooldown`, `FinishCreate` are the three
unlocked reads of the default cell in `cell`, under the map's write lock. An
all-cells operation captures its time once, treats the default cell, takes the
read lock, visits the cells there are, and releases it. What requests do to a
cell is one step here (`Organic*`), for `BreakerCell` splits it.

*`Swrr`.* `Filter` runs without the lock, `Pick` is the add / maximum / subtract
under it, `Recover` and `Reset` are the two halves of a recovery. Readiness
changes freely.

*`Cooldown`.* `Fails` and `Succeeds` are the only two ways the streak of a
probed lane changes.

*`Metering`.* A slot is a request, then the write it leaves behind.
`CheckRate`, `Charge` (one UPSERT), `Refund`, `Record` are one critical section
each. `record_tokens` holds the carry lock and then the rate lock; the two parts
touch different state and are one step. `Sweep` is another key's admission.
`Crash` keeps the rows only. `failMode` is `budget_on_store_error`, chosen
initially so that one run covers both settings.

*`Dispatch`.* A request is the local state of `forward_with_pool_parsed`, then
of `FirstByteBody`; `pc` names the place where it waits or where another request
may come in between. `hop` is the head of either loop (the pool's own and a
fallback pool's), `sticky` the affinity lane before its permit, `select` and
`admit` the two halves of `pick_among`, `parked` the wait for a permit. A choice
among the ready lanes stands for SWRR and for every policy. A cell is a phase
(closed, resting, cooling, due, probing), and what a failure does to it is any
of the outcomes `BreakerCell` has: `Struck`, `Relieved`, `Released`. The
deadline is a flag that may be set at any time; it is set only where the
request looks at it next. Errors go through `Disposition`, with the error map of
the lane. The degraded paths (`forward_once`) are the same actions restricted
to what that function does: it relays every non-2xx and records a failure. The
history variables `kept` and `orphaned`, and `tried`, `oversize`, `fate`,
`marks`, `bills` of a request, only record what happened.

*`StreamEvents`, the readers, `StreamTranslate`, `Writers`.* A frame is a record
of the members a reader looks at; text and arguments are left out, block kinds,
indices and token counts are kept. A reader is an operator from its
`StreamDecodeState` and a frame to the next state and the events, with the
branches, the clamps and the caps of the code. `MaxOpenTools` is the cap on open
tools (128 in the readers of openai and responses, 4096 in cohere's), and what
clamps their indices on the wire: `Clamped`, which is one below the cap, and
`CohereFrame`, which is the cap itself. `MaxBlockIndex` is the largest block index
of anthropic and bedrock (1023), `BlockIndex` their clamp. `Translate` counts (`Count`, with `Backfilled` prompt
tokens) and forwards; for a client of bedrock `CombinedStop` and `UsageOnly` are
`BedrockStreamFraming`, and `Finish` flushes what it still owes. A writer is an
operator from its state to its next state and at most one frame. The items of
the Responses protocol are kept as the set of their indices.

*`FirstByteBody`.* `Feed` is one turn of `poll_next` with a whole frame, `Abort`
one whose bytes are none, `Close`, `Break` and `Drop` the three ends. `framer`
is the `GeminiJsonArrayFramer` of a client that did not ask for server-sent
events. `ledger` is what the three ends tell: failures recorded on the cell,
units refunded to the lane, tokens billed; `sink` is the `Option` that makes the
bill single. A body of one protocol passes verbatim (`Raw`). The client's part
(`phase`, `shown`, `array`) is what a strict reader of that protocol keeps. What
`Dispatch` has of a stream is the same body without the frames.

*`Backends`* is external: the order of frames each upstream may send, as the
readers' comments and the tests take it.

*`KeyCache`.* A worker is the blocking closure of one admin call. `refresh` is
three steps (list the keys, list the credentials, swap both indices), as each
database call takes the connection mutex by itself. PATCH and DELETE hold
`EXISTENCE_GATE` from the check to the answer, POST does not. Any database call
may fail (500), and `Restart` may come between any two steps. A key stands for
its secret, its digest and its id, drawn at random and so never twice.

## 3. Runs

| run | module | expect | what it shows |
|---|---|---|---|
| `cell_consecutive` | `MCBreakerCell` | pass | two requests, clients that go away, a prober in `active` mode: `TypeOK`, `ProbeFlagIsHalfOpen`, `HalfOpenHasExpired`, `StreakBelowTrip`; `ProbedLaneRecovers` under fairness |
| `cell_error_rate` | `MCBreakerCell` | pass | error-rate mode, main, fallback and least-bad paths, no prober, clients wait: `TripHasEvidence`, `OpenDeadlineStands`, `EscalationKept`, `ProbeResolves` under fairness, `ImplementsFsm` |
| `cell_wedge` | `MCBreakerCell` | violation | `ProbeResolves` with clients that go away |
| `cell_single_flight` | `MCBreakerCell` | violation | `SingleFlight` |
| `lane_cells` | `MCLaneCells` | pass | `HardDownSealsLane`, `NoOrphanedHalfOpen`, `RecoveryReachesAllCells` against creation and other all-cells operations |
| `swrr` | `MCSwrr` | pass | `CreditBounded`, `ExactShare`, `NoStarvation` |
| `cooldown_backoff` | `MCCooldown` | pass | `WaitFollowsBackoff`, `ProbesDesynchronize` |
| `cooldown_overflow` | `MCCooldown` | violation | `BackoffSaturates` |
| `metering` | `MCMetering` | pass | `TypeOK`, `BooksBalance`, `FlatFeesWithinCap`, `TokensNeverOverbilled`, `RpmHolds` |
| `dispatch` | `MCDispatch` | pass | `TypeOK`, `PermitsConserved`, `BudgetAccounted`, `ProbeHasOwner`, `FaultsCountedOnce`, `BilledOnce`, `NobodyStuck`, `NoWastedAttempt`, `LessIsLeft` |
| `streams` | `MCFirstByteBody` | pass | six upstreams for six clients: `TypeOK`, `BlocksPair`, `FramesInOrder`, `EndIsTold`, `Settled` |
| `keys` | `MCKeyCache` | pass | `LifeOfAKey` (the table implements `KeyLife`), `AnswerIsVisible`, `RevokedStaysOut` |

### Bounds

* Cell: two slots, reused. Every race of a cell is between an operation and
  one other: the push and the transition of a failure, the peek and the lock of
  an admission, a release and another's probe. The prober is a third party, and
  the proofs lift the safety properties to any number.
* `MaxNow` 1 or 2 seconds (3 or 4 in the violations) with `BaseCooldown` 1,
  `MaxCooldown` 2, `HardDownCooldown` 2 or 3: a cell trips, expires, is probed,
  fails again and is parked within the bound; Retry-After values lie above the
  cooldown they meet. The clock stops at `MaxNow`; no liveness property needs it
  to go on.
* `ConsecutiveN` 2; the window holds one or two outcomes
  (`OUTCOME_WINDOW_CAPACITY` is 1024), `MinRequests` 2 in error-rate mode, so
  that eviction and the floor both bite.
* A cell is born Closed or Open, with a cooldown of 0 or 1 and, in
  `cell_consecutive`, a streak of 0 or 2, which is the threshold: fresh, suppressed,
  and the two mixes that a copy without a lock can make of them.
* Lane: one pool cell besides the default one and two tasks: an all-cells
  operation against another one and a creation. Streak bounded by `MaxStreak`.
* `WordBits` 8, 16 or 20 stands for the 64 bits of the code. `cooldown_overflow`
  uses 16 bits; with 64 a base of 16 collapses from the 60th failure in a row.
* Selection: two lanes of weights 3 and 2, two selectors whose selections
  overlap with each other and with recoveries.
* Metering: two slots; three rate windows of one second, two budget windows of
  two; a cap of three and a half fees; three millicents to the cent, so that two
  responses of two tokens cross it; one failing store call.
* Dispatch: two requests for one permit each of two lanes in four
  configurations (a pool that ends on its least bad lane; the same lanes where
  `max_hops` ends the loop after one attempt; a pool that falls back to another;
  a ring of pools, which the validation refuses). One request is
  bound to a lane by its session, one lane speaks another protocol and has a
  lifetime budget of one, so every contention of two actors and every exit of an
  attempt happens. Five kinds of errors reach the five dispositions and their
  exceptions.
* Streams: items get the wire indices 0 to 3, `MaxOpenTools` and `MaxBlockIndex`
  are 2. The caps are reached, and every clamp has two indices on the wire that it
  takes for one: 1, 2 and 3 for openai and responses, 2 and 3 for the others. A
  stream is as long as those indices let it be, and deltas repeat freely. The
  counts are 2 and 1: a lost, doubled or swapped count shows. All 36 pairs of
  protocols are initial states.
* Keys: two keys, two workers. A race of two calls is over one key or over one
  reload, and each call is on one key.

`CHECK_DEADLOCK FALSE` is said where the clock's bound lets the system stop, and
for streams, which end. Requests (`BreakerCell`), tasks (`LaneCells`), keys and
workers (`KeyCache`) are interchangeable: runs without liveness properties use
symmetry.

### Fairness

`RequestFairness`: a task that can run runs (tokio); an upstream answers or its
connection fails, for every send has a timeout; a wait for a permit ends by its
deadline. `ProberFairness`: the ticker fires again and again, every probe ends,
and a lane that is probed again and again is at some time well (strong fairness
of the 2xx answer, the property's premise). Nothing is assumed of clients: they
need not connect, go away, or read. `Swrr`'s `NoStarvation` states its premise
in the formula: the lane is considered again and again and not reset for ever.
`Dispatch` states termination without fairness: `NobodyStuck` says that every
request has a step that nobody else can withhold, and `LessIsLeft` that each of
its steps leaves less of a natural number.

## 4. Proofs

The theorems hold for every value of the constants that satisfies the
assumptions (what `config_validate.rs` accepts, the definition of `PowerOfTwo`;
for the metering and for dispatch, that requests, lanes and pools are finitely many; for the
lane, that its default cell is none of its pools; for dispatch, that an error is
a status with two signals and an error map gives classes; for the keys, that the
absent row is no row and nobody is no worker; for the streams, that a reader's cap is
at least one, that the largest block index is a number and that items have numbers
for indices on the wire). Two theorems of
the cooldown have the further hypothesis `BackoffFits`, which is discussed below.
`StoreProofs` extends both `Swrr` and `Cooldown`, which share no constant and no
variable; the specification of the second is therefore called `EscalationSpec`.

| theorem | module | states |
|---|---|---|
| `TypeCorrect` | `BreakerCellProofs` | `Spec => []TypeOK` |
| `FlagCorrect` | `BreakerCellProofs` | `Spec => []ProbeFlagIsHalfOpen` |
| `ExpiryCorrect` | `BreakerCellProofs` | `Spec => []HalfOpenHasExpired` |
| `StreakCorrect` | `BreakerCellProofs` | `Spec => StreakBelowTrip` |
| `DeadlineStands` | `BreakerCellProofs` | `Spec => OpenDeadlineStands` |
| `EscalationStands` | `BreakerCellProofs` | `Spec => EscalationKept` |
| `Refinement` | `BreakerCellProofs` | `Spec => ImplementsFsm` |
| `TripsOnEvidence` | `BreakerCellProofs` | `Spec => TripHasEvidence` |
| `AlwaysTwoCooldowns` | `StoreProofs` | `EscalationSpec => []ProbesDesynchronize` |
| `WaitIsDocumented` | `StoreProofs` | `BackoffFits` implies `EscalationSpec => []WaitFollowsBackoff` |
| `SaturatesWhereItFits` | `StoreProofs` | `BackoffFits` implies `EscalationSpec => []BackoffSaturates` |
| `TypeCorrect` | `StoreProofs` | `Spec => []TypeOK` |
| `NoHoarding` | `StoreProofs` | `Spec => []CreditBounded` |
| `SharesAreExact` | `StoreProofs` | `Spec => []ExactShare` |
| `TypeCorrect` | `MeteringProofs` | `Spec => []TypeOK` |
| `RpmPrecise` | `MeteringProofs` | `Spec => []RpmHolds` |
| `BooksCorrect` | `MeteringProofs` | `Spec => []BooksBalance` |
| `HardCap` | `MeteringProofs` | `Spec => []FlatFeesWithinCap` |
| `TokensNotOverbilled` | `MeteringProofs` | `Spec => []TokensNeverOverbilled` |
| `HardDownSeals` | `LaneCellsProofs` | `Spec => []HardDownSealsLane` |
| `NobodyOrphaned` | `LaneCellsProofs` | `Spec => []NoOrphanedHalfOpen` |
| `RecoveryReaches` | `LaneCellsProofs` | `Spec => RecoveryReachesAllCells` |
| `TypeCorrect` | `DispatchProofs` | `Spec => []TypeOK` |
| `PermitsReturn` | `DispatchProofs` | `Spec => []PermitsConserved` |
| `UnitsBalance` | `DispatchProofs` | `Spec => []BudgetAccounted` |
| `ProbesOwned` | `DispatchProofs` | `Spec => []ProbeHasOwner` |
| `FaultsOnce` | `DispatchProofs` | `Spec => []FaultsCountedOnce` |
| `BillsOnce` | `DispatchProofs` | `Spec => []BilledOnce` |
| `AttemptsNotWasted` | `DispatchProofs` | `Spec => NoWastedAttempt` |
| `SearchesEnd` | `DispatchProofs` | `Spec => LessIsLeft` |
| `TypeCorrect` | `KeyCacheProofs` | `Spec => []TypeOK` |
| `LifeCorrect` | `KeyCacheProofs` | `Spec => LifeOfAKey` |
| `AnswersShow` | `KeyCacheProofs` | `Spec => AnswerIsVisible` |
| `RevokedStays` | `KeyCacheProofs` | `Spec => RevokedStaysOut` |
| `StreamTypeCorrect` | `StreamProofs` | `Spec => []TypeOK` |
| `FramesStayInOrder` | `StreamProofs` | `Spec => []FramesInOrder` |
| `EndReachesClient` | `StreamProofs` | `Spec => []EndIsTold` |
| `StreamsSettle` | `StreamProofs` | `Spec => []Settled` |
| `BlocksStayPaired` | `BlockProofs` | `Spec => []BlocksPair` |

*The breaker cell.* The inductive invariant is `TypeOK`, the flag and the expiry
conjuncts, and `PastTimes`: no task carries a time ahead of the clock. The
expiry is not inductive without the last: `LockProbe` compares the deadline with
the time its request read earlier, and only because that lies in the past does a
won probe imply that the deadline has passed now. The invariant holds of every
cell a pool may begin with, and says nothing of its streak, for a cell may be born
Closed at the threshold. `StreakBelowTrip` is therefore about steps: whatever the
streak was, `AfterFailure` compares it after its increment and trips, everything
that closes a cell resets it, and no other step touches it. The argument goes
through the operators of `CellOps`: the first part of the module shows for each
one that it maps a good cell to a good cell, and `StepInv` then has one step per
action. (`LaneCells` and `Cooldown` are built from the same operators; their
proof modules state the lemmas they need in front, so that each can be read and
checked alone.) The refinement
maps `cell.state`, `cell.cooldown` and the requests admitted and not heard from
to the abstract breaker; the lemmas classify what each operator does to a
cell and every step is an abstract step or a stutter. `TripHasEvidence` needs no
more than the types: of the operators only `AfterFailure` opens a Closed cell
for its window (`TripNeedsWindow`), it decides under the lock on the window it
finds there, and `StepJustified` says what every other step can do to a Closed
cell.

*The cooldown.* Two lanes that fail together can be given different cooldowns
whatever the streak (`AlwaysTwoCooldowns` has no hypothesis but the accepted
configuration): the jitter of a backoff of any length, none included, has that
length among its values and another one next to it. That the wait is the
documented one is false in general, as `cooldown_overflow` shows, so
`WaitIsDocumented` and `SaturatesWhereItFits` have the hypothesis `BackoffFits`:
the maximum fits the highest bit, and a shift that loses bits, up to the longest
streak considered, leaves enough of them to saturate. Every odd base with a
maximum that fits half a word satisfies it for every streak, the default of
15 seconds and 120 among them; an even base satisfies it until the streak shifts
its last bit out. The constants of `cooldown_backoff` are of the first kind,
those of `cooldown_overflow` violate it. `Documented` is a function over the
streaks; that it is the doubling capped at the maximum is shown by induction over
the numbers, in the form of the least number that is an exception.

*Weighted selection.* The bound of one accumulator is not inductive: a lane may
lead by much and be credited again. `Leeway` bounds twice the sum over every set
of `k` lanes by `W k (2N - k - 1)`, where `N` is the number of lanes and `W` the
weight of all. A set that a pick credits is led by the picked lane, which had as
much as any of its lanes, so the bounds of the set without its credited lanes
and of the set with the picked one limit what the credit can bring it to; the
bound is concave in `k` (`RoomIsConcave`), which makes that enough
(`PickKeepsBelow`), and the same downwards for what the picked lane pays
(`PickKeepsAbove`). A recovered lane is zeroed, and more lanes have more room (`ResetKeepsLeeway`). Nothing is asked of
the healthy sets but a lane of some weight, so selections that are stale when
they charge, and trips and recoveries in between, are covered. For the shares,
`Fair` writes every accumulator of a turn that began at rest as its credits less
what its picks paid; at the end of the turn none has taken more than its weight,
and together they took it all (`FullTurnIsFair`). Both are about sums over sets:
the first part of the module derives what the folds of the community modules
compute on finite sets, by induction over a set of counterexamples
(`EveryNumber`, `OneByOne`), for an induction rule over predicates cannot be
instantiated by the provers.

*The cells of a lane.* Each promise is about the end of an operation, so the
invariant says what holds behind one on its way: every cell an undisturbed
hard-down has been at is parked until `since` plus its cooldown (`ParkedBehind`,
where `since` is the earliest time another hard-down still under way may park
with), every cell an undisturbed recovery has been at is clear
(`ClearedBehind`). Creation keeps both because it excludes the walk over the pool
cells (`CreatesAlone`): a cell cannot be born behind it, and one that was begun
before is found by it. After the walk, `SealStands` carries the seal over to the
cell in the making, whose state and deadline were copied from a parked default
cell. `CellMoves` is the argument of every step that works on a cell, `TaskKeeps`
of every step that starts or ends an operation.

*Dispatch.* Apart from the clock, every action is a turn of one request: it
replaces that request's record and moves at most one permit, one budget unit and
one cell. `Sound` says what a record promises at each `pc` (a request that waits
has a clean sheet, one that is answered has been billed as its reply says, a unit
is held only while an answer is under way); `Turn` says what a turn must show of
the record it leaves, and `TurnKeeps` that this keeps the invariant: the sets
that count permits and units change by at most that request (`OneMoves`). The
rest is one lemma per action. `PermitsConserved`, `BudgetAccounted` and
`ProbeHasOwner` are conjuncts of the invariant; `FaultsCountedOnce` and
`BilledOnce` follow from `Sound`, which needs `Tallied`, for a fault is counted
at the end of an attempt and its blame is fixed when its status arrives.
`NoWastedAttempt` needs `Fresh`: the lanes that failed, and every member whose
window is no larger than one that was too small, are among the exclusions, and
a lane that is chosen is not. A stale choice (`admit`, `sticky`, `parked`) keeps
that because only the request itself adds to its exclusions. For `LessIsLeft`
the rank is read as a number in mixed digits: the pools that a fallback chain
may still visit, the lanes not excluded, the lanes not skipped in this round, the
stage. `Lessens` names the digit that a step takes down, `Outweighs` shows that
nothing done to the digits below matters, and each action is one of those kinds.
A round that starts over refills a lower digit, so `Tidy` is needed: nothing is
skipped where a round begins, a lane that is weighed was not skipped before, and
the least bad path is but one attempt.

*The metering.* `RpmHolds` says nothing of the entry that does the counting, so
it is not inductive. `LimiterInv` relates the two: the entry is never of a later
window than the newest one that ordered admissions have brought; of that window
it counts at least what was admitted; and if it is of an older one, or gone,
nothing has been admitted in that window yet. A late token credit keeps it
because its request was admitted, so its window is no newer than that one
(the last conjunct); another key's sweep keeps it because in clock order it can
only evict an older window. `BooksBalance` and `FlatFeesWithinCap` need
`ChargeInv`: nobody is billed before the charge, and with `deny` everyone after
it. Without the first half a charge might bill a slot twice; without the second a
refund might take back a fee that was never in the row. The ledger proof is
window by window (`WindowInv`): a charge adds one pending fee and one fee to the
row, a refund takes one from each, and every other end of a request moves its fee
from the pending ones to the kept ones. `TokensNeverOverbilled` says nothing of
the writes on their way, which have taken their cents from the carry and have not
reached the row: `SpendInv` counts those cents as a set (`Owed`, the k-th cent of
each write under way), and the written, the owed and the carried together never
exceed what the window used.

*The keys.* What an answer shows depends on what its call did before. The
conjuncts of `IInv` carry it from step to step: `CallsMatch` (a worker at a step
serves a call that has it), `GateHeld` (a PATCH or DELETE under way holds the
gate, so no other one can change the table between its check and its reload),
`RowsAreDrawn` and `IssuesAreFresh` (a row belongs to a key that was drawn, and
a creation inserts a key with no row and no past), `CheckedStands` (the row a
PATCH has read is still there when it is put), `ReloadIsFresh` and `JoinIsFresh`
(what a reload under the gate has listed is the table, but for the keys that
creations insert meanwhile). `LifeOfAKey` then follows for one row at a time,
and the two action properties from the freshness of what is installed: of a
creation, that its row and, if it issued one, its AWS credential are among what its
reload has listed, unless the key has been revoked meanwhile.

*The streams.* Six readers times six writers would be 36 proofs; there is one,
because what passes between them is a common tale. A place of the tale is how
far a message has come (before, within, past its stop reason, over, failed) and
the counts it has told; `Tale` holds its steps, one per event. Nothing about
order is assumed of a backend but its protocol (`Backends`). Three parts meet
in the middle:

* `BackendAnswers`: whatever a backend may send next, its reader answers with
  events that take the tale from where the backend was to where it is
  (`PlaceOf`), and is ready for what may follow (`Ready`: it has opened the
  message if the backend has, and its memory is within the cap). One lemma per
  reader; the readers that synthesize block boundaries are `Tame` inside a
  message: only events of blocks.
* `WritersShape`: every writer turns an event into frames of a known shape; an
  event of a block gives frames of blocks only, whatever the writer holds.
* `FoldLeads`: the translator, which folds the events of a frame, keeps its own
  flags and counts those of the tale (`Told`), and what it has written takes the
  client from its phase to the tale's (`PhaseAt`), or to the failure.

A client is the automaton `Hearing`, whose steps are the order `FramesInOrder`
asks for, and the array of a gemini client is `Framing`. The invariant
`StreamInv` then says that what has been written and not yet read is a run
(`Run`) of both automata: from the client's phase to where the translator has
come while the stream flows, to the end the backend told once it has ended, to a
failure once it has broken. A client that reads takes the head of the run; that
head being a step of the automaton is `FramesInOrder`, and the run being empty
is `EndIsTold` and the half of `Settled` that relates the books to the client.
The invariant is about runs and not about the next frame because the frames
are written in bursts: a frame of a backend may become several for the client, and
`FramesInOrder` says of the first of them nothing that would carry over to the
second. The counts are `Honest`: what is told or billed is what the backend told
or nothing. That a run of any length is kept by a fold is an induction over
its length, again over a set of numbers (`FoldKeeps`).

`BlocksPair` takes the same road once more, for the blocks (`BlockProofs`). It
speaks of the next frame alone, and which block that frame belongs to was settled
when a reader gave its index out, several frames before; so the invariant,
`BlockInv`, is about a board that says of every index whether it holds a text,
reasoning or a tool, or one that is done:

* `Tally` says what the events of a reader may do to the board: begin a block at
  a free index, extend one by its own kind, end one that is open, end the message
  with none open. (A cohere backend may take its text up again: the one exception,
  also of `BlocksPair`.)
* `OnBoard` says for each protocol how the board follows from what the backend
  has sent and its reader remembers. This is the strengthening: three of the
  readers invent block boundaries that their protocol does not have, and count
  indices of their own. That a fresh index is fresh needs that every index given
  out lies below the number of slots taken (`OnCohere`, `OnGemini`; with
  `Offset` for the reasoning of openai, `Answering`); that the finish ends every
  block needs that nothing is open that the reader does not remember; that a
  responses reader at its cap drops an item's later events needs that the item
  is on no board. `BackendDrawn` is proved once per protocol, for every frame
  the backend may send next.
* `Shelved` says what each writer lists, and its client has been shown, of the
  board: all of it (anthropic, bedrock, responses), its tools (openai, gemini),
  all but the reasoning (cohere). The responses writer has a cap of its own, per
  kind; the conjunct `RoomFor` of `Tally` shows that no reader of another protocol
  begins a block which that cap would drop.
* `Apart` says that the reader tells the indices on the wire apart, which is what
  `BlocksPair` has as its premise (`~Conflated`). Items are numbered, so the clamps
  then take each of them for what it is (`TakenAsIs`, `ClampedAsIs`); a cohere
  tool's number is free, and its frame is its own. What has been taken for one
  stays so (`UsedStays`, `ConflatedStays`): the invariant is
  `~Conflated => BlockInv`.
* `FoldPairs` and `FinishPairs` are the translator: what it has written takes the
  client from what it has been shown to the board (a run of `Showings`).

It is inductive relative to `StreamInv`, which gives the types, the place
of the backend and that what busbar adds of its own at the end (an error, a
bracket) comes when nothing else will. Where the bytes pass through unread
(`Verbatim`), or have broken, nothing is claimed of the blocks. `BlockInv` was
checked with TLC on the instance of `streams` before it was proved.

Only model-checked:

* liveness (`ProbedLaneRecovers`, `ProbeResolves`, `NoStarvation`) and
  `NobodyStuck`, which is about ENABLED: both are beyond the prover. What they
  rest on is proved: with `SearchesEnd`, `NobodyStuck` is all that the
  termination of a request needs.

Every other invariant and action property that a passing run checks is proved for
every value of the constants (two of the cooldown for those that satisfy
`BackoffFits`).

## 5. Where the code and its documents disagree

Stated by a run:

* A probe whose client goes away wedges the cell HalfOpen (`cell_wedge`). The
  comment at `src/forward.rs:1390` hands the probe to an outcome that a dropped
  future never records. Only a health prober gets the cell out, and
  `health.mode` defaults to `none`.
* A second probe can be dispatched while the first is in flight
  (`cell_single_flight`): a request that was admitted before the trip is answered
  neutrally (the caller's own error) while another one's probe is at the upstream,
  and the release that goes with that answer reopens the cell (`store.rs:1135`),
  whoever won its probe.
* The backoff of a long streak collapses (`cooldown_overflow`): `checked_shl`
  does not fail when bits are shifted out.

Met while modelling; the models follow the code, and the properties are stated
with the exception:

* *Breaker.* A Retry-After recorded on a cell that is already Open is dropped
  (`store.rs:1335`); a recovery that has seen a longer honored Retry-After undoes
  a later hard-down (`store.rs:1069`); zeroing one accumulator breaks the zero
  sum its comment claims (`store.rs:1117`); with base and maximum of one second
  the jitter may take the whole cooldown (`store.rs:950`). A pool's cell that is
  created while the lane's own cell trips may pair its old state with its new streak
  (`store.rs:831`) and be born Closed with `consecutive_n` failures to its name: its
  first failure trips it, its first success resets it (`StreakBelowTrip`).
* *Metering.* The RPM count is lost when two admissions reach the limiter against
  their clocks' order (`governance.rs:612`); a request let through unbilled is
  refunded when it fails (`route.rs:436`); the sub-cent remainder is dropped once
  per alternation of windows, not once per rollover (`governance.rs:242`).
  `docs/reliability.md` calls the budget's check and charge non-atomic; the code
  has one conditional UPSERT, and `FlatFeesWithinCap` is stricter than the
  document.
* *Failover.* `least_bad` and fallback pools do not apply the pool's exclusions
  (`docs/configuration.md:491` and `docs/reliability.md:250` differ on it);
  `max_hops` does not bound a fallback pool's loop (`docs/configuration.md:490`);
  `max_requests` is overshot by the answers in flight, for a unit is spent when
  the 2xx arrives (`store.rs:2254` says "hard ceiling"); the degraded paths
  penalize a lane for the caller's own errors (ADR-0002); `forward_once` releases
  a probe it did not win.
* *Streams.* A transport failure after the first byte is not refunded
  (`docs/configuration.md:495`), and the tokens counted before it are billed when
  the body is dropped; the openai reader ignores an in-band error object; a
  client of openai gets `[DONE]` when the upstream hangs up early, the other
  clients a bare end; a client of bedrock gets metadata without `messageStop`
  when there is no stop reason (`bedrock.rs:1896`); a cohere text that is taken
  up again reuses its index (`cohere.rs:1065`), and for a client of responses
  the second item then replaces the first in the last frame's `output`; a late
  citation of gemini reopens its text; tool indices of openai that leave gaps, or
  lie above the cap, collide; a repeated finish chunk writes a second end of the
  message; an empty content that opens the text block drops later reasoning; the
  counts that openai sends after the finish are not written to clients whose
  last frame has gone. An index beyond a reader's clamp makes two blocks one
  for the client: anthropic and bedrock blocks above 1023 (`anthropic.rs:218`,
  `bedrock.rs:747`) and responses items above 127 (`openai_responses.rs:909`) are
  taken for the block at the clamp; of two cohere tools from frame 4096 on
  (`cohere.rs:120`) the second's start is dropped and its arguments and its end go
  to the first one's block, where the comment at `cohere.rs:1187` has them "dropped
  rather than corrupting another block's arguments". `Conflated` says when that has
  happened, and `BlocksPair` claims nothing from there on.
* *Keys.* The reload that ends a creation does not hold the existence gate
  (`governance.rs:913`): it may list the rows before a concurrent DELETE and
  install them after it, and the revoked key is then admitted until the next
  reload. `docs/reliability.md:461` says "After deletion, the key's `sk-bb-…`
  secret is immediately rejected with a native `401`". Two creations at once can
  likewise drop a fresh key once its call has been answered, and a reload that
  fails after a committed DELETE leaves the cache as it was. `RevokedStaysOut`
  excepts the reloads of creations; `AnswerIsVisible` is about the moment of the
  answer. Charges in flight write the usage row of a deleted key again.

## 6. Plan

Done: the breaker cell with its refinement and proofs, the cells of a lane with
their proofs, the cooldown and weighted selection with theirs, metering with its proofs,
dispositions, dispatch with failover, exhaustion and stream bodies with its
proofs, the streams of all six protocols with the body that carries them and
their proofs, the life of the virtual keys with its proofs.

Left, in this order:

1. Requests and answers that are not streamed: the pairing of tool calls and
   results, and the alternation of roles, over the six protocols.
2. Runs for the disagreements listed above.

## 7. Not modelled, and why

Requests and answers that are not streamed are translated by maps from fields to
fields, without state and without order; so are the text, ids, names and stop
reasons of the streams. The wire encodings are framing and digests; that a frame
may be broken is `Abort`. Auth compares digests and parses headers; its verdict
is `Admits`. The paths and access lists of the ingress are parsing. Policies only
order candidates, and the choices of `Dispatch`, `BreakerCell` and `Swrr` admit
every order; how a script or a webhook computes one is not modelled.
Observability is write-only. Start-up, TLS and the network guards keep no state
the request path changes. The lifetime counters `ok` and `err` of a cell, the
token total of a ledger row and the usage reports of the admin API are reported
and never read by the logic. Ids drawn at random do not collide in the model.
