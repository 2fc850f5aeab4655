# fbot verification

TLA+ models of `fbot`: how a position is protected and closed, how an entry gets
and gives back its symbol, how commands reach the exchange and what is believed of
them, how the core is reconciled with the exchange, what is recorded and replayed,
and what decides, checks and watches entries. TLC checks every model on a small
instance; TLAPS proves the most important properties for every value of the
constants.

`src/fbot` is an event-driven trading system for Binance USDⓈ-M futures. A
deterministic core (`Engine.step`: state, event, time → state, commands) is
surrounded by asyncio tasks, threads and two other processes (console, database).
The core is easy to test, one event at a time. What is hard to test is the order in
which its surroundings answer, and that is what is modelled here.

    modules of this directory                          code

    PositionManager ──EXTENDS── PaperPosition          core/position.py + the simulator
           └───────────EXTENDS── LivePosition          the same handlers on the testnet
    SymbolLock ◄──implements── EntryGate               engine.py, lease.py, risk.py K6/K7
    SendQueue                                          queue.py, testnet_adapter.py, shutdown
    RateLimiter                                        rate_limit.py used by two threads
    Supervision                                        arming.py, exchange_state.py, reconcile.py
    Gateway ──EXTENDS──┬ PrivateStream                 ws_category.py, userdata.py
                       ├ HttpPool                      http_pool.py, signed()
                       ├ KillSwitch                    killswitch.py, console, both traders
                       └ OrderTracking                 oms.py, order_state.py
    RecordingSystem ───┬ Readers ──EXTENDS── Recording recorder/, replay/, tail.py, export.py
                       └ AsyncStore                    persistence/writer.py, paper/store.py
    Market ──EXTENDS───┬ DepthBook                     orderbook.py
                       ├ MarketView ── Decisions       engine.py, market.py, health.py, decision.py
                       ├ Account ───── RiskChecks      engine.py, risk.py K1-K19
                       ├ Monitors                      runaway, breaker, drift, beta, …
                       └ Research                      research/
    MC<M>           the module TLC is started on for M
    <M>_proofs      theorems about M and the modules it EXTENDS
    Sending_proofs  theorems about SendQueue and RateLimiter
    Admission_proofs  theorems about EntryGate and Supervision

Each configuration is checked with `tlc -config <name>.cfg MC<M>.tla`, each proof
module with `tlapm <module>.tla`.

## 1. Inventory

### How the parts interact

    ws_category, userdata ──► Recorder.emit ──► Sequencer ──► log writer (gzip, manifest)
                                   │   (the single ordering point)          │
                                   ▼                                        ▼
                            trader.on_event ──► Engine.step ──► commands   replay, export,
                               │   ▲                              │        console (Tailer)
                AsyncStore ◄───┘   │                              │
          paper: exec events ◄── SimExecutor ◄── PaperTrader ◄────┤
                                     ▲ LocalOrderBook (depth)     │
          testnet: exec events ◄── on_send_result                 │
                                     ▲                            ▼
                               worker thread ◄── ExecutionQueue ◄─┘
                                     │
                             TestnetAdapter ─► TestnetClient ─► RateLimiter, HTTP pool ─► venue

    status task (every few seconds): kill switch file → CoreState.kill_switch;
        arming.check and reconcile.check in threads (testnet); rearm of the adapter
    tick task: ctrl("tick") → exit rules, pending/lease sweep, order sweep
    console process: kill switch file, credentials file, views of the recording

Everything that goes through `Recorder.emit` is serial. Five things are not: the
worker's thread, the supervisors' threads, the thread of the database, the console
process, and the venue.

### Components

| component (source) | state | operations | what is hard | what makes it correct | module |
|---|---|---|---|---|---|
| position manager (`core/position.py`) | one record per position: state, quantity, stop/take-profit versions, ACKs, exit lock, timers | entry fill, ACK, trigger, exit fill, exit terminal, tick rules R1–R5, emergency | ACK, trigger, tick and lock TTL in any order | one full exit; a stop that only tightens; never a quantity without protection | PositionManager |
| fill simulator and paper trader (`execution/sim.py`, `paper/trader.py`) | pending control commands, pending orders, live and triggered algos, copied quantity | submit, poll, mark, depth walk, partial timeout | jitter reorders a batch; partial fills; stale copy of the quantity | every exit ends in a close | PaperPosition |
| entry chain (`core/engine.py`, `core/lease.py`, K6/K7) | pending_entries, leases, entry_meta, positions | decide, fill, terminal notice, sweep, reindex | reservation TTL against late and partial fills | one owner per symbol, max_positions over time, no leak | EntryGate, SymbolLock |
| live trader (`testnet/main.py`, `core/engine.py`) | positions, registry, lease, queue, feed | decide, send, frames, ticks, restart | fills that arrive late, never or in shadow; commands that fail | one entry at a time; protection stands; nakedness closes the lock | LivePosition |
| order registry (`core/oms.py`) and tracker (`core/order_state.py`, `gateway/userdata_map.py`) | client id → state; unknown set; seen tradeIds, cumulative quantity | register, on_event, mark_unknown, sweep, apply | repeated and reordered user data | never backwards, never counted twice, ends are seen | OrderTracking |
| execution queue and adapter (`execution/queue.py`, `execution/testnet_adapter.py`, `testnet/main.py`) | bounded FIFO, reserve, worker, client/armed | put, run, submit, rearm, join, aclose | keys changed in mid-call; shutdown order; full queue | nothing lost or overtaken; reserve holds; clean shutdown | SendQueue |
| rate limiter (`core/rate_limit.py`, `gateway/testnet.py`) | events per window, header override, pause, ban | allow_order, on_order, sync_headers, on_response | two threads, check-then-act; old `now_ms`; lost answers | limits and reserve hold; no order the venue must refuse | RateLimiter |
| reconciliation (`core/reconcile.py`, `execution/exchange_state.py`) | last difference, K2 lock | snapshot, compare, repair, apply | a snapshot of three requests in a thread against a moving core | the lock follows the verdict, repairs never touch a live protection | Supervision |
| arming supervisor and key file (`testnet/arming.py`, `gateway/credfile.py`, `api/keys.py`) | key version, armed | check, probe, rearm, HEDGE disarm | a position opened while the keys are probed | no change of account under a position | Supervision |
| user data and market connections (`gateway/userdata.py`, `gateway/ws_category.py`) | listen key, socket, backoff | run, keepalive, resync, stop | keepalive failing quietly, stop during connect | the stream comes back; stop ends | PrivateStream |
| HTTP pool (`gateway/http_pool.py`) | one connection | request, retry of GET, idle limit | a connection the server closed | an order is never sent twice; the pool comes back | HttpPool |
| kill switch (`gateway/killswitch.py`, `api/server.py`, both mains) | a file, an object per process, the core's flag | trigger, reset, beat, trip, restart | two writers; an await between read and write | only a reset opens; a reason stays against kills that begin after it; the flag follows the file | KillSwitch |
| recorder, sequencer, log writer (`recorder/*`, `sequencer.py`, `events.py`, `integrity.py`) | sequence number, queue, open file, manifest | emit, write, flush, rotate, close, restart | full queue; crash between write and manifest | no number unaccounted, closed files stay true | Recording |
| replay, export, console readers (`replay/*`, `api/tail.py`, `api/server.py`) | checkpoint, cache | poll, start, export | a recording that grows, crashed files | every line once, in order | Readers, Recording |
| paper store, async persistence (`paper/store.py`, `persistence/writer.py`) | bounded queue, batch, open transaction | put, apply, flush, close | a heartbeat that commits in mid-batch; a failing batch | in order and once; nothing lost silently at a stop | AsyncStore |
| local order book (`orderbook.py`) | levels, lastUpdateId, lastU, buffer, synced | feed, apply_snapshot, resync | lost events, snapshots at any time | a synced book is the venue's book | DepthBook |
| engine routing and health (`core/engine.py`, `core/health.py`) | freshness per category, exit mode, reservation | trade, book, mark, connect, tick, fill, sweep | checks at intervals, early returns | decisions on data whose age is known | MarketView |
| market view, bars, state engine (`core/market.py`, `core/state_engine.py`) | open bar, window of bars | on_trade, on_bar | late trades; a window shorter than the study's | live label = study's label | MarketView, Research, Decisions |
| decisions, strategies (`core/decision.py`, `strategy/*`) | — | label → intent, register | cells, ages and guards | an intent is of the cell and of now | Decisions (the register: not modelled) |
| risk checks (`core/risk.py`, `core/engine.py`) | positions, reservations | gather inputs, assess | soft resizing in sequence, missing inputs, entries in flight | what passes is within every limit, and how far over time | RiskChecks, Account |
| runaway, breaker, cost drift, stream checker, beta, histograms | bounded summaries | feed | windows, day roll, stamps that step back | each answers as the whole history would | Monitors |
| configuration (`config.py`, `paper/config.py`) | — | load, refuse, filter by profile | cross-field conditions | an accepted file keeps what the code relies on | not modelled |
| studies (`research/*`) | — | bars, barriers, samples, beta | looking ahead | result = definition over the whole recording | Research |
| reactors (`core/reactors.py`) | shadow exits | on_tick | — | produces no order | not modelled |
| ids, commands, identity, signing, REST, clocks, universe, costs | — | formatting, parsing, I/O | — | — | not modelled |
| console views, signal statistics, scripts, UI | — | presentation, floating-point statistics | — | — | not modelled |

## 2. The modules

In every module an action is a whole handler with everything it calls, one step of
one thread between two points where another thread, process or the venue can act.
Time is relative: an age counts ticks since a timestamp was taken and stops
counting one past the threshold it is compared with, so clocks need no bound.
Operators commented "Mutant" are a definition with one plausible mistake; every
property is known to fail when its mutant replaces the definition beside it.

### PositionManager and PaperPosition

`PositionManager` holds the pure handlers of the class of that name, one operator
per method: a handler takes the position record and returns the new record, the
algo commands and the market orders it emits. `PaperPosition` drives them with the
simulator: `pos` (the engine's record), `ctl` (`sim.pending_ctrl`), `orders`
(`sim.pending_orders`), `algos`, `trig`, `simQty` (the simulator's copy of the
quantity) and `thin`, whether the market may hold less than an order asks for.

The trader is one thread: `_drain_sim` records a simulator result, runs the engine and
submits the commands before anything else happens, so processing one command is
one action. A command becomes ready after latency plus jitter, so commands of one
batch are processed in any order: `ctl` and `orders` are sets. Quantities are whole
exchange steps; prices are integers on an axis where larger is better for the
position, a short is a mirrored long.

`NeverNaked`: while the book fills every order, an open quantity has a stop of the
current version live or being placed, or an exit under way. `OneExit`: one full
exit and one partial at most. `StopNeverLoosens`, rounding included.
`ExitCompletes`: what was decided ends in a close.

### LivePosition

The same handlers behind the testnet: the engine's routing (`_decide`, `_exec`,
`_from_user_data`, `_register_orders`, `_tick_positions`, `_reindex`), the queue with
its worker, the venue, and the private stream that brings the fills, in `shadow` and
`active` mode, with lost frames, failed sends, a restart and the reconciliation. A round
of it (`Round`) is one step here: the verdict is that of the snapshot, and then, as
configured (`applies`), it cancels the orders no position of the core owns (`Orphaned`)
and places a stop and a target for a position without any (`Missing`), each request by
itself executed or not. A restart runs one with an empty core. The orders of a repair
(`vrepairs`) carry a version no command of the core has, so the core does not know them
and never cancels them. `OneEntryAtATime` speaks of the venue, not of the core's tables:
what two entries bought is never held together, although the core may not know of the
first one. It rests on `LiveAssumption`. `MaxWait + RecPeriod < PendTtl`: an entry waits
in the queue and is found by a reconciliation before its reservation expires. `MaxWait +
MaxDelay < PendTtl`: what happened to it is heard before that or never. A connection
that brings nothing for `ping_interval` and `ping_timeout` (20 s each,
ws_category.py:65) is dropped with the frames on it, the TTL is 60 s (`EntryUnheard`).
With a fill that arrives after the TTL a third entry could be sent while a stop of the
first is still at the venue.

`ProtectionStands`: no command of the core takes the last stop off a position that is
held, and none of the stops it placed for an earlier position is left beside a later
one, but for cancels that failed. The one step that does take the last stop is a round
that may cancel orphans, when the core does not know the position, and it leaves the
lock closed. `NakedIsLocked`, `LeaseComesBack`.

### EntryGate and SymbolLock

An entry is its client id. `Decide` is `_decide` with K6 and K7; `FirstFill` and
`LaterFill` are a fill with and without its meta; `Notice` is `order_done`,
`order_rejected`, `order_unknown`; `Tick` sweeps reservations and leases and runs
`_reindex`. `Patience` is how long the venue works on an entry: in paper latency +
jitter + `partial_timeout_ms`, well below the reservation's TTL.

`SymbolLock` says what the lease table promises ("bir sembolde aynı anda tek
sahip", lease.py): a symbol is taken when nobody holds it. `EntryGate` implements
it (`LockSpec`) under the mapping *holder of s = the entries on s that may still
fill or are open*. The implementation never consults that set. It looks at leases,
reservations and positions, three tables that are dropped at different times, and
the refinement says they never disagree with the truth at the venue.

### SendQueue and RateLimiter

`SendQueue`: `ExecutionQueue.put/run/join/aclose`, `TestnetAdapter.submit` in its
thread (the check of `armed` and the use of `client` are two steps), `rearm` from
the supervisor's thread (two assignments, two steps), and the shutdown order.

`RateLimiter`: the worker's `now_ms` is the time a command was queued, the
repairing status task's is the time of the call, so `_trim` is asked with times
that go back and forth. `allow_order`, `on_order`, the call and its answer are four
steps of each thread. The venue counts what it executes, answers with its counters,
begins a new interval at any time. Taken from outside: order count headers come
only on answers of orders, and the venue's limits are the configured ones.

### Supervision

The status task with both supervisors in their threads: `arming.check` reads the
file, counts the positions, probes, rearms; `reconcile.check` asks for mode,
positions and algos in three requests, compares them with a core that went on, may
repair, and `_apply_reconcile` sets the lock unless the result equals the one
before. The trader is reduced to the order of its effects: sent, filled, known,
protected, closed, known to be closed. One account per key, so that a rearm under a
position strands it. `LockTrue`: an open lock follows from the last verdict and
agrees with the account while nothing moved. `HandsOff`: repairs never cancel the
protection of the core's position and never touch foreign orders.
`VerdictReachesLock`: a difference that stays closes the lock, agreement opens it,
a changed key file is applied.

### Gateway: PrivateStream, HttpPool, KillSwitch, OrderTracking

Four parts of one process that share nothing but the venue; a behaviour follows one
of them (`part`), which keeps the state space the sum and not the product.

* `PrivateStream`: the loop that takes a key and connects, the keepalive task, the
  resync, the two stops of a shutdown. `StreamRecovers` and `StopEnds` name the two
  cases in which the code does neither (section 5).
* `HttpPool`: the connection is none, good, closed by the server, or *stuck* (an
  answer was never read and `http.client` refuses the next request). `OrdersOnce`,
  `PoolHeals`.
* `KillSwitch`: the file, the trader's own object, the core's flag, the console, the
  beat (atomic in the paper trader, split by an `await` on the testnet), restarts at
  any point of a beat. A kill of the console is two steps of one of its threads, read
  (`ConsoleAsk`) and write (`ConsoleTrigger`); a reset writes whatever it read and is
  one. `SwitchKept`, `FlagFollowsFile`.
* `OrderTracking`: registry and tracker fed from one channel that may repeat a
  message and be read out of order. `BeliefsTrue`, `NeverBackwards`, `EndIsSeen`.

### RecordingSystem: Recording, Readers, AsyncStore

`Recording` is the recorder: an event takes its number before the queue is tried, a task
writes it into a buffer that is flushed now and then, an event of another bucket closes
the file (trailer, manifest line) and opens the next; stop, the start that takes its
number from the manifest, and a crash at any point. A crash leaves a prefix of the
buffer in the open file; or, while the file is being closed, all of it and the trailer,
with the line of the manifest or without it (`PartlyClosed`), and so does a writer that
dies of an error there. A line of the manifest is written whole or not at all. The
replay and `verify_recording` are operators over what is on disk. File names sort as
text, so 12 comes before 9. `Readers` adds the console (Tailer with checkpoint and
growing reader) and the export with its cache; `AsyncStore` the database: queue,
batches, one open transaction of a connection that the heartbeat commits too. `beside`
chooses which of them runs.

`Accounted`: closed files hold for ever what the manifest says, and no number of a
life is unaccounted. `ReplayExact`, `ReadersExact`, `StoreExact`, `ReadersFollow`.
Where the code does not deliver, the properties say when: `NamesFollowNumbers`,
`WholeAreListed`, `crashes = 0`, `old = {}` are its limits (section 5).

### Market: DepthBook, MarketView, Decisions, RiskChecks, Account, Monitors, Research

As in `Gateway`, a behaviour follows one part.

* `DepthBook`: the exchange numbers its changes; change *n* writes *n* into level *n
  mod Levels*, so the book after change *n* is known and `BookFollows` compares
  level by level, and demands that a snapshot the buffer covers synchronises.
* `MarketView`: two categories of events, bars by trade time, freshness looked at
  every `CheckEvery`, the reservation with its TTL, the tick with its exit mode.
  `ActsOnFresh` states by how much a decision may be made on stale data, and when
  an entry name is new.
* `Decisions`, `RiskChecks`: pure functions. `RiskSound` compares `assess` with a
  statement of what may pass (`Open`, `Within`) that knows nothing of the order of
  the checks.
* `Account`: puts single questions to `assess`, or lets entries in one after the other
  while those before them are in flight, fill late or in part, are given up and sold. What
  the engine gathers (`Gathered`) has the open positions in its sum of money and nothing
  of what is in flight. `GrossKept` says what is left of the cap: what is open is within
  it, but for what came of the entries that were in flight when the latest of the open
  ones was decided, and for the price that one was filled at.
* `Monitors`: each detector is told events one by one and its answer compared with a
  function of the whole history (`seen`). The beta tracker is told every closed bar, and
  a late trade may close one minute twice: whatever comes, it holds returns of minutes
  that were there, and repeats at most as many of a coin's as its bars came late. While
  none did, its pairs are the study's latest, of which it lacks at most as many as there
  are minutes with a return of only one coin, gaps or not. A quantile beyond the last
  bound is the greatest value seen, else the least bound that the true quantile's bucket
  has.
* `Research`: a recording grows by one bar a step; labels, upper frames, barriers
  and samples are compared with their definitions over the whole recording, and no
  later bar may change a result that was final.

## 3. Runs

| run | question | properties | distinct states |
|---|---|---|---|
| PaperPosition | one position from fill to close, any order of simulator answers, full and thin books, all rules | NeverNaked, OneExit, StopNeverLoosens, ExitCompletes | 730 907 |
| EntryGate | two symbols, three entries, up to two fills each, every notice | SlotsKept, LockSpec, SymbolFreed | 280 135 |
| SendQueue | three commands, a change of keys in mid-call, a shutdown at any time | Orderly, NothingLeftBehind, ReserveRule, AnsweredWhileAlive | 26 536 |
| RateLimiter | two threads, lost answers, pauses, new intervals | WindowHolds, ReserveLeft, RoomKept | 3 558 581 |
| Live | two entries of a symbol over queue, frames, faults, reconciliations, a restart | OneEntryAtATime, ProtectionStands, NakedIsLocked, LeaseComesBack | 1 064 280 |
| Supervision | both supervisors, two keys, a trade, a fault, every repair mode | LockTrue, HandsOff, VerdictReachesLock | 215 134 |
| Gateway | stream, pool, kill switch, orders | BeliefsTrue, OrdersOnce, ConnectionsHeal, StopEnds, FlagFollowsFile, SwitchKept, NeverBackwards, EndIsSeen | 89 684 |
| Recording | recorder alone, with the database, a console, or exports | Accounted, ReplayExact, ReadersExact, StoreExact, ReadersFollow | 357 758 |
| Market | book, market view, monitors, studies, risk and the account | BookFollows, ActsOnFresh, MonitorsExact, BacktestExact, GrossKept, RiskSound | 890 450 |

EntryGatePartial, SendQueueRearm and LiveUnregistered are expected to find what
section 5 names.

### Bounds and why they are enough

*PaperPosition.* Every threshold (ACK wait, backup stop, exit TTL, hold, replacement
interval) is one tick, so that a timer has the values not started, running, at its
threshold and past it. Quantity 2 with `Tp1Den = 2` gives a partial exit with a
remainder, and in a thin book a fill of a part. `TickSize = 2` and a trail gap that is
not a multiple of it make rounding matter. Marks 9 and 15 are on the stop's far side and
above every rule's trigger. Three stop versions let a replacement be replaced. Funding
−5 moves break-even below the entry. `MaxFunding` and `MaxVersion` are guards of
`Funding` and `Tick`.

*EntryGate.* Two symbols and `MaxPositions = 1` make K6 and K7 both bite; three
entries let a symbol be given away, back, and away again. `Ttl = 2 > Patience = 1`
separates "still filling" from "swept". `MaxFills = 2` is the first number with a
remainder.

*SendQueue.* Queue of 2 with a reserve of 1: the smallest with a slot an entry may
not use and one it may. Three commands fill the queue while one is in flight.
One rearm meets every stage of a call.

*RateLimiter.* Limits of 2 with a reserve of 1; a short window that ends within
its tick and a longer one that does not; a command that waits one tick so that
ages seen by the two threads differ; one queued, one in flight, one repair. A pause
asked for ends within its tick, but not for a command queued a tick before.

*Live.* Two entries, so that the second meets what the first left behind; one fault
(lost frame, failed send, restart, dropped command, a request of a round that fails)
anywhere; orphan cancels and repairs each applied or only reported (the default,
config/testnet.toml:122). `PendTtl = 3`,
`MaxWait = RecPeriod = 1` is the smallest instance with the strict inequality of
`LiveAssumption`. Only rule R2 runs: which rule decided an exit changes nothing
after it, and all of them are in PaperPosition. A queue of 3 holds the commands of
one step and refuses those of two.

*Supervision.* Two keys, one rewrite of the file and one trade meet every step of
both checks; one outage or failed request anywhere; both repair modes.

*Gateway.* Three listen keys: a first, its replacement, and one more for a resync
that overtakes a reconnect. An order with two trades, an algo order, one repeated
message, reading at any place of the channel. Two console reasons and one of the
trader show whether a reason was replaced; two threads of the console overlap; two
resets allow kill, reset, kill again. The pool keeps no count.

*Recording.* Numbers from 8 to 13, so that the names of files pass from one digit to
two; a queue of 2; two buckets with the stamp of the one before allowed; one crash;
three lives alone, two with something beside (`SideSeq`, `SideLives`). Batches and
flushes of two, one failing statement. Two starts of the console, two exports.

*Market.* Two levels, events of one and of two changes, six changes, one lost event, two
snapshots. Six units of time against limits, checks and bars of two. Monitors: windows
of two or three, histories one or two longer than the windows, and two bars of the beta
tracker that come late. Studies: windows, holds and horizons of two and three on
recordings of up to eight bars. Risk inputs at, below and beyond every limit and
missing. Account: three coins and two slots, so that a slot is used again while an entry
is in flight; a cap below two entries and two prices make K8 cut and refuse.

`CHECK_DEADLOCK FALSE` stands where the modelled part ends: a closed position, a
process that is down, every entry used, every bounded input spent.

### Fairness

* `PaperPosition`: `poll` runs after every market event and every tick, `on_tick`
  every `tick_ms`: weak fairness of processing, of fills and of the tick. None of
  triggers, funding or partial timeouts: the market owes nothing.
* `EntryGate`: the tick task does not stop; the venue fills or gives up within
  `Patience`; a position is closed in the end (`ExitCompletes` for a decided exit).
* `SendQueue`: the status task starts the worker; a call has a timeout; a shutdown
  that began goes on. None of rearming or of the beginning of a shutdown.
* `Live`: the worker and the stream go on and the clock does not stop. None of
  decisions, triggers or faults.
* `Supervision`: the status task goes on (`StatusStep`) and what is on its way
  arrives (`Settles`). Nobody is obliged to trade or to change keys.
* `Gateway`: tasks of the event loop go on, requests have timeouts; *strong*
  fairness only of taking a key and of connecting, which are retried for ever with
  backoff and succeed if they can infinitely often; the pool is asked again and
  again by the status task; the beat goes on; the stream is read.
* `Recording`: the console's thread runs as long as its process does.

## 4. Proofs

| theorem | says | for every |
|---|---|---|
| `PaperPosition_proofs!NeverWithoutProtection` | `[]NeverNaked` | rule parameter, exit mode, order of processing |
| `PaperPosition_proofs!ExitOnce` | `[]OneExit` (types included) | rule parameter, book, exit mode |
| `PaperPosition_proofs!StopRatchet` | `StopNeverLoosens` | rule parameter, tick size |
| `Admission_proofs!SlotsAreKept` | `[]SlotsKept` | set of symbols and entries, `Patience < Ttl` |
| `Admission_proofs!GateIsLock` | `LockSpec`: the gate implements the lock | the same |
| `Sending_proofs!NoCommandLost` | `[]Orderly` | queue size, reserve, number of commands |
| `Sending_proofs!ReserveHolds` | `ReserveRule` | the same |
| `Sending_proofs!CleanShutdown` | `[]NothingLeftBehind` | the same |
| `Sending_proofs!WindowBound`, `ReserveBound` | `[]WindowHolds`, `[]ReserveLeft` | limits, spans, reserve, pauses |
| `Sending_proofs!OrderHasRoom` | `[]RoomKept` | the same |
| `LivePosition_proofs!LiveInvariant` | `[]LiveInv`: the inductive invariant | entries, faults, timeouts, queue size, rule parameter, reconciliation modes |
| `LivePosition_proofs!OneEntry` | `[]OneEntryAtATime` | the same |
| `LivePosition_proofs!Protection` | `ProtectionStands` | the same |
| `Admission_proofs!LockIsTrue` | `[]LockTrue` | keys, trades, faults, repair modes |
| `Admission_proofs!HandsStayOff` | `HandsOff` | the same |
| `Gateway_proofs!BeliefsAreTrue` | `[]BeliefsTrue` | orders, trades, repeats, reordering |
| `Gateway_proofs!OrdersGoOnce` | `[]OrdersOnce` | failures of connection and venue |
| `Gateway_proofs!SwitchIsKept` | `SwitchKept` | threads, triggers, resets, restarts |
| `Gateway_proofs!OrdersGoForward` | `NeverBackwards` | orders and messages |
| `RecordingSystem_proofs!RecordingIsAccounted` | `[]Accounted` | queue size, buckets, lives, crashes |
| `RecordingSystem_proofs!StoreIsExact` | `[]StoreExact` | queue, batch and flush sizes, failures |
| `RecordingSystem_proofs!ReplayIsExact` | `[]ReplayExact` | queue size, buckets, lives, crashes |
| `RecordingSystem_proofs!ReadersAreExact` | `[]ReadersExact` | the same, files of the history, restarts of the console |
| `RecordingSystem_proofs!ExportsAreExact` | `ExportFromScratch` | the same, number of exports |
| `Market_proofs!BookIsTrue` | `BookFollows` | levels, changes, lost events, length of the buffer |
| `Market_proofs!FreshIsTrue` | `ActsOnFresh` | limits, intervals, bar lengths, TTL |
| `Market_proofs!RiskIsExact` | `Open`, `Within` ⇔ what `assess` lets through | intent, input, configuration with all checks on |
| `Market_proofs!RiskHolds` | `[]RiskSound` | question of a behaviour |
| `Market_proofs!StudiesAreExact` | `[]BacktestExact` | window, percentile, time frame, hold, horizon, recording |
| `Market_proofs!MonitorsAreExact` | `[]MonitorsExact` | windows, limits, jitter, number of events |

The assumptions are the named `ASSUME`s of the modules (`PMAssumption`,
`PPAssumption`, `EGAssumption`, `SQAssumption`, `RLAssumption`, `SupAssumption`,
`StreamAssumption`, `KSAssumption`, `OTAssumption`, `RecAssumption`,
`ReadersAssumption`, `StoreAssumption`, `SystemAssumption`, `LiveAssumption`,
`DBAssumption`, `MVAssumption`, `ResAssumption`, `AccAssumption`), which TLC evaluates on
the instances, and, for EntryGate, `Prompt == Patience < Ttl`.

**Paper position.** The first part of `PaperPosition_proofs` shows once per handler that its
result `Follows` its argument: the type is kept, the stop is not looser, and two
facts that make the properties inductive. `Once`: a position that a rule can still
exit has emitted nothing but its TP1. `OnGrid`: a placed stop is a multiple of the
tick. The code compares the wanted stop with the old one *before* rounding; only
because the old one is on the grid, and rounding is monotone and idempotent, can
rounding not take the new one below it. `NeverNaked` needs `Covered`, which ties
the simulator's tables to the position's state: nothing exists before the entry
(`Unborn`), no exit before protection (`NoExitYet`), a closed position is empty
(`Emptied`), a managed one has its stop of the current version or the command that
places it (`Guarded`), and one that is closing has an order or a trigger for all it
holds (`Closing`). A handler `Stays`, `Moves` the stop or `Exits`; each is handled once.

**Entry gate.** The properties speak of who may still fill, the code of leases. The
link is `Owns`: an entry still to fill holds its symbol's lease unbound, an open one
holds it bound to itself. It needs that a working entry's age is at most `Patience`
(otherwise the sweep takes its lease) and that an entry with its meta has no
position. From `Owns`, K7 finds a free symbol free, and every step of the gate is
a `Take`, a `Free` or nothing at the lock. For K6 the owners are counted against
reservations and positions.

**Send queue.** *accepted = answered ∘ in flight ∘ queued* while the worker lives.
It needs `Holding` (the worker holds a command exactly while its thread is busy).
The count of entries in the queue is not inductive when the head leaves; `Places`
(entries stand only in the first `Maxsize − Reserve` places) is. `Joined` ties the
shutdown to an empty queue.

**Rate limiter.** Between `allow_order` and `on_order` an order is in no window.
`Windows` and `Entries` count it from the moment it is let through, `Single` says the
second thread is idle unless repairs are applied, `Protective` that its orders are
never entries. The bound does not depend on how `now_ms` behaves. For
`OrderHasRoom`, `Known` bounds what a header said plus the orders counted since and those
about to be; `Ahead` says that with one thread this is never less than the venue's count.

**Live position.** `LiveInv` has five parts: the types; `Orderly`, what the names in the
queue, the stream and the registry say of an order; `Reserved`, that an entry which is
queued, held without the core's knowledge or filled in a frame still on its way is the
last one decided and younger than its reservation, or the lock is closed, which is where
`LiveAssumption` is used; `Owned`, that what is held belongs to the last entry and what
the core has closed is gone; `OldStops`, that a stop of a closed position has its cancel
behind it in the queue and before the next entry, unless the queue or the venue refused
it (`refused`, the case `ProtectionStands` names). An order whose entry the core does
not know has a closed lock above it and nothing queued or registered (`Orphans` of
`Reserved`), so a round that takes it for an orphan leaves the lock closed. There is one
lemma per action, and each part is shown kept from the few parts it depends on.

**Supervision.** What the lock says now was found several steps ago. `Carried`
keeps the account of a reading the client's account; `Picture` says what the parts
of the snapshot that were read agree with as long as nothing moved (`quiet`),
`Clean` that a result without difference means the facts hold, `Remembered` that
the lock's memory is a good verdict, `Shown` that the facts still hold at the end.
For `HandsOff`, `Named` bounds whose orders can be on an account and `Chosen` which
of them a round may have chosen to cancel.

**Gateway.** One invariant per part: `Counted` (what the tracker counted are distinct
trades the venue made, of messages that may still be in the channel), the reports of the
pool by method and outcome, `KillInv` (the paper trader is between two beats), `Keeps`
(what a step may do to the flag, the reason and the kills that may still replace it),
`Onward` (every transition of the registry goes up in rank or stays). `OnePart` says the
other parts do not move.

**Recording.** `Accounted` speaks of files and a manifest; the invariant `RecInv`
of where an event can be. `Idle`, `OpenFile` and `LineUp` say what the open file, the
buffer and the queue hold of this life, `Past` that everything written has a smaller
number than everything that waits, `Listed` that what the manifest names lies before
the open file — which is why a start that counts from the manifest never opens a
file the manifest names. `Counted` is `NothingUnaccounted` number by number. For the
store, `InLine` says that database, open transaction, batch and queue, put one behind
another, are sorted by life and number; every action only moves the borders between
them. `Kept` says that a row handed over is in one of them or counted, `Reported`
that a batch counts only what was executed, which makes the
last statement of `StoreExact` inductive. For `ReplayExact`, `ReplayInv` says where the
lines of the files stand to one another. `Shelf`: the numbers of a file go up from the
one in its name, two files the manifest lists do not overlap, and, while nothing was
dropped, one that a crash left without its line does not begin below a listed file behind
it. `Line1`: what this life
writes has no gap from file over buffer to queue, what a crash left lies before, and
without a crash every number is somewhere. That `Files` lists every file once, and in the
order of the names, is shown by counting the names before each; the loops of
`LinesOf` and of the report by induction on sets of naturals, which turns a report
without gaps and repetitions into consecutive numbers.

**Readers.** What a console shows depends on files that change under it, so the proof
has three layers. `OfLives`: every life has files of its own, which lie one behind the
other, and of the running one only the open file is not listed. `Grows` is what a reader
may rely on in *any* step of the recorder: a file keeps its lines and gets more, or,
after a crash, is cut and belongs to the new life, which a listed file never is; and,
with names that follow the numbers, only the last file changes and new ones come behind
it. `LivesStep` shows that every action of the recorder is such a step, so nothing after
it looks at the recorder's actions again. `ReaderInv` then says where the lines of the
view come from. `Marked`: a line on disk that was shown is in a file that was left
behind, or among the first `n` of the file being read, so the next line is new.
`AllRead`: without a crash, files left behind, and those before the place of the reader,
are shown completely (also by the view in the checkpoint). `InSequence`: while no start
left files before its window, everything shown lies before what comes. Each action of
the console is shown to keep them. For the exports, `Cached` says that a cached file
holds the lines of the files up to it, which stays true because the files that are there
keep their places in `Files` (`ListGoesOn`).

**Market.** *Book.* `TrueBook` says of a synchronised book that it is the exchange's
after the last change applied, and of the buffer that it holds what the exchange
published. `apply_snapshot` runs through the buffer, and what it leaves is shown by
induction over the number of events taken, carried out on sets of naturals (`Least`,
`Induct`). *View.* `Looked` bounds how long ago each category was last looked at, so
what is not marked stale is at most `Limit + CheckEvery` old; `Named` says that without
late trades the open bar is later than every name that was used. *Risk.* One lemma per
check says what it leaves of the notional (`NotionalFits`); rounding down to the step
(`StepDown`) can only lower it further, so what fits before fits after. The converse
needs that no check takes anything of an intent that is within all limits. *Studies.*
`StudyInv` says of the recording what the loops rely on: the bars the engine kept are
the last `Keep` of it, minutes only go forward, and so do settlements. Each study is a
loop, so its state after *n* bars is described by a predicate proved by induction on *n*
(`SamplesAre` and its kin), from which both halves follow: the result is its definition
over the whole recording, and a loop over a beginning is a beginning of the loop
(`SameLoop`). For the label it must be shown that every bar a feature looks at, through
a percentile of a moving window, lies in the last `Keep` bars (`LabelsAreTheSame`); `2W
+ NLong + 2` suffices for a short window of up to `W + NLong + 1`, which `ResAssumption`
states because no code does. *Monitors* (`Monitors_proofs`). `MonInv` says of each
summary which part of the history it holds. A queue that is trimmed at the front is
described as the history at a set of positions (`Only`), so trimming, appending and
skipping a position already known are statements about sets (`OnlyCut`, `OnlyAppend`,
`NewPosition`); that the orders a trim forgot could not matter needs `Orderly`, stamps
that step back by at most the jitter. The breaker's sums and streaks restart at the
first event of the day (`FirstIn`); what the stream checker holds is the last event of
the open connection (`LastOne`); the beta tracker's queues are, while no bar came late,
the last minutes with a return (`Tailing`), and from two such ends follows how many
common minutes they can lack (`BetaSays`); and at any time each repetition in a queue is
paid for by a late bar (`FewTwice`). A histogram's counts are, bound by bound, the
number of values at most that (`FirstSums`), which the binary search puts there
(`SearchIs`). Each `...Steps` lemma carries one summary over one event and each
`...Answers` lemma draws the property from it.

**Left to TLC.** Liveness (`ExitCompletes`, `SymbolFreed`, `EndIsSeen`,
`AnsweredWhileAlive`, `FlagFollowsFile`, `ConnectionsHeal`, `StopEnds`,
`VerdictReachesLock`, `NakedIsLocked`, `LeaseComesBack`, `ReadersFollow`): fairness and
ENABLED are out of the prover's reach; of `ReadersFollow` the half that is not liveness
is `ExportsAreExact`. `GrossKept`: it adds over sets of positions, which the provers have
no induction for. Every other safety property of a passing run is proved. The induction
theorems of the library take an operator as parameter and cannot be used, so each loop
has an induction on sets of naturals written by hand: for the book, the replay, the
readers, the studies and the monitors.

## 5. What the models disagree with

Three runs end in a counterexample; each shows the code doing something a document
or a comment says it does not.

* **EntryGatePartial** (`core/engine.py:236`): the second fill of an entry finds no
  meta, raises KeyError and is lost; faz4-cikis-kurallari.md:93 takes the quantity
  from user data.
* **SendQueueRearm** (`testnet/main.py:115`): `rearm` sets the client to None between
  the adapter's check and its use; the AttributeError is raised again by `_send_error`
  and ends the worker. queue.py:85: "gönderim hatası koşuyu durdurmaz, olaya yazılır".
* **LiveUnregistered** (`core/engine.py:107`): a tick's commands are returned before
  `_register_orders` (129); the exit a rule produces is sent and not registered, and
  the frames of its fill resolve to no position. engine.py:133: "Üretilen her emir
  kayda girer".

The rest was seen while modelling. Where a model contains it, the property that would
otherwise fail names the case it leaves out.

*Protection and exits*

* A triggered protection that the book fills in part is dropped with its remainder,
  after the trigger cancelled the other one (sim.py:169); faz4-cikis-kurallari.md:44:
  "korumasız pozisyon taşınmaz". `NeverNaked` therefore speaks of full books.
* R3 emits place and cancel together and jitter may process the cancel first
  (position.py:262); the comment at :260 gives an order. For a moment the new stop is
  "being placed" only, which is how `NeverNaked` has to be read.
* Two algos triggered within the latency both fill: the copied quantity of a closed
  position is kept (paper/trader.py:155, sim.py:157).
* R4's partial takes no exit lock (position.py:236); ADR 0020:47 reads as if every
  exit did.
* `order_done` returns before `on_exit_terminal` (engine.py:175): a cancelled exit
  keeps its lock until the TTL.
* On the live path ACK and trigger frames carry no position (engine.py:172-177, 193):
  in mode active a position is never MANAGED and ends in the emergency exit of
  `protect_timeout`. `restore_versions` is overwritten by the entry (position.py:148).

*Symbols and entries*

* The lease is released on the core's belief that its cancels are done (engine.py:281);
  the comment at :274 speaks of the exchange.
* With `Patience ≥ Ttl` a late fill finds its symbol given away and two positions own
  it. Nothing in the live trader bounds `Patience`: `Prompt`, and `LiveAssumption` in
  `LivePosition`, are the conditions under which the code is right.
* A terminal notice frees the reservation, not the lease (engine.py:166); lease.py:3
  reads as if both went together. `SlotsKept` leaves out what such a notice dropped.
* A late trade reopens an older bar (market.py:43-49), so a name of an entry may be
  used twice; `ActsOnFresh` claims new names while no such trade came.
* `connect` counts as data (engine.py:94-100), staleness is kept per category, and a
  category never heard is never stale (engine.py:467), while risk.py:4 says missing
  input closes. A decision asks the flags of the step before (engine.py:125, 128).
* Beta exposure is always 0 (engine.py:448), slippage 0 (:454) and `last_exit_ms` never
  written, so K9 counts only the entry itself and K15 and K16 never bite; depth is empty
  (:454), so with a `participation_max` K14 refuses every entry; `_on_closed_trade`
  (testnet/main.py:276) has no caller and the breaker's verdict is only displayed. K9
  lets an entry flip the exposure up to its old size. K11 checks the margin before K14
  cuts the quantity.

*Supervisors, keys, connections*

* An exception in a reconciliation closes the lock and leaves `last` (testnet/main.py:399):
  the next good result equals it and does not open. `VerdictReachesLock` begins with
  a result. Between a rearm and the next reconciliation entries use the old account's
  verdict (main.py:390).
* `arming.check` counts positions before it probes (arming.py:38), does not retry a
  failed probe (:56), and defers even a removed key while a position is open (:10:
  "hemen"). After HEDGE disarmed, nothing rearms until the file changes.
* `_arm_block` runs in the reconciliation's thread and emits from it
  (testnet/main.py:288, 293), contrary to :387.
* After a restart the core knows no position, so the stops of one that is held are
  orphans to the reconciliation (reconcile.py:84-91); with `orphan_cancel = "apply"` it
  cancels them (exchange_state.py:207). The lock is closed then, and stays so. The
  shipped configuration only reports (testnet.toml:122).
* The orders of a repair (`<pos_id>-SL-r1`, exchange_state.py:191) are never registered:
  the core does not cancel them, and they may outlive their position and stand beside a
  later entry until a round takes them for orphans. A round between the fill of an entry
  and the sending of its stops sees it unprotected and doubles them.
* The stream is started only if the trader is armed at the start and keeps the client it
  was started with (testnet/main.py:350).
* A keepalive's status is ignored (gateway/testnet.py:155, against userdata.py:7) and
  `EXPIRED_CODE` is unused: a dead stream stays silent. Both stops may fall between key
  and connection (ws_category.py:53), and the loop then waits for a frame that may not
  come. These are the exceptions in `StreamRecovers` and `StopEnds`.
* The retry of a GET sits in the except clause (http_pool.py:92); when it times out the
  connection stays unusable until `max_idle_s`. `PoolHeals` counts that idle time;
  tests/test_http_pool.py:121 expects a timeout to close it.
* A 200 without JSON and a 5xx other than 503 are reported "failed" although the order
  may have been executed (gateway/testnet.py:96, 103).
* A trip during the awaits of `_pre_beat` is overwritten for one beat by what the beat
  read before them (testnet/main.py:407; :260: "elle sıfırlanmadan açılmaz").
* Two kills that overlap at the console (api/server.py:478 runs a thread per request)
  both see the switch open, and the second replaces the first reason
  (killswitch.py:29; :30: "ilk neden korunur"); so does a trip of the testnet trader.
  `SwitchKept` says what is left: no kill that begins after the reason is written
  replaces it. A kill that saw the switch active and is answered after a reset
  reports `active` and writes nothing. All of them write one temporary file (:25).
* A header that reported a full window is kept when the window has passed
  (rate_limit.py:63): nothing is let through, so no answer corrects it;
  tests/test_rate_limit.py:19 expects the budget back. Retry-After is counted from the
  time a command was queued, and a later 429 or an older header may overwrite (:138).

*What is recorded*

* The log is closed before the send queue is drained (testnet/main.py:330): the answers
  of the last commands are not recorded.
* A start after a crash counts from the manifest (recorder/main.py:46): the numbers of
  the file the crash left are used again and a file of the same name is truncated
  (writer.py:37); PHASE.md:171, :178.
* A crash between the trailer and the line of the manifest (writer.py:47-52) leaves a
  whole file the manifest does not name. The next start counts from the manifest
  (recorder/main.py:39-51), and a replay, which ends at a file that is cut short, reads on
  from this one into the numbers given twice (`WholeAreListed`).
* File names sort as text (writer.py:36), so readers that follow names leave the order
  of numbers when these grow a digit; a replay ends at the first truncated file
  (harness.py:43); the Tailer stays on a file a crash ended (server.py:231). These are
  the premises of `ReplayExact` and `ReadersExact`.
* A dead writer task leaves `queue.join()` waiting for ever (recorder/main.py:213).
* A batch that fails is lost with every row of it (persistence/writer.py:85).
* The tracker drops a trade that arrives after a later one (order_state.py:86): the
  quantity is never too large and may stay too small.

*Books, monitors and studies*

* A break of the depth chain asks for no snapshot (orderbook.py:66, ADR 0005:34).
* Stamps of commands may step back (testnet/main.py:99), and refused commands count as
  well: the runaway detector's window is exact up to that jitter. A late trade of the
  previous day resets the breaker's day.
* No code compares the windows of the features. What the engine keeps
  (state_engine.py:44) covers a short window of up to `W + n_long + 1`; with a longer one
  the live label would lack a feature the study has.
* A barrier is assumed filled at its price across a gap (barrier.py:42), a settlement
  between entry and first held bar is missed (:40), the end of the data counts as a
  timeout, and forward samples pay at most one settlement.
* The live beta tracker counts a window per symbol, research/beta.py over common times:
  they differ after gaps. A minute that is closed again by a late trade is appended again
  (beta_tracker.py:23-26): the window then holds it twice.
* Entries in flight are in no sum of money (engine.py:444), so two that are decided before
  either fills may pass `gross_cap_usdt` together; faz5-risk-engine.md:35 writes Σ and does
  not say of what.

## 6. Not modelled

*Of the modelled components.* Operator freeze and unfreeze and `restore_versions`; limit
orders and PnL of the simulator; the intent ledger, `sync_ws` and the weight window of
the limiter (no caller), `limits_from_exchange_info`; commissions; tables and SQL of the
store; HTTP handlers of the console and what its views compute. A difference of
leverage, margin or position mode is one kind of difference in `Supervision`. The
register of strategies and what it refuses. Key strings, file permissions, confidence
values and evidence texts are data nothing here tells apart.

*Components.* Reactors produce no order (the loader refuses an active one). The
configuration loaders are pure functions of a file, read once: each refusal is a
condition of its own, and what other parts rely on is in the assumptions of their
modules. Identifiers, commands, identity, signing, REST helpers, clocks, universe and
costs are formatting, parsing and I/O. Signal statistics are floating point; scripts and
the UI decide nothing.

*Determinism* of `Engine.step` (same events, same commands) holds for any functional
operator by construction and cannot be stated here; the replay harness tests it.

## 7. What is left

* Proofs: a refinement by `LivePosition` of `SymbolLock`.
* Composition: `LivePosition` with `EntryGate` over several symbols, and with the steps
  of `Supervision`; a thin market on the live path.
* Abstract specifications: a protected quantity, which `PaperPosition` and
  `LivePosition` would both implement; a bounded FIFO channel for `SendQueue` and
  `AsyncStore`.
