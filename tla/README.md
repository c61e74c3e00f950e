# TLA+ models of the worker bot and the Go engine

Models, TLC runs and machine-checked proofs about the trading core of this
repository: the Cloudflare worker bot (`projects/worker-bot`) and the Go engine
(`projects/go-engine`). `PROJECT.json` is the index: which definition stands for
which lines, what each run checks, which bug each property was shown to catch.

## 1. The system

The repository holds one live trading program in two processes and a large amount
around it (dashboards, older bots, vendored agent documentation).

| Part | State it keeps | Operations | Hard about it |
|---|---|---|---|
| Execution lock (`orchestrator.js` 334-464) | one JSON lease under one KV key | acquire (get, put, get again), release (get, delete), status | every await interleaves with other invocations; KV is eventually consistent and may reject; the worker may be ended before its `finally` |
| Trading state (`index.js` `getState`, `saveState`, `saveStateWithConfigGuard`, `runScheduledCycle`) | one JSON record under `trading_state`: switches, configuration, daily counters | cron cycle, telegram scan, HTTP scan, a dozen operator commands | everybody reads, changes and writes the whole record; no version check; rejected reads are answered with defaults |
| Trade execution (`orchestrator.js` `executeTrade`, `exchange.js`, `security.js`, `proxy-pool.js`, `ultra-fast-engine.js`) | open promises, the exchange's fills | two-leg trade with hedge, parallel batch, pair, triangle, perpetual; three nested loops of sends | an order may be filled although its answer is lost; resends carry no order id; a gateway's own answer may be taken for the exchange's; batches turn errors into results |
| Go engine (`cmd/hft/main.go`) | unlocked fields: equity, daily P&L, trade count, last trade, breaker map | scan loop, `POST /api/execute`, breaker, restart | data races between goroutines; nothing survives a restart |
| Venue breaker (`orchestrator.js` 329-343, 465-543, used 787-874 and 1078) | one JSON object of venues under `nexus_circuit_breaker`, a copy in each scan | load, skip, count a failure or a success, put back; reset by operators | the put is not awaited; whole-object read, change and write by everybody; cached prices count as answers, and cached maps without the venue as failures |
| Global breaker (`circuit-breaker.js`, `monitor-live.js`, gate at `index.js` 4417) | one record under `circuit_breaker_state` | a monitor counts; the cron cycle asks; the operator resets | lost counts; a rejected get fails open; reset beside a running monitor |
| Paper ledger (`db.js` 228-278, `settleOpenPaperPositions`) | D1 tables `paper_positions`, `trades` | open, read the open ones, close, book | the closing `UPDATE` has no condition; failures are swallowed; death between two statements |
| Kill switches, auto executor, spot-lock recovery, Durable Object backup, resilience layer, queue consumer | own limits; backups; in-memory breakers | | without callers, or reached from status routes only (section 6) |
| Scan selection, strategies, feeds, proxies, analytics, dashboards | market data | | numerical, no protocol |

How they interact. Cron, telegram, HTTP and a webhook each start an invocation.
An invocation reads the trading state into memory and calls `runScan` with that
copy; `runScan` takes the execution lock, loads the venue breakers, prices every
symbol in batches, puts the breakers back, settles paper positions at those prices,
ranks opportunities, may execute one live trade, changes the counters in the copy
and releases the lock. The cron cycle asks the global breaker first; telegram and
HTTP scans do not. Who called `runScan` then decides whether and how the copy is
saved. The Go engine runs beside it and shares no state with it; the worker may
post an opportunity to it.

What makes each part correct:

- lock: two scans execute at once only for a known reason; no lock is left behind;
  nobody removes another's lock without such a reason; a lease refuses nobody after it
  lapsed, so the lock of a dead worker lapses;
- trading state: nothing is switched on unasked; what an operator switched off and
  what an auto-stop stopped is undone only by a copy older than that; a newer
  configuration survives a guarded save; no trade is counted twice;
- trade execution: an order is filled twice only if an answer was lost, and never more
  often than its proxies, retries and passes allow together; a booked trade was made and
  the verdict of a two-leg trade tells the position left, except for answers that were
  lost or not the exchange's; every step uses up a send, so it ends;
- venue breaker: a venue is skipped only after enough failures were recorded, in a row
  unless a named cause hid a price; what one scan learnt reaches the next; a cooldown is
  not cut short without a known reason;
- paper ledger: rows and books agree; a position is settled once unless the lock
  failed for one of its reasons or an `UPDATE` did;
- global breaker: no good check closes it, only enough failures open it, nobody
  trades beside it who asked after it opened, and a lasting outage trips it;
- Go engine: what the unlocked fields lose, they lose to overlap only.

## 2. Modules

| Module | Stands for | Uses |
|---|---|---|
| `SingleScan` | what the lock promises to the scans (abstract) | |
| `ExecutionLock` | the lock over its KV namespace | `SingleScan` (refinement) |
| `MCExecutionLock` | symmetry of the scans, for TLC | `ExecutionLock` |
| `ExecutionLockProofs` | theorems | `ExecutionLock` |
| `TradingState` | the shared record, its readers and writers | |
| `MCTradingState` | start records, commands, orders of arrival, a view | `TradingState` |
| `TradingStateProofs` | theorems | `TradingState` |
| `TwoLegTrade` | what a two-leg trade promises (abstract) | |
| `TradeExecution` | one live trade from `executeTrade` to the books | `TwoLegTrade` (refinement) |
| `MCTradeExecution` | the loops' bounds for each job, for TLC | `TradeExecution` |
| `TradeExecutionProofs` | theorems, the refinement among them | `TradeExecution` |
| `VenueBreaker` | the venue breaker's record: pure functions of a record and a time | |
| `PaperLedger` | what the paper ledger promises to whoever reads its books (abstract) | |
| `PaperLedgerProofs` | what follows from that promise | `PaperLedger` |
| `ScanBody` | what a scan does under the lock to the breaker and the ledger | `ExecutionLock`, `VenueBreaker`, `PaperLedger` (refinement) |
| `MCScanBody` | the instance and its symmetry, for TLC | `ScanBody` |
| `ScanBodyProofs` | theorems | `ScanBody`, `ExecutionLockProofs` |
| `GlobalBreaker` | the global breaker, its monitors, the gate, the reset | |
| `GlobalBreakerProofs` | theorems | `GlobalBreaker` |
| `GoEngine` | `engine.execute`, the breaker, loop and API, restarts | |
| `GoEngineProofs` | theorems | `GoEngine` |

In every module a step is what happens between two awaits (between two accesses of
an unlocked field in `GoEngine`). Variables below the comment "history" are read by
no guard; they remember what a property has to compare with.

**ExecutionLock.** `pc[s]` is the await a `runScan` is at: `get`, `put`, `verify`
(acquire), `hold` (the scan itself), `release`, `delete`. `kv` is the stored
record, which disappears at `evictAt`; `lagging` holds overwritten values some
location may still answer with. `Date.now()` is read once, at the start of
`tryAcquireExecutionLock`, and that value (`t0`) is compared with the lease of the
record found, as in the code. A rejected get is `null`; a rejected put is
swallowed; an empty verifying get counts as acquired. `misled` records the awaits at
which the store led a scan where a consistent answer, or an accepted write, would not
have: the properties excuse those, operation by operation, instead of assuming a store
that makes no mistakes.

**TradingState.** `kv` is the record, `st[p]` the copy of invocation `p`, `pc[p]`
its await, `saving[c]` and `outgoing[c]` the progress of a guarded save. The cron
cycle follows `runScheduledCycle` in order: load, spot-lock and core-strategy
enforcement (each with its guarded save), daily reset, loss limit and the early
returns, scan, the AI answer that returns before the save, final guarded save. The
scan is the part of `runScan` that touches the record: settlement, the unguarded
save of an auto-stop, paper or live trade. Each operator command is an action.
Configuration values are represented by the request that wrote them, profit by
units of one trade's result. Reaching the throttle, the volume limit or an open
circuit breaker is a choice, and so is the dex flag that a forced spot lock switches on
when the engine and its key are configured.

**TradeExecution.** A trade is one or several jobs, each a series of orders
(`at[j]`). An order is sent in three nested loops: `sends` counts the ways the proxy pool
has gone through inside one attempt (`fetchWithProxy`: up to two proxies, then directly;
the external gateway of `exchangeFetch`, which has no retries around it, is one more way
before them), `tries` the failed
attempts inside `secureFetch`, `pass` the repetition with the next key, mode or host.
`fills` is what the exchange really did. The constants give every job its own numbers,
so an order that bypasses `secureFetch` (KuCoin and Binance with an environment, Bitget)
is a job without retries. `Answer`, `AnswerForeign`, `Reject`, `Resend`, `FailAttempt` and
`TimeOut` are the ways a send ends; after every one but `Answer` and
`Reject` the order may have been filled or not.
`AnswerForeign` is a JSON body that is not the exchange's: `secureFetch` returns any status
it does not retry, the pool passes on a 403 whose body is JSON (the repository's own
`proxy-gateway` answers `{error: 'Unauthorized'}`), and the spot helpers of MEXC and
Binance (`exchange.js` 425, 606) look at `code` alone. It is allowed for every order except
a perpetual's, whose helper wants `success`; `misread` remembers for which orders it was
taken. `Conclude` is `runScan` booking what `executeTrade` resolved with. The dex and 0x
branches place no order and are left out.

**VenueBreaker, ScanBody.** `ScanBody` is the body that `ExecutionLock` leaves
out: it extends the lock, and its `BodyNext` is the lock's steps, a scan's body while
`pc[s] = "hold"`, and the surroundings. `at[s]` is the part the body is in: `load`,
`trim` (the awaited put without `mexc_perp`), `fetch`, `read`, `settle`, `trade`.
`copy[s]` is the scan's object, `skip[s]` its `openCircuits`, `flight[s]` the symbols
of the batch under way, whose handlers answer in any order, `asked[s]` those of them the
venue itself has been asked for. `SaveBreaker` only fills
`outbox[s]`; `PutLands` and `PutIsLost` happen whenever they happen, after the release
or the death of the scan too. One venue is followed, `mexc`: its price settles
positions, and `mexc_perp` is counted in the same way. `getAllSpotPrices` answers from the
KV caches before it asks anybody or looks at `openCircuits` (`prices.js` 1230-1250), so
both `Answer` and `Miss` are possible without an `Ask`: a cached price counts as the
venue's, and a cached map without the venue as a failure of it. `ReadToEdit` and `PutEdited` are the operator's
routes that read and put the same object. The ledger's actions are the D1 statements
one by one; `closing[s]` is the position between its `UPDATE` and its booking. What a
scan is still holding then when it dies is lost. The variables at the end of the list
remember recorded failures (`recorded`, and `streak` those since a price last was
recorded), mishaps and cached answers for the properties. The ledger half is shown
to implement `PaperLedger`: a scan that dies loses what is in its hands, and a position
is in doubt once its `UPDATE` was rejected, or all of them once the lock has an excuse.

**GlobalBreaker.** A monitor is idle, has its checks' result (`well`, `ill`), or
holds the copy it is about to put. `Read` answers the record or, rejected, the closed
default. `PassGate` is the question `runScheduledCycle` asks once per cycle. The count
is kept up to the threshold, the only number it is compared with. Nothing in the
repository calls `/api/monitor/run`, so the liveness property assumes calls.

**GoEngine.** `x += y` is a load and a store; `lastTrade` is read by the guard and
written after the books; the reset window (`ForgetFailures`), the load and the store of
the breaker's counter and its flag are steps of their own. Executions of the scan loop follow one another, posted ones do
not. Floating-point amounts are units. The daily loss guard is left out because it
cannot fire: only estimates above the minimum profit are booked.

## 3. Runs

| Run | Instance | Shows |
|---|---|---|
| `lock_reliable` | 3 scans, lease 2 ticks, key 3 ticks, clock to 4, workers die, one reset; symmetric scans | `DoubleExecutionNeedsCause`, `NoLockLeftBehind`, `ForeignDeleteNeedsCause` on a consistent store; refinement of `SingleScan`; 1.6 million states |
| `lock_faulty` | 2 scans, stale reads, rejections, deaths, clock to 5 | `LiveLockOverwrittenOnlyUnseen`, `DoubleExecutionNeedsExcuse`, `NoLockLeftBehind`, `LapsedLockTurnsNobodyAway` on a store that misleads; `StrandedLockLapses` under fairness; 1.0 million states |
| `lock_minttl` | 2 scans, the code's 30 s / 35 s against a minimum of 60 s (ticks of 5 s) | **violation**: no lock is ever stored |
| `state_mixed` | one cycle, one telegram scan, one request that may be any command; rejections and deaths; three start records (live with drifted flags, stopped yesterday, no record) | who may undo what; newer configuration; consent |
| `state_cycles` | two overlapping cycles and an HTTP scan, rejections and deaths | no double booking; auto-stop across a daily reset |
| `state_emergency` | one cycle beside `/stop`, `/mode/paper`, `spot-lock/enable` in order, no faults | **violation** of the checklist's "Expected post-stop state" |
| `state_losscap` | two cycles, one after the other, no faults | **violation** of "auto-stops after losing specified amount" |
| `trade_fills` | a lone job with two ways, two attempts and two passes for an order; two parallel jobs with two ways or two attempts; unsure exchange, foreign answers, deaths | fills and their bound, verdicts, books, sends used up, termination; refinement of `TwoLegTrade`; 180,000 states |
| `trade_pair` | two jobs, no proxies, an exchange whose every answer arrives | **violation**: a booked pair whose sell was refused |
| `scan_body` | 2 scans on a reliable store, lease 1 tick, clock to 1, deaths; one symbol, one position; a record one failure short of opening, inside the reset window or at its edge; one rejection or operator's command; perps off, cached prices and cached maps without the venue | the properties of `ScanBody`, among them the refinement of `PaperLedger`; 1.6 million states |
| `global_breaker` | 2 monitors, 1 cycle, threshold 3, one reset, one rejection or death | who opens, closes and passes; `OutageTrips` under fairness |
| `go_engine` | two loop executions, one posted, one venue, threshold 2, clock to 4, one restart | books, spacing and breaker under data races; 1.7 million states |

Every property of a passing run was also checked against a mutant of the model: a
definition changed the way a plausible bug would change the code (named "Mutated
form of ..." in the modules), which TLC finds to violate the property.

### Bounds, and why they are enough

- *Time.* Leases, reset windows and the day are two or three ticks and the clock
  runs one to three ticks past them: every order of "before, at, after" the limit
  of two invocations occurs. `lock_minttl` keeps the code's proportions because it
  is about them.
- *Invocations.* Lock races need two scans and a third that arrives later. Lost
  updates of the record need a reader and a writer; the mixed run has three
  different kinds, the second run two cycles, since the daily reset races only
  with another cycle's. What holds for these counts is proved for any number.
- *Sends.* Two ways, two attempts and two passes distinguish the first, a repeated and
  the last turn of each loop and how the loops nest (the code has up to four ways, three
  attempts and several keys or hosts). A lone job has all three loops; of two parallel
  jobs each has one, since they share nothing but the end of the batch. The theorems hold
  for any numbers, different ones for every job.
- *Orders.* A scan places at most one order and settles at most one position. The
  loop over `max_live_trades_per_scan` repeats the same step.
- *Restart and reset* happen at most once.
- *Scan body.* Two scans suffice for every pair of get and put, and the lock between
  them is the real one, so they also overlap when a lease is overrun. One symbol makes
  a scan record one failure, and the stored record starts one failure below the threshold,
  so opening, cooling down, forgiving and forgetting all occur. `MaxUpsets` is shared by
  rejections and commands: each of them alone already separates the stored record from
  what was learnt, and the theorems hold for any number. One position is what two scans
  contend for; different positions do not meet. The run's store is reliable because the
  unreliable one is `lock_faulty`'s question; the theorems about the body hold on any
  store for the lock.
- *Global breaker.* Two monitors are the least that lose each other's counts, three
  failures are the code's threshold, and a single mishap suffices for every excuse named.
- `VIEW LiveView` in the state runs forgets locals of ended invocations, which no
  action and no property reads again. That of `scan_body` also forgets which excuse the
  lock had once it has one: it keeps it for ever and every property names them all.

### Fairness

Three properties need it. `ExecutionLock!FairSpec` assumes that time passes and
that a started scan's next await settles; nobody has to start, die or be
propagated to. `TradeExecution!FairSpec` assumes each job's next send settles:
`secureFetch` aborts after 15 seconds, a proxy's turn after 10; a direct send past the
external gateway has no timer of its own and relies on the network giving up. `GlobalBreaker!FairSpec` assumes that a monitor
that was called goes on; that monitors are called again and again is a premise of
`OutageTrips` itself, since nothing in the repository calls them. All are weak
fairness per process; a worker may still die, which ends the obligations of its scan,
trade or check.

## 4. Findings

1. `lock_minttl`: the KV reference kept in the repository gives 60 s as the least
   `expirationTtl`; the lock asks for 35 s and swallows the rejection. On a store
   that enforces the minimum there is no lock.
2. `state_emergency`: a cycle that loaded before `/stop` may put its copy back
   after all three commands were answered, by an unguarded auto-stop save or by a
   guarded save whose read came before the last command.
3. `state_losscap`: the cap is compared with a stored sum that misses results, for
   instance those of a cycle that returned on the "conservative" answer.
4. `trade_pair`: the batch turns a refused order into a result nobody looks at.

Seen while modelling and reported here only:

- The verifying get looks at the owner it finds and not at the expiry. On a store that
  answers late, a scan may so be turned away for a record whose lease lapsed long ago;
  `LapsedLockTurnsNobodyAway` is therefore about the first get only.
- A rejected read inside the guarded save is answered with the defaults, whose
  timestamp 0 looks older than any cycle: the guard then writes over newer
  configuration (the excuse in `GuardedSaveKeepsNewerConfig`).
- `enforceSpotLock` stamps the record with the cycle's own time, so the later
  guarded saves of that cycle merge into their own earlier write, and the flags
  set by `enforceCoreStrategies` are dropped.
- Two overlapping cycles that both see a new day: the later reset clears an
  auto-stop the earlier one has just set for today.
- `/config` with `spot_only_lock=false` and `strategy_flags.perps=true` in one body
  enables perpetuals although `index.js:2011` reserves that for its own route.
- `getAllSpotPrices` answers from its caches before it looks at `openCircuits`, so a
  cached price closes the circuit of a venue nobody asked: the "5 min skip when open"
  of `orchestrator.js:339` may end within seconds (the last excuse in
  `CooldownCutShortNeedsCause`).
- The same caches may hold a map without `mexc` (a feed that does not know it, or another
  scan's request that failed), and `orchestrator.js:854-860` counts each reading of it as
  a failure of a venue nobody asked: one failed request may count several times and open
  the circuit. `SkippingNeedsFailures` therefore speaks of recorded failures.
- "Consecutive failures" of `orchestrator.js:330` holds of one scan's copy. A put that
  lands late or not at all, or a scan that dies with a price in its copy, leaves the
  failures from before that price in the store, and the next ones are added to them: the
  excuses in `SkippingNeedsFailures`, each of which TLC needs.
- A JSON answer without `code` counts as an order placed, whatever its status: with the
  gateway's 403 an order nobody filled is booked, and a sell answered that way leaves a
  position open that no hedge closes and no message tells (the excuses in
  `BookedTradeWasMade` and `HedgeKeepsPromise`).
- One attempt of `secureFetch` may send a market order three times (two proxies and then
  directly), and a call by way of the external gateway four times, each time without an
  order id that would let the exchange recognise it. "2 retries" of an order can so be nine sends,
  times the passes of its helper.
- The perpetual request throws on 429 and 5xx, which ends the handler of the symbol:
  such failures are never counted for `mexc_perp`, although `prices.js:455-456` lets
  them bubble for the breaker's sake, and the symbol's other prices are dropped.
- A reset of one venue (`system-routes.js:116`) or enabling the spot lock
  (`index.js:1992`) puts back the object of all venues as it was when read, and the
  latter without an expiry.
- The global breaker fails open: a rejected get of its record is the closed default.
- The sell legs of triangular and statistical trades pass no quantity.
- `kill-switch.js:74` compares a signed drawdown with a positive limit.
- In the Go engine the breaker's `open` flag is never read, a failed sell is only
  logged, and two goroutines in the breaker's map end the process.

## 5. Proofs

TLC checks the instances above; `tlapm` proves the following for all values of the
constants that satisfy the named assumption of the module (`LockAssumption`,
`StateAssumption`, `ExecutionAssumption`, `EngineAssumption`, `BreakerAssumption`,
`BodyAssumption`, `GlobalAssumption`). The assumptions say
what the constants are (sets of invocations are disjoint, limits are naturals, the
null record is no record) and TLC evaluates them in every run.

| Module | Theorems |
|---|---|
| `ExecutionLockProofs` | for any store: `TypeCorrect`, `OverwriteOnlyUnseen`, `DoubleExecutionIsExcused`, `ForeignDeleteIsCaused`, `LockIsCleanedUp`, `LeaseBoundsRefusal`, `LockImplementsSingleScan` (refinement); under the additional `ReliableStore`: `DoubleExecutionIsCaused` |
| `TradingStateProofs` | `TypeCorrect`, `UnaskedNever`, `BookedOnce`, `OffIsUndoneByStaleCopies`, `AutoStopIsUndoneByStaleCopies`, `NewerConfigIsKept` |
| `TradeExecutionProofs` | `TypeCorrect`, `FilledTwiceOnlyUnanswered`, `BookedMeansMade`, `FillsAreBounded`, `SendsRunOut`, `HedgeImplementsTwoLegTrade` (refinement) |
| `PaperLedgerProofs` | `PromiseMeansOnce`, of the abstract ledger |
| `ScanBodyProofs` | `BodyIsLocked` (a scan with its body implements the lock), `BodyTypeCorrect`, `RowsAgreeWithBooks`, `SkippedVenuesFailed`, `SettlingTwiceIsCaused`, `ForgettingIsCaused`, `CuttingShortIsCaused`, `LedgerImplementsPaperLedger` (refinement), `ResultsAreSettledOnce`, all for any store of the lock |
| `GlobalBreakerProofs` | `TypeCorrect`, `OpenIsEarned`, `OpenIsKept`, `SuspensionHolds`, `OutageIsCounted` |
| `GoEngineProofs` | `TypeCorrect`, `BooksLoseByOverlap`, `OpenBreakerIsEarned`, `SpacingIsKept` |

The arguments:

- *Lock.* "Two scans execute" is not inductive: what excludes the second one is the
  record of the first, which it must have seen. The strengthening (`Exclusive`)
  says that without an excuse every scan past its put still owns the stored record,
  and that no scan that read before that record is about to put. An excuse is a race,
  an overrun, a reset, or a first get, put or comparing get that the store got wrong;
  a wrong verifying get turns a scan away too many and a wrong delete leaves a record
  behind, and neither breaks the exclusion. `ReliableStore` (consistent, never
  rejecting, accepting the time-to-live) keeps `misled` empty, so on it the three causes
  are the only ones; finding 1 shows that the last of its conditions is not idle.
  `NoLockLeftBehind` has its own invariant (`OwnerAtWork`), in which only what misled
  that very scan counts. `LeaseBoundsRefusal` rests on `LeasesHold`: every record in the
  store or still answered somewhere carries the lease of a scan that had put by then.
- *Lock, refinement.* A scan is inside `SingleScan` from its put to the end of its
  release, although it learns of it only from the verifying get: with `Exclusive` that
  get cannot turn it away. Until something went astray a scan turned away found the
  record of one that is inside or died there (`OwnerAtWork`).
- *Trading state.* `IInv` adds to the types: `Saving` (what a guarded save is about
  to put is the copy, or has its counters), `Consented` (every record anywhere, in
  the store, in a copy or on its way, is switched on only with consent and counts
  no more trades than there were) and `Known` (what a copy may still undo when its
  owner read the store after the change). The proof first shows that every step is
  one of four kinds (quiet, put, load, guard read) and then that each kind
  preserves `IInv`, so a new command needs one more case of the first part only.
- *Trade.* A job's stage alone says nothing about its earlier orders. The
  strengthening ties stages to orders made (`Answered`: filled, or taken to be from a
  foreign answer) and, as long as no answer was lost, to those filled at most once
  (`FilledOnce`); the refinement maps `fills` to the net position and the job's end to
  the verdict. `FillsBounded` compares the fills of the awaited order with the sends spent
  on it and says that the orders ahead have none. `Spent` numbers the sends of the three
  loops like the digits of one number, whose bases are the job's constants; every failed
  send makes it larger (`OneMoreSend`), so it stays below their product, `SendsOfOrder`.
  `SendsRunOut` is `EveryTradeEnds` without its fairness: the number `SendsLeft` falls with
  every step of a job and is left alone by the others, so no nest of proxies, retries,
  passes and hedges goes on for ever.
- *Go engine.* `Booked` bounds every value in a register, not only the fields: a
  late store of an old value must not exceed what was added since. `Spaced` does
  the same for the copies of `lastTrade`.

- *Scan body.* `BodyIsLocked` shows that every step of the body is a step or a stutter
  of `ExecutionLock`, so the lock's theorems are theorems about the body too. For the
  ledger, `Places` ties what a scan holds to where it is, and the strengthening says
  that a position found, closing or booked by one scan is not also another's; the lock
  gives the exclusion, and its excuses the exceptions. The refinement of `PaperLedger`
  adds that a scan has one position in hand at a time (`OneInHand`), so that a
  booking is one abstract step, and that what it found has a row (`FoundHasRow`), so that
  a row goes forward even when it is closed twice. `PromiseMeansOnce` says what the
  promise is worth: a position not in doubt is never settled twice;
  `ResultsAreSettledOnce` carries that over to the scans along the refinement. For the breaker, `AllBacked`
  says that no record anywhere, stored, copied, on its way or being edited, claims more
  failures than were recorded. That they came in a row is `StreakKept`: as long as nothing
  was mislaid (`Known`) the copy of the one scan that asks, or else the record the last one
  finished with, counts no more failures than came after the last price.
  The last two theorems rest on `PutsOK`: while no put
  was late and no scan overlapped (`Punctual`), a put under way is the only one and
  nobody is asking (`OnePut`), a scan about to trim holds what is stored (`Trimming`),
  so the record changes only when such a put lands, and while the stored circuit is
  open every scan skips the venue and puts back what is there (`OpenKept`).
- *Global breaker.* `OpenWasEarned` speaks of the stored record only; the proof bounds the
  count of every copy by the failures counted since the last reset. `OutageIsCounted` is
  the part of `OutageTrips` that needs no fairness, and no run states it: once a
  component is down for good and the good checks from before are over, none comes any
  more, and every put that reaches the store counts one failure more than the record it
  replaces, unless it is stale or of a rejected get. Its invariant (`FreshIsOfRecord`)
  says that the copy of a monitor about to put was made of the record that is there.

Only model-checked: liveness (`StrandedLockLapses`, `EveryTradeEnds`, `OutageTrips`),
and the violations. The prover has no support for fairness and `ENABLED`. Their parts
without fairness are proved: `LeaseBoundsRefusal`, `SendsRunOut`, `OutageIsCounted`.
Every invariant and action property of a passing run is stated by a theorem.

## 6. Not modelled

- Scan selection, strategies, risk sizing, profiler: floating-point scoring; their
  outcome is a choice.
- Feeds, dashboards, bridges, workflows: I/O and presentation. Which proxy the pool picks
  and the health it keeps of them; how often it sends is in `TradeExecution`. Quantities:
  a refused order is an outcome the model has, whatever it was refused for.
- Streak counters, reports, the auto-profiler's values, the daily volume and the
  `enforce_core_spot_strategies` flag inside the trading state; a worker without a
  KV binding.
- Venue breakers other than `mexc` and `mexc_perp`: they are only ever told of
  successes. The two-hour expiry of the object: every window of a record has passed by
  then. The amounts of paper positions.
- Late answers of KV are modelled for the lock, where they decide who runs. The gets of
  the trading state and of the two breakers' records may be rejected but answer the
  newest record; a late one would be one more stale copy, of which those models have
  many (overlapping readers and writers).
- `CircuitBreaker.recordLoss`: no caller.
- The queue consumer (`index.js` 4602-4630): nothing sends to `TRADE_QUEUE`.
- Kill switches: of `infra/kill-switch.js` only `recordError` has a caller
  (`price-feed.js:44`), and only the broadcasts of `websocket-server.js` look at the
  switch; the other two are not in the trading path.
- `AutoExecutor.executeBatch` and `BitmartEnhanced.placeMarketOrder`: called by tests or
  by nobody; `trader.js` `executeTrades`: by nobody.
- `SpotLockRecovery` is made anew for each request and deletes keys nobody else
  writes; the `HFTBackup` object is synced by no trading path; the resilience layer is
  reached from status routes only (`index.js` 4703-4725).
- Temporal workflows: the worker named in `package.json:83` is not in the repository,
  and every `/api/temporal` route returns what the rate limiter returned, which is
  always an object.
- Legacy bots (`bots/index.js` does not parse) and vendored documentation.

## 7. Plan

Written, in this order: `ExecutionLock`, `TradingState`, `TwoLegTrade` and
`TradeExecution`, `GoEngine`, `VenueBreaker` and `ScanBody`, `GlobalBreaker`, a
proof module for each component, and the abstract `PaperLedger` and `SingleScan`.

Next, the most valuable first:

1. `LockedScans`: the lock composed with the trading state, to show which of the lost
   updates of that record the lock prevents and which it cannot (the cycle loads before
   and saves after the lock).
2. Late answers to the gets of the trading state and of the breakers, with an excuse of
   their own in the properties about stale copies.
3. The dex branch of a trade, and several live trades in one scan.

The share of the repository that is modelled stays small in lines: most of them are
vendored agents, dashboards, generated typings and floating-point scoring, which hold
no protocol.
