----------------------------- MODULE TradingState -----------------------------
(***************************************************************************)
(* The trading state of the worker bot: one JSON record under the KV key   *)
(* trading_state that every part of the bot reads whole, changes in memory *)
(* and writes back whole (worker-bot/index.js and src/orchestrator.js).    *)
(*   Cron     a runScheduledCycle; it saves with saveStateWithConfigGuard: *)
(*            read again, and if last_config_change_ts has moved keep the  *)
(*            store's record and merge the runtime counters into it;       *)
(*   Chat     a telegram /scan: runScan, then an unguarded saveState;      *)
(*   Api      /scan, /api/live-deal/execute, the n8n webhook: runScan on a *)
(*            loaded copy that is never saved;                             *)
(*   Request  an operator's command.                                       *)
(* Every read and every write is an await, so they interleave freely; the  *)
(* execution lock only decides whether a scan runs (see ExecutionLock) and *)
(* is a choice here.                                                       *)
(*                                                                         *)
(* Abstractions: configuration values are the identity of the request that *)
(* wrote them; daily_pnl counts units of one trade's result; a scan        *)
(* settles at most one paper position and places at most one order; the    *)
(* daily volume is not kept, reaching its limit is a choice, and so are    *)
(* the throttle and the KV circuit breaker.                                *)
(***************************************************************************)
EXTENDS Integers

CONSTANTS
    Cron, Chat, Api, Request,
    KindsOf,           \* KindsOf[r]: the commands request r may be
    After,             \* After[p]: the invocations that end before p begins
    NoState,           \* what a get answers when the key is not there
    NoConfig,          \* the configuration of DEFAULT_STATE
    StartRecords,      \* what the store may hold at the start
    ForceSpotLock,     \* env.SPOT_ONLY_LOCK_FORCE
    Results,           \* what a settlement or an order may really bring
    Cap,               \* max_daily_loss_usd, in units of one trade's result
    DayLength,         \* 24 hours, in ticks
    MaxTime,           \* bound: the clock stops here
    Faults,            \* may a KV operation reject?
    Crashes            \* may an invocation die or throw at an await?

Scanner == Cron \union Chat \union Api
Proc    == Scanner \union Request

Commands == {"start", "stop", "mode/paper", "mode/live", "tg/live", "tg/paper",
             "config", "spot-lock/enable", "spot-lock/disable",
             "perps/enable", "perps/disable", "reset"}

\* The fields the properties tell apart.  core stands for the seven core
\* strategy flags being all on, perps for the flags perps and funding.
State == [enabled : BOOLEAN, paper : BOOLEAN, stopped : BOOLEAN,
          locked : BOOLEAN, perps : BOOLEAN, core : BOOLEAN,
          cfg : Request \union {NoConfig}, cfgTs : Nat,
          pnl : Int, trades : Nat, dayStart : Nat]

ASSUME StateAssumption ==
    /\ NoState \notin State
    /\ NoConfig \notin Request
    /\ Cron \intersect (Chat \union Api \union Request) = {}
    /\ Chat \intersect (Api \union Request) = {}
    /\ Api \intersect Request = {}
    /\ KindsOf \in [Request -> SUBSET Commands]
    /\ After \in [Proc -> SUBSET Proc]
    /\ StartRecords \subseteq State \union {NoState}
    /\ Results \subseteq Int
    /\ Cap \in Nat \ {0}
    /\ {DayLength, MaxTime} \subseteq Nat
    /\ {ForceSpotLock, Faults, Crashes} \subseteq BOOLEAN

VARIABLES
    now,      \* Date.now(), in ticks, long after the epoch
    kv,       \* the record under trading_state, or NoState
    pc,       \* the await each invocation is at
    st,       \* the copy each invocation works on
    base,     \* cycleStartConfigTs of a cron cycle
    stamp,    \* the cycle's own "now"
    saving,   \* where it is in saveStateWithConfigGuard
    outgoing, \* the record the guarded save is about to put
    \* history, read by no action's guard:
    knows,    \* knows[topic]: who read the store since the topic last changed
    settled,  \* what settlements and orders really made or lost today
    orders,   \* how many settlements and orders there were
    asked     \* what the operator ever asked for: "start", "live"

history == <<knows, settled, orders, asked>>
guarded == <<base, stamp, saving, outgoing>>
vars == <<now, kv, pc, st, guarded, history>>

Stages == {"idle", "spot", "core", "checks", "scan", "rank", "ai", "chat",
           "reply", "end"}

\* Read when an invocation begins: trading_enabled off, auto_stopped on.  Read
\* by the guarded save: trading_enabled off, the configuration.
LoadTopics  == {"off", "stopped"}
GuardTopics == {"off at save", "config"}
Topics      == LoadTopics \union GuardTopics

TypeOK ==
    /\ now \in Nat
    /\ kv \in State \union {NoState}
    /\ pc \in [Proc -> Stages]
    /\ st \in [Proc -> State]
    /\ base \in [Cron -> Nat]
    /\ stamp \in [Cron -> Nat]
    /\ saving \in [Scanner -> {"no", "read", "write", "merge"}]
    /\ outgoing \in [Cron -> State]
    /\ knows \in [Topics -> SUBSET Proc]
    /\ settled \in Int
    /\ orders \in Nat
    /\ asked \subseteq {"start", "live"}

-----------------------------------------------------------------------------
(* Reading and writing the record. *)

\* Mutated form of Default: the two switches the other way round.
DefaultLive ==
    [enabled |-> TRUE, paper |-> FALSE, stopped |-> FALSE,
     locked |-> FALSE, perps |-> TRUE, core |-> TRUE, cfg |-> NoConfig,
     cfgTs |-> 0, pnl |-> 0, trades |-> 0, dayStart |-> 0]

Default == [enabled |-> FALSE, paper |-> TRUE, stopped |-> FALSE,
            locked |-> FALSE, perps |-> TRUE, core |-> TRUE,
            cfg |-> NoConfig, cfgTs |-> 0,
            pnl |-> 0, trades |-> 0, dayStart |-> 0]

\* getState: a missing record is read as the defaults.
View(record) == IF record = NoState THEN Default ELSE record
Stored == View(kv)

\* getState catches a rejected get and answers with the defaults too.
Loads == {Stored} \union (IF Faults THEN {Default} ELSE {})

\* p was answered record: p knows these topics now if that is the store's.
Learn(p, topics, record) ==
    knows' = [t \in Topics |-> IF t \notin topics THEN knows[t]
                               ELSE IF record = Stored THEN knows[t] \union {p}
                                                       ELSE knows[t] \ {p}]

\* The store's record becomes record; whoever read it before does not know.
Put(record) ==
    /\ kv' = record
    /\ LET new == View(record)
           set == {t \in Topics :
                     \/ t \in {"off", "off at save"} /\ Stored.enabled /\ ~new.enabled
                     \/ /\ t = "stopped" /\ new.stopped
                        /\ ~Stored.stopped \/ Stored.dayStart # new.dayStart
                     \/ t = "config" /\ <<Stored.cfg, Stored.cfgTs>> # <<new.cfg, new.cfgTs>>}
       IN  knows' = [t \in Topics |-> IF t \in set THEN {} ELSE knows[t]]

GoTo(p, stage) == pc' = [pc EXCEPT ![p] = stage]

\* A scanner is at stage, not inside the guarded save.
At(c, stage) == pc[c] = stage /\ saving[c] = "no"

-----------------------------------------------------------------------------
\* Every invocation that must end before p begins has ended.
MayBegin(p) == pc[p] = "idle" /\ \A q \in After[p] : pc[q] = "end"

Init ==
    /\ now = DayLength + 1
    /\ kv \in StartRecords
    /\ pc = [p \in Proc |-> "idle"]
    /\ st = [p \in Proc |-> Default]
    /\ base = [c \in Cron |-> 0]
    /\ stamp = [c \in Cron |-> 0]
    /\ saving = [c \in Scanner |-> "no"]
    /\ outgoing = [c \in Cron |-> Default]
    /\ knows = [t \in Topics |-> {}]
    /\ settled = Stored.pnl
    /\ orders = Stored.trades
    /\ asked = (IF Stored.enabled THEN {"start"} ELSE {})
                 \union (IF Stored.paper THEN {} ELSE {"live"})

Tick ==
    /\ now < MaxTime
    /\ now' = now + 1
    /\ UNCHANGED <<kv, pc, st, guarded, history>>

\* The first getState of a cron cycle, which also fixes the baseline of its
\* guarded saves and its "now".
LoadCycle(c) ==
    /\ MayBegin(c)
    /\ \E record \in Loads :
         /\ st' = [st EXCEPT ![c] = record]
         /\ base' = [base EXCEPT ![c] = record.cfgTs]
         /\ Learn(c, LoadTopics, record)
    /\ stamp' = [stamp EXCEPT ![c] = now]
    /\ GoTo(c, "spot")
    /\ UNCHANGED <<now, kv, saving, outgoing, settled, orders, asked>>

\* The getState of a telegram message, an HTTP scan or an operator's command.
Load(p) ==
    /\ MayBegin(p)
    /\ \E record \in Loads :
         /\ st' = [st EXCEPT ![p] = record]
         /\ Learn(p, LoadTopics, record)
    /\ GoTo(p, IF p \in Request THEN "reply" ELSE "scan")
    /\ UNCHANGED <<now, kv, guarded, settled, orders, asked>>

-----------------------------------------------------------------------------
(* saveStateWithConfigGuard *)

\* Mutated forms of Merge: the cycle's own switch; the cycle's whole copy.
MergeSwitchToo(latest, mine) ==
    [latest EXCEPT !.enabled = mine.enabled, !.pnl = mine.pnl,
                   !.trades = mine.trades, !.dayStart = mine.dayStart,
                   !.stopped = mine.stopped]
MergeNothing(latest, mine) == mine

\* The store's record with this cycle's runtime counters.
Merge(latest, mine) ==
    [latest EXCEPT !.pnl = mine.pnl, !.trades = mine.trades,
                   !.dayStart = mine.dayStart, !.stopped = mine.stopped]

GuardRead(c) ==
    /\ saving[c] = "read"
    /\ \E latest \in Loads :
         /\ Learn(c, GuardTopics, latest)
         /\ \/ /\ latest.cfgTs <= base[c]
               /\ outgoing' = [outgoing EXCEPT ![c] = st[c]]
               /\ saving' = [saving EXCEPT ![c] = "write"]
            \/ /\ latest.cfgTs > base[c]
               /\ outgoing' = [outgoing EXCEPT ![c] = Merge(latest, st[c])]
               /\ saving' = [saving EXCEPT ![c] = "merge"]
    /\ UNCHANGED <<now, kv, pc, st, base, stamp, settled, orders, asked>>

\* A rejected put is not caught: the cycle ends there.
GuardWrite(c) ==
    /\ saving[c] \in {"write", "merge"}
    /\ \/ Put(outgoing[c]) /\ UNCHANGED pc
       \/ Faults /\ GoTo(c, "end") /\ UNCHANGED <<kv, knows>>
    /\ saving' = [saving EXCEPT ![c] = "no"]
    /\ outgoing' = [outgoing EXCEPT ![c] = Default]
    /\ UNCHANGED <<now, st, base, stamp, settled, orders, asked>>

\* The copy becomes record and goes through the guarded save, then to stage.
SaveGuarded(c, record, stage) ==
    /\ st' = [st EXCEPT ![c] = record]
    /\ saving' = [saving EXCEPT ![c] = "read"]
    /\ GoTo(c, stage)

-----------------------------------------------------------------------------
(* runScheduledCycle up to the scan *)

\* The spot-only lock, stored or forced, switches perps and funding off; forced,
\* it may switch the DEX strategy on, one of the core, where the engine and its
\* key are configured.
EnforceSpotLock(c) ==
    /\ At(c, "spot")
    /\ LET lock == ForceSpotLock \/ st[c].locked
       IN  \/ /\ lock /\ (st[c].perps \/ (ForceSpotLock /\ ~st[c].core))
              /\ \E core \in {st[c].core, st[c].core \/ ForceSpotLock} :
                   SaveGuarded(c, [st[c] EXCEPT !.locked = TRUE, !.perps = FALSE,
                                                !.core = core, !.cfgTs = stamp[c]], "core")
           \/ /\ ~(lock /\ st[c].perps)
              /\ st' = [st EXCEPT ![c].locked = lock]
              /\ GoTo(c, "core")
              /\ UNCHANGED saving
    /\ UNCHANGED <<now, kv, base, stamp, outgoing, history>>

\* In live mode the core strategies are switched back on.
EnforceCoreStrategies(c) ==
    /\ At(c, "core")
    /\ \/ /\ ~st[c].paper /\ ~st[c].core
          /\ SaveGuarded(c, [st[c] EXCEPT !.core = TRUE, !.cfgTs = stamp[c]], "checks")
       \/ /\ st[c].paper \/ st[c].core
          /\ GoTo(c, "checks")
          /\ UNCHANGED <<st, saving>>
    /\ UNCHANGED <<now, kv, base, stamp, outgoing, history>>

NewDay(c) == stamp[c] - st[c].dayStart > DayLength

\* Mutated forms of AfterDailyReset: last_daily_reset not set; set back a day.
AfterResetUndated(c) ==
    IF NewDay(c) THEN [st[c] EXCEPT !.pnl = 0, !.stopped = FALSE] ELSE st[c]
AfterResetBackdated(c) ==
    IF NewDay(c)
    THEN [st[c] EXCEPT !.pnl = 0, !.dayStart = @ - DayLength, !.stopped = FALSE]
    ELSE st[c]

\* handleDailyReset changes the copy only.
AfterDailyReset(c) ==
    IF NewDay(c)
    THEN [st[c] EXCEPT !.pnl = 0, !.dayStart = stamp[c], !.stopped = FALSE]
    ELSE st[c]

\* Trading is off, or the auto-stop holds, or the circuit breaker is open, or
\* the last trade is too recent: return, and nothing is saved.
ReturnEarly(c) ==
    /\ At(c, "checks")
    /\ GoTo(c, "end")
    /\ UNCHANGED <<now, kv, st, guarded, history>>

\* The daily loss limit.
StopOnDailyLoss(c) ==
    /\ At(c, "checks")
    /\ LET record == AfterDailyReset(c)
       IN  /\ record.enabled /\ ~record.stopped
           /\ record.pnl <= -Cap
           /\ SaveGuarded(c, [record EXCEPT !.stopped = TRUE], "end")
    /\ UNCHANGED <<now, kv, base, stamp, outgoing, history>>

PassChecks(c) ==
    /\ At(c, "checks")
    /\ LET record == AfterDailyReset(c)
       IN  /\ record.enabled /\ ~record.stopped
           /\ record.pnl > -Cap
           /\ st' = [st EXCEPT ![c] = record]
    /\ settled' = IF NewDay(c) THEN 0 ELSE settled
    /\ GoTo(c, "scan")
    /\ UNCHANGED <<now, kv, guarded, knows, orders, asked>>

-----------------------------------------------------------------------------
(* runScan, as far as the trading state is concerned *)

AfterScan(p) ==
    CASE p \in Cron -> "ai" [] p \in Chat -> "chat" [] p \in Api -> "end"

\* Mutated form of Book: the trade counted when made and again when logged.
BookTwice(p, d, real) ==
    /\ st' = [st EXCEPT ![p].pnl = @ + d, ![p].trades = @ + 2]
    /\ settled' = settled + real
    /\ orders' = orders + 1

\* A result of d in the copy's books, of real in the world.
Book(p, d, real) ==
    /\ st' = [st EXCEPT ![p].pnl = @ + d, ![p].trades = @ + 1]
    /\ settled' = settled + real
    /\ orders' = orders + 1

\* The lock is taken elsewhere (return null), or an open paper position may be
\* settled at the current price and there may be an opportunity to rank.
Scan(p) ==
    /\ At(p, "scan")
    /\ \E stage \in {"rank", AfterScan(p)} : GoTo(p, stage)
    /\ \/ \E d \in Results : Book(p, d, d)
       \/ UNCHANGED <<st, settled, orders>>
    /\ UNCHANGED <<now, kv, guarded, knows, asked>>

\* The drawdown guard, or the daily volume limit: the whole copy is put without
\* the guard.  The orchestrator's own saveState swallows a rejection.
ScanAutoStops(p) ==
    /\ At(p, "rank")
    /\ LET record == [st[p] EXCEPT !.stopped = TRUE]
       IN  /\ st' = [st EXCEPT ![p] = record]
           /\ Put(record) \/ (Faults /\ UNCHANGED <<kv, knows>>)
    /\ GoTo(p, AfterScan(p))
    /\ UNCHANGED <<now, guarded, settled, orders, asked>>

\* A paper trade opens a position and books no result yet.
TradePaper(p) ==
    /\ At(p, "rank")
    /\ st[p].pnl > -Cap /\ st[p].paper
    /\ GoTo(p, AfterScan(p))
    /\ UNCHANGED <<now, kv, st, guarded, history>>

\* A live order that resolves is booked at its estimate, a gain; one that
\* throws is not booked, whatever it cost.
TradeLive(p) ==
    /\ At(p, "rank")
    /\ st[p].pnl > -Cap /\ ~st[p].paper
    /\ \/ \E real \in Results : Book(p, 1, real)
       \/ \E real \in {d \in Results : d < 0} \union {0} :
            /\ settled' = settled + real
            /\ orders' = orders + 1
            /\ UNCHANGED st
    /\ GoTo(p, AfterScan(p))
    /\ UNCHANGED <<now, kv, guarded, knows, asked>>

-----------------------------------------------------------------------------
(* after the scan *)

\* The AI layer answers "conservative": the cycle returns before its save.
AiHoldsBack(c) ==
    /\ At(c, "ai")
    /\ GoTo(c, "end")
    /\ UNCHANGED <<now, kv, st, guarded, history>>

FinishCycle(c) ==
    /\ At(c, "ai")
    /\ SaveGuarded(c, st[c], "end")
    /\ UNCHANGED <<now, kv, base, stamp, outgoing, history>>

\* handleTelegramScan saves its whole copy.
SaveChat(p) ==
    /\ pc[p] = "chat"
    /\ Put(st[p]) \/ (Faults /\ UNCHANGED <<kv, knows>>)
    /\ GoTo(p, "end")
    /\ UNCHANGED <<now, st, guarded, settled, orders, asked>>

-----------------------------------------------------------------------------
(* The operator's commands; one that is refused before it saves (rate limit,
   authorization, risk lock, forced spot lock) is one that was not issued. *)

\* Request r, issued as kind, puts record and consents to consent.
Reply(r, kind, record, consent) ==
    /\ pc[r] = "reply" /\ kind \in KindsOf[r]
    /\ Put(record)
    /\ asked' = asked \union consent
    /\ GoTo(r, "end")
    /\ UNCHANGED <<now, st, guarded, settled, orders>>

StartTrading(r) ==
    Reply(r, "start", [st[r] EXCEPT !.enabled = TRUE, !.stopped = FALSE], {"start"})

StopTrading(r) == Reply(r, "stop", [st[r] EXCEPT !.enabled = FALSE], {})

ModePaper(r) ==
    Reply(r, "mode/paper", [st[r] EXCEPT !.paper = TRUE, !.stopped = FALSE], {})

ModeLive(r) == Reply(r, "mode/live", [st[r] EXCEPT !.paper = FALSE], {"live"})

\* The telegram commands /mode live, which also starts trading, and /mode paper.
ChatLive(r) ==
    Reply(r, "tg/live",
          [st[r] EXCEPT !.paper = FALSE, !.enabled = TRUE, !.stopped = FALSE],
          {"start", "live"})

ChatPaper(r) == Reply(r, "tg/paper", [st[r] EXCEPT !.paper = TRUE], {})

Configured(r) == [st[r] EXCEPT !.cfg = r, !.cfgTs = now]

Configure(r) ==
    \E core, perps, lock \in BOOLEAN :
        /\ ForceSpotLock => lock
        /\ Reply(r, "config",
                 [Configured(r) EXCEPT !.core = core, !.locked = lock,
                                       !.perps = perps /\ ~lock], {})

EnableSpotLock(r) ==
    Reply(r, "spot-lock/enable",
          [Configured(r) EXCEPT !.locked = TRUE, !.perps = FALSE], {})

DisableSpotLock(r) ==
    /\ ~ForceSpotLock
    /\ Reply(r, "spot-lock/disable", [Configured(r) EXCEPT !.locked = FALSE], {})

EnablePerps(r) ==
    /\ ~ForceSpotLock
    /\ Reply(r, "perps/enable",
             [Configured(r) EXCEPT !.locked = FALSE, !.perps = TRUE], {})

DisablePerps(r) ==
    Reply(r, "perps/disable", [Configured(r) EXCEPT !.perps = FALSE], {})

\* Every key is deleted, whatever the record was.
Reset(r) == Reply(r, "reset", NoState, {})

\* The put rejects and the handler throws.
FailReply(r) ==
    /\ Faults /\ pc[r] = "reply"
    /\ GoTo(r, "end")
    /\ UNCHANGED <<now, kv, st, guarded, history>>

\* The invocation throws or the platform ends it.
Die(p) ==
    /\ Crashes
    /\ pc[p] \notin {"idle", "end"}
    /\ GoTo(p, "end")
    /\ saving' = [c \in Scanner |-> IF c = p THEN "no" ELSE saving[c]]
    /\ UNCHANGED <<now, kv, st, base, stamp, outgoing, history>>

-----------------------------------------------------------------------------
CycleStep(c) ==
    \/ LoadCycle(c)
    \/ EnforceSpotLock(c)
    \/ EnforceCoreStrategies(c)
    \/ ReturnEarly(c)
    \/ StopOnDailyLoss(c)
    \/ PassChecks(c)
    \/ GuardRead(c)
    \/ GuardWrite(c)
    \/ AiHoldsBack(c)
    \/ FinishCycle(c)

Command(r) ==
    \/ StartTrading(r)
    \/ StopTrading(r)
    \/ ModePaper(r)
    \/ ModeLive(r)
    \/ ChatLive(r)
    \/ ChatPaper(r)
    \/ Configure(r)
    \/ EnableSpotLock(r)
    \/ DisableSpotLock(r)
    \/ EnablePerps(r)
    \/ DisablePerps(r)
    \/ Reset(r)

ScanStep(p) ==
    \/ Scan(p)
    \/ ScanAutoStops(p)
    \/ TradePaper(p)
    \/ TradeLive(p)

Finished ==
    /\ now = MaxTime
    /\ \A p \in Proc : pc[p] = "end" /\ (p \in Scanner => saving[p] = "no")
    /\ UNCHANGED vars

Next ==
    \/ \E c \in Cron : CycleStep(c)
    \/ \E p \in Scanner : ScanStep(p)
    \/ \E p \in Chat \union Api \union Request : Load(p)
    \/ \E p \in Chat : SaveChat(p)
    \/ \E r \in Request : Command(r) \/ FailReply(r)
    \/ \E p \in Proc : Die(p)
    \/ Tick
    \/ Finished

Spec == Init /\ [][Next]_vars

-----------------------------------------------------------------------------
(* What the shared record keeps, and what it does not. *)

\* No scan trades live, and no cron cycle scans, unless the operator once asked
\* for it: a lost record, a failed read (both answered with the defaults), a
\* merge or a lost update never switches trading or live mode on by itself.
NothingUnasked ==
    /\ \A p \in Scanner : pc[p] = "rank" /\ ~st[p].paper => "live" \in asked
    /\ \A c \in Cron : pc[c] \in {"scan", "rank"} => "start" \in asked

\* A trade is booked by the one invocation that made it: saves, merges and
\* re-reads may lose trades from the record, and never count one twice.
NoTradeBookedTwice ==
    /\ Stored.trades <= orders
    /\ \A p \in Scanner : st[p].trades <= orders

\* What p is about to put was read before trading was last switched off.
ReadBeforeOff(p) ==
    IF p \in Cron /\ saving[p] = "merge" THEN p \notin knows["off at save"]
                                         ELSE p \notin knows["off"]

Puts(p) ==
    \/ p \in Cron /\ GuardWrite(p)
    \/ p \in Scanner /\ ScanAutoStops(p)
    \/ p \in Chat /\ SaveChat(p)
    \/ p \in Request /\ Command(p)

\* Trading that was switched off comes back only through the operator's start,
\* or through a writer whose record was read before it was switched off.
OffUndoneOnlyByStaleCopy ==
    [][~Stored.enabled /\ Stored'.enabled =>
         \/ \E r \in Request : StartTrading(r) \/ ChatLive(r)
         \/ \E p \in Proc : Puts(p) /\ ReadBeforeOff(p)]_vars

\* An auto-stop, today's as well as yesterday's, is cleared only by a command
\* that clears it, by the first save of a new day, or by a writer that began
\* before the stop.
AutoStopUndoneOnlyByStaleCopy ==
    [][Stored.stopped /\ ~Stored'.stopped =>
         \/ \E r \in Request : StartTrading(r) \/ ModePaper(r) \/ ChatLive(r) \/ Reset(r)
         \/ Stored'.dayStart > Stored.dayStart
         \/ \E p \in Proc : Puts(p) /\ p \notin knows["stopped"]]_vars

\* "Preserve newer operator config": a guarded save replaces a configuration
\* newer than the cycle only when that was put after the guard's read, or the
\* read was rejected (answered with the defaults, whose timestamp is 0).
GuardedSaveKeepsNewerConfig ==
    [][\A c \in Cron :
         GuardWrite(c) /\ Stored.cfgTs > base[c] /\ Stored'.cfg # Stored.cfg
           => c \notin knows["config"]]_vars

-----------------------------------------------------------------------------
(* What the documents say of it. *)

\* The emergency sequence /stop, /mode/paper, spot-lock/enable, once answered,
\* leaves the "Expected post-stop state" of 24h-live-operations-checklist.md.
EmergencyStopHolds ==
    (\A r \in Request : pc[r] = "end") =>
        ~Stored.enabled /\ Stored.paper /\ Stored.locked /\ ~Stored.perps

\* "Daily Loss Cap - Auto-stops after losing specified amount": nothing is
\* traded once the day's settled result has reached the cap.
DailyLossCapStops ==
    [][\A p \in Scanner : TradePaper(p) \/ TradeLive(p) => settled > -Cap]_vars
=============================================================================
