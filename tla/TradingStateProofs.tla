-------------------------- MODULE TradingStateProofs --------------------------
(***************************************************************************)
(* Proofs about TradingState, for any invocations, start records, limits   *)
(* and commands.                                                           *)
(*                                                                         *)
(* TypeOK is inductive by itself.  The other parts of the strengthening    *)
(* say what the copies in memory have to do with the store's record:       *)
(*   Saving      what a guarded save is about to put;                      *)
(*   Consented   every record, stored, copied or outgoing, is enabled or   *)
(*               live only with consent, and counts no trade twice;        *)
(*   Known       what a copy may still undo when its owner has read the    *)
(*               store since trading was switched off, since it was        *)
(*               auto-stopped, or since it was configured.                 *)
(***************************************************************************)
EXTENDS TradingState, TLAPS

\* The memberships every proof needs.
LEMMA Members ==
    /\ Cron \subseteq Scanner /\ Chat \subseteq Scanner /\ Api \subseteq Scanner
    /\ Scanner \subseteq Proc /\ Request \subseteq Proc
  BY StateAssumption DEF Scanner, Proc

\* An invocation is of one kind.
LEMMA CronApart == \A c \in Cron : c \notin Chat /\ c \notin Api /\ c \notin Request
  BY StateAssumption

-----------------------------------------------------------------------------
(* Records *)

\* The defaults are a record.
LEMMA DefaultIsState == Default \in State
  BY DEF Default, State

\* What the store holds is read as a record, itself if it is one.
LEMMA ViewIsState ==
    ASSUME NEW record \in State \union {NoState}
    PROVE  /\ View(record) \in State
           /\ record \in State => View(record) = record
           /\ record = NoState => View(record) = Default
  BY StateAssumption, DefaultIsState DEF View

\* A record with a result booked is a record.
LEMMA BookedIsState ==
    ASSUME NEW s \in State, NEW d \in Int
    PROVE  [s EXCEPT !.pnl = @ + d, !.trades = @ + 1] \in State
<1>1. s.pnl + d \in Int /\ s.trades + 1 \in Nat
  BY DEF State
<1>2. \A i \in Int, n \in Nat : [s EXCEPT !.pnl = i, !.trades = n] \in State
  BY DEF State
<1> QED  BY <1>1, <1>2

\* Every answer of getState is a record.
LEMMA LoadsAreStates ==
    ASSUME kv \in State \union {NoState}
    PROVE  Stored \in State /\ Loads \subseteq State
  BY DefaultIsState, ViewIsState DEF Stored, Loads

\* What a command puts, and what it needs for it.
LEMMA CommandFacts ==
    ASSUME TypeOK, NEW r \in Request, Command(r)
    PROVE  \E record \in State \union {NoState} :
             /\ pc[r] = "reply"
             /\ Put(record)
             /\ GoTo(r, "end")
             /\ UNCHANGED <<now, st, guarded, settled, orders>>
             /\ asked \subseteq asked' /\ asked' \subseteq asked \union {"start", "live"}
             /\ \/ record = NoState /\ Reset(r)
                \/ /\ record \in State /\ record.trades = st[r].trades
                   /\ record.dayStart = st[r].dayStart
                   /\ \/ record.enabled = st[r].enabled
                      \/ ~record.enabled
                      \/ "start" \in asked' /\ (StartTrading(r) \/ ChatLive(r))
                   /\ record.paper = st[r].paper \/ record.paper \/ "live" \in asked'
                   /\ \/ record.stopped = st[r].stopped
                      \/ StartTrading(r) \/ ModePaper(r) \/ ChatLive(r)
<1>1. st[r] \in State /\ now \in Nat
  BY Members DEF TypeOK
<1>2. Configured(r) \in State
  BY <1>1 DEF Configured, State
<1>3. /\ Configured(r).trades = st[r].trades /\ Configured(r).dayStart = st[r].dayStart
      /\ Configured(r).enabled = st[r].enabled /\ Configured(r).paper = st[r].paper
      /\ Configured(r).stopped = st[r].stopped
  BY <1>1 DEF Configured, State
<1>4. CASE StartTrading(r)
  <2> WITNESS [st[r] EXCEPT !.enabled = TRUE, !.stopped = FALSE] \in State \union {NoState}
  <2> QED  BY <1>1, <1>4 DEF StartTrading, Reply, State
<1>5. CASE StopTrading(r)
  <2> WITNESS [st[r] EXCEPT !.enabled = FALSE] \in State \union {NoState}
  <2> QED  BY <1>1, <1>5 DEF StopTrading, Reply, State
<1>6. CASE ModePaper(r)
  <2> WITNESS [st[r] EXCEPT !.paper = TRUE, !.stopped = FALSE] \in State \union {NoState}
  <2> QED  BY <1>1, <1>6 DEF ModePaper, Reply, State
<1>7. CASE ModeLive(r)
  <2> WITNESS [st[r] EXCEPT !.paper = FALSE] \in State \union {NoState}
  <2> QED  BY <1>1, <1>7 DEF ModeLive, Reply, State
<1>8. CASE ChatLive(r)
  <2> WITNESS [st[r] EXCEPT !.paper = FALSE, !.enabled = TRUE, !.stopped = FALSE] \in State \union {NoState}
  <2> QED  BY <1>1, <1>8 DEF ChatLive, Reply, State
<1>9. CASE ChatPaper(r)
  <2> WITNESS [st[r] EXCEPT !.paper = TRUE] \in State \union {NoState}
  <2> QED  BY <1>1, <1>9 DEF ChatPaper, Reply, State
<1>10. CASE Configure(r)
  <2>1. PICK core \in BOOLEAN, perps \in BOOLEAN, lock \in BOOLEAN :
          Reply(r, "config", [Configured(r) EXCEPT !.core = core, !.locked = lock,
                                                   !.perps = perps /\ ~lock], {})
    BY <1>10 DEF Configure
  <2>2. \A flag \in BOOLEAN : 
          LET record == [Configured(r) EXCEPT !.core = core, !.locked = lock, !.perps = flag]
          IN  /\ record \in State /\ record.trades = st[r].trades
              /\ record.dayStart = st[r].dayStart
              /\ record.enabled = st[r].enabled /\ record.paper = st[r].paper
              /\ record.stopped = st[r].stopped
    BY <1>2, <1>3 DEF State
  <2>3. (perps /\ ~lock) \in BOOLEAN
    OBVIOUS
  <2> WITNESS [Configured(r) EXCEPT !.core = core, !.locked = lock,
                                    !.perps = perps /\ ~lock] \in State \union {NoState}
  <2> QED  BY <2>1, <2>2, <2>3 DEF Reply
<1>11. CASE EnableSpotLock(r)
  <2> WITNESS [Configured(r) EXCEPT !.locked = TRUE, !.perps = FALSE] \in State \union {NoState}
  <2> QED  BY <1>2, <1>3, <1>11 DEF EnableSpotLock, Reply, State
<1>12. CASE DisableSpotLock(r)
  <2> WITNESS [Configured(r) EXCEPT !.locked = FALSE] \in State \union {NoState}
  <2> QED  BY <1>2, <1>3, <1>12 DEF DisableSpotLock, Reply, State
<1>13. CASE EnablePerps(r)
  <2> WITNESS [Configured(r) EXCEPT !.locked = FALSE, !.perps = TRUE] \in State \union {NoState}
  <2> QED  BY <1>2, <1>3, <1>13 DEF EnablePerps, Reply, State
<1>14. CASE DisablePerps(r)
  <2> WITNESS [Configured(r) EXCEPT !.perps = FALSE] \in State \union {NoState}
  <2> QED  BY <1>2, <1>3, <1>14 DEF DisablePerps, Reply, State
<1>15. CASE Reset(r)
  <2> WITNESS NoState \in State \union {NoState}
  <2> QED  BY <1>15 DEF Reset, Reply
<1> QED  BY <1>4, <1>5, <1>6, <1>7, <1>8, <1>9, <1>10, <1>11, <1>12, <1>13, <1>14, <1>15 DEF Command

-----------------------------------------------------------------------------
(* Reading and writing *)

\* What a read teaches p, and nobody else.
LEMMA LearnFacts ==
    ASSUME knows \in [Topics -> SUBSET Proc], NEW p \in Proc, NEW topics,
           NEW record, Learn(p, topics, record)
    PROVE  /\ knows' \in [Topics -> SUBSET Proc]
           /\ \A t \in Topics, q \in Proc :
                q \in knows'[t] => \/ q \in knows[t] /\ (q # p \/ t \notin topics)
                                   \/ q = p /\ t \in topics /\ record = Stored
  BY DEF Learn

\* What a write makes everybody forget.
LEMMA PutFacts ==
    ASSUME knows \in [Topics -> SUBSET Proc], NEW record, Put(record)
    PROVE  /\ knows' \in [Topics -> SUBSET Proc]
           /\ kv' = record
           /\ Stored' = View(record)
           /\ \A t \in Topics : knows'[t] \subseteq knows[t]
           /\ Stored.enabled /\ ~View(record).enabled =>
                knows'["off"] = {} /\ knows'["off at save"] = {}
           /\ View(record).stopped /\ (~Stored.stopped \/ Stored.dayStart # View(record).dayStart)
                => knows'["stopped"] = {}
           /\ Stored.cfg # View(record).cfg \/ Stored.cfgTs # View(record).cfgTs
                => knows'["config"] = {}
<1> DEFINE new == View(record)
           set == {t \in Topics :
                     \/ t \in {"off", "off at save"} /\ Stored.enabled /\ ~new.enabled
                     \/ /\ t = "stopped" /\ new.stopped
                        /\ ~Stored.stopped \/ Stored.dayStart # new.dayStart
                     \/ t = "config" /\ <<Stored.cfg, Stored.cfgTs>> # <<new.cfg, new.cfgTs>>}
<1>1. kv' = record /\ knows' = [t \in Topics |-> IF t \in set THEN {} ELSE knows[t]]
  BY DEF Put
<1>2. Stored' = new
  BY <1>1 DEF Stored, View, Default
<1>3. {"off", "off at save", "stopped", "config"} \subseteq Topics
  BY DEF Topics, LoadTopics, GuardTopics
<1> HIDE DEF new
<1>4. /\ knows' \in [Topics -> SUBSET Proc]
      /\ \A t \in Topics : knows'[t] \subseteq knows[t]
  BY <1>1
<1>5. Stored.enabled /\ ~new.enabled => knows'["off"] = {} /\ knows'["off at save"] = {}
  BY <1>1, <1>3
<1>6. new.stopped /\ (~Stored.stopped \/ Stored.dayStart # new.dayStart) => knows'["stopped"] = {}
  BY <1>1, <1>3
<1>7. Stored.cfg # new.cfg \/ Stored.cfgTs # new.cfgTs => knows'["config"] = {}
  BY <1>1, <1>3
<1> QED  BY <1>1, <1>2, <1>4, <1>5, <1>6, <1>7 DEF new

\* A record put keeps the store and the history typed.
LEMMA PutIsTyped ==
    ASSUME knows \in [Topics -> SUBSET Proc], NEW record \in State \union {NoState}, Put(record)
    PROVE  kv' \in State \union {NoState} /\ knows' \in [Topics -> SUBSET Proc]
  BY PutFacts

-----------------------------------------------------------------------------
(* Type correctness *)

\* The reset of the day keeps a record a record, of the same day or a later one.
LEMMA ResetFacts ==
    ASSUME TypeOK, NEW c \in Cron
    PROVE  /\ AfterDailyReset(c) \in State
           /\ AfterDailyReset(c).enabled = st[c].enabled
           /\ AfterDailyReset(c).paper = st[c].paper
           /\ AfterDailyReset(c).trades = st[c].trades
           /\ \/ AfterDailyReset(c) = st[c]
              \/ AfterDailyReset(c).dayStart > st[c].dayStart
<1>1. st[c] \in State /\ stamp[c] \in Nat /\ DayLength \in Nat
  BY StateAssumption, Members DEF TypeOK
<1>2. CASE NewDay(c)
  <2>1. stamp[c] > st[c].dayStart
    BY <1>1, <1>2 DEF NewDay, State
  <2>2. AfterDailyReset(c) = [st[c] EXCEPT !.pnl = 0, !.dayStart = stamp[c], !.stopped = FALSE]
    BY <1>2 DEF AfterDailyReset
  <2>3. \A i \in Int, n \in Nat :
          [st[c] EXCEPT !.pnl = i, !.dayStart = n, !.stopped = FALSE] \in State
    BY <1>1 DEF State
  <2>4. /\ AfterDailyReset(c).enabled = st[c].enabled
        /\ AfterDailyReset(c).paper = st[c].paper
        /\ AfterDailyReset(c).trades = st[c].trades
        /\ AfterDailyReset(c).dayStart = stamp[c]
    BY <1>1, <2>2 DEF State
  <2>5. 0 \in Int
    OBVIOUS
  <2>6. [st[c] EXCEPT !.pnl = 0, !.dayStart = stamp[c], !.stopped = FALSE] \in State
    BY <1>1, <2>3, <2>5, Zenon
  <2>7. AfterDailyReset(c) \in State
    BY <2>2, <2>6, Zenon
  <2> QED  BY <2>1, <2>4, <2>7
<1>3. CASE ~NewDay(c)
  BY <1>1, <1>3 DEF AfterDailyReset
<1> QED  BY <1>2, <1>3

LEMMA TypeInit == Init => TypeOK
<1> SUFFICES ASSUME Init PROVE TypeOK
  OBVIOUS
<1>1. kv \in State \union {NoState} /\ Stored \in State
  BY StateAssumption, LoadsAreStates DEF Init
<1>2. Stored.pnl \in Int /\ Stored.trades \in Nat
  BY <1>1 DEF State
<1>3. now \in Nat
  BY StateAssumption DEF Init
<1>4. asked \subseteq {"start", "live"}
  BY DEF Init
<1> QED  BY <1>1, <1>2, <1>3, <1>4, DefaultIsState DEF Init, TypeOK, Stages

LEMMA TypeStep ==
    ASSUME TypeOK, [Next]_vars
    PROVE  TypeOK'
<1> USE DEF TypeOK
<1> USE Members, DefaultIsState
<1>1. Stored \in State /\ Loads \subseteq State
  BY LoadsAreStates
<1>2. ASSUME NEW c \in Cron, NEW record \in State, NEW stage \in Stages,
             SaveGuarded(c, record, stage)
      PROVE  /\ st' \in [Proc -> State] /\ pc' \in [Proc -> Stages]
             /\ saving' \in [Scanner -> {"no", "read", "write", "merge"}]
  BY <1>2 DEF SaveGuarded, GoTo
<1>3. ASSUME NEW p \in Scanner
      PROVE  AfterScan(p) \in Stages
  BY StateAssumption DEF AfterScan, Stages, Scanner
<1>4. CASE \E c \in Cron : CycleStep(c)
  <2> PICK c \in Cron : CycleStep(c)
    BY <1>4
  <2>1. CASE LoadCycle(c)
    <3>1. PICK record \in Loads : /\ st' = [st EXCEPT ![c] = record]
                                  /\ base' = [base EXCEPT ![c] = record.cfgTs]
                                  /\ Learn(c, LoadTopics, record)
      BY <2>1 DEF LoadCycle
    <3>2. record \in State /\ record.cfgTs \in Nat
      BY <1>1 DEF State
    <3>3. knows' \in [Topics -> SUBSET Proc]
      BY <3>1, LearnFacts
    <3> QED  BY <2>1, <3>1, <3>2, <3>3 DEF LoadCycle, GoTo, Stages
  <2>2. CASE EnforceSpotLock(c)
    <3>1. /\ \A core \in BOOLEAN :
               [st[c] EXCEPT !.locked = TRUE, !.perps = FALSE, !.core = core,
                             !.cfgTs = stamp[c]] \in State
          /\ \A lock \in BOOLEAN : [st[c] EXCEPT !.locked = lock] \in State
      BY DEF State
    <3>2. /\ (ForceSpotLock \/ st[c].locked) \in BOOLEAN
          /\ {st[c].core, st[c].core \/ ForceSpotLock} \subseteq BOOLEAN
      BY StateAssumption DEF State
    <3>3. ASSUME NEW lock \in BOOLEAN, st' = [st EXCEPT ![c].locked = lock]
          PROVE  st' \in [Proc -> State]
      BY <3>1, <3>3
    <3>4. /\ st' \in [Proc -> State] /\ pc' \in [Proc -> Stages]
          /\ saving' \in [Scanner -> {"no", "read", "write", "merge"}]
      <4>1. ASSUME NEW core \in BOOLEAN,
                   SaveGuarded(c, [st[c] EXCEPT !.locked = TRUE, !.perps = FALSE,
                                                !.core = core, !.cfgTs = stamp[c]], "core")
            PROVE  /\ st' \in [Proc -> State] /\ pc' \in [Proc -> Stages]
                   /\ saving' \in [Scanner -> {"no", "read", "write", "merge"}]
        BY <3>1, <4>1, <1>2 DEF Stages
      <4>2. ASSUME NEW lock \in BOOLEAN, st' = [st EXCEPT ![c].locked = lock],
                   GoTo(c, "core"), saving' = saving
            PROVE  /\ st' \in [Proc -> State] /\ pc' \in [Proc -> Stages]
                   /\ saving' \in [Scanner -> {"no", "read", "write", "merge"}]
        BY <3>3, <4>2 DEF GoTo, Stages
      <4>3. QED
        BY <2>2, <3>2, <4>1, <4>2 DEF EnforceSpotLock
    <3> QED  BY <2>2, <3>4 DEF EnforceSpotLock, history
  <2>3. CASE EnforceCoreStrategies(c)
    <3>1. [st[c] EXCEPT !.core = TRUE, !.cfgTs = stamp[c]] \in State
      BY DEF State
    <3> QED  BY <2>3, <3>1, <1>2 DEF EnforceCoreStrategies, history, GoTo, Stages
  <2>4. CASE ReturnEarly(c)
    BY <2>4 DEF ReturnEarly, guarded, history, GoTo, Stages
  <2>5. CASE StopOnDailyLoss(c)
    <3>1. [AfterDailyReset(c) EXCEPT !.stopped = TRUE] \in State
      BY ResetFacts DEF State
    <3> QED  BY <2>5, <3>1, <1>2 DEF StopOnDailyLoss, history, Stages
  <2>6. CASE PassChecks(c)
    BY <2>6, ResetFacts DEF PassChecks, guarded, GoTo, Stages
  <2>7. CASE GuardRead(c)
    <3>1. PICK latest \in Loads :
            /\ Learn(c, GuardTopics, latest)
            /\ \/ /\ outgoing' = [outgoing EXCEPT ![c] = st[c]]
                  /\ saving' = [saving EXCEPT ![c] = "write"]
               \/ /\ outgoing' = [outgoing EXCEPT ![c] = Merge(latest, st[c])]
                  /\ saving' = [saving EXCEPT ![c] = "merge"]
      BY <2>7 DEF GuardRead
    <3>2. latest \in State /\ Merge(latest, st[c]) \in State
      BY <1>1 DEF Merge, State
    <3>3. knows' \in [Topics -> SUBSET Proc]
      BY <3>1, LearnFacts
    <3> QED  BY <2>7, <3>1, <3>2, <3>3 DEF GuardRead
  <2>8. CASE GuardWrite(c)
    <3>1. kv' \in State \union {NoState} /\ knows' \in [Topics -> SUBSET Proc]
      BY <2>8, PutIsTyped DEF GuardWrite
    <3> QED  BY <2>8, <3>1 DEF GuardWrite, GoTo, Stages
  <2>9. CASE AiHoldsBack(c)
    BY <2>9 DEF AiHoldsBack, guarded, history, GoTo, Stages
  <2>10. CASE FinishCycle(c)
    BY <2>10, <1>2 DEF FinishCycle, history, Stages
  <2> QED  BY <2>1, <2>2, <2>3, <2>4, <2>5, <2>6, <2>7, <2>8, <2>9, <2>10 DEF CycleStep
<1>5. CASE \E p \in Scanner : ScanStep(p)
  <2> PICK p \in Scanner : ScanStep(p)
    BY <1>5
  <2>1. ASSUME NEW d \in Int, NEW real \in Int, Book(p, d, real)
        PROVE  st' \in [Proc -> State] /\ settled' \in Int /\ orders' \in Nat
    <3>1. st' = [st EXCEPT ![p] = [st[p] EXCEPT !.pnl = @ + d, !.trades = @ + 1]]
      BY <2>1 DEF Book
    <3>2. [st[p] EXCEPT !.pnl = @ + d, !.trades = @ + 1] \in State
      BY BookedIsState
    <3> QED  BY <2>1, <3>1, <3>2 DEF Book
  <2>2. Results \subseteq Int
    BY StateAssumption
  <2>3. CASE Scan(p)
    <3>1. st' \in [Proc -> State] /\ settled' \in Int /\ orders' \in Nat
      BY <2>1, <2>2, <2>3 DEF Scan
    <3>2. "rank" \in Stages /\ AfterScan(p) \in Stages
      BY <1>3 DEF Stages
    <3>3. pc' \in [Proc -> Stages]
      BY <2>3, <3>2 DEF Scan, GoTo
    <3> QED  BY <2>3, <3>1, <3>3 DEF Scan, guarded
  <2>4. CASE ScanAutoStops(p)
    <3>1. [st[p] EXCEPT !.stopped = TRUE] \in State
      BY DEF State
    <3>2. kv' \in State \union {NoState} /\ knows' \in [Topics -> SUBSET Proc]
      BY <2>4, <3>1, PutIsTyped DEF ScanAutoStops
    <3> QED  BY <2>4, <3>1, <3>2, <1>3 DEF ScanAutoStops, GoTo, guarded
  <2>5. CASE TradePaper(p)
    BY <2>5, <1>3 DEF TradePaper, GoTo, guarded, history
  <2>6. CASE TradeLive(p)
    <3>1. st' \in [Proc -> State] /\ settled' \in Int /\ orders' \in Nat
      BY <2>1, <2>2, <2>6 DEF TradeLive
    <3> QED  BY <2>6, <3>1, <1>3 DEF TradeLive, GoTo, guarded
  <2> QED  BY <2>3, <2>4, <2>5, <2>6 DEF ScanStep
<1>6. CASE \E p \in Chat \union Api \union Request : Load(p)
  <2> PICK p \in Chat \union Api \union Request : Load(p)
    BY <1>6
  <2>1. PICK record \in Loads : /\ st' = [st EXCEPT ![p] = record]
                                /\ Learn(p, LoadTopics, record)
    BY DEF Load
  <2>2. knows' \in [Topics -> SUBSET Proc]
    BY <2>1, LearnFacts
  <2> QED  BY <2>1, <2>2, <1>1 DEF Load, GoTo, guarded, Stages
<1>7. CASE \E p \in Chat : SaveChat(p)
  <2> PICK p \in Chat : SaveChat(p)
    BY <1>7
  <2>1. kv' \in State \union {NoState} /\ knows' \in [Topics -> SUBSET Proc]
    BY PutIsTyped DEF SaveChat
  <2> QED  BY <2>1 DEF SaveChat, GoTo, guarded, Stages
<1>8. CASE \E r \in Request : Command(r) \/ FailReply(r)
  <2> PICK r \in Request : Command(r) \/ FailReply(r)
    BY <1>8
  <2>1. CASE Command(r)
    <3>1. PICK record \in State \union {NoState} :
            /\ Put(record) /\ GoTo(r, "end")
            /\ UNCHANGED <<now, st, guarded, settled, orders>>
            /\ asked' \subseteq asked \union {"start", "live"}
      BY <2>1, CommandFacts
    <3>2. kv' \in State \union {NoState} /\ knows' \in [Topics -> SUBSET Proc]
      BY <3>1, PutIsTyped
    <3> QED  BY <3>1, <3>2 DEF GoTo, guarded, Stages
  <2>2. CASE FailReply(r)
    BY <2>2 DEF FailReply, GoTo, guarded, history, Stages
  <2> QED  BY <2>1, <2>2
<1>9. CASE \E p \in Proc : Die(p)
  BY <1>9 DEF Die, GoTo, history, Stages
<1>10. CASE Tick
  BY <1>10 DEF Tick, guarded, history
<1>11. CASE UNCHANGED vars
  BY <1>11 DEF vars, guarded, history
<1> QED  BY <1>4, <1>5, <1>6, <1>7, <1>8, <1>9, <1>10, <1>11 DEF Next, Finished

\* The state stays within its types: whatever reads are refused, puts lost and
\* records merged, getState answers and saveState stores a whole record.
THEOREM TypeCorrect == Spec => []TypeOK
<1>1. TypeOK /\ [Next]_vars => TypeOK'
  BY TypeStep
<1> QED  BY <1>1, TypeInit, PTL DEF Spec

-----------------------------------------------------------------------------
(* The strengthening *)

\* A guarded save in progress puts the copy, or its counters.
Saving ==
    \A c \in Cron :
        /\ saving[c] # "no" => pc[c] # "idle"
        /\ saving[c] = "write" => outgoing[c] = st[c]
        /\ saving[c] = "merge" => /\ outgoing[c].stopped = st[c].stopped
                                  /\ outgoing[c].dayStart = st[c].dayStart

\* A record that nobody switched on unasked, and that counts no trade twice.
Sound(record) ==
    /\ record.enabled => "start" \in asked
    /\ ~record.paper => "live" \in asked
    /\ record.trades <= orders

Consented ==
    /\ Sound(Stored)
    /\ \A p \in Proc : Sound(st[p])
    /\ \A c \in Cron : Sound(outgoing[c])
    /\ \A c \in Cron : pc[c] \in {"scan", "rank"} => st[c].enabled

\* Who has read the store since trading was switched off does not switch it on.
OffKnown ==
    /\ \A p \in Proc : p \in knows["off"] => Stored.enabled \/ ~st[p].enabled
    /\ \A c \in Cron : c \in knows["off at save"] /\ saving[c] = "merge"
                         => Stored.enabled \/ ~outgoing[c].enabled

\* Who has read the store since it was stopped is stopped for that day too, or
\* has begun a later one.
StopKnown ==
    \A p \in Proc : p \in knows["stopped"] /\ Stored.stopped =>
        \/ st[p].stopped /\ st[p].dayStart = Stored.dayStart
        \/ st[p].dayStart > Stored.dayStart

\* A guarded save that has read the last configuration keeps it if it is newer.
ConfigKnown ==
    \A c \in Cron : c \in knows["config"] =>
        /\ saving[c] = "write" => Stored.cfgTs <= base[c]
        /\ saving[c] = "merge" => outgoing[c].cfg = Stored.cfg

Known == OffKnown /\ StopKnown /\ ConfigKnown

IInv == TypeOK /\ Saving /\ Consented /\ Known

-----------------------------------------------------------------------------
(* What the steps have in common *)

\* A copy is worked on: the switches stay, as many trades are counted as were
\* made, a day's stop stays on that day.
Worked(old, new) ==
    /\ new.enabled = old.enabled
    /\ new.paper = old.paper
    /\ new.trades - old.trades <= orders' - orders
    /\ \/ new.dayStart = old.dayStart /\ (old.stopped => new.stopped)
       \/ new.dayStart > old.dayStart

CopiesWorked == \A p \in Proc : Worked(st[p], st'[p])

\* A guarded save that stays past its read is not touched.
Kept(c) ==
    saving'[c] \in {"write", "merge"} =>
        /\ saving'[c] = saving[c] /\ outgoing'[c] = outgoing[c]
        /\ st'[c] = st[c] /\ base'[c] = base[c]

SavesKept == \A c \in Cron : Kept(c)

\* The knowledge of the store's record survives a step that leaves the store.
LEMMA QuietKeepsKnown ==
    ASSUME TypeOK, TypeOK', Known, UNCHANGED <<kv, knows>>, CopiesWorked, SavesKept
    PROVE  Known'
<1>1. Stored' = Stored /\ Stored \in State
  BY LoadsAreStates DEF TypeOK, Stored, View, Default
<1>2. OffKnown'
  BY <1>1, Members DEF Known, OffKnown, CopiesWorked, Worked, SavesKept, Kept, TypeOK
<1>3. StopKnown'
  <2> SUFFICES ASSUME NEW p \in Proc, p \in knows["stopped"], Stored.stopped
               PROVE  \/ st'[p].stopped /\ st'[p].dayStart = Stored.dayStart
                      \/ st'[p].dayStart > Stored.dayStart
    BY <1>1 DEF StopKnown
  <2>1. st[p] \in State /\ st'[p] \in State
    BY DEF TypeOK
  <2>2. {st[p].dayStart, st'[p].dayStart, Stored.dayStart} \subseteq Nat
    BY <1>1, <2>1 DEF State
  <2> QED  BY <2>2 DEF Known, StopKnown, CopiesWorked, Worked
<1>4. ConfigKnown'
  BY <1>1 DEF Known, ConfigKnown, SavesKept, Kept
<1> QED  BY <1>2, <1>3, <1>4 DEF Known

\* ... and one that puts a record.
LEMMA PutKeepsKnown ==
    ASSUME TypeOK, TypeOK', Known, CopiesWorked, SavesKept,
           NEW record \in State \union {NoState}, Put(record)
    PROVE  Known'
<1> DEFINE new == View(record)
<1>1. /\ Stored' = new /\ new \in State /\ Stored \in State
      /\ knows \in [Topics -> SUBSET Proc]
  BY PutFacts, ViewIsState, LoadsAreStates DEF TypeOK
<1>2. /\ "off" \in Topics /\ "off at save" \in Topics
      /\ "stopped" \in Topics /\ "config" \in Topics
  BY DEF Topics, LoadTopics, GuardTopics
<1>3. /\ \A t \in Topics : knows'[t] \subseteq knows[t]
      /\ Stored.enabled /\ ~new.enabled => knows'["off"] = {} /\ knows'["off at save"] = {}
      /\ new.stopped /\ (~Stored.stopped \/ Stored.dayStart # new.dayStart)
           => knows'["stopped"] = {}
      /\ Stored.cfg # new.cfg \/ Stored.cfgTs # new.cfgTs => knows'["config"] = {}
  BY <1>1, PutFacts
<1> HIDE DEF new
<1>4. OffKnown'
  <2>1. ASSUME NEW p \in Proc, p \in knows'["off"]
        PROVE  new.enabled \/ ~st'[p].enabled
    BY <1>2, <1>3, <2>1 DEF Known, OffKnown, CopiesWorked, Worked
  <2>2. ASSUME NEW c \in Cron, c \in knows'["off at save"], saving'[c] = "merge"
        PROVE  new.enabled \/ ~outgoing'[c].enabled
    BY <1>2, <1>3, <2>2 DEF Known, OffKnown, SavesKept, Kept
  <2> QED  BY <1>1, <2>1, <2>2 DEF OffKnown
<1>5. StopKnown'
  <2> SUFFICES ASSUME NEW p \in Proc, p \in knows'["stopped"], new.stopped
               PROVE  \/ st'[p].stopped /\ st'[p].dayStart = new.dayStart
                      \/ st'[p].dayStart > new.dayStart
    BY <1>1 DEF StopKnown
  <2>1. st[p] \in State /\ st'[p] \in State
    BY DEF TypeOK
  <2>2. {st[p].dayStart, st'[p].dayStart, Stored.dayStart} \subseteq Nat
    BY <1>1, <2>1 DEF State
  <2>3. Stored.stopped /\ Stored.dayStart = new.dayStart /\ p \in knows["stopped"]
    BY <1>2, <1>3
  <2> QED  BY <2>2, <2>3 DEF Known, StopKnown, CopiesWorked, Worked
<1>6. ConfigKnown'
  BY <1>1, <1>2, <1>3 DEF Known, ConfigKnown, SavesKept, Kept
<1> QED  BY <1>4, <1>5, <1>6 DEF Known

\* ... and one that reads the store into p's copy.
LEMMA LoadKeepsKnown ==
    ASSUME TypeOK, TypeOK', Known, UNCHANGED kv, SavesKept, NEW p \in Proc, NEW record \in State,
           Learn(p, LoadTopics, record), st' = [st EXCEPT ![p] = record]
    PROVE  Known'
<1>1. Stored' = Stored /\ Stored \in State
  BY LoadsAreStates DEF TypeOK, Stored, View, Default
<1>2. /\ "off" \in LoadTopics /\ "stopped" \in LoadTopics
      /\ "off at save" \in Topics \ LoadTopics /\ "config" \in Topics \ LoadTopics
      /\ LoadTopics \subseteq Topics
  BY DEF Topics, LoadTopics, GuardTopics
<1> knows \in [Topics -> SUBSET Proc]
  BY DEF TypeOK
<1>3. \A t \in Topics, q \in Proc :
        q \in knows'[t] => \/ q \in knows[t] /\ (q # p \/ t \notin LoadTopics)
                           \/ q = p /\ t \in LoadTopics /\ record = Stored
  BY LearnFacts
<1>4. \A t \in Topics \ LoadTopics, q \in Proc : q \in knows'[t] => q \in knows[t]
  BY <1>3
<1>5. /\ \A q \in Proc : q # p => st'[q] = st[q]
      /\ st'[p] = record
  BY DEF TypeOK
<1>6. OffKnown'
  <2>1. \A q \in Proc : q \in knows'["off"] => Stored.enabled \/ ~st'[q].enabled
    BY <1>2, <1>3, <1>5 DEF Known, OffKnown
  <2>2. \A c \in Cron : c \in knows'["off at save"] /\ saving'[c] = "merge"
                          => Stored.enabled \/ ~outgoing'[c].enabled
    BY <1>2, <1>4, Members DEF Known, OffKnown, SavesKept, Kept
  <2> QED  BY <1>1, <2>1, <2>2 DEF OffKnown
<1>7. StopKnown'
  BY <1>1, <1>2, <1>3, <1>5 DEF Known, StopKnown
<1>8. ConfigKnown'
  BY <1>1, <1>2, <1>4, Members DEF Known, ConfigKnown, SavesKept, Kept
<1> QED  BY <1>6, <1>7, <1>8 DEF Known

\* What every step does but the reads of the store.
Common ==
    /\ asked \subseteq asked' /\ orders <= orders'
    /\ CopiesWorked /\ SavesKept
    /\ \A c \in Cron : /\ saving'[c] # "no" => pc'[c] # "idle"
                       /\ pc'[c] \in {"scan", "rank"} => st'[c].enabled
                       /\ outgoing'[c] \in {outgoing[c], Default}

QuietStep == Common /\ UNCHANGED <<kv, knows>>

PutStep ==
    /\ Common
    /\ \E record \in State \union {NoState} :
         /\ Put(record)
         /\ record \in State => /\ record.enabled => "start" \in asked'
                                /\ ~record.paper => "live" \in asked'
                                /\ record.trades <= orders'

LoadStep ==
    \E p \in Proc, record \in Loads :
        /\ p \in Cron => pc[p] = "idle" /\ pc'[p] \notin {"idle", "scan", "rank"}
        /\ \A q \in Proc \ {p} : pc'[q] = pc[q]
        /\ st' = [st EXCEPT ![p] = record]
        /\ \A c \in Cron \ {p} : base'[c] = base[c]
        /\ Learn(p, LoadTopics, record)
        /\ UNCHANGED <<kv, saving, outgoing, asked, orders>>

\* A record of a sound one with as much consent and no more new trades than orders.
LEMMA SoundStays ==
    ASSUME TypeOK, TypeOK', asked \subseteq asked', orders <= orders',
           NEW old \in State, NEW new \in State, Sound(old), Worked(old, new)
    PROVE  /\ new.enabled => "start" \in asked'
           /\ ~new.paper => "live" \in asked'
           /\ new.trades <= orders'
<1>1. {old.trades, new.trades, orders, orders'} \subseteq Nat
  BY DEF State, TypeOK
<1>2. new.trades - old.trades <= orders' - orders /\ old.trades <= orders
  BY DEF Sound, Worked
<1>3. new.trades <= orders'
  BY <1>1, <1>2
<1> QED  BY <1>3 DEF Sound, Worked

LEMMA CommonKeepsSaving ==
    ASSUME TypeOK, Saving, Common
    PROVE  Saving'
BY DEF Saving, Common, SavesKept, Kept

\* What the copies and the saves of a common step keep of Consented.
LEMMA CommonKeepsConsented ==
    ASSUME TypeOK, TypeOK', Consented, Common, Sound(Stored)'
    PROVE  Consented'
<1>1. ASSUME NEW p \in Proc
      PROVE  Sound(st[p])'
  <2>1. st[p] \in State /\ st'[p] \in State
    BY DEF TypeOK
  <2> QED  BY <2>1, SoundStays DEF Consented, Common, CopiesWorked, Sound
<1>2. ASSUME NEW c \in Cron
      PROVE  Sound(outgoing[c])'
  <2>1. outgoing[c] \in State /\ {orders, orders'} \subseteq Nat
    BY DEF TypeOK
  <2>2. outgoing[c].trades \in Nat
    BY <2>1 DEF State
  <2>3. CASE outgoing'[c] = outgoing[c]
    BY <2>1, <2>2, <2>3 DEF Consented, Common, Sound
  <2>4. CASE outgoing'[c] = Default
    BY <2>1, <2>4 DEF Sound, Default
  <2> QED  BY <2>3, <2>4 DEF Common
<1> QED  BY <1>1, <1>2 DEF Consented, Common

LEMMA QuietStepKeeps ==
    ASSUME IInv, TypeOK', QuietStep
    PROVE  IInv'
<1>1. Known'
  BY QuietKeepsKnown DEF IInv, QuietStep, Common
<1>2. Sound(Stored)'
  <2>1. Stored' = Stored /\ Stored \in State
    BY LoadsAreStates DEF IInv, TypeOK, QuietStep, Stored, View, Default
  <2>2. Stored.trades \in Nat /\ orders \in Nat /\ orders' \in Nat
    BY <2>1 DEF State, IInv, TypeOK
  <2> QED  BY <2>1, <2>2 DEF IInv, Consented, Sound, QuietStep, Common
<1> QED  BY <1>1, <1>2, CommonKeepsSaving, CommonKeepsConsented DEF IInv, QuietStep

LEMMA PutStepKeeps ==
    ASSUME IInv, TypeOK', PutStep
    PROVE  IInv'
<1>1. PICK record \in State \union {NoState} :
        /\ Put(record)
        /\ record \in State => /\ record.enabled => "start" \in asked'
                               /\ ~record.paper => "live" \in asked'
                               /\ record.trades <= orders'
  BY DEF PutStep
<1>2. Known'
  BY <1>1, PutKeepsKnown DEF IInv, PutStep, Common
<1>3. Sound(Stored)'
  <2>1. Stored' = View(record)
    BY <1>1, PutFacts DEF IInv, TypeOK
  <2>2. CASE record \in State
    BY <1>1, <2>1, <2>2, ViewIsState DEF Sound
  <2>3. CASE record = NoState
    <3>1. orders' \in Nat
      BY DEF TypeOK
    <3>2. Stored' = Default
      BY <2>1, <2>3, ViewIsState
    <3> QED  BY <3>1, <3>2 DEF Sound, Default
  <2> QED  BY <2>2, <2>3
<1> QED  BY <1>2, <1>3, CommonKeepsSaving, CommonKeepsConsented DEF IInv, PutStep

LEMMA LoadStepKeeps ==
    ASSUME IInv, TypeOK', LoadStep
    PROVE  IInv'
<1>1. PICK p \in Proc, record \in Loads :
        /\ p \in Cron => pc[p] = "idle" /\ pc'[p] \notin {"idle", "scan", "rank"}
        /\ \A q \in Proc \ {p} : pc'[q] = pc[q]
        /\ st' = [st EXCEPT ![p] = record]
        /\ \A c \in Cron \ {p} : base'[c] = base[c]
        /\ Learn(p, LoadTopics, record)
        /\ UNCHANGED <<kv, saving, outgoing, asked, orders>>
  BY DEF LoadStep
<1>2. Stored' = Stored /\ Stored \in State /\ record \in State
  BY <1>1, LoadsAreStates DEF IInv, TypeOK, Stored, View, Default
<1>3. /\ \A q \in Proc : q # p => st'[q] = st[q]
      /\ st'[p] = record
  BY <1>1, <1>2 DEF IInv, TypeOK
<1>4. SavesKept
  BY <1>1, <1>3, Members DEF SavesKept, Kept, IInv, Saving
<1>5. Known'
  BY <1>1, <1>2, <1>4, LoadKeepsKnown DEF IInv
<1>6. Saving'
  BY <1>1, <1>3, Members DEF IInv, Saving
<1>7. Sound(record) /\ Sound(Default)
  <2>1. Sound(Default)
    BY DEF Sound, Default, IInv, TypeOK
  <2> QED  BY <2>1 DEF Loads, IInv, Consented
<1>8. Consented'
  BY <1>1, <1>2, <1>3, <1>7, Members DEF IInv, Consented, Sound
<1> QED  BY <1>5, <1>6, <1>8 DEF IInv
LEMMA GuardReadKeeps ==
    ASSUME IInv, TypeOK', NEW c \in Cron, GuardRead(c)
    PROVE  IInv'
<1> USE DEF IInv
<1>1. PICK latest \in Loads :
        /\ Learn(c, GuardTopics, latest)
        /\ \/ /\ latest.cfgTs <= base[c]
              /\ outgoing' = [outgoing EXCEPT ![c] = st[c]]
              /\ saving' = [saving EXCEPT ![c] = "write"]
           \/ /\ latest.cfgTs > base[c]
              /\ outgoing' = [outgoing EXCEPT ![c] = Merge(latest, st[c])]
              /\ saving' = [saving EXCEPT ![c] = "merge"]
  BY DEF GuardRead
<1>2. /\ UNCHANGED <<kv, pc, st, base, orders, asked>>
      /\ saving[c] = "read"
  BY DEF GuardRead
<1>3. Stored' = Stored /\ Stored \in State /\ latest \in State /\ c \in Proc /\ st[c] \in State
  BY <1>2, LoadsAreStates, Members DEF TypeOK, Stored, View, Default
<1> DEFINE merged == Merge(latest, st[c])
<1>4. /\ merged \in State /\ merged.enabled = latest.enabled /\ merged.paper = latest.paper
      /\ merged.cfg = latest.cfg /\ merged.trades = st[c].trades
      /\ merged.stopped = st[c].stopped /\ merged.dayStart = st[c].dayStart
  BY <1>3 DEF Merge, State
<1> HIDE DEF merged
<1>5. /\ \A d \in Cron : d # c => saving'[d] = saving[d] /\ outgoing'[d] = outgoing[d]
      /\ \/ latest.cfgTs <= base[c] /\ outgoing'[c] = st[c] /\ saving'[c] = "write"
         \/ outgoing'[c] = merged /\ saving'[c] = "merge"
  BY <1>1, Members DEF TypeOK, merged
<1> knows \in [Topics -> SUBSET Proc]
  BY DEF TypeOK
<1>6. /\ "off" \in Topics \ GuardTopics /\ "stopped" \in Topics \ GuardTopics
      /\ "off at save" \in GuardTopics /\ "config" \in GuardTopics
      /\ GuardTopics \subseteq Topics
  BY DEF Topics, LoadTopics, GuardTopics
<1>7. \A t \in Topics, q \in Proc :
        q \in knows'[t] => \/ q \in knows[t] /\ (q # c \/ t \notin GuardTopics)
                           \/ q = c /\ t \in GuardTopics /\ latest = Stored
  BY <1>1, <1>3, LearnFacts
<1>8. Saving'
  BY <1>2, <1>4, <1>5 DEF Saving
<1>9. Consented'
  <2>1. Sound(Default) /\ Sound(Stored) /\ Sound(st[c])
    BY <1>3 DEF Sound, Default, TypeOK, Consented
  <2>2. Sound(latest)
    BY <2>1 DEF Loads
  <2>3. Sound(merged)
    BY <2>1, <2>2, <1>4 DEF Sound
  <2> QED  BY <1>2, <1>3, <1>5, <2>1, <2>3 DEF Consented, Sound
<1>10. OffKnown'
  <2>1. \A q \in Proc : q \in knows'["off"] => Stored.enabled \/ ~st[q].enabled
    BY <1>6, <1>7 DEF Known, OffKnown
  <2>2. \A d \in Cron : d \in knows'["off at save"] /\ saving'[d] = "merge"
                          => Stored.enabled \/ ~outgoing'[d].enabled
    BY <1>4, <1>5, <1>6, <1>7, Members DEF Known, OffKnown
  <2> QED  BY <1>2, <1>3, <2>1, <2>2 DEF OffKnown
<1>11. StopKnown'
  BY <1>2, <1>3, <1>6, <1>7 DEF Known, StopKnown
<1>12. ConfigKnown'
  BY <1>2, <1>3, <1>4, <1>5, <1>6, <1>7, Members DEF Known, ConfigKnown
<1> QED  BY <1>8, <1>9, <1>10, <1>11, <1>12 DEF Known

-----------------------------------------------------------------------------
(* Every step is one of these *)

\* A step of p that works on p's copy only, and leaves the guarded save's record.
LEMMA OwnCopy ==
    ASSUME TypeOK, TypeOK', NEW p \in Proc, NEW record \in State,
           Worked(st[p], record), st' = [st EXCEPT ![p] = record], orders <= orders'
    PROVE  CopiesWorked
<1>1. \A q \in Proc : q # p => st'[q] = st[q]
  BY DEF TypeOK
<1>2. st'[p] = record
  BY DEF TypeOK
<1>3. \A s \in State : Worked(s, s)
  <2> TAKE s \in State
  <2>1. {s.trades, orders, orders'} \subseteq Nat
    BY DEF State, TypeOK
  <2> QED  BY <2>1 DEF Worked
<1> QED  BY <1>1, <1>2, <1>3 DEF CopiesWorked, TypeOK

LEMMA NoCopy ==
    ASSUME TypeOK, TypeOK', UNCHANGED st, orders <= orders'
    PROVE  CopiesWorked
<1> SUFFICES ASSUME NEW p \in Proc PROVE Worked(st[p], st'[p])
  BY DEF CopiesWorked
<1>1. st[p] \in State
  BY DEF TypeOK
<1>2. {st[p].trades, orders, orders'} \subseteq Nat
  BY <1>1 DEF State, TypeOK
<1> QED  BY <1>2 DEF Worked

\* A step of a scanner on its own copy, outside the guarded save.
LEMMA OwnStep ==
    ASSUME IInv, TypeOK', NEW p \in Scanner, saving[p] = "no",
           NEW record \in State, Worked(st[p], record), st' = [st EXCEPT ![p] = record],
           NEW stage \in Stages \ {"idle"}, GoTo(p, stage),
           stage \in {"scan", "rank"} /\ p \in Cron => record.enabled,
           saving' = saving \/ saving' = [saving EXCEPT ![p] = "read"],
           UNCHANGED <<base, outgoing, asked>>, orders <= orders'
    PROVE  Common
<1> USE Members DEF IInv, TypeOK
<1>1. CopiesWorked
  BY OwnCopy
<1>2. \A c \in Cron : /\ c # p => /\ st'[c] = st[c] /\ saving'[c] = saving[c]
                                  /\ pc'[c] = pc[c]
                      /\ c = p => /\ st'[c] = record /\ saving'[c] \in {"no", "read"}
                                  /\ pc'[c] = stage
  BY DEF GoTo
<1>3. SavesKept
  BY <1>2 DEF SavesKept, Kept
<1>4. \A c \in Cron : /\ saving'[c] # "no" => pc'[c] # "idle"
                      /\ pc'[c] \in {"scan", "rank"} => st'[c].enabled
  BY <1>2 DEF Saving, Consented
<1> QED  BY <1>1, <1>3, <1>4 DEF Common

\* A step that leaves every cycle's copy and save, and at most ends a cycle.
LEMMA BesideCycles ==
    ASSUME IInv, TypeOK', UNCHANGED <<base, outgoing>>, CopiesWorked,
           asked \subseteq asked', orders <= orders',
           \A c \in Cron : /\ pc'[c] \in {pc[c], "end"} /\ st'[c] = st[c]
                           /\ saving'[c] \in {saving[c], "no"}
    PROVE  Common
<1>1. SavesKept
  BY DEF SavesKept, Kept
<1>2. \A c \in Cron : /\ saving'[c] # "no" => pc'[c] # "idle"
                      /\ pc'[c] \in {"scan", "rank"} => st'[c].enabled
  BY DEF IInv, Saving, Consented
<1> QED  BY <1>1, <1>2 DEF Common
\* A copy that counts the same trades, on the same day, and is not started again.
LEMMA SameDayWorked ==
    ASSUME TypeOK, TypeOK', orders <= orders', NEW old \in State, NEW new \in State,
           new.enabled = old.enabled, new.paper = old.paper, new.trades = old.trades,
           new.dayStart = old.dayStart, old.stopped => new.stopped
    PROVE  Worked(old, new)
<1>1. {old.trades, orders, orders'} \subseteq Nat
  BY DEF State, TypeOK
<1> QED  BY <1>1 DEF Worked

\* A guarded save is begun with the copy's new content.
LEMMA SaveIsQuiet ==
    ASSUME IInv, TypeOK', NEW c \in Cron, saving[c] = "no", NEW record \in State,
           Worked(st[c], record), NEW stage \in {"core", "checks", "end"},
           SaveGuarded(c, record, stage),
           UNCHANGED <<kv, knows, base, outgoing, asked, orders>>
    PROVE  QuietStep
<1>1. stage \in Stages \ {"idle"} /\ stage \notin {"scan", "rank"}
  BY DEF Stages
<1>2. orders <= orders'
  BY DEF IInv, TypeOK
<1>3. Common
  BY <1>1, <1>2, OwnStep, Members DEF SaveGuarded
<1> QED  BY <1>3 DEF QuietStep

LEMMA CycleStepIsOne ==
    ASSUME IInv, TypeOK', NEW c \in Cron, CycleStep(c)
    PROVE  QuietStep \/ PutStep \/ LoadStep \/ GuardRead(c)
<1> USE Members
<1>1. /\ st[c] \in State /\ stamp[c] \in Nat /\ st[c].trades \in Nat
      /\ st = [st EXCEPT ![c] = st[c]]
  BY DEF IInv, TypeOK, State
<1>2. UNCHANGED orders => orders <= orders'
  BY DEF IInv, TypeOK
<1>3. CASE LoadCycle(c)
  <2>1. pc[c] = "idle" /\ pc' = [pc EXCEPT ![c] = "spot"]
    BY <1>3 DEF LoadCycle, MayBegin, GoTo
  <2>2. PICK record \in Loads : /\ st' = [st EXCEPT ![c] = record]
                                /\ base' = [base EXCEPT ![c] = record.cfgTs]
                                /\ Learn(c, LoadTopics, record)
    BY <1>3 DEF LoadCycle
  <2>3. /\ pc'[c] = "spot" /\ \A q \in Proc \ {c} : pc'[q] = pc[q]
        /\ \A d \in Cron \ {c} : base'[d] = base[d]
    BY <2>1, <2>2 DEF IInv, TypeOK
  <2>4. UNCHANGED <<kv, saving, outgoing, asked, orders>>
    BY <1>3 DEF LoadCycle
  <2> QED  BY <2>1, <2>2, <2>3, <2>4 DEF LoadStep
<1>4. CASE EnforceSpotLock(c)
  <2> DEFINE locked(core) == [st[c] EXCEPT !.locked = TRUE, !.perps = FALSE,
                                           !.core = core, !.cfgTs = stamp[c]]
  <2>1. UNCHANGED <<kv, knows, base, outgoing, asked, orders>> /\ saving[c] = "no"
    BY <1>4 DEF EnforceSpotLock, history, At
  <2>2. ASSUME NEW core \in BOOLEAN PROVE locked(core) \in State /\ Worked(st[c], locked(core))
    <3>1. /\ locked(core) \in State /\ locked(core).trades = st[c].trades
          /\ locked(core).enabled = st[c].enabled /\ locked(core).paper = st[c].paper
          /\ locked(core).dayStart = st[c].dayStart /\ locked(core).stopped = st[c].stopped
      BY <1>1 DEF State
    <3> QED  BY <1>1, <1>2, <2>1, <3>1, SameDayWorked DEF IInv
  <2>3. ASSUME NEW core \in BOOLEAN, SaveGuarded(c, locked(core), "core") PROVE QuietStep
    BY <2>1, <2>2, <2>3, SaveIsQuiet
  <2>4. ASSUME NEW lock \in BOOLEAN, st' = [st EXCEPT ![c].locked = lock],
               GoTo(c, "core"), UNCHANGED saving
        PROVE  QuietStep
    <3> DEFINE kept == [st[c] EXCEPT !.locked = lock]
    <3>1. /\ kept \in State /\ kept.trades = st[c].trades
          /\ kept.enabled = st[c].enabled /\ kept.paper = st[c].paper
          /\ kept.dayStart = st[c].dayStart /\ kept.stopped = st[c].stopped
      BY <1>1 DEF State
    <3>2. Worked(st[c], kept)
      BY <1>1, <1>2, <2>1, <3>1, SameDayWorked DEF IInv
    <3>3. "core" \in Stages \ {"idle"} /\ "core" \notin {"scan", "rank"}
      BY DEF Stages
    <3>4. st' = [st EXCEPT ![c] = kept]
      BY <2>4
    <3>5. Common
      BY <1>2, <2>1, <2>4, <3>1, <3>2, <3>3, <3>4, OwnStep
    <3> QED  BY <2>1, <3>5 DEF QuietStep
  <2>5. /\ (ForceSpotLock \/ st[c].locked) \in BOOLEAN
        /\ {st[c].core, st[c].core \/ ForceSpotLock} \subseteq BOOLEAN
    BY <1>1, StateAssumption DEF State
  <2> QED  BY <1>4, <2>3, <2>4, <2>5 DEF EnforceSpotLock
<1>5. CASE EnforceCoreStrategies(c)
  <2> DEFINE forced == [st[c] EXCEPT !.core = TRUE, !.cfgTs = stamp[c]]
  <2>1. UNCHANGED <<kv, knows, base, outgoing, asked, orders>> /\ saving[c] = "no"
    BY <1>5 DEF EnforceCoreStrategies, history, At
  <2>2. forced \in State /\ Worked(st[c], forced) /\ Worked(st[c], st[c])
    <3>1. /\ forced \in State /\ forced.trades = st[c].trades
          /\ forced.enabled = st[c].enabled /\ forced.paper = st[c].paper
          /\ forced.dayStart = st[c].dayStart /\ forced.stopped = st[c].stopped
      BY <1>1 DEF State
    <3> QED  BY <1>1, <1>2, <2>1, <3>1, SameDayWorked DEF IInv
  <2>3. CASE SaveGuarded(c, forced, "checks")
    BY <2>1, <2>2, <2>3, SaveIsQuiet
  <2>4. CASE GoTo(c, "checks") /\ UNCHANGED <<st, saving>>
    <3>1. "checks" \in Stages \ {"idle"} /\ "checks" \notin {"scan", "rank"}
      BY DEF Stages
    <3>2. Common
      BY <1>1, <1>2, <2>1, <2>2, <2>4, <3>1, OwnStep
    <3> QED  BY <2>1, <3>2 DEF QuietStep
  <2> QED  BY <1>5, <2>3, <2>4 DEF EnforceCoreStrategies
<1>6. CASE StopOnDailyLoss(c)
  <2> DEFINE stopped == [AfterDailyReset(c) EXCEPT !.stopped = TRUE]
  <2>1. /\ UNCHANGED <<kv, knows, base, outgoing, asked, orders>> /\ saving[c] = "no"
        /\ SaveGuarded(c, stopped, "end")
    BY <1>6 DEF StopOnDailyLoss, history, At
  <2>2. /\ stopped \in State /\ stopped.enabled = st[c].enabled
        /\ stopped.paper = st[c].paper /\ stopped.trades = st[c].trades
        /\ stopped.dayStart = AfterDailyReset(c).dayStart /\ stopped.stopped
    BY ResetFacts DEF IInv, State
  <2>3. Worked(st[c], stopped)
    <3>1. {st[c].trades, orders, orders'} \subseteq Nat /\ orders <= orders'
      BY <1>1, <1>2, <2>1 DEF IInv, TypeOK
    <3>2. stopped.dayStart = st[c].dayStart \/ stopped.dayStart > st[c].dayStart
      BY <2>2, ResetFacts DEF IInv
    <3> QED  BY <2>2, <3>1, <3>2 DEF Worked
  <2> HIDE DEF stopped
  <2> QED  BY <2>1, <2>2, <2>3, SaveIsQuiet
<1>7. CASE PassChecks(c)
  <2> DEFINE record == AfterDailyReset(c)
  <2>1. /\ UNCHANGED <<kv, knows, base, outgoing, saving, asked, orders>> /\ saving[c] = "no"
        /\ st' = [st EXCEPT ![c] = record] /\ GoTo(c, "scan") /\ record.enabled
    BY <1>7 DEF PassChecks, guarded, At
  <2>2. record \in State
    BY ResetFacts DEF IInv
  <2>3. Worked(st[c], record)
    <3>1. {st[c].trades, orders, orders'} \subseteq Nat /\ orders <= orders'
      BY <1>1, <1>2, <2>1 DEF IInv, TypeOK
    <3> QED  BY <3>1, ResetFacts DEF IInv, Worked
  <2> HIDE DEF record
  <2>4. "scan" \in Stages \ {"idle"}
    BY DEF Stages
  <2>5. Common
    BY <1>2, <2>1, <2>2, <2>3, <2>4, OwnStep
  <2> QED  BY <2>1, <2>5 DEF QuietStep
<1>8. CASE ReturnEarly(c) \/ AiHoldsBack(c)
  <2>1. /\ UNCHANGED <<kv, knows, st, base, outgoing, saving, asked, orders>>
        /\ saving[c] = "no" /\ GoTo(c, "end")
    BY <1>8 DEF ReturnEarly, AiHoldsBack, guarded, history, At
  <2>2. \A d \in Cron : pc'[d] \in {pc[d], "end"}
    BY <2>1 DEF GoTo, IInv, TypeOK
  <2>3. CopiesWorked
    BY <1>2, <2>1, NoCopy DEF IInv
  <2>4. Common
    BY <1>2, <2>1, <2>2, <2>3, BesideCycles
  <2> QED  BY <2>1, <2>4 DEF QuietStep
<1>9. CASE FinishCycle(c)
  <2>1. /\ UNCHANGED <<kv, knows, base, outgoing, asked, orders>> /\ saving[c] = "no"
        /\ SaveGuarded(c, st[c], "end")
    BY <1>9 DEF FinishCycle, history, At
  <2>2. Worked(st[c], st[c])
    BY <1>1, <1>2, <2>1, SameDayWorked DEF IInv
  <2> QED  BY <1>1, <2>1, <2>2, SaveIsQuiet
<1>10. CASE GuardWrite(c)
  <2>1. /\ UNCHANGED <<st, base, asked, orders>>
        /\ saving[c] \in {"write", "merge"}
        /\ saving' = [saving EXCEPT ![c] = "no"]
        /\ outgoing' = [outgoing EXCEPT ![c] = Default]
        /\ Put(outgoing[c]) \/ UNCHANGED <<kv, knows>>
        /\ pc' = pc \/ GoTo(c, "end")
    BY <1>10 DEF GuardWrite
  <2>2. \A d \in Cron : /\ d # c => /\ saving'[d] = saving[d] /\ outgoing'[d] = outgoing[d]
                                    /\ pc'[d] = pc[d]
                        /\ d = c => /\ saving'[d] = "no" /\ outgoing'[d] = Default
                                    /\ pc'[d] \in {pc[d], "end"}
    BY <2>1 DEF GoTo, IInv, TypeOK
  <2>3. CopiesWorked
    BY <1>2, <2>1, NoCopy DEF IInv
  <2>4. Common
    BY <1>2, <2>1, <2>2, <2>3 DEF IInv, Saving, Consented, Common, SavesKept, Kept
  <2>5. outgoing[c] \in State /\ Sound(outgoing[c])
    BY DEF IInv, TypeOK, Consented
  <2> QED  BY <2>1, <2>4, <2>5 DEF PutStep, QuietStep, Sound
<1> QED  BY <1>3, <1>4, <1>5, <1>6, <1>7, <1>8, <1>9, <1>10 DEF CycleStep
LEMMA ScanStepIsOne ==
    ASSUME IInv, TypeOK', NEW p \in Scanner, ScanStep(p)
    PROVE  QuietStep \/ PutStep
<1> USE Members
<1>1. /\ st[p] \in State /\ st[p].trades \in Nat /\ orders \in Nat
      /\ st = [st EXCEPT ![p] = st[p]]
  BY DEF IInv, TypeOK, State
<1>2. orders' \in {orders, orders + 1} => orders <= orders'
  BY <1>1
<1>3. /\ AfterScan(p) \in Stages \ {"idle"} /\ "rank" \in Stages \ {"idle"}
      /\ p \in Cron => AfterScan(p) \notin {"scan", "rank"}
  BY StateAssumption DEF AfterScan, Stages, Scanner
<1>4. p \in Cron /\ pc[p] \in {"scan", "rank"} => st[p].enabled
  BY DEF IInv, Consented
\* The copy is left alone, or one trade is booked in it.
<1>5. ASSUME NEW stage \in {"rank", AfterScan(p)}, GoTo(p, stage),
             pc[p] \in {"scan", "rank"}, saving[p] = "no",
             UNCHANGED <<guarded, asked>>,
             orders' \in {orders, orders + 1},
             \/ UNCHANGED st
             \/ \E d, real \in Int : Book(p, d, real)
      PROVE  Common
  <2>1. stage \in Stages \ {"idle"}
    BY <1>3
  <2>2. CASE UNCHANGED st
    <3>1. Worked(st[p], st[p])
      BY <1>1, <1>2, <1>5, SameDayWorked DEF IInv
    <3> QED  BY <1>1, <1>2, <1>4, <1>5, <2>1, <2>2, <3>1, OwnStep DEF guarded
  <2>3. CASE \E d, real \in Int : Book(p, d, real)
    <3> PICK d \in Int, real \in Int : Book(p, d, real)
      BY <2>3
    <3> DEFINE booked == [st[p] EXCEPT !.pnl = @ + d, !.trades = @ + 1]
    <3>1. st' = [st EXCEPT ![p] = booked] /\ orders' = orders + 1
      BY DEF Book
    <3>2. booked \in State
      BY <1>1, BookedIsState
    <3>3. /\ booked.enabled = st[p].enabled /\ booked.paper = st[p].paper
          /\ booked.trades = st[p].trades + 1 /\ booked.dayStart = st[p].dayStart
          /\ booked.stopped = st[p].stopped
      BY <1>1 DEF State
    <3>4. Worked(st[p], booked)
      BY <1>1, <3>1, <3>3 DEF Worked
    <3> HIDE DEF booked
    <3> QED  BY <1>2, <1>4, <1>5, <2>1, <3>1, <3>2, <3>3, <3>4, OwnStep DEF guarded
  <2> QED  BY <1>5, <2>2, <2>3
<1>6. Results \subseteq Int /\ 1 \in Int
  BY StateAssumption
<1>7. CASE Scan(p)
  <2>1. /\ \E stage \in {"rank", AfterScan(p)} : GoTo(p, stage)
        /\ \/ \E d \in Results : Book(p, d, d)
           \/ UNCHANGED <<st, orders>>
        /\ UNCHANGED <<kv, guarded, knows, asked>>
        /\ pc[p] = "scan" /\ saving[p] = "no"
    BY <1>7 DEF Scan, At
  <2>2. orders' \in {orders, orders + 1}
    BY <2>1 DEF Book
  <2>3. Common
    BY <1>5, <1>6, <2>1, <2>2
  <2> QED  BY <2>1, <2>3 DEF QuietStep
<1>8. CASE ScanAutoStops(p)
  <2> DEFINE record == [st[p] EXCEPT !.stopped = TRUE]
  <2>1. /\ st' = [st EXCEPT ![p] = record]
        /\ Put(record) \/ UNCHANGED <<kv, knows>>
        /\ GoTo(p, AfterScan(p)) /\ pc[p] = "rank" /\ saving[p] = "no"
        /\ UNCHANGED <<guarded, asked, orders>>
    BY <1>8 DEF ScanAutoStops, At
  <2>2. /\ record \in State /\ record.trades = st[p].trades
        /\ record.enabled = st[p].enabled /\ record.paper = st[p].paper
        /\ record.dayStart = st[p].dayStart /\ record.stopped
    BY <1>1 DEF State
  <2> HIDE DEF record
  <2>3. Worked(st[p], record)
    BY <1>1, <1>2, <2>1, <2>2, SameDayWorked DEF IInv
  <2>4. Common
    BY <1>2, <1>3, <2>1, <2>2, <2>3, OwnStep DEF guarded
  <2>5. Sound(st[p])
    BY DEF IInv, Consented
  <2> QED  BY <2>1, <2>2, <2>4, <2>5 DEF PutStep, QuietStep, Sound
<1>9. CASE TradePaper(p)
  <2>1. /\ GoTo(p, AfterScan(p)) /\ pc[p] = "rank" /\ saving[p] = "no"
        /\ UNCHANGED <<kv, st, guarded, knows, orders, asked>>
    BY <1>9 DEF TradePaper, At, history
  <2>2. Common
    BY <1>5, <2>1
  <2> QED  BY <2>1, <2>2 DEF QuietStep
<1>10. CASE TradeLive(p)
  <2>1. /\ GoTo(p, AfterScan(p)) /\ pc[p] = "rank" /\ saving[p] = "no"
        /\ UNCHANGED <<kv, guarded, knows, asked>>
        /\ \/ \E real \in Results : Book(p, 1, real)
           \/ UNCHANGED st /\ orders' = orders + 1
    BY <1>10 DEF TradeLive, At
  <2>2. orders' \in {orders, orders + 1}
    BY <2>1 DEF Book
  <2>3. Common
    BY <1>5, <1>6, <2>1, <2>2
  <2> QED  BY <2>1, <2>3 DEF QuietStep
<1> QED  BY <1>7, <1>8, <1>9, <1>10 DEF ScanStep

\* The steps of everybody else.
LEMMA OtherStepIsOne ==
    ASSUME IInv, TypeOK',
           \/ \E p \in Chat \union Api \union Request : Load(p)
           \/ \E p \in Chat : SaveChat(p)
           \/ \E r \in Request : Command(r) \/ FailReply(r)
           \/ \E p \in Proc : Die(p)
           \/ Tick
           \/ UNCHANGED vars
    PROVE  QuietStep \/ PutStep \/ LoadStep
<1> USE Members, CronApart
<1>1. orders' = orders => orders <= orders'
  BY DEF IInv, TypeOK
\* A step that leaves the copies and at most ends an invocation and its save.
<1>2. ASSUME UNCHANGED <<st, base, outgoing, orders>>, asked \subseteq asked',
             \A c \in Cron : /\ pc'[c] \in {pc[c], "end"}
                             /\ saving'[c] \in {saving[c], "no"}
      PROVE  Common
  <2>1. CopiesWorked
    BY <1>1, <1>2, NoCopy DEF IInv
  <2> QED  BY <1>1, <1>2, <2>1, BesideCycles
<1>3. ASSUME NEW p \in Proc, GoTo(p, "end")
      PROVE  \A c \in Cron : pc'[c] \in {pc[c], "end"}
  BY <1>3 DEF GoTo, IInv, TypeOK
<1>4. CASE \E p \in Chat \union Api \union Request : Load(p)
  <2> PICK p \in Chat \union Api \union Request : Load(p)
    BY <1>4
  <2>1. PICK record \in Loads : st' = [st EXCEPT ![p] = record] /\ Learn(p, LoadTopics, record)
    BY DEF Load
  <2>2. \A q \in Proc \ {p} : pc'[q] = pc[q]
    BY DEF Load, GoTo, IInv, TypeOK
  <2>3. UNCHANGED <<kv, base, saving, outgoing, asked, orders>>
    BY DEF Load, guarded
  <2>4. p \in Proc /\ p \notin Cron
    OBVIOUS
  <2> QED  BY <2>1, <2>2, <2>3, <2>4 DEF LoadStep
<1>5. CASE \E p \in Chat : SaveChat(p)
  <2> PICK p \in Chat : SaveChat(p)
    BY <1>5
  <2>1. /\ Put(st[p]) \/ UNCHANGED <<kv, knows>>
        /\ GoTo(p, "end") /\ UNCHANGED <<st, base, saving, outgoing, orders, asked>>
    BY DEF SaveChat, guarded
  <2>2. Common
    BY <1>2, <1>3, <2>1
  <2>3. st[p] \in State /\ Sound(st[p])
    BY DEF IInv, TypeOK, Consented
  <2> QED  BY <2>1, <2>2, <2>3 DEF PutStep, QuietStep, Sound
<1>6. CASE \E r \in Request : Command(r)
  <2> PICK r \in Request : Command(r)
    BY <1>6
  <2>1. PICK record \in State \union {NoState} :
          /\ Put(record) /\ GoTo(r, "end")
          /\ UNCHANGED <<st, guarded, orders>>
          /\ asked \subseteq asked'
          /\ record \in State =>
               /\ record.trades = st[r].trades
               /\ record.enabled = st[r].enabled \/ ~record.enabled \/ "start" \in asked'
               /\ record.paper = st[r].paper \/ record.paper \/ "live" \in asked'
    BY StateAssumption, CommandFacts DEF IInv
  <2>2. Common
    BY <1>2, <1>3, <2>1 DEF guarded
  <2>3. Sound(st[r]) /\ st[r] \in State
    BY DEF IInv, TypeOK, Consented
  <2> QED  BY <2>1, <2>2, <2>3 DEF PutStep, Sound
<1>7. CASE \E r \in Request : FailReply(r)
  <2>1. Common
    BY <1>2, <1>3, <1>7 DEF FailReply, guarded, history
  <2> QED  BY <1>7, <2>1 DEF FailReply, history, QuietStep
<1>8. CASE \E p \in Proc : Die(p)
  <2> PICK p \in Proc : Die(p)
    BY <1>8
  <2>1. \A c \in Cron : saving'[c] \in {saving[c], "no"}
    BY DEF Die
  <2>2. Common
    BY <1>2, <1>3, <2>1 DEF Die, history
  <2> QED  BY <2>2 DEF Die, history, QuietStep
<1>9. CASE Tick \/ UNCHANGED vars
  <2>1. UNCHANGED <<kv, pc, st, guarded, history>>
    BY <1>9 DEF Tick, vars
  <2>2. Common
    BY <1>2, <2>1 DEF guarded, history
  <2> QED  BY <2>1, <2>2 DEF history, QuietStep
<1> QED  BY <1>4, <1>5, <1>6, <1>7, <1>8, <1>9

-----------------------------------------------------------------------------
(* The invariant *)

LEMMA InvInit == Init => IInv
<1> SUFFICES ASSUME Init PROVE IInv
  OBVIOUS
<1>1. TypeOK /\ Stored \in State
  BY TypeInit, LoadsAreStates DEF TypeOK
<1>2. Sound(Stored)
  <2>1. Stored.trades \in Nat /\ orders = Stored.trades
    BY <1>1 DEF State, Init
  <2> QED  BY <2>1 DEF Sound, Init
<1>3. Sound(Default)
  BY <1>1 DEF Sound, Default, TypeOK
<1>4. Saving /\ Consented
  BY <1>2, <1>3, Members DEF Saving, Consented, Init
<1>5. Known
  BY DEF Known, OffKnown, StopKnown, ConfigKnown, Init, Topics, LoadTopics, GuardTopics
<1> QED  BY <1>1, <1>4, <1>5 DEF IInv

LEMMA InvStep ==
    ASSUME IInv, [Next]_vars
    PROVE  IInv'
<1>1. TypeOK'
  BY TypeStep DEF IInv
<1>2. \/ QuietStep \/ PutStep \/ LoadStep
      \/ \E c \in Cron : GuardRead(c)
  BY <1>1, CycleStepIsOne, ScanStepIsOne, OtherStepIsOne DEF Next, Finished
<1> QED
  BY <1>1, <1>2, QuietStepKeeps, PutStepKeeps, LoadStepKeeps, GuardReadKeeps

LEMMA Invariant == Spec => []IInv
<1>1. IInv /\ [Next]_vars => IInv'
  BY InvStep
<1> QED  BY <1>1, InvInit, PTL DEF Spec
-----------------------------------------------------------------------------
(* The properties *)

\* Neither live trading nor a cron cycle's scan happens unless the operator once
\* asked for it, for any number of invocations and any faults of the store.
THEOREM UnaskedNever == Spec => []NothingUnasked
<1>1. IInv => NothingUnasked
  BY Members DEF IInv, Consented, Sound, NothingUnasked
<1> QED  BY <1>1, Invariant, PTL

\* No trade is counted twice, in the store or in any copy.
THEOREM BookedOnce == Spec => []NoTradeBookedTwice
<1>1. IInv => NoTradeBookedTwice
  BY Members DEF IInv, Consented, Sound, NoTradeBookedTwice
<1> QED  BY <1>1, Invariant, PTL

\* A step that changes the stored record is one invocation's, which puts a record.
LEMMA OnlyPutsChange ==
    ASSUME IInv, [Next]_vars, Stored' # Stored
    PROVE  \/ \E c \in Cron : GuardWrite(c) /\ Stored' = outgoing[c]
           \/ \E p \in Scanner : /\ ScanAutoStops(p) /\ saving[p] = "no"
                                 /\ Stored' = [st[p] EXCEPT !.stopped = TRUE]
           \/ \E p \in Chat : SaveChat(p) /\ Stored' = st[p]
           \/ \E r \in Request : Command(r)
<1> USE Members DEF IInv
<1> knows \in [Topics -> SUBSET Proc]
  BY DEF TypeOK
<1>1. ASSUME NEW record \in State, Put(record)
      PROVE  Stored' = record
  BY <1>1, PutFacts, ViewIsState
<1>2. UNCHANGED kv => Stored' = Stored
  BY DEF Stored, View, Default
<1>3. CASE \E c \in Cron : CycleStep(c)
  <2> PICK c \in Cron : CycleStep(c)
    BY <1>3
  <2>1. GuardWrite(c)
    BY <1>2 DEF CycleStep, LoadCycle, EnforceSpotLock, EnforceCoreStrategies, ReturnEarly,
                StopOnDailyLoss, PassChecks, GuardRead, AiHoldsBack, FinishCycle
  <2>2. outgoing[c] \in State
    BY DEF TypeOK
  <2>3. Put(outgoing[c])
    BY <1>2, <2>1 DEF GuardWrite
  <2> QED  BY <1>1, <2>1, <2>2, <2>3
<1>4. CASE \E p \in Scanner : ScanStep(p)
  <2> PICK p \in Scanner : ScanStep(p)
    BY <1>4
  <2>1. ScanAutoStops(p)
    BY <1>2 DEF ScanStep, Scan, TradePaper, TradeLive
  <2> DEFINE record == [st[p] EXCEPT !.stopped = TRUE]
  <2>2. record \in State
    <3>1. st[p] \in State
      BY DEF TypeOK
    <3> QED  BY <3>1 DEF State
  <2>3. Put(record) /\ saving[p] = "no"
    BY <1>2, <2>1 DEF ScanAutoStops, At
  <2>4. Stored' = record
    BY <1>1, <2>2, <2>3
  <2> QED  BY <2>1, <2>3, <2>4
<1>5. CASE \E p \in Chat : SaveChat(p)
  <2> PICK p \in Chat : SaveChat(p)
    BY <1>5
  <2>1. st[p] \in State
    BY DEF TypeOK
  <2>2. Put(st[p])
    BY <1>2 DEF SaveChat
  <2> QED  BY <1>1, <2>1, <2>2
<1>6. CASE \E p \in Chat \union Api \union Request : Load(p)
  BY <1>2, <1>6 DEF Load
<1>7. CASE \E r \in Request : FailReply(r)
  BY <1>2, <1>7 DEF FailReply
<1>8. CASE \E p \in Proc : Die(p)
  BY <1>2, <1>8 DEF Die
<1>9. CASE Tick \/ UNCHANGED vars
  BY <1>2, <1>9 DEF Tick, vars
<1> QED  BY <1>3, <1>4, <1>5, <1>6, <1>7, <1>8, <1>9 DEF Next, Finished

\* Trading that was switched off comes back only by the operator's start or from
\* a writer that read the store before: no write after a fresh read revives it.
THEOREM OffIsUndoneByStaleCopies == Spec => OffUndoneOnlyByStaleCopy
<1> DEFINE Revived == ~Stored.enabled /\ Stored'.enabled =>
                        \/ \E r \in Request : StartTrading(r) \/ ChatLive(r)
                        \/ \E p \in Proc : Puts(p) /\ ReadBeforeOff(p)
<1>1. ASSUME IInv, [Next]_vars, ~Stored.enabled, Stored'.enabled
      PROVE  \/ \E r \in Request : StartTrading(r) \/ ChatLive(r)
             \/ \E p \in Proc : Puts(p) /\ ReadBeforeOff(p)
  <2> USE Members, CronApart
  <2>1. CASE \E c \in Cron : GuardWrite(c) /\ Stored' = outgoing[c]
    <3> PICK c \in Cron : GuardWrite(c) /\ Stored' = outgoing[c]
      BY <2>1
    <3>1. Puts(c) /\ saving[c] \in {"write", "merge"} /\ outgoing[c].enabled
      BY <1>1 DEF Puts, GuardWrite
    <3>2. ReadBeforeOff(c)
      BY <1>1, <3>1 DEF ReadBeforeOff, IInv, Known, OffKnown, Saving
    <3> QED  BY <3>1, <3>2
  <2>2. CASE \E p \in Scanner : /\ ScanAutoStops(p) /\ saving[p] = "no"
                                /\ Stored' = [st[p] EXCEPT !.stopped = TRUE]
    <3> PICK p \in Scanner : /\ ScanAutoStops(p) /\ saving[p] = "no"
                             /\ Stored' = [st[p] EXCEPT !.stopped = TRUE]
      BY <2>2
    <3>1. st[p] \in State /\ st[p].enabled
      BY <1>1 DEF IInv, TypeOK, State
    <3>2. ReadBeforeOff(p)
      BY <1>1, <3>1 DEF ReadBeforeOff, IInv, Known, OffKnown
    <3> QED  BY <3>2 DEF Puts
  <2>3. CASE \E p \in Chat : SaveChat(p) /\ Stored' = st[p]
    <3> PICK p \in Chat : SaveChat(p) /\ Stored' = st[p]
      BY <2>3
    <3>1. ReadBeforeOff(p)
      BY <1>1 DEF ReadBeforeOff, IInv, Known, OffKnown
    <3> QED  BY <3>1 DEF Puts
  <2>4. CASE \E r \in Request : Command(r)
    <3> PICK r \in Request : Command(r)
      BY <2>4
    <3>1. PICK record \in State \union {NoState} :
            /\ Put(record)
            /\ \/ record = NoState
               \/ /\ record \in State
                  /\ \/ record.enabled = st[r].enabled \/ ~record.enabled
                     \/ StartTrading(r) \/ ChatLive(r)
      BY <1>1, CommandFacts DEF IInv
    <3>2. Stored' = View(record)
      BY <1>1, <3>1, PutFacts DEF IInv, TypeOK
    <3>3. record \in State /\ record.enabled
      BY <1>1, <3>1, <3>2, ViewIsState DEF Default
    <3>4. CASE st[r].enabled
      <4>1. ReadBeforeOff(r)
        BY <1>1, <3>4 DEF ReadBeforeOff, IInv, Known, OffKnown
      <4> QED  BY <4>1 DEF Puts
    <3>5. st[r].enabled \/ StartTrading(r) \/ ChatLive(r)
      BY <3>1, <3>3, StateAssumption, Zenon
    <3> QED  BY <3>4, <3>5
  <2> QED  BY <1>1, <2>1, <2>2, <2>3, <2>4, OnlyPutsChange
<1>2. IInv /\ [Next]_vars => [Revived]_vars
  BY <1>1
<1> QED  BY <1>2, Invariant, PTL DEF Spec, OffUndoneOnlyByStaleCopy

\* An auto-stop is cleared only by a command that clears it, on a later day, or
\* by a writer that read the store before the stop.
THEOREM AutoStopIsUndoneByStaleCopies == Spec => AutoStopUndoneOnlyByStaleCopy
<1> DEFINE Excused == \/ \E r \in Request : StartTrading(r) \/ ModePaper(r) \/ ChatLive(r) \/ Reset(r)
                      \/ Stored'.dayStart > Stored.dayStart
                      \/ \E p \in Proc : Puts(p) /\ p \notin knows["stopped"]
<1>1. ASSUME IInv, [Next]_vars, Stored.stopped, ~Stored'.stopped
      PROVE  Excused
  <2> USE Members
  <2>1. ASSUME NEW p \in Proc, Puts(p), Stored'.dayStart = st[p].dayStart, ~st[p].stopped
        PROVE  Excused
    BY <1>1, <2>1 DEF IInv, Known, StopKnown
  <2>2. CASE \E c \in Cron : GuardWrite(c) /\ Stored' = outgoing[c]
    <3> PICK c \in Cron : GuardWrite(c) /\ Stored' = outgoing[c]
      BY <2>2
    <3>1. Puts(c) /\ saving[c] \in {"write", "merge"}
      BY DEF Puts, GuardWrite
    <3>2. outgoing[c].stopped = st[c].stopped /\ outgoing[c].dayStart = st[c].dayStart
      BY <1>1, <3>1 DEF IInv, Saving
    <3> QED  BY <1>1, <2>1, <3>1, <3>2
  <2>3. CASE \E p \in Scanner : /\ ScanAutoStops(p) /\ saving[p] = "no"
                                /\ Stored' = [st[p] EXCEPT !.stopped = TRUE]
    BY <1>1, <2>3 DEF IInv, TypeOK, State
  <2>4. CASE \E p \in Chat : SaveChat(p) /\ Stored' = st[p]
    BY <1>1, <2>1, <2>4 DEF Puts
  <2>5. CASE \E r \in Request : Command(r)
    <3> PICK r \in Request : Command(r)
      BY <2>5
    <3>1. PICK record \in State \union {NoState} :
            /\ Put(record)
            /\ \/ record = NoState /\ Reset(r)
               \/ /\ record \in State /\ record.dayStart = st[r].dayStart
                  /\ \/ record.stopped = st[r].stopped
                     \/ StartTrading(r) \/ ModePaper(r) \/ ChatLive(r)
      BY <1>1, CommandFacts DEF IInv
    <3>2. Stored' = View(record)
      BY <1>1, <3>1, PutFacts DEF IInv, TypeOK
    <3>3. record \in State => Stored' = record
      BY <3>2, ViewIsState
    <3> QED  BY <1>1, <2>1, <3>1, <3>3 DEF Puts
  <2> QED  BY <1>1, <2>2, <2>3, <2>4, <2>5, OnlyPutsChange
<1> HIDE DEF Excused
<1>2. IInv /\ [Next]_vars => [Stored.stopped /\ ~Stored'.stopped => Excused]_vars
  BY <1>1
<1> QED  BY <1>2, Invariant, PTL DEF Spec, AutoStopUndoneOnlyByStaleCopy, Excused

\* A guarded save that has seen the last configuration keeps it if it is newer
\* than the cycle.
THEOREM NewerConfigIsKept == Spec => GuardedSaveKeepsNewerConfig
<1>1. ASSUME IInv, [Next]_vars, NEW c \in Cron, GuardWrite(c), Stored.cfgTs > base[c],
             Stored'.cfg # Stored.cfg
      PROVE  c \notin knows["config"]
  <2>1. outgoing[c] \in State /\ knows \in [Topics -> SUBSET Proc]
    BY <1>1 DEF IInv, TypeOK
  <2>2. UNCHANGED kv => Stored' = Stored
    BY DEF Stored, View, Default
  <2>3. Put(outgoing[c]) /\ saving[c] \in {"write", "merge"}
    BY <1>1, <2>2 DEF GuardWrite
  <2>4. Stored' = outgoing[c]
    BY <2>1, <2>3, PutFacts, ViewIsState
  <2>5. Stored.cfgTs \in Nat /\ base[c] \in Nat
    BY <1>1, LoadsAreStates DEF IInv, TypeOK, State
  <2> QED  BY <1>1, <2>3, <2>4, <2>5 DEF IInv, Known, ConfigKnown
<1>2. IInv /\ [Next]_vars =>
        [\A c \in Cron : GuardWrite(c) /\ Stored.cfgTs > base[c] /\ Stored'.cfg # Stored.cfg
                           => c \notin knows["config"]]_vars
  BY <1>1
<1> QED  BY <1>2, Invariant, PTL DEF Spec, GuardedSaveKeepsNewerConfig
=============================================================================
