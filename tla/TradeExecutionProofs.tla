------------------------ MODULE TradeExecutionProofs ------------------------
(***************************************************************************)
(* Theorems about TradeExecution, for any jobs, proxies, retries and       *)
(* passes, with exchanges that fill and do not say so, gateways that answer*)
(* in their place and workers that die.                                    *)
(*                                                                         *)
(* None of the properties is inductive: that a job awaits its sell says    *)
(* nothing about its buy.  The strengthening ties the stage of a job to    *)
(* the orders filled by then, or taken to be (Answered), and, as long as   *)
(* no answer was lost, to those certainly not filled yet (FilledOnce).     *)
(***************************************************************************)
EXTENDS TradeExecution, TLAPS

\* The stages a job of each strategy goes through.
OnPath(j) ==
    /\ Hedged => at[j] \in {"check", "buy", "sell", "hedge",
                            "refused", "traded", "closed", "exposed"}
    /\ strategy = "triangular" => at[j] \in {"check", "leg1", "leg2", "leg3",
                                             "refused", "traded", "failed"}
    /\ strategy = "perps" => at[j] \in {"check", "open", "refused", "traded", "failed"}
    /\ strategy = "statistical" => at[j] \in {"check", "buy", "sell", "traded", "failed"}

\* What was made when a job is at a stage: a perpetual order was really filled.
Answered(j) ==
    /\ Hedged =>
         /\ at[j] \in {"sell", "hedge", "exposed", "traded", "closed"}
              => Made(j, "buy")
         /\ at[j] = "traded" => Made(j, "sell")
         /\ at[j] = "closed" => Made(j, "hedge")
    /\ strategy = "triangular" =>
         /\ at[j] \in {"leg2", "leg3", "traded"} => Made(j, "leg1")
         /\ at[j] \in {"leg3", "traded"} => Made(j, "leg2")
         /\ at[j] = "traded" => Made(j, "leg3")
    /\ strategy = "perps" /\ at[j] = "traded" => fills[j]["open"] >= 1

\* What was filled at most once, and what not at all, while no answer is lost.
FilledOnce(j) == j \notin lost =>
    /\ \A o \in Orders : fills[j][o] \in {0, 1}
    /\ at[j] \in {"check", "buy", "refused"} => fills[j]["buy"] = 0
    /\ at[j] \notin {"traded", "failed"} => fills[j]["sell"] = 0
    /\ at[j] # "closed" => fills[j]["hedge"] = 0
    /\ at[j] \in {"check", "leg1"} => fills[j]["leg1"] = 0
    /\ at[j] \in {"check", "leg1", "leg2"} => fills[j]["leg2"] = 0
    /\ at[j] \in {"check", "leg1", "leg2", "leg3"} => fills[j]["leg3"] = 0
    /\ at[j] \in {"check", "open"} => fills[j]["open"] = 0

Booking == trade = "booked" /\ ~Batched => at[Main] = "traded"

JobInv(j) == OnPath(j) /\ Answered(j) /\ FilledOnce(j)

IInv == TypeOK /\ (\A j \in Job : JobInv(j)) /\ Booking

-----------------------------------------------------------------------------
LEMMA InitIInv == Init => IInv
  BY ExecutionAssumption
  DEF Init, IInv, JobInv, TypeOK, OnPath, Answered, FilledOnce,
      Booking, Hedged, Batched, Strategies, Orders, JobEnds, TradeEnds

-----------------------------------------------------------------------------
(* Typing. *)

Stage == {"check"} \union Orders \union JobEnds

JobsType == /\ at \in [Job -> Stage]
            /\ sends \in [Job -> Nat] /\ (\A j \in Job : sends[j] < MaxSends[j])
            /\ tries \in [Job -> Nat] /\ (\A j \in Job : tries[j] <= MaxRetries[j])
            /\ pass \in [Job -> Nat \ {0}] /\ (\A j \in Job : pass[j] <= MaxPasses[j])

FillsType == fills \in [Job -> [Orders -> Nat]] /\ lost \subseteq Job
MisreadType == misread \in [Job -> SUBSET Orders]

\* Every order a job goes on to is one.
LEMMA NextStages ==
    ASSUME NEW j \in Job
    PROVE  FirstOrder(j) \in Stage /\ AfterAnswer(j) \in Stage /\ AfterThrow(j) \in Stage
BY DEF FirstOrder, AfterAnswer, AfterThrow, Stage, Orders, JobEnds

\* The bounds of a job.
LEMMA Maxes ==
    ASSUME NEW j \in Job
    PROVE  /\ MaxSends[j] \in Nat /\ 0 < MaxSends[j]
           /\ MaxRetries[j] \in Nat
           /\ MaxPasses[j] \in Nat /\ 1 <= MaxPasses[j]
<1>1. MaxSends[j] \in Nat \ {0} /\ MaxRetries[j] \in Nat /\ MaxPasses[j] \in Nat \ {0}
    BY ExecutionAssumption
<1>2. QED
    BY <1>1

LEMMA LeaveType ==
    ASSUME TypeOK, NEW j \in Job, NEW next \in Stage, Leave(j, next)
    PROVE  JobsType'
<1>1. at' \in [Job -> Stage] /\ sends' \in [Job -> Nat] /\ tries' \in [Job -> Nat]
      /\ pass' \in [Job -> Nat \ {0}]
    BY DEF TypeOK, Stage, Leave
<1>2. ASSUME NEW k \in Job
      PROVE  sends'[k] < MaxSends[k] /\ tries'[k] <= MaxRetries[k] /\ pass'[k] <= MaxPasses[k]
    <2>1. \/ k = j /\ sends'[k] = 0 /\ tries'[k] = 0 /\ pass'[k] = 1
          \/ sends'[k] = sends[k] /\ tries'[k] = tries[k] /\ pass'[k] = pass[k]
        BY DEF TypeOK, Leave
    <2>2. QED
        BY <2>1, Maxes DEF TypeOK
<1>3. QED
    BY <1>1, <1>2 DEF JobsType

LEMMA PassFailedType ==
    ASSUME TypeOK, NEW j \in Job, PassFailed(j)
    PROVE  JobsType'
<1>1. CASE Leave(j, AfterThrow(j))
    BY <1>1, NextStages, LeaveType
<1>2. CASE /\ pass[j] < MaxPasses[j]
           /\ pass' = [pass EXCEPT ![j] = @ + 1]
           /\ tries' = [tries EXCEPT ![j] = 0]
           /\ sends' = [sends EXCEPT ![j] = 0]
           /\ UNCHANGED at
    <2>1. at' \in [Job -> Stage] /\ sends' \in [Job -> Nat] /\ tries' \in [Job -> Nat]
          /\ pass' \in [Job -> Nat \ {0}]
        BY <1>2 DEF TypeOK, Stage
    <2>2. ASSUME NEW k \in Job
          PROVE  sends'[k] < MaxSends[k] /\ tries'[k] <= MaxRetries[k]
                 /\ pass'[k] <= MaxPasses[k]
        <3>1. \/ k = j /\ sends'[k] = 0 /\ tries'[k] = 0 /\ pass'[k] = pass[k] + 1
              \/ sends'[k] = sends[k] /\ tries'[k] = tries[k] /\ pass'[k] = pass[k]
            BY <1>2 DEF TypeOK
        <3>2. sends[k] < MaxSends[k] /\ tries[k] <= MaxRetries[k] /\ pass[k] <= MaxPasses[k]
              /\ pass[k] \in Nat
            BY DEF TypeOK
        <3>3. QED
            BY <1>2, <3>1, <3>2, Maxes
    <2>3. QED
        BY <2>1, <2>2 DEF JobsType
<1>3. QED
    BY <1>1, <1>2 DEF PassFailed

LEMMA FilledType ==
    ASSUME TypeOK, NEW j \in Job, at[j] \in Orders, Filled(j)
    PROVE  fills' \in [Job -> [Orders -> Nat]]
BY DEF TypeOK, Filled

LEMMA FilledOrNotType ==
    ASSUME TypeOK, NEW j \in Job, at[j] \in Orders, FilledOrNot(j)
    PROVE  FillsType'
BY FilledType DEF TypeOK, FilledOrNot, FillsType

LEMMA TypeStep == TypeOK /\ [Next]_vars => TypeOK'
<1> SUFFICES ASSUME TypeOK, [Next]_vars PROVE TypeOK'
    OBVIOUS
<1>0. JobsType /\ FillsType /\ MisreadType
    BY DEF TypeOK, JobsType, FillsType, MisreadType, Stage
<1>q. /\ "running" \in {"idle", "running"} \union TradeEnds
      /\ {"booked", "unbooked", "dead"} = TradeEnds
      /\ "refused" \in Stage
    BY DEF TradeEnds, Stage, JobEnds
<1>t. (/\ strategy' \in Strategies
       /\ trade' \in {"idle", "running"} \union TradeEnds
       /\ JobsType' /\ FillsType' /\ MisreadType') => TypeOK'
    BY DEF TypeOK, JobsType, FillsType, MisreadType, Stage
<1>1. CASE Begin
    BY <1>0, <1>1, <1>q, <1>t DEF Begin, TypeOK, JobsType, FillsType, MisreadType, loopVars, historyVars
<1>2. ASSUME NEW j \in Job, PassChecks(j) PROVE TypeOK'
    <2>1. JobsType'
        BY <1>2, NextStages, LeaveType DEF PassChecks
    <2>2. QED
        BY <1>0, <1>2, <2>1, <1>t DEF PassChecks, TypeOK, FillsType, MisreadType, historyVars
<1>3. ASSUME NEW j \in Job, FailChecks(j) PROVE TypeOK'
    <2>1. JobsType'
        <3>1. CASE strategy = "statistical"
            BY <1>0, <1>3, <3>1 DEF FailChecks, JobsType, loopVars
        <3>2. CASE strategy # "statistical"
            BY <1>3, <1>q, <3>2, LeaveType DEF FailChecks
        <3>3. QED
            BY <3>1, <3>2
    <2>2. trade' \in {"idle", "running"} \union TradeEnds
        BY <1>3, <1>q DEF FailChecks, TypeOK
    <2>3. QED
        BY <1>0, <1>3, <2>1, <2>2, <1>t DEF FailChecks, TypeOK, FillsType, MisreadType, historyVars
<1>4. ASSUME NEW j \in Job, Answer(j) PROVE TypeOK'
    <2>1. JobsType'
        BY <1>4, NextStages, LeaveType DEF Answer
    <2>2. FillsType'
        BY <1>0, <1>4, FilledType DEF Answer, Awaiting, FillsType
    <2>3. QED
        BY <1>0, <1>4, <2>1, <2>2, <1>t DEF Answer, TypeOK, MisreadType
<1>4a. ASSUME NEW j \in Job, AnswerForeign(j) PROVE TypeOK'
    <2>1. JobsType'
        BY <1>4a, NextStages, LeaveType DEF AnswerForeign
    <2>2. FillsType'
        BY <1>4a, FilledOrNotType DEF AnswerForeign, Awaiting
    <2>3. MisreadType'
        BY <1>0, <1>4a DEF AnswerForeign, Awaiting, MisreadType
    <2>4. QED
        BY <1>4a, <2>1, <2>2, <2>3, <1>t DEF AnswerForeign, TypeOK
<1>5. ASSUME NEW j \in Job, Reject(j) PROVE TypeOK'
    <2>1. JobsType'
        BY <1>5, PassFailedType DEF Reject
    <2>2. QED
        BY <1>0, <1>5, <2>1, <1>t DEF Reject, TypeOK, FillsType, MisreadType, historyVars
<1>5a. ASSUME NEW j \in Job, Resend(j) PROVE TypeOK'
    <2>1. FillsType'
        BY <1>5a, FilledOrNotType DEF Resend, Awaiting
    <2>2. JobsType'
        <3>1. UNCHANGED <<at, tries, pass>> /\ sends' \in [Job -> Nat]
            BY <1>5a DEF Resend, TypeOK
        <3>2. ASSUME NEW k \in Job PROVE sends'[k] < MaxSends[k]
            <4>1. sends[k] \in Nat /\ MaxSends[k] \in Nat /\ sends[k] < MaxSends[k]
                BY Maxes DEF TypeOK
            <4>2. QED
                BY <1>5a, <4>1 DEF Resend, TypeOK
        <3>3. QED
            BY <1>0, <3>1, <3>2 DEF JobsType
    <2>3. QED
        BY <1>0, <1>5a, <2>1, <2>2, <1>t DEF Resend, TypeOK, MisreadType
<1>6. ASSUME NEW j \in Job, FailAttempt(j) PROVE TypeOK'
    <2>1. FillsType'
        BY <1>6, FilledOrNotType DEF FailAttempt, Awaiting
    <2>2. JobsType'
        <3>1. CASE PassFailed(j)
            BY <3>1, PassFailedType
        <3>2. CASE /\ tries[j] < MaxRetries[j]
                   /\ tries' = [tries EXCEPT ![j] = @ + 1]
                   /\ sends' = [sends EXCEPT ![j] = 0]
                   /\ UNCHANGED <<at, pass>>
            <4>1. UNCHANGED <<at, pass>> /\ sends' \in [Job -> Nat] /\ tries' \in [Job -> Nat]
                BY <3>2 DEF TypeOK
            <4>2. ASSUME NEW k \in Job
                  PROVE  sends'[k] < MaxSends[k] /\ tries'[k] <= MaxRetries[k]
                <5>1. \/ k = j /\ sends'[k] = 0 /\ tries'[k] = tries[k] + 1
                      \/ sends'[k] = sends[k] /\ tries'[k] = tries[k]
                    BY <3>2 DEF TypeOK
                <5>2. sends[k] < MaxSends[k] /\ tries[k] <= MaxRetries[k] /\ tries[k] \in Nat
                    BY DEF TypeOK
                <5>3. QED
                    BY <3>2, <5>1, <5>2, Maxes
            <4>3. QED
                BY <1>0, <4>1, <4>2 DEF JobsType
        <3>3. QED
            BY <1>6, <3>1, <3>2 DEF FailAttempt
    <2>3. QED
        BY <1>0, <1>6, <2>1, <2>2, <1>t DEF FailAttempt, TypeOK, MisreadType
<1>7. ASSUME NEW j \in Job, TimeOut(j) PROVE TypeOK'
    <2>1. FillsType'
        BY <1>7, FilledOrNotType DEF TimeOut, Awaiting
    <2>2. JobsType'
        BY <1>7, PassFailedType DEF TimeOut
    <2>3. QED
        BY <1>0, <1>7, <2>1, <2>2, <1>t DEF TimeOut, TypeOK, MisreadType
<1>8. CASE Conclude
    BY <1>0, <1>8, <1>q, <1>t DEF Conclude, TypeOK, JobsType, FillsType, MisreadType,
                                loopVars, historyVars
<1>9. CASE Die
    BY <1>0, <1>9, <1>q, <1>t DEF Die, TypeOK, JobsType, FillsType, MisreadType,
                                loopVars, historyVars
<1>10. CASE UNCHANGED vars
    BY <1>0, <1>10, <1>t DEF vars, TypeOK, JobsType, FillsType, MisreadType,
                            loopVars, historyVars
<1>11. QED
    BY <1>1, <1>2, <1>3, <1>4, <1>4a, <1>5, <1>5a, <1>6, <1>7, <1>8, <1>9, <1>10
    DEF Next, JobStep, Finished

-----------------------------------------------------------------------------
(* What one job does. *)

\* Where a job goes, strategy by strategy.
LEMMA Routes ==
    ASSUME NEW j \in Job, strategy \in Strategies, OnPath(j)
    PROVE  /\ Hedged => /\ FirstOrder(j) = "buy"
                        /\ at[j] = "buy" => AfterAnswer(j) = "sell" /\ AfterThrow(j) = "refused"
                        /\ at[j] = "sell" => AfterAnswer(j) = "traded" /\ AfterThrow(j) = "hedge"
                        /\ at[j] = "hedge" => AfterAnswer(j) = "closed" /\ AfterThrow(j) = "exposed"
           /\ strategy = "triangular" =>
                /\ FirstOrder(j) = "leg1"
                /\ at[j] \in Orders => AfterThrow(j) = "failed"
                /\ at[j] = "leg1" => AfterAnswer(j) = "leg2"
                /\ at[j] = "leg2" => AfterAnswer(j) = "leg3"
                /\ at[j] = "leg3" => AfterAnswer(j) = "traded"
           /\ strategy = "perps" =>
                /\ FirstOrder(j) = "open"
                /\ at[j] \in Orders => AfterThrow(j) = "failed" /\ AfterAnswer(j) = "traded"
           /\ strategy = "statistical" =>
                /\ FirstOrder(j) \in {"buy", "sell"}
                /\ at[j] \in Orders => AfterThrow(j) = "failed" /\ AfterAnswer(j) = "traded"
<1> USE DEF FirstOrder, AfterAnswer, AfterThrow
<1>1. CASE Hedged
    <2>1. strategy \notin {"triangular", "perps", "statistical"}
        BY <1>1 DEF Hedged
    <2>2. QED
        BY <1>1, <2>1
<1>2. CASE strategy = "triangular"
    <2>0. ~Hedged
        BY <1>2 DEF Hedged
    <2>1. at[j] \in Orders => at[j] \in {"leg1", "leg2", "leg3"}
        BY <1>2 DEF OnPath, Orders
    <2>2. FirstOrder(j) = "leg1"
        BY <1>2, <2>0
    <2>3. QED
        BY <1>2, <2>0, <2>1, <2>2
<1>3. CASE strategy = "perps"
    <2>0. ~Hedged
        BY <1>3 DEF Hedged
    <2>1. at[j] \in Orders => at[j] = "open"
        BY <1>3 DEF OnPath, Orders
    <2>2. FirstOrder(j) = "open"
        BY <1>3, <2>0
    <2>3. QED
        BY <1>3, <2>0, <2>1, <2>2
<1>4. CASE strategy = "statistical"
    <2>0. ~Hedged
        BY <1>4 DEF Hedged
    <2>1. at[j] \in Orders => at[j] \in {"buy", "sell"}
        BY <1>4 DEF OnPath, Orders
    <2>2. QED
        BY <1>4, <2>0, <2>1
<1>5. QED
    BY <1>1, <1>2, <1>3, <1>4 DEF Strategies, Hedged

\* A job whose stage, fills and answers a step leaves alone keeps what it had.
LEMMA Untouched ==
    ASSUME NEW k \in Job, JobInv(k), strategy' = strategy,
           at'[k] = at[k], fills'[k] = fills[k], k \in lost' <=> k \in lost,
           misread'[k] = misread[k]
    PROVE  JobInv(k)'
BY DEF JobInv, OnPath, Answered, Made, FilledOnce, Hedged

\* The order a job awaits is made by its answer, the exchange's or another's.
LEMMA AnswerKeeps ==
    ASSUME TypeOK, NEW j \in Job, JobInv(j), Answer(j) \/ AnswerForeign(j)
    PROVE  JobInv(j)'
<1> DEFINE a == at[j]
<1>0. /\ a \in Orders /\ j \in Job /\ fills \in [Job -> [Orders -> Nat]]
      /\ misread \in [Job -> SUBSET Orders]
      /\ Leave(j, AfterAnswer(j)) /\ strategy' = strategy
      /\ \/ Filled(j) /\ UNCHANGED <<lost, misread>>
         \/ /\ FilledOrNot(j) /\ strategy # "perps"
            /\ misread' = [misread EXCEPT ![j] = @ \union {a}]
    BY DEF Answer, AnswerForeign, Awaiting, TypeOK
<1>f. /\ \A o \in Orders : fills[j][o] \in Nat
      /\ Filled(j) => /\ \A o \in Orders : fills'[j][o] = IF o = a THEN fills[j][o] + 1
                                                          ELSE fills[j][o]
                      /\ fills'[j][a] >= 1
    BY <1>0 DEF Filled
<1>1. /\ strategy' = strategy
      /\ at'[j] = AfterAnswer(j)
      /\ a \in Orders
      /\ \A o \in Orders : fills[j][o] \in Nat /\ fills'[j][o] \in Nat
      /\ \A o \in Orders : fills'[j][o] >= fills[j][o]
      /\ misread[j] \subseteq misread'[j]
      /\ fills'[j][a] >= 1 \/ a \in misread'[j]
      /\ strategy = "perps" => fills'[j][a] >= 1
    <2>1. at'[j] = AfterAnswer(j)
        BY <1>0 DEF Leave, TypeOK
    <2>2. \A o \in Orders : fills'[j][o] \in Nat /\ fills'[j][o] >= fills[j][o]
        BY <1>0, <1>f DEF FilledOrNot
    <2>3. misread[j] \subseteq misread'[j] /\ (Filled(j) \/ a \in misread'[j])
        BY <1>0
    <2>4. QED
        BY <1>0, <1>f, <2>1, <2>2, <2>3
<1>2. j \notin lost' => /\ j \notin lost
                       /\ \A o \in Orders : \/ fills'[j][o] = fills[j][o]
                                             \/ (o = a /\ fills'[j][o] = fills[j][o] + 1)
    BY <1>0, <1>f DEF FilledOrNot
<1>3. \A o \in Orders : o = a \/ Made(j, o) => Made(j, o)'
    BY <1>1 DEF Made
<1>4. Hedged' = Hedged
    BY <1>1 DEF Hedged
<1>5. CASE Hedged
    <2>1. \/ a = "buy" /\ at'[j] = "sell"
          \/ a = "sell" /\ at'[j] = "traded"
          \/ a = "hedge" /\ at'[j] = "closed"
        BY <1>1, <1>5, Routes DEF JobInv, OnPath, Orders, TypeOK
    <2>2. OnPath(j)'
        BY <1>1, <1>5, <2>1 DEF OnPath, Hedged
    <2>3. Answered(j)'
        BY <1>1, <1>3, <1>5, <2>1 DEF JobInv, Answered, Hedged, Orders
    <2>4. FilledOnce(j)'
        BY <1>1, <1>2, <2>1 DEF JobInv, FilledOnce, Orders
    <2>5. QED
        BY <2>2, <2>3, <2>4 DEF JobInv
<1>6. CASE ~Hedged
    <2>1. /\ strategy \in {"triangular", "perps", "statistical"}
          /\ \/ strategy = "triangular" /\ a = "leg1" /\ at'[j] = "leg2"
             \/ strategy = "triangular" /\ a = "leg2" /\ at'[j] = "leg3"
             \/ strategy = "triangular" /\ a = "leg3" /\ at'[j] = "traded"
             \/ strategy = "perps" /\ a = "open" /\ at'[j] = "traded"
             \/ strategy = "statistical" /\ a \in {"buy", "sell"} /\ at'[j] = "traded"
        BY <1>1, <1>6, Routes DEF JobInv, OnPath, Orders, TypeOK, Strategies, Hedged
    <2>2. OnPath(j)'
        BY <1>1, <2>1 DEF OnPath, Hedged
    <2>3. Answered(j)'
        BY <1>1, <1>3, <2>1 DEF JobInv, Answered, Hedged, Orders
    <2>4. FilledOnce(j)'
        BY <1>1, <1>2, <2>1 DEF JobInv, FilledOnce, Orders
    <2>5. QED
        BY <2>2, <2>3, <2>4 DEF JobInv
<1>7. QED
    BY <1>5, <1>6

\* An order that fails: sent again, or given up.
LEMMA FailureKeeps ==
    ASSUME TypeOK, NEW j \in Job, JobInv(j), Awaiting(j),
           strategy' = strategy,
           FilledOrNot(j), misread' = misread,
           UNCHANGED at \/ Leave(j, AfterThrow(j))
    PROVE  JobInv(j)'
<1> DEFINE a == at[j]
<1>1. /\ a \in Orders
      /\ at'[j] = a \/ at'[j] = AfterThrow(j)
      /\ \A o \in Orders : fills'[j][o] \in Nat /\ fills'[j][o] >= fills[j][o]
      /\ j \in lost' \/ (j \notin lost' /\ j \notin lost /\ fills' = fills)
    <2>1. a \in Orders /\ j \in Job /\ fills \in [Job -> [Orders -> Nat]] /\ at \in [Job -> Stage]
        BY DEF Awaiting, TypeOK, Stage
    <2>2. at'[j] = a \/ at'[j] = AfterThrow(j)
        BY <2>1 DEF Leave
    <2>3. Filled(j) => \A o \in Orders : fills'[j][o] = IF o = a THEN fills[j][o] + 1
                                                       ELSE fills[j][o]
        BY <2>1 DEF Filled
    <2>4. \A o \in Orders : fills'[j][o] \in Nat /\ fills'[j][o] >= fills[j][o]
        BY <2>1, <2>3 DEF FilledOrNot
    <2>5. QED
        BY <2>1, <2>2, <2>4 DEF FilledOrNot
<1>m. \A o \in Orders : Made(j, o) => Made(j, o)'
    BY <1>1 DEF Made, TypeOK
<1>2. CASE Hedged
    <2>1. /\ at'[j] # a => \/ a = "buy" /\ at'[j] = "refused"
                           \/ a = "sell" /\ at'[j] = "hedge"
                           \/ a = "hedge" /\ at'[j] = "exposed"
          /\ a \in {"buy", "sell", "hedge"}
        BY <1>1, <1>2, Routes DEF JobInv, OnPath, Orders, TypeOK
    <2>2. OnPath(j)'
        BY <1>1, <1>2, <2>1 DEF OnPath, Hedged
    <2>3. Answered(j)'
        BY <1>1, <1>m, <1>2, <2>1 DEF JobInv, Answered, Hedged, Orders, TypeOK
    <2>4. FilledOnce(j)'
        BY <1>1, <1>2, <2>1 DEF JobInv, FilledOnce
    <2>5. QED
        BY <2>2, <2>3, <2>4 DEF JobInv
<1>3. CASE ~Hedged
    <2>1. /\ strategy \in {"triangular", "perps", "statistical"}
          /\ at'[j] # a => at'[j] = "failed"
          /\ strategy = "triangular" => a \in {"leg1", "leg2", "leg3"}
          /\ strategy = "perps" => a = "open"
          /\ strategy = "statistical" => a \in {"buy", "sell"}
        BY <1>1, <1>3, Routes DEF JobInv, OnPath, Orders, TypeOK, Strategies, Hedged
    <2>2. OnPath(j)'
        BY <1>1, <2>1 DEF OnPath, Hedged
    <2>3. Answered(j)'
        BY <1>1, <1>m, <2>1 DEF JobInv, Answered, Hedged, Orders, TypeOK
    <2>4. FilledOnce(j)'
        BY <1>1, <1>3, <2>1 DEF JobInv, FilledOnce
    <2>5. QED
        BY <2>2, <2>3, <2>4 DEF JobInv
<1>4. QED
    BY <1>2, <1>3

\* The checks before the first order.
LEMMA ChecksKeep ==
    ASSUME TypeOK, NEW j \in Job, JobInv(j), PassChecks(j) \/ FailChecks(j)
    PROVE  JobInv(j)'
<1>1. /\ strategy' = strategy /\ UNCHANGED historyVars
      /\ at[j] = "check"
      /\ \/ at'[j] = FirstOrder(j)
         \/ strategy = "statistical" /\ at'[j] = at[j]
         \/ strategy # "statistical" /\ at'[j] = "refused"
    BY DEF PassChecks, FailChecks, Leave, TypeOK
<1>2. \/ Hedged /\ at'[j] \in {"buy", "refused"}
      \/ strategy = "triangular" /\ at'[j] \in {"leg1", "refused"}
      \/ strategy = "perps" /\ at'[j] \in {"open", "refused"}
      \/ strategy = "statistical" /\ at'[j] \in {"buy", "sell", "check"}
    BY <1>1, Routes DEF JobInv, TypeOK, Strategies, Hedged
<1>3. OnPath(j)'
    BY <1>1, <1>2 DEF OnPath, Hedged
<1>4. Answered(j)'
    BY <1>1, <1>2 DEF Answered, Hedged
<1>5. FilledOnce(j)'
    BY <1>1, <1>2 DEF JobInv, FilledOnce, historyVars
<1>6. QED
    BY <1>3, <1>4, <1>5 DEF JobInv

-----------------------------------------------------------------------------
(* The invariant. *)

\* A step of job j leaves the other jobs alone, and the strategy.
LEMMA OneJobMoves ==
    ASSUME TypeOK, NEW j \in Job, JobStep(j)
    PROVE  /\ strategy' = strategy
           /\ trade = "running" /\ trade' \in {"running", "unbooked"}
           /\ \A k \in Job \ {j} : /\ at'[k] = at[k] /\ fills'[k] = fills[k]
                                   /\ k \in lost' <=> k \in lost
                                   /\ misread'[k] = misread[k]
<1> USE DEF TypeOK, Leave, PassFailed, Filled, FilledOrNot, Awaiting, loopVars, historyVars
<1>1. CASE PassChecks(j)
    BY <1>1 DEF PassChecks
<1>2. CASE FailChecks(j)
    BY <1>2 DEF FailChecks
<1>3. CASE Answer(j)
    BY <1>3 DEF Answer
<1>4. CASE AnswerForeign(j)
    BY <1>4 DEF AnswerForeign
<1>5. CASE Reject(j)
    BY <1>5 DEF Reject
<1>6. CASE Resend(j)
    BY <1>6 DEF Resend
<1>7. CASE FailAttempt(j)
    BY <1>7 DEF FailAttempt
<1>8. CASE TimeOut(j)
    BY <1>8 DEF TimeOut
<1>9. QED
    BY <1>1, <1>2, <1>3, <1>4, <1>5, <1>6, <1>7, <1>8 DEF JobStep

LEMMA JobStepKeeps ==
    ASSUME TypeOK, NEW j \in Job, JobInv(j), JobStep(j)
    PROVE  JobInv(j)'
<1>1. CASE PassChecks(j) \/ FailChecks(j)
    BY <1>1, ChecksKeep
<1>2. CASE Answer(j) \/ AnswerForeign(j)
    BY <1>2, AnswerKeeps
<1>3. CASE Reject(j)
    <2>1. at' = at \/ Leave(j, AfterThrow(j))
        BY <1>3 DEF Reject, PassFailed
    <2>2. FilledOrNot(j) /\ Awaiting(j) /\ strategy' = strategy /\ misread' = misread
        BY <1>3 DEF Reject, FilledOrNot, historyVars
    <2>3. QED
        BY <2>1, <2>2, FailureKeeps
<1>4. CASE FailAttempt(j)
    BY <1>4, FailureKeeps DEF FailAttempt, PassFailed
<1>5. CASE TimeOut(j)
    BY <1>5, FailureKeeps DEF TimeOut, PassFailed
<1>6. CASE Resend(j)
    BY <1>6, FailureKeeps DEF Resend
<1>7. QED
    BY <1>1, <1>2, <1>3, <1>4, <1>5, <1>6 DEF JobStep

LEMMA StepIInv == IInv /\ [Next]_vars => IInv'
<1> SUFFICES ASSUME IInv, [Next]_vars PROVE IInv'
    OBVIOUS
<1>0. TypeOK /\ TypeOK'
    BY TypeStep DEF IInv
<1>1. ASSUME NEW j \in Job, JobStep(j) PROVE IInv'
    <2>1. \A k \in Job : JobInv(k)'
        BY <1>0, <1>1, JobStepKeeps, OneJobMoves, Untouched DEF IInv
    <2>2. Booking'
        BY <1>0, <1>1, OneJobMoves DEF Booking
    <2>3. QED
        BY <1>0, <2>1, <2>2 DEF IInv
<1>2. CASE Conclude
    <2>1. \A k \in Job : JobInv(k)'
        BY <1>2, Untouched DEF Conclude, IInv, historyVars
    <2>2. Booking'
        BY <1>2 DEF Conclude, Booking, Batched
    <2>3. QED
        BY <1>0, <2>1, <2>2 DEF IInv
<1>3. CASE Begin \/ Die
    <2>1. \A k \in Job : JobInv(k)'
        BY <1>3, Untouched DEF Begin, Die, IInv, historyVars
    <2>2. Booking'
        BY <1>3 DEF Begin, Die, Booking
    <2>3. QED
        BY <1>0, <2>1, <2>2 DEF IInv
<1>4. CASE UNCHANGED vars
    <2>1. \A k \in Job : JobInv(k)'
        BY <1>4, Untouched DEF vars, historyVars, IInv
    <2>2. Booking'
        BY <1>4 DEF vars, IInv, Booking, Batched
    <2>3. QED
        BY <1>0, <2>1, <2>2 DEF IInv
<1>5. QED
    BY <1>1, <1>2, <1>3, <1>4 DEF Next, Finished

LEMMA Invariance == Spec => []IInv
<1>1. QED
    BY InitIInv, StepIInv, PTL DEF Spec

\* Every job is always at a stage of the program with its counters in range.
THEOREM TypeCorrect == Spec => []TypeOK
<1>1. IInv => TypeOK
    BY DEF IInv
<1>2. QED
    BY <1>1, Invariance, PTL

\* However often secureFetch and the order helpers send an order again, it is
\* filled twice only after an exchange filled it and the answer was lost.
THEOREM FilledTwiceOnlyUnanswered == Spec => []NoOrderFilledTwiceUnlessUnanswered
<1>1. IInv => NoOrderFilledTwiceUnlessUnanswered
    BY DEF IInv, JobInv, FilledOnce, NoOrderFilledTwiceUnlessUnanswered
<1>2. QED
    BY <1>1, Invariance, PTL

\* What runScan books of an unbatched trade was bought and sold, leg by leg, but
\* for spot legs whose answer somebody else gave.
THEOREM BookedMeansMade == Spec => []BookedTradeWasMade
<1>1. ASSUME IInv PROVE BookedTradeWasMade
    <2>1. SUFFICES ASSUME trade = "booked", ~Batched
                   PROVE  /\ \A o \in LegsOf : Made(Main, o)
                          /\ strategy = "perps" => fills[Main]["open"] >= 1
        BY DEF BookedTradeWasMade
    <2>2. Main \in Job /\ at[Main] = "traded" /\ Answered(Main)
        BY <1>1, <2>1, ExecutionAssumption DEF IInv, JobInv, Booking
    <2>3. CASE Hedged
        <3>1. strategy # "perps"
            BY <2>3 DEF Hedged
        <3>2. QED
            BY <2>2, <2>3, <3>1 DEF LegsOf, Answered
    <2>4. CASE strategy = "triangular"
        <3>1. ~Hedged
            BY <2>4 DEF Hedged
        <3>2. LegsOf = {"leg1", "leg2", "leg3"}
            BY <2>4, <3>1 DEF LegsOf
        <3>3. QED
            BY <2>2, <2>4, <3>2 DEF Answered
    <2>5. CASE strategy = "perps"
        <3>1. ~Hedged /\ strategy # "triangular"
            BY <2>5 DEF Hedged
        <3>2. LegsOf = {"open"}
            BY <3>1 DEF LegsOf
        <3>3. QED
            BY <2>2, <2>5, <3>2 DEF Answered, Made
    <2>6. QED
        BY <1>1, <2>1, <2>3, <2>4, <2>5 DEF IInv, TypeOK, Strategies, Hedged, Batched
<1>2. QED
    BY <1>1, Invariance, PTL

-----------------------------------------------------------------------------
(* Each job implements TwoLegTrade. *)

\* The position, read off the invariant.
Position(j) ==
    /\ Net(j) \in Int
    /\ Verdict(j) \in {"none"} \union TwoLeg(j)!Verdicts
    /\ ~Doubt(j) => Net(j) \in {0, 1}
    /\ ~Doubt(j) /\ Verdict(j) # "none" => TwoLeg(j)!Tells(Verdict(j), Net(j))

LEMMA PositionKnown == IInv => \A j \in Job : Position(j)
<1> SUFFICES ASSUME IInv, NEW j \in Job PROVE Position(j)
    OBVIOUS
<1> USE DEF Position
<1>1. CASE ~Hedged
    BY <1>1 DEF Net, Verdict, Doubt, TwoLeg!Verdicts, TwoLeg!Tells
<1>2. CASE Hedged
    <2>1. /\ fills[j]["buy"] \in Nat /\ fills[j]["sell"] \in Nat /\ fills[j]["hedge"] \in Nat
          /\ OnPath(j) /\ Answered(j) /\ FilledOnce(j)
        BY DEF IInv, TypeOK, JobInv, Orders
    <2>2. \/ Verdict(j) \in {"none", "died"}
          \/ at[j] \in JobEnds /\ Verdict(j) = at[j]
        BY DEF Verdict
    <2>4. ~Doubt(j) => /\ at[j] \in {"check", "buy", "refused", "traded", "closed"} => Net(j) = 0
                       /\ at[j] \in {"sell", "hedge", "exposed"} => Net(j) = 1
        <3>1. SUFFICES ASSUME j \notin lost, misread[j] = {}
                       PROVE  /\ at[j] \in {"check", "buy", "refused", "traded", "closed"}
                                   => Net(j) = 0
                              /\ at[j] \in {"sell", "hedge", "exposed"} => Net(j) = 1
            BY <1>2 DEF Doubt
        <3>0. at[j] \in {"sell", "hedge", "exposed", "traded", "closed"} => fills[j]["buy"] >= 1
            BY <1>2, <2>1, <3>1 DEF Answered, Made
        <3>h. /\ at[j] = "traded" => fills[j]["sell"] >= 1
              /\ at[j] = "closed" => fills[j]["hedge"] >= 1
            BY <1>2, <2>1, <3>1 DEF Answered, Made
        <3>2. /\ fills[j]["buy"] \in {0, 1}
              /\ fills[j]["sell"] \in {0, 1}
              /\ fills[j]["hedge"] \in {0, 1}
            BY <2>1, <3>1 DEF FilledOnce, Orders
        <3>3. Net(j) = fills[j]["buy"] - fills[j]["sell"] - fills[j]["hedge"]
            BY <1>2 DEF Net
        <3>4. CASE at[j] \in {"check", "buy", "refused"}
            BY <2>1, <3>1, <3>2, <3>3, <3>4 DEF FilledOnce
        <3>5. CASE at[j] \in {"sell", "hedge", "exposed"}
            BY <2>1, <3>0, <3>1, <3>2, <3>3, <3>5 DEF FilledOnce
        <3>6. CASE at[j] \in {"traded", "closed"}
            <4>1. /\ fills[j]["buy"] = 1
                  /\ at[j] = "traded" => fills[j]["sell"] = 1 /\ fills[j]["hedge"] = 0
                  /\ at[j] = "closed" => fills[j]["sell"] = 0 /\ fills[j]["hedge"] = 1
                BY <2>1, <3>0, <3>h, <3>1, <3>2, <3>6 DEF FilledOnce
            <4>2. QED
                BY <3>3, <3>6, <4>1
        <3>7. QED
            BY <3>4, <3>5, <3>6
    <2>5. Net(j) \in Int
        BY <1>2, <2>1 DEF Net
    <2>6. at[j] \in {"check", "buy", "sell", "hedge",
                     "refused", "traded", "closed", "exposed"}
        BY <1>2, <2>1 DEF OnPath
    <2>7. ~Doubt(j) => Net(j) \in {0, 1}
        BY <2>4, <2>6
    <2>8. CASE Verdict(j) \in {"none", "died"}
        BY <2>5, <2>7, <2>8 DEF TwoLeg!Verdicts, TwoLeg!Flat, TwoLeg!Tells
    <2>9. CASE at[j] \in JobEnds /\ Verdict(j) = at[j]
        <3>1. Verdict(j) \in {"refused", "traded", "closed", "exposed"}
            BY <2>6, <2>9 DEF JobEnds
        <3>2. ~Doubt(j) => TwoLeg(j)!Tells(Verdict(j), Net(j))
            BY <2>4, <2>9, <3>1 DEF TwoLeg!Flat, TwoLeg!Tells
        <3>3. QED
            BY <2>5, <2>7, <3>1, <3>2 DEF TwoLeg!Verdicts, TwoLeg!Flat
    <2>10. QED
        BY <2>2, <2>8, <2>9
<1>3. QED
    BY <1>1, <1>2

LEMMA PositionThen == IInv' => \A j \in Job : Position(j)'
<1>1. (IInv => \A j \in Job : Position(j))'
    BY PositionKnown, PTL
<1>2. QED
    BY <1>1

\* A trade that has its verdict is over: nothing more is bought or sold.
LEMMA VerdictIsFinal ==
    ASSUME IInv, [Next]_vars, NEW j \in Job, Verdict(j) # "none"
    PROVE  UNCHANGED <<Net(j), Verdict(j), Doubt(j)>>
<1>1. /\ Hedged /\ j \in Jobs
      /\ at[j] \in JobEnds \/ trade = "dead"
    BY DEF Verdict
<1>2. at[j] \in {"refused", "traded", "closed", "exposed", "failed"}
                => at[j] \notin Orders \union {"check"}
    BY DEF Orders
<1> DEFINE Still == /\ strategy' = strategy
                    /\ fills'[j] = fills[j] /\ at'[j] = at[j]
                    /\ j \in lost' <=> j \in lost
                    /\ misread'[j] = misread[j]
                    /\ trade = "dead" => trade' = "dead"
<1>3. Still
    <2>0. TypeOK
        BY DEF IInv
    <2>1. ASSUME NEW k \in Job, JobStep(k) PROVE Still
        <3>1. trade = "running" /\ k \in Jobs /\ at[k] \in Orders \union {"check"}
            BY <2>1 DEF JobStep, PassChecks, FailChecks, Answer, AnswerForeign, Reject,
                        Resend, FailAttempt, TimeOut, Awaiting
        <3>2. k # j
            BY <1>1, <1>2, <2>0, <3>1 DEF JobEnds
        <3>3. QED
            BY <2>0, <2>1, <3>1, <3>2, OneJobMoves
    <2>2. CASE Begin
        BY <1>1, <2>2 DEF Begin, historyVars
    <2>3. CASE Conclude
        BY <1>1, <2>3 DEF Conclude, historyVars
    <2>4. CASE Die \/ UNCHANGED vars
        BY <2>4 DEF Die, vars, historyVars
    <2>5. QED
        BY <2>1, <2>2, <2>3, <2>4 DEF Next, Finished
<1>4. QED
    BY <1>1, <1>3 DEF Net, Verdict, Doubt, Hedged, Jobs, Batched

\* A step of the trade is a step of TwoLegTrade for every job, or a stutter.
LEMMA StepRefines ==
    ASSUME IInv, IInv', [Next]_vars, NEW j \in Job
    PROVE  [TwoLeg(j)!Next]_(TwoLeg(j)!vars)
<1>1. /\ Doubt(j) \in BOOLEAN /\ Doubt(j)' \in BOOLEAN
      /\ Doubt(j) => Doubt(j)'
    <2>0. TypeOK
        BY DEF IInv
    <2>1. strategy' = strategy /\ lost \subseteq lost' /\ misread[j] \subseteq misread'[j]
        <3>1. ASSUME NEW k \in Job, JobStep(k)
              PROVE  strategy' = strategy /\ lost \subseteq lost'
                     /\ misread[j] \subseteq misread'[j]
            BY <2>0, <3>1, OneJobMoves
               DEF JobStep, PassChecks, FailChecks, Answer, AnswerForeign, Reject, Resend,
                   FailAttempt, TimeOut, FilledOrNot, historyVars, TypeOK
        <3>2. QED
            BY <3>1 DEF Next, Begin, Conclude, Die, Finished, vars, historyVars
    <2>2. QED
        BY <2>1 DEF Doubt, Hedged
<1>2. Position(j)'
    BY PositionThen
<1>3. CASE Verdict(j) # "none"
    BY <1>3, VerdictIsFinal DEF Doubt, TwoLeg!vars
<1>4. CASE Verdict(j) = "none" /\ Verdict(j)' = "none"
    BY <1>1, <1>2, <1>4 DEF Position, Doubt, TwoLeg!Next, TwoLeg!Trade
<1>5. CASE Verdict(j) = "none" /\ Verdict(j)' # "none"
    BY <1>1, <1>2, <1>5 DEF Position, Doubt, TwoLeg!Next, TwoLeg!Conclude
<1>6. QED
    BY <1>3, <1>4, <1>5

\* The hedge keeps its promise: what a buy-and-sell job tells is the position it
\* leaves, unless an answer was lost or not the exchange's, or the worker died.
THEOREM HedgeImplementsTwoLegTrade == Spec => HedgeKeepsPromise
<1>1. ASSUME Init, NEW j \in Job PROVE TwoLeg(j)!Init
    BY <1>1, ExecutionAssumption
    DEF Init, TwoLeg!Init, Net, Verdict, Doubt, Orders, JobEnds
<1>2. ASSUME IInv, IInv', [Next]_vars
      PROVE  [\A j \in Job : [TwoLeg(j)!Next]_(TwoLeg(j)!vars)]_vars
    BY <1>2, StepRefines
<1>3. Init => \A j \in Job : TwoLeg(j)!Init
    BY <1>1
<1>4. QED
    BY <1>2, <1>3, Invariance, PTL DEF Spec, HedgeKeepsPromise

-----------------------------------------------------------------------------
(* Retries and passes: how often an order may be filled, and that they end. *)

LEMMA ProductGrows ==
    ASSUME NEW p \in Nat, NEW m \in Nat, p <= m, NEW n \in Nat
    PROVE  p * n \in Nat /\ m * n \in Nat /\ p * n <= m * n /\ (p + 1) * n = p * n + n
<1>1. p * n \in Nat /\ m * n \in Nat /\ (p + 1) * n = p * n + n
    OBVIOUS
<1>2. (m - p) * n >= 0 /\ m * n = p * n + (m - p) * n
    OBVIOUS
<1>3. QED
    BY <1>1, <1>2

LEMMA SendsAreNumbers ==
    ASSUME NEW j \in Job
    PROVE  /\ SendsOfPass(j) \in Nat /\ SendsOfOrder(j) \in Nat
           /\ MaxSends[j] \in Nat /\ MaxRetries[j] \in Nat /\ MaxPasses[j] \in Nat
<1>1. MaxSends[j] \in Nat /\ MaxRetries[j] \in Nat /\ MaxPasses[j] \in Nat
    BY Maxes
<1>2. MaxRetries[j] + 1 \in Nat
    BY <1>1
<1>3. SendsOfPass(j) \in Nat
    BY <1>1, <1>2, ProductGrows DEF SendsOfPass
<1>4. SendsOfOrder(j) \in Nat
    BY <1>1, <1>3, ProductGrows DEF SendsOfOrder
<1>5. QED
    BY <1>1, <1>3, <1>4

\* The awaited order has a send left, and the next attempt or pass is further on.
LEMMA OneMoreSend ==
    ASSUME TypeOK, NEW j \in Job
    PROVE  /\ SendsOfOrder(j) \in Nat /\ Spent(j) \in Nat /\ Spent(j) < SendsOfOrder(j)
           /\ tries[j] < MaxRetries[j] =>
                (pass[j] - 1) * SendsOfPass(j) + (tries[j] + 1) * MaxSends[j] > Spent(j)
           /\ pass[j] * SendsOfPass(j) > Spent(j)
<1> DEFINE n == SendsOfPass(j)
           p == pass[j] - 1
           m == MaxSends[j]
           t == tries[j]
           r == MaxRetries[j] + 1
<1>1. /\ n \in Nat /\ p \in Nat /\ m \in Nat /\ t \in Nat /\ r \in Nat
      /\ MaxPasses[j] \in Nat /\ p + 1 \in Nat /\ t + 1 \in Nat
      /\ sends[j] \in Nat /\ sends[j] < m /\ t + 1 <= r
      /\ p + 1 <= MaxPasses[j] /\ p + 1 = pass[j]
    <2>1. /\ sends[j] \in Nat /\ sends[j] < MaxSends[j]
          /\ tries[j] \in Nat /\ tries[j] <= MaxRetries[j]
          /\ pass[j] \in Nat \ {0} /\ pass[j] <= MaxPasses[j]
        BY DEF TypeOK
    <2>2. QED
        BY <2>1, SendsAreNumbers
<1>2. /\ Spent(j) = p * n + t * m + sends[j]
      /\ SendsOfOrder(j) = MaxPasses[j] * n /\ n = r * m
    BY DEF Spent, SendsOfOrder, SendsOfPass
<1> HIDE DEF n, p, m, t, r
<1>3. t * m \in Nat /\ (t + 1) * m = t * m + m /\ (t + 1) * m <= r * m
    BY <1>1, ProductGrows
<1>4. /\ p * n \in Nat /\ (p + 1) * n = p * n + n /\ (p + 1) * n <= MaxPasses[j] * n
      /\ MaxPasses[j] * n \in Nat
    BY <1>1, ProductGrows
<1>5. Spent(j) \in Nat /\ Spent(j) < p * n + (t + 1) * m
    BY <1>1, <1>2, <1>3, <1>4
<1>6. (t + 1) * m <= n
    BY <1>2, <1>3
<1>7. Spent(j) < (p + 1) * n
    BY <1>1, <1>3, <1>4, <1>5, <1>6
<1>8. Spent(j) < SendsOfOrder(j) /\ SendsOfOrder(j) \in Nat
    BY <1>1, <1>2, <1>4, <1>5, <1>7
<1>9. pass[j] * SendsOfPass(j) > Spent(j)
    BY <1>1, <1>4, <1>5, <1>7 DEF n
<1>10. (pass[j] - 1) * SendsOfPass(j) + (tries[j] + 1) * MaxSends[j] > Spent(j)
    BY <1>3, <1>4, <1>5 DEF n, p, m, t
<1>11. QED
    BY <1>5, <1>8, <1>9, <1>10

\* The same for every job, and after a step.
LEMMA OneMoreEach == TypeOK => \A j \in Job : Spent(j) \in Nat /\ Spent(j) < SendsOfOrder(j)
BY OneMoreSend

LEMMA OneMoreThen == TypeOK' => \A j \in Job : Spent(j)' \in Nat /\ Spent(j)' < SendsOfOrder(j)
<1>1. (TypeOK => \A j \in Job : Spent(j) \in Nat /\ Spent(j) < SendsOfOrder(j))'
    BY OneMoreEach, PTL
<1>2. \A j \in Job : SendsOfOrder(j)' = SendsOfOrder(j)
    BY DEF SendsOfOrder, SendsOfPass
<1>3. QED
    BY <1>1, <1>2

\* The orders a job may still place, the awaited one left out.
OrdersAhead(j) == CASE at[j] = "check" -> Orders
                    [] at[j] = "buy"   -> {"sell", "hedge"}
                    [] at[j] = "sell"  -> {"hedge"}
                    [] at[j] = "leg1"  -> {"leg2", "leg3"}
                    [] at[j] = "leg2"  -> {"leg3"}
                    [] OTHER           -> {}

\* A job never returns to an order.
LEMMA PathGoesOn ==
    ASSUME NEW j \in Job, at[j] \in Orders
    PROVE  {AfterAnswer(j), AfterThrow(j)} \subseteq OrdersAhead(j) \union JobEnds
BY DEF AfterAnswer, AfterThrow, OrdersAhead, JobEnds, Orders

LEMMA FewerAhead ==
    ASSUME NEW j \in Job, at[j] \in Orders \union {"check"},
           at'[j] \in OrdersAhead(j) \union JobEnds
    PROVE  /\ OrdersAhead(j)' \subseteq OrdersAhead(j) \ {at'[j]}
           /\ at'[j] \in Orders => at'[j] \in OrdersAhead(j)
           /\ StagesLeft(j) \in 1..4 /\ StagesLeft(j)' \in 0..3
           /\ StagesLeft(j)' < StagesLeft(j)
BY DEF OrdersAhead, JobEnds, Orders, StagesLeft

\* What a step does to the fills and the sends of its job.
Again(j) == at'[j] = at[j] /\ at[j] \in Orders
            /\ Spent(j)' > Spent(j)
Further(j) == at[j] \in Orders \union {"check"}
              /\ at'[j] \in OrdersAhead(j) \union JobEnds /\ Spent(j)' = 0
Unmoved(j) == at'[j] = at[j] /\ Spent(j)' = Spent(j) /\ fills'[j] = fills[j]
              /\ trade' \in TradeEnds

FillsAtMostOnce(j) ==
    \A o \in Orders : \/ fills'[j][o] = fills[j][o]
                      \/ o = at[j] /\ fills'[j][o] = fills[j][o] + 1

LEMMA LeavingIsFurther ==
    ASSUME TypeOK, NEW j \in Job, at[j] \in Orders \union {"check"},
           NEW next \in OrdersAhead(j) \union JobEnds, Leave(j, next)
    PROVE  Further(j)
<1>1. at'[j] = next /\ sends'[j] = 0 /\ tries'[j] = 0 /\ pass'[j] = 1
    BY DEF TypeOK, Leave
<1>2. Spent(j)' = (1 - 1) * SendsOfPass(j) + 0 * MaxSends[j] + 0
    BY <1>1 DEF Spent, SendsOfPass
<1>3. Spent(j)' = 0
    BY <1>2, SendsAreNumbers
<1>4. QED
    BY <1>1, <1>3 DEF Further

LEMMA PassFailedMoves ==
    ASSUME TypeOK, NEW j \in Job, at[j] \in Orders, PassFailed(j)
    PROVE  Again(j) \/ Further(j)
<1>1. CASE Leave(j, AfterThrow(j))
    BY <1>1, PathGoesOn, LeavingIsFurther
<1>2. CASE /\ pass[j] < MaxPasses[j]
           /\ pass' = [pass EXCEPT ![j] = @ + 1]
           /\ tries' = [tries EXCEPT ![j] = 0]
           /\ sends' = [sends EXCEPT ![j] = 0]
           /\ UNCHANGED at
  <2>1. at'[j] = at[j] /\ sends'[j] = 0 /\ tries'[j] = 0 /\ pass'[j] = pass[j] + 1
    BY <1>2 DEF TypeOK
  <2>2. pass'[j] - 1 = pass[j] /\ pass[j] * SendsOfPass(j) \in Nat
    <3>1. pass[j] \in Nat /\ SendsOfPass(j) \in Nat
        BY SendsAreNumbers DEF TypeOK
    <3>2. QED
        BY <2>1, <3>1, ProductGrows
  <2>3. Spent(j)' = pass[j] * SendsOfPass(j) + 0 * MaxSends[j] + 0
    BY <2>1, <2>2 DEF Spent, SendsOfPass
  <2>4. Spent(j)' = pass[j] * SendsOfPass(j)
    BY <2>2, <2>3, SendsAreNumbers
  <2>5. QED
    BY <2>1, <2>4, OneMoreSend DEF Again
<1>3. QED
    BY <1>1, <1>2 DEF PassFailed

LEMMA FilledOrNotOnce ==
    ASSUME TypeOK, NEW j \in Job, at[j] \in Orders, FilledOrNot(j) \/ Filled(j)
    PROVE  FillsAtMostOnce(j)
BY DEF TypeOK, FilledOrNot, Filled, FillsAtMostOnce

LEMMA StepKinds ==
    ASSUME TypeOK, NEW j \in Job, JobStep(j)
    PROVE  /\ FillsAtMostOnce(j)
           /\ at[j] = "check" => fills'[j] = fills[j]
           /\ Again(j) \/ Further(j) \/ Unmoved(j)
<1>1. CASE PassChecks(j)
  <2>1. FirstOrder(j) \in OrdersAhead(j) \union JobEnds
    BY <1>1 DEF PassChecks, FirstOrder, OrdersAhead, Orders
  <2>2. QED
    BY <1>1, <2>1, LeavingIsFurther DEF PassChecks, FillsAtMostOnce, historyVars
<1>2. CASE FailChecks(j)
  <2>1. CASE strategy = "statistical"
    BY <1>2, <2>1 DEF FailChecks, Unmoved, FillsAtMostOnce, TradeEnds, Spent, SendsOfPass,
                     loopVars, historyVars
  <2>2. CASE strategy # "statistical"
    <3>1. Leave(j, "refused") /\ "refused" \in JobEnds /\ at[j] = "check" /\ fills' = fills
        BY <1>2, <2>2 DEF FailChecks, JobEnds, historyVars
    <3>2. QED
        BY <3>1, LeavingIsFurther DEF FillsAtMostOnce
  <2>3. QED
    BY <2>1, <2>2
<1>3. CASE Answer(j)
    BY <1>3, PathGoesOn, LeavingIsFurther, FilledOrNotOnce DEF Answer, Awaiting, Orders
<1>4. CASE AnswerForeign(j)
    BY <1>4, PathGoesOn, LeavingIsFurther, FilledOrNotOnce DEF AnswerForeign, Awaiting, Orders
<1>5. CASE Reject(j)
    BY <1>5, PassFailedMoves DEF Reject, Awaiting, Orders, FillsAtMostOnce, historyVars
<1>6. CASE Resend(j)
  <2>1. FillsAtMostOnce(j) /\ at[j] \in Orders
    BY <1>6, FilledOrNotOnce DEF Resend, Awaiting
  <2>2. /\ sends'[j] = sends[j] + 1 /\ tries'[j] = tries[j]
        /\ pass'[j] = pass[j] /\ at'[j] = at[j]
    BY <1>6 DEF Resend, TypeOK
  <2>3. Spent(j)' = (pass[j] - 1) * SendsOfPass(j) + tries[j] * MaxSends[j] + (sends[j] + 1)
    BY <2>2 DEF Spent, SendsOfPass
  <2>4. Spent(j)' = Spent(j) + 1
    <3> DEFINE a == (pass[j] - 1) * SendsOfPass(j)
               b == tries[j] * MaxSends[j]
    <3>1. pass[j] - 1 \in Nat /\ tries[j] \in Nat /\ sends[j] \in Nat
        BY DEF TypeOK
    <3>2. a \in Nat /\ b \in Nat
        BY <3>1, SendsAreNumbers, ProductGrows
    <3>3. Spent(j) = a + b + sends[j] /\ Spent(j)' = a + b + (sends[j] + 1)
        BY <2>3 DEF Spent
    <3> HIDE DEF a, b
    <3>4. QED
        BY <3>1, <3>2, <3>3
  <2>5. QED
    BY <2>1, <2>2, <2>4, OneMoreSend DEF Again, Orders
<1>7. CASE FailAttempt(j)
  <2>1. FillsAtMostOnce(j) /\ at[j] \in Orders
    BY <1>7, FilledOrNotOnce DEF FailAttempt, Awaiting
  <2>2. CASE PassFailed(j)
    BY <2>1, <2>2, PassFailedMoves DEF Orders
  <2>3. CASE /\ tries[j] < MaxRetries[j]
             /\ tries' = [tries EXCEPT ![j] = @ + 1]
             /\ sends' = [sends EXCEPT ![j] = 0]
             /\ UNCHANGED <<at, pass>>
    <3>1. /\ sends'[j] = 0 /\ tries'[j] = tries[j] + 1
          /\ pass'[j] = pass[j] /\ at'[j] = at[j]
        BY <2>3 DEF TypeOK
    <3> DEFINE a == (pass[j] - 1) * SendsOfPass(j)
               b == (tries[j] + 1) * MaxSends[j]
    <3>2. Spent(j)' = a + b + 0
        BY <3>1 DEF Spent, SendsOfPass
    <3>3. a + b > Spent(j)
        BY <2>3, OneMoreSend
    <3>4. pass[j] - 1 \in Nat /\ tries[j] + 1 \in Nat
        BY DEF TypeOK
    <3>5. a \in Nat /\ b \in Nat
        BY <3>4, SendsAreNumbers, ProductGrows
    <3> HIDE DEF a, b
    <3>6. Spent(j)' > Spent(j)
        BY <3>2, <3>3, <3>5
    <3>7. QED
        BY <2>1, <3>1, <3>6 DEF Again, Orders
  <2>4. QED
    BY <1>7, <2>2, <2>3 DEF FailAttempt
<1>8. CASE TimeOut(j)
    BY <1>8, PassFailedMoves, FilledOrNotOnce DEF TimeOut, Awaiting, Orders
<1>9. QED
    BY <1>1, <1>2, <1>3, <1>4, <1>5, <1>6, <1>7, <1>8 DEF JobStep

\* The awaited order was filled at most once per send spent on it, the orders
\* ahead not at all.
FillsBounded(j) ==
    /\ \A o \in Orders : fills[j][o] <= SendsOfOrder(j)
    /\ \A o \in OrdersAhead(j) : fills[j][o] = 0
    /\ at[j] \in Orders => fills[j][at[j]] <= Spent(j)

LEMMA BoundInit == Init => \A j \in Job : FillsBounded(j)
<1> SUFFICES ASSUME Init, NEW j \in Job PROVE FillsBounded(j)
    OBVIOUS
<1>1. at[j] = "check" /\ "check" \notin Orders /\ \A o \in Orders : fills[j][o] = 0
    BY DEF Init, Orders
<1>2. SendsOfOrder(j) \in Nat
    BY InitIInv, OneMoreSend DEF IInv
<1>3. OrdersAhead(j) = Orders
    BY <1>1 DEF OrdersAhead
<1>4. QED
    BY <1>1, <1>2, <1>3 DEF FillsBounded

LEMMA BoundIsKept ==
    ASSUME TypeOK, TypeOK', NEW j \in Job, FillsBounded(j), JobStep(j)
    PROVE  FillsBounded(j)'
<1>1. /\ FillsAtMostOnce(j)
      /\ at[j] = "check" => fills'[j] = fills[j]
      /\ SendsOfOrder(j) \in Nat /\ Spent(j) \in Nat /\ Spent(j)' \in Nat /\ Spent(j) < SendsOfOrder(j)
      /\ \A o \in Orders : fills[j][o] \in Nat /\ fills'[j][o] \in Nat
      /\ OrdersAhead(j) \subseteq Orders /\ at[j] \notin OrdersAhead(j)
  <2>1. Spent(j)' \in Nat
    BY OneMoreThen
  <2>2. OrdersAhead(j) \subseteq Orders /\ at[j] \notin OrdersAhead(j)
    BY DEF OrdersAhead, Orders
  <2>3. QED
    BY <2>1, <2>2, StepKinds, OneMoreSend DEF TypeOK
<1>2. SendsOfOrder(j)' = SendsOfOrder(j)
    BY DEF SendsOfOrder, SendsOfPass
<1>3. \A o \in Orders : fills'[j][o] <= SendsOfOrder(j)
    BY <1>1 DEF FillsAtMostOnce, FillsBounded
<1>4. CASE Again(j)
  <2>1. OrdersAhead(j)' = OrdersAhead(j)
    BY <1>4 DEF Again, OrdersAhead
  <2>2. QED
    BY <1>1, <1>2, <1>3, <1>4, <2>1 DEF Again, FillsAtMostOnce, FillsBounded
<1>5. CASE Further(j)
  <2>1. /\ OrdersAhead(j)' \subseteq OrdersAhead(j)
        /\ at'[j] \in Orders => at'[j] \in OrdersAhead(j)
    BY <1>5, FewerAhead DEF Further
  <2>2. \A o \in OrdersAhead(j) : fills'[j][o] = 0
    BY <1>1 DEF FillsAtMostOnce, FillsBounded
  <2>3. QED
    BY <1>1, <1>2, <1>3, <2>1, <2>2 DEF FillsBounded
<1>6. CASE Unmoved(j)
  <2>1. OrdersAhead(j)' = OrdersAhead(j)
    BY <1>6 DEF Unmoved, OrdersAhead
  <2>2. QED
    BY <1>2, <1>6, <2>1 DEF Unmoved, FillsBounded
<1>7. QED
    BY <1>4, <1>5, <1>6, StepKinds

\* A step of one job leaves the sends of the others alone.
LEMMA OthersKeepSends ==
    ASSUME TypeOK, NEW j \in Job, JobStep(j), NEW k \in Job \ {j}
    PROVE  at'[k] = at[k] /\ fills'[k] = fills[k] /\ Spent(k)' = Spent(k)
<1>1. at'[k] = at[k] /\ fills'[k] = fills[k]
    BY OneJobMoves
<1>2. sends'[k] = sends[k] /\ tries'[k] = tries[k] /\ pass'[k] = pass[k]
    BY DEF JobStep, PassChecks, FailChecks, Answer, AnswerForeign, Reject, Resend,
           FailAttempt, TimeOut, PassFailed, Leave, TypeOK, loopVars
<1>3. QED
    BY <1>1, <1>2 DEF Spent, SendsOfPass

LEMMA BoundStep ==
    TypeOK /\ TypeOK' /\ (\A j \in Job : FillsBounded(j)) /\ [Next]_vars
        => (\A j \in Job : FillsBounded(j))'
<1> SUFFICES ASSUME TypeOK, TypeOK', \A k \in Job : FillsBounded(k), [Next]_vars,
                    NEW k \in Job
             PROVE  FillsBounded(k)'
    OBVIOUS
<1>1. ASSUME NEW j \in Job, JobStep(j) PROVE FillsBounded(k)'
  <2>1. CASE k = j
    BY <1>1, <2>1, BoundIsKept
  <2>2. CASE k # j
    BY <1>1, <2>2, OthersKeepSends DEF FillsBounded, OrdersAhead, SendsOfOrder, SendsOfPass
  <2>3. QED
    BY <2>1, <2>2
<1>2. CASE Begin \/ Conclude \/ Die \/ Finished \/ UNCHANGED vars
    BY <1>2 DEF Begin, Conclude, Die, Finished, vars, loopVars, historyVars,
                FillsBounded, OrdersAhead, SendsOfOrder, SendsOfPass, Spent
<1>3. QED
    BY <1>1, <1>2 DEF Next

\* No order is filled more often than the ways of the proxy pool, the retries and a
\* helper's passes allow together, whatever the exchange fills without saying so.
THEOREM FillsAreBounded == Spec => []OrderFillsAreBounded
<1>1. (\A j \in Job : FillsBounded(j)) => OrderFillsAreBounded
    BY DEF FillsBounded, OrderFillsAreBounded
<1>2. Spec => []TypeOK
    BY TypeCorrect
<1>3. QED
    BY <1>1, <1>2, BoundInit, BoundStep, PTL DEF Spec

\* Every step of a job uses up one of its sends or ends the trade, so a trade takes
\* no more steps than its jobs had sends, and one for its end.
THEOREM SendsRunOut == Spec => EveryStepUsesUpASend
<1>1. ASSUME TypeOK, TypeOK', NEW j \in Job, JobStep(j)
      PROVE  /\ \/ trade' \in TradeEnds
                \/ 0 <= SendsLeft(j)' /\ SendsLeft(j)' < SendsLeft(j)
             /\ \A k \in Job \ {j} : SendsLeft(k)' = SendsLeft(k)
  <2>1. /\ SendsOfOrder(j) \in Nat /\ SendsOfOrder(j)' = SendsOfOrder(j)
        /\ Spent(j) \in Nat /\ Spent(j) < SendsOfOrder(j)
        /\ Spent(j)' \in Nat /\ Spent(j)' < SendsOfOrder(j)
    BY <1>1, OneMoreSend, OneMoreThen DEF SendsOfOrder, SendsOfPass
  <2>5. \A k \in Job \ {j} : SendsLeft(k)' = SendsLeft(k)
    BY <1>1, <2>1, OthersKeepSends DEF SendsLeft, StagesLeft
  <2>2. CASE Again(j)
    <3>1. StagesLeft(j)' = StagesLeft(j) /\ StagesLeft(j) \in 1..3
        BY <2>2 DEF Again, StagesLeft, Orders
    <3>2. StagesLeft(j) * SendsOfOrder(j) \in Nat /\ StagesLeft(j) * SendsOfOrder(j) >= SendsOfOrder(j)
        BY <2>1, <3>1
    <3>3. QED
        BY <2>1, <2>2, <2>5, <3>1, <3>2 DEF Again, SendsLeft
  <2>3. CASE Further(j)
    <3>1. StagesLeft(j) \in 1..4 /\ StagesLeft(j)' \in 0..3 /\ StagesLeft(j)' < StagesLeft(j)
        BY <2>3, FewerAhead DEF Further
    <3>2. StagesLeft(j)' * SendsOfOrder(j) + SendsOfOrder(j) <= StagesLeft(j) * SendsOfOrder(j)
          /\ StagesLeft(j)' * SendsOfOrder(j) \in Nat /\ StagesLeft(j) * SendsOfOrder(j) \in Nat
        BY <2>1, <3>1
    <3>3. SendsLeft(j)' = StagesLeft(j)' * SendsOfOrder(j)
        BY <2>1, <2>3, <3>2 DEF Further, SendsLeft
    <3>4. QED
        BY <2>1, <2>5, <3>2, <3>3 DEF SendsLeft
  <2>4. QED
    BY <1>1, <2>2, <2>3, <2>5, StepKinds DEF Unmoved
<1>2. TypeOK /\ TypeOK' =>
        [\A j \in Job : JobStep(j) =>
            /\ \/ trade' \in TradeEnds
               \/ 0 <= SendsLeft(j)' /\ SendsLeft(j)' < SendsLeft(j)
            /\ \A k \in Job \ {j} : SendsLeft(k)' = SendsLeft(k)]_vars
    BY <1>1
<1>3. QED
    BY <1>2, TypeCorrect, PTL DEF Spec, EveryStepUsesUpASend
=============================================================================
