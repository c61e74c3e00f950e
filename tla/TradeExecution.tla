---------------------------- MODULE TradeExecution ----------------------------
(***************************************************************************)
(* One live trade of the worker bot, from executeTrade to runScan's books  *)
(* (worker-bot/src/orchestrator.js), over the fetch layer that sends its   *)
(* orders (src/infra/security.js, src/ultra-fast-engine.js).               *)
(*                                                                         *)
(* A trade is one or several jobs, each a series of market orders:         *)
(*   cex             one job: buy, sell, and a hedge when the sell throws; *)
(*   scalp_parallel  such a job per parallel leg, in one batch;            *)
(*   statistical     a job that buys and a job that sells, in one batch;   *)
(*   triangular      one job of three orders;                              *)
(*   perps           one job of one order.                                 *)
(* A batch turns what its jobs throw into results and then resolves.       *)
(*                                                                         *)
(* An order is sent again in three nested loops, and nothing identifies it *)
(* as the same one: the proxy pool (src/infra/proxy-pool.js) goes on to its*)
(* next proxy, and then past them, when a proxy fails it; secureFetch makes*)
(* another attempt after a server or a network error; and an order helper  *)
(* (src/exchange.js) makes another pass with its next key, mode or host.   *)
(*                                                                         *)
(* The exchange is the environment: it may fill an order, that is accept   *)
(* it for execution, and the sender not be told (Unsure).  So are the      *)
(* gateways in between, whose own answers some order helpers take for the  *)
(* exchange's (Foreign).  Quantities are in units of the trade's amount.   *)
(***************************************************************************)
EXTENDS Integers

CONSTANTS
    Job,
    Main,        \* the job of a trade that has one
    Legs,        \* the jobs of a parallel scalp
    Buyer,       \* the two jobs of a statistical trade
    Seller,
    MaxSends,    \* ways the proxy pool has to send an order of a job
    MaxRetries,  \* maxRetries of secureFetch for it
    MaxPasses,   \* keys, modes or hosts its order helper may go through
    Unsure,      \* may an exchange fill an order and the sender not be told?
    Foreign,     \* may a gateway answer an order in the exchange's place?
    Crashes      \* may the worker die between two awaits?

ASSUME ExecutionAssumption ==
    /\ {Main, Buyer, Seller} \union Legs \subseteq Job
    /\ Buyer # Seller
    /\ MaxSends \in [Job -> Nat \ {0}]
    /\ MaxRetries \in [Job -> Nat]
    /\ MaxPasses \in [Job -> Nat \ {0}]
    /\ {Unsure, Foreign, Crashes} \subseteq BOOLEAN

Strategies == {"cex", "scalp_parallel", "statistical", "triangular", "perps"}
Orders     == {"buy", "sell", "hedge", "leg1", "leg2", "leg3", "open"}
JobEnds    == {"refused", "traded", "closed", "exposed", "failed"}
TradeEnds  == {"booked", "unbooked", "dead"}

VARIABLES
    strategy,  \* opp.strategy
    trade,     \* where runScan is with the trade
    at,        \* the order each job awaits, "check" before, or how it ended
    sends,     \* failed sends of that order in this attempt
    tries,     \* failed attempts at it in this pass
    pass,      \* the pass of the order helper
    fills,     \* fills[j][o]: how often the exchange filled the order
    lost,      \* jobs with an order that was filled and nobody told
    misread    \* orders of each job for which a foreign answer was taken

loopVars    == <<sends, tries, pass>>
historyVars == <<fills, lost, misread>>
vars == <<strategy, trade, at, loopVars, historyVars>>

TypeOK ==
    /\ strategy \in Strategies
    /\ trade \in {"idle", "running"} \union TradeEnds
    /\ at \in [Job -> {"check"} \union Orders \union JobEnds]
    /\ sends \in [Job -> Nat] /\ (\A j \in Job : sends[j] < MaxSends[j])
    /\ tries \in [Job -> Nat] /\ (\A j \in Job : tries[j] <= MaxRetries[j])
    /\ pass \in [Job -> Nat \ {0}] /\ (\A j \in Job : pass[j] <= MaxPasses[j])
    /\ fills \in [Job -> [Orders -> Nat]]
    /\ lost \subseteq Job
    /\ misread \in [Job -> SUBSET Orders]

-----------------------------------------------------------------------------
Hedged  == strategy \in {"cex", "scalp_parallel"}
Batched == strategy \in {"scalp_parallel", "statistical"}

\* The jobs of this trade.
Jobs == {j \in Job : \/ strategy = "scalp_parallel" /\ j \in Legs
                     \/ strategy = "statistical" /\ j \in {Buyer, Seller}
                     \/ ~Batched /\ j = Main}

FirstOrder(j) == CASE Hedged                    -> "buy"
                   [] strategy = "triangular"   -> "leg1"
                   [] strategy = "perps"        -> "open"
                   [] OTHER                     -> IF j = Buyer THEN "buy" ELSE "sell"

\* Mutated forms: the third leg forgotten; a failed hedge told as a closed one.
AfterAnswerShort(j) == CASE at[j] = "hedge"           -> "closed"
                         [] at[j] = "buy" /\ Hedged   -> "sell"
                         [] at[j] = "leg1"            -> "leg2"
                         [] OTHER                     -> "traded"
AfterThrowSilent(j) == CASE at[j] = "sell" /\ Hedged -> "hedge"
                         [] at[j] = "hedge"          -> "closed"
                         [] at[j] = "buy" /\ Hedged  -> "refused"
                         [] OTHER                    -> "failed"

\* Where a job goes when the order it awaits resolves, and when it throws.
AfterAnswer(j) == CASE at[j] = "hedge"             -> "closed"
                    [] at[j] = "buy" /\ Hedged     -> "sell"
                    [] at[j] = "leg1"              -> "leg2"
                    [] at[j] = "leg2"              -> "leg3"
                    [] OTHER                       -> "traded"

AfterThrow(j) == CASE at[j] = "sell" /\ Hedged -> "hedge"
                   [] at[j] = "hedge"          -> "exposed"
                   [] at[j] = "buy" /\ Hedged  -> "refused"
                   [] OTHER                    -> "failed"

\* Job j leaves the order it awaits for next.
Leave(j, next) ==
    /\ at' = [at EXCEPT ![j] = next]
    /\ sends' = [sends EXCEPT ![j] = 0]
    /\ tries' = [tries EXCEPT ![j] = 0]
    /\ pass' = [pass EXCEPT ![j] = 1]

Filled(j) == fills' = [fills EXCEPT ![j][at[j]] = @ + 1]

\* The sender is not told: the order was not filled, or it was.
FilledOrNot(j) ==
    \/ UNCHANGED <<fills, lost>>
    \/ Unsure /\ Filled(j) /\ lost' = lost \union {j}

\* Mutated form of PassFailed: after its last key the helper begins anew.
PassFailedAgain(j) ==
    \/ /\ pass' = [pass EXCEPT ![j] = IF @ < MaxPasses[j] THEN @ + 1 ELSE 1]
       /\ tries' = [tries EXCEPT ![j] = 0]
       /\ sends' = [sends EXCEPT ![j] = 0]
       /\ UNCHANGED at
    \/ Leave(j, AfterThrow(j))

\* The order failed in this pass: the helper's next pass, or it throws.
PassFailed(j) ==
    \/ /\ pass[j] < MaxPasses[j]
       /\ pass' = [pass EXCEPT ![j] = @ + 1]
       /\ tries' = [tries EXCEPT ![j] = 0]
       /\ sends' = [sends EXCEPT ![j] = 0]
       /\ UNCHANGED at
    \/ Leave(j, AfterThrow(j))

Awaiting(j) == trade = "running" /\ j \in Jobs /\ at[j] \in Orders

-----------------------------------------------------------------------------
Init ==
    /\ strategy \in Strategies
    /\ trade = "idle"
    /\ at = [j \in Job |-> "check"]
    /\ sends = [j \in Job |-> 0]
    /\ tries = [j \in Job |-> 0]
    /\ pass = [j \in Job |-> 1]
    /\ fills = [j \in Job |-> [o \in Orders |-> 0]]
    /\ lost = {}
    /\ misread = [j \in Job |-> {}]

\* executeTrade is called.
Begin ==
    /\ trade = "idle"
    /\ trade' = "running"
    /\ UNCHANGED <<strategy, at, loopVars, historyVars>>

\* The credentials, plan or balance checks pass: the job's first order.
PassChecks(j) ==
    /\ trade = "running" /\ j \in Jobs /\ at[j] = "check"
    /\ Leave(j, FirstOrder(j))
    /\ UNCHANGED <<strategy, trade, historyVars>>

\* They throw.  A statistical trade is checked once, before its batch.
FailChecks(j) ==
    /\ trade = "running" /\ j \in Jobs /\ at[j] = "check"
    /\ IF strategy = "statistical"
       THEN /\ \A k \in Jobs : at[k] = "check"
            /\ trade' = "unbooked"
            /\ UNCHANGED <<at, loopVars>>
       ELSE Leave(j, "refused") /\ UNCHANGED trade
    /\ UNCHANGED <<strategy, historyVars>>

\* Mutated form of Answer: an answered order is sent once more.
AnswerResent(j) ==
    /\ Awaiting(j)
    /\ Filled(j)
    /\ \/ Leave(j, AfterAnswer(j))
       \/ /\ tries[j] = 0
          /\ tries' = [tries EXCEPT ![j] = 1]
          /\ UNCHANGED <<at, sends, pass>>
    /\ UNCHANGED <<strategy, trade, lost, misread>>

\* The exchange fills the order and says so.
Answer(j) ==
    /\ Awaiting(j)
    /\ Filled(j)
    /\ Leave(j, AfterAnswer(j))
    /\ UNCHANGED <<strategy, trade, lost, misread>>

\* Somebody else's JSON arrives, such as the gateway's {error: 'Unauthorized'}.
\* The spot helpers of MEXC and Binance take any body without `code` for an order
\* placed and look at no status; placeMEXCFuturesOrder wants `success`.
AnswerForeign(j) ==
    /\ Awaiting(j)
    /\ Foreign /\ strategy # "perps"
    /\ FilledOrNot(j)
    /\ misread' = [misread EXCEPT ![j] = @ \union {at[j]}]
    /\ Leave(j, AfterAnswer(j))
    /\ UNCHANGED <<strategy, trade>>

\* The exchange refuses the order; secureFetch does not send it again.
Reject(j) ==
    /\ Awaiting(j)
    /\ PassFailed(j)
    /\ UNCHANGED <<strategy, trade, historyVars>>

\* Mutated form of Resend: the direct send that ends the loop begins it again.
ResendRound(j) ==
    /\ Awaiting(j)
    /\ FilledOrNot(j)
    /\ sends' = [sends EXCEPT ![j] = (@ + 1) % MaxSends[j]]
    /\ UNCHANGED <<strategy, trade, at, tries, pass, misread>>

\* A proxy fails the order, with a network error, its 10-second abort or an answer
\* that is the proxy's own: the pool sends it by the next way it has.
Resend(j) ==
    /\ Awaiting(j)
    /\ FilledOrNot(j)
    /\ sends[j] < MaxSends[j] - 1
    /\ sends' = [sends EXCEPT ![j] = @ + 1]
    /\ UNCHANGED <<strategy, trade, at, tries, pass, misread>>

\* Mutated form of FailAttempt: one retry too many.
FailAttemptOnceMore(j) ==
    /\ Awaiting(j)
    /\ FilledOrNot(j)
    /\ \/ /\ tries[j] <= MaxRetries[j]
          /\ tries' = [tries EXCEPT ![j] = @ + 1]
          /\ sends' = [sends EXCEPT ![j] = 0]
          /\ UNCHANGED <<at, pass>>
       \/ /\ tries[j] > MaxRetries[j]
          /\ PassFailed(j)
    /\ UNCHANGED <<strategy, trade, misread>>

\* A 429 or 5xx answer, or a network error of the last way: secureFetch makes
\* another attempt while retries last.
FailAttempt(j) ==
    /\ Awaiting(j)
    /\ FilledOrNot(j)
    /\ \/ /\ tries[j] < MaxRetries[j]
          /\ tries' = [tries EXCEPT ![j] = @ + 1]
          /\ sends' = [sends EXCEPT ![j] = 0]
          /\ UNCHANGED <<at, pass>>
       \/ /\ tries[j] = MaxRetries[j]
          /\ PassFailed(j)
    /\ UNCHANGED <<strategy, trade, misread>>

\* The 15-second abort, whose signal stays aborted so that every direct send after
\* it fails at once; or the body of a good answer cannot be read.
TimeOut(j) ==
    /\ Awaiting(j)
    /\ FilledOrNot(j)
    /\ PassFailed(j)
    /\ UNCHANGED <<strategy, trade, misread>>

\* Mutated form of Conclude: a batch without its catch, which a thrown leg
\* leaves unsettled.
ConcludeAllTraded ==
    /\ trade = "running"
    /\ \A j \in Jobs : at[j] = "traded"
    /\ trade' = "booked"
    /\ UNCHANGED <<strategy, at, loopVars, historyVars>>

\* executeTrade resolves when its one job traded, and always after a batch;
\* runScan books the estimated profit of a trade that resolved.
Conclude ==
    /\ trade = "running"
    /\ \A j \in Jobs : at[j] \in JobEnds
    /\ trade' = IF Batched \/ at[Main] = "traded" THEN "booked" ELSE "unbooked"
    /\ UNCHANGED <<strategy, at, loopVars, historyVars>>

Die ==
    /\ Crashes
    /\ trade = "running"
    /\ trade' = "dead"
    /\ UNCHANGED <<strategy, at, loopVars, historyVars>>

Finished == trade \in TradeEnds /\ UNCHANGED vars

JobStep(j) ==
    \/ PassChecks(j)
    \/ FailChecks(j)
    \/ Answer(j)
    \/ AnswerForeign(j)
    \/ Reject(j)
    \/ Resend(j)
    \/ FailAttempt(j)
    \/ TimeOut(j)

Next == Begin \/ (\E j \in Job : JobStep(j)) \/ Conclude \/ Die \/ Finished

Spec == Init /\ [][Next]_vars

\* Every send settles, at the latest when its 10 or 15 seconds are over.
FairSpec == Spec /\ (\A j \in Job : WF_vars(JobStep(j))) /\ WF_vars(Conclude)

-----------------------------------------------------------------------------
(* What the trade leaves behind. *)

\* An order is sent again only after a send that failed, so it is filled more than
\* once only when an exchange filled one and the sender was not told.
NoOrderFilledTwiceUnlessUnanswered ==
    \A j \in Job, o \in Orders : fills[j][o] > 1 => j \in lost

\* The sends of one attempt, of one pass and of a whole order of job j.
SendsOfPass(j) == (MaxRetries[j] + 1) * MaxSends[j]
SendsOfOrder(j) == MaxPasses[j] * SendsOfPass(j)

\* The ways of the proxy pool, the retries of secureFetch and the passes of the
\* order helper multiply, and so does what an exchange that never says so may fill,
\* no further: no order is filled more often than that, and a hedge does not begin
\* with anything spent.
OrderFillsAreBounded ==
    \A j \in Job, o \in Orders : fills[j][o] <= SendsOfOrder(j)

\* What is left of a job: the sends of its stages to come, less those made of the
\* order it is at.
Spent(j) == (pass[j] - 1) * SendsOfPass(j) + tries[j] * MaxSends[j] + sends[j]

StagesLeft(j) == CASE at[j] = "check"                      -> 4
                   [] at[j] \in {"buy", "leg1"}            -> 3
                   [] at[j] \in {"sell", "leg2"}           -> 2
                   [] at[j] \in {"hedge", "leg3", "open"}  -> 1
                   [] OTHER                                -> 0

SendsLeft(j) == StagesLeft(j) * SendsOfOrder(j) - Spent(j)

\* No proxy, retry, pass or hedge starts over: every step of a job uses up one of
\* the sends it had left, whatever the exchange answers, or ends the trade.
EveryStepUsesUpASend ==
    [][\A j \in Job : JobStep(j) =>
         /\ \/ trade' \in TradeEnds
            \/ 0 <= SendsLeft(j)' /\ SendsLeft(j)' < SendsLeft(j)
         /\ \A k \in Job \ {j} : SendsLeft(k)' = SendsLeft(k)]_vars

\* A trade booked as executed did trade on every leg, except one whose answer was
\* not the exchange's, and except in a batch, whose results nobody looks at.
LegsOf == CASE Hedged                   -> {"buy", "sell"}
            [] strategy = "triangular"  -> {"leg1", "leg2", "leg3"}
            [] OTHER                    -> {"open"}

Made(j, o) == fills[j][o] >= 1 \/ o \in misread[j]

BookedTradeWasMade ==
    trade = "booked" /\ ~Batched =>
        /\ \A o \in LegsOf : Made(Main, o)
        /\ strategy = "perps" => fills[Main]["open"] >= 1

\* "Statistical arbitrage: buy one symbol, sell the other on same exchange": one
\* that is booked has done both.
BookedPairWasTraded ==
    trade = "booked" /\ strategy = "statistical" =>
        fills[Buyer]["buy"] >= 1 /\ fills[Seller]["sell"] >= 1

\* Every trade that was begun ends: no retry or hedge loop runs for ever.
EveryTradeEnds == trade = "running" ~> trade \in TradeEnds

\* Each buy-and-sell job keeps the promise of TwoLegTrade: its error messages
\* ("hedge closed residual exposure", "open exposure") tell the position left,
\* unless an answer was lost or not the exchange's, or the worker died.
Net(j) == IF Hedged THEN fills[j]["buy"] - fills[j]["sell"] - fills[j]["hedge"] ELSE 0

Verdict(j) == IF ~Hedged \/ j \notin Jobs THEN "none"
              ELSE IF at[j] \in JobEnds THEN at[j]
              ELSE IF trade = "dead" THEN "died" ELSE "none"

Doubt(j) == Hedged /\ (j \in lost \/ misread[j] # {})

TwoLeg(j) == INSTANCE TwoLegTrade WITH net <- Net(j), verdict <- Verdict(j),
                                       doubt <- Doubt(j)

HedgeKeepsPromise ==
    /\ \A j \in Job : TwoLeg(j)!Init
    /\ [][\A j \in Job : [TwoLeg(j)!Next]_(TwoLeg(j)!vars)]_vars
=============================================================================
