---------------------------- MODULE GoEngineProofs ----------------------------
(***************************************************************************)
(* Proofs about GoEngine, for any executions, venues and limits.           *)
(*                                                                         *)
(* The strengthening is a conjunction of five parts, each preserved with   *)
(* the help of those before it:                                            *)
(*   Typed     types, and an execution inside the breaker has a venue;     *)
(*   Overlaps  executions in flight together are all in shared;            *)
(*   Booked    what was loaded or stored never exceeds what was added;     *)
(*   Counted   no breaker counts more failures than there were;            *)
(*   Spaced    lastTrade, and every copy of it about to be compared or     *)
(*             written, is not before the end of an execution that was     *)
(*             never in flight with another.                               *)
(***************************************************************************)
EXTENDS GoEngine, TLAPS

InBreaker == {"fail", "tally", "count", "trip", "clear", "close"}

Typed == TypeOK /\ \A e \in Exec : pc[e] \in InBreaker => venue[e] \in Venue

Overlaps == \A e, f \in Exec : e # f /\ {pc[e], pc[f]} \subseteq InFlight => e \in shared

Booked ==
    /\ \A i \in Entry : field[i] <= added[i]
    /\ \A e \in Exec : pc[e] = "store" => reg[e] <= added[entry[e]]
    /\ shared = {} => /\ \A i \in Entry : field[i] = added[i]
                      /\ \A e \in Exec : pc[e] = "store" => reg[e] = added[entry[e]]

Counted ==
    /\ \A v \in Venue : failures[v] <= failed[v]
    /\ \A e \in Exec : pc[e] = "count" => reg[e] <= failed[venue[e]]
    /\ OpenBreakerHadFailures

Spaced ==
    /\ \A e \in Exec : ended[e] <= now /\ (pc[e] = "write" => seen[e] = ended[e])
    /\ ~restarted =>
         \A f \in Exec : pc[f] = "done" /\ f \notin shared =>
            /\ ended[f] <= lastTrade
            /\ \A e \in Exec : pc[e] \in {"guard", "write"} => ended[f] <= seen[e]

-----------------------------------------------------------------------------
\* Every step preserves the types and keeps a venue with the breaker.
LEMMA TypedStep ==
    ASSUME Typed, [Next]_vars
    PROVE  Typed'
<1> USE EngineAssumption
       DEF Typed, TypeOK, InBreaker, InFlight, Over, Entry,
           GoTo, Active, locals, books, breaker, history
<1>1. ASSUME NEW e \in Exec, Enter(e) \/ Step(e)
      PROVE  Typed'
  <2>1. CASE Enter(e)
    BY <2>1 DEF Enter
  <2>2. CASE Refuse(e)
    BY <2>2 DEF Refuse
  <2>3. CASE Admit(e)
    BY <2>3 DEF Admit
  <2>4. CASE Buy(e)
    BY <2>4 DEF Buy
  <2>5. CASE Sell(e)
    BY <2>5 DEF Sell
  <2>6. CASE LoadFailures(e)
    BY <2>6 DEF LoadFailures
  <2>7. CASE CountFailure(e)
    BY <2>7 DEF CountFailure
  <2>8. CASE TripBreaker(e)
    BY <2>8 DEF TripBreaker
  <2>9. CASE ClearFailures(e)
    BY <2>9 DEF ClearFailures
  <2>10. CASE CloseBreaker(e)
    BY <2>10 DEF CloseBreaker
  <2>11. CASE Load(e)
    BY <2>11 DEF Load
  <2>12. CASE Store(e)
    BY <2>12 DEF Store
  <2>13. CASE Stamp(e)
    BY <2>13 DEF Stamp
  <2>14. CASE WriteLastTrade(e)
    BY <2>14 DEF WriteLastTrade
  <2>15. CASE ForgetFailures(e)
    BY <2>15 DEF ForgetFailures
  <2> QED  BY <1>1, <2>1, <2>2, <2>3, <2>4, <2>5, <2>6, <2>7,
              <2>8, <2>9, <2>10, <2>11, <2>12, <2>13, <2>14,
              <2>15 DEF Step
<1>2. CASE Restart
  BY <1>2 DEF Restart
<1>3. CASE Tick
  BY <1>3 DEF Tick
<1>4. CASE UNCHANGED vars
  BY <1>4 DEF vars
<1> QED  BY <1>1, <1>2, <1>3, <1>4 DEF Next, Quiescent

\* Executions in flight together stay recorded as such.
LEMMA OverlapsStep ==
    ASSUME Typed, Typed', Overlaps, [Next]_vars
    PROVE  Overlaps'
<1> USE EngineAssumption
       DEF Typed, TypeOK, InBreaker, InFlight, Over, Entry, Overlaps,
           GoTo, Active, locals, books, breaker, history
<1>1. ASSUME NEW e \in Exec, Enter(e) \/ Step(e)
      PROVE  Overlaps'
  <2>1. CASE Enter(e)
    BY <2>1 DEF Enter
  <2>2. CASE Refuse(e)
    BY <2>2 DEF Refuse
  <2>3. CASE Admit(e)
    BY <2>3 DEF Admit
  <2>4. CASE Buy(e)
    BY <2>4 DEF Buy
  <2>5. CASE Sell(e)
    BY <2>5 DEF Sell
  <2>6. CASE LoadFailures(e)
    BY <2>6 DEF LoadFailures
  <2>7. CASE CountFailure(e)
    BY <2>7 DEF CountFailure
  <2>8. CASE TripBreaker(e)
    BY <2>8 DEF TripBreaker
  <2>9. CASE ClearFailures(e)
    BY <2>9 DEF ClearFailures
  <2>10. CASE CloseBreaker(e)
    BY <2>10 DEF CloseBreaker
  <2>11. CASE Load(e)
    BY <2>11 DEF Load
  <2>12. CASE Store(e)
    BY <2>12 DEF Store
  <2>13. CASE Stamp(e)
    BY <2>13 DEF Stamp
  <2>14. CASE WriteLastTrade(e)
    BY <2>14 DEF WriteLastTrade
  <2>15. CASE ForgetFailures(e)
    BY <2>15 DEF ForgetFailures
  <2> QED  BY <1>1, <2>1, <2>2, <2>3, <2>4, <2>5, <2>6, <2>7,
              <2>8, <2>9, <2>10, <2>11, <2>12, <2>13, <2>14,
              <2>15 DEF Step
<1>2. CASE Restart
  BY <1>2 DEF Restart
<1>3. CASE Tick
  BY <1>3 DEF Tick
<1>4. CASE UNCHANGED vars
  BY <1>4 DEF vars
<1> QED  BY <1>1, <1>2, <1>3, <1>4 DEF Next, Quiescent

\* Lost updates only lose, and only with two executions in flight.
LEMMA BookedStep ==
    ASSUME Typed, Typed', Overlaps, Overlaps', Booked, [Next]_vars
    PROVE  Booked'
<1> USE EngineAssumption
       DEF Typed, TypeOK, InBreaker, InFlight, Over, Entry, Overlaps, Booked,
           GoTo, Active, locals, books, breaker, history
<1>1. ASSUME NEW e \in Exec, Enter(e) \/ Step(e)
      PROVE  Booked'
  <2>1. CASE Enter(e)
    BY <2>1 DEF Enter
  <2>2. CASE Refuse(e)
    BY <2>2 DEF Refuse
  <2>3. CASE Admit(e)
    BY <2>3 DEF Admit
  <2>4. CASE Buy(e)
    BY <2>4 DEF Buy
  <2>5. CASE Sell(e)
    BY <2>5 DEF Sell
  <2>6. CASE LoadFailures(e)
    BY <2>6 DEF LoadFailures
  <2>7. CASE CountFailure(e)
    BY <2>7 DEF CountFailure
  <2>8. CASE TripBreaker(e)
    BY <2>8 DEF TripBreaker
  <2>9. CASE ClearFailures(e)
    BY <2>9 DEF ClearFailures
  <2>10. CASE CloseBreaker(e)
    BY <2>10 DEF CloseBreaker
  <2>11. CASE Load(e)
    BY <2>11 DEF Load
  <2>12. CASE Store(e)
    BY <2>12 DEF Store
  <2>13. CASE Stamp(e)
    BY <2>13 DEF Stamp
  <2>14. CASE WriteLastTrade(e)
    BY <2>14 DEF WriteLastTrade
  <2>15. CASE ForgetFailures(e)
    BY <2>15 DEF ForgetFailures
  <2> QED  BY <1>1, <2>1, <2>2, <2>3, <2>4, <2>5, <2>6, <2>7,
              <2>8, <2>9, <2>10, <2>11, <2>12, <2>13, <2>14,
              <2>15 DEF Step
<1>2. CASE Restart
  BY <1>2 DEF Restart
<1>3. CASE Tick
  BY <1>3 DEF Tick
<1>4. CASE UNCHANGED vars
  BY <1>4 DEF vars
<1> QED  BY <1>1, <1>2, <1>3, <1>4 DEF Next, Quiescent

\* The breaker never counts more failures than there were.
LEMMA CountedStep ==
    ASSUME Typed, Typed', Counted, [Next]_vars
    PROVE  Counted'
<1> USE EngineAssumption
       DEF Typed, TypeOK, InBreaker, InFlight, Over, Entry, Counted, OpenBreakerHadFailures,
           GoTo, Active, locals, books, breaker, history
<1>1. ASSUME NEW e \in Exec, Enter(e) \/ Step(e)
      PROVE  Counted'
  <2>1. CASE Enter(e)
    BY <2>1 DEF Enter
  <2>2. CASE Refuse(e)
    BY <2>2 DEF Refuse
  <2>3. CASE Admit(e)
    BY <2>3 DEF Admit
  <2>4. CASE Buy(e)
    BY <2>4 DEF Buy
  <2>5. CASE Sell(e)
    BY <2>5 DEF Sell
  <2>6. CASE LoadFailures(e)
    BY <2>6 DEF LoadFailures
  <2>7. CASE CountFailure(e)
    BY <2>7 DEF CountFailure
  <2>8. CASE TripBreaker(e)
    BY <2>8 DEF TripBreaker
  <2>9. CASE ClearFailures(e)
    BY <2>9 DEF ClearFailures
  <2>10. CASE CloseBreaker(e)
    BY <2>10 DEF CloseBreaker
  <2>11. CASE Load(e)
    BY <2>11 DEF Load
  <2>12. CASE Store(e)
    BY <2>12 DEF Store
  <2>13. CASE Stamp(e)
    BY <2>13 DEF Stamp
  <2>14. CASE WriteLastTrade(e)
    BY <2>14 DEF WriteLastTrade
  <2>15. CASE ForgetFailures(e)
    BY <2>15 DEF ForgetFailures
  <2> QED  BY <1>1, <2>1, <2>2, <2>3, <2>4, <2>5, <2>6, <2>7,
              <2>8, <2>9, <2>10, <2>11, <2>12, <2>13, <2>14,
              <2>15 DEF Step
<1>2. CASE Restart
  BY <1>2 DEF Restart
<1>3. CASE Tick
  BY <1>3 DEF Tick
<1>4. CASE UNCHANGED vars
  BY <1>4 DEF vars
<1> QED  BY <1>1, <1>2, <1>3, <1>4 DEF Next, Quiescent

\* Time stamps move on unless two executions were in flight.
LEMMA SpacedStep ==
    ASSUME Typed, Typed', Overlaps, Spaced, [Next]_vars
    PROVE  Spaced'
<1> USE EngineAssumption
       DEF Typed, TypeOK, InBreaker, InFlight, Over, Entry, Overlaps, Spaced,
           GoTo, Active, locals, books, breaker, history
<1>1. ASSUME NEW e \in Exec, Enter(e) \/ Step(e)
      PROVE  Spaced'
  <2>1. CASE Enter(e)
    BY <2>1 DEF Enter
  <2>2. CASE Refuse(e)
    BY <2>2 DEF Refuse
  <2>3. CASE Admit(e)
    BY <2>3 DEF Admit
  <2>4. CASE Buy(e)
    BY <2>4 DEF Buy
  <2>5. CASE Sell(e)
    BY <2>5 DEF Sell
  <2>6. CASE LoadFailures(e)
    BY <2>6 DEF LoadFailures
  <2>7. CASE CountFailure(e)
    BY <2>7 DEF CountFailure
  <2>8. CASE TripBreaker(e)
    BY <2>8 DEF TripBreaker
  <2>9. CASE ClearFailures(e)
    BY <2>9 DEF ClearFailures
  <2>10. CASE CloseBreaker(e)
    BY <2>10 DEF CloseBreaker
  <2>11. CASE Load(e)
    BY <2>11 DEF Load
  <2>12. CASE Store(e)
    BY <2>12 DEF Store
  <2>13. CASE Stamp(e)
    BY <2>13 DEF Stamp
  <2>14. CASE WriteLastTrade(e)
    BY <2>14 DEF WriteLastTrade
  <2>15. CASE ForgetFailures(e)
    BY <2>15 DEF ForgetFailures
  <2> QED  BY <1>1, <2>1, <2>2, <2>3, <2>4, <2>5, <2>6, <2>7,
              <2>8, <2>9, <2>10, <2>11, <2>12, <2>13, <2>14,
              <2>15 DEF Step
<1>2. CASE Restart
  BY <1>2 DEF Restart
<1>3. CASE Tick
  BY <1>3 DEF Tick
<1>4. CASE UNCHANGED vars
  BY <1>4 DEF vars
<1> QED  BY <1>1, <1>2, <1>3, <1>4 DEF Next, Quiescent

IInv == Typed /\ Overlaps /\ Booked /\ Counted /\ Spaced

\* The initial states satisfy the strengthening.
LEMMA InitIInv == Init => IInv
<1> SUFFICES ASSUME Init PROVE IInv
  OBVIOUS
<1>1. Typed
  <2>1. /\ now \in Nat /\ lastTrade \in Nat /\ live \in BOOLEAN
        /\ shared \subseteq Exec /\ restarted \in BOOLEAN
    BY EngineAssumption DEF Init
  <2>2. /\ seen \in [Exec -> Nat] /\ reg \in [Exec -> Nat] /\ ended \in [Exec -> Nat]
        /\ entry \in [Exec -> Entry] /\ venue \in [Exec -> Venue \union {NoVenue}]
        /\ pc \in [Exec -> {"idle"} \union InFlight \union Over]
    BY DEF Init, Entry
  <2>3. /\ field \in [Entry -> Nat] /\ added \in [Entry -> Nat]
        /\ failures \in [Venue -> Nat] /\ lastFail \in [Venue -> Nat]
        /\ failed \in [Venue -> Nat] /\ open \in [Venue -> BOOLEAN]
    BY DEF Init
  <2>4. \A e \in Exec : pc[e] \in InBreaker => venue[e] \in Venue
    BY DEF Init, InBreaker
  <2> QED  BY <2>1, <2>2, <2>3, <2>4 DEF Typed, TypeOK
<1>2. Overlaps
  BY DEF Init, Overlaps, InFlight
<1>3. Booked
  BY DEF Init, Booked
<1>4. Counted
  BY DEF Init, Counted, OpenBreakerHadFailures
<1>5. Spaced
  BY EngineAssumption DEF Init, Spaced
<1> QED  BY <1>1, <1>2, <1>3, <1>4, <1>5 DEF IInv

\* The strengthening always holds.
LEMMA Inductive == Spec => []IInv
<1>1. IInv /\ [Next]_vars => IInv'
  BY TypedStep, OverlapsStep, BookedStep, CountedStep, SpacedStep DEF IInv
<1> QED  BY InitIInv, <1>1, PTL DEF Spec

-----------------------------------------------------------------------------
\* The state of the engine stays within its types.
THEOREM TypeCorrect == Spec => []TypeOK
<1>1. IInv => TypeOK  BY DEF IInv, Typed
<1> QED  BY Inductive, <1>1, PTL

\* For any number of executions, equity, dailyPnL and dailyTrades never show more
\* than was traded, and lose something only when executions overlap.
THEOREM BooksLoseByOverlap == Spec => []BooksOnlyLoseByOverlap
<1>1. IInv => BooksOnlyLoseByOverlap  BY DEF IInv, Booked, BooksOnlyLoseByOverlap
<1> QED  BY Inductive, <1>1, PTL

\* For any number of executions and venues, a breaker is open only after
\* cbMaxFailures failed buys.
THEOREM OpenBreakerIsEarned == Spec => []OpenBreakerHadFailures
<1>1. IInv => OpenBreakerHadFailures  BY DEF IInv, Counted
<1> QED  BY Inductive, <1>1, PTL

\* For any number of executions and any spacing, MinSecondsBetweenTx is missed
\* only after an execution that overlapped another, or a restart.
THEOREM SpacingIsKept == Spec => SpacingLostOnlyByOverlap
<1> DEFINE Kept == \A e, f \in Exec :
                     /\ Admit(e)
                     /\ pc[f] = "done"
                     /\ now - ended[f] < MinGap
                     => f \in shared \/ restarted
<1>1. IInv => Kept
  <2> SUFFICES ASSUME IInv, NEW e \in Exec, NEW f \in Exec, Admit(e),
                      pc[f] = "done", f \notin shared, ~restarted
               PROVE  ~(now - ended[f] < MinGap)
    OBVIOUS
  <2>1. ended[f] <= seen[e]
    BY DEF IInv, Spaced, Admit
  <2> QED
    BY <2>1, EngineAssumption DEF IInv, Typed, TypeOK, Admit
<1>2. IInv /\ [Next]_vars => [Kept]_vars
  BY <1>1
<1> QED  BY Inductive, <1>2, PTL DEF Spec, SpacingLostOnlyByOverlap
=============================================================================
