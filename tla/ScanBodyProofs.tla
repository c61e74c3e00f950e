--------------------------- MODULE ScanBodyProofs ---------------------------
(***************************************************************************)
(* What ScanBody promises, for every number of scans, symbols and          *)
(* positions, every threshold and every window of the breaker.             *)
(*                                                                         *)
(* A scan with a body takes the steps of ExecutionLock and no others, so   *)
(* what ExecutionLockProofs establishes carries over (BodyIsLocked).       *)
(* The lock's store, D1 and operations on the breaker's record may fail    *)
(* in all of the theorems; gets of that record are consistent.             *)
(***************************************************************************)
EXTENDS ScanBody, ExecutionLockProofs

-----------------------------------------------------------------------------
(* The lock under the body. *)

LEMMA LockInit == BodyInit => Init
BY DEF BodyInit

\* A step of the body leaves the lock alone or is a step of the lock.
LEMMA BodyLock == [BodyNext]_allVars => [Next]_vars
<1> SUFFICES ASSUME [BodyNext]_allVars PROVE [Next]_vars
    OBVIOUS
<1>1. ASSUME NEW s \in Scan, LockStep(s) \/ DieInBody(s) \/ FinishBody(s)
      PROVE  [Next]_vars
    BY <1>1 DEF LockStep, DieInBody, FinishBody, Next, Step
<1>2. ASSUME NEW s \in Scan, BodyStep(s), ~FinishBody(s) PROVE [Next]_vars
    BY <1>2 DEF BodyStep, LoadBreaker, TrimRecord, StartBatch, Ask, Answer, Miss,
                HandlerThrows, SaveBreaker, PutLands, PutIsLost, ReadPositions,
                ClosePosition, OpenPosition, BookResult, EndSettlement
<1>3. CASE ReadToEdit \/ PutEdited
    BY <1>3 DEF ReadToEdit, PutEdited
<1>4. CASE Surroundings
    BY <1>4 DEF Surroundings, Next
<1>5. CASE UNCHANGED allVars
    BY <1>5 DEF allVars
<1>6. QED
    BY <1>1, <1>2, <1>3, <1>4, <1>5 DEF BodyNext

\* A scan with its body is a scan as the lock sees it.
THEOREM BodyIsLocked == BodySpec => Spec
BY LockInit, BodyLock, PTL DEF BodySpec, Spec

-----------------------------------------------------------------------------
(* The breaker's record. *)

LEMMA NoRecordType == NoRecord \in Venue
<1>1. -1 - ResetWindow \in Int
    BY BreakerAssumption
<1>2. QED
    BY <1>1 DEF NoRecord, Venue

LEMMA AfterFailureType ==
    ASSUME NEW v \in Venue, NEW time \in Nat
    PROVE  AfterFailure(v, time) \in Venue
<1> DEFINE kept  == IF time - v.lastFailure > ResetWindow THEN NoRecord ELSE v
           count == kept.failures + 1
<1>1. kept \in Venue
    BY NoRecordType
<1>2. count \in Nat /\ kept.open \in BOOLEAN /\ kept.cooldownUntil \in Nat
    BY <1>1 DEF Venue
<1> HIDE DEF kept
<1>3. (IF count >= FatalFailures THEN 0 ELSE count) \in Nat
    BY <1>2
<1>4. (kept.open \/ count >= MaxFailures) \in BOOLEAN
    OBVIOUS
<1>5. time + FatalCooldown \in Nat /\ time + Cooldown \in Nat
    BY BreakerAssumption
<1>6. (IF count >= FatalFailures THEN time + FatalCooldown
       ELSE IF count >= MaxFailures THEN time + Cooldown
       ELSE kept.cooldownUntil) \in Nat
    BY <1>2, <1>5
<1>7. time \in Int
    OBVIOUS
<1>8. AfterFailure(v, time) =
        [failures |-> IF count >= FatalFailures THEN 0 ELSE count,
         lastFailure |-> time,
         open |-> kept.open \/ count >= MaxFailures,
         cooldownUntil |-> IF count >= FatalFailures THEN time + FatalCooldown
                           ELSE IF count >= MaxFailures THEN time + Cooldown
                           ELSE kept.cooldownUntil]
    BY DEF AfterFailure, kept
<1>9. QED
    BY <1>3, <1>4, <1>6, <1>7, <1>8 DEF Venue

LEMMA AfterSuccessType ==
    ASSUME NEW v \in Venue
    PROVE  AfterSuccess(v) \in Venue
BY DEF AfterSuccess, Venue

\* A circuit does not open by waiting, and no record is a closed circuit.
LEMMA OpenFades ==
    ASSUME NEW v \in Venue, NEW time \in Nat, IsOpen(v, time + 1)
    PROVE  IsOpen(v, time)
BY BreakerAssumption DEF IsOpen, Venue

LEMMA NoRecordClosed ==
    ASSUME NEW time \in Nat
    PROVE  ~IsOpen(NoRecord, time)
BY DEF IsOpen, NoRecord

-----------------------------------------------------------------------------
(* Typing. *)

LEMMA FailuresBehindType ==
    ASSUME NEW v \in Venue
    PROVE  FailuresBehind(v) \in 0..MaxFailures
BY BreakerAssumption DEF FailuresBehind, Venue

LEMMA BodyTypeInit == BodyInit => BodyTypeOK
<1> SUFFICES ASSUME BodyInit PROVE BodyTypeOK
    OBVIOUS
<1> USE DEF BodyInit
<1>1. TypeOK
    BY TypeInit
<1>2. cb \in Venue /\ latest \in Venue /\ {recorded, streak} \subseteq 0..MaxFailures
    BY BodyAssumption, FailuresBehindType
<1>3. /\ copy \in [Scan -> Venue] /\ outbox \in [Scan -> Venue \union {NoPut}]
      /\ edit \in Venue \union {NoPut}
    BY NoRecordType
<1>4. rows \in [Position -> {"none", "open", "closed"}] /\ trades \subseteq Scan \X Position
    OBVIOUS
<1>5. at \in [Scan -> {"load", "trim", "fetch", "read", "settle", "trade"}]
    OBVIOUS
<1>6. skip \in [Scan -> BOOLEAN]
    OBVIOUS
<1>7. {asked, todo, flight, priced} \subseteq [Scan -> SUBSET Symbol]
    OBVIOUS
<1>8. {found, closing, booked} \subseteq [Scan -> SUBSET Position]
    OBVIOUS
<1>9. upsets \in 0..MaxUpsets
    BY BodyAssumption
<1>10. mishaps \subseteq Mishap /\ served \subseteq Scan /\ unclosed \subseteq Position
    OBVIOUS
<1>11. QED
    BY <1>1, <1>2, <1>3, <1>4, <1>5, <1>6, <1>7, <1>8, <1>9, <1>10 DEF BodyTypeOK

LEMMA UpsetType ==
    ASSUME BodyTypeOK, Rejected \/ Accepted
    PROVE  upsets' \in 0..MaxUpsets
BY BodyAssumption DEF BodyTypeOK, Rejected, Accepted, Upset

LEMMA OneMoreType ==
    ASSUME NEW count \in 0..MaxFailures
    PROVE  OneMore(count) \in 0..MaxFailures /\ count <= OneMore(count)
BY BreakerAssumption DEF OneMore

LEMMA OccurredType ==
    ASSUME BodyTypeOK, NEW mishap \in Mishap, NEW happened, Occurred(mishap, happened)
    PROVE  mishaps' \subseteq Mishap
BY DEF BodyTypeOK, Occurred

\* The types in four parts, each disturbed by few of the steps.
BreakerTypes ==
    /\ cb \in Venue
    /\ outbox \in [Scan -> Venue \union {NoPut}]
    /\ edit \in Venue \union {NoPut}
    /\ copy \in [Scan -> Venue]
    /\ skip \in [Scan -> BOOLEAN]
    /\ latest \in Venue
    /\ recorded \in 0..MaxFailures
    /\ streak \in 0..MaxFailures
    /\ mishaps \subseteq Mishap
    /\ served \subseteq Scan
    /\ upsets \in 0..MaxUpsets

FetchTypes ==
    /\ asked \in [Scan -> SUBSET Symbol]
    /\ todo \in [Scan -> SUBSET Symbol]
    /\ flight \in [Scan -> SUBSET Symbol]
    /\ priced \in [Scan -> SUBSET Symbol]
    /\ at \in [Scan -> {"load", "trim", "fetch", "read", "settle", "trade"}]

LedgerTypes ==
    /\ rows \in [Position -> {"none", "open", "closed"}]
    /\ trades \subseteq Scan \X Position
    /\ found \in [Scan -> SUBSET Position]
    /\ closing \in [Scan -> SUBSET Position]
    /\ booked \in [Scan -> SUBSET Position]
    /\ unclosed \subseteq Position

LEMMA TypesSplit == BodyTypeOK <=> TypeOK /\ BreakerTypes /\ FetchTypes /\ LedgerTypes
BY DEF BodyTypeOK, BreakerTypes, FetchTypes, LedgerTypes

LEMMA BreakerTypeStep == BodyTypeOK /\ [BodyNext]_allVars => BreakerTypes'
<1> SUFFICES ASSUME BodyTypeOK, [BodyNext]_allVars PROVE BreakerTypes'
    OBVIOUS
<1>0. BreakerTypes /\ now \in Nat
    BY TypesSplit DEF TypeOK
<1> USE <1>0 DEF BreakerTypes, breakerVars
<1>1. ASSUME NEW s \in Scan, LoadBreaker(s) PROVE BreakerTypes'
  <2>1. mishaps' \subseteq Mishap /\ upsets' \in 0..MaxUpsets
    BY <1>1, OccurredType, UpsetType DEF LoadBreaker, Mishap
  <2>2. copy' \in [Scan -> Venue] /\ skip' \in [Scan -> BOOLEAN]
    BY <1>1, NoRecordType DEF LoadBreaker, IsOpen
  <2>3. QED
    BY <1>1, <2>1, <2>2 DEF LoadBreaker
<1>2. ASSUME NEW s \in Scan, NEW symbol \in Symbol, Answer(s, symbol) PROVE BreakerTypes'
  <2>1. copy' \in [Scan -> Venue] /\ streak' \in 0..MaxFailures
    BY <1>2, AfterSuccessType, BreakerAssumption DEF Answer
  <2>2. QED
    BY <1>2, <2>1 DEF Answer
<1>3. ASSUME NEW s \in Scan, NEW symbol \in Symbol, Miss(s, symbol) PROVE BreakerTypes'
  <2>1. copy' \in [Scan -> Venue] /\ skip' \in [Scan -> BOOLEAN]
    <3>1. CASE skip[s]
      BY <1>3, <3>1 DEF Miss
    <3>2. CASE ~skip[s]
      <4>1. AfterFailure(copy[s], now) \in Venue
        BY AfterFailureType
      <4>2. copy' = [copy EXCEPT ![s] = AfterFailure(@, now)]
        BY <1>3, <3>2 DEF Miss
      <4>3. copy' \in [Scan -> Venue] /\ copy'[s] = AfterFailure(copy[s], now)
        BY <4>1, <4>2
      <4>4. IsOpen(copy'[s], now) \in BOOLEAN
        BY DEF IsOpen
      <4>5. skip' = [skip EXCEPT ![s] = IsOpen(copy'[s], now)]
        BY <1>3, <3>2 DEF Miss
      <4>6. QED
        BY <4>3, <4>4, <4>5
    <3>3. QED
      BY <3>1, <3>2
  <2>2. recorded' \in 0..MaxFailures /\ streak' \in 0..MaxFailures
    BY <1>3, OneMoreType DEF Miss
  <2>3. QED
    BY <1>3, <2>1, <2>2 DEF Miss
<1>4. ASSUME NEW s \in Scan, SaveBreaker(s) PROVE BreakerTypes'
    BY <1>4, NoRecordType DEF SaveBreaker, Forget
<1>5. ASSUME NEW s \in Scan, PutLands(s) PROVE BreakerTypes'
    BY <1>5 DEF PutLands
<1>6. ASSUME NEW s \in Scan, PutIsLost(s) PROVE BreakerTypes'
  <2>1. mishaps' \subseteq Mishap /\ upsets' \in 0..MaxUpsets
    BY <1>6, OccurredType, UpsetType DEF PutIsLost, Mishap
  <2>2. QED
    BY <1>6, <2>1 DEF PutIsLost
<1>7. ASSUME NEW s \in Scan, DieInBody(s) PROVE BreakerTypes'
    BY <1>7, NoRecordType DEF DieInBody, Forget
<1>8. CASE Surroundings
    BY <1>8, NoRecordType DEF Surroundings
<1>13. ASSUME NEW s \in Scan, TrimRecord(s) PROVE BreakerTypes'
  <2>1. upsets' \in 0..MaxUpsets
    BY <1>13, UpsetType DEF TrimRecord
  <2>2. QED
    BY <1>13, <2>1 DEF TrimRecord
<1>14. CASE ReadToEdit
  <2>1. upsets' \in 0..MaxUpsets
    BY <1>14, UpsetType DEF ReadToEdit, Rejected
  <2>2. QED
    BY <1>14, <2>1, NoRecordType DEF ReadToEdit
<1>15. CASE PutEdited
  <2>1. upsets' \in 0..MaxUpsets /\ mishaps' \subseteq Mishap
    BY <1>15, UpsetType, OccurredType DEF PutEdited, Mishap
  <2>2. QED
    BY <1>15, <2>1 DEF PutEdited
<1>9. ASSUME NEW s \in Scan,
             \/ LockStep(s) \/ StartBatch(s) \/ EndSettlement(s) \/ FinishBody(s)
             \/ \E p \in Position : OpenPosition(s, p)
             \/ \E symbol \in Symbol : Ask(s, symbol) \/ HandlerThrows(s, symbol)
      PROVE  BreakerTypes'
    BY <1>9 DEF LockStep, StartBatch, EndSettlement, FinishBody, OpenPosition, Ask,
                HandlerThrows, bodyVars
<1>10. ASSUME NEW s \in Scan,
              \/ ReadPositions(s) \/ BookResult(s)
              \/ \E p \in Position : ClosePosition(s, p)
       PROVE  BreakerTypes'
  <2>1. upsets' \in 0..MaxUpsets
    BY <1>10, UpsetType DEF ReadPositions, BookResult, ClosePosition
  <2>2. QED
    BY <1>10, <2>1 DEF ReadPositions, BookResult, ClosePosition
<1>11. CASE UNCHANGED allVars
    BY <1>11 DEF allVars, bodyVars
<1>12. QED
    BY <1>1, <1>2, <1>3, <1>4, <1>5, <1>6, <1>7, <1>8, <1>9, <1>10, <1>11,
       <1>13, <1>14, <1>15 DEF BodyNext, BodyStep

LEMMA FetchTypeStep == BodyTypeOK /\ [BodyNext]_allVars => FetchTypes'
<1> SUFFICES ASSUME BodyTypeOK, [BodyNext]_allVars PROVE FetchTypes'
    OBVIOUS
<1>0. FetchTypes
    BY TypesSplit
<1> USE <1>0 DEF FetchTypes, fetchVars, MoveTo
<1>1. ASSUME NEW s \in Scan, LoadBreaker(s) \/ TrimRecord(s) PROVE FetchTypes'
    BY <1>1 DEF LoadBreaker, TrimRecord
<1>9. ASSUME NEW s \in Scan, StartBatch(s) PROVE FetchTypes'
  <2>1. PICK batch \in SUBSET todo[s] :
          /\ flight' = [flight EXCEPT ![s] = batch]
          /\ todo' = [todo EXCEPT ![s] = @ \ batch]
    BY <1>9 DEF StartBatch
  <2>2. flight' \in [Scan -> SUBSET Symbol] /\ todo' \in [Scan -> SUBSET Symbol]
    BY <2>1
  <2>3. UNCHANGED <<asked, priced, at>>
    BY <1>9 DEF StartBatch
  <2>4. QED
    BY <2>2, <2>3
<1>2. ASSUME NEW s \in Scan, NEW symbol \in Symbol,
             \/ Ask(s, symbol) \/ Answer(s, symbol) \/ Miss(s, symbol)
             \/ HandlerThrows(s, symbol)
      PROVE  FetchTypes'
    BY <1>2 DEF Ask, Answer, Miss, HandlerThrows, Handled
<1>3. ASSUME NEW s \in Scan, SaveBreaker(s) \/ ReadPositions(s) \/ EndSettlement(s)
      PROVE  FetchTypes'
    BY <1>3 DEF SaveBreaker, ReadPositions, EndSettlement
<1>4. ASSUME NEW s \in Scan, DieInBody(s) \/ FinishBody(s) PROVE FetchTypes'
    BY <1>4 DEF DieInBody, FinishBody
<1>5. ASSUME NEW s \in Scan,
             \/ LockStep(s) \/ PutLands(s) \/ PutIsLost(s) \/ BookResult(s)
             \/ \E p \in Position : ClosePosition(s, p) \/ OpenPosition(s, p)
      PROVE  FetchTypes'
    BY <1>5 DEF LockStep, PutLands, PutIsLost, BookResult, ClosePosition,
                OpenPosition, bodyVars
<1>6. CASE ReadToEdit \/ PutEdited \/ Surroundings
    BY <1>6 DEF ReadToEdit, PutEdited, Surroundings
<1>7. CASE UNCHANGED allVars
    BY <1>7 DEF allVars, bodyVars
<1>8. QED
    BY <1>1, <1>2, <1>3, <1>4, <1>5, <1>6, <1>7, <1>9 DEF BodyNext, BodyStep

LEMMA LedgerTypeStep == BodyTypeOK /\ [BodyNext]_allVars => LedgerTypes'
<1> SUFFICES ASSUME BodyTypeOK, [BodyNext]_allVars PROVE LedgerTypes'
    OBVIOUS
<1>0. LedgerTypes
    BY TypesSplit
<1> USE <1>0 DEF LedgerTypes, ledgerVars
<1>1. ASSUME NEW s \in Scan, ReadPositions(s) \/ EndSettlement(s) PROVE LedgerTypes'
    BY <1>1 DEF ReadPositions, EndSettlement
<1>2. ASSUME NEW s \in Scan, NEW p \in Position, ClosePosition(s, p) PROVE LedgerTypes'
    BY <1>2 DEF ClosePosition
<1>3. ASSUME NEW s \in Scan, NEW p \in Position, OpenPosition(s, p) PROVE LedgerTypes'
    BY <1>3 DEF OpenPosition
<1>4. ASSUME NEW s \in Scan, BookResult(s) PROVE LedgerTypes'
  <2>1. {s} \X closing[s] \subseteq Scan \X Position
    OBVIOUS
  <2>2. QED
    BY <1>4, <2>1 DEF BookResult
<1>5. ASSUME NEW s \in Scan, DieInBody(s) PROVE LedgerTypes'
    BY <1>5 DEF DieInBody
<1>6. ASSUME NEW s \in Scan,
             \/ LockStep(s) \/ LoadBreaker(s) \/ TrimRecord(s) \/ StartBatch(s)
             \/ SaveBreaker(s) \/ PutLands(s) \/ PutIsLost(s) \/ FinishBody(s)
             \/ \E symbol \in Symbol :
                  \/ Ask(s, symbol) \/ Answer(s, symbol) \/ Miss(s, symbol)
                  \/ HandlerThrows(s, symbol)
      PROVE  LedgerTypes'
    BY <1>6 DEF LockStep, LoadBreaker, TrimRecord, StartBatch, SaveBreaker, PutLands,
                PutIsLost, FinishBody, Ask, Answer, Miss, HandlerThrows, bodyVars
<1>7. CASE ReadToEdit \/ PutEdited \/ Surroundings
    BY <1>7 DEF ReadToEdit, PutEdited, Surroundings
<1>8. CASE UNCHANGED allVars
    BY <1>8 DEF allVars, bodyVars
<1>9. QED
    BY <1>1, <1>2, <1>3, <1>4, <1>5, <1>6, <1>7, <1>8 DEF BodyNext, BodyStep

LEMMA BodyTypeStep == BodyTypeOK /\ [BodyNext]_allVars => BodyTypeOK'
<1> SUFFICES ASSUME BodyTypeOK, [BodyNext]_allVars PROVE BodyTypeOK'
    OBVIOUS
<1>1. TypeOK'
    BY TypesSplit, BodyLock, TypeStep
<1>2. BreakerTypes' /\ FetchTypes' /\ LedgerTypes'
    BY BreakerTypeStep, FetchTypeStep, LedgerTypeStep
<1>3. (BodyTypeOK <=> TypeOK /\ BreakerTypes /\ FetchTypes /\ LedgerTypes)'
    BY TypesSplit, PTL
<1>4. QED
    BY <1>1, <1>2, <1>3

\* The state of every scan's body stays well typed.
THEOREM BodyTypeCorrect == BodySpec => []BodyTypeOK
BY BodyTypeInit, BodyTypeStep, PTL DEF BodySpec

-----------------------------------------------------------------------------
(* Where a scan's memory is in use. *)

\* Only a scan that holds the lock is inside the body, and what it remembers for
\* one part of the body is empty in the others; a scan that died between an
\* UPDATE and its booking keeps the record of it.
Places ==
    \A s \in Scan :
        /\ pc[s] # "hold" => at[s] = "load"
        /\ skip[s] => In(s, "trim") \/ In(s, "fetch")
        /\ flight[s] # {} => In(s, "fetch")
        /\ asked[s] \subseteq flight[s]
        /\ found[s] # {} => In(s, "settle")
        /\ closing[s] # {} => In(s, "settle") \/ pc[s] = "dead"

LEMMA PlacesInit == BodyInit => Places
BY DEF BodyInit, Init, Places

LEMMA PlacesStep == BodyTypeOK /\ Places /\ [BodyNext]_allVars => Places'
<1> SUFFICES ASSUME BodyTypeOK, Places, [BodyNext]_allVars PROVE Places'
    OBVIOUS
<1>0. /\ pc \in [Scan -> {"idle"} \union Working \union Ended]
      /\ FetchTypes /\ LedgerTypes /\ skip \in [Scan -> BOOLEAN]
    BY TypesSplit DEF TypeOK, BreakerTypes
<1> USE <1>0 DEF Places, In, MoveTo, FetchTypes, LedgerTypes, vars
<1>1. ASSUME NEW s \in Scan, LockStep(s) PROVE Places'
  <2>1. pc[s] \notin {"hold", "dead"} /\ \A r \in Scan \ {s} : pc'[r] = pc[r]
    BY <1>1 DEF LockStep, Start, ReadLock, WriteLock, VerifyLock, CompareToken,
                DeleteLock, GoTo
  <2>2. UNCHANGED <<at, skip, asked, flight, found, closing>>
    BY <1>1 DEF LockStep, bodyVars, breakerVars, fetchVars, ledgerVars
  <2>3. QED
    BY <2>1, <2>2
<1>2. ASSUME NEW s \in Scan, DieInBody(s) PROVE Places'
    BY <1>2 DEF DieInBody, Die, GoTo, Forget
<1>3. ASSUME NEW s \in Scan, FinishBody(s) PROVE Places'
    BY <1>3 DEF FinishBody, FinishScan, GoTo, breakerVars, fetchVars, ledgerVars
<1>4. ASSUME NEW s \in Scan, LoadBreaker(s) PROVE Places'
  <2>1. /\ In(s, "load")
        /\ \E part \in {"trim", "fetch"} : at' = [at EXCEPT ![s] = part]
        /\ UNCHANGED <<pc, asked, flight, found, closing>>
    BY <1>4 DEF LoadBreaker, ledgerVars
  <2>2. \A r \in Scan \ {s} : skip'[r] = skip[r]
    BY <1>4 DEF LoadBreaker
  <2>3. QED
    BY <2>1, <2>2
<1>16. ASSUME NEW s \in Scan, TrimRecord(s) PROVE Places'
  <2>1. /\ In(s, "trim") /\ at' = [at EXCEPT ![s] = "fetch"]
        /\ UNCHANGED <<pc, skip, asked, flight, found, closing>>
    BY <1>16 DEF TrimRecord, fetchVars, ledgerVars
  <2>2. QED
    BY <2>1
<1>5. ASSUME NEW s \in Scan, StartBatch(s) PROVE Places'
  <2>1. In(s, "fetch") /\ UNCHANGED <<pc, at, skip, found, closing>>
    BY <1>5 DEF StartBatch, breakerVars, ledgerVars
  <2>2. asked' = asked /\ flight[s] = {} /\ \A r \in Scan \ {s} : flight'[r] = flight[r]
    BY <1>5 DEF StartBatch
  <2>3. QED
    BY <2>1, <2>2
<1>6. ASSUME NEW s \in Scan, NEW symbol \in Symbol,
             \/ Ask(s, symbol) \/ Answer(s, symbol) \/ Miss(s, symbol)
             \/ HandlerThrows(s, symbol)
      PROVE  Places'
  <2>1. In(s, "fetch") /\ UNCHANGED <<pc, at, found, closing>>
    BY <1>6 DEF Ask, Answer, Miss, HandlerThrows, Handled, ledgerVars
  <2>2. \A r \in Scan \ {s} :
          flight'[r] = flight[r] /\ asked'[r] = asked[r] /\ skip'[r] = skip[r]
    BY <1>6 DEF Ask, Answer, Miss, HandlerThrows, Handled, breakerVars
  <2>3. asked'[s] \subseteq flight'[s]
    <3>1. CASE Ask(s, symbol)
      <4>1. /\ asked' = [asked EXCEPT ![s] = @ \union {symbol}]
            /\ flight' = flight /\ symbol \in flight[s]
        BY <3>1 DEF Ask
      <4>2. QED
        BY <4>1
    <3>2. CASE ~Ask(s, symbol)
      <4>1. /\ flight' = [flight EXCEPT ![s] = @ \ {symbol}]
            /\ asked' = [asked EXCEPT ![s] = @ \ {symbol}]
        BY <1>6, <3>2 DEF Answer, Miss, HandlerThrows, Handled
      <4>2. QED
        BY <4>1
    <3>3. QED
      BY <3>1, <3>2
  <2>4. QED
    BY <2>1, <2>2, <2>3
<1>7. ASSUME NEW s \in Scan, SaveBreaker(s) PROVE Places'
  <2>1. /\ In(s, "fetch") /\ flight[s] = {} /\ at' = [at EXCEPT ![s] = "read"]
        /\ UNCHANGED <<pc, asked, flight, found, closing>>
        /\ skip' = [skip EXCEPT ![s] = FALSE]
    BY <1>7 DEF SaveBreaker, Forget, fetchVars, ledgerVars
  <2>2. QED
    BY <2>1
<1>8. ASSUME NEW s \in Scan, ReadPositions(s) PROVE Places'
    BY <1>8 DEF ReadPositions, breakerVars, fetchVars
<1>9. ASSUME NEW s \in Scan, EndSettlement(s) PROVE Places'
    BY <1>9 DEF EndSettlement, breakerVars
<1>10. ASSUME NEW s \in Scan, NEW p \in Position, ClosePosition(s, p) PROVE Places'
    BY <1>10 DEF ClosePosition, breakerVars, fetchVars
<1>11. ASSUME NEW s \in Scan, BookResult(s) PROVE Places'
    BY <1>11 DEF BookResult, breakerVars, fetchVars
<1>12. ASSUME NEW s \in Scan,
              PutLands(s) \/ PutIsLost(s) \/ \E p \in Position : OpenPosition(s, p)
       PROVE  Places'
  <2>1. UNCHANGED <<pc, at, skip, asked, flight, found, closing>>
    BY <1>12 DEF PutLands, PutIsLost, OpenPosition, breakerVars, fetchVars, ledgerVars
  <2>2. QED
    BY <2>1
<1>13. CASE ReadToEdit \/ PutEdited \/ Surroundings
  <2>1. UNCHANGED <<pc, at, skip, asked, flight, found, closing>>
    BY <1>13 DEF ReadToEdit, PutEdited, Surroundings, Tick, Propagate, Quiescent,
                 ResetStore, fetchVars, ledgerVars
  <2>2. QED
    BY <2>1
<1>14. CASE UNCHANGED allVars
    BY <1>14 DEF allVars, bodyVars, breakerVars, fetchVars, ledgerVars
<1>15. QED
    BY <1>1, <1>2, <1>3, <1>4, <1>5, <1>6, <1>7, <1>8, <1>9, <1>10, <1>11, <1>12,
       <1>13, <1>14, <1>16 DEF BodyNext, BodyStep

-----------------------------------------------------------------------------
(* The paper ledger, whatever the lock and the store do. *)

\* What is on its way into a scan's books is closed already, or its UPDATE was
\* rejected.
ClosingIsClosed ==
    \A p \in Position : \A s \in Scan :
        p \in closing[s] => rows[p] = "closed" \/ p \in unclosed

\* The steps that leave the ledger's rows and books alone.
LEMMA LedgerUntouched ==
    ASSUME [BodyNext]_allVars,
           ~\E s \in Scan : \/ BookResult(s)
                            \/ \E p \in Position : ClosePosition(s, p) \/ OpenPosition(s, p)
    PROVE  UNCHANGED <<rows, closing, booked, unclosed>>
BY DEF BodyNext, BodyStep, LockStep, DieInBody, LoadBreaker, TrimRecord,
       StartBatch, Ask, Answer, Miss, HandlerThrows, SaveBreaker, PutLands, PutIsLost,
       ReadPositions, EndSettlement, FinishBody, ReadToEdit, PutEdited,
       Surroundings, allVars, bodyVars, ledgerVars

LEMMA LedgerStep ==
    BodyTypeOK /\ Places /\ ClosingIsClosed /\ RowsAndBooksAgree /\ [BodyNext]_allVars
        => ClosingIsClosed' /\ RowsAndBooksAgree'
<1> SUFFICES ASSUME BodyTypeOK, Places, ClosingIsClosed, RowsAndBooksAgree,
                    [BodyNext]_allVars
             PROVE  ClosingIsClosed' /\ RowsAndBooksAgree'
    OBVIOUS
<1>0. LedgerTypes
    BY TypesSplit
<1> USE <1>0 DEF LedgerTypes, ClosingIsClosed, RowsAndBooksAgree, In
<1>1. ASSUME NEW s \in Scan, NEW p \in Position, ClosePosition(s, p)
      PROVE  ClosingIsClosed' /\ RowsAndBooksAgree'
  <2>1. /\ pc[s] = "hold" /\ closing[s] = {} /\ UNCHANGED <<pc, booked>>
        /\ closing' = [closing EXCEPT ![s] = {p}]
    BY <1>1 DEF ClosePosition, vars
  <2>2. \/ rows' = [rows EXCEPT ![p] = "closed"] /\ unclosed' = unclosed
        \/ rows' = rows /\ unclosed' = unclosed \union {p}
    BY <1>1 DEF ClosePosition
  <2>3. QED
    BY <2>1, <2>2
<1>2. ASSUME NEW s \in Scan, BookResult(s)
      PROVE  ClosingIsClosed' /\ RowsAndBooksAgree'
  <2>1. /\ UNCHANGED <<pc, rows, unclosed>>
        /\ closing' = [closing EXCEPT ![s] = {}]
        /\ booked' = [booked EXCEPT ![s] = @ \union closing[s]]
    BY <1>2 DEF BookResult, vars
  <2>2. QED
    BY <2>1
<1>3. ASSUME NEW s \in Scan, NEW p \in Position, OpenPosition(s, p)
      PROVE  ClosingIsClosed' /\ RowsAndBooksAgree'
    BY <1>3 DEF OpenPosition, vars
<1>4. ASSUME UNCHANGED <<rows, closing, booked, unclosed>>
      PROVE  ClosingIsClosed' /\ RowsAndBooksAgree'
  <2>1. \A s \in Scan : closing[s] # {} => pc'[s] \in {"hold", "dead"}
    BY <1>4, PlacesStep DEF Places
  <2>2. QED
    BY <1>4, <2>1
<1>5. QED
    BY <1>1, <1>2, <1>3, <1>4, LedgerUntouched

\* A closed position's result is in the books or on its way there, or went with
\* the scan that closed it; a booked one is closed unless its UPDATE failed.
THEOREM RowsAgreeWithBooks == BodySpec => []RowsAndBooksAgree
<1>1. BodyInit => ClosingIsClosed /\ RowsAndBooksAgree
    BY DEF BodyInit, ClosingIsClosed, RowsAndBooksAgree
<1>2. QED
    BY <1>1, BodyTypeInit, BodyTypeStep, PlacesInit, PlacesStep, LedgerStep, PTL
       DEF BodySpec

-----------------------------------------------------------------------------
(* The paper ledger under the lock. *)

\* What ExecutionLockProofs knows of the lock, for a scan with its body.
LockFacts == TypeOK /\ History /\ DoubleExecutionNeedsExcuse

LEMMA LockHolds == BodySpec => []LockFacts
<1>1. Spec => []DoubleExecutionNeedsExcuse
    BY DoubleExecutionIsExcused
<1>2. Spec => []TypeOK /\ []History
    BY TypeInit, TypeStep, HistoryInit, HistoryStep, PTL DEF Spec
<1>3. QED
    BY <1>1, <1>2, BodyIsLocked, PTL DEF LockFacts

LEMMA ExcuseStays == LockFacts /\ Excused /\ [BodyNext]_allVars => Excused'
BY ExcuseIsKept, BodyLock DEF LockFacts

\* Positions found are open still; of those whose UPDATE got through, none is
\* in the books of two scans, or on its way there and also in another's.
SettledOnce ==
    /\ \A s \in Scan : \A p \in found[s] : rows[p] = "open"
    /\ \A p \in Position \ unclosed : \A r, s \in Scan :
         r # s /\ p \in booked[r] \union closing[r] => p \notin booked[s] \union closing[s]
    /\ \A s \in Scan : booked[s] \intersect closing[s] \subseteq unclosed

LEMMA SettledStep ==
    /\ BodyTypeOK /\ Places /\ ClosingIsClosed /\ RowsAndBooksAgree
    /\ LockFacts /\ (Excused \/ SettledOnce) /\ [BodyNext]_allVars
    => (Excused \/ SettledOnce)'
<1> SUFFICES ASSUME BodyTypeOK, Places, ClosingIsClosed, RowsAndBooksAgree, LockFacts,
                    ~Excused, SettledOnce, [BodyNext]_allVars
             PROVE  SettledOnce'
    BY ExcuseStays
<1>0. LedgerTypes
    BY TypesSplit
<1>a. \A r, s \in Scan : r # s /\ In(r, "settle") => found[s] = {}
    BY DEF LockFacts, DoubleExecutionNeedsExcuse, Executing, Places, In
<1> USE <1>0 DEF LedgerTypes, SettledOnce
<1>1. ASSUME NEW s \in Scan, NEW p \in Position, ClosePosition(s, p)
      PROVE  SettledOnce'
  <2>1. /\ p \in found[s] /\ closing[s] = {} /\ booked' = booked
        /\ found' = [found EXCEPT ![s] = @ \ {p}]
        /\ closing' = [closing EXCEPT ![s] = {p}]
    BY <1>1 DEF ClosePosition
  <2>2. \/ rows' = [rows EXCEPT ![p] = "closed"] /\ unclosed' = unclosed
        \/ rows' = rows /\ unclosed' = unclosed \union {p}
    BY <1>1 DEF ClosePosition
  <2>3. \A r \in Scan \ {s} : found[r] = {}
    BY <1>1, <1>a DEF ClosePosition
  <2>4. rows[p] = "open"
    BY <2>1
  <2>5. p \notin unclosed => \A r \in Scan : p \notin booked[r] \union closing[r]
    BY <2>4 DEF RowsAndBooksAgree, ClosingIsClosed
  <2>6. \A r \in Scan : \A q \in found'[r] : rows'[q] = "open"
    BY <2>1, <2>2, <2>3
  <2>7. unclosed \subseteq unclosed' /\ \A q \in Position \ {p} : q \in unclosed' => q \in unclosed
    BY <2>2
  <2>8. \A r \in Scan : closing'[r] = IF r = s THEN {p} ELSE closing[r]
    BY <2>1
  <2>9. \A q \in Position \ unclosed' : \A r, t \in Scan :
           r # t /\ q \in booked'[r] \union closing'[r]
           => q \notin booked'[t] \union closing'[t]
    BY <2>1, <2>5, <2>7, <2>8
  <2>10. \A r \in Scan : booked'[r] \intersect closing'[r] \subseteq unclosed'
    BY <2>1, <2>2, <2>5, <2>7, <2>8
  <2>11. QED
    BY <2>6, <2>9, <2>10
<1>2. ASSUME NEW s \in Scan, BookResult(s) PROVE SettledOnce'
  <2>1. /\ UNCHANGED <<rows, unclosed, found>>
        /\ closing' = [closing EXCEPT ![s] = {}]
        /\ booked' = [booked EXCEPT ![s] = @ \union closing[s]]
    BY <1>2 DEF BookResult
  <2>2. QED
    BY <2>1
<1>3. ASSUME NEW s \in Scan, NEW p \in Position, OpenPosition(s, p)
      PROVE  SettledOnce'
    BY <1>3 DEF OpenPosition
<1>4. ASSUME NEW s \in Scan, ReadPositions(s) PROVE SettledOnce'
    BY <1>4 DEF ReadPositions
<1>5. ASSUME NEW s \in Scan, EndSettlement(s) \/ DieInBody(s) PROVE SettledOnce'
    BY <1>5 DEF EndSettlement, DieInBody
<1>6. ASSUME UNCHANGED <<rows, closing, booked, unclosed, found>> PROVE SettledOnce'
    BY <1>6
<1>7. ASSUME NEW s \in Scan,
             \/ LockStep(s) \/ LoadBreaker(s) \/ TrimRecord(s) \/ StartBatch(s)
             \/ SaveBreaker(s) \/ PutLands(s) \/ PutIsLost(s) \/ FinishBody(s)
             \/ \E symbol \in Symbol :
                  \/ Ask(s, symbol) \/ Answer(s, symbol) \/ Miss(s, symbol)
                  \/ HandlerThrows(s, symbol)
      PROVE  SettledOnce'
    BY <1>7, <1>6 DEF LockStep, LoadBreaker, TrimRecord, StartBatch, SaveBreaker,
                PutLands, PutIsLost, FinishBody, Ask, Answer, Miss, HandlerThrows,
                bodyVars, ledgerVars
<1>8. CASE ReadToEdit \/ PutEdited \/ Surroundings \/ UNCHANGED allVars
    BY <1>8, <1>6 DEF ReadToEdit, PutEdited, Surroundings, allVars, bodyVars, ledgerVars
<1>9. QED
    BY <1>1, <1>2, <1>3, <1>4, <1>5, <1>7, <1>8 DEF BodyNext, BodyStep

\* Two scans settle one position only when the lock failed for one of its
\* excuses (a race, an overrun, a reset, an operation that misled a scan), or
\* when the first UPDATE was rejected.
THEOREM SettlingTwiceIsCaused == BodySpec => []SettledTwiceNeedsCause
<1>1. BodyInit => ClosingIsClosed /\ RowsAndBooksAgree /\ SettledOnce
    BY DEF BodyInit, ClosingIsClosed, RowsAndBooksAgree, SettledOnce
<1>2. Excused \/ SettledOnce => SettledTwiceNeedsCause
    BY DEF SettledOnce, SettledTwiceNeedsCause
<1>3. BodySpec => []LockFacts
    BY LockHolds
<1>4. QED
    BY <1>1, <1>2, <1>3, BodyTypeInit, BodyTypeStep, PlacesInit, PlacesStep,
       LedgerStep, SettledStep, PTL DEF BodySpec

-----------------------------------------------------------------------------
(* The paper ledger implements PaperLedger. *)

\* A scan has one position in hand at a time.
OneInHand == \A s \in Scan : \A p, q \in closing[s] : p = q

LEMMA OneInHandStep == BodyTypeOK /\ OneInHand /\ [BodyNext]_allVars => OneInHand'
<1> SUFFICES ASSUME BodyTypeOK, OneInHand, [BodyNext]_allVars PROVE OneInHand'
    OBVIOUS
<1>0. closing \in [Scan -> SUBSET Position]
    BY DEF BodyTypeOK
<1>1. ASSUME NEW s \in Scan, NEW p \in Position, ClosePosition(s, p) PROVE OneInHand'
    BY <1>0, <1>1 DEF ClosePosition, OneInHand
<1>2. ASSUME NEW s \in Scan, BookResult(s) PROVE OneInHand'
    BY <1>0, <1>2 DEF BookResult, OneInHand
<1>3. ASSUME NEW s \in Scan, NEW p \in Position, OpenPosition(s, p) PROVE OneInHand'
    BY <1>3 DEF OpenPosition, OneInHand
<1>4. ASSUME UNCHANGED closing PROVE OneInHand'
    BY <1>4 DEF OneInHand
<1>5. QED
    BY <1>1, <1>2, <1>3, <1>4, LedgerUntouched

\* Only DieInBody kills.
LEMMA OthersSurvive ==
    ASSUME BodyTypeOK, [BodyNext]_allVars, ~\E s \in Scan : DieInBody(s)
    PROVE  \A r \in Scan : pc'[r] = "dead" <=> pc[r] = "dead"
<1>0. pc \in [Scan -> {"idle"} \union Working \union Ended]
    BY DEF BodyTypeOK, TypeOK
<1>1. ASSUME NEW s \in Scan, LockStep(s) \/ FinishBody(s)
      PROVE  \A r \in Scan : pc'[r] = "dead" <=> pc[r] = "dead"
    BY <1>0, <1>1 DEF LockStep, FinishBody, Start, ReadLock, WriteLock, VerifyLock,
                      CompareToken, DeleteLock, FinishScan, GoTo
<1>2. ASSUME NEW s \in Scan, BodyStep(s), ~FinishBody(s) PROVE UNCHANGED pc
    BY <1>2 DEF BodyStep, LoadBreaker, TrimRecord, StartBatch, Ask, Answer, Miss,
                HandlerThrows, SaveBreaker, PutLands, PutIsLost, ReadPositions,
                ClosePosition, OpenPosition, BookResult, EndSettlement, vars
<1>3. ReadToEdit \/ PutEdited \/ Surroundings \/ UNCHANGED allVars => UNCHANGED pc
    BY DEF ReadToEdit, PutEdited, Surroundings, Tick, Propagate, Quiescent,
           ResetStore, vars, allVars
<1>4. QED
    BY <1>1, <1>2, <1>3 DEF BodyNext

\* What a scan found has a row, and rows are never deleted.
FoundHasRow == \A s \in Scan : \A p \in found[s] : rows[p] # "none"

\* Whatever happens, a row goes forward and a result stays in the books.
LEMMA LedgerGoesForward ==
    ASSUME BodyTypeOK, FoundHasRow, [BodyNext]_allVars
    PROVE  /\ \A p \in Position : Ledger!Forward(rows[p], rows'[p])
           /\ \A s \in Scan : booked[s] \subseteq booked'[s]
           /\ unclosed \subseteq unclosed'
<1>0. LedgerTypes
    BY TypesSplit
<1> USE <1>0 DEF LedgerTypes, Ledger!Forward
<1>1. ASSUME NEW s \in Scan, NEW p \in Position, OpenPosition(s, p)
      PROVE  /\ \A q \in Position : Ledger!Forward(rows[q], rows'[q])
             /\ UNCHANGED <<booked, unclosed>>
    BY <1>1 DEF OpenPosition
<1>2. ASSUME NEW s \in Scan, BookResult(s)
      PROVE  UNCHANGED <<rows, unclosed>> /\ \A r \in Scan : booked[r] \subseteq booked'[r]
    BY <1>2 DEF BookResult
<1>3. ASSUME NEW s \in Scan, NEW p \in Position, ClosePosition(s, p)
      PROVE  /\ \A q \in Position : Ledger!Forward(rows[q], rows'[q])
             /\ UNCHANGED booked /\ unclosed \subseteq unclosed'
  <2>1. rows[p] \in {"open", "closed"}
    BY <1>3 DEF ClosePosition, FoundHasRow
  <2>2. rows' = rows \/ rows' = [rows EXCEPT ![p] = "closed"]
    BY <1>3 DEF ClosePosition
  <2>3. UNCHANGED booked /\ unclosed \subseteq unclosed'
    BY <1>3 DEF ClosePosition
  <2>4. QED
    BY <2>1, <2>2, <2>3
<1>4. QED
    BY <1>1, <1>2, <1>3, LedgerUntouched

LEMMA FoundHasRowStep == BodyTypeOK /\ FoundHasRow /\ [BodyNext]_allVars => FoundHasRow'
<1> SUFFICES ASSUME BodyTypeOK, FoundHasRow, [BodyNext]_allVars PROVE FoundHasRow'
    OBVIOUS
<1>0. LedgerTypes
    BY TypesSplit
<1> USE <1>0 DEF LedgerTypes
<1>1. \A p \in Position : rows[p] # "none" => rows'[p] # "none"
    BY LedgerGoesForward DEF Ledger!Forward
<1>2. ASSUME NEW s \in Scan, ReadPositions(s) PROVE FoundHasRow'
    BY <1>2 DEF ReadPositions, FoundHasRow
<1>3. ASSUME \A s \in Scan : found'[s] \subseteq found[s] PROVE FoundHasRow'
    BY <1>1, <1>3 DEF FoundHasRow
<1>4. ASSUME NEW s \in Scan,
             \/ EndSettlement(s) \/ DieInBody(s)
             \/ \E p \in Position : ClosePosition(s, p)
      PROVE  \A r \in Scan : found'[r] \subseteq found[r]
    BY <1>4 DEF EndSettlement, DieInBody, ClosePosition
<1>5. ASSUME NEW s \in Scan,
             \/ LockStep(s) \/ LoadBreaker(s) \/ TrimRecord(s) \/ StartBatch(s)
             \/ SaveBreaker(s) \/ PutLands(s) \/ PutIsLost(s) \/ FinishBody(s)
             \/ BookResult(s) \/ \E p \in Position : OpenPosition(s, p)
             \/ \E symbol \in Symbol :
                  \/ Ask(s, symbol) \/ Answer(s, symbol) \/ Miss(s, symbol)
                  \/ HandlerThrows(s, symbol)
      PROVE  UNCHANGED found
    BY <1>5 DEF LockStep, LoadBreaker, TrimRecord, StartBatch, SaveBreaker, PutLands,
                PutIsLost, FinishBody, BookResult, OpenPosition, Ask, Answer, Miss,
                HandlerThrows, bodyVars, ledgerVars
<1>6. ReadToEdit \/ PutEdited \/ Surroundings \/ UNCHANGED allVars => UNCHANGED found
    BY DEF ReadToEdit, PutEdited, Surroundings, allVars, bodyVars, ledgerVars
<1>7. QED
    BY <1>2, <1>3, <1>4, <1>5, <1>6 DEF BodyNext, BodyStep

LEMMA LedgerMapTypes ==
    ASSUME BodyTypeOK
    PROVE  /\ InHand \in [Scan -> SUBSET Position] /\ InDoubt \in SUBSET Position
           /\ booked \in [Scan -> SUBSET Position]
           /\ rows \in [Position -> {"none", "open", "closed"}]
BY DEF BodyTypeOK, InHand, InDoubt

\* With the lock failed, every position is in doubt and only goes forward.
LEMMA StrayWithCause ==
    ASSUME BodyTypeOK, BodyTypeOK', FoundHasRow, [BodyNext]_allVars, Excused'
    PROVE  Ledger!Stray
<1>1. InDoubt' = Position
    BY DEF InDoubt
<1>2. InDoubt \subseteq Position
    BY LedgerMapTypes
<1>3. /\ InHand' \in [Scan -> SUBSET Position] /\ booked' \in [Scan -> SUBSET Position]
      /\ rows' \in [Position -> {"none", "open", "closed"}]
    BY DEF BodyTypeOK, InHand
<1>4. InHand \in [Scan -> SUBSET Position] /\ booked \in [Scan -> SUBSET Position]
    BY LedgerMapTypes
<1>5. QED
    BY <1>1, <1>2, <1>3, <1>4, LedgerGoesForward DEF Ledger!Stray

\* With the lock sound, every step is PaperLedger's of the same name.
LEMMA LedgerStepRefines ==
    ASSUME BodyTypeOK, BodyTypeOK', Places, FoundHasRow, OneInHand, LockFacts,
           Excused \/ SettledOnce, [BodyNext]_allVars
    PROVE  [Ledger!Next]_(Ledger!vars)
<1>1. CASE Excused'
    BY <1>1, StrayWithCause DEF Ledger!Next
<1>2. CASE ~Excused'
  <2>0. /\ SettledOnce /\ LedgerTypes
        /\ InDoubt = unclosed /\ InDoubt' = unclosed'
    BY <1>2, ExcuseStays, TypesSplit DEF InDoubt
  <2>1. ASSUME NEW s \in Scan, DieInBody(s) PROVE Ledger!Lose(s)
    <3>1. UNCHANGED <<rows, booked, unclosed, closing>>
      BY <2>1 DEF DieInBody
    <3>2. pc' = [pc EXCEPT ![s] = "dead"]
      BY <2>1 DEF DieInBody, Die, GoTo
    <3>3. pc \in [Scan -> {"idle"} \union Working \union Ended]
      BY DEF BodyTypeOK, TypeOK
    <3>4. InHand' = [InHand EXCEPT ![s] = {}]
      BY <3>1, <3>2, <3>3 DEF InHand
    <3>5. QED
      BY <2>0, <3>1, <3>4 DEF Ledger!Lose
  <2>2. ASSUME ~\E s \in Scan : DieInBody(s)
        PROVE  InHand' = [s \in Scan |-> IF pc[s] = "dead" THEN {} ELSE closing'[s]]
    BY <2>2, OthersSurvive DEF InHand
  <2>3. ASSUME NEW s \in Scan, NEW p \in Position, OpenPosition(s, p) PROVE Ledger!Open(p)
    <3>1. UNCHANGED <<pc, closing, booked, unclosed>>
      BY <2>3 DEF OpenPosition, vars
    <3>2. UNCHANGED InHand
      BY <3>1 DEF InHand
    <3>3. QED
      BY <2>0, <2>3, <3>1, <3>2 DEF OpenPosition, Ledger!Open
  <2>4. ASSUME NEW s \in Scan, BookResult(s)
        PROVE  \E p \in Position : Ledger!Book(s, p)
    <3>1. PICK p \in Position : closing[s] = {p}
      BY <2>0, <2>4 DEF BookResult, OneInHand, LedgerTypes
    <3>2. /\ pc[s] = "hold" /\ UNCHANGED <<pc, rows, unclosed>>
          /\ closing' = [closing EXCEPT ![s] = {}]
          /\ booked' = [booked EXCEPT ![s] = @ \union {p}]
      BY <2>4, <3>1 DEF BookResult, In, vars
    <3>3. p \in InHand[s] /\ InHand' = [InHand EXCEPT ![s] = @ \ {p}]
      BY <2>0, <3>1, <3>2 DEF InHand, LedgerTypes
    <3>4. QED
      BY <2>0, <3>2, <3>3 DEF Ledger!Book
  <2>5. ASSUME NEW s \in Scan, NEW p \in Position, ClosePosition(s, p)
        PROVE  Ledger!Close(s, p) \/ Ledger!Stray
    <3>1. /\ pc[s] = "hold" /\ closing[s] = {} /\ UNCHANGED <<pc, booked>>
          /\ closing' = [closing EXCEPT ![s] = {p}]
          /\ rows[p] = "open"
      BY <2>0, <2>5 DEF ClosePosition, In, vars, SettledOnce
    <3>2. InHand' = [InHand EXCEPT ![s] = @ \union {p}]
      BY <2>0, <3>1 DEF InHand, LedgerTypes
    <3>3. CASE rows' = [rows EXCEPT ![p] = "closed"] /\ UNCHANGED unclosed
      BY <2>0, <3>1, <3>2, <3>3 DEF Ledger!Close
    <3>4. CASE unclosed' = unclosed \union {p} /\ UNCHANGED rows
      <4>1. /\ InHand \in [Scan -> SUBSET Position]
            /\ InHand' \in [Scan -> SUBSET Position]
        BY <3>2, LedgerMapTypes
      <4>2. \A r \in Scan : InHand'[r] \ InDoubt' = InHand[r] \ InDoubt'
        BY <2>0, <3>2, <3>4, <4>1
      <4>3. /\ booked' = booked /\ booked' \in [Scan -> SUBSET Position]
            /\ rows' = rows /\ rows' \in [Position -> {"none", "open", "closed"}]
            /\ InDoubt' \in SUBSET Position /\ InDoubt \subseteq InDoubt'
        BY <2>0, <3>1, <3>4 DEF LedgerTypes
      <4>4. QED
        BY <4>1, <4>2, <4>3 DEF Ledger!Stray, Ledger!Forward
    <3>5. QED
      BY <2>5, <3>3, <3>4 DEF ClosePosition
  <2>6. ASSUME UNCHANGED <<rows, closing, booked, unclosed>>, ~\E s \in Scan : DieInBody(s)
        PROVE  UNCHANGED Ledger!vars
    BY <2>0, <2>2, <2>6 DEF Ledger!vars, InHand
  <2>7. QED
    BY <2>1, <2>3, <2>4, <2>5, <2>6, LedgerUntouched DEF Ledger!Next
<1>3. QED
    BY <1>1, <1>2

\* The paper ledger keeps its promise: each position is opened, closed and booked
\* once, by one scan, unless the lock has an excuse or its UPDATE was rejected; and
\* no row is opened again and no result withdrawn even then.
THEOREM LedgerImplementsPaperLedger == BodySpec => LedgerKeepsPromise
<1>1. BodyInit => /\ ClosingIsClosed /\ RowsAndBooksAgree /\ SettledOnce
                  /\ OneInHand /\ FoundHasRow
    BY DEF BodyInit, ClosingIsClosed, RowsAndBooksAgree, SettledOnce, OneInHand, FoundHasRow
<1>2. BodyInit => Ledger!Init
  <2> SUFFICES ASSUME BodyInit PROVE Ledger!Init
    OBVIOUS
  <2>1. ~Excused
    BY DEF BodyInit, Init, Excused, Misled, KnownCause, Raced
  <2>2. InHand = [s \in Scan |-> {}] /\ InDoubt = {}
    BY <2>1 DEF BodyInit, InHand, InDoubt
  <2>3. QED
    BY <2>2 DEF BodyInit, Ledger!Init
<1>3. BodySpec => []LockFacts
    BY LockHolds
<1>4. QED
    BY <1>1, <1>2, <1>3, BodyTypeInit, BodyTypeStep, PlacesInit, PlacesStep,
       LedgerStep, SettledStep, OneInHandStep, FoundHasRowStep, LedgerStepRefines,
       PTL DEF BodySpec, LedgerKeepsPromise, Ledger!Spec

Promised == INSTANCE PaperLedgerProofs WITH
    hands <- InHand, results <- booked, doubtful <- InDoubt

\* So what follows from PaperLedger holds of the scans: with no excuse of the lock,
\* no two scans, and no scan twice, have the result of a position whose UPDATE was
\* not rejected, in hand or in the books, and its row is closed.
THEOREM ResultsAreSettledOnce == BodySpec => []Ledger!SettledOnce
<1>1. Promised!Spec => [](Promised!TypeOK /\ Promised!SettledOnce)
    BY Promised!PromiseMeansOnce
<1>2. Ledger!Init => Promised!Init
    BY DEF Ledger!Init, Promised!Init
<1>3. [Ledger!Next]_Ledger!vars => [Promised!Next]_Promised!vars
  <2>1. ASSUME NEW s \in Scan, Ledger!Lose(s) PROVE Promised!Lose(s)
    BY <2>1 DEF Ledger!Lose, Promised!Lose
  <2>2. ASSUME NEW p \in Position, Ledger!Open(p) PROVE Promised!Open(p)
    BY <2>2 DEF Ledger!Open, Promised!Open
  <2>3. ASSUME NEW s \in Scan, NEW p \in Position, Ledger!Close(s, p) \/ Ledger!Book(s, p)
        PROVE  Promised!Close(s, p) \/ Promised!Book(s, p)
    BY <2>3 DEF Ledger!Close, Promised!Close, Ledger!Book, Promised!Book
  <2>4. ASSUME Ledger!Stray PROVE Promised!Stray
    BY <2>4 DEF Ledger!Stray, Promised!Stray, Ledger!Forward, Promised!Forward
  <2>5. QED
    BY <2>1, <2>2, <2>3, <2>4
       DEF Ledger!Next, Promised!Next, Ledger!vars, Promised!vars
<1>4. Promised!SettledOnce => Ledger!SettledOnce
    BY DEF Promised!SettledOnce, Ledger!SettledOnce
<1>5. QED
    BY <1>1, <1>2, <1>3, <1>4, LedgerImplementsPaperLedger, PTL
       DEF LedgerKeepsPromise, Ledger!Spec, Promised!Spec

-----------------------------------------------------------------------------
(* The breaker's record, whatever the lock and the store do. *)

\* A record is open, or counts more failures than there were, only once there
\* were enough of them; count says how many, up to MaxFailures.
Backed(v, count) ==
    v.open \/ v.cooldownUntil > 0 \/ v.failures > count => count = MaxFailures

LEMMA BackedIsKept ==
    ASSUME NEW v \in Venue, NEW count \in 0..MaxFailures, NEW more \in 0..MaxFailures,
           count <= more, Backed(v, count)
    PROVE  Backed(v, more)
BY BreakerAssumption DEF Backed, Venue

LEMMA OpenIsBacked ==
    ASSUME NEW v \in Venue, NEW time \in Nat, NEW count, Backed(v, count), IsOpen(v, time)
    PROVE  count = MaxFailures
BY DEF Backed, IsOpen, Venue

LEMMA NoRecordBacked ==
    ASSUME NEW count \in 0..MaxFailures
    PROVE  Backed(NoRecord, count)
BY BreakerAssumption DEF Backed, NoRecord

LEMMA FailureBacked ==
    ASSUME NEW v \in Venue, NEW time \in Nat, NEW count \in 0..MaxFailures, Backed(v, count)
    PROVE  Backed(AfterFailure(v, time), OneMore(count))
<1> USE DEF OneMore
<1> DEFINE kept == IF time - v.lastFailure > ResetWindow THEN NoRecord ELSE v
           more == OneMore(count)
<1>1. kept \in Venue /\ Backed(kept, count)
    BY NoRecordType, NoRecordBacked
<1>2. AfterFailure(v, time).failures =
        IF kept.failures + 1 >= FatalFailures THEN 0 ELSE kept.failures + 1
    BY DEF AfterFailure
<1>3. AfterFailure(v, time).open <=> kept.open \/ kept.failures + 1 >= MaxFailures
    BY DEF AfterFailure
<1>4. AfterFailure(v, time).cooldownUntil =
        IF kept.failures + 1 >= FatalFailures THEN time + FatalCooldown
        ELSE IF kept.failures + 1 >= MaxFailures THEN time + Cooldown
        ELSE kept.cooldownUntil
    BY DEF AfterFailure
<1> HIDE DEF kept
<1>5. kept.failures \in Nat
    BY <1>1 DEF Venue
<1>6. more # MaxFailures => kept.failures <= count /\ ~kept.open /\ ~(kept.cooldownUntil > 0)
    BY <1>1, <1>5, BreakerAssumption DEF Backed
<1>7. more # MaxFailures => kept.failures + 1 < MaxFailures /\ kept.failures + 1 <= more
    BY <1>5, <1>6, BreakerAssumption
<1>8. more # MaxFailures => kept.failures + 1 < FatalFailures
    BY <1>5, <1>7, BreakerAssumption
<1>9. more # MaxFailures => ~AfterFailure(v, time).open
    BY <1>3, <1>5, <1>6, <1>7, BreakerAssumption
<1>10. more # MaxFailures => AfterFailure(v, time).cooldownUntil = kept.cooldownUntil
    BY <1>4, <1>5, <1>7, <1>8, BreakerAssumption
<1>11. more # MaxFailures => AfterFailure(v, time).failures = kept.failures + 1
    BY <1>2, <1>5, <1>8, BreakerAssumption
<1>12. more # MaxFailures => ~(AfterFailure(v, time).failures > more)
    BY <1>5, <1>7, <1>11, BreakerAssumption
<1>13. QED
    BY <1>6, <1>9, <1>10, <1>12 DEF Backed

LEMMA SuccessBacked ==
    ASSUME NEW v \in Venue, NEW count \in 0..MaxFailures
    PROVE  Backed(AfterSuccess(v), count)
BY BreakerAssumption DEF Backed, AfterSuccess, Venue

\* Every copy of the record is backed by failures that were recorded.
AllBacked ==
    /\ Backed(cb, recorded)
    /\ edit # NoPut => Backed(edit, recorded)
    /\ \A s \in Scan :
         /\ Backed(copy[s], recorded)
         /\ outbox[s] # NoPut => Backed(outbox[s], recorded)

LEMMA BackedInit == BodyInit => AllBacked
<1> SUFFICES ASSUME BodyInit PROVE AllBacked
    OBVIOUS
<1>1. cb \in Venue /\ recorded \in 0..MaxFailures
    BY BodyTypeInit, TypesSplit DEF BreakerTypes
<1>2. Backed(cb, recorded)
    BY <1>1, BreakerAssumption DEF BodyInit, FailuresBehind, Backed, Venue
<1>3. Backed(NoRecord, recorded)
    BY <1>1, NoRecordBacked
<1>4. QED
    BY <1>2, <1>3 DEF BodyInit, AllBacked

LEMMA BackedStep == BodyTypeOK /\ AllBacked /\ [BodyNext]_allVars => AllBacked'
<1> SUFFICES ASSUME BodyTypeOK, AllBacked, [BodyNext]_allVars PROVE AllBacked'
    OBVIOUS
<1>0. BreakerTypes /\ now \in Nat
    BY TypesSplit DEF TypeOK
<1>a. recorded \in 0..MaxFailures /\ cb \in Venue
    BY <1>0 DEF BreakerTypes
<1>b. Backed(NoRecord, recorded)
    BY <1>a, NoRecordBacked
<1> USE <1>0 DEF BreakerTypes, AllBacked
<1>1. ASSUME NEW s \in Scan, LoadBreaker(s) PROVE AllBacked'
  <2>1. UNCHANGED <<cb, outbox, edit, recorded>>
    BY <1>1 DEF LoadBreaker
  <2>2. copy'[s] \in {cb, NoRecord} /\ \A r \in Scan \ {s} : copy'[r] = copy[r]
    BY <1>1 DEF LoadBreaker
  <2>3. QED
    BY <2>1, <2>2, <1>b
<1>2. ASSUME NEW s \in Scan, NEW symbol \in Symbol, Answer(s, symbol) PROVE AllBacked'
  <2>1. /\ UNCHANGED <<cb, outbox, edit, recorded>>
        /\ copy' = [copy EXCEPT ![s] = AfterSuccess(@)]
    BY <1>2 DEF Answer
  <2>2. Backed(AfterSuccess(copy[s]), recorded)
    BY <1>a, SuccessBacked
  <2>3. QED
    BY <2>1, <2>2
<1>3. ASSUME NEW s \in Scan, NEW symbol \in Symbol, Miss(s, symbol) PROVE AllBacked'
  <2>1. UNCHANGED <<cb, outbox, edit>>
    BY <1>3 DEF Miss
  <2>2. CASE skip[s]
    BY <1>3, <2>1, <2>2 DEF Miss
  <2>3. CASE ~skip[s]
    <3>1. copy' = [copy EXCEPT ![s] = AfterFailure(@, now)] /\ recorded' = OneMore(recorded)
      BY <1>3, <2>3 DEF Miss
    <3>2. recorded' \in 0..MaxFailures /\ recorded <= recorded'
      BY <3>1, <1>a, OneMoreType
    <3>3. Backed(AfterFailure(copy[s], now), recorded')
      BY <1>a, <3>1, FailureBacked
    <3>4. Backed(cb, recorded') /\ (edit # NoPut => Backed(edit, recorded'))
      BY <1>a, <3>2, BackedIsKept
    <3>5. \A r \in Scan : Backed(copy[r], recorded')
      BY <1>a, <3>2, BackedIsKept
    <3>6. \A r \in Scan : outbox[r] # NoPut => Backed(outbox[r], recorded')
      BY <1>a, <3>2, BackedIsKept
    <3>7. QED
      BY <2>1, <3>1, <3>3, <3>4, <3>5, <3>6
  <2>4. QED
    BY <2>2, <2>3
<1>4. ASSUME NEW s \in Scan, SaveBreaker(s) PROVE AllBacked'
    BY <1>4, <1>b DEF SaveBreaker, Forget
<1>5. ASSUME NEW s \in Scan, PutLands(s) PROVE AllBacked'
    BY <1>5 DEF PutLands
<1>6. ASSUME NEW s \in Scan, PutIsLost(s) PROVE AllBacked'
    BY <1>6 DEF PutIsLost
<1>7. ASSUME NEW s \in Scan, DieInBody(s) PROVE AllBacked'
    BY <1>7, <1>b DEF DieInBody, Forget
<1>8. ASSUME NEW s \in Scan, TrimRecord(s) PROVE AllBacked'
    BY <1>8 DEF TrimRecord
<1>9. CASE ReadToEdit \/ PutEdited \/ Surroundings
  <2>1. cb' \in {cb, NoRecord} \/ (edit # NoPut /\ cb' = edit)
    BY <1>9 DEF ReadToEdit, PutEdited, Surroundings
  <2>2. edit' \in {edit, NoPut, cb, NoRecord}
    BY <1>9 DEF ReadToEdit, PutEdited, Surroundings
  <2>3. UNCHANGED <<outbox, copy, recorded>>
    BY <1>9 DEF ReadToEdit, PutEdited, Surroundings
  <2>4. QED
    BY <2>1, <2>2, <2>3, <1>b
<1>10. ASSUME UNCHANGED <<cb, outbox, edit, copy, recorded>> PROVE AllBacked'
    BY <1>10
<1>11. ASSUME NEW s \in Scan,
              \/ LockStep(s) \/ StartBatch(s) \/ ReadPositions(s) \/ BookResult(s)
              \/ EndSettlement(s) \/ FinishBody(s)
              \/ \E symbol \in Symbol : Ask(s, symbol) \/ HandlerThrows(s, symbol)
              \/ \E p \in Position : ClosePosition(s, p) \/ OpenPosition(s, p)
       PROVE  UNCHANGED <<cb, outbox, edit, copy, recorded>>
    BY <1>11 DEF LockStep, StartBatch, ReadPositions, BookResult, EndSettlement,
                 FinishBody, Ask, HandlerThrows, ClosePosition, OpenPosition,
                 bodyVars, breakerVars
<1>12. UNCHANGED allVars => UNCHANGED <<cb, outbox, edit, copy, recorded>>
    BY DEF allVars, bodyVars, breakerVars
<1>13. QED
    BY <1>1, <1>2, <1>3, <1>4, <1>5, <1>6, <1>7, <1>8, <1>9, <1>10, <1>11, <1>12
       DEF BodyNext, BodyStep

-----------------------------------------------------------------------------
(* The breaker's record under the lock. *)

\* A scan puts the record once, after it has asked for every symbol.
OwnPut ==
    \A s \in Scan :
        outbox[s] # NoPut => /\ pc[s] \in Executing \union {"over", "dead"}
                             /\ ~In(s, "load") /\ ~In(s, "trim") /\ ~In(s, "fetch")

LEMMA OwnPutStep == BodyTypeOK /\ Places /\ OwnPut /\ [BodyNext]_allVars => OwnPut'
<1> SUFFICES ASSUME BodyTypeOK, Places, OwnPut, [BodyNext]_allVars PROVE OwnPut'
    OBVIOUS
<1>0. /\ pc \in [Scan -> {"idle"} \union Working \union Ended]
      /\ outbox \in [Scan -> Venue \union {NoPut}] /\ FetchTypes
    BY TypesSplit DEF TypeOK, BreakerTypes
<1> USE <1>0 DEF OwnPut, In, MoveTo, Executing, FetchTypes, vars
<1>1. ASSUME NEW s \in Scan, LockStep(s) PROVE OwnPut'
  <2>1. /\ pc[s] \notin {"hold", "over", "dead"}
        /\ pc'[s] \in Executing => pc[s] \in Executing \union {"verify"}
        /\ pc[s] \in Executing => pc'[s] \in {"delete", "over"}
        /\ \A r \in Scan \ {s} : pc'[r] = pc[r]
    BY <1>1 DEF LockStep, Start, ReadLock, WriteLock, VerifyLock, CompareToken,
                DeleteLock, GoTo
  <2>2. UNCHANGED <<at, outbox>>
    BY <1>1 DEF LockStep, bodyVars, breakerVars
  <2>3. QED
    BY <2>1, <2>2
<1>2. ASSUME NEW s \in Scan, DieInBody(s) PROVE OwnPut'
    BY <1>2 DEF DieInBody, Die, GoTo
<1>3. ASSUME NEW s \in Scan, FinishBody(s) PROVE OwnPut'
    BY <1>3 DEF FinishBody, FinishScan, GoTo, breakerVars
<1>4. ASSUME NEW s \in Scan, LoadBreaker(s) \/ TrimRecord(s) PROVE OwnPut'
  <2>1. /\ In(s, "load") \/ In(s, "trim")
        /\ \E part \in {"trim", "fetch"} : at' = [at EXCEPT ![s] = part]
        /\ UNCHANGED <<pc, outbox>>
    BY <1>4 DEF LoadBreaker, TrimRecord
  <2>2. QED
    BY <2>1
<1>5. ASSUME NEW s \in Scan, SaveBreaker(s) PROVE OwnPut'
    BY <1>5 DEF SaveBreaker
<1>6. ASSUME NEW s \in Scan, ReadPositions(s) \/ EndSettlement(s) PROVE OwnPut'
    BY <1>6 DEF ReadPositions, EndSettlement, breakerVars
<1>7. ASSUME NEW s \in Scan, PutLands(s) \/ PutIsLost(s) PROVE OwnPut'
    BY <1>7 DEF PutLands, PutIsLost
<1>8. ASSUME UNCHANGED <<pc, at, outbox>> PROVE OwnPut'
    BY <1>8
<1>9. ASSUME NEW s \in Scan,
             \/ StartBatch(s) \/ BookResult(s)
             \/ \E symbol \in Symbol :
                  \/ Ask(s, symbol) \/ Answer(s, symbol) \/ Miss(s, symbol)
                  \/ HandlerThrows(s, symbol)
             \/ \E p \in Position : ClosePosition(s, p) \/ OpenPosition(s, p)
      PROVE  UNCHANGED <<pc, at, outbox>>
    BY <1>9 DEF StartBatch, BookResult, Ask, Answer, Miss, HandlerThrows, ClosePosition,
                OpenPosition, breakerVars
<1>10. ReadToEdit \/ PutEdited \/ Surroundings => UNCHANGED <<pc, at, outbox>>
    BY DEF ReadToEdit, PutEdited, Surroundings, Tick, Propagate, Quiescent, ResetStore
<1>11. UNCHANGED allVars => UNCHANGED <<pc, at, outbox>>
    BY DEF allVars, bodyVars, breakerVars
<1>12. QED
    BY <1>1, <1>2, <1>3, <1>4, <1>5, <1>6, <1>7, <1>8, <1>9, <1>10, <1>11
       DEF BodyNext, BodyStep

\* Scans did not overlap, and each of them loaded the record, after every put
\* of it had landed or was lost, and no command changed it.
Punctual == ~Excused /\ mishaps \intersect {"late", "misread", "edited"} = {}

\* Then a put under way is the only one, and nobody else is asking.
OnePut ==
    \A r, s \in Scan :
        r # s /\ outbox[r] # NoPut
        => outbox[s] = NoPut /\ ~In(s, "trim") /\ ~In(s, "fetch")

LEMMA MishapsStay == BodyTypeOK /\ [BodyNext]_allVars => mishaps \subseteq mishaps'
BY DEF BodyNext, BodyStep, LockStep, DieInBody, LoadBreaker, TrimRecord, StartBatch,
       Ask, Answer, Miss, HandlerThrows, SaveBreaker, PutLands, PutIsLost, ReadPositions,
       ClosePosition, OpenPosition, BookResult, EndSettlement, FinishBody, ReadToEdit,
       PutEdited, Surroundings, Occurred, allVars, bodyVars, breakerVars

LEMMA PunctualWas ==
    BodyTypeOK /\ LockFacts /\ [BodyNext]_allVars /\ Punctual' => Punctual
BY ExcuseStays, MishapsStay DEF Punctual

LEMMA OnePutStep ==
    /\ BodyTypeOK /\ Places /\ OwnPut /\ LockFacts /\ (Punctual => OnePut)
    /\ [BodyNext]_allVars
    => (Punctual => OnePut)'
<1> SUFFICES ASSUME BodyTypeOK, Places, OwnPut, LockFacts, Punctual, OnePut,
                    Punctual', [BodyNext]_allVars
             PROVE  OnePut'
    BY PunctualWas
<1>0. /\ pc \in [Scan -> {"idle"} \union Working \union Ended]
      /\ outbox \in [Scan -> Venue \union {NoPut}] /\ FetchTypes
    BY TypesSplit DEF TypeOK, BreakerTypes
<1> USE <1>0 DEF OnePut, FetchTypes
<1>1. ASSUME NEW s \in Scan, LoadBreaker(s) PROVE OnePut'
  <2>1. \A r \in Scan : outbox[r] = NoPut
    BY <1>1 DEF LoadBreaker, Occurred, Punctual
  <2>2. outbox' = outbox
    BY <1>1 DEF LoadBreaker
  <2>3. QED
    BY <2>1, <2>2
<1>2. ASSUME NEW s \in Scan, SaveBreaker(s) PROVE OnePut'
  <2>1. /\ In(s, "fetch") /\ pc' = pc /\ at' = [at EXCEPT ![s] = "read"]
        /\ outbox' = [outbox EXCEPT ![s] = copy[s]]
    BY <1>2 DEF SaveBreaker, MoveTo, vars
  <2>2. \A r \in Scan \ {s} : outbox[r] = NoPut /\ ~In(r, "trim") /\ ~In(r, "fetch")
    BY <2>1 DEF LockFacts, DoubleExecutionNeedsExcuse, Executing, Punctual, In
  <2>3. QED
    BY <2>1, <2>2 DEF In
<1>3. ASSUME NEW s \in Scan, PutLands(s) \/ PutIsLost(s) PROVE OnePut'
    BY <1>3 DEF PutLands, PutIsLost, In, vars
<1>4. ASSUME outbox' = outbox,
             \A s \in Scan : /\ In(s, "trim")' => In(s, "trim")
                             /\ In(s, "fetch")' => In(s, "trim") \/ In(s, "fetch")
      PROVE  OnePut'
    BY <1>4 DEF In
<1>12. ASSUME NEW s \in Scan, TrimRecord(s) PROVE OnePut'
  <2>1. /\ In(s, "trim") /\ at' = [at EXCEPT ![s] = "fetch"]
        /\ UNCHANGED <<pc, outbox>>
    BY <1>12 DEF TrimRecord, MoveTo, vars
  <2>2. QED
    BY <1>4, <2>1 DEF In
<1>5. ASSUME NEW s \in Scan, LockStep(s) \/ DieInBody(s) \/ FinishBody(s)
      PROVE  OnePut'
  <2>1. \A r \in Scan \ {s} : pc'[r] = pc[r] /\ at'[r] = at[r]
    BY <1>5 DEF LockStep, DieInBody, FinishBody, Start, ReadLock, WriteLock, VerifyLock,
                CompareToken, DeleteLock, Die, FinishScan, GoTo, MoveTo, bodyVars
  <2>2. at'[s] = "load"
    BY <1>5 DEF LockStep, DieInBody, FinishBody, Start, ReadLock, WriteLock, VerifyLock,
                CompareToken, DeleteLock, MoveTo, Places, bodyVars
  <2>3. outbox' = outbox
    BY <1>5 DEF LockStep, DieInBody, FinishBody, bodyVars, breakerVars
  <2>4. QED
    BY <1>4, <2>1, <2>2, <2>3 DEF In
<1>6. ASSUME NEW s \in Scan, ReadPositions(s) \/ EndSettlement(s) PROVE OnePut'
    BY <1>4, <1>6 DEF ReadPositions, EndSettlement, MoveTo, In, breakerVars, vars
<1>7. ASSUME UNCHANGED <<pc, at, outbox>> PROVE OnePut'
    BY <1>4, <1>7 DEF In
<1>8. ASSUME NEW s \in Scan,
             \/ StartBatch(s) \/ BookResult(s)
             \/ \E symbol \in Symbol :
                  \/ Ask(s, symbol) \/ Answer(s, symbol) \/ Miss(s, symbol)
                  \/ HandlerThrows(s, symbol)
             \/ \E p \in Position : ClosePosition(s, p) \/ OpenPosition(s, p)
      PROVE  UNCHANGED <<pc, at, outbox>>
    BY <1>8 DEF StartBatch, BookResult, Ask, Answer, Miss, HandlerThrows, ClosePosition,
                OpenPosition, breakerVars, vars
<1>9. ReadToEdit \/ PutEdited \/ Surroundings => UNCHANGED <<pc, at, outbox>>
    BY DEF ReadToEdit, PutEdited, Surroundings, Tick, Propagate, Quiescent, ResetStore, vars
<1>10. UNCHANGED allVars => UNCHANGED <<pc, at, outbox>>
    BY DEF allVars, vars, bodyVars, breakerVars
<1>11. QED
    BY <1>1, <1>2, <1>3, <1>5, <1>6, <1>7, <1>8, <1>9, <1>10, <1>12
       DEF BodyNext, BodyStep

\* A scan that is about to trim the object holds what is stored.
Trimming == \A s \in Scan : In(s, "trim") => copy[s] = cb

\* So the stored record changes when a scan's put lands and at no other time.
LEMMA OnlyPutsChange ==
    BodyTypeOK /\ Trimming /\ Punctual' /\ [BodyNext]_allVars
    => cb' = cb \/ \E s \in Scan : PutLands(s)
<1> SUFFICES ASSUME BodyTypeOK, Trimming, Punctual', [BodyNext]_allVars
             PROVE  cb' = cb \/ \E s \in Scan : PutLands(s)
    OBVIOUS
<1>1. ASSUME NEW s \in Scan, TrimRecord(s) PROVE cb' = cb
    BY <1>1 DEF TrimRecord, Trimming
<1>2. PutEdited => cb' = cb
    BY DEF PutEdited, Occurred, Punctual
<1>3. Surroundings => cb' = cb
  <2>1. Surroundings => wiped' = wiped \/ wiped' = TRUE
    BY DEF Surroundings, Tick, Propagate, Quiescent, ResetStore, vars
  <2>2. wiped' # TRUE
    BY DEF Punctual, Excused, KnownCause
  <2>3. QED
    BY <2>1, <2>2 DEF Surroundings
<1>4. ASSUME NEW s \in Scan,
             \/ LockStep(s) \/ DieInBody(s) \/ FinishBody(s) \/ LoadBreaker(s)
             \/ StartBatch(s) \/ SaveBreaker(s) \/ PutIsLost(s)
             \/ ReadPositions(s) \/ BookResult(s) \/ EndSettlement(s)
             \/ \E symbol \in Symbol :
                  \/ Ask(s, symbol) \/ Answer(s, symbol) \/ Miss(s, symbol)
                  \/ HandlerThrows(s, symbol)
             \/ \E p \in Position : ClosePosition(s, p) \/ OpenPosition(s, p)
      PROVE  cb' = cb
    BY <1>4 DEF LockStep, DieInBody, FinishBody, LoadBreaker, StartBatch, SaveBreaker,
                PutIsLost, ReadPositions, BookResult, EndSettlement, Ask, Answer, Miss,
                HandlerThrows, ClosePosition, OpenPosition, bodyVars, breakerVars
<1>5. ReadToEdit \/ UNCHANGED allVars => cb' = cb
    BY DEF ReadToEdit, allVars, bodyVars, breakerVars
<1>6. QED
    BY <1>1, <1>2, <1>3, <1>4, <1>5 DEF BodyNext, BodyStep

LEMMA TrimmingStep ==
    /\ BodyTypeOK /\ Places /\ OwnPut /\ LockFacts /\ (Punctual => OnePut)
    /\ (Punctual => Trimming) /\ [BodyNext]_allVars
    => (Punctual => Trimming)'
<1> SUFFICES ASSUME BodyTypeOK, Places, OwnPut, LockFacts, Punctual, OnePut, Trimming,
                    Punctual', [BodyNext]_allVars
             PROVE  Trimming'
    BY PunctualWas
<1>0. /\ pc \in [Scan -> {"idle"} \union Working \union Ended]
      /\ BreakerTypes /\ FetchTypes
    BY TypesSplit DEF TypeOK
<1> USE <1>0 DEF Trimming, BreakerTypes, FetchTypes
<1>1. ASSUME cb' = cb,
             \A s \in Scan : In(s, "trim")' => In(s, "trim") /\ copy'[s] = copy[s]
      PROVE  Trimming'
    BY <1>1 DEF In
<1>2. ASSUME NEW s \in Scan, LoadBreaker(s) PROVE Trimming'
  <2>1. copy' = [copy EXCEPT ![s] = cb] /\ cb' = cb
    BY <1>2 DEF LoadBreaker, Occurred, Punctual
  <2>2. \A r \in Scan \ {s} : pc'[r] = pc[r] /\ at'[r] = at[r]
    BY <1>2 DEF LoadBreaker, MoveTo, vars
  <2>3. QED
    BY <2>1, <2>2 DEF In
<1>3. ASSUME NEW s \in Scan, PutLands(s) PROVE Trimming'
  <2>1. outbox[s] # NoPut /\ UNCHANGED <<pc, at>>
    BY <1>3 DEF PutLands, vars
  <2>2. \A r \in Scan : ~In(r, "trim")
    BY <2>1 DEF OnePut, OwnPut
  <2>3. QED
    BY <2>1, <2>2 DEF In
<1>4. ASSUME NEW s \in Scan,
             \/ SaveBreaker(s) \/ TrimRecord(s)
             \/ \E symbol \in Symbol : Answer(s, symbol) \/ Miss(s, symbol)
      PROVE  Trimming'
  <2>1. /\ at[s] = "fetch" \/ at'[s] # "trim"
        /\ at' = at \/ at'[s] # "trim"
        /\ \A r \in Scan \ {s} : copy'[r] = copy[r] /\ at'[r] = at[r]
        /\ pc' = pc
    BY <1>4 DEF SaveBreaker, TrimRecord, Answer, Miss, Handled, Forget, MoveTo, In, vars
  <2>2. cb' = cb
    BY <1>4 DEF SaveBreaker, TrimRecord, Answer, Miss, Trimming
  <2>3. QED
    BY <1>1, <2>1, <2>2 DEF In
<1>5. ASSUME NEW s \in Scan, LockStep(s) \/ DieInBody(s) \/ FinishBody(s)
      PROVE  Trimming'
  <2>1. /\ cb' = cb
        /\ \A r \in Scan \ {s} : pc'[r] = pc[r] /\ at'[r] = at[r] /\ copy'[r] = copy[r]
    BY <1>5 DEF LockStep, DieInBody, FinishBody, Start, ReadLock, WriteLock, VerifyLock,
                CompareToken, DeleteLock, Die, FinishScan, GoTo, MoveTo, Forget,
                bodyVars, breakerVars
  <2>2. at'[s] = "load"
    BY <1>5 DEF LockStep, DieInBody, FinishBody, Start, ReadLock, WriteLock, VerifyLock,
                CompareToken, DeleteLock, MoveTo, Places, bodyVars
  <2>3. QED
    BY <1>1, <2>1, <2>2 DEF In
<1>6. ASSUME NEW s \in Scan, ReadPositions(s) \/ EndSettlement(s) PROVE Trimming'
  <2>1. /\ UNCHANGED <<cb, copy, pc>> /\ at'[s] # "trim"
        /\ \A r \in Scan \ {s} : at'[r] = at[r]
    BY <1>6 DEF ReadPositions, EndSettlement, MoveTo, breakerVars, vars
  <2>2. QED
    BY <1>1, <2>1 DEF In
<1>7. ASSUME UNCHANGED <<pc, at, copy>>, cb' = cb PROVE Trimming'
    BY <1>1, <1>7 DEF In
<1>8. ASSUME NEW s \in Scan,
             \/ StartBatch(s) \/ BookResult(s) \/ PutIsLost(s)
             \/ \E symbol \in Symbol : Ask(s, symbol) \/ HandlerThrows(s, symbol)
             \/ \E p \in Position : ClosePosition(s, p) \/ OpenPosition(s, p)
      PROVE  UNCHANGED <<pc, at, copy>> /\ cb' = cb
    BY <1>8 DEF StartBatch, BookResult, PutIsLost, Ask, HandlerThrows, ClosePosition,
                OpenPosition, breakerVars, vars
<1>9. ReadToEdit \/ PutEdited \/ Surroundings => UNCHANGED <<pc, at, copy>>
    BY DEF ReadToEdit, PutEdited, Surroundings, Tick, Propagate, Quiescent, ResetStore, vars
<1>10. UNCHANGED allVars => UNCHANGED <<pc, at, copy>> /\ cb' = cb
    BY DEF allVars, vars, bodyVars, breakerVars
<1>11. ASSUME ReadToEdit \/ PutEdited \/ Surroundings PROVE Trimming'
  <2>1. cb' = cb \/ \E s \in Scan : PutLands(s)
    BY OnlyPutsChange
  <2>2. QED
    BY <1>3, <1>7, <1>9, <1>11, <2>1
<1>12. QED
    BY <1>2, <1>3, <1>4, <1>5, <1>6, <1>7, <1>8, <1>10, <1>11 DEF BodyNext, BodyStep

\* After a put nothing but that put can have come between.
LatestKept ==
    /\ (\A r \in Scan : outbox[r] = NoPut) => cb = latest
    /\ \A s \in Scan : outbox[s] # NoPut => outbox[s] = latest

Calm == ~Excused /\ mishaps = {}

LEMMA LatestStep ==
    /\ BodyTypeOK /\ LockFacts /\ (Punctual => OnePut)' /\ (Punctual => Trimming)
    /\ (Calm => LatestKept) /\ [BodyNext]_allVars
    => (Calm => LatestKept)'
<1> SUFFICES ASSUME BodyTypeOK, LockFacts, OnePut', Trimming, Calm, LatestKept,
                    Calm', Punctual', [BodyNext]_allVars
             PROVE  LatestKept'
    BY ExcuseStays, MishapsStay DEF Calm, Punctual
<1>0. outbox \in [Scan -> Venue \union {NoPut}] /\ copy \in [Scan -> Venue]
    BY TypesSplit DEF BreakerTypes
<1> USE <1>0 DEF LatestKept
<1>1. ASSUME NEW s \in Scan, SaveBreaker(s) PROVE LatestKept'
  <2>1. /\ outbox' = [outbox EXCEPT ![s] = copy[s]] /\ latest' = copy[s]
        /\ copy[s] # NoPut
    BY <1>1, BodyAssumption DEF SaveBreaker
  <2>2. \A r \in Scan \ {s} : outbox'[r] = NoPut
    BY <2>1 DEF OnePut
  <2>3. QED
    BY <2>1, <2>2
<1>2. ASSUME NEW s \in Scan, PutLands(s) PROVE LatestKept'
    BY <1>2 DEF PutLands
<1>3. ASSUME NEW s \in Scan, PutIsLost(s) PROVE LatestKept'
    BY <1>3 DEF PutIsLost, Occurred, Calm
<1>4. ASSUME UNCHANGED <<outbox, latest>> PROVE LatestKept'
  <2>1. CASE cb' = cb
    BY <1>4, <2>1
  <2>2. QED
    BY <1>2, <2>1, OnlyPutsChange
<1>5. ReadToEdit \/ PutEdited \/ Surroundings => UNCHANGED <<outbox, latest>>
    BY DEF ReadToEdit, PutEdited, Surroundings
<1>6. ASSUME NEW s \in Scan,
             \/ LockStep(s) \/ DieInBody(s) \/ FinishBody(s) \/ LoadBreaker(s)
             \/ TrimRecord(s) \/ StartBatch(s) \/ ReadPositions(s) \/ BookResult(s)
             \/ EndSettlement(s)
             \/ \E symbol \in Symbol :
                  \/ Ask(s, symbol) \/ Answer(s, symbol) \/ Miss(s, symbol)
                  \/ HandlerThrows(s, symbol)
             \/ \E p \in Position : ClosePosition(s, p) \/ OpenPosition(s, p)
      PROVE  UNCHANGED <<outbox, latest>>
    BY <1>6 DEF LockStep, DieInBody, FinishBody, LoadBreaker, TrimRecord, StartBatch,
                ReadPositions, BookResult, EndSettlement, Ask, Answer, Miss, HandlerThrows,
                ClosePosition, OpenPosition, bodyVars, breakerVars
<1>7. UNCHANGED allVars => UNCHANGED <<outbox, latest>>
    BY DEF allVars, bodyVars, breakerVars
<1>8. QED
    BY <1>1, <1>2, <1>3, <1>4, <1>5, <1>6, <1>7 DEF BodyNext, BodyStep

\* While the stored circuit is open, a scan that took no cached price of the
\* venue skips it, has counted nothing, and puts back what is there.
OpenKept ==
    IsOpen(cb, now) =>
        \A s \in Scan \ served :
            /\ In(s, "trim") \/ In(s, "fetch")
                 => skip[s] /\ copy[s] = cb /\ asked[s] = {}
            /\ outbox[s] # NoPut => outbox[s] = cb

LEMMA OpenKeptStep ==
    /\ BodyTypeOK /\ Places /\ OwnPut /\ LockFacts /\ (Punctual => OnePut)
    /\ (Punctual => Trimming) /\ (Punctual => OpenKept) /\ [BodyNext]_allVars
    => (Punctual => OpenKept)'
<1> SUFFICES ASSUME BodyTypeOK, Places, OwnPut, LockFacts, Punctual, OnePut, Trimming,
                    OpenKept, Punctual', [BodyNext]_allVars
             PROVE  OpenKept'
    BY PunctualWas
<1>0. BreakerTypes /\ FetchTypes /\ now \in Nat
      /\ pc \in [Scan -> {"idle"} \union Working \union Ended]
    BY TypesSplit DEF TypeOK
<1> USE <1>0 DEF BreakerTypes, FetchTypes, OpenKept
<1>1. ASSUME NEW s \in Scan, LoadBreaker(s) PROVE OpenKept'
  <2>1. /\ copy' = [copy EXCEPT ![s] = cb]
        /\ skip' = [skip EXCEPT ![s] = IsOpen(cb, now)]
        /\ \A r \in Scan : outbox[r] = NoPut
    BY <1>1 DEF LoadBreaker, Occurred, Punctual
  <2>2. /\ UNCHANGED <<now, pc, cb, outbox, asked, served>>
        /\ \E part \in {"trim", "fetch"} : at' = [at EXCEPT ![s] = part]
        /\ asked[s] = {}
    BY <1>1 DEF LoadBreaker, MoveTo, Places, In, vars
  <2>3. QED
    BY <2>1, <2>2 DEF In
<1>2. ASSUME NEW s \in Scan, NEW symbol \in Symbol, Ask(s, symbol) PROVE OpenKept'
  <2>1. /\ UNCHANGED <<now, pc, at, cb, outbox, copy, skip, served>>
        /\ In(s, "fetch") /\ ~skip[s]
        /\ asked' = [asked EXCEPT ![s] = @ \union {symbol}]
    BY <1>2 DEF Ask, breakerVars, vars
  <2>2. IsOpen(cb, now) => s \in served
    BY <2>1
  <2>3. QED
    BY <2>1, <2>2 DEF In
<1>3. ASSUME NEW s \in Scan, NEW symbol \in Symbol, Answer(s, symbol) PROVE OpenKept'
  <2>1. /\ UNCHANGED <<now, pc, at, cb, outbox, skip>> /\ In(s, "fetch")
        /\ asked' = [asked EXCEPT ![s] = @ \ {symbol}]
        /\ copy' = [copy EXCEPT ![s] = AfterSuccess(@)]
        /\ served' = IF skip[s] /\ symbol \notin asked[s] THEN served \union {s} ELSE served
    BY <1>3 DEF Answer, Handled, vars
  <2>2. IsOpen(cb, now) => s \in served'
    BY <2>1
  <2>3. QED
    BY <2>1, <2>2 DEF In
<1>4. ASSUME NEW s \in Scan, NEW symbol \in Symbol, Miss(s, symbol) PROVE OpenKept'
  <2>1. /\ UNCHANGED <<now, pc, at, cb, outbox, served>> /\ In(s, "fetch")
        /\ asked' = [asked EXCEPT ![s] = @ \ {symbol}]
        /\ skip[s] => UNCHANGED <<copy, skip>>
    BY <1>4 DEF Miss, Handled, vars
  <2>2. \A r \in Scan \ {s} : copy'[r] = copy[r] /\ skip'[r] = skip[r]
    BY <1>4 DEF Miss
  <2>3. QED
    BY <2>1, <2>2 DEF In
<1>5. ASSUME NEW s \in Scan, SaveBreaker(s) PROVE OpenKept'
  <2>1. /\ UNCHANGED <<now, pc, cb, asked, served>> /\ In(s, "fetch")
        /\ at' = [at EXCEPT ![s] = "read"]
        /\ outbox' = [outbox EXCEPT ![s] = copy[s]]
    BY <1>5 DEF SaveBreaker, MoveTo, fetchVars, vars
  <2>2. \A r \in Scan \ {s} : copy'[r] = copy[r] /\ skip'[r] = skip[r]
    BY <1>5 DEF SaveBreaker, Forget
  <2>3. QED
    BY <2>1, <2>2 DEF In
<1>6. ASSUME NEW s \in Scan, PutLands(s) PROVE OpenKept'
  <2>1. /\ outbox' = [outbox EXCEPT ![s] = NoPut] /\ outbox[s] # NoPut
        /\ UNCHANGED <<pc, at>>
    BY <1>6 DEF PutLands, vars
  <2>2. \A r \in Scan : outbox'[r] = NoPut /\ ~In(r, "trim")' /\ ~In(r, "fetch")'
    BY <2>1 DEF OnePut, OwnPut, In
  <2>3. QED
    BY <2>2
<1>7. ASSUME NEW s \in Scan, PutIsLost(s) PROVE OpenKept'
    BY <1>7 DEF PutIsLost, In, vars, fetchVars
<1>8. ASSUME NEW s \in Scan, DieInBody(s) PROVE OpenKept'
  <2>1. /\ UNCHANGED <<now, cb, outbox, served>>
        /\ pc' = [pc EXCEPT ![s] = "dead"]
        /\ \A r \in Scan \ {s} : UNCHANGED <<at[r], copy[r], skip[r], asked[r]>>
    BY <1>8 DEF DieInBody, Die, GoTo, MoveTo, Forget
  <2>2. QED
    BY <2>1 DEF In
<1>9. ASSUME ReadToEdit \/ PutEdited \/ Surroundings PROVE OpenKept'
  <2>1. /\ UNCHANGED <<outbox, copy, skip, asked, served, pc, at>>
        /\ now' \in {now, now + 1}
    BY <1>9 DEF ReadToEdit, PutEdited, Surroundings, Tick, Propagate, Quiescent,
                ResetStore, fetchVars, vars
  <2>2. CASE cb' = cb
    <3>1. IsOpen(cb', now') => IsOpen(cb, now)
      BY <2>1, <2>2, OpenFades
    <3>2. QED
      BY <2>1, <2>2, <3>1 DEF In
  <2>3. QED
    BY <1>6, <2>2, OnlyPutsChange
<1>10. ASSUME NEW s \in Scan, LockStep(s) \/ FinishBody(s) PROVE OpenKept'
  <2>1. /\ UNCHANGED <<now, cb, outbox, copy, skip, asked, served>>
        /\ \A r \in Scan \ {s} : pc'[r] = pc[r] /\ at'[r] = at[r]
    BY <1>10 DEF LockStep, FinishBody, Start, ReadLock, WriteLock, VerifyLock,
                 CompareToken, DeleteLock, FinishScan, GoTo, MoveTo, bodyVars,
                 breakerVars, fetchVars
  <2>2. at'[s] = "load"
    BY <1>10 DEF LockStep, FinishBody, Start, ReadLock, WriteLock, VerifyLock,
                 CompareToken, DeleteLock, MoveTo, Places, bodyVars
  <2>3. QED
    BY <2>1, <2>2 DEF In
<1>11. ASSUME UNCHANGED <<now, cb, outbox, copy, skip, asked, served, pc>>,
              \A s \in Scan : at'[s] = at[s] \/ at'[s] \notin {"trim", "fetch"}
       PROVE  OpenKept'
    BY <1>11 DEF In
<1>12. ASSUME NEW s \in Scan,
              \/ StartBatch(s) \/ ReadPositions(s) \/ EndSettlement(s) \/ BookResult(s)
              \/ \E p \in Position : ClosePosition(s, p) \/ OpenPosition(s, p)
       PROVE  OpenKept'
  <2>1. UNCHANGED <<now, cb, outbox, copy, skip, asked, served, pc>>
    BY <1>12 DEF StartBatch, ReadPositions, EndSettlement, BookResult, ClosePosition,
                 OpenPosition, breakerVars, fetchVars, vars
  <2>2. \A r \in Scan : at'[r] = at[r] \/ at'[r] \notin {"trim", "fetch"}
    BY <1>12 DEF StartBatch, ReadPositions, EndSettlement, BookResult, ClosePosition,
                 OpenPosition, MoveTo
  <2>3. QED
    BY <1>11, <2>1, <2>2
<1>15. ASSUME NEW s \in Scan, TrimRecord(s) PROVE OpenKept'
  <2>1. /\ UNCHANGED <<now, pc, outbox, copy, skip, asked, served>>
        /\ In(s, "trim") /\ at' = [at EXCEPT ![s] = "fetch"]
    BY <1>15 DEF TrimRecord, MoveTo, fetchVars, vars
  <2>2. cb' = cb
    BY <1>15 DEF TrimRecord, Trimming
  <2>3. QED
    BY <2>1, <2>2 DEF In
<1>16. ASSUME NEW s \in Scan, NEW symbol \in Symbol, HandlerThrows(s, symbol)
       PROVE  OpenKept'
  <2>1. /\ UNCHANGED <<now, pc, at, cb, outbox, copy, skip, served>>
        /\ asked' = [asked EXCEPT ![s] = @ \ {symbol}]
    BY <1>16 DEF HandlerThrows, Handled, breakerVars, vars
  <2>2. QED
    BY <2>1 DEF In
<1>13. UNCHANGED allVars => OpenKept'
    BY <1>11 DEF allVars, vars, bodyVars, breakerVars, fetchVars
<1>14. QED
    BY <1>1, <1>2, <1>3, <1>4, <1>5, <1>6, <1>7, <1>8, <1>9, <1>10, <1>12, <1>13,
       <1>15, <1>16 DEF BodyNext, BodyStep

\* All that holds of the puts, together.
PutsOK ==
    /\ OwnPut
    /\ Punctual => OnePut
    /\ Punctual => Trimming
    /\ Calm => LatestKept
    /\ Punctual => OpenKept

LEMMA PutsInit == BodyInit => PutsOK
BY DEF BodyInit, PutsOK, OwnPut, OnePut, Trimming, LatestKept,
       OpenKept, In

LEMMA PutsStep ==
    BodyTypeOK /\ Places /\ LockFacts /\ PutsOK /\ [BodyNext]_allVars => PutsOK'
<1> SUFFICES ASSUME BodyTypeOK, Places, LockFacts, PutsOK, [BodyNext]_allVars
             PROVE  PutsOK'
    OBVIOUS
<1>1. OwnPut'
    BY OwnPutStep DEF PutsOK
<1>2. (Punctual => OnePut)'
    BY OnePutStep DEF PutsOK
<1>3. (Punctual => Trimming)'
    BY TrimmingStep DEF PutsOK
<1>4. (Calm => LatestKept)'
    BY <1>2, LatestStep DEF PutsOK
<1>5. (Punctual => OpenKept)'
    BY OpenKeptStep DEF PutsOK
<1>6. QED
    BY <1>1, <1>2, <1>3, <1>4, <1>5 DEF PutsOK

\* Nobody died with a price it had and had not put.
Known == Calm /\ \A s \in Scan : pc[s] # "dead"

Asking(s) == In(s, "trim") \/ In(s, "fetch")

\* What the scan that asks holds, or else what the last one held, counts no more
\* failures than were recorded since a price last was.
StreakKept ==
    /\ \A s \in Scan : Asking(s) => Backed(copy[s], streak)
    /\ (\A s \in Scan : ~Asking(s)) => Backed(latest, streak)

LEMMA StreakInit == BodyInit => StreakKept
<1> SUFFICES ASSUME BodyInit PROVE StreakKept
    OBVIOUS
<1>1. Backed(latest, streak)
    BY BackedInit DEF BodyInit, AllBacked
<1>2. \A s \in Scan : ~Asking(s)
    BY DEF BodyInit, Asking, In
<1>3. QED
    BY <1>1, <1>2 DEF StreakKept

\* A worker that died stays so.
LEMMA DeadForGood ==
    ASSUME TypeOK, [Next]_vars, NEW s \in Scan, pc[s] = "dead"
    PROVE  pc'[s] = "dead"
<1>0. pc \in [Scan -> {"idle"} \union Working \union Ended]
    BY DEF TypeOK
<1>1. ASSUME NEW r \in Scan, NEW place, pc[r] # "dead", GoTo(r, place)
      PROVE  pc'[s] = "dead"
    BY <1>0, <1>1 DEF GoTo
<1>2. ASSUME NEW r \in Scan, Start(r) \/ ReadLock(r) \/ WriteLock(r) \/ VerifyLock(r)
      PROVE  pc'[s] = "dead"
    BY <1>1, <1>2 DEF Start, ReadLock, WriteLock, VerifyLock
<1>3. ASSUME NEW r \in Scan, FinishScan(r) \/ CompareToken(r) \/ DeleteLock(r)
      PROVE  pc'[s] = "dead"
    BY <1>1, <1>3 DEF FinishScan, CompareToken, DeleteLock
<1>4. ASSUME NEW r \in Scan, Die(r) PROVE pc'[s] = "dead"
    BY <1>0, <1>4 DEF Die, GoTo
<1>5. CASE ResetStore \/ Tick \/ Propagate \/ Quiescent \/ UNCHANGED vars
    BY <1>5 DEF ResetStore, Tick, Propagate, Quiescent, vars
<1>6. QED
    BY <1>2, <1>3, <1>4, <1>5 DEF Next, Step

LEMMA KnownWas ==
    BodyTypeOK /\ LockFacts /\ [BodyNext]_allVars /\ Known' => Known
<1> SUFFICES ASSUME BodyTypeOK, LockFacts, [BodyNext]_allVars, Known' PROVE Known
    OBVIOUS
<1>1. Calm
    BY ExcuseStays, MishapsStay DEF Known, Calm
<1>2. \A s \in Scan : pc[s] = "dead" => pc'[s] = "dead"
    BY BodyLock, DeadForGood DEF LockFacts
<1>3. QED
    BY <1>1, <1>2 DEF Known

\* Of two scans that have the lock without an excuse neither asks.
LEMMA OneAsks ==
    ASSUME LockFacts, ~Excused, NEW s \in Scan, pc[s] = "hold"
    PROVE  \A r \in Scan \ {s} : ~Asking(r)
BY DEF LockFacts, DoubleExecutionNeedsExcuse, Executing, Asking, In

LEMMA StreakStep ==
    /\ BodyTypeOK /\ Places /\ LockFacts /\ (Calm => LatestKept)
    /\ (Known => StreakKept) /\ [BodyNext]_allVars
    => (Known => StreakKept)'
<1> SUFFICES ASSUME BodyTypeOK, Places, LockFacts, LatestKept, Known, StreakKept,
                    Known', [BodyNext]_allVars
             PROVE  StreakKept'
    BY KnownWas DEF Known
<1>0. /\ pc \in [Scan -> {"idle"} \union Working \union Ended]
      /\ BreakerTypes /\ FetchTypes /\ now \in Nat /\ ~Excused
    BY TypesSplit DEF TypeOK, Known, Calm
<1> USE <1>0 DEF StreakKept, BreakerTypes, FetchTypes
<1>1. ASSUME NEW s \in Scan, LoadBreaker(s) PROVE StreakKept'
  <2>1. /\ copy' = [copy EXCEPT ![s] = cb] /\ UNCHANGED <<pc, streak, latest>>
        /\ \A r \in Scan : outbox[r] = NoPut
    BY <1>1 DEF LoadBreaker, Occurred, Known, Calm, vars
  <2>2. /\ In(s, "load")
        /\ \E part \in {"trim", "fetch"} : at' = [at EXCEPT ![s] = part]
    BY <1>1 DEF LoadBreaker, MoveTo
  <2>3. \A r \in Scan : ~Asking(r)
    BY <2>2, OneAsks DEF Asking, In
  <2>4. Backed(cb, streak)
    BY <2>1, <2>3 DEF LatestKept
  <2>5. \A r \in Scan \ {s} : ~Asking(r)'
    BY <2>1, <2>2, <2>3 DEF Asking, In
  <2>6. Asking(s)'
    BY <2>1, <2>2 DEF Asking, In
  <2>7. QED
    BY <2>1, <2>4, <2>5, <2>6
<1>2. ASSUME NEW s \in Scan, NEW symbol \in Symbol, Answer(s, symbol) PROVE StreakKept'
  <2>1. /\ In(s, "fetch") /\ UNCHANGED <<pc, at>>
        /\ copy' = [copy EXCEPT ![s] = AfterSuccess(@)] /\ streak' = 0
    BY <1>2 DEF Answer, Handled, vars
  <2>2. Asking(s)' /\ \A r \in Scan \ {s} : ~Asking(r)'
    BY <2>1, OneAsks DEF Asking, In
  <2>3. Backed(AfterSuccess(copy[s]), 0)
    BY SuccessBacked, BreakerAssumption
  <2>4. QED
    BY <2>1, <2>2, <2>3
<1>3. ASSUME NEW s \in Scan, NEW symbol \in Symbol, Miss(s, symbol) PROVE StreakKept'
  <2>1. In(s, "fetch") /\ UNCHANGED <<pc, at>>
    BY <1>3 DEF Miss, Handled, vars
  <2>2. Asking(s)' /\ \A r \in Scan \ {s} : ~Asking(r)'
    BY <2>1, OneAsks DEF Asking, In
  <2>3. Backed(copy[s], streak)
    BY <2>1 DEF Asking
  <2>4. Backed(copy'[s], streak')
    <3>1. CASE skip[s]
      BY <1>3, <2>3, <3>1 DEF Miss
    <3>2. CASE ~skip[s]
      <4>1. copy' = [copy EXCEPT ![s] = AfterFailure(@, now)] /\ streak' = OneMore(streak)
        BY <1>3, <3>2 DEF Miss
      <4>2. Backed(AfterFailure(copy[s], now), OneMore(streak))
        BY <2>3, FailureBacked
      <4>3. QED
        BY <4>1, <4>2
    <3>3. QED
      BY <3>1, <3>2
  <2>5. QED
    BY <2>2, <2>4
<1>4. ASSUME NEW s \in Scan, SaveBreaker(s) PROVE StreakKept'
  <2>1. /\ In(s, "fetch") /\ UNCHANGED <<pc, streak>> /\ latest' = copy[s]
        /\ at' = [at EXCEPT ![s] = "read"]
    BY <1>4 DEF SaveBreaker, MoveTo, vars
  <2>2. \A r \in Scan : ~Asking(r)'
    BY <2>1, OneAsks DEF Asking, In
  <2>3. Backed(copy[s], streak)
    BY <2>1 DEF Asking
  <2>4. QED
    BY <2>1, <2>2, <2>3
<1>5. ASSUME UNCHANGED <<streak, latest>>,
             \A r \in Scan : /\ Asking(r)' <=> Asking(r)
                             /\ Asking(r) => copy'[r] = copy[r]
      PROVE  StreakKept'
    BY <1>5
<1>6. ASSUME NEW s \in Scan, LockStep(s) \/ FinishBody(s) PROVE StreakKept'
  <2>1. /\ UNCHANGED <<streak, latest, copy>>
        /\ \A r \in Scan \ {s} : pc'[r] = pc[r] /\ at'[r] = at[r]
    BY <1>6 DEF LockStep, FinishBody, Start, ReadLock, WriteLock, VerifyLock,
                CompareToken, DeleteLock, FinishScan, GoTo, MoveTo, bodyVars, breakerVars
  <2>2. at[s] \in {"load", "trade"} /\ at'[s] = "load"
    BY <1>6 DEF LockStep, FinishBody, Start, ReadLock, WriteLock, VerifyLock,
                CompareToken, DeleteLock, MoveTo, Places, bodyVars
  <2>3. QED
    BY <1>5, <2>1, <2>2 DEF Asking, In
<1>7. ASSUME NEW s \in Scan, TrimRecord(s) PROVE StreakKept'
  <2>1. /\ UNCHANGED <<streak, latest, copy, pc>> /\ In(s, "trim")
        /\ at' = [at EXCEPT ![s] = "fetch"]
    BY <1>7 DEF TrimRecord, MoveTo, vars
  <2>2. QED
    BY <1>5, <2>1 DEF Asking, In
<1>8. ASSUME NEW s \in Scan, ReadPositions(s) \/ EndSettlement(s) PROVE StreakKept'
  <2>1. /\ UNCHANGED <<streak, latest, copy, pc>> /\ at[s] \in {"read", "settle"}
        /\ \E part \in {"settle", "trade"} : at' = [at EXCEPT ![s] = part]
    BY <1>8 DEF ReadPositions, EndSettlement, MoveTo, In, breakerVars, vars
  <2>2. QED
    BY <1>5, <2>1 DEF Asking, In
<1>9. ASSUME UNCHANGED <<streak, latest, copy, pc, at>> PROVE StreakKept'
    BY <1>5, <1>9 DEF Asking, In
<1>10. ASSUME NEW s \in Scan,
              \/ StartBatch(s) \/ BookResult(s) \/ PutLands(s) \/ PutIsLost(s)
              \/ \E symbol \in Symbol : Ask(s, symbol) \/ HandlerThrows(s, symbol)
              \/ \E p \in Position : ClosePosition(s, p) \/ OpenPosition(s, p)
       PROVE  UNCHANGED <<streak, latest, copy, pc, at>>
    BY <1>10 DEF StartBatch, BookResult, PutLands, PutIsLost, Ask, HandlerThrows,
                 ClosePosition, OpenPosition, breakerVars, vars
<1>11. ReadToEdit \/ PutEdited \/ Surroundings
         => UNCHANGED <<streak, latest, copy, pc, at>>
    BY DEF ReadToEdit, PutEdited, Surroundings, Tick, Propagate, Quiescent, ResetStore, vars
<1>12. UNCHANGED allVars => UNCHANGED <<streak, latest, copy, pc, at>>
    BY DEF allVars, vars, bodyVars, breakerVars
<1>13. ASSUME NEW s \in Scan, DieInBody(s) PROVE FALSE
    BY <1>13 DEF DieInBody, Die, GoTo, Known
<1>14. QED
    BY <1>1, <1>2, <1>3, <1>4, <1>6, <1>7, <1>8, <1>9, <1>10, <1>11, <1>12, <1>13
       DEF BodyNext, BodyStep

\* For any thresholds and windows, any number of scans and any faults, a scan
\* skips the venue only after MaxFailures recorded failures; and on a reliable
\* store they were in a row unless a named mishap or a death hid a price.
THEOREM SkippedVenuesFailed == BodySpec => SkippingNeedsFailures
<1>1. /\ BodyTypeOK /\ Places /\ LockFacts /\ PutsOK /\ AllBacked
      /\ (Known => StreakKept) /\ [BodyNext]_allVars
      => [\A s \in Scan : skip'[s] /\ ~skip[s] =>
             /\ recorded' >= MaxFailures
             /\ \/ streak' >= MaxFailures
                \/ mishaps' # {} \/ Excused' \/ \E r \in Scan : pc[r] = "dead"]_allVars
  <2> SUFFICES ASSUME BodyTypeOK, Places, LockFacts, PutsOK, AllBacked,
                      Known => StreakKept, [BodyNext]_allVars,
                      NEW s \in Scan, skip'[s], ~skip[s]
               PROVE  /\ recorded' >= MaxFailures
                      /\ \/ streak' >= MaxFailures
                         \/ mishaps' # {} \/ Excused' \/ \E r \in Scan : pc[r] = "dead"
      OBVIOUS
  <2>0. /\ BreakerTypes /\ now \in Nat /\ MaxFailures \in Nat
      BY TypesSplit, BreakerAssumption DEF TypeOK
  <2>1. Calm' => Calm
      BY ExcuseStays, MishapsStay DEF Calm
  <2>2. LoadBreaker(s) \/ \E symbol \in Symbol : Miss(s, symbol)
    <3>1. ASSUME NEW r \in Scan, \/ LoadBreaker(r) \/ SaveBreaker(r) \/ DieInBody(r)
                                 \/ \E symbol \in Symbol : Miss(r, symbol)
          PROVE  LoadBreaker(s) \/ \E symbol \in Symbol : Miss(s, symbol)
      <4>1. CASE r = s
        BY <2>0, <3>1, <4>1 DEF SaveBreaker, DieInBody, Forget, BreakerTypes
      <4>2. CASE r # s
        BY <2>0, <3>1, <4>2 DEF LoadBreaker, Miss, SaveBreaker, DieInBody, Forget,
                                BreakerTypes
      <4>3. QED
        BY <4>1, <4>2
    <3>2. ASSUME NEW r \in Scan,
                 \/ LockStep(r) \/ FinishBody(r) \/ TrimRecord(r) \/ StartBatch(r)
                 \/ PutLands(r) \/ PutIsLost(r) \/ ReadPositions(r) \/ BookResult(r)
                 \/ EndSettlement(r)
                 \/ \E symbol \in Symbol :
                      Ask(r, symbol) \/ Answer(r, symbol) \/ HandlerThrows(r, symbol)
                 \/ \E p \in Position : ClosePosition(r, p) \/ OpenPosition(r, p)
          PROVE  skip' = skip
        BY <3>2 DEF LockStep, FinishBody, TrimRecord, StartBatch, PutLands, PutIsLost,
                    ReadPositions, BookResult, EndSettlement, Ask, Answer, HandlerThrows,
                    ClosePosition, OpenPosition, bodyVars, breakerVars
    <3>3. ReadToEdit \/ PutEdited \/ Surroundings \/ UNCHANGED allVars => skip' = skip
        BY DEF ReadToEdit, PutEdited, Surroundings, allVars, bodyVars, breakerVars
    <3>4. QED
        BY <3>1, <3>2, <3>3 DEF BodyNext, BodyStep
  <2>3. CASE LoadBreaker(s)
    <3>1. /\ IsOpen(cb, now) /\ UNCHANGED <<recorded, streak, latest>>
          /\ In(s, "load") /\ Occurred("late", \E r \in Scan : outbox[r] # NoPut)
      BY <2>0, <2>3 DEF LoadBreaker, BreakerTypes
    <3>2. recorded = MaxFailures
      BY <2>0, <3>1, OpenIsBacked DEF AllBacked, BreakerTypes
    <3>3. ASSUME Known, mishaps' = {} PROVE streak = MaxFailures
      <4>1. \A r \in Scan : outbox[r] = NoPut
        BY <3>1, <3>3 DEF Occurred
      <4>2. cb = latest
        BY <3>3, <4>1 DEF PutsOK, LatestKept, Known
      <4>3. \A r \in Scan : ~Asking(r)
        BY <3>1, <3>3, OneAsks DEF Asking, In, Known, Calm
      <4>4. Backed(cb, streak)
        BY <3>3, <4>2, <4>3 DEF StreakKept
      <4>5. QED
        BY <2>0, <3>1, <4>4, OpenIsBacked DEF BreakerTypes
    <3>4. QED
      BY <2>0, <2>1, <3>1, <3>2, <3>3 DEF Known, Calm
  <2>4. ASSUME NEW symbol \in Symbol, Miss(s, symbol)
        PROVE  /\ recorded' >= MaxFailures
               /\ \/ streak' >= MaxFailures
                  \/ mishaps' # {} \/ Excused' \/ \E r \in Scan : pc[r] = "dead"
    <3>1. /\ copy' = [copy EXCEPT ![s] = AfterFailure(@, now)]
          /\ skip' = [skip EXCEPT ![s] = IsOpen(copy'[s], now)]
          /\ recorded' = OneMore(recorded) /\ streak' = OneMore(streak)
          /\ In(s, "fetch")
      BY <2>4 DEF Miss, Handled
    <3>2. AfterFailure(copy[s], now) \in Venue
      BY <2>0, AfterFailureType DEF BreakerTypes
    <3>3. copy'[s] = AfterFailure(copy[s], now) /\ IsOpen(AfterFailure(copy[s], now), now)
      BY <2>0, <3>1 DEF BreakerTypes
    <3>4. Backed(AfterFailure(copy[s], now), OneMore(recorded))
      BY <2>0, FailureBacked DEF AllBacked, BreakerTypes
    <3>5. OneMore(recorded) = MaxFailures
      BY <2>0, <3>2, <3>3, <3>4, OpenIsBacked
    <3>6. ASSUME Known PROVE OneMore(streak) = MaxFailures
      <4>1. Backed(copy[s], streak)
        BY <3>1, <3>6 DEF StreakKept, Asking
      <4>2. Backed(AfterFailure(copy[s], now), OneMore(streak))
        BY <2>0, <4>1, FailureBacked DEF BreakerTypes
      <4>3. QED
        BY <2>0, <3>2, <3>3, <4>2, OpenIsBacked
    <3>7. QED
      BY <2>0, <2>1, <3>1, <3>5, <3>6 DEF Known, Calm
  <2>5. QED
    BY <2>2, <2>3, <2>4
<1>2. BodySpec => []LockFacts
    BY LockHolds
<1>3. BodyInit => (Known => StreakKept)
    BY StreakInit
<1>4. PutsOK => (Calm => LatestKept)
    BY DEF PutsOK
<1>5. QED
    BY <1>1, <1>2, <1>3, <1>4, BodyTypeInit, BodyTypeStep, PlacesInit, PlacesStep,
       BackedInit, BackedStep, PutsInit, PutsStep, StreakStep, PTL
       DEF BodySpec, SkippingNeedsFailures

\* A scan starts from what the last one learnt, unless its put was late or lost,
\* the record was misread or changed by a command, or the lock has an excuse.
THEOREM ForgettingIsCaused == BodySpec => FailureForgottenNeedsCause
<1>1. BodyTypeOK /\ LockFacts /\ PutsOK /\ [BodyNext]_allVars =>
        [\A s \in Scan :
            LoadBreaker(s) => copy'[s] = latest \/ mishaps' # {} \/ Excused]_allVars
  <2> SUFFICES ASSUME BodyTypeOK, PutsOK, [BodyNext]_allVars,
                      NEW s \in Scan, LoadBreaker(s), mishaps' = {}, ~Excused
               PROVE  copy'[s] = latest
    OBVIOUS
  <2>1. Calm
    BY MishapsStay DEF Calm
  <2>2. copy' = [copy EXCEPT ![s] = cb] /\ \A r \in Scan : outbox[r] = NoPut
    BY DEF LoadBreaker, Occurred
  <2>3. copy \in [Scan -> Venue]
    BY DEF BodyTypeOK
  <2>4. QED
    BY <2>1, <2>2, <2>3 DEF PutsOK, LatestKept
<1>2. BodySpec => []LockFacts
    BY LockHolds
<1>3. QED
    BY <1>1, <1>2, BodyTypeInit, BodyTypeStep, PlacesInit, PlacesStep, PutsInit,
       PutsStep, PTL DEF BodySpec, FailureForgottenNeedsCause

\* A write ends a cooldown early only when puts or scans overlapped (the lock has
\* an excuse), the record was misread or changed by a command, or a scan took a
\* cached price for an answer of the venue.
THEOREM CuttingShortIsCaused == BodySpec => CooldownCutShortNeedsCause
<1>1. BodyTypeOK /\ LockFacts /\ PutsOK /\ [BodyNext]_allVars =>
        [IsOpen(cb, now') /\ ~IsOpen(cb', now')
         => \/ Excused'
            \/ mishaps' \intersect {"late", "misread", "edited"} # {}
            \/ \E s \in served : PutLands(s)]_allVars
  <2> SUFFICES ASSUME BodyTypeOK, LockFacts, PutsOK, [BodyNext]_allVars,
                      IsOpen(cb, now'), ~IsOpen(cb', now'), Punctual'
               PROVE  \E s \in served : PutLands(s)
    BY DEF Punctual
  <2>1. Punctual /\ Trimming /\ OpenKept
    BY PunctualWas DEF PutsOK
  <2>2. cb' # cb
    OBVIOUS
  <2>3. PICK s \in Scan : PutLands(s)
    BY <2>1, <2>2, OnlyPutsChange
  <2>4. now' = now /\ cb' = outbox[s] /\ outbox[s] # NoPut
    BY <2>3 DEF PutLands, vars
  <2>5. s \in served
    BY <2>1, <2>2, <2>4 DEF OpenKept
  <2>6. QED
    BY <2>3, <2>5
<1>2. BodySpec => []LockFacts
    BY LockHolds
<1>3. QED
    BY <1>1, <1>2, BodyTypeInit, BodyTypeStep, PlacesInit, PlacesStep, PutsInit,
       PutsStep, PTL DEF BodySpec, CooldownCutShortNeedsCause
=============================================================================
