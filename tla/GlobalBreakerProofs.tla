------------------------- MODULE GlobalBreakerProofs -------------------------
(***************************************************************************)
(* What GlobalBreaker promises, for every number of monitors and cycles,   *)
(* every threshold and every number of resets and mishaps.                 *)
(*                                                                         *)
(* A step is one of a monitor, one of a cycle, a reset or a break-down;    *)
(* each property is carried over these by the lemmas below.                *)
(***************************************************************************)
EXTENDS GlobalBreaker, TLAPS

-----------------------------------------------------------------------------
(* The operations on a record. *)

LEMMA RecordTypes ==
    /\ Default \in Breaker
    /\ [Default EXCEPT !.state = "half_open"] \in Breaker
    /\ \A r \in Breaker : AfterFailure(r) \in Breaker /\ AfterSuccess(r) \in Breaker
    /\ \A n \in 0..Threshold : OneMore(n) \in 0..Threshold
<1>1. \A n \in 0..Threshold : OneMore(n) \in 0..Threshold
    BY GlobalAssumption DEF OneMore
<1>2. Default \in Breaker
    BY GlobalAssumption DEF Default, Breaker
<1>3. [Default EXCEPT !.state = "half_open"] \in Breaker
    BY GlobalAssumption DEF Default, Breaker
<1>4. \A r \in Breaker : AfterFailure(r) \in Breaker
    BY <1>1, GlobalAssumption DEF AfterFailure, Breaker
<1>5. \A r \in Breaker : AfterSuccess(r) \in Breaker
    BY GlobalAssumption DEF AfterSuccess, Breaker
<1>6. QED
    BY <1>1, <1>2, <1>3, <1>4, <1>5

\* What a get answers is a record.
LEMMA AnswerType ==
    ASSUME TypeOK, NEW r \in {record, Default}
    PROVE  r \in Breaker
BY RecordTypes DEF TypeOK

-----------------------------------------------------------------------------
(* Typing. *)

LEMMA TypeInit == Init => TypeOK
<1> SUFFICES ASSUME Init PROVE TypeOK
    OBVIOUS
<1>1. record \in Breaker /\ copy \in [Monitor -> Breaker]
    BY RecordTypes DEF Init
<1>2. pc \in [Monitor -> {"idle", "well", "ill", "put"}]
      /\ gate \in [Cycle -> {"idle", "trading"}]
    BY DEF Init
<1>3. resets \in 0..MaxResets /\ mishaps \in 0..MaxMishaps /\ counted \in 0..Threshold
    BY GlobalAssumption DEF Init
<1>4. broken \in BOOLEAN /\ overtaken \in BOOLEAN
    BY DEF Init
<1>5. stale \subseteq Monitor /\ misread \subseteq Monitor \union Cycle
      /\ before \subseteq Cycle
    BY DEF Init
<1>6. QED
    BY <1>1, <1>2, <1>3, <1>4, <1>5 DEF TypeOK

\* A mishap stays within its bound.
LEMMA MishapType ==
    ASSUME TypeOK, Mishap \/ UNCHANGED mishaps
    PROVE  mishaps' \in 0..MaxMishaps
BY GlobalAssumption DEF TypeOK, Mishap

LEMMA TypeStep == TypeOK /\ [Next]_vars => TypeOK'
<1> SUFFICES ASSUME TypeOK, [Next]_vars PROVE TypeOK'
    OBVIOUS
<1> USE DEF TypeOK, GoTo
<1>1. ASSUME NEW m \in Monitor, Check(m) PROVE TypeOK'
    BY <1>1 DEF Check
<1>2. ASSUME NEW m \in Monitor, ReadWell(m) PROVE TypeOK'
  <2>1. PICK r \in {record, Default} :
            /\ Read(m, r)
            /\ \/ Ignored(r) /\ GoTo(m, "idle") /\ UNCHANGED copy
               \/ /\ ~Ignored(r)
                  /\ copy' = [copy EXCEPT ![m] = AfterSuccess(r)]
                  /\ GoTo(m, "put")
    BY <1>2 DEF ReadWell
  <2>2. AfterSuccess(r) \in Breaker
    BY AnswerType, RecordTypes
  <2>3. mishaps' \in 0..MaxMishaps /\ misread' \subseteq Monitor \union Cycle
    BY <2>1, MishapType DEF Read
  <2>4. copy' \in [Monitor -> Breaker] /\ pc' \in [Monitor -> {"idle", "well", "ill", "put"}]
    BY <2>1, <2>2
  <2>5. QED
    BY <1>2, <2>3, <2>4 DEF ReadWell
<1>3. ASSUME NEW m \in Monitor, ReadIll(m) PROVE TypeOK'
  <2>1. PICK r \in {record, Default} :
            Read(m, r) /\ copy' = [copy EXCEPT ![m] = AfterFailure(r)]
    BY <1>3 DEF ReadIll
  <2>2. AfterFailure(r) \in Breaker
    BY AnswerType, RecordTypes
  <2>3. mishaps' \in 0..MaxMishaps /\ misread' \subseteq Monitor \union Cycle
    BY <2>1, MishapType DEF Read
  <2>4. copy' \in [Monitor -> Breaker] /\ counted' \in 0..Threshold
    BY <1>3, <2>1, <2>2, RecordTypes DEF ReadIll
  <2>5. QED
    BY <1>3, <2>3, <2>4 DEF ReadIll
<1>4. ASSUME NEW m \in Monitor, Write(m) PROVE TypeOK'
  <2>1. mishaps' \in 0..MaxMishaps
    BY <1>4, MishapType DEF Write
  <2>2. record' \in Breaker /\ stale' \subseteq Monitor /\ before' \subseteq Cycle
    BY <1>4 DEF Write, Opens, Between
  <2>3. QED
    BY <1>4, <2>1, <2>2 DEF Write
<1>5. ASSUME NEW m \in Monitor, Die(m) PROVE TypeOK'
    BY <1>5, MishapType DEF Die
<1>6. ASSUME NEW c \in Cycle, PassGate(c) PROVE TypeOK'
  <2>1. mishaps' \in 0..MaxMishaps /\ misread' \subseteq Monitor \union Cycle
    BY <1>6, MishapType DEF PassGate, Read
  <2>2. QED
    BY <1>6, <2>1 DEF PassGate
<1>7. ASSUME NEW c \in Cycle, EndCycle(c) PROVE TypeOK'
    BY <1>7 DEF EndCycle
<1>8. CASE Reset
  <2>1. record' \in Breaker
    BY <1>8, RecordTypes DEF Reset
  <2>2. resets' \in 0..MaxResets /\ counted' \in 0..Threshold
    BY <1>8, GlobalAssumption DEF Reset
  <2>3. QED
    BY <1>8, <2>1, <2>2 DEF Reset
<1>9. CASE BreakDown
    BY <1>9 DEF BreakDown
<1>10. CASE UNCHANGED vars
    BY <1>10 DEF vars
<1>11. QED
    BY <1>1, <1>2, <1>3, <1>4, <1>5, <1>6, <1>7, <1>8, <1>9, <1>10 DEF Next

\* The breaker's state stays well typed.
THEOREM TypeCorrect == Spec => []TypeOK
BY TypeInit, TypeStep, PTL DEF Spec

-----------------------------------------------------------------------------
(* An open breaker was earned. *)

\* No record in the store or on its way there holds more than was counted, or is
\* open on less than Threshold.
Earned(r) == r.failures <= counted /\ (~Allowed(r) => counted = Threshold)

AllEarned ==
    overtaken \/ (Earned(record) /\ \A m \in Monitor : pc[m] = "put" => Earned(copy[m]))

LEMMA EarnedInit == Init => AllEarned
BY DEF Init, AllEarned, Earned, Default, Allowed

\* Counting one failure more earns the record that counts one more.
LEMMA FailureEarned ==
    ASSUME TypeOK, NEW r \in Breaker, Earned(r) \/ r = Default,
           counted' = OneMore(counted)
    PROVE  Earned(AfterFailure(r))'
BY GlobalAssumption DEF TypeOK, Earned, AfterFailure, OneMore, Breaker, Allowed, Default

LEMMA EarnedStep == TypeOK /\ AllEarned /\ [Next]_vars => AllEarned'
<1> SUFFICES ASSUME TypeOK, ~overtaken', AllEarned, [Next]_vars
             PROVE  Earned(record)' /\ \A m \in Monitor : pc'[m] = "put" => Earned(copy[m])'
    BY DEF AllEarned
<1>0. ~overtaken
    BY DEF Next, Check, ReadWell, ReadIll, Write, Die, PassGate, EndCycle, Reset,
           BreakDown, vars, TypeOK
<1>00. Earned(record) /\ \A m \in Monitor : pc[m] = "put" => Earned(copy[m])
    BY <1>0 DEF AllEarned
<1> DEFINE Goal == Earned(record)' /\ \A m \in Monitor : pc'[m] = "put" => Earned(copy[m])'
<1>1. ASSUME NEW m \in Monitor, Check(m) \/ Die(m) PROVE Goal
    BY <1>1, <1>00 DEF Check, Die, Earned, GoTo, TypeOK
<1>2. ASSUME NEW m \in Monitor, ReadWell(m) PROVE Goal
  <2>1. PICK r \in {record, Default} :
            \/ Ignored(r) /\ GoTo(m, "idle") /\ UNCHANGED copy
            \/ /\ ~Ignored(r)
               /\ copy' = [copy EXCEPT ![m] = AfterSuccess(r)]
               /\ GoTo(m, "put")
    BY <1>2 DEF ReadWell
  <2>2. r \in Breaker
    BY AnswerType
  <2>3. UNCHANGED <<record, counted>> /\ counted \in Nat
    BY <1>2, GlobalAssumption DEF ReadWell, TypeOK
  <2>4. ~Ignored(r) => AfterSuccess(r).failures = 0 /\ Allowed(AfterSuccess(r))
    BY <2>2 DEF AfterSuccess, Allowed, Ignored, Breaker
  <2>5. ~Ignored(r) => Earned(AfterSuccess(r))'
    BY <2>3, <2>4 DEF Earned
  <2>6. QED
    BY <1>00, <2>1, <2>3, <2>5 DEF Earned, GoTo, TypeOK
<1>3. ASSUME NEW m \in Monitor, ReadIll(m) PROVE Goal
  <2>1. PICK r \in {record, Default} : copy' = [copy EXCEPT ![m] = AfterFailure(r)]
    BY <1>3 DEF ReadIll
  <2>2. Earned(AfterFailure(r))'
    BY <1>3, <1>00, AnswerType, FailureEarned DEF ReadIll
  <2>3. \A q \in Breaker : Earned(q) => Earned(q)'
    BY <1>3, GlobalAssumption DEF ReadIll, Earned, OneMore, TypeOK, Breaker
  <2>4. QED
    BY <1>00, <1>3, <2>1, <2>2, <2>3 DEF ReadIll, GoTo, TypeOK, Earned
<1>4. ASSUME NEW m \in Monitor, Write(m) PROVE Goal
  <2>1. record' = record \/ record' = copy[m]
    BY <1>4 DEF Write
  <2>2. UNCHANGED <<copy, counted>> /\ pc[m] = "put"
        /\ \A q \in Monitor : pc'[q] = "put" => pc[q] = "put"
    BY <1>4 DEF Write, GoTo, TypeOK
  <2>3. QED
    BY <1>00, <2>1, <2>2 DEF Earned
<1>5. ASSUME NEW c \in Cycle, PassGate(c) \/ EndCycle(c) PROVE Goal
    BY <1>5, <1>00 DEF PassGate, EndCycle, Earned
<1>6. CASE Reset
  <2>1. \A m \in Monitor : pc'[m] # "put"
    BY <1>6 DEF Reset
  <2>2. record'.failures = 0 /\ Allowed(record)' /\ counted' = 0
    BY <1>6 DEF Reset, Default, Allowed
  <2>3. QED
    BY <2>1, <2>2 DEF Earned
<1>7. CASE BreakDown \/ UNCHANGED vars
    BY <1>7, <1>00 DEF BreakDown, vars, Earned
<1>8. QED
    BY <1>1, <1>2, <1>3, <1>4, <1>5, <1>6, <1>7 DEF Next

\* For any number of overlapping monitors the breaker opens only on Threshold
\* failures counted since the last reset, if no reset overtook a monitor.
THEOREM OpenIsEarned == Spec => []OpenWasEarned
<1>1. AllEarned => OpenWasEarned
    BY DEF AllEarned, Earned, OpenWasEarned
<1>2. QED
    BY <1>1, TypeInit, TypeStep, EarnedInit, EarnedStep, PTL DEF Spec

-----------------------------------------------------------------------------
(* An open breaker is closed by the operator, or by a copy made without it. *)

\* A copy made of the record that is still there keeps it open.
FreshKeepsOpen ==
    \A m \in Monitor :
        pc[m] = "put" /\ m \notin stale \union misread /\ ~Allowed(record)
            => ~Allowed(copy[m])

LEMMA FreshInit == Init => FreshKeepsOpen
BY DEF Init, FreshKeepsOpen

LEMMA FreshStep == TypeOK /\ FreshKeepsOpen /\ [Next]_vars => FreshKeepsOpen'
<1> SUFFICES ASSUME TypeOK, FreshKeepsOpen, [Next]_vars PROVE FreshKeepsOpen'
    OBVIOUS
<1> USE DEF FreshKeepsOpen
<1>1. ASSUME NEW m \in Monitor, Check(m) PROVE FreshKeepsOpen'
    BY <1>1 DEF Check, GoTo, TypeOK, Allowed
<1>2. ASSUME NEW m \in Monitor, ReadWell(m) PROVE FreshKeepsOpen'
  <2>1. PICK r \in {record, Default} :
            /\ Read(m, r)
            /\ Ignored(r) => pc' = [pc EXCEPT ![m] = "idle"]
    BY <1>2 DEF ReadWell, GoTo
  <2>2. m \in misread' \/ r = record
    BY <2>1 DEF Read
  <2>3. ~Allowed(record) => m \in misread' \/ pc'[m] # "put"
    BY <2>1, <2>2 DEF Allowed, Ignored, TypeOK
  <2>4. \A q \in Monitor \ {m} : pc'[q] = pc[q] /\ copy'[q] = copy[q]
            /\ (q \in stale' <=> q \in stale) /\ (q \in misread' <=> q \in misread)
    BY <1>2, <2>1 DEF ReadWell, Read, GoTo, TypeOK
  <2>5. QED
    BY <1>2, <2>3, <2>4 DEF ReadWell, Allowed
<1>3. ASSUME NEW m \in Monitor, ReadIll(m) PROVE FreshKeepsOpen'
  <2>1. PICK r \in {record, Default} :
            Read(m, r) /\ copy' = [copy EXCEPT ![m] = AfterFailure(r)]
    BY <1>3 DEF ReadIll
  <2>2. m \in misread' \/ r = record
    BY <2>1 DEF Read
  <2>3. ~Allowed(record) => ~Allowed(AfterFailure(record))
    BY DEF Allowed, AfterFailure
  <2>4. \A q \in Monitor \ {m} : pc'[q] = pc[q] /\ copy'[q] = copy[q]
            /\ (q \in stale' <=> q \in stale) /\ (q \in misread' <=> q \in misread)
    BY <1>3, <2>1 DEF ReadIll, Read, GoTo, TypeOK
  <2>5. copy'[m] = AfterFailure(r) /\ record' = record
    BY <1>3, <2>1 DEF ReadIll, TypeOK
  <2>6. QED
    BY <2>2, <2>3, <2>4, <2>5 DEF Allowed
<1>4. ASSUME NEW m \in Monitor, Write(m) PROVE FreshKeepsOpen'
  <2>1. pc'[m] = "idle" /\ UNCHANGED <<copy, misread>>
        /\ \A q \in Monitor \ {m} : pc'[q] = pc[q]
    BY <1>4 DEF Write, GoTo, TypeOK
  <2>2. \/ \A q \in Monitor \ {m} : pc[q] = "put" => q \in stale'
        \/ record' = record /\ \A q \in Monitor \ {m} : q \in stale' <=> q \in stale
    BY <1>4 DEF Write, Between
  <2>3. QED
    BY <2>1, <2>2 DEF Allowed
<1>5. ASSUME NEW m \in Monitor, Die(m) PROVE FreshKeepsOpen'
    BY <1>5 DEF Die, GoTo, TypeOK, Allowed
<1>6. ASSUME NEW c \in Cycle, PassGate(c) \/ EndCycle(c) PROVE FreshKeepsOpen'
    BY <1>6 DEF PassGate, EndCycle, Read, Allowed
<1>7. CASE Reset
    BY <1>7 DEF Reset
<1>8. CASE BreakDown \/ UNCHANGED vars
    BY <1>8 DEF BreakDown, vars, Allowed
<1>9. QED
    BY <1>1, <1>2, <1>3, <1>4, <1>5, <1>6, <1>7, <1>8 DEF Next

\* For any number of monitors an open breaker is closed by a monitor only with a
\* copy older than the record, or of a rejected get.
THEOREM OpenIsKept == Spec => OpenUndoneNeedsCause
<1>1. FreshKeepsOpen =>
        [\A m \in Monitor :
            Write(m) /\ ~Allowed(record) /\ Allowed(record')
                => m \in stale \union misread]_vars
    BY DEF FreshKeepsOpen, Write, Allowed
<1>2. QED
    BY <1>1, TypeInit, TypeStep, FreshInit, FreshStep, PTL
       DEF Spec, OpenUndoneNeedsCause

-----------------------------------------------------------------------------
(* The gate. *)

LEMMA ThroughInit == Init => SuspendedCyclesWereThrough
BY DEF Init, SuspendedCyclesWereThrough, Default, Allowed

LEMMA ThroughStep ==
    TypeOK /\ SuspendedCyclesWereThrough /\ [Next]_vars => SuspendedCyclesWereThrough'
<1> SUFFICES ASSUME TypeOK, SuspendedCyclesWereThrough, [Next]_vars
             PROVE  SuspendedCyclesWereThrough'
    OBVIOUS
<1> USE DEF SuspendedCyclesWereThrough
<1>1. ASSUME NEW m \in Monitor, Check(m) \/ Die(m) PROVE SuspendedCyclesWereThrough'
    BY <1>1 DEF Check, Die, Allowed
<1>2. ASSUME NEW m \in Monitor, ReadWell(m) \/ ReadIll(m)
      PROVE SuspendedCyclesWereThrough'
  <2>1. PICK r \in {record, Default} : Read(m, r)
    BY <1>2 DEF ReadWell, ReadIll
  <2>2. \A c \in Cycle : c \in misread => c \in misread'
    BY <2>1, GlobalAssumption DEF Read
  <2>3. UNCHANGED <<record, gate, before>>
    BY <1>2 DEF ReadWell, ReadIll
  <2>4. QED
    BY <2>2, <2>3 DEF Allowed
<1>3. ASSUME NEW m \in Monitor, Write(m) PROVE SuspendedCyclesWereThrough'
  <2>1. UNCHANGED <<gate, misread>>
    BY <1>3 DEF Write
  <2>2. UNCHANGED <<record, before>> \/ (record' = copy[m] /\ Opens(copy[m]))
    BY <1>3 DEF Write
  <2>3. CASE UNCHANGED <<record, before>>
    BY <2>1, <2>3 DEF Allowed
  <2>4. CASE record' = copy[m] /\ Opens(copy[m]) /\ Allowed(record)
    BY <2>1, <2>4 DEF Opens, Allowed
  <2>5. CASE record' = copy[m] /\ Opens(copy[m]) /\ ~Allowed(record)
    BY <2>1, <2>5 DEF Opens, Allowed
  <2>6. QED
    BY <2>2, <2>3, <2>4, <2>5
<1>4. ASSUME NEW c \in Cycle, PassGate(c) PROVE SuspendedCyclesWereThrough'
  <2>1. PICK r \in {record, Default} : Read(c, r) /\ Allowed(r)
    BY <1>4 DEF PassGate
  <2>2. c \in misread' \/ Allowed(record)
    BY <2>1 DEF Read
  <2>3. record' = record
        /\ \A d \in Cycle \ {c} : gate'[d] = gate[d] /\ (d \in before' <=> d \in before)
                                  /\ (d \in misread' <=> d \in misread)
    BY <1>4, <2>1 DEF PassGate, Read, TypeOK
  <2>4. QED
    BY <2>2, <2>3 DEF Allowed
<1>5. ASSUME NEW c \in Cycle, EndCycle(c) PROVE SuspendedCyclesWereThrough'
    BY <1>5 DEF EndCycle, TypeOK, Allowed
<1>6. CASE Reset
    BY <1>6 DEF Reset, Default, Allowed
<1>7. CASE BreakDown \/ UNCHANGED vars
    BY <1>7 DEF BreakDown, vars, Allowed
<1>8. QED
    BY <1>1, <1>2, <1>3, <1>4, <1>5, <1>6, <1>7 DEF Next

\* For any number of cycles one that trades on an open breaker was let through
\* before it opened, or was answered the default.
THEOREM SuspensionHolds == Spec => []SuspendedCyclesWereThrough
BY TypeInit, TypeStep, ThroughInit, ThroughStep, PTL DEF Spec

-----------------------------------------------------------------------------
(* An outage is counted: the part of OutageTrips that needs no fairness. *)

\* A component is down for good, and no good check from before is under way.
Outage ==
    /\ broken
    /\ \A m \in Monitor : pc[m] # "well" /\ (pc[m] = "put" => copy[m].failures # 0)

\* Once no good check from before the outage is under way, none comes any more,
\* and every put that reaches the store counts one failure more, unless it is of
\* a record replaced since or of a rejected get.
OutageCountsUp ==
    [][/\ Outage => Outage'
       /\ \A m \in Monitor :
            Outage /\ Write(m) /\ UNCHANGED mishaps
                => m \in stale \union misread \/ record' = AfterFailure(record)]_vars

\* What a monitor is about to put was made of the record that is still there.
FreshIsOfRecord ==
    \A m \in Monitor :
        pc[m] = "put" /\ m \notin stale \union misread
            => copy[m] \in {AfterFailure(record), AfterSuccess(record)}

LEMMA OfRecordStep == TypeOK /\ FreshIsOfRecord /\ [Next]_vars => FreshIsOfRecord'
<1> SUFFICES ASSUME TypeOK, FreshIsOfRecord, [Next]_vars, NEW m \in Monitor,
                    pc'[m] = "put", m \notin (stale \union misread)'
             PROVE  (copy[m] \in {AfterFailure(record), AfterSuccess(record)})'
    BY DEF FreshIsOfRecord
<1> DEFINE Still == /\ record' = record /\ pc'[m] = pc[m] /\ copy'[m] = copy[m]
                    /\ m \notin stale \union misread
<1>1. CASE Still
    BY <1>1 DEF FreshIsOfRecord, AfterFailure, AfterSuccess
<1>2. ASSUME NEW n \in Monitor, Check(n) \/ Die(n) PROVE Still
    BY <1>2 DEF Check, Die, GoTo, TypeOK
<1>3. ASSUME NEW n \in Monitor, n # m, ReadWell(n) \/ ReadIll(n) PROVE Still
    BY <1>3 DEF ReadWell, ReadIll, Read, GoTo, TypeOK
<1>4. CASE ReadWell(m) \/ ReadIll(m)
  <2>1. PICK r \in {record, Default} :
            /\ Read(m, r)
            /\ \/ ReadIll(m) /\ copy' = [copy EXCEPT ![m] = AfterFailure(r)]
               \/ ReadWell(m) /\ (\/ copy' = [copy EXCEPT ![m] = AfterSuccess(r)]
                                  \/ pc' = [pc EXCEPT ![m] = "idle"])
    BY <1>4 DEF ReadWell, ReadIll, GoTo
  <2>2. r = record /\ record' = record
    BY <1>4, <2>1 DEF Read, ReadWell, ReadIll
  <2>3. copy'[m] \in {AfterFailure(r), AfterSuccess(r)}
    BY <2>1 DEF TypeOK
  <2>4. QED
    BY <2>2, <2>3 DEF AfterFailure, AfterSuccess
<1>5. ASSUME NEW n \in Monitor, Write(n) PROVE Still
  <2>1. n # m /\ UNCHANGED <<copy, misread>> /\ pc'[m] = pc[m]
    BY <1>5 DEF Write, GoTo, TypeOK
  <2>2. m \in Between(n)
    BY <2>1 DEF Between
  <2>3. stale' = stale \ {n} /\ record' = record
    BY <1>5, <2>2 DEF Write
  <2>4. QED
    BY <2>1, <2>3
<1>6. ASSUME NEW c \in Cycle, PassGate(c) \/ EndCycle(c) PROVE Still
    BY <1>6, GlobalAssumption DEF PassGate, EndCycle, Read
<1>7. ASSUME Reset PROVE FALSE
    BY <1>7 DEF Reset
<1>8. ASSUME BreakDown \/ UNCHANGED vars PROVE Still
    BY <1>8 DEF BreakDown, vars
<1>9. QED
    BY <1>1, <1>2, <1>3, <1>4, <1>5, <1>6, <1>7, <1>8 DEF Next

\* A failure counted is not none.
LEMMA FailureCounts ==
    ASSUME NEW r \in Breaker
    PROVE  AfterFailure(r).failures # 0 /\ AfterSuccess(r).failures = 0
BY GlobalAssumption DEF AfterFailure, AfterSuccess, OneMore, Breaker

LEMMA OutageStays == TypeOK /\ Outage /\ [Next]_vars => Outage'
<1> SUFFICES ASSUME TypeOK, Outage, [Next]_vars PROVE Outage'
    OBVIOUS
<1> USE DEF TypeOK, Outage, GoTo
<1>1. ASSUME NEW m \in Monitor, Check(m) \/ Write(m) \/ Die(m) PROVE Outage'
    BY <1>1 DEF Check, Write, Die
<1>2. ASSUME NEW m \in Monitor, ReadWell(m) PROVE FALSE
    BY <1>2 DEF ReadWell
<1>3. ASSUME NEW m \in Monitor, ReadIll(m) PROVE Outage'
  <2>1. PICK r \in {record, Default} : copy' = [copy EXCEPT ![m] = AfterFailure(r)]
    BY <1>3 DEF ReadIll
  <2>2. AfterFailure(r).failures # 0
    BY AnswerType, FailureCounts
  <2>3. copy'[m].failures # 0 /\ \A n \in Monitor \ {m} : copy'[n] = copy[n]
    BY <2>1, <2>2
  <2>4. broken' /\ pc'[m] = "put" /\ \A n \in Monitor \ {m} : pc'[n] = pc[n]
    BY <1>3 DEF ReadIll
  <2>5. QED
    BY <2>3, <2>4
<1>4. ASSUME NEW c \in Cycle, PassGate(c) \/ EndCycle(c) PROVE Outage'
    BY <1>4 DEF PassGate, EndCycle
<1>5. CASE Reset \/ BreakDown \/ UNCHANGED vars
    BY <1>5 DEF Reset, BreakDown, vars
<1>6. QED
    BY <1>1, <1>2, <1>3, <1>4, <1>5 DEF Next

\* For any number of monitors an outage is counted up to the threshold, put by
\* put, and only stale puts, misread records and resets set the count back.
THEOREM OutageIsCounted == Spec => OutageCountsUp
<1>1. Init => FreshIsOfRecord
    BY DEF Init, FreshIsOfRecord
<1>2. ASSUME TypeOK, FreshIsOfRecord, Outage, NEW m \in Monitor, Write(m),
             UNCHANGED mishaps, m \notin stale \union misread
      PROVE  record' = AfterFailure(record)
  <2>1. record' = copy[m] /\ pc[m] = "put"
    BY <1>2 DEF Write, Mishap, TypeOK
  <2>2. copy[m] # AfterSuccess(record)
    BY <1>2, <2>1, FailureCounts DEF Outage, TypeOK
  <2>3. QED
    BY <1>2, <2>1, <2>2 DEF FreshIsOfRecord
<1>3. TypeOK /\ FreshIsOfRecord /\ [Next]_vars =>
        [/\ Outage => Outage'
         /\ \A m \in Monitor :
              Outage /\ Write(m) /\ UNCHANGED mishaps
                  => m \in stale \union misread \/ record' = AfterFailure(record)]_vars
    BY <1>2, OutageStays
<1>4. QED
    BY <1>1, <1>3, TypeInit, TypeStep, OfRecordStep, PTL DEF Spec, OutageCountsUp
=============================================================================
