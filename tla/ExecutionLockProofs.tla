-------------------------- MODULE ExecutionLockProofs --------------------------
(***************************************************************************)
(* What ExecutionLock promises, for every number of scans, every lease     *)
(* and every clock bound.                                                  *)
(*                                                                         *)
(* The theorems hold whatever the store answers, rejects or refuses, and   *)
(* wherever workers die; the history variable misled says which operation  *)
(* of which scan went wrong.  The last section shows that nothing does on  *)
(* a store that reads consistently, rejects nothing and accepts the        *)
(* record's time-to-live (ReliableStore).                                  *)
(***************************************************************************)
EXTENDS ExecutionLock, TLAPS

Committed == {"verify"} \union Executing     \* past the put, not yet done

-----------------------------------------------------------------------------
(* Typing. *)

\* What a get can answer is a record or nothing.
LEMMA AnswersType ==
    ASSUME TypeOK
    PROVE  Answers \subseteq Lock \union {NoLock}
BY DEF TypeOK, Answers, Current

\* The record a put writes is a record.
LEMMA LockOfType ==
    ASSUME TypeOK, NEW s \in Scan
    PROVE  LockOf(s) \in Lock
BY LockAssumption DEF TypeOK, LockOf, Lock

LEMMA TypeInit == Init => TypeOK
<1> SUFFICES ASSUME Init PROVE TypeOK
    OBVIOUS
<1> USE DEF Init
<1>1. now \in Nat /\ kv \in Lock \union {NoLock} /\ lagging \subseteq Lock \union {NoLock}
    OBVIOUS
<1>2. pc \in [Scan -> {"idle"} \union Working \union Ended]
    OBVIOUS
<1>3. t0 \in [Scan -> Nat] /\ ahead \in [Scan -> SUBSET Scan]
    OBVIOUS
<1>4. past \subseteq Scan /\ misled = {} /\ overran \subseteq Scan
    OBVIOUS
<1>5. wiped \in BOOLEAN
    OBVIOUS
<1>6. QED
    BY <1>1, <1>2, <1>3, <1>4, <1>5 DEF TypeOK

LEMMA TypeStep == TypeOK /\ [Next]_vars => TypeOK'
<1> SUFFICES ASSUME TypeOK, [Next]_vars PROVE TypeOK'
    OBVIOUS
<1> USE DEF TypeOK, Working, Executing, Ended, GoTo, Note
<1>1. ASSUME NEW s \in Scan, Start(s) PROVE TypeOK'
    BY <1>1 DEF Start
<1>2. ASSUME NEW s \in Scan, ReadLock(s) PROVE TypeOK'
    BY <1>2 DEF ReadLock
<1>3. ASSUME NEW s \in Scan, WriteLock(s) PROVE TypeOK'
    BY <1>3, LockOfType DEF WriteLock, Overwrite, Current
<1>4. ASSUME NEW s \in Scan, VerifyLock(s) PROVE TypeOK'
    BY <1>4 DEF VerifyLock
<1>5. ASSUME NEW s \in Scan, FinishScan(s) PROVE TypeOK'
    BY <1>5 DEF FinishScan
<1>6. ASSUME NEW s \in Scan, CompareToken(s) PROVE TypeOK'
    BY <1>6 DEF CompareToken
<1>7. ASSUME NEW s \in Scan, DeleteLock(s) PROVE TypeOK'
    BY <1>7 DEF DeleteLock, Overwrite, Current
<1>8. ASSUME NEW s \in Scan, Die(s) PROVE TypeOK'
    BY <1>8 DEF Die
<1>9. CASE Tick
    BY <1>9 DEF Tick
<1>10. CASE Propagate
    BY <1>10 DEF Propagate
<1>11. CASE ResetStore
    BY <1>11 DEF ResetStore, Overwrite, Current
<1>12. CASE UNCHANGED vars
    BY <1>12 DEF vars
<1>13. QED
    BY <1>1, <1>2, <1>3, <1>4, <1>5, <1>6, <1>7, <1>8, <1>9, <1>10, <1>11, <1>12
       DEF Next, Step, Quiescent

\* The lock's state stays well typed, whatever the store and the workers do.
THEOREM TypeCorrect == Spec => []TypeOK
BY TypeInit, TypeStep, PTL DEF Spec

-----------------------------------------------------------------------------
(* The history variables record what their names say. *)

\* past holds exactly the scans that have made their put call; a scan's first
\* get recorded scans that were past then, and its own put came later.
PastOK ==
    /\ \A s \in Scan : pc[s] \in {"idle", "get", "put"} => s \notin past
    /\ \A s \in Scan : pc[s] \in Committed => s \in past
    /\ \A s \in Scan : ahead[s] \subseteq past
    /\ kv # NoLock => kv.token \in past

\* A scan read the clock before now, and is inside its lease unless overran
\* says otherwise.
ClockOK ==
    \A s \in Scan :
        /\ t0[s] <= now
        /\ pc[s] \in Working /\ s \notin overran => now < t0[s] + LeaseTtl

History == PastOK /\ ClockOK

LEMMA HistoryInit == Init => History
BY LockAssumption DEF Init, History, PastOK, ClockOK, Committed, Working, Executing

LEMMA PastStep == TypeOK /\ PastOK /\ [Next]_vars => PastOK'
<1> SUFFICES ASSUME TypeOK, PastOK, [Next]_vars PROVE PastOK'
    OBVIOUS
<1> USE DEF TypeOK, PastOK, Committed, Executing, GoTo
<1>1. ASSUME NEW s \in Scan, Start(s) PROVE PastOK'
    BY <1>1 DEF Start
<1>2. ASSUME NEW s \in Scan, ReadLock(s) PROVE PastOK'
    BY <1>2 DEF ReadLock
<1>3. ASSUME NEW s \in Scan, WriteLock(s) PROVE PastOK'
  <2>1. /\ pc' = [pc EXCEPT ![s] = "verify"] /\ past' = past \union {s}
        /\ ahead' = ahead /\ kv' \in {kv, LockOf(s)}
    BY <1>3 DEF WriteLock, Overwrite
  <2>2. kv' # NoLock => kv'.token \in past'
    BY <2>1 DEF LockOf
  <2>3. QED
    BY <2>1, <2>2
<1>4. ASSUME NEW s \in Scan, VerifyLock(s) PROVE PastOK'
    BY <1>4 DEF VerifyLock
<1>5. ASSUME NEW s \in Scan, FinishScan(s) PROVE PastOK'
    BY <1>5 DEF FinishScan
<1>6. ASSUME NEW s \in Scan, CompareToken(s) PROVE PastOK'
    BY <1>6 DEF CompareToken
<1>7. ASSUME NEW s \in Scan, DeleteLock(s) PROVE PastOK'
    BY <1>7 DEF DeleteLock, Overwrite
<1>8. ASSUME NEW s \in Scan, Die(s) PROVE PastOK'
    BY <1>8 DEF Die
<1>9. CASE Tick
    BY <1>9 DEF Tick
<1>10. CASE Propagate
    BY <1>10 DEF Propagate
<1>11. CASE ResetStore
    BY <1>11 DEF ResetStore, Overwrite
<1>12. CASE UNCHANGED vars
    BY <1>12 DEF vars
<1>13. QED
    BY <1>1, <1>2, <1>3, <1>4, <1>5, <1>6, <1>7, <1>8, <1>9, <1>10, <1>11, <1>12
       DEF Next, Step, Quiescent

LEMMA ClockStep == TypeOK /\ ClockOK /\ [Next]_vars => ClockOK'
<1> SUFFICES ASSUME TypeOK, ClockOK, [Next]_vars PROVE ClockOK'
    OBVIOUS
<1> USE LockAssumption DEF TypeOK, ClockOK, Working, Executing, GoTo
<1>1. ASSUME NEW s \in Scan, Start(s) PROVE ClockOK'
    BY <1>1 DEF Start
<1>2. ASSUME NEW s \in Scan, Step(s) \/ Die(s) PROVE ClockOK'
  <2>1. UNCHANGED <<now, t0, overran>>
    BY <1>2 DEF Step, ReadLock, WriteLock, VerifyLock, FinishScan,
                CompareToken, DeleteLock, Die
  <2>2. \A r \in Scan : pc'[r] \in Working => pc[r] \in Working
    BY <1>2 DEF Step, ReadLock, WriteLock, VerifyLock, FinishScan,
                CompareToken, DeleteLock, Die
  <2>3. QED
    BY <2>1, <2>2
<1>3. CASE Tick
    BY <1>3 DEF Tick
<1>4. CASE Propagate
    BY <1>4 DEF Propagate
<1>5. CASE ResetStore
    BY <1>5 DEF ResetStore
<1>6. CASE UNCHANGED vars
    BY <1>6 DEF vars
<1>7. QED
    BY <1>1, <1>2, <1>3, <1>4, <1>5, <1>6 DEF Next, Quiescent

LEMMA HistoryStep == TypeOK /\ History /\ [Next]_vars => History'
BY PastStep, ClockStep DEF History

-----------------------------------------------------------------------------
(* A lock inside its lease is overwritten only by a scan that did not see it. *)

\* What went wrong stays on record.
LEMMA MisledIsKept ==
    ASSUME [Next]_vars
    PROVE  misled \subseteq misled' /\ \A s, ops : Misled(s, ops) => Misled(s, ops)'
<1>1. misled \subseteq misled'
    BY DEF Next, Step, Start, ReadLock, WriteLock, VerifyLock, FinishScan,
           CompareToken, DeleteLock, Die, ResetStore, Tick, Propagate,
           Quiescent, vars, Note
<1>2. QED
    BY <1>1 DEF Misled

\* A scan about to put that had r's record current when its get was answered
\* truly found it already lapsed.
SeenIsLapsed ==
    \A s, r \in Scan :
        /\ r # s
        /\ pc[s] = "put"
        /\ r \in ahead[s]
        /\ ~Misled(s, {"get"})
        /\ kv # NoLock /\ kv.token = r /\ kv.evictAt > now
        => kv.expiresAt <= t0[s]

LEMMA SeenInit == Init => SeenIsLapsed
BY DEF Init, SeenIsLapsed

LEMMA SeenStep == TypeOK /\ History /\ SeenIsLapsed /\ [Next]_vars => SeenIsLapsed'
<1> SUFFICES ASSUME TypeOK, History, SeenIsLapsed, [Next]_vars PROVE SeenIsLapsed'
    OBVIOUS
<1> USE DEF TypeOK, Lock, SeenIsLapsed, Misled, GoTo
<1>1. ASSUME NEW s \in Scan, Start(s) PROVE SeenIsLapsed'
    BY <1>1 DEF Start
<1>2. ASSUME NEW s \in Scan, ReadLock(s) PROVE SeenIsLapsed'
  <2>1. pc'[s] = "put" /\ ~Misled(s, {"get"})' => ~TakenAt(Current, t0[s])
    BY <1>2 DEF ReadLock, Note, Misled
  <2>2. UNCHANGED <<now, kv, t0>> /\ \A q \in Scan \ {s} :
            /\ pc'[q] = pc[q] /\ ahead'[q] = ahead[q]
            /\ Misled(q, {"get"})' <=> Misled(q, {"get"})
    BY <1>2 DEF ReadLock, Note, Misled
  <2>3. QED
    BY <2>1, <2>2 DEF TakenAt, Current
<1>3. ASSUME NEW s \in Scan, WriteLock(s) PROVE SeenIsLapsed'
  <2>1. s \notin past
    BY <1>3 DEF WriteLock, History, PastOK
  <2>2. \A q \in Scan : s \notin ahead[q]
    BY <2>1 DEF History, PastOK
  <2>3. kv' = kv \/ kv'.token = s
    <3>1. kv' \in {kv, LockOf(s)}
        BY <1>3 DEF WriteLock, Overwrite
    <3>2. QED
        BY <3>1 DEF LockOf
  <2>4. \A q \in Scan : pc'[q] = "put" => pc[q] = "put" /\ q # s
    BY <1>3 DEF WriteLock
  <2>5. UNCHANGED <<now, t0, ahead>> /\ \A q \in Scan : Misled(q, {"get"}) => Misled(q, {"get"})'
    BY <1>3, MisledIsKept DEF WriteLock
  <2>6. QED
    BY <2>2, <2>3, <2>4, <2>5
<1>4. ASSUME NEW s \in Scan, VerifyLock(s) PROVE SeenIsLapsed'
    BY <1>4, MisledIsKept DEF VerifyLock
<1>5. ASSUME NEW s \in Scan, FinishScan(s) PROVE SeenIsLapsed'
    BY <1>5 DEF FinishScan
<1>6. ASSUME NEW s \in Scan, CompareToken(s) PROVE SeenIsLapsed'
    BY <1>6, MisledIsKept DEF CompareToken
<1>7. ASSUME NEW s \in Scan, DeleteLock(s) PROVE SeenIsLapsed'
    BY <1>7, MisledIsKept DEF DeleteLock, Overwrite
<1>8. ASSUME NEW s \in Scan, Die(s) PROVE SeenIsLapsed'
    BY <1>8 DEF Die
<1>9. CASE Tick
    BY <1>9 DEF Tick
<1>10. CASE Propagate
    BY <1>10 DEF Propagate
<1>11. CASE ResetStore
    BY <1>11 DEF ResetStore, Overwrite
<1>12. CASE UNCHANGED vars
    BY <1>12 DEF vars
<1>13. QED
    BY <1>1, <1>2, <1>3, <1>4, <1>5, <1>6, <1>7, <1>8, <1>9, <1>10, <1>11, <1>12
       DEF Next, Step, Quiescent

\* On any store, stale and failing ones included, a scan that replaces a record
\* inside its lease had read before that record was put, or had been answered
\* wrongly.
THEOREM OverwriteOnlyUnseen == Spec => LiveLockOverwrittenOnlyUnseen
<1>1. TypeOK /\ History /\ SeenIsLapsed /\ [Next]_vars =>
        [\A s, r \in Scan :
            /\ r # s
            /\ WriteLock(s)
            /\ kv' # kv
            /\ LockReportedActive
            /\ kv.token = r
            => r \notin ahead[s] \/ Misled(s, {"get"})]_vars
  <2> SUFFICES ASSUME TypeOK, History, SeenIsLapsed,
                      NEW s \in Scan, NEW r \in Scan, r # s, WriteLock(s),
                      LockReportedActive, kv.token = r, r \in ahead[s], ~Misled(s, {"get"})
               PROVE  FALSE
    OBVIOUS
  <2>1. kv # NoLock /\ kv.evictAt > now /\ kv.expiresAt > now
    BY DEF LockReportedActive, TakenAt, Current
  <2>2. kv.expiresAt <= t0[s]
    BY <2>1 DEF SeenIsLapsed, WriteLock
  <2>3. QED
    BY <2>1, <2>2 DEF History, ClockOK, TypeOK, Lock
<1>2. QED
    BY <1>1, TypeInit, TypeStep, HistoryInit, HistoryStep, SeenInit, SeenStep, PTL
       DEF Spec, LiveLockOverwrittenOnlyUnseen

-----------------------------------------------------------------------------
(* Exclusion. *)

\* A race, an overrun or a reset, once it happened, stays on record.
LEMMA CauseIsKept == TypeOK /\ History /\ [Next]_vars /\ KnownCause => KnownCause'
<1> SUFFICES ASSUME TypeOK, History, [Next]_vars, KnownCause PROVE KnownCause'
    OBVIOUS
<1>1. overran \subseteq overran' /\ past \subseteq past' /\ (wiped => wiped')
  <2>1. ASSUME NEW s \in Scan, Start(s) \/ Step(s) \/ Die(s)
        PROVE  /\ UNCHANGED <<overran, wiped>>
               /\ past \subseteq past'
    BY <2>1 DEF Step, Start, ReadLock, WriteLock, VerifyLock, FinishScan,
           CompareToken, DeleteLock, Die
  <2>2. QED
    BY <2>1 DEF Next, ResetStore, Tick, Propagate, Quiescent, vars
<1>2. \A s \in past : ahead'[s] = ahead[s]
    BY DEF Next, Step, Start, ReadLock, WriteLock, VerifyLock, FinishScan,
           CompareToken, DeleteLock, Die, ResetStore, Tick, Propagate,
           Quiescent, vars,
           History, PastOK, TypeOK
<1>3. CASE overran # {}
    BY <1>1, <1>3 DEF KnownCause
<1>4. CASE \E r, s \in Scan : Raced(r, s)
    BY <1>1, <1>2, <1>4 DEF KnownCause, Raced
<1>5. CASE wiped
    BY <1>1, <1>5 DEF KnownCause
<1>6. QED
    BY <1>3, <1>4, <1>5 DEF KnownCause

LEMMA ExcuseIsKept == TypeOK /\ History /\ [Next]_vars /\ Excused => Excused'
BY CauseIsKept, MisledIsKept DEF Excused

\* The record of a scan that is past its put and has not released is the one
\* in the store, and no scan about to put arrived after it did.
Owns(s) ==
    /\ kv # NoLock
    /\ kv.token = s
    /\ kv.expiresAt = t0[s] + LeaseTtl
    /\ kv.evictAt >= t0[s] + LeaseTtl

CommittedOwns == \A s \in Scan : pc[s] \in Committed => Owns(s)

NoLateWriter ==
    \A s, r \in Scan : r # s /\ pc[s] \in Committed /\ pc[r] = "put" => s \notin ahead[r]

Exclusive == Excused \/ (CommittedOwns /\ NoLateWriter)

LEMMA ExclusiveInit == Init => Exclusive
BY DEF Init, Exclusive, CommittedOwns, NoLateWriter, Committed, Executing

\* The record of a committed scan inside its lease is the store's answer, and
\* it turns a reader away.
LEMMA OwnerTurnsAway ==
    ASSUME TypeOK, History, CommittedOwns, ~KnownCause,
           NEW s \in Scan, NEW r \in Scan, pc[s] \in Committed
    PROVE  Current = kv /\ TakenAt(Current, t0[r])
<1>1. now < t0[s] + LeaseTtl
    BY DEF History, ClockOK, Committed, Working, KnownCause
<1>2. kv # NoLock /\ kv.expiresAt > now /\ kv.evictAt > now
    BY <1>1, LockAssumption DEF CommittedOwns, Owns, TypeOK, Lock
<1>3. QED
    BY <1>2 DEF Current, TakenAt, History, ClockOK, TypeOK, Lock

LEMMA ExclusiveStep ==
    ASSUME TypeOK, History, Exclusive, [Next]_vars
    PROVE  Exclusive'
<1> SUFFICES ASSUME ~Excused, ~Excused', CommittedOwns, NoLateWriter
             PROVE  CommittedOwns' /\ NoLateWriter'
    BY ExcuseIsKept DEF Exclusive
<1>0. ~KnownCause /\ ~KnownCause'
      /\ \A s \in Scan : ~Misled(s, {"get", "put", "release"})'
    BY DEF Excused
<1> USE DEF TypeOK, CommittedOwns, NoLateWriter, Owns, Committed, Executing, GoTo
<1>1. ASSUME NEW s \in Scan, Start(s) PROVE CommittedOwns' /\ NoLateWriter'
    BY <1>1 DEF Start
<1>2. ASSUME NEW s \in Scan, ReadLock(s) PROVE CommittedOwns' /\ NoLateWriter'
  <2>1. (\E r \in Scan : pc[r] \in Committed) => pc'[s] = "denied"
    <3>1. \/ pc'[s] = "denied"
          \/ pc'[s] = "put" /\ ~TakenAt(Current, t0[s])
        BY <1>0, <1>2 DEF ReadLock, Note, Misled
    <3>2. QED
        BY <1>0, <3>1, OwnerTurnsAway
  <2>2. pc'[s] \in {"put", "denied"} /\ UNCHANGED <<kv, t0>>
        /\ \A q \in Scan \ {s} : pc'[q] = pc[q] /\ ahead'[q] = ahead[q]
    BY <1>2 DEF ReadLock
  <2>3. QED
    BY <2>1, <2>2
<1>3. ASSUME NEW s \in Scan, WriteLock(s) PROVE CommittedOwns' /\ NoLateWriter'
  <2>1. s \notin past /\ \A r \in Scan : s \notin ahead[r]
    BY <1>3 DEF WriteLock, History, PastOK
  <2>2. \A r \in Scan \ {s} : pc[r] \notin Committed
    <3> SUFFICES ASSUME NEW r \in Scan, r # s, pc[r] \in Committed PROVE FALSE
        OBVIOUS
    <3>1. r \notin ahead[s]
        BY <1>3 DEF WriteLock
    <3>2. Raced(r, s)'
        BY <1>3, <2>1, <3>1 DEF WriteLock, Raced, History, PastOK
    <3>3. QED
        BY <1>0, <3>2 DEF KnownCause
  <2>3. kv' = LockOf(s)
    BY <1>0, <1>3 DEF WriteLock, Overwrite, Note, Misled
  <2>4. t0[s] + LeaseTtl <= now + StoreTtl
    BY LockAssumption DEF History, ClockOK
  <2>5. Owns(s)'
    BY <1>3, <2>3, <2>4, LockOfType, LockAssumption DEF WriteLock, LockOf
  <2>6. QED
    BY <1>3, <2>1, <2>2, <2>5 DEF WriteLock
<1>4. ASSUME NEW s \in Scan, VerifyLock(s) PROVE CommittedOwns' /\ NoLateWriter'
    BY <1>4 DEF VerifyLock
<1>5. ASSUME NEW s \in Scan, FinishScan(s) PROVE CommittedOwns' /\ NoLateWriter'
    BY <1>5 DEF FinishScan
<1>6. ASSUME NEW s \in Scan, CompareToken(s) PROVE CommittedOwns' /\ NoLateWriter'
    BY <1>6 DEF CompareToken
<1>7. ASSUME NEW s \in Scan, DeleteLock(s) PROVE CommittedOwns' /\ NoLateWriter'
    BY <1>7 DEF DeleteLock
<1>8. ASSUME NEW s \in Scan, Die(s) PROVE CommittedOwns' /\ NoLateWriter'
    BY <1>8 DEF Die
<1>9. CASE Tick
    BY <1>9 DEF Tick
<1>10. CASE Propagate
    BY <1>10 DEF Propagate
<1>11. CASE ResetStore
    BY <1>0, <1>11 DEF ResetStore, KnownCause
<1>12. CASE UNCHANGED vars
    BY <1>12 DEF vars
<1>13. QED
    BY <1>1, <1>2, <1>3, <1>4, <1>5, <1>6, <1>7, <1>8, <1>9, <1>10, <1>11, <1>12
       DEF Next, Step, Quiescent

\* Two scans execute at once only after a race of reads and puts, an overrun
\* lease, a reset, or an operation of the store that went wrong where it matters.
THEOREM DoubleExecutionIsExcused == Spec => []DoubleExecutionNeedsExcuse
<1>1. TypeOK /\ History /\ Exclusive /\ [Next]_vars => Exclusive'
    BY ExclusiveStep
<1>2. Exclusive => DoubleExecutionNeedsExcuse
    BY DEF Exclusive, CommittedOwns, Owns, Committed, DoubleExecutionNeedsExcuse
<1>3. QED
    BY <1>1, <1>2, TypeInit, TypeStep, HistoryInit, HistoryStep, ExclusiveInit, PTL
       DEF Spec

\* The release takes another scan's record away only with such an excuse.
THEOREM ForeignDeleteIsCaused == Spec => ForeignDeleteNeedsCause
<1>1. TypeOK /\ History /\ Exclusive /\ [Next]_vars => Exclusive'
    BY ExclusiveStep
<1>2. Exclusive =>
        [\A s \in Scan :
            DeleteLock(s) /\ Current # NoLock /\ kv.token # s => Excused]_vars
    BY DEF Exclusive, CommittedOwns, Owns, Committed, Executing, DeleteLock
<1>3. QED
    BY <1>1, <1>2, TypeInit, TypeStep, HistoryInit, HistoryStep, ExclusiveInit, PTL
       DEF Spec, ForeignDeleteNeedsCause

-----------------------------------------------------------------------------
(* No lock is left behind. *)

\* The scan named by an unexpired key is at work, died, or was misled itself.
OwnerAtWork ==
    kv # NoLock /\ kv.evictAt > now =>
        \/ pc[kv.token] \in Committed \union {"dead"}
        \/ Misled(kv.token, {"verify", "release", "delete"})

LEMMA OwnerStep ==
    ASSUME TypeOK, History, OwnerAtWork, [Next]_vars
    PROVE  OwnerAtWork'
<1> USE MisledIsKept DEF TypeOK, Lock, OwnerAtWork, Committed, Executing, GoTo
<1>1. ASSUME NEW s \in Scan, Start(s) PROVE OwnerAtWork'
    BY <1>1 DEF Start
<1>2. ASSUME NEW s \in Scan, ReadLock(s) PROVE OwnerAtWork'
    BY <1>2 DEF ReadLock
<1>3. ASSUME NEW s \in Scan, WriteLock(s) PROVE OwnerAtWork'
    BY <1>3 DEF WriteLock, Overwrite, LockOf, Note, Misled
<1>4. ASSUME NEW s \in Scan, VerifyLock(s) PROVE OwnerAtWork'
    BY <1>4 DEF VerifyLock, OwnerIn, Current, Note, Misled
<1>5. ASSUME NEW s \in Scan, FinishScan(s) PROVE OwnerAtWork'
    BY <1>5 DEF FinishScan
<1>6. ASSUME NEW s \in Scan, CompareToken(s) PROVE OwnerAtWork'
    BY <1>6 DEF CompareToken, OwnerIn, Current, Note, Misled
<1>7. ASSUME NEW s \in Scan, DeleteLock(s) PROVE OwnerAtWork'
    BY <1>7 DEF DeleteLock, Overwrite, Note, Misled
<1>8. ASSUME NEW s \in Scan, Die(s) PROVE OwnerAtWork'
    BY <1>8 DEF Die
<1>9. CASE Tick
    BY <1>9 DEF Tick
<1>10. CASE Propagate
    BY <1>10 DEF Propagate
<1>11. CASE ResetStore
    BY <1>11 DEF ResetStore, Overwrite
<1>12. CASE UNCHANGED vars
    BY <1>12 DEF vars
<1>13. QED
    BY <1>1, <1>2, <1>3, <1>4, <1>5, <1>6, <1>7, <1>8, <1>9, <1>10, <1>11, <1>12
       DEF Next, Step, Quiescent

\* A scan that was turned away or has released leaves no record of its own
\* behind unless the store misled it.
THEOREM LockIsCleanedUp == Spec => []NoLockLeftBehind
<1>1. Init => OwnerAtWork
    BY DEF Init, OwnerAtWork
<1>2. TypeOK /\ History /\ OwnerAtWork /\ [Next]_vars => OwnerAtWork'
    BY OwnerStep
<1>3. OwnerAtWork => NoLockLeftBehind
    BY DEF OwnerAtWork, NoLockLeftBehind, Current, Committed, Executing
<1>4. QED
    BY <1>1, <1>2, <1>3, TypeInit, TypeStep, HistoryInit, HistoryStep, PTL DEF Spec

-----------------------------------------------------------------------------
(* The lock implements SingleScan. *)

\* A step that leaves the other scans' awaits and puts alone moves one stage.
LEMMA OneMoves ==
    ASSUME NEW s \in Scan,
           \A r \in Scan \ {s} : pc'[r] = pc[r] /\ (r \in past' <=> r \in past)
    PROVE  StageOf' = [StageOf EXCEPT ![s] = Stage(s)']
<1>1. \A r \in Scan \ {s} : Stage(r)' = Stage(r)
    BY DEF Stage
<1>2. QED
    BY <1>1 DEF StageOf

\* Until there is a cause, each step of a scan is a move SingleScan allows.
LEMMA ScanMoves ==
    ASSUME TypeOK, History, Exclusive, OwnerAtWork, ~Astray, ~Astray', [Next]_vars,
           NEW s \in Scan, Start(s) \/ Step(s) \/ Die(s)
    PROVE  Promise!Next \/ StageOf' = StageOf
<1>same. UNCHANGED Astray
    BY DEF Astray, KnownCause
<1>calm. ~KnownCause /\ ~KnownCause' /\ misled' = {}
      /\ CommittedOwns /\ NoLateWriter /\ StageOf[s] = Stage(s)
    BY DEF Astray, Exclusive, Excused, Misled, StageOf
<1> USE DEF TypeOK, Working, Executing, Committed
<1>1. pc' = [pc EXCEPT ![s] = pc'[s]] /\ \A r \in Scan \ {s} : r \in past' <=> r \in past
    BY DEF Start, Step, ReadLock, WriteLock, VerifyLock, FinishScan, CompareToken,
           DeleteLock, Die, GoTo
<1>2. StageOf' = [StageOf EXCEPT ![s] = Stage(s)']
    BY <1>1, OneMoves
<1>3. Stage(s)' = Stage(s) => StageOf' = StageOf
    BY <1>same, <1>2 DEF StageOf
<1>4. CASE Start(s)
    BY <1>3, <1>4 DEF Start, GoTo, Stage
<1>5. CASE ReadLock(s)
  <2>1. CASE pc'[s] = "put"
    BY <1>3, <1>5, <2>1 DEF ReadLock, Stage
  <2>2. CASE pc'[s] # "put"
    <3>1. TakenAt(Current, t0[s]) /\ pc'[s] = "denied"
        BY <1>calm, <1>5, <2>2 DEF ReadLock, GoTo, Note
    <3>2. kv # NoLock /\ kv.evictAt > now
        BY <3>1 DEF TakenAt, Current
    <3>3. kv.token \in past /\ pc[kv.token] \in Committed \union {"dead"}
        BY <1>calm, <3>2, MisledIsKept DEF OwnerAtWork, History, PastOK, Misled
    <3>4. Stage(kv.token) \in {"inside", "stranded"} /\ kv.token \in Scan
        BY <3>3 DEF Stage
    <3>5. Stage(s) = "outside" /\ Stage(s)' = "refused"
        BY <1>5, <3>1 DEF ReadLock, Stage
    <3>6. Promise!Refuse(s)
        BY <1>same, <1>calm, <1>2, <3>4, <3>5 DEF Promise!Refuse, Promise!Move, StageOf
    <3>7. QED
        BY <3>6 DEF Promise!Next
  <2>3. QED
    BY <2>1, <2>2
<1>6. CASE WriteLock(s)
  <2>1. s \notin past /\ \A r \in Scan : s \notin ahead[r]
    BY <1>6 DEF WriteLock, History, PastOK
  <2>2. \A r \in Scan \ {s} : pc[r] \notin Committed
    <3> SUFFICES ASSUME NEW r \in Scan, r # s, pc[r] \in Committed PROVE FALSE
        OBVIOUS
    <3>1. r \notin ahead[s]
        BY <1>calm, <1>6 DEF NoLateWriter, WriteLock
    <3>2. Raced(r, s)'
        BY <1>6, <2>1, <3>1 DEF WriteLock, Raced, History, PastOK
    <3>3. QED
        BY <1>calm, <3>2 DEF KnownCause
  <2>3. Stage(s) = "outside" /\ Stage(s)' = "inside"
    BY <1>6 DEF WriteLock, GoTo, Stage
  <2>4. \A r \in Scan : StageOf[r] # "inside"
    BY <2>2, <2>3 DEF StageOf, Stage
  <2>5. Promise!Enter(s)
    BY <1>same, <1>calm, <1>2, <2>3, <2>4 DEF Promise!Enter, Promise!Move
  <2>6. QED
    BY <2>5 DEF Promise!Next
<1>7. CASE VerifyLock(s)
  <2>1. OwnerIn(Current) \in {NoLock, s}
    BY <1>calm, <1>7 DEF CommittedOwns, Owns, VerifyLock, OwnerIn, Current
  <2>2. pc[s] = "verify" /\ pc'[s] = "hold"
    BY <1>calm, <1>7, <2>1 DEF VerifyLock, GoTo, Note
  <2>3. QED
    BY <1>3, <2>2 DEF Stage
<1>8. CASE FinishScan(s)
    BY <1>3, <1>8 DEF FinishScan, GoTo, Stage
<1>9. CASE CompareToken(s) \/ DeleteLock(s)
  <2>1. CASE pc'[s] = "delete"
    BY <1>3, <1>9, <2>1 DEF CompareToken, DeleteLock, Stage
  <2>2. CASE pc'[s] # "delete"
    <3>1. Stage(s) = "inside" /\ Stage(s)' = "left"
        BY <1>9, <2>2 DEF CompareToken, DeleteLock, GoTo, Stage
    <3>2. Promise!Leave(s)
        BY <1>same, <1>calm, <1>2, <3>1 DEF Promise!Leave, Promise!Move
    <3>3. QED
        BY <3>2 DEF Promise!Next
  <2>3. QED
    BY <2>1, <2>2
<1>10. CASE Die(s)
  <2>1. \/ Stage(s) = "outside" /\ Stage(s)' = "dead"
        \/ Stage(s) = "inside" /\ Stage(s)' = "stranded"
    BY <1>10 DEF Die, GoTo, Stage, History, PastOK
  <2>2. Promise!Die(s)
    BY <1>same, <1>calm, <1>2, <2>1 DEF Promise!Die, Promise!Move
  <2>3. QED
    BY <2>2 DEF Promise!Next
<1>11. QED
    BY <1>4, <1>5, <1>6, <1>7, <1>8, <1>9, <1>10 DEF Step

\* Each scan is at one of the stages after a step.
LEMMA StageNext == StageOf' \in [Scan -> Promise!Stages]
BY DEF StageOf, Stage, Promise!Stages

LEMMA LockStepRefines ==
    ASSUME TypeOK, History, Exclusive, OwnerAtWork, [Next]_vars
    PROVE  [Promise!Next]_(Promise!vars)
<1>1. CASE Astray'
  <2>1. Astray' = TRUE /\ StageOf' \in [Scan -> Promise!Stages]
    BY <1>1, StageNext DEF Astray, KnownCause
  <2>2. QED
    BY <2>1 DEF Promise!Next, Promise!Excuse
<1>2. CASE ~Astray'
  <2>1. ~Astray
    BY <1>2, CauseIsKept, MisledIsKept DEF Astray
  <2>0. UNCHANGED Astray
    BY <1>2, <2>1 DEF Astray, KnownCause
  <2>2. ASSUME NEW s \in Scan, Start(s) \/ Step(s) \/ Die(s)
        PROVE  Promise!Next \/ StageOf' = StageOf
    BY <1>2, <2>1, <2>2, ScanMoves
  <2>3. ASSUME ResetStore \/ Tick \/ Propagate \/ Quiescent \/ UNCHANGED vars
        PROVE  StageOf' = StageOf
    BY <2>3 DEF ResetStore, Tick, Propagate, Quiescent, vars, StageOf, Stage
  <2>4. QED
    BY <2>0, <2>2, <2>3 DEF Next, Promise!vars
<1>3. QED
    BY <1>1, <1>2

\* Until a race, an overrun, a reset or an operation gone wrong, the scans go
\* their ways as SingleScan promises: one inside at a time, and nobody turned
\* away unless another is inside or died there.
THEOREM LockImplementsSingleScan == Spec => LockKeepsPromise
<1>1. Init => Promise!Init /\ OwnerAtWork
  <2>1. ASSUME Init PROVE StageOf = [s \in Scan |-> "outside"] /\ Astray = FALSE
    <3>1. StageOf = [s \in Scan |-> "outside"]
      <4>1. ASSUME NEW s \in Scan PROVE Stage(s) = "outside"
        <5>1. pc[s] = "idle"
            BY <2>1 DEF Init
        <5>2. QED
            BY <5>1 DEF Stage, Executing
      <4>2. QED
        BY <4>1 DEF StageOf
    <3>2. ~Astray
        BY <2>1 DEF Init, Astray, KnownCause, Raced
    <3>3. Astray = FALSE
        BY <3>2 DEF Astray, KnownCause
    <3>4. QED
        BY <3>1, <3>3
  <2>2. QED
    BY <2>1 DEF Promise!Init, Init, OwnerAtWork
<1>2. TypeOK /\ History /\ Exclusive /\ OwnerAtWork /\ [Next]_vars
        => (Exclusive /\ OwnerAtWork)'
    BY ExclusiveStep, OwnerStep
<1>3. TypeOK /\ History /\ Exclusive /\ OwnerAtWork /\ [Next]_vars
        => [Promise!Next]_(Promise!vars)
    BY LockStepRefines
<1>4. QED
    BY <1>1, <1>2, <1>3, TypeInit, TypeStep, HistoryInit, HistoryStep,
       ExclusiveInit, PTL DEF Spec, LockKeepsPromise, Promise!Spec

-----------------------------------------------------------------------------
(* A lapsed lock turns nobody away, on any store. *)

\* Every record in the store or in flight is that of a put, and carries the
\* lease its scan drew when it started.
LeaseOf(lock) ==
    lock # NoLock => /\ lock.token \in past
                     /\ lock.expiresAt = t0[lock.token] + LeaseTtl

LeasesHold == \A lock \in {kv} \union lagging : LeaseOf(lock)

LEMMA LeasesInit == Init => LeasesHold
BY DEF Init, LeasesHold, LeaseOf

\* A scan's start time is settled before its put.
LEMMA PutKeepsLease ==
    ASSUME TypeOK, History, [Next]_vars
    PROVE  past \subseteq past' /\ \A r \in past : t0'[r] = t0[r]
BY DEF TypeOK, History, PastOK, Next, Step, Start, ReadLock, WriteLock, VerifyLock,
       FinishScan, CompareToken, DeleteLock, Die, ResetStore, Tick, Propagate,
       Quiescent, vars

LEMMA LeasesStep == TypeOK /\ History /\ LeasesHold /\ [Next]_vars => LeasesHold'
<1> SUFFICES ASSUME TypeOK, History, LeasesHold, [Next]_vars,
                    NEW lock \in ({kv} \union lagging)'
             PROVE  LeaseOf(lock)'
    BY DEF LeasesHold
<1>1. CASE lock \in {kv} \union lagging \union {NoLock}
    BY <1>1, PutKeepsLease DEF LeasesHold, LeaseOf
<1>2. CASE lock \notin {kv} \union lagging \union {NoLock}
  <2>1. PICK s \in Scan : WriteLock(s) /\ lock = LockOf(s)
    BY <1>2 DEF Next, Step, Start, ReadLock, WriteLock, VerifyLock, FinishScan,
           CompareToken, DeleteLock, Die, ResetStore, Tick, Propagate,
           Quiescent, vars, Overwrite, Current
  <2>2. QED
    BY <2>1 DEF WriteLock, LockOf, LeaseOf, TypeOK
<1>3. QED
    BY <1>1, <1>2

\* Whatever the store answers, the first get turns a scan away only for another
\* that started less than a lease before it.
THEOREM LeaseBoundsRefusal == Spec => LapsedLockTurnsNobodyAway
<1>1. TypeOK /\ History /\ LeasesHold /\ [Next]_vars =>
        [\A s \in Scan :
            ReadLock(s) /\ pc'[s] = "denied"
              => \E r \in past \ {s} : t0[s] < t0[r] + LeaseTtl]_vars
  <2> SUFFICES ASSUME TypeOK, History, LeasesHold, NEW s \in Scan, ReadLock(s),
                      pc'[s] = "denied"
               PROVE  \E r \in past \ {s} : t0[s] < t0[r] + LeaseTtl
    OBVIOUS
  <2>1. PICK answer \in Answers : TakenAt(answer, t0[s])
    BY DEF ReadLock, GoTo, TypeOK
  <2>2. answer \in {kv} \union lagging /\ answer # NoLock
    BY <2>1 DEF Answers, Current, TakenAt
  <2>3. answer.token \in past /\ t0[s] < t0[answer.token] + LeaseTtl
    BY <2>1, <2>2, LockAssumption DEF LeasesHold, LeaseOf, TakenAt, TypeOK, Lock
  <2>4. s \notin past
    BY DEF ReadLock, History, PastOK
  <2>5. QED
    BY <2>3, <2>4
<1>2. QED
    BY <1>1, TypeInit, TypeStep, HistoryInit, HistoryStep, LeasesInit, LeasesStep, PTL
       DEF Spec, LapsedLockTurnsNobodyAway

-----------------------------------------------------------------------------
(* A store that answers consistently and accepts every write. *)

ReliableStore == ~StaleReads /\ ~Faults /\ MinStoreTtl <= StoreTtl

\* No stale value is in flight and nothing went wrong.
NothingWrong == lagging = {} /\ misled = {}

LEMMA NothingGoesWrong == ReliableStore /\ NothingWrong /\ [Next]_vars => NothingWrong'
<1> SUFFICES ASSUME ReliableStore, NothingWrong, [Next]_vars PROVE NothingWrong'
    OBVIOUS
<1>1. Answers = {Current} /\ ~MayReject
    BY LockAssumption DEF ReliableStore, NothingWrong, Answers, MayReject
<1>2. QED
    BY <1>1 DEF ReliableStore, NothingWrong, Next, Step, Start, ReadLock, WriteLock,
           VerifyLock, FinishScan, CompareToken, DeleteLock, Die, ResetStore, Tick,
           Propagate, Quiescent, Overwrite, vars, Note

\* A reliable store misleads nobody, so on it the causes of KnownCause are the
\* only ones: two scans execute at once only after a race of reads and puts, an
\* overrun lease or a reset.
THEOREM DoubleExecutionIsCaused ==
    ASSUME ReliableStore
    PROVE  Spec => [](misled = {} /\ DoubleExecutionNeedsCause)
<1>1. Init => NothingWrong
    BY DEF Init, NothingWrong
<1>2. NothingWrong /\ [Next]_vars => NothingWrong'
    BY ReliableStore, NothingGoesWrong
<1>3. NothingWrong /\ DoubleExecutionNeedsExcuse
        => misled = {} /\ DoubleExecutionNeedsCause
    BY DEF NothingWrong, DoubleExecutionNeedsExcuse, DoubleExecutionNeedsCause,
           Excused, Misled
<1>4. QED
    BY <1>1, <1>2, <1>3, DoubleExecutionIsExcused, PTL DEF Spec
=============================================================================
