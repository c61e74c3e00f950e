---------------------------- MODULE ExecutionLock ----------------------------
(***************************************************************************)
(* The execution lock of the worker bot (worker-bot/src/orchestrator.js).  *)
(* Every runScan first tries to take one lease kept under one key of a     *)
(* Workers KV namespace; the cron, the telegram commands, the HTTP         *)
(* endpoints and the n8n webhook all start scans, each in a worker         *)
(* invocation of its own.  A scan draws a fresh token, so a scan and its   *)
(* token are the same thing here, and a scan runs once.                    *)
(*                                                                         *)
(* Every await of the code is a point where other scans run: the get, the  *)
(* put, the verifying get, the comparing get of the release and the delete *)
(* are actions of their own.  KV is the environment: an operation may      *)
(* reject (Faults), a read may return what was there before a recent write *)
(* (StaleReads), a put whose time-to-live is below the store's minimum is  *)
(* refused (MinStoreTtl), and a key disappears after its time-to-live.     *)
(* The worker itself may die at any await (Crashes).                       *)
(***************************************************************************)
EXTENDS Naturals

CONSTANTS
    Scan,          \* the runScan invocations, each with its own token
    NoLock,        \* what a get answers for a key that is not there
    LeaseTtl,      \* EXECUTION_LOCK_TTL_MS, in ticks
    StoreTtl,      \* expirationTtl of the put, in ticks
    MinStoreTtl,   \* the smallest expirationTtl the store accepts
    MaxTime,       \* bound: the clock stops here
    LastStart,     \* bound: no scan starts after this time
    StaleReads,    \* may a get return a value that was overwritten?
    Faults,        \* may a KV operation reject?
    Crashes,       \* may a worker die between two awaits?
    Resets         \* may the operator call /api/reset?

Lock == [token : Scan, expiresAt : Nat, evictAt : Nat]

ASSUME LockAssumption ==
    /\ NoLock \notin Lock \union Scan
    /\ LeaseTtl \in Nat \ {0}
    /\ StoreTtl \in Nat
    /\ StoreTtl >= LeaseTtl
    /\ MinStoreTtl \in Nat
    /\ MaxTime \in Nat
    /\ LastStart \in Nat
    /\ {StaleReads, Faults, Crashes, Resets} \subseteq BOOLEAN

VARIABLES
    now,      \* the clock all workers read
    kv,       \* the record under EXECUTION_LOCK_KEY, or NoLock
    lagging,  \* overwritten values some location may still answer with
    pc,       \* the await each scan is at
    t0,       \* Date.now() captured at the start of tryAcquireExecutionLock
    \* history, read by no action's guard:
    past,     \* scans that have made their put call
    ahead,    \* ahead[s]: the scans in past when s made its first get
    misled,   \* <<s, op>>: at this await the store led the scan astray
    overran,  \* scans still at work when their lease lapsed
    wiped     \* was the store emptied by /api/reset?

vars == <<now, kv, lagging, pc, t0, past, ahead, misled, overran, wiped>>

Executing == {"hold", "release", "delete"}     \* told acquired, not yet done
Working   == {"get", "put", "verify"} \union Executing
Ended     == {"denied", "over", "dead"}

TypeOK ==
    /\ now \in Nat
    /\ kv \in Lock \union {NoLock}
    /\ lagging \subseteq Lock \union {NoLock}
    /\ pc \in [Scan -> {"idle"} \union Working \union Ended]
    /\ t0 \in [Scan -> Nat]
    /\ past \subseteq Scan
    /\ ahead \in [Scan -> SUBSET Scan]
    /\ misled \subseteq Scan \X {"get", "put", "verify", "release", "delete"}
    /\ overran \subseteq Scan
    /\ wiped \in BOOLEAN

-----------------------------------------------------------------------------
(* The KV namespace. *)

\* What a consistent read answers now: a key past its time-to-live is gone.
Current == IF kv # NoLock /\ kv.evictAt > now THEN kv ELSE NoLock

\* What a get may answer; get(...).catch(() => null) turns a rejection into null.
Answers == {Current} \union lagging \union (IF Faults THEN {NoLock} ELSE {})

MayReject == Faults \/ StoreTtl < MinStoreTtl

Overwrite(value) ==
    /\ kv' = value
    /\ lagging' = IF StaleReads THEN lagging \union {Current} ELSE lagging

\* Mutated forms of LockOf: the token left out; both lifetimes in the wrong unit.
LockOfNobody(s) == [token |-> NoLock, expiresAt |-> t0[s] + LeaseTtl,
                    evictAt |-> now + StoreTtl]
LockOfAges(s) == [token |-> s, expiresAt |-> t0[s] + 1000 * LeaseTtl,
                  evictAt |-> now + 1000 * StoreTtl]

LockOf(s) == [token     |-> s,
              expiresAt |-> t0[s] + LeaseTtl,
              evictAt   |-> now + StoreTtl]

\* Mutated form of TakenAt: the comparison turned round.
TakenAtExpired(answer, time) == answer # NoLock /\ answer.expiresAt < time

\* existing?.token && expiresAt > now, with now the scan's own start time.
TakenAt(answer, time) == answer # NoLock /\ answer.expiresAt > time

\* answer?.token
OwnerIn(answer) == IF answer = NoLock THEN NoLock ELSE answer.token

\* getExecutionLockState(env).active, what the diagnostics endpoint reports.
LockReportedActive == TakenAt(Current, now)

GoTo(s, label) == pc' = [pc EXCEPT ![s] = label]

\* The store led the scan where a consistent answer, or an accepted write, would
\* not have.
Note(s, right) == misled' = IF right THEN misled ELSE misled \union {<<s, pc[s]>>}

-----------------------------------------------------------------------------
Init ==
    /\ now = 0
    /\ kv = NoLock
    /\ lagging = {}
    /\ pc = [s \in Scan |-> "idle"]
    /\ t0 = [s \in Scan |-> 0]
    /\ past = {}
    /\ ahead = [s \in Scan |-> {}]
    /\ misled = {}
    /\ overran = {}
    /\ wiped = FALSE

\* runScan is entered: the clock is read and the token drawn before the get.
Start(s) ==
    /\ pc[s] = "idle"
    /\ now <= LastStart
    /\ t0' = [t0 EXCEPT ![s] = now]
    /\ GoTo(s, "get")
    /\ UNCHANGED <<now, kv, lagging, past, ahead, misled, overran, wiped>>

\* The first get; a live foreign token turns the scan away.
ReadLock(s) ==
    /\ pc[s] = "get"
    /\ \E answer \in Answers :
         /\ \/ TakenAt(answer, t0[s])  /\ GoTo(s, "denied")
            \/ ~TakenAt(answer, t0[s]) /\ GoTo(s, "put")
         /\ Note(s, TakenAt(answer, t0[s]) <=> TakenAt(Current, t0[s]))
    /\ ahead' = [ahead EXCEPT ![s] = past]
    /\ UNCHANGED <<now, kv, lagging, t0, past, overran, wiped>>

\* The put; a rejection is swallowed and the scan goes on to verify.
WriteLock(s) ==
    /\ pc[s] = "put"
    /\ \/ /\ StoreTtl >= MinStoreTtl
          /\ Overwrite(LockOf(s))
          /\ UNCHANGED misled
       \/ /\ MayReject
          /\ UNCHANGED <<kv, lagging>>
          /\ Note(s, FALSE)
    /\ past' = past \union {s}
    /\ GoTo(s, "verify")
    /\ UNCHANGED <<now, t0, ahead, overran, wiped>>

\* The verifying get: nothing there counts as acquired, and the expiry of a
\* foreign token is not looked at.
VerifyLock(s) ==
    /\ pc[s] = "verify"
    /\ \E answer \in Answers :
         /\ \/ OwnerIn(answer) \in {NoLock, s}    /\ GoTo(s, "hold")
            \/ OwnerIn(answer) \notin {NoLock, s} /\ GoTo(s, "denied")
         /\ Note(s, OwnerIn(answer) \in {NoLock, s} <=> OwnerIn(Current) \in {NoLock, s})
    /\ UNCHANGED <<now, kv, lagging, t0, past, ahead, overran, wiped>>

\* The scan body returns or throws: finally { releaseExecutionLock }.
FinishScan(s) ==
    /\ pc[s] = "hold"
    /\ GoTo(s, "release")
    /\ UNCHANGED <<now, kv, lagging, t0, past, ahead, misled, overran, wiped>>

\* Mutated form of CompareToken: the release keeps its own record.
CompareTokenKeeps(s) ==
    /\ pc[s] = "release"
    /\ GoTo(s, "over")
    /\ UNCHANGED <<now, kv, lagging, t0, past, ahead, misled, overran, wiped>>

\* The comparing get of the release.
CompareToken(s) ==
    /\ pc[s] = "release"
    /\ \E answer \in Answers :
         /\ \/ OwnerIn(answer) = s /\ GoTo(s, "delete")
            \/ OwnerIn(answer) # s /\ GoTo(s, "over")
         /\ Note(s, OwnerIn(answer) = s <=> OwnerIn(Current) = s)
    /\ UNCHANGED <<now, kv, lagging, t0, past, ahead, overran, wiped>>

\* The delete removes whatever record is there by now.
DeleteLock(s) ==
    /\ pc[s] = "delete"
    /\ \/ Overwrite(NoLock) /\ UNCHANGED misled
       \/ Faults /\ UNCHANGED <<kv, lagging>> /\ Note(s, FALSE)
    /\ GoTo(s, "over")
    /\ UNCHANGED <<now, t0, past, ahead, overran, wiped>>

\* The platform kills the invocation; nothing after the await runs.
Die(s) ==
    /\ Crashes
    /\ pc[s] \in Working
    /\ GoTo(s, "dead")
    /\ UNCHANGED <<now, kv, lagging, t0, past, ahead, misled, overran, wiped>>

\* /api/reset lists the keys and deletes every one, the lock's among them, at
\* whatever time the delete arrives.  Bound: one reset.
ResetStore ==
    /\ Resets /\ ~wiped
    /\ Overwrite(NoLock)
    /\ wiped' = TRUE
    /\ UNCHANGED <<now, pc, t0, past, ahead, misled, overran>>

Tick ==
    /\ now < MaxTime
    /\ now' = now + 1
    /\ overran' = overran \union
         {s \in Scan : pc[s] \in Working /\ t0[s] + LeaseTtl <= now + 1}
    /\ UNCHANGED <<kv, lagging, pc, t0, past, ahead, misled, wiped>>

\* Every location has caught up with the last write.
Propagate ==
    /\ lagging # {}
    /\ lagging' = {}
    /\ UNCHANGED <<now, kv, pc, t0, past, ahead, misled, overran, wiped>>

\* The bounded clock has stopped and no scan is left to run.
Quiescent ==
    /\ now = MaxTime
    /\ \A s \in Scan : pc[s] \in Ended \union {"idle"}
    /\ UNCHANGED vars

Step(s) ==
    \/ ReadLock(s)
    \/ WriteLock(s)
    \/ VerifyLock(s)
    \/ FinishScan(s)
    \/ CompareToken(s)
    \/ DeleteLock(s)

Next ==
    \/ \E s \in Scan : Start(s) \/ Step(s) \/ Die(s)
    \/ ResetStore
    \/ Tick
    \/ Propagate
    \/ Quiescent

Spec == Init /\ [][Next]_vars

\* An await of the code always settles, and time passes; nobody is obliged to
\* start a scan, to die, or to make a location catch up.
FairSpec == Spec /\ WF_vars(Tick) /\ \A s \in Scan : WF_vars(Step(s))

-----------------------------------------------------------------------------
(* What the lock promises. *)

\* Two scans raced when each read the key before the other's put.
Raced(r, s) == r # s /\ {r, s} \subseteq past
                 /\ r \notin ahead[s] /\ s \notin ahead[r]

KnownCause == wiped \/ overran # {} \/ \E r, s \in Scan : Raced(r, s)

Misled(s, ops) == \E op \in ops : <<s, op>> \in misled

\* A cause, or a store that misled a scan where that can break the exclusion: in
\* its first get, its put or the comparing get of its release.
Excused == KnownCause \/ \E s \in Scan : Misled(s, {"get", "put", "release"})

\* Two scans are between acquiring and releasing at once only if some pair of
\* scans read the key before each other's put, or some scan outlived its
\* 30-second lease, or the operator emptied the store: a scan that arrives later,
\* inside the lease, is turned away ("returns null immediately when lock is
\* active").
DoubleExecutionNeedsCause ==
    (\E r, s \in Scan : r # s /\ {pc[r], pc[s]} \subseteq Executing)
        => KnownCause

\* The same whatever the store does: without a cause, two scans execute at once
\* only if a first get, a put or the comparing get of a release went wrong; the
\* verifying get and the delete cannot break the exclusion.
DoubleExecutionNeedsExcuse ==
    (\E r, s \in Scan : r # s /\ {pc[r], pc[s]} \subseteq Executing)
        => Excused

\* A scan that was turned away or has released leaves its own record behind only
\* if the store misled that very scan, so on a consistent store only a scan at
\* work, or one that died, keeps later scans out.
NoLockLeftBehind ==
    Current # NoLock =>
        \/ pc[kv.token] \notin {"idle", "get", "put", "denied", "over"}
        \/ Misled(kv.token, {"verify", "release", "delete"})

\* The release compares and deletes in two steps; it takes another scan's
\* record away only after a race, an overrun or a reset, or when misled.
ForeignDeleteNeedsCause ==
    [][\A s \in Scan :
         DeleteLock(s) /\ Current # NoLock /\ kv.token # s => Excused]_vars

\* Whatever the store does, a scan replaces a record inside its lease only if
\* its first get came before that record's put, or was answered wrongly
\* (a rejection read as null, or a stale value).
LiveLockOverwrittenOnlyUnseen ==
    [][\A s, r \in Scan :
         /\ r # s
         /\ WriteLock(s)
         /\ kv' # kv
         /\ LockReportedActive
         /\ kv.token = r
         => r \notin ahead[s] \/ Misled(s, {"get"})]_vars

\* Where SingleScan sees a scan: it is inside from its put on.
Stage(s) == CASE pc[s] \in {"idle", "get", "put"}         -> "outside"
              [] pc[s] \in {"verify"} \union Executing    -> "inside"
              [] pc[s] = "over"                           -> "left"
              [] pc[s] = "denied"                         -> "refused"
              [] OTHER -> IF s \in past THEN "stranded" ELSE "dead"

StageOf == [s \in Scan |-> Stage(s)]

Astray == KnownCause \/ misled # {}

Promise == INSTANCE SingleScan WITH stage <- StageOf, excused <- Astray

\* Each scan goes its way as SingleScan promises, until there was a cause for the
\* lock to fail or the store misled a scan: nobody enters beside another, and
\* nobody is turned away unless another is past its put or died there ("returns
\* null immediately when lock is active").
LockKeepsPromise == Promise!Spec

\* The lease of a scan, dead or alive, keeps out whoever starts inside it and
\* nobody later, whatever the store answers: the first get turns a scan away
\* only for another that started less than a lease before it.
LapsedLockTurnsNobodyAway ==
    [][\A s \in Scan :
         ReadLock(s) /\ pc'[s] = "denied"
           => \E r \in past \ {s} : t0[s] < t0[r] + LeaseTtl]_vars

\* The lock of a scan that died does not keep scans out for ever: it stops being
\* reported active, with no release and whatever the store does.
StrandedLockLapses ==
    \A s \in Scan :
        pc[s] = "dead" ~> ~(LockReportedActive /\ kv.token = s)
=============================================================================
