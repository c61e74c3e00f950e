------------------------------ MODULE ScanBody ------------------------------
(***************************************************************************)
(* What runScan does between taking the execution lock and releasing it    *)
(* that outlives the scan: it loads the venue breakers, asks the venue for *)
(* every symbol a cache does not have, puts the breakers back, settles the *)
(* open paper positions at the prices it got and opens new ones.  The lock *)
(* is ExecutionLock, with its races, overruns and deaths; the breaker      *)
(* record is VenueBreaker.                                                 *)
(*                                                                         *)
(* One venue is followed, 'mexc', whose price settles positions.  Its      *)
(* record is loaded once into the scan's own copy, and the put that ends   *)
(* it is not awaited: it lands whenever it lands, after the release of the *)
(* lock too, or is dropped with the invocation.  Operators' commands read, *)
(* change and put the same object.  The record is read consistently here;  *)
(* ExecutionLock looks at a store that is not.  It expires two hours after *)
(* its put, when every window of it has passed: no different from a record *)
(* that is still there, and left out.                                      *)
(*                                                                         *)
(* A paper position is a row of D1.  The UPDATE that closes one does not   *)
(* ask whether it is open, and its failure is swallowed.                   *)
(***************************************************************************)
EXTENDS ExecutionLock, VenueBreaker, FiniteSets

CONSTANTS
    Symbol,          \* the symbols a scan prices
    BatchSize,       \* maxConcurrency of scanSymbolsConcurrently
    Position,        \* ids of the table paper_positions
    SymbolOf,        \* the symbol of each position
    NoPut,           \* no put of the breakers is under way
    StoredRecords,   \* bound: what earlier scans may have left in the store
    MaxUpsets,       \* bound: operations rejected and operators' commands
    PerpsOff,        \* may a scan find a perps record with perps switched off?
    CachedPrices     \* may a symbol's prices come from the KV caches, unasked?

ASSUME BodyAssumption ==
    /\ BatchSize \in Nat \ {0}
    /\ SymbolOf \in [Position -> Symbol]
    /\ StoredRecords \subseteq Venue
    /\ NoPut \notin Venue
    /\ MaxUpsets \in Nat
    /\ {PerpsOff, CachedPrices} \subseteq BOOLEAN

VARIABLES
    cb,       \* the venue's record under CB_KEY
    outbox,   \* the put of the record each scan has made and not awaited
    edit,     \* the record an operator's command is about to put
    rows,     \* the table paper_positions
    trades,   \* the table trades: which scan logged which position
    at,       \* the part of the body each scan is in
    copy,     \* the scan's own record of the venue
    skip,     \* is the venue in the scan's openCircuits?
    asked,    \* symbols of the batch the venue has been asked for
    todo,     \* symbols of later batches
    flight,   \* symbols of the batch under way
    priced,   \* keys of midPrices
    found,    \* open positions read and not yet gone through
    closing,  \* the position whose UPDATE has answered and is not yet booked
    booked,   \* positions whose result the scan added to its state
    upsets,   \* how many operations were rejected and commands given
    \* history, read by no action's guard:
    recorded, \* failures recorded, up to MaxFailures
    streak,   \* failures recorded since a price last was, up to MaxFailures
    latest,   \* the record held by the last scan that had finished asking
    mishaps,  \* what else may have separated cb and latest
    served,   \* scans that took a cached price of a venue they were skipping
    unclosed  \* positions whose UPDATE was rejected

breakerVars == <<cb, outbox, copy, skip, recorded, streak, latest, mishaps,
                 served, edit>>
fetchVars   == <<asked, todo, flight, priced>>
ledgerVars  == <<rows, trades, found, closing, booked, unclosed>>
bodyVars    == <<breakerVars, fetchVars, ledgerVars, at, upsets>>
allVars     == <<vars, bodyVars>>

Mishap == {"late", "misread", "dropped", "edited"}

BodyTypeOK ==
    /\ TypeOK
    /\ cb \in Venue
    /\ outbox \in [Scan -> Venue \union {NoPut}]
    /\ edit \in Venue \union {NoPut}
    /\ rows \in [Position -> {"none", "open", "closed"}]
    /\ trades \subseteq Scan \X Position
    /\ at \in [Scan -> {"load", "trim", "fetch", "read", "settle", "trade"}]
    /\ copy \in [Scan -> Venue]
    /\ skip \in [Scan -> BOOLEAN]
    /\ {asked, todo, flight, priced} \subseteq [Scan -> SUBSET Symbol]
    /\ {found, closing, booked} \subseteq [Scan -> SUBSET Position]
    /\ upsets \in 0..MaxUpsets
    /\ {recorded, streak} \subseteq 0..MaxFailures
    /\ latest \in Venue
    /\ mishaps \subseteq Mishap
    /\ served \subseteq Scan
    /\ unclosed \subseteq Position

\* The failures in a row a stored record bears witness to.
FailuresBehind(v) ==
    IF v.open \/ v.cooldownUntil > 0 \/ v.failures > MaxFailures
    THEN MaxFailures ELSE v.failures

-----------------------------------------------------------------------------
BodyInit ==
    /\ Init
    /\ cb \in StoredRecords
    /\ outbox = [s \in Scan |-> NoPut]
    /\ edit = NoPut
    /\ rows \in [Position -> {"none", "open"}]
    /\ trades = {}
    /\ at = [s \in Scan |-> "load"]
    /\ copy = [s \in Scan |-> NoRecord]
    /\ skip = [s \in Scan |-> FALSE]
    /\ asked = [s \in Scan |-> {}]
    /\ todo = [s \in Scan |-> {}]
    /\ flight = [s \in Scan |-> {}]
    /\ priced = [s \in Scan |-> {}]
    /\ found = [s \in Scan |-> {}]
    /\ closing = [s \in Scan |-> {}]
    /\ booked = [s \in Scan |-> {}]
    /\ upsets = 0
    /\ recorded = FailuresBehind(cb)
    /\ streak = recorded
    /\ latest = cb
    /\ mishaps = {}
    /\ served = {}
    /\ unclosed = {}

\* The scan holds the lock, or believes so, and its body is at this part.
In(s, part) == pc[s] = "hold" /\ at[s] = part

\* A rejection or a command, within the bound.
Upset == upsets < MaxUpsets /\ upsets' = upsets + 1

\* The statement or operation at hand is answered, or it is not.
Rejected == Upset
Accepted == UNCHANGED upsets

MoveTo(s, part) == at' = [at EXCEPT ![s] = part]

Occurred(mishap, really) ==
    mishaps' = IF really THEN mishaps \union {mishap} ELSE mishaps

\* The scan's copy of the breaker is not looked at again.
Forget(s) ==
    /\ copy' = [copy EXCEPT ![s] = NoRecord]
    /\ skip' = [skip EXCEPT ![s] = FALSE]

-----------------------------------------------------------------------------
(* The breaker and the prices. *)

\* Mutated form of LoadBreaker: the record is read but nothing is skipped.
LoadBreakerBlind(s) ==
    /\ In(s, "load")
    /\ copy' = [copy EXCEPT ![s] = cb]
    /\ Occurred("late", \E r \in Scan : outbox[r] # NoPut)
    /\ todo' = [todo EXCEPT ![s] = Symbol]
    /\ MoveTo(s, "fetch")
    /\ UNCHANGED <<vars, upsets, cb, outbox, skip, recorded, streak, latest,
                   served, edit, asked, flight, priced, ledgerVars>>

\* getCircuitBreaker, once per scan; a rejection is read as no record at all.
\* With perps switched off their record, if there is one, has to go first.
LoadBreaker(s) ==
    /\ In(s, "load")
    /\ \/ /\ copy' = [copy EXCEPT ![s] = cb]
          /\ Accepted
          /\ skip' = [skip EXCEPT ![s] = IsOpen(cb, now)]
          /\ Occurred("late", \E r \in Scan : outbox[r] # NoPut)
          /\ MoveTo(s, "fetch") \/ (PerpsOff /\ MoveTo(s, "trim"))
       \/ /\ Rejected
          /\ copy' = [copy EXCEPT ![s] = NoRecord]
          /\ skip' = [skip EXCEPT ![s] = FALSE]
          /\ Occurred("misread", TRUE)
          /\ MoveTo(s, "fetch")
    /\ todo' = [todo EXCEPT ![s] = Symbol]
    /\ UNCHANGED <<vars, cb, outbox, recorded, streak, latest, served, edit,
                   asked, flight, priced, ledgerVars>>

\* The whole object goes back without mexc_perp, this put awaited; a rejection
\* is swallowed.
TrimRecord(s) ==
    /\ In(s, "trim")
    /\ \/ Accepted /\ cb' = copy[s]
       \/ Rejected /\ UNCHANGED cb
    /\ MoveTo(s, "fetch")
    /\ UNCHANGED <<vars, outbox, copy, skip, recorded, streak, latest, mishaps,
                   served, edit, fetchVars, ledgerVars>>

\* The handlers of a batch start together.
StartBatch(s) ==
    /\ In(s, "fetch") /\ flight[s] = {}
    /\ \E batch \in SUBSET todo[s] :
         /\ Cardinality(batch) = IF Cardinality(todo[s]) < BatchSize
                                 THEN Cardinality(todo[s]) ELSE BatchSize
         /\ batch # {}
         /\ flight' = [flight EXCEPT ![s] = batch]
         /\ todo' = [todo EXCEPT ![s] = @ \ batch]
    /\ UNCHANGED <<vars, upsets, breakerVars, asked, priced, ledgerVars, at>>

\* Neither cache has the symbol, the public sources have answered, and the venue
\* is not in openCircuits by now.
Ask(s, symbol) ==
    /\ In(s, "fetch") /\ symbol \in flight[s] \ asked[s]
    /\ ~skip[s]
    /\ asked' = [asked EXCEPT ![s] = @ \union {symbol}]
    /\ UNCHANGED <<vars, upsets, breakerVars, todo, flight, priced, ledgerVars,
                   at>>

\* The handler of a symbol of the batch is done with its prices.
Handled(s, symbol) ==
    /\ In(s, "fetch") /\ symbol \in flight[s]
    /\ flight' = [flight EXCEPT ![s] = @ \ {symbol}]
    /\ asked' = [asked EXCEPT ![s] = @ \ {symbol}]

\* One failure more in a count of them.
OneMore(count) == IF count < MaxFailures THEN count + 1 ELSE count

\* A price of the venue, asked for or, skipped or not, from a cache.
Answer(s, symbol) ==
    /\ symbol \in asked[s] \/ CachedPrices
    /\ Handled(s, symbol)
    /\ priced' = [priced EXCEPT ![s] = @ \union {symbol}]
    /\ copy' = [copy EXCEPT ![s] = AfterSuccess(@)]
    /\ streak' = 0
    /\ served' = IF skip[s] /\ symbol \notin asked[s] THEN served \union {s} ELSE served
    /\ UNCHANGED <<vars, upsets, cb, outbox, skip, recorded, latest, mishaps,
                   edit, todo, ledgerVars, at>>

\* Prices, if any, but none of the venue: it failed the request, it was skipped,
\* or a cache had a map without it.  A failure is recorded unless the venue is in
\* openCircuits by now, though nobody may have asked it; the failure that opens
\* the circuit puts it there at once.
Miss(s, symbol) ==
    /\ symbol \in asked[s] \/ skip[s] \/ CachedPrices
    /\ Handled(s, symbol)
    /\ \/ /\ skip[s]
          /\ UNCHANGED <<copy, skip, recorded, streak>>
       \/ /\ ~skip[s]
          /\ copy' = [copy EXCEPT ![s] = AfterFailure(@, now)]
          /\ skip' = [skip EXCEPT ![s] = IsOpen(copy'[s], now)]
          /\ recorded' = OneMore(recorded)
          /\ streak' = OneMore(streak)
    /\ UNCHANGED <<vars, upsets, cb, outbox, latest, mishaps, served, edit,
                   todo, priced, ledgerVars, at>>

\* Another request of the handler throws, as getMEXCPerpPrice does on a 5xx: what
\* this venue answered is neither counted nor kept.
HandlerThrows(s, symbol) ==
    /\ Handled(s, symbol)
    /\ UNCHANGED <<vars, upsets, breakerVars, todo, priced, ledgerVars, at>>

\* Mutated form of SaveBreaker: what the scan learnt is not put.
SaveBreakerNot(s) ==
    /\ In(s, "fetch") /\ todo[s] = {} /\ flight[s] = {}
    /\ latest' = copy[s]
    /\ Forget(s)
    /\ MoveTo(s, "read")
    /\ UNCHANGED <<vars, cb, outbox, recorded, streak, mishaps, served, edit,
                   fetchVars, ledgerVars, upsets>>

\* saveCircuitBreaker without an await: the put is on its way.
SaveBreaker(s) ==
    /\ In(s, "fetch") /\ todo[s] = {} /\ flight[s] = {}
    /\ outbox' = [outbox EXCEPT ![s] = copy[s]]
    /\ latest' = copy[s]
    /\ Forget(s)
    /\ MoveTo(s, "read")
    /\ UNCHANGED <<vars, upsets, cb, recorded, streak, mishaps, served, edit,
                   fetchVars, ledgerVars>>

PutLands(s) ==
    /\ outbox[s] # NoPut
    /\ cb' = outbox[s]
    /\ outbox' = [outbox EXCEPT ![s] = NoPut]
    /\ UNCHANGED <<vars, upsets, copy, skip, recorded, streak, latest, mishaps,
                   served, edit, fetchVars, ledgerVars, at>>

\* The store rejects the put, or the runtime drops it with the invocation.
PutIsLost(s) ==
    /\ outbox[s] # NoPut
    /\ Rejected \/ (pc[s] \in Ended /\ Accepted)
    /\ outbox' = [outbox EXCEPT ![s] = NoPut]
    /\ Occurred("dropped", TRUE)
    /\ UNCHANGED <<vars, cb, copy, skip, recorded, streak, latest, served, edit,
                   fetchVars, ledgerVars, at>>

\* /api/cb/reset and /strategy/spot-lock/enable read the object to put it back
\* without some other venue or, /api/cb/reset, without this one.
ReadToEdit ==
    /\ edit = NoPut
    /\ Upset
    /\ edit' \in {cb, NoRecord}
    /\ UNCHANGED <<vars, cb, outbox, copy, skip, recorded, streak, latest,
                   mishaps, served, fetchVars, ledgerVars, at>>

\* And put it, over what was put in between.
PutEdited ==
    /\ edit # NoPut
    /\ \/ /\ Accepted
          /\ cb' = edit
          /\ Occurred("edited", cb # edit)
       \/ Rejected /\ UNCHANGED <<cb, mishaps>>
    /\ edit' = NoPut
    /\ UNCHANGED <<vars, outbox, copy, skip, recorded, streak, latest, served,
                   fetchVars, ledgerVars, at>>

-----------------------------------------------------------------------------
(* The paper ledger. *)

\* Mutated form of ReadPositions: WHERE closed_at IS NULL is left out.
ReadPositionsAll(s) ==
    /\ In(s, "read")
    /\ Accepted
    /\ found' = [found EXCEPT ![s] = {p \in Position : rows[p] # "none"}]
    /\ MoveTo(s, "settle")
    /\ UNCHANGED <<vars, breakerVars, fetchVars, rows, trades, closing, booked,
                   unclosed>>

\* getOpenPaperPositions; a rejection is read as no positions.
ReadPositions(s) ==
    /\ In(s, "read")
    /\ \/ /\ Accepted
          /\ found' = [found EXCEPT ![s] = {p \in Position : rows[p] = "open"}]
       \/ Rejected /\ found' = [found EXCEPT ![s] = {}]
    /\ MoveTo(s, "settle")
    /\ UNCHANGED <<vars, breakerVars, fetchVars, rows, trades, closing, booked,
                   unclosed>>

\* Mutated form of ClosePosition: the result is booked and no row updated.
ClosePositionUnwritten(s, p) ==
    /\ In(s, "settle") /\ closing[s] = {}
    /\ p \in found[s] /\ SymbolOf[p] \in priced[s]
    /\ found' = [found EXCEPT ![s] = @ \ {p}]
    /\ closing' = [closing EXCEPT ![s] = {p}]
    /\ UNCHANGED <<vars, breakerVars, fetchVars, rows, trades, booked, at,
                   unclosed, upsets>>

\* closePaperPosition: the UPDATE names the row by its id and nothing else.
ClosePosition(s, p) ==
    /\ In(s, "settle") /\ closing[s] = {}
    /\ p \in found[s] /\ SymbolOf[p] \in priced[s]
    /\ \/ Accepted /\ rows' = [rows EXCEPT ![p] = "closed"] /\ UNCHANGED unclosed
       \/ /\ Rejected
          /\ unclosed' = unclosed \union {p}
          /\ UNCHANGED rows
    /\ found' = [found EXCEPT ![s] = @ \ {p}]
    /\ closing' = [closing EXCEPT ![s] = {p}]
    /\ UNCHANGED <<vars, breakerVars, fetchVars, trades, booked, at>>

\* The result goes into the scan's state and, unless rejected, into trades.
BookResult(s) ==
    /\ In(s, "settle") /\ closing[s] # {}
    /\ booked' = [booked EXCEPT ![s] = @ \union closing[s]]
    /\ \/ Accepted /\ trades' = trades \union ({s} \X closing[s])
       \/ Rejected /\ UNCHANGED trades
    /\ closing' = [closing EXCEPT ![s] = {}]
    /\ UNCHANGED <<vars, breakerVars, fetchVars, rows, found, at, unclosed>>

\* Positions left over have no price in this scan.
EndSettlement(s) ==
    /\ In(s, "settle") /\ closing[s] = {}
    /\ \A p \in found[s] : SymbolOf[p] \notin priced[s]
    /\ found' = [found EXCEPT ![s] = {}]
    /\ priced' = [priced EXCEPT ![s] = {}]
    /\ MoveTo(s, "trade")
    /\ UNCHANGED <<vars, upsets, breakerVars, asked, todo, flight, rows,
                   trades, closing, booked, unclosed>>

\* Mutated form of OpenPosition: INSERT OR REPLACE.
OpenPositionReplaces(s, p) ==
    /\ In(s, "trade")
    /\ rows' = [rows EXCEPT ![p] = "open"]
    /\ UNCHANGED <<vars, upsets, breakerVars, fetchVars, trades, found,
                   closing, booked, at, unclosed>>

\* openPaperPosition inserts a row; rejected, it leaves nothing behind.
OpenPosition(s, p) ==
    /\ In(s, "trade")
    /\ rows[p] = "none"
    /\ rows' = [rows EXCEPT ![p] = "open"]
    /\ UNCHANGED <<vars, upsets, breakerVars, fetchVars, trades, found,
                   closing, booked, at, unclosed>>

-----------------------------------------------------------------------------
\* The body throws before it has loaded anything, or it is done.
FinishBody(s) ==
    /\ at[s] \in {"load", "trade"}
    /\ FinishScan(s)
    /\ MoveTo(s, "load")
    /\ UNCHANGED <<breakerVars, fetchVars, ledgerVars, upsets>>

LockStep(s) ==
    /\ \/ Start(s) \/ ReadLock(s) \/ WriteLock(s) \/ VerifyLock(s)
       \/ CompareToken(s) \/ DeleteLock(s)
    /\ UNCHANGED bodyVars

\* The worker's memory is gone; what it had sent may still arrive.
DieInBody(s) ==
    /\ Die(s)
    /\ Forget(s)
    /\ asked' = [asked EXCEPT ![s] = {}]
    /\ todo' = [todo EXCEPT ![s] = {}]
    /\ flight' = [flight EXCEPT ![s] = {}]
    /\ priced' = [priced EXCEPT ![s] = {}]
    /\ found' = [found EXCEPT ![s] = {}]
    /\ MoveTo(s, "load")
    /\ UNCHANGED <<cb, outbox, recorded, streak, latest, mishaps, served, edit,
                   rows, trades, closing, booked, unclosed, upsets>>

\* The clock and the store go on; /api/reset deletes the breaker's key with all
\* others.
Surroundings ==
    /\ Tick \/ Propagate \/ Quiescent \/ ResetStore
    /\ cb' = IF wiped' = wiped THEN cb ELSE NoRecord
    /\ UNCHANGED <<outbox, copy, skip, recorded, streak, latest, mishaps,
                   served, edit, fetchVars, ledgerVars, at, upsets>>

BodyStep(s) ==
    \/ LoadBreaker(s)
    \/ TrimRecord(s)
    \/ StartBatch(s)
    \/ \E symbol \in Symbol :
         \/ Ask(s, symbol) \/ Answer(s, symbol) \/ Miss(s, symbol)
         \/ HandlerThrows(s, symbol)
    \/ SaveBreaker(s)
    \/ PutLands(s)
    \/ PutIsLost(s)
    \/ ReadPositions(s)
    \/ \E p \in Position : ClosePosition(s, p) \/ OpenPosition(s, p)
    \/ BookResult(s)
    \/ EndSettlement(s)
    \/ FinishBody(s)

BodyNext ==
    \/ \E s \in Scan : LockStep(s) \/ DieInBody(s) \/ BodyStep(s)
    \/ ReadToEdit
    \/ PutEdited
    \/ Surroundings

BodySpec == BodyInit /\ [][BodyNext]_allVars

-----------------------------------------------------------------------------
(* What a scan promises to the ones after it. *)

\* A closed row's result is in some scan's books, or on its way there, or was
\* lost with the scan that closed it ("Settle open paper positions"); and a
\* booked position is closed unless its UPDATE was rejected.
RowsAndBooksAgree ==
    \A p \in Position :
        /\ rows[p] = "closed" =>
             \E s \in Scan : \/ p \in booked[s]
                             \/ p \in closing[s] /\ pc[s] \in {"hold", "dead"}
        /\ (\E s \in Scan : p \in booked[s]) => rows[p] = "closed" \/ p \in unclosed

\* Nothing in the UPDATE keeps two scans from settling one position: only the
\* lock does, and it fails for the excuses ExecutionLock names.  Otherwise a
\* position is booked twice only after its first UPDATE was rejected.
SettledTwiceNeedsCause ==
    (\E p \in Position \ unclosed : \E r, s \in Scan :
        r # s /\ p \in booked[r] /\ p \in booked[s]) => Excused

\* A result in hand goes with its scan; what is in doubt is never certain again.
InHand  == [s \in Scan |-> IF pc[s] = "dead" THEN {} ELSE closing[s]]
InDoubt == IF Excused THEN Position ELSE unclosed

Ledger == INSTANCE PaperLedger WITH
    hands <- InHand, results <- booked, doubtful <- InDoubt

\* Every position lives as PaperLedger promises, from its INSERT to the books of
\* the one scan that closed it, unless its UPDATE was rejected or the lock failed
\* for one of its excuses; and no row is opened again and no result withdrawn,
\* whatever fails.
LedgerKeepsPromise == Ledger!Spec

\* "After MAX_CB_FAILURES consecutive failures ... the exchange is skipped": a
\* scan takes the venue into its openCircuits only after that many recorded
\* failures, each a request that brought no price or a cached map without the
\* venue, whatever copies of the record were overwritten.  They were in a row,
\* with no price recorded among them, unless a price was forgotten: its put was
\* late or lost, a command or a rejected get came between, the scan that had it
\* died, or the lock has an excuse.
SkippingNeedsFailures ==
    [][\A s \in Scan : skip'[s] /\ ~skip[s] =>
         /\ recorded' >= MaxFailures
         /\ \/ streak' >= MaxFailures
            \/ mishaps' # {} \/ Excused' \/ \E r \in Scan : pc[r] = "dead"]_allVars

\* A scan starts from what the last scan learnt about the venue, unless that
\* put was still on its way ("late") or lost, the record was misread or
\* changed by an operator's command, or the lock has an excuse.
FailureForgottenNeedsCause ==
    [][\A s \in Scan :
         LoadBreaker(s) => copy'[s] = latest \/ mishaps' # {} \/ Excused]_allVars

\* "5 min skip when open": a write ends a cooldown early only if it is stale,
\* because puts or scans overlapped, a get was rejected or an operator's command
\* came between, or comes from a scan that took a cached price for an answer
\* of the skipped venue.
CooldownCutShortNeedsCause ==
    [][IsOpen(cb, now') /\ ~IsOpen(cb', now')
         => \/ Excused'
            \/ mishaps' \intersect {"late", "misread", "edited"} # {}
            \/ \E s \in served : PutLands(s)]_allVars
=============================================================================
