----------------------------- MODULE PaperLedger -----------------------------
(***************************************************************************)
(* What the paper ledger promises to whoever reads its books: a position   *)
(* is opened, closed by one scan and booked by that scan, each once, and a *)
(* result is lost only with the scan that had it in hand.                  *)
(*                                                                         *)
(* A position becomes doubtful when its UPDATE was not carried out, or     *)
(* when scans were not kept apart; then it may be settled again.  Its row  *)
(* is not opened again all the same, and no result leaves the books.       *)
(***************************************************************************)
CONSTANTS Scan, Position

VARIABLES
    rows,     \* the table paper_positions
    hands,    \* the positions each scan has closed and not booked yet
    results,  \* the positions each scan has booked
    doubtful  \* positions of which nothing more is promised

vars == <<rows, hands, results, doubtful>>

TypeOK ==
    /\ rows \in [Position -> {"none", "open", "closed"}]
    /\ {hands, results} \subseteq [Scan -> SUBSET Position]
    /\ doubtful \subseteq Position

Init ==
    /\ rows \in [Position -> {"none", "open"}]
    /\ hands = [s \in Scan |-> {}]
    /\ results = [s \in Scan |-> {}]
    /\ doubtful = {}

\* A scan dies with what it has in hand.
Lose(s) ==
    /\ hands' = [hands EXCEPT ![s] = {}]
    /\ UNCHANGED <<rows, results, doubtful>>

Open(p) ==
    /\ rows[p] = "none"
    /\ rows' = [rows EXCEPT ![p] = "open"]
    /\ UNCHANGED <<hands, results, doubtful>>

Close(s, p) ==
    /\ rows[p] = "open"
    /\ rows' = [rows EXCEPT ![p] = "closed"]
    /\ hands' = [hands EXCEPT ![s] = @ \union {p}]
    /\ UNCHANGED <<results, doubtful>>

Book(s, p) ==
    /\ p \in hands[s]
    /\ hands' = [hands EXCEPT ![s] = @ \ {p}]
    /\ results' = [results EXCEPT ![s] = @ \union {p}]
    /\ UNCHANGED <<rows, doubtful>>

\* The row of a position in doubt may be closed more than once, never opened
\* again.
Forward(before, after) ==
    \/ after = before
    \/ before = "none" /\ after = "open"
    \/ before = "open" /\ after = "closed"

\* Some positions come into doubt, or those in doubt go their way.
Stray ==
    /\ doubtful' \in SUBSET Position /\ doubtful \subseteq doubtful'
    /\ hands' \in [Scan -> SUBSET Position]
    /\ results' \in [Scan -> SUBSET Position]
    /\ rows' \in [Position -> {"none", "open", "closed"}]
    /\ \A p \in Position : IF p \in doubtful' THEN Forward(rows[p], rows'[p])
                                              ELSE rows'[p] = rows[p]
    /\ \A s \in Scan :
         /\ hands'[s] \ doubtful' = hands[s] \ doubtful'
         /\ results'[s] \ doubtful' = results[s] \ doubtful'
         /\ results[s] \subseteq results'[s]

Next ==
    \/ \E s \in Scan : Lose(s)
    \/ \E p \in Position : Open(p)
    \/ \E s \in Scan, p \in Position : Close(s, p) \/ Book(s, p)
    \/ Stray

Spec == Init /\ [][Next]_vars

-----------------------------------------------------------------------------
\* No two scans, and no scan twice, have the result of one position, and there
\* is a result, in hand or in the books, only of a position that is closed.
SettledOnce ==
    \A p \in Position \ doubtful : \A s \in Scan :
        /\ p \in hands[s] \union results[s] => rows[p] = "closed"
        /\ p \notin hands[s] \intersect results[s]
        /\ \A r \in Scan \ {s} :
             p \in hands[s] \union results[s] => p \notin hands[r] \union results[r]
=============================================================================
