------------------------------ MODULE TwoLegTrade ------------------------------
(***************************************************************************)
(* What a two-leg spot trade promises to whoever started it: it ends with  *)
(* one verdict, and the verdict tells the position that was left behind,   *)
(* unless some exchange filled an order and the answer was lost, or the    *)
(* answer to an order was not the exchange's.                              *)
(***************************************************************************)
EXTENDS Integers

VARIABLES
    net,      \* bought minus sold, in units of the trade's amount
    verdict,  \* "none" until the trade ends
    doubt     \* was an answer lost, or not the exchange's?

Flat == {"refused", "traded", "closed"}    \* nothing is left open
Verdicts == Flat \union {"exposed", "died"}

\* The position a verdict stands for.
Tells(v, n) == (v \in Flat => n = 0) /\ (v = "exposed" => n = 1)

Init == net = 0 /\ verdict = "none" /\ doubt = FALSE

\* An order is filled or not; with the true answers in hand nothing is bought twice
\* and nothing sold that was not bought.
Trade ==
    /\ verdict = "none" /\ verdict' = verdict
    /\ net' \in Int
    /\ doubt' \in BOOLEAN /\ (doubt => doubt')
    /\ doubt' \/ net' \in {0, 1}

\* The trade ends, with its last fill or after it.
Conclude ==
    /\ verdict = "none" /\ verdict' \in Verdicts
    /\ net' \in Int
    /\ doubt' \in BOOLEAN /\ (doubt => doubt')
    /\ doubt' \/ Tells(verdict', net')

Next == Trade \/ Conclude

vars == <<net, verdict, doubt>>

Spec == Init /\ [][Next]_vars
=============================================================================
