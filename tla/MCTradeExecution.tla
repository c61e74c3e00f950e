--------------------------- MODULE MCTradeExecution ---------------------------
(* Small instances of TradeExecution for TLC. *)
EXTENDS TradeExecution, TLC

CONSTANTS j0, j1, j2

\* The job of an unbatched trade nests all three loops; of the two jobs of a batch
\* one has a second way to send an order, the other a second attempt.
NestedSends   == (j0 :> 2) @@ (j1 :> 2) @@ (j2 :> 1)
NestedRetries == (j0 :> 1) @@ (j1 :> 0) @@ (j2 :> 1)
NestedPasses  == (j0 :> 2) @@ (j1 :> 1) @@ (j2 :> 1)

\* All alike, and no proxy in between.
DirectSends  == [j \in Job |-> 1]
DirectTwice  == [j \in Job |-> 2]
===============================================================================
