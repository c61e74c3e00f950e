------------------------------ MODULE SingleScan ------------------------------
(***************************************************************************)
(* What the execution lock promises to the scans: one of them at a time is *)
(* inside, each of them once, and none is refused unless somebody is       *)
(* inside or died there, which keeps the others out for the lease.         *)
(* All of it holds until the first cause for the lock to fail (excused).   *)
(***************************************************************************)
CONSTANT Scan

VARIABLES
    stage,   \* where each scan is
    excused  \* has there been a cause for the lock to fail?

vars == <<stage, excused>>

Stages == {"outside", "inside", "left", "refused", "dead", "stranded"}

Init ==
    /\ stage = [s \in Scan |-> "outside"]
    /\ excused = FALSE

Move(s, from, to) ==
    /\ stage[s] = from
    /\ stage' = [stage EXCEPT ![s] = to]
    /\ UNCHANGED excused

Enter(s) ==
    /\ \A r \in Scan : stage[r] # "inside"
    /\ Move(s, "outside", "inside")

Leave(s) == Move(s, "inside", "left")

Refuse(s) ==
    /\ \E r \in Scan : stage[r] \in {"inside", "stranded"}
    /\ Move(s, "outside", "refused")

\* A scan dies on its way in, or inside and leaves its lease behind.
Die(s) == Move(s, "outside", "dead") \/ Move(s, "inside", "stranded")

Excuse ==
    /\ excused' = TRUE
    /\ stage' \in [Scan -> Stages]

Next ==
    \/ \E s \in Scan : Enter(s) \/ Leave(s) \/ Refuse(s) \/ Die(s)
    \/ Excuse

Spec == Init /\ [][Next]_vars
=============================================================================
