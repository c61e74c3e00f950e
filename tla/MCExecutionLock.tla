--------------------------- MODULE MCExecutionLock ---------------------------
(* Small instances of ExecutionLock for TLC. *)
EXTENDS ExecutionLock, TLC

\* Scans differ only in their token.
ScanSymmetry == Permutations(Scan)
=============================================================================
