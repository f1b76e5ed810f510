--------------------------- MODULE MCWorkerRestore ---------------------------
(* Instances of WorkerRestore for TLC. *)
EXTENDS WorkerRestore, TLC

\* The restores are interchangeable, and so are the writers.
Symmetry == Permutations(Restores) \cup Permutations(Writers)
=============================================================================
