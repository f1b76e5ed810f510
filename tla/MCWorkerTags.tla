----------------------------- MODULE MCWorkerTags -----------------------------
(* Instances of WorkerTags for TLC. *)
EXTENDS WorkerTags, TLC

\* All are interchangeable.
Symmetry ==
  Permutations(Bookmarks \ Present) \cup Permutations(Present) \cup Permutations(Tags) \cup Permutations(Names)
    \cup Permutations(Texts) \cup Permutations(Requests)
=============================================================================
