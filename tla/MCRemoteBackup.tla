---------------------------- MODULE MCRemoteBackup ----------------------------
(* Instances of RemoteBackup for TLC. *)
EXTENDS RemoteBackup, TLC

\* The Workers are interchangeable.
Symmetry == Permutations(Workers)
=============================================================================
