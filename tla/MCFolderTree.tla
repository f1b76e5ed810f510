----------------------------- MODULE MCFolderTree -----------------------------
(* Instances of FolderTree for TLC. *)
EXTENDS FolderTree, TLC

\* The requests, the folders but the Inbox and the bookmarks are interchangeable.
Symmetry ==
  Permutations(Requests) \cup Permutations(Folders \ {Inbox}) \cup Permutations(Bookmarks)
=============================================================================
