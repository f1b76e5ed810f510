----------------------------- MODULE MCServerData -----------------------------
(* Instances of ServerData for TLC. *)
EXTENDS ServerData

CONSTANTS r1, inbox, f0, f1, f2, b0, b1, b2

MCFolderOf(o) == CASE o = Seed -> f0 [] o = r1 -> f1 [] OTHER -> f2
MCBookmarkOf(o) == CASE o = Seed -> b0 [] o = r1 -> b1 [] OTHER -> b2
MCFolders == [o \in Restores \cup Writers \cup {Seed} |-> MCFolderOf(o)]
MCBookmarks == [o \in Restores \cup Writers \cup {Seed} |-> MCBookmarkOf(o)]
=============================================================================
