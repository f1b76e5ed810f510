---------------------------- MODULE MCLibraryReads ----------------------------
(* Instances of LibraryReads for TLC. *)
EXTENDS LibraryReads, TLC

MCBookmarks == {1, 2}
MCFolders == {10, 11, 12}     \* the Inbox and two others

Folder(up, vis, name) == [up |-> up, vis |-> vis, live |-> TRUE, name |-> name]
Bookmark(in, vis, place, url) ==
  [in |-> in, vis |-> vis, archived |-> FALSE, live |-> TRUE, place |-> place, url |-> url]

\* Two folders, one below the other, the outer one public or not, or both at the top with
\* one name; all URLs canonical, or one that an HREF changes or has not; and a bookmark that
\* is not there yet.
Library(v, up, url, there) ==
  [folder |-> [f \in MCFolders |-> CASE f = 10 -> Folder(0, "private", "inbox")
                                     [] f = 11 -> Folder(0, v, "n")
                                     [] f = 12 -> Folder(up, "public", "n")],
   bookmark |-> <<Bookmark(11, "public", 0, "canonical"),
                  [Bookmark(12, "public", 1, url) EXCEPT !.live = there]>>]
MCLibraries ==
  {Library("private", 11, "loose", TRUE), Library("public", 0, "script", TRUE),
   Library("public", 11, "canonical", TRUE), Library("public", 11, "canonical", FALSE)}

MCItems == {[in |-> 11, archived |-> TRUE, place |-> 0], [in |-> 0, archived |-> FALSE, place |-> 1]}
MCOrders == {<<2, 1>>}
MCBeside == [nav |-> 2, export |-> 2, server |-> 1, feed |-> 2]

\* Nothing follows an answer, and what is claimed of it is about what was read and when;
\* what is claimed of the writers was checked of the state before.
MCView == IF Answered THEN <<rd, moments, library>> ELSE vars
MCSymmetry == Permutations(Writers)
=============================================================================
