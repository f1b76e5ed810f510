---------------------------- MODULE MCImportMerge ----------------------------
(* Instances of ImportMerge for TLC. *)
EXTENDS ImportMerge, TLC

MCPaths == {<<"a">>, <<"b">>, <<"a", "b">>}

FileOf(exports, up, paths, items) ==
  [exports |-> exports, up |-> up, paths |-> paths, items |-> items]
Top == [e \in Exports |-> "none"]

\* Native exports: every way two folders can be in each other, one of them missing.
Native ==
  {FileOf(x, up, <<>>, <<[url |-> "u", export |-> "e", path |-> <<"a">>]>>) :
     <<x, up>> \in {<<y, p>> \in (SUBSET Exports \ {{}}) \X [Exports -> Exports \cup {"none"}] :
                     \A e \in Exports \ y : p[e] = "none"}}

\* Files of other programs: two bookmarks of one URL, anywhere, or of two.
Twice ==
  {<<[url |-> "u", export |-> "none", path |-> p], [url |-> "u", export |-> "none", path |-> q]>> :
     p \in {<<"b">>, <<"a", "b">>}, q \in {<<>>, <<"a", "b">>}}
Two == <<[url |-> "u", export |-> "none", path |-> <<"a", "b">>],
         [url |-> "v", export |-> "none", path |-> <<>>]>>
Foreign ==
  {FileOf({}, Top, ps, items) :
     ps \in {<<>>, <<<<"a">>, <<"a", "b">>>>}, items \in Twice \cup {Two}}

MCFiles == Native \cup Foreign

Folder(name, parent) == [name |-> name, parent |-> parent, live |-> TRUE]
Bookmark(url, home) == [url |-> url, home |-> home, live |-> TRUE]

\* One URL in two folders; a name in two places.
MCLibraries ==
  {[folders |-> <<Folder("Inbox", Root), Folder("a", Root), Folder("b", Root)>>,
    bookmarks |-> <<Bookmark("u", 2), Bookmark("u", 3)>>],
   [folders |-> <<Folder("Inbox", Root), Folder("b", Root), Folder("a", Root), Folder("b", 3)>>,
    bookmarks |-> <<Bookmark("u", 4)>>]}

\* The imports are interchangeable.
Symmetry == Permutations(Imports)
=============================================================================
