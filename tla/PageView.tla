------------------------------- MODULE PageView -------------------------------
(***************************************************************************)
(* What the page (PublicHome) makes of the folders and bookmarks it was    *)
(* given: the tree, the groups and counts it shows, and what a drag shows  *)
(* and sends before the server's answer.                                   *)
(*                                                                         *)
(* Of a row, the parent and the sort_order matter; rows with the same      *)
(* sort_order are told apart by their names, here by their ids.            *)
(***************************************************************************)
EXTENDS Formats
LOCAL INSTANCE SequencesExt

Sorted(rows, ids) ==
  SetToSortSeq(ids, LAMBDA x, y : rows[x].place < rows[y].place \/ (rows[x].place = rows[y].place /\ x < y))

IsBookmark(node) == node.id \in Bookmarks
Sum(numbers) == FoldSeq(LAMBDA m, n : m + n, 0, numbers)

-----------------------------------------------------------------------------
\* buildTreeFromHome: a folder whose parent was not read is at the top; what is in no
\* folder that was read is nowhere.
ShownUnder(fs, f) == IF fs[f].up \in DOMAIN fs THEN fs[f].up ELSE Root
Unarchived(bs) == {b \in DOMAIN bs : ~bs[b].archived}

RECURSIVE NodeOf(_, _, _)
NodeOf(fs, bs, x) ==
  LET rows == [y \in DOMAIN fs \cup DOMAIN bs |-> IF y \in DOMAIN fs THEN fs[y] ELSE bs[y]]
      kids == Sorted(rows, {f \in DOMAIN fs : ShownUnder(fs, f) = x}
                           \cup {b \in Unarchived(bs) : bs[b].in = x /\ x \in DOMAIN fs})
  IN [id |-> x, kids |-> [i \in DOMAIN kids |-> NodeOf(fs, bs, kids[i])]]
BuildTree(fs, bs) == NodeOf(fs, bs, Root).kids

RECURSIVE CountBookmarks(_)
CountBookmarks(node) ==
  IF IsBookmark(node) THEN 1 ELSE Sum([i \in DOMAIN node.kids |-> CountBookmarks(node.kids[i])])

RECURSIVE FlattenBookmarks(_)
FlattenBookmarks(node) ==
  IF IsBookmark(node) THEN <<node.id>>
  ELSE FlattenSeq([i \in DOMAIN node.kids |-> FlattenBookmarks(node.kids[i])])

\* Folders that come out empty go.
RECURSIVE FilterTree(_, _)
FilterTree(nodes, keep) ==
  SelectSeq([i \in DOMAIN nodes |-> [nodes[i] EXCEPT !.kids = FilterTree(@, keep)]],
            LAMBDA n : IF IsBookmark(n) THEN n.id \in keep ELSE n.kids # <<>>)

-----------------------------------------------------------------------------
\* What is shown

TotalCount(tree) == Sum([i \in DOMAIN tree |-> CountBookmarks(tree[i])])

\* The rows of the sidebar: the Inbox has none, and what is in it moves up.
RECURSIVE FolderRows(_)
FolderRows(nodes) ==
  FlattenSeq([i \in DOMAIN nodes |->
    IF IsBookmark(nodes[i]) THEN <<>>
    ELSE (IF nodes[i].id = Inbox THEN <<>> ELSE <<[id |-> nodes[i].id, count |-> CountBookmarks(nodes[i])]>>)
         \o FolderRows(nodes[i].kids)])

\* What can be selected besides a folder.
All == Root
Archived == Root - 1

\* A selected folder that a reload no longer has gives way to all.
StillSelected(fs, selected) == IF selected \in Folders \ DOMAIN fs /\ fs # <<>> THEN All ELSE selected

RECURSIVE Subtree(_, _)
Subtree(nodes, id) ==
  FlattenSeq([i \in DOMAIN nodes |->
    IF nodes[i].id = id THEN <<nodes[i]>> ELSE Subtree(nodes[i].kids, id)])

\* keep: the bookmarks with all the tags that are chosen.
Filtered(tree, selected, keep) ==
  LET base == IF selected \in Folders THEN Subtree(tree, selected) ELSE tree
  IN IF keep = Bookmarks THEN base ELSE FilterTree(base, keep)

\* All: a top folder's own bookmarks, then one group for each folder in it.
GroupsOfAll(node) ==
  <<SelectSeq([i \in DOMAIN node.kids |-> node.kids[i].id], LAMBDA x : x \in Bookmarks)>>
  \o [i \in DOMAIN node.kids |-> IF IsBookmark(node.kids[i]) THEN <<>> ELSE FlattenBookmarks(node.kids[i])]
Groups(tree, bs, selected, keep) ==
  LET nodes == Filtered(tree, selected, keep)
      groups == CASE selected = Archived -> <<Sorted(bs, (DOMAIN bs \ Unarchived(bs)) \cap keep)>>
                  [] selected = All -> FlattenSeq([i \in DOMAIN nodes |-> GroupsOfAll(nodes[i])])
                  [] OTHER -> [i \in DOMAIN nodes |-> FlattenBookmarks(nodes[i])]
  IN SelectSeq(groups, LAMBDA items : items # <<>>)

ToggleSelectAll(groups, selection) ==
  LET visible == ToSet(FlattenSeq(groups)) IN IF visible \subseteq selection THEN {} ELSE visible

-----------------------------------------------------------------------------
\* Drags

\* At the end, when the target is not among them.
PlacedBefore(ids, x, target) ==
  LET others == SelectSeq(ids, LAMBDA y : y # x)
  IN IF target \notin ToSet(others) THEN Append(others, x)
     ELSE FlattenSeq([i \in DOMAIN others |-> IF others[i] = target THEN <<x, target>> ELSE <<others[i]>>])
Place(ids, x) == (CHOOSE i \in DOMAIN ids : ids[i] = x) - 1

\* foldersByParent
Siblings(fs, p) == Sorted(fs, {f \in DOMAIN fs : fs[f].up = p})

\* previewFolderOver: a folder does not go into itself.
FolderOver(fs, x, target) ==
  LET p == fs[target].up
      order == PlacedBefore(Siblings(fs, p), x, target)
  IN IF x = target \/ x \in Chain(fs, p) \/ order = Siblings(fs, p) THEN fs
     ELSE [f \in DOMAIN fs |->
             IF f \in ToSet(order) THEN [fs[f] EXCEPT !.up = p, !.place = Place(order, f)] ELSE fs[f]]

\* folderBookmarkIds, previewBookmarkOver: within one folder, archived ones stay.
FolderBookmarkIds(bs, f) == Sorted(bs, {b \in Unarchived(bs) : bs[b].in = f})
BookmarkOver(bs, x, target) ==
  LET f == bs[target].in
      order == PlacedBefore(FolderBookmarkIds(bs, f), x, target)
  IN IF x = target \/ bs[x].in # f \/ order = FolderBookmarkIds(bs, f) THEN bs
     ELSE [b \in DOMAIN bs |-> IF b \in ToSet(order) THEN [bs[b] EXCEPT !.place = Place(order, b)] ELSE bs[b]]

\* onDropFolder, and what POST /folders/reorder makes of it: refused if a folder would get
\* into itself, or under one that is not live; the Inbox keeps its parent.
Reordered(fs, p, order) ==
  IF p # Root /\ (p \notin DOMAIN fs \/ \E f \in ToSet(order) : fs[f].up # p /\ (f = Inbox \/ f \in Chain(fs, p)))
  THEN fs
  ELSE [f \in DOMAIN fs |->
          IF f \notin ToSet(order) THEN fs[f]
          ELSE [fs[f] EXCEPT !.up = IF f = Inbox THEN @ ELSE p, !.place = Place(order, f)]]
DropFolder(fs, preview, x) ==
  IF preview = fs THEN fs ELSE Reordered(fs, preview[x].up, Siblings(preview, preview[x].up))

\* onDropBookmark, POST /bookmarks/reorder
DropBookmark(bs, preview, x) ==
  LET order == FolderBookmarkIds(preview, preview[x].in)
  IN [b \in DOMAIN bs |->
        IF preview # bs /\ b \in ToSet(order) THEN [bs[b] EXCEPT !.place = Place(order, b), !.in = preview[x].in] ELSE bs[b]]

-----------------------------------------------------------------------------
\* What is claimed of all this

InTree(fs, f) == f \in DOMAIN fs /\ \E g \in Chain(fs, f) : fs[g].up \notin DOMAIN fs
Below(fs, bs, f) == {b \in Unarchived(bs) : f \in Chain(fs, bs[b].in) /\ InTree(fs, bs[b].in)}
Listing(tree, bs, selected, keep) == FlattenSeq(Groups(tree, bs, selected, keep))

\* Each bookmark that is not archived is shown once, under all and under every folder
\* above it; the counts are of what is shown; the tags leave the rest as it is; selecting
\* all twice selects nothing.
ShowsEachOnce(fs, bs) ==
  LET tree == BuildTree(fs, bs)
      all == Listing(tree, bs, All, Bookmarks)
      rows == FolderRows(tree)
  IN /\ IsInjective(all) /\ ToSet(all) = {b \in Unarchived(bs) : InTree(fs, bs[b].in)}
     /\ TotalCount(tree) = Len(all)
     /\ ToSet(Listing(tree, bs, Archived, Bookmarks)) = DOMAIN bs \ Unarchived(bs)
     /\ {rows[i].id : i \in DOMAIN rows} = {f \in DOMAIN fs \ {Inbox} : InTree(fs, f)}
     /\ \A i \in DOMAIN rows :
          LET own == Listing(tree, bs, rows[i].id, Bookmarks)
          IN IsInjective(own) /\ ToSet(own) = Below(fs, bs, rows[i].id) /\ rows[i].count = Len(own)
     /\ \A s \in {StillSelected(fs, f) : f \in Folders \cup {All, Archived}} :
          LET whole == Listing(tree, bs, s, Bookmarks)
          IN \A keep \in SUBSET Bookmarks \ {Bookmarks} :
               LET shown == Groups(tree, bs, s, keep)
               IN /\ FlattenSeq(shown) = SelectSeq(whole, LAMBDA b : b \in keep)
                  /\ ToggleSelectAll(shown, ToggleSelectAll(shown, {})) = {}

\* However a folder or a bookmark is dragged about, nothing gets lost, it is shown before
\* the one it is dropped at, and the reload after the drop shows what the drag did,
\* or what was before when the server refuses.
DragsTrue(fs, bs) ==
  /\ \A x \in DOMAIN fs \ {Inbox}, t, u \in DOMAIN fs :
       LET preview == FolderOver(FolderOver(fs, x, t), x, u)
           after == DropFolder(fs, preview, x)
           row == Siblings(preview, preview[u].up)
       IN /\ \A f \in DOMAIN fs : InTree(fs, f) => InTree(preview, f)
          /\ x = u \/ x \in Chain(fs, fs[u].up) \/ Place(row, x) + 1 = Place(row, u)
          /\ after = fs \/ \A f \in DOMAIN fs : Siblings(after, fs[f].up) = Siblings(preview, fs[f].up)
  /\ \A x, t, u \in Unarchived(bs) :
       LET preview == BookmarkOver(BookmarkOver(bs, x, t), x, u)
           row == FolderBookmarkIds(preview, bs[u].in)
       IN /\ x = u \/ bs[x].in # bs[u].in \/ Place(row, x) + 1 = Place(row, u)
          /\ BuildTree(fs, DropBookmark(bs, preview, x)) = BuildTree(fs, preview)
=============================================================================
