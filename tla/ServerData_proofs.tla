--------------------------- MODULE ServerData_proofs ---------------------------
(***************************************************************************)
(* The system folder stays where it is and no bookmark is without a        *)
(* folder, for any number of sessions and requests that overlap in their   *)
(* transactions, are refused or stopped, on SQLite and on Postgres; the    *)
(* live folders are a tree, and the collector is refused nothing, as long  *)
(* as sessions do not overlap; one replace_all next to any writers swaps   *)
(* the live rows in its commit or not at all.                              *)
(***************************************************************************)
EXTENDS ServerData, WellFoundedInduction, FiniteSetTheorems, TLAPS

-----------------------------------------------------------------------------
\* The inductive invariant

AtTop(row) == row.st = "live" /\ row.up = Root
Homed(row) == row.st \in Stored => row.up \in Folders

\* What a session may be about to do to a bookmark; of the Inbox it touches at most the
\* order.
BookmarkChanges ==
  {NoChange, Trashed, Removed} \cup [st : {"touched"}, up : Folders \cup {Same}]
                               \cup [st : {"live"}, up : Folders]
PendOK(p) ==
  /\ p \in [Ids -> Change]
  /\ p[Inbox] \in {NoChange, Touched}
  /\ \A b \in Bookmarks : p[b] \in BookmarkChanges

\* The lists of bookmarks that a session goes through.
BookmarkLists == {"move_bookmarks", "reorder_bookmarks", "delete_bookmarks", "replace_bookmarks",
                  "merge_folder", "merge_item"}

\* No list but that of a reorder names the Inbox, and no cascade starts at it.
Spares(r) ==
  /\ r \in Job /\ PendOK(r.pend)
  /\ r.op \in {"cascade", "cascade_bookmarks"} => r.top # Inbox
  /\ r.op # "reorder_folders" => Inbox \notin r.todo
  /\ r.op \in {"reorder_folders", "replace_folders", "cascade", "cascade_bookmarks"} => r.todo \subseteq Folders
  /\ r.op \in BookmarkLists => r.todo \subseteq Bookmarks
  /\ r.op = "reorder_bookmarks" => r.to # Root

IInv ==
  /\ dialect \in Dialects
  /\ db \in [Ids -> Row] /\ AtTop(db[Inbox]) /\ \A b \in Bookmarks : Homed(db[b])
  /\ tx \in [Sessions -> [Ids -> Row \cup {Untouched}]]
  /\ \A s \in Sessions : /\ tx[s][Inbox] = Untouched \/ AtTop(tx[s][Inbox])
                         /\ \A b \in Bookmarks : Homed(tx[s][b])
                         /\ Spares(job[s])
  /\ job \in [Sessions -> Job]
  /\ result \in [Restores -> {"running", "ok", "failed"}]
  /\ mixed \in BOOLEAN /\ requests \in 0..MaxRequests

-----------------------------------------------------------------------------
\* Rows and changes

LEMMA IdKinds ==
  /\ Inbox \in Folders /\ Inbox \in Ids /\ Inbox \notin Bookmarks /\ Folders \subseteq Ids /\ Bookmarks \subseteq Ids
  /\ Root \notin Folders /\ Same \notin Folders \cup {Root}
  /\ \A b \in Bookmarks : b \notin Folders
BY InboxAssumption, IdsAssumption DEF Ids

LEMMA Changes ==
  /\ NoChange \in Change /\ Touched \in Change /\ Trashed \in Change /\ Removed \in Change
  /\ {NoChange, Trashed, Removed} \subseteq BookmarkChanges
  /\ \A p \in Folders \cup {Root} : Inserted(p) \in Change
  /\ \A f \in Folders : Inserted(f) \in BookmarkChanges
BY DEF NoChange, Touched, Trashed, Removed, Inserted, Change, BookmarkChanges, State

LEMMA NoPendOK == PendOK(NoPend)
BY IdKinds, Changes DEF NoPend, PendOK

LEMMA PendsOK ==
  ASSUME NEW ids, NEW c \in Change, Inbox \in ids => c \in {NoChange, Touched},
         ids \cap Bookmarks # {} => c \in BookmarkChanges
  PROVE  PendOK(Pend(ids, c))
BY IdKinds, Changes DEF Pend, PendOK

LEMMA MovedOK ==
  ASSUME NEW v \in [Ids -> Row], NEW i \in Ids, NEW p \in Folders \cup {Root}
  PROVE  /\ Moved(v, i, p) \in Change
         /\ p \in Folders => Moved(v, i, p) \in BookmarkChanges
         /\ v[i].up = p => Moved(v, i, p) = Touched
BY DEF Moved, Change, BookmarkChanges, Touched, State

LEMMA Viewed ==
  ASSUME IInv, NEW s \in Sessions
  PROVE  /\ View(s) \in [Ids -> Row] /\ AtTop(View(s)[Inbox])
         /\ \A b \in Bookmarks : Homed(View(s)[b])
BY IdKinds DEF IInv, View

LEMMA IdleOK == Spares(Idle) /\ Spares(Done)
BY NoPendOK DEF Spares, BookmarkLists, Idle, Done, Job, Op, PendOK

-----------------------------------------------------------------------------
\* What a session does next

LEMMA InitHolds == Init => IInv
<1> SUFFICES ASSUME Init PROVE IInv
  OBVIOUS
<1>1. /\ db \in [Ids -> Row] /\ AtTop(db[Inbox]) /\ \A b \in Bookmarks : Homed(db[b])
  <2>1. FolderOf[Seed] \in Folders \ {Inbox} /\ BookmarkOf[Seed] \in Bookmarks
    BY IdsAssumption DEF Origin
  <2> QED BY IdKinds, <2>1 DEF Init, Row, State, AtTop, Homed, Stored
<1>2. /\ tx \in [Sessions -> [Ids -> Row \cup {Untouched}]]
      /\ \A s \in Sessions : tx[s][Inbox] = Untouched /\ \A b \in Bookmarks : Homed(tx[s][b])
  BY IdKinds DEF Init, Homed, Untouched, Stored
<1>3. job \in [Sessions -> Job] /\ \A s \in Sessions : Spares(job[s])
  BY IdleOK DEF Init, Spares
<1>4. requests \in 0..MaxRequests
  BY ModeAssumption DEF Init
<1> QED BY <1>1, <1>2, <1>3, <1>4 DEF Init, IInv

LEMMA JobKeeps ==
  ASSUME IInv, NEW s \in Sessions, NEW r, Spares(r), job' = [job EXCEPT ![s] = r],
         UNCHANGED <<dialect, db, tx, result>>, mixed' \in BOOLEAN, requests' \in 0..MaxRequests
  PROVE  IInv'
<1>1. job' \in [Sessions -> Job] /\ \A t \in Sessions : Spares(job'[t])
  BY DEF IInv, Spares
<1> QED BY <1>1 DEF IInv

LEMMA StartKeeps ==
  ASSUME IInv, NEW s \in Sessions, s \in Writers => requests < MaxRequests,
         NEW r, Spares(r), Start(s, r)
  PROVE  IInv'
<1>1. mixed' \in BOOLEAN /\ requests' \in 0..MaxRequests
  BY ModeAssumption DEF IInv, Start
<1> QED BY <1>1, JobKeeps DEF Start

LEMMA GoesKeeps ==
  ASSUME IInv, NEW s \in Sessions, NEW r, Spares(r), Goes(s, r)  PROVE IInv'
<1>1. mixed' \in BOOLEAN /\ requests' \in 0..MaxRequests
  BY DEF IInv, Goes
<1> QED BY <1>1, JobKeeps DEF Goes

\* A job that ends with the changes p, and one that goes on with them.
LEMMA DoneOK ==
  ASSUME NEW p, PendOK(p)  PROVE Spares([Done EXCEPT !.pend = p])
<1>1. Done \in Job /\ Done.todo = {} /\ Done.op = "done"
  BY IdleOK DEF Spares, BookmarkLists, Done, Idle
<1> HIDE DEF Done
<1> QED BY <1>1 DEF Spares, BookmarkLists, Job, PendOK

LEMMA BeginKeeps ==
  ASSUME IInv, NEW s \in Writers, requests < MaxRequests, Begin(s)  PROVE IInv'
<1> USE IdKinds, Changes
<1>1. /\ s \in Sessions /\ FolderOf[s] \in Folders \ {Inbox} /\ BookmarkOf[s] \in Bookmarks
      /\ db \in [Ids -> Row] /\ AtTop(db[Inbox])
  BY IdsAssumption DEF Sessions, Origin, IInv
<1>2. CASE CreateFolder(s)
  <2>1. PICK p \in Folders \cup {Root} : Start(s, [Done EXCEPT !.pend = Pend({FolderOf[s]}, Inserted(p))])
    BY <1>2 DEF CreateFolder
  <2>2. PendOK(Pend({FolderOf[s]}, Inserted(p)))
    BY <1>1, PendsOK
  <2> QED BY <1>1, <2>1, <2>2, DoneOK, StartKeeps
<1>3. CASE UpdateFolder(s)
  <2>1. PICK f \in Folders, p \in Folders \cup {Root} :
          MayUpdate(f, p) /\ Start(s, [Done EXCEPT !.pend = Pend({f}, Moved(db, f, p))])
    BY <1>3 DEF UpdateFolder
  <2>2. f # Inbox /\ Moved(db, f, p) \in Change
    BY <1>1, <2>1, MovedOK DEF MayUpdate
  <2>3. PendOK(Pend({f}, Moved(db, f, p)))
    BY <2>2, PendsOK
  <2> QED BY <1>1, <2>1, <2>3, DoneOK, StartKeeps
<1>4. CASE DeleteFolder(s)
  <2>1. PICK f \in Folders \ {Inbox} :
          \/ \E mode \in {"move_to_inbox", "move_to_parent"} :
               Start(s, [Done EXCEPT !.pend =
                 [i \in Ids |-> IF i = f THEN Trashed
                                ELSE IF i \in LiveChildren(db, f) THEN Moved(db, i, ChildrenTo(f, mode))
                                ELSE IF i \in LiveIn(db, f) THEN Moved(db, i, BookmarksTo(f, mode))
                                ELSE NoChange]])
          \/ Start(s, [Idle EXCEPT !.op = "cascade", !.top = f, !.stack = {f}])
    BY <1>4 DEF DeleteFolder
  <2>2. ASSUME NEW mode,
               Start(s, [Done EXCEPT !.pend =
                 [i \in Ids |-> IF i = f THEN Trashed
                                ELSE IF i \in LiveChildren(db, f) THEN Moved(db, i, ChildrenTo(f, mode))
                                ELSE IF i \in LiveIn(db, f) THEN Moved(db, i, BookmarksTo(f, mode))
                                ELSE NoChange]])
        PROVE  IInv'
    <3> DEFINE pend == [i \in Ids |-> IF i = f THEN Trashed
                                ELSE IF i \in LiveChildren(db, f) THEN Moved(db, i, ChildrenTo(f, mode))
                                ELSE IF i \in LiveIn(db, f) THEN Moved(db, i, BookmarksTo(f, mode))
                                ELSE NoChange]
    <3>1. BookmarksTo(f, mode) \in Folders /\ ChildrenTo(f, mode) \in Folders \cup {Root}
      BY <1>1 DEF BookmarksTo, ChildrenTo, Row
    <3>2. \A i \in Ids : /\ Moved(db, i, ChildrenTo(f, mode)) \in Change
                         /\ Moved(db, i, BookmarksTo(f, mode)) \in Change \cap BookmarkChanges
      BY <1>1, <3>1, MovedOK
    <3>3. Inbox \notin LiveChildren(db, f) \cup LiveIn(db, f) /\ LiveChildren(db, f) \subseteq Folders
      BY <1>1 DEF LiveChildren, LiveIn, AtTop
    <3>4. PendOK(pend)
      BY <3>2, <3>3 DEF PendOK
    <3> HIDE DEF pend
    <3>5. Spares([Done EXCEPT !.pend = pend])
      BY <3>4, DoneOK
    <3> QED BY <1>1, <2>2, <3>5, StartKeeps DEF pend
  <2>3. CASE Start(s, [Idle EXCEPT !.op = "cascade", !.top = f, !.stack = {f}])
    <3>1. Spares([Idle EXCEPT !.op = "cascade", !.top = f, !.stack = {f}])
      BY IdleOK DEF Spares, BookmarkLists, Idle, Job, Op
    <3> QED BY <1>1, <2>3, <3>1, StartKeeps
  <2> QED BY <2>1, <2>2, <2>3
<1>5. CASE ReorderFolders(s)
  <2>1. PICK ids \in SUBSET Folders, p \in Folders \cup {Root} :
          Start(s, [Idle EXCEPT !.op = "reorder_folders", !.to = p, !.todo = ids])
    BY <1>5 DEF ReorderFolders
  <2>2. Spares([Idle EXCEPT !.op = "reorder_folders", !.to = p, !.todo = ids])
    BY IdleOK DEF Spares, BookmarkLists, Idle, Job, Op, Ids
  <2> QED BY <1>1, <2>1, <2>2, StartKeeps
<1>6. CASE CreateBookmark(s)
  <2>1. PICK f \in Folders : Start(s, [Done EXCEPT !.pend = Pend({BookmarkOf[s]}, Inserted(f))])
    BY <1>6 DEF CreateBookmark
  <2>2. PendOK(Pend({BookmarkOf[s]}, Inserted(f)))
    BY <1>1, PendsOK
  <2> QED BY <1>1, <2>1, <2>2, DoneOK, StartKeeps
<1>7. CASE EditBookmarks(s)
  <2>1. PICK ids \in SUBSET Bookmarks, f \in Folders :
          \/ Start(s, [Idle EXCEPT !.op = "move_bookmarks", !.to = f, !.todo = ids])
          \/ Start(s, [Idle EXCEPT !.op = "reorder_bookmarks", !.to = f, !.todo = ids])
          \/ Start(s, [Idle EXCEPT !.op = "delete_bookmarks", !.todo = ids])
    BY <1>7 DEF EditBookmarks
  <2>2. /\ Spares([Idle EXCEPT !.op = "move_bookmarks", !.to = f, !.todo = ids])
        /\ Spares([Idle EXCEPT !.op = "reorder_bookmarks", !.to = f, !.todo = ids])
        /\ Spares([Idle EXCEPT !.op = "delete_bookmarks", !.todo = ids])
    BY IdleOK DEF Spares, BookmarkLists, Idle, Job, Op, Ids
  <2> QED BY <1>1, <2>1, <2>2, StartKeeps
<1>8. CASE BeginMerge(s)
  <2> DEFINE hits == {b \in Bookmarks : Live(db, b)}
  <2>1. hits \subseteq Bookmarks /\ Start(s, [Idle EXCEPT !.op = "merge_folder", !.todo = hits])
    BY <1>8 DEF BeginMerge
  <2> HIDE DEF hits
  <2>2. Spares([Idle EXCEPT !.op = "merge_folder", !.todo = hits])
    BY <2>1, IdleOK DEF Spares, BookmarkLists, Idle, Job, Op, Ids
  <2> QED BY <1>1, <2>1, <2>2, StartKeeps
<1>9. CASE BeginGc(s)
  <2> DEFINE pend == Pend({b \in Bookmarks : db[b].st = "stale"}, Removed)
  <2>1. PendOK(pend) /\ Start(s, [Idle EXCEPT !.op = "gc_list", !.pend = pend])
    BY <1>9, PendsOK DEF BeginGc
  <2> HIDE DEF pend
  <2>2. Spares([Idle EXCEPT !.op = "gc_list", !.pend = pend])
    BY <2>1, IdleOK DEF Spares, BookmarkLists, Idle, Job, Op, PendOK
  <2> QED BY <1>1, <2>1, <2>2, StartKeeps
<1> QED BY <1>2, <1>3, <1>4, <1>5, <1>6, <1>7, <1>8, <1>9 DEF Begin

LEMMA ReadOnKeeps ==
  ASSUME IInv, NEW s \in Sessions, ReadOn(s)  PROVE IInv'
<1> USE IdKinds, Changes
<1> DEFINE v == View(s)
           r == job[s]
<1>1. /\ v \in [Ids -> Row] /\ AtTop(v[Inbox]) /\ Spares(r) /\ r \in Job /\ PendOK(r.pend)
      /\ FolderOf[s] \in Folders \ {Inbox} /\ BookmarkOf[s] \in Bookmarks
  BY Viewed, IdsAssumption DEF IInv, Spares, Origin
<1> HIDE DEF v, r
<1>2. /\ r.todo \subseteq Ids /\ r.stack \subseteq Folders /\ r.pend \in [Ids -> Change]
      /\ r.at \in Folders \cup {Root} /\ r.top \in Folders \cup {Root} /\ r.to \in Folders \cup {Root}
      /\ r.then \in {"done", "replace_folders"}
      /\ r.op \in {"cascade", "cascade_bookmarks"} => r.top # Inbox
      /\ r.op # "reorder_folders" => Inbox \notin r.todo
      /\ r.op \in {"reorder_folders", "replace_folders", "cascade", "cascade_bookmarks"} => r.todo \subseteq Folders
      /\ r.op \in BookmarkLists => r.todo \subseteq Bookmarks
      /\ r.op = "reorder_bookmarks" => r.to # Root
  BY <1>1 DEF Spares, BookmarkLists, Job
\* What is left after the id i of a list
<1>3. ASSUME NEW i, NEW p, PendOK(p)  PROVE Spares([Rest(r, i) EXCEPT !.pend = p])
  <2>1. CASE r.todo = {i}
    BY <1>3, <2>1, DoneOK DEF Rest
  <2>2. CASE r.todo # {i}
    <3>1. Spares([r EXCEPT !.todo = @ \ {i}, !.pend = p])
      BY <1>1, <1>2, <1>3 DEF Spares, BookmarkLists, Job, PendOK
    <3>2. [[r EXCEPT !.todo = @ \ {i}] EXCEPT !.pend = p] = [r EXCEPT !.todo = @ \ {i}, !.pend = p]
      OBVIOUS
    <3> QED BY <2>2, <3>1, <3>2 DEF Rest
  <2> QED BY <2>1, <2>2
<1>4. \A q : Goes(s, q) /\ Spares(q) => IInv'
  BY GoesKeeps
<1>5. CASE CascadePop(s)
  <2>1. PICK f \in r.stack :
          r.op = "cascade" /\
          Goes(s, [r EXCEPT !.op = "cascade_bookmarks", !.at = f,
                            !.stack = (@ \ {f}) \cup Kids(v, f), !.pend = Pend(Kids(v, f), Trashed)])
    BY <1>5 DEF CascadePop, Reading, v, r
  <2> DEFINE kids == Kids(v, f)
             pend == Pend(kids, Trashed)
  <2>2. kids \subseteq Folders \ {Inbox}
    BY DEF Kids, LiveChildren
  <2>3. PendOK(pend)
    BY <2>2, PendsOK
  <2> HIDE DEF pend, kids
  <2>4. Spares([r EXCEPT !.op = "cascade_bookmarks", !.at = f, !.stack = (@ \ {f}) \cup kids, !.pend = pend])
    BY <1>1, <1>2, <2>1, <2>2, <2>3 DEF Spares, BookmarkLists, Job, Op, PendOK
  <2> QED BY <1>4, <2>1, <2>4 DEF pend, kids
<1>6. CASE CascadeBookmarks(s)
  <2> DEFINE pend == Pend(LiveIn(v, r.at), Trashed)
  <2>1. r.op = "cascade_bookmarks" /\ Goes(s, [r EXCEPT !.op = "cascade", !.at = Root, !.pend = pend])
    BY <1>6 DEF CascadeBookmarks, Reading, v, r
  <2>2. PendOK(pend)
    BY PendsOK DEF LiveIn
  <2> HIDE DEF pend
  <2>3. Spares([r EXCEPT !.op = "cascade", !.at = Root, !.pend = pend])
    BY <1>1, <1>2, <2>1, <2>2 DEF Spares, BookmarkLists, Job, Op, PendOK
  <2> QED BY <1>4, <2>1, <2>3
<1>7. CASE CascadeEnd(s)
  <2> DEFINE pend == Pend({r.top}, Trashed)
  <2>1. r.op = "cascade" /\ Goes(s, [r EXCEPT !.op = r.then, !.top = Root, !.pend = pend])
    BY <1>7 DEF CascadeEnd, Reading, v, r
  <2>2. PendOK(pend)
    BY <1>2, <2>1, PendsOK
  <2> HIDE DEF pend
  <2>3. Spares([r EXCEPT !.op = r.then, !.top = Root, !.pend = pend])
    BY <1>1, <1>2, <2>1, <2>2 DEF Spares, BookmarkLists, Job, Op, PendOK
  <2> QED BY <1>4, <2>1, <2>3
<1>8. CASE ReorderNext(s)
  <2>1. PICK f \in r.todo :
          /\ r.op = "reorder_folders" /\ MayReorder(v, f, r.to)
          /\ Goes(s, [Rest(r, f) EXCEPT !.pend = Pend({f}, Moved(v, f, r.to))])
    BY <1>8 DEF ReorderNext, Reading, v, r
  <2>2. Moved(v, f, r.to) \in Change /\ (f = Inbox => Moved(v, f, r.to) = Touched)
    BY <1>1, <1>2, <2>1, MovedOK DEF MayReorder
  <2>3. f \notin Bookmarks
    BY <1>2, <2>1
  <2>4. PendOK(Pend({f}, Moved(v, f, r.to)))
    BY <2>2, <2>3, PendsOK
  <2> QED BY <1>3, <1>4, <2>1, <2>4
<1>9. CASE MoveNext(s)
  <2>1. PICK b \in r.todo :
          /\ r.op \in {"move_bookmarks", "reorder_bookmarks"} /\ r.to # Root
          /\ Goes(s, [Rest(r, b) EXCEPT !.pend = Pend({b}, Moved(v, b, r.to))])
    BY <1>2, <1>9 DEF MoveNext, Reading, Live, v, r
  <2>2. Moved(v, b, r.to) \in Change \cap BookmarkChanges /\ b # Inbox
    BY <1>1, <1>2, <2>1, MovedOK
  <2>3. PendOK(Pend({b}, Moved(v, b, r.to)))
    BY <2>2, PendsOK
  <2> QED BY <1>3, <1>4, <2>1, <2>3
<1>10. CASE DeleteNext(s)
  <2>1. PICK b \in r.todo : r.op = "delete_bookmarks" /\ Goes(s, [Rest(r, b) EXCEPT !.pend = Pend({b}, Trashed)])
    BY <1>10 DEF DeleteNext, Reading, v, r
  <2>2. PendOK(Pend({b}, Trashed))
    BY <1>2, <2>1, PendsOK
  <2> QED BY <1>3, <1>4, <2>1, <2>2
<1>11. CASE ReplaceBookmark(s)
  <2>1. PICK b \in r.todo :
          r.op = "replace_bookmarks" /\ Goes(s, [r EXCEPT !.todo = @ \ {b}, !.pend = Pend({b}, Trashed)])
    BY <1>11 DEF ReplaceBookmark, Reading, v, r
  <2> DEFINE pend == Pend({b}, Trashed)
  <2>2. PendOK(pend)
    BY <1>2, <2>1, PendsOK
  <2> HIDE DEF pend
  <2>3. Spares([r EXCEPT !.todo = @ \ {b}, !.pend = pend])
    BY <1>1, <1>2, <2>1, <2>2 DEF Spares, BookmarkLists, Job, PendOK
  <2> QED BY <1>4, <2>1, <2>3 DEF pend
<1>12. CASE ReplaceListFolders(s)
  <2> DEFINE list == {f \in Folders \ {Inbox} : Live(v, f)}
  <2>1. Goes(s, [r EXCEPT !.op = "replace_folders", !.todo = list])
    BY <1>12 DEF ReplaceListFolders, v, r
  <2>2. list \subseteq Folders \ {Inbox}
    OBVIOUS
  <2> HIDE DEF list
  <2>3. Spares([r EXCEPT !.op = "replace_folders", !.todo = list])
    BY <1>1, <1>2, <2>2 DEF Spares, BookmarkLists, Job, Op, Ids
  <2> QED BY <1>4, <2>1, <2>3
<1>13. CASE ReplaceFolder(s)
  <2>1. PICK f \in r.todo :
          /\ r.op = "replace_folders"
          /\ \/ /\ Live(v, f)
                /\ Goes(s, [r EXCEPT !.todo = @ \ {f}, !.op = "cascade", !.top = f, !.stack = {f}])
             \/ Goes(s, [r EXCEPT !.todo = @ \ {f}])
    BY <1>2, <1>13 DEF ReplaceFolder, Reading, v, r
  <2>2. Spares([r EXCEPT !.todo = @ \ {f}])
    BY <1>1, <1>2, <2>1 DEF Spares, BookmarkLists, Job
  <2>3. Spares([r EXCEPT !.todo = @ \ {f}, !.op = "cascade", !.top = f, !.stack = {f}])
    BY <1>1, <1>2, <2>1 DEF Spares, BookmarkLists, Job, Op
  <2> QED BY <1>4, <2>1, <2>2, <2>3
<1>14. CASE ReplaceCreateFolder(s)
  <2> DEFINE pend == Pend({FolderOf[s]}, Inserted(Root))
  <2>1. r.op = "replace_folders" /\ Goes(s, [r EXCEPT !.op = "replace_create", !.pend = pend])
    BY <1>14 DEF ReplaceCreateFolder, Reading, v, r
  <2>2. PendOK(pend)
    BY <1>1, PendsOK
  <2> HIDE DEF pend
  <2>3. Spares([r EXCEPT !.op = "replace_create", !.pend = pend])
    BY <1>1, <1>2, <2>1, <2>2 DEF Spares, BookmarkLists, Job, Op, PendOK
  <2> QED BY <1>4, <2>1, <2>3
<1>15. CASE ReplaceCreateBookmark(s)
  <2>1. r.to \in Folders /\ Goes(s, [Done EXCEPT !.pend = Pend({BookmarkOf[s]}, Inserted(r.to))])
    BY <1>2, <1>15 DEF ReplaceCreateBookmark, Live, v, r
  <2>2. PendOK(Pend({BookmarkOf[s]}, Inserted(r.to)))
    BY <1>1, <2>1, PendsOK
  <2> QED BY <1>4, <2>1, <2>2, DoneOK
<1>16. CASE MergeFolder(s)
  <2>1. CASE \E g \in Folders : Goes(s, [r EXCEPT !.op = "merge_item", !.to = g])
    <3>1. PICK g \in Folders : Goes(s, [r EXCEPT !.op = "merge_item", !.to = g])
      BY <2>1
    <3>2. r.op = "merge_folder"
      BY <1>16 DEF MergeFolder, Reading, r
    <3>3. Spares([r EXCEPT !.op = "merge_item", !.to = g])
      BY <1>1, <1>2, <3>2 DEF Spares, BookmarkLists, Job, Op
    <3> QED BY <1>4, <3>1, <3>3
  <2>2. CASE \E p \in Folders \cup {Root} :
               Goes(s, [r EXCEPT !.op = "merge_item", !.to = FolderOf[s],
                                 !.pend = Pend({FolderOf[s]}, Inserted(p))])
    <3>1. PICK p \in Folders \cup {Root} :
            Goes(s, [r EXCEPT !.op = "merge_item", !.to = FolderOf[s],
                              !.pend = Pend({FolderOf[s]}, Inserted(p))])
      BY <2>2
    <3>2. r.op = "merge_folder"
      BY <1>16 DEF MergeFolder, Reading, r
    <3> DEFINE pend == Pend({FolderOf[s]}, Inserted(p))
    <3>3. PendOK(pend)
      BY <1>1, PendsOK
    <3> HIDE DEF pend
    <3>4. Spares([r EXCEPT !.op = "merge_item", !.to = FolderOf[s], !.pend = pend])
      BY <1>1, <1>2, <3>2, <3>3 DEF Spares, BookmarkLists, Job, Op, PendOK
    <3> QED BY <1>4, <3>1, <3>4 DEF pend
  <2> QED BY <1>16, <2>1, <2>2 DEF MergeFolder, r
<1>17. CASE MergeItem(s)
  <2>1. r.op = "merge_item" /\ r.to \in Folders
    BY <1>2, <1>17 DEF MergeItem, Reading, Live, v, r
  <2>2. PICK next \in {Done, [r EXCEPT !.op = "merge_folder", !.to = Root]} :
          \/ \E hit \in r.todo :
               Goes(s, [next EXCEPT !.todo = @ \ {hit}, !.pend = Pend({hit}, Moved(v, hit, r.to))])
          \/ Goes(s, [next EXCEPT !.pend = Pend({BookmarkOf[s]}, Inserted(r.to))])
    BY <1>17, Zenon DEF MergeItem, v, r
  <2>3. Spares([r EXCEPT !.op = "merge_folder", !.to = Root])
    BY <1>1, <1>2, <2>1 DEF Spares, BookmarkLists, Job, Op
  <2>4. /\ next \in Job /\ Inbox \notin next.todo
        /\ next.op \in {"done", "merge_folder"} /\ next.todo \subseteq Bookmarks
    <3>1. CASE next = Done
      BY <3>1, IdleOK DEF Done, Idle, Spares
    <3>2. CASE next = [r EXCEPT !.op = "merge_folder", !.to = Root]
      <4>1. r.todo \subseteq Bookmarks /\ Inbox \notin r.todo
        BY <1>2, <2>1 DEF Spares, BookmarkLists
      <4>2. next.todo = r.todo /\ next.op = "merge_folder" /\ next \in Job
        BY <1>1, <3>2 DEF Job, Op
      <4> QED BY <4>1, <4>2
    <3> QED BY <2>2, <3>1, <3>2
  <2>5. ASSUME NEW p, PendOK(p), NEW i
        PROVE  Spares([next EXCEPT !.todo = @ \ {i}, !.pend = p]) /\ Spares([next EXCEPT !.pend = p])
    BY <2>4, <2>5 DEF Spares, BookmarkLists, Job, PendOK
  <2>6. PendOK(Pend({BookmarkOf[s]}, Inserted(r.to)))
    BY <1>1, <2>1, PendsOK
  <2>7. ASSUME NEW hit \in r.todo  PROVE PendOK(Pend({hit}, Moved(v, hit, r.to)))
    <3>1. hit # Inbox /\ Moved(v, hit, r.to) \in Change \cap BookmarkChanges
      BY <1>1, <1>2, <2>1, MovedOK
    <3> QED BY <3>1, PendsOK
  <2> QED BY <1>4, <2>2, <2>5, <2>6, <2>7
<1>18. CASE SkipItem(s)
  BY <1>4, <1>18, IdleOK DEF SkipItem
<1>19. CASE GcListFolders(s)
  <2> DEFINE list == {f \in Folders \ {Inbox} : v[f].st = "stale"}
  <2>1. Goes(s, [r EXCEPT !.op = "gc_folders", !.todo = list])
    BY <1>19 DEF GcListFolders, v, r
  <2>2. list \subseteq Folders \ {Inbox}
    OBVIOUS
  <2> HIDE DEF list
  <2>3. Spares([r EXCEPT !.op = "gc_folders", !.todo = list])
    BY <1>1, <1>2, <2>2 DEF Spares, BookmarkLists, Job, Op, Ids
  <2> QED BY <1>4, <2>1, <2>3
<1>20. CASE GcDeleteLeaves(s)
  <2> DEFINE leaves == Leaves(v, r.todo)
             pend == Pend(leaves, Removed)
  <2>1. /\ r.op = "gc_folders"
        /\ \/ Goes(s, [r EXCEPT !.op = "done"])
           \/ Goes(s, [r EXCEPT !.todo = @ \ leaves, !.pend = pend])
    BY <1>20 DEF GcDeleteLeaves, Reading, v, r
  <2>2. Inbox \notin leaves
    BY <1>2, <2>1 DEF Leaves
  <2>3. PendOK(pend)
    BY <2>2, PendsOK
  <2> HIDE DEF leaves, pend
  <2>4. Spares([r EXCEPT !.op = "done"]) /\ Spares([r EXCEPT !.todo = @ \ leaves, !.pend = pend])
    BY <1>1, <1>2, <2>1, <2>3 DEF Spares, BookmarkLists, Job, Op, PendOK
  <2> QED BY <1>4, <2>1, <2>4
<1> QED BY <1>5, <1>6, <1>7, <1>8, <1>9, <1>10, <1>11, <1>12, <1>13, <1>14, <1>15, <1>16,
           <1>17, <1>18, <1>19, <1>20 DEF ReadOn, v, r

LEMMA BeginReplaceKeeps ==
  ASSUME IInv, NEW s \in Restores, BeginReplace(s)  PROVE IInv'
<1> DEFINE hits == {b \in Bookmarks : Live(db, b)}
           r == [Idle EXCEPT !.op = "replace_bookmarks", !.to = FolderOf[s],
                             !.then = "replace_folders", !.todo = hits]
<1>1. /\ Start(s, r) /\ hits \subseteq Bookmarks
      /\ s \in Sessions /\ s \notin Writers /\ FolderOf[s] \in Folders
  BY IdsAssumption DEF BeginReplace, Sessions, Origin
<1> HIDE DEF hits
<1>2. Spares(r)
  BY <1>1, IdKinds, IdleOK DEF Spares, BookmarkLists, Idle, Job, Op, Ids
<1> QED BY <1>1, <1>2, StartKeeps

-----------------------------------------------------------------------------
\* The transaction of a session

\* A row that is flushed: the Inbox is as it was, a bookmark has a folder.
LEMMA Applied ==
  ASSUME NEW row \in Row, NEW c \in Change
  PROVE  /\ Apply(row, c) \in Row
         /\ AtTop(row) /\ c \in {NoChange, Touched} => AtTop(Apply(row, c))
         /\ Homed(row) /\ c \in BookmarkChanges /\ (c.st \in {"touched", "trash"} => row.st \in Stored)
              => Homed(Apply(row, c))
<1>1. Apply(row, c) \in Row
  BY DEF Apply, Row, Change
<1>2. AtTop(row) /\ c \in {NoChange, Touched} => AtTop(Apply(row, c))
  BY DEF AtTop, Apply, NoChange, Touched
<1>3. ASSUME Homed(row), c \in BookmarkChanges, c.st \in {"touched", "trash"} => row.st \in Stored
      PROVE  Homed(Apply(row, c))
  <2>1. CASE c = NoChange \/ c = Removed
    BY <1>3, <2>1 DEF NoChange, Removed, Apply, Homed, Stored
  <2>2. CASE c = Trashed \/ c \in [st : {"touched"}, up : Folders \cup {Same}]
    BY <1>3, <2>2 DEF Trashed, Apply, Homed, Stored
  <2>3. CASE c \in [st : {"live"}, up : Folders]
    BY <2>3, IdKinds DEF Apply, Homed
  <2> QED BY <1>3, <2>1, <2>2, <2>3 DEF BookmarkChanges
<1> QED BY <1>1, <1>2, <1>3

LEMMA FlushKeeps ==
  ASSUME IInv, NEW s \in Sessions, Flush(s)  PROVE IInv'
<1> DEFINE old == View(s)
           pend == job[s].pend
           new == [i \in Ids |-> Apply(old[i], pend[i])]
<1>1. /\ old \in [Ids -> Row] /\ AtTop(old[Inbox]) /\ \A b \in Bookmarks : Homed(old[b])
      /\ PendOK(pend) /\ Spares(job[s]) /\ job[s] \in Job
  BY Viewed DEF IInv, Spares
<1>2. /\ \A i \in Ids : i \in Changed(s) /\ pend[i].st \in {"touched", "trash"} => old[i].st \in Stored
      /\ tx' = [tx EXCEPT ![s] = [i \in Ids |-> IF i \in Changed(s) THEN new[i] ELSE @[i]]]
      /\ job' = [job EXCEPT ![s].pend = NoPend]
      /\ UNCHANGED <<dialect, db, result, mixed, requests>>
  BY DEF Flush, Changed
<1>3. \A i \in Ids : i \notin Changed(s) => pend[i] = NoChange
  BY DEF Changed
<1> HIDE DEF old, pend
<1>4. /\ new \in [Ids -> Row] /\ AtTop(new[Inbox]) /\ \A b \in Bookmarks : Homed(new[b])
  <2>1. \A i \in Ids : pend[i] \in Change /\ old[i] \in Row
    BY <1>1 DEF PendOK
  <2>2. \A i \in Ids : pend[i].st \in {"touched", "trash"} => old[i].st \in Stored
    BY <1>2, <1>3 DEF NoChange
  <2> QED BY <1>1, <2>1, <2>2, Applied, IdKinds DEF PendOK
<1> HIDE DEF new
<1>5. /\ tx' \in [Sessions -> [Ids -> Row \cup {Untouched}]]
      /\ \A t \in Sessions : /\ tx'[t][Inbox] = Untouched \/ AtTop(tx'[t][Inbox])
                             /\ \A b \in Bookmarks : Homed(tx'[t][b])
  BY <1>2, <1>4, IdKinds DEF IInv
<1>6. job' \in [Sessions -> Job] /\ \A t \in Sessions : Spares(job'[t])
  <2>1. Spares([job[s] EXCEPT !.pend = NoPend])
    BY <1>1, NoPendOK DEF Spares, BookmarkLists, Job, PendOK
  <2>2. job' = [job EXCEPT ![s] = [job[s] EXCEPT !.pend = NoPend]]
    BY <1>2
  <2> QED BY <2>1, <2>2 DEF IInv, Spares
<1> QED BY <1>2, <1>5, <1>6 DEF IInv

LEMMA EndKeeps ==
  ASSUME IInv, NEW s \in Sessions, Commit(s) \/ Fails(s)  PROVE IInv'
<1>1. /\ db' \in [Ids -> Row] /\ AtTop(db'[Inbox]) /\ \A b \in Bookmarks : Homed(db'[b])
  BY Viewed DEF IInv, Commit, Fails
<1>2. /\ tx' \in [Sessions -> [Ids -> Row \cup {Untouched}]]
      /\ \A t \in Sessions : /\ tx'[t][Inbox] = Untouched \/ AtTop(tx'[t][Inbox])
                             /\ \A b \in Bookmarks : Homed(tx'[t][b])
  <2>1. tx' = [tx EXCEPT ![s] = [i \in Ids |-> Untouched]]
    BY DEF Commit, Fails
  <2>2. Homed(Untouched)
    BY DEF Homed, Untouched, Stored
  <2> QED BY <2>1, <2>2, IdKinds DEF IInv
<1>3. job' \in [Sessions -> Job] /\ \A t \in Sessions : Spares(job'[t])
  <2>1. job' = [job EXCEPT ![s] = Idle]
    BY DEF Commit, Fails
  <2> QED BY <2>1, IdleOK DEF IInv, Spares
<1>4. result' \in [Restores -> {"running", "ok", "failed"}]
  BY DEF IInv, Commit, Fails, Ended
<1> QED BY <1>1, <1>2, <1>3, <1>4 DEF IInv, Commit, Fails

LEMMA ThirtyDaysKeeps ==
  ASSUME IInv, ThirtyDays  PROVE IInv'
<1>1. /\ db' \in [Ids -> Row] /\ AtTop(db'[Inbox]) /\ \A b \in Bookmarks : Homed(db'[b])
  BY IdKinds DEF IInv, ThirtyDays, Older, Row, State, AtTop, Homed, Stored
<1> QED BY <1>1 DEF IInv, ThirtyDays

-----------------------------------------------------------------------------
\* The theorems

LEMMA StepKeeps == IInv /\ [Next]_vars => IInv'
<1> SUFFICES ASSUME IInv, [Next]_vars PROVE IInv'
  OBVIOUS
<1>1. CASE UNCHANGED vars
  BY <1>1 DEF IInv, vars
<1>2. CASE Next
  BY <1>2, BeginKeeps, BeginReplaceKeeps, ReadOnKeeps, FlushKeeps, EndKeeps, ThirtyDaysKeeps DEF Next
<1> QED BY <1>1, <1>2

LEMMA Invariant == Spec => []IInv
BY InitHolds, StepKeeps, PTL DEF Spec

\* Rows and what sessions are about to do have their types, and no bookmark that is stored
\* is without a folder, however requests overlap.
THEOREM TypeCorrect == Spec => []TypeOK
<1>1. IInv => TypeOK
  BY DEF IInv, TypeOK, Homed
<1> QED BY <1>1, Invariant, PTL

\* No request, import or pass of the collector moves or deletes the system folder.
THEOREM InboxIsSafe == Spec => []InboxSafe
<1>1. IInv => InboxSafe
  BY IdKinds DEF IInv, InboxSafe, AtTop, Live
<1> QED BY <1>1, Invariant, PTL
-----------------------------------------------------------------------------
(* Trees of live folders. *)

\* The rows once the changes p are flushed; those that session s works on.
Written(v, p) == [i \in Ids |-> Apply(v[i], p[i])]
After(s) == Written(View(s), job[s].pend)

\* Live folders each of which is in another one of them.
Circle(v, S) == S # {} /\ S \subseteq Folders /\ \A f \in S : v[f].st = "live" /\ v[f].up \in S
NoCircle(v) == \A S \in SUBSET Folders : ~Circle(v, S)

\* A cascade trashes a folder when it pushes it: what is below a folder on the
\* stack, or a bookmark of the one popped last, still waits for it.
Cascades == {"cascade", "cascade_bookmarks"}
Waits(v, r, i) ==
  /\ r.op \in Cascades
  /\ \/ v[i].up \in r.stack
     \/ r.op = "cascade_bookmarks" /\ i \in Bookmarks /\ v[i].up = r.at

Placed(v, r) ==
  \A i \in Ids : v[i].st = "live" /\ v[i].up # Root => v[v[i].up].st = "live" \/ Waits(v, r, i)

\* The folder that a cascade is about stays live to its end: by then it is empty.
Emptied(v, r) ==
  r.op \in Cascades =>
    /\ r.top \in Folders
    /\ r.top \notin r.stack =>
         /\ LiveChildren(v, r.top) = {}
         /\ LiveIn(v, r.top) = {} \/ (r.op = "cascade_bookmarks" /\ r.at = r.top)

TreeOK(v) ==
  /\ NoCircle(v)
  /\ \A i \in Ids : v[i].st = "live" /\ v[i].up # Root => v[v[i].up].st = "live"

\* The rows v that a session sees, which is alone and at r.
Sound(v, r) ==
  /\ NoCircle(v) /\ Placed(v, r) /\ Emptied(v, r)
  /\ r.op = "reorder_bookmarks" => v[r.to].st = "live"
  /\ r.op = "gc_folders" => \A f \in r.todo : v[f].st # "live"

Alone ==
  /\ Sound(db, Idle)
  /\ \A s, t \in Sessions : job[s] # Idle /\ job[t] # Idle => s = t
  /\ \A s \in Sessions : job[s] # Idle => Sound(After(s), job[s])

TreeInv ==
  /\ IInv
  /\ \A s \in Sessions : /\ job[s] = Idle => Holds(s) = {}
                         /\ job[s].op = "idle" => job[s] = Idle
  /\ ~mixed => Alone

LEMMA QuietSound ==
  ASSUME NEW v, NEW r, r.op \notin Cascades
  PROVE  /\ Sound(v, r) => TreeOK(v)
         /\ TreeOK(v) /\ r.op \notin {"reorder_bookmarks", "gc_folders"} => Sound(v, r)
BY DEF Sound, TreeOK, Placed, Waits, Emptied

\* What the changes of a session make of the rows.
LEMMA NothingWritten ==
  ASSUME NEW v \in [Ids -> Row]  PROVE Written(v, NoPend) = v
BY DEF Written, NoPend, NoChange, Apply, Row

LEMMA WrittenRows ==
  ASSUME NEW v \in [Ids -> Row], NEW p \in [Ids -> Change]
  PROVE  Written(v, p) \in [Ids -> Row]
BY Applied DEF Written

LEMMA WrittenDown ==
  ASSUME NEW v \in [Ids -> Row], NEW ids, NEW c \in {Trashed, Removed}
  PROVE  LET w == Written(v, Pend(ids, c))
         IN  \A i \in Ids : /\ w[i].up = v[i].up
                            /\ w[i].st = IF i \in ids THEN c.st ELSE v[i].st
BY IdKinds DEF Written, Pend, Apply, Trashed, Removed, NoChange

LEMMA WrittenMove ==
  ASSUME NEW v \in [Ids -> Row], NEW x \in Ids, NEW p \in Folders \cup {Root}
  PROVE  \A w : w = Written(v, Pend({x}, Moved(v, x, p))) =>
            /\ w[x].up = p /\ w[x].st = v[x].st
            /\ \A i \in Ids \ {x} : w[i].up = v[i].up /\ w[i].st = v[i].st
BY IdKinds DEF Written, Pend, Apply, Moved, NoChange

\* Fewer live folders where they were make no circle.
LEMMA FewerLive ==
  ASSUME NEW v, NEW w, NoCircle(v),
         \A i \in Ids : w[i].up = v[i].up /\ (w[i].st = "live" => v[i].st = "live")
  PROVE  NoCircle(w)
BY IdKinds DEF NoCircle, Circle

\* Rows that are not live, and bookmarks, hold nothing up.
LEMMA DownSound ==
  ASSUME NEW v \in [Ids -> Row], TreeOK(v), NEW ids, NEW c \in {Trashed, Removed},
         \A f \in ids \cap Folders : v[f].st # "live"
  PROVE  TreeOK(Written(v, Pend(ids, c)))
<1> DEFINE w == Written(v, Pend(ids, c))
<1>1. \A i \in Ids : w[i].up = v[i].up /\ w[i].st = IF i \in ids THEN c.st ELSE v[i].st
  BY WrittenDown
<1>2. c.st # "live"
  BY DEF Trashed, Removed
<1> HIDE DEF w
<1>3. NoCircle(w)
  BY <1>1, <1>2, FewerLive DEF TreeOK
<1>4. ASSUME NEW i \in Ids, w[i].st = "live", w[i].up # Root PROVE w[w[i].up].st = "live"
  <2>1. v[i].st = "live" /\ v[i].up \in Folders /\ v[v[i].up].st = "live"
    BY <1>1, <1>2, <1>4 DEF TreeOK, Row
  <2> QED BY <1>1, <2>1, IdKinds
<1> QED BY <1>3, <1>4 DEF TreeOK, w

\* The folders that p is in, itself included, and f is none of them.
Apart(v, p, f) ==
  \E A \in SUBSET Folders :
    p \in A /\ f \notin A /\ \A g \in A : v[g].st = "live" => v[g].up \in A \cup {Root}
Fits(v, p, f) ==
  p = Root \/ p = v[f].up \/ (p \in Folders /\ v[p].st = "live" /\ Apart(v, p, f))

\* Moving a folder where it fits closes no circle: the circle would have a part
\* among the folders that the new parent is in.
LEMMA MoveFolderSound ==
  ASSUME NEW v \in [Ids -> Row], TreeOK(v), NEW f \in Folders, NEW p \in Folders \cup {Root},
         v[f].st = "live", Fits(v, p, f)
  PROVE  TreeOK(Written(v, Pend({f}, Moved(v, f, p))))
<1> USE IdKinds
<1> DEFINE w == Written(v, Pend({f}, Moved(v, f, p)))
<1>1. w[f].up = p /\ w[f].st = v[f].st /\ \A i \in Ids \ {f} : w[i].up = v[i].up /\ w[i].st = v[i].st
  <2>1. f \in Ids
    OBVIOUS
  <2> QED BY <2>1, WrittenMove
<1> HIDE DEF w
<1>2. p = Root \/ (p \in Folders /\ v[p].st = "live")
  BY DEF Fits, TreeOK, Row
<1>3. ASSUME NEW i \in Ids, w[i].st = "live", w[i].up # Root PROVE w[w[i].up].st = "live"
  <2>1. CASE i = f
    BY <1>1, <1>2, <1>3, <2>1
  <2>2. CASE i # f
    <3>1. v[i].st = "live" /\ v[i].up \in Folders /\ v[v[i].up].st = "live" /\ w[i].up = v[i].up
      BY <1>1, <1>3, <2>2 DEF TreeOK, Row
    <3> QED BY <1>1, <3>1
  <2> QED BY <2>1, <2>2
<1>4. NoCircle(w)
  <2>1. SUFFICES ASSUME NEW S \in SUBSET Folders, Circle(w, S) PROVE FALSE
    BY DEF NoCircle
  <2>2. S # {} /\ \A g \in S : v[g].st = "live" /\ w[g].up \in S /\ (g # f => v[g].up \in S)
    BY <1>1, <2>1 DEF Circle
  <2>3. f \in S /\ p \in S
    <3>1. f \notin S => Circle(v, S)
      BY <2>2 DEF Circle
    <3> QED BY <1>1, <2>2, <3>1 DEF NoCircle, TreeOK
  <2>4. CASE p = v[f].up
    BY <2>2, <2>3, <2>4 DEF Circle, NoCircle, TreeOK
  <2>5. CASE Apart(v, p, f)
    <3>1. PICK A \in SUBSET Folders :
            p \in A /\ f \notin A /\ \A g \in A : v[g].st = "live" => v[g].up \in A \cup {Root}
      BY <2>5 DEF Apart
    <3>2. Circle(v, S \cap A)
      BY <2>2, <2>3, <3>1 DEF Circle
    <3> QED BY <3>2 DEF NoCircle, TreeOK
  <2> QED BY <2>3, <2>4, <2>5 DEF Fits
<1> QED BY <1>3, <1>4 DEF TreeOK, w

\* A bookmark goes to a live folder.
LEMMA MoveBookmarkSound ==
  ASSUME NEW v \in [Ids -> Row], TreeOK(v), NEW b \in Bookmarks, NEW p \in Folders,
         v[p].st = "live", NEW c \in {Moved(v, b, p), Inserted(p)}
  PROVE  /\ TreeOK(Written(v, Pend({b}, c)))
         /\ Written(v, Pend({b}, c))[p].st = "live"
<1> USE IdKinds
<1> DEFINE w == Written(v, Pend({b}, c))
<1>1. w[b].up = p /\ \A i \in Ids \ {b} : w[i].up = v[i].up /\ w[i].st = v[i].st
  <2>1. b \in Ids /\ p \in Folders \cup {Root}
    OBVIOUS
  <2>2. CASE c = Moved(v, b, p)
    <3>1. w = Written(v, Pend({b}, Moved(v, b, p)))
      BY <2>2
    <3> HIDE DEF w
    <3> QED BY <2>1, <3>1, WrittenMove
  <2>3. CASE c = Inserted(p)
    <3>1. w = Written(v, Pend({b}, Inserted(p)))
      BY <2>3
    <3> HIDE DEF w
    <3> QED BY <2>1, <3>1 DEF Written, Pend, Apply, Inserted, NoChange
  <2> QED BY <2>2, <2>3
<1> HIDE DEF w
<1>2. b \notin Folders
  OBVIOUS
<1>3. NoCircle(w)
  BY <1>1, <1>2 DEF NoCircle, Circle, TreeOK
<1>4. ASSUME NEW i \in Ids, w[i].st = "live", w[i].up # Root PROVE w[w[i].up].st = "live"
  <2>1. CASE i = b
    BY <1>1, <1>2, <2>1
  <2>2. CASE i # b
    <3>1. v[i].st = "live" /\ v[i].up \in Folders /\ v[v[i].up].st = "live" /\ w[i].up = v[i].up
      BY <1>1, <1>4, <2>2 DEF TreeOK, Row
    <3> QED BY <1>1, <1>2, <3>1
  <2> QED BY <2>1, <2>2
<1> QED BY <1>1, <1>2, <1>3, <1>4 DEF TreeOK, w

\* A new folder is at the top, or has nothing in it yet.
LEMMA InsertFolderSound ==
  ASSUME NEW v \in [Ids -> Row], TreeOK(v), NEW f \in Folders, NEW p \in Folders \cup {Root},
         p = Root \/ (v[p].st = "live" /\ v[f].st # "live")
  PROVE  TreeOK(Written(v, Pend({f}, Inserted(p))))
<1> USE IdKinds
<1> DEFINE w == Written(v, Pend({f}, Inserted(p)))
<1>1. w[f].up = p /\ w[f].st = "live" /\ \A i \in Ids \ {f} : w[i].up = v[i].up /\ w[i].st = v[i].st
  BY DEF Written, Pend, Apply, Inserted, NoChange
<1> HIDE DEF w
<1>2. ASSUME NEW i \in Ids, w[i].st = "live", w[i].up # Root PROVE w[w[i].up].st = "live"
  <2>1. CASE i = f
    BY <1>1, <1>2, <2>1
  <2>2. CASE i # f
    <3>1. v[i].st = "live" /\ v[i].up \in Folders /\ v[v[i].up].st = "live" /\ w[i].up = v[i].up
      BY <1>1, <1>2, <2>2 DEF TreeOK, Row
    <3> QED BY <1>1, <3>1
  <2> QED BY <2>1, <2>2
<1>3. NoCircle(w)
  <2>1. SUFFICES ASSUME NEW S \in SUBSET Folders, Circle(w, S) PROVE FALSE
    BY DEF NoCircle
  <2>2. S # {} /\ \A g \in S : w[g].st = "live" /\ w[g].up \in S
    BY <2>1 DEF Circle
  <2>3. CASE f \notin S
    <3>1. Circle(v, S)
      BY <1>1, <2>2, <2>3 DEF Circle
    <3> QED BY <3>1 DEF TreeOK, NoCircle
  <2>4. CASE f \in S
    <3>1. p \in S /\ p # f /\ v[f].st # "live"
      BY <1>1, <2>2, <2>4
    <3>2. \A g \in S \ {f} : v[g].st = "live" /\ v[g].up \in S \ {f}
      BY <1>1, <2>2, <3>1 DEF TreeOK
    <3>3. Circle(v, S \ {f})
      BY <3>1, <3>2 DEF Circle
    <3> QED BY <3>3 DEF TreeOK, NoCircle
  <2> QED BY <2>3, <2>4
<1> QED BY <1>2, <1>3 DEF TreeOK, w

\* Deleting a folder and keeping what is in it: a circle of the folders that take
\* its place would be one with the folder itself.
LEMMA RehomeSound ==
  ASSUME NEW v \in [Ids -> Row], NEW w, TreeOK(v), AtTop(v[Inbox]), NEW f \in Folders \ {Inbox},
         v[f].st = "live", \A b \in Bookmarks : Homed(v[b]),
         NEW up \in Folders \cup {Root}, up \in {Inbox, v[f].up}, NEW bup \in Folders,
         bup = Inbox \/ (bup = v[f].up /\ up = bup),
         w[f].st = "trash",
         \A i \in Ids \ {f} : /\ w[i].st = v[i].st
                              /\ w[i].up = IF i \in LiveChildren(v, f) THEN up
                                           ELSE IF i \in LiveIn(v, f) THEN bup ELSE v[i].up
  PROVE  TreeOK(w)
<1> USE IdKinds
<1>1. f \notin LiveChildren(v, f) /\ v[f].up # f
  <2>1. ~Circle(v, {f})
    BY DEF TreeOK, NoCircle
  <2> QED BY <2>1 DEF LiveChildren, Circle
<1>2. v[Inbox].st = "live" /\ v[Inbox].up = Root /\ w[Inbox].st = "live" /\ w[Inbox].up = Root
  BY DEF AtTop, LiveChildren, LiveIn
<1>3. /\ up # Root => up \in Folders \ {f} /\ v[up].st = "live"
      /\ bup \in Folders \ {f} /\ v[bup].st = "live"
  BY <1>1, <1>2 DEF TreeOK, Row
<1>4. ASSUME NEW i \in Ids, w[i].st = "live", w[i].up # Root PROVE w[w[i].up].st = "live"
  <2>1. i # f /\ v[i].st = "live" /\ v[i].up \in Folders \cup {Root}
    BY <1>4 DEF Row
  <2>2. CASE i \in LiveChildren(v, f) \cup LiveIn(v, f)
    BY <1>3, <1>4, <2>1, <2>2
  <2>3. CASE i \notin LiveChildren(v, f) \cup LiveIn(v, f)
    <3>1. w[i].up = v[i].up /\ v[i].up \in Folders \ {f}
      BY <1>4, <2>1, <2>3 DEF LiveChildren, LiveIn, Ids
    <3> QED BY <2>1, <3>1 DEF TreeOK
  <2> QED BY <2>2, <2>3
<1>5. NoCircle(w)
  <2>1. SUFFICES ASSUME NEW S \in SUBSET Folders, Circle(w, S) PROVE FALSE
    BY DEF NoCircle
  <2>2. S # {} /\ \A g \in S : w[g].st = "live" /\ w[g].up \in S
    BY <2>1 DEF Circle
  <2>3. \A g \in S : g # f /\ v[g].st = "live" /\ v[g].up \in S \cup {f}
    BY <2>2 DEF LiveChildren, LiveIn
  <2>4. CASE S \cap LiveChildren(v, f) = {}
    <3>1. Circle(v, S)
      BY <2>2, <2>3, <2>4 DEF Circle, LiveIn
    <3> QED BY <3>1 DEF TreeOK, NoCircle
  <2>5. CASE S \cap LiveChildren(v, f) # {}
    <3>1. up \in S
      BY <2>2, <2>3, <2>5
    <3>2. up = v[f].up
      BY <1>2, <2>2, <3>1
    <3>3. Circle(v, S \cup {f})
      BY <2>3, <3>1, <3>2 DEF Circle
    <3> QED BY <3>3 DEF TreeOK, NoCircle
  <2> QED BY <2>4, <2>5
<1> QED BY <1>4, <1>5 DEF TreeOK

\* One turn of a cascade: what it pushes is trashed with its children to follow.
LEMMA CascadePopSound ==
  ASSUME NEW v \in [Ids -> Row], NEW r, Sound(v, r), AtTop(v[Inbox]),
         r.op = "cascade", r.stack \subseteq Folders, NEW f \in r.stack,
         NEW q, q.op = "cascade_bookmarks", q.at = f, q.top = r.top,
         q.stack = (r.stack \ {f}) \cup Kids(v, f)
  PROVE  Sound(Written(v, Pend(Kids(v, f), Trashed)), q)
<1> USE IdKinds DEF Cascades
<1> DEFINE kids == Kids(v, f)
           w == Written(v, Pend(kids, Trashed))
<1>1. \A i \in Ids : w[i].up = v[i].up /\ w[i].st = IF i \in kids THEN "trash" ELSE v[i].st
  BY WrittenDown DEF Trashed
<1>2. kids = LiveChildren(v, f)
  BY DEF Kids, LiveChildren, AtTop
<1> HIDE DEF w, kids
<1>3. NoCircle(w)
  BY <1>1, FewerLive DEF Sound
<1>4. Placed(w, q)
  <2> SUFFICES ASSUME NEW i \in Ids, w[i].st = "live", w[i].up # Root,
                      ~(w[i].up \in (r.stack \ {f}) \cup kids),
                      ~(i \in Bookmarks /\ w[i].up = f)
               PROVE  w[w[i].up].st = "live"
    BY DEF Placed, Waits, kids
  <2>1. v[i].st = "live" /\ i \notin kids /\ w[i].up = v[i].up /\ v[i].up \in Folders
    BY <1>1 DEF Row
  <2>2. v[i].up # f
    BY <1>2, <2>1 DEF LiveChildren, Ids
  <2>3. v[v[i].up].st = "live"
    BY <2>1, <2>2 DEF Sound, Placed, Waits
  <2> QED BY <1>1, <2>1, <2>3
<1>5. Emptied(w, q)
  <2>1. r.top \in Folders /\ (r.top \notin r.stack => LiveChildren(v, r.top) = {} /\ LiveIn(v, r.top) = {})
    BY DEF Sound, Emptied
  <2>2. LiveChildren(w, r.top) \subseteq LiveChildren(v, r.top) \ kids /\ LiveIn(w, r.top) \subseteq LiveIn(v, r.top)
    BY <1>1 DEF LiveChildren, LiveIn
  <2>3. CASE r.top = f
    BY <1>2, <2>1, <2>2, <2>3 DEF Emptied
  <2>4. CASE r.top # f
    BY <2>1, <2>2, <2>4 DEF Emptied
  <2> QED BY <2>3, <2>4
<1> QED BY <1>3, <1>4, <1>5 DEF Sound, w, kids

LEMMA CascadeBookmarksSound ==
  ASSUME NEW v \in [Ids -> Row], NEW r, Sound(v, r), r.op = "cascade_bookmarks",
         NEW q, q.op = "cascade", q.top = r.top, q.stack = r.stack
  PROVE  Sound(Written(v, Pend(LiveIn(v, r.at), Trashed)), q)
<1> USE IdKinds DEF Cascades
<1> DEFINE ids == LiveIn(v, r.at)
           w == Written(v, Pend(ids, Trashed))
<1>1. \A i \in Ids : w[i].up = v[i].up /\ w[i].st = IF i \in ids THEN "trash" ELSE v[i].st
  BY WrittenDown DEF Trashed
<1>2. ids \subseteq Bookmarks /\ \A b \in Bookmarks : v[b].st = "live" /\ v[b].up = r.at => b \in ids
  BY DEF LiveIn
<1> HIDE DEF w, ids
<1>3. NoCircle(w)
  BY <1>1, FewerLive DEF Sound
<1>4. Placed(w, q)
  <2> SUFFICES ASSUME NEW i \in Ids, w[i].st = "live", w[i].up # Root, w[i].up \notin r.stack
               PROVE  w[w[i].up].st = "live"
    BY DEF Placed, Waits
  <2>1. v[i].st = "live" /\ i \notin ids /\ w[i].up = v[i].up /\ v[i].up \in Folders
    BY <1>1 DEF Row
  <2>2. v[v[i].up].st = "live"
    BY <1>2, <2>1 DEF Sound, Placed, Waits
  <2> QED BY <1>1, <1>2, <2>1, <2>2
<1>5. Emptied(w, q)
  <2>1. /\ r.top \in Folders
        /\ r.top \notin r.stack => LiveChildren(v, r.top) = {} /\ (LiveIn(v, r.top) = {} \/ r.at = r.top)
    BY DEF Sound, Emptied
  <2>2. LiveChildren(w, r.top) \subseteq LiveChildren(v, r.top) /\ LiveIn(w, r.top) \subseteq LiveIn(v, r.top) \ ids
    BY <1>1 DEF LiveChildren, LiveIn
  <2>3. r.at = r.top => LiveIn(v, r.top) = ids
    BY DEF ids
  <2> QED BY <2>1, <2>2, <2>3 DEF Emptied
<1> QED BY <1>3, <1>4, <1>5 DEF Sound, w, ids

LEMMA CascadeEndSound ==
  ASSUME NEW v \in [Ids -> Row], NEW r, Sound(v, r), r.op = "cascade", r.stack = {}
  PROVE  TreeOK(Written(v, Pend({r.top}, Trashed)))
<1> USE IdKinds DEF Cascades
<1> DEFINE w == Written(v, Pend({r.top}, Trashed))
<1>1. \A i \in Ids : w[i].up = v[i].up /\ w[i].st = IF i \in {r.top} THEN "trash" ELSE v[i].st
  BY WrittenDown DEF Trashed
<1> HIDE DEF w
<1>2. NoCircle(w)
  BY <1>1, FewerLive DEF Sound
<1>3. r.top \in Folders /\ LiveChildren(v, r.top) = {} /\ LiveIn(v, r.top) = {}
  BY DEF Sound, Emptied
<1>4. ASSUME NEW i \in Ids, w[i].st = "live", w[i].up # Root PROVE w[w[i].up].st = "live"
  <2>1. v[i].st = "live" /\ w[i].up = v[i].up /\ v[i].up \in Folders
    BY <1>1, <1>4 DEF Row
  <2>2. v[v[i].up].st = "live"
    BY <1>4, <2>1 DEF Sound, Placed, Waits
  <2>3. v[i].up # r.top
    BY <1>3, <2>1 DEF LiveChildren, LiveIn, Ids
  <2> QED BY <1>1, <2>1, <2>2, <2>3
<1> QED BY <1>2, <1>4 DEF TreeOK, w

-----------------------------------------------------------------------------
(* Walks up the tree. *)

\* What holds of 0, and of n + 1 when it holds of n, holds of every natural number.
LEMMA SetInduction ==
  \A S : 0 \in S /\ (\A n \in Nat : n \in S => n + 1 \in S) => Nat \subseteq S
<1> SUFFICES ASSUME NEW S, 0 \in S, \A n \in Nat : n \in S => n + 1 \in S
             PROVE  Nat \subseteq S
  OBVIOUS
<1> DEFINE T == {n \in Nat : n \notin S}
<1>1. ASSUME T # {} PROVE FALSE
  <2>1. PICK x \in T : \A y \in T : ~ (<<y, x>> \in OpToRel(<, Nat))
    BY <1>1, NatLessThanWellFounded, WFMin
  <2>2. \A y \in T : ~ (y < x)
    BY <2>1 DEF OpToRel
  <2> QED BY <2>2
<1> QED BY <1>1

\* The first n steps of a walk that starts at x and goes on by the function next.
Steps(next, X, x, n) ==
  {w \in [0..n -> X] : w[0] = x /\ \A i \in 0..(n - 1) : w[i + 1] = next[w[i]]}

LEMMA StepsExist ==
  ASSUME NEW X, NEW next \in [X -> X], NEW x \in X
  PROVE  \A n \in Nat : Steps(next, X, x, n) # {}
<1> DEFINE S == {n \in Nat : Steps(next, X, x, n) # {}}
<1>1. 0 \in S
  <2>1. [i \in 0..0 |-> x] \in Steps(next, X, x, 0)
    BY DEF Steps
  <2> QED BY <2>1
<1>2. ASSUME NEW n \in Nat, n \in S PROVE n + 1 \in S
  <2>1. PICK w \in [0..n -> X] : w[0] = x /\ \A i \in 0..(n - 1) : w[i + 1] = next[w[i]]
    BY <1>2 DEF Steps
  <2> DEFINE v == [i \in 0..(n + 1) |-> IF i = n + 1 THEN next[w[n]] ELSE w[i]]
  <2>2. v \in [0..(n + 1) -> X] /\ v[0] = x
    BY <2>1
  <2>3. ASSUME NEW i \in 0..n PROVE v[i + 1] = next[v[i]]
    <3>1. CASE i = n
      BY <3>1
    <3>2. CASE i # n
      BY <2>1, <3>2
    <3> QED BY <3>1, <3>2
  <2>4. (n + 1) - 1 = n
    OBVIOUS
  <2>5. v \in Steps(next, X, x, n + 1)
    BY <2>2, <2>3, <2>4 DEF Steps
  <2> QED BY <2>5
<1> HIDE DEF S
<1>3. Nat \subseteq S
  BY <1>1, <1>2, SetInduction
<1> QED BY <1>3 DEF S

LEMMA StepsAgree ==
  ASSUME NEW X, NEW next \in [X -> X], NEW x \in X,
         NEW m \in Nat, NEW n \in Nat, m <= n,
         NEW v \in Steps(next, X, x, m), NEW w \in Steps(next, X, x, n)
  PROVE  \A i \in 0..m : v[i] = w[i]
<1> DEFINE S == {i \in Nat : i <= m => v[i] = w[i]}
<1>1. 0 \in S
  BY DEF Steps
<1>2. ASSUME NEW i \in Nat, i \in S PROVE i + 1 \in S
  <2>1. CASE i + 1 <= m
    <3>1. i \in 0..(m - 1) /\ i \in 0..(n - 1) /\ v[i] = w[i]
      BY <1>2, <2>1
    <3>2. v[i + 1] = next[v[i]] /\ w[i + 1] = next[w[i]]
      BY <3>1 DEF Steps
    <3> QED BY <3>1, <3>2
  <2> QED BY <2>1
<1> HIDE DEF S
<1>3. Nat \subseteq S
  BY <1>1, <1>2, SetInduction
<1> QED BY <1>3 DEF S

IsWalk(walk, next, X, x) ==
  walk \in [Nat -> X] /\ \A n \in Nat : walk[n] = IF n = 0 THEN x ELSE next[walk[n - 1]]

LEMMA WalkExists ==
  \A X, next, x : next \in [X -> X] /\ x \in X => \E walk : IsWalk(walk, next, X, x)
<1> SUFFICES ASSUME NEW X, NEW next \in [X -> X], NEW x \in X
             PROVE  \E walk : IsWalk(walk, next, X, x)
  OBVIOUS
<1> DEFINE W(n) == CHOOSE w \in Steps(next, X, x, n) : TRUE
<1>1. \A n \in Nat : W(n) \in Steps(next, X, x, n)
  BY StepsExist
<1> DEFINE walk == [n \in Nat |-> W(n)[n]]
<1>2. ASSUME NEW n \in Nat PROVE W(n)[n] \in X
  <2>1. W(n) \in [0..n -> X]
    <3> HIDE DEF W
    <3> QED BY <1>1 DEF Steps
  <2> HIDE DEF W
  <2> QED BY <2>1
<1>3. W(0)[0] = x
  BY <1>1 DEF Steps
<1>4. ASSUME NEW n \in Nat, n # 0 PROVE W(n)[n] = next[W(n - 1)[n - 1]]
  <2>1. n - 1 \in Nat /\ n - 1 <= n /\ n - 1 \in 0..(n - 1) /\ (n - 1) + 1 = n
    BY <1>4
  <2>2. W(n) \in Steps(next, X, x, n) /\ W(n - 1) \in Steps(next, X, x, n - 1)
    BY <1>1, <2>1
  <2> HIDE DEF W
  <2>3. W(n - 1)[n - 1] = W(n)[n - 1]
    BY <2>1, <2>2, StepsAgree
  <2>4. W(n)[(n - 1) + 1] = next[W(n)[n - 1]]
    BY <2>1, <2>2 DEF Steps
  <2> QED BY <2>1, <2>3, <2>4
<1> HIDE DEF W
<1>5. walk \in [Nat -> X]
  BY <1>2
<1>6. \A n \in Nat : walk[n] = IF n = 0 THEN x ELSE next[walk[n - 1]]
  BY <1>3, <1>4
<1> HIDE DEF walk
<1> QED BY <1>5, <1>6 DEF IsWalk

\* Where the walk goes from a folder.
Above(v, f) == IF f # Root /\ v[f].st \in Stored THEN v[f].up ELSE Root

LEMMA WalkUp ==
  ASSUME NEW v \in [Ids -> Row], NEW f \in Folders \cup {Root}
  PROVE  /\ Up(v, f) \in [Nat -> Folders \cup {Root}]
         /\ Up(v, f)[0] = f
         /\ \A n \in Nat : Up(v, f)[n + 1] = Above(v, Up(v, f)[n])
<1> DEFINE X == Folders \cup {Root}
           next == [g \in X |-> Above(v, g)]
<1>1. next \in [X -> X]
  BY IdKinds DEF Row, Above
<1>2. PICK walk : IsWalk(walk, next, X, f)
  <2>1. f \in X
    OBVIOUS
  <2> HIDE DEF next, X
  <2> QED BY <1>1, <2>1, WalkExists
<1>3. walk \in [Nat -> X] /\ \A n \in Nat : walk[n] = IF n = 0 THEN f ELSE next[walk[n - 1]]
  <2> HIDE DEF next, X
  <2> QED BY <1>2 DEF IsWalk
<1>4. ASSUME NEW n \in Nat PROVE walk[n] = IF n = 0 THEN f ELSE Above(v, walk[n - 1])
  <2>1. n # 0 => walk[n - 1] \in X
    BY <1>3
  <2>2. \A g \in X : next[g] = Above(v, g)
    OBVIOUS
  <2> HIDE DEF X, next
  <2> QED BY <1>3, <2>1, <2>2
<1>5. walk = [n \in Nat |-> IF n = 0 THEN f
                            ELSE LET g == walk[n - 1]
                                 IN IF g # Root /\ v[g].st \in Stored THEN v[g].up ELSE Root]
  BY <1>3, <1>4 DEF Above
<1>6. Up(v, f) = [n \in Nat |-> IF n = 0 THEN f
                            ELSE LET g == Up(v, f)[n - 1]
                                 IN IF g # Root /\ v[g].st \in Stored THEN v[g].up ELSE Root]
  BY <1>5 DEF Up
<1>7. \A n \in Nat : Up(v, f)[n] = IF n = 0 THEN f ELSE Above(v, Up(v, f)[n - 1])
  BY <1>6 DEF Above
<1>8. Up(v, f)[0] = f /\ \A n \in Nat : Up(v, f)[n + 1] = Above(v, Up(v, f)[n])
  BY <1>7
<1> DEFINE S == {n \in Nat : Up(v, f)[n] \in X}
<1>9. 0 \in S /\ \A n \in Nat : n \in S => n + 1 \in S
  BY <1>1, <1>8
<1> HIDE DEF S
<1>10. Nat \subseteq S
  BY <1>9, SetInduction
<1>11. \A n \in Nat : Up(v, f)[n] \in X
  BY <1>10 DEF S
<1> HIDE DEF X, next
<1>12. Up(v, f) = [n \in Nat |-> Up(v, f)[n]]
  BY <1>6
<1> QED BY <1>8, <1>11, <1>12 DEF X

\* What the walks of _depth and _assert_not_descendant do not meet is no folder
\* above.
LEMMA MayMoveFits ==
  ASSUME NEW v \in [Ids -> Row], NEW p \in Folders \cup {Root}, NEW f \in Folders, MayMove(v, f, p)
  PROVE  Fits(v, p, f)
<1> USE ModeAssumption, IdKinds
<1> SUFFICES ASSUME p # Root PROVE v[p].st = "live" /\ Apart(v, p, f)
  BY DEF Fits
<1> DEFINE A == {Up(v, p)[i] : i \in 0..MaxDepth} \ {Root}
<1>1. /\ Up(v, p) \in [Nat -> Folders \cup {Root}] /\ Up(v, p)[0] = p
      /\ \A n \in Nat : Up(v, p)[n + 1] = Above(v, Up(v, p)[n])
  BY WalkUp
<1>2. v[p].st = "live" /\ Up(v, p)[MaxDepth] = Root /\ \A i \in 0..MaxDepth : Up(v, p)[i] # f
  BY DEF MayMove, MayHold, Live, DepthOk, NotDescendant
<1>3. p \in A /\ f \notin A /\ A \in SUBSET Folders
  BY <1>1, <1>2
<1>4. ASSUME NEW g \in A, v[g].st = "live" PROVE v[g].up \in A \cup {Root}
  <2>1. PICK i \in 0..MaxDepth : g = Up(v, p)[i]
    OBVIOUS
  <2>2. i + 1 \in 0..MaxDepth /\ i \in Nat
    BY <1>2, <2>1
  <2>3. Up(v, p)[i + 1] = v[g].up
    BY <1>1, <1>4, <2>1, <2>2 DEF Above, Stored
  <2> QED BY <2>2, <2>3
<1> HIDE DEF A
<1> QED BY <1>2, <1>3, <1>4 DEF Apart

\* Among as many folders as there are, a walk that goes on meets one twice.
LEMMA TreeEnds ==
  ASSUME NEW v \in [Ids -> Row], TreeOK(v), IsFiniteSet(Folders), NEW f \in Folders, v[f].st = "live"
  PROVE  Up(v, f)[Cardinality(Folders)] = Root
<1> DEFINE N == Cardinality(Folders)
           u == Up(v, f)
<1>1. N \in Nat
  BY FS_CardinalityType
<1>2. SUFFICES ASSUME u[N] # Root PROVE FALSE
  OBVIOUS
<1>3. /\ u \in [Nat -> Folders \cup {Root}] /\ u[0] = f
      /\ \A n \in Nat : u[n + 1] = Above(v, u[n])
  BY WalkUp
<1> HIDE DEF N, u
\* Whatever the walk meets is live, and it stays at the top.
<1>4. \A n \in Nat : u[n] # Root => v[u[n]].st = "live"
  <2> DEFINE S == {n \in Nat : u[n] # Root => v[u[n]].st = "live"}
  <2>1. 0 \in S
    BY <1>3
  <2>2. ASSUME NEW n \in Nat, n \in S PROVE n + 1 \in S
    <3>1. CASE u[n] = Root
      BY <1>3, <3>1 DEF Above
    <3>2. CASE u[n] # Root
      BY <1>3, <2>2, <3>2, IdKinds DEF Above, Stored, TreeOK
    <3> QED BY <3>1, <3>2
  <2> HIDE DEF S
  <2>3. Nat \subseteq S
    BY <2>1, <2>2, SetInduction
  <2> QED BY <2>3 DEF S
<1>5. \A i \in 0..N : u[i] # Root
  <2> SUFFICES ASSUME NEW i \in 0..N, u[i] = Root PROVE FALSE
    OBVIOUS
  <2> DEFINE S == {k \in Nat : u[i + k] = Root}
  <2>1. 0 \in S
    BY <1>1
  <2>2. ASSUME NEW k \in Nat, k \in S PROVE k + 1 \in S
    <3>1. i + k \in Nat /\ (i + k) + 1 = i + (k + 1)
      BY <1>1
    <3> QED BY <1>3, <2>2, <3>1 DEF Above
  <2> HIDE DEF S
  <2>3. Nat \subseteq S
    BY <2>1, <2>2, SetInduction
  <2>4. N - i \in S /\ i + (N - i) = N
    BY <1>1, <2>3
  <2> QED BY <1>2, <2>4 DEF S
<1> DEFINE w == [i \in 0..N |-> u[i]]
<1>6. w \in [0..N -> Folders]
  BY <1>1, <1>3, <1>5
<1>7. IsFiniteSet(0..N) /\ Cardinality(0..N) = N + 1 /\ N < N + 1
  BY <1>1, FS_Interval
<1>8. PICK i \in 0..N, j \in 0..N : i # j /\ u[i] = u[j]
  <2> HIDE DEF w
  <2>1. \E i \in 0..N, j \in 0..N : i # j /\ w[i] = w[j]
    BY <1>6, <1>7, FS_PigeonHole DEF N
  <2> QED BY <2>1 DEF w
<1>9. ASSUME NEW a \in 0..N, NEW b \in 0..N, a < b, u[a] = u[b] PROVE FALSE
  <2> DEFINE S == {u[k] : k \in a..(b - 1)}
  <2>1. S # {}
    BY <1>1, <1>9
  <2>2. ASSUME NEW k \in a..(b - 1)
        PROVE  u[k] \in Folders /\ v[u[k]].st = "live" /\ v[u[k]].up \in S
    <3>1. k \in 0..N /\ k + 1 \in 0..N /\ k \in Nat
      BY <1>1, <2>2
    <3>2. u[k] # Root /\ u[k + 1] # Root /\ u[k + 1] = Above(v, u[k]) /\ u[k] \in Folders
      BY <1>3, <1>5, <3>1
    <3>3. v[u[k]].st = "live" /\ v[u[k]].up = u[k + 1]
      BY <1>4, <3>1, <3>2 DEF Above, Stored
    <3>4. u[k + 1] \in S
      <4>1. CASE k + 1 = b
        <5>1. a \in a..(b - 1)
          BY <1>1, <1>9
        <5> QED BY <1>9, <4>1, <5>1
      <4>2. CASE k + 1 # b
        <5>1. k + 1 \in a..(b - 1)
          BY <1>1, <2>2, <4>2
        <5> QED BY <5>1
      <4> QED BY <4>1, <4>2
    <3> QED BY <3>2, <3>3, <3>4
  <2>3. Circle(v, S)
    BY <2>1, <2>2 DEF Circle
  <2> QED BY <2>3 DEF TreeOK, NoCircle, Circle
<1>10. i < j \/ j < i
  BY <1>1, <1>8
<1> QED BY <1>8, <1>9, <1>10

-----------------------------------------------------------------------------
(* One step of a session that is alone. *)

LEMMA GoesTree ==
  ASSUME TreeInv, IInv', NEW s \in Sessions, NEW r, Goes(s, r), r.op # "idle",
         job[s].pend = NoPend, job[s] # Idle,
         Sound(View(s), job[s]) => Sound(Written(View(s), r.pend), r)
  PROVE  TreeInv'
<1>1. job' = [job EXCEPT ![s] = r] /\ UNCHANGED <<db, tx, mixed>>
  BY DEF Goes
<1>2. View(s)' = View(s) /\ \A t \in Sessions : Holds(t)' = Holds(t)
  BY <1>1 DEF View, Holds
<1>3. job'[s] = r /\ \A t \in Sessions \ {s} : job'[t] = job[t]
  BY <1>1 DEF IInv, TreeInv
<1>4. r # Idle
  BY DEF Idle
<1>5. /\ \A t \in Sessions : job'[t] = Idle => Holds(t)' = {}
      /\ \A t \in Sessions : job'[t].op = "idle" => job'[t] = Idle
  BY <1>2, <1>3, <1>4 DEF TreeInv
<1>6. ASSUME ~mixed PROVE Alone'
  <2>1. Alone
    BY <1>6 DEF TreeInv
  <2>2. \A t \in Sessions \ {s} : job'[t] = Idle
    BY <1>3, <2>1 DEF Alone
  <2>3. After(s) = View(s)
    BY Viewed, NothingWritten DEF After, TreeInv
  <2>4. Sound(After(s), job[s])
    BY <2>1 DEF Alone
  <2>5. After(s)' = Written(View(s), r.pend)
    BY <1>2, <1>3 DEF After, Written
  <2>6. Sound(After(s)', r)
    BY <2>3, <2>4, <2>5
  <2>7. Sound(After(s), job[s])'
    BY <1>3, <2>6 DEF Sound, NoCircle, Circle, Placed, Waits, Emptied, LiveChildren, LiveIn
  <2>8. Sound(db, Idle)'
    BY <1>1, <2>1 DEF Alone, Sound, NoCircle, Circle, Placed, Waits, Emptied, LiveChildren, LiveIn, Idle, Cascades, NoPend, NoChange
  <2> QED BY <2>2, <2>7, <2>8 DEF Alone
<1> QED BY <1>1, <1>5, <1>6 DEF TreeInv

LEMMA StartTree ==
  ASSUME TreeInv, IInv', NEW s \in Sessions, NEW r, Start(s, r), r.op # "idle",
         TreeOK(db) => Sound(Written(db, r.pend), r)
  PROVE  TreeInv'
<1>1. job[s] = Idle /\ job' = [job EXCEPT ![s] = r] /\ UNCHANGED <<db, tx>>
  BY DEF Start
<1>2. \A t \in Sessions : Holds(t)' = Holds(t)
  BY <1>1 DEF Holds
<1>3. job'[s] = r /\ \A t \in Sessions \ {s} : job'[t] = job[t]
  BY <1>1 DEF IInv, TreeInv
<1>4. r # Idle
  BY DEF Idle
<1>5. /\ \A t \in Sessions : job'[t] = Idle => Holds(t)' = {}
      /\ \A t \in Sessions : job'[t].op = "idle" => job'[t] = Idle
  BY <1>2, <1>3, <1>4 DEF TreeInv
<1>6. ASSUME ~mixed' PROVE Alone'
  <2>1. ~mixed /\ \A t \in Sessions \ {s} : job[t] = Idle
    BY <1>6 DEF Start, TreeInv, IInv
  <2>2. Sound(db, Idle)
    BY <2>1 DEF TreeInv, Alone
  <2>3. TreeOK(db)
    BY <2>2, QuietSound DEF Idle, Cascades
  <2>4. View(s)' = db
    BY <1>1 DEF View, Holds, TreeInv, IInv
  <2>5. After(s)' = Written(db, r.pend)
    BY <1>3, <2>4 DEF After, Written
  <2>6. Sound(After(s)', r)
    BY <2>3, <2>5
  <2>7. Sound(After(s), job[s])'
    BY <1>3, <2>6 DEF Sound, NoCircle, Circle, Placed, Waits, Emptied, LiveChildren, LiveIn
  <2>8. Sound(db, Idle)'
    BY <1>1, <2>2 DEF Sound, NoCircle, Circle, Placed, Waits, Emptied, LiveChildren, LiveIn, Idle, Cascades, NoPend, NoChange
  <2> QED BY <1>3, <2>1, <2>7, <2>8 DEF Alone
<1> QED BY <1>5, <1>6 DEF TreeInv

LEMMA BeginTree ==
  ASSUME TreeInv, IInv', NEW s \in Writers, Begin(s)  PROVE TreeInv'
<1> USE IdKinds DEF Cascades
<1>1. /\ s \in Sessions /\ FolderOf[s] \in Folders \ {Inbox} /\ BookmarkOf[s] \in Bookmarks
      /\ db \in [Ids -> Row] /\ AtTop(db[Inbox]) /\ \A b \in Bookmarks : Homed(db[b])
  BY IdsAssumption DEF Sessions, Origin, TreeInv, IInv
<1>2. \A r : /\ Start(s, r) /\ r.op \notin {"idle", "reorder_bookmarks", "gc_folders"} \cup Cascades
             /\ TreeOK(db) => TreeOK(Written(db, r.pend))
             => TreeInv'
  BY <1>1, StartTree, QuietSound
\* A request that begins with a list of ids has changed nothing yet.
<1>3. \A r : /\ Start(s, r) /\ r.op \notin {"idle", "reorder_bookmarks", "gc_folders"} \cup Cascades
             /\ r.pend = NoPend
             => TreeInv'
  BY <1>1, <1>2, NothingWritten
<1>4. CASE CreateFolder(s)
  <2>1. PICK p \in Folders \cup {Root} :
          /\ db[FolderOf[s]].st = "none" /\ MayHold(db, p)
          /\ Start(s, [Done EXCEPT !.pend = Pend({FolderOf[s]}, Inserted(p))])
    BY <1>4 DEF CreateFolder
  <2>2. PICK r : r = [Done EXCEPT !.pend = Pend({FolderOf[s]}, Inserted(p))]
    OBVIOUS
  <2>3. r.op = "done" /\ r.pend = Pend({FolderOf[s]}, Inserted(p)) /\ Start(s, r)
    BY <2>1, <2>2 DEF Done, Idle
  <2>4. TreeOK(db) => TreeOK(Written(db, r.pend))
    BY <1>1, <2>1, <2>3, InsertFolderSound DEF MayHold, Live
  <2> QED BY <1>2, <2>3, <2>4
<1>5. CASE UpdateFolder(s)
  <2>1. PICK f \in Folders, p \in Folders \cup {Root} :
          MayUpdate(f, p) /\ Start(s, [Done EXCEPT !.pend = Pend({f}, Moved(db, f, p))])
    BY <1>5 DEF UpdateFolder
  <2>2. PICK r : r = [Done EXCEPT !.pend = Pend({f}, Moved(db, f, p))]
    OBVIOUS
  <2>3. r.op = "done" /\ r.pend = Pend({f}, Moved(db, f, p)) /\ Start(s, r)
    BY <2>1, <2>2 DEF Done, Idle
  <2>4. db[f].st = "live" /\ Fits(db, p, f)
    BY <1>1, <2>1, MayMoveFits DEF MayUpdate, Live
  <2>5. TreeOK(db) => TreeOK(Written(db, r.pend))
    BY <1>1, <2>3, <2>4, MoveFolderSound
  <2> QED BY <1>2, <2>3, <2>5
<1>6. CASE DeleteFolder(s)
  <2>1. PICK f \in Folders \ {Inbox} :
          /\ db[f].st = "live"
          /\ \/ \E mode \in {"move_to_inbox", "move_to_parent"} :
                  Start(s, [Done EXCEPT !.pend =
                    [i \in Ids |-> IF i = f THEN Trashed
                                   ELSE IF i \in LiveChildren(db, f) THEN Moved(db, i, ChildrenTo(f, mode))
                                   ELSE IF i \in LiveIn(db, f) THEN Moved(db, i, BookmarksTo(f, mode))
                                   ELSE NoChange]])
             \/ Start(s, [Idle EXCEPT !.op = "cascade", !.top = f, !.stack = {f}])
    BY <1>6 DEF DeleteFolder, Live
  <2>2. ASSUME NEW mode \in {"move_to_inbox", "move_to_parent"},
               Start(s, [Done EXCEPT !.pend =
                 [i \in Ids |-> IF i = f THEN Trashed
                                ELSE IF i \in LiveChildren(db, f) THEN Moved(db, i, ChildrenTo(f, mode))
                                ELSE IF i \in LiveIn(db, f) THEN Moved(db, i, BookmarksTo(f, mode))
                                ELSE NoChange]])
        PROVE  TreeInv'
    <3>1. PICK pend : pend = [i \in Ids |-> IF i = f THEN Trashed
                                ELSE IF i \in LiveChildren(db, f) THEN Moved(db, i, ChildrenTo(f, mode))
                                ELSE IF i \in LiveIn(db, f) THEN Moved(db, i, BookmarksTo(f, mode))
                                ELSE NoChange]
      OBVIOUS
    <3>2. PICK r : r = [Done EXCEPT !.pend = pend]
      OBVIOUS
    <3>3. r.op = "done" /\ r.pend = pend /\ Start(s, r)
      BY <2>2, <3>1, <3>2 DEF Done, Idle
    <3>4. PICK w : w = Written(db, pend)
      OBVIOUS
    <3>5. PICK up, bup : up = ChildrenTo(f, mode) /\ bup = BookmarksTo(f, mode)
      OBVIOUS
    <3>6. /\ up \in Folders \cup {Root} /\ up \in {Inbox, db[f].up} /\ bup \in Folders
          /\ bup = Inbox \/ (bup = db[f].up /\ up = bup)
      BY <1>1, <3>5 DEF ChildrenTo, BookmarksTo, Row
    <3>7. w[f].st = "trash"
      BY <3>1, <3>4 DEF Written, Apply, Trashed
    <3>8. \A i \in Ids \ {f} : /\ w[i].st = db[i].st
                               /\ w[i].up = IF i \in LiveChildren(db, f) THEN up
                                            ELSE IF i \in LiveIn(db, f) THEN bup ELSE db[i].up
      <4> SUFFICES ASSUME NEW i \in Ids \ {f}
                   PROVE  /\ w[i].st = db[i].st
                          /\ w[i].up = IF i \in LiveChildren(db, f) THEN up
                                       ELSE IF i \in LiveIn(db, f) THEN bup ELSE db[i].up
        OBVIOUS
      <4>1. \A p \in Folders \cup {Root} : Apply(db[i], Moved(db, i, p)).st = db[i].st /\ Apply(db[i], Moved(db, i, p)).up = p
        BY DEF Apply, Moved
      <4>2. Apply(db[i], NoChange).st = db[i].st /\ Apply(db[i], NoChange).up = db[i].up
        BY DEF Apply, NoChange
      <4>3. w[i] = Apply(db[i], pend[i])
        BY <3>4 DEF Written
      <4>4. pend[i] = IF i \in LiveChildren(db, f) THEN Moved(db, i, up)
                      ELSE IF i \in LiveIn(db, f) THEN Moved(db, i, bup) ELSE NoChange
        BY <3>1, <3>5
      <4> QED BY <3>6, <4>1, <4>2, <4>3, <4>4
    <3>9. TreeOK(db) => TreeOK(w)
      <4>1. db[f].st = "live" /\ db \in [Ids -> Row] /\ AtTop(db[Inbox]) /\ \A b \in Bookmarks : Homed(db[b])
        BY <1>1, <2>1
      <4>2. up \in Folders \cup {Root} /\ up \in {Inbox, db[f].up} /\ bup \in Folders
        BY <3>6
      <4>3. bup = Inbox \/ (bup = db[f].up /\ up = bup)
        BY <3>6
      <4> QED BY <3>7, <3>8, <4>1, <4>2, <4>3, RehomeSound
    <3> QED BY <1>2, <3>3, <3>4, <3>9
  <2>3. CASE Start(s, [Idle EXCEPT !.op = "cascade", !.top = f, !.stack = {f}])
    <3>1. PICK r : r = [Idle EXCEPT !.op = "cascade", !.top = f, !.stack = {f}]
      OBVIOUS
    <3>2. r.op = "cascade" /\ r.top = f /\ r.stack = {f} /\ r.pend = NoPend /\ Start(s, r)
      BY <2>3, <3>1 DEF Idle
    <3>3. TreeOK(db) => Sound(db, r)
      BY <3>2 DEF TreeOK, Sound, Placed, Emptied
    <3> QED BY <1>1, <3>2, <3>3, NothingWritten, StartTree
  <2> QED BY <2>1, <2>2, <2>3
<1>7. CASE ReorderFolders(s)
  <2>1. PICK ids \in SUBSET Folders, p \in Folders \cup {Root} :
          Start(s, [Idle EXCEPT !.op = "reorder_folders", !.to = p, !.todo = ids])
    BY <1>7 DEF ReorderFolders
  <2>2. PICK r : r = [Idle EXCEPT !.op = "reorder_folders", !.to = p, !.todo = ids]
    OBVIOUS
  <2> QED BY <1>3, <2>1, <2>2 DEF Idle
<1>8. CASE CreateBookmark(s)
  <2>1. PICK f \in Folders : Live(db, f) /\ Start(s, [Done EXCEPT !.pend = Pend({BookmarkOf[s]}, Inserted(f))])
    BY <1>8 DEF CreateBookmark
  <2>2. PICK r : r = [Done EXCEPT !.pend = Pend({BookmarkOf[s]}, Inserted(f))]
    OBVIOUS
  <2>3. r.op = "done" /\ r.pend = Pend({BookmarkOf[s]}, Inserted(f)) /\ Start(s, r)
    BY <2>1, <2>2 DEF Done, Idle
  <2>4. TreeOK(db) => TreeOK(Written(db, r.pend))
    BY <1>1, <2>1, <2>3, MoveBookmarkSound DEF Live
  <2> QED BY <1>2, <2>3, <2>4
<1>9. CASE EditBookmarks(s)
  <2>1. PICK ids \in SUBSET Bookmarks, f \in Folders :
          \/ Start(s, [Idle EXCEPT !.op = "move_bookmarks", !.to = f, !.todo = ids])
          \/ Live(db, f) /\ Start(s, [Idle EXCEPT !.op = "reorder_bookmarks", !.to = f, !.todo = ids])
          \/ Start(s, [Idle EXCEPT !.op = "delete_bookmarks", !.todo = ids])
    BY <1>9 DEF EditBookmarks
  <2>2. CASE Start(s, [Idle EXCEPT !.op = "move_bookmarks", !.to = f, !.todo = ids])
    <3>1. PICK r : r = [Idle EXCEPT !.op = "move_bookmarks", !.to = f, !.todo = ids]
      OBVIOUS
    <3> QED BY <1>3, <2>2, <3>1 DEF Idle
  <2>3. CASE Live(db, f) /\ Start(s, [Idle EXCEPT !.op = "reorder_bookmarks", !.to = f, !.todo = ids])
    <3>1. PICK r : r = [Idle EXCEPT !.op = "reorder_bookmarks", !.to = f, !.todo = ids]
      OBVIOUS
    <3>2. r.op = "reorder_bookmarks" /\ r.to = f /\ r.pend = NoPend /\ Start(s, r)
      BY <2>3, <3>1 DEF Idle
    <3>3. TreeOK(db) => Sound(db, r)
      BY <2>3, <3>2 DEF Live, TreeOK, Sound, Placed, Emptied
    <3> QED BY <1>1, <3>2, <3>3, NothingWritten, StartTree
  <2>4. CASE Start(s, [Idle EXCEPT !.op = "delete_bookmarks", !.todo = ids])
    <3>1. PICK r : r = [Idle EXCEPT !.op = "delete_bookmarks", !.todo = ids]
      OBVIOUS
    <3> QED BY <1>3, <2>4, <3>1 DEF Idle
  <2> QED BY <2>1, <2>2, <2>3, <2>4
<1>10. CASE BeginMerge(s)
  <2>1. PICK r : r = [Idle EXCEPT !.op = "merge_folder", !.todo = {b \in Bookmarks : Live(db, b)}]
    OBVIOUS
  <2> QED BY <1>3, <1>10, <2>1 DEF BeginMerge, Idle
<1>11. CASE BeginGc(s)
  <2>1. PICK ids : ids = {b \in Bookmarks : db[b].st = "stale"}
    OBVIOUS
  <2>2. PICK r : r = [Idle EXCEPT !.op = "gc_list", !.pend = Pend(ids, Removed)]
    OBVIOUS
  <2>3. r.op = "gc_list" /\ r.pend = Pend(ids, Removed) /\ Start(s, r)
    BY <1>11, <2>1, <2>2 DEF BeginGc, Idle
  <2>4. TreeOK(db) => TreeOK(Written(db, r.pend))
    BY <1>1, <2>1, <2>3, DownSound
  <2> QED BY <1>2, <2>3, <2>4
<1> QED BY <1>4, <1>5, <1>6, <1>7, <1>8, <1>9, <1>10, <1>11 DEF Begin

LEMMA ReadOnTree ==
  ASSUME TreeInv, IInv', NEW s \in Sessions, ReadOn(s)  PROVE TreeInv'
<1> USE IdKinds DEF Cascades
<1>0. PICK v, r : v = View(s) /\ r = job[s]
  OBVIOUS
<1>1. /\ v \in [Ids -> Row] /\ AtTop(v[Inbox]) /\ r \in Job
      /\ FolderOf[s] \in Folders \ {Inbox} /\ BookmarkOf[s] \in Bookmarks
  BY <1>0, Viewed, IdsAssumption DEF TreeInv, IInv, Spares, Origin
<1>2. /\ r.todo \subseteq Ids /\ r.stack \subseteq Folders
      /\ r.at \in Folders \cup {Root} /\ r.top \in Folders \cup {Root} /\ r.to \in Folders \cup {Root}
      /\ r.then \in {"done", "replace_folders"}
      /\ r.op \in {"reorder_folders", "replace_folders", "cascade", "cascade_bookmarks"} => r.todo \subseteq Folders
      /\ r.op = "reorder_bookmarks" => r.to # Root
      /\ r.op \in BookmarkLists => r.todo \subseteq Bookmarks
  BY <1>0, <1>1 DEF Job, Spares, TreeInv, IInv
<1>3. r.pend = NoPend /\ r # Idle
  <2>1. ASSUME NEW op, Reading(s, op), op # "idle" PROVE r.pend = NoPend /\ r # Idle
    BY <1>0, <2>1 DEF Reading, Idle
  <2>2. CASE CascadePop(s) \/ CascadeBookmarks(s) \/ CascadeEnd(s) \/ ReorderNext(s)
    BY <2>1, <2>2 DEF CascadePop, CascadeBookmarks, CascadeEnd, ReorderNext
  <2>3. CASE MoveNext(s) \/ DeleteNext(s)
    BY <2>1, <2>3 DEF MoveNext, DeleteNext
  <2>4. CASE \/ ReplaceBookmark(s) \/ ReplaceListFolders(s) \/ ReplaceFolder(s)
             \/ ReplaceCreateFolder(s) \/ ReplaceCreateBookmark(s)
    BY <2>1, <2>4 DEF ReplaceBookmark, ReplaceListFolders, ReplaceFolder, ReplaceCreateFolder, ReplaceCreateBookmark
  <2>5. CASE MergeFolder(s) \/ MergeItem(s) \/ SkipItem(s)
    BY <2>1, <2>5 DEF MergeFolder, MergeItem, SkipItem
  <2>6. CASE GcListFolders(s) \/ GcDeleteLeaves(s)
    BY <2>1, <2>6 DEF GcListFolders, GcDeleteLeaves
  <2> QED BY <2>2, <2>3, <2>4, <2>5, <2>6 DEF ReadOn
<1>4. \A q : Goes(s, q) /\ q.op # "idle" /\ (Sound(v, r) => Sound(Written(v, q.pend), q)) => TreeInv'
  BY <1>0, <1>3, GoesTree
<1> DEFINE Quiet == {"idle", "reorder_bookmarks", "gc_folders"} \cup Cascades
\* Of most steps only the rows matter, and what they leave is an ordinary tree.
<1>5. \A q : /\ Goes(s, q) /\ q.op \notin Quiet /\ r.op \notin Cascades
             /\ TreeOK(v) => TreeOK(Written(v, q.pend))
             => TreeInv'
  BY <1>4, QuietSound
<1>6. \A q : Goes(s, q) /\ q.op \notin Quiet /\ r.op \notin Cascades /\ q.pend = NoPend => TreeInv'
  BY <1>1, <1>5, NothingWritten
<1> HIDE DEF Quiet
<1>7. \A q, i, p : q = [Rest(r, i) EXCEPT !.pend = p] =>
         q.pend = p /\ (q.op = "done" \/ (q.op = r.op /\ q.to = r.to))
  <2> SUFFICES ASSUME NEW q, NEW i, NEW p, q = [Rest(r, i) EXCEPT !.pend = p]
               PROVE  q.pend = p /\ (q.op = "done" \/ (q.op = r.op /\ q.to = r.to))
    OBVIOUS
  <2>1. CASE r.todo = {i}
    BY <2>1 DEF Rest, Done, Idle
  <2>2. CASE r.todo # {i}
    BY <1>1, <2>2 DEF Rest, Job
  <2> QED BY <2>1, <2>2
<1>8. CASE CascadePop(s)
  <2>1. PICK f \in r.stack :
          r.op = "cascade" /\
          Goes(s, [r EXCEPT !.op = "cascade_bookmarks", !.at = f,
                            !.stack = (@ \ {f}) \cup Kids(v, f), !.pend = Pend(Kids(v, f), Trashed)])
    BY <1>0, <1>8 DEF CascadePop, Reading
  <2>2. PICK q : q = [r EXCEPT !.op = "cascade_bookmarks", !.at = f,
                               !.stack = (@ \ {f}) \cup Kids(v, f), !.pend = Pend(Kids(v, f), Trashed)]
    OBVIOUS
  <2>3. /\ q.op = "cascade_bookmarks" /\ q.at = f /\ q.top = r.top
        /\ q.stack = (r.stack \ {f}) \cup Kids(v, f) /\ q.pend = Pend(Kids(v, f), Trashed)
    BY <1>1, <2>2 DEF Job
  <2>4. Sound(v, r) => Sound(Written(v, q.pend), q)
    BY <1>1, <1>2, <2>1, <2>3, CascadePopSound
  <2> QED BY <1>4, <2>1, <2>2, <2>3, <2>4
<1>9. CASE CascadeBookmarks(s)
  <2>1. /\ r.op = "cascade_bookmarks"
        /\ Goes(s, [r EXCEPT !.op = "cascade", !.at = Root, !.pend = Pend(LiveIn(v, r.at), Trashed)])
    BY <1>0, <1>9 DEF CascadeBookmarks, Reading
  <2>2. PICK q : q = [r EXCEPT !.op = "cascade", !.at = Root, !.pend = Pend(LiveIn(v, r.at), Trashed)]
    OBVIOUS
  <2>3. q.op = "cascade" /\ q.top = r.top /\ q.stack = r.stack /\ q.pend = Pend(LiveIn(v, r.at), Trashed)
    BY <1>1, <2>2 DEF Job
  <2>4. Sound(v, r) => Sound(Written(v, q.pend), q)
    BY <1>1, <2>1, <2>3, CascadeBookmarksSound
  <2> QED BY <1>4, <2>1, <2>2, <2>3, <2>4
<1>10. CASE CascadeEnd(s)
  <2>1. /\ r.op = "cascade" /\ r.stack = {}
        /\ Goes(s, [r EXCEPT !.op = r.then, !.top = Root, !.pend = Pend({r.top}, Trashed)])
    BY <1>0, <1>10 DEF CascadeEnd, Reading
  <2>2. PICK q : q = [r EXCEPT !.op = r.then, !.top = Root, !.pend = Pend({r.top}, Trashed)]
    OBVIOUS
  <2>3. q.op \in {"done", "replace_folders"} /\ q.pend = Pend({r.top}, Trashed)
    BY <1>1, <1>2, <2>2 DEF Job
  <2>4. Sound(v, r) => TreeOK(Written(v, q.pend))
    BY <1>1, <2>1, <2>3, CascadeEndSound
  <2> QED BY <1>4, <2>1, <2>2, <2>3, <2>4, QuietSound
<1>11. CASE ReorderNext(s)
  <2>1. PICK f \in r.todo :
          /\ r.op = "reorder_folders" /\ MayReorder(v, f, r.to)
          /\ Goes(s, [Rest(r, f) EXCEPT !.pend = Pend({f}, Moved(v, f, r.to))])
    BY <1>0, <1>11 DEF ReorderNext, Reading
  <2>2. PICK q : q = [Rest(r, f) EXCEPT !.pend = Pend({f}, Moved(v, f, r.to))]
    OBVIOUS
  <2>3. q.pend = Pend({f}, Moved(v, f, r.to)) /\ q.op \notin Quiet
    BY <1>7, <2>1, <2>2 DEF Quiet
  <2>4. f \in Folders /\ v[f].st = "live" /\ Fits(v, r.to, f)
    BY <1>1, <1>2, <2>1, MayMoveFits DEF MayReorder, Live, Fits
  <2>5. TreeOK(v) => TreeOK(Written(v, q.pend))
    BY <1>1, <1>2, <2>3, <2>4, MoveFolderSound
  <2> QED BY <1>5, <2>1, <2>2, <2>3, <2>5
<1>12. CASE MoveNext(s)
  <2>1. PICK b \in r.todo :
          /\ r.op = "reorder_bookmarks" \/ (r.op = "move_bookmarks" /\ Live(v, r.to))
          /\ Goes(s, [Rest(r, b) EXCEPT !.pend = Pend({b}, Moved(v, b, r.to))])
    BY <1>0, <1>12 DEF MoveNext, Reading
  <2>2. PICK q : q = [Rest(r, b) EXCEPT !.pend = Pend({b}, Moved(v, b, r.to))]
    OBVIOUS
  <2>3. q.pend = Pend({b}, Moved(v, b, r.to)) /\ (q.op = "done" \/ (q.op = r.op /\ q.to = r.to))
    BY <1>7, <2>2
  <2>4. r.to \in Folders
    BY <1>2, <2>1 DEF Live
  <2>5. b \in Bookmarks
    BY <1>2, <2>1 DEF BookmarkLists
  <2>6. Sound(v, r) => TreeOK(v) /\ v[r.to].st = "live"
    BY <2>1, QuietSound DEF Sound, Live
  <2>7. Sound(v, r) => TreeOK(Written(v, q.pend)) /\ Written(v, q.pend)[r.to].st = "live"
    BY <1>1, <2>3, <2>4, <2>5, <2>6, MoveBookmarkSound
  <2>8. Sound(v, r) => Sound(Written(v, q.pend), q)
    BY <2>1, <2>3, <2>7 DEF Sound, TreeOK, Placed, Emptied
  <2> QED BY <1>4, <2>1, <2>2, <2>3, <2>8
<1>13. CASE DeleteNext(s)
  <2>1. PICK b \in r.todo : r.op = "delete_bookmarks" /\ Goes(s, [Rest(r, b) EXCEPT !.pend = Pend({b}, Trashed)])
    BY <1>0, <1>13 DEF DeleteNext, Reading
  <2>2. PICK q : q = [Rest(r, b) EXCEPT !.pend = Pend({b}, Trashed)]
    OBVIOUS
  <2>3. q.pend = Pend({b}, Trashed) /\ q.op \notin Quiet
    BY <1>7, <2>1, <2>2 DEF Quiet
  <2>4. b \in Bookmarks
    BY <1>2, <2>1 DEF BookmarkLists
  <2>5. TreeOK(v) => TreeOK(Written(v, q.pend))
    BY <1>1, <2>3, <2>4, DownSound
  <2> QED BY <1>5, <2>1, <2>2, <2>3, <2>5
<1>14. CASE ReplaceBookmark(s)
  <2>1. PICK b \in r.todo :
          r.op = "replace_bookmarks" /\ Goes(s, [r EXCEPT !.todo = @ \ {b}, !.pend = Pend({b}, Trashed)])
    BY <1>0, <1>14 DEF ReplaceBookmark, Reading
  <2>2. PICK q : q = [r EXCEPT !.todo = @ \ {b}, !.pend = Pend({b}, Trashed)]
    OBVIOUS
  <2>3. q.pend = Pend({b}, Trashed) /\ q.op \notin Quiet
    BY <1>1, <2>1, <2>2 DEF Quiet, Job
  <2>4. b \in Bookmarks
    BY <1>2, <2>1 DEF BookmarkLists
  <2>5. TreeOK(v) => TreeOK(Written(v, q.pend))
    BY <1>1, <2>3, <2>4, DownSound
  <2> QED BY <1>5, <2>1, <2>2, <2>3, <2>5
<1>15. CASE ReplaceListFolders(s)
  <2>1. PICK list : list = {f \in Folders \ {Inbox} : Live(v, f)}
    OBVIOUS
  <2>2. r.op = "replace_bookmarks" /\ Goes(s, [r EXCEPT !.op = "replace_folders", !.todo = list])
    BY <1>0, <1>15, <2>1 DEF ReplaceListFolders, Reading
  <2>3. PICK q : q = [r EXCEPT !.op = "replace_folders", !.todo = list]
    OBVIOUS
  <2>4. q.pend = NoPend /\ q.op \notin Quiet
    BY <1>1, <1>3, <2>3 DEF Quiet, Job
  <2> QED BY <1>6, <2>2, <2>3, <2>4
<1>16. CASE ReplaceFolder(s)
  <2>1. PICK f \in r.todo :
          /\ r.op = "replace_folders"
          /\ \/ Goes(s, [r EXCEPT !.todo = @ \ {f}, !.op = "cascade", !.top = f, !.stack = {f}])
             \/ Goes(s, [r EXCEPT !.todo = @ \ {f}])
    BY <1>0, <1>16 DEF ReplaceFolder, Reading
  <2>2. CASE Goes(s, [r EXCEPT !.todo = @ \ {f}])
    <3>1. PICK q : q = [r EXCEPT !.todo = @ \ {f}]
      OBVIOUS
    <3>2. q.pend = NoPend /\ q.op \notin Quiet
      BY <1>1, <1>3, <2>1, <3>1 DEF Quiet, Job
    <3> QED BY <1>6, <2>1, <2>2, <3>1, <3>2
  <2>3. CASE Goes(s, [r EXCEPT !.todo = @ \ {f}, !.op = "cascade", !.top = f, !.stack = {f}])
    <3>1. PICK q : q = [r EXCEPT !.todo = @ \ {f}, !.op = "cascade", !.top = f, !.stack = {f}]
      OBVIOUS
    <3>2. q.pend = NoPend /\ q.op = "cascade" /\ q.top = f /\ q.stack = {f}
      BY <1>1, <1>3, <3>1 DEF Job
    <3>3. f \in Folders
      BY <1>2, <2>1
    <3>4. Sound(v, r) => Sound(v, q)
      BY <2>1, <3>2, <3>3 DEF Sound, Placed, Waits, Emptied
    <3> QED BY <1>1, <1>4, <2>3, <3>1, <3>2, <3>4, NothingWritten
  <2> QED BY <2>1, <2>2, <2>3
<1>17. CASE ReplaceCreateFolder(s)
  <2>1. /\ r.op = "replace_folders"
        /\ Goes(s, [r EXCEPT !.op = "replace_create", !.pend = Pend({FolderOf[s]}, Inserted(Root))])
    BY <1>0, <1>17 DEF ReplaceCreateFolder, Reading
  <2>2. PICK q : q = [r EXCEPT !.op = "replace_create", !.pend = Pend({FolderOf[s]}, Inserted(Root))]
    OBVIOUS
  <2>3. q.pend = Pend({FolderOf[s]}, Inserted(Root)) /\ q.op \notin Quiet
    BY <1>1, <2>2 DEF Quiet, Job
  <2>4. TreeOK(v) => TreeOK(Written(v, q.pend))
    BY <1>1, <2>3, InsertFolderSound
  <2> QED BY <1>5, <2>1, <2>2, <2>3, <2>4
<1>18. CASE ReplaceCreateBookmark(s)
  <2>1. /\ r.op = "replace_create" /\ Live(v, r.to)
        /\ Goes(s, [Done EXCEPT !.pend = Pend({BookmarkOf[s]}, Inserted(r.to))])
    BY <1>0, <1>18 DEF ReplaceCreateBookmark, Reading
  <2>2. PICK q : q = [Done EXCEPT !.pend = Pend({BookmarkOf[s]}, Inserted(r.to))]
    OBVIOUS
  <2>3. q.pend = Pend({BookmarkOf[s]}, Inserted(r.to)) /\ q.op \notin Quiet
    BY <2>2 DEF Quiet, Done, Idle
  <2>4. TreeOK(v) => TreeOK(Written(v, q.pend))
    <3>1. PICK c : c = Inserted(r.to)
      OBVIOUS
    <3>2. PICK b : b = BookmarkOf[s]
      OBVIOUS
    <3>3. b \in Bookmarks /\ r.to \in Folders /\ v[r.to].st = "live" /\ v \in [Ids -> Row]
      BY <1>1, <1>2, <2>1, <3>2 DEF Live
    <3>4. TreeOK(v) => TreeOK(Written(v, Pend({b}, c)))
      BY <3>1, <3>3, MoveBookmarkSound
    <3> QED BY <2>3, <3>1, <3>2, <3>4
  <2> QED BY <1>5, <2>1, <2>2, <2>3, <2>4
<1>19. CASE MergeFolder(s)
  <2>1. r.op = "merge_folder"
    BY <1>0, <1>19 DEF MergeFolder, Reading
  <2>2. CASE \E g \in Folders : Goes(s, [r EXCEPT !.op = "merge_item", !.to = g])
    <3>1. PICK g \in Folders : Goes(s, [r EXCEPT !.op = "merge_item", !.to = g])
      BY <2>2
    <3>2. PICK q : q = [r EXCEPT !.op = "merge_item", !.to = g]
      OBVIOUS
    <3>3. q.pend = NoPend /\ q.op \notin Quiet
      BY <1>1, <1>3, <3>2 DEF Quiet, Job
    <3> QED BY <1>6, <2>1, <3>1, <3>2, <3>3
  <2>3. CASE \E p \in Folders \cup {Root} :
               /\ v[FolderOf[s]].st = "none" /\ MayHold(v, p)
               /\ Goes(s, [r EXCEPT !.op = "merge_item", !.to = FolderOf[s],
                                    !.pend = Pend({FolderOf[s]}, Inserted(p))])
    <3>1. PICK p \in Folders \cup {Root} :
            /\ v[FolderOf[s]].st = "none" /\ MayHold(v, p)
            /\ Goes(s, [r EXCEPT !.op = "merge_item", !.to = FolderOf[s],
                                 !.pend = Pend({FolderOf[s]}, Inserted(p))])
      BY <2>3
    <3>2. PICK q : q = [r EXCEPT !.op = "merge_item", !.to = FolderOf[s],
                                 !.pend = Pend({FolderOf[s]}, Inserted(p))]
      OBVIOUS
    <3>3. q.pend = Pend({FolderOf[s]}, Inserted(p)) /\ q.op \notin Quiet
      BY <1>1, <3>2 DEF Quiet, Job
    <3>4. TreeOK(v) => TreeOK(Written(v, q.pend))
      BY <1>1, <3>1, <3>3, InsertFolderSound DEF MayHold, Live
    <3> QED BY <1>5, <2>1, <3>1, <3>2, <3>3, <3>4
  <2> QED BY <1>0, <1>19, <2>2, <2>3 DEF MergeFolder
<1>20. CASE MergeItem(s)
  <2>1. r.op = "merge_item" /\ Live(v, r.to)
    BY <1>0, <1>20 DEF MergeItem, Reading
  <2>2. PICK next \in {Done, [r EXCEPT !.op = "merge_folder", !.to = Root]} :
          \/ \E hit \in r.todo :
               Goes(s, [next EXCEPT !.todo = @ \ {hit}, !.pend = Pend({hit}, Moved(v, hit, r.to))])
          \/ Goes(s, [next EXCEPT !.pend = Pend({BookmarkOf[s]}, Inserted(r.to))])
    BY <1>0, <1>20, Zenon DEF MergeItem
  <2>3. next \in Job /\ next.op \in {"done", "merge_folder"}
    <3>1. CASE next = Done
      BY <3>1, IdleOK DEF Done, Idle, Spares
    <3>2. CASE next = [r EXCEPT !.op = "merge_folder", !.to = Root]
      BY <1>1, <3>2 DEF Job, Op
    <3> QED BY <2>2, <3>1, <3>2
  <2>4. r.to \in Folders /\ v[r.to].st = "live"
    BY <1>2, <2>1 DEF Live
  <2>5. CASE \E hit \in r.todo :
               Goes(s, [next EXCEPT !.todo = @ \ {hit}, !.pend = Pend({hit}, Moved(v, hit, r.to))])
    <3>1. PICK hit \in r.todo :
            Goes(s, [next EXCEPT !.todo = @ \ {hit}, !.pend = Pend({hit}, Moved(v, hit, r.to))])
      BY <2>5
    <3>2. PICK q : q = [next EXCEPT !.todo = @ \ {hit}, !.pend = Pend({hit}, Moved(v, hit, r.to))]
      OBVIOUS
    <3>3. q.pend = Pend({hit}, Moved(v, hit, r.to)) /\ q.op \notin Quiet
      BY <2>3, <3>2 DEF Quiet, Job
    <3>4. hit \in Bookmarks
      BY <1>2, <2>1 DEF BookmarkLists
    <3>5. TreeOK(v) => TreeOK(Written(v, q.pend))
      BY <1>1, <2>4, <3>3, <3>4, MoveBookmarkSound
    <3> QED BY <1>5, <2>1, <3>1, <3>2, <3>3, <3>5
  <2>6. CASE Goes(s, [next EXCEPT !.pend = Pend({BookmarkOf[s]}, Inserted(r.to))])
    <3>1. PICK q : q = [next EXCEPT !.pend = Pend({BookmarkOf[s]}, Inserted(r.to))]
      OBVIOUS
    <3>2. q.pend = Pend({BookmarkOf[s]}, Inserted(r.to)) /\ q.op \notin Quiet
      BY <2>3, <3>1 DEF Quiet, Job
    <3>3. TreeOK(v) => TreeOK(Written(v, q.pend))
      <4>1. PICK c : c = Inserted(r.to)
        OBVIOUS
      <4>2. PICK b : b = BookmarkOf[s]
        OBVIOUS
      <4>3. b \in Bookmarks /\ v \in [Ids -> Row]
        BY <1>1, <4>2
      <4>4. TreeOK(v) => TreeOK(Written(v, Pend({b}, c)))
        BY <2>4, <4>1, <4>3, MoveBookmarkSound
      <4> QED BY <3>2, <4>1, <4>2, <4>4
    <3> QED BY <1>5, <2>1, <2>6, <3>1, <3>2, <3>3
  <2> QED BY <2>2, <2>5, <2>6
<1>21. CASE SkipItem(s)
  <2>1. r.op = "merge_item" /\ Goes(s, Done)
    BY <1>0, <1>21 DEF SkipItem, Reading
  <2>2. Done.op \notin Quiet /\ Done.pend = NoPend
    BY DEF Done, Idle, Quiet
  <2> QED BY <1>6, <2>1, <2>2
<1>22. CASE GcListFolders(s)
  <2>1. PICK list : list = {f \in Folders \ {Inbox} : v[f].st = "stale"}
    OBVIOUS
  <2>2. r.op = "gc_list" /\ Goes(s, [r EXCEPT !.op = "gc_folders", !.todo = list])
    BY <1>0, <1>22, <2>1 DEF GcListFolders, Reading
  <2>3. PICK q : q = [r EXCEPT !.op = "gc_folders", !.todo = list]
    OBVIOUS
  <2>4. q.pend = NoPend /\ q.op = "gc_folders" /\ q.todo = list
    BY <1>1, <1>3, <2>3 DEF Job
  <2>5. Sound(v, r) => Sound(v, q)
    BY <2>1, <2>2, <2>4 DEF Sound, Placed, Waits, Emptied
  <2> QED BY <1>1, <1>4, <2>2, <2>3, <2>4, <2>5, NothingWritten
<1>23. CASE GcDeleteLeaves(s)
  <2>1. PICK leaves : leaves = Leaves(v, r.todo)
    OBVIOUS
  <2>2. /\ r.op = "gc_folders"
        /\ \/ Goes(s, [r EXCEPT !.op = "done"])
           \/ Goes(s, [r EXCEPT !.todo = @ \ leaves, !.pend = Pend(leaves, Removed)])
    BY <1>0, <1>23, <2>1 DEF GcDeleteLeaves, Reading
  <2>3. CASE Goes(s, [r EXCEPT !.op = "done"])
    <3>1. PICK q : q = [r EXCEPT !.op = "done"]
      OBVIOUS
    <3>2. q.pend = NoPend /\ q.op \notin Quiet
      BY <1>1, <1>3, <3>1 DEF Quiet, Job
    <3> QED BY <1>6, <2>2, <2>3, <3>1, <3>2
  <2>4. CASE Goes(s, [r EXCEPT !.todo = @ \ leaves, !.pend = Pend(leaves, Removed)])
    <3>1. PICK q : q = [r EXCEPT !.todo = @ \ leaves, !.pend = Pend(leaves, Removed)]
      OBVIOUS
    <3>2. q.pend = Pend(leaves, Removed) /\ q.op = "gc_folders" /\ q.todo = r.todo \ leaves
      BY <1>1, <2>2, <3>1 DEF Job
    <3>3. leaves \subseteq r.todo
      BY <2>1 DEF Leaves
    <3>4. Sound(v, r) => TreeOK(v) /\ \A f \in r.todo : v[f].st # "live"
      BY <2>2, QuietSound DEF Sound
    <3>5. Sound(v, r) => TreeOK(Written(v, q.pend))
      BY <1>1, <3>2, <3>3, <3>4, DownSound
    <3>6. Sound(v, r) => \A f \in q.todo : Written(v, q.pend)[f].st # "live"
      BY <1>1, <1>2, <3>2, <3>4, WrittenDown DEF Removed
    <3>7. Sound(v, r) => Sound(Written(v, q.pend), q)
      BY <3>2, <3>5, <3>6 DEF Sound, TreeOK, Placed, Emptied
    <3> QED BY <1>4, <2>4, <3>1, <3>2, <3>7
  <2> QED BY <2>2, <2>3, <2>4
<1> QED BY <1>8, <1>9, <1>10, <1>11, <1>12, <1>13, <1>14, <1>15, <1>16, <1>17, <1>18, <1>19,
           <1>20, <1>21, <1>22, <1>23 DEF ReadOn


LEMMA BeginReplaceTree ==
  ASSUME TreeInv, IInv', NEW s \in Restores, BeginReplace(s)  PROVE TreeInv'
<1>1. PICK list : list = {b \in Bookmarks : Live(db, b)}
  OBVIOUS
<1>2. PICK r : r = [Idle EXCEPT !.op = "replace_bookmarks", !.to = FolderOf[s],
                                !.then = "replace_folders", !.todo = list]
  OBVIOUS
<1>3. s \in Sessions /\ Start(s, r)
  BY <1>1, <1>2 DEF BeginReplace, Sessions
<1>4. r.op = "replace_bookmarks" /\ r.pend = NoPend
  BY <1>2 DEF Idle
<1>5. TreeOK(db) => Sound(Written(db, r.pend), r)
  <2>1. Written(db, r.pend) = db
    BY <1>4, NothingWritten DEF TreeInv, IInv
  <2>2. r.op \notin Cascades /\ r.op \notin {"reorder_bookmarks", "gc_folders"}
    BY <1>4 DEF Cascades
  <2> QED BY <2>1, <2>2, QuietSound
<1> QED BY <1>3, <1>4, <1>5, StartTree

\* What is flushed is what the session was about to write.
LEMMA FlushTree ==
  ASSUME TreeInv, IInv', NEW s \in Sessions, Flush(s)  PROVE TreeInv'
<1>1. PICK v, r, new : v = View(s) /\ r = job[s] /\ new = After(s)
  OBVIOUS
<1>2. /\ v \in [Ids -> Row] /\ r \in Job /\ new \in [Ids -> Row]
  BY <1>1, Viewed, WrittenRows DEF TreeInv, IInv, Spares, After, PendOK
<1>3. /\ tx' = [tx EXCEPT ![s] = [i \in Ids |-> IF i \in Changed(s) THEN new[i] ELSE @[i]]]
      /\ job' = [job EXCEPT ![s].pend = NoPend] /\ UNCHANGED <<db, mixed>> /\ r.pend # NoPend
  BY <1>1 DEF Flush, After, Written
<1>4. PICK q : q = [r EXCEPT !.pend = NoPend]
  OBVIOUS
<1>5. /\ job'[s] = q /\ \A t \in Sessions \ {s} : job'[t] = job[t]
      /\ \A t \in Sessions \ {s} : Holds(t)' = Holds(t)
  BY <1>1, <1>3, <1>4 DEF TreeInv, IInv, Holds
<1>6. /\ q.pend = NoPend /\ q.op = r.op /\ q.at = r.at /\ q.top = r.top /\ q.to = r.to
      /\ q.todo = r.todo /\ q.stack = r.stack
  BY <1>2, <1>4 DEF Job
<1>7. r # Idle /\ r.op # "idle" /\ q.op # "idle" /\ q # Idle
  BY <1>1, <1>3, <1>6 DEF TreeInv, Idle
<1>8. View(s)' = new
  <2>1. \A i \in Ids : tx'[s][i] = IF i \in Changed(s) THEN new[i] ELSE tx[s][i]
    BY <1>3 DEF TreeInv, IInv
  <2>2. \A i \in Ids : i \notin Changed(s) => r.pend[i] = NoChange
    BY <1>1 DEF Changed
  <2>3. \A i \in Ids : i \notin Changed(s) => new[i] = v[i]
    BY <1>1, <1>2, <2>2 DEF After, Written, Apply, NoChange, Row
  <2>4. \A i \in Ids : new[i] # Untouched
    BY <1>2 DEF Row, Untouched, State
  <2>5. \A i \in Ids : (IF tx'[s][i] = Untouched THEN db'[i] ELSE tx'[s][i]) = new[i]
    BY <1>1, <1>3, <2>1, <2>3, <2>4 DEF View
  <2> QED BY <1>2, <2>5 DEF View
<1>9. After(s)' = new
  <2>1. After(s)' = Written(new, NoPend)
    BY <1>5, <1>6, <1>8 DEF After, Written
  <2> QED BY <1>2, <2>1, NothingWritten
<1>10. /\ \A t \in Sessions : job'[t] = Idle => Holds(t)' = {}
       /\ \A t \in Sessions : job'[t].op = "idle" => job'[t] = Idle
  BY <1>5, <1>7 DEF TreeInv
<1>11. ASSUME ~mixed PROVE Alone'
  <2>1. Sound(new, r) /\ Sound(db, Idle) /\ \A t \in Sessions \ {s} : job[t] = Idle
    BY <1>1, <1>7, <1>11 DEF TreeInv, Alone
  <2>2. Sound(new, q)
    BY <1>6, <2>1 DEF Sound, Placed, Waits, Emptied
  <2>3. Sound(After(s), job[s])'
    BY <1>5, <1>9, <2>2 DEF Sound, NoCircle, Circle, Placed, Waits, Emptied, LiveChildren, LiveIn
  <2>4. Sound(db, Idle)'
    BY <1>3, <2>1 DEF Sound, NoCircle, Circle, Placed, Waits, Emptied, LiveChildren, LiveIn, Idle, Cascades, NoPend, NoChange
  <2> QED BY <1>5, <2>1, <2>3, <2>4 DEF Alone
<1> QED BY <1>3, <1>10, <1>11 DEF TreeInv

\* A commit makes the rows of the session those of the database; a rollback leaves
\* those that were there before it began.
LEMMA EndTree ==
  ASSUME TreeInv, IInv', NEW s \in Sessions, Commit(s) \/ Fails(s)  PROVE TreeInv'
<1>1. /\ tx' = [tx EXCEPT ![s] = [i \in Ids |-> Untouched]]
      /\ job' = [job EXCEPT ![s] = Idle] /\ UNCHANGED mixed
      /\ job[s] # Idle
  BY DEF Commit, Fails, Reading, Idle
<1>2. /\ job'[s] = Idle /\ \A t \in Sessions \ {s} : job'[t] = job[t]
      /\ Holds(s)' = {} /\ \A t \in Sessions \ {s} : Holds(t)' = Holds(t)
  BY <1>1 DEF TreeInv, IInv, Holds
<1>3. /\ \A t \in Sessions : job'[t] = Idle => Holds(t)' = {}
      /\ \A t \in Sessions : job'[t].op = "idle" => job'[t] = Idle
  BY <1>2 DEF TreeInv
<1>4. ASSUME ~mixed PROVE Alone'
  <2>1. /\ Sound(db, Idle) /\ Sound(After(s), job[s])
        /\ \A t \in Sessions \ {s} : job[t] = Idle
    BY <1>1, <1>4 DEF TreeInv, Alone
  <2>2. \A t \in Sessions : job'[t] = Idle
    BY <1>2, <2>1
  <2>3. PICK w : w = db'
    OBVIOUS
  <2>4. Sound(w, Idle)
    <3>1. CASE Commit(s)
      <4>1. /\ w = View(s) /\ job[s].pend = NoPend /\ job[s].op = "done"
        BY <2>3, <3>1 DEF Commit, Reading
      <4>2. After(s) = w
        BY <4>1, Viewed, NothingWritten DEF After, TreeInv
      <4>3. TreeOK(w)
        BY <2>1, <4>1, <4>2, QuietSound DEF Cascades
      <4> QED BY <4>3, QuietSound DEF Cascades, Idle
    <3>2. CASE Fails(s)
      BY <2>1, <2>3, <3>2 DEF Fails
    <3> QED BY <3>1, <3>2
  <2>5. Sound(db, Idle)'
    BY <2>3, <2>4 DEF Sound, NoCircle, Circle, Placed, Waits, Emptied, LiveChildren, LiveIn, Idle, Cascades, NoPend, NoChange
  <2> QED BY <2>2, <2>5 DEF Alone
<1> QED BY <1>1, <1>3, <1>4 DEF TreeInv

LEMMA ThirtyDaysTree ==
  ASSUME TreeInv, IInv', ThirtyDays  PROVE TreeInv'
<1>1. UNCHANGED <<tx, job, mixed>> /\ \A s \in Sessions : job[s] = Idle
  BY DEF ThirtyDays
<1>2. \A t \in Sessions : Holds(t)' = Holds(t)
  BY <1>1 DEF Holds
<1>3. ASSUME ~mixed PROVE Alone'
  <2>1. Sound(db, Idle)
    BY <1>3 DEF TreeInv, Alone
  <2>2. PICK w : w = db'
    OBVIOUS
  <2>3. \A i \in Ids : w[i].up = db[i].up /\ (w[i].st = "live" <=> db[i].st = "live")
    BY <2>2 DEF ThirtyDays, Older, TreeInv, IInv, Row
  <2>4. Sound(w, Idle)
    <3>1. TreeOK(db)
      BY <2>1, QuietSound DEF Cascades, Idle
    <3>2. NoCircle(w)
      BY <2>3, <3>1, FewerLive DEF TreeOK
    <3>3. ASSUME NEW i \in Ids, w[i].st = "live", w[i].up # Root PROVE w[w[i].up].st = "live"
      <4>1. db[i].st = "live" /\ w[i].up = db[i].up /\ db[i].up \in Folders
        BY <2>3, <3>3 DEF TreeInv, IInv, Row
      <4> QED BY <2>3, <3>1, <3>3, <4>1, IdKinds DEF TreeOK
    <3>4. TreeOK(w)
      BY <3>2, <3>3 DEF TreeOK
    <3> QED BY <3>4, QuietSound DEF Cascades, Idle
  <2>5. Sound(db, Idle)'
    BY <2>2, <2>4 DEF Sound, NoCircle, Circle, Placed, Waits, Emptied, LiveChildren, LiveIn, Idle, Cascades, NoPend, NoChange
  <2> QED BY <1>1, <2>5 DEF Alone
<1> QED BY <1>1, <1>2, <1>3 DEF TreeInv

LEMMA TreeInit == Init => TreeInv
<1> SUFFICES ASSUME Init PROVE TreeInv
  OBVIOUS
<1> USE IdKinds
<1>1. FolderOf[Seed] \in Folders \ {Inbox} /\ BookmarkOf[Seed] \in Bookmarks
  BY IdsAssumption DEF Origin
<1>2. \A s \in Sessions : Holds(s) = {} /\ job[s] = Idle
  BY DEF Init, Holds
<1>3. TreeOK(db)
  <2>1. \A i \in Ids : db[i].st = "live" => db[i].up = Root \/ db[i].up = FolderOf[Seed]
    BY DEF Init
  <2>2. db[FolderOf[Seed]].st = "live" /\ db[FolderOf[Seed]].up = Root
    BY <1>1 DEF Init
  <2>3. NoCircle(db)
    BY <2>1, <2>2 DEF NoCircle, Circle
  <2> QED BY <2>1, <2>2, <2>3 DEF TreeOK
<1>4. Sound(db, Idle)
  BY <1>3, QuietSound DEF Cascades, Idle
<1> QED BY <1>2, <1>4, InitHolds DEF TreeInv, Alone

LEMMA TreeNext == TreeInv /\ [Next]_vars => TreeInv'
<1> SUFFICES ASSUME TreeInv, [Next]_vars PROVE TreeInv'
  OBVIOUS
<1>1. IInv'
  BY StepKeeps DEF TreeInv
<1>2. CASE UNCHANGED vars
  <2>1. UNCHANGED <<db, tx, job, mixed>>
    BY <1>2 DEF vars
  <2>2. (\A s \in Sessions : Holds(s)' = Holds(s) /\ View(s)' = View(s)) /\ (Sound(db, Idle) <=> Sound(db, Idle)')
    BY <2>1 DEF Holds, View, Sound, NoCircle, Circle, Placed, Waits, Emptied, LiveChildren, LiveIn, Idle, Cascades, NoPend, NoChange
  <2>3. \A s \in Sessions : After(s)' = After(s)
    BY <2>1, <2>2 DEF After, Written
  <2>4. ASSUME NEW s \in Sessions PROVE Sound(After(s), job[s]) => Sound(After(s), job[s])'
    BY <2>1, <2>3 DEF Sound, NoCircle, Circle, Placed, Waits, Emptied, LiveChildren, LiveIn
  <2> QED BY <1>1, <2>1, <2>2, <2>4 DEF TreeInv, Alone
<1>3. CASE Next
  BY <1>1, <1>3, BeginTree, BeginReplaceTree, ReadOnTree, FlushTree, EndTree, ThirtyDaysTree DEF Next
<1> QED BY <1>2, <1>3

\* As long as requests come one after the other, whatever fails and is rolled back, no live
\* folder is below itself, a walk to the top ends, and live rows are below live folders.
THEOREM TreeStaysSound == ASSUME IsFiniteSet(Folders) PROVE Spec => []TreeSound
<1>1. TreeInv => TreeSound
  <2> SUFFICES ASSUME TreeInv PROVE TreeSound
    OBVIOUS
  <2>1. TypeOK
    BY DEF TreeInv, IInv, TypeOK, Homed
  <2>2. ASSUME ~mixed PROVE TreeOK(db)
    BY <2>2, QuietSound DEF TreeInv, Alone, Cascades, Idle
  <2>3. ASSUME TreeOK(db), NEW f \in Folders, db[f].st = "live"
        PROVE  Up(db, f)[Cardinality(Folders)] = Root
    BY <2>3, TreeEnds DEF TreeInv, IInv
  <2> QED BY <2>1, <2>2, <2>3 DEF TreeSound, TreeOK
<1>2. Spec => []TreeInv
  BY TreeInit, TreeNext, PTL DEF Spec
<1> QED BY <1>1, <1>2, PTL

-----------------------------------------------------------------------------
(* A replace_all: one swap or none. *)

\* What a session inserts; what there was at first.
Own(s) == {FolderOf[s], BookmarkOf[s]}
Old == {FolderOf[Seed], BookmarkOf[Seed]}

\* A request only adds rows and edits them, or only edits and removes some.
AddsJob(r) ==
  /\ r.op \in {"done", "merge_folder", "merge_item"}
  /\ \A i \in Ids : r.pend[i].st \in {"same", "touched", "live"}
CutsJob(r) ==
  /\ r.op \notin {"merge_folder", "merge_item", "replace_bookmarks", "replace_folders", "replace_create"}
  /\ r.then = "done"
  /\ \A i \in Ids : r.pend[i].st # "live"
Adds(s) == AddsJob(job[s]) /\ \A i \in Holds(s) : db[i].st = "live" => tx[s][i].st = "live"
Cuts(s) == CutsJob(job[s]) /\ \A i \in Holds(s) : tx[s][i].st = "live" => db[i].st = "live"

\* The old row i is not live among the rows v, or a replace_all at r is about to trash it.
Doomed(v, r, i) ==
  \/ v[i].st # "live" \/ i \in r.todo \/ r.pend[i].st = "trash"
  \/ r.op \in Cascades /\ i = r.top

\* A replace_all of session s at r, which sees the rows v and has written x.
Swaps(s, v, x, r) ==
  /\ r.op \in {"idle", "replace_bookmarks", "replace_folders", "replace_create", "done"} \cup Cascades
  /\ r.op \notin {"idle", "done"} => r.to = FolderOf[s]
  /\ r.op \in Cascades => r.then = "replace_folders"
  /\ r.op = "replace_bookmarks" => r.then = "replace_folders" /\ Doomed(v, r, BookmarkOf[Seed])
  /\ r.op \in {"replace_folders"} \cup Cascades =>
       r.then = "replace_folders" /\ v[BookmarkOf[Seed]].st # "live" /\ Doomed(v, r, FolderOf[Seed])
  /\ r.op \in {"replace_create", "done"} =>
       /\ \A i \in Old : v[i].st # "live"
       /\ \A i \in Ids : r.pend[i].st \in {"same", "live"}
       /\ x[FolderOf[s]].st = "live" \/ (r.op = "replace_create" /\ r.pend[FolderOf[s]].st = "live")
       /\ r.op = "done" => x[BookmarkOf[s]].st = "live" \/ r.pend[BookmarkOf[s]].st = "live"

\* What a session may be at.
Honest(s, r) ==
  /\ \A i \in Ids : r.pend[i].st = "live" => i \in Own(s)
  /\ s \in Restores => Swaps(s, View(s), tx[s], r)

SwapInv ==
  /\ IInv
  /\ \A s, t \in Sessions : s # t => Holds(s) \cap Holds(t) = {}
  /\ \A s \in Sessions :
       /\ job[s].op = "idle" => job[s] = Idle /\ Holds(s) = {}
       /\ \A i \in Holds(s) : tx[s][i].st = "live" => db[i].st = "live" \/ i \in Own(s)
       /\ Honest(s, job[s])
       /\ s \in Writers => Adds(s) \/ Cuts(s)
       /\ s \in Restores /\ job[s] # Idle => result[s] = "running"

LEMMA OwnRows ==
  /\ \A s \in Sessions : /\ FolderOf[s] \in Folders /\ BookmarkOf[s] \in Bookmarks /\ Own(s) \subseteq Ids
                         /\ Own(s) \cap Old = {} /\ FolderOf[s] # BookmarkOf[s]
  /\ Old \subseteq Ids /\ FolderOf[Seed] \in Folders \ {Inbox} /\ BookmarkOf[Seed] \in Bookmarks
  /\ \A s, t \in Sessions : s # t => Own(s) \cap Own(t) = {}
<1>1. /\ \A s \in Sessions : FolderOf[s] \in Folders /\ BookmarkOf[s] \in Bookmarks
      /\ FolderOf[Seed] \in Folders \ {Inbox} /\ BookmarkOf[Seed] \in Bookmarks
      /\ \A s, t \in Origin : FolderOf[s] = FolderOf[t] \/ BookmarkOf[s] = BookmarkOf[t] => s = t
      /\ Sessions \subseteq Origin /\ Seed \in Origin /\ Seed \notin Sessions
  BY IdsAssumption DEF Origin
<1> QED BY <1>1, IdKinds, IdsAssumption DEF Own, Old, Ids

LEMMA PendStates ==
  /\ \A ids, c, i : i \in Ids => Pend(ids, c)[i].st = IF i \in ids THEN c.st ELSE "same"
  /\ \A i \in Ids : NoPend[i].st = "same"
  /\ Trashed.st = "trash" /\ Removed.st = "gone" /\ \A p : Inserted(p).st = "live"
  /\ \A v, i, p : Moved(v, i, p).st = "touched"
BY DEF Pend, NoPend, NoChange, Trashed, Removed, Inserted, Moved

LEMMA IdleHonest == \A s \in Sessions : Honest(s, Idle) /\ CutsJob(Idle)
BY PendStates DEF Honest, Swaps, Idle, CutsJob, Cascades

\* A session reads, or begins: what counts is what it is at then.
LEMMA JobSwap ==
  ASSUME SwapInv, IInv', NEW s \in Sessions, NEW r, job' = [job EXCEPT ![s] = r], UNCHANGED <<db, tx, result>>,
         r.op # "idle", Honest(s, r),
         s \in Writers => \/ AddsJob(r) /\ \A i \in Holds(s) : db[i].st = "live" => tx[s][i].st = "live"
                          \/ CutsJob(r) /\ \A i \in Holds(s) : tx[s][i].st = "live" => db[i].st = "live",
         s \in Restores => result[s] = "running"
  PROVE  SwapInv'
<1>1. job'[s] = r /\ \A t \in Sessions \ {s} : job'[t] = job[t]
  BY DEF IInv, SwapInv
<1>2. \A t \in Sessions : Holds(t)' = Holds(t) /\ View(t)' = View(t)
  BY DEF Holds, View
<1>3. \A t \in Sessions : \A q : Honest(t, q) => Honest(t, q)'
  BY <1>2 DEF Honest
<1>4. ASSUME NEW t \in Sessions
      PROVE  /\ job'[t].op = "idle" => job'[t] = Idle /\ Holds(t)' = {}
             /\ \A i \in Holds(t)' : tx'[t][i].st = "live" => db'[i].st = "live" \/ i \in Own(t)
             /\ Honest(t, job[t])'
             /\ t \in Writers => Adds(t)' \/ Cuts(t)'
             /\ t \in Restores /\ job'[t] # Idle => result'[t] = "running"
  <2>1. CASE t = s
    <3>1. Honest(t, job[t])'
      BY <1>1, <1>3, <2>1 DEF Honest
    <3>2. t \in Writers => Adds(t)' \/ Cuts(t)'
      BY <1>1, <1>2, <2>1 DEF Adds, Cuts
    <3> QED BY <1>1, <1>2, <2>1, <3>1, <3>2 DEF SwapInv
  <2>2. CASE t # s
    <3>1. Honest(t, job[t])'
      BY <1>1, <1>3, <2>2 DEF Honest, SwapInv
    <3>2. t \in Writers => Adds(t)' \/ Cuts(t)'
      BY <1>1, <1>2, <2>2 DEF Adds, Cuts, SwapInv
    <3> QED BY <1>1, <1>2, <2>2, <3>1, <3>2 DEF SwapInv
  <2> QED BY <2>1, <2>2
<1> QED BY <1>2, <1>4 DEF SwapInv

LEMMA BeginSwap ==
  ASSUME SwapInv, IInv', NEW s \in Writers, Begin(s)  PROVE SwapInv'
<1> USE OwnRows, PendStates
<1>1. s \in Sessions /\ s \notin Restores
  BY IdsAssumption DEF Sessions
<1>2. ASSUME NEW r, Start(s, r), r.op # "idle", \A i \in Ids : r.pend[i].st = "live" => i \in Own(s),
             AddsJob(r) \/ CutsJob(r)
      PROVE  SwapInv'
  <2>1. job[s] = Idle /\ job' = [job EXCEPT ![s] = r] /\ UNCHANGED <<db, tx, result>>
    BY <1>2 DEF Start
  <2>2. Honest(s, r) /\ Holds(s) = {}
    BY <1>1, <1>2, <2>1 DEF Idle, Honest, SwapInv
  <2> QED BY <1>1, <1>2, <2>1, <2>2, JobSwap
\* A list of ids, a cascade: nothing is written yet.
<1>3. ASSUME NEW r, Start(s, r), r.pend = NoPend, r.op \notin {"idle", "replace_bookmarks", "replace_folders", "replace_create"},
             r.then = "done"
      PROVE  SwapInv'
  <2>1. \A i \in Ids : r.pend[i].st = "same"
    BY <1>3
  <2>2. AddsJob(r) \/ CutsJob(r)
    BY <1>3, <2>1 DEF AddsJob, CutsJob
  <2> QED BY <1>2, <1>3, <2>1, <2>2
<1>4. CASE CreateFolder(s)
  <2>1. PICK p \in Folders \cup {Root} : Start(s, [Done EXCEPT !.pend = Pend({FolderOf[s]}, Inserted(p))])
    BY <1>4 DEF CreateFolder
  <2>2. PICK r : r = [Done EXCEPT !.pend = Pend({FolderOf[s]}, Inserted(p))]
    OBVIOUS
  <2>3. r.op = "done" /\ r.pend = Pend({FolderOf[s]}, Inserted(p))
    BY <2>2 DEF Done, Idle
  <2>4. \A i \in Ids : r.pend[i].st = IF i = FolderOf[s] THEN "live" ELSE "same"
    BY <2>3
  <2>5. Start(s, r)
    BY <2>1, <2>2
  <2>6. AddsJob(r) /\ \A i \in Ids : r.pend[i].st = "live" => i \in Own(s)
    BY <2>3, <2>4 DEF AddsJob, Own
  <2> QED BY <1>2, <2>3, <2>5, <2>6
<1>5. CASE CreateBookmark(s)
  <2>1. PICK p \in Folders : Start(s, [Done EXCEPT !.pend = Pend({BookmarkOf[s]}, Inserted(p))])
    BY <1>5 DEF CreateBookmark
  <2>2. PICK r : r = [Done EXCEPT !.pend = Pend({BookmarkOf[s]}, Inserted(p))]
    OBVIOUS
  <2>3. r.op = "done" /\ r.pend = Pend({BookmarkOf[s]}, Inserted(p))
    BY <2>2 DEF Done, Idle
  <2>4. \A i \in Ids : r.pend[i].st = IF i = BookmarkOf[s] THEN "live" ELSE "same"
    BY <2>3
  <2>5. Start(s, r)
    BY <2>1, <2>2
  <2>6. AddsJob(r) /\ \A i \in Ids : r.pend[i].st = "live" => i \in Own(s)
    BY <2>3, <2>4 DEF AddsJob, Own
  <2> QED BY <1>2, <2>3, <2>5, <2>6
<1>6. CASE UpdateFolder(s)
  <2>1. PICK f \in Folders, p \in Folders \cup {Root} : Start(s, [Done EXCEPT !.pend = Pend({f}, Moved(db, f, p))])
    BY <1>6 DEF UpdateFolder
  <2>2. PICK r : r = [Done EXCEPT !.pend = Pend({f}, Moved(db, f, p))]
    OBVIOUS
  <2>3. r.op = "done" /\ r.pend = Pend({f}, Moved(db, f, p))
    BY <2>2 DEF Done, Idle
  <2>4. \A i \in Ids : r.pend[i].st \in {"same", "touched"}
    BY <2>3
  <2>5. Start(s, r)
    BY <2>1, <2>2
  <2>6. AddsJob(r)
    BY <2>3, <2>4 DEF AddsJob
  <2> QED BY <1>2, <2>3, <2>4, <2>5, <2>6
<1>7. CASE DeleteFolder(s)
  <2>1. PICK f \in Folders \ {Inbox} :
          \/ \E mode \in {"move_to_inbox", "move_to_parent"} :
               Start(s, [Done EXCEPT !.pend =
                 [i \in Ids |-> IF i = f THEN Trashed
                                ELSE IF i \in LiveChildren(db, f) THEN Moved(db, i, ChildrenTo(f, mode))
                                ELSE IF i \in LiveIn(db, f) THEN Moved(db, i, BookmarksTo(f, mode))
                                ELSE NoChange]])
          \/ Start(s, [Idle EXCEPT !.op = "cascade", !.top = f, !.stack = {f}])
    BY <1>7 DEF DeleteFolder
  <2>2. ASSUME NEW mode \in {"move_to_inbox", "move_to_parent"},
               Start(s, [Done EXCEPT !.pend =
                 [i \in Ids |-> IF i = f THEN Trashed
                                ELSE IF i \in LiveChildren(db, f) THEN Moved(db, i, ChildrenTo(f, mode))
                                ELSE IF i \in LiveIn(db, f) THEN Moved(db, i, BookmarksTo(f, mode))
                                ELSE NoChange]])
        PROVE  SwapInv'
    <3>1. PICK pend : pend = [i \in Ids |-> IF i = f THEN Trashed
                                ELSE IF i \in LiveChildren(db, f) THEN Moved(db, i, ChildrenTo(f, mode))
                                ELSE IF i \in LiveIn(db, f) THEN Moved(db, i, BookmarksTo(f, mode))
                                ELSE NoChange]
      OBVIOUS
    <3>2. \A i \in Ids : pend[i].st # "live"
      BY <3>1 DEF NoChange
    <3>3. PICK r : r = [Done EXCEPT !.pend = pend]
      OBVIOUS
    <3>4. r.op = "done" /\ r.pend = pend /\ r.then = "done"
      BY <3>3 DEF Done, Idle
    <3>5. Start(s, r)
      BY <2>2, <3>1, <3>3
    <3> QED BY <1>2, <3>2, <3>4, <3>5 DEF CutsJob
  <2>3. CASE Start(s, [Idle EXCEPT !.op = "cascade", !.top = f, !.stack = {f}])
    <3>1. PICK r : r = [Idle EXCEPT !.op = "cascade", !.top = f, !.stack = {f}]
      OBVIOUS
    <3>2. r.op = "cascade" /\ r.pend = NoPend /\ r.then = "done"
      BY <3>1 DEF Idle
    <3> QED BY <1>3, <2>3, <3>1, <3>2
  <2> QED BY <2>1, <2>2, <2>3
<1>8. CASE ReorderFolders(s)
  <2>1. PICK ids \in SUBSET Folders, p \in Folders \cup {Root} :
          Start(s, [Idle EXCEPT !.op = "reorder_folders", !.to = p, !.todo = ids])
    BY <1>8 DEF ReorderFolders
  <2>2. PICK r : r = [Idle EXCEPT !.op = "reorder_folders", !.to = p, !.todo = ids]
    OBVIOUS
  <2>3. r.op = "reorder_folders" /\ r.pend = NoPend /\ r.then = "done"
    BY <2>2 DEF Idle
  <2> QED BY <1>3, <2>1, <2>2, <2>3
<1>9. CASE EditBookmarks(s)
  <2>1. PICK ids \in SUBSET Bookmarks, f \in Folders :
          \/ Start(s, [Idle EXCEPT !.op = "move_bookmarks", !.to = f, !.todo = ids])
          \/ Start(s, [Idle EXCEPT !.op = "reorder_bookmarks", !.to = f, !.todo = ids])
          \/ Start(s, [Idle EXCEPT !.op = "delete_bookmarks", !.todo = ids])
    BY <1>9 DEF EditBookmarks
  <2>2. \A op : op \in Op => [Idle EXCEPT !.op = op, !.to = f, !.todo = ids].op = op
    BY DEF Idle
  <2>3. CASE Start(s, [Idle EXCEPT !.op = "move_bookmarks", !.to = f, !.todo = ids])
    <3>1. PICK r : r = [Idle EXCEPT !.op = "move_bookmarks", !.to = f, !.todo = ids]
      OBVIOUS
    <3>2. r.op = "move_bookmarks" /\ r.pend = NoPend /\ r.then = "done"
      BY <3>1 DEF Idle
    <3> QED BY <1>3, <2>3, <3>1, <3>2
  <2>4. CASE Start(s, [Idle EXCEPT !.op = "reorder_bookmarks", !.to = f, !.todo = ids])
    <3>1. PICK r : r = [Idle EXCEPT !.op = "reorder_bookmarks", !.to = f, !.todo = ids]
      OBVIOUS
    <3>2. r.op = "reorder_bookmarks" /\ r.pend = NoPend /\ r.then = "done"
      BY <3>1 DEF Idle
    <3> QED BY <1>3, <2>4, <3>1, <3>2
  <2>5. CASE Start(s, [Idle EXCEPT !.op = "delete_bookmarks", !.todo = ids])
    <3>1. PICK r : r = [Idle EXCEPT !.op = "delete_bookmarks", !.todo = ids]
      OBVIOUS
    <3>2. r.op = "delete_bookmarks" /\ r.pend = NoPend /\ r.then = "done"
      BY <3>1 DEF Idle
    <3> QED BY <1>3, <2>5, <3>1, <3>2
  <2> QED BY <2>1, <2>3, <2>4, <2>5
<1>10. CASE BeginMerge(s)
  <2>1. PICK list : list = {b \in Bookmarks : Live(db, b)}
    OBVIOUS
  <2>2. PICK r : r = [Idle EXCEPT !.op = "merge_folder", !.todo = list]
    OBVIOUS
  <2>3. r.op = "merge_folder" /\ r.pend = NoPend /\ r.then = "done" /\ Start(s, r)
    BY <1>10, <2>1, <2>2 DEF Idle, BeginMerge
  <2> QED BY <1>3, <2>3
<1>11. CASE BeginGc(s)
  <2>1. PICK list : list = {b \in Bookmarks : db[b].st = "stale"}
    OBVIOUS
  <2>2. PICK r : r = [Idle EXCEPT !.op = "gc_list", !.pend = Pend(list, Removed)]
    OBVIOUS
  <2>3. r.op = "gc_list" /\ r.pend = Pend(list, Removed) /\ r.then = "done" /\ Start(s, r)
    BY <1>11, <2>1, <2>2 DEF Idle, BeginGc
  <2>4. \A i \in Ids : r.pend[i].st # "live"
    BY <2>3
  <2> QED BY <1>2, <2>3, <2>4 DEF CutsJob
<1> QED BY <1>4, <1>5, <1>6, <1>7, <1>8, <1>9, <1>10, <1>11 DEF Begin

LEMMA BeginReplaceSwap ==
  ASSUME SwapInv, IInv', NEW s \in Restores, BeginReplace(s)  PROVE SwapInv'
<1> USE OwnRows, PendStates
<1>1. PICK list : list = {b \in Bookmarks : Live(db, b)}
  OBVIOUS
<1>2. PICK r : r = [Idle EXCEPT !.op = "replace_bookmarks", !.to = FolderOf[s],
                                !.then = "replace_folders", !.todo = list]
  OBVIOUS
<1>3. /\ s \in Sessions /\ s \notin Writers /\ result[s] = "running" /\ job[s] = Idle
      /\ job' = [job EXCEPT ![s] = r] /\ UNCHANGED <<db, tx, result>>
  BY <1>1, <1>2, IdsAssumption DEF BeginReplace, Start, Sessions
<1>4. /\ r.op = "replace_bookmarks" /\ r.to = FolderOf[s] /\ r.then = "replace_folders" /\ r.todo = list
      /\ r.pend = NoPend
  BY <1>2 DEF Idle
<1>5. View(s) = db
  BY <1>3 DEF View, SwapInv, IInv, Holds, Idle
<1>6. Doomed(View(s), r, BookmarkOf[Seed])
  <2>1. BookmarkOf[Seed] \in Bookmarks /\ BookmarkOf[Seed] # Root
    BY InboxAssumption, IdsAssumption DEF Origin, Ids
  <2>2. db[BookmarkOf[Seed]].st = "live" => BookmarkOf[Seed] \in r.todo
    BY <1>1, <1>4, <2>1 DEF Live
  <2> QED BY <1>5, <2>2 DEF Doomed
<1>7. Honest(s, r) /\ r.op # "idle"
  BY <1>4, <1>6 DEF Honest, Swaps, Cascades
<1> QED BY <1>3, <1>7, JobSwap

LEMMA ReadOnSwap ==
  ASSUME SwapInv, IInv', NEW s \in Sessions, ReadOn(s)  PROVE SwapInv'
<1> USE OwnRows, PendStates
<1>1. PICK v, x, r : v = View(s) /\ x = tx[s] /\ r = job[s]
  OBVIOUS
<1>2. /\ r \in Job
      /\ r.op \in {"reorder_folders", "replace_folders"} \cup Cascades => r.todo \subseteq Folders
      /\ \A i \in Ids : r.pend[i].st = "live" => i \in Own(s)
      /\ s \in Restores => Swaps(s, v, x, r) /\ (r # Idle => result[s] = "running")
      /\ s \in Writers => \/ AddsJob(r) /\ \A i \in Holds(s) : db[i].st = "live" => x[i].st = "live"
                          \/ CutsJob(r) /\ \A i \in Holds(s) : x[i].st = "live" => db[i].st = "live"
  <2>1. r \in Job /\ (r.op \in {"reorder_folders", "replace_folders"} \cup Cascades => r.todo \subseteq Folders)
    BY <1>1 DEF SwapInv, IInv, Spares, Cascades
  <2>2. Honest(s, r) /\ (s \in Writers => Adds(s) \/ Cuts(s)) /\ (s \in Restores /\ r # Idle => result[s] = "running")
    BY <1>1 DEF SwapInv
  <2> QED BY <1>1, <2>1, <2>2 DEF Honest, Adds, Cuts
<1>3. ASSUME NEW q, Goes(s, q), r.op # "idle", q.op # "idle", \A i \in Ids : q.pend[i].st = "live" => i \in Own(s),
             s \in Restores => Swaps(s, v, x, q),
             s \in Writers => (AddsJob(r) => AddsJob(q)) /\ (CutsJob(r) => CutsJob(q))
      PROVE  SwapInv'
  <2>1. job' = [job EXCEPT ![s] = q] /\ UNCHANGED <<db, tx, result>>
    BY <1>3 DEF Goes
  <2>2. r # Idle
    BY <1>3 DEF Idle
  <2>3. Honest(s, q)
    BY <1>1, <1>3 DEF Honest
  <2>4. s \in Writers => \/ AddsJob(q) /\ \A i \in Holds(s) : db[i].st = "live" => tx[s][i].st = "live"
                         \/ CutsJob(q) /\ \A i \in Holds(s) : tx[s][i].st = "live" => db[i].st = "live"
    BY <1>1, <1>2, <1>3
  <2>5. s \in Restores => result[s] = "running"
    BY <1>2, <2>2
  <2> QED BY <1>3, <2>1, <2>3, <2>4, <2>5, JobSwap
\* A list or a cascade of a request other than an import.
<1>4. ASSUME NEW q, Goes(s, q), r.op \in {"reorder_folders", "move_bookmarks", "reorder_bookmarks", "delete_bookmarks",
                                          "gc_list", "gc_folders"},
             q.op \in {"done", r.op, "gc_folders"}, q.then = "done" \/ q.then = r.then, \A i \in Ids : q.pend[i].st # "live"
      PROVE  SwapInv'
  <2>1. s \notin Restores /\ ~AddsJob(r)
    BY <1>2, <1>4 DEF Swaps, AddsJob, Cascades
  <2>2. CutsJob(r) => CutsJob(q)
    BY <1>4 DEF CutsJob
  <2> QED BY <1>3, <1>4, <2>1, <2>2
<1>5. ASSUME NEW i, NEW pend, \A j \in Ids : pend[j].st # "live",
             NEW q, q = [Rest(r, i) EXCEPT !.pend = pend], Goes(s, q),
             r.op \in {"reorder_folders", "move_bookmarks", "reorder_bookmarks", "delete_bookmarks"}
      PROVE  SwapInv'
  <2>1. q.op \in {"done", r.op} /\ q.pend = pend /\ (q.then = "done" \/ q.then = r.then)
    <3>1. CASE r.todo = {i}
      BY <1>5, <3>1 DEF Rest, Done, Idle
    <3>2. CASE r.todo # {i}
      BY <1>2, <1>5, <3>2 DEF Rest, Job
    <3> QED BY <3>1, <3>2
  <2>2. q.op \in {"done", r.op, "gc_folders"} /\ \A j \in Ids : q.pend[j].st # "live"
    BY <1>5, <2>1
  <2>3. Goes(s, q) /\ r.op \in {"reorder_folders", "move_bookmarks", "reorder_bookmarks", "delete_bookmarks", "gc_list", "gc_folders"}
    BY <1>5
  <2>4. q.then = "done" \/ q.then = r.then
    BY <2>1
  <2> QED BY <1>4, <2>2, <2>3, <2>4
<1>6. CASE ReorderNext(s)
  <2>1. PICK f \in r.todo : r.op = "reorder_folders" /\ Goes(s, [Rest(r, f) EXCEPT !.pend = Pend({f}, Moved(v, f, r.to))])
    BY <1>1, <1>6 DEF ReorderNext, Reading
  <2>2. PICK pend : pend = Pend({f}, Moved(v, f, r.to))
    OBVIOUS
  <2>3. PICK q : q = [Rest(r, f) EXCEPT !.pend = pend]
    OBVIOUS
  <2>4. \A j \in Ids : pend[j].st # "live"
    BY <2>2
  <2>5. Goes(s, q)
    BY <2>1, <2>2, <2>3
  <2> QED BY <1>5, <2>1, <2>3, <2>4, <2>5
<1>7. CASE MoveNext(s)
  <2>1. PICK b \in r.todo :
          /\ r.op \in {"move_bookmarks", "reorder_bookmarks"}
          /\ Goes(s, [Rest(r, b) EXCEPT !.pend = Pend({b}, Moved(v, b, r.to))])
    BY <1>1, <1>7 DEF MoveNext, Reading
  <2>2. PICK pend : pend = Pend({b}, Moved(v, b, r.to))
    OBVIOUS
  <2>3. PICK q : q = [Rest(r, b) EXCEPT !.pend = pend]
    OBVIOUS
  <2>4. \A j \in Ids : pend[j].st # "live"
    BY <2>2
  <2>5. Goes(s, q)
    BY <2>1, <2>2, <2>3
  <2> QED BY <1>5, <2>1, <2>3, <2>4, <2>5
<1>8. CASE DeleteNext(s)
  <2>1. PICK b \in r.todo : r.op = "delete_bookmarks" /\ Goes(s, [Rest(r, b) EXCEPT !.pend = Pend({b}, Trashed)])
    BY <1>1, <1>8 DEF DeleteNext, Reading
  <2>2. PICK pend : pend = Pend({b}, Trashed)
    OBVIOUS
  <2>3. PICK q : q = [Rest(r, b) EXCEPT !.pend = pend]
    OBVIOUS
  <2>4. \A j \in Ids : pend[j].st # "live"
    BY <2>2
  <2>5. Goes(s, q)
    BY <2>1, <2>2, <2>3
  <2> QED BY <1>5, <2>1, <2>3, <2>4, <2>5
<1>9. CASE GcListFolders(s)
  <2>1. PICK list : list = {f \in Folders \ {Inbox} : v[f].st = "stale"}
    OBVIOUS
  <2>2. PICK q : q = [r EXCEPT !.op = "gc_folders", !.todo = list]
    OBVIOUS
  <2>3. Goes(s, q) /\ r.op = "gc_list" /\ r.pend = NoPend
    BY <1>1, <1>9, <2>1, <2>2 DEF GcListFolders, Reading
  <2>4. q.op = "gc_folders" /\ q.then = r.then /\ q.pend = NoPend
    BY <1>2, <2>2, <2>3 DEF Job
  <2> QED BY <1>4, <2>3, <2>4
<1>10. CASE GcDeleteLeaves(s)
  <2>1. PICK leaves : leaves = Leaves(v, r.todo)
    OBVIOUS
  <2>2. PICK pend : pend = Pend(leaves, Removed)
    OBVIOUS
  <2>3. r.op = "gc_folders" /\ r.pend = NoPend /\ \A i \in Ids : pend[i].st # "live"
    BY <1>1, <1>10, <2>2 DEF GcDeleteLeaves, Reading
  <2>4. PICK q : /\ Goes(s, q)
                 /\ q = [r EXCEPT !.op = "done"] \/ q = [r EXCEPT !.todo = @ \ leaves, !.pend = pend]
    BY <1>1, <1>10, <2>1, <2>2 DEF GcDeleteLeaves
  <2>5. q.op \in {"done", r.op} /\ q.then = r.then /\ (q.pend = NoPend \/ q.pend = pend)
    <3>1. CASE q = [r EXCEPT !.op = "done"]
      BY <1>2, <2>3, <3>1 DEF Job
    <3>2. CASE q = [r EXCEPT !.todo = @ \ leaves, !.pend = pend]
      BY <1>2, <2>3, <3>2 DEF Job
    <3> QED BY <2>4, <3>1, <3>2, Zenon
  <2> QED BY <1>4, <2>3, <2>4, <2>5
\* An import with merge or skip_duplicate.
<1>11. ASSUME NEW q, Goes(s, q), r.op \in {"merge_folder", "merge_item"}, AddsJob(q), \A i \in Ids : q.pend[i].st = "live" => i \in Own(s)
       PROVE  SwapInv'
  <2>1. s \notin Restores /\ ~CutsJob(r) /\ r.op # "idle" /\ q.op # "idle"
    BY <1>2, <1>11 DEF Swaps, CutsJob, AddsJob, Cascades
  <2> QED BY <1>3, <1>11, <2>1
<1>12. CASE MergeFolder(s)
  <2>1. r.op = "merge_folder" /\ r.pend = NoPend
    BY <1>1, <1>12 DEF MergeFolder, Reading
  <2>2. ASSUME NEW g \in Folders, Goes(s, [r EXCEPT !.op = "merge_item", !.to = g])  PROVE SwapInv'
    <3>1. PICK q : q = [r EXCEPT !.op = "merge_item", !.to = g]
      OBVIOUS
    <3>2. q.op = "merge_item" /\ q.pend = NoPend /\ Goes(s, q)
      BY <1>2, <2>1, <2>2, <3>1 DEF Job
    <3>3. AddsJob(q) /\ \A i \in Ids : q.pend[i].st # "live"
      BY <3>2 DEF AddsJob
    <3> QED BY <1>11, <2>1, <3>2, <3>3
  <2>3. ASSUME NEW p \in Folders \cup {Root},
               Goes(s, [r EXCEPT !.op = "merge_item", !.to = FolderOf[s], !.pend = Pend({FolderOf[s]}, Inserted(p))])
        PROVE  SwapInv'
    <3>1. PICK pend : pend = Pend({FolderOf[s]}, Inserted(p))
      OBVIOUS
    <3>2. PICK q : q = [r EXCEPT !.op = "merge_item", !.to = FolderOf[s], !.pend = pend]
      OBVIOUS
    <3>3. q.op = "merge_item" /\ q.pend = pend /\ Goes(s, q)
      BY <1>2, <2>1, <2>3, <3>1, <3>2 DEF Job
    <3>4. \A i \in Ids : pend[i].st = IF i = FolderOf[s] THEN "live" ELSE "same"
      BY <3>1
    <3>5. AddsJob(q) /\ \A i \in Ids : q.pend[i].st = "live" => i \in Own(s)
      BY <3>3, <3>4 DEF AddsJob, Own
    <3> QED BY <1>11, <2>1, <3>3, <3>5
  <2> QED BY <1>1, <1>12, <2>2, <2>3 DEF MergeFolder
<1>13. CASE MergeItem(s)
  <2>1. r.op = "merge_item"
    BY <1>1, <1>13 DEF MergeItem, Reading
  <2>2. PICK next \in {Done, [r EXCEPT !.op = "merge_folder", !.to = Root]} :
          \/ \E hit \in r.todo :
               Goes(s, [next EXCEPT !.todo = @ \ {hit}, !.pend = Pend({hit}, Moved(v, hit, r.to))])
          \/ Goes(s, [next EXCEPT !.pend = Pend({BookmarkOf[s]}, Inserted(r.to))])
    BY <1>1, <1>13, Zenon DEF MergeItem
  <2>3. next \in Job /\ next.op \in {"done", "merge_folder"}
    <3>1. CASE next = Done
      BY <3>1, IdleOK DEF Done, Idle, Spares
    <3>2. CASE next = [r EXCEPT !.op = "merge_folder", !.to = Root]
      BY <1>2, <3>2 DEF Job, Op
    <3> QED BY <2>2, <3>1, <3>2
  <2>4. ASSUME NEW hit \in r.todo,
               Goes(s, [next EXCEPT !.todo = @ \ {hit}, !.pend = Pend({hit}, Moved(v, hit, r.to))])
        PROVE  SwapInv'
    <3>1. PICK pend : pend = Pend({hit}, Moved(v, hit, r.to))
      OBVIOUS
    <3>2. PICK q : q = [next EXCEPT !.todo = @ \ {hit}, !.pend = pend]
      OBVIOUS
    <3>3. q.op = next.op /\ q.pend = pend /\ Goes(s, q)
      BY <2>3, <2>4, <3>1, <3>2 DEF Job
    <3>4. \A i \in Ids : pend[i].st \in {"same", "touched"}
      BY <3>1
    <3>5. AddsJob(q) /\ \A i \in Ids : q.pend[i].st # "live"
      BY <2>3, <3>3, <3>4 DEF AddsJob
    <3> QED BY <1>11, <2>1, <3>3, <3>5
  <2>5. CASE Goes(s, [next EXCEPT !.pend = Pend({BookmarkOf[s]}, Inserted(r.to))])
    <3>1. PICK pend : pend = Pend({BookmarkOf[s]}, Inserted(r.to))
      OBVIOUS
    <3>2. PICK q : q = [next EXCEPT !.pend = pend]
      OBVIOUS
    <3>3. q.op = next.op /\ q.pend = pend /\ Goes(s, q)
      BY <2>3, <2>5, <3>1, <3>2 DEF Job
    <3>4. \A i \in Ids : pend[i].st = IF i = BookmarkOf[s] THEN "live" ELSE "same"
      BY <3>1
    <3>5. AddsJob(q) /\ \A i \in Ids : q.pend[i].st = "live" => i \in Own(s)
      BY <2>3, <3>3, <3>4 DEF AddsJob, Own
    <3> QED BY <1>11, <2>1, <3>3, <3>5
  <2> QED BY <2>2, <2>4, <2>5
<1>14. CASE SkipItem(s)
  <2>1. PICK q : q = Done
    OBVIOUS
  <2>2. q.op = "done" /\ q.pend = NoPend /\ Goes(s, q) /\ r.op = "merge_item"
    BY <1>1, <1>14, <2>1 DEF SkipItem, Reading, Done, Idle
  <2>3. AddsJob(q) /\ \A i \in Ids : q.pend[i].st # "live"
    BY <2>2 DEF AddsJob
  <2> QED BY <1>11, <2>2, <2>3
\* A cascade: of a delete, or of a folder that a replace_all trashes.
<1>15. ASSUME NEW q, Goes(s, q), r.op \in Cascades, q.op \in {r.then} \cup Cascades, q.then = r.then, q.to = r.to,
              \A i \in Ids : q.pend[i].st # "live",
              r.then = "replace_folders" => Doomed(v, q, FolderOf[Seed])
       PROVE  SwapInv'
  <2>1. ~AddsJob(r) /\ r.op # "idle" /\ r.then \in {"done", "replace_folders"}
    BY <1>2, <1>15 DEF AddsJob, Cascades, Job
  <2>2. q.op # "idle"
    BY <1>15, <2>1 DEF Cascades
  <2>3. CutsJob(r) => CutsJob(q)
    BY <1>15, <2>1 DEF CutsJob, Cascades
  <2>4. Swaps(s, v, x, r) => Swaps(s, v, x, q)
    BY <1>15 DEF Swaps, Cascades
  <2> QED BY <1>2, <1>3, <1>15, <2>1, <2>2, <2>3, <2>4
<1>16. CASE CascadePop(s)
  <2>1. PICK f \in r.stack :
          /\ r.op = "cascade" /\ r.pend = NoPend
          /\ Goes(s, [r EXCEPT !.op = "cascade_bookmarks", !.at = f,
                               !.stack = (@ \ {f}) \cup Kids(v, f), !.pend = Pend(Kids(v, f), Trashed)])
    BY <1>1, <1>16 DEF CascadePop, Reading
  <2>2. PICK kids, pend : kids = Kids(v, f) /\ pend = Pend(kids, Trashed)
    OBVIOUS
  <2>3. PICK q : q = [r EXCEPT !.op = "cascade_bookmarks", !.at = f, !.stack = (@ \ {f}) \cup kids, !.pend = pend]
    OBVIOUS
  <2>4. /\ Goes(s, q) /\ q.op = "cascade_bookmarks" /\ q.pend = pend /\ q.then = r.then /\ q.to = r.to
        /\ q.top = r.top /\ q.todo = r.todo
    BY <1>2, <2>1, <2>2, <2>3 DEF Job
  <2>5. \A i \in Ids : pend[i].st # "live" /\ r.pend[i].st = "same"
    BY <2>1, <2>2
  <2>6. Doomed(v, r, FolderOf[Seed]) => Doomed(v, q, FolderOf[Seed])
    BY <2>1, <2>4, <2>5, IdKinds DEF Doomed, Cascades
  <2>7. r.then = "replace_folders" => Doomed(v, r, FolderOf[Seed])
    BY <1>2, <2>1, IdsAssumption DEF Swaps, AddsJob, CutsJob, Cascades, Sessions
  <2> QED BY <1>15, <2>1, <2>4, <2>5, <2>6, <2>7 DEF Cascades
<1>17. CASE CascadeBookmarks(s)
  <2>1. /\ r.op = "cascade_bookmarks" /\ r.pend = NoPend
        /\ Goes(s, [r EXCEPT !.op = "cascade", !.at = Root, !.pend = Pend(LiveIn(v, r.at), Trashed)])
    BY <1>1, <1>17 DEF CascadeBookmarks, Reading
  <2>2. PICK pend : pend = Pend(LiveIn(v, r.at), Trashed)
    OBVIOUS
  <2>3. PICK q : q = [r EXCEPT !.op = "cascade", !.at = Root, !.pend = pend]
    OBVIOUS
  <2>4. /\ Goes(s, q) /\ q.op = "cascade" /\ q.pend = pend /\ q.then = r.then /\ q.to = r.to
        /\ q.top = r.top /\ q.todo = r.todo
    BY <1>2, <2>1, <2>2, <2>3 DEF Job
  <2>5. \A i \in Ids : pend[i].st # "live" /\ r.pend[i].st = "same"
    BY <2>1, <2>2
  <2>6. Doomed(v, r, FolderOf[Seed]) => Doomed(v, q, FolderOf[Seed])
    BY <2>1, <2>4, <2>5, IdKinds DEF Doomed, Cascades
  <2>7. r.then = "replace_folders" => Doomed(v, r, FolderOf[Seed])
    BY <1>2, <2>1, IdsAssumption DEF Swaps, AddsJob, CutsJob, Cascades, Sessions
  <2> QED BY <1>15, <2>1, <2>4, <2>5, <2>6, <2>7 DEF Cascades
<1>18. CASE CascadeEnd(s)
  <2>1. /\ r.op = "cascade" /\ r.pend = NoPend
        /\ Goes(s, [r EXCEPT !.op = r.then, !.top = Root, !.pend = Pend({r.top}, Trashed)])
    BY <1>1, <1>18 DEF CascadeEnd, Reading
  <2>2. PICK pend : pend = Pend({r.top}, Trashed)
    OBVIOUS
  <2>3. PICK q : q = [r EXCEPT !.op = r.then, !.top = Root, !.pend = pend]
    OBVIOUS
  <2>4. /\ Goes(s, q) /\ q.op = r.then /\ q.pend = pend /\ q.then = r.then /\ q.to = r.to
        /\ q.todo = r.todo
    BY <1>2, <2>1, <2>2, <2>3 DEF Job
  <2>5. \A i \in Ids : /\ pend[i].st # "live" /\ r.pend[i].st = "same"
                       /\ i = r.top => pend[i].st = "trash"
    BY <2>1, <2>2
  <2>6. Doomed(v, r, FolderOf[Seed]) => Doomed(v, q, FolderOf[Seed])
    BY <2>1, <2>4, <2>5, IdKinds DEF Doomed, Cascades
  <2>7. r.then = "replace_folders" => Doomed(v, r, FolderOf[Seed])
    BY <1>2, <2>1, IdsAssumption DEF Swaps, AddsJob, CutsJob, Cascades, Sessions
  <2> QED BY <1>15, <2>1, <2>4, <2>5, <2>6, <2>7 DEF Cascades
\* The steps of a replace_all.
<1>19. ASSUME NEW q, Goes(s, q), r.op \in {"replace_bookmarks", "replace_folders", "replace_create"}, q.op # "idle",
              \A i \in Ids : q.pend[i].st = "live" => i \in Own(s), Swaps(s, v, x, r) => Swaps(s, v, x, q)
       PROVE  SwapInv'
  <2>1. ~AddsJob(r) /\ ~CutsJob(r) /\ r.op # "idle"
    BY <1>19 DEF AddsJob, CutsJob
  <2>2. s \in Restores => Swaps(s, v, x, q)
    BY <1>2, <1>19
  <2>3. s \in Writers => (AddsJob(r) => AddsJob(q)) /\ (CutsJob(r) => CutsJob(q))
    BY <2>1
  <2> QED BY <1>3, <1>19, <2>1, <2>2, <2>3
<1>20. CASE ReplaceBookmark(s)
  <2>1. PICK b \in r.todo : /\ r.op = "replace_bookmarks" /\ r.pend = NoPend
                            /\ Goes(s, [r EXCEPT !.todo = @ \ {b}, !.pend = Pend({b}, Trashed)])
    BY <1>1, <1>20 DEF ReplaceBookmark, Reading
  <2>2. PICK pend : pend = Pend({b}, Trashed)
    OBVIOUS
  <2>3. PICK q : q = [r EXCEPT !.todo = @ \ {b}, !.pend = pend]
    OBVIOUS
  <2>4. /\ Goes(s, q) /\ q.op = "replace_bookmarks" /\ q.pend = pend /\ q.then = r.then /\ q.to = r.to
        /\ q.todo = r.todo \ {b}
    BY <1>2, <2>1, <2>2, <2>3 DEF Job
  <2>5. \A i \in Ids : /\ pend[i].st # "live" /\ r.pend[i].st = "same"
                       /\ i = b => pend[i].st = "trash"
    BY <2>1, <2>2
  <2>6. Doomed(v, r, BookmarkOf[Seed]) => Doomed(v, q, BookmarkOf[Seed])
    BY <2>1, <2>4, <2>5, IdKinds DEF Doomed, Cascades
  <2>7. Swaps(s, v, x, r) => Swaps(s, v, x, q)
    BY <2>1, <2>4, <2>6 DEF Swaps, Cascades
  <2> QED BY <1>19, <2>1, <2>4, <2>5, <2>7
<1>21. CASE ReplaceListFolders(s)
  <2>1. PICK list : list = {f \in Folders \ {Inbox} : Live(v, f)}
    OBVIOUS
  <2>2. PICK q : q = [r EXCEPT !.op = "replace_folders", !.todo = list]
    OBVIOUS
  <2>3. Goes(s, q) /\ r.op = "replace_bookmarks" /\ r.pend = NoPend /\ r.todo = {}
    BY <1>1, <1>21, <2>1, <2>2 DEF ReplaceListFolders, Reading
  <2>4. q.op = "replace_folders" /\ q.pend = NoPend /\ q.then = r.then /\ q.to = r.to /\ q.todo = list
    BY <1>2, <2>2, <2>3 DEF Job
  <2>5. Doomed(v, r, BookmarkOf[Seed]) => v[BookmarkOf[Seed]].st # "live"
    BY <2>3, IdKinds DEF Doomed, Cascades
  <2>6. Doomed(v, q, FolderOf[Seed])
    <3>1. FolderOf[Seed] \in Folders \ {Inbox} /\ FolderOf[Seed] # Root
      BY IdKinds
    <3>2. v[FolderOf[Seed]].st = "live" => FolderOf[Seed] \in list
      BY <2>1, <3>1 DEF Live
    <3> QED BY <2>4, <3>2 DEF Doomed
  <2>7. Swaps(s, v, x, r) => Swaps(s, v, x, q)
    BY <2>3, <2>4, <2>5, <2>6 DEF Swaps, Cascades
  <2>8. \A i \in Ids : q.pend[i].st # "live"
    BY <2>4
  <2> QED BY <1>19, <2>3, <2>4, <2>7, <2>8
<1>22. CASE ReplaceFolder(s)
  <2>1. PICK f \in r.todo :
          /\ r.op = "replace_folders" /\ r.pend = NoPend
          /\ \/ Goes(s, [r EXCEPT !.todo = @ \ {f}, !.op = "cascade", !.top = f, !.stack = {f}])
             \/ ~Live(v, f) /\ Goes(s, [r EXCEPT !.todo = @ \ {f}])
    BY <1>1, <1>22 DEF ReplaceFolder, Reading
  <2>2. \A i \in Ids : r.pend[i].st = "same"
    BY <2>1
  <2>3. ASSUME NEW q, Goes(s, q), q.pend = r.pend, q.then = r.then, q.to = r.to, q.op \in {"replace_folders", "cascade"},
               Doomed(v, r, FolderOf[Seed]) => Doomed(v, q, FolderOf[Seed])
        PROVE  SwapInv'
    <3>1. Swaps(s, v, x, r) => Swaps(s, v, x, q)
      BY <2>1, <2>3 DEF Swaps, Cascades
    <3>2. \A i \in Ids : q.pend[i].st # "live"
      BY <2>2, <2>3
    <3> QED BY <1>19, <2>1, <2>3, <3>1, <3>2
  <2>4. CASE Goes(s, [r EXCEPT !.todo = @ \ {f}, !.op = "cascade", !.top = f, !.stack = {f}])
    <3>1. PICK q : q = [r EXCEPT !.todo = @ \ {f}, !.op = "cascade", !.top = f, !.stack = {f}]
      OBVIOUS
    <3>2. /\ Goes(s, q) /\ q.pend = r.pend /\ q.then = r.then /\ q.to = r.to /\ q.op = "cascade"
          /\ q.top = f /\ q.todo = r.todo \ {f}
      BY <1>2, <2>4, <3>1 DEF Job
    <3>3. Doomed(v, r, FolderOf[Seed]) => Doomed(v, q, FolderOf[Seed])
      BY <2>1, <2>2, <3>2, IdKinds DEF Doomed, Cascades
    <3> QED BY <2>3, <3>2, <3>3
  <2>5. CASE ~Live(v, f) /\ Goes(s, [r EXCEPT !.todo = @ \ {f}])
    <3>1. PICK q : q = [r EXCEPT !.todo = @ \ {f}]
      OBVIOUS
    <3>2. /\ Goes(s, q) /\ q.pend = r.pend /\ q.then = r.then /\ q.to = r.to /\ q.op = "replace_folders"
          /\ q.todo = r.todo \ {f}
      BY <1>2, <2>1, <2>5, <3>1 DEF Job
    <3>3. v[f].st # "live"
      BY <1>2, <2>1, <2>5, IdKinds DEF Live
    <3>4. Doomed(v, r, FolderOf[Seed]) => Doomed(v, q, FolderOf[Seed])
      BY <2>1, <2>2, <3>2, <3>3, IdKinds DEF Doomed, Cascades
    <3> QED BY <2>3, <3>2, <3>4
  <2> QED BY <2>1, <2>4, <2>5
<1>23. CASE ReplaceCreateFolder(s)
  <2>1. PICK pend : pend = Pend({FolderOf[s]}, Inserted(Root))
    OBVIOUS
  <2>2. PICK q : q = [r EXCEPT !.op = "replace_create", !.pend = pend]
    OBVIOUS
  <2>3. Goes(s, q) /\ r.op = "replace_folders" /\ r.pend = NoPend /\ r.todo = {}
    BY <1>1, <1>23, <2>1, <2>2 DEF ReplaceCreateFolder, Reading
  <2>4. q.op = "replace_create" /\ q.pend = pend /\ q.then = r.then /\ q.to = r.to
    BY <1>2, <2>2, <2>3 DEF Job
  <2>5. \A i \in Ids : pend[i].st = IF i = FolderOf[s] THEN "live" ELSE "same"
    BY <2>1
  <2>6. Doomed(v, r, FolderOf[Seed]) => v[FolderOf[Seed]].st # "live"
    BY <2>3, IdKinds DEF Doomed, Cascades
  <2>7. q.pend[FolderOf[s]].st = "live" /\ (\A i \in Ids : q.pend[i].st \in {"same", "live"})
    BY <2>4, <2>5, IdKinds
  <2>8. Swaps(s, v, x, r) => Swaps(s, v, x, q)
    BY <2>3, <2>4, <2>6, <2>7 DEF Swaps, Cascades, Old
  <2>9. \A i \in Ids : q.pend[i].st = "live" => i \in Own(s)
    BY <2>4, <2>5 DEF Own
  <2> QED BY <1>19, <2>3, <2>4, <2>8, <2>9
<1>24. CASE ReplaceCreateBookmark(s)
  <2>1. PICK pend : pend = Pend({BookmarkOf[s]}, Inserted(r.to))
    OBVIOUS
  <2>2. PICK q : q = [Done EXCEPT !.pend = pend]
    OBVIOUS
  <2>3. Goes(s, q) /\ r.op = "replace_create" /\ r.pend = NoPend
    BY <1>1, <1>24, <2>1, <2>2 DEF ReplaceCreateBookmark, Reading
  <2>4. q.op = "done" /\ q.pend = pend
    BY <2>2 DEF Done, Idle
  <2>5. \A i \in Ids : pend[i].st = IF i = BookmarkOf[s] THEN "live" ELSE "same"
    BY <2>1
  <2>6. r.pend[FolderOf[s]].st = "same"
    BY <2>3, IdKinds
  <2>7. q.pend[BookmarkOf[s]].st = "live" /\ (\A i \in Ids : q.pend[i].st \in {"same", "live"})
    BY <2>4, <2>5, IdKinds
  <2>8. Swaps(s, v, x, r) => Swaps(s, v, x, q)
    BY <2>3, <2>4, <2>6, <2>7 DEF Swaps, Cascades
  <2>9. \A i \in Ids : q.pend[i].st = "live" => i \in Own(s)
    BY <2>4, <2>5 DEF Own
  <2> QED BY <1>19, <2>3, <2>4, <2>8, <2>9
<1> QED BY <1>6, <1>7, <1>8, <1>9, <1>10, <1>12, <1>13, <1>14, <1>16, <1>17, <1>18, <1>20, <1>21, <1>22,
           <1>23, <1>24 DEF ReadOn

\* What a flush does.
LEMMA FlushRows ==
  ASSUME IInv, NEW s \in Sessions, Flush(s)
  PROVE  /\ View(s)' = After(s) /\ After(s) \in [Ids -> Row]
         /\ \A i \in Ids : tx'[s][i] = IF i \in Changed(s) THEN After(s)[i] ELSE tx[s][i]
         /\ Holds(s)' = Holds(s) \cup Changed(s)
         /\ \A t \in Sessions \ {s} : job'[t] = job[t] /\ tx'[t] = tx[t]
         /\ UNCHANGED <<db, result>>
<1>1. PICK v, r, new : v = View(s) /\ r = job[s] /\ new = After(s)
  OBVIOUS
<1>2. v \in [Ids -> Row] /\ r \in Job /\ new \in [Ids -> Row]
  BY <1>1, Viewed, WrittenRows DEF IInv, Spares, After, PendOK
<1>3. /\ tx' = [tx EXCEPT ![s] = [i \in Ids |-> IF i \in Changed(s) THEN new[i] ELSE @[i]]]
      /\ job' = [job EXCEPT ![s].pend = NoPend] /\ UNCHANGED <<db, result>>
  BY <1>1 DEF Flush, After, Written
<1>4. \A i \in Ids : tx'[s][i] = IF i \in Changed(s) THEN new[i] ELSE tx[s][i]
  BY <1>3 DEF IInv
<1>5. \A i \in Ids : i \notin Changed(s) => r.pend[i] = NoChange
  BY <1>1 DEF Changed
<1>6. \A i \in Ids : i \notin Changed(s) => new[i] = v[i]
  BY <1>1, <1>2, <1>5 DEF After, Written, Apply, NoChange, Row
<1>7. \A i \in Ids : new[i] # Untouched
  BY <1>2 DEF Row, Untouched, State
<1>8. View(s)' = new
  <2>1. \A i \in Ids : (IF tx'[s][i] = Untouched THEN db'[i] ELSE tx'[s][i]) = new[i]
    BY <1>1, <1>3, <1>4, <1>6, <1>7 DEF View
  <2> QED BY <1>2, <2>1 DEF View
<1>9. Holds(s)' = Holds(s) \cup Changed(s)
  BY <1>4, <1>7 DEF Holds, Changed
<1> QED BY <1>1, <1>2, <1>3, <1>4, <1>8, <1>9 DEF IInv

\* A flushed row: what its change says, or what was seen.
LEMMA FlushedState ==
  ASSUME IInv, NEW s \in Sessions, NEW i \in Ids
  PROVE  LET c == job[s].pend[i].st IN
         After(s)[i].st = IF c \in {"same", "touched"} THEN View(s)[i].st ELSE c
BY DEF After, Written, Apply

LEMMA FlushSwap ==
  ASSUME SwapInv, IInv', NEW s \in Sessions, Flush(s)  PROVE SwapInv'
<1> USE OwnRows, PendStates
<1>1. PICK v, x, r, new, y, q : /\ v = View(s) /\ x = tx[s] /\ r = job[s] /\ new = After(s)
                                /\ y = tx'[s] /\ q = job'[s]
  OBVIOUS
<1>2. /\ View(s)' = new /\ UNCHANGED <<db, result>>
      /\ \A i \in Ids : y[i] = IF i \in Changed(s) THEN new[i] ELSE x[i]
      /\ Holds(s)' = Holds(s) \cup Changed(s)
      /\ \A t \in Sessions \ {s} : job'[t] = job[t] /\ tx'[t] = tx[t]
  BY <1>1, FlushRows DEF SwapInv
<1>3. r \in Job /\ r.pend # NoPend /\ q = [r EXCEPT !.pend = NoPend]
  BY <1>1 DEF Flush, SwapInv, IInv, Spares
<1>4. /\ q.pend = NoPend /\ q.op = r.op /\ q.at = r.at /\ q.top = r.top /\ q.to = r.to
      /\ q.todo = r.todo /\ q.stack = r.stack /\ q.then = r.then
  BY <1>3 DEF Job
<1>5. r.op # "idle" /\ r # Idle /\ q.op # "idle"
  BY <1>1, <1>3, <1>4 DEF SwapInv, Idle
<1>6. \A i \in Ids : /\ new[i].st = IF r.pend[i].st \in {"same", "touched"} THEN v[i].st ELSE r.pend[i].st
                     /\ v[i] = IF x[i] = Untouched THEN db[i] ELSE x[i]
                     /\ i \in Holds(s) <=> x[i] # Untouched
                     /\ i \in Changed(s) <=> r.pend[i] # NoChange
  BY <1>1 DEF After, Written, Apply, View, Holds, Changed
<1>7. Untouched.st = "untouched" /\ NoChange.st = "same"
  BY DEF Untouched, NoChange
\* No other session holds what this one has changed.
<1>8. ASSUME NEW t \in Sessions \ {s}  PROVE Changed(s) \cap Holds(t) = {} /\ Holds(t)' = Holds(t)
  BY <1>2 DEF Flush, MayWrite, Holds
<1>9. \A t, u \in Sessions : t # u => Holds(t)' \cap Holds(u)' = {}
  BY <1>2, <1>8 DEF SwapInv
<1>10. \A i \in Holds(s)' : y[i].st = "live" => db[i].st = "live" \/ i \in Own(s)
  <2>1. \A i \in Ids : r.pend[i].st = "live" => i \in Own(s)
    BY <1>1 DEF SwapInv, Honest
  <2>2. \A i \in Holds(s) : x[i].st = "live" => db[i].st = "live" \/ i \in Own(s)
    BY <1>1 DEF SwapInv
  <2>3. Holds(s)' \subseteq Ids
    BY DEF Holds
  <2> QED BY <1>2, <1>6, <2>1, <2>2, <2>3
<1>11. s \in Writers => Adds(s)' \/ Cuts(s)'
  <2>1. CASE Adds(s)
    <3>1. AddsJob(q)
      BY <1>1, <1>4, <2>1 DEF Adds, AddsJob
    <3>2. \A i \in Holds(s)' : db[i].st = "live" => y[i].st = "live"
      BY <1>1, <1>2, <1>6, <2>1 DEF Adds, AddsJob, Holds
    <3> QED BY <1>1, <1>2, <3>1, <3>2 DEF Adds, AddsJob
  <2>2. CASE Cuts(s)
    <3>1. CutsJob(q)
      BY <1>1, <1>4, <2>2 DEF Cuts, CutsJob
    <3>2. \A i \in Holds(s)' : y[i].st = "live" => db[i].st = "live"
      BY <1>1, <1>2, <1>6, <2>2 DEF Cuts, CutsJob, Holds
    <3> QED BY <1>1, <1>2, <3>1, <3>2 DEF Cuts, CutsJob
  <2> QED BY <2>1, <2>2 DEF SwapInv
<1>12. ASSUME s \in Restores  PROVE Swaps(s, new, y, q)
  <2>1. Swaps(s, v, x, r) /\ \A i \in Ids : r.pend[i].st = "live" => i \in Own(s)
    BY <1>1, <1>12 DEF SwapInv, Honest
  <2>2. \A i \in Old : v[i].st # "live" => new[i].st # "live"
    BY <1>6, <2>1
  <2>3. \A i \in Old : Doomed(v, r, i) => Doomed(new, q, i)
    BY <1>4, <1>6, <2>2 DEF Doomed
  <2>4. ASSUME NEW i \in Own(s), r.op \in {"replace_create", "done"}
        PROVE  (x[i].st = "live" => y[i].st = "live") /\ (r.pend[i].st = "live" => y[i].st = "live")
    <3>1. i \in Ids /\ r.pend[i].st \in {"same", "live"}
      BY <2>1, <2>4 DEF Swaps
    <3> QED BY <1>2, <1>6, <1>7, <3>1
  <2>5. FolderOf[s] \in Own(s) /\ BookmarkOf[s] \in Own(s) /\ FolderOf[Seed] \in Old /\ BookmarkOf[Seed] \in Old
    BY DEF Own, Old
  <2>6. q.op \in {"replace_create", "done"} =>
          /\ \A i \in Old : new[i].st # "live"
          /\ \A i \in Ids : q.pend[i].st \in {"same", "live"}
          /\ y[FolderOf[s]].st = "live"
          /\ q.op = "done" => y[BookmarkOf[s]].st = "live"
    BY <1>4, <2>1, <2>2, <2>4, <2>5 DEF Swaps
  <2>7. q.op = "replace_bookmarks" => q.then = "replace_folders" /\ Doomed(new, q, BookmarkOf[Seed])
    BY <1>4, <2>1, <2>3, <2>5 DEF Swaps
  <2>8. q.op \in {"replace_folders"} \cup Cascades =>
          q.then = "replace_folders" /\ new[BookmarkOf[Seed]].st # "live" /\ Doomed(new, q, FolderOf[Seed])
    BY <1>4, <2>1, <2>2, <2>3, <2>5 DEF Swaps
  <2> QED BY <1>4, <2>1, <2>6, <2>7, <2>8 DEF Swaps
<1>13. ASSUME NEW t \in Sessions
       PROVE  /\ job'[t].op = "idle" => job'[t] = Idle /\ Holds(t)' = {}
              /\ \A i \in Holds(t)' : tx'[t][i].st = "live" => db'[i].st = "live" \/ i \in Own(t)
              /\ Honest(t, job[t])'
              /\ t \in Writers => Adds(t)' \/ Cuts(t)'
              /\ t \in Restores /\ job'[t] # Idle => result'[t] = "running"
  <2>1. CASE t = s
    <3>1. Honest(s, q)'
      BY <1>1, <1>2, <1>4, <1>12 DEF Honest
    <3>2. Honest(t, job[t])'
      BY <1>1, <2>1, <3>1 DEF Honest
    <3>3. t \in Restores => result'[t] = "running"
      BY <1>1, <1>2, <1>5, <2>1 DEF SwapInv
    <3> QED BY <1>1, <1>2, <1>5, <1>10, <1>11, <2>1, <3>2, <3>3
  <2>2. CASE t # s
    <3>1. job'[t] = job[t] /\ tx'[t] = tx[t] /\ Holds(t)' = Holds(t) /\ UNCHANGED <<db, result>>
      BY <1>2, <1>8, <2>2
    <3>2. View(t)' = View(t)
      BY <3>1 DEF View
    <3>3. Honest(t, job[t])'
      BY <3>1, <3>2 DEF Honest, SwapInv
    <3>4. t \in Writers => Adds(t)' \/ Cuts(t)'
      BY <3>1 DEF Adds, Cuts, SwapInv
    <3> QED BY <3>1, <3>3, <3>4 DEF SwapInv
  <2> QED BY <2>1, <2>2
<1> QED BY <1>9, <1>13 DEF SwapInv

\* What a session sees of the old rows, whatever another one commits: a row that it
\* has seen dead stays so.
LEMMA EndSwap ==
  ASSUME SwapInv, IInv', NEW s \in Sessions, Commit(s) \/ Fails(s)  PROVE SwapInv'
<1> USE OwnRows
<1>1. /\ tx' = [tx EXCEPT ![s] = [i \in Ids |-> Untouched]] /\ job' = [job EXCEPT ![s] = Idle]
      /\ \A t \in Restores : t # s => result'[t] = result[t]
      /\ db' = db \/ db' = View(s)
  BY DEF Commit, Fails, Ended
<1>2. /\ job'[s] = Idle /\ Holds(s)' = {} /\ \A t \in Sessions \ {s} : job'[t] = job[t] /\ tx'[t] = tx[t]
      /\ \A t \in Sessions \ {s} : Holds(t)' = Holds(t)
  BY <1>1 DEF SwapInv, IInv, Holds
<1>3. \A t, u \in Sessions : t # u => Holds(t)' \cap Holds(u)' = {}
  BY <1>2 DEF SwapInv
\* Rows that are not in the hands of s.
<1>4. \A i \in Ids : i \notin Holds(s) => db'[i] = db[i]
  BY <1>1 DEF View, Holds
<1>5. \A i \in Old : db[i].st # "live" => db'[i].st # "live"
  <2>1. CASE db' = View(s)
    <3>1. \A i \in Holds(s) : tx[s][i].st = "live" => db[i].st = "live" \/ i \in Own(s)
      BY DEF SwapInv
    <3>2. \A i \in Old : View(s)[i] = IF i \in Holds(s) THEN tx[s][i] ELSE db[i]
      BY DEF View, Holds
    <3> QED BY <2>1, <3>1, <3>2
  <2> QED BY <1>1, <2>1
<1>6. ASSUME NEW t \in Sessions, t # s
      PROVE  /\ \A i \in Holds(t) : db'[i] = db[i]
             /\ \A i \in Old : View(t)[i].st # "live" => View(t)'[i].st # "live"
  <2>1. Holds(s) \cap Holds(t) = {} /\ Holds(t) \subseteq Ids
    BY <1>6 DEF SwapInv, Holds
  <2>2. \A i \in Ids : /\ View(t)[i] = IF tx[t][i] = Untouched THEN db[i] ELSE tx[t][i]
                       /\ View(t)'[i] = IF tx[t][i] = Untouched THEN db'[i] ELSE tx[t][i]
    BY <1>2, <1>6 DEF View
  <2> QED BY <1>4, <1>5, <2>1, <2>2
<1>7. ASSUME NEW t \in Sessions
      PROVE  /\ job'[t].op = "idle" => job'[t] = Idle /\ Holds(t)' = {}
             /\ \A i \in Holds(t)' : tx'[t][i].st = "live" => db'[i].st = "live" \/ i \in Own(t)
             /\ Honest(t, job[t])'
             /\ t \in Writers => Adds(t)' \/ Cuts(t)'
             /\ t \in Restores /\ job'[t] # Idle => result'[t] = "running"
  <2>1. CASE t = s
    <3>1. Honest(s, Idle)' /\ CutsJob(Idle)
      BY PendStates DEF Honest, Swaps, Idle, CutsJob, Cascades
    <3>2. Honest(t, job[t])'
      BY <1>2, <2>1, <3>1 DEF Honest
    <3>3. Cuts(t)'
      BY <1>2, <2>1, <3>1 DEF Cuts, CutsJob
    <3> QED BY <1>2, <2>1, <3>2, <3>3
  <2>2. CASE t # s
    <3>1. job'[t] = job[t] /\ tx'[t] = tx[t] /\ Holds(t)' = Holds(t) /\ (t \in Restores => result'[t] = result[t])
      BY <1>1, <1>2, <2>2
    <3>2. PICK v, w, r : v = View(t) /\ w = View(t)' /\ r = job[t]
      OBVIOUS
    <3>3. \A i \in Old : v[i].st # "live" => w[i].st # "live"
      BY <1>6, <2>2, <3>2
    <3>4. ASSUME t \in Restores PROVE Swaps(t, w, tx[t], r)
      <4>1. Swaps(t, v, tx[t], r)
        BY <3>2, <3>4 DEF SwapInv, Honest
      <4>2. \A i \in Old : Doomed(v, r, i) => Doomed(w, r, i)
        BY <3>3 DEF Doomed
      <4>3. FolderOf[Seed] \in Old /\ BookmarkOf[Seed] \in Old
        BY DEF Old
      <4> QED BY <3>3, <4>1, <4>2, <4>3 DEF Swaps
    <3>5. Honest(t, job[t])'
      BY <3>1, <3>2, <3>4 DEF Honest, SwapInv
    <3>6. t \in Writers => Adds(t)' \/ Cuts(t)'
      BY <1>6, <2>2, <3>1 DEF Adds, Cuts, SwapInv
    <3>7. \A i \in Holds(t)' : tx'[t][i].st = "live" => db'[i].st = "live" \/ i \in Own(t)
      BY <1>6, <2>2, <3>1 DEF SwapInv
    <3> QED BY <3>1, <3>5, <3>6, <3>7 DEF SwapInv
  <2> QED BY <2>1, <2>2
<1> QED BY <1>3, <1>7 DEF SwapInv

LEMMA ThirtyDaysSwap ==
  ASSUME SwapInv, IInv', ThirtyDays  PROVE SwapInv'
<1>1. UNCHANGED <<tx, job, result>> /\ \A s \in Sessions : job[s] = Idle
  BY DEF ThirtyDays
<1>2. \A s \in Sessions : Holds(s) = {} /\ Holds(s)' = {}
  BY <1>1 DEF SwapInv, Holds, Idle
<1>3. \A s \in Sessions : Honest(s, job[s])' /\ Cuts(s)'
  <2>1. \A s \in Sessions : Honest(s, Idle)' /\ CutsJob(Idle)
    BY PendStates DEF Honest, Swaps, Idle, CutsJob, Cascades
  <2> QED BY <1>1, <1>2, <2>1 DEF Honest, Cuts, CutsJob
<1> QED BY <1>1, <1>2, <1>3 DEF SwapInv

LEMMA SwapInit == Init => SwapInv
<1> SUFFICES ASSUME Init PROVE SwapInv
  OBVIOUS
<1>1. \A s \in Sessions : Holds(s) = {} /\ job[s] = Idle
  BY DEF Init, Holds
<1>2. \A s \in Sessions : Honest(s, job[s]) /\ Cuts(s)
  <2>1. \A s \in Sessions : Honest(s, Idle) /\ CutsJob(Idle)
    BY IdleHonest
  <2> QED BY <1>1, <2>1 DEF Honest, Cuts, CutsJob
<1> QED BY <1>1, <1>2, InitHolds DEF SwapInv

LEMMA SwapNext == SwapInv /\ [Next]_vars => SwapInv'
<1> SUFFICES ASSUME SwapInv, [Next]_vars PROVE SwapInv'
  OBVIOUS
<1>1. IInv'
  BY StepKeeps DEF SwapInv
<1>2. CASE UNCHANGED vars
  <2>1. \A s \in Sessions : Holds(s)' = Holds(s) /\ View(s)' = View(s) /\ job'[s] = job[s]
    BY <1>2 DEF vars, Holds, View
  <2>2. \A s \in Sessions : Honest(s, job[s])' /\ (s \in Writers => Adds(s)' \/ Cuts(s)')
    BY <1>2, <2>1 DEF SwapInv, Honest, Adds, Cuts, vars
  <2> QED BY <1>1, <1>2, <2>1, <2>2 DEF SwapInv, vars
<1>3. CASE \E w \in Writers : Begin(w)
  BY <1>1, <1>3, BeginSwap
<1>4. CASE \E r \in Restores : BeginReplace(r)
  BY <1>1, <1>4, BeginReplaceSwap
<1>5. CASE \E s \in Sessions : ReadOn(s) \/ Flush(s) \/ Commit(s) \/ Fails(s)
  BY <1>1, <1>5, ReadOnSwap, FlushSwap, EndSwap
<1>6. CASE ThirtyDays
  BY <1>1, <1>6, ThirtyDaysSwap
<1> QED BY <1>2, <1>3, <1>4, <1>5, <1>6 DEF Next

LEMMA SwapInductive == Spec => []SwapInv
BY SwapInit, SwapNext, PTL DEF Spec

\* The row of an item of the promise.
RowOf(x) == IF x.kind = "folder" THEN FolderOf[x.by] ELSE BookmarkOf[x.by]

LEMMA ItemRows ==
  /\ Promise!Item = [kind : {"bookmark", "folder"}, by : Origin]
  /\ \A x \in Promise!Item :
       /\ RowOf(x) \in Ids
       /\ \A s \in Sessions : RowOf(x) \in Own(s) <=> x.by = s
       /\ RowOf(x) \in Old <=> x.by = Seed
  /\ \A o \in Origin : Promise!DataSet(o) = {x \in Promise!Item : x.by = o}
<1>1. Promise!Item = [kind : {"bookmark", "folder"}, by : Origin]
  BY DEF Promise!Item, Promise!Origin, Origin, Sessions
<1>2. /\ \A o \in Origin : /\ FolderOf[o] \in Folders /\ BookmarkOf[o] \in Bookmarks
                           /\ FolderOf[o] \in Ids /\ BookmarkOf[o] \in Ids
      /\ \A o, p \in Origin : FolderOf[o] = FolderOf[p] \/ BookmarkOf[o] = BookmarkOf[p] => o = p
      /\ \A f \in Folders, b \in Bookmarks : f # b
      /\ Seed \in Origin /\ Sessions \subseteq Origin
  BY IdsAssumption DEF Ids, Origin
<1>3. ASSUME NEW x \in Promise!Item, NEW o \in Origin
      PROVE  RowOf(x) \in Ids /\ (RowOf(x) \in {FolderOf[o], BookmarkOf[o]} <=> x.by = o)
  <2>1. x.by \in Origin /\ x.kind \in {"bookmark", "folder"}
    BY <1>1
  <2> QED BY <1>2, <2>1 DEF RowOf
<1> QED BY <1>1, <1>2, <1>3 DEF Own, Old, Promise!DataSet

LEMMA LiveRows ==
  /\ LiveItems = {x \in Promise!Item : db[RowOf(x)].st = "live"}
  /\ LiveItems' = {x \in Promise!Item : db'[RowOf(x)].st = "live"}
<1>1. \A x : x \in LiveItems <=>
        \E o \in Origin : \/ x = [kind |-> "folder", by |-> o] /\ db[FolderOf[o]].st = "live"
                          \/ x = [kind |-> "bookmark", by |-> o] /\ db[BookmarkOf[o]].st = "live"
  BY DEF LiveItems
<1>2. \A x : x \in LiveItems' <=>
        \E o \in Origin : \/ x = [kind |-> "folder", by |-> o] /\ db'[FolderOf[o]].st = "live"
                          \/ x = [kind |-> "bookmark", by |-> o] /\ db'[BookmarkOf[o]].st = "live"
  BY DEF LiveItems
<1>3. \A x \in Promise!Item : /\ x.by \in Origin /\ x = [kind |-> x.kind, by |-> x.by]
                              /\ x.kind = "folder" \/ x.kind = "bookmark"
  BY ItemRows
<1>4. \A o \in Origin : [kind |-> "folder", by |-> o] \in Promise!Item /\ [kind |-> "bookmark", by |-> o] \in Promise!Item
  BY ItemRows
<1>5. ASSUME NEW x  PROVE x \in LiveItems <=> x \in Promise!Item /\ db[RowOf(x)].st = "live"
  <2>1. ASSUME x \in LiveItems  PROVE x \in Promise!Item /\ db[RowOf(x)].st = "live"
    <3>1. PICK o \in Origin :
            \/ x = [kind |-> "folder", by |-> o] /\ db[FolderOf[o]].st = "live"
            \/ x = [kind |-> "bookmark", by |-> o] /\ db[BookmarkOf[o]].st = "live"
      BY <1>1, <2>1
    <3>2. CASE x = [kind |-> "folder", by |-> o] /\ db[FolderOf[o]].st = "live"
      <4>1. x \in Promise!Item /\ x.kind = "folder" /\ x.by = o
        BY <1>4, <3>2
      <4> QED BY <3>2, <4>1 DEF RowOf
    <3>3. CASE x = [kind |-> "bookmark", by |-> o] /\ db[BookmarkOf[o]].st = "live"
      <4>1. x \in Promise!Item /\ x.kind = "bookmark" /\ x.by = o
        BY <1>4, <3>3
      <4> QED BY <3>3, <4>1 DEF RowOf
    <3> QED BY <3>1, <3>2, <3>3
  <2>2. ASSUME x \in Promise!Item, db[RowOf(x)].st = "live"  PROVE x \in LiveItems
    <3>1. x.by \in Origin /\ x = [kind |-> x.kind, by |-> x.by] /\ (x.kind = "folder" \/ x.kind = "bookmark")
      BY <1>3, <2>2
    <3>2. CASE x.kind = "folder"
      BY <1>1, <2>2, <3>1, <3>2 DEF RowOf
    <3>3. CASE x.kind = "bookmark"
      BY <1>1, <2>2, <3>1, <3>3 DEF RowOf
    <3> QED BY <3>1, <3>2, <3>3
  <2> QED BY <2>1, <2>2
<1>6. ASSUME NEW x  PROVE x \in LiveItems' <=> x \in Promise!Item /\ db'[RowOf(x)].st = "live"
  <2>1. ASSUME x \in LiveItems'  PROVE x \in Promise!Item /\ db'[RowOf(x)].st = "live"
    <3>1. PICK o \in Origin :
            \/ x = [kind |-> "folder", by |-> o] /\ db'[FolderOf[o]].st = "live"
            \/ x = [kind |-> "bookmark", by |-> o] /\ db'[BookmarkOf[o]].st = "live"
      BY <1>2, <2>1
    <3>2. CASE x = [kind |-> "folder", by |-> o] /\ db'[FolderOf[o]].st = "live"
      <4>1. x \in Promise!Item /\ x.kind = "folder" /\ x.by = o
        BY <1>4, <3>2
      <4> QED BY <3>2, <4>1 DEF RowOf
    <3>3. CASE x = [kind |-> "bookmark", by |-> o] /\ db'[BookmarkOf[o]].st = "live"
      <4>1. x \in Promise!Item /\ x.kind = "bookmark" /\ x.by = o
        BY <1>4, <3>3
      <4> QED BY <3>3, <4>1 DEF RowOf
    <3> QED BY <3>1, <3>2, <3>3
  <2>2. ASSUME x \in Promise!Item, db'[RowOf(x)].st = "live"  PROVE x \in LiveItems'
    <3>1. x.by \in Origin /\ x = [kind |-> x.kind, by |-> x.by] /\ (x.kind = "folder" \/ x.kind = "bookmark")
      BY <1>3, <2>2
    <3>2. CASE x.kind = "folder"
      BY <1>2, <2>2, <3>1, <3>2 DEF RowOf
    <3>3. CASE x.kind = "bookmark"
      BY <1>2, <2>2, <3>1, <3>3 DEF RowOf
    <3> QED BY <3>1, <3>2, <3>3
  <2> QED BY <2>1, <2>2
<1> QED BY <1>5, <1>6

LEMMA PromiseInit == Init => Promise!Init
<1> SUFFICES ASSUME Init PROVE Promise!Init
  OBVIOUS
<1>1. /\ \A i \in Ids : i \in Old <=> db[i].st = "live" /\ i # Inbox
      /\ Inbox \notin {RowOf(x) : x \in Promise!Item}
  <2>1. /\ FolderOf[Seed] \in Folders /\ BookmarkOf[Seed] \in Bookmarks
        /\ \A o \in Origin : FolderOf[o] \in Folders \ {Inbox} /\ BookmarkOf[o] \in Bookmarks
    BY IdsAssumption DEF Origin
  <2>2. ASSUME NEW i \in Ids  PROVE i \in Old <=> db[i].st = "live" /\ i # Inbox
    <3>1. FolderOf[Seed] # Inbox /\ BookmarkOf[Seed] # Inbox
      BY <2>1, IdKinds DEF Origin
    <3>2. db[i].st = IF i = Inbox \/ i = FolderOf[Seed] \/ i = BookmarkOf[Seed] THEN "live" ELSE "none"
      BY DEF Init
    <3> QED BY <3>1, <3>2 DEF Old
  <2>3. ASSUME NEW x \in Promise!Item PROVE RowOf(x) # Inbox
    BY <2>1, ItemRows, IdKinds DEF RowOf
  <2> QED BY <2>2, <2>3
<1>2. \A x \in Promise!Item : RowOf(x) \in Ids /\ RowOf(x) # Inbox /\ (RowOf(x) \in Old <=> x.by = Seed)
  BY <1>1, ItemRows
<1>3. LiveItems = {x \in Promise!Item : x.by = Seed}
  BY <1>1, <1>2, LiveRows
<1>4. LiveItems = Promise!DataSet(Seed)
  BY <1>3, ItemRows DEF Origin
<1> QED BY <1>4 DEF Promise!Init, Init

\* A commit of a session: what is live then.
LEMMA CommitRows ==
  ASSUME SwapInv, NEW s \in Sessions, Commit(s)
  PROVE  /\ \A x \in LiveItems' \ LiveItems : x.by = s
         /\ \A x \in Promise!Item : x \in LiveItems' <=> View(s)[RowOf(x)].st = "live"
<1>1. \A x \in Promise!Item : RowOf(x) \in Ids /\ (RowOf(x) \in Own(s) <=> x.by = s)
  BY ItemRows
<1>2. \A i \in Ids : /\ View(s)[i] = IF i \in Holds(s) THEN tx[s][i] ELSE db[i]
                     /\ i \in Holds(s) /\ tx[s][i].st = "live" => db[i].st = "live" \/ i \in Own(s)
  BY DEF View, Holds, SwapInv
<1>3. db' = View(s)
  BY DEF Commit
<1> QED BY <1>1, <1>2, <1>3, LiveRows

LEMMA CommitRefines ==
  ASSUME SwapInv, \A p, q \in Restores : p = q, NEW s \in Sessions, Commit(s)
  PROVE  Promise!Next
<1> DEFINE kept == LiveItems' \ Promise!DataSet(s)
<1>1. result \in [Restores -> {"running", "ok", "failed"}] /\ job[s].op = "done" /\ job[s].pend = NoPend
      /\ result' = Ended(s, "ok") /\ job[s] # Idle
  BY DEF SwapInv, IInv, Commit, Reading, Idle
<1>2. \A x \in Promise!Item : RowOf(x) \in Ids /\ (RowOf(x) \in Own(s) <=> x.by = s) /\ (RowOf(x) \in Old <=> x.by = Seed)
  BY ItemRows
<1>3. Promise!DataSet(s) = {x \in Promise!Item : x.by = s} /\ LiveItems' \subseteq Promise!Item /\ LiveItems \subseteq Promise!Item
  BY ItemRows, LiveRows DEF Origin
<1>4. CASE s \in Restores
  <2>1. Swaps(s, View(s), tx[s], job[s]) /\ result[s] = "running"
    BY <1>1, <1>4 DEF SwapInv, Honest
  <2>2. \A i \in Ids : job[s].pend[i].st = "same"
    BY <1>1, PendStates
  <2>3. (\A i \in Old : View(s)[i].st # "live") /\ \A i \in Own(s) : tx[s][i].st = "live"
    BY <1>1, <2>1, <2>2, OwnRows DEF Swaps, Own
  <2>4. \A i \in Own(s) : View(s)[i].st = "live"
    BY <2>3, OwnRows DEF View, Untouched
  <2>5. Promise!DataSet(s) \subseteq LiveItems' /\ \A x \in LiveItems' : x.by # Seed
    BY <1>2, <1>3, <2>3, <2>4, CommitRows
  <2>6. kept \in SUBSET LiveItems /\ LiveItems' = Promise!DataSet(s) \cup kept
    BY <1>3, <2>5, CommitRows
  <2>7. \A x \in kept : x.by \in Writers
    <3>1. \A x \in Promise!Item : x.by \in Restores \cup Writers \cup {Seed}
      BY ItemRows DEF Origin, Sessions
    <3> QED BY <1>3, <1>4, <2>5, <3>1
  <2>8. result' = [result EXCEPT ![s] = "ok"]
    BY <1>1, <1>4 DEF Ended
  <2> QED BY <1>4, <2>1, <2>6, <2>7, <2>8 DEF Promise!Next, Promise!Swap
<1>5. CASE s \in Writers
  <2>1. result' = result
    BY <1>1, <1>5, IdsAssumption DEF Ended
  <2>2. \A i \in Ids : View(s)[i] = IF i \in Holds(s) THEN tx[s][i] ELSE db[i]
    BY DEF View, Holds
  <2>3. CASE Adds(s)
    <3>1. \A i \in Ids : db[i].st = "live" => View(s)[i].st = "live"
      BY <2>2, <2>3 DEF Adds
    <3>2. LiveItems \subseteq LiveItems'
      BY <1>2, <1>3, <3>1, CommitRows, LiveRows
    <3>3. PICK new : new = LiveItems' \ LiveItems
      OBVIOUS
    <3>4. new \in SUBSET Promise!DataSet(s) /\ LiveItems' = LiveItems \cup new
      BY <1>3, <3>2, <3>3, CommitRows
    <3> QED BY <1>5, <2>1, <3>4 DEF Promise!Next, Promise!Write
  <2>4. CASE Cuts(s)
    <3>1. \A i \in Ids : View(s)[i].st = "live" => db[i].st = "live"
      BY <2>2, <2>4 DEF Cuts
    <3>2. LiveItems' \subseteq LiveItems
      BY <1>2, <1>3, <3>1, CommitRows, LiveRows
    <3>3. PICK gone : gone = LiveItems \ LiveItems'
      OBVIOUS
    <3>4. gone \in SUBSET LiveItems /\ LiveItems' = LiveItems \ gone
      BY <3>2, <3>3
    <3> QED BY <2>1, <3>4 DEF Promise!Next, Promise!Remove
  <2> QED BY <1>5, <2>3, <2>4 DEF SwapInv
<1> QED BY <1>4, <1>5 DEF Sessions

LEMMA FailsRefines ==
  ASSUME SwapInv, NEW s \in Sessions, Fails(s)
  PROVE  [Promise!Next]_(Promise!vars)
<1>1. /\ result \in [Restores -> {"running", "ok", "failed"}] /\ result' = Ended(s, "failed")
      /\ job[s] # Idle /\ LiveItems' = LiveItems
  BY DEF SwapInv, IInv, Fails, LiveItems
<1>2. CASE s \in Restores
  <2>1. result[s] = "running" /\ result' = [result EXCEPT ![s] = "failed"]
    BY <1>1, <1>2 DEF SwapInv, Ended
  <2> QED BY <1>1, <1>2, <2>1 DEF Promise!Next, Promise!GiveUp
<1>3. CASE s \notin Restores
  <2>1. result' = result
    BY <1>1, <1>3 DEF Ended
  <2> QED BY <1>1, <2>1 DEF Promise!vars
<1> QED BY <1>2, <1>3

LEMMA StepRefines ==
  ASSUME SwapInv, \A p, q \in Restores : p = q, [Next]_vars
  PROVE  [Promise!Next]_(Promise!vars)
<1>1. CASE \E s \in Sessions : Commit(s)
  BY <1>1, CommitRefines
<1>2. CASE \E s \in Sessions : Fails(s)
  BY <1>2, FailsRefines
<1>3. CASE ThirtyDays
  <2>1. \A i \in Ids : db'[i].st = "live" <=> db[i].st = "live"
    BY <1>3 DEF ThirtyDays, Older, SwapInv, IInv, Row
  <2>2. LiveItems' = LiveItems
    BY <2>1, ItemRows, LiveRows
  <2> QED BY <1>3, <2>2 DEF ThirtyDays, Promise!vars
<1>4. CASE UNCHANGED <<db, result>>
  BY <1>4 DEF LiveItems, Promise!vars
<1>5. ASSUME NEW s, Begin(s) \/ ReadOn(s) \/ BeginReplace(s) \/ Flush(s)  PROVE UNCHANGED <<db, result>>
  BY <1>5 DEF Begin, CreateFolder, UpdateFolder, DeleteFolder, ReorderFolders, CreateBookmark, EditBookmarks,
              BeginMerge, BeginGc, BeginReplace, Start, Flush, Goes, ReadOn, CascadePop, CascadeBookmarks,
              CascadeEnd, ReorderNext, MoveNext, DeleteNext, ReplaceBookmark, ReplaceListFolders, ReplaceFolder,
              ReplaceCreateFolder, ReplaceCreateBookmark, MergeFolder, MergeItem, SkipItem, GcListFolders,
              GcDeleteLeaves
<1>6. UNCHANGED vars => UNCHANGED <<db, result>>
  BY DEF vars
<1> QED BY <1>1, <1>2, <1>3, <1>4, <1>5, <1>6 DEF Next

\* A replace_all changes the live rows from those of the user to those of its file at once, in the
\* commit, or not at all, and its reply tells which; beside the imported rows stay only what other
\* requests have inserted.  Writes overlap with it and with each other at will, on SQLite and on
\* Postgres; a second replace_all at the same time is left out, for which it does not hold.
THEOREM ReplaceIsWhole ==
  ASSUME \A p, q \in Restores : p = q
  PROVE  Spec => KeepsPromise
<1>1. Init => Promise!Init
  BY PromiseInit
<1>2. SwapInv /\ [Next]_vars => [Promise!Next]_(Promise!vars)
  BY StepRefines
<1> QED BY <1>1, <1>2, SwapInductive, PTL DEF Spec, KeepsPromise, Promise!Spec

-----------------------------------------------------------------------------
(* The collector. *)

\* What is not stale itself is not below what is.
Dated(v) ==
  \A i \in Ids : v[i].st \in {"live", "trash"} /\ v[i].up # Root => v[v[i].up].st # "stale"

Replacing == {"replace_bookmarks", "replace_folders"}

\* The rows v that a session sees, which is alone and at r: a cascade ends with its folder, and
\* a pass that is done has left nothing but what is referred to.
Aged(v, r) ==
  /\ Dated(v)
  /\ r.op \in Cascades => r.top \in Folders /\ v[r.top].st \in {"live", "trash"}
  /\ r.op \in Cascades /\ r.then = "done" => r.todo = {}
  /\ r.op \in Replacing => r.then = "replace_folders"
  /\ r.op = "done" => \A f \in r.todo \cap Folders : Referred(v, f)

GcInv ==
  /\ TreeInv
  /\ ~mixed => Dated(db) /\ \A s \in Sessions : job[s] # Idle => Aged(After(s), job[s])

\* Changes that make nothing stale: a row is deleted that was live, and put where nothing is stale.
Fresh(v, p) ==
  \A i \in Ids :
    /\ p[i].st # "stale" /\ (p[i].st = "live" => p[i].up # Same)
    /\ p[i].st = "trash" => v[i].st \in {"live", "trash"}
    /\ p[i].up \in {Same, Root} \/ (p[i].up \in Folders /\ v[p[i].up].st # "stale")

LEMMA FreshDated ==
  ASSUME NEW v \in [Ids -> Row], NEW p \in [Ids -> Change], Dated(v), Fresh(v, p)
  PROVE  Dated(Written(v, p))
<1>1. PICK w : w = Written(v, p)
  OBVIOUS
<1>2. \A i \in Ids : /\ w[i].st = IF p[i].st \in {"same", "touched"} THEN v[i].st ELSE p[i].st
                     /\ w[i].up = IF p[i].up = Same THEN v[i].up ELSE p[i].up
                     /\ v[i].up \in Folders \cup {Root}
  BY <1>1 DEF Written, Apply, Row
<1>3. \A i \in Ids : w[i].st = "stale" => v[i].st = "stale"
  BY <1>2 DEF Fresh
<1>4. ASSUME NEW i \in Ids, w[i].st \in {"live", "trash"}, w[i].up # Root  PROVE w[w[i].up].st # "stale"
  <2>1. CASE p[i].up = Same
    <3>1. v[i].st \in {"live", "trash"} /\ w[i].up = v[i].up /\ v[i].up \in Folders
      BY <1>2, <1>4, <2>1 DEF Fresh
    <3>2. v[v[i].up].st # "stale"
      BY <1>4, <3>1 DEF Dated
    <3> QED BY <1>3, <3>1, <3>2, IdKinds
  <2>2. CASE p[i].up # Same
    <3>1. w[i].up = p[i].up /\ p[i].up \in Folders /\ v[p[i].up].st # "stale"
      BY <1>2, <1>4, <2>2 DEF Fresh
    <3> QED BY <1>3, <3>1, IdKinds
  <2> QED BY <2>1, <2>2
<1> QED BY <1>1, <1>4 DEF Dated

\* The changes that requests make.
LEMMA FreshChanges ==
  ASSUME NEW v \in [Ids -> Row]
  PROVE  /\ Fresh(v, NoPend)
         /\ \A ids : Fresh(v, Pend(ids, Removed))
         /\ \A ids : (\A i \in ids : v[i].st \in {"live", "trash"}) => Fresh(v, Pend(ids, Trashed))
         /\ \A ids : Fresh(v, Pend(ids, Inserted(Root)))
         /\ \A ids, p : p \in Folders /\ v[p].st = "live" => Fresh(v, Pend(ids, Inserted(p)))
         /\ \A x \in Ids : \A p : p = Root \/ p = v[x].up \/ (p \in Folders /\ v[p].st = "live") => Fresh(v, Pend({x}, Moved(v, x, p)))
<1> USE IdKinds DEF Fresh, Pend, NoPend, NoChange
<1>1. Fresh(v, NoPend)
  OBVIOUS
<1>2. \A ids : Fresh(v, Pend(ids, Removed))
  BY DEF Removed
<1>3. \A ids : (\A i \in ids : v[i].st \in {"live", "trash"}) => Fresh(v, Pend(ids, Trashed))
  BY DEF Trashed
<1>4. \A ids : Fresh(v, Pend(ids, Inserted(Root)))
  BY DEF Inserted
<1>5. \A ids, p : p \in Folders /\ v[p].st = "live" => Fresh(v, Pend(ids, Inserted(p)))
  BY DEF Inserted
<1>6. ASSUME NEW x \in Ids, NEW p, p = Root \/ p = v[x].up \/ (p \in Folders /\ v[p].st = "live")
      PROVE  Fresh(v, Pend({x}, Moved(v, x, p)))
  BY <1>6 DEF Moved
<1> QED BY <1>1, <1>2, <1>3, <1>4, <1>5, <1>6

LEMMA AgedSame ==
  ASSUME NEW v, NEW r, NEW w, NEW q, v = w, r = q, Aged(v, r)  PROVE Aged(w, q)
OBVIOUS

LEMMA GoesGc ==
  ASSUME GcInv, TreeInv', NEW s \in Sessions, NEW r, Goes(s, r), r.op # "idle",
         job[s].pend = NoPend, job[s] # Idle,
         Sound(View(s), job[s]) /\ Aged(View(s), job[s]) => Aged(Written(View(s), r.pend), r)
  PROVE  GcInv'
<1>1. job' = [job EXCEPT ![s] = r] /\ UNCHANGED <<db, tx, mixed>>
  BY DEF Goes
<1>2. View(s)' = View(s)
  BY <1>1 DEF View
<1>3. job'[s] = r /\ \A t \in Sessions \ {s} : job'[t] = job[t]
  BY <1>1 DEF IInv, TreeInv, GcInv
<1>4. ASSUME ~mixed PROVE Dated(db)' /\ \A t \in Sessions : job'[t] # Idle => Aged(After(t), job[t])'
  <2>1. Dated(db) /\ Aged(After(s), job[s]) /\ Sound(After(s), job[s]) /\ \A t \in Sessions \ {s} : job[t] = Idle
    BY <1>4 DEF GcInv, TreeInv, Alone
  <2>2. After(s) = View(s)
    BY Viewed, NothingWritten DEF After, TreeInv, GcInv
  <2>3. After(s)' = Written(View(s), r.pend)
    BY <1>2, <1>3 DEF After, Written
  <2>4. Aged(After(s)', job'[s])
    BY <1>3, <2>1, <2>2, <2>3
  <2>5. Aged(After(s), job[s])'
    BY <2>4 DEF Aged, Dated, Referred
  <2>6. Dated(db)'
    BY <1>1, <2>1 DEF Dated
  <2> QED BY <1>3, <2>1, <2>5, <2>6
<1> QED BY <1>1, <1>4 DEF GcInv

LEMMA StartGc ==
  ASSUME GcInv, TreeInv', NEW s \in Sessions, NEW r, Start(s, r), r.op # "idle",
         TreeOK(db) /\ Dated(db) => Aged(Written(db, r.pend), r)
  PROVE  GcInv'
<1>1. job[s] = Idle /\ job' = [job EXCEPT ![s] = r] /\ UNCHANGED <<db, tx>>
  BY DEF Start
<1>2. job'[s] = r /\ \A t \in Sessions \ {s} : job'[t] = job[t]
  BY <1>1 DEF IInv, TreeInv, GcInv
<1>3. ASSUME ~mixed' PROVE Dated(db)' /\ \A t \in Sessions : job'[t] # Idle => Aged(After(t), job[t])'
  <2>1. ~mixed /\ \A t \in Sessions \ {s} : job[t] = Idle
    BY <1>3 DEF Start, TreeInv, IInv, GcInv
  <2>2. Dated(db) /\ Sound(db, Idle)
    BY <2>1 DEF GcInv, TreeInv, Alone
  <2>3. TreeOK(db)
    BY <2>2, QuietSound DEF Idle, Cascades
  <2>4. View(s)' = db
    BY <1>1 DEF View, Holds, TreeInv, IInv, GcInv
  <2>5. After(s)' = Written(db, r.pend)
    BY <1>2, <2>4 DEF After, Written
  <2>6. Aged(After(s)', job'[s])
    BY <1>2, <2>2, <2>3, <2>5
  <2>7. Aged(After(s), job[s])'
    BY <2>6 DEF Aged, Dated, Referred
  <2>8. Dated(db)'
    BY <1>1, <2>2 DEF Dated
  <2> QED BY <1>2, <2>1, <2>7, <2>8
<1> QED BY <1>3 DEF GcInv

LEMMA FlushGc ==
  ASSUME GcInv, TreeInv', NEW s \in Sessions, Flush(s)  PROVE GcInv'
<1>1. PICK v, r, new : v = View(s) /\ r = job[s] /\ new = After(s)
  OBVIOUS
<1>2. /\ v \in [Ids -> Row] /\ r \in Job /\ new \in [Ids -> Row]
  BY <1>1, Viewed, WrittenRows DEF TreeInv, IInv, Spares, After, PendOK, GcInv
<1>3. /\ tx' = [tx EXCEPT ![s] = [i \in Ids |-> IF i \in Changed(s) THEN new[i] ELSE @[i]]]
      /\ job' = [job EXCEPT ![s].pend = NoPend] /\ UNCHANGED <<db, mixed>> /\ r.pend # NoPend
  BY <1>1 DEF Flush, After, Written
<1>4. PICK q : q = [r EXCEPT !.pend = NoPend]
  OBVIOUS
<1>5. job'[s] = q /\ \A t \in Sessions \ {s} : job'[t] = job[t]
  BY <1>1, <1>3, <1>4 DEF TreeInv, IInv, GcInv
<1>6. q.pend = NoPend /\ q.op = r.op /\ q.top = r.top /\ q.then = r.then /\ q.todo = r.todo
  BY <1>2, <1>4 DEF Job
<1>7. r # Idle
  BY <1>3 DEF Idle
<1>8. View(s)' = new
  <2>1. \A i \in Ids : tx'[s][i] = IF i \in Changed(s) THEN new[i] ELSE tx[s][i]
    BY <1>3 DEF TreeInv, IInv, GcInv
  <2>2. \A i \in Ids : i \notin Changed(s) => r.pend[i] = NoChange
    BY <1>1 DEF Changed
  <2>3. \A i \in Ids : i \notin Changed(s) => new[i] = v[i]
    BY <1>1, <1>2, <2>2 DEF After, Written, Apply, NoChange, Row
  <2>4. \A i \in Ids : new[i] # Untouched
    BY <1>2 DEF Row, Untouched, State
  <2>5. \A i \in Ids : (IF tx'[s][i] = Untouched THEN db'[i] ELSE tx'[s][i]) = new[i]
    BY <1>1, <1>3, <2>1, <2>3, <2>4 DEF View
  <2> QED BY <1>2, <2>5 DEF View
<1>9. After(s)' = new
  <2>1. After(s)' = Written(new, NoPend)
    BY <1>5, <1>6, <1>8 DEF After, Written
  <2> QED BY <1>2, <2>1, NothingWritten
<1>10. ASSUME ~mixed PROVE Dated(db)' /\ \A t \in Sessions : job'[t] # Idle => Aged(After(t), job[t])'
  <2>1. Aged(new, r) /\ Dated(db) /\ \A t \in Sessions \ {s} : job[t] = Idle
    BY <1>1, <1>7, <1>10 DEF GcInv, TreeInv, Alone
  <2>2. Aged(new, q)
    BY <1>6, <2>1 DEF Aged
  <2>3. Aged(After(s)', job'[s])
    BY <1>5, <1>9, <2>2
  <2>4. Aged(After(s), job[s])'
    BY <2>3 DEF Aged, Dated, Referred
  <2>5. Dated(db)'
    BY <1>3, <2>1 DEF Dated
  <2> QED BY <1>5, <2>1, <2>4, <2>5
<1> QED BY <1>3, <1>10 DEF GcInv

LEMMA EndGc ==
  ASSUME GcInv, TreeInv', NEW s \in Sessions, Commit(s) \/ Fails(s)  PROVE GcInv'
<1>1. job' = [job EXCEPT ![s] = Idle] /\ UNCHANGED mixed /\ job[s] # Idle
  BY DEF Commit, Fails, Reading, Idle
<1>2. job'[s] = Idle /\ \A t \in Sessions \ {s} : job'[t] = job[t]
  BY <1>1 DEF TreeInv, IInv, GcInv
<1>3. ASSUME ~mixed PROVE Dated(db)' /\ \A t \in Sessions : job'[t] # Idle => Aged(After(t), job[t])'
  <2>1. Dated(db) /\ Aged(After(s), job[s]) /\ \A t \in Sessions \ {s} : job[t] = Idle
    BY <1>1, <1>3 DEF GcInv, TreeInv, Alone
  <2>2. Dated(db')
    <3>1. CASE Commit(s)
      <4>1. db' = View(s) /\ job[s].pend = NoPend
        BY <3>1 DEF Commit, Reading
      <4>2. After(s) = db'
        BY <4>1, Viewed, NothingWritten DEF After, TreeInv, GcInv
      <4> QED BY <2>1, <4>2 DEF Aged
    <3>2. CASE Fails(s)
      BY <2>1, <3>2 DEF Fails
    <3> QED BY <3>1, <3>2
  <2>3. Dated(db)'
    BY <2>2 DEF Dated
  <2> QED BY <1>2, <2>1, <2>3
<1> QED BY <1>1, <1>3 DEF GcInv

\* What was deleted is stale at once.
LEMMA ThirtyDaysGc ==
  ASSUME GcInv, TreeInv', ThirtyDays  PROVE GcInv'
<1>1. UNCHANGED <<job, mixed>> /\ \A s \in Sessions : job[s] = Idle
  BY DEF ThirtyDays
<1>2. ASSUME ~mixed PROVE Dated(db)'
  <2>1. TreeOK(db) /\ db \in [Ids -> Row]
    BY <1>2, QuietSound DEF GcInv, TreeInv, IInv, Alone, Cascades, Idle
  <2>2. \A i \in Ids : db'[i].up = db[i].up /\ db[i].up \in Folders \cup {Root}
                       /\ (db'[i].st = "live" <=> db[i].st = "live") /\ db'[i].st # "trash"
    BY <2>1 DEF ThirtyDays, Older, Row
  <2>3. ASSUME NEW i \in Ids, db'[i].st \in {"live", "trash"}, db'[i].up # Root  PROVE db'[db'[i].up].st # "stale"
    <3>1. db[db[i].up].st = "live" /\ db[i].up \in Ids /\ db'[i].up = db[i].up
      BY <2>1, <2>2, <2>3, IdKinds DEF TreeOK
    <3> QED BY <2>2, <3>1
  <2> QED BY <2>3 DEF Dated
<1> QED BY <1>1, <1>2 DEF GcInv

LEMMA BeginDates ==
  ASSUME GcInv, TreeInv', NEW s \in Writers, Begin(s)  PROVE GcInv'
<1> USE IdKinds DEF Cascades, Replacing
<1>1. /\ s \in Sessions /\ FolderOf[s] \in Folders /\ BookmarkOf[s] \in Bookmarks
      /\ db \in [Ids -> Row] /\ AtTop(db[Inbox])
  BY IdsAssumption DEF Sessions, Origin, TreeInv, IInv, GcInv
\* A request that begins at what is left of its list, and one that has no list.
<1>2. \A r : /\ Start(s, r) /\ r.op \notin {"idle", "done"} \cup Cascades \cup Replacing /\ r.pend \in [Ids -> Change]
             /\ Fresh(db, r.pend)
             => GcInv'
  BY <1>1, StartGc, FreshDated DEF Aged
<1>3. \A r : /\ Start(s, r) /\ r.op = "done" /\ r.todo = {} /\ r.pend \in [Ids -> Change]
             /\ TreeOK(db) => Fresh(db, r.pend)
             => GcInv'
  BY <1>1, StartGc, FreshDated DEF Aged
<1>4. \A r : Start(s, r) /\ r.op \notin {"idle", "done"} \cup Cascades \cup Replacing /\ r.pend = NoPend => GcInv'
  BY <1>1, <1>2, NoPendOK, FreshChanges DEF PendOK
<1>5. \A ids, c : c \in Change => Pend(ids, c) \in [Ids -> Change]
  BY Changes DEF Pend
<1>6. CASE CreateFolder(s)
  <2>1. PICK p \in Folders \cup {Root} :
          MayHold(db, p) /\ Start(s, [Done EXCEPT !.pend = Pend({FolderOf[s]}, Inserted(p))])
    BY <1>6 DEF CreateFolder
  <2>2. PICK r : r = [Done EXCEPT !.pend = Pend({FolderOf[s]}, Inserted(p))]
    OBVIOUS
  <2>3. r.op = "done" /\ r.todo = {} /\ r.pend = Pend({FolderOf[s]}, Inserted(p)) /\ Start(s, r)
    BY <2>1, <2>2 DEF Done, Idle
  <2>4. Fresh(db, r.pend) /\ r.pend \in [Ids -> Change]
    BY <1>1, <1>5, <2>1, <2>3, FreshChanges, Changes DEF MayHold, Live
  <2> QED BY <1>3, <2>3, <2>4
<1>7. CASE UpdateFolder(s)
  <2>1. PICK f \in Folders, p \in Folders \cup {Root} :
          MayUpdate(f, p) /\ Start(s, [Done EXCEPT !.pend = Pend({f}, Moved(db, f, p))])
    BY <1>7 DEF UpdateFolder
  <2>2. PICK r : r = [Done EXCEPT !.pend = Pend({f}, Moved(db, f, p))]
    OBVIOUS
  <2>3. r.op = "done" /\ r.todo = {} /\ r.pend = Pend({f}, Moved(db, f, p)) /\ Start(s, r)
    BY <2>1, <2>2 DEF Done, Idle
  <2>4. p = Root \/ (p \in Folders /\ db[p].st = "live")
    BY <2>1 DEF MayUpdate, MayMove, MayHold, Live
  <2>5. Fresh(db, r.pend) /\ r.pend \in [Ids -> Change]
    BY <1>1, <1>5, <2>3, <2>4, FreshChanges, MovedOK
  <2> QED BY <1>3, <2>3, <2>5
<1>8. CASE DeleteFolder(s)
  <2>1. PICK f \in Folders \ {Inbox} :
          /\ db[f].st = "live"
          /\ \/ \E mode \in {"move_to_inbox", "move_to_parent"} :
                  Start(s, [Done EXCEPT !.pend =
                    [i \in Ids |-> IF i = f THEN Trashed
                                   ELSE IF i \in LiveChildren(db, f) THEN Moved(db, i, ChildrenTo(f, mode))
                                   ELSE IF i \in LiveIn(db, f) THEN Moved(db, i, BookmarksTo(f, mode))
                                   ELSE NoChange]])
             \/ Start(s, [Idle EXCEPT !.op = "cascade", !.top = f, !.stack = {f}])
    BY <1>8 DEF DeleteFolder, Live
  <2>2. ASSUME NEW mode \in {"move_to_inbox", "move_to_parent"},
               Start(s, [Done EXCEPT !.pend =
                 [i \in Ids |-> IF i = f THEN Trashed
                                ELSE IF i \in LiveChildren(db, f) THEN Moved(db, i, ChildrenTo(f, mode))
                                ELSE IF i \in LiveIn(db, f) THEN Moved(db, i, BookmarksTo(f, mode))
                                ELSE NoChange]])
        PROVE  GcInv'
    <3>1. PICK pend : pend = [i \in Ids |-> IF i = f THEN Trashed
                                ELSE IF i \in LiveChildren(db, f) THEN Moved(db, i, ChildrenTo(f, mode))
                                ELSE IF i \in LiveIn(db, f) THEN Moved(db, i, BookmarksTo(f, mode))
                                ELSE NoChange]
      OBVIOUS
    <3>2. PICK r : r = [Done EXCEPT !.pend = pend]
      OBVIOUS
    <3>3. r.op = "done" /\ r.todo = {} /\ r.pend = pend /\ Start(s, r)
      BY <2>2, <3>1, <3>2 DEF Done, Idle
    <3>4. /\ ChildrenTo(f, mode) \in {Inbox, db[f].up} /\ BookmarksTo(f, mode) \in {Inbox, db[f].up}
          /\ db[f].up \in Folders \cup {Root}
      BY <1>1 DEF ChildrenTo, BookmarksTo, Row
    <3>5. ASSUME TreeOK(db) PROVE Fresh(db, pend)
      <4>1. \A p \in {Inbox, db[f].up} : p = Root \/ (p \in Folders /\ db[p].st = "live")
        BY <1>1, <2>1, <3>4, <3>5 DEF TreeOK, AtTop
      <4>2. ASSUME NEW i \in Ids
            PROVE  \/ pend[i] = NoChange \/ (pend[i] = Trashed /\ db[i].st = "live")
                   \/ \E p \in {Inbox, db[f].up} : pend[i] = Moved(db, i, p)
        BY <2>1, <3>1, <3>4
      <4>3. \A p \in {Inbox, db[f].up} : p = Root \/ (p \in Folders /\ db[p].st # "stale")
        BY <4>1
      <4>4. ASSUME NEW i \in Ids
            PROVE  /\ pend[i].st # "stale" /\ (pend[i].st = "live" => pend[i].up # Same)
                   /\ pend[i].st = "trash" => db[i].st \in {"live", "trash"}
                   /\ pend[i].up \in {Same, Root} \/ (pend[i].up \in Folders /\ db[pend[i].up].st # "stale")
        <5>1. CASE pend[i] = NoChange
          BY <5>1 DEF NoChange
        <5>2. CASE pend[i] = Trashed /\ db[i].st = "live"
          BY <5>2 DEF Trashed
        <5>3. CASE \E p \in {Inbox, db[f].up} : pend[i] = Moved(db, i, p)
          <6>1. PICK p : p \in {Inbox, db[f].up} /\ pend[i] = Moved(db, i, p)
            BY <5>3
          <6>2. pend[i].st = "touched" /\ pend[i].up \in {Same, p}
            BY <6>1 DEF Moved
          <6> QED BY <4>3, <6>1, <6>2
        <5> QED BY <4>2, <5>1, <5>2, <5>3
      <4> QED BY <4>4 DEF Fresh
    <3>6. pend \in [Ids -> Change]
      <4>1. ASSUME NEW i \in Ids PROVE pend[i] \in Change
        <5>1. \A p \in {Inbox, db[f].up} : Moved(db, i, p) \in Change
          BY <1>1, <3>4, MovedOK
        <5> QED BY <3>1, <3>4, <5>1, Changes
      <4> QED BY <3>1, <4>1
    <3> QED BY <1>3, <3>3, <3>5, <3>6
  <2>3. CASE Start(s, [Idle EXCEPT !.op = "cascade", !.top = f, !.stack = {f}])
    <3>1. PICK r : r = [Idle EXCEPT !.op = "cascade", !.top = f, !.stack = {f}]
      OBVIOUS
    <3>2. r.op = "cascade" /\ r.top = f /\ r.todo = {} /\ r.pend = NoPend /\ Start(s, r)
      BY <2>3, <3>1 DEF Idle
    <3>3. Dated(db) => Aged(db, r)
      BY <2>1, <3>2 DEF Aged
    <3> QED BY <1>1, <3>2, <3>3, NothingWritten, StartGc
  <2> QED BY <2>1, <2>2, <2>3
<1>9. CASE ReorderFolders(s)
  <2>1. PICK ids \in SUBSET Folders, p \in Folders \cup {Root} :
          Start(s, [Idle EXCEPT !.op = "reorder_folders", !.to = p, !.todo = ids])
    BY <1>9 DEF ReorderFolders
  <2>2. PICK r : r = [Idle EXCEPT !.op = "reorder_folders", !.to = p, !.todo = ids]
    OBVIOUS
  <2> QED BY <1>4, <2>1, <2>2 DEF Idle
<1>10. CASE CreateBookmark(s)
  <2>1. PICK f \in Folders : Live(db, f) /\ Start(s, [Done EXCEPT !.pend = Pend({BookmarkOf[s]}, Inserted(f))])
    BY <1>10 DEF CreateBookmark
  <2>2. PICK r : r = [Done EXCEPT !.pend = Pend({BookmarkOf[s]}, Inserted(f))]
    OBVIOUS
  <2>3. r.op = "done" /\ r.todo = {} /\ r.pend = Pend({BookmarkOf[s]}, Inserted(f)) /\ Start(s, r)
    BY <2>1, <2>2 DEF Done, Idle
  <2>4. Fresh(db, r.pend) /\ r.pend \in [Ids -> Change]
    BY <1>1, <1>5, <2>1, <2>3, FreshChanges, Changes DEF Live
  <2> QED BY <1>3, <2>3, <2>4
<1>11. CASE EditBookmarks(s)
  <2>1. PICK ids \in SUBSET Bookmarks, f \in Folders :
          \/ Start(s, [Idle EXCEPT !.op = "move_bookmarks", !.to = f, !.todo = ids])
          \/ Start(s, [Idle EXCEPT !.op = "reorder_bookmarks", !.to = f, !.todo = ids])
          \/ Start(s, [Idle EXCEPT !.op = "delete_bookmarks", !.todo = ids])
    BY <1>11 DEF EditBookmarks
  <2>2. PICK move, order, delete : /\ move = [Idle EXCEPT !.op = "move_bookmarks", !.to = f, !.todo = ids]
                                   /\ order = [Idle EXCEPT !.op = "reorder_bookmarks", !.to = f, !.todo = ids]
                                   /\ delete = [Idle EXCEPT !.op = "delete_bookmarks", !.todo = ids]
    OBVIOUS
  <2>3. \A r \in {move, order, delete} : r.op \notin {"idle", "done"} \cup Cascades \cup Replacing /\ r.pend = NoPend
    BY <2>2 DEF Idle
  <2>4. \E r \in {move, order, delete} : Start(s, r)
    BY <2>1, <2>2, Zenon
  <2> QED BY <1>4, <2>3, <2>4
<1>12. CASE BeginMerge(s)
  <2>1. PICK r : r = [Idle EXCEPT !.op = "merge_folder", !.todo = {b \in Bookmarks : Live(db, b)}]
    OBVIOUS
  <2> QED BY <1>4, <1>12, <2>1 DEF BeginMerge, Idle
<1>13. CASE BeginGc(s)
  <2>1. PICK ids : ids = {b \in Bookmarks : db[b].st = "stale"}
    OBVIOUS
  <2>2. PICK r : r = [Idle EXCEPT !.op = "gc_list", !.pend = Pend(ids, Removed)]
    OBVIOUS
  <2>3. r.op = "gc_list" /\ r.pend = Pend(ids, Removed) /\ Start(s, r)
    BY <1>13, <2>1, <2>2 DEF BeginGc, Idle
  <2>4. Fresh(db, r.pend) /\ r.pend \in [Ids -> Change]
    BY <1>1, <1>5, <2>3, FreshChanges, Changes
  <2> QED BY <1>2, <2>3, <2>4
<1> QED BY <1>6, <1>7, <1>8, <1>9, <1>10, <1>11, <1>12, <1>13 DEF Begin

LEMMA ReadOnDates ==
  ASSUME GcInv, TreeInv', NEW s \in Sessions, ReadOn(s)  PROVE GcInv'
<1> USE IdKinds DEF Cascades, Replacing
<1>0. PICK v, r : v = View(s) /\ r = job[s]
  OBVIOUS
<1>1. /\ v \in [Ids -> Row]
      /\ r \in Job
      /\ FolderOf[s] \in Folders /\ BookmarkOf[s] \in Bookmarks
  BY <1>0, Viewed, IdsAssumption DEF TreeInv, IInv, Spares, Origin, GcInv
<1>2. /\ r.todo \subseteq Ids /\ r.stack \subseteq Folders
      /\ r.at \in Folders \cup {Root} /\ r.top \in Folders \cup {Root} /\ r.to \in Folders \cup {Root}
      /\ r.then \in {"done", "replace_folders"}
      /\ r.op \in {"reorder_folders", "replace_folders", "cascade", "cascade_bookmarks"} => r.todo \subseteq Folders
      /\ r.op = "reorder_bookmarks" => r.to # Root
      /\ r.op \in BookmarkLists => r.todo \subseteq Bookmarks
  BY <1>0, <1>1 DEF Job, Spares, TreeInv, IInv, GcInv
<1>3. \A q, op : /\ Goes(s, q) /\ Reading(s, op) /\ op # "idle" /\ q.op # "idle"
                 /\ Sound(v, r) /\ Aged(v, r) => Aged(Written(v, q.pend), q)
                 => GcInv'
  BY <1>0, GoesGc DEF Reading, Idle
\* Of most steps only the changes matter.
<1>4. \A q, op : /\ Goes(s, q) /\ Reading(s, op) /\ op # "idle" /\ q.pend \in [Ids -> Change]
                 /\ q.op \notin {"idle", "done"} \cup Cascades \/ (q.op = "done" /\ q.todo \cap Folders = {})
                 /\ q.op \in Replacing => q.then = r.then /\ r.op \in Replacing
                 /\ Sound(v, r) => Fresh(v, q.pend)
                 => GcInv'
  BY <1>1, <1>3, FreshDated DEF Aged
<1>5. NoPend \in [Ids -> Change] /\ Fresh(v, NoPend)
  BY <1>1, NoPendOK, FreshChanges DEF PendOK
<1>6. \A ids, c : c \in Change => Pend(ids, c) \in [Ids -> Change]
  BY Changes DEF Pend
<1>7. \A q, i, p : q = [Rest(r, i) EXCEPT !.pend = p] =>
         q.pend = p /\ ((q.op = "done" /\ q.todo = {}) \/ q.op = r.op)
  <2> SUFFICES ASSUME NEW q, NEW i, NEW p, q = [Rest(r, i) EXCEPT !.pend = p]
               PROVE  q.pend = p /\ ((q.op = "done" /\ q.todo = {}) \/ q.op = r.op)
    OBVIOUS
  <2>1. CASE r.todo = {i}
    BY <2>1 DEF Rest, Done, Idle
  <2>2. CASE r.todo # {i}
    BY <1>1, <2>2 DEF Rest, Job
  <2> QED BY <2>1, <2>2
<1>8. CASE CascadePop(s)
  <2>1. PICK f \in r.stack :
          Reading(s, "cascade") /\
          Goes(s, [r EXCEPT !.op = "cascade_bookmarks", !.at = f,
                            !.stack = (@ \ {f}) \cup Kids(v, f), !.pend = Pend(Kids(v, f), Trashed)])
    BY <1>0, <1>8 DEF CascadePop
  <2>2. PICK q : q = [r EXCEPT !.op = "cascade_bookmarks", !.at = f,
                               !.stack = (@ \ {f}) \cup Kids(v, f), !.pend = Pend(Kids(v, f), Trashed)]
    OBVIOUS
  <2>3. /\ q.op = "cascade_bookmarks" /\ q.top = r.top /\ q.then = r.then /\ q.todo = r.todo
        /\ q.pend = Pend(Kids(v, f), Trashed) /\ r.op = "cascade"
    BY <1>0, <1>1, <2>1, <2>2 DEF Job, Reading
  <2>4. Aged(v, r) => Aged(Written(v, q.pend), q)
    <3>1. \A i \in Kids(v, f) : v[i].st = "live"
      BY DEF Kids, LiveChildren
    <3>2. Fresh(v, q.pend) /\ q.pend \in [Ids -> Change]
      BY <1>1, <1>6, <2>3, <3>1, FreshChanges, Changes
    <3>3. \A i \in Ids : v[i].st \in {"live", "trash"} => Written(v, q.pend)[i].st \in {"live", "trash"}
      BY <1>1, <2>3, WrittenDown DEF Trashed
    <3> QED BY <1>1, <2>3, <3>2, <3>3, FreshDated DEF Aged
  <2> QED BY <1>3, <2>1, <2>2, <2>3, <2>4
<1>9. CASE CascadeBookmarks(s)
  <2>1. /\ Reading(s, "cascade_bookmarks")
        /\ Goes(s, [r EXCEPT !.op = "cascade", !.at = Root, !.pend = Pend(LiveIn(v, r.at), Trashed)])
    BY <1>0, <1>9 DEF CascadeBookmarks
  <2>2. PICK q : q = [r EXCEPT !.op = "cascade", !.at = Root, !.pend = Pend(LiveIn(v, r.at), Trashed)]
    OBVIOUS
  <2>3. /\ q.op = "cascade" /\ q.top = r.top /\ q.then = r.then /\ q.todo = r.todo
        /\ q.pend = Pend(LiveIn(v, r.at), Trashed) /\ r.op = "cascade_bookmarks"
    BY <1>0, <1>1, <2>1, <2>2 DEF Job, Reading
  <2>4. Aged(v, r) => Aged(Written(v, q.pend), q)
    <3>1. \A i \in LiveIn(v, r.at) : v[i].st = "live"
      BY DEF LiveIn
    <3>2. Fresh(v, q.pend) /\ q.pend \in [Ids -> Change]
      BY <1>1, <1>6, <2>3, <3>1, FreshChanges, Changes
    <3>3. \A i \in Ids : v[i].st \in {"live", "trash"} => Written(v, q.pend)[i].st \in {"live", "trash"}
      BY <1>1, <2>3, WrittenDown DEF Trashed
    <3> QED BY <1>1, <2>3, <3>2, <3>3, FreshDated DEF Aged
  <2> QED BY <1>3, <2>1, <2>2, <2>3, <2>4
<1>10. CASE CascadeEnd(s)
  <2>1. /\ Reading(s, "cascade")
        /\ Goes(s, [r EXCEPT !.op = r.then, !.top = Root, !.pend = Pend({r.top}, Trashed)])
    BY <1>0, <1>10 DEF CascadeEnd
  <2>2. PICK q : q = [r EXCEPT !.op = r.then, !.top = Root, !.pend = Pend({r.top}, Trashed)]
    OBVIOUS
  <2>3. /\ q.op = r.then /\ q.then = r.then /\ q.op \in {"done", "replace_folders"} /\ q.todo = r.todo
        /\ q.pend = Pend({r.top}, Trashed) /\ r.op = "cascade"
    BY <1>0, <1>1, <1>2, <2>1, <2>2 DEF Job, Reading
  <2>4. Aged(v, r) => Aged(Written(v, q.pend), q)
    <3> SUFFICES ASSUME Aged(v, r) PROVE Aged(Written(v, q.pend), q)
      OBVIOUS
    <3>1. /\ r.top \in Folders /\ v[r.top].st \in {"live", "trash"}
          /\ r.then = "done" => r.todo = {}
      BY <2>3 DEF Aged
    <3>2. Fresh(v, q.pend)
      BY <1>1, <2>3, <3>1, FreshChanges
    <3>3. q.pend \in [Ids -> Change]
      BY <1>6, <2>3, Changes
    <3>4. Dated(Written(v, q.pend))
      BY <1>1, <3>2, <3>3, FreshDated DEF Aged
    <3> QED BY <2>3, <3>1, <3>4 DEF Aged
  <2> QED BY <1>3, <2>1, <2>2, <2>3, <2>4
<1>11. CASE ReorderNext(s)
  <2>1. PICK f \in r.todo :
          /\ Reading(s, "reorder_folders") /\ MayReorder(v, f, r.to)
          /\ Goes(s, [Rest(r, f) EXCEPT !.pend = Pend({f}, Moved(v, f, r.to))])
    BY <1>0, <1>11 DEF ReorderNext
  <2>2. PICK q : q = [Rest(r, f) EXCEPT !.pend = Pend({f}, Moved(v, f, r.to))]
    OBVIOUS
  <2>3. q.pend = Pend({f}, Moved(v, f, r.to)) /\ ((q.op = "done" /\ q.todo = {}) \/ q.op = "reorder_folders")
    BY <1>0, <1>7, <2>1, <2>2 DEF Reading
  <2>4. f \in Ids /\ (r.to = Root \/ r.to = v[f].up \/ (r.to \in Folders /\ v[r.to].st = "live"))
    BY <1>2, <2>1 DEF MayReorder, MayMove, MayHold, Live
  <2>5. Fresh(v, q.pend) /\ q.pend \in [Ids -> Change]
    BY <1>1, <1>2, <1>6, <2>3, <2>4, FreshChanges, MovedOK
  <2> QED BY <1>4, <2>1, <2>2, <2>3, <2>5
<1>12. CASE MoveNext(s)
  <2>1. PICK b \in r.todo :
          /\ Reading(s, "reorder_bookmarks") \/ (Reading(s, "move_bookmarks") /\ Live(v, r.to))
          /\ Goes(s, [Rest(r, b) EXCEPT !.pend = Pend({b}, Moved(v, b, r.to))])
    BY <1>0, <1>12 DEF MoveNext
  <2>2. PICK q : q = [Rest(r, b) EXCEPT !.pend = Pend({b}, Moved(v, b, r.to))]
    OBVIOUS
  <2>3. /\ q.pend = Pend({b}, Moved(v, b, r.to))
        /\ (q.op = "done" /\ q.todo = {}) \/ q.op \in {"reorder_bookmarks", "move_bookmarks"}
    <3>1. r.op \in {"reorder_bookmarks", "move_bookmarks"}
      BY <1>0, <2>1 DEF Reading
    <3>2. q.pend = Pend({b}, Moved(v, b, r.to)) /\ ((q.op = "done" /\ q.todo = {}) \/ q.op = r.op)
      BY <1>7, <2>2, Zenon
    <3> QED BY <3>1, <3>2
  <2>4. Sound(v, r) => b \in Ids /\ r.to \in Folders /\ v[r.to].st = "live"
    BY <1>0, <1>2, <2>1 DEF Sound, Live, Reading
  <2>5. Sound(v, r) => Fresh(v, q.pend)
    BY <1>1, <2>3, <2>4, FreshChanges
  <2>6. q.pend \in [Ids -> Change]
    BY <1>1, <1>2, <1>6, <2>1, <2>3, MovedOK
  <2> QED BY <1>4, <2>1, <2>2, <2>3, <2>5, <2>6
<1>13. CASE DeleteNext(s)
  <2>1. PICK b \in r.todo :
          /\ Reading(s, "delete_bookmarks") /\ v[b].st = "live"
          /\ Goes(s, [Rest(r, b) EXCEPT !.pend = Pend({b}, Trashed)])
    BY <1>0, <1>13 DEF DeleteNext, MayDelete, Live
  <2>2. PICK q : q = [Rest(r, b) EXCEPT !.pend = Pend({b}, Trashed)]
    OBVIOUS
  <2>3. q.pend = Pend({b}, Trashed) /\ ((q.op = "done" /\ q.todo = {}) \/ q.op = "delete_bookmarks")
    <3>1. r.op = "delete_bookmarks"
      BY <1>0, <2>1 DEF Reading
    <3>2. q.pend = Pend({b}, Trashed) /\ ((q.op = "done" /\ q.todo = {}) \/ q.op = r.op)
      BY <1>7, <2>2, Zenon
    <3> QED BY <3>1, <3>2
  <2>4. Fresh(v, q.pend) /\ q.pend \in [Ids -> Change]
    BY <1>1, <1>6, <2>1, <2>3, FreshChanges, Changes
  <2> QED BY <1>4, <2>1, <2>2, <2>3, <2>4
<1>14. CASE ReplaceBookmark(s)
  <2>1. PICK b \in r.todo :
          /\ Reading(s, "replace_bookmarks") /\ v[b].st = "live"
          /\ Goes(s, [r EXCEPT !.todo = @ \ {b}, !.pend = Pend({b}, Trashed)])
    BY <1>0, <1>14 DEF ReplaceBookmark, Live
  <2>2. PICK q : q = [r EXCEPT !.todo = @ \ {b}, !.pend = Pend({b}, Trashed)]
    OBVIOUS
  <2>3. q.pend = Pend({b}, Trashed) /\ q.op = "replace_bookmarks" /\ q.then = r.then /\ r.op \in Replacing
    BY <1>0, <1>1, <2>1, <2>2 DEF Job, Reading
  <2>4. Fresh(v, q.pend) /\ q.pend \in [Ids -> Change]
    BY <1>1, <1>6, <2>1, <2>3, FreshChanges, Changes
  <2> QED BY <1>4, <2>1, <2>2, <2>3, <2>4
<1>15. CASE ReplaceListFolders(s)
  <2>1. PICK list : list = {f \in Folders \ {Inbox} : Live(v, f)}
    OBVIOUS
  <2>2. Reading(s, "replace_bookmarks") /\ Goes(s, [r EXCEPT !.op = "replace_folders", !.todo = list])
    BY <1>0, <1>15, <2>1 DEF ReplaceListFolders
  <2>3. PICK q : q = [r EXCEPT !.op = "replace_folders", !.todo = list]
    OBVIOUS
  <2>4. q.pend = NoPend /\ q.op = "replace_folders" /\ q.then = r.then /\ r.op \in Replacing
    BY <1>0, <1>1, <2>2, <2>3 DEF Job, Reading
  <2> QED BY <1>4, <1>5, <2>2, <2>3, <2>4
<1>16. CASE ReplaceFolder(s)
  <2>1. PICK f \in r.todo :
          /\ Reading(s, "replace_folders")
          /\ \/ v[f].st = "live" /\ Goes(s, [r EXCEPT !.todo = @ \ {f}, !.op = "cascade", !.top = f, !.stack = {f}])
             \/ Goes(s, [r EXCEPT !.todo = @ \ {f}])
    BY <1>0, <1>16 DEF ReplaceFolder, Live
  <2>2. CASE Goes(s, [r EXCEPT !.todo = @ \ {f}])
    <3>1. PICK q : q = [r EXCEPT !.todo = @ \ {f}]
      OBVIOUS
    <3>2. q.pend = NoPend /\ q.op = "replace_folders" /\ q.then = r.then /\ r.op \in Replacing
      BY <1>0, <1>1, <2>1, <3>1 DEF Job, Reading
    <3> QED BY <1>4, <1>5, <2>1, <2>2, <3>1, <3>2
  <2>3. CASE v[f].st = "live" /\ Goes(s, [r EXCEPT !.todo = @ \ {f}, !.op = "cascade", !.top = f, !.stack = {f}])
    <3>1. PICK q : q = [r EXCEPT !.todo = @ \ {f}, !.op = "cascade", !.top = f, !.stack = {f}]
      OBVIOUS
    <3>2. q.pend = NoPend /\ q.op = "cascade" /\ q.top = f /\ q.then = r.then /\ r.op = "replace_folders"
      BY <1>0, <1>1, <2>1, <3>1 DEF Job, Reading
    <3>3. f \in Folders
      BY <1>2, <2>1, <3>2
    <3>4. Aged(v, r) => Aged(v, q)
      BY <2>3, <3>2, <3>3 DEF Aged
    <3> QED BY <1>1, <1>3, <2>1, <2>3, <3>1, <3>2, <3>4, NothingWritten
  <2> QED BY <2>1, <2>2, <2>3
<1>17. CASE ReplaceCreateFolder(s)
  <2>1. /\ Reading(s, "replace_folders")
        /\ Goes(s, [r EXCEPT !.op = "replace_create", !.pend = Pend({FolderOf[s]}, Inserted(Root))])
    BY <1>0, <1>17 DEF ReplaceCreateFolder
  <2>2. PICK q : q = [r EXCEPT !.op = "replace_create", !.pend = Pend({FolderOf[s]}, Inserted(Root))]
    OBVIOUS
  <2>3. q.pend = Pend({FolderOf[s]}, Inserted(Root)) /\ q.op = "replace_create"
    BY <1>1, <2>2 DEF Job
  <2>4. Fresh(v, q.pend) /\ q.pend \in [Ids -> Change]
    BY <1>1, <1>6, <2>3, FreshChanges, Changes
  <2> QED BY <1>4, <2>1, <2>2, <2>3, <2>4
<1>18. CASE ReplaceCreateBookmark(s)
  <2>1. /\ Reading(s, "replace_create") /\ Live(v, r.to)
        /\ Goes(s, [Done EXCEPT !.pend = Pend({BookmarkOf[s]}, Inserted(r.to))])
    BY <1>0, <1>18 DEF ReplaceCreateBookmark
  <2>2. PICK q : q = [Done EXCEPT !.pend = Pend({BookmarkOf[s]}, Inserted(r.to))]
    OBVIOUS
  <2>3. q.pend = Pend({BookmarkOf[s]}, Inserted(r.to)) /\ q.op = "done" /\ q.todo = {}
    BY <2>2 DEF Done, Idle
  <2>4. Fresh(v, q.pend) /\ q.pend \in [Ids -> Change]
    BY <1>1, <1>2, <1>6, <2>1, <2>3, FreshChanges, Changes DEF Live
  <2> QED BY <1>4, <2>1, <2>2, <2>3, <2>4
<1>19. CASE MergeFolder(s)
  <2>1. Reading(s, "merge_folder")
    BY <1>19 DEF MergeFolder
  <2>2. CASE \E g \in Folders : Goes(s, [r EXCEPT !.op = "merge_item", !.to = g])
    <3>1. PICK g \in Folders : Goes(s, [r EXCEPT !.op = "merge_item", !.to = g])
      BY <2>2
    <3>2. PICK q : q = [r EXCEPT !.op = "merge_item", !.to = g]
      OBVIOUS
    <3>3. q.pend = NoPend /\ q.op = "merge_item"
      BY <1>0, <1>1, <2>1, <3>2 DEF Job, Reading
    <3> QED BY <1>4, <1>5, <2>1, <3>1, <3>2, <3>3
  <2>3. CASE \E p \in Folders \cup {Root} :
               /\ v[FolderOf[s]].st = "none" /\ MayHold(v, p)
               /\ Goes(s, [r EXCEPT !.op = "merge_item", !.to = FolderOf[s],
                                    !.pend = Pend({FolderOf[s]}, Inserted(p))])
    <3>1. PICK p \in Folders \cup {Root} :
            /\ MayHold(v, p)
            /\ Goes(s, [r EXCEPT !.op = "merge_item", !.to = FolderOf[s],
                                 !.pend = Pend({FolderOf[s]}, Inserted(p))])
      BY <2>3
    <3>2. PICK q : q = [r EXCEPT !.op = "merge_item", !.to = FolderOf[s],
                                 !.pend = Pend({FolderOf[s]}, Inserted(p))]
      OBVIOUS
    <3>3. q.pend = Pend({FolderOf[s]}, Inserted(p)) /\ q.op = "merge_item"
      BY <1>1, <3>2 DEF Job
    <3>4. Fresh(v, q.pend) /\ q.pend \in [Ids -> Change]
      BY <1>1, <1>6, <3>1, <3>3, FreshChanges, Changes DEF MayHold, Live
    <3> QED BY <1>4, <2>1, <3>1, <3>2, <3>3, <3>4
  <2> QED BY <1>0, <1>19, <2>2, <2>3 DEF MergeFolder
<1>20. CASE MergeItem(s)
  <2>1. Reading(s, "merge_item") /\ Live(v, r.to) /\ r.op = "merge_item"
    BY <1>0, <1>20 DEF MergeItem, Reading
  <2>2. PICK next \in {Done, [r EXCEPT !.op = "merge_folder", !.to = Root]} :
          \/ \E hit \in r.todo :
               Goes(s, [next EXCEPT !.todo = @ \ {hit}, !.pend = Pend({hit}, Moved(v, hit, r.to))])
          \/ Goes(s, [next EXCEPT !.pend = Pend({BookmarkOf[s]}, Inserted(r.to))])
    BY <1>0, <1>20, Zenon DEF MergeItem
  <2>3. next \in Job /\ (next.op = "merge_folder" \/ (next.op = "done" /\ next.todo = {}))
    <3>1. CASE next = Done
      BY <3>1, IdleOK DEF Done, Idle, Spares
    <3>2. CASE next = [r EXCEPT !.op = "merge_folder", !.to = Root]
      BY <1>1, <3>2 DEF Job, Op
    <3> QED BY <2>2, <3>1, <3>2
  <2>4. r.to \in Folders /\ v[r.to].st = "live"
    BY <1>2, <2>1 DEF Live
  <2>5. CASE \E hit \in r.todo :
               Goes(s, [next EXCEPT !.todo = @ \ {hit}, !.pend = Pend({hit}, Moved(v, hit, r.to))])
    <3>1. PICK hit \in r.todo :
            Goes(s, [next EXCEPT !.todo = @ \ {hit}, !.pend = Pend({hit}, Moved(v, hit, r.to))])
      BY <2>5
    <3>2. PICK q : q = [next EXCEPT !.todo = @ \ {hit}, !.pend = Pend({hit}, Moved(v, hit, r.to))]
      OBVIOUS
    <3>3. /\ q.pend = Pend({hit}, Moved(v, hit, r.to))
          /\ q.op = "merge_folder" \/ (q.op = "done" /\ q.todo = {})
      BY <2>3, <3>2 DEF Job
    <3>4. hit \in Ids
      BY <1>2
    <3>5. Fresh(v, q.pend) /\ q.pend \in [Ids -> Change]
      BY <1>1, <1>6, <2>4, <3>3, <3>4, FreshChanges, MovedOK
    <3> QED BY <1>4, <2>1, <3>1, <3>2, <3>3, <3>5
  <2>6. CASE Goes(s, [next EXCEPT !.pend = Pend({BookmarkOf[s]}, Inserted(r.to))])
    <3>1. PICK q : q = [next EXCEPT !.pend = Pend({BookmarkOf[s]}, Inserted(r.to))]
      OBVIOUS
    <3>2. /\ q.pend = Pend({BookmarkOf[s]}, Inserted(r.to))
          /\ q.op = "merge_folder" \/ (q.op = "done" /\ q.todo = {})
      BY <2>3, <3>1 DEF Job
    <3>3. Fresh(v, q.pend) /\ q.pend \in [Ids -> Change]
      BY <1>1, <1>6, <2>4, <3>2, FreshChanges, Changes
    <3> QED BY <1>4, <2>1, <2>6, <3>1, <3>2, <3>3
  <2> QED BY <2>2, <2>5, <2>6
<1>21. CASE SkipItem(s)
  <2>1. Reading(s, "merge_item") /\ Goes(s, Done)
    BY <1>21 DEF SkipItem
  <2>2. Done.op = "done" /\ Done.todo = {} /\ Done.pend = NoPend
    BY DEF Done, Idle
  <2> QED BY <1>4, <1>5, <2>1, <2>2
<1>22. CASE GcListFolders(s)
  <2>1. PICK list : list = {f \in Folders \ {Inbox} : v[f].st = "stale"}
    OBVIOUS
  <2>2. Reading(s, "gc_list") /\ Goes(s, [r EXCEPT !.op = "gc_folders", !.todo = list])
    BY <1>0, <1>22, <2>1 DEF GcListFolders
  <2>3. PICK q : q = [r EXCEPT !.op = "gc_folders", !.todo = list]
    OBVIOUS
  <2>4. q.pend = NoPend /\ q.op = "gc_folders"
    BY <1>0, <1>1, <2>2, <2>3 DEF Job, Reading
  <2> QED BY <1>4, <1>5, <2>2, <2>3, <2>4
<1>23. CASE GcDeleteLeaves(s)
  <2>1. PICK leaves : leaves = Leaves(v, r.todo)
    OBVIOUS
  <2>2. /\ Reading(s, "gc_folders")
        /\ \/ leaves = {} /\ Goes(s, [r EXCEPT !.op = "done"])
           \/ Goes(s, [r EXCEPT !.todo = @ \ leaves, !.pend = Pend(leaves, Removed)])
    BY <1>0, <1>23, <2>1 DEF GcDeleteLeaves
  <2>3. CASE leaves = {} /\ Goes(s, [r EXCEPT !.op = "done"])
    <3>1. PICK q : q = [r EXCEPT !.op = "done"]
      OBVIOUS
    <3>2. q.pend = NoPend /\ q.op = "done" /\ q.todo = r.todo
      BY <1>0, <1>1, <2>2, <3>1 DEF Job, Reading
    <3>3. \A f \in q.todo \cap Folders : Referred(v, f)
      BY <2>1, <2>3, <3>2 DEF Leaves, Referred
    <3>4. Aged(v, r) => Aged(v, q)
      BY <3>2, <3>3 DEF Aged
    <3> QED BY <1>1, <1>3, <2>2, <2>3, <3>1, <3>2, <3>4, NothingWritten
  <2>4. CASE Goes(s, [r EXCEPT !.todo = @ \ leaves, !.pend = Pend(leaves, Removed)])
    <3>1. PICK q : q = [r EXCEPT !.todo = @ \ leaves, !.pend = Pend(leaves, Removed)]
      OBVIOUS
    <3>2. q.pend = Pend(leaves, Removed) /\ q.op = "gc_folders"
      BY <1>0, <1>1, <2>2, <3>1 DEF Job, Reading
    <3>3. Fresh(v, q.pend) /\ q.pend \in [Ids -> Change]
      BY <1>1, <1>6, <3>2, FreshChanges, Changes
    <3> QED BY <1>4, <2>2, <2>4, <3>1, <3>2, <3>3
  <2> QED BY <2>2, <2>3, <2>4
<1> QED BY <1>8, <1>9, <1>10, <1>11, <1>12, <1>13, <1>14, <1>15, <1>16, <1>17, <1>18, <1>19,
           <1>20, <1>21, <1>22, <1>23 DEF ReadOn

LEMMA BeginReplaceDates ==
  ASSUME GcInv, TreeInv', NEW s \in Restores, BeginReplace(s)  PROVE GcInv'
<1>1. PICK list : list = {b \in Bookmarks : Live(db, b)}
  OBVIOUS
<1>2. PICK r : r = [Idle EXCEPT !.op = "replace_bookmarks", !.to = FolderOf[s],
                                !.then = "replace_folders", !.todo = list]
  OBVIOUS
<1>3. s \in Sessions /\ Start(s, r)
  BY <1>1, <1>2 DEF BeginReplace, Sessions
<1>4. r.op = "replace_bookmarks" /\ r.pend = NoPend /\ r.then = "replace_folders"
  BY <1>2 DEF Idle
<1>5. Dated(db) => Aged(Written(db, r.pend), r)
  <2>1. Written(db, r.pend) = db
    BY <1>4, NothingWritten DEF TreeInv, IInv, GcInv
  <2> QED BY <1>4, <2>1 DEF Aged, Cascades
<1> QED BY <1>3, <1>4, <1>5, StartGc

LEMMA GcInit == Init => GcInv
<1> SUFFICES ASSUME Init PROVE GcInv
  OBVIOUS
<1>1. (\A s \in Sessions : job[s] = Idle) /\ \A i \in Ids : db[i].st # "stale"
  BY DEF Init
<1>2. \A i \in Ids : db[i].up \in Folders \cup {Root}
  BY TreeInit DEF TreeInv, IInv, Row
<1>3. Dated(db)
  BY <1>1, <1>2, IdKinds DEF Dated
<1> QED BY <1>1, <1>3, TreeInit DEF GcInv

LEMMA GcNext == GcInv /\ [Next]_vars => GcInv'
<1> SUFFICES ASSUME GcInv, [Next]_vars PROVE GcInv'
  OBVIOUS
<1>1. TreeInv'
  BY TreeNext DEF GcInv
<1>2. CASE UNCHANGED vars
  <2>1. UNCHANGED <<db, tx, job, mixed>>
    BY <1>2 DEF vars
  <2>2. \A s \in Sessions : After(s)' = After(s)
    BY <2>1 DEF After, Written, View
  <2>3. ASSUME ~mixed, NEW s \in Sessions, job[s] # Idle PROVE Aged(After(s), job[s])'
    <3>1. Aged(After(s)', job'[s])
      BY <2>1, <2>2, <2>3 DEF GcInv
    <3> QED BY <3>1 DEF Aged, Dated, Referred
  <2>4. ~mixed => Dated(db)'
    BY <2>1 DEF GcInv, Dated
  <2> QED BY <1>1, <2>1, <2>3, <2>4 DEF GcInv
<1>3. CASE Next
  BY <1>1, <1>3, BeginDates, BeginReplaceDates, ReadOnDates, FlushGc, EndGc, ThirtyDaysGc DEF Next
<1> QED BY <1>2, <1>3

LEMMA GcInductive == Spec => []GcInv
<1> QED BY GcInit, GcNext, PTL DEF Spec

LEMMA DatedRefusesNothing == GcInv => GcNeverRefused
<1> SUFFICES ASSUME GcInv, ~mixed, NEW b \in Bookmarks, db[b].up # Root, db[db[b].up].st = "stale"
             PROVE  db[b].st \in {"none", "stale", "gone"}
  BY DEF GcNeverRefused
<1>1. Dated(db) /\ b \in Ids /\ db[b] \in Row
  BY IdKinds DEF GcInv, TreeInv, IInv
<1>2. db[b].st \notin {"live", "trash"}
  BY <1>1 DEF Dated
<1> QED BY <1>1, <1>2 DEF Row, State

\* A pass of the collector that is alone commits what it has seen.
GcStep ==
  \A s \in Sessions :
    job[s].op = "done" /\ job[s].todo # {} /\ job'[s] = Idle /\ db' # db =>
      \A f \in job[s].todo \cap Folders : db'[f].st = "stale" => Referred(db', f)

LEMMA CommitsWhole ==
  ASSUME GcInv, ~mixed, [Next]_vars  PROVE GcStep
<1> SUFFICES ASSUME NEW s \in Sessions, job[s].op = "done", job'[s] = Idle, db' # db,
                    NEW f \in job[s].todo \cap Folders
             PROVE  Referred(db', f)
  BY DEF GcStep
<1>1. job[s] # Idle /\ \A t \in Sessions \ {s} : job[t] = Idle
  <2>1. job[s] # Idle
    BY DEF Idle
  <2>2. \A t, u \in Sessions : job[t] # Idle /\ job[u] # Idle => t = u
    BY DEF GcInv, TreeInv, Alone
  <2> QED BY <2>1, <2>2
<1>2. CASE \E t \in Sessions : Commit(t)
  <2>1. PICK t \in Sessions : Commit(t)
    BY <1>2
  <2>2. t = s
    BY <1>1, <2>1 DEF Commit, Reading, Idle
  <2>3. db' = View(s) /\ job[s].pend = NoPend
    BY <2>1, <2>2 DEF Commit, Reading
  <2>4. After(s) = db'
    BY <2>3, Viewed, NothingWritten DEF After, TreeInv, GcInv
  <2>5. Aged(After(s), job[s])
    BY <1>1 DEF GcInv
  <2> QED BY <2>4, <2>5 DEF Aged
<1>3. CASE ThirtyDays
  BY <1>1, <1>3 DEF ThirtyDays
<1>4. ASSUME NEW t, Begin(t) \/ ReadOn(t) \/ BeginReplace(t) \/ Flush(t) \/ Fails(t)  PROVE db' = db
  BY <1>4 DEF Begin, CreateFolder, UpdateFolder, DeleteFolder, ReorderFolders, CreateBookmark, EditBookmarks,
              BeginMerge, BeginGc, BeginReplace, Start, Flush, Fails, Goes, ReadOn, CascadePop, CascadeBookmarks,
              CascadeEnd, ReorderNext, MoveNext, DeleteNext, ReplaceBookmark, ReplaceListFolders, ReplaceFolder,
              ReplaceCreateFolder, ReplaceCreateBookmark, MergeFolder, MergeItem, SkipItem, GcListFolders,
              GcDeleteLeaves
<1>5. UNCHANGED vars => db' = db
  BY DEF vars
<1> QED BY <1>2, <1>3, <1>4, <1>5 DEF Next

\* The collector meets no bookmark below a stale folder that is younger than the folder, so no
\* foreign key refuses it, and a pass that commits leaves no stale folder of its list without a row
\* that refers to it: the second for a history without overlapping sessions, since a row that
\* another session takes out of a folder after the last look at it leaves the folder behind.
THEOREM CollectorWorks ==
  /\ Spec => []GcNeverRefused
  /\ Spec /\ []~mixed => GcWorks
<1>1. Spec => []GcNeverRefused
  BY GcInductive, DatedRefusesNothing, PTL
<1>2. GcInv /\ ~mixed /\ [Next]_vars => [GcStep]_vars
  BY CommitsWhole
<1>3. Spec /\ []~mixed => [][GcStep]_vars
  BY <1>2, GcInductive, PTL DEF Spec
<1> QED BY <1>1, <1>3 DEF GcWorks, GcWhole, GcStep
=============================================================================
