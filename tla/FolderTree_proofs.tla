-------------------------- MODULE FolderTree_proofs --------------------------
(***************************************************************************)
(* The system folder survives every interleaving of requests, kills and    *)
(* collector passes, for all folders, bookmarks and requests; the live     *)
(* folders are a tree, and a pass of the collector leaves no stale folder  *)
(* behind, as long as one request runs at a time, to its end.              *)
(***************************************************************************)
EXTENDS FolderTree, WellFoundedInduction, FiniteSetTheorems, TLAPS

\* What a request in flight may still write: it never aims at the Inbox, except
\* a rename of the Inbox, which writes back the parent it has.
Deletes == {"rehome", "reparent", "soft_delete"}
Cascades == {"cascade", "cascade_bookmarks", "cascade_folder"}

Aim(r) ==
  /\ r.op = "insert_folder" => r.todo \subseteq Folders \ {Inbox}
  /\ r.op = "update_folder" => r.at \in Folders /\ (r.at = Inbox => r.to = Root)
  /\ r.op \in Deletes \cup Cascades => r.top \in Folders \ {Inbox}
  /\ r.op \in Cascades => r.todo \subseteq Folders \ {Inbox}
  /\ r.op = "cascade_folder" => r.at # Inbox
  /\ r.op = "cascade_bookmarks" => r.at \in Folders \ {Inbox}
  /\ r.op \in Homing => r.to \in Folders

GcSpares == gc.op = "folders" => Inbox \notin gc.todo

IInv ==
  /\ TypeOK
  /\ InboxSafe
  /\ \A q \in Requests : Aim(req[q])
  /\ GcSpares

\* The first state holds only the Inbox, and nothing is in flight.
LEMMA InitHolds == Init => IInv
<1> USE InboxIsFolder
<1>1. ASSUME Init PROVE TypeOK
  BY <1>1 DEF Init, TypeOK, Row, Request, Op, Idle, NoGc, Homing
<1>2. ASSUME Init PROVE InboxSafe /\ GcSpares
  BY <1>2 DEF Init, InboxSafe, GcSpares, NoGc
<1>3. ASSUME Init, NEW q \in Requests PROVE Aim(req[q])
  BY <1>3 DEF Init, Aim, Idle, Deletes, Cascades, Homing
<1> QED BY <1>1, <1>2, <1>3 DEF IInv

\* A step of one request that leaves it well aimed leaves all of them so.
LEMMA OneAims ==
  ASSUME NEW q \in Requests, NEW r \in Request, Aim(r),
         req \in [Requests -> Request], \A p \in Requests : Aim(req[p]),
         req' = [req EXCEPT ![q] = r]
  PROVE  req' \in [Requests -> Request] /\ \A p \in Requests : Aim(req'[p])
OBVIOUS

\* The request that does nothing is well formed and aims at nothing.
LEMMA IdleAims == Idle \in Request /\ Aim(Idle)
BY DEF Idle, Request, Op, Aim, Deletes, Cascades, Homing

\* Beginning a well aimed request writes no row.
LEMMA StartAims ==
  ASSUME IInv, NEW q \in Requests, NEW r \in Request, Aim(r), Start(q, r)
  PROVE  IInv'
<1>1. req' \in [Requests -> Request] /\ \A p \in Requests : Aim(req'[p])
  BY OneAims DEF IInv, TypeOK, Start
<1>2. TypeOK' /\ InboxSafe' /\ GcSpares'
  BY <1>1 DEF IInv, TypeOK, Start, rows, InboxSafe, GcSpares, Aim
<1> QED BY <1>1, <1>2 DEF IInv

\* Every check at the head of a handler leaves a well aimed request.
LEMMA BeginStep ==
  ASSUME IInv, NEW q \in Requests, Begin(q)
  PROVE  IInv'
<1> USE InboxIsFolder DEF Deletes, Cascades, Homing
<1>1. CASE CreateFolder(q)
  <2>1. PICK f \in Folders, p \in Folders \cup {Root} :
          /\ folder[f] = "none"
          /\ Start(q, [Idle EXCEPT !.op = "insert_folder", !.to = p, !.todo = {f}])
    BY <1>1 DEF CreateFolder
  <2> DEFINE r == [Idle EXCEPT !.op = "insert_folder", !.to = p, !.todo = {f}]
  <2>2. f # Inbox
    BY <2>1 DEF IInv, InboxSafe
  <2>3. r \in Request /\ Aim(r)
    BY <2>2 DEF Idle, Request, Op, Aim
  <2> QED BY <2>1, <2>3, StartAims
<1>2. CASE UpdateFolder(q)
  <2>1. PICK f \in Folders, p \in Folders \cup {Root} :
          /\ MayUpdate(f, p)
          /\ Start(q, [Idle EXCEPT !.op = "update_folder", !.at = f, !.to = p])
    BY <1>2 DEF UpdateFolder
  <2> DEFINE r == [Idle EXCEPT !.op = "update_folder", !.at = f, !.to = p]
  <2>2. f = Inbox => p = Root
    BY <2>1 DEF IInv, InboxSafe, MayUpdate
  <2>3. r \in Request /\ Aim(r)
    BY <2>2 DEF Idle, Request, Op, Aim
  <2> QED BY <2>1, <2>3, StartAims
<1>3. CASE ReorderFolders(q)
  <2>1. PICK ids \in SUBSET Folders, p \in Folders \cup {Root} :
          Start(q, [Idle EXCEPT !.op = "reorder_folders", !.to = p, !.todo = ids])
    BY <1>3 DEF ReorderFolders
  <2> DEFINE r == [Idle EXCEPT !.op = "reorder_folders", !.to = p, !.todo = ids]
  <2>2. r \in Request /\ Aim(r)
    BY DEF Idle, Request, Op, Aim
  <2> QED BY <2>1, <2>2, StartAims
<1>4. CASE DeleteFolder(q)
  <2>1. PICK f \in Folders \ {Inbox} :
          \/ \E mode \in {"move_to_inbox", "move_to_parent"} :
               Start(q, [Idle EXCEPT !.op = "rehome", !.top = f,
                                     !.to = TargetParent(f, mode)])
          \/ Start(q, [Idle EXCEPT !.op = "cascade", !.top = f, !.todo = {f}])
    BY <1>4 DEF DeleteFolder
  <2>2. CASE Start(q, [Idle EXCEPT !.op = "cascade", !.top = f, !.todo = {f}])
    <3> DEFINE r == [Idle EXCEPT !.op = "cascade", !.top = f, !.todo = {f}]
    <3>1. r \in Request /\ Aim(r)
      BY DEF Idle, Request, Op, Aim
    <3> QED BY <2>2, <3>1, StartAims
  <2>3. ASSUME NEW mode \in {"move_to_inbox", "move_to_parent"},
               Start(q, [Idle EXCEPT !.op = "rehome", !.top = f, !.to = TargetParent(f, mode)])
        PROVE  IInv'
    <3> DEFINE r == [Idle EXCEPT !.op = "rehome", !.top = f, !.to = TargetParent(f, mode)]
    <3>1. TargetParent(f, mode) \in Folders
      BY DEF IInv, TypeOK, TargetParent
    <3>2. r \in Request /\ Aim(r)
      BY <3>1 DEF Idle, Request, Op, Aim
    <3> QED BY <2>3, <3>2, StartAims
  <2> QED BY <2>1, <2>2, <2>3
<1>5. CASE CreateBookmark(q)
  <2>1. PICK b \in Bookmarks, f \in Folders :
          Start(q, [Idle EXCEPT !.op = "insert_bookmark", !.to = f, !.todo = {b}])
    BY <1>5 DEF CreateBookmark
  <2> DEFINE r == [Idle EXCEPT !.op = "insert_bookmark", !.to = f, !.todo = {b}]
  <2>2. r \in Request /\ Aim(r)
    BY DEF Idle, Request, Op, Aim
  <2> QED BY <2>1, <2>2, StartAims
<1>6. CASE UpdateBookmark(q)
  <2>1. PICK b \in Bookmarks, f \in Folders :
          Start(q, [Idle EXCEPT !.op = "update_bookmark", !.to = f, !.todo = {b}])
    BY <1>6 DEF UpdateBookmark
  <2> DEFINE r == [Idle EXCEPT !.op = "update_bookmark", !.to = f, !.todo = {b}]
  <2>2. r \in Request /\ Aim(r)
    BY DEF Idle, Request, Op, Aim
  <2> QED BY <2>1, <2>2, StartAims
<1>7. CASE EditBookmarks(q)
  <2>1. PICK ids \in SUBSET Bookmarks :
          \/ \E f \in Folders, op \in {"reorder_bookmarks", "batch_move"} :
               Start(q, [Idle EXCEPT !.op = op, !.to = f, !.todo = ids])
          \/ Start(q, [Idle EXCEPT !.op = "batch_delete", !.todo = ids])
    BY <1>7 DEF EditBookmarks
  <2>2. ASSUME NEW f \in Folders, NEW op \in {"reorder_bookmarks", "batch_move"},
               Start(q, [Idle EXCEPT !.op = op, !.to = f, !.todo = ids])
        PROVE  IInv'
    <3> DEFINE r == [Idle EXCEPT !.op = op, !.to = f, !.todo = ids]
    <3>1. r \in Request /\ Aim(r)
      BY DEF Idle, Request, Op, Aim
    <3> QED BY <2>2, <3>1, StartAims
  <2>3. CASE Start(q, [Idle EXCEPT !.op = "batch_delete", !.todo = ids])
    <3> DEFINE r == [Idle EXCEPT !.op = "batch_delete", !.todo = ids]
    <3>1. r \in Request /\ Aim(r)
      BY DEF Idle, Request, Op, Aim
    <3> QED BY <2>3, <3>1, StartAims
  <2> QED BY <2>1, <2>2, <2>3
<1> QED BY <1>1, <1>2, <1>3, <1>4, <1>5, <1>6, <1>7 DEF Begin

\* What a statement leaves of its request is still well aimed.
LEMMA ContinueAims ==
  ASSUME NEW r \in Request, Aim(r), NEW op \in Op,
         \/ r.op = "rehome" /\ op = "reparent"
         \/ r.op = "reparent" /\ op = "soft_delete"
         \/ r.op = "cascade_bookmarks" /\ op \in {"cascade", "cascade_folder"}
         \/ r.op = "cascade_folder" /\ op = "cascade"
  PROVE  [r EXCEPT !.op = op] \in Request /\ Aim([r EXCEPT !.op = op])
BY DEF Request, Op, Aim, Deletes, Cascades, Homing

LEMMA RestAims ==
  ASSUME NEW r \in Request, Aim(r), NEW id
  PROVE  Rest(r, id) \in Request /\ Aim(Rest(r, id))
<1>1. CASE r.todo = {id}
  BY <1>1, IdleAims DEF Rest
<1>2. CASE r.todo # {id}
  BY <1>2 DEF Rest, Request, Aim, Deletes, Cascades, Homing
<1> QED BY <1>1, <1>2

\* The statements of one request: the rows keep their types, the Inbox its
\* place, and the request its aim.
LEMMA StatementStep ==
  ASSUME IInv, NEW q \in Requests,
         Statement(q) \/ ForeignKeyFails(q) \/ Killed(q)
  PROVE  IInv'
<1> USE InboxIsFolder DEF Deletes, Cascades, Homing
<1> DEFINE R == req[q]
<1>a. /\ TypeOK /\ InboxSafe /\ GcSpares
      /\ R \in Request /\ Aim(R)
      /\ req \in [Requests -> Request] /\ \A p \in Requests : Aim(req[p])
  BY DEF IInv, TypeOK
<1>b. ASSUME NEW r \in Request, Aim(r), req' = [req EXCEPT ![q] = r]
      PROVE  req' \in [Requests -> Request] /\ \A p \in Requests : Aim(req'[p])
  BY <1>a, <1>b, OneAims
<1>c. ASSUME Done(q)
      PROVE  req' \in [Requests -> Request] /\ \A p \in Requests : Aim(req'[p])
  BY <1>b, <1>c, IdleAims DEF Done
<1>d. ASSUME NEW x, req' = [req EXCEPT ![q] = Rest(R, x)]
      PROVE  req' \in [Requests -> Request] /\ \A p \in Requests : Aim(req'[p])
  BY <1>a, <1>b, <1>d, RestAims
<1>e. ASSUME req' \in [Requests -> Request], \A p \in Requests : Aim(req'[p]),
             folder' \in [Folders -> Row], parent' \in [Folders -> Folders \cup {Root}],
             bookmark' \in [Bookmarks -> Row], home' \in [Bookmarks -> Folders],
             gc' = gc, folder'[Inbox] = "live", parent'[Inbox] = Root
      PROVE  IInv'
  BY <1>a, <1>e DEF IInv, TypeOK, InboxSafe, GcSpares, Aim
<1>1. CASE InsertFolder(q)
  <2>1. folder' \in [Folders -> Row] /\ folder'[Inbox] = "live"
    BY <1>a, <1>1 DEF InsertFolder, TypeOK, InboxSafe, Row
  <2>2. parent' \in [Folders -> Folders \cup {Root}] /\ parent'[Inbox] = Root
    BY <1>a, <1>1 DEF InsertFolder, TypeOK, InboxSafe, Request, Aim
  <2> QED BY <1>1, <1>a, <1>c, <1>e, <2>1, <2>2 DEF InsertFolder, TypeOK
<1>2. CASE WriteParent(q)
  <2>1. parent' \in [Folders -> Folders \cup {Root}] /\ parent'[Inbox] = Root
    BY <1>a, <1>2 DEF WriteParent, TypeOK, InboxSafe, Request, Aim
  <2> QED BY <1>2, <1>a, <1>c, <1>e, <2>1 DEF WriteParent, TypeOK, InboxSafe
<1>3. CASE ReorderNext(q)
  <2>1. parent' \in [Folders -> Folders \cup {Root}] /\ parent'[Inbox] = Root
    <3>1. PICK f \in R.todo : parent' = [parent EXCEPT ![f] = Reordered(f, R.to)]
      BY <1>3 DEF ReorderNext
    <3>2. f \in Folders => Reordered(f, R.to) \in Folders \cup {Root}
      BY <1>a DEF Reordered, TypeOK, Request
    <3>3. Reordered(Inbox, R.to) = Root
      BY <1>a DEF Reordered, InboxSafe
    <3> QED BY <1>a, <3>1, <3>2, <3>3 DEF TypeOK, InboxSafe
  <2> QED BY <1>3, <1>a, <1>d, <1>e, <2>1 DEF ReorderNext, TypeOK, InboxSafe
<1>4. CASE MoveBookmarks(q)
  <2>1. home' \in [Bookmarks -> Folders]
    BY <1>a, <1>4 DEF MoveBookmarks, TypeOK, Aim
  <2>2. req' \in [Requests -> Request] /\ \A p \in Requests : Aim(req'[p])
    BY <1>4, <1>a, <1>b, ContinueAims DEF MoveBookmarks, Continue, Op
  <2> QED BY <1>4, <1>a, <1>e, <2>1, <2>2 DEF MoveBookmarks, TypeOK, InboxSafe
<1>5. CASE MoveChildren(q)
  <2>1. parent' \in [Folders -> Folders \cup {Root}]
    BY <1>a, <1>5 DEF MoveChildren, Reparented, TypeOK, Request
  <2>2. Inbox \notin LiveChildren(R.top)
    BY <1>a, <1>5 DEF MoveChildren, LiveChildren, InboxSafe, Aim
  <2>3. parent'[Inbox] = Root
    BY <1>a, <1>5, <2>2 DEF MoveChildren, Reparented, InboxSafe
  <2>4. req' \in [Requests -> Request] /\ \A p \in Requests : Aim(req'[p])
    BY <1>5, <1>a, <1>b, ContinueAims DEF MoveChildren, Continue, Op
  <2> QED BY <1>5, <1>a, <1>e, <2>1, <2>3, <2>4 DEF MoveChildren, TypeOK, InboxSafe
<1>6. CASE CascadePop(q)
  <2>1. PICK f \in R.todo :
          req' = [req EXCEPT ![q] = [op |-> "cascade_bookmarks", at |-> f, top |-> @.top,
                     to |-> @.to, todo |-> (@.todo \ {f}) \cup LiveChildren(f)]]
    BY <1>6 DEF CascadePop
  <2>2. f \in Folders \ {Inbox} /\ LiveChildren(f) \subseteq Folders \ {Inbox}
    BY <1>a, <1>6 DEF CascadePop, Aim, LiveChildren, InboxSafe
  <2> DEFINE r == [op |-> "cascade_bookmarks", at |-> f, top |-> R.top, to |-> R.to,
                   todo |-> (R.todo \ {f}) \cup LiveChildren(f)]
  <2>3. req' = [req EXCEPT ![q] = r]
    BY <1>a, <2>1 DEF Request
  <2>4. r \in Request /\ Aim(r)
    BY <1>a, <1>6, <2>2 DEF CascadePop, Request, Op, Aim
  <2> QED BY <1>6, <1>a, <1>b, <1>e, <2>3, <2>4 DEF CascadePop, rows, TypeOK, InboxSafe
<1>7. CASE CascadeBookmarks(q)
  <2>1. bookmark' \in [Bookmarks -> Row]
    BY <1>a, <1>7 DEF CascadeBookmarks, TypeOK, Row
  <2>2. PICK op \in {"cascade", "cascade_folder"} :
          req' = [req EXCEPT ![q] = [R EXCEPT !.op = op]]
    BY <1>7, <1>a DEF CascadeBookmarks, Continue
  <2>3. [R EXCEPT !.op = op] \in Request /\ Aim([R EXCEPT !.op = op])
    BY <1>7, <1>a, ContinueAims DEF CascadeBookmarks, Op
  <2> QED BY <1>7, <1>a, <1>b, <1>e, <2>1, <2>2, <2>3 DEF CascadeBookmarks, TypeOK, InboxSafe
<1>8. CASE CascadeFolder(q)
  <2>1. folder' \in [Folders -> Row] /\ folder'[Inbox] = "live"
    BY <1>a, <1>8 DEF CascadeFolder, SoftDeleteFolder, TypeOK, InboxSafe, Row, Aim
  <2>2. req' \in [Requests -> Request] /\ \A p \in Requests : Aim(req'[p])
    BY <1>8, <1>a, <1>b, ContinueAims DEF CascadeFolder, Continue, Op
  <2> QED BY <1>8, <1>a, <1>e, <2>1, <2>2 DEF CascadeFolder, SoftDeleteFolder, TypeOK, InboxSafe
<1>9. CASE DeleteTop(q)
  <2>1. folder' \in [Folders -> Row] /\ folder'[Inbox] = "live"
    BY <1>a, <1>9 DEF DeleteTop, SoftDeleteFolder, TypeOK, InboxSafe, Row, Aim
  <2> QED BY <1>9, <1>a, <1>c, <1>e, <2>1 DEF DeleteTop, SoftDeleteFolder, TypeOK, InboxSafe
<1>10. CASE InsertBookmark(q)
  <2>1. bookmark' \in [Bookmarks -> Row] /\ home' \in [Bookmarks -> Folders]
    BY <1>a, <1>10 DEF InsertBookmark, TypeOK, Row, Aim
  <2> QED BY <1>10, <1>a, <1>c, <1>e, <2>1 DEF InsertBookmark, TypeOK, InboxSafe
<1>11. CASE WriteHome(q)
  <2>1. home' \in [Bookmarks -> Folders]
    BY <1>a, <1>11 DEF WriteHome, TypeOK, Aim
  <2> QED BY <1>11, <1>a, <1>d, <1>e, <2>1 DEF WriteHome, TypeOK, InboxSafe
<1>12. CASE BatchDelete(q)
  <2>1. bookmark' \in [Bookmarks -> Row]
    BY <1>a, <1>12 DEF BatchDelete, TypeOK, Row
  <2> QED BY <1>12, <1>a, <1>d, <1>e, <2>1 DEF BatchDelete, TypeOK, InboxSafe
<1>13. CASE DeleteBookmark(q)
  <2>1. bookmark' \in [Bookmarks -> Row]
    BY <1>a, <1>13 DEF DeleteBookmark, TypeOK, Row
  <2> QED BY <1>13, <1>a, <1>e, <2>1 DEF DeleteBookmark, TypeOK, InboxSafe
<1>14. CASE ForeignKeyFails(q) \/ Killed(q)
  BY <1>14, <1>a, <1>c, <1>e DEF ForeignKeyFails, Killed, rows, TypeOK, InboxSafe
<1> QED
  BY <1>1, <1>2, <1>3, <1>4, <1>5, <1>6, <1>7, <1>8, <1>9, <1>10, <1>11, <1>12, <1>13, <1>14
  DEF Statement

\* The collector lists folders that are deleted and not the system's.
LEMMA GcStep ==
  ASSUME IInv, Gc \/ FifteenDays
  PROVE  IInv'
<1> USE InboxIsFolder
<1>1. TypeOK /\ InboxSafe /\ GcSpares /\ \A q \in Requests : Aim(req[q])
  BY DEF IInv
<1>2. CASE GcListBookmarks
  <2> DEFINE stale == {b \in Bookmarks : bookmark[b] = "stale"}
  <2>0. stale \subseteq Folders \cup Bookmarks
    OBVIOUS
  <2> HIDE DEF stale
  <2>1. gc' = [op |-> "bookmarks", todo |-> stale, listed |-> {}]
    BY <1>2 DEF GcListBookmarks, NoGc, stale
  <2>2. UNCHANGED <<folder, parent, bookmark, home, req>>
    BY <1>2 DEF GcListBookmarks, rows
  <2> QED BY <1>1, <2>0, <2>1, <2>2 DEF IInv, TypeOK, InboxSafe, GcSpares
<1>3. CASE GcDeleteBookmark
  <2>1. PICK b \in gc.todo :
          bookmark' = [bookmark EXCEPT ![b] = "gone"] /\ gc' = [gc EXCEPT !.todo = @ \ {b}]
    BY <1>3 DEF GcDeleteBookmark
  <2>2. bookmark' \in [Bookmarks -> Row]
    BY <1>1, <2>1 DEF TypeOK, Row
  <2>3. GcSpares' /\ gc' \in [op : {"idle", "bookmarks", "folders", "failed"},
             todo : SUBSET (Folders \cup Bookmarks), listed : SUBSET Folders]
    BY <1>1, <2>1 DEF TypeOK, GcSpares
  <2> QED BY <1>1, <1>3, <2>2, <2>3 DEF GcDeleteBookmark, IInv, TypeOK, InboxSafe
<1>4. CASE GcListFolders
  BY <1>1, <1>4 DEF GcListFolders, rows, IInv, TypeOK, InboxSafe, GcSpares
<1>5. CASE GcDeleteFolder
  <2>1. PICK f \in gc.todo :
          /\ folder' = [folder EXCEPT ![f] = IF HasChildRow(f) THEN @ ELSE "gone"]
          /\ gc' = [gc EXCEPT !.todo = @ \ {f}]
    BY <1>5 DEF GcDeleteFolder, NextToCollect
  <2>2. f # Inbox
    BY <1>1, <1>5 DEF GcDeleteFolder, GcSpares
  <2>3. folder' \in [Folders -> Row] /\ folder'[Inbox] = "live"
    BY <1>1, <2>1, <2>2 DEF TypeOK, InboxSafe, Row
  <2>4. GcSpares' /\ gc' \in [op : {"idle", "bookmarks", "folders", "failed"},
             todo : SUBSET (Folders \cup Bookmarks), listed : SUBSET Folders]
    BY <1>1, <2>1 DEF TypeOK, GcSpares
  <2> QED BY <1>1, <1>5, <2>3, <2>4 DEF GcDeleteFolder, IInv, TypeOK, InboxSafe
<1>6. CASE GcFails
  BY <1>1, <1>6 DEF GcFails, NoGc, rows, IInv, TypeOK, InboxSafe, GcSpares
<1>7. CASE GcEnds
  BY <1>1, <1>7 DEF GcEnds, NoGc, rows, IInv, TypeOK, InboxSafe, GcSpares
<1>8. CASE FifteenDays
  <2>1. \A row \in Row : Older(row) \in Row /\ (row = "live" => Older(row) = "live")
    BY DEF Older, Row
  <2>2. folder' \in [Folders -> Row] /\ bookmark' \in [Bookmarks -> Row] /\ folder'[Inbox] = "live"
    BY <1>1, <1>8, <2>1 DEF FifteenDays, TypeOK, InboxSafe
  <2> QED BY <1>1, <1>8, <2>2 DEF FifteenDays, IInv, TypeOK, InboxSafe, GcSpares
<1> QED BY <1>2, <1>3, <1>4, <1>5, <1>6, <1>7, <1>8 DEF Gc

LEMMA NextStep == IInv /\ [Next]_vars => IInv'
<1>1. ASSUME IInv, Next PROVE IInv'
  BY <1>1, BeginStep, StatementStep, GcStep DEF Next
<1>2. ASSUME IInv, UNCHANGED vars PROVE IInv'
  BY <1>2 DEF vars, IInv, TypeOK, InboxSafe, GcSpares
<1> QED BY <1>1, <1>2

\* Rows, requests in flight and the collector keep their types; a folder_id
\* written by any handler is a folder, never NULL.
THEOREM TypeCorrect == Spec => []TypeOK
<1>1. Spec => []IInv
  BY InitHolds, NextStep, PTL DEF Spec
<1>2. IInv => TypeOK
  BY DEF IInv
<1> QED BY <1>1, <1>2, PTL

\* No interleaving of folder requests, Workers killed midway and collector
\* passes deletes the system folder or moves it below another one.
THEOREM InboxIsSafe == Spec => []InboxSafe
<1>1. Spec => []IInv
  BY InitHolds, NextStep, PTL DEF Spec
<1>2. IInv => InboxSafe
  BY DEF IInv
<1> QED BY <1>1, <1>2, PTL
-----------------------------------------------------------------------------
(* Walks up the tree. *)

\* What holds of 0, and of n + 1 when it holds of n, holds of every natural number.
LEMMA SetInduction ==
  \A S : 0 \in S /\ (\A n \in Nat : n \in S => n + 1 \in S) => Nat \subseteq S
<1> SUFFICES ASSUME NEW S, 0 \in S, \A n \in Nat : n \in S => n + 1 \in S
             PROVE  Nat \subseteq S
  OBVIOUS
<1> DEFINE T == {n \in Nat : n \notin S}
<1>1. ASSUME T # {} PROVE FALSE
  <2>1. PICK x \in T : \A y \in T : ~ (<<y, x>> \in OpToRel(<, Nat))
    BY <1>1, NatLessThanWellFounded, WFMin
  <2>2. \A y \in T : ~ (y < x)
    BY <2>1 DEF OpToRel
  <2> QED BY <2>2
<1> QED BY <1>1

\* The first n steps of a walk that starts at x and goes on by the function next.
Steps(next, X, x, n) ==
  {w \in [0..n -> X] : w[0] = x /\ \A i \in 0..(n - 1) : w[i + 1] = next[w[i]]}

LEMMA StepsExist ==
  ASSUME NEW X, NEW next \in [X -> X], NEW x \in X
  PROVE  \A n \in Nat : Steps(next, X, x, n) # {}
<1> DEFINE S == {n \in Nat : Steps(next, X, x, n) # {}}
<1>1. 0 \in S
  <2>1. [i \in 0..0 |-> x] \in Steps(next, X, x, 0)
    BY DEF Steps
  <2> QED BY <2>1
<1>2. ASSUME NEW n \in Nat, n \in S PROVE n + 1 \in S
  <2>1. PICK w \in [0..n -> X] : w[0] = x /\ \A i \in 0..(n - 1) : w[i + 1] = next[w[i]]
    BY <1>2 DEF Steps
  <2> DEFINE v == [i \in 0..(n + 1) |-> IF i = n + 1 THEN next[w[n]] ELSE w[i]]
  <2>2. v \in [0..(n + 1) -> X] /\ v[0] = x
    BY <2>1
  <2>3. ASSUME NEW i \in 0..n PROVE v[i + 1] = next[v[i]]
    <3>1. CASE i = n
      BY <3>1
    <3>2. CASE i # n
      BY <2>1, <3>2
    <3> QED BY <3>1, <3>2
  <2>4. (n + 1) - 1 = n
    OBVIOUS
  <2>5. v \in Steps(next, X, x, n + 1)
    BY <2>2, <2>3, <2>4 DEF Steps
  <2> QED BY <2>5
<1> HIDE DEF S
<1>3. Nat \subseteq S
  BY <1>1, <1>2, SetInduction
<1> QED BY <1>3 DEF S

LEMMA StepsAgree ==
  ASSUME NEW X, NEW next \in [X -> X], NEW x \in X,
         NEW m \in Nat, NEW n \in Nat, m <= n,
         NEW v \in Steps(next, X, x, m), NEW w \in Steps(next, X, x, n)
  PROVE  \A i \in 0..m : v[i] = w[i]
<1> DEFINE S == {i \in Nat : i <= m => v[i] = w[i]}
<1>1. 0 \in S
  BY DEF Steps
<1>2. ASSUME NEW i \in Nat, i \in S PROVE i + 1 \in S
  <2>1. CASE i + 1 <= m
    <3>1. i \in 0..(m - 1) /\ i \in 0..(n - 1) /\ v[i] = w[i]
      BY <1>2, <2>1
    <3>2. v[i + 1] = next[v[i]] /\ w[i + 1] = next[w[i]]
      BY <3>1 DEF Steps
    <3> QED BY <3>1, <3>2
  <2> QED BY <2>1
<1> HIDE DEF S
<1>3. Nat \subseteq S
  BY <1>1, <1>2, SetInduction
<1> QED BY <1>3 DEF S

IsWalk(walk, next, X, x) ==
  walk \in [Nat -> X] /\ \A n \in Nat : walk[n] = IF n = 0 THEN x ELSE next[walk[n - 1]]

LEMMA WalkExists ==
  \A X, next, x : next \in [X -> X] /\ x \in X => \E walk : IsWalk(walk, next, X, x)
<1> SUFFICES ASSUME NEW X, NEW next \in [X -> X], NEW x \in X
             PROVE  \E walk : IsWalk(walk, next, X, x)
  OBVIOUS
<1> DEFINE W(n) == CHOOSE w \in Steps(next, X, x, n) : TRUE
<1>1. \A n \in Nat : W(n) \in Steps(next, X, x, n)
  BY StepsExist
<1> DEFINE walk == [n \in Nat |-> W(n)[n]]
<1>2. ASSUME NEW n \in Nat PROVE W(n)[n] \in X
  <2>1. W(n) \in [0..n -> X]
    <3> HIDE DEF W
    <3> QED BY <1>1 DEF Steps
  <2> HIDE DEF W
  <2> QED BY <2>1
<1>3. W(0)[0] = x
  BY <1>1 DEF Steps
<1>4. ASSUME NEW n \in Nat, n # 0 PROVE W(n)[n] = next[W(n - 1)[n - 1]]
  <2>1. n - 1 \in Nat /\ n - 1 <= n /\ n - 1 \in 0..(n - 1) /\ (n - 1) + 1 = n
    BY <1>4
  <2>2. W(n) \in Steps(next, X, x, n) /\ W(n - 1) \in Steps(next, X, x, n - 1)
    BY <1>1, <2>1
  <2> HIDE DEF W
  <2>3. W(n - 1)[n - 1] = W(n)[n - 1]
    BY <2>1, <2>2, StepsAgree
  <2>4. W(n)[(n - 1) + 1] = next[W(n)[n - 1]]
    BY <2>1, <2>2 DEF Steps
  <2> QED BY <2>1, <2>3, <2>4
<1> HIDE DEF W
<1>5. walk \in [Nat -> X]
  BY <1>2
<1>6. \A n \in Nat : walk[n] = IF n = 0 THEN x ELSE next[walk[n - 1]]
  BY <1>3, <1>4
<1> HIDE DEF walk
<1> QED BY <1>5, <1>6 DEF IsWalk

\* Where the walk goes from a folder.
Above(f) == IF f # Root /\ folder[f] = "live" THEN parent[f] ELSE Root

LEMMA WalkUp ==
  ASSUME TypeOK, NEW f \in Folders \cup {Root}
  PROVE  /\ Up(f) \in [Nat -> Folders \cup {Root}]
         /\ Up(f)[0] = f
         /\ \A n \in Nat : Up(f)[n + 1] = Above(Up(f)[n])
<1> DEFINE X == Folders \cup {Root}
           next == [g \in X |-> Above(g)]
<1>1. next \in [X -> X]
  BY DEF TypeOK, Above
<1>2. PICK walk : IsWalk(walk, next, X, f)
  <2>1. f \in X
    OBVIOUS
  <2> HIDE DEF next, X
  <2> QED BY <1>1, <2>1, WalkExists
<1>3. walk \in [Nat -> X] /\ \A n \in Nat : walk[n] = IF n = 0 THEN f ELSE next[walk[n - 1]]
  <2> HIDE DEF next, X
  <2> QED BY <1>2 DEF IsWalk
<1>4. ASSUME NEW n \in Nat PROVE walk[n] = IF n = 0 THEN f ELSE Above(walk[n - 1])
  <2>1. n # 0 => walk[n - 1] \in X
    BY <1>3
  <2>2. \A g \in X : next[g] = Above(g)
    OBVIOUS
  <2> HIDE DEF X, next
  <2> QED BY <1>3, <2>1, <2>2
<1>5. walk = [n \in Nat |-> IF n = 0 THEN f
                            ELSE LET g == walk[n - 1]
                                 IN IF g # Root /\ folder[g] = "live" THEN parent[g] ELSE Root]
  BY <1>3, <1>4 DEF Above
<1>6. Up(f) = [n \in Nat |-> IF n = 0 THEN f
                            ELSE LET g == Up(f)[n - 1]
                                 IN IF g # Root /\ folder[g] = "live" THEN parent[g] ELSE Root]
  BY <1>5 DEF Up
<1>7. \A n \in Nat : Up(f)[n] = IF n = 0 THEN f ELSE Above(Up(f)[n - 1])
  BY <1>6 DEF Above
<1>8. Up(f)[0] = f /\ \A n \in Nat : Up(f)[n + 1] = Above(Up(f)[n])
  BY <1>7
<1> DEFINE S == {n \in Nat : Up(f)[n] \in X}
<1>9. 0 \in S /\ \A n \in Nat : n \in S => n + 1 \in S
  BY <1>1, <1>8
<1> HIDE DEF S
<1>10. Nat \subseteq S
  BY <1>9, SetInduction
<1>11. \A n \in Nat : Up(f)[n] \in X
  BY <1>10 DEF S
<1> HIDE DEF X, next
<1>12. Up(f) = [n \in Nat |-> Up(f)[n]]
  BY <1>6
<1> QED BY <1>8, <1>11, <1>12 DEF X

-----------------------------------------------------------------------------
(* Folders that are live, and circles of them. *)

\* Live folders each of which is in another one of them.
Circle(S) == S # {} /\ S \subseteq Folders /\ \A f \in S : folder[f] = "live" /\ parent[f] \in S
NoCircle == \A S \in SUBSET Folders : ~Circle(S)

\* The folders that p is in, itself included, and f is none of them.
Apart(p, f) ==
  \E A \in SUBSET Folders :
    p \in A /\ f \notin A /\ \A g \in A : folder[g] = "live" => parent[g] \in A \cup {Root}

\* What the walk of assertFolderParentOk does not meet is no folder above.
LEMMA ParentOkApart ==
  ASSUME TypeOK, NEW p \in Folders, NEW f \in Folders, ParentOk(p, f)
  PROVE  folder[p] = "live" /\ Apart(p, f)
<1> USE InboxIsFolder, DepthAssumption
<1> DEFINE A == {Up(p)[i] : i \in 0..MaxDepth} \ {Root}
<1>1. /\ Up(p) \in [Nat -> Folders \cup {Root}] /\ Up(p)[0] = p
      /\ \A n \in Nat : Up(p)[n + 1] = Above(Up(p)[n])
  BY WalkUp
<1>2. folder[p] = "live" /\ Up(p)[MaxDepth] = Root /\ \A i \in 0..MaxDepth : Up(p)[i] # f
  BY DEF ParentOk
<1>3. p \in A /\ f \notin A /\ A \in SUBSET Folders
  BY <1>1, <1>2
<1>4. ASSUME NEW g \in A, folder[g] = "live" PROVE parent[g] \in A \cup {Root}
  <2>1. PICK i \in 0..MaxDepth : g = Up(p)[i]
    OBVIOUS
  <2>2. i + 1 \in 0..MaxDepth /\ i \in Nat
    BY <1>2, <2>1
  <2>3. Up(p)[i + 1] = parent[g]
    BY <1>1, <1>4, <2>1, <2>2 DEF Above
  <2> QED BY <2>2, <2>3
<1> HIDE DEF A
<1> QED BY <1>2, <1>3, <1>4 DEF Apart

\* A walk that is at the top stays there.
LEMMA WalkEnds ==
  ASSUME TypeOK, NEW f \in Folders, NEW i \in Nat, NEW n \in Nat, i <= n, Up(f)[i] = Root
  PROVE  Up(f)[n] = Root
<1> DEFINE S == {k \in Nat : Up(f)[i + k] = Root}
<1>1. 0 \in S
  OBVIOUS
<1>2. ASSUME NEW k \in Nat, k \in S PROVE k + 1 \in S
  <2>1. Up(f)[(i + k) + 1] = Above(Up(f)[i + k])
    BY WalkUp
  <2>2. (i + k) + 1 = i + (k + 1)
    OBVIOUS
  <2> QED BY <1>2, <2>1, <2>2 DEF Above
<1> HIDE DEF S
<1>3. Nat \subseteq S
  BY <1>1, <1>2, SetInduction
<1>4. n - i \in S /\ i + (n - i) = n
  BY <1>3
<1> QED BY <1>4 DEF S

\* Among as many folders as there are, a walk that goes on meets one twice.
LEMMA NoCircleNoCycle ==
  ASSUME TypeOK, IsFiniteSet(Folders), NoCircle
  PROVE  NoCycle
<1> DEFINE N == Cardinality(Folders)
<1>1. N \in Nat
  BY FS_CardinalityType
<1>2. SUFFICES ASSUME NEW f \in Folders, Up(f)[N] # Root PROVE FALSE
  BY DEF NoCycle
<1> DEFINE w == Up(f)
<1>3. /\ w \in [Nat -> Folders \cup {Root}]
      /\ \A n \in Nat : w[n + 1] = Above(w[n])
  BY WalkUp
<1> HIDE DEF N
<1>4. \A i \in 0..N : w[i] # Root
  BY <1>1, <1>2, WalkEnds
<1> HIDE DEF w
<1> DEFINE v == [i \in 0..N |-> w[i]]
<1>5. v \in [0..N -> Folders]
  BY <1>1, <1>3, <1>4
<1>6. IsFiniteSet(0..N) /\ Cardinality(0..N) = N + 1
  BY <1>1, FS_Interval
<1>7. PICK i \in 0..N, j \in 0..N : i # j /\ w[i] = w[j]
  <2>1. N < N + 1
    BY <1>1
  <2> HIDE DEF v
  <2>2. \E i \in 0..N, j \in 0..N : i # j /\ v[i] = v[j]
    BY <1>5, <1>6, <2>1, FS_PigeonHole DEF N
  <2> QED BY <2>2 DEF v
<1>8. ASSUME NEW a \in 0..N, NEW b \in 0..N, a < b, w[a] = w[b] PROVE FALSE
  <2> DEFINE S == {w[k] : k \in a..(b - 1)}
  <2>1. S # {}
    BY <1>1, <1>8
  <2>2. ASSUME NEW k \in a..(b - 1)
        PROVE  w[k] \in Folders /\ folder[w[k]] = "live" /\ parent[w[k]] \in S
    <3>1. k \in 0..N /\ k + 1 \in 0..N /\ k \in Nat
      BY <1>1, <2>2
    <3>2. w[k] # Root /\ w[k + 1] # Root /\ w[k + 1] = Above(w[k]) /\ w[k] \in Folders
      BY <1>3, <1>4, <3>1
    <3>3. folder[w[k]] = "live" /\ parent[w[k]] = w[k + 1]
      BY <3>2 DEF Above
    <3>4. w[k + 1] \in S
      <4>1. CASE k + 1 = b
        <5>1. a \in a..(b - 1)
          BY <1>1, <1>8
        <5> QED BY <1>8, <4>1, <5>1
      <4>2. CASE k + 1 # b
        <5>1. k + 1 \in a..(b - 1)
          BY <1>1, <2>2, <4>2
        <5> QED BY <5>1
      <4> QED BY <4>1, <4>2
    <3> QED BY <3>2, <3>3, <3>4
  <2>3. Circle(S)
    BY <2>1, <2>2 DEF Circle
  <2> QED BY <2>3 DEF NoCircle, Circle
<1>9. i < j \/ j < i
  BY <1>1, <1>7
<1> QED BY <1>7, <1>8, <1>9

\* A folder that a request may put f into, so that no circle closes.
Fits(p, f) == p = Root \/ p = parent[f] \/ (p \in Folders /\ folder[p] = "live" /\ Apart(p, f))

\* What a request that is alone has read still holds when it writes.
Holds(r) ==
  /\ r.op = "insert_folder" =>
       (r.to = Root \/ folder[r.to] = "live") /\ \A f \in r.todo : folder[f] = "none"
  /\ r.op = "update_folder" => Fits(r.to, r.at)
  /\ r.op = "reorder_folders" => \A f \in r.todo \ {Inbox} : Fits(r.to, f)
  /\ r.op = "insert_bookmark" => \A b \in r.todo \cap Bookmarks : bookmark[b] = "none"
  /\ r.op \in Homing => folder[r.to] = "live"

\* The folder to delete is emptied first: its bookmarks, then its folders.
Empties(r) ==
  /\ r.op \in Deletes =>
       /\ r.to \in Folders \ {r.top} /\ folder[r.to] = "live" /\ folder[r.top] = "live"
       /\ r.to = Inbox \/ r.to = parent[r.top] \/ r.op = "soft_delete"
  /\ r.op \in {"reparent", "soft_delete"} => LiveIn(r.top) = {}
  /\ r.op = "soft_delete" => LiveChildren(r.top) = {}

\* A cascade has its stack for what is below the folders it has done.
Stacks(r) ==
  /\ r.op \in Cascades => r.to = Root
  /\ r.op \in {"cascade_bookmarks", "cascade_folder"} => LiveChildren(r.at) \subseteq r.todo
  /\ r.op = "cascade_folder" => r.at # r.top /\ LiveIn(r.at) = {}
  /\ r.op \in {"cascade", "cascade_folder"} /\ r.top \notin r.todo =>
       LiveIn(r.top) = {} /\ LiveChildren(r.top) \subseteq r.todo \cup {r.at}
  /\ r.op = "cascade" /\ r.top \notin r.todo => LiveChildren(r.top) \subseteq r.todo
  /\ r.op = "cascade_bookmarks" /\ r.at # r.top /\ r.top \notin r.todo =>
       LiveIn(r.top) = {} /\ LiveChildren(r.top) \subseteq r.todo \cup {r.at}

\* A live folder is at the top or in a live one, or a cascade has it before it.
Pending(r, f) ==
  \/ r.op \in Cascades /\ f \in r.todo \cup {r.top}
  \/ r.op \in {"cascade_bookmarks", "cascade_folder"} /\ f = r.at
Placed(r) ==
  \A f \in Folders :
    folder[f] = "live" /\ parent[f] # Root => folder[parent[f]] = "live" \/ Pending(r, f)

\* What the collector has listed is deleted for good.
GcSound ==
  /\ gc.op = "bookmarks" => \A b \in gc.todo \cap Bookmarks : bookmark[b] \notin {"none", "live"}
  /\ gc.op = "folders" => \A f \in gc.todo \cap Folders : folder[f] \notin {"none", "live"}

TreeInv ==
  /\ IInv /\ HomeLive /\ NoCircle /\ GcSound
  /\ \A q \in Requests : Holds(req[q]) /\ Empties(req[q]) /\ Stacks(req[q]) /\ Placed(req[q])

-----------------------------------------------------------------------------
(* One step of a request that is alone. *)

\* Beginning a request writes no row; what it has read holds.
LEMMA StartHolds ==
  ASSUME NEW q \in Requests, \A p \in Requests : p = q, TreeInv, IInv', NEW r \in Request,
         Start(q, r), Holds(r), Empties(r), Stacks(r)
  PROVE  TreeInv'
<1>1. UNCHANGED <<folder, parent, bookmark, home, gc>> /\ req[q] = Idle /\ req'[q] = r
  BY DEF Start, rows, TreeInv, IInv, TypeOK
<1>2. HomeLive' /\ NoCircle' /\ GcSound'
  BY <1>1 DEF TreeInv, HomeLive, NoCircle, Circle, GcSound
<1>3. Placed(Idle)
  BY <1>1 DEF TreeInv
<1>4. Placed(r)'
  BY <1>1, <1>3 DEF Placed, Pending, Idle, Cascades
<1>5. Holds(r)'
  BY <1>1 DEF Holds, Fits, Apart
<1>6. Empties(r)' /\ Stacks(r)'
  BY <1>1 DEF Empties, Stacks, LiveIn, LiveChildren
<1> QED BY <1>1, <1>2, <1>4, <1>5, <1>6 DEF TreeInv

LEMMA BeginHolds ==
  ASSUME NEW q \in Requests, \A p \in Requests : p = q, TreeInv, IInv', Begin(q)
  PROVE  TreeInv'
<1> USE InboxIsFolder DEF Deletes, Cascades, Homing
<1>0. /\ TypeOK /\ InboxSafe /\ HomeLive /\ NoCircle
      /\ (req[q] = Idle => \A f \in Folders : folder[f] = "live" /\ parent[f] # Root => folder[parent[f]] = "live")
  BY DEF TreeInv, IInv, Placed, Pending, Idle
<1>00. Idle \in Request /\ Idle.todo = {} /\ Idle.op = "idle"
  BY IdleAims DEF Idle
<1>1. CASE CreateFolder(q)
  <2>1. PICK f \in Folders, p \in Folders \cup {Root} :
          /\ folder[f] = "none" /\ ParentOk(p, Root)
          /\ Start(q, [Idle EXCEPT !.op = "insert_folder", !.to = p, !.todo = {f}])
    BY <1>1 DEF CreateFolder
  <2> DEFINE r == [Idle EXCEPT !.op = "insert_folder", !.to = p, !.todo = {f}]
  <2>2. r \in Request /\ r.op = "insert_folder" /\ r.to = p /\ r.todo = {f}
    BY DEF Idle, Request, Op
  <2> HIDE DEF r
  <2>3. Holds(r) /\ Empties(r) /\ Stacks(r)
    BY <2>1, <2>2 DEF Holds, Empties, Stacks, ParentOk
  <2> QED BY <2>1, <2>2, <2>3, StartHolds DEF r
<1>2. CASE UpdateFolder(q)
  <2>1. PICK f \in Folders, p \in Folders \cup {Root} :
          /\ MayUpdate(f, p)
          /\ Start(q, [Idle EXCEPT !.op = "update_folder", !.at = f, !.to = p])
    BY <1>2 DEF UpdateFolder
  <2> DEFINE r == [Idle EXCEPT !.op = "update_folder", !.at = f, !.to = p]
  <2>2. r \in Request /\ r.op = "update_folder" /\ r.to = p /\ r.at = f
    BY DEF Idle, Request, Op
  <2>3. Fits(p, f)
    BY <1>0, <2>1, ParentOkApart DEF MayUpdate, Fits
  <2> HIDE DEF r
  <2>4. Holds(r) /\ Empties(r) /\ Stacks(r)
    BY <2>2, <2>3 DEF Holds, Empties, Stacks
  <2> QED BY <2>1, <2>2, <2>4, StartHolds DEF r
<1>3. CASE ReorderFolders(q)
  <2>1. PICK ids \in SUBSET Folders, p \in Folders \cup {Root} :
          /\ \A f \in ids : MayReorder(f, p)
          /\ Start(q, [Idle EXCEPT !.op = "reorder_folders", !.to = p, !.todo = ids])
    BY <1>3 DEF ReorderFolders
  <2> DEFINE r == [Idle EXCEPT !.op = "reorder_folders", !.to = p, !.todo = ids]
  <2>2. r \in Request /\ r.op = "reorder_folders" /\ r.to = p /\ r.todo = ids
    BY DEF Idle, Request, Op
  <2>3. \A f \in ids \ {Inbox} : Fits(p, f)
    BY <1>0, <2>1, ParentOkApart DEF MayReorder, Fits
  <2> HIDE DEF r
  <2>4. Holds(r) /\ Empties(r) /\ Stacks(r)
    BY <2>2, <2>3 DEF Holds, Empties, Stacks
  <2> QED BY <2>1, <2>2, <2>4, StartHolds DEF r
<1>4. CASE DeleteFolder(q)
  <2>1. PICK f \in Folders \ {Inbox} :
          /\ folder[f] = "live"
          /\ \/ \E mode \in {"move_to_inbox", "move_to_parent"} :
                  Start(q, [Idle EXCEPT !.op = "rehome", !.top = f, !.to = TargetParent(f, mode)])
             \/ Start(q, [Idle EXCEPT !.op = "cascade", !.top = f, !.todo = {f}])
    BY <1>4 DEF DeleteFolder
  <2>2. CASE Start(q, [Idle EXCEPT !.op = "cascade", !.top = f, !.todo = {f}])
    <3> DEFINE r == [Idle EXCEPT !.op = "cascade", !.top = f, !.todo = {f}]
    <3>1. r \in Request /\ r.op = "cascade" /\ r.top = f /\ r.to = Root /\ r.todo = {f}
      BY DEF Idle, Request, Op
    <3> HIDE DEF r
    <3>2. Holds(r) /\ Empties(r) /\ Stacks(r)
      BY <3>1 DEF Holds, Empties, Stacks
    <3> QED BY <2>2, <3>1, <3>2, StartHolds DEF r
  <2>3. ASSUME NEW mode \in {"move_to_inbox", "move_to_parent"},
               Start(q, [Idle EXCEPT !.op = "rehome", !.top = f, !.to = TargetParent(f, mode)])
        PROVE  TreeInv'
    <3> DEFINE p == TargetParent(f, mode)
               r == [Idle EXCEPT !.op = "rehome", !.top = f, !.to = p]
    <3>1. p \in Folders /\ (p = Inbox \/ p = parent[f])
      BY <1>0 DEF TypeOK, TargetParent
    <3>2. p # f
      <4>1. parent[f] # f
        BY <1>0, <2>1, {f} \in SUBSET Folders DEF NoCircle, Circle
      <4> QED BY <2>1, <3>1, <4>1
    <3>3. folder[p] = "live"
      BY <1>0, <2>1, <2>3, <3>1 DEF Start, InboxSafe
    <3> HIDE DEF p
    <3>4. r \in Request /\ r.op = "rehome" /\ r.top = f /\ r.to = p
      BY <3>1 DEF Idle, Request, Op
    <3> HIDE DEF r
    <3>5. Holds(r) /\ Empties(r) /\ Stacks(r)
      BY <2>1, <3>1, <3>2, <3>3, <3>4 DEF Holds, Empties, Stacks
    <3> QED BY <2>3, <3>4, <3>5, StartHolds DEF r, p
  <2> QED BY <2>1, <2>2, <2>3
<1>5. CASE CreateBookmark(q)
  <2>1. PICK b \in Bookmarks, f \in Folders :
          /\ bookmark[b] = "none" /\ LiveFolder(f)
          /\ Start(q, [Idle EXCEPT !.op = "insert_bookmark", !.to = f, !.todo = {b}])
    BY <1>5 DEF CreateBookmark
  <2> DEFINE r == [Idle EXCEPT !.op = "insert_bookmark", !.to = f, !.todo = {b}]
  <2>2. r \in Request /\ r.op = "insert_bookmark" /\ r.to = f /\ r.todo = {b}
    BY DEF Idle, Request, Op
  <2> HIDE DEF r
  <2>3. Holds(r) /\ Empties(r) /\ Stacks(r)
    BY <2>1, <2>2 DEF Holds, Empties, Stacks, LiveFolder
  <2> QED BY <2>1, <2>2, <2>3, StartHolds DEF r
<1>6. CASE UpdateBookmark(q)
  <2>1. PICK b \in Bookmarks, f \in Folders :
          /\ bookmark[b] = "live" /\ (f = home[b] \/ LiveFolder(f))
          /\ Start(q, [Idle EXCEPT !.op = "update_bookmark", !.to = f, !.todo = {b}])
    BY <1>6 DEF UpdateBookmark
  <2> DEFINE r == [Idle EXCEPT !.op = "update_bookmark", !.to = f, !.todo = {b}]
  <2>2. r \in Request /\ r.op = "update_bookmark" /\ r.to = f
    BY DEF Idle, Request, Op
  <2>3. folder[f] = "live"
    BY <1>0, <2>1 DEF HomeLive, LiveFolder
  <2> HIDE DEF r
  <2>4. Holds(r) /\ Empties(r) /\ Stacks(r)
    BY <2>2, <2>3 DEF Holds, Empties, Stacks
  <2> QED BY <2>1, <2>2, <2>4, StartHolds DEF r
<1>7. CASE EditBookmarks(q)
  <2>1. PICK ids \in SUBSET Bookmarks :
          \/ \E f \in Folders, op \in {"reorder_bookmarks", "batch_move"} :
               LiveFolder(f) /\ Start(q, [Idle EXCEPT !.op = op, !.to = f, !.todo = ids])
          \/ Start(q, [Idle EXCEPT !.op = "batch_delete", !.todo = ids])
    BY <1>7 DEF EditBookmarks
  <2>2. ASSUME NEW f \in Folders, NEW op \in {"reorder_bookmarks", "batch_move"},
               LiveFolder(f), Start(q, [Idle EXCEPT !.op = op, !.to = f, !.todo = ids])
        PROVE  TreeInv'
    <3> DEFINE r == [Idle EXCEPT !.op = op, !.to = f, !.todo = ids]
    <3>1. r \in Request /\ r.op = op /\ r.to = f
      BY DEF Idle, Request, Op
    <3> HIDE DEF r
    <3>2. Holds(r) /\ Empties(r) /\ Stacks(r)
      BY <2>2, <3>1 DEF Holds, Empties, Stacks, LiveFolder
    <3> QED BY <2>2, <3>1, <3>2, StartHolds DEF r
  <2>3. CASE Start(q, [Idle EXCEPT !.op = "batch_delete", !.todo = ids])
    <3> DEFINE r == [Idle EXCEPT !.op = "batch_delete", !.todo = ids]
    <3>1. r \in Request /\ r.op = "batch_delete"
      BY DEF Idle, Request, Op
    <3> HIDE DEF r
    <3>2. Holds(r) /\ Empties(r) /\ Stacks(r)
      BY <3>1 DEF Holds, Empties, Stacks
    <3> QED BY <2>3, <3>1, <3>2, StartHolds DEF r
  <2> QED BY <2>1, <2>2, <2>3
<1> QED BY <1>1, <1>2, <1>3, <1>4, <1>5, <1>6, <1>7 DEF Begin

\* A request that ends, the rows it leaves being in order.
LEMMA EndHolds ==
  ASSUME NEW q \in Requests, \A p \in Requests : p = q, TreeInv, IInv', Done(q),
         HomeLive', NoCircle', GcSound', Placed(Idle)'
  PROVE  TreeInv'
<1>1. req'[q] = Idle
  BY DEF TreeInv, IInv, TypeOK, Done
<1>2. Holds(Idle)' /\ Empties(Idle)' /\ Stacks(Idle)'
  BY DEF Holds, Empties, Stacks, Idle, Deletes, Cascades, Homing
<1> QED BY <1>1, <1>2 DEF TreeInv

\* Moving a folder where it fits closes no circle: the circle would have a part
\* among the folders that the new parent is in.
LEMMA MoveClosesNoCircle ==
  ASSUME NoCircle, NEW f \in Folders, NEW p \in Folders \cup {Root}, Fits(p, f),
         TypeOK, folder' = folder, parent' = [parent EXCEPT ![f] = p]
  PROVE  NoCircle'
<1> USE InboxIsFolder
<1>1. SUFFICES ASSUME NEW S \in SUBSET Folders, Circle(S)' PROVE FALSE
  BY DEF NoCircle
<1>2. S # {} /\ \A g \in S : folder[g] = "live" /\ parent'[g] \in S
  BY <1>1 DEF Circle
<1>3. \A g \in S : g # f => parent[g] \in S
  BY <1>2 DEF TypeOK
<1>4. f \in S /\ p \in S
  <2>1. f \notin S => Circle(S)
    BY <1>2, <1>3 DEF Circle
  <2> QED BY <1>2, <2>1 DEF NoCircle, TypeOK
<1>5. CASE p = parent[f]
  BY <1>2, <1>3, <1>4, <1>5 DEF Circle, NoCircle
<1>6. CASE Apart(p, f)
  <2>1. PICK A \in SUBSET Folders :
          p \in A /\ f \notin A /\ \A g \in A : folder[g] = "live" => parent[g] \in A \cup {Root}
    BY <1>6 DEF Apart
  <2>2. Circle(S \cap A)
    BY <1>2, <1>3, <1>4, <2>1 DEF Circle
  <2> QED BY <2>2 DEF NoCircle
<1> QED BY <1>4, <1>5, <1>6 DEF Fits

LEMMA FolderStatementHolds ==
  ASSUME NEW q \in Requests, \A p \in Requests : p = q, TreeInv, IInv',
         InsertFolder(q) \/ WriteParent(q) \/ ReorderNext(q)
  PROVE  TreeInv'
<1> USE InboxIsFolder DEF Deletes, Cascades, Homing
<1> DEFINE R == req[q]
<1>0. /\ TypeOK /\ InboxSafe /\ HomeLive /\ NoCircle /\ GcSound
      /\ Aim(R) /\ Holds(R) /\ Placed(R) /\ R \in Request
  BY DEF TreeInv, IInv, TypeOK
<1>1. CASE InsertFolder(q)
  <2>1. PICK f \in R.todo : folder' = [folder EXCEPT ![f] = "live"] /\ parent' = [parent EXCEPT ![f] = R.to]
    BY <1>1 DEF InsertFolder
  <2>2. R.op = "insert_folder" /\ f \in Folders /\ folder[f] = "none"
    BY <1>0, <1>1 DEF InsertFolder, Aim, Holds
  <2>3. R.to = Root \/ (R.to \in Folders /\ folder[R.to] = "live" /\ R.to # f)
    BY <1>0, <2>2 DEF Holds, Request
  <2>4. \A g \in Folders : folder[g] = "live" /\ parent[g] # Root => folder[parent[g]] = "live"
    BY <1>0, <2>2 DEF Placed, Pending
  <2>5. \A g \in Folders : g # f => folder'[g] = folder[g] /\ parent'[g] = parent[g]
    BY <1>0, <2>1 DEF TypeOK
  <2>6. folder'[f] = "live" /\ parent'[f] = R.to
    BY <1>0, <2>1, <2>2 DEF TypeOK
  <2>7. Placed(Idle)'
    <3> SUFFICES ASSUME NEW g \in Folders, folder'[g] = "live", parent'[g] # Root
                 PROVE  folder'[parent'[g]] = "live"
      BY DEF Placed
    <3>1. CASE g = f
      BY <2>3, <2>5, <2>6, <3>1
    <3>2. CASE g # f
      BY <1>0, <2>2, <2>4, <2>5, <3>2 DEF TypeOK
    <3> QED BY <3>1, <3>2
  <2>8. NoCircle'
    <3>1. SUFFICES ASSUME NEW S \in SUBSET Folders, Circle(S)' PROVE FALSE
      BY DEF NoCircle
    <3>2. S # {} /\ \A g \in S : folder'[g] = "live" /\ parent'[g] \in S
      BY <3>1 DEF Circle
    <3>3. \A g \in S \ {f} : folder[g] = "live" /\ parent[g] \in S \ {f}
      BY <1>0, <2>2, <2>4, <2>5, <3>2
    <3>4. S \ {f} # {}
      BY <2>3, <2>6, <3>2
    <3>5. Circle(S \ {f})
      BY <3>3, <3>4 DEF Circle
    <3> QED BY <1>0, <3>5 DEF NoCircle
  <2>9. HomeLive' /\ GcSound'
    BY <1>0, <1>1, <2>2, <2>5, <2>6 DEF InsertFolder, HomeLive, GcSound, TypeOK
  <2> QED BY <1>1, <2>7, <2>8, <2>9, EndHolds DEF InsertFolder
<1>2. CASE WriteParent(q)
  <2> DEFINE f == R.at
             p == R.to
  <2>1. /\ R.op = "update_folder" /\ f \in Folders /\ p \in Folders \cup {Root} /\ Fits(p, f)
        /\ parent' = [parent EXCEPT ![f] = p] /\ UNCHANGED <<folder, bookmark, home, gc>>
    BY <1>0, <1>2 DEF WriteParent, Aim, Holds, Request
  <2>2. NoCircle'
    BY <1>0, <2>1, MoveClosesNoCircle
  <2>3. \A g \in Folders : folder[g] = "live" /\ parent[g] # Root => folder[parent[g]] = "live"
    BY <1>0, <2>1 DEF Placed, Pending
  <2>4. Placed(Idle)'
    BY <1>0, <2>1, <2>3 DEF Placed, Fits, TypeOK
  <2>5. HomeLive' /\ GcSound'
    BY <1>0, <2>1 DEF HomeLive, GcSound
  <2> QED BY <1>2, <2>2, <2>4, <2>5, EndHolds DEF WriteParent
<1>3. CASE ReorderNext(q)
  <2>1. PICK f \in R.todo :
          parent' = [parent EXCEPT ![f] = Reordered(f, R.to)] /\ req' = [req EXCEPT ![q] = Rest(R, f)]
    BY <1>3 DEF ReorderNext
  <2>2. R.op = "reorder_folders" /\ UNCHANGED <<folder, bookmark, home, gc>>
    BY <1>3 DEF ReorderNext
  <2>3. \A g \in Folders : folder[g] = "live" /\ parent[g] # Root => folder[parent[g]] = "live"
    BY <1>0, <2>2 DEF Placed, Pending
  <2>4. HomeLive' /\ GcSound'
    BY <1>0, <2>2 DEF HomeLive, GcSound
  <2>5. req'[q] = Rest(R, f)
    BY <1>0, <2>1 DEF TypeOK
  <2>6. CASE f \notin Folders \/ f = Inbox
    <3>1. parent' = parent
      BY <1>0, <2>1, <2>6 DEF TypeOK, Reordered
    <3>2. NoCircle' /\ Placed(Idle)'
      BY <1>0, <2>2, <2>3, <3>1 DEF NoCircle, Circle, Placed
    <3>3. CASE R.todo = {f}
      <4>1. Done(q)
        BY <2>1, <3>3 DEF Rest, Done
      <4> QED BY <2>4, <3>2, <4>1, EndHolds
    <3>4. CASE R.todo # {f}
      <4>0. PICK r : r = [R EXCEPT !.todo = R.todo \ {f}]
        OBVIOUS
      <4>1. req'[q] = r /\ r.op = "reorder_folders" /\ r.to = R.to /\ r.todo = R.todo \ {f}
        BY <1>0, <2>2, <2>5, <3>4, <4>0 DEF Rest, Request
      <4>2. \A g \in r.todo \ {Inbox} : Fits(r.to, g)
        BY <1>0, <2>2, <4>1 DEF Holds
      <4>3. Holds(r)'
        BY <2>2, <3>1, <4>1, <4>2 DEF Holds, Fits, Apart
      <4>4. Empties(r)' /\ Stacks(r)'
        BY <4>1 DEF Empties, Stacks
      <4>5. Placed(r)'
        BY <3>2 DEF Placed, Pending, Idle
      <4> QED BY <2>4, <3>2, <4>1, <4>3, <4>4, <4>5 DEF TreeInv
    <3> QED BY <3>3, <3>4
  <2>7. CASE f \in Folders \ {Inbox}
    <3>0. PICK p : p = R.to
      OBVIOUS
    <3>1. parent' = [parent EXCEPT ![f] = p] /\ p \in Folders \cup {Root} /\ Fits(p, f)
      BY <1>0, <2>1, <2>2, <2>7, <3>0 DEF Reordered, Request, Holds
    <3>2. NoCircle'
      BY <1>0, <2>2, <2>7, <3>1, MoveClosesNoCircle
    <3>3. Placed(Idle)'
      BY <1>0, <2>2, <2>3, <2>7, <3>1 DEF Placed, Fits, TypeOK
    <3>4. CASE R.todo = {f}
      <4>1. Done(q)
        BY <2>1, <3>4 DEF Rest, Done
      <4> QED BY <2>4, <3>2, <3>3, <4>1, EndHolds
    <3>5. CASE R.todo # {f}
      <4>0. PICK r : r = [R EXCEPT !.todo = R.todo \ {f}]
        OBVIOUS
      <4>1. req'[q] = r /\ r.op = "reorder_folders" /\ r.to = p /\ r.todo = R.todo \ {f}
        BY <1>0, <2>2, <2>5, <3>0, <3>5, <4>0 DEF Rest, Request
      <4>2. ASSUME NEW g \in R.todo \ {f, Inbox} PROVE Fits(p, g)'
        <5>1. Fits(p, g)
          BY <1>0, <2>2, <3>0, <4>2 DEF Holds
        <5>2. CASE p = parent[g]
          <6>1. parent'[g] = parent[g]
            BY <1>0, <3>1, <4>2 DEF TypeOK
          <6> QED BY <5>2, <6>1 DEF Fits
        <5>3. CASE p \in Folders /\ folder[p] = "live" /\ Apart(p, g)
          <6>1. PICK A \in SUBSET Folders :
                  p \in A /\ g \notin A /\ \A h \in A : folder[h] = "live" => parent[h] \in A \cup {Root}
            BY <5>3 DEF Apart
          <6>2. \A h \in A : folder'[h] = "live" => parent'[h] \in A \cup {Root}
            BY <1>0, <2>2, <3>1, <6>1 DEF TypeOK
          <6>3. Apart(p, g)'
            BY <6>1, <6>2 DEF Apart
          <6> QED BY <2>2, <5>3, <6>3 DEF Fits
        <5> QED BY <5>1, <5>2, <5>3 DEF Fits
      <4>3. Holds(r)'
        BY <4>1, <4>2 DEF Holds
      <4>4. Empties(r)' /\ Stacks(r)'
        BY <4>1 DEF Empties, Stacks
      <4>5. Placed(r)'
        BY <3>3 DEF Placed, Pending, Idle
      <4> QED BY <2>4, <3>2, <4>1, <4>3, <4>4, <4>5 DEF TreeInv
    <3> QED BY <3>4, <3>5
  <2> QED BY <2>6, <2>7
<1> QED BY <1>1, <1>2, <1>3

\* Deleting a folder and keeping what is in it: a circle of the folders that take
\* its place would be one with the folder itself.
LEMMA RehomeStatementHolds ==
  ASSUME NEW q \in Requests, \A p \in Requests : p = q, TreeInv, IInv',
         MoveBookmarks(q) \/ MoveChildren(q)
  PROVE  TreeInv'
<1> USE InboxIsFolder DEF Deletes, Cascades, Homing
<1> DEFINE R == req[q]
<1>0. /\ TypeOK /\ InboxSafe /\ HomeLive /\ NoCircle /\ GcSound
      /\ Empties(R) /\ Placed(R) /\ R \in Request
  BY DEF TreeInv, IInv, TypeOK
<1>1. PICK top, to : top = R.top /\ to = R.to
  OBVIOUS
<1>2. /\ top \in Folders /\ to \in Folders \ {top} /\ folder[to] = "live" /\ folder[top] = "live"
      /\ to = Inbox \/ to = parent[top]
  BY <1>0, <1>1 DEF MoveBookmarks, MoveChildren, Empties, TreeInv, IInv, Aim
<1>3. \A g \in Folders : folder[g] = "live" /\ parent[g] # Root => folder[parent[g]] = "live"
  BY <1>0 DEF MoveBookmarks, MoveChildren, Placed, Pending
<1>4. CASE MoveBookmarks(q)
  <2>1. /\ home' = [b \in Bookmarks |-> IF b \in LiveIn(top) THEN to ELSE home[b]]
        /\ UNCHANGED <<folder, parent, bookmark, gc>>
    BY <1>1, <1>4 DEF MoveBookmarks
  <2>2. PICK r : r = [R EXCEPT !.op = "reparent"]
    OBVIOUS
  <2>3. req'[q] = r /\ r.op = "reparent" /\ r.top = top /\ r.to = to
    BY <1>0, <1>1, <1>4, <2>2 DEF MoveBookmarks, Continue, TypeOK, Request
  <2>4. HomeLive' /\ NoCircle' /\ GcSound' /\ Placed(r)'
    BY <1>0, <1>2, <1>3, <2>1 DEF HomeLive, NoCircle, Circle, GcSound, Placed, TypeOK
  <2>5. LiveIn(top)' = {}
    BY <1>2, <2>1 DEF LiveIn
  <2>6. Holds(r)' /\ Empties(r)' /\ Stacks(r)'
    BY <1>2, <2>1, <2>3, <2>5 DEF Holds, Empties, Stacks
  <2> QED BY <2>3, <2>4, <2>6 DEF TreeInv
<1>5. CASE MoveChildren(q)
  <2>1. /\ parent' = [g \in Folders |-> IF g \in LiveChildren(top) THEN to ELSE parent[g]]
        /\ UNCHANGED <<folder, bookmark, home, gc>>
    BY <1>1, <1>5 DEF MoveChildren, Reparented
  <2>2. PICK r : r = [R EXCEPT !.op = "soft_delete"]
    OBVIOUS
  <2>3. req'[q] = r /\ r.op = "soft_delete" /\ r.top = top /\ r.to = to
    BY <1>0, <1>1, <1>5, <2>2 DEF MoveChildren, Continue, TypeOK, Request
  <2>4. HomeLive' /\ GcSound'
    BY <1>0, <2>1 DEF HomeLive, GcSound
  <2>5. Placed(r)'
    BY <1>2, <1>3, <2>1 DEF Placed
  <2>6. NoCircle'
    <3>1. SUFFICES ASSUME NEW S \in SUBSET Folders, Circle(S)' PROVE FALSE
      BY DEF NoCircle
    <3>2. S # {} /\ \A g \in S : folder[g] = "live" /\ parent'[g] \in S
      BY <2>1, <3>1 DEF Circle
    <3>3. \A g \in S : parent[g] \in S \cup {top}
      BY <2>1, <3>2 DEF LiveChildren
    <3>4. CASE S \cap LiveChildren(top) = {}
      <4>1. Circle(S)
        BY <2>1, <3>2, <3>4 DEF Circle
      <4> QED BY <1>0, <4>1 DEF NoCircle
    <3>5. CASE S \cap LiveChildren(top) # {}
      <4>1. to \in S
        BY <2>1, <3>2, <3>5
      <4>2. to # Inbox
        BY <1>0, <1>2, <2>1, <3>2, <4>1 DEF InboxSafe, LiveChildren
      <4>3. Circle(S \cup {top})
        BY <1>2, <3>2, <3>3, <4>1, <4>2 DEF Circle
      <4> QED BY <1>0, <1>2, <4>3 DEF NoCircle
    <3> QED BY <3>4, <3>5
  <2>7. LiveChildren(top)' = {}
    BY <1>2, <2>1 DEF LiveChildren
  <2>8. LiveIn(top)' = {}
    BY <1>0, <1>1, <1>5, <2>1 DEF MoveChildren, Empties, LiveIn
  <2>9. Holds(r)' /\ Empties(r)' /\ Stacks(r)'
    BY <1>2, <2>1, <2>3, <2>7, <2>8 DEF Holds, Empties, Stacks
  <2> QED BY <2>3, <2>4, <2>5, <2>6, <2>9 DEF TreeInv
<1> QED BY <1>4, <1>5

\* A folder that nothing live is in may be soft-deleted.
LEMMA SoftDeleteHolds ==
  ASSUME TypeOK, HomeLive, NoCircle, GcSound, NEW q, NEW f \in Folders,
         LiveIn(f) = {}, SoftDeleteFolder(q, f)
  PROVE  /\ HomeLive' /\ NoCircle' /\ GcSound'
         /\ UNCHANGED <<parent, bookmark, home, gc>>
         /\ folder'[f] # "live" /\ \A g \in Folders \ {f} : folder'[g] = folder[g]
<1>1. /\ folder' = [folder EXCEPT ![f] = IF @ \in Stored THEN "trash" ELSE @]
      /\ UNCHANGED <<parent, bookmark, home, gc>>
  BY DEF SoftDeleteFolder
<1>2. folder'[f] # "live" /\ \A g \in Folders \ {f} : folder'[g] = folder[g]
  BY <1>1 DEF TypeOK, Stored, Trashed
<1>3. HomeLive'
  BY <1>1, <1>2 DEF HomeLive, LiveIn, TypeOK
<1>4. NoCircle'
  BY <1>1, <1>2 DEF NoCircle, Circle
<1>5. folder[f] \notin {"none", "live"} => folder'[f] \notin {"none", "live"}
  BY <1>1 DEF TypeOK
<1>6. GcSound'
  BY <1>1, <1>2, <1>5 DEF GcSound
<1> QED BY <1>1, <1>2, <1>3, <1>4, <1>6

LEMMA CascadeStatementHolds ==
  ASSUME NEW q \in Requests, \A p \in Requests : p = q, TreeInv, IInv',
         CascadePop(q) \/ CascadeBookmarks(q) \/ CascadeFolder(q) \/ DeleteTop(q)
  PROVE  TreeInv'
<1> USE InboxIsFolder DEF Deletes, Cascades, Homing
<1> DEFINE R == req[q]
<1>0. /\ TypeOK /\ HomeLive /\ NoCircle /\ GcSound
      /\ Aim(R) /\ Empties(R) /\ Stacks(R) /\ Placed(R) /\ R \in Request
  BY DEF TreeInv, IInv, TypeOK
<1>1. PICK top, at, todo : top = R.top /\ at = R.at /\ todo = R.todo
  OBVIOUS
<1>2. top \in Folders
  BY <1>0, <1>1 DEF Aim, CascadePop, CascadeBookmarks, CascadeFolder, DeleteTop
<1>3. CASE CascadePop(q)
  <2>1. PICK f \in todo :
          req' = [req EXCEPT ![q] = [op |-> "cascade_bookmarks", at |-> f, top |-> @.top,
                     to |-> @.to, todo |-> (@.todo \ {f}) \cup LiveChildren(f)]]
    BY <1>1, <1>3 DEF CascadePop
  <2>2. R.op = "cascade" /\ UNCHANGED <<folder, parent, bookmark, home, gc>>
    BY <1>3 DEF CascadePop, rows
  <2>3. R.to = Root /\ (top \notin todo => LiveIn(top) = {} /\ LiveChildren(top) \subseteq todo)
    BY <1>0, <1>1, <2>2 DEF Stacks
  <2>4. PICK r : r = [op |-> "cascade_bookmarks", at |-> f, top |-> top, to |-> Root,
                      todo |-> (todo \ {f}) \cup LiveChildren(f)]
    OBVIOUS
  <2>5. req'[q] = r
    BY <1>0, <1>1, <2>1, <2>3, <2>4 DEF TypeOK
  <2>6. /\ r.op = "cascade_bookmarks" /\ r.at = f /\ r.top = top /\ r.to = Root
        /\ r.todo = (todo \ {f}) \cup LiveChildren(f)
    BY <2>4
  <2>7. HomeLive' /\ NoCircle' /\ GcSound'
    BY <1>0, <2>2 DEF HomeLive, NoCircle, Circle, GcSound
  <2>8. Placed(r)'
    BY <1>0, <1>1, <2>2, <2>6 DEF Placed, Pending
  <2>9. Stacks(r)'
    BY <2>2, <2>3, <2>6 DEF Stacks, LiveChildren, LiveIn
  <2>10. Holds(r)' /\ Empties(r)'
    BY <2>6 DEF Holds, Empties
  <2> QED BY <2>5, <2>7, <2>8, <2>9, <2>10 DEF TreeInv
<1>4. CASE CascadeBookmarks(q)
  <2>1. /\ R.op = "cascade_bookmarks" /\ at \in Folders
        /\ bookmark' = [b \in Bookmarks |-> IF b \in LiveIn(at) THEN "trash" ELSE bookmark[b]]
        /\ UNCHANGED <<folder, parent, home, gc>>
    BY <1>0, <1>1, <1>4 DEF CascadeBookmarks, Aim
  <2>2. PICK r : r = [R EXCEPT !.op = IF at = top THEN "cascade" ELSE "cascade_folder"]
    OBVIOUS
  <2>3. /\ req'[q] = r /\ r.at = at /\ r.top = top /\ r.to = R.to /\ r.todo = todo
        /\ r.op = IF at = top THEN "cascade" ELSE "cascade_folder"
    BY <1>0, <1>1, <1>4, <2>2 DEF CascadeBookmarks, Continue, TypeOK, Request
  <2>4. /\ R.to = Root /\ LiveChildren(at) \subseteq todo
        /\ at # top /\ top \notin todo => LiveIn(top) = {} /\ LiveChildren(top) \subseteq todo \cup {at}
    BY <1>0, <1>1, <2>1 DEF Stacks
  <2>5. /\ LiveIn(at)' = {} /\ LiveIn(top)' \subseteq LiveIn(top)
        /\ LiveChildren(at)' = LiveChildren(at) /\ LiveChildren(top)' = LiveChildren(top)
    BY <2>1 DEF LiveIn, LiveChildren
  <2>6. HomeLive' /\ NoCircle'
    BY <1>0, <2>1 DEF HomeLive, NoCircle, Circle
  <2>7. GcSound'
    BY <1>0, <2>1 DEF GcSound, LiveIn
  <2>8. Placed(r)'
    BY <1>0, <1>1, <2>1, <2>3 DEF Placed, Pending
  <2>9. Stacks(r)'
    <3>1. CASE at = top
      BY <2>3, <2>4, <2>5, <3>1 DEF Stacks
    <3>2. CASE at # top
      BY <2>3, <2>4, <2>5, <3>2 DEF Stacks
    <3> QED BY <3>1, <3>2
  <2>10. Holds(r)' /\ Empties(r)'
    BY <2>3 DEF Holds, Empties
  <2> QED BY <2>3, <2>6, <2>7, <2>8, <2>9, <2>10 DEF TreeInv
<1>5. CASE CascadeFolder(q)
  <2>1. /\ R.op = "cascade_folder" /\ SoftDeleteFolder(q, at) /\ at # top /\ R.to = Root
        /\ LiveIn(at) = {} /\ LiveChildren(at) \subseteq todo
        /\ top \notin todo => LiveIn(top) = {} /\ LiveChildren(top) \subseteq todo \cup {at}
    BY <1>0, <1>1, <1>5 DEF CascadeFolder, Stacks
  <2>2. PICK r : r = [R EXCEPT !.op = "cascade"]
    OBVIOUS
  <2>3. req'[q] = r /\ r.op = "cascade" /\ r.at = at /\ r.top = top /\ r.to = Root /\ r.todo = todo
    BY <1>0, <1>1, <1>5, <2>1, <2>2 DEF CascadeFolder, Continue, TypeOK, Request
  <2>4. CASE at = Root
    <3>1. UNCHANGED <<folder, parent, bookmark, home, gc>>
      BY <1>0, <2>1, <2>4 DEF SoftDeleteFolder, TypeOK
    <3>2. HomeLive' /\ NoCircle' /\ GcSound'
      BY <1>0, <3>1 DEF HomeLive, NoCircle, Circle, GcSound
    <3>3. Placed(r)'
      BY <1>0, <1>1, <2>1, <2>3, <2>4, <3>1 DEF Placed, Pending
    <3>4. Stacks(r)'
      BY <2>1, <2>3, <2>4, <3>1 DEF Stacks, LiveIn, LiveChildren
    <3>5. Holds(r)' /\ Empties(r)'
      BY <2>3 DEF Holds, Empties
    <3> QED BY <2>3, <3>2, <3>3, <3>4, <3>5 DEF TreeInv
  <2>5. CASE at # Root
    <3>1. at \in Folders
      BY <1>0, <1>1, <2>5 DEF Request
    <3>2. /\ HomeLive' /\ NoCircle' /\ GcSound'
          /\ UNCHANGED <<parent, bookmark, home, gc>>
          /\ folder'[at] # "live" /\ \A g \in Folders \ {at} : folder'[g] = folder[g]
      BY <1>0, <2>1, <3>1, SoftDeleteHolds
    <3>3. Placed(r)'
      <4> SUFFICES ASSUME NEW g \in Folders, folder'[g] = "live", parent[g] # Root,
                          ~ (g \in todo \cup {top})
                   PROVE  folder'[parent[g]] = "live"
        BY <2>3, <3>2 DEF Placed, Pending
      <4>1. g # at /\ folder[g] = "live"
        BY <3>2
      <4>2. folder[parent[g]] = "live"
        BY <1>0, <1>1, <4>1 DEF Placed, Pending
      <4>3. parent[g] # at
        BY <2>1, <4>1 DEF LiveChildren
      <4> QED BY <1>0, <3>2, <4>2, <4>3 DEF TypeOK
    <3>4. LiveChildren(top)' \subseteq LiveChildren(top) \ {at} /\ LiveIn(top)' = LiveIn(top)
      BY <3>2 DEF LiveChildren, LiveIn
    <3>5. Stacks(r)'
      BY <2>1, <2>3, <3>4 DEF Stacks
    <3>6. Holds(r)' /\ Empties(r)'
      BY <2>3 DEF Holds, Empties
    <3> QED BY <2>3, <3>2, <3>3, <3>5, <3>6 DEF TreeInv
  <2> QED BY <2>4, <2>5
<1>6. CASE DeleteTop(q)
  <2>1. SoftDeleteFolder(q, top) /\ Done(q)
    BY <1>1, <1>6 DEF DeleteTop
  <2>2. LiveIn(top) = {} /\ LiveChildren(top) = {}
    <3>1. CASE R.op = "soft_delete"
      BY <1>0, <1>1, <3>1 DEF Empties
    <3>2. CASE R.op = "cascade" /\ todo = {}
      BY <1>0, <1>1, <3>2 DEF Stacks
    <3> QED BY <1>1, <1>6, <3>1, <3>2 DEF DeleteTop
  <2>3. /\ HomeLive' /\ NoCircle' /\ GcSound'
        /\ UNCHANGED <<parent, bookmark, home, gc>>
        /\ folder'[top] # "live" /\ \A g \in Folders \ {top} : folder'[g] = folder[g]
    BY <1>0, <1>2, <2>1, <2>2, SoftDeleteHolds
  <2>4. Placed(Idle)'
    <3> SUFFICES ASSUME NEW g \in Folders, folder'[g] = "live", parent[g] # Root
                 PROVE  folder'[parent[g]] = "live"
      BY <2>3 DEF Placed
    <3>1. g # top /\ folder[g] = "live"
      BY <2>3
    <3>2. folder[parent[g]] = "live"
      BY <1>0, <1>1, <1>6, <3>1 DEF DeleteTop, Placed, Pending
    <3>3. parent[g] # top
      BY <2>2, <3>1 DEF LiveChildren
    <3> QED BY <1>0, <2>3, <3>2, <3>3 DEF TypeOK
  <2> QED BY <2>1, <2>3, <2>4, EndHolds
<1> QED BY <1>3, <1>4, <1>5, <1>6

\* What the tree says of the rows depends on which are live and which are free.
LEMMA SameLiveRows ==
  ASSUME TreeInv, IInv', GcSound', UNCHANGED <<parent, home, req>>,
         \A f \in Folders : /\ folder'[f] = "live" <=> folder[f] = "live"
                            /\ folder'[f] = "none" <=> folder[f] = "none",
         \A b \in Bookmarks : /\ bookmark'[b] = "live" <=> bookmark[b] = "live"
                              /\ bookmark'[b] = "none" <=> bookmark[b] = "none"
  PROVE  TreeInv'
<1> USE InboxIsFolder DEF Deletes, Cascades, Homing
<1>1. TypeOK /\ HomeLive /\ NoCircle
  BY DEF TreeInv, IInv
<1>2. HomeLive' /\ NoCircle'
  BY <1>1 DEF HomeLive, NoCircle, Circle, TypeOK
<1>3. \A x \in Folders : LiveIn(x)' = LiveIn(x) /\ LiveChildren(x)' = LiveChildren(x)
  BY DEF LiveIn, LiveChildren
<1>4. ASSUME NEW q \in Requests
      PROVE  Holds(req[q])' /\ Empties(req[q])' /\ Stacks(req[q])' /\ Placed(req[q])'
  <2>1. PICK r \in Request : r = req[q]
    BY <1>1 DEF TypeOK
  <2>2. Holds(r) /\ Empties(r) /\ Stacks(r) /\ Placed(r) /\ Aim(r) /\ req'[q] = r
    BY <2>1 DEF TreeInv, IInv
  <2>3. \A p, f \in Folders \cup {Root} : Fits(p, f) => Fits(p, f)'
    <3> SUFFICES ASSUME NEW p \in Folders \cup {Root}, NEW f \in Folders \cup {Root}, Fits(p, f)
                 PROVE  Fits(p, f)'
      OBVIOUS
    <3>1. CASE p = Root \/ p = parent[f]
      BY <3>1 DEF Fits
    <3>2. CASE p \in Folders /\ folder[p] = "live" /\ Apart(p, f)
      BY <3>2 DEF Fits, Apart
    <3> QED BY <3>1, <3>2 DEF Fits
  <2>4. Holds(r)'
    <3>1. r.op = "insert_folder" => (r.to = Root \/ folder'[r.to] = "live") /\ \A f \in r.todo : folder'[f] = "none"
      BY <2>2 DEF Holds, Aim, Request
    <3>2. r.op = "update_folder" => Fits(r.to, r.at)'
      BY <2>2, <2>3 DEF Holds, Aim, Request
    <3>3. r.op = "reorder_folders" => \A f \in r.todo \ {Inbox} : Fits(r.to, f)'
      <4> SUFFICES ASSUME r.op = "reorder_folders", NEW f \in r.todo \ {Inbox} PROVE Fits(r.to, f)'
        OBVIOUS
      <4>1. Fits(r.to, f)
        BY <2>2 DEF Holds
      <4>2. CASE r.to = Root \/ r.to = parent[f]
        BY <4>2 DEF Fits
      <4>3. CASE r.to \in Folders /\ folder[r.to] = "live" /\ Apart(r.to, f)
        BY <4>3 DEF Fits, Apart
      <4> QED BY <4>1, <4>2, <4>3 DEF Fits
    <3>4. r.op = "insert_bookmark" => \A b \in r.todo \cap Bookmarks : bookmark'[b] = "none"
      BY <2>2 DEF Holds
    <3>5. r.op \in Homing => folder'[r.to] = "live"
      BY <2>2 DEF Holds, Aim
    <3> QED BY <3>1, <3>2, <3>3, <3>4, <3>5 DEF Holds
  <2>5. Empties(r)'
    BY <2>2, <1>3 DEF Empties, Aim
  <2>6. Stacks(r)'
    <3>1. r.op \in Cascades => r.top \in Folders
      BY <2>2 DEF Aim
    <3>2. \A x : LiveIn(x)' = LiveIn(x) /\ LiveChildren(x)' = LiveChildren(x)
      BY DEF LiveIn, LiveChildren
    <3> QED BY <2>2, <3>1, <3>2 DEF Stacks
  <2>7. Placed(r)'
    BY <1>1, <2>2 DEF Placed, Pending, TypeOK
  <2> QED BY <2>2, <2>4, <2>5, <2>6, <2>7
<1> QED BY <1>2, <1>4 DEF TreeInv

\* The statements that write bookmark rows leave the folders as they are.
LEMMA BookmarkStatementHolds ==
  ASSUME NEW q \in Requests, \A p \in Requests : p = q, TreeInv, IInv',
         InsertBookmark(q) \/ WriteHome(q) \/ BatchDelete(q) \/ DeleteBookmark(q)
  PROVE  TreeInv'
<1> USE InboxIsFolder DEF Deletes, Cascades, Homing
<1> DEFINE R == req[q]
<1>0. /\ TypeOK /\ HomeLive /\ NoCircle /\ GcSound
      /\ Aim(R) /\ Holds(R) /\ Placed(R) /\ R \in Request
  BY DEF TreeInv, IInv, TypeOK
<1>1. UNCHANGED <<folder, parent, gc>>
  BY DEF InsertBookmark, WriteHome, BatchDelete, DeleteBookmark
<1>2. NoCircle' /\ Placed(Idle)'
  BY <1>0, <1>1 DEF NoCircle, Circle, Placed, Pending, Idle,
     InsertBookmark, WriteHome, BatchDelete, DeleteBookmark
<1>3. CASE InsertBookmark(q)
  <2>1. PICK b \in R.todo : bookmark' = [bookmark EXCEPT ![b] = "live"] /\ home' = [home EXCEPT ![b] = R.to]
    BY <1>3 DEF InsertBookmark
  <2>2. R.op = "insert_bookmark" /\ folder[R.to] = "live" /\ (b \in Bookmarks => bookmark[b] = "none")
    BY <1>0, <1>3 DEF InsertBookmark, Holds
  <2>3. HomeLive' /\ GcSound'
    BY <1>0, <1>1, <2>1, <2>2 DEF HomeLive, GcSound, TypeOK
  <2> QED BY <1>2, <1>3, <2>3, EndHolds DEF InsertBookmark
<1>4. CASE WriteHome(q)
  <2>1. PICK b \in R.todo :
          /\ home' = [home EXCEPT ![b] =
               IF bookmark[b] = "live" \/ (bookmark[b] \in Stored /\ R.op # "batch_move") THEN R.to ELSE @]
          /\ req' = [req EXCEPT ![q] = Rest(R, b)]
    BY <1>4 DEF WriteHome
  <2>2. /\ R.op \in {"update_bookmark", "reorder_bookmarks", "batch_move"}
        /\ folder[R.to] = "live" /\ UNCHANGED bookmark
    BY <1>0, <1>4 DEF WriteHome, Holds
  <2>3. HomeLive' /\ GcSound'
    BY <1>0, <1>1, <2>1, <2>2 DEF HomeLive, GcSound, TypeOK
  <2>4. CASE R.todo = {b}
    BY <1>2, <2>1, <2>3, <2>4, EndHolds DEF Rest, Done
  <2>5. CASE R.todo # {b}
    <3>1. PICK r : r = [R EXCEPT !.todo = R.todo \ {b}]
      OBVIOUS
    <3>2. req'[q] = r /\ r.op = R.op /\ r.to = R.to
      BY <1>0, <2>1, <2>5, <3>1 DEF Rest, TypeOK, Request
    <3>3. Holds(r)' /\ Empties(r)' /\ Stacks(r)'
      BY <1>1, <2>2, <3>2 DEF Holds, Empties, Stacks
    <3>4. Placed(r)'
      BY <1>2 DEF Placed, Pending, Idle
    <3> QED BY <1>2, <2>3, <3>2, <3>3, <3>4 DEF TreeInv
  <2> QED BY <2>4, <2>5
<1>5. CASE BatchDelete(q)
  <2>1. PICK b \in R.todo :
          /\ bookmark' = [bookmark EXCEPT ![b] = IF @ = "live" THEN "trash" ELSE @]
          /\ req' = [req EXCEPT ![q] = Rest(R, b)]
    BY <1>5 DEF BatchDelete
  <2>2. R.op = "batch_delete" /\ UNCHANGED home
    BY <1>5 DEF BatchDelete
  <2>3. HomeLive' /\ GcSound'
    BY <1>0, <1>1, <2>1, <2>2 DEF HomeLive, GcSound, TypeOK
  <2>4. CASE R.todo = {b}
    BY <1>2, <2>1, <2>3, <2>4, EndHolds DEF Rest, Done
  <2>5. CASE R.todo # {b}
    <3>1. PICK r : r = [R EXCEPT !.todo = R.todo \ {b}]
      OBVIOUS
    <3>2. req'[q] = r /\ r.op = R.op
      BY <1>0, <2>1, <2>5, <3>1 DEF Rest, TypeOK, Request
    <3>3. Holds(r)' /\ Empties(r)' /\ Stacks(r)'
      BY <2>2, <3>2 DEF Holds, Empties, Stacks
    <3>4. Placed(r)'
      BY <1>2 DEF Placed, Pending, Idle
    <3> QED BY <1>2, <2>3, <3>2, <3>3, <3>4 DEF TreeInv
  <2> QED BY <2>4, <2>5
<1>6. CASE DeleteBookmark(q)
  <2>1. PICK b \in Bookmarks : bookmark[b] \in Stored /\ bookmark' = [bookmark EXCEPT ![b] = "trash"]
    BY <1>6 DEF DeleteBookmark
  <2>2. req'[q] = Idle /\ UNCHANGED home
    BY <1>6 DEF DeleteBookmark
  <2>3. HomeLive' /\ GcSound'
    BY <1>0, <1>1, <2>1, <2>2 DEF HomeLive, GcSound, TypeOK
  <2>4. Holds(Idle)' /\ Empties(Idle)' /\ Stacks(Idle)'
    BY DEF Holds, Empties, Stacks, Idle
  <2> QED BY <1>2, <2>2, <2>3, <2>4 DEF TreeInv
<1> QED BY <1>3, <1>4, <1>5, <1>6

\* A statement that throws ends a request that has emptied no folder yet.
LEMMA ForeignKeyHolds ==
  ASSUME NEW q \in Requests, \A p \in Requests : p = q, TreeInv, IInv', ForeignKeyFails(q)
  PROVE  TreeInv'
<1> USE DEF Deletes, Cascades
<1>1. /\ HomeLive /\ NoCircle /\ GcSound /\ Stacks(req[q]) /\ Placed(req[q])
      /\ UNCHANGED <<folder, parent, bookmark, home, gc>> /\ req[q].to # Root /\ Done(q)
  BY DEF TreeInv, ForeignKeyFails, rows
<1>2. Placed(Idle)'
  BY <1>1 DEF Placed, Pending, Stacks, Idle
<1>3. HomeLive' /\ NoCircle' /\ GcSound'
  BY <1>1 DEF HomeLive, NoCircle, Circle, GcSound
<1> QED BY <1>1, <1>2, <1>3, EndHolds

\* The collector and the calendar touch no live row and free no id.
LEMMA GcHolds ==
  ASSUME TreeInv, IInv', Gc \/ FifteenDays
  PROVE  TreeInv'
<1>1. TypeOK /\ GcSound
  BY DEF TreeInv, IInv
<1>2. CASE GcListBookmarks
  <2>1. gc'.op = "bookmarks" /\ gc'.todo = {b \in Bookmarks : bookmark[b] = "stale"}
    BY <1>2 DEF GcListBookmarks, NoGc
  <2>2. UNCHANGED <<folder, parent, bookmark, home, req>>
    BY <1>2 DEF GcListBookmarks, rows
  <2>3. GcSound'
    BY <2>1, <2>2 DEF GcSound
  <2> QED BY <2>2, <2>3, SameLiveRows
<1>3. CASE GcDeleteBookmark
  <2>1. PICK b \in gc.todo :
          bookmark' = [bookmark EXCEPT ![b] = "gone"] /\ gc' = [gc EXCEPT !.todo = @ \ {b}]
    BY <1>3 DEF GcDeleteBookmark
  <2>2. UNCHANGED <<folder, parent, home, req>> /\ gc.op = "bookmarks"
    BY <1>3 DEF GcDeleteBookmark
  <2>3. b \in Bookmarks => bookmark[b] \notin {"none", "live"}
    BY <1>1, <2>2 DEF GcSound
  <2>4. gc'.op = "bookmarks" /\ gc'.todo \subseteq gc.todo
    BY <1>1, <2>1, <2>2 DEF TypeOK
  <2>5. GcSound'
    BY <1>1, <2>1, <2>2, <2>4 DEF GcSound, TypeOK
  <2>6. \A c \in Bookmarks : /\ bookmark'[c] = "live" <=> bookmark[c] = "live"
                             /\ bookmark'[c] = "none" <=> bookmark[c] = "none"
    BY <1>1, <2>1, <2>3 DEF TypeOK
  <2> QED BY <2>2, <2>5, <2>6, SameLiveRows
<1>4. CASE GcListFolders
  <2>1. /\ gc'.op = "folders" /\ gc'.todo = {f \in Folders \ {Inbox} : folder[f] = "stale"}
        /\ UNCHANGED <<folder, parent, bookmark, home, req>>
    BY <1>4 DEF GcListFolders, rows
  <2>2. GcSound'
    BY <2>1 DEF GcSound
  <2> QED BY <2>1, <2>2, SameLiveRows
<1>5. CASE GcDeleteFolder
  <2>1. PICK f \in gc.todo :
          /\ folder' = [folder EXCEPT ![f] = IF HasChildRow(f) THEN @ ELSE "gone"]
          /\ gc' = [gc EXCEPT !.todo = @ \ {f}]
    BY <1>5 DEF GcDeleteFolder, NextToCollect
  <2>2. UNCHANGED <<parent, bookmark, home, req>> /\ gc.op = "folders"
    BY <1>5 DEF GcDeleteFolder
  <2>3. f \in Folders => folder[f] \notin {"none", "live"}
    BY <1>1, <2>2 DEF GcSound
  <2>4. \A g \in Folders : /\ folder'[g] = "live" <=> folder[g] = "live"
                           /\ folder'[g] = "none" <=> folder[g] = "none"
    BY <1>1, <2>1, <2>3 DEF TypeOK
  <2>5. gc'.op = "folders" /\ gc'.todo \subseteq gc.todo
    BY <1>1, <2>1, <2>2 DEF TypeOK
  <2>6. GcSound'
    BY <1>1, <2>2, <2>4, <2>5 DEF GcSound
  <2> QED BY <2>2, <2>4, <2>6, SameLiveRows
<1>6. CASE GcFails \/ GcEnds
  <2>1. gc'.op \in {"idle", "failed"} /\ UNCHANGED <<folder, parent, bookmark, home, req>>
    BY <1>6 DEF GcFails, GcEnds, NoGc, rows
  <2>2. GcSound'
    BY <2>1 DEF GcSound
  <2> QED BY <2>1, <2>2, SameLiveRows
<1>7. CASE FifteenDays
  <2>1. \A row \in Row : /\ Older(row) = "live" <=> row = "live"
                         /\ Older(row) = "none" <=> row = "none"
    BY DEF Older, Row
  <2>2. /\ UNCHANGED <<parent, home, req, gc>> /\ gc.op \in {"idle", "failed"}
        /\ folder' = [f \in Folders |-> Older(folder[f])]
        /\ bookmark' = [b \in Bookmarks |-> Older(bookmark[b])]
    BY <1>7 DEF FifteenDays
  <2>3. \A g \in Folders : /\ folder'[g] = "live" <=> folder[g] = "live"
                           /\ folder'[g] = "none" <=> folder[g] = "none"
    BY <1>1, <2>1, <2>2 DEF TypeOK
  <2>4. \A c \in Bookmarks : /\ bookmark'[c] = "live" <=> bookmark[c] = "live"
                             /\ bookmark'[c] = "none" <=> bookmark[c] = "none"
    BY <1>1, <2>1, <2>2 DEF TypeOK
  <2>5. GcSound'
    BY <2>2 DEF GcSound
  <2> QED BY <2>2, <2>3, <2>4, <2>5, SameLiveRows
<1> QED BY <1>2, <1>3, <1>4, <1>5, <1>6, <1>7 DEF Gc

LEMMA TreeInit == Init => TreeInv
<1> SUFFICES ASSUME Init PROVE TreeInv
  OBVIOUS
<1> USE InboxIsFolder
<1>1. IInv
  BY InitHolds
<1>2. HomeLive /\ NoCircle /\ GcSound
  BY DEF Init, HomeLive, NoCircle, Circle, GcSound, NoGc
<1>3. Holds(Idle) /\ Empties(Idle) /\ Stacks(Idle) /\ Placed(Idle)
  BY DEF Init, Idle, Holds, Empties, Stacks, Placed, Deletes, Cascades, Homing
<1> QED BY <1>1, <1>2, <1>3 DEF TreeInv, Init

LEMMA TreeNext ==
  ASSUME NEW q \in Requests, \A p \in Requests : p = q, MayBeKilled = FALSE,
         TreeInv, [Next]_vars
  PROVE  TreeInv'
<1>1. IInv'
  BY NextStep DEF TreeInv
<1>2. CASE Begin(q)
  BY <1>1, <1>2, BeginHolds
<1>3. CASE Statement(q)
  BY <1>1, <1>3, FolderStatementHolds, RehomeStatementHolds, CascadeStatementHolds,
     BookmarkStatementHolds DEF Statement
<1>4. CASE ForeignKeyFails(q)
  BY <1>1, <1>4, ForeignKeyHolds
<1>5. CASE Gc \/ FifteenDays
  BY <1>1, <1>5, GcHolds
<1>6. CASE UNCHANGED vars
  <2>1. UNCHANGED <<folder, parent, bookmark, home, req, gc>>
    BY <1>6 DEF vars
  <2>2. GcSound'
    BY <2>1 DEF TreeInv, GcSound
  <2> QED BY <1>1, <2>1, <2>2, SameLiveRows
<1> QED BY <1>2, <1>3, <1>4, <1>5, <1>6 DEF Next, Killed

\* As long as requests do not overlap and none is killed midway, every live
\* bookmark is in a live folder, every live folder at the top or in a live one
\* between requests, and no walk up the tree goes round: whatever is moved,
\* reordered, deleted, collected or refused, in a tree of any size and depth.
THEOREM TreeStaysSound ==
  ASSUME IsFiniteSet(Folders), MayBeKilled = FALSE,
         NEW q \in Requests, \A p \in Requests : p = q
  PROVE  Spec => []TreeSound
<1>1. TreeInv /\ [Next]_vars => TreeInv'
  BY TreeNext
<1>2. TreeInv => TreeSound
  <2> SUFFICES ASSUME TreeInv PROVE TreeSound
    OBVIOUS
  <2>1. HomeLive
    BY DEF TreeInv
  <2>2. NoCycle
    BY NoCircleNoCycle DEF TreeInv, IInv
  <2>3. ParentLive
    BY DEF ParentLive, TreeInv, Placed, Pending, Idle, Cascades
  <2> QED BY <2>1, <2>2, <2>3 DEF TreeSound
<1> QED BY <1>1, <1>2, TreeInit, PTL DEF Spec

-----------------------------------------------------------------------------
(* The collector's order. *)

\* No folders of the list are each in another one of them.
Ringless(listed) == \A S \in SUBSET listed : S # {} => \E f \in S : parent[f] \notin S

\* The walk of DepthIn goes up until it leaves the list.
IsClimb(c, listed, x) ==
  /\ c \in [Nat -> Folders \cup {Root}] /\ c[0] = x
  /\ \A n \in Nat : c[n + 1] = IF c[n] \in listed THEN parent[c[n]] ELSE c[n]

LEMMA ClimbExists ==
  ASSUME TypeOK, NEW listed \in SUBSET Folders, NEW x \in Folders
  PROVE  \E c : /\ IsClimb(c, listed, x)
                /\ DepthIn(listed, x) = Cardinality(listed \cap {c[i] : i \in 0..Cardinality(listed)})
<1> DEFINE X == Folders \cup {Root}
           Next1(g) == IF g \in listed THEN parent[g] ELSE g
           next == [g \in X |-> Next1(g)]
           climb[n \in Nat] ==
             IF n = 0 THEN x ELSE LET g == climb[n - 1] IN IF g \in listed THEN parent[g] ELSE g
<1>1. next \in [X -> X]
  BY DEF TypeOK
<1>2. PICK walk : IsWalk(walk, next, X, x)
  <2>1. x \in X
    OBVIOUS
  <2> HIDE DEF next, X
  <2> QED BY <1>1, <2>1, WalkExists
<1>3. walk \in [Nat -> X] /\ \A n \in Nat : walk[n] = IF n = 0 THEN x ELSE next[walk[n - 1]]
  <2> HIDE DEF next, X
  <2> QED BY <1>2 DEF IsWalk
<1>4. ASSUME NEW n \in Nat PROVE walk[n] = IF n = 0 THEN x ELSE Next1(walk[n - 1])
  <2>1. n # 0 => walk[n - 1] \in X
    BY <1>3
  <2>2. \A g \in X : next[g] = Next1(g)
    OBVIOUS
  <2> HIDE DEF X, next
  <2> QED BY <1>3, <2>1, <2>2
<1>5. walk = [n \in Nat |-> IF n = 0 THEN x
                            ELSE LET g == walk[n - 1] IN IF g \in listed THEN parent[g] ELSE g]
  BY <1>3, <1>4
<1>6. climb = [n \in Nat |-> IF n = 0 THEN x
                             ELSE LET g == climb[n - 1] IN IF g \in listed THEN parent[g] ELSE g]
  BY <1>5
<1>7. \A n \in Nat : climb[n] = IF n = 0 THEN x ELSE Next1(climb[n - 1])
  BY <1>6
<1>8. DepthIn(listed, x) = Cardinality(listed \cap {climb[i] : i \in 0..Cardinality(listed)})
  BY DEF DepthIn
<1> HIDE DEF climb
<1>9. climb[0] = x /\ \A n \in Nat : climb[n + 1] = Next1(climb[n])
  BY <1>7
<1> DEFINE S == {n \in Nat : climb[n] \in X}
<1>10. 0 \in S /\ \A n \in Nat : n \in S => n + 1 \in S
  BY <1>9 DEF TypeOK
<1> HIDE DEF S
<1>11. Nat \subseteq S
  BY <1>10, SetInduction
<1>12. \A n \in Nat : climb[n] \in X
  BY <1>11 DEF S
<1>13. climb = [n \in Nat |-> climb[n]]
  BY <1>6
<1>14. climb \in [Nat -> X]
  <2> HIDE DEF X
  <2> QED BY <1>12, <1>13
<1>15. IsClimb(climb, listed, x)
  BY <1>9, <1>14 DEF IsClimb
<1> QED BY <1>8, <1>15

\* A climb that is in the list has been in it all the time, and nowhere twice.
LEMMA ClimbGoesOn ==
  ASSUME NEW listed \in SUBSET Folders, Ringless(listed),
         NEW x \in Folders, NEW c, IsClimb(c, listed, x), NEW b \in Nat, c[b] \in listed
  PROVE  \A a \in 0..(b - 1) : c[a] \in listed /\ c[a + 1] = parent[c[a]] /\ c[a] # c[b]
<1>1. /\ c \in [Nat -> Folders \cup {Root}]
      /\ \A n \in Nat : c[n + 1] = IF c[n] \in listed THEN parent[c[n]] ELSE c[n]
  BY DEF IsClimb
<1> DEFINE S == {k \in Nat : k <= b => c[b - k] \in listed}
<1>2. 0 \in S
  OBVIOUS
<1>3. ASSUME NEW k \in Nat, k \in S PROVE k + 1 \in S
  <2>1. CASE k + 1 <= b
    <3>1. b - (k + 1) \in Nat /\ (b - (k + 1)) + 1 = b - k /\ c[b - k] \in listed
      BY <1>3, <2>1
    <3>2. c[b - (k + 1)] \in listed
      BY <1>1, <3>1
    <3> QED BY <3>2
  <2> QED BY <2>1
<1> HIDE DEF S
<1>4. Nat \subseteq S
  BY <1>2, <1>3, SetInduction
<1>5. ASSUME NEW a \in 0..b PROVE c[a] \in listed
  <2>1. b - a \in Nat /\ b - a <= b /\ b - (b - a) = a
    OBVIOUS
  <2>2. c[b - (b - a)] \in listed
    BY <1>4, <2>1 DEF S
  <2> QED BY <2>1, <2>2
<1>6. ASSUME NEW a \in 0..(b - 1) PROVE c[a] \in listed /\ c[a + 1] = parent[c[a]]
  <2>1. a \in 0..b /\ a \in Nat
    OBVIOUS
  <2> QED BY <1>1, <1>5, <2>1
<1>7. ASSUME NEW a \in 0..(b - 1), c[a] = c[b] PROVE FALSE
  <2> DEFINE R == {c[k] : k \in a..(b - 1)}
  <2>1. R # {} /\ R \subseteq listed
    BY <1>6, <1>7
  <2>2. ASSUME NEW k \in a..(b - 1) PROVE parent[c[k]] \in R
    <3>1. k \in 0..(b - 1) /\ parent[c[k]] = c[k + 1]
      BY <1>6, <1>7, <2>2
    <3>2. CASE k + 1 = b
      <4>1. a \in a..(b - 1)
        BY <1>7
      <4>2. c[a] \in R
        BY <4>1
      <4> QED BY <1>7, <3>1, <3>2, <4>2
    <3>3. CASE k + 1 # b
      <4>1. k + 1 \in a..(b - 1)
        BY <1>7, <2>2, <3>3
      <4> QED BY <3>1, <4>1
    <3> QED BY <3>2, <3>3
  <2>3. \A f \in R : parent[f] \in R
    BY <2>2
  <2> HIDE DEF R
  <2> QED BY <2>1, <2>3 DEF Ringless
<1> QED BY <1>6, <1>7

\* The collector's depth is one more for a folder than for the one it is in.
LEMMA DeeperBelow ==
  ASSUME TypeOK, IsFiniteSet(Folders), NEW listed \in SUBSET Folders, Ringless(listed),
         NEW f \in listed, NEW g \in listed, parent[g] = f
  PROVE  /\ DepthIn(listed, f) \in Nat /\ DepthIn(listed, g) \in Nat
         /\ DepthIn(listed, f) < DepthIn(listed, g)
<1> DEFINE N == Cardinality(listed)
<1>1. IsFiniteSet(listed) /\ N \in Nat
  BY FS_Subset, FS_CardinalityType
<1>2. N # 0
  BY <1>1, FS_EmptySet
<1>3. PICK c : IsClimb(c, listed, f) /\ DepthIn(listed, f) = Cardinality(listed \cap {c[i] : i \in 0..N})
  BY ClimbExists
<1>4. PICK d : IsClimb(d, listed, g) /\ DepthIn(listed, g) = Cardinality(listed \cap {d[i] : i \in 0..N})
  BY ClimbExists
<1> HIDE DEF N
<1>5. \A i \in Nat : d[i + 1] = c[i]
  <2> DEFINE S == {i \in Nat : d[i + 1] = c[i]}
  <2>1. 0 \in S
    BY <1>3, <1>4 DEF IsClimb
  <2>2. ASSUME NEW i \in Nat, i \in S PROVE i + 1 \in S
    BY <1>3, <1>4, <2>2 DEF IsClimb
  <2> HIDE DEF S
  <2>3. Nat \subseteq S
    BY <2>1, <2>2, SetInduction
  <2> QED BY <2>3 DEF S
<1> DEFINE A == listed \cap {c[i] : i \in 0..N}
           B == listed \cap {d[i] : i \in 0..N}
\* The climb has left the list after as many steps as there are folders in it.
<1>6. c[N] \notin listed
  <2> SUFFICES ASSUME c[N] \in listed PROVE FALSE
    OBVIOUS
  <2>1. ASSUME NEW i \in 0..N PROVE c[i] \in listed
    <3>1. i = N \/ i \in 0..(N - 1)
      BY <1>1
    <3> QED BY <1>1, <1>3, <3>1, ClimbGoesOn
  <2> DEFINE v == [i \in 0..N |-> c[i]]
  <2>2. v \in [0..N -> listed]
    BY <2>1
  <2>3. IsFiniteSet(0..N) /\ Cardinality(0..N) = N + 1 /\ N < N + 1
    BY <1>1, FS_Interval
  <2> HIDE DEF v
  <2>4. \E i \in 0..N, j \in 0..N : i # j /\ v[i] = v[j]
    BY <1>1, <2>2, <2>3, FS_PigeonHole DEF N
  <2>5. PICK i \in 0..N, j \in 0..N : i # j /\ c[i] = c[j]
    BY <2>4 DEF v
  <2>6. ASSUME NEW a \in 0..N, NEW b \in 0..N, a < b, c[a] = c[b] PROVE FALSE
    <3>1. b \in Nat /\ a \in 0..(b - 1) /\ c[b] \in listed
      BY <1>1, <2>1, <2>6
    <3> QED BY <1>3, <2>6, <3>1, ClimbGoesOn
  <2>7. i < j \/ j < i
    BY <1>1, <2>5
  <2> QED BY <2>5, <2>6, <2>7
<1>7. g \notin A
  <2> SUFFICES ASSUME NEW i \in 0..N, g = c[i] PROVE FALSE
    OBVIOUS
  <2>1. i + 1 \in Nat /\ d[i + 1] = g /\ d[0] = g /\ 0 \in 0..((i + 1) - 1)
    BY <1>1, <1>4, <1>5 DEF IsClimb
  <2>2. d[0] # d[i + 1]
    BY <1>4, <2>1, ClimbGoesOn
  <2> QED BY <2>1, <2>2
<1>8. B = A \cup {g}
  <2>1. g \in B
    <3>1. 0 \in 0..N /\ d[0] = g
      BY <1>1, <1>4 DEF IsClimb
    <3> QED BY <3>1
  <2>2. ASSUME NEW y \in A PROVE y \in B
    <3>1. PICK i \in 0..N : y = c[i]
      OBVIOUS
    <3>2. i # N
      BY <1>6, <3>1
    <3>3. i \in Nat /\ i + 1 \in 0..N
      BY <1>1, <3>2
    <3> QED BY <1>5, <3>1, <3>3
  <2>3. ASSUME NEW y \in B, y # g PROVE y \in A
    <3>1. PICK i \in 0..N : y = d[i]
      OBVIOUS
    <3>2. i # 0
      BY <1>4, <2>3, <3>1 DEF IsClimb
    <3>3. i - 1 \in 0..N /\ i - 1 \in Nat /\ (i - 1) + 1 = i
      BY <1>1, <3>2
    <3> QED BY <1>5, <3>1, <3>3
  <2> HIDE DEF A, B
  <2> QED BY <2>1, <2>2, <2>3
<1>9. IsFiniteSet(A) /\ Cardinality(A) \in Nat
  <2>1. A \subseteq listed
    OBVIOUS
  <2> HIDE DEF A
  <2> QED BY <1>1, <2>1, FS_Subset, FS_CardinalityType
<1>10. Cardinality(A \cup {g}) = Cardinality(A) + 1
  <2> HIDE DEF A
  <2> QED BY <1>7, <1>9, FS_AddElement
<1> HIDE DEF A, B
<1>11. DepthIn(listed, f) = Cardinality(A) /\ DepthIn(listed, g) = Cardinality(B)
  BY <1>3, <1>4 DEF A, B
<1> QED BY <1>8, <1>9, <1>10, <1>11

\* What a live folder is in was not deleted long ago.
Young ==
  \A f \in Folders : folder[f] = "live" /\ parent[f] # Root => folder[parent[f]] \in {"live", "trash"}

\* No folders, deleted or not, are each in another one of them.
NoRing ==
  \A S \in SUBSET Folders : S # {} /\ (\A f \in S : folder[f] \in Stored) => \E f \in S : parent[f] \notin S

\* What a request that is alone is about to move is live.
Sits(r) ==
  /\ r.op = "update_folder" => folder[r.at] = "live"
  /\ r.op = "reorder_folders" => \A f \in r.todo \cap Folders : folder[f] = "live"

\* A listed folder that the collector has been at and that is still stale has a row in it that
\* the collector has been at as well, or has not listed.
Skipped(f) == \E g \in Folders \ gc.todo : folder[g] \in Stored /\ parent[g] = f
Pass ==
  gc.op = "folders" =>
    /\ gc.todo \subseteq gc.listed
    /\ \A f \in gc.listed : folder[f] \notin {"none", "live"}
    /\ Ringless(gc.listed)
    /\ \A f \in gc.listed \ gc.todo : folder[f] = "stale" => Skipped(f)

PassInv == TreeInv /\ Young /\ NoRing /\ Pass /\ \A q \in Requests : Sits(req[q])

\* Two kinds of statements: those that move or insert live folders, when every live folder is in
\* a live one afterwards, and those that at most delete folders.
Rearranges ==
  /\ \A f \in Folders : folder[f] \notin {"none", "live"} => parent'[f] = parent[f]
  /\ \A f \in Folders : folder'[f] = folder[f] \/ (folder[f] = "none" /\ folder'[f] = "live")
  /\ \A f \in Folders : folder'[f] = "live" /\ parent'[f] # Root => folder'[parent'[f]] = "live"
OnlyDeletes ==
  /\ parent' = parent
  /\ \A f \in Folders : folder'[f] = folder[f] \/ (folder[f] \in Stored /\ folder'[f] = "trash")

LEMMA StatementRows ==
  ASSUME NEW q \in Requests, \A p \in Requests : p = q, TreeInv, TreeInv', Sits(req[q]),
         Begin(q) \/ Statement(q) \/ ForeignKeyFails(q)
  PROVE  (Rearranges \/ OnlyDeletes) /\ gc' = gc
<1> USE InboxIsFolder
<1>0. /\ TypeOK /\ Aim(req[q]) /\ Holds(req[q]) /\ req[q] \in Request /\ Placed(req[q])'
      /\ req \in [Requests -> Request]
  BY DEF TreeInv, IInv, TypeOK
<1>1. CASE UNCHANGED <<folder, parent, gc>>
  BY <1>1 DEF OnlyDeletes
<1>2. CASE Begin(q)
  BY <1>1, <1>2 DEF Begin, CreateFolder, UpdateFolder, ReorderFolders, DeleteFolder, CreateBookmark,
                    UpdateBookmark, EditBookmarks, Start, rows
<1>3. CASE ForeignKeyFails(q)
  BY <1>1, <1>3 DEF ForeignKeyFails, rows
<1>4. CASE MoveBookmarks(q) \/ CascadePop(q) \/ CascadeBookmarks(q) \/ InsertBookmark(q) \/ WriteHome(q)
           \/ BatchDelete(q) \/ DeleteBookmark(q)
  BY <1>1, <1>4 DEF MoveBookmarks, CascadePop, CascadeBookmarks, InsertBookmark, WriteHome, BatchDelete,
                    DeleteBookmark, rows
<1>5. ASSUME NEW f, SoftDeleteFolder(q, f) PROVE OnlyDeletes /\ gc' = gc
  BY <1>0, <1>5 DEF SoftDeleteFolder, OnlyDeletes, TypeOK
<1>6. CASE CascadeFolder(q) \/ DeleteTop(q)
  BY <1>5, <1>6 DEF CascadeFolder, DeleteTop
<1>7. ASSUME req'[q].op \notin Cascades
      PROVE  \A f \in Folders : folder'[f] = "live" /\ parent'[f] # Root => folder'[parent'[f]] = "live"
  BY <1>0, <1>7 DEF Placed, Pending, Cascades
<1>8. Done(q) => req'[q].op \notin Cascades
  BY <1>0 DEF Done, Idle, Cascades
<1>9. CASE InsertFolder(q)
  <2>1. PICK f \in req[q].todo :
          folder' = [folder EXCEPT ![f] = "live"] /\ parent' = [parent EXCEPT ![f] = req[q].to]
    BY <1>9 DEF InsertFolder
  <2>2. f \in Folders /\ folder[f] = "none" /\ gc' = gc /\ Done(q)
    BY <1>0, <1>9, <2>1 DEF InsertFolder, Aim, Holds
  <2> QED BY <1>0, <1>7, <1>8, <2>1, <2>2 DEF Rearranges, TypeOK
<1>10. CASE WriteParent(q)
  <2>1. PICK f, p : f = req[q].at /\ p = req[q].to
    OBVIOUS
  <2>2. /\ parent' = [parent EXCEPT ![f] = p] /\ folder' = folder /\ gc' = gc /\ Done(q)
        /\ folder[f] = "live"
    BY <1>10, <2>1 DEF WriteParent, Sits
  <2> QED BY <1>0, <1>7, <1>8, <2>2 DEF Rearranges, TypeOK
<1>11. CASE ReorderNext(q)
  <2>1. PICK f \in req[q].todo :
          parent' = [parent EXCEPT ![f] = Reordered(f, req[q].to)] /\ req' = [req EXCEPT ![q] = Rest(@, f)]
    BY <1>11 DEF ReorderNext
  <2>2. folder' = folder /\ gc' = gc /\ req[q].op = "reorder_folders" /\ (f \in Folders => folder[f] = "live")
    BY <1>11, <2>1 DEF ReorderNext, Sits
  <2>3. req'[q].op \notin Cascades
    <3>1. req'[q] = Rest(req[q], f)
      BY <1>0, <2>1
    <3>2. CASE req[q].todo = {f}
      BY <3>1, <3>2 DEF Rest, Idle, Cascades
    <3>3. CASE req[q].todo # {f}
      BY <1>0, <2>2, <3>1, <3>3 DEF Rest, Request, Cascades
    <3> QED BY <3>2, <3>3
  <2>4. \A g \in Folders : folder[g] \notin {"none", "live"} => parent'[g] = parent[g]
    BY <1>0, <2>1, <2>2 DEF TypeOK
  <2> QED BY <1>7, <2>2, <2>3, <2>4 DEF Rearranges
<1>12. CASE MoveChildren(q)
  <2>1. /\ parent' = Reparented(req[q].top, req[q].to) /\ folder' = folder /\ gc' = gc
        /\ Continue(q, "soft_delete")
    BY <1>12 DEF MoveChildren
  <2>2. req'[q].op \notin Cascades
    BY <1>0, <2>1 DEF Continue, Request, Cascades
  <2>3. \A g \in Folders : folder[g] \notin {"none", "live"} => parent'[g] = parent[g]
    BY <1>0, <2>1 DEF Reparented, LiveChildren
  <2> QED BY <1>7, <2>1, <2>2, <2>3 DEF Rearranges
<1> QED BY <1>2, <1>3, <1>4, <1>6, <1>9, <1>10, <1>11, <1>12 DEF Statement

LEMMA SitsOn ==
  ASSUME NEW q \in Requests, \A p \in Requests : p = q, TreeInv, Sits(req[q]),
         Begin(q) \/ Statement(q) \/ ForeignKeyFails(q)
  PROVE  Sits(req[q])'
<1>0. TypeOK /\ req \in [Requests -> Request]
  BY DEF TreeInv, IInv, TypeOK
<1>1. ASSUME req'[q].op \notin {"update_folder", "reorder_folders"} PROVE Sits(req[q])'
  BY <1>1 DEF Sits
<1>2. ASSUME NEW r, Start(q, r), r.op \notin {"update_folder", "reorder_folders"} PROVE Sits(req[q])'
  BY <1>0, <1>1, <1>2 DEF Start
<1>3. CASE UpdateFolder(q)
  <2>1. PICK f \in Folders, p \in Folders \cup {Root} :
          folder[f] = "live" /\ Start(q, [Idle EXCEPT !.op = "update_folder", !.at = f, !.to = p])
    BY <1>3 DEF UpdateFolder, MayUpdate
  <2>2. req'[q].op = "update_folder" /\ req'[q].at = f /\ folder' = folder
    BY <1>0, <2>1 DEF Start, Idle, rows
  <2> QED BY <2>1, <2>2 DEF Sits
<1>4. CASE ReorderFolders(q)
  <2>1. PICK ids \in SUBSET Folders, p \in Folders \cup {Root} :
          /\ \A f \in ids : folder[f] = "live"
          /\ Start(q, [Idle EXCEPT !.op = "reorder_folders", !.to = p, !.todo = ids])
    BY <1>4 DEF ReorderFolders, MayReorder
  <2>2. req'[q].op = "reorder_folders" /\ req'[q].todo = ids /\ folder' = folder
    BY <1>0, <2>1 DEF Start, Idle, rows
  <2> QED BY <2>1, <2>2 DEF Sits
<1>5. CASE CreateFolder(q) \/ DeleteFolder(q)
  BY <1>2, <1>5 DEF CreateFolder, DeleteFolder, Idle
<1>6. CASE CreateBookmark(q) \/ UpdateBookmark(q) \/ EditBookmarks(q)
  BY <1>2, <1>6 DEF CreateBookmark, UpdateBookmark, EditBookmarks, Idle
<1>7. ASSUME Done(q) PROVE Sits(req[q])'
  BY <1>0, <1>1, <1>7 DEF Done, Idle
<1>8. CASE InsertFolder(q) \/ WriteParent(q) \/ DeleteTop(q) \/ InsertBookmark(q) \/ ForeignKeyFails(q)
  BY <1>7, <1>8 DEF InsertFolder, WriteParent, DeleteTop, InsertBookmark, ForeignKeyFails
<1>9. ASSUME NEW op, Continue(q, op), op \notin {"update_folder", "reorder_folders"} PROVE Sits(req[q])'
  <2>1. req'[q].op = op
    BY <1>0, <1>9 DEF Continue, Request
  <2> QED BY <1>1, <1>9, <2>1
<1>10. CASE MoveBookmarks(q) \/ MoveChildren(q) \/ CascadeFolder(q)
  BY <1>9, <1>10 DEF MoveBookmarks, MoveChildren, CascadeFolder
<1>11. CASE CascadeBookmarks(q)
  BY <1>9, <1>11 DEF CascadeBookmarks
<1>12. CASE CascadePop(q)
  <2>1. req'[q].op = "cascade_bookmarks"
    BY <1>0, <1>12 DEF CascadePop
  <2> QED BY <1>1, <2>1
<1>13. CASE ReorderNext(q) \/ WriteHome(q) \/ BatchDelete(q)
  <2>1. PICK x \in req[q].todo : req' = [req EXCEPT ![q] = Rest(@, x)]
    BY <1>13 DEF ReorderNext, WriteHome, BatchDelete
  <2>2. folder' = folder
    BY <1>13 DEF ReorderNext, WriteHome, BatchDelete
  <2>3. req'[q] = Rest(req[q], x)
    BY <1>0, <2>1
  <2>4. CASE req[q].todo = {x}
    <3>1. req'[q].op = "idle"
      BY <2>3, <2>4 DEF Rest, Idle
    <3> QED BY <1>1, <3>1
  <2>5. CASE req[q].todo # {x}
    <3>1. /\ req'[q].op = req[q].op /\ req'[q].at = req[q].at
          /\ req'[q].todo = req[q].todo \ {x}
      BY <1>0, <2>3, <2>5 DEF Rest, Request
    <3> QED BY <2>2, <3>1 DEF Sits
  <2> QED BY <2>4, <2>5
<1>14. CASE DeleteBookmark(q)
  BY <1>14 DEF DeleteBookmark, Sits
<1> QED BY <1>3, <1>4, <1>5, <1>6, <1>8, <1>10, <1>11, <1>12, <1>13, <1>14 DEF Begin, Statement

\* A request that is alone leaves what is deleted where it is.
LEMMA RequestPass ==
  ASSUME PassInv, TreeInv', gc' = gc, Rearranges \/ OnlyDeletes
  PROVE  Young' /\ NoRing' /\ Pass'
<1> USE InboxIsFolder DEF Stored, Trashed
<1>0. /\ TypeOK /\ Young /\ NoRing /\ Pass /\ NoCircle'
      /\ folder \in [Folders -> Row] /\ parent \in [Folders -> Folders \cup {Root}]
      /\ parent' \in [Folders -> Folders \cup {Root}]
  BY DEF PassInv, TreeInv, IInv, TypeOK
<1>1. ASSUME NEW f \in Folders, folder[f] \notin {"none", "live"}
      PROVE  parent'[f] = parent[f] /\ folder'[f] \notin {"none", "live"}
  BY <1>1 DEF Rearranges, OnlyDeletes
<1>2. ASSUME NEW f \in Folders
      PROVE  /\ folder[f] \in Stored => folder'[f] \in Stored
             /\ folder'[f] = "stale" => folder[f] = "stale"
  BY DEF Rearranges, OnlyDeletes
<1>3. Young'
  <2> SUFFICES ASSUME NEW f \in Folders, folder'[f] = "live", parent'[f] # Root
               PROVE  folder'[parent'[f]] \in {"live", "trash"}
    BY DEF Young
  <2>1. CASE Rearranges
    BY <2>1 DEF Rearranges
  <2>2. CASE OnlyDeletes
    <3>1. folder[f] = "live" /\ parent'[f] = parent[f] /\ parent[f] \in Folders
      BY <1>0, <2>2 DEF OnlyDeletes
    <3>2. folder[parent[f]] \in {"live", "trash"}
      BY <1>0, <3>1 DEF Young
    <3> QED BY <2>2, <3>1, <3>2 DEF OnlyDeletes
  <2> QED BY <2>1, <2>2
<1>4. NoRing'
  <2> SUFFICES ASSUME NEW S \in SUBSET Folders, S # {}, \A f \in S : folder'[f] \in Stored,
                      \A f \in S : parent'[f] \in S
               PROVE  FALSE
    BY DEF NoRing
  <2>1. CASE OnlyDeletes
    <3>1. \A f \in S : folder[f] \in Stored /\ parent[f] \in S
      BY <2>1 DEF OnlyDeletes
    <3> QED BY <1>0, <3>1 DEF NoRing
  <2>2. CASE Rearranges
    <3>0. PICK L : L = {f \in S : folder'[f] = "live"}
      OBVIOUS
    <3>1. CASE L = {}
      <4>1. \A f \in S : folder[f] \in Stored /\ parent[f] \in S
        BY <2>2, <3>0, <3>1 DEF Rearranges
      <4> QED BY <1>0, <4>1 DEF NoRing
    <3>2. CASE L # {}
      <4>1. \A f \in L : folder'[f] = "live" /\ parent'[f] \in L
        BY <2>2, <3>0 DEF Rearranges
      <4>2. L \subseteq Folders
        BY <3>0
      <4>3. Circle(L)'
        BY <3>2, <4>1, <4>2 DEF Circle
      <4> QED BY <1>0, <4>2, <4>3 DEF NoCircle
    <3> QED BY <3>1, <3>2
  <2> QED BY <2>1, <2>2
<1>5. Pass'
  <2> SUFFICES ASSUME gc.op = "folders" PROVE Pass'
    BY DEF Pass
  <2>1. /\ gc.todo \subseteq gc.listed /\ gc.listed \subseteq Folders
        /\ \A f \in gc.listed : folder[f] \notin {"none", "live"}
        /\ Ringless(gc.listed)
        /\ \A f \in gc.listed \ gc.todo : folder[f] = "stale" => Skipped(f)
    BY <1>0 DEF Pass, TypeOK
  <2>2. \A f \in gc.listed : parent'[f] = parent[f] /\ folder'[f] \notin {"none", "live"}
    BY <1>1, <2>1
  <2>3. Ringless(gc.listed)'
    BY <2>1, <2>2 DEF Ringless
  <2>4. ASSUME NEW f \in gc.listed \ gc.todo, folder'[f] = "stale" PROVE Skipped(f)'
    <3>1. PICK g \in Folders \ gc.todo : folder[g] \in Stored /\ parent[g] = f
      BY <1>2, <2>1, <2>4 DEF Skipped
    <3>2. f \in Folders /\ f # Root /\ folder[f] = "stale"
      BY <1>2, <2>1, <2>4
    <3>3. folder[g] # "live"
      BY <1>0, <3>1, <3>2 DEF Young
    <3>4. parent'[g] = f /\ folder'[g] \in Stored
      BY <1>1, <1>2, <3>1, <3>3
    <3> QED BY <3>1, <3>4 DEF Skipped
  <2> QED BY <2>1, <2>2, <2>3, <2>4 DEF Pass
<1> QED BY <1>3, <1>4, <1>5

\* What the collector looks at next is in no folder that it has still to look at.
LEMMA NextHasNoneBelow ==
  ASSUME IsFiniteSet(Folders), PassInv, gc.op = "folders", NEW f \in NextToCollect,
         NEW g \in Folders, parent[g] = f
  PROVE  g \notin gc.todo \ {f} /\ g # f
<1>0. /\ TypeOK /\ gc.todo \subseteq gc.listed /\ gc.listed \subseteq Folders /\ Ringless(gc.listed)
      /\ f \in gc.todo /\ \A h \in gc.todo : DepthIn(gc.listed, h) <= DepthIn(gc.listed, f)
  BY DEF PassInv, TreeInv, IInv, TypeOK, Pass, NextToCollect
<1>1. ASSUME g \in gc.todo PROVE FALSE
  <2>1. PICK listed \in SUBSET Folders : listed = gc.listed
    BY <1>0
  <2>2. f \in listed /\ g \in listed /\ Ringless(listed)
    BY <1>0, <1>1, <2>1
  <2>3. /\ DepthIn(listed, f) \in Nat /\ DepthIn(listed, g) \in Nat
        /\ DepthIn(listed, f) < DepthIn(listed, g)
    BY <1>0, <2>2, DeeperBelow
  <2>4. DepthIn(listed, g) <= DepthIn(listed, f)
    BY <1>0, <1>1, <2>1
  <2> QED BY <2>3, <2>4
<1> QED BY <1>0, <1>1

LEMMA GcPass ==
  ASSUME IsFiniteSet(Folders), NEW q \in Requests, \A p \in Requests : p = q,
         PassInv, TreeInv', Gc \/ FifteenDays
  PROVE  PassInv'
<1> USE InboxIsFolder DEF Stored, Trashed
<1>0. /\ TypeOK /\ Young /\ NoRing /\ Pass /\ GcSound /\ \A p \in Requests : Sits(req[p])
      /\ folder \in [Folders -> Row] /\ parent \in [Folders -> Folders \cup {Root}]
  BY DEF PassInv, TreeInv, IInv, TypeOK
<1>1. ASSUME UNCHANGED <<folder, parent, req>>, Pass' PROVE PassInv'
  <2>1. Young' /\ NoRing'
    BY <1>0, <1>1 DEF Young, NoRing
  <2>2. \A p \in Requests : Sits(req[p])'
    BY <1>0, <1>1 DEF Sits
  <2> QED BY <1>1, <2>1, <2>2 DEF PassInv
<1>2. CASE GcListBookmarks \/ GcFails \/ GcEnds
  <2>1. UNCHANGED <<folder, parent, req>> /\ gc'.op # "folders"
    <3>1. GcListBookmarks => gc'.op = "bookmarks"
      BY DEF GcListBookmarks, NoGc
    <3>2. GcFails \/ GcEnds => gc'.op \in {"idle", "failed"}
      BY DEF GcFails, GcEnds, NoGc
    <3>3. UNCHANGED <<folder, parent, req>>
      BY <1>2 DEF GcListBookmarks, GcFails, GcEnds, rows
    <3> QED BY <1>2, <3>1, <3>2, <3>3
  <2> QED BY <1>1, <2>1 DEF Pass
<1>3. CASE GcDeleteBookmark
  <2>1. UNCHANGED <<folder, parent, req>> /\ gc'.op # "folders"
    BY <1>0, <1>3 DEF GcDeleteBookmark, TypeOK
  <2> QED BY <1>1, <2>1 DEF Pass
<1>4. CASE GcListFolders
  <2>1. PICK list : list = {f \in Folders \ {Inbox} : folder[f] = "stale"}
    OBVIOUS
  <2>2. UNCHANGED <<folder, parent, req>> /\ gc' = [op |-> "folders", todo |-> list, listed |-> list]
    BY <1>4, <2>1 DEF GcListFolders, rows
  <2>3. gc'.todo = list /\ gc'.listed = list
    BY <2>2
  <2>4. \A f \in list : f \in Folders /\ folder[f] = "stale"
    BY <2>1
  <2>5. Ringless(list)'
    <3> SUFFICES ASSUME NEW S \in SUBSET list, S # {} PROVE \E f \in S : parent'[f] \notin S
      BY DEF Ringless
    <3>1. S \in SUBSET Folders /\ \A f \in S : folder[f] \in Stored
      BY <2>4
    <3> QED BY <1>0, <2>2, <3>1 DEF NoRing
  <2>6. Ringless(gc.listed)'
    BY <2>3, <2>5 DEF Ringless
  <2>7. Pass'
    BY <2>2, <2>3, <2>4, <2>6 DEF Pass
  <2> QED BY <1>1, <2>2, <2>7
<1>5. CASE GcDeleteFolder
  <2>1. PICK f \in NextToCollect :
          /\ folder' = [folder EXCEPT ![f] = IF HasChildRow(f) THEN @ ELSE "gone"]
          /\ gc' = [gc EXCEPT !.todo = @ \ {f}]
    BY <1>5 DEF GcDeleteFolder
  <2>2. gc.op = "folders" /\ UNCHANGED <<parent, req>>
    BY <1>5 DEF GcDeleteFolder
  <2>3. /\ gc.todo \subseteq gc.listed /\ gc.listed \subseteq Folders
        /\ \A h \in gc.listed : folder[h] \notin {"none", "live"}
        /\ Ringless(gc.listed) /\ f \in gc.todo /\ f \in Folders
        /\ \A h \in gc.listed \ gc.todo : folder[h] = "stale" => Skipped(h)
    BY <1>0, <2>1, <2>2 DEF Pass, TypeOK, NextToCollect
  <2>4. gc'.op = "folders" /\ gc'.todo = gc.todo \ {f} /\ gc'.listed = gc.listed
    BY <1>0, <2>1, <2>2 DEF TypeOK
  <2>5. /\ \A h \in Folders \ {f} : folder'[h] = folder[h]
        /\ HasChildRow(f) => folder'[f] = folder[f]
        /\ ~HasChildRow(f) => folder'[f] = "gone"
    BY <1>0, <2>1, <2>3
  <2>6. folder[f] \notin {"none", "live"} /\ folder'[f] \notin {"none", "live"}
    BY <2>3, <2>5
  <2>7. Young'
    <3> SUFFICES ASSUME NEW h \in Folders, folder'[h] = "live", parent'[h] # Root
                 PROVE  folder'[parent'[h]] \in {"live", "trash"}
      BY DEF Young
    <3>1. folder[h] = "live" /\ parent'[h] = parent[h] /\ parent[h] \in Folders
      BY <1>0, <2>2, <2>5, <2>6
    <3>2. folder[parent[h]] \in {"live", "trash"}
      BY <1>0, <2>2, <3>1 DEF Young
    <3>3. parent[h] = f => HasChildRow(f)
      BY <3>1 DEF HasChildRow
    <3> QED BY <2>5, <3>1, <3>2, <3>3
  <2>8. NoRing'
    <3> SUFFICES ASSUME NEW S \in SUBSET Folders, S # {}, \A h \in S : folder'[h] \in Stored
                 PROVE  \E h \in S : parent'[h] \notin S
      BY DEF NoRing
    <3>1. \A h \in S : folder[h] \in Stored
      BY <2>5
    <3> QED BY <1>0, <2>2, <3>1 DEF NoRing
  <2>9. Ringless(gc.listed)'
    BY <2>2, <2>3, <2>4 DEF Ringless
  <2>10. \A h \in gc.listed : folder'[h] \notin {"none", "live"}
    BY <2>3, <2>5, <2>6
  <2>11. ASSUME NEW h \in gc.listed \ (gc.todo \ {f}), folder'[h] = "stale" PROVE Skipped(h)'
    <3>1. CASE h = f
      <4>1. HasChildRow(f)
        BY <2>5, <2>11, <3>1
      <4>2. PICK g \in Folders : folder[g] \in Stored /\ parent[g] = f
        BY <4>1 DEF HasChildRow
      <4>3. g \notin gc.todo \ {f} /\ g # f
        BY <2>1, <2>2, <4>2, NextHasNoneBelow
      <4>4. folder'[g] \in Stored /\ parent'[g] = f /\ g \notin gc'.todo
        BY <2>2, <2>4, <2>5, <4>2, <4>3
      <4> QED BY <3>1, <4>4 DEF Skipped
    <3>2. CASE h # f
      <4>1. PICK g \in Folders \ gc.todo : folder[g] \in Stored /\ parent[g] = h
        BY <2>3, <2>5, <2>11, <3>2 DEF Skipped
      <4>2. folder'[g] \in Stored /\ parent'[g] = h /\ g \notin gc'.todo
        BY <2>2, <2>3, <2>4, <2>5, <4>1
      <4> QED BY <4>1, <4>2 DEF Skipped
    <3> QED BY <3>1, <3>2
  <2>12. Pass'
    BY <2>3, <2>4, <2>9, <2>10, <2>11 DEF Pass
  <2>13. \A p \in Requests : Sits(req[p])'
    <3>1. \A h \in Folders : folder[h] = "live" => folder'[h] = "live"
      BY <2>5, <2>6
    <3> SUFFICES Sits(req[q])'
      OBVIOUS
    <3>2. req[q].at \in Folders \cup {Root} /\ (req[q].op = "update_folder" => req[q].at \in Folders)
      BY <1>0 DEF TypeOK, Request, PassInv, TreeInv, IInv, Aim
    <3> QED BY <1>0, <2>2, <3>1, <3>2 DEF Sits
  <2> QED BY <2>7, <2>8, <2>12, <2>13 DEF PassInv
<1>6. CASE FifteenDays
  <2>1. /\ \A p \in Requests : req[p] = Idle
        /\ gc.op \in {"idle", "failed"} /\ UNCHANGED <<parent, req, gc>>
        /\ folder' = [f \in Folders |-> Older(folder[f])]
    BY <1>6 DEF FifteenDays
  <2>2. \A row \in Row : (Older(row) = "live" <=> row = "live") /\ (Older(row) \in Stored <=> row \in Stored)
    BY DEF Older, Row
  <2>3. \A f \in Folders : /\ folder'[f] = "live" <=> folder[f] = "live"
                           /\ folder'[f] \in Stored <=> folder[f] \in Stored
    <3>1. \A f \in Folders : folder[f] \in Row /\ folder'[f] = Older(folder[f])
      BY <1>0, <2>1
    <3> QED BY <2>2, <3>1
  <2>4. Young'
    <3>1. Placed(Idle)
      BY <2>1 DEF PassInv, TreeInv
    <3>2. \A f \in Folders : folder[f] = "live" /\ parent[f] # Root => folder[parent[f]] = "live"
      BY <3>1 DEF Placed, Pending, Idle, Cascades
    <3> QED BY <1>0, <2>1, <2>3, <3>2 DEF Young
  <2>5. NoRing'
    BY <1>0, <2>1, <2>3 DEF NoRing
  <2>6. Pass' /\ \A p \in Requests : Sits(req[p])'
    BY <2>1 DEF Pass, Sits, Idle
  <2> QED BY <2>4, <2>5, <2>6 DEF PassInv
<1> QED BY <1>2, <1>3, <1>4, <1>5, <1>6 DEF Gc

LEMMA PassInit == Init => PassInv
<1> SUFFICES ASSUME Init PROVE PassInv
  OBVIOUS
<1> USE InboxIsFolder
<1>1. Young /\ NoRing /\ Pass
  BY DEF Init, Young, NoRing, Pass, NoGc, Stored, Trashed
<1>2. \A q \in Requests : Sits(req[q])
  BY DEF Init, Sits, Idle
<1> QED BY <1>1, <1>2, TreeInit DEF PassInv

LEMMA PassNext ==
  ASSUME IsFiniteSet(Folders), NEW q \in Requests, \A p \in Requests : p = q, MayBeKilled = FALSE,
         PassInv, [Next]_vars
  PROVE  PassInv'
<1>1. TreeInv /\ Sits(req[q]) /\ TreeInv'
  BY TreeNext DEF PassInv
<1>2. CASE Begin(q) \/ Statement(q) \/ ForeignKeyFails(q)
  <2>1. (Rearranges \/ OnlyDeletes) /\ gc' = gc
    BY <1>1, <1>2, StatementRows
  <2>2. Young' /\ NoRing' /\ Pass'
    BY <1>1, <2>1, RequestPass
  <2>3. Sits(req[q])'
    BY <1>1, <1>2, SitsOn
  <2>4. \A p \in Requests : Sits(req[p])'
    BY <2>3
  <2> QED BY <1>1, <2>2, <2>4 DEF PassInv
<1>3. CASE Gc \/ FifteenDays
  BY <1>1, <1>3, GcPass
<1>4. CASE UNCHANGED vars
  <2>1. UNCHANGED <<folder, parent, req, gc>>
    BY <1>4 DEF vars
  <2> QED BY <1>1, <2>1 DEF PassInv, Young, NoRing, Pass, Ringless, Skipped, Sits
<1> QED BY <1>2, <1>3, <1>4 DEF Next, Killed

\* A pass that comes to its end has left no stale folder without a row in it.
GcWhole == gc.op = "folders" /\ gc'.op = "idle" => LeftBehind = {}

LEMMA PassIsWhole ==
  ASSUME PassInv, [Next]_vars  PROVE GcWhole
<1> SUFFICES ASSUME gc.op = "folders", gc'.op = "idle" PROVE LeftBehind = {}
  BY DEF GcWhole
<1>0. TypeOK /\ Pass
  BY DEF PassInv, TreeInv, IInv
<1>1. CASE GcEnds
  <2>1. gc.todo = {}
    BY <1>1 DEF GcEnds
  <2>2. ASSUME NEW f \in gc.listed, folder[f] = "stale" PROVE HasChildRow(f)
    BY <1>0, <2>1, <2>2 DEF Pass, Skipped, HasChildRow
  <2> QED BY <2>2 DEF LeftBehind
<1>2. ASSUME gc' = gc PROVE FALSE
  BY <1>2
<1>3. CASE GcDeleteFolder
  BY <1>0, <1>3 DEF GcDeleteFolder, TypeOK
<1>4. CASE GcFails
  BY <1>4 DEF GcFails, NoGc
<1>5. CASE GcListBookmarks \/ GcDeleteBookmark \/ GcListFolders
  BY <1>5 DEF GcListBookmarks, GcDeleteBookmark, GcListFolders
<1>6. CASE FifteenDays \/ UNCHANGED vars
  BY <1>2, <1>6 DEF FifteenDays, vars
<1>7. ASSUME NEW q \in Requests, Begin(q) \/ ForeignKeyFails(q) \/ Killed(q) PROVE gc' = gc
  BY <1>7 DEF Begin, CreateFolder, UpdateFolder, ReorderFolders, DeleteFolder, CreateBookmark,
              UpdateBookmark, EditBookmarks, Start, ForeignKeyFails, Killed
<1>8. ASSUME NEW q \in Requests, Statement(q) PROVE gc' = gc
  BY <1>8 DEF Statement, InsertFolder, WriteParent, ReorderNext, MoveBookmarks, MoveChildren, CascadePop,
              CascadeBookmarks, CascadeFolder, DeleteTop, SoftDeleteFolder, InsertBookmark, WriteHome,
              BatchDelete, DeleteBookmark
<1> QED BY <1>1, <1>2, <1>3, <1>4, <1>5, <1>6, <1>7, <1>8 DEF Next, Gc

\* As long as requests do not overlap and none is killed midway, a pass of the collector that
\* comes to its end leaves no stale folder of its list that has neither a row nor a folder in it:
\* deepest first, it has collected what is in a folder before it looks at the folder.
THEOREM CollectsDeepestFirst ==
  ASSUME IsFiniteSet(Folders), MayBeKilled = FALSE,
         NEW q \in Requests, \A p \in Requests : p = q
  PROVE  Spec => GcDeepestFirst
<1>1. PassInv /\ [Next]_vars => PassInv'
  BY PassNext
<1>2. PassInv /\ [Next]_vars => [GcWhole]_vars
  BY PassIsWhole
<1>3. Spec => [][GcWhole]_vars
  BY <1>1, <1>2, PassInit, PTL DEF Spec
<1> QED BY <1>3 DEF GcDeepestFirst, GcWhole
=============================================================================
