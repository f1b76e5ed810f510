------------------------------ MODULE FolderTree ------------------------------
(***************************************************************************)
(* The folder tree of one user in the Worker runtime: the rows of folders  *)
(* and bookmarks, the requests that insert, move, reorder and soft-delete  *)
(* them, and the cron's garbage collector.                                 *)
(*                                                                         *)
(* D1 runs one statement at a time and there is no transaction around a    *)
(* request: each first reads and checks, then writes row by row, and other *)
(* requests and the collector run in between.  The reads of one check are  *)
(* taken as one step.                                                      *)
(***************************************************************************)
EXTENDS Integers, FiniteSets

CONSTANTS
  Folders, Bookmarks,   \* ids; a row is inserted under each at most once
  Requests,             \* requests that may be in flight at the same time
  Inbox,                \* the system folder of bootstrap
  Root,                 \* NULL, the parent_id of a top folder
  MaxDepth,             \* MAX_FOLDER_DEPTH
  MayBeKilled           \* may a Worker be killed between two statements?

ASSUME InboxIsFolder == Inbox \in Folders /\ Root \notin Folders
ASSUME DepthAssumption == MaxDepth \in Nat \ {0} /\ MayBeKilled \in BOOLEAN

VARIABLES
  folder,     \* the row of each folder id, by its deleted_at
  parent,     \* parent_id
  bookmark,   \* the row of each bookmark id, by its deleted_at
  home,       \* folder_id
  req,        \* what each request is about to do
  gc          \* what the collector is about to do

vars == <<folder, parent, bookmark, home, req, gc>>

\* No row yet, deleted_at NULL, deleted less than 15, than 30, more than 30
\* days ago, row removed by the collector.
Row     == {"none", "live", "trash", "old", "stale", "gone"}
Trashed == {"trash", "old", "stale"}
Stored  == {"live"} \cup Trashed

Op == {"idle", "insert_folder", "update_folder", "reorder_folders", "rehome",
       "reparent", "cascade", "cascade_bookmarks", "cascade_folder",
       "soft_delete", "insert_bookmark", "update_bookmark",
       "reorder_bookmarks", "batch_move", "batch_delete"}

\* The folder a request is about, the folder its rows go to, the ids to do.
Request == [op : Op, at : Folders \cup {Root}, top : Folders \cup {Root},
            to : Folders \cup {Root}, todo : SUBSET (Folders \cup Bookmarks)]
Idle == [op |-> "idle", at |-> Root, top |-> Root, to |-> Root, todo |-> {}]
NoGc == [op |-> "idle", todo |-> {}, listed |-> {}]

\* The operations that write a folder_id, which is NOT NULL.
Homing == {"rehome", "insert_bookmark", "update_bookmark", "reorder_bookmarks", "batch_move"}

TypeOK ==
  /\ folder \in [Folders -> Row]
  /\ parent \in [Folders -> Folders \cup {Root}]
  /\ bookmark \in [Bookmarks -> Row]
  /\ home \in [Bookmarks -> Folders]
  /\ req \in [Requests -> Request]
  /\ \A q \in Requests : req[q].op \in Homing => req[q].to \in Folders
  /\ gc \in [op : {"idle", "bookmarks", "folders", "failed"},
             todo : SUBSET (Folders \cup Bookmarks), listed : SUBSET Folders]

Init ==
  /\ folder = [f \in Folders |-> IF f = Inbox THEN "live" ELSE "none"]
  /\ parent = [f \in Folders |-> Root]
  /\ bookmark = [b \in Bookmarks |-> "none"]
  /\ home = [b \in Bookmarks |-> Inbox]
  /\ req = [q \in Requests |-> Idle]
  /\ gc = NoGc

rows == <<folder, parent, bookmark, home>>

-----------------------------------------------------------------------------
\* Reads and checks

LiveChildren(f) == {g \in Folders : folder[g] = "live" /\ parent[g] = f}
LiveIn(f) == {b \in Bookmarks : bookmark[b] = "live" /\ home[b] = f}

\* The walk of assertFolderParentOk: a deleted ancestor ends it like a NULL.
Up(f) ==
  LET walk[n \in Nat] ==
        IF n = 0 THEN f
        ELSE LET g == walk[n - 1]
             IN IF g # Root /\ folder[g] = "live" THEN parent[g] ELSE Root
  IN walk

\* assertFolderParentOk, for a folder `self` (Root: for a new folder).
ParentOk_NoWalk(p, self) == p # Root => folder[p] = "live" /\ p # self
ParentOk(p, self) ==
  p # Root =>
    /\ folder[p] = "live"
    /\ Up(p)[MaxDepth] = Root
    /\ self # Root => \A i \in 0..MaxDepth : Up(p)[i] # self

\* assertLiveFolder
LiveFolder(f) == folder[f] = "live"

\* Ids are uuids: a request inserts under one that nobody else uses.
Fresh(id) == \A q \in Requests : id \notin req[q].todo

-----------------------------------------------------------------------------
\* The first part of each request: reads, checks, early returns.

Start(q, r) == req[q] = Idle /\ req' = [req EXCEPT ![q] = r] /\ UNCHANGED <<rows, gc>>

CreateFolder(q) ==
  \E f \in Folders, p \in Folders \cup {Root} :
    /\ folder[f] = "none" /\ Fresh(f) /\ ParentOk(p, Root)
    /\ Start(q, [Idle EXCEPT !.op = "insert_folder", !.to = p, !.todo = {f}])

\* PATCH /folders/:id.  A request that only renames writes the parent it read.
MayUpdate_System(f, p) ==
  folder[f] = "live" /\ (p = parent[f] \/ ParentOk(p, f))
MayUpdate(f, p) ==
  /\ folder[f] = "live"
  /\ p = parent[f] \/ (f # Inbox /\ ParentOk(p, f))

UpdateFolder(q) ==
  \E f \in Folders, p \in Folders \cup {Root} :
    /\ MayUpdate(f, p)
    /\ Start(q, [Idle EXCEPT !.op = "update_folder", !.at = f, !.to = p])

\* The guard of POST /folders/reorder for one of the ordered ids.
MayReorder(f, p) ==
  /\ folder[f] = "live"
  /\ p \in {Root, parent[f]} \/ (f # Inbox /\ ParentOk(p, f))

ReorderFolders(q) ==
  \E ids \in SUBSET Folders, p \in Folders \cup {Root} :
    /\ ids # {} /\ ParentOk(p, Root)
    /\ \A f \in ids : MayReorder(f, p)
    /\ Start(q, [Idle EXCEPT !.op = "reorder_folders", !.to = p, !.todo = ids])

\* DELETE /folders/:id: mode move_to_inbox, move_to_parent, cascade_soft_delete.
TargetParent(f, mode) ==
  IF mode = "move_to_inbox" \/ parent[f] = Root THEN Inbox ELSE parent[f]

DeleteFolder(q) ==
  \E f \in Folders \ {Inbox} :
    /\ folder[f] = "live"
    /\ \/ \E mode \in {"move_to_inbox", "move_to_parent"} :
            Start(q, [Idle EXCEPT !.op = "rehome", !.top = f,
                                  !.to = TargetParent(f, mode)])
       \/ Start(q, [Idle EXCEPT !.op = "cascade", !.top = f, !.todo = {f}])

CreateBookmark(q) ==
  \E b \in Bookmarks, f \in Folders :
    /\ bookmark[b] = "none" /\ Fresh(b) /\ LiveFolder(f)
    /\ Start(q, [Idle EXCEPT !.op = "insert_bookmark", !.to = f, !.todo = {b}])

\* PATCH /bookmarks/:id; without folder_id it writes the folder it read.
UpdateBookmark(q) ==
  \E b \in Bookmarks, f \in Folders :
    /\ bookmark[b] = "live"
    /\ f = home[b] \/ LiveFolder(f)
    /\ Start(q, [Idle EXCEPT !.op = "update_bookmark", !.to = f, !.todo = {b}])

\* POST /bookmarks/reorder with a folder_id, POST /bookmarks/batch.
EditBookmarks(q) ==
  \E ids \in SUBSET Bookmarks, f \in Folders :
    /\ ids # {}
    /\ \/ /\ LiveFolder(f)
          /\ \E op \in {"reorder_bookmarks", "batch_move"} :
               Start(q, [Idle EXCEPT !.op = op, !.to = f, !.todo = ids])
       \/ /\ f = Inbox
          /\ Start(q, [Idle EXCEPT !.op = "batch_delete", !.todo = ids])

\* The foreign keys of 0005: D1 refuses a statement that would break them.
RefsExist ==
  /\ \A f \in Folders : folder[f] \in Stored /\ parent[f] # Root => folder[parent[f]] \in Stored
  /\ \A b \in Bookmarks : bookmark[b] \in Stored => folder[home[b]] \in Stored

-----------------------------------------------------------------------------
\* The statements.  UPDATE ... WHERE id = ? hits whatever row is there.

Continue(q, op) == req' = [req EXCEPT ![q].op = op]
Done(q) == req' = [req EXCEPT ![q] = Idle]
Rest(r, id) == IF r.todo = {id} THEN Idle ELSE [r EXCEPT !.todo = r.todo \ {id}]

InsertFolder(q) ==
  /\ req[q].op = "insert_folder"
  /\ \E f \in req[q].todo :
       /\ folder' = [folder EXCEPT ![f] = "live"]
       /\ parent' = [parent EXCEPT ![f] = req[q].to]
  /\ Done(q)
  /\ UNCHANGED <<bookmark, home, gc>>

WriteParent(q) ==
  /\ req[q].op = "update_folder"
  /\ parent' = [parent EXCEPT ![req[q].at] = req[q].to]
  /\ Done(q)
  /\ UNCHANGED <<folder, bookmark, home, gc>>

\* The loop reads is_system again before it writes.
Reordered(f, p) == IF f = Inbox THEN parent[f] ELSE p

ReorderNext(q) ==
  /\ req[q].op = "reorder_folders"
  /\ \E f \in req[q].todo :
       /\ parent' = [parent EXCEPT ![f] = Reordered(f, req[q].to)]
       /\ req' = [req EXCEPT ![q] = Rest(@, f)]
  /\ UNCHANGED <<folder, bookmark, home, gc>>

MoveBookmarks(q) ==
  /\ req[q].op = "rehome"
  /\ home' = [b \in Bookmarks |->
                IF b \in LiveIn(req[q].top) THEN req[q].to ELSE home[b]]
  /\ Continue(q, "reparent")
  /\ UNCHANGED <<folder, parent, bookmark, gc>>

Reparented(f, to) ==
  [g \in Folders |-> IF g \in LiveChildren(f) THEN to ELSE parent[g]]

MoveChildren(q) ==
  /\ req[q].op = "reparent"
  /\ parent' = Reparented(req[q].top, req[q].to)
  /\ Continue(q, "soft_delete")
  /\ UNCHANGED <<folder, bookmark, home, gc>>

\* One turn of the cascade: pop a folder and push its children, then soft-delete
\* its bookmarks, then the folder itself unless it is the one asked for.
CascadePop(q) ==
  /\ req[q].op = "cascade" /\ req[q].todo # {}
  /\ \E f \in req[q].todo :
       req' = [req EXCEPT ![q] = [op |-> "cascade_bookmarks", at |-> f, top |-> @.top,
                                  to |-> @.to, todo |-> (@.todo \ {f}) \cup LiveChildren(f)]]
  /\ UNCHANGED <<rows, gc>>

CascadeBookmarks(q) ==
  /\ req[q].op = "cascade_bookmarks"
  /\ bookmark' = [b \in Bookmarks |->
                    IF b \in LiveIn(req[q].at) THEN "trash" ELSE bookmark[b]]
  /\ Continue(q, IF req[q].at = req[q].top THEN "cascade" ELSE "cascade_folder")
  /\ UNCHANGED <<folder, parent, home, gc>>

SoftDeleteFolder(q, f) ==
  /\ folder' = [folder EXCEPT ![f] = IF @ \in Stored THEN "trash" ELSE @]
  /\ UNCHANGED <<parent, bookmark, home, gc>>

CascadeFolder(q) ==
  /\ req[q].op = "cascade_folder"
  /\ SoftDeleteFolder(q, req[q].at)
  /\ Continue(q, "cascade")

DeleteTop(q) ==
  /\ \/ req[q].op = "soft_delete"
     \/ req[q].op = "cascade" /\ req[q].todo = {}
  /\ SoftDeleteFolder(q, req[q].top)
  /\ Done(q)

InsertBookmark(q) ==
  /\ req[q].op = "insert_bookmark"
  /\ \E b \in req[q].todo :
       /\ bookmark' = [bookmark EXCEPT ![b] = "live"]
       /\ home' = [home EXCEPT ![b] = req[q].to]
  /\ Done(q)
  /\ UNCHANGED <<folder, parent, gc>>

\* The loop over the ids.  Only a batch skips the ids that are not live.
WriteHome(q) ==
  /\ req[q].op \in {"update_bookmark", "reorder_bookmarks", "batch_move"}
  /\ \E b \in req[q].todo :
       /\ home' = [home EXCEPT ![b] =
            IF bookmark[b] = "live" \/ (bookmark[b] \in Stored /\ req[q].op # "batch_move")
            THEN req[q].to ELSE @]
       /\ req' = [req EXCEPT ![q] = Rest(@, b)]
  /\ UNCHANGED <<folder, parent, bookmark, gc>>

BatchDelete(q) ==
  /\ req[q].op = "batch_delete"
  /\ \E b \in req[q].todo :
       /\ bookmark' = [bookmark EXCEPT ![b] = IF @ = "live" THEN "trash" ELSE @]
       /\ req' = [req EXCEPT ![q] = Rest(@, b)]
  /\ UNCHANGED <<folder, parent, home, gc>>

\* DELETE /bookmarks/:id is one statement; it also dates a deleted row anew.
DeleteBookmark(q) ==
  /\ req[q] = Idle
  /\ \E b \in Bookmarks :
       /\ bookmark[b] \in Stored
       /\ bookmark' = [bookmark EXCEPT ![b] = "trash"]
  /\ UNCHANGED <<folder, parent, home, req, gc>>

\* The folder to write has been collected meanwhile: the statement throws.
ForeignKeyFails(q) ==
  /\ req[q].to # Root /\ folder[req[q].to] \notin Stored
  /\ Done(q)
  /\ UNCHANGED <<rows, gc>>

Killed(q) ==
  /\ MayBeKilled /\ req[q] # Idle
  /\ Done(q)
  /\ UNCHANGED <<rows, gc>>

-----------------------------------------------------------------------------
\* runSoftDeleteGc

GcListBookmarks ==
  /\ gc.op \in {"idle", "failed"}
  /\ gc' = [NoGc EXCEPT !.op = "bookmarks",
                        !.todo = {b \in Bookmarks : bookmark[b] = "stale"}]
  /\ UNCHANGED <<rows, req>>

GcDeleteBookmark ==
  /\ gc.op = "bookmarks"
  /\ \E b \in gc.todo :
       /\ bookmark' = [bookmark EXCEPT ![b] = "gone"]
       /\ gc' = [gc EXCEPT !.todo = @ \ {b}]
  /\ UNCHANGED <<folder, parent, home, req>>

GcListFolders ==
  /\ gc.op = "bookmarks" /\ gc.todo = {}
  /\ LET stale == {f \in Folders \ {Inbox} : folder[f] = "stale"}
     IN gc' = [op |-> "folders", todo |-> stale, listed |-> stale]
  /\ UNCHANGED <<rows, req>>

\* How many of the listed folders f is in, itself included.
DepthIn(listed, f) ==
  LET climb[n \in Nat] ==
        IF n = 0 THEN f
        ELSE LET g == climb[n - 1] IN IF g \in listed THEN parent[g] ELSE g
  IN Cardinality(listed \cap {climb[i] : i \in 0..Cardinality(listed)})

NextToCollect_Any == gc.todo
NextToCollect ==
  {f \in gc.todo : \A g \in gc.todo : DepthIn(gc.listed, g) <= DepthIn(gc.listed, f)}

HasChildRow(f) == \E g \in Folders : folder[g] \in Stored /\ parent[g] = f
HasBookmarkRow(f) == \E b \in Bookmarks : bookmark[b] \in Stored /\ home[b] = f

\* A folder with child rows is skipped; a foreign key from a bookmark row makes
\* the DELETE throw, which ends the pass.
GcDeleteFolder ==
  /\ gc.op = "folders"
  /\ \E f \in NextToCollect :
       /\ HasChildRow(f) \/ ~HasBookmarkRow(f)
       /\ folder' = [folder EXCEPT ![f] = IF HasChildRow(f) THEN @ ELSE "gone"]
       /\ gc' = [gc EXCEPT !.todo = @ \ {f}]
  /\ UNCHANGED <<parent, bookmark, home, req>>

GcFails ==
  /\ gc.op = "folders"
  /\ \E f \in NextToCollect : ~HasChildRow(f) /\ HasBookmarkRow(f)
  /\ gc' = [NoGc EXCEPT !.op = "failed"]
  /\ UNCHANGED <<rows, req>>

GcEnds ==
  /\ gc.op = "folders" /\ gc.todo = {}
  /\ gc' = NoGc
  /\ UNCHANGED <<rows, req>>

\* 15 days go by: far longer than a request or a pass of the collector lives.
Older(row) == CASE row = "trash" -> "old" [] row = "old" -> "stale" [] OTHER -> row

FifteenDays ==
  /\ \A q \in Requests : req[q] = Idle
  /\ gc.op \in {"idle", "failed"}
  /\ folder' = [f \in Folders |-> Older(folder[f])]
  /\ bookmark' = [b \in Bookmarks |-> Older(bookmark[b])]
  /\ UNCHANGED <<parent, home, req, gc>>

-----------------------------------------------------------------------------
Begin(q) ==
  \/ CreateFolder(q) \/ UpdateFolder(q) \/ ReorderFolders(q) \/ DeleteFolder(q)
  \/ CreateBookmark(q) \/ UpdateBookmark(q) \/ EditBookmarks(q)

Statement(q) ==
  /\ \/ InsertFolder(q) \/ WriteParent(q) \/ ReorderNext(q)
     \/ MoveBookmarks(q) \/ MoveChildren(q)
     \/ CascadePop(q) \/ CascadeBookmarks(q) \/ CascadeFolder(q) \/ DeleteTop(q)
     \/ InsertBookmark(q) \/ WriteHome(q) \/ BatchDelete(q) \/ DeleteBookmark(q)
  /\ RefsExist'

Gc ==
  \/ GcListBookmarks \/ GcDeleteBookmark \/ GcListFolders
  \/ GcDeleteFolder \/ GcFails \/ GcEnds

Next ==
  \/ \E q \in Requests : Begin(q) \/ Statement(q) \/ ForeignKeyFails(q) \/ Killed(q)
  \/ Gc
  \/ FifteenDays

Spec == Init /\ [][Next]_vars

-----------------------------------------------------------------------------
\* Properties

\* A live bookmark is in a live folder: the client's tree shows every bookmark,
\* whichever way folders were deleted, moved or reordered.
HomeLive == \A b \in Bookmarks : bookmark[b] = "live" => folder[home[b]] = "live"

\* Between requests a live folder is at the top or in a live folder.
ParentLive ==
  (\A q \in Requests : req[q] = Idle) =>
    \A f \in Folders : folder[f] = "live" /\ parent[f] # Root => folder[parent[f]] = "live"

\* "Folder parent cycle detected": live folders never form a cycle.
NoCycle == \A f \in Folders : folder[f] = "live" => Up(f)[Cardinality(Folders)] = Root

\* What a client relies on after any sequence of requests.
TreeSound == HomeLive /\ ParentLive /\ NoCycle

\* The system folder is never moved nor deleted, whatever requests overlap and
\* wherever they are killed: every import and every new bookmark falls back on it.
InboxSafe == folder[Inbox] = "live" /\ parent[Inbox] = Root

\* The folders a pass listed and leaves behind for no reason.
LeftBehind == {f \in gc.listed : folder[f] = "stale" /\ ~HasChildRow(f) /\ ~HasBookmarkRow(f)}

\* A pass that comes to its end has collected stale subtrees whole, the deepest
\* folders first.
GcDeepestFirst == [][gc.op = "folders" /\ gc'.op = "idle" => LeftBehind = {}]_vars
=============================================================================
