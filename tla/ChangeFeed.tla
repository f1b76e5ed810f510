------------------------------ MODULE ChangeFeed ------------------------------
(***************************************************************************)
(* Requests that change rows of the library one after the other or at the  *)
(* same time, their rows of op_logs, and the client of GET /changes.       *)
(*                                                                         *)
(* A request reads, changes rows by one statement or more, and logs one    *)
(* row last.  The row need not have what was changed: some rows have every *)
(* column, some one, and some only say that something was done.            *)
(***************************************************************************)
EXTENDS Library, Sequences

CONSTANTS
  Writers,          \* requests that write
  Libraries,        \* what the library may be at first
  Orders,           \* ordered_ids of a reorder
  Items,            \* what an import file has of a bookmark; the folder is Root for none
  MaxWrites,        \* how many requests write
  FeedSize          \* rows of a page of the feed (500 in the code)

ASSUME FeedAssumption ==
  /\ \A l \in Libraries : l.folder \in [Folders -> FolderRow] /\ l.bookmark \in [Bookmarks -> BookmarkRow]
  /\ IsFiniteSet(Writers) /\ MaxWrites \in Nat /\ FeedSize \in Nat \ {0}
\* A page orders some bookmarks, each once.
ASSUME OrdersAssumption ==
  \A o \in Orders : /\ o \in Seq(Bookmarks) /\ o # <<>>
                    /\ \A i, j \in 1..Len(o) : i - 1 \in Places /\ (o[i] = o[j] => i = j)
ASSUME ItemsAssumption == Items \subseteq [in : Folders \cup {Root}, archived : BOOLEAN, place : Places]

VARIABLES
  folder,    \* the rows of folders
  bookmark,  \* the rows of bookmarks
  fresh,     \* ids that no bookmark has had yet
  writer,    \* what each writing request is doing
  op,        \* op_logs, by id
  writes,    \* writing requests so far
  feed,      \* a client of the feed
  copy,      \* history: the bookmarks as one has them who read them at first and then every row
  doubt,     \* history: the columns that a row only said to be changed, or none has told
  overlaid   \* history: bookmarks whose writes overlapped, or were not logged

library == <<folder, bookmark>>
told == <<copy, doubt>>
feedVars == <<library, fresh, writer, op, writes, feed, told, overlaid>>

Columns == {"in", "vis", "archived", "live", "place", "url"}
AsVisibility(v) == IF v \in Visibilities THEN v ELSE "private"
Modes == {"move_to_parent", "move_to_inbox", "cascade_soft_delete"}

\* Rows of op_logs.  cols: the columns that the snapshot has, as the request has them.
LoggedRow == [in : Folders, vis : Visibilities \cup {"other"}, archived : BOOLEAN, live : BOOLEAN,
              place : Places, url : Spellings]
OfBookmark == [entity : {"bookmark"}, id : Bookmarks, row : LoggedRow, cols : SUBSET Columns, merged : BOOLEAN]
OfFolder == [entity : {"folder"}, id : Folders, mode : {"update"} \cup Modes]
OfOrder == [entity : {"reorder"}, id : Folders \cup {Root}, order : Orders]
Snapshots == OfBookmark \cup OfFolder \cup OfOrder

\* at: the bookmarks that the request has changed so far or, with a PATCH, has read; say: the
\* row that it is going to log.
NoWriter == [pc |-> "idle", at |-> {}]
Writing == [pc : {"write"}, at : SUBSET Bookmarks, say : OfBookmark, row : BookmarkRow, set : SUBSET Columns]
Placing == [pc : {"place"}, at : SUBSET Bookmarks, say : OfOrder, next : Nat]
Deleting == [pc : {"move", "lift", "pop", "empty", "drop", "top"}, at : SUBSET Bookmarks, say : OfFolder,
             to : Folders, todo : SUBSET Folders, now : Folders]
Logging == [pc : {"log"}, at : SUBSET Bookmarks, say : Snapshots]

FeedTypeOK ==
  /\ folder \in [Folders -> FolderRow] /\ bookmark \in [Bookmarks -> BookmarkRow]
  /\ fresh \subseteq Bookmarks
  /\ writer \in [Writers -> {NoWriter} \cup Writing \cup Placing \cup Deleting \cup Logging]
  /\ op \in Seq(Snapshots)
  /\ Len(op) <= writes /\ writes \in 0..MaxWrites
  /\ feed \in [cursor : 0..Len(op), got : SUBSET (1..Len(op))]
  /\ DOMAIN copy = Bookmarks /\ doubt \in [Bookmarks -> SUBSET Columns]
  /\ overlaid \subseteq Bookmarks

FeedInit ==
  /\ \E l \in Libraries : folder = l.folder /\ bookmark = l.bookmark
  /\ fresh = {b \in Bookmarks : ~bookmark[b].live}
  /\ writer = [w \in Writers |-> NoWriter]
  /\ op = <<>> /\ writes = 0
  /\ feed = [cursor |-> 0, got |-> {}]
  /\ copy = bookmark /\ doubt = [b \in Bookmarks |-> IF b \in fresh THEN Columns \ {"live"} ELSE {}]
  /\ overlaid = {}

\* deleted_at IS NULL
FoldersOf(l) == [f \in {g \in Folders : l[1][g].live} |-> l[1][f]]
LiveFolders == DOMAIN FoldersOf(library)

-----------------------------------------------------------------------------
\* Writes

Goes(w, r) == writer' = [writer EXCEPT ![w] = r]
Logs(w, at) == Goes(w, [pc |-> "log", at |-> at, say |-> writer[w].say])
Touches(w, bs) ==
  overlaid' = overlaid \cup {b \in bs : \E v \in Writers \ {w} : b \in writer[v].at}
Starts(w) ==
  /\ writer[w].pc = "idle" /\ writes < MaxWrites /\ writes' = writes + 1
  /\ UNCHANGED <<op, feed, told>>
GoesOn == UNCHANGED <<fresh, op, writes, feed, told>>

Snap(b, row, cols) == [entity |-> "bookmark", id |-> b, row |-> row, cols |-> cols, merged |-> FALSE]

\* What one PATCH asks of a row.
Changes(r) ==
  {[r EXCEPT !.in = f] : f \in LiveFolders} \cup {[r EXCEPT !.vis = v] : v \in Visibilities}
  \cup {[r EXCEPT !.archived = a] : a \in BOOLEAN} \cup {[r EXCEPT !.place = n] : n \in Places}

\* PATCH /bookmarks/:id up to its UPDATE, which sets every column but deleted_at
ReadBookmark(w) ==
  /\ Starts(w)
  /\ \E b \in Bookmarks : \E r \in Changes(bookmark[b]) \ {bookmark[b]} :
       /\ bookmark[b].live
       /\ Goes(w, [pc |-> "write", at |-> {b}, say |-> Snap(b, r, Columns), row |-> r, set |-> Columns \ {"live"}])
       /\ Touches(w, {b})
  /\ UNCHANGED <<library, fresh>>

\* A step of a batch: one column is set, and the log names that one, with the visibility as
\* it was asked for.
Asked(r) ==
  {<<"in", [r EXCEPT !.in = f]>> : f \in LiveFolders} \cup {<<"archived", [r EXCEPT !.archived = a]>> : a \in BOOLEAN}
  \cup {<<"vis", [r EXCEPT !.vis = v]>> : v \in Visibilities \cup {"other"}}
BatchBookmark(w) ==
  /\ Starts(w)
  /\ \E b \in Bookmarks : \E a \in Asked(bookmark[b]) :
       /\ bookmark[b].live /\ a[2] # bookmark[b]
       /\ Goes(w, [pc |-> "write", at |-> {}, say |-> Snap(b, a[2], {a[1]}),
                   row |-> [a[2] EXCEPT !.vis = AsVisibility(@)], set |-> {a[1]}])
  /\ UNCHANGED <<library, fresh, overlaid>>

\* An import with the strategy merge finds the bookmark by its URL.
MergeBookmark(w) ==
  /\ Starts(w)
  /\ \E b \in Bookmarks, item \in Items :
       /\ bookmark[b].live /\ item.in \in LiveFolders \cup {Root}
       /\ Goes(w, [pc |-> "write", at |-> {}, say |-> [Snap(b, bookmark[b], {}) EXCEPT !.merged = TRUE],
                   row |-> [bookmark[b] EXCEPT !.in = IF item.in = Root THEN @ ELSE item.in,
                                               !.archived = item.archived, !.place = item.place],
                   set |-> {"archived", "place"} \cup (IF item.in = Root THEN {} ELSE {"in"})])
  /\ UNCHANGED <<library, fresh, overlaid>>

Over(r, set, s) ==
  LET Of(c) == IF c \in set THEN r[c] ELSE s[c]
  IN [in |-> Of("in"), vis |-> Of("vis"), archived |-> Of("archived"), live |-> Of("live"),
      place |-> Of("place"), url |-> Of("url")]
WriteBookmark(w) ==
  /\ writer[w].pc = "write"
  /\ LET b == writer[w].say.id
     IN /\ bookmark' = [bookmark EXCEPT ![b] = Over(writer[w].row, writer[w].set, @)]
        /\ Logs(w, writer[w].at \cup {b}) /\ Touches(w, {b})
  /\ GoesOn /\ UNCHANGED folder

\* POST /bookmarks, and an import that finds no bookmark: its row has no visibility.
CreateBookmark(w) ==
  /\ Starts(w)
  /\ \E b \in fresh, f \in LiveFolders, v \in Visibilities, cols \in {Columns, Columns \ {"vis"}} :
       LET r == [bookmark[b] EXCEPT !.live = TRUE, !.in = f, !.vis = v]
       IN /\ bookmark' = [bookmark EXCEPT ![b] = r] /\ fresh' = fresh \ {b}
          /\ Goes(w, [pc |-> "log", at |-> {b}, say |-> Snap(b, r, cols)])
  /\ UNCHANGED <<folder, overlaid>>

\* DELETE /bookmarks/:id, and a step of a batch that deletes
DeleteBookmark(w) ==
  /\ Starts(w)
  /\ \E b \in Bookmarks \ fresh :
       LET r == [bookmark[b] EXCEPT !.live = FALSE]
       IN /\ bookmark' = [bookmark EXCEPT ![b] = r]
          /\ Goes(w, [pc |-> "log", at |-> {b}, say |-> Snap(b, r, {"live"})])
          /\ Touches(w, {b})
  /\ UNCHANGED <<folder, fresh>>

\* POST /bookmarks/reorder, within a folder or without one
Reorder(w) ==
  /\ Starts(w)
  /\ \E o \in Orders, f \in LiveFolders \cup {Root} :
       /\ \A i \in 1..Len(o) : o[i] \notin fresh
       /\ Goes(w, [pc |-> "place", at |-> {}, say |-> [entity |-> "reorder", id |-> f, order |-> o], next |-> 1])
  /\ UNCHANGED <<library, fresh, overlaid>>

PlaceBookmark(w) ==
  /\ writer[w].pc = "place"
  /\ LET s == writer[w].say
         i == writer[w].next
         b == s.order[i]
         at == writer[w].at \cup {b}
         r == [bookmark[b] EXCEPT !.place = i - 1, !.in = IF s.id = Root THEN @ ELSE s.id]
     IN /\ bookmark' = [bookmark EXCEPT ![b] = r]
        /\ IF i < Len(s.order) THEN Goes(w, [writer[w] EXCEPT !.next = i + 1, !.at = at]) ELSE Logs(w, at)
        /\ Touches(w, {b})
  /\ GoesOn /\ UNCHANGED folder

\* PATCH /folders/:id: its visibility or its parent; the log has the name.
EditFolder(w) ==
  /\ Starts(w)
  /\ \E f \in LiveFolders \ {Inbox} :
       /\ \/ \E v \in Visibilities : folder' = [folder EXCEPT ![f].vis = v]
          \/ \E p \in LiveFolders \cup {Root} :
               f \notin Chain(FoldersOf(library), p) /\ folder' = [folder EXCEPT ![f].up = p]
       /\ folder' # folder
       /\ Goes(w, [pc |-> "log", at |-> {}, say |-> [entity |-> "folder", id |-> f, mode |-> "update"]])
  /\ UNCHANGED <<bookmark, fresh, overlaid>>

-----------------------------------------------------------------------------
\* DELETE /folders/:id, by its statements: the log names the folder and the mode.

TargetParent(f, mode) == IF mode = "move_to_inbox" \/ folder[f].up = Root THEN Inbox ELSE folder[f].up
DeleteFolder(w) ==
  /\ Starts(w)
  /\ \E f \in LiveFolders \ {Inbox}, mode \in Modes :
       Goes(w, [pc |-> IF mode = "cascade_soft_delete" THEN "pop" ELSE "move", at |-> {},
                say |-> [entity |-> "folder", id |-> f, mode |-> mode],
                to |-> TargetParent(f, mode), todo |-> {f}, now |-> f])
  /\ UNCHANGED <<library, fresh, overlaid>>

LiveIn(f) == {b \in Bookmarks : bookmark[b].live /\ bookmark[b].in = f}
LiveBelow(f) == {g \in Folders : folder[g].live /\ folder[g].up = f}
Buried(f) == folder' = [folder EXCEPT ![f].live = FALSE]

MoveBookmarks(w) ==
  /\ writer[w].pc = "move"
  /\ LET bs == LiveIn(writer[w].say.id)
     IN /\ bookmark' = [b \in Bookmarks |-> IF b \in bs THEN [bookmark[b] EXCEPT !.in = writer[w].to] ELSE bookmark[b]]
        /\ Goes(w, [writer[w] EXCEPT !.pc = "lift", !.at = @ \cup bs]) /\ Touches(w, bs)
  /\ GoesOn /\ UNCHANGED folder

MoveChildren(w) ==
  /\ writer[w].pc = "lift"
  /\ LET kids == LiveBelow(writer[w].say.id)
     IN folder' = [g \in Folders |-> IF g \in kids THEN [folder[g] EXCEPT !.up = writer[w].to] ELSE folder[g]]
  /\ Goes(w, [writer[w] EXCEPT !.pc = "top"])
  /\ GoesOn /\ UNCHANGED <<bookmark, overlaid>>

CascadePop(w) ==
  /\ writer[w].pc = "pop"
  /\ \E f \in writer[w].todo :
       Goes(w, [writer[w] EXCEPT !.pc = "empty", !.now = f, !.todo = (@ \ {f}) \cup LiveBelow(f)])
  /\ GoesOn /\ UNCHANGED <<library, overlaid>>

Turn(todo) == IF todo = {} THEN "top" ELSE "pop"
CascadeBookmarks(w) ==
  /\ writer[w].pc = "empty"
  /\ LET bs == LiveIn(writer[w].now)
         pc == IF writer[w].now = writer[w].say.id THEN Turn(writer[w].todo) ELSE "drop"
     IN /\ bookmark' = [b \in Bookmarks |-> IF b \in bs THEN [bookmark[b] EXCEPT !.live = FALSE] ELSE bookmark[b]]
        /\ Goes(w, [writer[w] EXCEPT !.pc = pc, !.at = @ \cup bs]) /\ Touches(w, bs)
  /\ GoesOn /\ UNCHANGED folder

CascadeFolder(w) ==
  /\ writer[w].pc = "drop"
  /\ Buried(writer[w].now) /\ Goes(w, [writer[w] EXCEPT !.pc = Turn(writer[w].todo)])
  /\ GoesOn /\ UNCHANGED <<bookmark, overlaid>>

DeleteTop(w) ==
  /\ writer[w].pc = "top"
  /\ Buried(writer[w].say.id) /\ Logs(w, writer[w].at)
  /\ GoesOn /\ UNCHANGED <<bookmark, overlaid>>

FolderStep(w) ==
  \/ DeleteFolder(w) \/ MoveBookmarks(w) \/ MoveChildren(w) \/ CascadePop(w) \/ CascadeBookmarks(w)
  \/ CascadeFolder(w) \/ DeleteTop(w)

-----------------------------------------------------------------------------
\* op_logs

\* The columns of a bookmark that a row tells, what it tells of one, and those of which it
\* tells only that they may be others now.
Says(s, b) ==
  {c \in Columns :
     \/ s.entity = "bookmark" /\ s.id = b /\ c \in s.cols
     \/ /\ s.entity = "reorder" /\ \E i \in 1..Len(s.order) : s.order[i] = b
        /\ c = "place" \/ (c = "in" /\ s.id # Root)}
Word(s, b, c) ==
  IF s.entity = "reorder" THEN (IF c = "in" THEN s.id ELSE (CHOOSE i \in 1..Len(s.order) : s.order[i] = b) - 1)
  ELSE IF c = "vis" THEN AsVisibility(s.row.vis) ELSE s.row[c]
Hints(s, b) ==
  {c \in Columns :
     \/ s.entity = "bookmark" /\ s.id = b /\ s.merged /\ c \in {"in", "archived", "place"}
     \/ s.entity = "folder" /\ s.mode = "cascade_soft_delete" /\ c = "live"
     \/ s.entity = "folder" /\ s.mode \in {"move_to_parent", "move_to_inbox"} /\ c = "in" /\ copy[b].in = s.id}

\* writeOp, and what its row tells whoever follows the feed
Snapshot_Live(w) ==
  LET s == writer[w].say IN IF s.entity = "bookmark" THEN [s EXCEPT !.row.live = TRUE] ELSE s
Snapshot(w) == writer[w].say
WriteOp(w) ==
  /\ writer[w].pc = "log"
  /\ LET s == Snapshot(w)
     IN /\ op' = Append(op, s)
        /\ copy' = [b \in Bookmarks |-> [c \in Columns |-> IF c \in Says(s, b) THEN Word(s, b, c) ELSE copy[b][c]]]
        /\ doubt' = [b \in Bookmarks |-> (doubt[b] \ Says(s, b)) \cup Hints(s, b)]
  /\ Goes(w, NoWriter)
  /\ UNCHANGED <<library, fresh, writes, feed, overlaid>>

\* The Worker is killed, or a statement fails: what was changed so far is not logged.
Killed(w) ==
  /\ writer[w].pc # "idle"
  /\ Goes(w, NoWriter)
  /\ overlaid' = IF writer[w].pc = "write" THEN overlaid ELSE overlaid \cup writer[w].at
  /\ GoesOn /\ UNCHANGED library

-----------------------------------------------------------------------------
\* GET /changes by a client that does it again and again, with the cursor that the last answer gave.

NextCursor(rows) == IF rows = {} THEN feed.cursor ELSE CHOOSE n \in rows : \A m \in rows : m <= n
Poll ==
  LET rows == {n \in 1..Len(op) : n > feed.cursor /\ n <= feed.cursor + FeedSize}
  IN /\ feed' = [cursor |-> NextCursor(rows), got |-> feed.got \cup rows]
     /\ UNCHANGED <<library, fresh, writer, op, writes, told, overlaid>>

WriterStep(w) ==
  \/ ReadBookmark(w) \/ BatchBookmark(w) \/ MergeBookmark(w) \/ WriteBookmark(w)
  \/ CreateBookmark(w) \/ DeleteBookmark(w) \/ Reorder(w) \/ PlaceBookmark(w)
  \/ EditFolder(w) \/ FolderStep(w) \/ WriteOp(w) \/ Killed(w)
FeedNext == (\E w \in Writers : WriterStep(w)) \/ Poll

FeedSpec == FeedInit /\ [][FeedNext]_feedVars

-----------------------------------------------------------------------------
\* Properties

\* "cursor": a client of the feed has every row up to its cursor.
FeedComplete == feed.got = 1..feed.cursor

\* Whoever read the bookmarks at first and took every row since for what it says, a visibility
\* as asVisibility has it, knows each bookmark as it is, but for the columns of which a row
\* said only that they may be others: where an import merged ({id, merged: true}), what was in
\* a deleted folder ({id, mode}), and the visibility of an imported bookmark, which no row has.
\* That is so of every bookmark whose requests have ended, each before the next, and none of
\* them killed between a change and its row.
FeedTruthful ==
  \A b \in Bookmarks \ overlaid :
    (\A w \in Writers : b \notin writer[w].at) =>
      \A c \in Columns \ doubt[b] : copy[b][c] = bookmark[b][c]

\* The feed leaves out no row, and no change that its rows do not at least announce.
FeedSound == FeedComplete /\ FeedTruthful
=============================================================================
