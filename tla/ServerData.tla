------------------------------ MODULE ServerData ------------------------------
(***************************************************************************)
(* The rows of one user in the server runtime, and the requests that read  *)
(* and write them: folders, bookmarks, imports and the daily collector.    *)
(*                                                                         *)
(* A request has a session of its own and one transaction, committed when  *)
(* its handler has returned.  Reads see what is committed and what the     *)
(* session itself has flushed; changed rows are flushed before the next    *)
(* read.  On SQLite the first flush takes the one write lock until the     *)
(* commit, on Postgres (READ COMMITTED) each row is locked.  Reads between *)
(* two flushes are taken as one step.                                      *)
(***************************************************************************)
EXTENDS Integers, FiniteSets

CONSTANTS
  Folders, Bookmarks,      \* ids
  Inbox,                   \* the system folder of bootstrap
  Root,                    \* NULL, the parent_id of a top folder
  Same,                    \* a column that an UPDATE leaves alone
  Restores, Writers,       \* sessions that run a replace_all, and the others
  Seed,                    \* the origin of the rows that are there at first
  FolderOf, BookmarkOf,    \* the ids a session (or Seed) inserts under: uuids of its own
  MaxDepth,                \* MAX_DEPTH
  MaxRequests,             \* how many requests the Writers make
  MaxBatch,                \* how many ids the body of a request names
  Dialects                 \* "sqlite", "postgres" or both

Sessions == Restores \cup Writers
Origin == Sessions \cup {Seed}
Ids == Folders \cup Bookmarks

ASSUME InboxAssumption == Inbox \in Folders /\ Root \notin Ids /\ Same \notin Ids \cup {Root}
ASSUME IdsAssumption ==
  /\ Folders \cap Bookmarks = {} /\ Restores \cap Writers = {} /\ Seed \notin Sessions
  /\ FolderOf \in [Origin -> Folders \ {Inbox}] /\ BookmarkOf \in [Origin -> Bookmarks]
  /\ \A o, p \in Origin : FolderOf[o] = FolderOf[p] \/ BookmarkOf[o] = BookmarkOf[p] => o = p
ASSUME ModeAssumption == MaxDepth \in Nat \ {0} /\ {MaxRequests, MaxBatch} \subseteq Nat /\ Dialects \subseteq {"sqlite", "postgres"}

VARIABLES
  dialect,   \* of the database
  db,        \* the committed rows
  tx,        \* the rows that each session has written and not committed
  job,       \* what each session is doing
  result,    \* how the import of each of Restores has ended
  mixed,     \* have two requests ever overlapped?
  requests   \* made so far

vars == <<dialect, db, tx, job, result, mixed, requests>>

\* No row yet, deleted_at NULL, deleted up to 30 days ago and more than 30 days
\* ago, row removed by the collector.
State == {"none", "live", "trash", "stale", "gone"}
Stored == {"live", "trash", "stale"}

\* up is parent_id or folder_id.
Row == [st : State, up : Folders \cup {Root}]
Untouched == [st |-> "untouched", up |-> Root]

\* What an INSERT, UPDATE or DELETE does to a row: an UPDATE names the columns
\* whose values have changed.
Change == [st : State \cup {"same", "touched"}, up : Folders \cup {Root, Same}]
NoChange == [st |-> "same", up |-> Same]
NoPend == [i \in Ids |-> NoChange]
Inserted(up) == [st |-> "live", up |-> up]
Trashed == [st |-> "trash", up |-> Same]
Removed == [st |-> "gone", up |-> Same]
Touched == [st |-> "touched", up |-> Same]

Apply(row, c) == [st |-> IF c.st \in {"same", "touched"} THEN row.st ELSE c.st,
                  up |-> IF c.up = Same THEN row.up ELSE c.up]

Op == {"idle", "done", "cascade", "cascade_bookmarks", "reorder_folders",
       "move_bookmarks", "reorder_bookmarks", "delete_bookmarks",
       "replace_bookmarks", "replace_folders", "replace_create",
       "merge_folder", "merge_item", "gc_list", "gc_folders"}

\* The folder a request is about, the folder its rows go to, the ids that are
\* left of its list, the stack of a cascade and what follows it, and the
\* changes that are not flushed yet.
Job == [op : Op, at : Folders \cup {Root}, top : Folders \cup {Root}, to : Folders \cup {Root},
        todo : SUBSET Ids, stack : SUBSET Folders, then : {"done", "replace_folders"},
        pend : [Ids -> Change]]
Idle == [op |-> "idle", at |-> Root, top |-> Root, to |-> Root, todo |-> {}, stack |-> {},
         then |-> "done", pend |-> NoPend]
Done == [Idle EXCEPT !.op = "done"]

TypeOK ==
  /\ dialect \in Dialects
  /\ db \in [Ids -> Row]
  /\ tx \in [Sessions -> [Ids -> Row \cup {Untouched}]]
  /\ job \in [Sessions -> Job]
  /\ result \in [Restores -> {"running", "ok", "failed"}]
  /\ mixed \in BOOLEAN /\ requests \in 0..MaxRequests
  /\ \A b \in Bookmarks : db[b].st \in Stored => db[b].up \in Folders

Init ==
  /\ dialect \in Dialects
  /\ db = [i \in Ids |->
             IF i = Inbox THEN [st |-> "live", up |-> Root]
             ELSE IF i = FolderOf[Seed] THEN [st |-> "live", up |-> Root]
             ELSE IF i = BookmarkOf[Seed] THEN [st |-> "live", up |-> FolderOf[Seed]]
             ELSE [st |-> "none", up |-> Root]]
  /\ tx = [s \in Sessions |-> [i \in Ids |-> Untouched]]
  /\ job = [s \in Sessions |-> Idle]
  /\ result = [r \in Restores |-> "running"]
  /\ mixed = FALSE /\ requests = 0

-----------------------------------------------------------------------------
\* Reads

View(s) == [i \in Ids |-> IF tx[s][i] = Untouched THEN db[i] ELSE tx[s][i]]

Live(v, i) == i # Root /\ v[i].st = "live"
LiveChildren(v, f) == {g \in Folders : v[g].st = "live" /\ v[g].up = f}
LiveIn(v, f) == {b \in Bookmarks : v[b].st = "live" /\ v[b].up = f}

\* The walk to the top goes through deleted rows as well.
Up(v, f) ==
  LET walk[n \in Nat] ==
        IF n = 0 THEN f
        ELSE LET g == walk[n - 1]
             IN IF g # Root /\ v[g].st \in Stored THEN v[g].up ELSE Root
  IN walk

\* _depth: a longer chain than MaxDepth, or a circle, is refused.
DepthOk(v, p) == Up(v, p)[MaxDepth] = Root
NotDescendant_Parent(v, f, p) == p # f
NotDescendant(v, f, p) == \A n \in 0..MaxDepth : Up(v, p)[n] # f

\* get_folder, _assert_not_descendant and _depth for a new parent.
MayHold(v, p) == p # Root => Live(v, p) /\ DepthOk(v, p)
MayMove(v, f, p) == MayHold(v, p) /\ (p # Root => NotDescendant(v, f, p))

\* An object whose column is set to the value it has is not changed there.
Moved(v, i, p) == [st |-> "touched", up |-> IF v[i].up = p THEN Same ELSE p]

\* The ids in the body of a request: rows that the client has seen.
Named(ids) == ids # {} /\ Cardinality(ids) <= MaxBatch /\ \A i \in ids : db[i].st \in Stored

-----------------------------------------------------------------------------
\* The steps of a session: start, read on, flush, commit, fail.

Start(s, r) ==
  /\ job[s] = Idle
  /\ job' = [job EXCEPT ![s] = r]
  /\ mixed' = (mixed \/ \E t \in Sessions \ {s} : job[t] # Idle)
  /\ requests' = IF s \in Writers THEN requests + 1 ELSE requests
  /\ UNCHANGED <<dialect, db, tx, result>>

\* A read needs no lock; before it everything is flushed.
Reading(s, op) == job[s].op = op /\ job[s].pend = NoPend
Goes(s, r) == job' = [job EXCEPT ![s] = r] /\ UNCHANGED <<dialect, db, tx, result, mixed, requests>>

Pend(ids, c) == [i \in Ids |-> IF i \in ids THEN c ELSE NoChange]

Holds(t) == {i \in Ids : tx[t][i] # Untouched}
Changed(s) == {i \in Ids : job[s].pend[i] # NoChange}

\* SQLite has one writer.  On Postgres a row and the row it refers to must not be
\* in the hands of another session.
MayWrite(s) ==
  \A t \in Sessions \ {s} :
    IF dialect = "sqlite" THEN Holds(t) = {}
    ELSE /\ Changed(s) \cap Holds(t) = {}
         /\ \A i \in Changed(s) :
              /\ ~\E j \in Holds(t) : tx[t][j].st = "gone" /\ job[s].pend[i].up = j
              /\ job[s].pend[i].st = "gone" => ~\E j \in Holds(t) : tx[t][j].up = i

\* Foreign keys, and the count of rows that an UPDATE of the ORM expects.
RefsExist(v) == \A i \in Ids : v[i].st \in Stored /\ v[i].up # Root => v[v[i].up].st \in Stored

Flush(s) ==
  LET old == View(s)
      new == [i \in Ids |-> Apply(old[i], job[s].pend[i])]
  IN /\ job[s].pend # NoPend /\ MayWrite(s)
     /\ \A i \in Changed(s) : job[s].pend[i].st \in {"touched", "trash"} => old[i].st \in Stored
     /\ RefsExist(new)
     /\ tx' = [tx EXCEPT ![s] = [i \in Ids |-> IF i \in Changed(s) THEN new[i] ELSE @[i]]]
     /\ job' = [job EXCEPT ![s].pend = NoPend]
     /\ UNCHANGED <<dialect, db, result, mixed, requests>>

Ended(s, how) == [r \in Restores |-> IF r = s THEN how ELSE result[r]]

Commit_Early(s) ==
  /\ Reading(s, "done") \/ Reading(s, "replace_create")
  /\ db' = View(s)
  /\ tx' = [tx EXCEPT ![s] = [i \in Ids |-> Untouched]]
  /\ job' = [job EXCEPT ![s] = IF Reading(s, "done") THEN Idle ELSE @]
  /\ result' = IF Reading(s, "done") THEN Ended(s, "ok") ELSE result
  /\ UNCHANGED <<dialect, mixed, requests>>
Commit(s) ==
  /\ Reading(s, "done")
  /\ db' = View(s)
  /\ tx' = [tx EXCEPT ![s] = [i \in Ids |-> Untouched]]
  /\ job' = [job EXCEPT ![s] = Idle]
  /\ result' = Ended(s, "ok")
  /\ UNCHANGED <<dialect, mixed, requests>>

\* A refusal (404, 400), a statement that fails (foreign key, UNIQUE, a row that is
\* gone, "database is locked" after five seconds, a deadlock), a stop of the process.
Fails(s) ==
  /\ job[s] # Idle
  /\ tx' = [tx EXCEPT ![s] = [i \in Ids |-> Untouched]]
  /\ job' = [job EXCEPT ![s] = Idle]
  /\ result' = Ended(s, "failed")
  /\ UNCHANGED <<dialect, db, mixed, requests>>

-----------------------------------------------------------------------------
\* Folders

CreateFolder(s) ==
  LET f == FolderOf[s] IN
  \E p \in Folders \cup {Root} :
    /\ db[f].st = "none" /\ MayHold(db, p)
    /\ Start(s, [Done EXCEPT !.pend = Pend({f}, Inserted(p))])

\* PATCH /folders/:id with a new parent_id.
MayUpdate_System(f, p) == Live(db, f) /\ MayMove(db, f, p)
MayUpdate(f, p) == Live(db, f) /\ f # Inbox /\ MayMove(db, f, p)

UpdateFolder(s) ==
  \E f \in Folders, p \in Folders \cup {Root} :
    /\ p # db[f].up /\ MayUpdate(f, p)
    /\ Start(s, [Done EXCEPT !.pend = Pend({f}, Moved(db, f, p))])

\* DELETE /folders/:id: bookmarks of a top folder go to the Inbox.
BookmarksTo(f, mode) ==
  IF mode = "move_to_inbox" \/ db[f].up = Root THEN Inbox ELSE db[f].up
ChildrenTo(f, mode) == IF mode = "move_to_inbox" THEN Inbox ELSE db[f].up

DeleteFolder(s) ==
  \E f \in Folders \ {Inbox} :
    /\ Live(db, f)
    /\ \/ \E mode \in {"move_to_inbox", "move_to_parent"} :
            Start(s, [Done EXCEPT !.pend =
              [i \in Ids |-> IF i = f THEN Trashed
                             ELSE IF i \in LiveChildren(db, f) THEN Moved(db, i, ChildrenTo(f, mode))
                             ELSE IF i \in LiveIn(db, f) THEN Moved(db, i, BookmarksTo(f, mode))
                             ELSE NoChange]])
       \/ Start(s, [Idle EXCEPT !.op = "cascade", !.top = f, !.stack = {f}])

\* One turn of _cascade_soft_delete: pop a folder, then its children, then its bookmarks.
Kids(v, f) == LiveChildren(v, f) \ {Inbox}

CascadePop(s) ==
  /\ Reading(s, "cascade")
  /\ \E f \in job[s].stack :
       LET kids == Kids(View(s), f)
       IN Goes(s, [job[s] EXCEPT !.op = "cascade_bookmarks", !.at = f,
                                 !.stack = (@ \ {f}) \cup kids, !.pend = Pend(kids, Trashed)])

CascadeBookmarks(s) ==
  /\ Reading(s, "cascade_bookmarks")
  /\ Goes(s, [job[s] EXCEPT !.op = "cascade", !.at = Root,
                            !.pend = Pend(LiveIn(View(s), job[s].at), Trashed)])

CascadeEnd(s) ==
  /\ Reading(s, "cascade") /\ job[s].stack = {}
  /\ Goes(s, [job[s] EXCEPT !.op = job[s].then, !.top = Root, !.pend = Pend({job[s].top}, Trashed)])

ReorderFolders(s) ==
  \E ids \in SUBSET Folders, p \in Folders \cup {Root} :
    /\ Named(ids) /\ MayHold(db, p)
    /\ Start(s, [Idle EXCEPT !.op = "reorder_folders", !.to = p, !.todo = ids])

MayReorder(v, f, p) == Live(v, f) /\ (v[f].up = p \/ (f # Inbox /\ MayMove(v, f, p)))

\* The last id of a list ends the loop.
Rest(r, i) == IF r.todo = {i} THEN Done ELSE [r EXCEPT !.todo = @ \ {i}]

ReorderNext(s) ==
  /\ Reading(s, "reorder_folders")
  /\ \E f \in job[s].todo :
       /\ MayReorder(View(s), f, job[s].to)
       /\ Goes(s, [Rest(job[s], f) EXCEPT !.pend = Pend({f}, Moved(View(s), f, job[s].to))])

-----------------------------------------------------------------------------
\* Bookmarks

CreateBookmark(s) ==
  LET b == BookmarkOf[s] IN
  \E f \in Folders :
    /\ db[b].st = "none" /\ Live(db, f)
    /\ Start(s, [Done EXCEPT !.pend = Pend({b}, Inserted(f))])

\* PATCH and DELETE of one bookmark, reorder and batch of several: a list of one or more.
EditBookmarks(s) ==
  \E ids \in SUBSET Bookmarks, f \in Folders :
    /\ Named(ids)
    /\ \/ Start(s, [Idle EXCEPT !.op = "move_bookmarks", !.to = f, !.todo = ids])
       \/ Live(db, f) /\ Start(s, [Idle EXCEPT !.op = "reorder_bookmarks", !.to = f, !.todo = ids])
       \/ f = Inbox /\ Start(s, [Idle EXCEPT !.op = "delete_bookmarks", !.todo = ids])

\* get_bookmark, for each of the ids; update_bookmark also asks for the folder each time.
MoveNext(s) ==
  /\ \/ Reading(s, "move_bookmarks") /\ Live(View(s), job[s].to)
     \/ Reading(s, "reorder_bookmarks")
  /\ \E b \in job[s].todo :
       /\ Live(View(s), b)
       /\ Goes(s, [Rest(job[s], b) EXCEPT !.pend = Pend({b}, Moved(View(s), b, job[s].to))])

MayDelete(v, b) == Live(v, b)

DeleteNext(s) ==
  /\ Reading(s, "delete_bookmarks")
  /\ \E b \in job[s].todo :
       /\ MayDelete(View(s), b)
       /\ Goes(s, [Rest(job[s], b) EXCEPT !.pend = Pend({b}, Trashed)])

-----------------------------------------------------------------------------
\* import_data with replace_all: a file of one folder and one bookmark in it.

BeginReplace(r) ==
  /\ result[r] = "running"
  /\ Start(r, [Idle EXCEPT !.op = "replace_bookmarks", !.to = FolderOf[r],
                           !.then = "replace_folders", !.todo = {b \in Bookmarks : Live(db, b)}])

ReplaceBookmark(s) ==
  /\ Reading(s, "replace_bookmarks")
  /\ \E b \in job[s].todo :
       /\ Live(View(s), b)
       /\ Goes(s, [job[s] EXCEPT !.todo = @ \ {b}, !.pend = Pend({b}, Trashed)])

ReplaceListFolders(s) ==
  /\ Reading(s, "replace_bookmarks") /\ job[s].todo = {}
  /\ Goes(s, [job[s] EXCEPT !.op = "replace_folders",
                            !.todo = {f \in Folders \ {Inbox} : Live(View(s), f)}])

\* Sorted by depth there, in any order here; one that is deleted by now is skipped.
ReplaceFolder(s) ==
  /\ Reading(s, "replace_folders")
  /\ \E f \in job[s].todo :
       IF Live(View(s), f)
       THEN Goes(s, [job[s] EXCEPT !.todo = @ \ {f}, !.op = "cascade", !.top = f, !.stack = {f}])
       ELSE Goes(s, [job[s] EXCEPT !.todo = @ \ {f}])

ReplaceCreateFolder(s) ==
  /\ Reading(s, "replace_folders") /\ job[s].todo = {}
  /\ Goes(s, [job[s] EXCEPT !.op = "replace_create", !.pend = Pend({FolderOf[s]}, Inserted(Root))])

ReplaceCreateBookmark(s) ==
  /\ Reading(s, "replace_create") /\ Live(View(s), job[s].to)
  /\ Goes(s, [Done EXCEPT !.pend = Pend({BookmarkOf[s]}, Inserted(job[s].to))])

-----------------------------------------------------------------------------
\* import_data with merge or skip_duplicate: the live bookmarks are read once, then
\* each item finds or makes its folder and edits a bookmark of its URL or makes one.

BeginMerge(s) ==
  Start(s, [Idle EXCEPT !.op = "merge_folder", !.todo = {b \in Bookmarks : Live(db, b)}])

MergeFolder(s) ==
  LET v == View(s)
      f == FolderOf[s]
  IN /\ Reading(s, "merge_folder")
     /\ \/ \E g \in Folders :
             Live(v, g) /\ Goes(s, [job[s] EXCEPT !.op = "merge_item", !.to = g])
        \/ \E p \in Folders \cup {Root} :
             /\ v[f].st = "none" /\ MayHold(v, p)
             /\ Goes(s, [job[s] EXCEPT !.op = "merge_item", !.to = f,
                                       !.pend = Pend({f}, Inserted(p))])

MergeItem(s) ==
  LET v == View(s)
      b == BookmarkOf[s]
  IN /\ Reading(s, "merge_item") /\ Live(v, job[s].to)
     /\ \E next \in {Done, [job[s] EXCEPT !.op = "merge_folder", !.to = Root]} :
          \/ \E hit \in job[s].todo :
               /\ Live(v, hit)
               /\ Goes(s, [next EXCEPT !.todo = @ \ {hit},
                                       !.pend = Pend({hit}, Moved(v, hit, job[s].to))])
          \/ /\ v[b].st = "none"
             /\ Goes(s, [next EXCEPT !.pend = Pend({b}, Inserted(job[s].to))])

\* skip_duplicate, for an item with a hit.
SkipItem(s) ==
  /\ Reading(s, "merge_item") /\ job[s].todo # {}
  /\ Goes(s, Done)

-----------------------------------------------------------------------------
\* _run_soft_delete_gc, once at a time

BeginGc(s) ==
  /\ \A t \in Sessions : job[t].op \notin {"gc_list", "gc_folders"}
  /\ Start(s, [Idle EXCEPT !.op = "gc_list",
                           !.pend = Pend({b \in Bookmarks : db[b].st = "stale"}, Removed)])

GcListFolders(s) ==
  /\ Reading(s, "gc_list")
  /\ Goes(s, [job[s] EXCEPT !.op = "gc_folders",
                            !.todo = {f \in Folders \ {Inbox} : View(s)[f].st = "stale"}])

\* The pending folders that no row of folders has for its parent.
Leaves(v, pending) ==
  pending \ {v[f].up : f \in {g \in Folders : v[g].st \in Stored}}

GcDeleteLeaves_Once(s) ==
  LET leaves == Leaves(View(s), job[s].todo)
  IN /\ Reading(s, "gc_folders")
     /\ Goes(s, [job[s] EXCEPT !.op = "done", !.todo = @ \ leaves, !.pend = Pend(leaves, Removed)])
GcDeleteLeaves(s) ==
  LET leaves == Leaves(View(s), job[s].todo)
  IN /\ Reading(s, "gc_folders")
     /\ IF leaves = {}
        THEN Goes(s, [job[s] EXCEPT !.op = "done"])
        ELSE Goes(s, [job[s] EXCEPT !.todo = @ \ leaves, !.pend = Pend(leaves, Removed)])

\* 30 days go by: far longer than a request lives.
Older(row) == [row EXCEPT !.st = IF @ = "trash" THEN "stale" ELSE @]

ThirtyDays ==
  /\ \A s \in Sessions : job[s] = Idle
  /\ db' = [i \in Ids |-> Older(db[i])]
  /\ UNCHANGED <<dialect, tx, job, result, mixed, requests>>

-----------------------------------------------------------------------------
Begin(s) ==
  \/ CreateFolder(s) \/ UpdateFolder(s) \/ DeleteFolder(s) \/ ReorderFolders(s)
  \/ CreateBookmark(s) \/ EditBookmarks(s) \/ BeginMerge(s) \/ BeginGc(s)

ReadOn(s) ==
  \/ CascadePop(s) \/ CascadeBookmarks(s) \/ CascadeEnd(s) \/ ReorderNext(s)
  \/ MoveNext(s) \/ DeleteNext(s)
  \/ ReplaceBookmark(s) \/ ReplaceListFolders(s) \/ ReplaceFolder(s)
  \/ ReplaceCreateFolder(s) \/ ReplaceCreateBookmark(s)
  \/ MergeFolder(s) \/ MergeItem(s) \/ SkipItem(s)
  \/ GcListFolders(s) \/ GcDeleteLeaves(s)

Next ==
  \/ \E w \in Writers : requests < MaxRequests /\ Begin(w)
  \/ \E r \in Restores : BeginReplace(r)
  \/ \E s \in Sessions : ReadOn(s) \/ Flush(s) \/ Commit(s) \/ Fails(s)
  \/ ThirtyDays

Spec == Init /\ [][Next]_vars

-----------------------------------------------------------------------------
\* Properties

\* The system folder is never moved nor deleted, whatever requests overlap and
\* whichever of them fail.
InboxSafe == Live(db, Inbox) /\ db[Inbox].up = Root

\* As long as requests come one after the other, no live folder is below itself,
\* and live rows are below live folders.
TreeSound ==
  TypeOK /\ (~mixed =>
    \A i \in Ids : db[i].st = "live" =>
      /\ db[i].up # Root => db[db[i].up].st = "live"
      /\ i \in Folders => Up(db, i)[Cardinality(Folders)] = Root)

\* "Permanently purge soft-deleted bookmarks/folders older than 30 days": no row in
\* a stale folder is younger than it, so the foreign keys never refuse the whole
\* pass, as long as requests come one after the other.
GcNeverRefused ==
  ~mixed =>
    \A s \in Sessions, b \in Bookmarks :
      job[s].op = "gc_folders" /\ db[b].up # Root /\ db[db[b].up].st = "stale" =>
        db[b].st \in {"none", "stale", "gone"}

\* A pass that commits leaves no stale folder behind without a row that refers to it.
Referred(v, f) == \E i \in Ids : v[i].st \in Stored /\ v[i].up = f
GcWhole ==
  [][\A s \in Sessions :
       job[s].op = "done" /\ job[s].todo # {} /\ job'[s] = Idle /\ db' # db =>
         \A f \in job[s].todo \cap Folders : db'[f].st = "stale" => Referred(db', f)]_vars

\* The collector does its work: it is not refused, and it comes to the end of it.
GcWorks == []GcNeverRefused /\ GcWhole

\* replace_all keeps its promise: the live rows are swapped as a whole or not at all,
\* and only rows of overlapping requests stay beside the imported ones.
LiveItems ==
  {[kind |-> "folder", by |-> o] : o \in {p \in Origin : db[FolderOf[p]].st = "live"}} \cup
  {[kind |-> "bookmark", by |-> o] : o \in {p \in Origin : db[BookmarkOf[p]].st = "live"}}
Promise == INSTANCE ReplaceAll WITH live <- LiveItems
KeepsPromise == Promise!Spec
=============================================================================
