----------------------------- MODULE ImportMerge -----------------------------
(***************************************************************************)
(* The imports of the Worker runtime that keep what is there: strategies   *)
(* skip_duplicate and merge of POST /backup/import.                        *)
(*                                                                         *)
(* The handler makes the folders of the file and then goes through its     *)
(* bookmarks, statement by statement and without a transaction: it may be  *)
(* killed or fail anywhere, the user deletes bookmarks and folders         *)
(* meanwhile, and the file is imported again.                              *)
(***************************************************************************)
EXTENDS Integers, Sequences, FiniteSets, FiniteSetsExt

CONSTANTS
  Imports,      \* import requests, all of the same file
  Urls,         \* normalized URLs
  Exports,      \* ids of folders in native exports
  Paths,        \* folder paths, sequences of names, closed under prefixes
  Files,        \* the files that may be imported
  Libraries,    \* what may be there before: [folders |-> , bookmarks |-> ]
  MaxEdits      \* bound: how often the user deletes something

Root == 0       \* NULL, the parent_id of a top folder
Inbox == 1      \* the id of the system folder

\* A bookmark of a file: its folder by export id, and by path.
FileItem == [url : Urls, export : Exports \cup {"none"}, path : Paths \cup {<<>>}]

\* folderByExportId with parent_export_id, folderMeta by length of the path.
IsFile(f) ==
  /\ f.exports \subseteq Exports
  /\ f.up \in [Exports -> Exports \cup {"none"}]
  /\ f.paths \in Seq(Paths)
  /\ \A m, n \in 1..Len(f.paths) : m < n => Len(f.paths[m]) <= Len(f.paths[n]) /\ f.paths[m] # f.paths[n]
  /\ \A n \in 1..Len(f.paths) : \A k \in 1..Len(f.paths[n]) :
       \E m \in 1..n : f.paths[m] = SubSeq(f.paths[n], 1, k)
  /\ f.items \in Seq(FileItem)

FolderRow == [name : STRING, parent : Nat, live : BOOLEAN]
BookmarkRow == [url : Urls, home : Nat, live : BOOLEAN]

\* Bookmarks in folders, and folders after their parents, the Inbox among them.
IsLibrary(l) ==
  /\ l.folders \in Seq(FolderRow) /\ l.folders # <<>> /\ l.bookmarks \in Seq(BookmarkRow)
  /\ \A f \in DOMAIN l.folders : l.folders[f].parent < f
  /\ \A b \in DOMAIN l.bookmarks : l.bookmarks[b].home \in DOMAIN l.folders

ASSUME NamesAssumption == Exports \subseteq STRING /\ Paths \subseteq Seq(STRING)
ASSUME PathsAssumption ==
  \A p \in Paths : p # <<>> /\ \A k \in 1..Len(p) : SubSeq(p, 1, k) \in Paths
ASSUME FilesAssumption == \A f \in Files : IsFile(f)
ASSUME LibrariesAssumption == \A l \in Libraries : IsLibrary(l)
ASSUME EditsAssumption == MaxEdits \in Nat /\ "none" \notin Exports

VARIABLES
  file,        \* the file
  folders,     \* the rows in the order they were inserted; an id is a place
  bookmarks,   \* likewise, so that created_at grows with the id
  job,         \* where each import is
  removal,     \* DELETE /folders/:id
  edits,       \* how often the user has deleted something
  lost,        \* history: URLs the user deleted since the import started
  moved,       \* history: folders that the user deleted or moved
  alone        \* history: imports that no other one has overlapped

edited == <<removal, edits, lost, moved>>
vars == <<file, folders, bookmarks, job, edited, alone>>

Finished == {"ok", "failed"}
Running == {"identity", "rest", "walk", "create", "check", "lookup", "update", "insert"}

\* ids: folders made for export ids; cache: folderCache.  0 stands for none.
Job == [pc : {"idle"} \cup Running \cup Finished, strategy : {"skip_duplicate", "merge"},
        ids : [Exports -> Nat], cache : [Paths -> Nat],
        p : Nat, n : Nat, hit : Nat]

NoJob == [pc |-> "idle", strategy |-> "merge", ids |-> [e \in Exports |-> 0],
          cache |-> [q \in Paths |-> 0], p |-> 0, n |-> 0, hit |-> 0]
NoRemoval == [pc |-> "idle", at |-> Root, to |-> Root]

Ids == DOMAIN folders

\* Ids point at rows; a folder comes after its parent unless the user moved it.
TypeOK ==
  /\ file \in Files
  /\ folders \in Seq(FolderRow) /\ bookmarks \in Seq(BookmarkRow)
  /\ \A f \in Ids :
       /\ folders[f].parent \in {Root} \cup Ids
       /\ folders[f].parent < f \/ f \in moved
  /\ \A b \in DOMAIN bookmarks : bookmarks[b].home \in Ids
  /\ job \in [Imports -> Job]
  /\ \A i \in Imports :
       /\ \A e \in Exports : job[i].ids[e] \in {0} \cup Ids
       /\ \A q \in Paths : job[i].cache[q] \in {0} \cup Ids
       /\ job[i].pc = "update" => job[i].hit \in DOMAIN bookmarks
  /\ removal \in [pc : {"idle", "bookmarks", "folders", "folder"},
                  at : {Root} \cup Ids, to : {Root} \cup Ids]
  /\ edits \in 0..MaxEdits /\ lost \in [Imports -> SUBSET Urls] /\ moved \subseteq Ids
  /\ alone \subseteq Imports

Init ==
  /\ file \in Files
  /\ \E l \in Libraries : folders = l.folders /\ bookmarks = l.bookmarks
  /\ job = [i \in Imports |-> NoJob]
  /\ removal = NoRemoval
  /\ edits = 0 /\ lost = [i \in Imports |-> {}] /\ moved = {}
  /\ alone = Imports

-----------------------------------------------------------------------------
\* What the handler does between two statements.

\* The path that ensureFolderPath is at: of folderMeta first, then of the item.
Goal(j) == IF j.n = 0 THEN file.paths[j.p] ELSE file.items[j.n].path

\* The folders of the path that are not in the cache yet; the first is next.
Missing(j) == {k \in 1..Len(Goal(j)) : j.cache[SubSeq(Goal(j), 1, k)] = 0}
Prefix(j) == SubSeq(Goal(j), 1, Min(Missing(j)))
NameOf(q) == q[Len(q)]
ParentIn(j, q) == IF Len(q) = 1 THEN Root ELSE j.cache[SubSeq(q, 1, Len(q) - 1)]

\* Exported folders: those not made yet, and those of them whose parent is.
HasParent(e) == file.up[e] # "none" /\ file.up[e] \in file.exports
Left(j) == {e \in file.exports : j.ids[e] = 0}
Insertable(j) == {e \in Left(j) : HasParent(e) => j.ids[file.up[e]] # 0}

\* The folder of the item that the import is at.
ByExport(j) == file.items[j.n].export # "none" /\ j.ids[file.items[j.n].export] # 0
Target(j) ==
  IF ByExport(j) THEN j.ids[file.items[j.n].export]
  ELSE IF Goal(j) = <<>> THEN Inbox ELSE j.cache[Goal(j)]

\* The next item, or the end.
NextItem(j) ==
  LET k == [j EXCEPT !.n = @ + 1, !.hit = 0]
  IN IF k.n > Len(file.items) THEN [k EXCEPT !.pc = "ok"]
     ELSE [k EXCEPT !.pc = IF ByExport(k) \/ Missing(k) = {} THEN "check" ELSE "walk"]

\* After a folder of a path: the next one of it, the next path, or the item.
Onward(j) ==
  IF Missing(j) # {} THEN [j EXCEPT !.pc = "walk"]
  ELSE IF j.n > 0 THEN [j EXCEPT !.pc = "check"]
  ELSE IF j.p < Len(file.paths) THEN [j EXCEPT !.p = @ + 1, !.pc = "walk"]
  ELSE NextItem(j)

\* The folders by identity go on until none can be inserted below its parent.
AfterExported(j) ==
  IF Left(j) = {} THEN NextItem(j)
  ELSE [j EXCEPT !.pc = IF Insertable(j) = {} THEN "rest" ELSE "identity"]

\* Folders of the file by identity, or by path, or none at all.
Begun(s) ==
  LET j == [NoJob EXCEPT !.strategy = s]
  IN IF file.exports # {} THEN AfterExported(j)
     ELSE IF file.paths # <<>> THEN [j EXCEPT !.pc = "walk", !.p = 1]
     ELSE NextItem(j)

Busy == {i \in Imports : job[i].pc \in Running}

-----------------------------------------------------------------------------
\* importBookmarksFromParsed

StartImport(i) ==
  /\ job[i].pc = "idle"
  /\ \E s \in {"skip_duplicate", "merge"} : job' = [job EXCEPT ![i] = Begun(s)]
  /\ alone' = IF Busy = {} THEN alone ELSE alone \ (Busy \cup {i})
  /\ lost' = [lost EXCEPT ![i] = {}]
  /\ UNCHANGED <<file, folders, bookmarks, removal, edits, moved>>

\* ensureFoldersByIdentity: parents before children, as long as that goes on.
InsertExported(i) ==
  LET j == job[i]
  IN /\ j.pc = "identity"
     /\ \E e \in Insertable(j) :
          /\ folders' = Append(folders, [name |-> e, live |-> TRUE,
               parent |-> IF HasParent(e) THEN j.ids[file.up[e]] ELSE Root])
          /\ job' = [job EXCEPT ![i] = AfterExported([j EXCEPT !.ids[e] = Len(folders')])]
     /\ UNCHANGED <<file, bookmarks, edited, alone>>

\* Then those in a cycle, and under one, at the top.
InsertRest(i) ==
  LET j == job[i]
  IN /\ j.pc = "rest"
     /\ \E e \in Left(j) :
          /\ folders' = Append(folders, [name |-> e, parent |-> Root, live |-> TRUE])
          /\ LET k == [j EXCEPT !.ids[e] = Len(folders')]
             IN job' = [job EXCEPT ![i] = IF Left(k) = {} THEN NextItem(k) ELSE k]
     /\ UNCHANGED <<file, bookmarks, edited, alone>>

\* ensureFolderPath: SELECT, and INSERT when nothing is found.
Named_Anywhere(name, parent) == {f \in Ids : folders[f].live /\ folders[f].name = name}
Named(name, parent) ==
  {f \in Ids : folders[f].live /\ folders[f].name = name /\ folders[f].parent = parent}

FindFolder(i) ==
  LET j == job[i]
      q == Prefix(j)
      found == Named(NameOf(q), ParentIn(j, q))
  IN /\ j.pc = "walk" /\ found # {}
     /\ \E f \in found : job' = [job EXCEPT ![i] = Onward([j EXCEPT !.cache[q] = f])]
     /\ UNCHANGED <<file, folders, bookmarks, edited, alone>>

\* The INSERT comes a statement after the SELECT that has found nothing.
FindNoFolder(i) ==
  LET j == job[i]
      q == Prefix(j)
  IN /\ j.pc = "walk" /\ Named(NameOf(q), ParentIn(j, q)) = {}
     /\ job' = [job EXCEPT ![i].pc = "create"]
     /\ UNCHANGED <<file, folders, bookmarks, edited, alone>>

InsertFolder(i) ==
  LET j == job[i]
      q == Prefix(j)
  IN /\ j.pc = "create"
     /\ folders' = Append(folders, [name |-> NameOf(q), parent |-> ParentIn(j, q), live |-> TRUE])
     /\ job' = [job EXCEPT ![i] = Onward([j EXCEPT !.cache[q] = Len(folders')])]
     /\ UNCHANGED <<file, bookmarks, edited, alone>>

\* assertLiveFolder: 400, and what has been imported stays.
CheckFolder(i) ==
  LET j == job[i]
  IN /\ j.pc = "check"
     /\ job' = [job EXCEPT ![i].pc = IF folders[Target(j)].live THEN "lookup" ELSE "failed"]
     /\ UNCHANGED <<file, folders, bookmarks, edited, alone>>

\* The duplicate of a URL: one in the folder of the item, else the oldest; 0 for none.
Hits_Deleted(u) == {b \in DOMAIN bookmarks : bookmarks[b].url = u}
Hits(u) == {b \in DOMAIN bookmarks : bookmarks[b].url = u /\ bookmarks[b].live}
HitsIn(u, f) == {b \in Hits(u) : bookmarks[b].home = f}
First(hits) == IF hits = {} THEN 0 ELSE Min(hits)

Duplicate_Oldest(u, f) == First(Hits(u))
Duplicate(u, f) == First(IF HitsIn(u, f) # {} THEN HitsIn(u, f) ELSE Hits(u))

LookUp(i) ==
  LET j == job[i]
      hit == Duplicate(file.items[j.n].url, Target(j))
  IN /\ j.pc = "lookup"
     /\ job' = [job EXCEPT ![i] =
          IF hit = 0 THEN [j EXCEPT !.pc = "insert"]
          ELSE IF j.strategy = "merge" THEN [j EXCEPT !.pc = "update", !.hit = hit]
          ELSE NextItem(j)]
     /\ UNCHANGED <<file, folders, bookmarks, edited, alone>>

\* The UPDATE hits the row even when it has been deleted meanwhile.
Merged_InPlace(b, f) == bookmarks
Merged(b, f) == [bookmarks EXCEPT ![b].home = f]

UpdateBookmark(i) ==
  LET j == job[i]
  IN /\ j.pc = "update"
     /\ bookmarks' = Merged(j.hit, Target(j))
     /\ job' = [job EXCEPT ![i] = NextItem(j)]
     /\ UNCHANGED <<file, folders, edited, alone>>

InsertBookmark(i) ==
  LET j == job[i]
  IN /\ j.pc = "insert"
     /\ bookmarks' = Append(bookmarks, [url |-> file.items[j.n].url, home |-> Target(j), live |-> TRUE])
     /\ job' = [job EXCEPT ![i] = NextItem(j)]
     /\ UNCHANGED <<file, folders, edited, alone>>

\* D1 throws, in the statements on tags, index and op_logs too, or the Worker is
\* killed: nothing is undone.
ImportFails(i) ==
  /\ job[i].pc \in Running
  /\ job' = [job EXCEPT ![i].pc = "failed"]
  /\ UNCHANGED <<file, folders, bookmarks, edited, alone>>

-----------------------------------------------------------------------------
\* The user, meanwhile

DeleteBookmark ==
  /\ edits < MaxEdits /\ edits' = edits + 1
  /\ \E b \in DOMAIN bookmarks :
       /\ bookmarks[b].live
       /\ bookmarks' = [bookmarks EXCEPT ![b].live = FALSE]
       /\ lost' = [i \in Imports |-> lost[i] \cup {bookmarks[b].url}]
  /\ UNCHANGED <<file, folders, job, removal, moved, alone>>

\* Where the content of a deleted folder goes: one folder per mode.
MoveTo(f) == {Inbox} \cup ({folders[f].parent} \ {Root})

\* DELETE /folders/:id in the modes move_to_inbox and move_to_parent, statement by
\* statement: its bookmarks, its folders, itself.
DeleteFolder ==
  /\ removal = NoRemoval /\ edits < MaxEdits /\ edits' = edits + 1
  /\ \E f \in Ids \ {Inbox} :
       /\ folders[f].live
       /\ \E to \in MoveTo(f) : removal' = [pc |-> "bookmarks", at |-> f, to |-> to]
       /\ moved' = moved \cup {f}
  /\ UNCHANGED <<file, folders, bookmarks, job, lost, alone>>

MoveBookmarks ==
  /\ removal.pc = "bookmarks"
  /\ bookmarks' = [b \in DOMAIN bookmarks |->
       IF bookmarks[b].live /\ bookmarks[b].home = removal.at
       THEN [bookmarks[b] EXCEPT !.home = removal.to] ELSE bookmarks[b]]
  /\ removal' = [removal EXCEPT !.pc = "folders"]
  /\ UNCHANGED <<file, folders, job, edits, lost, moved, alone>>

MoveFolders ==
  /\ removal.pc = "folders"
  /\ LET kids == {f \in Ids : folders[f].live /\ folders[f].parent = removal.at}
     IN /\ folders' = [f \in Ids |->
             IF f \in kids THEN [folders[f] EXCEPT !.parent = removal.to] ELSE folders[f]]
        /\ moved' = moved \cup kids
  /\ removal' = [removal EXCEPT !.pc = "folder"]
  /\ UNCHANGED <<file, bookmarks, job, edits, lost, alone>>

RemoveFolder ==
  /\ removal.pc = "folder"
  /\ folders' = [folders EXCEPT ![removal.at].live = FALSE]
  /\ removal' = NoRemoval
  /\ UNCHANGED <<file, bookmarks, job, edits, lost, moved, alone>>

-----------------------------------------------------------------------------
ImportStep(i) ==
  \/ StartImport(i) \/ InsertExported(i) \/ InsertRest(i)
  \/ FindFolder(i) \/ FindNoFolder(i) \/ InsertFolder(i)
  \/ CheckFolder(i) \/ LookUp(i) \/ UpdateBookmark(i) \/ InsertBookmark(i)
  \/ ImportFails(i)

UserStep ==
  \/ DeleteBookmark \/ DeleteFolder \/ MoveBookmarks \/ MoveFolders \/ RemoveFolder

Next == (\E i \in Imports : ImportStep(i)) \/ UserStep

Spec == Init /\ [][Next]_vars

-----------------------------------------------------------------------------
\* Properties

\* Going up from e in the file never ends.
Caught(e) ==
  \E above \in SUBSET file.exports :
    e \in above /\ \A x \in above : HasParent(x) /\ file.up[x] \in above

\* "Recreate folders by export id": whatever order they come in and whatever is
\* missing or circular, the folders form the tree of the file.
IdentityTree ==
  \A i \in Imports, e \in file.exports :
    LET f == job[i].ids[e]
    IN f # 0 /\ f \notin moved =>
         folders[f].parent = IF HasParent(e) /\ ~Caught(e) THEN job[i].ids[file.up[e]] ELSE Root

\* A path in the cache stands for a folder with this path, though folders in
\* different places have the same name.
PathTrue ==
  TypeOK /\ \A i \in Imports, q \in Paths :
    LET f == job[i].cache[q]
    IN f # 0 /\ f \notin moved =>
         folders[f].name = NameOf(q) /\ folders[f].parent = ParentIn(job[i], q)

\* Both: the folders an import works with are those its file names.
FoldersTrue == IdentityTree /\ PathTrue

Ends(i) == job[i].pc # "ok" /\ job'[i].pc = "ok"

UrlsOf == {file.items[n].url : n \in 1..Len(file.items)}
IsLive(u) == \E b \in DOMAIN bookmarks : bookmarks[b].live /\ bookmarks[b].url = u

\* The last item of the file with this URL.
LastOf(u) == Max({n \in 1..Len(file.items) : file.items[n].url = u})
Lands(i, u) ==
  LET f == Target([job[i] EXCEPT !.n = LastOf(u)])
  IN f \in moved \/ HitsIn(u, f) # {}

\* An import that reports success has left every URL of its file live, but for those
\* the user deleted meanwhile, even next to another import.  A merge that is alone
\* puts each into the folder that the file says, and is not led astray by duplicates.
Arrives ==
  [][\A i \in Imports : Ends(i) =>
       (\A u \in UrlsOf \ lost[i] :
          IsLive(u) /\ (i \in alone /\ job[i].strategy = "merge" => Lands(i, u)))']_vars

\* An import that nobody overlaps inserts no bookmark next to a live duplicate: a
\* file is imported again after a failure without doubling what is there.
NoTwins ==
  [][\A i \in alone : Len(bookmarks') > Len(bookmarks) /\ job'[i] # job[i] =>
       ~IsLive(bookmarks'[Len(bookmarks')].url)]_vars

\* The live folders with a path: below is the way down to one of them.
At(q) ==
  {f \in Ids : \E below \in [1..Len(q) -> Ids] :
     /\ below[Len(q)] = f
     /\ \A k \in 1..Len(q) :
          LET row == folders[below[k]]
          IN row.live /\ row.name = q[k] /\ row.parent = IF k = 1 THEN Root ELSE below[k - 1]}

AtHome(item) ==
  LET homes == IF item.path = <<>> THEN {Inbox} ELSE At(item.path)
  IN homes # {} /\ \A f \in homes : HitsIn(item.url, f) # {}

\* What a file says that is already so stays as it is, duplicates in different
\* folders included: to import an export by path changes nothing.
RoundTrip ==
  [][\A i \in alone :
       /\ job'[i] # job[i] /\ moved = {} /\ file.exports = {}
       /\ \A n \in 1..Len(file.items) : AtHome(file.items[n])
       => UNCHANGED bookmarks]_vars

\* Both: a file that is imported again changes only what is not as it says.
Repeatable == NoTwins /\ RoundTrip
=============================================================================
