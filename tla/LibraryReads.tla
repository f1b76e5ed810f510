----------------------------- MODULE LibraryReads -----------------------------
(***************************************************************************)
(* The requests that read the library: /nav/public, /nav/home, the exports *)
(* and the change feed.  Each is several statements without a transaction, *)
(* and the requests of other clients (ChangeFeed) write rows in between.   *)
(***************************************************************************)
EXTENDS PageView, ChangeFeed

CONSTANTS
  PageSize,         \* rows of a page of the server's export (2000 in the code)
  Beside            \* how many requests write next to a read of a kind

ASSUME PageAssumption == PageSize \in Nat \ {0}

VARIABLES
  rd,        \* the request that reads
  moments    \* history: the library at every moment of that request

vars == <<feedVars, rd, moments>>

\* /nav/public and /nav/home make the same reads.
Kinds == {"nav", "export", "server", "feed"}
Started(k) == [kind |-> k, todo |-> IF k = "feed" THEN {} ELSE {"folders", "bookmarks"},
               fs |-> <<>>, bs |-> <<>>, offset |-> 0]

TypeOK ==
  /\ FeedTypeOK
  /\ rd.kind \in Kinds /\ rd.todo \subseteq {"folders", "bookmarks"}
  /\ DOMAIN rd.fs \subseteq Folders /\ DOMAIN rd.bs \subseteq Bookmarks
  /\ \A l \in moments : l[1] \in [Folders -> FolderRow] /\ l[2] \in [Bookmarks -> BookmarkRow]

Init ==
  /\ FeedInit
  /\ \E k \in Kinds : rd = Started(k)
  /\ moments = {library}

\* deleted_at IS NULL
RowsOf(l) == [b \in {c \in Bookmarks : l[2][c].live} |-> l[2][b]]

-----------------------------------------------------------------------------
\* The history goes on with the library as it is after the step; Beside bounds the requests
\* that write next to a read, by its kind.  What is written after the
\* answer is no matter of the request, and op_logs is read by the feed alone: next to the
\* other reads, a request that has changed its row, or was killed before, stays where it is.
Answered == rd.kind # "feed" /\ rd.todo = {}
Remembered == moments' = moments \cup (IF rd.kind = "feed" THEN {} ELSE {library'})
Write(w) ==
  /\ ~Answered /\ WriterStep(w)
  /\ rd.kind # "feed" => writer'[w].pc # "idle"
  /\ writes' <= Beside[rd.kind]
  /\ Remembered /\ UNCHANGED rd

-----------------------------------------------------------------------------
\* Reads

\* The Worker's export reads the bookmarks first, as the server does for a CSV;
\* everything else reads the folders first.
ReadFolders ==
  /\ "folders" \in rd.todo /\ (rd.kind = "export" => "bookmarks" \notin rd.todo)
  /\ rd.kind = "server" => rd.offset = 0 \/ "bookmarks" \notin rd.todo
  /\ rd' = [rd EXCEPT !.todo = @ \ {"folders"}, !.fs = FoldersOf(library)]
  /\ UNCHANGED <<feedVars, moments>>

ReadBookmarks ==
  /\ "bookmarks" \in rd.todo /\ rd.kind # "server"
  /\ (rd.kind # "export" => "folders" \notin rd.todo)
  /\ rd' = [rd EXCEPT !.todo = @ \ {"bookmarks"}, !.bs = RowsOf(library)]
  /\ UNCHANGED <<feedVars, moments>>

\* iter_all_bookmarks: ORDER BY sort_order, created_at with LIMIT and OFFSET.  A
\* bookmark that comes twice is kept as it came last.
Before(bs, b, c) == bs[b].place < bs[c].place \/ (bs[b].place = bs[c].place /\ b < c)
Page(bs, offset) ==
  {b \in DOMAIN bs : Cardinality({c \in DOMAIN bs : Before(bs, c, b)}) \in offset..offset + PageSize - 1}

ReadPage ==
  /\ rd.kind = "server" /\ "bookmarks" \in rd.todo
  /\ LET bs == RowsOf(library)
         page == Page(bs, rd.offset)
     IN rd' = [rd EXCEPT
          !.bs = [b \in page \cup DOMAIN rd.bs |-> IF b \in page THEN bs[b] ELSE rd.bs[b]],
          !.offset = @ + PageSize,
          !.todo = IF Cardinality(page) < PageSize THEN @ \ {"bookmarks"} ELSE @]
  /\ UNCHANGED <<feedVars, moments>>

FeedPoll == rd.kind = "feed" /\ Poll /\ UNCHANGED <<rd, moments>>

-----------------------------------------------------------------------------
\* The public tree, from what was read

IsPublic(v) == v = "public"
\* effectiveVisibility: the least of the row's own and those of the folders above.
AllPublic(fs, f) == \A g \in Chain(fs, f) : IsPublic(fs[g].vis)
PublicFolders_All(fs) == DOMAIN fs
PublicFolders(fs) == {f \in DOMAIN fs : AllPublic(fs, f)}

\* attach starts at the top and goes down through the folders that are public.
RECURSIVE Attached(_, _)
Attached(fs, from) ==
  LET kids == {f \in PublicFolders(fs) \ from : fs[f].up \in from \cup {Root}}
  IN IF kids = {} THEN from ELSE Attached(fs, from \cup kids)

Public(fs, bs) ==
  LET shown == Attached(fs, {})
  IN [folders |-> shown,
      bookmarks |-> {b \in DOMAIN bs :
        /\ ~bs[b].archived /\ IsPublic(bs[b].vis)
        /\ AllPublic(fs, bs[b].in) /\ bs[b].in \in PublicFolders(fs)
        /\ bs[b].in \in shown}]

\* public_nav_tree: the folder of a bookmark is looked up again when it is not public.
ServerVisible(v) == v = "public"
ServerAllPublic(fs, f) == \A g \in Chain(fs, f) : ServerVisible(fs[g].vis)
ServerHides(fs, f) == f \notin DOMAIN fs \/ ~ServerAllPublic(fs, f)
RECURSIVE ServerAttached(_, _)
ServerAttached(fs, from) ==
  LET kids == {f \in DOMAIN fs \ from : ServerAllPublic(fs, f) /\ fs[f].up \in from \cup {Root}}
  IN IF kids = {} THEN from ELSE ServerAttached(fs, from \cup kids)
ServerPublic(fs, bs) ==
  LET shown == ServerAttached(fs, {})
  IN [folders |-> shown,
      bookmarks |-> {b \in DOMAIN bs :
        /\ ~bs[b].archived /\ ServerVisible(bs[b].vis) /\ ServerAllPublic(fs, bs[b].in)
        /\ ~ServerHides(fs, bs[b].in) /\ bs[b].in \in shown}]

-----------------------------------------------------------------------------
Next == (\E w \in Writers : Write(w)) \/ ReadFolders \/ ReadBookmarks \/ ReadPage \/ FeedPoll

Spec == Init /\ [][Next]_vars

-----------------------------------------------------------------------------
\* Properties

\* A bookmark can be reached by public folders from the top, whatever the code computes.
RECURSIVE Open(_, _, _)
Open(fs, f, steps) ==
  /\ f \in DOMAIN fs /\ fs[f].vis = "public" /\ steps > 0
  /\ fs[f].up = Root \/ Open(fs, fs[f].up, steps - 1)
View(l) ==
  LET fs == FoldersOf(l)
      bs == RowsOf(l)
      open == {f \in DOMAIN fs : Open(fs, f, Cardinality(Folders))}
  IN [folders |-> open,
      bookmarks |-> {b \in DOMAIN bs : bs[b].in \in open /\ bs[b].vis = "public" /\ ~bs[b].archived}]

\* A read is of one moment when the library was the same at all of its moments but for one
\* row, and the pages of the server's export when it was the same.
Slack(kind) == IF kind = "server" THEN 0 ELSE 1
RowsThatDiffer(l, k) ==
  Cardinality({f \in Folders : l[1][f] # k[1][f]}) + Cardinality({b \in Bookmarks : l[2][b] # k[2][b]})
Calm == Answered /\ \A l, k \in moments : RowsThatDiffer(l, k) <= Slack(rd.kind)

\* The owner's page has its bookmarks of GET /nav/home and its folders of GET /folders, which
\* is sent next to it: it reads the folders first, as /nav/public does, or last, as the export.
OwnersPage == {"nav", "export"}

\* "Public navigation": with a row written in between, a visitor still sees exactly
\* what was public at one moment of the request; a folder made private while it is
\* answered takes its bookmarks along.  The owner's page is of one moment as well.
NavHonest ==
  (Calm /\ rd.kind \in OwnersPage) =>
    \E l \in moments : /\ rd.kind = "nav" => Public(rd.fs, rd.bs) = View(l)
                       /\ rd.fs = FoldersOf(l) /\ rd.bs = RowsOf(l)

\* Both runtimes show visitors the same, from the same rows, however torn.
RuntimesAgree == Answered => ServerPublic(rd.fs, rd.bs) = Public(rd.fs, rd.bs)

\* However torn its reads, the owner's page shows every bookmark that it has with its folder
\* once; what a drag shows is what the page has after the drop.
Given(fs) == [f \in DOMAIN fs |-> [up |-> fs[f].up, place |-> 0]]
HomeTrue ==
  /\ (Answered /\ rd.kind \in OwnersPage) => ShowsEachOnce(Given(rd.fs), rd.bs)
  /\ (Answered /\ rd.kind = "nav" /\ rd.fs = FoldersOf(library) /\ rd.bs = RowsOf(library)) =>
       DragsTrue(Given(rd.fs), rd.bs)

\* What a page shows, in either runtime.
PagesTrue == TypeOK /\ NavHonest /\ RuntimesAgree /\ HomeTrue

\* "Lossless JSON, CSV and Netscape HTML": a file that the runtime takes back puts every
\* bookmark of one moment into the folder it was in, with the URL it had.  In HTML that
\* is every bookmark below a top folder.
Found(parsed, l, b, byId) ==
  \E i \in parsed.items :
    /\ i.bookmark = b /\ i.url = l[2][b].url
    /\ LET place == PlaceOf(parsed, i)
       IN IF l[2][b].in = Inbox THEN place = [id |-> NoId, path |-> <<>>]
          ELSE /\ byId => place.id = l[2][b].in
               /\ place.path = Path(FoldersOf(l), l[2][b].in)
Restores(parsed, l, html, byId) ==
  \A b \in Bookmarks :
    (l[2][b].live /\ l[1][l[2][b].in].live /\ (html => Reached(FoldersOf(l), l[2][b].in)))
      => Found(parsed, l, b, byId)
Clean(l) == \A b \in Bookmarks : l[2][b].live => l[2][b].url = "canonical"

WorkerFiles == {ExportJson(rd.fs, rd.bs), ExportCsv(rd.fs, rd.bs), ExportHtml(rd.fs, rd.bs)}
ServerFiles == {ServerJson(rd.fs, rd.bs), ServerCsv(rd.fs, rd.bs), ServerHtml(rd.fs, rd.bs)}

Lossless ==
  /\ (Calm /\ rd.kind = "export") =>
       LET back == {<<file.format, Parse(file)>> : file \in WorkerFiles}
       IN \E l \in moments : \A f \in back :
            /\ ~f[2].ok => (f[1] = "html" /\ ~Clean(l))
            /\ f[2].ok => Restores(f[2], l, f[1] = "html", TRUE)
  /\ (Calm /\ rd.kind = "server") =>
       LET back == {<<file.format, ServerParse(file)>> : file \in ServerFiles}
       IN \E l \in moments : \A f \in back :
            /\ ~f[2].ok => (f[1] = "html" /\ ~Clean(l))
            /\ f[2].ok => Restores(f[2], l, f[1] = "html", f[1] = "json")

\* A file of the other runtime, where it is taken, puts every bookmark below the names of
\* the folders it was in.
Portable ==
  (Calm /\ rd.kind \in {"export", "server"}) =>
    LET taken == {ServerParse(file) : file \in WorkerFiles} \cup {Parse(file) : file \in ServerFiles}
    IN \E l \in moments : \A parsed \in taken :
         parsed.ok => \A i \in parsed.items :
           LET row == l[2][i.bookmark]
           IN row.live /\ (row.in \in DOMAIN FoldersOf(l) => i.path = Path(FoldersOf(l), row.in))

\* What a file holds, for either runtime.
FilesTrue == Lossless /\ Portable
=============================================================================
