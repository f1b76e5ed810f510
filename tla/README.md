# MarkHub in TLA+

MarkHub keeps one user's bookmarks in a tree of folders. It has two runtimes with the
same HTTP API: a Cloudflare Worker on D1 (`apps/worker`) and a Python server on SQLite
or Postgres (`server`), with a web application in front of either (`apps/web`). This
directory holds TLA+ models of the parts in which steps of several actors, crashes and
time meet, the TLC runs that check them and the TLAPS proofs about them. Paths in this
file are relative to the repository; `index.ts` is `apps/worker/src/index.ts`.

## 1. Inventory

| component | state | operations | interacts with | correct when |
|---|---|---|---|---|
| Worker restore (`index.ts` 384-450, 2240-2815) | `restore_leases`, `restore_staging`, the live rows, `bookmarks_fts` | `POST /backup/import` with `replace_all`: acquire the lease, read, stage, renew, swap, abort | the lease gate of every writing request (1682), the cron (3895-3915) | the data set is swapped whole or not at all, the reply says which, nothing blocks for ever |
| Worker folder tree (`index.ts` 724-775, 859-910, 1717-1885, 1992-2150, 3424-3540) | `folders.parent_id`, `bookmarks.folder_id`, `deleted_at` | create, PATCH, three modes of DELETE, reorder, batch; the collector of rows deleted for 30 days | each other (D1 has no transaction around a request), the collector | a tree of live folders, a live home for each live bookmark, an Inbox that is always there |
| Worker remote backup (`index.ts` 994-1235, 3324-3400, 3631-3660, 3920-3965; `packages/core/src/schedule.ts`) | the settings rows `s3_config` and `webdav_config`, the bucket | cron, manual run, upload, list, prune, save settings | the provider, overlapping runs, the settings page | each day has its backup, the newest are kept, a failed prune shows |
| Server start (`server/app/migrate.py`, `domain/bootstrap.py`, `main.py`, `database.py`, `server/migrations`) | `schema_migrations`, the schema, the first rows | migrate, index, bootstrap, seed the demo | kills and restarts, databases of earlier releases | the ledger is true to the schema, no row of the user is lost |
| Worker import and merge (`index.ts` 545-720, 2826-3260; `packages/core/src/importParse.ts`, `normalizeUrl.ts`) | the live rows | merge or skip duplicates, item by item | every other request | folders as in the file, nothing dropped, nothing doubled by a second try |
| Export and file formats (`index.ts` 913-990, 3040-3190, 3665-3815; `importParse.ts`; `server/app/domain/backup.py` 60-760) | none | several reads, JSON, CSV and HTML written and parsed, by either runtime | every writing request, the import | a file gives back what was there at one time |
| Worker bootstrap and authentication (`index.ts` 128-330, 1278-1295, 1495-1660) | first user, Inbox, one setting; `users`; a JWT at the client | lazily at each request; login, change of credentials, forced change | a second first request, kills, all routes | one user with an Inbox, no route before the first password is changed |
| Worker bookmarks, tags, search (`index.ts` 453-545, 786-858, 1693-1716, 1905-2150) | `bookmarks`, `tags`, `bookmark_tags`, `bookmarks_fts` | CRUD and `set_tags` of bookmarks, CRUD of tags, search by index or by `LIKE` | each other, the restore, the tree | a bookmark has the tags it was given, and what is live is found by text and by tag |
| Change feed (`index.ts` 331-345, 3407-3422; `server/app/domain/oplog.py`, `changes.py`) | `op_logs` | append after a change, with some columns, one or none; read from a cursor | every writing request | a reader misses no row, and no change that a row should tell or announce |
| Navigation, visibility (`index.ts` 1525-1622, 2154-2240; `packages/core/src/visibility.ts`; `server/app/domain/nav.py`) | none | two or three reads, effective visibility | every writing request | nothing private is shown |
| Server restore and import (`server/app/domain/backup.py` 768-1127) | the live rows | `replace_all` in one transaction, merge, skip | the other sessions | as on the Worker |
| Server folders, bookmarks, collector (`server/app/domain/folders.py`, `bookmarks.py`, `jobs/scheduler.py` 30-85) | the same tables | a transaction per request; the collector at 03:15 | the other sessions, foreign keys | as on the Worker |
| Server remote backup, scheduler (`server/app/domain/remote_backup.py`, `jobs/scheduler.py` 88-142) | settings rows, the bucket, the write lock of SQLite | one job a minute; a thread for each upload | provider, requests, threads that outlive their run | as on the Worker, and nothing is locked for ever |
| Web page and API client (`apps/web/src/pages/PublicHome.tsx`, `lib/auth.tsx`, `packages/api-client`) | token, user, what is shown, a drag | reload, login, logout, forced change, edits | the Worker, answers in any order | the page shows what its token entitles to |
| Metadata and favicons (`index.ts` 1297-1460; `server/app/domain/metadata.py`, `utils/ssrf.py`) | icons in a bucket | fetch a foreign page | the network | - |
| Server tags, authentication, configuration; Worker migrations; scripts and Docker files | rows of their own, files | - | - | - |

What makes them hard:

* **D1 has no transaction around a request.** Each statement is atomic, a `batch` is,
  and every other request runs between two statements. Checks and the writes they
  guard are apart almost everywhere.
* **Workers die silently** at any `await`, and a statement may be run although its reply
  is lost. What they leave behind (a lease, staging rows, half a cascade) is for the
  cron to find.
* **Time stamps are read in the Worker** and compared by D1 later.
* **SQLite commits where a PRAGMA asks for it**: a migration is several transactions, and
  the process may be killed between two.
* **The settings row is read, kept for minutes and written back whole**; so are the row of the user and,
  by a PATCH, the row of a bookmark.
* **The server has transactions, but reads outside of locks**: on Postgres each statement sees what is
  committed by then, on SQLite one session at a time has written anything.
* **A thread cannot be cancelled**: the upload of the server goes on after its run was given up.
* **The page sends requests and takes their answers in any order**, across logins and logouts.

`PROJECT.json` lists every hazard at its line.

## 2. The modules and the code

| module | models | about |
|---|---|---|
| `ReplaceAll` | what a restore promises, without lease, staging, transaction or clock | abstract specification of both runtimes |
| `WorkerRestore` | Worker restore, lease gate, CRUD request, cron, kills, clock | implements `ReplaceAll` |
| `ServerData` | folders, bookmarks, imports and collector of the server, in transactions | implements `ReplaceAll` |
| `FolderTree` | Worker folder tree, bookmarks in it, collector | |
| `RemoteBackup` | Worker backups to S3 and WebDAV, cron schedule, settings page | |
| `ServerJobs` | the scheduler of the server, its backups, their threads, the write lock | |
| `ServerStart` | migrations of both dialects, bootstrap, demo library, kills | |
| `WorkerTags` | Worker bookmarks with their tags, the tags, the search index and a search | |
| `ImportMerge` | Worker imports with `merge` and `skip_duplicate`, failures, the user who deletes meanwhile | |
| `Library` | the rows of folders and bookmarks as the reads see them, the walk to the top | pure operators |
| `ChangeFeed` | requests that change rows and log them in `op_logs`, and a client of `/changes` | uses `Library` |
| `Formats` | what the files of both runtimes hold, and what their parsers make of them | pure operators |
| `PageView` | what the page makes of the rows it gets: tree, groups, counts, drags | pure operators |
| `LibraryReads` | navigation, exports and change feed between writing requests | composes `ChangeFeed`, `Formats` and `PageView` |
| `WorkerAuth` | bootstrap, authentication and routes of the Worker, one request at a time or many | |
| `WebHome` | the page and its session next to the Worker | composes `WorkerAuth` |
| `WorkerRestore_proofs`, `FolderTree_proofs`, `ImportMerge_proofs`, `RemoteBackup_proofs`, `ServerData_proofs`, `ServerJobs_proofs`, `WebHome_proofs`, `WorkerTags_proofs` | theorems | section 5 |
| `MC...` | symmetry for TLC; the files, libraries and schedules of the runs | |

**WorkerRestore.** `lease` is the user's row of `restore_leases`, `staging` the chunks in
`restore_staging`, `created` their `created_at`, `live` the rows with `deleted_at IS
NULL`, `fts` the index. A row is its table and who inserted it (ids are fresh uuids), so a
data set is told from another by its origin. `pc[r]` is where `atomicReplaceAllRestore` is; each
action is one D1 call: `AcquireRestoreLease`, `ReadLiveBookmarks`, `ReadLiveFolders`,
`InsertStageChunk` (new rows, then the ids to delete), `RenewRestoreLease`, `Cutover` (the whole
guarded batch), `CleanupStaging`, `ReleaseRestoreLease`, and the failures where the code
has a `try` and where it has none (`HandlerThrows`). A CRUD request passes the gate
(`Admit`), writes, and runs the two statements of `syncFts`, which swallows errors. The cron's
two deletes share one `nowIso`. With `Lag > 0` a time stamp is up to `Lag` ticks old when D1 runs its
statement. `committed` and `overlap` are history. The third read of the
snapshot (`existingTags`) and the contents of rows are left out.

**ServerData.** `db` is what is committed, `tx[s]` the rows that the transaction of session `s` has flushed, `pend`
in `job[s]` the changes of its objects that are not flushed yet: SQLAlchemy writes the columns that have changed, before the
next read. Each action is what a handler does from one read to the next; `Flush`, `Commit` and `Fails` (a refusal, a
foreign key, a lock, a stop of the process) are actions of their own. `MayWrite` is the one write lock of SQLite or the row locks
of Postgres, `View` what a session reads under READ COMMITTED. Deletes of the
restore and the cascade of `_cascade_soft_delete` are one row or one folder at a time, the collector is a pass of leaves after
another. A restored file is one folder with one bookmark.

**FolderTree.** `folder` and `bookmark` map ids to `none`, `live`, three ages of deletion,
or `gone`; `parent` and `home` are the references. A request is a record of what it is about to write:
`Begin` is its reads and checks, `Statement` one D1 statement of it, in the order of the
code (the cascade pops a folder, deletes its bookmarks, then the folder; the
collector lists, deletes bookmarks, lists folders, deletes the deepest first). `RefsExist'` is the
foreign keys of `0005_foreign_keys.sql`. The reads of one check are one step. Names, order,
visibility and tags are left out.

**RemoteBackup.** `cfg` is the settings row, `files` and `putAt` the bucket, `w` the Workers. A
run reads the row, takes its name from the time, uploads, lists, deletes beyond
`keep_backups` and writes back the row as it read it, with `last_run` and the warning. `kind` is the provider: S3 (sorted by
upload) or WebDAV (by name; its settings are not validated). A DELETE that fails for the Worker, refused, broken or given up after its time (`s3.ts` 138-157), may
have been carried out; what the run knows to be gone is `gone`, a history. A listing of S3 comes in pages of `PageKeys` names, each a step, between which other
runs put and delete. `Scheduled` is the cron event of a quarter
of an hour, `InWindow` and `SameDay` are `schedule.ts`. `story` is history: what the row should say as long as no two
requests or runs have it in hand. Two runs never take one name here: that they start in different seconds is assumed.

**ServerJobs.** `FireJob` is the cron event of a minute, taken by the job or dropped; `CheckDue` looks at one backup of the loop,
`Submit` starts its thread, `RunFails`, `RunAnswered` are what `wait_for` gives after at most a minute, `SaveOutcome` is the
flush that takes the write lock, `Commit` ends the one session around all backups. `thread[t]` uploads, lists and deletes
at its own pace, after its run was given up too. A failed flush leaves the session `broken` until the end of the
job: every backup after it fails at once. A request runs a backup or saves settings in a session of its own. `RunGc` says only that the collector was
started; what it does is in `ServerData`. The text and counts of the retention result are left out.

**ServerStart.** `db` is what is committed, `tx` what the open transaction sees: a record of ledger,
schema (the features the migrations change), setup rows and library (the kinds of rows the migrations
treat differently). `Pick`, `RunBody`, `CommitBody`, `RestoreFk` are the steps of `_run_sqlite_migrations`;
on Postgres one transaction spans them all and ends with `Indexes`. `Found` is every database a
start may meet: new, made by `create_all`, migrated up to any version, in use or not. `Killed`
ends the process anywhere, `BodyThrows` is a migration
that SQLite refuses, `MigrationFails` one that fails for that or for a reason outside (a full disk, a locked file). `Serve` is the
user's requests as far as a later start can tell.

**WorkerTags.** `row`, `text`, `tag`, `link` and `fts` are the rows of `bookmarks`, `tags`, `bookmark_tags` and `bookmarks_fts`; a text stands for
title, URL and description. `req[q]` is what a request is about to do, a D1 statement a step: `InsertBookmark` or `WriteBookmark`, then
`setBookmarkTags` (`ClearTags`, and for each name `SelectTag`, `InsertTag`, `LinkTag`), then `syncFts` (`Unindex`, `Index`);
`SetTags` is the batch, which goes through its bookmarks one by one. UNIQUE and the foreign keys are guards, and a request that meets one, or is killed, `Fails`.
`find` is a search: count and rows by the index, `FallsBack` to `LIKE` when the index throws. `meant`, `settled`, `indexed` are history: what the last request for
a bookmark wanted, and whether another was at work on it, or on a tag, meanwhile. Order and pages of lists, colours of tags and the folders are left out.

**ImportMerge.** `folders` and `bookmarks` are the rows in the order of their insertion: an id is a place, so
`created_at, id` is the order of ids. `job[i]` is the import: the folders made for export ids (`exportIdMap`), the folders of
paths (`folderCache`), and where the loop is. Each action is one D1 statement; what the handler computes in between
(`NextItem`, `Onward`, `AfterExported`) is an operator. A path is a sequence of names, a URL is normalized. `DELETE
/folders/:id` runs statement by statement; its cascade is in `FolderTree`. `replace_all` is `WorkerRestore`, `setBookmarkTags` is `WorkerTags`; the tags of
items, the search index, `op_logs`, visibility and order are left out, except that they may fail (`ImportFails`).

**Formats.** A file is what its items, folders and metadata say. `Href` is `safeHref`, which changes a URL; `PathOf` and
`Reached` are the walks of the exports, which stop at what was not read; `Parse` and `ServerParse` are the two importers,
with the check of the metadata against the items (`Paired`). URLs are of three kinds: normalized already, changed by
normalization, no http(s) at all.

**PageView.** `BuildTree` is `buildTreeFromHome`, `FilterTree`, `FolderRows` and `Groups` what the page lists of it and `TotalCount` what it counts;
`DropFolder` and `DropBookmark` are the order that a drag shows before its answer and the one it sends. `ShowsEachOnce` and `DragsTrue` say what they
should be, and `LibraryReads` checks them of every answer it gives. Their recursion is that of the code.

**ChangeFeed.** A writer is a request, a statement a step, with a kill after any of them: PATCH (the read and the UPDATE of all columns), a step of a batch, an
import that merges into a bookmark or makes one, POST, DELETE and `POST /bookmarks/reorder`, an UPDATE per id. `DELETE /folders/:id` goes through its three
modes: it moves the bookmarks, then the folders, or empties and drops the folders of its stack one by one, and deletes the folder itself last. Its stack is a set here, taken in any order.
The PATCH of a folder is one step. Each ends with `WriteOp`, and a row of `op_logs` tells what the code gives it: every column (PATCH, POST), some
(an import's row has no visibility, `:2990-2997`), one (a batch, with the visibility as it was asked for, `:3518`, while `asVisibility` of it is stored, `:3514`), a place and
perhaps a folder (reorder), or nothing but that something was done: `{id, merged}` (`:2954`), `{id, mode}` of a folder (`:1841`). `feed` is a client that polls
`/changes`. The rest is history: `copy` is the bookmarks as one has them who read them at first and takes every row for what it says (`Says`, `Word`), `doubt` the columns that a row
has only announced to be others (`Hints`) or none has told, `overlaid` the bookmarks whose requests overlapped or were not logged.
A reorder names each id once. Rows about tags, new folders and the order of folders say nothing of a bookmark and are left out; a restore logs
inside its own batch (`WorkerRestore`).

**LibraryReads.** The reader is one request for a page (`/nav/public`, `/nav/home`), an export of the Worker or of the server (by
`LIMIT` and `OFFSET`), or the client of the feed, next to the writers of `ChangeFeed`. The owner's page takes its folders of `GET /folders`, which is sent next to `/nav/home`
and may be read before or after it: what is claimed of that page is claimed of the reads in either order (`OwnersPage`). `moments` is history: the library at each moment of the request; what
is written after its answer, and to `op_logs`, which only the feed reads, is no matter of it.
`Public` is the tree as the Worker builds it from what it has read, `ServerPublic` as the server does.

**WorkerAuth, WebHome.** `net` is the requests of one browser and their answers; each is worked on in steps (`ensureBootstrap` is
three INSERTs, `PUT /auth/credentials` a read and an UPDATE). The library is a number that each write raises. `page` is the
token and user of `AuthProvider` and what `PublicHome` shows, with the answer it came from; a change of state and the
effects that React runs after it are one step (`Becomes`), the three requests of a `reload` are one. `Take...` are the
continuations of the fetches, the rest is the visitor. `older` and `overlapped` are history.

## 3. Runs

| run | expected | shows |
|---|---|---|
| `restore` | pass | index complete (`Searchable`), failure told truly (`FailureReportedTruly`), only requests admitted before the lease survive next to the imported rows (`OnlyOverlappingWritesSurvive`), and `ReplaceAll` implemented (`KeepsPromise`) |
| `restore_time` | pass | time stamps one tick old and replies that may be lost: the data set is swapped whole (`OneDataset`, `CutoverComplete`); after any kill, time and the cron free lease and staging rows (`LeftoversReclaimed`) |
| `folders` | pass | one request at a time, with the collector in between: no cycle, live parents, live homes (`TreeSound`), and stale subtrees collected whole (`GcDeepestFirst`) |
| `folders_concurrent` | pass | two requests, kills and the collector: the Inbox stays (`InboxSafe`) |
| `backup` | pass | overlapping runs with failing uploads, pages of lists and deletes, cron events anywhere in their quarter, settings saved meanwhile: newest kept (`NewestKept`), a prune that failed, or was not answered, not hidden (`RetentionHonest`), settings true without an overlap (`RowTrue`): a warning says that a backup is not known to be gone, and with none each is, one backup a day and no second by the cron (`DailyOnce`) |
| `startup` | pass | all databases a start may find, both dialects, three kills anywhere: the ledger is true (`LedgerTrue`), only what is migrated is served (`ServesMigrated`), the demo goes in once (`SeededOnce`), no library loses rows (`LibraryKept`), the server comes up (`ServesAgain`) |
| `import_merge` | pass | two imports of one file that fail anywhere, next to deletions: the folders are those of the file (`FoldersTrue`), no URL is dropped and each is merged where the file says (`Arrives`), a second try makes no twins and keeps duplicates that are in several folders (`Repeatable`) |
| `tags` | pass | two requests for bookmarks and tags, each failing anywhere, next to a search: a bookmark has the text and the tags its last undisturbed request asked for (`AsAsked`), the index has one row of it that says the same, and a search finds it once and by every term (`SearchTrue`) |
| `server_data` | pass | a `replace_all` next to two other requests in transactions of their own, on both databases: `ReplaceAll` implemented (`KeepsPromise`), Inbox kept (`InboxSafe`); without overlap a sound tree (`TreeSound`) and a collector that is never refused and leaves nothing behind (`GcWorks`) |
| `server_jobs` | pass | threads that hang or outlive their run: newest kept (`NewestKept`), `last_backup_at` true (`LastUploaded`), each task started on its day unless the event was dropped or the session broken, and at most once (`OnSchedule`), the job ended and its write lock given back (`JobEnds`) |
| `reads` | pass | with one row that differs in between, a visitor sees the public part of one moment, both runtimes the same, and the page shows each bookmark whose folder it has once, in one place, and sends for a drag what it shows (`PagesTrue`), and an export gives back the library of one moment (`FilesTrue`); the feed has no gap, and who follows it knows each column of a bookmark but those that a row only announced to be others (`FeedSound`) |
| `web` | pass | answers in any order: the page is true when the newest reload is shown (`PageTrue`), nothing private before the first password is changed (`DataAfterChange`) and the library afterwards (`HomeAppears`), changed credentials stick, and only a request that sets a password, or that knew of one, ends the forced change (`ChangeSticks`), the bootstrap is whole (`BootstrapWhole`) |

Every run keeps the type invariant of its module in view: it is a theorem for all but `LibraryReads` (and there for `ChangeFeed`),
and a conjunct of one state invariant of it and of most others (`FoldersTrue`, `PagesTrue`, `RowTrue`, `AsAsked`, `TreeSound` of
`ServerData`, `LastUploaded`, `PageTrue`).

Seen while modelling, without a run of their own:

* **Worker restore.** The comment at `index.ts:2259` says that no CRUD write can slip between snapshot and cutover; one that passed
  the gate (`:1682`) before the lease was taken (`:2262`) can, and survives. The `catch` around the batch (`:2800`) takes every
  exception for a rollback: when D1 has committed and only the reply is lost, the message at `:2808` is wrong.
* **Worker folders.** `DELETE /bookmarks/:id` dates a deleted bookmark anew (`:2145`), so that its folder gets stale before it, and the
  `DELETE` that the foreign key refuses (`:764`) ends the collector's pass for every folder after it. A bookmark may be written into a
  folder deleted after it was checked (`:895`, `:2001`). `assertFolderParentOk` and the `UPDATE` (`:1772`) are apart: two moves that overlap put folders
  inside each other, against the comments at `:872` and `:877`, and both drop out of every tree. A cascade that is killed (`:1825`) leaves live rows under deleted
  folders. The depth limit does not count the height of the moved
  subtree (`:872-892`, `:1772`).
* **Tags.** A batch of `set_tags`, the new name of a tag and the deletion of one do not touch `bookmarks_fts`, and the `LIKE` that a search falls back to
  does not look at tags: a tag-aware search (`README.md:15-16`) misses what they changed until the bookmark is saved again. Two PATCHes of a bookmark that
  overlap may leave the tags of both and two rows of the index; one that stops midway leaves none. Two that make the same new tag: UNIQUE refuses the second.
* **Backups.** A negative `keep_backups` on WebDAV deletes every backup, the new one included (`:1082`, `:1226`; S3 validates
  it in `s3Config.ts:53`; the server slices `files[keep:]` in the same way). Saving the settings during a run loses the run's
  warning or the saved settings, whichever is written first (`:3326`, `:3387`, `:1145`, `:1181`). Two runs of one second use one name. A
  scheduled run of the Worker that fails is not tried again that day (`:3951`). On the server, two backups set to the last minute of the
  day may have the second started after midnight (`scheduler.py:97`, `:114`): the day before goes without it and the next may have it twice, which `ScheduleAssumption` leaves out.
* **Imports.** An import trusts its cache of folders, and makes folders below one that was deleted meanwhile (`:568`); a native
  export that is imported twice with `merge` makes its folders twice (`:652`).
* **Files.** The Worker refuses its own HTML export when `safeHref` has changed a URL ("metadata/content mismatch") or a
  bookmark is no http(s) URL; the server takes the metadata line of a Worker CSV for the header and refuses it; bookmarks in folders
  that the walk from the top does not reach are missing from HTML. The server pages its export by `OFFSET` without
  a snapshot: a write in between skips or doubles rows, against "the complete live set" (`server/app/domain/bookmarks.py:135`).
* **Feed.** A Worker killed before `writeOp` leaves a change that is never reported; two overlapping requests may log in the other
  order. `has_more` is true for exactly 500 rows. On Postgres an id is given before its transaction commits, and a client may pass
  over it. A PATCH of a folder logs only id and name, its deletion only `{id, mode}` (`:1841`), although it moves or deletes every bookmark in it, or in all below it
(`:1813-1831`); a merge logs `{id, merged: true}`: who follows the feed has to read those bookmarks again. The row of `set_visibility` has the value as it was
sent (`:3518`), which need not be one that is stored (`:3514`). The row of an imported bookmark has no visibility.
* **Lost updates.** `PATCH /bookmarks/:id` writes all columns as it read them (`:2081-2116`): a bookmark made private meanwhile is made
  public again. Two overlapping `PUT /auth/credentials` (`:1648`): a change of the name alone puts back the old password hash and the
  forced change. The ORM of the server writes only what has changed.
* **Server.** `replace_all` takes no lock: two at once may both stay, on Postgres, and on either database when another session has
  just emptied the library, since no row is locked then, against "per-user locking" in `README.md:18`, and a
  row deleted meanwhile makes one fail.
* **Forced change.** "Please change the default password first" (`apps/web/src/i18n.tsx:123`), but neither the form (`SettingsModal.tsx:93-100`) nor the Worker (`index.ts:1653-1657`)
  refuses the password that is set already as the new one: it ends the forced change. `ForceEnds` is about what the code does: a request that sets a password. That a
  new one has six characters is not modelled.
* **Bootstrap.** A Worker killed in `ensureBootstrap` leaves the database without Inbox or its setting for ever (`:277`).
* **Page.** An answer of `/nav/home` that comes after the logout stays on the screen, next to "private items stay invisible without
  login" (`README.md:17`); an aborted drag puts back what was shown before a newer reload; a late 401 for an old token ends
  the new session; a wrong current password (401) and any failure of `/auth/me` log the visitor out; deletes have no `catch`, so
  that a lost answer is followed by no reload. A drag over two parents sends the order of the last one only.

### Bounds

* **Restores and writers**: two restores are enough for every pair (takeover of an expired lease, two
  swaps); one CRUD request with a restore on either side of each of its statements. A third actor repeats
  what a second does, since each is kept out by the one lease row. The proofs have no such bound.
* **Clock**: `LeaseTTL = 1`, `MaxClock = 2` lets a lease run out, be taken over and the second one run out.
  `restore_time` has `StagingTTL = 2 * (LeaseTTL + Lag)`, the worst case of its assumption, and seven ticks.
* **Folders**: four folders and depth two give a parent, a grandparent, a sibling and the Inbox; two
  requests are enough for each race between a check and a write. Every id is inserted once.
* **Backups**: three names and `keep_backups` 0, 1 and the default of 2 have runs above, at and below the limit; six
  minutes in days of four and slots of two, with Shanghai half a day ahead, cross both midnights. One settings request. Pages of one name
  make every listing one of several pages.
* **Server data**: one restore and one session that makes two requests, of two ids at most: an overlap needs two sessions, and a
  second request of the same session meets what the first has left. Three folders, three bookmarks and the Inbox; depth three.
* **Server jobs**: days of three minutes, so that a run that takes the 60 seconds meets the next event, the collector and
  midnight; two uploads, the one that goes on and the one that comes after it; one settings request. Times are such that
  a backup that waits for those before it starts before midnight (`ScheduleAssumption`).
* **Start**: three kills allow one in each of two migrations and one in the bootstrap.
* **Tags**: two bookmarks, one that is there and one that is made, two tags, names and texts, two requests and a search: a pair of requests is
  enough for each race between a read and a write of a row, and every wrong row shows with two names.
* **Imports**: native files are every way in which two folders can be below each other, one of them missing from the file or
  in a circle included; other files are two bookmarks, of one URL or of two, with paths that share a name. They meet a library with one
  URL in two folders, or with one name in two places. Two imports and one deletion are enough for each pair of a read
  and a write. `Repeatable` and the second half of `Arrives` are about imports that no other one overlaps: two at once
  do double their bookmarks.
* **Reads**: two writing requests, so that one may come between any two reads, or two overlap; next to the server's export, of which only the pages of an
  unchanged library are claimed, one (`Beside`). Two folders that are nested or of one name, four libraries in all, in one of which a bookmark is still to be made; one order of
  two bookmarks, one imported item with a folder and one without; pages of one row and of two bookmarks make every page a boundary. Answers of one read of one library are one state (`MCView`): nothing follows them.
* **Page**: two acts of the visitor from a page that is mounted on a fresh, an unchanged or a changed database, with a
  token that is valid, expired or missing; one request killed or lost. Two acts are enough for each pair of an answer that is late
  and the act that made it old. With three, TLC does not end within minutes.

### Fairness

* `restore_time`: weak fairness of `Tick` (time passes) and of the cron (the platform fires it). Nothing is
  assumed about a request: its Worker may be killed or hang for ever.
* `startup`: weak fairness of `StartStep`: somebody starts a server that is down (an assumption about the
  operator), and a start that is not killed goes on to its next statement. Kills and
  failures from outside are bounded by `MaxFailures`; migrations that fail by themselves are not, so `ServesAgain`
  says that none does for ever.

* `server_jobs`: weak fairness of `Tick`, of the cron event and of each step of a coroutine that the event loop may take. Nothing
  is assumed about a thread: an upload may hang for ever, and a run then ends by its timeout.
* `web`: weak fairness of `Work` and `Take`: each request is answered, refused or lost, and its answer is taken by the page.
  Nothing is assumed about the visitor.

`CHECK_DEADLOCK` is `FALSE` where everything that is left is bounded and may be over: `import_merge` (the imports have ended and the user has
made the last deletion), `tags` and `reads` (the requests have ended and the answer is given) and `web` (nothing is on its way and the visitor is
done). In every other run the cron, the collector, time or the start of a run can always take a step.

## 4. Plan

Done, in this order: `ReplaceAll` and `WorkerRestore`; `FolderTree`; `RemoteBackup`; `ServerStart`; `ImportMerge`; `ServerData` and `ServerJobs`; `Formats` and
`LibraryReads`; `WorkerAuth` and `WebHome`; `WorkerTags`; `PageView`; `Library` and `ChangeFeed` taken out of `LibraryReads`; with proofs of every safety
property of these modules but two of `LibraryReads`, `PagesTrue` and `FilesTrue`.

Next:

1. The public tree (`NavHonest`, `RuntimesAgree`) as a property of its own, with walks that are recursive functions as in `Library`, and its proof.
2. `normalizeUrl` as a function, checked to be idempotent over bounded inputs; tags in imports (`ensureRootTags`).
3. `ServerStart` with two processes at once.
4. The feed of the server on Postgres; several tabs of the page.
5. `TreeSound` under two requests, the depth limit, as runs that end in a violation, where room is made.

## 5. What is proved

All by TLAPS, for every value of the constants that satisfies the named assumptions of the modules.

**WorkerRestore_proofs.** `TypeCorrect`; `NeverMixed` (`OneDataset`); `SwapsAll` (`CutoverComplete`);
`LaterRequestsKeptOut` (`OnlyOverlappingWritesSurvive`, for `Lag = 0`: with a lag a request may be
admitted on an old time stamp); `StaysSearchable` (`Searchable`); `FailureIsTrue` (`FailureReportedTruly`) and
`ImplementsPromise` (`KeepsPromise`), both for `ReplyMayBeLost = FALSE`: with lost
replies they fail. `OneDataset` is not inductive: a swap keeps
the data set whole only if the snapshot it deletes is all there is. `SnapshotComplete` says so as long as the
lease row is the restore's; `LeaseBound` bounds when a lease can end, from `created`; `StagingKept` follows
from it, `StagingOutlivesLease` and `CronStampOK`: the cron takes staging rows only when the lease can no
longer be renewed. Their conjunction `IInv` is inductive. `NoLateRequests` is the further invariant behind
`LaterRequestsKeptOut`, `CommittedIsTold` (a restore whose batch has committed has answered `ok` or is dead) the one behind the truth of failures.

**FolderTree_proofs.** `TypeCorrect` and `InboxIsSafe` (`InboxSafe`), for any number of requests, folders and
kills. The invariant follows what requests in flight are about to write: none aims at the Inbox but a rename,
which writes back the parent the Inbox has (`Aim`), and the collector lists it never (`GcSpares`).
`TreeStaysSound` (`TreeSound`) is about one request at a time that is not killed (two overlapping ones do break the tree), next to the collector, for any
finite set of folders. `TreeInv` says that no set of live folders is closed under `parent_id` (`NoCircle`), and what the request has
read and relies on: the parent it is about to write is none of the folders below (`Holds`), the folder it is about to delete has nothing live in it but what
it is about to move (`Empties`), the stack of a cascade holds every live folder whose parent it has deleted (`Stacks`, `Placed`). The walk of `isAncestor` is
a recursive function: `WalkUp` reasons about it by `SetInduction`, which the library's well-foundedness of the naturals gives, and `WalkEnds` shows that
a walk longer than the number of folders has been in one folder twice, which is a circle.
`CollectsDeepestFirst` (`GcDeepestFirst`) has the same hypotheses. Its invariant `PassInv` says that no rows that are stored are in each other (`NoRing`), that nothing
live is below what was deleted long ago (`Young`), and that a listed folder which the collector has passed and which is still there has a row in it that the collector has
passed or never listed (`Skipped`). That is so because a folder is deeper in the list than the one it is in (`DeeperBelow`): the climb of `DepthIn` from it
is one folder longer, as neither climb can meet a folder twice.

**ImportMerge_proofs.** `TypeCorrect`, `FoldersCorrect` (`FoldersTrue`), `ArrivesCorrect` (`Arrives`) and `RepeatableCorrect` (`Repeatable`), for any number of imports,
deletions, URLs, files and libraries. None of them is inductive. `IInv` says of each import where its loop is and what it has made by then (`Good`): the paths
in its cache are closed under prefixes and are those of the list so far, the export ids have folders in an order in which a parent is made before its
children, but for those that are in a circle or have no parent in the file (`Caught`). What it has made `Stands` in the table: each folder has the name and the parent that the
file says, unless it was deleted or moved, whoever else inserts rows meanwhile. What it has gone through `Works`: each URL is live or was deleted, and the duplicate it is about to update has the URL. And an
import that was alone is `Undisturbed`: what it looked up is still so when it writes, and the last item of each URL has its bookmark where the file says
(`Landed`), which the duplicate in the target folder first (`HitsIn`) is needed for. `ArrivesCorrect` and `RepeatableCorrect` are action properties: each step is
compared with the invariant before it. TLC has checked `IInv` on the instance of `import_merge` before it was proved. The assumptions say what a file, a path and a library are:
prefixes of a path are paths, and a folder of the library is inserted after its parent.

**RemoteBackup_proofs.** `TypeCorrect`, `FailuresShow` (`RetentionHonest`) and `NewestStay` (`NewestKept`), for any number of
Workers, names, days and settings. `Names` says that each name is in use by at most one run and put once, which makes `Newer` a total order of
what was put; `Lists`, that a listing holds only what was put, and that each backup a run is about to delete has at least `keep` newer ones
there (`Beyond`): newer ones that were put, whether they are still there or not, so that a run with a stale list deletes nothing that any
run would keep. A run spares at most `keep`, since the oldest of those it spares has fewer than `keep` newer ones (`Oldest`,
`SparesAtMost`). `NewestStay` assumes `Keeps \subseteq Nat`: a negative `keep_backups` on WebDAV deletes everything.
`RowStaysTrue` (`RowTrue`) follows the one run that has the row in hand (`Alone`): what it had to prune is still on its list, known to be gone, or the run has
noted a failure, so that its warning says what it knows when it writes it. `EachDayOnce` (`DailyOnce`) is one of the calendar: `Dated` (the row has the last day with a backup), `Today` (when the
window has passed, its slot has fired and somebody is at work), `Calendar` (their conjunction with the days before). It rests on
lemmas about days, slots and the window (`NextMinute`, `SlotBegins`, `WindowInDay`), for every length of both that `ClockAssumption` allows.

**ServerData_proofs.** `TypeCorrect` and `InboxIsSafe` (`InboxSafe`), for any number of sessions, folders and bookmarks, on both
databases. What a session has not committed is a list of changes, so the invariant is about those: to the row of the Inbox they
do nothing, or touch it without moving or deleting it (`PendOK`), no cascade starts at it and no list but that of a reorder
names it (`Spares`), in the committed rows and in those each transaction sees (`AtTop`, `Homed`).
`TreeStaysSound` (`TreeSound`) is about sessions that do not overlap, whatever is refused and rolled back, for any finite set of folders: `Sound` is the tree that
the rows of a session will be once its changes are flushed (`After`), in which what it is still to trash may be left behind (`Waits`) and what it is about to
delete is empty (`Emptied`).
`CollectorWorks` (`GcWorks`) adds what a row that is deleted owes to those below it: nothing that is not stale itself is below a stale folder (`Dated`), in
what is committed and in what the session is about to write (`Aged`), because what a cascade deletes it deletes from the bottom and at one
time. That no pass leaves a folder behind holds, and is proved, for histories in which sessions do not overlap: one that takes a row out of the
folder between the last look of the collector and its commit does leave it behind, until the next day.
`ReplaceIsWhole` (`KeepsPromise`) is the refinement of `ReplaceAll`: each step is one of its steps or none. A `Commit` is `Swap`, `Write` or `Remove`, a rollback `GiveUp`,
everything else changes nothing that is committed. `SwapInv` says why a commit is one step: no row is in two transactions (`Holds`), a session
makes live only rows of its own, another request either adds or removes rows (`Adds`, `Cuts`), and every row of the user is trashed or about to be (`Doomed`) when the restore
inserts its own (`Swaps`). It assumes one `replace_all`; with two, and a third session that has deleted the library first, TLC finds both data sets
live. The ids that a session inserts are its own (`IdsAssumption`: they are uuids).

**ServerJobs_proofs.** `UploadsTrue` (`LastUploaded`) and `NewestStay` (`NewestKept`), for any number of requests, threads, days and
backups. Every row of settings that is committed, read or flushed names a backup that was put (`True`), since a run goes on to save
only after its thread is done; the write lock is held by exactly the session that has flushed something (`Sess`), so that a
flush that fails loses nothing of its own. What a thread is about to delete has as many newer ones that were put as the thread
keeps (`ThreadOK`), however long ago it made its list.
`StartsOnSchedule` (`OnSchedule`) adds `Calendar`. An open day has its minute still to come, or the job is on its way to the backup with the minute in hand that
makes it due (`Ahead`); a day whose backup was started has neither (`DayOf`). The job keeps the minute it started in, but looks at the
second backup up to a minute later (`InTime`): that no midnight comes between is what `ScheduleAssumption` asks of the times, since
the job waits for the first backup only where both are due. That time may not pass while a run waits for more than a minute (`Tick`) is the timeout of the
code; a session that flushes an old schedule over a new one excuses the day, as every change of the schedule does.

The module also has the theorems about `ServerStart`: `BootTypeCorrect`, `LedgerStaysTrue`, `ServesOnlyMigrated`, `SeedsOnce`,
`KeepsLibrary`, for any number of kills. The invariant says of both the committed database and the open
transaction that they are true to their ledger and hold icons only where there is a column for them
(`Good`), where the process is in the list (`Progress`), what a transaction may differ in from what is
committed (`Isolation`) and where `foreign_keys` may be off (`Enforcement`). `KeepsLibrary` rests on
`BodyKeeps`: 0002 drops the column `icon`, and only runs on databases that have none.

**WebHome_proofs.** `TypeCorrect`, `BootstrapIsWhole` (`BootstrapWhole`), `ChangesStick` (`ChangeSticks`), `PrivateUntilChange`
(`DataAfterChange`) and `PageIsTrue` (`PageTrue`), for any number of acts, requests, passwords and failures. What makes them inductive is what requests on their way
know: one that is between two INSERTs of the bootstrap is there as long as the database is not whole (`SettingUp`); the row that a
change of credentials has read is still the row, unless two overlap (`Seen`); and until the first change neither the page, nor the
picture a drag would put back, nor an answer on its way is private (`Private`).
`PageIsTrue` follows the newest reload (`Newest`): its request has the route of the token the page has now, or gets no data (`Void`: the reload after an
edit whose answer logged the page out); its answer, what is shown of it and what a drag would put back of it hold all that was written, or an edit is
still on its way, after which the page asks again. A preview is left only while a drag is on or its edit is on its way.

The module also has the theorems about `ChangeFeed`: `FeedTypeCorrect` and `FeedIsSound` (`FeedSound`), for any number of requests, bookmarks and folders and any
size of a page. The invariant `FeedInv` is the types, `FeedComplete`, and three parts. `InBudget`: rows that are logged and requests at work are no more than were sent.
`Shapes`: what a request is about to log fits what it is about to do (`Shaped`), and nobody works at a bookmark that was not made yet (`Newborn`). `Followed`: a bookmark that is not `overlaid` is
`Tracked`, that is, one request is at it at a time (`OneAt`), what a request that has changed it is going to say of it is true, and a PATCH has read it with the `deleted_at` it still has (`Held`), and each
column is as the copy has it, is in doubt, or the request at it is about to log the row that settles it (`Covered`, `Settles`): by saying the column or by announcing it. A deletion of a folder settles
what it has moved because the copy still has those bookmarks in it. A run of `LibraryReads` takes the steps of `ChangeFeed` and reads in between, so that `FeedSound` is a property of it as well.
It assumes that no id is that of a folder and of a bookmark (they are uuids).

**WorkerTags_proofs.** `KeptAsAsked` (`AsAsked`) and `SearchIsTrue` (`SearchTrue`), for any number of bookmarks, tags, names, requests and searches that overlap and
stop anywhere. A request that nobody has disturbed knows how far it is: which names it has attached and which it has still to attach make up what
was asked, the names of the bookmark are those it has attached, and the index has no row of it when it is about to insert one (`SoFar`); the
bookmarks of the others are not among the settled ones (`Requested`). `Story` is what `settled` and `indexed` mean, `Found` that a search next to which nothing was written has
the hits and the count of now.

**Only model-checked**: `PagesTrue` and `FilesTrue` of `LibraryReads`; the liveness properties, `LeftoversReclaimed`, `ServesAgain`, `JobEnds`, `HomeAppears` (liveness under fairness is out of
the prover's reach). `Formats`, `PageView` and `LibraryReads` use `RECURSIVE` operators, those of the code, for trees and paths: the prover cannot be used with
them, and what they compute for every tree would be an induction over data.

What the proofs have shown of the model: alternatives of a `CASE` that overlapped (in `ImportMerge` the folder of an item that has both an export id and an empty path, in
`WorkerAuth` the refusal of a request without a token), of which TLC takes the first and the definition either one; they are `IF`s now, in the order of the code. And the row of a
batch in `op_logs`, which had all columns in the model and has one in the code.

## 6. Not modelled

* Page metadata and favicons, the S3 protocol, encryption and signatures, quoting and layout of the files, forms and styles of
  the web application, the scripts and the Docker files: their correctness is in bytes, text and pictures and not
  in the order of steps.
* Tags and search of the server: rows of their own that nothing modelled here depends on; a search is one query.
* Authentication of the server: the same checks as in `WorkerAuth`.
* The migrations of the Worker are applied by `wrangler`, which is not in the repository.
* The endpoints that test a connection, list remote backups or restore one: reads of the provider, followed by an import.
* Two processes of the server at once, several tabs, an expiry of a token while the page is open.

The rest of what is missing is in the plan.
