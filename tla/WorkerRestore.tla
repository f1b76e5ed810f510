---------------------------- MODULE WorkerRestore ----------------------------
(***************************************************************************)
(* The atomic replace_all restore of the Worker runtime, one user's rows.  *)
(*                                                                         *)
(* A restore takes the user's lease row, reads the live rows, copies its   *)
(* plan chunk by chunk into restore_staging, renews the lease and swaps    *)
(* the data set in one D1 batch that is guarded by the lease.  Around it   *)
(* run the CRUD requests (admitted or refused with 423 by the lease), the  *)
(* hourly cron that reclaims leases and staging rows, Workers that are     *)
(* killed at any await, and the clock.                                     *)
(***************************************************************************)
EXTENDS Integers, FiniteSets

CONSTANTS
  Restores,        \* requests POST /backup/import with strategy replace_all
  Writers,         \* CRUD requests of the same user
  Seed,            \* the origin of the rows that are there at the start
  NoRestore,       \* stands for the absent lease row
  LeaseTTL,        \* RESTORE_LEASE_TTL_MS, in ticks
  StagingTTL,      \* RESTORE_STAGING_TTL_MS, in ticks
  Lag,             \* ticks between reading now() and D1 running the statement
  LastStart,       \* bound: no lease is acquired later than this
  MaxClock,        \* bound: the clock stops here
  ReplyMayBeLost   \* may D1 commit a batch whose reply never arrives?

ASSUME OriginsDistinct ==
  /\ Restores \cap Writers = {}
  /\ Seed \notin Restores \cup Writers
  /\ NoRestore \notin Restores
ASSUME BoundsAssumption ==
  /\ LeaseTTL \in Nat \ {0} /\ StagingTTL \in Nat /\ Lag \in Nat
  /\ LastStart \in Nat /\ MaxClock \in Nat
  /\ ReplyMayBeLost \in BOOLEAN
\* 60 minutes against 10: a D1 call would have to take 20 minutes to break it.
ASSUME StagingOutlivesLease == Lag = 0 \/ 2 * (LeaseTTL + Lag) <= StagingTTL

Origin == Restores \cup Writers \cup {Seed}

\* A row is known by its table and by who inserted it: ids are fresh uuids.
Item == [kind : {"bookmark", "folder"}, by : Origin]
RowOf(kind, o) == [kind |-> kind, by |-> o]
Imported(r) == {RowOf("bookmark", r), RowOf("folder", r)}
Bookmarks(items) == {x \in items : x.kind = "bookmark"}
Folders(items)   == {x \in items : x.kind = "folder"}

\* The rows of one plan go to restore_staging in this order: those to insert,
\* then the old ones to delete.
Chunk == {"new", "old"}

VARIABLES
  now,         \* the clock
  lease,       \* the user's row of restore_leases
  staging,     \* restore_staging: which chunks of r's plan it holds
  created,     \* created_at of r's staging rows, the `t` of the handler
  pc,          \* where restore r is
  snap,        \* the live rows r has read
  live,        \* rows with deleted_at IS NULL
  fts,         \* bookmarks that have a row in bookmarks_fts
  wpc,         \* where CRUD request w is
  cron,        \* where the cron is, and the nowIso it read
  committed,   \* history: restores whose batch D1 committed
  overlap      \* history: requests in flight when r acquired the lease

restoreVars == <<pc, snap, created>>
vars == <<now, lease, staging, created, pc, snap, live, fts, wpc, cron,
          committed, overlap>>

Finished  == {"ok", "failed", "conflict", "dead"}
Phase     == {"idle", "acquired", "read_bookmarks", "stage_new", "stage_old",
              "staged", "renewed", "aborting", "expired", "releasing"}
             \cup Finished
InFlight  == {"admitted", "inserted", "reindexing"}
WPhase    == {"idle", "done", "unindexed", "refused"} \cup InFlight

NoLease == [holder |-> NoRestore, expires |-> 0]

\* What now() may have returned for a statement that D1 runs now.
Stamp == {t \in 0..now : now - t <= Lag}

TypeOK ==
  /\ now \in 0..MaxClock
  /\ lease \in [holder : Restores \cup {NoRestore}, expires : Nat]
  /\ staging \in [Restores -> SUBSET Chunk]
  /\ created \in [Restores -> Nat]
  /\ pc \in [Restores -> Phase]
  /\ snap \in [Restores -> SUBSET Item]
  /\ live \subseteq Item
  /\ fts \subseteq Bookmarks(Item)
  /\ wpc \in [Writers -> WPhase]
  /\ cron \in [pc : {"idle", "staging"}, nowIso : Nat]
  /\ committed \subseteq Restores
  /\ overlap \in [Restores -> SUBSET Writers]

Init ==
  /\ now = 0
  /\ lease = NoLease
  /\ staging = [r \in Restores |-> {}]
  /\ created = [r \in Restores |-> 0]
  /\ pc = [r \in Restores |-> "idle"]
  /\ snap = [r \in Restores |-> {}]
  /\ live = Imported(Seed)
  /\ fts = Bookmarks(Imported(Seed))
  /\ wpc = [w \in Writers |-> "idle"]
  /\ cron = [pc |-> "idle", nowIso |-> 0]
  /\ committed = {}
  /\ overlap = [r \in Restores |-> {}]

-----------------------------------------------------------------------------
\* The conditions of the lease statements.

\* acquireRestoreLease: insert, or update WHERE expires_at < t.
LeaseFree(t) == lease.holder = NoRestore \/ lease.expires < t
\* renewRestoreLease, and the guard of the batch: our row, expires_at > t.
HoldsLease_AnyHolder(r, t) == lease.expires > t
HoldsLease_AtExpiry(r, t) == lease.holder = r /\ lease.expires >= t
HoldsLease(r, t) == lease.holder = r /\ lease.expires > t
\* activeRestoreLease: somebody's row, expires_at > t.
LeaseActive(t) == lease.holder # NoRestore /\ lease.expires > t

Goto(r, from, to) == pc[r] = from /\ pc' = [pc EXCEPT ![r] = to]

-----------------------------------------------------------------------------
\* atomicReplaceAllRestore

AcquireRestoreLease(r) ==
  /\ now <= LastStart
  /\ Goto(r, "idle", "acquired")
  /\ \E t \in Stamp :
       /\ LeaseFree(t)
       /\ lease' = [holder |-> r, expires |-> t + LeaseTTL]
       /\ \E handlerT \in Stamp :
            /\ handlerT <= t
            /\ created' = [created EXCEPT ![r] = handlerT]
  /\ overlap' = [overlap EXCEPT ![r] = {w \in Writers : wpc[w] \in InFlight}]
  /\ UNCHANGED <<now, staging, snap, live, fts, wpc, cron, committed>>

\* 423 from the request gate or 409 from the upsert: nothing was written.
LeaseConflict(r) ==
  /\ Goto(r, "idle", "conflict")
  /\ \E t \in Stamp : ~LeaseFree(t)
  /\ UNCHANGED <<now, lease, staging, created, snap, live, fts, wpc, cron,
                 committed, overlap>>

\* The snapshot is two SELECTs (existingTags, a third, is left out).
ReadLiveBookmarks(r) ==
  /\ Goto(r, "acquired", "read_bookmarks")
  /\ snap' = [snap EXCEPT ![r] = Bookmarks(live)]
  /\ UNCHANGED <<now, lease, staging, created, live, fts, wpc, cron, committed,
                 overlap>>

ReadLiveFolders(r) ==
  /\ Goto(r, "read_bookmarks", "stage_new")
  /\ snap' = [snap EXCEPT ![r] = @ \cup Folders(live)]
  /\ UNCHANGED <<now, lease, staging, created, live, fts, wpc, cron, committed,
                 overlap>>

InsertStageChunk(r) ==
  /\ \/ /\ Goto(r, "stage_new", "stage_old")
        /\ staging' = [staging EXCEPT ![r] = @ \cup {"new"}]
     \/ /\ Goto(r, "stage_old", "staged")
        /\ staging' = [staging EXCEPT ![r] = @ \cup {"old"}]
  /\ UNCHANGED <<now, lease, created, snap, live, fts, wpc, cron, committed,
                 overlap>>

\* A chunk is refused (413) or throws (500): abortRestore.
StagingFails(r) ==
  /\ pc[r] \in {"stage_new", "stage_old"}
  /\ pc' = [pc EXCEPT ![r] = "aborting"]
  /\ UNCHANGED <<now, lease, staging, created, snap, live, fts, wpc, cron,
                 committed, overlap>>

\* D1 throws outside every try of the handler: a 500, with nothing undone.
HandlerThrows(r) ==
  /\ pc[r] \in {"acquired", "read_bookmarks", "staged"}
  /\ pc' = [pc EXCEPT ![r] = "failed"]
  /\ UNCHANGED <<now, lease, staging, created, snap, live, fts, wpc, cron,
                 committed, overlap>>

RenewRestoreLease(r) ==
  /\ Goto(r, "staged", "renewed")
  /\ \E t \in Stamp :
       /\ HoldsLease(r, t)
       /\ lease' = [lease EXCEPT !.expires = t + LeaseTTL]
  /\ UNCHANGED <<now, staging, created, snap, live, fts, wpc, cron, committed,
                 overlap>>

RenewRefused(r) ==
  /\ Goto(r, "staged", "expired")
  /\ \E t \in Stamp : ~HoldsLease(r, t)
  /\ UNCHANGED <<now, lease, staging, created, snap, live, fts, wpc, cron,
                 committed, overlap>>

\* The two deletes that end a restore, in the batch or after an abort.
Cleaned_WholeUser(r) == [s \in Restores |-> {}]
Cleaned(r) == [staging EXCEPT ![r] = {}]
Released(r) == IF lease.holder = r THEN NoLease ELSE lease

\* The live rows after the batch: it inserts what the new chunk stages and
\* soft-deletes what the old chunk stages.
SwapLive_KeepsOld(r) == live \cup Imported(r)
SwapLive(r) ==
  (live \ (IF "old" \in staging[r] THEN snap[r] ELSE {}))
    \cup (IF "new" \in staging[r] THEN Imported(r) ELSE {})

\* The index after the batch: rebuilt from the live rows.
RebuiltFts_None(items) == fts
RebuiltFts(items) == Bookmarks(items)

\* What a restore whose batch was committed can go through next: it replies,
\* it is killed first, or it sees an error and runs abortRestore.
AfterCommit_MayThrow(r) == {"ok", "dead", "aborting"}
AfterCommit(r) == {"ok", "dead"} \cup (IF ReplyMayBeLost THEN {"aborting"} ELSE {})

\* The whole batch.  Its last statements drop the staging rows and the lease.
Cutover(r) ==
  /\ pc[r] = "renewed"
  /\ \E commitTime \in Stamp : HoldsLease(r, commitTime)
  /\ live' = SwapLive(r)
  /\ fts' = RebuiltFts(live')
  /\ staging' = Cleaned(r)
  /\ lease' = Released(r)
  /\ committed' = committed \cup {r}
  /\ \E next \in AfterCommit(r) : pc' = [pc EXCEPT ![r] = next]
  /\ UNCHANGED <<now, created, snap, wpc, cron, overlap>>

\* The guard or another statement fails: D1 rolls the batch back.
CutoverRolledBack(r) ==
  /\ Goto(r, "renewed", "aborting")
  /\ UNCHANGED <<now, lease, staging, created, snap, live, fts, wpc, cron,
                 committed, overlap>>

\* cleanupStaging; its failure is swallowed.  Only abortRestore goes on to
\* release the lease, the refused renewal does not.
CleanupStaging(r) ==
  /\ \/ Goto(r, "aborting", "releasing")
     \/ Goto(r, "expired", "failed")
  /\ staging' \in {staging, Cleaned(r)}
  /\ UNCHANGED <<now, lease, created, snap, live, fts, wpc, cron, committed,
                 overlap>>

\* releaseRestoreLease; its failure is swallowed.
ReleaseRestoreLease(r) ==
  /\ Goto(r, "releasing", "failed")
  /\ lease' \in {lease, Released(r)}
  /\ UNCHANGED <<now, staging, created, snap, live, fts, wpc, cron, committed,
                 overlap>>

\* The Worker is killed at one of its awaits.
Killed(r) ==
  /\ pc[r] \notin Finished \cup {"idle"}
  /\ pc' = [pc EXCEPT ![r] = "dead"]
  /\ UNCHANGED <<now, lease, staging, created, snap, live, fts, wpc, cron,
                 committed, overlap>>

-----------------------------------------------------------------------------
\* CRUD requests: the gate, then the statements of the handler.

Admit(w) ==
  /\ wpc[w] = "idle"
  /\ \E t \in Stamp :
       wpc' = [wpc EXCEPT ![w] = IF LeaseActive(t) THEN "refused" ELSE "admitted"]
  /\ UNCHANGED <<now, lease, staging, restoreVars, live, fts, cron, committed,
                 overlap>>

\* POST /bookmarks: INSERT, then the two statements of syncFts.
InsertBookmark(w) ==
  /\ wpc[w] = "admitted"
  /\ wpc' = [wpc EXCEPT ![w] = "inserted"]
  /\ live' = live \cup {RowOf("bookmark", w)}
  /\ UNCHANGED <<now, lease, staging, restoreVars, fts, cron, committed, overlap>>

SyncFtsDelete(w) ==
  /\ wpc[w] = "inserted"
  /\ wpc' = [wpc EXCEPT ![w] = "reindexing"]
  /\ fts' = fts \ {RowOf("bookmark", w)}
  /\ UNCHANGED <<now, lease, staging, restoreVars, live, cron, committed, overlap>>

SyncFtsInsert(w) ==
  /\ wpc[w] = "reindexing"
  /\ wpc' = [wpc EXCEPT ![w] = "done"]
  /\ fts' = fts \cup {RowOf("bookmark", w)}
  /\ UNCHANGED <<now, lease, staging, restoreVars, live, cron, committed, overlap>>

\* syncFts swallows its errors, and the Worker may be killed within it.
SyncFtsFails(w) ==
  /\ wpc[w] \in {"inserted", "reindexing"}
  /\ wpc' = [wpc EXCEPT ![w] = "unindexed"]
  /\ UNCHANGED <<now, lease, staging, restoreVars, live, fts, cron, committed,
                 overlap>>

\* POST /folders.
InsertFolder(w) ==
  /\ wpc[w] = "admitted"
  /\ wpc' = [wpc EXCEPT ![w] = "done"]
  /\ live' = live \cup {RowOf("folder", w)}
  /\ UNCHANGED <<now, lease, staging, restoreVars, fts, cron, committed, overlap>>

\* DELETE /bookmarks/:id sets deleted_at; the index row stays behind.
DeleteBookmark(w) ==
  /\ wpc[w] = "admitted"
  /\ wpc' = [wpc EXCEPT ![w] = "done"]
  /\ \E b \in Bookmarks(live) : live' = live \ {b}
  /\ UNCHANGED <<now, lease, staging, restoreVars, fts, cron, committed, overlap>>

-----------------------------------------------------------------------------
\* scheduled(): the two reclaiming statements share one nowIso.

ExpiredLease_Staged(t) ==
  lease.holder # NoRestore /\ lease.expires <= t /\ staging[lease.holder] # {}
ExpiredLease(t) == lease.holder # NoRestore /\ lease.expires <= t

CronBinding(t) == [pc |-> "staging", nowIso |-> t]

CronDeleteLeases ==
  /\ cron.pc = "idle"
  /\ \E t \in Stamp :
       /\ cron' = CronBinding(t)
       /\ lease' = IF ExpiredLease(t) THEN NoLease ELSE lease
  /\ UNCHANGED <<now, staging, restoreVars, live, fts, wpc, committed, overlap>>

Reclaimable_ByExpiredLease(r) == lease.holder = r /\ lease.expires <= cron.nowIso
Reclaimable(r) ==
  /\ created[r] < cron.nowIso - StagingTTL
  /\ ~HoldsLease(r, cron.nowIso)

CronDeleteStaging ==
  /\ cron.pc = "staging"
  /\ cron' = [pc |-> "idle", nowIso |-> 0]
  /\ staging' = [r \in Restores |-> IF Reclaimable(r) THEN {} ELSE staging[r]]
  /\ UNCHANGED <<now, lease, restoreVars, live, fts, wpc, committed, overlap>>

Tick ==
  /\ now < MaxClock
  /\ now' = now + 1
  /\ UNCHANGED <<lease, staging, restoreVars, live, fts, wpc, cron, committed,
                 overlap>>

-----------------------------------------------------------------------------
RestoreStep(r) ==
  \/ AcquireRestoreLease(r) \/ LeaseConflict(r)
  \/ ReadLiveBookmarks(r) \/ ReadLiveFolders(r)
  \/ InsertStageChunk(r) \/ StagingFails(r) \/ HandlerThrows(r)
  \/ RenewRestoreLease(r) \/ RenewRefused(r)
  \/ Cutover(r) \/ CutoverRolledBack(r)
  \/ CleanupStaging(r) \/ ReleaseRestoreLease(r) \/ Killed(r)

WriterStep(w) ==
  \/ Admit(w) \/ InsertBookmark(w) \/ SyncFtsDelete(w) \/ SyncFtsInsert(w)
  \/ SyncFtsFails(w) \/ InsertFolder(w) \/ DeleteBookmark(w)

CronStep == CronDeleteLeases \/ CronDeleteStaging

Next ==
  \/ \E r \in Restores : RestoreStep(r)
  \/ \E w \in Writers : WriterStep(w)
  \/ CronStep
  \/ Tick

Spec == Init /\ [][Next]_vars

\* The platform promises that time passes and that the cron trigger fires; it
\* promises nothing about a request, whose Worker may be killed or stall.
FairSpec == Spec /\ WF_vars(Tick) /\ WF_vars(CronStep)

-----------------------------------------------------------------------------
\* Properties

\* The batch of restore r is committed by this step.
Commits(r) == r \in committed' \ committed

\* The live rows are never a union of two data sets: apart from rows that CRUD
\* requests wrote, everything live came with one restore (or from the start).
\* atomicReplaceAllRestore plans from a snapshot, so a second restore between
\* snapshot and swap would survive the swap.
OneDataset ==
  \A x, y \in live : x.by \notin Writers /\ y.by \notin Writers => x.by = y.by

\* A committed restore puts in all its rows: neither an abort nor the cron may
\* take staging rows away from a restore that goes on to swap.
CutoverComplete ==
  [][\A r \in Restores : Commits(r) => Imported(r) \subseteq live']_vars

\* What else is live after the swap was written by a request that had passed
\* the lease gate before the restore acquired the lease: the lease and its
\* renewal keep every later request out.
OnlyOverlappingWritesSurvive ==
  [][\A r \in Restores : Commits(r) =>
       \A x \in live' : x.by = r \/ x.by \in overlap[r]]_vars

\* Every live bookmark can be found by search, except one whose own request has
\* not got to the end of syncFts: no restore leaves a row unsearchable, and it
\* takes no index row of a live bookmark away.
Searchable ==
  \A b \in Bookmarks(live) :
    \/ b \in fts
    \/ b.by \in Writers /\ wpc[b.by] \in {"inserted", "reindexing", "unindexed"}

\* "previous live dataset preserved": a restore that reports failure has not
\* changed the live rows.
FailureReportedTruly ==
  \A r \in Restores : pc[r] \in {"failed", "conflict"} => r \notin committed

\* Whatever became of the Worker of a restore, by time and the cron alone its
\* lease stops blocking the user and its staging rows go.
LeftoversReclaimed ==
  \A r \in Restores :
    /\ lease.holder = r ~> lease.holder # r
    /\ pc[r] \in Finished ~> staging[r] = {}

\* A restore does what ReplaceAll promises.
Result(r) ==
  CASE pc[r] = "ok" -> "ok"
    [] pc[r] = "dead" -> "silent"
    [] pc[r] \in {"failed", "conflict"} -> "failed"
    [] OTHER -> "running"

Promise == INSTANCE ReplaceAll WITH result <- [r \in Restores |-> Result(r)]
KeepsPromise == Promise!Spec
=============================================================================
