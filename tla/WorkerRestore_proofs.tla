------------------------- MODULE WorkerRestore_proofs -------------------------
(* Theorems about WorkerRestore, for any restores, writers and times. *)
EXTENDS WorkerRestore, TLAPS

\* The phases in which r has read the live bookmarks, the live folders, and
\* the phases in which its first and its second chunk are staged.
HasBookmarks(r) == pc[r] \in {"read_bookmarks", "stage_new", "stage_old", "staged", "renewed"}
HasFolders(r)   == pc[r] \in {"stage_new", "stage_old", "staged", "renewed"}
HasNew(r)       == pc[r] \in {"stage_old", "staged", "renewed"}
HasOld(r)       == pc[r] \in {"staged", "renewed"}

\* What r has read is all there is, but for the rows of CRUD requests, as long
\* as the lease row is r's: any other restore has to take the row over first.
SnapshotComplete ==
  \A r \in Restores : lease.holder = r =>
    \A x \in live :
      /\ HasBookmarks(r) /\ x.kind = "bookmark" /\ x.by \notin Writers => x \in snap[r]
      /\ HasFolders(r) /\ x.kind = "folder" /\ x.by \notin Writers => x \in snap[r]

\* When r's lease can at the latest end.
LeaseBound ==
  \A r \in Restores : lease.holder = r =>
    /\ lease.expires <= created[r] + Lag + LeaseTTL \/ pc[r] \notin {"acquired", "read_bookmarks", "stage_new", "stage_old", "staged"}
    /\ lease.expires <= created[r] + Lag + 2 * LeaseTTL

\* r's chunks are in the table as long as its lease can still be renewed or
\* pass the guard of the batch.
CanProceed(r) == \E t \in Stamp : HoldsLease(r, t)
StagingKept ==
  \A r \in Restores : CanProceed(r) =>
    /\ HasNew(r) => "new" \in staging[r]
    /\ HasOld(r) => "old" \in staging[r]

CronStampOK == cron.pc = "staging" => cron.nowIso <= now

IInv == TypeOK /\ SnapshotComplete /\ LeaseBound /\ StagingKept /\ CronStampOK /\ OneDataset

\* With D1 answering at once: a request in flight, or a row r has not read,
\* belongs to a request that was in flight when r acquired the lease.
NoLateRequests ==
  \A r \in Restores : HoldsLease(r, now) =>
    /\ \A w \in Writers : wpc[w] \in InFlight => w \in overlap[r]
    /\ \A x \in live :
         /\ HasBookmarks(r) /\ x.kind = "bookmark" => x \in snap[r] \/ x.by \in overlap[r]
         /\ HasFolders(r) /\ x.kind = "folder" => x \in snap[r] \/ x.by \in overlap[r]

-----------------------------------------------------------------------------
(* Type correctness. *)

LEMMA RowTypes ==
  /\ \A k \in {"bookmark", "folder"}, o \in Origin : RowOf(k, o) \in Item
  /\ \A o \in Origin : Imported(o) \subseteq Item
  /\ \A w \in Writers : RowOf("bookmark", w) \in Bookmarks(Item)
  BY DEF RowOf, Item, Imported, Bookmarks, Origin

LEMMA InitTypeOK == Init => TypeOK
  <1> SUFFICES ASSUME Init PROVE TypeOK
    OBVIOUS
  <1>1. live \subseteq Item /\ fts \subseteq Bookmarks(Item)
    BY RowTypes DEF Init, Bookmarks, Origin
  <1> QED
    BY <1>1, BoundsAssumption
    DEF Init, TypeOK, NoLease, Phase, Finished, WPhase, InFlight

LEMMA RestoreStepTypeOK ==
  ASSUME TypeOK, NEW r \in Restores, RestoreStep(r)
  PROVE  TypeOK'
  <1> USE BoundsAssumption DEF TypeOK, Goto
  <1>1. CASE AcquireRestoreLease(r)
    BY <1>1 DEF AcquireRestoreLease, Phase, Finished, Stamp
  <1>2. CASE LeaseConflict(r)
    BY <1>2 DEF LeaseConflict, Phase, Finished
  <1>3. CASE ReadLiveBookmarks(r)
    BY <1>3 DEF ReadLiveBookmarks, Phase, Finished, Bookmarks
  <1>4. CASE ReadLiveFolders(r)
    BY <1>4 DEF ReadLiveFolders, Phase, Finished, Folders
  <1>5. CASE InsertStageChunk(r)
    BY <1>5 DEF InsertStageChunk, Phase, Finished, Chunk
  <1>6. CASE StagingFails(r)
    BY <1>6 DEF StagingFails, Phase, Finished
  <1>7. CASE HandlerThrows(r)
    BY <1>7 DEF HandlerThrows, Phase, Finished
  <1>8. CASE RenewRestoreLease(r)
    BY <1>8 DEF RenewRestoreLease, Phase, Finished, Stamp, HoldsLease
  <1>9. CASE RenewRefused(r)
    BY <1>9 DEF RenewRefused, Phase, Finished
  <1>10. CASE Cutover(r)
    <2>1. live' \subseteq Item
      BY <1>10, RowTypes DEF Cutover, SwapLive, Origin
    <2>2. fts' \subseteq Bookmarks(Item)
      BY <1>10, <2>1 DEF Cutover, RebuiltFts, Bookmarks
    <2>3. pc' \in [Restores -> Phase]
      BY <1>10 DEF Cutover, AfterCommit, Phase, Finished
    <2> QED
      BY <1>10, <2>1, <2>2, <2>3 DEF Cutover, NoLease, Released, Cleaned
  <1>11. CASE CutoverRolledBack(r)
    BY <1>11 DEF CutoverRolledBack, Phase, Finished
  <1>12. CASE CleanupStaging(r)
    BY <1>12 DEF CleanupStaging, Cleaned, Phase, Finished
  <1>13. CASE ReleaseRestoreLease(r)
    BY <1>13 DEF ReleaseRestoreLease, Phase, Finished, Released, NoLease
  <1>14. CASE Killed(r)
    BY <1>14 DEF Killed, Phase, Finished
  <1> QED
    BY <1>1, <1>2, <1>3, <1>4, <1>5, <1>6, <1>7, <1>8, <1>9, <1>10, <1>11, <1>12, <1>13, <1>14 DEF RestoreStep

LEMMA WriterStepTypeOK ==
  ASSUME TypeOK, NEW w \in Writers, WriterStep(w)
  PROVE  TypeOK'
  <1> USE RowTypes DEF TypeOK, WPhase, InFlight, restoreVars, Origin
  <1>1. CASE Admit(w)
    BY <1>1 DEF Admit
  <1>2. CASE InsertBookmark(w)
    BY <1>2 DEF InsertBookmark
  <1>3. CASE SyncFtsDelete(w)
    BY <1>3 DEF SyncFtsDelete
  <1>4. CASE SyncFtsInsert(w) \/ SyncFtsFails(w)
    BY <1>4 DEF SyncFtsInsert, SyncFtsFails
  <1>5. CASE InsertFolder(w)
    BY <1>5 DEF InsertFolder
  <1>6. CASE DeleteBookmark(w)
    BY <1>6 DEF DeleteBookmark
  <1> QED
    BY <1>1, <1>2, <1>3, <1>4, <1>5, <1>6 DEF WriterStep

LEMMA CronStepTypeOK ==
  ASSUME TypeOK, CronStep \/ Tick
  PROVE  TypeOK'
  <1> USE BoundsAssumption DEF TypeOK, restoreVars
  <1>1. CASE CronDeleteLeases
    BY <1>1 DEF CronDeleteLeases, CronBinding, NoLease, Stamp
  <1>2. CASE CronDeleteStaging
    BY <1>2 DEF CronDeleteStaging
  <1>3. CASE Tick
    BY <1>3 DEF Tick
  <1> QED
    BY <1>1, <1>2, <1>3 DEF CronStep

LEMMA StepTypeOK == TypeOK /\ [Next]_vars => TypeOK'
  <1> SUFFICES ASSUME TypeOK, [Next]_vars PROVE TypeOK'
    OBVIOUS
  <1>1. CASE UNCHANGED vars
    BY <1>1 DEF TypeOK, vars, restoreVars
  <1> QED
    BY <1>1, RestoreStepTypeOK, WriterStepTypeOK, CronStepTypeOK DEF Next

\* Every reachable state has the declared types: no phase, chunk or row the
\* handlers do not know, and no lease time before the clock's start.
THEOREM TypeCorrect == Spec => []TypeOK
  BY InitTypeOK, StepTypeOK, PTL DEF Spec

-----------------------------------------------------------------------------
(* The snapshot, the staging rows and the data set. *)

LEMMA InitIInv == Init => IInv
  <1> SUFFICES ASSUME Init PROVE IInv
    OBVIOUS
  <1>1. TypeOK
    BY InitTypeOK
  <1>2. ~\E r \in Restores : lease.holder = r
    BY OriginsDistinct DEF Init, NoLease
  <1>3. SnapshotComplete /\ LeaseBound
    BY <1>2 DEF SnapshotComplete, LeaseBound
  <1>4. StagingKept
    BY <1>2 DEF StagingKept, CanProceed, HoldsLease
  <1>5. CronStampOK
    BY DEF Init, CronStampOK
  <1>6. OneDataset
    BY DEF Init, OneDataset, Imported, RowOf
  <1> QED
    BY <1>1, <1>3, <1>4, <1>5, <1>6 DEF IInv

LEMMA SnapshotCompleteStep ==
  ASSUME IInv, [Next]_vars
  PROVE  SnapshotComplete'
  <1> SUFFICES ASSUME NEW r \in Restores, lease'.holder = r, NEW x \in live'
               PROVE  /\ HasBookmarks(r)' /\ x.kind = "bookmark" /\ x.by \notin Writers
                           => x \in snap'[r]
                      /\ HasFolders(r)' /\ x.kind = "folder" /\ x.by \notin Writers
                           => x \in snap'[r]
    BY DEF SnapshotComplete
  <1> USE DEF IInv, SnapshotComplete, HasBookmarks, HasFolders
  <1>1. CASE UNCHANGED vars
    BY <1>1 DEF vars
  <1>2. CASE \E s \in Restores : RestoreStep(s)
    <2>0. PICK s \in Restores : RestoreStep(s)
      BY <1>2
    <2> USE OriginsDistinct DEF TypeOK, Goto
    <2>1. CASE AcquireRestoreLease(s)
      BY <2>1 DEF AcquireRestoreLease
    <2>2. CASE ReadLiveBookmarks(s)
      BY <2>2 DEF ReadLiveBookmarks, Bookmarks
    <2>3. CASE ReadLiveFolders(s)
      BY <2>3 DEF ReadLiveFolders, Folders
    <2>4. CASE InsertStageChunk(s)
      BY <2>4 DEF InsertStageChunk
    <2>5. CASE RenewRestoreLease(s)
      BY <2>5 DEF RenewRestoreLease, HoldsLease
    <2>6. CASE Cutover(s)
      BY <2>6 DEF Cutover, NoLease, Released, HoldsLease
    <2>7. CASE ReleaseRestoreLease(s)
      BY <2>7 DEF ReleaseRestoreLease, Released, NoLease
    <2>8. CASE LeaseConflict(s) \/ StagingFails(s) \/ HandlerThrows(s)
               \/ RenewRefused(s) \/ CutoverRolledBack(s) \/ CleanupStaging(s)
               \/ Killed(s)
      BY <2>8 DEF LeaseConflict, StagingFails, HandlerThrows, RenewRefused,
                  CutoverRolledBack, CleanupStaging, Killed, Finished
    <2> QED
      BY <2>0, <2>1, <2>2, <2>3, <2>4, <2>5, <2>6, <2>7, <2>8 DEF RestoreStep
  <1>3. CASE \E w \in Writers : WriterStep(w)
    <2>1. lease' = lease /\ pc' = pc /\ snap' = snap
      BY <1>3 DEF WriterStep, Admit, InsertBookmark, SyncFtsDelete, SyncFtsInsert,
                  SyncFtsFails, InsertFolder, DeleteBookmark, restoreVars
    <2>2. x \in live \/ x.by \in Writers
      BY <1>3 DEF WriterStep, Admit, InsertBookmark, SyncFtsDelete, SyncFtsInsert,
                  SyncFtsFails, InsertFolder, DeleteBookmark, RowOf
    <2> QED
      BY <2>1, <2>2
  <1>4. CASE CronStep \/ Tick
    BY <1>4, OriginsDistinct
    DEF CronStep, CronDeleteLeases, CronDeleteStaging, Tick, NoLease, restoreVars
  <1> QED
    BY <1>1, <1>2, <1>3, <1>4 DEF Next

LEMMA LeaseBoundStep ==
  ASSUME IInv, [Next]_vars
  PROVE  LeaseBound'
  <1> USE BoundsAssumption, OriginsDistinct DEF IInv, TypeOK, LeaseBound
  <1>1. CASE UNCHANGED vars
    BY <1>1 DEF vars
  <1>2. ASSUME NEW s \in Restores, RestoreStep(s) PROVE LeaseBound'
    <2> USE DEF Goto
    <2>1. CASE AcquireRestoreLease(s)
      BY <2>1 DEF AcquireRestoreLease, Stamp
    <2>2. CASE ReadLiveBookmarks(s) \/ ReadLiveFolders(s) \/ InsertStageChunk(s)
      BY <2>2 DEF ReadLiveBookmarks, ReadLiveFolders, InsertStageChunk
    <2>3. CASE RenewRestoreLease(s)
      BY <2>3 DEF RenewRestoreLease, HoldsLease, Stamp
    <2>4. CASE Cutover(s) \/ ReleaseRestoreLease(s)
      BY <2>4 DEF Cutover, AfterCommit, ReleaseRestoreLease, Released, NoLease, HoldsLease
    <2>5. CASE LeaseConflict(s) \/ StagingFails(s) \/ HandlerThrows(s)
               \/ RenewRefused(s) \/ CutoverRolledBack(s) \/ CleanupStaging(s)
               \/ Killed(s)
      BY <2>5 DEF LeaseConflict, StagingFails, HandlerThrows, RenewRefused,
                  CutoverRolledBack, CleanupStaging, Killed
    <2> QED
      BY <1>2, <2>1, <2>2, <2>3, <2>4, <2>5 DEF RestoreStep
  <1>3. ASSUME NEW w \in Writers, WriterStep(w) PROVE LeaseBound'
    BY <1>3 DEF WriterStep, Admit, InsertBookmark, SyncFtsDelete, SyncFtsInsert,
                SyncFtsFails, InsertFolder, DeleteBookmark, restoreVars
  <1>4. CASE CronStep \/ Tick
    BY <1>4 DEF CronStep, CronDeleteLeases, CronDeleteStaging, Tick, NoLease,
                restoreVars
  <1> QED
    BY <1>1, <1>2, <1>3, <1>4 DEF Next

\* The cron never finds the rows of a restore that can still proceed old
\* enough, nor without their lease.
LEMMA ProceedingNotReclaimable ==
  ASSUME IInv, cron.pc = "staging", NEW r \in Restores, CanProceed(r)
  PROVE  ~Reclaimable(r)
  <1>1. PICK t \in Stamp : HoldsLease(r, t)
    BY DEF CanProceed
  <1>2. /\ lease.holder = r /\ lease.expires > t /\ t \in Nat /\ now - t <= Lag
        /\ lease.expires <= created[r] + Lag + 2 * LeaseTTL
        /\ cron.nowIso <= now
        /\ now \in Nat /\ lease.expires \in Nat /\ created[r] \in Nat /\ cron.nowIso \in Nat
    BY <1>1, BoundsAssumption
    DEF HoldsLease, Stamp, IInv, TypeOK, LeaseBound, CronStampOK
  <1>3. CASE Lag = 0
    BY <1>2, <1>3 DEF Reclaimable, HoldsLease
  <1>4. CASE 2 * (LeaseTTL + Lag) <= StagingTTL
    BY <1>2, <1>4, BoundsAssumption DEF Reclaimable
  <1> QED
    BY <1>3, <1>4, StagingOutlivesLease

LEMMA StagingKeptStep ==
  ASSUME IInv, [Next]_vars
  PROVE  StagingKept'
  <1> SUFFICES ASSUME NEW r \in Restores, CanProceed(r)'
               PROVE  /\ HasNew(r)' => "new" \in staging'[r]
                      /\ HasOld(r)' => "old" \in staging'[r]
    BY DEF StagingKept
  <1> USE DEF IInv, TypeOK, StagingKept, HasNew, HasOld
  <1>1. CASE UNCHANGED vars
    BY <1>1 DEF vars, CanProceed, HoldsLease, Stamp
  <1>2. CASE \E s \in Restores : RestoreStep(s)
    <2>0. PICK s \in Restores : RestoreStep(s)
      BY <1>2
    <2> USE OriginsDistinct DEF Goto
    <2>1. CASE AcquireRestoreLease(s)
      BY <2>1 DEF AcquireRestoreLease, CanProceed, HoldsLease
    <2>2. CASE InsertStageChunk(s)
      BY <2>2 DEF InsertStageChunk, CanProceed, HoldsLease, Stamp
    <2>3. CASE RenewRestoreLease(s)
      <3>1. lease.holder = s /\ lease'.holder = s /\ CanProceed(s)
        BY <2>3 DEF RenewRestoreLease, HoldsLease, CanProceed
      <3>2. s = r
        BY <3>1 DEF CanProceed, HoldsLease
      <3> QED
        BY <2>3, <3>1, <3>2 DEF RenewRestoreLease
    <2>4. CASE Cutover(s)
      BY <2>4 DEF Cutover, NoLease, Released, Cleaned, CanProceed, HoldsLease
    <2>5. CASE ReleaseRestoreLease(s)
      <3>1. CanProceed(r)
        BY <2>5 DEF ReleaseRestoreLease, Released, NoLease, CanProceed, HoldsLease, Stamp
      <3> QED
        BY <2>5, <3>1 DEF ReleaseRestoreLease
    <2>6. CASE LeaseConflict(s) \/ ReadLiveBookmarks(s) \/ ReadLiveFolders(s)
               \/ StagingFails(s) \/ HandlerThrows(s) \/ RenewRefused(s)
               \/ CutoverRolledBack(s) \/ CleanupStaging(s) \/ Killed(s)
      <3>1. CanProceed(r)
        BY <2>6 DEF LeaseConflict, ReadLiveBookmarks, ReadLiveFolders, StagingFails,
                    HandlerThrows, RenewRefused, CutoverRolledBack, CleanupStaging, Cleaned,
                    Killed, CanProceed, HoldsLease, Stamp
      <3> QED
        BY <2>6, <3>1
        DEF LeaseConflict, ReadLiveBookmarks, ReadLiveFolders, StagingFails,
            HandlerThrows, RenewRefused, CutoverRolledBack, CleanupStaging, Cleaned, Killed
    <2> QED
      BY <2>0, <2>1, <2>2, <2>3, <2>4, <2>5, <2>6 DEF RestoreStep
  <1>3. CASE \E w \in Writers : WriterStep(w)
    BY <1>3 DEF WriterStep, Admit, InsertBookmark, SyncFtsDelete, SyncFtsInsert,
                SyncFtsFails, InsertFolder, DeleteBookmark, restoreVars, CanProceed, HoldsLease, Stamp
  <1>4. CASE CronDeleteLeases
    <2>1. CanProceed(r)
      BY <1>4, OriginsDistinct
      DEF CronDeleteLeases, NoLease, CanProceed, HoldsLease, Stamp
    <2> QED
      BY <1>4, <2>1 DEF CronDeleteLeases, restoreVars
  <1>5. CASE CronDeleteStaging
    <2>1. CanProceed(r)
      BY <1>5 DEF CronDeleteStaging, CanProceed, HoldsLease, Stamp
    <2>2. ~Reclaimable(r)
      BY <1>5, <2>1, ProceedingNotReclaimable DEF CronDeleteStaging
    <2> QED
      BY <1>5, <2>1, <2>2 DEF CronDeleteStaging, restoreVars
  <1>6. CASE Tick
    <2>1. PICK t \in 0..now' : now' - t <= Lag /\ HoldsLease(r, t)'
      BY DEF CanProceed, Stamp
    <2>2. CASE t <= now
      <3>1. t \in Stamp /\ HoldsLease(r, t)
        BY <1>6, <2>1, <2>2, BoundsAssumption DEF Tick, HoldsLease, Stamp
      <3> QED
        BY <1>6, <3>1 DEF Tick, CanProceed, restoreVars
    <2>3. CASE t = now + 1
      <3>1. now \in Stamp /\ HoldsLease(r, now)
        BY <1>6, <2>1, <2>3, BoundsAssumption DEF Tick, HoldsLease, Stamp
      <3> QED
        BY <1>6, <3>1 DEF Tick, CanProceed, restoreVars
    <2> QED
      BY <1>6, <2>1, <2>2, <2>3 DEF Tick
  <1> QED
    BY <1>1, <1>2, <1>3, <1>4, <1>5, <1>6 DEF Next, CronStep

LEMMA CronStampStep ==
  ASSUME IInv, [Next]_vars
  PROVE  CronStampOK'
  <1> USE DEF IInv, TypeOK, CronStampOK
  <1>1. CASE UNCHANGED vars
    BY <1>1 DEF vars
  <1>2. CASE \E r \in Restores : RestoreStep(r)
    BY <1>2 DEF RestoreStep, AcquireRestoreLease, LeaseConflict, ReadLiveBookmarks,
                ReadLiveFolders, InsertStageChunk, StagingFails, HandlerThrows,
                RenewRestoreLease, RenewRefused, Cutover, CutoverRolledBack,
                CleanupStaging, ReleaseRestoreLease, Killed
  <1>3. CASE \E w \in Writers : WriterStep(w)
    BY <1>3 DEF WriterStep, Admit, InsertBookmark, SyncFtsDelete, SyncFtsInsert,
                SyncFtsFails, InsertFolder, DeleteBookmark
  <1>4. CASE CronStep \/ Tick
    BY <1>4 DEF CronStep, CronDeleteLeases, CronBinding, CronDeleteStaging, Tick, Stamp
  <1> QED
    BY <1>1, <1>2, <1>3, <1>4 DEF Next

\* What a swap leaves: all of the import, and nothing else that a CRUD request
\* has not written.
LEMMA CutoverSwaps ==
  ASSUME IInv, NEW r \in Restores, Cutover(r)
  PROVE  /\ Imported(r) \subseteq live'
         /\ \A x \in live' : x \in Imported(r) \/ (x \in live /\ x.by \in Writers)
  <1>1. CanProceed(r) /\ lease.holder = r /\ pc[r] = "renewed"
    BY DEF Cutover, CanProceed, HoldsLease
  <1>2. "new" \in staging[r] /\ "old" \in staging[r]
    BY <1>1 DEF IInv, StagingKept, HasNew, HasOld
  <1>3. live' = (live \ snap[r]) \cup Imported(r)
    BY <1>2 DEF Cutover, SwapLive
  <1>4. \A x \in live : x.by \in Writers \/ x \in snap[r]
    BY <1>1 DEF IInv, TypeOK, Item, SnapshotComplete, HasBookmarks, HasFolders
  <1> QED
    BY <1>3, <1>4

LEMMA OneDatasetStep ==
  ASSUME IInv, [Next]_vars
  PROVE  OneDataset'
  <1> USE DEF OneDataset
  <1>1. ASSUME NEW r \in Restores, Cutover(r) PROVE OneDataset'
    <2>1. \A x \in Imported(r) : x.by = r
      BY DEF Imported, RowOf
    <2>2. \A x \in live' : x.by \in Writers \/ x.by = r
      BY <1>1, <2>1, CutoverSwaps
    <2> QED
      BY <2>2
  <1>2. CASE \E w \in Writers : WriterStep(w)
    <2>1. \A x \in live' : x \in live \/ x.by \in Writers
      BY <1>2 DEF WriterStep, Admit, InsertBookmark, SyncFtsDelete, SyncFtsInsert,
                  SyncFtsFails, InsertFolder, DeleteBookmark, RowOf
    <2> QED
      BY <2>1 DEF IInv
  <1>3. ASSUME NEW r \in Restores, RestoreStep(r), ~Cutover(r) PROVE live' = live
    BY <1>3 DEF RestoreStep, AcquireRestoreLease, LeaseConflict, ReadLiveBookmarks,
                ReadLiveFolders, InsertStageChunk, StagingFails, HandlerThrows,
                RenewRestoreLease, RenewRefused, CutoverRolledBack, CleanupStaging,
                ReleaseRestoreLease, Killed
  <1>4. CASE CronStep \/ Tick \/ UNCHANGED vars
    BY <1>4 DEF CronStep, CronDeleteLeases, CronDeleteStaging, Tick, vars, IInv
  <1> QED
    BY <1>1, <1>2, <1>3, <1>4 DEF Next, IInv

LEMMA StepIInv == IInv /\ [Next]_vars => IInv'
  BY StepTypeOK, SnapshotCompleteStep, LeaseBoundStep, StagingKeptStep,
     CronStampStep, OneDatasetStep
  DEF IInv

LEMMA Inductive == Spec => []IInv
  BY InitIInv, StepIInv, PTL DEF Spec

\* However restores, takeovers of expired leases, failures, kills and the cron
\* interleave, and however late D1 answers, the live rows never mix two data
\* sets: atomicReplaceAllRestore swaps against an up-to-date snapshot.
THEOREM NeverMixed == Spec => []OneDataset
  BY Inductive, PTL DEF IInv

LEMMA CommitIsCutover ==
  ASSUME NEW r \in Restores, [Next]_vars, Commits(r)
  PROVE  Cutover(r)
  <1>1. ASSUME NEW s \in Restores, RestoreStep(s) PROVE Cutover(r)
    BY <1>1 DEF Commits, RestoreStep, AcquireRestoreLease, LeaseConflict,
                ReadLiveBookmarks, ReadLiveFolders, InsertStageChunk, StagingFails,
                HandlerThrows, RenewRestoreLease, RenewRefused, Cutover,
                CutoverRolledBack, CleanupStaging, ReleaseRestoreLease, Killed
  <1>2. CASE \E w \in Writers : WriterStep(w)
    BY <1>2 DEF Commits, WriterStep, Admit, InsertBookmark, SyncFtsDelete,
                SyncFtsInsert, SyncFtsFails, InsertFolder, DeleteBookmark
  <1>3. CASE CronStep \/ Tick \/ UNCHANGED vars
    BY <1>3 DEF Commits, CronStep, CronDeleteLeases, CronDeleteStaging, Tick, vars
  <1> QED
    BY <1>1, <1>2, <1>3 DEF Next

\* A swap never happens with part of the plan gone from restore_staging.
THEOREM SwapsAll == Spec => CutoverComplete
  <1>1. IInv /\ [Next]_vars => \A r \in Restores : Commits(r) => Imported(r) \subseteq live'
    BY CommitIsCutover, CutoverSwaps
  <1> QED
    BY <1>1, Inductive, PTL DEF CutoverComplete, Spec

-----------------------------------------------------------------------------
(* Which CRUD rows stay: those of requests admitted before the lease.  This *)
(* needs D1 to answer at once (Lag = 0): a lease that expires between the   *)
(* reading of commitTime and the batch admits later requests.               *)

LEMMA InitNoLateRequests == Init => NoLateRequests
  BY OriginsDistinct DEF Init, NoLease, NoLateRequests, HoldsLease

LEMMA NoLateRequestsStep ==
  ASSUME Lag = 0, IInv, NoLateRequests, [Next]_vars
  PROVE  NoLateRequests'
  <1> SUFFICES ASSUME NEW r \in Restores, HoldsLease(r, now)'
               PROVE  /\ \A w \in Writers : wpc'[w] \in InFlight => w \in overlap'[r]
                      /\ \A x \in live' :
                           /\ HasBookmarks(r)' /\ x.kind = "bookmark"
                                => x \in snap'[r] \/ x.by \in overlap'[r]
                           /\ HasFolders(r)' /\ x.kind = "folder"
                                => x \in snap'[r] \/ x.by \in overlap'[r]
    BY DEF NoLateRequests
  <1> USE DEF IInv, TypeOK, NoLateRequests, HasBookmarks, HasFolders
  <1>0. \A t \in Stamp : t = now
    BY DEF Stamp
  <1>1. CASE UNCHANGED vars
    BY <1>1 DEF vars, HoldsLease
  <1>2. CASE \E s \in Restores : RestoreStep(s)
    <2>0. PICK s \in Restores : RestoreStep(s)
      BY <1>2
    <2> USE OriginsDistinct DEF Goto
    <2>1. CASE AcquireRestoreLease(s)
      BY <2>1 DEF AcquireRestoreLease, HoldsLease
    <2>2. CASE ReadLiveBookmarks(s)
      BY <2>2 DEF ReadLiveBookmarks, Bookmarks, HoldsLease
    <2>3. CASE ReadLiveFolders(s)
      BY <2>3 DEF ReadLiveFolders, Folders, HoldsLease
    <2>4. CASE InsertStageChunk(s)
      BY <2>4 DEF InsertStageChunk, HoldsLease
    <2>5. CASE RenewRestoreLease(s)
      <3>1. HoldsLease(s, now) /\ lease'.holder = s
        BY <1>0, <2>5 DEF RenewRestoreLease, HoldsLease
      <3>2. s = r
        BY <3>1 DEF HoldsLease
      <3> QED
        BY <2>5, <3>1, <3>2 DEF RenewRestoreLease
    <2>6. CASE Cutover(s)
      BY <2>6 DEF Cutover, NoLease, Released, HoldsLease
    <2>7. CASE ReleaseRestoreLease(s)
      BY <2>7 DEF ReleaseRestoreLease, Released, NoLease, HoldsLease
    <2>8. CASE LeaseConflict(s) \/ StagingFails(s) \/ HandlerThrows(s)
               \/ RenewRefused(s) \/ CutoverRolledBack(s) \/ CleanupStaging(s)
               \/ Killed(s)
      BY <2>8 DEF LeaseConflict, StagingFails, HandlerThrows, RenewRefused,
                  CutoverRolledBack, CleanupStaging, Killed, Finished, HoldsLease
    <2> QED
      BY <2>0, <2>1, <2>2, <2>3, <2>4, <2>5, <2>6, <2>7, <2>8 DEF RestoreStep
  <1>3. CASE \E w \in Writers : WriterStep(w)
    <2>0. PICK w \in Writers : WriterStep(w)
      BY <1>3
    <2>1. HoldsLease(r, now) /\ pc' = pc /\ snap' = snap /\ overlap' = overlap
      BY <2>0 DEF WriterStep, Admit, InsertBookmark, SyncFtsDelete, SyncFtsInsert,
                  SyncFtsFails, InsertFolder, DeleteBookmark, restoreVars, HoldsLease
    <2>2. CASE Admit(w)
      <3>1. LeaseActive(now)
        BY <2>1, OriginsDistinct DEF LeaseActive, HoldsLease
      <3>2. wpc' = [wpc EXCEPT ![w] = "refused"]
        BY <1>0, <2>2, <3>1 DEF Admit
      <3> QED
        BY <2>1, <2>2, <3>2 DEF Admit, InFlight
    <2>3. CASE ~Admit(w)
      <3>1. wpc[w] \in InFlight /\ w \in overlap[r]
        BY <2>0, <2>1, <2>3 DEF WriterStep, InsertBookmark, SyncFtsDelete,
             SyncFtsInsert, SyncFtsFails, InsertFolder, DeleteBookmark, InFlight
      <3>2. \A v \in Writers : v # w => wpc'[v] = wpc[v]
        BY <2>0, <2>3 DEF WriterStep, InsertBookmark, SyncFtsDelete, SyncFtsInsert,
             SyncFtsFails, InsertFolder, DeleteBookmark
      <3>3. \A x \in live' : x \in live \/ x.by = w
        BY <2>0, <2>3 DEF WriterStep, InsertBookmark, SyncFtsDelete, SyncFtsInsert,
             SyncFtsFails, InsertFolder, DeleteBookmark, RowOf
      <3> QED
        BY <2>1, <3>1, <3>2, <3>3
    <2> QED
      BY <2>2, <2>3
  <1>4. CASE CronStep \/ Tick
    <2>1. HoldsLease(r, now)
      BY <1>4, OriginsDistinct
      DEF CronStep, CronDeleteLeases, CronDeleteStaging, Tick, NoLease, HoldsLease
    <2> QED
      BY <1>4, <2>1 DEF CronStep, CronDeleteLeases, CronDeleteStaging, Tick, restoreVars
  <1> QED
    BY <1>1, <1>2, <1>3, <1>4 DEF Next

\* While a D1 call takes no time against the lease, whatever a swap leaves next
\* to the import was written by a request that had passed the 423 gate before
\* acquireRestoreLease ran.
THEOREM LaterRequestsKeptOut ==
  ASSUME Lag = 0
  PROVE  Spec => OnlyOverlappingWritesSurvive
  <1>1. IInv /\ NoLateRequests /\ [Next]_vars => (IInv /\ NoLateRequests)'
    BY StepIInv, NoLateRequestsStep
  <1>2. Init => IInv /\ NoLateRequests
    BY InitIInv, InitNoLateRequests
  <1>3. ASSUME IInv, NoLateRequests, [Next]_vars, NEW r \in Restores, Commits(r),
               NEW x \in live'
        PROVE  x.by = r \/ x.by \in overlap[r]
    <2>1. Cutover(r) /\ HoldsLease(r, now) /\ pc[r] = "renewed"
      <3>1. \A t \in Stamp : t = now
        BY <1>3 DEF Stamp, IInv, TypeOK
      <3> QED
        BY <1>3, <3>1, CommitIsCutover DEF Cutover
    <2>2. x \in Imported(r) => x.by = r
      BY DEF Imported, RowOf
    <2>3. CASE x \in live /\ x \notin snap[r]
      BY <1>3, <2>1, <2>3
      DEF NoLateRequests, HasBookmarks, HasFolders, IInv, TypeOK, Item
    <2>4. "old" \in staging[r]
      <3>1. CanProceed(r)
        BY <2>1 DEF Cutover, CanProceed
      <3> QED
        BY <1>3, <2>1, <3>1 DEF IInv, StagingKept, HasOld
    <2> QED
      BY <2>1, <2>2, <2>3, <2>4 DEF Cutover, SwapLive
  <1>4. IInv /\ NoLateRequests /\ [Next]_vars
          => \A r \in Restores : Commits(r) =>
               \A x \in live' : x.by = r \/ x.by \in overlap[r]
    BY <1>3
  <1> QED
    BY <1>1, <1>2, <1>4, PTL DEF Spec, OnlyOverlappingWritesSurvive

-----------------------------------------------------------------------------
(* The index of the search. *)

\* The request that a bookmark was inserted by is not yet at the end of syncFts.
Pending(b) == b.by \in Writers /\ wpc[b.by] \in {"inserted", "reindexing", "unindexed"}

LEMMA InitSearchable == Init => Searchable
  BY DEF Init, Searchable

\* The batch leaves no row of the index that it does not write itself.
LEMMA RestoreStepSearchable ==
  ASSUME TypeOK, Searchable, NEW r \in Restores, RestoreStep(r)
  PROVE  Searchable'
  <1>1. CASE Cutover(r)
    BY <1>1 DEF Cutover, RebuiltFts, Searchable
  <1>2. CASE ~Cutover(r)
    <2>1. UNCHANGED <<live, fts, wpc>>
      BY <1>2 DEF RestoreStep, AcquireRestoreLease, LeaseConflict, ReadLiveBookmarks,
             ReadLiveFolders, InsertStageChunk, StagingFails, HandlerThrows,
             RenewRestoreLease, RenewRefused, CutoverRolledBack, CleanupStaging,
             ReleaseRestoreLease, Killed
    <2> QED
      BY <2>1 DEF Searchable, Bookmarks
  <1> QED
    BY <1>1, <1>2

\* A request takes and adds index rows of its own bookmark alone.
LEMMA WriterStepSearchable ==
  ASSUME TypeOK, Searchable, NEW w \in Writers, WriterStep(w)
  PROVE  Searchable'
  <1>1. SUFFICES ASSUME NEW b \in Bookmarks(live)'
                 PROVE  b \in fts' \/ Pending(b)'
    BY DEF Searchable, Pending
  <1>2. b \in Item /\ b.kind = "bookmark"
    BY <1>1, WriterStepTypeOK DEF TypeOK, Bookmarks
  <1>3. b.by = w => b = RowOf("bookmark", w)
    BY <1>2 DEF Item, RowOf
  <1>4. b \in live => b \in fts \/ Pending(b)
    BY <1>2 DEF Searchable, Bookmarks, Pending
  <1>5. b.by # w => (Pending(b)' <=> Pending(b))
    BY DEF WriterStep, Admit, InsertBookmark, SyncFtsDelete, SyncFtsInsert, SyncFtsFails,
           InsertFolder, DeleteBookmark, TypeOK, Pending
  <1>6. CASE InsertBookmark(w)
    <2>1. b \in live \/ b = RowOf("bookmark", w)
      BY <1>1, <1>6 DEF InsertBookmark, Bookmarks
    <2>2. wpc'[w] = "inserted" /\ fts' = fts
      BY <1>6 DEF InsertBookmark, TypeOK
    <2> QED
      BY <1>4, <1>5, <2>1, <2>2 DEF Pending, RowOf
  <1>7. CASE SyncFtsDelete(w)
    <2>1. wpc'[w] = "reindexing" /\ fts' = fts \ {RowOf("bookmark", w)} /\ live' = live
      BY <1>7 DEF SyncFtsDelete, TypeOK
    <2> QED
      BY <1>1, <1>4, <1>5, <2>1 DEF Pending, Bookmarks, RowOf
  <1>8. CASE SyncFtsInsert(w)
    BY <1>1, <1>3, <1>4, <1>5, <1>8 DEF SyncFtsInsert, Pending, Bookmarks
  <1>9. CASE SyncFtsFails(w)
    <2>1. wpc'[w] = "unindexed" /\ fts' = fts /\ live' = live
      BY <1>9 DEF SyncFtsFails, TypeOK
    <2> QED
      BY <1>1, <1>4, <1>5, <2>1 DEF Pending, Bookmarks
  <1>10. CASE Admit(w)
    BY <1>1, <1>4, <1>5, <1>10 DEF Admit, Pending, Bookmarks
  <1>11. CASE InsertFolder(w) \/ DeleteBookmark(w)
    <2>1. b \in live /\ fts' = fts /\ wpc[w] = "admitted"
      BY <1>1, <1>2, <1>11 DEF InsertFolder, DeleteBookmark, Bookmarks, RowOf
    <2> QED
      BY <1>4, <1>5, <2>1 DEF Pending
  <1> QED
    BY <1>6, <1>7, <1>8, <1>9, <1>10, <1>11 DEF WriterStep

LEMMA StepSearchable == TypeOK /\ Searchable /\ [Next]_vars => Searchable'
  <1> SUFFICES ASSUME TypeOK, Searchable, [Next]_vars PROVE Searchable'
    OBVIOUS
  <1>1. CASE CronStep \/ Tick \/ UNCHANGED vars
    BY <1>1 DEF CronStep, CronDeleteLeases, CronDeleteStaging, Tick, vars, Searchable, Bookmarks
  <1> QED
    BY <1>1, RestoreStepSearchable, WriterStepSearchable DEF Next

\* However many restores swap the data set, are killed or abort between the
\* statements of the requests: every live bookmark is in bookmarks_fts, but for
\* one whose own POST /bookmarks has not finished syncFts or failed in it.
THEOREM StaysSearchable == Spec => []Searchable
  <1> QED
    BY InitSearchable, StepSearchable, TypeCorrect, PTL DEF Spec

-----------------------------------------------------------------------------
(* What a reply tells. *)

\* A committed restore has said so, or says nothing any more.
CommittedIsTold == \A r \in committed : pc[r] \in {"ok", "dead"}

LEMMA CommittedIsToldStep ==
  ASSUME ~ReplyMayBeLost, TypeOK, CommittedIsTold, [Next]_vars
  PROVE  CommittedIsTold'
  <1>1. ASSUME NEW r \in Restores, Cutover(r)
        PROVE  CommittedIsTold'
    BY <1>1 DEF Cutover, AfterCommit, CommittedIsTold, TypeOK
  <1>2. ASSUME NEW r \in Restores, RestoreStep(r), ~Cutover(r)
        PROVE  CommittedIsTold'
    <2>1. pc[r] \notin {"ok", "dead"} /\ committed' = committed
      BY <1>2 DEF RestoreStep, AcquireRestoreLease, LeaseConflict, ReadLiveBookmarks,
             ReadLiveFolders, InsertStageChunk, StagingFails, HandlerThrows,
             RenewRestoreLease, RenewRefused, CutoverRolledBack, CleanupStaging,
             ReleaseRestoreLease, Killed, Goto, Finished
    <2>2. \A s \in Restores : s # r => pc'[s] = pc[s]
      BY <1>2 DEF RestoreStep, AcquireRestoreLease, LeaseConflict, ReadLiveBookmarks,
             ReadLiveFolders, InsertStageChunk, StagingFails, HandlerThrows,
             RenewRestoreLease, RenewRefused, CutoverRolledBack, CleanupStaging,
             ReleaseRestoreLease, Killed, Goto, TypeOK
    <2> QED
      BY <2>1, <2>2 DEF CommittedIsTold, TypeOK
  <1>3. ASSUME NEW w \in Writers, WriterStep(w)
        PROVE  UNCHANGED <<pc, committed>>
    BY <1>3 DEF WriterStep, Admit, InsertBookmark, SyncFtsDelete, SyncFtsInsert,
           SyncFtsFails, InsertFolder, DeleteBookmark, restoreVars
  <1>4. CronStep \/ Tick \/ UNCHANGED vars => UNCHANGED <<pc, committed>>
    BY DEF CronStep, CronDeleteLeases, CronDeleteStaging, Tick, vars, restoreVars
  <1>5. UNCHANGED <<pc, committed>> => CommittedIsTold'
    BY DEF CommittedIsTold
  <1> QED
    BY <1>1, <1>2, <1>3, <1>4, <1>5 DEF Next

\* While D1 loses no reply of a batch it has committed, a restore that answers
\* with an error or a conflict has left the live rows as they were.
THEOREM FailureIsTrue ==
  ASSUME ReplyMayBeLost = FALSE
  PROVE  Spec => []FailureReportedTruly
  <1>1. Init => CommittedIsTold
    BY DEF Init, CommittedIsTold
  <1>2. TypeOK /\ CommittedIsTold /\ [Next]_vars => CommittedIsTold'
    BY CommittedIsToldStep
  <1>3. CommittedIsTold => FailureReportedTruly
    BY DEF CommittedIsTold, FailureReportedTruly
  <1> QED
    BY <1>1, <1>2, <1>3, TypeCorrect, PTL DEF Spec

-----------------------------------------------------------------------------
(* The refinement. *)

LEMMA ImportedIsDataSet ==
  ASSUME NEW o \in Origin
  PROVE  Imported(o) = Promise!DataSet(o)
  <1>1. \A x \in Item : x = RowOf(x.kind, x.by) /\ x.kind \in {"bookmark", "folder"}
    BY DEF Item, RowOf
  <1>2. Imported(o) \subseteq Item /\ \A x \in Imported(o) : x.by = o
    BY RowTypes DEF Imported, RowOf
  <1> QED
    BY <1>1, <1>2 DEF Promise!DataSet, Promise!Item, Promise!Origin, Item, Origin, Imported

LEMMA InitRefines == Init => Promise!Init
  BY ImportedIsDataSet DEF Init, Promise!Init, Result, Origin

LEMMA CutoverRefines ==
  ASSUME ~ReplyMayBeLost, IInv, NEW r \in Restores, Cutover(r)
  PROVE  Promise!Swap(r)
  <1>1. PICK kept \in SUBSET live :
          (\A x \in kept : x.by \in Writers) /\ live' = Promise!DataSet(r) \cup kept
    <2>1. live' = Imported(r) \cup {x \in live' : x \in live /\ x.by \in Writers}
      BY CutoverSwaps
    <2> QED
      BY <2>1, ImportedIsDataSet DEF Origin
  <1>2. PICK next \in {"ok", "dead"} : pc' = [pc EXCEPT ![r] = next]
    BY DEF Cutover, AfterCommit
  <1>3. Result(r) = "running"
    BY DEF Cutover, Result
  <1>4. \E told \in {"ok", "silent"} :
          [s \in Restores |-> Result(s)]' = [[s \in Restores |-> Result(s)] EXCEPT ![r] = told]
    BY <1>2 DEF IInv, TypeOK, Result
  <1> QED
    BY <1>1, <1>3, <1>4 DEF Promise!Swap

LEMMA RestoreStepRefines ==
  ASSUME ~ReplyMayBeLost, IInv, NEW r \in Restores, RestoreStep(r), ~Cutover(r)
  PROVE  Promise!GiveUp(r) \/ UNCHANGED Promise!vars
  <1> DEFINE result == [s \in Restores |-> Result(s)]
  <1>1. live' = live
    BY DEF RestoreStep, AcquireRestoreLease, LeaseConflict, ReadLiveBookmarks,
           ReadLiveFolders, InsertStageChunk, StagingFails, HandlerThrows,
           RenewRestoreLease, RenewRefused, CutoverRolledBack, CleanupStaging,
           ReleaseRestoreLease, Killed
  <1>2. PICK to \in Phase \ {"ok"} : pc' = [pc EXCEPT ![r] = to]
    BY DEF RestoreStep, AcquireRestoreLease, LeaseConflict, ReadLiveBookmarks,
           ReadLiveFolders, InsertStageChunk, StagingFails, HandlerThrows,
           RenewRestoreLease, RenewRefused, CutoverRolledBack, CleanupStaging,
           ReleaseRestoreLease, Killed, Goto, Phase, Finished
  <1>3. pc[r] \notin Finished
    BY DEF RestoreStep, AcquireRestoreLease, LeaseConflict, ReadLiveBookmarks,
           ReadLiveFolders, InsertStageChunk, StagingFails, HandlerThrows,
           RenewRestoreLease, RenewRefused, CutoverRolledBack, CleanupStaging,
           ReleaseRestoreLease, Killed, Goto, Finished
  <1>4. Result(r) = "running" /\ \A s \in Restores : s # r => Result(s)' = Result(s)
    BY <1>2, <1>3 DEF IInv, TypeOK, Result, Finished
  <1>5. Result(r)' \in {"running", "failed", "silent"}
    BY <1>2 DEF IInv, TypeOK, Result
  <1>6. result' = [result EXCEPT ![r] = Result(r)']
    BY <1>4
  <1>7. CASE Result(r)' = "running"
    BY <1>1, <1>4, <1>6, <1>7 DEF Promise!vars
  <1>8. CASE Result(r)' \in {"failed", "silent"}
    BY <1>1, <1>4, <1>6, <1>8 DEF Promise!GiveUp
  <1> QED
    BY <1>5, <1>7, <1>8

LEMMA WriterStepRefines ==
  ASSUME IInv, NEW w \in Writers, WriterStep(w)
  PROVE  Promise!Write(w) \/ Promise!Remove \/ UNCHANGED Promise!vars
  <1>1. [r \in Restores |-> Result(r)]' = [r \in Restores |-> Result(r)]
    BY DEF WriterStep, Admit, InsertBookmark, SyncFtsDelete, SyncFtsInsert,
           SyncFtsFails, InsertFolder, DeleteBookmark, restoreVars, Result
  <1>2. \A k \in {"bookmark", "folder"} : {RowOf(k, w)} \in SUBSET Promise!DataSet(w)
    BY DEF RowOf, Promise!DataSet, Promise!Item, Promise!Origin
  <1>3. CASE InsertBookmark(w) \/ InsertFolder(w)
    BY <1>1, <1>2, <1>3 DEF InsertBookmark, InsertFolder, Promise!Write
  <1>4. CASE DeleteBookmark(w)
    <2>1. PICK x \in live : live' = live \ {x}
      BY <1>4 DEF DeleteBookmark, Bookmarks
    <2> QED
      BY <1>1, <2>1, {x} \in SUBSET live DEF Promise!Remove
  <1>5. CASE Admit(w) \/ SyncFtsDelete(w) \/ SyncFtsInsert(w) \/ SyncFtsFails(w)
    BY <1>1, <1>5 DEF Admit, SyncFtsDelete, SyncFtsInsert, SyncFtsFails, Promise!vars
  <1> QED
    BY <1>3, <1>4, <1>5 DEF WriterStep

LEMMA StepRefines ==
  ASSUME ~ReplyMayBeLost, IInv, [Next]_vars
  PROVE  [Promise!Next]_(Promise!vars)
  <1>1. ASSUME NEW r \in Restores, RestoreStep(r)
        PROVE  [Promise!Next]_(Promise!vars)
    BY <1>1, CutoverRefines, RestoreStepRefines DEF Promise!Next
  <1>2. ASSUME NEW w \in Writers, WriterStep(w)
        PROVE  [Promise!Next]_(Promise!vars)
    BY <1>2, WriterStepRefines DEF Promise!Next
  <1>3. CASE CronStep \/ Tick \/ UNCHANGED vars
    BY <1>3 DEF CronStep, CronDeleteLeases, CronDeleteStaging, Tick, vars,
                restoreVars, Promise!vars, Result
  <1> QED
    BY <1>1, <1>2, <1>3 DEF Next

\* The protocol of lease, snapshot, staging and guarded batch implements the
\* promise of ReplaceAll: one swap or none, and a reply that tells which, as
\* long as D1 does not lose the reply of a batch it has committed.
THEOREM ImplementsPromise ==
  ASSUME ReplyMayBeLost = FALSE
  PROVE  Spec => KeepsPromise
  <1>1. Init => Promise!Init
    BY InitRefines
  <1>2. IInv /\ [Next]_vars => [Promise!Next]_(Promise!vars)
    BY StepRefines
  <1> QED
    BY <1>1, <1>2, Inductive, PTL DEF Spec, KeepsPromise, Promise!Spec
=============================================================================
