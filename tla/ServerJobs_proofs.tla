--------------------------- MODULE ServerJobs_proofs ---------------------------
(***************************************************************************)
(* Retention keeps the newest backups and last_backup_at is true, for any  *)
(* number of requests and threads, however long a thread goes on after the *)
(* run that started it was given up; and the schedule comes to one start   *)
(* of every backup and of the collector a day, never to two.               *)
(*                                                                         *)
(* The second part is about the start of the process that runs the jobs    *)
(* (ServerStart): for any number of kills, on both dialects, the ledger is *)
(* true to the schema, the server serves a migrated schema, no start takes *)
(* rows of a library away and the demo is seeded once.                     *)
(***************************************************************************)
EXTENDS ServerJobs, ServerStart, FiniteSetTheorems, TLAPS

-----------------------------------------------------------------------------
\* The inductive invariant

\* A row of settings that names no backup but one that was put.
True(row) == row \in Config /\ (row.last # 0 => putAt[row.last] > 0)
NothingFlushed(r) == \A k \in Kinds : r.flushed[k] = NotFlushed

SessionOK(s, r) ==
  /\ r \in Session
  /\ r.row = NotFlushed \/ True(r.row)
  /\ \A k \in Kinds : r.flushed[k] = NotFlushed \/ True(r.flushed[k])
  /\ r.pc \in {"submit", "waiting", "save", "settings"} => True(r.row)
  /\ r.pc \in {"waiting", "save"} => r.stamp \in Stamps
  /\ r.pc = "save" => putAt[r.stamp] > 0
  /\ r.pc = "idle" \/ (s # Job /\ r.pc # "commit") => NothingFlushed(r)

Settings ==
  /\ clock \in Minutes /\ fired \in BOOLEAN
  /\ cfg \in [Kinds -> Config] /\ \A k \in Kinds : True(cfg[k])
  /\ today \in [Tasks -> {"open", "started", "excused"}] /\ saves \in 0..MaxSaves
Sess ==
  /\ lock \in Sessions \cup {Nobody} /\ sess \in [Sessions -> Session]
  /\ \A s \in Sessions : SessionOK(s, sess[s]) /\ (lock = s <=> ~NothingFlushed(sess[s]))

\* What a thread is about to delete has as many newer ones as it keeps.
ThreadOK(t) ==
  LET th == thread[t] IN
  /\ th.st # "none" => th.keep \in Keeps
  /\ th.st \in {"none", "upload"} => putAt[t] = 0
  /\ th.st \in {"list", "prune", "done"} => putAt[t] > 0
  /\ \A x \in th.todo : x \in PutTo(th.kind) /\ Cardinality(NewerPut(th.kind, x)) >= th.keep
Threads ==
  /\ thread \in [Stamps -> Thread] /\ putAt \in [Stamps -> Nat]
  /\ files \in [Kinds -> SUBSET Stamps] /\ \A k \in Kinds : files[k] \subseteq PutTo(k)
  /\ \A t \in Stamps : ThreadOK(t) /\ putAt[t] <= Puts

IInv == Settings /\ Sess /\ Threads /\ NewestKept

-----------------------------------------------------------------------------
\* Facts

LEMMA FiniteStamps == IsFiniteSet(Stamps) /\ Stamps \subseteq Nat \ {0}
<1>1. MaxStamp \in Nat
  BY BoundsAssumption
<1> QED BY <1>1, FS_Interval DEF Stamps

LEMMA OrderFacts ==
  /\ Len(Order) \in Nat /\ 1 \in 1..Len(Order) /\ \A i \in 1..Len(Order) : Order[i] \in Kinds
  /\ Job \in Sessions /\ Nobody \notin Sessions
  /\ Minutes \subseteq Int /\ 0 \in Minutes
BY OrderAssumption, SessionsAssumption, ClockAssumption DEF Kinds, Sessions, Minutes

\* No row of settings is taken for one that is not flushed.
LEMMA NotARow == NotFlushed \notin Config
BY BoundsAssumption DEF NotFlushed, Config, Stamps

LEMMA IdleOK == \A s : SessionOK(s, Idle) /\ NothingFlushed(Idle)
<1>1. Idle \in Session /\ NothingFlushed(Idle)
  BY OrderFacts DEF Idle, Session, Phase, NothingFlushed
<1> QED BY <1>1 DEF SessionOK, Idle, NothingFlushed

LEMMA CountsOf ==
  \A k, x : /\ IsFiniteSet(NewerPut(k, x)) /\ Cardinality(NewerPut(k, x)) \in Nat
            /\ IsFiniteSet(NewerPut(k, x)') /\ Cardinality(NewerPut(k, x)') \in Nat
<1>1. \A k, x : NewerPut(k, x) \subseteq Stamps /\ NewerPut(k, x)' \subseteq Stamps
  BY DEF NewerPut, PutTo, Stamps
<1> QED BY <1>1, FiniteStamps, FS_Subset, FS_CardinalityType

\* A step that uploads nothing changes nothing of what was put.
LEMMA SamePuts ==
  ASSUME UNCHANGED putAt, \A t \in Stamps : thread'[t].kind = thread[t].kind \/ putAt[t] = 0
  PROVE  /\ Puts' = Puts /\ \A k : PutTo(k)' = PutTo(k)
         /\ \A k, x : NewerPut(k, x)' = NewerPut(k, x)
<1>1. Puts' = Puts
  BY DEF Puts, Stamps
<1>2. \A k : PutTo(k)' = PutTo(k)
  BY DEF PutTo, Stamps
<1>3. \A k, x : NewerPut(k, x)' = NewerPut(k, x)
  BY <1>2 DEF NewerPut, Newer
<1> QED BY <1>1, <1>2, <1>3

LEMMA ThreadsStay ==
  ASSUME Threads, NewestKept, UNCHANGED remote  PROVE Threads' /\ NewestKept'
<1>1. Puts' = Puts /\ (\A k : PutTo(k)' = PutTo(k)) /\ \A k, x : NewerPut(k, x)' = NewerPut(k, x)
  BY SamePuts DEF remote
<1> QED BY <1>1 DEF Threads, ThreadOK, NewestKept, AlwaysAsked, remote

LEMMA InitHolds == Init => IInv
<1> SUFFICES ASSUME Init PROVE IInv
  OBVIOUS
<1>1. Settings
  <2>1. \A k \in Kinds : cfg[k] \in Config /\ cfg[k].last = 0
    BY DEF Init, Config
  <2>2. saves \in 0..MaxSaves
    BY BoundsAssumption DEF Init
  <2>3. cfg \in [Kinds -> Config]
    BY <2>1 DEF Init
  <2> QED BY <2>1, <2>2, <2>3, OrderFacts DEF Init, Settings, True
<1>2. Sess
  BY IdleOK, OrderFacts DEF Init, Sess, SessionOK
<1>3. Threads
  <2>1. NoThread \in Thread /\ NoThread.todo = {} /\ NoThread.st = "none"
    BY OrderFacts DEF NoThread, Thread
  <2>2. Puts \in Nat
    <3>1. {t \in Stamps : putAt[t] > 0} = {}
      BY DEF Init
    <3> QED BY <3>1, FS_EmptySet DEF Puts
  <2> QED BY <2>1, <2>2 DEF Init, Threads, ThreadOK
<1>4. NewestKept
  BY DEF Init, NewestKept, PutTo
<1> QED BY <1>1, <1>2, <1>3, <1>4 DEF IInv

-----------------------------------------------------------------------------
\* The sessions

\* A session goes on, and holds the lock if and only if it has flushed something.
LEMMA SessionGoes ==
  ASSUME IInv, NEW s \in Sessions, NEW r, SessionOK(s, r), Goes(s, r), UNCHANGED putAt,
         IF NothingFlushed(r) THEN lock' = Unlocked(s) ELSE lock \in {s, Nobody} /\ lock' = s
  PROVE  Sess'
<1>1. sess' = [sess EXCEPT ![s] = r] /\ sess' \in [Sessions -> Session]
  BY DEF Goes, IInv, Sess, SessionOK
<1>2. \A t \in Sessions : SessionOK(t, sess'[t])
  BY <1>1 DEF IInv, Sess
<1>3. \A t, x : SessionOK(t, x)' <=> SessionOK(t, x)
  BY DEF SessionOK, True
<1>4. \A t \in Sessions : lock' = t <=> ~NothingFlushed(sess'[t])
  BY <1>1, OrderFacts DEF IInv, Sess, Unlocked
<1>5. lock' \in Sessions \cup {Nobody}
  BY DEF IInv, Sess, Unlocked
<1>6. \A t \in Sessions : SessionOK(t, sess[t])' /\ (lock' = t <=> ~NothingFlushed(sess[t])')
  BY <1>2, <1>3, <1>4 DEF NothingFlushed
<1> QED BY <1>1, <1>5, <1>6 DEF Sess

LEMMA NextKindOK ==
  ASSUME NEW r, SessionOK(Job, r)  PROVE SessionOK(Job, NextKind(r)) /\ (NothingFlushed(NextKind(r)) <=> NothingFlushed(r))
<1>1. r \in Session /\ r.at \in 1..Len(Order) /\ Len(Order) \in Nat /\ 0 \in Minutes
  BY OrderFacts DEF SessionOK, Session
<1>2. CASE r.at < Len(Order)
  <2> DEFINE q == [r EXCEPT !.pc = "check", !.at = @ + 1, !.row = NotFlushed, !.stamp = 0, !.since = 0]
  <2>1. q \in Session /\ q.pc = "check" /\ q.row = NotFlushed /\ q.flushed = r.flushed
    <3>1. r.at + 1 \in 1..Len(Order)
      BY <1>1, <1>2
    <3> QED BY <1>1, <3>1 DEF Session, Phase
  <2>2. NextKind(r) = q
    BY <1>2 DEF NextKind
  <2> HIDE DEF q
  <2> QED BY <2>1, <2>2 DEF SessionOK, NothingFlushed
<1>3. CASE ~(r.at < Len(Order))
  <2> DEFINE q == [r EXCEPT !.pc = "commit", !.row = NotFlushed, !.stamp = 0, !.since = 0]
  <2>1. q \in Session /\ q.pc = "commit" /\ q.row = NotFlushed /\ q.flushed = r.flushed
    BY <1>1 DEF Session, Phase
  <2>2. NextKind(r) = q
    BY <1>3 DEF NextKind
  <2> HIDE DEF q
  <2> QED BY <2>1, <2>2 DEF SessionOK, NothingFlushed
<1> QED BY <1>2, <1>3

\* What a session has read, it has read of a true row.
LEMMA ReadTrue ==
  ASSUME IInv, NEW s \in Sessions, NEW k \in Kinds  PROVE True(Read(s, k))
BY DEF IInv, Settings, Sess, SessionOK, Read

LEMMA SessionFacts ==
  ASSUME IInv, NEW s \in Sessions
  PROVE  /\ SessionOK(s, sess[s]) /\ sess[s] \in Session /\ KindOf(s) \in Kinds
         /\ NothingFlushed(sess[s]) => Unlocked(s) = lock
         /\ ~NothingFlushed(sess[s]) => lock = s
BY OrderFacts DEF IInv, Sess, SessionOK, Session, KindOf, Unlocked

\* A session that writes no row, and leaves the lock as it is.
LEMMA QuietKeeps ==
  ASSUME IInv, NEW s \in Sessions, NEW r, SessionOK(s, r), Goes(s, r), NothingFlushed(r) <=> NothingFlushed(sess[s]),
         UNCHANGED <<clock, cfg, lock, files, putAt, thread>>, fired' \in BOOLEAN, saves' \in 0..MaxSaves,
         today' \in [Tasks -> {"open", "started", "excused"}]
  PROVE  IInv'
<1>1. IF NothingFlushed(r) THEN lock' = Unlocked(s) ELSE lock \in {s, Nobody} /\ lock' = s
  BY SessionFacts
<1>2. Sess'
  BY <1>1, SessionGoes
<1>3. Threads' /\ NewestKept'
  BY ThreadsStay DEF IInv, remote
<1>4. Settings'
  BY DEF IInv, Settings, True
<1> QED BY <1>2, <1>3, <1>4 DEF IInv

LEMMA FireJobKeeps ==
  ASSUME IInv, FireJob  PROVE IInv'
<1>1. UNCHANGED <<clock, cfg, lock, files, putAt, thread, saves>> /\ fired' = TRUE
  BY DEF FireJob, remote
<1>2. CASE sess[Job].pc = "idle" /\ UNCHANGED today
            /\ Goes(Job, [Idle EXCEPT !.pc = IF clock = GcTime THEN "gc" ELSE "check", !.hhmm = clock])
  <2> DEFINE r == [Idle EXCEPT !.pc = IF clock = GcTime THEN "gc" ELSE "check", !.hhmm = clock]
  <2>1. PICK pc \in {"gc", "check"} : r = [Idle EXCEPT !.pc = pc, !.hhmm = clock]
    BY Zenon
  <2>2. Idle \in Session /\ Idle.row = NotFlushed /\ NothingFlushed(Idle) /\ clock \in Minutes
    BY IdleOK DEF IInv, Settings, SessionOK, Idle
  <2>3. [Idle EXCEPT !.pc = pc, !.hhmm = clock] \in Session /\ r.pc = pc /\ r.row = NotFlushed /\ NothingFlushed(r)
    <3>1. pc \in Phase
      BY DEF Phase
    <3> HIDE DEF Idle
    <3> QED BY <2>1, <2>2, <3>1 DEF Session, NothingFlushed
  <2> HIDE DEF r
  <2>4. SessionOK(Job, r)
    BY <2>1, <2>3 DEF SessionOK, NothingFlushed
  <2>5. NothingFlushed(sess[Job])
    BY <1>2, OrderFacts, SessionFacts DEF SessionOK
  <2> QED BY <1>1, <1>2, <2>3, <2>4, <2>5, OrderFacts, QuietKeeps DEF IInv, Settings, r
<1>3. CASE /\ today' = [t \in Tasks |-> IF Skipped(t) THEN "excused" ELSE today[t]]
           /\ UNCHANGED sess
  <2>1. Goes(Job, sess[Job])
    BY <1>3, OrderFacts DEF Goes, IInv, Sess
  <2>2. today' \in [Tasks -> {"open", "started", "excused"}]
    BY <1>3 DEF IInv, Settings
  <2> QED BY <1>1, <2>1, <2>2, OrderFacts, SessionFacts, QuietKeeps DEF IInv, Settings
<1> QED BY <1>2, <1>3 DEF FireJob

LEMMA RunGcKeeps ==
  ASSUME IInv, RunGc  PROVE IInv'
<1> DEFINE r == [sess[Job] EXCEPT !.pc = "check"]
<1>1. SessionOK(Job, r) /\ (NothingFlushed(r) <=> NothingFlushed(sess[Job]))
  <2>1. SessionOK(Job, sess[Job]) /\ sess[Job] \in Session
    BY OrderFacts, SessionFacts
  <2>2. r \in Session /\ r.pc = "check" /\ r.row = sess[Job].row /\ r.flushed = sess[Job].flushed
    BY <2>1 DEF Session, Phase
  <2> HIDE DEF r
  <2> QED BY <2>1, <2>2 DEF SessionOK, NothingFlushed
<1>2. today' \in [Tasks -> {"open", "started", "excused"}]
  BY DEF RunGc, Marked, IInv, Settings
<1> QED BY <1>1, <1>2, OrderFacts, QuietKeeps DEF RunGc, remote, IInv, Settings

LEMMA CheckDueKeeps ==
  ASSUME IInv, CheckDue  PROVE IInv'
<1> DEFINE r == [sess[Job] EXCEPT !.pc = "submit", !.row = Read(Job, KindOf(Job))]
<1>1. /\ SessionOK(Job, sess[Job]) /\ sess[Job] \in Session /\ KindOf(Job) \in Kinds
      /\ True(Read(Job, KindOf(Job)))
  BY OrderFacts, SessionFacts, ReadTrue
<1>2. SessionOK(Job, r) /\ (NothingFlushed(r) <=> NothingFlushed(sess[Job]))
  <2>1. /\ r \in Session /\ r.pc = "submit" /\ r.row = Read(Job, KindOf(Job))
        /\ r.flushed = sess[Job].flushed
    BY <1>1 DEF Session, Phase, True
  <2> HIDE DEF r
  <2> QED BY <1>1, <2>1 DEF SessionOK, NothingFlushed
<1>3. today' \in [Tasks -> {"open", "started", "excused"}]
  BY <1>1 DEF CheckDue, Marked, IInv, Settings, Tasks
<1>4. Goes(Job, r) \/ Goes(Job, NextKind(sess[Job]))
  BY DEF CheckDue
<1>5. UNCHANGED <<clock, fired, cfg, lock, files, putAt, thread, saves>>
  BY DEF CheckDue, remote
<1> HIDE DEF r
<1> QED BY <1>1, <1>2, <1>3, <1>4, <1>5, NextKindOK, OrderFacts, QuietKeeps DEF IInv, Settings

\* A request begins with the row it reads.
LEMMA BeginsOK ==
  ASSUME IInv, NEW q \in Requests, sess[q].pc = "idle", NEW i \in 1..Len(Order), NEW pc \in {"submit", "settings"},
         Goes(q, [Idle EXCEPT !.pc = pc, !.at = i, !.row = cfg[Order[i]]]),
         UNCHANGED <<clock, fired, cfg, lock, files, putAt, thread, today>>, saves' \in 0..MaxSaves
  PROVE  IInv'
<1> DEFINE r == [Idle EXCEPT !.pc = pc, !.at = i, !.row = cfg[Order[i]]]
<1>1. q \in Sessions /\ True(cfg[Order[i]]) /\ cfg[Order[i]] \in Config /\ NothingFlushed(sess[q])
  BY OrderFacts, SessionFacts DEF IInv, Settings, Sessions, SessionOK, True
<1>2. r \in Session /\ r.pc = pc /\ r.row = cfg[Order[i]] /\ NothingFlushed(r)
  <2>1. Idle \in Session /\ NothingFlushed(Idle) /\ pc \in Phase
    BY IdleOK DEF SessionOK, Phase
  <2> HIDE DEF Idle
  <2> QED BY <1>1, <2>1 DEF Session, NothingFlushed
<1>3. Goes(q, r)
  OBVIOUS
<1> HIDE DEF r
<1>4. SessionOK(q, r)
  BY <1>1, <1>2 DEF SessionOK, NothingFlushed
<1> QED BY <1>1, <1>2, <1>3, <1>4, QuietKeeps DEF IInv, Settings

LEMMA ManualKeeps ==
  ASSUME IInv, NEW q \in Requests, Manual(q)  PROVE IInv'
<1>1. PICK i \in 1..Len(Order) : Goes(q, [Idle EXCEPT !.pc = "submit", !.at = i, !.row = cfg[Order[i]]])
  BY DEF Manual
<1>2. /\ sess[q].pc = "idle" /\ saves' \in 0..MaxSaves
      /\ UNCHANGED <<clock, fired, cfg, lock, files, putAt, thread, today>>
  BY DEF Manual, remote, IInv, Settings
<1> QED BY <1>1, <1>2, BeginsOK

LEMMA ReadSettingsKeeps ==
  ASSUME IInv, NEW q \in Requests, ReadSettings(q)  PROVE IInv'
<1>1. PICK i \in 1..Len(Order) : Goes(q, [Idle EXCEPT !.pc = "settings", !.at = i, !.row = cfg[Order[i]]])
  BY DEF ReadSettings
<1>2. saves' \in 0..MaxSaves
  BY BoundsAssumption DEF ReadSettings, IInv, Settings
<1>3. sess[q].pc = "idle" /\ UNCHANGED <<clock, fired, cfg, lock, files, putAt, thread, today>>
  BY DEF ReadSettings, remote
<1> QED BY <1>1, <1>2, <1>3, BeginsOK

LEMMA RunFailsKeeps ==
  ASSUME IInv, NEW s \in Sessions, RunFails(s)  PROVE IInv'
<1> DEFINE r == AfterFailure(s)
<1>1. SessionOK(s, sess[s]) /\ sess[s].pc \in {"submit", "waiting"}
  BY SessionFacts DEF RunFails
<1>2. SessionOK(s, r) /\ (NothingFlushed(r) <=> NothingFlushed(sess[s]))
  <2>1. CASE s = Job
    BY <1>1, <2>1, NextKindOK DEF AfterFailure
  <2>2. CASE s # Job
    BY <1>1, <2>2, IdleOK DEF AfterFailure, SessionOK
  <2> QED BY <2>1, <2>2
<1>3. Goes(s, r) /\ UNCHANGED <<clock, fired, cfg, lock, files, putAt, thread, today, saves>>
  BY DEF RunFails, remote
<1> HIDE DEF r
<1> QED BY <1>2, <1>3, QuietKeeps DEF IInv, Settings

LEMMA RunAnsweredKeeps ==
  ASSUME IInv, NEW s \in Sessions, RunAnswered(s)  PROVE IInv'
<1> DEFINE r == [sess[s] EXCEPT !.pc = "save"]
<1>1. SessionOK(s, sess[s]) /\ sess[s] \in Session /\ sess[s].pc = "waiting"
  BY SessionFacts DEF RunAnswered
<1>2. sess[s].stamp \in Stamps /\ putAt[sess[s].stamp] > 0
  <2>1. sess[s].stamp \in Stamps
    BY <1>1 DEF SessionOK
  <2>2. thread[sess[s].stamp].st = "done"
    BY DEF RunAnswered, Answered
  <2> QED BY <2>1, <2>2 DEF IInv, Threads, ThreadOK
<1>3. /\ r \in Session /\ r.pc = "save" /\ r.row = sess[s].row /\ r.flushed = sess[s].flushed
      /\ r.stamp = sess[s].stamp
  BY <1>1 DEF Session, Phase
<1>4. Goes(s, r) /\ UNCHANGED <<clock, fired, cfg, lock, files, putAt, thread, today, saves>>
  BY DEF RunAnswered, remote
<1> HIDE DEF r
<1>5. SessionOK(s, r) /\ (NothingFlushed(r) <=> NothingFlushed(sess[s]))
  BY <1>1, <1>2, <1>3 DEF SessionOK, NothingFlushed
<1> QED BY <1>4, <1>5, QuietKeeps DEF IInv, Settings

\* The thread of a new run has put nothing yet.
LEMMA SubmitKeeps ==
  ASSUME IInv, NEW s \in Sessions, Submit(s)  PROVE IInv'
<1>1. /\ sess[s].pc = "submit" /\ SessionOK(s, sess[s]) /\ sess[s] \in Session /\ KindOf(s) \in Kinds
      /\ sess[s].row.keep \in Keeps
  BY SessionFacts DEF Submit, SessionOK, True, Config
<1>2. PICK t \in Stamps :
        /\ thread[t] = NoThread
        /\ thread' = [thread EXCEPT ![t] = [NoThread EXCEPT !.st = "upload", !.kind = KindOf(s),
                                                           !.keep = sess[s].row.keep]]
        /\ Goes(s, [sess[s] EXCEPT !.pc = "waiting", !.stamp = t, !.since = clock])
  BY DEF Submit
<1> DEFINE r == [sess[s] EXCEPT !.pc = "waiting", !.stamp = t, !.since = clock]
           n == [NoThread EXCEPT !.st = "upload", !.kind = KindOf(s), !.keep = sess[s].row.keep]
<1>3. UNCHANGED <<clock, fired, cfg, lock, files, putAt, today, saves>>
  BY DEF Submit
<1>4. Sess'
  <2>1. /\ r \in Session /\ r.pc = "waiting" /\ r.row = sess[s].row /\ r.flushed = sess[s].flushed
        /\ r.stamp = t
    BY <1>1 DEF Session, Phase, IInv, Settings
  <2>2. Goes(s, r)
    BY <1>2
  <2> HIDE DEF r
  <2>3. SessionOK(s, r) /\ (NothingFlushed(r) <=> NothingFlushed(sess[s]))
    BY <1>1, <2>1 DEF SessionOK, NothingFlushed
  <2>4. IF NothingFlushed(r) THEN lock' = Unlocked(s) ELSE lock \in {s, Nobody} /\ lock' = s
    BY <1>3, <2>3, SessionFacts
  <2> QED BY <1>3, <2>2, <2>3, <2>4, SessionGoes
<1>5. Threads' /\ NewestKept'
  <2>1. n \in Thread /\ n.st = "upload" /\ n.keep \in Keeps /\ n.todo = {}
    BY <1>1, OrderFacts DEF NoThread, Thread
  <2>2. putAt[t] = 0 /\ thread \in [Stamps -> Thread]
    BY <1>2 DEF IInv, Threads, ThreadOK, NoThread
  <2>3. thread' = [thread EXCEPT ![t] = n] /\ thread' \in [Stamps -> Thread]
    BY <1>2, <2>1, <2>2
  <2> HIDE DEF n
  <2>4. Puts' = Puts /\ (\A k : PutTo(k)' = PutTo(k)) /\ \A k, x : NewerPut(k, x)' = NewerPut(k, x)
    BY <1>3, <2>2, <2>3, SamePuts
  <2>5. \A u \in Stamps : ThreadOK(u)'
    BY <1>3, <2>1, <2>2, <2>3, <2>4 DEF IInv, Threads, ThreadOK
  <2> QED BY <1>3, <2>3, <2>4, <2>5 DEF IInv, Threads, NewestKept, AlwaysAsked
<1>6. Settings'
  BY <1>3 DEF IInv, Settings, True
<1> QED BY <1>4, <1>5, <1>6 DEF IInv

\* What a session flushes takes the lock.
LEMMA FlushKeeps ==
  ASSUME IInv, NEW s \in Sessions, NEW r, SessionOK(s, r), ~NothingFlushed(r), Goes(s, r), lock \in {s, Nobody}, lock' = s,
         UNCHANGED <<clock, fired, cfg, files, putAt, thread, today, saves>>
  PROVE  IInv'
<1>1. Sess'
  BY SessionGoes
<1>2. Threads' /\ NewestKept'
  BY ThreadsStay DEF IInv, remote
<1>3. Settings'
  BY DEF IInv, Settings, True
<1> QED BY <1>1, <1>2, <1>3 DEF IInv

LEMMA FlushedOK ==
  ASSUME IInv, NEW s \in Sessions, NEW row, True(row)
  PROVE  LET r == Flushed(s, row) IN
         /\ r \in Session /\ r.pc = sess[s].pc /\ r.row = sess[s].row /\ r.stamp = sess[s].stamp /\ ~NothingFlushed(r)
         /\ \A k \in Kinds : r.flushed[k] = NotFlushed \/ True(r.flushed[k])
<1>1. SessionOK(s, sess[s]) /\ sess[s] \in Session /\ KindOf(s) \in Kinds /\ row \in Config /\ row # NotFlushed
  BY SessionFacts, NotARow DEF True
<1> DEFINE f == [sess[s].flushed EXCEPT ![KindOf(s)] = row]
<1>2. f \in [Kinds -> Config \cup {NotFlushed}] /\ f[KindOf(s)] = row
  BY <1>1 DEF Session
<1>3. \A k \in Kinds : f[k] = NotFlushed \/ True(f[k])
  BY <1>1 DEF SessionOK, Session
<1>4. Flushed(s, row) = [sess[s] EXCEPT !.flushed = f]
  BY DEF Flushed
<1> HIDE DEF f
<1>5. /\ [sess[s] EXCEPT !.flushed = f] \in Session /\ [sess[s] EXCEPT !.flushed = f].flushed = f
      /\ [sess[s] EXCEPT !.flushed = f].pc = sess[s].pc /\ [sess[s] EXCEPT !.flushed = f].row = sess[s].row
      /\ [sess[s] EXCEPT !.flushed = f].stamp = sess[s].stamp
  BY <1>1, <1>2 DEF Session
<1> QED BY <1>1, <1>2, <1>3, <1>4, <1>5 DEF NothingFlushed

\* The outcome that is flushed names the backup that the thread put.
LEMMA SaveOutcomeKeeps ==
  ASSUME IInv, NEW s \in Sessions, SaveOutcome(s)  PROVE IInv'
<1>1. sess[s].pc = "save" /\ SessionOK(s, sess[s])
  BY SessionFacts DEF SaveOutcome
<1>2. True(Outcome(s))
  BY <1>1 DEF SessionOK, True, Outcome, Config
<1> DEFINE r == Flushed(s, Outcome(s))
           q == IF s = Job THEN NextKind(r) ELSE [r EXCEPT !.pc = "commit"]
<1>3. /\ r \in Session /\ r.pc = "save" /\ r.row = sess[s].row /\ r.stamp = sess[s].stamp /\ ~NothingFlushed(r)
      /\ \A k \in Kinds : r.flushed[k] = NotFlushed \/ True(r.flushed[k])
  BY <1>1, <1>2, FlushedOK
<1>4. Goes(s, q) /\ lock \in {s, Nobody} /\ lock' = s
  BY DEF SaveOutcome
<1>5. UNCHANGED <<clock, fired, cfg, files, putAt, thread, today, saves>>
  BY DEF SaveOutcome, remote
<1> HIDE DEF r
<1>6. SessionOK(s, q) /\ ~NothingFlushed(q)
  <2>1. CASE s = Job
    <3>1. SessionOK(Job, r)
      BY <1>1, <1>3, <2>1 DEF SessionOK
    <3> QED BY <1>3, <2>1, <3>1, NextKindOK
  <2>2. CASE s # Job
    <3> DEFINE c == [r EXCEPT !.pc = "commit"]
    <3>1. c \in Session /\ c.pc = "commit" /\ c.row = r.row /\ c.flushed = r.flushed /\ q = c
      BY <1>3, <2>2 DEF Session, Phase
    <3> HIDE DEF c, q
    <3> QED BY <1>1, <1>3, <2>2, <3>1 DEF SessionOK, NothingFlushed
  <2> QED BY <2>1, <2>2
<1> HIDE DEF q
<1> QED BY <1>4, <1>5, <1>6, FlushKeeps

LEMMA SaveSettingsKeeps ==
  ASSUME IInv, NEW q \in Requests, SaveSettings(q)  PROVE IInv'
<1>1. q \in Sessions
  BY DEF Sessions
<1>2. sess[q].pc = "settings" /\ SessionOK(q, sess[q]) /\ KindOf(q) \in Kinds /\ True(sess[q].row)
  BY <1>1, SessionFacts DEF SaveSettings, SessionOK
<1>3. PICK e \in BOOLEAN, m \in Times[KindOf(q)], n \in Keeps :
        Goes(q, [Flushed(q, [sess[q].row EXCEPT !.enabled = e, !.time = m, !.keep = n]) EXCEPT !.pc = "commit"])
  BY DEF SaveSettings
<1> DEFINE row == [sess[q].row EXCEPT !.enabled = e, !.time = m, !.keep = n]
           r == Flushed(q, row)
           c == [r EXCEPT !.pc = "commit"]
<1>4. True(row)
  <2>1. m \in Minutes
    BY <1>2, ScheduleAssumption
  <2> QED BY <1>2, <2>1 DEF True, Config
<1> HIDE DEF row
<1>5. /\ r \in Session /\ r.row = sess[q].row /\ ~NothingFlushed(r)
      /\ \A k \in Kinds : r.flushed[k] = NotFlushed \/ True(r.flushed[k])
  BY <1>1, <1>4, FlushedOK
<1>6. Goes(q, c)
  BY <1>3 DEF row
<1> HIDE DEF r
<1>7. c \in Session /\ c.pc = "commit" /\ c.row = r.row /\ c.flushed = r.flushed
  BY <1>5 DEF Session, Phase
<1>8. /\ lock = Nobody /\ lock' = q
      /\ UNCHANGED <<clock, fired, cfg, files, putAt, thread, today, saves>>
  BY DEF SaveSettings, remote
<1> HIDE DEF c
<1>9. SessionOK(q, c) /\ ~NothingFlushed(c)
  BY <1>2, <1>5, <1>7 DEF SessionOK, NothingFlushed
<1> QED BY <1>1, <1>6, <1>8, <1>9, FlushKeeps

\* A flush fails only where another session holds the lock, so none of its own is lost.
LEMMA FlushFailsKeeps ==
  ASSUME IInv, NEW s \in Sessions, FlushFails(s)  PROVE IInv'
<1> DEFINE b == [sess[s] EXCEPT !.broken = TRUE, !.flushed = Idle.flushed]
           q == IF s = Job THEN NextKind(b) ELSE Idle
<1>1. SessionOK(s, sess[s]) /\ sess[s] \in Session /\ sess[s].pc # "idle" /\ NothingFlushed(sess[s])
  <2>1. lock # s /\ sess[s].pc # "idle"
    BY DEF FlushFails
  <2> QED BY <2>1, SessionFacts
<1>2. Goes(s, q) /\ UNCHANGED <<clock, fired, cfg, lock, files, putAt, thread, today, saves>>
  BY DEF FlushFails, remote
<1>3. SessionOK(s, q) /\ NothingFlushed(q)
  <2>1. CASE s = Job
    <3>1. Idle.flushed \in [Kinds -> Config \cup {NotFlushed}] /\ \A k \in Kinds : Idle.flushed[k] = NotFlushed
      BY DEF Idle
    <3>2. /\ b \in Session /\ b.pc = sess[s].pc /\ b.row = sess[s].row /\ b.flushed = Idle.flushed
          /\ b.stamp = sess[s].stamp
      <4> HIDE DEF Idle
      <4> QED BY <1>1, <3>1 DEF Session
    <3> HIDE DEF b
    <3>3. SessionOK(Job, b) /\ NothingFlushed(b)
      BY <1>1, <2>1, <3>1, <3>2 DEF SessionOK, NothingFlushed
    <3> QED BY <2>1, <3>3, NextKindOK
  <2>2. CASE s # Job
    BY <2>2, IdleOK
  <2> QED BY <2>1, <2>2
<1> HIDE DEF q
<1> QED BY <1>1, <1>2, <1>3, QuietKeeps DEF IInv, Settings

LEMMA CommitKeeps ==
  ASSUME IInv, NEW s \in Sessions, Commit(s)  PROVE IInv'
<1>1. Sess'
  <2>1. Goes(s, Idle) /\ UNCHANGED putAt /\ lock' = Unlocked(s)
    BY DEF Commit, remote
  <2> QED BY <2>1, IdleOK, SessionGoes
<1>2. Threads' /\ NewestKept'
  BY ThreadsStay DEF IInv, Commit
<1>3. Settings'
  <2>1. cfg' = [k \in Kinds |-> Read(s, k)] /\ UNCHANGED <<clock, fired, putAt, saves>>
    BY DEF Commit, remote
  <2>2. \A k \in Kinds : True(cfg'[k])
    BY <2>1, ReadTrue
  <2>3. \A k \in Kinds : True(cfg[k])' /\ cfg'[k] \in Config
    BY <2>1, <2>2 DEF True
  <2>4. cfg' \in [Kinds -> Config]
    BY <2>1, <2>3
  <2>5. today' \in [Tasks -> {"open", "started", "excused"}]
    BY DEF Commit, IInv, Settings
  <2> QED BY <2>1, <2>3, <2>4, <2>5 DEF IInv, Settings
<1> QED BY <1>1, <1>2, <1>3 DEF IInv

LEMMA TickKeeps ==
  ASSUME IInv, Tick  PROVE IInv'
<1>1. UNCHANGED <<cfg, lock, sess, saves>> /\ UNCHANGED remote /\ fired' = FALSE
  BY DEF Tick
<1>2. clock' \in Minutes
  <2>1. DayLen \in Nat \ {0}
    BY ClockAssumption
  <2>2. clock \in Int /\ clock' = (clock + 1) % DayLen
    BY OrderFacts DEF Tick, IInv, Settings
  <2> QED BY <2>1, <2>2 DEF Minutes
<1>3. today' \in [Tasks -> {"open", "started", "excused"}]
  BY DEF Tick, IInv, Settings
<1>4. Settings'
  BY <1>1, <1>2, <1>3 DEF IInv, Settings, True, remote
<1>5. Sess'
  BY <1>1 DEF IInv, Sess, SessionOK, True, NothingFlushed, remote
<1> QED BY <1>1, <1>4, <1>5, ThreadsStay DEF IInv

-----------------------------------------------------------------------------
\* The threads

\* A thread leaves the database alone.
LEMMA DatabaseStays ==
  ASSUME IInv, UNCHANGED <<clock, fired, cfg, lock, sess, today, saves>>,
         \A u \in Stamps : putAt[u] > 0 => putAt'[u] > 0
  PROVE  Settings' /\ Sess'
<1>1. \A row : True(row) => True(row)'
  BY DEF True, Config
<1>2. \A s, r : SessionOK(s, r) => SessionOK(s, r)'
  BY <1>1 DEF SessionOK
<1>3. Settings'
  BY <1>1 DEF IInv, Settings
<1>4. Sess'
  BY <1>2 DEF IInv, Sess, NothingFlushed
<1> QED BY <1>3, <1>4

\* A step of a thread that uploads nothing, and deletes at most what it may.
LEMMA ThreadGoes ==
  ASSUME Threads, NEW t \in Stamps, NEW n \in Thread, thread' = [thread EXCEPT ![t] = n], UNCHANGED putAt,
         n.kind = thread[t].kind, n.keep \in Keeps, n.st = "threw" \/ (n.st \in {"prune", "done"} /\ putAt[t] > 0),
         \A x \in n.todo : x \in PutTo(n.kind) /\ Cardinality(NewerPut(n.kind, x)) >= n.keep,
         files' \in [Kinds -> SUBSET Stamps], \A k \in Kinds : files'[k] \subseteq files[k]
  PROVE  /\ Threads'
         /\ (\A k : PutTo(k)' = PutTo(k)) /\ \A k, x : AlwaysAsked(k, x)' <=> AlwaysAsked(k, x)
<1>1. thread \in [Stamps -> Thread] /\ thread' \in [Stamps -> Thread]
  BY DEF Threads
<1>2. Puts' = Puts /\ (\A k : PutTo(k)' = PutTo(k)) /\ \A k, x : NewerPut(k, x)' = NewerPut(k, x)
  BY <1>1, SamePuts
<1>3. \A u \in Stamps : ThreadOK(u)'
  <2> SUFFICES ASSUME NEW u \in Stamps PROVE ThreadOK(u)'
    OBVIOUS
  <2>1. CASE u = t
    BY <1>1, <1>2, <2>1 DEF ThreadOK
  <2>2. CASE u # t
    BY <1>1, <1>2, <2>2 DEF Threads, ThreadOK
  <2> QED BY <2>1, <2>2
<1>4. \A k \in Kinds : files'[k] \subseteq PutTo(k)'
  BY <1>2 DEF Threads
<1> QED BY <1>1, <1>2, <1>3, <1>4 DEF Threads, AlwaysAsked

LEMMA PruningIs ==
  ASSUME NEW th \in Thread, NEW todo \in SUBSET Stamps
  PROVE  LET n == Pruning(th, todo) IN
         n \in Thread /\ n.kind = th.kind /\ n.keep = th.keep /\ n.st \in {"prune", "done"} /\ n.todo = todo
BY DEF Pruning, Thread

LEMMA ListFilesKeeps ==
  ASSUME IInv, NEW t \in Stamps, ListFiles(t)  PROVE IInv'
<1>1. UNCHANGED <<clock, fired, cfg, lock, sess, files, putAt, today, saves>>
  BY DEF ListFiles
<1> DEFINE th == thread[t]
           k == th.kind
           todo == Beyond(k, th.keep)
<1>2. th \in Thread /\ th.kind \in Kinds /\ th.st = "list" /\ th.keep \in Keeps /\ putAt[t] > 0 /\ ThreadOK(t)
  BY DEF ListFiles, IInv, Threads, ThreadOK, Thread
<1>3. \A x \in todo : x \in PutTo(k) /\ Cardinality(NewerPut(k, x)) >= th.keep
  <2> SUFFICES ASSUME NEW x \in todo PROVE x \in PutTo(k) /\ Cardinality(NewerPut(k, x)) >= th.keep
    OBVIOUS
  <2> DEFINE seen == {y \in files[k] : Newer(k, y, x)}
  <2>1. files[k] \subseteq PutTo(k)
    BY <1>2 DEF IInv, Threads
  <2>2. seen \subseteq NewerPut(k, x)
    BY <2>1 DEF NewerPut
  <2>3. x \in files[k] /\ Cardinality(seen) >= th.keep
    BY DEF Beyond
  <2>4. Cardinality(seen) <= Cardinality(NewerPut(k, x)) /\ Cardinality(seen) \in Nat
    BY <2>2, CountsOf, FS_Subset, FS_CardinalityType
  <2>5. th.keep \in Nat
    BY <1>2, BoundsAssumption
  <2> HIDE DEF seen, th
  <2>6. Cardinality(NewerPut(k, x)) >= th.keep
    BY <2>3, <2>4, <2>5, CountsOf
  <2> QED BY <2>1, <2>3, <2>6
<1>4. PICK n : /\ thread' = [thread EXCEPT ![t] = n] /\ n \in Thread /\ n.kind = k /\ n.keep = th.keep
               /\ n.st \in {"prune", "done"} /\ n.todo \in {todo, th.todo}
  <2>1. todo \in SUBSET Stamps
    BY <1>2 DEF Beyond, IInv, Threads
  <2>2. CASE thread' = [thread EXCEPT ![t] = Pruning(th, todo)]
    <3> DEFINE p == Pruning(th, todo)
    <3>1. p \in Thread /\ p.kind = k /\ p.keep = th.keep /\ p.st \in {"prune", "done"} /\ p.todo = todo
      BY <1>2, <2>1, PruningIs
    <3>2. thread' = [thread EXCEPT ![t] = p]
      BY <2>2
    <3> HIDE DEF p
    <3> QED BY <3>1, <3>2
  <2>3. CASE thread' = [thread EXCEPT ![t].st = "done"]
    <3> DEFINE d == [th EXCEPT !.st = "done"]
    <3>1. d \in Thread /\ d.kind = k /\ d.keep = th.keep /\ d.st = "done" /\ d.todo = th.todo
      BY <1>2 DEF Thread
    <3>2. thread' = [thread EXCEPT ![t] = d]
      BY <2>3
    <3> HIDE DEF d
    <3> QED BY <3>1, <3>2
  <2> QED BY <2>2, <2>3 DEF ListFiles
<1>5. \A x \in n.todo : x \in PutTo(k) /\ Cardinality(NewerPut(k, x)) >= th.keep
  BY <1>2, <1>3, <1>4 DEF ThreadOK
<1> HIDE DEF todo
<1>6. Threads' /\ (\A j : PutTo(j)' = PutTo(j)) /\ \A j, x : AlwaysAsked(j, x)' <=> AlwaysAsked(j, x)
  BY <1>1, <1>2, <1>4, <1>5, ThreadGoes DEF IInv, Threads
<1>7. NewestKept'
  BY <1>1, <1>6 DEF IInv, NewestKept
<1> QED BY <1>1, <1>6, <1>7, DatabaseStays DEF IInv

\* What is deleted has as many newer ones as one of the keep_backups there may be.
LEMMA DeleteFileKeeps ==
  ASSUME IInv, NEW t \in Stamps, DeleteFile(t)  PROVE IInv'
<1> DEFINE th == thread[t]
           k == th.kind
<1>1. PICK x \in th.todo, ok \in BOOLEAN :
        /\ files' = [files EXCEPT ![k] = IF ok THEN @ \ {x} ELSE @]
        /\ thread' = [thread EXCEPT ![t] = Pruning(th, th.todo \ {x})]
  BY DEF DeleteFile
<1>2. UNCHANGED <<clock, fired, cfg, lock, sess, putAt, today, saves>>
  BY DEF DeleteFile
<1>3. th \in Thread /\ k \in Kinds /\ th.st = "prune" /\ th.keep \in Keeps /\ putAt[t] > 0 /\ ThreadOK(t)
  BY DEF DeleteFile, IInv, Threads, ThreadOK, Thread
<1> DEFINE n == Pruning(th, th.todo \ {x})
<1>4. n \in Thread /\ n.kind = k /\ n.keep = th.keep /\ n.st \in {"prune", "done"} /\ n.todo = th.todo \ {x}
  BY <1>3, PruningIs DEF Thread
<1>5. thread' = [thread EXCEPT ![t] = n]
  BY <1>1
<1> HIDE DEF n
<1>6. \A y \in th.todo : y \in PutTo(k) /\ Cardinality(NewerPut(k, y)) >= th.keep
  BY <1>3 DEF ThreadOK
<1>7. files' \in [Kinds -> SUBSET Stamps] /\ \A j \in Kinds : files'[j] \subseteq files[j]
  BY <1>1, <1>3 DEF IInv, Threads
<1>8. Threads' /\ (\A j : PutTo(j)' = PutTo(j)) /\ \A j, y : AlwaysAsked(j, y)' <=> AlwaysAsked(j, y)
  BY <1>2, <1>3, <1>4, <1>5, <1>6, <1>7, ThreadGoes DEF IInv
<1>9. ~AlwaysAsked(k, x)
  <2>1. th.keep \in Nat
    BY <1>3, BoundsAssumption
  <2> QED BY <1>3, <1>6, <2>1, CountsOf DEF AlwaysAsked
<1>10. NewestKept'
  <2> SUFFICES ASSUME NEW j \in Kinds, NEW y \in PutTo(j), AlwaysAsked(j, y) PROVE y \in files'[j]
    BY <1>8 DEF NewestKept
  <2>1. y \in files[j]
    BY DEF IInv, NewestKept
  <2> QED BY <1>1, <1>9, <2>1 DEF IInv, Threads
<1> QED BY <1>2, <1>8, <1>10, DatabaseStays DEF IInv

\* What is put is newer, for S3, than all that was put before.
LEMMA PutKeeps ==
  ASSUME IInv, NEW t \in Stamps, thread[t].st = "upload", putAt[t] = 0,
         files' = [files EXCEPT ![thread[t].kind] = @ \cup {t}], putAt' = [putAt EXCEPT ![t] = Puts + 1],
         thread' = [thread EXCEPT ![t].st = "list"], UNCHANGED <<clock, fired, cfg, lock, sess, today, saves>>
  PROVE  IInv'
<1> DEFINE th == thread[t]
           n == [th EXCEPT !.st = "list"]
           old == {u \in Stamps : putAt[u] > 0}
<1>1. th \in Thread /\ th.kind \in Kinds /\ th.keep \in Keeps /\ ThreadOK(t)
  BY DEF IInv, Threads, ThreadOK, Thread
<1>2. n \in Thread /\ n.kind = th.kind /\ n.keep = th.keep /\ n.st = "list" /\ n.todo = th.todo
  BY <1>1 DEF Thread
<1>3. thread' = [thread EXCEPT ![t] = n] /\ thread' \in [Stamps -> Thread]
  BY <1>2 DEF IInv, Threads
<1> HIDE DEF n
<1>4. Puts \in Nat /\ Puts' = Puts + 1 /\ putAt' \in [Stamps -> Nat] /\ putAt'[t] = Puts + 1
  <2>1. IsFiniteSet(old) /\ Puts = Cardinality(old)
    BY FiniteStamps, FS_Subset DEF Puts
  <2>2. Puts \in Nat
    BY <2>1, FS_CardinalityType
  <2>3. putAt' \in [Stamps -> Nat] /\ putAt'[t] = Puts + 1
    BY <2>2 DEF IInv, Threads
  <2>4. {u \in Stamps : putAt'[u] > 0} = old \cup {t} /\ t \notin old
    BY <2>2, <2>3 DEF IInv, Threads
  <2> HIDE DEF old
  <2>5. Cardinality(old \cup {t}) = Cardinality(old) + 1
    BY <2>1, <2>4, FS_AddElement
  <2>6. Puts' = Cardinality({u \in Stamps : putAt'[u] > 0})
    BY DEF Puts, Stamps
  <2> QED BY <2>1, <2>2, <2>3, <2>4, <2>5, <2>6
<1>5. \A u \in Stamps : u # t => putAt'[u] = putAt[u] /\ thread'[u] = thread[u]
  BY <1>3 DEF IInv, Threads
<1>6. \A k : PutTo(k)' = IF k = th.kind THEN PutTo(k) \cup {t} ELSE PutTo(k)
  <2>1. thread'[t].kind = th.kind
    BY <1>2, <1>3 DEF IInv, Threads
  <2> QED BY <1>4, <1>5, <2>1 DEF PutTo, Stamps
<1>7. \A k : \A x \in PutTo(k) : x \in Stamps /\ x # t
  BY DEF PutTo, Stamps
<1>8. \A k : \A x \in PutTo(k) : Cardinality(NewerPut(k, x)) <= Cardinality(NewerPut(k, x)')
  <2>1. \A k : \A x \in PutTo(k) : NewerPut(k, x) \subseteq NewerPut(k, x)'
    BY <1>5, <1>6, <1>7 DEF NewerPut, Newer
  <2> QED BY <2>1, CountsOf, FS_Subset
<1>9. \A u \in Stamps : ThreadOK(u)'
  <2> SUFFICES ASSUME NEW u \in Stamps PROVE ThreadOK(u)'
    OBVIOUS
  <2>1. thread[u] \in Thread /\ thread[u].keep \in Int /\ ThreadOK(u)
    BY BoundsAssumption DEF IInv, Threads, Thread
  <2>2. /\ thread'[u].todo = thread[u].todo /\ thread'[u].kind = thread[u].kind
        /\ thread'[u].keep = thread[u].keep
    BY <1>2, <1>3, <1>5 DEF IInv, Threads
  <2>3. \A x \in thread[u].todo :
          /\ x \in PutTo(thread[u].kind)'
          /\ Cardinality(NewerPut(thread[u].kind, x)') >= thread[u].keep
    BY <1>6, <1>8, <2>1, CountsOf DEF ThreadOK
  <2>4. CASE u = t
    <3>1. thread'[u].st = "list" /\ putAt'[u] > 0 /\ thread'[u].keep \in Keeps
      BY <1>1, <1>2, <1>3, <1>4, <2>4 DEF IInv, Threads
    <3> QED BY <2>2, <2>3, <3>1 DEF ThreadOK
  <2>5. CASE u # t
    BY <1>5, <2>1, <2>2, <2>3, <2>5 DEF ThreadOK
  <2> QED BY <2>4, <2>5
<1>10. \A k \in Kinds : files'[k] \subseteq PutTo(k)'
  BY <1>6 DEF IInv, Threads
<1>11. files' \in [Kinds -> SUBSET Stamps]
  BY <1>1 DEF IInv, Threads
<1>12. \A u \in Stamps : putAt'[u] <= Puts'
  BY <1>4, <1>5 DEF IInv, Threads
<1>13. Threads'
  BY <1>3, <1>4, <1>9, <1>10, <1>11, <1>12 DEF Threads
<1>14. NewestKept'
  <2> SUFFICES ASSUME NEW k \in Kinds, NEW x \in PutTo(k)', AlwaysAsked(k, x)' PROVE x \in files'[k]
    BY DEF NewestKept
  <2>1. CASE x \in PutTo(k)
    <3>1. \A m \in Keeps : m \in Nat /\ Cardinality(NewerPut(k, x)') < m
      BY BoundsAssumption DEF AlwaysAsked
    <3>2. AlwaysAsked(k, x)
      BY <1>8, <2>1, <3>1, CountsOf DEF AlwaysAsked
    <3> QED BY <2>1, <3>2, <1>1 DEF IInv, NewestKept, Threads
  <2>2. CASE x \notin PutTo(k)
    BY <1>1, <1>6, <2>2 DEF IInv, Threads
  <2> QED BY <2>1, <2>2
<1>15. \A u \in Stamps : putAt[u] > 0 => putAt'[u] > 0
  BY <1>4, <1>5
<1> QED BY <1>13, <1>14, <1>15, DatabaseStays DEF IInv

LEMMA UploadKeeps ==
  ASSUME IInv, NEW t \in Stamps, Upload(t)  PROVE IInv'
<1>1. thread[t] \in Thread /\ thread[t].st = "upload" /\ thread[t].keep \in Keeps /\ putAt[t] = 0 /\ ThreadOK(t)
  BY DEF Upload, IInv, Threads, ThreadOK
<1>2. UNCHANGED <<clock, fired, cfg, lock, sess, today, saves>>
  BY DEF Upload
<1>3. CASE thread' = [thread EXCEPT ![t].st = "threw"] /\ UNCHANGED <<files, putAt>>
  <2> DEFINE n == [thread[t] EXCEPT !.st = "threw"]
  <2>1. /\ n \in Thread /\ n.kind = thread[t].kind /\ n.keep = thread[t].keep /\ n.st = "threw"
        /\ n.todo = thread[t].todo
    BY <1>1 DEF Thread
  <2>2. thread' = [thread EXCEPT ![t] = n]
    BY <1>3
  <2> HIDE DEF n
  <2>3. \A x \in n.todo : x \in PutTo(n.kind) /\ Cardinality(NewerPut(n.kind, x)) >= n.keep
    BY <1>1, <2>1 DEF ThreadOK
  <2>4. files' \in [Kinds -> SUBSET Stamps] /\ \A k \in Kinds : files'[k] \subseteq files[k]
    BY <1>3 DEF IInv, Threads
  <2>5. Threads' /\ (\A k : PutTo(k)' = PutTo(k)) /\ \A k, x : AlwaysAsked(k, x)' <=> AlwaysAsked(k, x)
    BY <1>1, <1>3, <2>1, <2>2, <2>3, <2>4, ThreadGoes DEF IInv
  <2>6. NewestKept'
    BY <1>3, <2>5 DEF IInv, NewestKept
  <2> QED BY <1>2, <1>3, <2>5, <2>6, DatabaseStays DEF IInv
<1> QED BY <1>1, <1>2, <1>3, PutKeeps DEF Upload

-----------------------------------------------------------------------------
\* Every step

LEMMA SessionStepKeeps ==
  ASSUME IInv, NEW s \in Sessions, SessionStep(s)  PROVE IInv'
BY SubmitKeeps, RunFailsKeeps, RunAnsweredKeeps, SaveOutcomeKeeps, FlushFailsKeeps, CommitKeeps DEF SessionStep

LEMMA StepKeeps == IInv /\ [Next]_vars => IInv'
<1> SUFFICES ASSUME IInv, [Next]_vars PROVE IInv'
  OBVIOUS
<1>1. CASE JobStep
  BY <1>1, OrderFacts, RunGcKeeps, CheckDueKeeps, SessionStepKeeps DEF JobStep
<1>2. ASSUME NEW q \in Requests, Manual(q) \/ ReadSettings(q) \/ RequestStep(q)  PROVE IInv'
  <2>1. q \in Sessions
    BY DEF Sessions
  <2> QED BY <1>2, <2>1, ManualKeeps, ReadSettingsKeeps, SaveSettingsKeeps, SessionStepKeeps DEF RequestStep
<1>3. ASSUME NEW t \in Stamps, ThreadStep(t)  PROVE IInv'
  BY <1>3, UploadKeeps, ListFilesKeeps, DeleteFileKeeps DEF ThreadStep
<1>4. CASE UNCHANGED vars
  <2>1. Threads' /\ NewestKept'
    BY <1>4, ThreadsStay DEF IInv, vars, remote
  <2>2. Settings' /\ Sess'
    BY <1>4, DatabaseStays DEF IInv, vars
  <2> QED BY <2>1, <2>2 DEF IInv
<1> QED BY <1>1, <1>2, <1>3, <1>4, FireJobKeeps, TickKeeps DEF Next

LEMMA Invariant == Spec => []IInv
<1> QED BY InitHolds, StepKeeps, PTL DEF Spec

-----------------------------------------------------------------------------
\* A committed last_backup_at names a backup that was really put, and the write lock
\* is held by the session that has flushed something, however the sessions of the
\* job and of the requests interleave (run_s3_backup, run_webdav_backup, PUT /backup/*).
THEOREM UploadsTrue == Spec => []LastUploaded
<1>1. IInv => LastUploaded
  <2> SUFFICES ASSUME IInv PROVE LastUploaded
    OBVIOUS
  <2>1. TypeOK
    BY DEF IInv, Settings, Sess, Threads, NothingFlushed, TypeOK
  <2>2. \A k \in Kinds : cfg[k].last # 0 => putAt[cfg[k].last] > 0
    BY DEF IInv, Settings, True
  <2> QED BY <2>1, <2>2 DEF LastUploaded
<1> QED BY <1>1, Invariant, PTL

\* A backup with fewer newer ones than every keep_backups there may be is not deleted,
\* by the thread of a run that was given up neither (the pruning of upload_to_s3 and
\* upload_to_webdav).
THEOREM NewestStay == Spec => []NewestKept
<1>1. IInv => NewestKept
  BY DEF IInv
<1> QED BY <1>1, Invariant, PTL

-----------------------------------------------------------------------------
\* The schedule: what is true of every row, of the job and of every day

Places == 1..Len(Order)

\* Every time of day in a row is one its backup may have.
RowsOf(r) ==
  /\ r.pc \in {"submit", "waiting", "save", "settings"} => r.row.time \in Times[Order[r.at]]
  /\ \A k \in Kinds : r.flushed[k] # NotFlushed => r.flushed[k].time \in Times[k]
Rows ==
  /\ \A k \in Kinds : cfg[k].time \in Times[k]
  /\ \A s \in Sessions : RowsOf(sess[s])

\* At minute m, whose event has come if f: the job is in the minute it started in, or it
\* waited for the first backup into the next.
InTime(m, f, r) ==
  \/ m = r.hhmm /\ f = TRUE
  \/ m = (r.hhmm + 1) % DayLen /\ r.hhmm \in Times[Order[1]]
Clean(r) == \A i \in Places : i > r.at => r.flushed[Order[i]] = NotFlushed
JobRuns(m, f, r) ==
  /\ r.pc # "settings" /\ (r.pc = "gc" => r.at = 1) /\ (r.pc = "commit" => r.at = Len(Order))
  /\ r.pc # "commit" => Clean(r) /\ r.flushed[Order[r.at]] = NotFlushed
  /\ r.pc \in {"submit", "waiting", "save"} => r.row.time = r.hhmm
  /\ r.at = 1 /\ r.pc \in {"gc", "check", "submit"} => m = r.hhmm /\ f = TRUE
  /\ r.at = 1 /\ r.pc = "waiting" => r.since = r.hhmm
  /\ (r.at = 1 /\ r.pc \in {"waiting", "save"}) \/ r.pc = "check" => InTime(m, f, r)

\* The job has still to come to the i-th backup, and will find the row due.
Ahead(row, r, i) ==
  /\ r.pc # "idle" /\ r.hhmm = row.time
  /\ i > r.at \/ (i = r.at /\ r.pc \in {"gc", "check"})
Before(m, f, time) == m < time \/ (m = time /\ f = FALSE)

\* What has become of a backup, or of the collector, and what is still to come.
DayOf(d, m, f, row, r, i) ==
  /\ d = "open" => row.enabled = TRUE /\ (Before(m, f, row.time) \/ Ahead(row, r, i))
  /\ d = "started" => ~Before(m, f, row.time) /\ ~Ahead(row, r, i)
GcDay(d, m, f, r) == d = "open" => Before(m, f, GcTime) \/ r.pc = "gc"

Days ==
  /\ \A i \in Places : DayOf(today[Order[i]], clock, fired, cfg[Order[i]], sess[Job], i)
  /\ GcDay(today["gc"], clock, fired, sess[Job])

Calendar == Rows /\ JobRuns(clock, fired, sess[Job]) /\ Days

LEMMA OrderTwo ==
  /\ Len(Order) \in {1, 2} /\ Places = 1..Len(Order) /\ 1 \in Places
  /\ \A i \in Places : Order[i] \in Kinds /\ Order[i] \in Tasks /\ Order[i] # "gc"
  /\ \A i, j \in Places : Order[i] = Order[j] => i = j
  /\ \A k \in Kinds : \E i \in Places : k = Order[i]
<1>1. Len(Order) \in Nat \ {0} /\ \A i \in Places : Order[i] \in {"s3", "webdav"}
  BY OrderAssumption DEF Places
<1>2. \A i, j \in Places : Order[i] = Order[j] => i = j
  BY OrderAssumption DEF Places
<1>3. ~(Len(Order) > 2)
  <2> SUFFICES ASSUME Len(Order) > 2 PROVE FALSE
    OBVIOUS
  <2>1. {1, 2, 3} \subseteq Places
    BY <1>1 DEF Places
  <2>2. Order[1] # Order[2] /\ Order[1] # Order[3] /\ Order[2] # Order[3]
    BY <1>2, <2>1
  <2>3. {Order[1], Order[2], Order[3]} \subseteq {"s3", "webdav"}
    BY <1>1, <2>1
  <2> QED BY <2>2, <2>3
<1>4. Len(Order) \in {1, 2}
  <2>1. \A n \in Nat \ {0} : ~(n > 2) => n \in {1, 2}
    OBVIOUS
  <2> QED BY <1>1, <1>3, <2>1, Zenon
<1> QED BY <1>1, <1>2, <1>4 DEF Places, Kinds, Tasks

LEMMA TimesFacts ==
  /\ DayLen \in Nat /\ DayLen > 1 /\ GcTime \in Minutes
  /\ \A k \in Kinds : Times[k] \subseteq Minutes /\ Schedule[k] \in Times[k]
  /\ \A m \in Times[Order[1]] : Len(Order) = 2 /\ m \in Times[Order[2]] => m + 1 < DayLen
<1>1. DayLen \in Nat /\ DayLen > 1 /\ GcTime \in Minutes
  BY ClockAssumption
<1>2. \A k \in Kinds : Times[k] \subseteq Minutes /\ Schedule[k] \in Times[k]
  BY ScheduleAssumption
<1>3. ASSUME NEW m \in Times[Order[1]], Len(Order) = 2, m \in Times[Order[2]]  PROVE m + 1 < DayLen
  <2>1. 1 \in 1..Len(Order) /\ 2 \in 1..Len(Order)
    BY <1>3
  <2>2. m + (2 - 1) < DayLen
    BY <1>3, <2>1, ScheduleAssumption
  <2> QED BY <2>2
<1> QED BY <1>1, <1>2, <1>3

\* The clock, the rows and the sessions are what they should be.
LEMMA State ==
  ASSUME IInv
  PROVE  /\ clock \in Minutes /\ clock \in Int /\ fired \in BOOLEAN
         /\ \A k \in Kinds : cfg[k] \in Config /\ cfg[k].time \in Minutes /\ cfg[k].time \in Int
         /\ \A s \in Sessions : sess[s] \in Session /\ sess[s].at \in Places
         /\ DOMAIN sess = Sessions /\ Job \in Sessions
<1>1. \A k \in Kinds : cfg[k] \in Config /\ cfg[k].time \in Minutes
  BY DEF IInv, Settings, Config
<1>2. \A s \in Sessions : sess[s] \in Session /\ sess[s].at \in Places
  BY DEF IInv, Sess, Session, Places
<1> QED BY <1>1, <1>2, OrderFacts DEF IInv, Settings, Sess

LEMMA ReadInTime ==
  ASSUME Rows, NEW s \in Sessions, NEW k \in Kinds  PROVE Read(s, k).time \in Times[k]
BY DEF Rows, RowsOf, Read

LEMMA RowsGo ==
  ASSUME IInv, Rows, NEW s \in Sessions, NEW r, Goes(s, r), RowsOf(r), UNCHANGED cfg  PROVE Rows'
<1>1. \A t \in Sessions : sess'[t] = IF t = s THEN r ELSE sess[t]
  BY State DEF Goes
<1>2. \A t \in Sessions : RowsOf(sess'[t])
  BY <1>1 DEF Rows
<1> QED BY <1>2 DEF Rows, RowsOf

LEMMA IdleRows == RowsOf(Idle) /\ Idle.pc = "idle" /\ Idle.at = 1 /\ \A k \in Kinds : Idle.flushed[k] = NotFlushed
BY DEF RowsOf, Idle

\* Another session goes on.
LEMMA OthersGo ==
  ASSUME IInv, Calendar, Rows', sess'[Job] = sess[Job], UNCHANGED <<clock, fired, cfg, today>>
  PROVE  Calendar'
BY DEF Calendar, Days

\* The job goes on, and what is still to come is the same.
LEMMA JobGoes ==
  ASSUME IInv, Calendar, NEW r, Goes(Job, r), RowsOf(r), JobRuns(clock, fired, r),
         sess[Job].pc # "gc",
         \A row : \A i \in Places : Ahead(row, r, i) <=> Ahead(row, sess[Job], i),
         UNCHANGED <<clock, fired, cfg, today>>
  PROVE  Calendar'
<1>1. sess'[Job] = r
  BY State DEF Goes
<1>2. Rows'
  BY State, RowsGo DEF Calendar
<1>3. \A i \in Places : DayOf(today[Order[i]], clock, fired, cfg[Order[i]], r, i)
  BY DEF Calendar, Days, DayOf
<1>4. GcDay(today["gc"], clock, fired, r)
  BY DEF Calendar, Days, GcDay
<1> QED BY <1>1, <1>2, <1>3, <1>4 DEF Calendar, Days

\* The next backup of the loop, or the commit after it.
LEMMA NextRuns ==
  ASSUME NEW r \in Session, r.pc \in {"check", "submit", "waiting", "save"}, Clean(r), NEW m, NEW f,
         r.at = 1 => InTime(m, f, r),
         \A k \in Kinds : r.flushed[k] # NotFlushed => r.flushed[k].time \in Times[k]
  PROVE  /\ RowsOf(NextKind(r)) /\ JobRuns(m, f, NextKind(r)) /\ NextKind(r).hhmm = r.hhmm
         /\ \A row : \A i \in Places : Ahead(row, NextKind(r), i) <=> (r.hhmm = row.time /\ i > r.at)
<1>1. r.at \in Places /\ r.at \in {1, 2} /\ Len(Order) \in {1, 2}
  BY OrderTwo DEF Session, Places
<1>2. CASE r.at < Len(Order)
  <2> DEFINE q == [r EXCEPT !.pc = "check", !.at = @ + 1, !.row = NotFlushed, !.stamp = 0, !.since = 0]
  <2>1. q.pc = "check" /\ q.at = r.at + 1 /\ q.flushed = r.flushed /\ q.hhmm = r.hhmm
    BY DEF Session
  <2>2. NextKind(r) = q
    BY <1>2 DEF NextKind
  <2> HIDE DEF q
  <2>3. r.at = 1 /\ q.at = 2 /\ q.at \in Places /\ InTime(m, f, q)
    BY <1>1, <1>2, <2>1, OrderTwo DEF InTime
  <2>4. Clean(q) /\ q.flushed[Order[q.at]] = NotFlushed
    BY <2>1, <2>3, OrderTwo DEF Clean
  <2>5. JobRuns(m, f, q)
    BY <2>1, <2>3, <2>4 DEF JobRuns
  <2>6. RowsOf(q)
    BY <2>1 DEF RowsOf
  <2>7. \A row : \A i \in Places : Ahead(row, q, i) <=> (r.hhmm = row.time /\ i > r.at)
    BY <2>1, <2>3, OrderTwo DEF Ahead
  <2> QED BY <2>1, <2>2, <2>5, <2>6, <2>7
<1>3. CASE ~(r.at < Len(Order))
  <2> DEFINE q == [r EXCEPT !.pc = "commit", !.row = NotFlushed, !.stamp = 0, !.since = 0]
  <2>1. q.pc = "commit" /\ q.at = r.at /\ q.flushed = r.flushed /\ q.hhmm = r.hhmm
    BY DEF Session
  <2>2. NextKind(r) = q
    BY <1>3 DEF NextKind
  <2>3. r.at = Len(Order)
    BY <1>1, <1>3, OrderTwo
  <2> HIDE DEF q
  <2>5. JobRuns(m, f, q)
    BY <2>1, <2>3 DEF JobRuns
  <2>6. RowsOf(q)
    BY <2>1 DEF RowsOf
  <2>7. \A row : \A i \in Places : Ahead(row, q, i) <=> (r.hhmm = row.time /\ i > r.at)
    BY <2>1, <2>3, OrderTwo DEF Ahead
  <2> QED BY <2>1, <2>2, <2>5, <2>6, <2>7
<1> QED BY <1>2, <1>3

-----------------------------------------------------------------------------
\* The schedule: the steps of the job

LEMMA JobFacts ==
  ASSUME IInv, Calendar
  PROVE  /\ sess[Job] \in Session /\ sess[Job].at \in Places /\ KindOf(Job) = Order[sess[Job].at]
         /\ RowsOf(sess[Job]) /\ JobRuns(clock, fired, sess[Job])
BY State DEF Calendar, Rows, KindOf

\* The job goes on after the backup it is at.
LEMMA JobGoesOn ==
  ASSUME IInv, Calendar, NEW r \in Session, r.pc \in {"submit", "waiting", "save"},
         sess[Job].pc = r.pc, r.at = sess[Job].at, r.hhmm = sess[Job].hhmm, Clean(r),
         \A k \in Kinds : r.flushed[k] # NotFlushed => r.flushed[k].time \in Times[k],
         Goes(Job, NextKind(r)), UNCHANGED <<clock, fired, cfg, today>>
  PROVE  Calendar'
<1>1. r.at = 1 => InTime(clock, fired, r)
  BY JobFacts DEF JobRuns, InTime
<1>2. /\ RowsOf(NextKind(r)) /\ JobRuns(clock, fired, NextKind(r)) /\ NextKind(r).hhmm = r.hhmm
      /\ \A row : \A i \in Places : Ahead(row, NextKind(r), i) <=> (r.hhmm = row.time /\ i > r.at)
  BY <1>1, NextRuns
<1>3. \A row : \A i \in Places : Ahead(row, sess[Job], i) <=> (r.hhmm = row.time /\ i > r.at)
  BY DEF Ahead
<1>4. \A row : \A i \in Places : Ahead(row, NextKind(r), i) <=> Ahead(row, sess[Job], i)
  BY <1>2, <1>3, Zenon
<1> HIDE DEF NextKind
<1>5. PICK q : q = NextKind(r)
  OBVIOUS
<1>6. /\ Goes(Job, q) /\ RowsOf(q) /\ JobRuns(clock, fired, q)
      /\ \A row : \A i \in Places : Ahead(row, q, i) <=> Ahead(row, sess[Job], i)
  BY <1>2, <1>4, <1>5, Zenon
<1> QED BY <1>6, JobGoes

LEMMA SubmitTimely ==
  ASSUME IInv, Calendar, NEW s \in Sessions, Submit(s)  PROVE Calendar'
<1>1. PICK t \in Stamps : Goes(s, [sess[s] EXCEPT !.pc = "waiting", !.stamp = t, !.since = clock])
  BY DEF Submit
<1> DEFINE r == [sess[s] EXCEPT !.pc = "waiting", !.stamp = t, !.since = clock]
<1>2. /\ r.pc = "waiting" /\ r.row = sess[s].row /\ r.flushed = sess[s].flushed /\ r.at = sess[s].at
      /\ r.hhmm = sess[s].hhmm /\ r.since = clock
  BY State DEF Session
<1>3. sess[s].pc = "submit" /\ UNCHANGED <<clock, fired, cfg, today>>
  BY DEF Submit
<1>4. Goes(s, r)
  BY <1>1
<1> HIDE DEF r
<1>5. RowsOf(r)
  BY <1>2, <1>3 DEF RowsOf, Calendar, Rows
<1>6. CASE s = Job
  <2>1. JobRuns(clock, fired, r)
    BY <1>2, <1>3, <1>6, JobFacts DEF JobRuns, InTime, Clean
  <2>2. \A row : \A i \in Places : Ahead(row, r, i) <=> Ahead(row, sess[Job], i)
    BY <1>2, <1>3, <1>6 DEF Ahead
  <2> QED BY <1>3, <1>4, <1>5, <1>6, <2>1, <2>2, JobGoes
<1>7. CASE s # Job
  <2>1. sess'[Job] = sess[Job]
    BY <1>4, <1>7, State DEF Goes
  <2>2. Rows'
    BY <1>3, <1>4, <1>5, RowsGo DEF Calendar
  <2> QED BY <1>3, <2>1, <2>2, OthersGo
<1> QED BY <1>6, <1>7

\* A request ends, or is rolled back.
LEMMA RequestEnds ==
  ASSUME IInv, Calendar, NEW q \in Sessions, q # Job, Goes(q, Idle), UNCHANGED <<clock, fired, cfg, today>>
  PROVE  Calendar'
<1>1. sess'[Job] = sess[Job]
  BY State DEF Goes
<1>2. Rows'
  BY IdleRows, RowsGo DEF Calendar
<1> QED BY <1>1, <1>2, OthersGo

LEMMA RunFailsTimely ==
  ASSUME IInv, Calendar, NEW s \in Sessions, RunFails(s)  PROVE Calendar'
<1>1. sess[s].pc \in {"submit", "waiting"} /\ UNCHANGED <<clock, fired, cfg, today>>
  BY DEF RunFails
<1>2. CASE s = Job
  <2>1. Goes(Job, NextKind(sess[Job]))
    BY <1>2 DEF RunFails, AfterFailure
  <2>2. /\ sess[Job] \in Session /\ Clean(sess[Job])
        /\ \A k \in Kinds : sess[Job].flushed[k] # NotFlushed => sess[Job].flushed[k].time \in Times[k]
    BY <1>1, <1>2, JobFacts DEF JobRuns, RowsOf
  <2> QED BY <1>1, <1>2, <2>1, <2>2, JobGoesOn
<1>3. CASE s # Job
  <2>1. Goes(s, Idle)
    BY <1>3 DEF RunFails, AfterFailure
  <2> QED BY <1>1, <1>3, <2>1, RequestEnds
<1> QED BY <1>2, <1>3

LEMMA RunAnsweredTimely ==
  ASSUME IInv, Calendar, NEW s \in Sessions, RunAnswered(s)  PROVE Calendar'
<1> DEFINE r == [sess[s] EXCEPT !.pc = "save"]
<1>1. sess[s].pc = "waiting" /\ Goes(s, r) /\ UNCHANGED <<clock, fired, cfg, today>>
  BY DEF RunAnswered
<1>2. /\ r.pc = "save" /\ r.row = sess[s].row /\ r.flushed = sess[s].flushed /\ r.at = sess[s].at
      /\ r.hhmm = sess[s].hhmm
  BY State DEF Session
<1> HIDE DEF r
<1>5. RowsOf(r)
  BY <1>1, <1>2 DEF RowsOf, Calendar, Rows
<1>6. CASE s = Job
  <2>1. JobRuns(clock, fired, r)
    BY <1>1, <1>2, <1>6, JobFacts DEF JobRuns, InTime, Clean
  <2>2. \A row : \A i \in Places : Ahead(row, r, i) <=> Ahead(row, sess[Job], i)
    BY <1>1, <1>2, <1>6 DEF Ahead
  <2> QED BY <1>1, <1>5, <1>6, <2>1, <2>2, JobGoes
<1>7. CASE s # Job
  <2>1. sess'[Job] = sess[Job]
    BY <1>1, <1>7, State DEF Goes
  <2>2. Rows'
    BY <1>1, <1>5, RowsGo DEF Calendar
  <2> QED BY <1>1, <2>1, <2>2, OthersGo
<1> QED BY <1>6, <1>7

\* What a session flushes keeps to the times of its backup.
LEMMA FlushedInTime ==
  ASSUME IInv, Rows, NEW s \in Sessions, NEW row, row \in Config, row.time \in Times[KindOf(s)]
  PROVE  /\ Flushed(s, row).pc = sess[s].pc /\ Flushed(s, row).at = sess[s].at
         /\ Flushed(s, row).hhmm = sess[s].hhmm /\ Flushed(s, row) \in Session
         /\ \A k \in Kinds : k # KindOf(s) => Flushed(s, row).flushed[k] = sess[s].flushed[k]
         /\ \A k \in Kinds : Flushed(s, row).flushed[k] # NotFlushed => Flushed(s, row).flushed[k].time \in Times[k]
<1>1. sess[s] \in Session /\ KindOf(s) \in Kinds
  BY SessionFacts
<1> DEFINE r == [sess[s] EXCEPT !.flushed[KindOf(s)] = row]
<1>2. /\ r.pc = sess[s].pc /\ r.at = sess[s].at /\ r.hhmm = sess[s].hhmm /\ r \in Session
      /\ r.flushed = [sess[s].flushed EXCEPT ![KindOf(s)] = row]
  BY <1>1 DEF Session
<1>3. Flushed(s, row) = r
  BY DEF Flushed
<1> HIDE DEF r
<1>4. DOMAIN sess[s].flushed = Kinds
  BY <1>1 DEF Session
<1>5. \A k \in Kinds : r.flushed[k] = IF k = KindOf(s) THEN row ELSE sess[s].flushed[k]
  BY <1>1, <1>2, <1>4
<1>6. \A k \in Kinds : r.flushed[k] # NotFlushed => r.flushed[k].time \in Times[k]
  BY <1>5 DEF Rows, RowsOf
<1> QED BY <1>2, <1>3, <1>5, <1>6

LEMMA SaveOutcomeTimely ==
  ASSUME IInv, Calendar, NEW s \in Sessions, SaveOutcome(s)  PROVE Calendar'
<1>1. sess[s].pc = "save" /\ UNCHANGED <<clock, fired, cfg, today>> /\ sess[s] \in Session
  BY State DEF SaveOutcome
<1>2. Outcome(s) \in Config /\ Outcome(s).time \in Times[KindOf(s)]
  <2>1. sess[s].row \in Config /\ sess[s].stamp \in Stamps /\ sess[s].row.time \in Times[KindOf(s)]
    BY <1>1, SessionFacts DEF SessionOK, True, Calendar, Rows, RowsOf, KindOf
  <2> QED BY <2>1 DEF Outcome, Config
<1>3. PICK r : r = Flushed(s, Outcome(s))
  OBVIOUS
<1>4. /\ r.pc = "save" /\ r.at = sess[s].at /\ r.hhmm = sess[s].hhmm /\ r \in Session
      /\ \A k \in Kinds : k # KindOf(s) => r.flushed[k] = sess[s].flushed[k]
      /\ \A k \in Kinds : r.flushed[k] # NotFlushed => r.flushed[k].time \in Times[k]
  BY <1>1, <1>2, <1>3, FlushedInTime DEF Calendar
<1>5. CASE s = Job
  <2>1. Goes(Job, NextKind(r))
    BY <1>3, <1>5 DEF SaveOutcome
  <2>2. Clean(r)
    <3>1. ASSUME NEW i \in Places, i > r.at  PROVE r.flushed[Order[i]] = NotFlushed
      <4>1. Order[i] # KindOf(s) /\ Order[i] \in Kinds
        BY <1>4, <1>5, <3>1, JobFacts, OrderTwo
      <4>2. sess[s].flushed[Order[i]] = NotFlushed
        BY <1>1, <1>4, <1>5, <3>1, JobFacts DEF JobRuns, Clean
      <4> QED BY <1>4, <4>1, <4>2
    <3> QED BY <3>1 DEF Clean
  <2> QED BY <1>1, <1>4, <1>5, <2>1, <2>2, JobGoesOn
<1>6. CASE s # Job
  <2> DEFINE q == [r EXCEPT !.pc = "commit"]
  <2>1. Goes(s, q)
    BY <1>3, <1>6 DEF SaveOutcome
  <2>2. q.pc = "commit" /\ q.flushed = r.flushed
    BY <1>4 DEF Session
  <2> HIDE DEF q
  <2>3. RowsOf(q)
    BY <1>4, <2>2 DEF RowsOf
  <2>4. sess'[Job] = sess[Job]
    BY <1>6, <2>1, State DEF Goes
  <2>5. Rows'
    BY <1>1, <2>1, <2>3, RowsGo DEF Calendar
  <2> QED BY <1>1, <2>4, <2>5, OthersGo
<1> QED BY <1>5, <1>6

LEMMA FlushFailsTimely ==
  ASSUME IInv, Calendar, NEW s \in Sessions, FlushFails(s)  PROVE Calendar'
<1>1. sess[s].pc \in {"save", "settings"} /\ UNCHANGED <<clock, fired, cfg, today>>
  BY DEF FlushFails
<1>2. CASE s = Job
  <2>1. PICK r : r = [sess[Job] EXCEPT !.broken = TRUE, !.flushed = Idle.flushed]
    OBVIOUS
  <2>2. sess[Job].pc = "save"
    BY <1>1, <1>2, JobFacts DEF JobRuns
  <2>3. \A k \in Kinds : Idle.flushed[k] = NotFlushed
    BY IdleRows
  <2>4. Idle.flushed \in [Kinds -> Config \cup {NotFlushed}]
    BY DEF Idle
  <2>5. /\ r.pc = "save" /\ r.at = sess[Job].at /\ r.hhmm = sess[Job].hhmm /\ r \in Session
        /\ r.flushed = Idle.flushed
    <3> HIDE DEF Idle
    <3> QED BY <2>1, <2>2, <2>4, JobFacts DEF Session
  <2>6. Clean(r)
    BY <2>3, <2>5, OrderTwo DEF Clean
  <2>7. Goes(Job, NextKind(r))
    BY <1>2, <2>1 DEF FlushFails
  <2>8. \A k \in Kinds : r.flushed[k] # NotFlushed => r.flushed[k].time \in Times[k]
    BY <2>3, <2>5
  <2> QED BY <1>1, <2>2, <2>5, <2>6, <2>7, <2>8, JobGoesOn
<1>3. CASE s # Job
  <2>1. Goes(s, Idle)
    BY <1>3 DEF FlushFails
  <2> QED BY <1>1, <1>3, <2>1, RequestEnds
<1> QED BY <1>2, <1>3

LEMMA SaveSettingsTimely ==
  ASSUME IInv, Calendar, NEW q \in Requests, SaveSettings(q)  PROVE Calendar'
<1>1. q \in Sessions /\ q # Job
  BY SessionsAssumption DEF Sessions
<1>2. sess[q].pc = "settings" /\ sess[q].row \in Config /\ KindOf(q) \in Kinds
  BY <1>1, SessionFacts DEF SaveSettings, SessionOK, True
<1>3. PICK e \in BOOLEAN, m \in Times[KindOf(q)], n \in Keeps :
        Goes(q, [Flushed(q, [sess[q].row EXCEPT !.enabled = e, !.time = m, !.keep = n]) EXCEPT !.pc = "commit"])
  BY DEF SaveSettings
<1>4. PICK row : row = [sess[q].row EXCEPT !.enabled = e, !.time = m, !.keep = n]
  OBVIOUS
<1>5. row \in Config /\ row.time \in Times[KindOf(q)]
  <2>1. m \in Minutes
    BY <1>2, TimesFacts
  <2> QED BY <1>2, <1>4, <2>1 DEF Config
<1>6. PICK r : r = Flushed(q, row)
  OBVIOUS
<1>7. r \in Session /\ \A k \in Kinds : r.flushed[k] # NotFlushed => r.flushed[k].time \in Times[k]
  BY <1>1, <1>5, <1>6, FlushedInTime DEF Calendar
<1>8. PICK c : c = [r EXCEPT !.pc = "commit"]
  OBVIOUS
<1>9. Goes(q, c)
  BY <1>3, <1>4, <1>6, <1>8
<1>10. c.pc = "commit" /\ c.flushed = r.flushed
  BY <1>7, <1>8 DEF Session
<1>11. RowsOf(c)
  BY <1>7, <1>10 DEF RowsOf
<1>12. sess'[Job] = sess[Job] /\ UNCHANGED <<clock, fired, cfg, today>>
  BY <1>1, <1>9, State DEF Goes, SaveSettings
<1>13. Rows'
  BY <1>1, <1>9, <1>11, <1>12, RowsGo DEF Calendar
<1> QED BY <1>12, <1>13, OthersGo

\* A request begins with the row it reads.
LEMMA BeginsTimely ==
  ASSUME IInv, Calendar, NEW q \in Requests, Manual(q) \/ ReadSettings(q)  PROVE Calendar'
<1>1. q \in Sessions /\ q # Job
  BY SessionsAssumption DEF Sessions
<1>2. PICK i \in Places, pc \in {"submit", "settings"} :
        Goes(q, [Idle EXCEPT !.pc = pc, !.at = i, !.row = cfg[Order[i]]])
  BY DEF Manual, ReadSettings, Places
<1>3. PICK r : r = [Idle EXCEPT !.pc = pc, !.at = i, !.row = cfg[Order[i]]]
  OBVIOUS
<1>4. r.at = i /\ r.row = cfg[Order[i]] /\ r.flushed = Idle.flushed
  BY <1>3 DEF Idle
<1>5. RowsOf(r)
  BY <1>4, IdleRows, OrderTwo DEF RowsOf, Calendar, Rows
<1>6. Goes(q, r)
  BY <1>2, <1>3
<1>7. sess'[Job] = sess[Job] /\ UNCHANGED <<clock, fired, cfg, today>>
  BY <1>1, <1>6, State DEF Goes, Manual, ReadSettings
<1>8. Rows'
  BY <1>1, <1>5, <1>6, <1>7, RowsGo DEF Calendar
<1> QED BY <1>7, <1>8, OthersGo

\* The job comes to a backup, and what it does there settles the day of that backup.
LEMMA JobChecks ==
  ASSUME IInv, Calendar, sess[Job].pc = "check", NEW r, Goes(Job, r), RowsOf(r),
         JobRuns(clock, fired, r), NEW d,
         DayOf(d, clock, fired, cfg[KindOf(Job)], r, sess[Job].at),
         today' = [today EXCEPT ![KindOf(Job)] = d],
         \A row : \A i \in Places : i # sess[Job].at => (Ahead(row, r, i) <=> Ahead(row, sess[Job], i)),
         UNCHANGED <<clock, fired, cfg>>
  PROVE  Calendar'
<1>1. sess'[Job] = r
  BY State DEF Goes
<1>2. Rows'
  BY State, RowsGo DEF Calendar
<1>3. DOMAIN today = Tasks /\ KindOf(Job) = Order[sess[Job].at] /\ sess[Job].at \in Places
  BY JobFacts DEF IInv, Settings
<1>4. ASSUME NEW i \in Places  PROVE DayOf(today'[Order[i]], clock, fired, cfg[Order[i]], r, i)
  <2>1. CASE i = sess[Job].at
    <3>1. today'[Order[i]] = d
      BY <1>3, <2>1, OrderTwo
    <3> QED BY <1>3, <2>1, <3>1
  <2>2. CASE i # sess[Job].at
    <3>1. Order[i] # KindOf(Job) /\ Order[i] \in Tasks
      BY <1>3, <2>2, OrderTwo
    <3>2. today'[Order[i]] = today[Order[i]]
      BY <1>3, <3>1
    <3>3. DayOf(today[Order[i]], clock, fired, cfg[Order[i]], sess[Job], i)
      BY DEF Calendar, Days
    <3>4. Ahead(cfg[Order[i]], r, i) <=> Ahead(cfg[Order[i]], sess[Job], i)
      BY <2>2
    <3> QED BY <3>2, <3>3, <3>4 DEF DayOf
  <2> QED BY <2>1, <2>2
<1>5. GcDay(today'["gc"], clock, fired, r)
  <2>1. today'["gc"] = today["gc"]
    BY <1>3, OrderTwo DEF Tasks
  <2> QED BY <2>1 DEF Calendar, Days, GcDay
<1> QED BY <1>1, <1>2, <1>4, <1>5 DEF Calendar, Days

\* A backup that is due is started in the minute it is due, or in the next of the same day.
LEMMA DueIsAhead ==
  ASSUME IInv, Calendar, sess[Job].pc = "check", Due(sess[Job], cfg[KindOf(Job)])
  PROVE  /\ Ahead(cfg[KindOf(Job)], sess[Job], sess[Job].at)
         /\ ~Before(clock, fired, cfg[KindOf(Job)].time)
<1> DEFINE r == sess[Job]
           k == KindOf(Job)
<1>1. /\ r \in Session /\ r.at \in Places /\ k = Order[r.at] /\ JobRuns(clock, fired, r) /\ k \in Kinds
      /\ r.hhmm = cfg[k].time /\ cfg[k].time \in Times[k] /\ cfg[k].time \in Int /\ clock \in Int
  BY JobFacts, State, OrderTwo DEF Due, Calendar, Rows
<1>2. Ahead(cfg[k], r, r.at)
  BY <1>1 DEF Ahead
<1>3. CASE clock = r.hhmm /\ fired = TRUE
  BY <1>1, <1>2, <1>3 DEF Before
<1>4. CASE ~(clock = r.hhmm /\ fired = TRUE)
  <2>1. clock = (r.hhmm + 1) % DayLen /\ r.hhmm \in Times[Order[1]] /\ r.at # 1
    BY <1>1, <1>4 DEF JobRuns, InTime
  <2>2. Len(Order) = 2 /\ r.at = 2
    BY <1>1, <2>1, OrderTwo
  <2>3. r.hhmm + 1 < DayLen
    BY <1>1, <2>1, <2>2, TimesFacts
  <2>4. r.hhmm \in 0..DayLen-1
    BY <1>1, TimesFacts DEF Minutes
  <2>5. clock = r.hhmm + 1
    BY <2>1, <2>3, <2>4, TimesFacts
  <2> QED BY <1>1, <1>2, <2>4, <2>5 DEF Before
<1> QED BY <1>2, <1>3, <1>4

LEMMA CheckDueTimely ==
  ASSUME IInv, Calendar, CheckDue  PROVE Calendar'
<1> DEFINE k == KindOf(Job)
<1>1. PICK r : r = sess[Job]
  OBVIOUS
<1>2. /\ r \in Session /\ r.at \in Places /\ k = Order[r.at] /\ k \in Kinds /\ RowsOf(r) /\ r.pc = "check"
      /\ JobRuns(clock, fired, r) /\ Clean(r) /\ r.flushed[k] = NotFlushed /\ InTime(clock, fired, r)
      /\ UNCHANGED <<clock, fired, cfg>>
  <2>1. r.pc = "check" /\ UNCHANGED <<clock, fired, cfg>>
    BY <1>1 DEF CheckDue
  <2>2. /\ r \in Session /\ r.at \in Places /\ k = Order[r.at] /\ RowsOf(r) /\ JobRuns(clock, fired, r)
        /\ Order[r.at] \in Kinds
    BY <1>1, JobFacts, OrderTwo
  <2> QED BY <2>1, <2>2 DEF JobRuns
<1>3. Read(Job, k) = cfg[k]
  BY <1>1, <1>2 DEF Read
<1>4. today \in [Tasks -> {"open", "started", "excused"}] /\ k \in Tasks
  BY <1>2 DEF IInv, Settings, Tasks
<1>5. DayOf(today[k], clock, fired, cfg[k], r, r.at)
  BY <1>1, <1>2 DEF Calendar, Days
<1>6. PICK n : n = NextKind(r)
  OBVIOUS
<1>7. /\ RowsOf(n) /\ JobRuns(clock, fired, n)
      /\ \A row : \A i \in Places : Ahead(row, n, i) <=> (r.hhmm = row.time /\ i > r.at)
  <2>1. \A j \in Kinds : r.flushed[j] # NotFlushed => r.flushed[j].time \in Times[j]
    BY <1>2 DEF RowsOf
  <2> QED BY <1>2, <1>6, <2>1, NextRuns
<1>8. \A row : \A i \in Places : i # r.at => (Ahead(row, n, i) <=> Ahead(row, r, i))
  BY <1>2, <1>7 DEF Ahead
<1>9. \A row : ~Ahead(row, n, r.at)
  <2>1. ~(r.at > r.at)
    BY <1>2, OrderTwo
  <2> QED BY <1>2, <1>7, <2>1
<1>10. CASE r.broken
  <2>1. PICK d : d = IF today[k] = "open" /\ Due(r, cfg[k]) THEN "excused" ELSE today[k]
    OBVIOUS
  <2>2. today' = [today EXCEPT ![k] = d] /\ Goes(Job, n)
    BY <1>1, <1>6, <1>10, <2>1 DEF CheckDue, Marked
  <2>3. DayOf(d, clock, fired, cfg[k], n, r.at)
    <3>1. CASE today[k] = "open" /\ Due(r, cfg[k])
      BY <2>1, <3>1 DEF DayOf
    <3>2. CASE today[k] = "open" /\ ~Due(r, cfg[k])
      BY <1>5, <2>1, <3>2 DEF DayOf, Due, Ahead
    <3>3. CASE today[k] # "open"
      BY <1>5, <1>9, <2>1, <3>3 DEF DayOf
    <3> QED BY <3>1, <3>2, <3>3
  <2> QED BY <1>1, <1>2, <1>7, <1>8, <2>2, <2>3, JobChecks
<1>11. CASE ~r.broken /\ Due(r, cfg[k])
  <2>1. PICK q : q = [r EXCEPT !.pc = "submit", !.row = cfg[k]]
    OBVIOUS
  <2>2. today' = [today EXCEPT ![k] = "started"] /\ Goes(Job, q)
    BY <1>1, <1>3, <1>11, <2>1 DEF CheckDue, Marked
  <2>3. q.pc = "submit" /\ q.row = cfg[k] /\ q.flushed = r.flushed /\ q.at = r.at /\ q.hhmm = r.hhmm
    BY <1>2, <2>1 DEF Session
  <2>4. RowsOf(q)
    BY <1>2, <2>3 DEF RowsOf, Calendar, Rows
  <2>5. JobRuns(clock, fired, q)
    BY <1>2, <1>11, <2>3 DEF JobRuns, Clean, Due
  <2>6. DayOf("started", clock, fired, cfg[k], q, r.at)
    <3>1. ~Before(clock, fired, cfg[k].time)
      BY <1>1, <1>2, <1>11, DueIsAhead
    <3>2. ~Ahead(cfg[k], q, r.at)
      <4>1. ~(r.at > r.at)
        BY <1>2, OrderTwo
      <4> QED BY <2>3, <4>1 DEF Ahead
    <3> QED BY <3>1, <3>2 DEF DayOf
  <2>7. \A row : \A i \in Places : i # r.at => (Ahead(row, q, i) <=> Ahead(row, r, i))
    BY <1>2, <2>3 DEF Ahead
  <2> QED BY <1>1, <1>2, <2>2, <2>4, <2>5, <2>6, <2>7, JobChecks
<1>12. CASE ~r.broken /\ ~Due(r, cfg[k])
  <2>1. UNCHANGED today /\ Goes(Job, n)
    BY <1>1, <1>3, <1>6, <1>12 DEF CheckDue
  <2>2. today' = [today EXCEPT ![k] = today[k]]
    BY <1>4, <2>1
  <2>3. DayOf(today[k], clock, fired, cfg[k], n, r.at)
    BY <1>5, <1>9, <1>12 DEF DayOf, Due, Ahead
  <2> QED BY <1>1, <1>2, <1>7, <1>8, <2>1, <2>2, <2>3, JobChecks
<1> QED BY <1>10, <1>11, <1>12

LEMMA RunGcTimely ==
  ASSUME IInv, Calendar, RunGc  PROVE Calendar'
<1>1. PICK r : r = [sess[Job] EXCEPT !.pc = "check"]
  OBVIOUS
<1>2. /\ sess[Job].pc = "gc" /\ Goes(Job, r) /\ today' = [today EXCEPT !["gc"] = "started"]
      /\ UNCHANGED <<clock, fired, cfg>>
  BY <1>1 DEF RunGc, Marked
<1>3. /\ r.pc = "check" /\ r.row = sess[Job].row /\ r.flushed = sess[Job].flushed
      /\ r.at = sess[Job].at /\ r.hhmm = sess[Job].hhmm
  BY <1>1, JobFacts DEF Session
<1>4. RowsOf(r) /\ JobRuns(clock, fired, r)
  BY <1>2, <1>3, JobFacts DEF RowsOf, JobRuns, Clean, InTime
<1>5. \A row : \A i \in Places : Ahead(row, r, i) <=> Ahead(row, sess[Job], i)
  BY <1>2, <1>3 DEF Ahead
<1>6. sess'[Job] = r
  BY <1>2, State DEF Goes
<1>7. Rows'
  BY <1>2, <1>4, State, RowsGo DEF Calendar
<1>8. ASSUME NEW i \in Places  PROVE DayOf(today'[Order[i]], clock, fired, cfg[Order[i]], r, i)
  <2>1. today'[Order[i]] = today[Order[i]]
    BY <1>2, OrderTwo DEF IInv, Settings
  <2> QED BY <1>5, <2>1 DEF Calendar, Days, DayOf
<1>9. GcDay(today'["gc"], clock, fired, r)
  <2>1. today'["gc"] = "started"
    BY <1>2 DEF IInv, Settings, Tasks
  <2> QED BY <2>1 DEF GcDay
<1> QED BY <1>2, <1>4, <1>6, <1>7, <1>8, <1>9 DEF Calendar, Days

-----------------------------------------------------------------------------
\* The schedule: the clock and the commits

LEMMA FireJobTimely ==
  ASSUME IInv, Calendar, FireJob  PROVE Calendar'
<1>1. fired = FALSE /\ fired' = TRUE /\ UNCHANGED <<clock, cfg>> /\ clock \in Int /\ clock \in Minutes
  BY State DEF FireJob
<1>2. today \in [Tasks -> {"open", "started", "excused"}] /\ GcTime \in Int /\ "gc" \in Tasks
  BY TimesFacts, OrderFacts DEF IInv, Settings, Tasks
<1>3. CASE /\ sess[Job].pc = "idle" /\ UNCHANGED today
           /\ Goes(Job, [Idle EXCEPT !.pc = IF clock = GcTime THEN "gc" ELSE "check", !.hhmm = clock])
  <2>1. PICK pc \in {"gc", "check"} :
          Goes(Job, [Idle EXCEPT !.pc = pc, !.hhmm = clock]) /\ (clock = GcTime => pc = "gc")
    BY <1>3
  <2>2. PICK r : r = [Idle EXCEPT !.pc = pc, !.hhmm = clock]
    OBVIOUS
  <2>3. r.pc = pc /\ r.hhmm = clock /\ r.at = 1 /\ r.flushed = Idle.flushed /\ Goes(Job, r)
    BY <2>1, <2>2 DEF Idle
  <2>4. RowsOf(r)
    BY <2>3, IdleRows DEF RowsOf
  <2>5. JobRuns(clock, TRUE, r)
    BY <2>3, IdleRows, OrderTwo DEF JobRuns, Clean, InTime
  <2>6. sess'[Job] = r /\ Rows'
    BY <1>1, <2>3, <2>4, State, RowsGo DEF Calendar, Goes
  <2>7. ASSUME NEW i \in Places  PROVE DayOf(today[Order[i]], clock, TRUE, cfg[Order[i]], r, i)
    <3>1. cfg[Order[i]].time \in Int
      BY OrderTwo, State
    <3>2. DayOf(today[Order[i]], clock, FALSE, cfg[Order[i]], sess[Job], i) /\ sess[Job].pc = "idle"
      BY <1>1, <1>3 DEF Calendar, Days
    <3>3. i > 1 \/ i = 1
      BY OrderTwo DEF Places
    <3>4. today[Order[i]] = "open" => cfg[Order[i]].enabled = TRUE
            /\ (clock < cfg[Order[i]].time \/ clock = cfg[Order[i]].time)
      BY <3>2 DEF DayOf, Before, Ahead
    <3>5. today[Order[i]] = "started" => ~(clock < cfg[Order[i]].time) /\ clock # cfg[Order[i]].time
      BY <3>2 DEF DayOf, Before
    <3>6. Ahead(cfg[Order[i]], r, i) <=> clock = cfg[Order[i]].time
      BY <2>3, <3>3 DEF Ahead
    <3> QED BY <1>1, <3>1, <3>4, <3>5, <3>6 DEF DayOf, Before
  <2>8. GcDay(today["gc"], clock, TRUE, r)
    <3>1. GcDay(today["gc"], clock, FALSE, sess[Job])
      BY <1>1 DEF Calendar, Days
    <3> QED BY <1>1, <1>2, <1>3, <2>1, <2>3, <3>1 DEF GcDay, Before
  <2> QED BY <1>1, <1>3, <2>5, <2>6, <2>7, <2>8 DEF Calendar, Days
<1>4. CASE /\ today' = [t \in Tasks |-> IF Skipped(t) THEN "excused" ELSE today[t]]
           /\ UNCHANGED sess
  <2>1. Rows'
    BY <1>1, <1>4 DEF Calendar, Rows
  <2>2. JobRuns(clock, TRUE, sess[Job])
    <3>1. JobRuns(clock, FALSE, sess[Job])
      BY <1>1 DEF Calendar
    <3> QED BY <3>1 DEF JobRuns, InTime
  <2>3. ASSUME NEW i \in Places  PROVE DayOf(today'[Order[i]], clock, TRUE, cfg[Order[i]], sess[Job], i)
    <3>1. cfg[Order[i]].time \in Int /\ Order[i] \in Tasks /\ Order[i] # "gc"
      BY OrderTwo, State
    <3>2. DayOf(today[Order[i]], clock, FALSE, cfg[Order[i]], sess[Job], i)
      BY <1>1 DEF Calendar, Days
    <3>3. today'[Order[i]] = IF today[Order[i]] = "open" /\ clock = cfg[Order[i]].time
                             THEN "excused" ELSE today[Order[i]]
      BY <1>4, <3>1 DEF Skipped
    <3> QED BY <1>1, <3>1, <3>2, <3>3 DEF DayOf, Before
  <2>4. GcDay(today'["gc"], clock, TRUE, sess[Job])
    <3>1. GcDay(today["gc"], clock, FALSE, sess[Job])
      BY <1>1 DEF Calendar, Days
    <3>2. today'["gc"] = IF today["gc"] = "open" /\ clock = GcTime THEN "excused" ELSE today["gc"]
      BY <1>2, <1>4 DEF Skipped
    <3> QED BY <1>1, <1>2, <3>1, <3>2 DEF GcDay, Before
  <2> QED BY <1>1, <1>4, <2>1, <2>2, <2>3, <2>4 DEF Calendar, Days
<1> QED BY <1>3, <1>4 DEF FireJob

\* A schedule that changes is not asked about before the next midnight.
LEMMA CommitTimely ==
  ASSUME IInv, Calendar, NEW s \in Sessions, Commit(s)  PROVE Calendar'
<1>1. /\ sess[s].pc = "commit" /\ Goes(s, Idle) /\ UNCHANGED <<clock, fired>>
      /\ \A k \in Kinds : cfg'[k] = Read(s, k)
  BY DEF Commit
<1>2. \A t \in Sessions : sess'[t] = IF t = s THEN Idle ELSE sess[t]
  BY <1>1, State DEF Goes
<1>3. Rows'
  <2>1. \A k \in Kinds : cfg'[k].time \in Times[k]
    BY <1>1, ReadInTime DEF Calendar
  <2>2. \A t \in Sessions : RowsOf(sess'[t])
    BY <1>2, IdleRows DEF Calendar, Rows
  <2> QED BY <2>1, <2>2 DEF Rows, RowsOf
<1>4. JobRuns(clock, fired, Idle)
  BY IdleRows, OrderTwo DEF JobRuns, Clean
<1>5. JobRuns(clock, fired, sess'[Job])
  BY <1>2, <1>4, State DEF Calendar
<1>6. \A i \in Places : \A row : Ahead(row, sess'[Job], i) <=> Ahead(row, sess[Job], i)
  <2>1. CASE s = Job
    <3>1. sess[Job].at = Len(Order)
      BY <1>1, <2>1, JobFacts DEF JobRuns
    <3>2. \A i \in Places : ~(i > Len(Order))
      BY OrderTwo DEF Places
    <3> QED BY <1>1, <1>2, <2>1, <3>1, <3>2, IdleRows, State DEF Ahead
  <2>2. CASE s # Job
    BY <1>2, <2>2, State
  <2> QED BY <2>1, <2>2
<1>7. ASSUME NEW i \in Places  PROVE DayOf(today'[Order[i]], clock, fired, cfg'[Order[i]], sess'[Job], i)
  <2> DEFINE k == Order[i]
  <2>1. k \in Kinds /\ k \in Tasks
    BY OrderTwo
  <2>2. CASE cfg'[k].time # cfg[k].time \/ cfg'[k].enabled # cfg[k].enabled
    <3>1. today'[k] = "excused"
      BY <2>1, <2>2 DEF Commit
    <3> QED BY <3>1 DEF DayOf
  <2>3. CASE cfg'[k].time = cfg[k].time /\ cfg'[k].enabled = cfg[k].enabled
    <3>1. today'[k] = today[k]
      BY <2>1, <2>3 DEF Commit
    <3>2. Ahead(cfg'[k], sess'[Job], i) <=> Ahead(cfg[k], sess[Job], i)
      BY <1>6, <2>3 DEF Ahead
    <3>3. DayOf(today[k], clock, fired, cfg[k], sess[Job], i)
      BY DEF Calendar, Days
    <3> QED BY <2>3, <3>1, <3>2, <3>3 DEF DayOf, Before
  <2> QED BY <2>2, <2>3
<1>8. GcDay(today'["gc"], clock, fired, sess'[Job])
  <2>1. today'["gc"] = today["gc"]
    <3>1. "gc" \in Tasks /\ "gc" \notin Kinds
      BY OrderTwo DEF Tasks
    <3> QED BY <3>1 DEF Commit
  <2>2. sess[Job].pc = "gc" => sess'[Job].pc = "gc"
    BY <1>1, <1>2, State
  <2> QED BY <2>1, <2>2 DEF Calendar, Days, GcDay
<1> QED BY <1>1, <1>3, <1>5, <1>7, <1>8 DEF Calendar, Days

\* Time passes only between two runs of the job or while it waits, and it does not wait
\* for the first backup past midnight where the second is due in the same minute.
LEMMA TickFacts ==
  ASSUME IInv, Calendar, Tick
  PROVE  /\ fired = TRUE /\ fired' = FALSE /\ clock \in 0..DayLen-1
         /\ clock' = (IF clock = DayLen - 1 THEN 0 ELSE clock + 1)
         /\ sess[Job].pc = "waiting" /\ sess[Job].at = 1
              => clock = sess[Job].hhmm /\ sess[Job].hhmm \in Times[Order[1]]
<1>1. fired = TRUE /\ fired' = FALSE /\ clock \in 0..DayLen-1 /\ clock' = (clock + 1) % DayLen
  BY State DEF Tick, Minutes
<1>2. clock' = (IF clock = DayLen - 1 THEN 0 ELSE clock + 1)
  BY <1>1, TimesFacts
<1>3. ASSUME sess[Job].pc = "waiting", sess[Job].at = 1
      PROVE  clock = sess[Job].hhmm /\ sess[Job].hhmm \in Times[Order[1]]
  <2>1. /\ sess[Job].since = sess[Job].hhmm /\ InTime(clock, fired, sess[Job])
        /\ sess[Job].row.time = sess[Job].hhmm /\ sess[Job].row.time \in Times[Order[1]]
    BY <1>3, JobFacts DEF JobRuns, RowsOf
  <2>2. clock # (sess[Job].since + 1) % DayLen
    BY <1>3, State DEF Tick, Elapsed
  <2> QED BY <2>1, <2>2 DEF InTime
<1> QED BY <1>1, <1>2, <1>3

LEMMA TickTimely ==
  ASSUME IInv, Calendar, Tick  PROVE Calendar'
<1>1. fired = TRUE /\ fired' = FALSE /\ clock \in Int /\ clock' \in Int /\ UNCHANGED <<cfg, sess>>
  <2>1. clock \in Int /\ DayLen \in Int
    BY State, TimesFacts
  <2>2. fired = TRUE /\ fired' = FALSE /\ (clock' = 0 \/ clock' = clock + 1)
    BY TickFacts
  <2> QED BY <2>1, <2>2 DEF Tick
<1>2. Rows'
  BY <1>1 DEF Calendar, Rows
<1>3. JobRuns(clock', FALSE, sess[Job])
  <2>1. sess[Job].pc \in {"idle", "waiting"}
    BY DEF Tick
  <2>2. sess[Job].pc = "waiting" /\ sess[Job].at = 1 => InTime(clock', FALSE, sess[Job])
    BY TickFacts DEF InTime, Tick
  <2> QED BY <2>1, <2>2, JobFacts DEF JobRuns
<1>4. CASE clock' = 0
  <2>1. today' = [t \in Tasks |-> IF t \in Kinds /\ ~cfg[t].enabled THEN "excused" ELSE "open"]
    BY <1>4 DEF Tick
  <2>2. ASSUME NEW i \in Places  PROVE DayOf(today'[Order[i]], clock', FALSE, cfg[Order[i]], sess[Job], i)
    <3>1. Order[i] \in Kinds /\ Order[i] \in Tasks /\ cfg[Order[i]] \in Config
      BY OrderTwo, State
    <3>2. cfg[Order[i]].time \in 0..DayLen-1 /\ cfg[Order[i]].enabled \in BOOLEAN
      BY <3>1 DEF Config, Minutes
    <3>3. Before(clock', FALSE, cfg[Order[i]].time)
      BY <1>4, <3>2, TimesFacts DEF Before
    <3> QED BY <2>1, <3>1, <3>2, <3>3 DEF DayOf
  <2>3. GcDay(today'["gc"], clock', FALSE, sess[Job])
    BY <1>4, TimesFacts DEF GcDay, Before, Minutes
  <2> QED BY <1>1, <1>2, <1>3, <2>2, <2>3 DEF Calendar, Days
<1>5. CASE clock' # 0
  <2>1. today' = today /\ clock' = clock + 1
    BY <1>5, TickFacts DEF Tick
  <2>2. \A time \in Int : Before(clock', FALSE, time) <=> Before(clock, TRUE, time)
    BY <1>1, <2>1 DEF Before
  <2>3. ASSUME NEW i \in Places  PROVE DayOf(today[Order[i]], clock', FALSE, cfg[Order[i]], sess[Job], i)
    <3>1. Before(clock', FALSE, cfg[Order[i]].time) <=> Before(clock, TRUE, cfg[Order[i]].time)
      BY <2>2, OrderTwo, State
    <3>2. DayOf(today[Order[i]], clock, TRUE, cfg[Order[i]], sess[Job], i)
      BY <1>1 DEF Calendar, Days
    <3> QED BY <3>1, <3>2 DEF DayOf
  <2>4. GcDay(today["gc"], clock', FALSE, sess[Job])
    <3>1. Before(clock', FALSE, GcTime) <=> Before(clock, TRUE, GcTime)
      <4>1. GcTime \in Int
        BY TimesFacts, OrderFacts
      <4> QED BY <2>2, <4>1
    <3>2. GcDay(today["gc"], clock, TRUE, sess[Job])
      BY <1>1 DEF Calendar, Days
    <3> QED BY <3>1, <3>2 DEF GcDay
  <2> QED BY <1>1, <1>2, <1>3, <2>1, <2>3, <2>4 DEF Calendar, Days
<1> QED BY <1>4, <1>5

-----------------------------------------------------------------------------
\* The schedule: the theorem

LEMMA CalendarInit == Init => Calendar
<1> SUFFICES ASSUME Init PROVE Calendar
  OBVIOUS
<1>1. \A s \in Sessions : sess[s] = Idle
  BY DEF Init
<1>2. sess[Job] = Idle
  BY <1>1, OrderFacts
<1>3. \A k \in Kinds : cfg[k].enabled = TRUE /\ cfg[k].time \in Times[k] /\ cfg[k].time \in 0..DayLen-1
  <2>1. \A k \in Kinds : cfg[k].enabled = TRUE /\ cfg[k].time \in Minutes
    BY DEF Init
  <2>2. \A k \in Kinds : cfg[k].time \in Times[k]
    BY TimesFacts DEF Init
  <2> QED BY <2>1, <2>2 DEF Minutes
<1>4. Rows
  BY <1>1, <1>3, IdleRows DEF Rows
<1>5. JobRuns(clock, fired, Idle)
  BY IdleRows, OrderTwo DEF JobRuns, Clean
<1>6. clock = 0 /\ fired = FALSE /\ \A t \in Tasks : today[t] = "open"
  BY DEF Init
<1>7. \A i \in Places : DayOf(today[Order[i]], clock, fired, cfg[Order[i]], Idle, i)
  BY <1>3, <1>6, OrderTwo, TimesFacts DEF DayOf, Before
<1>8. GcDay(today["gc"], clock, fired, Idle)
  BY <1>6, TimesFacts DEF GcDay, Before, Minutes
<1> QED BY <1>2, <1>4, <1>5, <1>7, <1>8 DEF Calendar, Days

LEMMA SessionTimely ==
  ASSUME IInv, Calendar, NEW s \in Sessions, SessionStep(s)  PROVE Calendar'
BY SubmitTimely, RunFailsTimely, RunAnsweredTimely, SaveOutcomeTimely, FlushFailsTimely, CommitTimely
   DEF SessionStep

LEMMA CalendarKeeps == IInv /\ Calendar /\ [Next]_vars => Calendar'
<1> SUFFICES ASSUME IInv, Calendar, [Next]_vars PROVE Calendar'
  OBVIOUS
<1>1. CASE JobStep
  BY <1>1, OrderFacts, RunGcTimely, CheckDueTimely, SessionTimely DEF JobStep
<1>2. ASSUME NEW q \in Requests, Manual(q) \/ ReadSettings(q) \/ RequestStep(q)  PROVE Calendar'
  <2>1. q \in Sessions
    BY DEF Sessions
  <2> QED BY <1>2, <2>1, BeginsTimely, SaveSettingsTimely, SessionTimely DEF RequestStep
<1>3. CASE UNCHANGED <<clock, fired, cfg, sess, today>>
  <2>1. Rows'
    BY <1>3 DEF Calendar, Rows
  <2> QED BY <1>3, <2>1, OthersGo
<1>4. ASSUME NEW t \in Stamps, ThreadStep(t)  PROVE Calendar'
  BY <1>3, <1>4 DEF ThreadStep, Upload, ListFiles, DeleteFile
<1>5. CASE UNCHANGED vars
  BY <1>3, <1>5 DEF vars
<1> QED BY <1>1, <1>2, <1>4, <1>5, FireJobTimely, TickTimely DEF Next

\* At midnight nothing is open: what was not started was excused.
LEMMA DayEnds ==
  ASSUME IInv, Calendar, Tick, clock' = 0, NEW t \in Tasks  PROVE today[t] # "open"
<1>1. fired = TRUE /\ clock = DayLen - 1 /\ DayLen \in Nat /\ sess[Job].pc \in {"idle", "waiting"}
  <2>1. /\ fired = TRUE /\ clock \in 0..DayLen-1 /\ DayLen \in Nat
        /\ clock' = (IF clock = DayLen - 1 THEN 0 ELSE clock + 1)
    BY TickFacts, TimesFacts
  <2>2. clock = DayLen - 1
    BY <2>1
  <2> QED BY <2>1, <2>2 DEF Tick
<1>2. CASE t = "gc"
  <2>1. ~Before(clock, TRUE, GcTime)
    BY <1>1, TimesFacts DEF Before, Minutes
  <2>2. GcDay(today["gc"], clock, TRUE, sess[Job])
    BY <1>1 DEF Calendar, Days
  <2> QED BY <1>1, <1>2, <2>1, <2>2 DEF GcDay
<1>3. CASE t # "gc"
  <2>1. PICK i \in Places : t = Order[i]
    BY <1>3, OrderTwo DEF Tasks
  <2>2. cfg[t] \in Config /\ cfg[t].time \in 0..DayLen-1 /\ cfg[t].time \in Times[t]
    BY <2>1, OrderTwo, State DEF Minutes, Calendar, Rows
  <2>3. ~Before(clock, TRUE, cfg[t].time)
    BY <1>1, <2>2 DEF Before
  <2>4. DayOf(today[t], clock, TRUE, cfg[t], sess[Job], i)
    BY <1>1, <2>1 DEF Calendar, Days
  <2>5. ~Ahead(cfg[t], sess[Job], i)
    <3> SUFFICES ASSUME Ahead(cfg[t], sess[Job], i) PROVE FALSE
      OBVIOUS
    <3>1. sess[Job].pc = "waiting" /\ i > sess[Job].at /\ sess[Job].hhmm = cfg[t].time
      BY <1>1 DEF Ahead
    <3>2. sess[Job].at = 1 /\ i = 2 /\ Len(Order) = 2
      BY <3>1, JobFacts, OrderTwo
    <3>3. clock = cfg[t].time /\ cfg[t].time \in Times[Order[1]]
      BY <3>1, <3>2, TickFacts
    <3>4. cfg[t].time + 1 < DayLen
      BY <2>1, <2>2, <3>2, <3>3, TimesFacts
    <3> QED BY <1>1, <3>3, <3>4
  <2> QED BY <2>3, <2>4, <2>5 DEF DayOf
<1> QED BY <1>2, <1>3

\* Only time passing changes the minute.
LEMMA ClockMoves ==
  ASSUME IInv, Calendar, [Next]_vars, clock' # clock  PROVE Tick
<1>1. CASE JobStep
  BY <1>1 DEF JobStep, RunGc, CheckDue, SessionStep, Submit, RunFails, RunAnswered, SaveOutcome, FlushFails, Commit
<1>2. ASSUME NEW q \in Requests, Manual(q) \/ ReadSettings(q) \/ RequestStep(q)  PROVE Tick
  BY <1>2 DEF Manual, ReadSettings, RequestStep, SaveSettings, SessionStep, Submit, RunFails, RunAnswered,
              SaveOutcome, FlushFails, Commit
<1>3. ASSUME NEW t \in Stamps, ThreadStep(t)  PROVE Tick
  BY <1>3 DEF ThreadStep, Upload, ListFiles, DeleteFile
<1>4. CASE UNCHANGED vars \/ FireJob
  BY <1>4 DEF vars, FireJob
<1> QED BY <1>1, <1>2, <1>3, <1>4 DEF Next

\* A backup comes to its upload by the schedule only where it was looked at and is due.
LEMMA StartIsDue ==
  ASSUME IInv, Calendar, [Next]_vars, sess[Job].pc = "check", sess'[Job].pc = "submit"
  PROVE  CheckDue /\ Due(sess[Job], Read(Job, KindOf(Job)))
<1>1. CASE CheckDue
  <2> SUFFICES ASSUME ~Due(sess[Job], Read(Job, KindOf(Job))) PROVE FALSE
    BY <1>1
  <2>1. Goes(Job, NextKind(sess[Job]))
    BY <1>1 DEF CheckDue
  <2>2. NextKind(sess[Job]).pc \in {"check", "commit"}
    BY JobFacts DEF NextKind, Session
  <2> QED BY <2>1, <2>2, State DEF Goes
<1>2. CASE FireJob \/ Tick \/ RunGc \/ SessionStep(Job)
  BY <1>2, State DEF FireJob, Tick, RunGc, Goes, SessionStep, Submit, RunFails, RunAnswered,
     SaveOutcome, FlushFails, Commit
<1>3. ASSUME NEW q \in Requests, Manual(q) \/ ReadSettings(q) \/ RequestStep(q)  PROVE FALSE
  <2>1. q # Job /\ \E r : Goes(q, r)
    BY <1>3, SessionsAssumption DEF Manual, ReadSettings, RequestStep, SaveSettings, SessionStep, Submit, RunFails,
       RunAnswered, SaveOutcome, FlushFails, Commit
  <2> QED BY <2>1, State DEF Goes
<1>4. ASSUME NEW t \in Stamps, ThreadStep(t)  PROVE FALSE
  BY <1>4 DEF ThreadStep, Upload, ListFiles, DeleteFile
<1>5. CASE UNCHANGED vars
  BY <1>5 DEF vars
<1> QED BY <1>1, <1>2, <1>3, <1>4, <1>5 DEF Next, JobStep

\* The schedule comes to one start of every enabled backup and of the collector a day:
\* none is left out but where its event was dropped, a failed flush had broken the
\* session or the schedule was changed that day, and no backup is started twice
\* (init_scheduler, _run_scheduled_backups).
THEOREM StartsOnSchedule == Spec => OnSchedule
<1> DEFINE Good == IInv /\ Calendar
           Ends == fired # fired' /\ clock' = 0 /\ clock # 0 => \A t \in Tasks : today[t] # "open"
           Once == sess[Job].pc = "check" /\ sess'[Job].pc = "submit" => today[KindOf(Job)] # "started"
<1>1. Spec => []Good
  <2>1. Init => Good
    BY InitHolds, CalendarInit
  <2>2. Good /\ [Next]_vars => Good'
    BY StepKeeps, CalendarKeeps
  <2> QED BY <2>1, <2>2, PTL DEF Spec
<1>2. Good /\ [Next]_vars => [Ends]_vars
  <2> SUFFICES ASSUME Good, [Next]_vars, clock' = 0, clock # 0, NEW t \in Tasks  PROVE today[t] # "open"
    OBVIOUS
  <2>1. Tick
    BY ClockMoves
  <2> QED BY <2>1, DayEnds
<1>3. Good /\ [Next]_vars => [Once]_vars
  <2> SUFFICES ASSUME Good, [Next]_vars, sess[Job].pc = "check", sess'[Job].pc = "submit"
               PROVE  today[KindOf(Job)] # "started"
    OBVIOUS
  <2>1. Due(sess[Job], Read(Job, KindOf(Job)))
    BY StartIsDue
  <2>2. KindOf(Job) = Order[sess[Job].at] /\ sess[Job].at \in Places /\ sess[Job].flushed[KindOf(Job)] = NotFlushed
    BY JobFacts DEF JobRuns
  <2>3. Read(Job, KindOf(Job)) = cfg[KindOf(Job)]
    BY <2>2 DEF Read
  <2>4. Ahead(cfg[KindOf(Job)], sess[Job], sess[Job].at)
    BY <2>1, <2>3, DueIsAhead
  <2>5. DayOf(today[KindOf(Job)], clock, fired, cfg[KindOf(Job)], sess[Job], sess[Job].at)
    BY <2>2 DEF Calendar, Days
  <2> QED BY <2>4, <2>5 DEF DayOf
<1>4. Spec => [][Ends]_vars
  BY <1>1, <1>2, PTL DEF Spec
<1>5. Spec => [][Once]_vars
  BY <1>1, <1>3, PTL DEF Spec
<1> QED BY <1>4, <1>5 DEF OnSchedule, DailyTask, OncePerDay

-----------------------------------------------------------------------------
\* ServerStart

\* Icons are only in a database that has the column: what 0002 drops is empty.
IconsFit(s) == "icon" \in s.library => "icon" \in s.schema

Good(s) == s \in Database /\ TrueTo(s) /\ IconsFit(s)

\* Nothing of the user's is gone from s to t.
RowsKept(s, t) == s.library \ {"orphan"} \subseteq t.library /\ t.setup = s.setup

\* Where the process is in the list of migrations.
Progress ==
  /\ proc.pc \in {"loop", "body"} => proc.applied = tx.ledger
  /\ proc.pc = "body" => IsNext(proc.version, proc.applied)
  /\ proc.pc \in {"commit", "restore"} =>
       proc.version \in Versions /\ tx.ledger = proc.applied \cup {proc.version}
  /\ proc.pc \in {"bootstrap", "serving"} => db.ledger = Versions /\ "fts" \in db.schema
  /\ proc.pc = "serving" => "admin" \in db.setup

\* What an open transaction may differ in from what is committed.
Isolation ==
  /\ proc.pc \in {"down", "ledger", "bootstrap", "serving"} => tx = db
  /\ dialect = "sqlite" /\ proc.pc # "commit" => tx = db
  /\ RowsKept(db, tx)

\* foreign_keys is off only while a migration that asks for it is under way.
Enforcement ==
  /\ proc.pc \notin {"down", "body", "commit", "restore"} => proc.fk
  /\ proc.pc \in {"body", "commit", "restore"} => proc.fk \/ RebuildsTables(proc.version)

Booted ==
  BootTypeOK /\ Good(db) /\ Good(tx) /\ Progress /\ Isolation /\ Enforcement /\ SeededOnce

-----------------------------------------------------------------------------
\* What the steps do to a database

\* A body that is run next on a true ledger leaves a true ledger and the rows of
\* the library.
LEMMA BodyKeeps ==
  ASSUME NEW s, NEW v \in Versions, dialect \in {"sqlite", "postgres"},
         Good(s), IsNext(v, s.ledger)
  PROVE  /\ Good(MarkedApplied(Body(v, s), v))
         /\ MarkedApplied(Body(v, s), v).ledger = s.ledger \cup {v}
         /\ RowsKept(s, MarkedApplied(Body(v, s), v))
<1> DEFINE b == Body(v, s)
           t == MarkedApplied(b, v)
<1> SUFFICES Good(t) /\ t.ledger = s.ledger \cup {v} /\ RowsKept(s, t)
  OBVIOUS
<1> USE DEF Good
<1>1. v \in 1..4 /\ v \notin s.ledger /\ \A u \in 1..4 : u < v => u \in s.ledger
  BY DEF IsNext, Pending, Versions, Database
<1>2. \A u \in s.ledger \cup {v} : 1..u \subseteq s.ledger \cup {v}
  <2> SUFFICES ASSUME NEW u \in s.ledger \cup {v}, NEW w \in 1..u
               PROVE  w \in s.ledger \cup {v}
    OBVIOUS
  <2>1. CASE u \in s.ledger
    BY <2>1 DEF TrueTo
  <2>2. CASE u = v
    BY <2>2, <1>1
  <2> QED BY <2>1, <2>2
<1>3. ASSUME b \in Database, b.ledger = s.ledger
      PROVE  /\ t \in Database /\ t.ledger = s.ledger \cup {v}
             /\ t.schema = b.schema /\ t.setup = b.setup /\ t.library = b.library
  BY <1>3 DEF MarkedApplied, Database
<1>4. ASSUME b \in Database, b.ledger = s.ledger, b.setup = s.setup,
             s.library \ {"orphan"} \subseteq b.library,
             "icon" \in b.library => "icon" \in b.schema,
             "tables" \in b.schema,
             v = 2 \/ 2 \in s.ledger => "parent_fk" \in b.schema,
             v = 3 \/ 3 \in s.ledger <=> "icon" \in b.schema,
             v = 4 \/ 4 \in s.ledger => "shares" \notin b.schema,
             "dangling" \in b.schema <=>
               dialect = "sqlite" /\ (v = 2 \/ 2 \in s.ledger) /\ v # 3 /\ 3 \notin s.ledger
      PROVE  Good(t) /\ t.ledger = s.ledger \cup {v} /\ RowsKept(s, t)
  <2>1. /\ t \in Database /\ t.ledger = s.ledger \cup {v}
        /\ t.schema = b.schema /\ t.setup = b.setup /\ t.library = b.library
    BY <1>3, <1>4
  <2> HIDE DEF b, t
  <2> QED BY <1>2, <1>4, <2>1 DEF TrueTo, IconsFit, RowsKept
<1>5. CASE v = 1
  <2>1. s.ledger = {}
    BY <1>1, <1>5 DEF TrueTo, Database, Versions
  <2>2. b = [s EXCEPT !.schema = @ \cup {"tables", "parent_fk", "shares"}]
    BY <1>5 DEF Body
  <2>3. /\ b \in Database /\ b.ledger = s.ledger /\ b.setup = s.setup /\ b.library = s.library
        /\ b.schema = s.schema \cup {"tables", "parent_fk", "shares"}
    BY <2>2 DEF Database, Feature
  <2> HIDE DEF b, t
  <2> QED BY <1>4, <1>5, <2>1, <2>3 DEF TrueTo, IconsFit
<1>6. CASE v = 2
  <2>1. /\ 1 \in s.ledger /\ 3 \notin s.ledger /\ 4 \notin s.ledger
        /\ "icon" \notin s.schema /\ "icon" \notin s.library
    BY <1>1, <1>6 DEF TrueTo, IconsFit
  <2>2. CASE dialect = "sqlite"
    <3>1. {IF x = "icon" THEN "plain" ELSE x : x \in s.library \ {"orphan"}} = s.library \ {"orphan"}
      BY <2>1
    <3>2. b = Rebuilt(s)
      BY <1>6, <2>2 DEF Body
    <3>3. /\ b \in Database /\ b.ledger = s.ledger /\ b.setup = s.setup
          /\ b.library = s.library \ {"orphan"}
          /\ b.schema = (s.schema \ {"icon"}) \cup {"parent_fk", "dangling"}
      <4>1. Rebuilt(s) = [s EXCEPT !.schema = (@ \ {"icon"}) \cup {"parent_fk", "dangling"},
                                   !.library = s.library \ {"orphan"}]
        BY <3>1, Zenon DEF Rebuilt
      <4> QED BY <3>2, <4>1 DEF Database, Feature
    <3> HIDE DEF b, t
    <3> QED BY <1>4, <1>6, <2>1, <2>2, <3>3 DEF TrueTo
  <2>3. CASE dialect = "postgres"
    <3>1. b = [s EXCEPT !.schema = @ \cup {"parent_fk"}, !.library = @ \ {"orphan"}]
      BY <1>6, <2>3 DEF Body
    <3>2. /\ b \in Database /\ b.ledger = s.ledger /\ b.setup = s.setup
          /\ b.library = s.library \ {"orphan"} /\ b.schema = s.schema \cup {"parent_fk"}
      BY <3>1 DEF Database, Feature
    <3> HIDE DEF b, t
    <3> QED BY <1>4, <1>6, <2>1, <2>3, <3>2 DEF TrueTo
  <2> QED BY <2>2, <2>3
<1>7. CASE v = 3
  <2>1. 1 \in s.ledger /\ 2 \in s.ledger /\ 4 \notin s.ledger
    BY <1>1, <1>7 DEF TrueTo
  <2>2. b = [s EXCEPT !.schema = (@ \ {"dangling"}) \cup {"icon"}]
    BY <1>7 DEF Body
  <2>3. /\ b \in Database /\ b.ledger = s.ledger /\ b.setup = s.setup /\ b.library = s.library
        /\ b.schema = (s.schema \ {"dangling"}) \cup {"icon"}
    BY <2>2 DEF Database, Feature
  <2> HIDE DEF b, t
  <2> QED BY <1>4, <1>7, <2>1, <2>3 DEF TrueTo
<1>8. CASE v = 4
  <2>1. 1 \in s.ledger /\ 2 \in s.ledger /\ 3 \in s.ledger
    BY <1>1, <1>8 DEF TrueTo
  <2>2. b = [s EXCEPT !.schema = @ \ {"shares"}]
    BY <1>8 DEF Body
  <2>3. /\ b \in Database /\ b.ledger = s.ledger /\ b.setup = s.setup /\ b.library = s.library
        /\ b.schema = s.schema \ {"shares"}
    BY <2>2 DEF Database, Feature
  <2> HIDE DEF b, t
  <2> QED BY <1>4, <1>8, <2>1, <2>3 DEF TrueTo, IconsFit
<1> HIDE DEF b, t
<1> QED BY <1>1, <1>5, <1>6, <1>7, <1>8

\* Stamping a legacy database records what create_all() made.
LEMMA StampKeeps ==
  ASSUME NEW s, Good(s)
  PROVE  Good(Stamped(s)) /\ RowsKept(s, Stamped(s))
<1>1. CASE "tables" \in s.schema /\ s.ledger = {}
  <2> DEFINE t == [s EXCEPT !.ledger = {1}]
  <2>1. /\ t \in Database /\ t.ledger = {1}
        /\ t.schema = s.schema /\ t.setup = s.setup /\ t.library = s.library
    BY DEF Good, Database, Versions
  <2>2. Stamped(s) = t
    BY <1>1 DEF Stamped
  <2> HIDE DEF t
  <2> QED BY <1>1, <2>1, <2>2 DEF Good, TrueTo, IconsFit, RowsKept
<1>2. CASE ~("tables" \in s.schema /\ s.ledger = {})
  BY <1>2 DEF Stamped, RowsKept
<1> QED BY <1>1, <1>2

LEMMA InitBooted == BootInit => Booted
<1> SUFFICES ASSUME BootInit PROVE Booted
  OBVIOUS
<1>1. Good(db)
  <2>1. CASE db = Empty
    BY <2>1 DEF Empty, Good, Database, TrueTo, IconsFit
  <2>2. ASSUME NEW s, s \in Database, Good(s), s.setup = {}, s.library = {}, NEW kinds,
               kinds \subseteq Bookmark \ {"icon"} \/ "icon" \in s.schema,
               kinds \subseteq Bookmark, db \in InUse(s, kinds)
        PROVE  Good(db)
    <3>1. CASE db = s
      BY <2>2, <3>1
    <3>2. CASE db \in [ledger : {s.ledger}, schema : {s.schema},
                        setup : {{"admin"}, Setup}, library : SUBSET kinds]
      <4>1. /\ db.ledger = s.ledger /\ db.schema = s.schema /\ db.library \subseteq kinds
            /\ db \in Database
        BY <2>2, <3>2 DEF Database, Setup
      <4>2. TrueTo(db)
        BY <2>2, <4>1 DEF Good, TrueTo
      <4>3. IconsFit(db)
        BY <2>2, <4>1 DEF IconsFit
      <4> QED BY <4>1, <4>2, <4>3 DEF Good
    <3> QED BY <2>2, <3>1, <3>2 DEF InUse
  <2>3. CASE db \in InUse(Legacy, {"plain", "orphan"})
    <3>1. /\ Legacy \in Database /\ Legacy.ledger = {} /\ Legacy.library = {}
          /\ Legacy.schema = {"tables", "shares", "fts"} /\ Legacy.setup = {}
      BY DEF Legacy, Empty, Database, Feature
    <3>2. Good(Legacy)
      BY <3>1 DEF Good, TrueTo, IconsFit
    <3> QED BY <2>2, <2>3, <3>1, <3>2 DEF Bookmark
  <2>4. ASSUME NEW k \in Versions,
               db \in InUse(Migrated(dialect, k), {"plain"} \cup (IF k >= 3 THEN {"icon"} ELSE {}))
        PROVE  Good(db)
    <3> DEFINE s == Migrated(dialect, k)
    <3>1. k \in 1..4
      BY DEF Versions
    <3>2. /\ s.ledger = 1..k /\ s.schema = Schema(dialect, k) /\ s.library = {} /\ s.setup = {}
          /\ s \in Database
      <4>1. Schema(dialect, k) \subseteq Feature /\ 1..k \subseteq Versions
        BY <3>1 DEF Schema, Feature, Versions
      <4> QED BY <4>1 DEF Migrated, Empty, Database
    <3>3. /\ "icon" \in Schema(dialect, k) <=> k >= 3
          /\ "tables" \in Schema(dialect, k) /\ "parent_fk" \in Schema(dialect, k)
          /\ "shares" \in Schema(dialect, k) <=> k < 4
          /\ "dangling" \in Schema(dialect, k) <=> dialect = "sqlite" /\ k = 2
      BY DEF Schema
    <3> HIDE DEF s
    <3>4. \A v \in 1..k : 1..v \subseteq 1..k
      BY <3>1
    <3>5. Good(s)
      BY <3>1, <3>2, <3>3, <3>4 DEF Good, TrueTo, IconsFit
    <3>6. db \in InUse(s, {"plain"} \cup (IF k >= 3 THEN {"icon"} ELSE {}))
      BY <2>4 DEF s
    <3> QED BY <2>2, <3>2, <3>3, <3>5, <3>6 DEF Bookmark
  <2> QED BY <2>1, <2>3, <2>4 DEF BootInit, Found
<1>2. BootTypeOK
  BY <1>1, FailuresAssumption DEF BootInit, BootTypeOK, Good, Down, Process
<1> QED
  BY <1>1, <1>2 DEF BootInit, Booted, Down, Progress, Isolation, RowsKept, Enforcement, SeededOnce

-----------------------------------------------------------------------------
\* The steps of a start, of a kill and of the requests

\* A change of the fields of a database other than ledger and schema.
LEMMA GoodRows ==
  ASSUME NEW s, NEW t, Good(s), t \in Database, t.ledger = s.ledger, t.schema = s.schema,
         "icon" \in t.library => "icon" \in s.library \/ "icon" \in s.schema
  PROVE  Good(t)
<1>1. TrueTo(t)
  BY DEF Good, TrueTo
<1>2. IconsFit(t)
  BY DEF Good, IconsFit
<1> QED BY <1>1, <1>2 DEF Good

\* Every step keeps the invariant.
LEMMA StepBooted == Booted /\ [BootNext]_bootVars => Booted'
<1> SUFFICES ASSUME Booted, [BootNext]_bootVars PROVE Booted'
  OBVIOUS
<1>0. /\ dialect \in {"sqlite", "postgres"} /\ proc \in Process
      /\ db \in Database /\ tx \in Database /\ failures \in 0..MaxFailures /\ seeds \in Nat
      /\ BootTypeOK /\ Good(db) /\ Good(tx) /\ Progress /\ Isolation /\ Enforcement /\ SeededOnce
  BY DialectsAssumption DEF Booted, BootTypeOK
<1>a. ASSUME dialect' = dialect, Good(db'), Good(tx'), proc' \in Process,
             failures' \in 0..MaxFailures, seeds' \in Nat,
             proc'.pc \in {"body", "commit"} => proc'.version \notin proc'.applied,
             Progress', Isolation', Enforcement', SeededOnce'
      PROVE  Booted'
  <2>1. Good(db)' /\ Good(tx)'
    BY <1>a DEF Good, TrueTo, IconsFit
  <2>2. db' \in Database /\ tx' \in Database
    BY <1>a DEF Good
  <2>3. proc'.pc \notin {"down", "ledger"} => proc'.applied \subseteq tx'.ledger
    BY <1>a DEF Progress, Isolation, Process
  <2>4. BootTypeOK'
    BY <1>0, <1>a, <2>2, <2>3, DialectsAssumption DEF BootTypeOK, Booted
  <2> QED BY <2>1, <2>4, <1>a DEF Booted
\* Nothing is written: the database and the transaction stay as they are.
<1>b. ASSUME dialect' = dialect, db' = db, tx' = tx, seeds' = seeds, failures' = failures,
             proc' \in Process, Progress', Enforcement',
             proc'.pc \in {"body", "commit"} => proc'.version \notin proc'.applied,
             proc'.pc \in {"down", "ledger", "bootstrap", "serving"} => tx = db,
             dialect = "sqlite" /\ proc'.pc # "commit" => tx = db
      PROVE  Booted'
  <2>1. Isolation'
    BY <1>0, <1>b DEF Isolation, RowsKept
  <2>2. SeededOnce'
    BY <1>0, <1>b DEF SeededOnce
  <2> QED BY <1>0, <1>a, <1>b, <2>1, <2>2
<1>c. ASSUME Stop, failures' \in 0..MaxFailures
      PROVE  Booted'
  <2>1. /\ proc' \in Process /\ proc'.pc = "down" /\ tx' = db /\ db' = db
        /\ dialect' = dialect /\ seeds' = seeds
    BY <1>c DEF Stop, Down, Process
  <2>2. Progress' /\ Enforcement'
    BY <1>c DEF Stop, Down, Progress, Enforcement
  <2>3. Isolation'
    BY <2>1 DEF Isolation, RowsKept
  <2>4. SeededOnce'
    BY <1>0, <2>1 DEF SeededOnce
  <2> QED BY <1>0, <1>a, <1>c, <2>1, <2>2, <2>3, <2>4
<1>1. CASE Start
  <2>1. PICK seed \in BOOLEAN :
          proc' = [Down EXCEPT !.pc = "ledger", !.fk = TRUE, !.seedDemo = seed]
    BY <1>1 DEF Start
  <2>2. /\ proc' \in Process /\ proc'.pc = "ledger" /\ proc'.fk
        /\ dialect' = dialect /\ db' = db /\ seeds' = seeds /\ failures' = failures
    BY <1>1, <2>1 DEF Start, Down, Process
  <2>3. tx' = tx /\ tx = db
    BY <1>0, <1>1 DEF Start, Isolation
  <2>4. Progress' /\ Enforcement'
    BY <2>2 DEF Progress, Enforcement
  <2> QED BY <1>b, <2>2, <2>3, <2>4
<1>2. CASE Ledger
  <2>1. /\ proc' = [proc EXCEPT !.pc = "loop", !.applied = tx'.ledger]
        /\ dialect' = dialect /\ seeds' = seeds /\ failures' = failures
        /\ tx' = Stamped(tx) /\ db' = (IF dialect = "sqlite" THEN tx' ELSE db)
        /\ proc.pc = "ledger"
    BY <1>2 DEF Ledger, CommitsEach
  <2>2. Good(tx') /\ RowsKept(tx, tx')
    BY <1>0, <2>1, StampKeeps
  <2>3. Good(db')
    BY <1>0, <2>1, <2>2
  <2>4. proc' \in Process /\ proc'.pc = "loop" /\ proc'.applied = tx'.ledger /\ proc'.fk = proc.fk
    BY <1>0, <2>1, <2>2 DEF Process, Good, Database
  <2>5. Progress' /\ Enforcement'
    BY <1>0, <2>1, <2>4 DEF Progress, Enforcement
  <2>6. Isolation'
    BY <1>0, <2>1, <2>2, <2>4 DEF Isolation, RowsKept
  <2>7. SeededOnce'
    BY <1>0, <2>1, <2>2 DEF SeededOnce, Isolation, RowsKept
  <2> QED BY <1>0, <1>a, <2>1, <2>2, <2>3, <2>4, <2>5, <2>6, <2>7
<1>3. CASE Pick
  <2>1. PICK v \in Versions :
          /\ IsNext(v, proc.applied)
          /\ proc' = [proc EXCEPT !.pc = "body", !.version = v, !.fk = FkBefore(v, @)]
    BY <1>3 DEF Pick
  <2>2. proc.pc = "loop" /\ UNCHANGED <<dialect, db, tx, failures, seeds>>
    BY <1>3 DEF Pick
  <2>3. proc.fk
    BY <1>0, <2>2 DEF Enforcement
  <2>4. /\ proc' \in Process /\ proc'.pc = "body" /\ proc'.version = v
        /\ proc'.applied = proc.applied /\ proc'.fk = FkBefore(v, proc.fk)
    BY <1>0, <2>1, <2>3 DEF Process, FkBefore
  <2>5. v \notin proc.applied
    BY <2>1 DEF IsNext, Pending
  <2>6. Progress'
    BY <1>0, <2>1, <2>2, <2>4 DEF Progress, IsNext, Pending
  <2>7. Enforcement'
    BY <2>2, <2>3, <2>4 DEF Enforcement, FkBefore, RebuildsTables
  <2> QED BY <1>0, <1>b, <2>2, <2>4, <2>5, <2>6, <2>7 DEF Isolation
<1>4. CASE RunBody
  <2> DEFINE v == proc.version
  <2>1. /\ proc.pc = "body" /\ tx' = MarkedApplied(Body(v, tx), v)
        /\ proc' = [proc EXCEPT !.pc = IF dialect = "sqlite" THEN "commit" ELSE "restore"]
        /\ UNCHANGED <<dialect, db, failures, seeds>>
    BY <1>4 DEF RunBody, CommitsEach
  <2>2. v \in Versions /\ IsNext(v, tx.ledger) /\ v \notin proc.applied /\ proc.applied = tx.ledger
    BY <1>0, <2>1 DEF Progress, IsNext, Pending
  <2>3. Good(tx') /\ tx'.ledger = tx.ledger \cup {v} /\ RowsKept(tx, tx')
    BY <1>0, <2>1, <2>2, BodyKeeps
  <2>4. /\ proc' \in Process /\ proc'.version = v /\ proc'.applied = proc.applied
        /\ proc'.pc = (IF dialect = "sqlite" THEN "commit" ELSE "restore") /\ proc'.fk = proc.fk
    BY <1>0, <2>1 DEF Process
  <2>5. Progress'
    BY <2>2, <2>3, <2>4 DEF Progress
  <2>6. Isolation'
    BY <1>0, <2>1, <2>3, <2>4 DEF Isolation, RowsKept
  <2>7. Enforcement'
    BY <1>0, <2>1, <2>4 DEF Enforcement, RebuildsTables
  <2>8. SeededOnce'
    BY <1>0, <2>1 DEF SeededOnce
  <2> QED BY <1>0, <1>a, <2>1, <2>2, <2>3, <2>4, <2>5, <2>6, <2>7, <2>8
<1>5. CASE CommitBody
  <2>1. /\ proc.pc = "commit" /\ db' = tx /\ proc' = [proc EXCEPT !.pc = "restore"]
        /\ UNCHANGED <<dialect, tx, failures, seeds>>
    BY <1>5 DEF CommitBody
  <2>2. /\ proc' \in Process /\ proc'.pc = "restore" /\ proc'.version = proc.version
        /\ proc'.applied = proc.applied /\ proc'.fk = proc.fk
    BY <1>0, <2>1 DEF Process
  <2>3. Progress'
    BY <1>0, <2>1, <2>2 DEF Progress
  <2>4. Isolation'
    BY <2>1, <2>2 DEF Isolation, RowsKept
  <2>5. Enforcement'
    BY <1>0, <2>1, <2>2 DEF Enforcement, RebuildsTables
  <2>6. SeededOnce'
    BY <1>0, <2>1 DEF SeededOnce, Isolation, RowsKept
  <2> QED BY <1>0, <1>a, <2>1, <2>2, <2>3, <2>4, <2>5, <2>6
<1>6. CASE RestoreFk
  <2>1. /\ proc.pc = "restore" /\ UNCHANGED <<dialect, db, tx, failures, seeds>>
        /\ proc' = [proc EXCEPT !.pc = "loop", !.version = 0,
                                !.fk = FkAfter(proc.version, @),
                                !.applied = @ \cup {proc.version}]
    BY <1>6 DEF RestoreFk
  <2>2. FkAfter(proc.version, proc.fk) = TRUE
    BY <1>0, <2>1 DEF Enforcement, FkAfter, Process
  <2>3. proc.version \in Versions /\ tx.ledger = proc.applied \cup {proc.version}
    BY <1>0, <2>1 DEF Progress
  <2>4. /\ proc' \in Process /\ proc'.pc = "loop" /\ proc'.fk
        /\ proc'.applied = proc.applied \cup {proc.version}
    BY <1>0, <2>1, <2>2, <2>3 DEF Process
  <2>5. Progress' /\ Enforcement'
    BY <2>1, <2>3, <2>4 DEF Progress, Enforcement
  <2> QED BY <1>0, <1>b, <2>1, <2>4, <2>5 DEF Isolation
<1>7. CASE Indexes
  <2>1. /\ proc.pc = "loop" /\ Pending(proc.applied) = {} /\ db' = tx'
        /\ tx' = [tx EXCEPT !.schema = @ \cup {"fts"}]
        /\ proc' = [proc EXCEPT !.pc = "bootstrap"] /\ UNCHANGED <<dialect, failures, seeds>>
    BY <1>7 DEF Indexes
  <2>2. /\ tx' \in Database /\ tx'.ledger = tx.ledger /\ tx'.schema = tx.schema \cup {"fts"}
        /\ tx'.setup = tx.setup /\ tx'.library = tx.library
    BY <1>0, <2>1 DEF Database, Feature
  <2>3. Good(tx')
    BY <1>0, <2>2 DEF Good, TrueTo, IconsFit
  <2>4. tx.ledger = Versions
    BY <1>0, <2>1 DEF Progress, Pending, Database
  <2>5. proc' \in Process /\ proc'.pc = "bootstrap" /\ proc'.fk = proc.fk
    BY <1>0, <2>1 DEF Process
  <2>6. Progress'
    BY <2>1, <2>2, <2>4, <2>5 DEF Progress
  <2>7. Isolation' /\ Enforcement'
    BY <1>0, <2>1, <2>5 DEF Isolation, Enforcement, RowsKept
  <2>8. SeededOnce'
    BY <1>0, <2>1, <2>2 DEF SeededOnce, Isolation, RowsKept
  <2> QED BY <1>0, <1>a, <2>1, <2>3, <2>5, <2>6, <2>7, <2>8
<1>8. CASE Bootstrap
  <2>1. /\ proc.pc = "bootstrap" /\ tx' = db' /\ proc' = [proc EXCEPT !.pc = "serving"]
        /\ db' = (IF MaySeed(db) THEN Seeded(db) ELSE [db EXCEPT !.setup = @ \cup {"admin"}])
        /\ seeds' = (IF MaySeed(db) THEN seeds + 1 ELSE seeds) /\ UNCHANGED <<dialect, failures>>
    BY <1>8 DEF Bootstrap
  <2>2. /\ db' \in Database /\ db'.ledger = db.ledger /\ db'.schema = db.schema
        /\ "icon" \in db'.library => "icon" \in db.library
        /\ "admin" \in db'.setup /\ db.setup \subseteq db'.setup
        /\ MaySeed(db) => "demo_seeded" \in db'.setup
    <3>1. CASE MaySeed(db)
      BY <1>0, <2>1, <3>1 DEF Seeded, Database, Setup, Bookmark
    <3>2. CASE ~MaySeed(db)
      BY <1>0, <2>1, <3>2 DEF Database, Setup
    <3> QED BY <3>1, <3>2
  <2>3. Good(db')
    BY <1>0, <2>2, GoodRows
  <2>4. proc' \in Process /\ proc'.pc = "serving" /\ proc'.fk = proc.fk
    BY <1>0, <2>1 DEF Process
  <2>5. Progress'
    BY <1>0, <2>1, <2>2, <2>4 DEF Progress
  <2>6. Isolation' /\ Enforcement'
    BY <1>0, <2>1, <2>4 DEF Isolation, Enforcement, RowsKept
  <2>7. seeds' \in Nat /\ SeededOnce'
    BY <1>0, <2>1, <2>2 DEF SeededOnce, MaySeed
  <2> QED BY <1>0, <1>a, <2>1, <2>3, <2>4, <2>5, <2>6, <2>7
<1>9. CASE MigrationFails
  BY <1>0, <1>9, <1>c, FailuresAssumption DEF MigrationFails
<1>10. CASE Killed
  BY <1>0, <1>10, <1>c, FailuresAssumption DEF Killed
<1>11. CASE Serve
  <2>1. /\ proc.pc = "serving" /\ tx' = db' /\ UNCHANGED <<dialect, proc, failures, seeds>>
        /\ \/ \E b \in {"plain", "icon"} : db' = [db EXCEPT !.library = @ \cup {b}]
           \/ db' = [db EXCEPT !.library = {}]
    BY <1>11 DEF Serve
  <2>2. /\ db' \in Database /\ db'.ledger = db.ledger /\ db'.schema = db.schema
        /\ db'.setup = db.setup
    BY <1>0, <2>1 DEF Database, Bookmark
  <2>3. db.ledger = Versions /\ "icon" \in db.schema
    BY <1>0, <2>1 DEF Progress, Good, TrueTo, Versions
  <2>4. Good(db')
    BY <1>0, <2>2, <2>3, GoodRows
  <2>5. Progress' /\ Enforcement'
    BY <1>0, <2>1, <2>2 DEF Progress, Enforcement
  <2>6. Isolation'
    BY <2>1 DEF Isolation, RowsKept
  <2>7. SeededOnce'
    BY <1>0, <2>1, <2>2 DEF SeededOnce
  <2> QED BY <1>0, <1>a, <2>1, <2>4, <2>5, <2>6, <2>7
<1>12. CASE UNCHANGED bootVars
  <2>1. /\ dialect' = dialect /\ db' = db /\ tx' = tx /\ proc' = proc
        /\ failures' = failures /\ seeds' = seeds
    BY <1>12 DEF bootVars
  <2>2. Progress' /\ Enforcement'
    BY <1>0, <2>1 DEF Progress, Enforcement, RebuildsTables
  <2> QED BY <1>0, <1>b, <2>1, <2>2 DEF Isolation, BootTypeOK
<1> QED
  BY <1>1, <1>2, <1>3, <1>4, <1>5, <1>6, <1>7, <1>8, <1>9, <1>10, <1>11, <1>12
  DEF BootNext, StartStep

-----------------------------------------------------------------------------
\* The theorems

LEMMA AlwaysBooted == BootSpec => []Booted
  BY InitBooted, StepBooted, PTL DEF BootSpec

\* The state is well typed, and a start believes only in versions that its
\* transaction has recorded.
THEOREM BootTypeCorrect == BootSpec => []BootTypeOK
<1>1. Booted => BootTypeOK
  BY DEF Booted
<1> QED BY AlwaysBooted, <1>1, PTL

\* For any number of kills at any step, what schema_migrations says is what the
\* schema has been through.
THEOREM LedgerStaysTrue == BootSpec => []LedgerTrue
<1>1. Booted => LedgerTrue
  BY DEF Booted, Good, LedgerTrue
<1> QED BY AlwaysBooted, <1>1, PTL

\* A server that takes requests has the last schema and enforces its foreign keys.
THEOREM ServesOnlyMigrated == BootSpec => []ServesMigrated
<1>1. Booted => ServesMigrated
  <2> SUFFICES ASSUME Booted, proc.pc = "serving"
               PROVE  /\ db.ledger = Versions /\ db.schema = {"tables", "parent_fk", "icon", "fts"}
                      /\ "admin" \in db.setup /\ proc.fk
    BY DEF ServesMigrated
  <2>1. /\ db.ledger = Versions /\ "fts" \in db.schema /\ "admin" \in db.setup /\ proc.fk
        /\ db \in Database /\ TrueTo(db)
    BY DEF Booted, Progress, Enforcement, Good
  <2>2. {1, 2, 3, 4} \subseteq db.ledger
    BY <2>1 DEF Versions
  <2>3. /\ {"tables", "parent_fk", "icon"} \subseteq db.schema
        /\ "shares" \notin db.schema /\ "dangling" \notin db.schema
    BY <2>1, <2>2 DEF TrueTo
  <2>4. db.schema \subseteq Feature
    BY <2>1 DEF Database
  <2> QED BY <2>1, <2>3, <2>4 DEF Feature
<1> QED BY AlwaysBooted, <1>1, PTL

\* However often the server is started, the demo goes into the library once, and a
\* library that was seeded stays marked as such.
THEOREM SeedsOnce == BootSpec => []SeededOnce
<1>1. Booted => SeededOnce
  BY DEF Booted
<1> QED BY AlwaysBooted, <1>1, PTL

\* No step of a start, killed or not, takes rows of the user's away.
THEOREM KeepsLibrary == BootSpec => LibraryKept
<1>1. ASSUME Booted, [BootNext]_bootVars, proc.pc # "serving"
      PROVE  db.library \ {"orphan"} \subseteq db'.library /\ db.setup \subseteq db'.setup
  <2>0. db \in Database /\ tx \in Database /\ Good(tx) /\ Isolation
    BY <1>1 DEF Booted, Good
  <2>1. CASE Ledger
    <3>1. RowsKept(tx, tx') /\ tx = db /\ (db' = tx' \/ db' = db)
      BY <2>0, <2>1, StampKeeps DEF Ledger, Isolation
    <3> QED BY <3>1 DEF RowsKept
  <2>2. CASE CommitBody
    BY <2>0, <2>2 DEF CommitBody, Isolation, RowsKept
  <2>3. CASE Indexes
    <3>1. tx'.library = tx.library /\ tx'.setup = tx.setup /\ db' = tx'
      BY <2>0, <2>3 DEF Indexes, Database
    <3> QED BY <2>0, <3>1 DEF Isolation, RowsKept
  <2>4. CASE Bootstrap
    <3>1. CASE MaySeed(db)
      BY <2>0, <2>4, <3>1 DEF Bootstrap, Seeded, Database, Setup
    <3>2. CASE ~MaySeed(db)
      BY <2>0, <2>4, <3>2 DEF Bootstrap, Database
    <3> QED BY <3>1, <3>2
  <2>5. CASE db' = db
    BY <2>5
  <2> QED
    BY <1>1, <2>1, <2>2, <2>3, <2>4, <2>5
    DEF BootNext, StartStep, Start, Pick, RunBody, RestoreFk, MigrationFails, Killed, Stop, Serve, bootVars
<1>2. Booted /\ [BootNext]_bootVars =>
        [proc.pc # "serving" => /\ db.library \ {"orphan"} \subseteq db'.library
                                /\ db.setup \subseteq db'.setup]_bootVars
  BY <1>1
<1> QED BY AlwaysBooted, <1>2, PTL DEF BootSpec, LibraryKept
=============================================================================
