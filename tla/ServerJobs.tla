------------------------------ MODULE ServerJobs ------------------------------
(***************************************************************************)
(* The scheduler of the server runtime and the remote backups it starts.   *)
(*                                                                         *)
(* Every minute one job looks which backups are due and runs them one      *)
(* after the other in one session; a request that runs a backup or changes *)
(* its settings has a session of its own.  The upload and the pruning are  *)
(* done by a thread, which a run awaits for at most 60 seconds and which   *)
(* goes on after that.  The database is SQLite: a session that has flushed *)
(* a row holds the one write lock until its transaction ends.              *)
(***************************************************************************)
EXTENDS Integers, Sequences, FiniteSets

CONSTANTS
  Job,                 \* the session of the scheduler
  Requests,            \* sessions of requests
  Order,               \* the backups in the order of the job
  DayLen, GcTime,      \* minutes of a day, and the minute of the collector
  Times, Keeps,        \* values of backup_time, for each backup, and of keep_backups
  Schedule,            \* the backup_time each backup has at first
  MaxStamp,            \* how many runs get to their upload
  MaxSaves             \* how many requests change the settings

Kinds == {Order[i] : i \in 1..Len(Order)}
Tasks == Kinds \cup {"gc"}
Sessions == {Job} \cup Requests
Stamps == 1..MaxStamp
Minutes == 0..DayLen-1
Nobody == "nobody"

ASSUME OrderAssumption ==
  /\ Order \in Seq({"s3", "webdav"}) /\ Order # <<>>
  /\ \A i, j \in 1..Len(Order) : Order[i] = Order[j] => i = j
ASSUME SessionsAssumption == Job \notin Requests /\ Nobody \notin Sessions
ASSUME ClockAssumption == DayLen \in Nat \ {0, 1} /\ GcTime \in Minutes
\* A backup that waits for those before it still starts before midnight.
ASSUME ScheduleAssumption ==
  /\ Times \in [Kinds -> SUBSET Minutes] /\ \A k \in Kinds : Schedule[k] \in Times[k]
  /\ \A i, j \in 1..Len(Order) :
       i < j => \A m \in Times[Order[i]] \cap Times[Order[j]] : m + (j - i) < DayLen
ASSUME BoundsAssumption == Keeps \subseteq Nat \ {0} /\ {MaxStamp, MaxSaves} \subseteq Nat

VARIABLES
  clock,     \* the minute of the day, Asia/Shanghai
  fired,     \* has the cron event of this minute come?
  cfg,       \* the committed rows s3_config and webdav_config
  lock,      \* the session that holds the write lock
  sess,      \* what each session is doing
  thread,    \* the thread of each run, by the time in the name of its backup
  files,     \* the backups at each provider
  putAt,     \* when each was put: its place among all uploads
  today,     \* what has become of each task today
  saves      \* requests that change the settings, so far

vars == <<clock, fired, cfg, lock, sess, thread, files, putAt, today, saves>>

Config == [enabled : BOOLEAN, time : Minutes, keep : Keeps, last : {0} \cup Stamps]
NotFlushed == [last |-> -1]

\* at is the place of a backup in Order, row what was read of its settings,
\* flushed what the transaction has written; a session is broken after a failed
\* flush, until it ends.
Phase == {"idle", "gc", "check", "submit", "waiting", "save", "settings", "commit"}
Session == [pc : Phase, hhmm : Minutes, at : 1..Len(Order), row : Config \cup {NotFlushed},
            flushed : [Kinds -> Config \cup {NotFlushed}], broken : BOOLEAN,
            stamp : {0} \cup Stamps, since : Minutes]
Idle == [pc |-> "idle", hhmm |-> 0, at |-> 1, row |-> NotFlushed,
         flushed |-> [k \in Kinds |-> NotFlushed], broken |-> FALSE, stamp |-> 0, since |-> 0]

Thread == [st : {"none", "upload", "list", "prune", "done", "threw"}, kind : Kinds,
           keep : Keeps \cup {0}, todo : SUBSET Stamps]
NoThread == [st |-> "none", kind |-> Order[1], keep |-> 0, todo |-> {}]

TypeOK ==
  /\ clock \in Minutes /\ fired \in BOOLEAN
  /\ cfg \in [Kinds -> Config] /\ lock \in Sessions \cup {Nobody}
  /\ sess \in [Sessions -> Session] /\ thread \in [Stamps -> Thread]
  /\ files \in [Kinds -> SUBSET Stamps] /\ putAt \in [Stamps -> Nat]
  /\ today \in [Tasks -> {"open", "started", "excused"}] /\ saves \in 0..MaxSaves
  /\ \A s \in Sessions : (lock = s) = (\E k \in Kinds : sess[s].flushed[k] # NotFlushed)

Init ==
  /\ clock = 0 /\ fired = FALSE
  /\ cfg \in [Kinds -> [enabled : {TRUE}, time : Minutes, keep : Keeps, last : {0}]]
  /\ \A k \in Kinds : cfg[k].time = Schedule[k]
  /\ lock = Nobody
  /\ sess = [s \in Sessions |-> Idle]
  /\ thread = [t \in Stamps |-> NoThread]
  /\ files = [k \in Kinds |-> {}]
  /\ putAt = [t \in Stamps |-> 0]
  /\ today = [t \in Tasks |-> "open"] /\ saves = 0

KindOf(s) == Order[sess[s].at]
Goes(s, r) == sess' = [sess EXCEPT ![s] = r]
Marked(k, how) == today' = [today EXCEPT ![k] = how]
remote == <<thread, files, putAt>>

\* The row as a session reads it: what it has flushed, or what is committed.
Read(s, k) == IF sess[s].flushed[k] = NotFlushed THEN cfg[k] ELSE sess[s].flushed[k]

-----------------------------------------------------------------------------
\* The cron event of each minute

\* Only one instance of the job runs at a time, and an event that the loop comes to
\* more than a second late is dropped: a task due in that minute waits a day.
Skipped(t) == today[t] = "open" /\ (IF t = "gc" THEN clock = GcTime ELSE clock = cfg[t].time)

FireJob ==
  /\ ~fired /\ fired' = TRUE
  /\ \/ /\ sess[Job].pc = "idle"
        /\ Goes(Job, [Idle EXCEPT !.pc = IF clock = GcTime THEN "gc" ELSE "check", !.hhmm = clock])
        /\ UNCHANGED today
     \/ /\ today' = [t \in Tasks |-> IF Skipped(t) THEN "excused" ELSE today[t]]
        /\ UNCHANGED sess
  /\ UNCHANGED <<clock, cfg, lock, remote, saves>>

\* _run_soft_delete_gc has a session of its own, and its exception is caught (what
\* it deletes, and when the foreign keys refuse it, is in ServerData).
RunGc ==
  /\ sess[Job].pc = "gc"
  /\ Marked("gc", "started")
  /\ Goes(Job, [sess[Job] EXCEPT !.pc = "check"])
  /\ UNCHANGED <<clock, fired, cfg, lock, remote, saves>>

\* The next backup of the loop, or the commit after it.
NextKind(r) ==
  IF r.at < Len(Order)
  THEN [r EXCEPT !.pc = "check", !.at = @ + 1, !.row = NotFlushed, !.stamp = 0, !.since = 0]
  ELSE [r EXCEPT !.pc = "commit", !.row = NotFlushed, !.stamp = 0, !.since = 0]

\* The minute is read once, when the job starts.
Due(r, row) == row.enabled /\ row.time = r.hhmm

CheckDue ==
  LET r == sess[Job]
      k == KindOf(Job)
  IN /\ r.pc = "check"
     /\ IF r.broken
        THEN /\ Marked(k, IF today[k] = "open" /\ Due(r, cfg[k]) THEN "excused" ELSE today[k])
             /\ Goes(Job, NextKind(r))
        ELSE IF Due(r, Read(Job, k))
        THEN /\ Marked(k, "started")
             /\ Goes(Job, [r EXCEPT !.pc = "submit", !.row = Read(Job, k)])
        ELSE /\ UNCHANGED today
             /\ Goes(Job, NextKind(r))
     /\ UNCHANGED <<clock, fired, cfg, lock, remote, saves>>

-----------------------------------------------------------------------------
\* run_s3_backup, run_webdav_backup

\* POST /backup/s3, POST /backup/webdav
Manual(q) ==
  /\ sess[q].pc = "idle"
  /\ \E i \in 1..Len(Order) :
       Goes(q, [Idle EXCEPT !.pc = "submit", !.at = i, !.row = cfg[Order[i]]])
  /\ UNCHANGED <<clock, fired, cfg, lock, remote, today, saves>>

\* The data is exported and the thread is started: two runs never in one second.
Submit(s) ==
  LET r == sess[s] IN
  /\ r.pc = "submit"
  /\ \E t \in Stamps :
       /\ thread[t] = NoThread /\ \A u \in 1..t-1 : thread[u] # NoThread
       /\ thread' = [thread EXCEPT ![t] = [NoThread EXCEPT !.st = "upload", !.kind = KindOf(s),
                                                           !.keep = r.row.keep]]
       /\ Goes(s, [r EXCEPT !.pc = "waiting", !.stamp = t, !.since = clock])
  /\ UNCHANGED <<clock, fired, cfg, lock, files, putAt, today, saves>>

\* An exception of a run: the loop catches it and goes on, a request is rolled back.
AfterFailure_Ends(s) == IF s = Job THEN [sess[s] EXCEPT !.pc = "commit"] ELSE Idle
AfterFailure(s) == IF s = Job THEN NextKind(sess[s]) ELSE Idle

\* asyncio.wait_for(..., timeout=60)
Elapsed_Never(s) == FALSE
Elapsed(s) == clock = (sess[s].since + 1) % DayLen

\* Not configured, the export fails, the thread raises, or it takes too long.
RunFails(s) ==
  LET r == sess[s] IN
  /\ \/ r.pc = "submit"
     \/ r.pc = "waiting" /\ (thread[r.stamp].st = "threw" \/ Elapsed(s))
  /\ Goes(s, AfterFailure(s))
  /\ UNCHANGED <<clock, fired, cfg, lock, remote, today, saves>>

Answered_Late(s) == thread[sess[s].stamp].st = "done" \/ Elapsed(s)
Answered(s) == thread[sess[s].stamp].st = "done"

RunAnswered(s) ==
  /\ sess[s].pc = "waiting" /\ Answered(s)
  /\ Goes(s, [sess[s] EXCEPT !.pc = "save"])
  /\ UNCHANGED <<clock, fired, cfg, lock, remote, today, saves>>

\* The row as it was read, with the outcome of the run, is flushed.
Outcome(s) ==
  [sess[s].row EXCEPT !.last = sess[s].stamp]

Flushed(s, row) == [sess[s] EXCEPT !.flushed[KindOf(s)] = row]

SaveOutcome(s) ==
  /\ sess[s].pc = "save" /\ lock \in {s, Nobody}
  /\ lock' = s
  /\ LET r == Flushed(s, Outcome(s))
     IN Goes(s, IF s = Job THEN NextKind(r) ELSE [r EXCEPT !.pc = "commit"])
  /\ UNCHANGED <<clock, fired, cfg, remote, today, saves>>

Unlocked(s) == IF lock = s THEN Nobody ELSE lock

\* "database is locked": the flush undoes the whole transaction.
FlushFails(s) ==
  /\ sess[s].pc \in {"save", "settings"} /\ lock \notin {s, Nobody}
  /\ Goes(s, IF s = Job
             THEN NextKind([sess[s] EXCEPT !.broken = TRUE, !.flushed = Idle.flushed])
             ELSE Idle)
  /\ UNCHANGED <<clock, fired, cfg, lock, remote, today, saves>>

-----------------------------------------------------------------------------
\* The thread: upload, list, delete what is beyond keep

Puts == Cardinality({t \in Stamps : putAt[t] > 0})

Upload(t) ==
  /\ thread[t].st = "upload"
  /\ \/ /\ files' = [files EXCEPT ![thread[t].kind] = @ \cup {t}]
        /\ putAt' = [putAt EXCEPT ![t] = Puts + 1]
        /\ thread' = [thread EXCEPT ![t].st = "list"]
     \/ /\ thread' = [thread EXCEPT ![t].st = "threw"]
        /\ UNCHANGED <<files, putAt>>
  /\ UNCHANGED <<clock, fired, cfg, lock, sess, today, saves>>

\* WebDAV sorts by name, S3 by LastModified.
Newer(k, x, y) == IF k = "webdav" THEN x > y ELSE putAt[x] > putAt[y]
Beyond_Oldest(k, keep) ==
  {x \in files[k] : Cardinality({y \in files[k] : Newer(k, x, y)}) >= keep}
Beyond(k, keep) ==
  {x \in files[k] : Cardinality({y \in files[k] : Newer(k, y, x)}) >= keep}

Pruning(th, todo) ==
  [th EXCEPT !.st = IF todo = {} THEN "done" ELSE "prune", !.todo = todo]

ListFiles(t) ==
  LET th == thread[t] IN
  /\ th.st = "list"
  /\ \/ thread' = [thread EXCEPT ![t] = Pruning(th, Beyond(th.kind, th.keep))]
     \/ thread' = [thread EXCEPT ![t].st = "done"]
  /\ UNCHANGED <<clock, fired, cfg, lock, sess, files, putAt, today, saves>>

\* The newest of the candidates first; a failed DELETE is noted.
DeleteFile(t) ==
  LET th == thread[t] IN
  /\ th.st = "prune"
  /\ \E x \in th.todo, ok \in BOOLEAN :
       /\ \A y \in th.todo : ~Newer(th.kind, y, x)
       /\ files' = [files EXCEPT ![th.kind] = IF ok THEN @ \ {x} ELSE @]
       /\ thread' = [thread EXCEPT ![t] =
            Pruning(th, th.todo \ {x})]
  /\ UNCHANGED <<clock, fired, cfg, lock, sess, putAt, today, saves>>

-----------------------------------------------------------------------------
\* PUT /backup/s3, PUT /backup/webdav

ReadSettings(q) ==
  /\ sess[q].pc = "idle" /\ saves < MaxSaves /\ saves' = saves + 1
  /\ \E i \in 1..Len(Order) :
       Goes(q, [Idle EXCEPT !.pc = "settings", !.at = i, !.row = cfg[Order[i]]])
  /\ UNCHANGED <<clock, fired, cfg, lock, remote, today>>

SaveSettings(q) ==
  /\ sess[q].pc = "settings" /\ lock = Nobody
  /\ \E e \in BOOLEAN, m \in Times[KindOf(q)], n \in Keeps :
       /\ e \/ m = sess[q].row.time
       /\ Goes(q, [Flushed(q, [sess[q].row EXCEPT !.enabled = e, !.time = m, !.keep = n])
                   EXCEPT !.pc = "commit"])
  /\ lock' = q
  /\ UNCHANGED <<clock, fired, cfg, remote, today, saves>>

\* A schedule that changes today leaves the rest of the day open.
Commit(s) ==
  /\ sess[s].pc = "commit"
  /\ cfg' = [k \in Kinds |-> Read(s, k)]
  /\ today' = [t \in Tasks |->
       IF t \in Kinds /\ (cfg'[t].time # cfg[t].time \/ cfg'[t].enabled # cfg[t].enabled)
       THEN "excused" ELSE today[t]]
  /\ lock' = Unlocked(s)
  /\ Goes(s, Idle)
  /\ UNCHANGED <<clock, fired, remote, saves>>

\* A run waits no longer than a minute, and nothing else of the job takes as long.
Tick ==
  /\ fired /\ sess[Job].pc \in {"idle", "waiting"}
  /\ \A s \in Sessions : sess[s].pc = "waiting" => ~Elapsed(s)
  /\ clock' = (clock + 1) % DayLen /\ fired' = FALSE
  /\ today' = IF clock' = 0
              THEN [t \in Tasks |-> IF t \in Kinds /\ ~cfg[t].enabled THEN "excused" ELSE "open"]
              ELSE today
  /\ UNCHANGED <<cfg, lock, sess, remote, saves>>

-----------------------------------------------------------------------------
SessionStep(s) ==
  \/ Submit(s) \/ RunFails(s) \/ RunAnswered(s) \/ SaveOutcome(s) \/ FlushFails(s) \/ Commit(s)
JobStep == RunGc \/ CheckDue \/ SessionStep(Job)
RequestStep(q) == SaveSettings(q) \/ SessionStep(q)
ThreadStep(t) == Upload(t) \/ ListFiles(t) \/ DeleteFile(t)

Next ==
  \/ FireJob \/ Tick \/ JobStep
  \/ \E q \in Requests : Manual(q) \/ ReadSettings(q) \/ RequestStep(q)
  \/ \E t \in Stamps : ThreadStep(t)

Spec == Init /\ [][Next]_vars

\* Time passes, the scheduler fires and every coroutine is resumed; a thread may
\* wait for its server for ever.
FairSpec ==
  /\ Spec /\ WF_vars(Tick) /\ WF_vars(FireJob) /\ WF_vars(JobStep)
  /\ \A q \in Requests : WF_vars(RequestStep(q))

-----------------------------------------------------------------------------
\* Properties

\* "last_backup_at": a committed row names a run whose backup was really put.
LastUploaded == TypeOK /\ \A k \in Kinds : cfg[k].last # 0 => putAt[cfg[k].last] > 0

\* "with retention pruning": whatever threads go on after their run was given up,
\* the newest backups ever put are still there.
PutTo(k) == {t \in Stamps : thread[t].kind = k /\ putAt[t] > 0}
NewerPut(k, x) == {y \in PutTo(k) : Newer(k, y, x)}
AlwaysAsked(k, x) == \A n \in Keeps : Cardinality(NewerPut(k, x)) < n
NewestKept == \A k \in Kinds : \A x \in PutTo(k) : AlwaysAsked(k, x) => x \in files[k]

\* "daily WebDAV and S3/R2 backups": a day ends without a start of each enabled
\* backup and of the collector only where the event of its minute was dropped, a
\* flush had broken the session, or the schedule was changed that day.
DailyTask ==
  [][fired # fired' /\ clock' = 0 /\ clock # 0 => \A t \in Tasks : today[t] # "open"]_vars

\* A backup is started by the schedule at most once a day, unless the schedule is
\* changed that day.
OncePerDay ==
  [][sess[Job].pc = "check" /\ sess'[Job].pc = "submit" => today[KindOf(Job)] # "started"]_vars

\* The schedule comes to one start a day, never none and never two.
OnSchedule == DailyTask /\ OncePerDay

\* The job ends, so that later minutes are not dropped for ever, and gives back the
\* write lock it took with its first flush, even when a server never answers the next
\* upload: every other write fails as long as the lock is held.
JobEnds == sess[Job].pc # "idle" ~> (sess[Job].pc = "idle" /\ lock # Job)
=============================================================================
