----------------------------- MODULE RemoteBackup -----------------------------
(***************************************************************************)
(* Scheduled and manual backups of the Worker runtime to one S3 bucket or  *)
(* one WebDAV folder: when the cron starts one, the upload, the retention  *)
(* pruning, and the settings row that they share with the settings page.   *)
(*                                                                         *)
(* Runs and settings requests read the row of settings, do their work and  *)
(* write the whole row back; nothing keeps two of them apart.              *)
(***************************************************************************)
EXTENDS Integers, FiniteSets

CONSTANTS
  Workers,               \* invocations that may run at the same time
  MaxStamp,              \* the last name that a run takes
  Earlier,               \* how many backups are there at first
  Kinds,                 \* of provider: "s3", "webdav" or both
  PageKeys,              \* names in a page of a listing of S3 (1000 in the code)
  Keeps, Times,          \* values of keep_backups and of backup_time, in minutes
  DefaultKeep,           \* keep_backups when the row has none
  SlotLen, DayLen,       \* minutes between two cron events, and in a day
  Offset,                \* Shanghai is ahead of UTC by so many minutes
  MaxClock,              \* the minute the model stops at
  MaxSaves               \* how often the settings are saved

ASSUME StampAssumption == MaxStamp \in Nat \ {0} /\ Earlier \in 0..MaxStamp
ASSUME KeepsAssumption ==
  /\ Keeps \subseteq Int /\ IsFiniteSet(Keeps) /\ Keeps # {}
  /\ DefaultKeep \in Nat \ {0} /\ Times \subseteq 0..DayLen-1 /\ Times # {}
ASSUME ClockAssumption ==
  /\ SlotLen \in Nat \ {0} /\ DayLen \in Nat \ {0} /\ DayLen % SlotLen = 0
  /\ Offset \in 0..DayLen-1 /\ Offset % SlotLen = 0 /\ MaxClock \in Nat
ASSUME ModeAssumption == Kinds \subseteq {"s3", "webdav"} /\ MaxSaves \in Nat /\ PageKeys \in Nat \ {0}

VARIABLES
  kind,      \* the provider; S3 and WebDAV have rows and files of their own
  cfg,       \* the row s3_config or webdav_config
  files,     \* the backups in the bucket, by stamp
  putAt,     \* when each was put: its place among all PUTs, 0 if never
  w,         \* what each Worker is doing
  clock,     \* the minute, UTC
  fired,     \* the slots whose cron event has come
  done,      \* days on which a backup run succeeded
  excused,   \* days on which a run failed or the settings were saved
  saves,     \* requests that change the settings, so far
  story      \* what the row should say, as long as nothing overlaps

vars == <<kind, cfg, files, putAt, w, clock, fired, done, excused, saves, story>>

\* The times in the names of the backups.
Stamps == 1..MaxStamp
Never == -1   \* or days ago
Config == [enabled : BOOLEAN, keep : Keeps \cup {DefaultKeep}, time : Times,
           last : {Never} \cup 0..MaxClock, warning : BOOLEAN]
Phase == {"idle", "due", "exported", "uploaded", "pruning", "saving"}
NoConfig == [enabled |-> FALSE, keep |-> DefaultKeep, time |-> 0, last |-> Never, warning |-> FALSE]
Job == [pc : Phase, cron : BOOLEAN, cfg : Config \cup {NoConfig}, stamp : {0} \cup Stamps,
        listed : SUBSET Stamps, todo : SUBSET Stamps, gone : SUBSET Stamps, failed : BOOLEAN]

Day(t) == (t + Offset) \div DayLen
Minute(t) == (t + Offset) % DayLen
Slot(t) == t \div SlotLen

\* Two requests or runs that have the row in hand at the same time.
Overlap == [NoConfig EXCEPT !.time = -1]

\* validateS3Config refuses less than 1; WebDAV takes what it is given.
ValidKeep(k) == kind = "webdav" \/ k >= 1

TypeOK ==
  /\ kind \in Kinds /\ cfg \in Config /\ (kind = "s3" => cfg.keep >= 1)
  /\ files \subseteq Stamps
  /\ putAt \in [Stamps -> Nat]
  /\ w \in [Workers -> Job]
  /\ clock \in 0..MaxClock
  /\ fired \subseteq 0..Slot(MaxClock) /\ saves \in 0..MaxSaves
  /\ story \in Config \cup {Overlap}
  /\ done \cup excused \subseteq 0..Day(MaxClock)
  /\ \A i \in Workers :
       /\ w[i].todo \subseteq w[i].listed
       /\ w[i].pc \in {"uploaded", "pruning"} => putAt[w[i].stamp] > 0

InHand(i) == w[i].pc \in {"exported", "uploaded", "pruning", "saving"}
Story(i, row) ==
  story' = IF story = Overlap \/ \E j \in Workers \ {i} : InHand(j) THEN Overlap ELSE row

NoJob == [pc |-> "idle", cron |-> FALSE, cfg |-> NoConfig, stamp |-> 0,
          listed |-> {}, todo |-> {}, gone |-> {}, failed |-> FALSE]

Init ==
  /\ kind \in Kinds
  /\ cfg \in [enabled : BOOLEAN, keep : {DefaultKeep}, time : Times, last : {Never}, warning : {FALSE}]
  /\ files = 1..Earlier
  /\ putAt = [s \in Stamps |-> IF s <= Earlier THEN s ELSE 0]
  /\ w = [i \in Workers |-> NoJob]
  /\ clock = 0 /\ fired = {} /\ done = {}
  /\ excused = {Day(0)} \cup (IF cfg.enabled THEN {} ELSE 0..Day(MaxClock))
  /\ saves = 0 /\ story = cfg

Idle(i) == w' = [w EXCEPT ![i] = NoJob]
Excuse(i) == excused' = excused \cup (IF w[i].cron THEN {Day(clock)} ELSE {})

-----------------------------------------------------------------------------
\* shouldRunBackup: the window of 15 minutes around backup_time, once a day.
WindowStart(time) == (time \div SlotLen) * SlotLen
SameDay_Utc(a, b) == a \div DayLen = b \div DayLen
SameDay(a, b) == Day(a) = Day(b)
InWindow(time, t) == Minute(t) >= WindowStart(time) /\ Minute(t) < WindowStart(time) + SlotLen
ShouldRunBackup(c, t) ==
  InWindow(c.time, t) /\ (c.last = Never \/ ~SameDay(c.last, t))

\* The cron event of this quarter of an hour.
Scheduled(i) ==
  /\ w[i].pc = "idle" /\ Slot(clock) \notin fired
  /\ fired' = fired \cup {Slot(clock)}
  /\ IF cfg.enabled /\ ShouldRunBackup(cfg, clock)
     THEN w' = [w EXCEPT ![i].pc = "due", ![i].cron = TRUE]
     ELSE UNCHANGED w
  /\ UNCHANGED <<kind, cfg, files, putAt, clock, done, excused, saves, story>>

\* POST /backup/s3, POST /backup/webdav
Manual(i) ==
  /\ w[i].pc = "idle"
  /\ w' = [w EXCEPT ![i].pc = "due"]
  /\ UNCHANGED <<kind, cfg, files, putAt, clock, fired, done, excused, saves, story>>

-----------------------------------------------------------------------------
\* runS3Backup, runWebdavBackup

\* The settings are read and the name is taken: two runs never in one second.
Taken == {s \in Stamps : putAt[s] > 0 \/ \E i \in Workers : w[i].stamp = s}
IsNextStamp(s) == \A t \in Stamps : t \in Taken => t < s

StartRun(i) ==
  /\ w[i].pc = "due"
  /\ \E s \in Stamps :
       /\ IsNextStamp(s) /\ \A t \in Stamps : IsNextStamp(t) => s <= t
       /\ w' = [w EXCEPT ![i].pc = "exported", ![i].cfg = cfg, ![i].stamp = s]
  /\ Story(i, story)
  /\ UNCHANGED <<kind, cfg, files, putAt, clock, fired, done, excused, saves>>

Puts == Cardinality({s \in Stamps : putAt[s] > 0})

PutObject(i) ==
  /\ w[i].pc = "exported"
  /\ files' = files \cup {w[i].stamp}
  /\ putAt' = [putAt EXCEPT ![w[i].stamp] = Puts + 1]
  /\ w' = [w EXCEPT ![i].pc = "uploaded"]
  /\ UNCHANGED <<kind, cfg, clock, fired, done, excused, saves, story>>

\* The upload is refused or times out, or the Worker is killed: nothing is saved.
RunFails(i) ==
  /\ w[i].pc \in {"due", "exported", "uploaded", "pruning"}
  /\ Idle(i) /\ Excuse(i)
  /\ UNCHANGED <<kind, cfg, files, putAt, clock, fired, done, saves, story>>

\* WebDAV sorts by name, S3 by LastModified.
Newer(x, y) == IF kind = "webdav" THEN x > y ELSE putAt[x] > putAt[y]

\* Number(cfg.keep_backups || 7), then slice(Math.max(0, keep))
Keep(k) == IF k = 0 THEN DefaultKeep ELSE IF k < 0 THEN 0 ELSE k

Beyond_Oldest(listed, keep) ==
  {x \in listed : Cardinality({y \in listed : Newer(x, y)}) >= keep}
Beyond(listed, keep) ==
  {x \in listed : Cardinality({y \in listed : Newer(y, x)}) >= keep}

\* S3 lists by name in pages, and each page is of its own moment; WebDAV answers at once.
\* A page that fails takes the others with it.
ListObjects(i) ==
  /\ w[i].pc = "uploaded"
  /\ LET rest == {x \in files : \A y \in w[i].listed : y < x}
         page == {x \in rest : kind = "s3" => Cardinality({y \in rest : y < x}) < PageKeys}
         listed == w[i].listed \cup page
     IN \/ page # rest /\ w' = [w EXCEPT ![i].listed = listed]
        \/ page = rest /\ w' = [w EXCEPT ![i].pc = "pruning", ![i].listed = listed,
                                         ![i].todo = Beyond(listed, Keep(w[i].cfg.keep))]
        \/ w' = [w EXCEPT ![i].pc = "pruning", ![i].listed = {}, ![i].failed = TRUE]
  /\ UNCHANGED <<kind, cfg, files, putAt, clock, fired, done, excused, saves, story>>

\* A DELETE that is refused, or not answered in time, is noted and the loop goes on; the
\* provider may have carried it out.  gone is history: what was answered.
FailedAfter_Swallowed(i, ok) == w[i].failed
FailedAfter(i, ok) == w[i].failed \/ ~ok

DeleteObject(i) ==
  /\ w[i].pc = "pruning"
  /\ \E x \in w[i].todo, ok \in BOOLEAN :
       /\ \A y \in w[i].todo : ~Newer(y, x)
       /\ files' = files \ {x} \/ (~ok /\ files' = files)
       /\ w' = [w EXCEPT ![i].todo = @ \ {x}, ![i].failed = FailedAfter(i, ok),
                         ![i].gone = IF ok THEN @ \cup {x} ELSE @]
  /\ UNCHANGED <<kind, cfg, putAt, clock, fired, done, excused, saves, story>>

\* There was no listing, or not every backup that was to go is known to be gone.
NotPruned(i) == w[i].listed = {} \/ ~(Beyond(w[i].listed, Keep(w[i].cfg.keep)) \subseteq w[i].gone)

\* The row as it was read, with the outcome of this run.
Outcome_Sticky(i) == [w[i].cfg EXCEPT !.last = clock, !.warning = @ \/ w[i].failed]
Outcome(i) == [w[i].cfg EXCEPT !.last = clock, !.warning = w[i].failed]
SaveOutcome(i) ==
  /\ w[i].pc = "pruning" /\ w[i].todo = {}
  /\ cfg' = Outcome(i)
  /\ Story(i, [story EXCEPT !.last = clock, !.warning = NotPruned(i)])
  /\ done' = done \cup {Day(clock)}
  /\ Idle(i)
  /\ UNCHANGED <<kind, files, putAt, clock, fired, excused, saves>>

-----------------------------------------------------------------------------
\* PUT /backup/s3, PUT /backup/webdav: the row is read, changed and written.
ReadSettings(i) ==
  /\ saves < MaxSaves /\ w[i].pc = "idle"
  /\ saves' = saves + 1
  /\ w' = [w EXCEPT ![i].pc = "saving", ![i].cfg = cfg]
  /\ Story(i, story)
  /\ UNCHANGED <<kind, cfg, files, putAt, clock, fired, done, excused>>

WriteSettings(i) ==
  /\ w[i].pc = "saving"
  /\ \E e \in BOOLEAN, k \in Keeps, t \in Times :
       /\ ValidKeep(k)
       /\ cfg' = [w[i].cfg EXCEPT !.enabled = e, !.keep = k, !.time = t]
       /\ Story(i, [story EXCEPT !.enabled = e, !.keep = k, !.time = t])
  /\ Idle(i)
  /\ excused' = excused \cup Day(clock)..Day(MaxClock)
  /\ UNCHANGED <<kind, files, putAt, clock, fired, done, saves>>

\* A cron event comes within its quarter of an hour.  A scheduled run that goes on
\* over midnight leaves its day without a backup.
Tick ==
  /\ clock < MaxClock
  /\ Slot(clock + 1) # Slot(clock) => Slot(clock) \in fired
  /\ clock' = clock + 1
  /\ excused' = IF Day(clock') # Day(clock) /\ \E i \in Workers : w[i].cron
                THEN excused \cup {Day(clock)} ELSE excused
  /\ UNCHANGED <<kind, cfg, files, putAt, w, fired, done, saves, story>>

Next ==
  \/ \E i \in Workers :
       \/ Scheduled(i) \/ Manual(i) \/ StartRun(i) \/ PutObject(i) \/ RunFails(i)
       \/ ListObjects(i) \/ DeleteObject(i) \/ SaveOutcome(i)
       \/ ReadSettings(i) \/ WriteSettings(i)
  \/ Tick

Spec == Init /\ [][Next]_vars

-----------------------------------------------------------------------------
\* Properties

Put == {s \in Stamps : putAt[s] > 0}

\* How many backups the settings ask for, at the least.
Asked(k) == IF k = 0 THEN DefaultKeep ELSE IF k < 1 THEN 1 ELSE k
NewerPut(x) == {y \in Put : Newer(y, x)}
AlwaysAsked(x) ==
  \A k \in Keeps \cup {DefaultKeep} : Cardinality(NewerPut(x)) < Asked(k)

\* "Prune remote backups beyond keep_backups": however runs overlap, fail or are
\* killed, the newest backups ever put are still there.
NewestKept == \A x \in Put : AlwaysAsked(x) => x \in files

\* Pruning never passes over a failed DELETE in silence: of the backups a run
\* listed, no more than it keeps are left when it reports success.
RetentionHonest ==
  \A i \in Workers :
    w[i].pc = "pruning" /\ w[i].todo = {} /\ ~w[i].failed =>
      Cardinality(w[i].listed \cap files) <= Keep(w[i].cfg.keep)

\* As long as no two of them have the row of settings in hand, it says what was
\* chosen last, when the last run succeeded and whether that run is not sure of a backup
\* that it had to prune: with no warning, each is known to be gone.
RowTrue == TypeOK /\ (story = Overlap \/ cfg = story)

\* "no successful backup has run yet that Shanghai calendar day": the cron does
\* not start a second backup on a day that has one, unless a settings request that
\* overlapped a run has put an older row back.
OncePerDay ==
  [][\A i \in Workers :
       ~w[i].cron /\ w'[i].cron /\ (saves = 0 \/ story # Overlap) => Day(clock) \notin done]_vars

\* "daily WebDAV and S3/R2 backups": no day of an enabled schedule passes without
\* a successful run, unless the run of that day failed or went on over midnight.  A
\* run of the evening before that ends on the day counts for it.
DailyBackup == \A d \in 0..Day(MaxClock) : d < Day(clock) => d \in done \cup excused

\* The schedule comes to one backup a day, never none and never two.
DailyOnce == []DailyBackup /\ OncePerDay
=============================================================================
