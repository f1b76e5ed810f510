------------------------- MODULE RemoteBackup_proofs --------------------------
(***************************************************************************)
(* Retention keeps the newest backups and hides no failure, for any number *)
(* of overlapping runs, settings requests, names, days and providers.      *)
(***************************************************************************)
EXTENDS RemoteBackup, FiniteSetTheorems, WellFoundedInduction, TLAPS

-----------------------------------------------------------------------------
\* Operators

\* A later minute is in no earlier slot or day.
LEMMA DivMonotone ==
  ASSUME NEW a \in Nat, NEW b \in Nat, NEW d \in Nat \ {0}, a <= b
  PROVE  a \div d \in Nat /\ b \div d \in Nat /\ a \div d <= b \div d
<1> DEFINE p == a \div d
           q == b \div d
<1>1. p \in Nat /\ q \in Nat
  OBVIOUS
<1>2. d * p <= a /\ b < d * q + d
  OBVIOUS
<1>3. SUFFICES ASSUME q + 1 <= p PROVE FALSE
  BY <1>1
<1>4. d * (q + 1) <= d * p
  BY <1>1, <1>3
<1>5. d * (q + 1) = d * q + d
  BY <1>1
<1> QED
  <2> HIDE DEF p, q
  <2> QED BY <1>1, <1>2, <1>4, <1>5

\* A finite set of backups, no two of which are equally new, has an oldest one.
LEMMA Oldest ==
  ASSUME NEW S, IsFiniteSet(S), S # {},
         \A x \in S : ~Newer(x, x),
         \A x, y \in S : x # y => Newer(x, y) \/ Newer(y, x),
         \A x, y, z \in S : Newer(x, y) /\ Newer(y, z) => Newer(x, z)
  PROVE  \E m \in S : \A y \in S \ {m} : Newer(y, m)
<1> DEFINE Below(x) == {y \in S : Newer(x, y)}
           Belows == {Below(x) : x \in S}
<1>1. Belows \subseteq FiniteSubsetsOf(S)
  BY FS_Subset DEF FiniteSubsetsOf
<1>2. Belows # {}
  <2>1. PICK x \in S : TRUE
    OBVIOUS
  <2>2. Below(x) \in Belows
    BY <2>1
  <2> QED BY <2>2
<1>3. PICK B \in Belows : \A C \in Belows : ~(<<C, B>> \in StrictSubsetOrdering(S))
  <2>1. IsWellFoundedOn(StrictSubsetOrdering(S), FiniteSubsetsOf(S))
    BY FS_StrictSubsetOrderingWellFounded
  <2> HIDE DEF Belows
  <2> QED BY <1>1, <1>2, <2>1, WFMin, Zenon
<1>4. PICK m \in S : B = Below(m)
  OBVIOUS
<1>5. ASSUME NEW y \in S, Newer(m, y) PROVE FALSE
  <2>1. Below(y) \subseteq Below(m) /\ y \in Below(m) /\ y \notin Below(y)
    BY <1>5
  <2>2. <<Below(y), Below(m)>> \in StrictSubsetOrdering(S)
    BY <2>1 DEF StrictSubsetOrdering
  <2> QED BY <2>2, <1>3, <1>4
<1> QED BY <1>5

\* Pruning spares at most as many backups as it is to keep.
LEMMA SparesAtMost ==
  ASSUME NEW F, IsFiniteSet(F), NEW keep \in Nat,
         \A x \in F : ~Newer(x, x),
         \A x, y \in F : x # y => Newer(x, y) \/ Newer(y, x),
         \A x, y, z \in F : Newer(x, y) /\ Newer(y, z) => Newer(x, z)
  PROVE  Cardinality(F \ Beyond(F, keep)) <= keep
<1> DEFINE S == F \ Beyond(F, keep)
<1>1. IsFiniteSet(S)
  BY FS_Subset
<1>2. CASE S = {}
  BY <1>2, FS_EmptySet
<1>3. CASE S # {}
  <2>1. PICK m \in S : \A y \in S \ {m} : Newer(y, m)
    <3> HIDE DEF S
    <3>1. S \subseteq F
      BY DEF S
    <3> QED BY <1>1, <1>3, <3>1, Oldest
  <2> DEFINE N == {y \in F : Newer(y, m)}
  <2>2. S \ {m} \subseteq N
    BY <2>1
  <2>3. IsFiniteSet(N) /\ Cardinality(N) \in Nat /\ Cardinality(S \ {m}) <= Cardinality(N)
    BY <2>2, FS_Subset, FS_CardinalityType
  <2>4. Cardinality(N) < keep
    BY <2>3, <2>1 DEF Beyond
  <2>5. Cardinality(S) \in Nat /\ Cardinality(S \ {m}) = Cardinality(S) - 1
    BY <1>1, FS_RemoveElement, FS_CardinalityType
  <2>6. Cardinality(S) <= keep
    <3> HIDE DEF S, N
    <3> QED BY <2>3, <2>4, <2>5
  <2> QED BY <2>6
<1> QED BY <1>2, <1>3

-----------------------------------------------------------------------------
\* The inductive invariant

HasName(i) == w[i].pc \in {"exported", "uploaded", "pruning"}

\* The row a run or a request has in hand is one the settings had.
Rows ==
  \A i \in Workers : InHand(i) =>
    w[i].cfg \in Config /\ (kind = "s3" => w[i].cfg.keep >= 1)

\* A name is used once, and a later upload has a later place.
Names ==
  /\ files \subseteq Put
  /\ \A x, y \in Put : putAt[x] = putAt[y] => x = y
  /\ \A x \in Stamps : putAt[x] <= Puts
  /\ \A i \in Workers : HasName(i) => w[i].stamp \in Stamps
  /\ \A i \in Workers : w[i].pc = "exported" => putAt[w[i].stamp] = 0
  /\ \A i, j \in Workers : i # j /\ w[i].stamp = w[j].stamp => w[i].stamp = 0

\* What a run is about to delete has as many newer ones as it keeps, and what it
\* spares, or has failed to delete without a note, is not more than that.
Spared(i) == (w[i].listed \cap files) \ w[i].todo
Lists ==
  \A i \in Workers :
    /\ w[i].listed \subseteq Put
    /\ w[i].pc # "pruning" => w[i].todo = {} /\ w[i].gone = {} /\ ~w[i].failed
    /\ w[i].pc \notin {"uploaded", "pruning"} => w[i].listed = {}
    /\ \A x \in w[i].todo : Cardinality(NewerPut(x)) >= Keep(w[i].cfg.keep)
    /\ w[i].pc = "pruning" /\ ~w[i].failed =>
         Cardinality(Spared(i)) <= Keep(w[i].cfg.keep)

IInv == TypeOK /\ Rows /\ Names /\ Lists

-----------------------------------------------------------------------------
\* Facts about the invariant

LEMMA FiniteNames == IsFiniteSet(Stamps)
BY FS_Interval, StampAssumption DEF Stamps

LEMMA ClockBound ==
  ASSUME NEW t \in 0..MaxClock
  PROVE  Day(t) \in 0..Day(MaxClock) /\ Slot(t) \in 0..Slot(MaxClock)
<1>1. t \in Nat /\ MaxClock \in Nat /\ Offset \in Nat /\ DayLen \in Nat \ {0} /\ SlotLen \in Nat \ {0}
  BY ClockAssumption
<1>2. t + Offset <= MaxClock + Offset /\ t + Offset \in Nat /\ MaxClock + Offset \in Nat
  BY <1>1
<1>3. Slot(t) \in Nat /\ Slot(MaxClock) \in Nat /\ Slot(t) <= Slot(MaxClock)
  BY <1>1, DivMonotone DEF Slot
<1>4. Day(t) \in Nat /\ Day(MaxClock) \in Nat /\ Day(t) <= Day(MaxClock)
  BY <1>1, <1>2, DivMonotone DEF Day
<1> HIDE DEF Day, Slot
<1> QED BY <1>3, <1>4

\* keep_backups is a number, and retention never keeps fewer than none.
LEMMA KeepIsNumber ==
  ASSUME NEW c \in Config \cup {NoConfig}
  PROVE  c.keep \in Keeps \cup {DefaultKeep} /\ Keep(c.keep) \in Nat
<1>1. c.keep \in Keeps \cup {DefaultKeep}
  <2>1. CASE c \in Config
    BY <2>1 DEF Config
  <2>2. CASE c = NoConfig
    BY <2>2 DEF NoConfig
  <2> QED BY <2>1, <2>2
<1>2. Keeps \cup {DefaultKeep} \subseteq Int /\ DefaultKeep \in Nat
  BY KeepsAssumption
<1>3. c.keep \in Int
  BY <1>1, <1>2, Zenon
<1>4. Keep(c.keep) \in Nat
  BY <1>2, <1>3 DEF Keep
<1> QED BY <1>1, <1>4

\* The order of retention is total on what was put.
LEMMA NewerOrder ==
  ASSUME TypeOK, Names
  PROVE  /\ \A x \in Put : ~Newer(x, x)
         /\ \A x, y \in Put : x # y => Newer(x, y) \/ Newer(y, x)
         /\ \A x, y, z \in Put : Newer(x, y) /\ Newer(y, z) => Newer(x, z)
<1>1. \A x \in Put : x \in Int /\ putAt[x] \in Int
  BY StampAssumption DEF TypeOK, Put, Stamps
<1> QED BY <1>1 DEF Names, Newer

\* Only an upload changes what is newer than a backup.
LEMMA SamePuts ==
  ASSUME UNCHANGED <<kind, putAt>>
  PROVE  /\ Put' = Put /\ Puts' = Puts
         /\ \A x : NewerPut(x)' = NewerPut(x)
<1>1. Put' = Put /\ Puts' = Puts
  BY DEF Put, Puts
<1>2. \A x : NewerPut(x)' = NewerPut(x)
  BY <1>1 DEF NewerPut, Newer
<1> QED BY <1>1, <1>2

-----------------------------------------------------------------------------
\* The first state

LEMMA InitHolds == Init => IInv
<1> SUFFICES ASSUME Init PROVE IInv
  OBVIOUS
<1> USE StampAssumption, KeepsAssumption, ClockAssumption, ModeAssumption
<1>1. Day(0) \in 0..Day(MaxClock) /\ Slot(0) \in 0..Slot(MaxClock)
  BY ClockBound
<1>2. TypeOK
  <2>1. cfg \in Config /\ (kind = "s3" => cfg.keep >= 1) /\ story \in Config
    <3>1. cfg \in Config
      <4>1. {DefaultKeep} \subseteq Keeps \cup {DefaultKeep} /\ {FALSE} \subseteq BOOLEAN
            /\ {Never} \subseteq {Never} \cup 0..MaxClock
        OBVIOUS
      <4> QED BY <4>1 DEF Init, Config
    <3>2. cfg.keep = DefaultKeep /\ story = cfg
      BY DEF Init
    <3> QED BY <3>1, <3>2
  <2>2. w \in [Workers -> Job]
    BY DEF Init, NoJob, Job, Phase
  <2>3. files \subseteq Stamps /\ putAt \in [Stamps -> Nat]
    BY DEF Init, Stamps
  <2>4. done \cup excused \subseteq 0..Day(MaxClock)
    BY <1>1 DEF Init
  <2>5. kind \in Kinds /\ clock \in 0..MaxClock /\ fired \subseteq 0..Slot(MaxClock) /\ saves \in 0..MaxSaves
    BY DEF Init
  <2>6. \A i \in Workers : w[i].todo \subseteq w[i].listed /\ w[i].pc = "idle"
    BY DEF Init, NoJob
  <2> QED BY <2>1, <2>2, <2>3, <2>4, <2>5, <2>6 DEF TypeOK
<1>3. Rows /\ Lists
  BY DEF Init, Rows, Lists, InHand, NoJob
<1>4. Put = 1..Earlier
  BY DEF Init, Put, Stamps
<1>5. Puts = Earlier
  <2>1. Cardinality(1..Earlier) = Earlier
    BY FS_Interval
  <2> QED BY <1>4, <2>1 DEF Put, Puts
<1>6. Names
  <2>1. files \subseteq Put /\ \A x, y \in Put : putAt[x] = putAt[y] => x = y
    BY <1>4 DEF Init, Stamps
  <2>2. \A x \in Stamps : putAt[x] <= Puts
    BY <1>5 DEF Init, Stamps
  <2> QED BY <2>1, <2>2 DEF Init, Names, NoJob, HasName
<1> QED BY <1>2, <1>3, <1>6 DEF IInv

-----------------------------------------------------------------------------
\* The steps

\* A step that puts a Worker into a phase without lists, and leaves the bucket alone.
LEMMA PlainStep ==
  ASSUME IInv, NEW i \in Workers, NEW J \in Job,
         w' = [w EXCEPT ![i] = J], UNCHANGED <<kind, files, putAt>>,
         J.pc \in {"idle", "due", "saving"}, J.stamp \in {0, w[i].stamp},
         J.todo = {}, J.listed = {}, J.gone = {}, ~J.failed,
         J.pc = "saving" => J.cfg \in Config /\ (kind = "s3" => J.cfg.keep >= 1)
  PROVE  /\ w' \in [Workers -> Job]
         /\ \A j \in Workers :
              /\ w'[j].todo \subseteq w'[j].listed
              /\ w'[j].pc \in {"uploaded", "pruning"} => putAt'[w'[j].stamp] > 0
         /\ Rows' /\ Names' /\ Lists'
<1>1. w' \in [Workers -> Job] /\ w'[i] = J /\ \A j \in Workers \ {i} : w'[j] = w[j]
  BY DEF IInv, TypeOK
<1>2. Put' = Put /\ Puts' = Puts /\ \A x : NewerPut(x)' = NewerPut(x)
  BY SamePuts
<1>3. \A j \in Workers : w'[j].todo \subseteq w'[j].listed
                         /\ (w'[j].pc \in {"uploaded", "pruning"} => putAt'[w'[j].stamp] > 0)
  BY <1>1 DEF IInv, TypeOK
<1>4. Rows'
  BY <1>1 DEF IInv, Rows, InHand
<1>5. Names'
  BY <1>1, <1>2 DEF IInv, Names, HasName
<1>6. Lists'
  <2>1. ASSUME NEW j \in Workers \ {i} PROVE Spared(j)' = Spared(j)
    BY <1>1 DEF Spared
  <2> QED BY <1>1, <1>2, <2>1 DEF IInv, Lists
<1> QED BY <1>1, <1>3, <1>4, <1>5, <1>6

LEMMA StoryTyped ==
  ASSUME TypeOK, NEW i \in Workers, NEW row, Story(i, row), story # Overlap => row \in Config
  PROVE  story' \in Config \cup {Overlap}
BY DEF TypeOK, Story

LEMMA ScheduledKeeps ==
  ASSUME IInv, NEW i \in Workers, Scheduled(i) \/ Manual(i)  PROVE IInv'
<1>1. PICK J \in {w[i], [w[i] EXCEPT !.pc = "due"], [w[i] EXCEPT !.pc = "due", !.cron = TRUE]} :
        w' = [w EXCEPT ![i] = J]
  <2>1. w = [w EXCEPT ![i] = w[i]]
    BY DEF IInv, TypeOK
  <2> QED BY <2>1 DEF Scheduled, Manual
<1>2. w[i] \in Job /\ w[i].pc = "idle"
  BY DEF IInv, TypeOK, Scheduled, Manual
<1>3. J \in Job /\ J.pc \in {"idle", "due"} /\ J.stamp = w[i].stamp
      /\ J.todo = w[i].todo /\ J.listed = w[i].listed /\ J.gone = w[i].gone /\ J.failed = w[i].failed
  BY <1>2 DEF Job, Phase
<1>4. J.todo = {} /\ J.listed = {} /\ J.gone = {} /\ ~J.failed
  BY <1>2, <1>3 DEF IInv, Lists
<1>5. UNCHANGED <<kind, cfg, files, putAt, clock, done, excused, saves, story>>
  BY DEF Scheduled, Manual
<1>6. fired' \subseteq 0..Slot(MaxClock)
  BY ClockBound DEF IInv, TypeOK, Scheduled, Manual
<1>7. Rows' /\ Names' /\ Lists' /\ w' \in [Workers -> Job]
      /\ \A j \in Workers :
              /\ w'[j].todo \subseteq w'[j].listed
              /\ w'[j].pc \in {"uploaded", "pruning"} => putAt'[w'[j].stamp] > 0
  BY <1>1, <1>3, <1>4, <1>5, PlainStep
<1> QED BY <1>5, <1>6, <1>7 DEF IInv, TypeOK

\* A request, a failure or the end of a run: the Worker ends up without lists.
LEMMA IdleJob == NoJob \in Job
BY DEF NoJob, Job, Phase

LEMMA RunFailsKeeps ==
  ASSUME IInv, NEW i \in Workers, RunFails(i)  PROVE IInv'
<1>1. w' = [w EXCEPT ![i] = NoJob] /\ UNCHANGED <<kind, cfg, files, putAt, clock, fired, done, saves, story>>
  BY DEF RunFails, Idle
<1>2. Rows' /\ Names' /\ Lists' /\ w' \in [Workers -> Job]
      /\ \A j \in Workers :
              /\ w'[j].todo \subseteq w'[j].listed
              /\ w'[j].pc \in {"uploaded", "pruning"} => putAt'[w'[j].stamp] > 0
  BY <1>1, IdleJob, PlainStep DEF NoJob
<1>3. done' \cup excused' \subseteq 0..Day(MaxClock)
  BY <1>1, ClockBound DEF RunFails, Excuse, IInv, TypeOK
<1> QED BY <1>1, <1>2, <1>3 DEF IInv, TypeOK

LEMMA SaveOutcomeKeeps ==
  ASSUME IInv, NEW i \in Workers, SaveOutcome(i)  PROVE IInv'
<1>1. w' = [w EXCEPT ![i] = NoJob] /\ UNCHANGED <<kind, files, putAt, clock, fired, excused, saves>>
  BY DEF SaveOutcome, Idle
<1>2. Rows' /\ Names' /\ Lists' /\ w' \in [Workers -> Job]
      /\ \A j \in Workers :
              /\ w'[j].todo \subseteq w'[j].listed
              /\ w'[j].pc \in {"uploaded", "pruning"} => putAt'[w'[j].stamp] > 0
  BY <1>1, IdleJob, PlainStep DEF NoJob
<1>3. done' \cup excused' \subseteq 0..Day(MaxClock)
  BY <1>1, ClockBound DEF SaveOutcome, IInv, TypeOK
<1>4. cfg' \in Config /\ (kind' = "s3" => cfg'.keep >= 1)
  <2>1. w[i].cfg \in Config /\ (kind = "s3" => w[i].cfg.keep >= 1)
    BY DEF SaveOutcome, IInv, Rows, InHand
  <2>2. clock \in {Never} \cup 0..MaxClock /\ w[i].failed \in BOOLEAN
    BY DEF IInv, TypeOK, Job
  <2> QED BY <2>1, <2>2, <1>1 DEF SaveOutcome, Outcome, Config
<1>5. story' \in Config \cup {Overlap}
  <2>1. NotPruned(i) \in BOOLEAN
    BY DEF NotPruned
  <2>2. ASSUME story # Overlap
        PROVE  [story EXCEPT !.last = clock, !.warning = NotPruned(i)] \in Config
    <3>1. story \in Config /\ clock \in {Never} \cup 0..MaxClock
      BY <2>2 DEF IInv, TypeOK
    <3> QED BY <2>1, <3>1 DEF Config
  <2> QED BY <2>2, StoryTyped DEF SaveOutcome, IInv
<1> QED BY <1>1, <1>2, <1>3, <1>4, <1>5 DEF IInv, TypeOK

LEMMA ReadSettingsKeeps ==
  ASSUME IInv, NEW i \in Workers, ReadSettings(i)  PROVE IInv'
<1> DEFINE J == [w[i] EXCEPT !.pc = "saving", !.cfg = cfg]
<1>1. w' = [w EXCEPT ![i] = J] /\ UNCHANGED <<kind, cfg, files, putAt, clock, fired, done, excused>>
  BY DEF ReadSettings
<1>2. w[i] \in Job /\ w[i].pc = "idle" /\ w[i].todo = {} /\ w[i].listed = {} /\ w[i].gone = {} /\ ~w[i].failed
  BY DEF ReadSettings, IInv, TypeOK, Lists
<1>3. cfg \in Config /\ (kind = "s3" => cfg.keep >= 1)
  BY DEF IInv, TypeOK
<1>4. J \in Job /\ J.pc = "saving" /\ J.stamp = w[i].stamp /\ J.cfg = cfg
      /\ J.todo = {} /\ J.listed = {} /\ J.gone = {} /\ ~J.failed
  BY <1>2, <1>3 DEF Job, Phase
<1> HIDE DEF J
<1>5. Rows' /\ Names' /\ Lists' /\ w' \in [Workers -> Job]
      /\ \A j \in Workers :
              /\ w'[j].todo \subseteq w'[j].listed
              /\ w'[j].pc \in {"uploaded", "pruning"} => putAt'[w'[j].stamp] > 0
  BY <1>1, <1>3, <1>4, PlainStep
<1>6. story' \in Config \cup {Overlap}
  BY StoryTyped DEF ReadSettings, IInv, TypeOK
<1>7. saves' \in 0..MaxSaves
  BY ModeAssumption DEF ReadSettings, IInv, TypeOK
<1> QED BY <1>1, <1>5, <1>6, <1>7 DEF IInv, TypeOK

LEMMA WriteSettingsKeeps ==
  ASSUME IInv, NEW i \in Workers, WriteSettings(i)  PROVE IInv'
<1>1. w' = [w EXCEPT ![i] = NoJob] /\ UNCHANGED <<kind, files, putAt, clock, fired, done, saves>>
  BY DEF WriteSettings, Idle
<1>2. Rows' /\ Names' /\ Lists' /\ w' \in [Workers -> Job]
      /\ \A j \in Workers :
              /\ w'[j].todo \subseteq w'[j].listed
              /\ w'[j].pc \in {"uploaded", "pruning"} => putAt'[w'[j].stamp] > 0
  BY <1>1, IdleJob, PlainStep DEF NoJob
<1>3. done' \cup excused' \subseteq 0..Day(MaxClock)
  <2>1. Day(clock) \in 0..Day(MaxClock)
    BY ClockBound DEF IInv, TypeOK
  <2>2. Day(clock)..Day(MaxClock) \subseteq 0..Day(MaxClock)
    <3> HIDE DEF Day
    <3> QED BY <2>1
  <2> QED BY <1>1, <2>2 DEF WriteSettings, IInv, TypeOK
<1>4. PICK e \in BOOLEAN, k \in Keeps, t \in Times :
        /\ ValidKeep(k)
        /\ cfg' = [w[i].cfg EXCEPT !.enabled = e, !.keep = k, !.time = t]
        /\ Story(i, [story EXCEPT !.enabled = e, !.keep = k, !.time = t])
  BY DEF WriteSettings
<1>5. cfg' \in Config /\ (kind' = "s3" => cfg'.keep >= 1)
  <2>1. w[i].cfg \in Config
    BY DEF WriteSettings, IInv, Rows, InHand
  <2>2. kind \in {"s3", "webdav"}
    BY ModeAssumption DEF IInv, TypeOK
  <2> QED BY <2>1, <2>2, <1>1, <1>4 DEF Config, ValidKeep
<1>6. story' \in Config \cup {Overlap}
  <2>1. story # Overlap => [story EXCEPT !.enabled = e, !.keep = k, !.time = t] \in Config
    BY DEF IInv, TypeOK, Config
  <2> QED BY <2>1, <1>4, StoryTyped DEF IInv
<1> QED BY <1>1, <1>2, <1>3, <1>5, <1>6 DEF IInv, TypeOK

LEMMA StartRunKeeps ==
  ASSUME IInv, NEW i \in Workers, StartRun(i)  PROVE IInv'
<1>1. PICK s \in Stamps :
        IsNextStamp(s) /\ w' = [w EXCEPT ![i].pc = "exported", ![i].cfg = cfg, ![i].stamp = s]
  BY DEF StartRun
<1>2. UNCHANGED <<kind, cfg, files, putAt, clock, fired, done, excused, saves>>
  BY DEF StartRun
<1>3. w[i] \in Job /\ w[i].pc = "due" /\ w[i].todo = {} /\ w[i].listed = {} /\ w[i].gone = {} /\ ~w[i].failed
  BY DEF StartRun, IInv, TypeOK, Lists
<1>4. cfg \in Config /\ (kind = "s3" => cfg.keep >= 1)
  BY DEF IInv, TypeOK
<1>5. /\ w' \in [Workers -> Job]
      /\ w'[i].pc = "exported" /\ w'[i].cfg = cfg /\ w'[i].stamp = s
      /\ w'[i].todo = {} /\ w'[i].listed = {} /\ w'[i].gone = {} /\ ~w'[i].failed
      /\ \A j \in Workers \ {i} : w'[j] = w[j]
  BY <1>1, <1>3, <1>4 DEF IInv, TypeOK, Job, Phase
<1>6. putAt[s] = 0 /\ \A j \in Workers : w[j].stamp # s
  <2>1. s \in Int /\ putAt[s] \in Nat
    BY StampAssumption DEF Stamps, IInv, TypeOK
  <2> QED BY <1>1, <2>1 DEF IsNextStamp, Taken
<1>7. Put' = Put /\ Puts' = Puts /\ \A x : NewerPut(x)' = NewerPut(x)
  BY <1>2, SamePuts
<1>8. TypeOK'
  <2>1. story' \in Config \cup {Overlap}
    BY StoryTyped DEF StartRun, IInv, TypeOK
  <2> QED BY <1>2, <1>5, <2>1 DEF IInv, TypeOK
<1>9. Rows'
  BY <1>2, <1>4, <1>5 DEF IInv, Rows, InHand
<1>10. Names'
  BY <1>2, <1>5, <1>6, <1>7 DEF IInv, Names, HasName
<1>11. Lists'
  <2>1. ASSUME NEW j \in Workers \ {i} PROVE Spared(j)' = Spared(j)
    BY <1>2, <1>5 DEF Spared
  <2> QED BY <1>5, <1>7, <2>1 DEF IInv, Lists
<1> QED BY <1>8, <1>9, <1>10, <1>11 DEF IInv

\* An upload takes the last place, and everything put before it stays as new.
LEMMA PutObjectKeeps ==
  ASSUME IInv, NEW i \in Workers, PutObject(i)
  PROVE  /\ IInv' /\ Put \subseteq Put'
         /\ \A x \in Put : Cardinality(NewerPut(x)) <= Cardinality(NewerPut(x)')
<1> DEFINE s == w[i].stamp
<1>1. /\ w[i].pc = "exported" /\ s \in Stamps /\ putAt[s] = 0
      /\ files' = files \cup {s} /\ putAt' = [putAt EXCEPT ![s] = Puts + 1]
      /\ w' = [w EXCEPT ![i].pc = "uploaded"]
      /\ UNCHANGED <<kind, cfg, clock, fired, done, excused, saves, story>>
  BY DEF PutObject, IInv, Names, HasName
<1>2. /\ w' \in [Workers -> Job]
      /\ w'[i].pc = "uploaded" /\ w'[i].cfg = w[i].cfg /\ w'[i].stamp = s
      /\ w'[i].todo = w[i].todo /\ w'[i].listed = w[i].listed /\ w'[i].failed = w[i].failed
      /\ w'[i].gone = w[i].gone
      /\ \A j \in Workers \ {i} : w'[j] = w[j]
  BY <1>1 DEF IInv, TypeOK, Job, Phase
<1>3. IsFiniteSet(Put) /\ Puts = Cardinality(Put) /\ Puts \in Nat
  BY FiniteNames, FS_Subset, FS_CardinalityType DEF Put, Puts
<1>4. /\ putAt' \in [Stamps -> Nat] /\ putAt'[s] = Puts + 1
      /\ \A x \in Stamps \ {s} : putAt'[x] = putAt[x]
  BY <1>1, <1>3 DEF IInv, TypeOK
<1>5. Put' = Put \cup {s} /\ s \notin Put
  <2>1. Puts + 1 > 0
    BY <1>3
  <2>2. \A x \in Stamps : putAt'[x] > 0 <=> (putAt[x] > 0 \/ x = s)
    BY <1>4, <2>1
  <2> QED BY <2>2, <1>1 DEF Put
<1>6. Puts' = Puts + 1
  <2>1. Cardinality(Put \cup {s}) = Cardinality(Put) + 1
    BY <1>3, <1>5, FS_AddElement
  <2>2. Puts' = Cardinality(Put')
    BY DEF Put, Puts
  <2> QED BY <2>1, <2>2, <1>3, <1>5
<1>7. ASSUME NEW x \in Put
      PROVE  Cardinality(NewerPut(x)) <= Cardinality(NewerPut(x)')
  <2>1. \A y \in Put : Newer(y, x)' = Newer(y, x)
    BY <1>1, <1>4, <1>5 DEF Newer, Put
  <2>2. NewerPut(x) \subseteq NewerPut(x)'
    BY <2>1, <1>5 DEF NewerPut
  <2>3. IsFiniteSet(NewerPut(x)')
    <3>1. NewerPut(x)' \subseteq Stamps
      BY DEF NewerPut, Put, Stamps
    <3> QED BY <3>1, FiniteNames, FS_Subset
  <2> QED BY <2>2, <2>3, FS_Subset
<1>8. TypeOK'
  <2>1. \A j \in Workers : w'[j].pc \in {"uploaded", "pruning"} => putAt'[w'[j].stamp] > 0
    <3>1. \A j \in Workers \ {i} :
            w[j].pc \in {"uploaded", "pruning"} => w[j].stamp \in Stamps /\ putAt[w[j].stamp] > 0
      BY DEF IInv, TypeOK, Names, HasName
    <3> QED BY <3>1, <1>2, <1>3, <1>4
  <2>2. \A j \in Workers : w'[j].todo \subseteq w'[j].listed
    BY <1>2 DEF IInv, TypeOK
  <2> QED BY <1>1, <1>2, <1>4, <2>1, <2>2 DEF IInv, TypeOK
<1>9. Rows'
  BY <1>1, <1>2 DEF IInv, Rows, InHand
<1>10. Names'
  <2>1. files' \subseteq Put' /\ \A x \in Stamps : putAt'[x] <= Puts'
    BY <1>1, <1>3, <1>4, <1>5, <1>6 DEF IInv, Names, TypeOK
  <2>2. \A x, y \in Put' : putAt'[x] = putAt'[y] => x = y
    <3>1. \A x \in Put : putAt'[x] = putAt[x] /\ putAt[x] <= Puts /\ putAt[x] \in Nat
      BY <1>4, <1>5 DEF IInv, Names, TypeOK, Put
    <3> HIDE DEF s
    <3> QED BY <3>1, <1>3, <1>4, <1>5 DEF IInv, Names
  <2>3. \A j \in Workers : HasName(j)' => w'[j].stamp \in Stamps
    BY <1>1, <1>2 DEF IInv, Names, HasName
  <2>4. \A j \in Workers : w'[j].pc = "exported" => putAt'[w'[j].stamp] = 0
    BY <1>1, <1>2, <1>4, StampAssumption DEF IInv, Names, HasName, Stamps
  <2>5. \A j, k \in Workers : j # k /\ w'[j].stamp = w'[k].stamp => w'[j].stamp = 0
    BY <1>2 DEF IInv, Names
  <2> QED BY <2>1, <2>2, <2>3, <2>4, <2>5 DEF Names
<1>11. Lists'
  <2>1. \A j \in Workers : w'[j].listed = w[j].listed /\ w'[j].todo = w[j].todo
                           /\ w'[j].cfg = w[j].cfg /\ w'[j].failed = w[j].failed /\ w'[j].gone = w[j].gone
                           /\ w[j].listed \subseteq Put /\ w[j].todo \subseteq w[j].listed
    BY <1>2 DEF IInv, Lists, TypeOK
  <2>2. ASSUME NEW j \in Workers PROVE Spared(j)' = Spared(j)
    BY <2>1, <1>1, <1>5 DEF Spared
  <2>3. ASSUME NEW j \in Workers, NEW x \in w'[j].todo
        PROVE  Cardinality(NewerPut(x)') >= Keep(w'[j].cfg.keep)
    <3>1. x \in Put /\ Cardinality(NewerPut(x)) >= Keep(w[j].cfg.keep)
      BY <2>1, <2>3 DEF IInv, Lists
    <3>2. Cardinality(NewerPut(x)) <= Cardinality(NewerPut(x)')
      BY <3>1, <1>7
    <3>3. Cardinality(NewerPut(x)) \in Nat /\ Cardinality(NewerPut(x)') \in Nat
      <4>1. NewerPut(x) \subseteq Stamps /\ NewerPut(x)' \subseteq Stamps
        BY DEF NewerPut, Put, Stamps
      <4> QED BY <4>1, FiniteNames, FS_Subset, FS_CardinalityType
    <3>4. Keep(w[j].cfg.keep) \in Int
      BY KeepIsNumber DEF IInv, TypeOK, Job
    <3> QED BY <3>1, <3>2, <3>3, <3>4, <2>1
  <2>4. \A j \in Workers : /\ w'[j].pc = "pruning" <=> w[j].pc = "pruning"
                           /\ w'[j].pc \notin {"uploaded", "pruning"} => w[j].pc \notin {"uploaded", "pruning"}
    BY <1>1, <1>2
  <2> QED BY <2>1, <2>2, <2>3, <2>4, <1>5 DEF IInv, Lists
<1>12. IInv'
  BY <1>8, <1>9, <1>10, <1>11 DEF IInv
<1> QED BY <1>12, <1>7, <1>5

\* What a step of the listing makes of a run: a further page, the end of it, or a failure.
Listed(i, p, L, D, fail) ==
  [w[i] EXCEPT !.pc = p, !.listed = L, !.todo = D, !.failed = fail]

LEMMA Listing ==
  ASSUME IInv, NEW i \in Workers, ListObjects(i)
  PROVE  \E L \in SUBSET Put, D \in SUBSET Put, p \in {"uploaded", "pruning"}, fail \in BOOLEAN :
           /\ w' = [w EXCEPT ![i] = Listed(i, p, L, D, fail)]
           /\ D \subseteq L
           /\ ~fail => w[i].listed \subseteq L /\ L \subseteq w[i].listed \cup files
           /\ fail => p = "pruning" /\ L = {}
           /\ p = "uploaded" => D = {}
           /\ p = "pruning" /\ ~fail => D = Beyond(L, Keep(w[i].cfg.keep))
           /\ p = "pruning" /\ ~fail /\ w[i].listed = {} => L = files
<1> DEFINE rest == {x \in files : \A y \in w[i].listed : y < x}
           page == {x \in rest : kind = "s3" => Cardinality({y \in rest : y < x}) < PageKeys}
           all == w[i].listed \cup page
           keep == Keep(w[i].cfg.keep)
<1>1. w[i].todo = {} /\ ~w[i].failed /\ w[i] \in Job /\ w[i].pc = "uploaded" /\ w[i].listed \subseteq Put
  BY DEF ListObjects, IInv, Lists, TypeOK
<1>2. all \in SUBSET Put /\ page \subseteq files
  BY <1>1 DEF IInv, Names
<1>3. Beyond(all, keep) \in SUBSET all
  BY DEF Beyond
<1>4. \/ page # rest /\ w' = [w EXCEPT ![i].listed = all]
      \/ page = rest /\ w' = [w EXCEPT ![i].pc = "pruning", ![i].listed = all, ![i].todo = Beyond(all, keep)]
      \/ w' = [w EXCEPT ![i].pc = "pruning", ![i].listed = {}, ![i].failed = TRUE]
  BY DEF ListObjects
<1>5. CASE page # rest /\ w' = [w EXCEPT ![i].listed = all]
  <2>1. w' = [w EXCEPT ![i] = Listed(i, "uploaded", all, {}, FALSE)]
    <3>1. [w[i] EXCEPT !.listed = all] = Listed(i, "uploaded", all, {}, FALSE)
      <4> HIDE DEF all
      <4> QED BY <1>1 DEF Job, Listed
    <3> QED BY <3>1, <1>5
  <2> QED BY <1>2, <2>1
<1>6. CASE page = rest /\ w' = [w EXCEPT ![i].pc = "pruning", ![i].listed = all, ![i].todo = Beyond(all, keep)]
  <2>1. w' = [w EXCEPT ![i] = Listed(i, "pruning", all, Beyond(all, keep), FALSE)]
    <3>1. [w[i] EXCEPT !.pc = "pruning", !.listed = all, !.todo = Beyond(all, keep)]
            = Listed(i, "pruning", all, Beyond(all, keep), FALSE)
      <4> HIDE DEF all, keep
      <4> QED BY <1>1 DEF Job, Listed
    <3> QED BY <3>1, <1>6
  <2>2. w[i].listed = {} => all = files
    BY <1>6
  <2> HIDE DEF all, rest, page, keep
  <2>3. w[i].listed \subseteq all /\ all \subseteq w[i].listed \cup files
    BY <1>2 DEF all
  <2> QED BY <1>2, <1>3, <2>1, <2>2, <2>3 DEF keep
<1>7. CASE w' = [w EXCEPT ![i].pc = "pruning", ![i].listed = {}, ![i].failed = TRUE]
  <2>1. w' = [w EXCEPT ![i] = Listed(i, "pruning", {}, {}, TRUE)]
    <3>1. [w[i] EXCEPT !.pc = "pruning", !.listed = {}, !.failed = TRUE] = Listed(i, "pruning", {}, {}, TRUE)
      BY <1>1 DEF Job, Listed
    <3> QED BY <3>1, <1>7
  <2> QED BY <2>1
<1> QED BY <1>4, <1>5, <1>6, <1>7

LEMMA ListObjectsKeeps ==
  ASSUME IInv, NEW i \in Workers, ListObjects(i)  PROVE IInv'
<1> DEFINE keep == Keep(w[i].cfg.keep)
<1>1. PICK L \in SUBSET Put, D \in SUBSET Put, p \in {"uploaded", "pruning"}, fail \in BOOLEAN :
        /\ w' = [w EXCEPT ![i] = Listed(i, p, L, D, fail)]
        /\ D \subseteq L
        /\ fail => p = "pruning" /\ L = {}
        /\ p = "uploaded" => D = {}
        /\ p = "pruning" /\ ~fail => D = Beyond(L, keep)
  BY Listing
<1>2. UNCHANGED <<kind, cfg, files, putAt, clock, fired, done, excused, saves, story>>
  BY DEF ListObjects
<1>3. w[i] \in Job /\ w[i].pc = "uploaded" /\ files \subseteq Put /\ Put \subseteq Stamps
  BY DEF ListObjects, IInv, TypeOK, Names, Put
<1>5. /\ w' \in [Workers -> Job]
      /\ w'[i].pc = p /\ w'[i].cfg = w[i].cfg /\ w'[i].stamp = w[i].stamp
      /\ w'[i].listed = L /\ w'[i].todo = D /\ w'[i].failed = fail /\ w'[i].gone = {}
      /\ \A j \in Workers \ {i} : w'[j] = w[j]
  <2>1. L \in SUBSET Stamps /\ D \in SUBSET Stamps /\ p \in Phase
    BY <1>3 DEF Phase
  <2>2. Listed(i, p, L, D, fail) \in Job
    BY <2>1, <1>3 DEF Job, Listed
  <2>3. w \in [Workers -> Job]
    BY DEF IInv, TypeOK
  <2>4. /\ Listed(i, p, L, D, fail).pc = p /\ Listed(i, p, L, D, fail).cfg = w[i].cfg
        /\ Listed(i, p, L, D, fail).stamp = w[i].stamp /\ Listed(i, p, L, D, fail).listed = L
        /\ Listed(i, p, L, D, fail).todo = D /\ Listed(i, p, L, D, fail).failed = fail
        /\ Listed(i, p, L, D, fail).gone = w[i].gone /\ w[i].gone = {}
    BY <1>3 DEF Job, Listed, IInv, Lists
  <2> QED BY <1>1, <2>2, <2>3, <2>4
<1>6. Put' = Put /\ Puts' = Puts /\ \A x : NewerPut(x)' = NewerPut(x)
  BY <1>2, SamePuts
<1>7. TypeOK'
  BY <1>1, <1>2, <1>3, <1>5 DEF IInv, TypeOK
<1>8. Rows'
  BY <1>2, <1>3, <1>5 DEF IInv, Rows, InHand
<1>9. Names'
  BY <1>2, <1>3, <1>5, <1>6 DEF IInv, Names, HasName
<1>10. keep \in Nat
  BY <1>3, KeepIsNumber DEF Job
<1>11. ASSUME NEW x \in D
       PROVE  Cardinality(NewerPut(x)) >= keep
  <2> DEFINE N == {y \in L : Newer(y, x)}
  <2>1. D = Beyond(L, keep)
    BY <1>1, <1>11
  <2>2. Cardinality(N) >= keep
    BY <2>1, <1>11 DEF Beyond
  <2>3. N \subseteq NewerPut(x) /\ NewerPut(x) \subseteq Stamps
    BY <1>3 DEF NewerPut
  <2>4. /\ Cardinality(N) <= Cardinality(NewerPut(x))
        /\ Cardinality(N) \in Nat /\ Cardinality(NewerPut(x)) \in Nat
    BY <2>3, FiniteNames, FS_Subset, FS_CardinalityType
  <2> HIDE DEF N, keep
  <2> QED BY <2>2, <2>4, <1>10
<1>12. ASSUME p = "pruning", ~fail
       PROVE  Cardinality(Spared(i)') <= keep
  <2>1. Spared(i)' \subseteq L \ Beyond(L, keep)
    BY <1>1, <1>2, <1>5, <1>12 DEF Spared
  <2>2. IsFiniteSet(L)
    BY <1>3, FiniteNames, FS_Subset
  <2>3. Cardinality(L \ Beyond(L, keep)) <= keep
    <3> HIDE DEF keep
    <3> QED BY <1>10, <2>2, NewerOrder, SparesAtMost DEF IInv
  <2>4. IsFiniteSet(L \ Beyond(L, keep))
    BY <2>2, FS_Subset
  <2>5. Cardinality(Spared(i)') <= Cardinality(L \ Beyond(L, keep))
        /\ Cardinality(Spared(i)') \in Nat /\ Cardinality(L \ Beyond(L, keep)) \in Nat
    <3> HIDE DEF keep
    <3> QED BY <2>1, <2>4, FS_Subset, FS_CardinalityType
  <2> HIDE DEF keep
  <2> QED BY <2>3, <2>5, <1>10
<1>13. Lists'
  <2>1. ASSUME NEW j \in Workers \ {i} PROVE Spared(j)' = Spared(j)
    BY <1>2, <1>5 DEF Spared
  <2> QED BY <1>1, <1>5, <1>6, <1>11, <1>12, <2>1 DEF IInv, Lists
<1> QED BY <1>7, <1>8, <1>9, <1>13 DEF IInv

\* What a DELETE makes of a run.
Deleted(i, x, ok) ==
  [w[i] EXCEPT !.todo = @ \ {x}, !.failed = FailedAfter(i, ok), !.gone = IF ok THEN @ \cup {x} ELSE @]

LEMMA DeletedJob ==
  ASSUME w \in [Workers -> Job], NEW i \in Workers, NEW x \in w[i].todo, NEW ok \in BOOLEAN,
         w' = [w EXCEPT ![i] = Deleted(i, x, ok)]
  PROVE  /\ w' \in [Workers -> Job]
         /\ w'[i].pc = w[i].pc /\ w'[i].cron = w[i].cron
         /\ w'[i].cfg = w[i].cfg /\ w'[i].stamp = w[i].stamp
         /\ w'[i].listed = w[i].listed /\ w'[i].todo = w[i].todo \ {x}
         /\ w'[i].failed = (w[i].failed \/ ~ok)
         /\ w'[i].gone = IF ok THEN w[i].gone \cup {x} ELSE w[i].gone
         /\ \A j \in Workers \ {i} : w'[j] = w[j]
<1>1. FailedAfter(i, ok) \in BOOLEAN /\ FailedAfter(i, ok) = (w[i].failed \/ ~ok)
  BY DEF FailedAfter, Job
<1>2. w[i] \in Job /\ x \in Stamps
  BY DEF Job
<1>3. PICK d : d = Deleted(i, x, ok)
  OBVIOUS
<1>4. /\ d \in Job /\ d.pc = w[i].pc /\ d.cron = w[i].cron /\ d.cfg = w[i].cfg /\ d.stamp = w[i].stamp
      /\ d.listed = w[i].listed /\ d.todo = w[i].todo \ {x} /\ d.failed = (w[i].failed \/ ~ok)
      /\ d.gone = IF ok THEN w[i].gone \cup {x} ELSE w[i].gone
  <2> DEFINE g == IF ok THEN w[i].gone \cup {x} ELSE w[i].gone
             t == w[i].todo \ {x}
             f == FailedAfter(i, ok)
  <2>1. g \in SUBSET Stamps /\ t \in SUBSET Stamps /\ f \in BOOLEAN
    BY <1>1, <1>2 DEF Job
  <2>2. d = [w[i] EXCEPT !.todo = t, !.failed = f, !.gone = g]
    BY <1>3 DEF Deleted
  <2>3. f = (w[i].failed \/ ~ok)
    BY <1>1
  <2> HIDE DEF g, t, f
  <2>4. /\ d \in Job /\ d.pc = w[i].pc /\ d.cron = w[i].cron /\ d.cfg = w[i].cfg /\ d.stamp = w[i].stamp
        /\ d.listed = w[i].listed /\ d.todo = t /\ d.failed = f /\ d.gone = g
    BY <1>2, <2>1, <2>2 DEF Job
  <2> QED BY <2>3, <2>4 DEF g, t
<1> HIDE DEF Deleted
<1>5. w' = [w EXCEPT ![i] = d]
  BY <1>3
<1> QED BY <1>4, <1>5

LEMMA Deleting ==
  ASSUME IInv, NEW i \in Workers, DeleteObject(i)
  PROVE  \E x \in w[i].todo, ok \in BOOLEAN :
           /\ files' = files \ {x} \/ (~ok /\ files' = files)
           /\ w' = [w EXCEPT ![i] = Deleted(i, x, ok)]
<1>1. PICK x \in w[i].todo, ok \in BOOLEAN :
        /\ files' = files \ {x} \/ (~ok /\ files' = files)
        /\ w' = [w EXCEPT ![i].todo = @ \ {x}, ![i].failed = FailedAfter(i, ok),
                          ![i].gone = IF ok THEN @ \cup {x} ELSE @]
  BY DEF DeleteObject
<1>2. w \in [Workers -> Job]
  BY DEF IInv, TypeOK
<1>3. w' = [w EXCEPT ![i] = Deleted(i, x, ok)]
  BY <1>1, <1>2 DEF Deleted, Job
<1> QED BY <1>1, <1>3

\* A run deletes what it had listed, and no other run is the worse for it.
LEMMA DeleteObjectKeeps ==
  ASSUME IInv, NEW i \in Workers, DeleteObject(i)  PROVE IInv'
<1>1. PICK x \in w[i].todo, ok \in BOOLEAN :
        /\ files' = files \ {x} \/ (~ok /\ files' = files)
        /\ w' = [w EXCEPT ![i] = Deleted(i, x, ok)]
  BY Deleting
<1>2. UNCHANGED <<kind, cfg, putAt, clock, fired, done, excused, saves, story>>
  BY DEF DeleteObject
<1>3. w[i] \in Job /\ w[i].pc = "pruning"
  BY DEF DeleteObject, IInv, TypeOK
<1>4. /\ w' \in [Workers -> Job]
      /\ w'[i].pc = "pruning" /\ w'[i].cfg = w[i].cfg /\ w'[i].stamp = w[i].stamp
      /\ w'[i].listed = w[i].listed /\ w'[i].todo = w[i].todo \ {x}
      /\ w'[i].failed = (w[i].failed \/ ~ok)
      /\ \A j \in Workers \ {i} : w'[j] = w[j]
  <2>1. w \in [Workers -> Job]
    BY DEF IInv, TypeOK
  <2>2. w' = [w EXCEPT ![i] = Deleted(i, x, ok)]
    BY <1>1
  <2> QED BY <1>3, <2>1, <2>2, DeletedJob
<1>5. Put' = Put /\ Puts' = Puts /\ \A y : NewerPut(y)' = NewerPut(y)
  BY <1>2, SamePuts
<1>6. files' \subseteq files
  BY <1>1
<1>7. TypeOK'
  BY <1>2, <1>3, <1>4, <1>6 DEF IInv, TypeOK
<1>8. Rows'
  BY <1>2, <1>3, <1>4 DEF IInv, Rows, InHand
<1>9. Names'
  BY <1>2, <1>3, <1>4, <1>5, <1>6 DEF IInv, Names, HasName
<1>10. ASSUME NEW j \in Workers, w'[j].pc = "pruning", ~w'[j].failed
       PROVE  Cardinality(Spared(j)') <= Keep(w'[j].cfg.keep)
  <2>1. Spared(j)' \subseteq Spared(j)
    <3>1. CASE j = i
      <4>1. ok
        BY <1>4, <1>10, <3>1
      <4> QED BY <4>1, <1>1, <1>4, <3>1 DEF Spared
    <3>2. CASE j # i
      BY <1>4, <1>6, <3>2 DEF Spared
    <3> QED BY <3>1, <3>2
  <2>2. w[j].pc = "pruning" /\ ~w[j].failed /\ w'[j].cfg = w[j].cfg
    BY <1>3, <1>4, <1>10
  <2>3. Cardinality(Spared(j)) <= Keep(w[j].cfg.keep)
    BY <2>2 DEF IInv, Lists
  <2>4. Spared(j) \subseteq Stamps
    BY DEF Spared, IInv, TypeOK
  <2>5. /\ Cardinality(Spared(j)') <= Cardinality(Spared(j))
        /\ Cardinality(Spared(j)') \in Nat /\ Cardinality(Spared(j)) \in Nat
    BY <2>1, <2>4, FiniteNames, FS_Subset, FS_CardinalityType
  <2>6. Keep(w[j].cfg.keep) \in Int
    BY KeepIsNumber DEF IInv, TypeOK, Job
  <2> QED BY <2>2, <2>3, <2>5, <2>6
<1>11. Lists'
  BY <1>3, <1>4, <1>5, <1>10 DEF IInv, Lists
<1> QED BY <1>7, <1>8, <1>9, <1>11 DEF IInv

LEMMA TickKeeps ==
  ASSUME IInv, Tick  PROVE IInv'
<1>1. UNCHANGED <<kind, cfg, files, putAt, w, fired, done, saves, story>>
  BY DEF Tick
<1>2. clock' \in 0..MaxClock
  BY ClockAssumption DEF Tick, IInv, TypeOK
<1>3. done' \cup excused' \subseteq 0..Day(MaxClock)
  BY <1>1, ClockBound DEF Tick, IInv, TypeOK
<1>4. Put' = Put /\ Puts' = Puts /\ \A y : NewerPut(y)' = NewerPut(y)
  BY <1>1, SamePuts
<1>5. TypeOK'
  BY <1>1, <1>2, <1>3 DEF IInv, TypeOK
<1>6. Rows' /\ Names'
  BY <1>1, <1>4 DEF IInv, Rows, Names, InHand, HasName
<1>7. Lists'
  <2>1. \A j \in Workers : Spared(j)' = Spared(j)
    BY <1>1 DEF Spared
  <2> QED BY <1>1, <1>4, <2>1 DEF IInv, Lists
<1> QED BY <1>5, <1>6, <1>7 DEF IInv

LEMMA StepKeeps == IInv /\ [Next]_vars => IInv'
<1> SUFFICES ASSUME IInv, [Next]_vars PROVE IInv'
  OBVIOUS
<1>1. CASE UNCHANGED vars
  <2>1. Put' = Put /\ Puts' = Puts /\ \A y : NewerPut(y)' = NewerPut(y)
    BY <1>1, SamePuts DEF vars
  <2>2. \A j \in Workers : Spared(j)' = Spared(j)
    BY <1>1 DEF vars, Spared
  <2> QED BY <1>1, <2>1, <2>2 DEF vars, IInv, TypeOK, Rows, Names, Lists, InHand, HasName
<1>2. CASE Tick
  BY <1>2, TickKeeps
<1>3. ASSUME NEW i \in Workers,
             \/ Scheduled(i) \/ Manual(i) \/ StartRun(i) \/ PutObject(i) \/ RunFails(i)
             \/ ListObjects(i) \/ DeleteObject(i) \/ SaveOutcome(i)
             \/ ReadSettings(i) \/ WriteSettings(i)
      PROVE  IInv'
  BY <1>3, ScheduledKeeps, StartRunKeeps, PutObjectKeeps, RunFailsKeeps, ListObjectsKeeps,
     DeleteObjectKeeps, SaveOutcomeKeeps, ReadSettingsKeeps, WriteSettingsKeeps
<1> QED BY <1>1, <1>2, <1>3 DEF Next

LEMMA Invariant == Spec => []IInv
<1> QED BY InitHolds, StepKeeps, PTL DEF Spec

-----------------------------------------------------------------------------
\* Rows, runs, names and the calendar keep their types, however runs overlap.
THEOREM TypeCorrect == Spec => []TypeOK
<1>1. IInv => TypeOK
  BY DEF IInv
<1> QED BY <1>1, Invariant, PTL

\* "Prune failures ... surface a warning": a run that reports no failure has left no
\* more of the backups it listed than it is to keep, whatever other runs put or delete.
THEOREM FailuresShow == Spec => []RetentionHonest
<1>1. ASSUME IInv, NEW i \in Workers, w[i].pc = "pruning", w[i].todo = {}, ~w[i].failed
      PROVE  Cardinality(w[i].listed \cap files) <= Keep(w[i].cfg.keep)
  <2>1. Spared(i) = w[i].listed \cap files
    BY <1>1 DEF Spared
  <2> QED BY <1>1, <2>1 DEF IInv, Lists
<1>2. IInv => RetentionHonest
  BY <1>1 DEF RetentionHonest
<1> QED BY <1>2, Invariant, PTL

\* A deleted backup has as many newer ones as some setting asks to keep.
LEMMA DeletedIsOld ==
  ASSUME Keeps \subseteq Nat, IInv, NEW i \in Workers, NEW x \in w[i].todo
  PROVE  ~AlwaysAsked(x)
<1>1. w[i].cfg.keep \in Keeps \cup {DefaultKeep} /\ w[i].cfg.keep \in Nat
  <2>1. w[i].cfg \in Config \cup {NoConfig}
    BY DEF IInv, TypeOK, Job
  <2> QED BY <2>1, KeepIsNumber, KeepsAssumption
<1>2. Keep(w[i].cfg.keep) = Asked(w[i].cfg.keep)
  BY <1>1 DEF Keep, Asked
<1>3. Cardinality(NewerPut(x)) >= Asked(w[i].cfg.keep)
  BY <1>2 DEF IInv, Lists
<1>4. Cardinality(NewerPut(x)) \in Nat /\ Asked(w[i].cfg.keep) \in Nat
  <2>1. NewerPut(x) \subseteq Stamps
    BY DEF NewerPut, Put
  <2> QED BY <2>1, <1>1, FiniteNames, FS_Subset, FS_CardinalityType, KeepsAssumption DEF Asked
<1> QED BY <1>1, <1>3, <1>4 DEF AlwaysAsked

\* The newest backups ever put are never pruned, however many runs overlap, fail or are
\* killed.  Where a negative keep_backups is accepted, as for WebDAV, this is not so.
THEOREM NewestStay ==
  ASSUME Keeps \subseteq Nat
  PROVE  Spec => []NewestKept
<1>1. Init => NewestKept
  <2>1. ASSUME Init PROVE Put \subseteq files
    BY <2>1, StampAssumption DEF Init, Put, Stamps
  <2> QED BY <2>1 DEF NewestKept
<1>2. ASSUME IInv, NewestKept, [Next]_vars PROVE NewestKept'
  <2>1. CASE UNCHANGED <<kind, putAt, files>>
    BY <1>2, <2>1, SamePuts DEF NewestKept, AlwaysAsked
  <2>2. ASSUME NEW i \in Workers, PutObject(i) PROVE NewestKept'
    <3>1. /\ Put \subseteq Put'
          /\ \A x \in Put : Cardinality(NewerPut(x)) <= Cardinality(NewerPut(x)')
      BY <1>2, <2>2, PutObjectKeeps
    <3>2. files' = files \cup {w[i].stamp} /\ Put' \subseteq Put \cup {w[i].stamp}
      <4>1. \A x \in Stamps \ {w[i].stamp} : putAt'[x] = putAt[x]
        BY <1>2, <2>2 DEF PutObject, IInv, TypeOK
      <4> QED BY <2>2, <4>1 DEF PutObject, Put
    <3>3. ASSUME NEW x \in Put, AlwaysAsked(x)' PROVE x \in files
      <4>1. ASSUME NEW k \in Keeps \cup {DefaultKeep}
            PROVE  Cardinality(NewerPut(x)) < Asked(k)
        <5>1. Cardinality(NewerPut(x)') < Asked(k)
          BY <3>3 DEF AlwaysAsked
        <5>2. Cardinality(NewerPut(x)) <= Cardinality(NewerPut(x)')
          BY <3>1
        <5>3. Cardinality(NewerPut(x)) \in Nat /\ Cardinality(NewerPut(x)') \in Nat
          <6>1. NewerPut(x) \subseteq Stamps /\ NewerPut(x)' \subseteq Stamps
            BY DEF NewerPut, Put, Stamps
          <6> QED BY <6>1, FiniteNames, FS_Subset, FS_CardinalityType
        <5>4. Asked(k) \in Nat
          BY KeepsAssumption DEF Asked
        <5> QED BY <5>1, <5>2, <5>3, <5>4
      <4> QED BY <4>1, <1>2 DEF AlwaysAsked, NewestKept
    <3> QED BY <3>1, <3>2, <3>3 DEF NewestKept
  <2>3. ASSUME NEW i \in Workers, DeleteObject(i) PROVE NewestKept'
    <3>1. PICK x \in w[i].todo : files \ {x} \subseteq files'
      BY <1>2, <2>3 DEF DeleteObject
    <3>2. UNCHANGED <<kind, putAt>>
      BY <2>3 DEF DeleteObject
    <3>3. Put' = Put /\ \A y : AlwaysAsked(y)' = AlwaysAsked(y)
      BY <3>2, SamePuts DEF AlwaysAsked
    <3>4. ~AlwaysAsked(x)
      BY <1>2, DeletedIsOld
    <3> QED BY <1>2, <3>1, <3>3, <3>4 DEF NewestKept
  <2> QED
    BY <1>2, <2>1, <2>2, <2>3 DEF Next, vars, Scheduled, Manual, StartRun, RunFails, ListObjects,
       SaveOutcome, ReadSettings, WriteSettings, Tick
<1> QED BY <1>1, <1>2, Invariant, PTL DEF Spec

-----------------------------------------------------------------------------
\* The row of settings

Past(i) == Beyond(w[i].listed, Keep(w[i].cfg.keep))

\* How far a run has come that was alone: it has noted a failure exactly if one of those
\* that it has been through is not known to be gone.
Pruned(i) ==
  \/ w[i].failed /\ w[i].listed = {}
  \/ /\ w[i].listed # {} /\ w[i].todo \subseteq Past(i) /\ w[i].todo \cap w[i].gone = {}
     /\ w[i].failed <=> ~(Past(i) \ w[i].todo \subseteq w[i].gone)

\* Until two of them have overlapped, the one that has the row in hand has it as it is.
Alone ==
  /\ cfg = story
  /\ \A i, j \in Workers : InHand(i) /\ InHand(j) => i = j
  /\ \A i \in Workers : InHand(i) => w[i].cfg = cfg
  /\ \A i \in Workers : w[i].pc = "uploaded" => w[i].stamp \in files /\ w[i].listed \subseteq files
  /\ \A i \in Workers : w[i].pc = "pruning" => Pruned(i)
InOrder == story # Overlap => Alone

LEMMA PrunedSame ==
  ASSUME NEW i, UNCHANGED <<kind, putAt>>, w'[i] = w[i]
  PROVE  Pruned(i)' <=> Pruned(i)
<1>1. \A x, y : Newer(x, y)' <=> Newer(x, y)
  BY DEF Newer
<1>2. Past(i)' = Past(i)
  BY <1>1 DEF Past, Beyond, Keep
<1> QED BY <1>2 DEF Pruned

LEMMA Single ==
  ASSUME Alone, NEW i \in Workers, InHand(i)
  PROVE  w[i].cfg = cfg /\ \A j \in Workers \ {i} : ~InHand(j)
BY DEF Alone

\* A run or a request reads the row.
LEMMA TakesRow ==
  ASSUME InOrder, NEW i \in Workers, Story(i, story), UNCHANGED <<kind, cfg, files>>,
         w'[i].pc \in {"exported", "saving"}, w'[i].cfg = cfg,
         \A j \in Workers \ {i} : w'[j] = w[j]
  PROVE  InOrder'
<1> SUFFICES ASSUME story' # Overlap PROVE Alone'
  BY DEF InOrder
<1>1. story # Overlap /\ story' = story /\ \A j \in Workers \ {i} : ~InHand(j)
  BY DEF Story
<1>2. Alone
  BY <1>1 DEF InOrder
<1>3. \A j \in Workers \ {i} : ~InHand(j)' /\ w'[j].pc \notin {"uploaded", "pruning"}
  BY <1>1 DEF InHand
<1> QED BY <1>1, <1>2, <1>3 DEF Alone

\* A run goes on; it alone has the row in hand.
LEMMA GoesOn ==
  ASSUME InOrder, NEW i \in Workers, InHand(i), UNCHANGED <<cfg, story>>,
         \A j \in Workers \ {i} : w'[j] = w[j],
         w'[i].cfg = w[i].cfg, w'[i].pc \in {"uploaded", "pruning"},
         Alone /\ w'[i].pc = "uploaded" => w'[i].stamp \in files' /\ w'[i].listed \subseteq files',
         Alone /\ w'[i].pc = "pruning" => Pruned(i)'
  PROVE  InOrder'
<1> SUFFICES ASSUME story' # Overlap PROVE Alone'
  BY DEF InOrder
<1>1. Alone
  BY DEF InOrder
<1>2. \A j \in Workers \ {i} : ~InHand(j)' /\ w'[j].pc \notin {"uploaded", "pruning"}
  BY <1>1, Single DEF InHand
<1>3. w'[i].cfg = cfg'
  BY <1>1, Single
<1> QED BY <1>1, <1>2, <1>3 DEF Alone

\* The one that had it in hand is done with it.
LEMMA LeavesRow ==
  ASSUME InOrder, NEW i \in Workers, w'[i] = NoJob, \A j \in Workers \ {i} : w'[j] = w[j],
         UNCHANGED <<kind, files, putAt>>,
         story' # Overlap => story # Overlap /\ cfg' = story',
         story' # Overlap => (UNCHANGED cfg \/ \A j \in Workers \ {i} : ~InHand(j))
  PROVE  InOrder'
<1> SUFFICES ASSUME story' # Overlap PROVE Alone'
  BY DEF InOrder
<1>1. Alone /\ cfg' = story'
  BY DEF InOrder
<1>2. ~InHand(i)' /\ w'[i].pc = "idle" /\ \A j \in Workers \ {i} : InHand(j)' = InHand(j)
  BY DEF InHand, NoJob
<1>3. ASSUME NEW j \in Workers, InHand(j)' PROVE w'[j].cfg = cfg'
  <2>1. j # i /\ InHand(j) /\ UNCHANGED cfg
    BY <1>2, <1>3
  <2> QED BY <1>1, <2>1 DEF Alone
<1>4. \A j \in Workers \ {i} : Pruned(j)' <=> Pruned(j)
  BY PrunedSame
<1> QED BY <1>1, <1>2, <1>3, <1>4 DEF Alone

\* At the end, a run that was alone has failed exactly if it is not sure of one.
LEMMA FailedRightly ==
  ASSUME NEW i \in Workers, w[i] \in Job, w[i].todo = {}, Pruned(i)
  PROVE  w[i].failed = NotPruned(i)
<1>1. w[i].failed \in BOOLEAN
  BY DEF Job
<1> QED BY <1>1 DEF Pruned, NotPruned, Past

LEMMA RowStep == IInv /\ InOrder /\ [Next]_vars => InOrder'
<1> SUFFICES ASSUME IInv, InOrder, [Next]_vars PROVE InOrder'
  OBVIOUS
<1>0. w \in [Workers -> Job] /\ cfg \in Config
  BY DEF IInv, TypeOK
<1>1. CASE UNCHANGED vars \/ Tick
  <2>1. UNCHANGED <<kind, cfg, files, putAt, w, story>>
    BY <1>1 DEF Tick, vars
  <2>2. \A i \in Workers : (Pruned(i)' <=> Pruned(i)) /\ (InHand(i)' <=> InHand(i))
    BY <2>1, PrunedSame DEF InHand
  <2> QED BY <2>1, <2>2 DEF InOrder, Alone
<1>2. ASSUME NEW i \in Workers, Scheduled(i) \/ Manual(i) PROVE InOrder'
  <2>1. UNCHANGED <<kind, cfg, files, putAt, story>>
    BY <1>2 DEF Scheduled, Manual
  <2>2. /\ \A j \in Workers \ {i} : w'[j] = w[j]
        /\ w[i].pc = "idle" /\ w'[i].pc \in {"idle", "due"}
    BY <1>0, <1>2 DEF Scheduled, Manual, Job
  <2>3. \A j \in Workers : /\ InHand(j)' <=> InHand(j)
                           /\ InHand(j) => j # i /\ w'[j] = w[j] /\ (Pruned(j)' <=> Pruned(j))
    BY <2>1, <2>2, PrunedSame DEF InHand
  <2>4. \A j \in Workers : w'[j].pc \in {"uploaded", "pruning"} => InHand(j)'
    BY DEF InHand
  <2> QED BY <2>1, <2>3, <2>4 DEF InOrder, Alone
<1>3. ASSUME NEW i \in Workers, StartRun(i) PROVE InOrder'
  <2>1. w'[i].pc = "exported" /\ w'[i].cfg = cfg /\ \A j \in Workers \ {i} : w'[j] = w[j]
    BY <1>0, <1>3 DEF StartRun, Job
  <2> QED BY <1>3, <2>1, TakesRow DEF StartRun
<1>4. ASSUME NEW i \in Workers, ReadSettings(i) PROVE InOrder'
  <2>1. w'[i].pc = "saving" /\ w'[i].cfg = cfg /\ \A j \in Workers \ {i} : w'[j] = w[j]
    BY <1>0, <1>4 DEF ReadSettings, Job
  <2> QED BY <1>4, <2>1, TakesRow DEF ReadSettings
<1>5. ASSUME NEW i \in Workers, PutObject(i) PROVE InOrder'
  <2>1. /\ w'[i].pc = "uploaded" /\ w'[i].cfg = w[i].cfg /\ w'[i].stamp = w[i].stamp
        /\ w'[i].listed = w[i].listed /\ \A j \in Workers \ {i} : w'[j] = w[j]
    BY <1>0, <1>5 DEF PutObject, Job
  <2>2. w[i].listed = {} /\ w[i].stamp \in files' /\ InHand(i)
    BY <1>5 DEF PutObject, IInv, Lists, InHand
  <2> QED BY <1>5, <2>1, <2>2, GoesOn DEF PutObject
<1>6. ASSUME NEW i \in Workers, ListObjects(i) PROVE InOrder'
  <2>1. PICK L \in SUBSET Put, D \in SUBSET Put, p \in {"uploaded", "pruning"}, fail \in BOOLEAN :
        /\ w' = [w EXCEPT ![i] = Listed(i, p, L, D, fail)]
        /\ D \subseteq L
        /\ ~fail => w[i].listed \subseteq L /\ L \subseteq w[i].listed \cup files
        /\ fail => p = "pruning" /\ L = {}
        /\ p = "uploaded" => D = {}
        /\ p = "pruning" /\ ~fail => D = Beyond(L, Keep(w[i].cfg.keep))
        /\ p = "pruning" /\ ~fail /\ w[i].listed = {} => L = files
    BY <1>6, Listing
  <2>2. /\ w'[i].pc = p /\ w'[i].cfg = w[i].cfg /\ w'[i].stamp = w[i].stamp
        /\ w'[i].listed = L /\ w'[i].todo = D /\ w'[i].failed = fail
        /\ \A j \in Workers \ {i} : w'[j] = w[j]
    BY <1>0, <2>1 DEF Job, Listed
  <2>3. UNCHANGED <<kind, cfg, files, putAt, story>> /\ InHand(i) /\ w[i].pc = "uploaded"
    BY <1>6 DEF ListObjects, InHand
  <2>4. ASSUME Alone PROVE w[i].stamp \in files /\ w[i].listed \subseteq files
    BY <2>3, <2>4 DEF Alone
  <2>5. ASSUME Alone, p = "uploaded" PROVE w'[i].stamp \in files' /\ w'[i].listed \subseteq files'
    BY <2>1, <2>2, <2>3, <2>4, <2>5
  <2>6. ASSUME Alone, p = "pruning" PROVE Pruned(i)'
    <3>1. CASE fail
      BY <2>1, <2>2, <3>1 DEF Pruned
    <3>2. CASE ~fail
      <4>1. Past(i)' = D
        BY <2>1, <2>2, <2>3, <2>6, <3>2 DEF Past, Beyond, Newer, Keep
      <4>2. L # {}
        BY <2>1, <2>4, <2>6, <3>2
      <4>3. w'[i].gone = {}
        BY <1>0, <2>1, <2>3 DEF IInv, Lists, Listed, Job
      <4> QED BY <2>1, <2>2, <3>2, <4>1, <4>2, <4>3 DEF Pruned
    <3> QED BY <3>1, <3>2
  <2> QED BY <2>2, <2>3, <2>5, <2>6, GoesOn
<1>7. ASSUME NEW i \in Workers, DeleteObject(i) PROVE InOrder'
  <2>1. PICK x \in w[i].todo, ok \in BOOLEAN : w' = [w EXCEPT ![i] = Deleted(i, x, ok)]
    BY <1>7, Deleting
  <2>2. /\ w'[i].pc = w[i].pc /\ w'[i].cfg = w[i].cfg /\ w'[i].listed = w[i].listed
        /\ w'[i].todo = w[i].todo \ {x} /\ w'[i].failed = (w[i].failed \/ ~ok)
        /\ w'[i].gone = IF ok THEN w[i].gone \cup {x} ELSE w[i].gone
        /\ \A j \in Workers \ {i} : w'[j] = w[j]
    <3>1. w \in [Workers -> Job]
      BY <1>0
    <3> QED BY <2>1, <3>1, DeletedJob
  <2>3. UNCHANGED <<kind, cfg, putAt, story>> /\ InHand(i) /\ w[i].pc = "pruning"
    BY <1>7 DEF DeleteObject, InHand
  <2>4. ASSUME Alone PROVE Pruned(i)'
    <3>1. Past(i)' = Past(i)
      BY <2>2, <2>3 DEF Past, Beyond, Newer, Keep
    <3>2. Pruned(i) /\ w[i].listed # {}
      <4>1. Pruned(i)
        BY <2>3, <2>4 DEF Alone
      <4>2. w[i].listed # {}
        BY <2>1 DEF IInv, TypeOK
      <4> QED BY <4>1, <4>2
    <3>3. /\ w[i].todo \subseteq Past(i) /\ w[i].todo \cap w[i].gone = {}
          /\ w[i].failed <=> ~(Past(i) \ w[i].todo \subseteq w[i].gone)
      BY <3>2 DEF Pruned
    <3>4. x \in Past(i) /\ x \notin w[i].gone
      BY <2>1, <3>3
    <3>5. w'[i].todo \subseteq Past(i)' /\ w'[i].todo \cap w'[i].gone = {} /\ w'[i].listed # {}
      BY <2>2, <3>1, <3>2, <3>3
    <3>6. Past(i)' \ w'[i].todo = (Past(i) \ w[i].todo) \cup {x}
      BY <2>1, <2>2, <3>1, <3>4
    <3>7. w'[i].failed <=> ~(Past(i)' \ w'[i].todo \subseteq w'[i].gone)
      <4>1. CASE ok
        <5>1. w'[i].gone = w[i].gone \cup {x} /\ w'[i].failed = w[i].failed
          BY <2>2, <4>1, <1>0 DEF Job
        <5>2. x \notin Past(i) \ w[i].todo
          BY <2>1
        <5> QED BY <3>3, <3>6, <5>1, <5>2
      <4>2. CASE ~ok
        <5>1. w'[i].gone = w[i].gone /\ w'[i].failed
          BY <2>2, <4>2
        <5> QED BY <3>4, <3>6, <5>1
      <4> QED BY <4>1, <4>2
    <3> QED BY <3>5, <3>7 DEF Pruned
  <2>5. w'[i].pc = "pruning"
    BY <2>2, <2>3
  <2> QED BY <2>2, <2>3, <2>4, <2>5, GoesOn
<1>8. ASSUME NEW i \in Workers, RunFails(i) PROVE InOrder'
  <2>1. w'[i] = NoJob /\ \A j \in Workers \ {i} : w'[j] = w[j]
    BY <1>0, <1>8 DEF RunFails, Idle
  <2>2. story # Overlap => cfg = story
    BY DEF InOrder, Alone
  <2>3. UNCHANGED <<kind, cfg, files, putAt, story>>
    BY <1>8 DEF RunFails
  <2> QED BY <2>1, <2>2, <2>3, LeavesRow
<1>9. ASSUME NEW i \in Workers, SaveOutcome(i) PROVE InOrder'
  <2>1. w'[i] = NoJob /\ \A j \in Workers \ {i} : w'[j] = w[j]
    BY <1>0, <1>9 DEF SaveOutcome, Idle
  <2>2. UNCHANGED <<kind, files, putAt>> /\ InHand(i) /\ w[i].pc = "pruning" /\ w[i].todo = {}
    BY <1>9 DEF SaveOutcome, InHand
  <2>3. ASSUME story' # Overlap
        PROVE  story # Overlap /\ cfg' = story' /\ \A j \in Workers \ {i} : ~InHand(j)
    <3>1. /\ story # Overlap /\ \A j \in Workers \ {i} : ~InHand(j)
          /\ story' = [story EXCEPT !.last = clock, !.warning = NotPruned(i)]
      BY <1>9, <2>3 DEF SaveOutcome, Story
    <3>2. cfg = story /\ w[i].cfg = cfg /\ Pruned(i)
      BY <2>2, <3>1 DEF InOrder, Alone
    <3>3. w[i].failed = NotPruned(i)
      BY <1>0, <2>2, <3>2, FailedRightly
    <3> QED BY <1>9, <3>1, <3>2, <3>3 DEF SaveOutcome, Outcome
  <2> QED BY <2>1, <2>2, <2>3, LeavesRow
<1>10. ASSUME NEW i \in Workers, WriteSettings(i) PROVE InOrder'
  <2>1. w'[i] = NoJob /\ \A j \in Workers \ {i} : w'[j] = w[j]
    BY <1>0, <1>10 DEF WriteSettings, Idle
  <2>2. UNCHANGED <<kind, files, putAt>> /\ InHand(i)
    BY <1>10 DEF WriteSettings, InHand
  <2>3. ASSUME story' # Overlap
        PROVE  story # Overlap /\ cfg' = story' /\ \A j \in Workers \ {i} : ~InHand(j)
    <3>1. PICK e \in BOOLEAN, k \in Keeps, t \in Times :
            /\ cfg' = [w[i].cfg EXCEPT !.enabled = e, !.keep = k, !.time = t]
            /\ Story(i, [story EXCEPT !.enabled = e, !.keep = k, !.time = t])
      BY <1>10 DEF WriteSettings
    <3>2. /\ story # Overlap /\ \A j \in Workers \ {i} : ~InHand(j)
          /\ story' = [story EXCEPT !.enabled = e, !.keep = k, !.time = t]
      BY <2>3, <3>1 DEF Story
    <3>3. cfg = story /\ w[i].cfg = cfg
      BY <2>2, <3>2 DEF InOrder, Alone
    <3> QED BY <3>1, <3>2, <3>3
  <2> QED BY <2>1, <2>2, <2>3, LeavesRow
<1> QED BY <1>1, <1>2, <1>3, <1>4, <1>5, <1>6, <1>7, <1>8, <1>9, <1>10 DEF Next

\* "last_backup_at", "last_retention_error": as long as no two runs or requests have had the
\* row in hand at once, it says what was chosen last, when the last run succeeded, and
\* whether that run is not sure of a backup that it had to prune.
THEOREM RowStaysTrue == Spec => []RowTrue
<1>1. Init => InOrder
  BY DEF Init, InOrder, Alone, NoJob, InHand
<1>2. IInv /\ InOrder => RowTrue
  BY DEF IInv, InOrder, Alone, RowTrue
<1> QED BY <1>1, <1>2, RowStep, Invariant, PTL DEF Spec

-----------------------------------------------------------------------------
\* The calendar

\* The row has the last day with a backup, if no settings request has put an older row back.
Dated ==
  /\ \A d \in done : d <= Day(clock)
  /\ cfg.last <= clock /\ \A i \in Workers : InHand(i) => w[i].cfg.last <= clock
  /\ saves = 0 => \A i \in Workers : w[i].pc # "saving"
  /\ (saves = 0 \/ story # Overlap) => \A d \in done : cfg.last # Never /\ d <= Day(cfg.last)

\* The schedule is what it was at first, or all days from now on are excused.
Rest == Day(clock)..Day(MaxClock)
AsAtFirst ==
  \/ Rest \subseteq excused
  \/ cfg.enabled /\ \A i \in Workers : InHand(i) => w[i].cfg.enabled /\ w[i].cfg.time = cfg.time

\* The day of the last backup in a row is a day with a backup.
Told ==
  /\ cfg.last # Never => Day(cfg.last) \in done
  /\ \A i \in Workers : InHand(i) /\ w[i].cfg.last # Never => Day(w[i].cfg.last) \in done

\* Once the window of the day has had its cron event, there is a run, or there was one.
WindowEnd == WindowStart(cfg.time) + SlotLen
HadWindow == Minute(clock) >= WindowEnd \/ (InWindow(cfg.time, clock) /\ Slot(clock) \in fired)
Today == Day(clock) \notin done \cup excused /\ HadWindow => \E i \in Workers : w[i].cron

Calendar == (\A s \in fired : s <= Slot(clock)) /\ Dated /\ AsAtFirst /\ Told /\ Today /\ DailyBackup

\* Multiplication by a positive number.
LEMMA TimesMonotone ==
  ASSUME NEW d \in Nat \ {0}, NEW m \in Int, NEW n \in Int, m <= n
  PROVE  d * m <= d * n
<1>1. n - m \in Nat
  OBVIOUS
<1>2. d * (n - m) >= 0
  BY <1>1
<1>3. d * (n - m) = d * n - d * m
  OBVIOUS
<1> QED BY <1>2, <1>3

\* A multiple of d begins a new interval of length d.
LEMMA MultipleBegins ==
  ASSUME NEW a \in Nat, NEW d \in Nat \ {0}, NEW m \in Int, a + 1 = d * m
  PROVE  (a + 1) \div d # a \div d
<1> DEFINE q == a \div d
           r == (a + 1) \div d
<1>1. q \in Nat /\ d * q <= a /\ a < d * q + d
  OBVIOUS
<1>2. r \in Nat /\ d * r <= a + 1 /\ a + 1 < d * r + d
  OBVIOUS
<1>3. SUFFICES ASSUME q = r PROVE FALSE
  OBVIOUS
<1> HIDE DEF q, r
<1>4. CASE m <= q
  <2>1. d * m <= d * q
    BY <1>1, <1>4, TimesMonotone
  <2> QED BY <1>1, <2>1
<1>5. CASE m >= q + 1
  <2>1. d * (q + 1) <= d * m
    BY <1>1, <1>5, TimesMonotone
  <2>2. d * (q + 1) = d * q + d
    BY <1>1
  <2> QED BY <1>1, <1>2, <1>3, <2>1, <2>2
<1> QED BY <1>1, <1>4, <1>5

\* Division with a remainder is unique.
LEMMA DivUnique ==
  ASSUME NEW a \in Nat, NEW d \in Nat \ {0}, NEW q \in Int, NEW r \in 0..d-1, a = d * q + r
  PROVE  a \div d = q /\ a % d = r
<1> DEFINE p == a \div d
           s == a % d
<1>1. p \in Nat /\ s \in 0..d-1 /\ a = d * p + s
  OBVIOUS
<1> HIDE DEF p, s
<1>2. ~(p + 1 <= q)
  <2>1. SUFFICES ASSUME p + 1 <= q PROVE FALSE
    OBVIOUS
  <2>2. d * (p + 1) <= d * q
    BY <1>1, <2>1, TimesMonotone
  <2>3. d * (p + 1) = d * p + d
    BY <1>1
  <2> QED BY <1>1, <2>2, <2>3
<1>3. ~(q + 1 <= p)
  <2>1. SUFFICES ASSUME q + 1 <= p PROVE FALSE
    OBVIOUS
  <2>2. d * (q + 1) <= d * p
    BY <1>1, <2>1, TimesMonotone
  <2>3. d * (q + 1) = d * q + d
    BY <1>1
  <2> QED BY <1>1, <2>2, <2>3
<1>4. p = q
  BY <1>1, <1>2, <1>3
<1>5. s = r
  BY <1>1, <1>4
<1> QED BY <1>4, <1>5 DEF p, s

LEMMA DivMod ==
  ASSUME NEW a \in Nat, NEW d \in Nat \ {0}
  PROVE  \E q \in Nat, r \in 0..d-1 : a \div d = q /\ a % d = r /\ a = d * q + r
<1> DEFINE p == a \div d
           s == a % d
<1>1. p \in Nat /\ s \in 0..d-1 /\ a = d * p + s
  OBVIOUS
<1>2. a \div d = p /\ a % d = s
  OBVIOUS
<1> HIDE DEF p, s
<1> QED BY <1>1, <1>2

\* The next minute is one of the same day, or the first of the next.
LEMMA NextMinute ==
  ASSUME NEW c \in Nat
  PROVE  /\ Minute(c) \in 0..DayLen-1 /\ Day(c) \in Nat
         /\ \/ Day(c + 1) = Day(c) /\ Minute(c + 1) = Minute(c) + 1
            \/ Day(c + 1) = Day(c) + 1 /\ Minute(c + 1) = 0 /\ Minute(c) = DayLen - 1
<1>1. c + Offset \in Nat /\ DayLen \in Nat \ {0} /\ c + 1 + Offset = (c + Offset) + 1
  BY ClockAssumption
<1>2. Minute(c) \in 0..DayLen-1 /\ Day(c) \in Nat /\ c + Offset = DayLen * Day(c) + Minute(c)
  <2> DEFINE x == c + Offset
  <2>1. PICK q \in Nat, r \in 0..DayLen-1 : x \div DayLen = q /\ x % DayLen = r /\ x = DayLen * q + r
    <3>1. x \in Nat
      BY <1>1
    <3> HIDE DEF x
    <3> QED BY <1>1, <3>1, DivMod
  <2>2. Minute(c) = r /\ Day(c) = q
    BY <2>1 DEF Minute, Day
  <2> QED BY <2>1, <2>2
<1>3. CASE Minute(c) + 1 \in 0..DayLen-1
  <2>1. c + 1 + Offset = DayLen * Day(c) + (Minute(c) + 1)
    <3> HIDE DEF Minute, Day
    <3> QED BY <1>1, <1>2
  <2>2. Day(c + 1) = Day(c) /\ Minute(c + 1) = Minute(c) + 1
    <3> DEFINE a == c + 1 + Offset
               q == Day(c)
               r == Minute(c) + 1
    <3>1. a \in Nat /\ q \in Int /\ r \in 0..DayLen-1 /\ a = DayLen * q + r
      BY <1>1, <1>2, <1>3, <2>1
    <3> HIDE DEF a, q, r
    <3>2. a \div DayLen = q /\ a % DayLen = r
      BY <1>1, <3>1, DivUnique
    <3> QED BY <3>2 DEF a, q, r, Day, Minute
  <2> QED BY <1>2, <2>2
<1>4. CASE Minute(c) = DayLen - 1
  <2>1. c + 1 + Offset = DayLen * (Day(c) + 1) + 0
    <3>1. DayLen * (Day(c) + 1) = DayLen * Day(c) + DayLen
      <4> HIDE DEF Day
      <4> QED BY <1>1, <1>2
    <3> HIDE DEF Minute, Day
    <3> QED BY <1>1, <1>2, <1>4, <3>1
  <2>2. Day(c + 1) = Day(c) + 1 /\ Minute(c + 1) = 0
    <3> DEFINE a == c + 1 + Offset
               q == Day(c) + 1
    <3>1. a \in Nat /\ q \in Int /\ 0 \in 0..DayLen-1 /\ a = DayLen * q + 0
      BY <1>1, <1>2, <2>1
    <3> HIDE DEF a, q
    <3>2. a \div DayLen = q /\ a % DayLen = 0
      BY <1>1, <3>1, DivUnique
    <3> QED BY <3>2 DEF a, q, Day, Minute
  <2> QED BY <1>2, <1>4, <2>2
<1>5. Minute(c) + 1 \in 0..DayLen-1 \/ Minute(c) = DayLen - 1
  <2> DEFINE m == Minute(c)
  <2>1. m \in 0..DayLen-1
    BY <1>2
  <2> HIDE DEF m
  <2>2. m + 1 \in 0..DayLen-1 \/ m = DayLen - 1
    BY <1>1, <2>1
  <2> QED BY <2>2 DEF m
<1> QED BY <1>3, <1>4, <1>5

\* A minute of the day that is a multiple of the slot begins a slot, and so does a day.
LEMMA SlotBegins ==
  ASSUME NEW c \in Nat, NEW m \in Int, Minute(c + 1) = SlotLen * m
  PROVE  Slot(c + 1) # Slot(c)
<1>1. SlotLen \in Nat \ {0} /\ DayLen \in Nat \ {0} /\ Offset \in Nat
  BY ClockAssumption
<1> DEFINE k == DayLen \div SlotLen
           o == Offset \div SlotLen
           q == Day(c + 1)
<1>2. k \in Int /\ DayLen = SlotLen * k /\ o \in Int /\ Offset = SlotLen * o
  BY <1>1, ClockAssumption
<1>3. q \in Int /\ c + 1 + Offset = DayLen * q + SlotLen * m
  BY <1>1 DEF Day, Minute
<1> HIDE DEF k, o, q
<1>4. DayLen * q = SlotLen * (k * q)
  BY <1>1, <1>2, <1>3
<1>5. c + 1 = SlotLen * (k * q + m - o)
  <2>1. SlotLen * (k * q + m - o) = SlotLen * (k * q) + SlotLen * m - SlotLen * o
    BY <1>1, <1>2, <1>3
  <2> QED BY <1>1, <1>2, <1>3, <1>4, <2>1
<1>6. k * q + m - o \in Int
  BY <1>2, <1>3
<1> QED BY <1>1, <1>5, <1>6, MultipleBegins DEF Slot

\* The window is a slot of the day.
LEMMA WindowInDay ==
  ASSUME NEW t \in Times
  PROVE  /\ WindowStart(t) \in Nat /\ WindowStart(t) + SlotLen <= DayLen
         /\ \E m \in Int : WindowStart(t) = SlotLen * m /\ WindowStart(t) + SlotLen = SlotLen * (m + 1)
<1>1. SlotLen \in Nat \ {0} /\ DayLen \in Nat \ {0} /\ t \in 0..DayLen-1
  BY ClockAssumption, KeepsAssumption
<1> DEFINE m == t \div SlotLen
           k == DayLen \div SlotLen
<1>2. m \in Nat /\ SlotLen * m <= t /\ WindowStart(t) = SlotLen * m
  <2>1. m \in Nat /\ SlotLen * m <= t
    BY <1>1
  <2>2. WindowStart(t) = m * SlotLen
    BY DEF WindowStart
  <2> HIDE DEF m
  <2> QED BY <1>1, <2>1, <2>2
<1>3. k \in Int /\ DayLen = SlotLen * k
  BY <1>1, ClockAssumption
<1> HIDE DEF m, k
<1>4. SlotLen * (m + 1) = SlotLen * m + SlotLen
  BY <1>1, <1>2
<1>5. m + 1 <= k
  <2>1. SUFFICES ASSUME k <= m PROVE FALSE
    BY <1>2, <1>3
  <2>2. SlotLen * k <= SlotLen * m
    BY <1>1, <1>2, <1>3, <2>1, TimesMonotone
  <2> QED BY <1>1, <1>2, <1>3, <2>2
<1>6. SlotLen * (m + 1) <= SlotLen * k
  BY <1>1, <1>2, <1>3, <1>5, TimesMonotone
<1>7. SlotLen * m \in Nat
  BY <1>1, <1>2
<1> QED BY <1>1, <1>2, <1>3, <1>4, <1>6, <1>7

\* What a step of a run or a request does to the row, the days and the rows in hand.
FreshOrSame == \A j \in Workers : InHand(j)' => (InHand(j) /\ w'[j].cfg = w[j].cfg) \/ w'[j].cfg = cfg
StartsOnlyDue == \A j \in Workers : ~w[j].cron /\ w'[j].cron => Scheduled(j)
EndsWithDay == \A j \in Workers : w[j].cron => w'[j].cron \/ Day(clock) \in done' \cup excused'
SavesCount ==
  saves' >= saves /\ \A j \in Workers : w'[j].pc = "saving" => w[j].pc = "saving" \/ saves' > 0
KeepsRow == cfg' = cfg /\ done' = done
EndsRun ==
  /\ done' = done \cup {Day(clock)} /\ cfg'.last = clock
  /\ \E i \in Workers : InHand(i) /\ cfg'.enabled = w[i].cfg.enabled /\ cfg'.time = w[i].cfg.time
ChangesRow ==
  /\ done' = done /\ Rest \subseteq excused' /\ cfg' \in Config
  /\ \E i \in Workers : /\ w[i].pc = "saving" /\ cfg'.last = w[i].cfg.last
                        /\ story' # Overlap => w[i].cfg = cfg

LEMMA Frame ==
  ASSUME IInv, InOrder, NEW i \in Workers,
         \/ Scheduled(i) \/ Manual(i) \/ StartRun(i) \/ PutObject(i) \/ RunFails(i)
         \/ ListObjects(i) \/ DeleteObject(i) \/ SaveOutcome(i)
         \/ ReadSettings(i) \/ WriteSettings(i)
  PROVE  /\ clock' = clock /\ excused \subseteq excused'
         /\ fired' = fired \/ (Scheduled(i) /\ fired' = fired \cup {Slot(clock)})
         /\ story' # Overlap => story # Overlap
         /\ FreshOrSame /\ StartsOnlyDue /\ EndsWithDay /\ SavesCount
         /\ KeepsRow \/ EndsRun \/ ChangesRow
<1>0. w \in [Workers -> Job] /\ cfg \in Config /\ saves \in Nat /\ clock \in 0..MaxClock
      /\ Day(clock) \in 0..Day(MaxClock)
  BY ClockBound, ModeAssumption DEF IInv, TypeOK
<1>1. clock' = clock /\ excused \subseteq excused'
      /\ (fired' = fired \/ (Scheduled(i) /\ fired' = fired \cup {Slot(clock)}))
  BY DEF Scheduled, Manual, StartRun, PutObject, RunFails, ListObjects, DeleteObject, SaveOutcome,
         ReadSettings, WriteSettings, Excuse
<1>2. story' # Overlap => story # Overlap
  BY DEF Scheduled, Manual, StartRun, PutObject, RunFails, ListObjects, DeleteObject, SaveOutcome,
         ReadSettings, WriteSettings, Story
<1>3. CASE Scheduled(i) \/ Manual(i)
  <2>1. /\ w[i].pc = "idle" /\ w'[i].pc \in {"idle", "due"} /\ (w[i].cron => w'[i].cron)
        /\ ~w[i].cron /\ w'[i].cron => Scheduled(i)
        /\ \A j \in Workers \ {i} : w'[j] = w[j]
    BY <1>0, <1>3 DEF Scheduled, Manual, Job
  <2>2. KeepsRow /\ saves' = saves
    BY <1>3 DEF Scheduled, Manual, KeepsRow
  <2>3. FreshOrSame /\ StartsOnlyDue /\ EndsWithDay /\ SavesCount
    BY <1>0, <2>1, <2>2 DEF FreshOrSame, StartsOnlyDue, EndsWithDay, SavesCount, InHand
  <2> QED BY <1>1, <1>2, <2>2, <2>3
<1>4. CASE StartRun(i) \/ ReadSettings(i)
  <2>1. /\ w'[i].cfg = cfg /\ w'[i].cron = w[i].cron
        /\ \A j \in Workers \ {i} : w'[j] = w[j]
    BY <1>0, <1>4 DEF StartRun, ReadSettings, Job
  <2>2. KeepsRow /\ saves' >= saves /\ (w'[i].pc = "saving" => saves' > 0)
    BY <1>0, <1>4 DEF StartRun, ReadSettings, KeepsRow, Job
  <2>3. FreshOrSame /\ StartsOnlyDue /\ EndsWithDay /\ SavesCount
    BY <1>0, <2>1, <2>2 DEF FreshOrSame, StartsOnlyDue, EndsWithDay, SavesCount, InHand
  <2> QED BY <1>1, <1>2, <2>2, <2>3
<1>5. CASE PutObject(i) \/ ListObjects(i) \/ DeleteObject(i)
  <2>1. /\ InHand(i) /\ w'[i].cfg = w[i].cfg /\ w'[i].cron = w[i].cron /\ w'[i].pc # "saving"
        /\ \A j \in Workers \ {i} : w'[j] = w[j]
    <3>1. CASE PutObject(i)
      BY <1>0, <3>1 DEF PutObject, Job, InHand
    <3>3. CASE DeleteObject(i)
      <4>1. PICK x \in w[i].todo, ok \in BOOLEAN : w' = [w EXCEPT ![i] = Deleted(i, x, ok)]
        BY <3>3, Deleting
      <4>2. InHand(i) /\ \A j \in Workers \ {i} : w'[j] = w[j]
        BY <1>0, <3>3, <4>1 DEF DeleteObject, InHand
      <4>3. w \in [Workers -> Job] /\ w[i].pc = "pruning"
        BY <1>0, <3>3 DEF DeleteObject
      <4>4. w'[i].pc = w[i].pc /\ w'[i].cfg = w[i].cfg /\ w'[i].cron = w[i].cron
        BY <4>1, <4>3, DeletedJob
      <4> QED BY <4>2, <4>3, <4>4
    <3>2. CASE ListObjects(i)
      <4>1. PICK L \in SUBSET Put, D \in SUBSET Put, p \in {"uploaded", "pruning"}, fail \in BOOLEAN :
              w' = [w EXCEPT ![i] = Listed(i, p, L, D, fail)]
        BY <3>2, Listing
      <4>2. InHand(i) /\ \A j \in Workers \ {i} : w'[j] = w[j]
        BY <1>0, <3>2, <4>1 DEF ListObjects, InHand
      <4>3. w'[i].pc = p /\ w'[i].cfg = w[i].cfg /\ w'[i].cron = w[i].cron
        BY <1>0, <4>1 DEF Listed, Job
      <4> QED BY <4>2, <4>3
    <3> QED BY <1>5, <3>1, <3>2, <3>3
  <2>2. KeepsRow /\ saves' = saves
    BY <1>5 DEF PutObject, ListObjects, DeleteObject, KeepsRow
  <2>3. FreshOrSame /\ StartsOnlyDue /\ EndsWithDay /\ SavesCount
    BY <1>0, <2>1, <2>2 DEF FreshOrSame, StartsOnlyDue, EndsWithDay, SavesCount, InHand
  <2> QED BY <1>1, <1>2, <2>2, <2>3
<1>6. CASE RunFails(i) \/ SaveOutcome(i) \/ WriteSettings(i)
  <2>1. w'[i] = NoJob /\ saves' = saves /\ \A j \in Workers \ {i} : w'[j] = w[j]
    BY <1>0, <1>6 DEF RunFails, SaveOutcome, WriteSettings, Idle
  <2>2. FreshOrSame /\ StartsOnlyDue /\ SavesCount
    BY <1>0, <2>1 DEF FreshOrSame, StartsOnlyDue, SavesCount, InHand, NoJob
  <2>3. CASE RunFails(i)
    <3>1. KeepsRow /\ (w[i].cron => Day(clock) \in excused')
      BY <2>3 DEF RunFails, Excuse, KeepsRow
    <3> QED BY <1>1, <1>2, <2>1, <2>2, <3>1 DEF EndsWithDay
  <2>4. CASE SaveOutcome(i)
    <3>1. w[i].cfg \in Config /\ InHand(i)
      BY <2>4 DEF SaveOutcome, InHand, IInv, Rows
    <3>2. cfg'.last = clock /\ cfg'.enabled = w[i].cfg.enabled /\ cfg'.time = w[i].cfg.time
      BY <2>4, <3>1 DEF SaveOutcome, Outcome, Config
    <3>3. EndsRun
      BY <2>4, <3>1, <3>2 DEF SaveOutcome, EndsRun
    <3> QED BY <1>1, <1>2, <2>1, <2>2, <3>3 DEF EndsWithDay, EndsRun
  <2>5. CASE WriteSettings(i)
    <3>1. w[i].cfg \in Config /\ InHand(i) /\ w[i].pc = "saving"
      BY <2>5 DEF WriteSettings, InHand, IInv, Rows
    <3>2. cfg'.last = w[i].cfg.last
      BY <2>5, <3>1 DEF WriteSettings, Config
    <3>3. cfg' \in Config
      BY StepKeeps, <2>5 DEF Next, IInv, TypeOK
    <3>4. story' # Overlap => w[i].cfg = cfg
      BY <1>2, <3>1 DEF InOrder, Alone
    <3>5. Rest \subseteq excused' /\ Day(clock) \in Rest /\ done' = done
      <4>1. Rest \subseteq excused' /\ done' = done
        BY <2>5 DEF WriteSettings, Rest
      <4> DEFINE d == Day(clock)
                 e == Day(MaxClock)
      <4>2. d \in 0..e
        BY <1>0
      <4> HIDE DEF d, e
      <4>3. d \in d..e
        BY <4>2
      <4> QED BY <4>1, <4>3 DEF d, e, Rest
    <3>6. ChangesRow
      BY <3>1, <3>2, <3>3, <3>4, <3>5 DEF ChangesRow
    <3> QED BY <1>1, <1>2, <2>1, <2>2, <3>5, <3>6 DEF EndsWithDay
  <2> QED BY <1>6, <2>3, <2>4, <2>5
<1> QED BY <1>3, <1>4, <1>5, <1>6

\* A row's day is not later than today.
LEMMA DayOf ==
  ASSUME IInv, Dated, NEW c \in Config, c.last # Never, c.last <= clock
  PROVE  Day(c.last) \in Nat /\ Day(clock) \in Nat /\ Day(c.last) <= Day(clock)
<1>1. c.last \in Nat /\ clock \in Nat /\ Offset \in Nat /\ DayLen \in Nat \ {0}
  BY ClockAssumption DEF Config, Never, IInv, TypeOK
<1>2. c.last + Offset \in Nat /\ clock + Offset \in Nat /\ c.last + Offset <= clock + Offset
  BY <1>1
<1> QED BY <1>1, <1>2, DivMonotone DEF Day

\* The cron starts no run on a day that has a backup.
LEMMA NoSecond ==
  ASSUME IInv, Dated, NEW i \in Workers, ~w[i].cron, w'[i].cron, Scheduled(i),
         saves = 0 \/ story # Overlap
  PROVE  Day(clock) \notin done
<1>1. ShouldRunBackup(cfg, clock)
  BY DEF Scheduled
<1>2. SUFFICES ASSUME Day(clock) \in done PROVE FALSE
  OBVIOUS
<1>3. cfg.last # Never /\ Day(clock) <= Day(cfg.last) /\ cfg.last <= clock /\ cfg \in Config
  BY <1>2 DEF Dated, IInv, TypeOK
<1>4. Day(cfg.last) \in Nat /\ Day(clock) \in Nat /\ Day(cfg.last) <= Day(clock)
  BY <1>3, DayOf
<1>5. Day(cfg.last) # Day(clock)
  BY <1>1, <1>3 DEF ShouldRunBackup, SameDay
<1> DEFINE d == Day(cfg.last)
           e == Day(clock)
<1> HIDE DEF d, e
<1>6. d \in Nat /\ e \in Nat /\ d <= e /\ e <= d /\ d # e
  BY <1>3, <1>4, <1>5 DEF d, e
<1> QED BY <1>6

LEMMA DatedStep ==
  ASSUME IInv, InOrder, Dated, clock' = clock, FreshOrSame, SavesCount,
         saves' \in Nat, story' # Overlap => story # Overlap, KeepsRow \/ EndsRun \/ ChangesRow
  PROVE  Dated'
<1>1. clock \in Nat /\ cfg \in Config /\ saves \in Nat /\ w \in [Workers -> Job]
  BY ModeAssumption DEF IInv, TypeOK
<1>2. saves' = 0 => saves = 0
  BY <1>1, ModeAssumption DEF SavesCount
<1>3. \A i \in Workers : InHand(i)' => w'[i].cfg.last <= clock'
  BY DEF FreshOrSame, Dated
<1>4. saves' = 0 => \A i \in Workers : w'[i].pc # "saving"
  BY <1>2 DEF SavesCount, Dated
<1>5. CASE KeepsRow
  BY <1>2, <1>3, <1>4, <1>5 DEF KeepsRow, Dated
<1>6. CASE EndsRun
  <2>1. cfg'.last = clock /\ done' = done \cup {Day(clock)}
    BY <1>6 DEF EndsRun
  <2>2. \A d \in done' : d <= Day(clock)
    <3>1. Day(clock) \in Int
      BY ClockBound DEF IInv, TypeOK
    <3>2. Day(clock) <= Day(clock)
      BY <3>1
    <3> QED BY <2>1, <3>2 DEF Dated
  <2>3. cfg'.last <= clock' /\ cfg'.last # Never /\ Day(clock)' = Day(clock) /\ Day(cfg.last)' = Day(clock)
    BY <1>1, <2>1 DEF Never, Day
  <2> QED BY <1>3, <1>4, <2>2, <2>3 DEF Dated
<1>7. CASE ChangesRow
  <2>1. PICK i \in Workers : /\ w[i].pc = "saving" /\ cfg'.last = w[i].cfg.last
                             /\ story' # Overlap => w[i].cfg = cfg
    BY <1>7 DEF ChangesRow
  <2>2. cfg'.last <= clock' /\ saves # 0
    BY <2>1 DEF Dated, InHand
  <2>3. ASSUME saves' = 0 \/ story' # Overlap
        PROVE  \A d \in done : cfg'.last # Never /\ d <= Day(cfg'.last)
    BY <1>2, <2>1, <2>2, <2>3 DEF Dated
  <2>4. Day(clock)' = Day(clock) /\ Day(cfg.last)' = Day(cfg'.last) /\ done' = done
    BY <1>7 DEF ChangesRow, Day
  <2> QED BY <1>3, <1>4, <2>2, <2>3, <2>4 DEF Dated
<1> QED BY <1>5, <1>6, <1>7


\* The schedule stays as it was, or the rest of the days is excused.
LEMMA AsAtFirstStep ==
  ASSUME IInv, AsAtFirst, clock' = clock, excused \subseteq excused', FreshOrSame,
         KeepsRow \/ EndsRun \/ ChangesRow
  PROVE  AsAtFirst'
<1>1. Rest' = Rest
  BY DEF Rest, Day
<1>2. CASE Rest \subseteq excused \/ ChangesRow
  BY <1>1, <1>2 DEF AsAtFirst, ChangesRow
<1>3. CASE /\ cfg.enabled /\ \A i \in Workers : InHand(i) => w[i].cfg.enabled /\ w[i].cfg.time = cfg.time
           /\ KeepsRow \/ EndsRun
  <2>1. cfg'.enabled /\ cfg'.time = cfg.time
    BY <1>3 DEF KeepsRow, EndsRun
  <2>2. \A i \in Workers : InHand(i)' => w'[i].cfg.enabled /\ w'[i].cfg.time = cfg'.time
    BY <1>3, <2>1 DEF FreshOrSame
  <2> QED BY <2>1, <2>2 DEF AsAtFirst
<1> QED BY <1>2, <1>3 DEF AsAtFirst

LEMMA ToldStep ==
  ASSUME IInv, InOrder, Told, clock' = clock, FreshOrSame, KeepsRow \/ EndsRun \/ ChangesRow
  PROVE  Told'
<1>1. done \subseteq done'
  BY DEF KeepsRow, EndsRun, ChangesRow
<1>2. \A c : Day(c)' = Day(c')
  BY DEF Day
<1>3. \A i \in Workers : InHand(i)' /\ w'[i].cfg.last # Never => Day(w'[i].cfg.last) \in done'
  BY <1>1 DEF FreshOrSame, Told
<1>4. cfg'.last # Never => Day(cfg'.last) \in done'
  BY <1>1 DEF KeepsRow, EndsRun, ChangesRow, Told, InHand
<1> QED BY <1>2, <1>3, <1>4 DEF Told

\* The cron event of the window starts a run, and that run ends with the day excused or done.
LEMMA TodayStep ==
  ASSUME IInv, AsAtFirst, Told, Today, NEW i \in Workers,
         clock' = clock, excused \subseteq excused', EndsWithDay, StartsOnlyDue,
         fired' = fired \/ (Scheduled(i) /\ fired' = fired \cup {Slot(clock)}),
         KeepsRow \/ EndsRun \/ ChangesRow
  PROVE  Today'
<1>1. SUFFICES ASSUME Day(clock) \notin done' \cup excused', HadWindow' PROVE \E j \in Workers : w'[j].cron
  BY DEF Today, Day
<1>2. Day(clock) \in Rest
  <2> DEFINE d == Day(clock)
             e == Day(MaxClock)
  <2>1. d \in 0..e
    BY ClockBound DEF IInv, TypeOK
  <2> HIDE DEF d, e
  <2>2. d \in d..e
    BY <2>1
  <2> QED BY <2>2 DEF d, e, Rest
<1>3. KeepsRow /\ Day(clock) \notin done \cup excused
  BY <1>1, <1>2 DEF EndsRun, ChangesRow, KeepsRow
<1>4. CASE HadWindow
  <2>1. PICK j \in Workers : w[j].cron
    BY <1>3, <1>4 DEF Today
  <2> QED BY <1>1, <2>1 DEF EndsWithDay
<1>5. CASE ~HadWindow
  <2>1. Scheduled(i) /\ InWindow(cfg.time, clock)
    BY <1>1, <1>3, <1>5 DEF HadWindow, KeepsRow, Minute, WindowEnd, WindowStart, InWindow, Slot
  <2>2. cfg.enabled
    BY <1>2, <1>3 DEF AsAtFirst
  <2>3. ShouldRunBackup(cfg, clock)
    BY <1>3, <2>1 DEF ShouldRunBackup, SameDay, Told
  <2>4. w'[i].cron
    BY <2>1, <2>2, <2>3 DEF Scheduled, IInv, TypeOK, Job
  <2> QED BY <2>4
<1> QED BY <1>4, <1>5

\* A minute passes: no day ends before its window has had its cron event.
LEMMA TickStep ==
  ASSUME IInv, Calendar, Tick
  PROVE  Calendar'
<1> DEFINE c == clock
<1>0. c \in Nat /\ MaxClock \in Nat /\ c + 1 \in 0..MaxClock /\ clock' = c + 1
  BY ClockAssumption DEF Tick, IInv, TypeOK
<1>1. UNCHANGED <<cfg, w, fired, done, saves, story>> /\ cfg \in Config /\ cfg.time \in Times
  BY DEF Tick, IInv, TypeOK, Config
<1>2. excused \subseteq excused' /\ (Slot(c + 1) # Slot(c) => Slot(c) \in fired)
  BY <1>0 DEF Tick
<1>3. /\ Minute(c) \in 0..DayLen-1 /\ Day(c) \in Nat
      /\ \/ Day(c + 1) = Day(c) /\ Minute(c + 1) = Minute(c) + 1
         \/ Day(c + 1) = Day(c) + 1 /\ Minute(c + 1) = 0 /\ Minute(c) = DayLen - 1
  BY <1>0, NextMinute
<1>4. Slot(c) \in Nat /\ Slot(c + 1) \in Nat /\ Slot(c) <= Slot(c + 1)
  BY <1>0, ClockAssumption, DivMonotone DEF Slot
<1>5. Day(c + 1) \in Nat /\ Day(c) <= Day(c + 1)
  <2> DEFINE d == Day(c)
             e == Day(c + 1)
  <2>1. d \in Nat /\ (e = d \/ e = d + 1)
    BY <1>3
  <2> HIDE DEF d, e
  <2>2. e \in Nat /\ d <= e
    BY <2>1
  <2> QED BY <2>2 DEF d, e
<1>6. /\ WindowStart(cfg.time) \in Nat /\ WindowEnd <= DayLen
      /\ \E m \in Int : WindowStart(cfg.time) = SlotLen * m /\ WindowEnd = SlotLen * (m + 1)
  BY <1>1, WindowInDay DEF WindowEnd
<1>7. Slot(clock)' = Slot(c + 1) /\ Day(clock)' = Day(c + 1) /\ WindowEnd' = WindowEnd
      /\ InWindow(cfg.time, clock)' = InWindow(cfg.time, c + 1) /\ Minute(clock)' = Minute(c + 1)
  BY <1>0, <1>1 DEF Slot, Day, WindowEnd, WindowStart, InWindow, Minute
<1>8. \A s \in fired : s \in Int /\ s <= Slot(c)
  <2>1. \A s \in fired : s \in Int
    BY DEF IInv, TypeOK
  <2> QED BY <2>1 DEF Calendar
<1>9. \A s \in fired' : s <= Slot(clock)'
  <2> DEFINE p == Slot(c)
             q == Slot(c + 1)
  <2>1. p \in Nat /\ q \in Nat /\ p <= q /\ \A s \in fired : s \in Int /\ s <= p
    BY <1>4, <1>8
  <2> HIDE DEF p, q
  <2>2. \A s \in fired : s <= q
    BY <2>1
  <2> QED BY <1>1, <1>7, <2>2 DEF q
<1>10. Dated'
  <2>1. \A d \in done : d \in Int /\ d <= Day(c)
    <3>1. \A d \in done : d \in Int
      BY DEF IInv, TypeOK
    <3> QED BY <3>1 DEF Calendar, Dated
  <2>2. \A d \in done : d <= Day(c + 1)
    <3> DEFINE p == Day(c)
               q == Day(c + 1)
    <3>1. p \in Nat /\ q \in Nat /\ p <= q /\ \A d \in done : d \in Int /\ d <= p
      BY <1>3, <1>5, <2>1
    <3> HIDE DEF p, q
    <3>2. \A d \in done : d <= q
      BY <3>1
    <3> QED BY <3>2 DEF q
  <2>3. cfg.last <= c + 1 /\ \A i \in Workers : InHand(i) => w[i].cfg.last <= c + 1
    <3>1. cfg.last \in Int /\ \A i \in Workers : InHand(i) => w[i].cfg.last \in Int
      BY DEF IInv, TypeOK, Rows, Config, Never
    <3> QED BY <1>0, <3>1 DEF Calendar, Dated
  <2>4. \A i \in Workers : InHand(i)' <=> InHand(i)
    BY <1>1 DEF InHand
  <2>5. Day(cfg.last)' = Day(cfg.last)
    BY <1>1 DEF Day
  <2> QED BY <1>0, <1>1, <1>7, <2>2, <2>3, <2>4, <2>5 DEF Calendar, Dated
<1>11. AsAtFirst'
  <2>1. Rest' \subseteq Rest
    <3> DEFINE p == Day(c)
               q == Day(c + 1)
               e == Day(MaxClock)
    <3>1. p \in Nat /\ q \in Nat /\ p <= q
      BY <1>3, <1>5
    <3> HIDE DEF p, q, e
    <3>2. q..e \subseteq p..e
      BY <3>1
    <3>3. Rest = p..e /\ Rest' = q..e
      BY <1>7 DEF p, q, e, Rest, Day
    <3> QED BY <3>2, <3>3
  <2> QED BY <1>1, <1>2, <2>1 DEF Calendar, AsAtFirst, InHand
<1>12. Told'
  BY <1>1 DEF Calendar, Told, InHand, Day
<1>13. ASSUME Day(c) \notin done \cup excused, Minute(c) >= WindowStart(cfg.time), Slot(c) \in fired
       PROVE  \E i \in Workers : w[i].cron
  <2>1. Minute(c) >= WindowEnd \/ InWindow(cfg.time, c)
    <3> DEFINE m == Minute(c)
               e == WindowEnd
    <3>1. m \in Int /\ e \in Int
      BY <1>3, <1>6, ClockAssumption DEF WindowEnd
    <3> HIDE DEF m, e
    <3>2. m >= e \/ m < e
      BY <3>1
    <3> QED BY <1>13, <3>2 DEF m, e, InWindow, WindowEnd
  <2>2. HadWindow
    BY <1>13, <2>1 DEF HadWindow
  <2> QED BY <1>13, <2>2 DEF Calendar, Today
<1>14. CASE Day(c + 1) = Day(c) /\ Minute(c + 1) = Minute(c) + 1
  <2>1. Today'
    <3>1. SUFFICES ASSUME Day(c) \notin done \cup excused, HadWindow' PROVE \E i \in Workers : w[i].cron
      BY <1>1, <1>2, <1>7, <1>14 DEF Today
    <3>2. Minute(c + 1) >= WindowEnd \/ (InWindow(cfg.time, c + 1) /\ Slot(c + 1) \in fired)
      BY <1>1, <1>7, <3>1 DEF HadWindow
    <3>3. (Minute(c) >= WindowStart(cfg.time) /\ Slot(c) \in fired)
          \/ Minute(c) >= WindowEnd
      <4> DEFINE m == Minute(c)
                 n == Minute(c + 1)
                 a == WindowStart(cfg.time)
                 e == WindowEnd
                 p == Slot(c)
                 q == Slot(c + 1)
      <4>1. /\ m \in Nat /\ n = m + 1 /\ a \in Nat /\ e \in Nat /\ a < e /\ p \in Nat /\ q \in Nat
        BY <1>3, <1>4, <1>6, <1>14, ClockAssumption DEF WindowEnd
      <4>2. n = a => p # q
        BY <1>0, <1>6, SlotBegins
      <4>3. n = e => p # q
        <5>1. PICK k \in Int : WindowEnd = SlotLen * (k + 1)
          BY <1>6
        <5>2. k + 1 \in Int
          OBVIOUS
        <5> QED BY <1>0, <5>1, <5>2, SlotBegins
      <4>4. n >= e \/ (n >= a /\ q \in fired)
        BY <3>2 DEF InWindow
      <4>5. (q \in fired => q <= p) /\ p <= q /\ (p # q => p \in fired)
        BY <1>2, <1>4, <1>8
      <4> HIDE DEF m, n, a, e, p, q
      <4>6. q \in fired => p = q
        BY <4>1, <4>5
      <4>7. (m >= a /\ p \in fired) \/ m >= e
        BY <4>1, <4>2, <4>3, <4>4, <4>5, <4>6
      <4> QED BY <4>7 DEF m, a, e, p
    <3>4. CASE Minute(c) >= WindowEnd
      BY <3>1, <3>4 DEF Calendar, Today, HadWindow
    <3> QED BY <1>13, <3>1, <3>3, <3>4
  <2>2. DailyBackup'
    BY <1>1, <1>2, <1>7, <1>14 DEF Calendar, DailyBackup, Day
  <2> QED BY <1>9, <1>10, <1>11, <1>12, <2>1, <2>2 DEF Calendar
<1>15. CASE Day(c + 1) = Day(c) + 1 /\ Minute(c + 1) = 0 /\ Minute(c) = DayLen - 1
  <2>1. Slot(c + 1) # Slot(c)
    <3>1. Minute(c + 1) = SlotLen * 0
      BY <1>15, ClockAssumption
    <3> QED BY <1>0, <3>1, SlotBegins
  <2>2. Slot(c) \in fired /\ Slot(c + 1) \notin fired
    <3>1. Slot(c) \in fired
      BY <1>2, <2>1
    <3>2. ASSUME Slot(c + 1) \in fired PROVE FALSE
      <4> DEFINE p == Slot(c)
                 q == Slot(c + 1)
      <4>1. p \in Nat /\ q \in Nat /\ p <= q /\ p # q /\ q <= p
        BY <1>4, <1>8, <2>1, <3>2
      <4> HIDE DEF p, q
      <4> QED BY <4>1
    <3> QED BY <3>1, <3>2
  <2>3. Minute(c) >= WindowStart(cfg.time) /\ ~(0 >= WindowEnd)
    <3>1. WindowStart(cfg.time) \in Nat /\ WindowStart(cfg.time) + SlotLen <= DayLen
          /\ SlotLen \in Nat \ {0} /\ DayLen \in Nat
      BY <1>6, ClockAssumption DEF WindowEnd
    <3> DEFINE a == WindowStart(cfg.time)
    <3> HIDE DEF a
    <3>2. DayLen - 1 >= a /\ ~(0 >= a + SlotLen)
      BY <3>1 DEF a
    <3> QED BY <1>15, <3>2 DEF a, WindowEnd
  <2>4. Day(c) \in done' \cup excused'
    <3>1. CASE Day(c) \in done \cup excused
      BY <1>1, <1>2, <3>1
    <3>2. CASE Day(c) \notin done \cup excused
      <4>1. \E i \in Workers : w[i].cron
        BY <1>13, <2>2, <2>3, <3>2
      <4>2. Day(c + 1) # Day(c)
        BY <1>3, <1>15
      <4> QED BY <1>0, <4>1, <4>2 DEF Tick
    <3> QED BY <3>1, <3>2
  <2>5. DailyBackup'
    <3>1. ASSUME NEW d \in 0..Day(MaxClock), d < Day(c + 1) PROVE d \in done' \cup excused'
      <4>1. d < Day(c) \/ d = Day(c)
        <5> DEFINE p == Day(c)
                   q == Day(c + 1)
        <5>1. p \in Nat /\ q = p + 1 /\ d < q /\ d \in Int
          BY <1>3, <1>15, <3>1
        <5> HIDE DEF p, q
        <5>2. d < p \/ d = p
          BY <5>1
        <5> QED BY <5>2 DEF p
      <4>2. CASE d < Day(c)
        BY <1>1, <1>2, <4>2 DEF Calendar, DailyBackup
      <4>3. CASE d = Day(c)
        BY <2>4, <4>3
      <4> QED BY <4>1, <4>2, <4>3
    <3>2. Day(MaxClock)' = Day(MaxClock)
      BY DEF Day
    <3> QED BY <1>7, <3>1, <3>2 DEF DailyBackup
  <2>6. ~HadWindow'
    BY <1>1, <1>7, <1>15, <2>2, <2>3 DEF HadWindow
  <2> QED BY <1>9, <1>10, <1>11, <1>12, <2>5, <2>6 DEF Calendar, Today
<1> QED BY <1>3, <1>14, <1>15

LEMMA CalendarStep == IInv /\ InOrder /\ Calendar /\ [Next]_vars => Calendar'
<1> SUFFICES ASSUME IInv, InOrder, Calendar, [Next]_vars PROVE Calendar'
  OBVIOUS
<1>1. CASE UNCHANGED vars
  BY <1>1 DEF vars, Calendar, Dated, AsAtFirst, Told, Today, DailyBackup, Rest, HadWindow, WindowEnd, WindowStart,
     InWindow, InHand, Day, Minute, Slot
<1>2. CASE Tick
  BY <1>2, TickStep
<1>3. ASSUME NEW i \in Workers,
             \/ Scheduled(i) \/ Manual(i) \/ StartRun(i) \/ PutObject(i) \/ RunFails(i)
             \/ ListObjects(i) \/ DeleteObject(i) \/ SaveOutcome(i)
             \/ ReadSettings(i) \/ WriteSettings(i)
      PROVE  Calendar'
  <2>1. /\ clock' = clock /\ excused \subseteq excused'
        /\ fired' = fired \/ (Scheduled(i) /\ fired' = fired \cup {Slot(clock)})
        /\ story' # Overlap => story # Overlap
        /\ FreshOrSame /\ StartsOnlyDue /\ EndsWithDay /\ SavesCount
        /\ KeepsRow \/ EndsRun \/ ChangesRow
    BY <1>3, Frame
  <2>2. IInv'
    BY StepKeeps
  <2>3. saves' \in Nat
    BY <2>2, ModeAssumption DEF IInv, TypeOK
  <2>4. Dated' /\ AsAtFirst' /\ Told' /\ Today'
    BY <2>1, <2>3, DatedStep, AsAtFirstStep, ToldStep, TodayStep DEF Calendar
  <2>5. \A s \in fired' : s <= Slot(clock)'
    <3>1. Slot(clock) \in Int /\ Slot(clock)' = Slot(clock)
      BY <2>1, ClockBound DEF IInv, TypeOK, Slot
    <3>2. Slot(clock) <= Slot(clock)
      BY <3>1
    <3> QED BY <2>1, <3>1, <3>2 DEF Calendar
  <2>6. DailyBackup'
    <3>1. done \subseteq done' /\ Day(clock)' = Day(clock) /\ Day(MaxClock)' = Day(MaxClock)
      BY <2>1 DEF KeepsRow, EndsRun, ChangesRow, Day
    <3> QED BY <2>1, <3>1 DEF Calendar, DailyBackup
  <2> QED BY <2>4, <2>5, <2>6 DEF Calendar
<1> QED BY <1>1, <1>2, <1>3 DEF Next

LEMMA CalendarBegins == Init => Calendar
<1> SUFFICES ASSUME Init PROVE Calendar
  OBVIOUS
<1>1. clock = 0 /\ fired = {} /\ done = {} /\ cfg.last = Never /\ saves = 0
      /\ \A i \in Workers : ~InHand(i) /\ w[i].pc = "idle"
  BY DEF Init, InHand, NoJob
<1>2. Day(0) \in 0..Day(MaxClock)
  BY ClockBound, ClockAssumption
<1>3. Day(clock) \in excused /\ (~cfg.enabled => Rest \subseteq excused)
  <2>1. Day(clock) \in excused /\ (~cfg.enabled => 0..Day(MaxClock) \subseteq excused)
    BY DEF Init
  <2>2. Rest \subseteq 0..Day(MaxClock)
    <3> DEFINE d == Day(0)
               e == Day(MaxClock)
    <3>1. d \in 0..e
      BY <1>2
    <3> HIDE DEF d, e
    <3>2. d..e \subseteq 0..e
      BY <3>1
    <3> QED BY <1>1, <3>2 DEF d, e, Rest
  <2> QED BY <2>1, <2>2
<1>4. cfg.enabled \in BOOLEAN
  BY InitHolds DEF IInv, TypeOK, Config
<1>5. Dated /\ Told /\ AsAtFirst /\ Today
  BY <1>1, <1>3, <1>4 DEF Dated, Told, AsAtFirst, Today, Never
<1>6. DailyBackup
  <2>1. Day(0) = 0
    <3>1. Offset \in 0..DayLen-1 /\ DayLen \in Nat \ {0} /\ Offset = DayLen * 0 + Offset /\ Offset \in Nat
      BY ClockAssumption
    <3>2. Offset \div DayLen = 0
      BY <3>1, DivUnique
    <3> QED BY <3>1, <3>2 DEF Day
  <2>2. \A d \in 0..Day(MaxClock) : ~(d < 0)
    OBVIOUS
  <2> QED BY <1>1, <2>1, <2>2 DEF DailyBackup
<1> QED BY <1>1, <1>5, <1>6 DEF Calendar

\* Every step obeys OncePerDay.
LEMMA NeverTwice ==
  ASSUME IInv, InOrder, Calendar, [Next]_vars, NEW i \in Workers, ~w[i].cron, w'[i].cron,
         saves = 0 \/ story # Overlap
  PROVE  Day(clock) \notin done
<1>1. CASE UNCHANGED vars \/ Tick
  BY <1>1 DEF vars, Tick
<1>2. ASSUME NEW j \in Workers,
             \/ Scheduled(j) \/ Manual(j) \/ StartRun(j) \/ PutObject(j) \/ RunFails(j)
             \/ ListObjects(j) \/ DeleteObject(j) \/ SaveOutcome(j)
             \/ ReadSettings(j) \/ WriteSettings(j)
      PROVE  Day(clock) \notin done
  <2>1. StartsOnlyDue
    BY <1>2, Frame
  <2>2. Scheduled(i)
    BY <2>1 DEF StartsOnlyDue
  <2> QED BY <2>2, NoSecond DEF Calendar
<1> QED BY <1>1, <1>2 DEF Next

\* "daily WebDAV and S3/R2 backups", "no successful backup has run yet that Shanghai calendar
\* day": no day of an enabled schedule goes by without a backup, unless its run fails or goes
\* on over midnight, and the cron starts no second one, unless a settings request that
\* overlapped a run has put an older row back.
THEOREM EachDayOnce == Spec => DailyOnce
<1> DEFINE Once == \A i \in Workers :
             ~w[i].cron /\ w'[i].cron /\ (saves = 0 \/ story # Overlap) => Day(clock) \notin done
           Good == IInv /\ InOrder /\ Calendar
<1>1. Init => Good
  <2>1. Init => InOrder
    BY DEF Init, InOrder, Alone, NoJob, InHand
  <2> QED BY <2>1, InitHolds, CalendarBegins
<1>2. Good /\ [Next]_vars => Good'
  BY StepKeeps, RowStep, CalendarStep
<1>3. Good /\ [Next]_vars => [Once]_vars
  BY NeverTwice
<1>4. Good => DailyBackup
  BY DEF Calendar
<1> HIDE DEF Good, Once
<1>5. Spec => []DailyBackup /\ [][Once]_vars
  BY <1>1, <1>2, <1>3, <1>4, PTL DEF Spec
<1> QED BY <1>5 DEF DailyOnce, OncePerDay, Once
=============================================================================
