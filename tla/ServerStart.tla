------------------------------ MODULE ServerStart ------------------------------
(***************************************************************************)
(* The start of the Docker server: schema migrations, search indexes, the  *)
(* bootstrap of the administrator, the Inbox and the demo library, and     *)
(* then the requests.  The process may be killed at any point and started  *)
(* again, on SQLite and on Postgres, on a new database, on one that an     *)
(* earlier release migrated part of the way, and on one that create_all()  *)
(* made before there were migrations.                                      *)
(*                                                                         *)
(* One process runs at a time, as in docker-compose.yml.  What ServerJobs  *)
(* names as well is named Boot here: ServerJobs_proofs takes both modules. *)
(***************************************************************************)
EXTENDS Integers

CONSTANTS
  Dialects,     \* a subset of {"sqlite", "postgres"}
  MaxFailures   \* bound: how often a start fails or the process is killed

ASSUME DialectsAssumption == Dialects \subseteq {"sqlite", "postgres"} /\ Dialects # {}
ASSUME FailuresAssumption == MaxFailures \in Nat

VARIABLES
  dialect,    \* of the database
  db,         \* what is committed
  tx,         \* what the open transaction sees
  proc,       \* where the process is
  failures,   \* starts that failed and kills so far
  seeds       \* how often the demo library was put in

bootVars == <<dialect, db, tx, proc, failures, seeds>>

\* 0001_init, 0002_fk_constraints, 0003_bookmark_icon, 0004_drop_shares
Versions == 1..4

\* Bookmarks: of the user, without and with an icon; of the demo; and those that
\* a database without foreign keys may hold in no folder.
Bookmark == {"plain", "icon", "demo", "orphan"}

\* The tables of 0001, folders.parent_id REFERENCES folders, bookmarks.icon, a
\* bookmark_tags that refers to the dropped bookmarks__old, share_links, the index.
Feature == {"tables", "parent_fk", "icon", "dangling", "shares", "fts"}

\* The administrator with the Inbox, and the setting demo_seeded.
Setup == {"admin", "demo_seeded"}

Database == [ledger : SUBSET Versions,    \* schema_migrations
             schema : SUBSET Feature, setup : SUBSET Setup, library : SUBSET Bookmark]

Process == [pc : {"down", "ledger", "loop", "body", "commit", "restore", "bootstrap", "serving"},
            version : {0} \cup Versions, applied : SUBSET Versions,
            fk : BOOLEAN, seedDemo : BOOLEAN]

Down == [pc |-> "down", version |-> 0, applied |-> {}, fk |-> FALSE, seedDemo |-> FALSE]

-----------------------------------------------------------------------------
\* The databases a start may find.

Empty == [ledger |-> {}, schema |-> {}, setup |-> {}, library |-> {}]

\* The schema that the migrations 1..k make.
Schema(d, k) ==
  {"tables", "parent_fk", "fts"} \cup (IF k >= 3 THEN {"icon"} ELSE {})
    \cup (IF d = "sqlite" /\ k = 2 THEN {"dangling"} ELSE {})
    \cup (IF k < 4 THEN {"shares"} ELSE {})
Migrated(d, k) == [Empty EXCEPT !.ledger = 1..k, !.schema = Schema(d, k)]

Legacy == [Empty EXCEPT !.schema = {"tables", "shares", "fts"}]

\* No rows yet, or an administrator's.
InUse(s, kinds) ==
  {s} \cup [ledger : {s.ledger}, schema : {s.schema},
            setup : {{"admin"}, Setup}, library : SUBSET kinds]

Found(d) ==
  {Empty} \cup InUse(Legacy, {"plain", "orphan"})
    \cup UNION {InUse(Migrated(d, k), {"plain"} \cup (IF k >= 3 THEN {"icon"} ELSE {})) :
                  k \in Versions}

BootInit ==
  /\ dialect \in Dialects
  /\ db \in Found(dialect)
  /\ tx = db
  /\ proc = Down
  /\ failures = 0
  /\ seeds = 0

-----------------------------------------------------------------------------
\* The migrations

\* Those that turn foreign_keys off before their body and on after it.
RebuildsTables(v) == dialect = "sqlite" /\ v \in {2, 3}

\* 0002 builds bookmarks anew without the column icon, and its rename takes the
\* reference of bookmark_tags along to a table that it drops.
Rebuilt(s) ==
  [s EXCEPT !.schema = (@ \ {"icon"}) \cup {"parent_fk", "dangling"},
            !.library = {IF b = "icon" THEN "plain" ELSE b : b \in @ \ {"orphan"}}]
Body(v, s) ==
  CASE v = 1 -> [s EXCEPT !.schema = @ \cup {"tables", "parent_fk", "shares"}]
    [] v = 2 -> IF dialect = "sqlite" THEN Rebuilt(s)
                ELSE [s EXCEPT !.schema = @ \cup {"parent_fk"}, !.library = @ \ {"orphan"}]
    [] v = 3 -> [s EXCEPT !.schema = (@ \ {"dangling"}) \cup {"icon"}]
    [] v = 4 -> [s EXCEPT !.schema = @ \ {"shares"}]

\* DROP TABLE deletes the rows that others refer to; ADD COLUMN wants a new name.
BodyThrows(v, s, fk) ==
  /\ dialect = "sqlite"
  /\ \/ v = 2 /\ fk /\ s.library # {}
     \/ v = 3 /\ "icon" \in s.schema

\* _mark_applied, in the transaction of the body
MarkedApplied_Nowhere(s, v) == s
MarkedApplied(s, v) == [s EXCEPT !.ledger = @ \cup {v}]

\* _stamp_legacy_baseline
Stamped_Always(s) == IF "tables" \in s.schema THEN [s EXCEPT !.ledger = {1}] ELSE s
Stamped(s) ==
  IF "tables" \in s.schema /\ s.ledger = {} THEN [s EXCEPT !.ledger = {1}] ELSE s

\* for version in discover_migrations: if version in applied: continue
Pending(done) == Versions \ done
IsNext(v, done) == v \in Pending(done) /\ \A u \in Pending(done) : v <= u

-----------------------------------------------------------------------------
\* lifespan

\* A connection with PRAGMA foreign_keys=ON; SQLite: BEGIN IMMEDIATE, Postgres:
\* the one transaction of everything that follows.
Start ==
  /\ proc.pc = "down"
  /\ \E seed \in BOOLEAN :
       proc' = [Down EXCEPT !.pc = "ledger", !.fk = TRUE, !.seedDemo = seed]
  /\ tx' = db
  /\ UNCHANGED <<dialect, db, failures, seeds>>

\* What the transaction has done, committed at once on SQLite.
CommitsEach == dialect = "sqlite"

Ledger ==
  /\ proc.pc = "ledger"
  /\ tx' = Stamped(tx)
  /\ db' = IF CommitsEach THEN tx' ELSE db
  /\ proc' = [proc EXCEPT !.pc = "loop", !.applied = tx'.ledger]
  /\ UNCHANGED <<dialect, failures, seeds>>

FkBefore_InTransaction(v, fk) == fk
FkBefore(v, fk) == fk /\ ~RebuildsTables(v)

Pick ==
  /\ proc.pc = "loop"
  /\ \E v \in Versions :
       /\ IsNext(v, proc.applied)
       /\ proc' = [proc EXCEPT !.pc = "body", !.version = v, !.fk = FkBefore(v, @)]
  /\ UNCHANGED <<dialect, db, tx, failures, seeds>>

RunBody ==
  /\ proc.pc = "body" /\ ~BodyThrows(proc.version, tx, proc.fk)
  /\ tx' = MarkedApplied(Body(proc.version, tx), proc.version)
  /\ proc' = [proc EXCEPT !.pc = IF CommitsEach THEN "commit" ELSE "restore"]
  /\ UNCHANGED <<dialect, db, failures, seeds>>

CommitBody ==
  /\ proc.pc = "commit"
  /\ db' = tx
  /\ proc' = [proc EXCEPT !.pc = "restore"]
  /\ UNCHANGED <<dialect, tx, failures, seeds>>

\* The directives after the body, or else the setting that was there.
FkAfter_AsLeft(v, fk) == fk
FkAfter(v, fk) == fk \/ RebuildsTables(v)

RestoreFk ==
  /\ proc.pc = "restore"
  /\ proc' = [proc EXCEPT !.pc = "loop", !.version = 0, !.fk = FkAfter(proc.version, @),
                          !.applied = @ \cup {proc.version}]
  /\ UNCHANGED <<dialect, db, tx, failures, seeds>>

\* ensure_search_indexes; on Postgres the transaction ends with it.
Indexes ==
  /\ proc.pc = "loop" /\ Pending(proc.applied) = {}
  /\ tx' = [tx EXCEPT !.schema = @ \cup {"fts"}]
  /\ db' = tx'
  /\ proc' = [proc EXCEPT !.pc = "bootstrap"]
  /\ UNCHANGED <<dialect, failures, seeds>>

MaySeed_Unmarked(s) == proc.seedDemo /\ ("admin" \notin s.setup \/ s.library = {})
MaySeed(s) ==
  proc.seedDemo /\ ("admin" \notin s.setup \/ s.library = {}) /\ "demo_seeded" \notin s.setup

\* bootstrap_admin_and_inbox and seed_demo_library, one transaction
Seeded(s) == [s EXCEPT !.setup = {"admin", "demo_seeded"}, !.library = @ \cup {"demo"}]

Bootstrap ==
  /\ proc.pc = "bootstrap"
  /\ db' = IF MaySeed(db) THEN Seeded(db) ELSE [db EXCEPT !.setup = @ \cup {"admin"}]
  /\ tx' = db'
  /\ seeds' = IF MaySeed(db) THEN seeds + 1 ELSE seeds
  /\ proc' = [proc EXCEPT !.pc = "serving"]
  /\ UNCHANGED <<dialect, failures>>

\* An exception ends the start, a kill ends anything; the transaction is lost.
Stop ==
  /\ proc' = Down /\ tx' = db
  /\ UNCHANGED <<dialect, db, seeds>>

\* A migration throws by itself, or because the disk is full or the file locked.
MigrationFails ==
  /\ proc.pc = "body"
  /\ failures' = IF BodyThrows(proc.version, tx, proc.fk) THEN failures ELSE failures + 1
  /\ failures' <= MaxFailures
  /\ Stop

Killed ==
  /\ proc.pc # "down" /\ failures < MaxFailures
  /\ Stop /\ failures' = failures + 1

\* Requests: the user adds bookmarks, and empties the library.
Serve ==
  /\ proc.pc = "serving"
  /\ \/ \E b \in {"plain", "icon"} : db' = [db EXCEPT !.library = @ \cup {b}]
     \/ db' = [db EXCEPT !.library = {}]
  /\ tx' = db'
  /\ UNCHANGED <<dialect, proc, failures, seeds>>

StartStep ==
  \/ Start \/ Ledger \/ Pick \/ RunBody \/ CommitBody \/ RestoreFk \/ Indexes
  \/ Bootstrap \/ MigrationFails

BootNext == StartStep \/ Killed \/ Serve

BootSpec == BootInit /\ [][BootNext]_bootVars

\* Somebody starts a server that is down, and a start that is not killed goes on.
FairBoot == BootSpec /\ WF_bootVars(StartStep)

-----------------------------------------------------------------------------
\* Properties

\* A migration is picked only if it is not applied, and applied to what it was
\* written for: the process never believes in a version that is not in its
\* transaction.
BootTypeOK ==
  /\ dialect \in Dialects /\ db \in Database /\ tx \in Database /\ proc \in Process
  /\ failures \in 0..MaxFailures /\ seeds \in Nat
  /\ proc.pc \in {"body", "commit"} => proc.version \notin proc.applied
  /\ proc.pc \notin {"down", "ledger"} => proc.applied \subseteq tx.ledger

\* A ledger is a prefix of the migrations and says what the schema is.
TrueTo(s) ==
  /\ \A v \in s.ledger : 1..v \subseteq s.ledger
  /\ 1 \in s.ledger => "tables" \in s.schema
  /\ 2 \in s.ledger => "parent_fk" \in s.schema
  /\ 3 \in s.ledger <=> "icon" \in s.schema
  /\ 4 \in s.ledger => "shares" \notin s.schema
  /\ "dangling" \in s.schema <=> dialect = "sqlite" /\ 2 \in s.ledger /\ 3 \notin s.ledger

\* "Applied versions are recorded in schema_migrations": whatever was killed when,
\* what is recorded is what the schema has been through.
LedgerTrue == TrueTo(db)

\* "leave FK enforcement restored": the server serves a schema that is migrated to
\* the end, with foreign keys that are enforced and can be.
ServesMigrated ==
  proc.pc = "serving" =>
    /\ db.ledger = Versions /\ db.schema = {"tables", "parent_fk", "icon", "fts"}
    /\ "admin" \in db.setup /\ proc.fk

\* "Seed prototype demo library once": a user who has emptied the library does not
\* find the demo in it after a restart.
SeededOnce == seeds <= 1 /\ (seeds = 1 => "demo_seeded" \in db.setup)

\* "preserving existing admin/Inbox/application rows": a start takes nothing away
\* from a library but rows in no folder, not even their icons.
LibraryKept ==
  [][proc.pc # "serving" => /\ db.library \ {"orphan"} \subseteq db'.library
                            /\ db.setup \subseteq db'.setup]_bootVars

\* Kills and failed starts leave nothing behind that the next start stumbles on.
ServesAgain == []<>(proc.pc = "serving")
=============================================================================
