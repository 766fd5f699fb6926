-------------------------- MODULE SchemaMigrations --------------------------
(***************************************************************************)
(* Bringing one application database to the current Alembic head:          *)
(* prepare_database adopts, checks and backs it up, the nine revisions     *)
(* upgrade it one after the other, and an operator may take it down again. *)
(* PostgreSQL runs a command in one transaction.  SQLite commits each      *)
(* revision by itself and the first DDL statements of a revision even      *)
(* before that, up or down, so a process that dies leaves half a revision. *)
(*                                                                         *)
(* A schema is the set of the parts the revisions add; "torn" stands for   *)
(* what half an upgrade leaves and "cut" for what half a downgrade does:   *)
(* temporary tables, missing indexes and missing tables that were empty.   *)
(* Facts are the kinds of rows that some revision refuses to cross or that *)
(* need a part to be stored.                                               *)
(***************************************************************************)
EXTENDS Integers

CONSTANT Backups   \* bound on the number of backup files

ASSUME BackupsAssumption == Backups \in Nat

HeadRevision        == 8
Unversioned == -1
Revisions   == 0..HeadRevision

Indexes == {"ixStarted", "ixFinished", "uqActive"}

\* What the upgrade of each revision adds; 6 restores indexes an early 4 did
\* not create, and 7 repairs data only.
Revision0000 == {"legacy"}
Revision0001 == {"phase1"}
Revision0002 == {"reliability"}
Revision0003 == {"credentials"}
Revision0004 == {"governance"} \cup Indexes
Revision0005 == {"progress"}
Revision0006 == Indexes
Revision0007 == {}
Revision0008 == {"protocols"}

Adds == << Revision0001, Revision0002, Revision0003, Revision0004, Revision0005,
           Revision0006, Revision0007, Revision0008 >>

SchemaAt(r) == IF r < 0 THEN {} ELSE Revision0000 \cup UNION {Adds[i] : i \in 1..r}
Full        == SchemaAt(HeadRevision)

\* What no release created: drift is what comparing with the models reports,
\* the rest is seen by the checks of the SQLite DDL only.
Odd == {"drift", "modifier", "options", "keys", "checks", "trigger"}

\* The part a kind of row cannot be stored without.
Needs == [credential |-> "credentials", ledger |-> "governance",
          activeCall |-> "governance", twoPolicies |-> "governance",
          worker |-> "progress", newProtocol |-> "protocols",
          activeRun |-> "reliability", failure |-> "reliability",
          unpriced |-> "phase1", position |-> "phase1", phase1Run |-> "legacy",
          badProgress |-> "legacy", badModel |-> "legacy", orphan |-> "legacy"]
Facts == DOMAIN Needs

VARIABLES db,       \* the database
          saved,    \* what of it is committed
          step,     \* where the migration is
          backups,  \* backup files
          origin,   \* the database the last accepted preparation saw (history)
          supported \* Init was a schema some release created (history)

migVars == <<db, saved, step, backups, origin, supported>>

Steps == {"idle", "upgrade", "revision", "refused", "ready", "down", "reverting", "lowered"}
Half  == {"torn", "cut"}

Database == [dialect: {"sqlite", "postgresql"}, head: {Unversioned} \cup Revisions,
             schema: SUBSET (Full \cup Odd \cup Half), facts: SUBSET Facts,
             repaired: BOOLEAN]

\* Facts as the application of revision r may have left them.
Possible(schema, facts) ==
    /\ \A f \in facts : Needs[f] \in schema
    /\ "twoPolicies" \in facts => "uqActive" \notin schema
    /\ "badModel" \in facts => "phase1" \notin schema
    /\ facts \cap {"phase1Run", "badProgress"} # {} => "reliability" \notin schema

MigInit ==
    /\ \E dialect \in {"sqlite", "postgresql"}, r \in Revisions \cup {Unversioned},
          gap \in SUBSET Indexes, odd \in {{}} \cup {{o} : o \in Odd}, versioned \in BOOLEAN :
         /\ gap # {} => r \in {4, 5}
         /\ r = Unversioned => odd = {}
         /\ \E facts \in {{}} \cup {{f} : f \in Facts} :
              /\ Possible(SchemaAt(r) \ gap, facts)
              /\ "orphan" \in facts => dialect = "sqlite"
              /\ db = [dialect |-> dialect, head |-> IF versioned THEN r ELSE Unversioned,
                       schema |-> (SchemaAt(r) \ gap) \cup odd, facts |-> facts,
                       repaired |-> r < 4 \/ (versioned /\ r >= 7)]
         /\ supported = (odd = {} /\ (gap # {} => versioned))
    /\ saved = db /\ step = "idle" /\ backups = {} /\ origin = db

-----------------------------------------------------------------------------
(* prepare_database                                                        *)

\* compare_metadata: the parts it would add, and what the models do not know.
Differences(d) == (Full \ d.schema) \cup (d.schema \cap ({"drift"} \cup Half))

\* _validate_sqlite_database: what reflection and comparison leave out.
DdlModifiersSupported(d) == "modifier" \notin d.schema
TableOptionsSupported(d) == "options" \notin d.schema
StructureSupported(d)    == "keys" \notin d.schema
ChecksSupported(d)       == "checks" \notin d.schema
SqliteSound(d) ==
    /\ DdlModifiersSupported(d) /\ TableOptionsSupported(d)
    /\ StructureSupported(d) /\ ChecksSupported(d)
    /\ "trigger" \notin d.schema /\ "orphan" \notin d.facts
    /\ d.schema = SchemaAt(0) => "badModel" \notin d.facts

\* Revisions 4 and 5 may lack indexes that 6 restores, if it can.
KnownGap(d) ==
    LET extra == Differences(d) \ (Full \ SchemaAt(d.head)) IN
    /\ d.head \in {4, 5}
    /\ Full \ SchemaAt(d.head) \subseteq Differences(d)
    /\ extra # {} /\ extra \subseteq Indexes
    /\ "twoPolicies" \notin d.facts

\* A historical database must differ from the current schema by exactly what
\* the later revisions add; PostgreSQL is not compared below revision 5.
HistoricalOK(d) ==
    \/ d.dialect = "postgresql" /\ d.head < 5
    \/ /\ Differences(d) = Full \ SchemaAt(d.head) \/ KnownGap(d)
       /\ d.dialect = "sqlite" => SqliteSound(d)

\* Slip: a current schema is stamped as current.
StampFor_Head(schema) ==
    IF schema = Full THEN HeadRevision
    ELSE IF schema = SchemaAt(7) THEN 6 ELSE CHOOSE r \in 0..4 : schema = SchemaAt(r)

\* The revision an unversioned SQLite schema is stamped with: a schema that
\* is current still has to pass through the data repair of revision 7.
StampFor(schema) ==
    IF schema = Full \/ schema = SchemaAt(7) THEN 6
    ELSE CHOOSE r \in 0..4 : schema = SchemaAt(r)

Adoptable(d) ==
    /\ d.dialect = "sqlite" /\ SqliteSound(d)
    /\ \E r \in (0..4) \cup {7, HeadRevision} : Differences(d) = Full \ SchemaAt(r)

CurrentOK(d) == Differences(d) = {} /\ (d.dialect = "sqlite" => SqliteSound(d))

Accepts(d) ==
    IF d.head = HeadRevision THEN CurrentOK(d)
    ELSE \/ d.schema = {}
         \/ d.head # Unversioned /\ HistoricalOK(d)
         \/ d.head = Unversioned /\ Adoptable(d)

\* Slip: only a database that gets a stamp is backed up.
BacksUp_Stamped(d) == d.dialect = "sqlite" /\ d.head = Unversioned /\ d.schema # {}

BacksUp(d) == d.dialect = "sqlite" /\ d.head # HeadRevision /\ d.schema # {}

\* A transaction ends, and within a command where SQLite commits at once.
Commits       == saved' = db'
CommitsAtOnce == saved' = IF db.dialect = "sqlite" THEN db' ELSE saved

\* Under one write lock: check, back up, stamp.
Prepare ==
    /\ step = "idle"
    /\ IF Accepts(db)
         THEN /\ BacksUp(db) => \E n \in 1..Backups : n \notin {b.file : b \in backups}
              /\ db' = IF db.head = Unversioned /\ db.schema # {}
                         THEN [db EXCEPT !.head = StampFor(db.schema)] ELSE db
              /\ backups' = IF BacksUp(db)
                    THEN backups \cup {[file |-> CHOOSE n \in 1..Backups :
                                          \A m \in 1..Backups : m < n <=> m \in {b.file : b \in backups},
                                        image |-> db]}
                    ELSE backups
              /\ origin' = db /\ Commits /\ step' = "upgrade"
         ELSE /\ step' = "refused"
              /\ UNCHANGED <<db, saved, backups, origin>>
    /\ UNCHANGED supported

-----------------------------------------------------------------------------
(* alembic upgrade head                                                    *)

\* The data guard at the start of a revision.
Raises(r, d) ==
    \/ r = 1 /\ "badModel" \in d.facts
    \/ r = 2 /\ "badProgress" \in d.facts
    \/ r = 6 /\ "twoPolicies" \in d.facts
    \/ r = 7 /\ "activeCall" \in d.facts

\* A revision done: 2 settles interrupted Runs, 7 recomputes overdrawn, and
\* the flags an application of revision 4 to 6 writes need that repair.
Upgraded(r, d) ==
    [d EXCEPT !.head = r,
              !.schema = (d.schema \ {"torn"}) \cup IF r = 0 THEN Revision0000 ELSE Adds[r],
              !.facts = IF r = 2 THEN d.facts \ {"phase1Run"} ELSE d.facts,
              !.repaired = IF r = 7 THEN TRUE ELSE IF r = 4 THEN FALSE ELSE d.repaired]

\* A failing command: what is not committed is rolled back, which is all of
\* it on PostgreSQL.
GiveUp(next) == db' = saved /\ step' = next /\ UNCHANGED saved

\* On SQLite the first DDL of a revision is committed at once; that of 6 is
\* one index after the other, and 7 is one transaction.
BeginRevision ==
    /\ step = "upgrade" /\ db.head < HeadRevision
    /\ LET r == db.head + 1 IN
         IF Raises(r, db) THEN GiveUp("refused")
         ELSE /\ step' = "revision"
              /\ IF db.dialect = "postgresql" \/ r = 7 THEN UNCHANGED db
                 ELSE \E part \in IF r = 6 THEN SUBSET (Indexes \ db.schema) ELSE {{"torn"}} :
                        db' = [db EXCEPT !.schema = @ \cup part]
              /\ CommitsAtOnce
    /\ UNCHANGED <<backups, origin, supported>>

EndRevision ==
    /\ step = "revision"
    /\ db' = Upgraded(db.head + 1, db) /\ CommitsAtOnce
    /\ step' = "upgrade"
    /\ UNCHANGED <<backups, origin, supported>>

\* What the last check of a command finds: broken references on SQLite
\* (run_migrations_online), drift on the PostgreSQL deployment (alembic check).
ForeignKeysHold(d) == d.dialect = "sqlite" => "orphan" \notin d.facts
NoDrift(d)         == d.dialect = "postgresql" => Differences(d) = {}

\* The upgrade commits, and reports success if the checks find nothing.
FinishUpgrade ==
    /\ step = "upgrade" /\ db.head = HeadRevision
    /\ step' = IF ForeignKeysHold(db) /\ NoDrift(db) THEN "ready" ELSE "refused"
    /\ UNCHANGED <<db, backups, origin, supported>> /\ Commits

-----------------------------------------------------------------------------
(* Operators and the application                                           *)

\* A blocking row is corrected, or the command is simply run again.
Correct ==
    /\ step = "refused"
    /\ step' = "idle"
    /\ \E gone \in SUBSET {"badModel", "badProgress", "twoPolicies", "activeCall", "orphan"} :
         db' = [db EXCEPT !.facts = @ \ gone]
    /\ Commits
    /\ UNCHANGED <<backups, origin, supported>>

RestoreBackup ==
    /\ step = "refused" /\ db.dialect = "sqlite"
    /\ \E b \in backups : db' = b.image
    /\ step' = "idle" /\ Commits
    /\ UNCHANGED <<backups, origin, supported>>

\* require_database_at_head lets the application run, and write rows of a
\* kind that was not there (one kind at a time, as in MigInit).
ApplicationWrites ==
    /\ step = "ready" /\ db.head = HeadRevision
    /\ db.facts = {}
    /\ \E f \in Facts \ {"orphan"} : /\ Possible(db.schema, {f})
                                     /\ db' = [db EXCEPT !.facts = {f}]
    /\ Commits
    /\ UNCHANGED <<step, backups, origin, supported>>

-----------------------------------------------------------------------------
(* alembic downgrade, with the application stopped                         *)

\* What each downgrade refuses to cross, and what it gives up unasked: NULL
\* prices become 0 and the positions of questions are dropped (1), as are the
\* reasons, times and numbers of failed attempts (2).
Downgrade0001 == [guards |-> {}, forgets |-> {"unpriced", "position"}]
Downgrade0002 == [guards |-> {"activeRun"}, forgets |-> {"failure"}]
Downgrade0003 == [guards |-> {"credential"}, forgets |-> {}]
Downgrade0004 == [guards |-> {"ledger", "activeCall", "twoPolicies"}, forgets |-> {}]
Downgrade0005 == [guards |-> {"worker"}, forgets |-> {}]
Downgrade0006 == [guards |-> {}, forgets |-> {}]
Downgrade0007 == [guards |-> {"activeCall"}, forgets |-> {}]

\* Slip: nobody asks whether a Model speaks one of the new protocols.
Downgrade0008_Unguarded == [guards |-> {}, forgets |-> {}]

Downgrade0008 == [guards |-> {"newProtocol"}, forgets |-> {}]

Downgrades == << Downgrade0001, Downgrade0002, Downgrade0003, Downgrade0004,
                 Downgrade0005, Downgrade0006, Downgrade0007, Downgrade0008 >>

\* A downgrade done; 6 keeps the indexes, which belong to 4, and 7 writes the
\* flags as the application of revision 6 did.
Reverted(d) ==
    [d EXCEPT !.head = d.head - 1,
              !.schema = d.schema \ ((Adds[d.head] \ SchemaAt(d.head - 1)) \cup {"cut"}),
              !.facts = d.facts \ Downgrades[d.head].forgets,
              !.repaired = IF d.head = 7 THEN FALSE ELSE IF d.head = 4 THEN TRUE ELSE d.repaired]

\* A command goes down any number of revisions, and makes no backup.
StartDowngrade ==
    /\ step \in {"ready", "lowered"} /\ db.head > 0
    /\ step' = "down"
    /\ UNCHANGED <<db, saved, backups, origin, supported>>

\* The guard, then the DDL: SQLite commits that of 1 to 5 as it goes, while 7
\* and 8 are one transaction and 6 is empty.
BeginDowngrade ==
    /\ step = "down" /\ db.head > 0
    /\ IF db.facts \cap Downgrades[db.head].guards # {} THEN GiveUp("lowered")
       ELSE /\ step' = "reverting"
            /\ db' = IF db.dialect = "sqlite" /\ db.head <= 5
                       THEN [db EXCEPT !.schema = @ \cup {"cut"}] ELSE db
            /\ CommitsAtOnce
    /\ UNCHANGED <<backups, origin, supported>>

EndDowngrade ==
    /\ step = "reverting"
    /\ db' = Reverted(db) /\ CommitsAtOnce
    /\ step' = "down"
    /\ UNCHANGED <<backups, origin, supported>>

FinishDowngrade ==
    /\ step = "down"
    /\ step' = "lowered"
    /\ UNCHANGED <<db, backups, origin, supported>> /\ Commits

MigrateAgain ==
    /\ step \in {"ready", "lowered"}
    /\ step' = "idle"
    /\ UNCHANGED <<db, saved, backups, origin, supported>>

\* The process dies in either command.
MigCrash ==
    /\ step \in {"upgrade", "revision", "down", "reverting"}
    /\ GiveUp("idle")
    /\ UNCHANGED <<backups, origin, supported>>

MigNext == \/ Prepare \/ BeginRevision \/ EndRevision \/ FinishUpgrade \/ MigCrash
           \/ Correct \/ RestoreBackup \/ ApplicationWrites
           \/ StartDowngrade \/ BeginDowngrade \/ EndDowngrade \/ FinishDowngrade
           \/ MigrateAgain

MigSpec == MigInit /\ [][MigNext]_migVars

-----------------------------------------------------------------------------
(* Properties                                                              *)

\* Every row is of a kind the schema has a place for: no revision, up or
\* down, whole or half, drops a table or a column under rows that its guard is
\* there to keep.  What downgrades 1 and 2 give up has no guard and is not kept.
FactsKeepTheirPlace ==
    /\ db \in Database /\ step \in Steps
    /\ Possible(db.schema, db.facts)

\* A migration that reports success leaves the application the current schema
\* with repaired overdraw flags and no broken reference, whatever supported or
\* drifted database, versioned or not, it started from (prepare_database,
\* revision 7); of a PostgreSQL schema only what comparing with the models
\* shows is looked at.
ReadyIsCurrent ==
    step = "ready" =>
        /\ db.head = HeadRevision /\ Differences(db) = {} /\ db.repaired
        /\ db.dialect = "sqlite" => db.schema = Full /\ "orphan" \notin db.facts

\* A database that some release created is stranded by no crash but one: what
\* prepare_database then refuses was empty before, waits for a row to be
\* corrected, has a backup that it accepts and that holds the same rows, or is
\* a SQLite database whose downgrade was cut short.  No backup is made before
\* a downgrade, and what its DDL has dropped stays dropped.
NeverStranded ==
    supported /\ step \in {"idle", "refused"} /\ ~Accepts(db) =>
        \/ origin.schema = {}
        \/ db.facts \cap {"badModel", "twoPolicies", "orphan"} # {}
        \/ db.dialect = "postgresql" /\ db.head = Unversioned
        \/ \E b \in backups : Accepts(b.image) /\ b.image.facts = origin.facts
        \/ db.dialect = "sqlite" /\ "cut" \in db.schema

\* Through any sequence of preparations, revisions, crashes, restores and
\* downgrades: no guarded row loses its place, a reported success is the
\* current schema with repaired data, and a half-done downgrade of SQLite is
\* the one way a database ends up refused without a backup.
MigrationInv == FactsKeepTheirPlace /\ ReadyIsCurrent /\ NeverStranded
=============================================================================
