----------------------------- MODULE MCDatabase -----------------------------
(***************************************************************************)
(* The parts whose state is the database, for TLC: schema migrations, the  *)
(* import from SQLite, Models and their credentials, scheduling under      *)
(* governance, and row locks.  A behaviour is about one of them (focus)    *)
(* and the others stay in an initial state.                                *)
(***************************************************************************)
EXTENDS SchemaMigrations, SqliteImport, ModelCredentials, MCRunScheduling, MCRowLocks

VARIABLE focus

databaseVars == <<migVars, impVars, credVars, schedVars, lockVars, focus>>

DatabaseInit ==
    /\ focus \in {"migrations", "import", "models", "scheduling", "locks"}
    /\ MigInit /\ ImpInit /\ CredInit /\ SchedInit /\ LockInit
    /\ focus # "migrations" =>
          db.dialect = "sqlite" /\ db.head = Unversioned /\ db.schema = {}
    /\ focus # "import" => source = NewSource
    /\ keyring.active = "k1"      \* key ids are interchangeable

Migrate ==
    /\ focus = "migrations" /\ MigNext
    /\ UNCHANGED <<impVars, credVars, schedVars, lockVars, focus>>

Import ==
    /\ focus = "import" /\ ImpNext
    /\ UNCHANGED <<migVars, credVars, schedVars, lockVars, focus>>

EditModels ==
    /\ focus = "models" /\ CredNext
    /\ UNCHANGED <<migVars, impVars, schedVars, lockVars, focus>>

Schedule ==
    /\ focus = "scheduling" /\ SchedNext
    /\ UNCHANGED <<migVars, impVars, credVars, lockVars, focus>>

Lock ==
    /\ focus = "locks" /\ LockNext
    /\ UNCHANGED <<migVars, impVars, credVars, schedVars, focus>>

DatabaseNext == Migrate \/ Import \/ EditModels \/ Schedule \/ Lock

DatabaseSpec == DatabaseInit /\ [][DatabaseNext]_databaseVars

\* The URL of a Model and the origin its API key belongs to.
MCOriginOf == [u \in Urls |-> IF u = "https://b/1" THEN "b" ELSE "a"]

\* Processes are interchangeable, with the same model values in every part.
DatabaseSymmetry == Permutations(Importers)
=============================================================================
