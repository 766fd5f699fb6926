---------------------------- MODULE SqliteImport ----------------------------
(***************************************************************************)
(* llmbenchlab-import-sqlite: several importers copy a SQLite source into  *)
(* one PostgreSQL target while the source's application may still work,    *)
(* the target's API may start, migrations may move the target's revision,  *)
(* and connections break before, during or after COMMIT.                   *)
(*                                                                         *)
(* A reservation keeps its state and whether its settlement exceeded an    *)
(* explicit reservation; the amounts themselves are left out.  The target  *)
(* is the sequence of the transactions that wrote rows into it, so that    *)
(* being empty, and being exactly one snapshot, can be told apart.         *)
(***************************************************************************)
EXTENDS Integers, FiniteSets, Sequences

CONSTANTS Importers,      \* import processes
          Calls,          \* rows of the source's provider_call_reservations
          StaleAfter,     \* worker_progress_stale_seconds
          MaxNow,         \* bound on the source clock
          MaxSourceWrites,\* bound on the source application's transactions
          MaxTargetWrites \* bound on migrations and API starts on the target

\* Names of processes, apart from the application's and from no process.
ASSUME ImporterNames == {"app", "free"} \cap Importers = {}

ASSUME ImportAssumption ==
    /\ StaleAfter \in Nat \ {0}
    /\ MaxNow \in Nat /\ MaxSourceWrites \in Nat /\ MaxTargetWrites \in Nat

VARIABLES source,    \* the SQLite file
          now,       \* its clock
          sourceTx,  \* transactions of the source application so far
          target,    \* [head, log]: revision and writes of the PostgreSQL target
          targetTx,  \* migrations and API starts on the target so far
          imp,       \* the importer processes
          serial,    \* holders of the advisory transaction lock
          reading,   \* sessions with ACCESS SHARE on alembic_version
          exclusive, \* backend that holds every table ACCESS EXCLUSIVE
          backend    \* what the server knows of each importer's transaction

impVars == <<source, now, sourceTx, target, targetTx, imp, serial, reading,
             exclusive, backend>>

Free == "free"
ActiveStates   == {"reserved", "send_started"}
SettledStates  == {"settled_actual", "settled_conservative"}
ConsumedStates == {"send_started"} \cup SettledStates

-----------------------------------------------------------------------------
(* What preflight rebuilds from the reservation ledger.                    *)

InStates(ledger, states) == {c \in Calls : ledger[c].state \in states}

\* _accumulate_scope_ledger over every reservation.
ScopeCounters(ledger) ==
    [active   |-> Cardinality(InStates(ledger, ActiveStates)),
     reserved |-> Cardinality(InStates(ledger, {"reserved"})),
     consumed |-> Cardinality(InStates(ledger, ConsumedStates)),
     overdrawn |-> \E c \in InStates(ledger, SettledStates) : ledger[c].over]

\* _accumulate_bucket_ledger: the same without active rows and overdraft.
BucketCounters(ledger) ==
    [reserved |-> Cardinality(InStates(ledger, {"reserved"})),
     consumed |-> Cardinality(InStates(ledger, ConsumedStates))]

NoMaterializationDrift(s) ==
    s.scope = ScopeCounters(s.ledger) /\ s.bucket = BucketCounters(s.ledger)

\* A Worker generation that has neither stopped nor gone silent for long.
LiveWorker(s, t) == ~s.stopped /\ s.seen >= t - StaleAfter

\* preflight_sqlite_source.  sound stands for the checks of the file's own
\* data: integrity_check, foreign keys, head, fingerprint, one active policy,
\* policy and Run snapshots, retained audit events.
PreflightAccepts(s, t) ==
    /\ s.sound
    /\ ~s.running
    /\ InStates(s.ledger, ActiveStates) = {}
    /\ ~LiveWorker(s, t)
    /\ NoMaterializationDrift(s)

NoLedger == [c \in Calls |-> [state |-> "none", over |-> FALSE]]
NewSource ==
    [sound |-> TRUE, running |-> FALSE, ledger |-> NoLedger,
     scope |-> ScopeCounters(NoLedger), bucket |-> BucketCounters(NoLedger),
     seen |-> 0, stopped |-> TRUE]

\* An application in the middle of its calls.
BusySource ==
    LET sent == [c \in Calls |-> [state |-> "send_started", over |-> FALSE]]
    IN [NewSource EXCEPT !.running = TRUE, !.stopped = FALSE, !.ledger = sent,
                         !.scope = ScopeCounters(sent), !.bucket = BucketCounters(sent)]

NewImporter == [pc |-> "idle", view |-> NewSource, exit |-> "none"]

ImpInit ==
    /\ source \in {NewSource, BusySource} /\ now = 0 /\ sourceTx = 0
    /\ target = [head |-> TRUE, log |-> <<>>] /\ targetTx = 0
    /\ imp = [i \in Importers |-> NewImporter]
    /\ serial = Free /\ reading = {} /\ exclusive = Free
    /\ backend = [i \in Importers |-> "none"]

-----------------------------------------------------------------------------
(* The source application: one worker, one Run and its provider calls.     *)

targetVars == <<target, targetTx, imp, serial, reading, exclusive, backend>>

SourceCommits(s) ==
    /\ sourceTx < MaxSourceWrites
    /\ sourceTx' = sourceTx + 1
    /\ source' = s
    /\ UNCHANGED <<now, targetVars>>

StartWorker ==
    SourceCommits([source EXCEPT !.stopped = FALSE, !.seen = now, !.running = TRUE])

BeatWorker == ~source.stopped /\ SourceCommits([source EXCEPT !.seen = now])

\* A graceful stop; a worker that dies leaves stopped_at empty.
StopWorker == ~source.stopped /\ SourceCommits([source EXCEPT !.stopped = TRUE])

\* A call moves and its scope and bucket are updated in one transaction.
MoveCall(c, from, to, over) ==
    /\ source.running
    /\ source.ledger[c].state \in from
    /\ LET ledger == [source.ledger EXCEPT ![c] = [state |-> to, over |-> over]]
       IN SourceCommits([source EXCEPT !.ledger = ledger,
                                       !.scope = ScopeCounters(ledger),
                                       !.bucket = BucketCounters(ledger)])

FinishRun == source.running /\ SourceCommits([source EXCEPT !.running = FALSE])

\* A damaged file or a hand edit: the data or a counter is wrong.
Damage ==
    \/ SourceCommits([source EXCEPT !.sound = FALSE])
    \/ SourceCommits([source EXCEPT !.scope.consumed = @ + 1])
    \/ SourceCommits([source EXCEPT !.bucket.consumed = @ + 1])

TimePasses ==
    /\ now < MaxNow /\ now' = now + 1
    /\ UNCHANGED <<source, sourceTx, targetVars>>

SourceNext ==
    \/ StartWorker \/ BeatWorker \/ StopWorker \/ FinishRun \/ Damage \/ TimePasses
    \/ \E c \in Calls :
        \/ MoveCall(c, {"none"}, "reserved", FALSE)
        \/ MoveCall(c, {"reserved"}, "send_started", FALSE)
        \/ MoveCall(c, {"reserved"}, "released", FALSE)
        \/ MoveCall(c, {"send_started"}, "settled_conservative", FALSE)
        \/ \E over \in BOOLEAN : MoveCall(c, {"send_started"}, "settled_actual", over)

-----------------------------------------------------------------------------
(* The target outside the import: a migration moves its revision, the API  *)
(* writes its first rows.  Both wait for a backend that holds the tables.  *)

TargetChanges(t) ==
    /\ targetTx < MaxTargetWrites
    /\ exclusive = Free
    /\ target' = t
    /\ targetTx' = targetTx + 1
    /\ UNCHANGED <<source, now, sourceTx, imp, serial, reading, exclusive, backend>>

\* Alembic writes alembic_version, which readers do not block.
MigrateTarget == TargetChanges([target EXCEPT !.head = ~@])

ApiStarts == TargetChanges([target EXCEPT !.log = Append(@, [by |-> "app", head |-> target.head])])

-----------------------------------------------------------------------------
(* The importer.                                                           *)

sourceVars == <<source, now, sourceTx>>

Moves(i, from, to) == imp[i].pc = from /\ imp' = [imp EXCEPT ![i].pc = to]
\* The process ends; a snapshot that cannot reach the target any more is
\* forgotten with it.
Exits(i, code) ==
    imp' = [imp EXCEPT ![i] =
        [pc |-> "done", exit |-> code,
         view |-> IF backend[i] \in {"sent", "committed"} THEN @.view ELSE NewSource]]

\* The end of a transaction frees its locks.
Unlock(i) ==
    /\ serial' = IF serial = i THEN Free ELSE serial
    /\ reading' = reading \ {i}
    /\ exclusive' = IF exclusive = i THEN Free ELSE exclusive

\* BEGIN on a read-only connection: every later read sees this state.
OpenSource(i) ==
    /\ imp[i].pc = "idle"
    /\ imp' = [imp EXCEPT ![i].pc = "preflight", ![i].view = source]
    /\ UNCHANGED <<sourceVars, target, targetTx, serial, reading, exclusive, backend>>

Preflight(i) ==
    /\ imp[i].pc = "preflight"
    /\ IF PreflightAccepts(imp[i].view, now)
       THEN Moves(i, "preflight", "snapshot") ELSE Exits(i, "2")
    /\ UNCHANGED <<sourceVars, target, targetTx, serial, reading, exclusive, backend>>

\* Slip: reads each statement from the file as it is then.
Snapshot_Fresh(i) ==
    /\ imp[i].pc = "snapshot"
    /\ imp' = [imp EXCEPT ![i].pc = "serialize", ![i].view = source]
    /\ UNCHANGED <<sourceVars, target, targetTx, serial, reading, exclusive, backend>>

\* snapshot_database of the source, in the transaction of the preflight.
Snapshot(i) ==
    /\ Moves(i, "snapshot", "serialize")
    /\ UNCHANGED <<sourceVars, target, targetTx, serial, reading, exclusive, backend>>

\* Slip: importers start without waiting for one another.
Serialize_Skipped(i) ==
    /\ Moves(i, "serialize", "head")
    /\ backend' = [backend EXCEPT ![i] = "open"]
    /\ UNCHANGED <<sourceVars, target, targetTx, serial, reading, exclusive>>

\* _serialize_target_import: pg_advisory_xact_lock.
Serialize(i) ==
    /\ Moves(i, "serialize", "head")
    /\ serial = Free
    /\ serial' = i
    /\ backend' = [backend EXCEPT ![i] = "open"]
    /\ UNCHANGED <<sourceVars, target, targetTx, reading, exclusive>>

\* Anything that raises before COMMIT is sent: rollback, exit code 2.
RollsBack(i) ==
    /\ Exits(i, "2")
    /\ backend' = [backend EXCEPT ![i] = "none"]
    /\ Unlock(i)
    /\ UNCHANGED <<sourceVars, target, targetTx>>

\* The first _require_database_head keeps its ACCESS SHARE lock.
CheckHead(i) ==
    /\ imp[i].pc = "head"
    /\ exclusive = Free
    /\ \/ ~target.head /\ RollsBack(i)
       \/ /\ target.head
          /\ Moves(i, "head", "lock")
          /\ reading' = reading \cup {i}
          /\ UNCHANGED <<sourceVars, target, targetTx, serial, exclusive, backend>>

\* _lock_target_tables: LOCK TABLE ... IN ACCESS EXCLUSIVE MODE.
LockTables(i) ==
    /\ Moves(i, "lock", "empty")
    /\ exclusive = Free /\ reading \subseteq {i}
    /\ exclusive' = i
    /\ UNCHANGED <<sourceVars, target, targetTx, serial, reading, backend>>

\* Slip: the target is taken to be empty as it was before the locks.
RequireEmpty_Before(i) ==
    /\ imp[i].pc = "empty"
    /\ \/ ~target.head /\ RollsBack(i)
       \/ /\ target.head
          /\ Moves(i, "empty", "commit")
          /\ UNCHANGED <<sourceVars, target, targetTx, serial, reading, exclusive, backend>>

\* The second head check and _require_empty_target; then copy_snapshot in
\* dependency order and the precommit comparison, on tables nobody else can
\* touch.
CopyIntoEmpty(i) ==
    /\ imp[i].pc = "empty"
    /\ \/ ~(target.head /\ target.log = <<>>) /\ RollsBack(i)
       \/ /\ target.head /\ target.log = <<>>
          /\ Moves(i, "empty", "commit")
          /\ UNCHANGED <<sourceVars, target, targetTx, serial, reading, exclusive, backend>>

\* A statement or the connection fails, or a comparison does not match.
StatementFails(i) ==
    /\ imp[i].pc \in {"head", "lock", "empty", "commit"}
    /\ RollsBack(i)

SendCommit(i) ==
    /\ Moves(i, "commit", "committing")
    /\ backend' = [backend EXCEPT ![i] = "sent"]
    /\ UNCHANGED <<sourceVars, target, targetTx, serial, reading, exclusive>>

\* The server gets the COMMIT, whether or not anybody still waits for it.
TargetCommits(i) ==
    /\ backend[i] = "sent"
    /\ backend' = [backend EXCEPT ![i] = "committed"]
    /\ target' = [target EXCEPT !.log = Append(@, [by |-> i, head |-> target.head])]
    /\ Unlock(i)
    /\ UNCHANGED <<sourceVars, targetTx, imp>>

\* The connection is gone before the COMMIT arrives.
ServerAborts(i) ==
    /\ backend[i] = "sent"
    /\ backend' = [backend EXCEPT ![i] = "none"]
    /\ Unlock(i)
    /\ UNCHANGED <<sourceVars, target, targetTx, imp>>

\* The commit returns; closing the connection may still raise.
Acknowledged(i) ==
    /\ imp[i].pc = "committing" /\ backend[i] = "committed"
    /\ Moves(i, "committing", "verify") \/ Exits(i, "3")
    /\ UNCHANGED <<sourceVars, target, targetTx, serial, reading, exclusive, backend>>

\* Slip: a COMMIT nobody confirmed is reported like a failed statement.
Unconfirmed_Failed(i) ==
    /\ imp[i].pc = "committing"
    /\ Exits(i, "2")
    /\ UNCHANGED <<sourceVars, target, targetTx, serial, reading, exclusive, backend>>

\* The commit raises: SQLiteImportCommitOutcomeUnknownError.
Unconfirmed(i) ==
    /\ imp[i].pc = "committing"
    /\ Exits(i, "4")
    /\ UNCHANGED <<sourceVars, target, targetTx, serial, reading, exclusive, backend>>

\* The read-only REPEATABLE READ transaction after the commit: head and
\* every table equal to the source, or exit code 3.
VerifyCommitted(i) ==
    /\ imp[i].pc = "verify"
    /\ exclusive = Free
    /\ IF target.head /\ target.log = <<[by |-> i, head |-> TRUE]>>
       THEN Exits(i, "0") ELSE Exits(i, "3")
    /\ UNCHANGED <<sourceVars, target, targetTx, serial, reading, exclusive, backend>>

VerifyFails(i) ==
    /\ imp[i].pc = "verify" /\ Exits(i, "3")
    /\ UNCHANGED <<sourceVars, target, targetTx, serial, reading, exclusive, backend>>

\* The process is killed; a COMMIT already sent is the server's.
KillImporter(i) ==
    /\ imp[i].pc \notin {"idle", "done"}
    /\ Exits(i, "killed")
    /\ IF backend[i] = "open"
       THEN backend' = [backend EXCEPT ![i] = "none"] /\ Unlock(i)
       ELSE UNCHANGED <<backend, serial, reading, exclusive>>
    /\ UNCHANGED <<sourceVars, target, targetTx>>

ImpNext ==
    \/ SourceNext \/ MigrateTarget \/ ApiStarts
    \/ \E i \in Importers :
        \/ OpenSource(i) \/ Preflight(i) \/ Snapshot(i) \/ Serialize(i)
        \/ CheckHead(i) \/ LockTables(i) \/ CopyIntoEmpty(i) \/ StatementFails(i)
        \/ SendCommit(i) \/ TargetCommits(i) \/ ServerAborts(i)
        \/ Acknowledged(i) \/ Unconfirmed(i) \/ VerifyCommitted(i)
        \/ VerifyFails(i) \/ KillImporter(i)

ImpSpec == ImpInit /\ [][ImpNext]_impVars

-----------------------------------------------------------------------------

Imported == {i \in Importers : \E k \in 1..Len(target.log) : target.log[k].by = i}

\* What lands in the target is the source at rest: no active Run, no open
\* reservation, every counter equal to its ledger, although the source's
\* application may start again at any moment of the import.
ImportsRestingSource ==
    \A i \in Imported :
        LET s == imp[i].view
        IN /\ ~s.running /\ s.sound
           /\ \A c \in Calls : s.ledger[c].state \notin ActiveStates
           /\ s.scope.active = 0 /\ s.scope.reserved = 0
           /\ NoMaterializationDrift(s)

\* An import is the first thing ever written into the target, at the head
\* revision: two imports, or an import and an application, never mix, even
\* when a COMMIT lands after its importer has given up on it.
ImportsIntoEmptyHead ==
    \A k \in 1..Len(target.log) :
        target.log[k].by # "app" => k = 1 /\ target.log[k].head

\* What the exit code says of the target is true and stays true: 2 means
\* that nothing of this import is there or will come, 0 and 3 that it is.
ExitCodesTrue ==
    \A i \in Importers :
        /\ imp[i].exit = "2" => i \notin Imported /\ backend[i] # "sent"
        /\ imp[i].exit \in {"0", "3"} => i \in Imported

\* Two importers never wait for each other's table locks: only one at a time
\* is past the advisory lock.
ImportersNeverStandOff ==
    \A i, j \in Importers :
        i # j /\ imp[i].pc = "lock" /\ imp[j].pc = "lock"
            => ~({i, j} \subseteq reading)

\* The import as import_sqlite_to_postgres promises it: a source at rest, all
\* of it, once, into an empty target at head, with exit codes that are true,
\* and no two importers that wait for each other.
ImportInv ==
    /\ ImportsRestingSource /\ ImportsIntoEmptyHead
    /\ ExitCodesTrue /\ ImportersNeverStandOff
=============================================================================
