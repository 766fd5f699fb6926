--------------------------- MODULE AuditRetention ---------------------------
(***************************************************************************)
(* The maintenance commands of llmbenchlab-audit-retention over the        *)
(* audit_events table and a directory of archive files: archive, verify,   *)
(* reconcile, restore and delete, run by several operators at once, with   *)
(* processes killed, hosts crashing, directory syncs failing and commits   *)
(* whose acknowledgement is lost.                                          *)
(*                                                                         *)
(* An archive file is the record of the rows it lists and its cutoff; two  *)
(* files have one digest exactly if they are the same record.  Operators   *)
(* keep the documented order archive, verify, delete: a path is verified   *)
(* only after an archive command has reported success for it.              *)
(***************************************************************************)
EXTENDS Integers, FiniteSets

CONSTANTS Operators,      \* maintenance processes
          Paths,          \* output paths in the archive directory
          Keys,           \* event keys
          Retention,      \* time an event is kept
          ArchiveLimit,     \* ARCHIVE_EVENT_LIMIT
          MaxEvents,      \* bound on appended events
          MaxClock        \* bound on the database clock

ASSUME RetentionAssumption ==
    /\ Retention \in Nat /\ ArchiveLimit \in Nat \ {0}
    /\ MaxEvents \in Nat /\ MaxClock \in Nat

VARIABLES rows,       \* audit_events
          appended,   \* every row ever appended (history)
          clock,      \* database UTC now
          files,      \* directory: path -> archive or NoFile
          durable,    \* paths whose directory entry has been synced
          archived,   \* paths an archive command reported as written
          verified,   \* per operator: the archive whose digest verify printed
          op,         \* per operator: its command in progress and last exit
          lock        \* holder of the advisory transaction lock

retVars == <<rows, appended, clock, files, durable, archived, verified, op, lock>>

NoFile == [cutoff |-> -1, events |-> {}]
NoOne  == "nobody"

ASSUME OperatorAssumption == NoOne \notin Operators

AuditEvent  == [id: 1..MaxEvents, key: Keys, expires: 0..(MaxClock + Retention)]
Archive == [cutoff: -1..MaxClock, events: SUBSET AuditEvent]

\* A process between commands, with the exit code of the last one; changed
\* says whether a command whose commit was acknowledged is still at work, or
\* ended as if nothing had been committed.
Idle(exit, changed) ==
    [pc |-> "idle", cmd |-> "none", path |-> "none", arc |-> NoFile,
     staged |-> {}, exit |-> exit, changed |-> changed /\ exit = 2]

RetInit ==
    /\ rows = {} /\ appended = {} /\ clock = 0
    /\ files = [p \in Paths |-> NoFile] /\ durable = {} /\ archived = {}
    /\ verified = [o \in Operators |-> NoFile]
    /\ op = [o \in Operators |-> Idle(0, FALSE)]
    /\ lock = NoOne

-----------------------------------------------------------------------------
(* The application side.                                                   *)

Staged == UNION {op[o].staged : o \in Operators}

\* append_audit_event: insert unless the key is there; a transaction that
\* holds the key uncommitted makes the insert wait.
AppendEvent(k) ==
    /\ Cardinality(appended) < MaxEvents
    /\ \A e \in rows \cup Staged : e.key # k
    /\ LET e == [id |-> Cardinality(appended) + 1, key |-> k,
                 expires |-> clock + Retention]
       IN /\ rows' = rows \cup {e}
          /\ appended' = appended \cup {e}
    /\ UNCHANGED <<clock, files, durable, archived, verified, op, lock>>

ClockTick ==
    /\ clock < MaxClock
    /\ clock' = clock + 1
    /\ UNCHANGED <<rows, appended, files, durable, archived, verified, op, lock>>

-----------------------------------------------------------------------------
(* archive                                                                 *)

Before(e, f) == e.expires < f.expires \/ (e.expires = f.expires /\ e.id < f.id)

\* The first ArchiveLimit expired rows by expiry and id, read in one snapshot.
Archivable(now) ==
    LET expired == {e \in rows : e.expires < now}
    IN {e \in expired : Cardinality({f \in expired : Before(f, e)}) < ArchiveLimit}

\* build_archive_bytes: what a file lists is unique by id and by key, and
\* had expired at its cutoff; verify_archive accepts nothing else.
ValidArchive(arc) ==
    /\ arc # NoFile
    /\ Cardinality(arc.events) <= ArchiveLimit
    /\ \A e, f \in arc.events : (e.id = f.id \/ e.key = f.key) => e = f
    /\ \A e \in arc.events : e.expires < arc.cutoff

ArchiveSnapshot(o, p) ==
    /\ op[o].pc = "idle"
    /\ op' = [op EXCEPT ![o] = [Idle(0, FALSE) EXCEPT
                !.pc = "link", !.cmd = "archive", !.path = p,
                !.arc = [cutoff |-> clock, events |-> Archivable(clock)]]]
    /\ UNCHANGED <<rows, appended, clock, files, durable, archived, verified, lock>>

\* os.link of the complete temporary file, never over an existing name.
LinkTarget(o) ==
    /\ op[o].pc = "link"
    /\ IF files[op[o].path] = NoFile /\ ValidArchive(op[o].arc)
         THEN /\ files' = [files EXCEPT ![op[o].path] = op[o].arc]
              /\ op' = [op EXCEPT ![o].pc = "sync"]
         ELSE /\ op' = [op EXCEPT ![o] = Idle(2, op[o].changed)]
              /\ UNCHANGED files
    /\ UNCHANGED <<rows, appended, clock, durable, archived, verified, lock>>

\* The directory entry is on disk before the archive is reported.
FsyncDirectory(o) ==
    /\ op[o].pc = "sync"
    /\ durable' = durable \cup {op[o].path}
    /\ archived' = archived \cup {op[o].path}
    /\ op' = [op EXCEPT ![o] = Idle(0, FALSE)]
    /\ UNCHANGED <<rows, appended, clock, files, verified, lock>>

\* Slip: the clean-up removes the target whoever made it.
WriteFails_AnyTarget(o) ==
    /\ op[o].pc \in {"link", "sync"}
    /\ files' = [files EXCEPT ![op[o].path] = NoFile]
    /\ op' = [op EXCEPT ![o] = Idle(2, op[o].changed)]
    /\ UNCHANGED <<rows, appended, clock, durable, archived, verified, lock>>

\* Any file-system error: the target is removed only if this command made it.
WriteFails(o) ==
    /\ op[o].pc \in {"link", "sync"}
    /\ files' = IF op[o].pc = "sync" THEN [files EXCEPT ![op[o].path] = NoFile]
                                     ELSE files
    /\ op' = [op EXCEPT ![o] = Idle(2, op[o].changed)]
    /\ UNCHANGED <<rows, appended, clock, durable, archived, verified, lock>>

-----------------------------------------------------------------------------
(* verify, and the start of a command that confirms a digest               *)

VerifyArchive(o, p) ==
    /\ op[o].pc = "idle" /\ p \in archived /\ ValidArchive(files[p])
    /\ verified' = [verified EXCEPT ![o] = files[p]]
    /\ UNCHANGED <<rows, appended, clock, files, durable, archived, op, lock>>

\* verify_archive reads the file once more; confirm_archive_digest compares.
Confirm(o, cmd, p) ==
    /\ op[o].pc = "idle" /\ verified[o] # NoFile
    /\ op' = [op EXCEPT ![o] =
                IF ValidArchive(files[p]) /\ files[p] = verified[o]
                  THEN [Idle(0, FALSE) EXCEPT !.pc = "begin", !.cmd = cmd,
                                               !.path = p, !.arc = files[p]]
                  ELSE Idle(2, op[o].changed)]
    /\ UNCHANGED <<rows, appended, clock, files, durable, archived, verified, lock>>

-----------------------------------------------------------------------------
(* The mutation transaction of restore and delete                          *)

Exact(arc)    == arc.events \cap rows
Absent(arc)   == {e \in arc.events : \A r \in rows : r.id # e.id /\ r.key # e.key}

\* _classify
Status(arc) ==
    IF arc.events = {} THEN "empty_archive"
    ELSE IF arc.events \ (Exact(arc) \cup Absent(arc)) # {} THEN "conflict"
    ELSE IF Absent(arc) = {} THEN "all_exact"
    ELSE IF Exact(arc) = {} THEN "all_absent"
    ELSE "mixed_exact_absent"

BeginMutation(o) ==
    /\ op[o].pc = "begin" /\ lock = NoOne
    /\ lock' = o
    /\ op' = [op EXCEPT ![o].pc = "classify"]
    /\ UNCHANGED <<rows, appended, clock, files, durable, archived, verified>>

\* Slip: the transaction is left open when the command leaves it.
RollBack_KeepsLock(o, process) == /\ op' = [op EXCEPT ![o] = process]
                                  /\ UNCHANGED lock

\* Leave the transaction with nothing to commit.
RollBack(o, process) == /\ op' = [op EXCEPT ![o] = process]
                        /\ lock' = NoOne

PastRetention(arc) == clock >= arc.cutoff /\ \A e \in arc.events : e.expires < clock

\* Slip: a partly absent archive is deleted like a complete one.
StageDelete_Mixed(o) ==
    LET arc == op[o].arc IN
    /\ op[o].pc = "classify" /\ op[o].cmd = "delete"
    /\ \/ /\ ~PastRetention(arc) \/ Status(arc) = "conflict"
          /\ RollBack(o, Idle(2, op[o].changed))
       \/ /\ PastRetention(arc) /\ Status(arc) \in {"all_absent", "empty_archive"}
          /\ RollBack(o, [op[o] EXCEPT !.pc = "post"])
       \/ /\ PastRetention(arc) /\ Status(arc) \in {"all_exact", "mixed_exact_absent"}
          /\ op' = [op EXCEPT ![o].pc = "commit", ![o].staged = Exact(arc)]
          /\ UNCHANGED lock
    /\ UNCHANGED <<rows, appended, clock, files, durable, archived, verified>>

\* delete_archive_events up to its COMMIT: the exact rows are locked, so
\* comparing and deleting them is one step.
StageDelete(o) ==
    LET arc == op[o].arc IN
    /\ op[o].pc = "classify" /\ op[o].cmd = "delete"
    /\ \/ /\ ~PastRetention(arc) \/ Status(arc) \in {"conflict", "mixed_exact_absent"}
          /\ RollBack(o, Idle(2, op[o].changed))
       \/ /\ PastRetention(arc) /\ Status(arc) \in {"all_absent", "empty_archive"}
          /\ RollBack(o, [op[o] EXCEPT !.pc = "post"])
       \/ /\ PastRetention(arc) /\ Status(arc) = "all_exact"
          /\ op' = [op EXCEPT ![o].pc = "commit", ![o].staged = arc.events]
          /\ UNCHANGED lock
    /\ UNCHANGED <<rows, appended, clock, files, durable, archived, verified>>

\* restore_archive up to its flush: the absent rows are found here ...
ClassifyRestore(o) ==
    LET arc == op[o].arc IN
    /\ op[o].pc = "classify" /\ op[o].cmd = "restore"
    /\ \/ /\ Status(arc) = "conflict"
          /\ RollBack(o, Idle(2, op[o].changed))
       \/ /\ Status(arc) \in {"all_exact", "empty_archive"}
          /\ RollBack(o, [op[o] EXCEPT !.pc = "post"])
       \/ /\ Status(arc) \in {"all_absent", "mixed_exact_absent"}
          /\ op' = [op EXCEPT ![o].pc = "flush"]
          /\ UNCHANGED lock
    /\ UNCHANGED <<rows, appended, clock, files, durable, archived, verified>>

\* ... and read again and inserted here, where an application transaction
\* may have appended one of their keys in between.
FlushRestore(o) ==
    /\ op[o].pc = "flush"
    /\ op' = [op EXCEPT ![o].pc = "commit", ![o].staged = Absent(op[o].arc)]
    /\ UNCHANGED <<rows, appended, clock, files, durable, archived, verified, lock>>

Applied(o) == IF op[o].cmd = "delete" THEN rows \ op[o].staged
                                      ELSE rows \cup op[o].staged

CommitAcknowledged(o) ==
    /\ op[o].pc = "commit"
    /\ rows' = Applied(o)
    /\ RollBack(o, [op[o] EXCEPT !.pc = "post", !.staged = {}, !.changed = TRUE])
    /\ UNCHANGED <<appended, clock, files, durable, archived, verified>>

\* session.commit() raises: the command exits with 4 while the server may
\* have committed, may have rolled back, or may still be at it.
CommitUnknown(o) ==
    /\ op[o].pc = "commit"
    /\ \/ rows' = Applied(o) /\ RollBack(o, Idle(4, TRUE))
       \/ UNCHANGED rows     /\ RollBack(o, Idle(4, FALSE))
       \/ /\ op' = [op EXCEPT ![o].pc = "inflight", ![o].exit = 4]
          /\ UNCHANGED <<rows, lock>>
    /\ UNCHANGED <<appended, clock, files, durable, archived, verified>>

\* The server finishes a COMMIT its client has given up on.
ServerCommits(o) ==
    /\ op[o].pc = "inflight"
    /\ rows' = Applied(o)
    /\ RollBack(o, Idle(4, TRUE))
    /\ UNCHANGED <<appended, clock, files, durable, archived, verified>>

\* Slip: a failed check after COMMIT is reported like one before it.
PrecommitFails_Always(o) ==
    /\ op[o].pc \in {"begin", "classify", "flush", "post"}
    /\ op' = [op EXCEPT ![o] = Idle(2, op[o].changed)]
    /\ lock' = IF lock = o THEN NoOne ELSE lock
    /\ UNCHANGED <<rows, appended, clock, files, durable, archived, verified>>

\* A database error before COMMIT rolls back and exits with 2.
PrecommitFails(o) ==
    /\ op[o].pc \in {"begin", "classify", "flush"}
    /\ op' = [op EXCEPT ![o] = Idle(2, op[o].changed)]
    /\ lock' = IF lock = o THEN NoOne ELSE lock
    /\ UNCHANGED <<rows, appended, clock, files, durable, archived, verified>>

\* _postcommit_report in a snapshot of its own, which may fail.
Wanted(cmd) == IF cmd = "delete" THEN {"all_absent", "empty_archive"}
                                 ELSE {"all_exact", "empty_archive"}
PostCommit(o) ==
    /\ op[o].pc = "post"
    /\ \/ /\ Status(op[o].arc) \in Wanted(op[o].cmd)
          /\ op' = [op EXCEPT ![o] = Idle(0, op[o].changed)]
       \/ op' = [op EXCEPT ![o] = Idle(3, op[o].changed)]
    /\ UNCHANGED <<rows, appended, clock, files, durable, archived, verified, lock>>

-----------------------------------------------------------------------------
(* Faults                                                                  *)

\* A killed process leaves its files; its open transaction is rolled back.
Kill(o) ==
    /\ op[o].pc \notin {"idle", "inflight"}
    /\ op' = [op EXCEPT ![o] = Idle(9, op[o].changed)]
    /\ lock' = IF lock = o THEN NoOne ELSE lock
    /\ UNCHANGED <<rows, appended, clock, files, durable, archived, verified>>

\* The maintenance host stops: directory entries not synced may be gone.
HostCrash ==
    /\ \E lost \in SUBSET (Paths \ durable) :
         files' = [p \in Paths |-> IF p \in lost THEN NoFile ELSE files[p]]
    /\ op' = [o \in Operators |-> IF op[o].pc = "inflight" THEN op[o]
                                  ELSE Idle(9, op[o].changed)]
    /\ lock' = IF lock \in Operators /\ op[lock].pc = "inflight" THEN lock ELSE NoOne
    /\ UNCHANGED <<rows, appended, clock, durable, archived, verified>>

RetNext ==
    \/ \E k \in Keys : AppendEvent(k)
    \/ ClockTick
    \/ \E o \in Operators :
         \/ \E p \in Paths : ArchiveSnapshot(o, p) \/ VerifyArchive(o, p)
         \/ \E p \in Paths, cmd \in {"delete", "restore"} : Confirm(o, cmd, p)
         \/ LinkTarget(o) \/ FsyncDirectory(o) \/ WriteFails(o)
         \/ BeginMutation(o) \/ StageDelete(o) \/ ClassifyRestore(o) \/ FlushRestore(o)
         \/ CommitAcknowledged(o) \/ CommitUnknown(o) \/ ServerCommits(o)
         \/ PrecommitFails(o) \/ PostCommit(o) \/ Kill(o)
    \/ HostCrash

RetSpec == RetInit /\ [][RetNext]_retVars

-----------------------------------------------------------------------------
(* Properties                                                              *)

Process == [pc: {"idle", "link", "sync", "begin", "classify", "flush", "commit",
                 "inflight", "post"},
            cmd: {"none", "archive", "delete", "restore"}, path: Paths \cup {"none"},
            arc: Archive, staged: SUBSET AuditEvent, exit: {0, 2, 3, 4, 9},
            changed: BOOLEAN]

\* The types, and the lock's discipline: a transaction past BEGIN holds it.
RetTypeOK ==
    /\ rows \subseteq appended /\ appended \subseteq AuditEvent /\ clock \in 0..MaxClock
    /\ files \in [Paths -> Archive] /\ durable \subseteq Paths
    /\ archived \subseteq durable
    /\ verified \in [Operators -> Archive] /\ op \in [Operators -> Process]
    /\ \A o \in Operators :
         lock = o <=> op[o].pc \in {"classify", "flush", "commit", "inflight"}

\* No audit event is ever lost: each one appended is in the table or listed
\* in an archive file, through every crash, failed sync, lost COMMIT
\* acknowledgement and re-used event key (write_archive_no_replace,
\* delete_archive_events, restore_archive).
NothingLost ==
    \A e \in appended : e \in rows \/ \E p \in Paths : e \in files[p].events

\* delete_archive_events removes an expired row only together with all the
\* other rows of an archive that is still in the directory.
DeletesWholeArchives ==
    [][\A e \in rows \ rows' :
         /\ e.expires < clock
         /\ \E p \in Paths : /\ e \in files[p].events
                             /\ files[p].events \subseteq rows
                             /\ files[p].events \cap rows' = {}]_retVars

\* A command that ends with exit code 2 has changed nothing: whatever fails
\* after the COMMIT is reported as 3, and a COMMIT in doubt as 4.
RefusalChangesNothing == \A o \in Operators : op[o].exit = 2 => ~op[o].changed

\* Retention as an operator may rely on it: the lock's discipline, no event
\* lost, and no refusal that changed something.
RetentionInv == RetTypeOK /\ NothingLost /\ RefusalChangesNothing
=============================================================================
