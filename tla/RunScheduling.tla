---------------------------- MODULE RunScheduling ----------------------------
(***************************************************************************)
(* Which Run is served next.  Policies are applied (apply_policy), Runs    *)
(* are admitted against the backlog and freeze the active policy           *)
(* (admit_run), and workers go through reap, scan, claim and one slice     *)
(* (WorkerService.run, RunLeaseRepository.due_run_ids and claim).  A scan  *)
(* and the claim of what it found are two steps, and a delivery of Redis   *)
(* names a Run without a scan.                                             *)
(*                                                                         *)
(* The quantum is one question.  Times are ranks: only the order of the    *)
(* scheduling keys matters, and two keys may be equal.                     *)
(***************************************************************************)
EXTENDS Integers, FiniteSets, Sequences

CONSTANTS SchedWorkers,
          SchedRuns,
          Docs,           \* policy documents, by content hash
          DefaultDoc,     \* the one ensure_default_policy bootstraps
          BacklogLimit,   \* doc -> backlog_limit
          WindowLimit,    \* doc -> global requests per minute
          RunQuestions,   \* total_questions of every Run
          RunAttempts,    \* max_attempts
          CoarseClock,    \* readings may repeat: SQLite counts whole seconds
          MaxCorrupt      \* bound on ledgers found corrupt

ASSUME SchedulingAssumption ==
    /\ DefaultDoc \in Docs
    /\ BacklogLimit \in [Docs -> Nat] /\ WindowLimit \in [Docs -> Nat]
    /\ {RunQuestions, RunAttempts} \subseteq Nat \ {0} /\ MaxCorrupt \in Nat
    /\ CoarseClock \in BOOLEAN
    /\ IsFiniteSet(SchedRuns) /\ IsFiniteSet(SchedWorkers)

VARIABLES versions,   \* governance_policies: version -> document
          current,    \* the active version
          bucket,     \* version -> requests of the current minute
          queue,      \* run -> its row
          admission,  \* run -> the backlog its admit_run counted, or NotAsking
          worker,     \* worker -> where its loop is
          corrupted,  \* how many ledgers were found corrupt so far
          passed      \* history: r -> x -> claims of x while r waited

schedVars == <<versions, current, bucket, queue, admission, worker, corrupted, passed>>

Absent  == [state |-> "absent"]
AtReap  == [pc |-> "reap"]
NotAsking == -1

\* The row lock on the global scope, from the first read of admit_run to the commit.
GlobalScopeFree == \A r \in SchedRuns : admission[r] = NotAsking

Present(rows)  == {r \in SchedRuns : rows[r].state # "absent"}
Backlog(rows)  == {r \in SchedRuns : rows[r].state \in {"pending", "running", "expired"}}
PolicyOf(r)    == versions[queue[r].version]

SchedInit ==
    /\ versions = <<DefaultDoc>> /\ current = 1 /\ bucket = <<0>>
    /\ queue = [r \in SchedRuns |-> Absent] /\ admission = [r \in SchedRuns |-> NotAsking]
    /\ worker = [w \in SchedWorkers |-> AtReap] /\ corrupted = 0
    /\ passed = [r \in SchedRuns |-> [x \in SchedRuns |-> 0]]

-----------------------------------------------------------------------------
(* The order of service.                                                   *)

\* _eligible, without the cancelled and the complete.
Ready(row) ==
    \/ row.state = "pending" /\ ~row.delayed
    \/ row.state = "expired" /\ row.failed + 1 < RunAttempts

ReadyRuns == {r \in SchedRuns : Ready(queue[r])}

\* Slip: ORDER BY ... DESC.
Before_NewestFirst(r, x) ==
    \/ queue[r].state = "expired" /\ queue[x].state # "expired"
    \/ /\ (queue[r].state = "expired") <=> (queue[x].state = "expired")
       /\ \/ queue[r].key > queue[x].key
          \/ queue[r].key = queue[x].key /\ queue[r].created > queue[x].created

\* ORDER BY expired_first, coalesce(last_scheduled_at, created_at), created_at, id
Before(r, x) ==
    \/ queue[r].state = "expired" /\ queue[x].state # "expired"
    \/ /\ (queue[r].state = "expired") <=> (queue[x].state = "expired")
       /\ \/ queue[r].key < queue[x].key
          \/ queue[r].key = queue[x].key /\ queue[r].created < queue[x].created

\* Keys are compressed to their ranks; `now' is later than every
\* key, or as late as the latest where the clock is coarse.
Rank(rows, k) == Cardinality({rows[r].key : r \in {r \in Present(rows) : rows[r].key < k}})
Ranked(rows)  == [r \in SchedRuns |->
                    IF rows[r].state = "absent" THEN Absent
                    ELSE [rows[r] EXCEPT !.key = Rank(rows, @)]]
Now == LET keys == {queue[r].key : r \in Present(queue)} \cup {0}
           last == CHOOSE k \in keys : \A l \in keys : l <= k
       IN  {last + 1} \cup (IF CoarseClock THEN {last} ELSE {})

\* The history after a step to `rows' that claims the Runs of `claimed'.
PassedBy(rows, claimed) ==
    [r \in SchedRuns |-> [x \in SchedRuns |->
        IF ~Ready(rows[r]) THEN 0
        ELSE passed[r][x] + IF x \in claimed /\ r # x THEN 1 ELSE 0]]

SetQueue(rows, claimed) == queue' = Ranked(rows) /\ passed' = PassedBy(rows, claimed)

-----------------------------------------------------------------------------
(* Policies and admission.                                                 *)

\* Slip: a document that was active before becomes a new version.
ApplyPolicy_Appends(d) ==
    /\ GlobalScopeFree /\ versions[current] # d /\ Len(versions) < Cardinality(Docs) + 1
    /\ versions' = Append(versions, d) /\ bucket' = Append(bucket, 0)
    /\ current' = Len(versions) + 1
    /\ UNCHANGED <<queue, admission, worker, corrupted, passed>>

\* apply_policy: an older document is activated again, a new one is the next
\* version; the active one is left as it is.
ApplyPolicy(d) ==
    /\ GlobalScopeFree /\ versions[current] # d
    /\ \/ \E v \in DOMAIN versions :
             versions[v] = d /\ current' = v /\ UNCHANGED <<versions, bucket>>
       \/ /\ d \notin {versions[v] : v \in DOMAIN versions}
          /\ versions' = Append(versions, d) /\ bucket' = Append(bucket, 0)
          /\ current' = Len(versions) + 1
    /\ UNCHANGED <<queue, admission, worker, corrupted, passed>>

\* Slip: the backlog is counted before the global scope is locked.
CountBacklog_Unlocked(r) ==
    /\ queue[r].state = "absent" /\ admission[r] = NotAsking
    /\ admission' = [admission EXCEPT ![r] = Cardinality(Backlog(queue))]
    /\ UNCHANGED <<versions, current, bucket, queue, worker, corrupted, passed>>

\* admit_run takes the global scope and counts the managed backlog.
CountBacklog(r) ==
    /\ queue[r].state = "absent" /\ GlobalScopeFree
    /\ admission' = [admission EXCEPT ![r] = Cardinality(Backlog(queue))]
    /\ UNCHANGED <<versions, current, bucket, queue, worker, corrupted, passed>>

\* It refuses a full backlog, or inserts the Run under the active policy.
AdmitRun(r) ==
    LET full == admission[r] >= BacklogLimit[versions[current]]
    IN /\ admission[r] # NotAsking /\ admission' = [admission EXCEPT ![r] = NotAsking]
       /\ \/ full /\ UNCHANGED <<queue, passed>>
          \/ /\ ~full
             /\ \E now \in Now :
                  SetQueue([queue EXCEPT ![r] =
                      [state |-> "pending", version |-> current, key |-> now,
                       created |-> Cardinality(Present(queue)) + 1, delayed |-> FALSE,
                       failed |-> 0, left |-> RunQuestions, corrupt |-> FALSE]], {})
       /\ UNCHANGED <<versions, current, bucket, worker, corrupted>>

-----------------------------------------------------------------------------
(* The worker's loop.                                                      *)

ExpiredRuns == {r \in SchedRuns : queue[r].state = "expired"}

\* FailRow of RunRow: another attempt after a delay, or dead-lettered.
Failed(row) ==
    [row EXCEPT !.failed = @ + 1,
                !.state = IF row.failed + 1 >= RunAttempts THEN "done" ELSE "pending",
                !.delayed = row.failed + 1 < RunAttempts]

\* Slip: the rows of a batch are reaped although one ledger is corrupt.
Reap_Regardless(w) ==
    /\ worker[w].pc = "reap"
    /\ worker' = [worker EXCEPT ![w] = [pc |-> "scan"]]
    /\ SetQueue([r \in SchedRuns |-> IF r \in ExpiredRuns THEN Failed(queue[r]) ELSE queue[r]], {})
    /\ UNCHANGED <<versions, current, bucket, admission, corrupted>>

\* reap_expired: the ledgers of the whole batch are reconciled before any row
\* is touched.  A corrupt one raises, and the worker pauses before its scan.
Reap(w) ==
    /\ worker[w].pc = "reap"
    /\ ~\E r \in ExpiredRuns : queue[r].corrupt
    /\ worker' = [worker EXCEPT ![w] = [pc |-> "scan"]]
    /\ SetQueue([r \in SchedRuns |-> IF r \in ExpiredRuns THEN Failed(queue[r]) ELSE queue[r]], {})
    /\ UNCHANGED <<versions, current, bucket, admission, corrupted>>

\* due_run_ids(limit=1), or on to the queue.
Scan(w) ==
    /\ worker[w].pc = "scan"
    /\ \/ /\ ReadyRuns = {}
          /\ worker' = [worker EXCEPT ![w] = [pc |-> "redis"]]
       \/ \E r \in ReadyRuns :
             /\ \A x \in ReadyRuns \ {r} : Before(r, x)
             /\ worker' = [worker EXCEPT ![w] = [pc |-> "claim", run |-> r]]
    /\ UNCHANGED <<versions, current, bucket, queue, admission, corrupted, passed>>

\* A delivery names a Run, whatever has become ready meanwhile, or none comes.
Deliver(w) ==
    /\ worker[w].pc = "redis"
    /\ \/ worker' = [worker EXCEPT ![w] = AtReap]
       \/ \E r \in Present(queue) : worker' = [worker EXCEPT ![w] = [pc |-> "claim", run |-> r]]
    /\ UNCHANGED <<versions, current, bucket, queue, admission, corrupted, passed>>

\* claim: nothing if the Run is no longer eligible.
ClaimFound(w) ==
    LET r   == worker[w].run
        row == queue[r]
    IN /\ worker[w].pc = "claim"
       /\ \/ /\ ~Ready(row)
             /\ worker' = [worker EXCEPT ![w] = AtReap]
             /\ UNCHANGED <<queue, passed>>
          \/ /\ Ready(row)
             /\ worker' = [worker EXCEPT ![w].pc = IF row.state = "expired" THEN "takeover" ELSE "slice"]
             /\ \E now \in Now :
                  SetQueue([queue EXCEPT ![r] =
                      [row EXCEPT !.state = "running", !.key = now,
                                  !.failed = IF row.state = "expired" THEN @ + 1 ELSE @]], {r})
       /\ UNCHANGED <<versions, current, bucket, admission, corrupted>>

\* claim, after its commit: the displaced lease is reconciled, and a corrupt
\* ledger ends the Run (_fail_closed_takeover).
ReconcileTakeover(w) ==
    LET r == worker[w].run
    IN /\ worker[w].pc = "takeover"
       /\ \/ /\ queue[r].corrupt
             /\ SetQueue([queue EXCEPT ![r].state = "done"], {})
             /\ worker' = [worker EXCEPT ![w] = AtReap]
          \/ /\ ~queue[r].corrupt
             /\ worker' = [worker EXCEPT ![w].pc = "slice"]
             /\ UNCHANGED <<queue, passed>>
       /\ UNCHANGED <<versions, current, bucket, admission, corrupted>>

\* One question is sent in the window of the Run's own policy and stored; the
\* Run is complete, or yields with a new scheduling key (cooperative_yield).
Slice(w) ==
    LET r == worker[w].run
        v == queue[r].version
    IN /\ worker[w].pc = "slice"
       /\ bucket[v] < WindowLimit[PolicyOf(r)]
       /\ bucket' = [bucket EXCEPT ![v] = @ + 1]
       /\ \/ /\ queue[r].left = 1
             /\ SetQueue([queue EXCEPT ![r].left = 0, ![r].state = "done"], {})
          \/ /\ queue[r].left # 1
             /\ \E now \in Now :
                  SetQueue([queue EXCEPT ![r].left = @ - 1, ![r].state = "pending", ![r].key = now], {})
       /\ worker' = [worker EXCEPT ![w] = AtReap]
       /\ UNCHANGED <<versions, current, admission, corrupted>>

\* The window is full: defer_governance.
Defer(w) ==
    LET r == worker[w].run
    IN /\ worker[w].pc = "slice"
       /\ bucket[queue[r].version] >= WindowLimit[PolicyOf(r)]
       /\ SetQueue([queue EXCEPT ![r].state = "pending", ![r].delayed = TRUE], {})
       /\ worker' = [worker EXCEPT ![w] = AtReap]
       /\ UNCHANGED <<versions, current, bucket, admission, corrupted>>

\* The worker dies in a slice and is started again; its lease expires, and
\* what it leaves in the ledger may fail validation.
Die(w) ==
    LET r == worker[w].run
    IN /\ worker[w].pc \in {"takeover", "slice"}
       /\ \E bad \in {0, 1} :
            /\ corrupted + bad <= MaxCorrupt /\ corrupted' = corrupted + bad
            /\ SetQueue([queue EXCEPT ![r].state = "expired", ![r].corrupt = @ \/ bad = 1], {})
       /\ worker' = [worker EXCEPT ![w] = AtReap]
       /\ UNCHANGED <<versions, current, bucket, admission>>

\* governance_not_before or next_attempt_at passes.
DelayOver(r) ==
    /\ queue[r].state = "pending" /\ queue[r].delayed
    /\ SetQueue([queue EXCEPT ![r].delayed = FALSE], {})
    /\ UNCHANGED <<versions, current, bucket, admission, worker, corrupted>>

\* A new UTC minute has buckets of its own.
NextMinute ==
    /\ bucket' = [v \in DOMAIN bucket |-> 0]
    /\ UNCHANGED <<versions, current, queue, admission, worker, corrupted, passed>>

SchedNext ==
    \/ \E d \in Docs : ApplyPolicy(d)
    \/ \E r \in SchedRuns : CountBacklog(r) \/ AdmitRun(r) \/ DelayOver(r)
    \/ NextMinute
    \/ \E w \in SchedWorkers :
          \/ Reap(w) \/ Scan(w) \/ Deliver(w) \/ ClaimFound(w)
          \/ ReconcileTakeover(w) \/ Slice(w) \/ Defer(w) \/ Die(w)

SchedSpec == SchedInit /\ [][SchedNext]_schedVars

-----------------------------------------------------------------------------

\* While a Run waits and could be executed, another one is served at most
\* once by every worker, and once more by every worker for each lease it lost:
\* a worker acts once on what it saw before, and its later scans find the Run
\* that waits first unless the other one has just expired.
BoundedBypass ==
    \A r, x \in SchedRuns :
        passed[r][x] > 0 =>
            passed[r][x] <= Cardinality(SchedWorkers) * (1 + queue[x].failed)

\* ADR-0009 7: a Run that can be executed is served, at the latest, when every
\* other one that can has had one slice; lost leases are not counted.
ServedAfterOneSliceEach ==
    \A r, x \in SchedRuns : passed[r][x] > 0 => passed[r][x] <= 1 + queue[x].failed

\* No worker executes a Run whose ledger of an earlier lease failed
\* validation, whichever of the reaper, a takeover and a crash came first.
CorruptLedgerStops ==
    \A w \in SchedWorkers : worker[w].pc = "slice" => ~queue[worker[w].run].corrupt

\* However often policies are applied within a minute, the Runs admitted
\* under one document send no more than it allows.
WindowOfOneDocument ==
    \A v, u \in DOMAIN versions :
        versions[v] = versions[u] =>
            bucket[v] + (IF u # v THEN bucket[u] ELSE 0) <= WindowLimit[versions[v]]

\* A Run is only inserted within the backlog limit of the policy it freezes.
AdmittedWithinLimit ==
    [][\A r \in SchedRuns :
          queue[r].state = "absent" /\ queue'[r].state # "absent" =>
              Cardinality(Backlog(queue')) <= BacklogLimit[versions[queue'[r].version]]]_schedVars

\* Neither a ledger that failed validation nor a change of policy lets a Run
\* be served beyond what governance allows (reap_expired, apply_policy).
ServiceInv == CorruptLedgerStops /\ WindowOfOneDocument
=============================================================================
