----------------------------- MODULE WorkerQueue -----------------------------
(***************************************************************************)
(* WorkerService.run (backend/app/workers/service.py) over the Redis       *)
(* Streams notification queue (backend/app/task_queue/redis_streams.py).   *)
(*                                                                         *)
(* The database is the truth and a notification is only a hint: each turn  *)
(* of a worker's loop reaps expired leases, executes a due Run if the scan *)
(* finds one, and only then asks Redis for a delivery.  Redis may be down, *)
(* forget everything, trim the stream, or perform a command whose reply    *)
(* never arrives; workers crash, or are told to stop.                      *)
(*                                                                         *)
(* What happens inside an execution is module EvaluationRunner's; here it  *)
(* is a claim, and an end that says whether the delivery may be ACKed.     *)
(***************************************************************************)
EXTENDS Naturals, FiniteSets, FiniteSetsExt, Functions

CONSTANTS
    Workers,
    Mortal,             \* the workers that may crash or be told to stop
    Runs,
    NoWorker, NoRun,
    Garbage,            \* a message _delivery rejects
    MaxTries,           \* slices and failed attempts a Run has before it ends
    MaxLength,          \* redis: task_stream_max_length
    HeartbeatErrors,    \* whether the heartbeat's database call may fail: the cases
    MaxMessages,        \* bound: messages ever added to the stream
    MaxUnstable,        \* bound: the same where the heartbeat may fail
    MaxFaults           \* bound: Redis outages, losses and lost replies

ASSUME QueueAssumption ==
    /\ IsFiniteSet(Workers) /\ Mortal \subseteq Workers
    /\ NoWorker \notin Workers /\ NoRun \notin Runs /\ Garbage \notin Runs
    /\ MaxTries \in Nat /\ MaxLength \in Nat \ {0}
    /\ HeartbeatErrors \subseteq BOOLEAN
    /\ MaxMessages \in Nat /\ MaxUnstable \in 0..MaxMessages /\ MaxFaults \in Nat

VARIABLES
    run,        \* the rows of evaluation_runs
    unsent,     \* Runs committed by create_run and not yet published
    unstable,   \* the case this behaviour is in: the heartbeat may fail
    worker,     \* the memory of each worker's loop
    stop,       \* the workers whose stop event is set
    up,         \* Redis answers
    log,        \* the stream: id -> message
    last,       \* the last id issued
    group,      \* the consumer group: made, and its last-delivered-id
    pel,        \* its pending entries: id -> consumer
    idle,       \* pending entries idle for worker_lease_seconds
    faults      \* Redis faults so far

redis == <<up, log, last, group, pel, idle, faults>>
vars  == <<run, unsent, unstable, worker, stop, redis>>

Ids == 1..MaxMessages
Pcs == {"reap", "scan", "fetch", "read", "start", "executing", "settle", "stopped"}

\* The memory of a loop that takes up a job, or none, with what it knows of
\* the queue: ready, the consumer group was ensured; cursor, where to claim from.
Begin(pc, job, msg, safe, link) ==
    [pc |-> pc, job |-> job, msg |-> msg, ran |-> FALSE, safe |-> safe,
     ready |-> link.ready, cursor |-> link.cursor]
Resting(pc, link) == Begin(pc, NoRun, 0, FALSE, link)
Disconnected      == [ready |-> FALSE, cursor |-> 0]

Init ==
    /\ run = [r \in Runs |-> [status |-> "none", owner |-> NoWorker, live |-> FALSE,
                              tries |-> MaxTries]]
    /\ unsent = {}
    /\ unstable \in HeartbeatErrors
    /\ worker = [w \in Workers |-> Resting("reap", Disconnected)]
    /\ stop = {}
    /\ up = TRUE
    /\ log = <<>> /\ last = 0
    /\ group = [made |-> FALSE, delivered |-> 0]
    /\ pel = <<>> /\ idle = {}
    /\ faults = 0

(***************************************************************************)
(* The database.                                                           *)
(***************************************************************************)
Lost(r)     == run[r].status = "running" /\ ~run[r].live
Eligible(r) == run[r].status = "pending" \/ (Lost(r) /\ run[r].tries > 0)
Holds(w, r) == run[r].status = "running" /\ run[r].live /\ run[r].owner = w

Claimed(r, w) == [status |-> "running", owner |-> w, live |-> TRUE,
                  tries |-> IF Lost(r) THEN run[r].tries - 1 ELSE run[r].tries]
Released(r)   == [status |-> "pending", owner |-> NoWorker, live |-> FALSE,
                  tries |-> run[r].tries - 1]
Ended(r)      == [run[r] EXCEPT !.status = "done", !.owner = NoWorker, !.live = FALSE]

\* POST /runs commits the Run, then publishes it.
CreateRun(r) ==
    /\ run[r].status = "none"
    /\ run' = [run EXCEPT ![r].status = "pending"]
    /\ unsent' = unsent \cup {r}
    /\ UNCHANGED <<worker, stop, redis>>

\* A lease runs out: its worker is gone, or its heartbeat is starved.
Lapse(r) ==
    /\ run[r].status = "running" /\ run[r].live
    /\ run' = [run EXCEPT ![r].live = FALSE]
    /\ UNCHANGED <<unsent, worker, stop, redis>>

(***************************************************************************)
(* Redis.                                                                  *)
(***************************************************************************)
Put(f, i, x) == [j \in DOMAIN f \cup {i} |-> IF j = i THEN x ELSE f[j]]

Fault == faults < MaxFaults /\ faults' = faults + 1

\* XADD with an approximate MAXLEN, which may drop the oldest entries
Add(message) ==
    /\ last < (IF unstable THEN MaxUnstable ELSE MaxMessages)
    /\ last' = last + 1
    /\ LET grown == Put(log, last + 1, message) IN
       \E dropped \in {{}} \cup {{i \in DOMAIN grown : i + MaxLength <= last + 1}} :
          log' = Restrict(grown, DOMAIN grown \ dropped)

\* publish: the notification is added, or it is not, or it is and the reply is lost;
\* record_notification_result writes only the audit log.
Publish(r) ==
    /\ r \in unsent
    /\ unsent' = unsent \ {r}
    /\ \/ up /\ Add(r) /\ UNCHANGED <<up, group, pel, idle, faults>>
       \/ ~up /\ UNCHANGED redis
    /\ UNCHANGED <<run, worker, stop>>

\* A message nobody here wrote, or a second notification of a Run
Intrude(message) ==
    /\ up /\ Fault /\ Add(message)
    /\ UNCHANGED <<run, unsent, worker, stop, up, group, pel, idle>>

GoDown ==
    /\ up /\ Fault /\ up' = FALSE
    /\ UNCHANGED <<run, unsent, worker, stop, log, last, group, pel, idle>>

ComeBack ==
    /\ ~up /\ up' = TRUE
    /\ UNCHANGED <<run, unsent, worker, stop, log, last, group, pel, idle, faults>>

LoseData ==
    /\ Fault
    /\ log' = <<>> /\ pel' = <<>> /\ idle' = {}
    /\ group' = [made |-> FALSE, delivered |-> 0]
    /\ UNCHANGED <<run, unsent, worker, stop, up, last>>

GrowIdle(i) ==
    /\ i \in DOMAIN pel \ idle
    /\ idle' = idle \cup {i}
    /\ UNCHANGED <<run, unsent, worker, stop, up, log, last, group, pel, faults>>

Assign(i, w) == pel' = Put(pel, i, w)
Forget(i)    == pel' = Restrict(pel, DOMAIN pel \ {i})

(***************************************************************************)
(* The worker's loop.                                                      *)
(***************************************************************************)
Set(w, rec)  == worker' = [worker EXCEPT ![w] = rec]
Goto(w, pc)  == Set(w, [worker[w] EXCEPT !.pc = pc])
Rest(w)      == Set(w, Resting("reap", worker[w]))
Leave(w, safe) == Set(w, [worker[w] EXCEPT !.pc = "settle", !.safe = safe])

\* _queue_failure
QueueFailure(w) == Set(w, Resting("reap", Disconnected))

\* Slip: the reaper never gives a Run up.
Reap_NeverDeadLetters(w) ==
    /\ worker[w].pc = "reap" /\ w \notin stop
    /\ run' = [r \in Runs |-> IF Lost(r) THEN Released(r) ELSE run[r]]
    /\ Goto(w, "scan")
    /\ UNCHANGED <<unsent, stop, redis>>

\* reap_expired: a Run without tries left ends, another is retried.
Reap(w) ==
    /\ worker[w].pc = "reap" /\ w \notin stop
    /\ run' = [r \in Runs |-> IF ~Lost(r) THEN run[r]
                              ELSE IF run[r].tries = 0 THEN Ended(r) ELSE Released(r)]
    /\ Goto(w, "scan")
    /\ UNCHANGED <<unsent, stop, redis>>

\* Slip: the database is not scanned.
Scan_QueueOnly(w) ==
    /\ worker[w].pc = "scan" /\ w \notin stop
    /\ Goto(w, "fetch")
    /\ UNCHANGED <<run, unsent, stop, redis>>

\* due_run_ids(limit=1); a due Run is executed without a delivery.
Scan(w) ==
    /\ worker[w].pc = "scan" /\ w \notin stop
    /\ \/ \E r \in Runs : Eligible(r) /\ Set(w, Begin("start", r, 0, FALSE, worker[w]))
       \/ (\A r \in Runs : ~Eligible(r)) /\ Goto(w, "fetch")
    /\ UNCHANGED <<run, unsent, stop, redis>>

\* What a worker does with a delivery: an invalid one is only ACKed.
Handling(i, link) ==
    IF log[i] = Garbage THEN Begin("settle", NoRun, i, TRUE, link)
                        ELSE Begin("start", log[i], i, FALSE, link)

\* The start id XAUTOCLAIM returns: the next pending entry, or 0-0 at the end.
NextCursor(i) == LET later == {j \in DOMAIN pel : j > i}
                 IN  IF later = {} THEN 0 ELSE Min(later)

\* ensure_consumer_group and claim_stale.  XAUTOCLAIM takes the first idle entry
\* from the cursor on, and drops it instead if the stream has trimmed it.
ClaimStale(w) ==
    LET stale == {i \in idle : i >= worker[w].cursor}
        i     == Min(stale)
        next  == IF stale = {} THEN 0 ELSE NextCursor(i)
        pass  == [worker[w] EXCEPT !.pc = "read", !.ready = TRUE, !.cursor = next]
    IN  /\ worker[w].pc = "fetch" /\ w \notin stop
        /\ up /\ (worker[w].ready => group.made)
        /\ group' = [group EXCEPT !.made = TRUE]
        /\ IF stale = {} THEN Set(w, pass) /\ UNCHANGED <<pel, idle>>
           ELSE IF i \notin DOMAIN log
           THEN Set(w, pass) /\ Forget(i) /\ idle' = idle \ {i}
           ELSE /\ Assign(i, w) /\ idle' = idle \ {i}
                /\ Set(w, Handling(i, [ready |-> TRUE, cursor |-> next]))
        /\ UNCHANGED <<run, unsent, stop, up, log, last, faults>>

Unread == {i \in DOMAIN log : i > group.delivered}

\* read_new: XREADGROUP >
ReadNew(w) ==
    /\ worker[w].pc = "read" /\ w \notin stop
    /\ up /\ group.made
    /\ IF Unread = {} THEN Rest(w) /\ UNCHANGED <<group, pel>>
       ELSE LET i == Min(Unread) IN
            /\ Assign(i, w) /\ group' = [group EXCEPT !.delivered = i]
            /\ Set(w, Handling(i, worker[w]))
    /\ UNCHANGED <<run, unsent, stop, up, log, last, idle, faults>>

\* XREADGROUP was performed but the worker never sees the delivery: a timeout, or
\* a stop event that cancels the read.
ReadLost(w) ==
    /\ worker[w].pc = "read" /\ up /\ group.made /\ Unread # {}
    /\ LET i == Min(Unread) IN Assign(i, w) /\ group' = [group EXCEPT !.delivered = i]
    /\ \/ w \in stop /\ Goto(w, "stopped") /\ UNCHANGED faults
       \/ w \notin stop /\ Fault /\ QueueFailure(w)
    /\ UNCHANGED <<run, unsent, stop, up, log, last, idle>>

\* The same for XACK.
AckLost(w) ==
    /\ worker[w].pc = "settle" /\ worker[w].safe /\ worker[w].msg # 0
    /\ up /\ Fault
    /\ Forget(worker[w].msg) /\ idle' = idle \ {worker[w].msg}
    /\ Set(w, Resting(IF w \in stop THEN "stopped" ELSE "reap", Disconnected))
    /\ UNCHANGED <<run, unsent, stop, up, log, last, group>>

\* Redis is down, or has forgotten the consumer group.
QueueUnavailable(w) ==
    /\ worker[w].pc \in {"fetch", "read"} /\ w \notin stop
    /\ ~up \/ (~group.made /\ (worker[w].pc = "fetch" => worker[w].ready))
    /\ QueueFailure(w)
    /\ UNCHANGED <<run, unsent, stop, redis>>

(***************************************************************************)
(* Executing a Run (EvaluationRunner.execute).                             *)
(***************************************************************************)
\* Slip: a Run that cannot be claimed is taken for unhandled.
Start_NoopUnsafe(w) ==
    /\ worker[w].pc = "start" /\ w \notin stop
    /\ LET r == worker[w].job IN
       IF Eligible(r)
       THEN run' = [run EXCEPT ![r] = Claimed(r, w)] /\ Set(w, [worker[w] EXCEPT !.pc = "executing", !.ran = TRUE])
       ELSE UNCHANGED run /\ Goto(w, "settle")
    /\ UNCHANGED <<unsent, stop, redis>>

\* execute claims the Run; a Run that cannot be claimed is a no-op.
Start(w) ==
    /\ worker[w].pc = "start" /\ w \notin stop
    /\ LET r == worker[w].job IN
       IF Eligible(r)
       THEN run' = [run EXCEPT ![r] = Claimed(r, w)] /\ Set(w, [worker[w] EXCEPT !.pc = "executing", !.ran = TRUE])
       ELSE UNCHANGED run /\ Leave(w, TRUE)
    /\ UNCHANGED <<unsent, stop, redis>>

\* The Run is finished, or released for another slice, a retry or a delay.
Conclude(w) ==
    /\ worker[w].pc = "executing"
    /\ LET r == worker[w].job IN
       /\ Holds(w, r)
       /\ \/ run' = [run EXCEPT ![r] = Ended(r)]
          \/ run[r].tries > 0 /\ run' = [run EXCEPT ![r] = Released(r)]
    /\ Leave(w, TRUE)
    /\ UNCHANGED <<unsent, stop, redis>>

\* except _LeaseUnavailable: the lease is lost, or the heartbeat could not reach
\* the database.  The caller may ACK.
LeaseUnavailable(w) ==
    /\ worker[w].pc = "executing"
    /\ unstable \/ ~Holds(w, worker[w].job)
    /\ Leave(w, TRUE)
    /\ UNCHANGED <<run, unsent, stop, redis>>

\* Slip: a Run drained for shutdown is reported as handled.
Drain_Acks(w) ==
    /\ worker[w].pc \in {"executing", "start"} /\ w \in stop
    /\ Leave(w, TRUE)
    /\ UNCHANGED <<run, unsent, stop, redis>>

\* Shutdown: not started, drained, or cut off after the grace period.  The lease
\* is left to expire and the delivery is not ACKed.
Drain(w) ==
    /\ worker[w].pc \in {"executing", "start"} /\ w \in stop
    /\ Leave(w, FALSE)
    /\ UNCHANGED <<run, unsent, stop, redis>>

\* The database fails while a failure is being recorded: execute raises.
Escape(w) ==
    /\ unstable
    /\ worker[w].pc = "executing"
    /\ Leave(w, FALSE)
    /\ UNCHANGED <<run, unsent, stop, redis>>

\* _settle_active, _shutdown_active, _ack
Settle(w) ==
    /\ worker[w].pc = "settle"
    /\ LET acks == worker[w].safe /\ worker[w].msg # 0
           next == IF w \in stop THEN "stopped" ELSE "reap"
       IN  IF acks /\ up
           THEN /\ Set(w, Resting(next, worker[w]))
                /\ Forget(worker[w].msg) /\ idle' = idle \ {worker[w].msg}
           ELSE /\ Set(w, Resting(next, IF acks THEN Disconnected ELSE worker[w]))
                /\ UNCHANGED <<pel, idle>>
    /\ UNCHANGED <<run, unsent, stop, up, log, last, group, faults>>

\* SIGTERM
Stop(w) ==
    /\ w \in Mortal \ stop /\ stop' = stop \cup {w}
    /\ UNCHANGED <<run, unsent, worker, redis>>

\* The loop sees the stop event between two of its steps.
Exit(w) ==
    /\ w \in stop /\ worker[w].pc \in {"reap", "scan", "fetch", "read"}
    /\ Goto(w, "stopped")
    /\ UNCHANGED <<run, unsent, stop, redis>>

Crash(w) ==
    /\ w \in Mortal /\ worker[w].pc # "stopped"
    /\ Set(w, Resting("stopped", worker[w]))
    /\ UNCHANGED <<run, unsent, stop, redis>>

Loop(w) ==
    \/ Reap(w) \/ Scan(w) \/ ClaimStale(w) \/ ReadNew(w) \/ QueueUnavailable(w)
    \/ Start(w) \/ Conclude(w) \/ LeaseUnavailable(w) \/ Drain(w) \/ Settle(w) \/ Exit(w)

Step ==
    \/ \E r \in Runs : CreateRun(r) \/ Publish(r) \/ Lapse(r) \/ Intrude(r)
    \/ Intrude(Garbage) \/ GoDown \/ ComeBack \/ LoseData
    \/ \E i \in Ids : GrowIdle(i)
    \/ \E w \in Workers : Loop(w) \/ ReadLost(w) \/ AckLost(w) \/ Escape(w) \/ Stop(w) \/ Crash(w)

Next == Step /\ UNCHANGED unstable

Spec == Init /\ [][Next]_vars

\* Nobody is left to renew the lease of r.
Unattended(r) == \A w \in Workers : worker[w].pc = "executing" => worker[w].job # r

\* A worker that is alive keeps turning its loop, a lease nobody renews runs
\* out, and pending entries grow idle.  Redis need never come back.
Fairness ==
    /\ \A w \in Workers : WF_vars(Loop(w) /\ UNCHANGED unstable)
    /\ \A r \in Runs : WF_vars(Unattended(r) /\ Lapse(r) /\ UNCHANGED unstable)
    /\ \A i \in Ids : WF_vars(GrowIdle(i) /\ UNCHANGED unstable)

FairSpec == Spec /\ Fairness

-----------------------------------------------------------------------------
(***************************************************************************)
(* Properties.                                                             *)
(***************************************************************************)
\* Types; and only retained or trimmed messages that were delivered are pending.
TypeOK ==
    /\ run \in [Runs -> [status : {"none", "pending", "running", "done"},
                          owner  : Workers \cup {NoWorker},
                          live   : BOOLEAN,
                          tries  : 0..MaxTries]]
    /\ unsent \subseteq Runs /\ stop \subseteq Mortal
    /\ worker \in [Workers -> [pc : Pcs, job : Runs \cup {NoRun}, msg : 0..MaxMessages,
                               ran : BOOLEAN, safe : BOOLEAN,
                               ready : BOOLEAN, cursor : 0..MaxMessages]]
    /\ up \in BOOLEAN /\ last \in 0..MaxMessages /\ faults \in 0..MaxFaults
    /\ DOMAIN log \subseteq 1..last /\ Range(log) \subseteq Runs \cup {Garbage}
    /\ group \in [made : BOOLEAN, delivered : 0..last]
    /\ DOMAIN pel \subseteq 1..group.delivered /\ Range(pel) \subseteq Workers
    /\ idle \subseteq DOMAIN pel

\* docs/ARCHITECTURE.md: when a lease is lost, by a failing heartbeat or its
\* expiry, an uncertain result is not ACKed.  A worker whose name is still on the
\* row of the Run it claimed has settled nothing.  The code does not do this: a
\* run that ends in _LeaseUnavailable is reported as handled.
UncertainNotAcked ==
    [][\A w \in Workers :
        /\ worker[w].pc = "settle" /\ worker'[w].pc # "settle"
        /\ worker[w].ran
        /\ run[worker[w].job].status = "running" /\ run[worker[w].job].owner = w
        /\ worker[w].msg \in DOMAIN pel
        => worker[w].msg \in DOMAIN pel']_vars

\* A shutdown that cuts an execution off, before it starts or after the grace
\* period, leaves its delivery pending for another worker (_shutdown_active):
\* as long as heartbeats succeed, a worker that still holds the lease of the Run
\* it claimed does not ACK.  Lost leases are the matter of UncertainNotAcked.
DrainedNotAcked ==
    [][\A w \in Workers :
        /\ worker[w].pc = "settle" /\ worker'[w].pc # "settle"
        /\ ~unstable
        /\ worker[w].ran /\ Holds(w, worker[w].job)
        /\ worker[w].msg \in DOMAIN pel
        => worker[w].msg \in DOMAIN pel']_vars

\* Every Run created is finished in the end, whatever becomes of its
\* notifications and of all workers but one.
RunsFinish ==
    \A r \in Runs : run[r].status # "none" ~> run[r].status = "done"

\* Unless Redis stays down, no delivery is pending for ever: what a crashed or
\* stopped worker left, what was trimmed and what is invalid is cleared by the
\* workers that remain.
PendingDrains ==
    []<>up => \A i \in Ids : i \in DOMAIN pel ~> i \notin DOMAIN pel
=============================================================================
