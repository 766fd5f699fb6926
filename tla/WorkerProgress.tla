--------------------------- MODULE WorkerProgress ---------------------------
(***************************************************************************)
(* WorkerProgressRecorder: what a worker process does is noted in memory   *)
(* from any thread, collected by the flush loop into one short             *)
(* transaction, and written once more when the process stops.  Each start  *)
(* of a process is a generation with a row of its own in worker_processes, *)
(* which collect_worker_progress counts as live or stalled.                *)
(***************************************************************************)
EXTENDS Integers, FiniteSets

CONSTANTS Generations,     \* process starts
          Activities,      \* WorkerProgressEvent
          MaxProgressTime  \* bound on the database clock

ASSUME ProgressAssumption == MaxProgressTime \in Nat

VARIABLES progressTime,  \* database_utc_now
          generation,    \* generation -> its worker_processes row, or Unregistered
          recorder,      \* generation -> the recorder in memory
          noted          \* history: generation -> activity -> when it was last noted

progressVars == <<progressTime, generation, recorder, noted>>

Never        == -1
Unregistered == [started |-> Never]
Registered(g) == generation[g].started # Never

\* pending is _pending, taken what the flush or stop thread works on;
\* waiting says which of the two holds the flush lock.
NewRecorder == [life |-> "new", pending |-> {}, taken |-> {}, waiting |-> "nothing"]

ProgressInit ==
    /\ progressTime = 0
    /\ generation = [g \in Generations |-> Unregistered]
    /\ recorder = [g \in Generations |-> NewRecorder]
    /\ noted = [g \in Generations |-> [a \in Activities |-> Never]]

\* _event_values and last_seen_at.
Stamped(row, acts) ==
    [row EXCEPT !.seen = progressTime,
                !.last = [a \in Activities |-> IF a \in acts THEN progressTime ELSE row.last[a]]]

-----------------------------------------------------------------------------

\* start: the row is committed before anything may be noted.
StartGeneration(g) ==
    /\ recorder[g].life = "new"
    /\ generation' = [generation EXCEPT ![g] =
          [started |-> progressTime, seen |-> progressTime, stopped |-> Never,
           last |-> [a \in Activities |-> Never]]]
    /\ recorder' = [recorder EXCEPT ![g].life = "up"]
    /\ UNCHANGED <<progressTime, noted>>

\* note: never raises, and is ignored once the recorder is stopping.
Note(g, a) ==
    /\ recorder[g].life # "gone"
    /\ \/ /\ recorder[g].life = "up"
          /\ recorder' = [recorder EXCEPT ![g].pending = @ \cup {a}]
          /\ noted' = [noted EXCEPT ![g][a] = progressTime]
       \/ recorder[g].life # "up" /\ UNCHANGED <<recorder, noted>>
    /\ UNCHANGED <<progressTime, generation>>

\* _flush_once, up to the thread.
TakePending(g) ==
    /\ recorder[g].life = "up" /\ recorder[g].waiting = "nothing" /\ recorder[g].pending # {}
    /\ recorder' = [recorder EXCEPT ![g].taken = recorder[g].pending,
                                    ![g].pending = {}, ![g].waiting = "flush"]
    /\ UNCHANGED <<progressTime, generation, noted>>

Settled(r, ok) == [r EXCEPT !.taken = {}, !.waiting = "nothing",
                            !.pending = IF ok THEN r.pending ELSE r.pending \cup r.taken]

\* _flush raises, before its commit or after it: what it had taken is kept.
FlushFails(g) ==
    /\ recorder[g].waiting = "flush"
    /\ recorder' = [recorder EXCEPT ![g] = Settled(@, FALSE)]
    /\ \/ UNCHANGED generation
       \/ /\ generation[g].stopped = Never
          /\ generation' = [generation EXCEPT ![g] = Stamped(@, recorder[g].taken)]
    /\ UNCHANGED <<progressTime, noted>>

Flush(g) ==
    /\ recorder[g].waiting = "flush" /\ generation[g].stopped = Never
    /\ generation' = [generation EXCEPT ![g] = Stamped(@, recorder[g].taken)]
    /\ recorder' = [recorder EXCEPT ![g] = Settled(@, TRUE)]
    /\ UNCHANGED <<progressTime, noted>>

\* stop: nothing is noted from here on; the flush in flight is awaited.
BeginStop(g) ==
    /\ recorder[g].life = "up"
    /\ recorder' = [recorder EXCEPT ![g].life = "stopping"]
    /\ UNCHANGED <<progressTime, generation, noted>>

\* Slip: the rest is taken without waiting for the flush.
TakeRest_AtOnce(g) ==
    /\ recorder[g].life = "stopping" /\ recorder[g].waiting # "stop"
    /\ recorder' = [recorder EXCEPT ![g].taken = recorder[g].pending,
                                    ![g].pending = {}, ![g].waiting = "stop"]
    /\ UNCHANGED <<progressTime, generation, noted>>

TakeRest(g) ==
    /\ recorder[g].life = "stopping" /\ recorder[g].waiting = "nothing"
    /\ recorder' = [recorder EXCEPT ![g].taken = recorder[g].pending,
                                    ![g].pending = {}, ![g].waiting = "stop"]
    /\ UNCHANGED <<progressTime, generation, noted>>

\* Slip: a stop without activity refreshes last_seen_at.
StopRow_Seen(row, acts) == [Stamped(row, acts) EXCEPT !.stopped = progressTime]

\* _stop: stopped_at, and last_seen_at only with activity.
StopRow(row, acts) ==
    IF acts = {} THEN [row EXCEPT !.stopped = progressTime]
    ELSE [Stamped(row, acts) EXCEPT !.stopped = progressTime]

\* _stop commits, or raises before or after its commit; the process ends.
EndStop(g) ==
    /\ recorder[g].waiting = "stop"
    /\ \/ /\ generation' = [generation EXCEPT ![g] = StopRow(@, recorder[g].taken)]
          /\ \E ok \in BOOLEAN :
                recorder' = [recorder EXCEPT ![g] = [Settled(@, ok) EXCEPT !.life = "gone"]]
       \/ /\ UNCHANGED generation
          /\ recorder' = [recorder EXCEPT ![g] = [Settled(@, FALSE) EXCEPT !.life = "gone"]]
    /\ UNCHANGED <<progressTime, noted>>

\* The process is killed; its row stays as it is.
KillWorker(g) ==
    /\ recorder[g].life \in {"up", "stopping"}
    /\ recorder' = [recorder EXCEPT ![g] = [NewRecorder EXCEPT !.life = "killed"]]
    /\ UNCHANGED <<progressTime, generation, noted>>

ProgressTick ==
    /\ progressTime < MaxProgressTime /\ progressTime' = progressTime + 1
    /\ UNCHANGED <<generation, recorder, noted>>

ProgressNext ==
    \/ ProgressTick
    \/ \E g \in Generations :
          \/ StartGeneration(g) \/ TakePending(g) \/ FlushFails(g) \/ Flush(g)
          \/ BeginStop(g) \/ TakeRest(g) \/ EndStop(g) \/ KillWorker(g)
          \/ \E a \in Activities : Note(g, a)

ProgressSpec == ProgressInit /\ [][ProgressNext]_progressVars

-----------------------------------------------------------------------------

\* An activity that was noted is in the row, with a time no earlier than its
\* own, or is still to be written: no failure, late note or shutdown that
\* meets a flush in flight drops it.
NotesSurvive ==
    \A g \in Generations : \A a \in Activities :
        noted[g][a] # Never /\ recorder[g].life # "killed" =>
            \/ a \in recorder[g].pending \cup recorder[g].taken
            \/ generation[g].last[a] >= noted[g][a]

\* worker_processes shows only what happened: the activity columns keep to
\* the CHECK constraints, last_seen_at is the start or an activity's time, and
\* a stopped row was stopped by its own generation.
RowsTellTheTruth ==
    \A g \in {h \in Generations : Registered(h)} :
        LET row == generation[g]
        IN /\ \A a \in Activities : row.last[a] \in {Never} \cup row.started..row.seen
           /\ row.seen \in {row.started} \cup {row.last[a] : a \in Activities}
           /\ row.stopped # Never => row.stopped >= row.seen /\ recorder[g].life = "gone"

\* Nothing noted before a stop is lost on the way to worker_processes, and
\* the row says of the process only what is true (_flush_once, stop).
ProgressInv == NotesSurvive /\ RowsTellTheTruth
=============================================================================
