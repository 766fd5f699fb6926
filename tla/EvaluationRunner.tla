-------------------------- MODULE EvaluationRunner --------------------------
(***************************************************************************)
(* EvaluationRunner.execute (backend/app/runners/evaluation_runner.py):    *)
(* the program each worker runs over the lease repository, for one Run.    *)
(*                                                                         *)
(* A step is a database transaction or an await of the coroutine.  Between *)
(* two steps of a worker the other workers, its own heartbeat task, the    *)
(* reaper, the cancel API and the clock may all step.  In particular the   *)
(* worker reads cancellation_requested in one transaction and acts on what *)
(* it read in another.                                                     *)
(*                                                                         *)
(* A question is the position it has in the benchmark's order.  When a     *)
(* coroutine is cancelled, a persist_response it had handed to a thread    *)
(* still runs: such calls are in `late'.                                   *)
(***************************************************************************)
EXTENDS RunRow, FiniteSetsExt

CONSTANTS
    IsManaged,      \* the Run was admitted under a governance policy
    Quantum,        \* question_quantum of that policy
    Concurrency,    \* execution.concurrency of the Run
    DeferFor,       \* how far ahead reserve puts governance_not_before
    MaxSignals      \* bound: governance signals in a behaviour

ASSUME QuestionOrder     == Questions \subseteq Nat
ASSUME RunnerAssumption  ==
    /\ IsManaged \in BOOLEAN
    /\ Quantum \in Nat \ {0} /\ Concurrency \in Nat \ {0}
    /\ DeferFor \in Nat /\ MaxSignals \in Nat

VARIABLES
    row,            \* the Run's row
    wk,             \* [Workers -> Worker], the memory of each worker
    late,           \* persist_response calls that outlived their coroutine
    signals         \* governance signals raised so far

vars == <<row, wk, late, signals>>

\* Governance exceptions by priority (remember_governance_signal).
Signals  == {"deferred", "unknown", "exhausted", "integrity"}
Rank     == [none |-> 0, deferred |-> 1, unknown |-> 2, exhausted |-> 3, integrity |-> 4]
Pcs      == {"idle", "taking", "claimed", "asking", "drained", "deciding", "fenced", "failing"}
Worker   == [pc       : Pcs,
             token    : Nat,                    \* of the lease in hand
             todo     : SUBSET Questions,       \* left in the question iterator
             inflight : SUBSET Questions,       \* taken by a consumer task
             remain   : BOOLEAN,                \* questions_remain
             stop     : BOOLEAN,                \* stop_scheduling
             signal   : Signals \cup {"none"},  \* governance_signal
             lost     : BOOLEAN,                \* lease_lost
             saw      : BOOLEAN]                \* cancellation_requested, as read

Idle == [pc |-> "idle", token |-> 0, todo |-> {}, inflight |-> {}, remain |-> FALSE,
         stop |-> FALSE, signal |-> "none", lost |-> FALSE, saw |-> FALSE]

LeaseOf(w) == [owner |-> w, token |-> wk[w].token]
Holds(w)   == Owned(row, LeaseOf(w), 0)

Set(w, rec) == wk' = [wk EXCEPT ![w] = rec]
Goto(w, pc) == Set(w, [wk[w] EXCEPT !.pc = pc])
Stop(w)     == Set(w, Idle)

Init ==
    /\ row = NewRow(IsManaged)
    /\ wk = [w \in Workers |-> Idle]
    /\ late = {}
    /\ signals = 0

(***************************************************************************)
(* Claim and load.                                                         *)
(***************************************************************************)
Claim(w) ==
    /\ wk[w].pc = "idle"
    /\ Eligible(row, 0)
    /\ row' = ClaimRow(row, w, 0)
    /\ Set(w, [Idle EXCEPT !.pc = IF Expired(row, 0) THEN "taking" ELSE "claimed",
                           !.token = row.token + 1])
    /\ UNCHANGED <<late, signals>>

\* The displaced lease's ledger is reconciled, and claim returns.
Reconciled(w) ==
    /\ wk[w].pc = "taking"
    /\ Goto(w, "claimed")
    /\ UNCHANGED <<row, late, signals>>

Slice(qs) ==
    IF IsManaged THEN {q \in qs : Cardinality({p \in qs : p < q}) < Quantum} ELSE qs

\* Slip: asks every question again.
Load_Everything(w) ==
    /\ wk[w].pc = "claimed"
    /\ Set(w, [wk[w] EXCEPT !.pc = "asking", !.todo = Slice(Questions), !.remain = FALSE])
    /\ UNCHANGED <<row, late, signals>>

\* Slip: the quantum is not applied.
Load_Unsliced(w) ==
    /\ wk[w].pc = "claimed"
    /\ Set(w, [wk[w] EXCEPT !.pc = "asking", !.todo = Questions \ Answered(row)])
    /\ UNCHANGED <<row, late, signals>>

\* _load_snapshots reads the unanswered questions; a managed Run takes a slice.
Load(w) ==
    /\ wk[w].pc = "claimed"
    /\ LET left == Questions \ Answered(row) IN
       IF wk[w].lost
       THEN Goto(w, "fenced")
       ELSE Set(w, [wk[w] EXCEPT !.pc = "asking", !.todo = Slice(left),
                                 !.remain = Slice(left) # left])
    /\ UNCHANGED <<row, late, signals>>

(***************************************************************************)
(* The question consumers (_run_questions, evaluate_bounded).              *)
(***************************************************************************)
\* A consumer takes the next question and looks at cancellation_requested.
TakeQuestion(w) ==
    /\ wk[w].pc = "asking" /\ ~wk[w].stop /\ ~wk[w].lost
    /\ wk[w].todo # {} /\ Cardinality(wk[w].inflight) < Concurrency
    /\ LET q == Min(wk[w].todo) IN
       Set(w, [wk[w] EXCEPT !.todo = @ \ {q},
                            !.inflight = IF row.cancel THEN @ ELSE @ \cup {q},
                            !.stop = row.cancel])
    /\ UNCHANGED <<row, late, signals>>

\* Cancelling the consumers: a persist already in its thread is not recalled.
CancelConsumers(w, pc) ==
    \E running \in SUBSET wk[w].inflight :
        /\ late' = late \cup {[owner |-> w, token |-> wk[w].token, question |-> q] : q \in running}
        /\ Set(w, [wk[w] EXCEPT !.pc = pc, !.todo = {}, !.inflight = {}])

\* Slip: an answer is stored although cancellation was requested.
PersistResponse_IgnoresCancel(w, q) ==
    /\ wk[w].pc = "asking" /\ q \in wk[w].inflight
    /\ Holds(w) /\ q \notin Answered(row)
    /\ row' = PersistRow(row, LeaseOf(w), q)
    /\ Set(w, [wk[w] EXCEPT !.inflight = @ \ {q}])
    /\ UNCHANGED <<late, signals>>

\* The provider has answered (or failed: a zero-score Response) and
\* persist_response runs.  FENCE_LOST raises, CANCEL_REQUESTED does not.
PersistResponse(w, q) ==
    /\ wk[w].pc = "asking" /\ q \in wk[w].inflight
    /\ IF Holds(w)
       THEN /\ row' = IF row.cancel \/ q \in Answered(row) THEN row
                      ELSE PersistRow(row, LeaseOf(w), q)
            /\ Set(w, [wk[w] EXCEPT !.inflight = @ \ {q}])
            /\ UNCHANGED late
       ELSE CancelConsumers(w, "fenced") /\ UNCHANGED row
    /\ UNCHANGED signals

\* Governance stops the question: quota, exhaustion, ledger corruption or an
\* unconfirmed settlement.  The strongest signal is kept and scheduling stops.
GovernanceSignal(w, q, s) ==
    /\ IsManaged /\ signals < MaxSignals
    /\ wk[w].pc = "asking" /\ q \in wk[w].inflight
    /\ Set(w, [wk[w] EXCEPT !.inflight = @ \ {q}, !.stop = TRUE,
                            !.signal = IF Rank[s] > Rank[@] THEN s ELSE @])
    /\ signals' = signals + 1
    /\ UNCHANGED <<row, late>>

\* The governance repository refuses a lost or cancelled lease.
GovernanceFenced(w) ==
    /\ IsManaged
    /\ wk[w].pc = "asking" /\ wk[w].inflight # {}
    /\ ~Holds(w) \/ row.cancel
    /\ CancelConsumers(w, "fenced")
    /\ UNCHANGED <<row, signals>>

\* The watch on lease_lost ends the questions.
NoticeLoss(w) ==
    /\ wk[w].pc = "asking" /\ wk[w].lost
    /\ CancelConsumers(w, "fenced")
    /\ UNCHANGED <<row, signals>>

Drained(w) ==
    /\ wk[w].pc = "asking" /\ ~wk[w].lost /\ wk[w].inflight = {}
    /\ wk[w].stop \/ wk[w].todo = {}
    /\ Goto(w, "drained")
    /\ UNCHANGED <<row, late, signals>>

\* An exception anywhere in the body of execute (a database error, an invalid
\* snapshot): consumers are cancelled and the attempt is failed.
Raise(w) ==
    /\ wk[w].pc \in {"claimed", "asking", "drained", "deciding"}
    /\ CancelConsumers(w, "failing")
    /\ UNCHANGED <<row, signals>>

(***************************************************************************)
(* The end of an attempt.                                                  *)
(***************************************************************************)
\* execute reads cancellation_requested, in a transaction of its own.
ReadCancel(w) ==
    /\ wk[w].pc = "drained"
    /\ IF wk[w].lost THEN Goto(w, "fenced")
       ELSE Set(w, [wk[w] EXCEPT !.pc = "deciding", !.saw = row.cancel])
    /\ UNCHANGED <<row, late, signals>>

\* The release or final transition, fenced like every lease operation.
Release(w, new) ==
    /\ IF Holds(w) THEN row' = new /\ Stop(w)
                   ELSE UNCHANGED row /\ Goto(w, "fenced")
    /\ UNCHANGED <<late, signals>>

Defer(w) ==
    /\ wk[w].pc = "deciding" /\ ~wk[w].saw /\ wk[w].signal = "deferred"
    /\ Release(w, DeferRow(row, DeferFor))

Exhaust(w) ==
    /\ wk[w].pc = "deciding" /\ ~wk[w].saw /\ wk[w].signal \in {"exhausted", "integrity"}
    /\ Release(w, ExhaustRow(row))

Yield(w) ==
    /\ wk[w].pc = "deciding" /\ ~wk[w].saw
    /\ \/ wk[w].signal = "unknown"
       \/ wk[w].signal = "none" /\ wk[w].remain
    /\ Release(w, YieldRow(row))

\* _finish: a lost fence is only logged; an incomplete response set raises.
Finish(w) ==
    /\ wk[w].pc = "deciding"
    /\ wk[w].saw \/ (wk[w].signal = "none" /\ ~wk[w].remain)
    /\ IF ~Holds(w) THEN Stop(w) /\ UNCHANGED row
       ELSE IF row.cancel THEN Stop(w) /\ row' = CancelledRow(row)
       ELSE IF Complete(row) THEN Stop(w) /\ row' = CompletedRow(row)
       ELSE Goto(w, "failing") /\ UNCHANGED row
    /\ UNCHANGED <<late, signals>>

\* except _LeaseUnavailable: finish_cancelled
FinishCancelled(w) ==
    /\ wk[w].pc = "fenced"
    /\ row' = IF Holds(w) /\ row.cancel THEN CancelledRow(row) ELSE row
    /\ Stop(w)
    /\ UNCHANGED <<late, signals>>

\* except Exception: fail_attempt
FailAttempt(w) ==
    /\ wk[w].pc = "failing"
    /\ row' = IF Holds(w) THEN FailRow(row, 0) ELSE row
    /\ Stop(w)
    /\ UNCHANGED <<late, signals>>

(***************************************************************************)
(* Beside the main line.                                                   *)
(***************************************************************************)
\* The heartbeat task; a refusal and a database error both set lease_lost.
Heartbeat(w) ==
    /\ wk[w].pc \notin {"idle", "taking"} /\ ~wk[w].lost
    /\ \/ /\ Holds(w) /\ ~row.cancel
          /\ row' = RenewRow(row, 0)
          /\ UNCHANGED wk
       \/ Set(w, [wk[w] EXCEPT !.lost = TRUE]) /\ UNCHANGED row
    /\ UNCHANGED <<late, signals>>

\* A persist thread whose coroutine is gone commits, if it passes the fence.
LatePersist(p) ==
    /\ late' = late \ {p}
    /\ row' = IF Owned(row, p, 0) /\ ~row.cancel /\ p.question \notin Answered(row)
              THEN PersistRow(row, p, p.question) ELSE row
    /\ UNCHANGED <<wk, signals>>

\* The process dies, or drains for shutdown, or its failure handling fails: the
\* lease is left to expire.  A transaction on its way to the database may land.
Crash(w) ==
    /\ wk[w].pc # "idle"
    /\ \E running \in SUBSET wk[w].inflight :
          late' = late \cup {[owner |-> w, token |-> wk[w].token, question |-> q] : q \in running}
    /\ Stop(w)
    /\ UNCHANGED <<row, signals>>

\* Slip: the reaper retries without looking at the evidence.
Reap_Blind ==
    /\ Expired(row, 0)
    /\ row' = [ClearLease(row) EXCEPT !.status = "pending", !.nextAt = 0]
    /\ UNCHANGED <<wk, late, signals>>

\* RunLeaseRepository.reap_expired, called by every worker's scan.
Reap ==
    /\ Expired(row, 0)
    /\ row' = FailRow(row, 0)
    /\ UNCHANGED <<wk, late, signals>>

\* POST /runs/{id}/cancel; a CHECK violation aborts it.
RequestCancel ==
    /\ row.status \in {"pending", "running"}
    /\ LET new == IF row.status = "pending" THEN CancelPendingRow(row)
                                            ELSE [row EXCEPT !.cancel = TRUE]
       IN  CheckConstraints(new) /\ row' = new
    /\ UNCHANGED <<wk, late, signals>>

Tick ==
    /\ row' = TickRow(row)
    /\ UNCHANGED <<wk, late, signals>>

\* The steps a running worker keeps taking.
Work(w) ==
    \/ Claim(w) \/ Reconciled(w) \/ Load(w)
    \/ TakeQuestion(w) \/ (\E q \in Questions : PersistResponse(w, q))
    \/ NoticeLoss(w) \/ Drained(w) \/ ReadCancel(w)
    \/ Defer(w) \/ Exhaust(w) \/ Yield(w) \/ Finish(w)
    \/ FinishCancelled(w) \/ FailAttempt(w)

\* What may happen to it.
Disturb(w) ==
    \/ \E q \in Questions, s \in Signals : GovernanceSignal(w, q, s)
    \/ GovernanceFenced(w) \/ Raise(w) \/ Heartbeat(w) \/ Crash(w)

Next ==
    \/ \E w \in Workers : Work(w) \/ Disturb(w)
    \/ \E p \in late : LatePersist(p)
    \/ Reap
    \/ RequestCancel
    \/ Tick

Spec == Init /\ [][Next]_vars

\* A live worker process keeps executing its coroutine and scanning for due
\* and expired Runs, and database time passes.  Nothing is assumed of the
\* heartbeat, of crashes, or of the user.
Fairness ==
    /\ \A w \in Workers : WF_vars(Work(w))
    /\ WF_vars(Reap)
    /\ WF_vars(Tick)

FairSpec == Spec /\ Fairness

-----------------------------------------------------------------------------
(***************************************************************************)
(* Properties.                                                             *)
(***************************************************************************)
\* Types; and every token in a worker's hands, or in the hands of a thread it
\* left behind, was issued by a claim of this row.
TypeOK ==
    /\ row \in Row
    /\ wk \in [Workers -> Worker]
    /\ late \subseteq [owner : Workers, token : 1..row.token, question : Questions]
    /\ signals \in 0..MaxSignals
    /\ \A w \in Workers : wk[w].token \in 0..row.token

\* A pending Run always has an unanswered question.  _eligible refuses a Run
\* with a full response set, and nothing else would ever finish it: a retry or
\* yield that parked a complete Run as pending would strand it.
PendingHasWork == row.status = "pending" => Len(row.responses) < Total

\* A worker whose lease is still good never asks the provider a question that
\* already has a Response, so a resumed Run pays for no answer twice.
NoRepeatedQuestion ==
    \A w \in Workers :
        Holds(w) /\ wk[w].pc = "asking" =>
            (wk[w].todo \cup wk[w].inflight) \cap Answered(row) = {}

\* Round-robin between Runs: under one lease a managed Run gets at most one
\* quantum of answers, late persists included.
QuantumRespected ==
    IsManaged => \A t \in 1..row.token :
        Cardinality({i \in DOMAIN row.responses : row.responses[i].token = t}) <= Quantum

\* Once cancellation_requested is set, no Response is added any more, neither
\* by the questions in flight nor by a late thread.
NoAnswerAfterCancel == [][row.cancel => row'.responses = row.responses]_vars

\* A Run nobody cancels is completed or failed in the end, through crashes,
\* lost leases, deferrals, yields and the last answer arriving in a thread that
\* outlived its worker.
RunConverges == <>(row.status \in Terminal \/ row.cancel)

\* docs/API.md, POST /runs/{id}/cancel: a running Run for which cancellation was
\* requested converges to a terminal state.
CancelConverges == row.cancel ~> row.status \in Terminal

\* The types, and no Run that is still to be served has nothing left to do:
\* the reaper and the finish of execute leave no finished Run pending.
RunnerInv == TypeOK /\ PendingHasWork
=============================================================================
