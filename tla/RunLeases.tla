----------------------------- MODULE RunLeases -----------------------------
(***************************************************************************)
(* RunLeaseRepository (backend/app/runners/run_leases.py) under its most   *)
(* general client.  Each action is one committed database transaction.     *)
(*                                                                         *)
(* A lease is a value: once claim has returned it, the holder may call any *)
(* operation with it at any later time, however late, because a paused or  *)
(* partitioned worker does not know that its lease was lost.  So `leases'  *)
(* only grows and every operation below is enabled for every member.  What *)
(* protects the Run is the fence inside the transaction, nothing else.     *)
(* (Which of these calls the runner really makes, and in which order, is   *)
(* module EvaluationRunner.)                                               *)
(***************************************************************************)
EXTENDS RunRow

CONSTANTS
    Runs,           \* Run identities
    Managed,        \* the Runs admitted under a governance policy
    Deferrals,      \* delays until governance_not_before that reserve may ask for
    MaxClaims       \* bound: claims per Run that are explored

ASSUME ManagedAssumption  == Managed \subseteq Runs
ASSUME DeferralAssumption == Deferrals \subseteq Int
ASSUME ClaimAssumption    == MaxClaims \in Nat

VARIABLES
    runs,           \* [Runs -> Row], the evaluation_runs table
    leases,         \* leases returned to a worker, old ones included
    taking,         \* leases cut by claim from an expired one, not yet returned
    asked           \* [Runs -> BOOLEAN], cancel was called while the Run was live

vars == <<runs, leases, taking, asked>>

Init ==
    /\ runs = [r \in Runs |-> NewRow(r \in Managed)]
    /\ leases = {}
    /\ taking = {}
    /\ asked = [r \in Runs |-> FALSE]

\* A transaction of lease l that leaves `row' in the Run's row.
Update(l, row) ==
    /\ runs' = [runs EXCEPT ![l.run] = row]
    /\ UNCHANGED <<leases, taking, asked>>

(***************************************************************************)
(* Claiming.  Displacing an expired lease is two transactions: the claim,  *)
(* then the reconciliation of the displaced lease's provider ledger.  Only *)
(* after the second does claim return the lease to its caller.             *)
(***************************************************************************)
Claim(w, r) ==
    \E lag \in Lags :
        /\ runs[r].token < MaxClaims
        /\ Eligible(runs[r], lag)
        /\ runs' = [runs EXCEPT ![r] = ClaimRow(runs[r], w, lag)]
        /\ LET l == [run |-> r, owner |-> w, token |-> runs[r].token + 1]
           IN  IF Expired(runs[r], lag)
               THEN taking' = taking \cup {l} /\ UNCHANGED leases
               ELSE leases' = leases \cup {l} /\ UNCHANGED taking
        /\ UNCHANGED asked

\* reconcile_run_lease of the displaced lease succeeds; claim returns.
TakeoverReconciled(l) ==
    /\ taking' = taking \ {l}
    /\ leases' = leases \cup {l}
    /\ UNCHANGED <<runs, asked>>

\* Slip: revokes whatever the row holds by now.
TakeoverFailClosed_Unfenced(l) ==
    /\ taking' = taking \ {l}
    /\ runs' = [runs EXCEPT ![l.run] = FailClosedRow(@)]
    /\ UNCHANGED <<leases, asked>>

\* It raises GovernanceIntegrityError instead: the new lease is revoked,
\* unless the Run has moved on meanwhile, and claim raises.
TakeoverFailClosed(l) ==
    LET row == runs[l.run] IN
    /\ taking' = taking \ {l}
    /\ runs' = IF row.status = "running" /\ row.owner = l.owner /\ row.token = l.token
               THEN [runs EXCEPT ![l.run] = FailClosedRow(row)]
               ELSE runs
    /\ UNCHANGED <<leases, asked>>

(***************************************************************************)
(* Operations of a lease holder.                                           *)
(***************************************************************************)
Heartbeat(l) ==
    \E lag \in Lags :
        /\ Owned(runs[l.run], l, lag)
        /\ ~runs[l.run].cancel
        /\ Update(l, RenewRow(runs[l.run], lag))

\* Slip: inserts without looking for an existing answer.
PersistResponse_Blind(l, q) ==
    \E lag \in Lags :
        /\ Owned(runs[l.run], l, lag)
        /\ ~runs[l.run].cancel
        /\ Len(runs[l.run].responses) < Total
        /\ Update(l, PersistRow(runs[l.run], l, q))

PersistResponse(l, q) ==
    \E lag \in Lags :
        /\ Owned(runs[l.run], l, lag)
        /\ ~runs[l.run].cancel
        /\ q \notin Answered(runs[l.run])
        /\ Update(l, PersistRow(runs[l.run], l, q))

FinishCancelled(l) ==
    \E lag \in Lags :
        /\ Owned(runs[l.run], l, lag)
        /\ runs[l.run].cancel
        /\ Update(l, CancelledRow(runs[l.run]))

FailAttempt(l) ==
    \E lag \in Lags :
        /\ Owned(runs[l.run], l, lag)
        /\ Update(l, FailRow(runs[l.run], lag))

DeferGovernance(l, until) ==
    \E lag \in Lags :
        /\ l.run \in Managed
        /\ Owned(runs[l.run], l, lag)
        /\ Update(l, DeferRow(runs[l.run], until))

CooperativeYield(l) ==
    \E lag \in Lags :
        /\ l.run \in Managed
        /\ Owned(runs[l.run], l, lag)
        /\ Update(l, YieldRow(runs[l.run]))

ExhaustGovernance(l) ==
    \E lag \in Lags :
        /\ l.run \in Managed
        /\ Owned(runs[l.run], l, lag)
        /\ Update(l, ExhaustRow(runs[l.run]))

\* EvaluationRunner._finish asked for COMPLETED: a requested cancellation
\* wins, and an incomplete response set raises and commits nothing.
Finish(l) ==
    \E lag \in Lags :
        /\ Owned(runs[l.run], l, lag)
        /\ runs[l.run].cancel \/ Complete(runs[l.run])
        /\ Update(l, IF runs[l.run].cancel THEN CancelledRow(runs[l.run])
                                           ELSE CompletedRow(runs[l.run]))

(***************************************************************************)
(* Operations that need no lease.                                          *)
(***************************************************************************)
\* POST /runs/{id}/cancel.  A row that a CHECK constraint rejects aborts the
\* transaction, and the flag it set with it.
RequestCancel(r) ==
    /\ runs[r].status \in {"pending", "running"}
    /\ asked' = [asked EXCEPT ![r] = TRUE]
    /\ LET row == IF runs[r].status = "pending" THEN CancelPendingRow(runs[r])
                                               ELSE [runs[r] EXCEPT !.cancel = TRUE]
       IN  runs' = IF CheckConstraints(row) THEN [runs EXCEPT ![r] = row] ELSE runs
    /\ UNCHANGED <<leases, taking>>

\* The reaper transitions a batch of expired Runs in one transaction.
ReapExpired(batch) ==
    \E lag \in Lags :
        /\ batch # {}
        /\ \A r \in batch : Expired(runs[r], lag)
        /\ runs' = [r \in Runs |-> IF r \in batch THEN FailRow(runs[r], lag) ELSE runs[r]]
        /\ UNCHANGED <<leases, taking, asked>>

Tick ==
    /\ runs' = [r \in Runs |-> TickRow(runs[r])]
    /\ UNCHANGED <<leases, taking, asked>>

Next ==
    \/ \E w \in Workers, r \in Runs : Claim(w, r)
    \/ \E l \in taking : TakeoverReconciled(l) \/ TakeoverFailClosed(l)
    \/ \E l \in leases :
          \/ Heartbeat(l)
          \/ \E q \in Questions : PersistResponse(l, q)
          \/ FinishCancelled(l)
          \/ FailAttempt(l)
          \/ \E until \in Deferrals : DeferGovernance(l, until)
          \/ CooperativeYield(l)
          \/ ExhaustGovernance(l)
          \/ Finish(l)
    \/ \E r \in Runs : RequestCancel(r)
    \/ \E batch \in SUBSET Runs : ReapExpired(batch)
    \/ Tick

Spec == Init /\ [][Next]_vars

-----------------------------------------------------------------------------
(***************************************************************************)
(* Properties.                                                             *)
(***************************************************************************)
\* Every variable has its type; a lease in hand never has a token above the
\* row's lease_token.
TypeOK ==
    /\ runs \in [Runs -> Row]
    /\ leases \subseteq Lease(Runs)
    /\ taking \subseteq Lease(Runs)
    /\ asked \in [Runs -> BOOLEAN]
    /\ \A l \in leases \cup taking : l.token <= runs[l.run].token

\* No lease operation other than a cancellation is ever refused by the CHECK
\* constraints of evaluation_runs (models/evaluation_run.py): whatever order
\* claims, heartbeats, failures, deferrals, yields, finishes and the reaper come
\* in, between accepted cancellations too, the row each of them writes satisfies
\* the table.  A cancellation that is refused leaves the row as it was and is
\* not seen here; that one can be refused is what CancelAccepted is about.
ConstraintsHold == \A r \in Runs : CheckConstraints(runs[r])

\* Responses are fenced (persist_response): in insertion order their lease
\* tokens never go back, so a displaced worker wrote nothing after its
\* successor's first answer, and each was written under a lease that claim had
\* returned, so never before a takeover reconciled the old ledger.
EvidenceFenced ==
    \A r \in Runs : LET e == runs[r].responses IN
        \A i \in DOMAIN e :
            /\ \A j \in DOMAIN e : i <= j => e[i].token <= e[j].token
            /\ \E l \in leases : l.run = r /\ l.token = e[i].token

\* A question is answered at most once per Run, across retries, takeovers and
\* zombie workers.
AnsweredOnce ==
    \A r \in Runs : \A i, j \in DOMAIN runs[r].responses :
        i # j => runs[r].responses[i].question # runs[r].responses[j].question

\* A Run is completed only with an answer to every question of the benchmark,
\* although finish, fail_attempt and the reaper only compare counts.
CompletedAnswersAll ==
    \A r \in Runs : runs[r].status = "completed" => Answered(runs[r]) = Questions

\* The aggregates of a terminal Run were computed from exactly the Responses
\* stored for it: nothing is appended behind a published score.
ReportMatchesEvidence ==
    \A r \in Runs : runs[r].status \in Terminal => runs[r].evidence = runs[r].responses

\* The retry budget: a Run that can still run has budget left, each lease is
\* charged at most once (fail_attempt, takeover and reaper all charge, and may
\* race for the same lease), and a dead letter has spent the whole budget.
AttemptsChargedOnce ==
    \A r \in Runs :
        /\ runs[r].status \in {"pending", "running"} => runs[r].failed < MaxAttempts
        /\ runs[r].failed <= runs[r].token
        /\ runs[r].status = "running" => runs[r].failed < runs[r].token
        /\ runs[r].dead => runs[r].failed = MaxAttempts

\* Nothing brings a terminal Run back or touches its row again: no late lease
\* operation, no reaper, no second cancellation.
TerminalIsFinal ==
    [][\A r \in Runs : runs[r].status \in Terminal => runs'[r] = runs[r]]_vars

\* While a lease is unexpired by the database's present, no claim and no reaper
\* takes the Run from it; a stale clock reading can only make them late.
LeaseNotStolen ==
    [][\A r \in Runs :
          /\ runs[r].status = "running"
          /\ runs[r].expires > 0
          => /\ runs'[r].token = runs[r].token
             /\ runs'[r].failed > runs[r].failed
                  => \E l \in leases : l.run = r /\ l.token = runs[r].token]_vars

\* A lease that expired MaxLag ago or earlier, so that every clock reading a
\* transaction can still hold finds it expired, stays expired under its token,
\* whichever heartbeat, cancellation or late operation comes.  A heartbeat that
\* began before the expiry and waited for the row may renew a lease that
\* expired less than MaxLag ago (run_leases.py:83); nothing is said of those.
ExpiredNotRevived ==
    [][\A r \in Runs :
          /\ runs[r].status = "running"
          /\ runs[r].expires <= -MaxLag
          /\ runs'[r].status = "running"
          /\ runs'[r].token = runs[r].token
          => runs'[r].expires <= -MaxLag]_vars

PhaseOf(row) == IF row.status = "pending" THEN "waiting"
                ELSE IF row.status = "running" THEN "executing"
                ELSE row.status

PublishedBy(row) == IF row.status \in Terminal
                    THEN {row.evidence[i].question : i \in DOMAIN row.evidence}
                    ELSE {}

Lifecycle == INSTANCE RunLifecycle WITH
    phase     <- [r \in Runs |-> PhaseOf(runs[r])],
    answers   <- [r \in Runs |-> Answered(runs[r])],
    wanted    <- asked,
    published <- [r \in Runs |-> PublishedBy(runs[r])]

\* Leases, fencing, retries and reaping implement the plain Run lifecycle: the
\* repository's transactions, seen through this mapping, are lifecycle steps.
ImplementsLifecycle == Lifecycle!LifeSpec

\* docs/API.md: cancelling a pending Run makes it cancelled at once, and
\* cancelling a running one leaves the request on it.
CancelAccepted ==
    \A r \in Runs : asked[r] => runs[r].cancel \/ runs[r].status \in Terminal
=============================================================================
