------------------------------- MODULE RunRow -------------------------------
(***************************************************************************)
(* One row of the evaluation_runs table and what each transaction of       *)
(* RunLeaseRepository does to it.  Every operator here is a pure function  *)
(* of a row: the modules that EXTEND this one decide who calls it and when.*)
(*                                                                         *)
(* Time.  The database clock is modelled by countdowns: a column holding   *)
(* the instant T is the number of time units from the database's present   *)
(* until T, so "now + lease_for" is LeaseFor and "T <= now" is "<= 0".     *)
(* A transaction reads CURRENT_TIMESTAMP, which PostgreSQL fixes when the  *)
(* transaction starts; by the time it holds its row locks that reading may *)
(* be `lag' units old, 0 <= lag <= MaxLag.                                 *)
(*                                                                         *)
(* Evidence.  `responses' is the insertion order of the Run's              *)
(* EvaluationResponse rows; each carries its question and the fencing      *)
(* token of the lease that wrote it.  The aggregate columns (score,        *)
(* completion_rate, ...) are a function of the Response rows they were     *)
(* computed from, and are represented by those rows: column `evidence'.    *)
(***************************************************************************)
EXTENDS Integers, Sequences, FiniteSets

CONSTANTS
    Workers,        \* worker identities (lease owners)
    NoWorker,       \* lease_owner IS NULL
    NoTime,         \* a NULL timestamp
    Questions,      \* the questions of the frozen benchmark
    MaxAttempts,    \* max_attempts of a Run
    LeaseFor,       \* worker_lease_seconds
    BackoffBase,    \* worker_retry_backoff_base_seconds
    BackoffCap,     \* worker_retry_backoff_cap_seconds
    MaxLag          \* bound on the age of a transaction's clock reading

Total == Cardinality(Questions)                   \* total_questions

\* The delay before retry number `failed': base * 2^(failed - 1), capped.
Backoff(failed) ==
    LET delay == BackoffBase * 2^(failed - 1)
    IN  IF delay <= BackoffCap THEN delay ELSE BackoffCap

ASSUME OwnerAssumption   == NoWorker \notin Workers
ASSUME TimeAssumption    == NoTime \notin Int
ASSUME QuestionAssumption == IsFiniteSet(Questions) /\ Questions # {}
ASSUME AttemptAssumption == MaxAttempts \in Nat /\ MaxAttempts > 0
ASSUME LeaseAssumption   == LeaseFor \in Nat /\ LeaseFor > 0
ASSUME LagAssumption     == MaxLag \in Nat
ASSUME BackoffAssumption == \A k \in 1..MaxAttempts : Backoff(k) \in Nat

Terminal  == {"completed", "failed", "cancelled"}
Statuses  == {"pending", "running"} \cup Terminal
GovStates == {"legacy", "managed", "delayed", "exhausted"}
Times     == Int \cup {NoTime}
Lags      == 0..MaxLag
Response  == [question : Questions, token : Nat]

Row == [status    : Statuses,
        cancel    : BOOLEAN,                \* cancellation_requested
        owner     : Workers \cup {NoWorker},
        token     : Nat,                    \* lease_token = attempt_count
        expires   : Times,                  \* lease_expires_at
        failed    : Nat,                    \* failed_attempt_count
        nextAt    : Times,                  \* next_attempt_at
        gov       : GovStates,              \* governance_status
        govUntil  : Times,                  \* governance_not_before
        dead      : BOOLEAN,                \* dead_lettered_at IS NOT NULL
        responses : Seq(Response),
        evidence  : Seq(Response)]          \* rows the aggregates came from

\* A lease handed to a worker by claim (RunLease; attempt = token).
Lease(runs) == [run : runs, owner : Workers, token : Nat]

\* A Run as run creation inserts it: managed by admit_run, legacy from the CLI.
NewRow(managed) ==
    [status |-> "pending", cancel |-> FALSE, owner |-> NoWorker, token |-> 0,
     expires |-> NoTime, failed |-> 0, nextAt |-> NoTime,
     gov |-> IF managed THEN "managed" ELSE "legacy", govUntil |-> NoTime,
     dead |-> FALSE, responses |-> <<>>, evidence |-> <<>>]

(***************************************************************************)
(* Predicates.                                                             *)
(***************************************************************************)
Passed(t, lag)  == t # NoTime /\ t + lag <= 0     \* t IS NOT NULL AND t <= now
Due(t, lag)     == t # NoTime => t + lag <= 0     \* t IS NULL OR t <= now
\* Slip: takes over any leased Run, whatever the clock says.
Expired_IgnoresClock(row, lag) == row.status = "running" /\ row.expires # NoTime

Expired(row, lag) == row.status = "running" /\ Passed(row.expires, lag)

Answered(row)   == {row.responses[i].question : i \in DOMAIN row.responses}
\* Slip: off by one in the response count.
Complete_OffByOne(row) == Len(row.responses) >= Total - 1

Complete(row)   == Len(row.responses) = Total

\* Slip: a takeover is allowed to spend the last attempt.
Eligible_LastTakeover(row, lag) ==
    /\ ~row.cancel
    /\ row.failed < MaxAttempts
    /\ row.gov # "exhausted"
    /\ Len(row.responses) < Total
    /\ \/ row.status = "pending" /\ Due(row.nextAt, lag) /\ Due(row.govUntil, lag)
       \/ Expired(row, lag)

\* RunLeaseRepository._eligible
Eligible(row, lag) ==
    /\ ~row.cancel
    /\ row.failed < MaxAttempts
    /\ row.gov # "exhausted"
    /\ Len(row.responses) < Total
    /\ \/ /\ row.status = "pending"
          /\ Due(row.nextAt, lag)
          /\ Due(row.govUntil, lag)
       \/ /\ Expired(row, lag)
          /\ row.failed + 1 < MaxAttempts

\* Slip: the fence compares owners only, not tokens.
Owned_AnyToken(row, lease, lag) ==
    /\ row.status = "running"
    /\ row.owner = lease.owner
    /\ row.expires + lag > 0

\* Slip: the fence does not look at the expiry.
Owned_Unclocked(row, lease, lag) ==
    /\ row.status = "running"
    /\ row.owner = lease.owner
    /\ row.token = lease.token

\* RunLeaseRepository._locked_run: the fence every lease operation passes.
Owned(row, lease, lag) ==
    /\ row.status = "running"
    /\ row.owner = lease.owner
    /\ row.token = lease.token
    /\ row.expires # NoTime /\ row.expires + lag > 0

\* The CHECK constraints of evaluation_runs that relate several columns.
CheckConstraints(row) ==
    /\ (row.status = "running") <=> (row.owner # NoWorker)
    /\ (row.status = "running") <=> (row.expires # NoTime)
    /\ row.failed <= MaxAttempts
    /\ row.nextAt # NoTime => row.status = "pending"
    /\ row.dead => row.status = "failed"
    /\ row.govUntil # NoTime => row.status = "pending" /\ row.gov = "delayed"
    /\ row.gov = "exhausted" => row.status = "failed"

(***************************************************************************)
(* What one transaction leaves in the row.                                 *)
(***************************************************************************)
\* aggregate_run_evidence
Aggregate(row)  == [row EXCEPT !.evidence = row.responses]

\* RunLeaseRepository._clear_lease
ClearLease(row) == [row EXCEPT !.owner = NoWorker, !.expires = NoTime]

\* Slip: a claim does not advance lease_token.
ClaimRow_SameToken(row, w, lag) ==
    [row EXCEPT !.status = "running", !.owner = w, !.expires = LeaseFor - lag,
                !.nextAt = NoTime, !.govUntil = NoTime]

\* Slip: a claim leaves governance_not_before behind.
ClaimRow_KeepsDelay(row, w, lag) ==
    [row EXCEPT !.status = "running", !.owner = w, !.token = row.token + 1,
                !.expires = LeaseFor - lag, !.nextAt = NoTime]

\* RunLeaseRepository.claim, the conditional UPDATE
ClaimRow(row, w, lag) ==
    [row EXCEPT !.status   = "running",
                !.owner    = w,
                !.token    = row.token + 1,
                !.expires  = LeaseFor - lag,
                !.failed   = IF row.status = "running" THEN row.failed + 1 ELSE row.failed,
                !.nextAt   = NoTime,
                !.gov      = IF row.gov = "delayed" THEN "managed" ELSE row.gov,
                !.govUntil = NoTime]

\* GovernanceRepository.renew_run_lease
RenewRow(row, lag) == [row EXCEPT !.expires = LeaseFor - lag]

\* RunLeaseRepository.persist_response
PersistRow(row, lease, q) ==
    [row EXCEPT !.responses = Append(row.responses, [question |-> q, token |-> lease.token])]

\* Slip: the score of a cancelled Run is not recomputed.
CancelledRow_Stale(row) == [ClearLease(row) EXCEPT !.status = "cancelled"]

\* Every exit to `cancelled' of a running Run: finish_cancelled, fail_attempt,
\* reap_expired and EvaluationRunner._finish (the last two also clear
\* next_attempt_at, which a CHECK keeps NULL in a running row).
CancelledRow(row) ==
    [ClearLease(Aggregate(row)) EXCEPT !.status = "cancelled"]

\* RunLeaseRepository.request_cancel on a pending Run
CancelPendingRow(row) ==
    [Aggregate(row) EXCEPT !.cancel = TRUE, !.status = "cancelled", !.nextAt = NoTime]

\* RunLeaseRepository._complete_from_evidence; EvaluationRunner._finish
CompletedRow(row) ==
    [ClearLease(Aggregate(row)) EXCEPT !.status = "completed",
                                       !.nextAt = NoTime, !.dead = FALSE]

\* The common tail of fail_attempt and reap_expired: complete from evidence,
\* dead-letter, or schedule a retry.
FailRow(row, lag) ==
    LET failed == row.failed + 1
        base   == [ClearLease(Aggregate(row)) EXCEPT !.failed = failed]
    IN  IF row.cancel THEN CancelledRow(row)
        ELSE IF Complete(row) THEN CompletedRow(row)
        ELSE IF failed >= MaxAttempts
             THEN [base EXCEPT !.status = "failed", !.dead = TRUE]
             ELSE [base EXCEPT !.status = "pending", !.nextAt = Backoff(failed) - lag]

\* RunLeaseRepository.defer_governance: `until' units from now
DeferRow(row, until) ==
    [ClearLease(row) EXCEPT !.status = "pending", !.gov = "delayed",
                            !.govUntil = until, !.nextAt = NoTime]

\* RunLeaseRepository.cooperative_yield
YieldRow(row) ==
    [ClearLease(row) EXCEPT !.status = "pending", !.gov = "managed",
                            !.govUntil = NoTime, !.nextAt = NoTime]

\* Slip: the score of an exhausted Run is not recomputed.
ExhaustRow_Stale(row) ==
    [ClearLease(row) EXCEPT !.status = "failed", !.gov = "exhausted"]

\* RunLeaseRepository.exhaust_governance
ExhaustRow(row) ==
    [ClearLease(Aggregate(row)) EXCEPT !.status = "failed", !.gov = "exhausted",
                                       !.govUntil = NoTime, !.nextAt = NoTime]

\* RunLeaseRepository._fail_closed_takeover
FailClosedRow(row) ==
    IF row.cancel
    THEN [CancelledRow(row) EXCEPT !.govUntil = NoTime]
    ELSE [ClearLease(Aggregate(row)) EXCEPT
             !.status = "failed", !.govUntil = NoTime, !.nextAt = NoTime,
             !.gov = IF row.gov = "legacy" THEN "legacy" ELSE "exhausted"]

\* One unit of database time.  Instants more than MaxLag in the past are
\* indistinguishable to every transaction.
Sooner(t)    == IF t # NoTime /\ t > -MaxLag THEN t - 1 ELSE t
TickRow(row) == [row EXCEPT !.expires  = Sooner(row.expires),
                            !.nextAt   = Sooner(row.nextAt),
                            !.govUntil = Sooner(row.govUntil)]
=============================================================================
