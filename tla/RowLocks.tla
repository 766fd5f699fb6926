------------------------------ MODULE RowLocks ------------------------------
(***************************************************************************)
(* The row locks the backend's transactions take on PostgreSQL.            *)
(*                                                                         *)
(* Every repository operation is one transaction and every lock it takes   *)
(* is held to its end, so for the question who waits for whom an operation *)
(* is the sequence of its lock requests, in the order of its statements.   *)
(* A lost fence or a rollback ends a transaction sooner and takes no other *)
(* lock, so only whole sequences are modelled.                             *)
(*                                                                         *)
(* Provider and model scopes are locked between the global scope and the   *)
(* Run scope, the minute buckets of an attempt's scopes together: they are *)
(* left out and one row, respectively.  SQLite has no such question: there *)
(* every one of these transactions begins with BEGIN IMMEDIATE.            *)
(***************************************************************************)
EXTENDS Naturals, FiniteSets, Sequences, SequencesExt

CONSTANTS
    Sessions,       \* concurrent database sessions
    Runs,           \* rows of evaluation_runs
    Questions,      \* questions with a row in question_executions (or soon)
    RunOf,          \* [Questions -> Runs]
    Kinds           \* the transactions in play, a subset of AllKinds

AllKinds == {"context", "first_context", "reserve", "mark", "finish", "reconcile",
             "renew", "run_only", "new_generation", "reap",
             "create_run", "apply_policy", "model"}

ASSUME LockAssumption ==
    /\ IsFiniteSet(Sessions) /\ IsFiniteSet(Runs) /\ IsFiniteSet(Questions)
    /\ RunOf \in [Questions -> Runs]
    /\ Kinds \subseteq AllKinds

VARIABLE session        \* [Sessions -> [locks, held]]: requests, and how many granted

lockVars == <<session>>

Asks(r) == {q \in Questions : RunOf[q] = r}

(***************************************************************************)
(* Lock requests.  SELECT ... FOR UPDATE, a plain UPDATE (FOR NO KEY       *)
(* UPDATE) and the foreign key check of an INSERT (FOR KEY SHARE).         *)
(***************************************************************************)
ForUpdate(kind, id) == [row |-> <<kind, id>>, mode |-> "update"]
Updates(kind, id)   == [row |-> <<kind, id>>, mode |-> "no key update"]
KeyShare(kind, id)  == [row |-> <<kind, id>>, mode |-> "key share"]

Global    == ForUpdate("scope", "global")
Bucket    == ForUpdate("bucket", "minute")
Policy    == ForUpdate("policy", "active")
Model     == ForUpdate("model", "model")
RunRow(r) == ForUpdate("run", r)

Compatible == {<<"key share", "key share">>, <<"key share", "no key update">>,
               <<"no key update", "key share">>}

Conflict(a, b) == a.row = b.row /\ <<a.mode, b.mode>> \notin Compatible

(***************************************************************************)
(* The transactions.                                                       *)
(***************************************************************************)
\* _lock_scopes and _lock_scopes_by_id: global first, the Run's scope last.
LockScopes(r) == <<Global, ForUpdate("scope", r)>>

\* _reconcile_rows_locked over active reservations, in the order of their ids.
ReconcileRows(qs) ==
    FlattenSeq([i \in DOMAIN qs |-> <<Bucket, ForUpdate("reservation", qs[i]),
                                      RunRow(RunOf[qs[i]])>>])

\* question_context locks the cursor, then the Run.
QuestionContext(q) == <<ForUpdate("execution", q), RunRow(RunOf[q])>>

\* The first time there is no cursor to lock, and it inserts one, whose run_id
\* is a foreign key.  Other transactions do not see the new row: only a second
\* insert of the same key waits for this one.
FirstQuestionContext(q) ==
    <<ForUpdate("execution key", q), KeyShare("run", RunOf[q]), RunRow(RunOf[q])>>

\* reserve: scopes, stale reservations of any Run, buckets, cursor, Run, and
\* the keys the new reservation refers to.
Reserve(q, stale) ==
    LockScopes(RunOf[q]) \o ReconcileRows(stale)
        \o <<Bucket, ForUpdate("execution", q), RunRow(RunOf[q]),
             KeyShare("policy", "active"), KeyShare("model", "model")>>

MarkSendStarted(q) ==
    LockScopes(RunOf[q]) \o <<Bucket, ForUpdate("reservation", q), RunRow(RunOf[q]),
                              Updates("execution", q)>>

Finish(q) ==
    LockScopes(RunOf[q]) \o <<Bucket, ForUpdate("reservation", q),
                              ForUpdate("execution", q)>>

\* reconcile_run_lease, and renew_run_lease with and without active attempts
ReconcileRunLease(r, qs) == LockScopes(r) \o ReconcileRows(qs)
RenewRunLease(r, qs) ==
    (IF qs = <<>> THEN <<>> ELSE LockScopes(r))
        \o [i \in DOMAIN qs |-> ForUpdate("reservation", qs[i])] \o <<RunRow(r)>>

\* claim of an expired lease, fail_attempt with a retry: the Run, then the
\* cursors of its unanswered questions in whatever order the UPDATE finds them.
NewGeneration(r, qs) ==
    <<RunRow(r)>> \o [i \in DOMAIN qs |-> Updates("execution", qs[i])]

\* Slip: the Model before the global scope.
CreateRunLocks_ModelFirst == <<Model, Global, Policy>>

\* create_run: lock_run_admission_scope, lock_model_for_update, admit_run.
CreateRunLocks == <<Global, Model, Policy>>

ApplyPolicyLocks == <<Global, Policy>>

\* The lock sequences of a kind.  An order the code leaves open is any order.
Orders(S) == UNION {SetToSeqs(T) : T \in SUBSET S}
LocksOf(kind) ==
    CASE kind = "context"        -> {QuestionContext(q) : q \in Questions}
      [] kind = "first_context"  -> {FirstQuestionContext(q) : q \in Questions}
      [] kind = "reserve"        -> {Reserve(q, s) : q \in Questions, s \in Orders(Questions)}
      [] kind = "mark"           -> {MarkSendStarted(q) : q \in Questions}
      [] kind = "finish"         -> {Finish(q) : q \in Questions}
      [] kind = "reconcile"      -> UNION {{ReconcileRunLease(r, s) : s \in Orders(Asks(r)) \ {<<>>}} : r \in Runs}
      [] kind = "renew"          -> UNION {{RenewRunLease(r, s) : s \in Orders(Asks(r))} : r \in Runs}
      [] kind = "run_only"       -> {<<RunRow(r)>> : r \in Runs}
      [] kind = "new_generation" -> UNION {{NewGeneration(r, s) : s \in Orders(Asks(r))} : r \in Runs}
      [] kind = "reap"           -> {FlattenSeq([i \in DOMAIN rs |-> NewGeneration(rs[i], SetToSeq(Asks(rs[i])))])
                                       : rs \in Orders(Runs) \ {<<>>}}
      [] kind = "create_run"     -> {CreateRunLocks}
      [] kind = "apply_policy"   -> {ApplyPolicyLocks}
      [] kind = "model"          -> {<<Model>>}

(***************************************************************************)
(* The lock manager.                                                       *)
(***************************************************************************)
None == [locks |-> <<>>, held |-> 0]
LockInit == session = [s \in Sessions |-> None]

Held(s)     == {session[s].locks[i] : i \in 1..session[s].held}
Pending(s)  == session[s].held < Len(session[s].locks)
Wanted(s)   == session[s].locks[session[s].held + 1]
WaitsFor(s, t) ==
    s # t /\ Pending(s) /\ \E l \in Held(t) : Conflict(l, Wanted(s))

Begin(s) ==
    /\ session[s] = None
    /\ \E kind \in Kinds : \E locks \in LocksOf(kind) :
          session' = [session EXCEPT ![s] = [locks |-> locks, held |-> 0]]

Acquire(s) ==
    /\ Pending(s)
    /\ \A t \in Sessions : ~WaitsFor(s, t)
    /\ session' = [session EXCEPT ![s].held = @ + 1]

Commit(s) ==
    /\ session[s] # None /\ ~Pending(s)
    /\ session' = [session EXCEPT ![s] = None]

LockNext == \E s \in Sessions : Begin(s) \/ Acquire(s) \/ Commit(s)

LockSpec == LockInit /\ [][LockNext]_lockVars

-----------------------------------------------------------------------------
(***************************************************************************)
(* Properties.                                                             *)
(***************************************************************************)
\* Transactions never wait for each other in a circle: in every set of
\* sessions someone waits for nobody in it.  This is what the fixed lock order
\* of ADR-0009 and the global-before-Model order of create_run are for; where
\* it fails PostgreSQL aborts one of the transactions.
NoCircularWait ==
    \A S \in (SUBSET Sessions) \ {{}} :
        \E s \in S : \A t \in S : ~WaitsFor(s, t)
=============================================================================
