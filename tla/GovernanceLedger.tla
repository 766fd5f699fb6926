--------------------------- MODULE GovernanceLedger ---------------------------
(***************************************************************************)
(* The provider-attempt ledger: GovernanceRepository's reserve,            *)
(* mark_send_started, finish and reconcile transactions, driven by the     *)
(* adapters' retry loop (one call per question and lease) and by the Run   *)
(* transitions that move the fence and the retry cursors underneath it.    *)
(*                                                                         *)
(* Every repository operation is one transaction that first locks the      *)
(* `global' scope row, so each is one atomic action; the stages of a call  *)
(* (context, reserve, mark, HTTP, finish, persist) are separate            *)
(* transactions and interleave with everything else.  A lease is named by  *)
(* its Run and fencing token (one token never has two owners: RunLeases).  *)
(*                                                                         *)
(* The amounts of a reservation (input tokens, output tokens, cost) are    *)
(* moved by the same statements and are represented by one amount, the     *)
(* constant Reservation; the governance policy is one policy.              *)
(***************************************************************************)
EXTENDS Integers, FiniteSets, FiniteSetsExt

CONSTANTS
    Runs, Questions,
    RunOf,           \* the Run each question belongs to
    Scopes,          \* governance_scopes rows: global, provider, model, run
    ScopesOf,        \* the scopes an attempt of each Run is charged to
    NoLimit,         \* a NULL limit of the policy
    Concurrency,     \* <scope>_concurrency_limit
    PerMinute,       \* <scope>_requests_per_minute
    TokensPerMinute, \* <scope>_tokens_per_minute
    Lifetime,        \* <scope>_lifetime_request_budget
    TokenBudget,     \* <scope>_lifetime_token_budget
    Reservation,     \* the amount one attempt reserves
    Usages,          \* the amounts a provider may report as used
    MaxProviderAttempts,  \* retry_policy.max_attempts = max_retries + 1
    ClockLag,        \* whether a transaction's clock may predate its locks
    MaxToken, MaxMinute   \* bounds on claims and on wall-clock minutes

Limit == [Scopes -> Nat \cup {NoLimit}]

ASSUME RunAssumption   == RunOf \in [Questions -> Runs]
ASSUME ScopeAssumption == /\ ScopesOf \in [Runs -> SUBSET Scopes]
                          /\ IsFiniteSet(Scopes)
ASSUME LimitAssumption == /\ {Concurrency, PerMinute, TokensPerMinute,
                               Lifetime, TokenBudget} \subseteq Limit
                          /\ NoLimit \notin Nat
ASSUME AmountAssumption == Reservation \in Nat /\ Usages \subseteq Nat
ASSUME BoundAssumption == /\ MaxProviderAttempts \in Nat \ {0}
                          /\ MaxToken \in Nat /\ MaxMinute \in Nat
                          /\ ClockLag \in BOOLEAN

VARIABLES
    run,       \* the fence columns of evaluation_runs
    opened,    \* questions with a question_executions row
    cursor,    \* its execution_generation and next_provider_attempt
    answered,  \* questions with an EvaluationResponse
    call,      \* the adapter call of each question under each lease
    ledger,    \* provider_call_reservations, by operation key
    scope,     \* governance_scopes counters
    bucket,    \* governance_minute_buckets counters
    minute,    \* the UTC minute of the database clock
    epoch,     \* history: generation at which a Run failure reset the cursor
    reconciled,\* run_lease_reconciled audit events
    lagging    \* actors whose transaction predates their lease's expiry

vars == <<run, opened, cursor, answered, call, ledger, scope, bucket, minute,
          epoch, reconciled, lagging>>

Tokens  == 1..MaxToken
Minutes == 0..MaxMinute
Active  == {"reserved", "send_started"}
Settled == {"settled_actual", "settled_conservative"}
Sent    == {"send_started"} \cup Settled
Stages  == {"none", "admitted", "permitted", "releasing", "sending",
            "returned", "gone"}

\* operation_key run:question:generation:attempt
Key  == [q : Questions, gen : Nat, att : Nat]
KeyRow == [state  : Active \cup Settled \cup {"released_pre_send"},
           token  : Tokens,
           window : Minutes,
           actual : Nat]
Idle == [stage |-> "none", gen |-> 0, att |-> 0]
Gone == [stage |-> "gone", gen |-> 0, att |-> 0]
Zero == [active |-> 0, reserved |-> 0, consumed |-> 0,
         held |-> 0, used |-> 0, overdrawn |-> FALSE]
ZeroBucket == [reserved |-> 0, consumed |-> 0, held |-> 0, used |-> 0]

Init ==
    /\ run = [r \in Runs |-> [status |-> "pending", token |-> 0,
                              live |-> FALSE, cancel |-> FALSE]]
    /\ opened = {}
    /\ cursor = [q \in Questions |-> [gen |-> 0, next |-> 1]]
    /\ answered = {}
    /\ call = [q \in Questions |-> [t \in Tokens |-> Idle]]
    /\ ledger = [k \in {} |-> {}]
    /\ scope = [s \in Scopes |-> Zero]
    /\ bucket = [s \in Scopes |-> [m \in Minutes |-> ZeroBucket]]
    /\ minute = 0
    /\ epoch = [q \in Questions |-> 0]
    /\ reconciled = {}
    /\ lagging = {}

-----------------------------------------------------------------------------
(* The fence.  A transaction reads CURRENT_TIMESTAMP when it starts, and   *)
(* may wait for its locks while the lease expires.  `lagging' holds the    *)
(* actors (a call, or the owner's own loop for a Run) whose transaction    *)
(* under way predates the expiry: that transaction still sees it live.     *)

Sees(actor, r, t) == IF <<actor, t>> \in lagging THEN {<<r, t>>} ELSE {}

SeesCall(q, t) == Sees(q, RunOf[q], t)

\* Running, not cancelled, this token, lease_expires_at > now: the condition
\* under which context, reserve, mark_send_started and renew go ahead, and
\* the still_owned of reconciliation.
Fenced(r, t, seen) ==
    /\ run[r].status = "running"
    /\ ~run[r].cancel
    /\ run[r].token = t
    /\ run[r].live \/ <<r, t>> \in seen

CallFenced(q, t) == Fenced(RunOf[q], t, SeesCall(q, t))

-----------------------------------------------------------------------------
(* Closing ledger rows.  R is released pre-send, C is settled with `used'. *)

KeyOf(q, t) == [q |-> q, gen |-> call[q][t].gen, att |-> call[q][t].att]

Charged(s, S) == {k \in S : s \in ScopesOf[RunOf[k.q]]}

\* Slip: a settlement gives back the reserved request that send-start took.
CloseScopes_Twice(R, C, used) ==
    [s \in Scopes |->
        LET n == Cardinality(Charged(s, R)) + Cardinality(Charged(s, C))
        IN  [scope[s] EXCEPT !.active = @ - n, !.reserved = @ - n]]

CloseScopes(R, C, used) ==
    [s \in Scopes |->
        LET r == Cardinality(Charged(s, R))
            c == Cardinality(Charged(s, C))
        IN  [scope[s] EXCEPT !.active   = @ - (r + c),
                             !.reserved = @ - r,
                             !.held     = @ - Reservation * (r + c),
                             !.used     = @ + used * c,
                             !.overdrawn = @ \/ (c > 0 /\ used > Reservation)]]

CloseBuckets(R, C, used) ==
    [s \in Scopes |-> [m \in Minutes |->
        LET In(S) == Charged(s, {k \in S : ledger[k].window = m})
            r == Cardinality(In(R))
            c == Cardinality(In(C))
        IN  [bucket[s][m] EXCEPT !.reserved = @ - r,
                                 !.held     = @ - Reservation * (r + c),
                                 !.used     = @ + used * c]]]

CloseRows(R, C, used, how) ==
    [k \in DOMAIN ledger |->
        IF k \in R THEN [ledger[k] EXCEPT !.state = "released_pre_send"]
        ELSE IF k \in C THEN [ledger[k] EXCEPT !.state = how, !.actual = used]
        ELSE ledger[k]]

\* Active rows whose lease no longer owns its Run, and their two fates.
Stale(seen) ==
    {k \in DOMAIN ledger :
        /\ ledger[k].state \in Active
        /\ ~Fenced(RunOf[k.q], ledger[k].token, seen)}

Unsent(S) == {k \in S : ledger[k].state = "reserved"}
InDoubt(S) == S \ Unsent(S)

LeaseOf(k) == <<RunOf[k.q], ledger[k].token>>

\* The run_lease_reconciled events of one transaction: its key is the lease,
\* its payload the two counts.
Tally(S) ==
    {[lease    |-> l,
      released |-> Cardinality({k \in Unsent(S) : LeaseOf(k) = l}),
      settled  |-> Cardinality({k \in InDoubt(S) : LeaseOf(k) = l})] :
        l \in {LeaseOf(k) : k \in S}}

\* append_audit_event replays an equal event and aborts the transaction
\* (AuditIntegrityError) when the key holds a different payload.
Auditable(S) ==
    \A old \in reconciled, new \in Tally(S) : old.lease = new.lease => old = new

-----------------------------------------------------------------------------
(* Limits *)

Fits(limit, amount) == limit # NoLimit => amount <= limit

\* reserved/consumed plus one more attempt, in the window m of scope s
WindowAdmits(s, b) ==
    /\ Fits(PerMinute[s], b.reserved + b.consumed + 1)
    /\ Fits(TokensPerMinute[s], b.held + b.used + Reservation)

CheckLimits(r, sc, bk) ==
    \A s \in ScopesOf[r] :
        /\ ~sc[s].overdrawn
        /\ Fits(Concurrency[s], sc[s].active + 1)
        /\ WindowAdmits(s, bk[s][minute])
        /\ Fits(Lifetime[s], sc[s].reserved + sc[s].consumed + 1)
        /\ Fits(TokenBudget[s], sc[s].held + sc[s].used + Reservation)

-----------------------------------------------------------------------------
(* The Run transitions, as the ledger sees them: they move the fence, and  *)
(* a true failure starts a new execution generation.                       *)

\* Slip: the retry cursor restarts in the generation already in the ledger.
NewGeneration_SameKeys(r) ==
    /\ cursor' = [q \in Questions |->
                    IF q \in opened \ answered /\ RunOf[q] = r
                    THEN [cursor[q] EXCEPT !.next = 1] ELSE cursor[q]]
    /\ UNCHANGED epoch

NewGeneration(r) ==
    LET Reset == {q \in opened \ answered : RunOf[q] = r}
    IN  /\ cursor' = [q \in Questions |->
                        IF q \in Reset
                        THEN [gen |-> cursor[q].gen + 1, next |-> 1]
                        ELSE cursor[q]]
        /\ epoch' = [q \in Questions |->
                        IF q \in Reset THEN cursor[q].gen + 1 ELSE epoch[q]]

SameGeneration == UNCHANGED <<cursor, epoch>>

Accounts == <<ledger, scope, bucket, reconciled>>

Issue(r) == run' = [run EXCEPT ![r].status = "running", ![r].token = @ + 1,
                               ![r].live = TRUE]

Relinquish(r, status) ==
    run' = [run EXCEPT ![r].status = status, ![r].live = FALSE]

Elsewhere == UNCHANGED <<opened, answered, call, minute>>

\* The transaction under way is over.
Done(actor, t) == lagging' = lagging \ {<<actor, t>>}

Claim(r) ==
    /\ run[r].status = "pending" /\ ~run[r].cancel /\ run[r].token < MaxToken
    /\ Issue(r) /\ SameGeneration
    /\ Elsewhere /\ UNCHANGED Accounts /\ UNCHANGED lagging

Takeover(r) ==
    /\ run[r].status = "running" /\ ~run[r].live
    /\ ~run[r].cancel /\ run[r].token < MaxToken
    /\ Issue(r) /\ NewGeneration(r)
    /\ Elsewhere /\ UNCHANGED Accounts /\ UNCHANGED lagging

\* cooperative_yield and defer_governance: the generation continues.
Yield(r) ==
    /\ run[r].status = "running"
    /\ run[r].live \/ <<r, run[r].token>> \in lagging
    /\ Relinquish(r, "pending") /\ SameGeneration /\ Done(r, run[r].token)
    /\ Elsewhere /\ UNCHANGED Accounts

\* fail_attempt by the owner, or reap_expired, scheduling a retry.
Retry(r) ==
    /\ run[r].status = "running" /\ ~run[r].cancel
    /\ Relinquish(r, "pending") /\ NewGeneration(r) /\ Done(r, run[r].token)
    /\ Elsewhere /\ UNCHANGED Accounts

\* Every transition to a terminal status.
Stop(r) ==
    /\ run[r].status = "running"
    /\ Relinquish(r, "terminal") /\ SameGeneration /\ Done(r, run[r].token)
    /\ Elsewhere /\ UNCHANGED Accounts

RequestCancel(r) ==
    /\ run[r].status \in {"pending", "running"}
    /\ run' = [run EXCEPT ![r].cancel = TRUE,
                          ![r].status = IF @ = "pending" THEN "terminal" ELSE @]
    /\ SameGeneration /\ Elsewhere /\ UNCHANGED Accounts /\ UNCHANGED lagging

\* renew_run_lease; on a live lease it changes nothing seen here.
Renew(r) ==
    /\ ~run[r].live /\ Fenced(r, run[r].token, Sees(r, r, run[r].token))
    /\ run' = [run EXCEPT ![r].live = TRUE]
    /\ Done(r, run[r].token)
    /\ SameGeneration /\ Elsewhere /\ UNCHANGED Accounts

\* The database clock passes lease_expires_at.
Lapse(r) ==
    LET t == run[r].token
        Actors == {r} \cup {q \in Questions : /\ RunOf[q] = r
                                               /\ call[q][t].stage # "gone"}
    IN  /\ run[r].status = "running" /\ run[r].live
        /\ run' = [run EXCEPT ![r].live = FALSE]
        /\ \E A \in SUBSET (IF ClockLag THEN Actors ELSE {}) :
                lagging' = lagging \cup (A \X {t})
        /\ SameGeneration /\ Elsewhere /\ UNCHANGED Accounts

NextMinute ==
    /\ minute < MaxMinute
    /\ minute' = minute + 1
    /\ SameGeneration
    /\ UNCHANGED <<run, opened, answered, call, lagging>>
    /\ UNCHANGED Accounts

-----------------------------------------------------------------------------
(* One question's adapter call under one lease *)

Enter(q, t, c) == call' = [call EXCEPT ![q][t] = c] /\ Done(q, t)

Stage(q, t, stage) == Enter(q, t, [call[q][t] EXCEPT !.stage = stage])

End(q, t) == Enter(q, t, Gone)

\* question_context, then the adapter's check of the first ordinal: a cursor
\* past the retry policy is an error Response without any attempt.
QuestionContext(q, t) ==
    /\ call[q][t].stage = "none" /\ q \notin answered
    /\ CallFenced(q, t)
    /\ opened' = opened \cup {q}
    /\ Enter(q, t, [stage |-> IF cursor[q].next <= MaxProviderAttempts
                              THEN "admitted" ELSE "returned",
                    gen |-> cursor[q].gen, att |-> cursor[q].next])
    /\ SameGeneration
    /\ UNCHANGED <<run, answered, minute>> /\ UNCHANGED Accounts

\* reserve.  `heard' is FALSE when the commit's acknowledgement is lost: the
\* adapter stops (GovernanceSettlementUnknown) and holds no permit.
Reserve(q, t, heard) ==
    LET r == RunOf[q]
        k == KeyOf(q, t)
        R == Unsent(Stale(SeesCall(q, t)))
        C == InDoubt(Stale(SeesCall(q, t)))
        sc == CloseScopes(R, C, Reservation)
        bk == CloseBuckets(R, C, Reservation)
        rows == CloseRows(R, C, Reservation, "settled_conservative")
    IN  /\ call[q][t].stage = "admitted"
        /\ CallFenced(q, t)
        /\ cursor[q] = [gen |-> k.gen, next |-> k.att]
        /\ k.att <= MaxProviderAttempts
        /\ Auditable(Stale(SeesCall(q, t)))
        /\ CheckLimits(r, sc, bk)
        /\ ledger' = [x \in DOMAIN ledger \cup {k} |->
                        IF x = k THEN [state |-> "reserved", token |-> t,
                                       window |-> minute, actual |-> 0]
                        ELSE rows[x]]
        /\ scope' = [s \in Scopes |->
                        IF s \in ScopesOf[r]
                        THEN [sc[s] EXCEPT !.active = @ + 1, !.reserved = @ + 1,
                                           !.held = @ + Reservation]
                        ELSE sc[s]]
        /\ bucket' = [s \in Scopes |->
                        IF s \in ScopesOf[r]
                        THEN [bk[s] EXCEPT ![minute].reserved = @ + 1,
                                           ![minute].held = @ + Reservation]
                        ELSE bk[s]]
        /\ cursor' = [cursor EXCEPT ![q].next = @ + 1]
        /\ reconciled' = reconciled \cup Tally(Stale(SeesCall(q, t)))
        /\ IF heard THEN Stage(q, t, "permitted") ELSE End(q, t)
        /\ UNCHANGED <<run, opened, answered, minute, epoch>>

\* The old and the new window of a reservation sent in the current minute
Moves(q, t) == ledger[KeyOf(q, t)].window # minute

\* Slip: the new minute's limits are not checked again.
MarkAdmits_Unchecked(q, t) == TRUE

MarkAdmits(q, t) ==
    Moves(q, t) =>
        \A s \in ScopesOf[RunOf[q]] : WindowAdmits(s, bucket[s][minute])

\* Slip: the amounts stay behind in the minute of the reservation.
MarkSendStarted_ForgetsTokens(q, t) ==
    LET k == KeyOf(q, t)
    IN  /\ call[q][t].stage = "permitted"
        /\ ledger[k].state = "reserved"
        /\ CallFenced(q, t) /\ MarkAdmits(q, t)
        /\ ledger' = [ledger EXCEPT ![k].state = "send_started",
                                     ![k].window = minute]
        /\ scope' = [s \in Scopes |->
                        IF s \in ScopesOf[RunOf[q]]
                        THEN [scope[s] EXCEPT !.reserved = @ - 1,
                                              !.consumed = @ + 1]
                        ELSE scope[s]]
        /\ bucket' = [s \in Scopes |->
                        IF s \in ScopesOf[RunOf[q]]
                        THEN LET out == [bucket[s] EXCEPT
                                            ![ledger[k].window].reserved = @ - 1]
                             IN  [out EXCEPT ![minute].consumed = @ + 1]
                        ELSE bucket[s]]
        /\ Stage(q, t, "sending")
        /\ SameGeneration
        /\ UNCHANGED <<run, opened, answered, minute, reconciled>>

MarkSendStarted(q, t) ==
    LET k == KeyOf(q, t)
        old == ledger[k].window
        moved == IF Moves(q, t) THEN Reservation ELSE 0
    IN  /\ call[q][t].stage = "permitted"
        /\ ledger[k].state = "reserved"
        /\ CallFenced(q, t)
        /\ MarkAdmits(q, t)
        /\ ledger' = [ledger EXCEPT ![k].state = "send_started",
                                     ![k].window = minute]
        /\ scope' = [s \in Scopes |->
                        IF s \in ScopesOf[RunOf[q]]
                        THEN [scope[s] EXCEPT !.reserved = @ - 1,
                                              !.consumed = @ + 1]
                        ELSE scope[s]]
        /\ bucket' = [s \in Scopes |->
                        IF s \in ScopesOf[RunOf[q]]
                        THEN LET out == [bucket[s] EXCEPT ![old].reserved = @ - 1,
                                                          ![old].held = @ - moved]
                             IN  [out EXCEPT ![minute].consumed = @ + 1,
                                             ![minute].held = @ + moved]
                        ELSE bucket[s]]
        /\ Stage(q, t, "sending")
        /\ SameGeneration
        /\ UNCHANGED <<run, opened, answered, minute, reconciled>>

\* mark_send_started raises: on a row already closed the outcome is unknown
\* and the adapter stops; on a lost fence or a full new window it releases.
MarkRefused(q, t) ==
    /\ call[q][t].stage = "permitted"
    /\ \/ /\ ledger[KeyOf(q, t)].state # "reserved"
          /\ End(q, t)
       \/ /\ ledger[KeyOf(q, t)].state = "reserved"
          /\ ~(CallFenced(q, t) /\ MarkAdmits(q, t))
          /\ Stage(q, t, "releasing")
    /\ SameGeneration
    /\ UNCHANGED <<run, opened, answered, minute>> /\ UNCHANGED Accounts

\* Slip: a pre-send release starts the question's retries over.
ReleasePreSend_FromOne(q, t) ==
    LET k == KeyOf(q, t)
    IN  /\ call[q][t].stage = "releasing" /\ ledger[k].state = "reserved"
        /\ End(q, t)
        /\ cursor' = [cursor EXCEPT ![q] = [gen |-> k.gen + 1, next |-> 1]]
        /\ scope' = CloseScopes({k}, {}, 0)
        /\ bucket' = CloseBuckets({k}, {}, 0)
        /\ ledger' = CloseRows({k}, {}, 0, "settled_actual")
        /\ UNCHANGED <<run, opened, answered, minute, epoch, reconciled>>

\* finish(RELEASED_PRE_SEND): the unsent ordinal is retried under a new
\* generation.  A row that is already closed is left alone, and a cursor
\* that has moved on rolls the transaction back.
ReleasePreSend(q, t) ==
    LET k == KeyOf(q, t)
    IN  /\ call[q][t].stage = "releasing"
        /\ End(q, t)
        /\ IF /\ ledger[k].state = "reserved"
              /\ cursor[q] = [gen |-> k.gen, next |-> k.att + 1]
           THEN /\ cursor' = [cursor EXCEPT ![q] =
                                [gen |-> k.gen + 1, next |-> k.att]]
                /\ scope' = CloseScopes({k}, {}, 0)
                /\ bucket' = CloseBuckets({k}, {}, 0)
                /\ ledger' = CloseRows({k}, {}, 0, "settled_actual")
           ELSE UNCHANGED <<cursor, scope, bucket, ledger>>
        /\ UNCHANGED <<run, opened, answered, minute, epoch, reconciled>>

\* Slip: a late owner settles a row the reconciler has already closed.
Finish_Blind(q, t, used, how) ==
    LET k == KeyOf(q, t)
    IN  /\ scope' = CloseScopes({}, {k}, used)
        /\ bucket' = CloseBuckets({}, {k}, used)
        /\ ledger' = CloseRows({}, {k}, used, how)

\* finish after the HTTP exchange, unless a reconciler closed the row first.
Finish(q, t, used, how) ==
    LET k == KeyOf(q, t)
    IN  IF ledger[k].state = "send_started"
        THEN /\ scope' = CloseScopes({}, {k}, used)
             /\ bucket' = CloseBuckets({}, {k}, used)
             /\ ledger' = CloseRows({}, {k}, used, how)
        ELSE UNCHANGED <<scope, bucket, ledger>>

SettleActual(q, t, used) ==
    /\ call[q][t].stage = "sending"
    /\ Finish(q, t, used, "settled_actual")
    /\ Stage(q, t, "returned")
    /\ SameGeneration
    /\ UNCHANGED <<run, opened, answered, minute, reconciled>>

\* Incomplete usage, transport and HTTP errors: a retryable error goes on to
\* the next ordinal while the policy allows one.
SettleConservative(q, t, again) ==
    /\ call[q][t].stage = "sending"
    /\ again => call[q][t].att < MaxProviderAttempts
    /\ Finish(q, t, Reservation, "settled_conservative")
    /\ Enter(q, t, [call[q][t] EXCEPT
                    !.stage = IF again THEN "admitted" ELSE "returned",
                    !.att = IF again THEN @ + 1 ELSE @])
    /\ SameGeneration
    /\ UNCHANGED <<run, opened, answered, minute, reconciled>>

\* persist_response under the fence
PersistResponse(q, t) ==
    /\ call[q][t].stage = "returned"
    /\ CallFenced(q, t)
    /\ answered' = answered \cup {q}
    /\ End(q, t)
    /\ SameGeneration
    /\ UNCHANGED <<run, opened, minute>> /\ UNCHANGED Accounts

\* The worker dies, the call is cancelled, an acknowledgement is lost or a
\* control signal is raised: the call ends and the ledger keeps its row.
Abandon(q, t) ==
    /\ call[q][t].stage \notin {"none", "gone"}
    /\ End(q, t)
    /\ SameGeneration
    /\ UNCHANGED <<run, opened, answered, minute>> /\ UNCHANGED Accounts

\* reconcile_run_lease, after the lease has been given up or taken over, or
\* by the reaper once it has expired.
ReconcileRunLease(r, t) ==
    LET S == {k \in Stale({}) : LeaseOf(k) = <<r, t>>}
    IN  /\ S # {} /\ Auditable(S)
        /\ scope' = CloseScopes(Unsent(S), InDoubt(S), Reservation)
        /\ bucket' = CloseBuckets(Unsent(S), InDoubt(S), Reservation)
        /\ ledger' = CloseRows(Unsent(S), InDoubt(S), Reservation,
                               "settled_conservative")
        /\ reconciled' = reconciled \cup Tally(S)
        /\ SameGeneration /\ Elsewhere /\ UNCHANGED <<run, lagging>>

Next ==
    \/ NextMinute
    \/ \E r \in Runs :
        \/ Claim(r) \/ Takeover(r) \/ Yield(r) \/ Retry(r) \/ Stop(r)
        \/ RequestCancel(r) \/ Renew(r) \/ Lapse(r)
        \/ \E t \in Tokens : ReconcileRunLease(r, t)
    \/ \E q \in Questions, t \in Tokens :
        \/ QuestionContext(q, t)
        \/ \E heard \in BOOLEAN : Reserve(q, t, heard)
        \/ MarkSendStarted(q, t) \/ MarkRefused(q, t) \/ ReleasePreSend(q, t)
        \/ \E used \in Usages : SettleActual(q, t, used)
        \/ \E again \in BOOLEAN : SettleConservative(q, t, again)
        \/ PersistResponse(q, t) \/ Abandon(q, t)

Spec == Init /\ [][Next]_vars

-----------------------------------------------------------------------------
(* Properties *)

\* Every variable has its type; counters never go negative.
TypeOK ==
    /\ run \in [Runs -> [status : {"pending", "running", "terminal"},
                          token  : 0..MaxToken,
                          live   : BOOLEAN,
                          cancel : BOOLEAN]]
    /\ opened \subseteq Questions /\ answered \subseteq Questions
    /\ cursor \in [Questions -> [gen : Nat, next : Nat \ {0}]]
    /\ call \in [Questions -> [Tokens -> [stage : Stages, gen : Nat, att : Nat]]]
    /\ DOMAIN ledger \subseteq Key
    /\ \A k \in DOMAIN ledger : ledger[k] \in KeyRow
    /\ scope \in [Scopes -> [active : Nat, reserved : Nat, consumed : Nat,
                              held : Nat, used : Nat, overdrawn : BOOLEAN]]
    /\ bucket \in [Scopes -> [Minutes -> [reserved : Nat, consumed : Nat,
                                          held : Nat, used : Nat]]]
    /\ minute \in Minutes
    /\ epoch \in [Questions -> Nat]

\* The rows charged to a scope in the given states
RowsIn(s, states) ==
    Charged(s, {k \in DOMAIN ledger : ledger[k].state \in states})

UsedBy(S) == MapThenSumSet(LAMBDA k : ledger[k].actual, S)

\* _validate_scope_materialization_locked and
\* _validate_bucket_materialization_locked never find drift: after any
\* sequence of reservations, sends, settlements, releases and
\* reconciliations, crossing minutes or not, the scope and minute counters
\* are what the ledger rows add up to.
CountersMatchLedger ==
    \A s \in Scopes :
        /\ scope[s].active = Cardinality(RowsIn(s, Active))
        /\ scope[s].reserved = Cardinality(RowsIn(s, {"reserved"}))
        /\ scope[s].consumed = Cardinality(RowsIn(s, Sent))
        /\ scope[s].held = Reservation * Cardinality(RowsIn(s, Active))
        /\ scope[s].used = UsedBy(RowsIn(s, Settled))
        /\ scope[s].overdrawn <=> \E k \in RowsIn(s, Settled) :
                                     ledger[k].actual > Reservation
        /\ \A m \in Minutes :
            LET In(states) == {k \in RowsIn(s, states) : ledger[k].window = m}
            IN  bucket[s][m] = [reserved |-> Cardinality(In({"reserved"})),
                                consumed |-> Cardinality(In(Sent)),
                                held |-> Reservation * Cardinality(In(Active)),
                                used |-> UsedBy(In(Settled))]

\* However attempts, minute changes, crashes and reconciliations interleave,
\* no scope ever has more active attempts, more attempts in one minute or
\* more attempts over its lifetime than its policy allows, and as long as no
\* attempt has overdrawn its reservation neither are its amounts exceeded.
LimitsHold ==
    \A s \in Scopes :
        /\ Fits(Concurrency[s], scope[s].active)
        /\ Fits(Lifetime[s], scope[s].reserved + scope[s].consumed)
        /\ \A m \in Minutes :
            Fits(PerMinute[s], bucket[s][m].reserved + bucket[s][m].consumed)
        /\ ~scope[s].overdrawn =>
            /\ Fits(TokenBudget[s], scope[s].held + scope[s].used)
            /\ \A m \in Minutes :
                Fits(TokensPerMinute[s], bucket[s][m].held + bucket[s][m].used)

\* The ledger rows of a question that reached the provider since a Run
\* failure last reset its retry cursor.
SentSince(q) ==
    {k \in DOMAIN ledger :
        k.q = q /\ k.gen >= epoch[q] /\ ledger[k].state \in Sent}

\* Between two Run failures a question spends each retry ordinal on at most
\* one request, and never more requests than the retry policy allows: yields,
\* deferrals, pre-send releases (which restart the generation) and lost
\* acknowledgements cannot reset the retry budget.
RetryBudgetKept ==
    \A q \in Questions :
        /\ \A k, l \in SentSince(q) : k.att = l.att => k = l
        /\ \A k \in SentSince(q) : k.att < cursor[q].next
        /\ Cardinality(SentSince(q)) <= MaxProviderAttempts

\* While an adapter is between send-start and finish, its row is charged as
\* sent, to exactly one minute, whatever reconcilers have done meanwhile; and
\* two calls never work on one ledger row.
CallsOwnTheirRows ==
    \A q \in Questions, t \in Tokens :
        call[q][t].stage \in {"permitted", "releasing", "sending"} =>
            /\ KeyOf(q, t) \in DOMAIN ledger
            /\ ledger[KeyOf(q, t)].token = t
            /\ call[q][t].stage = "sending" =>
                ledger[KeyOf(q, t)].state \in Sent
            /\ call[q][t].stage = "releasing" =>
                ledger[KeyOf(q, t)].state \in {"reserved", "released_pre_send"}

\* Ledger rows are never deleted and only move reserved -> send_started ->
\* settled or reserved -> released_pre_send; a closed row never changes, so
\* the old owner's finish and the reconciler cannot both settle it.
LedgerOneWay ==
    [][\A k \in DOMAIN ledger :
        /\ k \in DOMAIN ledger'
        /\ ledger[k].state \notin Active => ledger'[k] = ledger[k]
        /\ ledger[k].state = "send_started" =>
            ledger'[k].state \in Sent /\ ledger'[k].window = ledger[k].window
        /\ ledger'[k].token = ledger[k].token]_vars

\* ADR-0009: whoever reconciles a dead lease may do so again and again, and its
\* audit event is unique: no lease with active rows left has a different
\* run_lease_reconciled event already.  The code does not do this: a transaction
\* that read the clock before the lease expired adds a row to a lease that has
\* been reconciled (ClockLag), and append_audit_event refuses the second event.
ReconcileNeverConflicts == Auditable(Stale({}))

\* The types, and the materialised counters of scopes and buckets are those
\* of the ledger after every transaction of the repository.
LedgerInv == TypeOK /\ CountersMatchLedger

\* A question's provider attempts: never more than the policy allows, through
\* releases, takeovers and yields (_restart_question_execution_after_pre_send,
\* _begin_new_execution_generation), and each call on a row of its own.
AttemptsInv == RetryBudgetKept /\ CallsOwnTheirRows
=============================================================================
