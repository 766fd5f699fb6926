--------------------------- MODULE RunLeasesProofs ---------------------------
(***************************************************************************)
(* Theorems about RunLeases, for every number of workers, Runs, questions, *)
(* claims and attempts, every lease length and every clock lag.            *)
(*                                                                         *)
(* The argument is by rows.  RowOK is the part of the inductive invariant  *)
(* that speaks of one row; each transformer of RunRow preserves it (lemmas *)
(* Claim_RowOK ... Tick_RowOK).  Inv adds what ties rows to leases.        *)
(***************************************************************************)
EXTENDS RunLeases, FiniteSetTheorems, TLAPS

Distinct(row) ==
    \A i, j \in DOMAIN row.responses :
        i # j => row.responses[i].question # row.responses[j].question

Budget(row) ==
    /\ row.status \in {"pending", "running"} => row.failed < MaxAttempts
    /\ row.failed <= row.token
    /\ row.status = "running" => row.failed < row.token
    /\ row.dead => row.failed = MaxAttempts

RowOK(row) ==
    /\ row \in Row
    /\ CheckConstraints(row)
    /\ Distinct(row)
    /\ Budget(row)
    /\ row.status = "completed" => Answered(row) = Questions
    /\ row.status \in Terminal => row.evidence = row.responses

Inv ==
    /\ TypeOK
    /\ EvidenceFenced
    /\ \A r \in Runs : RowOK(runs[r])

-----------------------------------------------------------------------------
\* A Run whose Response count equals total_questions has answered every
\* question: the counting test of _complete_from_evidence is sound because
\* responses are distinct.
LEMMA CountIsEnough ==
    ASSUME NEW row \in Row, Distinct(row), Complete(row)
    PROVE  Answered(row) = Questions
<1> DEFINE n == Len(row.responses)
           f == [i \in 1..n |-> row.responses[i].question]
<1>1. /\ row.responses \in Seq(Response)
      /\ n \in Nat
      /\ DOMAIN row.responses = 1..n
      /\ \A i \in 1..n : row.responses[i] \in Response
  BY DEF Row
<1>2. f \in [1..n -> Answered(row)]
  BY <1>1 DEF Answered
<1>3. f \in Bijection(1..n, Answered(row))
  <2>1. f \in Injection(1..n, Answered(row))
    BY <1>1, <1>2 DEF Injection, IsInjective, Distinct
  <2>2. f \in Surjection(1..n, Answered(row))
    BY <1>1, <1>2 DEF Surjection, Answered
  <2> QED BY <2>1, <2>2 DEF Bijection
<1>4. IsFiniteSet(1..n) /\ Cardinality(1..n) = n
  BY <1>1, FS_Interval
<1>5. Cardinality(Answered(row)) = n
  BY <1>3, <1>4, FS_Bijection DEF ExistsBijection
<1>6. Answered(row) \subseteq Questions
  BY <1>1 DEF Answered, Response
<1> QED
  BY <1>5, <1>6, FS_Subset, QuestionAssumption DEF Complete, Total

-----------------------------------------------------------------------------
LEMMA New_RowOK ==
    ASSUME NEW managed \in BOOLEAN
    PROVE  RowOK(NewRow(managed))
<1>1. <<>> \in Seq(Response)
  OBVIOUS
<1>2. NewRow(managed) \in Row
  BY <1>1, OwnerAssumption, TimeAssumption DEF NewRow, Row, Statuses, Terminal, GovStates, Times
<1>3. CheckConstraints(NewRow(managed)) /\ Budget(NewRow(managed))
  BY AttemptAssumption DEF CheckConstraints, Budget, NewRow
<1> QED
  BY <1>2, <1>3 DEF RowOK, Distinct, NewRow, Terminal

LEMMA Claim_RowOK ==
    ASSUME NEW row, RowOK(row), NEW w \in Workers, NEW lag \in Lags, Eligible(row, lag)
    PROVE  RowOK(ClaimRow(row, w, lag))
<1> DEFINE new == ClaimRow(row, w, lag)
<1>1. /\ row \in Row
      /\ lag \in Int /\ LeaseFor - lag \in Int
  BY LagAssumption, LeaseAssumption DEF RowOK, Lags
<1>2. new \in Row
  <2>1. /\ (IF row.status = "running" THEN row.failed + 1 ELSE row.failed) \in Nat
        /\ (IF row.gov = "delayed" THEN "managed" ELSE row.gov) \in GovStates
        /\ row.token + 1 \in Nat
    BY <1>1 DEF Row, GovStates
  <2> QED BY <1>1, <2>1 DEF ClaimRow, Row, Statuses, Times
<1>3. CheckConstraints(new)
  BY <1>1, AttemptAssumption, OwnerAssumption, TimeAssumption
  DEF RowOK, CheckConstraints, ClaimRow, Row, Eligible, Expired
<1>4. Budget(new)
  BY <1>1, AttemptAssumption DEF RowOK, Budget, ClaimRow, Row, Eligible, Expired
<1> QED
  BY <1>1, <1>2, <1>3, <1>4 DEF RowOK, Distinct, ClaimRow, Row, Terminal

LEMMA Renew_RowOK ==
    ASSUME NEW row, RowOK(row), row.status = "running", NEW lag \in Lags
    PROVE  RowOK(RenewRow(row, lag))
<1>1. row \in Row /\ LeaseFor - lag \in Int
  BY LagAssumption, LeaseAssumption DEF RowOK, Lags
<1> QED
  BY <1>1, TimeAssumption
  DEF RowOK, CheckConstraints, Distinct, Budget, Answered, RenewRow, Row, Times, Terminal

LEMMA Persist_RowOK ==
    ASSUME NEW row, RowOK(row), row.status = "running",
           NEW lease, lease.token \in Nat, NEW q \in Questions, q \notin Answered(row)
    PROVE  RowOK(PersistRow(row, lease, q))
<1> DEFINE resp == [question |-> q, token |-> lease.token]
           new  == PersistRow(row, lease, q)
<1>1. row \in Row /\ row.responses \in Seq(Response) /\ resp \in Response
  BY DEF RowOK, Row, Response
<1>2. Append(row.responses, resp) \in Seq(Response)
  BY <1>1
<1>3. new \in Row
  BY <1>1, <1>2 DEF PersistRow, Row
<1>4. new.responses = Append(row.responses, resp)
  BY <1>1 DEF PersistRow, Row
<1>5. Distinct(new)
  <2> SUFFICES ASSUME NEW i \in DOMAIN new.responses, NEW j \in DOMAIN new.responses, i # j
               PROVE  new.responses[i].question # new.responses[j].question
    BY DEF Distinct
  <2>1. \A k \in DOMAIN row.responses :
           /\ new.responses[k] = row.responses[k]
           /\ row.responses[k].question # q
    BY <1>1, <1>4 DEF Answered
  <2>2. \A k \in DOMAIN new.responses :
           \/ k \in DOMAIN row.responses
           \/ new.responses[k].question = q /\ k = Len(row.responses) + 1
    <3>1. /\ DOMAIN row.responses = 1..Len(row.responses)
          /\ DOMAIN new.responses = 1..(Len(row.responses) + 1)
          /\ new.responses[Len(row.responses) + 1] = resp
          /\ Len(row.responses) \in Nat
      BY <1>1, <1>4
    <3>2. \A k \in 1..(Len(row.responses) + 1) :
             k \in 1..Len(row.responses) \/ k = Len(row.responses) + 1
      BY <3>1
    <3> QED BY <3>1, <3>2
  <2> QED
    BY <2>1, <2>2 DEF RowOK, Distinct
<1> QED
  BY <1>1, <1>3, <1>5 DEF RowOK, CheckConstraints, Budget, PersistRow, Row, Terminal

LEMMA Cancelled_RowOK ==
    ASSUME NEW row, RowOK(row), row.status = "running"
    PROVE  RowOK(CancelledRow(row))
<1>1. row \in Row
  BY DEF RowOK
<1>2. CancelledRow(row) \in Row
  BY <1>1 DEF CancelledRow, ClearLease, Aggregate, Row, Statuses, Terminal, Times
<1> QED
  BY <1>1, <1>2
  DEF RowOK, CheckConstraints, Distinct, Budget, CancelledRow, ClearLease, Aggregate, Row, Terminal

LEMMA Completed_RowOK ==
    ASSUME NEW row, RowOK(row), row.status = "running", Complete(row)
    PROVE  RowOK(CompletedRow(row))
<1>1. row \in Row /\ Answered(row) = Questions
  BY CountIsEnough DEF RowOK
<1>2. CompletedRow(row) \in Row
  BY <1>1 DEF CompletedRow, ClearLease, Aggregate, Row, Statuses, Terminal, Times
<1>3. CompletedRow(row).responses = row.responses
  BY <1>1 DEF CompletedRow, ClearLease, Aggregate, Row
<1> QED
  BY <1>1, <1>2, <1>3
  DEF RowOK, CheckConstraints, Distinct, Budget, Answered, CompletedRow, ClearLease, Aggregate,
      Row, Terminal

LEMMA Fail_RowOK ==
    ASSUME NEW row, RowOK(row), row.status = "running", NEW lag \in Lags
    PROVE  RowOK(FailRow(row, lag))
<1> DEFINE base == [ClearLease(Aggregate(row)) EXCEPT !.failed = row.failed + 1]
<1>1. row \in Row /\ lag \in Int
  BY LagAssumption DEF RowOK, Lags
<1>2. CASE row.cancel
  BY <1>2, Cancelled_RowOK DEF FailRow
<1>3. CASE ~row.cancel /\ Complete(row)
  BY <1>3, Completed_RowOK DEF FailRow
<1>4. CASE ~row.cancel /\ ~Complete(row) /\ row.failed + 1 >= MaxAttempts
  <2> DEFINE new == [base EXCEPT !.status = "failed", !.dead = TRUE]
  <2>1. FailRow(row, lag) = new
    BY <1>4 DEF FailRow
  <2>2. new \in Row
    <3>1. row.failed + 1 \in Nat
      BY <1>1 DEF Row
    <3> QED BY <1>1, <3>1 DEF ClearLease, Aggregate, Row, Statuses, Terminal, Times
  <2>3. RowOK(new)
    BY <1>1, <1>4, <2>2, AttemptAssumption
    DEF RowOK, CheckConstraints, Distinct, Budget, ClearLease, Aggregate, Row, Terminal
  <2> QED BY <2>1, <2>3
<1>5. CASE ~row.cancel /\ ~Complete(row) /\ ~(row.failed + 1 >= MaxAttempts)
  <2> DEFINE new == [base EXCEPT !.status = "pending",
                                 !.nextAt = Backoff(row.failed + 1) - lag]
  <2>1. FailRow(row, lag) = new
    BY <1>5 DEF FailRow
  <2>2. Backoff(row.failed + 1) - lag \in Int
    <3>1. row.failed + 1 \in 1..MaxAttempts
      BY <1>1, <1>5, AttemptAssumption DEF Row
    <3>2. Backoff(row.failed + 1) \in Nat
      BY <3>1, BackoffAssumption
    <3> QED BY <1>1, <3>2
  <2> HIDE DEF base
  <2>3. new \in Row
    <3>1. row.failed + 1 \in Nat
      BY <1>1 DEF Row
    <3> QED BY <1>1, <2>2, <3>1 DEF base, ClearLease, Aggregate, Row, Statuses, Times
  <2>4. RowOK(new)
    BY <1>1, <1>5, <2>2, <2>3, AttemptAssumption, TimeAssumption
    DEF RowOK, CheckConstraints, Distinct, Budget, base, ClearLease, Aggregate, Row, Terminal
  <2> QED BY <2>1, <2>4
<1> QED BY <1>2, <1>3, <1>4, <1>5

LEMMA Defer_RowOK ==
    ASSUME NEW row, RowOK(row), row.status = "running", NEW until \in Int
    PROVE  RowOK(DeferRow(row, until))
<1>1. row \in Row
  BY DEF RowOK
<1>2. DeferRow(row, until) \in Row
  BY <1>1 DEF DeferRow, ClearLease, Row, Statuses, GovStates, Times
<1> QED
  BY <1>1, <1>2 DEF RowOK, CheckConstraints, Distinct, Budget, DeferRow, ClearLease, Row, Terminal

LEMMA Yield_RowOK ==
    ASSUME NEW row, RowOK(row), row.status = "running"
    PROVE  RowOK(YieldRow(row))
<1>1. row \in Row
  BY DEF RowOK
<1>2. YieldRow(row) \in Row
  BY <1>1 DEF YieldRow, ClearLease, Row, Statuses, GovStates, Times
<1> QED
  BY <1>1, <1>2 DEF RowOK, CheckConstraints, Distinct, Budget, YieldRow, ClearLease, Row, Terminal

LEMMA Exhaust_RowOK ==
    ASSUME NEW row, RowOK(row), row.status = "running"
    PROVE  RowOK(ExhaustRow(row))
<1>1. row \in Row
  BY DEF RowOK
<1>2. ExhaustRow(row) \in Row
  BY <1>1 DEF ExhaustRow, ClearLease, Aggregate, Row, Statuses, Terminal, GovStates, Times
<1> QED
  BY <1>1, <1>2
  DEF RowOK, CheckConstraints, Distinct, Budget, ExhaustRow, ClearLease, Aggregate, Row, Terminal

LEMMA FailClosed_RowOK ==
    ASSUME NEW row, RowOK(row), row.status = "running"
    PROVE  RowOK(FailClosedRow(row))
<1>1. row \in Row
  BY DEF RowOK
<1>2. CASE row.cancel
  <2>1. RowOK(CancelledRow(row))
    BY Cancelled_RowOK
  <2>2. FailClosedRow(row) \in Row
    BY <1>2, <2>1 DEF FailClosedRow, RowOK, Row, Times
  <2> QED
    BY <1>2, <2>1, <2>2
    DEF FailClosedRow, RowOK, CheckConstraints, Distinct, Budget, Answered, Row, Terminal
<1>3. CASE ~row.cancel
  <2>1. FailClosedRow(row) \in Row
    BY <1>1, <1>3 DEF FailClosedRow, ClearLease, Aggregate, Row, Statuses, Terminal, GovStates, Times
  <2> QED
    BY <1>1, <1>3, <2>1
    DEF FailClosedRow, RowOK, CheckConstraints, Distinct, Budget, ClearLease, Aggregate, Row, Terminal
<1> QED BY <1>2, <1>3

LEMMA CancelPending_RowOK ==
    ASSUME NEW row, RowOK(row), row.status = "pending", CheckConstraints(CancelPendingRow(row))
    PROVE  RowOK(CancelPendingRow(row))
<1>1. row \in Row
  BY DEF RowOK
<1>2. CancelPendingRow(row) \in Row
  BY <1>1 DEF CancelPendingRow, Aggregate, Row, Statuses, Terminal, Times
<1> QED
  BY <1>1, <1>2 DEF RowOK, Distinct, Budget, CheckConstraints, CancelPendingRow, Aggregate, Row, Terminal

LEMMA CancelFlag_RowOK ==
    ASSUME NEW row, RowOK(row)
    PROVE  RowOK([row EXCEPT !.cancel = TRUE])
  BY DEF RowOK, Distinct, Budget, CheckConstraints, Answered, Row, Terminal

LEMMA Tick_RowOK ==
    ASSUME NEW row, RowOK(row)
    PROVE  RowOK(TickRow(row))
<1>1. row \in Row
  BY DEF RowOK
<1>2. \A t \in Times : /\ Sooner(t) \in Times
                       /\ Sooner(t) = NoTime <=> t = NoTime
  BY TimeAssumption, LagAssumption DEF Times, Sooner
<1>3. TickRow(row) \in Row
  BY <1>1, <1>2 DEF TickRow, Row
<1> QED
  BY <1>1, <1>2, <1>3 DEF RowOK, Distinct, Budget, CheckConstraints, Answered, TickRow, Row

-----------------------------------------------------------------------------
\* The transformers of a running row other than claim and persist leave its
\* token and its responses alone.
LEMMA Frame ==
    ASSUME NEW row \in Row, NEW lag \in Lags, NEW until
    PROVE  \A new \in {RenewRow(row, lag), CancelledRow(row), CompletedRow(row),
                       FailRow(row, lag), DeferRow(row, until), YieldRow(row),
                       ExhaustRow(row), FailClosedRow(row),
                       CancelPendingRow(row), [row EXCEPT !.cancel = TRUE]} :
              new.token = row.token /\ new.responses = row.responses
<1> DEFINE Kept(new) == new.token = row.token /\ new.responses = row.responses
<1>1. /\ Kept(RenewRow(row, lag)) /\ Kept(CancelledRow(row)) /\ Kept(CompletedRow(row))
      /\ Kept(CancelPendingRow(row)) /\ Kept([row EXCEPT !.cancel = TRUE])
  BY DEF Row, RenewRow, CancelledRow, CompletedRow, CancelPendingRow, ClearLease, Aggregate
<1>2. Kept(DeferRow(row, until)) /\ Kept(YieldRow(row)) /\ Kept(ExhaustRow(row))
  BY DEF Row, DeferRow, YieldRow, ExhaustRow, ClearLease, Aggregate
<1>3. Kept(FailRow(row, lag))
  <2>1. CASE row.cancel \/ Complete(row)
    BY <1>1, <2>1 DEF FailRow
  <2>2. CASE ~row.cancel /\ ~Complete(row)
    BY <2>2 DEF FailRow, Row, ClearLease, Aggregate
  <2> QED BY <2>1, <2>2
<1>4. Kept(FailClosedRow(row))
  <2>1. CASE row.cancel
    BY <2>1 DEF FailClosedRow, CancelledRow, Row, ClearLease, Aggregate
  <2>2. CASE ~row.cancel
    BY <2>2 DEF FailClosedRow, Row, ClearLease, Aggregate
  <2> QED BY <2>1, <2>2
<1> HIDE DEF Kept
<1>5. \A new \in {RenewRow(row, lag), CancelledRow(row), CompletedRow(row),
                  FailRow(row, lag), DeferRow(row, until), YieldRow(row),
                  ExhaustRow(row), FailClosedRow(row),
                  CancelPendingRow(row), [row EXCEPT !.cancel = TRUE]} : Kept(new)
  BY <1>1, <1>2, <1>3, <1>4
<1> QED BY <1>5 DEF Kept

\* A step that rewrites one row without adding a response, and without
\* withdrawing a lease, keeps the invariant.
LEMMA QuietStep ==
    ASSUME Inv, NEW r \in Runs, NEW row, RowOK(row),
           runs[r].token <= row.token, row.responses = runs[r].responses,
           runs' = [runs EXCEPT ![r] = row],
           leases \subseteq leases', leases' \cup taking' \subseteq Lease(Runs),
           \A l \in leases' \cup taking' : l.token <= runs'[l.run].token,
           asked' \in [Runs -> BOOLEAN]
    PROVE  Inv'
<1>1. runs \in [Runs -> Row] /\ row \in Row
  BY DEF Inv, TypeOK, RowOK
<1>2. /\ runs' \in [Runs -> Row]
      /\ \A s \in Runs : runs'[s].responses = runs[s].responses
      /\ \A s \in Runs : runs'[s] = IF s = r THEN row ELSE runs[s]
  BY <1>1
<1>3. TypeOK'
  BY <1>2 DEF TypeOK
<1>4. EvidenceFenced'
  BY <1>2 DEF Inv, EvidenceFenced
<1>5. \A s \in Runs : RowOK(runs'[s])
  BY <1>2 DEF Inv
<1> QED BY <1>3, <1>4, <1>5 DEF Inv

\* The same for a transaction under a lease.
LEMMA QuietUpdate ==
    ASSUME Inv, NEW l \in leases, NEW row, RowOK(row), Update(l, row),
           row.token = runs[l.run].token, row.responses = runs[l.run].responses
    PROVE  Inv'
<1>1. l \in Lease(Runs) /\ l.run \in Runs /\ runs \in [Runs -> Row]
  BY DEF Inv, TypeOK, Lease
<1>2. \A k \in leases \cup taking : k.token <= runs'[k.run].token
  BY <1>1 DEF Inv, TypeOK, Update, Lease
<1>3. runs[l.run].token <= row.token
  BY <1>1 DEF Row
<1> QED
  BY <1>1, <1>2, <1>3, QuietStep DEF Inv, TypeOK, Update

LEMMA InitInv == Init => Inv
<1> SUFFICES ASSUME Init PROVE Inv
  OBVIOUS
<1>1. \A r \in Runs : RowOK(runs[r])
  <2> TAKE r \in Runs
  <2>1. runs[r] = NewRow(r \in Managed) /\ (r \in Managed) \in BOOLEAN
    BY DEF Init
  <2> QED BY <2>1, New_RowOK
<1>2. runs \in [Runs -> Row]
  BY <1>1 DEF RowOK, Init
<1>3. EvidenceFenced
  BY DEF EvidenceFenced, Init, NewRow
<1> QED BY <1>1, <1>2, <1>3 DEF Inv, TypeOK, Init

LEMMA ClaimInv ==
    ASSUME Inv, NEW w \in Workers, NEW r \in Runs, Claim(w, r)
    PROVE  Inv'
<1> DEFINE l == [run |-> r, owner |-> w, token |-> runs[r].token + 1]
<1>1. PICK lag \in Lags :
        /\ Eligible(runs[r], lag)
        /\ runs' = [runs EXCEPT ![r] = ClaimRow(runs[r], w, lag)]
        /\ leases \subseteq leases'
        /\ leases' \cup taking' \subseteq leases \cup taking \cup {l}
        /\ asked' = asked
  BY DEF Claim
<1> DEFINE row == ClaimRow(runs[r], w, lag)
<1>2. /\ runs \in [Runs -> Row] /\ runs[r] \in Row /\ asked \in [Runs -> BOOLEAN]
      /\ leases \cup taking \subseteq Lease(Runs)
      /\ \A k \in leases \cup taking : k.token <= runs[k.run].token
      /\ RowOK(runs[r])
  BY DEF Inv, TypeOK
<1>3. RowOK(row)
  BY <1>1, <1>2, Claim_RowOK
<1>4. row.token = runs[r].token + 1 /\ row.responses = runs[r].responses
  BY <1>2 DEF ClaimRow, Row
<1>5. l \in Lease(Runs)
  BY <1>2 DEF Lease, Row
<1>6. \A k \in leases \cup taking \cup {l} : k.token <= runs'[k.run].token
  <2> HIDE DEF row
  <2>1. \A s \in Runs : runs[s].token \in Nat
    BY <1>2 DEF Row
  <2>2. runs'[r].token = runs[r].token + 1
    BY <1>1, <1>2, <1>4 DEF row
  <2>3. ASSUME NEW k \in leases \cup taking PROVE k.token <= runs'[k.run].token
    <3>1. k.run \in Runs /\ k.token \in Nat /\ k.token <= runs[k.run].token
      BY <1>2 DEF Lease
    <3>2. k.run # r => runs'[k.run] = runs[k.run]
      BY <1>1, <1>2, <3>1
    <3> QED BY <2>1, <2>2, <3>1, <3>2
  <2> QED BY <2>1, <2>2, <2>3
<1>7. runs[r].token <= row.token
  BY <1>2, <1>4 DEF Row
<1> HIDE DEF row, l
<1> QED
  BY <1>1, <1>2, <1>3, <1>4, <1>5, <1>6, <1>7, QuietStep DEF row

LEMMA PersistInv ==
    ASSUME Inv, NEW l \in leases, NEW q \in Questions, PersistResponse(l, q)
    PROVE  Inv'
<1> DEFINE old == runs[l.run]
           row == PersistRow(old, l, q)
           resp == [question |-> q, token |-> l.token]
<1>1. /\ runs \in [Runs -> Row] /\ l.run \in Runs /\ l.token \in Nat /\ old \in Row
      /\ old.responses \in Seq(Response) /\ resp \in Response
      /\ RowOK(old)
  BY DEF Inv, TypeOK, Lease, Row, Response
<1>2. /\ old.status = "running" /\ old.token = l.token
      /\ q \notin Answered(old)
      /\ runs' = [runs EXCEPT ![l.run] = row]
      /\ UNCHANGED <<leases, taking, asked>>
  BY DEF PersistResponse, Owned, Update
<1>3. RowOK(row)
  BY <1>1, <1>2, Persist_RowOK
<1>4. row.responses = Append(old.responses, resp) /\ row.token = old.token
  BY <1>1 DEF PersistRow, Row
<1> HIDE DEF row
<1>5. \A s \in Runs : runs'[s] = IF s = l.run THEN row ELSE runs[s]
  BY <1>1, <1>2
<1>6. runs' \in [Runs -> Row]
  BY <1>1, <1>2, <1>3 DEF RowOK
<1>7. TypeOK'
  BY <1>2, <1>4, <1>5, <1>6 DEF Inv, TypeOK, Lease
<1>8. EvidenceFenced'
  <2> SUFFICES ASSUME NEW r \in Runs, NEW i \in DOMAIN runs'[r].responses
               PROVE  LET e == runs'[r].responses IN
                      /\ \A j \in DOMAIN e : i <= j => e[i].token <= e[j].token
                      /\ \E k \in leases' : k.run = r /\ k.token = e[i].token
    BY DEF EvidenceFenced
  <2>1. CASE r # l.run
    BY <1>2, <1>5, <2>1 DEF Inv, EvidenceFenced
  <2>2. CASE r = l.run
    <3> DEFINE e == old.responses
               n == Len(e)
               f == runs'[r].responses
    <3>1. f = Append(e, resp)
      BY <1>4, <1>5, <2>2
    <3>2. /\ n \in Nat /\ DOMAIN e = 1..n /\ DOMAIN f = 1..(n + 1)
          /\ f[n + 1] = resp /\ \A k \in 1..n : f[k] = e[k]
          /\ \A k \in 1..n : e[k].token \in Nat
      <4>1. e \in Seq(Response) /\ n \in Nat /\ DOMAIN e = 1..n
        BY <1>1
      <4>2. \A k \in 1..n : e[k] \in Response
        BY <4>1
      <4>3. DOMAIN f = 1..(n + 1) /\ f[n + 1] = resp /\ \A k \in 1..n : f[k] = e[k]
        <5> HIDE DEF f, e, resp
        <5> QED BY <3>1, <4>1, <1>1
      <4> QED BY <4>1, <4>2, <4>3 DEF Response
    <3>3. \A k \in 1..n : e[k].token <= l.token
      <4> TAKE k \in 1..n
      <4>1. PICK m \in leases : m.run = l.run /\ m.token = e[k].token
        BY <3>2, <1>1 DEF Inv, EvidenceFenced
      <4> QED BY <4>1, <1>2 DEF Inv, TypeOK
    <3> HIDE DEF e, f, n
    <3>4. \A k \in 1..(n + 1) : k \in 1..n \/ k = n + 1
      BY <3>2
    <3>5. \A j \in DOMAIN f : i <= j => f[i].token <= f[j].token
      <4> SUFFICES ASSUME NEW j \in DOMAIN f, i <= j PROVE f[i].token <= f[j].token
        OBVIOUS
      <4>1. i \in DOMAIN f
        BY DEF f
      <4>2. CASE i = n + 1
        BY <1>1, <3>2, <4>1, <4>2
      <4>3. CASE i \in 1..n /\ j = n + 1
        BY <3>2, <3>3, <4>3
      <4>4. CASE i \in 1..n /\ j \in 1..n
        <5>1. e[i].token <= e[j].token
          BY <1>1, <3>2, <4>4 DEF Inv, EvidenceFenced, e
        <5> QED BY <3>2, <4>4, <5>1
      <4> QED BY <3>2, <3>4, <4>1, <4>2, <4>3, <4>4
    <3>6. \E k \in leases' : k.run = r /\ k.token = f[i].token
      <4>1. i \in DOMAIN f
        BY DEF f
      <4>2. CASE i = n + 1
        BY <1>2, <2>2, <3>2, <4>2
      <4>3. CASE i \in 1..n
        BY <1>1, <1>2, <2>2, <3>2, <4>3 DEF Inv, EvidenceFenced, e
      <4> QED BY <3>2, <3>4, <4>1, <4>2, <4>3
    <3> QED BY <3>5, <3>6 DEF f
  <2> QED BY <2>1, <2>2
<1>9. \A s \in Runs : RowOK(runs'[s])
  BY <1>3, <1>5 DEF Inv
<1> QED BY <1>7, <1>8, <1>9 DEF Inv

\* One step per operation a lease holder may call.
LEMMA HolderInv ==
    ASSUME Inv, NEW l \in leases,
           \/ Heartbeat(l) \/ FinishCancelled(l) \/ FailAttempt(l)
           \/ \E until \in Deferrals : DeferGovernance(l, until)
           \/ CooperativeYield(l) \/ ExhaustGovernance(l) \/ Finish(l)
    PROVE  Inv'
<1> DEFINE row == runs[l.run]
<1>1. row \in Row /\ RowOK(row)
  BY DEF Inv, TypeOK, Lease
<1>2. CASE Heartbeat(l)
  <2>1. PICK lag \in Lags : row.status = "running" /\ Update(l, RenewRow(row, lag))
    BY <1>2 DEF Heartbeat, Owned
  <2> QED BY <1>1, <2>1, Renew_RowOK, Frame, QuietUpdate
<1>3. CASE FinishCancelled(l)
  <2>1. row.status = "running" /\ Update(l, CancelledRow(row))
    BY <1>3 DEF FinishCancelled, Owned
  <2>2. 0 \in Lags
    BY LagAssumption DEF Lags
  <2> QED BY <1>1, <2>1, <2>2, Cancelled_RowOK, Frame, QuietUpdate
<1>4. CASE FailAttempt(l)
  <2>1. PICK lag \in Lags : row.status = "running" /\ Update(l, FailRow(row, lag))
    BY <1>4 DEF FailAttempt, Owned
  <2> QED BY <1>1, <2>1, Fail_RowOK, Frame, QuietUpdate
<1>5. CASE \E until \in Deferrals : DeferGovernance(l, until)
  <2>1. PICK until \in Deferrals, lag \in Lags :
           row.status = "running" /\ Update(l, DeferRow(row, until))
    BY <1>5 DEF DeferGovernance, Owned
  <2>2. until \in Int
    BY DeferralAssumption
  <2> QED BY <1>1, <2>1, <2>2, Defer_RowOK, Frame, QuietUpdate
<1>6. CASE CooperativeYield(l)
  <2>1. PICK lag \in Lags : row.status = "running" /\ Update(l, YieldRow(row))
    BY <1>6 DEF CooperativeYield, Owned
  <2> QED BY <1>1, <2>1, Yield_RowOK, Frame, QuietUpdate
<1>7. CASE ExhaustGovernance(l)
  <2>1. PICK lag \in Lags : row.status = "running" /\ Update(l, ExhaustRow(row))
    BY <1>7 DEF ExhaustGovernance, Owned
  <2> QED BY <1>1, <2>1, Exhaust_RowOK, Frame, QuietUpdate
<1>8. CASE Finish(l)
  <2>1. PICK lag \in Lags :
           /\ row.status = "running"
           /\ row.cancel \/ Complete(row)
           /\ Update(l, IF row.cancel THEN CancelledRow(row) ELSE CompletedRow(row))
    BY <1>8 DEF Finish, Owned
  <2>2. CASE row.cancel
    BY <1>1, <2>1, <2>2, Cancelled_RowOK, Frame, QuietUpdate
  <2>3. CASE ~row.cancel
    BY <1>1, <2>1, <2>3, Completed_RowOK, Frame, QuietUpdate
  <2> QED BY <2>2, <2>3
<1> QED BY <1>2, <1>3, <1>4, <1>5, <1>6, <1>7, <1>8

LEMMA TakeoverInv ==
    ASSUME Inv, NEW l \in taking, TakeoverReconciled(l) \/ TakeoverFailClosed(l)
    PROVE  Inv'
<1> DEFINE row == runs[l.run]
<1>1. /\ row \in Row /\ RowOK(row) /\ l.run \in Runs /\ runs \in [Runs -> Row]
      /\ leases \cup taking \subseteq Lease(Runs) /\ asked \in [Runs -> BOOLEAN]
      /\ \A k \in leases \cup taking : k.token <= runs[k.run].token
  BY DEF Inv, TypeOK, Lease
<1>2. CASE runs' = runs
  <2>1. /\ leases \subseteq leases' /\ leases' \cup taking' \subseteq leases \cup taking
        /\ asked' = asked
    BY DEF TakeoverReconciled, TakeoverFailClosed
  <2>2. TypeOK'
    BY <1>1, <1>2, <2>1 DEF TypeOK
  <2>3. EvidenceFenced'
    BY <1>2, <2>1 DEF Inv, EvidenceFenced
  <2> QED BY <1>2, <2>2, <2>3 DEF Inv
<1>3. CASE runs' # runs
  <2>1. /\ row.status = "running"
        /\ runs' = [runs EXCEPT ![l.run] = FailClosedRow(row)]
        /\ leases' = leases /\ asked' = asked /\ taking' \subseteq taking
    BY <1>3 DEF TakeoverReconciled, TakeoverFailClosed
  <2>2. 0 \in Lags
    BY LagAssumption DEF Lags
  <2>3. /\ RowOK(FailClosedRow(row)) /\ FailClosedRow(row).responses = row.responses
        /\ FailClosedRow(row).token = row.token
    BY <1>1, <2>1, <2>2, FailClosed_RowOK, Frame
  <2>4. row.token <= FailClosedRow(row).token
    BY <1>1, <2>3 DEF Row
  <2>5. \A k \in leases' \cup taking' : k.token <= runs'[k.run].token
    BY <1>1, <2>1, <2>3 DEF Lease
  <2> QED
    BY <1>1, <2>1, <2>3, <2>4, <2>5, QuietStep
<1> QED BY <1>2, <1>3

LEMMA RequestCancelInv ==
    ASSUME Inv, NEW r \in Runs, RequestCancel(r)
    PROVE  Inv'
<1> DEFINE old == runs[r]
           row == IF old.status = "pending" THEN CancelPendingRow(old)
                                            ELSE [old EXCEPT !.cancel = TRUE]
           new == IF CheckConstraints(row) THEN row ELSE old
<1>1. /\ old \in Row /\ RowOK(old) /\ runs \in [Runs -> Row]
      /\ leases \cup taking \subseteq Lease(Runs)
      /\ \A k \in leases \cup taking : k.token <= runs[k.run].token
  BY DEF Inv, TypeOK
<1>2. /\ runs' = [runs EXCEPT ![r] = new]
      /\ asked' \in [Runs -> BOOLEAN] /\ UNCHANGED <<leases, taking>>
  <2>1. runs' = IF CheckConstraints(row) THEN [runs EXCEPT ![r] = row] ELSE runs
    BY DEF RequestCancel
  <2>2. runs = [runs EXCEPT ![r] = runs[r]]
    BY <1>1
  <2>3. asked' \in [Runs -> BOOLEAN] /\ UNCHANGED <<leases, taking>>
    BY DEF RequestCancel, Inv, TypeOK
  <2> HIDE DEF row
  <2> QED BY <2>1, <2>2, <2>3
<1>3. 0 \in Lags
  BY LagAssumption DEF Lags
<1>4. new.token = old.token /\ new.responses = old.responses
  BY <1>1, <1>3, Frame
<1>5. RowOK(new)
  BY <1>1, CancelPending_RowOK, CancelFlag_RowOK
<1> HIDE DEF new
<1>6. old.token <= new.token
  BY <1>1, <1>4 DEF Row
<1>7. \A k \in leases' \cup taking' : k.token <= runs'[k.run].token
  BY <1>1, <1>2, <1>4 DEF Lease
<1> QED BY <1>1, <1>2, <1>4, <1>5, <1>6, <1>7, QuietStep

\* The two steps that rewrite many rows at once.
LEMMA EveryRowInv ==
    ASSUME Inv, Tick \/ \E batch \in SUBSET Runs : ReapExpired(batch)
    PROVE  Inv'
<1>1. /\ runs \in [Runs -> Row] /\ \A r \in Runs : RowOK(runs[r])
      /\ UNCHANGED <<leases, taking, asked>>
  BY DEF Inv, TypeOK, Tick, ReapExpired
<1>2. /\ runs' = [r \in Runs |-> runs'[r]]
      /\ \A r \in Runs : /\ RowOK(runs'[r])
                         /\ runs'[r].token = runs[r].token
                         /\ runs'[r].responses = runs[r].responses
  <2>1. CASE Tick
    <3>1. runs' = [r \in Runs |-> TickRow(runs[r])]
      BY <2>1 DEF Tick
    <3>2. \A r \in Runs : /\ TickRow(runs[r]).token = runs[r].token
                          /\ TickRow(runs[r]).responses = runs[r].responses
      BY <1>1 DEF TickRow, Row
    <3> QED BY <1>1, <3>1, <3>2, Tick_RowOK
  <2>2. CASE \E batch \in SUBSET Runs : ReapExpired(batch)
    <3>1. PICK batch \in SUBSET Runs, lag \in Lags :
            /\ \A r \in batch : runs[r].status = "running"
            /\ runs' = [r \in Runs |-> IF r \in batch THEN FailRow(runs[r], lag) ELSE runs[r]]
      BY <2>2 DEF ReapExpired, Expired
    <3>2. ASSUME NEW r \in Runs
          PROVE  /\ RowOK(runs'[r]) /\ runs'[r].token = runs[r].token
                 /\ runs'[r].responses = runs[r].responses
      <4>1. CASE r \in batch
        <5>1. runs'[r] = FailRow(runs[r], lag) /\ runs[r].status = "running"
          BY <3>1, <4>1
        <5> QED BY <1>1, <5>1, Fail_RowOK, Frame
      <4>2. CASE r \notin batch
        BY <1>1, <3>1, <4>2
      <4> QED BY <4>1, <4>2
    <3> QED BY <3>1, <3>2
  <2> QED BY <2>1, <2>2
<1>3. TypeOK'
  BY <1>1, <1>2 DEF Inv, TypeOK, RowOK, Lease
<1>4. EvidenceFenced'
  BY <1>1, <1>2 DEF Inv, EvidenceFenced
<1> QED BY <1>2, <1>3, <1>4 DEF Inv

LEMMA NextInv == Inv /\ [Next]_vars => Inv'
<1> SUFFICES ASSUME Inv, [Next]_vars PROVE Inv'
  OBVIOUS
<1>1. CASE \E w \in Workers, r \in Runs : Claim(w, r)
  BY <1>1, ClaimInv
<1>2. CASE \E l \in taking : TakeoverReconciled(l) \/ TakeoverFailClosed(l)
  BY <1>2, TakeoverInv
<1>3. CASE \E l \in leases, q \in Questions : PersistResponse(l, q)
  BY <1>3, PersistInv
<1>4. CASE \E l \in leases :
              \/ Heartbeat(l) \/ FinishCancelled(l) \/ FailAttempt(l)
              \/ \E until \in Deferrals : DeferGovernance(l, until)
              \/ CooperativeYield(l) \/ ExhaustGovernance(l) \/ Finish(l)
  BY <1>4, HolderInv
<1>5. CASE \E r \in Runs : RequestCancel(r)
  BY <1>5, RequestCancelInv
<1>6. CASE Tick \/ \E batch \in SUBSET Runs : ReapExpired(batch)
  BY <1>6, EveryRowInv
<1>7. CASE UNCHANGED vars
  <2>1. TypeOK' /\ EvidenceFenced'
    BY <1>7 DEF vars, Inv, TypeOK, EvidenceFenced
  <2> QED BY <1>7, <2>1 DEF vars, Inv
<1> QED
  BY <1>1, <1>2, <1>3, <1>4, <1>5, <1>6, <1>7 DEF Next

\* The inductive invariant: types, fencing and RowOK of every row hold in every
\* reachable state of the lease repository.
THEOREM Invariance == Spec => []Inv
  BY InitInv, NextInv, PTL DEF Spec

-----------------------------------------------------------------------------
\* Types, and no lease in hand is newer than its row: lease_token only grows
\* and claim hands out the value it wrote.
THEOREM Typing == Spec => []TypeOK
<1>1. Inv => TypeOK
  BY DEF Inv
<1> QED BY <1>1, Invariance, PTL

\* No claim, heartbeat, failure, deferral, yield, finish or reaping, at any lag
\* and after any sequence of them and of cancellations, writes a row that the
\* CHECK constraints of evaluation_runs refuse.  Of cancellations this says
\* nothing: a refused one leaves no row behind.
THEOREM Constraints == Spec => []ConstraintsHold
<1>1. Inv => ConstraintsHold
  BY DEF Inv, RowOK, ConstraintsHold
<1> QED BY <1>1, Invariance, PTL

\* persist_response is fenced: tokens never go back along the responses of a
\* Run, whatever displaced workers still attempt.
THEOREM Fencing == Spec => []EvidenceFenced
<1>1. Inv => EvidenceFenced
  BY DEF Inv
<1> QED BY <1>1, Invariance, PTL

\* A question has at most one Response per Run, whoever answers it.
THEOREM Answers == Spec => []AnsweredOnce
<1>1. Inv => AnsweredOnce
  BY DEF Inv, RowOK, Distinct, AnsweredOnce
<1> QED BY <1>1, Invariance, PTL

\* A completed Run has a Response for every question, although every path to
\* `completed' only compares a count (CountIsEnough).
THEOREM Completion == Spec => []CompletedAnswersAll
<1>1. Inv => CompletedAnswersAll
  BY DEF Inv, RowOK, CompletedAnswersAll
<1> QED BY <1>1, Invariance, PTL

\* Published aggregates are computed from exactly the stored Responses.
THEOREM Reports == Spec => []ReportMatchesEvidence
<1>1. Inv => ReportMatchesEvidence
  BY DEF Inv, RowOK, ReportMatchesEvidence
<1> QED BY <1>1, Invariance, PTL

\* fail_attempt, takeover and reaper between them charge a lease at most once,
\* and a live Run always has an attempt left.
THEOREM RetryBudget == Spec => []AttemptsChargedOnce
<1>1. Inv => AttemptsChargedOnce
  BY DEF Inv, RowOK, Budget, AttemptsChargedOnce
<1> QED BY <1>1, Invariance, PTL

\* A terminal row is never written again.
THEOREM Finality == Spec => TerminalIsFinal
<1> DEFINE Frozen == \A r \in Runs : runs[r].status \in Terminal => runs'[r] = runs[r]
<1>1. Inv /\ [Next]_vars => [Frozen]_vars
  <2> SUFFICES ASSUME Inv, Next, NEW r \in Runs, runs[r].status \in Terminal
               PROVE  runs'[r] = runs[r]
    BY DEF vars
  <2>1. /\ runs \in [Runs -> Row] /\ runs[r] \in Row /\ CheckConstraints(runs[r])
        /\ runs[r].status # "running" /\ runs[r].status # "pending"
    BY DEF Inv, TypeOK, RowOK, Terminal
  <2>2. CASE \E w \in Workers, s \in Runs : Claim(w, s)
    BY <2>1, <2>2 DEF Claim, Eligible, Expired
  <2>3. CASE \E l \in taking : TakeoverReconciled(l) \/ TakeoverFailClosed(l)
    BY <2>1, <2>3 DEF TakeoverReconciled, TakeoverFailClosed
  <2>4. CASE \E l \in leases :
                \/ Heartbeat(l) \/ \E q \in Questions : PersistResponse(l, q)
                \/ FinishCancelled(l) \/ FailAttempt(l)
                \/ \E until \in Deferrals : DeferGovernance(l, until)
                \/ CooperativeYield(l) \/ ExhaustGovernance(l) \/ Finish(l)
    <3>1. PICK l \in leases :
             runs[l.run].status = "running" /\ \E row : Update(l, row)
      BY <2>4 DEF Heartbeat, PersistResponse, FinishCancelled, FailAttempt, DeferGovernance,
                  CooperativeYield, ExhaustGovernance, Finish, Owned
    <3> QED BY <2>1, <3>1 DEF Update
  <2>5. CASE \E s \in Runs : RequestCancel(s)
    BY <2>1, <2>5 DEF RequestCancel
  <2>6. CASE \E batch \in SUBSET Runs : ReapExpired(batch)
    BY <2>1, <2>6 DEF ReapExpired, Expired
  <2>7. CASE Tick
    <3>1. /\ runs[r].expires = NoTime /\ runs[r].nextAt = NoTime /\ runs[r].govUntil = NoTime
      BY <2>1 DEF CheckConstraints
    <3>2. Sooner(NoTime) = NoTime
      BY DEF Sooner
    <3>3. TickRow(runs[r]) = runs[r]
      BY <2>1, <3>1, <3>2 DEF TickRow, Row
    <3> QED BY <2>7, <3>3 DEF Tick
  <2> QED BY <2>2, <2>3, <2>4, <2>5, <2>6, <2>7 DEF Next
<1> QED BY <1>1, Invariance, PTL DEF Spec, TerminalIsFinal

\* An unexpired lease keeps its Run: no claim and no reaper displaces it, and
\* only its own holder can charge a failure, however stale the clock readings.
THEOREM NotStolen == Spec => LeaseNotStolen
<1> DEFINE Kept ==
      \A r \in Runs :
          /\ runs[r].status = "running"
          /\ runs[r].expires > 0
          => /\ runs'[r].token = runs[r].token
             /\ runs'[r].failed > runs[r].failed
                  => \E l \in leases : l.run = r /\ l.token = runs[r].token
<1>1. Inv /\ [Next]_vars => [Kept]_vars
  <2> SUFFICES ASSUME Inv, Next, NEW r \in Runs, runs[r].status = "running", runs[r].expires > 0
               PROVE  /\ runs'[r].token = runs[r].token
                      /\ runs'[r].failed > runs[r].failed
                           => \E l \in leases : l.run = r /\ l.token = runs[r].token
    BY DEF vars
  <2> DEFINE row == runs[r]
  <2>1. /\ runs \in [Runs -> Row] /\ row \in Row
        /\ \A lag \in Lags : ~Passed(row.expires, lag)
    <3>1. /\ runs \in [Runs -> Row] /\ row \in Row /\ row.expires # NoTime
      BY DEF Inv, TypeOK, RowOK, CheckConstraints
    <3> QED BY <3>1, LagAssumption DEF Passed, Lags, Row, Times
  <2>0. ~(runs[r].failed > runs[r].failed)
    BY <2>1 DEF Row
  <2>2. CASE \E w \in Workers, s \in Runs : Claim(w, s)
    <3>1. runs'[r] = runs[r]
      BY <2>1, <2>2 DEF Claim, Eligible, Expired
    <3> QED BY <3>1, <2>0
  <2>3. CASE \E l \in taking : TakeoverReconciled(l) \/ TakeoverFailClosed(l)
    <3>1. FailClosedRow(row).token = row.token /\ FailClosedRow(row).failed = row.failed
      BY <2>1 DEF FailClosedRow, CancelledRow, ClearLease, Aggregate, Row
    <3> QED BY <2>1, <2>0, <2>3, <3>1 DEF TakeoverReconciled, TakeoverFailClosed
  <2>4. CASE \E l \in leases :
                \/ Heartbeat(l) \/ \E q \in Questions : PersistResponse(l, q)
                \/ FinishCancelled(l) \/ FailAttempt(l)
                \/ \E until \in Deferrals : DeferGovernance(l, until)
                \/ CooperativeYield(l) \/ ExhaustGovernance(l) \/ Finish(l)
    <3>1. PICK l \in leases :
             /\ runs[l.run].token = l.token
             /\ \E new : Update(l, new) /\ new.token = runs[l.run].token
      <4>1. PICK l \in leases :
                \/ Heartbeat(l) \/ \E q \in Questions : PersistResponse(l, q)
                \/ FinishCancelled(l) \/ FailAttempt(l)
                \/ \E until \in Deferrals : DeferGovernance(l, until)
                \/ CooperativeYield(l) \/ ExhaustGovernance(l) \/ Finish(l)
        BY <2>4
      <4>2. runs[l.run] \in Row
        BY DEF Inv, TypeOK, Lease
      <4>3. runs[l.run].token = l.token
        BY <4>1 DEF Heartbeat, PersistResponse, FinishCancelled, FailAttempt, DeferGovernance,
                    CooperativeYield, ExhaustGovernance, Finish, Owned
      <4>4. \A q : PersistRow(runs[l.run], l, q).token = runs[l.run].token
        BY <4>2 DEF PersistRow, Row
      <4>5. CASE \E q \in Questions : PersistResponse(l, q)
        BY <4>3, <4>4, <4>5 DEF PersistResponse
      <4>6. CASE Heartbeat(l)
        <5>1. PICK lag \in Lags : Update(l, RenewRow(runs[l.run], lag))
          BY <4>6 DEF Heartbeat
        <5>2. RenewRow(runs[l.run], lag).token = runs[l.run].token
          BY <4>2, Frame
        <5> QED BY <4>3, <5>1, <5>2
      <4>7. CASE FinishCancelled(l)
        BY <4>2, <4>3, <4>7, Frame DEF FinishCancelled
      <4>8. CASE FailAttempt(l)
        <5>1. PICK lag \in Lags : Update(l, FailRow(runs[l.run], lag))
          BY <4>8 DEF FailAttempt
        <5>2. FailRow(runs[l.run], lag).token = runs[l.run].token
          BY <4>2, Frame
        <5> QED BY <4>3, <5>1, <5>2
      <4>9. CASE \E until \in Deferrals : DeferGovernance(l, until)
        BY <4>2, <4>3, <4>9, Frame DEF DeferGovernance
      <4>10. CASE CooperativeYield(l)
        BY <4>2, <4>3, <4>10, Frame DEF CooperativeYield
      <4>11. CASE ExhaustGovernance(l)
        BY <4>2, <4>3, <4>11, Frame DEF ExhaustGovernance
      <4>12. CASE Finish(l)
        BY <4>2, <4>3, <4>12, Frame DEF Finish
      <4> QED BY <4>1, <4>5, <4>6, <4>7, <4>8, <4>9, <4>10, <4>11, <4>12
    <3>2. PICK new : Update(l, new) /\ new.token = runs[l.run].token
      BY <3>1
    <3>3. CASE l.run = r
      BY <2>1, <3>1, <3>2, <3>3 DEF Update
    <3>4. CASE l.run # r
      BY <2>0, <2>1, <3>2, <3>4 DEF Update
    <3> QED BY <3>3, <3>4
  <2>5. CASE \E s \in Runs : RequestCancel(s)
    <3>1. /\ [row EXCEPT !.cancel = TRUE].token = row.token
          /\ [row EXCEPT !.cancel = TRUE].failed = row.failed
      BY <2>1 DEF Row
    <3> QED BY <2>0, <2>1, <2>5, <3>1 DEF RequestCancel
  <2>6. CASE \E batch \in SUBSET Runs : ReapExpired(batch)
    <3>1. runs'[r] = runs[r]
      BY <2>1, <2>6 DEF ReapExpired, Expired
    <3> QED BY <3>1, <2>0
  <2>7. CASE Tick
    BY <2>0, <2>1, <2>7 DEF Tick, TickRow, Row
  <2> QED BY <2>2, <2>3, <2>4, <2>5, <2>6, <2>7 DEF Next
<1> QED BY <1>1, Invariance, PTL DEF Spec, LeaseNotStolen

\* A lease that has been expired for MaxLag or longer, so that every clock
\* reading finds it expired, stays expired for its token: no heartbeat,
\* cancellation request or tick brings it back.
THEOREM NotRevived == Spec => ExpiredNotRevived
<1> DEFINE StaysExpired ==
      \A r \in Runs :
          /\ runs[r].status = "running"
          /\ runs[r].expires <= -MaxLag
          /\ runs'[r].status = "running"
          /\ runs'[r].token = runs[r].token
          => runs'[r].expires <= -MaxLag
<1>1. Inv /\ [Next]_vars => [StaysExpired]_vars
  <2> SUFFICES ASSUME Inv, Next, NEW r \in Runs,
                      runs[r].status = "running", runs[r].expires <= -MaxLag,
                      runs'[r].status = "running", runs'[r].token = runs[r].token
               PROVE  runs'[r].expires <= -MaxLag
    BY DEF vars
  <2> DEFINE row == runs[r]
  <2>1. /\ runs \in [Runs -> Row] /\ row \in Row /\ row.expires \in Int
        /\ leases \subseteq Lease(Runs) /\ taking \subseteq Lease(Runs)
        /\ \A lag \in Lags : \A l : ~Owned(row, l, lag)
    <3>1. /\ runs \in [Runs -> Row] /\ row \in Row /\ row.expires # NoTime
          /\ leases \subseteq Lease(Runs) /\ taking \subseteq Lease(Runs)
      BY DEF Inv, TypeOK, RowOK, CheckConstraints
    <3>2. row.expires \in Int
      BY <3>1 DEF Row, Times
    <3>3. \A lag \in Lags : ~(row.expires + lag > 0)
      BY <3>2, LagAssumption DEF Lags
    <3> QED BY <3>1, <3>2, <3>3 DEF Owned
  <2>2. CASE \E w \in Workers, s \in Runs : Claim(w, s)
    <3>1. \A w, lag : ClaimRow(row, w, lag).token = row.token + 1
      BY <2>1 DEF ClaimRow, Row
    <3>2. row.token \in Nat /\ row.token + 1 # row.token
      BY <2>1 DEF Row
    <3> QED BY <2>1, <2>2, <3>1, <3>2 DEF Claim
  <2>3. CASE \E l \in taking : TakeoverReconciled(l) \/ TakeoverFailClosed(l)
    <3>1. FailClosedRow(row).status # "running"
      BY <2>1 DEF FailClosedRow, CancelledRow, ClearLease, Aggregate, Row
    <3> QED BY <2>1, <2>3, <3>1 DEF TakeoverReconciled, TakeoverFailClosed
  <2>4. CASE \E l \in leases :
                \/ Heartbeat(l) \/ \E q \in Questions : PersistResponse(l, q)
                \/ FinishCancelled(l) \/ FailAttempt(l)
                \/ \E until \in Deferrals : DeferGovernance(l, until)
                \/ CooperativeYield(l) \/ ExhaustGovernance(l) \/ Finish(l)
    <3>1. PICK l \in leases :
             \E lag \in Lags : Owned(runs[l.run], l, lag) /\ \E new : Update(l, new)
      BY <2>4 DEF Heartbeat, PersistResponse, FinishCancelled, FailAttempt, DeferGovernance,
                  CooperativeYield, ExhaustGovernance, Finish
    <3>2. l.run # r
      BY <2>1, <3>1
    <3> QED BY <2>1, <3>1, <3>2 DEF Update
  <2>5. CASE \E s \in Runs : RequestCancel(s)
    <3>1. [row EXCEPT !.cancel = TRUE].expires = row.expires
      BY <2>1 DEF Row
    <3> QED BY <2>1, <2>5, <3>1 DEF RequestCancel
  <2>6. CASE \E batch \in SUBSET Runs : ReapExpired(batch)
    <3>1. \A lag \in Lags : FailRow(row, lag).status # "running"
      BY <2>1 DEF FailRow, CancelledRow, CompletedRow, ClearLease, Aggregate, Row
    <3> QED BY <2>1, <2>6, <3>1 DEF ReapExpired
  <2>7. CASE Tick
    <3>1. Sooner(row.expires) = row.expires
      BY <2>1, LagAssumption DEF Sooner
    <3> QED BY <2>1, <2>7, <3>1 DEF Tick, TickRow, Row
  <2> QED BY <2>2, <2>3, <2>4, <2>5, <2>6, <2>7 DEF Next
<1> QED BY <1>1, Invariance, PTL DEF Spec, ExpiredNotRevived

-----------------------------------------------------------------------------
(***************************************************************************)
(* RunLeases implements RunLifecycle, for every value of the constants.    *)
(*                                                                         *)
(* Moved(old, new) is what one row may do in a step that adds no Response; *)
(* each transformer of RunRow satisfies it, and read through the mapping   *)
(* of RunLeases it is a lifecycle step of that Run.  One more invariant is *)
(* needed: a row carries cancellation_requested only if cancel was called. *)
(***************************************************************************)
CancelWasAsked == \A r \in Runs : runs[r].cancel => asked[r]

Moved(old, new) ==
    /\ new.responses = old.responses
    /\ \/ new.status = old.status /\ (old.status \in Terminal => new = old)
       \/ old.status = "pending" /\ new.status = "running"
       \/ old.status = "running" /\ new.status \in {"pending", "completed", "failed"}
       \/ old.status \in {"pending", "running"} /\ new.status = "cancelled" /\ new.cancel

\* The step of a holder, the reaper or a takeover on a running row.
LEMMA RunningMoves ==
    ASSUME NEW row \in Row, row.status = "running", NEW lag \in Lags, NEW until
    PROVE  /\ \A new \in {RenewRow(row, lag), FailRow(row, lag), DeferRow(row, until),
                          YieldRow(row), ExhaustRow(row), FailClosedRow(row)} :
                 Moved(row, new) /\ new.cancel = row.cancel
           /\ row.cancel => Moved(row, CancelledRow(row)) /\ CancelledRow(row).cancel = row.cancel
           /\ Moved(row, CompletedRow(row)) /\ CompletedRow(row).cancel = row.cancel
<1> DEFINE OK(new) == Moved(row, new) /\ new.cancel = row.cancel
<1>1. OK(RenewRow(row, lag)) /\ OK(CompletedRow(row))
  BY DEF Row, Moved, RenewRow, CompletedRow, ClearLease, Aggregate, Terminal
<1>2. row.cancel => OK(CancelledRow(row))
  BY DEF Row, Moved, CancelledRow, ClearLease, Aggregate, Terminal
<1>3. OK(DeferRow(row, until)) /\ OK(YieldRow(row)) /\ OK(ExhaustRow(row))
  BY DEF Row, Moved, DeferRow, YieldRow, ExhaustRow, ClearLease, Aggregate, Terminal
<1>4. OK(FailRow(row, lag))
  <2>1. CASE row.cancel \/ Complete(row)
    BY <1>1, <1>2, <2>1 DEF FailRow
  <2>2. CASE ~row.cancel /\ ~Complete(row)
    BY <2>2 DEF FailRow, Row, Moved, ClearLease, Aggregate, Terminal
  <2> QED BY <2>1, <2>2
<1>5. OK(FailClosedRow(row))
  <2>1. CASE row.cancel
    BY <2>1 DEF FailClosedRow, CancelledRow, Row, Moved, ClearLease, Aggregate, Terminal
  <2>2. CASE ~row.cancel
    BY <2>2 DEF FailClosedRow, Row, Moved, ClearLease, Aggregate, Terminal
  <2> QED BY <2>1, <2>2
<1> HIDE DEF OK
<1>6. \A new \in {RenewRow(row, lag), FailRow(row, lag), DeferRow(row, until),
                  YieldRow(row), ExhaustRow(row), FailClosedRow(row)} : OK(new)
  BY <1>1, <1>3, <1>4, <1>5
<1> QED BY <1>1, <1>2, <1>6 DEF OK

\* What a step of the repository is, row by row.
Quiet ==
    /\ \A r \in Runs : Moved(runs[r], runs'[r]) /\ runs'[r].cancel = runs[r].cancel
    /\ asked' = asked

Asking(r) ==
    /\ runs[r].status \notin Terminal
    /\ \A s \in Runs : Moved(runs[s], runs'[s]) /\ (s # r => runs'[s].cancel = runs[s].cancel)
    /\ asked' = [asked EXCEPT ![r] = TRUE]

Answering(r, q) ==
    /\ runs[r].status = "running" /\ q \notin Answered(runs[r])
    /\ \E l \in leases : runs' = [runs EXCEPT ![r] = PersistRow(runs[r], l, q)]
    /\ asked' = asked

LEMMA StayMoves ==
    ASSUME NEW row PROVE Moved(row, row)
  BY DEF Moved

\* A step that rewrites one row by a move is quiet.
LEMMA OneMove ==
    ASSUME Inv, NEW r \in Runs, NEW row, Moved(runs[r], row), row.cancel = runs[r].cancel,
           runs' = [runs EXCEPT ![r] = row], asked' = asked
    PROVE  Quiet
  BY StayMoves DEF Quiet, Inv, TypeOK

LEMMA StepForms ==
    ASSUME Inv, Next
    PROVE  \/ Quiet
           \/ \E r \in Runs : Asking(r)
           \/ \E r \in Runs, q \in Questions : Answering(r, q)
<1>1. runs \in [Runs -> Row] /\ \A r \in Runs : RowOK(runs[r])
  BY DEF Inv, TypeOK
<1>0. 0 \in Lags
  BY LagAssumption DEF Lags
<1>2. CASE \E w \in Workers, r \in Runs : Claim(w, r)
  <2>1. PICK w \in Workers, r \in Runs, lag \in Lags :
          /\ Eligible(runs[r], lag)
          /\ runs' = [runs EXCEPT ![r] = ClaimRow(runs[r], w, lag)]
          /\ asked' = asked
    BY <1>2 DEF Claim
  <2>2. /\ Moved(runs[r], ClaimRow(runs[r], w, lag))
        /\ ClaimRow(runs[r], w, lag).cancel = runs[r].cancel
    BY <1>1, <2>1 DEF Eligible, Expired, ClaimRow, Moved, Row, Terminal
  <2> QED BY <2>1, <2>2, OneMove
<1>3. CASE \E l \in taking : TakeoverReconciled(l) \/ TakeoverFailClosed(l)
  <2>1. PICK l \in taking : TakeoverReconciled(l) \/ TakeoverFailClosed(l)
    BY <1>3
  <2>2. l.run \in Runs
    BY DEF Inv, TypeOK, Lease
  <2>3. CASE runs' = runs
    BY <2>1, <2>3, StayMoves DEF Quiet, TakeoverReconciled, TakeoverFailClosed
  <2>4. CASE runs' # runs
    <3>1. /\ runs[l.run].status = "running" /\ asked' = asked
          /\ runs' = [runs EXCEPT ![l.run] = FailClosedRow(runs[l.run])]
      BY <2>1, <2>4 DEF TakeoverReconciled, TakeoverFailClosed
    <3>2. /\ Moved(runs[l.run], FailClosedRow(runs[l.run]))
          /\ FailClosedRow(runs[l.run]).cancel = runs[l.run].cancel
      BY <1>0, <1>1, <2>2, <3>1, RunningMoves
    <3> QED BY <2>2, <3>1, <3>2, OneMove
  <2> QED BY <2>3, <2>4
<1>4. CASE \E l \in leases, q \in Questions : PersistResponse(l, q)
  <2>1. PICK l \in leases, q \in Questions : PersistResponse(l, q)
    BY <1>4
  <2>2. l.run \in Runs /\ l.token \in Nat
    BY DEF Inv, TypeOK, Lease
  <2>3. /\ runs[l.run].status = "running" /\ q \notin Answered(runs[l.run]) /\ asked' = asked
        /\ runs' = [runs EXCEPT ![l.run] = PersistRow(runs[l.run], l, q)]
    BY <2>1 DEF PersistResponse, Owned, Update
  <2>4. Answering(l.run, q)
    BY <2>3 DEF Answering
  <2> QED BY <2>2, <2>4
<1>5. CASE \E l \in leases :
              \/ Heartbeat(l) \/ FinishCancelled(l) \/ FailAttempt(l)
              \/ \E until \in Deferrals : DeferGovernance(l, until)
              \/ CooperativeYield(l) \/ ExhaustGovernance(l) \/ Finish(l)
  <2>1. PICK l \in leases :
              \/ Heartbeat(l) \/ FinishCancelled(l) \/ FailAttempt(l)
              \/ \E until \in Deferrals : DeferGovernance(l, until)
              \/ CooperativeYield(l) \/ ExhaustGovernance(l) \/ Finish(l)
    BY <1>5
  <2> DEFINE row == runs[l.run]
  <2>2. l.run \in Runs /\ row \in Row
    BY <1>1 DEF Inv, TypeOK, Lease
  <2>3. row.status = "running"
    BY <2>1 DEF Heartbeat, FinishCancelled, FailAttempt, DeferGovernance,
                CooperativeYield, ExhaustGovernance, Finish, Owned
  <2>4. PICK new : Update(l, new) /\ Moved(row, new) /\ new.cancel = row.cancel
    <3>1. CASE Heartbeat(l)
      <4>1. PICK lag \in Lags : Update(l, RenewRow(row, lag))
        BY <3>1 DEF Heartbeat
      <4> QED BY <2>2, <2>3, <4>1, RunningMoves
    <3>2. CASE FinishCancelled(l)
      <4>1. row.cancel /\ Update(l, CancelledRow(row))
        BY <3>2 DEF FinishCancelled
      <4> QED BY <1>0, <2>2, <2>3, <4>1, RunningMoves
    <3>3. CASE FailAttempt(l)
      <4>1. PICK lag \in Lags : Update(l, FailRow(row, lag))
        BY <3>3 DEF FailAttempt
      <4> QED BY <2>2, <2>3, <4>1, RunningMoves
    <3>4. CASE \E until \in Deferrals : DeferGovernance(l, until)
      <4>1. PICK until \in Deferrals : Update(l, DeferRow(row, until))
        BY <3>4 DEF DeferGovernance
      <4> QED BY <1>0, <2>2, <2>3, <4>1, RunningMoves
    <3>5. CASE CooperativeYield(l)
      <4>1. Update(l, YieldRow(row))
        BY <3>5 DEF CooperativeYield
      <4> QED BY <1>0, <2>2, <2>3, <4>1, RunningMoves
    <3>6. CASE ExhaustGovernance(l)
      <4>1. Update(l, ExhaustRow(row))
        BY <3>6 DEF ExhaustGovernance
      <4> QED BY <1>0, <2>2, <2>3, <4>1, RunningMoves
    <3>7. CASE Finish(l)
      <4>1. Update(l, IF row.cancel THEN CancelledRow(row) ELSE CompletedRow(row))
        BY <3>7 DEF Finish
      <4> QED BY <1>0, <2>2, <2>3, <4>1, RunningMoves
    <3> QED BY <2>1, <3>1, <3>2, <3>3, <3>4, <3>5, <3>6, <3>7
  <2> QED BY <2>2, <2>4, OneMove DEF Update
<1>6. CASE \E r \in Runs : RequestCancel(r)
  <2>1. PICK r \in Runs : RequestCancel(r)
    BY <1>6
  <2> DEFINE old == runs[r]
             row == IF old.status = "pending" THEN CancelPendingRow(old)
                                              ELSE [old EXCEPT !.cancel = TRUE]
  <2>2. /\ old \in Row /\ old.status \in {"pending", "running"}
        /\ asked' = [asked EXCEPT ![r] = TRUE]
        /\ runs' = IF CheckConstraints(row) THEN [runs EXCEPT ![r] = row] ELSE runs
    BY <1>1, <2>1 DEF RequestCancel
  <2>3. Moved(old, row)
    BY <2>2 DEF Moved, CancelPendingRow, Aggregate, Row, Terminal
  <2> HIDE DEF row
  <2>4. \A s \in Runs : Moved(runs[s], runs'[s]) /\ (s # r => runs'[s].cancel = runs[s].cancel)
    BY <1>1, <2>2, <2>3, StayMoves
  <2>5. Asking(r)
    BY <2>2, <2>4 DEF Asking, Terminal
  <2> QED BY <2>5
<1>7. CASE \E batch \in SUBSET Runs : ReapExpired(batch)
  <2>1. PICK batch \in SUBSET Runs, lag \in Lags :
          /\ \A r \in batch : runs[r].status = "running"
          /\ runs' = [r \in Runs |-> IF r \in batch THEN FailRow(runs[r], lag) ELSE runs[r]]
          /\ asked' = asked
    BY <1>7 DEF ReapExpired, Expired
  <2>2. ASSUME NEW r \in Runs
        PROVE  Moved(runs[r], runs'[r]) /\ runs'[r].cancel = runs[r].cancel
    <3>1. CASE r \in batch
      <4>1. runs'[r] = FailRow(runs[r], lag) /\ runs[r].status = "running" /\ runs[r] \in Row
        BY <1>1, <2>1, <3>1
      <4> QED BY <4>1, RunningMoves
    <3>2. CASE r \notin batch
      BY <2>1, <3>2, StayMoves
    <3> QED BY <3>1, <3>2
  <2> QED BY <2>1, <2>2 DEF Quiet
<1>8. CASE Tick
  <2>1. ASSUME NEW r \in Runs
        PROVE  Moved(runs[r], runs'[r]) /\ runs'[r].cancel = runs[r].cancel
    <3>1. runs'[r] = TickRow(runs[r]) /\ runs[r] \in Row /\ CheckConstraints(runs[r])
      BY <1>1, <1>8 DEF Tick, RowOK
    <3>2. /\ TickRow(runs[r]).status = runs[r].status
          /\ TickRow(runs[r]).responses = runs[r].responses
          /\ TickRow(runs[r]).cancel = runs[r].cancel
      BY <3>1 DEF TickRow, Row
    <3>3. runs[r].status \in Terminal => TickRow(runs[r]) = runs[r]
      <4> SUFFICES ASSUME runs[r].status \in Terminal PROVE TickRow(runs[r]) = runs[r]
        OBVIOUS
      <4>1. runs[r].expires = NoTime /\ runs[r].nextAt = NoTime /\ runs[r].govUntil = NoTime
        BY <3>1 DEF CheckConstraints, Terminal
      <4>2. Sooner(NoTime) = NoTime
        BY DEF Sooner
      <4> QED BY <3>1, <4>1, <4>2 DEF TickRow, Row
    <3> QED BY <3>1, <3>2, <3>3 DEF Moved
  <2> QED BY <1>8, <2>1 DEF Quiet, Tick
<1> QED BY <1>2, <1>3, <1>4, <1>5, <1>6, <1>7, <1>8 DEF Next

-----------------------------------------------------------------------------
LEMMA CancelAskedNext ==
    ASSUME Inv, CancelWasAsked, [Next]_vars
    PROVE  CancelWasAsked'
<1>1. asked \in [Runs -> BOOLEAN] /\ runs \in [Runs -> Row]
  BY DEF Inv, TypeOK
<1>2. CASE Quiet
  BY <1>2 DEF Quiet, CancelWasAsked
<1>3. CASE \E r \in Runs : Asking(r)
  BY <1>1, <1>3 DEF Asking, CancelWasAsked
<1>4. CASE \E r \in Runs, q \in Questions : Answering(r, q)
  <2>1. PICK r \in Runs, q \in Questions, l \in leases :
           runs' = [runs EXCEPT ![r] = PersistRow(runs[r], l, q)] /\ asked' = asked
    BY <1>4 DEF Answering
  <2>2. PersistRow(runs[r], l, q).cancel = runs[r].cancel
    BY <1>1 DEF PersistRow, Row
  <2> QED BY <1>1, <2>1, <2>2 DEF CancelWasAsked
<1>5. CASE UNCHANGED vars
  BY <1>5 DEF vars, CancelWasAsked
<1> QED BY <1>2, <1>3, <1>4, <1>5, StepForms

\* The row flag cancellation_requested is set only by the cancel API.
LEMMA CancelAsked == Spec => []CancelWasAsked
<1>1. Init => CancelWasAsked
  BY DEF Init, CancelWasAsked, NewRow
<1>2. Inv /\ CancelWasAsked /\ [Next]_vars => CancelWasAsked'
  BY CancelAskedNext
<1> QED BY <1>1, <1>2, Invariance, PTL DEF Spec

-----------------------------------------------------------------------------
(***************************************************************************)
(* The mapping, row by row.                                                *)
(***************************************************************************)
\* A terminal row publishes the questions it has answered.
LEMMA PublishesAnswers ==
    ASSUME NEW row, RowOK(row)
    PROVE  /\ row.status \in Terminal => PublishedBy(row) = Answered(row)
           /\ row.status \notin Terminal => PublishedBy(row) = {}
           /\ Answered(row) \subseteq Questions
           /\ PublishedBy(row) \subseteq Questions
           /\ PhaseOf(row) \in {"waiting", "executing", "completed", "failed", "cancelled"}
<1>1. row \in Row /\ row.responses \in Seq(Response)
  BY DEF RowOK, Row
<1>2. \A i \in DOMAIN row.responses : row.responses[i].question \in Questions
  <2>1. \A i \in DOMAIN row.responses : row.responses[i] \in Response
    BY <1>1
  <2> QED BY <2>1 DEF Response
<1>3. Answered(row) \subseteq Questions
  BY <1>2 DEF Answered
<1>4. /\ row.status \in Terminal => PublishedBy(row) = Answered(row)
      /\ row.status \notin Terminal => PublishedBy(row) = {}
  BY DEF PublishedBy, Answered, RowOK
<1>5. PhaseOf(row) \in {"waiting", "executing", "completed", "failed", "cancelled"}
  BY <1>1 DEF PhaseOf, Row, Statuses, Terminal
<1> QED BY <1>3, <1>4, <1>5

\* A move of a row is a lifecycle step of the Run.
LEMMA MoveIsLifecycle ==
    ASSUME NEW old, NEW new, RowOK(old), RowOK(new), Moved(old, new),
           NEW wanted, new.cancel => wanted
    PROVE  /\ Answered(new) = Answered(old)
           /\ \/ PhaseOf(new) = PhaseOf(old) /\ PublishedBy(new) = PublishedBy(old)
              \/ /\ PhaseOf(old) = "waiting" /\ PhaseOf(new) = "executing"
                 /\ PublishedBy(new) = PublishedBy(old)
              \/ /\ PhaseOf(old) = "executing" /\ PhaseOf(new) = "waiting"
                 /\ PublishedBy(new) = PublishedBy(old)
              \/ /\ PhaseOf(old) = "executing" /\ Answered(old) = Questions
                 /\ PhaseOf(new) = "completed" /\ PublishedBy(new) = Answered(old)
              \/ /\ PhaseOf(old) = "executing"
                 /\ PhaseOf(new) = "failed" /\ PublishedBy(new) = Answered(old)
              \/ /\ PhaseOf(old) \notin {"completed", "failed", "cancelled"} /\ wanted
                 /\ PhaseOf(new) = "cancelled" /\ PublishedBy(new) = Answered(old)
<1>1. Answered(new) = Answered(old)
  BY DEF Moved, Answered
<1>2. /\ old.status \in Terminal => PublishedBy(old) = Answered(old)
      /\ old.status \notin Terminal => PublishedBy(old) = {}
      /\ new.status \in Terminal => PublishedBy(new) = Answered(new)
      /\ new.status \notin Terminal => PublishedBy(new) = {}
      /\ new.status = "completed" => Answered(new) = Questions
  BY PublishesAnswers DEF RowOK
<1>3. CASE new.status = old.status /\ (old.status \in Terminal => new = old)
  BY <1>1, <1>2, <1>3 DEF PhaseOf
<1>4. CASE old.status = "pending" /\ new.status = "running"
  BY <1>1, <1>2, <1>4 DEF PhaseOf, Terminal
<1>5. CASE old.status = "running" /\ new.status \in {"pending", "completed", "failed"}
  BY <1>1, <1>2, <1>5 DEF PhaseOf, Terminal
<1>6. CASE old.status \in {"pending", "running"} /\ new.status = "cancelled" /\ new.cancel
  BY <1>1, <1>2, <1>6 DEF PhaseOf, Terminal
<1> QED BY <1>1, <1>3, <1>4, <1>5, <1>6 DEF Moved

phaseBar     == [r \in Runs |-> PhaseOf(runs[r])]
answersBar   == [r \in Runs |-> Answered(runs[r])]
publishedBar == [r \in Runs |-> PublishedBy(runs[r])]

LEMMA StepRefines ==
    ASSUME Inv, Inv', CancelWasAsked', [Next]_vars
    PROVE  [Lifecycle!LifeNext]_(Lifecycle!lifeVars)
<1>1. CASE UNCHANGED vars
  BY <1>1 DEF vars, Lifecycle!lifeVars, Answered
<1>2. ASSUME \A r \in Runs : Moved(runs[r], runs'[r])
      PROVE  Lifecycle!ChangePhase
  <2> DEFINE P == {"waiting", "executing", "completed", "failed", "cancelled"}
  <2>1. ASSUME NEW r \in Runs
        PROVE  /\ Answered(runs'[r]) = Answered(runs[r])
               /\ \/ Lifecycle!Same(r) \/ Lifecycle!Begin(r) \/ Lifecycle!Release(r)
                  \/ Lifecycle!Complete(r) \/ Lifecycle!Fail(r) \/ Lifecycle!Cancel(r)
               /\ PhaseOf(runs'[r]) \in P /\ PublishedBy(runs'[r]) \subseteq Questions
    <3>1. RowOK(runs[r]) /\ RowOK(runs'[r]) /\ Moved(runs[r], runs'[r])
          /\ (runs'[r].cancel => asked'[r])
      BY <1>2 DEF Inv, CancelWasAsked
    <3>2. PhaseOf(runs'[r]) \in P /\ PublishedBy(runs'[r]) \subseteq Questions
      BY <3>1, PublishesAnswers
    <3> QED
      BY <3>1, <3>2, MoveIsLifecycle
      DEF Lifecycle!Same, Lifecycle!Begin, Lifecycle!Release, Lifecycle!Complete, Lifecycle!Fail,
          Lifecycle!Cancel, Lifecycle!Live, Lifecycle!Stopped
  <2> QED
    BY <2>1 DEF Lifecycle!ChangePhase, Lifecycle!Phases, Lifecycle!Stopped
<1>3. CASE Quiet
  BY <1>2, <1>3 DEF Quiet, Lifecycle!LifeNext
<1>4. CASE \E r \in Runs : Asking(r)
  <2>1. PICK r \in Runs : Asking(r)
    BY <1>4
  <2>2. Lifecycle!ChangePhase
    BY <1>2, <2>1 DEF Asking
  <2>3. Lifecycle!Ask(r)
    BY <2>1 DEF Asking, Lifecycle!Ask, Lifecycle!Live, Lifecycle!Stopped, Terminal, PhaseOf
  <2> QED BY <2>2, <2>3 DEF Lifecycle!LifeNext
<1>5. CASE \E r \in Runs, q \in Questions : Answering(r, q)
  <2>1. PICK r \in Runs, q \in Questions, l \in leases :
           /\ runs[r].status = "running" /\ q \notin Answered(runs[r])
           /\ runs' = [runs EXCEPT ![r] = PersistRow(runs[r], l, q)] /\ asked' = asked
    BY <1>5 DEF Answering
  <2>2. runs \in [Runs -> Row] /\ l.token \in Nat
    BY DEF Inv, TypeOK, Lease
  <2> DEFINE old == runs[r]
             new == PersistRow(old, l, q)
             resp == [question |-> q, token |-> l.token]
  <2>3. /\ new.status = old.status /\ new.evidence = old.evidence
        /\ new.responses = Append(old.responses, resp)
    BY <2>2 DEF PersistRow, Row
  <2>4. Answered(new) = Answered(old) \cup {q}
    <3>1. old.responses \in Seq(Response) /\ resp \in Response
      BY <2>2 DEF Row, Response
    <3>2. /\ Len(old.responses) \in Nat /\ DOMAIN old.responses = 1..Len(old.responses)
          /\ DOMAIN new.responses = 1..(Len(old.responses) + 1)
          /\ new.responses[Len(old.responses) + 1] = resp
          /\ \A i \in 1..Len(old.responses) : new.responses[i] = old.responses[i]
      <4> HIDE DEF new, resp, old
      <4> QED BY <2>3, <3>1
    <3>3. resp.question = q
      OBVIOUS
    <3> HIDE DEF new, resp, old
    <3>4. \A x : x \in Answered(new) <=> x \in Answered(old) \cup {q}
      <4>1. ASSUME NEW x \in Answered(new) PROVE x \in Answered(old) \cup {q}
        <5>1. PICK i \in DOMAIN new.responses : x = new.responses[i].question
          BY DEF Answered
        <5>2. i \in 1..Len(old.responses) \/ i = Len(old.responses) + 1
          BY <3>2
        <5> QED BY <3>2, <3>3, <5>1, <5>2 DEF Answered
      <4>2. ASSUME NEW x \in Answered(old) PROVE x \in Answered(new)
        <5>1. PICK i \in DOMAIN old.responses : x = old.responses[i].question
          BY DEF Answered
        <5>2. i \in DOMAIN new.responses /\ new.responses[i] = old.responses[i]
          BY <3>2
        <5> QED BY <5>1, <5>2 DEF Answered
      <4>3. q \in Answered(new)
        <5>1. Len(old.responses) + 1 \in DOMAIN new.responses
          BY <3>2
        <5> QED BY <3>2, <3>3, <5>1 DEF Answered
      <4> QED BY <4>1, <4>2, <4>3
    <3> QED BY <3>4
  <2> HIDE DEF new
  <2>5. \A s \in Runs : runs'[s] = IF s = r THEN new ELSE runs[s]
    BY <2>1, <2>2 DEF new
  <2>6. /\ phaseBar' = phaseBar /\ publishedBar' = publishedBar
        /\ answersBar' = [answersBar EXCEPT ![r] = @ \cup {q}]
    <3>1. PhaseOf(new) = PhaseOf(old) /\ PublishedBy(new) = PublishedBy(old)
      BY <2>3 DEF PhaseOf, PublishedBy
    <3> QED BY <2>4, <2>5, <3>1 DEF phaseBar, publishedBar, answersBar
  <2>7. Lifecycle!Answer(r, q)
    BY <2>1, <2>6
    DEF Lifecycle!Answer, phaseBar, publishedBar, answersBar, PhaseOf
  <2> QED BY <2>7 DEF Lifecycle!LifeNext
<1> QED BY <1>1, <1>3, <1>4, <1>5, StepForms

LEMMA InitRefines == Init => Lifecycle!LifeInit
  BY DEF Init, Lifecycle!LifeInit, NewRow, Terminal, Answered, PhaseOf, PublishedBy

\* Every behaviour of the lease repository is a behaviour of the plain Run
\* lifecycle: leases, fencing, retries, governance releases and the reaper add
\* no new way for a Run to start, answer, stop or publish.
THEOREM Refinement == Spec => ImplementsLifecycle
  BY InitRefines, StepRefines, Invariance, CancelAsked, PTL
  DEF Spec, ImplementsLifecycle, Lifecycle!LifeSpec
=============================================================================
