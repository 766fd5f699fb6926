----------------------- MODULE EvaluationRunnerProofs -----------------------
(***************************************************************************)
(* Theorems about EvaluationRunner, for every number of workers, questions *)
(* and attempts, every quantum and concurrency.                            *)
(*                                                                         *)
(* A lease token is in the hands of one worker, or of threads its worker   *)
(* left behind, never of both while the worker may still ask.  What is     *)
(* asked or stored under a token is fixed when the questions are loaded    *)
(* and only shrinks: AskedUnder.                                           *)
(***************************************************************************)
EXTENDS EvaluationRunner, FiniteSetTheorems, SequenceTheorems, WellFoundedInduction, TLAPS

Early == {"taking", "claimed"}
Busy  == {"asking", "drained", "deciding"}
Gone  == {"fenced", "failing"}

\* No question is answered twice, each under a lease that was issued.
ResponsesOK(r) ==
    /\ \A i, j \in DOMAIN r.responses :
        r.responses[i].question = r.responses[j].question => i = j
    /\ \A i \in DOMAIN r.responses : r.responses[i].token \in 1..r.token

\* A worker's memory m against the row r.
MemoryOK(m, r) ==
    /\ m.token <= r.token
    /\ IF m.pc = "idle" THEN m = Idle ELSE m.token # 0
    /\ m.todo \cap m.inflight = {}
    /\ m.pc \in Early =>
        /\ m.todo = {} /\ m.inflight = {} /\ m.signal = "none" /\ ~m.remain
        /\ \A i \in DOMAIN r.responses : r.responses[i].token # m.token
    /\ m.pc \in Busy /\ m.token = r.token =>
        /\ (m.todo \cup m.inflight) \cap Answered(r) = {}
        /\ m.signal # "none" \/ m.remain =>
            \E q \in Questions \ Answered(r) : q \notin m.todo \cup m.inflight

\* One worker per token; a thread left behind has no worker that still asks.
TokensOK(memory, threads) ==
    /\ \A u, v \in Workers : memory[u].token = memory[v].token /\ memory[u].token # 0 => u = v
    /\ \A p \in threads, u \in Workers : memory[u].token = p.token => memory[u].pc \in Gone

AskedUnder(t, r, memory, threads) ==
    {r.responses[i].question : i \in {i \in DOMAIN r.responses : r.responses[i].token = t}}
    \cup {p.question : p \in {p \in threads : p.token = t}}
    \cup UNION {memory[w].todo \cup memory[w].inflight : w \in {w \in Workers : memory[w].token = t}}

QuantumOK(r, memory, threads) ==
    IsManaged => \A t \in Nat \ {0} : Cardinality(AskedUnder(t, r, memory, threads)) <= Quantum

RIInv ==
    /\ TypeOK /\ PendingHasWork
    /\ ResponsesOK(row)
    /\ \A w \in Workers : MemoryOK(wk[w], row)
    /\ TokensOK(wk, late)
    /\ QuantumOK(row, wk, late)
-----------------------------------------------------------------------------
(* Numbers and sets.                                                       *)

LEMMA LeastNat ==
    ASSUME NEW B, B \subseteq Nat, B # {}
    PROVE  \E n \in B : \A m \in B : n <= m
<1>1. \E n \in B : \A m \in B : <<m, n>> \notin OpToRel(<, Nat)
    BY NatLessThanWellFounded, WFMin
<1>2. PICK n \in B : \A m \in B : <<m, n>> \notin OpToRel(<, Nat)
    BY <1>1
<1>3. ASSUME NEW m \in B PROVE n <= m
  <2>1. ~(m < n)
    BY <1>2, <1>3 DEF OpToRel
  <2> QED  BY <2>1
<1> QED  BY <1>3

LEMMA MinInSet ==
    ASSUME NEW S, S \subseteq Questions, S # {}
    PROVE  Min(S) \in S
<1>1. S \subseteq Nat
    BY QuestionOrder
<1>2. \E n \in S : \A m \in S : n <= m
    BY <1>1, LeastNat
<1> QED  BY <1>2 DEF Min

LEMMA QuestionSets ==
    ASSUME NEW S, S \subseteq Questions
    PROVE  IsFiniteSet(S) /\ Cardinality(S) \in Nat /\ Cardinality(S) <= Total
BY QuestionAssumption, FS_Subset, FS_CardinalityType DEF Total

\* The greatest number of a finite set.
LEMMA Greatest ==
    ASSUME NEW S, S \subseteq Questions, S # {}
    PROVE  \E m \in S : \A k \in S : k <= m
<1> DEFINE above(k) == {j \in S : j > k}
           Counts == {Cardinality(above(k)) : k \in S}
<1>0. S \subseteq Nat
    BY QuestionOrder
<1>1. \A k \in S : above(k) \subseteq Questions /\ Cardinality(above(k)) \in Nat
    BY QuestionSets
<1>2. Counts \subseteq Nat /\ Counts # {}
    BY <1>1
<1>3. PICK n \in Counts : \A m \in Counts : n <= m
  <2> HIDE DEF Counts
  <2> QED  BY <1>2, LeastNat
<1>4. PICK m \in S : n = Cardinality(above(m))
    BY <1>3
<1>5. ASSUME NEW k \in S, ~(k <= m) PROVE FALSE
  <2>1. k \in above(m) /\ k \notin above(k) /\ above(k) \subseteq above(m)
    <3>1. k \in Nat /\ m \in Nat /\ k > m /\ \A j \in S : j \in Nat
        BY <1>0, <1>5
    <3>2. \A j \in S : j > k => j > m
        BY <3>1
    <3>3. ~(k > k)
        BY <3>1
    <3>4. k \in above(m)
        BY <3>1
    <3>5. k \notin above(k)
        BY <3>3
    <3> QED  BY <3>2, <3>4, <3>5
  <2>2. IsFiniteSet(above(m)) /\ Cardinality(above(m)) \in Nat /\ Cardinality(above(k)) \in Nat
    BY <1>1, QuestionSets
  <2>3. Cardinality(above(m)) <= Cardinality(above(k))
    BY <1>3, <1>4
  <2> HIDE DEF above
  <2>4. above(k) = above(m)
    <3>1. IsFiniteSet(above(k)) /\ Cardinality(above(k)) <= Cardinality(above(m))
        BY <2>1, <2>2, FS_Subset
    <3>2. Cardinality(above(k)) = Cardinality(above(m))
        BY <2>2, <2>3, <3>1
    <3> QED  BY <2>1, <2>2, <3>2, FS_Subset
  <2> QED  BY <2>1, <2>4
<1> QED  BY <1>5

\* A slice has no more questions than the quantum.
LEMMA SliceSize ==
    ASSUME NEW S, S \subseteq Questions, IsManaged
    PROVE  Slice(S) \subseteq S /\ Cardinality(Slice(S)) <= Quantum
<1> DEFINE before(q) == {p \in S : p < q}
           T == Slice(S)
<1>1. T = {q \in S : Cardinality(before(q)) < Quantum} /\ T \subseteq S /\ T \subseteq Questions
    BY DEF Slice
<1>2. Quantum \in Nat
    BY RunnerAssumption
<1>3. CASE T = {}
  <2>1. Cardinality({}) = 0
    BY FS_EmptySet
  <2>2. Cardinality(T) = 0
    BY <1>3, <2>1
  <2> HIDE DEF T
  <2>3. Cardinality(T) <= Quantum
    BY <1>2, <2>2
  <2> QED  BY <1>1, <2>3 DEF T
<1>4. CASE T # {}
  <2>1. PICK m \in T : \A k \in T : k <= m
    <3> HIDE DEF T
    <3> QED  BY <1>1, <1>4, Greatest
  <2>2. T \ {m} \subseteq before(m)
    <3> SUFFICES ASSUME NEW k \in T, k # m PROVE k \in S /\ k < m
        OBVIOUS
    <3>1. k \in S /\ k \in Nat /\ m \in Nat /\ k <= m
      <4> HIDE DEF T
      <4> QED  BY <1>1, <2>1, QuestionOrder
    <3> QED  BY <3>1
  <2>3. /\ IsFiniteSet(T) /\ Cardinality(T) \in Nat
        /\ IsFiniteSet(before(m)) /\ Cardinality(before(m)) \in Nat
    BY <1>1, QuestionSets
  <2>4. Cardinality(before(m)) < Quantum
    BY <1>1, <2>1
  <2> HIDE DEF T, before
  <2>5. Cardinality(T \ {m}) = Cardinality(T) - 1
    BY <2>1, <2>3, FS_RemoveElement
  <2>6. Cardinality(T \ {m}) <= Cardinality(before(m))
    BY <2>2, <2>3, FS_Subset
  <2>7. Cardinality(T) <= Quantum
    BY <1>2, <2>3, <2>4, <2>5, <2>6
  <2> QED  BY <1>1, <2>7 DEF T
<1> QED  BY <1>3, <1>4

\* Distinct responses are as many as the questions they answer.
LEMMA AnswerCount ==
    ASSUME NEW r \in Row, ResponsesOK(r)
    PROVE  /\ Answered(r) \subseteq Questions
           /\ Len(r.responses) \in Nat /\ DOMAIN r.responses = 1..Len(r.responses)
           /\ Len(r.responses) = Cardinality(Answered(r)) /\ Len(r.responses) <= Total
           /\ Answered(r) # Questions => Len(r.responses) < Total
<1> DEFINE n == Len(r.responses)
           f == [i \in 1..n |-> r.responses[i].question]
<1>1. /\ r.responses \in Seq(Response) /\ n \in Nat
      /\ DOMAIN r.responses = 1..n
      /\ \A i \in 1..n : r.responses[i] \in Response
    BY DEF Row
<1>2. Answered(r) \subseteq Questions
    BY <1>1 DEF Answered, Response
<1>3. f \in Bijection(1..n, Answered(r))
  <2>1. f \in [1..n -> Answered(r)]
    BY <1>1 DEF Answered
  <2>2. f \in Injection(1..n, Answered(r))
    BY <1>1, <2>1 DEF Injection, IsInjective, ResponsesOK
  <2>3. f \in Surjection(1..n, Answered(r))
    BY <1>1, <2>1 DEF Surjection, Answered
  <2> QED  BY <2>2, <2>3 DEF Bijection
<1>4. IsFiniteSet(1..n) /\ Cardinality(1..n) = n
    BY <1>1, FS_Interval
<1>5. Cardinality(Answered(r)) = n
    BY <1>3, <1>4, FS_Bijection DEF ExistsBijection
<1>6. Cardinality(Answered(r)) <= Total /\ Total \in Nat
    BY <1>2, QuestionSets DEF Total
<1>7. Answered(r) # Questions => Cardinality(Answered(r)) # Total
    BY <1>2, QuestionAssumption, FS_Subset DEF Total
<1> QED  BY <1>1, <1>2, <1>5, <1>6, <1>7

-----------------------------------------------------------------------------
(* What the transactions that neither claim nor answer keep of the row.    *)

Kept(r, new) ==
    /\ new \in Row /\ new.responses = r.responses /\ new.token = r.token
    /\ new.status = "pending" => r.status = "pending" \/ Len(r.responses) < Total

LEMMA SettledKeeps ==
    ASSUME NEW r \in Row
    PROVE  Kept(r, r) /\ Kept(r, CancelledRow(r)) /\ Kept(r, CompletedRow(r)) /\ Kept(r, ExhaustRow(r))
<1>1. Kept(r, r)
    BY DEF Kept
<1>2. Kept(r, CancelledRow(r))
    BY DEF Kept, CancelledRow, ClearLease, Aggregate, Row, Statuses, Terminal, Times
<1>3. Kept(r, CompletedRow(r))
    BY DEF Kept, CompletedRow, ClearLease, Aggregate, Row, Statuses, Terminal, Times
<1>4. Kept(r, ExhaustRow(r))
    BY DEF Kept, ExhaustRow, ClearLease, Aggregate, Row, Statuses, Terminal, Times, GovStates
<1> QED  BY <1>1, <1>2, <1>3, <1>4

LEMMA ParkedKeeps ==
    ASSUME NEW r \in Row, Len(r.responses) < Total
    PROVE  Kept(r, DeferRow(r, DeferFor)) /\ Kept(r, YieldRow(r))
<1>1. DeferFor \in Int
    BY RunnerAssumption
<1>2. Kept(r, DeferRow(r, DeferFor))
    BY <1>1 DEF Kept, DeferRow, ClearLease, Row, Statuses, Times, GovStates
<1>3. Kept(r, YieldRow(r))
    BY DEF Kept, YieldRow, ClearLease, Row, Statuses, Times, GovStates
<1> QED  BY <1>2, <1>3

LEMMA TimedKeeps ==
    ASSUME NEW r \in Row
    PROVE  Kept(r, RenewRow(r, 0)) /\ Kept(r, TickRow(r)) /\ Kept(r, CancelPendingRow(r))
           /\ Kept(r, [r EXCEPT !.cancel = TRUE])
<1>1. Kept(r, RenewRow(r, 0))
  <2>1. LeaseFor - 0 \in Int
    BY LeaseAssumption
  <2> QED  BY <2>1 DEF Kept, RenewRow, Row, Times
<1>2. Kept(r, TickRow(r))
  <2>1. \A t \in Times : Sooner(t) \in Times
    BY LagAssumption DEF Times, Sooner
  <2>2. Sooner(r.expires) \in Times /\ Sooner(r.nextAt) \in Times /\ Sooner(r.govUntil) \in Times
    BY <2>1 DEF Row
  <2> QED  BY <2>2 DEF Kept, TickRow, Row
<1>3. Kept(r, CancelPendingRow(r))
    BY DEF Kept, CancelPendingRow, Aggregate, Row, Statuses, Terminal, Times
<1>4. Kept(r, [r EXCEPT !.cancel = TRUE])
    BY DEF Kept, Row
<1> QED  BY <1>1, <1>2, <1>3, <1>4

\* A retry is only scheduled while something is left to do.
LEMMA FailKeeps ==
    ASSUME NEW r \in Row, ResponsesOK(r)
    PROVE  Kept(r, FailRow(r, 0))
<1> DEFINE base == [ClearLease(Aggregate(r)) EXCEPT !.failed = r.failed + 1]
<1>0. base \in Row /\ base.responses = r.responses /\ base.token = r.token
  <2>1. r.failed + 1 \in Nat
    BY DEF Row
  <2> QED  BY <2>1 DEF ClearLease, Aggregate, Row, Times
<1>1. CASE r.cancel
    BY <1>1, SettledKeeps DEF FailRow
<1>2. CASE ~r.cancel /\ Complete(r)
    BY <1>2, SettledKeeps DEF FailRow
<1>3. CASE ~r.cancel /\ ~Complete(r) /\ r.failed + 1 >= MaxAttempts
  <2>1. FailRow(r, 0) = [base EXCEPT !.status = "failed", !.dead = TRUE]
    BY <1>3 DEF FailRow
  <2> HIDE DEF base
  <2> QED  BY <1>0, <2>1 DEF Kept, Row, Statuses, Terminal
<1>4. CASE ~r.cancel /\ ~Complete(r) /\ ~(r.failed + 1 >= MaxAttempts)
  <2> DEFINE at == Backoff(r.failed + 1) - 0
  <2>1. FailRow(r, 0) = [base EXCEPT !.status = "pending", !.nextAt = at]
    BY <1>4 DEF FailRow
  <2>2. r.failed + 1 \in 1..MaxAttempts /\ r.failed + 1 \in Nat
    BY <1>4, AttemptAssumption DEF Row
  <2>3. at \in Int
    BY <2>2, BackoffAssumption
  <2>4. Len(r.responses) < Total
    BY <1>4, AnswerCount, QuestionSets DEF Complete, Total
  <2> HIDE DEF at, base
  <2> QED  BY <1>0, <2>1, <2>3, <2>4 DEF Kept, Row, Statuses, Times
<1> QED  BY <1>1, <1>2, <1>3, <1>4

-----------------------------------------------------------------------------
(* Steps that neither claim, load nor answer.                              *)

LEMMA MemoryKept ==
    ASSUME NEW m, NEW r, NEW new, MemoryOK(m, r), Kept(r, new)
    PROVE  MemoryOK(m, new)
<1>1. new.responses = r.responses /\ new.token = r.token /\ Answered(new) = Answered(r)
    BY DEF Kept, Answered
<1> QED  BY <1>1 DEF MemoryOK

Goes(old, rec) ==
    \/ rec = Idle
    \/ /\ rec \in Worker /\ rec.token = old.token /\ rec.pc # "idle"
       /\ rec.todo \cup rec.inflight \subseteq old.todo \cup old.inflight
       /\ rec.todo \cap rec.inflight = {}
       /\ rec.pc \in Early => old.pc \in Early /\ rec.signal = old.signal /\ rec.remain = old.remain
       /\ rec.pc \in Busy =>
            /\ old.pc \in Busy /\ rec.remain = old.remain
            /\ rec.signal # "none" =>
                old.signal # "none" \/ \E q \in old.inflight : q \notin rec.todo \cup rec.inflight

LEMMA IdleWorker ==
    /\ Idle \in Worker /\ Idle.token = 0 /\ Idle.pc = "idle"
    /\ Idle.todo = {} /\ Idle.inflight = {} /\ Idle.signal = "none" /\ ~Idle.remain
BY DEF Idle, Worker, Pcs, Signals

LEMMA IdleOK ==
    ASSUME NEW r \in Row
    PROVE  MemoryOK(Idle, r)
<1>1. r.token \in Nat
    BY DEF Row
<1> HIDE DEF Idle
<1> QED  BY <1>1, IdleWorker DEF MemoryOK, Early, Busy

LEMMA GoesOK ==
    ASSUME NEW old \in Worker, NEW rec, NEW r \in Row, MemoryOK(old, r), Goes(old, rec), old.pc # "idle"
    PROVE  MemoryOK(rec, r) /\ rec \in Worker
<1>1. CASE rec = Idle
    BY <1>1, IdleOK, IdleWorker
<1>2. CASE rec # Idle
  <2>1. /\ rec \in Worker /\ rec.token = old.token /\ rec.pc # "idle"
        /\ rec.todo \cup rec.inflight \subseteq old.todo \cup old.inflight
        /\ rec.todo \cap rec.inflight = {}
    BY <1>2 DEF Goes
  <2>2. rec.token <= r.token /\ rec.token # 0
    BY <2>1 DEF MemoryOK
  <2>3. ASSUME rec.pc \in Early
        PROVE  /\ rec.todo = {} /\ rec.inflight = {} /\ rec.signal = "none" /\ ~rec.remain
               /\ \A i \in DOMAIN r.responses : r.responses[i].token # rec.token
    BY <1>2, <2>1, <2>3 DEF Goes, MemoryOK
  <2>4. ASSUME rec.pc \in Busy, rec.token = r.token
        PROVE  /\ (rec.todo \cup rec.inflight) \cap Answered(r) = {}
               /\ rec.signal # "none" \/ rec.remain =>
                    \E q \in Questions \ Answered(r) : q \notin rec.todo \cup rec.inflight
    <3>1. /\ old.pc \in Busy /\ old.token = r.token /\ rec.remain = old.remain
          /\ rec.signal # "none" =>
                old.signal # "none" \/ \E q \in old.inflight : q \notin rec.todo \cup rec.inflight
        BY <1>2, <2>1, <2>4 DEF Goes
    <3>2. /\ (old.todo \cup old.inflight) \cap Answered(r) = {}
          /\ old.signal # "none" \/ old.remain =>
                \E q \in Questions \ Answered(r) : q \notin old.todo \cup old.inflight
        BY <3>1 DEF MemoryOK
    <3>3. old.inflight \subseteq Questions
        BY DEF Worker
    <3> QED  BY <2>1, <3>1, <3>2, <3>3
  <2> QED  BY <2>1, <2>2, <2>3, <2>4 DEF MemoryOK
<1> QED  BY <1>1, <1>2

LEMMA AskedQuestions ==
    ASSUME TypeOK, NEW t
    PROVE  AskedUnder(t, row, wk, late) \subseteq Questions
<1>1. \A i \in DOMAIN row.responses : row.responses[i].question \in Questions
  <2>1. row.responses \in Seq(Response)
    BY DEF TypeOK, Row
  <2>2. \A i \in DOMAIN row.responses : row.responses[i] \in Response
    BY <2>1, ElementOfSeq, LenProperties
  <2> QED  BY <2>2 DEF Response
<1>2. \A p \in late : p.question \in Questions
    BY DEF TypeOK
<1>3. \A w \in Workers : wk[w].todo \subseteq Questions /\ wk[w].inflight \subseteq Questions
    BY DEF TypeOK, Worker
<1> QED  BY <1>1, <1>2, <1>3 DEF AskedUnder

\* As long as what is asked under every token only shrinks.
LEMMA QuantumKept ==
    ASSUME TypeOK, QuantumOK(row, wk, late), NEW r, NEW memory, NEW threads,
           \A t \in Nat \ {0} :
              AskedUnder(t, r, memory, threads) \subseteq AskedUnder(t, row, wk, late)
    PROVE  QuantumOK(r, memory, threads)
<1> SUFFICES ASSUME IsManaged, NEW t \in Nat \ {0}
             PROVE  Cardinality(AskedUnder(t, r, memory, threads)) <= Quantum
    BY DEF QuantumOK
<1> DEFINE A == AskedUnder(t, row, wk, late)
           B == AskedUnder(t, r, memory, threads)
<1>1. B \subseteq A /\ A \subseteq Questions /\ B \subseteq Questions
    BY AskedQuestions
<1>2. Cardinality(A) <= Quantum
    BY DEF QuantumOK
<1> HIDE DEF A, B
<1>3. IsFiniteSet(A) /\ Cardinality(A) \in Nat /\ Cardinality(B) \in Nat
    BY <1>1, QuestionSets
<1>4. Cardinality(B) <= Cardinality(A)
    BY <1>1, <1>3, FS_Subset
<1>5. Cardinality(B) <= Quantum
    BY <1>2, <1>3, <1>4, RunnerAssumption
<1> QED  BY <1>5 DEF B

LEMMA RowStep ==
    ASSUME RIInv, Kept(row, row'), UNCHANGED <<wk, late, signals>>
    PROVE  RIInv'
<1>1. row' \in Row /\ row'.responses = row.responses /\ row'.token = row.token
    BY DEF Kept
<1>2. TypeOK'
    BY <1>1 DEF RIInv, TypeOK
<1>3. PendingHasWork'
    BY <1>1 DEF RIInv, PendingHasWork, Kept
<1>4. ResponsesOK(row')
    BY <1>1 DEF RIInv, ResponsesOK
<1>5. \A w \in Workers : MemoryOK(wk[w], row')
    BY MemoryKept DEF RIInv
<1>6. QuantumOK(row', wk, late)
    BY <1>1 DEF RIInv, QuantumOK, AskedUnder
<1> QED  BY <1>2, <1>3, <1>4, <1>5, <1>6 DEF RIInv

LeftBehind(w, running) == {[owner |-> w, token |-> wk[w].token, question |-> q] : q \in running}

\* A worker goes on; threads it left behind are still to store.
LEMMA QuietStep ==
    ASSUME RIInv, Kept(row, row'), signals' \in 0..MaxSignals, NEW w \in Workers, NEW rec,
           wk[w].pc # "idle", Goes(wk[w], rec), wk' = [wk EXCEPT ![w] = rec],
           NEW running \in SUBSET wk[w].inflight, late' = late \cup LeftBehind(w, running),
           running = {} \/ rec = Idle \/ rec.pc \in Gone
    PROVE  RIInv'
<1>1. /\ row' \in Row /\ row'.responses = row.responses /\ row'.token = row.token
      /\ row \in Row /\ row.token \in Nat /\ wk \in [Workers -> Worker] /\ wk[w] \in Worker
      /\ late \subseteq [owner : Workers, token : 1..row.token, question : Questions]
    BY DEF Kept, RIInv, TypeOK, Row
<1>2. MemoryOK(wk[w], row)
    BY DEF RIInv
<1>3. MemoryOK(rec, row) /\ rec \in Worker
    BY <1>1, <1>2, GoesOK
<1>4. wk[w].token \in 1..row.token /\ wk[w].token \in Nat /\ wk[w].inflight \subseteq Questions
  <2>1. wk[w].token \in Nat /\ wk[w].inflight \subseteq Questions
    BY <1>1 DEF Worker
  <2>2. wk[w].token <= row.token /\ wk[w].token # 0
    BY <1>2 DEF MemoryOK
  <2> QED  BY <1>1, <2>1, <2>2
<1>5. /\ wk' \in [Workers -> Worker] /\ wk'[w] = rec
      /\ \A u \in Workers : u # w => wk'[u] = wk[u]
    BY <1>1, <1>3
<1>6. LeftBehind(w, running) \subseteq [owner : Workers, token : 1..row.token, question : Questions]
    BY <1>4 DEF LeftBehind
<1>7. \A u \in Workers : MemoryOK(wk'[u], row')
    BY <1>3, <1>5, MemoryKept DEF RIInv
<1>8. TypeOK'
  <2>1. \A u \in Workers : wk'[u].token \in 0..row'.token
    <3>1. \A u \in Workers : wk'[u].token <= row'.token
        BY <1>7 DEF MemoryOK
    <3>2. \A u \in Workers : wk'[u].token \in Nat
        BY <1>5 DEF Worker
    <3> QED  BY <1>1, <3>1, <3>2
  <2>2. late' \subseteq [owner : Workers, token : 1..row'.token, question : Questions]
    BY <1>1, <1>6
  <2> QED  BY <1>1, <1>5, <2>1, <2>2 DEF TypeOK
<1>9. \/ /\ rec.token = 0 /\ rec = Idle
         /\ rec.todo \cup rec.inflight = {}
      \/ /\ rec.token = wk[w].token /\ rec # Idle /\ rec.pc # "idle"
         /\ rec.todo \cup rec.inflight \subseteq wk[w].todo \cup wk[w].inflight
         /\ wk[w].pc \in Gone => rec.pc \in Gone
  <2>1. CASE rec = Idle
    BY <2>1, IdleWorker
  <2>2. CASE rec # Idle
    <3>1. /\ rec.token = wk[w].token /\ rec.pc # "idle"
          /\ rec.todo \cup rec.inflight \subseteq wk[w].todo \cup wk[w].inflight
          /\ (rec.pc \in Early => wk[w].pc \in Early) /\ (rec.pc \in Busy => wk[w].pc \in Busy)
        BY <2>2 DEF Goes
    <3>2. rec.pc \in Pcs
        BY <1>3 DEF Worker
    <3> QED  BY <2>2, <3>1, <3>2 DEF Early, Busy, Gone, Pcs
  <2> QED  BY <2>1, <2>2
<1>10. TokensOK(wk', late')
  <2>1. ASSUME NEW u \in Workers, NEW v \in Workers, wk'[u].token = wk'[v].token, wk'[u].token # 0
        PROVE  u = v
    <3>1. wk[u].token = wk'[u].token /\ wk[v].token = wk'[v].token
        BY <1>5, <1>9, <2>1
    <3> QED  BY <2>1, <3>1 DEF RIInv, TokensOK
  <2>2. ASSUME NEW p \in late', NEW u \in Workers, wk'[u].token = p.token
        PROVE  wk'[u].pc \in Gone
    <3>0. p.token # 0
        BY <1>1, <1>6
    <3>1. wk[u].token = p.token
        BY <1>5, <1>9, <2>2, <3>0
    <3>2. CASE p \in late
      <4>1. wk[u].pc \in Gone
        BY <3>1, <3>2 DEF RIInv, TokensOK
      <4> QED  BY <1>5, <1>9, <2>2, <3>0, <4>1
    <3>3. CASE p \in LeftBehind(w, running)
      <4>1. p.token = wk[w].token /\ running # {}
        BY <3>3 DEF LeftBehind
      <4>2. u = w
        BY <3>0, <3>1, <4>1 DEF RIInv, TokensOK
      <4>3. rec # Idle
        BY <1>5, <2>2, <3>0, <4>2, IdleWorker
      <4> QED  BY <1>5, <4>1, <4>2, <4>3
    <3> QED  BY <3>2, <3>3
  <2> QED  BY <2>1, <2>2 DEF TokensOK
<1>11. QuantumOK(row', wk', late')
  <2>1. ASSUME NEW t \in Nat \ {0}, NEW q \in AskedUnder(t, row', wk', late')
        PROVE  q \in AskedUnder(t, row, wk, late)
    <3>1. CASE q \in {row'.responses[i].question :
                        i \in {i \in DOMAIN row'.responses : row'.responses[i].token = t}}
        BY <1>1, <3>1 DEF AskedUnder
    <3>2. CASE q \in {p.question : p \in {p \in late' : p.token = t}}
      <4>1. PICK p \in late' : p.token = t /\ q = p.question
        BY <3>2
      <4>2. CASE p \in late
        BY <4>1, <4>2 DEF AskedUnder
      <4>3. CASE p \in LeftBehind(w, running)
        <5>1. wk[w].token = t /\ q \in wk[w].inflight
            BY <4>1, <4>3 DEF LeftBehind
        <5> QED  BY <5>1 DEF AskedUnder
      <4> QED  BY <4>2, <4>3
    <3>3. CASE q \in UNION {wk'[u].todo \cup wk'[u].inflight : u \in {u \in Workers : wk'[u].token = t}}
      <4>1. PICK u \in Workers : wk'[u].token = t /\ q \in wk'[u].todo \cup wk'[u].inflight
        BY <3>3
      <4>2. wk[u].token = t /\ q \in wk[u].todo \cup wk[u].inflight
        BY <1>5, <1>9, <2>1, <4>1
      <4> QED  BY <4>2 DEF AskedUnder
    <3> QED  BY <2>1, <3>1, <3>2, <3>3 DEF AskedUnder
  <2>2. \A t \in Nat \ {0} : AskedUnder(t, row', wk', late') \subseteq AskedUnder(t, row, wk, late)
    BY <2>1
  <2> QED  BY <2>2, QuantumKept DEF RIInv
<1>12. PendingHasWork' /\ ResponsesOK(row')
    BY <1>1 DEF RIInv, PendingHasWork, Kept, ResponsesOK
<1> QED  BY <1>7, <1>8, <1>10, <1>11, <1>12 DEF RIInv

-----------------------------------------------------------------------------
(* Claim, load and answer.                                                 *)

LEMMA ClaimStep ==
    ASSUME RIInv, NEW w \in Workers, Claim(w)
    PROVE  RIInv' /\ row'.responses = row.responses
<1> DEFINE rec == [Idle EXCEPT !.pc = IF Expired(row, 0) THEN "taking" ELSE "claimed",
                               !.token = row.token + 1]
<1>1. /\ row \in Row /\ row.token \in Nat /\ wk \in [Workers -> Worker]
      /\ late \subseteq [owner : Workers, token : 1..row.token, question : Questions]
      /\ signals' \in 0..MaxSignals /\ late' = late
      /\ row' = ClaimRow(row, w, 0) /\ wk' = [wk EXCEPT ![w] = rec]
    BY DEF RIInv, TypeOK, Row, Claim, Set
<1>2. /\ row' \in Row /\ row'.token = row.token + 1 /\ row'.responses = row.responses
      /\ row'.status = "running" /\ Answered(row') = Answered(row)
  <2> DEFINE failed == IF row.status = "running" THEN row.failed + 1 ELSE row.failed
             gov == IF row.gov = "delayed" THEN "managed" ELSE row.gov
             end == LeaseFor - 0
  <2>1. row' = [row EXCEPT !.status = "running", !.owner = w, !.token = row.token + 1, !.expires = end,
                           !.failed = failed, !.nextAt = NoTime, !.gov = gov, !.govUntil = NoTime]
    BY <1>1 DEF ClaimRow
  <2>2. /\ end \in Times /\ failed \in Nat /\ gov \in GovStates /\ NoTime \in Times
        /\ row.token + 1 \in Nat
    BY <1>1, LeaseAssumption DEF Row, Times, GovStates
  <2> HIDE DEF failed, gov, end
  <2>3. row' \in Row /\ row'.token = row.token + 1 /\ row'.responses = row.responses
    BY <1>1, <2>1, <2>2 DEF Row, Statuses
  <2>4. row'.status = "running"
    BY <1>1, <2>1 DEF Row
  <2> QED  BY <2>3, <2>4 DEF Answered
<1>3. /\ rec \in Worker /\ rec.token = row.token + 1 /\ rec.pc \in Early /\ rec.pc # "idle"
      /\ rec.todo = {} /\ rec.inflight = {} /\ rec.signal = "none" /\ ~rec.remain
  <2> DEFINE pc == IF Expired(row, 0) THEN "taking" ELSE "claimed"
  <2>1. pc \in Early /\ pc \in Pcs /\ pc # "idle" /\ row.token + 1 \in Nat
    BY <1>1 DEF Early, Pcs
  <2>2. rec = [Idle EXCEPT !.pc = pc, !.token = row.token + 1]
    OBVIOUS
  <2> HIDE DEF rec, pc
  <2> QED  BY <2>1, <2>2 DEF Idle, Worker, Signals
<1> HIDE DEF rec
<1>4. /\ wk' \in [Workers -> Worker] /\ wk'[w] = rec
      /\ \A u \in Workers : u # w => wk'[u] = wk[u]
    BY <1>1, <1>3
<1>5. \A u \in Workers : wk[u].token \in Nat /\ wk[u].token <= row.token
    BY <1>1 DEF RIInv, TypeOK
<1>6. \A i \in DOMAIN row.responses : row.responses[i].token \in 1..row.token
    BY DEF RIInv, ResponsesOK
<1>7. TypeOK'
  <2>1. \A u \in Workers : wk'[u].token \in 0..row'.token
    BY <1>1, <1>2, <1>3, <1>4, <1>5
  <2>2. 1..row.token \subseteq 1..row'.token
    BY <1>1, <1>2
  <2> QED  BY <1>1, <1>2, <1>4, <2>1, <2>2 DEF TypeOK
<1>8. PendingHasWork' /\ ResponsesOK(row')
  <2>1. 1..row.token \subseteq 1..row'.token
    BY <1>1, <1>2
  <2> QED  BY <1>2, <2>1 DEF RIInv, PendingHasWork, ResponsesOK
<1>9. ASSUME NEW u \in Workers PROVE MemoryOK(wk'[u], row')
  <2>1. CASE u = w
    <3>1. rec.token <= row'.token /\ rec.token # 0
        BY <1>1, <1>2, <1>3
    <3>2. \A i \in DOMAIN row'.responses : row'.responses[i].token # rec.token
        BY <1>1, <1>2, <1>3, <1>6
    <3>3. rec.pc \notin Busy
        BY <1>3 DEF Early, Busy
    <3> QED  BY <1>3, <1>4, <2>1, <3>1, <3>2, <3>3 DEF MemoryOK
  <2>2. CASE u # w
    <3>1. MemoryOK(wk[u], row) /\ wk'[u] = wk[u]
        BY <1>4, <2>2 DEF RIInv
    <3>2. wk[u].token <= row'.token /\ wk[u].token # row'.token
        BY <1>1, <1>2, <1>5
    <3> QED  BY <1>2, <3>1, <3>2 DEF MemoryOK
  <2> QED  BY <2>1, <2>2
<1>10. TokensOK(wk', late')
  <2>1. \A u \in Workers : u # w => wk'[u].token # wk'[w].token
    BY <1>1, <1>3, <1>4, <1>5
  <2>2. \A p \in late' : p.token # wk'[w].token
    BY <1>1, <1>3, <1>4
  <2> QED  BY <1>1, <1>4, <2>1, <2>2 DEF RIInv, TokensOK
<1>11. QuantumOK(row', wk', late')
  <2>1. \A t \in Nat \ {0} : AskedUnder(t, row', wk', late') \subseteq AskedUnder(t, row, wk, late)
    BY <1>1, <1>2, <1>3, <1>4 DEF AskedUnder
  <2> QED  BY <2>1, QuantumKept DEF RIInv
<1> QED  BY <1>2, <1>7, <1>8, <1>9, <1>10, <1>11 DEF RIInv

LEMMA LoadStep ==
    ASSUME RIInv, NEW w \in Workers, Load(w), ~wk[w].lost
    PROVE  RIInv' /\ row'.responses = row.responses
<1> DEFINE left == Questions \ Answered(row)
           part == Slice(left)
           rec  == [wk[w] EXCEPT !.pc = "asking", !.todo = part, !.remain = part # left]
<1>1. /\ row \in Row /\ row.token \in Nat /\ wk \in [Workers -> Worker] /\ wk[w] \in Worker
      /\ row' = row /\ late' = late /\ signals' = signals
      /\ wk' = [wk EXCEPT ![w] = rec] /\ wk[w].pc = "claimed"
    BY DEF RIInv, TypeOK, Row, Load, Set
<1>2. part \subseteq left /\ left \subseteq Questions
    BY DEF Slice
<1>3. /\ wk[w].todo = {} /\ wk[w].inflight = {} /\ wk[w].signal = "none"
      /\ \A i \in DOMAIN row.responses : row.responses[i].token # wk[w].token
      /\ wk[w].token # 0 /\ wk[w].token <= row.token
  <2>1. MemoryOK(wk[w], row)
    BY DEF RIInv
  <2>2. wk[w].pc \in Early /\ wk[w].pc # "idle"
    BY <1>1 DEF Early
  <2> QED  BY <2>1, <2>2 DEF MemoryOK
<1>4. /\ rec \in Worker /\ rec.token = wk[w].token /\ rec.pc = "asking" /\ rec.todo = part
      /\ rec.inflight = {} /\ rec.signal = "none" /\ rec.remain = (part # left)
  <2>1. part \subseteq Questions /\ (part # left) \in BOOLEAN
    BY <1>2
  <2> HIDE DEF part, left
  <2> QED  BY <1>1, <1>3, <2>1 DEF Worker, Pcs
<1>5. part \cap Answered(row) = {} /\ (part # left => \E q \in left : q \notin part)
    BY <1>2
<1> HIDE DEF rec
<1>6. /\ wk' \in [Workers -> Worker] /\ wk'[w] = rec
      /\ \A u \in Workers : u # w => wk'[u] = wk[u]
    BY <1>1, <1>4
<1>7. TypeOK' /\ PendingHasWork' /\ ResponsesOK(row')
  <2>1. \A u \in Workers : wk'[u].token = wk[u].token
    BY <1>4, <1>6
  <2> QED  BY <1>1, <1>6, <2>1 DEF RIInv, TypeOK, PendingHasWork
<1>8. ASSUME NEW u \in Workers PROVE MemoryOK(wk'[u], row')
  <2>1. CASE u = w
    <3>1. rec.signal # "none" \/ rec.remain =>
             \E q \in Questions \ Answered(row) : q \notin rec.todo \cup rec.inflight
      <4> HIDE DEF part
      <4> QED  BY <1>4, <1>5
    <3>2. /\ rec.todo \cap rec.inflight = {} /\ (rec.todo \cup rec.inflight) \cap Answered(row) = {}
          /\ rec.token # 0 /\ rec.token <= row.token
          /\ rec.pc # "idle" /\ rec.pc \notin Early
      <4> HIDE DEF part
      <4> QED  BY <1>3, <1>4, <1>5 DEF Early
    <3> QED  BY <1>1, <1>6, <2>1, <3>1, <3>2 DEF MemoryOK
  <2>2. CASE u # w
    BY <1>1, <1>6, <2>2 DEF RIInv
  <2> QED  BY <2>1, <2>2
<1>9. \A p \in late : p.token # wk[w].token
    BY <1>1 DEF RIInv, TokensOK, Gone
<1>10. TokensOK(wk', late')
  <2>1. \A u \in Workers : wk'[u].token = wk[u].token
    BY <1>4, <1>6
  <2> QED  BY <1>1, <1>6, <1>9, <2>1 DEF RIInv, TokensOK
<1>11. QuantumOK(row', wk', late')
  <2> SUFFICES ASSUME IsManaged, NEW t \in Nat \ {0}
               PROVE  Cardinality(AskedUnder(t, row', wk', late')) <= Quantum
    BY DEF QuantumOK
  <2>1. CASE t = wk[w].token
    <3>1. \A u \in Workers : wk'[u].token = t => u = w
      <4>1. \A u \in Workers : wk'[u].token = wk[u].token
        BY <1>4, <1>6
      <4> QED  BY <2>1, <4>1 DEF RIInv, TokensOK
    <3>2. AskedUnder(t, row', wk', late') = part
      <4> HIDE DEF part
      <4>1. {i \in DOMAIN row'.responses : row'.responses[i].token = t} = {}
        BY <1>1, <1>3, <2>1
      <4>2. {p \in late' : p.token = t} = {}
        BY <1>1, <1>9, <2>1
      <4>3. {u \in Workers : wk'[u].token = t} = {w}
        BY <1>4, <1>6, <2>1, <3>1
      <4>4. wk'[w].todo \cup wk'[w].inflight = part
        BY <1>4, <1>6
      <4> QED  BY <4>1, <4>2, <4>3, <4>4 DEF AskedUnder
    <3> HIDE DEF left
    <3> QED  BY <1>2, <3>2, SliceSize
  <2>2. CASE t # wk[w].token
    <3>1. AskedUnder(t, row', wk', late') = AskedUnder(t, row, wk, late)
      <4>1. {u \in Workers : wk'[u].token = t} = {u \in Workers : wk[u].token = t}
        BY <1>4, <1>6
      <4>2. \A u \in {u \in Workers : wk[u].token = t} : wk'[u] = wk[u]
        BY <1>6, <2>2
      <4> QED  BY <1>1, <4>1, <4>2 DEF AskedUnder
    <3> QED  BY <3>1 DEF RIInv, QuantumOK
  <2> QED  BY <2>1, <2>2
<1> QED  BY <1>1, <1>7, <1>8, <1>10, <1>11 DEF RIInv

\* What one more Response does to the row.
LEMMA PersistFacts ==
    ASSUME NEW r \in Row, ResponsesOK(r), NEW lease, lease.token = r.token, r.token # 0,
           NEW q \in Questions, q \notin Answered(r), NEW new, new = PersistRow(r, lease, q)
    PROVE  /\ new \in Row /\ new.status = r.status /\ new.token = r.token
           /\ DOMAIN r.responses \subseteq DOMAIN new.responses
           /\ \A i \in DOMAIN r.responses : new.responses[i] = r.responses[i]
           /\ \A i \in DOMAIN new.responses :
                i \notin DOMAIN r.responses =>
                    new.responses[i].question = q /\ new.responses[i].token = r.token
           /\ ResponsesOK(new) /\ Answered(new) = Answered(r) \cup {q}
<1> DEFINE a == [question |-> q, token |-> r.token]
           s == Append(r.responses, a)
           n == Len(r.responses)
<1>1. r.responses \in Seq(Response) /\ a \in Response /\ r.token \in Nat
    BY DEF Row, Response
<1>2. n \in Nat /\ DOMAIN r.responses = 1..n
    BY <1>1
<1>3. /\ s \in Seq(Response) /\ Len(s) = n + 1 /\ DOMAIN s = 1..(n + 1)
      /\ \A i \in 1..n : s[i] = r.responses[i]
      /\ s[n + 1] = a
  <2> HIDE DEF a
  <2> QED  BY <1>1, <1>2, AppendProperties, LenProperties
<1>4. new = [r EXCEPT !.responses = s]
    BY DEF PersistRow
<1>5. a.question = q /\ a.token = r.token
    OBVIOUS
<1> HIDE DEF a, s
<1>6. new \in Row /\ new.status = r.status /\ new.token = r.token /\ new.responses = s
    BY <1>3, <1>4 DEF Row
<1>7. DOMAIN r.responses \subseteq DOMAIN s /\ \A i \in DOMAIN r.responses : s[i] = r.responses[i]
    BY <1>2, <1>3
<1>8. ASSUME NEW i \in DOMAIN s, i \notin DOMAIN r.responses
      PROVE  s[i].question = q /\ s[i].token = r.token /\ i = n + 1
  <2>1. i = n + 1
    BY <1>2, <1>3, <1>8
  <2> QED  BY <1>3, <1>5, <2>1
<1>9. Answered(new) = Answered(r) \cup {q}
  <2>1. n + 1 \in DOMAIN s /\ s[n + 1].question = q
    BY <1>2, <1>3, <1>5
  <2>2. ASSUME NEW x \in Answered(new) PROVE x \in Answered(r) \cup {q}
    <3>1. PICK i \in DOMAIN s : x = s[i].question
        BY <1>6, <2>2 DEF Answered
    <3>2. CASE i \in DOMAIN r.responses
        BY <1>7, <3>1, <3>2 DEF Answered
    <3>3. CASE i \notin DOMAIN r.responses
        BY <1>8, <3>1, <3>3
    <3> QED  BY <3>2, <3>3
  <2>3. ASSUME NEW x \in Answered(r) PROVE x \in Answered(new)
    <3>1. PICK i \in DOMAIN r.responses : x = r.responses[i].question
        BY <2>3 DEF Answered
    <3> QED  BY <1>6, <1>7, <3>1 DEF Answered
  <2>4. q \in Answered(new)
    BY <1>6, <2>1 DEF Answered
  <2> QED  BY <2>2, <2>3, <2>4
<1>10. ResponsesOK(new)
  <2>1. ASSUME NEW i \in DOMAIN s, NEW j \in DOMAIN s, s[i].question = s[j].question PROVE i = j
    <3>1. \A k \in DOMAIN r.responses : s[k].question # q
        BY <1>7 DEF Answered
    <3>2. CASE i \in DOMAIN r.responses /\ j \in DOMAIN r.responses
        BY <1>7, <2>1, <3>2 DEF ResponsesOK
    <3>3. CASE i \notin DOMAIN r.responses
        BY <1>8, <2>1, <3>1, <3>3
    <3>4. CASE j \notin DOMAIN r.responses
        BY <1>8, <2>1, <3>1, <3>4
    <3> QED  BY <3>2, <3>3, <3>4
  <2>2. ASSUME NEW i \in DOMAIN s PROVE s[i].token \in 1..r.token
    <3>1. r.token \in 1..r.token
        BY <1>1
    <3> QED  BY <1>7, <1>8, <3>1 DEF ResponsesOK
  <2> QED  BY <1>6, <2>1, <2>2 DEF ResponsesOK
<1> QED  BY <1>6, <1>7, <1>8, <1>9, <1>10

Shrunk(old, new) ==
    /\ new.pc = old.pc /\ new.token = old.token /\ new.signal = old.signal /\ new.remain = old.remain
    /\ new.todo \subseteq old.todo /\ new.inflight \subseteq old.inflight
    /\ old = Idle => new = Idle

\* The worker that holds the lease drops q as it is answered, if it still asks.
Dropped(old, new, r, q) ==
    old.token = r.token =>
        /\ old.pc \notin Early
        /\ old.pc \in Busy =>
            /\ q \in old.todo \cup old.inflight
            /\ q \notin new.todo \cup new.inflight

LEMMA AppendStep ==
    ASSUME RIInv, NEW lease, lease.token = row.token, row.token # 0, row.status = "running",
           NEW q \in Questions, q \notin Answered(row), row' = PersistRow(row, lease, q),
           wk' \in [Workers -> Worker],
           \A u \in Workers : Shrunk(wk[u], wk'[u]) /\ Dropped(wk[u], wk'[u], row, q),
           late' \subseteq late, signals' = signals,
           q \in AskedUnder(row.token, row, wk, late)
    PROVE  RIInv'
<1>1. row \in Row /\ ResponsesOK(row) /\ row.token \in Nat
    BY DEF RIInv, TypeOK, Row
<1>2. /\ row' \in Row /\ row'.status = row.status /\ row'.token = row.token
      /\ \A i \in DOMAIN row.responses : row'.responses[i] = row.responses[i]
      /\ \A i \in DOMAIN row'.responses :
            i \notin DOMAIN row.responses =>
                row'.responses[i].question = q /\ row'.responses[i].token = row.token
      /\ ResponsesOK(row') /\ Answered(row') = Answered(row) \cup {q}
  <2> DEFINE new == row'
  <2>1. new = PersistRow(row, lease, q)
    OBVIOUS
  <2> HIDE DEF new
  <2>2. /\ new \in Row /\ new.status = row.status /\ new.token = row.token
        /\ \A i \in DOMAIN row.responses : new.responses[i] = row.responses[i]
        /\ \A i \in DOMAIN new.responses :
              i \notin DOMAIN row.responses =>
                  new.responses[i].question = q /\ new.responses[i].token = row.token
        /\ ResponsesOK(new) /\ Answered(new) = Answered(row) \cup {q}
    BY <1>1, <2>1, PersistFacts
  <2> QED  BY <2>2 DEF new
<1>3. \A u \in Workers : wk'[u].token = wk[u].token /\ wk'[u].pc = wk[u].pc
    BY DEF Shrunk
<1>4. TypeOK' /\ PendingHasWork'
    BY <1>2, <1>3 DEF RIInv, TypeOK, PendingHasWork
<1>5. ASSUME NEW u \in Workers PROVE MemoryOK(wk'[u], row')
  <2> DEFINE old == wk[u]
             new == wk'[u]
  <2>1. MemoryOK(old, row) /\ Shrunk(old, new) /\ Dropped(old, new, row, q)
    BY DEF RIInv
  <2> HIDE DEF old, new
  <2>2. /\ new.token <= row'.token
        /\ IF new.pc = "idle" THEN new = Idle ELSE new.token # 0
        /\ new.todo \cap new.inflight = {}
    BY <1>2, <2>1 DEF MemoryOK, Shrunk
  <2>3. ASSUME new.pc \in Early
        PROVE  /\ new.todo = {} /\ new.inflight = {} /\ new.signal = "none" /\ ~new.remain
               /\ \A i \in DOMAIN row'.responses : row'.responses[i].token # new.token
    <3>1. /\ old.pc \in Early /\ old.token # row.token /\ new.token = old.token
          /\ \A i \in DOMAIN row.responses : row.responses[i].token # old.token
        BY <2>1, <2>3 DEF MemoryOK, Shrunk, Dropped
    <3>2. \A i \in DOMAIN row'.responses : row'.responses[i].token # new.token
        BY <1>2, <3>1
    <3>3. new.todo = {} /\ new.inflight = {} /\ new.signal = "none" /\ ~new.remain
        BY <2>1, <3>1 DEF MemoryOK, Shrunk
    <3> QED  BY <3>2, <3>3
  <2>4. ASSUME new.pc \in Busy, new.token = row'.token
        PROVE  /\ (new.todo \cup new.inflight) \cap Answered(row') = {}
               /\ new.signal # "none" \/ new.remain =>
                    \E x \in Questions \ Answered(row') : x \notin new.todo \cup new.inflight
    <3>1. /\ old.pc \in Busy /\ old.token = row.token
          /\ q \in old.todo \cup old.inflight /\ q \notin new.todo \cup new.inflight
          /\ new.todo \cup new.inflight \subseteq old.todo \cup old.inflight
          /\ new.signal = old.signal /\ new.remain = old.remain
        BY <1>2, <2>1, <2>4 DEF Shrunk, Dropped
    <3>2. /\ (old.todo \cup old.inflight) \cap Answered(row) = {}
          /\ old.signal # "none" \/ old.remain =>
                \E x \in Questions \ Answered(row) : x \notin old.todo \cup old.inflight
        BY <2>1, <3>1 DEF MemoryOK
    <3> QED  BY <1>2, <3>1, <3>2
  <2>5. MemoryOK(new, row')
    BY <2>2, <2>3, <2>4 DEF MemoryOK
  <2> QED  BY <2>5 DEF new
<1>6. TokensOK(wk', late')
    BY <1>3 DEF RIInv, TokensOK
<1>7. QuantumOK(row', wk', late')
  <2>1. ASSUME NEW t \in Nat \ {0}, NEW x \in AskedUnder(t, row', wk', late')
        PROVE  x \in AskedUnder(t, row, wk, late)
    <3>1. CASE x \in {row'.responses[i].question :
                        i \in {i \in DOMAIN row'.responses : row'.responses[i].token = t}}
      <4>1. PICK i \in DOMAIN row'.responses : row'.responses[i].token = t /\ x = row'.responses[i].question
        BY <3>1
      <4>2. CASE i \in DOMAIN row.responses
        BY <1>2, <4>1, <4>2 DEF AskedUnder
      <4>3. CASE i \notin DOMAIN row.responses
        BY <1>2, <4>1, <4>3
      <4> QED  BY <4>2, <4>3
    <3>2. CASE x \in {p.question : p \in {p \in late' : p.token = t}}
        BY <3>2 DEF AskedUnder
    <3>3. CASE x \in UNION {wk'[u].todo \cup wk'[u].inflight : u \in {u \in Workers : wk'[u].token = t}}
      <4>1. PICK u \in Workers : wk'[u].token = t /\ x \in wk'[u].todo \cup wk'[u].inflight
        BY <3>3
      <4>2. wk[u].token = t /\ x \in wk[u].todo \cup wk[u].inflight
        BY <4>1 DEF Shrunk
      <4> QED  BY <4>2 DEF AskedUnder
    <3> QED  BY <2>1, <3>1, <3>2, <3>3 DEF AskedUnder
  <2>2. \A t \in Nat \ {0} : AskedUnder(t, row', wk', late') \subseteq AskedUnder(t, row, wk, late)
    BY <2>1
  <2> QED  BY <2>2, QuantumKept DEF RIInv
<1> QED  BY <1>2, <1>4, <1>5, <1>6, <1>7 DEF RIInv

-----------------------------------------------------------------------------
(* Every step of Next.                                                     *)

Good == RIInv' /\ (row.cancel => row'.responses = row.responses)

LEMMA Facts ==
    ASSUME RIInv
    PROVE  /\ row \in Row /\ row.token \in Nat /\ row.cancel \in BOOLEAN /\ ResponsesOK(row)
           /\ signals \in 0..MaxSignals /\ MaxSignals \in Nat
           /\ wk \in [Workers -> Worker]
           /\ late \subseteq [owner : Workers, token : 1..row.token, question : Questions]
BY RunnerAssumption DEF RIInv, TypeOK, Row

LEMMA WorkerFacts ==
    ASSUME RIInv, NEW w \in Workers
    PROVE  /\ wk[w] \in Worker /\ MemoryOK(wk[w], row) /\ wk[w].pc \in Pcs /\ wk[w].token \in Nat
           /\ wk[w].todo \cap wk[w].inflight = {}
           /\ wk[w].todo \subseteq Questions /\ wk[w].inflight \subseteq Questions
           /\ wk[w].signal \in Signals \cup {"none"}
<1>1. wk[w] \in Worker /\ MemoryOK(wk[w], row)
    BY DEF RIInv, TypeOK
<1> QED  BY <1>1 DEF Worker, MemoryOK

\* A worker's step that leaves no thread behind.
LEMMA Move ==
    ASSUME RIInv, Kept(row, row'), signals' \in 0..MaxSignals, NEW w \in Workers, NEW rec,
           wk[w].pc # "idle", Goes(wk[w], rec), wk' = [wk EXCEPT ![w] = rec], late' = late
    PROVE  Good
<1>1. late' = late \cup LeftBehind(w, {}) /\ {} \in SUBSET wk[w].inflight
    BY DEF LeftBehind
<1>2. RIInv'
    BY <1>1, QuietStep
<1> QED  BY <1>2 DEF Good, Kept

LEMMA StopMove ==
    ASSUME RIInv, Kept(row, row'), signals' \in 0..MaxSignals, NEW w \in Workers,
           wk[w].pc # "idle", Stop(w), late' = late
    PROVE  Good
<1>1. Goes(wk[w], Idle) /\ wk' = [wk EXCEPT ![w] = Idle]
    BY DEF Goes, Stop, Set
<1> QED  BY <1>1, Move

LEMMA GotoMove ==
    ASSUME RIInv, row' = row, signals' = signals, NEW w \in Workers, wk[w].pc # "idle",
           NEW pc \in Pcs, pc # "idle", pc \in Early => wk[w].pc \in Early,
           pc \in Busy => wk[w].pc \in Busy, Goto(w, pc), late' = late
    PROVE  Good
<1> DEFINE rec == [wk[w] EXCEPT !.pc = pc]
<1>1. /\ wk' = [wk EXCEPT ![w] = rec] /\ Kept(row, row') /\ signals' \in 0..MaxSignals
    BY Facts, SettledKeeps DEF Goto, Set
<1>2. /\ rec \in Worker /\ rec.pc = pc /\ rec.token = wk[w].token /\ rec.todo = wk[w].todo
      /\ rec.inflight = wk[w].inflight /\ rec.signal = wk[w].signal /\ rec.remain = wk[w].remain
    BY WorkerFacts DEF Worker
<1> HIDE DEF rec
<1>3. Goes(wk[w], rec)
    BY <1>2, WorkerFacts DEF Goes
<1> QED  BY <1>1, <1>3, Move

\* Cancelling the consumers; persists already in their threads go on.
LEMMA CancelMove ==
    ASSUME RIInv, row' = row, signals' = signals, NEW w \in Workers, wk[w].pc # "idle",
           NEW pc \in Gone, CancelConsumers(w, pc)
    PROVE  Good
<1>1. PICK running \in SUBSET wk[w].inflight :
        /\ late' = late \cup LeftBehind(w, running)
        /\ wk' = [wk EXCEPT ![w] = [wk[w] EXCEPT !.pc = pc, !.todo = {}, !.inflight = {}]]
    BY DEF CancelConsumers, LeftBehind, Set
<1> DEFINE rec == [wk[w] EXCEPT !.pc = pc, !.todo = {}, !.inflight = {}]
<1>2. /\ rec \in Worker /\ rec.pc = pc /\ rec.token = wk[w].token
      /\ rec.todo = {} /\ rec.inflight = {}
    BY WorkerFacts DEF Worker, Gone, Pcs
<1>3. wk' = [wk EXCEPT ![w] = rec]
    BY <1>1
<1> HIDE DEF rec
<1>4. Goes(wk[w], rec)
    BY <1>2 DEF Goes, Gone, Early, Busy
<1>5. Kept(row, row') /\ signals' \in 0..MaxSignals
    BY Facts, SettledKeeps
<1>6. RIInv'
    BY <1>1, <1>2, <1>3, <1>4, <1>5, QuietStep
<1> QED  BY <1>6 DEF Good

\* A step of a worker that asks: one question fewer to take or to answer.
Asks(old, rec) ==
    \E todo, inflight \in SUBSET Questions, stop \in BOOLEAN, signal \in Signals \cup {"none"} :
        /\ todo \cap inflight = {} /\ todo \cup inflight \subseteq old.todo \cup old.inflight
        /\ rec = [old EXCEPT !.todo = todo, !.inflight = inflight, !.stop = stop, !.signal = signal]
        /\ signal # "none" =>
             old.signal # "none" \/ \E q \in old.inflight : q \notin todo \cup inflight

LEMMA AskMove ==
    ASSUME RIInv, row' = row, signals' \in 0..MaxSignals, NEW w \in Workers, wk[w].pc = "asking",
           NEW rec, Asks(wk[w], rec), wk' = [wk EXCEPT ![w] = rec], late' = late
    PROVE  Good
<1>0. PICK todo \in SUBSET Questions, inflight \in SUBSET Questions, stop \in BOOLEAN,
           signal \in Signals \cup {"none"} :
        /\ todo \cap inflight = {} /\ todo \cup inflight \subseteq wk[w].todo \cup wk[w].inflight
        /\ rec = [wk[w] EXCEPT !.todo = todo, !.inflight = inflight, !.stop = stop, !.signal = signal]
        /\ signal # "none" =>
             wk[w].signal # "none" \/ \E q \in wk[w].inflight : q \notin todo \cup inflight
    BY DEF Asks
<1>1. /\ rec \in Worker /\ rec.pc = wk[w].pc /\ rec.token = wk[w].token /\ rec.todo = todo
      /\ rec.inflight = inflight /\ rec.signal = signal /\ rec.remain = wk[w].remain
    BY <1>0, WorkerFacts DEF Worker
<1>2. wk[w].pc \in Busy /\ wk[w].pc \notin Early /\ wk[w].pc # "idle"
    BY DEF Busy, Early
<1>3. Goes(wk[w], rec)
    BY <1>0, <1>1, <1>2 DEF Goes
<1>4. Kept(row, row')
    BY Facts, SettledKeeps
<1> QED  BY <1>2, <1>3, <1>4, Move

LEMMA TakeStep ==
    ASSUME RIInv, NEW w \in Workers, TakeQuestion(w)
    PROVE  Good
<1> DEFINE q == Min(wk[w].todo)
           todo == wk[w].todo \ {q}
           inflight == IF row.cancel THEN wk[w].inflight ELSE wk[w].inflight \cup {q}
           rec == [wk[w] EXCEPT !.todo = todo, !.inflight = inflight, !.stop = row.cancel,
                                !.signal = wk[w].signal]
<1>1. /\ wk[w].pc = "asking" /\ wk[w].todo # {} /\ row' = row /\ late' = late /\ signals' = signals
      /\ wk' = [wk EXCEPT ![w] = [wk[w] EXCEPT !.todo = todo, !.inflight = inflight, !.stop = row.cancel]]
    BY DEF TakeQuestion, Set
<1>2. q \in wk[w].todo
  <2> HIDE DEF q
  <2> QED  BY <1>1, WorkerFacts, MinInSet DEF q
<1>3. [wk[w] EXCEPT !.todo = todo, !.inflight = inflight, !.stop = row.cancel] = rec
  <2> HIDE DEF todo, inflight
  <2> QED  BY WorkerFacts DEF Worker
<1> HIDE DEF q
<1>4. /\ todo \in SUBSET Questions /\ inflight \in SUBSET Questions
      /\ todo \cap inflight = {} /\ todo \cup inflight \subseteq wk[w].todo \cup wk[w].inflight
    BY <1>2, WorkerFacts
<1>5. row.cancel \in BOOLEAN /\ wk[w].signal \in Signals \cup {"none"} /\ signals' \in 0..MaxSignals
    BY <1>1, Facts, WorkerFacts
<1>6. wk' = [wk EXCEPT ![w] = rec]
    BY <1>1, <1>3
<1>7. rec = [wk[w] EXCEPT !.todo = todo, !.inflight = inflight, !.stop = row.cancel,
                          !.signal = wk[w].signal]
    OBVIOUS
<1> HIDE DEF rec, todo, inflight
<1>8. Asks(wk[w], rec)
    BY <1>4, <1>5, <1>7 DEF Asks
<1> QED  BY <1>1, <1>5, <1>6, <1>8, AskMove

\* A question leaves the worker without an answer of its own.
LEMMA DropStep ==
    ASSUME RIInv, NEW w \in Workers, wk[w].pc = "asking", NEW q \in wk[w].inflight,
           row' = row, late' = late, signals' \in 0..MaxSignals,
           NEW stop \in BOOLEAN, NEW signal \in Signals \cup {"none"}, NEW new,
           new = [wk[w] EXCEPT !.inflight = wk[w].inflight \ {q}, !.stop = stop, !.signal = signal],
           wk' = [wk EXCEPT ![w] = new]
    PROVE  Good
<1> DEFINE todo == wk[w].todo
           inflight == wk[w].inflight \ {q}
           rec == [wk[w] EXCEPT !.todo = todo, !.inflight = inflight, !.stop = stop, !.signal = signal]
<1>1. [wk[w] EXCEPT !.inflight = inflight, !.stop = stop, !.signal = signal] = rec
    BY WorkerFacts DEF Worker
<1>2. wk' = [wk EXCEPT ![w] = rec]
    BY <1>1
<1>3. /\ todo \in SUBSET Questions /\ inflight \in SUBSET Questions
      /\ todo \cap inflight = {} /\ todo \cup inflight \subseteq wk[w].todo \cup wk[w].inflight
      /\ \E x \in wk[w].inflight : x \notin todo \cup inflight
    BY WorkerFacts
<1>4. rec = [wk[w] EXCEPT !.todo = todo, !.inflight = inflight, !.stop = stop, !.signal = signal]
    OBVIOUS
<1> HIDE DEF rec, todo, inflight
<1>5. Asks(wk[w], rec)
    BY <1>3, <1>4 DEF Asks
<1> QED  BY <1>2, <1>5, AskMove

\* An answer of a worker that asks: dropped, fenced, or stored.
LEMMA PersistStep ==
    ASSUME RIInv, NEW w \in Workers, NEW q \in Questions, PersistResponse(w, q)
    PROVE  Good
<1>1. wk[w].pc = "asking" /\ q \in wk[w].inflight /\ signals' = signals /\ wk[w].pc # "idle"
    BY DEF PersistResponse
<1>2. CASE ~Holds(w)
  <2>1. CancelConsumers(w, "fenced") /\ row' = row
    BY <1>2 DEF PersistResponse
  <2> QED  BY <1>1, <2>1, CancelMove DEF Gone
<1> DEFINE rec == [wk[w] EXCEPT !.inflight = wk[w].inflight \ {q}]
<1>3. CASE Holds(w) /\ (row.cancel \/ q \in Answered(row))
  <2>1. row' = row /\ late' = late /\ wk' = [wk EXCEPT ![w] = rec]
    BY <1>3 DEF PersistResponse, Set
  <2>2. wk[w].stop \in BOOLEAN /\ wk[w].signal \in Signals \cup {"none"} /\ signals' \in 0..MaxSignals
    BY <1>1, Facts, WorkerFacts DEF Worker
  <2>3. rec = [wk[w] EXCEPT !.inflight = wk[w].inflight \ {q}, !.stop = wk[w].stop,
                            !.signal = wk[w].signal]
    BY WorkerFacts DEF Worker
  <2> HIDE DEF rec
  <2> QED  BY <1>1, <2>1, <2>2, <2>3, DropStep
<1>4. CASE Holds(w) /\ ~row.cancel /\ q \notin Answered(row)
  <2>1. row' = PersistRow(row, LeaseOf(w), q) /\ late' = late /\ wk' = [wk EXCEPT ![w] = rec]
    BY <1>4 DEF PersistResponse, Set
  <2>2. row.status = "running" /\ wk[w].token = row.token /\ LeaseOf(w).token = row.token
    BY <1>4 DEF Holds, Owned, LeaseOf
  <2>3. row.token # 0
    BY <1>1, <2>2, WorkerFacts DEF MemoryOK
  <2>4. /\ rec \in Worker /\ rec.pc = wk[w].pc /\ rec.token = wk[w].token /\ rec.signal = wk[w].signal
        /\ rec.remain = wk[w].remain /\ rec.todo = wk[w].todo /\ rec.inflight = wk[w].inflight \ {q}
    BY WorkerFacts DEF Worker
  <2> HIDE DEF rec
  <2>5. wk' \in [Workers -> Worker] /\ wk'[w] = rec /\ \A u \in Workers : u # w => wk'[u] = wk[u]
    BY <2>1, <2>4, Facts
  <2>6. wk[w] # Idle /\ wk[w].pc \in Busy /\ wk[w].pc \notin Early
    BY <1>1, IdleWorker DEF Busy, Early
  <2>7. q \notin wk[w].todo
    BY <1>1, WorkerFacts
  <2>8. ASSUME NEW u \in Workers
        PROVE  Shrunk(wk[u], wk'[u]) /\ Dropped(wk[u], wk'[u], row, q)
    <3>1. CASE u = w
      <4>1. Shrunk(wk[w], rec)
        BY <2>4, <2>6 DEF Shrunk
      <4>2. Dropped(wk[w], rec, row, q)
        BY <1>1, <2>4, <2>6, <2>7 DEF Dropped
      <4> QED  BY <2>5, <3>1, <4>1, <4>2
    <3>2. CASE u # w
      <4>1. wk[u].token # row.token /\ wk'[u] = wk[u]
        BY <2>2, <2>3, <2>5, <3>2 DEF RIInv, TokensOK
      <4> QED  BY <4>1 DEF Shrunk, Dropped
    <3> QED  BY <3>1, <3>2
  <2>9. q \in AskedUnder(row.token, row, wk, late)
    BY <1>1, <2>2 DEF AskedUnder
  <2>10. RIInv'
    <3> DEFINE lease == LeaseOf(w)
    <3>1. lease.token = row.token /\ row' = PersistRow(row, lease, q)
        BY <2>1, <2>2
    <3> HIDE DEF lease
    <3>2. late' \subseteq late /\ q \notin Answered(row)
        BY <1>4, <2>1
    <3> QED  BY <1>1, <2>2, <2>3, <2>5, <2>8, <2>9, <3>1, <3>2, AppendStep
  <2> QED  BY <1>4, <2>10 DEF Good
<1> QED  BY <1>2, <1>3, <1>4

\* The same for a thread its worker left behind.
LEMMA LateStep ==
    ASSUME RIInv, NEW p \in late, LatePersist(p)
    PROVE  Good
<1>1. late' = late \ {p} /\ wk' = wk /\ signals' = signals /\ p.question \in Questions /\ p.token # 0
  <2>1. p.question \in Questions /\ p.token \in 1..row.token
    BY Facts
  <2> QED  BY <2>1 DEF LatePersist
<1>2. CASE Owned(row, p, 0) /\ ~row.cancel /\ p.question \notin Answered(row)
  <2>1. /\ row' = PersistRow(row, p, p.question) /\ p.token = row.token /\ row.status = "running"
    BY <1>2 DEF LatePersist, Owned
  <2>2. ASSUME NEW u \in Workers
        PROVE  Shrunk(wk[u], wk'[u]) /\ Dropped(wk[u], wk'[u], row, p.question)
    <3>1. wk[u].token = row.token => wk[u].pc \in Gone
        BY <2>1 DEF RIInv, TokensOK
    <3>2. Gone \cap Early = {} /\ Gone \cap Busy = {}
        BY DEF Gone, Early, Busy
    <3> QED  BY <1>1, <3>1, <3>2 DEF Shrunk, Dropped
  <2>3. p.question \in AskedUnder(row.token, row, wk, late)
    BY <2>1 DEF AskedUnder
  <2>4. wk' \in [Workers -> Worker] /\ late' \subseteq late /\ row.token # 0
    BY <1>1, <2>1, Facts
  <2>5. RIInv'
    BY <1>1, <1>2, <2>1, <2>2, <2>3, <2>4, AppendStep
  <2> QED  BY <1>2, <2>5 DEF Good
<1>3. CASE ~(Owned(row, p, 0) /\ ~row.cancel /\ p.question \notin Answered(row))
  <2>1. row' = row
    BY <1>3 DEF LatePersist
  <2>2. TypeOK' /\ PendingHasWork'
    BY <1>1, <2>1 DEF RIInv, TypeOK, PendingHasWork
  <2>3. TokensOK(wk', late')
    BY <1>1 DEF RIInv, TokensOK
  <2>4. \A t \in Nat \ {0} : AskedUnder(t, row', wk', late') \subseteq AskedUnder(t, row, wk, late)
    BY <1>1, <2>1 DEF AskedUnder
  <2>5. QuantumOK(row', wk', late')
    BY <2>4, QuantumKept DEF RIInv
  <2> QED  BY <1>1, <2>1, <2>2, <2>3, <2>5 DEF Good, RIInv
<1> QED  BY <1>2, <1>3

LEMMA SignalStep ==
    ASSUME RIInv, NEW w \in Workers, NEW q \in Questions, NEW s \in Signals, GovernanceSignal(w, q, s)
    PROVE  Good
<1> DEFINE signal == IF Rank[s] > Rank[wk[w].signal] THEN s ELSE wk[w].signal
           new == [wk[w] EXCEPT !.inflight = wk[w].inflight \ {q}, !.stop = TRUE, !.signal = signal]
<1>1. /\ wk[w].pc = "asking" /\ q \in wk[w].inflight /\ row' = row /\ late' = late
      /\ wk' = [wk EXCEPT ![w] = new]
      /\ signals' = signals + 1 /\ signals < MaxSignals
    BY DEF GovernanceSignal, Set
<1>2. signals' \in 0..MaxSignals
    BY <1>1, Facts
<1>3. signal \in Signals \cup {"none"} /\ TRUE \in BOOLEAN
    BY WorkerFacts
<1>4. new = [wk[w] EXCEPT !.inflight = wk[w].inflight \ {q}, !.stop = TRUE, !.signal = signal]
    OBVIOUS
<1> HIDE DEF signal, new
<1> QED  BY <1>1, <1>2, <1>3, <1>4, DropStep

LEMMA CrashStep ==
    ASSUME RIInv, NEW w \in Workers, Crash(w)
    PROVE  Good
<1>1. PICK running \in SUBSET wk[w].inflight : late' = late \cup LeftBehind(w, running)
    BY DEF Crash, LeftBehind
<1>2. wk[w].pc # "idle" /\ row' = row /\ signals' = signals /\ wk' = [wk EXCEPT ![w] = Idle]
    BY DEF Crash, Stop, Set
<1>3. Kept(row, row') /\ signals' \in 0..MaxSignals /\ Goes(wk[w], Idle)
    BY <1>2, Facts, SettledKeeps DEF Goes
<1>4. RIInv'
    BY <1>1, <1>2, <1>3, QuietStep
<1> QED  BY <1>2, <1>4 DEF Good

\* What the worker keeps besides: the flags of its heartbeat and of its decision.
LEMMA FlagStep ==
    ASSUME RIInv, NEW w \in Workers, wk[w].pc # "idle", row' = row, late' = late, signals' = signals,
           NEW pc \in Pcs, pc # "idle", pc \in Early => wk[w].pc \in Early,
           pc \in Busy => wk[w].pc \in Busy, NEW lost \in BOOLEAN, NEW saw \in BOOLEAN,
           NEW rec, rec = [wk[w] EXCEPT !.pc = pc, !.lost = lost, !.saw = saw],
           wk' = [wk EXCEPT ![w] = rec]
    PROVE  Good
<1>1. /\ rec \in Worker /\ rec.pc = pc /\ rec.token = wk[w].token /\ rec.todo = wk[w].todo
      /\ rec.inflight = wk[w].inflight /\ rec.signal = wk[w].signal /\ rec.remain = wk[w].remain
    BY WorkerFacts DEF Worker
<1>2. Goes(wk[w], rec)
    BY <1>1, WorkerFacts DEF Goes
<1>3. Kept(row, row') /\ signals' \in 0..MaxSignals
    BY Facts, SettledKeeps
<1> QED  BY <1>2, <1>3, Move

LEMMA RowMove ==
    ASSUME RIInv, Kept(row, row'), UNCHANGED <<wk, late, signals>>
    PROVE  Good
BY RowStep DEF Good, Kept

LEMMA HeartbeatStep ==
    ASSUME RIInv, NEW w \in Workers, Heartbeat(w)
    PROVE  Good
<1>1. wk[w].pc # "idle" /\ late' = late /\ signals' = signals
    BY DEF Heartbeat
<1>2. CASE row' = RenewRow(row, 0) /\ wk' = wk
  <2>1. Kept(row, row')
    BY <1>2, Facts, TimedKeeps
  <2> QED  BY <1>1, <1>2, <2>1, RowMove
<1>3. CASE row' = row /\ wk' = [wk EXCEPT ![w] = [wk[w] EXCEPT !.lost = TRUE]]
  <2> DEFINE rec == [wk[w] EXCEPT !.lost = TRUE]
  <2>1. /\ rec \in Worker /\ rec.pc = wk[w].pc /\ rec.token = wk[w].token /\ rec.todo = wk[w].todo
        /\ rec.inflight = wk[w].inflight /\ rec.signal = wk[w].signal /\ rec.remain = wk[w].remain
    BY WorkerFacts DEF Worker
  <2>2. wk' = [wk EXCEPT ![w] = rec]
    BY <1>3
  <2> HIDE DEF rec
  <2>3. Goes(wk[w], rec)
    BY <1>1, <2>1, WorkerFacts DEF Goes
  <2>4. Kept(row, row') /\ signals' \in 0..MaxSignals
    BY <1>1, <1>3, Facts, SettledKeeps
  <2> QED  BY <1>1, <2>2, <2>3, <2>4, Move
<1> QED  BY <1>2, <1>3 DEF Heartbeat, Set

LEMMA ReadCancelStep ==
    ASSUME RIInv, NEW w \in Workers, ReadCancel(w)
    PROVE  Good
<1>1. /\ wk[w].pc = "drained" /\ wk[w].pc # "idle" /\ row' = row /\ late' = late /\ signals' = signals
    BY DEF ReadCancel
<1>2. CASE wk[w].lost
  <2>1. Goto(w, "fenced")
    BY <1>2 DEF ReadCancel
  <2> QED  BY <1>1, <2>1, GotoMove DEF Pcs, Early, Busy
<1>3. CASE ~wk[w].lost
  <2> DEFINE rec == [wk[w] EXCEPT !.pc = "deciding", !.saw = row.cancel]
  <2>1. wk' = [wk EXCEPT ![w] = rec]
    BY <1>3 DEF ReadCancel, Set
  <2>2. /\ rec = [wk[w] EXCEPT !.pc = "deciding", !.lost = wk[w].lost, !.saw = row.cancel]
        /\ wk[w].lost \in BOOLEAN /\ row.cancel \in BOOLEAN
    BY Facts, WorkerFacts DEF Worker
  <2>3. /\ "deciding" \in Pcs /\ "deciding" # "idle" /\ "deciding" \notin Early /\ wk[w].pc \in Busy
    BY <1>1 DEF Pcs, Early, Busy
  <2> HIDE DEF rec
  <2> QED  BY <1>1, <2>1, <2>2, <2>3, FlagStep
<1> QED  BY <1>2, <1>3

LEMMA ReleaseStep ==
    ASSUME RIInv, NEW w \in Workers, wk[w].pc = "deciding", NEW new, Holds(w) => Kept(row, new),
           Release(w, new)
    PROVE  Good
<1>1. late' = late /\ signals' = signals /\ wk[w].pc # "idle" /\ signals' \in 0..MaxSignals
    BY Facts DEF Release
<1>2. CASE Holds(w)
  <2>1. row' = new /\ Stop(w) /\ Kept(row, row')
    BY <1>2 DEF Release
  <2> QED  BY <1>1, <2>1, StopMove
<1>3. CASE ~Holds(w)
  <2>1. row' = row /\ Goto(w, "fenced")
    BY <1>3 DEF Release
  <2> QED  BY <1>1, <2>1, GotoMove DEF Pcs, Early, Busy
<1> QED  BY <1>2, <1>3

\* A slice that ends with a signal or a remainder leaves a question open.
LEMMA QuestionLeft ==
    ASSUME RIInv, NEW w \in Workers, wk[w].pc = "deciding", Holds(w),
           wk[w].signal # "none" \/ wk[w].remain
    PROVE  Len(row.responses) < Total
<1>1. wk[w].token = row.token /\ wk[w].pc \in Busy
    BY DEF Holds, Owned, LeaseOf, Busy
<1>2. \E q \in Questions \ Answered(row) : TRUE
    BY <1>1, WorkerFacts DEF MemoryOK
<1> QED  BY <1>2, Facts, AnswerCount

LEMMA EndSteps ==
    ASSUME RIInv, NEW w \in Workers, Defer(w) \/ Exhaust(w) \/ Yield(w)
    PROVE  Good
<1>1. CASE Defer(w)
  <2>1. wk[w].pc = "deciding" /\ wk[w].signal # "none" /\ Release(w, DeferRow(row, DeferFor))
    BY <1>1 DEF Defer
  <2>2. Holds(w) => Kept(row, DeferRow(row, DeferFor))
    BY <2>1, Facts, QuestionLeft, ParkedKeeps
  <2> QED  BY <2>1, <2>2, ReleaseStep
<1>2. CASE Exhaust(w)
  <2>1. wk[w].pc = "deciding" /\ Release(w, ExhaustRow(row))
    BY <1>2 DEF Exhaust
  <2>2. Kept(row, ExhaustRow(row))
    BY Facts, SettledKeeps
  <2> QED  BY <2>1, <2>2, ReleaseStep
<1>3. CASE Yield(w)
  <2>1. wk[w].pc = "deciding" /\ (wk[w].signal # "none" \/ wk[w].remain) /\ Release(w, YieldRow(row))
    BY <1>3 DEF Yield
  <2>2. Holds(w) => Kept(row, YieldRow(row))
    BY <2>1, Facts, QuestionLeft, ParkedKeeps
  <2> QED  BY <2>1, <2>2, ReleaseStep
<1> QED  BY <1>1, <1>2, <1>3

LEMMA FinishSteps ==
    ASSUME RIInv, NEW w \in Workers, Finish(w) \/ FinishCancelled(w) \/ FailAttempt(w)
    PROVE  Good
<1>0. Kept(row, row) /\ Kept(row, CancelledRow(row)) /\ Kept(row, CompletedRow(row)) /\ Kept(row, FailRow(row, 0))
    BY Facts, SettledKeeps, FailKeeps
<1>1. /\ late' = late /\ signals' = signals /\ wk[w].pc # "idle" /\ signals' \in 0..MaxSignals
    BY Facts DEF Finish, FinishCancelled, FailAttempt
<1>2. CASE Finish(w) /\ Stop(w)
  <2>1. row' = row \/ row' = CancelledRow(row) \/ row' = CompletedRow(row)
    BY <1>2 DEF Finish
  <2> QED  BY <1>0, <1>1, <1>2, <2>1, StopMove
<1>3. CASE Finish(w) /\ ~Stop(w)
  <2>1. row' = row /\ Goto(w, "failing")
    BY <1>3 DEF Finish
  <2> QED  BY <1>1, <2>1, GotoMove DEF Pcs, Early, Busy
<1>4. CASE FinishCancelled(w)
  <2>1. Stop(w) /\ (row' = row \/ row' = CancelledRow(row))
    BY <1>4 DEF FinishCancelled
  <2> QED  BY <1>0, <1>1, <2>1, StopMove
<1>5. CASE FailAttempt(w)
  <2>1. Stop(w) /\ (row' = row \/ row' = FailRow(row, 0))
    BY <1>5 DEF FailAttempt
  <2> QED  BY <1>0, <1>1, <2>1, StopMove
<1> QED  BY <1>2, <1>3, <1>4, <1>5

LEMMA WorkerSteps ==
    ASSUME RIInv, NEW w \in Workers, Work(w) \/ Disturb(w)
    PROVE  Good
<1>1. CASE Claim(w)
    BY <1>1, ClaimStep DEF Good
<1>2. CASE Reconciled(w)
  <2>1. wk[w].pc = "taking" /\ Goto(w, "claimed") /\ row' = row /\ late' = late /\ signals' = signals
    BY <1>2 DEF Reconciled
  <2> QED  BY <2>1, GotoMove DEF Pcs, Early, Busy
<1>3. CASE Load(w) /\ wk[w].lost
  <2>1. wk[w].pc = "claimed" /\ Goto(w, "fenced") /\ row' = row /\ late' = late /\ signals' = signals
    BY <1>3 DEF Load
  <2> QED  BY <2>1, GotoMove DEF Pcs, Early, Busy
<1>4. CASE Load(w) /\ ~wk[w].lost
    BY <1>4, LoadStep DEF Good
<1>5. CASE TakeQuestion(w)
    BY <1>5, TakeStep
<1>6. CASE \E q \in Questions : PersistResponse(w, q)
    BY <1>6, PersistStep
<1>7. CASE NoticeLoss(w) \/ GovernanceFenced(w)
  <2>1. /\ wk[w].pc # "idle" /\ CancelConsumers(w, "fenced") /\ row' = row /\ signals' = signals
        /\ "fenced" \in Gone
    BY <1>7 DEF NoticeLoss, GovernanceFenced, Gone
  <2> QED  BY <2>1, CancelMove
<1>8. CASE Drained(w)
  <2>1. wk[w].pc = "asking" /\ Goto(w, "drained") /\ row' = row /\ late' = late /\ signals' = signals
    BY <1>8 DEF Drained
  <2> QED  BY <2>1, GotoMove DEF Pcs, Early, Busy
<1>9. CASE ReadCancel(w)
    BY <1>9, ReadCancelStep
<1>10. CASE Defer(w) \/ Exhaust(w) \/ Yield(w)
    BY <1>10, EndSteps
<1>11. CASE Finish(w) \/ FinishCancelled(w) \/ FailAttempt(w)
    BY <1>11, FinishSteps
<1>12. CASE \E q \in Questions, s \in Signals : GovernanceSignal(w, q, s)
    BY <1>12, SignalStep
<1>13. CASE Raise(w)
  <2>1. /\ wk[w].pc # "idle" /\ CancelConsumers(w, "failing") /\ row' = row /\ signals' = signals
        /\ "failing" \in Gone
    BY <1>13 DEF Raise, Gone
  <2> QED  BY <2>1, CancelMove
<1>14. CASE Heartbeat(w)
    BY <1>14, HeartbeatStep
<1>15. CASE Crash(w)
    BY <1>15, CrashStep
<1> QED  BY <1>1, <1>2, <1>3, <1>4, <1>5, <1>6, <1>7, <1>8, <1>9, <1>10, <1>11, <1>12, <1>13,
            <1>14, <1>15 DEF Work, Disturb

LEMMA Steps ==
    ASSUME RIInv, [Next]_vars
    PROVE  Good
<1>1. CASE \E w \in Workers : Work(w) \/ Disturb(w)
    BY <1>1, WorkerSteps
<1>2. CASE \E p \in late : LatePersist(p)
    BY <1>2, LateStep
<1>3. CASE Reap \/ RequestCancel \/ Tick \/ UNCHANGED vars
  <2>1. UNCHANGED <<wk, late, signals>>
    BY <1>3 DEF Reap, RequestCancel, Tick, vars
  <2>2. /\ Kept(row, row) /\ Kept(row, FailRow(row, 0)) /\ Kept(row, TickRow(row))
        /\ Kept(row, CancelPendingRow(row)) /\ Kept(row, [row EXCEPT !.cancel = TRUE])
    BY Facts, SettledKeeps, FailKeeps, TimedKeeps
  <2>3. \/ row' = row \/ row' = FailRow(row, 0) \/ row' = TickRow(row)
        \/ row' = CancelPendingRow(row) \/ row' = [row EXCEPT !.cancel = TRUE]
    BY <1>3 DEF Reap, RequestCancel, Tick, vars
  <2>4. Kept(row, row')
    BY <2>2, <2>3
  <2> QED  BY <2>1, <2>4, RowMove
<1> QED  BY <1>1, <1>2, <1>3 DEF Next

-----------------------------------------------------------------------------
(* Theorems.                                                               *)

LEMMA Initially ==
    ASSUME Init
    PROVE  RIInv
<1>1. /\ row = NewRow(IsManaged) /\ wk = [w \in Workers |-> Idle] /\ late = {} /\ signals = 0
    BY DEF Init
<1>2. row \in Row /\ row.token = 0 /\ row.responses = <<>> /\ row.status = "pending"
  <2>1. <<>> \in Seq(Response)
    BY EmptySeq
  <2> QED  BY <1>1, <2>1, RunnerAssumption DEF NewRow, Row, Statuses, GovStates, Times
<1>3. DOMAIN row.responses = {} /\ Len(row.responses) = 0
    BY <1>2, EmptySeq
<1>4. wk \in [Workers -> Worker] /\ \A w \in Workers : wk[w] = Idle
    BY <1>1, IdleWorker
<1>5. Total \in Nat /\ Total > 0
  <2>1. Cardinality(Questions) \in Nat /\ Cardinality(Questions) # 0
    BY QuestionAssumption, FS_CardinalityType, FS_EmptySet
  <2> QED  BY <2>1 DEF Total
<1>6. TypeOK /\ PendingHasWork
  <2>1. 0 \in 0..MaxSignals
    BY RunnerAssumption
  <2> QED  BY <1>1, <1>2, <1>3, <1>4, <1>5, <2>1, IdleWorker DEF TypeOK, PendingHasWork
<1>7. \A w \in Workers : MemoryOK(wk[w], row)
    BY <1>2, <1>4, IdleOK
<1>8. TokensOK(wk, late)
    BY <1>1, <1>4, IdleWorker DEF TokensOK
<1>9. QuantumOK(row, wk, late)
  <2>1. \A t \in Nat \ {0} : AskedUnder(t, row, wk, late) = {}
    BY <1>1, <1>3, <1>4, IdleWorker DEF AskedUnder
  <2>2. Cardinality({}) <= Quantum
    BY FS_EmptySet, RunnerAssumption
  <2> QED  BY <2>1, <2>2 DEF QuantumOK
<1>10. ResponsesOK(row)
    BY <1>3 DEF ResponsesOK
<1> QED  BY <1>6, <1>7, <1>8, <1>9, <1>10 DEF RIInv

\* The invariant everything here rests on: no question is answered twice, a
\* token is in one worker's hands or in those of the threads it left behind,
\* and what is asked under a token is at most a quantum.
THEOREM RunnerInvariance == Spec => []RIInv
<1>1. Init => RIInv
    BY Initially
<1>2. RIInv /\ [Next]_vars => RIInv'
    BY Steps DEF Good
<1> QED  BY <1>1, <1>2, PTL DEF Spec

\* A Run that waits to be served always has an unanswered question, whoever
\* parked it: no deferral, yield, retry or reap strands a complete Run.
THEOREM NothingStranded == Spec => []RunnerInv
<1>1. RIInv => RunnerInv
    BY DEF RIInv, RunnerInv
<1> QED  BY <1>1, RunnerInvariance, PTL

\* execute under a lease that is still good asks no question that already has
\* a Response, whatever earlier attempts or late threads stored.
THEOREM AsksOnce == Spec => []NoRepeatedQuestion
<1>1. ASSUME RIInv PROVE NoRepeatedQuestion
  <2> SUFFICES ASSUME NEW w \in Workers, Holds(w), wk[w].pc = "asking"
               PROVE  (wk[w].todo \cup wk[w].inflight) \cap Answered(row) = {}
    BY DEF NoRepeatedQuestion
  <2>1. wk[w].token = row.token /\ wk[w].pc \in Busy
    BY DEF Holds, Owned, LeaseOf, Busy
  <2> QED  BY <1>1, <2>1, WorkerFacts DEF MemoryOK
<1> QED  BY <1>1, RunnerInvariance, PTL

\* Under one lease a managed Run stores at most question_quantum Responses,
\* those of threads that outlived their coroutine included.
THEOREM OneQuantum == Spec => []QuantumRespected
<1>1. ASSUME RIInv PROVE QuantumRespected
  <2> SUFFICES ASSUME IsManaged, NEW t \in 1..row.token
               PROVE  Cardinality({i \in DOMAIN row.responses : row.responses[i].token = t}) <= Quantum
    BY DEF QuantumRespected
  <2> DEFINE I == {i \in DOMAIN row.responses : row.responses[i].token = t}
             A == AskedUnder(t, row, wk, late)
             f == [i \in I |-> row.responses[i].question]
  <2>1. t \in Nat \ {0}
    BY <1>1, Facts
  <2>2. Cardinality(A) <= Quantum
    BY <1>1, <2>1 DEF RIInv, QuantumOK
  <2>3. A \subseteq Questions
    BY <1>1, AskedQuestions DEF RIInv
  <2>4. f \in Injection(I, A)
    <3>1. f \in [I -> A]
        BY DEF AskedUnder
    <3>2. \A i, j \in I : f[i] = f[j] => i = j
        BY <1>1 DEF RIInv, ResponsesOK
    <3> HIDE DEF f, I, A
    <3> QED  BY <3>1, <3>2 DEF Injection, IsInjective
  <2> HIDE DEF I, A, f
  <2>5. IsFiniteSet(A) /\ Cardinality(A) \in Nat
    BY <2>3, QuestionSets
  <2>6. IsFiniteSet(I) /\ Cardinality(I) <= Cardinality(A)
    BY <2>4, <2>5, FS_Injection
  <2>7. Cardinality(I) \in Nat
    BY <2>6, FS_CardinalityType
  <2>8. Cardinality(I) <= Quantum
    BY <2>2, <2>5, <2>6, <2>7, RunnerAssumption
  <2> QED  BY <2>8 DEF I
<1> QED  BY <1>1, RunnerInvariance, PTL

\* persist_response and the threads left behind store nothing once
\* cancellation_requested is set.
THEOREM CancelStopsAnswers == Spec => NoAnswerAfterCancel
<1>1. RIInv /\ [Next]_vars => [row.cancel => row'.responses = row.responses]_vars
    BY Steps DEF Good
<1> QED  BY <1>1, RunnerInvariance, PTL DEF Spec, NoAnswerAfterCancel
=============================================================================
