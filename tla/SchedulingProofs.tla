-------------------------- MODULE SchedulingProofs --------------------------
(***************************************************************************)
(* Proofs about who waits for whom: the row locks of the transactions that *)
(* keep to the lock order (RowLocks), and the order in which Runs are      *)
(* admitted and served (RunScheduling), for every number of sessions,      *)
(* Runs, questions, workers and policy documents.                          *)
(***************************************************************************)
EXTENDS RowLocks, RunScheduling, FiniteSetTheorems, SequenceTheorems,
        WellFoundedInduction, TLAPS

(***************************************************************************)
(* Sequences put together from sequences: FlattenSeq is defined by         *)
(* recursion, and what it returns follows by minimal counterexample.       *)
(***************************************************************************)
LEMMA LeastNat ==
    ASSUME NEW B, B \subseteq Nat, B # {}
    PROVE  \E n \in B : \A m \in B : n <= m
<1>1. \E n \in B : \A m \in B : <<m, n>> \notin OpToRel(<, Nat)
    BY NatLessThanWellFounded, WFMin
<1>2. PICK n \in B : \A m \in B : <<m, n>> \notin OpToRel(<, Nat)
    BY <1>1
<1>3. ASSUME NEW m \in B PROVE n <= m
  <2>1. ~(m < n)
    BY <1>2, <1>3 DEF OpToRel
  <2> QED  BY <2>1
<1> QED  BY <1>3

Flattens(f, seqs, n) ==
    f = [i \in 1..n |-> IF i = 1 THEN seqs[i] ELSE f[i - 1] \o seqs[i]]

LEMMA FlattenExists ==
    ASSUME NEW seqs, NEW n \in Nat
    PROVE  \E f : Flattens(f, seqs, n)
<1> DEFINE Bad == {m \in Nat : ~\E f : Flattens(f, seqs, m)}
<1> SUFFICES ASSUME Bad # {} PROVE FALSE
    OBVIOUS
<1>1. PICK m \in Bad : \A k \in Bad : m <= k
  <2>1. Bad \subseteq Nat
    OBVIOUS
  <2> HIDE DEF Bad
  <2> QED  BY <2>1, LeastNat
<1>2. m # 0
  <2>1. Flattens([i \in 1..0 |-> 0], seqs, 0)
    BY DEF Flattens
  <2> QED  BY <2>1
<1>3. PICK f : Flattens(f, seqs, m - 1)
  <2>1. m - 1 \in Nat /\ ~(m <= m - 1)
    BY <1>2
  <2>2. m - 1 \notin Bad
    BY <1>1, <2>1
  <2> QED  BY <2>1, <2>2
<1> DEFINE g == [i \in 1..m |-> IF i < m THEN f[i]
                                ELSE IF i = 1 THEN seqs[i] ELSE f[i - 1] \o seqs[i]]
<1>4. ASSUME NEW i \in 1..m
      PROVE  g[i] = IF i = 1 THEN seqs[i] ELSE g[i - 1] \o seqs[i]
  <2>1. i # 1 => i - 1 \in 1..m /\ i - 1 < m /\ i - 1 \in 1..(m - 1) /\ g[i - 1] = f[i - 1]
    OBVIOUS
  <2>2. CASE i < m
    <3>1. i \in 1..(m - 1) /\ g[i] = f[i]
        BY <2>2
    <3>2. f[i] = IF i = 1 THEN seqs[i] ELSE f[i - 1] \o seqs[i]
        BY <1>3, <3>1 DEF Flattens
    <3> QED  BY <2>1, <3>1, <3>2
  <2>3. CASE ~(i < m)
    <3>1. g[i] = IF i = 1 THEN seqs[i] ELSE f[i - 1] \o seqs[i]
        BY <2>3
    <3> QED  BY <2>1, <3>1
  <2> QED  BY <2>2, <2>3
<1>5. g = [i \in 1..m |-> g[i]]
    OBVIOUS
<1> HIDE DEF g
<1>6. Flattens(g, seqs, m)
    BY <1>4, <1>5 DEF Flattens
<1> QED  BY <1>6

LEMMA FlattensType ==
    ASSUME NEW S, NEW n \in Nat, NEW seqs \in [1..n -> Seq(S)], NEW f, Flattens(f, seqs, n)
    PROVE  \A i \in 1..n : f[i] \in Seq(S)
<1> DEFINE Bad == {i \in 1..n : f[i] \notin Seq(S)}
<1> SUFFICES ASSUME Bad # {} PROVE FALSE
    OBVIOUS
<1>1. PICK i \in Bad : \A k \in Bad : i <= k
  <2>1. Bad \subseteq Nat
    OBVIOUS
  <2> HIDE DEF Bad
  <2> QED  BY <2>1, LeastNat
<1>2. f[i] = IF i = 1 THEN seqs[i] ELSE f[i - 1] \o seqs[i]
    BY DEF Flattens
<1>3. seqs[i] \in Seq(S) /\ i # 1
    BY <1>2
<1>4. f[i - 1] \in Seq(S)
  <2>1. i - 1 \in 1..n /\ ~(i <= i - 1)
    BY <1>3
  <2>2. i - 1 \notin Bad
    BY <1>1, <2>1
  <2> QED  BY <2>1, <2>2
<1>5. f[i - 1] \o seqs[i] \in Seq(S)
    BY <1>3, <1>4, ConcatProperties
<1> QED  BY <1>2, <1>3, <1>5

LEMMA FlattenSeqType ==
    ASSUME NEW S, NEW n \in Nat, NEW seqs \in [1..n -> Seq(S)]
    PROVE  FlattenSeq(seqs) \in Seq(S)
<1>1. Len(seqs) = n
    OBVIOUS
<1>2. CASE n = 0
  <2>1. seqs = <<>>
    BY <1>2
  <2>2. FlattenSeq(seqs) = seqs
    BY <1>1, <1>2, Zenon DEF FlattenSeq
  <2> QED  BY <2>1, <2>2, EmptySeq
<1>3. CASE n # 0
  <2> DEFINE g == CHOOSE f : Flattens(f, seqs, n)
  <2>1. FlattenSeq(seqs) = g[n]
    BY <1>1, <1>3 DEF FlattenSeq, Flattens
  <2>2. Flattens(g, seqs, n)
    BY FlattenExists
  <2> HIDE DEF g
  <2>3. \A i \in 1..n : g[i] \in Seq(S)
    BY <2>2, FlattensType
  <2> QED  BY <1>3, <2>1, <2>3
<1> QED  BY <1>2, <1>3

(***************************************************************************)
(* Row locks.                                                              *)
(***************************************************************************)
\* The transactions that take the global scope before any second lock.
OrderedKinds == {"reserve", "mark", "finish", "reconcile", "renew", "run_only",
                 "create_run", "apply_policy", "model"}

Tables == {"scope", "bucket", "policy", "model", "run", "reservation", "execution"}
Ids    == Runs \cup Questions \cup {"global", "minute", "active", "model"}
Modes  == {"update", "no key update", "key share"}
Requests == [row : Tables \X Ids, mode : Modes]

\* A lock sequence of theirs: a single lock, or the global scope first.
GlobalFirst(locks) ==
    /\ locks \in Seq(Requests)
    /\ Len(locks) <= 1 \/ locks[1] = Global

LEMMA OrderType ==
    ASSUME NEW S, IsFiniteSet(S), NEW s \in Orders(S)
    PROVE  \E n \in Nat : s \in [1..n -> S]
<1>1. PICK T \in SUBSET S : s \in SetToSeqs(T)
    BY DEF Orders
<1>2. Cardinality(T) \in Nat
    BY FS_Subset, FS_CardinalityType
<1>3. s \in [1..Cardinality(T) -> S]
    BY <1>1 DEF SetToSeqs
<1> QED  BY <1>2, <1>3

LEMMA RequestType ==
    ASSUME NEW kind \in Tables, NEW id \in Ids
    PROVE  /\ ForUpdate(kind, id) \in Requests /\ Updates(kind, id) \in Requests
           /\ KeyShare(kind, id) \in Requests
<1>1. <<kind, id>> \in Tables \X Ids
    OBVIOUS
<1>2. {"update", "no key update", "key share"} \subseteq Modes
    BY DEF Modes
<1> QED  BY <1>1, <1>2 DEF ForUpdate, Updates, KeyShare, Requests

LEMMA RequestTypes ==
    /\ Global \in Requests /\ Bucket \in Requests /\ Policy \in Requests /\ Model \in Requests
    /\ \A r \in Runs : RunRow(r) \in Requests /\ ForUpdate("scope", r) \in Requests
    /\ \A q \in Questions : /\ ForUpdate("reservation", q) \in Requests
                            /\ ForUpdate("execution", q) \in Requests
                            /\ Updates("execution", q) \in Requests
    /\ KeyShare("policy", "active") \in Requests /\ KeyShare("model", "model") \in Requests
<1>1. /\ Tables = {"scope", "bucket", "policy", "model", "run", "reservation", "execution"}
      /\ {"global", "minute", "active", "model"} \subseteq Ids
      /\ Runs \subseteq Ids /\ Questions \subseteq Ids
    BY DEF Tables, Ids
<1>2. Global \in Requests /\ Bucket \in Requests /\ Policy \in Requests /\ Model \in Requests
    BY <1>1, RequestType DEF Global, Bucket, Policy, Model
<1>3. ASSUME NEW r \in Runs
      PROVE  RunRow(r) \in Requests /\ ForUpdate("scope", r) \in Requests
    BY <1>1, RequestType DEF RunRow
<1>4. ASSUME NEW q \in Questions
      PROVE  /\ ForUpdate("reservation", q) \in Requests /\ ForUpdate("execution", q) \in Requests
             /\ Updates("execution", q) \in Requests
    BY <1>1, RequestType
<1>5. KeyShare("policy", "active") \in Requests /\ KeyShare("model", "model") \in Requests
    BY <1>1, RequestType
<1> QED  BY <1>2, <1>3, <1>4, <1>5

LEMMA ReconcileRowsType ==
    ASSUME NEW n \in Nat, NEW qs \in [1..n -> Questions]
    PROVE  ReconcileRows(qs) \in Seq(Requests)
<1> DEFINE rows == [i \in DOMAIN qs |-> <<Bucket, ForUpdate("reservation", qs[i]),
                                          RunRow(RunOf[qs[i]])>>]
<1>1. ASSUME NEW i \in 1..n
      PROVE  <<Bucket, ForUpdate("reservation", qs[i]), RunRow(RunOf[qs[i]])>> \in Seq(Requests)
    BY RequestTypes, LockAssumption
<1>2. rows \in [1..n -> Seq(Requests)]
    BY <1>1
<1>3. FlattenSeq(rows) \in Seq(Requests)
  <2> HIDE DEF rows
  <2> QED  BY <1>2, FlattenSeqType
<1> QED  BY <1>3 DEF ReconcileRows

\* More than one lock, and the global scope first.
Ordered(locks) == locks \in Seq(Requests) /\ Len(locks) >= 2 /\ locks[1] = Global

LEMMA ScopesOrdered ==
    ASSUME NEW r \in Runs
    PROVE  Ordered(LockScopes(r))
<1>1. Global \in Requests /\ ForUpdate("scope", r) \in Requests
    BY RequestTypes
<1> HIDE DEF Global
<1> QED  BY <1>1 DEF LockScopes, Ordered

LEMMA OrderedThen ==
    ASSUME NEW locks, Ordered(locks), NEW rest \in Seq(Requests)
    PROVE  Ordered(locks \o rest)
<1>1. /\ locks \in Seq(Requests) /\ Len(locks) \in Nat /\ Len(rest) \in Nat
      /\ Len(locks) >= 2 /\ locks[1] = Global
    BY LenProperties DEF Ordered
<1>2. /\ locks \o rest \in Seq(Requests)
      /\ Len(locks \o rest) = Len(locks) + Len(rest)
      /\ \A i \in 1 .. Len(locks) + Len(rest) : (locks \o rest)[i] =
                IF i <= Len(locks) THEN locks[i] ELSE rest[i - Len(locks)]
    BY <1>1, ConcatProperties
<1>3. (locks \o rest)[1] = locks[1]
    BY <1>1, <1>2
<1> QED  BY <1>1, <1>2, <1>3 DEF Ordered

LEMMA OrderedGlobalFirst ==
    ASSUME NEW locks, Ordered(locks)
    PROVE  GlobalFirst(locks)
BY DEF Ordered, GlobalFirst

LEMMA OneLock ==
    ASSUME NEW l \in Requests
    PROVE  GlobalFirst(<<l>>)
BY DEF GlobalFirst

LEMMA OrderedLocks ==
    ASSUME NEW kind \in OrderedKinds, NEW locks \in LocksOf(kind)
    PROVE  GlobalFirst(locks)
<1>0. IsFiniteSet(Questions) /\ RunOf \in [Questions -> Runs]
    BY LockAssumption
<1>1. CASE kind = "reserve"
  <2>1. PICK q \in Questions, s \in Orders(Questions) : locks = Reserve(q, s)
    BY <1>1 DEF LocksOf
  <2>2. ReconcileRows(s) \in Seq(Requests) /\ RunOf[q] \in Runs
    BY <1>0, OrderType, ReconcileRowsType
  <2> DEFINE tail == <<Bucket, ForUpdate("execution", q), RunRow(RunOf[q]),
                       KeyShare("policy", "active"), KeyShare("model", "model")>>
  <2>3. tail \in Seq(Requests)
    BY <2>2, RequestTypes
  <2>4. locks = (LockScopes(RunOf[q]) \o ReconcileRows(s)) \o tail
    BY <2>1 DEF Reserve
  <2> HIDE DEF tail
  <2>5. Ordered(LockScopes(RunOf[q]) \o ReconcileRows(s))
    BY <2>2, ScopesOrdered, OrderedThen
  <2> QED  BY <2>3, <2>4, <2>5, OrderedThen, OrderedGlobalFirst
<1>2. CASE kind = "mark"
  <2>1. PICK q \in Questions : locks = MarkSendStarted(q)
    BY <1>2 DEF LocksOf
  <2>2. <<Bucket, ForUpdate("reservation", q), RunRow(RunOf[q]), Updates("execution", q)>> \in Seq(Requests)
    BY <1>0, RequestTypes
  <2> QED  BY <1>0, <2>1, <2>2, ScopesOrdered, OrderedThen, OrderedGlobalFirst DEF MarkSendStarted
<1>3. CASE kind = "finish"
  <2>1. PICK q \in Questions : locks = Finish(q)
    BY <1>3 DEF LocksOf
  <2>2. <<Bucket, ForUpdate("reservation", q), ForUpdate("execution", q)>> \in Seq(Requests)
    BY RequestTypes
  <2> QED  BY <1>0, <2>1, <2>2, ScopesOrdered, OrderedThen, OrderedGlobalFirst DEF Finish
<1>4. CASE kind = "reconcile"
  <2>1. PICK r \in Runs : \E s \in Orders(Asks(r)) : locks = ReconcileRunLease(r, s)
    BY <1>4 DEF LocksOf
  <2>2. PICK s \in Orders(Asks(r)) : locks = ReconcileRunLease(r, s)
    BY <2>1
  <2>3. PICK n \in Nat : s \in [1..n -> Asks(r)]
    BY <1>0, OrderType, FS_Subset DEF Asks
  <2>4. s \in [1..n -> Questions]
    BY <2>3 DEF Asks
  <2>5. ReconcileRows(s) \in Seq(Requests)
    BY <2>4, ReconcileRowsType
  <2> QED  BY <2>2, <2>5, ScopesOrdered, OrderedThen, OrderedGlobalFirst DEF ReconcileRunLease
<1>5. CASE kind = "renew"
  <2>1. PICK r \in Runs : \E s \in Orders(Asks(r)) : locks = RenewRunLease(r, s)
    BY <1>5 DEF LocksOf
  <2>2. PICK s \in Orders(Asks(r)) : locks = RenewRunLease(r, s)
    BY <2>1
  <2>3. PICK n \in Nat : s \in [1..n -> Asks(r)]
    BY <1>0, OrderType, FS_Subset DEF Asks
  <2>4. s \in [1..n -> Questions] /\ DOMAIN s = 1..n
    BY <2>3 DEF Asks
  <2> DEFINE own == [i \in DOMAIN s |-> ForUpdate("reservation", s[i])]
  <2>5. own \in Seq(Requests) /\ Len(own) = n
    BY <2>4, RequestTypes
  <2>6. <<RunRow(r)>> \in Seq(Requests) /\ RunRow(r) \in Requests
    BY RequestTypes
  <2>7. CASE s = <<>>
    <3>1. own = <<>>
        BY <2>7
    <3>2. locks = (<<>> \o <<>>) \o <<RunRow(r)>>
        BY <2>2, <2>7, <3>1 DEF RenewRunLease
    <3>3. <<>> \o <<RunRow(r)>> = <<RunRow(r)>> /\ <<>> \o <<>> = <<>>
        BY <2>6, EmptySeq, ConcatEmptySeq
    <3> QED  BY <2>6, <3>2, <3>3, OneLock
  <2>8. CASE s # <<>>
    <3>1. locks = (LockScopes(r) \o own) \o <<RunRow(r)>>
        BY <2>2, <2>8 DEF RenewRunLease
    <3> HIDE DEF own
    <3> QED  BY <2>5, <2>6, <3>1, ScopesOrdered, OrderedThen, OrderedGlobalFirst
  <2> QED  BY <2>7, <2>8
<1>6. CASE kind = "run_only"
    BY <1>6, RequestTypes, OneLock DEF LocksOf
<1>7. CASE kind = "model"
    BY <1>7, RequestTypes, OneLock DEF LocksOf
<1>8. CASE kind \in {"create_run", "apply_policy"}
  <2>1. locks = <<Global, Model, Policy>> \/ locks = <<Global, Policy>>
    BY <1>8 DEF LocksOf, CreateRunLocks, ApplyPolicyLocks
  <2>2. Global \in Requests /\ Model \in Requests /\ Policy \in Requests
    BY RequestTypes
  <2>3. Ordered(<<Global, Model, Policy>>) /\ Ordered(<<Global, Policy>>)
    BY <2>2 DEF Ordered
  <2> QED  BY <2>1, <2>3, OrderedGlobalFirst
<1> QED  BY <1>1, <1>2, <1>3, <1>4, <1>5, <1>6, <1>7, <1>8 DEF OrderedKinds

\* One holder of the global scope: whoever has a second lock to ask for holds
\* it, and it is exclusive.
HoldsGlobal(s) == session[s].held >= 1 /\ session[s].locks[1] = Global

LockInv ==
    /\ DOMAIN session = Sessions
    /\ \A s \in Sessions : /\ session[s] = [locks |-> session[s].locks, held |-> session[s].held]
                           /\ session[s].held \in Nat
                           /\ GlobalFirst(session[s].locks)
                           /\ session[s].held <= Len(session[s].locks)
    /\ \A s, t \in Sessions : HoldsGlobal(s) /\ HoldsGlobal(t) => s = t

LEMMA LockInvInit == LockInit => LockInv
<1> SUFFICES ASSUME LockInit PROVE LockInv
    OBVIOUS
<1>1. <<>> \in Seq(Requests) /\ Len(<<>>) = 0
    OBVIOUS
<1>2. DOMAIN session = Sessions /\ \A s \in Sessions : session[s] = None
    BY DEF LockInit
<1>3. \A s \in Sessions : session[s].locks = <<>> /\ session[s].held = 0
    BY <1>2 DEF None
<1>4. GlobalFirst(<<>>)
    BY <1>1 DEF GlobalFirst
<1>5. \A s \in Sessions : ~HoldsGlobal(s)
    BY <1>3 DEF HoldsGlobal
<1>6. \A s \in Sessions : session[s] = [locks |-> session[s].locks, held |-> session[s].held]
    BY <1>2, <1>3 DEF None
<1> QED  BY <1>1, <1>2, <1>3, <1>4, <1>5, <1>6 DEF LockInv

LEMMA LockInvStep ==
    ASSUME Kinds \subseteq OrderedKinds, LockInv, [LockNext]_lockVars
    PROVE  LockInv'
<1>1. CASE UNCHANGED lockVars
    BY <1>1 DEF lockVars, LockInv, HoldsGlobal
<1>2. ASSUME NEW s \in Sessions, Begin(s) PROVE LockInv'
  <2>1. PICK locks : /\ GlobalFirst(locks)
                     /\ session' = [session EXCEPT ![s] = [locks |-> locks, held |-> 0]]
    BY <1>2, OrderedLocks DEF Begin
  <2>2. Len(locks) \in Nat
    BY <2>1 DEF GlobalFirst
  <2>3. /\ session'[s] = [locks |-> locks, held |-> 0]
        /\ \A t \in Sessions : t # s => session'[t] = session[t]
        /\ DOMAIN session' = Sessions
    BY <2>1 DEF LockInv
  <2>4. session'[s].locks = locks /\ session'[s].held = 0
    BY <2>3
  <2> QED  BY <2>1, <2>2, <2>3, <2>4 DEF LockInv, HoldsGlobal
<1>3. ASSUME NEW s \in Sessions, Acquire(s) PROVE LockInv'
  <2>1. /\ DOMAIN session' = Sessions
        /\ \A t \in Sessions : t # s => session'[t] = session[t]
        /\ session'[s] = [locks |-> session[s].locks, held |-> session[s].held + 1]
        /\ session[s].held \in Nat /\ GlobalFirst(session[s].locks)
        /\ session[s].held < Len(session[s].locks)
    BY <1>3 DEF Acquire, Pending, LockInv
  <2>2. session'[s].locks = session[s].locks /\ session'[s].held = session[s].held + 1
    BY <2>1
  <2>3. session'[s].held \in Nat /\ session'[s].held <= Len(session'[s].locks)
    BY <2>1, <2>2 DEF GlobalFirst
  <2>4. ASSUME NEW t \in Sessions, t # s, HoldsGlobal(t), session[s].locks[1] = Global
        PROVE  session[s].held >= 1
    <3> SUFFICES ASSUME session[s].held = 0 PROVE FALSE
        BY <2>1
    <3>1. Wanted(s) = Global
        BY <2>4 DEF Wanted
    <3>2. Global \in Held(t)
      <4>1. session[t].held \in Nat
        BY DEF LockInv
      <4>2. 1 \in 1..session[t].held /\ session[t].locks[1] = Global
        BY <2>4, <4>1 DEF HoldsGlobal
      <4> QED  BY <4>2 DEF Held
    <3>3. Conflict(Global, Global)
        BY DEF Conflict, Compatible, Global, ForUpdate
    <3>4. WaitsFor(s, t)
        BY <1>3, <2>4, <3>1, <3>2, <3>3 DEF WaitsFor, Acquire
    <3> QED  BY <1>3, <3>4 DEF Acquire
  <2>5. ASSUME NEW t \in Sessions, NEW u \in Sessions, HoldsGlobal(t)', HoldsGlobal(u)'
        PROVE  t = u
    BY <2>1, <2>2, <2>4, <2>5 DEF LockInv, HoldsGlobal
  <2> QED  BY <2>1, <2>2, <2>3, <2>5 DEF LockInv
<1>4. ASSUME NEW s \in Sessions, Commit(s) PROVE LockInv'
  <2>1. /\ session'[s] = None
        /\ \A t \in Sessions : t # s => session'[t] = session[t]
        /\ DOMAIN session' = Sessions
    BY <1>4 DEF Commit, LockInv
  <2>2. GlobalFirst(<<>>) /\ Len(<<>>) = 0
    BY DEF GlobalFirst
  <2>3. session'[s].locks = <<>> /\ session'[s].held = 0 /\ session'[s] = [locks |-> <<>>, held |-> 0]
    BY <2>1 DEF None
  <2> QED  BY <2>1, <2>2, <2>3 DEF LockInv, HoldsGlobal
<1> QED  BY <1>1, <1>2, <1>3, <1>4 DEF LockNext

\* As long as only transactions run that take the global scope first or have
\* a single lock (every one but question_context and the retries that reset
\* cursors), no set of sessions of any size waits in a circle: PostgreSQL
\* never has to abort one of them.
THEOREM LockOrder ==
    ASSUME Kinds \subseteq OrderedKinds
    PROVE  LockSpec => []NoCircularWait
<1>1. LockInv /\ [LockNext]_lockVars => LockInv'
    BY LockInvStep
<1>2. LockInv => NoCircularWait
  <2> SUFFICES ASSUME LockInv, NEW S \in SUBSET Sessions, S # {}
               PROVE  \E s \in S : \A t \in S : ~WaitsFor(s, t)
    BY DEF NoCircularWait
  <2> SUFFICES ASSUME \A s \in S : \E t \in S : WaitsFor(s, t)
               PROVE  FALSE
    OBVIOUS
  <2>1. ASSUME NEW s \in S, NEW t \in S, WaitsFor(s, t) PROVE HoldsGlobal(t)
    <3>1. session[t].held \in Nat /\ session[t].held # 0
      <4>1. session[t].held \in Nat
        BY DEF LockInv
      <4>2. PICK l : l \in Held(t)
        BY <2>1 DEF WaitsFor
      <4> QED  BY <4>1, <4>2 DEF Held
    <3>2. Pending(t)
      <4>1. PICK u \in S : WaitsFor(t, u)
        OBVIOUS
      <4> QED  BY <4>1 DEF WaitsFor
    <3>3. session[t].locks \in Seq(Requests) /\ Len(session[t].locks) \in Nat
        BY LenProperties DEF LockInv, GlobalFirst
    <3>4. ~(Len(session[t].locks) <= 1)
        BY <3>1, <3>2, <3>3 DEF Pending
    <3>5. session[t].locks[1] = Global
        BY <3>4 DEF LockInv, GlobalFirst
    <3> QED  BY <3>1, <3>5 DEF HoldsGlobal
  <2>2. PICK s \in S : TRUE
    OBVIOUS
  <2>3. PICK t \in S : WaitsFor(s, t)
    OBVIOUS
  <2>4. PICK u \in S : WaitsFor(t, u)
    OBVIOUS
  <2>5. t # u
    BY <2>4 DEF WaitsFor
  <2> QED  BY <2>1, <2>3, <2>4, <2>5 DEF LockInv
<1> QED  BY <1>1, <1>2, LockInvInit, PTL DEF LockSpec

(***************************************************************************)
(* Scheduling.  Rows and workers, and what compressing the keys keeps.     *)
(***************************************************************************)
Live == [state   : {"pending", "running", "expired", "done"},
         version : Nat,
         key     : Nat,
         created : Nat,
         delayed : BOOLEAN,
         failed  : Nat,
         left    : Int,
         corrupt : BOOLEAN]

Rows == [SchedRuns -> Live \cup {Absent}]

WorkerStates == {[pc |-> "reap"], [pc |-> "scan"], [pc |-> "redis"]}
                \cup [pc : {"claim", "takeover", "slice"}, run : SchedRuns]

SchedTypes ==
    /\ versions \in Seq(Docs) /\ current \in 1..Len(versions)
    /\ bucket \in Seq(Nat) /\ Len(bucket) = Len(versions)
    /\ queue \in Rows
    /\ \A r \in SchedRuns : queue[r].state # "absent" => queue[r].version \in 1..Len(versions)
    /\ admission \in [SchedRuns -> Int]
    /\ worker \in [SchedWorkers -> WorkerStates]
    /\ corrupted \in Nat
    /\ passed \in [SchedRuns -> [SchedRuns -> Nat]]

\* The same row up to its key.
Same(a, b) ==
    /\ a.state = b.state
    /\ a.state # "absent" => /\ a.version = b.version /\ a.delayed = b.delayed
                             /\ a.failed = b.failed /\ a.left = b.left
                             /\ a.corrupt = b.corrupt

LEMMA RowFields ==
    ASSUME NEW row \in Live \cup {Absent}
    PROVE  /\ row.state = "absent" => row = Absent
           /\ row.state # "absent" => row \in Live
           /\ row.state \in {"absent", "pending", "running", "expired", "done"}
BY DEF Live, Absent

LEMMA KeysFinite ==
    ASSUME NEW rows \in Rows, NEW P \in SUBSET SchedRuns
    PROVE  IsFiniteSet({rows[r].key : r \in P})
<1>1. IsFiniteSet(P)
    BY SchedulingAssumption, FS_Subset
<1> DEFINE K == {rows[r].key : r \in P}
           f == [r \in P |-> rows[r].key]
<1>2. f \in Surjection(P, K)
    BY DEF Surjection
<1> HIDE DEF K, f
<1>3. IsFiniteSet(K)
    BY <1>1, <1>2, FS_Surjection
<1> QED  BY <1>3 DEF K

\* Compressing the keys keeps the rows and the order of their keys.
LEMMA RankOrder ==
    ASSUME NEW rows \in Rows, NEW r \in Present(rows), NEW x \in Present(rows)
    PROVE  /\ Rank(rows, rows[r].key) \in Nat
           /\ rows[r].key < rows[x].key => Rank(rows, rows[r].key) < Rank(rows, rows[x].key)
           /\ rows[r].key = rows[x].key => Rank(rows, rows[r].key) = Rank(rows, rows[x].key)
<1> DEFINE Below(k) == {rows[y].key : y \in {y \in Present(rows) : rows[y].key < k}}
           a == rows[r].key
           b == rows[x].key
<1>1. a \in Nat /\ b \in Nat /\ \A y \in Present(rows) : rows[y].key \in Nat
  <2>1. \A y \in Present(rows) : y \in SchedRuns /\ rows[y] \in Live
    BY RowFields DEF Present, Rows
  <2> QED  BY <2>1 DEF Live
<1>2. \A k : IsFiniteSet(Below(k)) /\ Cardinality(Below(k)) \in Nat
  <2> SUFFICES ASSUME NEW k PROVE IsFiniteSet(Below(k))
    BY FS_CardinalityType
  <2>1. {y \in Present(rows) : rows[y].key < k} \in SUBSET SchedRuns
    BY DEF Present
  <2> QED  BY <2>1, KeysFinite
<1>3. Rank(rows, a) = Cardinality(Below(a)) /\ Rank(rows, b) = Cardinality(Below(b))
    BY DEF Rank
<1>4. ASSUME a < b PROVE Rank(rows, a) < Rank(rows, b)
  <2>1. a \notin Below(a) /\ a \in Below(b) /\ Below(a) \subseteq Below(b)
    BY <1>1, <1>4
  <2> HIDE DEF Below, a, b
  <2>2. Below(a) \cup {a} \subseteq Below(b)
    BY <2>1
  <2>3. Cardinality(Below(a) \cup {a}) = Cardinality(Below(a)) + 1
    BY <1>2, <2>1, FS_AddElement
  <2>4. Cardinality(Below(a) \cup {a}) <= Cardinality(Below(b))
    BY <1>2, <2>2, FS_Subset
  <2> QED  BY <1>2, <1>3, <2>3, <2>4
<1> QED  BY <1>2, <1>3, <1>4

LEMMA RankedRows ==
    ASSUME NEW rows \in Rows
    PROVE  /\ Ranked(rows) \in Rows
           /\ \A r \in SchedRuns : Same(rows[r], Ranked(rows)[r])
           /\ \A r, x \in Present(rows) :
                (rows[r].key < rows[x].key) <=> (Ranked(rows)[r].key < Ranked(rows)[x].key)
<1>1. ASSUME NEW r \in SchedRuns
      PROVE  Ranked(rows)[r] \in Live \cup {Absent} /\ Same(rows[r], Ranked(rows)[r])
  <2>1. CASE rows[r].state = "absent"
    <3>1. Ranked(rows)[r] = Absent
        BY <2>1 DEF Ranked
    <3> QED  BY <2>1, <3>1 DEF Same, Absent
  <2>2. CASE rows[r].state # "absent"
    <3>1. rows[r] \in Live /\ r \in Present(rows)
        BY <2>2, RowFields DEF Rows, Present
    <3>2. Rank(rows, rows[r].key) \in Nat
        BY <3>1, RankOrder
    <3>3. Ranked(rows)[r] = [rows[r] EXCEPT !.key = Rank(rows, rows[r].key)]
        BY <2>2, <3>1 DEF Ranked, Live
    <3> QED  BY <3>1, <3>2, <3>3 DEF Live, Same
  <2> QED  BY <2>1, <2>2
<1>2. Ranked(rows) \in Rows
    BY <1>1 DEF Rows, Ranked
<1>3. ASSUME NEW r \in Present(rows)
      PROVE  /\ Ranked(rows)[r].key = Rank(rows, rows[r].key)
             /\ rows[r].key \in Nat
  <2>1. rows[r] \in Live /\ r \in SchedRuns /\ rows[r].state # "absent"
    BY RowFields DEF Rows, Present
  <2>2. Ranked(rows)[r] = [rows[r] EXCEPT !.key = Rank(rows, rows[r].key)]
    BY <2>1 DEF Ranked, Live
  <2> QED  BY <2>1, <2>2 DEF Live
<1>4. ASSUME NEW r \in Present(rows), NEW x \in Present(rows)
      PROVE  (rows[r].key < rows[x].key) <=> (Ranked(rows)[r].key < Ranked(rows)[x].key)
  <2> DEFINE a == rows[r].key
             b == rows[x].key
             A == Rank(rows, rows[r].key)
             B == Rank(rows, rows[x].key)
  <2>1. a \in Nat /\ b \in Nat /\ A \in Nat /\ B \in Nat
    BY <1>3, RankOrder
  <2>2. (a < b => A < B) /\ (b < a => B < A) /\ (a = b => A = B)
    BY RankOrder
  <2>3. (a < b) <=> (A < B)
    <3> HIDE DEF a, b, A, B
    <3> QED  BY <2>1, <2>2
  <2> QED  BY <1>3, <2>3
<1> QED  BY <1>1, <1>2, <1>4

LEMMA SmallestSubset ==
    ASSUME NEW S, IsFiniteSet(S), NEW B, B \subseteq SUBSET S, B # {}
    PROVE  \E T \in B : \A U \in B : ~(U \subseteq T /\ U # T)
<1>1. IsWellFoundedOn(StrictSubsetOrdering(S), FiniteSubsetsOf(S))
    BY FS_StrictSubsetOrderingWellFounded
<1>2. FiniteSubsetsOf(S) = SUBSET S
    BY FS_FiniteSubsetsOfFinite
<1>3. \E T \in B : \A U \in B : <<U, T>> \notin StrictSubsetOrdering(S)
    BY <1>1, <1>2, WFMin
<1> QED  BY <1>3 DEF StrictSubsetOrdering

LEMMA MaxExists ==
    ASSUME NEW S, IsFiniteSet(S), S \subseteq Nat, S # {}
    PROVE  \E m \in S : \A k \in S : k <= m
<1> DEFINE Bad == {T \in SUBSET S : T # {} /\ ~\E m \in T : \A k \in T : k <= m}
<1> SUFFICES ASSUME Bad # {} PROVE FALSE
    OBVIOUS
<1>1. PICK T \in Bad : \A U \in Bad : ~(U \subseteq T /\ U # T)
  <2>1. Bad \subseteq SUBSET S
    OBVIOUS
  <2>2. Bad # {} /\ IsFiniteSet(S)
    OBVIOUS
  <2> HIDE DEF Bad
  <2>3. \E T \in Bad : \A U \in Bad : ~(U \subseteq T /\ U # T)
    BY ONLY <2>1, <2>2, SmallestSubset
  <2> QED  BY ONLY <2>3
<1>2. PICK x \in T : TRUE
    OBVIOUS
<1>3. T \ {x} # {}
    BY <1>2
<1>4. T \ {x} \notin Bad
    BY <1>1, <1>2
<1>5. PICK m \in T \ {x} : \A k \in T \ {x} : k <= m
    BY <1>3, <1>4
<1>6. x \in Nat /\ m \in Nat /\ \A k \in T : k \in Nat
    OBVIOUS
<1>7. CASE x <= m
    BY <1>5, <1>7
<1>8. CASE ~(x <= m)
  <2>1. \A k \in T : k <= x
    BY <1>5, <1>6, <1>8
  <2> QED  BY <2>1
<1> QED  BY <1>7, <1>8

\* The clock is never behind a key, and ahead of every one when it is fine.
LEMMA NowLater ==
    ASSUME queue \in Rows, NEW now \in Now
    PROVE  /\ now \in Nat /\ \A r \in Present(queue) : queue[r].key <= now
           /\ CoarseClock = FALSE => \A r \in Present(queue) : queue[r].key < now
<1> DEFINE keys == {queue[r].key : r \in Present(queue)} \cup {0}
           last == CHOOSE k \in keys : \A l \in keys : l <= k
<1>1. \A r \in Present(queue) : queue[r].key \in Nat
  <2>1. \A r \in Present(queue) : queue[r] \in Live
    BY RowFields DEF Present, Rows
  <2> QED  BY <2>1 DEF Live
<1>2. IsFiniteSet(keys) /\ keys \subseteq Nat /\ keys # {}
  <2>1. Present(queue) \in SUBSET SchedRuns
    BY DEF Present
  <2>2. IsFiniteSet({queue[r].key : r \in Present(queue)})
    BY <2>1, KeysFinite
  <2> QED  BY <1>1, <2>2, FS_AddElement
<1>3. last \in keys /\ \A l \in keys : l <= last
  <2> HIDE DEF keys
  <2> QED  BY <1>2, MaxExists
<1>4. now \in {last + 1} \cup (IF CoarseClock THEN {last} ELSE {})
    BY DEF Now
<1>5. last \in Nat
    BY <1>2, <1>3
<1> HIDE DEF last
<1>6. now \in Nat /\ last <= now /\ (CoarseClock = FALSE => now = last + 1)
    BY <1>4, <1>5
<1>7. \A r \in Present(queue) : queue[r].key <= last
    BY <1>3
<1> QED  BY <1>1, <1>5, <1>6, <1>7

(***************************************************************************)
(* Steps of the scheduler.  A worker owns the Run of its slice; a corrupt  *)
(* ledger is never in a slice nor in a row that waits to be executed.      *)
(***************************************************************************)
Owning == {"takeover", "slice"}

Owned(rows, wk) ==
    /\ \A w \in SchedWorkers : wk[w].pc \in Owning => rows[wk[w].run].state = "running"
    /\ \A w, u \in SchedWorkers :
        wk[w].pc \in Owning /\ wk[u].pc \in Owning /\ wk[w].run = wk[u].run => w = u
    /\ \A w \in SchedWorkers : wk[w].pc = "slice" => ~rows[wk[w].run].corrupt
    /\ \A r \in SchedRuns : rows[r].state = "pending" => ~rows[r].corrupt

\* The workers that may still claim x on what they saw earlier.
Waiting(wk, x) ==
    {w \in SchedWorkers : wk[w].pc = "redis" \/ (wk[w].pc = "claim" /\ wk[w].run = x)}

\* What a row goes through between its admission and its end, but for claims:
\* a row that was expired has failed once more, and one that yields goes
\* behind the others.
Move(a, b) ==
    \/ b = a
    \/ /\ a \in Live /\ b \in Live /\ a.state # "done"
       /\ b.key = a.key \/ (a.state = "running" /\ a.key <= b.key)
       /\ b.version = a.version
       /\ IF a.state = "expired"
          THEN b.failed = a.failed + 1 /\ b.state \in {"pending", "done"}
          ELSE b.failed = a.failed

\* No two Runs have the same key.
Distinct(rows) ==
    \A r, x \in Present(rows) : rows[r].key = rows[x].key => r = x

\* One row at most takes a new key, the present time.
Rekeyed(rows) ==
    \/ \A r \in Present(rows) : rows[r].key = queue[r].key
    \/ \E c \in SchedRuns : /\ rows[c].key \in Now
                            /\ \A r \in Present(rows) \ {c} : rows[r].key = queue[r].key

Moves(rows) ==
    /\ rows \in Rows /\ SetQueue(rows, {})
    /\ \A r \in SchedRuns : Move(queue[r], rows[r])
    /\ Owned(rows, worker') /\ Rekeyed(rows)

Calm ==
    /\ worker' \in [SchedWorkers -> WorkerStates]
    /\ \A x \in SchedRuns : Waiting(worker', x) \subseteq Waiting(worker, x)
    /\ UNCHANGED <<versions, current, admission>>

LEMMA WorkerTypes ==
    /\ AtReap \in WorkerStates /\ [pc |-> "scan"] \in WorkerStates /\ [pc |-> "redis"] \in WorkerStates
    /\ \A pc \in {"claim", "takeover", "slice"}, r \in SchedRuns : [pc |-> pc, run |-> r] \in WorkerStates
    /\ \A ws \in WorkerStates :
        /\ ws.pc \in {"reap", "scan", "redis", "claim", "takeover", "slice"}
        /\ ws.pc \in {"claim", "takeover", "slice"} => ws = [pc |-> ws.pc, run |-> ws.run] /\ ws.run \in SchedRuns
    /\ AtReap.pc = "reap"
BY DEF WorkerStates, AtReap

\* A worker goes on in another state and nobody else does.
LEMMA WorkerGoes ==
    ASSUME SchedTypes, NEW w \in SchedWorkers, NEW ws \in WorkerStates,
           worker' = [worker EXCEPT ![w] = ws]
    PROVE  /\ worker' \in [SchedWorkers -> WorkerStates]
           /\ worker'[w] = ws /\ \A u \in SchedWorkers : u # w => worker'[u] = worker[u]
           /\ ws.pc \in {"reap", "scan", "takeover", "slice"} =>
                \A x \in SchedRuns : Waiting(worker', x) = Waiting(worker, x) \ {w}
<1>1. /\ worker' \in [SchedWorkers -> WorkerStates]
      /\ worker'[w] = ws /\ \A u \in SchedWorkers : u # w => worker'[u] = worker[u]
    BY DEF SchedTypes
<1> QED  BY <1>1 DEF Waiting

LEMMA ReapMoves ==
    ASSUME SchedTypes, Owned(queue, worker), NEW w \in SchedWorkers, Reap(w)
    PROVE  (\E rows : Moves(rows)) /\ Calm
<1> DEFINE rows == [r \in SchedRuns |-> IF r \in ExpiredRuns THEN Failed(queue[r]) ELSE queue[r]]
<1>0. RunAttempts \in Nat \ {0} /\ queue \in Rows
    BY SchedulingAssumption DEF SchedTypes
<1>1. ASSUME NEW r \in ExpiredRuns
      PROVE  /\ rows[r] \in Live /\ Move(queue[r], rows[r]) /\ queue[r].state = "expired"
             /\ rows[r].key = queue[r].key
             /\ rows[r].state \in {"pending", "done"} /\ ~rows[r].corrupt
  <2>1. queue[r] \in Live /\ queue[r].state = "expired" /\ r \in SchedRuns /\ ~queue[r].corrupt
    BY <1>0, RowFields DEF ExpiredRuns, Rows, Reap
  <2>2. rows[r] = [queue[r] EXCEPT !.failed = queue[r].failed + 1,
                        !.state = IF queue[r].failed + 1 >= RunAttempts THEN "done" ELSE "pending",
                        !.delayed = queue[r].failed + 1 < RunAttempts]
    BY <2>1 DEF Failed, Live
  <2> DEFINE st == IF queue[r].failed + 1 >= RunAttempts THEN "done" ELSE "pending"
             dl == queue[r].failed + 1 < RunAttempts
             f == queue[r].failed + 1
  <2>a. st \in {"pending", "done"} /\ dl \in BOOLEAN
    OBVIOUS
  <2>b. f \in Nat /\ f = queue[r].failed + 1
    BY <2>1 DEF Live
  <2>c. rows[r] = [queue[r] EXCEPT !.failed = f, !.state = st, !.delayed = dl]
    BY <2>2
  <2> HIDE DEF st, dl, f, rows
  <2>3. /\ rows[r].failed = queue[r].failed + 1 /\ rows[r].state \in {"pending", "done"}
        /\ rows[r].key = queue[r].key /\ rows[r].version = queue[r].version
        /\ rows[r].corrupt = queue[r].corrupt /\ rows[r] \in Live
    BY <2>1, <2>a, <2>b, <2>c DEF Live
  <2> QED  BY <2>1, <2>3 DEF Move
<1>2. ASSUME NEW r \in SchedRuns, r \notin ExpiredRuns
      PROVE  rows[r] = queue[r] /\ queue[r].state # "expired"
    BY <1>2 DEF ExpiredRuns
<1>3. rows \in Rows /\ SetQueue(rows, {})
  <2>1. \A r \in SchedRuns : rows[r] \in Live \cup {Absent}
    BY <1>0, <1>1, <1>2 DEF Rows
  <2> QED  BY <2>1 DEF Rows, Reap
<1> HIDE DEF rows
<1>4. \A r \in SchedRuns : Move(queue[r], rows[r])
    BY <1>1, <1>2 DEF Move
<1>5. /\ worker' = [worker EXCEPT ![w] = [pc |-> "scan"]] /\ [pc |-> "scan"] \in WorkerStates
      /\ [pc |-> "scan"].pc = "scan" /\ UNCHANGED <<versions, current, admission>>
    BY WorkerTypes DEF Reap
<1>6. /\ worker' \in [SchedWorkers -> WorkerStates] /\ worker'[w].pc = "scan"
      /\ \A u \in SchedWorkers : u # w => worker'[u] = worker[u]
      /\ \A x \in SchedRuns : Waiting(worker', x) \subseteq Waiting(worker, x)
  <2> DEFINE ws == [pc |-> "scan"]
  <2>1. ws \in WorkerStates /\ ws.pc = "scan" /\ worker' = [worker EXCEPT ![w] = ws]
    BY <1>5
  <2> HIDE DEF ws
  <2>2. \A x \in SchedRuns : Waiting(worker', x) = Waiting(worker, x) \ {w}
    BY <2>1, WorkerGoes
  <2>3. /\ worker' \in [SchedWorkers -> WorkerStates] /\ worker'[w] = ws
        /\ \A u \in SchedWorkers : u # w => worker'[u] = worker[u]
    BY <2>1, WorkerGoes
  <2> QED  BY <2>1, <2>2, <2>3
<1>7. \A u \in SchedWorkers : worker[u].pc \in Owning => worker[u].run \in SchedRuns
    BY WorkerTypes DEF Owning, SchedTypes
<1>8. Owned(rows, worker')
  <2>1. \A u \in SchedWorkers : worker'[u].pc \in Owning =>
            worker'[u] = worker[u] /\ worker[u].run \in SchedRuns
                /\ rows[worker[u].run] = queue[worker[u].run]
    BY <1>2, <1>6, <1>7 DEF Owned, Owning, ExpiredRuns
  <2>2. \A r \in SchedRuns : rows[r].state = "pending" => ~rows[r].corrupt
    BY <1>1, <1>2 DEF Owned
  <2> QED  BY <2>1, <2>2 DEF Owned, Owning
<1>9. Moves(rows)
  <2>1. Rekeyed(rows)
    BY <1>1, <1>2 DEF Rekeyed, Present
  <2> QED  BY <1>3, <1>4, <1>8, <2>1 DEF Moves
<1> QED  BY <1>5, <1>6, <1>9 DEF Calm

\* A worker that ends its slice or its takeover leaves a row that is no longer
\* running.
LEMMA Leaves ==
    ASSUME SchedTypes, Owned(queue, worker), NEW w \in SchedWorkers, worker[w].pc \in Owning,
           NEW row \in Live, Move(queue[worker[w].run], row), row.state = "pending" => ~row.corrupt,
           row.key \in Now \/ row.key = queue[worker[w].run].key,
           SetQueue([queue EXCEPT ![worker[w].run] = row], {}),
           worker' = [worker EXCEPT ![w] = AtReap],
           UNCHANGED <<versions, current, admission>>
    PROVE  (\E rows : Moves(rows)) /\ Calm
<1> DEFINE r == worker[w].run
           rows == [queue EXCEPT ![r] = row]
<1>1. r \in SchedRuns /\ queue \in Rows
    BY WorkerTypes DEF SchedTypes, Owning
<1>2. /\ rows \in Rows /\ rows[r] = row
      /\ \A x \in SchedRuns : x # r => rows[x] = queue[x]
    BY <1>1 DEF Rows
<1>3. SetQueue(rows, {})
    OBVIOUS
<1>4. Move(queue[r], row) /\ (row.key \in Now \/ row.key = queue[r].key)
    OBVIOUS
<1> HIDE DEF rows
<1>5. \A x \in SchedRuns : Move(queue[x], rows[x])
    BY <1>2, <1>4 DEF Move
<1>6. /\ worker' \in [SchedWorkers -> WorkerStates] /\ worker'[w].pc = "reap"
      /\ \A u \in SchedWorkers : u # w => worker'[u] = worker[u]
      /\ \A x \in SchedRuns : Waiting(worker', x) \subseteq Waiting(worker, x)
  <2>1. AtReap \in WorkerStates /\ AtReap.pc = "reap"
    BY WorkerTypes
  <2> HIDE DEF AtReap
  <2>2. \A x \in SchedRuns : Waiting(worker', x) = Waiting(worker, x) \ {w}
    BY <2>1, WorkerGoes
  <2>3. /\ worker' \in [SchedWorkers -> WorkerStates] /\ worker'[w] = AtReap
        /\ \A u \in SchedWorkers : u # w => worker'[u] = worker[u]
    BY <2>1, WorkerGoes
  <2> QED  BY <2>1, <2>2, <2>3
<1>7. ASSUME NEW u \in SchedWorkers, worker'[u].pc \in Owning
      PROVE  /\ worker'[u] = worker[u] /\ worker[u].run \in SchedRuns
             /\ rows[worker[u].run] = queue[worker[u].run]
  <2>1. u # w /\ worker'[u] = worker[u]
    BY <1>6, <1>7 DEF Owning
  <2>2. worker[u].run # r
    BY <1>7, <2>1 DEF Owned
  <2>3. worker[u].run \in SchedRuns
    BY <1>7, <2>1, WorkerTypes DEF SchedTypes, Owning
  <2> QED  BY <1>2, <2>1, <2>2, <2>3
<1>8. \A x \in SchedRuns : rows[x].state = "pending" => ~rows[x].corrupt
    BY <1>2 DEF Owned
<1> HIDE DEF r
<1>9. Owned(rows, worker')
    BY <1>7, <1>8 DEF Owned, Owning
<1>10. Moves(rows)
  <2>1. Rekeyed(rows)
    BY <1>1, <1>2, <1>4 DEF Rekeyed, Present
  <2> QED  BY <1>2, <1>3, <1>5, <1>9, <2>1 DEF Moves
<1> QED  BY <1>6, <1>10 DEF Calm

LEMMA OwnedRow ==
    ASSUME SchedTypes, Owned(queue, worker), NEW w \in SchedWorkers, worker[w].pc \in Owning
    PROVE  /\ worker[w].run \in SchedRuns /\ queue[worker[w].run] \in Live
           /\ queue[worker[w].run].state = "running"
           /\ worker[w].pc = "slice" => ~queue[worker[w].run].corrupt
<1>1. worker[w].run \in SchedRuns
    BY WorkerTypes DEF SchedTypes, Owning
<1>2. queue[worker[w].run].state = "running" /\ queue[worker[w].run] \in Live \cup {Absent}
    BY <1>1 DEF Owned, SchedTypes, Rows
<1> QED  BY <1>1, <1>2, RowFields DEF Owned

LEMMA SliceMoves ==
    ASSUME SchedTypes, Owned(queue, worker), NEW w \in SchedWorkers, Slice(w)
    PROVE  (\E rows : Moves(rows)) /\ Calm
<1> DEFINE r == worker[w].run
           Row(left, st, k) == [queue[r] EXCEPT !.left = left, !.state = st, !.key = k]
<1>1. worker[w].pc \in Owning /\ worker[w].pc = "slice"
    BY DEF Slice, Owning
<1>2. r \in SchedRuns /\ queue[r] \in Live /\ queue[r].state = "running" /\ ~queue[r].corrupt
    BY <1>1, OwnedRow
<1>3. queue \in Rows /\ r \in Present(queue) /\ queue[r].key \in Nat
    BY <1>2 DEF SchedTypes, Present, Live
<1>4. PICK left \in Int, st \in {"done", "pending"}, k \in Now \cup {queue[r].key} :
          SetQueue([queue EXCEPT ![r] = Row(left, st, k)], {})
  <2>1. CASE queue[r].left = 1
    <3>1. SetQueue([queue EXCEPT ![r].left = 0, ![r].state = "done"], {})
        BY <2>1 DEF Slice
    <3>2. [queue EXCEPT ![r].left = 0, ![r].state = "done"]
              = [queue EXCEPT ![r] = Row(0, "done", queue[r].key)]
        BY <1>2, <1>3 DEF Rows, Live
    <3> HIDE DEF Row
    <3>3. SetQueue([queue EXCEPT ![r] = Row(0, "done", queue[r].key)], {})
        BY <3>1, <3>2
    <3>4. 0 \in Int /\ "done" \in {"done", "pending"} /\ queue[r].key \in Now \cup {queue[r].key}
        OBVIOUS
    <3> QED  BY ONLY <3>3, <3>4, Zenon
  <2>2. CASE queue[r].left # 1
    <3>1. PICK now \in Now :
              SetQueue([queue EXCEPT ![r].left = @ - 1, ![r].state = "pending", ![r].key = now], {})
        BY <2>2 DEF Slice
    <3>2. [queue EXCEPT ![r].left = @ - 1, ![r].state = "pending", ![r].key = now]
              = [queue EXCEPT ![r] = Row(queue[r].left - 1, "pending", now)]
        BY <1>2, <1>3 DEF Rows, Live
    <3>3. queue[r].left - 1 \in Int
        BY <1>2 DEF Live
    <3> QED  BY <3>1, <3>2, <3>3
  <2> QED  BY <2>1, <2>2
<1>5. /\ worker' = [worker EXCEPT ![w] = AtReap] /\ UNCHANGED <<versions, current, admission>>
    BY DEF Slice
<1>6. k \in Nat /\ queue[r].key <= k
  <2>1. CASE k \in Now
    BY <1>3, <2>1, NowLater
  <2>2. CASE k = queue[r].key
    BY <1>3, <2>2
  <2> QED  BY <1>4, <2>1, <2>2
<1>7. PICK row : row = Row(left, st, k)
    OBVIOUS
<1>8. SetQueue([queue EXCEPT ![r] = row], {})
    BY <1>4, <1>7
<1>9. /\ row \in Live /\ row.key = k /\ row.version = queue[r].version
      /\ row.failed = queue[r].failed /\ row.corrupt = queue[r].corrupt
    BY <1>2, <1>4, <1>6, <1>7 DEF Live
<1> HIDE DEF Row
<1>10. Move(queue[r], row)
    BY <1>2, <1>6, <1>9 DEF Move
<1>11. row.key \in Now \/ row.key = queue[r].key
    BY <1>4, <1>9
<1> QED  BY <1>1, <1>2, <1>5, <1>8, <1>9, <1>10, <1>11, Leaves

LEMMA DeferMoves ==
    ASSUME SchedTypes, Owned(queue, worker), NEW w \in SchedWorkers, Defer(w)
    PROVE  (\E rows : Moves(rows)) /\ Calm
<1> DEFINE r == worker[w].run
           row == [queue[r] EXCEPT !.state = "pending", !.delayed = TRUE]
<1>1. worker[w].pc \in Owning /\ worker[w].pc = "slice"
    BY DEF Defer, Owning
<1>2. r \in SchedRuns /\ queue[r] \in Live /\ queue[r].state = "running" /\ ~queue[r].corrupt
    BY <1>1, OwnedRow
<1>3. SetQueue([queue EXCEPT ![r] = row], {})
  <2>1. [queue EXCEPT ![r].state = "pending", ![r].delayed = TRUE] = [queue EXCEPT ![r] = row]
    BY <1>2 DEF SchedTypes, Rows, Live
  <2> QED  BY <2>1 DEF Defer
<1>4. /\ worker' = [worker EXCEPT ![w] = AtReap] /\ UNCHANGED <<versions, current, admission>>
    BY DEF Defer
<1>5. /\ row \in Live /\ row.key = queue[r].key /\ row.version = queue[r].version
      /\ row.failed = queue[r].failed /\ row.corrupt = queue[r].corrupt
    BY <1>2 DEF Live
<1> HIDE DEF row
<1>6. Move(queue[r], row)
    BY <1>2, <1>5 DEF Move
<1> QED  BY <1>1, <1>2, <1>3, <1>4, <1>5, <1>6, Leaves

LEMMA DieMoves ==
    ASSUME SchedTypes, Owned(queue, worker), NEW w \in SchedWorkers, Die(w)
    PROVE  (\E rows : Moves(rows)) /\ Calm /\ corrupted' \in Nat
<1> DEFINE r == worker[w].run
<1>1. worker[w].pc \in Owning
    BY DEF Die, Owning
<1>2. r \in SchedRuns /\ queue[r] \in Live /\ queue[r].state = "running"
    BY <1>1, OwnedRow
<1>3. PICK bad \in {0, 1} :
            /\ corrupted' = corrupted + bad
            /\ SetQueue([queue EXCEPT ![r].state = "expired", ![r].corrupt = @ \/ bad = 1], {})
    BY DEF Die
<1> DEFINE cr == queue[r].corrupt \/ bad = 1
           row == [queue[r] EXCEPT !.state = "expired", !.corrupt = cr]
<1>4. cr \in BOOLEAN
    OBVIOUS
<1>5. SetQueue([queue EXCEPT ![r] = row], {})
  <2>1. [queue EXCEPT ![r].state = "expired", ![r].corrupt = @ \/ bad = 1] = [queue EXCEPT ![r] = row]
    BY <1>2 DEF SchedTypes, Rows, Live
  <2> QED  BY <1>3, <2>1
<1>6. /\ worker' = [worker EXCEPT ![w] = AtReap] /\ UNCHANGED <<versions, current, admission>>
    BY DEF Die
<1> HIDE DEF cr
<1>7. /\ row \in Live /\ row.key = queue[r].key /\ row.version = queue[r].version
      /\ row.failed = queue[r].failed /\ row.state = "expired"
    BY <1>2, <1>4 DEF Live
<1> HIDE DEF row
<1>8. Move(queue[r], row)
    BY <1>2, <1>7 DEF Move
<1>9. corrupted' \in Nat
    BY <1>3 DEF SchedTypes
<1> QED  BY <1>1, <1>2, <1>5, <1>6, <1>7, <1>8, <1>9, Leaves

\* The displaced lease is reconciled: the Run goes on, or ends if its ledger
\* is corrupt.
LEMMA TakeoverMoves ==
    ASSUME SchedTypes, Owned(queue, worker), NEW w \in SchedWorkers, ReconcileTakeover(w)
    PROVE  /\ \/ \E rows : Moves(rows)
              \/ UNCHANGED <<queue, passed>> /\ Owned(queue, worker')
           /\ Calm
<1> DEFINE r == worker[w].run
<1>1. worker[w].pc \in Owning /\ worker[w].pc = "takeover"
    BY DEF ReconcileTakeover, Owning
<1>2. r \in SchedRuns /\ queue[r] \in Live /\ queue[r].state = "running"
    BY <1>1, OwnedRow
<1>3. UNCHANGED <<versions, current, admission>>
    BY DEF ReconcileTakeover
<1>4. CASE queue[r].corrupt
  <2> DEFINE row == [queue[r] EXCEPT !.state = "done"]
  <2>1. SetQueue([queue EXCEPT ![r].state = "done"], {}) /\ worker' = [worker EXCEPT ![w] = AtReap]
    BY <1>4 DEF ReconcileTakeover
  <2>2. [queue EXCEPT ![r].state = "done"] = [queue EXCEPT ![r] = row]
    BY <1>2 DEF SchedTypes, Rows, Live
  <2>3. /\ row \in Live /\ row.key = queue[r].key /\ row.version = queue[r].version
        /\ row.failed = queue[r].failed /\ row.state = "done"
    BY <1>2 DEF Live
  <2>4. SetQueue([queue EXCEPT ![r] = row], {})
    BY <2>1, <2>2
  <2> HIDE DEF row
  <2>5. Move(queue[r], row)
    BY <1>2, <2>3 DEF Move
  <2> QED  BY <1>1, <1>2, <1>3, <2>1, <2>3, <2>4, <2>5, Leaves
<1>5. CASE ~queue[r].corrupt
  <2>1. worker' = [worker EXCEPT ![w].pc = "slice"] /\ UNCHANGED <<queue, passed>>
    BY <1>5 DEF ReconcileTakeover
  <2> DEFINE ws == [pc |-> "slice", run |-> r]
  <2>2. worker[w] = [pc |-> "takeover", run |-> r] /\ worker \in [SchedWorkers -> WorkerStates]
    BY <1>1, WorkerTypes DEF SchedTypes
  <2>3. worker' = [worker EXCEPT ![w] = ws]
    <3>1. [worker[w] EXCEPT !.pc = "slice"] = ws
        BY <2>2
    <3>2. worker' = [worker EXCEPT ![w] = [worker[w] EXCEPT !.pc = "slice"]]
        BY <2>1
    <3> QED  BY <3>1, <3>2
  <2>4. ws \in WorkerStates /\ ws.pc = "slice" /\ ws.run = r
    BY <1>2, WorkerTypes
  <2> HIDE DEF ws
  <2>5. \A x \in SchedRuns : Waiting(worker', x) = Waiting(worker, x) \ {w}
    BY <2>3, <2>4, WorkerGoes
  <2>6. /\ worker' \in [SchedWorkers -> WorkerStates] /\ worker'[w] = ws
        /\ \A u \in SchedWorkers : u # w => worker'[u] = worker[u]
    BY <2>3, <2>4, WorkerGoes
  <2>7. Owned(queue, worker')
    BY <1>1, <1>2, <1>5, <2>4, <2>6 DEF Owned, Owning
  <2> QED  BY <1>3, <2>1, <2>5, <2>6, <2>7 DEF Calm
<1> QED  BY <1>4, <1>5

LEMMA DelayMoves ==
    ASSUME SchedTypes, Owned(queue, worker), NEW r \in SchedRuns, DelayOver(r)
    PROVE  (\E rows : Moves(rows)) /\ Calm
<1> DEFINE row == [queue[r] EXCEPT !.delayed = FALSE]
           rows == [queue EXCEPT ![r] = row]
<1>1. queue[r].state = "pending" /\ queue[r] \in Live \cup {Absent} /\ queue \in Rows
    BY DEF DelayOver, SchedTypes, Rows
<1>2. queue[r] \in Live
    BY <1>1, RowFields
<1>3. SetQueue(rows, {})
  <2>1. [queue EXCEPT ![r].delayed = FALSE] = rows
    BY <1>1, <1>2 DEF Rows, Live
  <2> QED  BY <2>1 DEF DelayOver
<1>4. /\ row \in Live /\ row.key = queue[r].key /\ row.version = queue[r].version
      /\ row.failed = queue[r].failed /\ row.state = "pending" /\ row.corrupt = queue[r].corrupt
    BY <1>1, <1>2 DEF Live
<1> HIDE DEF row
<1>5. rows \in Rows /\ rows[r] = row /\ \A x \in SchedRuns : x # r => rows[x] = queue[x]
    BY <1>1, <1>4 DEF Rows
<1> HIDE DEF rows
<1>6. \A x \in SchedRuns : Move(queue[x], rows[x])
    BY <1>1, <1>2, <1>4, <1>5 DEF Move
<1>7. worker' = worker /\ UNCHANGED <<versions, current, admission>>
    BY DEF DelayOver
<1>8. \A w \in SchedWorkers : worker[w].pc \in Owning =>
            worker[w].run \in SchedRuns /\ rows[worker[w].run] = queue[worker[w].run]
    BY <1>1, <1>5, OwnedRow
<1>9. Owned(rows, worker)
    BY <1>1, <1>4, <1>5, <1>8 DEF Owned, Owning
<1>10. Moves(rows)
  <2>1. Rekeyed(rows)
    BY <1>4, <1>5 DEF Rekeyed, Present
  <2> QED  BY <1>3, <1>5, <1>6, <1>7, <1>9, <2>1 DEF Moves
<1> QED  BY <1>7, <1>10 DEF Calm, SchedTypes

\* A Run is claimed: its key is the latest, and it is running.
Claims(w, r, now, rows) ==
    /\ now \in Now /\ r \in SchedRuns /\ w \in Waiting(worker, r)
    /\ Ready(queue[r])
    /\ rows \in Rows /\ SetQueue(rows, {r})
    /\ rows[r] \in Live /\ queue[r] \in Live
    /\ rows[r].state = "running" /\ rows[r].key = now /\ rows[r].version = queue[r].version
    /\ rows[r].failed = IF queue[r].state = "expired" THEN queue[r].failed + 1
                        ELSE queue[r].failed
    /\ \A x \in SchedRuns : x # r => rows[x] = queue[x]
    /\ Owned(rows, worker')
    /\ \A x \in SchedRuns : Waiting(worker', x) = Waiting(worker, x) \ {w}
    /\ worker' \in [SchedWorkers -> WorkerStates]
    /\ UNCHANGED <<versions, current, admission>>

LEMMA ClaimSteps ==
    ASSUME SchedTypes, Owned(queue, worker), NEW w \in SchedWorkers, ClaimFound(w)
    PROVE  \/ UNCHANGED <<queue, passed>> /\ Owned(queue, worker') /\ Calm
           \/ \E r, now, rows : Claims(w, r, now, rows)
<1> DEFINE r == worker[w].run
<1>1. /\ worker[w].pc = "claim" /\ r \in SchedRuns /\ worker[w] = [pc |-> "claim", run |-> r]
      /\ worker \in [SchedWorkers -> WorkerStates] /\ queue \in Rows
    BY WorkerTypes DEF ClaimFound, SchedTypes
<1>2. UNCHANGED <<versions, current, admission>> /\ w \in Waiting(worker, r)
    BY <1>1 DEF ClaimFound, Waiting
<1>3. CASE ~Ready(queue[r])
  <2>1. worker' = [worker EXCEPT ![w] = AtReap] /\ UNCHANGED <<queue, passed>>
    BY <1>3 DEF ClaimFound
  <2>2. AtReap \in WorkerStates /\ AtReap.pc = "reap"
    BY WorkerTypes
  <2> HIDE DEF AtReap
  <2>3. \A x \in SchedRuns : Waiting(worker', x) = Waiting(worker, x) \ {w}
    BY <2>1, <2>2, WorkerGoes
  <2>4. /\ worker' \in [SchedWorkers -> WorkerStates] /\ worker'[w] = AtReap
        /\ \A u \in SchedWorkers : u # w => worker'[u] = worker[u]
    BY <2>1, <2>2, WorkerGoes
  <2>5. Owned(queue, worker')
    BY <2>2, <2>4 DEF Owned, Owning
  <2> QED  BY <1>2, <2>1, <2>3, <2>4, <2>5 DEF Calm
<1>4. CASE Ready(queue[r])
  <2> DEFINE pc == IF queue[r].state = "expired" THEN "takeover" ELSE "slice"
             ws == [pc |-> pc, run |-> r]
             fl == IF queue[r].state = "expired" THEN queue[r].failed + 1 ELSE queue[r].failed
  <2>1. PICK now \in Now :
            SetQueue([queue EXCEPT ![r] =
                      [queue[r] EXCEPT !.state = "running", !.key = now,
                                       !.failed = IF queue[r].state = "expired" THEN @ + 1 ELSE @]], {r})
    BY <1>4 DEF ClaimFound
  <2>2. queue[r] \in Live /\ queue[r].state \in {"pending", "expired"} /\ now \in Nat
    <3>1. queue[r] \in Live \cup {Absent} /\ queue[r].state \in {"pending", "expired"}
        BY <1>1, <1>4 DEF Rows, Ready
    <3> QED  BY <1>1, <3>1, RowFields, NowLater
  <2>3. fl \in Nat
    BY <2>2 DEF Live
  <2> DEFINE row == [queue[r] EXCEPT !.state = "running", !.key = now, !.failed = fl]
             rows == [queue EXCEPT ![r] = row]
  <2>4. SetQueue(rows, {r})
    <3>1. [queue[r] EXCEPT !.state = "running", !.key = now,
                           !.failed = IF queue[r].state = "expired" THEN @ + 1 ELSE @] = row
        BY <2>2 DEF Live
    <3> QED  BY <2>1, <3>1
  <2>5. /\ row \in Live /\ row.state = "running" /\ row.key = now
        /\ row.version = queue[r].version /\ row.failed = fl /\ row.corrupt = queue[r].corrupt
    <3> HIDE DEF fl
    <3> QED  BY <2>2, <2>3 DEF Live
  <2> HIDE DEF row
  <2>6. rows \in Rows /\ rows[r] = row /\ \A x \in SchedRuns : x # r => rows[x] = queue[x]
    BY <1>1, <2>5 DEF Rows
  <2> HIDE DEF rows
  <2>7. worker' = [worker EXCEPT ![w] = ws]
    <3>1. worker' = [worker EXCEPT ![w].pc = pc]
        BY <1>4 DEF ClaimFound
    <3> HIDE DEF pc
    <3>2. [worker[w] EXCEPT !.pc = pc] = ws
        BY <1>1
    <3>3. worker' = [worker EXCEPT ![w] = [worker[w] EXCEPT !.pc = pc]]
        BY <3>1
    <3> QED  BY <3>2, <3>3
  <2>8. ws \in WorkerStates /\ ws.pc = pc /\ ws.run = r /\ pc \in Owning
        /\ pc \in {"takeover", "slice"} /\ (pc = "slice" => queue[r].state = "pending")
    BY <1>1, <2>2, WorkerTypes DEF Owning
  <2> HIDE DEF ws, pc
  <2>9. \A x \in SchedRuns : Waiting(worker', x) = Waiting(worker, x) \ {w}
    BY <2>7, <2>8, WorkerGoes
  <2>10. /\ worker' \in [SchedWorkers -> WorkerStates] /\ worker'[w] = ws
         /\ \A u \in SchedWorkers : u # w => worker'[u] = worker[u]
    BY <2>7, <2>8, WorkerGoes
  <2>11. ASSUME NEW u \in SchedWorkers, u # w, worker'[u].pc \in Owning
         PROVE  /\ worker'[u] = worker[u] /\ worker[u].run \in SchedRuns /\ worker[u].run # r
                /\ rows[worker[u].run] = queue[worker[u].run]
    <3>1. worker'[u] = worker[u] /\ worker[u].pc \in Owning
        BY <2>10, <2>11
    <3>2. worker[u].run \in SchedRuns /\ queue[worker[u].run].state = "running"
        BY <3>1, OwnedRow
    <3> QED  BY <2>2, <2>6, <3>1, <3>2
  <2>12. Owned(rows, worker')
    <3>1. ASSUME NEW u \in SchedWorkers, worker'[u].pc \in Owning
          PROVE  /\ rows[worker'[u].run].state = "running"
                 /\ worker'[u].pc = "slice" => ~rows[worker'[u].run].corrupt
      <4>1. CASE u = w
        <5>1. worker'[u].run = r /\ worker'[u].pc = pc /\ rows[r] = row
            BY <2>6, <2>8, <2>10, <4>1
        <5>2. pc = "slice" => ~queue[r].corrupt
            BY <1>1, <2>8 DEF Owned
        <5> HIDE DEF r
        <5> QED  BY <2>5, <5>1, <5>2
      <4>2. CASE u # w
        BY <2>11, <3>1, <4>2 DEF Owned, Owning
      <4> QED  BY <4>1, <4>2
    <3>2. ASSUME NEW u \in SchedWorkers, NEW v \in SchedWorkers, worker'[u].pc \in Owning,
                 worker'[v].pc \in Owning, worker'[u].run = worker'[v].run
          PROVE  u = v
        BY <2>8, <2>10, <2>11, <3>2 DEF Owned
    <3>3. \A x \in SchedRuns : rows[x].state = "pending" => ~rows[x].corrupt
        BY <2>5, <2>6 DEF Owned
    <3> QED  BY <3>1, <3>2, <3>3 DEF Owned, Owning
  <2>13. Claims(w, r, now, rows)
    BY <1>1, <1>2, <1>4, <2>2, <2>4, <2>5, <2>6, <2>9, <2>10, <2>12 DEF Claims, fl
  <2> QED  BY <2>13
<1> QED  BY <1>3, <1>4

\* A worker that is not in a slice stays out of one.
LEMMA StillOwned ==
    ASSUME Owned(queue, worker), NEW w \in SchedWorkers, worker'[w].pc \notin Owning,
           \A u \in SchedWorkers : u # w => worker'[u] = worker[u]
    PROVE  Owned(queue, worker')
BY DEF Owned, Owning

LEMMA DeliverSteps ==
    ASSUME SchedTypes, Owned(queue, worker), NEW w \in SchedWorkers, Deliver(w)
    PROVE  UNCHANGED <<queue, passed>> /\ Owned(queue, worker') /\ Calm
<1>1. UNCHANGED <<queue, passed, versions, current, admission>> /\ worker[w].pc = "redis"
    BY DEF Deliver
<1>2. PICK ws \in WorkerStates : worker' = [worker EXCEPT ![w] = ws] /\ ws.pc \in {"reap", "claim"}
  <2>1. \A r \in Present(queue) : [pc |-> "claim", run |-> r] \in WorkerStates
    BY WorkerTypes DEF Present
  <2> QED  BY <2>1, WorkerTypes DEF Deliver
<1>3. /\ worker' \in [SchedWorkers -> WorkerStates] /\ worker'[w] = ws
      /\ \A u \in SchedWorkers : u # w => worker'[u] = worker[u]
    BY <1>2, WorkerGoes
<1>4. \A x \in SchedRuns : Waiting(worker', x) \subseteq Waiting(worker, x)
    BY <1>1, <1>3 DEF Waiting
<1>5. Owned(queue, worker')
    BY <1>2, <1>3, StillOwned DEF Owning
<1> QED  BY <1>1, <1>3, <1>4, <1>5 DEF Calm

\* A scan finds a Run that comes before every other that is ready, or none.
Finds(w, r) ==
    /\ r \in ReadyRuns /\ \A x \in ReadyRuns \ {r} : Before(r, x)
    /\ \A x \in SchedRuns : x # r => Waiting(worker', x) \subseteq Waiting(worker, x)

LEMMA ScanSteps ==
    ASSUME SchedTypes, Owned(queue, worker), NEW w \in SchedWorkers, Scan(w)
    PROVE  /\ UNCHANGED <<queue, passed, versions, current, admission>> /\ Owned(queue, worker')
           /\ worker' \in [SchedWorkers -> WorkerStates]
           /\ ReadyRuns = {} \/ \E r \in SchedRuns : Finds(w, r)
<1>1. UNCHANGED <<queue, passed, versions, current, admission>> /\ worker[w].pc = "scan"
    BY DEF Scan
<1>2. CASE ReadyRuns = {} /\ worker' = [worker EXCEPT ![w] = [pc |-> "redis"]]
  <2> DEFINE ws == [pc |-> "redis"]
  <2>1. ws \in WorkerStates /\ ws.pc = "redis" /\ worker' = [worker EXCEPT ![w] = ws]
    BY <1>2, WorkerTypes
  <2> HIDE DEF ws
  <2>2. /\ worker' \in [SchedWorkers -> WorkerStates] /\ worker'[w] = ws
        /\ \A u \in SchedWorkers : u # w => worker'[u] = worker[u]
    BY <2>1, WorkerGoes
  <2> QED  BY <1>1, <1>2, <2>1, <2>2, StillOwned DEF Owning
<1>3. ASSUME NEW r \in ReadyRuns, \A x \in ReadyRuns \ {r} : Before(r, x),
             worker' = [worker EXCEPT ![w] = [pc |-> "claim", run |-> r]]
      PROVE  /\ Owned(queue, worker') /\ worker' \in [SchedWorkers -> WorkerStates]
             /\ \E x \in SchedRuns : Finds(w, x)
  <2> DEFINE ws == [pc |-> "claim", run |-> r]
  <2>1. /\ ws \in WorkerStates /\ ws.pc = "claim" /\ ws.run = r /\ r \in SchedRuns
        /\ worker' = [worker EXCEPT ![w] = ws]
    BY <1>3, WorkerTypes DEF ReadyRuns
  <2> HIDE DEF ws
  <2>2. /\ worker' \in [SchedWorkers -> WorkerStates] /\ worker'[w] = ws
        /\ \A u \in SchedWorkers : u # w => worker'[u] = worker[u]
    BY <2>1, WorkerGoes
  <2>3. \A x \in SchedRuns : x # r => Waiting(worker', x) \subseteq Waiting(worker, x)
    BY <2>1, <2>2 DEF Waiting
  <2>4. Finds(w, r)
    BY <1>3, <2>3 DEF Finds
  <2>5. Owned(queue, worker')
    BY <2>1, <2>2, StillOwned DEF Owning
  <2> QED  BY <2>1, <2>2, <2>4, <2>5
<1> QED  BY <1>1, <1>2, <1>3 DEF Scan

\* Admissions: at most one holds the global scope, and while it does the
\* backlog it counted cannot grow.
Asking(rows, ad) ==
    \A r \in SchedRuns : ad[r] # NotAsking =>
        /\ ad[r] \in Nat /\ rows[r].state = "absent"
        /\ Cardinality(Backlog(rows)) <= ad[r]
        /\ \A x \in SchedRuns : ad[x] # NotAsking => x = r

Admits(r, now, rows) ==
    /\ now \in Now /\ queue[r].state = "absent"
    /\ admission[r] # NotAsking /\ admission[r] < BacklogLimit[versions[current]]
    /\ rows \in Rows /\ SetQueue(rows, {})
    /\ rows[r] \in Live /\ rows[r].state = "pending" /\ rows[r].key = now
    /\ rows[r].version = current /\ rows[r].failed = 0 /\ ~rows[r].corrupt
    /\ \A x \in SchedRuns : x # r => rows[x] = queue[x]
    /\ admission' = [admission EXCEPT ![r] = NotAsking]
    /\ UNCHANGED <<versions, current, worker>>

LEMMA BacklogCounts ==
    ASSUME NEW rows
    PROVE  /\ IsFiniteSet(Backlog(rows)) /\ Cardinality(Backlog(rows)) \in Nat
           /\ IsFiniteSet(Present(rows)) /\ Cardinality(Present(rows)) \in Nat
BY SchedulingAssumption, FS_Subset, FS_CardinalityType DEF Backlog, Present

LEMMA SeqElements ==
    ASSUME NEW S, NEW s \in Seq(S)
    PROVE  /\ Len(s) \in Nat /\ DOMAIN s = 1..Len(s)
           /\ \A i \in 1..Len(s) : s[i] \in S
BY LenProperties

LEMMA AdmitSteps ==
    ASSUME SchedTypes, Asking(queue, admission), NEW r \in SchedRuns, AdmitRun(r)
    PROVE  \/ /\ UNCHANGED <<queue, passed, versions, current, worker>>
              /\ admission' = [admission EXCEPT ![r] = NotAsking]
           \/ \E now, rows : Admits(r, now, rows)
<1>1. /\ admission[r] # NotAsking /\ admission' = [admission EXCEPT ![r] = NotAsking]
      /\ UNCHANGED <<versions, current, worker>>
    BY DEF AdmitRun
<1>2. CASE UNCHANGED <<queue, passed>>
    BY <1>1, <1>2
<1>3. CASE ~UNCHANGED <<queue, passed>>
  <2> DEFINE full == admission[r] >= BacklogLimit[versions[current]]
             new(now) == [state |-> "pending", version |-> current, key |-> now,
                          created |-> Cardinality(Present(queue)) + 1, delayed |-> FALSE,
                          failed |-> 0, left |-> RunQuestions, corrupt |-> FALSE]
  <2>1. ~full /\ \E now \in Now : SetQueue([queue EXCEPT ![r] = new(now)], {})
    BY <1>3 DEF AdmitRun
  <2>2. PICK now \in Now : SetQueue([queue EXCEPT ![r] = new(now)], {})
    BY <2>1
  <2>3. now \in Nat /\ queue \in Rows /\ current \in Nat /\ versions[current] \in Docs
    <3>1. queue \in Rows /\ versions \in Seq(Docs) /\ current \in 1..Len(versions)
        BY DEF SchedTypes
    <3>2. Len(versions) \in Nat /\ \A i \in 1..Len(versions) : versions[i] \in Docs
        BY ONLY <3>1, SeqElements
    <3>3. versions[current] \in Docs
        BY ONLY <3>1, <3>2
    <3>4. now \in Nat
        BY <3>1, NowLater
    <3>5. current \in Nat
        BY ONLY <3>1, <3>2
    <3> QED  BY <3>1, <3>3, <3>4, <3>5
  <2>4. admission[r] < BacklogLimit[versions[current]]
    <3>1. admission[r] \in Nat /\ BacklogLimit[versions[current]] \in Nat
        BY <1>1, <2>3, SchedulingAssumption DEF Asking
    <3> QED  BY <2>1, <3>1
  <2>5. new(now) \in Live
    BY <2>3, BacklogCounts, SchedulingAssumption DEF Live
  <2> DEFINE row == new(now)
             rows == [queue EXCEPT ![r] = row]
  <2>6. /\ row \in Live /\ row.state = "pending" /\ row.key = now /\ row.version = current
        /\ row.failed = 0 /\ ~row.corrupt
    BY <2>5
  <2>7. SetQueue(rows, {})
    BY <2>2
  <2> HIDE DEF row
  <2>8. rows \in Rows /\ rows[r] = row /\ \A x \in SchedRuns : x # r => rows[x] = queue[x]
    BY <2>3, <2>6 DEF Rows
  <2> HIDE DEF rows
  <2>9. Admits(r, now, rows)
    BY <1>1, <2>4, <2>6, <2>7, <2>8 DEF Admits, Asking
  <2> QED  BY <2>9
<1> QED  BY <1>2, <1>3

\* Every step of the scheduler is of one of these kinds.
Idles == UNCHANGED <<queue, passed>> /\ Owned(queue, worker') /\ Calm

LEMMA SchedSteps ==
    ASSUME SchedTypes, Owned(queue, worker), Asking(queue, admission), [SchedNext]_schedVars
    PROVE  \/ Idles
           \/ (\E rows : Moves(rows)) /\ Calm
           \/ \E w \in SchedWorkers : Scan(w)
           \/ \E w \in SchedWorkers : \E r, now, rows : Claims(w, r, now, rows)
           \/ \E r \in SchedRuns : CountBacklog(r)
           \/ \E r \in SchedRuns : /\ UNCHANGED <<queue, passed, versions, current, worker>>
                                   /\ admission' = [admission EXCEPT ![r] = NotAsking]
           \/ \E r \in SchedRuns : \E now, rows : Admits(r, now, rows)
           \/ \E d \in Docs : ApplyPolicy(d)
<1> DEFINE MovesOn == (\E rows : Moves(rows)) /\ Calm
           ClaimsOne == \E w \in SchedWorkers : \E r, now, rows : Claims(w, r, now, rows)
           Refuses == \E r \in SchedRuns : /\ UNCHANGED <<queue, passed, versions, current, worker>>
                                           /\ admission' = [admission EXCEPT ![r] = NotAsking]
           AdmitsOne == \E r \in SchedRuns : \E now, rows : Admits(r, now, rows)
<1>1. ASSUME NextMinute \/ UNCHANGED schedVars PROVE Idles
    BY <1>1 DEF NextMinute, schedVars, Idles, Calm, SchedTypes
<1>2. ASSUME NEW w \in SchedWorkers, Reap(w) \/ Slice(w) \/ Defer(w) \/ Die(w) PROVE MovesOn
    BY <1>2, ReapMoves, SliceMoves, DeferMoves, DieMoves
<1>3. ASSUME NEW w \in SchedWorkers, ReconcileTakeover(w) PROVE Idles \/ MovesOn
    BY <1>3, TakeoverMoves DEF Idles
<1>4. ASSUME NEW w \in SchedWorkers, Deliver(w) PROVE Idles
    BY <1>4, DeliverSteps DEF Idles
<1>5. ASSUME NEW w \in SchedWorkers, ClaimFound(w) PROVE Idles \/ ClaimsOne
    BY <1>5, ClaimSteps DEF Idles
<1>6. ASSUME NEW r \in SchedRuns, DelayOver(r) PROVE MovesOn
    BY <1>6, DelayMoves
<1>7. ASSUME NEW r \in SchedRuns, AdmitRun(r) PROVE Refuses \/ AdmitsOne
    BY <1>7, AdmitSteps
<1> SUFFICES \/ Idles \/ MovesOn \/ ClaimsOne \/ Refuses \/ AdmitsOne
             \/ (\E w \in SchedWorkers : Scan(w))
             \/ (\E r \in SchedRuns : CountBacklog(r))
             \/ (\E d \in Docs : ApplyPolicy(d))
    BY Zenon
<1> HIDE DEF MovesOn, ClaimsOne, Refuses, AdmitsOne
<1> QED  BY <1>1, <1>2, <1>3, <1>4, <1>5, <1>6, <1>7 DEF SchedNext

(***************************************************************************)
(* The windows of the policies.                                            *)
(***************************************************************************)
Slots ==
    /\ versions \in Seq(Docs) /\ current \in 1..Len(versions)
    /\ bucket \in Seq(Nat) /\ Len(bucket) = Len(versions)
    /\ corrupted \in Nat

\* A document is one version, and its window holds no more than it allows.
Windows ==
    /\ \A v, u \in 1..Len(versions) : versions[v] = versions[u] => v = u
    /\ \A v \in 1..Len(versions) : bucket[v] <= WindowLimit[versions[v]]

LEMMA PolicyApplied ==
    ASSUME Slots, Windows, NEW d \in Docs, ApplyPolicy(d)
    PROVE  Slots' /\ Windows' /\ Len(versions) <= Len(versions')
<1>1. /\ Len(versions) \in Nat /\ DOMAIN versions = 1..Len(versions)
      /\ \A i \in 1..Len(versions) : versions[i] \in Docs /\ bucket[i] \in Nat
    BY SeqElements DEF Slots
<1>2. corrupted' = corrupted
    BY DEF ApplyPolicy
<1>3. CASE \E v \in DOMAIN versions :
             versions[v] = d /\ current' = v /\ UNCHANGED <<versions, bucket>>
    BY <1>1, <1>2, <1>3 DEF Slots, Windows
<1>4. CASE /\ d \notin {versions[v] : v \in DOMAIN versions}
           /\ versions' = Append(versions, d) /\ bucket' = Append(bucket, 0)
           /\ current' = Len(versions) + 1
  <2> DEFINE n == Len(versions)
  <2>1. versions' \in Seq(Docs) /\ bucket' \in Seq(Nat)
    BY <1>4 DEF Slots
  <2>2. Len(versions') = n + 1 /\ Len(bucket') = n + 1
    BY <1>4 DEF Slots
  <2>3. /\ \A i \in 1..n : versions'[i] = versions[i] /\ bucket'[i] = bucket[i]
        /\ versions'[n + 1] = d /\ bucket'[n + 1] = 0
    BY <1>1, <1>4 DEF Slots
  <2>4. n \in Nat /\ \A i \in 1..n : versions[i] # d
    BY <1>1, <1>4
  <2>5. WindowLimit[d] \in Nat
    BY SchedulingAssumption
  <2>6. current' = n + 1
    BY <1>4
  <2>7. \A i \in 1..(n + 1) : i \in 1..n \/ i = n + 1
    BY <2>4
  <2> HIDE DEF n
  <2>8. Slots'
    BY <1>2, <2>1, <2>2, <2>4, <2>6 DEF Slots
  <2>9. \A v, u \in 1..(n + 1) : versions'[v] = versions'[u] => v = u
    BY <2>3, <2>4, <2>7 DEF Windows, n
  <2>10. \A v \in 1..(n + 1) : bucket'[v] <= WindowLimit[versions'[v]]
    BY <2>3, <2>5, <2>7 DEF Windows, n
  <2> QED  BY <2>2, <2>4, <2>8, <2>9, <2>10 DEF Windows, n
<1> QED  BY <1>3, <1>4 DEF ApplyPolicy

LEMMA SliceSent ==
    ASSUME SchedTypes, Owned(queue, worker), Windows, NEW w \in SchedWorkers, Slice(w)
    PROVE  Slots' /\ Windows' /\ versions' = versions
<1> DEFINE r == worker[w].run
           v == queue[r].version
           n == Len(versions)
<1>1. worker[w].pc \in Owning
    BY DEF Slice, Owning
<1>2. r \in SchedRuns /\ queue[r].state # "absent"
    BY <1>1, OwnedRow
<1>3. v \in 1..n
    BY <1>2 DEF SchedTypes
<1>4. n \in Nat /\ bucket \in [1..n -> Nat] /\ \A i \in 1..n : versions[i] \in Docs
    BY SeqElements, LenProperties DEF SchedTypes
<1>5. bucket[v] < WindowLimit[versions[v]] /\ bucket' = [bucket EXCEPT ![v] = bucket[v] + 1]
    BY DEF Slice, PolicyOf
<1>6. UNCHANGED <<versions, current, corrupted>>
    BY DEF Slice
<1>7. WindowLimit[versions[v]] \in Nat /\ bucket[v] \in Nat
    BY <1>3, <1>4, SchedulingAssumption
<1>8. bucket \in Seq(Nat) /\ Len(bucket) = n
    BY DEF SchedTypes
<1>9. current \in 1..n /\ corrupted \in Nat /\ versions \in Seq(Docs)
    BY DEF SchedTypes
<1>10. n = Len(versions)
    OBVIOUS
<1> HIDE DEF v, n
<1>11. bucket' \in Seq(Nat) /\ Len(bucket') = n
    BY <1>3, <1>5, <1>7, <1>8, ExceptSeq
<1>12. \A u \in 1..n : bucket'[u] <= WindowLimit[versions[u]]
    BY <1>3, <1>4, <1>5, <1>7, <1>10 DEF Windows
<1> QED  BY <1>6, <1>9, <1>10, <1>11, <1>12 DEF Slots, Windows

LEMMA MinutePassed ==
    ASSUME Slots, Windows, NextMinute
    PROVE  Slots' /\ Windows' /\ versions' = versions
<1> DEFINE n == Len(versions)
<1>1. n \in Nat /\ DOMAIN bucket = 1..n /\ \A i \in 1..n : versions[i] \in Docs
    BY SeqElements DEF Slots
<1>2. bucket' = [v \in 1..n |-> 0] /\ UNCHANGED <<versions, current, corrupted>>
    BY <1>1 DEF NextMinute
<1>3. bucket' \in Seq(Nat) /\ Len(bucket') = n
    BY <1>1, <1>2
<1>4. \A v \in 1..n : bucket'[v] = 0 /\ WindowLimit[versions[v]] \in Nat
    BY <1>1, <1>2, SchedulingAssumption
<1> QED  BY <1>2, <1>3, <1>4 DEF Slots, Windows

LEMMA WindowStep ==
    ASSUME SchedTypes, Owned(queue, worker), Windows, [SchedNext]_schedVars
    PROVE  Slots' /\ Windows' /\ Len(versions) <= Len(versions')
<1>0. Slots /\ Len(versions) \in Nat
    BY SeqElements DEF Slots, SchedTypes
<1>1. ASSUME UNCHANGED <<versions, current, bucket>>, corrupted' \in Nat
      PROVE  Slots' /\ Windows' /\ Len(versions) <= Len(versions')
    BY <1>0, <1>1 DEF Slots, Windows
<1>2. ASSUME NEW d \in Docs, ApplyPolicy(d)
      PROVE  Slots' /\ Windows' /\ Len(versions) <= Len(versions')
    BY <1>0, <1>2, PolicyApplied
<1>3. ASSUME NextMinute
      PROVE  Slots' /\ Windows' /\ Len(versions) <= Len(versions')
    BY <1>0, <1>3, MinutePassed
<1>4. ASSUME NEW w \in SchedWorkers, Slice(w)
      PROVE  Slots' /\ Windows' /\ Len(versions) <= Len(versions')
    BY <1>0, <1>4, SliceSent
<1>5. ASSUME NEW w \in SchedWorkers, Die(w)
      PROVE  Slots' /\ Windows' /\ Len(versions) <= Len(versions')
  <2>1. corrupted' \in Nat
    BY <1>5, DieMoves
  <2> QED  BY <1>1, <1>5, <2>1 DEF Die
<1>6. ASSUME NEW r \in SchedRuns, CountBacklog(r) \/ AdmitRun(r) \/ DelayOver(r)
      PROVE  Slots' /\ Windows' /\ Len(versions) <= Len(versions')
    BY <1>0, <1>1, <1>6 DEF CountBacklog, AdmitRun, DelayOver, Slots
<1>7. ASSUME NEW w \in SchedWorkers,
             \/ Reap(w) \/ Scan(w) \/ Deliver(w) \/ ClaimFound(w)
             \/ ReconcileTakeover(w) \/ Defer(w)
      PROVE  Slots' /\ Windows' /\ Len(versions) <= Len(versions')
  <2>1. UNCHANGED <<versions, current, bucket, corrupted>>
    BY <1>7 DEF Reap, Scan, Deliver, ClaimFound, ReconcileTakeover, Defer
  <2> QED  BY <1>0, <1>1, <2>1 DEF Slots
<1>8. ASSUME UNCHANGED schedVars
      PROVE  Slots' /\ Windows' /\ Len(versions) <= Len(versions')
    BY <1>0, <1>1, <1>8 DEF schedVars, Slots
<1> QED  BY <1>2, <1>3, <1>4, <1>5, <1>6, <1>7, <1>8 DEF SchedNext

(***************************************************************************)
(* The invariant of the queue.                                             *)
(***************************************************************************)
SchedInv == SchedTypes /\ Windows /\ Owned(queue, worker) /\ Asking(queue, admission)

\* A row that is admitted, claimed or moved on is the row of the next state
\* but for the rank of its key.
LEMMA QueueStep ==
    ASSUME SchedTypes, NEW rows \in Rows, NEW claimed, SetQueue(rows, claimed)
    PROVE  /\ queue' \in Rows /\ passed' \in [SchedRuns -> [SchedRuns -> Nat]]
           /\ \A r \in SchedRuns : Same(rows[r], queue'[r])
           /\ \A r \in SchedRuns : Ready(rows[r]) <=> Ready(queue'[r])
           /\ \A r, x \in Present(rows) :
                (rows[r].key < rows[x].key) <=> (queue'[r].key < queue'[x].key)
           /\ Backlog(queue') = Backlog(rows) /\ Present(queue') = Present(rows)
<1>1. queue' = Ranked(rows) /\ passed' = PassedBy(rows, claimed)
    BY DEF SetQueue
<1>2. /\ queue' \in Rows /\ \A r \in SchedRuns : Same(rows[r], queue'[r])
      /\ \A r, x \in Present(rows) :
                (rows[r].key < rows[x].key) <=> (queue'[r].key < queue'[x].key)
    BY <1>1, RankedRows
<1>3. passed' \in [SchedRuns -> [SchedRuns -> Nat]]
  <2>1. \A r, x \in SchedRuns : passed[r][x] \in Nat
    BY DEF SchedTypes
  <2> QED  BY <1>1, <2>1 DEF PassedBy
<1>4. Backlog(queue') = Backlog(rows) /\ Present(queue') = Present(rows)
    BY <1>2 DEF Backlog, Present, Same
<1>5. \A r \in SchedRuns : Ready(rows[r]) <=> Ready(queue'[r])
    BY <1>2 DEF Ready, Same
<1> QED  BY <1>2, <1>3, <1>4, <1>5

LEMMA OwnedRanked ==
    ASSUME NEW rows, NEW ranked, NEW wk \in [SchedWorkers -> WorkerStates],
           \A r \in SchedRuns : Same(rows[r], ranked[r]), Owned(rows, wk)
    PROVE  Owned(ranked, wk)
<1>1. \A w \in SchedWorkers : wk[w].pc \in Owning => wk[w].run \in SchedRuns
    BY WorkerTypes DEF Owning
<1> QED  BY <1>1 DEF Owned, Same, Owning

\* The versions of the rows of the next state.
Versioned(rows, n) == \A r \in SchedRuns : rows[r].state # "absent" => rows[r].version \in 1..n

LEMMA VersionedStep ==
    ASSUME NEW rows, NEW ranked, NEW n \in Nat, NEW m \in Nat, n <= m, Versioned(rows, n),
           \A r \in SchedRuns : Same(rows[r], ranked[r])
    PROVE  Versioned(ranked, m)
BY DEF Versioned, Same

\* Nothing but an admission lets the backlog grow.
LEMMA AskingStays ==
    ASSUME NEW rows, NEW ranked, NEW ad, Asking(rows, ad),
           \A r \in SchedRuns : rows[r].state = "absent" => ranked[r].state = "absent",
           Backlog(ranked) \subseteq Backlog(rows)
    PROVE  Asking(ranked, ad)
<1>1. Cardinality(Backlog(ranked)) <= Cardinality(Backlog(rows))
    BY BacklogCounts, FS_Subset
<1>2. Cardinality(Backlog(ranked)) \in Nat /\ Cardinality(Backlog(rows)) \in Nat
    BY BacklogCounts
<1> QED  BY <1>1, <1>2 DEF Asking

LEMMA SchedInvInit ==
    SchedInit => SchedInv
<1> SUFFICES ASSUME SchedInit PROVE SchedInv
    OBVIOUS
<1>1. versions \in Seq(Docs) /\ Len(versions) = 1 /\ versions[1] = DefaultDoc
    BY SchedulingAssumption DEF SchedInit
<1>2. bucket \in Seq(Nat) /\ Len(bucket) = 1 /\ bucket[1] = 0
    BY DEF SchedInit
<1>3. queue \in Rows /\ \A r \in SchedRuns : queue[r] = Absent
    BY DEF SchedInit, Rows
<1>4. \A r \in SchedRuns : queue[r].state = "absent"
    BY <1>3 DEF Absent
<1>5. worker \in [SchedWorkers -> WorkerStates] /\ \A w \in SchedWorkers : worker[w].pc = "reap"
    BY WorkerTypes DEF SchedInit
<1>6. /\ admission \in [SchedRuns -> Int] /\ \A r \in SchedRuns : admission[r] = NotAsking
      /\ passed \in [SchedRuns -> [SchedRuns -> Nat]]
      /\ corrupted = 0 /\ current = 1
    BY DEF SchedInit, NotAsking
<1>7. SchedTypes
    BY <1>1, <1>2, <1>3, <1>4, <1>5, <1>6 DEF SchedTypes
<1>8. Windows
    BY <1>1, <1>2, SchedulingAssumption DEF Windows
<1>9. Owned(queue, worker)
    BY <1>4, <1>5 DEF Owned, Owning
<1>10. Asking(queue, admission)
    BY <1>6 DEF Asking
<1> QED  BY <1>7, <1>8, <1>9, <1>10 DEF SchedInv

\* No Run is inserted.
NoNew == \A r \in SchedRuns : queue[r].state = "absent" => queue'[r].state = "absent"

\* A change of the queue that is no admission keeps the invariant of the rows.
LEMMA MovedQueue ==
    ASSUME SchedInv, NEW rows \in Rows, NEW claimed, SetQueue(rows, claimed), Owned(rows, worker'),
           worker' \in [SchedWorkers -> WorkerStates],
           \A r \in SchedRuns : queue[r].state = "absent" => rows[r].state = "absent",
           \A r \in SchedRuns : rows[r].state # "absent" => rows[r].version = queue[r].version,
           Backlog(rows) \subseteq Backlog(queue),
           UNCHANGED <<versions, current, admission>>
    PROVE  /\ queue' \in Rows /\ Versioned(queue', Len(versions)) /\ Owned(queue', worker')
           /\ Asking(queue', admission') /\ passed' \in [SchedRuns -> [SchedRuns -> Nat]]
           /\ NoNew
<1>1. SchedTypes /\ Asking(queue, admission)
    BY DEF SchedInv
<1>2. /\ queue' \in Rows /\ passed' \in [SchedRuns -> [SchedRuns -> Nat]]
      /\ \A r \in SchedRuns : Same(rows[r], queue'[r])
      /\ Backlog(queue') = Backlog(rows)
    BY <1>1, QueueStep
<1>3. Owned(queue', worker')
    BY <1>2, OwnedRanked
<1>4. Versioned(queue', Len(versions))
    BY <1>1, <1>2 DEF Versioned, Same, SchedTypes
<1>5. \A r \in SchedRuns : queue[r].state = "absent" => queue'[r].state = "absent"
    BY <1>2 DEF Same
<1>6. Asking(queue', admission)
    BY <1>1, <1>2, <1>5, AskingStays
<1> QED  BY <1>2, <1>3, <1>4, <1>5, <1>6 DEF NoNew

Rest == queue' \in Rows /\ Versioned(queue', Len(versions)) /\ Owned(queue', worker')
        /\ Asking(queue', admission') /\ passed' \in [SchedRuns -> [SchedRuns -> Nat]]
        /\ worker' \in [SchedWorkers -> WorkerStates]
        /\ admission' \in [SchedRuns -> Int]

LEMMA MovesRest ==
    ASSUME SchedInv, NEW rows, Moves(rows), Calm
    PROVE  Rest /\ NoNew
<1>1. /\ rows \in Rows /\ SetQueue(rows, {}) /\ Owned(rows, worker')
      /\ \A r \in SchedRuns : Move(queue[r], rows[r])
    BY DEF Moves
<1>2. worker' \in [SchedWorkers -> WorkerStates] /\ UNCHANGED <<versions, current, admission>>
    BY DEF Calm
<1>3. ASSUME NEW r \in SchedRuns
      PROVE  /\ queue[r].state = "absent" => rows[r].state = "absent"
             /\ rows[r].state # "absent" => rows[r].version = queue[r].version
             /\ r \in Backlog(rows) => r \in Backlog(queue)
  <2>1. queue[r] \in Live \cup {Absent}
    BY DEF SchedInv, SchedTypes, Rows
  <2>2. CASE rows[r] = queue[r]
    BY <2>2 DEF Backlog
  <2>3. CASE rows[r] # queue[r]
    <3>1. /\ queue[r] \in Live /\ queue[r].state # "done" /\ rows[r].version = queue[r].version
        BY <1>1, <2>3 DEF Move
    <3>2. queue[r].state \in {"pending", "running", "expired"}
        BY <3>1 DEF Live
    <3> QED  BY <3>1, <3>2 DEF Backlog
  <2> QED  BY <2>2, <2>3
<1>4. Backlog(rows) \subseteq Backlog(queue)
    BY <1>3 DEF Backlog
<1>5. admission' \in [SchedRuns -> Int]
    BY <1>2 DEF SchedInv, SchedTypes
<1>6. /\ queue' \in Rows /\ Versioned(queue', Len(versions)) /\ Owned(queue', worker')
      /\ Asking(queue', admission') /\ passed' \in [SchedRuns -> [SchedRuns -> Nat]]
      /\ NoNew
    BY <1>1, <1>2, <1>3, <1>4, MovedQueue
<1> QED  BY <1>2, <1>5, <1>6 DEF Rest

LEMMA ClaimsRest ==
    ASSUME SchedInv, NEW w \in SchedWorkers, NEW r, NEW now, NEW rows, Claims(w, r, now, rows)
    PROVE  Rest /\ NoNew
<1>1. /\ rows \in Rows /\ SetQueue(rows, {r}) /\ Owned(rows, worker') /\ r \in SchedRuns
      /\ Ready(queue[r]) /\ queue[r] \in Live /\ rows[r] \in Live /\ rows[r].version = queue[r].version
      /\ rows[r].state = "running"
      /\ \A x \in SchedRuns : x # r => rows[x] = queue[x]
      /\ worker' \in [SchedWorkers -> WorkerStates] /\ UNCHANGED <<versions, current, admission>>
    BY DEF Claims
<1>2. queue[r].state \in {"pending", "expired"}
    BY <1>1 DEF Ready
<1>3. Backlog(rows) \subseteq Backlog(queue)
    BY <1>1, <1>2 DEF Backlog
<1>4. \A x \in SchedRuns : queue[x].state = "absent" => rows[x].state = "absent"
    BY <1>1, <1>2
<1>5. \A x \in SchedRuns : rows[x].state # "absent" => rows[x].version = queue[x].version
    BY <1>1
<1>6. admission' \in [SchedRuns -> Int]
    BY <1>1 DEF SchedInv, SchedTypes
<1>7. /\ queue' \in Rows /\ Versioned(queue', Len(versions)) /\ Owned(queue', worker')
      /\ Asking(queue', admission') /\ passed' \in [SchedRuns -> [SchedRuns -> Nat]]
      /\ NoNew
    BY <1>1, <1>3, <1>4, <1>5, MovedQueue
<1> QED  BY <1>1, <1>6, <1>7 DEF Rest

\* The global scope is held while an admission is decided: the Run that is
\* inserted is within the limit it was checked against.
LEMMA AdmitsRest ==
    ASSUME SchedInv, NEW r \in SchedRuns, NEW now, NEW rows, Admits(r, now, rows)
    PROVE  /\ Rest /\ UNCHANGED <<versions, current>>
           /\ Cardinality(Backlog(queue')) <= BacklogLimit[versions[current]]
           /\ queue'[r].version = current
           /\ \A x \in SchedRuns : x # r /\ queue[x].state = "absent" => queue'[x].state = "absent"
<1>1. /\ rows \in Rows /\ SetQueue(rows, {}) /\ queue[r].state = "absent"
      /\ admission[r] # NotAsking /\ admission[r] < BacklogLimit[versions[current]]
      /\ rows[r] \in Live /\ rows[r].state = "pending" /\ rows[r].version = current
      /\ ~rows[r].corrupt
      /\ \A x \in SchedRuns : x # r => rows[x] = queue[x]
      /\ admission' = [admission EXCEPT ![r] = NotAsking]
      /\ UNCHANGED <<versions, current, worker>>
    BY DEF Admits
<1>2. SchedTypes /\ Asking(queue, admission) /\ Owned(queue, worker)
    BY DEF SchedInv
<1>3. /\ queue' \in Rows /\ passed' \in [SchedRuns -> [SchedRuns -> Nat]]
      /\ \A x \in SchedRuns : Same(rows[x], queue'[x])
      /\ Backlog(queue') = Backlog(rows)
    BY <1>1, <1>2, QueueStep
<1>4. /\ worker' \in [SchedWorkers -> WorkerStates] /\ admission' \in [SchedRuns -> Int]
      /\ \A x \in SchedRuns : x # r => admission'[x] = admission[x]
      /\ admission'[r] = NotAsking
    BY <1>1, <1>2 DEF SchedTypes, NotAsking
<1>5. \A w \in SchedWorkers : worker[w].pc \in Owning =>
            worker[w].run \in SchedRuns /\ rows[worker[w].run] = queue[worker[w].run]
    BY <1>1, <1>2, OwnedRow
<1>6. Owned(rows, worker)
    BY <1>1, <1>2, <1>5 DEF Owned, Owning
<1>7. Owned(queue', worker')
  <2>1. worker' = worker
    BY <1>1
  <2> QED  BY <1>3, <1>4, <1>6, <2>1, OwnedRanked
<1>8. Versioned(queue', Len(versions))
    BY <1>1, <1>2, <1>3 DEF Versioned, Same, SchedTypes
<1>9. Asking(queue', admission')
    BY <1>1, <1>2, <1>4 DEF Asking
<1>10. Cardinality(Backlog(queue')) <= BacklogLimit[versions[current]]
  <2>1. Backlog(rows) = Backlog(queue) \cup {r} /\ r \notin Backlog(queue)
    BY <1>1 DEF Backlog
  <2>2. Cardinality(Backlog(rows)) = Cardinality(Backlog(queue)) + 1
    BY <2>1, BacklogCounts, FS_AddElement
  <2>3. admission[r] \in Nat /\ Cardinality(Backlog(queue)) <= admission[r]
    BY <1>1, <1>2 DEF Asking
  <2>4. versions[current] \in Docs
    BY <1>2, SeqElements DEF SchedTypes
  <2>5. BacklogLimit[versions[current]] \in Nat /\ Cardinality(Backlog(queue)) \in Nat
    BY <2>4, SchedulingAssumption, BacklogCounts
  <2> QED  BY <1>1, <1>3, <2>2, <2>3, <2>5
<1>11. /\ queue'[r].version = current
       /\ \A x \in SchedRuns : x # r /\ queue[x].state = "absent" => queue'[x].state = "absent"
    BY <1>1, <1>3 DEF Same
<1> QED  BY <1>1, <1>3, <1>4, <1>7, <1>8, <1>9, <1>10, <1>11 DEF Rest

\* What is left: steps that change neither the rows nor the history.
LEMMA QuietRest ==
    ASSUME SchedInv, UNCHANGED <<queue, passed>>, Owned(queue, worker'),
           worker' \in [SchedWorkers -> WorkerStates], admission' \in [SchedRuns -> Int],
           Asking(queue, admission')
    PROVE  Rest /\ NoNew
BY DEF SchedInv, SchedTypes, Rest, NoNew, Versioned

LEMMA CountRest ==
    ASSUME SchedInv, NEW r \in SchedRuns, CountBacklog(r)
    PROVE  Rest /\ NoNew
<1>1. /\ UNCHANGED <<queue, passed, worker>> /\ queue[r].state = "absent"
      /\ \A x \in SchedRuns : admission[x] = NotAsking
      /\ admission' = [admission EXCEPT ![r] = Cardinality(Backlog(queue))]
    BY DEF CountBacklog, GlobalScopeFree
<1>2. Cardinality(Backlog(queue)) \in Nat
    BY BacklogCounts
<1>3. /\ admission' \in [SchedRuns -> Int] /\ admission'[r] = Cardinality(Backlog(queue))
      /\ \A x \in SchedRuns : x # r => admission'[x] = NotAsking
    BY <1>1, <1>2 DEF SchedInv, SchedTypes
<1>4. Asking(queue, admission')
    BY <1>1, <1>2, <1>3 DEF Asking
<1> QED  BY <1>1, <1>3, <1>4, QuietRest DEF SchedInv, SchedTypes

LEMMA SchedRest ==
    ASSUME SchedInv, [SchedNext]_schedVars
    PROVE  /\ Rest
           /\ \/ NoNew
              \/ /\ \E r \in SchedRuns :
                      /\ queue'[r].version = current
                      /\ \A x \in SchedRuns :
                            x # r /\ queue[x].state = "absent" => queue'[x].state = "absent"
                 /\ Cardinality(Backlog(queue')) <= BacklogLimit[versions[current]]
                 /\ UNCHANGED <<versions, current>>
<1>0. SchedTypes /\ Owned(queue, worker) /\ Asking(queue, admission)
    BY DEF SchedInv
<1> DEFINE Inserts == /\ \E r \in SchedRuns :
                            /\ queue'[r].version = current
                            /\ \A x \in SchedRuns :
                                  x # r /\ queue[x].state = "absent" => queue'[x].state = "absent"
                      /\ Cardinality(Backlog(queue')) <= BacklogLimit[versions[current]]
                      /\ UNCHANGED <<versions, current>>
<1>1. ASSUME Idles PROVE Rest /\ NoNew
  <2>1. UNCHANGED <<queue, passed, admission>> /\ Owned(queue, worker')
        /\ worker' \in [SchedWorkers -> WorkerStates]
    BY <1>1 DEF Idles, Calm
  <2>2. Asking(queue, admission') /\ admission' \in [SchedRuns -> Int]
    BY <1>0, <2>1 DEF SchedTypes
  <2> QED  BY <2>1, <2>2, QuietRest
<1>2. ASSUME NEW rows, Moves(rows), Calm PROVE Rest /\ NoNew
    BY <1>2, MovesRest
<1>3. ASSUME NEW w \in SchedWorkers, Scan(w) PROVE Rest /\ NoNew
  <2>1. /\ UNCHANGED <<queue, passed, admission>> /\ Owned(queue, worker')
        /\ worker' \in [SchedWorkers -> WorkerStates]
    BY <1>0, <1>3, ScanSteps
  <2>2. Asking(queue, admission') /\ admission' \in [SchedRuns -> Int]
    BY <1>0, <2>1 DEF SchedTypes
  <2> QED  BY <2>1, <2>2, QuietRest
<1>4. ASSUME NEW w \in SchedWorkers, NEW r, NEW now, NEW rows, Claims(w, r, now, rows)
      PROVE  Rest /\ NoNew
    BY <1>4, ClaimsRest
<1>5. ASSUME NEW r \in SchedRuns, CountBacklog(r) PROVE Rest /\ NoNew
    BY <1>5, CountRest
<1>6. ASSUME NEW r \in SchedRuns, UNCHANGED <<queue, passed, versions, current, worker>>,
             admission' = [admission EXCEPT ![r] = NotAsking]
      PROVE  Rest /\ NoNew
  <2>1. /\ admission' \in [SchedRuns -> Int] /\ admission'[r] = NotAsking
        /\ \A x \in SchedRuns : x # r => admission'[x] = admission[x]
    BY <1>0, <1>6 DEF SchedTypes, NotAsking
  <2>2. Asking(queue, admission')
    BY <1>0, <2>1 DEF Asking
  <2> QED  BY <1>0, <1>6, <2>1, <2>2, QuietRest DEF SchedTypes
<1>7. ASSUME NEW r \in SchedRuns, NEW now, NEW rows, Admits(r, now, rows)
      PROVE  Rest /\ Inserts
    BY <1>7, AdmitsRest
<1>8. ASSUME NEW d \in Docs, ApplyPolicy(d) PROVE Rest /\ NoNew
  <2>1. UNCHANGED <<queue, admission, worker, passed>>
    BY <1>8 DEF ApplyPolicy
  <2> QED  BY <1>0, <2>1, QuietRest DEF SchedTypes
<1> HIDE DEF Inserts
<1>9. Rest /\ (NoNew \/ Inserts)
  <2>1. \/ Idles
        \/ \E rows : Moves(rows) /\ Calm
        \/ \E w \in SchedWorkers : Scan(w)
        \/ \E w \in SchedWorkers : \E r, now, rows : Claims(w, r, now, rows)
        \/ \E r \in SchedRuns : CountBacklog(r)
        \/ \E r \in SchedRuns : /\ UNCHANGED <<queue, passed, versions, current, worker>>
                                /\ admission' = [admission EXCEPT ![r] = NotAsking]
        \/ \E r \in SchedRuns : \E now, rows : Admits(r, now, rows)
        \/ \E d \in Docs : ApplyPolicy(d)
    BY <1>0, SchedSteps, Zenon
  <2> QED  BY ONLY <2>1, <1>1, <1>2, <1>3, <1>4, <1>5, <1>6, <1>7, <1>8
<1> QED  BY <1>9 DEF Inserts

LEMMA SchedInvStep ==
    SchedInv /\ [SchedNext]_schedVars => SchedInv'
<1> SUFFICES ASSUME SchedInv, [SchedNext]_schedVars PROVE SchedInv'
    OBVIOUS
<1>1. Rest
    BY SchedRest
<1>2. Slots' /\ Windows' /\ Len(versions) <= Len(versions')
    BY WindowStep DEF SchedInv
<1>3. Len(versions) \in Nat /\ Len(versions') \in Nat
    BY <1>2, LenProperties DEF SchedInv, SchedTypes, Slots
<1>4. Versioned(queue', Len(versions'))
    BY <1>1, <1>2, <1>3 DEF Versioned, Rest
<1>5. SchedTypes'
    BY <1>1, <1>2, <1>4 DEF SchedTypes, Rest, Slots, Versioned
<1> QED  BY <1>1, <1>2, <1>5 DEF SchedInv, Rest

LEMMA SchedInvariance ==
    SchedSpec => []SchedInv
BY SchedInvInit, SchedInvStep, PTL DEF SchedSpec

\* For any set of Runs, workers and policies: no worker executes a Run whose
\* ledger failed validation, and the Runs admitted under one document send no
\* more in a minute than it allows, however often it is activated again
\* (reap_expired, _fail_closed_takeover, apply_policy).
THEOREM Service ==
    SchedSpec => []ServiceInv
<1>1. SchedInv => ServiceInv
  <2> SUFFICES ASSUME SchedInv PROVE ServiceInv
    OBVIOUS
  <2>1. CorruptLedgerStops
    BY DEF SchedInv, Owned, CorruptLedgerStops
  <2>2. DOMAIN versions = 1..Len(versions) /\ \A v \in 1..Len(versions) : bucket[v] \in Nat
    BY SeqElements DEF SchedInv, SchedTypes
  <2>3. WindowOfOneDocument
    BY <2>2 DEF SchedInv, Windows, WindowOfOneDocument
  <2> QED  BY <2>1, <2>3 DEF ServiceInv
<1> QED  BY <1>1, SchedInvariance, PTL

\* A Run is only inserted within the backlog limit of the policy it freezes,
\* whatever happened between the count of admit_run and its insert.
THEOREM Admission ==
    SchedSpec => AdmittedWithinLimit
<1>1. SchedInv /\ [SchedNext]_schedVars =>
        [\A r \in SchedRuns :
          queue[r].state = "absent" /\ queue'[r].state # "absent" =>
              Cardinality(Backlog(queue')) <= BacklogLimit[versions[queue'[r].version]]]_schedVars
    BY SchedRest DEF NoNew
<1> QED  BY <1>1, SchedInvariance, PTL DEF SchedSpec, AdmittedWithinLimit

(***************************************************************************)
(* How often a waiting Run is passed over, with a clock that tells claims  *)
(* apart.  A Run with the later key is claimed only by the workers that    *)
(* found it earlier; it gets in front again only by losing a lease.        *)
(***************************************************************************)
Cap(f) == Cardinality(SchedWorkers) * f

LEMMA CapCounts ==
    /\ Cap(1) \in Nat
    /\ \A f \in Nat : Cap(f) \in Nat /\ Cap(1 + f) = Cap(f) + Cap(1)
    /\ \A x, wk : /\ IsFiniteSet(Waiting(wk, x)) /\ Cardinality(Waiting(wk, x)) \in Nat
                  /\ Cardinality(Waiting(wk, x)) <= Cap(1)
<1>1. Cardinality(SchedWorkers) \in Nat /\ IsFiniteSet(SchedWorkers)
    BY SchedulingAssumption, FS_CardinalityType
<1>2. Cap(1) = Cardinality(SchedWorkers)
    BY <1>1 DEF Cap
<1>3. \A f \in Nat : Cap(f) \in Nat /\ Cap(1 + f) = Cap(f) + Cap(1)
    BY <1>1 DEF Cap
<1>4. ASSUME NEW x, NEW wk
      PROVE  /\ IsFiniteSet(Waiting(wk, x)) /\ Cardinality(Waiting(wk, x)) \in Nat
             /\ Cardinality(Waiting(wk, x)) <= Cap(1)
  <2>1. Waiting(wk, x) \subseteq SchedWorkers
    BY DEF Waiting
  <2> QED  BY <1>1, <1>2, <2>1, FS_Subset, FS_CardinalityType
<1> QED  BY <1>1, <1>2, <1>3, <1>4

\* p claims of the Run xr while rr waited, n workers that may still claim xr.
PairOK(rr, xr, p, n) ==
    /\ ~Ready(rr) \/ xr.state = "absent" => p = 0
    /\ Ready(rr) /\ xr.state = "expired" => p <= Cap(1 + xr.failed)
    /\ Ready(rr) /\ xr.state \in {"pending", "running", "done"} =>
          IF xr.key < rr.key THEN p <= Cap(xr.failed) ELSE p + n <= Cap(1 + xr.failed)

LEMMA ZeroOK ==
    ASSUME NEW rr, NEW xr \in Live \cup {Absent}, NEW n \in Nat, n <= Cap(1)
    PROVE  PairOK(rr, xr, 0, n)
<1>1. CASE xr = Absent
    BY <1>1 DEF PairOK, Absent
<1>2. CASE xr \in Live
  <2>1. xr.failed \in Nat
    BY <1>2 DEF Live
  <2>2. Cap(xr.failed) \in Nat /\ Cap(1 + xr.failed) = Cap(xr.failed) + Cap(1) /\ Cap(1) \in Nat
    BY <2>1, CapCounts
  <2> QED  BY <2>2 DEF PairOK
<1> QED  BY <1>1, <1>2

LEMMA MoveOK ==
    ASSUME NEW rr \in Live \cup {Absent}, NEW xr \in Live \cup {Absent}, NEW rs, NEW xs,
           NEW p \in Nat, NEW n \in Nat, NEW m \in Nat,
           PairOK(rr, xr, p, n), Move(rr, rs), Move(xr, xs), m <= n, n <= Cap(1)
    PROVE  PairOK(rs, xs, IF Ready(rs) THEN p ELSE 0, m)
<1>0. xs \in Live \cup {Absent} /\ Cap(1) \in Nat /\ m <= Cap(1)
    BY CapCounts DEF Move
<1>1. CASE ~Ready(rs) \/ p = 0
    BY <1>0, <1>1, ZeroOK
<1>2. CASE Ready(rs) /\ p # 0
  <2>1. Ready(rr) /\ xr.state # "absent"
    BY <1>2 DEF PairOK
  <2>2. xr \in Live /\ xs \in Live /\ rr \in Live /\ rs \in Live
    <3>1. xr \in Live
        BY <2>1, RowFields
    <3>2. rr.state # "absent"
        BY <2>1 DEF Ready
    <3>3. rr \in Live
        BY <3>2, RowFields
    <3> QED  BY <3>1, <3>3 DEF Move
  <2>3. /\ rs.key = rr.key /\ xr.key <= xs.key /\ (xr.state = "expired" => xs.key = xr.key)
        /\ rr.key \in Nat /\ xr.key \in Nat /\ xs.key \in Nat
    BY <2>1, <2>2 DEF Move, Live, Ready
  <2>4. /\ xr.state \in {"pending", "running", "expired", "done"}
        /\ xs.state \in {"pending", "running", "expired", "done"}
        /\ xr.failed \in Nat /\ xs.failed \in Nat
    BY <2>2 DEF Live
  <2>5. /\ Cap(xr.failed) \in Nat /\ Cap(1 + xr.failed) = Cap(xr.failed) + Cap(1) /\ Cap(1) \in Nat
        /\ Cap(xs.failed) \in Nat /\ Cap(1 + xs.failed) = Cap(xs.failed) + Cap(1)
    BY <2>4, CapCounts
  <2>6. CASE xs = xr
    BY <1>2, <2>1, <2>3, <2>4, <2>5, <2>6 DEF PairOK
  <2>7. CASE xr.state # "expired" /\ xs.failed = xr.failed
    BY <1>2, <2>1, <2>3, <2>4, <2>5, <2>7 DEF PairOK
  <2>8. CASE xr.state = "expired" /\ xs.failed = 1 + xr.failed /\ xs.state \in {"pending", "done"}
    <3>1. p <= Cap(xs.failed)
        BY <2>1, <2>8 DEF PairOK
    <3> QED  BY <1>0, <1>2, <2>3, <2>5, <2>8, <3>1 DEF PairOK
  <2> QED  BY <2>4, <2>6, <2>7, <2>8 DEF Move
<1> QED  BY <1>1, <1>2

\* xr is claimed by one of the workers that could.
LEMMA ClaimOK ==
    ASSUME NEW rr \in Live \cup {Absent}, NEW xr \in Live, NEW xs \in Live,
           NEW p \in Nat, NEW n \in Nat, NEW m \in Nat,
           PairOK(rr, xr, p, n), Ready(xr), xs.state = "running",
           Ready(rr) => rr.key < xs.key,
           xs.failed = IF xr.state = "expired" THEN xr.failed + 1 ELSE xr.failed,
           m + 1 = n, n <= Cap(1)
    PROVE  PairOK(rr, xs, IF Ready(rr) THEN p + 1 ELSE 0, m)
<1>0. Cap(1) \in Nat /\ m <= Cap(1)
    BY CapCounts
<1>1. CASE ~Ready(rr)
    BY <1>0, <1>1, ZeroOK
<1>2. CASE Ready(rr)
  <2>1. rr \in Live
    <3>1. rr.state # "absent"
        BY <1>2 DEF Ready
    <3> QED  BY <3>1, RowFields
  <2>2. rr.key \in Nat /\ xs.key \in Nat /\ xr.key \in Nat /\ xr.failed \in Nat /\ xs.failed \in Nat
    BY <2>1 DEF Live
  <2>3. /\ Cap(xr.failed) \in Nat /\ Cap(1 + xr.failed) = Cap(xr.failed) + Cap(1)
        /\ Cap(1 + xs.failed) = Cap(xs.failed) + Cap(1)
    BY <2>2, CapCounts
  <2>4. xr.state \in {"pending", "expired"}
    BY DEF Ready
  <2>5. (p + 1) + m <= Cap(1 + xs.failed)
    <3>1. CASE xr.state = "expired"
      <4>1. p <= Cap(1 + xr.failed) /\ xs.failed = 1 + xr.failed
        BY <1>2, <2>2, <3>1 DEF PairOK
      <4> QED  BY <1>0, <2>3, <4>1
    <3>2. CASE xr.state = "pending"
      <4>1. xs.failed = xr.failed
        BY <3>2
      <4>2. p <= Cap(xr.failed) \/ p + n <= Cap(1 + xr.failed)
        BY <1>2, <3>2 DEF PairOK
      <4> QED  BY <1>0, <2>3, <4>1, <4>2
    <3> QED  BY <2>4, <3>1, <3>2
  <2>6. ~(xs.key < rr.key)
    BY <1>2, <2>2
  <2> QED  BY <1>2, <2>5, <2>6 DEF PairOK
<1> QED  BY <1>1, <1>2

LEMMA PairRanked ==
    ASSUME NEW rr, NEW xr, NEW rs, NEW xs, NEW p, NEW n, PairOK(rr, xr, p, n),
           Same(rr, rs), Same(xr, xs), Ready(rr) <=> Ready(rs),
           rr.state # "absent" /\ xr.state # "absent" => ((xr.key < rr.key) <=> (xs.key < rs.key))
    PROVE  PairOK(rs, xs, p, n)
<1>1. Ready(rr) => rr.state # "absent"
    BY DEF Ready
<1>2. xr.state = xs.state /\ (xr.state # "absent" => xr.failed = xs.failed)
    BY DEF Same
<1>3. CASE ~Ready(rs) \/ xs.state = "absent"
    BY <1>2, <1>3 DEF PairOK
<1>4. CASE Ready(rs) /\ xs.state # "absent"
    BY <1>1, <1>2, <1>4 DEF PairOK
<1> QED  BY <1>3, <1>4

Bypass(rows, history, wk) ==
    /\ \A r, x \in SchedRuns :
        r # x => PairOK(rows[r], rows[x], history[r][x], Cardinality(Waiting(wk, x)))
    /\ \A r \in SchedRuns : history[r][r] = 0

LEMMA PresentRows ==
    ASSUME NEW rows \in Rows
    PROVE  /\ \A r \in SchedRuns : rows[r] \in Live \cup {Absent}
           /\ \A r \in Present(rows) : r \in SchedRuns /\ rows[r] \in Live /\ rows[r].key \in Nat
<1>1. \A r \in SchedRuns : rows[r] \in Live \cup {Absent}
    BY DEF Rows
<1>2. \A r \in Present(rows) : r \in SchedRuns /\ rows[r] \in Live
    BY <1>1, RowFields DEF Present
<1> QED  BY <1>1, <1>2 DEF Live

LEMMA BypassRanked ==
    ASSUME SchedTypes, NEW rows \in Rows, NEW claimed, SetQueue(rows, claimed), Distinct(rows),
           Bypass(rows, PassedBy(rows, claimed), worker')
    PROVE  Distinct(queue') /\ Bypass(queue', passed', worker')
<1>1. /\ queue' \in Rows
      /\ \A r \in SchedRuns : Same(rows[r], queue'[r])
      /\ \A r \in SchedRuns : Ready(rows[r]) <=> Ready(queue'[r])
      /\ \A r, x \in Present(rows) :
            (rows[r].key < rows[x].key) <=> (queue'[r].key < queue'[x].key)
      /\ Present(queue') = Present(rows)
    BY QueueStep
<1>2. passed' = PassedBy(rows, claimed)
    BY DEF SetQueue
<1>3. Distinct(queue')
  <2> SUFFICES ASSUME NEW r \in Present(queue'), NEW x \in Present(queue'),
                      queue'[r].key = queue'[x].key
               PROVE  r = x
    BY DEF Distinct
  <2>1. r \in Present(rows) /\ x \in Present(rows)
    BY <1>1
  <2>2. rows[r].key \in Nat /\ rows[x].key \in Nat /\ queue'[r].key \in Nat /\ queue'[x].key \in Nat
    BY <1>1, <2>1, PresentRows
  <2>3. ~(queue'[r].key < queue'[x].key) /\ ~(queue'[x].key < queue'[r].key)
    BY <2>2
  <2>4. ~(rows[r].key < rows[x].key) /\ ~(rows[x].key < rows[r].key)
    BY <1>1, <2>1, <2>3
  <2>5. rows[r].key = rows[x].key
    BY <2>2, <2>4
  <2> QED  BY <2>1, <2>5 DEF Distinct
<1>4. ASSUME NEW r \in SchedRuns, NEW x \in SchedRuns, r # x
      PROVE  PairOK(queue'[r], queue'[x], passed'[r][x], Cardinality(Waiting(worker', x)))
  <2>1. PairOK(rows[r], rows[x], passed'[r][x], Cardinality(Waiting(worker', x)))
    BY <1>2, <1>4 DEF Bypass
  <2>2. rows[r].state # "absent" /\ rows[x].state # "absent" =>
            ((rows[x].key < rows[r].key) <=> (queue'[x].key < queue'[r].key))
    BY <1>1 DEF Present
  <2> QED  BY <1>1, <2>1, <2>2, PairRanked
<1> QED  BY <1>2, <1>3, <1>4 DEF Bypass

\* The history of a step that claims nothing, or one Run.
LEMMA HistoryOf ==
    ASSUME NEW rows, NEW claimed, NEW r \in SchedRuns, NEW x \in SchedRuns
    PROVE  PassedBy(rows, claimed)[r][x] =
             IF Ready(rows[r]) THEN passed[r][x] + (IF x \in claimed /\ r # x THEN 1 ELSE 0) ELSE 0
BY DEF PassedBy

FairInv == SchedInv /\ Distinct(queue) /\ Bypass(queue, passed, worker)

LEMMA MovesFair ==
    ASSUME CoarseClock = FALSE, FairInv, NEW rows, Moves(rows), Calm
    PROVE  Distinct(queue') /\ Bypass(queue', passed', worker')
<1>1. /\ rows \in Rows /\ SetQueue(rows, {}) /\ \A r \in SchedRuns : Move(queue[r], rows[r])
      /\ \A x \in SchedRuns : Waiting(worker', x) \subseteq Waiting(worker, x)
      /\ SchedTypes /\ queue \in Rows
    BY DEF Moves, Calm, FairInv, SchedInv, SchedTypes
<1>2. Present(rows) \subseteq Present(queue)
  <2> SUFFICES ASSUME NEW r \in Present(rows) PROVE r \in Present(queue)
    OBVIOUS
  <2>1. r \in SchedRuns /\ rows[r].state # "absent" /\ Move(queue[r], rows[r])
    BY <1>1 DEF Present
  <2>2. CASE rows[r] = queue[r]
    BY <2>1, <2>2 DEF Present
  <2>3. CASE rows[r] # queue[r]
    BY <2>1, <2>3 DEF Present, Move, Live
  <2> QED  BY <2>2, <2>3
<1>3. Distinct(rows)
  <2>1. Rekeyed(rows) /\ Distinct(queue)
    BY DEF Moves, FairInv
  <2>2. CASE \A r \in Present(rows) : rows[r].key = queue[r].key
    BY <1>2, <2>1, <2>2 DEF Distinct
  <2>3. CASE \E c \in SchedRuns : /\ rows[c].key \in Now
                                  /\ \A r \in Present(rows) \ {c} : rows[r].key = queue[r].key
    <3>1. PICK c \in SchedRuns : /\ rows[c].key \in Now
                                /\ \A r \in Present(rows) \ {c} : rows[r].key = queue[r].key
        BY <2>3
    <3>2. rows[c].key \in Nat /\ \A r \in Present(queue) : queue[r].key < rows[c].key /\ queue[r].key \in Nat
        BY <1>1, <3>1, NowLater, PresentRows
    <3> QED  BY <1>2, <2>1, <3>1, <3>2 DEF Distinct
  <2> QED  BY <2>1, <2>2, <2>3 DEF Rekeyed
<1>4. ASSUME NEW r \in SchedRuns, NEW x \in SchedRuns, r # x
      PROVE  PairOK(rows[r], rows[x], PassedBy(rows, {})[r][x], Cardinality(Waiting(worker', x)))
  <2> DEFINE p == passed[r][x]
             n == Cardinality(Waiting(worker, x))
             m == Cardinality(Waiting(worker', x))
  <2>1. /\ p \in Nat /\ n \in Nat /\ m \in Nat /\ n <= Cap(1) /\ m <= n
    <3>1. p \in Nat
        BY <1>1 DEF SchedTypes
    <3>2. /\ n \in Nat /\ m \in Nat /\ n <= Cap(1)
          /\ IsFiniteSet(Waiting(worker, x)) /\ IsFiniteSet(Waiting(worker', x))
        BY CapCounts
    <3>3. m <= n
        BY <1>1, <3>2, FS_Subset
    <3> QED  BY <3>1, <3>2, <3>3
  <2>2. PairOK(queue[r], queue[x], p, n)
    BY <1>4 DEF FairInv, Bypass
  <2>3. PassedBy(rows, {})[r][x] = IF Ready(rows[r]) THEN p ELSE 0
    BY <2>1, HistoryOf
  <2>4. /\ queue[r] \in Live \cup {Absent} /\ queue[x] \in Live \cup {Absent}
        /\ Move(queue[r], rows[r]) /\ Move(queue[x], rows[x])
    BY <1>1, PresentRows
  <2> HIDE DEF p, n, m
  <2>5. PairOK(rows[r], rows[x], IF Ready(rows[r]) THEN p ELSE 0, m)
    BY <2>1, <2>2, <2>4, MoveOK
  <2> QED  BY <2>3, <2>5 DEF m
<1>5. \A r \in SchedRuns : PassedBy(rows, {})[r][r] = 0
    BY HistoryOf DEF FairInv, Bypass
<1>6. Bypass(rows, PassedBy(rows, {}), worker')
    BY <1>4, <1>5 DEF Bypass
<1> QED  BY <1>1, <1>3, <1>6, BypassRanked

LEMMA WaitingCounts ==
    ASSUME FairInv, NEW r \in SchedRuns, NEW x \in SchedRuns
    PROVE  /\ passed[r][x] \in Nat /\ Cardinality(Waiting(worker, x)) \in Nat
           /\ Cardinality(Waiting(worker', x)) \in Nat /\ Cap(1) \in Nat
           /\ Cardinality(Waiting(worker, x)) <= Cap(1) /\ Cardinality(Waiting(worker', x)) <= Cap(1)
           /\ IsFiniteSet(Waiting(worker, x)) /\ IsFiniteSet(Waiting(worker', x))
           /\ Waiting(worker', x) \subseteq Waiting(worker, x) =>
                Cardinality(Waiting(worker', x)) <= Cardinality(Waiting(worker, x))
<1>1. passed[r][x] \in Nat
    BY DEF FairInv, SchedInv, SchedTypes
<1>2. Waiting(worker', x) \subseteq Waiting(worker, x) =>
                Cardinality(Waiting(worker', x)) <= Cardinality(Waiting(worker, x))
    BY CapCounts, FS_Subset
<1> QED  BY <1>1, <1>2, CapCounts

LEMMA ClaimsFair ==
    ASSUME CoarseClock = FALSE, FairInv, NEW w \in SchedWorkers, NEW c, NEW now, NEW rows,
           Claims(w, c, now, rows)
    PROVE  Distinct(queue') /\ Bypass(queue', passed', worker')
<1>1. /\ now \in Now /\ c \in SchedRuns /\ w \in Waiting(worker, c) /\ Ready(queue[c])
      /\ rows \in Rows /\ SetQueue(rows, {c})
      /\ rows[c] \in Live /\ queue[c] \in Live
      /\ rows[c].state = "running" /\ rows[c].key = now
      /\ rows[c].failed = IF queue[c].state = "expired" THEN queue[c].failed + 1 ELSE queue[c].failed
      /\ \A x \in SchedRuns : x # c => rows[x] = queue[x]
      /\ \A x \in SchedRuns : Waiting(worker', x) = Waiting(worker, x) \ {w}
      /\ SchedTypes /\ queue \in Rows
    BY DEF Claims, FairInv, SchedInv, SchedTypes
<1>2. \A r \in Present(queue) : queue[r].key < now /\ queue[r].key \in Nat
    BY <1>1, NowLater, PresentRows
<1>3. Distinct(rows)
  <2> SUFFICES ASSUME NEW r \in Present(rows), NEW x \in Present(rows), rows[r].key = rows[x].key, r # x
               PROVE  FALSE
    BY DEF Distinct
  <2>1. now \in Nat
    BY <1>1, NowLater
  <2>2. \A y \in Present(rows) : y # c => y \in Present(queue) /\ rows[y] = queue[y]
    BY <1>1 DEF Present
  <2> QED  BY <1>1, <1>2, <2>1, <2>2 DEF Distinct, FairInv
<1>4. ASSUME NEW r \in SchedRuns, NEW x \in SchedRuns, r # x
      PROVE  PairOK(rows[r], rows[x], PassedBy(rows, {c})[r][x], Cardinality(Waiting(worker', x)))
  <2> DEFINE p == passed[r][x]
             n == Cardinality(Waiting(worker, x))
             m == Cardinality(Waiting(worker', x))
  <2>1. /\ p \in Nat /\ n \in Nat /\ m \in Nat /\ n <= Cap(1) /\ m <= n /\ m <= Cap(1)
        /\ IsFiniteSet(Waiting(worker, x))
    BY <1>1, WaitingCounts
  <2>2. PairOK(queue[r], queue[x], p, n)
    BY <1>4 DEF FairInv, Bypass
  <2>3. queue[r] \in Live \cup {Absent} /\ rows[x] \in Live \cup {Absent} /\ queue[x] \in Live \cup {Absent}
    BY <1>1, PresentRows
  <2>4. CASE r = c
    <3>1. ~Ready(rows[r])
        BY <1>1, <2>4 DEF Ready
    <3>2. PassedBy(rows, {c})[r][x] = 0
        BY <3>1, HistoryOf
    <3> QED  BY <2>1, <2>3, <3>2, ZeroOK
  <2>5. CASE x = c
    <3>1. rows[r] = queue[r]
        BY <1>1, <1>4, <2>5
    <3>2. PassedBy(rows, {c})[r][x] = IF Ready(queue[r]) THEN p + 1 ELSE 0
        BY <1>4, <2>1, <2>5, <3>1, HistoryOf
    <3>3. m + 1 = n
      <4>1. Waiting(worker', x) = Waiting(worker, x) \ {w} /\ w \in Waiting(worker, x)
        BY <1>1, <2>5
      <4>2. m = n - 1
        BY <2>1, <4>1, FS_RemoveElement
      <4> HIDE DEF m, n
      <4> QED  BY <2>1, <4>2
    <3>4. Ready(queue[r]) => queue[r].key < rows[x].key
      <4>1. Ready(queue[r]) => r \in Present(queue)
        BY DEF Ready, Present
      <4> QED  BY <1>1, <1>2, <2>5, <4>1
    <3>5. /\ Ready(queue[x]) /\ rows[x].state = "running" /\ queue[x] \in Live /\ rows[x] \in Live
          /\ rows[x].failed = IF queue[x].state = "expired" THEN queue[x].failed + 1 ELSE queue[x].failed
        BY <1>1, <2>5
    <3> HIDE DEF p, n, m
    <3>6. PairOK(queue[r], rows[x], IF Ready(queue[r]) THEN p + 1 ELSE 0, m)
        BY <2>1, <2>2, <2>3, <3>3, <3>4, <3>5, ClaimOK
    <3> QED  BY <3>1, <3>2, <3>6 DEF m
  <2>6. CASE r # c /\ x # c
    <3>1. rows[r] = queue[r] /\ rows[x] = queue[x]
        BY <1>1, <2>6
    <3>2. PassedBy(rows, {c})[r][x] = IF Ready(rows[r]) THEN p ELSE 0
        BY <2>1, <2>6, HistoryOf
    <3>3. Move(queue[r], rows[r]) /\ Move(queue[x], rows[x])
        BY <3>1 DEF Move
    <3> HIDE DEF p, n, m
    <3>4. PairOK(rows[r], rows[x], IF Ready(rows[r]) THEN p ELSE 0, m)
        BY <2>1, <2>2, <2>3, <3>3, MoveOK
    <3> QED  BY <3>2, <3>4 DEF m
  <2> QED  BY <2>4, <2>5, <2>6
<1>5. \A r \in SchedRuns : PassedBy(rows, {c})[r][r] = 0
    BY HistoryOf DEF FairInv, Bypass
<1>6. Bypass(rows, PassedBy(rows, {c}), worker')
    BY <1>4, <1>5 DEF Bypass
<1> QED  BY <1>1, <1>3, <1>6, BypassRanked

LEMMA AdmitsFair ==
    ASSUME CoarseClock = FALSE, FairInv, NEW c \in SchedRuns, NEW now, NEW rows, Admits(c, now, rows)
    PROVE  Distinct(queue') /\ Bypass(queue', passed', worker')
<1>1. /\ now \in Now /\ queue[c].state = "absent"
      /\ rows \in Rows /\ SetQueue(rows, {})
      /\ rows[c] \in Live /\ rows[c].key = now
      /\ \A x \in SchedRuns : x # c => rows[x] = queue[x]
      /\ worker' = worker /\ SchedTypes /\ queue \in Rows
    BY DEF Admits, FairInv, SchedInv, SchedTypes
<1>2. \A r \in Present(queue) : queue[r].key < now /\ queue[r].key \in Nat
    BY <1>1, NowLater, PresentRows
<1>3. Distinct(rows)
  <2> SUFFICES ASSUME NEW r \in Present(rows), NEW x \in Present(rows), rows[r].key = rows[x].key, r # x
               PROVE  FALSE
    BY DEF Distinct
  <2>1. now \in Nat
    BY <1>1, NowLater
  <2>2. \A y \in Present(rows) : y # c => y \in Present(queue) /\ rows[y] = queue[y]
    BY <1>1 DEF Present
  <2> QED  BY <1>1, <1>2, <2>1, <2>2 DEF Distinct, FairInv
<1>4. ASSUME NEW r \in SchedRuns, NEW x \in SchedRuns, r # x
      PROVE  PairOK(rows[r], rows[x], PassedBy(rows, {})[r][x], Cardinality(Waiting(worker', x)))
  <2> DEFINE p == passed[r][x]
             n == Cardinality(Waiting(worker, x))
             m == Cardinality(Waiting(worker', x))
  <2>1. /\ p \in Nat /\ n \in Nat /\ m \in Nat /\ n <= Cap(1) /\ m <= n /\ m <= Cap(1)
    BY <1>1, WaitingCounts
  <2>2. PairOK(queue[r], queue[x], p, n)
    BY <1>4 DEF FairInv, Bypass
  <2>3. queue[r] \in Live \cup {Absent} /\ rows[x] \in Live \cup {Absent} /\ queue[x] \in Live \cup {Absent}
    BY <1>1, PresentRows
  <2>4. PassedBy(rows, {})[r][x] = IF Ready(rows[r]) THEN p ELSE 0
    BY <2>1, HistoryOf
  <2>5. CASE r = c \/ x = c
    <3>1. p = 0
        BY <1>1, <2>2, <2>5 DEF PairOK, Ready
    <3> HIDE DEF p, n, m
    <3>2. PassedBy(rows, {})[r][x] = 0
        BY <2>4, <3>1
    <3> QED  BY <2>1, <2>3, <3>2, ZeroOK DEF m
  <2>6. CASE r # c /\ x # c
    <3>1. rows[r] = queue[r] /\ rows[x] = queue[x]
        BY <1>1, <2>6
    <3>2. Move(queue[r], rows[r]) /\ Move(queue[x], rows[x])
        BY <3>1 DEF Move
    <3> HIDE DEF p, n, m
    <3>3. PairOK(rows[r], rows[x], IF Ready(rows[r]) THEN p ELSE 0, m)
        BY <2>1, <2>2, <2>3, <3>2, MoveOK
    <3> QED  BY <2>4, <3>3 DEF m
  <2> QED  BY <2>5, <2>6
<1>5. \A r \in SchedRuns : PassedBy(rows, {})[r][r] = 0
    BY HistoryOf DEF FairInv, Bypass
<1>6. Bypass(rows, PassedBy(rows, {}), worker')
    BY <1>4, <1>5 DEF Bypass
<1> QED  BY <1>1, <1>3, <1>6, BypassRanked

\* Fewer workers may claim: the bound stays.
LEMMA FewerOK ==
    ASSUME NEW rr \in Live \cup {Absent}, NEW xr \in Live \cup {Absent}, NEW p \in Nat,
           NEW n \in Nat, NEW m \in Nat, PairOK(rr, xr, p, n), m <= n, n <= Cap(1)
    PROVE  PairOK(rr, xr, p, m)
<1>1. Move(rr, rr) /\ Move(xr, xr)
    BY DEF Move
<1>2. PairOK(rr, xr, IF Ready(rr) THEN p ELSE 0, m)
    BY <1>1, MoveOK
<1>3. p = IF Ready(rr) THEN p ELSE 0
    BY DEF PairOK
<1> QED  BY <1>2, <1>3

LEMMA QuietFair ==
    ASSUME FairInv, UNCHANGED <<queue, passed>>,
           \A x \in SchedRuns : Waiting(worker', x) \subseteq Waiting(worker, x)
    PROVE  Distinct(queue') /\ Bypass(queue', passed', worker')
<1>1. ASSUME NEW r \in SchedRuns, NEW x \in SchedRuns, r # x
      PROVE  PairOK(queue[r], queue[x], passed[r][x], Cardinality(Waiting(worker', x)))
  <2>1. PairOK(queue[r], queue[x], passed[r][x], Cardinality(Waiting(worker, x)))
    BY <1>1 DEF FairInv, Bypass
  <2>2. queue[r] \in Live \cup {Absent} /\ queue[x] \in Live \cup {Absent}
    BY PresentRows DEF FairInv, SchedInv, SchedTypes
  <2> QED  BY <2>1, <2>2, WaitingCounts, FewerOK
<1> QED  BY <1>1 DEF FairInv, Bypass

\* A scan finds a Run in front of every other one that waits: its key is
\* smaller, or it has lost a lease.
LEMMA ScanFair ==
    ASSUME FairInv, NEW w \in SchedWorkers, Scan(w)
    PROVE  Distinct(queue') /\ Bypass(queue', passed', worker')
<1>1. /\ UNCHANGED <<queue, passed>> /\ queue \in Rows
      /\ ReadyRuns = {} \/ \E f \in SchedRuns : Finds(w, f)
    BY ScanSteps DEF FairInv, SchedInv, SchedTypes
<1>2. ASSUME NEW r \in SchedRuns, NEW x \in SchedRuns, r # x
      PROVE  PairOK(queue[r], queue[x], passed[r][x], Cardinality(Waiting(worker', x)))
  <2>1. PairOK(queue[r], queue[x], passed[r][x], Cardinality(Waiting(worker, x)))
    BY <1>2 DEF FairInv, Bypass
  <2>2. queue[r] \in Live \cup {Absent} /\ queue[x] \in Live \cup {Absent}
    BY <1>1, PresentRows
  <2>3. CASE ~Ready(queue[r])
    BY <2>1, <2>3 DEF PairOK
  <2>4. CASE Ready(queue[r])
    <3>1. r \in ReadyRuns
        BY <2>4 DEF ReadyRuns
    <3>2. PICK f \in SchedRuns : Finds(w, f)
        BY <1>1, <3>1
    <3>3. CASE x # f
      <4>1. Waiting(worker', x) \subseteq Waiting(worker, x)
        BY <3>2, <3>3 DEF Finds
      <4> QED  BY <2>1, <2>2, <4>1, WaitingCounts, FewerOK
    <3>4. CASE x = f
      <4>1. Before(x, r)
        BY <1>2, <3>1, <3>2, <3>4 DEF Finds
      <4>2. r \in Present(queue) /\ x \in Present(queue)
        BY <2>4, <3>2, <3>4 DEF Finds, ReadyRuns, Ready, Present
      <4>3. queue[x].key # queue[r].key
        BY <1>2, <4>2 DEF FairInv, Distinct
      <4>4. queue[x].state = "expired" \/ queue[x].key < queue[r].key
        BY <4>1, <4>3 DEF Before
      <4> QED  BY <2>1, <2>4, <4>4 DEF PairOK
    <3> QED  BY <3>3, <3>4
  <2> QED  BY <2>3, <2>4
<1> QED  BY <1>1, <1>2 DEF FairInv, Bypass

LEMMA FairInvInit ==
    SchedInit => FairInv
<1> SUFFICES ASSUME SchedInit PROVE FairInv
    OBVIOUS
<1>1. SchedInv /\ queue \in Rows
    BY SchedInvInit DEF SchedInv, SchedTypes
<1>2. \A r \in SchedRuns : queue[r].state = "absent" /\ \A x \in SchedRuns : passed[r][x] = 0
    BY DEF SchedInit, Absent
<1>3. Distinct(queue)
    BY <1>2 DEF Distinct, Present
<1>4. Bypass(queue, passed, worker)
    BY <1>2 DEF Bypass, PairOK, Ready
<1> QED  BY <1>1, <1>3, <1>4 DEF FairInv

LEMMA FairInvStep ==
    ASSUME CoarseClock = FALSE, FairInv, [SchedNext]_schedVars
    PROVE  FairInv'
<1> DEFINE Fair == Distinct(queue') /\ Bypass(queue', passed', worker')
<1>0. SchedInv /\ SchedTypes /\ Owned(queue, worker) /\ Asking(queue, admission)
    BY DEF FairInv, SchedInv
<1>1. ASSUME UNCHANGED <<queue, passed>>,
             \A x \in SchedRuns : Waiting(worker', x) \subseteq Waiting(worker, x)
      PROVE  Fair
    BY <1>1, QuietFair
<1>2. ASSUME Idles PROVE Fair
    BY <1>1, <1>2 DEF Idles, Calm
<1>3. ASSUME NEW rows, Moves(rows), Calm PROVE Fair
    BY <1>3, MovesFair
<1>4. ASSUME NEW w \in SchedWorkers, Scan(w) PROVE Fair
    BY <1>4, ScanFair
<1>5. ASSUME NEW w \in SchedWorkers, NEW r, NEW now, NEW rows, Claims(w, r, now, rows)
      PROVE  Fair
    BY <1>5, ClaimsFair
<1>6. ASSUME NEW r \in SchedRuns, CountBacklog(r) PROVE Fair
    BY <1>1, <1>6 DEF CountBacklog
<1>7. ASSUME UNCHANGED <<queue, passed, versions, current, worker>> PROVE Fair
    BY <1>1, <1>7
<1>8. ASSUME NEW r \in SchedRuns, NEW now, NEW rows, Admits(r, now, rows) PROVE Fair
    BY <1>8, AdmitsFair
<1>9. ASSUME NEW d \in Docs, ApplyPolicy(d) PROVE Fair
    BY <1>1, <1>9 DEF ApplyPolicy
<1> HIDE DEF Fair
<1>10. Fair
  <2>1. \/ Idles
        \/ \E rows : Moves(rows) /\ Calm
        \/ \E w \in SchedWorkers : Scan(w)
        \/ \E w \in SchedWorkers : \E r, now, rows : Claims(w, r, now, rows)
        \/ \E r \in SchedRuns : CountBacklog(r)
        \/ UNCHANGED <<queue, passed, versions, current, worker>>
        \/ \E r \in SchedRuns : \E now, rows : Admits(r, now, rows)
        \/ \E d \in Docs : ApplyPolicy(d)
    BY <1>0, SchedSteps, Zenon
  <2> QED  BY ONLY <2>1, <1>2, <1>3, <1>4, <1>5, <1>6, <1>7, <1>8, <1>9
<1>11. SchedInv'
    BY <1>0, SchedInvStep
<1> QED  BY <1>10, <1>11 DEF FairInv, Fair

\* With a clock that gives every claim and yield its own key (PostgreSQL's
\* microseconds), a Run that waits is passed by each other one at most once
\* per worker, and once more per worker for every lease the other one lost
\* (due_run_ids, claim, reap_expired).  With SQLite's whole seconds keys tie.
THEOREM Fairness ==
    ASSUME CoarseClock = FALSE
    PROVE  SchedSpec => []BoundedBypass
<1>1. FairInv /\ [SchedNext]_schedVars => FairInv'
    BY FairInvStep
<1>2. FairInv => BoundedBypass
  <2> SUFFICES ASSUME FairInv, NEW r \in SchedRuns, NEW x \in SchedRuns, passed[r][x] > 0
               PROVE  passed[r][x] <= Cardinality(SchedWorkers) * (1 + queue[x].failed)
    BY DEF BoundedBypass
  <2> DEFINE p == passed[r][x]
             n == Cardinality(Waiting(worker, x))
  <2>1. r # x /\ PairOK(queue[r], queue[x], p, n)
    BY DEF FairInv, Bypass
  <2>2. p \in Nat /\ n \in Nat /\ p # 0
    BY WaitingCounts
  <2>3. Ready(queue[r]) /\ queue[x].state # "absent"
    BY <2>1, <2>2 DEF PairOK
  <2>4. queue[x] \in Live
    BY <2>3, PresentRows, RowFields DEF FairInv, SchedInv, SchedTypes
  <2>5. queue[x].failed \in Nat /\ queue[x].state \in {"pending", "running", "expired", "done"}
    BY <2>4 DEF Live
  <2>6. /\ Cap(queue[x].failed) \in Nat /\ Cap(1) \in Nat
        /\ Cap(1 + queue[x].failed) = Cap(queue[x].failed) + Cap(1)
    BY <2>5, CapCounts
  <2>7. \/ p <= Cap(1 + queue[x].failed) \/ p <= Cap(queue[x].failed)
        \/ p + n <= Cap(1 + queue[x].failed)
    BY <2>1, <2>3, <2>5 DEF PairOK
  <2>8. p <= Cap(1 + queue[x].failed)
    BY <2>2, <2>6, <2>7
  <2> QED  BY <2>8 DEF Cap
<1> QED  BY <1>1, <1>2, FairInvInit, PTL DEF SchedSpec
====
