-------------------------- MODULE WorkerQueueProofs --------------------------
(***************************************************************************)
(* Theorems about the worker loop and its queue, for any number of         *)
(* workers, Runs, messages and faults: the consumer group's bookkeeping    *)
(* stays well formed, and an uncertain result is not ACKed.                *)
(***************************************************************************)
EXTENDS WorkerQueue, FiniteSetTheorems, WellFoundedInduction, TLAPS

Memory == [pc : Pcs, job : Runs \cup {NoRun}, msg : 0..MaxMessages,
           ran : BOOLEAN, safe : BOOLEAN, ready : BOOLEAN, cursor : 0..MaxMessages]
Row    == [status : {"none", "pending", "running", "done"}, owner : Workers \cup {NoWorker},
           live : BOOLEAN, tries : 0..MaxTries]

RowsOK ==
    /\ run \in [Runs -> Row]
    /\ unsent \subseteq Runs /\ stop \subseteq Mortal

\* A worker that executes, or did so in this turn of its loop, has a Run; one
\* that is about to has not executed it in this turn.
MemoryOK(m) ==
    /\ m \in Memory
    /\ m.pc \in {"start", "executing"} => m.job \in Runs
    /\ m.ran => m.job \in Runs
    /\ m.pc = "start" => ~m.ran

\* While the heartbeat is sound, a worker that executed its Run and reports
\* it as handled has given the lease up or has lost it.
GivenUp(w, m) == m.pc = "settle" /\ m.ran /\ m.safe /\ ~unstable => ~Holds(w, m.job)

WorkersOK ==
    /\ worker \in [Workers -> Memory]
    /\ \A w \in Workers : MemoryOK(worker[w]) /\ GivenUp(w, worker[w])

RedisOK ==
    /\ up \in BOOLEAN /\ last \in 0..MaxMessages /\ faults \in 0..MaxFaults
    /\ DOMAIN log \subseteq 1..last
    /\ \A i \in DOMAIN log : log[i] \in Runs \cup {Garbage}
    /\ group \in [made : BOOLEAN, delivered : 0..last]
    /\ DOMAIN pel \subseteq 1..group.delivered
    /\ \A i \in DOMAIN pel : pel[i] \in Workers
    /\ idle \subseteq DOMAIN pel

QIInv == RowsOK /\ WorkersOK /\ RedisOK

-----------------------------------------------------------------------------
(***************************************************************************)
(* The memory of a worker.                                                 *)
(***************************************************************************)
LEMMA Bounds == /\ MaxTries \in Nat /\ MaxMessages \in Nat /\ MaxFaults \in Nat
                /\ MaxUnstable \in Nat /\ MaxUnstable <= MaxMessages
BY QueueAssumption

LEMMA RestingOK ==
    ASSUME NEW pc \in Pcs \ {"start", "executing"},
           NEW link, link.ready \in BOOLEAN, link.cursor \in 0..MaxMessages, NEW w
    PROVE  MemoryOK(Resting(pc, link)) /\ GivenUp(w, Resting(pc, link))
BY Bounds DEF Resting, Begin, MemoryOK, GivenUp, Memory

LEMMA DisconnectedLink == Disconnected.ready \in BOOLEAN /\ Disconnected.cursor \in 0..MaxMessages
BY Bounds DEF Disconnected

LEMMA MemoryLink ==
    ASSUME NEW m \in Memory
    PROVE  m.ready \in BOOLEAN /\ m.cursor \in 0..MaxMessages
BY DEF Memory

\* Nobody but worker w gains a lease.
OnlyClaims(w) == \A u \in Workers, r \in Runs : u # w /\ Holds(u, r)' => Holds(u, r)

\* A step in which worker w alone moves, to memory m.
LEMMA MoveOK ==
    ASSUME WorkersOK, NEW w \in Workers, NEW m, Set(w, m), UNCHANGED unstable,
           MemoryOK(m), m.pc = "settle" /\ m.ran /\ m.safe /\ ~unstable => ~Holds(w, m.job)',
           OnlyClaims(w)
    PROVE  WorkersOK'
<1>1. /\ worker' \in [Workers -> Memory] /\ worker'[w] = m
      /\ \A u \in Workers : u # w => worker'[u] = worker[u]
  BY DEF WorkersOK, Set, MemoryOK
<1>2. ASSUME NEW u \in Workers PROVE MemoryOK(worker'[u])
  BY <1>1 DEF WorkersOK
<1>3. ASSUME NEW u \in Workers PROVE GivenUp(u, worker[u])'
  <2>1. CASE u = w
    BY <2>1, <1>1 DEF GivenUp
  <2>2. CASE u # w
    <3>1. GivenUp(u, worker[u]) /\ MemoryOK(worker[u]) /\ worker'[u] = worker[u]
      BY <2>2, <1>1 DEF WorkersOK
    <3> QED BY <2>2, <3>1 DEF GivenUp, MemoryOK, OnlyClaims
  <2> QED BY <2>1, <2>2
<1> QED BY <1>1, <1>2, <1>3 DEF WorkersOK, MemoryOK

\* A step in which no worker moves.
LEMMA StayOK ==
    ASSUME WorkersOK, UNCHANGED <<worker, unstable>>,
           \A u \in Workers, r \in Runs : Holds(u, r)' => Holds(u, r)
    PROVE  WorkersOK'
<1>1. ASSUME NEW u \in Workers PROVE GivenUp(u, worker[u])'
  BY DEF WorkersOK, GivenUp, MemoryOK
<1> QED BY <1>1 DEF WorkersOK, MemoryOK

-----------------------------------------------------------------------------
(***************************************************************************)
(* The rows.                                                               *)
(***************************************************************************)
\* No row changes: nobody gains a lease.
LEMMA SameRows ==
    ASSUME UNCHANGED run
    PROVE  /\ \A u \in Workers, r \in Runs : Holds(u, r)' => Holds(u, r)
           /\ \A w \in Workers : OnlyClaims(w)
BY DEF Holds, OnlyClaims

\* Row r changes and loses its lease, if it had one.
LEMMA RowLeaves ==
    ASSUME RowsOK, NEW r \in Runs, NEW row \in Row, row.status # "running" \/ ~row.live,
           run' = [run EXCEPT ![r] = row]
    PROVE  /\ run' \in [Runs -> Row]
           /\ \A u \in Workers : ~Holds(u, r)'
           /\ \A u \in Workers, q \in Runs : Holds(u, q)' => Holds(u, q)
           /\ \A w \in Workers : OnlyClaims(w)
<1>1. run' \in [Runs -> Row] /\ run'[r] = row /\ \A q \in Runs : q # r => run'[q] = run[q]
  BY DEF RowsOK
<1>2. \A u \in Workers, q \in Runs : Holds(u, q)' => q # r /\ Holds(u, q)
  BY <1>1 DEF Holds
<1> QED BY <1>1, <1>2 DEF OnlyClaims

LEMMA RowFields ==
    ASSUME RowsOK, NEW r \in Runs
    PROVE  /\ run[r] \in Row
           /\ Ended(r) \in Row /\ Ended(r).status # "running"
           /\ run[r].tries > 0 => Released(r) \in Row /\ Released(r).status # "running"
<1>1. run[r] \in Row /\ run[r].tries \in 0..MaxTries
  BY DEF RowsOK, Row
<1>2. Ended(r) \in Row /\ Ended(r).status = "done"
  BY <1>1 DEF Ended, Row
<1>3. run[r].tries > 0 => run[r].tries - 1 \in 0..MaxTries
  BY <1>1, Bounds
<1> QED BY <1>1, <1>2, <1>3 DEF Released, Row

LEMMA DatabaseSteps ==
    ASSUME QIInv, UNCHANGED unstable, NEW r \in Runs, CreateRun(r) \/ Lapse(r)
    PROVE  QIInv'
<1>1. RedisOK'
  BY DEF QIInv, RedisOK, CreateRun, Lapse, redis
<1>2. UNCHANGED <<worker, unstable>>
  BY DEF CreateRun, Lapse
<1>3. /\ run' \in [Runs -> Row]
      /\ \A u \in Workers, q \in Runs : Holds(u, q)' => Holds(u, q)
  <2>1. CASE CreateRun(r)
    BY <2>1 DEF QIInv, RowsOK, Row, CreateRun, Holds
  <2>2. CASE Lapse(r)
    BY <2>2 DEF QIInv, RowsOK, Row, Lapse, Holds
  <2> QED BY <2>1, <2>2
<1>4. RowsOK'
  BY <1>3 DEF QIInv, RowsOK, CreateRun, Lapse
<1>5. WorkersOK'
  BY <1>2, <1>3, StayOK DEF QIInv
<1> QED BY <1>1, <1>4, <1>5 DEF QIInv

-----------------------------------------------------------------------------
(***************************************************************************)
(* Redis.                                                                  *)
(***************************************************************************)
\* A set of numbers that is not empty has a least one.
LEMMA Least ==
    ASSUME NEW S, S \subseteq Nat, S # {}
    PROVE  Min(S) \in S
<1>1. \E n \in S : \A m \in S : <<m, n>> \notin OpToRel(<, Nat)
  BY NatLessThanWellFounded, WFMin
<1>2. PICK n \in S : \A m \in S : <<m, n>> \notin OpToRel(<, Nat)
  BY <1>1
<1>3. ASSUME NEW m \in S PROVE n <= m
  <2>1. ~(m < n)
    BY <1>2, <1>3 DEF OpToRel
  <2> QED BY <2>1
<1>4. \E k \in S : \A m \in S : k <= m
  BY <1>3
<1> QED BY <1>4 DEF Min

LEMMA AddOK ==
    ASSUME RedisOK, NEW message \in Runs \cup {Garbage}, Add(message),
           UNCHANGED <<up, group, pel, idle>>, faults' \in 0..MaxFaults
    PROVE  RedisOK'
<1>1. last' = last + 1 /\ last \in Nat /\ last' \in 0..MaxMessages
  BY Bounds DEF Add, RedisOK
<1> DEFINE grown == Put(log, last + 1, message)
<1>2. PICK dropped : log' = Restrict(grown, DOMAIN grown \ dropped)
  BY DEF Add
<1>3. DOMAIN grown = DOMAIN log \cup {last + 1}
      /\ \A i \in DOMAIN grown : grown[i] \in Runs \cup {Garbage}
  BY DEF Put, RedisOK
<1> HIDE DEF grown
<1>4. DOMAIN log' \subseteq DOMAIN grown /\ \A i \in DOMAIN log' : log'[i] = grown[i]
  BY <1>2 DEF Restrict
<1>5. DOMAIN log \subseteq 1..last /\ 1..last \subseteq 1..(last + 1) /\ last + 1 \in 1..(last + 1)
  BY <1>1 DEF RedisOK
<1>6. DOMAIN log' \subseteq 1..last'
  BY <1>1, <1>3, <1>4, <1>5
<1>7. group \in [made : BOOLEAN, delivered : 0..last']
  <2>1. 0..last \subseteq 0..last'
    BY <1>1
  <2> QED BY <2>1 DEF RedisOK
<1> QED BY <1>1, <1>3, <1>4, <1>6, <1>7 DEF RedisOK

LEMMA FaultOK == ASSUME RedisOK, Fault PROVE faults' \in 0..MaxFaults
BY Bounds DEF RedisOK, Fault

LEMMA RedisSteps ==
    ASSUME QIInv, UNCHANGED unstable,
           \/ \E r \in Runs : Publish(r) \/ Intrude(r)
           \/ Intrude(Garbage) \/ GoDown \/ ComeBack \/ LoseData
           \/ \E i \in Ids : GrowIdle(i)
    PROVE  QIInv'
<1>1. UNCHANGED <<worker, run, stop>> /\ unsent' \subseteq unsent
  BY DEF Publish, Intrude, GoDown, ComeBack, LoseData, GrowIdle
<1>2. RowsOK'
  BY <1>1 DEF QIInv, RowsOK
<1>3. WorkersOK'
  BY <1>1, SameRows, StayOK DEF QIInv
<1>4. RedisOK'
  <2>1. CASE \E r \in Runs : Publish(r)
    <3>1. PICK r \in Runs : Publish(r)
      BY <2>1
    <3>2. CASE Add(r) /\ UNCHANGED <<up, group, pel, idle, faults>>
      BY <3>2, AddOK DEF QIInv, RedisOK
    <3>3. CASE UNCHANGED redis
      BY <3>3 DEF QIInv, RedisOK, redis
    <3> QED BY <3>1, <3>2, <3>3 DEF Publish
  <2>2. CASE \E message \in Runs \cup {Garbage} : Intrude(message)
    <3>1. PICK message \in Runs \cup {Garbage} : Intrude(message)
      BY <2>2
    <3> QED BY <3>1, AddOK, FaultOK DEF QIInv, Intrude
  <2>3. CASE GoDown \/ ComeBack
    BY <2>3, FaultOK DEF QIInv, RedisOK, GoDown, ComeBack
  <2>4. CASE LoseData
    <3>1. DOMAIN <<>> = {}
      OBVIOUS
    <3>2. 0 \in 0..last
      BY DEF QIInv, RedisOK
    <3> QED BY <2>4, <3>1, <3>2, FaultOK DEF QIInv, RedisOK, LoseData
  <2>5. CASE \E i \in Ids : GrowIdle(i)
    BY <2>5 DEF QIInv, RedisOK, GrowIdle
  <2> QED BY <2>1, <2>2, <2>3, <2>4, <2>5
<1> QED BY <1>2, <1>3, <1>4 DEF QIInv

\* An entry forgotten, or given to a worker.
LEMMA ForgetOK ==
    ASSUME RedisOK, NEW i, Forget(i), idle' = idle \ {i},
           group' \in [made : BOOLEAN, delivered : 0..last], group'.delivered = group.delivered,
           faults' \in 0..MaxFaults, UNCHANGED <<up, log, last>>
    PROVE  RedisOK'
<1>1. DOMAIN pel' = DOMAIN pel \ {i} /\ \A j \in DOMAIN pel' : pel'[j] = pel[j]
  BY DEF Forget, Restrict
<1> QED BY <1>1 DEF RedisOK

LEMMA AssignOK ==
    ASSUME RedisOK, NEW i, NEW w \in Workers, Assign(i, w), idle' \subseteq idle,
           group' \in [made : BOOLEAN, delivered : 0..last],
           group.delivered <= group'.delivered, i \in 1..group'.delivered,
           faults' \in 0..MaxFaults, UNCHANGED <<up, log, last>>
    PROVE  RedisOK'
<1>1. DOMAIN pel' = DOMAIN pel \cup {i}
      /\ \A j \in DOMAIN pel' : pel'[j] = IF j = i THEN w ELSE pel[j]
  BY DEF Assign, Put
<1>2. 1..group.delivered \subseteq 1..group'.delivered
  <2>1. group.delivered \in Nat /\ group'.delivered \in Nat
    BY DEF RedisOK
  <2> QED BY <2>1
<1> QED BY <1>1, <1>2 DEF RedisOK

-----------------------------------------------------------------------------
(***************************************************************************)
(* The steps of a worker.                                                  *)
(***************************************************************************)
LEMMA WorkerMemory ==
    ASSUME QIInv, NEW w \in Workers
    PROVE  /\ worker[w] \in Memory /\ MemoryOK(worker[w]) /\ GivenUp(w, worker[w])
           /\ worker[w].ready \in BOOLEAN /\ worker[w].cursor \in 0..MaxMessages
BY MemoryLink DEF QIInv, WorkersOK

\* To go on with another pc that is neither the start nor the end of a job.
LEMMA GotoOK ==
    ASSUME QIInv, NEW w \in Workers, NEW pc \in {"scan", "fetch", "read", "stopped"}
    PROVE  /\ MemoryOK([worker[w] EXCEPT !.pc = pc])
           /\ [worker[w] EXCEPT !.pc = pc].pc # "settle"
<1>1. worker[w] \in Memory /\ MemoryOK(worker[w])
  BY WorkerMemory
<1> DEFINE m == [worker[w] EXCEPT !.pc = pc]
<1>2. m \in Memory /\ m.pc = pc /\ m.job = worker[w].job /\ m.ran = worker[w].ran
  BY <1>1 DEF Memory, Pcs
<1> QED BY <1>1, <1>2 DEF MemoryOK

\* A step that leaves the rows and Redis alone and rests, or goes on.
LEMMA QuietSteps ==
    ASSUME QIInv, UNCHANGED <<run, unsent, unstable>>, stop' \subseteq Mortal, NEW w \in Workers,
           \/ \E pc \in {"scan", "fetch", "read", "stopped"} : Goto(w, pc)
           \/ \E pc \in Pcs \ {"start", "executing", "settle"}, link \in {worker[w], Disconnected} :
                Set(w, Resting(pc, link))
    PROVE  RowsOK' /\ WorkersOK'
<1>1. RowsOK'
  BY DEF QIInv, RowsOK
<1>2. OnlyClaims(w)
  BY SameRows
<1>3. CASE \E pc \in {"scan", "fetch", "read", "stopped"} : Goto(w, pc)
  <2>1. PICK pc \in {"scan", "fetch", "read", "stopped"} : Goto(w, pc)
    BY <1>3
  <2> DEFINE m == [worker[w] EXCEPT !.pc = pc]
  <2>2. Set(w, m) /\ MemoryOK(m) /\ m.pc # "settle"
    BY <2>1, GotoOK DEF Goto
  <2> HIDE DEF m
  <2>3. WorkersOK'
    BY <1>2, <2>2, MoveOK DEF QIInv
  <2> QED BY <1>1, <2>3
<1>4. CASE \E pc \in Pcs \ {"start", "executing", "settle"}, link \in {worker[w], Disconnected} :
              Set(w, Resting(pc, link))
  <2>1. PICK pc \in Pcs \ {"start", "executing", "settle"}, link \in {worker[w], Disconnected} :
              Set(w, Resting(pc, link))
    BY <1>4
  <2>2. link.ready \in BOOLEAN /\ link.cursor \in 0..MaxMessages
    BY WorkerMemory, DisconnectedLink
  <2>3. MemoryOK(Resting(pc, link))
    BY <2>2, RestingOK
  <2>4. Resting(pc, link).pc # "settle"
    BY DEF Resting, Begin
  <2>5. WorkersOK'
    BY <1>2, <2>1, <2>3, <2>4, MoveOK DEF QIInv
  <2> QED BY <1>1, <2>5
<1> QED BY <1>3, <1>4

LEMMA ReapStep == ASSUME QIInv, UNCHANGED unstable, NEW w \in Workers, Reap(w) PROVE QIInv'
<1>1. RedisOK'
  BY DEF QIInv, RedisOK, Reap, redis
<1>2. \A r \in Runs : run'[r] \in Row /\ (run'[r] = run[r] \/ run'[r].status # "running")
  <2> SUFFICES ASSUME NEW r \in Runs
               PROVE  run'[r] \in Row /\ (run'[r] = run[r] \/ run'[r].status # "running")
    OBVIOUS
  <2>1. run'[r] = IF ~Lost(r) THEN run[r] ELSE IF run[r].tries = 0 THEN Ended(r) ELSE Released(r)
    BY DEF Reap
  <2>2. run[r].tries \in Nat
    BY Bounds DEF QIInv, RowsOK, Row
  <2>3. run[r].tries # 0 => run[r].tries > 0
    BY <2>2
  <2> QED BY <2>1, <2>3, RowFields DEF QIInv
<1>3. run' \in [Runs -> Row]
  BY <1>2 DEF Reap
<1>4. RowsOK'
  BY <1>3 DEF QIInv, RowsOK, Reap
<1>5. OnlyClaims(w)
  BY <1>2 DEF OnlyClaims, Holds
<1> DEFINE m == [worker[w] EXCEPT !.pc = "scan"]
<1>6. Set(w, m) /\ MemoryOK(m) /\ m.pc # "settle"
  BY GotoOK DEF Reap, Goto
<1> HIDE DEF m
<1>7. WorkersOK'
  BY <1>5, <1>6, MoveOK DEF QIInv
<1> QED BY <1>1, <1>4, <1>7 DEF QIInv

\* Taking up a job, or an invalid delivery.
LEMMA FreshStep ==
    ASSUME QIInv, UNCHANGED <<run, unsent, stop, unstable>>, NEW w \in Workers,
           NEW m, MemoryOK(m), ~m.ran, Set(w, m)
    PROVE  RowsOK' /\ WorkersOK'
<1>1. RowsOK'
  BY DEF QIInv, RowsOK
<1>2. WorkersOK'
  BY SameRows, MoveOK DEF QIInv
<1> QED BY <1>1, <1>2

LEMMA ScanStep == ASSUME QIInv, UNCHANGED unstable, NEW w \in Workers, Scan(w) PROVE QIInv'
<1>1. RedisOK' /\ UNCHANGED <<run, unsent, stop>>
  BY DEF QIInv, RedisOK, Scan, redis
<1>2. stop' \subseteq Mortal
  BY <1>1 DEF QIInv, RowsOK
<1>3. CASE Goto(w, "fetch")
  BY <1>1, <1>2, <1>3, QuietSteps DEF QIInv
<1>4. CASE \E r \in Runs : Set(w, Begin("start", r, 0, FALSE, worker[w]))
  <2>1. PICK r \in Runs : Set(w, Begin("start", r, 0, FALSE, worker[w]))
    BY <1>4
  <2> DEFINE m == Begin("start", r, 0, FALSE, worker[w])
  <2>2. "start" \in Pcs /\ 0 \in 0..MaxMessages /\ FALSE \in BOOLEAN /\ r \in Runs \cup {NoRun}
    BY Bounds DEF Pcs
  <2>3. worker[w].ready \in BOOLEAN /\ worker[w].cursor \in 0..MaxMessages
    BY WorkerMemory
  <2>4. MemoryOK(m) /\ ~m.ran
    BY <2>2, <2>3 DEF MemoryOK, Begin, Memory
  <2> HIDE DEF m
  <2>5. Set(w, m)
    BY <2>1 DEF m
  <2>6. RowsOK' /\ WorkersOK'
    BY <1>1, <2>4, <2>5, FreshStep
  <2> QED BY <1>1, <2>6 DEF QIInv
<1> QED BY <1>3, <1>4 DEF Scan

\* A delivery of a retained message.
LEMMA HandlingStep ==
    ASSUME QIInv, UNCHANGED <<run, unsent, stop, unstable>>, NEW w \in Workers,
           NEW i \in DOMAIN log, NEW link, link.ready \in BOOLEAN, link.cursor \in 0..MaxMessages,
           Set(w, Handling(i, link))
    PROVE  RowsOK' /\ WorkersOK'
<1>1. /\ "start" \in Pcs /\ "settle" \in Pcs /\ FALSE \in BOOLEAN /\ TRUE \in BOOLEAN
      /\ NoRun \in Runs \cup {NoRun}
  BY DEF Pcs
<1>2. i \in 0..MaxMessages /\ log[i] \in Runs \cup {Garbage}
  BY Bounds DEF QIInv, RedisOK
<1> DEFINE m == Handling(i, link)
<1>3. MemoryOK(m) /\ ~m.ran
  <2>1. CASE log[i] = Garbage
    <3>1. m = Begin("settle", NoRun, i, TRUE, link)
      BY <2>1 DEF Handling
    <3> QED BY <1>1, <1>2, <3>1 DEF MemoryOK, Begin, Memory
  <2>2. CASE log[i] # Garbage
    <3>1. m = Begin("start", log[i], i, FALSE, link) /\ log[i] \in Runs
      BY <1>2, <2>2 DEF Handling
    <3> QED BY <1>1, <1>2, <3>1 DEF MemoryOK, Begin, Memory
  <2> QED BY <2>1, <2>2
<1> HIDE DEF m
<1>4. Set(w, m)
  BY DEF m
<1> QED BY <1>3, <1>4, FreshStep

LEMMA CursorOK ==
    ASSUME QIInv, NEW i
    PROVE  NextCursor(i) \in 0..MaxMessages
<1> DEFINE later == {j \in DOMAIN pel : j > i}
<1>1. later \subseteq 1..MaxMessages
  BY Bounds DEF QIInv, RedisOK
<1>2. later # {} => Min(later) \in later
  BY <1>1, Bounds, Least
<1> HIDE DEF later
<1>3. later # {} => Min(later) \in 0..MaxMessages
  <2>1. \A x \in 1..MaxMessages : x \in 0..MaxMessages
    BY Bounds
  <2> QED BY <1>1, <1>2, <2>1
<1>4. NextCursor(i) = IF later = {} THEN 0 ELSE Min(later)
  BY DEF NextCursor, later
<1> QED BY <1>3, <1>4, Bounds

LEMMA ClaimStaleStep == ASSUME QIInv, UNCHANGED unstable, NEW w \in Workers, ClaimStale(w) PROVE QIInv'
<1> DEFINE stale == {i \in idle : i >= worker[w].cursor}
           i     == Min(stale)
           next  == IF stale = {} THEN 0 ELSE NextCursor(i)
           pass  == [worker[w] EXCEPT !.pc = "read", !.ready = TRUE, !.cursor = next]
           link  == [ready |-> TRUE, cursor |-> next]
<1>1. /\ group' = [group EXCEPT !.made = TRUE]
      /\ UNCHANGED <<run, unsent, stop, up, log, last, faults>>
      /\ \/ Set(w, pass) /\ UNCHANGED <<pel, idle>>
         \/ Set(w, pass) /\ Forget(i) /\ idle' = idle \ {i}
         \/ /\ stale # {} /\ i \in DOMAIN log
            /\ Assign(i, w) /\ idle' = idle \ {i} /\ Set(w, Handling(i, link))
  BY DEF ClaimStale
<1>2. next \in 0..MaxMessages
  BY CursorOK, Bounds
<1>3. stale # {} => i \in idle
  <2>1. stale \subseteq Nat
    BY DEF QIInv, RedisOK
  <2> QED BY <2>1, Least
<1> HIDE DEF next, i
<1>4. /\ group' \in [made : BOOLEAN, delivered : 0..last] /\ group'.delivered = group.delivered
      /\ group.delivered \in Nat /\ faults' \in 0..MaxFaults
  <2>1. group \in [made : BOOLEAN, delivered : 0..last] /\ last \in Nat /\ faults \in 0..MaxFaults
    BY DEF QIInv, RedisOK
  <2>2. group' = [made |-> TRUE, delivered |-> group.delivered]
    BY <1>1, <2>1
  <2>3. group.delivered \in 0..last /\ group'.delivered = group.delivered
    BY <2>1, <2>2
  <2>4. group' \in [made : BOOLEAN, delivered : 0..last]
    BY <2>2, <2>3
  <2> QED BY <1>1, <2>1, <2>3, <2>4
<1>5. ASSUME Set(w, pass) PROVE RowsOK' /\ WorkersOK'
  <2>1. worker[w] \in Memory /\ MemoryOK(worker[w])
    BY WorkerMemory
  <2>2. /\ pass \in Memory /\ pass.pc = "read" /\ pass.job = worker[w].job
        /\ pass.ran = worker[w].ran
    BY <2>1, <1>2 DEF Memory, Pcs
  <2>3. MemoryOK(pass) /\ pass.pc # "settle"
    BY <2>1, <2>2 DEF MemoryOK
  <2> HIDE DEF pass
  <2>4. RowsOK'
    BY <1>1 DEF QIInv, RowsOK
  <2>5. WorkersOK'
    BY <1>1, <1>5, <2>3, SameRows, MoveOK DEF QIInv
  <2> QED BY <2>4, <2>5
<1>6. RowsOK' /\ WorkersOK'
  <2>1. CASE Set(w, Handling(i, link)) /\ i \in DOMAIN log
    <3>1. link.ready \in BOOLEAN /\ link.cursor \in 0..MaxMessages
      BY <1>2
    <3> HIDE DEF link
    <3> QED BY <1>1, <2>1, <3>1, HandlingStep
  <2> QED BY <1>1, <1>5, <2>1
<1>7. RedisOK'
  <2>1. CASE UNCHANGED <<pel, idle>>
    BY <1>1, <1>4, <2>1 DEF QIInv, RedisOK
  <2>2. CASE Forget(i) /\ idle' = idle \ {i}
    BY <1>1, <1>4, <2>2, ForgetOK DEF QIInv
  <2>3. CASE stale # {} /\ Assign(i, w) /\ idle' = idle \ {i}
    <3>1. i \in 1..group'.delivered
      BY <1>3, <1>4, <2>3 DEF QIInv, RedisOK
    <3>2. group.delivered <= group'.delivered
      BY <1>4
    <3> QED BY <1>1, <1>4, <2>3, <3>1, <3>2, AssignOK DEF QIInv
  <2> QED BY <1>1, <2>1, <2>2, <2>3
<1> QED BY <1>6, <1>7 DEF QIInv

\* The next message of the stream is read: it becomes pending.
LEMMA ReadFacts ==
    ASSUME QIInv, NEW w \in Workers, Unread # {}, Assign(Min(Unread), w),
           group' = [group EXCEPT !.delivered = Min(Unread)], UNCHANGED <<up, log, last, idle>>,
           faults' \in 0..MaxFaults
    PROVE  Min(Unread) \in DOMAIN log /\ RedisOK'
<1> DEFINE i == Min(Unread)
<1>1. Unread \subseteq Nat
  BY DEF QIInv, RedisOK, Unread
<1>2. i \in Unread
  BY <1>1, Least
<1> HIDE DEF i
<1>3. i \in DOMAIN log /\ i > group.delivered /\ i \in 1..last /\ group.delivered \in Nat
  BY <1>2 DEF QIInv, RedisOK, Unread
<1>4. group' \in [made : BOOLEAN, delivered : 0..last] /\ group'.delivered = i
  BY <1>3 DEF QIInv, RedisOK, i
<1>5. i \in 1..group'.delivered /\ group.delivered <= group'.delivered
  BY <1>3, <1>4
<1>6. Assign(i, w)
  BY DEF i
<1>7. RedisOK'
  BY <1>4, <1>5, <1>6, AssignOK DEF QIInv
<1> QED BY <1>3, <1>7 DEF i

LEMMA ReadNewStep == ASSUME QIInv, UNCHANGED unstable, NEW w \in Workers, ReadNew(w) PROVE QIInv'
<1>1. UNCHANGED <<run, unsent, stop, up, log, last, idle, faults>> /\ stop' \subseteq Mortal
  BY DEF ReadNew, QIInv, RowsOK
<1>2. faults' \in 0..MaxFaults
  BY <1>1 DEF QIInv, RedisOK
<1>3. CASE Unread = {}
  <2>1. Set(w, Resting("reap", worker[w])) /\ UNCHANGED <<group, pel>>
    BY <1>3 DEF ReadNew, Rest
  <2>2. RowsOK' /\ WorkersOK'
    BY <1>1, <2>1, QuietSteps DEF Pcs
  <2>3. RedisOK'
    BY <1>1, <2>1 DEF QIInv, RedisOK
  <2> QED BY <2>2, <2>3 DEF QIInv
<1>4. CASE Unread # {}
  <2>1. /\ Assign(Min(Unread), w) /\ group' = [group EXCEPT !.delivered = Min(Unread)]
        /\ Set(w, Handling(Min(Unread), worker[w]))
    BY <1>4 DEF ReadNew
  <2>2. Min(Unread) \in DOMAIN log /\ RedisOK'
    BY <1>1, <1>2, <1>4, <2>1, ReadFacts
  <2>3. RowsOK' /\ WorkersOK'
    BY <1>1, <2>1, <2>2, WorkerMemory, HandlingStep
  <2> QED BY <2>2, <2>3 DEF QIInv
<1> QED BY <1>3, <1>4

LEMMA ReadLostStep == ASSUME QIInv, UNCHANGED unstable, NEW w \in Workers, ReadLost(w) PROVE QIInv'
<1>1. /\ UNCHANGED <<run, unsent, stop, up, log, last, idle>> /\ stop' \subseteq Mortal
      /\ Unread # {}
      /\ Assign(Min(Unread), w) /\ group' = [group EXCEPT !.delivered = Min(Unread)]
  BY DEF ReadLost, QIInv, RowsOK
<1>2. faults' \in 0..MaxFaults
  BY FaultOK DEF QIInv, RedisOK, ReadLost
<1>3. RedisOK'
  BY <1>1, <1>2, ReadFacts
<1>4. Goto(w, "stopped") \/ Set(w, Resting("reap", Disconnected))
  BY DEF ReadLost, QueueFailure
<1>5. RowsOK' /\ WorkersOK'
  BY <1>1, <1>4, QuietSteps DEF Pcs
<1> QED BY <1>3, <1>5 DEF QIInv

\* A worker leaves its Run with the verdict safe.
LEMMA LeaveOK ==
    ASSUME QIInv, NEW w \in Workers, NEW safe \in BOOLEAN
    PROVE  LET m == [worker[w] EXCEPT !.pc = "settle", !.safe = safe]
           IN  MemoryOK(m) /\ m.job = worker[w].job /\ m.ran = worker[w].ran /\ m.safe = safe
<1> DEFINE m == [worker[w] EXCEPT !.pc = "settle", !.safe = safe]
<1>1. worker[w] \in Memory /\ MemoryOK(worker[w])
  BY WorkerMemory
<1>2. /\ m \in Memory /\ m.pc = "settle" /\ m.job = worker[w].job
      /\ m.ran = worker[w].ran /\ m.safe = safe
  BY <1>1 DEF Memory, Pcs
<1>3. MemoryOK(m)
  BY <1>1, <1>2 DEF MemoryOK
<1> QED BY <1>2, <1>3

\* It leaves its Run without a change of the rows: what it still holds is
\* not reported as handled, unless the heartbeat may fail.
LEMMA LeaveStep ==
    ASSUME QIInv, UNCHANGED <<run, unsent, stop, redis, unstable>>, NEW w \in Workers,
           NEW safe \in BOOLEAN, Leave(w, safe),
           safe /\ worker[w].ran /\ ~unstable => ~Holds(w, worker[w].job)
    PROVE  QIInv'
<1>1. RowsOK' /\ RedisOK'
  BY DEF QIInv, RowsOK, RedisOK, redis
<1>2. PICK m : /\ m = [worker[w] EXCEPT !.pc = "settle", !.safe = safe]
               /\ MemoryOK(m) /\ m.job = worker[w].job /\ m.ran = worker[w].ran /\ m.safe = safe
  BY LeaveOK
<1>3. Set(w, m)
  BY <1>2 DEF Leave
<1>4. m.pc = "settle" /\ m.ran /\ m.safe /\ ~unstable => ~Holds(w, m.job)'
  BY <1>2 DEF Holds
<1>5. WorkersOK'
  BY <1>2, <1>3, <1>4, SameRows, MoveOK DEF QIInv
<1> QED BY <1>1, <1>5 DEF QIInv

LEMMA StartStep == ASSUME QIInv, UNCHANGED unstable, NEW w \in Workers, Start(w) PROVE QIInv'
<1> DEFINE r == worker[w].job
<1>1. worker[w] \in Memory /\ MemoryOK(worker[w]) /\ r \in Runs /\ ~worker[w].ran
  BY WorkerMemory DEF Start, MemoryOK
<1>2. CASE Eligible(r)
  <2> DEFINE m == [worker[w] EXCEPT !.pc = "executing", !.ran = TRUE]
  <2>1. /\ run' = [run EXCEPT ![r] = Claimed(r, w)] /\ Set(w, m)
        /\ UNCHANGED <<unsent, stop, redis>>
    BY <1>2 DEF Start
  <2>2. run[r] \in Row
    BY <1>1 DEF QIInv, RowsOK
  <2>3. (IF Lost(r) THEN run[r].tries - 1 ELSE run[r].tries) \in 0..MaxTries
    BY <1>2, <2>2, Bounds DEF Row, Eligible, Lost
  <2>4. Claimed(r, w) \in Row /\ Claimed(r, w).owner = w
    BY <2>3 DEF Claimed, Row
  <2>5. RowsOK'
    BY <2>1, <2>4 DEF QIInv, RowsOK
  <2>6. OnlyClaims(w)
    <3>1. run'[r].owner = w /\ \A q \in Runs : q # r => run'[q] = run[q]
      BY <1>1, <2>1, <2>4 DEF QIInv, RowsOK
    <3> QED BY <3>1 DEF OnlyClaims, Holds
  <2>7. m \in Memory /\ m.pc = "executing" /\ m.job = r
    BY <1>1 DEF Memory, Pcs
  <2>8. MemoryOK(m) /\ m.pc # "settle"
    BY <1>1, <2>7 DEF MemoryOK
  <2> HIDE DEF m
  <2>9. WorkersOK'
    BY <2>1, <2>6, <2>8, MoveOK DEF QIInv
  <2>10. RedisOK'
    BY <2>1 DEF QIInv, RedisOK, redis
  <2> QED BY <2>5, <2>9, <2>10 DEF QIInv
<1>3. CASE ~Eligible(r)
  <2>1. Leave(w, TRUE) /\ UNCHANGED <<run, unsent, stop, redis>>
    BY <1>3 DEF Start
  <2> QED BY <1>1, <2>1, LeaveStep
<1> QED BY <1>2, <1>3

LEMMA ConcludeStep == ASSUME QIInv, UNCHANGED unstable, NEW w \in Workers, Conclude(w) PROVE QIInv'
<1>1. PICK r \in Runs : r = worker[w].job
  BY WorkerMemory DEF Conclude, MemoryOK
<1>2. PICK row \in Row : row.status # "running" /\ run' = [run EXCEPT ![r] = row]
  BY <1>1, RowFields DEF Conclude, QIInv
<1>3. run' \in [Runs -> Row] /\ OnlyClaims(w) /\ ~Holds(w, r)'
  BY <1>1, <1>2, RowLeaves DEF QIInv
<1>4. RowsOK' /\ RedisOK'
  BY <1>3 DEF QIInv, RowsOK, RedisOK, Conclude, redis
<1>5. PICK m : m = [worker[w] EXCEPT !.pc = "settle", !.safe = TRUE] /\ MemoryOK(m) /\ m.job = r
  BY <1>1, LeaveOK
<1>6. Set(w, m)
  BY <1>5 DEF Conclude, Leave
<1>7. ~Holds(w, m.job)'
  BY <1>3, <1>5
<1>8. WorkersOK'
  BY <1>3, <1>5, <1>6, <1>7, MoveOK DEF QIInv
<1> QED BY <1>4, <1>8 DEF QIInv

LEMMA LeaveSteps ==
    ASSUME QIInv, UNCHANGED unstable, NEW w \in Workers, LeaseUnavailable(w) \/ Drain(w) \/ Escape(w)
    PROVE  QIInv'
<1>1. CASE LeaseUnavailable(w)
  <2>1. Leave(w, TRUE) /\ (unstable \/ ~Holds(w, worker[w].job)) /\ UNCHANGED <<run, unsent, stop, redis>>
    BY <1>1 DEF LeaseUnavailable
  <2> QED BY <2>1, LeaveStep
<1>2. CASE Drain(w) \/ Escape(w)
  <2>1. Leave(w, FALSE) /\ UNCHANGED <<run, unsent, stop, redis>>
    BY <1>2 DEF Drain, Escape
  <2> QED BY <2>1, LeaveStep
<1> QED BY <1>1, <1>2

\* The end of a turn: ACKed or not.
LEMMA SettleSteps ==
    ASSUME QIInv, UNCHANGED unstable, NEW w \in Workers, Settle(w) \/ AckLost(w)
    PROVE  QIInv'
<1> DEFINE next == IF w \in stop THEN "stopped" ELSE "reap"
<1>1. /\ UNCHANGED <<run, unsent, stop, up, log, last, group>> /\ stop' \subseteq Mortal
      /\ Set(w, Resting(next, worker[w])) \/ Set(w, Resting(next, Disconnected))
  BY DEF Settle, AckLost, QIInv, RowsOK
<1>2. next \in Pcs \ {"start", "executing", "settle"}
  BY DEF Pcs
<1> HIDE DEF next
<1>3. RowsOK' /\ WorkersOK'
  BY <1>1, <1>2, QuietSteps
<1>4. /\ faults' \in 0..MaxFaults
      /\ group' \in [made : BOOLEAN, delivered : 0..last] /\ group'.delivered = group.delivered
  BY <1>1, FaultOK DEF Settle, AckLost, QIInv, RedisOK
<1>5. RedisOK'
  <2>1. CASE Forget(worker[w].msg) /\ idle' = idle \ {worker[w].msg}
    BY <1>1, <1>4, <2>1, ForgetOK DEF QIInv
  <2>2. CASE UNCHANGED <<pel, idle>>
    BY <1>1, <1>4, <2>2 DEF QIInv, RedisOK
  <2> QED BY <2>1, <2>2 DEF Settle, AckLost
<1> QED BY <1>3, <1>5 DEF QIInv

LEMMA OtherSteps ==
    ASSUME QIInv, UNCHANGED unstable, NEW w \in Workers,
           QueueUnavailable(w) \/ Stop(w) \/ Exit(w) \/ Crash(w)
    PROVE  QIInv'
<1>1. RedisOK' /\ UNCHANGED <<run, unsent>> /\ stop' \subseteq Mortal
  BY DEF QueueUnavailable, Stop, Exit, Crash, QIInv, RowsOK, RedisOK, redis
<1>2. CASE Stop(w)
  <2>1. RowsOK'
    BY <1>1 DEF QIInv, RowsOK
  <2>2. WorkersOK'
    BY <1>1, <1>2, SameRows, StayOK DEF QIInv, Stop
  <2> QED BY <1>1, <2>1, <2>2 DEF QIInv
<1>3. CASE QueueUnavailable(w) \/ Exit(w) \/ Crash(w)
  <2>1. \/ Goto(w, "stopped")
        \/ Set(w, Resting("reap", Disconnected))
        \/ Set(w, Resting("stopped", worker[w]))
    BY <1>3 DEF QueueUnavailable, QueueFailure, Exit, Crash
  <2>2. "reap" \in Pcs \ {"start", "executing", "settle"} /\ "stopped" \in Pcs \ {"start", "executing", "settle"}
    BY DEF Pcs
  <2>3. RowsOK' /\ WorkersOK'
    BY <1>1, <2>1, <2>2, QuietSteps
  <2> QED BY <1>1, <2>3 DEF QIInv
<1> QED BY <1>2, <1>3

-----------------------------------------------------------------------------
LEMMA QueueInitInv == Init => QIInv
<1> SUFFICES ASSUME Init PROVE QIInv
  OBVIOUS
<1>1. RowsOK
  BY Bounds DEF Init, RowsOK, Row
<1>2. WorkersOK
  <2>1. MemoryOK(Resting("reap", Disconnected)) /\ \A w \in Workers : GivenUp(w, Resting("reap", Disconnected))
    BY RestingOK, DisconnectedLink DEF Pcs
  <2>2. Resting("reap", Disconnected) \in Memory
    BY <2>1 DEF MemoryOK
  <2> QED BY <2>1, <2>2 DEF Init, WorkersOK
<1>3. RedisOK
  <2>1. DOMAIN <<>> = {} /\ 0 \in 0..MaxMessages /\ 0 \in 0..MaxFaults /\ 0 \in 0..0
    BY Bounds
  <2> QED BY <2>1 DEF Init, RedisOK
<1> QED BY <1>1, <1>2, <1>3 DEF QIInv

LEMMA QueueNextInv == QIInv /\ [Next]_vars => QIInv'
<1> SUFFICES ASSUME QIInv, [Next]_vars PROVE QIInv'
  OBVIOUS
<1>1. CASE UNCHANGED vars
  <2>1. RowsOK' /\ RedisOK' /\ UNCHANGED <<worker, unstable, run>>
    BY <1>1 DEF vars, redis, QIInv, RowsOK, RedisOK
  <2>2. WorkersOK'
    BY <2>1, SameRows, StayOK DEF QIInv
  <2> QED BY <2>1, <2>2 DEF QIInv
<1>2. CASE Next
  <2>1. UNCHANGED unstable /\ Step
    BY <1>2 DEF Next
  <2>2. ASSUME NEW w \in Workers, Loop(w) PROVE QIInv'
    BY <2>1, <2>2, ReapStep, ScanStep, ClaimStaleStep, ReadNewStep, StartStep, ConcludeStep,
       LeaveSteps, SettleSteps, OtherSteps DEF Loop
  <2> QED BY <2>1, <2>2, DatabaseSteps, RedisSteps, ReadLostStep, SettleSteps, LeaveSteps,
             OtherSteps DEF Step
<1> QED BY <1>1, <1>2

\* The inductive invariant: the types, and that a worker which reports its Run
\* as handled no longer holds the lease (execute, _settle_active).
THEOREM QueueInvariance == Spec => []QIInv
BY QueueInitInv, QueueNextInv, PTL DEF Spec

\* What is in the stream, the consumer group and the memory of the workers
\* stays well formed through any faults: only messages that were delivered
\* are pending, and only pending ones grow idle.
THEOREM QueueTypes == Spec => []TypeOK
<1>1. QIInv => TypeOK
  <2> SUFFICES ASSUME QIInv PROVE TypeOK
    OBVIOUS
  <2>1. Range(log) \subseteq Runs \cup {Garbage} /\ Range(pel) \subseteq Workers
    BY DEF QIInv, RedisOK, Range
  <2> QED BY <2>1 DEF QIInv, RowsOK, Row, WorkersOK, Memory, RedisOK, TypeOK
<1> QED BY <1>1, QueueInvariance, PTL

\* A shutdown that cuts an execution off leaves its delivery pending: while the
\* heartbeat reaches the database, a worker that still holds the lease of the
\* Run it claimed does not ACK (_shutdown_active, _settle_active).
THEOREM DrainIsNotAcked == Spec => DrainedNotAcked
<1>1. ASSUME QIInv, [Next]_vars, NEW w \in Workers,
             worker[w].pc = "settle", worker'[w].pc # "settle", ~unstable,
             worker[w].ran, Holds(w, worker[w].job), worker[w].msg \in DOMAIN pel
      PROVE  worker[w].msg \in DOMAIN pel'
  <2>1. ~worker[w].safe
    BY <1>1, WorkerMemory DEF GivenUp
  <2>2. ASSUME NEW u \in Workers, NEW m, Set(u, m) PROVE u = w
    <3>1. u # w => worker'[w] = worker[w]
      BY <2>2 DEF Set, QIInv, WorkersOK
    <3> QED BY <1>1, <3>1
  <2>3. Next /\ worker' # worker
    BY <1>1 DEF vars
  <2>4. PICK u \in Workers : Loop(u) \/ ReadLost(u) \/ AckLost(u) \/ Escape(u) \/ Stop(u) \/ Crash(u)
    BY <2>3 DEF Next, Step, CreateRun, Publish, Lapse, Intrude, GoDown, ComeBack, LoseData, GrowIdle
  <2>5. u = w
    <3>1. Stop(u) => worker' = worker
      BY DEF Stop
    <3>2. \E m : Set(u, m)
      BY <2>3, <2>4, <3>1 DEF Loop, ReadLost, AckLost, Escape, Crash, Reap, Scan, ClaimStale, ReadNew,
         QueueUnavailable, Start, Conclude, LeaseUnavailable, Drain, Settle, Exit, Goto, Rest,
         QueueFailure, Leave
    <3> QED BY <2>2, <3>2
  <2>6. Settle(w) \/ Crash(w)
    BY <1>1, <2>1, <2>3, <2>4, <2>5 DEF Loop, ReadLost, AckLost, Escape, Reap, Scan, ClaimStale, ReadNew,
       QueueUnavailable, Start, Conclude, LeaseUnavailable, Drain, Exit, Stop
  <2>7. UNCHANGED pel
    BY <2>1, <2>6 DEF Settle, Crash, redis
  <2> QED BY <1>1, <2>7
<1>2. QIInv /\ [Next]_vars =>
        [\A w \in Workers :
            /\ worker[w].pc = "settle" /\ worker'[w].pc # "settle"
            /\ ~unstable
            /\ worker[w].ran /\ Holds(w, worker[w].job)
            /\ worker[w].msg \in DOMAIN pel
            => worker[w].msg \in DOMAIN pel']_vars
  BY <1>1
<1> QED BY <1>2, QueueInvariance, PTL DEF Spec, DrainedNotAcked
=============================================================================
