------------------------ MODULE GovernanceLedgerProofs ------------------------
(***************************************************************************)
(* Theorems about GovernanceLedger, for every number of Runs, questions,   *)
(* scopes, claims and minutes, every policy and every reservation.         *)
(*                                                                         *)
(* Three parts.  Sums: what MapThenSumSet adds up to, by minimal           *)
(* counterexample over the finite subsets of a set.  Attempts: the keys of *)
(* the ledger are numbered by the retry cursors and each adapter call owns *)
(* its row.  Accounts: closing, opening and moving rows keep the counters  *)
(* of a scope and of a minute equal to what the ledger's rows add up to.   *)
(***************************************************************************)
EXTENDS GovernanceLedger, FiniteSetTheorems, WellFoundedInduction, TLAPS

-----------------------------------------------------------------------------
(* Sums *)

Pick(s) == CHOOSE x \in s : TRUE

AddsUp(g, S, rows) ==
    g = [s \in SUBSET S |->
            IF s = {} THEN 0 ELSE rows[Pick(s)].actual + g[s \ {Pick(s)}]]

Sum(S, rows) == (CHOOSE g : AddsUp(g, S, rows))[S]

LEMMA UsedByIsSum ==
    ASSUME NEW S
    PROVE  UsedBy(S) = Sum(S, ledger)
BY DEF UsedBy, Sum, AddsUp, Pick, MapThenSumSet, MapThenFoldSet

LEMMA Smallest ==
    ASSUME NEW S, IsFiniteSet(S), NEW B, B \subseteq SUBSET S, B # {}
    PROVE  \E T \in B : \A U \in B : ~(U \subseteq T /\ U # T)
<1>1. IsWellFoundedOn(StrictSubsetOrdering(S), FiniteSubsetsOf(S))
    BY FS_StrictSubsetOrderingWellFounded
<1>2. FiniteSubsetsOf(S) = SUBSET S
    BY FS_FiniteSubsetsOfFinite
<1>3. \E T \in B : \A U \in B : <<U, T>> \notin StrictSubsetOrdering(S)
    BY <1>1, <1>2, WFMin
<1> QED  BY <1>3 DEF StrictSubsetOrdering

LEMMA PickIn == ASSUME NEW s, s # {} PROVE Pick(s) \in s
BY DEF Pick

LEMMA SumsAgree ==
    ASSUME NEW S, IsFiniteSet(S), NEW T, NEW rows, NEW g, NEW h,
           AddsUp(g, S, rows), AddsUp(h, T, rows)
    PROVE  \A u \in SUBSET (S \cap T) : g[u] = h[u]
<1> DEFINE Bad == {u \in SUBSET (S \cap T) : g[u] # h[u]}
<1> SUFFICES ASSUME Bad # {} PROVE FALSE
    OBVIOUS
<1>0. Bad \subseteq SUBSET S
    OBVIOUS
<1>1. PICK u \in Bad : \A v \in Bad : ~(v \subseteq u /\ v # u)
  <2> HIDE DEF Bad
  <2> QED  BY <1>0, Smallest
<1>2. /\ g[u] = IF u = {} THEN 0 ELSE rows[Pick(u)].actual + g[u \ {Pick(u)}]
      /\ h[u] = IF u = {} THEN 0 ELSE rows[Pick(u)].actual + h[u \ {Pick(u)}]
    BY DEF AddsUp
<1>3. u # {}
    BY <1>2
<1>4. u \ {Pick(u)} \subseteq u /\ u \ {Pick(u)} # u
    BY <1>3, PickIn
<1>5. g[u \ {Pick(u)}] = h[u \ {Pick(u)}]
    BY <1>1, <1>4
<1> QED  BY <1>2, <1>3, <1>5

LEMMA SumExists ==
    ASSUME NEW S, IsFiniteSet(S), NEW rows
    PROVE  \E g : AddsUp(g, S, rows)
<1> DEFINE Bad == {T \in SUBSET S : ~\E g : AddsUp(g, T, rows)}
<1> SUFFICES ASSUME Bad # {} PROVE FALSE
    OBVIOUS
<1>0. Bad \subseteq SUBSET S
    OBVIOUS
<1>1. PICK T \in Bad : \A V \in Bad : ~(V \subseteq T /\ V # T)
  <2> HIDE DEF Bad
  <2> QED  BY <1>0, Smallest
<1>2. IsFiniteSet(T) /\ T \subseteq S
    BY FS_Subset
<1> DEFINE G(V) == CHOOSE g : AddsUp(g, V, rows)
           small == [V \in SUBSET T |-> G(V)[V]]
           g == [V \in SUBSET T |->
                    IF V = {} THEN 0
                    ELSE rows[Pick(V)].actual + small[V \ {Pick(V)}]]
<1>3. ASSUME NEW V \in SUBSET T, V # T
      PROVE  AddsUp(G(V), V, rows) /\ small[V] = g[V]
  <2>1. AddsUp(G(V), V, rows)
    <3>1. V \notin Bad
        BY <1>1, <1>3
    <3>2. \E f : AddsUp(f, V, rows)
        BY <3>1, <1>2
    <3> QED  BY <3>2
  <2>2. G(V)[V] = IF V = {} THEN 0 ELSE rows[Pick(V)].actual + G(V)[V \ {Pick(V)}]
    <3> HIDE DEF G
    <3> QED  BY <2>1 DEF AddsUp
  <2>3. CASE V = {}
    <3> HIDE DEF G
    <3> QED  BY <2>1, <2>2, <2>3
  <2>4. CASE V # {}
    <3> DEFINE W == V \ {Pick(V)}
    <3>1. W \subseteq V /\ W # V /\ W \subseteq T /\ W # T
        BY <2>4, PickIn, <1>3
    <3>2. W \notin Bad
        BY <1>1, <3>1
    <3>3. \E f : AddsUp(f, W, rows)
        BY <3>2, <3>1, <1>2
    <3>4. AddsUp(G(W), W, rows)
        BY <3>3
    <3>5. IsFiniteSet(V)
        BY FS_Subset, <1>2
    <3>6. G(V)[W] = G(W)[W]
      <4> HIDE DEF G, W
      <4>1. W \in SUBSET (V \cap W)
        BY <3>1
      <4> QED  BY <2>1, <3>4, <3>5, <4>1, SumsAgree
    <3>7. small[W] = G(W)[W] /\ small[V] = G(V)[V]
        BY <3>1
    <3> HIDE DEF G
    <3>8. G(V)[V] = rows[Pick(V)].actual + G(V)[W]
        BY <2>2, <2>4
    <3> HIDE DEF small
    <3>9. g[V] = rows[Pick(V)].actual + small[W]
        BY <2>4
    <3> QED  BY <2>1, <3>6, <3>7, <3>8, <3>9
  <2> QED  BY <2>1, <2>3, <2>4
<1>4. AddsUp(g, T, rows)
  <2>1. ASSUME NEW V \in SUBSET T, V # {}
        PROVE  small[V \ {Pick(V)}] = g[V \ {Pick(V)}]
    <3>1. V \ {Pick(V)} \in SUBSET T /\ V \ {Pick(V)} # T
        BY PickIn, <2>1
    <3> HIDE DEF small, g
    <3> QED  BY <3>1, <1>3
  <2>2. ASSUME NEW V \in SUBSET T
        PROVE  g[V] = IF V = {} THEN 0 ELSE rows[Pick(V)].actual + g[V \ {Pick(V)}]
    <3> HIDE DEF small
    <3> QED  BY <2>1
  <2>3. g = [V \in SUBSET T |-> g[V]]
    OBVIOUS
  <2> HIDE DEF g
  <2> QED  BY <2>2, <2>3 DEF AddsUp
<1> HIDE DEF g
<1> QED  BY <1>4

LEMMA SumStep ==
    ASSUME NEW S, IsFiniteSet(S), NEW rows
    PROVE  Sum(S, rows) = IF S = {} THEN 0
                          ELSE rows[Pick(S)].actual + Sum(S \ {Pick(S)}, rows)
<1> DEFINE T == S \ {Pick(S)}
           G(V) == CHOOSE g : AddsUp(g, V, rows)
<1>1. IsFiniteSet(T)
    BY FS_RemoveElement
<1>2. AddsUp(G(S), S, rows) /\ AddsUp(G(T), T, rows)
    BY <1>1, SumExists
<1>3. Sum(S, rows) = G(S)[S] /\ Sum(T, rows) = G(T)[T]
    BY DEF Sum
<1> HIDE DEF G
<1>4. G(S)[T] = G(T)[T]
  <2>1. T \in SUBSET (S \cap T)
    OBVIOUS
  <2> HIDE DEF T
  <2> QED  BY <1>2, <2>1, SumsAgree
<1>5. G(S)[S] = IF S = {} THEN 0 ELSE rows[Pick(S)].actual + G(S)[T]
    BY <1>2 DEF AddsUp
<1> QED  BY <1>3, <1>4, <1>5

LEMMA SumType ==
    ASSUME NEW S, IsFiniteSet(S), NEW rows, \A k \in S : rows[k].actual \in Nat
    PROVE  \A T \in SUBSET S : Sum(T, rows) \in Nat
<1> DEFINE Bad == {T \in SUBSET S : Sum(T, rows) \notin Nat}
<1> SUFFICES ASSUME Bad # {} PROVE FALSE
    OBVIOUS
<1>0. Bad \subseteq SUBSET S
    OBVIOUS
<1>1. PICK T \in Bad : \A V \in Bad : ~(V \subseteq T /\ V # T)
  <2> HIDE DEF Bad
  <2> QED  BY <1>0, Smallest
<1>2. IsFiniteSet(T)
    BY FS_Subset
<1>3. Sum(T, rows) = IF T = {} THEN 0
                     ELSE rows[Pick(T)].actual + Sum(T \ {Pick(T)}, rows)
    BY <1>2, SumStep
<1>4. T # {}
    BY <1>3
<1>5. Pick(T) \in T
    BY <1>4, PickIn
<1>6. T \ {Pick(T)} \notin Bad
    BY <1>1, <1>5
<1>7. Sum(T \ {Pick(T)}, rows) \in Nat
    BY <1>6
<1>8. rows[Pick(T)].actual \in Nat
    BY <1>5
<1> QED  BY <1>3, <1>4, <1>7, <1>8

LEMMA SumTakeOut ==
    ASSUME NEW S, IsFiniteSet(S), NEW rows, \A k \in S : rows[k].actual \in Nat
    PROVE  \A T \in SUBSET S : \A x \in T :
               Sum(T, rows) = rows[x].actual + Sum(T \ {x}, rows)
<1> DEFINE Bad == {T \in SUBSET S :
                    \E x \in T : Sum(T, rows) # rows[x].actual + Sum(T \ {x}, rows)}
<1> SUFFICES ASSUME Bad # {} PROVE FALSE
    OBVIOUS
<1>0. Bad \subseteq SUBSET S
    OBVIOUS
<1>1. PICK T \in Bad : \A V \in Bad : ~(V \subseteq T /\ V # T)
  <2> HIDE DEF Bad
  <2> QED  BY <1>0, Smallest
<1>2. PICK x \in T : Sum(T, rows) # rows[x].actual + Sum(T \ {x}, rows)
    BY <1>1
<1> DEFINE y == Pick(T)
<1>3. y \in T
    BY <1>2, PickIn
<1>4. IsFiniteSet(T)
    BY FS_Subset
<1>5. Sum(T, rows) = rows[y].actual + Sum(T \ {y}, rows)
    BY <1>2, <1>4, SumStep
<1> HIDE DEF y
<1>6. x # y
    BY <1>2, <1>5
<1>7. T \ {y} \notin Bad /\ T \ {x} \notin Bad
    BY <1>1, <1>2, <1>3
<1>8. /\ Sum(T \ {y}, rows) = rows[x].actual + Sum((T \ {y}) \ {x}, rows)
      /\ Sum(T \ {x}, rows) = rows[y].actual + Sum((T \ {x}) \ {y}, rows)
    BY <1>7, <1>3, <1>2, <1>6
<1>9. (T \ {y}) \ {x} = (T \ {x}) \ {y}
    OBVIOUS
<1>10. /\ rows[x].actual \in Nat /\ rows[y].actual \in Nat
       /\ Sum((T \ {x}) \ {y}, rows) \in Nat
  <2>1. (T \ {x}) \ {y} \in SUBSET S
    OBVIOUS
  <2> QED  BY <1>2, <1>3, <2>1, SumType
<1> DEFINE rest == Sum((T \ {x}) \ {y}, rows)
<1>11. /\ Sum(T \ {y}, rows) = rows[x].actual + rest
       /\ Sum(T \ {x}, rows) = rows[y].actual + rest
    BY <1>8, <1>9
<1> HIDE DEF rest
<1>12. rest \in Nat
    BY <1>10 DEF rest
<1> QED  BY <1>2, <1>5, <1>10, <1>11, <1>12

LEMMA SumPutIn ==
    ASSUME NEW S, IsFiniteSet(S), NEW rows, NEW x, x \notin S,
           \A k \in S \cup {x} : rows[k].actual \in Nat
    PROVE  /\ Sum(S \cup {x}, rows) = Sum(S, rows) + rows[x].actual
           /\ Sum(S, rows) \in Nat
<1> DEFINE T == S \cup {x}
<1>1. IsFiniteSet(T) /\ T \ {x} = S /\ x \in T
    BY FS_AddElement
<1>2. Sum(T, rows) = rows[x].actual + Sum(T \ {x}, rows)
  <2> HIDE DEF T
  <2>1. T \in SUBSET T
    OBVIOUS
  <2>2. \A k \in T : rows[k].actual \in Nat
    BY DEF T
  <2> QED  BY <1>1, <2>1, <2>2, SumTakeOut
<1>3. Sum(S, rows) \in Nat
    BY SumType
<1> QED  BY <1>1, <1>2, <1>3

LEMMA SumSame ==
    ASSUME NEW S, IsFiniteSet(S), NEW rows, NEW rows2,
           \A k \in S : rows2[k].actual = rows[k].actual
    PROVE  Sum(S, rows2) = Sum(S, rows)
<1> DEFINE Bad == {T \in SUBSET S : Sum(T, rows2) # Sum(T, rows)}
<1> SUFFICES ASSUME Bad # {} PROVE FALSE
    OBVIOUS
<1>0. Bad \subseteq SUBSET S
    OBVIOUS
<1>1. PICK T \in Bad : \A V \in Bad : ~(V \subseteq T /\ V # T)
  <2> HIDE DEF Bad
  <2> QED  BY <1>0, Smallest
<1>2. IsFiniteSet(T)
    BY FS_Subset
<1>3. /\ Sum(T, rows) = IF T = {} THEN 0
                     ELSE rows[Pick(T)].actual + Sum(T \ {Pick(T)}, rows)
      /\ Sum(T, rows2) = IF T = {} THEN 0
                     ELSE rows2[Pick(T)].actual + Sum(T \ {Pick(T)}, rows2)
    BY <1>2, SumStep
<1>4. T # {}
    BY <1>3
<1>5. Pick(T) \in T
    BY <1>4, PickIn
<1>6. T \ {Pick(T)} \notin Bad
    BY <1>1, <1>5
<1>7. Sum(T \ {Pick(T)}, rows2) = Sum(T \ {Pick(T)}, rows)
    BY <1>6
<1>8. rows2[Pick(T)].actual = rows[Pick(T)].actual
    BY <1>5
<1> QED  BY <1>3, <1>4, <1>7, <1>8

LEMMA SumUniform ==
    ASSUME NEW S, IsFiniteSet(S), NEW C, IsFiniteSet(C), S \cap C = {},
           NEW rows, NEW u \in Nat,
           \A k \in S : rows[k].actual \in Nat, \A k \in C : rows[k].actual = u
    PROVE  Sum(S \cup C, rows) = Sum(S, rows) + u * Cardinality(C)
<1> DEFINE Bad == {D \in SUBSET C :
                    Sum(S \cup D, rows) # Sum(S, rows) + u * Cardinality(D)}
<1> SUFFICES ASSUME Bad # {} PROVE FALSE
    OBVIOUS
<1>0. Bad \subseteq SUBSET C
    OBVIOUS
<1>1. PICK D \in Bad : \A V \in Bad : ~(V \subseteq D /\ V # D)
  <2> HIDE DEF Bad
  <2> QED  BY <1>0, Smallest
<1>2. IsFiniteSet(D)
    BY FS_Subset
<1>3. Sum(S, rows) \in Nat
    BY SumType
<1>4. D # {}
  <2> SUFFICES ASSUME D = {} PROVE FALSE
    OBVIOUS
  <2>1. S \cup D = S /\ Cardinality(D) = 0
    BY FS_EmptySet
  <2> QED  BY <2>1, <1>1, <1>3
<1>5. PICK x \in D : TRUE
    BY <1>4
<1> DEFINE E == D \ {x}
<1>6. /\ IsFiniteSet(E) /\ E \subseteq C
      /\ Cardinality(D) = Cardinality(E) + 1 /\ Cardinality(E) \in Nat
  <2>1. IsFiniteSet(E) /\ Cardinality(E) = Cardinality(D) - 1
    BY <1>2, FS_RemoveElement
  <2>2. Cardinality(E) \in Nat /\ Cardinality(D) \in Nat
    BY <2>1, <1>2, FS_CardinalityType
  <2> QED  BY <2>1, <2>2
<1>7. Sum(S \cup E, rows) = Sum(S, rows) + u * Cardinality(E)
    BY <1>1, <1>6
<1>8. Sum(S \cup D, rows) = Sum(S \cup E, rows) + u
  <2>1. S \cup D = (S \cup E) \cup {x} /\ x \notin S \cup E /\ rows[x].actual = u
    OBVIOUS
  <2>2. \A k \in (S \cup E) \cup {x} : rows[k].actual \in Nat
    OBVIOUS
  <2>3. IsFiniteSet(S \cup E)
    BY <1>6, FS_Union
  <2>4. Sum((S \cup E) \cup {x}, rows) = Sum(S \cup E, rows) + rows[x].actual
    <3> DEFINE F == S \cup E
    <3> HIDE DEF F, E
    <3> SUFFICES Sum(F \cup {x}, rows) = Sum(F, rows) + rows[x].actual
        BY DEF F
    <3>1. IsFiniteSet(F) /\ x \notin F /\ \A k \in F \cup {x} : rows[k].actual \in Nat
        BY <2>1, <2>2, <2>3 DEF F
    <3> QED  BY <3>1, SumPutIn
  <2> QED  BY <2>1, <2>4
<1>9. Sum(S \cup D, rows) # Sum(S, rows) + u * Cardinality(D)
    BY <1>1
<1>10. u * (Cardinality(E) + 1) = u * Cardinality(E) + u /\ u * Cardinality(E) \in Nat
  <2>1. \A n \in Nat : u * (n + 1) = u * n + u /\ u * n \in Nat
    OBVIOUS
  <2> QED  BY <2>1, <1>6
<1> HIDE DEF E
<1> QED  BY <1>3, <1>6, <1>7, <1>8, <1>9, <1>10

-----------------------------------------------------------------------------
(* Types.  Counters are integers here; that they are natural numbers       *)
(* follows from what they count.                                           *)

CallTypes ==
    /\ run \in [Runs -> [status : {"pending", "running", "terminal"},
                          token  : 0..MaxToken,
                          live   : BOOLEAN,
                          cancel : BOOLEAN]]
    /\ opened \subseteq Questions /\ answered \subseteq Questions
    /\ cursor \in [Questions -> [gen : Nat, next : Nat \ {0}]]
    /\ call \in [Questions -> [Tokens -> [stage : Stages, gen : Nat, att : Nat]]]
    /\ minute \in Minutes
    /\ epoch \in [Questions -> Nat]

RowTypes(rows) ==
    /\ DOMAIN rows \subseteq Key
    /\ \A k \in DOMAIN rows : rows[k] \in KeyRow
    /\ IsFiniteSet(DOMAIN rows)

ScopeCounts == [active : Int, reserved : Int, consumed : Int,
                held : Int, used : Int, overdrawn : BOOLEAN]
BucketCounts == [reserved : Int, consumed : Int, held : Int, used : Int]

CounterTypes(sc, bk) ==
    /\ sc \in [Scopes -> ScopeCounts]
    /\ bk \in [Scopes -> [Minutes -> BucketCounts]]

LedgerBase == CallTypes /\ RowTypes(ledger) /\ CounterTypes(scope, bucket)

\* The steps by which the ledger and its counters change: rows are closed,
\* opened after closing stale ones, or marked as sent.
Closing(R, C, used, how) ==
    /\ scope' = CloseScopes(R, C, used)
    /\ bucket' = CloseBuckets(R, C, used)
    /\ ledger' = CloseRows(R, C, used, how)

Closable(R, C, used, how) ==
    /\ R \subseteq {k \in DOMAIN ledger : ledger[k].state = "reserved"}
    /\ C \subseteq {k \in DOMAIN ledger : ledger[k].state = "send_started"}
    /\ used \in Nat /\ how \in Settled

LEMMA ChargedCount ==
    ASSUME NEW S, IsFiniteSet(S), NEW s
    PROVE  Cardinality(Charged(s, S)) \in Nat /\ IsFiniteSet(Charged(s, S))
<1>1. Charged(s, S) \subseteq S
    BY DEF Charged
<1> QED  BY <1>1, FS_Subset, FS_CardinalityType

LEMMA CloseTypes ==
    ASSUME RowTypes(ledger), CounterTypes(scope, bucket),
           NEW R, NEW C, NEW used, NEW how, Closable(R, C, used, how)
    PROVE  /\ RowTypes(CloseRows(R, C, used, how))
           /\ DOMAIN CloseRows(R, C, used, how) = DOMAIN ledger
           /\ CounterTypes(CloseScopes(R, C, used), CloseBuckets(R, C, used))
<1>1. /\ IsFiniteSet(R) /\ IsFiniteSet(C)
      /\ R \subseteq DOMAIN ledger /\ C \subseteq DOMAIN ledger
    BY FS_Subset DEF RowTypes, Closable
<1>2. RowTypes(CloseRows(R, C, used, how)) /\ DOMAIN CloseRows(R, C, used, how) = DOMAIN ledger
    BY DEF RowTypes, CloseRows, KeyRow, Closable, Settled, Active
<1>3. CloseScopes(R, C, used) \in [Scopes -> ScopeCounts]
  <2> SUFFICES ASSUME NEW s \in Scopes
               PROVE  CloseScopes(R, C, used)[s] \in ScopeCounts
    BY DEF CloseScopes
  <2>1. Cardinality(Charged(s, R)) \in Nat /\ Cardinality(Charged(s, C)) \in Nat
    BY <1>1, ChargedCount
  <2>2. PICK r \in Nat, c \in Nat : r = Cardinality(Charged(s, R)) /\ c = Cardinality(Charged(s, C))
    BY <2>1
  <2>3. scope[s] \in ScopeCounts /\ used \in Int /\ Reservation \in Int
    BY AmountAssumption DEF CounterTypes, Closable
  <2>4. /\ scope[s].active - (r + c) \in Int /\ scope[s].reserved - r \in Int
        /\ scope[s].held - Reservation * (r + c) \in Int
        /\ scope[s].used + used * c \in Int
    BY <2>3 DEF ScopeCounts
  <2>5. (scope[s].overdrawn \/ (c > 0 /\ used > Reservation)) \in BOOLEAN
    OBVIOUS
  <2>6. CloseScopes(R, C, used)[s] =
            [scope[s] EXCEPT !.active   = @ - (r + c),
                             !.reserved = @ - r,
                             !.held     = @ - Reservation * (r + c),
                             !.used     = @ + used * c,
                             !.overdrawn = @ \/ (c > 0 /\ used > Reservation)]
    BY <2>2 DEF CloseScopes
  <2> QED  BY <2>3, <2>4, <2>5, <2>6 DEF ScopeCounts
<1>4. CloseBuckets(R, C, used) \in [Scopes -> [Minutes -> BucketCounts]]
  <2> SUFFICES ASSUME NEW s \in Scopes, NEW m \in Minutes
               PROVE  CloseBuckets(R, C, used)[s][m] \in BucketCounts
    BY DEF CloseBuckets
  <2> DEFINE In(S) == Charged(s, {k \in S : ledger[k].window = m})
  <2>1. Cardinality(In(R)) \in Nat /\ Cardinality(In(C)) \in Nat
    <3>1. IsFiniteSet({k \in R : ledger[k].window = m}) /\ IsFiniteSet({k \in C : ledger[k].window = m})
        BY <1>1, FS_Subset
    <3> QED  BY <3>1, ChargedCount
  <2>2. PICK r \in Nat, c \in Nat : r = Cardinality(In(R)) /\ c = Cardinality(In(C))
    BY <2>1
  <2>3. bucket[s][m] \in BucketCounts /\ used \in Int /\ Reservation \in Int
    BY AmountAssumption DEF CounterTypes, Closable
  <2>4. /\ bucket[s][m].reserved - r \in Int
        /\ bucket[s][m].held - Reservation * (r + c) \in Int
        /\ bucket[s][m].used + used * c \in Int
    BY <2>3 DEF BucketCounts
  <2>5. CloseBuckets(R, C, used)[s][m] =
            [bucket[s][m] EXCEPT !.reserved = @ - r,
                                 !.held     = @ - Reservation * (r + c),
                                 !.used     = @ + used * c]
    BY <2>2 DEF CloseBuckets
  <2> QED  BY <2>3, <2>4, <2>5 DEF BucketCounts
<1> QED  BY <1>2, <1>3, <1>4 DEF CounterTypes

-----------------------------------------------------------------------------
(* Attempts.  Every row is numbered below the retry cursor of its question;*)
(* since the last Run failure no two rows that were not released before    *)
(* sending spend the same ordinal.                                         *)

Numbered ==
    \A k \in DOMAIN ledger :
        /\ k.gen <= cursor[k.q].gen
        /\ k.gen = cursor[k.q].gen => k.att < cursor[k.q].next
        /\ k.att \in 1..MaxProviderAttempts

Standing(q) ==
    {k \in DOMAIN ledger :
        k.q = q /\ k.gen >= epoch[q] /\ ledger[k].state # "released_pre_send"}

OrdinalsSpent ==
    \A q \in Questions :
        /\ \A k, l \in Standing(q) : k.att = l.att => k = l
        /\ \A k \in Standing(q) : k.att < cursor[q].next

AttemptsIInv == LedgerBase /\ CallsOwnTheirRows /\ Numbered /\ OrdinalsSpent

\* The fence and the adapter calls keep their types.
Calls == [stage : Stages, gen : Nat, att : Nat]

LEMMA EnterTypes ==
    ASSUME CallTypes, NEW q \in Questions, NEW t \in Tokens,
           NEW c \in Calls, Enter(q, t, c)
    PROVE  call' \in [Questions -> [Tokens -> Calls]]
BY DEF CallTypes, Enter, Calls

LEMMA StageTypes ==
    ASSUME CallTypes, NEW q \in Questions, NEW t \in Tokens
    PROVE  /\ call[q][t] \in Calls
           /\ \A stage \in Stages : [call[q][t] EXCEPT !.stage = stage] \in Calls
           /\ Gone \in Calls
<1>1. call[q][t] \in Calls
    BY DEF CallTypes, Calls
<1>2. Gone \in Calls
    BY DEF Calls, Gone, Stages
<1> QED  BY <1>1, <1>2 DEF Calls

LEMMA GenerationTypes ==
    ASSUME CallTypes, NEW r, NewGeneration(r)
    PROVE  /\ cursor' \in [Questions -> [gen : Nat, next : Nat \ {0}]]
           /\ epoch' \in [Questions -> Nat]
<1>1. ASSUME NEW q \in Questions
      PROVE  cursor[q].gen + 1 \in Nat /\ cursor[q] \in [gen : Nat, next : Nat \ {0}]
    BY DEF CallTypes
<1> QED  BY <1>1 DEF CallTypes, NewGeneration

LEMMA CallTypesInvariant ==
    ASSUME CallTypes, CallsOwnTheirRows, Numbered, [Next]_vars
    PROVE  CallTypes'
<1> DEFINE RunType == [Runs -> [status : {"pending", "running", "terminal"},
                                token  : 0..MaxToken,
                                live   : BOOLEAN,
                                cancel : BOOLEAN]]
           CursorType == [Questions -> [gen : Nat, next : Nat \ {0}]]
           CallType == [Questions -> [Tokens -> Calls]]
           Kept == /\ run' \in RunType
                   /\ opened' \subseteq Questions /\ answered' \subseteq Questions
                   /\ cursor' \in CursorType
                   /\ call' \in CallType
                   /\ minute' \in Minutes
                   /\ epoch' \in [Questions -> Nat]
<1>0. SUFFICES Kept
    BY DEF CallTypes, Calls
<1>1. /\ run \in RunType /\ opened \subseteq Questions /\ answered \subseteq Questions
      /\ cursor \in CursorType /\ call \in CallType /\ minute \in Minutes
      /\ epoch \in [Questions -> Nat]
    BY DEF CallTypes, Calls
<1>2. CASE UNCHANGED vars
    BY <1>1, <1>2 DEF vars
<1>3. CASE NextMinute
  <2>1. minute' \in Minutes
    BY <1>1, <1>3, BoundAssumption DEF NextMinute, Minutes
  <2> QED  BY <1>1, <1>3, <2>1 DEF NextMinute, SameGeneration
<1>4. ASSUME NEW r \in Runs,
             \/ Claim(r) \/ Takeover(r) \/ Yield(r) \/ Retry(r) \/ Stop(r)
             \/ RequestCancel(r) \/ Renew(r) \/ Lapse(r)
      PROVE  Kept
  <2>1. UNCHANGED <<opened, answered, call, minute>>
    BY <1>4 DEF Claim, Takeover, Yield, Retry, Stop, RequestCancel, Renew, Lapse, Elsewhere
  <2>2. cursor' \in CursorType /\ epoch' \in [Questions -> Nat]
    BY <1>1, <1>4, GenerationTypes
    DEF Claim, Takeover, Yield, Retry, Stop, RequestCancel, Renew, Lapse, SameGeneration
  <2>3. run' \in RunType
    <3>1. CASE Claim(r) \/ Takeover(r)
        BY <1>1, <3>1, BoundAssumption DEF Claim, Takeover, Issue
    <3>2. CASE Yield(r) \/ Retry(r) \/ Stop(r)
      <4>1. PICK status \in {"pending", "terminal"} : Relinquish(r, status)
        BY <3>2 DEF Yield, Retry, Stop
      <4> QED  BY <1>1, <4>1 DEF Relinquish
    <3>3. CASE Renew(r) \/ Lapse(r)
      <4>1. PICK live \in BOOLEAN : run' = [run EXCEPT ![r].live = live]
        BY <3>3 DEF Renew, Lapse
      <4> QED  BY <1>1, <4>1
    <3>4. CASE RequestCancel(r)
      <4>1. PICK status \in {"terminal", "running"} :
                run' = [run EXCEPT ![r].cancel = TRUE, ![r].status = status]
        BY <1>1, <3>4 DEF RequestCancel
      <4> QED  BY <1>1, <4>1
    <3> QED  BY <1>4, <3>1, <3>2, <3>3, <3>4
  <2> QED  BY <1>1, <2>1, <2>2, <2>3
<1>5. ASSUME NEW r \in Runs, NEW t \in Tokens, ReconcileRunLease(r, t)
      PROVE  Kept
    BY <1>1, <1>5 DEF ReconcileRunLease, Elsewhere, SameGeneration
<1>6. ASSUME NEW q \in Questions, NEW t \in Tokens,
             \/ QuestionContext(q, t)
             \/ \E heard \in BOOLEAN : Reserve(q, t, heard)
             \/ MarkSendStarted(q, t) \/ MarkRefused(q, t) \/ ReleasePreSend(q, t)
             \/ \E used \in Usages : SettleActual(q, t, used)
             \/ \E again \in BOOLEAN : SettleConservative(q, t, again)
             \/ PersistResponse(q, t) \/ Abandon(q, t)
      PROVE  Kept
  <2>1. UNCHANGED <<run, minute, epoch>>
    BY <1>6 DEF QuestionContext, Reserve, MarkSendStarted, MarkRefused, ReleasePreSend,
                SettleActual, SettleConservative, PersistResponse, Abandon, SameGeneration
  <2>2. opened' \subseteq Questions /\ answered' \subseteq Questions
    BY <1>1, <1>6
    DEF QuestionContext, Reserve, MarkSendStarted, MarkRefused, ReleasePreSend,
        SettleActual, SettleConservative, PersistResponse, Abandon
  <2>3. call[q][t] \in Calls /\ cursor[q] \in [gen : Nat, next : Nat \ {0}]
    BY <1>1
  <2>4. cursor' \in CursorType
    <3>1. CASE \E heard \in BOOLEAN : Reserve(q, t, heard)
      <4>1. cursor' = [cursor EXCEPT ![q].next = @ + 1]
        BY <3>1 DEF Reserve
      <4>2. cursor[q].next + 1 \in Nat \ {0}
        BY <2>3
      <4> QED  BY <1>1, <4>1, <4>2
    <3>2. CASE ReleasePreSend(q, t)
      <4> DEFINE k == KeyOf(q, t)
      <4>1. k.gen \in Nat /\ k.att \in Nat
        BY <2>3 DEF KeyOf, Calls
      <4>2. k \in DOMAIN ledger /\ k.att # 0
        BY <3>2, BoundAssumption DEF ReleasePreSend, CallsOwnTheirRows, Numbered
      <4>3. \/ cursor' = cursor
            \/ cursor' = [cursor EXCEPT ![q] = [gen |-> k.gen + 1, next |-> k.att]]
        BY <3>2 DEF ReleasePreSend
      <4> HIDE DEF k
      <4> QED  BY <1>1, <4>1, <4>2, <4>3
    <3>3. CASE ~(\E heard \in BOOLEAN : Reserve(q, t, heard)) /\ ~ReleasePreSend(q, t)
        BY <1>1, <1>6, <3>3
        DEF QuestionContext, MarkSendStarted, MarkRefused, SettleActual,
            SettleConservative, PersistResponse, Abandon, SameGeneration
    <3> QED  BY <3>1, <3>2, <3>3
  <2>5. PICK c \in Calls : call' = [call EXCEPT ![q][t] = c]
    <3>1. CASE QuestionContext(q, t)
      <4>1. [stage |-> IF cursor[q].next <= MaxProviderAttempts
                       THEN "admitted" ELSE "returned",
             gen |-> cursor[q].gen, att |-> cursor[q].next] \in Calls
        BY <2>3 DEF Calls, Stages
      <4> QED  BY <3>1, <4>1 DEF QuestionContext, Enter
    <3>2. CASE \E again \in BOOLEAN : SettleConservative(q, t, again)
      <4>1. PICK again \in BOOLEAN : SettleConservative(q, t, again)
        BY <3>2
      <4> DEFINE c == [call[q][t] EXCEPT
                        !.stage = IF again THEN "admitted" ELSE "returned",
                        !.att = IF again THEN @ + 1 ELSE @]
      <4>2. (IF again THEN call[q][t].att + 1 ELSE call[q][t].att) \in Nat
        BY <2>3 DEF Calls
      <4>3. c \in Calls
        BY <2>3, <4>2 DEF Calls, Stages
      <4>4. call' = [call EXCEPT ![q][t] = c]
        BY <4>1 DEF SettleConservative, Enter
      <4> HIDE DEF c
      <4> QED  BY <4>3, <4>4
    <3>3. CASE ~QuestionContext(q, t) /\ ~\E again \in BOOLEAN : SettleConservative(q, t, again)
      <4>1. \/ End(q, t)
            \/ \E stage \in Stages : Stage(q, t, stage)
        BY <1>6, <3>3
        DEF Reserve, MarkSendStarted, MarkRefused, ReleasePreSend,
            SettleActual, PersistResponse, Abandon, Stages
      <4> QED  BY <4>1, StageTypes DEF End, Stage, Enter
    <3> QED  BY <3>1, <3>2, <3>3
  <2>6. call' \in CallType
    <3> HIDE DEF Kept
    <3> QED  BY <1>1, <2>5
  <2> QED  BY <1>1, <2>1, <2>2, <2>4, <2>6
<1> QED  BY <1>2, <1>3, <1>4, <1>5, <1>6 DEF Next

\* The rows a reconciliation closes may be closed, and so may the row that an
\* adapter call releases or settles.
LEMMA StaleClosable ==
    ASSUME NEW S, S \subseteq {k \in DOMAIN ledger : ledger[k].state \in Active}
    PROVE  Closable(Unsent(S), InDoubt(S), Reservation, "settled_conservative")
BY AmountAssumption DEF Closable, Unsent, InDoubt, Active, Settled

LEMMA FinishCloses ==
    ASSUME CallsOwnTheirRows, NEW q \in Questions, NEW t \in Tokens,
           call[q][t].stage = "sending", NEW used \in Nat, NEW how \in Settled,
           Finish(q, t, used, how)
    PROVE  \/ UNCHANGED <<ledger, scope, bucket>>
           \/ /\ Closable({}, {KeyOf(q, t)}, used, how)
              /\ Closing({}, {KeyOf(q, t)}, used, how)
<1>1. KeyOf(q, t) \in DOMAIN ledger
    BY DEF CallsOwnTheirRows
<1> QED  BY <1>1 DEF Finish, Closable, Closing

LEMMA ReleaseCloses ==
    ASSUME CallsOwnTheirRows, NEW q \in Questions, NEW t \in Tokens, ReleasePreSend(q, t)
    PROVE  \/ UNCHANGED <<ledger, scope, bucket, cursor>>
           \/ /\ cursor[q] = [gen |-> KeyOf(q, t).gen, next |-> KeyOf(q, t).att + 1]
              /\ cursor' = [cursor EXCEPT ![q] =
                                [gen |-> KeyOf(q, t).gen + 1, next |-> KeyOf(q, t).att]]
              /\ Closable({KeyOf(q, t)}, {}, 0, "settled_actual")
              /\ Closing({KeyOf(q, t)}, {}, 0, "settled_actual")
<1>1. KeyOf(q, t) \in DOMAIN ledger
    BY DEF CallsOwnTheirRows, ReleasePreSend
<1> QED  BY <1>1 DEF ReleasePreSend, Closable, Closing, Settled

LEMMA Reconciles ==
    ASSUME NEW r, NEW t, ReconcileRunLease(r, t)
    PROVE  \E R, C, used, how : Closable(R, C, used, how) /\ Closing(R, C, used, how)
<1> DEFINE S == {k \in Stale({}) : LeaseOf(k) = <<r, t>>}
<1>1. S \subseteq {k \in DOMAIN ledger : ledger[k].state \in Active}
    BY DEF Stale
<1>2. Closing(Unsent(S), InDoubt(S), Reservation, "settled_conservative")
    BY DEF ReconcileRunLease, Closing
<1>3. Closable(Unsent(S), InDoubt(S), Reservation, "settled_conservative")
    BY <1>1, StaleClosable
<1> QED  BY <1>2, <1>3

\* Every transaction leaves the accounts alone, closes rows, reserves, or
\* marks a row as sent.
LEMMA LedgerSteps ==
    ASSUME CallsOwnTheirRows, [Next]_vars
    PROVE  \/ UNCHANGED <<ledger, scope, bucket>>
           \/ \E R, C, used, how : Closable(R, C, used, how) /\ Closing(R, C, used, how)
           \/ \E q \in Questions, t \in Tokens :
                \/ \E heard \in BOOLEAN : Reserve(q, t, heard)
                \/ MarkSendStarted(q, t)
<1> DEFINE Closes == \E R, C, used, how : Closable(R, C, used, how) /\ Closing(R, C, used, how)
<1>1. ASSUME NextMinute \/ UNCHANGED vars
      PROVE  UNCHANGED <<ledger, scope, bucket>>
    BY <1>1 DEF NextMinute, Accounts, vars
<1>3. ASSUME NEW r \in Runs,
             \/ Claim(r) \/ Takeover(r) \/ Yield(r) \/ Retry(r) \/ Stop(r)
             \/ RequestCancel(r) \/ Renew(r) \/ Lapse(r)
      PROVE  UNCHANGED <<ledger, scope, bucket>>
    BY <1>3 DEF Claim, Takeover, Yield, Retry, Stop, RequestCancel, Renew, Lapse, Accounts
<1>4. ASSUME NEW r \in Runs, NEW t \in Tokens, ReconcileRunLease(r, t)
      PROVE  Closes
    BY <1>4, Reconciles
<1>5. ASSUME NEW q \in Questions, NEW t \in Tokens,
             \/ QuestionContext(q, t) \/ MarkRefused(q, t)
             \/ PersistResponse(q, t) \/ Abandon(q, t)
      PROVE  UNCHANGED <<ledger, scope, bucket>>
    BY <1>5 DEF QuestionContext, MarkRefused, PersistResponse, Abandon, Accounts
<1>6. ASSUME NEW q \in Questions, NEW t \in Tokens, ReleasePreSend(q, t)
      PROVE  UNCHANGED <<ledger, scope, bucket>> \/ Closes
    BY <1>6, ReleaseCloses
<1>7. ASSUME NEW q \in Questions, NEW t \in Tokens, NEW used \in Usages, SettleActual(q, t, used)
      PROVE  UNCHANGED <<ledger, scope, bucket>> \/ Closes
  <2>1. /\ used \in Nat /\ "settled_actual" \in Settled
        /\ call[q][t].stage = "sending" /\ Finish(q, t, used, "settled_actual")
    BY <1>7, AmountAssumption DEF SettleActual, Settled
  <2> QED  BY <2>1, FinishCloses
<1>8. ASSUME NEW q \in Questions, NEW t \in Tokens, NEW again \in BOOLEAN,
             SettleConservative(q, t, again)
      PROVE  UNCHANGED <<ledger, scope, bucket>> \/ Closes
  <2>1. /\ Reservation \in Nat /\ "settled_conservative" \in Settled
        /\ call[q][t].stage = "sending" /\ Finish(q, t, Reservation, "settled_conservative")
    BY <1>8, AmountAssumption DEF SettleConservative, Settled
  <2> QED  BY <2>1, FinishCloses
<1> HIDE DEF Closes
<1> QED
  <2> DEFINE Same == UNCHANGED <<ledger, scope, bucket>>
             Sends == \E q \in Questions, t \in Tokens :
                        \/ \E heard \in BOOLEAN : Reserve(q, t, heard)
                        \/ MarkSendStarted(q, t)
  <2> SUFFICES Same \/ Closes \/ Sends
    BY DEF Closes
  <2>1. ASSUME NEW r \in Runs,
               \/ Claim(r) \/ Takeover(r) \/ Yield(r) \/ Retry(r) \/ Stop(r)
               \/ RequestCancel(r) \/ Renew(r) \/ Lapse(r)
               \/ \E t \in Tokens : ReconcileRunLease(r, t)
        PROVE  Same \/ Closes
    BY <2>1, <1>3, <1>4
  <2>2. ASSUME NEW q \in Questions, NEW t \in Tokens,
               \/ QuestionContext(q, t)
               \/ MarkRefused(q, t) \/ ReleasePreSend(q, t)
               \/ \E used \in Usages : SettleActual(q, t, used)
               \/ \E again \in BOOLEAN : SettleConservative(q, t, again)
               \/ PersistResponse(q, t) \/ Abandon(q, t)
        PROVE  Same \/ Closes
    BY <2>2, <1>5, <1>6, <1>7, <1>8
  <2>3. CASE NextMinute \/ UNCHANGED vars
    BY <2>3, <1>1
  <2> HIDE DEF Same
  <2> QED  BY <2>1, <2>2, <2>3 DEF Next

\* What a reservation adds to the accounts left by the reconciliation before
\* it, and what send-start moves.
OpenRows(rows, k, t, m) ==
    [x \in DOMAIN rows \cup {k} |->
        IF x = k THEN [state |-> "reserved", token |-> t, window |-> m, actual |-> 0]
        ELSE rows[x]]

OpenScopes(sc, r) ==
    [s \in Scopes |->
        IF s \in ScopesOf[r]
        THEN [sc[s] EXCEPT !.active = @ + 1, !.reserved = @ + 1, !.held = @ + Reservation]
        ELSE sc[s]]

OpenBuckets(bk, r, m) ==
    [s \in Scopes |->
        IF s \in ScopesOf[r]
        THEN [bk[s] EXCEPT ![m].reserved = @ + 1, ![m].held = @ + Reservation]
        ELSE bk[s]]

MarkRows(rows, k, m) == [rows EXCEPT ![k].state = "send_started", ![k].window = m]

MarkScopes(sc, r) ==
    [s \in Scopes |->
        IF s \in ScopesOf[r]
        THEN [sc[s] EXCEPT !.reserved = @ - 1, !.consumed = @ + 1]
        ELSE sc[s]]

MarkBuckets(bk, r, old, m, moved) ==
    [s \in Scopes |->
        IF s \in ScopesOf[r]
        THEN LET out == [bk[s] EXCEPT ![old].reserved = @ - 1, ![old].held = @ - moved]
             IN  [out EXCEPT ![m].consumed = @ + 1, ![m].held = @ + moved]
        ELSE bk[s]]

\* The two fates of the stale rows a reservation of this call reconciles.
Dropped(q, t) == Unsent(Stale(SeesCall(q, t)))
Doubted(q, t) == InDoubt(Stale(SeesCall(q, t)))
Left(q, t) == CloseRows(Dropped(q, t), Doubted(q, t), Reservation, "settled_conservative")

LEMMA ReserveOpens ==
    ASSUME NEW q, NEW t, NEW heard, Reserve(q, t, heard)
    PROVE  /\ Closable(Dropped(q, t), Doubted(q, t), Reservation, "settled_conservative")
           /\ ledger' = OpenRows(Left(q, t), KeyOf(q, t), t, minute)
           /\ scope' = OpenScopes(CloseScopes(Dropped(q, t), Doubted(q, t), Reservation),
                                  RunOf[q])
           /\ bucket' = OpenBuckets(CloseBuckets(Dropped(q, t), Doubted(q, t), Reservation),
                                    RunOf[q], minute)
<1> DEFINE S == Stale(SeesCall(q, t))
<1>1. S \subseteq {k \in DOMAIN ledger : ledger[k].state \in Active}
    BY DEF Stale
<1>2. Closable(Unsent(S), InDoubt(S), Reservation, "settled_conservative")
    BY <1>1, StaleClosable
<1>3. DOMAIN Left(q, t) = DOMAIN ledger
    BY DEF Left, CloseRows
<1>4. ledger' = OpenRows(Left(q, t), KeyOf(q, t), t, minute)
    BY <1>3 DEF Reserve, OpenRows, Left, Dropped, Doubted
<1> QED  BY <1>2, <1>4 DEF Reserve, Dropped, Doubted, OpenScopes, OpenBuckets

LEMMA FreshKey ==
    ASSUME CallTypes, Numbered, NEW q \in Questions, NEW t \in Tokens,
           NEW heard, Reserve(q, t, heard)
    PROVE  /\ KeyOf(q, t) \in Key /\ KeyOf(q, t) \notin DOMAIN ledger
           /\ KeyOf(q, t).q = q /\ KeyOf(q, t).att \in 1..MaxProviderAttempts
           /\ cursor[q].gen = KeyOf(q, t).gen /\ cursor[q].next = KeyOf(q, t).att
<1> DEFINE k == KeyOf(q, t)
<1>1. cursor[q] \in [gen : Nat, next : Nat \ {0}]
    BY DEF CallTypes
<1>2. /\ cursor[q].gen = k.gen /\ cursor[q].next = k.att
      /\ k.att <= MaxProviderAttempts
  <2>1. cursor[q] = [gen |-> k.gen, next |-> k.att] /\ k.att <= MaxProviderAttempts
    BY DEF Reserve
  <2> HIDE DEF k
  <2> QED  BY <2>1
<1>3. k.q = q /\ k = [q |-> q, gen |-> k.gen, att |-> k.att]
    BY DEF KeyOf
<1> HIDE DEF k
<1>4. k \in Key /\ k.att \in 1..MaxProviderAttempts
    BY <1>1, <1>2, <1>3, BoundAssumption DEF Key
<1>5. k \notin DOMAIN ledger
    BY <1>1, <1>2, <1>3 DEF Numbered
<1> QED  BY <1>2, <1>3, <1>4, <1>5 DEF k

LEMMA MarkMoves ==
    ASSUME CallTypes, RowTypes(ledger), CallsOwnTheirRows,
           NEW q \in Questions, NEW t \in Tokens, MarkSendStarted(q, t)
    PROVE  /\ KeyOf(q, t) \in DOMAIN ledger /\ KeyOf(q, t) \in Key /\ KeyOf(q, t).q = q
           /\ ledger[KeyOf(q, t)].state = "reserved"
           /\ ledger' = MarkRows(ledger, KeyOf(q, t), minute)
           /\ scope' = MarkScopes(scope, RunOf[q])
           /\ \E moved \in Nat :
                /\ moved = IF ledger[KeyOf(q, t)].window # minute THEN Reservation ELSE 0
                /\ bucket' = MarkBuckets(bucket, RunOf[q], ledger[KeyOf(q, t)].window,
                                         minute, moved)
<1>1. KeyOf(q, t) \in DOMAIN ledger
    BY DEF CallsOwnTheirRows, MarkSendStarted
<1>2. KeyOf(q, t) \in Key /\ KeyOf(q, t).q = q
    BY <1>1 DEF RowTypes, KeyOf
<1>3. PICK moved \in Nat : moved = IF Moves(q, t) THEN Reservation ELSE 0
    BY AmountAssumption
<1>4. bucket' = MarkBuckets(bucket, RunOf[q], ledger[KeyOf(q, t)].window, minute, moved)
  <2>1. bucket' = MarkBuckets(bucket, RunOf[q], ledger[KeyOf(q, t)].window, minute,
                              IF Moves(q, t) THEN Reservation ELSE 0)
    BY DEF MarkSendStarted, MarkBuckets
  <2> QED  BY <1>3, <2>1
<1> QED  BY <1>1, <1>2, <1>3, <1>4 DEF MarkSendStarted, MarkRows, MarkScopes, Moves

LEMMA OpenTypes ==
    ASSUME NEW rows, NEW sc, NEW bk, RowTypes(rows), CounterTypes(sc, bk),
           NEW k \in Key, NEW t \in Tokens, NEW m \in Minutes, NEW r
    PROVE  /\ RowTypes(OpenRows(rows, k, t, m))
           /\ CounterTypes(OpenScopes(sc, r), OpenBuckets(bk, r, m))
<1>1. RowTypes(OpenRows(rows, k, t, m))
  <2>1. IsFiniteSet(DOMAIN rows \cup {k})
    BY FS_AddElement DEF RowTypes
  <2> QED  BY <2>1 DEF RowTypes, OpenRows, KeyRow, Active
<1>2. ASSUME NEW s \in Scopes
      PROVE  OpenScopes(sc, r)[s] \in ScopeCounts
  <2>1. sc[s] \in ScopeCounts
    BY DEF CounterTypes
  <2>2. /\ sc[s].active + 1 \in Int /\ sc[s].reserved + 1 \in Int
        /\ sc[s].held + Reservation \in Int
    BY <2>1, AmountAssumption DEF ScopeCounts
  <2> QED  BY <2>1, <2>2 DEF OpenScopes, ScopeCounts
<1>3. ASSUME NEW s \in Scopes
      PROVE  OpenBuckets(bk, r, m)[s] \in [Minutes -> BucketCounts]
  <2>1. bk[s] \in [Minutes -> BucketCounts] /\ bk[s][m] \in BucketCounts
    BY DEF CounterTypes
  <2>2. bk[s][m].reserved + 1 \in Int /\ bk[s][m].held + Reservation \in Int
    BY <2>1, AmountAssumption DEF BucketCounts
  <2>3. [bk[s][m] EXCEPT !.reserved = @ + 1, !.held = @ + Reservation] \in BucketCounts
    BY <2>1, <2>2 DEF BucketCounts
  <2>4. [bk[s] EXCEPT ![m].reserved = @ + 1, ![m].held = @ + Reservation]
            = [bk[s] EXCEPT ![m] = [bk[s][m] EXCEPT !.reserved = @ + 1, !.held = @ + Reservation]]
    BY <2>1 DEF BucketCounts
  <2> QED  BY <2>1, <2>3, <2>4 DEF OpenBuckets
<1> QED  BY <1>1, <1>2, <1>3 DEF CounterTypes, OpenScopes, OpenBuckets

LEMMA MarkTypes ==
    ASSUME NEW rows, NEW sc, NEW bk, RowTypes(rows), CounterTypes(sc, bk),
           NEW k \in DOMAIN rows, NEW old \in Minutes, NEW m \in Minutes,
           NEW r, NEW moved \in Nat
    PROVE  /\ RowTypes(MarkRows(rows, k, m))
           /\ DOMAIN MarkRows(rows, k, m) = DOMAIN rows
           /\ CounterTypes(MarkScopes(sc, r), MarkBuckets(bk, r, old, m, moved))
<1>1. RowTypes(MarkRows(rows, k, m)) /\ DOMAIN MarkRows(rows, k, m) = DOMAIN rows
    BY DEF RowTypes, MarkRows, KeyRow, Active
<1>2. ASSUME NEW s \in Scopes
      PROVE  MarkScopes(sc, r)[s] \in ScopeCounts
  <2>1. sc[s] \in ScopeCounts
    BY DEF CounterTypes
  <2>2. sc[s].reserved - 1 \in Int /\ sc[s].consumed + 1 \in Int
    BY <2>1 DEF ScopeCounts
  <2> QED  BY <2>1, <2>2 DEF MarkScopes, ScopeCounts
<1>3. ASSUME NEW s \in Scopes
      PROVE  MarkBuckets(bk, r, old, m, moved)[s] \in [Minutes -> BucketCounts]
  <2>1. bk[s] \in [Minutes -> BucketCounts] /\ bk[s][old] \in BucketCounts
    BY DEF CounterTypes
  <2>2. bk[s][old].reserved - 1 \in Int /\ bk[s][old].held - moved \in Int
    BY <2>1 DEF BucketCounts
  <2> DEFINE out == [bk[s] EXCEPT ![old].reserved = @ - 1, ![old].held = @ - moved]
  <2>3. [bk[s][old] EXCEPT !.reserved = @ - 1, !.held = @ - moved] \in BucketCounts
    BY <2>1, <2>2 DEF BucketCounts
  <2>4. out = [bk[s] EXCEPT ![old] = [bk[s][old] EXCEPT !.reserved = @ - 1, !.held = @ - moved]]
    BY <2>1 DEF BucketCounts
  <2>5. out \in [Minutes -> BucketCounts] /\ out[m] \in BucketCounts
    BY <2>1, <2>3, <2>4
  <2>6. MarkBuckets(bk, r, old, m, moved)[s] =
            IF s \in ScopesOf[r]
            THEN [out EXCEPT ![m].consumed = @ + 1, ![m].held = @ + moved] ELSE bk[s]
    BY DEF MarkBuckets
  <2> HIDE DEF out
  <2>7. out[m].consumed + 1 \in Int /\ out[m].held + moved \in Int
    BY <2>5 DEF BucketCounts
  <2>8. [out[m] EXCEPT !.consumed = @ + 1, !.held = @ + moved] \in BucketCounts
    BY <2>5, <2>7 DEF BucketCounts
  <2>9. [out EXCEPT ![m].consumed = @ + 1, ![m].held = @ + moved]
            = [out EXCEPT ![m] = [out[m] EXCEPT !.consumed = @ + 1, !.held = @ + moved]]
    BY <2>5 DEF BucketCounts
  <2> QED  BY <2>1, <2>5, <2>6, <2>8, <2>9
<1> QED  BY <1>1, <1>2, <1>3 DEF CounterTypes, MarkScopes, MarkBuckets

LEMMA LedgerBaseInvariant ==
    ASSUME LedgerBase, CallsOwnTheirRows, Numbered, [Next]_vars
    PROVE  LedgerBase'
<1>1. CallTypes'
    BY CallTypesInvariant DEF LedgerBase
<1> SUFFICES RowTypes(ledger') /\ CounterTypes(scope', bucket')
    BY <1>1 DEF LedgerBase
<1>2. CASE UNCHANGED <<ledger, scope, bucket>>
    BY <1>2 DEF LedgerBase
<1>3. ASSUME NEW R, NEW C, NEW used, NEW how, Closable(R, C, used, how), Closing(R, C, used, how)
      PROVE  RowTypes(ledger') /\ CounterTypes(scope', bucket')
    BY <1>3, CloseTypes DEF LedgerBase, Closing
<1>4. ASSUME NEW q \in Questions, NEW t \in Tokens, NEW heard \in BOOLEAN, Reserve(q, t, heard)
      PROVE  RowTypes(ledger') /\ CounterTypes(scope', bucket')
  <2> DEFINE sc == CloseScopes(Dropped(q, t), Doubted(q, t), Reservation)
             bk == CloseBuckets(Dropped(q, t), Doubted(q, t), Reservation)
  <2>1. RowTypes(Left(q, t)) /\ CounterTypes(sc, bk)
    BY <1>4, ReserveOpens, CloseTypes DEF LedgerBase, Left
  <2>2. KeyOf(q, t) \in Key /\ minute \in Minutes
    BY <1>4, FreshKey DEF LedgerBase, CallTypes
  <2> HIDE DEF sc, bk
  <2>3. /\ RowTypes(OpenRows(Left(q, t), KeyOf(q, t), t, minute))
        /\ CounterTypes(OpenScopes(sc, RunOf[q]), OpenBuckets(bk, RunOf[q], minute))
    BY <2>1, <2>2, OpenTypes
  <2> QED  BY <1>4, <2>3, ReserveOpens DEF sc, bk
<1>5. ASSUME NEW q \in Questions, NEW t \in Tokens, MarkSendStarted(q, t)
      PROVE  RowTypes(ledger') /\ CounterTypes(scope', bucket')
  <2> DEFINE k == KeyOf(q, t)
  <2>1. k \in DOMAIN ledger /\ ledger' = MarkRows(ledger, k, minute)
    BY <1>5, MarkMoves DEF LedgerBase
  <2>2. PICK moved \in Nat : bucket' = MarkBuckets(bucket, RunOf[q], ledger[k].window, minute, moved)
    BY <1>5, MarkMoves DEF LedgerBase
  <2>3. scope' = MarkScopes(scope, RunOf[q])
    BY <1>5, MarkMoves DEF LedgerBase
  <2>4. minute \in Minutes /\ ledger[k].window \in Minutes
    BY <2>1 DEF LedgerBase, CallTypes, RowTypes, KeyRow
  <2> HIDE DEF k
  <2> QED  BY <2>1, <2>2, <2>3, <2>4, MarkTypes DEF LedgerBase
<1> QED  BY <1>2, <1>3, <1>4, <1>5, LedgerSteps

\* What a step may do to an existing row; only its own call's send-start takes
\* a reserved row to send_started.
OneWay(k) ==
    /\ k \in DOMAIN ledger'
    /\ ledger[k].state \notin Active => ledger'[k] = ledger[k]
    /\ ledger[k].state = "send_started" =>
        ledger'[k].state \in Sent /\ ledger'[k].window = ledger[k].window
    /\ ledger'[k].token = ledger[k].token

Unmarked(k) ==
    ledger[k].state = "reserved" => ledger'[k].state \in {"reserved", "released_pre_send"}

LEMMA CloseOneWay ==
    ASSUME RowTypes(ledger), NEW R, NEW C, NEW used, NEW how, Closable(R, C, used, how),
           NEW k \in DOMAIN ledger, k \in DOMAIN ledger',
           ledger'[k] = CloseRows(R, C, used, how)[k]
    PROVE  OneWay(k) /\ Unmarked(k)
<1>1. ledger[k] \in KeyRow
    BY DEF RowTypes
<1>2. CASE k \in R
  <2>1. ledger[k].state = "reserved" /\ ledger'[k] = [ledger[k] EXCEPT !.state = "released_pre_send"]
    BY <1>2 DEF Closable, CloseRows
  <2> QED  BY <1>1, <2>1 DEF KeyRow, OneWay, Unmarked, Active
<1>3. CASE k \in C /\ k \notin R
  <2>1. /\ ledger[k].state = "send_started"
        /\ ledger'[k] = [ledger[k] EXCEPT !.state = how, !.actual = used]
        /\ how \in Settled
    BY <1>3 DEF Closable, CloseRows
  <2> QED  BY <1>1, <2>1 DEF KeyRow, OneWay, Unmarked, Active, Sent
<1>4. CASE k \notin C /\ k \notin R
  <2>1. ledger'[k] = ledger[k]
    BY <1>4 DEF CloseRows
  <2> QED  BY <2>1 DEF OneWay, Unmarked, Sent
<1> QED  BY <1>2, <1>3, <1>4

LEMMA ReserveOneWay ==
    ASSUME LedgerBase, Numbered, NEW q \in Questions, NEW t \in Tokens,
           NEW heard \in BOOLEAN, Reserve(q, t, heard)
    PROVE  /\ \A k \in DOMAIN ledger : OneWay(k) /\ Unmarked(k)
           /\ DOMAIN ledger' = DOMAIN ledger \cup {KeyOf(q, t)}
           /\ ledger'[KeyOf(q, t)].state = "reserved" /\ ledger'[KeyOf(q, t)].token = t
<1> DEFINE new == KeyOf(q, t)
           rows == Left(q, t)
<1>1. Closable(Dropped(q, t), Doubted(q, t), Reservation, "settled_conservative")
    BY ReserveOpens
<1>2. DOMAIN rows = DOMAIN ledger
    BY DEF Left, CloseRows
<1>3. RowTypes(ledger) /\ new \notin DOMAIN ledger
    BY FreshKey DEF LedgerBase
<1>4. ledger' = OpenRows(rows, new, t, minute)
    BY ReserveOpens
<1>5. rows = CloseRows(Dropped(q, t), Doubted(q, t), Reservation, "settled_conservative")
    BY DEF Left
<1> HIDE DEF new, rows
<1>6. /\ DOMAIN ledger' = DOMAIN ledger \cup {new}
      /\ ledger'[new].state = "reserved" /\ ledger'[new].token = t
      /\ \A k \in DOMAIN ledger : ledger'[k] = rows[k]
    BY <1>2, <1>3, <1>4 DEF OpenRows
<1>7. ASSUME NEW k \in DOMAIN ledger
      PROVE  OneWay(k) /\ Unmarked(k)
    BY <1>1, <1>3, <1>5, <1>6, CloseOneWay
<1> QED  BY <1>6, <1>7 DEF new

LEMMA MarkOneWay ==
    ASSUME LedgerBase, CallsOwnTheirRows, NEW q \in Questions, NEW t \in Tokens,
           MarkSendStarted(q, t)
    PROVE  /\ \A k \in DOMAIN ledger : OneWay(k)
           /\ \A k \in DOMAIN ledger : k # KeyOf(q, t) => Unmarked(k)
           /\ DOMAIN ledger' = DOMAIN ledger /\ KeyOf(q, t) \in DOMAIN ledger
           /\ ledger'[KeyOf(q, t)].state = "send_started"
<1> DEFINE x == KeyOf(q, t)
<1>1. /\ x \in DOMAIN ledger /\ ledger[x].state = "reserved"
      /\ ledger' = MarkRows(ledger, x, minute)
    BY MarkMoves DEF LedgerBase
<1> HIDE DEF x
<1>2. ledger[x] \in KeyRow
    BY <1>1 DEF LedgerBase, RowTypes
<1>3. /\ DOMAIN ledger' = DOMAIN ledger
      /\ \A k \in DOMAIN ledger : k # x => ledger'[k] = ledger[k]
      /\ ledger'[x].state = "send_started" /\ ledger'[x].token = ledger[x].token
    BY <1>1, <1>2 DEF MarkRows, KeyRow
<1>4. \A k \in DOMAIN ledger : OneWay(k)
    BY <1>1, <1>3 DEF OneWay, Active, Sent
<1>5. \A k \in DOMAIN ledger : k # x => Unmarked(k)
    BY <1>3 DEF Unmarked
<1> QED  BY <1>1, <1>3, <1>4, <1>5 DEF x

LEMMA StepsOneWay ==
    ASSUME LedgerBase, CallsOwnTheirRows, Numbered, [Next]_vars
    PROVE  /\ \A k \in DOMAIN ledger : OneWay(k)
           /\ \/ \A k \in DOMAIN ledger : Unmarked(k)
              \/ \E q \in Questions, t \in Tokens :
                    /\ MarkSendStarted(q, t)
                    /\ \A k \in DOMAIN ledger : k # KeyOf(q, t) => Unmarked(k)
<1>1. CASE UNCHANGED <<ledger, scope, bucket>>
    BY <1>1 DEF OneWay, Unmarked, Sent
<1>2. ASSUME NEW R, NEW C, NEW used, NEW how, Closable(R, C, used, how), Closing(R, C, used, how)
      PROVE  \A k \in DOMAIN ledger : OneWay(k) /\ Unmarked(k)
  <2>1. DOMAIN ledger' = DOMAIN ledger /\ ledger' = CloseRows(R, C, used, how)
    BY <1>2 DEF Closing, CloseRows
  <2> QED  BY <1>2, <2>1, CloseOneWay DEF LedgerBase
<1> QED  BY <1>1, <1>2, ReserveOneWay, MarkOneWay, LedgerSteps

\* CallsOwnTheirRows, call by call.
Owns(q, t) ==
    call[q][t].stage \in {"permitted", "releasing", "sending"} =>
        /\ KeyOf(q, t) \in DOMAIN ledger
        /\ ledger[KeyOf(q, t)].token = t
        /\ call[q][t].stage = "sending" =>
            ledger[KeyOf(q, t)].state \in Sent
        /\ call[q][t].stage = "releasing" =>
            ledger[KeyOf(q, t)].state \in {"reserved", "released_pre_send"}

\* A call that does not move keeps its row through every step but its own
\* send-start: no other call holds the same row.
LEMMA BystanderOwns ==
    ASSUME LedgerBase, CallsOwnTheirRows, Numbered, [Next]_vars,
           NEW q \in Questions, NEW t \in Tokens,
           call'[q][t] = call[q][t], ~MarkSendStarted(q, t)
    PROVE  Owns(q, t)'
<1> DEFINE k == KeyOf(q, t)
<1>1. Owns(q, t)
    BY DEF CallsOwnTheirRows, Owns
<1> SUFFICES ASSUME call[q][t].stage \in {"permitted", "releasing", "sending"}
             PROVE  /\ k \in DOMAIN ledger'
                    /\ ledger'[k].token = t
                    /\ call[q][t].stage = "sending" => ledger'[k].state \in Sent
                    /\ call[q][t].stage = "releasing" =>
                        ledger'[k].state \in {"reserved", "released_pre_send"}
    BY DEF Owns, KeyOf
<1>2. /\ k \in DOMAIN ledger /\ ledger[k].token = t /\ k.q = q
      /\ call[q][t].stage = "sending" => ledger[k].state \in Sent
      /\ call[q][t].stage = "releasing" =>
            ledger[k].state \in {"reserved", "released_pre_send"}
    BY <1>1 DEF Owns, KeyOf
<1>3. OneWay(k)
    BY <1>2, StepsOneWay
<1>4. Unmarked(k)
  <2>1. ASSUME NEW q2 \in Questions, NEW t2 \in Tokens, MarkSendStarted(q2, t2)
        PROVE  k # KeyOf(q2, t2)
    <3> SUFFICES ASSUME k = KeyOf(q2, t2) PROVE FALSE
        OBVIOUS
    <3>1. KeyOf(q2, t2).q = q2 /\ ledger[KeyOf(q2, t2)].token = t2
        BY <2>1 DEF KeyOf, CallsOwnTheirRows, MarkSendStarted
    <3> QED  BY <1>2, <2>1, <3>1
  <2> QED  BY <1>2, <2>1, StepsOneWay
<1> HIDE DEF k
<1> QED  BY <1>2, <1>3, <1>4 DEF OneWay, Unmarked, Active, Sent, Settled

LEMMA EnterOne ==
    ASSUME CallTypes, NEW q \in Questions, NEW t \in Tokens, NEW c, Enter(q, t, c)
    PROVE  /\ call'[q][t] = c
           /\ \A q2 \in Questions, t2 \in Tokens :
                <<q2, t2>> # <<q, t>> => call'[q2][t2] = call[q2][t2]
BY DEF CallTypes, Enter

LEMMA OwnedInvariant ==
    ASSUME LedgerBase, CallsOwnTheirRows, Numbered, [Next]_vars
    PROVE  CallsOwnTheirRows'
<1> SUFFICES \A q \in Questions, t \in Tokens : Owns(q, t)'
    BY DEF Owns, CallsOwnTheirRows
<1>0. CallTypes /\ RowTypes(ledger)
    BY DEF LedgerBase
<1>1. ASSUME NEW q \in Questions, NEW t \in Tokens,
             \E c : Enter(q, t, c),
             Owns(q, t)'
      PROVE  \A q2 \in Questions, t2 \in Tokens : Owns(q2, t2)'
  <2> SUFFICES ASSUME NEW q2 \in Questions, NEW t2 \in Tokens, <<q2, t2>> # <<q, t>>
               PROVE  Owns(q2, t2)'
    BY <1>1
  <2>1. call'[q2][t2] = call[q2][t2]
    BY <1>0, <1>1, EnterOne
  <2>2. ~MarkSendStarted(q2, t2)
    <3> SUFFICES ASSUME MarkSendStarted(q2, t2) PROVE FALSE
        OBVIOUS
    <3>1. /\ call[q2][t2].stage = "permitted"
          /\ Enter(q2, t2, [call[q2][t2] EXCEPT !.stage = "sending"])
        BY DEF MarkSendStarted, Stage
    <3>2. call'[q2][t2] = [call[q2][t2] EXCEPT !.stage = "sending"]
        BY <1>0, <3>1, EnterOne
    <3>3. call[q2][t2] \in Calls
        BY <1>0, StageTypes
    <3> QED  BY <2>1, <3>1, <3>2, <3>3 DEF Calls
  <2> QED  BY <2>1, <2>2, BystanderOwns
<1>2. CASE UNCHANGED call
  <2> SUFFICES ASSUME NEW q2 \in Questions, NEW t2 \in Tokens
               PROVE  Owns(q2, t2)'
    OBVIOUS
  <2>1. ~MarkSendStarted(q2, t2)
    <3> SUFFICES ASSUME MarkSendStarted(q2, t2) PROVE FALSE
        OBVIOUS
    <3>1. /\ call[q2][t2].stage = "permitted"
          /\ Enter(q2, t2, [call[q2][t2] EXCEPT !.stage = "sending"])
        BY DEF MarkSendStarted, Stage
    <3>2. call'[q2][t2] = [call[q2][t2] EXCEPT !.stage = "sending"]
        BY <1>0, <3>1, EnterOne
    <3>3. call[q2][t2] \in Calls
        BY <1>0, StageTypes
    <3> QED  BY <1>2, <3>1, <3>2, <3>3 DEF Calls
  <2> QED  BY <1>2, <2>1, BystanderOwns
<1>3. ASSUME NEW q \in Questions, NEW t \in Tokens,
             NEW c, Enter(q, t, c), c.stage \notin {"permitted", "releasing", "sending"}
      PROVE  Owns(q, t)'
  <2>1. call'[q][t] = c
    BY <1>0, <1>3, EnterOne
  <2> QED  BY <1>3, <2>1 DEF Owns
<1>4. ASSUME NEW q \in Questions, NEW t \in Tokens, NEW heard \in BOOLEAN, Reserve(q, t, heard)
      PROVE  Owns(q, t)' /\ \E c : Enter(q, t, c)
  <2>1. CASE ~heard
    <3>1. Enter(q, t, Gone) /\ Gone.stage = "gone"
        BY <1>4, <2>1 DEF Reserve, End, Gone
    <3> QED  BY <3>1, <1>3
  <2>2. CASE heard
    <3>1. Enter(q, t, [call[q][t] EXCEPT !.stage = "permitted"])
        BY <1>4, <2>2 DEF Reserve, Stage
    <3>2. call'[q][t] = [call[q][t] EXCEPT !.stage = "permitted"] /\ call[q][t] \in Calls
        BY <1>0, <3>1, EnterOne, StageTypes
    <3>3. KeyOf(q, t)' = KeyOf(q, t) /\ call'[q][t].stage = "permitted"
        BY <3>2 DEF KeyOf, Calls
    <3>4. KeyOf(q, t) \in DOMAIN ledger' /\ ledger'[KeyOf(q, t)].token = t
        BY <1>4, ReserveOneWay
    <3>5. Owns(q, t)'
        BY <3>3, <3>4 DEF Owns
    <3> QED  BY <3>1, <3>5
  <2> QED  BY <2>1, <2>2
<1>5. ASSUME NEW q \in Questions, NEW t \in Tokens, MarkSendStarted(q, t)
      PROVE  Owns(q, t)' /\ \E c : Enter(q, t, c)
  <2>1. Enter(q, t, [call[q][t] EXCEPT !.stage = "sending"]) /\ call[q][t].stage = "permitted"
    BY <1>5 DEF MarkSendStarted, Stage
  <2>2. call'[q][t] = [call[q][t] EXCEPT !.stage = "sending"] /\ call[q][t] \in Calls
    BY <1>0, <2>1, EnterOne, StageTypes
  <2>3. KeyOf(q, t)' = KeyOf(q, t) /\ call'[q][t].stage = "sending"
    BY <2>2 DEF KeyOf, Calls
  <2>4. /\ KeyOf(q, t) \in DOMAIN ledger
        /\ ledger[KeyOf(q, t)].token = t
    BY <2>1 DEF CallsOwnTheirRows
  <2>5. OneWay(KeyOf(q, t)) /\ ledger'[KeyOf(q, t)].state = "send_started"
    BY <1>5, MarkOneWay
  <2>6. Owns(q, t)'
    BY <2>3, <2>4, <2>5 DEF Owns, OneWay, Sent
  <2> QED  BY <2>1, <2>6
<1>6. ASSUME NEW q \in Questions, NEW t \in Tokens, MarkRefused(q, t)
      PROVE  Owns(q, t)' /\ \E c : Enter(q, t, c)
  <2>1. CASE End(q, t)
    <3>1. Enter(q, t, Gone) /\ Gone.stage = "gone"
        BY <2>1 DEF End, Gone
    <3> QED  BY <3>1, <1>3
  <2>2. CASE ledger[KeyOf(q, t)].state = "reserved" /\ Stage(q, t, "releasing")
    <3>1. Enter(q, t, [call[q][t] EXCEPT !.stage = "releasing"])
        BY <2>2 DEF Stage
    <3>2. call'[q][t] = [call[q][t] EXCEPT !.stage = "releasing"] /\ call[q][t] \in Calls
        BY <1>0, <3>1, EnterOne, StageTypes
    <3>3. KeyOf(q, t)' = KeyOf(q, t) /\ call'[q][t].stage = "releasing"
        BY <3>2 DEF KeyOf, Calls
    <3>4. /\ KeyOf(q, t) \in DOMAIN ledger /\ ledger[KeyOf(q, t)].token = t
          /\ ledger' = ledger
        BY <1>6 DEF MarkRefused, CallsOwnTheirRows, Accounts
    <3>5. Owns(q, t)'
        BY <2>2, <3>3, <3>4 DEF Owns
    <3> QED  BY <3>1, <3>5
  <2> QED  BY <1>6, <2>1, <2>2 DEF MarkRefused
<1>7. ASSUME NEW q \in Questions, NEW t \in Tokens,
             \/ QuestionContext(q, t) \/ ReleasePreSend(q, t)
             \/ \E used \in Usages : SettleActual(q, t, used)
             \/ \E again \in BOOLEAN : SettleConservative(q, t, again)
             \/ PersistResponse(q, t) \/ Abandon(q, t)
      PROVE  \E c : Enter(q, t, c) /\ c.stage \notin {"permitted", "releasing", "sending"}
  <2>0. call[q][t] \in Calls
    BY <1>0, StageTypes
  <2>1. CASE QuestionContext(q, t)
    BY <2>1 DEF QuestionContext
  <2>2. CASE ReleasePreSend(q, t) \/ PersistResponse(q, t) \/ Abandon(q, t)
    BY <2>2 DEF ReleasePreSend, PersistResponse, Abandon, End, Gone
  <2>3. CASE \E used \in Usages : SettleActual(q, t, used)
    <3>1. Enter(q, t, [call[q][t] EXCEPT !.stage = "returned"])
        BY <2>3 DEF SettleActual, Stage
    <3> QED  BY <2>0, <3>1 DEF Calls
  <2>4. CASE \E again \in BOOLEAN : SettleConservative(q, t, again)
    <3>1. PICK again \in BOOLEAN : SettleConservative(q, t, again)
        BY <2>4
    <3> DEFINE c == [call[q][t] EXCEPT
                        !.stage = IF again THEN "admitted" ELSE "returned",
                        !.att = IF again THEN @ + 1 ELSE @]
    <3>2. Enter(q, t, c)
        BY <3>1 DEF SettleConservative
    <3>3. c.stage = IF again THEN "admitted" ELSE "returned"
        BY <2>0 DEF Calls
    <3> HIDE DEF c
    <3> QED  BY <3>2, <3>3
  <2> QED  BY <1>7, <2>1, <2>2, <2>3, <2>4
<1>8. ASSUME \/ NextMinute \/ UNCHANGED vars
             \/ \E r \in Runs :
                 \/ Claim(r) \/ Takeover(r) \/ Yield(r) \/ Retry(r) \/ Stop(r)
                 \/ RequestCancel(r) \/ Renew(r) \/ Lapse(r)
                 \/ \E t \in Tokens : ReconcileRunLease(r, t)
      PROVE  UNCHANGED call
    BY <1>8 DEF NextMinute, vars, Claim, Takeover, Yield, Retry, Stop, RequestCancel,
                Renew, Lapse, ReconcileRunLease, Elsewhere
<1>9. ASSUME NEW q \in Questions, NEW t \in Tokens,
             \/ QuestionContext(q, t)
             \/ \E heard \in BOOLEAN : Reserve(q, t, heard)
             \/ MarkSendStarted(q, t) \/ MarkRefused(q, t) \/ ReleasePreSend(q, t)
             \/ \E used \in Usages : SettleActual(q, t, used)
             \/ \E again \in BOOLEAN : SettleConservative(q, t, again)
             \/ PersistResponse(q, t) \/ Abandon(q, t)
      PROVE  \A q2 \in Questions, t2 \in Tokens : Owns(q2, t2)'
  <2>1. Owns(q, t)' /\ \E c : Enter(q, t, c)
    BY <1>3, <1>4, <1>5, <1>6, <1>7, <1>9
  <2> QED  BY <1>1, <2>1
<1> QED  BY <1>2, <1>8, <1>9 DEF Next

\* A new generation lies above every row of its question, so none of them
\* stands any more; otherwise neither the cursor nor the epoch moves.
LEMMA GenerationNumbers ==
    ASSUME LedgerBase, Numbered, OrdinalsSpent, NEW r, NewGeneration(r), ledger' = ledger
    PROVE  Numbered' /\ OrdinalsSpent'
<1>1. ASSUME NEW q \in Questions
      PROVE  /\ cursor[q].gen \in Nat /\ cursor[q].next \in Nat \ {0}
             /\ \/ cursor'[q] = cursor[q] /\ epoch'[q] = epoch[q]
                \/ /\ cursor'[q].gen = cursor[q].gen + 1 /\ cursor'[q].next = 1
                   /\ epoch'[q] = cursor[q].gen + 1
    BY DEF LedgerBase, CallTypes, NewGeneration
<1>2. \A k \in DOMAIN ledger : k.q \in Questions /\ k.gen \in Nat /\ k.att \in Nat
    BY DEF LedgerBase, RowTypes, Key
<1>3. Numbered'
    BY <1>1, <1>2 DEF Numbered
<1>4. ASSUME NEW q \in Questions
      PROVE  /\ \A k, l \in Standing(q)' : k.att = l.att => k = l
             /\ \A k \in Standing(q)' : k.att < cursor'[q].next
  <2>1. CASE cursor'[q] = cursor[q] /\ epoch'[q] = epoch[q]
    <3>1. Standing(q)' = Standing(q)
        BY <2>1 DEF Standing
    <3> QED  BY <2>1, <3>1 DEF OrdinalsSpent
  <2>2. CASE epoch'[q] = cursor[q].gen + 1
    <3>1. Standing(q)' = {}
        BY <1>1, <1>2, <2>2 DEF Standing, Numbered
    <3> QED  BY <3>1
  <2> QED  BY <1>1, <2>1, <2>2
<1> QED  BY <1>3, <1>4 DEF OrdinalsSpent

LEMMA NumbersInvariant ==
    ASSUME AttemptsIInv, [Next]_vars
    PROVE  Numbered' /\ OrdinalsSpent'
<1>0. LedgerBase /\ CallsOwnTheirRows /\ Numbered /\ OrdinalsSpent /\ CallTypes /\ RowTypes(ledger)
    BY DEF AttemptsIInv, LedgerBase
<1>1. \A k \in DOMAIN ledger : k.q \in Questions /\ k.gen \in Nat /\ k.att \in Nat
    BY <1>0 DEF RowTypes, Key
<1>2. \A q \in Questions : /\ cursor[q].gen \in Nat /\ cursor[q].next \in Nat \ {0}
                           /\ epoch[q] \in Nat
    BY <1>0 DEF CallTypes
<1>3. \A k \in DOMAIN ledger : OneWay(k)
    BY <1>0, StepsOneWay
<1>4. \A k \in DOMAIN ledger :
        ledger[k].state = "released_pre_send" => ledger'[k].state = "released_pre_send"
    BY <1>3 DEF OneWay, Active
<1>5. ASSUME DOMAIN ledger' = DOMAIN ledger, UNCHANGED <<cursor, epoch>>
      PROVE  Numbered' /\ OrdinalsSpent'
  <2>1. \A q \in Questions : Standing(q)' \subseteq Standing(q)
    BY <1>4, <1>5 DEF Standing
  <2> QED  BY <1>0, <1>5, <2>1 DEF Numbered, OrdinalsSpent
<1>6. ASSUME NEW q \in Questions, NEW t \in Tokens, NEW heard \in BOOLEAN, Reserve(q, t, heard)
      PROVE  Numbered' /\ OrdinalsSpent'
  <2> DEFINE x == KeyOf(q, t)
  <2>1. /\ x \notin DOMAIN ledger /\ x.q = q /\ x.att \in 1..MaxProviderAttempts
        /\ cursor[q].gen = x.gen /\ cursor[q].next = x.att
    BY <1>0, <1>6, FreshKey
  <2>2. DOMAIN ledger' = DOMAIN ledger \cup {x}
    BY <1>0, <1>6, ReserveOneWay
  <2>3. cursor' = [cursor EXCEPT ![q].next = @ + 1] /\ epoch' = epoch
    BY <1>6 DEF Reserve
  <2>4. /\ cursor'[q].gen = cursor[q].gen /\ cursor'[q].next = cursor[q].next + 1
        /\ \A p \in Questions : p # q => cursor'[p] = cursor[p]
    BY <1>0, <2>3 DEF CallTypes
  <2> HIDE DEF x
  <2>5. Numbered'
    BY <1>0, <1>1, <1>2, <2>1, <2>2, <2>4 DEF Numbered
  <2>6. \A p \in Questions : Standing(p)' \subseteq Standing(p) \cup {x}
    BY <1>4, <2>2, <2>3 DEF Standing
  <2>7. \A p \in Questions : p # q => Standing(p)' \subseteq Standing(p)
    BY <1>4, <2>1, <2>2, <2>3 DEF Standing
  <2>8. \A p \in Questions : \A k \in Standing(p) : k \in DOMAIN ledger
    BY DEF Standing
  <2>9. ASSUME NEW p \in Questions
        PROVE  /\ \A k, l \in Standing(p)' : k.att = l.att => k = l
               /\ \A k \in Standing(p)' : k.att < cursor'[p].next
    <3>1. CASE p # q
        BY <1>0, <2>4, <2>7, <3>1 DEF OrdinalsSpent
    <3>2. CASE p = q
      <4>1. \A k \in Standing(q) : k.att < x.att /\ k.att \in Nat
        BY <1>0, <1>1, <2>1, <2>8 DEF OrdinalsSpent
      <4>2. \A k, l \in Standing(q) : k.att = l.att => k = l
        BY <1>0 DEF OrdinalsSpent
      <4>3. x.att \in Nat /\ cursor'[q].next = x.att + 1
        BY <2>1, <2>4, BoundAssumption
      <4> QED  BY <3>2, <2>6, <4>1, <4>2, <4>3
    <3> QED  BY <3>1, <3>2
  <2> QED  BY <2>5, <2>9 DEF OrdinalsSpent
<1>7. ASSUME NEW q \in Questions, NEW t \in Tokens, ReleasePreSend(q, t)
      PROVE  Numbered' /\ OrdinalsSpent'
  <2> DEFINE x == KeyOf(q, t)
  <2>1. CASE UNCHANGED <<ledger, scope, bucket, cursor>>
    BY <1>5, <1>7, <2>1 DEF ReleasePreSend
  <2>2. CASE /\ cursor[q] = [gen |-> x.gen, next |-> x.att + 1]
             /\ cursor' = [cursor EXCEPT ![q] = [gen |-> x.gen + 1, next |-> x.att]]
             /\ Closable({x}, {}, 0, "settled_actual")
             /\ Closing({x}, {}, 0, "settled_actual")
    <3>1. epoch' = epoch
        BY <1>7 DEF ReleasePreSend
    <3>2. /\ x \in DOMAIN ledger /\ x.q = q /\ ledger[x].state = "reserved"
          /\ DOMAIN ledger' = DOMAIN ledger
      <4>1. x.q = q
        BY DEF KeyOf
      <4> HIDE DEF x
      <4> QED  BY <2>2, <4>1 DEF Closable, Closing, CloseRows
    <3>3. ledger'[x].state = "released_pre_send"
      <4>1. ledger[x] \in KeyRow
        BY <1>0, <3>2 DEF RowTypes
      <4> HIDE DEF x
      <4> QED  BY <2>2, <3>2, <4>1 DEF Closing, CloseRows, KeyRow
    <3> HIDE DEF x
    <3>4. /\ cursor[q].gen = x.gen /\ cursor[q].next = x.att + 1
          /\ cursor'[q].gen = x.gen + 1 /\ cursor'[q].next = x.att
          /\ \A p \in Questions : p # q => cursor'[p] = cursor[p]
        BY <1>0, <2>2 DEF CallTypes
    <3>5. Numbered'
        BY <1>0, <1>1, <1>2, <3>2, <3>4 DEF Numbered
    <3>6. \A p \in Questions : Standing(p)' \subseteq Standing(p) \ {x}
        BY <1>4, <3>1, <3>2, <3>3 DEF Standing
    <3>7. ASSUME NEW p \in Questions
          PROVE  /\ \A k, l \in Standing(p)' : k.att = l.att => k = l
                 /\ \A k \in Standing(p)' : k.att < cursor'[p].next
      <4>1. \A k, l \in Standing(p)' : k.att = l.att => k = l
        BY <1>0, <3>6 DEF OrdinalsSpent
      <4>2. CASE p # q
        BY <1>0, <3>4, <3>6, <4>1, <4>2 DEF OrdinalsSpent
      <4>3. CASE p = q
        <5> SUFFICES ASSUME NEW k \in Standing(q)' PROVE k.att < x.att
            BY <3>4, <4>1, <4>3
        <5>1. k \in Standing(q) /\ k # x /\ k \in DOMAIN ledger
            BY <3>6 DEF Standing
        <5>2. k.att < x.att + 1 /\ k.gen >= epoch[q] /\ k.gen <= x.gen
            BY <1>0, <3>4, <5>1 DEF OrdinalsSpent, Numbered, Standing
        <5>3. x \in Standing(q)
            BY <1>1, <1>2, <3>2, <5>1, <5>2 DEF Standing
        <5>4. k.att # x.att
            BY <1>0, <5>1, <5>3 DEF OrdinalsSpent
        <5> QED  BY <1>1, <3>2, <5>1, <5>2, <5>4
      <4> QED  BY <4>2, <4>3
    <3> QED  BY <3>5, <3>7 DEF OrdinalsSpent
  <2> QED  BY <1>0, <1>7, <2>1, <2>2, ReleaseCloses
<1>8. ASSUME NEW r \in Runs, Takeover(r) \/ Retry(r)
      PROVE  Numbered' /\ OrdinalsSpent'
    BY <1>0, <1>8, GenerationNumbers DEF Takeover, Retry, Accounts
<1>9. ASSUME \/ NextMinute \/ UNCHANGED vars
             \/ \E r \in Runs :
                 \/ Claim(r) \/ Yield(r) \/ Stop(r)
                 \/ RequestCancel(r) \/ Renew(r) \/ Lapse(r)
      PROVE  UNCHANGED <<cursor, epoch, ledger>>
    BY <1>9 DEF NextMinute, vars, Claim, Yield, Stop, RequestCancel, Renew, Lapse,
                SameGeneration, Accounts
<1>10. ASSUME NEW r \in Runs, NEW t \in Tokens, ReconcileRunLease(r, t)
       PROVE  UNCHANGED <<cursor, epoch>> /\ DOMAIN ledger' = DOMAIN ledger
    BY <1>10 DEF ReconcileRunLease, SameGeneration, CloseRows
<1>11. ASSUME NEW q \in Questions, NEW t \in Tokens,
             \/ QuestionContext(q, t) \/ MarkRefused(q, t)
             \/ PersistResponse(q, t) \/ Abandon(q, t)
       PROVE  UNCHANGED <<cursor, epoch, ledger>>
    BY <1>11 DEF QuestionContext, MarkRefused, PersistResponse, Abandon, SameGeneration, Accounts
<1>12. ASSUME NEW q \in Questions, NEW t \in Tokens,
             \/ MarkSendStarted(q, t)
             \/ \E used \in Usages : SettleActual(q, t, used)
             \/ \E again \in BOOLEAN : SettleConservative(q, t, again)
       PROVE  UNCHANGED <<cursor, epoch>> /\ DOMAIN ledger' = DOMAIN ledger
    BY <1>12 DEF MarkSendStarted, SettleActual, SettleConservative, Finish, SameGeneration,
                 CloseRows
<1>13. ASSUME NEW r \in Runs,
             \/ Claim(r) \/ Takeover(r) \/ Yield(r) \/ Retry(r) \/ Stop(r)
             \/ RequestCancel(r) \/ Renew(r) \/ Lapse(r)
             \/ \E t \in Tokens : ReconcileRunLease(r, t)
       PROVE  Numbered' /\ OrdinalsSpent'
    BY <1>5, <1>8, <1>9, <1>10, <1>13
<1>14. ASSUME NEW q \in Questions, NEW t \in Tokens,
             \/ QuestionContext(q, t)
             \/ \E heard \in BOOLEAN : Reserve(q, t, heard)
             \/ MarkSendStarted(q, t) \/ MarkRefused(q, t) \/ ReleasePreSend(q, t)
             \/ \E used \in Usages : SettleActual(q, t, used)
             \/ \E again \in BOOLEAN : SettleConservative(q, t, again)
             \/ PersistResponse(q, t) \/ Abandon(q, t)
       PROVE  Numbered' /\ OrdinalsSpent'
    BY <1>5, <1>6, <1>7, <1>11, <1>12, <1>14
<1> QED  BY <1>5, <1>9, <1>13, <1>14 DEF Next

-----------------------------------------------------------------------------
LEMMA AttemptsInit ==
    Init => AttemptsIInv
<1> SUFFICES ASSUME Init PROVE AttemptsIInv
    OBVIOUS
<1>0. DOMAIN ledger = {}
    BY DEF Init
<1>1. CallTypes
    BY BoundAssumption DEF Init, CallTypes, Idle, Stages, Minutes
<1>2. RowTypes(ledger)
    BY <1>0, FS_EmptySet DEF RowTypes
<1>3. CounterTypes(scope, bucket)
    BY DEF Init, CounterTypes, ScopeCounts, BucketCounts, Zero, ZeroBucket
<1>4. CallsOwnTheirRows
    BY DEF Init, CallsOwnTheirRows, Idle
<1>5. Numbered /\ OrdinalsSpent
    BY <1>0 DEF Numbered, OrdinalsSpent, Standing
<1> QED  BY <1>1, <1>2, <1>3, <1>4, <1>5 DEF AttemptsIInv, LedgerBase

LEMMA AttemptsStep ==
    AttemptsIInv /\ [Next]_vars => AttemptsIInv'
BY LedgerBaseInvariant, OwnedInvariant, NumbersInvariant DEF AttemptsIInv

\* The inductive invariant of the attempts: types, numbered keys, ordinals
\* spent once since the last Run failure, and calls that own their rows.
THEOREM AttemptsInvariance == Spec => []AttemptsIInv
BY AttemptsInit, AttemptsStep, PTL DEF Spec

\* Distinct ordinals from 1 to the limit: no more requests than the policy allows.
LEMMA BudgetFromOrdinals ==
    AttemptsIInv => RetryBudgetKept
<1> SUFFICES ASSUME AttemptsIInv, NEW q \in Questions
             PROVE  /\ \A k, l \in SentSince(q) : k.att = l.att => k = l
                    /\ \A k \in SentSince(q) : k.att < cursor[q].next
                    /\ Cardinality(SentSince(q)) <= MaxProviderAttempts
    BY DEF RetryBudgetKept
<1>1. SentSince(q) \subseteq Standing(q)
    BY DEF SentSince, Standing, Sent, Settled
<1>2. /\ \A k, l \in SentSince(q) : k.att = l.att => k = l
      /\ \A k \in SentSince(q) : k.att < cursor[q].next
    BY <1>1 DEF AttemptsIInv, OrdinalsSpent
<1>3. \A k \in SentSince(q) : k.att \in 1..MaxProviderAttempts
    BY DEF AttemptsIInv, Numbered, SentSince
<1> DEFINE f == [k \in SentSince(q) |-> k.att]
<1>4. f \in Injection(SentSince(q), 1..MaxProviderAttempts)
    BY <1>2, <1>3 DEF Injection, IsInjective
<1>5. IsFiniteSet(1..MaxProviderAttempts) /\ Cardinality(1..MaxProviderAttempts) = MaxProviderAttempts
    BY FS_Interval, BoundAssumption
<1>6. Cardinality(SentSince(q)) <= MaxProviderAttempts
  <2> HIDE DEF f
  <2> QED  BY <1>4, <1>5, FS_Injection
<1> QED  BY <1>2, <1>6

\* For every interleaving of adapter calls, yields, takeovers, pre-send
\* releases, lost acknowledgements and reconcilers, on every instance:
\* between two Run failures a question spends each retry ordinal on at most
\* one request and stays within max_attempts, and every call between its
\* reservation and its finish works on a ledger row of its own.
THEOREM Attempts == Spec => []AttemptsInv
<1>1. AttemptsIInv => AttemptsInv
    BY BudgetFromOrdinals DEF AttemptsIInv, AttemptsInv
<1> QED  BY <1>1, AttemptsInvariance, PTL

\* No step of reserve, mark_send_started, finish or reconciliation deletes a
\* row, changes a closed one or takes a sent one back, on every instance.
THEOREM RowsOneWay == Spec => LedgerOneWay
<1>1. AttemptsIInv /\ [Next]_vars => [\A k \in DOMAIN ledger : OneWay(k)]_vars
    BY StepsOneWay DEF AttemptsIInv
<1>2. [\A k \in DOMAIN ledger : OneWay(k)]_vars <=>
      [\A k \in DOMAIN ledger :
        /\ k \in DOMAIN ledger'
        /\ ledger[k].state \notin Active => ledger'[k] = ledger[k]
        /\ ledger[k].state = "send_started" =>
            ledger'[k].state \in Sent /\ ledger'[k].window = ledger[k].window
        /\ ledger'[k].token = ledger[k].token]_vars
    BY DEF OneWay
<1> QED  BY <1>1, <1>2, AttemptsInvariance, PTL DEF Spec, LedgerOneWay

-----------------------------------------------------------------------------
(* Accounts.  CountersMatchLedger with the rows and the counters as        *)
(* parameters, and the part that scopes and minutes share as Books: what a *)
(* set D of rows adds up to.                                               *)

With(D, rows, states) == {k \in D : rows[k].state \in states}

Books(b, D, rows) ==
    /\ b.reserved = Cardinality(With(D, rows, {"reserved"}))
    /\ b.consumed = Cardinality(With(D, rows, Sent))
    /\ b.held = Reservation * Cardinality(With(D, rows, Active))
    /\ b.used = Sum(With(D, rows, Settled), rows)

Overdrawn(D, rows) == \E k \in With(D, rows, Settled) : rows[k].actual > Reservation

ChargedTo(s, rows) == Charged(s, DOMAIN rows)
ChargedIn(s, m, rows) == {k \in ChargedTo(s, rows) : rows[k].window = m}

ScopeMatches(s, rows, c) ==
    /\ Books(c, ChargedTo(s, rows), rows)
    /\ c.active = Cardinality(With(ChargedTo(s, rows), rows, Active))
    /\ c.overdrawn <=> Overdrawn(ChargedTo(s, rows), rows)

Matches(rows, sc, bk) ==
    \A s \in Scopes :
        /\ ScopeMatches(s, rows, sc[s])
        /\ \A m \in Minutes : Books(bk[s][m], ChargedIn(s, m, rows), rows)

LEMMA WithFinite ==
    ASSUME NEW D, IsFiniteSet(D), NEW rows, NEW states
    PROVE  IsFiniteSet(With(D, rows, states)) /\ Cardinality(With(D, rows, states)) \in Nat
<1>1. With(D, rows, states) \subseteq D
    BY DEF With
<1> QED  BY <1>1, FS_Subset, FS_CardinalityType

LEMMA ChargedFinite ==
    ASSUME NEW rows, RowTypes(rows), NEW s, NEW m
    PROVE  /\ ChargedTo(s, rows) \subseteq DOMAIN rows /\ IsFiniteSet(ChargedTo(s, rows))
           /\ ChargedIn(s, m, rows) \subseteq DOMAIN rows /\ IsFiniteSet(ChargedIn(s, m, rows))
<1>1. ChargedTo(s, rows) \subseteq DOMAIN rows /\ ChargedIn(s, m, rows) \subseteq DOMAIN rows
    BY DEF ChargedTo, ChargedIn, Charged
<1> QED  BY <1>1, FS_Subset DEF RowTypes

LEMMA CountLess ==
    ASSUME NEW S, IsFiniteSet(S), NEW T, T \subseteq S
    PROVE  /\ Cardinality(S \ T) = Cardinality(S) - Cardinality(T)
           /\ Cardinality(S) \in Nat /\ Cardinality(T) \in Nat
<1>1. S \cap T = T
    OBVIOUS
<1>2. Cardinality(S \ T) = Cardinality(S) - Cardinality(S \cap T)
    BY FS_Difference
<1>3. IsFiniteSet(T)
    BY FS_Subset
<1> QED  BY <1>1, <1>2, <1>3, FS_CardinalityType

LEMMA CountBoth ==
    ASSUME NEW S, IsFiniteSet(S), NEW T, IsFiniteSet(T), S \cap T = {}
    PROVE  /\ Cardinality(S \cup T) = Cardinality(S) + Cardinality(T)
           /\ Cardinality(S) \in Nat /\ Cardinality(T) \in Nat
<1>1. Cardinality(S \cup T) = Cardinality(S) + Cardinality(T) - Cardinality({})
    BY FS_Union
<1> QED  BY <1>1, FS_EmptySet, FS_CardinalityType

LEMMA Distributes ==
    ASSUME NEW a \in Int, NEW x \in Int, NEW y \in Int
    PROVE  a * (x - y) = a * x - a * y /\ a * (x + y) = a * x + a * y
OBVIOUS

\* Closing rows of D: r of its reserved rows are released, c of its sent rows
\* are settled with `used'.
ClosedRows(D, rows, rows2, R, C, used, how) ==
    /\ \A k \in D \cap R : rows[k].state = "reserved"
    /\ \A k \in D \cap C : rows[k].state = "send_started"
    /\ \A k \in D : rows2[k] =
            IF k \in R THEN [rows[k] EXCEPT !.state = "released_pre_send"]
            ELSE IF k \in C THEN [rows[k] EXCEPT !.state = how, !.actual = used]
            ELSE rows[k]

ClosedCounts(b, b2, r, c, used) ==
    /\ b2.reserved = b.reserved - r /\ b2.consumed = b.consumed
    /\ b2.held = b.held - Reservation * (r + c) /\ b2.used = b.used + used * c

LEMMA ClosedBooks ==
    ASSUME NEW D, IsFiniteSet(D), NEW rows, \A k \in D : rows[k] \in KeyRow,
           NEW R, NEW C, NEW used \in Nat, NEW how \in Settled, NEW rows2,
           ClosedRows(D, rows, rows2, R, C, used, how),
           NEW r, r = Cardinality(D \cap R), NEW c, c = Cardinality(D \cap C),
           NEW b, Books(b, D, rows), NEW b2, ClosedCounts(b, b2, r, c, used)
    PROVE  /\ Books(b2, D, rows2)
           /\ r \in Nat /\ c \in Nat
           /\ Cardinality(With(D, rows2, Active)) = Cardinality(With(D, rows, Active)) - (r + c)
           /\ Overdrawn(D, rows2) <=> Overdrawn(D, rows) \/ (c > 0 /\ used > Reservation)
<1> DEFINE Res == With(D, rows, {"reserved"})
           Act == With(D, rows, Active)
           Set == With(D, rows, Settled)
           DR == D \cap R
           DC == D \cap C
<1>1. /\ With(D, rows2, {"reserved"}) = Res \ DR
      /\ With(D, rows2, Sent) = With(D, rows, Sent)
      /\ With(D, rows2, Active) = Act \ (DR \cup DC)
      /\ With(D, rows2, Settled) = Set \cup DC
      /\ \A k \in Set : rows2[k] = rows[k] /\ k \notin C
      /\ \A k \in DC : rows2[k].actual = used
      /\ DR \subseteq Res /\ DR \cup DC \subseteq Act /\ DR \cap DC = {}
  <2>1. ASSUME NEW k \in D
        PROVE  /\ k \in R => rows[k].state = "reserved" /\ rows2[k].state = "released_pre_send"
               /\ k \in C => /\ rows[k].state = "send_started" /\ k \notin R
                             /\ rows2[k].state = how /\ rows2[k].actual = used
               /\ k \notin R /\ k \notin C => rows2[k] = rows[k]
    BY DEF KeyRow, ClosedRows
  <2>2. how \in {"settled_actual", "settled_conservative"}
    BY DEF Settled
  <2>3. /\ With(D, rows2, {"reserved"}) = Res \ DR
        /\ DR \subseteq Res /\ DR \cap DC = {}
    BY <2>1, <2>2 DEF With
  <2>4. /\ With(D, rows2, Sent) = With(D, rows, Sent)
        /\ With(D, rows2, Settled) = Set \cup DC
        /\ \A k \in Set : rows2[k] = rows[k] /\ k \notin C
        /\ \A k \in DC : rows2[k].actual = used
    BY <2>1, <2>2 DEF With, Sent, Settled
  <2>5. /\ With(D, rows2, Active) = Act \ (DR \cup DC)
        /\ DR \cup DC \subseteq Act
    BY <2>1, <2>2 DEF With, Active
  <2> QED  BY <2>3, <2>4, <2>5
<1>2. /\ IsFiniteSet(Res) /\ IsFiniteSet(Act) /\ IsFiniteSet(Set)
      /\ IsFiniteSet(DR) /\ IsFiniteSet(DC)
    BY WithFinite, FS_Subset
<1>3. \A k \in Set : rows[k].actual \in Nat
    BY DEF With, KeyRow
<1> HIDE DEF Res, Act, Set, DR, DC
<1>4. Cardinality(Res \ DR) = Cardinality(Res) - r
    BY <1>1, <1>2, CountLess DEF DR
<1>5. /\ Cardinality(DR \cup DC) = r + c /\ r \in Nat /\ c \in Nat
    BY <1>1, <1>2, CountBoth DEF DR, DC
<1>6. Cardinality(Act \ (DR \cup DC)) = Cardinality(Act) - (r + c) /\ Cardinality(Act) \in Nat
  <2> DEFINE U == DR \cup DC
  <2>1. U \subseteq Act /\ Cardinality(U) = r + c
    BY <1>1, <1>5
  <2> HIDE DEF U
  <2>2. Cardinality(Act \ U) = Cardinality(Act) - Cardinality(U) /\ Cardinality(Act) \in Nat
    BY <1>2, <2>1, CountLess
  <2> QED  BY <2>1, <2>2 DEF U
<1>7. Sum(Set \cup DC, rows2) = Sum(Set, rows) + used * c
  <2>1. Set \cap DC = {}
    BY <1>1 DEF DC
  <2>2. \A k \in Set : rows2[k].actual \in Nat /\ rows2[k].actual = rows[k].actual
    BY <1>1, <1>3
  <2>3. Sum(Set \cup DC, rows2) = Sum(Set, rows2) + used * Cardinality(DC)
    <3>1. \A k \in Set : rows2[k].actual \in Nat
        BY <2>2
    <3>2. \A k \in DC : rows2[k].actual = used
        BY <1>1
    <3> QED  BY <1>2, <2>1, <3>1, <3>2, SumUniform
  <2>4. Sum(Set, rows2) = Sum(Set, rows)
    BY <1>2, <2>2, SumSame
  <2> QED  BY <2>3, <2>4 DEF DC
<1>8. Reservation * (Cardinality(Act) - (r + c)) = Reservation * Cardinality(Act) - Reservation * (r + c)
  <2>1. Reservation \in Int /\ Cardinality(Act) \in Int /\ r + c \in Int
    <3>1. Reservation \in Nat /\ Cardinality(Act) \in Nat /\ r \in Nat /\ c \in Nat
        BY <1>5, <1>6, AmountAssumption
    <3> QED  BY <3>1
  <2>2. PICK x \in Int, y \in Int : x = Cardinality(Act) /\ y = r + c
    BY <2>1
  <2>3. Reservation * (x - y) = Reservation * x - Reservation * y
    BY <2>1, Distributes
  <2> QED  BY <2>2, <2>3
<1>9. Books(b2, D, rows2)
    BY <1>1, <1>4, <1>6, <1>7, <1>8 DEF Books, ClosedCounts, Res, Act, Set
<1>10. c > 0 <=> DC # {}
  <2>1. Cardinality(DC) = 0 <=> DC = {}
    BY <1>2, FS_EmptySet
  <2>2. c = Cardinality(DC) /\ c \in Nat
    BY <1>5 DEF DC
  <2> HIDE DEF DC
  <2> QED  BY <2>1, <2>2
<1>11. Overdrawn(D, rows2) <=> Overdrawn(D, rows) \/ (c > 0 /\ used > Reservation)
    BY <1>1, <1>10 DEF Overdrawn, Set
<1> QED  BY <1>1, <1>5, <1>6, <1>9, <1>11 DEF Act

LEMMA OneMore ==
    ASSUME NEW a \in Int, NEW n \in Int
    PROVE  a * (n + 1) = a * n + a /\ a * (n - 1) = a * n - a
OBVIOUS

\* Rows that do not change add up to the same.
LEMMA SameBooks ==
    ASSUME NEW D, IsFiniteSet(D), NEW rows, NEW rows2, \A k \in D : rows2[k] = rows[k]
    PROVE  /\ \A b : Books(b, D, rows) => Books(b, D, rows2)
           /\ \A states : With(D, rows2, states) = With(D, rows, states)
           /\ Overdrawn(D, rows2) <=> Overdrawn(D, rows)
<1>1. \A states : With(D, rows2, states) = With(D, rows, states)
    BY DEF With
<1>2. Sum(With(D, rows, Settled), rows2) = Sum(With(D, rows, Settled), rows)
  <2>1. IsFiniteSet(With(D, rows, Settled))
    BY WithFinite
  <2>2. \A k \in With(D, rows, Settled) : rows2[k].actual = rows[k].actual
    BY DEF With
  <2> QED  BY <2>1, <2>2, SumSame
<1>3. Overdrawn(D, rows2) <=> Overdrawn(D, rows)
    BY <1>1 DEF Overdrawn, With
<1> QED  BY <1>1, <1>2, <1>3 DEF Books

\* An active row joins D, and a reserved one leaves it.
LEMMA EnteredBooks ==
    ASSUME NEW D, IsFiniteSet(D), NEW rows, NEW k, k \notin D, rows[k].state \in Active,
           NEW b, Books(b, D, rows), NEW b2,
           b2.used = b.used, b2.held = b.held + Reservation,
           rows[k].state = "reserved" =>
                b2.reserved = b.reserved + 1 /\ b2.consumed = b.consumed,
           rows[k].state = "send_started" =>
                b2.reserved = b.reserved /\ b2.consumed = b.consumed + 1
    PROVE  /\ Books(b2, D \cup {k}, rows)
           /\ Cardinality(With(D \cup {k}, rows, Active)) = Cardinality(With(D, rows, Active)) + 1
           /\ Overdrawn(D \cup {k}, rows) <=> Overdrawn(D, rows)
<1> DEFINE E == D \cup {k}
           Act == With(D, rows, Active)
<1>1. /\ With(E, rows, Settled) = With(D, rows, Settled)
      /\ With(E, rows, Active) = Act \cup {k} /\ k \notin Act
    BY DEF With, Active, Settled
<1>2. IsFiniteSet(Act) /\ Cardinality(Act) \in Nat
    BY WithFinite
<1>3. Cardinality(Act \cup {k}) = Cardinality(Act) + 1
    BY <1>1, <1>2, FS_AddElement
<1>4. Reservation * (Cardinality(Act) + 1) = Reservation * Cardinality(Act) + Reservation
  <2>1. PICK n \in Int : n = Cardinality(Act)
    BY <1>2
  <2>2. Reservation \in Int
    BY AmountAssumption
  <2> HIDE DEF Act
  <2> QED  BY <2>1, <2>2, OneMore
<1>5. /\ Cardinality(With(E, rows, Active)) = Cardinality(Act) + 1
      /\ Reservation * Cardinality(With(E, rows, Active))
            = Reservation * Cardinality(Act) + Reservation
  <2> HIDE DEF E, Act
  <2> QED  BY <1>1, <1>3, <1>4
<1>6. Overdrawn(E, rows) <=> Overdrawn(D, rows)
    BY <1>1 DEF Overdrawn
<1>7. CASE rows[k].state = "reserved"
  <2>1. /\ With(E, rows, {"reserved"}) = With(D, rows, {"reserved"}) \cup {k}
        /\ k \notin With(D, rows, {"reserved"})
        /\ With(E, rows, Sent) = With(D, rows, Sent)
    BY <1>7 DEF With, Sent, Settled
  <2>2. Cardinality(With(D, rows, {"reserved"}) \cup {k}) = Cardinality(With(D, rows, {"reserved"})) + 1
    BY <2>1, WithFinite, FS_AddElement
  <2>3. Books(b2, E, rows)
    <3> HIDE DEF E
    <3> QED  BY <1>1, <1>5, <1>7, <2>1, <2>2 DEF Books
  <2> QED  BY <1>5, <1>6, <2>3
<1>8. CASE rows[k].state = "send_started"
  <2>1. /\ With(E, rows, Sent) = With(D, rows, Sent) \cup {k}
        /\ k \notin With(D, rows, Sent)
        /\ With(E, rows, {"reserved"}) = With(D, rows, {"reserved"})
    BY <1>8 DEF With, Sent, Settled
  <2>2. Cardinality(With(D, rows, Sent) \cup {k}) = Cardinality(With(D, rows, Sent)) + 1
    BY <2>1, WithFinite, FS_AddElement
  <2>3. Books(b2, E, rows)
    <3> HIDE DEF E
    <3> QED  BY <1>1, <1>5, <1>8, <2>1, <2>2 DEF Books
  <2> QED  BY <1>5, <1>6, <2>3
<1> QED  BY <1>7, <1>8 DEF Active

LEMMA LeftBooks ==
    ASSUME NEW D, IsFiniteSet(D), NEW rows, NEW k \in D, rows[k].state = "reserved",
           NEW b, Books(b, D, rows), NEW b2,
           b2.used = b.used, b2.held = b.held - Reservation,
           b2.reserved = b.reserved - 1, b2.consumed = b.consumed
    PROVE  /\ Books(b2, D \ {k}, rows)
           /\ Cardinality(With(D \ {k}, rows, Active)) = Cardinality(With(D, rows, Active)) - 1
           /\ Overdrawn(D \ {k}, rows) <=> Overdrawn(D, rows)
<1> DEFINE E == D \ {k}
           Act == With(D, rows, Active)
           Res == With(D, rows, {"reserved"})
<1>1. /\ With(E, rows, Settled) = With(D, rows, Settled)
      /\ With(E, rows, Sent) = With(D, rows, Sent)
      /\ With(E, rows, Active) = Act \ {k} /\ k \in Act
      /\ With(E, rows, {"reserved"}) = Res \ {k} /\ k \in Res
    BY DEF With, Active, Settled, Sent
<1>2. IsFiniteSet(Act) /\ Cardinality(Act) \in Nat /\ IsFiniteSet(Res)
    BY WithFinite
<1>3. Cardinality(Act \ {k}) = Cardinality(Act) - 1 /\ Cardinality(Res \ {k}) = Cardinality(Res) - 1
    BY <1>1, <1>2, FS_RemoveElement
<1>4. Reservation * (Cardinality(Act) - 1) = Reservation * Cardinality(Act) - Reservation
  <2>1. PICK n \in Int : n = Cardinality(Act)
    BY <1>2
  <2>2. Reservation \in Int
    BY AmountAssumption
  <2> HIDE DEF Act
  <2> QED  BY <2>1, <2>2, OneMore
<1>5. Overdrawn(E, rows) <=> Overdrawn(D, rows)
    BY <1>1 DEF Overdrawn
<1> HIDE DEF E
<1>6. Books(b2, E, rows)
    BY <1>1, <1>3, <1>4 DEF Books
<1> QED  BY <1>1, <1>3, <1>5, <1>6 DEF E

\* Closing rows keeps the counters those of the ledger.
LEMMA CloseMatches ==
    ASSUME RowTypes(ledger), CounterTypes(scope, bucket), Matches(ledger, scope, bucket),
           NEW R, NEW C, NEW used, NEW how, Closable(R, C, used, how)
    PROVE  Matches(CloseRows(R, C, used, how), CloseScopes(R, C, used), CloseBuckets(R, C, used))
<1> DEFINE rows == CloseRows(R, C, used, how)
<1>1. /\ DOMAIN rows = DOMAIN ledger
      /\ \A k \in DOMAIN ledger : ledger[k] \in KeyRow
      /\ \A k \in DOMAIN ledger : rows[k] =
            IF k \in R THEN [ledger[k] EXCEPT !.state = "released_pre_send"]
            ELSE IF k \in C THEN [ledger[k] EXCEPT !.state = how, !.actual = used]
            ELSE ledger[k]
    BY DEF CloseRows, RowTypes
<1>2. /\ used \in Nat /\ how \in Settled
      /\ R \subseteq DOMAIN ledger /\ C \subseteq DOMAIN ledger
      /\ \A k \in R : ledger[k].state = "reserved"
      /\ \A k \in C : ledger[k].state = "send_started"
    BY DEF Closable
<1> HIDE DEF rows
<1>3. \A D \in SUBSET DOMAIN ledger : ClosedRows(D, ledger, rows, R, C, used, how)
    BY <1>1, <1>2 DEF ClosedRows
<1>4. ASSUME NEW s \in Scopes
      PROVE  ScopeMatches(s, rows, CloseScopes(R, C, used)[s])
  <2> DEFINE D == ChargedTo(s, ledger)
             r == Cardinality(D \cap R)
             c == Cardinality(D \cap C)
             b2 == CloseScopes(R, C, used)[s]
  <2>1. D \subseteq DOMAIN ledger /\ IsFiniteSet(D) /\ ChargedTo(s, rows) = D
    BY <1>1, ChargedFinite DEF ChargedTo
  <2>2. D \cap R = Charged(s, R) /\ D \cap C = Charged(s, C)
    BY <1>2 DEF ChargedTo, Charged
  <2>3. scope[s] \in ScopeCounts /\ ScopeMatches(s, ledger, scope[s])
    BY DEF CounterTypes, Matches
  <2>4. b2 = [scope[s] EXCEPT !.active   = @ - (r + c),
                              !.reserved = @ - r,
                              !.held     = @ - Reservation * (r + c),
                              !.used     = @ + used * c,
                              !.overdrawn = @ \/ (c > 0 /\ used > Reservation)]
    BY <2>2 DEF CloseScopes
  <2> HIDE DEF b2, r, c
  <2>5. /\ ClosedCounts(scope[s], b2, r, c, used) /\ b2.active = scope[s].active - (r + c)
    BY <2>3, <2>4 DEF ScopeCounts, ClosedCounts
  <2>6. b2.overdrawn = (scope[s].overdrawn \/ (c > 0 /\ used > Reservation))
    BY <2>3, <2>4 DEF ScopeCounts
  <2>7. Books(scope[s], D, ledger)
    BY <2>3 DEF ScopeMatches
  <2>8. \A k \in D : ledger[k] \in KeyRow
    BY <1>1, <2>1
  <2>9. ClosedRows(D, ledger, rows, R, C, used, how)
    BY <1>3, <2>1
  <2>10. r = Cardinality(D \cap R) /\ c = Cardinality(D \cap C)
    BY DEF r, c
  <2> HIDE DEF D
  <2>11. /\ Books(b2, D, rows)
         /\ Cardinality(With(D, rows, Active)) = Cardinality(With(D, ledger, Active)) - (r + c)
         /\ Overdrawn(D, rows) <=> Overdrawn(D, ledger) \/ (c > 0 /\ used > Reservation)
    BY <1>2, <2>1, <2>5, <2>7, <2>8, <2>9, <2>10, ClosedBooks
  <2>12. /\ scope[s].active = Cardinality(With(D, ledger, Active))
         /\ scope[s].overdrawn <=> Overdrawn(D, ledger)
    BY <2>3 DEF ScopeMatches, D
  <2>13. b2.overdrawn <=> Overdrawn(D, rows)
    BY <2>6, <2>11, <2>12
  <2> QED  BY <2>1, <2>5, <2>11, <2>12, <2>13 DEF ScopeMatches, b2
<1>5. ASSUME NEW s \in Scopes, NEW m \in Minutes
      PROVE  Books(CloseBuckets(R, C, used)[s][m], ChargedIn(s, m, rows), rows)
  <2> DEFINE D == ChargedIn(s, m, ledger)
             r == Cardinality(D \cap R)
             c == Cardinality(D \cap C)
             b2 == CloseBuckets(R, C, used)[s][m]
             In(S) == Charged(s, {k \in S : ledger[k].window = m})
  <2>0. \A k \in DOMAIN ledger : rows[k].window = ledger[k].window
    BY <1>1 DEF KeyRow
  <2>1. D \subseteq DOMAIN ledger /\ IsFiniteSet(D) /\ ChargedIn(s, m, rows) = D
    <3>1. ChargedIn(s, m, rows) = D
        BY <1>1, <2>0 DEF ChargedTo, ChargedIn, Charged
    <3> QED  BY <3>1, ChargedFinite
  <2>2. D \cap R = In(R) /\ D \cap C = In(C)
    BY <1>2 DEF ChargedTo, ChargedIn, Charged
  <2>3. bucket[s][m] \in BucketCounts /\ Books(bucket[s][m], D, ledger)
    BY DEF CounterTypes, Matches
  <2>4. b2 = [bucket[s][m] EXCEPT !.reserved = @ - r,
                                  !.held     = @ - Reservation * (r + c),
                                  !.used     = @ + used * c]
    BY <2>2 DEF CloseBuckets
  <2> HIDE DEF b2, r, c
  <2>5. ClosedCounts(bucket[s][m], b2, r, c, used)
    BY <2>3, <2>4 DEF BucketCounts, ClosedCounts
  <2>6. \A k \in D : ledger[k] \in KeyRow
    BY <1>1, <2>1
  <2>7. ClosedRows(D, ledger, rows, R, C, used, how)
    BY <1>3, <2>1
  <2>8. r = Cardinality(D \cap R) /\ c = Cardinality(D \cap C)
    BY DEF r, c
  <2> HIDE DEF D
  <2>9. Books(b2, D, rows)
    BY <1>2, <2>1, <2>3, <2>5, <2>6, <2>7, <2>8, ClosedBooks
  <2> QED  BY <2>1, <2>9 DEF b2
<1> QED  BY <1>4, <1>5 DEF Matches, rows

\* So does a reservation under a fresh key.
LEMMA OpenMatches ==
    ASSUME NEW rows, NEW sc, NEW bk, RowTypes(rows), CounterTypes(sc, bk), Matches(rows, sc, bk),
           NEW k \in Key, k \notin DOMAIN rows, NEW t \in Tokens, NEW m \in Minutes
    PROVE  Matches(OpenRows(rows, k, t, m), OpenScopes(sc, RunOf[k.q]),
                   OpenBuckets(bk, RunOf[k.q], m))
<1> DEFINE new == OpenRows(rows, k, t, m)
           r == RunOf[k.q]
<1>1. /\ DOMAIN new = DOMAIN rows \cup {k} /\ new[k].state = "reserved" /\ new[k].window = m
      /\ \A x \in DOMAIN rows : new[x] = rows[x]
      /\ new[k].state \in Active
    BY DEF OpenRows, Active
<1> HIDE DEF new
<1>2. ASSUME NEW s \in Scopes
      PROVE  ScopeMatches(s, new, OpenScopes(sc, r)[s])
  <2> DEFINE D == ChargedTo(s, rows)
             b2 == OpenScopes(sc, r)[s]
  <2>1. D \subseteq DOMAIN rows /\ IsFiniteSet(D) /\ k \notin D
    BY ChargedFinite
  <2>2. sc[s] \in ScopeCounts /\ ScopeMatches(s, rows, sc[s])
    BY DEF CounterTypes, Matches
  <2>3. /\ Books(sc[s], D, rows) /\ sc[s].active = Cardinality(With(D, rows, Active))
        /\ sc[s].overdrawn <=> Overdrawn(D, rows)
    BY <2>2 DEF ScopeMatches
  <2>4. /\ Books(sc[s], D, new) /\ sc[s].active = Cardinality(With(D, new, Active))
        /\ sc[s].overdrawn <=> Overdrawn(D, new)
    <3>1. \A x \in D : new[x] = rows[x]
        BY <1>1, <2>1
    <3> HIDE DEF D
    <3> QED  BY <2>1, <2>3, <3>1, SameBooks
  <2>5. CASE s \notin ScopesOf[r]
    <3>1. ChargedTo(s, new) = D
        BY <1>1, <2>5 DEF ChargedTo, Charged
    <3>2. b2 = sc[s]
        BY <2>5 DEF OpenScopes
    <3> QED  BY <2>4, <3>1, <3>2 DEF ScopeMatches
  <2>6. CASE s \in ScopesOf[r]
    <3>1. ChargedTo(s, new) = D \cup {k}
        BY <1>1, <2>6 DEF ChargedTo, Charged
    <3>2. /\ b2.active = sc[s].active + 1 /\ b2.reserved = sc[s].reserved + 1
          /\ b2.held = sc[s].held + Reservation /\ b2.used = sc[s].used
          /\ b2.consumed = sc[s].consumed /\ b2.overdrawn = sc[s].overdrawn
        BY <2>2, <2>6 DEF OpenScopes, ScopeCounts
    <3> HIDE DEF D, b2
    <3>3. /\ Books(b2, D \cup {k}, new)
          /\ Cardinality(With(D \cup {k}, new, Active)) = Cardinality(With(D, new, Active)) + 1
          /\ Overdrawn(D \cup {k}, new) <=> Overdrawn(D, new)
        BY <1>1, <2>1, <2>4, <3>2, EnteredBooks
    <3>4. b2.overdrawn <=> Overdrawn(D \cup {k}, new)
        BY <2>4, <3>2, <3>3
    <3> QED  BY <2>4, <3>1, <3>2, <3>3, <3>4 DEF ScopeMatches, b2
  <2> QED  BY <2>5, <2>6
<1>3. ASSUME NEW s \in Scopes, NEW n \in Minutes
      PROVE  Books(OpenBuckets(bk, r, m)[s][n], ChargedIn(s, n, new), new)
  <2> DEFINE D == ChargedIn(s, n, rows)
             b2 == OpenBuckets(bk, r, m)[s][n]
  <2>1. D \subseteq DOMAIN rows /\ IsFiniteSet(D) /\ k \notin D
    BY ChargedFinite
  <2>2. bk[s] \in [Minutes -> BucketCounts] /\ bk[s][n] \in BucketCounts /\ Books(bk[s][n], D, rows)
    BY DEF CounterTypes, Matches
  <2>3. Books(bk[s][n], D, new)
    <3>1. \A x \in D : new[x] = rows[x]
        BY <1>1, <2>1
    <3> HIDE DEF D
    <3> QED  BY <2>1, <2>2, <3>1, SameBooks
  <2>4. CASE s \notin ScopesOf[r] \/ n # m
    <3>1. ChargedIn(s, n, new) = D
        BY <1>1, <2>4 DEF ChargedTo, ChargedIn, Charged
    <3>2. b2 = bk[s][n]
        BY <2>2, <2>4 DEF OpenBuckets
    <3> QED  BY <2>3, <3>1, <3>2
  <2>5. CASE s \in ScopesOf[r] /\ n = m
    <3>1. ChargedIn(s, n, new) = D \cup {k}
        BY <1>1, <2>5 DEF ChargedTo, ChargedIn, Charged
    <3>2. /\ b2.reserved = bk[s][n].reserved + 1 /\ b2.held = bk[s][n].held + Reservation
          /\ b2.used = bk[s][n].used /\ b2.consumed = bk[s][n].consumed
        BY <2>2, <2>5 DEF OpenBuckets, BucketCounts
    <3> HIDE DEF D, b2
    <3>3. Books(b2, D \cup {k}, new)
        BY <1>1, <2>1, <2>3, <3>2, EnteredBooks
    <3> QED  BY <3>1, <3>3 DEF b2
  <2> QED  BY <2>4, <2>5
<1> QED  BY <1>2, <1>3 DEF Matches, new

\* And so does send-start, within one minute or into the next.
LEMMA MarkMatches ==
    ASSUME NEW rows, NEW sc, NEW bk, RowTypes(rows), CounterTypes(sc, bk), Matches(rows, sc, bk),
           NEW k \in DOMAIN rows, rows[k].state = "reserved", NEW m \in Minutes,
           NEW moved \in Nat, moved = IF rows[k].window # m THEN Reservation ELSE 0
    PROVE  Matches(MarkRows(rows, k, m), MarkScopes(sc, RunOf[k.q]),
                   MarkBuckets(bk, RunOf[k.q], rows[k].window, m, moved))
<1> DEFINE new == MarkRows(rows, k, m)
           r == RunOf[k.q]
           old == rows[k].window
<1>1. rows[k] \in KeyRow /\ old \in Minutes
    BY DEF RowTypes, KeyRow
<1>2. /\ DOMAIN new = DOMAIN rows /\ new[k].state = "send_started" /\ new[k].window = m
      /\ \A x \in DOMAIN rows : x # k => new[x] = rows[x]
      /\ new[k].state \in Active
    BY <1>1 DEF MarkRows, KeyRow, Active
<1> HIDE DEF new
<1>3. Reservation \in Nat
    BY AmountAssumption
\* A set of rows that k leaves as reserved and enters as sent.
<1>4. ASSUME NEW D, D \subseteq DOMAIN rows, IsFiniteSet(D), k \in D,
             NEW b, b.reserved \in Int, b.consumed \in Int, b.held \in Int, b.used \in Int,
             Books(b, D, rows), NEW b2,
             b2.reserved = b.reserved - 1, b2.consumed = b.consumed + 1,
             b2.held = b.held, b2.used = b.used
      PROVE  /\ Books(b2, D, new)
             /\ Cardinality(With(D, new, Active)) = Cardinality(With(D, rows, Active))
             /\ Overdrawn(D, new) <=> Overdrawn(D, rows)
  <2> DEFINE E == D \ {k}
             mid == [reserved |-> b.reserved - 1, consumed |-> b.consumed,
                     held |-> b.held - Reservation, used |-> b.used]
  <2>1. /\ mid.reserved = b.reserved - 1 /\ mid.consumed = b.consumed
        /\ mid.held = b.held - Reservation /\ mid.used = b.used
    OBVIOUS
  <2>2. IsFiniteSet(E) /\ k \notin E /\ D = E \cup {k} /\ \A x \in E : new[x] = rows[x]
    BY <1>2, <1>4, FS_RemoveElement
  <2> HIDE DEF mid
  <2>3. /\ Books(mid, E, rows)
        /\ Cardinality(With(E, rows, Active)) = Cardinality(With(D, rows, Active)) - 1
        /\ Overdrawn(E, rows) <=> Overdrawn(D, rows)
    BY <1>4, <2>1, LeftBooks
  <2> HIDE DEF E
  <2>4. /\ Books(mid, E, new) /\ With(E, new, Active) = With(E, rows, Active)
        /\ Overdrawn(E, new) <=> Overdrawn(E, rows)
    BY <2>2, <2>3, SameBooks
  <2>5. b2.held = mid.held + Reservation
    BY <1>3, <1>4, <2>1
  <2>6. /\ Books(b2, E \cup {k}, new)
        /\ Cardinality(With(E \cup {k}, new, Active)) = Cardinality(With(E, new, Active)) + 1
        /\ Overdrawn(E \cup {k}, new) <=> Overdrawn(E, new)
    <3>1. /\ b2.used = mid.used /\ b2.reserved = mid.reserved
          /\ b2.consumed = mid.consumed + 1
        BY <1>4, <2>1
    <3>2. /\ new[k].state = "reserved" =>
                b2.reserved = mid.reserved + 1 /\ b2.consumed = mid.consumed
          /\ new[k].state = "send_started" =>
                b2.reserved = mid.reserved /\ b2.consumed = mid.consumed + 1
        BY <1>2, <3>1
    <3>3. IsFiniteSet(E) /\ k \notin E /\ new[k].state \in Active /\ Books(mid, E, new)
        BY <1>2, <2>2, <2>4
    <3> QED  BY <2>5, <3>1, <3>2, <3>3, EnteredBooks
  <2>7. Cardinality(With(D, rows, Active)) \in Nat
    BY <1>4, WithFinite
  <2> QED  BY <2>2, <2>3, <2>4, <2>6, <2>7
<1>5. ASSUME NEW s \in Scopes
      PROVE  ScopeMatches(s, new, MarkScopes(sc, r)[s])
  <2> DEFINE D == ChargedTo(s, rows)
             b2 == MarkScopes(sc, r)[s]
  <2>1. D \subseteq DOMAIN rows /\ IsFiniteSet(D) /\ ChargedTo(s, new) = D
    BY <1>2, ChargedFinite DEF ChargedTo
  <2>2. sc[s] \in ScopeCounts /\ ScopeMatches(s, rows, sc[s])
    BY DEF CounterTypes, Matches
  <2>3. /\ Books(sc[s], D, rows) /\ sc[s].active = Cardinality(With(D, rows, Active))
        /\ sc[s].overdrawn <=> Overdrawn(D, rows)
    BY <2>2 DEF ScopeMatches
  <2>4. CASE s \notin ScopesOf[r]
    <3>1. b2 = sc[s] /\ k \notin D
        BY <2>4 DEF MarkScopes, ChargedTo, Charged
    <3>2. \A x \in D : new[x] = rows[x]
        BY <1>2, <2>1, <3>1
    <3> HIDE DEF D
    <3>3. /\ Books(sc[s], D, new) /\ sc[s].active = Cardinality(With(D, new, Active))
          /\ sc[s].overdrawn <=> Overdrawn(D, new)
        BY <2>1, <2>3, <3>2, SameBooks
    <3> QED  BY <2>1, <3>1, <3>3 DEF ScopeMatches
  <2>5. CASE s \in ScopesOf[r]
    <3>1. k \in D
        BY <2>5 DEF ChargedTo, Charged
    <3>2. /\ b2.reserved = sc[s].reserved - 1 /\ b2.consumed = sc[s].consumed + 1
          /\ b2.held = sc[s].held /\ b2.used = sc[s].used
          /\ b2.active = sc[s].active /\ b2.overdrawn = sc[s].overdrawn
        BY <2>2, <2>5 DEF MarkScopes, ScopeCounts
    <3>3. /\ sc[s].reserved \in Int /\ sc[s].consumed \in Int
          /\ sc[s].held \in Int /\ sc[s].used \in Int
        BY <2>2 DEF ScopeCounts
    <3> HIDE DEF D, b2
    <3>4. /\ Books(b2, D, new)
          /\ Cardinality(With(D, new, Active)) = Cardinality(With(D, rows, Active))
          /\ Overdrawn(D, new) <=> Overdrawn(D, rows)
        BY <1>4, <2>1, <2>3, <3>1, <3>2, <3>3
    <3>5. b2.overdrawn <=> Overdrawn(D, new)
        BY <2>3, <3>2, <3>4
    <3> QED  BY <2>1, <2>3, <3>2, <3>4, <3>5 DEF ScopeMatches, b2
  <2> QED  BY <2>4, <2>5
<1>6. ASSUME NEW s \in Scopes, NEW n \in Minutes
      PROVE  Books(MarkBuckets(bk, r, old, m, moved)[s][n], ChargedIn(s, n, new), new)
  <2> DEFINE D == ChargedIn(s, n, rows)
             b2 == MarkBuckets(bk, r, old, m, moved)[s][n]
  <2>1. D \subseteq DOMAIN rows /\ IsFiniteSet(D)
    BY ChargedFinite
  <2>2. bk[s] \in [Minutes -> BucketCounts] /\ bk[s][n] \in BucketCounts /\ Books(bk[s][n], D, rows)
    BY DEF CounterTypes, Matches
  <2>3. /\ bk[s][n].reserved \in Int /\ bk[s][n].consumed \in Int
        /\ bk[s][n].held \in Int /\ bk[s][n].used \in Int
    BY <2>2 DEF BucketCounts
  <2>4. CASE s \notin ScopesOf[r] \/ (n # old /\ n # m)
    <3>1. b2 = bk[s][n]
        BY <1>1, <2>2, <2>4 DEF MarkBuckets
    <3>2. k \notin D /\ ChargedIn(s, n, new) = D
        BY <1>2, <2>4 DEF ChargedIn, ChargedTo, Charged
    <3>3. \A x \in D : new[x] = rows[x]
        BY <1>2, <2>1, <3>2
    <3> HIDE DEF D
    <3>4. Books(bk[s][n], D, new)
        BY <2>1, <2>2, <3>3, SameBooks
    <3> QED  BY <3>1, <3>2, <3>4
  <2>5. CASE s \in ScopesOf[r] /\ n = old /\ n = m
    <3>1. /\ b2.reserved = bk[s][n].reserved - 1 /\ b2.consumed = bk[s][n].consumed + 1
          /\ b2.held = bk[s][n].held /\ b2.used = bk[s][n].used
        BY <1>1, <2>2, <2>3, <2>5 DEF MarkBuckets, BucketCounts
    <3>2. k \in D /\ ChargedIn(s, n, new) = D
        BY <1>2, <2>5 DEF ChargedIn, ChargedTo, Charged
    <3> HIDE DEF D, b2
    <3>3. Books(b2, D, new)
        BY <1>4, <2>1, <2>2, <2>3, <3>1, <3>2
    <3> QED  BY <3>2, <3>3 DEF b2
  <2>6. CASE s \in ScopesOf[r] /\ n = old /\ n # m
    <3>1. /\ b2.reserved = bk[s][n].reserved - 1 /\ b2.consumed = bk[s][n].consumed
          /\ b2.held = bk[s][n].held - Reservation /\ b2.used = bk[s][n].used
        BY <1>1, <2>2, <2>3, <2>6 DEF MarkBuckets, BucketCounts
    <3>2. k \in D /\ ChargedIn(s, n, new) = D \ {k}
        BY <1>2, <2>6 DEF ChargedIn, ChargedTo, Charged
    <3>3. \A x \in D \ {k} : new[x] = rows[x]
        BY <1>2, <2>1
    <3>4. IsFiniteSet(D \ {k})
        BY <2>1, FS_RemoveElement
    <3> HIDE DEF D, b2
    <3>5. Books(b2, D \ {k}, rows)
        BY <2>1, <2>2, <3>1, <3>2, LeftBooks
    <3> DEFINE E == D \ {k}
    <3>6. IsFiniteSet(E) /\ Books(b2, E, rows) /\ \A x \in E : new[x] = rows[x]
        BY <3>3, <3>4, <3>5
    <3> HIDE DEF E
    <3>7. Books(b2, E, new)
        BY <3>6, SameBooks
    <3> QED  BY <3>2, <3>7 DEF b2, E
  <2>7. CASE s \in ScopesOf[r] /\ n # old /\ n = m
    <3>1. /\ b2.reserved = bk[s][n].reserved /\ b2.consumed = bk[s][n].consumed + 1
          /\ b2.held = bk[s][n].held + Reservation /\ b2.used = bk[s][n].used
        BY <1>1, <2>2, <2>3, <2>7 DEF MarkBuckets, BucketCounts
    <3>2. k \notin D /\ ChargedIn(s, n, new) = D \cup {k}
        BY <1>2, <2>7 DEF ChargedIn, ChargedTo, Charged
    <3>3. \A x \in D : new[x] = rows[x]
        BY <1>2, <2>1, <3>2
    <3> HIDE DEF D, b2
    <3>4. Books(bk[s][n], D, new)
        BY <2>1, <2>2, <3>3, SameBooks
    <3>5. Books(b2, D \cup {k}, new)
        BY <1>2, <2>1, <3>1, <3>2, <3>4, EnteredBooks
    <3> QED  BY <3>2, <3>5 DEF b2
  <2> QED  BY <2>4, <2>5, <2>6, <2>7
<1> QED  BY <1>5, <1>6 DEF Matches, new

LEMMA AccountsInit ==
    Init => Matches(ledger, scope, bucket)
<1> SUFFICES ASSUME Init PROVE Matches(ledger, scope, bucket)
    OBVIOUS
<1>0. DOMAIN ledger = {}
    BY DEF Init
<1>1. ASSUME NEW D, D = {}
      PROVE  /\ \A states : With(D, ledger, states) = {}
             /\ ~Overdrawn(D, ledger)
             /\ Sum({}, ledger) = 0 /\ Cardinality({}) = 0 /\ Reservation * 0 = 0
    BY <1>1, FS_EmptySet, SumStep, AmountAssumption DEF With, Overdrawn
<1>2. ASSUME NEW b, b.reserved = 0, b.consumed = 0, b.held = 0, b.used = 0, NEW D, D = {}
      PROVE  Books(b, D, ledger)
    BY <1>1, <1>2 DEF Books
<1>3. ASSUME NEW s \in Scopes
      PROVE  ScopeMatches(s, ledger, scope[s])
  <2>1. ChargedTo(s, ledger) = {}
    BY <1>0 DEF ChargedTo, Charged
  <2>2. /\ scope[s].reserved = 0 /\ scope[s].consumed = 0 /\ scope[s].held = 0
        /\ scope[s].used = 0 /\ scope[s].active = 0 /\ ~scope[s].overdrawn
    BY DEF Init, Zero
  <2> QED  BY <1>1, <1>2, <2>1, <2>2 DEF ScopeMatches
<1>4. ASSUME NEW s \in Scopes, NEW m \in Minutes
      PROVE  Books(bucket[s][m], ChargedIn(s, m, ledger), ledger)
  <2>1. ChargedIn(s, m, ledger) = {}
    BY <1>0 DEF ChargedIn, ChargedTo, Charged
  <2>2. /\ bucket[s][m].reserved = 0 /\ bucket[s][m].consumed = 0
        /\ bucket[s][m].held = 0 /\ bucket[s][m].used = 0
    BY DEF Init, ZeroBucket
  <2> QED  BY <1>2, <2>1, <2>2
<1> QED  BY <1>3, <1>4 DEF Matches

LEMMA AccountsStep ==
    ASSUME AttemptsIInv, Matches(ledger, scope, bucket), [Next]_vars
    PROVE  Matches(ledger', scope', bucket')
<1>0. /\ CallTypes /\ RowTypes(ledger) /\ CounterTypes(scope, bucket)
      /\ CallsOwnTheirRows /\ Numbered /\ minute \in Minutes
    BY DEF AttemptsIInv, LedgerBase, CallTypes
<1>1. CASE UNCHANGED <<ledger, scope, bucket>>
    BY <1>1
<1>2. ASSUME NEW R, NEW C, NEW used, NEW how, Closable(R, C, used, how), Closing(R, C, used, how)
      PROVE  Matches(ledger', scope', bucket')
    BY <1>0, <1>2, CloseMatches DEF Closing
<1>3. ASSUME NEW q \in Questions, NEW t \in Tokens, NEW heard \in BOOLEAN, Reserve(q, t, heard)
      PROVE  Matches(ledger', scope', bucket')
  <2> DEFINE sc == CloseScopes(Dropped(q, t), Doubted(q, t), Reservation)
             bk == CloseBuckets(Dropped(q, t), Doubted(q, t), Reservation)
             k == KeyOf(q, t)
  <2>1. Closable(Dropped(q, t), Doubted(q, t), Reservation, "settled_conservative")
    BY <1>3, ReserveOpens
  <2>2. /\ RowTypes(Left(q, t)) /\ CounterTypes(sc, bk) /\ Matches(Left(q, t), sc, bk)
        /\ DOMAIN Left(q, t) = DOMAIN ledger
    BY <1>0, <2>1, CloseTypes, CloseMatches DEF Left
  <2>3. k \in Key /\ k \notin DOMAIN Left(q, t) /\ k.q = q
    BY <1>0, <1>3, <2>2, FreshKey
  <2>4. /\ ledger' = OpenRows(Left(q, t), k, t, minute)
        /\ scope' = OpenScopes(sc, RunOf[k.q])
        /\ bucket' = OpenBuckets(bk, RunOf[k.q], minute)
    BY <1>3, <2>3, ReserveOpens
  <2> HIDE DEF sc, bk, k
  <2> QED  BY <1>0, <2>2, <2>3, <2>4, OpenMatches
<1>4. ASSUME NEW q \in Questions, NEW t \in Tokens, MarkSendStarted(q, t)
      PROVE  Matches(ledger', scope', bucket')
  <2> DEFINE k == KeyOf(q, t)
  <2>1. /\ k \in DOMAIN ledger /\ k.q = q /\ ledger[k].state = "reserved"
        /\ ledger' = MarkRows(ledger, k, minute)
        /\ scope' = MarkScopes(scope, RunOf[k.q])
    BY <1>0, <1>4, MarkMoves
  <2>2. PICK moved \in Nat :
            /\ moved = IF ledger[k].window # minute THEN Reservation ELSE 0
            /\ bucket' = MarkBuckets(bucket, RunOf[k.q], ledger[k].window, minute, moved)
    BY <1>0, <1>4, <2>1, MarkMoves
  <2> HIDE DEF k
  <2> QED  BY <1>0, <2>1, <2>2, MarkMatches
<1> QED  BY <1>0, <1>1, <1>2, <1>3, <1>4, LedgerSteps

AccountsIInv == AttemptsIInv /\ Matches(ledger, scope, bucket)

\* The inductive invariant of the accounts: that of the attempts, and counters
\* that are what the rows of their scope and minute add up to.
THEOREM AccountsInvariance == Spec => []AccountsIInv
<1>1. Init => AccountsIInv
    BY AttemptsInit, AccountsInit DEF AccountsIInv
<1>2. AccountsIInv /\ [Next]_vars => AccountsIInv'
    BY AttemptsStep, AccountsStep DEF AccountsIInv
<1> QED  BY <1>1, <1>2, PTL DEF Spec

LEMMA BooksCount ==
    ASSUME NEW D, IsFiniteSet(D), NEW rows, \A k \in D : rows[k] \in KeyRow,
           NEW b, Books(b, D, rows)
    PROVE  b.reserved \in Nat /\ b.consumed \in Nat /\ b.held \in Nat /\ b.used \in Nat
<1>1. \A states : Cardinality(With(D, rows, states)) \in Nat
    BY WithFinite
<1>2. Reservation * Cardinality(With(D, rows, Active)) \in Nat
  <2>1. PICK n \in Nat : n = Cardinality(With(D, rows, Active))
    BY <1>1
  <2>2. Reservation * n \in Nat
    BY AmountAssumption
  <2> QED  BY <2>1, <2>2
<1>3. Sum(With(D, rows, Settled), rows) \in Nat
  <2>1. With(D, rows, Settled) \in SUBSET D /\ \A k \in D : rows[k].actual \in Nat
    BY DEF With, KeyRow
  <2> QED  BY <2>1, SumType
<1> QED  BY <1>1, <1>2, <1>3 DEF Books

LEMMA AccountsTell ==
    AccountsIInv => LedgerInv
<1> SUFFICES ASSUME AccountsIInv PROVE TypeOK /\ CountersMatchLedger
  BY DEF LedgerInv
<1>0. /\ CallTypes /\ RowTypes(ledger) /\ CounterTypes(scope, bucket)
      /\ Matches(ledger, scope, bucket)
  BY DEF AccountsIInv, AttemptsIInv, LedgerBase
<1>1. ASSUME NEW s \in Scopes
      PROVE  /\ \A states : RowsIn(s, states) = With(ChargedTo(s, ledger), ledger, states)
             /\ \A m \in Minutes : \A states :
                  {k \in RowsIn(s, states) : ledger[k].window = m}
                      = With(ChargedIn(s, m, ledger), ledger, states)
  BY DEF RowsIn, With, ChargedTo, ChargedIn, Charged
<1>2. ASSUME NEW s \in Scopes
      PROVE  scope[s] \in [active : Nat, reserved : Nat, consumed : Nat,
                           held : Nat, used : Nat, overdrawn : BOOLEAN]
  <2>1. scope[s] \in ScopeCounts /\ ScopeMatches(s, ledger, scope[s])
      BY <1>0 DEF CounterTypes, Matches
  <2>2. /\ IsFiniteSet(ChargedTo(s, ledger))
        /\ \A k \in ChargedTo(s, ledger) : ledger[k] \in KeyRow
      BY <1>0, ChargedFinite DEF RowTypes
  <2>3. /\ scope[s].reserved \in Nat /\ scope[s].consumed \in Nat
        /\ scope[s].held \in Nat /\ scope[s].used \in Nat
      BY <2>1, <2>2, BooksCount DEF ScopeMatches
  <2>4. scope[s].active \in Nat
      BY <2>1, <2>2, WithFinite DEF ScopeMatches
  <2> QED  BY <2>1, <2>3, <2>4 DEF ScopeCounts
<1>3. ASSUME NEW s \in Scopes, NEW m \in Minutes
      PROVE  bucket[s][m] \in [reserved : Nat, consumed : Nat, held : Nat, used : Nat]
  <2>1. bucket[s][m] \in BucketCounts /\ Books(bucket[s][m], ChargedIn(s, m, ledger), ledger)
      BY <1>0 DEF CounterTypes, Matches
  <2>2. /\ IsFiniteSet(ChargedIn(s, m, ledger))
        /\ \A k \in ChargedIn(s, m, ledger) : ledger[k] \in KeyRow
      BY <1>0, ChargedFinite DEF RowTypes
  <2>3. /\ bucket[s][m].reserved \in Nat /\ bucket[s][m].consumed \in Nat
        /\ bucket[s][m].held \in Nat /\ bucket[s][m].used \in Nat
      BY <2>1, <2>2, BooksCount
  <2> QED  BY <2>1, <2>3 DEF BucketCounts
<1>4. TypeOK
  BY <1>0, <1>2, <1>3 DEF TypeOK, CallTypes, RowTypes, CounterTypes
<1>5. ASSUME NEW s \in Scopes
      PROVE  /\ scope[s].active = Cardinality(RowsIn(s, Active))
             /\ scope[s].reserved = Cardinality(RowsIn(s, {"reserved"}))
             /\ scope[s].consumed = Cardinality(RowsIn(s, Sent))
             /\ scope[s].held = Reservation * Cardinality(RowsIn(s, Active))
             /\ scope[s].used = UsedBy(RowsIn(s, Settled))
             /\ scope[s].overdrawn <=> \E k \in RowsIn(s, Settled) :
                                          ledger[k].actual > Reservation
  <2>1. ScopeMatches(s, ledger, scope[s])
      BY <1>0 DEF Matches
  <2>2. UsedBy(RowsIn(s, Settled)) = Sum(RowsIn(s, Settled), ledger)
      BY UsedByIsSum
  <2> QED  BY <1>1, <2>1, <2>2 DEF ScopeMatches, Books, Overdrawn
<1>6. ASSUME NEW s \in Scopes, NEW m \in Minutes
      PROVE  LET In(states) == {k \in RowsIn(s, states) : ledger[k].window = m}
             IN  bucket[s][m] = [reserved |-> Cardinality(In({"reserved"})),
                                 consumed |-> Cardinality(In(Sent)),
                                 held |-> Reservation * Cardinality(In(Active)),
                                 used |-> UsedBy(In(Settled))]
  <2> DEFINE In(states) == {k \in RowsIn(s, states) : ledger[k].window = m}
  <2>1. bucket[s][m] \in BucketCounts /\ Books(bucket[s][m], ChargedIn(s, m, ledger), ledger)
      BY <1>0 DEF CounterTypes, Matches
  <2>2. \A states : In(states) = With(ChargedIn(s, m, ledger), ledger, states)
      BY <1>1
  <2>3. UsedBy(In(Settled)) = Sum(In(Settled), ledger)
      BY UsedByIsSum
  <2> HIDE DEF In
  <2>4. /\ bucket[s][m].reserved = Cardinality(In({"reserved"}))
        /\ bucket[s][m].consumed = Cardinality(In(Sent))
        /\ bucket[s][m].held = Reservation * Cardinality(In(Active))
        /\ bucket[s][m].used = UsedBy(In(Settled))
      BY <2>1, <2>2, <2>3 DEF Books
  <2>5. bucket[s][m] = [reserved |-> Cardinality(In({"reserved"})),
                        consumed |-> Cardinality(In(Sent)),
                        held |-> Reservation * Cardinality(In(Active)),
                        used |-> UsedBy(In(Settled))]
      BY <2>1, <2>4 DEF BucketCounts
  <2> QED  BY <2>5 DEF In
<1>7. CountersMatchLedger
  BY <1>5, <1>6 DEF CountersMatchLedger
<1> QED  BY <1>4, <1>7

\* On every instance, after any sequence of reservations, sends, settlements,
\* releases and reconciliations, the counters of every scope and of every
\* minute bucket are what the ledger rows add up to, and none is negative:
\* the materialisation checks of the repository never find drift.
THEOREM AccountsKept == Spec => []LedgerInv
BY AccountsTell, AccountsInvariance, PTL

-----------------------------------------------------------------------------
(* Limits.  LimitsHold with the counters as parameters.                    *)

Within(s, c) ==
    /\ Fits(Concurrency[s], c.active)
    /\ Fits(Lifetime[s], c.reserved + c.consumed)
    /\ ~c.overdrawn => Fits(TokenBudget[s], c.held + c.used)

WindowWithin(s, overdrawn, b) ==
    /\ Fits(PerMinute[s], b.reserved + b.consumed)
    /\ ~overdrawn => Fits(TokensPerMinute[s], b.held + b.used)

Limited(sc, bk) ==
    \A s \in Scopes :
        /\ Within(s, sc[s])
        /\ \A m \in Minutes : WindowWithin(s, sc[s].overdrawn, bk[s][m])

LEMMA LimitTypes ==
    ASSUME NEW s \in Scopes
    PROVE  /\ Concurrency[s] \in Nat \cup {NoLimit} /\ PerMinute[s] \in Nat \cup {NoLimit}
           /\ TokensPerMinute[s] \in Nat \cup {NoLimit} /\ Lifetime[s] \in Nat \cup {NoLimit}
           /\ TokenBudget[s] \in Nat \cup {NoLimit}
<1>1. /\ Concurrency \in Limit /\ PerMinute \in Limit /\ TokensPerMinute \in Limit
      /\ Lifetime \in Limit /\ TokenBudget \in Limit
    BY LimitAssumption
<1> QED  BY <1>1 DEF Limit

\* Less than what fits also fits.
LEMMA FitsLess ==
    ASSUME NEW limit \in Nat \cup {NoLimit}, NEW x \in Int, NEW y \in Int, y <= x, Fits(limit, x)
    PROVE  Fits(limit, y)
BY DEF Fits

\* Settling with at most the reserved amount frees no less than it uses.
LEMMA SettlesWithin ==
    ASSUME NEW used \in Nat, used <= Reservation, NEW r \in Nat, NEW c \in Nat
    PROVE  used * c <= Reservation * (r + c) /\ Reservation * (r + c) \in Nat /\ used * c \in Nat
<1>1. Reservation \in Nat
    BY AmountAssumption
<1>2. PICK d \in Nat : Reservation = used + d
  <2>1. Reservation - used \in Nat /\ Reservation = used + (Reservation - used)
    BY <1>1
  <2> QED  BY <2>1
<1>3. PICK uc \in Nat, ur \in Nat, dr \in Nat, dc \in Nat :
        uc = used * c /\ ur = used * r /\ dr = d * r /\ dc = d * c
  <2>1. \A x, y \in Nat : x * y \in Nat
    OBVIOUS
  <2> QED  BY <2>1
<1>4. (used + d) * (r + c) = used * r + used * c + d * r + d * c
  <2>1. \A a, b, x, y \in Int : (a + b) * (x + y) = a * x + a * y + b * x + b * y
    OBVIOUS
  <2> QED  BY <2>1
<1> QED  BY <1>2, <1>3, <1>4

\* The rows settled are none, or settle with at most what each reserved.
Covered(used, c) == ~(c > 0 /\ used > Reservation)

\* What r released and c settled rows give back covers what is used.
Frees(used, r, c) ==
    \E h \in Nat, u \in Nat : h = Reservation * (r + c) /\ u = used * c /\ u <= h

LEMMA SettleFrees ==
    ASSUME NEW used \in Nat, NEW r \in Nat, NEW c \in Nat, Covered(used, c)
    PROVE  Frees(used, r, c)
<1>1. CASE c > 0
  <2>1. used <= Reservation
    BY <1>1, AmountAssumption DEF Covered
  <2> QED  BY <2>1, SettlesWithin DEF Frees
<1>2. CASE c = 0
    BY <1>2, AmountAssumption DEF Frees
<1> QED  BY <1>1, <1>2

LEMMA CloseLimits ==
    ASSUME RowTypes(ledger), CounterTypes(scope, bucket), Limited(scope, bucket),
           NEW R, NEW C, NEW used, NEW how, Closable(R, C, used, how)
    PROVE  Limited(CloseScopes(R, C, used), CloseBuckets(R, C, used))
<1>1. /\ IsFiniteSet(R) /\ IsFiniteSet(C) /\ used \in Nat
    BY FS_Subset DEF RowTypes, Closable
<1>2. ASSUME NEW s \in Scopes
      PROVE  Within(s, CloseScopes(R, C, used)[s])
  <2> DEFINE b == scope[s]
             b2 == CloseScopes(R, C, used)[s]
  <2>1. PICK r \in Nat, c \in Nat : r = Cardinality(Charged(s, R)) /\ c = Cardinality(Charged(s, C))
    BY <1>1, ChargedCount
  <2>2. b \in ScopeCounts /\ Within(s, b)
    BY DEF CounterTypes, Limited
  <2>3. b2 = [b EXCEPT !.active   = @ - (r + c),
                       !.reserved = @ - r,
                       !.held     = @ - Reservation * (r + c),
                       !.used     = @ + used * c,
                       !.overdrawn = @ \/ (c > 0 /\ used > Reservation)]
    BY <2>1 DEF CloseScopes
  <2> HIDE DEF b, b2
  <2>4. /\ b2.active = b.active - (r + c) /\ b2.reserved = b.reserved - r
        /\ b2.consumed = b.consumed
        /\ b2.held = b.held - Reservation * (r + c) /\ b2.used = b.used + used * c
    BY <2>2, <2>3 DEF ScopeCounts
  <2>5. b2.overdrawn = (b.overdrawn \/ (c > 0 /\ used > Reservation))
    BY <2>2, <2>3 DEF ScopeCounts
  <2>6. /\ b.active \in Int /\ b.reserved \in Int /\ b.consumed \in Int
        /\ b.held \in Int /\ b.used \in Int
    BY <2>2 DEF ScopeCounts
  <2>7. Fits(Concurrency[s], b2.active) /\ Fits(Lifetime[s], b2.reserved + b2.consumed)
    <3>1. Fits(Concurrency[s], b.active) /\ Fits(Lifetime[s], b.reserved + b.consumed)
        BY <2>2 DEF Within
    <3>2. b2.active \in Int /\ b2.active <= b.active
        BY <2>4, <2>6
    <3>3. /\ b2.reserved + b2.consumed \in Int /\ b.reserved + b.consumed \in Int
          /\ b2.reserved + b2.consumed <= b.reserved + b.consumed
        BY <2>4, <2>6
    <3> QED  BY <2>6, <3>1, <3>2, <3>3, LimitTypes, FitsLess
  <2>8. ASSUME ~b2.overdrawn
        PROVE  Fits(TokenBudget[s], b2.held + b2.used)
    <3>1. ~b.overdrawn /\ ~(c > 0 /\ used > Reservation)
        BY <2>5, <2>8
    <3>2. Fits(TokenBudget[s], b.held + b.used)
        BY <2>2, <3>1 DEF Within
    <3>3. PICK h \in Nat, u \in Nat : h = Reservation * (r + c) /\ u = used * c /\ u <= h
      <4>1. used \in Nat /\ Covered(used, c)
        BY <1>1, <3>1 DEF Covered
      <4>2. Frees(used, r, c)
        BY <2>1, <4>1, SettleFrees
      <4> QED  BY <4>2 DEF Frees
    <3>4. b2.held + b2.used \in Int /\ b2.held + b2.used <= b.held + b.used /\ b.held + b.used \in Int
        BY <2>4, <2>6, <3>3
    <3> QED  BY <3>2, <3>4, LimitTypes, FitsLess
  <2> QED  BY <2>7, <2>8 DEF Within, b2
<1>3. ASSUME NEW s \in Scopes, NEW m \in Minutes
      PROVE  WindowWithin(s, CloseScopes(R, C, used)[s].overdrawn, CloseBuckets(R, C, used)[s][m])
  <2> DEFINE In(S) == Charged(s, {k \in S : ledger[k].window = m})
             b == bucket[s][m]
             b2 == CloseBuckets(R, C, used)[s][m]
             o == scope[s].overdrawn
             o2 == CloseScopes(R, C, used)[s].overdrawn
  <2>0. /\ In(R) \subseteq R /\ In(C) \subseteq C
        /\ In(C) \subseteq Charged(s, C) /\ IsFiniteSet(Charged(s, C))
    BY <1>1, ChargedCount DEF Charged
  <2>1. PICK r \in Nat, c \in Nat : r = Cardinality(In(R)) /\ c = Cardinality(In(C))
    BY <1>1, <2>0, FS_Subset, FS_CardinalityType
  <2>2. b \in BucketCounts /\ WindowWithin(s, o, b) /\ scope[s] \in ScopeCounts
    BY DEF CounterTypes, Limited
  <2>3. b2 = [b EXCEPT !.reserved = @ - r,
                       !.held     = @ - Reservation * (r + c),
                       !.used     = @ + used * c]
    BY <2>1 DEF CloseBuckets
  <2>4. o2 = (o \/ (Cardinality(Charged(s, C)) > 0 /\ used > Reservation))
    BY <2>2 DEF CloseScopes, ScopeCounts
  <2>5. Cardinality(Charged(s, C)) \in Nat /\ c <= Cardinality(Charged(s, C))
    BY <2>0, <2>1, FS_Subset, FS_CardinalityType
  <2> HIDE DEF b, b2, o, o2
  <2>6. /\ b2.reserved = b.reserved - r /\ b2.consumed = b.consumed
        /\ b2.held = b.held - Reservation * (r + c) /\ b2.used = b.used + used * c
    BY <2>2, <2>3 DEF BucketCounts
  <2>7. /\ b.reserved \in Int /\ b.consumed \in Int
        /\ b.held \in Int /\ b.used \in Int
    BY <2>2 DEF BucketCounts
  <2>8. Fits(PerMinute[s], b2.reserved + b2.consumed)
    <3>1. Fits(PerMinute[s], b.reserved + b.consumed)
        BY <2>2 DEF WindowWithin
    <3>2. /\ b2.reserved + b2.consumed \in Int /\ b.reserved + b.consumed \in Int
          /\ b2.reserved + b2.consumed <= b.reserved + b.consumed
        BY <2>6, <2>7
    <3> QED  BY <3>1, <3>2, LimitTypes, FitsLess
  <2>9. ASSUME ~o2
        PROVE  Fits(TokensPerMinute[s], b2.held + b2.used)
    <3>1. ~o /\ ~(c > 0 /\ used > Reservation)
      <4>1. ~o /\ ~(Cardinality(Charged(s, C)) > 0 /\ used > Reservation)
        BY <2>4, <2>9
      <4> QED  BY <2>5, <4>1
    <3>2. Fits(TokensPerMinute[s], b.held + b.used)
        BY <2>2, <3>1 DEF WindowWithin
    <3>3. PICK h \in Nat, u \in Nat : h = Reservation * (r + c) /\ u = used * c /\ u <= h
      <4>1. used \in Nat /\ Covered(used, c)
        BY <1>1, <3>1 DEF Covered
      <4>2. Frees(used, r, c)
        BY <2>1, <4>1, SettleFrees
      <4> QED  BY <4>2 DEF Frees
    <3>4. b2.held + b2.used \in Int /\ b2.held + b2.used <= b.held + b.used /\ b.held + b.used \in Int
        BY <2>6, <2>7, <3>3
    <3> QED  BY <3>2, <3>4, LimitTypes, FitsLess
  <2> QED  BY <2>8, <2>9 DEF WindowWithin, b2, o2
<1> QED  BY <1>2, <1>3 DEF Limited

\* A reservation that passed CheckLimits.
LEMMA OpenLimits ==
    ASSUME NEW sc, NEW bk, CounterTypes(sc, bk), Limited(sc, bk), NEW r,
           minute \in Minutes, CheckLimits(r, sc, bk)
    PROVE  Limited(OpenScopes(sc, r), OpenBuckets(bk, r, minute))
<1>1. ASSUME NEW s \in Scopes
      PROVE  /\ Within(s, OpenScopes(sc, r)[s])
             /\ OpenScopes(sc, r)[s].overdrawn = sc[s].overdrawn
  <2> DEFINE b == sc[s]
             b2 == OpenScopes(sc, r)[s]
  <2>1. b \in ScopeCounts /\ Within(s, b)
    BY DEF CounterTypes, Limited
  <2>2. CASE s \notin ScopesOf[r]
    BY <2>1, <2>2 DEF OpenScopes
  <2>3. CASE s \in ScopesOf[r]
    <3>1. /\ b2.active = b.active + 1 /\ b2.reserved = b.reserved + 1
          /\ b2.held = b.held + Reservation /\ b2.used = b.used
          /\ b2.consumed = b.consumed /\ b2.overdrawn = b.overdrawn
        BY <2>1, <2>3 DEF OpenScopes, ScopeCounts
    <3>2. /\ Fits(Concurrency[s], b.active + 1)
          /\ Fits(Lifetime[s], b.reserved + b.consumed + 1)
          /\ Fits(TokenBudget[s], b.held + b.used + Reservation)
        BY <2>3 DEF CheckLimits
    <3>3. /\ b.reserved \in Int /\ b.consumed \in Int
          /\ b.held \in Int /\ b.used \in Int /\ Reservation \in Int
        BY <2>1, AmountAssumption DEF ScopeCounts
    <3> HIDE DEF b, b2
    <3>4. /\ b2.reserved + b2.consumed = b.reserved + b.consumed + 1
          /\ b2.held + b2.used = b.held + b.used + Reservation
        BY <3>1, <3>3
    <3> QED  BY <3>1, <3>2, <3>4 DEF Within, b, b2
  <2> QED  BY <2>2, <2>3
<1>2. ASSUME NEW s \in Scopes, NEW m \in Minutes
      PROVE  WindowWithin(s, sc[s].overdrawn, OpenBuckets(bk, r, minute)[s][m])
  <2> DEFINE b == bk[s][m]
             b2 == OpenBuckets(bk, r, minute)[s][m]
  <2>1. bk[s] \in [Minutes -> BucketCounts] /\ b \in BucketCounts
    BY DEF CounterTypes
  <2>2. WindowWithin(s, sc[s].overdrawn, b)
    BY DEF Limited
  <2>3. CASE s \notin ScopesOf[r] \/ m # minute
    <3>1. b2 = b
        BY <2>1, <2>3 DEF OpenBuckets
    <3> QED  BY <2>2, <3>1
  <2>4. CASE s \in ScopesOf[r] /\ m = minute
    <3>1. /\ b2.reserved = b.reserved + 1 /\ b2.held = b.held + Reservation
          /\ b2.used = b.used /\ b2.consumed = b.consumed
        BY <2>1, <2>4 DEF OpenBuckets, BucketCounts
    <3>2. /\ Fits(PerMinute[s], b.reserved + b.consumed + 1)
          /\ Fits(TokensPerMinute[s], b.held + b.used + Reservation)
        BY <2>4 DEF CheckLimits, WindowAdmits
    <3>3. /\ b.reserved \in Int /\ b.consumed \in Int
          /\ b.held \in Int /\ b.used \in Int /\ Reservation \in Int
        BY <2>1, AmountAssumption DEF BucketCounts
    <3> HIDE DEF b, b2
    <3>4. /\ b2.reserved + b2.consumed = b.reserved + b.consumed + 1
          /\ b2.held + b2.used = b.held + b.used + Reservation
        BY <3>1, <3>3
    <3> QED  BY <3>2, <3>4 DEF WindowWithin, b2
  <2> QED  BY <2>3, <2>4
<1> QED  BY <1>1, <1>2 DEF Limited

\* Send-start, in the window of the reservation or, checked again, in the next.
LEMMA MarkLimits ==
    ASSUME NEW sc, NEW bk, CounterTypes(sc, bk), Limited(sc, bk), NEW r,
           NEW old \in Minutes, NEW m \in Minutes, NEW moved \in Nat,
           moved = IF old # m THEN Reservation ELSE 0,
           old # m => \A s \in ScopesOf[r] : WindowAdmits(s, bk[s][m])
    PROVE  Limited(MarkScopes(sc, r), MarkBuckets(bk, r, old, m, moved))
<1>0. Reservation \in Nat
    BY AmountAssumption
<1>1. ASSUME NEW s \in Scopes
      PROVE  /\ Within(s, MarkScopes(sc, r)[s])
             /\ MarkScopes(sc, r)[s].overdrawn = sc[s].overdrawn
  <2> DEFINE b == sc[s]
             b2 == MarkScopes(sc, r)[s]
  <2>1. b \in ScopeCounts /\ Within(s, b)
    BY DEF CounterTypes, Limited
  <2>2. CASE s \notin ScopesOf[r]
    BY <2>1, <2>2 DEF MarkScopes
  <2>3. CASE s \in ScopesOf[r]
    <3>1. /\ b2.active = b.active /\ b2.reserved = b.reserved - 1
          /\ b2.held = b.held /\ b2.used = b.used
          /\ b2.consumed = b.consumed + 1 /\ b2.overdrawn = b.overdrawn
        BY <2>1, <2>3 DEF MarkScopes, ScopeCounts
    <3>2. b.reserved \in Int /\ b.consumed \in Int
        BY <2>1 DEF ScopeCounts
    <3> HIDE DEF b, b2
    <3>3. b2.reserved + b2.consumed = b.reserved + b.consumed
        BY <3>1, <3>2
    <3> QED  BY <2>1, <3>1, <3>3 DEF Within, b, b2
  <2> QED  BY <2>2, <2>3
<1>2. ASSUME NEW s \in Scopes, NEW n \in Minutes
      PROVE  WindowWithin(s, sc[s].overdrawn, MarkBuckets(bk, r, old, m, moved)[s][n])
  <2> DEFINE b == bk[s][n]
             b2 == MarkBuckets(bk, r, old, m, moved)[s][n]
  <2>1. bk[s] \in [Minutes -> BucketCounts] /\ b \in BucketCounts
    BY DEF CounterTypes
  <2>2. WindowWithin(s, sc[s].overdrawn, b)
    BY DEF Limited
  <2>3. b.reserved \in Int /\ b.consumed \in Int /\ b.held \in Int /\ b.used \in Int
    BY <2>1 DEF BucketCounts
  <2>4. CASE s \notin ScopesOf[r] \/ (n # old /\ n # m)
    <3>1. b2 = b
        BY <2>1, <2>4 DEF MarkBuckets
    <3> QED  BY <2>2, <3>1
  <2>5. CASE s \in ScopesOf[r] /\ n = old /\ n = m
    <3>1. /\ b2.reserved = b.reserved - 1 /\ b2.consumed = b.consumed + 1
          /\ b2.held = b.held /\ b2.used = b.used
        BY <2>1, <2>3, <2>5 DEF MarkBuckets, BucketCounts
    <3> HIDE DEF b, b2
    <3>2. b2.reserved + b2.consumed = b.reserved + b.consumed
        BY <2>3, <3>1
    <3> QED  BY <2>2, <3>1, <3>2 DEF WindowWithin, b2
  <2>6. CASE s \in ScopesOf[r] /\ n = old /\ n # m
    <3>1. /\ b2.reserved = b.reserved - 1 /\ b2.consumed = b.consumed
          /\ b2.held = b.held - Reservation /\ b2.used = b.used
        BY <2>1, <2>3, <2>6 DEF MarkBuckets, BucketCounts
    <3> HIDE DEF b, b2
    <3>2. /\ b2.reserved + b2.consumed \in Int /\ b.reserved + b.consumed \in Int
          /\ b2.reserved + b2.consumed <= b.reserved + b.consumed
          /\ b2.held + b2.used \in Int /\ b.held + b.used \in Int
          /\ b2.held + b2.used <= b.held + b.used
        BY <1>0, <2>3, <3>1
    <3>3. Fits(PerMinute[s], b2.reserved + b2.consumed)
        BY <2>2, <3>2, LimitTypes, FitsLess DEF WindowWithin
    <3>4. ASSUME ~sc[s].overdrawn PROVE Fits(TokensPerMinute[s], b2.held + b2.used)
        BY <2>2, <3>2, <3>4, LimitTypes, FitsLess DEF WindowWithin
    <3> QED  BY <3>3, <3>4 DEF WindowWithin, b2
  <2>7. CASE s \in ScopesOf[r] /\ n # old /\ n = m
    <3>1. /\ b2.reserved = b.reserved /\ b2.consumed = b.consumed + 1
          /\ b2.held = b.held + Reservation /\ b2.used = b.used
        BY <2>1, <2>3, <2>7 DEF MarkBuckets, BucketCounts
    <3>2. /\ Fits(PerMinute[s], b.reserved + b.consumed + 1)
          /\ Fits(TokensPerMinute[s], b.held + b.used + Reservation)
        BY <2>7 DEF WindowAdmits
    <3> HIDE DEF b, b2
    <3>3. /\ b2.reserved + b2.consumed = b.reserved + b.consumed + 1
          /\ b2.held + b2.used = b.held + b.used + Reservation
        BY <1>0, <2>3, <3>1
    <3> QED  BY <3>2, <3>3 DEF WindowWithin, b2
  <2> QED  BY <2>4, <2>5, <2>6, <2>7
<1> QED  BY <1>1, <1>2 DEF Limited

LEMMA LimitsStep ==
    ASSUME AttemptsIInv, Limited(scope, bucket), [Next]_vars
    PROVE  Limited(scope', bucket')
<1>0. /\ CallTypes /\ RowTypes(ledger) /\ CounterTypes(scope, bucket)
      /\ CallsOwnTheirRows /\ Numbered /\ minute \in Minutes
    BY DEF AttemptsIInv, LedgerBase, CallTypes
<1>1. CASE UNCHANGED <<ledger, scope, bucket>>
    BY <1>1
<1>2. ASSUME NEW R, NEW C, NEW used, NEW how, Closable(R, C, used, how), Closing(R, C, used, how)
      PROVE  Limited(scope', bucket')
    BY <1>0, <1>2, CloseLimits DEF Closing
<1>3. ASSUME NEW q \in Questions, NEW t \in Tokens, NEW heard \in BOOLEAN, Reserve(q, t, heard)
      PROVE  Limited(scope', bucket')
  <2> DEFINE sc == CloseScopes(Dropped(q, t), Doubted(q, t), Reservation)
             bk == CloseBuckets(Dropped(q, t), Doubted(q, t), Reservation)
  <2>1. Closable(Dropped(q, t), Doubted(q, t), Reservation, "settled_conservative")
    BY <1>3, ReserveOpens
  <2>2. CounterTypes(sc, bk) /\ Limited(sc, bk)
    BY <1>0, <2>1, CloseTypes, CloseLimits
  <2>3. CheckLimits(RunOf[q], sc, bk)
    BY <1>3 DEF Reserve, Dropped, Doubted
  <2>4. scope' = OpenScopes(sc, RunOf[q]) /\ bucket' = OpenBuckets(bk, RunOf[q], minute)
    BY <1>3, ReserveOpens
  <2> HIDE DEF sc, bk
  <2> QED  BY <1>0, <2>2, <2>3, <2>4, OpenLimits
<1>4. ASSUME NEW q \in Questions, NEW t \in Tokens, MarkSendStarted(q, t)
      PROVE  Limited(scope', bucket')
  <2> DEFINE k == KeyOf(q, t)
             old == ledger[k].window
             r == RunOf[q]
  <2>1. k \in DOMAIN ledger /\ scope' = MarkScopes(scope, r)
    BY <1>0, <1>4, MarkMoves
  <2>2. PICK moved \in Nat :
            /\ moved = IF old # minute THEN Reservation ELSE 0
            /\ bucket' = MarkBuckets(bucket, r, old, minute, moved)
    BY <1>0, <1>4, MarkMoves
  <2>3. old \in Minutes
    BY <1>0, <2>1 DEF RowTypes, KeyRow
  <2>4. old # minute => \A s \in ScopesOf[r] : WindowAdmits(s, bucket[s][minute])
    BY <1>4 DEF MarkSendStarted, MarkAdmits, Moves
  <2> HIDE DEF k, old, r
  <2> QED  BY <1>0, <2>1, <2>2, <2>3, <2>4, MarkLimits
<1> QED  BY <1>0, <1>1, <1>2, <1>3, <1>4, LedgerSteps

\* For every policy and every instance, however attempts, minute changes,
\* crashes and reconciliations interleave, no scope has more active attempts,
\* attempts in a minute or attempts over its lifetime than its policy allows,
\* and its amounts hold as long as no attempt has overdrawn its reservation.
THEOREM Limits == Spec => []LimitsHold
<1> DEFINE I == AttemptsIInv /\ Limited(scope, bucket)
<1>1. Init => I
  <2> SUFFICES ASSUME Init PROVE Limited(scope, bucket)
    BY AttemptsInit
  <2>1. ASSUME NEW s \in Scopes
        PROVE  /\ scope[s].active = 0 /\ scope[s].reserved = 0 /\ scope[s].consumed = 0
               /\ scope[s].held = 0 /\ scope[s].used = 0
    BY DEF Init, Zero
  <2>2. ASSUME NEW s \in Scopes, NEW m \in Minutes
        PROVE  /\ bucket[s][m].reserved = 0 /\ bucket[s][m].consumed = 0
               /\ bucket[s][m].held = 0 /\ bucket[s][m].used = 0
    BY DEF Init, ZeroBucket
  <2>3. \A limit \in Nat \cup {NoLimit} : Fits(limit, 0) /\ Fits(limit, 0 + 0)
    BY DEF Fits
  <2> QED  BY <2>1, <2>2, <2>3, LimitTypes DEF Limited, Within, WindowWithin
<1>2. I /\ [Next]_vars => I'
    BY AttemptsStep, LimitsStep
<1>3. I => LimitsHold
    BY DEF Limited, Within, WindowWithin, LimitsHold
<1> QED  BY <1>1, <1>2, <1>3, PTL DEF Spec
=============================================================================
