--------------------------- MODULE DatabaseProofs ---------------------------
(***************************************************************************)
(* Theorems about the import from SQLite, about Models and their           *)
(* credentials, and about the schema migrations, for any number of         *)
(* importers, clients, Models, Runs and backups.                           *)
(***************************************************************************)
EXTENDS SqliteImport, ModelCredentials, SchemaMigrations,
        FiniteSetTheorems, SequenceTheorems, TLAPS

-----------------------------------------------------------------------------
(* The import.  The advisory lock is held from the first statement until   *)
(* the server has dealt with the COMMIT, and the table locks from before   *)
(* the target was found empty: nobody can have written in between.         *)

Outside == {"idle", "preflight", "snapshot", "serialize"}
Inside  == {"head", "lock", "empty", "commit"}

Rests(s) ==
    /\ ~s.running /\ s.sound
    /\ InStates(s.ledger, ActiveStates) = {}
    /\ NoMaterializationDrift(s)

Writes == [by : Importers \cup {"app"}, head : BOOLEAN]
Backends == {"none", "open", "sent", "committed"}

\* An importer's memory m and its backend's state b, against the target t.
ImporterOK(i, m, b, t) ==
    /\ m = [pc |-> m.pc, view |-> m.view, exit |-> m.exit]
    /\ m.pc \in Outside \cup Inside \cup {"committing", "verify", "done"}
    /\ m.pc \in Outside => b = "none"
    /\ m.pc \in Inside <=> b = "open"
    /\ m.pc = "verify" => b = "committed"
    /\ m.exit # "none" => m.pc = "done"
    /\ m.exit = "2" => b = "none"
    /\ m.exit \in {"0", "3"} => b = "committed"
    /\ m.pc \in {"snapshot", "serialize"} \cup Inside \/ b \in {"sent", "committed"} => Rests(m.view)
    /\ m.pc = "commit" \/ b = "sent" => t.head /\ t.log = <<>>
    /\ b = "committed" <=> \E k \in 1..Len(t.log) : t.log[k].by = i

\* Its locks: the advisory one, and those on the tables.
LocksOK(i, m, b, advisory, tables) ==
    /\ b \in {"open", "sent"} => advisory = i
    /\ m.pc \in {"empty", "commit"} \/ b = "sent" => tables = i
    /\ tables = i => b \in {"open", "sent"}

IImpInv ==
    /\ target \in [head : BOOLEAN, log : Seq(Writes)]
    /\ imp = [i \in Importers |-> imp[i]]
    /\ backend \in [Importers -> Backends]
    /\ exclusive \in Importers \cup {Free}
    /\ ImportsIntoEmptyHead
    /\ \A i \in Importers : ImporterOK(i, imp[i], backend[i], target)
    /\ \A i \in Importers : LocksOK(i, imp[i], backend[i], serial, exclusive)

\* A step of importer i that writes nothing and touches no lock of another.
LEMMA ImporterStep ==
    ASSUME IImpInv, NEW i \in Importers, NEW m, NEW b \in Backends,
           imp' = [imp EXCEPT ![i] = m], backend' = [backend EXCEPT ![i] = b], target' = target,
           exclusive' \in Importers \cup {Free},
           \A j \in Importers \ {i} : (serial = j => serial' = j) /\ (exclusive = j <=> exclusive' = j),
           ImporterOK(i, m, b, target), LocksOK(i, m, b, serial', exclusive')
    PROVE  IImpInv'
<1>1. /\ imp' = [j \in Importers |-> imp'[j]] /\ imp'[i] = m
      /\ \A j \in Importers \ {i} : imp'[j] = imp[j]
    BY DEF IImpInv
<1>2. /\ backend' \in [Importers -> Backends] /\ backend'[i] = b
      /\ \A j \in Importers \ {i} : backend'[j] = backend[j]
    BY DEF IImpInv
<1>3. \A j \in Importers : ImporterOK(j, imp'[j], backend'[j], target')
    BY <1>1, <1>2 DEF IImpInv
<1>4. ASSUME NEW j \in Importers PROVE LocksOK(j, imp'[j], backend'[j], serial', exclusive')
  <2>1. CASE j = i
    BY <1>1, <1>2, <2>1
  <2>2. CASE j # i
    <3>1. LocksOK(j, imp[j], backend[j], serial, exclusive)
        BY DEF IImpInv
    <3>2. (serial = j => serial' = j) /\ (exclusive = j <=> exclusive' = j)
        BY <2>2
    <3> QED  BY <1>1, <1>2, <2>2, <3>1, <3>2 DEF LocksOK
  <2> QED  BY <2>1, <2>2
<1>5. ImportsIntoEmptyHead'
    BY DEF IImpInv, ImportsIntoEmptyHead
<1> QED  BY <1>1, <1>2, <1>3, <1>4, <1>5 DEF IImpInv

\* The same, as most steps are: the locks stay as they are.
LEMMA QuietImport ==
    ASSUME IImpInv, NEW i \in Importers, NEW m, imp' = [imp EXCEPT ![i] = m],
           UNCHANGED <<target, serial, exclusive, backend>>,
           ImporterOK(i, m, backend[i], target), m.pc \in {"empty", "commit"} => imp[i].pc \in {"empty", "commit"}
    PROVE  IImpInv'
<1>1. /\ backend[i] \in Backends /\ backend' = [backend EXCEPT ![i] = backend[i]]
      /\ LocksOK(i, imp[i], backend[i], serial, exclusive) /\ exclusive \in Importers \cup {Free}
    BY DEF IImpInv
<1>2. LocksOK(i, m, backend[i], serial', exclusive')
    BY <1>1 DEF LocksOK
<1> QED  BY <1>1, <1>2, ImporterStep

\* The memory of an importer after Moves and after Exits.
LEMMA Moved ==
    ASSUME IImpInv, NEW i \in Importers, NEW from, NEW to, Moves(i, from, to)
    PROVE  /\ imp[i].pc = from
           /\ imp' = [imp EXCEPT ![i] = [pc |-> to, view |-> imp[i].view, exit |-> imp[i].exit]]
<1>1. imp[i] = [pc |-> imp[i].pc, view |-> imp[i].view, exit |-> imp[i].exit]
    BY DEF IImpInv, ImporterOK
<1>2. [imp[i] EXCEPT !.pc = to] = [pc |-> to, view |-> imp[i].view, exit |-> imp[i].exit]
    BY <1>1
<1>3. imp[i].pc = from /\ imp' = [imp EXCEPT ![i] = [imp[i] EXCEPT !.pc = to]]
    BY DEF Moves
<1> QED  BY <1>2, <1>3

LEMMA Exited ==
    ASSUME IImpInv, NEW i \in Importers, NEW code, Exits(i, code)
    PROVE  \E view : /\ imp' = [imp EXCEPT ![i] = [pc |-> "done", view |-> view, exit |-> code]]
                     /\ backend[i] \in {"sent", "committed"} => view = imp[i].view
<1> DEFINE view == IF backend[i] \in {"sent", "committed"} THEN imp[i].view ELSE NewSource
<1>1. imp' = [imp EXCEPT ![i] = [pc |-> "done", view |-> view, exit |-> code]]
    BY DEF Exits
<1> QED  BY <1>1

\* A transaction that ends without a COMMIT on its way.
LEMMA Undone ==
    ASSUME IImpInv, NEW i \in Importers, NEW code \in {"2", "4", "killed"}, Exits(i, code),
           backend[i] \in {"none", "open"}, backend' = [backend EXCEPT ![i] = "none"],
           target' = target, Unlock(i)
    PROVE  IImpInv'
<1>1. PICK view : imp' = [imp EXCEPT ![i] = [pc |-> "done", view |-> view, exit |-> code]]
    BY Exited
<1> DEFINE m == [pc |-> "done", view |-> view, exit |-> code]
<1>2. /\ m.pc = "done" /\ m.exit = code /\ m = [pc |-> m.pc, view |-> m.view, exit |-> m.exit]
      /\ imp' = [imp EXCEPT ![i] = m]
    BY <1>1
<1> HIDE DEF m
<1>3. ImporterOK(i, m, "none", target)
  <2>1. ImporterOK(i, imp[i], backend[i], target)
    BY DEF IImpInv
  <2> QED  BY <1>2, <2>1 DEF ImporterOK, Outside, Inside
<1>4. LocksOK(i, m, "none", serial', exclusive')
  <2>1. exclusive' # i
    BY ImporterNames DEF Unlock, Free
  <2> QED  BY <1>2, <2>1 DEF LocksOK
<1>5. /\ exclusive' \in Importers \cup {Free}
      /\ \A j \in Importers \ {i} : (serial = j => serial' = j) /\ (exclusive = j <=> exclusive' = j)
    BY ImporterNames DEF Unlock, IImpInv, Free
<1> QED  BY <1>2, <1>3, <1>4, <1>5, ImporterStep DEF Backends

\* A process that ends while its locks, if any, are the server's.
LEMMA QuietExit ==
    ASSUME IImpInv, NEW i \in Importers, NEW code, Exits(i, code), code # "none",
           code = "2" => backend[i] = "none", code \in {"0", "3"} => backend[i] = "committed",
           backend[i] # "open", UNCHANGED <<target, serial, exclusive, backend>>
    PROVE  IImpInv'
<1>1. PICK view : /\ imp' = [imp EXCEPT ![i] = [pc |-> "done", view |-> view, exit |-> code]]
                  /\ backend[i] \in {"sent", "committed"} => view = imp[i].view
    BY Exited
<1> DEFINE m == [pc |-> "done", view |-> view, exit |-> code]
<1>2. /\ m.pc = "done" /\ m.exit = code /\ m = [pc |-> m.pc, view |-> m.view, exit |-> m.exit]
      /\ imp' = [imp EXCEPT ![i] = m] /\ m.view = view
    BY <1>1
<1> HIDE DEF m
<1>3. ImporterOK(i, imp[i], backend[i], target) /\ backend[i] \in Backends
    BY DEF IImpInv
<1>4. ImporterOK(i, m, backend[i], target)
    BY <1>1, <1>2, <1>3 DEF ImporterOK, Outside, Inside, Backends
<1> QED  BY <1>2, <1>4, QuietImport

\* What the steps of an importer start from.
LEMMA ImporterFacts ==
    ASSUME IImpInv, NEW i \in Importers
    PROVE  /\ ImporterOK(i, imp[i], backend[i], target) /\ backend[i] \in Backends
           /\ LocksOK(i, imp[i], backend[i], serial, exclusive)
           /\ imp[i].pc \in Inside => backend[i] = "open"
           /\ imp[i].pc \in Outside => backend[i] = "none"
BY DEF IImpInv, ImporterOK

LEMMA RollBackStep ==
    ASSUME IImpInv, NEW i \in Importers, imp[i].pc \in Inside, RollsBack(i)
    PROVE  IImpInv'
<1>1. /\ Exits(i, "2") /\ backend[i] = "open" /\ backend' = [backend EXCEPT ![i] = "none"]
      /\ target' = target /\ Unlock(i)
    BY ImporterFacts DEF RollsBack
<1> QED  BY <1>1, Undone

\* Reading the source and deciding.
LEMMA SourceSteps ==
    ASSUME IImpInv, NEW i \in Importers, OpenSource(i) \/ Preflight(i) \/ Snapshot(i)
    PROVE  IImpInv'
<1>0. UNCHANGED <<target, serial, exclusive, backend>>
    BY DEF OpenSource, Preflight, Snapshot
<1>1. CASE OpenSource(i)
  <2> DEFINE m == [pc |-> "preflight", view |-> source, exit |-> imp[i].exit]
  <2>1. imp[i].pc = "idle" /\ imp[i] = [pc |-> imp[i].pc, view |-> imp[i].view, exit |-> imp[i].exit]
    BY <1>1, ImporterFacts DEF OpenSource, ImporterOK
  <2>2. [imp[i] EXCEPT !.pc = "preflight", !.view = source] = m
    <3> DEFINE v == imp[i].view
               e == imp[i].exit
    <3>1. imp[i] = [pc |-> "idle", view |-> v, exit |-> e] /\ m = [pc |-> "preflight", view |-> source, exit |-> e]
        BY <2>1
    <3> HIDE DEF v, e, m
    <3>2. /\ imp[i] \in [pc : {"idle"}, view : {v}, exit : {e}]
          /\ m \in [pc : {"preflight"}, view : {source}, exit : {e}]
        BY <3>1
    <3> QED  BY ONLY <3>2
  <2>3. imp' = [imp EXCEPT ![i] = m]
    <3>1. imp' = [imp EXCEPT ![i] = [imp[i] EXCEPT !.pc = "preflight", !.view = source]]
        BY <1>1 DEF OpenSource, IImpInv
    <3> QED  BY <2>2, <3>1
  <2>4. m.pc = "preflight" /\ m.exit = imp[i].exit /\ m = [pc |-> m.pc, view |-> m.view, exit |-> m.exit]
    OBVIOUS
  <2> HIDE DEF m
  <2>5. ImporterOK(i, m, backend[i], target)
    BY <2>1, <2>4, ImporterFacts DEF ImporterOK, Outside, Inside
  <2> QED  BY <1>0, <2>3, <2>4, <2>5, QuietImport
<1>2. CASE Preflight(i) /\ ~PreflightAccepts(imp[i].view, now)
  <2>1. Exits(i, "2") /\ imp[i].pc = "preflight"
    BY <1>2 DEF Preflight
  <2>2. backend[i] = "none"
    BY <2>1, ImporterFacts DEF Outside
  <2> QED  BY <1>0, <2>1, <2>2, QuietExit
<1>3. CASE Preflight(i) /\ PreflightAccepts(imp[i].view, now)
  <2> DEFINE m == [pc |-> "snapshot", view |-> imp[i].view, exit |-> imp[i].exit]
  <2>1. imp[i].pc = "preflight" /\ imp' = [imp EXCEPT ![i] = m]
    BY <1>3, Moved DEF Preflight
  <2>2. Rests(m.view)
    BY <1>3 DEF PreflightAccepts, Rests
  <2>3. m.pc = "snapshot" /\ m.exit = imp[i].exit /\ m = [pc |-> m.pc, view |-> m.view, exit |-> m.exit]
    OBVIOUS
  <2> HIDE DEF m
  <2>4. ImporterOK(i, m, backend[i], target)
    BY <2>1, <2>2, <2>3, ImporterFacts DEF ImporterOK, Outside, Inside
  <2> QED  BY <1>0, <2>1, <2>3, <2>4, QuietImport
<1>4. CASE Snapshot(i)
  <2> DEFINE m == [pc |-> "serialize", view |-> imp[i].view, exit |-> imp[i].exit]
  <2>1. imp[i].pc = "snapshot" /\ imp' = [imp EXCEPT ![i] = m]
    BY <1>4, Moved DEF Snapshot
  <2>2. /\ m.pc = "serialize" /\ m.exit = imp[i].exit /\ m.view = imp[i].view
        /\ m = [pc |-> m.pc, view |-> m.view, exit |-> m.exit]
    OBVIOUS
  <2> HIDE DEF m
  <2>3. ImporterOK(i, m, backend[i], target)
    BY <2>1, <2>2, ImporterFacts DEF ImporterOK, Outside, Inside
  <2> QED  BY <1>0, <2>1, <2>2, <2>3, QuietImport
<1> QED  BY <1>1, <1>2, <1>3, <1>4

\* Inside the target's transaction, up to the COMMIT.
LEMMA TransactionSteps ==
    ASSUME IImpInv, NEW i \in Importers,
           Serialize(i) \/ CheckHead(i) \/ LockTables(i) \/ CopyIntoEmpty(i) \/ StatementFails(i) \/ SendCommit(i)
    PROVE  IImpInv'
<1>1. CASE Serialize(i)
  <2> DEFINE m == [pc |-> "head", view |-> imp[i].view, exit |-> imp[i].exit]
  <2>0. /\ m.pc = "head" /\ m.view = imp[i].view /\ m.exit = imp[i].exit
        /\ m = [pc |-> m.pc, view |-> m.view, exit |-> m.exit]
    OBVIOUS
  <2>1. /\ imp[i].pc = "serialize" /\ imp' = [imp EXCEPT ![i] = m]
        /\ serial' = i /\ serial = Free /\ exclusive' = exclusive /\ target' = target
        /\ backend' = [backend EXCEPT ![i] = "open"]
    BY <1>1, Moved DEF Serialize
  <2>2. backend[i] = "none" /\ exclusive # i
    BY <2>1, ImporterFacts DEF Outside, LocksOK
  <2> HIDE DEF m
  <2>3. ImporterOK(i, m, "open", target)
    BY <2>0, <2>1, ImporterFacts DEF ImporterOK, Outside, Inside
  <2>4. LocksOK(i, m, "open", serial', exclusive')
    BY <2>0, <2>1, <2>2 DEF LocksOK
  <2>5. /\ exclusive' \in Importers \cup {Free}
        /\ \A j \in Importers \ {i} : (serial = j => serial' = j) /\ (exclusive = j <=> exclusive' = j)
    BY <2>1, ImporterNames DEF IImpInv, Free
  <2> QED  BY <2>1, <2>3, <2>4, <2>5, ImporterStep DEF Backends
<1>2. CASE (CheckHead(i) \/ CopyIntoEmpty(i) \/ StatementFails(i)) /\ RollsBack(i)
  <2>1. imp[i].pc \in Inside
    BY <1>2 DEF CheckHead, CopyIntoEmpty, StatementFails, Inside
  <2> QED  BY <1>2, <2>1, RollBackStep
<1>3. CASE CheckHead(i) /\ ~RollsBack(i)
  <2> DEFINE m == [pc |-> "lock", view |-> imp[i].view, exit |-> imp[i].exit]
  <2>0. /\ m.pc = "lock" /\ m.view = imp[i].view /\ m.exit = imp[i].exit
        /\ m = [pc |-> m.pc, view |-> m.view, exit |-> m.exit]
    OBVIOUS
  <2>1. imp[i].pc = "head" /\ imp' = [imp EXCEPT ![i] = m]
    BY <1>3, Moved DEF CheckHead
  <2>2. UNCHANGED <<target, serial, exclusive, backend>>
    BY <1>3 DEF CheckHead
  <2> HIDE DEF m
  <2>3. ImporterOK(i, m, backend[i], target)
    BY <2>0, <2>1, ImporterFacts DEF ImporterOK, Outside, Inside
  <2> QED  BY <2>0, <2>1, <2>2, <2>3, QuietImport
<1>4. CASE LockTables(i)
  <2> DEFINE m == [pc |-> "empty", view |-> imp[i].view, exit |-> imp[i].exit]
  <2>0. /\ m.pc = "empty" /\ m.view = imp[i].view /\ m.exit = imp[i].exit
        /\ m = [pc |-> m.pc, view |-> m.view, exit |-> m.exit]
    OBVIOUS
  <2>1. /\ imp[i].pc = "lock" /\ imp' = [imp EXCEPT ![i] = m]
        /\ exclusive = Free /\ exclusive' = i /\ serial' = serial /\ target' = target /\ backend' = backend
    BY <1>4, Moved DEF LockTables
  <2>2. backend[i] = "open" /\ serial = i /\ backend' = [backend EXCEPT ![i] = "open"]
    BY <2>1, ImporterFacts DEF Inside, LocksOK, IImpInv
  <2> HIDE DEF m
  <2>3. ImporterOK(i, m, "open", target)
    BY <2>0, <2>1, <2>2, ImporterFacts DEF ImporterOK, Outside, Inside
  <2>4. LocksOK(i, m, "open", serial', exclusive')
    BY <2>0, <2>1, <2>2 DEF LocksOK
  <2>5. /\ exclusive' \in Importers \cup {Free}
        /\ \A j \in Importers \ {i} : (serial = j => serial' = j) /\ (exclusive = j <=> exclusive' = j)
    BY <2>1, ImporterNames DEF Free
  <2> QED  BY <2>1, <2>2, <2>3, <2>4, <2>5, ImporterStep DEF Backends
<1>5. CASE CopyIntoEmpty(i) /\ ~RollsBack(i)
  <2> DEFINE m == [pc |-> "commit", view |-> imp[i].view, exit |-> imp[i].exit]
  <2>0. /\ m.pc = "commit" /\ m.view = imp[i].view /\ m.exit = imp[i].exit
        /\ m = [pc |-> m.pc, view |-> m.view, exit |-> m.exit]
    OBVIOUS
  <2>1. imp[i].pc = "empty" /\ imp' = [imp EXCEPT ![i] = m] /\ target.head /\ target.log = <<>>
    BY <1>5, Moved DEF CopyIntoEmpty
  <2>2. UNCHANGED <<target, serial, exclusive, backend>>
    BY <1>5 DEF CopyIntoEmpty
  <2> HIDE DEF m
  <2>3. ImporterOK(i, m, backend[i], target)
    BY <2>0, <2>1, ImporterFacts DEF ImporterOK, Outside, Inside
  <2> QED  BY <2>0, <2>1, <2>2, <2>3, QuietImport
<1>6. CASE SendCommit(i)
  <2> DEFINE m == [pc |-> "committing", view |-> imp[i].view, exit |-> imp[i].exit]
  <2>0. /\ m.pc = "committing" /\ m.view = imp[i].view /\ m.exit = imp[i].exit
        /\ m = [pc |-> m.pc, view |-> m.view, exit |-> m.exit]
    OBVIOUS
  <2>1. /\ imp[i].pc = "commit" /\ imp' = [imp EXCEPT ![i] = m]
        /\ exclusive' = exclusive /\ serial' = serial /\ target' = target
        /\ backend' = [backend EXCEPT ![i] = "sent"]
    BY <1>6, Moved DEF SendCommit
  <2>2. backend[i] = "open" /\ serial = i /\ exclusive = i
    BY <2>1, ImporterFacts DEF Inside, LocksOK
  <2> HIDE DEF m
  <2>3. ImporterOK(i, m, "sent", target)
    BY <2>0, <2>1, <2>2, ImporterFacts DEF ImporterOK, Outside, Inside
  <2>4. LocksOK(i, m, "sent", serial', exclusive')
    BY <2>0, <2>1, <2>2 DEF LocksOK
  <2> QED  BY <2>1, <2>2, <2>3, <2>4, ImporterStep DEF Backends
<1>7. StatementFails(i) => RollsBack(i)
    BY DEF StatementFails
<1> QED  BY <1>1, <1>2, <1>3, <1>4, <1>5, <1>6, <1>7

\* What the server makes of the COMMIT.
LEMMA ServerSteps ==
    ASSUME IImpInv, NEW i \in Importers, TargetCommits(i) \/ ServerAborts(i)
    PROVE  IImpInv'
<1>0. backend[i] = "sent" /\ imp' = imp /\ Unlock(i)
    BY DEF TargetCommits, ServerAborts
<1>1. /\ exclusive' \in Importers \cup {Free} /\ exclusive' # i
      /\ \A j \in Importers \ {i} : (serial = j => serial' = j) /\ (exclusive = j <=> exclusive' = j)
    BY <1>0, ImporterNames DEF Unlock, IImpInv, Free
<1>2. ASSUME NEW b \in {"none", "committed"} PROVE LocksOK(i, imp[i], b, serial', exclusive')
  <2>1. imp[i].pc \notin Inside
    BY <1>0, ImporterFacts DEF ImporterOK
  <2> QED  BY <1>1, <1>2, <2>1 DEF LocksOK, Inside
<1>3. CASE ServerAborts(i)
  <2>1. backend' = [backend EXCEPT ![i] = "none"] /\ target' = target /\ imp' = [imp EXCEPT ![i] = imp[i]]
    BY <1>0, <1>3 DEF ServerAborts, IImpInv
  <2>2. ImporterOK(i, imp[i], "none", target)
    BY <1>0, ImporterFacts DEF ImporterOK
  <2> QED  BY <1>1, <1>2, <2>1, <2>2, ImporterStep DEF Backends
<1>4. CASE TargetCommits(i)
  <2> DEFINE entry == [by |-> i, head |-> TRUE]
  <2>1. target.head /\ target.log = <<>> /\ exclusive = i
    BY <1>0, ImporterFacts DEF ImporterOK, LocksOK
  <2>2. /\ target' = [target EXCEPT !.log = Append(target.log, [by |-> i, head |-> target.head])]
        /\ backend' = [backend EXCEPT ![i] = "committed"]
    BY <1>4 DEF TargetCommits
  <2>3. target' \in [head : BOOLEAN, log : Seq(Writes)] /\ target'.log = <<entry>>
    <3>1. entry \in Writes /\ target \in [head : BOOLEAN, log : Seq(Writes)] /\ target.head = TRUE
        BY <2>1 DEF Writes, IImpInv
    <3>2. Append(target.log, [by |-> i, head |-> target.head]) = <<entry>>
        BY <2>1, <3>1
    <3>3. <<entry>> \in Seq(Writes)
        BY <3>1
    <3> HIDE DEF entry
    <3> QED  BY <2>2, <3>1, <3>2, <3>3
  <2>4. Len(target'.log) = 1 /\ target'.log[1].by = i /\ target'.log[1].head = TRUE
    BY <2>3
  <2>5. ImportsIntoEmptyHead'
    BY <2>4 DEF ImportsIntoEmptyHead
  <2>6. /\ backend' \in [Importers -> Backends] /\ backend'[i] = "committed"
        /\ \A j \in Importers \ {i} : backend'[j] = backend[j]
    BY <2>2 DEF IImpInv, Backends
  <2>7. ImporterOK(i, imp[i], "committed", target')
    BY <1>0, <2>4, ImporterFacts DEF ImporterOK, Outside
  <2>8. ASSUME NEW j \in Importers, j # i PROVE ImporterOK(j, imp[j], backend[j], target')
    <3>1. imp[j].pc # "commit" /\ backend[j] # "sent"
        BY <2>1, <2>8, ImporterFacts DEF LocksOK
    <3>2. backend[j] # "committed"
      <4>1. 1..Len(target.log) = {}
        BY <2>1
      <4> QED  BY <4>1, ImporterFacts DEF ImporterOK
    <3>3. ~\E k \in 1..Len(target'.log) : target'.log[k].by = j
        BY <2>4, <2>8
    <3> QED  BY <3>1, <3>2, <3>3, ImporterFacts DEF ImporterOK
  <2>9. ASSUME NEW j \in Importers PROVE LocksOK(j, imp[j], backend'[j], serial', exclusive')
    <3>1. CASE j = i
        BY <1>2, <2>6, <3>1
    <3>2. CASE j # i
      <4>1. (serial = j => serial' = j) /\ (exclusive = j <=> exclusive' = j) /\ backend'[j] = backend[j]
        BY <1>1, <2>6, <3>2
      <4> QED  BY <4>1, ImporterFacts DEF LocksOK
    <3> QED  BY <3>1, <3>2
  <2>10. imp' = [j \in Importers |-> imp'[j]]
    BY <1>0 DEF IImpInv
  <2>11. \A j \in Importers : ImporterOK(j, imp'[j], backend'[j], target')
    BY <1>0, <2>6, <2>7, <2>8
  <2> QED  BY <1>0, <1>1, <2>3, <2>5, <2>6, <2>9, <2>10, <2>11 DEF IImpInv
<1> QED  BY <1>3, <1>4

\* After the COMMIT, and the end of a process.
LEMMA OutcomeSteps ==
    ASSUME IImpInv, NEW i \in Importers,
           Acknowledged(i) \/ Unconfirmed(i) \/ VerifyCommitted(i) \/ VerifyFails(i) \/ KillImporter(i)
    PROVE  IImpInv'
<1>1. CASE Acknowledged(i) /\ Moves(i, "committing", "verify")
  <2> DEFINE m == [pc |-> "verify", view |-> imp[i].view, exit |-> imp[i].exit]
  <2>1. imp[i].pc = "committing" /\ imp' = [imp EXCEPT ![i] = m]
    BY <1>1, Moved
  <2>2. backend[i] = "committed" /\ UNCHANGED <<target, serial, exclusive, backend>>
    BY <1>1 DEF Acknowledged
  <2>3. /\ m.pc = "verify" /\ m.exit = imp[i].exit /\ m.view = imp[i].view
        /\ m = [pc |-> m.pc, view |-> m.view, exit |-> m.exit]
    OBVIOUS
  <2> HIDE DEF m
  <2>4. ImporterOK(i, m, backend[i], target)
    BY <2>1, <2>2, <2>3, ImporterFacts DEF ImporterOK, Outside, Inside
  <2> QED  BY <2>1, <2>2, <2>3, <2>4, QuietImport
<1>2. CASE Acknowledged(i) /\ Exits(i, "3")
  <2>1. backend[i] = "committed" /\ UNCHANGED <<target, serial, exclusive, backend>>
    BY <1>2 DEF Acknowledged
  <2> QED  BY <1>2, <2>1, QuietExit
<1>3. CASE Unconfirmed(i)
  <2>1. Exits(i, "4") /\ imp[i].pc = "committing" /\ UNCHANGED <<target, serial, exclusive, backend>>
    BY <1>3 DEF Unconfirmed
  <2>2. backend[i] # "open"
    BY <2>1, ImporterFacts DEF ImporterOK, Inside
  <2> QED  BY <2>1, <2>2, QuietExit
<1>4. CASE VerifyCommitted(i) \/ VerifyFails(i)
  <2>1. imp[i].pc = "verify" /\ UNCHANGED <<target, serial, exclusive, backend>> /\ (Exits(i, "0") \/ Exits(i, "3"))
    BY <1>4 DEF VerifyCommitted, VerifyFails
  <2>2. backend[i] = "committed"
    BY <2>1, ImporterFacts DEF ImporterOK
  <2>3. CASE Exits(i, "0")
    BY <2>1, <2>2, <2>3, QuietExit
  <2>4. CASE Exits(i, "3")
    BY <2>1, <2>2, <2>4, QuietExit
  <2> QED  BY <2>1, <2>3, <2>4
<1>5. CASE KillImporter(i) /\ backend[i] = "open"
  <2>1. /\ Exits(i, "killed") /\ backend' = [backend EXCEPT ![i] = "none"]
        /\ target' = target /\ Unlock(i)
    BY <1>5 DEF KillImporter
  <2> QED  BY <1>5, <2>1, Undone
<1>6. CASE KillImporter(i) /\ backend[i] # "open"
  <2>1. Exits(i, "killed") /\ UNCHANGED <<target, serial, exclusive, backend>>
    BY <1>6 DEF KillImporter
  <2> QED  BY <1>6, <2>1, QuietExit
<1> QED  BY <1>1, <1>2, <1>3, <1>4, <1>5, <1>6 DEF Acknowledged

\* The target outside the import.
LEMMA TargetSteps ==
    ASSUME IImpInv, MigrateTarget \/ ApiStarts
    PROVE  IImpInv'
<1>1. exclusive = Free /\ UNCHANGED <<imp, serial, exclusive, backend>>
    BY DEF MigrateTarget, ApiStarts, TargetChanges
<1>2. \A i \in Importers : imp[i].pc # "commit" /\ backend[i] # "sent"
    BY <1>1, ImporterFacts, ImporterNames DEF LocksOK, Free
<1>3. target \in [head : BOOLEAN, log : Seq(Writes)] /\ target.log \in Seq(Writes) /\ target.head \in BOOLEAN
    BY DEF IImpInv
<1>4. /\ target' \in [head : BOOLEAN, log : Seq(Writes)] /\ ImportsIntoEmptyHead'
      /\ \A i \in Importers : (\E k \in 1..Len(target'.log) : target'.log[k].by = i)
                                 <=> (\E k \in 1..Len(target.log) : target.log[k].by = i)
  <2>1. CASE MigrateTarget
    <3>1. target' = [target EXCEPT !.head = ~target.head]
        BY <2>1 DEF MigrateTarget, TargetChanges
    <3>2. target' \in [head : BOOLEAN, log : Seq(Writes)] /\ target'.log = target.log
        BY <1>3, <3>1
    <3> QED  BY <3>2 DEF IImpInv, ImportsIntoEmptyHead
  <2>2. CASE ApiStarts
    <3> DEFINE e == [by |-> "app", head |-> target.head]
               n == Len(target.log)
    <3>1. target' = [target EXCEPT !.log = Append(target.log, e)]
        BY <2>2 DEF ApiStarts, TargetChanges
    <3>2. e \in Writes /\ e.by = "app"
        BY <1>3 DEF Writes
    <3> HIDE DEF e
    <3>3. /\ n \in Nat /\ Append(target.log, e) \in Seq(Writes) /\ Len(Append(target.log, e)) = n + 1
          /\ \A k \in 1..n : Append(target.log, e)[k] = target.log[k]
          /\ Append(target.log, e)[n + 1] = e
        BY <1>3, <3>2, AppendProperties, LenProperties
    <3>4. target' \in [head : BOOLEAN, log : Seq(Writes)] /\ target'.log = Append(target.log, e)
        BY <1>3, <3>1, <3>3
    <3>5. \A k \in 1..(n + 1) : k \in 1..n \/ k = n + 1
        BY <3>3
    <3>6. \A k \in 1..n : k \in 1..(n + 1)
        BY <3>3
    <3> HIDE DEF n
    <3>7. ImportsIntoEmptyHead'
        BY <3>2, <3>3, <3>4, <3>5 DEF IImpInv, ImportsIntoEmptyHead, n
    <3>8. ASSUME NEW i \in Importers
          PROVE  (\E k \in 1..Len(target'.log) : target'.log[k].by = i)
                    <=> (\E k \in 1..Len(target.log) : target.log[k].by = i)
      <4>1. i # "app"
        BY ImporterNames
      <4> QED  BY <3>2, <3>3, <3>4, <3>5, <3>6, <4>1 DEF n
    <3> QED  BY <3>4, <3>7, <3>8
  <2> QED  BY <2>1, <2>2
<1>5. ASSUME NEW i \in Importers PROVE ImporterOK(i, imp[i], backend[i], target')
  <2>1. ImporterOK(i, imp[i], backend[i], target)
    BY ImporterFacts
  <2> QED  BY <1>2, <1>4, <2>1 DEF ImporterOK
<1> QED  BY <1>1, <1>4, <1>5 DEF IImpInv

LEMMA ImportSteps ==
    ASSUME IImpInv, [ImpNext]_impVars
    PROVE  IImpInv'
<1>1. CASE SourceNext \/ UNCHANGED impVars
  <2>1. UNCHANGED <<target, imp, serial, exclusive, backend>>
    BY <1>1 DEF SourceNext, StartWorker, BeatWorker, StopWorker, FinishRun, Damage, TimePasses, MoveCall,
                SourceCommits, targetVars, impVars
  <2> QED  BY <2>1 DEF IImpInv, ImportsIntoEmptyHead
<1>2. CASE MigrateTarget \/ ApiStarts
    BY <1>2, TargetSteps
<1>3. ASSUME NEW i \in Importers, OpenSource(i) \/ Preflight(i) \/ Snapshot(i)
      PROVE  IImpInv'
    BY <1>3, SourceSteps
<1>4. ASSUME NEW i \in Importers,
             Serialize(i) \/ CheckHead(i) \/ LockTables(i) \/ CopyIntoEmpty(i) \/ StatementFails(i) \/ SendCommit(i)
      PROVE  IImpInv'
    BY <1>4, TransactionSteps
<1>5. ASSUME NEW i \in Importers, TargetCommits(i) \/ ServerAborts(i)
      PROVE  IImpInv'
    BY <1>5, ServerSteps
<1>6. ASSUME NEW i \in Importers,
             Acknowledged(i) \/ Unconfirmed(i) \/ VerifyCommitted(i) \/ VerifyFails(i) \/ KillImporter(i)
      PROVE  IImpInv'
    BY <1>6, OutcomeSteps
<1> QED  BY <1>1, <1>2, <1>3, <1>4, <1>5, <1>6 DEF ImpNext

LEMMA ImportStarts ==
    ASSUME ImpInit
    PROVE  IImpInv
<1>1. /\ target = [head |-> TRUE, log |-> <<>>] /\ imp = [i \in Importers |-> NewImporter]
      /\ serial = Free /\ exclusive = Free /\ backend = [i \in Importers |-> "none"]
    BY DEF ImpInit
<1>2. target \in [head : BOOLEAN, log : Seq(Writes)] /\ target.log = <<>> /\ Len(target.log) = 0
    BY <1>1, EmptySeq
<1>3. 1..Len(target.log) = {}
    BY <1>2
<1>4. /\ NewImporter.pc = "idle" /\ NewImporter.exit = "none"
      /\ NewImporter = [pc |-> NewImporter.pc, view |-> NewImporter.view, exit |-> NewImporter.exit]
  <2> HIDE DEF NewSource
  <2> QED  BY DEF NewImporter
<1> HIDE DEF NewImporter
<1>5. \A i \in Importers : imp[i] = NewImporter /\ backend[i] = "none"
    BY <1>1
<1>6. \A i \in Importers : ImporterOK(i, NewImporter, "none", target)
    BY <1>3, <1>4 DEF ImporterOK, Outside, Inside
<1>7. \A i \in Importers : LocksOK(i, NewImporter, "none", serial, exclusive)
    BY <1>1, <1>4, ImporterNames DEF LocksOK, Free
<1> QED  BY <1>1, <1>2, <1>3, <1>5, <1>6, <1>7 DEF IImpInv, ImportsIntoEmptyHead, Backends

\* What a preflight that accepted says of every counter.
LEMMA RestingCounters ==
    ASSUME NEW s, Rests(s)
    PROVE  /\ \A c \in Calls : s.ledger[c].state \notin ActiveStates
           /\ s.scope.active = 0 /\ s.scope.reserved = 0
<1>1. InStates(s.ledger, ActiveStates) = {} /\ s.scope = ScopeCounters(s.ledger)
    BY DEF Rests, NoMaterializationDrift
<1>2. \A c \in Calls : s.ledger[c].state \notin ActiveStates
    BY <1>1 DEF InStates
<1>3. InStates(s.ledger, {"reserved"}) = {}
    BY <1>2 DEF InStates, ActiveStates
<1>4. s.scope.active = 0 /\ s.scope.reserved = 0
    BY <1>1, <1>3, FS_EmptySet DEF ScopeCounters
<1> QED  BY <1>2, <1>4

\* import_sqlite_to_postgres, with any number of importers, breaking
\* connections, a source that goes on working and a target that others start
\* to use: what lands is a source at rest, once, into an empty target at head;
\* the exit codes are true; no two importers wait for each other's locks.
THEOREM ImportIsSound == ImpSpec => []ImportInv
<1>1. ImpInit => IImpInv
    BY ImportStarts
<1>2. IImpInv /\ [ImpNext]_impVars => IImpInv'
    BY ImportSteps
<1>3. ASSUME IImpInv PROVE ImportInv
  <2>0. \A i \in Importers : i \in Imported <=> backend[i] = "committed"
    BY <1>3, ImporterFacts DEF ImporterOK, Imported
  <2>1. ImportsRestingSource
    <3> SUFFICES ASSUME NEW i \in Imported
                 PROVE  LET s == imp[i].view
                        IN /\ ~s.running /\ s.sound
                           /\ \A c \in Calls : s.ledger[c].state \notin ActiveStates
                           /\ s.scope.active = 0 /\ s.scope.reserved = 0
                           /\ NoMaterializationDrift(s)
        BY DEF ImportsRestingSource
    <3>1. i \in Importers /\ backend[i] = "committed"
        BY <2>0 DEF Imported
    <3>2. Rests(imp[i].view)
        BY <1>3, <3>1, ImporterFacts DEF ImporterOK
    <3> QED  BY <3>2, RestingCounters DEF Rests
  <2>2. ExitCodesTrue
    <3> SUFFICES ASSUME NEW i \in Importers
                 PROVE  /\ imp[i].exit = "2" => i \notin Imported /\ backend[i] # "sent"
                        /\ imp[i].exit \in {"0", "3"} => i \in Imported
        BY DEF ExitCodesTrue
    <3>1. ImporterOK(i, imp[i], backend[i], target)
        BY <1>3, ImporterFacts
    <3> QED  BY <2>0, <3>1 DEF ImporterOK
  <2>3. ImportersNeverStandOff
    <3> SUFFICES ASSUME NEW i \in Importers, NEW j \in Importers, i # j,
                        imp[i].pc = "lock", imp[j].pc = "lock"
                 PROVE  FALSE
        BY DEF ImportersNeverStandOff
    <3>1. backend[i] = "open" /\ backend[j] = "open"
        BY <1>3, ImporterFacts DEF Inside
    <3>2. serial = i /\ serial = j
        BY <1>3, <3>1, ImporterFacts DEF LocksOK
    <3> QED  BY <3>2
  <2> QED  BY <1>3, <2>1, <2>2, <2>3 DEF ImportInv, IImpInv
<1> QED  BY <1>1, <1>2, <1>3, PTL DEF ImpSpec

-----------------------------------------------------------------------------
(* Models and credentials.  The lock on a Model row keeps the Model, its   *)
(* envelope and its active Runs as a staged request saw them, so that what *)
(* was decided before the commit is still right at the commit.             *)

ModelRow == [exists : BOOLEAN, provider : {"mock", "remote", "deleted"}, url : Urls \cup {NoUrl},
             env : BOOLEAN, source : {"none", "stored", "environment"}, public : {0, 1}]

RequestKinds == {"idle", "create_model", "patch", "delete", "create_run"}

\* An envelope is of a secret somebody entered for its Model and origin.
Known(envelope, secrets) ==
    \/ envelope = NoCred
    \/ [secret |-> envelope.secret, model |-> envelope.model, origin |-> envelope.origin] \in secrets

\* The envelope beside a row of Model m.
Fits(m, r, envelope) ==
    IF r.source = "stored"
    THEN r.url # NoUrl /\ envelope.model = m /\ envelope.origin = OriginOf[r.url]
    ELSE envelope = NoCred

SameProvider(a, b) ==
    /\ a.exists = b.exists /\ a.provider = b.provider /\ a.url = b.url
    /\ a.env = b.env /\ a.source = b.source

UsedBy(m, runs) == \E r \in RunIds : runs[r].status \in Active /\ runs[r].snap.model = m

\* What a request q of client c holds between its reads and its commit.
RequestOK(c, q, rows, envelopes, locks, runs, secrets) ==
    /\ q.kind \in RequestKinds
    /\ q.kind # "idle" => q.model \in ModelIds
    /\ q.kind \in {"create_model", "patch"} =>
        /\ q.row \in ModelRow /\ q.row.exists
        /\ Fits(q.model, q.row, q.cred) /\ Known(q.cred, secrets)
    /\ q.kind = "create_model" => rows[q.model] = NoRow
    /\ q.kind = "delete" => rows[q.model] # NoRow
    /\ q.kind \in {"patch", "create_run"} => locks[q.model] = c /\ rows[q.model].exists
    /\ q.kind = "create_run" => q.row = rows[q.model] /\ q.cred = envelopes[q.model]
    /\ q.kind = "patch" /\ UsedBy(q.model, runs) =>
        SameProvider(q.row, rows[q.model]) /\ q.cred = envelopes[q.model]

\* A Run against the Model it uses, while it is active.
RunOK(r, rows, envelopes) ==
    /\ r = [status |-> r.status, snap |-> r.snap]
    /\ r.status \in Active =>
        /\ r.snap.model \in ModelIds /\ r.snap.row \in ModelRow
        /\ rows[r.snap.model].exists /\ SameProvider(rows[r.snap.model], r.snap.row)
        /\ envelopes[r.snap.model] = r.snap.cred

CredIInv ==
    /\ model \in [ModelIds -> ModelRow] /\ cred = [m \in ModelIds |-> cred[m]]
    /\ run = [r \in RunIds |-> run[r]] /\ request = [c \in Clients |-> request[c]]
    /\ rowLock \in [ModelIds -> Clients \cup {Unlocked}]
    /\ resolved \subseteq entered
    /\ \A m \in ModelIds : Fits(m, model[m], cred[m]) /\ Known(cred[m], entered)
    /\ \A c \in Clients : RequestOK(c, request[c], model, cred, rowLock, run, entered)
    /\ \A c, d \in Clients :
        request[c].kind = "create_model" /\ request[d].kind = "create_model"
            /\ request[c].model = request[d].model => c = d
    /\ \A r \in RunIds : RunOK(run[r], model, cred)

LEMMA RequestKept ==
    ASSUME NEW c, NEW q, NEW rows, NEW envelopes, NEW locks, NEW runs, NEW secrets,
           NEW rows2, NEW envelopes2, NEW locks2, NEW runs2, NEW secrets2,
           RequestOK(c, q, rows, envelopes, locks, runs, secrets),
           q.kind # "idle" =>
             /\ rows2[q.model] = rows[q.model] /\ envelopes2[q.model] = envelopes[q.model]
             /\ locks[q.model] = c => locks2[q.model] = c
             /\ UsedBy(q.model, runs2) => UsedBy(q.model, runs),
           secrets \subseteq secrets2
    PROVE  RequestOK(c, q, rows2, envelopes2, locks2, runs2, secrets2)
<1>1. Known(q.cred, secrets) => Known(q.cred, secrets2)
    BY DEF Known
<1> QED  BY <1>1 DEF RequestOK

LEMMA CredFacts ==
    ASSUME CredIInv
    PROVE  /\ \A m \in ModelIds : model[m] \in ModelRow /\ Fits(m, model[m], cred[m]) /\ Known(cred[m], entered)
           /\ \A c \in Clients : RequestOK(c, request[c], model, cred, rowLock, run, entered)
           /\ \A r \in RunIds : RunOK(run[r], model, cred)
           /\ rowLock \in [ModelIds -> Clients \cup {Unlocked}]
BY DEF CredIInv

\* A client stages a request; it may take a free lock.
LEMMA StageStep ==
    ASSUME CredIInv, NEW c \in Clients, NEW q, request' = [request EXCEPT ![c] = q],
           UNCHANGED <<model, cred, run, resolved>>,
           rowLock' \in [ModelIds -> Clients \cup {Unlocked}],
           \A m \in ModelIds : rowLock[m] # Unlocked => rowLock'[m] = rowLock[m],
           entered \subseteq entered',
           RequestOK(c, q, model, cred, rowLock', run, entered'),
           q.kind = "create_model" =>
              \A d \in Clients \ {c} : ~(request[d].kind = "create_model" /\ request[d].model = q.model)
    PROVE  CredIInv'
<1>1. /\ request' = [d \in Clients |-> request'[d]] /\ request'[c] = q
      /\ \A d \in Clients \ {c} : request'[d] = request[d]
    BY DEF CredIInv
<1>2. ASSUME NEW d \in Clients PROVE RequestOK(d, request'[d], model, cred, rowLock', run, entered')
  <2>1. CASE d = c
    BY <1>1, <2>1
  <2>2. CASE d # c
    <3>1. RequestOK(d, request[d], model, cred, rowLock, run, entered) /\ request'[d] = request[d]
        BY <1>1, <2>2, CredFacts
    <3>2. request[d].kind # "idle" => request[d].model \in ModelIds
        BY <3>1 DEF RequestOK
    <3>3. \A m \in ModelIds : rowLock[m] = d => rowLock'[m] = d
        BY CredentialAssumption DEF Unlocked
    <3> QED  BY <3>1, <3>2, <3>3, RequestKept
  <2> QED  BY <2>1, <2>2
<1>3. \A m \in ModelIds : Fits(m, model[m], cred[m]) /\ Known(cred[m], entered')
    BY CredFacts DEF Known
<1>4. \A d, e \in Clients :
        request'[d].kind = "create_model" /\ request'[e].kind = "create_model"
            /\ request'[d].model = request'[e].model => d = e
    BY <1>1 DEF CredIInv
<1> QED  BY <1>1, <1>2, <1>3, <1>4 DEF CredIInv

\* The end of a request frees its locks and no others.
LEMMA DoneStep ==
    ASSUME CredIInv, NEW c \in Clients, Done(c), UNCHANGED <<entered, resolved>>,
           model' \in [ModelIds -> ModelRow], cred' = [m \in ModelIds |-> cred'[m]],
           run' = [r \in RunIds |-> run'[r]],
           \A m \in ModelIds : Fits(m, model'[m], cred'[m]) /\ Known(cred'[m], entered),
           \A d \in Clients \ {c} : RequestOK(d, request[d], model', cred', rowLock, run', entered),
           \A r \in RunIds : RunOK(run'[r], model', cred')
    PROVE  CredIInv'
<1>1. /\ request' = [d \in Clients |-> request'[d]] /\ request'[c] = Idling
      /\ \A d \in Clients \ {c} : request'[d] = request[d]
    BY DEF CredIInv, Done
<1>2. /\ rowLock' \in [ModelIds -> Clients \cup {Unlocked}]
      /\ \A d \in Clients \ {c}, m \in ModelIds : rowLock[m] = d => rowLock'[m] = d
    BY CredFacts DEF Done
<1>3. ASSUME NEW d \in Clients PROVE RequestOK(d, request'[d], model', cred', rowLock', run', entered')
  <2>1. CASE d = c
    <3>1. Idling.kind = "idle"
        BY DEF Idling
    <3> HIDE DEF Idling
    <3> QED  BY <1>1, <2>1, <3>1 DEF RequestOK, RequestKinds
  <2>2. CASE d # c
    <3>1. RequestOK(d, request[d], model', cred', rowLock, run', entered) /\ request'[d] = request[d]
        BY <1>1, <2>2
    <3>2. request[d].kind # "idle" => request[d].model \in ModelIds
        BY <3>1 DEF RequestOK
    <3>3. \A m \in ModelIds : rowLock[m] = d => rowLock'[m] = d
        BY <1>2, <2>2
    <3> QED  BY <3>1, <3>2, <3>3, RequestKept
  <2> QED  BY <2>1, <2>2
<1>4. \A d, e \in Clients :
        request'[d].kind = "create_model" /\ request'[e].kind = "create_model"
            /\ request'[d].model = request'[e].model => d = e
  <2>1. request'[c].kind = "idle"
    BY <1>1 DEF Idling
  <2> QED  BY <1>1, <2>1 DEF CredIInv
<1> QED  BY <1>1, <1>2, <1>3, <1>4 DEF CredIInv

LEMMA CreateModelStep ==
    ASSUME CredIInv, NEW c \in Clients, NEW m \in ModelIds, NEW asked \in Rows, NEW hasKey \in BOOLEAN,
           CreateModel(c, m, asked, hasKey)
    PROVE  CredIInv'
<1> DEFINE src == SourceFor(asked, hasKey)
           new == [asked EXCEPT !.source = src]
           env == IF hasKey THEN Encrypt(m, asked.url) ELSE NoCred
           q == [kind |-> "create_model", model |-> m, row |-> new, cred |-> env]
<1>1. /\ model[m] = NoRow /\ Valid(asked, hasKey) /\ request' = [request EXCEPT ![c] = q]
      /\ UNCHANGED <<model, cred, run, resolved, rowLock>> /\ entered \subseteq entered'
      /\ hasKey => [secret |-> NextSecret, model |-> m, origin |-> OriginOf[asked.url]] \in entered'
      /\ \A d \in Clients : request[d].kind = "create_model" => request[d].model # m
    BY DEF CreateModel
<1>2. /\ new \in ModelRow /\ new.exists /\ new.url = asked.url /\ new.source = src
  <2>1. src \in {"none", "stored", "environment"}
    BY DEF SourceFor
  <2> HIDE DEF src
  <2> QED  BY <2>1 DEF Rows, ModelRow
<1>3. Fits(m, new, env)
  <2>1. hasKey => asked.provider # "mock" /\ asked.url # NoUrl
    BY <1>1 DEF Valid
  <2>2. src = "stored" <=> hasKey
    BY <2>1 DEF SourceFor
  <2> HIDE DEF new
  <2> QED  BY <1>2, <2>1, <2>2 DEF Fits, Encrypt
<1>4. Known(env, entered')
    BY <1>1 DEF Known, Encrypt
<1>5. /\ q.kind = "create_model" /\ q.model = m /\ q.row = new /\ q.cred = env
    OBVIOUS
<1> HIDE DEF q, new, env
<1>6. RequestOK(c, q, model, cred, rowLock', run, entered')
    BY <1>1, <1>2, <1>3, <1>4, <1>5 DEF RequestOK, RequestKinds
<1>7. /\ rowLock' \in [ModelIds -> Clients \cup {Unlocked}]
      /\ \A x \in ModelIds : rowLock[x] # Unlocked => rowLock'[x] = rowLock[x]
    BY <1>1, CredFacts
<1> QED  BY <1>1, <1>5, <1>6, <1>7, StageStep

\* What update_model has decided when it has staged its row and envelope.
LEMMA PatchFacts ==
    ASSUME CredIInv, NEW m \in ModelIds, NEW p \in Patches, NEW merged, NEW hasKey, NEW new,
           merged = Merge(model[m], p), hasKey = MergedKey(model[m], p),
           new = [merged EXCEPT !.source = SourceFor(merged, hasKey)],
           model[m].exists, Valid(merged, hasKey), PatchAccepted(m, new, p)
    PROVE  /\ new \in ModelRow /\ new.exists
           /\ p.key => new.source = "stored" /\ new.url # NoUrl
           /\ ~p.key /\ new.source = "stored" => Fits(m, new, cred[m])
           /\ UsedBy(m, run) =>
                /\ SameProvider(new, model[m]) /\ ~p.key
                /\ new.source # "stored" => cred[m] = NoCred
<1> DEFINE old == model[m]
           url == IF p.provider = "mock" THEN NoUrl ELSE IF p.url = "keep" THEN old.url ELSE p.url
           provider == IF p.provider = "keep" THEN old.provider ELSE p.provider
           env == IF p.provider = "mock" \/ p.key THEN FALSE ELSE old.env \/ p.env = "set"
           public == IF p.public THEN 1 - old.public ELSE old.public
           src == SourceFor(merged, hasKey)
<1>1. old \in ModelRow /\ Fits(m, old, cred[m])
    BY CredFacts
<1>2. /\ url \in Urls \cup {NoUrl} /\ provider \in {"mock", "remote", "deleted"} /\ env \in BOOLEAN
      /\ public \in {0, 1} /\ src \in {"none", "stored", "environment"}
  <2>1. /\ old.url \in Urls \cup {NoUrl} /\ old.provider \in {"mock", "remote", "deleted"}
        /\ old.public \in {0, 1}
    BY <1>1 DEF ModelRow
  <2>2. p.url \in Urls \cup {"keep"} /\ p.provider \in {"keep", "mock", "remote"}
    BY DEF Patches
  <2>3. url \in Urls \cup {NoUrl}
    BY <2>1, <2>2
  <2>4. provider \in {"mock", "remote", "deleted"}
    BY <2>1, <2>2
  <2>5. public \in {0, 1}
    BY <2>1
  <2>6. env \in BOOLEAN
    BY Zenon
  <2>7. src \in {"none", "stored", "environment"}
    BY DEF SourceFor
  <2> QED  BY <2>3, <2>4, <2>5, <2>6, <2>7
<1>3. merged = [old EXCEPT !.provider = provider, !.url = url, !.env = env, !.public = public]
    BY DEF Merge
<1> HIDE DEF url, provider, env, public
<1>4. /\ merged \in ModelRow /\ merged.exists = old.exists /\ merged.provider = provider
      /\ merged.url = url
  <2> HIDE DEF old
  <2> QED  BY <1>1, <1>2, <1>3 DEF ModelRow
<1>5. new = [merged EXCEPT !.source = src]
    OBVIOUS
<1>6. /\ new \in ModelRow /\ new.exists /\ new.provider = merged.provider /\ new.url = merged.url
      /\ new.source = src
  <2> HIDE DEF src, old
  <2> QED  BY <1>2, <1>4, <1>5 DEF ModelRow, old
<1>7. src = "stored" => hasKey /\ merged.provider # "mock"
    BY DEF SourceFor
<1>8. hasKey => merged.provider # "mock" /\ merged.url # NoUrl /\ src = "stored"
    BY DEF Valid, SourceFor
<1>9. p.key => hasKey
    BY DEF MergedKey
<1>10. ASSUME ~p.key, new.source = "stored" PROVE Fits(m, new, cred[m])
  <2>1. old.source = "stored" /\ new.url # NoUrl
    BY <1>6, <1>7, <1>8, <1>10 DEF MergedKey
  <2>2. old.url # NoUrl /\ cred[m].model = m /\ cred[m].origin = OriginOf[old.url]
    BY <1>1, <2>1 DEF Fits
  <2>3. OriginAccepted(old, new, p)
    BY DEF PatchAccepted
  <2>4. OriginOf[old.url] = OriginOf[new.url]
    BY <1>10, <2>1, <2>2, <2>3 DEF OriginAccepted
  <2> QED  BY <1>10, <2>1, <2>2, <2>4 DEF Fits
<1>11. ASSUME UsedBy(m, run)
       PROVE  SameProvider(new, old) /\ ~p.key /\ (new.source # "stored" => cred[m] = NoCred)
  <2>1. ActiveRunOf(m)
    BY <1>11 DEF UsedBy, ActiveRunOf
  <2>2. ~Sensitive(old, new, p)
    BY <2>1 DEF PatchAccepted
  <2>3. SameProvider(new, old) /\ ~p.key /\ new.source = old.source
    BY <1>6, <2>2 DEF Sensitive, SameProvider
  <2> QED  BY <1>1, <2>3 DEF Fits
<1> QED  BY <1>6, <1>8, <1>9, <1>10, <1>11

LEMMA PatchStep ==
    ASSUME CredIInv, NEW c \in Clients, NEW m \in ModelIds, NEW p \in Patches, PatchModel(c, m, p)
    PROVE  CredIInv'
<1> DEFINE merged == Merge(model[m], p)
           hasKey == MergedKey(model[m], p)
           new == [merged EXCEPT !.source = SourceFor(merged, hasKey)]
           env == IF p.key THEN Encrypt(m, new.url) ELSE IF new.source = "stored" THEN cred[m] ELSE NoCred
           q == [kind |-> "patch", model |-> m, row |-> new, cred |-> env]
<1>1. /\ model[m].exists /\ Valid(merged, hasKey) /\ PatchAccepted(m, new, p)
      /\ rowLock[m] = Unlocked /\ rowLock' = [rowLock EXCEPT ![m] = c]
      /\ UNCHANGED <<model, cred, run, resolved>> /\ entered \subseteq entered'
      /\ p.key => [secret |-> NextSecret, model |-> m, origin |-> OriginOf[new.url]] \in entered'
    BY DEF PatchModel, StagePatch
<1>2. request' = [request EXCEPT ![c] = q]
    BY DEF PatchModel, StagePatch
<1>3. /\ new \in ModelRow /\ new.exists
      /\ p.key => new.source = "stored" /\ new.url # NoUrl
      /\ ~p.key /\ new.source = "stored" => Fits(m, new, cred[m])
      /\ UsedBy(m, run) =>
            /\ SameProvider(new, model[m]) /\ ~p.key
            /\ new.source # "stored" => cred[m] = NoCred
  <2>1. merged = Merge(model[m], p) /\ hasKey = MergedKey(model[m], p)
        /\ new = [merged EXCEPT !.source = SourceFor(merged, hasKey)]
    OBVIOUS
  <2> HIDE DEF merged, hasKey, new
  <2> QED  BY <1>1, <2>1, PatchFacts
<1> HIDE DEF new, merged, hasKey
<1>4. Fits(m, new, env)
  <2>1. CASE p.key
    BY <1>3, <2>1 DEF Fits, Encrypt
  <2>2. CASE ~p.key
    BY <1>3, <2>2 DEF Fits
  <2> QED  BY <2>1, <2>2
<1>5. Known(env, entered')
  <2>1. Known(cred[m], entered)
    BY CredFacts
  <2> QED  BY <1>1, <2>1 DEF Known, Encrypt
<1>6. UsedBy(m, run) => env = cred[m]
    BY <1>3
<1>7. /\ q.kind = "patch" /\ q.model = m /\ q.row = new /\ q.cred = env
    OBVIOUS
<1>8. /\ rowLock' \in [ModelIds -> Clients \cup {Unlocked}] /\ rowLock'[m] = c
      /\ \A x \in ModelIds : rowLock[x] # Unlocked => rowLock'[x] = rowLock[x]
    BY <1>1, CredFacts
<1> HIDE DEF q, env
<1>9. RequestOK(c, q, model, cred, rowLock', run, entered')
    BY <1>1, <1>3, <1>4, <1>5, <1>6, <1>7, <1>8 DEF RequestOK, RequestKinds
<1> QED  BY <1>1, <1>2, <1>7, <1>8, <1>9, StageStep

LEMMA DeleteModelStep ==
    ASSUME CredIInv, NEW c \in Clients, NEW m \in ModelIds, DeleteModel(c, m)
    PROVE  CredIInv'
<1> DEFINE q == [Idling EXCEPT !.kind = "delete", !.model = m]
<1>1. /\ model[m].exists /\ request' = [request EXCEPT ![c] = q]
      /\ UNCHANGED <<model, cred, run, resolved, rowLock, entered>>
    BY DEF DeleteModel
<1>2. q.kind = "delete" /\ q.model = m
    BY DEF Idling
<1>3. model[m] # NoRow
    BY <1>1 DEF NoRow
<1> HIDE DEF q
<1>4. RequestOK(c, q, model, cred, rowLock', run, entered')
    BY <1>1, <1>2, <1>3 DEF RequestOK, RequestKinds
<1>5. /\ rowLock' \in [ModelIds -> Clients \cup {Unlocked}]
      /\ \A x \in ModelIds : rowLock[x] # Unlocked => rowLock'[x] = rowLock[x]
    BY <1>1, CredFacts
<1> QED  BY <1>1, <1>2, <1>4, <1>5, StageStep

LEMMA CreateRunStep ==
    ASSUME CredIInv, NEW c \in Clients, NEW m \in ModelIds, CreateRun(c, m)
    PROVE  CredIInv'
<1> DEFINE q == [kind |-> "create_run", model |-> m, row |-> model[m], cred |-> cred[m]]
<1>1. /\ model[m].exists /\ request' = [request EXCEPT ![c] = q]
      /\ rowLock[m] = Unlocked /\ rowLock' = [rowLock EXCEPT ![m] = c]
      /\ UNCHANGED <<model, cred, run, resolved, entered>>
    BY DEF CreateRun
<1>2. q.kind = "create_run" /\ q.model = m /\ q.row = model[m] /\ q.cred = cred[m]
    OBVIOUS
<1> HIDE DEF q
<1>3. /\ rowLock' \in [ModelIds -> Clients \cup {Unlocked}] /\ rowLock'[m] = c
      /\ \A x \in ModelIds : rowLock[x] # Unlocked => rowLock'[x] = rowLock[x]
    BY <1>1, CredFacts
<1>4. RequestOK(c, q, model, cred, rowLock', run, entered')
    BY <1>1, <1>2, <1>3 DEF RequestOK, RequestKinds
<1> QED  BY <1>1, <1>2, <1>3, <1>4, StageStep

\* The commit of a row: nobody else's request looks at the same Model.
LEMMA CommitModelStep ==
    ASSUME CredIInv, NEW c \in Clients, CommitModel(c)
    PROVE  CredIInv'
<1> DEFINE q == request[c]
           m == q.model
<1>1. /\ q.kind \in {"create_model", "patch"} /\ Done(c) /\ UNCHANGED <<run, entered, resolved>>
      /\ model' = [model EXCEPT ![m] = q.row] /\ cred' = [cred EXCEPT ![m] = q.cred]
    BY DEF CommitModel
<1>2. RequestOK(c, q, model, cred, rowLock, run, entered)
    BY CredFacts
<1>3. /\ m \in ModelIds /\ q.row \in ModelRow /\ q.row.exists /\ Fits(m, q.row, q.cred) /\ Known(q.cred, entered)
    BY <1>1, <1>2 DEF RequestOK
<1>4. /\ model' \in [ModelIds -> ModelRow] /\ model'[m] = q.row
      /\ \A x \in ModelIds \ {m} : model'[x] = model[x]
    BY <1>1, <1>3 DEF CredIInv
<1>5. /\ cred' = [x \in ModelIds |-> cred'[x]] /\ cred'[m] = q.cred
      /\ \A x \in ModelIds \ {m} : cred'[x] = cred[x]
    BY <1>1, <1>3 DEF CredIInv
<1>6. \A x \in ModelIds : Fits(x, model'[x], cred'[x]) /\ Known(cred'[x], entered)
    BY <1>3, <1>4, <1>5, CredFacts
<1>7. q.row # NoRow
    BY <1>3 DEF NoRow
<1>8. NoRow.exists = FALSE
    BY DEF NoRow
<1>9. ASSUME NEW d \in Clients \ {c} PROVE RequestOK(d, request[d], model', cred', rowLock, run', entered)
  <2> DEFINE o == request[d]
  <2>1. RequestOK(d, o, model, cred, rowLock, run, entered)
    BY CredFacts
  <2>2. CASE o.kind # "idle" /\ o.model = m
    <3>1. o.kind \notin {"patch", "create_run"}
      <4>1. CASE q.kind = "patch"
        BY <1>2, <2>1, <2>2, <4>1 DEF RequestOK
      <4>2. CASE q.kind = "create_model"
        BY <1>2, <1>8, <2>1, <2>2, <4>2 DEF RequestOK
      <4> QED  BY <1>1, <4>1, <4>2
    <3>2. o.kind # "create_model"
      <4>1. CASE q.kind = "patch"
        BY <1>2, <1>8, <2>1, <2>2, <4>1 DEF RequestOK
      <4>2. CASE q.kind = "create_model"
        BY <2>2, <4>2 DEF CredIInv
      <4> QED  BY <1>1, <4>1, <4>2
    <3> HIDE DEF o, q, m
    <3>3. model'[o.model] # NoRow
        BY <1>4, <1>7, <2>2
    <3> QED  BY <2>1, <3>1, <3>2, <3>3 DEF RequestOK, o
  <2>3. CASE o.kind = "idle" \/ o.model # m
    <3>1. o.kind # "idle" => o.model \in ModelIds
        BY <2>1 DEF RequestOK
    <3>2. o.kind # "idle" => model'[o.model] = model[o.model] /\ cred'[o.model] = cred[o.model]
        BY <1>4, <1>5, <2>3, <3>1
    <3>3. run' = run
        BY <1>1
    <3> HIDE DEF o, q, m
    <3> QED  BY <2>1, <3>2, <3>3, RequestKept DEF o
  <2> QED  BY <2>2, <2>3
<1>10. ASSUME NEW r \in RunIds PROVE RunOK(run'[r], model', cred')
  <2>1. RunOK(run[r], model, cred) /\ run'[r] = run[r]
    BY <1>1, CredFacts
  <2>2. CASE run[r].status \in Active /\ run[r].snap.model = m
    <3>1. UsedBy(m, run) /\ model[m].exists /\ SameProvider(model[m], run[r].snap.row) /\ cred[m] = run[r].snap.cred
        BY <2>1, <2>2 DEF UsedBy, RunOK
    <3>2. q.kind = "patch"
        BY <1>1, <1>2, <1>8, <3>1 DEF RequestOK
    <3>3. SameProvider(q.row, model[m]) /\ q.cred = cred[m]
        BY <1>2, <3>1, <3>2 DEF RequestOK
    <3>4. SameProvider(q.row, run[r].snap.row)
        BY <3>1, <3>3 DEF SameProvider
    <3> HIDE DEF q, m
    <3> QED  BY <1>3, <1>4, <1>5, <2>1, <2>2, <3>1, <3>3, <3>4 DEF RunOK
  <2>3. CASE ~(run[r].status \in Active /\ run[r].snap.model = m)
    <3> HIDE DEF q, m
    <3> QED  BY <1>4, <1>5, <2>1, <2>3 DEF RunOK
  <2> QED  BY <2>2, <2>3
<1>11. run' = [r \in RunIds |-> run'[r]]
    BY <1>1 DEF CredIInv
<1> HIDE DEF q, m
<1> QED  BY <1>1, <1>4, <1>5, <1>6, <1>9, <1>10, <1>11, DoneStep

LEMMA CommitDeleteStep ==
    ASSUME CredIInv, NEW c \in Clients, CommitDelete(c)
    PROVE  CredIInv'
<1> DEFINE m == request[c].model
<1>1. /\ request[c].kind = "delete" /\ rowLock[m] = Unlocked /\ Done(c) /\ UNCHANGED <<run, entered, resolved>>
      /\ \A r \in RunIds : run[r].snap.model # m
      /\ model' = [model EXCEPT ![m] = Deleted] /\ cred' = [cred EXCEPT ![m] = NoCred]
    BY DEF CommitDelete
<1>2. m \in ModelIds /\ model[m] # NoRow
    BY <1>1, CredFacts DEF RequestOK
<1>3. Deleted \in ModelRow /\ Deleted # NoRow /\ Deleted.source = "none"
    BY DEF Deleted, NoRow, ModelRow
<1> HIDE DEF m
<1>4. /\ model' \in [ModelIds -> ModelRow] /\ model'[m] = Deleted
      /\ \A x \in ModelIds \ {m} : model'[x] = model[x]
    BY <1>1, <1>2, <1>3 DEF CredIInv
<1>5. /\ cred' = [x \in ModelIds |-> cred'[x]] /\ cred'[m] = NoCred
      /\ \A x \in ModelIds \ {m} : cred'[x] = cred[x]
    BY <1>1, <1>2 DEF CredIInv
<1>6. \A x \in ModelIds : Fits(x, model'[x], cred'[x]) /\ Known(cred'[x], entered)
  <2>1. Fits(m, Deleted, NoCred) /\ Known(NoCred, entered)
    BY <1>3 DEF Fits, Known
  <2> QED  BY <1>4, <1>5, <2>1, CredFacts
<1>7. ASSUME NEW d \in Clients \ {c} PROVE RequestOK(d, request[d], model', cred', rowLock, run', entered)
  <2> DEFINE o == request[d]
  <2>1. RequestOK(d, o, model, cred, rowLock, run, entered)
    BY CredFacts
  <2>2. CASE o.kind # "idle" /\ o.model = m
    <3>1. o.kind \notin {"patch", "create_run"}
        BY <1>1, <2>1, <2>2, CredentialAssumption DEF RequestOK, Unlocked
    <3>2. o.kind # "create_model"
        BY <1>2, <2>1, <2>2 DEF RequestOK
    <3> HIDE DEF o
    <3>3. model'[o.model] # NoRow
        BY <1>3, <1>4, <2>2
    <3> QED  BY <2>1, <3>1, <3>2, <3>3 DEF RequestOK, o
  <2>3. CASE o.kind = "idle" \/ o.model # m
    <3>1. o.kind # "idle" => o.model \in ModelIds
        BY <2>1 DEF RequestOK
    <3>2. o.kind # "idle" => model'[o.model] = model[o.model] /\ cred'[o.model] = cred[o.model]
        BY <1>4, <1>5, <2>3, <3>1
    <3>3. run' = run
        BY <1>1
    <3> HIDE DEF o
    <3> QED  BY <2>1, <3>2, <3>3, RequestKept DEF o
  <2> QED  BY <2>2, <2>3
<1>8. ASSUME NEW r \in RunIds PROVE RunOK(run'[r], model', cred')
  <2>1. RunOK(run[r], model, cred) /\ run'[r] = run[r] /\ run[r].snap.model # m
    BY <1>1, CredFacts
  <2> QED  BY <1>4, <1>5, <2>1 DEF RunOK
<1>9. run' = [r \in RunIds |-> run'[r]]
    BY <1>1 DEF CredIInv
<1> QED  BY <1>1, <1>4, <1>5, <1>6, <1>7, <1>8, <1>9, DoneStep

\* A Run is stored with the Model as it still is.
LEMMA CommitRunStep ==
    ASSUME CredIInv, NEW c \in Clients, CommitRun(c)
    PROVE  CredIInv'
<1> DEFINE q == request[c]
           m == q.model
           new == [status |-> "pending", snap |-> [model |-> m, row |-> q.row, cred |-> q.cred]]
<1>1. PICK r \in RunIds : run[r].status = "none" /\ run' = [run EXCEPT ![r] = new]
    BY DEF CommitRun
<1>2. q.kind = "create_run" /\ Done(c) /\ UNCHANGED <<model, cred, entered, resolved>>
    BY DEF CommitRun
<1>3. /\ m \in ModelIds /\ rowLock[m] = c /\ model[m].exists /\ q.row = model[m] /\ q.cred = cred[m]
      /\ model[m] \in ModelRow
    BY <1>2, CredFacts DEF RequestOK
<1>4. /\ new.status = "pending" /\ new.snap.model = m /\ new.snap.row = q.row /\ new.snap.cred = q.cred
      /\ new = [status |-> new.status, snap |-> new.snap]
    OBVIOUS
<1> HIDE DEF q, m, new
<1>5. /\ run' = [x \in RunIds |-> run'[x]] /\ run'[r] = new
      /\ \A x \in RunIds \ {r} : run'[x] = run[x]
    BY <1>1 DEF CredIInv
<1>6. RunOK(new, model, cred)
    BY <1>3, <1>4 DEF RunOK, SameProvider
<1>7. \A x \in RunIds : RunOK(run'[x], model', cred')
    BY <1>2, <1>5, <1>6, CredFacts
<1>8. ASSUME NEW d \in Clients \ {c} PROVE RequestOK(d, request[d], model', cred', rowLock, run', entered)
  <2> DEFINE o == request[d]
  <2>1. RequestOK(d, o, model, cred, rowLock, run, entered)
    BY CredFacts
  <2> HIDE DEF o
  <2>2. CASE o.kind # "patch"
    BY <1>2, <2>1, <2>2 DEF RequestOK, o
  <2>3. CASE o.kind = "patch"
    <3>1. o.model # m
        BY <1>3, <2>1, <2>3 DEF RequestOK
    <3>2. UsedBy(o.model, run') => UsedBy(o.model, run)
        BY <1>4, <1>5, <3>1 DEF UsedBy
    <3> QED  BY <1>2, <2>1, <3>2, RequestKept DEF o
  <2> QED  BY <2>2, <2>3
<1> QED  BY <1>2, <1>5, <1>7, <1>8, CredFacts, DoneStep DEF CredIInv

LEMMA RequestFailsStep ==
    ASSUME CredIInv, NEW c \in Clients, RequestFails(c)
    PROVE  CredIInv'
<1>1. Done(c) /\ UNCHANGED <<model, cred, run, entered, resolved>>
    BY DEF RequestFails
<1>2. /\ model' \in [ModelIds -> ModelRow] /\ cred' = [m \in ModelIds |-> cred'[m]]
      /\ run' = [r \in RunIds |-> run'[r]]
    BY <1>1 DEF CredIInv
<1> QED  BY <1>1, <1>2, CredFacts, DoneStep

\* A Run goes on or ends, and may have had its key resolved.
LEMMA RunSteps ==
    ASSUME CredIInv, NEW r \in RunIds, ResolveCredential(r) \/ EndRun(r)
    PROVE  CredIInv'
<1>1. PICK status \in {"running", "ended"} : run' = [run EXCEPT ![r].status = status]
    BY DEF ResolveCredential, EndRun
<1>2. run[r].status \in Active /\ UNCHANGED <<model, cred, rowLock, request, entered>>
    BY DEF ResolveCredential, EndRun
<1>3. RunOK(run[r], model, cred)
    BY CredFacts
<1> DEFINE snap == run[r].snap
           new == [status |-> status, snap |-> snap]
<1>4. [run[r] EXCEPT !.status = status] = new
  <2>1. run[r] = [status |-> run[r].status, snap |-> snap]
    BY <1>3 DEF RunOK
  <2> HIDE DEF snap
  <2> QED  BY <2>1
<1>5. run' = [run EXCEPT ![r] = new]
    BY <1>1, <1>4
<1>6. /\ new.status = status /\ new.snap = run[r].snap /\ new = [status |-> new.status, snap |-> new.snap]
    OBVIOUS
<1> HIDE DEF new
<1>7. /\ run' = [x \in RunIds |-> run'[x]] /\ run'[r] = new
      /\ \A x \in RunIds \ {r} : run'[x] = run[x]
    BY <1>5 DEF CredIInv
<1>8. RunOK(new, model, cred)
    BY <1>2, <1>3, <1>6 DEF RunOK
<1>9. \A x \in RunIds : RunOK(run'[x], model', cred')
    BY <1>2, <1>7, <1>8, CredFacts
<1>10. \A m : UsedBy(m, run') => UsedBy(m, run)
    BY <1>2, <1>6, <1>7 DEF UsedBy
<1>11. \A c \in Clients : RequestOK(c, request[c], model, cred, rowLock, run', entered)
    BY <1>10, CredFacts, RequestKept
<1>12. resolved' \subseteq entered
  <2>1. CASE UNCHANGED resolved
    BY <2>1 DEF CredIInv
  <2>2. CASE /\ snap.row.source = "stored" /\ cred[snap.model] # NoCred
             /\ Decrypts(cred[snap.model], snap.model, snap.row.url)
             /\ resolved' = resolved \cup
                    {[secret |-> cred[snap.model].secret, model |-> snap.model,
                      origin |-> OriginOf[snap.row.url]]}
    <3>1. snap.model \in ModelIds
        BY <1>2, <1>3 DEF RunOK
    <3>2. Known(cred[snap.model], entered)
        BY <3>1, CredFacts
    <3>3. cred[snap.model].model = snap.model /\ cred[snap.model].origin = OriginOf[snap.row.url]
        BY <2>2 DEF Decrypts
    <3> HIDE DEF snap
    <3>4. [secret |-> cred[snap.model].secret, model |-> snap.model, origin |-> OriginOf[snap.row.url]] \in entered
        BY <2>2, <3>2, <3>3 DEF Known
    <3> QED  BY <2>2, <3>4 DEF CredIInv
  <2> QED  BY <2>1, <2>2 DEF ResolveCredential, EndRun
<1> QED  BY <1>2, <1>7, <1>9, <1>11, <1>12 DEF CredIInv

LEMMA CredSteps ==
    ASSUME CredIInv, [CredNext]_credVars
    PROVE  CredIInv'
<1>1. CASE RotateKeyring \/ UNCHANGED credVars
  <2>1. UNCHANGED <<model, cred, run, rowLock, request, entered, resolved>>
    BY <1>1 DEF RotateKeyring, credVars
  <2> QED  BY <2>1 DEF CredIInv
<1>2. ASSUME NEW c \in Clients, NEW m \in ModelIds,
             \/ \E r \in Rows, hasKey \in BOOLEAN : CreateModel(c, m, r, hasKey)
             \/ \E p \in Patches : PatchModel(c, m, p)
             \/ DeleteModel(c, m) \/ CreateRun(c, m)
      PROVE  CredIInv'
    BY <1>2, CreateModelStep, PatchStep, DeleteModelStep, CreateRunStep
<1>3. ASSUME NEW c \in Clients, CommitModel(c) \/ CommitDelete(c) \/ CommitRun(c) \/ RequestFails(c)
      PROVE  CredIInv'
    BY <1>3, CommitModelStep, CommitDeleteStep, CommitRunStep, RequestFailsStep
<1>4. ASSUME NEW r \in RunIds, ResolveCredential(r) \/ EndRun(r)
      PROVE  CredIInv'
    BY <1>4, RunSteps
<1> QED  BY <1>1, <1>2, <1>3, <1>4 DEF CredNext

LEMMA CredStarts ==
    ASSUME CredInit
    PROVE  CredIInv
<1>1. /\ model = [m \in ModelIds |-> NoRow] /\ cred = [m \in ModelIds |-> NoCred]
      /\ run = [r \in RunIds |-> [status |-> "none", snap |-> NoSnapshot]]
      /\ rowLock = [m \in ModelIds |-> Unlocked] /\ request = [c \in Clients |-> Idling]
      /\ entered = {} /\ resolved = {}
    BY DEF CredInit
<1>2. NoRow \in ModelRow /\ NoRow.source = "none" /\ Idling.kind = "idle"
    BY DEF NoRow, ModelRow, Idling
<1> HIDE DEF NoRow, Idling, NoSnapshot, NoCred
<1>3. \A m \in ModelIds : Fits(m, model[m], cred[m]) /\ Known(cred[m], entered)
    BY <1>1, <1>2 DEF Fits, Known
<1>4. \A c \in Clients : request[c].kind = "idle"
    BY <1>1, <1>2
<1>5. \A c \in Clients : RequestOK(c, request[c], model, cred, rowLock, run, entered)
    BY <1>4 DEF RequestOK, RequestKinds
<1>6. \A r \in RunIds : RunOK(run[r], model, cred)
    BY <1>1 DEF RunOK, Active
<1> QED  BY <1>1, <1>2, <1>3, <1>4, <1>5, <1>6 DEF CredIInv

\* update_model, create_run, delete_model and the worker's resolution of a
\* credential, interleaved in any order and under any keyring: a stored key
\* goes only to the origin it was entered for, an active Run keeps Provider and
\* key, and a Model that says "stored" has an envelope its own row can open.
THEOREM CredentialsAreSafe == CredSpec => []CredentialInv
<1>1. CredInit => CredIInv
    BY CredStarts
<1>2. CredIInv /\ [CredNext]_credVars => CredIInv'
    BY CredSteps
<1>3. ASSUME CredIInv PROVE CredentialInv
  <2>1. KeysStayAtTheirOrigin
    BY <1>3 DEF CredIInv, KeysStayAtTheirOrigin
  <2>2. StoredMatchesEnvelope
    BY <1>3, CredFacts DEF Fits, StoredMatchesEnvelope
  <2>3. ASSUME NEW r \in RunIds, run[r].status \in Active
        PROVE  LET snap == run[r].snap
               IN /\ model[snap.model].exists
                  /\ [model[snap.model] EXCEPT !.public = snap.row.public] = snap.row
                  /\ cred[snap.model] = snap.cred
    <3> DEFINE snap == run[r].snap
               current == model[snap.model]
    <3>1. /\ snap.model \in ModelIds /\ snap.row \in ModelRow /\ current.exists
          /\ SameProvider(current, snap.row) /\ cred[snap.model] = snap.cred
        BY <1>3, <2>3, CredFacts DEF RunOK
    <3>2. current \in ModelRow
        BY <1>3, <3>1, CredFacts
    <3>3. [current EXCEPT !.public = snap.row.public] = snap.row
      <4> HIDE DEF current, snap
      <4> QED  BY <3>1, <3>2 DEF SameProvider, ModelRow
    <3> QED  BY <3>1, <3>3
  <2> QED  BY <2>1, <2>2, <2>3 DEF CredentialInv, ActiveRunsKeepTheirProvider
<1> QED  BY <1>1, <1>2, <1>3, PTL DEF CredSpec

-----------------------------------------------------------------------------
(***************************************************************************)
(* SchemaMigrations, for any number of backups.                            *)
(***************************************************************************)
\* What the schema of a versioned database may lack of its revision, and have
\* beyond it: an early revision 4 did not create the indexes that 6 restores,
\* and an unversioned current schema is stamped as 6 to pass the repair of 7.
MayLack(r)  == IF r \in {4, 5} THEN Indexes ELSE {}
MayExceed(r) == IF r \in {6, 7} THEN {"protocols"} ELSE {}

DatabaseOK(d, sup) ==
    /\ d \in Database /\ Possible(d.schema, d.facts)
    /\ d.head >= 0 => /\ SchemaAt(d.head) \ d.schema \subseteq MayLack(d.head)
                      /\ (d.schema \cap Full) \ SchemaAt(d.head) \subseteq MayExceed(d.head)
    /\ d.head >= 7 => d.repaired
    /\ d.dialect = "postgresql" => d.schema \cap Half = {}
    /\ sup => d.schema \cap Odd = {}

\* Acceptable once blocking rows are corrected.
Cleaned(d) == [d EXCEPT !.facts = {}]

\* The database was empty, or a backup holds the same rows.
Rescued(o, files) == \/ o.schema = {}
                     \/ \E b \in files : Accepts(b.image) /\ b.image.facts = o.facts

\* The schema is the one of its revision, as far as it is looked at.
Exact(d) == /\ d.head \in Revisions
            /\ Differences(d) = Full \ SchemaAt(d.head)
            /\ d.dialect = "sqlite" => d.schema = SchemaAt(d.head)

\* Without what half a downgrade leaves.
Mended(d) == [d EXCEPT !.schema = d.schema \ {"cut"}]

\* What holds where the migration is.
Acceptable ==
    \/ Accepts(Cleaned(db)) \/ Rescued(origin, backups)
    \/ db.dialect = "postgresql" /\ db.head = Unversioned
    \/ db.dialect = "sqlite" /\ "cut" \in db.schema

UpOK ==
    /\ db.head = Unversioned => db.schema \subseteq {"torn"}
    /\ db.dialect = "sqlite" => /\ db.schema \cap (Odd \cup {"cut"}) = {}
                                /\ step = "upgrade" => "torn" \notin db.schema
                                /\ Rescued(origin, backups) \/ (Accepts(db) /\ db.head = HeadRevision)
    /\ db.dialect = "postgresql" => Accepts(saved)
    /\ step = "revision" => db.head < HeadRevision /\ ~Raises(db.head + 1, db)

DownOK ==
    /\ Exact(Mended(db))
    /\ step # "reverting" => "cut" \notin db.schema
    /\ step = "reverting" => db.head > 0 /\ db.facts \cap Downgrades[db.head].guards = {}
    /\ db.dialect = "postgresql" => Exact(saved)
    /\ step = "ready" => /\ db.head = HeadRevision
                         /\ db.dialect = "sqlite" => "orphan" \notin db.facts

StepOK ==
    /\ step \in Steps
    /\ step \in {"idle", "refused"} /\ supported => Acceptable
    /\ step \in {"upgrade", "revision"} => UpOK
    /\ step \in {"ready", "lowered", "down", "reverting"} => DownOK

MigIInv ==
    /\ DatabaseOK(db, supported) /\ DatabaseOK(saved, supported) /\ saved.dialect = db.dialect
    /\ db.dialect = "sqlite" \/ step \notin {"upgrade", "revision", "down", "reverting"} => saved = db
    /\ \A b \in backups : DatabaseOK(b.image, supported) /\ Accepts(b.image) /\ b.image.dialect = "sqlite"
    /\ StepOK

LEMMA SchemaGrows ==
    ASSUME NEW r \in 0..7
    PROVE  SchemaAt(r + 1) = SchemaAt(r) \cup Adds[r + 1]
<1>1. 1..(r + 1) = (1..r) \cup {r + 1}
  OBVIOUS
<1>2. ~(r < 0) /\ ~(r + 1 < 0)
  OBVIOUS
<1> QED BY <1>1, <1>2 DEF SchemaAt

\* The parts of each revision, one after the other.
LEMMA SchemaParts ==
    /\ SchemaAt(0) = {"legacy"}
    /\ SchemaAt(1) = {"legacy", "phase1"}
    /\ SchemaAt(2) = {"legacy", "phase1", "reliability"}
    /\ SchemaAt(3) = {"legacy", "phase1", "reliability", "credentials"}
    /\ SchemaAt(4) = {"legacy", "phase1", "reliability", "credentials", "governance"} \cup Indexes
    /\ SchemaAt(5) = {"legacy", "phase1", "reliability", "credentials", "governance", "progress"} \cup Indexes
    /\ SchemaAt(6) = SchemaAt(5) /\ SchemaAt(7) = SchemaAt(5)
    /\ SchemaAt(8) = SchemaAt(5) \cup {"protocols"}
<1>1. /\ Adds[1] = {"phase1"} /\ Adds[2] = {"reliability"} /\ Adds[3] = {"credentials"}
      /\ Adds[4] = {"governance"} \cup Indexes /\ Adds[5] = {"progress"} /\ Adds[6] = Indexes
      /\ Adds[7] = {} /\ Adds[8] = {"protocols"}
  BY DEF Adds, Revision0001, Revision0002, Revision0003, Revision0004, Revision0005, Revision0006,
         Revision0007, Revision0008
<1>2. SchemaAt(0) = {"legacy"}
  <2>1. 1..0 = {}
    OBVIOUS
  <2> QED BY <2>1 DEF SchemaAt, Revision0000
<1>3. /\ SchemaAt(1) = SchemaAt(0) \cup Adds[1] /\ SchemaAt(2) = SchemaAt(1) \cup Adds[2]
      /\ SchemaAt(3) = SchemaAt(2) \cup Adds[3] /\ SchemaAt(4) = SchemaAt(3) \cup Adds[4]
      /\ SchemaAt(5) = SchemaAt(4) \cup Adds[5] /\ SchemaAt(6) = SchemaAt(5) \cup Adds[6]
      /\ SchemaAt(7) = SchemaAt(6) \cup Adds[7] /\ SchemaAt(8) = SchemaAt(7) \cup Adds[8]
  <2>1. /\ 0 \in 0..7 /\ 1 \in 0..7 /\ 2 \in 0..7 /\ 3 \in 0..7
        /\ 4 \in 0..7 /\ 5 \in 0..7 /\ 6 \in 0..7 /\ 7 \in 0..7
        /\ 0 + 1 = 1 /\ 1 + 1 = 2 /\ 2 + 1 = 3 /\ 3 + 1 = 4
        /\ 4 + 1 = 5 /\ 5 + 1 = 6 /\ 6 + 1 = 7 /\ 7 + 1 = 8
    OBVIOUS
  <2> QED BY <2>1, SchemaGrows
<1>4. /\ SchemaAt(1) = {"legacy", "phase1"}
      /\ SchemaAt(2) = {"legacy", "phase1", "reliability"}
      /\ SchemaAt(3) = {"legacy", "phase1", "reliability", "credentials"}
  BY <1>1, <1>2, <1>3
<1>5. /\ SchemaAt(4) = {"legacy", "phase1", "reliability", "credentials", "governance"} \cup Indexes
  BY <1>1, <1>3, <1>4
<1>6. SchemaAt(5) = {"legacy", "phase1", "reliability", "credentials", "governance", "progress"} \cup Indexes
  BY <1>1, <1>3, <1>5
<1>7. SchemaAt(6) = SchemaAt(5) /\ SchemaAt(7) = SchemaAt(5) /\ SchemaAt(8) = SchemaAt(5) \cup {"protocols"}
  BY <1>1, <1>3, <1>6
<1> QED BY <1>2, <1>4, <1>5, <1>6, <1>7

LEMMA RevisionParts ==
    /\ Adds[1] = {"phase1"} /\ Adds[2] = {"reliability"} /\ Adds[3] = {"credentials"}
    /\ Adds[4] = {"governance"} \cup Indexes /\ Adds[5] = {"progress"} /\ Adds[6] = Indexes
    /\ Adds[7] = {} /\ Adds[8] = {"protocols"}
BY DEF Adds, Revision0001, Revision0002, Revision0003, Revision0004, Revision0005, Revision0006,
       Revision0007, Revision0008

LEMMA RevisionList ==
    /\ Revisions = {0, 1, 2, 3, 4, 5, 6, 7, 8}
    /\ \A r \in Revisions : r = 0 \/ r - 1 \in Revisions
    /\ HeadRevision = 8 /\ Unversioned = -1
BY DEF Revisions, HeadRevision, Unversioned

\* Every revision's schema is part of the current one, which has nothing odd.
LEMMA FullParts ==
    /\ Full = SchemaAt(8) /\ Full \cap (Odd \cup Half) = {}
    /\ \A r \in Revisions : SchemaAt(r) \subseteq Full
    /\ Indexes \subseteq Full
<1>1. Full = SchemaAt(8)
  BY DEF Full, HeadRevision
<1>2. Full \cap (Odd \cup Half) = {}
  BY <1>1, SchemaParts DEF Odd, Half, Indexes
<1>3. /\ SchemaAt(0) \subseteq Full /\ SchemaAt(1) \subseteq Full /\ SchemaAt(2) \subseteq Full
      /\ SchemaAt(3) \subseteq Full /\ SchemaAt(4) \subseteq Full /\ SchemaAt(5) \subseteq Full
      /\ SchemaAt(6) \subseteq Full /\ SchemaAt(7) \subseteq Full /\ SchemaAt(8) \subseteq Full
      /\ Indexes \subseteq Full
  BY <1>1, SchemaParts
<1> QED BY <1>1, <1>2, <1>3, RevisionList

\* What each part of a schema says of its revision.
LEMMA PartAge ==
    ASSUME NEW r \in Revisions
    PROVE  /\ "legacy" \in SchemaAt(r)
           /\ "phase1" \in SchemaAt(r) <=> r >= 1
           /\ "reliability" \in SchemaAt(r) <=> r >= 2
           /\ "credentials" \in SchemaAt(r) <=> r >= 3
           /\ "governance" \in SchemaAt(r) <=> r >= 4
           /\ "uqActive" \in SchemaAt(r) <=> r >= 4
           /\ "progress" \in SchemaAt(r) <=> r >= 5
           /\ "protocols" \in SchemaAt(r) <=> r >= 8
<1>1. r \in {0, 1, 2, 3, 4, 5, 6, 7, 8}
  BY RevisionList
<1>2. CASE r \in {0, 1, 2, 3}
  BY <1>2, SchemaParts
<1>3. CASE r \in {4, 5}
  BY <1>3, SchemaParts DEF Indexes
<1>4. CASE r \in {6, 7, 8}
  BY <1>4, SchemaParts DEF Indexes
<1> QED BY <1>1, <1>2, <1>3, <1>4

LEMMA NeedsOf ==
    /\ Facts = {"credential", "ledger", "activeCall", "twoPolicies", "worker", "newProtocol",
                "activeRun", "failure", "unpriced", "position", "phase1Run", "badProgress",
                "badModel", "orphan"}
    /\ Needs["credential"] = "credentials" /\ Needs["ledger"] = "governance"
    /\ Needs["activeCall"] = "governance" /\ Needs["twoPolicies"] = "governance"
    /\ Needs["worker"] = "progress" /\ Needs["newProtocol"] = "protocols"
    /\ Needs["activeRun"] = "reliability" /\ Needs["failure"] = "reliability"
    /\ Needs["unpriced"] = "phase1" /\ Needs["position"] = "phase1"
    /\ Needs["phase1Run"] = "legacy" /\ Needs["badProgress"] = "legacy"
    /\ Needs["badModel"] = "legacy" /\ Needs["orphan"] = "legacy"
BY DEF Facts, Needs

-----------------------------------------------------------------------------
\* A revision that is not refused keeps the database in order.
LEMMA UpgradedOK ==
    ASSUME NEW sup, NEW d, DatabaseOK(d, sup), d.head < 8, ~Raises(d.head + 1, d),
           d.head = -1 => d.schema \subseteq {"torn"},
           NEW e, e = Upgraded(d.head + 1, d)
    PROVE  /\ DatabaseOK(e, sup)
           /\ e.dialect = d.dialect /\ e.head = d.head + 1 /\ "torn" \notin e.schema
           /\ e.schema \subseteq d.schema \cup Full
<1> DEFINE r == d.head + 1
           new == IF r = 0 THEN Revision0000 ELSE Adds[r]
<1>1. d \in Database /\ d.head \in {-1, 0, 1, 2, 3, 4, 5, 6, 7}
  BY DEF DatabaseOK, Database, Revisions, HeadRevision, Unversioned
<1>2. r \in Revisions
  BY <1>1 DEF Revisions, HeadRevision
<1>3. new \subseteq Full /\ new \subseteq SchemaAt(r) /\ SchemaAt(r) \subseteq new \cup (IF r = 0 THEN {} ELSE SchemaAt(d.head))
  <2>1. CASE r = 0
    BY <2>1, SchemaParts, FullParts, <1>2 DEF Revision0000
  <2>2. CASE r # 0
    <3>1. d.head \in 0..7
      BY <1>1, <2>2
    <3>2. SchemaAt(r) = SchemaAt(d.head) \cup Adds[r]
      BY <3>1, SchemaGrows
    <3> QED BY <2>2, <3>2, <1>2, FullParts
  <2> QED BY <2>1, <2>2
<1>4. /\ e.dialect = d.dialect /\ e.head = r
      /\ e.schema = (d.schema \ {"torn"}) \cup new
      /\ e.facts = IF r = 2 THEN d.facts \ {"phase1Run"} ELSE d.facts
      /\ e.repaired = IF r = 7 THEN TRUE ELSE IF r = 4 THEN FALSE ELSE d.repaired
      /\ DOMAIN e = DOMAIN d
  BY <1>1 DEF Upgraded, Database
<1> HIDE DEF new
<1>5. e \in Database
  BY <1>1, <1>2, <1>3, <1>4 DEF Database, Upgraded
<1>6. "torn" \notin e.schema /\ e.schema \subseteq d.schema \cup Full
  BY <1>3, <1>4, FullParts DEF Half
<1>7. Possible(e.schema, e.facts)
  <2>1. Possible(d.schema, d.facts) /\ d.facts \subseteq Facts
    BY <1>1 DEF DatabaseOK, Database
  <2>2. \A f \in e.facts : Needs[f] \in e.schema
    <3>1. e.facts \subseteq d.facts
      BY <1>4
    <3>2. \A f \in Facts : Needs[f] # "torn"
      BY NeedsOf
    <3> QED BY <2>1, <3>1, <3>2, <1>4 DEF Possible
  <2>10. /\ "phase1" \in new => r = 1
         /\ "reliability" \in new => r = 2
         /\ "uqActive" \in new => r \in {4, 6}
    BY <1>1, RevisionParts DEF new, Revision0000, Indexes
  <2>3. "twoPolicies" \in e.facts => "uqActive" \notin e.schema
    <3> SUFFICES ASSUME "twoPolicies" \in e.facts, "uqActive" \in e.schema PROVE FALSE
      OBVIOUS
    <3>1. "twoPolicies" \in d.facts
      BY <1>4
    <3>2. "uqActive" \in new /\ "governance" \in d.schema
      BY <1>4, <2>1, <3>1, NeedsOf DEF Possible
    <3>3. r = 4
      BY <2>10, <3>1, <3>2 DEF Raises
    <3>4. d.head = 3 /\ 3 \in Revisions
      BY <1>1, <3>3, RevisionList
    <3>5. "governance" \notin SchemaAt(3) /\ "governance" \in Full
      BY PartAge, FullParts, RevisionList
    <3>6. (d.schema \cap Full) \ SchemaAt(3) \subseteq MayExceed(3)
      BY <3>4 DEF DatabaseOK
    <3> QED BY <3>2, <3>5, <3>6 DEF MayExceed
  <2>4. "badModel" \in e.facts => "phase1" \notin e.schema
    BY <1>4, <2>1, <2>10 DEF Possible, Raises
  <2>5. e.facts \cap {"phase1Run", "badProgress"} # {} => "reliability" \notin e.schema
    BY <1>4, <2>1, <2>10 DEF Possible, Raises
  <2> QED BY <2>2, <2>3, <2>4, <2>5 DEF Possible
<1>8. /\ SchemaAt(r) \ e.schema \subseteq MayLack(r)
      /\ (e.schema \cap Full) \ SchemaAt(r) \subseteq MayExceed(r)
  <2>1. CASE r = 0
    <3>1. d.head = -1 /\ d.schema \subseteq {"torn"}
      BY <1>1, <2>1
    <3> QED BY <1>3, <1>4, <2>1, <3>1
  <2>2. CASE r # 0
    <3>1. /\ d.head \in {0, 1, 2, 3, 4, 5, 6, 7}
          /\ SchemaAt(d.head) \ d.schema \subseteq MayLack(d.head)
          /\ (d.schema \cap Full) \ SchemaAt(d.head) \subseteq MayExceed(d.head)
      BY <1>1, <2>2 DEF DatabaseOK
    <3>2. SchemaAt(d.head) \subseteq SchemaAt(r)
      BY <3>1, SchemaGrows
    <3>3. ASSUME NEW x \in SchemaAt(r) \ e.schema PROVE x \in MayLack(r)
      <4>1. x \in SchemaAt(d.head) /\ x \notin new /\ x \notin d.schema
        BY <1>2, <1>3, <1>4, <2>2, FullParts DEF Half
      <4>2. d.head \in {4, 5} /\ x \in Indexes
        BY <3>1, <4>1 DEF MayLack
      <4>3. d.head # 5
        BY <4>1, <4>2, RevisionParts DEF new
      <4> QED BY <4>2, <4>3 DEF MayLack
    <3>4. ASSUME NEW x \in (e.schema \cap Full) \ SchemaAt(r) PROVE x \in MayExceed(r)
      <4>1. x \in d.schema \cap Full /\ x \notin SchemaAt(d.head)
        BY <1>3, <1>4, <3>2
      <4>2. d.head \in {6, 7} /\ x = "protocols"
        BY <3>1, <4>1 DEF MayExceed
      <4>3. d.head # 7
        BY <4>2, PartAge, RevisionList
      <4> QED BY <4>2, <4>3 DEF MayExceed
    <3> QED BY <3>3, <3>4
  <2> QED BY <2>1, <2>2
<1>9. ASSUME e.head >= 7 PROVE e.repaired
  <2>1. r = 7 \/ (r = 8 /\ d.head >= 7)
    BY <1>1, <1>4, <1>9
  <2>2. CASE r = 7
    BY <1>4, <2>2
  <2>3. CASE r = 8 /\ d.head >= 7
    <3>1. d.repaired
      BY <2>3 DEF DatabaseOK
    <3>2. r # 7 /\ r # 4
      BY <2>3
    <3>3. e.repaired = d.repaired
      BY <1>4, <3>2
    <3> QED BY <3>1, <3>3
  <2> QED BY <2>1, <2>2, <2>3
<1>10. sup => e.schema \cap Odd = {}
  BY <1>6, FullParts DEF DatabaseOK
<1>11. e.dialect = "postgresql" => e.schema \cap Half = {}
  BY <1>4, <1>6, FullParts DEF DatabaseOK
<1> QED BY <1>4, <1>5, <1>6, <1>7, <1>8, <1>9, <1>10, <1>11 DEF DatabaseOK

\* prepare_database accepts no SQLite database with anything odd in it.
LEMMA AcceptedSound ==
    ASSUME NEW d \in Database, d.dialect = "sqlite", Accepts(d)
    PROVE  d.schema \cap (Odd \cup Half) = {}
<1>1. CASE d.schema = {}
  BY <1>1
<1>2. CASE d.schema # {}
  <2>1. SqliteSound(d) /\ Differences(d) \cap ({"drift"} \cup Half) = {}
    <3>1. Full \cap ({"drift"} \cup Half) = {}
      BY FullParts DEF Odd
    <3>2. CASE d.head = HeadRevision
      BY <3>2 DEF Accepts, CurrentOK
    <3>3. CASE d.head # HeadRevision /\ HistoricalOK(d)
      <4>1. SqliteSound(d) /\ (Differences(d) = Full \ SchemaAt(d.head) \/ KnownGap(d))
        BY <3>3 DEF HistoricalOK
      <4>2. CASE Differences(d) = Full \ SchemaAt(d.head)
        BY <3>1, <4>1, <4>2
      <4>3. CASE KnownGap(d)
        <5>1. Differences(d) \ (Full \ SchemaAt(d.head)) \subseteq Full
          BY <4>3, FullParts DEF KnownGap
        <5> QED BY <3>1, <4>1, <5>1
      <4> QED BY <4>1, <4>2, <4>3
    <3>4. CASE Adoptable(d)
      BY <3>1, <3>4 DEF Adoptable
    <3> QED BY <1>2, <3>2, <3>3, <3>4 DEF Accepts
  <2> QED BY <2>1 DEF SqliteSound, DdlModifiersSupported, TableOptionsSupported, StructureSupported,
             ChecksSupported, Differences, Odd
<1> QED BY <1>1, <1>2

\* The stamp of an adopted database fits its schema.
LEMMA StampOK ==
    ASSUME NEW sup, NEW d, DatabaseOK(d, sup), Accepts(d), d.head = Unversioned, d.schema # {},
           NEW e, e = [d EXCEPT !.head = StampFor(d.schema)]
    PROVE  /\ DatabaseOK(e, sup) /\ e.head \in Revisions /\ d.dialect = "sqlite"
           /\ e.schema = d.schema /\ e.dialect = d.dialect
<1>1. d \in Database /\ Adoptable(d)
  BY DEF DatabaseOK, Accepts, Unversioned, HeadRevision
<1>2. d.schema \subseteq Full
  <2>1. d.schema \cap (Odd \cup Half) = {}
    BY <1>1, AcceptedSound DEF Adoptable
  <2> QED BY <1>1, <2>1 DEF Database
<1>3. PICK r \in {0, 1, 2, 3, 4, 7, 8} : Differences(d) = Full \ SchemaAt(r)
  BY <1>1 DEF Adoptable, HeadRevision
<1>4. d.schema = SchemaAt(r)
  <2>1. r \in Revisions
    BY RevisionList
  <2>2. Full \ d.schema = Full \ SchemaAt(r)
    BY <1>2, <1>3, FullParts DEF Differences, Odd
  <2> QED BY <1>2, <2>1, <2>2, FullParts
<1> DEFINE h == StampFor(d.schema)
<1>5. (h = 6 /\ r \in {7, 8}) \/ (h \in {0, 1, 2, 3, 4} /\ d.schema = SchemaAt(h))
  <2>1. CASE r \in {7, 8}
    BY <1>4, <2>1, FullParts DEF StampFor
  <2>2. CASE r \in {0, 1, 2, 3, 4}
    <3>1. \E q \in 0..4 : d.schema = SchemaAt(q)
      BY <1>4, <2>2
    <3>2. "progress" \notin d.schema /\ "progress" \in SchemaAt(7) /\ "progress" \in Full
      BY <1>4, <2>2, PartAge, RevisionList, FullParts
    <3>3. h = CHOOSE q \in 0..4 : d.schema = SchemaAt(q)
      BY <3>2 DEF StampFor
    <3> QED BY <3>1, <3>3
  <2> QED BY <2>1, <2>2
<1> HIDE DEF h
<1>6. h \in Revisions /\ h >= 0 /\ h < 7
  BY <1>5, RevisionList
<1>7. /\ SchemaAt(h) \ d.schema \subseteq MayLack(h)
      /\ (d.schema \cap Full) \ SchemaAt(h) \subseteq MayExceed(h)
  <2>1. CASE h = 6 /\ r \in {7, 8}
    BY <1>4, <2>1, SchemaParts DEF MayExceed
  <2>2. CASE d.schema = SchemaAt(h)
    BY <2>2
  <2> QED BY <1>5, <2>1, <2>2
<1>8. /\ e \in Database /\ e.head = h /\ e.schema = d.schema /\ e.facts = d.facts
      /\ e.dialect = d.dialect
  BY <1>1, <1>6 DEF Database, h
<1>9. d.dialect = "sqlite"
  BY <1>1 DEF Adoptable
<1>10. DatabaseOK(e, sup)
  <2>1. ~(e.head >= 7)
    BY <1>6, <1>8, RevisionList
  <2>2. /\ SchemaAt(e.head) \ e.schema \subseteq MayLack(e.head)
        /\ (e.schema \cap Full) \ SchemaAt(e.head) \subseteq MayExceed(e.head)
    BY <1>7, <1>8
  <2>3. Possible(e.schema, e.facts) /\ (sup => e.schema \cap Odd = {}) /\ e.dialect # "postgresql"
    BY <1>8, <1>9 DEF DatabaseOK
  <2> QED BY <1>8, <2>1, <2>2, <2>3 DEF DatabaseOK
<1> QED BY <1>6, <1>8, <1>9, <1>10

LEMMA CleanedFields ==
    ASSUME NEW d \in Database
    PROVE  /\ Cleaned(d) \in Database
           /\ Cleaned(d).schema = d.schema /\ Cleaned(d).head = d.head
           /\ Cleaned(d).dialect = d.dialect /\ Cleaned(d).facts = {}
           /\ Differences(Cleaned(d)) = Differences(d)
BY DEF Cleaned, Database, Differences

\* Fewer rows are never an obstacle, and only three kinds of rows are one.
LEMMA RowsBlock ==
    ASSUME NEW d \in Database
    PROVE  /\ Accepts(d) => Accepts(Cleaned(d))
           /\ Accepts(Cleaned(d)) /\ d.facts \cap {"badModel", "twoPolicies", "orphan"} = {} => Accepts(d)
<1> DEFINE c == Cleaned(d)
<1>1. /\ c.schema = d.schema /\ c.head = d.head /\ c.dialect = d.dialect /\ c.facts = {}
      /\ Differences(c) = Differences(d)
  BY CleanedFields
<1> HIDE DEF c
<1>2. /\ SqliteSound(d) => SqliteSound(c)
      /\ SqliteSound(c) /\ "badModel" \notin d.facts /\ "orphan" \notin d.facts => SqliteSound(d)
  BY <1>1 DEF SqliteSound, DdlModifiersSupported, TableOptionsSupported, StructureSupported,
     ChecksSupported
<1>3. /\ KnownGap(d) => KnownGap(c)
      /\ KnownGap(c) /\ "twoPolicies" \notin d.facts => KnownGap(d)
  BY <1>1 DEF KnownGap
<1>4. /\ HistoricalOK(d) => HistoricalOK(c)
      /\ HistoricalOK(c) /\ "badModel" \notin d.facts /\ "orphan" \notin d.facts /\ "twoPolicies" \notin d.facts => HistoricalOK(d)
  BY <1>1, <1>2, <1>3 DEF HistoricalOK
<1>5. /\ Adoptable(d) => Adoptable(c)
      /\ Adoptable(c) /\ "badModel" \notin d.facts /\ "orphan" \notin d.facts => Adoptable(d)
  BY <1>1, <1>2 DEF Adoptable
<1>6. /\ CurrentOK(d) => CurrentOK(c)
      /\ CurrentOK(c) /\ "badModel" \notin d.facts /\ "orphan" \notin d.facts => CurrentOK(d)
  BY <1>1, <1>2 DEF CurrentOK
<1>7. /\ Accepts(d) => Accepts(c)
      /\ Accepts(c) /\ "badModel" \notin d.facts /\ "orphan" \notin d.facts /\ "twoPolicies" \notin d.facts => Accepts(d)
  BY <1>1, <1>4, <1>5, <1>6 DEF Accepts
<1> QED BY <1>7 DEF c

\* A versioned database that is exactly its revision is accepted.
LEMMA ExactAccepted ==
    ASSUME NEW d \in Database, Exact(d)
    PROVE  Accepts(Cleaned(d))
<1>0. /\ d.head \in Revisions /\ Differences(d) = Full \ SchemaAt(d.head)
      /\ d.dialect = "sqlite" => d.schema = SchemaAt(d.head)
  BY DEF Exact
<1> DEFINE c == Cleaned(d)
<1>1. /\ c.schema = d.schema /\ c.head = d.head /\ c.dialect = d.dialect /\ c.facts = {}
      /\ Differences(c) = Differences(d)
  BY CleanedFields
<1> HIDE DEF c
<1>2. c.dialect = "sqlite" => SqliteSound(c)
  <2>1. c.dialect = "sqlite" => c.schema \cap (Odd \cup Half) = {}
    BY <1>0, <1>1, FullParts
  <2> QED BY <1>1, <2>1 DEF SqliteSound, DdlModifiersSupported, TableOptionsSupported,
             StructureSupported, ChecksSupported, Odd
<1>3. CASE c.head = HeadRevision
  <2>1. Differences(c) = {}
    BY <1>0, <1>1, <1>3 DEF Full
  <2> QED BY <1>2, <1>3, <2>1 DEF Accepts, CurrentOK, c
<1>4. CASE c.head # HeadRevision
  <2>1. c.head # Unversioned
    BY <1>0, <1>1, RevisionList
  <2>2. HistoricalOK(c)
    BY <1>0, <1>1, <1>2 DEF HistoricalOK
  <2> QED BY <1>4, <2>1, <2>2 DEF Accepts, c
<1> QED BY <1>3, <1>4

LEMMA ExactSchema ==
    ASSUME NEW sup, NEW d, DatabaseOK(d, sup), d.head = 8, d.schema \cap (Odd \cup Half) = {}
    PROVE  d.schema = Full /\ Differences(d) = {}
<1>1. d.schema \subseteq Full \cup Odd \cup Half
  BY DEF DatabaseOK, Database
<1>2. Full \ d.schema = {}
  BY FullParts DEF DatabaseOK, MayLack
<1> QED BY <1>1, <1>2 DEF Differences, Odd

-----------------------------------------------------------------------------
LEMMA MigInitInv == MigInit => MigIInv
<1> SUFFICES ASSUME MigInit PROVE MigIInv
  OBVIOUS
<1>1. PICK dialect \in {"sqlite", "postgresql"}, r \in Revisions \cup {Unversioned},
           gap \in SUBSET Indexes, odd \in {{}} \cup {{o} : o \in Odd}, versioned \in BOOLEAN :
         /\ gap # {} => r \in {4, 5}
         /\ r = Unversioned => odd = {}
         /\ \E facts \in {{}} \cup {{f} : f \in Facts} :
              /\ Possible(SchemaAt(r) \ gap, facts)
              /\ "orphan" \in facts => dialect = "sqlite"
              /\ db = [dialect |-> dialect, head |-> IF versioned THEN r ELSE Unversioned,
                       schema |-> (SchemaAt(r) \ gap) \cup odd, facts |-> facts,
                       repaired |-> r < 4 \/ (versioned /\ r >= 7)]
         /\ supported = (odd = {} /\ (gap # {} => versioned))
  BY DEF MigInit
<1>2. PICK facts \in {{}} \cup {{f} : f \in Facts} :
              /\ Possible(SchemaAt(r) \ gap, facts)
              /\ "orphan" \in facts => dialect = "sqlite"
              /\ db = [dialect |-> dialect, head |-> IF versioned THEN r ELSE Unversioned,
                       schema |-> (SchemaAt(r) \ gap) \cup odd, facts |-> facts,
                       repaired |-> r < 4 \/ (versioned /\ r >= 7)]
  BY <1>1
<1>3. /\ db.dialect = dialect /\ db.head = (IF versioned THEN r ELSE Unversioned)
      /\ db.schema = (SchemaAt(r) \ gap) \cup odd /\ db.facts = facts
      /\ db.repaired = (r < 4 \/ (versioned /\ r >= 7))
  BY <1>2
<1>4. r \in Revisions \/ (r = -1 /\ SchemaAt(r) = {} /\ odd = {} /\ gap = {})
  BY <1>1 DEF SchemaAt, Unversioned
<1>5. SchemaAt(r) \subseteq Full /\ odd \subseteq Odd
  BY <1>4, FullParts
<1>6. db \in Database
  <2>1. facts \subseteq Facts
    OBVIOUS
  <2>2. (SchemaAt(r) \ gap) \cup odd \subseteq Full \cup Odd \cup Half
    BY <1>5
  <2>3. (r < 4 \/ (versioned /\ r >= 7)) \in BOOLEAN
    OBVIOUS
  <2>4. (IF versioned THEN r ELSE Unversioned) \in {Unversioned} \cup Revisions
    OBVIOUS
  <2> QED BY <1>2, <2>1, <2>2, <2>3, <2>4 DEF Database
<1>7. Possible(db.schema, db.facts)
  <2>1. "uqActive" \notin odd /\ "phase1" \notin odd /\ "reliability" \notin odd
    BY <1>5 DEF Odd
  <2> QED BY <1>2, <1>3, <2>1 DEF Possible
<1>8. db.schema \cap Full = SchemaAt(r) \ gap
  BY <1>3, <1>5, FullParts
<1>9. DatabaseOK(db, supported)
  <2>1. db.head >= 0 => /\ SchemaAt(db.head) \ db.schema \subseteq MayLack(db.head)
                        /\ (db.schema \cap Full) \ SchemaAt(db.head) \subseteq MayExceed(db.head)
    <3> SUFFICES ASSUME db.head >= 0 
                 PROVE  /\ SchemaAt(db.head) \ db.schema \subseteq MayLack(db.head)
                        /\ (db.schema \cap Full) \ SchemaAt(db.head) \subseteq MayExceed(db.head)
      OBVIOUS
    <3>1. db.head = r
      BY <1>3 DEF Unversioned
    <3>2. SchemaAt(r) \ db.schema \subseteq gap /\ (db.schema \cap Full) \ SchemaAt(r) = {}
      BY <1>3, <1>8
    <3>3. gap \subseteq MayLack(r)
      BY <1>1 DEF MayLack
    <3> QED BY <3>1, <3>2, <3>3
  <2>2. ASSUME db.head >= 7 PROVE db.repaired
    <3>1. versioned /\ r >= 7
      BY <1>3, <2>2 DEF Unversioned
    <3> QED BY <1>3, <3>1
  <2>3. db.schema \cap Half = {}
    BY <1>3, <1>5, FullParts DEF Odd, Half
  <2>4. supported => db.schema \cap Odd = {}
    BY <1>1, <1>3, <1>5, FullParts
  <2> QED BY <1>6, <1>7, <2>1, <2>2, <2>3, <2>4 DEF DatabaseOK
<1>10. ASSUME supported PROVE Accepts(Cleaned(db)) \/ (db.dialect = "postgresql" /\ db.head = Unversioned)
  <2> DEFINE c == Cleaned(db)
  <2>1. /\ c.schema = db.schema /\ c.head = db.head /\ c.dialect = db.dialect /\ c.facts = {}
        /\ Differences(c) = Differences(db)
    BY <1>6, CleanedFields
  <2> HIDE DEF c
  <2>2. /\ odd = {} /\ (gap # {} => versioned) /\ db.schema = SchemaAt(r) \ gap
    BY <1>1, <1>3, <1>10
  <2>3. SqliteSound(c)
    <3>1. c.schema \cap (Odd \cup Half) = {}
      BY <1>5, <2>1, <2>2, FullParts
    <3> QED BY <2>1, <3>1 DEF SqliteSound, DdlModifiersSupported, TableOptionsSupported,
               StructureSupported, ChecksSupported, Odd
  <2>4. Differences(c) = Full \ (SchemaAt(r) \ gap)
    BY <1>5, <2>1, <2>2, FullParts DEF Differences, Odd
  <2>5. CASE db.schema = {}
    <3>1. r \notin Revisions
      BY <1>1, <2>2, <2>5, PartAge DEF Indexes
    <3>2. c.head # HeadRevision
      BY <1>3, <1>4, <2>1, <3>1, RevisionList
    <3> QED BY <2>1, <2>5, <3>2 DEF Accepts, c
  <2>6. CASE db.schema # {} /\ ~versioned
    <3>1. r \in Revisions /\ gap = {}
      BY <1>4, <2>2, <2>6
    <3>2. \E q \in (0..4) \cup {7, HeadRevision} : Differences(c) = Full \ SchemaAt(q)
      <4>1. r \in 0..4 \/ r \in {5, 6, 7} \/ r = HeadRevision
        BY <3>1, RevisionList
      <4>2. r \in {5, 6, 7} => SchemaAt(r) = SchemaAt(7)
        BY SchemaParts
      <4> QED BY <2>4, <3>1, <4>1, <4>2
    <3>3. c.head = Unversioned /\ c.head # HeadRevision
      BY <1>3, <2>1, <2>6 DEF Unversioned, HeadRevision
    <3>4. CASE c.dialect = "sqlite"
      BY <2>3, <3>2, <3>3, <3>4 DEF Accepts, Adoptable, c
    <3>5. CASE c.dialect # "sqlite"
      BY <1>3, <2>1, <3>3, <3>5
    <3> QED BY <3>4, <3>5
  <2>7. CASE db.schema # {} /\ versioned
    <3>1. c.head = r /\ r \in Revisions /\ c.head # Unversioned
      BY <1>3, <1>4, <2>1, <2>2, <2>7, RevisionList
    <3>2. CASE gap = {}
      <4>1. Differences(db) = Full \ SchemaAt(db.head) /\ db.schema = SchemaAt(db.head)
        BY <2>1, <2>2, <2>4, <3>1, <3>2
      <4> QED BY <1>6, <2>1, <3>1, <4>1, ExactAccepted DEF Exact
    <3>3. CASE gap # {}
      <4>1. r \in {4, 5} /\ c.head # HeadRevision
        BY <1>1, <3>1, <3>3 DEF HeadRevision
      <4>2. Indexes \subseteq SchemaAt(r)
        BY <4>1, SchemaParts
      <4>3. Differences(c) \ (Full \ SchemaAt(r)) = gap
        BY <1>5, <2>4, <4>2
      <4>4. KnownGap(c)
        BY <2>1, <2>4, <3>1, <3>3, <4>1, <4>3 DEF KnownGap
      <4> QED BY <2>3, <3>1, <4>1, <4>4 DEF Accepts, HistoricalOK, c
    <3> QED BY <3>2, <3>3
  <2> QED BY <2>5, <2>6, <2>7
<1>11. saved = db /\ step = "idle" /\ backups = {}
  BY DEF MigInit
<1>12. StepOK
  BY <1>10, <1>11 DEF StepOK, Acceptable, Steps
<1> QED BY <1>9, <1>11, <1>12 DEF MigIInv

LEMMA Dialects ==
    ASSUME NEW sup, NEW d, DatabaseOK(d, sup)
    PROVE  /\ d \in Database /\ d.dialect \in {"sqlite", "postgresql"}
           /\ d.head \in {Unversioned} \cup Revisions /\ d.head \in Int
           /\ d.head = Unversioned \/ d.head \in Revisions
BY DEF DatabaseOK, Database, Unversioned, Revisions, HeadRevision

LEMMA PrepareStep == ASSUME MigIInv, Prepare PROVE MigIInv'
<1>1. step = "idle" /\ UNCHANGED supported /\ DatabaseOK(db, supported)
  BY DEF MigIInv, Prepare
<1>2. CASE ~Accepts(db)
  <2>1. step' = "refused" /\ UNCHANGED <<db, saved, backups, origin, supported>>
    BY <1>2 DEF Prepare
  <2>2. StepOK'
    BY <1>1, <2>1 DEF MigIInv, StepOK, Acceptable, Steps
  <2> QED BY <1>1, <2>1, <2>2 DEF MigIInv
<1>3. CASE Accepts(db)
  <2>1. /\ db' = IF db.head = Unversioned /\ db.schema # {}
                   THEN [db EXCEPT !.head = StampFor(db.schema)] ELSE db
        /\ origin' = db /\ saved' = db' /\ step' = "upgrade"
    BY <1>3 DEF Prepare, Commits
  <2>2. IF BacksUp(db) THEN \E n : backups' = backups \cup {[file |-> n, image |-> db]}
                       ELSE backups' = backups
    BY <1>3 DEF Prepare
  <2>3. /\ DatabaseOK(db', supported) /\ db'.dialect = db.dialect /\ db'.schema = db.schema
        /\ db'.head = Unversioned => db.schema = {}
        /\ db' = db \/ db.dialect = "sqlite"
        /\ db.head = HeadRevision => db' = db
    <3>1. CASE db.head = Unversioned /\ db.schema # {}
      <4>1. db' = [db EXCEPT !.head = StampFor(db.schema)]
        BY <2>1, <3>1
      <4>2. /\ DatabaseOK(db', supported) /\ db'.head \in Revisions /\ db.dialect = "sqlite"
            /\ db'.schema = db.schema /\ db'.dialect = db.dialect
        BY <1>1, <1>3, <3>1, <4>1, StampOK
      <4> QED BY <3>1, <4>2, RevisionList
    <3>2. CASE ~(db.head = Unversioned /\ db.schema # {})
      BY <1>1, <2>1, <3>2
    <3> QED BY <3>1, <3>2
  <2>4. \A b \in backups' : /\ DatabaseOK(b.image, supported) /\ Accepts(b.image)
                            /\ b.image.dialect = "sqlite"
    BY <1>1, <1>3, <2>2 DEF MigIInv, BacksUp
  <2>5. db.dialect = "sqlite" => db.schema \cap (Odd \cup Half) = {}
    BY <1>1, <1>3, Dialects, AcceptedSound
  <2>6. db.dialect = "sqlite" => Rescued(db, backups') \/ (Accepts(db) /\ db.head = HeadRevision)
    <3>1. CASE BacksUp(db)
      <4>1. PICK n : backups' = backups \cup {[file |-> n, image |-> db]}
        BY <2>2, <3>1
      <4>2. [file |-> n, image |-> db] \in backups' /\ [file |-> n, image |-> db].image = db
        BY <4>1
      <4> QED BY <1>3, <4>2 DEF Rescued
    <3>2. CASE ~BacksUp(db)
      BY <1>3, <3>2 DEF BacksUp, Rescued
    <3> QED BY <3>1, <3>2
  <2>7. StepOK'
    BY <1>3, <2>1, <2>3, <2>5, <2>6 DEF StepOK, UpOK, Half, Steps
  <2> QED BY <1>1, <2>1, <2>3, <2>4, <2>7 DEF MigIInv
<1> QED BY <1>2, <1>3

\* The upgrade fails, or its process dies.
LEMMA GiveUpStep ==
    ASSUME MigIInv, step \in {"upgrade", "revision"}, NEW next \in {"idle", "refused"}, GiveUp(next),
           UNCHANGED <<backups, origin, supported>>
    PROVE  MigIInv'
<1>1. db' = saved /\ saved' = saved /\ step' = next /\ UpOK
  BY DEF GiveUp, MigIInv, StepOK
<1>2. Acceptable'
  <2>1. CASE db.dialect = "postgresql"
    <3>1. Accepts(Cleaned(saved))
      BY <1>1, <2>1, Dialects, RowsBlock DEF MigIInv, UpOK
    <3> QED BY <1>1, <3>1 DEF Acceptable
  <2>2. CASE db.dialect = "sqlite"
    <3>1. db' = db
      BY <1>1, <2>2 DEF MigIInv
    <3>2. Rescued(origin, backups) \/ Accepts(Cleaned(db))
      BY <1>1, <2>2, Dialects, RowsBlock DEF MigIInv, UpOK
    <3> QED BY <3>1, <3>2 DEF Acceptable
  <2> QED BY <2>1, <2>2, Dialects DEF MigIInv
<1>3. StepOK'
  BY <1>1, <1>2 DEF StepOK, Steps
<1> QED BY <1>1, <1>3 DEF MigIInv

\* So does the downgrade; on PostgreSQL nothing of it is left.
LEMMA GiveUpDown ==
    ASSUME MigIInv, step \in {"down", "reverting"}, NEW next \in {"idle", "lowered"}, GiveUp(next),
           next = "lowered" => step = "down", UNCHANGED <<backups, origin, supported>>
    PROVE  MigIInv'
<1>1. db' = saved /\ saved' = saved /\ step' = next /\ DownOK
  BY DEF GiveUp, MigIInv, StepOK
<1>2. saved \in Database /\ saved.dialect \in {"sqlite", "postgresql"} /\ saved.dialect = db.dialect
      /\ DatabaseOK(saved, supported)
  BY Dialects DEF MigIInv
<1>3. ("cut" \notin saved.schema => Exact(saved)) /\ (saved.dialect = "postgresql" => Exact(saved))
  <2>1. CASE saved.dialect = "postgresql"
    BY <1>1, <1>2, <2>1 DEF DownOK
  <2>2. CASE saved.dialect = "sqlite"
    <3>1. saved = db
      BY <1>2, <2>2 DEF MigIInv
    <3>2. "cut" \notin db.schema => Mended(db) = db
      BY <1>2, <3>1 DEF Mended, Database
    <3> QED BY <1>1, <2>2, <3>1, <3>2 DEF DownOK
  <2> QED BY <1>2, <2>1, <2>2
<1>4. Acceptable'
  <2>1. CASE Exact(saved)
    BY <1>1, <1>2, <2>1, ExactAccepted DEF Acceptable
  <2>2. CASE ~Exact(saved)
    BY <1>1, <1>2, <1>3, <2>2 DEF Acceptable
  <2> QED BY <2>1, <2>2
<1>5. next = "lowered" => DownOK'
  <2> SUFFICES ASSUME next = "lowered" PROVE DownOK'
    OBVIOUS
  <2>1. "cut" \notin saved.schema
    <3>1. CASE saved.dialect = "postgresql"
      BY <1>2, <3>1 DEF DatabaseOK, Half
    <3>2. CASE saved.dialect = "sqlite"
      BY <1>1, <1>2, <3>2 DEF MigIInv, DownOK
    <3> QED BY <1>2, <3>1, <3>2
  <2>2. Exact(saved) /\ Mended(saved) = saved
    BY <1>2, <1>3, <2>1 DEF Mended, Database
  <2> QED BY <1>1, <2>1, <2>2 DEF DownOK
<1>6. StepOK'
  BY <1>1, <1>4, <1>5 DEF StepOK, Steps
<1> QED BY <1>1, <1>2, <1>6 DEF MigIInv

\* Half a revision on SQLite.
WithPart(d, part) == [d EXCEPT !.schema = d.schema \cup part]

LEMMA PartOK ==
    ASSUME NEW sup, NEW d, DatabaseOK(d, sup), d.dialect = "sqlite", NEW part,
           \/ part \in {{"torn"}, {"cut"}}
           \/ d.head = 5 /\ part \subseteq Indexes /\ ~Raises(d.head + 1, d),
           NEW e, e = WithPart(d, part)
    PROVE  /\ DatabaseOK(e, sup) /\ e.dialect = d.dialect /\ e.head = d.head /\ e.facts = d.facts
           /\ e.schema = d.schema \cup part
<1>1. d \in Database
  BY DEF DatabaseOK
<1>2. part \subseteq Full \cup Half /\ part \cap Odd = {}
  BY FullParts DEF Half, Odd, Indexes
<1>3. /\ e \in Database /\ e.dialect = d.dialect /\ e.head = d.head /\ e.facts = d.facts
      /\ e.schema = d.schema \cup part /\ e.repaired = d.repaired
  BY <1>1, <1>2 DEF Database, WithPart
<1>4. Possible(e.schema, e.facts)
  <2>1. "phase1" \notin part /\ "reliability" \notin part
    BY DEF Indexes
  <2>2. "uqActive" \in part => "twoPolicies" \notin d.facts
    BY DEF Raises
  <2> QED BY <1>3, <2>1, <2>2 DEF DatabaseOK, Possible
<1>5. e.head >= 0 => /\ SchemaAt(e.head) \ e.schema \subseteq MayLack(e.head)
                     /\ (e.schema \cap Full) \ SchemaAt(e.head) \subseteq MayExceed(e.head)
  <2>1. (part \cap Full) \subseteq {} \/ (d.head = 5 /\ part \subseteq SchemaAt(5))
    BY FullParts, SchemaParts DEF Half
  <2> QED BY <1>3, <2>1 DEF DatabaseOK
<1>6. e.head >= 7 => e.repaired
  <2>1. d.head >= 7 => d.repaired
    BY DEF DatabaseOK
  <2> QED BY <1>3, <2>1
<1>7. sup => e.schema \cap Odd = {}
  BY <1>2, <1>3 DEF DatabaseOK
<1>8. e.dialect # "postgresql"
  BY <1>3
<1> QED BY <1>3, <1>4, <1>5, <1>6, <1>7, <1>8 DEF DatabaseOK

LEMMA BeginStep == ASSUME MigIInv, BeginRevision PROVE MigIInv'
<1> DEFINE r == db.head + 1
<1>1. /\ step = "upgrade" /\ db.head < 8 /\ UNCHANGED <<backups, origin, supported>> /\ UpOK
      /\ DatabaseOK(db, supported)
  BY DEF BeginRevision, HeadRevision, MigIInv, StepOK
<1>2. CASE Raises(r, db)
  BY <1>1, <1>2, GiveUpStep DEF BeginRevision
<1>3. CASE ~Raises(r, db) /\ UNCHANGED db
  <2>1. step' = "revision" /\ saved' = saved
    BY <1>3 DEF BeginRevision, CommitsAtOnce, MigIInv
  <2>2. UpOK'
    BY <1>1, <1>3, <2>1 DEF UpOK, BeginRevision
  <2>3. StepOK'
    BY <2>1, <2>2 DEF StepOK, Steps
  <2> QED BY <1>1, <1>3, <2>1, <2>3 DEF MigIInv
<1>4. CASE ~Raises(r, db) /\ db' # db
  <2>1. /\ step' = "revision" /\ db.dialect = "sqlite" /\ saved' = db'
        /\ \E part \in IF r = 6 THEN SUBSET (Indexes \ db.schema) ELSE {{"torn"}} :
              db' = [db EXCEPT !.schema = db.schema \cup part]
    BY <1>1, <1>4, Dialects DEF BeginRevision, CommitsAtOnce
  <2>2. PICK part : /\ IF r = 6 THEN part \subseteq Indexes \ db.schema ELSE part = {"torn"}
                    /\ db' = [db EXCEPT !.schema = db.schema \cup part]
    BY <2>1
  <2>3. part = {"torn"} \/ (db.head = 5 /\ part \subseteq Indexes)
    BY <1>1, <2>2, Dialects
  <2>4. /\ DatabaseOK(db', supported) /\ db'.dialect = db.dialect /\ db'.head = db.head
        /\ db'.facts = db.facts /\ db'.schema = db.schema \cup part
    <3>1. DatabaseOK(db, supported) /\ db' = WithPart(db, part)
      BY <1>1, <2>2 DEF WithPart
    <3>2. \/ part \in {{"torn"}, {"cut"}}
          \/ db.head = 5 /\ part \subseteq Indexes /\ ~Raises(db.head + 1, db)
      BY <1>4, <2>3
    <3>3. db.dialect = "sqlite"
      BY <2>1
    <3> QED BY ONLY <3>1, <3>2, <3>3, PartOK
  <2>5. /\ part \cap (Odd \cup {"cut"}) = {}
        /\ db'.head = Unversioned => db'.schema \subseteq {"torn"}
    <3>1. part \cap (Odd \cup {"cut"}) = {}
      BY <2>3 DEF Odd, Indexes
    <3>2. db.head = Unversioned => part = {"torn"} /\ db.schema \subseteq {"torn"}
      BY <1>1, <2>3 DEF UpOK, Unversioned
    <3> QED BY <2>4, <3>1, <3>2
  <2>6. ~Raises(db'.head + 1, db') /\ db'.head < HeadRevision
    BY <1>1, <1>4, <2>4 DEF Raises, HeadRevision
  <2>7. db'.schema \cap (Odd \cup {"cut"}) = {} /\ Rescued(origin, backups)
    BY <1>1, <2>1, <2>4, <2>5 DEF UpOK, HeadRevision
  <2>8. UpOK'
    BY <1>1, <2>1, <2>4, <2>5, <2>6, <2>7 DEF UpOK
  <2>9. StepOK'
    BY <2>1, <2>8 DEF StepOK, Steps
  <2> QED BY <1>1, <2>1, <2>4, <2>9 DEF MigIInv
<1> QED BY <1>2, <1>3, <1>4

LEMMA EndStep == ASSUME MigIInv, EndRevision PROVE MigIInv'
<1>1. /\ step = "revision" /\ step' = "upgrade" /\ db' = Upgraded(db.head + 1, db)
      /\ saved' = (IF db.dialect = "sqlite" THEN db' ELSE saved)
      /\ UNCHANGED <<backups, origin, supported>> /\ UpOK
  BY DEF EndRevision, CommitsAtOnce, MigIInv, StepOK
<1>2. /\ DatabaseOK(db, supported) /\ db.head < 8 /\ ~Raises(db.head + 1, db)
      /\ db.head = -1 => db.schema \subseteq {"torn"}
  BY <1>1 DEF MigIInv, UpOK, HeadRevision, Unversioned
<1>3. /\ DatabaseOK(db', supported) /\ db'.dialect = db.dialect /\ db'.head = db.head + 1
      /\ "torn" \notin db'.schema /\ db'.schema \subseteq db.schema \cup Full
  BY <1>1, <1>2, UpgradedOK
<1>4. db'.head # Unversioned
  BY <1>2, <1>3, Dialects, RevisionList
<1>5. db.dialect = "sqlite" => db'.schema \cap (Odd \cup {"cut"}) = {} /\ Rescued(origin, backups)
  BY <1>1, <1>2, <1>3, FullParts DEF UpOK, HeadRevision, Half
<1>6. UpOK'
  BY <1>1, <1>3, <1>4, <1>5 DEF UpOK
<1>7. StepOK'
  BY <1>1, <1>6 DEF StepOK, Steps
<1> QED BY <1>1, <1>3, <1>7 DEF MigIInv

LEMMA FinishStep == ASSUME MigIInv, FinishUpgrade PROVE MigIInv'
<1>1. /\ step = "upgrade" /\ db.head = 8 /\ saved' = db /\ UpOK
      /\ step' = (IF ForeignKeysHold(db) /\ NoDrift(db) THEN "ready" ELSE "refused")
      /\ UNCHANGED <<db, backups, origin, supported>> /\ DatabaseOK(db, supported)
  BY DEF FinishUpgrade, HeadRevision, MigIInv, Commits, StepOK
<1>2. db.dialect = "sqlite" => db.schema = Full /\ Differences(db) = {}
  <2>1. db.dialect = "sqlite" => db.schema \cap (Odd \cup Half) = {}
    BY <1>1 DEF UpOK, Half
  <2> QED BY <1>1, <2>1, ExactSchema
<1>3. supported => Differences(db) = {}
  <2>1. supported /\ db.dialect = "postgresql" => db.schema \cap (Odd \cup Half) = {}
    BY <1>1 DEF DatabaseOK
  <2> QED BY <1>1, <1>2, <2>1, ExactSchema, Dialects
<1>4. Full \ SchemaAt(8) = {} /\ Full = SchemaAt(8) /\ 8 \in Revisions /\ HeadRevision = 8
  BY FullParts, RevisionList
<1>5. Differences(db) = {} => Exact(db)
  BY <1>1, <1>2, <1>4 DEF Exact
<1>6. CASE step' = "ready"
  <2>1. Differences(db) = {} /\ (db.dialect = "sqlite" => "orphan" \notin db.facts)
    BY <1>1, <1>2, <1>6, Dialects DEF ForeignKeysHold, NoDrift
  <2>2. "cut" \notin db.schema
    BY <2>1 DEF Differences, Half
  <2>3. Mended(db) = db
    BY <1>1, <2>2, Dialects DEF Mended, Database
  <2>4. DownOK'
    BY <1>1, <1>4, <1>5, <1>6, <2>1, <2>2, <2>3 DEF DownOK
  <2>5. StepOK'
    BY <1>6, <2>4 DEF StepOK, Steps
  <2> QED BY <1>1, <2>5 DEF MigIInv
<1>7. CASE step' = "refused"
  <2>1. supported => Accepts(Cleaned(db))
    BY <1>1, <1>3, <1>5, Dialects, ExactAccepted
  <2>2. StepOK'
    BY <1>1, <1>7, <2>1 DEF StepOK, Acceptable, Steps
  <2> QED BY <1>1, <1>7, <2>2 DEF MigIInv
<1> QED BY <1>1, <1>6, <1>7

\* Rows are corrected, or written.
LEMMA FactsOK ==
    ASSUME NEW sup, NEW d, DatabaseOK(d, sup), NEW facts, facts \subseteq Facts,
           Possible(d.schema, facts), NEW e, e = [d EXCEPT !.facts = facts]
    PROVE  /\ DatabaseOK(e, sup) /\ e.dialect = d.dialect /\ e.head = d.head
           /\ e.schema = d.schema /\ e.facts = facts /\ Cleaned(e) = Cleaned(d)
<1>1. d \in Database
  BY DEF DatabaseOK
<1>2. /\ e \in Database /\ e.dialect = d.dialect /\ e.head = d.head
      /\ e.schema = d.schema /\ e.facts = facts /\ e.repaired = d.repaired
  BY <1>1 DEF Database
<1>3. Cleaned(e) = Cleaned(d)
  BY <1>1 DEF Cleaned, Database
<1>4. e.head >= 7 => e.repaired
  <2>1. d.head >= 7 => d.repaired
    BY DEF DatabaseOK
  <2> QED BY <1>2, <2>1
<1>5. e.head >= 0 => /\ SchemaAt(e.head) \ e.schema \subseteq MayLack(e.head)
                     /\ (e.schema \cap Full) \ SchemaAt(e.head) \subseteq MayExceed(e.head)
  BY <1>2 DEF DatabaseOK
<1>6. /\ Possible(e.schema, e.facts) /\ (sup => e.schema \cap Odd = {})
      /\ e.dialect = "postgresql" => e.schema \cap Half = {}
  BY <1>2 DEF DatabaseOK
<1>7. DatabaseOK(e, sup)
  BY <1>2, <1>4, <1>5, <1>6 DEF DatabaseOK
<1> QED BY <1>2, <1>3, <1>7

LEMMA CorrectStep == ASSUME MigIInv, Correct PROVE MigIInv'
<1>1. /\ step = "refused" /\ step' = "idle" /\ DatabaseOK(db, supported) /\ saved' = db'
      /\ UNCHANGED <<backups, origin, supported>>
  BY DEF Correct, Commits, MigIInv
<1>2. PICK gone : db' = [db EXCEPT !.facts = db.facts \ gone]
  BY DEF Correct
<1>3. db.facts \ gone \subseteq Facts /\ Possible(db.schema, db.facts \ gone)
  BY <1>1 DEF DatabaseOK, Database, Possible
<1> DEFINE facts == db.facts \ gone
<1> HIDE DEF facts
<1>4. db' = [db EXCEPT !.facts = facts] /\ facts \subseteq Facts /\ Possible(db.schema, facts)
  BY <1>2, <1>3 DEF facts
<1>5. /\ DatabaseOK(db', supported) /\ db'.dialect = db.dialect /\ db'.head = db.head
      /\ db'.schema = db.schema /\ Cleaned(db') = Cleaned(db)
  BY <1>1, <1>4, FactsOK
<1>6. StepOK'
  BY <1>1, <1>5 DEF MigIInv, StepOK, Acceptable, Steps
<1> QED BY <1>1, <1>5, <1>6 DEF MigIInv

LEMMA RestoreStep == ASSUME MigIInv, RestoreBackup PROVE MigIInv'
<1>1. step' = "idle" /\ saved' = db' /\ UNCHANGED <<backups, origin, supported>>
  BY DEF RestoreBackup, Commits
<1>2. PICK b \in backups : db' = b.image
  BY DEF RestoreBackup
<1>3. DatabaseOK(db', supported) /\ Accepts(db')
  BY <1>2 DEF MigIInv
<1>4. Accepts(Cleaned(db'))
  BY <1>3, Dialects, RowsBlock
<1>5. StepOK'
  BY <1>1, <1>4 DEF StepOK, Acceptable, Steps
<1> QED BY <1>1, <1>3, <1>5 DEF MigIInv

LEMMA WriteStep == ASSUME MigIInv, ApplicationWrites PROVE MigIInv'
<1>1. /\ step = "ready" /\ DatabaseOK(db, supported) /\ saved' = db' /\ DownOK
      /\ UNCHANGED <<step, backups, origin, supported>>
  BY DEF ApplicationWrites, Commits, MigIInv, StepOK
<1>2. PICK f \in Facts \ {"orphan"} : Possible(db.schema, {f}) /\ db' = [db EXCEPT !.facts = {f}]
  BY DEF ApplicationWrites
<1> DEFINE facts == {f}
<1> HIDE DEF facts
<1>3. /\ facts \subseteq Facts /\ Possible(db.schema, facts) /\ db' = [db EXCEPT !.facts = facts]
      /\ "orphan" \notin facts
  BY <1>2 DEF facts
<1>4. /\ DatabaseOK(db', supported) /\ db'.dialect = db.dialect /\ db'.head = db.head
      /\ db'.schema = db.schema /\ db'.facts = facts
  BY <1>1, <1>3, FactsOK
<1>5. Differences(db') = Differences(db)
  BY <1>4 DEF Differences
<1>6. Exact(db) /\ "cut" \notin db.schema
  BY <1>1, Dialects DEF DownOK, Mended, Database
<1>7. Exact(db') /\ Mended(db') = db'
  BY <1>4, <1>5, <1>6, Dialects DEF Exact, Mended, Database
<1>8. DownOK'
  BY <1>1, <1>3, <1>4, <1>6, <1>7 DEF DownOK
<1>9. StepOK'
  BY <1>1, <1>8 DEF StepOK, Steps
<1> QED BY <1>1, <1>4, <1>9 DEF MigIInv

\* Between commands the schema is exactly the one of its revision.
LEMMA SettledExact ==
    ASSUME MigIInv, step \in {"ready", "lowered", "down"}
    PROVE  DownOK /\ Exact(db) /\ Mended(db) = db /\ db \in Database
<1>1. DownOK /\ db \in Database /\ "cut" \notin db.schema
  BY Dialects DEF MigIInv, StepOK, DownOK
<1>2. Mended(db) = db
  BY <1>1 DEF Mended, Database
<1> QED BY <1>1, <1>2 DEF DownOK

LEMMA MigrateAgainStep == ASSUME MigIInv, MigrateAgain PROVE MigIInv'
<1>1. /\ step \in {"ready", "lowered"} /\ step' = "idle"
      /\ UNCHANGED <<db, saved, backups, origin, supported>>
  BY DEF MigrateAgain
<1>2. Accepts(Cleaned(db)) /\ saved = db
  BY <1>1, SettledExact, ExactAccepted DEF MigIInv
<1>3. StepOK'
  BY <1>1, <1>2 DEF StepOK, Acceptable, Steps
<1> QED BY <1>1, <1>2, <1>3 DEF MigIInv

LEMMA StartDownStep == ASSUME MigIInv, StartDowngrade PROVE MigIInv'
<1>1. /\ step \in {"ready", "lowered"} /\ step' = "down"
      /\ UNCHANGED <<db, saved, backups, origin, supported>>
  BY DEF StartDowngrade
<1>2. saved = db /\ Exact(db) /\ DownOK
  BY <1>1, SettledExact DEF MigIInv
<1>3. DownOK'
  BY <1>1, <1>2 DEF DownOK
<1>4. StepOK'
  BY <1>1, <1>3 DEF StepOK, Steps
<1> QED BY <1>1, <1>2, <1>4 DEF MigIInv

LEMMA FinishDownStep == ASSUME MigIInv, FinishDowngrade PROVE MigIInv'
<1>1. /\ step = "down" /\ step' = "lowered" /\ saved' = db
      /\ UNCHANGED <<db, backups, origin, supported>>
  BY DEF FinishDowngrade, Commits
<1>2. Exact(db) /\ DownOK
  BY <1>1, SettledExact
<1>3. DownOK'
  BY <1>1, <1>2 DEF DownOK
<1>4. StepOK'
  BY <1>1, <1>3 DEF StepOK, Steps
<1> QED BY <1>1, <1>4 DEF MigIInv

LEMMA BeginDownStep == ASSUME MigIInv, BeginDowngrade PROVE MigIInv'
<1>1. /\ step = "down" /\ db.head > 0 /\ UNCHANGED <<backups, origin, supported>>
      /\ DatabaseOK(db, supported) /\ DownOK /\ Exact(db) /\ Mended(db) = db
  BY SettledExact DEF BeginDowngrade, MigIInv
<1>2. CASE db.facts \cap Downgrades[db.head].guards # {}
  BY <1>1, <1>2, GiveUpDown DEF BeginDowngrade
<1>3. CASE db.facts \cap Downgrades[db.head].guards = {}
  <2>1. /\ step' = "reverting" /\ saved' = (IF db.dialect = "sqlite" THEN db' ELSE saved)
        /\ db' = db \/ (db.dialect = "sqlite" /\ db' = WithPart(db, {"cut"}))
    BY <1>3 DEF BeginDowngrade, CommitsAtOnce, WithPart
  <2>2. /\ DatabaseOK(db', supported) /\ db'.dialect = db.dialect /\ db'.head = db.head
        /\ db'.facts = db.facts /\ Mended(db') = db
    <3>1. CASE db' = db
      BY <1>1, <3>1
    <3>2. CASE db.dialect = "sqlite" /\ db' = WithPart(db, {"cut"})
      <4>1. PICK part : part = {"cut"}
        OBVIOUS
      <4>2. part \in {{"torn"}, {"cut"}} /\ db' = WithPart(db, part)
        BY <3>2, <4>1
      <4>3. /\ DatabaseOK(db', supported) /\ db'.dialect = db.dialect /\ db'.head = db.head
            /\ db'.facts = db.facts /\ db'.schema = db.schema \cup part
        BY <1>1, <3>2, <4>2, PartOK
      <4>4. "cut" \notin db.schema
        BY <1>1 DEF DownOK
      <4>5. Mended(db') = db
        BY <1>1, <3>2, <4>4, Dialects DEF Mended, WithPart, Database
      <4> QED BY <4>3, <4>5
    <3> QED BY <2>1, <3>1, <3>2
  <2>3. DownOK'
    BY <1>1, <1>3, <2>1, <2>2 DEF DownOK
  <2>4. StepOK'
    BY <2>1, <2>3 DEF StepOK, Steps
  <2> QED BY <1>1, <2>1, <2>2, <2>4 DEF MigIInv
<1> QED BY <1>2, <1>3

LEMMA GuardList ==
    /\ Downgrades[1].guards = {} /\ Downgrades[1].forgets = {"unpriced", "position"}
    /\ Downgrades[2].guards = {"activeRun"} /\ Downgrades[2].forgets = {"failure"}
    /\ Downgrades[3].guards = {"credential"}
    /\ Downgrades[4].guards = {"ledger", "activeCall", "twoPolicies"}
    /\ Downgrades[5].guards = {"worker"}
    /\ Downgrades[8].guards = {"newProtocol"}
BY DEF Downgrades, Downgrade0001, Downgrade0002, Downgrade0003, Downgrade0004, Downgrade0005,
       Downgrade0006, Downgrade0007, Downgrade0008

\* A downgrade drops what its revision added, and no row that needs it but
\* those it gives up.
LEMMA RevertedOK ==
    ASSUME NEW sup, NEW d, DatabaseOK(d, sup), d.head > 0, Exact(Mended(d)),
           d.facts \cap Downgrades[d.head].guards = {},
           NEW e, e = Reverted(d)
    PROVE  /\ DatabaseOK(e, sup) /\ e.dialect = d.dialect /\ Exact(e) /\ "cut" \notin e.schema
<1> DEFINE h == d.head - 1
           gone == (Adds[d.head] \ SchemaAt(h)) \cup {"cut"}
<1>1. d \in Database /\ d.head \in {1, 2, 3, 4, 5, 6, 7, 8} /\ d.head \in Revisions
  BY DEF DatabaseOK, Database, Revisions, HeadRevision, Unversioned
<1>2. h \in 0..7 /\ h \in Revisions /\ h + 1 = d.head
  BY <1>1 DEF Revisions, HeadRevision
<1>3. SchemaAt(d.head) = SchemaAt(h) \cup Adds[d.head]
  BY <1>2, SchemaGrows
<1>4. /\ e.dialect = d.dialect /\ e.head = h /\ e.schema = d.schema \ gone
      /\ e.facts = d.facts \ Downgrades[d.head].forgets
      /\ e.repaired = (IF d.head = 7 THEN FALSE ELSE IF d.head = 4 THEN TRUE ELSE d.repaired)
  BY <1>1 DEF Database, Reverted
<1>5. e \in Database
  <2> DEFINE schema   == d.schema \ gone
             facts    == d.facts \ Downgrades[d.head].forgets
             repaired == IF d.head = 7 THEN FALSE ELSE IF d.head = 4 THEN TRUE ELSE d.repaired
  <2>1. repaired \in BOOLEAN
    BY <1>1 DEF Database
  <2>2. schema \subseteq Full \cup Odd \cup Half /\ facts \subseteq Facts
    BY <1>1 DEF Database
  <2>3. e = [d EXCEPT !.head = h, !.schema = schema, !.facts = facts, !.repaired = repaired]
    BY DEF Reverted
  <2> HIDE DEF schema, facts, repaired
  <2> QED BY <1>1, <1>2, <2>1, <2>2, <2>3 DEF Database
<1>6. /\ Mended(d).schema = d.schema \ {"cut"} /\ Mended(d).head = d.head
      /\ Mended(d).dialect = d.dialect
  BY <1>1 DEF Mended, Database
<1>7. /\ d.schema \cap Full = SchemaAt(d.head) /\ d.schema \cap {"drift", "torn"} = {}
      /\ d.dialect = "sqlite" => d.schema \ {"cut"} = SchemaAt(d.head)
  <2>1. /\ Differences(Mended(d)) = Full \ SchemaAt(d.head)
        /\ d.dialect = "sqlite" => d.schema \ {"cut"} = SchemaAt(d.head)
    BY <1>6 DEF Exact
  <2>2. Full \cap (d.schema \ {"cut"}) = SchemaAt(d.head) /\ (d.schema \ {"cut"}) \cap {"drift", "torn"} = {}
    BY <1>1, <1>6, <2>1, FullParts DEF Differences, Odd, Half
  <2>3. "cut" \notin Full
    BY FullParts DEF Half
  <2> QED BY <2>1, <2>2, <2>3
<1>8. e.schema \cap Full = SchemaAt(h) /\ "cut" \notin e.schema
  BY <1>2, <1>3, <1>4, <1>7, FullParts DEF Half
<1>9. Differences(e) = Full \ SchemaAt(h)
  BY <1>4, <1>7, <1>8 DEF Differences, Half
<1>10. Possible(e.schema, e.facts)
  <2>1. Possible(d.schema, d.facts) /\ d.facts \subseteq Facts
    BY <1>1 DEF DatabaseOK, Database
  <2>2. ASSUME NEW f \in e.facts PROVE Needs[f] \in SchemaAt(h)
    <3>1. f \in Facts /\ Needs[f] \in d.schema /\ f \in d.facts /\ f \notin Downgrades[d.head].forgets
          /\ f \notin Downgrades[d.head].guards
      BY <1>4, <2>1 DEF Possible
    <3>2. Needs[f] \in SchemaAt(d.head)
      <4>1. Needs[f] \in Full
        BY <3>1, NeedsOf, PartAge, FullParts, RevisionList
      <4> QED BY <3>1, <4>1, <1>7
    <3>3. \/ Needs[f] = "legacy"
          \/ Needs[f] = "phase1" /\ d.head >= 1 /\ d.head # 1
          \/ Needs[f] = "reliability" /\ d.head >= 2 /\ d.head # 2
          \/ Needs[f] = "credentials" /\ d.head >= 3 /\ d.head # 3
          \/ Needs[f] = "governance" /\ d.head >= 4 /\ d.head # 4
          \/ Needs[f] = "progress" /\ d.head >= 5 /\ d.head # 5
          \/ Needs[f] = "protocols" /\ d.head >= 8 /\ d.head # 8
      BY <1>1, <3>1, <3>2, NeedsOf, PartAge, GuardList
    <3> QED BY <1>1, <1>2, <3>3, PartAge
  <2>3. e.facts \subseteq d.facts /\ e.schema \subseteq d.schema /\ SchemaAt(h) \subseteq e.schema
    BY <1>4, <1>8
  <2> QED BY <2>1, <2>2, <2>3 DEF Possible
<1>11. ASSUME e.head >= 7 PROVE e.repaired
  <2>1. d.head >= 7 /\ d.head # 7 /\ d.head # 4
    BY <1>1, <1>4, <1>11
  <2>2. d.repaired
    BY <2>1 DEF DatabaseOK
  <2>3. e.repaired = d.repaired
    BY <1>4, <2>1
  <2> QED BY <2>2, <2>3
<1>12. /\ SchemaAt(e.head) \ e.schema = {} /\ (e.schema \cap Full) \ SchemaAt(e.head) = {}
  BY <1>4, <1>8
<1>13. /\ (sup => e.schema \cap Odd = {}) /\ (e.dialect = "postgresql" => e.schema \cap Half = {})
  BY <1>4 DEF DatabaseOK
<1>14. DatabaseOK(e, sup)
  BY <1>5, <1>10, <1>11, <1>12, <1>13 DEF DatabaseOK
<1>15. Exact(e)
  <2>1. "cut" \notin SchemaAt(d.head)
    BY <1>1, FullParts DEF Half
  <2>2. e.dialect = "sqlite" => e.schema = SchemaAt(h)
    BY <1>3, <1>4, <1>7, <2>1
  <2> QED BY <1>2, <1>4, <1>9, <2>2 DEF Exact
<1> QED BY <1>4, <1>8, <1>14, <1>15

LEMMA EndDownStep == ASSUME MigIInv, EndDowngrade PROVE MigIInv'
<1>1. /\ step = "reverting" /\ step' = "down" /\ db' = Reverted(db) /\ DatabaseOK(db, supported)
      /\ saved' = (IF db.dialect = "sqlite" THEN db' ELSE saved)
      /\ UNCHANGED <<backups, origin, supported>>
      /\ DownOK
  BY DEF EndDowngrade, CommitsAtOnce, MigIInv, StepOK
<1>2. db.head > 0 /\ db.facts \cap Downgrades[db.head].guards = {} /\ Exact(Mended(db))
  BY <1>1 DEF DownOK
<1>3. /\ DatabaseOK(db', supported) /\ db'.dialect = db.dialect /\ Exact(db')
      /\ "cut" \notin db'.schema
  BY ONLY <1>1, <1>2, RevertedOK
<1>4. Mended(db') = db'
  BY <1>3, Dialects DEF Mended, Database
<1>5. DownOK'
  BY <1>1, <1>3, <1>4 DEF DownOK
<1>6. StepOK'
  BY <1>1, <1>5 DEF StepOK, Steps
<1> QED BY <1>1, <1>3, <1>6 DEF MigIInv

LEMMA MigNextInv == MigIInv /\ [MigNext]_migVars => MigIInv'
<1> SUFFICES ASSUME MigIInv, [MigNext]_migVars PROVE MigIInv'
  OBVIOUS
<1>1. CASE UNCHANGED migVars
  BY <1>1 DEF migVars, MigIInv, StepOK, Acceptable, UpOK, DownOK
<1>2. CASE MigCrash
  BY <1>2, GiveUpStep, GiveUpDown DEF MigCrash
<1> QED BY <1>1, <1>2, PrepareStep, BeginStep, EndStep, FinishStep, CorrectStep, RestoreStep,
           WriteStep, StartDownStep, BeginDownStep, EndDownStep, FinishDownStep, MigrateAgainStep
           DEF MigNext

\* Through any sequence of preparations, revisions, crashes, restores and
\* downgrades, for any number of backups: every row has the part of the schema
\* it needs, up to what downgrades 1 and 2 give up; only the current schema
\* with repaired data is reported as a success; and a supported database that
\* is refused waits for a corrected row, has a backup that holds its rows, or
\* is a SQLite database whose downgrade was cut short (prepare_database, the
\* nine revisions and their downgrades).
THEOREM MigrationIsSafe == MigSpec => []MigrationInv
<1>1. MigIInv => MigrationInv
  <2> SUFFICES ASSUME MigIInv PROVE MigrationInv
    OBVIOUS
  <2>1. FactsKeepTheirPlace
    BY DEF MigIInv, DatabaseOK, StepOK, FactsKeepTheirPlace
  <2>2. ReadyIsCurrent
    <3> SUFFICES ASSUME step = "ready"
                 PROVE  /\ db.head = HeadRevision /\ Differences(db) = {} /\ db.repaired
                        /\ db.dialect = "sqlite" => db.schema = Full /\ "orphan" \notin db.facts
      BY DEF ReadyIsCurrent
    <3>1. DownOK /\ Exact(db) /\ DatabaseOK(db, supported)
      BY SettledExact DEF MigIInv
    <3>2. /\ db.head = 8 /\ Differences(db) = Full \ SchemaAt(8)
          /\ db.dialect = "sqlite" => db.schema = SchemaAt(8) /\ "orphan" \notin db.facts
      BY <3>1, RevisionList DEF DownOK, Exact
    <3>3. db.repaired
      BY <3>1, <3>2 DEF DatabaseOK
    <3> QED BY <3>2, <3>3, FullParts, RevisionList
  <2>3. NeverStranded
    <3>1. db \in Database
      BY DEF MigIInv, DatabaseOK
    <3> QED BY <3>1, RowsBlock DEF MigIInv, StepOK, Acceptable, NeverStranded, Rescued
  <2> QED BY <2>1, <2>2, <2>3 DEF MigrationInv
<1> QED BY <1>1, MigInitInv, MigNextInv, PTL DEF MigSpec
=============================================================================
