----------------------------- MODULE FilesProofs -----------------------------
(***************************************************************************)
(* Theorems about the components that keep files and rows of their own:    *)
(* the keyring, worker progress, the audit archive and the progress page.  *)
(***************************************************************************)
EXTENDS KeyringInstall, WorkerProgress, AuditRetention, RunProgressView,
        FiniteSetTheorems, SequenceTheorems, WellFoundedInduction, TLAPS

-----------------------------------------------------------------------------
(***************************************************************************)
(* KeyringInstall, for any number of starting processes and attempts.      *)
(***************************************************************************)
Installing == {"unlink", "syncdir", "check"}
Preparing  == {"validate", "open", "write", "sync", "link", "appeared"}

KeyTypeOK ==
    /\ entry \in Inodes \cup {NoInode}
    /\ onDisk \subseteq Inodes \cup {NoInode}
    /\ temps \subseteq Inodes
    /\ content \in [Inodes -> {"partial", "full", "synced"}]
    /\ proc \in [Starters -> [pc     : Preparing \cup Installing \cup {"done"},
                              try    : 1..Attempts,
                              result : {"none", "error", "kept", "created", "killed"}]]

\* Whatever the path names, now or after a host crash, is synced.
NamedIsSynced == \A n \in Inodes : n \in onDisk \cup {entry} => content[n] = "synced"

\* The inode process s is still writing, and those of its later attempts, have
\* no name in use.
FreshUnnamed(s) ==
    \A t \in 1..Attempts :
        t > proc[s].try \/ (t = proc[s].try /\ proc[s].pc \in {"validate", "open", "write", "sync", "link"})
            => <<s, t>> \notin onDisk \cup {entry}

KeyProcOK(s) ==
    /\ FreshUnnamed(s)
    /\ proc[s].pc = "link" => content[Mine(s)] = "synced"
    /\ proc[s].pc \in Installing => entry = Mine(s)
    /\ proc[s].pc = "check" => onDisk = {entry}
    /\ proc[s].result = "created" => entry = Mine(s) /\ onDisk = {entry}
    /\ proc[s].result # "none" => proc[s].pc = "done"

KeyIInv == KeyTypeOK /\ NamedIsSynced /\ \A s \in Starters : KeyProcOK(s)

\* No inode is NoInode, and two processes never make the same one.
LEMMA InodeNames ==
    /\ NoInode \notin Inodes
    /\ \A s, u \in Starters, t, v \in 1..Attempts : <<s, t>> = <<u, v>> <=> s = u /\ t = v
<1>1. ASSUME NoInode \in Inodes PROVE FALSE
  <2>1. PICK s \in Starters, t \in 1..Attempts : NoInode = <<s, t>>
    BY <1>1 DEF Inodes
  <2>2. NoInode[2] = 0 /\ NoInode[2] = t
    BY <2>1 DEF NoInode
  <2> QED BY <2>2, AttemptsAssumption
<1> QED BY <1>1

\* A step of process s that names no new inode, gives no name up and only
\* moves s on within _atomic_create keeps what is known of the others.
LEMMA KeyOthers ==
    ASSUME KeyIInv, NEW s \in Starters, NEW u \in Starters, u # s,
           proc'[u] = proc[u], content'[Mine(u)] = content[Mine(u)],
           entry' = entry, onDisk' \in {onDisk, {entry}}
    PROVE  KeyProcOK(u)'
<1>1. KeyProcOK(u) /\ proc[u].try \in 1..Attempts
  BY DEF KeyIInv, KeyTypeOK
<1> QED
  BY <1>1 DEF KeyProcOK, FreshUnnamed, Mine

LEMMA KeyInitInv == KeyInit => KeyIInv
<1> SUFFICES ASSUME KeyInit PROVE KeyIInv
  OBVIOUS
<1>1. KeyTypeOK
  BY AttemptsAssumption DEF KeyInit, KeyTypeOK, Preparing
<1>2. NamedIsSynced
  BY InodeNames DEF KeyInit, NamedIsSynced
<1>3. ASSUME NEW s \in Starters PROVE KeyProcOK(s)
  <2>1. proc[s] = [pc |-> "validate", try |-> 1, result |-> "none"]
    BY DEF KeyInit
  <2>2. FreshUnnamed(s)
    BY InodeNames DEF KeyInit, FreshUnnamed, Inodes
  <2> QED BY <2>1, <2>2 DEF KeyProcOK, Installing
<1> QED BY <1>1, <1>2, <1>3 DEF KeyIInv

\* Steps of _validate_existing, open, unlink and a kill move only the process
\* (and temporary names).
LEMMA KeyQuiet ==
    ASSUME KeyIInv, NEW s \in Starters,
           ValidateExisting(s) \/ OpenTemporary(s) \/ UnlinkTemporary(s)
             \/ CheckInstalled(s) \/ KillStarter(s)
    PROVE  KeyIInv'
<1>1. /\ KeyTypeOK /\ NamedIsSynced /\ KeyProcOK(s)
      /\ Mine(s) \in Inodes
  BY DEF KeyIInv, KeyTypeOK, Mine, Inodes
<1>2. /\ UNCHANGED <<entry, onDisk, content>>
      /\ proc' \in [Starters -> [pc     : Preparing \cup Installing \cup {"done"},
                                 try    : 1..Attempts,
                                 result : {"none", "error", "kept", "created", "killed"}]]
      /\ temps' \subseteq Inodes
      /\ \A u \in Starters : u # s => proc'[u] = proc[u]
      /\ proc'[s].try = proc[s].try
  BY <1>1 DEF ValidateExisting, OpenTemporary, UnlinkTemporary, CheckInstalled, KillStarter,
              Goto, Ends, KeyTypeOK, Preparing, Installing
<1>3. KeyTypeOK' /\ NamedIsSynced'
  BY <1>1, <1>2 DEF KeyTypeOK, NamedIsSynced
<1>4. ASSUME NEW u \in Starters, u # s PROVE KeyProcOK(u)'
  BY <1>2, <1>4, KeyOthers
<1>5. KeyProcOK(s)'
  <2>1. FreshUnnamed(s)'
    BY <1>1, <1>2 DEF FreshUnnamed, KeyProcOK, ValidateExisting, OpenTemporary, UnlinkTemporary,
                      CheckInstalled, KillStarter, Goto, Ends, At, KeyTypeOK
  <2>2. /\ proc'[s].pc # "link"
        /\ proc'[s].pc \in Installing => proc[s].pc \in Installing /\ proc'[s].pc # "check"
        /\ proc'[s].result = "created" =>
              \/ proc[s].result = "created"
              \/ proc[s].pc = "check"
        /\ proc'[s].result # "none" => proc[s].result # "none" \/ proc'[s].pc = "done"
    BY <1>1 DEF ValidateExisting, OpenTemporary, UnlinkTemporary, CheckInstalled, KillStarter,
                Goto, Ends, At, KeyTypeOK, Preparing, Installing, KeyProcOK
  <2>3. proc[s].result # "none" => proc'[s].pc = "done"
    BY <1>1 DEF ValidateExisting, OpenTemporary, UnlinkTemporary, CheckInstalled, KillStarter,
                Goto, Ends, At, KeyTypeOK, KeyProcOK
  <2> QED BY <1>1, <1>2, <2>1, <2>2, <2>3 DEF KeyProcOK, Mine, Installing
<1> QED BY <1>3, <1>4, <1>5 DEF KeyIInv

\* Writing or syncing the temporary file touches content that has no name.
LEMMA KeyWriteInv ==
    ASSUME KeyIInv, NEW s \in Starters, WriteAll(s) \/ SyncTemporary(s)
    PROVE  KeyIInv'
<1>1. /\ KeyTypeOK /\ NamedIsSynced /\ KeyProcOK(s)
      /\ Mine(s) \in Inodes /\ Mine(s) \notin onDisk \cup {entry}
      /\ proc[s].pc \in {"write", "sync"} /\ proc[s].result = "none"
  BY DEF KeyIInv, KeyTypeOK, Mine, Inodes, KeyProcOK, FreshUnnamed, WriteAll, SyncTemporary, At
<1>2. /\ UNCHANGED <<entry, onDisk, temps>>
      /\ proc' = [proc EXCEPT ![s].pc = IF proc[s].pc = "write" THEN "sync" ELSE "link"]
      /\ content' = [content EXCEPT ![Mine(s)] = IF proc[s].pc = "write" THEN "full" ELSE "synced"]
  BY DEF WriteAll, SyncTemporary, At, Goto
<1>3. KeyTypeOK' /\ NamedIsSynced'
  BY <1>1, <1>2 DEF KeyTypeOK, NamedIsSynced, Preparing, Installing
<1>4. ASSUME NEW u \in Starters, u # s PROVE KeyProcOK(u)'
  <2>1. Mine(u) # Mine(s) /\ proc'[u] = proc[u]
    BY <1>1, <1>2, <1>4, InodeNames DEF Mine, KeyTypeOK
  <2>2. content'[Mine(u)] = content[Mine(u)]
    BY <1>2, <2>1, <1>1 DEF KeyTypeOK, Mine, Inodes
  <2> QED BY <1>2, <1>4, <2>1, <2>2, KeyOthers
<1>5. KeyProcOK(s)'
  BY <1>1, <1>2 DEF KeyProcOK, FreshUnnamed, KeyTypeOK, Mine, Installing
<1> QED BY <1>3, <1>4, <1>5 DEF KeyIInv

\* link(2) names a synced inode, and only when the path is free.
LEMMA KeyLinkInv ==
    ASSUME KeyIInv, NEW s \in Starters, Link(s)
    PROVE  KeyIInv'
<1>1. /\ KeyTypeOK /\ NamedIsSynced /\ KeyProcOK(s)
      /\ Mine(s) \in Inodes /\ content[Mine(s)] = "synced"
      /\ proc[s].pc = "link" /\ proc[s].result = "none"
      /\ UNCHANGED content
  BY DEF KeyIInv, KeyTypeOK, Mine, Inodes, KeyProcOK, Link, At
<1>2. CASE entry = NoInode
  <2>1. /\ entry' = Mine(s) /\ onDisk' = onDisk \cup {Mine(s)}
        /\ proc' = [proc EXCEPT ![s].pc = "unlink"] /\ temps' = temps
    BY <1>2 DEF Link, Goto
  <2>2. KeyTypeOK' /\ NamedIsSynced'
    BY <1>1, <2>1 DEF KeyTypeOK, NamedIsSynced, Preparing, Installing
  <2>3. ASSUME NEW u \in Starters, u # s PROVE KeyProcOK(u)'
    <3>1. KeyProcOK(u) /\ Mine(u) \in Inodes /\ proc'[u] = proc[u]
      BY <1>1, <2>1, <2>3 DEF KeyIInv, KeyTypeOK, Mine, Inodes
    <3>2. proc[u].pc \notin Installing /\ proc[u].result # "created"
      BY <1>2, <3>1, InodeNames DEF KeyProcOK
    <3>3. FreshUnnamed(u)'
      BY <1>1, <2>1, <2>3, <3>1, InodeNames DEF KeyProcOK, FreshUnnamed, Mine, KeyTypeOK
    <3> QED BY <1>1, <3>1, <3>2, <3>3 DEF KeyProcOK, Mine, Installing
  <2>4. KeyProcOK(s)'
    BY <1>1, <2>1 DEF KeyProcOK, FreshUnnamed, KeyTypeOK, Mine, Installing
  <2> QED BY <2>2, <2>3, <2>4 DEF KeyIInv
<1>3. CASE entry # NoInode
  <2>1. /\ UNCHANGED <<entry, onDisk>>
        /\ proc' = [proc EXCEPT ![s].pc = "appeared"] /\ temps' = temps \ {Mine(s)}
    BY <1>3 DEF Link, Goto
  <2>2. KeyTypeOK' /\ NamedIsSynced'
    BY <1>1, <2>1 DEF KeyTypeOK, NamedIsSynced, Preparing, Installing
  <2>3. ASSUME NEW u \in Starters, u # s PROVE KeyProcOK(u)'
    BY <1>1, <2>1, <2>3, KeyOthers DEF KeyTypeOK
  <2>4. KeyProcOK(s)'
    BY <1>1, <2>1 DEF KeyProcOK, FreshUnnamed, KeyTypeOK, Mine, Installing
  <2> QED BY <2>2, <2>3, <2>4 DEF KeyIInv
<1> QED BY <1>2, <1>3

LEMMA KeySyncDirInv ==
    ASSUME KeyIInv, NEW s \in Starters, SyncDirectory(s)
    PROVE  KeyIInv'
<1>1. /\ KeyTypeOK /\ NamedIsSynced /\ KeyProcOK(s) /\ Mine(s) \in Inodes
      /\ proc[s].pc = "syncdir" /\ onDisk' = {entry}
      /\ UNCHANGED <<entry, temps, content>>
      /\ proc' = [proc EXCEPT ![s].pc = "check"]
  BY DEF KeyIInv, KeyTypeOK, Mine, Inodes, SyncDirectory, At, Goto
<1>2. KeyTypeOK' /\ NamedIsSynced'
  BY <1>1 DEF KeyTypeOK, NamedIsSynced, Preparing, Installing
<1>3. ASSUME NEW u \in Starters, u # s PROVE KeyProcOK(u)'
  BY <1>1, <1>3, KeyOthers DEF KeyTypeOK
<1>4. KeyProcOK(s)'
  BY <1>1 DEF KeyProcOK, FreshUnnamed, KeyTypeOK, Mine, Installing
<1> QED BY <1>2, <1>3, <1>4 DEF KeyIInv

\* A failure rolls back at most the name this process installed.
LEMMA KeyFailInv ==
    ASSUME KeyIInv, NEW s \in Starters, AtomicCreateFails(s) \/ CleanupFails(s)
    PROVE  KeyIInv'
<1>1. /\ KeyTypeOK /\ NamedIsSynced /\ KeyProcOK(s)
      /\ Mine(s) \in Inodes /\ proc[s].result = "none" /\ proc[s].pc # "done"
      /\ UNCHANGED content
  BY DEF KeyIInv, KeyTypeOK, Mine, Inodes, KeyProcOK, AtomicCreateFails, CleanupFails
<1>2. \/ UNCHANGED <<entry, onDisk>>
      \/ /\ entry = Mine(s) /\ entry' = NoInode /\ onDisk' = onDisk \cup {NoInode}
  BY DEF AtomicCreateFails, CleanupFails, RolledBack
<1>3. \/ proc' = [proc EXCEPT ![s].pc = "done", ![s].result = "error"]
      \/ /\ proc[s].try < Attempts
         /\ proc' = [proc EXCEPT ![s].pc = "open", ![s].try = proc[s].try + 1]
  BY <1>1 DEF AtomicCreateFails, CleanupFails, Ends, KeyTypeOK
<1>4. temps' \subseteq Inodes
  BY <1>1 DEF AtomicCreateFails, CleanupFails, KeyTypeOK
<1>5. KeyTypeOK' /\ NamedIsSynced'
  <2>1. proc' \in [Starters -> [pc     : Preparing \cup Installing \cup {"done"},
                                try    : 1..Attempts,
                                result : {"none", "error", "kept", "created", "killed"}]]
    BY <1>1, <1>3, AttemptsAssumption DEF KeyTypeOK, Preparing
  <2> QED BY <1>1, <1>2, <1>4, <2>1, InodeNames DEF KeyTypeOK, NamedIsSynced
<1>6. ASSUME NEW u \in Starters, u # s PROVE KeyProcOK(u)'
  <2>1. KeyProcOK(u) /\ Mine(u) \in Inodes /\ proc'[u] = proc[u] /\ Mine(u) # Mine(s)
    BY <1>1, <1>3, <1>6, InodeNames DEF KeyIInv, KeyTypeOK, Mine, Inodes
  <2>2. CASE UNCHANGED <<entry, onDisk>>
    BY <1>1, <1>6, <2>1, <2>2, KeyOthers
  <2>3. CASE entry = Mine(s) /\ entry' = NoInode /\ onDisk' = onDisk \cup {NoInode}
    <3>1. proc[u].pc \notin Installing /\ proc[u].result # "created"
      BY <2>1, <2>3 DEF KeyProcOK
    <3>2. FreshUnnamed(u)'
      BY <2>1, <2>3, InodeNames DEF KeyProcOK, FreshUnnamed, Inodes
    <3> QED BY <1>1, <2>1, <3>1, <3>2 DEF KeyProcOK, Mine, Installing
  <2> QED BY <1>2, <2>2, <2>3
<1>7. KeyProcOK(s)'
  <2>1. \A t \in 1..Attempts : t > proc[s].try => <<s, t>> \notin onDisk' \cup {entry'}
    BY <1>1, <1>2, InodeNames DEF KeyProcOK, FreshUnnamed, Inodes
  <2>2. CASE proc' = [proc EXCEPT ![s].pc = "done", ![s].result = "error"]
    BY <1>1, <2>1, <2>2 DEF KeyProcOK, FreshUnnamed, KeyTypeOK, Installing
  <2>3. CASE proc' = [proc EXCEPT ![s].pc = "open", ![s].try = proc[s].try + 1]
    <3>1. /\ proc'[s].pc = "open" /\ proc'[s].result = "none"
          /\ proc'[s].try = proc[s].try + 1 /\ proc[s].try \in Nat
      BY <1>1, <2>3, AttemptsAssumption DEF KeyTypeOK
    <3> QED BY <2>1, <3>1 DEF KeyProcOK, FreshUnnamed, Installing
  <2> QED BY <1>3, <2>2, <2>3
<1> QED BY <1>5, <1>6, <1>7 DEF KeyIInv

\* A crash leaves one of the entries on disk, every one of them synced.
LEMMA KeyCrashInv == KeyIInv /\ HostCrashes => KeyIInv'
<1> SUFFICES ASSUME KeyIInv, HostCrashes PROVE KeyIInv'
  OBVIOUS
<1>1. KeyTypeOK /\ NamedIsSynced /\ \A s \in Starters : KeyProcOK(s)
  BY DEF KeyIInv
<1>2. PICK e \in onDisk : entry' = e /\ onDisk' = {e}
  BY DEF HostCrashes
<1>3. \A s \in Starters :
         /\ proc'[s].pc = "done" /\ proc'[s].try = proc[s].try
         /\ proc'[s].result = "created" => proc[s].result = "created"
         /\ proc'[s] \in [pc     : Preparing \cup Installing \cup {"done"},
                          try    : 1..Attempts,
                          result : {"none", "error", "kept", "created", "killed"}]
  BY <1>1 DEF HostCrashes, KeyTypeOK, At
<1>4. /\ content' \in [Inodes -> {"partial", "full", "synced"}]
      /\ \A n \in Inodes : content[n] = "synced" => content'[n] = "synced"
  BY DEF HostCrashes
<1>5. KeyTypeOK' /\ NamedIsSynced'
  <2>1. proc' \in [Starters -> [pc     : Preparing \cup Installing \cup {"done"},
                                try    : 1..Attempts,
                                result : {"none", "error", "kept", "created", "killed"}]]
    BY <1>3 DEF HostCrashes
  <2>2. temps' = temps
    BY DEF HostCrashes
  <2> QED BY <1>1, <1>2, <1>4, <2>1, <2>2 DEF KeyTypeOK, NamedIsSynced
<1>6. ASSUME NEW s \in Starters PROVE KeyProcOK(s)'
  <2>1. FreshUnnamed(s)'
    BY <1>1, <1>2, <1>3 DEF KeyProcOK, FreshUnnamed
  <2>2. proc'[s].result = "created" => entry' = Mine(s)' /\ onDisk' = {entry'}
    BY <1>1, <1>2, <1>3 DEF KeyProcOK, Mine
  <2> QED BY <1>3, <2>1, <2>2 DEF KeyProcOK, Installing
<1> QED BY <1>5, <1>6 DEF KeyIInv

LEMMA KeyNextInv == KeyIInv /\ [KeyNext]_keyVars => KeyIInv'
<1>1. ASSUME KeyIInv, UNCHANGED keyVars PROVE KeyIInv'
  BY <1>1 DEF keyVars, KeyIInv, KeyTypeOK, NamedIsSynced, KeyProcOK, FreshUnnamed, Mine
<1>2. ASSUME KeyIInv, KeyNext PROVE KeyIInv'
  BY <1>2, KeyQuiet, KeyWriteInv, KeyLinkInv, KeySyncDirInv, KeyFailInv, KeyCrashInv DEF KeyNext
<1> QED BY <1>1, <1>2

\* However many first starts race, fail, are killed or lose the host, a
\* keyring reported as created keeps its path and no path names a torn one.
THEOREM KeyringSafe == KeySpec => []KeyringInv
<1>1. KeyIInv => KeyringInv
  BY DEF KeyIInv, KeyTypeOK, NamedIsSynced, KeyProcOK, KeyringInv, CreatedKeyringStays, KeyringNeverTorn
<1> QED BY <1>1, KeyInitInv, KeyNextInv, PTL DEF KeySpec

-----------------------------------------------------------------------------
(***************************************************************************)
(* WorkerProgress, for any number of generations and activities.           *)
(***************************************************************************)
Moments == Nat \cup {Never}

GenerationRow == [started : Nat, seen : Nat, stopped : Moments, last : [Activities -> Moments]]

Recorder == [life    : {"new", "up", "stopping", "gone", "killed"},
             pending : SUBSET Activities,
             taken   : SUBSET Activities,
             waiting : {"nothing", "flush", "stop"}]

\* The recorder of one generation: who holds the flush lock, and that only a
\* flush with activity ever takes it.
RecorderOK(r) ==
    /\ r.waiting = "nothing" => r.taken = {}
    /\ r.waiting = "flush" => r.taken # {} /\ r.life \in {"up", "stopping"}
    /\ r.waiting = "stop" => r.life = "stopping"

\* The row of a started generation, at time t.
WorkerRowOK(row, life, t) ==
    /\ row \in GenerationRow
    /\ row.started <= row.seen /\ row.seen <= t
    /\ \A a \in Activities : row.last[a] \in {Never} \cup row.started..row.seen
    /\ row.seen = row.started \/ \E a \in Activities : row.last[a] = row.seen
    /\ row.stopped # Never => row.stopped >= row.seen /\ life = "gone"

\* A note is in the row by now, or still in hand.
NoteKept(row, r, note, a) ==
    note # Never /\ r.life # "killed" => a \in r.pending \cup r.taken \/ row.last[a] >= note

GenerationOK(g) ==
    /\ RecorderOK(recorder[g])
    /\ recorder[g].life = "new" =>
          generation[g] = Unregistered /\ \A a \in Activities : noted[g][a] = Never
    /\ recorder[g].life # "new" =>
          /\ WorkerRowOK(generation[g], recorder[g].life, progressTime)
          /\ \A a \in Activities :
                /\ noted[g][a] <= progressTime
                /\ NoteKept(generation[g], recorder[g], noted[g][a], a)

ProgressTypeOK ==
    /\ progressTime \in Nat
    /\ recorder \in [Generations -> Recorder]
    /\ noted \in [Generations -> [Activities -> Moments]]
    /\ generation \in [Generations -> GenerationRow \cup {Unregistered}]

ProgressIInv == ProgressTypeOK /\ \A g \in Generations : GenerationOK(g)

\* A step of one generation: only its own recorder, row and notes move.
LEMMA OneGeneration ==
    ASSUME ProgressIInv, NEW g \in Generations, NEW row, NEW r,
           progressTime' = progressTime,
           generation' = [generation EXCEPT ![g] = row],
           recorder' = [recorder EXCEPT ![g] = r],
           noted' \in [Generations -> [Activities -> Moments]],
           \A h \in Generations : h # g => noted'[h] = noted[h],
           row \in GenerationRow \cup {Unregistered}, r \in Recorder,
           GenerationOK(g)'
    PROVE  ProgressIInv'
<1>1. ProgressTypeOK'
  BY DEF ProgressIInv, ProgressTypeOK
<1>2. ASSUME NEW h \in Generations, h # g PROVE GenerationOK(h)'
  <2>1. /\ GenerationOK(h) /\ noted'[h] = noted[h]
        /\ generation'[h] = generation[h] /\ recorder'[h] = recorder[h]
    BY <1>2 DEF ProgressIInv, ProgressTypeOK
  <2> QED BY <2>1 DEF GenerationOK
<1> QED BY <1>1, <1>2 DEF ProgressIInv

\* _event_values stamps what was taken with the present.
LEMMA StampedRow ==
    ASSUME progressTime \in Nat, NEW row, NEW acts \in SUBSET Activities, acts # {},
           WorkerRowOK(row, "up", progressTime), row.stopped = Never
    PROVE  /\ Stamped(row, acts) \in GenerationRow
           /\ Stamped(row, acts).stopped = Never
           /\ Stamped(row, acts).seen = progressTime
           /\ \A life : WorkerRowOK(Stamped(row, acts), life, progressTime)
           /\ \A a \in Activities : Stamped(row, acts).last[a] =
                 IF a \in acts THEN progressTime ELSE row.last[a]
<1> DEFINE new == Stamped(row, acts)
<1>1. row \in GenerationRow /\ row.started \in Nat /\ row.seen \in Nat
  BY DEF WorkerRowOK, GenerationRow
<1>2. /\ new.started = row.started /\ new.seen = progressTime /\ new.stopped = Never
      /\ new.last = [a \in Activities |-> IF a \in acts THEN progressTime ELSE row.last[a]]
  BY <1>1 DEF Stamped, GenerationRow
<1>3. new \in GenerationRow
  <2>1. [a \in Activities |-> IF a \in acts THEN progressTime ELSE row.last[a]]
           \in [Activities -> Moments]
    BY <1>1 DEF GenerationRow, Moments
  <2> QED BY <1>1, <2>1 DEF Stamped, GenerationRow
<1>4. \A a \in Activities : new.last[a] \in {Never} \cup new.started..new.seen
  BY <1>1, <1>2 DEF WorkerRowOK, Never
<1>5. \E a \in Activities : new.last[a] = new.seen
  BY <1>2
<1>6. \A life : WorkerRowOK(new, life, progressTime)
  BY <1>1, <1>2, <1>3, <1>4, <1>5 DEF WorkerRowOK
<1> QED BY <1>2, <1>3, <1>6

LEMMA ProgressInitInv == ProgressInit => ProgressIInv
  BY DEF ProgressInit, ProgressIInv, ProgressTypeOK, GenerationOK, RecorderOK, NewRecorder,
         Recorder, Moments, Never

LEMMA StartGenerationInv ==
    ASSUME ProgressIInv, NEW g \in Generations, StartGeneration(g)
    PROVE  ProgressIInv'
<1> DEFINE row == [started |-> progressTime, seen |-> progressTime, stopped |-> Never,
                   last |-> [a \in Activities |-> Never]]
           r == [recorder[g] EXCEPT !.life = "up"]
<1>1. /\ progressTime \in Nat /\ recorder[g] \in Recorder /\ recorder[g].life = "new"
      /\ RecorderOK(recorder[g]) /\ \A a \in Activities : noted[g][a] = Never
      /\ noted' = noted /\ noted \in [Generations -> [Activities -> Moments]]
      /\ progressTime' = progressTime
      /\ generation' = [generation EXCEPT ![g] = row]
      /\ recorder' = [recorder EXCEPT ![g] = r]
  BY DEF ProgressIInv, ProgressTypeOK, GenerationOK, StartGeneration
<1>2. row \in GenerationRow /\ r \in Recorder
  BY <1>1 DEF GenerationRow, Recorder, Moments
<1>3. WorkerRowOK(row, "up", progressTime) /\ RecorderOK(r) /\ r.life = "up"
  BY <1>1, <1>2 DEF WorkerRowOK, RecorderOK, Recorder
<1>4. recorder'[g] = r /\ generation'[g] = row
  BY <1>1 DEF ProgressIInv, ProgressTypeOK
<1> HIDE DEF row, r
<1>5. \A a \in Activities : Never <= progressTime /\ NoteKept(row, r, Never, a)
  BY <1>1 DEF NoteKept, Never
<1>6. GenerationOK(g)'
  BY <1>1, <1>3, <1>4, <1>5 DEF GenerationOK
<1> QED BY <1>1, <1>2, <1>6, OneGeneration

\* What is known of a started generation, unfolded once for all its steps.
LEMMA StartedGeneration ==
    ASSUME ProgressIInv, NEW g \in Generations, recorder[g].life # "new"
    PROVE  /\ progressTime \in Nat /\ recorder[g] \in Recorder
           /\ generation \in [Generations -> GenerationRow \cup {Unregistered}]
           /\ recorder \in [Generations -> Recorder]
           /\ noted \in [Generations -> [Activities -> Moments]]
           /\ RecorderOK(recorder[g])
           /\ WorkerRowOK(generation[g], recorder[g].life, progressTime)
           /\ generation[g] \in GenerationRow
           /\ \A a \in Activities :
                 /\ noted[g][a] <= progressTime
                 /\ NoteKept(generation[g], recorder[g], noted[g][a], a)
  BY DEF ProgressIInv, ProgressTypeOK, GenerationOK, WorkerRowOK

\* Steps that only move the recorder: notes, taking, stopping and a kill.
LEMMA RecorderInv ==
    ASSUME ProgressIInv, NEW g \in Generations,
           TakePending(g) \/ BeginStop(g) \/ TakeRest(g) \/ KillWorker(g)
    PROVE  ProgressIInv'
<1>1. recorder[g].life \in {"up", "stopping"} /\ recorder[g].life # "new"
  BY DEF TakePending, BeginStop, TakeRest, KillWorker
<1> DEFINE Fits(r) ==
      /\ recorder' = [recorder EXCEPT ![g] = r]
      /\ r \in Recorder /\ RecorderOK(r)
      /\ r.life \in {"up", "stopping", "killed"}
      /\ r.life = "killed" \/ r.pending \cup r.taken = recorder[g].pending \cup recorder[g].taken
<1>2. PICK r : Fits(r)
  <2>1. CASE TakePending(g)
    <3>1. Fits([recorder[g] EXCEPT !.taken = recorder[g].pending,
                                   !.pending = {}, !.waiting = "flush"])
      BY <1>1, <2>1, StartedGeneration DEF TakePending, Recorder, RecorderOK
    <3> HIDE DEF Fits
    <3> QED BY <3>1
  <2>2. CASE BeginStop(g)
    <3>1. Fits([recorder[g] EXCEPT !.life = "stopping"])
      BY <1>1, <2>2, StartedGeneration DEF BeginStop, Recorder, RecorderOK
    <3> HIDE DEF Fits
    <3> QED BY <3>1
  <2>3. CASE TakeRest(g)
    <3>1. Fits([recorder[g] EXCEPT !.taken = recorder[g].pending,
                                   !.pending = {}, !.waiting = "stop"])
      BY <1>1, <2>3, StartedGeneration DEF TakeRest, Recorder, RecorderOK
    <3> HIDE DEF Fits
    <3> QED BY <3>1
  <2>4. CASE KillWorker(g)
    <3>1. Fits([NewRecorder EXCEPT !.life = "killed"])
      BY <2>4 DEF KillWorker, NewRecorder, Recorder, RecorderOK
    <3> HIDE DEF Fits
    <3> QED BY <3>1
  <2> QED BY <2>1, <2>2, <2>3, <2>4
<1>3. /\ progressTime' = progressTime /\ noted' = noted /\ generation' = generation
      /\ recorder'[g] = r
  BY <1>1, <1>2, StartedGeneration DEF TakePending, BeginStop, TakeRest, KillWorker
<1>4. generation' = [generation EXCEPT ![g] = generation[g]]
  BY <1>1, <1>3, StartedGeneration
<1>5. GenerationOK(g)'
  <2>1. WorkerRowOK(generation[g], r.life, progressTime)
    BY <1>1, StartedGeneration DEF WorkerRowOK
  <2>2. \A a \in Activities :
           noted[g][a] <= progressTime /\ NoteKept(generation[g], r, noted[g][a], a)
    BY <1>1, <1>2, StartedGeneration DEF NoteKept
  <2> QED BY <1>2, <1>3, <2>1, <2>2 DEF GenerationOK
<1> QED BY <1>1, <1>2, <1>3, <1>4, <1>5, StartedGeneration, OneGeneration

LEMMA NoteInv ==
    ASSUME ProgressIInv, NEW g \in Generations, NEW a \in Activities, Note(g, a)
    PROVE  ProgressIInv'
<1>1. CASE UNCHANGED progressVars
  BY <1>1 DEF progressVars, ProgressIInv, ProgressTypeOK, GenerationOK
<1>2. CASE /\ recorder[g].life = "up"
           /\ recorder' = [recorder EXCEPT ![g].pending = @ \cup {a}]
           /\ noted' = [noted EXCEPT ![g][a] = progressTime]
  <2> DEFINE r == [recorder[g] EXCEPT !.pending = recorder[g].pending \cup {a}]
  <2>1. /\ recorder' = [recorder EXCEPT ![g] = r]
        /\ progressTime' = progressTime
        /\ generation' = generation /\ generation' = [generation EXCEPT ![g] = generation[g]]
        /\ recorder'[g] = r
    BY <1>2, StartedGeneration DEF Note
  <2>2. r \in Recorder /\ RecorderOK(r) /\ r.life = "up"
    BY <1>2, StartedGeneration DEF Recorder, RecorderOK
  <2>3. /\ noted' \in [Generations -> [Activities -> Moments]]
        /\ \A h \in Generations : h # g => noted'[h] = noted[h]
        /\ \A b \in Activities : noted'[g][b] = IF b = a THEN progressTime ELSE noted[g][b]
    BY <1>2, StartedGeneration DEF Moments
  <2>4. \A b \in Activities :
           noted'[g][b] <= progressTime /\ NoteKept(generation[g], r, noted'[g][b], b)
    BY <1>2, <2>3, StartedGeneration DEF NoteKept, Recorder
  <2>5. GenerationOK(g)'
    BY <1>2, <2>1, <2>2, <2>4, StartedGeneration DEF GenerationOK
  <2> QED BY <1>2, <2>1, <2>2, <2>3, <2>5, StartedGeneration, OneGeneration
<1> QED BY <1>1, <1>2 DEF Note, progressVars

\* A flush, committed or not: what it took is stamped or put back.
LEMMA FlushInv ==
    ASSUME ProgressIInv, NEW g \in Generations, Flush(g) \/ FlushFails(g)
    PROVE  ProgressIInv'
<1>1. /\ recorder[g].waiting = "flush" /\ progressTime' = progressTime /\ noted' = noted
  BY DEF Flush, FlushFails
<1>2. /\ recorder[g].life \in {"up", "stopping"} /\ recorder[g].life # "new"
      /\ recorder[g].taken # {}
  BY <1>1 DEF ProgressIInv, GenerationOK, RecorderOK
<1>3. /\ generation[g].stopped = Never
      /\ WorkerRowOK(generation[g], "up", progressTime)
  BY <1>2, StartedGeneration DEF WorkerRowOK
<1> DEFINE new == Stamped(generation[g], recorder[g].taken)
           put(ok) == Settled(recorder[g], ok)
<1>4. /\ new \in GenerationRow
      /\ \A life : WorkerRowOK(new, life, progressTime)
      /\ \A a \in Activities : new.last[a] =
            IF a \in recorder[g].taken THEN progressTime ELSE generation[g].last[a]
  <2>1. progressTime \in Nat /\ recorder[g].taken \in SUBSET Activities
    BY <1>2, StartedGeneration DEF Recorder
  <2> QED BY <1>2, <1>3, <2>1, StampedRow
<1>5. \A ok \in BOOLEAN :
         /\ put(ok) \in Recorder /\ RecorderOK(put(ok)) /\ put(ok).life = recorder[g].life
         /\ put(ok).taken = {}
         /\ put(ok).pending = IF ok THEN recorder[g].pending
                                    ELSE recorder[g].pending \cup recorder[g].taken
  BY <1>2, StartedGeneration DEF Settled, Recorder, RecorderOK
<1>6. \E ok \in BOOLEAN, row \in {generation[g], new} :
         /\ ok => row = new
         /\ recorder' = [recorder EXCEPT ![g] = put(ok)]
         /\ generation' = [generation EXCEPT ![g] = row]
  <2>1. CASE Flush(g)
    BY <2>1 DEF Flush
  <2>2. CASE FlushFails(g)
    <3>1. generation = [generation EXCEPT ![g] = generation[g]]
      BY <1>2, StartedGeneration
    <3> QED BY <2>2, <3>1 DEF FlushFails
  <2> QED BY <2>1, <2>2
<1>7. PICK ok \in BOOLEAN, row \in {generation[g], new} :
         /\ ok => row = new
         /\ recorder' = [recorder EXCEPT ![g] = put(ok)]
         /\ generation' = [generation EXCEPT ![g] = row]
  BY <1>6
<1> HIDE DEF new, put
<1>8. \A a \in Activities :
         noted[g][a] <= progressTime /\ NoteKept(row, put(ok), noted[g][a], a)
  <2> SUFFICES ASSUME NEW a \in Activities
               PROVE  noted[g][a] <= progressTime /\ NoteKept(row, put(ok), noted[g][a], a)
    OBVIOUS
  <2>1. /\ noted[g][a] <= progressTime
        /\ NoteKept(generation[g], recorder[g], noted[g][a], a)
    BY <1>2, StartedGeneration
  <2> QED BY <1>2, <1>4, <1>5, <1>7, <2>1 DEF NoteKept
<1>9. /\ recorder'[g] = put(ok) /\ generation'[g] = row
      /\ row \in GenerationRow /\ WorkerRowOK(row, recorder[g].life, progressTime)
  <2>1. /\ generation[g] \in GenerationRow
        /\ WorkerRowOK(generation[g], recorder[g].life, progressTime)
        /\ DOMAIN recorder = Generations /\ DOMAIN generation = Generations
    BY <1>2, StartedGeneration
  <2> QED BY <1>4, <1>7, <2>1
<1>10. GenerationOK(g)'
  BY <1>1, <1>2, <1>5, <1>8, <1>9 DEF GenerationOK
<1> QED BY <1>1, <1>2, <1>5, <1>7, <1>9, <1>10, StartedGeneration, OneGeneration

\* The final write of stop, committed or not; the process is gone afterwards.
LEMMA EndStopInv ==
    ASSUME ProgressIInv, NEW g \in Generations, EndStop(g)
    PROVE  ProgressIInv'
<1>1. /\ recorder[g].waiting = "stop" /\ progressTime' = progressTime /\ noted' = noted
  BY DEF EndStop
<1>2. recorder[g].life = "stopping"
  BY <1>1 DEF ProgressIInv, GenerationOK, RecorderOK
<1>3. /\ generation[g].stopped = Never
      /\ WorkerRowOK(generation[g], "up", progressTime)
      /\ recorder[g].taken \in SUBSET Activities
  BY <1>2, StartedGeneration DEF WorkerRowOK, Recorder
<1> DEFINE new == StopRow(generation[g], recorder[g].taken)
           put(ok) == [Settled(recorder[g], ok) EXCEPT !.life = "gone"]
<1>4. /\ new \in GenerationRow
      /\ WorkerRowOK(new, "gone", progressTime)
      /\ \A a \in Activities : new.last[a] =
            IF a \in recorder[g].taken THEN progressTime ELSE generation[g].last[a]
  <2>1. CASE recorder[g].taken = {}
    <3>1. new = [generation[g] EXCEPT !.stopped = progressTime]
      BY <2>1 DEF StopRow
    <3> QED BY <1>2, <1>3, <2>1, <3>1, StartedGeneration DEF WorkerRowOK, GenerationRow, Moments
  <2>2. CASE recorder[g].taken # {}
    <3> DEFINE st == Stamped(generation[g], recorder[g].taken)
    <3>0. progressTime \in Nat
      BY <1>2, StartedGeneration
    <3>1. /\ st \in GenerationRow /\ st.seen = progressTime
          /\ WorkerRowOK(st, "gone", progressTime)
          /\ \A a \in Activities : st.last[a] =
                IF a \in recorder[g].taken THEN progressTime ELSE generation[g].last[a]
      BY <1>3, <2>2, <3>0, StampedRow
    <3>2. new = [st EXCEPT !.stopped = progressTime]
      BY <2>2 DEF StopRow
    <3> HIDE DEF st, new
    <3>4. /\ new \in GenerationRow /\ new.stopped = progressTime /\ new.last = st.last
          /\ new.started = st.started /\ new.seen = st.seen
      BY <3>0, <3>1, <3>2 DEF GenerationRow, Moments
    <3>5. WorkerRowOK(new, "gone", progressTime)
      BY <3>0, <3>1, <3>4 DEF WorkerRowOK
    <3> QED BY <3>1, <3>4, <3>5
  <2> QED BY <2>1, <2>2
<1>5. \A ok \in BOOLEAN :
         /\ put(ok) \in Recorder /\ RecorderOK(put(ok)) /\ put(ok).life = "gone"
         /\ put(ok).pending = IF ok THEN recorder[g].pending
                                    ELSE recorder[g].pending \cup recorder[g].taken
  BY <1>2, StartedGeneration DEF Settled, Recorder, RecorderOK
<1>6. PICK ok \in BOOLEAN, row \in {generation[g], new} :
         /\ ok => row = new
         /\ recorder' = [recorder EXCEPT ![g] = put(ok)]
         /\ generation' = [generation EXCEPT ![g] = row]
  <2>1. generation = [generation EXCEPT ![g] = generation[g]]
    BY <1>2, StartedGeneration
  <2> QED BY <2>1 DEF EndStop
<1> HIDE DEF new, put
<1>7. \A a \in Activities :
         noted[g][a] <= progressTime /\ NoteKept(row, put(ok), noted[g][a], a)
  <2> SUFFICES ASSUME NEW a \in Activities
               PROVE  noted[g][a] <= progressTime /\ NoteKept(row, put(ok), noted[g][a], a)
    OBVIOUS
  <2>1. /\ noted[g][a] <= progressTime
        /\ NoteKept(generation[g], recorder[g], noted[g][a], a)
    BY <1>2, StartedGeneration
  <2> QED BY <1>2, <1>4, <1>5, <1>6, <2>1 DEF NoteKept
<1>8. WorkerRowOK(generation[g], "gone", progressTime)
  BY <1>3 DEF WorkerRowOK
<1>9. /\ recorder'[g] = put(ok) /\ generation'[g] = row
      /\ row \in GenerationRow /\ WorkerRowOK(row, "gone", progressTime)
  BY <1>2, <1>4, <1>6, <1>8, StartedGeneration
<1>10. GenerationOK(g)'
  BY <1>1, <1>5, <1>7, <1>9 DEF GenerationOK
<1> QED BY <1>1, <1>2, <1>5, <1>6, <1>9, <1>10, StartedGeneration, OneGeneration

LEMMA ProgressTickInv == ProgressIInv /\ ProgressTick => ProgressIInv'
<1> SUFFICES ASSUME ProgressIInv, ProgressTick PROVE ProgressIInv'
  OBVIOUS
<1>1. /\ progressTime \in Nat /\ progressTime' = progressTime + 1
      /\ UNCHANGED <<generation, recorder, noted>>
      /\ noted \in [Generations -> [Activities -> Moments]]
  BY DEF ProgressIInv, ProgressTypeOK, ProgressTick
<1>2. ProgressTypeOK'
  BY <1>1 DEF ProgressIInv, ProgressTypeOK
<1>3. ASSUME NEW g \in Generations PROVE GenerationOK(g)'
  <2>1. GenerationOK(g) /\ \A a \in Activities : noted[g][a] \in Int
    BY <1>1 DEF ProgressIInv, Moments, Never
  <2>2. \A row, life : WorkerRowOK(row, life, progressTime) => WorkerRowOK(row, life, progressTime')
    BY <1>1 DEF WorkerRowOK, GenerationRow
  <2>3. \A a \in Activities : noted[g][a] <= progressTime => noted[g][a] <= progressTime'
    BY <1>1, <2>1
  <2> QED BY <1>1, <2>1, <2>2, <2>3 DEF GenerationOK
<1> QED BY <1>2, <1>3 DEF ProgressIInv

LEMMA ProgressNextInv == ProgressIInv /\ [ProgressNext]_progressVars => ProgressIInv'
<1>1. ASSUME ProgressIInv, UNCHANGED progressVars PROVE ProgressIInv'
  BY <1>1 DEF progressVars, ProgressIInv, ProgressTypeOK, GenerationOK
<1>2. ASSUME ProgressIInv, ProgressNext PROVE ProgressIInv'
  BY <1>2, ProgressTickInv, StartGenerationInv, RecorderInv, FlushInv, EndStopInv, NoteInv
  DEF ProgressNext
<1> QED BY <1>1, <1>2

\* Whatever order notes, flushes, failures and the stop of a worker come in,
\* no note is lost before the row has it, and the row tells the truth.
THEOREM ProgressKept == ProgressSpec => []ProgressInv
<1>1. ASSUME ProgressIInv PROVE NotesSurvive
  <2> SUFFICES ASSUME NEW g \in Generations, NEW a \in Activities,
                      noted[g][a] # Never, recorder[g].life # "killed"
               PROVE  \/ a \in recorder[g].pending \cup recorder[g].taken
                      \/ generation[g].last[a] >= noted[g][a]
    BY DEF NotesSurvive
  <2>1. recorder[g].life # "new" /\ GenerationOK(g)
    BY <1>1 DEF ProgressIInv, GenerationOK
  <2> QED BY <2>1 DEF GenerationOK, NoteKept
<1>2. ASSUME ProgressIInv PROVE RowsTellTheTruth
  <2> SUFFICES ASSUME NEW g \in Generations, Registered(g)
               PROVE  WorkerRowOK(generation[g], recorder[g].life, progressTime)
    BY DEF RowsTellTheTruth, WorkerRowOK
  <2>1. recorder[g].life # "new"
    BY <1>2 DEF ProgressIInv, GenerationOK, Registered, Unregistered
  <2> QED BY <1>2, <2>1, StartedGeneration
<1> QED BY <1>1, <1>2, ProgressInitInv, ProgressNextInv, PTL DEF ProgressSpec, ProgressInv

-----------------------------------------------------------------------------
(***************************************************************************)
(* AuditRetention, for any number of operators, paths, keys and events.    *)
(***************************************************************************)
Mutating == {"begin", "classify", "flush", "commit", "inflight", "post"}
Locked   == {"classify", "flush", "commit", "inflight"}

\* The archive is in a file whose archive command reported success.
InArchive(arc) == \E p \in archived : files[p] = arc

\* What one process may rely on.  A mutation works on a reported archive, and
\* a delete about to commit still finds every row it lists; the file a command
\* has linked is its own until the directory is synced.
OpFits(x) ==
    /\ x.arc.events \subseteq appended
    /\ x.pc \in {"link", "sync"} => x.path \in Paths
    /\ x.pc = "sync" => x.path \notin durable /\ files[x.path] = x.arc /\ x.arc # NoFile
    /\ x.pc \in Mutating => InArchive(x.arc) /\ x.cmd \in {"delete", "restore"}
    /\ x.pc = "flush" => x.cmd = "restore"
    /\ x.pc \in {"commit", "inflight"} =>
          /\ x.staged \subseteq x.arc.events
          /\ x.cmd = "delete" => /\ x.staged = x.arc.events
                                 /\ x.staged \subseteq rows
                                 /\ \A e \in x.staged : e.expires < clock
    /\ x.changed => x.pc = "post"
    /\ x.exit = 2 => x.pc = "idle"

\* Every event is in the table or in a reported archive: a file that was never
\* reported protects nothing, because it may vanish.
KeptOrArchived ==
    \A e \in appended : e \in rows \/ \E p \in archived : e \in files[p].events

FilesOK ==
    /\ \A p \in Paths : files[p].events \subseteq appended
    /\ \A p \in archived : files[p] # NoFile
    /\ durable \subseteq archived
    /\ \A o \in Operators : verified[o] # NoFile => InArchive(verified[o])

\* Two commands never own one path.
OwnTargets ==
    \A o, u \in Operators :
        o # u /\ op[o].pc = "sync" /\ op[u].pc = "sync" => op[o].path # op[u].path

RetIInv ==
    /\ RetTypeOK /\ IsFiniteSet(appended) /\ KeptOrArchived /\ FilesOK /\ OwnTargets
    /\ \A o \in Operators : OpFits(op[o])

LEMMA NoFileArchive == NoFile \in Archive /\ NoFile.events = {}
  BY RetentionAssumption DEF NoFile, Archive

\* A command that ends: nothing is left of it but its exit code, which is not
\* 2 if a commit was acknowledged.
LEMMA IdleFits ==
    ASSUME NEW exit \in {0, 2, 3, 4, 9}, NEW changed \in BOOLEAN, exit = 2 => ~changed
    PROVE  /\ Idle(exit, changed) = [pc |-> "idle", cmd |-> "none", path |-> "none", arc |-> NoFile,
                                      staged |-> {}, exit |-> exit, changed |-> FALSE]
           /\ Idle(exit, changed) \in Process
           /\ OpFits(Idle(exit, changed))
           /\ Idle(exit, changed).pc = "idle"
<1>1. Idle(exit, changed) = [pc |-> "idle", cmd |-> "none", path |-> "none", arc |-> NoFile,
                             staged |-> {}, exit |-> exit, changed |-> FALSE]
  BY DEF Idle
<1>2. Idle(exit, changed) \in Process
  BY <1>1, NoFileArchive DEF Process
<1> QED BY <1>1, <1>2, NoFileArchive DEF OpFits, Mutating

\* What the invariant says of one process.
LEMMA OneOp ==
    ASSUME RetIInv, NEW o \in Operators
    PROVE  /\ op[o] \in Process /\ OpFits(op[o])
           /\ op \in [Operators -> Process]
           /\ op[o].arc \in Archive
           /\ lock = o <=> op[o].pc \in Locked
           /\ op[o].changed \in BOOLEAN
           /\ op[o].pc # "post" => op[o].changed = FALSE
  BY DEF RetIInv, RetTypeOK, OpFits, Process, Locked

\* A step that moves one process, which links nothing, and perhaps the lock.
LEMMA QuietOp ==
    ASSUME RetIInv, NEW o \in Operators, NEW x \in Process, OpFits(x), x.pc # "sync",
           op' = [op EXCEPT ![o] = x],
           UNCHANGED <<rows, appended, clock, files, durable, archived, verified>>,
           lock' = o <=> x.pc \in Locked,
           \A u \in Operators : u # o => (lock' = u <=> lock = u)
    PROVE  RetIInv'
<1>1. op \in [Operators -> Process] /\ op' \in [Operators -> Process] /\ op'[o] = x
  BY DEF RetIInv, RetTypeOK
<1>2. RetTypeOK'
  <2>1. ASSUME NEW u \in Operators
        PROVE  lock' = u <=> op'[u].pc \in {"classify", "flush", "commit", "inflight"}
    BY <1>1 DEF RetIInv, RetTypeOK, Locked
  <2> QED BY <1>1, <2>1 DEF RetIInv, RetTypeOK
<1>3. KeptOrArchived' /\ IsFiniteSet(appended)' /\ FilesOK'
  BY DEF RetIInv, KeptOrArchived, FilesOK, InArchive
<1>4. OwnTargets'
  BY <1>1 DEF RetIInv, OwnTargets
<1>5. \A u \in Operators : OpFits(op[u])' 
  BY <1>1 DEF RetIInv, OpFits, InArchive
<1> QED BY <1>2, <1>3, <1>4, <1>5 DEF RetIInv

\* A command that ends without having written anything, from any state but
\* "post" (where it may only report 0, 3 or 9).
LEMMA EndOp ==
    ASSUME RetIInv, NEW o \in Operators, NEW exit \in {0, 2, 3, 4, 9}, NEW changed \in BOOLEAN,
           exit = 2 => ~changed,
           op' = [op EXCEPT ![o] = Idle(exit, changed)],
           UNCHANGED <<rows, appended, clock, files, durable, archived, verified>>,
           lock' = IF lock = o THEN NoOne ELSE lock
    PROVE  RetIInv'
<1>1. lock' # o /\ \A u \in Operators : u # o => (lock' = u <=> lock = u)
  BY OperatorAssumption
<1>2. /\ Idle(exit, changed) \in Process /\ OpFits(Idle(exit, changed))
      /\ Idle(exit, changed).pc = "idle"
  BY IdleFits
<1> QED BY <1>1, <1>2, QuietOp DEF Locked

LEMMA RetInitInv == RetInit => RetIInv
<1> SUFFICES ASSUME RetInit PROVE RetIInv
  OBVIOUS
<1>1. IsFiniteSet(appended) /\ KeptOrArchived /\ FilesOK
  BY FS_EmptySet, NoFileArchive DEF RetInit, KeptOrArchived, FilesOK
<1>2. \A o \in Operators : op[o] \in Process /\ OpFits(op[o]) /\ op[o].pc = "idle"
  BY IdleFits DEF RetInit
<1>3. RetTypeOK
  <2>1. op \in [Operators -> Process]
    BY <1>2 DEF RetInit
  <2>2. \A o \in Operators : lock # o
    BY OperatorAssumption DEF RetInit
  <2>3. files \in [Paths -> Archive] /\ verified \in [Operators -> Archive] /\ clock \in 0..MaxClock
    BY NoFileArchive, RetentionAssumption DEF RetInit
  <2> QED BY <1>2, <2>1, <2>2, <2>3 DEF RetInit, RetTypeOK
<1>4. OwnTargets
  BY <1>2 DEF OwnTargets
<1> QED BY <1>1, <1>2, <1>3, <1>4 DEF RetIInv

\* The commands that only start, fail, refuse or report.
LEMMA ArchiveSnapshotInv ==
    ASSUME RetIInv, NEW o \in Operators, NEW p \in Paths, ArchiveSnapshot(o, p)
    PROVE  RetIInv'
<1> DEFINE arc == [cutoff |-> clock, events |-> Archivable(clock)]
           x == [Idle(0, FALSE) EXCEPT !.pc = "link", !.cmd = "archive", !.path = p, !.arc = arc]
<1>1. /\ op[o].pc = "idle" /\ op' = [op EXCEPT ![o] = x] /\ lock' = lock
      /\ UNCHANGED <<rows, appended, clock, files, durable, archived, verified>>
  BY DEF ArchiveSnapshot
<1>2. Archivable(clock) \subseteq rows /\ rows \subseteq appended /\ appended \subseteq AuditEvent
  BY DEF Archivable, RetIInv, RetTypeOK
<1>3. arc \in Archive /\ arc.events \subseteq appended
  BY <1>2, RetentionAssumption DEF Archive, RetIInv, RetTypeOK
<1> HIDE DEF arc
<1>4. /\ x \in Process /\ x.pc = "link" /\ x.arc = arc /\ x.path = p
      /\ x.changed = FALSE /\ x.exit = 0
  BY <1>3 DEF Idle, Process
<1> HIDE DEF x
<1>5. OpFits(x)
  BY <1>3, <1>4 DEF OpFits, Mutating
<1>6. lock # o
  BY <1>1, OneOp DEF Locked
<1> QED BY <1>1, <1>4, <1>5, <1>6, QuietOp DEF Locked

LEMMA ConfirmInv ==
    ASSUME RetIInv, NEW o \in Operators, NEW p \in Paths, NEW cmd \in {"delete", "restore"},
           Confirm(o, cmd, p)
    PROVE  RetIInv'
<1>1. /\ op[o].pc = "idle" /\ lock' = lock /\ lock # o /\ verified[o] # NoFile
      /\ UNCHANGED <<rows, appended, clock, files, durable, archived, verified>>
  BY OneOp DEF Confirm, Locked
<1>2. CASE op' = [op EXCEPT ![o] = Idle(2, op[o].changed)]
  BY <1>1, <1>2, OneOp, EndOp
<1>3. CASE ValidArchive(files[p]) /\ files[p] = verified[o]
  <2> DEFINE x == [Idle(0, FALSE) EXCEPT !.pc = "begin", !.cmd = cmd, !.path = p, !.arc = files[p]]
  <2>1. op' = [op EXCEPT ![o] = x]
    BY <1>3 DEF Confirm
  <2>2. /\ files[p] \in Archive /\ files[p].events \subseteq appended
        /\ InArchive(files[p])
    BY <1>1, <1>3 DEF RetIInv, RetTypeOK, FilesOK
  <2>3. /\ x \in Process /\ x.pc = "begin" /\ x.arc = files[p] /\ x.cmd = cmd
        /\ x.changed = FALSE /\ x.exit = 0
    BY <2>2 DEF Idle, Process
  <2> HIDE DEF x
  <2>4. OpFits(x)
    BY <2>2, <2>3 DEF OpFits, Mutating
  <2> QED BY <1>1, <2>1, <2>3, <2>4, QuietOp DEF Locked
<1> QED BY <1>2, <1>3 DEF Confirm

\* Commands that end, by a refusal, an error, a kill or with their report.
LEMMA EndingInv ==
    ASSUME RetIInv, NEW o \in Operators, PrecommitFails(o) \/ PostCommit(o) \/ Kill(o)
    PROVE  RetIInv'
<1>1. CASE PrecommitFails(o)
  BY <1>1, OneOp, EndOp DEF PrecommitFails
<1>0. op[o].changed \in BOOLEAN
  BY OneOp
<1>2. CASE Kill(o)
  <2>1. PICK exit \in {9} :
           /\ op' = [op EXCEPT ![o] = Idle(exit, op[o].changed)]
           /\ UNCHANGED <<rows, appended, clock, files, durable, archived, verified>>
           /\ lock' = IF lock = o THEN NoOne ELSE lock
    BY <1>2 DEF Kill
  <2>2. exit \in {0, 2, 3, 4, 9} /\ exit # 2
    OBVIOUS
  <2> QED BY <1>0, <2>1, <2>2, EndOp
<1>3. CASE PostCommit(o)
  <2>1. PICK exit \in {0, 3} : op' = [op EXCEPT ![o] = Idle(exit, op[o].changed)]
    BY <1>3 DEF PostCommit
  <2>2. lock # o
    BY <1>3, OneOp DEF PostCommit, Locked
  <2>3. exit \in {0, 2, 3, 4, 9} /\ exit # 2
    OBVIOUS
  <2> QED BY <1>0, <1>3, <2>1, <2>2, <2>3, EndOp DEF PostCommit
<1> QED BY <1>1, <1>2, <1>3

LEMMA BeginMutationInv ==
    ASSUME RetIInv, NEW o \in Operators, BeginMutation(o)
    PROVE  RetIInv'
<1> DEFINE x == [op[o] EXCEPT !.pc = "classify"]
<1>1. /\ op[o].pc = "begin" /\ lock = NoOne /\ lock' = o /\ op' = [op EXCEPT ![o] = x]
      /\ UNCHANGED <<rows, appended, clock, files, durable, archived, verified>>
  BY OneOp DEF BeginMutation
<1>2. x \in Process /\ OpFits(x) /\ x.pc = "classify"
  BY <1>1, OneOp DEF Process, OpFits, Mutating
<1>3. \A u \in Operators : u # o => (lock' = u <=> lock = u)
  BY <1>1, OperatorAssumption
<1> HIDE DEF x
<1> QED BY <1>1, <1>2, <1>3, QuietOp DEF Locked

\* Inside the transaction: the lock's holder is alone with the rows.
LEMMA LockHolder ==
    ASSUME RetIInv, NEW o \in Operators, op[o].pc \in Locked
    PROVE  /\ lock = o
           /\ \A u \in Operators : u # o => op[u].pc \notin Locked /\ lock # u
  BY DEF RetIInv, RetTypeOK, Locked

LEMMA LeaveTransaction ==
    ASSUME RetIInv, NEW o \in Operators, op[o].pc = "classify",
           RollBack(o, Idle(2, op[o].changed)) \/ RollBack(o, [op[o] EXCEPT !.pc = "post"]),
           UNCHANGED <<rows, appended, clock, files, durable, archived, verified>>
    PROVE  RetIInv'
<1>1. lock = o /\ lock' = NoOne
  BY LockHolder DEF RollBack, Locked
<1>2. CASE RollBack(o, Idle(2, op[o].changed))
  BY <1>1, <1>2, OneOp, EndOp DEF RollBack
<1>3. CASE RollBack(o, [op[o] EXCEPT !.pc = "post"])
  <2> DEFINE x == [op[o] EXCEPT !.pc = "post"]
  <2>1. x \in Process /\ OpFits(x) /\ x.pc = "post" /\ op' = [op EXCEPT ![o] = x]
    BY <1>3, OneOp DEF Process, OpFits, Mutating, RollBack
  <2> HIDE DEF x
  <2> QED BY <1>1, <2>1, OperatorAssumption, QuietOp DEF Locked
<1> QED BY <1>2, <1>3

LEMMA StageDeleteInv ==
    ASSUME RetIInv, NEW o \in Operators, StageDelete(o)
    PROVE  RetIInv'
<1> DEFINE arc == op[o].arc
           x == [op[o] EXCEPT !.pc = "commit", !.staged = arc.events]
<1>1. /\ op[o].pc = "classify" /\ op[o].cmd = "delete"
      /\ UNCHANGED <<rows, appended, clock, files, durable, archived, verified>>
  BY DEF StageDelete
<1>2. CASE RollBack(o, Idle(2, op[o].changed)) \/ RollBack(o, [op[o] EXCEPT !.pc = "post"])
  BY <1>1, <1>2, LeaveTransaction
<1>3. CASE /\ PastRetention(arc) /\ Status(arc) = "all_exact"
           /\ op' = [op EXCEPT ![o].pc = "commit", ![o].staged = arc.events]
           /\ UNCHANGED lock
  <2>1. arc.events \subseteq rows
    BY <1>3 DEF Status, Exact
  <2>2. \A e \in arc.events : e.expires < clock
    BY <1>3 DEF PastRetention
  <2>3. /\ x \in Process /\ x.pc = "commit" /\ x.cmd = "delete" /\ x.arc = arc
        /\ x.staged = arc.events /\ x.changed = FALSE /\ x.exit = op[o].exit
        /\ op' = [op EXCEPT ![o] = x]
    BY <1>1, <1>3, OneOp DEF Process, Archive
  <2> HIDE DEF x
  <2>4. OpFits(x)
    BY <1>1, <2>1, <2>2, <2>3, OneOp DEF OpFits, Mutating
  <2> QED BY <1>1, <1>3, <2>3, <2>4, LockHolder, QuietOp DEF Locked
<1> QED BY <1>2, <1>3 DEF StageDelete

LEMMA RestoreInv ==
    ASSUME RetIInv, NEW o \in Operators, ClassifyRestore(o) \/ FlushRestore(o)
    PROVE  RetIInv'
<1>1. UNCHANGED <<rows, appended, clock, files, durable, archived, verified>>
  BY DEF ClassifyRestore, FlushRestore
<1>2. CASE /\ op[o].pc = "classify"
           /\ RollBack(o, Idle(2, op[o].changed)) \/ RollBack(o, [op[o] EXCEPT !.pc = "post"])
  BY <1>1, <1>2, LeaveTransaction
<1>3. CASE /\ op[o].pc = "classify" /\ op[o].cmd = "restore" /\ UNCHANGED lock
           /\ op' = [op EXCEPT ![o].pc = "flush"]
  <2> DEFINE x == [op[o] EXCEPT !.pc = "flush"]
  <2>1. x \in Process /\ OpFits(x) /\ x.pc = "flush" /\ op' = [op EXCEPT ![o] = x]
    BY <1>3, OneOp DEF Process, OpFits, Mutating
  <2> HIDE DEF x
  <2> QED BY <1>1, <1>3, <2>1, LockHolder, QuietOp DEF Locked
<1>4. CASE FlushRestore(o)
  <2> DEFINE x == [op[o] EXCEPT !.pc = "commit", !.staged = Absent(op[o].arc)]
  <2>1. Absent(op[o].arc) \subseteq op[o].arc.events
    BY DEF Absent
  <2>2. /\ x \in Process /\ x.pc = "commit" /\ x.cmd = op[o].cmd /\ x.arc = op[o].arc
        /\ x.staged = Absent(op[o].arc) /\ x.changed = FALSE /\ x.exit = op[o].exit
        /\ op' = [op EXCEPT ![o] = x]
    BY <1>4, <2>1, OneOp DEF FlushRestore, Process, Archive
  <2>3. op[o].cmd = "restore"
    BY <1>4, OneOp DEF OpFits, FlushRestore
  <2> HIDE DEF x
  <2>4. OpFits(x)
    BY <1>4, <2>1, <2>2, <2>3, OneOp DEF FlushRestore, OpFits, Mutating
  <2> QED BY <1>1, <1>4, <2>2, <2>4, LockHolder, QuietOp DEF Locked, FlushRestore
<1> QED BY <1>2, <1>3, <1>4 DEF ClassifyRestore

\* The database side: a new event, or time.
LEMMA AppendEventInv ==
    ASSUME RetIInv, NEW k \in Keys, AppendEvent(k)
    PROVE  RetIInv'
<1> DEFINE e == [id |-> Cardinality(appended) + 1, key |-> k, expires |-> clock + Retention]
<1>1. /\ Cardinality(appended) < MaxEvents
      /\ rows' = rows \cup {e} /\ appended' = appended \cup {e}
      /\ UNCHANGED <<clock, files, durable, archived, verified, op, lock>>
  BY DEF AppendEvent
<1>2. e \in AuditEvent
  <2>1. Cardinality(appended) \in Nat
    BY FS_CardinalityType DEF RetIInv
  <2>2. Cardinality(appended) + 1 \in 1..MaxEvents /\ clock + Retention \in 0..(MaxClock + Retention)
    BY <1>1, <2>1, RetentionAssumption DEF RetIInv, RetTypeOK
  <2> QED BY <2>2 DEF AuditEvent
<1>3. IsFiniteSet(appended')
  BY <1>1, FS_AddElement DEF RetIInv
<1> HIDE DEF e
<1>4. RetTypeOK'
  BY <1>1, <1>2 DEF RetIInv, RetTypeOK
<1>5. KeptOrArchived' /\ FilesOK' /\ OwnTargets'
  BY <1>1 DEF RetIInv, KeptOrArchived, FilesOK, OwnTargets, InArchive
<1>6. \A o \in Operators : OpFits(op[o])'
  BY <1>1 DEF RetIInv, OpFits, InArchive
<1> QED BY <1>3, <1>4, <1>5, <1>6 DEF RetIInv

LEMMA ClockTickInv == RetIInv /\ ClockTick => RetIInv'
<1> SUFFICES ASSUME RetIInv, ClockTick PROVE RetIInv'
  OBVIOUS
<1>1. /\ clock \in 0..MaxClock /\ clock' = clock + 1 /\ clock < MaxClock
      /\ UNCHANGED <<rows, appended, files, durable, archived, verified, op, lock>>
  BY DEF RetIInv, RetTypeOK, ClockTick
<1>2. clock' \in 0..MaxClock /\ \A e \in AuditEvent : e.expires < clock => e.expires < clock'
  BY <1>1, RetentionAssumption DEF AuditEvent
<1>3. RetTypeOK'
  BY <1>1, <1>2 DEF RetIInv, RetTypeOK
<1>4. KeptOrArchived' /\ FilesOK' /\ OwnTargets' /\ IsFiniteSet(appended)'
  BY <1>1 DEF RetIInv, KeptOrArchived, FilesOK, OwnTargets, InArchive
<1>5. ASSUME NEW o \in Operators PROVE OpFits(op[o])'
  <2>1. OpFits(op[o]) /\ op[o].staged \subseteq AuditEvent
    BY OneOp DEF Process
  <2> QED BY <1>1, <1>2, <2>1 DEF OpFits, InArchive
<1> QED BY <1>3, <1>4, <1>5 DEF RetIInv

\* Files.  A path that was reported keeps its archive: link(2) needs a free
\* name, and a failed write removes only what its own command linked.
LEMMA ReportedStays ==
    ASSUME RetIInv, NEW o \in Operators, LinkTarget(o) \/ WriteFails(o)
    PROVE  /\ \A p \in archived : files'[p] = files[p]
           /\ \A u \in Operators :
                 u # o /\ op[u].pc = "sync" => files'[op[u].path] = files[op[u].path]
           /\ files' \in [Paths -> Archive]
           /\ \A p \in Paths : files'[p].events \subseteq appended
<1> DEFINE p == op[o].path
<1>1. /\ files \in [Paths -> Archive] /\ archived \subseteq durable /\ op[o].arc \in Archive
      /\ \A q \in archived : files[q] # NoFile /\ q \in Paths
      /\ \A q \in Paths : files[q].events \subseteq appended
      /\ op[o].arc.events \subseteq appended
      /\ \A u \in Operators : op[u].pc = "sync" => op[u].path \in Paths
  BY OneOp DEF RetIInv, RetTypeOK, FilesOK, OpFits
<1>2. CASE /\ op[o].pc = "link" /\ files[p] = NoFile
           /\ files' = [files EXCEPT ![p] = op[o].arc]
  <2>1. \A u \in Operators : op[u].pc = "sync" => op[u].path # p
    BY <1>2, OneOp DEF OpFits
  <2> QED BY <1>1, <1>2, <2>1
<1>3. CASE files' = files
  BY <1>1, <1>3
<1>4. CASE op[o].pc = "sync" /\ files' = [files EXCEPT ![p] = NoFile]
  <2>1. p \notin durable
    BY <1>4, OneOp DEF OpFits
  <2>2. \A u \in Operators : u # o /\ op[u].pc = "sync" => op[u].path # p
    BY <1>4 DEF RetIInv, OwnTargets
  <2> QED BY <1>1, <1>4, <2>1, <2>2, NoFileArchive
<1> QED BY <1>2, <1>3, <1>4 DEF LinkTarget, WriteFails

\* LinkTarget and WriteFails, given what they leave of the process.
LEMMA TargetStep ==
    ASSUME RetIInv, NEW o \in Operators, LinkTarget(o) \/ WriteFails(o),
           NEW x \in Process, op' = [op EXCEPT ![o] = x], OpFits(x)',
           x.pc \notin Locked,
           x.pc = "sync" => \A u \in Operators : op[u].pc = "sync" => op[u].path # x.path
    PROVE  RetIInv'
<1>1. /\ UNCHANGED <<rows, appended, clock, durable, archived, verified, lock>>
      /\ op[o].pc \notin Locked /\ lock # o
  BY OneOp DEF LinkTarget, WriteFails, Locked
<1>2. /\ op \in [Operators -> Process] /\ op' \in [Operators -> Process] /\ op'[o] = x
      /\ \A u \in Operators : u # o => op'[u] = op[u]
  BY DEF RetIInv, RetTypeOK
<1>3. /\ \A p \in archived : files'[p] = files[p]
      /\ \A u \in Operators : u # o /\ op[u].pc = "sync" => files'[op[u].path] = files[op[u].path]
      /\ files' \in [Paths -> Archive]
      /\ \A p \in Paths : files'[p].events \subseteq appended
  BY ReportedStays
<1>4. RetTypeOK'
  <2>1. ASSUME NEW u \in Operators
        PROVE  lock' = u <=> op'[u].pc \in {"classify", "flush", "commit", "inflight"}
    BY <1>1, <1>2 DEF RetIInv, RetTypeOK, Locked
  <2> QED BY <1>1, <1>2, <1>3, <2>1 DEF RetIInv, RetTypeOK
<1>5. KeptOrArchived' /\ FilesOK' /\ IsFiniteSet(appended)'
  BY <1>1, <1>3 DEF RetIInv, KeptOrArchived, FilesOK, InArchive
<1>6. OwnTargets'
  BY <1>2 DEF RetIInv, OwnTargets
<1>7. ASSUME NEW u \in Operators PROVE OpFits(op[u])'
  <2>1. CASE u = o
    BY <1>2, <2>1
  <2>2. CASE u # o
    <3>1. OpFits(op[u]) /\ op'[u] = op[u]
      BY <1>2, <2>2, OneOp
    <3>2. op[u].pc = "sync" => files'[op[u].path] = files[op[u].path]
      BY <1>3, <2>2
    <3>3. InArchive(op[u].arc) => InArchive(op[u].arc)'
      BY <1>1, <1>3, <3>1 DEF InArchive
    <3> QED BY <1>1, <3>1, <3>2, <3>3 DEF OpFits
  <2> QED BY <2>1, <2>2
<1> QED BY <1>4, <1>5, <1>6, <1>7 DEF RetIInv

LEMMA LinkTargetInv ==
    ASSUME RetIInv, NEW o \in Operators, LinkTarget(o)
    PROVE  RetIInv'
<1>1. /\ op[o].pc = "link" /\ op[o].path \in Paths /\ op[o].arc \in Archive
      /\ op[o].changed = FALSE /\ op[o].exit # 2 /\ op[o].arc.events \subseteq appended
      /\ UNCHANGED <<rows, appended, clock, durable, archived, verified, lock>>
  BY OneOp DEF LinkTarget, OpFits
<1>2. CASE files[op[o].path] = NoFile /\ ValidArchive(op[o].arc)
  <2>0. PICK x : x = [op[o] EXCEPT !.pc = "sync"]
    OBVIOUS
  <2>1. /\ files' = [files EXCEPT ![op[o].path] = op[o].arc]
        /\ op' = [op EXCEPT ![o] = x]
    BY <1>2, <2>0, OneOp DEF LinkTarget
  <2>2. /\ x \in Process /\ x.pc = "sync" /\ x.path = op[o].path /\ x.arc = op[o].arc
        /\ x.changed = FALSE /\ x.exit # 2
    BY <1>1, <2>0, OneOp DEF Process
  <2>3. op[o].path \notin durable
    BY <1>2 DEF RetIInv, FilesOK
  <2>4. x.arc # NoFile /\ files'[x.path] = x.arc
    BY <1>1, <1>2, <2>1, <2>2 DEF ValidArchive, RetIInv, RetTypeOK
  <2>5. \A u \in Operators : op[u].pc = "sync" => op[u].path # x.path
    BY <1>2, <2>2, OneOp DEF OpFits
  <2>6. OpFits(x)'
    BY <1>1, <2>2, <2>3, <2>4 DEF OpFits, Mutating
  <2> QED BY <2>1, <2>2, <2>5, <2>6, TargetStep DEF Locked
<1>3. CASE ~(files[op[o].path] = NoFile /\ ValidArchive(op[o].arc))
  <2>1. op' = [op EXCEPT ![o] = Idle(2, op[o].changed)] /\ files' = files
    BY <1>3 DEF LinkTarget
  <2>2. lock # o
    BY <1>1, OneOp DEF Locked
  <2> QED BY <1>1, <2>1, <2>2, EndOp
<1> QED BY <1>2, <1>3

LEMMA WriteFailsInv ==
    ASSUME RetIInv, NEW o \in Operators, WriteFails(o)
    PROVE  RetIInv'
<1>0. PICK x : x = Idle(2, op[o].changed)
  OBVIOUS
<1>1. op[o].changed = FALSE /\ op' = [op EXCEPT ![o] = x] /\ appended' = appended
  BY <1>0, OneOp DEF WriteFails
<1>2. x = [pc |-> "idle", cmd |-> "none", path |-> "none", arc |-> NoFile,
           staged |-> {}, exit |-> 2, changed |-> FALSE]
  BY <1>0, <1>1 DEF Idle
<1>3. x \in Process /\ x.pc = "idle"
  BY <1>0, <1>1, IdleFits
<1>4. OpFits(x)'
  BY <1>2, NoFileArchive DEF OpFits, Mutating
<1> QED BY <1>1, <1>3, <1>4, TargetStep DEF Locked

\* The directory is synced: the path is reported, with the archive in it.
LEMMA FsyncDirectoryInv ==
    ASSUME RetIInv, NEW o \in Operators, FsyncDirectory(o)
    PROVE  RetIInv'
<1>0. PICK x, p : x = Idle(0, FALSE) /\ p = op[o].path
  OBVIOUS
<1>1. /\ op[o].pc = "sync" /\ p \in Paths /\ files[p] = op[o].arc /\ files[p] # NoFile
      /\ durable' = durable \cup {p} /\ archived' = archived \cup {p}
      /\ op' = [op EXCEPT ![o] = x] /\ lock # o
      /\ UNCHANGED <<rows, appended, clock, files, verified, lock>>
  BY <1>0, OneOp DEF FsyncDirectory, OpFits, Locked
<1>2. x = [pc |-> "idle", cmd |-> "none", path |-> "none", arc |-> NoFile,
           staged |-> {}, exit |-> 0, changed |-> FALSE]
  BY <1>0 DEF Idle
<1>3. x \in Process /\ x.pc = "idle"
  BY <1>0, IdleFits
<1>4. OpFits(x)'
  BY <1>2, NoFileArchive DEF OpFits, Mutating
<1>5. /\ op' \in [Operators -> Process] /\ op'[o] = x
      /\ \A u \in Operators : u # o => op'[u] = op[u]
  BY <1>1, <1>3 DEF RetIInv, RetTypeOK
<1>6. RetTypeOK'
  <2>1. ASSUME NEW u \in Operators
        PROVE  lock' = u <=> op'[u].pc \in {"classify", "flush", "commit", "inflight"}
    BY <1>1, <1>3, <1>5 DEF RetIInv, RetTypeOK
  <2> QED BY <1>1, <1>5, <2>1 DEF RetIInv, RetTypeOK
<1>7. KeptOrArchived' /\ FilesOK' /\ IsFiniteSet(appended)'
  BY <1>1 DEF RetIInv, KeptOrArchived, FilesOK, InArchive
<1>8. OwnTargets'
  BY <1>3, <1>5 DEF RetIInv, OwnTargets
<1>9. ASSUME NEW u \in Operators PROVE OpFits(op[u])'
  <2>1. CASE u = o
    BY <1>4, <1>5, <2>1
  <2>2. CASE u # o
    <3>1. op[u].pc = "sync" => op[u].path # p
      BY <1>0, <1>1, <2>2 DEF RetIInv, OwnTargets
    <3> QED BY <1>1, <1>5, <2>2, <3>1, OneOp DEF OpFits, InArchive
  <2> QED BY <2>1, <2>2
<1> QED BY <1>6, <1>7, <1>8, <1>9 DEF RetIInv

LEMMA VerifyArchiveInv ==
    ASSUME RetIInv, NEW o \in Operators, NEW p \in Paths, VerifyArchive(o, p)
    PROVE  RetIInv'
<1>1. /\ p \in archived /\ verified' = [verified EXCEPT ![o] = files[p]]
      /\ UNCHANGED <<rows, appended, clock, files, durable, archived, op, lock>>
  BY DEF VerifyArchive
<1>2. RetTypeOK'
  BY <1>1 DEF RetIInv, RetTypeOK
<1>3. KeptOrArchived' /\ IsFiniteSet(appended)' /\ OwnTargets'
  BY <1>1 DEF RetIInv, KeptOrArchived, OwnTargets
<1>4. FilesOK'
  <2>1. \A u \in Operators : verified'[u] = IF u = o THEN files[p] ELSE verified[u]
    BY <1>1 DEF RetIInv, RetTypeOK
  <2> QED BY <1>1, <2>1 DEF RetIInv, FilesOK, InArchive
<1>5. \A u \in Operators : OpFits(op[u])'
  BY <1>1 DEF RetIInv, OpFits, InArchive
<1> QED BY <1>2, <1>3, <1>4, <1>5 DEF RetIInv

\* A commit takes effect: a delete takes away only rows that a reported
\* archive holds, a restore brings back only rows that were once appended.
LEMMA CommitStep ==
    ASSUME RetIInv, NEW o \in Operators, op[o].pc \in {"commit", "inflight"},
           rows' = Applied(o), lock' = NoOne,
           UNCHANGED <<appended, clock, files, durable, archived, verified>>,
           NEW x \in Process, op' = [op EXCEPT ![o] = x], OpFits(x)',
           x.pc \notin Locked, x.pc # "sync"
    PROVE  RetIInv'
<1>1. /\ op[o].staged \subseteq op[o].arc.events /\ op[o].arc.events \subseteq appended
      /\ InArchive(op[o].arc) /\ \A u \in Operators : u # o => op[u].pc \notin Locked
      /\ op \in [Operators -> Process]
  BY OneOp, LockHolder DEF OpFits, Locked, Mutating
<1>2. /\ rows' \subseteq appended
      /\ \A e \in rows : e \in rows' \/ e \in op[o].arc.events
  BY <1>1 DEF Applied, RetIInv, RetTypeOK
<1>3. /\ op' \in [Operators -> Process] /\ op'[o] = x
      /\ \A u \in Operators : u # o => op'[u] = op[u]
  BY <1>1
<1>4. RetTypeOK'
  <2>1. ASSUME NEW u \in Operators
        PROVE  lock' = u <=> op'[u].pc \in {"classify", "flush", "commit", "inflight"}
    BY <1>1, <1>3, OperatorAssumption DEF Locked
  <2> QED BY <1>2, <1>3, <2>1 DEF RetIInv, RetTypeOK
<1>5. KeptOrArchived'
  BY <1>1, <1>2 DEF RetIInv, KeptOrArchived, InArchive
<1>6. FilesOK' /\ IsFiniteSet(appended)'
  BY DEF RetIInv, FilesOK, InArchive
<1>7. OwnTargets'
  BY <1>3 DEF RetIInv, OwnTargets
<1>8. ASSUME NEW u \in Operators PROVE OpFits(op[u])'
  <2>1. CASE u = o
    BY <1>3, <2>1
  <2>2. CASE u # o
    BY <1>1, <1>3, <2>2, OneOp DEF OpFits, InArchive, Locked
  <2> QED BY <2>1, <2>2
<1> QED BY <1>4, <1>5, <1>6, <1>7, <1>8 DEF RetIInv

LEMMA CommitInv ==
    ASSUME RetIInv, NEW o \in Operators,
           CommitAcknowledged(o) \/ CommitUnknown(o) \/ ServerCommits(o)
    PROVE  RetIInv'
<1>1. /\ op[o].pc \in {"commit", "inflight"} /\ lock = o
      /\ UNCHANGED <<appended, clock, files, durable, archived, verified>>
  BY LockHolder DEF CommitAcknowledged, CommitUnknown, ServerCommits, Locked
<1>2. ASSUME NEW changed \in BOOLEAN, rows' = Applied(o), RollBack(o, Idle(4, changed))
      PROVE  RetIInv'
  <2>0. PICK x, exit : x = Idle(exit, changed) /\ exit = 4
    OBVIOUS
  <2>1. exit \in {0, 2, 3, 4, 9} /\ exit # 2
    BY <2>0
  <2>2. /\ x = [pc |-> "idle", cmd |-> "none", path |-> "none", arc |-> NoFile,
                staged |-> {}, exit |-> exit, changed |-> FALSE]
        /\ x \in Process
    BY <2>0, <2>1, IdleFits
  <2>3. OpFits(x)' /\ x.pc = "idle"
    BY <2>1, <2>2, NoFileArchive DEF OpFits, Mutating
  <2> QED BY <1>1, <1>2, <2>0, <2>2, <2>3, CommitStep DEF RollBack, Locked
<1>3. CASE CommitAcknowledged(o)
  <2>0. PICK x : x = [op[o] EXCEPT !.pc = "post", !.staged = {}, !.changed = TRUE]
    OBVIOUS
  <2>1. rows' = Applied(o) /\ lock' = NoOne /\ op' = [op EXCEPT ![o] = x]
    BY <1>3, <2>0 DEF CommitAcknowledged, RollBack
  <2>2. /\ x \in Process /\ x.pc = "post" /\ x.arc = op[o].arc /\ x.cmd = op[o].cmd
        /\ x.exit = op[o].exit
    BY <2>0, OneOp DEF Process
  <2>3. /\ InArchive(op[o].arc) /\ op[o].cmd \in {"delete", "restore"} /\ op[o].exit # 2
        /\ op[o].arc.events \subseteq appended
    BY <1>1, OneOp DEF OpFits, Mutating
  <2>4. OpFits(x)'
    BY <1>1, <2>2, <2>3 DEF OpFits, Mutating, InArchive
  <2> QED BY <1>1, <2>1, <2>2, <2>4, CommitStep DEF Locked
<1>4. CASE CommitUnknown(o)
  <2>1. CASE UNCHANGED rows /\ RollBack(o, Idle(4, FALSE))
    <3>1. PICK exit \in {4} : op' = [op EXCEPT ![o] = Idle(exit, FALSE)] /\ lock' = NoOne
      BY <2>1 DEF RollBack
    <3>2. exit \in {0, 2, 3, 4, 9} /\ exit # 2
      OBVIOUS
    <3> QED BY <1>1, <2>1, <3>1, <3>2, EndOp
  <2>2. CASE /\ op' = [op EXCEPT ![o].pc = "inflight", ![o].exit = 4]
             /\ UNCHANGED <<rows, lock>>
    <3> DEFINE x == [op[o] EXCEPT !.pc = "inflight", !.exit = 4]
    <3>1. op' = [op EXCEPT ![o] = x] /\ op[o].pc = "commit"
      BY <1>4, <2>2, OneOp DEF CommitUnknown
    <3>2. /\ x \in Process /\ x.pc = "inflight" /\ x.exit = 4 /\ x.arc = op[o].arc
          /\ x.cmd = op[o].cmd /\ x.staged = op[o].staged /\ x.changed = op[o].changed
      BY OneOp DEF Process
    <3> HIDE DEF x
    <3>3. OpFits(op[o]) /\ op[o].changed = FALSE
      BY <3>1, OneOp
    <3>4. OpFits(x)
      BY <3>1, <3>2, <3>3 DEF OpFits, Mutating
    <3> QED BY <1>1, <2>2, <3>1, <3>2, <3>4, QuietOp DEF Locked
  <2> QED BY <1>2, <1>4, <2>1, <2>2 DEF CommitUnknown
<1>5. CASE ServerCommits(o)
  BY <1>2, <1>5 DEF ServerCommits
<1> QED BY <1>3, <1>4, <1>5

LEMMA HostCrashInv == RetIInv /\ HostCrash => RetIInv'
<1> SUFFICES ASSUME RetIInv, HostCrash PROVE RetIInv'
  OBVIOUS
<1>1. UNCHANGED <<rows, appended, clock, durable, archived, verified>>
  BY DEF HostCrash
<1>2. PICK lost \in SUBSET (Paths \ durable) :
         files' = [p \in Paths |-> IF p \in lost THEN NoFile ELSE files[p]]
  BY DEF HostCrash
<1>3. /\ files' \in [Paths -> Archive]
      /\ \A p \in archived : files'[p] = files[p]
      /\ \A p \in Paths : files'[p].events \subseteq appended
  BY <1>2, NoFileArchive DEF RetIInv, RetTypeOK, FilesOK
<1>4. ASSUME NEW o \in Operators
      PROVE  /\ op'[o] \in Process /\ OpFits(op[o])'
             /\ op'[o].pc = IF op[o].pc = "inflight" THEN "inflight" ELSE "idle"
  <2>1. CASE op[o].pc = "inflight"
    <3>1. op'[o] = op[o]
      BY <2>1 DEF HostCrash
    <3>2. OpFits(op[o]) /\ op[o] \in Process
      BY OneOp
    <3>3. InArchive(op[o].arc) => InArchive(op[o].arc)'
      BY <1>1, <1>3, <3>1 DEF InArchive
    <3> QED BY <1>1, <2>1, <3>1, <3>2, <3>3 DEF OpFits
  <2>2. CASE op[o].pc # "inflight"
    <3>0. op[o].changed \in BOOLEAN
      BY OneOp
    <3>1. PICK exit \in {9} : op'[o] = Idle(exit, op[o].changed)
      BY <2>2 DEF HostCrash
    <3>2. exit \in {0, 2, 3, 4, 9} /\ exit # 2
      OBVIOUS
    <3>3. /\ op'[o] = [pc |-> "idle", cmd |-> "none", path |-> "none", arc |-> NoFile,
                       staged |-> {}, exit |-> exit, changed |-> FALSE]
          /\ op'[o] \in Process
      BY <3>0, <3>1, <3>2, IdleFits
    <3> QED BY <2>2, <3>2, <3>3, NoFileArchive DEF OpFits, Mutating
  <2> QED BY <2>1, <2>2
<1>5. op' \in [Operators -> Process]
  <2>1. op' = [o \in Operators |-> op'[o]]
    BY DEF HostCrash
  <2> QED BY <1>4, <2>1
<1>6. ASSUME NEW o \in Operators
      PROVE  lock' = o <=> op'[o].pc \in {"classify", "flush", "commit", "inflight"}
  <2>1. lock = o <=> op[o].pc \in Locked
    BY OneOp
  <2>2. lock' = o <=> lock = o /\ op[o].pc = "inflight"
    BY OperatorAssumption DEF HostCrash
  <2> QED BY <1>4, <2>1, <2>2 DEF Locked
<1>7. RetTypeOK'
  BY <1>1, <1>3, <1>5, <1>6 DEF RetIInv, RetTypeOK
<1>8. KeptOrArchived' /\ FilesOK' /\ IsFiniteSet(appended)'
  BY <1>1, <1>3 DEF RetIInv, KeptOrArchived, FilesOK, InArchive
<1>9. OwnTargets'
  BY <1>4 DEF OwnTargets
<1> QED BY <1>4, <1>7, <1>8, <1>9 DEF RetIInv

LEMMA RetNextInv == RetIInv /\ [RetNext]_retVars => RetIInv'
<1>1. ASSUME RetIInv, UNCHANGED retVars PROVE RetIInv'
  BY <1>1 DEF retVars, RetIInv, RetTypeOK, KeptOrArchived, FilesOK, OwnTargets, OpFits, InArchive
<1>2. ASSUME RetIInv, RetNext PROVE RetIInv'
  BY <1>2, AppendEventInv, ClockTickInv, ArchiveSnapshotInv, VerifyArchiveInv, ConfirmInv,
     LinkTargetInv, FsyncDirectoryInv, WriteFailsInv, BeginMutationInv, StageDeleteInv,
     RestoreInv, CommitInv, EndingInv, HostCrashInv
  DEF RetNext
<1> QED BY <1>1, <1>2

\* The inductive invariant of the retention commands.
THEOREM RetentionInvariance == RetSpec => []RetIInv
  BY RetInitInv, RetNextInv, PTL DEF RetSpec

\* No audit event is lost, the advisory lock keeps its discipline, and exit
\* code 2 means that nothing was changed, whatever operators, crashes and lost
\* commit acknowledgements do.
THEOREM RetentionSafe == RetSpec => []RetentionInv
<1>1. RetIInv => RetentionInv
  <2> SUFFICES ASSUME RetIInv PROVE RetentionInv
    OBVIOUS
  <2>1. NothingLost
    BY DEF RetIInv, RetTypeOK, KeptOrArchived, NothingLost
  <2>2. RefusalChangesNothing
    BY OneOp DEF RefusalChangesNothing, OpFits
  <2> QED BY <2>1, <2>2 DEF RetIInv, RetentionInv
<1> QED BY <1>1, RetentionInvariance, PTL

\* Rows leave the table only as whole, expired archives that are still in the
\* directory.
THEOREM WholeArchives == RetSpec => DeletesWholeArchives
<1> DEFINE Whole ==
      \A e \in rows \ rows' :
         /\ e.expires < clock
         /\ \E p \in Paths : /\ e \in files[p].events
                             /\ files[p].events \subseteq rows
                             /\ files[p].events \cap rows' = {}
<1>1. RetIInv /\ [RetNext]_retVars => [Whole]_retVars
  <2> SUFFICES ASSUME RetIInv, RetNext, NEW e \in rows \ rows' 
               PROVE  /\ e.expires < clock
                      /\ \E p \in Paths : /\ e \in files[p].events
                                          /\ files[p].events \subseteq rows
                                          /\ files[p].events \cap rows' = {}
    BY DEF retVars
  <2>1. PICK o \in Operators : op[o].pc \in {"commit", "inflight"} /\ rows' = Applied(o)
    BY DEF RetNext, AppendEvent, ClockTick, ArchiveSnapshot, VerifyArchive, Confirm, LinkTarget,
           FsyncDirectory, WriteFails, BeginMutation, StageDelete, ClassifyRestore, FlushRestore,
           CommitAcknowledged, CommitUnknown, ServerCommits, PrecommitFails, PostCommit, Kill,
           HostCrash
  <2>2. op[o].cmd = "delete" /\ e \in op[o].staged /\ rows' = rows \ op[o].staged
    BY <2>1 DEF Applied
  <2>3. /\ op[o].staged = op[o].arc.events /\ op[o].staged \subseteq rows
        /\ \A f \in op[o].staged : f.expires < clock
        /\ InArchive(op[o].arc)
    BY <2>1, <2>2, OneOp DEF OpFits, Mutating
  <2>4. archived \subseteq Paths
    BY DEF RetIInv, RetTypeOK
  <2> QED BY <2>2, <2>3, <2>4 DEF InArchive
<1> QED BY <1>1, RetentionInvariance, PTL DEF RetSpec, DeletesWholeArchives

-----------------------------------------------------------------------------
(***************************************************************************)
(* RunProgressView, for any Runs, totals and block size.                   *)
(***************************************************************************)
BlockCells(r, set, b) == {r} \X InBlock(set, b)

\* The Responses on the server, and what the page has heard of them: a Run
\* seen as terminal has all the Responses it will ever have.
ServerOK ==
    /\ answers \in [ViewRuns -> SUBSET Int]
    /\ \A r \in ViewRuns : answers[r] \subseteq Positions(r)
    /\ shown \in ViewRuns
    /\ page \in [terminal : BOOLEAN, expected : Int]
    /\ page.terminal => shown \in ended /\ page.expected = Cardinality(answers[shown])

\* The cells of a block were committed, and loaded is their number.
BlocksOK ==
    /\ cells = [b \in Blocks(shown) |-> cells[b]]
    /\ loaded = [b \in Blocks(shown) |-> loaded[b]]
    /\ \A b \in Blocks(shown) :
         /\ cells[b] \subseteq BlockCells(shown, answers[shown], b)
         /\ loaded[b] = Cardinality(cells[b]) \/ (loaded[b] = -1 /\ cells[b] = {})

\* A running sync is about the Run on screen.  Its index was true once, and a
\* block held since is either older or younger than the index.
SyncOK ==
    \/ sync = NoSync
    \/ /\ sync = [pc |-> sync.pc, run |-> shown, at |-> sync.at,
                  asked |-> sync.asked, failed |-> sync.failed]
       /\ sync.pc \in {"index", "blocks"}
       /\ sync.at \subseteq answers[shown]
       /\ sync.asked \subseteq Blocks(shown)
       /\ sync.pc = "blocks" =>
            \A b \in Blocks(shown) : \/ cells[b] \subseteq BlockCells(shown, sync.at, b)
                                     \/ BlockCells(shown, sync.at, b) \subseteq cells[b]

\* What is published belongs to the Run on screen, or nothing is.
PublishedOK ==
    /\ view = [run |-> view.run, at |-> view.at, cells |-> view.cells,
               verified |-> view.verified]
    /\ \/ view.run = NoRunShown /\ view.verified = FALSE
       \/ /\ view.run = shown /\ view.at \subseteq answers[shown]
          /\ view.cells = {shown} \X view.at

ViewIInv == ServerOK /\ BlocksOK /\ SyncOK /\ PublishedOK

-----------------------------------------------------------------------------
\* A block has as many cells as positions, and finitely many.
LEMMA CellCount ==
    ASSUME NEW r \in ViewRuns, NEW set \in SUBSET Positions(r), NEW b
    PROVE  /\ IsFiniteSet(set) /\ Cardinality(set) \in Nat
           /\ IsFiniteSet(BlockCells(r, set, b))
           /\ Cardinality(BlockCells(r, set, b)) = Cardinality(InBlock(set, b))
           /\ Cardinality(InBlock(set, b)) \in Nat
<1>1. Total[r] \in Nat
  BY ViewAssumption
<1>2. IsFiniteSet(Positions(r))
  BY <1>1, FS_Interval DEF Positions
<1>3. IsFiniteSet(set) /\ Cardinality(set) \in Nat
  BY <1>2, FS_Subset, FS_CardinalityType
<1>4. InBlock(set, b) \in SUBSET set
  BY DEF InBlock
<1>5. IsFiniteSet(InBlock(set, b)) /\ Cardinality(InBlock(set, b)) \in Nat
  BY <1>3, <1>4, FS_Subset, FS_CardinalityType
<1>6. IsFiniteSet({r}) /\ Cardinality({r}) = 1
  BY FS_Singleton
<1>7. /\ IsFiniteSet({r} \X InBlock(set, b))
      /\ Cardinality({r} \X InBlock(set, b)) = 1 * Cardinality(InBlock(set, b))
  BY <1>5, <1>6, FS_Product
<1> QED BY <1>3, <1>5, <1>7 DEF BlockCells

\* Comparable cells as many as the index says are the cells of the index.
LEMMA SameBlock ==
    ASSUME NEW r \in ViewRuns, NEW at \in SUBSET Positions(r), NEW now \in SUBSET Positions(r),
           NEW b, NEW held \in SUBSET BlockCells(r, now, b),
           \/ held \subseteq BlockCells(r, at, b)
           \/ BlockCells(r, at, b) \subseteq held,
           Cardinality(held) = Cardinality(InBlock(at, b))
    PROVE  held = BlockCells(r, at, b)
<1>1. IsFiniteSet(BlockCells(r, at, b)) /\ IsFiniteSet(BlockCells(r, now, b))
  BY CellCount
<1>2. IsFiniteSet(held)
  BY <1>1, FS_Subset
<1>3. Cardinality(held) = Cardinality(BlockCells(r, at, b))
  BY CellCount
<1> QED BY <1>1, <1>2, <1>3, FS_Subset

\* All blocks of a Run together are its positions.
LEMMA BlocksCover ==
    ASSUME NEW r \in ViewRuns, NEW at \in SUBSET Positions(r)
    PROVE  UNION {BlockCells(r, at, b) : b \in Blocks(r)} = {r} \X at
BY DEF BlockCells, InBlock, Blocks

LEMMA EmptyCells == Cardinality({}) = 0
BY FS_EmptySet

-----------------------------------------------------------------------------
LEMMA ViewInitInv == ViewInit => ViewIInv
<1> SUFFICES ASSUME ViewInit PROVE ViewIInv
  OBVIOUS
<1>1. ServerOK
  BY DEF ViewInit, ServerOK, NoPage
<1>2. BlocksOK
  BY DEF ViewInit, BlocksOK
<1>3. SyncOK /\ PublishedOK
  BY DEF ViewInit, SyncOK, PublishedOK, NoView
<1> QED BY <1>1, <1>2, <1>3 DEF ViewIInv

\* Another Response, or the end of a Run.
LEMMA ServerStep ==
    ASSUME ViewIInv, NEW r \in ViewRuns,
           EndShownRun(r) \/ \E p \in Positions(r) : CommitResponse(r, p)
    PROVE  ViewIInv'
<1>1. /\ answers' \in [ViewRuns -> SUBSET Int]
      /\ \A u \in ViewRuns : answers[u] \subseteq answers'[u] /\ answers'[u] \subseteq Positions(u)
      /\ \A u \in ended : u \in ViewRuns => answers'[u] = answers[u]
      /\ ended \subseteq ended'
      /\ UNCHANGED <<shown, page, cells, loaded, view, sync>>
  <2>1. CASE EndShownRun(r)
    BY <2>1 DEF ViewIInv, ServerOK, EndShownRun
  <2>2. CASE \E p \in Positions(r) : CommitResponse(r, p)
    <3>1. PICK p \in Positions(r) : CommitResponse(r, p)
      BY <2>2
    <3>2. p \in Int
      BY ViewAssumption DEF Positions
    <3> QED BY <3>1, <3>2 DEF ViewIInv, ServerOK, CommitResponse
  <2> QED BY <2>1, <2>2
<1>2. ServerOK'
  BY <1>1 DEF ViewIInv, ServerOK
<1>3. shown \in ViewRuns /\ answers[shown] \subseteq answers'[shown]
  BY <1>1 DEF ViewIInv, ServerOK
<1>4. BlocksOK'
  BY <1>1, <1>3 DEF ViewIInv, BlocksOK, BlockCells, InBlock
<1>5. SyncOK'
  BY <1>1, <1>3 DEF ViewIInv, SyncOK
<1>6. PublishedOK'
  BY <1>1, <1>3 DEF ViewIInv, PublishedOK
<1> QED BY <1>2, <1>4, <1>5, <1>6 DEF ViewIInv

\* A published view of which only the verification is withdrawn.
LEMMA Unverified ==
    ASSUME PublishedOK, UNCHANGED <<answers, shown>>,
           view' = view \/ view' = [view EXCEPT !.verified = FALSE]
    PROVE  PublishedOK'
<1>1. CASE view' = view
  BY <1>1 DEF PublishedOK
<1>2. CASE view' = [view EXCEPT !.verified = FALSE]
  <2>1. view' = [run |-> view.run, at |-> view.at, cells |-> view.cells, verified |-> FALSE]
    BY <1>2 DEF PublishedOK
  <2>2. /\ view' = [run |-> view'.run, at |-> view'.at, cells |-> view'.cells,
                    verified |-> view'.verified]
        /\ view'.run = view.run /\ view'.at = view.at /\ view'.cells = view.cells
        /\ view'.verified = FALSE
    BY <2>1
  <2> QED BY <2>2 DEF PublishedOK
<1> QED BY <1>1, <1>2

LEMMA PollRunStep == ASSUME ViewIInv, PollRun PROVE ViewIInv'
<1>1. Cardinality(answers[shown]) \in Int
  BY CellCount DEF ViewIInv, ServerOK
<1>2. ServerOK'
  BY <1>1 DEF ViewIInv, ServerOK, PollRun
<1>3. BlocksOK' /\ SyncOK'
  BY DEF ViewIInv, BlocksOK, SyncOK, PollRun
<1>4. PublishedOK'
  BY Unverified DEF ViewIInv, PollRun
<1> QED BY <1>2, <1>3, <1>4 DEF ViewIInv

LEMMA StartStep == ASSUME ViewIInv, StartSync PROVE ViewIInv'
<1>1. ServerOK' /\ BlocksOK' /\ PublishedOK'
  BY DEF ViewIInv, ServerOK, BlocksOK, PublishedOK, StartSync
<1>2. SyncOK'
  BY DEF ViewIInv, SyncOK, StartSync
<1> QED BY <1>1, <1>2 DEF ViewIInv

LEMMA TakeIndexStep == ASSUME ViewIInv, TakeIndex PROVE ViewIInv'
<1> DEFINE at == answers[shown]
           count(b) == Cardinality(InBlock(at, b))
           changed  == {b \in Blocks(shown) : loaded[b] # count(b)}
           empty    == {b \in changed : count(b) = 0}
<1>1. sync = [pc |-> "index", run |-> shown, at |-> sync.at,
              asked |-> sync.asked, failed |-> sync.failed]
  BY DEF ViewIInv, SyncOK, TakeIndex, NoSync
<1>2. sync.run = shown
  BY <1>1
<1>3. /\ cells' = [b \in Blocks(shown) |-> IF b \in empty THEN {} ELSE cells[b]]
      /\ loaded' = [b \in Blocks(shown) |-> IF b \in empty THEN 0 ELSE loaded[b]]
      /\ sync' = [sync EXCEPT !.pc = "blocks", !.at = at, !.asked = changed \ empty]
      /\ UNCHANGED <<answers, ended, shown, visible, page, view, late>>
  BY <1>2 DEF TakeIndex
<1> HIDE DEF changed, empty
<1>4. sync' = [pc |-> "blocks", run |-> shown, at |-> at,
               asked |-> changed \ empty, failed |-> sync.failed]
  <2> DEFINE left == changed \ empty
  <2> HIDE DEF at, left
  <2>1. sync \in [pc : {"index"}, run : {shown}, at : {sync.at}, asked : {sync.asked},
                   failed : {sync.failed}]
    BY <1>1
  <2>2. sync' = [sync EXCEPT !.pc = "blocks", !.at = at, !.asked = left]
    BY <1>3 DEF left
  <2>3. sync' \in [pc : {"blocks"}, run : {shown}, at : {at}, asked : {left}, failed : {sync.failed}]
    BY <2>1, <2>2
  <2> QED BY <2>3 DEF left
<1>5. ServerOK' /\ PublishedOK'
  BY <1>3 DEF ViewIInv, ServerOK, PublishedOK
<1>6. changed \ empty \subseteq Blocks(shown)
  BY DEF changed
<1>7. BlocksOK'
  BY <1>3, EmptyCells DEF ViewIInv, BlocksOK
<1>8. \A b \in Blocks(shown) : cells'[b] \subseteq BlockCells(shown, at, b)
  BY <1>3 DEF ViewIInv, BlocksOK
<1>9. SyncOK'
  BY <1>3, <1>4, <1>6, <1>8 DEF SyncOK
<1> QED BY <1>5, <1>7, <1>9 DEF ViewIInv

LEMMA TakeBlockStep == ASSUME ViewIInv, NEW b, TakeBlock(b) PROVE ViewIInv'
<1>1. /\ sync = [pc |-> "blocks", run |-> shown, at |-> sync.at,
                 asked |-> sync.asked, failed |-> sync.failed]
      /\ sync.at \subseteq answers[shown] /\ sync.asked \subseteq Blocks(shown)
      /\ \A c \in Blocks(shown) : \/ cells[c] \subseteq BlockCells(shown, sync.at, c)
                                  \/ BlockCells(shown, sync.at, c) \subseteq cells[c]
      /\ b \in Blocks(shown)
  BY DEF ViewIInv, SyncOK, TakeBlock, NoSync
<1>2. sync.run = shown
  BY <1>1
<1>3. /\ cells' = [cells EXCEPT ![b] = BlockCells(shown, answers[shown], b)]
      /\ loaded' = [loaded EXCEPT ![b] = Cardinality(BlockCells(shown, answers[shown], b))]
      /\ sync' = [sync EXCEPT !.asked = sync.asked \ {b}]
      /\ UNCHANGED <<answers, ended, shown, visible, page, view, late>>
  BY <1>2 DEF TakeBlock, StoreBlock, BlockCells
<1>4. sync' = [pc |-> "blocks", run |-> shown, at |-> sync.at,
               asked |-> sync.asked \ {b}, failed |-> sync.failed]
  BY <1>1, <1>3
<1>5. ServerOK' /\ PublishedOK'
  BY <1>3 DEF ViewIInv, ServerOK, PublishedOK
<1>6. /\ cells' = [c \in Blocks(shown) |->
                     IF c = b THEN BlockCells(shown, answers[shown], b) ELSE cells[c]]
      /\ loaded' = [c \in Blocks(shown) |->
                     IF c = b THEN Cardinality(BlockCells(shown, answers[shown], b)) ELSE loaded[c]]
  BY <1>1, <1>3 DEF ViewIInv, BlocksOK
<1>7. BlocksOK'
  BY <1>3, <1>6 DEF ViewIInv, BlocksOK
<1>8. BlockCells(shown, sync.at, b) \subseteq BlockCells(shown, answers[shown], b)
  BY <1>1 DEF BlockCells, InBlock
<1>9. \A c \in Blocks(shown) : \/ cells'[c] \subseteq BlockCells(shown, sync.at, c)
                               \/ BlockCells(shown, sync.at, c) \subseteq cells'[c]
  BY <1>1, <1>6, <1>8
<1>10. SyncOK'
  BY <1>1, <1>3, <1>4, <1>9 DEF SyncOK
<1> QED BY <1>5, <1>7, <1>10 DEF ViewIInv

LEMMA FailedStep == ASSUME ViewIInv, RequestFailed PROVE ViewIInv'
<1>1. ServerOK' /\ BlocksOK'
  BY DEF ViewIInv, ServerOK, BlocksOK, RequestFailed
<1>2. PublishedOK'
  <2>1. UNCHANGED <<answers, shown>> /\ (view' = view \/ view' = [view EXCEPT !.verified = FALSE])
    BY DEF RequestFailed
  <2> QED BY <2>1, Unverified DEF ViewIInv
<1>3. SyncOK'
  <2>1. CASE sync' = NoSync
    BY <2>1 DEF SyncOK
  <2>2. CASE sync' # NoSync
    <3>1. /\ sync.pc = "blocks"
          /\ \E b \in sync.asked : sync' = [sync EXCEPT !.asked = sync.asked \ {b}, !.failed = TRUE]
          /\ UNCHANGED <<answers, shown, cells>>
      BY <2>2 DEF RequestFailed
    <3>2. PICK b \in sync.asked : sync' = [sync EXCEPT !.asked = sync.asked \ {b}, !.failed = TRUE]
      BY <3>1
    <3>3. sync = [pc |-> "blocks", run |-> shown, at |-> sync.at,
                  asked |-> sync.asked, failed |-> sync.failed]
      BY <3>1 DEF ViewIInv, SyncOK, NoSync
    <3>4. sync' = [pc |-> "blocks", run |-> shown, at |-> sync.at,
                   asked |-> sync.asked \ {b}, failed |-> TRUE]
      <4> DEFINE left == sync.asked \ {b}
      <4> HIDE DEF left
      <4>1. sync \in [pc : {"blocks"}, run : {shown}, at : {sync.at}, asked : {sync.asked},
                       failed : {sync.failed}]
        BY <3>3
      <4>2. sync' = [sync EXCEPT !.asked = left, !.failed = TRUE]
        BY <3>2 DEF left
      <4>3. sync' \in [pc : {"blocks"}, run : {shown}, at : {sync.at}, asked : {left}, failed : {TRUE}]
        BY <4>1, <4>2
      <4> QED BY <4>3 DEF left
    <3>5. sync # NoSync
      BY <3>1 DEF NoSync
    <3> QED BY <3>1, <3>4, <3>5 DEF ViewIInv, SyncOK
  <2> QED BY <2>1, <2>2
<1> QED BY <1>1, <1>2, <1>3 DEF ViewIInv

LEMMA FinishStep == ASSUME ViewIInv, FinishSync PROVE ViewIInv'
<1>1. /\ sync = [pc |-> "blocks", run |-> shown, at |-> sync.at,
                 asked |-> sync.asked, failed |-> sync.failed]
      /\ sync.at \subseteq answers[shown]
      /\ \A b \in Blocks(shown) : \/ cells[b] \subseteq BlockCells(shown, sync.at, b)
                                  \/ BlockCells(shown, sync.at, b) \subseteq cells[b]
  BY DEF ViewIInv, SyncOK, FinishSync, NoSync
<1>2. ServerOK' /\ BlocksOK' /\ SyncOK'
  BY DEF ViewIInv, ServerOK, BlocksOK, SyncOK, FinishSync
<1>3. PublishedOK'
  <2>1. CASE ~sync.failed /\ \A b \in Blocks(shown) : loaded[b] = Cardinality(InBlock(sync.at, b))
    <3>1. /\ view' = [run |-> shown, at |-> sync.at,
                      cells |-> UNION {cells[b] : b \in Blocks(shown)},
                      verified |-> Terminal /\ page.expected = Cardinality(sync.at)]
          /\ UNCHANGED <<answers, shown>>
      <4>1. sync.run = shown
        BY <1>1
      <4> QED BY <4>1, <2>1 DEF FinishSync
    <3>2. shown \in ViewRuns /\ answers[shown] \in SUBSET Positions(shown)
      BY DEF ViewIInv, ServerOK
    <3>3. sync.at \in SUBSET Positions(shown)
      BY <3>2, <1>1
    <3>4. \A b \in Blocks(shown) : cells[b] = BlockCells(shown, sync.at, b)
      <4> SUFFICES ASSUME NEW b \in Blocks(shown) PROVE cells[b] = BlockCells(shown, sync.at, b)
        OBVIOUS
      <4>1. loaded[b] = Cardinality(InBlock(sync.at, b)) /\ loaded[b] \in Nat
        BY <2>1, <3>2, <3>3, CellCount
      <4>2. loaded[b] = Cardinality(cells[b]) /\ cells[b] \in SUBSET BlockCells(shown, answers[shown], b)
        BY <4>1 DEF ViewIInv, BlocksOK
      <4>3. Cardinality(cells[b]) = Cardinality(InBlock(sync.at, b))
        BY <4>1, <4>2
      <4>4. \/ cells[b] \subseteq BlockCells(shown, sync.at, b)
            \/ BlockCells(shown, sync.at, b) \subseteq cells[b]
        BY <1>1
      <4> QED BY <3>2, <3>3, <4>2, <4>3, <4>4, SameBlock
    <3>5. UNION {cells[b] : b \in Blocks(shown)} = {shown} \X sync.at
      BY <3>2, <3>3, <3>4, BlocksCover
    <3>6. view' = [run |-> shown, at |-> sync.at, cells |-> {shown} \X sync.at,
                   verified |-> Terminal /\ page.expected = Cardinality(sync.at)]
      BY <3>1, <3>5
    <3>7. /\ view' = [run |-> view'.run, at |-> view'.at, cells |-> view'.cells,
                      verified |-> view'.verified]
          /\ view'.run = shown /\ view'.at = sync.at /\ view'.cells = {shown} \X sync.at
      BY <3>6
    <3> QED BY <1>1, <3>1, <3>7 DEF PublishedOK
  <2>2. CASE ~(~sync.failed /\ \A b \in Blocks(shown) : loaded[b] = Cardinality(InBlock(sync.at, b)))
    <3>1. view' = [view EXCEPT !.verified = FALSE] /\ UNCHANGED <<answers, shown>>
      BY <2>2 DEF FinishSync
    <3> QED BY <3>1, Unverified DEF ViewIInv
  <2> QED BY <2>1, <2>2
<1> QED BY <1>2, <1>3 DEF ViewIInv

LEMMA PageSteps ==
    ASSUME ViewIInv, Hide \/ ShowAgain \/ (\E b : TakeLate(b)) \/ \E r \in ViewRuns : OpenRun(r)
    PROVE  ViewIInv'
<1>1. CASE Hide
  <2>1. ServerOK' /\ BlocksOK' /\ SyncOK'
    BY <1>1 DEF ViewIInv, ServerOK, BlocksOK, SyncOK, Hide, Superseded
  <2>2. PublishedOK'
    BY <1>1, Unverified DEF ViewIInv, Hide
  <2> QED BY <2>1, <2>2 DEF ViewIInv
<1>2. CASE ShowAgain \/ \E b : TakeLate(b)
  <2>1. UNCHANGED <<answers, ended, shown, page, cells, loaded, view, sync>>
    BY <1>2 DEF ShowAgain, TakeLate
  <2> QED BY <2>1 DEF ViewIInv, ServerOK, BlocksOK, SyncOK, PublishedOK
<1>3. CASE \E r \in ViewRuns : OpenRun(r)
  <2>1. PICK r \in ViewRuns : OpenRun(r)
    BY <1>3
  <2>2. ServerOK'
    BY <2>1 DEF ViewIInv, ServerOK, OpenRun, NoPage
  <2>3. BlocksOK'
    BY <2>1 DEF BlocksOK, OpenRun
  <2>4. SyncOK' /\ PublishedOK'
    BY <2>1 DEF SyncOK, PublishedOK, OpenRun, Superseded, NoView
  <2> QED BY <2>2, <2>3, <2>4 DEF ViewIInv
<1> QED BY <1>1, <1>2, <1>3

LEMMA ViewNextInv == ViewIInv /\ [ViewNext]_viewVars => ViewIInv'
<1> SUFFICES ASSUME ViewIInv, [ViewNext]_viewVars PROVE ViewIInv'
  OBVIOUS
<1>1. CASE UNCHANGED viewVars
  BY <1>1 DEF viewVars, ViewIInv, ServerOK, BlocksOK, SyncOK, PublishedOK
<1>2. CASE ViewNext
  BY <1>2, ServerStep, PollRunStep, StartStep, TakeIndexStep, TakeBlockStep, FailedStep,
     FinishStep, PageSteps DEF ViewNext
<1> QED BY <1>1, <1>2

\* The page tells the truth, whatever the order in which its requests are
\* answered: cells and index belong to one moment of the Run on screen, and a
\* terminal Run shown as reconciled is shown with all of its evidence.
THEOREM PageTellsTheTruth == ViewSpec => []ViewInv
<1>1. ViewIInv => ViewInv
  <2> SUFFICES ASSUME ViewIInv PROVE ViewInv
    OBVIOUS
  <2>1. ViewIsOneMoment
    BY DEF ViewIInv, PublishedOK, ViewIsOneMoment
  <2>2. ReconciledIsComplete
    <3> SUFFICES ASSUME Terminal, Reconciled PROVE view.cells = {shown} \X answers[shown]
      BY DEF ReconciledIsComplete
    <3>1. view.verified /\ Cardinality(view.at) = page.expected
      BY DEF Reconciled
    <3>2. /\ view.at \in SUBSET answers[shown] /\ view.cells = {shown} \X view.at
      BY <3>1 DEF ViewIInv, PublishedOK
    <3>3. page.expected = Cardinality(answers[shown]) /\ IsFiniteSet(answers[shown])
      BY CellCount DEF ViewIInv, ServerOK, Terminal
    <3>4. view.at = answers[shown]
      BY <3>1, <3>2, <3>3, FS_Subset
    <3> QED BY <3>2, <3>4
  <2> QED BY <2>1, <2>2 DEF ViewInv
<1> QED BY <1>1, ViewInitInv, ViewNextInv, PTL DEF ViewSpec
=============================================================================
