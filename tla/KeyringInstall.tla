--------------------------- MODULE KeyringInstall ---------------------------
(***************************************************************************)
(* scripts/ensure_credential_keys.py: concurrent first starts each make a  *)
(* keyring and install it without replacing another, over system calls     *)
(* that fail, processes that are killed and a host that crashes.           *)
(*                                                                         *)
(* An inode is named by the process and attempt that made it.  Its payload *)
(* is "partial" until written and "full" afterwards; only "synced" content *)
(* survives a host crash for certain, and so does a directory entry only   *)
(* once the directory has been synced.                                     *)
(***************************************************************************)
EXTENDS Integers, FiniteSets

CONSTANTS Starters,   \* processes that run ensure_keyring
          Attempts    \* _ATOMIC_CREATE_ATTEMPTS

ASSUME AttemptsAssumption == Attempts \in Nat \ {0}

VARIABLES entry,    \* inode the keyring path names, or NoInode
          onDisk,   \* entries the path may have after a host crash
          temps,    \* inodes with a temporary name
          content,  \* inode -> "partial", "full" or "synced"
          proc      \* the processes

keyVars == <<entry, onDisk, temps, content, proc>>

NoInode == <<"no inode", 0>>
Inodes == Starters \X (1..Attempts)

KeyInit ==
    /\ entry = NoInode /\ onDisk = {NoInode} /\ temps = {}
    /\ content = [n \in Inodes |-> "partial"]
    /\ proc = [s \in Starters |-> [pc |-> "validate", try |-> 1, result |-> "none"]]

Mine(s) == <<s, proc[s].try>>
At(s, pc) == proc[s].pc = pc
Goto(s, pc) == proc' = [proc EXCEPT ![s].pc = pc]
Ends(s, result) == proc' = [proc EXCEPT ![s].pc = "done", ![s].result = result]

-----------------------------------------------------------------------------

\* _validate_existing at the start, or after another process won the race:
\* a valid regular file is kept, a missing one is created (at the start) or
\* an error, anything else is an error.
ValidateExisting(s) ==
    /\ proc[s].pc \in {"validate", "appeared"}
    /\ IF entry = NoInode
       THEN IF At(s, "validate") THEN Goto(s, "open") ELSE Ends(s, "error")
       ELSE IF content[entry] = "partial" THEN Ends(s, "error") ELSE Ends(s, "kept")
    /\ UNCHANGED <<entry, onDisk, temps, content>>

\* O_CREAT | O_EXCL of a fresh temporary name.
OpenTemporary(s) ==
    /\ At(s, "open")
    /\ temps' = temps \cup {Mine(s)}
    /\ Goto(s, "write")
    /\ UNCHANGED <<entry, onDisk, content>>

WriteAll(s) ==
    /\ At(s, "write")
    /\ content' = [content EXCEPT ![Mine(s)] = "full"]
    /\ Goto(s, "sync")
    /\ UNCHANGED <<entry, onDisk, temps>>

\* Slip: the file is linked before it is on disk.
SyncTemporary_Skipped(s) ==
    /\ At(s, "sync") /\ Goto(s, "link")
    /\ UNCHANGED <<entry, onDisk, temps, content>>

\* fsync of the file, before any name in use points to it.
SyncTemporary(s) ==
    /\ At(s, "sync")
    /\ content' = [content EXCEPT ![Mine(s)] = "synced"]
    /\ Goto(s, "link")
    /\ UNCHANGED <<entry, onDisk, temps>>

\* Slip: rename(2) in place of link(2).
Link_Replaces(s) ==
    /\ At(s, "link")
    /\ entry' = Mine(s) /\ onDisk' = onDisk \cup {Mine(s)}
    /\ Goto(s, "unlink")
    /\ UNCHANGED <<temps, content>>

\* link(2) fails if the name exists: _DestinationAppeared, after the
\* temporary file is removed.
Link(s) ==
    /\ At(s, "link")
    /\ IF entry = NoInode
       THEN /\ entry' = Mine(s) /\ onDisk' = onDisk \cup {Mine(s)}
            /\ Goto(s, "unlink")
            /\ UNCHANGED temps
       ELSE /\ temps' = temps \ {Mine(s)}
            /\ Goto(s, "appeared")
            /\ UNCHANGED <<entry, onDisk>>
    /\ UNCHANGED content

UnlinkTemporary(s) ==
    /\ At(s, "unlink")
    /\ temps' = temps \ {Mine(s)}
    /\ Goto(s, "syncdir")
    /\ UNCHANGED <<entry, onDisk, content>>

\* fsync of the directory.
SyncDirectory(s) ==
    /\ At(s, "syncdir")
    /\ onDisk' = {entry}
    /\ Goto(s, "check")
    /\ UNCHANGED <<entry, temps, content>>

\* The path still names this inode and its directory is the one opened.
CheckInstalled(s) ==
    /\ At(s, "check")
    /\ entry = Mine(s)
    /\ Ends(s, "created")
    /\ UNCHANGED <<entry, onDisk, temps, content>>

\* _unlink_if_same of the path, when this process had installed it.
RolledBack(s) ==
    IF proc[s].pc \in {"unlink", "syncdir", "check"} /\ entry = Mine(s)
    THEN entry' = NoInode /\ onDisk' = onDisk \cup {NoInode}
    ELSE UNCHANGED <<entry, onDisk>>

\* A system call of _atomic_create raises, or the installed path or its
\* directory turns out to have changed: what was installed and the temporary
\* file are removed; a retryable error starts again with a fresh name.
AtomicCreateFails(s) ==
    /\ proc[s].pc \in {"open", "write", "sync", "link", "unlink", "syncdir", "check"}
    /\ RolledBack(s)
    /\ temps' = temps \ {Mine(s)}
    /\ \/ Ends(s, "error")
       \/ /\ proc[s].pc \notin {"open", "check"} /\ proc[s].try < Attempts
          /\ proc' = [proc EXCEPT ![s].pc = "open", ![s].try = @ + 1]
    /\ UNCHANGED content

\* The clean-up itself fails: the error is final and files stay behind.
CleanupFails(s) ==
    /\ proc[s].pc \in {"write", "sync", "link", "unlink", "syncdir", "check"}
    /\ Ends(s, "error")
    /\ \/ RolledBack(s) /\ UNCHANGED temps
       \/ temps' = temps \ {Mine(s)} /\ UNCHANGED <<entry, onDisk>>
    /\ UNCHANGED content

KillStarter(s) ==
    /\ proc[s].pc # "done" /\ Ends(s, "killed")
    /\ UNCHANGED <<entry, onDisk, temps, content>>

\* Power fails: unsynced content is cut short and the path is any entry the
\* directory may have had on disk; every process is gone.
HostCrashes ==
    /\ \E e \in onDisk : entry' = e /\ onDisk' = {e}
    /\ content' = [n \in Inodes |-> IF content[n] = "synced" THEN "synced" ELSE "partial"]
    /\ proc' = [s \in Starters |->
           IF At(s, "done") THEN proc[s] ELSE [proc[s] EXCEPT !.pc = "done", !.result = "killed"]]
    /\ UNCHANGED temps

KeyNext ==
    \/ HostCrashes
    \/ \E s \in Starters :
        \/ ValidateExisting(s) \/ OpenTemporary(s) \/ WriteAll(s) \/ SyncTemporary(s)
        \/ Link(s) \/ UnlinkTemporary(s) \/ SyncDirectory(s) \/ CheckInstalled(s)
        \/ AtomicCreateFails(s) \/ CleanupFails(s) \/ KillStarter(s)

KeySpec == KeyInit /\ [][KeyNext]_keyVars

-----------------------------------------------------------------------------

\* A keyring somebody was told was created is never replaced or removed, by
\* another start, another start's roll-back or a host crash: credentials
\* encrypted with it stay readable.
CreatedKeyringStays ==
    \A s \in Starters : proc[s].result = "created" => entry = Mine(s)

\* The path never names a keyring that is cut short, even after a crash, so
\* a later start keeps a valid one or makes its own and is never stuck.
KeyringNeverTorn == entry # NoInode => content[entry] # "partial"

\* Nothing _atomic_create and its roll-back do takes away a keyring that was
\* reported as created, or shows half a keyring.
KeyringInv == CreatedKeyringStays /\ KeyringNeverTorn
=============================================================================
