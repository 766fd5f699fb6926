--------------------------- MODULE MCLeasesAndTools ---------------------------
(***************************************************************************)
(* The leases of Runs and the tools an operator runs beside the workers,   *)
(* audit retention and the credential keyring, for TLC.  They share no     *)
(* state, so a behaviour is about one of them (focus) and the others stay  *)
(* in an initial state.                                                    *)
(***************************************************************************)
EXTENDS MCRunLeases, AuditRetention, KeyringInstall

VARIABLE focus

leaseVars == <<vars, moving>>

toolsVars == <<leaseVars, retVars, keyVars, focus>>

ToolsInit ==
    /\ focus \in {"leases", "retention", "keyring"}
    /\ MCInit /\ RetInit /\ KeyInit
    /\ focus # "leases" => moving = Together

Hold    == focus = "leases" /\ MCNext /\ UNCHANGED <<retVars, keyVars, focus>>
Retain  == focus = "retention" /\ RetNext /\ UNCHANGED <<leaseVars, keyVars, focus>>
Install == focus = "keyring" /\ KeyNext /\ UNCHANGED <<leaseVars, retVars, focus>>

ToolsSpec == ToolsInit /\ [][Hold \/ Retain \/ Install]_toolsVars

\* Processes, questions and paths are interchangeable; operators and starters
\* are the same model values as workers, event keys the same as questions.
ToolsSymmetry == Permutations(Workers) \cup Permutations(Questions) \cup Permutations(Paths)
===============================================================================
