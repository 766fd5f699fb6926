---------------------------- MODULE MCRunEvidence ----------------------------
(***************************************************************************)
(* The two parts that follow what a Run has done, for TLC: the ledger of   *)
(* its provider attempts, and the page that shows its answers.  A          *)
(* behaviour is about one of them (focus), and the other stays in an       *)
(* initial state.                                                          *)
(***************************************************************************)
EXTENDS MCGovernanceLedger, RunProgressView

VARIABLE focus

evidenceVars == <<vars, viewVars, focus>>

EvidenceInit ==
    /\ focus \in {"accounts", "attempts", "view"}
    /\ Init /\ ViewInit
    /\ focus # "view" => shown = "ra"

Account == focus # "view" /\ LedgerOf(focus) /\ UNCHANGED <<viewVars, focus>>

InView(A) == focus = "view" /\ A /\ UNCHANGED <<vars, focus>>

Watch == InView(ViewNext)

EvidenceNext == Account \/ Watch

\* ViewFairness, where the page is in focus.
EvidenceFairness ==
    /\ WF_evidenceVars(InView(PollSync))
    /\ WF_evidenceVars(InView(PollRun))
    /\ WF_evidenceVars(InView(FinishSync))
    /\ SF_evidenceVars(InView(TakeIndex))
    /\ \A b \in UNION {Blocks(r) : r \in ViewRuns} : SF_evidenceVars(InView(TakeBlock(b)))

EvidenceSpec == EvidenceInit /\ [][EvidenceNext]_evidenceVars /\ EvidenceFairness

\* Two blocks of a Run of three questions, the second one incomplete.
MCTotal == [r \in ViewRuns |-> IF r = "ra" THEN 3 ELSE 1]
=============================================================================
