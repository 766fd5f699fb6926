--------------------------- MODULE RunProgressView ---------------------------
(***************************************************************************)
(* The live progress of a Run: the index and block projections of          *)
(* services/run_progress.py and the polling hook useRunProgress.ts that    *)
(* puts them together while Responses are committed, the Run ends, the tab *)
(* is hidden, another Run is opened and requests fail or answer late.      *)
(*                                                                         *)
(* A cell is a Run and the position of an answered question; Responses are *)
(* never changed or removed.  A superseded sync keeps one slot: what it    *)
(* still does when its answers arrive must not matter.                     *)
(***************************************************************************)
EXTENDS Integers, FiniteSets

CONSTANTS ViewRuns,    \* Runs a user may open
          Total,       \* run -> total_questions
          BlockSize    \* PROGRESS_BLOCK_SIZE

ASSUME ViewAssumption ==
    /\ BlockSize \in Nat \ {0}
    /\ Total \in [ViewRuns -> Nat]

VARIABLES answers,   \* run -> positions with a committed Response
          ended,     \* Runs in a terminal state
          shown,     \* runId
          visible,   \* document.visibilityState
          page,      \* runStatus and expectedCompletedQuestions props
          cells,     \* blockCells
          loaded,    \* loadedBlockCounts, -1 where a block was never loaded
          view,      \* the published state and publishedRunId
          sync,      \* the current request sequence, NoSync between two
          late       \* a superseded one whose answers may still arrive

viewVars == <<answers, ended, shown, visible, page, cells, loaded, view, sync, late>>

Positions(r) == 0..(Total[r] - 1)
Blocks(r)    == {p \div BlockSize : p \in Positions(r)}
InBlock(set, b) == {p \in set : p \div BlockSize = b}

NoRunShown  == "no run"
NoSync == [pc |-> "none"]   \* also when nothing is late
NoView == [run |-> NoRunShown, at |-> {}, cells |-> {}, verified |-> FALSE]
NoPage == [terminal |-> FALSE, expected |-> -1]

ViewInit ==
    /\ answers = [r \in ViewRuns |-> {}] /\ ended = {}
    /\ shown \in ViewRuns /\ visible = TRUE /\ page = NoPage
    /\ cells = [b \in Blocks(shown) |-> {}] /\ loaded = [b \in Blocks(shown) |-> -1]
    /\ view = NoView /\ sync = NoSync /\ late = NoSync

-----------------------------------------------------------------------------
(* The server.                                                             *)

CommitResponse(r, p) ==
    /\ r \notin ended /\ p \notin answers[r]
    /\ answers' = [answers EXCEPT ![r] = @ \cup {p}]
    /\ UNCHANGED <<ended, shown, visible, page, cells, loaded, view, sync, late>>

\* A Run that has ended gets no further Response (ReportMatchesEvidence).
EndShownRun(r) ==
    /\ r \notin ended
    /\ ended' = ended \cup {r}
    /\ UNCHANGED <<answers, shown, visible, page, cells, loaded, view, sync, late>>

-----------------------------------------------------------------------------
(* The page and the hook.                                                  *)

Terminal == page.terminal

\* Slip: a terminal Run counts as reconciled as soon as anything was published.
Reconciled_Published == view.run = shown

Reconciled ==
    /\ view.run = shown
    /\ Terminal => view.verified /\ Cardinality(view.at) = page.expected

ShouldPoll == visible /\ (~Terminal \/ ~Reconciled)

\* sync() of the interval, of an effect or of refresh().
StartSync ==
    /\ visible /\ sync = NoSync
    /\ sync' = [pc |-> "index", run |-> shown, at |-> {}, asked |-> {}, failed |-> FALSE]
    /\ UNCHANGED <<answers, ended, shown, visible, page, cells, loaded, view, late>>

PollSync == ShouldPoll /\ StartSync

\* The page's own poll of the Run, until it has seen a terminal state; new
\* props undo an earlier verification.
PollRun ==
    /\ ~page.terminal
    /\ page' = [terminal |-> shown \in ended, expected |-> Cardinality(answers[shown])]
    /\ view' = IF page'.terminal THEN [view EXCEPT !.verified = FALSE] ELSE view
    /\ UNCHANGED <<answers, ended, shown, visible, cells, loaded, sync, late>>

\* The index is read and arrives: blocks whose count is zero are emptied, the
\* others whose count has changed are asked for.
TakeIndex ==
    LET at       == answers[sync.run]
        count(b) == Cardinality(InBlock(at, b))
        changed  == {b \in Blocks(shown) : loaded[b] # count(b)}
        empty    == {b \in changed : count(b) = 0}
    IN /\ sync.pc = "index"
       /\ cells' = [b \in Blocks(shown) |-> IF b \in empty THEN {} ELSE cells[b]]
       /\ loaded' = [b \in Blocks(shown) |-> IF b \in empty THEN 0 ELSE loaded[b]]
       /\ sync' = [sync EXCEPT !.pc = "blocks", !.at = at, !.asked = changed \ empty]
       /\ UNCHANGED <<answers, ended, shown, visible, page, view, late>>

\* A block is read and arrives; its observed count makes the next poll
\* reconcile it.
StoreBlock(r, b) ==
    LET got == {r} \X InBlock(answers[r], b)
    IN /\ cells' = [cells EXCEPT ![b] = got]
       /\ loaded' = [loaded EXCEPT ![b] = Cardinality(got)]

TakeBlock(b) ==
    /\ sync.pc = "blocks" /\ b \in sync.asked
    /\ StoreBlock(sync.run, b)
    /\ sync' = [sync EXCEPT !.asked = @ \ {b}]
    /\ UNCHANGED <<answers, ended, shown, visible, page, view, late>>

\* Slip: the answer of a superseded request is stored like any other.
TakeLate_Unchecked(b) ==
    /\ late # NoSync /\ b \in late.asked
    /\ StoreBlock(late.run, b)
    /\ late' = NoSync
    /\ UNCHANGED <<answers, ended, shown, visible, page, view, sync>>

\* A block arrives for a superseded sync: requestId is no longer current,
\* and the sync returns without touching anything.
TakeLate(b) ==
    /\ late # NoSync /\ b \in late.asked
    /\ late' = NoSync
    /\ UNCHANGED <<answers, ended, shown, visible, page, cells, loaded, view, sync>>

\* The index request fails, or one block request does.
RequestFailed ==
    \/ /\ sync.pc = "index"
       /\ sync' = NoSync
       /\ view' = [view EXCEPT !.verified = FALSE]
       /\ UNCHANGED <<answers, ended, shown, visible, page, cells, loaded, late>>
    \/ /\ sync.pc = "blocks"
       /\ \E b \in sync.asked : sync' = [sync EXCEPT !.asked = @ \ {b}, !.failed = TRUE]
       /\ UNCHANGED <<answers, ended, shown, visible, page, cells, loaded, view, late>>

\* Every block request is settled: publish if the blocks match the index.
FinishSync ==
    LET current == ~sync.failed /\ \A b \in Blocks(shown) : loaded[b] = Cardinality(InBlock(sync.at, b))
    IN /\ sync.pc = "blocks" /\ sync.asked = {}
       /\ view' = IF current
                  THEN [run |-> sync.run, at |-> sync.at,
                        cells |-> UNION {cells[b] : b \in Blocks(shown)},
                        verified |-> Terminal /\ page.expected = Cardinality(sync.at)]
                  ELSE [view EXCEPT !.verified = FALSE]
       /\ sync' = NoSync
       /\ UNCHANGED <<answers, ended, shown, visible, page, cells, loaded, late>>

\* requestSequence moves on and the controller aborts.
Superseded ==
    /\ sync' = NoSync
    /\ late' = IF sync.pc = "blocks" /\ sync.asked # {}
               THEN [run |-> sync.run, asked |-> sync.asked] ELSE late

\* Slip: what is in flight when the tab is hidden stays current.
Hide_KeepsFlight ==
    /\ visible /\ visible' = FALSE
    /\ sync' = IF sync = NoSync THEN NoSync ELSE [sync EXCEPT !.pc = "stuck"]
    /\ view' = [view EXCEPT !.verified = FALSE]
    /\ UNCHANGED <<answers, ended, shown, page, cells, loaded, late>>

\* visibilitychange.
Hide ==
    /\ visible /\ visible' = FALSE
    /\ Superseded
    /\ view' = [view EXCEPT !.verified = FALSE]
    /\ UNCHANGED <<answers, ended, shown, page, cells, loaded>>

ShowAgain ==
    /\ ~visible /\ visible' = TRUE
    /\ UNCHANGED <<answers, ended, shown, page, cells, loaded, view, sync, late>>

\* Another runId: the effect resets every ref and the state.
OpenRun(r) ==
    /\ r # shown /\ shown' = r /\ page' = NoPage
    /\ Superseded
    /\ cells' = [b \in Blocks(r) |-> {}] /\ loaded' = [b \in Blocks(r) |-> -1]
    /\ view' = NoView
    /\ UNCHANGED <<answers, ended, visible>>

ViewNext ==
    \/ \E r \in ViewRuns : OpenRun(r) \/ EndShownRun(r) \/ \E p \in Positions(r) : CommitResponse(r, p)
    \/ PollRun \/ StartSync \/ TakeIndex
    \/ \E b \in UNION {Blocks(r) : r \in ViewRuns} : TakeBlock(b) \/ TakeLate(b)
    \/ RequestFailed \/ FinishSync \/ Hide \/ ShowAgain

\* Timers fire and promises settle; a request that is made again and again
\* is answered in the end.
ViewFairness ==
    /\ WF_viewVars(PollSync) /\ WF_viewVars(PollRun) /\ WF_viewVars(FinishSync)
    /\ SF_viewVars(TakeIndex)
    /\ \A b \in UNION {Blocks(r) : r \in ViewRuns} : SF_viewVars(TakeBlock(b))

ViewSpec == ViewInit /\ [][ViewNext]_viewVars /\ ViewFairness

-----------------------------------------------------------------------------

\* The numbers of the index and the cells of the heat map belong to the Run
\* on screen and to one moment of it, although they come from several
\* requests while Responses are committed.
ViewIsOneMoment ==
    view.run # NoRunShown => view.run = shown /\ view.cells = {shown} \X view.at

\* What is shown as the reconciled result of a terminal Run is all of its
\* evidence.
ReconciledIsComplete ==
    Terminal /\ Reconciled => view.cells = {shown} \X answers[shown]

\* A user who stays on a Run that has ended sees it reconciled, again and
\* again however often a refresh fails.
EndedRunReconciles ==
    \A r \in ViewRuns :
        (<>[](visible /\ shown = r /\ r \in ended) => []<>Reconciled)

\* The page tells the truth: the cells of one moment of one Run, and nothing
\* but the complete evidence once it says the Run is reconciled
\* (validateBlock, snapshotCurrent, reconciled in useRunProgress.ts).
ViewInv == ViewIsOneMoment /\ ReconciledIsComplete
=============================================================================
