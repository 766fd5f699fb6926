---------------------------- MODULE RunLifecycle ----------------------------
(***************************************************************************)
(* What the platform promises about evaluation Runs, with no lease, token, *)
(* clock or retry counter in sight.                                        *)
(*                                                                         *)
(* A Run waits or executes until it is completed, failed or cancelled.  It *)
(* collects answers only while it executes; it is completed only with an   *)
(* answer to every question; it is cancelled only if somebody asked; and   *)
(* what it publishes when it stops is exactly the answers it has, for ever.*)
(***************************************************************************)
CONSTANTS Runs, Questions

VARIABLES
    phase,          \* [Runs -> Phases]
    answers,        \* [Runs -> SUBSET Questions]
    wanted,         \* [Runs -> BOOLEAN], cancellation was asked for
    published       \* [Runs -> SUBSET Questions], what the final report counts

lifeVars == <<phase, answers, wanted, published>>

Stopped == {"completed", "failed", "cancelled"}
Phases  == {"waiting", "executing"} \cup Stopped

LifeInit ==
    /\ phase = [r \in Runs |-> "waiting"]
    /\ answers = [r \in Runs |-> {}]
    /\ wanted = [r \in Runs |-> FALSE]
    /\ published = [r \in Runs |-> {}]

\* Several Runs may change phase in one step: the reaper works in batches.
Live(r)     == phase[r] \notin Stopped
Same(r)     == phase'[r] = phase[r] /\ published'[r] = published[r]
Begin(r)    == phase[r] = "waiting" /\ phase'[r] = "executing" /\ published'[r] = published[r]
Release(r)  == phase[r] = "executing" /\ phase'[r] = "waiting" /\ published'[r] = published[r]
Complete(r) == /\ phase[r] = "executing" /\ answers[r] = Questions
               /\ phase'[r] = "completed" /\ published'[r] = answers[r]
Fail(r)     == /\ phase[r] = "executing"
               /\ phase'[r] = "failed" /\ published'[r] = answers[r]
Cancel(r)   == /\ Live(r) /\ wanted'[r]
               /\ phase'[r] = "cancelled" /\ published'[r] = answers[r]

ChangePhase ==
    /\ \A r \in Runs :
          Same(r) \/ Begin(r) \/ Release(r) \/ Complete(r) \/ Fail(r) \/ Cancel(r)
    /\ phase' \in [Runs -> Phases]
    /\ published' \in [Runs -> SUBSET Questions]
    /\ UNCHANGED answers

\* An API call may cancel a waiting Run in the same step.
Ask(r) == Live(r) /\ wanted' = [wanted EXCEPT ![r] = TRUE]

Answer(r, q) ==
    /\ phase[r] = "executing" /\ q \notin answers[r]
    /\ answers' = [answers EXCEPT ![r] = @ \cup {q}]
    /\ UNCHANGED <<phase, wanted, published>>

LifeNext ==
    \/ ChangePhase /\ (UNCHANGED wanted \/ \E r \in Runs : Ask(r))
    \/ \E r \in Runs, q \in Questions : Answer(r, q)

LifeSpec == LifeInit /\ [][LifeNext]_lifeVars
=============================================================================
