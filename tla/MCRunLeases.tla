---------------------------- MODULE MCRunLeases ----------------------------
(***************************************************************************)
(* RunLeases for TLC: workers and questions are interchangeable.  In a     *)
(* behaviour either every Run moves, within PairClaims claims in all, or   *)
(* one Run moves alone, within MaxClaims.                                  *)
(***************************************************************************)
EXTENDS RunLeases, FiniteSetsExt, TLC

CONSTANTS Together,     \* every Run moves
          PairClaims    \* bound on the claims of them all then

VARIABLE moving         \* Together, or the Run that moves alone

MCInit == Init /\ moving \in Runs \cup {Together}

MCNext ==
    /\ Next
    /\ UNCHANGED moving
    /\ moving = Together => MapThenSumSet(LAMBDA r : runs'[r].token, Runs) <= PairClaims
    /\ moving # Together => \A r \in Runs \ {moving} : runs'[r] = runs[r] /\ asked'[r] = asked[r]

MCSpec == MCInit /\ [][MCNext]_<<vars, moving>>

Symmetry == Permutations(Workers) \cup Permutations(Questions)
=============================================================================
