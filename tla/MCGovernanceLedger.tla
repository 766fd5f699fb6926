-------------------------- MODULE MCGovernanceLedger --------------------------
(***************************************************************************)
(* GovernanceLedger for TLC.  A behaviour is either about the accounts, in *)
(* which two Runs share a scope, each is claimed once and none cancelled,  *)
(* or about the attempts of one Run, which may be cancelled, is claimed up *)
(* to MaxToken times and whose transactions may be late.                   *)
(***************************************************************************)
EXTENDS GovernanceLedger

CONSTANTS r1, r2, q1, q2, global, run1, run2

LedgerOf(part) ==
    /\ Next
    /\ part = "accounts" =>
          lagging' = {} /\ \A r \in Runs : run'[r].token <= 1 /\ ~run'[r].cancel
    /\ part = "attempts" => \A r \in Runs \ {r1} : run'[r] = run[r]

\* A Run of one question each, or one Run of all questions
EachItsOwn == [q \in Questions |-> IF q = q1 THEN r1 ELSE r2]
OfOneRun   == [q \in Questions |-> r1]
MCScopesOf == [r \in Runs |-> {global, IF r = r1 THEN run1 ELSE run2}]

\* The scope every attempt is charged to alone has limits.
At(limit)   == [s \in Scopes |-> IF s = global THEN limit ELSE NoLimit]
Free        == [s \in Scopes |-> NoLimit]
TwoAtATime  == At(2)
ThreeTokens == At(3)
FiveTokens  == At(5)
ThreeEver   == At(3)
=============================================================================
