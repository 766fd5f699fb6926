--------------------------- MODULE MCRunScheduling ---------------------------
(* RunScheduling for TLC: two policy documents, the second with a smaller   *)
(* backlog and a larger window.                                             *)
EXTENDS RunScheduling

MCBacklog == [d \in Docs |-> IF d = "p1" THEN 2 ELSE 1]
MCWindow  == [d \in Docs |-> IF d = "p1" THEN 1 ELSE 2]
==============================================================================
