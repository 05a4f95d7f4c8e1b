--------------------------- MODULE MC_PrintAgent ---------------------------
(* Constant values for the runs of PrintAgent.                             *)
EXTENDS PrintAgent

OneJob  == {1}
TwoJobs == {1, 2}

\* Of two jobs one is delivered again.
Replayed == [j \in TwoJobs |-> IF j = 1 THEN 2 ELSE 1]
Twice    == [j \in OneJob |-> 2]

Good       == [sidecar |-> "good", payload |-> "whole"]
GoodCopies == {Good}

\* A good copy, one that is refused, one that lost its sidecar on the way: each
\* way in which handle ends before the claim.
GoodAndDamaged ==
  {Good, [sidecar |-> "good", payload |-> "cut"], [sidecar |-> "missing", payload |-> "whole"]}

AllFaults == FaultKinds
OnlyCrash == {"crash"}
=============================================================================
