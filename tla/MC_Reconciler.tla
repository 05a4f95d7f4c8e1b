--------------------------- MODULE MC_Reconciler ---------------------------
(* Constant values for the runs of Reconciler.                             *)
EXTENDS Reconciler

CONSTANTS j1, j2, a1, a2

\* A block of a record that can be written, and the reprint of one whose
\* record cannot.
TwoJobs   == {j1, j2}
TwoAssets == {a1, a2}
Records   == [j \in TwoJobs |-> IF j = j1 THEN a1 ELSE a2]
Locked    == {a2}
Again     == {j2}

NoneOf    == {}
Stall     == {"stall"}
=============================================================================
