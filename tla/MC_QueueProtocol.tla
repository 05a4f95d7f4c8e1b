-------------------------- MODULE MC_QueueProtocol --------------------------
(* Constant values for the runs of QueueProtocol.                          *)
EXTENDS QueueProtocol

OneJob    == {1}
AllFaults == FaultKinds
OnlyIO    == {"io"}
=============================================================================
