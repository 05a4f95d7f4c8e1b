------------------------------ MODULE JobQueue ------------------------------
(***************************************************************************)
(* What protocol/queue.py and enqueue.write promise to both halves, with   *)
(* the files left out: a job is put in the queue as a whole while its      *)
(* writer is at it and never later, the writer is told that it is there    *)
(* only if it was put there, and the agent takes what is there.            *)
(***************************************************************************)
CONSTANT Jobs

VARIABLES
  waiting, \* jobs in the queue
  put,     \* jobs that were put in the queue at some time
  answer   \* answer[j]: what the writer of j was told

vars == <<waiting, put, answer>>

Init ==
  /\ waiting = {}
  /\ put     = {}
  /\ answer  = [j \in Jobs |-> "none"]

\* A writer that is not sure may put its job again.
Put(j) ==
  /\ answer[j] = "none"
  /\ waiting' = waiting \cup {j}
  /\ put'     = put \cup {j}
  /\ UNCHANGED answer

Take(j) ==
  /\ j \in waiting
  /\ waiting' = waiting \ {j}
  /\ UNCHANGED <<put, answer>>

Confirm(j) ==
  /\ answer[j] = "none"
  /\ j \in put
  /\ answer' = [answer EXCEPT ![j] = "ok"]
  /\ UNCHANGED <<waiting, put>>

GiveUp(j) ==
  /\ answer[j] = "none"
  /\ answer' = [answer EXCEPT ![j] = "failed"]
  /\ UNCHANGED <<waiting, put>>

Next == \E j \in Jobs : Put(j) \/ Take(j) \/ Confirm(j) \/ GiveUp(j)

Spec == Init /\ [][Next]_vars

=============================================================================
