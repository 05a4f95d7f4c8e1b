----------------------------- MODULE Reconciler -----------------------------
(***************************************************************************)
(* The way back, src/src/reconcile.py: results of the print agent become   *)
(* log entries and status lines in Halo, and a queue in which nothing      *)
(* moves is reported as stalled.                                           *)
(*                                                                         *)
(* Reconciler.run and check_for_stalls run first in every poll, in the     *)
(* thread that also queues new jobs.  The agent and the tools work on the  *)
(* share meanwhile.  What the reconciler remembers is lost in a restart.   *)
(* The single calls of a write are in QueueProtocol; here it puts a job    *)
(* into the inbox, more than once if a rename is misreported, or gives up. *)
(***************************************************************************)
EXTENDS Integers

CONSTANTS
  Jobs, Assets,
  AssetOf,     \* AssetOf[j]: the record of j, or NoAsset
  NoAsset, NoJob,
  Reprints,    \* jobs that tools/reprint_range.py writes, without a QUEUED line
  Foreign,     \* jobs whose files may also be put there by other hands
  Unwritable,  \* records whose status field cannot be written
  MaxAttempts, \* STATUS_WRITE_MAX_ATTEMPTS
  Faults,      \* kinds of failure
  MaxFaults    \* bound: failures

FaultKinds ==
  {"abandon", \* a block is reserved, and then not read back, drawn or taken
   "rename",  \* the rename of a payload is made and raises
   "queue",   \* a write to the queue is given up
   "report",  \* the write of the FAILED line of such a job raises
   "read",    \* a result cannot be read just now
   "write",   \* the write of an outcome raises, applied or not
   "stall",   \* the write of a STALLED line raises
   "unlink",  \* a result cannot be deleted just now
   "lost",    \* a job ends without a result
   "move",    \* the files of a job cannot be moved when it ends
   "clear",   \* a person empties failed/ before an outcome is read
   "crash"}   \* the service stops

ASSUME ConstantsAssumption ==
  /\ AssetOf \in [Jobs -> Assets \cup {NoAsset}]
  /\ NoAsset \notin Assets /\ NoJob \notin Jobs
  /\ Reprints \subseteq Jobs /\ Foreign \subseteq Jobs /\ Unwritable \subseteq Assets
  /\ MaxAttempts \in Nat \ {0}
  /\ Faults \subseteq FaultKinds /\ MaxFaults \in Nat

VARIABLES
  \* the share
  write,     \* write[j]: enqueue.write of j, "new", "trying" or "over"; "foreign" if
             \* the files of j are not the service's
  place,     \* place[j]: the folder of j's files; "none" before it is queued
  again,     \* jobs of which a second copy is in the inbox
  strays,    \* jobs of which a write left a sidecar without payload in the inbox
  result,    \* result[j]: the status in results/<job_id>.json
  echo,      \* echo[j]: that result carries the job
  \* Halo
  status,    \* status[a]: the line in Last Label Run, its word and its job
  \* the reconciler's memory
  attempts,  \* _attempts
  reported,  \* _stall_reported
  quiet,     \* _last_progress is stalled_after_minutes ago
  \* the pass it is in
  pc, todo, cur,
  word,      \* the status word of the line it writes for cur; "none" for none
  handled,   \* a result was dealt with in this pass
  \* what the model adds
  printed,   \* jobs that the driver took in full
  misled,    \* jobs one of whose renames was made and reported as failed
  interrupted, \* jobs that the driver took in full and that were reported failed
  stuck,     \* jobs whose files could not be moved when they ended
  unheard,   \* jobs of which Halo missed the outcome, or the one STALLED line
  accepted,  \* jobs with a result whose line Halo has confirmed
  refusals,  \* refusals[j]: writes of the outcome of j that raised, up to MaxAttempts
  faults

queueVars  == <<write, place, again, strays>>
shareVars  == <<queueVars, result, echo>>
memoryVars == <<attempts, reported, quiet>>
passVars   == <<pc, todo, cur, word, handled>>
agentGhosts == <<printed, misled, interrupted, stuck>>
ghostVars  == <<agentGhosts, unheard, accepted, refusals, faults>>
vars == <<write, place, again, strays, result, echo, status, attempts, reported, quiet,
          pc, todo, cur, word, handled, printed, misled, interrupted, stuck, unheard,
          accepted, refusals, faults>>

Folders  == {"none", "inbox", "processing", "done", "failed", "cleared"}
Results  == {"none", "success", "failed", "rejected"}
Outcomes == {"SENT", "RESENT", "FAILED"}
Words    == Outcomes \cup {"none", "QUEUED", "STALLED"}

Blank      == [word |-> "none", job |-> NoJob]
Line(w, j) == [word |-> w, job |-> j]

Init ==
  /\ write    = [j \in Jobs |-> "new"]
  /\ place    = [j \in Jobs |-> "none"]
  /\ again    = {}
  /\ strays   = {}
  /\ result   = [j \in Jobs |-> "none"]
  /\ echo     = [j \in Jobs |-> FALSE]
  /\ status   = [a \in Assets |-> Blank]
  /\ attempts = [j \in Jobs |-> 0]
  /\ reported = {}
  /\ quiet    = FALSE
  /\ pc       = "down"
  /\ todo     = {}
  /\ cur      = NoJob
  /\ word     = "none"
  /\ handled  = FALSE
  /\ printed  = {}
  /\ misled   = {}
  /\ interrupted = {}
  /\ stuck    = {}
  /\ unheard  = {}
  /\ accepted = {}
  /\ refusals = [j \in Jobs |-> 0]
  /\ faults   = 0

Fault(kind) ==
  /\ kind \in Faults
  /\ faults < MaxFaults
  /\ faults' = faults + 1

\* write_status on the record of j, if it has one.
WriteLine(w, j) ==
  status' = [a \in Assets |-> IF a = AssetOf[j] THEN Line(w, j) ELSE status[a]]

-----------------------------------------------------------------------------
(* The rest of the poll, and the tools: a job is written.                  *)

\* process_asset: the QUEUED line of reserve, then the job, unless the block
\* cannot be read back or drawn.  What makes a record unwritable comes later.
Reserve(j) ==
  /\ pc = "poll"
  /\ write[j] = "new"
  /\ j \notin Reprints
  /\ WriteLine("QUEUED", j)
  /\ \/ write' = [write EXCEPT ![j] = "trying"] /\ pc' = "queue" /\ cur' = j
        /\ UNCHANGED <<unheard, faults>>
     \/ Fault("abandon") /\ write' = [write EXCEPT ![j] = "over"] /\ unheard' = unheard \cup {j}
        /\ UNCHANGED <<pc, cur>>
  /\ UNCHANGED <<place, again, strays, result, echo, memoryVars, todo, word, handled,
                 agentGhosts, accepted, refusals>>

Reprint(j) ==
  /\ j \in Reprints
  /\ write[j] = "new"
  /\ write' = [write EXCEPT ![j] = "trying"]
  /\ UNCHANGED <<place, again, strays, result, echo, status, memoryVars, passVars, ghostVars>>

\* Files that somebody else puts into the inbox, with a sidecar that lacks the
\* fields of a job.
Plant(j) ==
  /\ j \in Foreign
  /\ write[j] = "new"
  /\ write' = [write EXCEPT ![j] = "foreign"]
  /\ place' = [place EXCEPT ![j] = "inbox"]
  /\ UNCHANGED <<again, strays, result, echo, status, memoryVars, passVars, ghostVars>>

\* The payload comes into the inbox: as a new job, over itself, or as a second
\* copy of a job that the agent has taken.
Put(j) ==
  /\ place' = IF place[j] = "none" THEN [place EXCEPT ![j] = "inbox"] ELSE place
  /\ again' = IF place[j] \in {"none", "inbox"} THEN again ELSE again \cup {j}

\* enqueue.write is at it, called by the poll or by a tool.
Writing(j) == write[j] = "trying" /\ (j \in Reprints \/ (pc = "queue" /\ cur = j))

Written(j) ==
  /\ Writing(j)
  /\ Put(j)
  /\ write' = [write EXCEPT ![j] = "over"]
  /\ IF j \in Reprints THEN UNCHANGED <<pc, cur>> ELSE pc' = "poll" /\ cur' = NoJob
  /\ UNCHANGED <<strays, result, echo, status, memoryVars, todo, word, handled, ghostVars>>

\* The rename is made and raises, and the write is tried again.
Misreport(j) ==
  /\ Writing(j)
  /\ Fault("rename")
  /\ Put(j)
  /\ misled' = misled \cup {j}
  /\ UNCHANGED <<write, strays, result, echo, status, memoryVars, passVars,
                 printed, interrupted, stuck, unheard, accepted, refusals>>

\* A write that fails, or dies, may leave the sidecar that it renamed last.
Leaves(j) ==
  IF place[j] = "inbox" \/ j \in again THEN {strays} ELSE {strays, strays \cup {j}}

\* enqueue.write raises, for the service or a tool.
GiveUp(j) ==
  /\ Writing(j)
  /\ Fault("queue")
  /\ write' = [write EXCEPT ![j] = "over"]
  /\ strays' \in Leaves(j)
  /\ IF j \in Reprints THEN UNCHANGED pc ELSE pc' = "report"
  /\ UNCHANGED <<place, again, result, echo, status, memoryVars, todo, cur, word, handled,
                 agentGhosts, unheard, accepted, refusals>>

\* _report_enqueue_failure; a write that raises may have been applied.
Report ==
  /\ pc = "report"
  /\ \/ AssetOf[cur] \notin Unwritable /\ WriteLine("FAILED", cur) /\ UNCHANGED <<unheard, faults>>
     \/ /\ \/ AssetOf[cur] \in Unwritable /\ UNCHANGED <<status, faults>>
           \/ Fault("report") /\ (WriteLine("FAILED", cur) \/ UNCHANGED status)
        /\ unheard' = IF place[cur] = "none" /\ cur \notin strays THEN unheard \cup {cur} ELSE unheard
  /\ pc' = "poll" /\ cur' = NoJob
  /\ UNCHANGED <<shareVars, memoryVars, todo, word, handled, agentGhosts, accepted, refusals>>

-----------------------------------------------------------------------------
(* The agent and the clock.                                                *)

\* Jobs whose sidecar lacks the fields of a job.
Malformed == {j \in Jobs : write[j] = "foreign"}

Take(j) ==
  /\ place[j] = "inbox"
  /\ j \notin stuck \cup Malformed
  /\ place' = [place EXCEPT ![j] = "processing"]
  /\ UNCHANGED <<write, again, strays, result, echo, status, memoryVars, passVars, ghostVars>>

\* The agent is done with j: its files go to the folder end, and then a result
\* with the status says is written.
End(j, end, says) ==
  /\ place' = [place EXCEPT ![j] = end]
  /\ \/ result' = [result EXCEPT ![j] = says] /\ UNCHANGED <<unheard, faults>>
     \/ Fault("lost") /\ unheard' = unheard \cup {j} /\ UNCHANGED result
  /\ UNCHANGED <<write, again, strays, status, memoryVars, passVars, misled, stuck, accepted, refusals>>

\* A job that is reported as failed: a print that raises may have handed all of
\* it to the driver, and so may an agent that died before it marked the job.
Doubtful(j) ==
  \/ UNCHANGED <<printed, interrupted>>
  \/ printed' = printed \cup {j} /\ interrupted' = interrupted \cup {j}

\* handle from the print on, or recover_orphans, whose result does not carry
\* the job.
Finish(j) ==
  /\ place[j] = "processing"
  /\ j \notin stuck
  /\ \/ End(j, "done", "success")
        /\ echo' = [echo EXCEPT ![j] = TRUE] /\ printed' = printed \cup {j}
        /\ UNCHANGED interrupted
     \/ End(j, "failed", "failed")
        /\ \E e \in BOOLEAN : echo' = [echo EXCEPT ![j] = e]
        /\ Doubtful(j)

\* reject; as long as its files stay, a job is rejected again.
Reject(j) ==
  /\ place[j] = "inbox"
  /\ End(j, "failed", "rejected")
  /\ \E e \in BOOLEAN : echo' = [echo EXCEPT ![j] = e]
  /\ UNCHANGED <<printed, interrupted>>

\* The second copy of a job is a replay: its result replaces the one of the job,
\* unless that write fails, or the sidecar went with the first copy.
RejectCopy(j) ==
  /\ j \in again
  /\ place[j] = "processing" => j \in stuck
  /\ \/ /\ again' = again \ {j}
        /\ place' = IF place[j] = "cleared" THEN [place EXCEPT ![j] = "failed"] ELSE place
        /\ UNCHANGED faults
     \/ Fault("move") /\ UNCHANGED <<place, again>>
  /\ \/ result' = [result EXCEPT ![j] = "rejected"] /\ echo' = [echo EXCEPT ![j] = TRUE]
     \/ UNCHANGED <<result, echo>>
  /\ UNCHANGED <<write, strays, status, memoryVars, passVars, agentGhosts, unheard, accepted, refusals>>

\* The files of j cannot be moved.  A rejected job, one that could not be taken
\* and an orphan are answered all the same; the move after a print, or a failed
\* one, raises and ends handle without a result.
Stay(j) ==
  /\ Fault("move")
  /\ stuck' = stuck \cup {j}
  /\ \/ /\ place[j] = "inbox"
        /\ \E says \in {"failed", "rejected"}, e \in BOOLEAN :
              /\ says = "failed" => e /\ j \notin stuck \cup Malformed
              /\ result' = [result EXCEPT ![j] = says] /\ echo' = [echo EXCEPT ![j] = e]
        /\ UNCHANGED <<printed, interrupted, unheard>>
     \/ /\ place[j] = "processing" /\ j \notin stuck
        /\ result' = [result EXCEPT ![j] = "failed"] /\ echo' = [echo EXCEPT ![j] = FALSE]
        /\ Doubtful(j)
        /\ UNCHANGED unheard
     \/ /\ place[j] = "processing" /\ j \notin stuck
        /\ printed' \in {printed, printed \cup {j}} /\ unheard' = unheard \cup {j}
        /\ UNCHANGED <<result, echo, interrupted>>
  /\ UNCHANGED <<queueVars, status, memoryVars, passVars, misled, accepted, refusals>>

\* The next start of the agent moves what is left in processing/.
Tidy(j) ==
  /\ j \in stuck
  /\ place[j] = "processing"
  /\ place' = [place EXCEPT ![j] = "failed"]
  /\ UNCHANGED <<write, again, strays, result, echo, status, memoryVars, passVars, ghostVars>>

Clear(j) ==
  /\ place[j] = "failed"
  /\ Fault("clear")
  /\ place' = [place EXCEPT ![j] = "cleared"]
  /\ UNCHANGED <<write, again, strays, result, echo, status, memoryVars, passVars,
                 agentGhosts, unheard, accepted, refusals>>

\* Nothing came back for stalled_after_minutes.
Quieten ==
  /\ pc # "down"
  /\ ~quiet
  /\ quiet' = TRUE
  /\ UNCHANGED <<shareVars, status, attempts, reported, passVars, ghostVars>>

-----------------------------------------------------------------------------
(* Reconciler.run.                                                         *)

BeginPass ==
  /\ pc = "poll"
  /\ pc'      = "results"
  /\ todo'    = {j \in Jobs : result[j] # "none"}
  /\ handled' = FALSE
  /\ UNCHANGED <<shareVars, status, memoryVars, cur, word, ghostVars>>

\* (A slip: a rejected job is taken for one that printed.)
FailedOnly(j) ==
  IF result[j] = "failed" THEN "FAILED" ELSE IF j \in Reprints THEN "RESENT" ELSE "SENT"

StatusWord(j) ==
  IF result[j] # "success" THEN "FAILED" ELSE IF j \in Reprints THEN "RESENT" ELSE "SENT"

\* _job_for: what the result carries, or the sidecar where it was moved to.
JobFound(j) == echo[j] \/ place[j] \in {"done", "failed", "processing"}

\* _handle_one: read the result, log it, make the line.
ReadResult ==
  /\ pc = "results"
  /\ \E j \in todo :
        /\ ~(JobFound(j) /\ j \in Malformed)
        /\ todo' = todo \ {j}
        /\ cur'  = j
        /\ IF JobFound(j) /\ AssetOf[j] # NoAsset
           THEN word' = StatusWord(j) /\ pc' = "write"
           ELSE word' = "none" /\ pc' = "delete"
        /\ unheard' = IF JobFound(j) THEN unheard ELSE unheard \cup {j}
  /\ UNCHANGED <<shareVars, status, memoryVars, handled, agentGhosts, accepted, refusals, faults>>

\* (A slip: the exception is caught around the loop and not in it.)
RaisesOutside ==
  /\ pc = "results"
  /\ \E j \in todo : JobFound(j) /\ j \in Malformed /\ todo' = {}
  /\ UNCHANGED <<shareVars, status, memoryVars, pc, cur, word, handled, ghostVars>>

\* _describe raises on a sidecar without its fields, run goes on with the next
\* result, and this one stays.
ReadRaises ==
  /\ pc = "results"
  /\ \E j \in todo : JobFound(j) /\ j \in Malformed /\ todo' = todo \ {j}
  /\ UNCHANGED <<shareVars, status, memoryVars, pc, cur, word, handled, ghostVars>>

\* The result of j goes.
Gone(j) ==
  /\ result'   = [result EXCEPT ![j] = "none"]
  /\ echo'     = [echo EXCEPT ![j] = FALSE]
  /\ accepted' = accepted \ {j}

\* A result that cannot be read is deleted.
ReadFails ==
  /\ pc = "results"
  /\ Fault("read")
  /\ \E j \in todo :
        /\ todo'   = todo \ {j}
        /\ Gone(j)
        /\ unheard' = unheard \cup {j}
  /\ UNCHANGED <<queueVars, status, memoryVars, pc, cur, word, handled, agentGhosts, refusals>>

WriteOutcome ==
  /\ pc = "write"
  /\ AssetOf[cur] \notin Unwritable
  /\ WriteLine(word, cur)
  /\ accepted' = accepted \cup {cur}
  /\ pc' = "delete"
  /\ UNCHANGED <<shareVars, memoryVars, todo, cur, word, handled, agentGhosts, unheard, refusals, faults>>

\* (A slip: the counter is compared after it was raised twice.)
LastButOne(j) == attempts[j] + 2 >= MaxAttempts

\* The write that raises now is the last one to be tried.
Exhausted(j) == attempts[j] + 1 >= MaxAttempts

\* (A slip: the counter of a result that is given up is kept.)
CounterKept(j) == [attempts EXCEPT ![j] = @ + 1]

Forgotten(j) == [attempts EXCEPT ![j] = 0]

NextResult == pc' = "results" /\ cur' = NoJob /\ word' = "none"

WriteRaises ==
  /\ pc = "write"
  /\ \/ AssetOf[cur] \in Unwritable /\ UNCHANGED <<status, faults>>
     \/ Fault("write") /\ (WriteLine(word, cur) \/ UNCHANGED status)
  /\ refusals' = [refusals EXCEPT ![cur] = IF @ < MaxAttempts THEN @ + 1 ELSE @]
  /\ IF Exhausted(cur)
     THEN /\ attempts' = Forgotten(cur) /\ pc' = "delete"
          /\ unheard' = unheard \cup {cur}
          /\ UNCHANGED <<cur, word>>
     ELSE /\ attempts' = [attempts EXCEPT ![cur] = @ + 1] /\ NextResult
          /\ UNCHANGED unheard
  /\ UNCHANGED <<shareVars, reported, quiet, todo, handled, agentGhosts, accepted>>

DeleteResult ==
  /\ pc = "delete"
  /\ Gone(cur)
  /\ attempts' = [attempts EXCEPT ![cur] = 0]
  /\ refusals' = [refusals EXCEPT ![cur] = 0]
  /\ handled'  = TRUE
  /\ NextResult
  /\ UNCHANGED <<queueVars, status, reported, quiet, todo, agentGhosts, unheard, faults>>

DeleteRaises ==
  /\ pc = "delete"
  /\ Fault("unlink")
  /\ NextResult
  /\ UNCHANGED <<shareVars, status, memoryVars, todo, handled, agentGhosts, unheard, accepted, refusals>>

\* A result that was dealt with is progress.
EndResults ==
  /\ pc = "results"
  /\ todo = {}
  /\ IF handled THEN quiet' = FALSE /\ reported' = {} ELSE UNCHANGED <<quiet, reported>>
  /\ pc' = "stalls"
  /\ handled' = FALSE
  /\ UNCHANGED <<shareVars, status, attempts, todo, cur, word, ghostVars>>

-----------------------------------------------------------------------------
(* check_for_stalls.                                                       *)

\* (A slip: the folders that _job_for searches.)
SearchedFolders == {j \in Jobs : place[j] \in {"done", "failed", "processing"}}

\* (A slip: a job that was taken is not waiting.)
OnlyTheInbox == {j \in Jobs : place[j] = "inbox"} \cup again \cup strays

\* _outstanding_jobs: every sidecar in inbox/ or processing/.
Outstanding == {j \in Jobs : place[j] \in {"inbox", "processing"}} \cup again \cup strays

CheckForStalls ==
  /\ pc = "stalls"
  /\ IF Outstanding = {}
     THEN quiet' = FALSE /\ reported' = {} /\ pc' = "poll" /\ UNCHANGED todo
     ELSE /\ IF quiet THEN pc' = "tell" /\ todo' = Outstanding ELSE pc' = "poll" /\ UNCHANGED todo
          /\ UNCHANGED <<quiet, reported>>
  /\ UNCHANGED <<shareVars, status, attempts, cur, word, handled, ghostVars>>

\* One job of the listing: it counts as reported before its line is written.
Tell ==
  /\ pc = "tell"
  /\ \E j \in todo :
        /\ j \notin Malformed
        /\ todo'     = todo \ {j}
        /\ reported' = reported \cup {j}
        /\ \/ /\ j \in reported \/ AssetOf[j] \in Unwritable \cup {NoAsset}
              /\ UNCHANGED <<status, unheard, faults>>
           \/ /\ j \notin reported /\ AssetOf[j] \in Assets \ Unwritable
              /\ \/ WriteLine("STALLED", j) /\ UNCHANGED <<unheard, faults>>
                 \/ Fault("stall") /\ unheard' = unheard \cup {j} /\ UNCHANGED status
  /\ UNCHANGED <<shareVars, attempts, quiet, pc, cur, word, handled, agentGhosts, accepted, refusals>>

\* The pass ends, or _describe raises on a sidecar without its fields and ends
\* it, in every poll anew, with the rest of the listing untold.
EndStalls ==
  /\ pc = "tell"
  /\ todo = {} \/ todo \cap Malformed # {}
  /\ todo' = {}
  /\ pc' = "poll"
  /\ UNCHANGED <<shareVars, status, memoryVars, cur, word, handled, ghostVars>>

-----------------------------------------------------------------------------
(* The service, and the specification.                                     *)

\* The service stops; what the Reconciler object remembered is gone, and so is
\* the write it was in.
Crash ==
  /\ pc # "down"
  /\ Fault("crash")
  /\ pc'       = "down"
  /\ todo'     = {}
  /\ cur'      = NoJob
  /\ word'     = "none"
  /\ handled'  = FALSE
  /\ attempts' = [j \in Jobs |-> 0]
  /\ reported' = {}
  /\ quiet'    = FALSE
  /\ write'    = IF pc = "queue" THEN [write EXCEPT ![cur] = "over"] ELSE write
  /\ strays'   \in IF pc = "queue" THEN Leaves(cur) ELSE {strays}
  /\ unheard'  = IF pc \in {"queue", "report"} /\ place[cur] = "none" /\ cur \notin strays'
                 THEN unheard \cup {cur} ELSE unheard
  /\ UNCHANGED <<place, again, result, echo, status, agentGhosts, accepted, refusals>>

Start ==
  /\ pc = "down"
  /\ pc' = "poll"
  /\ UNCHANGED <<shareVars, status, memoryVars, todo, cur, word, handled, ghostVars>>

Work ==
  \/ pc = "queue" /\ Written(cur)
  \/ Report
  \/ BeginPass \/ ReadResult \/ ReadRaises \/ ReadFails \/ WriteOutcome \/ WriteRaises
  \/ DeleteResult \/ DeleteRaises \/ EndResults
  \/ CheckForStalls \/ Tell \/ EndStalls

Next ==
  \/ \E j \in Jobs : \/ Reserve(j) \/ Reprint(j) \/ Plant(j)
                     \/ Written(j) \/ Misreport(j) \/ GiveUp(j)
                     \/ Take(j) \/ Finish(j) \/ Reject(j) \/ RejectCopy(j)
                     \/ Stay(j) \/ Tidy(j) \/ Clear(j)
  \/ Quieten \/ Work \/ Crash \/ Start

Spec == Init /\ [][Next]_vars

\* The loop of main goes on and is started again, and time passes.  Nothing is
\* assumed of the agent: it may never answer.
Fairness == WF_vars(Work) /\ WF_vars(Start) /\ WF_vars(Quieten)

FairSpec == Spec /\ Fairness

-----------------------------------------------------------------------------
(* Properties.                                                             *)

\* The state has its type; a counter of attempts that has come to its end is
\* gone, and a line that is being written has its word and its job.
TypeOK ==
  /\ write \in [Jobs -> {"new", "trying", "over", "foreign"}]
  /\ place \in [Jobs -> Folders]
  /\ again \subseteq Jobs /\ strays \subseteq Jobs
  /\ result \in [Jobs -> Results]
  /\ echo \in [Jobs -> BOOLEAN]
  /\ status \in [Assets -> [word : Words, job : Jobs \cup {NoJob}]]
  /\ attempts \in [Jobs -> 0..(MaxAttempts - 1)]
  /\ reported \subseteq Jobs /\ quiet \in BOOLEAN
  /\ pc \in {"down", "poll", "queue", "report", "results", "write", "delete", "stalls", "tell"}
  /\ todo \subseteq Jobs /\ cur \in Jobs \cup {NoJob}
  /\ word \in Outcomes \cup {"none"} /\ handled \in BOOLEAN
  /\ printed \subseteq Jobs /\ stuck \subseteq Jobs
  /\ misled \subseteq Jobs /\ interrupted \subseteq Jobs
  /\ unheard \subseteq Jobs /\ accepted \subseteq Jobs
  /\ refusals \in [Jobs -> 0..MaxAttempts] /\ faults \in 0..MaxFaults
  /\ pc \in {"queue", "report", "write", "delete"} => cur \in Jobs
  /\ pc = "write" => word # "none"

\* A record says SENT or RESENT of a job only if the driver took all of it, and
\* FAILED of such a job only if its print or its agent was cut off, or if the
\* share misreported a rename of its files (_status_word,
\* _report_enqueue_failure): no other failure of any party makes a label that
\* came out look like one that did not.
LinesAreTrue ==
  \A a \in Assets, j \in Jobs :
    status[a].job = j =>
      /\ status[a].word \in {"SENT", "RESENT"} => j \in printed
      /\ status[a].word = "FAILED" /\ j \in printed => j \in interrupted \cup misled

\* Jobs with files that the code has lost track of.
Astray == stuck \cup strays \cup misled

\* The watchdog does not write STALLED over the outcome of the same job, unless
\* files of it were left in the queue.
OutcomeStands ==
  [][ \A a \in Assets, j \in Jobs \ Astray :
        status[a].job = j /\ status[a].word \in Outcomes => status'[a] # Line("STALLED", j) ]_vars

\* A result with a line to write goes only when Halo has taken the line, or
\* when it refused STATUS_WRITE_MAX_ATTEMPTS times, restarts or not.
NotGivenUpEarly ==
  [][ \A j \in Jobs : result[j] # "none" /\ result'[j] = "none" /\ word # "none" =>
        j \in accepted \/ refusals[j] >= MaxAttempts ]_vars

\* No result stays in results/ for ever, but for those of sidecars without their
\* fields: neither they nor a record that cannot be written hold the others up
\* (run, _write_status).
ResultsDrain == \A j \in Jobs : result[j] # "none" ~> result[j] = "none" \/ j \in Malformed

\* README, "If work is waiting and nothing has completed for
\* STALLED_AFTER_MINUTES, every waiting asset is told": no record reads QUEUED
\* for ever, whether the agent answers or not (run and check_for_stalls).
EveryAssetIsTold ==
  \A j \in Jobs : AssetOf[j] \in Assets \ Unwritable =>
    (status[AssetOf[j]] = Line("QUEUED", j) ~> status[AssetOf[j]] # Line("QUEUED", j))

\* What holds of it: a record reads QUEUED for ever only if the job was not
\* queued and nothing could be said, its result or the one attempt at its
\* STALLED line was lost, Halo refused the outcome as often as it is tried, or
\* a sidecar without its fields stays in the queue and ends every pass.
ToldUnlessUnheard ==
  \A j \in Jobs : AssetOf[j] \in Assets \ Unwritable =>
    (status[AssetOf[j]] = Line("QUEUED", j) ~>
       \/ status[AssetOf[j]] # Line("QUEUED", j)
       \/ j \in unheard
       \/ Outstanding \cap Malformed # {})

=============================================================================
