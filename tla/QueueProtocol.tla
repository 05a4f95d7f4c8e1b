---------------------------- MODULE QueueProtocol ----------------------------
(***************************************************************************)
(* The folder queue, protocol/queue.py, with enqueue.write on the one side *)
(* and what the print agent does to its files on the other.                *)
(*                                                                         *)
(* A step is one call on one file: a file created, filled, renamed or      *)
(* removed.  Every job has a process that writes it, the service or a      *)
(* tool; it may die after any step, and the share may fail a call, or make *)
(* a rename and report it as failed.  The agent and the reconciler look at *)
(* the folders at any time, and each half sweeps .tmp when it starts.      *)
(***************************************************************************)
EXTENDS Integers, Sequences

CONSTANTS
  Jobs,
  NoJob,
  MaxAttempts, \* max(1, QUEUE_WRITE_RETRIES)
  Faults,      \* kinds of failure
  MaxFaults    \* bound: failures

FaultKinds ==
  {"io",     \* a call raises OSError and did nothing, or half of a write
   "lost",   \* a rename is made and raises OSError
   "unlink", \* a leftover cannot be removed
   "move",   \* the agent cannot move a file of a job
   "print",  \* the print raises
   "crash"}  \* a process dies

ASSUME ConstantsAssumption ==
  /\ NoJob \notin Jobs
  /\ MaxAttempts \in Nat \ {0}
  /\ Faults \subseteq FaultKinds /\ MaxFaults \in Nat

VARIABLES
  \* the share
  tmp,      \* tmp[j][f]: content of f of j in .tmp
  stale,    \* stale[j]: files of j in .tmp that are over an hour old
  inbox,    \* inbox[j][f]: content of f of j in inbox
  results,  \* results[j]: the status in results/<job_id>.json
  \* the process that writes j
  pc,       \* pc[j]: where it is in enqueue.write
  step,     \* step[j]: the call of write_job it makes next
  attempt,  \* attempt[j]
  answer,   \* answer[j]: what enqueue.write told its caller
  \* the agent
  known,    \* jobs in its ledger
  apc, job, \* what it does with which job
  left,     \* files it still has to move
  says,     \* the status it will write; "none" for none
  rstep,    \* the call of write_result it makes next
  \* a half that starts
  doomed,   \* files in .tmp that it found too old
  \* what the model adds
  puts,     \* puts[j]: times the payload of j came into the inbox
  printed,  \* printed[j]: times j was handed to the printer
  heard,    \* heard[j]: statuses of j that the reconciler has read
  spoiled,  \* jobs claimed whose move or print raised, or whose agent died
  misled,   \* jobs one of whose renames was made and reported as failed
  hung,     \* jobs whose files grew old while they were being written
  faults

shareVars  == <<tmp, stale, inbox, results>>
writerVars == <<pc, step, attempt, answer>>
agentVars  == <<known, apc, job, left, says, rstep>>
ghostVars  == <<puts, printed, heard, spoiled, misled, hung, faults>>
vars == <<tmp, stale, inbox, results, pc, step, attempt, answer, known, apc, job,
          left, says, rstep, doomed, puts, printed, heard, spoiled, misled, hung, faults>>

Files    == {"payload", "sidecar"}
TmpFiles == Files \cup {"result"}
Contents == {"none", "part", "whole"}
Statuses == {"success", "failed", "rejected"}

Call(op, f) == [op |-> op, file |-> f]

\* (Slips: the payload is renamed first; the sidecar is renamed unfilled.)
PayloadFirst ==
  <<Call("create", "payload"), Call("fill", "payload"), Call("create", "sidecar"), Call("fill", "sidecar"),
    Call("rename", "payload"), Call("rename", "sidecar"), Call("sync", "payload")>>
RenamedUnfilled ==
  <<Call("create", "payload"), Call("fill", "payload"), Call("create", "sidecar"), Call("rename", "sidecar"),
    Call("fill", "sidecar"), Call("rename", "payload"), Call("sync", "payload")>>

\* The calls of write_job, in an order that is load-bearing.
WriteJob ==
  <<Call("create", "payload"), Call("fill", "payload"), Call("create", "sidecar"), Call("fill", "sidecar"),
    Call("rename", "sidecar"), Call("rename", "payload"), Call("sync", "payload")>>

\* (A slip: the result is renamed before it is filled.)
ResultUnfilled ==
  <<Call("create", "result"), Call("rename", "result"), Call("fill", "result"), Call("sync", "result")>>

\* The calls of write_result.
WriteResult ==
  <<Call("create", "result"), Call("fill", "result"), Call("rename", "result"), Call("sync", "result")>>

\* (A slip: a directory that cannot be synced fails the write.)
SyncRaises == {"create", "fill", "rename", "sync"}

\* _fsync_dir swallows what the others raise.
CanRaise == {"create", "fill", "rename"}

Init ==
  /\ tmp     = [j \in Jobs |-> [f \in TmpFiles |-> "none"]]
  /\ stale   = [j \in Jobs |-> {}]
  /\ inbox   = [j \in Jobs |-> [f \in Files |-> "none"]]
  /\ results = [j \in Jobs |-> "none"]
  /\ pc      = [j \in Jobs |-> "new"]
  /\ step    = [j \in Jobs |-> 1]
  /\ attempt = [j \in Jobs |-> 0]
  /\ answer  = [j \in Jobs |-> "none"]
  /\ known   = {}
  /\ apc     = "idle"
  /\ job     = NoJob
  /\ left    = {}
  /\ says    = "none"
  /\ rstep   = 1
  /\ doomed  = {}
  /\ puts    = [j \in Jobs |-> 0]
  /\ printed = [j \in Jobs |-> 0]
  /\ heard   = [j \in Jobs |-> {}]
  /\ spoiled = {}
  /\ misled  = {}
  /\ hung    = {}
  /\ faults  = 0

Fault(kind) ==
  /\ kind \in Faults
  /\ faults < MaxFaults
  /\ faults' = faults + 1

-----------------------------------------------------------------------------
(* Single calls on the files of .tmp.                                      *)

\* open(path, "wb"): the file is there, empty and new.
Create(j, f) ==
  /\ tmp'   = [tmp EXCEPT ![j][f] = "part"]
  /\ stale' = [stale EXCEPT ![j] = @ \ {f}]

\* write, flush and fsync; a file that was swept meanwhile stays away.
Fill(j, f) ==
  /\ tmp' = [tmp EXCEPT ![j][f] = IF @ = "none" THEN "none" ELSE "whole"]
  /\ UNCHANGED stale

\* What os.replace, or unlink, leaves in .tmp.
Leave(j, f) ==
  /\ tmp'   = [tmp EXCEPT ![j][f] = "none"]
  /\ stale' = [stale EXCEPT ![j] = @ \ {f}]

\* A rename of a file that is not there raises.
Missing(j, call) == call.op = "rename" /\ tmp[j][call.file] = "none"

-----------------------------------------------------------------------------
(* enqueue.write and write_job.                                            *)

\* build_sidecar gives the job its id and its file name, once for all attempts.
Begin(j) ==
  /\ pc[j] = "new"
  /\ pc'      = [pc EXCEPT ![j] = "writing"]
  /\ attempt' = [attempt EXCEPT ![j] = 1]
  /\ UNCHANGED <<shareVars, step, answer, agentVars, doomed, ghostVars>>

\* os.replace into the inbox.
Publish(j, f) ==
  /\ inbox' = [inbox EXCEPT ![j][f] = tmp[j][f]]
  /\ Leave(j, f)
  /\ puts' = [puts EXCEPT ![j] = IF f = "payload" THEN @ + 1 ELSE @]

\* One call of write_job that succeeds; the last one ends enqueue.write.
WriteStep(j) ==
  /\ pc[j] = "writing"
  /\ LET call == WriteJob[step[j]] IN
       /\ ~Missing(j, call)
       /\ \/ call.op = "create" /\ Create(j, call.file) /\ UNCHANGED <<inbox, puts>>
          \/ call.op = "fill" /\ Fill(j, call.file) /\ UNCHANGED <<inbox, puts>>
          \/ call.op = "rename" /\ Publish(j, call.file)
          \/ call.op = "sync" /\ UNCHANGED <<tmp, stale, inbox, puts>>
  /\ IF step[j] < Len(WriteJob)
     THEN step' = [step EXCEPT ![j] = @ + 1] /\ UNCHANGED <<pc, answer>>
     ELSE /\ pc'     = [pc EXCEPT ![j] = "over"]
          /\ answer' = [answer EXCEPT ![j] = "ok"]
          /\ UNCHANGED step
  /\ UNCHANGED <<results, attempt, agentVars, doomed, printed, heard, spoiled, misled, hung, faults>>

\* One that raises OSError: it did nothing, or half of a write, or the rename.
WriteRaises(j) ==
  /\ pc[j] = "writing"
  /\ LET call == WriteJob[step[j]] IN
       \/ Missing(j, call) /\ UNCHANGED <<tmp, stale, inbox, puts, misled, faults>>
       \/ call.op \in CanRaise /\ Fault("io") /\ UNCHANGED <<tmp, stale, inbox, puts, misled>>
       \/ /\ call.op = "create" /\ Fault("io")
          /\ Create(j, call.file)
          /\ UNCHANGED <<inbox, puts, misled>>
       \/ /\ call.op = "rename" /\ ~Missing(j, call) /\ Fault("lost")
          /\ Publish(j, call.file)
          /\ misled' = misled \cup {j}
  /\ pc' = [pc EXCEPT ![j] = "clean"]
  /\ UNCHANGED <<results, step, attempt, answer, agentVars, doomed, printed, heard, spoiled, hung>>

\* (A slip: one attempt too many.)
OneTooMany(j) == attempt[j] > MaxAttempts

Exhausted(j) == attempt[j] >= MaxAttempts

\* (A slip: the loop ends without raising.)
ReturnsAnyway(j) == answer' = [answer EXCEPT ![j] = "ok"]

GiveUp(j) == answer' = [answer EXCEPT ![j] = "failed"]

\* The cleanup of write_job, best effort; then enqueue.write tries again with
\* the same sidecar, or gives up.
CleanUp(j) ==
  /\ pc[j] = "clean"
  /\ \E kept \in SUBSET Files :
       /\ tmp'   = [tmp EXCEPT ![j] = [f \in TmpFiles |-> IF f \in Files \ kept THEN "none" ELSE @[f]]]
       /\ stale' = [stale EXCEPT ![j] = @ \ (Files \ kept)]
       /\ IF kept = {} THEN UNCHANGED faults ELSE Fault("unlink")
  /\ step' = [step EXCEPT ![j] = 1]
  /\ IF Exhausted(j)
     THEN pc' = [pc EXCEPT ![j] = "over"] /\ GiveUp(j) /\ UNCHANGED attempt
     ELSE /\ pc'      = [pc EXCEPT ![j] = "writing"]
          /\ attempt' = [attempt EXCEPT ![j] = @ + 1]
          /\ UNCHANGED answer
  /\ UNCHANGED <<inbox, results, agentVars, doomed, puts, printed, heard, spoiled, misled, hung>>

\* The process that writes j dies: nobody writes j any more.
WriterDies(j) ==
  /\ pc[j] \in {"writing", "clean"}
  /\ Fault("crash")
  /\ pc' = [pc EXCEPT ![j] = "over"]
  /\ UNCHANGED <<shareVars, step, attempt, answer, agentVars, doomed, puts, printed, heard, spoiled, misled, hung>>

-----------------------------------------------------------------------------
(* The agent: handle, as far as it concerns the files, and emit_result.    *)

InboxFiles(j) == {f \in Files : inbox[j][f] # "none"}

\* A job of the listing, after the grace for its sidecar, and the first checks:
\* it is refused, or claimed and taken.
Notice(j) ==
  /\ apc = "idle"
  /\ inbox[j].payload # "none"
  /\ job'  = j
  /\ left' = InboxFiles(j)
  /\ \/ /\ inbox[j].sidecar # "whole"
        /\ apc' = "refuse" /\ says' = "none" /\ UNCHANGED known
     \/ /\ inbox[j].sidecar = "whole" /\ (j \in known \/ inbox[j].payload = "part")
        /\ apc' = "refuse" /\ says' = "rejected" /\ UNCHANGED known
     \/ /\ inbox[j] = [f \in Files |-> "whole"] /\ j \notin known
        /\ apc' = "take" /\ says' = "success" /\ known' = known \cup {j}
  /\ UNCHANGED <<shareVars, writerVars, rstep, doomed, ghostVars>>

\* move_job takes the files out of the inbox one by one.
Carry(f) ==
  /\ apc \in {"refuse", "take"}
  /\ f \in left
  /\ left'  = left \ {f}
  /\ inbox' = [inbox EXCEPT ![job][f] = "none"]
  /\ UNCHANGED <<tmp, stale, results, writerVars, known, apc, job, says, rstep, doomed, ghostVars>>

Rest == apc' = "idle" /\ job' = NoJob /\ says' = "none" /\ rstep' = 1

\* What was taken is printed ...
PrintJob ==
  /\ apc = "take"
  /\ left = {}
  /\ apc' = "shelve"
  /\ printed' = [printed EXCEPT ![job] = @ + 1]
  /\ UNCHANGED <<shareVars, writerVars, known, job, left, says, rstep, doomed, puts, heard, spoiled, misled, hung, faults>>

\* ... or the print raises, before the driver has the job or after.
PrintRaises ==
  /\ apc = "take"
  /\ left = {}
  /\ Fault("print")
  /\ apc'  = "shelve"
  /\ says' = "failed"
  /\ printed' \in {printed, [printed EXCEPT ![job] = @ + 1]}
  /\ spoiled' = spoiled \cup {job}
  /\ UNCHANGED <<shareVars, writerVars, known, job, left, rstep, doomed, puts, heard, misled, hung>>

\* The files are in done or failed; without a job id there is no result.
Carried ==
  /\ apc = "shelve" \/ (apc = "refuse" /\ left = {})
  /\ IF says = "none" THEN Rest ELSE apc' = "answer" /\ UNCHANGED <<job, says, rstep>>
  /\ UNCHANGED <<shareVars, writerVars, known, left, doomed, ghostVars>>

\* move_job raises, and what is not yet moved stays.  A job that cannot be
\* taken fails, a refused one is answered all the same; after the print nobody
\* catches it, and there is no result.
MoveRaises ==
  /\ apc = "shelve" \/ (apc \in {"refuse", "take"} /\ left # {})
  /\ Fault("move")
  /\ left' = {}
  /\ IF apc = "shelve" \/ says = "none" THEN Rest
     ELSE /\ apc'  = "answer"
          /\ says' = IF apc = "take" THEN "failed" ELSE says
          /\ UNCHANGED <<job, rstep>>
  /\ spoiled' = IF apc = "take" THEN spoiled \cup {job} ELSE spoiled
  /\ UNCHANGED <<shareVars, writerVars, known, doomed, puts, printed, heard, misled, hung>>

\* One call of write_result that succeeds.
AnswerStep ==
  /\ apc = "answer"
  /\ LET call == WriteResult[rstep] IN
       /\ ~Missing(job, call)
       /\ \/ call.op = "create" /\ Create(job, "result") /\ UNCHANGED results
          \/ call.op = "fill" /\ Fill(job, "result") /\ UNCHANGED results
          \/ /\ call.op = "rename" /\ Leave(job, "result")
             /\ results' = [results EXCEPT ![job] = IF tmp[job].result = "whole" THEN says ELSE "part"]
          \/ call.op = "sync" /\ UNCHANGED <<tmp, stale, results>>
  /\ IF rstep < Len(WriteResult) THEN rstep' = rstep + 1 /\ UNCHANGED <<apc, job, says>> ELSE Rest
  /\ UNCHANGED <<inbox, writerVars, known, left, doomed, ghostVars>>

\* One that raises: the leftover goes, emit_result logs, the result is lost.
AnswerRaises ==
  /\ apc = "answer"
  /\ LET call == WriteResult[rstep] IN
       \/ Missing(job, call) /\ UNCHANGED faults
       \/ call.op \in CanRaise /\ Fault("io")
  /\ Leave(job, "result")
  /\ Rest
  /\ UNCHANGED <<inbox, results, writerVars, known, left, doomed, puts, printed, heard, spoiled, misled, hung>>

\* The agent dies.  A job that it had claimed is an orphan: the next start
\* answers that it failed, whether the driver has it or not; what was printed,
\* refused or answered, and is marked, is not looked at again.
AgentDies ==
  /\ apc # "idle"
  /\ Fault("crash")
  /\ left' = {}
  /\ IF apc = "take"
     THEN /\ apc'  = "answer"
          /\ says' = "failed"
          /\ printed' \in IF left = {} THEN {printed, [printed EXCEPT ![job] = @ + 1]} ELSE {printed}
          /\ spoiled' = spoiled \cup {job}
          /\ UNCHANGED <<job, rstep>>
     ELSE Rest /\ UNCHANGED <<printed, spoiled>>
  /\ UNCHANGED <<shareVars, writerVars, known, doomed, puts, heard, misled, hung>>

Agent ==
  \/ \E j \in Jobs : Notice(j)
  \/ \E f \in Files : Carry(f)
  \/ PrintJob \/ Carried \/ AnswerStep \/ AnswerRaises

-----------------------------------------------------------------------------
(* The reconciler, the clock and sweep_stale_tmp.                          *)

\* Reconciler.run reads a result and deletes it.
Collect(j) ==
  /\ results[j] # "none"
  /\ heard'   = [heard EXCEPT ![j] = @ \cup {results[j]}]
  /\ results' = [results EXCEPT ![j] = "none"]
  /\ UNCHANGED <<tmp, stale, inbox, writerVars, agentVars, doomed, puts, printed, spoiled, misled, hung, faults>>

\* The process at work on file f of j.
AtWork(j, f) == IF f = "result" THEN apc = "answer" /\ job = j ELSE pc[j] \in {"writing", "clean"}

\* _STALE_TMP_SECONDS pass, for a file left behind or under a call that hangs.
Age(j, f) ==
  /\ tmp[j][f] # "none"
  /\ f \notin stale[j]
  /\ stale' = [stale EXCEPT ![j] = @ \cup {f}]
  /\ hung'  = IF AtWork(j, f) THEN hung \cup {j} ELSE hung
  /\ UNCHANGED <<tmp, inbox, results, writerVars, agentVars, doomed, puts, printed, heard, spoiled, misled, faults>>

\* (Slips: files of any age are swept; only sidecars and results are.)
AnyAge(j, f)   == tmp[j][f] # "none"
JsonOnly(j, f) == f \in stale[j] \ {"payload"}

TooOld(j, f) == f \in stale[j]

\* A half starts and finds a file too old ...
Look(j, f) ==
  /\ TooOld(j, f)
  /\ <<j, f>> \notin doomed
  /\ doomed' = doomed \cup {<<j, f>>}
  /\ UNCHANGED <<shareVars, writerVars, agentVars, ghostVars>>

\* ... and removes what has that name by then, or cannot.
Sweep(j, f) ==
  /\ <<j, f>> \in doomed
  /\ doomed' = doomed \ {<<j, f>>}
  /\ \/ Leave(j, f) /\ UNCHANGED faults
     \/ Fault("unlink") /\ UNCHANGED <<tmp, stale>>
  /\ UNCHANGED <<inbox, results, writerVars, agentVars, puts, printed, heard, spoiled, misled, hung>>

-----------------------------------------------------------------------------
(* The specification.                                                      *)

Writer(j) == Begin(j) \/ WriteStep(j) \/ WriteRaises(j) \/ CleanUp(j)

Next ==
  \/ \E j \in Jobs : Writer(j) \/ WriterDies(j) \/ Collect(j)
  \/ Agent \/ PrintRaises \/ MoveRaises \/ AgentDies
  \/ \E j \in Jobs, f \in TmpFiles : Age(j, f) \/ Look(j, f) \/ Sweep(j, f)

Spec == Init /\ [][Next]_vars

\* A process that writes goes on, the agent sweeps the inbox, time passes, a
\* sweep that has begun goes on.  Nothing is assumed of starts and failures.
Fairness ==
  /\ \A j \in Jobs : WF_vars(WriteStep(j) \/ WriteRaises(j) \/ CleanUp(j))
  /\ WF_vars(Agent)
  /\ \A j \in Jobs, f \in TmpFiles : WF_vars(Age(j, f)) /\ WF_vars(Sweep(j, f))

FairSpec == Spec /\ Fairness

-----------------------------------------------------------------------------
(* Properties.                                                             *)

\* The state has its type.
TypeOK ==
  /\ tmp \in [Jobs -> [TmpFiles -> Contents]]
  /\ stale \in [Jobs -> SUBSET TmpFiles]
  /\ inbox \in [Jobs -> [Files -> Contents]]
  /\ results \in [Jobs -> Statuses \cup {"none", "part"}]
  /\ pc \in [Jobs -> {"new", "writing", "clean", "over"}]
  /\ step \in [Jobs -> 1..7]
  /\ attempt \in [Jobs -> 0..MaxAttempts]
  /\ answer \in [Jobs -> {"none", "ok", "failed"}]
  /\ known \subseteq Jobs
  /\ apc \in {"idle", "refuse", "take", "shelve", "answer"} /\ job \in Jobs \cup {NoJob}
  /\ left \subseteq Files /\ says \in Statuses \cup {"none"} /\ rstep \in 1..4
  /\ doomed \subseteq Jobs \X TmpFiles
  /\ puts \in [Jobs -> 0..MaxAttempts] /\ printed \in [Jobs -> Nat]
  /\ heard \in [Jobs -> SUBSET (Statuses \cup {"part"})]
  /\ spoiled \subseteq Jobs /\ misled \subseteq Jobs /\ hung \subseteq Jobs
  /\ faults \in 0..MaxFaults
  /\ apc # "idle" => job \in Jobs
  /\ apc \in {"take", "shelve", "answer"} => says \in Statuses

\* The agent never sees half a file in the inbox, and the service never half a
\* result, whatever fails and whoever dies (write_job, write_result).
NothingIsHalf ==
  \A j \in Jobs :
    /\ \A f \in Files : inbox[j][f] # "part"
    /\ results[j] # "part" /\ "part" \notin heard[j]

\* A payload in the inbox has its sidecar beside it, until the agent claims the
\* job: a later copy of a job already claimed may lose its sidecar to the files
\* being moved, a first one never (the order of write_job).
SidecarIsThere ==
  \A j \in Jobs :
    inbox[j].payload # "none" /\ j \notin known => inbox[j].sidecar = "whole"

\* A job whose write was given up is not in the queue and was never printed,
\* unless the share made a rename that it reported as failed: the recovery
\* command in the log does not label cables twice (enqueue.write).
GivenUpNotQueued ==
  \A j \in Jobs : answer[j] = "failed" /\ j \notin misled => puts[j] = 0 /\ printed[j] = 0

\* The service hears of a rejected job that printed only after such a rename:
\* the retries of enqueue.write make no replays otherwise.
ReplaysAreMisled ==
  \A j \in Jobs : printed[j] > 0 /\ "rejected" \in heard[j] => j \in misled

\* A sweep never takes a file from a write in progress, unless that write has
\* been hanging for as long as a file may stay (sweep_stale_tmp).
SweepSparesWrites ==
  \A j \in Jobs \ hung :
    pc[j] = "writing" =>
      /\ step[j] \in 3..6 => tmp[j].payload = "whole"
      /\ step[j] = 5 => tmp[j].sidecar = "whole"

\* The files do what an abstract queue promises.
Queue == INSTANCE JobQueue WITH
  waiting <- {j \in Jobs : inbox[j].payload # "none"},
  put     <- {j \in Jobs : puts[j] > 0},
  answer  <- answer

IsQueue == Queue!Spec

\* A job of which enqueue.write said that it is queued is printed, unless a
\* move, the print or the agent failed with the claim in hand: nothing else may
\* end it, no retry, sweep, refusal or half-made write (handle).
WrittenIsPrinted ==
  \A j \in Jobs : answer[j] = "ok" ~> printed[j] > 0 \/ j \in spoiled

\* What a process that died left in .tmp goes, if the halves start again and
\* again (sweep_stale_tmp).
StartsAgain == \A j \in Jobs, f \in TmpFiles : WF_vars(Look(j, f))
DebrisGoes ==
  StartsAgain => \A j \in Jobs, f \in TmpFiles : tmp[j][f] # "none" ~> tmp[j][f] = "none"

\* main.py, _report_enqueue_failure, "no job file was ever written": nothing of
\* a job that was given up is in the inbox.
GivenUpLeavesNothing ==
  \A j \in Jobs : answer[j] = "failed" => InboxFiles(j) = {}

=============================================================================
