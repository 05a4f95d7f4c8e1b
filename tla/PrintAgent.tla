----------------------------- MODULE PrintAgent -----------------------------
(***************************************************************************)
(* The print agent, winagent/src/agent.py with its ledger, and the folders *)
(* it shares with the service (protocol/queue.py).                         *)
(*                                                                         *)
(* The main thread recovers what a previous run left, sweeps the inbox and *)
(* goes on sweeping it every few seconds; the watcher thread sweeps it on  *)
(* file events.  A step is one file moved, one row written, one submission *)
(* to the driver or one result written: the agent may die after any.  The  *)
(* folders, the ledger and the results outlive it.                         *)
(***************************************************************************)
EXTENDS Integers, FiniteSets

CONSTANTS
  Jobs,          \* job ids, numbered in the order of their file names
  Main, Watcher, \* the two threads that sweep
  NoThread, NoJob,
  Contents,      \* what a delivered copy may be: [sidecar : Sidecars, payload : Payloads]
  Faults,        \* kinds of failure
  LateCopies,    \* whether a copy may arrive once its ledger row is pruned
  MaxArrivals,   \* bounds: MaxArrivals[j] copies of j put in the inbox
  MaxFaults      \* and failures

Threads  == {Main, Watcher}
Folders  == {"inbox", "processing", "done", "failed"}
Files    == {"sidecar", "payload"}
Sidecars == {"good", "unreadable", "invalid", "missing"}
Payloads == {"whole", "cut"}

FaultKinds ==
  {"read",    \* the sidecar is readable, hashing the payload raises OSError
   "move",    \* a rename fails
   "print",   \* the backend raises
   "result",  \* the result file cannot be written
   "crash"}   \* the process dies or is stopped

ASSUME ConstantsAssumption ==
  /\ Jobs \subseteq Nat /\ NoJob \notin Jobs
  /\ Main # Watcher /\ NoThread \notin Threads
  /\ Contents \subseteq [sidecar : Sidecars, payload : Payloads]
  /\ Faults \subseteq FaultKinds
  /\ LateCopies \in BOOLEAN
  /\ MaxArrivals \in [Jobs -> Nat] /\ MaxFaults \in Nat

VARIABLES
  \* the share
  at,        \* at[j]: the places <<folder, file>> that hold a file of job j
  copy,      \* copy[j]: the content of j's files in the inbox
  result,    \* result[j]: the status last written to results/<job_id>.json
  \* the agent's disk
  ledger,    \* ledger[j]: the row of j
  \* the agent's memory
  lock,      \* the thread in sweep_inbox
  pc,        \* pc[t]: where thread t is
  list,      \* list[t]: jobs of the listing it walks that are still to come
  cur,       \* cur[t]: the job it handles
  left,      \* left[t]: files of the move_job it is in that are still to move
  verdict,   \* verdict[t]: the status it will write for cur[t]; "none" for none
  recalls,   \* it remembers when the printer last got a job
  \* the printer and what the model adds
  busy,      \* the printer is still taking a job in
  crowded,   \* times it was handed a job while it was
  printed,   \* printed[j]: times j was handed to the printer
  arrivals,  \* arrivals[j]: copies of j that have come
  faults     \* failures so far

shareVars  == <<at, copy, result>>
memoryVars == <<lock, pc, list, cur, left, verdict, recalls>>
ghostVars  == <<arrivals, faults>>
vars == <<at, copy, result, ledger, lock, pc, list, cur, left, verdict, recalls,
          busy, crowded, printed, arrivals, faults>>

Rows     == {"none", "claimed", "done", "failed"}
Statuses == {"none", "success", "failed", "rejected"}

In(j, folder) == {f \in Files : <<folder, f>> \in at[j]}

\* (A slip: the sidecars are listed, and a payload that lost its own stays.)
SidecarsListed == {j \in Jobs : "sidecar" \in In(j, "inbox")}

\* iter_inbox_jobs: what it lists is the payloads.
Inbox == {j \in Jobs : "payload" \in In(j, "inbox")}

Oldest(S) == {j \in S : \A k \in S : j <= k}

Init ==
  /\ at       = [j \in Jobs |-> {}]
  /\ copy     = [j \in Jobs |-> [sidecar |-> "good", payload |-> "whole"]]
  /\ result   = [j \in Jobs |-> "none"]
  /\ ledger   = [j \in Jobs |-> "none"]
  /\ lock     = NoThread
  /\ pc       = [t \in Threads |-> "down"]
  /\ list     = [t \in Threads |-> {}]
  /\ cur      = [t \in Threads |-> NoJob]
  /\ left     = [t \in Threads |-> {}]
  /\ verdict  = [t \in Threads |-> "none"]
  /\ recalls  = FALSE
  /\ busy     = FALSE
  /\ crowded  = 0
  /\ printed  = [j \in Jobs |-> 0]
  /\ arrivals = [j \in Jobs |-> 0]
  /\ faults   = 0

Fault(kind) ==
  /\ kind \in Faults
  /\ faults < MaxFaults
  /\ faults' = faults + 1

Goto(t, label) == pc' = [pc EXCEPT ![t] = label]

-----------------------------------------------------------------------------
(* What goes on around the agent.                                          *)

\* A copy of a job lands in the inbox: the service writes it, a retry writes it
\* again, a person or a reconnecting share puts it back.
Arrive(j) ==
  /\ arrivals[j] < MaxArrivals[j]
  /\ arrivals' = [arrivals EXCEPT ![j] = @ + 1]
  /\ \E c \in Contents :
        IF c.sidecar = "missing"
        THEN /\ copy' = [copy EXCEPT ![j].payload = c.payload]
             /\ at'   = [at EXCEPT ![j] = @ \cup {<<"inbox", "payload">>}]
        ELSE /\ copy' = [copy EXCEPT ![j] = c]
             /\ at'   = [at EXCEPT ![j] = @ \cup {<<"inbox", "payload">>, <<"inbox", "sidecar">>}]
  /\ UNCHANGED <<result, ledger, memoryVars, busy, crowded, printed, faults>>

\* The printer has taken the last job in.
Settle ==
  /\ busy
  /\ busy' = FALSE
  /\ UNCHANGED <<shareVars, ledger, memoryVars, crowded, printed, ghostVars>>

-----------------------------------------------------------------------------
(* move_job: the files of a stem, one after the other, in any order.       *)

Moves == {"reject", "take", "shelve", "drop", "recover", "stray"}
From(move) == IF move \in {"reject", "take"} THEN "inbox" ELSE "processing"
To(move) ==
  CASE move = "take" -> "processing" [] move = "shelve" -> "done" [] OTHER -> "failed"

BeginMove(t, j, move) ==
  /\ left' = [left EXCEPT ![t] = In(j, From(move))]
  /\ Goto(t, move)

\* The thread is done with the job.
Release(t, label) ==
  /\ Goto(t, label)
  /\ cur'     = [cur EXCEPT ![t] = NoJob]
  /\ left'    = [left EXCEPT ![t] = {}]
  /\ verdict' = [verdict EXCEPT ![t] = "none"]

\* handle returns, or an exception ends it: the sweep goes on.
Dismiss(t) == Release(t, "sweep")

\* One step further with the same job.
Proceed(t, label) ==
  /\ Goto(t, label)
  /\ left' = [left EXCEPT ![t] = {}]
  /\ UNCHANGED <<cur, verdict>>

MoveFile(t) ==
  /\ pc[t] \in Moves
  /\ \E f \in left[t] :
        /\ left' = [left EXCEPT ![t] = @ \ {f}]
        /\ IF f \in In(cur[t], From(pc[t]))
           THEN at' = [at EXCEPT ![cur[t]] = (@ \ {<<From(pc[t]), f>>}) \cup {<<To(pc[t]), f>>}]
           ELSE UNCHANGED at
  /\ UNCHANGED <<copy, result, ledger, lock, pc, list, cur, verdict, recalls, busy,
                 crowded, printed, ghostVars>>

\* (A slip: a result is written although no job id was read.)
AnswersRegardless(t) == Proceed(t, "answer")

\* A result is written if the code read a job id to write it under.
AfterReject(t) == IF verdict[t] = "none" THEN Dismiss(t) ELSE Proceed(t, "answer")

\* (A slip: a job that was moved out of processing is forgotten.)
NoAnswer(t) == Dismiss(t)

\* handle: the job has left processing, its result is next.
AfterShelving(t) == Proceed(t, "answer")

MoveEnds(t) ==
  /\ pc[t] \in Moves
  /\ left[t] = {}
  /\ \/ pc[t] = "reject" /\ AfterReject(t)
     \/ pc[t] = "take" /\ Proceed(t, "print")
     \/ pc[t] \in {"shelve", "drop"} /\ AfterShelving(t)
     \/ pc[t] = "recover" /\ Proceed(t, "orphan")
     \/ pc[t] = "stray" /\ Release(t, "strays")
  /\ UNCHANGED <<shareVars, ledger, lock, list, recalls, busy, crowded, printed, ghostVars>>

\* (A slip: the row of a job that cannot be taken stays claimed.)
LeftClaimed(t) == Proceed(t, "answer")

\* handle: a job that cannot be taken is marked failed and answered.
CannotTake(t) == Proceed(t, "fail")

\* A rename fails: the files moved so far stay where they are.  reject and
\* recover_orphans go on, a job printed or failed ends without a result.
MoveFails(t) ==
  /\ pc[t] \in Moves \ {"stray"}
  /\ left[t] # {}
  /\ Fault("move")
  /\ \/ pc[t] = "reject" /\ AfterReject(t)
     \/ pc[t] = "take" /\ CannotTake(t)
     \/ pc[t] \in {"shelve", "drop"} /\ Dismiss(t)
     \/ pc[t] = "recover" /\ Proceed(t, "orphan")
  /\ UNCHANGED <<shareVars, ledger, lock, list, recalls, busy, crowded, printed, arrivals>>

-----------------------------------------------------------------------------
(* Start and end of the process.                                           *)

\* (A slip: the pause between two jobs is left out.)
NeverWaits == TRUE

\* _wait_for_the_printer: it waits if it remembers a print, for long enough.
PrinterReady == recalls => ~busy

\* The driver takes job j, and the printer starts to take it in.
HandOver(j) ==
  /\ printed' = [printed EXCEPT ![j] = @ + 1]
  /\ busy'    = TRUE
  /\ crowded' = IF busy THEN crowded + 1 ELSE crowded

HasPayload(t) == "payload" \in In(cur[t], "processing")

Forget ==
  /\ lock'    = NoThread
  /\ pc'      = [t \in Threads |-> "down"]
  /\ list'    = [t \in Threads |-> {}]
  /\ cur'     = [t \in Threads |-> NoJob]
  /\ left'    = [t \in Threads |-> {}]
  /\ verdict' = [t \in Threads |-> "none"]
  /\ recalls' = FALSE

\* The process dies, or is stopped; a job may have gone to the printer.
Crash ==
  /\ pc[Main] # "down"
  /\ Fault("crash")
  /\ \/ UNCHANGED <<printed, crowded, busy>>
     \/ \E t \in Threads :
           /\ pc[t] = "print" /\ PrinterReady /\ HasPayload(t)
           /\ HandOver(cur[t])
  /\ Forget
  /\ UNCHANGED <<shareVars, ledger, arrivals>>

\* main: preflight starts with what the ledger still holds as claimed.
Start ==
  /\ pc[Main] = "down"
  /\ list' = [list EXCEPT ![Main] = {j \in Jobs : ledger[j] = "claimed"}]
  /\ Goto(Main, "orphans")
  /\ UNCHANGED <<shareVars, ledger, lock, cur, left, verdict, recalls, busy, crowded, printed, ghostVars>>

\* recover_orphans: a claimed job is never printed again.
NextOrphan ==
  /\ pc[Main] = "orphans"
  /\ \E j \in list[Main] :
        /\ list'    = [list EXCEPT ![Main] = @ \ {j}]
        /\ cur'     = [cur EXCEPT ![Main] = j]
        /\ verdict' = [verdict EXCEPT ![Main] = "failed"]
        /\ BeginMove(Main, j, "recover")
  /\ UNCHANGED <<shareVars, ledger, lock, recalls, busy, crowded, printed, ghostVars>>

\* (A slip: what the ledger does not know is left in processing.)
OnlyTheLedger == {}

\* ... and whatever else lies in processing/ follows.
Strays == {j \in Jobs : In(j, "processing") # {}}

OrphansDone ==
  /\ pc[Main] = "orphans"
  /\ list[Main] = {}
  /\ list' = [list EXCEPT ![Main] = Strays]
  /\ Goto(Main, "strays")
  /\ UNCHANGED <<shareVars, ledger, lock, cur, left, verdict, recalls, busy, crowded, printed, ghostVars>>

NextStray ==
  /\ pc[Main] = "strays"
  /\ \E j \in Oldest(list[Main]) :
        /\ list' = [list EXCEPT ![Main] = @ \ {j}]
        /\ cur'  = [cur EXCEPT ![Main] = j]
        /\ BeginMove(Main, j, "stray")
  /\ UNCHANGED <<shareVars, ledger, lock, verdict, recalls, busy, crowded, printed, ghostVars>>

\* That move is not guarded: main gives up and the service manager starts again.
StrayMoveFails ==
  /\ pc[Main] = "stray"
  /\ left[Main] # {}
  /\ Fault("move")
  /\ Forget
  /\ UNCHANGED <<shareVars, ledger, busy, crowded, printed, arrivals>>

\* No copy of j comes after its row is old enough to be pruned.
Over(j) == arrivals[j] = MaxArrivals[j] /\ j \notin Inbox

\* Ledger.prune and prune_done drop what is old, then the first sweep begins.
EndPreflight ==
  /\ pc[Main] = "strays"
  /\ list[Main] = {}
  /\ \E old \in SUBSET {j \in Jobs : ledger[j] \in {"done", "failed"} /\ (LateCopies \/ Over(j))} :
        /\ ledger' = [j \in Jobs |-> IF j \in old THEN "none" ELSE ledger[j]]
        /\ at'     = [j \in Jobs |-> IF j \in old THEN at[j] \ ({"done"} \X Files) ELSE at[j]]
  /\ lock' = Main
  /\ list' = [list EXCEPT ![Main] = Inbox]
  /\ Goto(Main, "sweep")
  /\ UNCHANGED <<copy, result, cur, left, verdict, recalls, busy, crowded, printed, ghostVars>>

\* run_forever: the observer starts once the first sweep is over.
Observe ==
  /\ pc[Main] = "idle"
  /\ pc[Watcher] = "down"
  /\ Goto(Watcher, "idle")
  /\ UNCHANGED <<shareVars, ledger, lock, list, cur, left, verdict, recalls, busy, crowded, printed, ghostVars>>

-----------------------------------------------------------------------------
(* sweep_inbox and handle.                                                 *)

\* (A slip: the two threads sweep at once.)
SweepsAtOnce == TRUE

LockIsFree == lock = NoThread

BeginSweep(t) ==
  /\ pc[t] = "idle"
  /\ LockIsFree
  /\ lock' = t
  /\ list' = [list EXCEPT ![t] = Inbox]
  /\ Goto(t, "sweep")
  /\ UNCHANGED <<shareVars, ledger, cur, left, verdict, recalls, busy, crowded, printed, ghostVars>>

NextJob(t) ==
  /\ pc[t] = "sweep"
  /\ \E j \in Oldest(list[t]) :
        /\ list' = [list EXCEPT ![t] = @ \ {j}]
        /\ cur'  = [cur EXCEPT ![t] = j]
  /\ Goto(t, "open")
  /\ UNCHANGED <<shareVars, ledger, lock, left, verdict, recalls, busy, crowded, printed, ghostVars>>

EndSweep(t) ==
  /\ pc[t] = "sweep"
  /\ list[t] = {}
  /\ lock' = NoThread
  /\ Goto(t, "idle")
  /\ UNCHANGED <<shareVars, ledger, list, cur, left, verdict, recalls, busy, crowded, printed, ghostVars>>

\* reject, with the status that goes in the result.
Reject(t, status) ==
  /\ BeginMove(t, cur[t], "reject")
  /\ verdict' = [verdict EXCEPT ![t] = status]

\* (A slip: only a job that printed to the end counts as seen.)
KnownOnceDone(j) == ledger[j] = "done"

\* Ledger.seen, and the primary key that makes Ledger.claim fail.
Known(j) == ledger[j] # "none"

\* The checks before the claim, in their order.
Open(t) ==
  /\ pc[t] = "open"
  /\ LET j == cur[t] IN
     \/ /\ "sidecar" \notin In(j, "inbox") \/ copy[j].sidecar = "unreadable"
        /\ Reject(t, "none")
        /\ UNCHANGED cur
     \/ /\ "sidecar" \in In(j, "inbox") /\ copy[j].sidecar # "unreadable"
        /\ \/ copy[j].sidecar = "invalid"
           \/ Known(j)
           \/ copy[j].payload = "cut" /\ "payload" \in In(j, "inbox")
        /\ Reject(t, "rejected")
        /\ UNCHANGED cur
     \/ /\ "sidecar" \in In(j, "inbox") /\ copy[j].sidecar = "good"
        /\ ~Known(j)
        /\ copy[j].payload = "whole" /\ "payload" \in In(j, "inbox")
        /\ Proceed(t, "claim")
     \/ /\ "sidecar" \in In(j, "inbox") /\ copy[j].sidecar = "good"
        /\ ~Known(j)
        /\ "payload" \notin In(j, "inbox")
        /\ Dismiss(t)
  /\ UNCHANGED <<shareVars, ledger, lock, list, recalls, busy, crowded, printed, ghostVars>>

\* Hashing the payload raises: the job is left for the next sweep.
OpenRaises(t) ==
  /\ pc[t] = "open"
  /\ "sidecar" \in In(cur[t], "inbox") /\ copy[cur[t]].sidecar = "good" /\ ~Known(cur[t])
  /\ Fault("read")
  /\ Dismiss(t)
  /\ UNCHANGED <<shareVars, ledger, lock, list, recalls, busy, crowded, printed, arrivals>>

\* Claim before printing.
Claim(t) ==
  /\ pc[t] = "claim"
  /\ IF Known(cur[t])
     THEN Reject(t, "rejected") /\ UNCHANGED ledger
     ELSE /\ ledger' = [ledger EXCEPT ![cur[t]] = "claimed"]
          /\ BeginMove(t, cur[t], "take")
          /\ verdict' = [verdict EXCEPT ![t] = "failed"]
  /\ UNCHANGED <<shareVars, lock, list, cur, recalls, busy, crowded, printed, ghostVars>>

PrintJob(t) ==
  /\ pc[t] = "print"
  /\ PrinterReady
  /\ HasPayload(t)
  /\ HandOver(cur[t])
  /\ recalls' = TRUE
  /\ verdict' = [verdict EXCEPT ![t] = "success"]
  /\ Goto(t, "mark")
  /\ UNCHANGED <<shareVars, ledger, lock, list, cur, left, ghostVars>>

\* The backend raises, before or after the driver took something in; of what it
\* took then the agent has no time, and what it remembers is long past.
PrintRaises(t) ==
  /\ pc[t] = "print"
  /\ PrinterReady
  /\ \/ Fault("print") /\ UNCHANGED <<recalls, busy, crowded, printed>>
     \/ Fault("print") /\ HasPayload(t) /\ HandOver(cur[t]) /\ recalls' = FALSE
     \/ ~HasPayload(t) /\ UNCHANGED <<recalls, busy, crowded, printed, faults>>
  /\ Goto(t, "mark")
  /\ UNCHANGED <<shareVars, ledger, lock, list, cur, left, verdict, arrivals>>

\* Ledger.mark after the print, then the move out of processing.
Mark(t) ==
  /\ pc[t] = "mark"
  /\ IF verdict[t] = "success"
     THEN ledger' = [ledger EXCEPT ![cur[t]] = "done"] /\ BeginMove(t, cur[t], "shelve")
     ELSE ledger' = [ledger EXCEPT ![cur[t]] = "failed"] /\ BeginMove(t, cur[t], "drop")
  /\ UNCHANGED <<shareVars, lock, list, cur, verdict, recalls, busy, crowded, printed, ghostVars>>

\* Ledger.mark of a job that could not be taken, or is recovered.
MarkFailed(t) ==
  /\ pc[t] \in {"fail", "orphan"}
  /\ ledger' = [ledger EXCEPT ![cur[t]] = "failed"]
  /\ Proceed(t, IF pc[t] = "fail" THEN "answer" ELSE "inform")
  /\ UNCHANGED <<shareVars, lock, list, recalls, busy, crowded, printed, ghostVars>>

\* emit_result: a result that cannot be written is only logged.
Answer(t) ==
  /\ pc[t] \in {"answer", "inform"}
  /\ \/ result' = [result EXCEPT ![cur[t]] = verdict[t]] /\ UNCHANGED faults
     \/ Fault("result") /\ UNCHANGED result
  /\ Release(t, IF pc[t] = "answer" THEN "sweep" ELSE "orphans")
  /\ UNCHANGED <<at, copy, ledger, lock, list, recalls, busy, crowded, printed, arrivals>>

-----------------------------------------------------------------------------
(* The specification.                                                      *)

\* The way from a process that is down to the first sweep.
Preflight == NextOrphan \/ OrphansDone \/ NextStray \/ StrayMoveFails \/ EndPreflight

\* What a thread does once it sweeps, and the moves and answers of recovery.
Work(t) ==
  \/ MoveFile(t) \/ MoveEnds(t) \/ MoveFails(t)
  \/ NextJob(t) \/ EndSweep(t)
  \/ Open(t) \/ OpenRaises(t) \/ Claim(t)
  \/ PrintJob(t) \/ PrintRaises(t) \/ Mark(t) \/ MarkFailed(t) \/ Answer(t)

Next ==
  \/ \E j \in Jobs : Arrive(j)
  \/ Settle \/ Crash \/ Start \/ Preflight \/ Observe
  \/ \E t \in Threads : BeginSweep(t) \/ Work(t)

Spec == Init /\ [][Next]_vars

\* The service manager starts the process again, a thread that works goes on,
\* the main thread polls, and the printer ends with a job.  Nothing is assumed
\* of the watcher's events, of deliveries or of failures.
Fairness ==
  /\ WF_vars(Start)
  /\ WF_vars(Preflight)
  /\ WF_vars(BeginSweep(Main))
  /\ WF_vars(Settle)
  /\ \A t \in Threads : WF_vars(Work(t))

FairSpec == Spec /\ Fairness

-----------------------------------------------------------------------------
(* Properties.                                                             *)

Handling == Moves \cup {"orphan", "inform", "open", "claim", "print", "mark", "fail", "answer"}

\* The state has its type, a thread has a job exactly while handle or the
\* recovery works on one, and no result is written without a status.
TypeOK ==
  /\ at \in [Jobs -> SUBSET (Folders \X Files)]
  /\ copy \in [Jobs -> [sidecar : Sidecars \ {"missing"}, payload : Payloads]]
  /\ result \in [Jobs -> Statuses]
  /\ ledger \in [Jobs -> Rows]
  /\ lock \in Threads \cup {NoThread}
  /\ pc \in [Threads -> {"down", "idle", "orphans", "strays", "sweep"} \cup Handling]
  /\ list \in [Threads -> SUBSET Jobs]
  /\ cur \in [Threads -> Jobs \cup {NoJob}]
  /\ left \in [Threads -> SUBSET Files]
  /\ verdict \in [Threads -> Statuses]
  /\ recalls \in BOOLEAN /\ busy \in BOOLEAN /\ crowded \in Nat
  /\ printed \in [Jobs -> Nat] /\ arrivals \in [Jobs -> Nat]
  /\ faults \in 0..MaxFaults
  /\ \A t \in Threads : pc[t] \in Handling <=> cur[t] # NoJob
  /\ \A t \in Threads : pc[t] \in {"answer", "inform"} => verdict[t] # "none"

\* A job is handed to the printer at most once, however often it is delivered,
\* whatever fails and wherever the agent dies (the claim of handle, seen,
\* recover_orphans).
PrintedAtMostOnce == \A j \in Jobs : printed[j] <= 1

\* A job delivered once is not both printed and reported as rejected: the two
\* sweeping threads do not see each other's work as a replay (_sweeping).
PrintedNotRejected ==
  \A j \in Jobs : printed[j] > 0 /\ arrivals[j] = 1 => result[j] # "rejected"

\* A claimed row belongs to a job that a thread is printing or that the next
\* start of the agent recovers: every way out of handle marks it.
ClaimsAreHeld ==
  \A j \in Jobs : ledger[j] = "claimed" =>
    \/ pc[Main] = "down"
    \/ pc[Main] \in {"orphans", "recover", "orphan", "inform"} /\ j \in list[Main]
    \/ \E t \in Threads :
          cur[t] = j /\ pc[t] \in {"take", "fail", "print", "mark", "recover", "orphan"}

\* The jobs that are over and have no result, with nobody about to write one.
Answering(j) ==
  \E t \in Threads : cur[t] = j /\ pc[t] \in {"shelve", "drop", "answer", "inform"}
Unanswered ==
  {j \in Jobs : /\ printed[j] > 0 \/ ledger[j] \in {"done", "failed"}
                /\ ledger[j] # "claimed"
                /\ result[j] = "none" /\ ~Answering(j)}

\* Whatever was claimed ends in a result, but for one job per failure: a death of
\* the agent between the ledger and the result, a move out of processing or a
\* result that fails (handle, emit_result, recover_orphans).
SilenceIsPaidFor == Cardinality(Unanswered) <= faults

\* The first sweep starts with nothing left in processing/ and nothing claimed,
\* whatever recover_orphans could not move.
StartsClean ==
  [][ pc[Main] = "strays" /\ pc'[Main] = "sweep" =>
        \A j \in Jobs : In(j, "processing") = {} /\ ledger[j] # "claimed" ]_vars

\* A payload in the inbox is taken up in the end: printed, refused or answered.
InboxDrains ==
  \A j \in Jobs : <<"inbox", "payload">> \in at[j] ~> <<"inbox", "payload">> \notin at[j]

\* Every job that is handed to a printer still taking another in, which drops it
\* without a word, goes back to a death of the agent or a print that raised: the
\* agent forgets a print only then, and for one job (_wait_for_the_printer).
OneFailureCrowdsOneJob == crowded <= faults

=============================================================================
