------------------------- MODULE PrintAgent_proofs -------------------------
(***************************************************************************)
(* Theorems about PrintAgent, for every value of its constants.            *)
(***************************************************************************)
EXTENDS PrintAgent, TLAPS

-----------------------------------------------------------------------------
(* The inductive invariant.                                                *)

\* Where a thread already has the status it will write.
Decided == {"take", "shelve", "drop", "recover", "orphan", "inform",
            "print", "mark", "fail", "answer"}

VerdictGiven == \A t \in Threads : pc[t] \in Decided => verdict[t] # "none"

Types == TypeOK /\ VerdictGiven

\* preflight: main alone, before the first sweep.
StartUp == {"down", "orphans", "recover", "orphan", "inform", "strays", "stray"}

AloneAtStart ==
  /\ pc[Main] \in StartUp => pc[Watcher] = "down"
  /\ pc[Watcher] \in StartUp => pc[Watcher] = "down"

\* Past the claim and short of the print.
Cleared(t) == pc[t] \in {"take", "print"}

\* Such a job has a row, was not printed yet, and is in the hands of one thread.
ClearedIsFresh ==
  \A t \in Threads : Cleared(t) =>
    /\ ledger[cur[t]] # "none"
    /\ printed[cur[t]] = 0
    /\ \A u \in Threads : Cleared(u) /\ cur[u] = cur[t] => u = t

\* A thread may come to claim j without another delivery of j.
InReach(j) ==
  \/ j \in Inbox
  \/ \E t \in Threads :
       \/ pc[t] \notin StartUp \cup {"idle"} /\ j \in list[t]
       \/ pc[t] \in {"open", "claim"} /\ cur[t] = j

\* A printed job whose row was pruned is out of reach for good.
PrunedIsOver ==
  \A j \in Jobs : printed[j] > 0 /\ ledger[j] = "none" =>
    arrivals[j] = MaxArrivals[j] /\ ~InReach(j)

IInv == AloneAtStart /\ ClearedIsFresh /\ PrunedIsOver /\ PrintedAtMostOnce

-----------------------------------------------------------------------------
(* Type correctness.                                                       *)

LEMMA TypesInit == Init => Types
<1> SUFFICES ASSUME Init PROVE Types
  OBVIOUS
<1>1. copy \in [Jobs -> [sidecar : Sidecars \ {"missing"}, payload : Payloads]]
  BY DEF Init, Sidecars, Payloads
<1>2. /\ at \in [Jobs -> SUBSET (Folders \X Files)]
      /\ result \in [Jobs -> Statuses]
      /\ ledger \in [Jobs -> Rows]
      /\ printed \in [Jobs -> Nat] /\ arrivals \in [Jobs -> Nat]
  BY DEF Init, Statuses, Rows
<1>3. /\ list \in [Threads -> SUBSET Jobs]
      /\ left \in [Threads -> SUBSET Files]
      /\ cur \in [Threads -> Jobs \cup {NoJob}]
      /\ verdict \in [Threads -> Statuses]
      /\ lock \in Threads \cup {NoThread}
      /\ recalls \in BOOLEAN /\ busy \in BOOLEAN /\ crowded \in Nat
  BY DEF Init, Statuses
<1>4. faults \in 0..MaxFaults
  BY ConstantsAssumption DEF Init
<1>5. \A t \in Threads : pc[t] = "down" /\ cur[t] = NoJob
  BY DEF Init
<1>6. pc \in [Threads -> {"down", "idle", "orphans", "strays", "sweep"} \cup Handling]
  BY DEF Init
<1>7. QED
  BY <1>1, <1>2, <1>3, <1>4, <1>5, <1>6
     DEF Types, TypeOK, VerdictGiven, Handling, Moves, Decided

\* A job handed over, or not, keeps the types of the printer's side.
LEMMA PrinterTypes ==
  ASSUME TypeOK, UNCHANGED <<printed, crowded, busy>> \/ \E j : HandOver(j)
  PROVE  printed' \in [Jobs -> Nat] /\ crowded' \in Nat /\ busy' \in BOOLEAN
<1>1. printed \in [Jobs -> Nat] /\ crowded \in Nat /\ busy \in BOOLEAN
  BY DEF TypeOK
<1>2. CASE UNCHANGED <<printed, crowded, busy>>
  BY <1>1, <1>2
<1>3. ASSUME NEW j, HandOver(j)
      PROVE  printed' \in [Jobs -> Nat] /\ crowded' \in Nat /\ busy' \in BOOLEAN
  <2>1. printed' \in [Jobs -> Nat]
    <3>1. printed' = [printed EXCEPT ![j] = @ + 1]
      BY <1>3 DEF HandOver
    <3>2. ASSUME NEW k \in Jobs PROVE printed'[k] \in Nat
      BY <1>1, <3>1
    <3>3. QED
      BY <1>1, <3>1, <3>2
  <2>2. crowded' \in Nat /\ busy' = TRUE
    BY <1>1, <1>3 DEF HandOver
  <2>3. QED
    BY <2>1, <2>2
<1>4. QED
  BY <1>2, <1>3

\* What goes on around the agent.
LEMMA AroundTypes ==
  ASSUME Types
  PROVE  /\ \A j \in Jobs : Arrive(j) => Types'
         /\ Settle => Types'
<1>1. ASSUME NEW j \in Jobs, Arrive(j) PROVE Types'
  <2>1. PICK c \in Contents :
          \/ /\ c.sidecar = "missing"
             /\ copy' = [copy EXCEPT ![j].payload = c.payload]
             /\ at' = [at EXCEPT ![j] = @ \cup {<<"inbox", "payload">>}]
          \/ /\ c.sidecar # "missing"
             /\ copy' = [copy EXCEPT ![j] = c]
             /\ at' = [at EXCEPT ![j] = @ \cup {<<"inbox", "payload">>, <<"inbox", "sidecar">>}]
    BY <1>1 DEF Arrive
  <2>2. c \in [sidecar : Sidecars, payload : Payloads]
    BY ConstantsAssumption
  <2>7. <<"inbox", "payload">> \in Folders \X Files /\ <<"inbox", "sidecar">> \in Folders \X Files
    BY DEF Folders, Files
  <2>3. at' \in [Jobs -> SUBSET (Folders \X Files)]
    BY <2>1, <2>7 DEF Types, TypeOK
  <2>8. copy \in [Jobs -> [sidecar : Sidecars \ {"missing"}, payload : Payloads]]
    BY DEF Types, TypeOK
  <2>4. copy' \in [Jobs -> [sidecar : Sidecars \ {"missing"}, payload : Payloads]]
    BY <2>1, <2>2, <2>8
  <2>5. arrivals' \in [Jobs -> Nat]
    BY <1>1 DEF Arrive, Types, TypeOK
  <2>6. QED
    BY <1>1, <2>3, <2>4, <2>5 DEF Arrive, Types, TypeOK, VerdictGiven, memoryVars
<1>2. ASSUME Settle PROVE Types'
  BY <1>2 DEF Settle, Types, TypeOK, VerdictGiven, shareVars, memoryVars, ghostVars
<1>3. QED
  BY <1>1, <1>2

\* A failure spends one unit of its bound.
LEMMA FaultType ==
  ASSUME TypeOK, NEW kind, Fault(kind)
  PROVE  faults' \in 0..MaxFaults
BY ConstantsAssumption DEF TypeOK, Fault

LEMMA JobInHand ==
  ASSUME TypeOK, NEW t \in Threads, pc[t] \in Handling
  PROVE  cur[t] \in Jobs
BY ConstantsAssumption DEF TypeOK

\* Letting go of a job, and going on with it.
LEMMA ReleaseTypes ==
  ASSUME Types, NEW t \in Threads, NEW label \in {"orphans", "strays", "sweep"},
         Release(t, label)
  PROVE  /\ pc' \in [Threads -> {"down", "idle", "orphans", "strays", "sweep"} \cup Handling]
         /\ cur' \in [Threads -> Jobs \cup {NoJob}]
         /\ left' \in [Threads -> SUBSET Files]
         /\ verdict' \in [Threads -> Statuses]
         /\ \A u \in Threads : pc'[u] \in Handling <=> cur'[u] # NoJob
         /\ \A u \in Threads : pc'[u] \in {"answer", "inform"} => verdict'[u] # "none"
         /\ VerdictGiven'
BY DEF Release, Goto, Types, TypeOK, VerdictGiven, Handling, Moves, Decided, Statuses

LEMMA ProceedTypes ==
  ASSUME Types, NEW t \in Threads, pc[t] \in Handling,
         NEW label \in {"orphan", "inform", "claim", "print", "fail", "answer"},
         label = "claim" \/ verdict[t] # "none",
         Proceed(t, label)
  PROVE  /\ pc' \in [Threads -> {"down", "idle", "orphans", "strays", "sweep"} \cup Handling]
         /\ cur' \in [Threads -> Jobs \cup {NoJob}]
         /\ left' \in [Threads -> SUBSET Files]
         /\ verdict' \in [Threads -> Statuses]
         /\ \A u \in Threads : pc'[u] \in Handling <=> cur'[u] # NoJob
         /\ \A u \in Threads : pc'[u] \in {"answer", "inform"} => verdict'[u] # "none"
         /\ VerdictGiven'
BY DEF Proceed, Goto, Types, TypeOK, VerdictGiven, Handling, Moves, Decided

\* move_job.
LEMMA MoveTypes ==
  ASSUME Types, NEW t \in Threads
  PROVE  MoveFile(t) \/ MoveEnds(t) \/ MoveFails(t) => Types'
<1>1. ASSUME MoveFile(t) PROVE Types'
  <2>1. PICK f \in left[t] :
          /\ left' = [left EXCEPT ![t] = @ \ {f}]
          /\ \/ at' = [at EXCEPT ![cur[t]] = (@ \ {<<From(pc[t]), f>>}) \cup {<<To(pc[t]), f>>}]
             \/ at' = at
    BY <1>1 DEF MoveFile
  <2>2. f \in Files /\ To(pc[t]) \in Folders
    BY <2>1 DEF To, Folders, Types, TypeOK
  <2>3. at' \in [Jobs -> SUBSET (Folders \X Files)]
    BY <2>1, <2>2 DEF Types, TypeOK
  <2>4. left' \in [Threads -> SUBSET Files]
    BY <2>1 DEF Types, TypeOK
  <2>5. QED
    BY <1>1, <2>3, <2>4 DEF MoveFile, Types, TypeOK, VerdictGiven, ghostVars
<1>2. ASSUME pc[t] \in Moves,
             \/ \E label \in {"orphans", "strays", "sweep"} : Release(t, label)
             \/ \E label \in {"orphan", "inform", "claim", "print", "fail", "answer"} :
                  Proceed(t, label) /\ verdict[t] # "none",
             UNCHANGED <<shareVars, ledger, lock, list, recalls, busy, crowded, printed, arrivals>>,
             faults' \in 0..MaxFaults
      PROVE  Types'
  <2>1. pc[t] \in Handling
    BY <1>2 DEF Handling
  <2>2. QED
    BY <1>2, <2>1, ReleaseTypes, ProceedTypes DEF Types, TypeOK, shareVars
<1>3. pc[t] \in {"take", "shelve", "drop", "recover"} => verdict[t] # "none"
  BY DEF Types, VerdictGiven, Decided
<1>4. ASSUME MoveEnds(t) PROVE Types'
  <2>1. faults' \in 0..MaxFaults
    BY <1>4 DEF MoveEnds, ghostVars, Types, TypeOK
  <2>2. \/ \E label \in {"orphans", "strays", "sweep"} : Release(t, label)
        \/ \E label \in {"orphan", "inform", "claim", "print", "fail", "answer"} :
             Proceed(t, label) /\ verdict[t] # "none"
    BY <1>3, <1>4 DEF MoveEnds, AfterReject, AfterShelving, Dismiss
  <2>3. QED
    BY <1>2, <1>4, <2>1, <2>2 DEF MoveEnds, ghostVars
<1>5. ASSUME MoveFails(t) PROVE Types'
  <2>1. faults' \in 0..MaxFaults
    BY <1>5, FaultType DEF MoveFails, Types
  <2>2. \/ \E label \in {"orphans", "strays", "sweep"} : Release(t, label)
        \/ \E label \in {"orphan", "inform", "claim", "print", "fail", "answer"} :
             Proceed(t, label) /\ verdict[t] # "none"
    BY <1>3, <1>5 DEF MoveFails, AfterReject, AfterShelving, CannotTake, Dismiss
  <2>3. QED
    BY <1>2, <1>5, <2>1, <2>2 DEF MoveFails
<1>6. QED
  BY <1>1, <1>4, <1>5

\* A move begins with the files that are there.
LEMMA BeginMoveType ==
  ASSUME TypeOK, NEW t \in Threads, NEW j, NEW move \in Moves, BeginMove(t, j, move)
  PROVE  /\ left' \in [Threads -> SUBSET Files]
         /\ pc' = [pc EXCEPT ![t] = move]
         /\ pc' \in [Threads -> {"down", "idle", "orphans", "strays", "sweep"} \cup Handling]
BY DEF BeginMove, Goto, In, TypeOK, Handling

\* Start and end of the process.
LEMMA ForgetTypes ==
  ASSUME Types, Forget, UNCHANGED <<shareVars, ledger, arrivals>>,
         busy' \in BOOLEAN, crowded' \in Nat, printed' \in [Jobs -> Nat], faults' \in 0..MaxFaults
  PROVE  Types'
BY DEF Forget, Types, TypeOK, VerdictGiven, Handling, Moves, Decided, Statuses, shareVars

LEMMA CrashTypes == Types /\ Crash => Types'
<1> SUFFICES ASSUME Types, Crash PROVE Types'
  OBVIOUS
<1>1. UNCHANGED <<printed, crowded, busy>> \/ \E j : HandOver(j)
  BY DEF Crash
<1>2. printed' \in [Jobs -> Nat] /\ crowded' \in Nat /\ busy' \in BOOLEAN
  BY <1>1, PrinterTypes DEF Types
<1>3. QED
  BY <1>2, ForgetTypes, FaultType DEF Crash, Types

LEMMA StartTypes == Types /\ (Start \/ Preflight \/ Observe) => Types'
<1> SUFFICES ASSUME Types, Start \/ Preflight \/ Observe PROVE Types'
  OBVIOUS
<1> Main \in Threads
  BY DEF Threads
<1>1. CASE Start
  BY <1>1 DEF Start, Goto, Types, TypeOK, VerdictGiven, Handling, Moves, Decided,
              shareVars, ghostVars
<1>2. CASE NextOrphan
  <2>1. PICK j \in list[Main] :
          /\ list'    = [list EXCEPT ![Main] = @ \ {j}]
          /\ cur'     = [cur EXCEPT ![Main] = j]
          /\ verdict' = [verdict EXCEPT ![Main] = "failed"]
          /\ BeginMove(Main, j, "recover")
    BY <1>2 DEF NextOrphan
  <2>2. j \in Jobs /\ "recover" \in Moves
    BY <2>1 DEF Types, TypeOK, Moves
  <2>3. left' \in [Threads -> SUBSET Files] /\ pc' = [pc EXCEPT ![Main] = "recover"]
    BY <2>1, <2>2, BeginMoveType DEF Types
  <2>4. j # NoJob
    BY <2>2, ConstantsAssumption
  <2>5. QED
    BY <1>2, <2>1, <2>2, <2>3, <2>4
       DEF NextOrphan, Types, TypeOK, VerdictGiven, Handling, Moves, Statuses, Decided,
           shareVars, ghostVars
<1>3. CASE OrphansDone
  BY <1>3 DEF OrphansDone, Goto, Strays, Types, TypeOK, VerdictGiven, Handling, Moves, Decided,
              shareVars, ghostVars
<1>4. CASE NextStray
  <2>1. PICK j \in Jobs :
          /\ list' = [list EXCEPT ![Main] = @ \ {j}]
          /\ cur'  = [cur EXCEPT ![Main] = j]
          /\ BeginMove(Main, j, "stray")
    BY <1>4 DEF NextStray, Oldest, Types, TypeOK
  <2>2. j # NoJob /\ "stray" \in Moves
    BY ConstantsAssumption DEF Moves
  <2>3. left' \in [Threads -> SUBSET Files] /\ pc' = [pc EXCEPT ![Main] = "stray"]
    BY <2>1, <2>2, BeginMoveType DEF Types
  <2>4. QED
    BY <1>4, <2>1, <2>2, <2>3
       DEF NextStray, Types, TypeOK, VerdictGiven, Handling, Moves, Decided,
           shareVars, ghostVars
<1>5. CASE StrayMoveFails
  BY <1>5, ForgetTypes, FaultType DEF StrayMoveFails, Types, TypeOK
<1>6. CASE EndPreflight
  <2>1. PICK old \in SUBSET Jobs :
          /\ ledger' = [j \in Jobs |-> IF j \in old THEN "none" ELSE ledger[j]]
          /\ at' = [j \in Jobs |-> IF j \in old THEN at[j] \ ({"done"} \X Files) ELSE at[j]]
    BY <1>6 DEF EndPreflight
  <2>2. ledger' \in [Jobs -> Rows] /\ at' \in [Jobs -> SUBSET (Folders \X Files)]
    BY <2>1 DEF Types, TypeOK, Rows
  <2>3. Inbox \in SUBSET Jobs
    BY DEF Inbox
  <2>4. QED
    BY <1>6, <2>2, <2>3
       DEF EndPreflight, Goto, Types, TypeOK, VerdictGiven, Handling, Moves, Decided, ghostVars
<1>7. CASE Observe
  BY <1>7 DEF Observe, Goto, Types, TypeOK, VerdictGiven, Handling, Moves, Decided, Threads,
              shareVars, ghostVars
<1>8. QED
  BY <1>1, <1>2, <1>3, <1>4, <1>5, <1>6, <1>7 DEF Preflight

\* Sweeping, and the checks before the claim.
LEMMA SweepTypes ==
  ASSUME Types, NEW t \in Threads
  PROVE  BeginSweep(t) \/ NextJob(t) \/ EndSweep(t) => Types'
<1>1. ASSUME BeginSweep(t) PROVE Types'
  <2>1. Inbox \in SUBSET Jobs
    BY DEF Inbox
  <2>2. QED
    BY <1>1, <2>1 DEF BeginSweep, Goto, Types, TypeOK, VerdictGiven, Handling, Moves, Decided,
                      shareVars, ghostVars
<1>2. ASSUME NextJob(t) PROVE Types'
  <2>1. PICK j \in Jobs :
          /\ list' = [list EXCEPT ![t] = @ \ {j}]
          /\ cur'  = [cur EXCEPT ![t] = j]
    BY <1>2 DEF NextJob, Oldest, Types, TypeOK
  <2>2. j # NoJob
    BY ConstantsAssumption
  <2>3. QED
    BY <1>2, <2>1, <2>2 DEF NextJob, Goto, Types, TypeOK, VerdictGiven, Handling, Moves, Decided,
                            shareVars, ghostVars
<1>3. ASSUME EndSweep(t) PROVE Types'
  BY <1>3 DEF EndSweep, Goto, Types, TypeOK, VerdictGiven, Handling, Moves, Decided,
              shareVars, ghostVars
<1>4. QED
  BY <1>1, <1>2, <1>3

\* A thread that has a job refuses it, lets go of it, or goes on with it.
LEMMA MoveOnTypes ==
  ASSUME Types, NEW t \in Threads, pc[t] \in Handling,
         \/ \E status \in Statuses : Reject(t, status) /\ UNCHANGED cur
         \/ \E label \in {"orphans", "strays", "sweep"} : Release(t, label)
         \/ \E label \in {"orphan", "inform", "claim", "print", "fail", "answer"} :
              Proceed(t, label) /\ (label = "claim" \/ verdict[t] # "none"),
         UNCHANGED <<at, copy, lock, list, recalls, busy, crowded, printed, arrivals>>,
         ledger' \in [Jobs -> Rows], result' \in [Jobs -> Statuses],
         faults' \in 0..MaxFaults
  PROVE  Types'
<1>1. ASSUME NEW status \in Statuses, Reject(t, status), UNCHANGED cur PROVE Types'
  <2>1. /\ left' \in [Threads -> SUBSET Files]
        /\ pc' = [pc EXCEPT ![t] = "reject"]
        /\ verdict' = [verdict EXCEPT ![t] = status]
    BY <1>1, BeginMoveType DEF Reject, Moves, Types
  <2>2. QED
    BY <1>1, <2>1 DEF Types, TypeOK, VerdictGiven, Handling, Moves, Decided
<1>2. ASSUME NEW label \in {"orphans", "strays", "sweep"}, Release(t, label) PROVE Types'
  BY <1>2, ReleaseTypes DEF Types, TypeOK
<1>3. ASSUME NEW label \in {"orphan", "inform", "claim", "print", "fail", "answer"},
             Proceed(t, label), label = "claim" \/ verdict[t] # "none"
      PROVE  Types'
  BY <1>3, ProceedTypes DEF Types, TypeOK
<1>4. QED
  BY <1>1, <1>2, <1>3

LEMMA OpenTypes ==
  ASSUME Types, NEW t \in Threads
  PROVE  Open(t) \/ OpenRaises(t) \/ Claim(t) => Types'
<1>1. ASSUME Open(t) PROVE Types'
  <2>1. /\ pc[t] \in Handling
        /\ UNCHANGED <<at, copy, lock, list, recalls, busy, crowded, printed, arrivals, result, ledger, faults>>
    BY <1>1 DEF Open, Handling, shareVars, ghostVars
  <2>2. \/ \E status \in Statuses : Reject(t, status) /\ UNCHANGED cur
        \/ Proceed(t, "claim")
        \/ Release(t, "sweep")
    BY <1>1 DEF Open, Dismiss, Statuses
  <2>3. result \in [Jobs -> Statuses] /\ ledger \in [Jobs -> Rows] /\ faults \in 0..MaxFaults
    BY DEF Types, TypeOK
  <2>4. QED
    BY <2>1, <2>2, <2>3, MoveOnTypes
<1>2. ASSUME OpenRaises(t) PROVE Types'
  <2>1. faults' \in 0..MaxFaults
    BY <1>2, FaultType DEF OpenRaises, Types
  <2>2. /\ pc[t] \in Handling
        /\ Release(t, "sweep")
        /\ UNCHANGED <<at, copy, lock, list, recalls, busy, crowded, printed, arrivals, result, ledger>>
    BY <1>2 DEF OpenRaises, Dismiss, Handling, shareVars
  <2>3. result \in [Jobs -> Statuses] /\ ledger \in [Jobs -> Rows]
    BY DEF Types, TypeOK
  <2>4. QED
    BY <2>1, <2>2, <2>3, MoveOnTypes
<1>3. ASSUME Claim(t) PROVE Types'
  <2>1. /\ pc[t] \in Handling /\ faults \in 0..MaxFaults
        /\ UNCHANGED <<at, copy, lock, list, recalls, busy, crowded, printed, arrivals, result, faults, cur>>
    BY <1>3 DEF Claim, Handling, shareVars, ghostVars, Types, TypeOK
  <2>2. CASE Known(cur[t])
    BY <1>3, <2>1, <2>2, MoveOnTypes DEF Claim, Statuses, Types, TypeOK
  <2>3. CASE ~Known(cur[t])
    <3>1. /\ ledger' = [ledger EXCEPT ![cur[t]] = "claimed"]
          /\ BeginMove(t, cur[t], "take")
          /\ verdict' = [verdict EXCEPT ![t] = "failed"]
      BY <1>3, <2>3 DEF Claim
    <3>2. left' \in [Threads -> SUBSET Files] /\ pc' = [pc EXCEPT ![t] = "take"]
      BY <3>1, BeginMoveType DEF Types, Moves
    <3>3. ledger' \in [Jobs -> Rows]
      BY <3>1 DEF Types, TypeOK, Rows
    <3>4. QED
      BY <2>1, <3>1, <3>2, <3>3
         DEF Types, TypeOK, VerdictGiven, Handling, Moves, Decided, Statuses
  <2>4. QED
    BY <2>2, <2>3
<1>4. QED
  BY <1>1, <1>2, <1>3

\* The print and what follows it.
LEMMA PrintTypes ==
  ASSUME Types, NEW t \in Threads
  PROVE  PrintJob(t) \/ PrintRaises(t) \/ Mark(t) \/ MarkFailed(t) \/ Answer(t) => Types'
<1>1. ASSUME PrintJob(t) PROVE Types'
  <2>1. verdict' \in [Threads -> Statuses]
    BY <1>1 DEF PrintJob, Types, TypeOK, Statuses
  <2>2. printed' \in [Jobs -> Nat] /\ crowded' \in Nat /\ busy' \in BOOLEAN
    BY <1>1, PrinterTypes DEF PrintJob, Types
  <2>3. QED
    BY <1>1, <2>1, <2>2 DEF PrintJob, Goto, Types, TypeOK, VerdictGiven, Handling, Moves, Decided,
                      shareVars, ghostVars
<1>2. ASSUME PrintRaises(t) PROVE Types'
  <2>1. UNCHANGED <<printed, crowded, busy>> \/ HandOver(cur[t])
    BY <1>2 DEF PrintRaises
  <2>2. faults' \in 0..MaxFaults
    BY <1>2, FaultType DEF PrintRaises, Types, TypeOK
  <2>3. printed' \in [Jobs -> Nat] /\ crowded' \in Nat /\ busy' \in BOOLEAN
    BY <2>1, PrinterTypes DEF Types
  <2>4. recalls' \in BOOLEAN
    BY <1>2, Zenon DEF PrintRaises, Types, TypeOK
  <2>5. QED
    BY <1>2, <2>2, <2>3, <2>4 DEF PrintRaises, Goto, Types, TypeOK, VerdictGiven, Handling, Moves,
                            Decided, shareVars
<1>3. ASSUME Mark(t) PROVE Types'
  <2>1. /\ ledger' \in [Jobs -> Rows]
        /\ BeginMove(t, cur[t], "shelve") \/ BeginMove(t, cur[t], "drop")
    BY <1>3 DEF Mark, Types, TypeOK, Rows
  <2>2. /\ left' \in [Threads -> SUBSET Files]
        /\ pc' = [pc EXCEPT ![t] = "shelve"] \/ pc' = [pc EXCEPT ![t] = "drop"]
    BY <2>1, BeginMoveType DEF Types, Moves
  <2>3. QED
    BY <1>3, <2>1, <2>2 DEF Mark, Types, TypeOK, VerdictGiven, Handling, Moves, Decided,
                            shareVars, ghostVars
<1>4. ASSUME MarkFailed(t) PROVE Types'
  <2>1. ledger' \in [Jobs -> Rows]
    BY <1>4 DEF MarkFailed, Types, TypeOK, Rows
  <2>2. /\ pc[t] \in Handling /\ verdict[t] # "none"
        /\ Proceed(t, "answer") \/ Proceed(t, "inform")
    BY <1>4 DEF MarkFailed, Handling, Types, VerdictGiven, Decided
  <2>3. /\ UNCHANGED <<at, copy, lock, list, recalls, busy, crowded, printed, arrivals, result>>
        /\ faults' \in 0..MaxFaults /\ result \in [Jobs -> Statuses]
    BY <1>4 DEF MarkFailed, shareVars, ghostVars, Types, TypeOK
  <2>4. QED
    BY <2>1, <2>2, <2>3, MoveOnTypes
<1>5. ASSUME Answer(t) PROVE Types'
  <2>1. result' \in [Jobs -> Statuses]
    BY <1>5 DEF Answer, Types, TypeOK
  <2>2. faults' \in 0..MaxFaults
    BY <1>5, FaultType DEF Answer, Types, TypeOK
  <2>3. /\ pc[t] \in Handling
        /\ Release(t, "sweep") \/ Release(t, "orphans")
        /\ UNCHANGED <<at, copy, lock, list, recalls, busy, crowded, printed, arrivals, ledger>>
        /\ ledger \in [Jobs -> Rows]
    BY <1>5 DEF Answer, Handling, Types, TypeOK
  <2>4. QED
    BY <2>1, <2>2, <2>3, MoveOnTypes
<1>6. QED
  BY <1>1, <1>2, <1>3, <1>4, <1>5

LEMMA TypesInductive == Types /\ [Next]_vars => Types'
<1> SUFFICES ASSUME Types, [Next]_vars PROVE Types'
  OBVIOUS
<1>1. ASSUME NEW t \in Threads, BeginSweep(t) \/ Work(t) PROVE Types'
  BY <1>1, MoveTypes, SweepTypes, OpenTypes, PrintTypes DEF Work
<1>2. CASE UNCHANGED vars
  BY <1>2 DEF vars, Types, TypeOK, VerdictGiven
<1>3. QED
  BY <1>1, <1>2, AroundTypes, CrashTypes, StartTypes DEF Next

\* The folders, the ledger and the threads keep their types, a thread has a job
\* exactly while it handles one, and no result is written without a status
\* (handle, recover_orphans, emit_result).
THEOREM TypeCorrect == Spec => []TypeOK
<1>1. Init => Types
  BY TypesInit
<1>2. Types /\ [Next]_vars => Types'
  BY TypesInductive
<1>3. Types => TypeOK
  BY DEF Types
<1>4. QED
  BY <1>1, <1>2, <1>3, PTL DEF Spec

-----------------------------------------------------------------------------
(* Printed at most once.                                                   *)

\* A step that clears no job, prints none and prunes no row keeps the
\* invariant when it brings no printed-out job back into reach.
LEMMA QuietStep ==
  ASSUME Types, IInv, AloneAtStart', UNCHANGED printed,
         \A t \in Threads : Cleared(t)' => Cleared(t) /\ cur'[t] = cur[t],
         \A j \in Jobs : ledger'[j] = "none" => ledger[j] = "none",
         \A j \in Jobs : arrivals[j] = MaxArrivals[j] =>
            arrivals'[j] = arrivals[j] /\ (InReach(j)' => InReach(j))
  PROVE  IInv'
<1>1. ClearedIsFresh'
  <2> SUFFICES ASSUME NEW t \in Threads, Cleared(t)'
               PROVE  /\ ledger'[cur'[t]] # "none"
                      /\ printed'[cur'[t]] = 0
                      /\ \A u \in Threads : Cleared(u)' /\ cur'[u] = cur'[t] => u = t
    BY DEF ClearedIsFresh
  <2>1. Cleared(t) /\ cur'[t] = cur[t]
    OBVIOUS
  <2>2. cur[t] \in Jobs
    BY <2>1, JobInHand DEF Cleared, Handling, Moves, Types
  <2>3. QED
    BY <2>1, <2>2 DEF IInv, ClearedIsFresh
<1>2. PrunedIsOver'
  BY DEF IInv, PrunedIsOver
<1>3. PrintedAtMostOnce'
  BY DEF IInv, PrintedAtMostOnce
<1>4. QED
  BY <1>1, <1>2, <1>3 DEF IInv

\* A thread that is up goes from one place to the next, and start-up ends once.
LEMMA ThreadStep ==
  ASSUME Types, AloneAtStart, NEW t \in Threads, NEW label, Goto(t, label),
         pc[t] # "down", label \in StartUp => pc[t] \in StartUp
  PROVE  /\ AloneAtStart'
         /\ \A u \in Threads : pc'[u] = IF u = t THEN label ELSE pc[u]
<1>1. \A u \in Threads : pc'[u] = IF u = t THEN label ELSE pc[u]
  BY DEF Goto, Types, TypeOK
<1>2. Main \in Threads /\ Watcher \in Threads /\ Main # Watcher
  BY ConstantsAssumption DEF Threads
<1>3. CASE t = Main
  BY <1>1, <1>2, <1>3 DEF AloneAtStart
<1>4. CASE t = Watcher
  BY <1>1, <1>2, <1>4 DEF AloneAtStart, StartUp
<1>5. QED
  BY <1>3, <1>4 DEF Threads

\* move_job takes nothing to the inbox.
LEMMA InboxShrinks ==
  ASSUME Types, NEW t \in Threads, MoveFile(t)
  PROVE  Inbox' \subseteq Inbox
<1>1. PICK f \in left[t] :
        \/ at' = [at EXCEPT ![cur[t]] = (@ \ {<<From(pc[t]), f>>}) \cup {<<To(pc[t]), f>>}]
        \/ at' = at
  BY DEF MoveFile
<1>2. To(pc[t]) # "inbox"
  BY DEF To
<1>3. ASSUME NEW j \in Jobs, <<"inbox", "payload">> \in at'[j]
      PROVE  <<"inbox", "payload">> \in at[j]
  BY <1>1, <1>2, <1>3 DEF Types, TypeOK
<1>4. QED
  BY <1>3 DEF Inbox, In

\* A thread that goes on with what it has, its job included, keeps the invariant.
LEMMA SameJobStep ==
  ASSUME Types, IInv, NEW t \in Threads, NEW label, Goto(t, label),
         pc[t] \notin {"down", "idle"}, label \in StartUp <=> pc[t] \in StartUp,
         label \in {"take", "print"} => Cleared(t),
         label \in {"open", "claim"} => pc[t] \in {"open", "claim"},
         UNCHANGED <<at, list, printed, arrivals>>,
         \/ UNCHANGED cur
         \/ /\ \A u \in Threads \ {t} : cur'[u] = cur[u]
            /\ label \notin {"open", "claim", "take", "print"},
         \A j \in Jobs : ledger'[j] = "none" => ledger[j] = "none"
  PROVE  IInv'
<1>1. /\ AloneAtStart'
      /\ \A u \in Threads : pc'[u] = IF u = t THEN label ELSE pc[u]
  BY ThreadStep DEF IInv, StartUp
<1>2. \A u \in Threads : Cleared(u)' => Cleared(u) /\ cur'[u] = cur[u]
  BY <1>1 DEF Cleared
<1>3. \A j \in Jobs : InReach(j)' => InReach(j)
  BY <1>1 DEF InReach, Inbox, In, StartUp
<1>4. QED
  BY <1>1, <1>2, <1>3, QuietStep

LEMMA AroundSteps ==
  ASSUME Types, IInv
  PROVE  /\ \A j \in Jobs : Arrive(j) => IInv'
         /\ Settle => IInv'
<1>1. ASSUME NEW j \in Jobs, Arrive(j) PROVE IInv'
  <2>1. /\ UNCHANGED <<printed, ledger, pc, list, cur>>
        /\ \A k \in Jobs \ {j} : at'[k] = at[k] /\ arrivals'[k] = arrivals[k]
        /\ arrivals[j] < MaxArrivals[j]
    BY <1>1 DEF Arrive, memoryVars, Types, TypeOK
  <2>2. arrivals[j] # MaxArrivals[j]
    BY <2>1, ConstantsAssumption DEF Types, TypeOK
  <2>3. AloneAtStart' /\ \A t \in Threads : Cleared(t)' <=> Cleared(t)
    BY <2>1 DEF IInv, AloneAtStart, Cleared
  <2>4. \A k \in Jobs \ {j} : InReach(k)' => InReach(k)
    BY <2>1 DEF InReach, Inbox, In
  <2>5. QED
    BY <2>1, <2>2, <2>3, <2>4, QuietStep
<1>2. ASSUME Settle PROVE IInv'
  BY <1>2 DEF Settle, shareVars, memoryVars, ghostVars, IInv, AloneAtStart, ClearedIsFresh,
              Cleared, PrunedIsOver, InReach, Inbox, In, PrintedAtMostOnce
<1>3. QED
  BY <1>1, <1>2

\* move_job: taking a job to processing/ leads to the print, of the same job.
LEMMA MoveSteps ==
  ASSUME Types, IInv, NEW t \in Threads
  PROVE  MoveFile(t) \/ MoveEnds(t) \/ MoveFails(t) => IInv'
<1> DEFINE Others(v) == \A u \in Threads \ {v} : cur'[u] = cur[u]
<1>1. ASSUME MoveFile(t) PROVE IInv'
  <2>1. UNCHANGED <<pc, list, cur, ledger, printed, arrivals>>
    BY <1>1 DEF MoveFile, ghostVars
  <2>2. \A j \in Jobs : InReach(j)' => InReach(j)
    BY <1>1, <2>1, InboxShrinks DEF InReach
  <2>3. QED
    BY <2>1, <2>2, QuietStep DEF IInv, AloneAtStart, Cleared
<1>2. ASSUME MoveEnds(t) PROVE IInv'
  <2>1. /\ pc[t] \in Moves
        /\ UNCHANGED <<at, list, printed, arrivals, ledger>>
    BY <1>2 DEF MoveEnds, shareVars, ghostVars
  <2>2. \/ pc[t] \in {"reject", "shelve", "drop"} /\ Goto(t, "answer") /\ UNCHANGED cur
        \/ pc[t] = "reject" /\ Goto(t, "sweep") /\ Others(t)
        \/ pc[t] = "take" /\ Goto(t, "print") /\ UNCHANGED cur
        \/ pc[t] = "recover" /\ Goto(t, "orphan") /\ UNCHANGED cur
        \/ pc[t] = "stray" /\ Goto(t, "strays") /\ Others(t)
    BY <1>2 DEF MoveEnds, AfterReject, AfterShelving, Dismiss, Release, Proceed, Types, TypeOK
  <2>3. QED
    BY <2>1, <2>2, SameJobStep DEF StartUp, Cleared
<1>3. ASSUME MoveFails(t) PROVE IInv'
  <2>1. /\ pc[t] \in Moves
        /\ UNCHANGED <<at, list, printed, arrivals, ledger>>
    BY <1>3 DEF MoveFails, shareVars
  <2>2. \/ pc[t] \in {"reject", "take"} /\ (Goto(t, "answer") \/ Goto(t, "fail")) /\ UNCHANGED cur
        \/ pc[t] \in {"reject", "shelve", "drop"} /\ Goto(t, "sweep") /\ Others(t)
        \/ pc[t] = "recover" /\ Goto(t, "orphan") /\ UNCHANGED cur
    BY <1>3 DEF MoveFails, AfterReject, AfterShelving, CannotTake, Dismiss, Release, Proceed, Types, TypeOK
  <2>3. QED
    BY <2>1, <2>2, SameJobStep DEF StartUp
<1>4. QED
  BY <1>1, <1>2, <1>3

\* sweep_inbox lists what is in the inbox, and takes it up in turn.
LEMMA SweepSteps ==
  ASSUME Types, IInv, NEW t \in Threads
  PROVE  BeginSweep(t) \/ NextJob(t) \/ EndSweep(t) => IInv'
<1>1. ASSUME BeginSweep(t) PROVE IInv'
  <2>1. /\ Goto(t, "sweep") /\ pc[t] = "idle"
        /\ list' = [list EXCEPT ![t] = Inbox]
        /\ UNCHANGED <<at, cur, printed, arrivals, ledger>>
    BY <1>1 DEF BeginSweep, shareVars, ghostVars
  <2>2. /\ AloneAtStart'
        /\ \A u \in Threads : pc'[u] = IF u = t THEN "sweep" ELSE pc[u]
    BY <2>1, ThreadStep DEF IInv, StartUp
  <2>3. \A j \in Jobs : InReach(j)' => InReach(j)
    BY <2>1, <2>2 DEF InReach, Inbox, In, Types, TypeOK
  <2>4. QED
    BY <2>1, <2>2, <2>3, QuietStep DEF Cleared
<1>2. ASSUME NextJob(t) PROVE IInv'
  <2>1. PICK j \in list[t] :
          /\ list' = [list EXCEPT ![t] = @ \ {j}]
          /\ cur'  = [cur EXCEPT ![t] = j]
    BY <1>2 DEF NextJob, Oldest
  <2>2. /\ Goto(t, "open") /\ pc[t] = "sweep"
        /\ UNCHANGED <<at, printed, arrivals, ledger>>
    BY <1>2 DEF NextJob, shareVars, ghostVars
  <2>3. /\ AloneAtStart'
        /\ \A u \in Threads : pc'[u] = IF u = t THEN "open" ELSE pc[u]
    BY <2>2, ThreadStep DEF IInv, StartUp
  <2>4. \A k \in Jobs : InReach(k)' => InReach(k)
    BY <2>1, <2>2, <2>3 DEF InReach, Inbox, In, StartUp, Types, TypeOK
  <2>5. \A u \in Threads : Cleared(u)' => Cleared(u) /\ cur'[u] = cur[u]
    BY <2>1, <2>3 DEF Cleared, Types, TypeOK
  <2>6. QED
    BY <2>2, <2>3, <2>4, <2>5, QuietStep
<1>3. ASSUME EndSweep(t) PROVE IInv'
  BY <1>3, SameJobStep DEF EndSweep, StartUp, shareVars, ghostVars
<1>4. QED
  BY <1>1, <1>2, <1>3

\* The claim: a job that has no row now was not printed, and no thread is past
\* the claim with it.
LEMMA OpenSteps ==
  ASSUME Types, IInv, NEW t \in Threads
  PROVE  Open(t) \/ OpenRaises(t) \/ Claim(t) => IInv'
<1>1. ASSUME Open(t) PROVE IInv'
  <2>1. /\ pc[t] = "open"
        /\ UNCHANGED <<at, list, printed, arrivals, ledger>>
    BY <1>1 DEF Open, shareVars, ghostVars
  <2>2. \/ Goto(t, "reject") /\ UNCHANGED cur
        \/ Goto(t, "claim") /\ UNCHANGED cur
        \/ Goto(t, "sweep") /\ \A u \in Threads \ {t} : cur'[u] = cur[u]
    BY <1>1 DEF Open, Reject, BeginMove, Proceed, Dismiss, Release, Types, TypeOK
  <2>3. QED
    BY <2>1, <2>2, SameJobStep DEF StartUp
<1>2. ASSUME OpenRaises(t) PROVE IInv'
  BY <1>2, SameJobStep DEF OpenRaises, Dismiss, Release, StartUp, shareVars
<1>3. ASSUME Claim(t), Known(cur[t]) PROVE IInv'
  BY <1>3, SameJobStep DEF Claim, Reject, BeginMove, StartUp, shareVars, ghostVars
<1>4. ASSUME Claim(t), ~Known(cur[t]) PROVE IInv'
  <2> DEFINE j == cur[t]
  <2>1. /\ pc[t] = "claim" /\ ledger[j] = "none"
        /\ Goto(t, "take")
        /\ ledger' = [ledger EXCEPT ![j] = "claimed"]
        /\ UNCHANGED <<at, list, cur, printed, arrivals>>
    BY <1>4 DEF Claim, Known, BeginMove, shareVars, ghostVars
  <2>2. j \in Jobs
    BY <2>1, JobInHand DEF Handling, Types
  <2>3. /\ AloneAtStart'
        /\ \A u \in Threads : pc'[u] = IF u = t THEN "take" ELSE pc[u]
    BY <2>1, ThreadStep DEF IInv, StartUp
  <2>4. printed[j] = 0
    <3>1. InReach(j)
      BY <2>1 DEF InReach
    <3>2. ~(printed[j] > 0)
      BY <2>1, <2>2, <3>1 DEF IInv, PrunedIsOver
    <3>3. QED
      BY <2>2, <3>2 DEF Types, TypeOK
  <2>5. \A k \in Jobs : ledger'[k] = IF k = j THEN "claimed" ELSE ledger[k]
    BY <2>1 DEF Types, TypeOK
  <2>6. \A u \in Threads : Cleared(u) => cur[u] \in Jobs /\ cur[u] # j /\ u # t
    BY <2>1, JobInHand DEF IInv, ClearedIsFresh, Cleared, Handling, Moves, Types
  <2>7. \A u \in Threads : Cleared(u)' <=> u = t \/ Cleared(u)
    BY <2>3 DEF Cleared
  <2>8. ClearedIsFresh'
    BY <2>1, <2>2, <2>4, <2>5, <2>6, <2>7 DEF IInv, ClearedIsFresh
  <2>9. \A k \in Jobs : InReach(k)' => InReach(k)
    BY <2>1, <2>3 DEF InReach, Inbox, In, StartUp
  <2>10. PrunedIsOver' /\ PrintedAtMostOnce'
    BY <2>1, <2>5, <2>9 DEF IInv, PrunedIsOver, PrintedAtMostOnce
  <2>11. QED
    BY <2>3, <2>8, <2>10 DEF IInv
<1>5. QED
  BY <1>1, <1>2, <1>3, <1>4

\* A job goes to the printer while one thread has it, and is not cleared again.
LEMMA PrintedStep ==
  ASSUME Types, IInv, NEW t \in Threads, pc[t] = "print", Goto(t, "mark"),
         UNCHANGED <<at, list, cur, ledger, arrivals>>,
         \/ UNCHANGED printed
         \/ printed' = [printed EXCEPT ![cur[t]] = @ + 1]
  PROVE  IInv'
<1>1. CASE UNCHANGED printed
  BY <1>1, SameJobStep DEF StartUp
<1>2. CASE printed' = [printed EXCEPT ![cur[t]] = @ + 1]
  <2> DEFINE j == cur[t]
  <2>1. /\ AloneAtStart'
        /\ \A u \in Threads : pc'[u] = IF u = t THEN "mark" ELSE pc[u]
    BY ThreadStep DEF IInv, StartUp
  <2>2. j \in Jobs
    BY JobInHand DEF Handling, Types
  <2>3. ledger[j] # "none" /\ printed[j] = 0
        /\ \A u \in Threads : Cleared(u) /\ cur[u] = j => u = t
    BY DEF IInv, ClearedIsFresh, Cleared
  <2>4. \A k \in Jobs : printed'[k] = IF k = j THEN 1 ELSE printed[k]
    BY <1>2, <2>2, <2>3 DEF Types, TypeOK
  <2>5. \A u \in Threads : Cleared(u)' => Cleared(u) /\ u # t /\ cur[u] \in Jobs
    BY <2>1, JobInHand DEF Cleared, Handling, Moves, Types
  <2>6. ClearedIsFresh'
    BY <2>3, <2>4, <2>5 DEF IInv, ClearedIsFresh
  <2>7. \A k \in Jobs : InReach(k)' => InReach(k)
    BY <2>1 DEF InReach, Inbox, In, StartUp
  <2>8. PrunedIsOver' /\ PrintedAtMostOnce'
    BY <2>3, <2>4, <2>7 DEF IInv, PrunedIsOver, PrintedAtMostOnce
  <2>9. QED
    BY <2>1, <2>6, <2>8 DEF IInv
<1>3. QED
  BY <1>1, <1>2

LEMMA PrintSteps ==
  ASSUME Types, IInv, NEW t \in Threads
  PROVE  PrintJob(t) \/ PrintRaises(t) \/ Mark(t) \/ MarkFailed(t) \/ Answer(t) => IInv'
<1>1. ASSUME PrintJob(t) \/ PrintRaises(t) PROVE IInv'
  BY <1>1, PrintedStep DEF PrintJob, PrintRaises, HandOver, shareVars, ghostVars
<1>2. ASSUME Mark(t) \/ MarkFailed(t) PROVE IInv'
  <2>1. cur[t] \in Jobs
    BY <1>2, JobInHand DEF Mark, MarkFailed, Handling, Types
  <2>2. \A j \in Jobs : ledger'[j] = "none" => ledger[j] = "none"
    BY <1>2, <2>1 DEF Mark, MarkFailed, Types, TypeOK
  <2>3. /\ UNCHANGED <<at, list, cur, printed, arrivals>>
        /\ \/ pc[t] = "mark" /\ (Goto(t, "shelve") \/ Goto(t, "drop"))
           \/ pc[t] = "fail" /\ Goto(t, "answer")
           \/ pc[t] = "orphan" /\ Goto(t, "inform")
    BY <1>2 DEF Mark, MarkFailed, BeginMove, Proceed, shareVars, ghostVars
  <2>4. QED
    BY <2>2, <2>3, SameJobStep DEF StartUp
<1>3. ASSUME Answer(t) PROVE IInv'
  <2>1. /\ UNCHANGED <<at, list, printed, arrivals, ledger>>
        /\ \A u \in Threads \ {t} : cur'[u] = cur[u]
        /\ \/ pc[t] = "answer" /\ Goto(t, "sweep")
           \/ pc[t] = "inform" /\ Goto(t, "orphans")
    BY <1>3 DEF Answer, Release, Types, TypeOK
  <2>2. QED
    BY <2>1, SameJobStep DEF StartUp
<1>4. QED
  BY <1>1, <1>2, <1>3

\* When the process dies no thread has a job, and the one it was printing has a
\* row that start-up will find.
LEMMA DeathStep ==
  ASSUME Types, IInv, Forget, UNCHANGED <<at, ledger, arrivals>>,
         \/ UNCHANGED printed
         \/ \E t \in Threads : pc[t] = "print" /\ printed' = [printed EXCEPT ![cur[t]] = @ + 1]
  PROVE  IInv'
<1>1. \A t \in Threads : pc'[t] = "down"
  BY DEF Forget
<1>2. AloneAtStart' /\ ClearedIsFresh'
  BY <1>1 DEF AloneAtStart, ClearedIsFresh, Cleared, Threads
<1>3. \A j \in Jobs : InReach(j)' => InReach(j)
  BY <1>1 DEF InReach, Inbox, In, StartUp
<1>4. CASE UNCHANGED printed
  BY <1>2, <1>3, <1>4 DEF IInv, PrunedIsOver, PrintedAtMostOnce
<1>5. ASSUME NEW t \in Threads, pc[t] = "print", printed' = [printed EXCEPT ![cur[t]] = @ + 1]
      PROVE  IInv'
  <2>1. cur[t] \in Jobs /\ ledger[cur[t]] # "none" /\ printed[cur[t]] = 0
    BY <1>5, JobInHand DEF Handling, Types, IInv, ClearedIsFresh, Cleared
  <2>2. \A k \in Jobs : printed'[k] = IF k = cur[t] THEN 1 ELSE printed[k]
    BY <1>5, <2>1 DEF Types, TypeOK
  <2>3. QED
    BY <1>2, <1>3, <2>1, <2>2 DEF IInv, PrunedIsOver, PrintedAtMostOnce
<1>6. QED
  BY <1>4, <1>5

\* Rows are pruned when no thread is past the claim, and only of jobs that do
\* not come again.
LEMMA PruneStep ==
  ASSUME LateCopies = FALSE, Types, IInv, EndPreflight
  PROVE  IInv'
<1>1. PICK old \in SUBSET {j \in Jobs : Over(j)} :
        /\ ledger' = [j \in Jobs |-> IF j \in old THEN "none" ELSE ledger[j]]
        /\ at' = [j \in Jobs |-> IF j \in old THEN at[j] \ ({"done"} \X Files) ELSE at[j]]
  BY DEF EndPreflight
<1>2. Main \in Threads /\ Watcher \in Threads /\ Main # Watcher /\ Threads = {Main, Watcher}
  BY ConstantsAssumption DEF Threads
<1>3. /\ pc[Main] = "strays" /\ Goto(Main, "sweep")
      /\ list' = [list EXCEPT ![Main] = Inbox]
      /\ UNCHANGED <<cur, printed, arrivals>>
  BY DEF EndPreflight, ghostVars
<1>4. \A t \in Threads : pc'[t] = IF t = Main THEN "sweep" ELSE "down"
  BY <1>2, <1>3 DEF Goto, IInv, AloneAtStart, StartUp, Types, TypeOK
<1>5. AloneAtStart' /\ ClearedIsFresh'
  BY <1>2, <1>4 DEF AloneAtStart, ClearedIsFresh, Cleared, StartUp
<1>6. Inbox' \subseteq Inbox
  BY <1>1 DEF Inbox, In
<1>7. \A j \in Jobs : InReach(j)' => j \in Inbox
  BY <1>2, <1>3, <1>4, <1>6 DEF InReach, StartUp, Types, TypeOK
<1>8. ASSUME NEW j \in Jobs, printed'[j] > 0, ledger'[j] = "none"
      PROVE  arrivals'[j] = MaxArrivals[j] /\ ~InReach(j)'
  <2>1. CASE j \in old
    BY <1>1, <1>3, <1>7, <2>1 DEF Over
  <2>2. CASE j \notin old
    <3>1. ledger[j] = "none"
      BY <1>1, <1>8, <2>2
    <3>2. arrivals[j] = MaxArrivals[j] /\ j \notin Inbox
      BY <1>3, <1>8, <3>1 DEF IInv, PrunedIsOver, InReach
    <3>3. QED
      BY <1>3, <1>7, <3>2
  <2>3. QED
    BY <2>1, <2>2
<1>9. QED
  BY <1>3, <1>5, <1>8 DEF IInv, PrunedIsOver, PrintedAtMostOnce

\* Start-up before the pruning, and the observer.
LEMMA StartSteps ==
  ASSUME LateCopies = FALSE, Types, IInv
  PROVE  Start \/ Preflight \/ Observe => IInv'
<1> Main \in Threads /\ Watcher \in Threads /\ Main # Watcher
  BY ConstantsAssumption DEF Threads
<1>1. ASSUME Start \/ Observe, NEW t \in Threads, NEW label,
             pc' = [pc EXCEPT ![t] = label], label \in {"orphans", "idle"},
             UNCHANGED <<at, cur, printed, arrivals, ledger>>,
             label = "idle" => UNCHANGED list,
             label = "orphans" => t = Main /\ \A u \in Threads \ {Main} : list'[u] = list[u],
             AloneAtStart'
      PROVE  IInv'
  <2>1. \A u \in Threads : pc'[u] = IF u = t THEN label ELSE pc[u]
    BY <1>1 DEF Types, TypeOK
  <2>2. \A j \in Jobs : InReach(j)' => InReach(j)
    BY <1>1, <2>1 DEF InReach, Inbox, In, StartUp
  <2>3. QED
    BY <1>1, <2>1, <2>2, QuietStep DEF Cleared
<1>2. CASE Start
  <2>1. /\ pc' = [pc EXCEPT ![Main] = "orphans"] /\ pc[Main] = "down"
        /\ UNCHANGED <<at, cur, printed, arrivals, ledger>>
        /\ \A u \in Threads \ {Main} : list'[u] = list[u]
    BY <1>2 DEF Start, Goto, shareVars, ghostVars, Types, TypeOK
  <2>2. AloneAtStart'
    BY <2>1 DEF IInv, AloneAtStart, StartUp, Types, TypeOK
  <2>3. QED
    BY <1>1, <1>2, <2>1, <2>2
<1>3. CASE Observe
  <2>1. /\ pc' = [pc EXCEPT ![Watcher] = "idle"] /\ pc[Main] = "idle"
        /\ UNCHANGED <<at, cur, list, printed, arrivals, ledger>>
    BY <1>3 DEF Observe, Goto, shareVars, ghostVars
  <2>2. AloneAtStart'
    BY <2>1 DEF IInv, AloneAtStart, StartUp, Types, TypeOK
  <2>3. QED
    BY <1>1, <1>3, <2>1, <2>2
<1>4. CASE NextOrphan \/ NextStray \/ OrphansDone
  <2>1. PICK label \in {"recover", "stray", "strays"} : Goto(Main, label)
    BY <1>4 DEF NextOrphan, NextStray, OrphansDone, BeginMove
  <2>2. /\ pc[Main] \in {"orphans", "strays"}
        /\ UNCHANGED <<at, printed, arrivals, ledger>>
        /\ \A u \in Threads \ {Main} : list'[u] = list[u] /\ cur'[u] = cur[u]
    BY <1>4 DEF NextOrphan, NextStray, OrphansDone, shareVars, ghostVars, Types, TypeOK
  <2>3. /\ AloneAtStart'
        /\ \A u \in Threads : pc'[u] = IF u = Main THEN label ELSE pc[u]
    BY <2>1, <2>2, ThreadStep DEF IInv, StartUp
  <2>4. \A j \in Jobs : InReach(j)' => InReach(j)
    BY <2>2, <2>3 DEF InReach, Inbox, In, StartUp
  <2>5. QED
    BY <2>2, <2>3, <2>4, QuietStep DEF Cleared
<1>5. CASE StrayMoveFails
  BY <1>5, DeathStep DEF StrayMoveFails, shareVars
<1>6. QED
  BY <1>2, <1>3, <1>4, <1>5, PruneStep DEF Preflight

LEMMA IInvInductive ==
  ASSUME LateCopies = FALSE
  PROVE  /\ Init => IInv
         /\ Types /\ IInv /\ [Next]_vars => IInv'
<1>1. ASSUME Init PROVE IInv
  <2>1. /\ \A t \in Threads : pc[t] = "down"
        /\ \A j \in Jobs : printed[j] = 0
    BY <1>1 DEF Init
  <2>2. QED
    BY <2>1 DEF IInv, AloneAtStart, ClearedIsFresh, Cleared, PrunedIsOver, PrintedAtMostOnce, Threads
<1>2. ASSUME Types, IInv, [Next]_vars PROVE IInv'
  <2>1. ASSUME NEW t \in Threads, BeginSweep(t) \/ Work(t) PROVE IInv'
    BY <1>2, <2>1, MoveSteps, SweepSteps, OpenSteps, PrintSteps DEF Work
  <2>2. CASE Crash
    BY <1>2, <2>2, DeathStep DEF Crash, HandOver, shareVars
  <2>3. CASE UNCHANGED vars
    BY <1>2, <2>3 DEF vars, IInv, AloneAtStart, ClearedIsFresh, Cleared, PrunedIsOver, InReach,
                      Inbox, In, PrintedAtMostOnce
  <2>4. QED
    BY <1>2, <2>1, <2>2, <2>3, AroundSteps, StartSteps DEF Next
<1>3. QED
  BY <1>1, <1>2

\* winagent/README.md, "A job is never printed twice", for any number of jobs,
\* deliveries, failures and deaths of the agent: the claim is written before the
\* print and start-up never prints what is claimed, as long as no copy of a job
\* comes after its row was pruned.
THEOREM NeverPrintedTwice ==
  ASSUME LateCopies = FALSE
  PROVE  Spec => []PrintedAtMostOnce
<1>1. Init => Types /\ IInv
  BY TypesInit, IInvInductive
<1>2. Types /\ IInv /\ [Next]_vars => Types' /\ IInv'
  BY TypesInductive, IInvInductive
<1>3. IInv => PrintedAtMostOnce
  BY DEF IInv
<1>4. QED
  BY <1>1, <1>2, <1>3, PTL DEF Spec

-----------------------------------------------------------------------------
(* The pause between two jobs.                                             *)

\* A printer that is busy with a job of which the agent knows nothing counts as
\* one failure that has not yet had its effect.
Crowding == crowded + (IF busy /\ ~recalls THEN 1 ELSE 0) <= faults

LEMMA CrowdingKept ==
  ASSUME TypeOK, Crowding, [Next]_vars
  PROVE  Crowding'
<1>1. faults \in Nat /\ crowded \in Nat /\ recalls \in BOOLEAN /\ busy \in BOOLEAN
  BY ConstantsAssumption DEF TypeOK
<1>2. ASSUME NEW kind, Fault(kind) PROVE faults' = faults + 1
  BY <1>2 DEF Fault
<1>3. CASE UNCHANGED <<recalls, busy, crowded>> /\ (UNCHANGED faults \/ \E kind : Fault(kind))
  BY <1>1, <1>2, <1>3 DEF Crowding
<1>4. CASE Settle
  BY <1>1, <1>4 DEF Settle, Crowding, memoryVars, ghostVars
<1>5. CASE Crash
  <2>1. recalls' = FALSE /\ faults' = faults + 1
    BY <1>2, <1>5 DEF Crash, Forget
  <2>2. CASE UNCHANGED <<printed, crowded, busy>>
    BY <1>1, <2>1, <2>2 DEF Crowding
  <2>3. ASSUME NEW j, PrinterReady, HandOver(j) PROVE Crowding'
    BY <1>1, <2>1, <2>3 DEF Crowding, HandOver, PrinterReady
  <2>4. QED
    BY <1>5, <2>2, <2>3 DEF Crash
<1>6. ASSUME NEW t \in Threads, PrintJob(t) PROVE Crowding'
  BY <1>1, <1>6 DEF PrintJob, Crowding, HandOver, PrinterReady, ghostVars
<1>7. ASSUME NEW t \in Threads, PrintRaises(t) PROVE Crowding'
  <2>1. CASE UNCHANGED <<recalls, busy, crowded>> /\ (UNCHANGED faults \/ \E kind : Fault(kind))
    BY <1>3, <2>1
  <2>2. CASE Fault("print") /\ HandOver(cur[t]) /\ recalls' = FALSE
    BY <1>1, <1>2, <1>7, <2>2 DEF PrintRaises, Crowding, HandOver, PrinterReady
  <2>3. QED
    BY <1>7, <2>1, <2>2 DEF PrintRaises
<1>8. ASSUME NEW j \in Jobs, Arrive(j) PROVE Crowding'
  BY <1>3, <1>8 DEF Arrive, memoryVars
<1>9. CASE Start \/ Observe \/ Preflight
  <2>1. CASE StrayMoveFails
    BY <1>1, <1>2, <2>1 DEF StrayMoveFails, Forget, Crowding
  <2>2. CASE Start \/ Observe \/ NextOrphan
    BY <1>3, <2>2 DEF Start, Observe, NextOrphan, ghostVars
  <2>3. CASE OrphansDone \/ NextStray \/ EndPreflight
    BY <1>3, <2>3 DEF OrphansDone, NextStray, EndPreflight, ghostVars
  <2>4. QED
    BY <1>9, <2>1, <2>2, <2>3 DEF Preflight
<1>10. ASSUME NEW t \in Threads, BeginSweep(t) PROVE Crowding'
  BY <1>3, <1>10 DEF BeginSweep, ghostVars
<1>11. ASSUME NEW t \in Threads, Work(t) PROVE Crowding'
  <2>1. CASE PrintJob(t) \/ PrintRaises(t)
    BY <1>6, <1>7, <2>1
  <2>2. CASE NextJob(t) \/ EndSweep(t) \/ Open(t) \/ OpenRaises(t) \/ Claim(t)
    BY <1>3, <2>2 DEF NextJob, EndSweep, Open, OpenRaises, Claim, ghostVars
  <2>3. CASE Mark(t) \/ MarkFailed(t) \/ Answer(t)
    BY <1>3, <2>3 DEF Mark, MarkFailed, Answer, ghostVars
  <2>4. CASE MoveFile(t) \/ MoveEnds(t) \/ MoveFails(t)
    BY <1>3, <2>4 DEF MoveFile, MoveEnds, MoveFails, ghostVars
  <2>5. QED
    BY <1>11, <2>1, <2>2, <2>3, <2>4 DEF Work
<1>12. CASE UNCHANGED vars
  BY <1>3, <1>12 DEF vars
<1>13. QED
  BY <1>4, <1>5, <1>8, <1>9, <1>10, <1>11, <1>12 DEF Next

\* The printer drops at most one job per death of the agent or failed print, for
\* any number of jobs and failures (_wait_for_the_printer).
THEOREM CrowdingIsPaidFor == Spec => []OneFailureCrowdsOneJob
<1>1. Init => Crowding
  BY DEF Init, Crowding
<1>2. TypeOK /\ Crowding => OneFailureCrowdsOneJob
  BY ConstantsAssumption DEF TypeOK, Crowding, OneFailureCrowdsOneJob
<1>3. QED
  BY <1>1, <1>2, CrowdingKept, TypeCorrect, PTL DEF Spec

-----------------------------------------------------------------------------
(* What is claimed is held, and the first sweep starts clean.              *)

\* Where a thread holds the claim of its job, and where the main thread has
\* claims in its list.
Holding    == {"take", "fail", "print", "mark", "recover", "orphan"}
Recovering == {"orphans", "recover", "orphan", "inform"}

\* What start-up still has to move out of processing/.
StraysKnown ==
  /\ pc[Main] = "strays" => Strays \subseteq list[Main]
  /\ pc[Main] = "stray" =>
       /\ Strays \subseteq list[Main] \cup {cur[Main]}
       /\ In(cur[Main], "processing") \subseteq left[Main]

HeldInv == AloneAtStart /\ ClaimsAreHeld /\ StraysKnown

\* A thread that sweeps, handles or recovers goes on to a place that follows.
Onward(t) ==
  \E label \in {"idle", "orphans", "strays", "sweep"} \cup Handling :
    /\ Goto(t, label)
    /\ pc[t] # "down"
    /\ pc[t] \in Recovering <=> label \in Recovering
    /\ pc[t] \in {"strays", "stray"} <=> label \in {"strays", "stray"}
    /\ \A u \in Threads \ {t} : cur'[u] = cur[u] /\ list'[u] = list[u] /\ left'[u] = left[u]

\* It lets go of a claim only once the row says something else, and a claim it
\* makes it holds.
KeepsClaims(t) ==
  /\ pc[t] \in Recovering => list'[t] = list[t]
  /\ pc[t] \in Holding =>
       \/ pc'[t] \in Holding /\ cur'[t] = cur[t]
       \/ ledger'[cur[t]] # "claimed"
  /\ \A j \in Jobs : ledger'[j] = "claimed" =>
       \/ ledger[j] = "claimed"
       \/ pc'[t] = "take" /\ cur'[t] = j

LEMMA MovesGoOn ==
  ASSUME Types, NEW t \in Threads, MoveFile(t) \/ MoveEnds(t) \/ MoveFails(t)
  PROVE  Onward(t) /\ KeepsClaims(t)
<1>1. /\ UNCHANGED <<ledger, list>>
      /\ pc[t] \in Moves
  BY DEF MoveFile, MoveEnds, MoveFails
<1>2. CASE MoveFile(t)
  <2>1. UNCHANGED <<pc, cur>> /\ \A u \in Threads \ {t} : left'[u] = left[u]
    BY <1>2 DEF MoveFile, Types, TypeOK
  <2>2. Goto(t, pc[t])
    BY <2>1 DEF Goto, Types, TypeOK
  <2>3. QED
    BY <1>1, <2>1, <2>2 DEF Onward, KeepsClaims, Moves, Handling, Recovering
<1>3. CASE MoveEnds(t) \/ MoveFails(t)
  <2>1. PICK label :
          /\ Proceed(t, label) \/ Release(t, label)
          /\ \/ pc[t] = "reject" /\ label \in {"answer", "sweep"}
             \/ pc[t] = "take" /\ label \in {"print", "fail"} /\ UNCHANGED cur
             \/ pc[t] \in {"shelve", "drop"} /\ label \in {"answer", "sweep"}
             \/ pc[t] = "recover" /\ label = "orphan" /\ UNCHANGED cur
             \/ pc[t] = "stray" /\ label = "strays"
    BY <1>3 DEF MoveEnds, MoveFails, AfterReject, AfterShelving, CannotTake, Dismiss, Proceed
  <2>2. /\ Goto(t, label)
        /\ \A u \in Threads \ {t} : cur'[u] = cur[u] /\ left'[u] = left[u]
    BY <2>1 DEF Proceed, Release, Types, TypeOK
  <2>3. pc'[t] = label
    BY <2>2 DEF Goto, Types, TypeOK
  <2>4. QED
    BY <1>1, <2>1, <2>2, <2>3 DEF Onward, KeepsClaims, Handling, Holding, Recovering
<1>4. QED
  BY <1>2, <1>3

LEMMA SweepsGoOn ==
  ASSUME Types, NEW t \in Threads, BeginSweep(t) \/ NextJob(t) \/ EndSweep(t)
  PROVE  Onward(t) /\ KeepsClaims(t)
<1>1. PICK label \in {"idle", "sweep", "open"} : Goto(t, label)
  BY DEF BeginSweep, NextJob, EndSweep
<1>2. /\ pc[t] \in {"idle", "sweep"}
      /\ UNCHANGED <<ledger, left>>
      /\ \A u \in Threads \ {t} : cur'[u] = cur[u] /\ list'[u] = list[u]
  BY DEF BeginSweep, NextJob, EndSweep, Types, TypeOK
<1>3. QED
  BY <1>1, <1>2 DEF Onward, KeepsClaims, Handling, Holding, Recovering

LEMMA HandlingGoesOn ==
  ASSUME Types, NEW t \in Threads,
         Open(t) \/ OpenRaises(t) \/ Claim(t) \/ PrintJob(t) \/ PrintRaises(t)
           \/ Mark(t) \/ MarkFailed(t) \/ Answer(t)
  PROVE  Onward(t) /\ KeepsClaims(t)
<1>1. UNCHANGED list
  BY DEF Open, OpenRaises, Claim, PrintJob, PrintRaises, Mark, MarkFailed, Answer
<1>2. \A label : Goto(t, label) => pc'[t] = label
  BY DEF Goto, Types, TypeOK
<1>3. CASE Open(t) \/ OpenRaises(t)
  <2>1. PICK label \in {"reject", "claim", "sweep"} : Goto(t, label)
    BY <1>3 DEF Open, OpenRaises, Reject, BeginMove, Proceed, Dismiss, Release
  <2>2. pc[t] = "open" /\ UNCHANGED ledger
    BY <1>3 DEF Open, OpenRaises
  <2>3. \/ \E status : Reject(t, status) /\ UNCHANGED cur
        \/ Proceed(t, "claim")
        \/ Dismiss(t)
    BY <1>3 DEF Open, OpenRaises
  <2>4. \A u \in Threads \ {t} : cur'[u] = cur[u] /\ left'[u] = left[u]
    BY <2>3 DEF Reject, BeginMove, Proceed, Dismiss, Release, Types, TypeOK
  <2>5. QED
    BY <1>1, <2>1, <2>2, <2>4 DEF Onward, KeepsClaims, Moves, Handling, Holding, Recovering
<1>4. CASE Claim(t)
  <2>1. /\ pc[t] = "claim" /\ UNCHANGED cur
        /\ \A u \in Threads \ {t} : left'[u] = left[u]
        /\ \/ Goto(t, "reject") /\ UNCHANGED ledger
           \/ Goto(t, "take") /\ ledger' = [ledger EXCEPT ![cur[t]] = "claimed"]
    BY <1>4 DEF Claim, Reject, BeginMove, Types, TypeOK
  <2>2. \A j \in Jobs : ledger'[j] = "claimed" =>
          ledger[j] = "claimed" \/ (pc'[t] = "take" /\ cur'[t] = j)
    <3>1. CASE UNCHANGED ledger
      BY <3>1
    <3>2. CASE Goto(t, "take") /\ ledger' = [ledger EXCEPT ![cur[t]] = "claimed"]
      <4>1. pc'[t] = "take" /\ cur'[t] = cur[t]
        BY <1>2, <2>1, <3>2
      <4>2. \A j \in Jobs \ {cur[t]} : ledger'[j] = ledger[j]
        BY <3>2 DEF Types, TypeOK
      <4>3. QED
        BY <4>1, <4>2
    <3>3. QED
      BY <2>1, <3>1, <3>2
  <2>3. QED
    BY <1>1, <2>1, <2>2 DEF Onward, KeepsClaims, Moves, Handling, Holding, Recovering
<1>5. CASE PrintJob(t) \/ PrintRaises(t)
  <2>1. pc[t] = "print" /\ Goto(t, "mark") /\ UNCHANGED <<ledger, cur, left>>
    BY <1>5 DEF PrintJob, PrintRaises, shareVars
  <2>2. QED
    BY <1>1, <1>2, <2>1 DEF Onward, KeepsClaims, Handling, Holding, Recovering
<1>6. CASE Mark(t) \/ MarkFailed(t)
  <2>1. /\ UNCHANGED cur
        /\ \A u \in Threads \ {t} : left'[u] = left[u]
        /\ \/ pc[t] = "mark" /\ \E label \in {"shelve", "drop"} : Goto(t, label)
           \/ pc[t] = "fail" /\ Goto(t, "answer")
           \/ pc[t] = "orphan" /\ Goto(t, "inform")
        /\ \E row \in {"done", "failed"} : ledger' = [ledger EXCEPT ![cur[t]] = row]
    BY <1>6 DEF Mark, MarkFailed, BeginMove, Proceed, Types, TypeOK
  <2>2. cur[t] \in Jobs
    BY <2>1, JobInHand DEF Handling, Types
  <2>3. ledger'[cur[t]] # "claimed" /\ \A j \in Jobs : ledger'[j] = "claimed" => ledger[j] = "claimed"
    BY <2>1, <2>2 DEF Types, TypeOK
  <2>4. QED
    BY <1>1, <2>1, <2>3 DEF Onward, KeepsClaims, Moves, Handling, Holding, Recovering
<1>7. CASE Answer(t)
  <2>1. /\ \/ pc[t] = "answer" /\ Release(t, "sweep")
           \/ pc[t] = "inform" /\ Release(t, "orphans")
        /\ UNCHANGED ledger
    BY <1>7 DEF Answer
  <2>2. \A u \in Threads \ {t} : cur'[u] = cur[u] /\ left'[u] = left[u]
    BY <2>1 DEF Release, Types, TypeOK
  <2>3. QED
    BY <1>1, <2>1, <2>2 DEF Release, Onward, KeepsClaims, Handling, Holding, Recovering
<1>8. QED
  BY <1>3, <1>4, <1>5, <1>6, <1>7

\* One thread goes on, and the files of processing/ change only as it moves them.
LEMMA ThreadGoesOn ==
  ASSUME Types, NEW t \in Threads, BeginSweep(t) \/ Work(t)
  PROVE  Onward(t) /\ KeepsClaims(t)
BY MovesGoOn, SweepsGoOn, HandlingGoesOn DEF Work

LEMMA OnwardAlone ==
  ASSUME Types, AloneAtStart, NEW t \in Threads, Onward(t)
  PROVE  /\ AloneAtStart'
         /\ \A u \in Threads \ {t} : pc'[u] = pc[u]
         /\ pc[t] \in Recovering <=> pc'[t] \in Recovering
         /\ pc[t] \in {"strays", "stray"} <=> pc'[t] \in {"strays", "stray"}
         /\ pc[t] # "down" /\ pc'[t] # "down"
<1>1. PICK label \in {"idle", "orphans", "strays", "sweep"} \cup Handling :
        /\ Goto(t, label)
        /\ pc[t] # "down"
        /\ pc[t] \in Recovering <=> label \in Recovering
        /\ pc[t] \in {"strays", "stray"} <=> label \in {"strays", "stray"}
  BY DEF Onward
<1>2. label \in StartUp => pc[t] \in StartUp
  BY <1>1 DEF StartUp, Recovering, Handling, Moves
<1>3. /\ AloneAtStart'
      /\ \A u \in Threads : pc'[u] = IF u = t THEN label ELSE pc[u]
  BY <1>1, <1>2, ThreadStep
<1>4. QED
  BY <1>1, <1>3 DEF Handling, Moves

LEMMA ClaimsKept ==
  ASSUME Types, HeldInv, NEW t \in Threads, BeginSweep(t) \/ Work(t)
  PROVE  ClaimsAreHeld'
<1>1. Onward(t) /\ KeepsClaims(t)
  BY ThreadGoesOn
<1>2. /\ \A u \in Threads \ {t} : pc'[u] = pc[u]
      /\ pc[t] \in Recovering <=> pc'[t] \in Recovering
      /\ pc[t] # "down" /\ pc'[t] # "down"
  BY <1>1, OnwardAlone DEF HeldInv
<1>3. \A u \in Threads \ {t} : cur'[u] = cur[u] /\ list'[u] = list[u]
  BY <1>1 DEF Onward
<1>4. Main \in Threads
  BY DEF Threads
<1>5. SUFFICES ASSUME NEW j \in Jobs, ledger'[j] = "claimed"
               PROVE  \/ pc'[Main] = "down"
                      \/ pc'[Main] \in Recovering /\ j \in list'[Main]
                      \/ \E u \in Threads : cur'[u] = j /\ pc'[u] \in Holding
  BY DEF ClaimsAreHeld, Recovering, Holding
<1>6. CASE ledger[j] # "claimed"
  BY <1>1, <1>5, <1>6 DEF KeepsClaims, Holding
<1>7. CASE ledger[j] = "claimed" /\ pc[Main] = "down"
  BY <1>2, <1>4, <1>7
<1>8. CASE ledger[j] = "claimed" /\ pc[Main] \in Recovering /\ j \in list[Main]
  BY <1>1, <1>2, <1>3, <1>4, <1>8 DEF KeepsClaims
<1>9. ASSUME NEW u \in Threads, cur[u] = j, pc[u] \in Holding
      PROVE  cur'[u] = j /\ pc'[u] \in Holding
  BY <1>1, <1>2, <1>3, <1>5, <1>9 DEF KeepsClaims
<1>10. QED
  BY <1>6, <1>7, <1>8, <1>9 DEF HeldInv, ClaimsAreHeld, Recovering, Holding

\* While main works through what lies in processing/, nobody else moves a file.
LEMMA StraysKept ==
  ASSUME Types, HeldInv, NEW t \in Threads, BeginSweep(t) \/ Work(t)
  PROVE  StraysKnown'
<1>1. Onward(t)
  BY ThreadGoesOn
<1>2. /\ AloneAtStart'
      /\ \A u \in Threads \ {t} : pc'[u] = pc[u]
      /\ pc[t] \in {"strays", "stray"} <=> pc'[t] \in {"strays", "stray"}
  BY <1>1, OnwardAlone DEF HeldInv
<1>3. Main \in Threads /\ Main # Watcher
  BY ConstantsAssumption DEF Threads
<1>4. CASE pc'[Main] \notin {"strays", "stray"}
  BY <1>4 DEF StraysKnown
<1>5. CASE pc'[Main] \in {"strays", "stray"}
  <2>1. t = Main
    <3>1. SUFFICES ASSUME t = Watcher PROVE FALSE
      BY DEF Threads
    <3>2. pc[Main] \in {"strays", "stray"}
      BY <1>2, <1>3, <1>5, <3>1
    <3>3. pc[Watcher] = "down"
      BY <3>2 DEF HeldInv, AloneAtStart, StartUp
    <3>4. QED
      BY <1>1, <3>1, <3>3 DEF Onward
  <2>2. pc[Main] = "stray"
    <3>1. pc[Main] \in {"strays", "stray"}
      BY <1>2, <1>5, <2>1
    <3>2. pc[Main] # "strays"
      BY <2>1 DEF BeginSweep, Work, MoveFile, MoveEnds, MoveFails, NextJob, EndSweep, Open,
                  OpenRaises, Claim, PrintJob, PrintRaises, Mark, MarkFailed, Answer, Moves
    <3>3. QED
      BY <3>1, <3>2
  <2>3. MoveFile(Main) \/ MoveEnds(Main)
    BY <2>1, <2>2 DEF BeginSweep, Work, MoveFails, NextJob, EndSweep, Open, OpenRaises,
                      Claim, PrintJob, PrintRaises, Mark, MarkFailed, Answer
  <2>4. cur[Main] \in Jobs
    BY <1>3, <2>2, JobInHand DEF Handling, Moves, Types
  <2>5. /\ Strays \subseteq list[Main] \cup {cur[Main]}
        /\ In(cur[Main], "processing") \subseteq left[Main]
    BY <2>2 DEF HeldInv, StraysKnown
  <2>6. CASE MoveFile(Main)
    <3>1. UNCHANGED <<pc, cur, list>>
      BY <2>6 DEF MoveFile
    <3>2. PICK f \in left[Main] :
            /\ left' = [left EXCEPT ![Main] = @ \ {f}]
            /\ \/ at' = [at EXCEPT ![cur[Main]] =
                           (@ \ {<<"processing", f>>}) \cup {<<"failed", f>>}]
               \/ f \notin In(cur[Main], "processing") /\ at' = at
      BY <2>2, <2>6 DEF MoveFile, From, To
    <3>3. \A k \in Jobs : In(k, "processing")' \subseteq In(k, "processing")
      BY <2>4, <3>2 DEF In, Types, TypeOK
    <3>4. f \notin In(cur[Main], "processing")'
      BY <2>4, <3>1, <3>2, SMTT(30) DEF In, Types, TypeOK
    <3>5. left'[Main] = left[Main] \ {f}
      BY <1>3, <3>2 DEF Types, TypeOK
    <3>6. Strays' \subseteq Strays
      BY <3>3 DEF Strays
    <3>7. In(cur[Main], "processing")' \subseteq left'[Main]
      BY <2>4, <2>5, <3>1, <3>3, <3>4, <3>5
    <3>8. QED
      BY <2>2, <2>5, <3>1, <3>6, <3>7 DEF StraysKnown
  <2>7. CASE MoveEnds(Main)
    <3>1. left[Main] = {} /\ Release(Main, "strays") /\ UNCHANGED <<at, list>>
      BY <2>2, <2>7 DEF MoveEnds, shareVars
    <3>2. pc'[Main] = "strays"
      BY <1>3, <3>1 DEF Release, Goto, Types, TypeOK
    <3>3. cur[Main] \notin Strays
      BY <2>5, <3>1 DEF Strays
    <3>4. Strays' = Strays
      BY <3>1 DEF Strays, In
    <3>5. QED
      BY <2>5, <3>1, <3>2, <3>3, <3>4 DEF StraysKnown
  <2>8. QED
    BY <2>3, <2>6, <2>7
<1>6. QED
  BY <1>4, <1>5

LEMMA StartHeld ==
  ASSUME Types, HeldInv
  PROVE  Start \/ NextOrphan \/ OrphansDone \/ NextStray => HeldInv'
<1> Main \in Threads /\ Watcher \in Threads /\ Main # Watcher
  BY ConstantsAssumption DEF Threads
<1>1. ASSUME NEW label \in {"orphans", "recover", "strays", "stray"},
             pc' = [pc EXCEPT ![Main] = label], pc[Main] \in StartUp
      PROVE  /\ AloneAtStart' /\ pc'[Main] = label
             /\ pc[Watcher] = "down" /\ pc'[Watcher] = "down"
  BY <1>1 DEF HeldInv, AloneAtStart, StartUp, Types, TypeOK
<1>2. CASE Start
  <2>1. AloneAtStart' /\ pc'[Main] = "orphans"
    BY <1>1, <1>2 DEF Start, Goto, StartUp
  <2>2. list'[Main] = {j \in Jobs : ledger[j] = "claimed"} /\ UNCHANGED ledger
    BY <1>2 DEF Start, Types, TypeOK
  <2>3. QED
    BY <2>1, <2>2 DEF HeldInv, ClaimsAreHeld, StraysKnown
<1>3. CASE NextOrphan
  <2>1. /\ pc[Main] = "orphans" /\ UNCHANGED ledger
        /\ Goto(Main, "recover")
    BY <1>3 DEF NextOrphan, BeginMove
  <2>2. AloneAtStart' /\ pc'[Main] = "recover" /\ pc[Watcher] = "down" /\ pc'[Watcher] = "down"
    BY <1>1, <2>1 DEF Goto, StartUp
  <2>3. PICK k \in list[Main] : list'[Main] = list[Main] \ {k} /\ cur'[Main] = k
    BY <1>3 DEF NextOrphan, Types, TypeOK
  <2>4. ASSUME NEW j \in Jobs, ledger[j] = "claimed" PROVE j \in list[Main]
    BY <2>1, <2>2, <2>4 DEF HeldInv, ClaimsAreHeld, Threads
  <2>5. ClaimsAreHeld'
    BY <2>1, <2>2, <2>3, <2>4 DEF ClaimsAreHeld
  <2>6. QED
    BY <2>2, <2>5 DEF HeldInv, StraysKnown
<1>4. CASE OrphansDone
  <2>1. pc[Main] = "orphans" /\ Goto(Main, "strays") /\ list[Main] = {} /\ UNCHANGED <<at, ledger>>
    BY <1>4 DEF OrphansDone, shareVars
  <2>2. AloneAtStart' /\ pc'[Main] = "strays" /\ pc[Watcher] = "down"
    BY <1>1, <2>1 DEF Goto, StartUp
  <2>3. \A j \in Jobs : ledger[j] # "claimed"
    BY <2>1, <2>2 DEF HeldInv, ClaimsAreHeld, Threads
  <2>4. list'[Main] = Strays /\ Strays' = Strays
    BY <1>4, <2>1 DEF OrphansDone, Strays, In, Types, TypeOK
  <2>5. QED
    BY <2>1, <2>2, <2>3, <2>4 DEF HeldInv, ClaimsAreHeld, StraysKnown
<1>5. CASE NextStray
  <2>1. pc[Main] = "strays" /\ Goto(Main, "stray") /\ UNCHANGED <<at, ledger>>
    BY <1>5 DEF NextStray, BeginMove, shareVars
  <2>2. AloneAtStart' /\ pc'[Main] = "stray" /\ pc[Watcher] = "down"
    BY <1>1, <2>1 DEF Goto, StartUp
  <2>3. \A j \in Jobs : ledger[j] # "claimed"
    BY <2>1, <2>2 DEF HeldInv, ClaimsAreHeld, Threads
  <2>4. PICK k \in list[Main] : /\ list'[Main] = list[Main] \ {k} /\ cur'[Main] = k
                                /\ left'[Main] = In(k, "processing")
    <3>1. PICK k \in Oldest(list[Main]) :
            /\ list' = [list EXCEPT ![Main] = @ \ {k}]
            /\ cur'  = [cur EXCEPT ![Main] = k]
            /\ left' = [left EXCEPT ![Main] = In(k, "processing")]
      BY <1>5 DEF NextStray, BeginMove, From
    <3>2. QED
      BY <3>1 DEF Oldest, Types, TypeOK
  <2>5. Strays \subseteq list[Main] /\ Strays' = Strays
    BY <2>1 DEF HeldInv, StraysKnown, Strays, In
  <2>6. In(cur[Main], "processing")' = In(k, "processing")
    BY <2>1, <2>4 DEF In
  <2>7. QED
    BY <2>1, <2>2, <2>3, <2>4, <2>5, <2>6 DEF HeldInv, ClaimsAreHeld, StraysKnown
<1>6. QED
  BY <1>2, <1>3, <1>4, <1>5

\* Nothing is claimed, and nothing lies in processing/, when the strays are done.
LEMMA CleanAtLast ==
  ASSUME Types, HeldInv, EndPreflight
  PROVE  /\ \A j \in Jobs : ledger[j] # "claimed" /\ ledger'[j] # "claimed"
         /\ \A j \in Jobs : In(j, "processing")' = {}
         /\ pc'[Main] = "sweep" /\ pc'[Watcher] = pc[Watcher] /\ pc[Watcher] = "down"
<1>1. Main \in Threads /\ Watcher \in Threads /\ Main # Watcher
  BY ConstantsAssumption DEF Threads
<1>2. pc[Main] = "strays" /\ list[Main] = {} /\ Goto(Main, "sweep")
  BY DEF EndPreflight
<1>3. pc'[Main] = "sweep" /\ pc'[Watcher] = pc[Watcher] /\ pc[Watcher] = "down"
  BY <1>1, <1>2 DEF Goto, HeldInv, AloneAtStart, StartUp, Types, TypeOK
<1>4. \A j \in Jobs : ledger[j] # "claimed"
  BY <1>2, <1>3 DEF HeldInv, ClaimsAreHeld, Threads
<1>5. PICK old \in SUBSET Jobs :
        /\ ledger' = [j \in Jobs |-> IF j \in old THEN "none" ELSE ledger[j]]
        /\ at'     = [j \in Jobs |-> IF j \in old THEN at[j] \ ({"done"} \X Files) ELSE at[j]]
  BY DEF EndPreflight
<1>6. \A j \in Jobs : In(j, "processing") = {}
  BY <1>2 DEF HeldInv, StraysKnown, Strays
<1>7. \A j \in Jobs : In(j, "processing")' = {}
  BY <1>5, <1>6 DEF In
<1>8. QED
  BY <1>3, <1>4, <1>5, <1>7

LEMMA HeldInductive == Types /\ HeldInv /\ [Next]_vars => HeldInv'
<1> SUFFICES ASSUME Types, HeldInv, [Next]_vars PROVE HeldInv'
  OBVIOUS
<1> Main \in Threads /\ Watcher \in Threads /\ Main # Watcher
  BY ConstantsAssumption DEF Threads
<1>1. ASSUME NEW t \in Threads, BeginSweep(t) \/ Work(t) PROVE HeldInv'
  BY <1>1, ThreadGoesOn, OnwardAlone, ClaimsKept, StraysKept DEF HeldInv
<1>2. ASSUME Forget PROVE HeldInv'
  BY <1>2 DEF Forget, HeldInv, AloneAtStart, ClaimsAreHeld, StraysKnown
<1>3. CASE Observe
  <2>1. /\ pc[Main] = "idle" /\ pc[Watcher] = "down" /\ UNCHANGED <<at, ledger, cur, list, left>>
        /\ pc'[Main] = "idle" /\ pc'[Watcher] = "idle"
    BY <1>3 DEF Observe, Goto, shareVars, Types, TypeOK
  <2>2. AloneAtStart'
    BY <2>1 DEF AloneAtStart, StartUp
  <2>3. QED
    BY <2>1, <2>2 DEF HeldInv, ClaimsAreHeld, StraysKnown, Threads
<1>4. CASE EndPreflight
  BY <1>4, CleanAtLast DEF HeldInv, AloneAtStart, ClaimsAreHeld, StraysKnown, StartUp
<1>5. ASSUME NEW j \in Jobs, Arrive(j) PROVE HeldInv'
  <2>1. UNCHANGED <<pc, list, cur, left, ledger>>
    BY <1>5 DEF Arrive, memoryVars
  <2>2. \A k \in Jobs : In(k, "processing")' = In(k, "processing")
    <3>1. PICK new \in SUBSET ({"inbox"} \X Files) : at' = [at EXCEPT ![j] = @ \cup new]
      <4>1. ASSUME NEW new \in {{<<"inbox", "payload">>}, {<<"inbox", "payload">>, <<"inbox", "sidecar">>}}
            PROVE  new \in SUBSET ({"inbox"} \X Files)
        BY <4>1 DEF Files
      <4>2. \E new \in {{<<"inbox", "payload">>}, {<<"inbox", "payload">>, <<"inbox", "sidecar">>}} :
              at' = [at EXCEPT ![j] = @ \cup new]
        BY <1>5 DEF Arrive
      <4>3. QED
        BY <4>1, <4>2
    <3>2. at'[j] = at[j] \cup new /\ \A k \in Jobs \ {j} : at'[k] = at[k]
      BY <3>1 DEF Types, TypeOK
    <3>3. QED
      BY <3>2 DEF In
  <2>3. pc[Main] = "stray" => cur[Main] \in Jobs
    BY JobInHand DEF Handling, Moves, Types
  <2>4. Strays' = Strays
    BY <2>2 DEF Strays
  <2>5. QED
    BY <2>1, <2>2, <2>3, <2>4 DEF HeldInv, AloneAtStart, ClaimsAreHeld, StraysKnown
<1>6. CASE UNCHANGED <<at, ledger, pc, list, cur, left>>
  BY <1>6 DEF HeldInv, AloneAtStart, ClaimsAreHeld, StraysKnown, Strays, In
<1>7. CASE Settle \/ UNCHANGED vars
  BY <1>6, <1>7 DEF Settle, vars, shareVars, memoryVars
<1>8. CASE Crash
  BY <1>2, <1>8 DEF Crash
<1>9. CASE Start \/ Preflight
  BY <1>2, <1>4, <1>9, StartHeld DEF Preflight, StrayMoveFails
<1>10. QED
  BY <1>1, <1>3, <1>5, <1>7, <1>8, <1>9 DEF Next

LEMMA HeldAlways == Spec => [](Types /\ HeldInv)
<1>1. Init => HeldInv
  BY ConstantsAssumption
     DEF Init, HeldInv, AloneAtStart, ClaimsAreHeld, StraysKnown, Threads
<1>2. QED
  BY <1>1, TypesInit, TypesInductive, HeldInductive, PTL DEF Spec

\* Every way out of handle marks the row it claimed, and a death leaves the rest
\* to the next start (handle, recover_orphans), for any jobs and failures.
THEOREM ClaimsHeld == Spec => []ClaimsAreHeld
<1>1. HeldInv => ClaimsAreHeld
  BY DEF HeldInv
<1>2. QED
  BY <1>1, HeldAlways, PTL

\* Only the end of preflight leads main from the strays to the first sweep.
LEMMA FirstSweep ==
  ASSUME Types, HeldInv, [Next]_vars, pc[Main] = "strays", pc'[Main] = "sweep"
  PROVE  EndPreflight
<1> Main \in Threads /\ Watcher \in Threads /\ Main # Watcher
  BY ConstantsAssumption DEF Threads
<1>1. ASSUME NEW t \in Threads, BeginSweep(t) \/ Work(t) PROVE FALSE
  <2>1. /\ \A u \in Threads \ {t} : pc'[u] = pc[u]
        /\ pc[t] \in {"strays", "stray"} <=> pc'[t] \in {"strays", "stray"}
    BY <1>1, ThreadGoesOn, OnwardAlone DEF HeldInv
  <2>2. QED
    BY <2>1
<1>2. ~Crash /\ ~StrayMoveFails
  BY DEF Crash, StrayMoveFails, Forget
<1>3. ~Start /\ ~Observe /\ ~NextOrphan /\ ~OrphansDone
  BY DEF Start, Observe, NextOrphan, OrphansDone
<1>4. ~NextStray
  BY DEF NextStray, BeginMove, Goto, Types, TypeOK
<1>5. ~Settle /\ ~(UNCHANGED vars) /\ \A j \in Jobs : ~Arrive(j)
  BY DEF Settle, vars, Arrive, memoryVars
<1>6. QED
  BY <1>1, <1>2, <1>3, <1>4, <1>5 DEF Next, Preflight

\* The first sweep of a run finds nothing claimed and nothing in processing/,
\* wherever the last run died (recover_orphans), for any jobs and failures.
THEOREM SweepsFromClean == Spec => StartsClean
<1>1. ASSUME Types, HeldInv, [Next]_vars, pc[Main] = "strays", pc'[Main] = "sweep"
      PROVE  \A j \in Jobs : In(j, "processing") = {} /\ ledger[j] # "claimed"
  <2>1. EndPreflight
    BY <1>1, FirstSweep
  <2>2. pc[Main] = "strays" /\ list[Main] = {}
    BY <2>1 DEF EndPreflight
  <2>3. QED
    BY <1>1, <2>1, <2>2, CleanAtLast DEF HeldInv, StraysKnown, Strays
<1>2. Types /\ HeldInv /\ [Next]_vars =>
        [pc[Main] = "strays" /\ pc'[Main] = "sweep" =>
           \A j \in Jobs : In(j, "processing") = {} /\ ledger[j] # "claimed"]_vars
  BY <1>1
<1>3. QED
  BY <1>2, HeldAlways, PTL DEF Spec, StartsClean

=============================================================================
