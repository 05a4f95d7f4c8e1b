-------------------------- MODULE Delivery_proofs --------------------------
(***************************************************************************)
(* A job that was delivered once is not both printed and rejected.  The    *)
(* argument: one thread at a time sweeps and takes a job off its list only *)
(* once (SweepsAlone), the agent knows nothing of a job that never came    *)
(* (NothingBeforeArrival), and of one that came once what is printed has   *)
(* left the inbox, where alone a sweep finds what it may reject, and what  *)
(* is rejected is rejected for a reason that stays (OnceInv).              *)
(* And whatever was claimed ends in a result, but for one job per failure. *)
(***************************************************************************)
EXTENDS PrintAgent_proofs, FiniteSetTheorems

\* Where a thread is in sweep_inbox.
Sweeping == {"sweep", "open", "claim", "reject", "take", "print", "mark", "shelve", "drop",
             "fail", "answer"}

\* One thread at a time sweeps; it has taken its job off its list, and a thread
\* without a job has no status to write.
SweepsAlone ==
  \A t \in Threads :
    /\ pc[t] \in Sweeping => lock = t /\ cur[t] \notin list[t]
    /\ cur[t] = NoJob => verdict[t] = "none"

\* The agent knows nothing of a job before its first copy comes.
NothingBeforeArrival ==
  \A j \in Jobs : arrivals[j] = 0 =>
    /\ at[j] = {} /\ result[j] = "none" /\ ledger[j] = "none" /\ printed[j] = 0
    /\ \A t \in Threads : cur[t] # j /\ j \notin list[t]

InInbox(j) == "payload" \in In(j, "inbox")

\* A result says that j was rejected, or will.
Refused(j) == result[j] = "rejected" \/ \E t \in Threads : cur[t] = j /\ verdict[t] = "rejected"

\* No sweep will claim the copy of j that came.
Barred(j) ==
  Known(j) \/ copy[j].sidecar = "invalid" \/ copy[j].payload = "cut" \/ ~InInbox(j)

\* Thread t may still print j.
MayPrint(t, j) == Cleared(t) /\ cur[t] = j

\* Of a job that came once.  What a sweep still has before it lies in the inbox,
\* and so does its job up to the claim, which lets no copy pass that a check of
\* handle refuses; the print comes after the payload has left the inbox.
Placed(t, j) ==
  /\ pc[t] \in Sweeping /\ j \in list[t] => InInbox(j)
  /\ pc[t] \in {"open", "claim"} /\ cur[t] = j => InInbox(j)
  /\ pc[t] = "claim" /\ cur[t] = j => copy[j] = [sidecar |-> "good", payload |-> "whole"]
  /\ pc[t] = "take" /\ cur[t] = j => "payload" \in left[t] \/ ~InInbox(j)
  /\ pc[t] = "print" /\ cur[t] = j => ~InInbox(j)
  /\ MayPrint(t, j) => ~Refused(j)

\* What was printed has left the inbox and was not refused, what was refused is
\* barred.
Once(j) ==
  /\ \A t \in Threads : Placed(t, j)
  /\ printed[j] > 0 => ~InInbox(j) /\ ~Refused(j)
  /\ Refused(j) => Barred(j)

OnceInv == \A j \in Jobs : arrivals[j] = 1 => Once(j)

DeliveryInv == SweepsAlone /\ NothingBeforeArrival /\ OnceInv

-----------------------------------------------------------------------------
(* What a step of one thread leaves alone.                                 *)

OthersStay(t) ==
  \A u \in Threads \ {t} :
    /\ pc'[u] = pc[u] /\ cur'[u] = cur[u] /\ list'[u] = list[u] /\ left'[u] = left[u]
    /\ verdict'[u] = verdict[u]

LEMMA OthersAreStill ==
  ASSUME Types, NEW t \in Threads, BeginSweep(t) \/ Work(t)
  PROVE  OthersStay(t)
<1> USE DEF OthersStay
<1>r. ASSUME NEW label, Release(t, label), UNCHANGED list PROVE OthersStay(t)
  BY <1>r DEF Release, Goto, Types, TypeOK
<1>p. ASSUME NEW label, Proceed(t, label), UNCHANGED list PROVE OthersStay(t)
  BY <1>p DEF Proceed, Goto, Types, TypeOK
<1>m. ASSUME NEW j, NEW move, BeginMove(t, j, move), UNCHANGED <<list, cur>>,
             \A u \in Threads \ {t} : verdict'[u] = verdict[u]
      PROVE  OthersStay(t)
  BY <1>m DEF BeginMove, Goto, Types, TypeOK
<1>1. CASE MoveFile(t)
  BY <1>1 DEF MoveFile, Types, TypeOK
<1>2. CASE MoveEnds(t) \/ MoveFails(t)
  <2>1. UNCHANGED list /\ \E label : Release(t, label) \/ Proceed(t, label)
    BY <1>2 DEF MoveEnds, MoveFails, AfterReject, AfterShelving, CannotTake, Dismiss
  <2>2. QED
    BY <1>p, <1>r, <2>1
<1>3. CASE BeginSweep(t) \/ NextJob(t) \/ EndSweep(t)
  BY <1>3 DEF BeginSweep, NextJob, EndSweep, Goto, Types, TypeOK
<1>4. CASE Open(t)
  <2>1. UNCHANGED list
    BY <1>4 DEF Open
  <2>2. CASE \E status : Reject(t, status) /\ UNCHANGED cur
    BY <1>m, <2>1, <2>2 DEF Reject, Types, TypeOK
  <2>3. QED
    BY <1>4, <1>p, <1>r, <2>1, <2>2 DEF Open, Dismiss
<1>5. CASE OpenRaises(t)
  BY <1>5, <1>r DEF OpenRaises, Dismiss
<1>6. CASE Claim(t)
  BY <1>6, <1>m DEF Claim, Reject, Types, TypeOK
<1>7. CASE PrintJob(t) \/ PrintRaises(t)
  BY <1>7 DEF PrintJob, PrintRaises, Goto, Types, TypeOK
<1>8. CASE Mark(t)
  BY <1>8, <1>m DEF Mark, Types, TypeOK
<1>9. CASE MarkFailed(t)
  BY <1>9, <1>p DEF MarkFailed
<1>10. CASE Answer(t)
  BY <1>10, <1>r DEF Answer
<1>11. QED
  BY <1>1, <1>2, <1>3, <1>4, <1>5, <1>6, <1>7, <1>8, <1>9, <1>10 DEF Work

\* A thread that works on a job touches the files and the records of that job only.
LEMMA OneJobTouched ==
  ASSUME Types, NEW t \in Threads, BeginSweep(t) \/ Work(t)
  PROVE  /\ UNCHANGED <<copy, arrivals>>
         /\ \A j \in Jobs \ {cur[t]} :
               /\ at'[j] = at[j] /\ result'[j] = result[j]
               /\ ledger'[j] = ledger[j] /\ printed'[j] = printed[j]
<1> USE DEF shareVars, ghostVars, Types, TypeOK
<1>1. CASE MoveFile(t) \/ MoveEnds(t) \/ MoveFails(t)
  BY <1>1 DEF MoveFile, MoveEnds, MoveFails
<1>2. CASE BeginSweep(t) \/ NextJob(t) \/ EndSweep(t) \/ Open(t) \/ OpenRaises(t)
  BY <1>2 DEF BeginSweep, NextJob, EndSweep, Open, OpenRaises
<1>3. CASE Claim(t) \/ Mark(t) \/ MarkFailed(t)
  BY <1>3 DEF Claim, Mark, MarkFailed
<1>4. CASE PrintJob(t) \/ PrintRaises(t)
  BY <1>4 DEF PrintJob, PrintRaises, HandOver
<1>5. CASE Answer(t)
  BY <1>5 DEF Answer
<1>6. QED
  BY <1>1, <1>2, <1>3, <1>4, <1>5 DEF Work

\* Only the sweep changes the lists and takes a job up.
LEMMA ListsStay ==
  ASSUME Types, NEW t \in Threads, Work(t), ~NextJob(t), ~EndSweep(t)
  PROVE  /\ UNCHANGED <<list, lock>> /\ pc[t] \in Handling /\ cur[t] \in Jobs
         /\ cur'[t] \in {cur[t], NoJob}
         /\ pc[t] \in Sweeping <=> pc'[t] \in Sweeping
         /\ cur'[t] = NoJob => verdict'[t] = "none"
<1>h. pc[t] \in Handling /\ UNCHANGED <<list, lock>>
  BY DEF Work, MoveFile, MoveEnds, MoveFails, Open, OpenRaises, Claim, PrintJob, PrintRaises,
         Mark, MarkFailed, Answer, Handling
<1>c. cur[t] \in Jobs /\ cur[t] # NoJob
  BY <1>h, JobInHand, ConstantsAssumption DEF Types
<1>r. ASSUME NEW label, Release(t, label)
      PROVE  pc'[t] = label /\ cur'[t] = NoJob /\ verdict'[t] = "none"
  BY <1>r DEF Release, Goto, Types, TypeOK
<1>p. ASSUME NEW label, Goto(t, label) PROVE pc'[t] = label
  BY <1>p DEF Goto, Types, TypeOK
<1>1. CASE MoveFile(t)
  BY <1>1, <1>h, <1>c DEF MoveFile
<1>2. CASE MoveEnds(t) \/ MoveFails(t)
  <2>1. \/ pc[t] \in {"reject", "shelve", "drop"} /\ (Release(t, "sweep") \/ Proceed(t, "answer"))
        \/ pc[t] = "take" /\ (Proceed(t, "print") \/ Proceed(t, "fail"))
        \/ pc[t] = "recover" /\ Proceed(t, "orphan")
        \/ pc[t] = "stray" /\ Release(t, "strays")
    BY <1>2 DEF MoveEnds, MoveFails, AfterReject, AfterShelving, CannotTake, Dismiss
  <2>2. QED
    BY <1>h, <1>c, <1>r, <1>p, <2>1 DEF Proceed, Sweeping
<1>3. CASE Open(t) \/ OpenRaises(t) \/ Claim(t)
  <2>1. /\ pc[t] \in {"open", "claim"}
        /\ \/ Release(t, "sweep")
           \/ cur' = cur /\ (Goto(t, "reject") \/ Goto(t, "claim") \/ Goto(t, "take"))
    BY <1>3 DEF Open, OpenRaises, Claim, Reject, BeginMove, Proceed, Dismiss
  <2>2. QED
    BY <1>h, <1>c, <1>r, <1>p, <2>1 DEF Sweeping
<1>4. CASE PrintJob(t) \/ PrintRaises(t) \/ Mark(t) \/ MarkFailed(t)
  <2>1. /\ cur' = cur
        /\ \/ pc[t] = "print" /\ Goto(t, "mark")
           \/ pc[t] = "mark" /\ (Goto(t, "shelve") \/ Goto(t, "drop"))
           \/ pc[t] = "fail" /\ Goto(t, "answer")
           \/ pc[t] = "orphan" /\ Goto(t, "inform")
    BY <1>4 DEF PrintJob, PrintRaises, Mark, MarkFailed, BeginMove, Proceed
  <2>2. QED
    BY <1>h, <1>c, <1>p, <2>1 DEF Sweeping
<1>5. CASE Answer(t)
  <2>1. \/ pc[t] = "answer" /\ Release(t, "sweep")
        \/ pc[t] = "inform" /\ Release(t, "orphans")
    BY <1>5 DEF Answer
  <2>2. QED
    BY <1>h, <1>c, <1>r, <2>1 DEF Sweeping
<1>6. QED
  BY <1>1, <1>2, <1>3, <1>4, <1>5 DEF Work

-----------------------------------------------------------------------------
(* One thread at a time sweeps.                                            *)

LEMMA SweepsAloneKept ==
  ASSUME Types, AloneAtStart, SweepsAlone, Next
  PROVE  SweepsAlone'
<1>t. Main \in Threads /\ Watcher \in Threads /\ Main # Watcher /\ Threads = {Main, Watcher}
      /\ NoThread \notin Threads /\ NoJob \notin Jobs
  BY ConstantsAssumption DEF Threads
<1>1. ASSUME UNCHANGED memoryVars PROVE SweepsAlone'
  BY <1>1 DEF memoryVars, SweepsAlone
<1>2. ASSUME Forget PROVE SweepsAlone'
  BY <1>2 DEF Forget, SweepsAlone, Sweeping
<1>3. ASSUME NEW t \in Threads, Work(t), ~NextJob(t), ~EndSweep(t) PROVE SweepsAlone'
  <2>1. OthersStay(t)
    BY <1>3, OthersAreStill
  <2>2. QED
    BY <1>3, <1>t, <2>1, ListsStay DEF SweepsAlone, OthersStay, Types, TypeOK
<1>4. ASSUME NEW t \in Threads, NextJob(t) PROVE SweepsAlone'
  <2>1. PICK j \in list[t] :
          /\ list' = [list EXCEPT ![t] = @ \ {j}] /\ cur' = [cur EXCEPT ![t] = j]
    BY <1>4 DEF NextJob, Oldest
  <2>2. pc[t] = "sweep" /\ Goto(t, "open") /\ UNCHANGED <<lock, verdict>>
    BY <1>4 DEF NextJob
  <2>3. j \in Jobs
    BY <2>1 DEF Types, TypeOK
  <2>4. QED
    BY <1>t, <2>1, <2>2, <2>3 DEF SweepsAlone, Sweeping, Goto, Types, TypeOK
<1>5. ASSUME NEW t \in Threads, EndSweep(t) PROVE SweepsAlone'
  <2>1. /\ pc[t] = "sweep" /\ pc' = [pc EXCEPT ![t] = "idle"] /\ lock' = NoThread
        /\ UNCHANGED <<list, cur, verdict>>
    BY <1>5 DEF EndSweep, Goto
  <2>2. \A u \in Threads : pc'[u] \notin Sweeping
    BY <2>1 DEF SweepsAlone, Sweeping, Types, TypeOK
  <2>3. QED
    BY <2>1, <2>2 DEF SweepsAlone
<1>6. ASSUME NEW t \in Threads, BeginSweep(t) PROVE SweepsAlone'
  <2>1. /\ pc[t] = "idle" /\ pc' = [pc EXCEPT ![t] = "sweep"] /\ lock = NoThread /\ lock' = t
        /\ list' = [list EXCEPT ![t] = Inbox] /\ UNCHANGED <<cur, verdict>>
    BY <1>6 DEF BeginSweep, Goto, LockIsFree
  <2>2. \A u \in Threads : pc[u] \notin Sweeping
    BY <1>t, <2>1 DEF SweepsAlone
  <2>3. cur[t] = NoJob /\ Inbox \subseteq Jobs
    BY <2>1 DEF Types, TypeOK, Handling, Moves, Inbox
  <2>4. QED
    BY <1>t, <2>1, <2>2, <2>3 DEF SweepsAlone, Types, TypeOK
<1>7. ASSUME Start \/ Preflight \/ Observe, ~StrayMoveFails PROVE SweepsAlone'
  <2>1. CASE EndPreflight
    <3>1. /\ pc[Main] = "strays" /\ pc' = [pc EXCEPT ![Main] = "sweep"] /\ lock' = Main
          /\ list' = [list EXCEPT ![Main] = Inbox] /\ UNCHANGED <<cur, verdict>>
      BY <2>1 DEF EndPreflight, Goto
    <3>2. pc[Watcher] = "down"
      BY <3>1 DEF AloneAtStart, StartUp
    <3>3. cur[Main] = NoJob /\ Inbox \subseteq Jobs
      BY <1>t, <3>1 DEF Types, TypeOK, Handling, Moves, Inbox
    <3>4. QED
      BY <1>t, <3>1, <3>2, <3>3 DEF SweepsAlone, Sweeping, Types, TypeOK
  <2>2. CASE Start \/ OrphansDone
    <3>1. /\ pc' \in {[pc EXCEPT ![Main] = "orphans"], [pc EXCEPT ![Main] = "strays"]}
          /\ \A u \in Threads \ {Main} : list'[u] = list[u]
          /\ UNCHANGED <<cur, verdict, lock>>
      BY <2>2 DEF Start, OrphansDone, Goto, Types, TypeOK
    <3>2. \A u \in Threads \ {Main} : pc'[u] = pc[u]
      BY <3>1 DEF Types, TypeOK
    <3>3. pc'[Main] \notin Sweeping
      BY <1>t, <3>1 DEF Sweeping, Types, TypeOK
    <3>4. QED
      BY <1>t, <3>1, <3>2, <3>3 DEF SweepsAlone
  <2>3. CASE NextOrphan \/ NextStray
    <3>1. /\ pc' \in {[pc EXCEPT ![Main] = "recover"], [pc EXCEPT ![Main] = "stray"]}
          /\ \A u \in Threads \ {Main} :
                list'[u] = list[u] /\ cur'[u] = cur[u] /\ verdict'[u] = verdict[u]
          /\ UNCHANGED lock
          /\ cur'[Main] \in list[Main]
      BY <1>t, <2>3 DEF NextOrphan, NextStray, BeginMove, Goto, Oldest, Types, TypeOK
    <3>2. \A u \in Threads \ {Main} : pc'[u] = pc[u]
      BY <3>1 DEF Types, TypeOK
    <3>3. pc'[Main] \notin Sweeping /\ cur'[Main] # NoJob
      BY <1>t, <3>1 DEF Sweeping, Types, TypeOK
    <3>4. QED
      BY <1>t, <3>1, <3>2, <3>3 DEF SweepsAlone
  <2>4. CASE Observe
    <3>1. pc' = [pc EXCEPT ![Watcher] = "idle"] /\ UNCHANGED <<list, cur, verdict, lock>>
      BY <2>4 DEF Observe, Goto
    <3>2. QED
      BY <3>1 DEF SweepsAlone, Sweeping, Types, TypeOK
  <2>5. QED
    BY <1>7, <2>1, <2>2, <2>3, <2>4 DEF Preflight
<1>8. QED
  BY <1>1, <1>2, <1>3, <1>4, <1>5, <1>6, <1>7
     DEF Next, Arrive, Settle, Crash, StrayMoveFails, Work

-----------------------------------------------------------------------------
(* Nothing is known of a job that never came.                              *)

LEMMA NothingKept ==
  ASSUME Types, NothingBeforeArrival, Next
  PROVE  NothingBeforeArrival'
<1>t. Main \in Threads /\ NoJob \notin Jobs
  BY ConstantsAssumption DEF Threads
<1>l. ASSUME NEW j \in Jobs, arrivals[j] = 0
      PROVE  /\ at[j] = {} /\ j \notin Inbox /\ j \notin Strays /\ ledger[j] # "claimed"
             /\ \A t \in Threads : cur[t] # j /\ j \notin list[t]
  BY <1>l DEF NothingBeforeArrival, Inbox, Strays, In
<1>k. ASSUME UNCHANGED arrivals,
             \A j \in Jobs : arrivals[j] = 0 =>
               /\ at'[j] = {} /\ result'[j] = result[j]
               /\ ledger'[j] = "none" /\ printed'[j] = printed[j]
               /\ \A t \in Threads : cur'[t] # j /\ j \notin list'[t]
      PROVE  NothingBeforeArrival'
  BY <1>k DEF NothingBeforeArrival
<1>1. ASSUME NEW k \in Jobs, Arrive(k) PROVE NothingBeforeArrival'
  <2>1. /\ \A j \in Jobs \ {k} : at'[j] = at[j] /\ arrivals'[j] = arrivals[j]
        /\ arrivals'[k] = arrivals[k] + 1 /\ arrivals[k] \in Nat
        /\ UNCHANGED <<result, ledger, printed, cur, list>>
    BY <1>1 DEF Arrive, memoryVars, Types, TypeOK
  <2>2. QED
    BY <2>1 DEF NothingBeforeArrival
<1>2. ASSUME NEW t \in Threads, BeginSweep(t) \/ Work(t) PROVE NothingBeforeArrival'
  <2>1. OthersStay(t)
    BY <1>2, OthersAreStill
  <2>2. /\ cur'[t] \in {cur[t], NoJob} \cup list[t]
        /\ list'[t] \subseteq list[t] \cup Inbox
    <3>1. CASE BeginSweep(t)
      BY <3>1 DEF BeginSweep, Types, TypeOK
    <3>2. CASE NextJob(t)
      BY <3>2 DEF NextJob, Oldest, Types, TypeOK
    <3>3. CASE EndSweep(t)
      BY <3>3 DEF EndSweep
    <3>4. QED
      BY <1>2, <3>1, <3>2, <3>3, ListsStay
  <2>3. \A j \in Jobs : arrivals[j] = 0 =>
          \A u \in Threads : cur'[u] # j /\ j \notin list'[u]
    BY <1>t, <1>l, <2>1, <2>2 DEF OthersStay
  <2>4. \A j \in Jobs : arrivals[j] = 0 =>
          /\ at'[j] = {} /\ result'[j] = result[j]
          /\ ledger'[j] = "none" /\ printed'[j] = printed[j]
    BY <1>2, OneJobTouched DEF NothingBeforeArrival
  <2>5. QED
    BY <1>2, <1>k, <2>3, <2>4, OneJobTouched
<1>3. ASSUME Crash \/ StrayMoveFails PROVE NothingBeforeArrival'
  <2>1. /\ Forget /\ UNCHANGED <<at, result, ledger, arrivals>>
        /\ \/ UNCHANGED printed
           \/ \E t \in Threads : printed' = [printed EXCEPT ![cur[t]] = @ + 1]
    BY <1>3 DEF Crash, StrayMoveFails, HandOver, shareVars
  <2>2. \A j \in Jobs : arrivals[j] = 0 => printed'[j] = printed[j]
    BY <1>l, <2>1 DEF Types, TypeOK
  <2>3. QED
    BY <1>k, <1>t, <2>1, <2>2 DEF Forget, NothingBeforeArrival
<1>4. ASSUME Start \/ NextOrphan \/ OrphansDone \/ NextStray \/ Observe
      PROVE  NothingBeforeArrival'
  <2>1. /\ UNCHANGED <<at, result, ledger, printed, arrivals>>
        /\ \A t \in Threads :
             /\ cur'[t] \in {cur[t]} \cup list[t]
             /\ list'[t] \subseteq list[t] \cup Strays \cup {j \in Jobs : ledger[j] = "claimed"}
    BY <1>4, <1>t DEF Start, NextOrphan, OrphansDone, NextStray, Observe, Oldest,
                      shareVars, ghostVars, Types, TypeOK
  <2>2. QED
    BY <1>k, <1>l, <2>1 DEF NothingBeforeArrival
<1>5. ASSUME EndPreflight PROVE NothingBeforeArrival'
  <2>1. /\ UNCHANGED <<result, printed, arrivals, cur>>
        /\ \A j \in Jobs : at'[j] \subseteq at[j] /\ ledger'[j] \in {ledger[j], "none"}
        /\ \A t \in Threads : list'[t] \subseteq list[t] \cup Inbox
    BY <1>5, <1>t DEF EndPreflight, ghostVars, Types, TypeOK
  <2>2. QED
    BY <1>k, <1>l, <2>1 DEF NothingBeforeArrival
<1>6. ASSUME Settle PROVE NothingBeforeArrival'
  BY <1>6 DEF Settle, shareVars, memoryVars, ghostVars, NothingBeforeArrival
<1>7. QED
  BY <1>1, <1>2, <1>3, <1>4, <1>5, <1>6 DEF Next, Preflight

-----------------------------------------------------------------------------
(* A job that came once.                                                   *)

\* A step that keeps what there is of j in the inbox, refuses it no more than it
\* was and takes it nowhere new.
LEMMA CalmStep ==
  ASSUME NEW j \in Jobs, Once(j), copy'[j] = copy[j], printed'[j] = printed[j],
         InInbox(j)' <=> InInbox(j),
         Known(j) => Known(j)' \/ ~InInbox(j),
         Refused(j)' => Refused(j),
         \A t \in Threads : pc'[t] \in Sweeping /\ j \in list'[t] =>
            InInbox(j) \/ (pc[t] \in Sweeping /\ j \in list[t]),
         \A t \in Threads : pc'[t] \in {"open", "claim", "take", "print"} /\ cur'[t] = j =>
            pc'[t] = pc[t] /\ cur[t] = j /\ left'[t] = left[t]
  PROVE  Once(j)'
<1>1. ASSUME NEW t \in Threads PROVE Placed(t, j)'
  <2>1. Placed(t, j)
    BY DEF Once
  <2>2. MayPrint(t, j)' => MayPrint(t, j)
    BY DEF MayPrint, Cleared
  <2>3. QED
    BY <2>1, <2>2 DEF Placed
<1>2. Barred(j) => Barred(j)'
  BY DEF Barred
<1>3. QED
  BY <1>1, <1>2 DEF Once

\* A step of the thread that sweeps: with the job in its hands the other thread
\* has nothing to do, and the list of the sweep no longer holds it.
LEMMA OwnStep ==
  ASSUME SweepsAlone, NEW t \in Threads, pc[t] \in Sweeping, OthersStay(t), UNCHANGED list,
         NEW j, j = cur[t],
         pc'[t] \in {"open", "claim"} /\ cur'[t] = j => InInbox(j)',
         pc'[t] = "claim" /\ cur'[t] = j =>
            copy'[j] = [sidecar |-> "good", payload |-> "whole"],
         pc'[t] = "take" /\ cur'[t] = j => "payload" \in left'[t] \/ ~InInbox(j)',
         pc'[t] = "print" /\ cur'[t] = j => ~InInbox(j)',
         MayPrint(t, j)' => ~Refused(j)',
         printed'[j] > 0 => ~InInbox(j)' /\ ~Refused(j)',
         Refused(j)' => Barred(j)'
  PROVE  Once(j)'
<1>1. \A u \in Threads \ {t} : pc'[u] \notin Sweeping
  BY DEF SweepsAlone, OthersStay
<1>2. ASSUME NEW u \in Threads \ {t} PROVE Placed(u, j)'
  BY <1>1, <1>2 DEF Placed, Sweeping, MayPrint, Cleared
<1>3. Placed(t, j)'
  BY DEF Placed, SweepsAlone
<1>4. QED
  BY <1>2, <1>3 DEF Once

\* A thread works on another job.
LEMMA OtherJob ==
  ASSUME Types, NEW t \in Threads, Work(t), ~NextJob(t), ~EndSweep(t),
         NEW j \in Jobs, Once(j), j # cur[t]
  PROVE  Once(j)'
<1>1. /\ UNCHANGED <<copy, list>> /\ OthersStay(t)
      /\ at'[j] = at[j] /\ result'[j] = result[j]
      /\ ledger'[j] = ledger[j] /\ printed'[j] = printed[j]
  BY OthersAreStill, OneJobTouched, ListsStay
<1>2. cur'[t] # j /\ (pc[t] \in Sweeping <=> pc'[t] \in Sweeping)
  BY ListsStay, ConstantsAssumption
<1>3. \A u \in Threads : pc'[u] \in Sweeping <=> pc[u] \in Sweeping
  BY <1>1, <1>2 DEF OthersStay
<1>4. \A u \in Threads : cur'[u] = j =>
        u # t /\ cur[u] = j /\ pc'[u] = pc[u] /\ left'[u] = left[u] /\ verdict'[u] = verdict[u]
  BY <1>1, <1>2 DEF OthersStay
<1>5. Refused(j)' => Refused(j)
  BY <1>1, <1>4 DEF Refused
<1>6. (InInbox(j)' <=> InInbox(j)) /\ (Known(j)' <=> Known(j))
  BY <1>1 DEF InInbox, In, Known
<1>7. QED
  BY <1>1, <1>3, <1>4, <1>5, <1>6, CalmStep

\* sweep_inbox: the listing of the inbox, and the next job on it.
LEMMA SweepKeepsOnce ==
  ASSUME Types, SweepsAlone, NEW t \in Threads, BeginSweep(t) \/ NextJob(t) \/ EndSweep(t),
         NEW j \in Jobs, Once(j)
  PROVE  Once(j)'
<1>0. NoJob \notin Jobs
  BY ConstantsAssumption
<1>1. /\ UNCHANGED <<at, copy, result, ledger, printed, left, verdict>>
      /\ OthersStay(t)
  BY OthersAreStill DEF Work, BeginSweep, NextJob, EndSweep, shareVars
<1>2. (InInbox(j)' <=> InInbox(j)) /\ (Known(j)' <=> Known(j))
  BY <1>1 DEF InInbox, In, Known
<1>3. CASE BeginSweep(t) \/ EndSweep(t)
  <2>1. /\ UNCHANGED cur /\ pc'[t] \notin {"open", "claim", "take", "print"}
        /\ pc'[t] \in Sweeping => list'[t] = Inbox
    BY <1>3 DEF BeginSweep, EndSweep, Goto, Sweeping, Types, TypeOK
  <2>2. j \in Inbox => InInbox(j)
    BY DEF Inbox, InInbox
  <2>3. Refused(j)' => Refused(j)
    BY <1>1, <2>1 DEF Refused
  <2>4. \A u \in Threads : pc'[u] \in Sweeping /\ j \in list'[u] =>
          InInbox(j) \/ (pc[u] \in Sweeping /\ j \in list[u])
    BY <1>1, <2>1, <2>2 DEF OthersStay
  <2>5. \A u \in Threads : pc'[u] \in {"open", "claim", "take", "print"} /\ cur'[u] = j =>
          pc'[u] = pc[u] /\ cur[u] = j /\ left'[u] = left[u]
    BY <1>1, <2>1 DEF OthersStay
  <2>6. QED
    BY <1>1, <1>2, <2>3, <2>4, <2>5, CalmStep
<1>4. CASE NextJob(t)
  <2>1. PICK k \in list[t] :
          /\ list' = [list EXCEPT ![t] = @ \ {k}] /\ cur' = [cur EXCEPT ![t] = k]
    BY <1>4 DEF NextJob, Oldest
  <2>2. pc[t] = "sweep" /\ pc' = [pc EXCEPT ![t] = "open"]
    BY <1>4 DEF NextJob, Goto
  <2>3. cur[t] = NoJob /\ verdict[t] = "none"
    BY <2>2 DEF SweepsAlone, Types, TypeOK, Handling, Moves
  <2>4. list'[t] = list[t] \ {k} /\ cur'[t] = k /\ pc'[t] = "open"
    BY <2>1, <2>2 DEF Types, TypeOK
  <2>5. Refused(j)' <=> Refused(j)
    BY <1>0, <1>1, <2>3 DEF Refused, OthersStay
  <2>6. k = j => InInbox(j)
    BY <2>1, <2>2 DEF Once, Placed, Sweeping
  <2>7. Placed(t, j)'
    BY <1>2, <2>2, <2>4, <2>6 DEF Placed, Once, Sweeping, MayPrint, Cleared
  <2>8. \A u \in Threads \ {t} : Placed(u, j)'
    BY <1>1, <1>2, <2>5 DEF Placed, Once, OthersStay, MayPrint, Cleared
  <2>9. QED
    BY <1>1, <1>2, <2>5, <2>7, <2>8 DEF Once, Barred
<1>5. QED
  BY <1>3, <1>4

\* What a thread works on stays one thread's job when it goes on calmly.
LEMMA CalmWork ==
  ASSUME Types, NEW t \in Threads, Work(t), ~NextJob(t), ~EndSweep(t),
         NEW j \in Jobs, j = cur[t], Once(j),
         printed'[j] = printed[j], InInbox(j)' <=> InInbox(j), Known(j) => Known(j)',
         Refused(j)' => Refused(j),
         \/ pc'[t] \notin {"open", "claim", "take", "print"}
         \/ UNCHANGED <<pc, left>>
  PROVE  Once(j)'
<1>1. /\ UNCHANGED <<copy, list>> /\ OthersStay(t)
      /\ cur'[t] \in {j, NoJob} /\ (pc[t] \in Sweeping <=> pc'[t] \in Sweeping)
  BY OthersAreStill, OneJobTouched, ListsStay
<1>2. NoJob # j
  BY ConstantsAssumption
<1>3. \A u \in Threads : pc'[u] \in Sweeping /\ j \in list'[u] =>
        InInbox(j) \/ (pc[u] \in Sweeping /\ j \in list[u])
  BY <1>1 DEF OthersStay
<1>4. \A u \in Threads : pc'[u] \in {"open", "claim", "take", "print"} /\ cur'[u] = j =>
        pc'[u] = pc[u] /\ cur[u] = j /\ left'[u] = left[u]
  BY <1>1, <1>2 DEF OthersStay
<1>5. QED
  BY <1>1, <1>3, <1>4, CalmStep

\* move_job of the job itself: what is taken or rejected leaves the inbox, the
\* other moves begin in processing/.
LEMMA MoveFileKeepsOnce ==
  ASSUME Types, SweepsAlone, NEW t \in Threads, MoveFile(t),
         NEW j \in Jobs, j = cur[t], Once(j)
  PROVE  Once(j)'
<1>1. /\ Work(t) /\ ~NextJob(t) /\ ~EndSweep(t) /\ pc[t] \in Moves
      /\ UNCHANGED <<copy, result, ledger, list, pc, cur, verdict, printed>>
  BY DEF MoveFile, Work, NextJob, EndSweep, Moves
<1>2. PICK f \in left[t] :
        /\ left' = [left EXCEPT ![t] = @ \ {f}]
        /\ IF f \in In(j, From(pc[t]))
           THEN at' = [at EXCEPT ![j] = (@ \ {<<From(pc[t]), f>>}) \cup {<<To(pc[t]), f>>}]
           ELSE UNCHANGED at
  BY DEF MoveFile
<1>3. (Refused(j)' <=> Refused(j)) /\ (Known(j)' <=> Known(j))
  BY <1>1 DEF Refused, Known
<1>4. f \in Files /\ To(pc[t]) # "inbox" /\ left'[t] = left[t] \ {f}
  BY <1>2 DEF To, Types, TypeOK
<1>5. \/ at'[j] = at[j] /\ f \notin In(j, From(pc[t]))
      \/ at'[j] = (at[j] \ {<<From(pc[t]), f>>}) \cup {<<To(pc[t]), f>>}
  BY <1>2 DEF Types, TypeOK
<1>6. InInbox(j) <=> <<"inbox", "payload">> \in at[j]
  BY DEF InInbox, In, Files
<1>7. InInbox(j)' <=> <<"inbox", "payload">> \in at'[j]
  BY DEF InInbox, In, Files
<1>8. InInbox(j)' => InInbox(j)
  BY <1>4, <1>5, <1>6, <1>7
<1>9. CASE pc[t] \in {"recover", "stray", "shelve", "drop"}
  <2>1. From(pc[t]) = "processing"
    BY <1>9 DEF From
  <2>2. InInbox(j)' <=> InInbox(j)
    BY <1>4, <1>5, <1>6, <1>7, <2>1
  <2>3. pc'[t] \notin {"open", "claim", "take", "print"}
    BY <1>1, <1>9
  <2>4. QED
    BY <1>1, <1>3, <2>2, <2>3, CalmWork
<1>10. CASE pc[t] \in {"take", "reject"}
  <2>1. From(pc[t]) = "inbox" /\ pc[t] \in Sweeping
    BY <1>10 DEF From, Sweeping
  <2>2. f = "payload" => ~InInbox(j)'
    <3>1. In(j, "inbox") = {g \in Files : <<"inbox", g>> \in at[j]}
      BY DEF In
    <3>2. QED
      BY <1>4, <1>5, <1>7, <2>1, <3>1
  <2>3. OthersStay(t)
    BY <1>1, OthersAreStill
  <2>4. pc'[t] = "take" => "payload" \in left'[t] \/ ~InInbox(j)'
    BY <1>1, <1>4, <1>8, <2>2 DEF Once, Placed
  <2>5. MayPrint(t, j)' => ~Refused(j)'
    BY <1>1, <1>3 DEF Once, Placed, MayPrint, Cleared
  <2>6. printed'[j] > 0 => ~InInbox(j)' /\ ~Refused(j)'
    BY <1>1, <1>3, <1>8 DEF Once
  <2>7. Refused(j)' => Barred(j)'
    BY <1>1, <1>3, <1>8 DEF Once, Barred
  <2>8. pc'[t] \notin {"open", "claim", "print"}
    BY <1>1, <1>10
  <2>9. QED
    BY <1>1, <2>1, <2>3, <2>4, <2>5, <2>6, <2>7, <2>8, OwnStep
<1>11. QED
  BY <1>1, <1>9, <1>10 DEF Moves

\* The end of a move: the print follows once the payload is taken.
LEMMA MoveEndKeepsOnce ==
  ASSUME Types, SweepsAlone, NEW t \in Threads, MoveEnds(t) \/ MoveFails(t),
         NEW j \in Jobs, j = cur[t], Once(j)
  PROVE  Once(j)'
<1>0. NoJob # j
  BY ConstantsAssumption
<1>1. /\ Work(t) /\ ~NextJob(t) /\ ~EndSweep(t) /\ pc[t] \in Moves
      /\ UNCHANGED <<at, copy, result, ledger, list, printed>>
  BY DEF MoveEnds, MoveFails, Work, NextJob, EndSweep, Moves, shareVars
<1>2. OthersStay(t)
  BY <1>1, OthersAreStill
<1>3. (InInbox(j)' <=> InInbox(j)) /\ (Known(j)' <=> Known(j))
  BY <1>1 DEF InInbox, In, Known
<1>4. \/ pc[t] \in {"reject", "shelve", "drop"} /\ (Release(t, "sweep") \/ Proceed(t, "answer"))
      \/ pc[t] = "take" /\ left[t] = {} /\ Proceed(t, "print")
      \/ pc[t] = "take" /\ Proceed(t, "fail")
      \/ pc[t] = "recover" /\ Proceed(t, "orphan")
      \/ pc[t] = "stray" /\ Release(t, "strays")
  BY DEF MoveEnds, MoveFails, AfterReject, AfterShelving, CannotTake, Dismiss
<1>5. \/ cur'[t] = NoJob
      \/ cur'[t] = cur[t] /\ verdict'[t] = verdict[t]
  BY <1>4 DEF Release, Proceed, Types, TypeOK
<1>6. Refused(j)' => Refused(j)
  BY <1>0, <1>1, <1>2, <1>5 DEF Refused, OthersStay
<1>7. CASE pc[t] = "take" /\ left[t] = {} /\ Proceed(t, "print")
  <2>1. pc'[t] = "print" /\ cur'[t] = j
    BY <1>7 DEF Proceed, Goto, Types, TypeOK
  <2>2. ~InInbox(j)
    BY <1>7 DEF Once, Placed
  <2>3. ~Refused(j)
    BY <1>7 DEF Once, Placed, MayPrint, Cleared
  <2>4. pc[t] \in Sweeping
    BY <1>7 DEF Sweeping
  <2>5. QED
    BY <1>1, <1>2, <1>3, <1>6, <2>1, <2>2, <2>3, <2>4, OwnStep DEF Barred
<1>8. CASE \E label : (Release(t, label) \/ Proceed(t, label))
                      /\ label \notin {"open", "claim", "take", "print"}
  <2>1. pc'[t] \notin {"open", "claim", "take", "print"}
    BY <1>8 DEF Release, Proceed, Goto, Types, TypeOK
  <2>2. QED
    BY <1>1, <1>3, <1>6, <2>1, CalmWork
<1>9. QED
  BY <1>4, <1>7, <1>8

\* The checks of handle: what they refuse is refused because the agent knows the
\* job or its one copy is bad, and what passes is a whole copy of an unknown job.
LEMMA OpenKeepsOnce ==
  ASSUME Types, SweepsAlone, NEW t \in Threads, Open(t) \/ OpenRaises(t),
         NEW j \in Jobs, j = cur[t], Once(j)
  PROVE  Once(j)'
<1>0. NoJob # j
  BY ConstantsAssumption
<1>1. /\ Work(t) /\ ~NextJob(t) /\ ~EndSweep(t) /\ pc[t] = "open" /\ pc[t] \in Sweeping
      /\ UNCHANGED <<at, copy, result, ledger, list, printed>>
  BY DEF Open, OpenRaises, Work, NextJob, EndSweep, Sweeping, shareVars
<1>2. OthersStay(t)
  BY <1>1, OthersAreStill
<1>3. (InInbox(j)' <=> InInbox(j)) /\ (Known(j)' <=> Known(j)) /\ (Barred(j)' <=> Barred(j))
  BY <1>1 DEF InInbox, In, Known, Barred
<1>4. InInbox(j)
  BY <1>1 DEF Once, Placed
<1>5. CASE Release(t, "sweep") \/ (Reject(t, "none") /\ UNCHANGED cur)
  <2>1. pc'[t] \in {"sweep", "reject"} /\ (cur'[t] = NoJob \/ verdict'[t] = "none")
    BY <1>5 DEF Release, Reject, BeginMove, Goto, Types, TypeOK
  <2>2. Refused(j)' => Refused(j)
    BY <1>0, <1>1, <1>2, <2>1 DEF Refused, OthersStay
  <2>3. QED
    BY <1>1, <1>3, <2>1, <2>2, CalmWork
<1>6. CASE /\ Reject(t, "rejected") /\ UNCHANGED cur
           /\ copy[j].sidecar = "invalid" \/ Known(j) \/ copy[j].payload = "cut"
  <2>1. pc'[t] = "reject"
    BY <1>6 DEF Reject, BeginMove, Goto, Types, TypeOK
  <2>2. Barred(j)
    BY <1>6 DEF Barred
  <2>3. ~(printed[j] > 0)
    BY <1>4 DEF Once
  <2>4. QED
    BY <1>1, <1>2, <1>3, <2>1, <2>2, <2>3, OwnStep DEF MayPrint, Cleared
<1>7. CASE /\ Proceed(t, "claim") /\ ~Known(j)
           /\ copy[j].sidecar = "good" /\ copy[j].payload = "whole"
  <2>1. pc'[t] = "claim" /\ UNCHANGED <<cur, verdict>>
    BY <1>7 DEF Proceed, Goto, Types, TypeOK
  <2>2. copy[j] = [sidecar |-> "good", payload |-> "whole"]
    BY <1>7 DEF Types, TypeOK
  <2>3. (Refused(j)' <=> Refused(j)) /\ (Refused(j) => Barred(j)) /\ ~(printed[j] > 0)
    BY <1>1, <1>4, <2>1 DEF Refused, Once
  <2>4. QED
    BY <1>1, <1>2, <1>3, <1>4, <2>1, <2>2, <2>3, OwnStep DEF MayPrint, Cleared
<1>8. \/ Release(t, "sweep") \/ (Reject(t, "none") /\ UNCHANGED cur)
      \/ /\ Reject(t, "rejected") /\ UNCHANGED cur
         /\ copy[j].sidecar = "invalid" \/ Known(j) \/ copy[j].payload = "cut"
      \/ /\ Proceed(t, "claim") /\ ~Known(j)
         /\ copy[j].sidecar = "good" /\ copy[j].payload = "whole"
  BY DEF Open, OpenRaises, Dismiss
<1>9. QED
  BY <1>5, <1>6, <1>7, <1>8

\* The claim: a job that has no row and came whole was not refused.
LEMMA ClaimKeepsOnce ==
  ASSUME Types, SweepsAlone, NEW t \in Threads, Claim(t),
         NEW j \in Jobs, j = cur[t], Once(j)
  PROVE  Once(j)'
<1>1. /\ Work(t) /\ ~NextJob(t) /\ ~EndSweep(t) /\ pc[t] = "claim" /\ pc[t] \in Sweeping
      /\ UNCHANGED <<at, copy, result, list, cur, printed>>
  BY DEF Claim, Work, NextJob, EndSweep, Sweeping, shareVars
<1>2. OthersStay(t)
  BY <1>1, OthersAreStill
<1>3. InInbox(j)' <=> InInbox(j)
  BY <1>1 DEF InInbox, In
<1>4. InInbox(j) /\ copy[j] = [sidecar |-> "good", payload |-> "whole"] /\ ~(printed[j] > 0)
  BY <1>1 DEF Once, Placed
<1>5. CASE Known(j)
  <2>1. Reject(t, "rejected") /\ UNCHANGED ledger
    BY <1>5 DEF Claim
  <2>2. pc'[t] = "reject" /\ Known(j)'
    BY <1>5, <2>1 DEF Reject, BeginMove, Goto, Known, Types, TypeOK
  <2>3. QED
    BY <1>1, <1>2, <1>4, <2>2, OwnStep DEF MayPrint, Cleared, Barred
<1>6. CASE ~Known(j)
  <2>1. /\ BeginMove(t, j, "take") /\ verdict' = [verdict EXCEPT ![t] = "failed"]
        /\ ledger' = [ledger EXCEPT ![j] = "claimed"]
    BY <1>6 DEF Claim
  <2>2. pc'[t] = "take" /\ left'[t] = In(j, "inbox") /\ verdict'[t] = "failed"
    BY <2>1 DEF BeginMove, Goto, From, Types, TypeOK
  <2>3. "payload" \in left'[t]
    BY <1>4, <2>2 DEF InInbox
  <2>4. ~Refused(j)
    BY <1>4, <1>6 DEF Once, Barred
  <2>5. ~Refused(j)'
    BY <1>1, <1>2, <2>2, <2>4 DEF Refused, OthersStay
  <2>6. QED
    BY <1>1, <1>2, <1>4, <2>2, <2>3, <2>5, OwnStep
<1>7. QED
  BY <1>5, <1>6

\* The print, which a job reaches once its payload has left the inbox.
LEMMA PrintKeepsOnce ==
  ASSUME Types, SweepsAlone, NEW t \in Threads, PrintJob(t) \/ PrintRaises(t),
         NEW j \in Jobs, j = cur[t], Once(j)
  PROVE  Once(j)'
<1>1. /\ Work(t) /\ ~NextJob(t) /\ ~EndSweep(t) /\ pc[t] = "print" /\ pc[t] \in Sweeping
      /\ UNCHANGED <<at, copy, result, ledger, list, cur>>
      /\ Goto(t, "mark") /\ verdict' \in {verdict, [verdict EXCEPT ![t] = "success"]}
  BY DEF PrintJob, PrintRaises, Work, NextJob, EndSweep, Sweeping, shareVars
<1>2. OthersStay(t)
  BY <1>1, OthersAreStill
<1>3. InInbox(j)' <=> InInbox(j)
  BY <1>1 DEF InInbox, In
<1>4. ~InInbox(j) /\ ~Refused(j)
  BY <1>1 DEF Once, Placed, MayPrint, Cleared
<1>5. pc'[t] = "mark" /\ verdict'[t] \in {verdict[t], "success"}
  BY <1>1 DEF Goto, Types, TypeOK
<1>6. ~Refused(j)'
  BY <1>1, <1>2, <1>4, <1>5 DEF Refused, OthersStay
<1>7. QED
  BY <1>1, <1>2, <1>3, <1>4, <1>5, <1>6, OwnStep DEF MayPrint, Cleared

\* The rows and the result after it, and those of a job that is recovered.
LEMMA RecordKeepsOnce ==
  ASSUME Types, NEW t \in Threads, Mark(t) \/ MarkFailed(t) \/ Answer(t),
         NEW j \in Jobs, j = cur[t], Once(j)
  PROVE  Once(j)'
<1>0. NoJob # j
  BY ConstantsAssumption
<1>1. /\ Work(t) /\ ~NextJob(t) /\ ~EndSweep(t)
      /\ UNCHANGED <<at, copy, list, printed>>
  BY DEF Mark, MarkFailed, Answer, Work, NextJob, EndSweep, shareVars
<1>2. OthersStay(t)
  BY <1>1, OthersAreStill
<1>3. InInbox(j)' <=> InInbox(j)
  BY <1>1 DEF InInbox, In
<1>4. CASE Mark(t) \/ MarkFailed(t)
  <2>1. /\ UNCHANGED <<result, verdict, cur>>
        /\ \E label \in {"shelve", "drop", "answer", "inform"} : Goto(t, label)
        /\ \E row \in {"done", "failed"} : ledger' = [ledger EXCEPT ![j] = row]
    BY <1>4 DEF Mark, MarkFailed, BeginMove, Proceed, shareVars
  <2>2. pc'[t] \notin {"open", "claim", "take", "print"}
    BY <2>1 DEF Goto, Types, TypeOK
  <2>3. Refused(j)' => Refused(j)
    BY <2>1 DEF Refused
  <2>4. Known(j)'
    BY <2>1 DEF Known, Types, TypeOK
  <2>5. QED
    BY <1>1, <1>3, <2>2, <2>3, <2>4, CalmWork
<1>5. CASE Answer(t)
  <2>1. /\ UNCHANGED ledger /\ result' \in {result, [result EXCEPT ![j] = verdict[t]]}
        /\ Release(t, "sweep") \/ Release(t, "orphans")
    BY <1>5 DEF Answer
  <2>2. pc'[t] \notin {"open", "claim", "take", "print"} /\ cur'[t] = NoJob
    BY <2>1 DEF Release, Goto, Types, TypeOK
  <2>3. result'[j] = "rejected" => Refused(j)
    BY <2>1 DEF Refused, Types, TypeOK
  <2>4. Refused(j)' => Refused(j)
    BY <1>0, <1>2, <2>2, <2>3 DEF Refused, OthersStay
  <2>5. QED
    BY <1>1, <1>3, <2>1, <2>2, <2>4, CalmWork DEF Known
<1>6. QED
  BY <1>4, <1>5

LEMMA WorkKeepsOnce ==
  ASSUME Types, SweepsAlone, NEW t \in Threads, BeginSweep(t) \/ Work(t),
         NEW j \in Jobs, Once(j)
  PROVE  Once(j)'
BY SweepKeepsOnce, OtherJob, MoveFileKeepsOnce, MoveEndKeepsOnce, OpenKeepsOnce,
   ClaimKeepsOnce, PrintKeepsOnce, RecordKeepsOnce DEF Work

\* Start-up: what is recovered lies in processing/, and a row is pruned only when
\* no copy of its job is in the inbox.
LEMMA StartKeepsOnce ==
  ASSUME LateCopies = FALSE, Types, SweepsAlone,
         Start \/ (Preflight /\ ~StrayMoveFails) \/ Observe,
         NEW j \in Jobs, Once(j)
  PROVE  Once(j)'
<1>0. Main \in Threads /\ Watcher \in Threads /\ NoJob # j
  BY ConstantsAssumption DEF Threads
<1>1. CASE Start \/ OrphansDone \/ Observe
  <2>1. /\ UNCHANGED <<at, copy, result, ledger, printed, cur, left, verdict>>
        /\ \E t \in Threads, label \in {"orphans", "strays", "idle"} :
              Goto(t, label) /\ \A u \in Threads \ {t} : list'[u] = list[u]
    BY <1>0, <1>1 DEF Start, OrphansDone, Observe, shareVars, Types, TypeOK
  <2>2. PICK t \in Threads, label \in {"orphans", "strays", "idle"} :
          Goto(t, label) /\ \A u \in Threads \ {t} : list'[u] = list[u]
    BY <2>1
  <2>3. \A u \in Threads : pc'[u] = IF u = t THEN label ELSE pc[u]
    BY <2>2 DEF Goto, Types, TypeOK
  <2>4. Refused(j)' => Refused(j)
    BY <2>1 DEF Refused
  <2>5. (InInbox(j)' <=> InInbox(j)) /\ (Known(j)' <=> Known(j))
    BY <2>1 DEF InInbox, In, Known
  <2>6. \A u \in Threads : pc'[u] \in Sweeping => u # t
    BY <2>3 DEF Sweeping
  <2>7. \A u \in Threads : pc'[u] \in {"open", "claim", "take", "print"} => u # t
    BY <2>3
  <2>8. \A u \in Threads : pc'[u] \in Sweeping /\ j \in list'[u] =>
          InInbox(j) \/ (pc[u] \in Sweeping /\ j \in list[u])
    BY <2>2, <2>3, <2>6
  <2>9. \A u \in Threads : pc'[u] \in {"open", "claim", "take", "print"} /\ cur'[u] = j =>
          pc'[u] = pc[u] /\ cur[u] = j /\ left'[u] = left[u]
    BY <2>1, <2>3, <2>7
  <2>10. QED
    BY <2>1, <2>4, <2>5, <2>8, <2>9, CalmStep
<1>2. CASE NextOrphan \/ NextStray
  <2>1. /\ UNCHANGED <<at, copy, result, ledger, printed>>
        /\ pc[Main] \in {"orphans", "strays"}
        /\ pc' \in {[pc EXCEPT ![Main] = "recover"], [pc EXCEPT ![Main] = "stray"]}
        /\ \A u \in Threads \ {Main} :
             /\ list'[u] = list[u] /\ cur'[u] = cur[u] /\ verdict'[u] = verdict[u]
             /\ left'[u] = left[u]
        /\ verdict'[Main] \in {verdict[Main], "failed"}
    BY <1>0, <1>2 DEF NextOrphan, NextStray, BeginMove, Goto, shareVars, Types, TypeOK
  <2>2. cur[Main] = NoJob
    BY <1>0, <2>1 DEF Types, TypeOK, Handling, Moves
  <2>3. verdict'[Main] # "rejected"
    BY <1>0, <2>1, <2>2 DEF SweepsAlone
  <2>4. Refused(j)' => Refused(j)
    BY <2>1, <2>3 DEF Refused
  <2>5. (InInbox(j)' <=> InInbox(j)) /\ (Known(j)' <=> Known(j))
    BY <2>1 DEF InInbox, In, Known
  <2>6. pc'[Main] \in {"recover", "stray"} /\ \A u \in Threads \ {Main} : pc'[u] = pc[u]
    BY <1>0, <2>1 DEF Types, TypeOK
  <2>7. \A u \in Threads : pc'[u] \in Sweeping \/ pc'[u] \in {"open", "claim", "take", "print"}
                             => u # Main
    BY <2>6 DEF Sweeping
  <2>8. QED
    BY <2>1, <2>4, <2>5, <2>6, <2>7, CalmStep
<1>3. CASE EndPreflight
  <2>1. /\ UNCHANGED <<copy, result, printed, cur, left, verdict>>
        /\ pc' = [pc EXCEPT ![Main] = "sweep"]
        /\ list' = [list EXCEPT ![Main] = Inbox]
    BY <1>3 DEF EndPreflight, Goto
  <2>2. PICK old \in SUBSET {k \in Jobs : ledger[k] \in {"done", "failed"} /\ (LateCopies \/ Over(k))} :
          /\ ledger' = [k \in Jobs |-> IF k \in old THEN "none" ELSE ledger[k]]
          /\ at' = [k \in Jobs |-> IF k \in old THEN at[k] \ ({"done"} \X Files) ELSE at[k]]
    BY <1>3 DEF EndPreflight
  <2>3. InInbox(j)' <=> InInbox(j)
    BY <2>2 DEF InInbox, In
  <2>4. Known(j) => Known(j)' \/ ~InInbox(j)
    BY <2>2 DEF Known, Over, Inbox, InInbox
  <2>5. Refused(j)' => Refused(j)
    BY <2>1 DEF Refused
  <2>6. \A u \in Threads : /\ pc'[u] = IF u = Main THEN "sweep" ELSE pc[u]
                           /\ list'[u] = IF u = Main THEN Inbox ELSE list[u]
    BY <2>1 DEF Types, TypeOK
  <2>7. j \in Inbox => InInbox(j)
    BY DEF Inbox, InInbox
  <2>8. \A u \in Threads : pc'[u] \in Sweeping /\ j \in list'[u] =>
          InInbox(j) \/ (pc[u] \in Sweeping /\ j \in list[u])
    BY <2>6, <2>7
  <2>9. \A u \in Threads : pc'[u] \in {"open", "claim", "take", "print"} /\ cur'[u] = j =>
          pc'[u] = pc[u] /\ cur[u] = j /\ left'[u] = left[u]
    BY <2>1, <2>6
  <2>10. QED
    BY <2>1, <2>3, <2>4, <2>5, <2>8, <2>9, CalmStep
<1>4. QED
  BY <1>1, <1>2, <1>3 DEF Preflight

\* A death of the agent: of a job that the driver took the payload was in
\* processing/, and it was not refused.
LEMMA DeathKeepsOnce ==
  ASSUME Types, Crash \/ StrayMoveFails, NEW j \in Jobs, Once(j)
  PROVE  Once(j)'
<1>0. NoJob # j
  BY ConstantsAssumption
<1>1. Forget /\ UNCHANGED <<at, copy, result, ledger>>
  BY DEF Crash, StrayMoveFails, shareVars
<1>2. \A t \in Threads : pc'[t] = "down" /\ cur'[t] = NoJob
  BY <1>1 DEF Forget
<1>3. Refused(j)' => Refused(j)
  BY <1>0, <1>1, <1>2 DEF Refused
<1>4. (InInbox(j)' <=> InInbox(j)) /\ (Barred(j)' <=> Barred(j))
  BY <1>1 DEF InInbox, In, Barred, Known
<1>5. \A t \in Threads : Placed(t, j)'
  BY <1>2 DEF Placed, Sweeping, MayPrint, Cleared
<1>6. \/ printed'[j] = printed[j]
      \/ \E t \in Threads : pc[t] = "print" /\ cur[t] = j
  BY DEF Crash, StrayMoveFails, HandOver, Types, TypeOK
<1>7. ASSUME NEW t \in Threads, pc[t] = "print", cur[t] = j PROVE ~InInbox(j) /\ ~Refused(j)
  BY <1>7 DEF Once, Placed, MayPrint, Cleared
<1>8. printed'[j] > 0 => ~InInbox(j)' /\ ~Refused(j)'
  BY <1>3, <1>4, <1>6, <1>7 DEF Once
<1>9. QED
  BY <1>3, <1>4, <1>5, <1>8 DEF Once

\* A copy of k comes: the first one, of which the agent knew nothing, or one more.
LEMMA ArrivalKeepsOnce ==
  ASSUME Types, NothingBeforeArrival, OnceInv, NEW k \in Jobs, Arrive(k)
  PROVE  OnceInv'
<1>1. /\ UNCHANGED <<result, ledger, printed, pc, list, cur, left, verdict>>
      /\ \A j \in Jobs \ {k} :
            at'[j] = at[j] /\ copy'[j] = copy[j] /\ arrivals'[j] = arrivals[j]
      /\ arrivals'[k] = arrivals[k] + 1 /\ arrivals[k] \in Nat
  BY DEF Arrive, memoryVars, Types, TypeOK
<1>2. ASSUME NEW j \in Jobs \ {k}, arrivals'[j] = 1 PROVE Once(j)'
  <2>1. Once(j)
    BY <1>1, <1>2 DEF OnceInv
  <2>2. /\ InInbox(j)' <=> InInbox(j)
        /\ Known(j)' <=> Known(j)
        /\ Refused(j)' <=> Refused(j)
    BY <1>1 DEF InInbox, In, Known, Refused
  <2>3. QED
    BY <1>1, <2>1, <2>2, CalmStep
<1>3. ASSUME arrivals'[k] = 1 PROVE Once(k)'
  <2>1. arrivals[k] = 0
    BY <1>1, <1>3
  <2>2. /\ result[k] = "none" /\ printed[k] = 0
        /\ \A t \in Threads : cur[t] # k /\ k \notin list[t]
    BY <2>1 DEF NothingBeforeArrival
  <2>3. ~Refused(k)' /\ ~(printed'[k] > 0)
    BY <1>1, <2>2 DEF Refused
  <2>4. \A t \in Threads : Placed(t, k)'
    BY <1>1, <2>2 DEF Placed, MayPrint
  <2>5. QED
    BY <2>3, <2>4 DEF Once
<1>4. QED
  BY <1>2, <1>3 DEF OnceInv

LEMMA OnceKept ==
  ASSUME LateCopies = FALSE, Types, DeliveryInv, Next
  PROVE  OnceInv'
<1>1. CASE \E k \in Jobs : Arrive(k)
  BY <1>1, ArrivalKeepsOnce DEF DeliveryInv
<1>2. ASSUME UNCHANGED arrivals, \A j \in Jobs : Once(j) => Once(j)' PROVE OnceInv'
  BY <1>2 DEF DeliveryInv, OnceInv
<1>3. CASE Settle
  BY <1>2, <1>3 DEF Settle, shareVars, memoryVars, ghostVars, Once, Placed, InInbox, In, Known,
                    Refused, Barred, MayPrint, Cleared
<1>4. CASE Crash \/ StrayMoveFails
  BY <1>2, <1>4, DeathKeepsOnce DEF Crash, StrayMoveFails
<1>5. CASE Start \/ (Preflight /\ ~StrayMoveFails) \/ Observe
  <2>1. UNCHANGED arrivals
    BY <1>5 DEF Start, Preflight, NextOrphan, OrphansDone, NextStray, EndPreflight, Observe,
                ghostVars
  <2>2. QED
    BY <1>2, <1>5, <2>1, StartKeepsOnce DEF DeliveryInv
<1>6. CASE \E t \in Threads : BeginSweep(t) \/ Work(t)
  <2>1. UNCHANGED arrivals
    BY <1>6, OneJobTouched
  <2>2. QED
    BY <1>2, <1>6, <2>1, WorkKeepsOnce DEF DeliveryInv
<1>7. QED
  BY <1>1, <1>3, <1>4, <1>5, <1>6 DEF Next, Preflight

-----------------------------------------------------------------------------
(* The theorem.                                                            *)

LEMMA DeliveryInit == Init => DeliveryInv
<1> SUFFICES ASSUME Init PROVE DeliveryInv
  OBVIOUS
<1>1. \A t \in Threads : pc[t] = "down" /\ cur[t] = NoJob /\ verdict[t] = "none" /\ list[t] = {}
  BY DEF Init
<1>2. NoJob \notin Jobs
  BY ConstantsAssumption
<1>3. SweepsAlone
  BY <1>1 DEF SweepsAlone, Sweeping
<1>4. NothingBeforeArrival
  BY <1>1, <1>2 DEF Init, NothingBeforeArrival
<1>5. \A j \in Jobs : arrivals[j] = 0
  BY DEF Init
<1>6. OnceInv
  BY <1>5 DEF OnceInv
<1>7. QED
  BY <1>3, <1>4, <1>6 DEF DeliveryInv

\* A job delivered once is not both printed and reported as rejected, for any
\* number of jobs, failures and deaths of the agent: the two sweeping threads
\* share one lock and one listing is walked at a time (_sweeping, iter_inbox_jobs),
\* the payload leaves the inbox before the print (handle), and a row is pruned only
\* when no copy is to come (Ledger.prune).
THEOREM NeverPrintedAndRejected ==
  ASSUME LateCopies = FALSE
  PROVE  Spec => []PrintedNotRejected
<1> DEFINE J == Types /\ IInv /\ DeliveryInv
<1>1. Init => J
  BY TypesInit, IInvInductive, DeliveryInit
<1>2. ASSUME J, [Next]_vars PROVE J'
  <2>1. Types' /\ IInv'
    BY <1>2, TypesInductive, IInvInductive
  <2>2. CASE Next
    BY <1>2, <2>1, <2>2, SweepsAloneKept, NothingKept, OnceKept DEF DeliveryInv, IInv
  <2>3. CASE UNCHANGED vars
    BY <1>2, <2>1, <2>3
       DEF vars, DeliveryInv, SweepsAlone, NothingBeforeArrival, OnceInv, Once, Placed, InInbox,
           In, Known, Refused, Barred, MayPrint, Cleared
  <2>4. QED
    BY <1>2, <2>2, <2>3
<1>3. J => PrintedNotRejected
  <2>1. ASSUME J, NEW j \in Jobs, printed[j] > 0, arrivals[j] = 1 PROVE result[j] # "rejected"
    BY <2>1 DEF DeliveryInv, OnceInv, Once, Refused
  <2>2. QED
    BY <2>1 DEF PrintedNotRejected
<1> HIDE DEF J
<1>4. QED
  BY <1>1, <1>2, <1>3, PTL DEF Spec

-----------------------------------------------------------------------------
(* A job without a result.  Only the thread that handles a job brings it   *)
(* to an end, one thread at a time does (SweepsAlone), and what it prints  *)
(* is still claimed (ClaimInHand): a step leaves one job at most without   *)
(* its result, and only as a failure.                                      *)

\* What a thread takes out of the inbox and prints is claimed.
ClaimInHand == \A t \in Threads : pc[t] \in {"take", "print"} => ledger[cur[t]] = "claimed"

\* Where a thread is about to give the result of its job.
Telling == {"shelve", "drop", "answer", "inform"}

\* One thread at a time prints or is about to give a result.
LEMMA OneTells ==
  ASSUME Types, AloneAtStart, SweepsAlone, NEW t \in Threads, NEW u \in Threads,
         pc[t] \in Telling \cup {"print"}, pc[u] \in Telling \cup {"print"}
  PROVE  t = u
BY ConstantsAssumption DEF AloneAtStart, SweepsAlone, Sweeping, StartUp, Telling, Threads

LEMMA ClaimInHandKept ==
  ASSUME Types, AloneAtStart, SweepsAlone, ClaimInHand, [Next]_vars
  PROVE  ClaimInHand'
<1>t. Threads = {Main, Watcher} /\ Main # Watcher /\ NoJob \notin Jobs
  BY ConstantsAssumption DEF Threads
<1>1. ASSUME NEW t \in Threads, Work(t) \/ BeginSweep(t) PROVE ClaimInHand'
  <2>1. OthersStay(t)
    BY <1>1, OthersAreStill
  <2>2. ASSUME NEW u \in Threads, u # t, pc'[u] \in {"take", "print"}
        PROVE  ledger'[cur'[u]] = "claimed"
    <3>1. pc[u] \in {"take", "print"} /\ cur'[u] = cur[u] /\ ledger[cur[u]] = "claimed"
      BY <2>1, <2>2 DEF OthersStay, ClaimInHand
    <3>2. cur[u] \in Jobs
      BY <3>1, JobInHand DEF Types, Handling, Moves
    <3>3. pc[t] \notin Sweeping /\ pc[t] # "orphan"
      BY <1>t, <2>2, <3>1 DEF SweepsAlone, Sweeping, AloneAtStart, StartUp
    <3>4. ledger' = ledger
      BY <1>1, <3>3 DEF Work, BeginSweep, MoveFile, MoveEnds, MoveFails, NextJob, EndSweep, Open,
           OpenRaises, Claim, PrintJob, PrintRaises, Mark, MarkFailed, Answer, Sweeping
    <3>5. QED
      BY <3>1, <3>4
  <2>3. ASSUME pc'[t] \in {"take", "print"} PROVE ledger'[cur'[t]] = "claimed"
    <3>g. ASSUME NEW label, Goto(t, label) PROVE pc'[t] = label
      BY <3>g DEF Goto, Types, TypeOK
    <3>1. CASE BeginSweep(t) \/ NextJob(t) \/ EndSweep(t) \/ Answer(t)
      BY <2>3, <3>1, <3>g DEF BeginSweep, NextJob, EndSweep, Answer, Release
    <3>2. CASE Open(t) \/ OpenRaises(t)
      BY <2>3, <3>2, <3>g DEF Open, OpenRaises, Reject, BeginMove, Proceed, Dismiss, Release
    <3>3. CASE PrintJob(t) \/ PrintRaises(t) \/ Mark(t) \/ MarkFailed(t)
      BY <2>3, <3>3, <3>g DEF PrintJob, PrintRaises, Mark, MarkFailed, BeginMove, Proceed
    <3>4. CASE MoveFile(t)
      BY <2>3, <3>4 DEF MoveFile, ClaimInHand
    <3>5. CASE MoveEnds(t) \/ MoveFails(t)
      <4>1. /\ ledger' = ledger
            /\ \/ pc[t] = "take" /\ Proceed(t, "print")
               \/ \E label \in {"answer", "sweep", "fail", "orphan", "strays"} : Goto(t, label)
        BY <3>5 DEF MoveEnds, MoveFails, AfterReject, AfterShelving, CannotTake, Dismiss, Release,
                    Proceed
      <4>2. pc[t] = "take" /\ cur' = cur
        BY <2>3, <3>g, <4>1 DEF Proceed
      <4>3. QED
        BY <4>1, <4>2 DEF ClaimInHand
    <3>6. CASE Claim(t)
      <4>1. ~Known(cur[t])
        BY <2>3, <3>6, <3>g DEF Claim, Reject, BeginMove
      <4>2. cur' = cur /\ ledger' = [ledger EXCEPT ![cur[t]] = "claimed"] /\ cur[t] \in Jobs
        BY <3>6, <4>1, JobInHand DEF Claim, Types, Handling
      <4>3. QED
        BY <4>2 DEF Types, TypeOK
    <3>7. QED
      BY <1>1, <3>1, <3>2, <3>3, <3>4, <3>5, <3>6 DEF Work
  <2>4. QED
    BY <2>2, <2>3 DEF ClaimInHand
<1>2. ASSUME Start \/ OrphansDone \/ NextOrphan \/ NextStray \/ EndPreflight \/ Observe
      PROVE  ClaimInHand'
  <2>1. CASE Observe
    <3>1. Goto(Watcher, "idle") /\ UNCHANGED <<cur, ledger>>
      BY <2>1 DEF Observe
    <3>2. QED
      BY <3>1 DEF Goto, ClaimInHand, Types, TypeOK
  <2>2. CASE ~Observe
    <3>1. /\ pc[Main] \in StartUp
          /\ \E label \in {"orphans", "recover", "stray", "strays", "sweep"} : Goto(Main, label)
      BY <1>2, <2>2 DEF Start, OrphansDone, NextOrphan, NextStray, EndPreflight, BeginMove, StartUp
    <3>2. pc[Watcher] = "down"
      BY <3>1 DEF AloneAtStart
    <3>3. \A u \in Threads : pc'[u] \notin {"take", "print"}
      BY <1>t, <3>1, <3>2 DEF Goto, Types, TypeOK
    <3>4. QED
      BY <3>3 DEF ClaimInHand
  <2>3. QED
    BY <2>1, <2>2
<1>3. ASSUME Crash \/ StrayMoveFails PROVE ClaimInHand'
  BY <1>3 DEF Crash, StrayMoveFails, Forget, ClaimInHand
<1>4. ASSUME (\E j \in Jobs : Arrive(j)) \/ Settle \/ UNCHANGED vars PROVE ClaimInHand'
  BY <1>4 DEF Arrive, Settle, vars, memoryVars, ClaimInHand
<1>5. QED
  BY <1>1, <1>2, <1>3, <1>4 DEF Next, Preflight

\* Steps that end no job and lose no result.
LEMMA NobodySilenced ==
  ASSUME \A j \in Jobs :
           /\ ledger'[j] # "claimed" => ledger[j] # "claimed"
           /\ ledger'[j] \in {"done", "failed"} => ledger[j] \in {"done", "failed"}
           /\ printed'[j] = printed[j] /\ result'[j] = result[j]
           /\ Answering(j) => Answering(j)'
  PROVE  Unanswered' \subseteq Unanswered
BY DEF Unanswered

\* A step of a thread ends its own job at most.
LEMMA OnlyItsOwn ==
  ASSUME Types, NEW t \in Threads, BeginSweep(t) \/ Work(t)
  PROVE  Unanswered' \subseteq Unanswered \cup {cur[t]}
<1>1. OthersStay(t)
  BY OthersAreStill
<1>2. ASSUME NEW j \in Jobs, j # cur[t], Answering(j) PROVE Answering(j)'
  BY <1>1, <1>2 DEF OthersStay, Answering
<1>3. QED
  BY <1>2, OneJobTouched DEF Unanswered

\* Failures are counted.
LEMMA FaultCounted ==
  ASSUME Types, NEW kind, Fault(kind)
  PROVE  faults \in Nat /\ faults' = faults + 1
BY ConstantsAssumption DEF Fault, Types, TypeOK

\* What a thread does without a failure leaves no job without its result.
LEMMA WorkTells ==
  ASSUME Types, ClaimInHand, NEW t \in Threads, BeginSweep(t) \/ Work(t),
         ~(\E kind : Fault(kind))
  PROVE  Unanswered' \subseteq Unanswered /\ faults' = faults
<1>o. OthersStay(t)
  BY OthersAreStill
<1>g. ASSUME NEW label, Goto(t, label) PROVE pc'[t] = label
  BY <1>g DEF Goto, Types, TypeOK
<1>f. faults' = faults
  BY DEF BeginSweep, Work, MoveFile, MoveEnds, MoveFails, NextJob, EndSweep, Open, OpenRaises,
         Claim, PrintJob, PrintRaises, Mark, MarkFailed, Answer, ghostVars
<1> SUFFICES Unanswered' \subseteq Unanswered
  BY <1>f
<1>q. ASSUME UNCHANGED <<result, ledger, printed>>, pc[t] \notin Telling
      PROVE  Unanswered' \subseteq Unanswered
  <2>1. ASSUME NEW j \in Jobs, Answering(j) PROVE Answering(j)'
    BY <1>o, <1>q, <2>1 DEF OthersStay, Answering, Telling
  <2>2. QED
    BY <1>q, <2>1, NobodySilenced
<1>a. ASSUME pc'[t] \in Telling, cur'[t] = cur[t] PROVE Unanswered' \subseteq Unanswered
  <2>1. cur[t] \notin Unanswered'
    BY <1>a DEF Unanswered, Answering, Telling
  <2>2. QED
    BY <2>1, OnlyItsOwn
<1>1. CASE BeginSweep(t) \/ NextJob(t) \/ EndSweep(t) \/ Open(t)
  BY <1>1, <1>q DEF BeginSweep, NextJob, EndSweep, Open, shareVars, Telling
<1>2. CASE MoveFile(t)
  BY <1>2, NobodySilenced DEF MoveFile, Answering
<1>3. CASE MoveEnds(t)
  <2>1. CASE pc[t] \in {"shelve", "drop"}
    <3>1. Goto(t, "answer") /\ cur' = cur
      BY <1>3, <2>1 DEF MoveEnds, AfterShelving, Proceed
    <3>2. QED
      BY <1>a, <1>g, <3>1 DEF Telling
  <2>2. CASE pc[t] \notin {"shelve", "drop"}
    BY <1>3, <1>q, <2>2 DEF MoveEnds, shareVars, Telling, Moves
  <2>3. QED
    BY <2>1, <2>2
<1>4. CASE Claim(t)
  <2>1. CASE Known(cur[t])
    BY <1>4, <1>q, <2>1 DEF Claim, shareVars, Telling
  <2>2. CASE ~Known(cur[t])
    <3>1. ledger' = [ledger EXCEPT ![cur[t]] = "claimed"]
      BY <1>4, <2>2 DEF Claim
    <3>2. cur[t] \notin Unanswered'
      BY <3>1 DEF Unanswered, Types, TypeOK
    <3>3. QED
      BY <3>2, OnlyItsOwn
  <2>3. QED
    BY <2>1, <2>2
<1>5. CASE PrintJob(t)
  <2>1. ledger'[cur[t]] = "claimed"
    BY <1>5 DEF PrintJob, ClaimInHand
  <2>2. cur[t] \notin Unanswered'
    BY <2>1 DEF Unanswered
  <2>3. QED
    BY <2>2, OnlyItsOwn
<1>6. CASE PrintRaises(t)
  BY <1>6, <1>q DEF PrintRaises, shareVars, Telling
<1>7. CASE Mark(t)
  <2>1. cur' = cur /\ (Goto(t, "shelve") \/ Goto(t, "drop"))
    BY <1>7 DEF Mark, BeginMove
  <2>2. QED
    BY <1>a, <1>g, <2>1 DEF Telling
<1>8. CASE MarkFailed(t)
  <2>1. cur' = cur /\ (Goto(t, "answer") \/ Goto(t, "inform"))
    BY <1>8 DEF MarkFailed, Proceed
  <2>2. QED
    BY <1>a, <1>g, <2>1 DEF Telling
<1>9. CASE Answer(t)
  <2>1. /\ pc[t] \in {"answer", "inform"}
        /\ result' = [result EXCEPT ![cur[t]] = verdict[t]]
    BY <1>9 DEF Answer
  <2>2. verdict[t] # "none"
    BY <2>1 DEF Types, TypeOK
  <2>3. cur[t] \notin Unanswered'
    BY <2>1, <2>2 DEF Unanswered, Types, TypeOK
  <2>4. QED
    BY <2>3, OnlyItsOwn
<1>10. QED
  BY <1>f, <1>1, <1>2, <1>3, <1>4, <1>5, <1>6, <1>7, <1>8, <1>9
     DEF Work, MoveFails, OpenRaises

\* A death of the agent leaves one job at most without its result.
LEMMA DeathSilencesOne ==
  ASSUME Types, AloneAtStart, SweepsAlone, ClaimInHand, Crash \/ StrayMoveFails
  PROVE  \E x : Unanswered' \subseteq Unanswered \cup {x}
<1>1. UNCHANGED <<result, ledger>>
  BY DEF Crash, StrayMoveFails, shareVars
<1>2. \A j \in Jobs :
        printed'[j] = printed[j] \/ \E t \in Threads : pc[t] = "print" /\ cur[t] = j
  BY DEF Crash, StrayMoveFails, HandOver, Types, TypeOK
<1>3. ASSUME NEW j \in Unanswered', j \notin Unanswered PROVE Answering(j)
  <2>1. j \in Jobs /\ ledger[j] # "claimed" /\ result[j] = "none"
    BY <1>1, <1>3 DEF Unanswered
  <2>2. printed'[j] = printed[j]
    BY <1>2, <2>1 DEF ClaimInHand
  <2>3. QED
    BY <1>1, <1>3, <2>1, <2>2 DEF Unanswered
<1>4. \A j, k : Answering(j) /\ Answering(k) => j = k
  BY OneTells DEF Answering, Telling
<1>5. CASE \E j : Answering(j)
  <2>1. PICK j : Answering(j)
    BY <1>5
  <2>2. Unanswered' \subseteq Unanswered \cup {j}
    BY <1>3, <1>4, <2>1
  <2>3. QED
    BY <2>2
<1>6. CASE ~\E j : Answering(j)
  BY <1>3, <1>6
<1>7. QED
  BY <1>5, <1>6

\* Start-up ends no job and loses no result.
LEMMA StartTells ==
  ASSUME Types, Start \/ OrphansDone \/ NextOrphan \/ NextStray \/ EndPreflight \/ Observe
  PROVE  Unanswered' \subseteq Unanswered
<1>t. Main \in Threads /\ Watcher \in Threads /\ Main # Watcher
  BY ConstantsAssumption DEF Threads
<1>1. UNCHANGED <<result, printed>>
  BY DEF Start, OrphansDone, NextOrphan, NextStray, EndPreflight, Observe, shareVars
<1>2. ASSUME NEW j \in Jobs
      PROVE  /\ ledger'[j] # "claimed" => ledger[j] # "claimed"
             /\ ledger'[j] \in {"done", "failed"} => ledger[j] \in {"done", "failed"}
  BY DEF Start, OrphansDone, NextOrphan, NextStray, EndPreflight, Observe, Types, TypeOK
<1>3. ASSUME NEW j \in Jobs, Answering(j) PROVE Answering(j)'
  <2>1. PICK t \in Threads : cur[t] = j /\ pc[t] \in Telling
    BY <1>3 DEF Answering, Telling
  <2>2. pc'[t] = pc[t] /\ cur'[t] = cur[t]
    BY <1>t, <2>1 DEF Start, OrphansDone, NextOrphan, NextStray, EndPreflight, Observe, BeginMove,
              Goto, Telling, Types, TypeOK
  <2>3. QED
    BY <2>1, <2>2 DEF Answering, Telling
<1>4. QED
  BY <1>1, <1>2, <1>3, NobodySilenced

\* One more in the set costs one failure.
LEMMA OneMore ==
  ASSUME NEW S, NEW T, NEW x, NEW k \in Nat, IsFiniteSet(S), Cardinality(S) <= k,
         T \subseteq S \cup {x}
  PROVE  IsFiniteSet(T) /\ Cardinality(T) <= k + 1
<1>0. Cardinality(S) \in Nat
  BY FS_CardinalityType
<1>1. /\ IsFiniteSet(S \cup {x})
      /\ Cardinality(S \cup {x}) = IF x \in S THEN Cardinality(S) ELSE Cardinality(S) + 1
  BY FS_AddElement
<1>2. IsFiniteSet(T) /\ Cardinality(T) <= Cardinality(S \cup {x})
  BY <1>1, FS_Subset
<1>3. Cardinality(T) \in Nat /\ Cardinality(S \cup {x}) \in Nat
  BY <1>1, <1>2, FS_CardinalityType
<1>4. QED
  BY <1>0, <1>1, <1>2, <1>3

LEMMA NoMore ==
  ASSUME NEW S, NEW T, NEW k \in Nat, IsFiniteSet(S), Cardinality(S) <= k, T \subseteq S
  PROVE  IsFiniteSet(T) /\ Cardinality(T) <= k
<1>1. IsFiniteSet(T) /\ Cardinality(T) <= Cardinality(S)
  BY FS_Subset
<1>2. Cardinality(T) \in Nat /\ Cardinality(S) \in Nat
  BY <1>1, FS_CardinalityType
<1>3. QED
  BY <1>1, <1>2

Silence == IsFiniteSet(Unanswered) /\ SilenceIsPaidFor

LEMMA SilenceKept ==
  ASSUME Types, AloneAtStart, SweepsAlone, ClaimInHand, Silence, [Next]_vars
  PROVE  Silence'
<1>t. faults \in Nat /\ IsFiniteSet(Unanswered) /\ Cardinality(Unanswered) <= faults
  BY ConstantsAssumption DEF Types, TypeOK, Silence, SilenceIsPaidFor
<1>q. ASSUME Unanswered' \subseteq Unanswered, faults' = faults PROVE Silence'
  <2>1. IsFiniteSet(Unanswered') /\ Cardinality(Unanswered') <= faults
    BY <1>t, <1>q, NoMore
  <2>2. QED
    BY <1>q, <2>1 DEF Silence, SilenceIsPaidFor
<1>f. ASSUME NEW x, Unanswered' \subseteq Unanswered \cup {x}, NEW kind, Fault(kind)
      PROVE  Silence'
  <2>1. IsFiniteSet(Unanswered') /\ Cardinality(Unanswered') <= faults + 1
    BY <1>t, <1>f, OneMore
  <2>2. faults' = faults + 1
    BY <1>f, FaultCounted
  <2>3. QED
    BY <2>1, <2>2 DEF Silence, SilenceIsPaidFor
<1>1. ASSUME NEW t \in Threads, BeginSweep(t) \/ Work(t) PROVE Silence'
  <2>1. CASE \E kind : Fault(kind)
    BY <1>1, <1>f, <2>1, OnlyItsOwn
  <2>2. CASE ~(\E kind : Fault(kind))
    BY <1>1, <1>q, <2>2, WorkTells
  <2>3. QED
    BY <2>1, <2>2
<1>2. CASE Crash \/ StrayMoveFails
  <2>1. \E kind : Fault(kind)
    BY <1>2 DEF Crash, StrayMoveFails
  <2>2. QED
    BY <1>2, <1>f, <2>1, DeathSilencesOne
<1>3. CASE Start \/ OrphansDone \/ NextOrphan \/ NextStray \/ EndPreflight \/ Observe
  <2>1. faults' = faults
    BY <1>3 DEF Start, OrphansDone, NextOrphan, NextStray, EndPreflight, Observe, ghostVars
  <2>2. QED
    BY <1>3, <1>q, <2>1, StartTells
<1>4. CASE (\E j \in Jobs : Arrive(j)) \/ Settle \/ UNCHANGED vars
  <2>1. UNCHANGED <<result, ledger, printed, pc, cur, faults>>
    BY <1>4 DEF Arrive, Settle, vars, shareVars, memoryVars, ghostVars
  <2>2. QED
    BY <1>q, <2>1, NobodySilenced DEF Answering
<1>5. QED
  BY <1>1, <1>2, <1>3, <1>4 DEF Next, Preflight

\* Whatever is claimed ends in a result that the service can read, but for one job
\* per failure: for any number of jobs, copies, deaths and failed moves, and even
\* when a copy comes after its row was pruned.
THEOREM SilencePaid == Spec => []SilenceIsPaidFor
<1>1. ASSUME Init PROVE SweepsAlone /\ ClaimInHand /\ Silence
  <2>1. SweepsAlone
    BY <1>1, DeliveryInit DEF DeliveryInv
  <2>2. ClaimInHand
    BY <1>1 DEF Init, ClaimInHand
  <2>3. Unanswered = {} /\ faults = 0
    BY <1>1 DEF Init, Unanswered
  <2>4. IsFiniteSet({}) /\ Cardinality({}) = 0
    BY FS_EmptySet
  <2>5. Silence
    BY <2>3, <2>4 DEF Silence, SilenceIsPaidFor
  <2>6. QED
    BY <2>1, <2>2, <2>5
<1>2. ASSUME Types, HeldInv, SweepsAlone, ClaimInHand, Silence, [Next]_vars
      PROVE  SweepsAlone' /\ ClaimInHand' /\ Silence'
  <2>1. AloneAtStart
    BY <1>2 DEF HeldInv
  <2>2. SweepsAlone'
    BY <1>2, <2>1, SweepsAloneKept DEF vars, SweepsAlone
  <2>3. QED
    BY <1>2, <2>1, <2>2, ClaimInHandKept, SilenceKept
<1>3. Silence => SilenceIsPaidFor
  BY DEF Silence
<1>4. QED
  BY <1>1, <1>2, <1>3, HeldAlways, PTL DEF Spec

=============================================================================
