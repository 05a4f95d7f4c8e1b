-------------------------- MODULE Allocator_proofs --------------------------
(***************************************************************************)
(* Theorems about Allocator, for every value of its constants.             *)
(***************************************************************************)
EXTENDS Allocator, SequenceTheorems, TLAPS

\* What validate and clamp_qty make of a cable type with a positive quantity:
\* a block of at least one number, above which the counter moves.
LEMMA PlanFacts ==
  ASSUME NEW c \in CableTypes, c.qty > 0
  PROVE  /\ clamp_qty(c) \in Nat \ {0}
         /\ LastNumber(c) \in Nat /\ LastNumber(c) >= c.next
         /\ next_counter_value(c) \in Nat /\ next_counter_value(c) = LastNumber(c) + 1
         /\ Remaining(c) \in Nat /\ Remaining(c) = c.qty - clamp_qty(c)
<1>1. BatchSize \in Nat \ {0}
  BY ConstantsAssumption
<1>2. c.next \in Nat /\ c.qty \in Nat
  BY DEF CableTypes
<1>3. QED
  BY <1>1, <1>2 DEF clamp_qty, LastNumber, next_counter_value, Remaining

\* The guards of poll_once only choose among what was read.
LEMMA BatchFacts ==
  ASSUME NEW f, NEW p \in apply_batch_cap(veto_duplicate_prefixes(f))
  PROVE  /\ p \in DOMAIN f
         /\ f[p].qty > 0
         /\ \A q \in apply_batch_cap(veto_duplicate_prefixes(f)) :
               PrefixOf[f[p].asset] = PrefixOf[f[q].asset] => p = q
BY DEF apply_batch_cap, veto_duplicate_prefixes, Pending

-----------------------------------------------------------------------------
\* A page is a sequence of cable types, so what was read stays one.
LEMMA PageType ==
  ASSUME TypeOK, NEW i \in Instances
  PROVE  /\ PageLength(i) \in Nat
         /\ PageRead(i) \in Seq(CableTypes)
         /\ found[i] \o PageRead(i) \in Seq(CableTypes)
<1>1. PageSize \in Nat \ {0} /\ page[i] \in Nat \ {0} /\ Len(listing) \in Nat
  BY ConstantsAssumption DEF TypeOK
<1>2. PageStart(i) \in Nat
  BY <1>1 DEF PageStart
<1>3. \/ PageLength(i) \in Nat /\ PageStart(i) + PageLength(i) <= Len(listing)
      \/ PageLength(i) = 0
  BY <1>1, <1>2 DEF PageLength
<1>4. ASSUME NEW k \in 1..PageLength(i)
      PROVE  build_cable_type(listing[PageStart(i) + k]) \in CableTypes
  <2>1. PageStart(i) + k \in 1..Len(listing)
    BY <1>1, <1>2, <1>3
  <2>2. listing[PageStart(i) + k] \in Assets
    BY <2>1 DEF TypeOK
  <2>3. QED
    BY <2>2 DEF build_cable_type, CableTypes, TypeOK
<1>5. PageRead(i) \in Seq(CableTypes)
  BY <1>3, <1>4 DEF PageRead
<1>6. found[i] \in Seq(CableTypes)
  BY DEF TypeOK
<1>7. QED
  BY <1>3, <1>5, <1>6

-----------------------------------------------------------------------------
\* Type correctness, for every value of the constants and whatever fails.
LEMMA TypeInit == Init => TypeOK
<1> SUFFICES ASSUME Init PROVE TypeOK
  OBVIOUS
<1>1. QED
  BY ConstantsAssumption DEF Init, TypeOK, Lines

\* A failure spends one unit of its bound.
LEMMA FaultType ==
  ASSUME TypeOK, NEW kind, Fault(kind)
  PROVE  used' \in [Bounded -> Nat]
BY DEF TypeOK, Fault, Spend, Bounded

\* The reserve write carries numbers, and so does what Halo holds after it.
LEMMA WriteType ==
  ASSUME NEW c \in CableTypes, c.qty > 0
  PROVE  /\ ReserveWrite(c) \in Writes
         /\ Line("FAILED", c) \in Lines
         /\ BlockOf(c) \in Blocks
<1>1. c.asset \in Assets /\ c.next \in Nat
  BY DEF CableTypes
<1>2. LastNumber(c) \in Nat /\ next_counter_value(c) \in Nat /\ Remaining(c) \in Nat
  BY PlanFacts
<1>3. QED
  BY <1>1, <1>2 DEF ReserveWrite, Writes, Line, Lines, BlockOf, Blocks

LEMMA ApplyType ==
  ASSUME TypeOK, NEW w \in Writes, Apply(w)
  PROVE  next' \in [Assets -> Nat] /\ qty' \in [Assets -> Nat] /\ status' \in [Assets -> Lines]
BY DEF TypeOK, Apply, Writes

\* What people do.
LEMMA PeopleType == TypeOK /\ People => TypeOK'
<1> SUFFICES ASSUME TypeOK, People PROVE TypeOK'
  OBVIOUS
<1>1. ASSUME NEW a \in Assets, RepairCounter(a) PROVE TypeOK'
  BY <1>1 DEF TypeOK, RepairCounter, serviceVars
<1>2. ASSUME NEW a \in Assets, NEW n \in 0..MaxQty, Request(a, n) PROVE TypeOK'
  BY <1>2, SMTT(30) DEF TypeOK, Request, Spend, Bounded, serviceVars
<1>3. ASSUME Moves, listing' \in Seq(Assets) PROVE TypeOK'
  BY <1>3, SMTT(30) DEF TypeOK, Moves, Spend, Bounded, haloVars, serviceVars
<1>4. ASSUME NEW a \in Assets, NEW k \in 0..Len(listing), JoinGroup(a, k) PROVE TypeOK'
  <2>1. listing \in Seq(Assets) /\ Len(listing) \in Nat
    BY DEF TypeOK
  <2>2. SubSeq(listing, 1, k) \in Seq(Assets)
    BY <2>1, SubSeqProperties, ElementOfSeq
  <2>3. SubSeq(listing, k + 1, Len(listing)) \in Seq(Assets)
    BY <2>1, SubSeqProperties, ElementOfSeq
  <2>4. listing' \in Seq(Assets)
    BY <1>4, <2>2, <2>3 DEF JoinGroup
  <2>5. QED
    BY <1>3, <1>4, <2>4 DEF JoinGroup
<1>5. ASSUME NEW k \in DOMAIN listing, LeaveGroup(k) PROVE TypeOK'
  <2>1. listing \in Seq(Assets) /\ Len(listing) \in Nat /\ k \in 1..Len(listing)
    BY DEF TypeOK
  <2>2. SubSeq(listing, 1, k - 1) \in Seq(Assets)
    BY <2>1, SubSeqProperties, ElementOfSeq
  <2>3. SubSeq(listing, k + 1, Len(listing)) \in Seq(Assets)
    BY <2>1, SubSeqProperties, ElementOfSeq
  <2>4. listing' \in Seq(Assets)
    BY <1>5, <2>2, <2>3 DEF LeaveGroup
  <2>5. QED
    BY <1>3, <1>5, <2>4 DEF LeaveGroup
<1>6. QED
  BY <1>1, <1>2, <1>4, <1>5 DEF People

\* What the loop of poll_once does outside reserve.
Types == TypeOK /\ WorkIsReal

LEMMA LeavePollType ==
  ASSUME Types, NEW i \in Instances, LeavePoll(i),
         UNCHANGED <<haloVars, listing, late, lock, mode, jobs, asked>>,
         used' \in [Bounded -> Nat]
  PROVE  Types'
BY DEF Types, TypeOK, WorkIsReal, AtWork, LeavePoll, Goto, haloVars

LEMMA AssetDoneType ==
  ASSUME Types, NEW i \in Instances, AssetDone(i),
         UNCHANGED <<listing, lock, mode, page, found, todo, asked>>,
         next' \in [Assets -> Nat], qty' \in [Assets -> Nat], status' \in [Assets -> Lines],
         late' \subseteq Writes, jobs' \in Seq(Blocks), used' \in [Bounded -> Nat]
  PROVE  Types'
BY DEF Types, TypeOK, WorkIsReal, AtWork, AssetDone, Goto

LEMMA GotoType ==
  ASSUME Types, NEW i \in Instances, pc[i] \in AtWork, NEW label \in AtWork, Goto(i, label),
         UNCHANGED <<listing, late, lock, mode, page, found, todo, cable, jobs, asked>>,
         next' \in [Assets -> Nat], qty' \in [Assets -> Nat], status' \in [Assets -> Lines],
         used' \in [Bounded -> Nat]
  PROVE  Types'
BY DEF Types, TypeOK, WorkIsReal, AtWork, Goto

LEMMA PollType ==
  ASSUME Types, NEW i \in Instances
  PROVE  /\ Start(i) => Types'
         /\ Stop(i) => Types'
         /\ BeginPoll(i) => Types'
         /\ ReadPage(i) => Types'
         /\ ReadPageFails(i) => Types'
         /\ TakeAsset(i) => Types'
         /\ EndPoll(i) => Types'
<1>1. ASSUME Start(i) PROVE Types'
  <2>1. TypeOK'
    <3>1. lock' \in [LockFiles -> Instances \cup {NoInstance}]
      BY <1>1, ConstantsAssumption DEF Types, TypeOK, Start
    <3>2. mode' \in [Instances -> Modes \cup {"off"}]
      BY <1>1 DEF Types, TypeOK, Start
    <3>3. QED
      BY <1>1, <3>1, <3>2 DEF Types, TypeOK, Start, Goto, haloVars
  <2>2. WorkIsReal'
    BY <1>1 DEF Types, TypeOK, WorkIsReal, AtWork, Start, Goto
  <2>3. QED
    BY <2>1, <2>2 DEF Types
<1>2. ASSUME Stop(i) PROVE Types'
  <2>1. TypeOK'
    <3>1. used' \in [Bounded -> Nat]
      BY <1>2, FaultType DEF Types, Stop
    <3>2. lock' \in [LockFiles -> Instances \cup {NoInstance}]
      BY <1>2, ConstantsAssumption DEF Types, TypeOK, Stop
    <3>3. found' \in [Instances -> Seq(CableTypes)] /\ todo' \in [Instances -> SUBSET Nat]
      BY <1>2 DEF Types, TypeOK, Stop
    <3>4. \A j \in Instances : todo'[j] \subseteq DOMAIN found'[j]
      BY <1>2 DEF Types, TypeOK, Stop
    <3>5. QED
      BY <1>2, <3>1, <3>2, <3>3, <3>4 DEF Types, TypeOK, Stop, Goto, haloVars
  <2>2. WorkIsReal'
    BY <1>2 DEF Types, TypeOK, WorkIsReal, AtWork, Stop, Goto
  <2>3. QED
    BY <2>1, <2>2 DEF Types
<1>3. ASSUME BeginPoll(i) PROVE Types'
  BY <1>3 DEF Types, TypeOK, WorkIsReal, AtWork, BeginPoll, Goto, haloVars
<1>4. ASSUME ReadPage(i) PROVE Types'
  <2> DEFINE scanned == found[i] \o PageRead(i)
             batch   == apply_batch_cap(veto_duplicate_prefixes(scanned))
  <2>1. /\ scanned \in Seq(CableTypes)
        /\ found[i] \in Seq(CableTypes) /\ PageRead(i) \in Seq(CableTypes)
    BY PageType DEF Types, TypeOK
  <2>2. found' = [found EXCEPT ![i] = scanned]
    BY <1>4 DEF ReadPage
  <2>3. batch \subseteq DOMAIN scanned /\ \A p \in batch : scanned[p].qty > 0
    BY BatchFacts
  <2>4. \A p \in DOMAIN found[i] : p \in DOMAIN scanned /\ scanned[p] = found[i][p]
    BY <2>1
  <2> HIDE DEF scanned, batch
  <2>5. \A j \in Instances : \A p \in todo[j] :
           p \in DOMAIN found'[j] /\ found'[j][p] = found[j][p]
    BY <2>2, <2>4 DEF Types, TypeOK
  <2>6. CASE todo' = todo /\ pc' = pc
    <3>1. page' \in [Instances -> Nat \ {0}]
      <4>1. page' = page \/ page' = [page EXCEPT ![i] = page[i] + 1]
        BY <1>4 DEF ReadPage
      <4>2. page \in [Instances -> Nat \ {0}] /\ page[i] + 1 \in Nat \ {0}
        BY DEF Types, TypeOK
      <4>3. QED
        BY <4>1, <4>2
    <3>2. found' \in [Instances -> Seq(CableTypes)]
      BY <2>1, <2>2 DEF Types, TypeOK
    <3>3. \A j \in Instances : todo'[j] \subseteq DOMAIN found'[j]
      BY <2>5, <2>6
    <3>4. TypeOK'
      BY <1>4, <2>6, <3>1, <3>2, <3>3 DEF Types, TypeOK, ReadPage, haloVars
    <3>5. WorkIsReal'
      BY <1>4, <2>5, <2>6 DEF Types, WorkIsReal, ReadPage
    <3>6. QED
      BY <3>4, <3>5 DEF Types
  <2>7. CASE todo' = [todo EXCEPT ![i] = batch] /\ Goto(i, "process") /\ UNCHANGED page
    <3>1. batch \subseteq Nat
      BY <2>1, <2>3
    <3>2. found' \in [Instances -> Seq(CableTypes)]
      BY <2>1, <2>2 DEF Types, TypeOK
    <3>3. found'[i] = scanned /\ todo'[i] = batch
      BY <2>2, <2>7 DEF Types, TypeOK
    <3>4. \A j \in Instances \ {i} : todo'[j] = todo[j] /\ found'[j] = found[j]
      BY <2>2, <2>7 DEF Types, TypeOK
    <3>5. /\ todo' \in [Instances -> SUBSET Nat]
          /\ \A j \in Instances : todo'[j] \subseteq DOMAIN found'[j]
      BY <2>3, <2>7, <3>1, <3>3, <3>4 DEF Types, TypeOK
    <3>6. pc'[i] = "process" /\ \A j \in Instances \ {i} : pc'[j] = pc[j]
      BY <2>7 DEF Goto, Types, TypeOK
    <3>7. TypeOK'
      BY <1>4, <2>7, <3>2, <3>5 DEF Types, TypeOK, ReadPage, haloVars, Goto
    <3>8. WorkIsReal'
      BY <1>4, <2>3, <3>3, <3>4, <3>6 DEF Types, WorkIsReal, AtWork, ReadPage
    <3>9. QED
      BY <3>7, <3>8 DEF Types
  <2>8. QED
    BY <1>4, <2>6, <2>7 DEF ReadPage, scanned, batch
<1>5. ASSUME ReadPageFails(i) PROVE Types'
  BY <1>5, LeavePollType, FaultType DEF ReadPageFails, Types
<1>6. ASSUME TakeAsset(i) PROVE Types'
  <2>1. PICK p \in todo[i] :
          /\ todo' = [todo EXCEPT ![i] = @ \ {p}]
          /\ \/ UNCHANGED <<pc, cable>>
             \/ cable' = [cable EXCEPT ![i] = found[i][p]] /\ Goto(i, "reserve")
    BY <1>6 DEF TakeAsset
  <2>2. found[i][p] \in CableTypes /\ found[i][p].qty > 0
    BY ElementOfSeq DEF Types, TypeOK, WorkIsReal
  <2>3. TypeOK'
    BY <1>6, <2>1, <2>2 DEF Types, TypeOK, TakeAsset, Goto, haloVars
  <2>4. WorkIsReal'
    BY <1>6, <2>1, <2>2 DEF Types, TypeOK, WorkIsReal, AtWork, TakeAsset, Goto, haloVars
  <2>5. QED
    BY <2>3, <2>4 DEF Types
<1>7. ASSUME EndPoll(i) PROVE Types'
  BY <1>7, LeavePollType DEF EndPoll, Types, TypeOK
<1>8. QED
  BY <1>1, <1>2, <1>3, <1>4, <1>5, <1>6, <1>7

\* What reserve, render and enqueue do.
LEMMA IssueType ==
  ASSUME Types, NEW i \in Instances
  PROVE  /\ ReserveApplied(i) => Types'
         /\ ReserveIgnored(i) => Types'
         /\ ReserveRaises(i) => Types'
         /\ ReadBack(i) => Types'
         /\ ReadBackRaises(i) => Types'
         /\ Render(i) => Types'
         /\ RenderRaises(i) => Types'
         /\ Enqueue(i) => Types'
         /\ SidecarRefused(i) => Types'
         /\ EnqueueRaises(i) => Types'
         /\ Report(i) => Types'
<1> USE DEF haloVars
<1>t. /\ next \in [Assets -> Nat] /\ qty \in [Assets -> Nat] /\ status \in [Assets -> Lines]
      /\ late \subseteq Writes /\ jobs \in Seq(Blocks) /\ used \in [Bounded -> Nat]
  BY DEF Types, TypeOK
<1>f. ASSUME NEW kind, Fault(kind) PROVE used' \in [Bounded -> Nat]
  BY <1>f, FaultType DEF Types
<1>w. ASSUME pc[i] \in AtWork
      PROVE  /\ ReserveWrite(cable[i]) \in Writes
             /\ Line("FAILED", cable[i]) \in Lines
             /\ BlockOf(cable[i]) \in Blocks
             /\ cable[i].asset \in Assets
  BY <1>w, WriteType DEF Types, WorkIsReal, CableTypes
<1>1. ASSUME ReserveApplied(i) PROVE Types'
  <2>1. pc[i] \in AtWork /\ "readback" \in AtWork
    BY <1>1 DEF ReserveApplied, AtWork
  <2>2. next' \in [Assets -> Nat] /\ qty' \in [Assets -> Nat] /\ status' \in [Assets -> Lines]
    BY <1>1, <1>w, <2>1, ApplyType DEF ReserveApplied, Types
  <2>3. QED
    BY <1>1, <1>t, <2>1, <2>2, GotoType DEF ReserveApplied
<1>2. ASSUME ReserveIgnored(i) PROVE Types'
  <2>1. pc[i] \in AtWork /\ "readback" \in AtWork
    BY <1>2 DEF ReserveIgnored, AtWork
  <2>2. QED
    BY <1>2, <1>t, <1>f, <2>1, GotoType DEF ReserveIgnored
<1>3. ASSUME ReserveRaises(i) PROVE Types'
  <2>1. pc[i] \in AtWork
    BY <1>3 DEF ReserveRaises, AtWork
  <2>2. used' \in [Bounded -> Nat]
    BY <1>3, <1>f DEF ReserveRaises
  <2>3. /\ next' \in [Assets -> Nat] /\ qty' \in [Assets -> Nat]
        /\ status' \in [Assets -> Lines] /\ late' \subseteq Writes
    <3>1. CASE Apply(ReserveWrite(cable[i])) /\ UNCHANGED late
      BY <3>1, <1>t, <1>w, <2>1, ApplyType DEF Types
    <3>2. CASE late' \in {late, late \cup {ReserveWrite(cable[i])}} /\ UNCHANGED haloVars
      BY <3>2, <1>t, <1>w, <2>1
    <3>3. QED
      BY <1>3, <3>1, <3>2 DEF ReserveRaises
  <2>4. QED
    BY <1>3, <1>t, <2>2, <2>3, AssetDoneType DEF ReserveRaises
<1>4. ASSUME ReadBack(i) PROVE Types'
  <2>1. pc[i] \in AtWork /\ "render" \in AtWork
    BY <1>4 DEF ReadBack, AtWork
  <2>2. QED
    BY <1>4, <1>t, <2>1, GotoType, AssetDoneType DEF ReadBack
<1>5. ASSUME ReadBackRaises(i) PROVE Types'
  BY <1>5, <1>t, <1>f, AssetDoneType DEF ReadBackRaises
<1>6. ASSUME Render(i) PROVE Types'
  <2>1. pc[i] \in AtWork /\ "enqueue" \in AtWork
    BY <1>6 DEF Render, AtWork
  <2>2. QED
    BY <1>6, <1>t, <2>1, GotoType, AssetDoneType DEF Render
<1>7. ASSUME RenderRaises(i) PROVE Types'
  BY <1>7, <1>t, <1>f, AssetDoneType DEF RenderRaises
<1>8. ASSUME Enqueue(i) PROVE Types'
  <2>1. jobs' \in Seq(Blocks)
    BY <1>8, <1>t, <1>w DEF Enqueue, AtWork
  <2>2. QED
    BY <1>8, <1>t, <2>1, AssetDoneType DEF Enqueue
<1>9. ASSUME SidecarRefused(i) PROVE Types'
  BY <1>9, <1>t, LeavePollType DEF SidecarRefused
<1>10. ASSUME EnqueueRaises(i) PROVE Types'
  <2>1. pc[i] \in AtWork /\ "report" \in AtWork
    BY <1>10 DEF EnqueueRaises, AtWork
  <2>2. QED
    BY <1>10, <1>t, <1>f, <2>1, GotoType DEF EnqueueRaises
<1>11. ASSUME Report(i) PROVE Types'
  <2>1. status' \in [Assets -> Lines]
    BY <1>11, <1>t, <1>w DEF Report, ReportLine, AtWork
  <2>2. used' \in [Bounded -> Nat]
    BY <1>11, <1>t, <1>f DEF Report
  <2>3. QED
    BY <1>11, <1>t, <2>1, <2>2, AssetDoneType DEF Report
<1>12. QED
  BY <1>1, <1>2, <1>3, <1>4, <1>5, <1>6, <1>7, <1>8, <1>9, <1>10, <1>11

\* People and late writes leave the service alone.
LEMMA OutsideType ==
  ASSUME Types
  PROVE  /\ People => Types'
         /\ \A w \in late : ApplyLate(w) => Types'
         /\ UNCHANGED vars => Types'
<1>1. ASSUME People PROVE Types'
  <2>1. UNCHANGED serviceVars
    BY <1>1 DEF People, RepairCounter, Request, JoinGroup, LeaveGroup, Moves
  <2>2. QED
    BY <1>1, <2>1, PeopleType DEF Types, WorkIsReal, serviceVars
<1>2. ASSUME NEW w \in late, ApplyLate(w) PROVE Types'
  <2>1. w \in Writes /\ late' \subseteq Writes
    BY <1>2 DEF Types, TypeOK, ApplyLate
  <2>2. next' \in [Assets -> Nat] /\ qty' \in [Assets -> Nat] /\ status' \in [Assets -> Lines]
    BY <1>2, <2>1, ApplyType DEF ApplyLate, Types
  <2>3. QED
    BY <1>2, <2>1, <2>2 DEF Types, TypeOK, WorkIsReal, ApplyLate, serviceVars
<1>3. ASSUME UNCHANGED vars PROVE Types'
  BY <1>3 DEF Types, TypeOK, WorkIsReal, vars
<1>4. QED
  BY <1>1, <1>2, <1>3

LEMMA TypesInductive ==
  /\ Init => Types
  /\ Types /\ [Next]_vars => Types'
<1>1. Init => Types
  BY TypeInit DEF Init, Types, WorkIsReal, AtWork
<1>2. ASSUME Types, [Next]_vars PROVE Types'
  <2>1. ASSUME NEW i \in Instances, Step(i) PROVE Types'
    BY <1>2, <2>1, PollType, IssueType DEF Step
  <2>2. QED
    BY <1>2, <2>1, PollType, OutsideType DEF Next
<1>3. QED
  BY <1>1, <1>2

\* The state of Halo, of every service process and of the print queue keeps its
\* type, and a process only ever works on a request for at least one cable.
THEOREM TypeCorrect == Spec => []TypeOK
<1>1. Init => Types
  BY TypesInductive
<1>2. Types /\ [Next]_vars => Types'
  BY TypesInductive
<1>3. Types => TypeOK
  BY DEF Types
<1>4. QED
  BY <1>1, <1>2, <1>3, PTL DEF Spec

-----------------------------------------------------------------------------
(* No identifier is on two jobs.  The argument is the inductive invariant  *)
(* IInv: one process at a time works (LockHeld), what it has read and not  *)
(* processed is still true of Halo (SnapshotsCurrent), nothing else in its *)
(* batch has the same prefix (BatchDistinct), and while it holds a block   *)
(* no job reaches into it (PlanCurrent).                                   *)

\* While one process runs, every other one is down, and a process that is down
\* or between polls has nothing in hand.
LEMMA OnlyOneRuns ==
  ASSUME OneLockFile, LockHeld, NEW i \in Instances, pc[i] # "down"
  PROVE  \A j \in Instances : j # i => pc[j] = "down"
BY DEF OneLockFile, LockHeld

LEMMA NothingInHand ==
  ASSUME PlanCurrent, NEW i \in Instances
  PROVE  /\ pc[i] \in {"down", "idle"} => found[i] = <<>>
         /\ pc[i] \in {"down", "idle", "scan"} => todo[i] = {} /\ cable[i] = NoCable
         /\ pc[i] = "process" => cable[i] = NoCable
BY DEF PlanCurrent, AtWork

\* Steps of one process that leave the counters and the queue alone and end with
\* nothing of an asset in hand.
LEMMA QuietStep ==
  ASSUME Types, IInv, NEW i \in Instances, pc[i] # "down",
         UNCHANGED <<next, late, lock, jobs>>,
         \A j \in Instances : j # i =>
            /\ pc'[j] = pc[j] /\ todo'[j] = todo[j]
            /\ found'[j] = found[j] /\ cable'[j] = cable[j],
         pc'[i] \in {"idle", "scan", "process"}, cable'[i] = NoCable,
         pc'[i] = "idle" => found'[i] = <<>>,
         pc'[i] \in {"idle", "scan"} => todo'[i] = {},
         \A p \in Unprocessed(i)' : found'[i][p].next \in {0, next[found'[i][p].asset]},
         \A p \in todo'[i] : found'[i][p].qty > 0,
         \A p, q \in todo'[i] :
            PrefixOf[found'[i][p].asset] = PrefixOf[found'[i][q].asset] => p = q
  PROVE  IInv'
<1>1. LockHeld' /\ late' = {}
  BY DEF IInv, LockHeld
<1>2. SnapshotsCurrent'
  BY DEF IInv, SnapshotsCurrent, Unprocessed
<1>3. BatchDistinct' /\ WorkIsReal'
  BY DEF IInv, BatchDistinct, WorkIsReal, AtWork
<1>4. PlanCurrent'
  <2> SUFFICES ASSUME NEW j \in Instances
               PROVE  /\ pc'[j] \in {"down", "idle"} => found'[j] = <<>>
                      /\ pc'[j] \in {"down", "idle", "scan"} => todo'[j] = {}
                      /\ pc'[j] \notin AtWork => cable'[j] = NoCable
                      /\ pc'[j] \in AtWork => j # i
    BY DEF IInv, PlanCurrent, AtWork, Valid, next_counter_value, LastNumber, clamp_qty
  <2>1. QED
    BY DEF IInv, PlanCurrent, AtWork
<1>5. JobsOwned' /\ ConsumedBeforeEnqueued'
  BY DEF IInv, JobsOwned, ConsumedBeforeEnqueued
<1>6. QED
  BY <1>1, <1>2, <1>3, <1>4, <1>5 DEF IInv


\* A process that runs is alone: the others hold nothing.
LEMMA Alone ==
  ASSUME OneLockFile, IInv, NEW i \in Instances, pc[i] # "down"
  PROVE  \A j \in Instances : j # i =>
            /\ pc[j] = "down" /\ found[j] = <<>> /\ todo[j] = {}
            /\ cable[j] = NoCable /\ Unprocessed(j) = {}
BY OnlyOneRuns, NothingInHand DEF IInv, Unprocessed

\* An asset with another prefix is another asset.
LEMMA OtherPrefixOtherAsset ==
  ASSUME NEW a, NEW b, PrefixOf[a] # PrefixOf[b]
  PROVE  a # b
OBVIOUS

\* What stays true of the jobs when counters only grow.
LEMMA JobsKept ==
  ASSUME Types, IInv, UNCHANGED jobs, TypeOK',
         \A a \in Assets : next'[a] >= next[a]
  PROVE  JobsOwned' /\ ConsumedBeforeEnqueued'
<1>1. JobsOwned'
  BY DEF IInv, JobsOwned
<1>2. ConsumedBeforeEnqueued'
  <2> SUFFICES ASSUME NEW n \in DOMAIN jobs PROVE jobs[n].last < next'[jobs[n].asset]
    BY DEF ConsumedBeforeEnqueued
  <2>1. jobs[n] \in Blocks
    BY ElementOfSeq DEF Types, TypeOK
  <2>2. /\ jobs[n].asset \in Assets /\ jobs[n].last \in Nat
        /\ next[jobs[n].asset] \in Nat /\ next'[jobs[n].asset] \in Nat
    BY <2>1 DEF Blocks, Types, TypeOK
  <2>3. jobs[n].last < next[jobs[n].asset]
    BY DEF IInv, ConsumedBeforeEnqueued
  <2>4. QED
    BY <2>2, <2>3
<1>3. QED
  BY <1>1, <1>2

\* Steps of process_asset that end with an asset in hand.
LEMMA WorkStep ==
  ASSUME OneLockFile, Types, IInv, Types', NEW i \in Instances,
         pc[i] \in AtWork \cup {"process"}, pc'[i] \in AtWork,
         UNCHANGED <<late, lock, found, jobs>>,
         \A j \in Instances : j # i =>
            pc'[j] = pc[j] /\ todo'[j] = todo[j] /\ cable'[j] = cable[j],
         todo'[i] \subseteq todo[i],
         \A p \in todo'[i] : PrefixOf[found[i][p].asset] # PrefixOf[cable'[i].asset],
         Valid(cable'[i]),
         \A a \in Assets : next'[a] >= next[a],
         \A a \in Assets : a # cable'[i].asset => next'[a] = next[a],
         pc'[i] = "reserve" => next'[cable'[i].asset] = cable'[i].next,
         pc'[i] = "readback" =>
            next'[cable'[i].asset] \in {cable'[i].next, next_counter_value(cable'[i])},
         pc'[i] \in {"render", "enqueue"} =>
            next'[cable'[i].asset] = next_counter_value(cable'[i]),
         pc'[i] # "report" =>
            \A n \in DOMAIN jobs :
               jobs[n].asset = cable'[i].asset => jobs[n].last < cable'[i].next
  PROVE  IInv'
<1>a. \A j \in Instances : j # i =>
         /\ pc[j] = "down" /\ found[j] = <<>> /\ todo[j] = {}
         /\ cable[j] = NoCable /\ Unprocessed(j) = {}
  BY Alone DEF AtWork
<1>1. LockHeld' /\ late' = {}
  BY DEF IInv, LockHeld, AtWork
<1>2. SnapshotsCurrent'
  <2> SUFFICES ASSUME NEW j \in Instances, NEW p \in Unprocessed(j)'
               PROVE  found'[j][p].next \in {0, next'[found'[j][p].asset]}
    BY DEF SnapshotsCurrent
  <2>1. j = i /\ p \in todo'[i] /\ p \in Unprocessed(i)
    BY <1>a DEF Unprocessed, AtWork
  <2>2. found[i][p].next \in {0, next[found[i][p].asset]}
    BY <2>1 DEF IInv, SnapshotsCurrent
  <2>3. found[i][p] \in CableTypes
    BY <2>1, ElementOfSeq DEF Types, TypeOK
  <2>4. found[i][p].asset \in Assets /\ found[i][p].asset # cable'[i].asset
    BY <2>1, <2>3 DEF CableTypes
  <2>5. QED
    BY <2>1, <2>2, <2>4
<1>3. BatchDistinct'
  BY <1>a DEF IInv, BatchDistinct
<1>4. PlanCurrent'
  <2> SUFFICES ASSUME NEW j \in Instances
               PROVE  /\ pc'[j] \in {"down", "idle"} => found'[j] = <<>>
                      /\ pc'[j] \in {"down", "idle", "scan"} => todo'[j] = {}
                      /\ pc'[j] \notin AtWork => cable'[j] = NoCable
                      /\ pc'[j] \in AtWork => j = i
    BY DEF PlanCurrent, AtWork, Valid, next_counter_value, LastNumber, clamp_qty
  <2>1. QED
    BY <1>a DEF AtWork
<1>5. JobsOwned' /\ ConsumedBeforeEnqueued'
  BY JobsKept DEF Types
<1>6. QED
  BY <1>1, <1>2, <1>3, <1>4, <1>5 DEF IInv, Types

\* Steps of process_asset that end with nothing in hand, having moved no counter
\* but that of the asset they had.
LEMMA DoneStep ==
  ASSUME OneLockFile, Types, IInv, Types', NEW i \in Instances,
         pc[i] \in AtWork, AssetDone(i),
         UNCHANGED <<late, lock, found, todo>>,
         \A a \in Assets : a # cable[i].asset => next'[a] = next[a],
         JobsOwned', ConsumedBeforeEnqueued'
  PROVE  IInv'
<1>a. \A j \in Instances : j # i =>
         /\ pc[j] = "down" /\ found[j] = <<>> /\ todo[j] = {}
         /\ cable[j] = NoCable /\ Unprocessed(j) = {}
  BY Alone DEF AtWork
<1>b. /\ pc'[i] = "process" /\ cable'[i] = NoCable
      /\ \A j \in Instances : j # i => pc'[j] = pc[j] /\ cable'[j] = cable[j]
  BY DEF AssetDone, Goto, Types, TypeOK
<1>c. cable[i] # NoCable
  <2>1. cable[i] \in CableTypes /\ cable[i].qty > 0
    BY DEF Types, WorkIsReal
  <2>2. QED
    BY <2>1 DEF CableTypes, NoCable
<1>1. LockHeld' /\ late' = {}
  BY <1>b DEF IInv, LockHeld, AtWork
<1>2. SnapshotsCurrent'
  <2> SUFFICES ASSUME NEW j \in Instances, NEW p \in Unprocessed(j)'
               PROVE  found'[j][p].next \in {0, next'[found'[j][p].asset]}
    BY DEF SnapshotsCurrent
  <2>1. j = i /\ p \in todo[i] /\ p \in Unprocessed(i)
    BY <1>a, <1>b DEF Unprocessed, AtWork
  <2>2. found[i][p].next \in {0, next[found[i][p].asset]}
    BY <2>1 DEF IInv, SnapshotsCurrent
  <2>3. found[i][p] \in CableTypes
    BY <2>1, ElementOfSeq DEF Types, TypeOK
  <2>4. PrefixOf[found[i][p].asset] # PrefixOf[cable[i].asset]
    BY <1>c, <2>1 DEF IInv, BatchDistinct
  <2>5. found[i][p].asset \in Assets /\ found[i][p].asset # cable[i].asset
    BY <2>3, <2>4 DEF CableTypes
  <2>6. QED
    BY <2>1, <2>2, <2>5
<1>3. BatchDistinct'
  BY <1>a, <1>b DEF IInv, BatchDistinct
<1>4. PlanCurrent'
  <2> SUFFICES ASSUME NEW j \in Instances
               PROVE  /\ pc'[j] \in {"down", "idle"} => found'[j] = <<>>
                      /\ pc'[j] \in {"down", "idle", "scan"} => todo'[j] = {}
                      /\ pc'[j] \notin AtWork => cable'[j] = NoCable
                      /\ pc'[j] \notin AtWork
    BY DEF PlanCurrent
  <2>1. QED
    BY <1>a, <1>b DEF AtWork
<1>6. QED
  BY <1>1, <1>2, <1>3, <1>4 DEF IInv, Types

\* reserve and its read-back, and the enqueue, one action at a time.
LEMMA WorkSteps ==
  ASSUME OneLockFile, NoLateWrites,
         Types, IInv, Types', NEW i \in Instances
  PROVE  /\ ReserveApplied(i) => IInv'
         /\ ReserveIgnored(i) => IInv'
         /\ ReserveRaises(i) => IInv'
         /\ ReadBack(i) => IInv'
         /\ ReadBackRaises(i) => IInv'
         /\ Render(i) => IInv'
         /\ RenderRaises(i) => IInv'
         /\ Enqueue(i) => IInv'
         /\ EnqueueRaises(i) => IInv'
         /\ Report(i) => IInv'
<1> DEFINE c == cable[i]
<1>n. /\ next \in [Assets -> Nat] /\ pc \in [Instances -> {"down", "idle", "scan",
            "process", "reserve", "readback", "render", "enqueue", "report"}]
      /\ \A a \in Assets : next[a] >= next[a]
  BY DEF Types, TypeOK
<1>c. ASSUME pc[i] \in AtWork
      PROVE  /\ c \in CableTypes /\ c.qty > 0 /\ c.asset \in Assets /\ c.next \in Nat
             /\ c # NoCable /\ Valid(c)
             /\ next_counter_value(c) \in Nat /\ next_counter_value(c) = LastNumber(c) + 1
             /\ LastNumber(c) \in Nat /\ LastNumber(c) >= c.next
             /\ \A p \in todo[i] : PrefixOf[found[i][p].asset] # PrefixOf[c.asset]
  <2>1. c \in CableTypes /\ c.qty > 0
    BY <1>c DEF Types, WorkIsReal
  <2>2. c.asset \in Assets /\ c.next \in Nat /\ c # NoCable
    BY <2>1 DEF CableTypes, NoCable
  <2>3. Valid(c)
    BY <1>c DEF IInv, PlanCurrent
  <2>4. \A p \in todo[i] : PrefixOf[found[i][p].asset] # PrefixOf[c.asset]
    BY <2>2 DEF IInv, BatchDistinct
  <2>5. QED
    BY <2>1, <2>2, <2>3, <2>4, PlanFacts
<1>j. ASSUME pc[i] \in AtWork, pc[i] # "report"
      PROVE  \A n \in DOMAIN jobs : jobs[n].asset = c.asset => jobs[n].last < c.next
  BY <1>j DEF IInv, PlanCurrent
\* The reserve write, when Halo finds the counter where the plan did.
<1>w. ASSUME pc[i] = "reserve", Apply(ReserveWrite(c))
      PROVE  /\ next'[c.asset] = next_counter_value(c)
             /\ \A a \in Assets : next'[a] >= next[a]
             /\ \A a \in Assets : a # c.asset => next'[a] = next[a]
  <2>1. next[c.asset] = c.next
    BY <1>w DEF IInv, PlanCurrent, AtWork
  <2>2. next' = [next EXCEPT ![c.asset] = next_counter_value(c)]
    BY <1>w DEF Apply, ReserveWrite
  <2>3. QED
    BY <1>c, <1>n, <1>w, <2>1, <2>2 DEF AtWork
<1> HIDE DEF c
<1>1. ASSUME ReserveApplied(i) PROVE IInv'
  <2>1. pc[i] = "reserve" /\ Apply(ReserveWrite(c)) /\ Goto(i, "readback")
    BY <1>1 DEF ReserveApplied, c
  <2>2. pc'[i] = "readback" /\ \A j \in Instances : j # i => pc'[j] = pc[j]
    BY <1>n, <2>1 DEF Goto
  <2>3. cable'[i] = c
    BY <1>1 DEF ReserveApplied, c
  <2>4. QED
    BY <1>1, <1>c, <1>j, <1>w, <2>1, <2>2, <2>3, WorkStep DEF ReserveApplied, AtWork
<1>2. ASSUME ReserveIgnored(i) PROVE IInv'
  <2>1. pc'[i] = "readback" /\ \A j \in Instances : j # i => pc'[j] = pc[j]
    BY <1>2, <1>n DEF Goto, ReserveIgnored
  <2>2. pc[i] = "reserve" /\ next' = next /\ cable'[i] = c
    BY <1>2 DEF ReserveIgnored, haloVars, c
  <2>3. next[c.asset] = c.next
    BY <2>2 DEF IInv, PlanCurrent, AtWork, c
  <2>4. QED
    BY <1>2, <1>c, <1>j, <1>n, <2>1, <2>2, <2>3, WorkStep DEF ReserveIgnored, AtWork
<1>3. ASSUME ReserveRaises(i) PROVE IInv'
  <2>1. pc[i] = "reserve" /\ AssetDone(i) /\ UNCHANGED <<lock, found, todo, jobs>>
    BY <1>3 DEF ReserveRaises
  <2>2. late' = late
    BY <1>3 DEF ReserveRaises, Fault, NoLateWrites
  <2>3. /\ \A a \in Assets : next'[a] >= next[a]
        /\ \A a \in Assets : a # c.asset => next'[a] = next[a]
    <3>1. CASE UNCHANGED haloVars
      BY <3>1, <1>n DEF haloVars
    <3>2. CASE Apply(ReserveWrite(c))
      BY <3>2, <1>w, <2>1
    <3>3. QED
      BY <1>3, <3>1, <3>2 DEF ReserveRaises, Fault, NoLateWrites, c
  <2>4. JobsOwned' /\ ConsumedBeforeEnqueued'
    BY <2>1, <2>3, JobsKept DEF Types
  <2>5. QED
    BY <2>1, <2>2, <2>3, <2>4, DoneStep DEF AtWork, c
\* Steps that only give the asset up.
<1>d. ASSUME pc[i] \in AtWork, AssetDone(i), UNCHANGED <<next, late, lock, found, todo, jobs>>
      PROVE  IInv'
  <2>1. JobsOwned' /\ ConsumedBeforeEnqueued'
    BY <1>d, <1>n, JobsKept DEF Types
  <2>2. QED
    BY <1>d, <2>1, DoneStep
<1>4. ASSUME ReadBack(i) PROVE IInv'
  <2>1. CASE AssetDone(i)
    BY <1>4, <1>d, <2>1 DEF ReadBack, AtWork, haloVars
  <2>2. CASE ReadBackMatches(c) /\ Goto(i, "render") /\ UNCHANGED cable
    <3>1. pc'[i] = "render" /\ \A j \in Instances : j # i => pc'[j] = pc[j]
      BY <2>2, <1>n DEF Goto
    <3>2. /\ pc[i] = "readback" /\ next' = next /\ cable' = cable /\ cable'[i] = c
          /\ next[c.asset] = next_counter_value(c)
      BY <1>4, <2>2 DEF ReadBack, ReadBackMatches, haloVars, c
    <3>3. QED
      BY <1>4, <1>c, <1>j, <1>n, <3>1, <3>2, WorkStep DEF ReadBack, AtWork
  <2>3. QED
    BY <1>4, <2>1, <2>2 DEF ReadBack, c
<1>5. ASSUME ReadBackRaises(i) PROVE IInv'
  BY <1>5, <1>d DEF ReadBackRaises, AtWork, haloVars
<1>6. ASSUME Render(i) PROVE IInv'
  <2>1. CASE AssetDone(i)
    BY <1>6, <1>d, <2>1 DEF Render, AtWork, haloVars
  <2>2. CASE Goto(i, "enqueue") /\ UNCHANGED cable
    <3>1. pc'[i] = "enqueue" /\ \A j \in Instances : j # i => pc'[j] = pc[j]
      BY <2>2, <1>n DEF Goto
    <3>2. pc[i] = "render" /\ next' = next /\ cable' = cable /\ cable'[i] = c
      BY <1>6, <2>2 DEF Render, haloVars, c
    <3>3. next[c.asset] = next_counter_value(c)
      BY <3>2 DEF IInv, PlanCurrent, AtWork, c
    <3>4. QED
      BY <1>6, <1>c, <1>j, <1>n, <3>1, <3>2, <3>3, WorkStep DEF Render, AtWork
  <2>3. QED
    BY <1>6, <2>1, <2>2 DEF Render
<1>7. ASSUME RenderRaises(i) PROVE IInv'
  BY <1>7, <1>d DEF RenderRaises, AtWork, haloVars
<1>8. ASSUME Enqueue(i) PROVE IInv'
  <2>1. /\ pc[i] = "enqueue" /\ jobs' = Append(jobs, BlockOf(c)) /\ AssetDone(i)
        /\ UNCHANGED <<next, late, lock, found, todo>>
    BY <1>8 DEF Enqueue, haloVars, c
  <2>2. pc[i] \in AtWork /\ pc[i] # "report"
    BY <2>1 DEF AtWork
  <2>3. next[c.asset] = LastNumber(c) + 1
    BY <1>c, <2>1, <2>2 DEF IInv, PlanCurrent, c
  <2>4. jobs \in Seq(Blocks) /\ BlockOf(c) \in Blocks
    BY <1>c, <2>2, WriteType DEF Types, TypeOK
  <2>5. /\ DOMAIN jobs' = DOMAIN jobs \cup {Len(jobs) + 1}
        /\ jobs'[Len(jobs) + 1] = BlockOf(c)
        /\ \A n \in DOMAIN jobs : jobs'[n] = jobs[n] /\ n < Len(jobs) + 1
        /\ DOMAIN jobs \subseteq Nat /\ Len(jobs) \in Nat
    BY <2>1, <2>4
  <2>6. /\ BlockOf(c).asset = c.asset /\ BlockOf(c).first = c.next
        /\ BlockOf(c).last = LastNumber(c)
    BY DEF BlockOf
  <2>7. JobsOwned'
    BY <1>c, <2>2, <2>5, <2>6 DEF IInv, JobsOwned, Valid
  <2>8. ConsumedBeforeEnqueued'
    <3>1. LastNumber(c) < next[c.asset]
      BY <1>c, <2>2, <2>3
    <3>2. QED
      BY <2>1, <2>5, <2>6, <3>1 DEF IInv, ConsumedBeforeEnqueued
  <2>9. QED
    BY <2>1, <2>2, <2>7, <2>8, DoneStep
<1>9. ASSUME EnqueueRaises(i) PROVE IInv'
  <2>1. pc'[i] = "report" /\ \A j \in Instances : j # i => pc'[j] = pc[j]
    BY <1>9, <1>n DEF Goto, EnqueueRaises
  <2>2. pc[i] = "enqueue" /\ next' = next /\ cable'[i] = c
    BY <1>9 DEF EnqueueRaises, haloVars, c
  <2>3. QED
    BY <1>9, <1>c, <1>n, <2>1, <2>2, WorkStep DEF EnqueueRaises, AtWork
<1>10. ASSUME Report(i) PROVE IInv'
  BY <1>10, <1>d DEF Report, AtWork
<1>11. QED
  BY <1>1, <1>2, <1>3, <1>4, <1>5, <1>6, <1>7, <1>8, <1>9, <1>10

\* The loop of poll_once: what is read is true of Halo when it is read, and no
\* other process is there to change it.
LEMMA PollSteps ==
  ASSUME OneLockFile, Types, IInv, Types', NEW i \in Instances
  PROVE  /\ BeginPoll(i) => IInv'
         /\ ReadPage(i) => IInv'
         /\ ReadPageFails(i) => IInv'
         /\ TakeAsset(i) => IInv'
         /\ EndPoll(i) => IInv'
         /\ SidecarRefused(i) => IInv'
<1>n. /\ pc \in [Instances -> {"down", "idle", "scan",
            "process", "reserve", "readback", "render", "enqueue", "report"}]
      /\ todo \in [Instances -> SUBSET Nat] /\ found \in [Instances -> Seq(CableTypes)]
      /\ next \in [Assets -> Nat] /\ DOMAIN cable = Instances
  BY DEF Types, TypeOK
<1>l. ASSUME pc[i] # "down", LeavePoll(i), UNCHANGED <<next, late, lock, jobs>>
      PROVE  IInv'
  <2>1. /\ pc'[i] = "idle" /\ todo'[i] = {} /\ found'[i] = <<>> /\ cable'[i] = NoCable
        /\ \A j \in Instances : j # i =>
              /\ pc'[j] = pc[j] /\ todo'[j] = todo[j]
              /\ found'[j] = found[j] /\ cable'[j] = cable[j]
    BY <1>l, <1>n DEF LeavePoll, Goto
  <2>2. Unprocessed(i)' = {}
    BY <2>1 DEF Unprocessed
  <2>3. QED
    BY <1>l, <2>1, <2>2, QuietStep
<1>1. ASSUME BeginPoll(i) PROVE IInv'
  <2>1. /\ pc[i] = "idle" /\ pc'[i] = "scan"
        /\ \A j \in Instances : j # i => pc'[j] = pc[j]
        /\ UNCHANGED <<next, late, lock, jobs, todo, found, cable>>
    BY <1>1, <1>n DEF BeginPoll, Goto, haloVars
  <2>2. found[i] = <<>> /\ todo[i] = {} /\ cable[i] = NoCable
    BY <2>1, NothingInHand DEF IInv
  <2>3. Unprocessed(i)' = {}
    BY <2>1, <2>2 DEF Unprocessed
  <2>4. QED
    BY <2>1, <2>2, <2>3, QuietStep
<1>2. ASSUME ReadPage(i) PROVE IInv'
  <2> DEFINE scanned == found[i] \o PageRead(i)
             batch   == apply_batch_cap(veto_duplicate_prefixes(scanned))
  <2>1. /\ pc[i] = "scan" /\ UNCHANGED <<next, late, lock, jobs, cable>>
        /\ found' = [found EXCEPT ![i] = scanned]
        /\ \/ todo' = todo /\ pc' = pc
           \/ todo' = [todo EXCEPT ![i] = batch] /\ Goto(i, "process")
    BY <1>2 DEF ReadPage, haloVars
  <2>2. /\ scanned \in Seq(CableTypes)
        /\ found[i] \in Seq(CableTypes) /\ PageRead(i) \in Seq(CableTypes)
    BY <1>n, PageType DEF Types
  <2>3. \A p \in DOMAIN scanned : scanned[p].next \in {0, next[scanned[p].asset]}
    <3> SUFFICES ASSUME NEW p \in DOMAIN scanned
                 PROVE  scanned[p].next \in {0, next[scanned[p].asset]}
      OBVIOUS
    <3>1. CASE p \in DOMAIN found[i]
      <4>1. scanned[p] = found[i][p]
        BY <2>2, <3>1
      <4>2. p \in Unprocessed(i)
        BY <2>1, <3>1 DEF Unprocessed
      <4>3. QED
        BY <4>1, <4>2 DEF IInv, SnapshotsCurrent
    <3>2. CASE p \notin DOMAIN found[i]
      <4> DEFINE k == p - Len(found[i])
      <4>1. k \in DOMAIN PageRead(i) /\ scanned[p] = PageRead(i)[k]
        BY <2>2, <3>2
      <4>2. PageRead(i)[k] = build_cable_type(listing[PageStart(i) + k])
        BY <4>1 DEF PageRead
      <4>3. QED
        BY <4>1, <4>2 DEF build_cable_type
    <3>3. QED
      BY <3>1, <3>2
  <2>4. /\ batch \subseteq DOMAIN scanned
        /\ \A p \in batch : scanned[p].qty > 0
        /\ \A p, q \in batch :
              PrefixOf[scanned[p].asset] = PrefixOf[scanned[q].asset] => p = q
    BY BatchFacts
  <2>5. todo[i] = {} /\ cable[i] = NoCable
    BY <2>1, NothingInHand DEF IInv
  <2> HIDE DEF scanned, batch
  <2>6. found'[i] = scanned /\ \A j \in Instances : j # i => found'[j] = found[j]
    BY <1>n, <2>1
  <2>7. CASE todo' = todo /\ pc' = pc
    <3>1. Unprocessed(i)' = DOMAIN scanned
      BY <2>1, <2>6, <2>7 DEF Unprocessed
    <3>2. QED
      BY <2>1, <2>3, <2>5, <2>6, <2>7, <3>1, QuietStep
  <2>8. CASE todo' = [todo EXCEPT ![i] = batch] /\ Goto(i, "process")
    <3>1. /\ pc'[i] = "process" /\ todo'[i] = batch
          /\ \A j \in Instances : j # i => pc'[j] = pc[j] /\ todo'[j] = todo[j]
      BY <1>n, <2>8 DEF Goto
    <3>2. Unprocessed(i)' = batch
      BY <3>1 DEF Unprocessed
    <3>3. QED
      BY <2>1, <2>3, <2>4, <2>5, <2>6, <3>1, <3>2, QuietStep
  <2>9. QED
    BY <2>1, <2>7, <2>8
<1>3. ASSUME ReadPageFails(i) PROVE IInv'
  BY <1>3, <1>l DEF ReadPageFails, haloVars
<1>4. ASSUME TakeAsset(i) PROVE IInv'
  <2>1. PICK p \in todo[i] :
          /\ todo' = [todo EXCEPT ![i] = @ \ {p}]
          /\ \/ UNCHANGED <<pc, cable>>
             \/ /\ Valid(found[i][p])
                /\ cable' = [cable EXCEPT ![i] = found[i][p]] /\ Goto(i, "reserve")
    BY <1>4 DEF TakeAsset, StopsBeforeReserve
  <2>2. pc[i] = "process" /\ UNCHANGED <<next, late, lock, jobs, found>>
    BY <1>4 DEF TakeAsset, haloVars
  <2>3. cable[i] = NoCable /\ Unprocessed(i) = todo[i]
    BY <2>2, NothingInHand DEF IInv, Unprocessed
  <2>4. /\ todo'[i] = todo[i] \ {p}
        /\ \A j \in Instances : j # i => todo'[j] = todo[j]
    BY <1>n, <2>1
  <2>5. /\ \A q \in todo[i] : found[i][q].qty > 0
        /\ \A q \in todo[i] : found[i][q].next \in {0, next[found[i][q].asset]}
        /\ \A q, r \in todo[i] :
              PrefixOf[found[i][q].asset] = PrefixOf[found[i][r].asset] => q = r
    BY <2>3 DEF IInv, Types, WorkIsReal, SnapshotsCurrent, BatchDistinct
  <2>6. CASE UNCHANGED <<pc, cable>>
    <3>1. Unprocessed(i)' = todo'[i]
      BY <2>2, <2>6 DEF Unprocessed
    <3>2. QED
      BY <2>2, <2>3, <2>4, <2>5, <2>6, <3>1, QuietStep
  <2>7. CASE /\ Valid(found[i][p])
             /\ cable' = [cable EXCEPT ![i] = found[i][p]] /\ Goto(i, "reserve")
    <3>1. /\ pc'[i] = "reserve" /\ cable'[i] = found[i][p]
          /\ \A j \in Instances : j # i => pc'[j] = pc[j] /\ cable'[j] = cable[j]
      BY <1>n, <2>7 DEF Goto
    <3>2. found[i][p] \in CableTypes
      BY <1>n, ElementOfSeq DEF Types, TypeOK
    <3>3. /\ found[i][p].next \in Nat /\ found[i][p].next >= 1
          /\ found[i][p].next = next[found[i][p].asset]
      BY <2>5, <2>7, <3>2 DEF Valid, CableTypes
    <3>4. \A n \in DOMAIN jobs :
             jobs[n].asset = cable'[i].asset => jobs[n].last < cable'[i].next
      BY <3>1, <3>3 DEF IInv, ConsumedBeforeEnqueued
    <3>5. \A a \in Assets : next'[a] >= next[a]
      BY <1>n, <2>2
    <3>6. \A q \in todo'[i] : PrefixOf[found[i][q].asset] # PrefixOf[cable'[i].asset]
      BY <2>4, <2>5, <3>1
    <3>7. QED
      BY <2>2, <2>4, <2>7, <3>1, <3>3, <3>4, <3>5, <3>6, WorkStep DEF AtWork
  <2>8. QED
    BY <2>1, <2>6, <2>7
<1>5. ASSUME EndPoll(i) PROVE IInv'
  BY <1>5, <1>l DEF EndPoll, haloVars
<1>6. ASSUME SidecarRefused(i) PROVE IInv'
  BY <1>6, <1>l DEF SidecarRefused, haloVars
<1>7. QED
  BY <1>1, <1>2, <1>3, <1>4, <1>5, <1>6

\* A process starts only while no other runs, so what it finds is what Halo holds;
\* one that ends drops what it has.
LEMMA ProcessSteps ==
  ASSUME OneLockFile, Types, IInv, Types', NEW i \in Instances
  PROVE  /\ Start(i) => IInv'
         /\ Stop(i) => IInv'
<1>n. /\ pc \in [Instances -> {"down", "idle", "scan",
            "process", "reserve", "readback", "render", "enqueue", "report"}]
      /\ todo \in [Instances -> SUBSET Nat] /\ found \in [Instances -> Seq(CableTypes)]
      /\ next \in [Assets -> Nat] /\ DOMAIN cable = Instances
      /\ DOMAIN lock = LockFiles /\ LockOf[i] \in LockFiles
  BY ConstantsAssumption DEF Types, TypeOK
<1>a. ASSUME \A j \in Instances : j # i =>
                pc'[j] = "down" /\ found'[j] = <<>> /\ todo'[j] = {} /\ cable'[j] = NoCable,
             pc'[i] \in {"down", "idle"}, found'[i] = <<>>, todo'[i] = {}, cable'[i] = NoCable,
             pc'[i] # "down" => lock'[LockOf[i]] = i,
             UNCHANGED <<next, late, jobs>>
      PROVE  IInv'
  <2>1. \A j \in Instances :
           /\ pc'[j] \in {"down", "idle"}
           /\ found'[j] = <<>> /\ todo'[j] = {} /\ cable'[j] = NoCable
    BY <1>a
  <2>2. LockHeld' /\ late' = {}
    BY <1>a DEF IInv, LockHeld
  <2>3. SnapshotsCurrent' /\ BatchDistinct' /\ PlanCurrent'
    <3>1. \A j \in Instances : Unprocessed(j)' = {} /\ pc'[j] \notin AtWork
      BY <2>1 DEF Unprocessed, AtWork
    <3>2. QED
      BY <2>1, <3>1 DEF SnapshotsCurrent, BatchDistinct, PlanCurrent
  <2>4. JobsOwned' /\ ConsumedBeforeEnqueued'
    BY <1>a DEF IInv, JobsOwned, ConsumedBeforeEnqueued
  <2>5. QED
    BY <2>2, <2>3, <2>4 DEF IInv, Types
<1>1. ASSUME Start(i) PROVE IInv'
  <2>1. \A j \in Instances : pc[j] = "down"
    BY <1>1, ConstantsAssumption DEF Start, LockIsFree, IInv, LockHeld, OneLockFile
  <2>2. \A j \in Instances : found[j] = <<>> /\ todo[j] = {} /\ cable[j] = NoCable
    BY <2>1, NothingInHand DEF IInv
  <2>3. QED
    BY <1>1, <1>a, <1>n, <2>1, <2>2 DEF Start, Goto, haloVars
<1>2. ASSUME Stop(i) PROVE IInv'
  <2>1. \A j \in Instances : j # i =>
           pc[j] = "down" /\ found[j] = <<>> /\ todo[j] = {} /\ cable[j] = NoCable
    BY <1>2, Alone DEF Stop
  <2>2. QED
    BY <1>2, <1>a, <1>n, <2>1 DEF Stop, Goto, haloVars
<1>3. QED
  BY <1>1, <1>2

\* People change what is asked for and repair a counter that holds no number: no
\* job carries a number of it.  No write comes late.
LEMMA OutsideSteps ==
  ASSUME Types, IInv, Types'
  PROVE  /\ People => IInv'
         /\ \A w \in late : ApplyLate(w) => IInv'
         /\ UNCHANGED vars => IInv'
<1>n. next \in [Assets -> Nat] /\ \A a \in Assets : next[a] >= next[a]
  BY DEF Types, TypeOK
<1>1. ASSUME UNCHANGED <<late, serviceVars, jobs>>,
             \A a \in Assets : next'[a] = next[a] \/ (next[a] = 0 /\ next'[a] = 1)
      PROVE  IInv'
  <2>1. \A a \in Assets : next'[a] >= next[a]
    BY <1>n, <1>1
  <2>2. LockHeld' /\ late' = {} /\ BatchDistinct'
    BY <1>1 DEF IInv, LockHeld, BatchDistinct, serviceVars
  <2>3. SnapshotsCurrent'
    <3> SUFFICES ASSUME NEW j \in Instances, NEW p \in Unprocessed(j)
                 PROVE  found[j][p].next \in {0, next'[found[j][p].asset]}
      BY <1>1 DEF SnapshotsCurrent, Unprocessed, serviceVars
    <3>1. p \in DOMAIN found[j]
      BY DEF Unprocessed, Types, TypeOK
    <3>2. found[j][p] \in CableTypes
      BY <3>1, ElementOfSeq DEF Types, TypeOK
    <3>3. found[j][p].asset \in Assets
      BY <3>2 DEF CableTypes
    <3>4. found[j][p].next \in {0, next[found[j][p].asset]}
      BY DEF IInv, SnapshotsCurrent
    <3>5. QED
      BY <1>1, <3>3, <3>4
  <2>4. PlanCurrent'
    <3>1. ASSUME NEW j \in Instances, pc[j] \in AtWork
          PROVE  /\ cable[j].asset \in Assets
                 /\ pc[j] # "report" => next[cable[j].asset] >= 1
      <4>1. cable[j] \in CableTypes /\ cable[j].qty > 0
        BY <3>1 DEF Types, WorkIsReal
      <4>2. cable[j].asset \in Assets /\ cable[j].next \in Nat /\ cable[j].next >= 1
        BY <3>1, <4>1 DEF CableTypes, IInv, PlanCurrent, Valid
      <4>3. next_counter_value(cable[j]) \in Nat /\ next_counter_value(cable[j]) >= 1
        BY <4>1, <4>2, PlanFacts
      <4>4. pc[j] # "report" =>
              next[cable[j].asset] \in {cable[j].next, next_counter_value(cable[j])}
        BY <3>1 DEF IInv, PlanCurrent, AtWork
      <4>5. QED
        BY <4>2, <4>3, <4>4
    <3>2. ASSUME NEW j \in Instances, pc[j] \in AtWork, pc[j] # "report"
          PROVE  next'[cable[j].asset] = next[cable[j].asset]
      BY <1>1, <1>n, <3>1, <3>2
    <3>3. QED
      BY <1>1, <3>2 DEF IInv, PlanCurrent, AtWork, serviceVars, Valid,
                        next_counter_value, LastNumber, clamp_qty
  <2>5. JobsOwned' /\ ConsumedBeforeEnqueued'
    BY <1>1, <2>1, JobsKept DEF Types
  <2>6. QED
    BY <2>2, <2>3, <2>4, <2>5 DEF IInv, Types
<1>2. ASSUME People PROVE IInv'
  <2>1. UNCHANGED <<late, serviceVars, jobs>>
    BY <1>2 DEF People, RepairCounter, Request, JoinGroup, LeaveGroup, Moves
  <2>2. \A a \in Assets : next'[a] = next[a] \/ (next[a] = 0 /\ next'[a] = 1)
    BY <1>2, <1>n DEF People, RepairCounter, Request, JoinGroup, LeaveGroup, Moves, haloVars
  <2>3. QED
    BY <1>1, <2>1, <2>2
<1>3. ASSUME NEW w \in late PROVE FALSE
  BY <1>3 DEF IInv
<1>4. ASSUME UNCHANGED vars PROVE IInv'
  BY <1>1, <1>4 DEF vars, serviceVars
<1>5. QED
  BY <1>2, <1>3, <1>4

LEMMA IInvInductive ==
  ASSUME OneLockFile, NoLateWrites
  PROVE  /\ Init => IInv
         /\ Types /\ IInv /\ [Next]_vars => IInv'
<1>1. ASSUME Init PROVE IInv
  <2>1. /\ \A i \in Instances : pc[i] = "down" /\ todo[i] = {} /\ cable[i] = NoCable
                                /\ found[i] = <<>>
        /\ DOMAIN jobs = {} /\ late = {}
    BY <1>1 DEF Init
  <2>2. LockHeld /\ WorkIsReal /\ BatchDistinct /\ PlanCurrent /\ SnapshotsCurrent
    BY <2>1 DEF LockHeld, WorkIsReal, BatchDistinct, PlanCurrent, SnapshotsCurrent,
                Unprocessed, AtWork
  <2>3. QED
    BY <2>1, <2>2 DEF IInv, JobsOwned, ConsumedBeforeEnqueued
<1>2. ASSUME Types, IInv, [Next]_vars PROVE IInv'
  <2>1. Types'
    BY <1>2, TypesInductive
  <2>2. ASSUME NEW i \in Instances, Step(i) PROVE IInv'
    BY <1>2, <2>1, <2>2, PollSteps, WorkSteps DEF Step
  <2>3. QED
    BY <1>2, <2>1, <2>2, ProcessSteps, OutsideSteps DEF Next
<1>3. QED
  BY <1>1, <1>2

\* Where only process_asset at its enqueue may add to the queue, nothing else does.
LEMMA JobsOnlyEnqueued ==
  ASSUME [Next]_vars, jobs' # jobs
  PROVE  \E i \in Instances : Enqueue(i)
<1>1. ~People /\ ~(\E w \in late : ApplyLate(w)) /\ ~(UNCHANGED vars)
  BY DEF People, RepairCounter, Request, JoinGroup, LeaveGroup, Moves, ApplyLate, vars
<1>2. PICK i \in Instances : Start(i) \/ Stop(i) \/ Step(i)
  BY <1>1 DEF Next
<1>3. ~Start(i) /\ ~Stop(i)
  BY DEF Start, Stop
<1>4. ~BeginPoll(i) /\ ~ReadPage(i) /\ ~ReadPageFails(i) /\ ~TakeAsset(i) /\ ~EndPoll(i)
  BY DEF BeginPoll, ReadPage, ReadPageFails, TakeAsset, EndPoll
<1>5. ~ReserveApplied(i) /\ ~ReserveIgnored(i) /\ ~ReserveRaises(i)
  BY DEF ReserveApplied, ReserveIgnored, ReserveRaises
<1>6. ~ReadBack(i) /\ ~ReadBackRaises(i) /\ ~Render(i) /\ ~RenderRaises(i)
  BY DEF ReadBack, ReadBackRaises, Render, RenderRaises
<1>7. ~SidecarRefused(i) /\ ~EnqueueRaises(i) /\ ~Report(i)
  BY DEF SidecarRefused, EnqueueRaises, Report
<1>8. QED
  BY <1>2, <1>3, <1>4, <1>5, <1>6, <1>7 DEF Step

\* A job that is added carries numbers above those of every job of its family.
LEMMA NoCollisionKept ==
  ASSUME PrefixesAreDistinct, Types, IInv, NoCollision, [Next]_vars
  PROVE  NoCollision'
<1>1. CASE jobs' = jobs
  BY <1>1 DEF NoCollision
<1>2. CASE jobs' # jobs
  <2>1. PICK i \in Instances : Enqueue(i)
    BY <1>2, JobsOnlyEnqueued
  <2> DEFINE c == cable[i]
  <2>2. pc[i] = "enqueue" /\ pc[i] \in AtWork /\ jobs' = Append(jobs, BlockOf(c))
    BY <2>1 DEF Enqueue, AtWork
  <2>3. c \in CableTypes /\ c.qty > 0 /\ Valid(c)
    BY <2>2 DEF Types, WorkIsReal, IInv, PlanCurrent
  <2>4. \A n \in DOMAIN jobs : jobs[n].asset = c.asset => jobs[n].last < c.next
    BY <2>2 DEF IInv, PlanCurrent
  <2> HIDE DEF c
  <2>5. jobs \in Seq(Blocks) /\ BlockOf(c) \in Blocks
    BY <2>3, WriteType DEF Types, TypeOK
  <2>6. /\ DOMAIN jobs' = DOMAIN jobs \cup {Len(jobs) + 1}
        /\ jobs'[Len(jobs) + 1] = BlockOf(c)
        /\ \A n \in DOMAIN jobs : jobs'[n] = jobs[n] /\ n < Len(jobs) + 1
        /\ DOMAIN jobs \subseteq Nat /\ Len(jobs) \in Nat
    BY <2>2, <2>5
  <2>7. BlockOf(c).asset = c.asset /\ BlockOf(c).first = c.next
    BY DEF BlockOf
  <2> SUFFICES ASSUME NEW m \in DOMAIN jobs', NEW n \in DOMAIN jobs', m < n,
                      PrefixOf[jobs'[m].asset] = PrefixOf[jobs'[n].asset]
               PROVE  jobs'[m].last < jobs'[n].first \/ jobs'[n].last < jobs'[m].first
    BY DEF NoCollision
  <2>8. m \in DOMAIN jobs
    BY <2>6
  <2>9. CASE n \in DOMAIN jobs
    BY <2>6, <2>8, <2>9 DEF NoCollision
  <2>10. CASE n = Len(jobs) + 1
    <3>1. jobs[m] \in Blocks
      BY <2>5, <2>8
    <3>2. jobs[m].asset \in Assets /\ c.asset \in Assets
      BY <2>3, <3>1 DEF Blocks, CableTypes
    <3>3. PrefixOf[jobs[m].asset] = PrefixOf[c.asset] /\ PrefixOf[c.asset] \notin BadPrefixes
      BY <2>3, <2>6, <2>7, <2>8, <2>10 DEF Valid
    <3>4. jobs[m].asset = c.asset
      BY <3>2, <3>3 DEF PrefixesAreDistinct
    <3>5. QED
      BY <2>4, <2>6, <2>7, <2>8, <2>10, <3>4
  <2>11. QED
    BY <2>6, <2>9, <2>10
<1>3. QED
  BY <1>1, <1>2

LEMMA SnapshotsHold ==
  ASSUME OneLockFile, NoLateWrites
  PROVE  Spec => [](Types /\ IInv)
<1>1. Init => Types /\ IInv
  BY TypesInductive, IInvInductive
<1>2. Types /\ IInv /\ [Next]_vars => Types' /\ IInv'
  BY TypesInductive, IInvInductive
<1>3. QED
  BY <1>1, <1>2, PTL DEF Spec

\* Identifiers are reserved before anything is rendered, for any number of families,
\* processes, requests and failures: a number on a job is one the counter has left
\* behind (allocator.reserve), when the processes share one lock file and no
\* reserve write is applied after its caller gave it up.
THEOREM ConsumedFirst ==
  ASSUME OneLockFile, NoLateWrites
  PROVE  Spec => []ConsumedBeforeEnqueued
<1>1. IInv => ConsumedBeforeEnqueued
  BY DEF IInv
<1>2. QED
  BY <1>1, SnapshotsHold, PTL

\* README, guarantee 1, "gaps, never collisions": when moreover no two families
\* carry one prefix, no identifier is on two jobs.
THEOREM NeverReissued ==
  ASSUME OneLockFile, NoLateWrites, PrefixesAreDistinct
  PROVE  Spec => []NoCollision
<1>1. Init => NoCollision
  BY DEF Init, NoCollision
<1>2. Types /\ IInv /\ NoCollision /\ [Next]_vars => NoCollision'
  BY NoCollisionKept
<1>3. QED
  BY <1>1, <1>2, SnapshotsHold, PTL DEF Spec

=============================================================================
