-------------------------- MODULE Numbering_proofs --------------------------
(***************************************************************************)
(* What follows from the invariants of Allocator_proofs: no request is     *)
(* lost or served twice, rehearsals consume nothing, and the service with  *)
(* Halo implements CableNumbers.                                           *)
(***************************************************************************)
EXTENDS Allocator_proofs

\* The cable type at work is one that was read, and validate has passed it.
LEMMA AtWorkFacts ==
  ASSUME Types, IInv, NEW i \in Instances, pc[i] \in AtWork
  PROVE  /\ cable[i] \in CableTypes /\ cable[i].qty > 0 /\ cable[i] # NoCable
         /\ cable[i].asset \in Assets /\ cable[i].next \in Nat /\ cable[i].next >= 1
         /\ next_counter_value(cable[i]) \in Nat
         /\ next_counter_value(cable[i]) = LastNumber(cable[i]) + 1
         /\ LastNumber(cable[i]) \in Nat /\ LastNumber(cable[i]) >= cable[i].next
<1>1. cable[i] \in CableTypes /\ cable[i].qty > 0
  BY DEF Types, WorkIsReal
<1>2. cable[i].asset \in Assets /\ cable[i].next \in Nat /\ cable[i] # NoCable
  BY <1>1 DEF CableTypes, NoCable
<1>3. Valid(cable[i])
  BY DEF IInv, PlanCurrent
<1>4. QED
  BY <1>1, <1>2, <1>3, PlanFacts DEF Valid

\* What was read and not yet processed is a cable type.
LEMMA SnapshotType ==
  ASSUME TypeOK, NEW i \in Instances, NEW p \in Unprocessed(i)
  PROVE  found[i][p] \in CableTypes /\ found[i][p].asset \in Assets /\ found[i][p].qty \in Nat
<1>1. p \in DOMAIN found[i] /\ found[i] \in Seq(CableTypes)
  BY DEF TypeOK, Unprocessed
<1>2. found[i][p] \in CableTypes
  BY <1>1, ElementOfSeq
<1>3. QED
  BY <1>2 DEF CableTypes

-----------------------------------------------------------------------------
(* Every cable asked for is flagged or numbered.  The reserve write        *)
(* overwrites both fields with values computed from what was read, so it   *)
(* conserves them because what was read is still there (SnapshotsCurrent,  *)
(* RequestsCurrent).                                                       *)

\* Steps that leave Halo's fields and the requests alone, and read nothing.
LEMMA NothingAsked ==
  ASSUME AskedInv, UNCHANGED <<next, qty, asked>>,
         \A j \in Instances :
            /\ \A p \in Unprocessed(j)' :
                  p \in Unprocessed(j) /\ found'[j][p] = found[j][p]
            /\ pc'[j] = "reserve" => pc[j] = "reserve" /\ cable'[j] = cable[j]
  PROVE  AskedInv'
<1>1. RequestsCurrent'
  BY DEF AskedInv, RequestsCurrent
<1>2. CountersStand' /\ RequestsConserved'
  BY DEF AskedInv, CountersStand, RequestsConserved, Consumed, FirstCounter
<1>3. QED
  BY <1>1, <1>2 DEF AskedInv

\* The same for a process that gives up an asset, or its whole batch.
LEMMA LeavePollAsked ==
  ASSUME Types, AskedInv, NEW i \in Instances, LeavePoll(i), UNCHANGED <<next, qty, asked>>
  PROVE  AskedInv'
<1>1. /\ pc'[i] = "idle" /\ todo'[i] = {}
      /\ \A j \in Instances : j # i =>
            /\ pc'[j] = pc[j] /\ todo'[j] = todo[j]
            /\ found'[j] = found[j] /\ cable'[j] = cable[j]
  BY DEF LeavePoll, Goto, Types, TypeOK
<1>2. QED
  BY <1>1, NothingAsked DEF Unprocessed

LEMMA GotoAsked ==
  ASSUME Types, AskedInv, NEW i \in Instances, NEW label, label \notin {"scan", "reserve"},
         Goto(i, label), pc[i] # "scan",
         UNCHANGED <<next, qty, asked, found, todo>>,
         \A j \in Instances : j # i => cable'[j] = cable[j]
  PROVE  AskedInv'
<1>1. pc'[i] = label /\ \A j \in Instances : j # i => pc'[j] = pc[j]
  BY DEF Goto, Types, TypeOK
<1>2. QED
  BY <1>1, NothingAsked DEF Unprocessed

LEMMA AssetDoneAsked ==
  ASSUME Types, AskedInv, NEW i \in Instances, AssetDone(i), pc[i] # "scan",
         UNCHANGED <<next, qty, asked, found, todo>>
  PROVE  AskedInv'
<1>1. \A j \in Instances : j # i => cable'[j] = cable[j]
  BY DEF AssetDone, Types, TypeOK
<1>2. QED
  BY <1>1, GotoAsked DEF AssetDone

\* A technician asks for more, where nothing was asked for; a person repairs a
\* counter that never held a number.
LEMMA PeopleAsked ==
  ASSUME ~EditsWhilePending, Types, IInv, AskedInv, People
  PROVE  AskedInv'
<1>n. /\ next \in [Assets -> Nat] /\ qty \in [Assets -> Nat] /\ asked \in [Assets -> Int]
      /\ Counters \in [Assets -> Nat]
  BY ConstantsAssumption DEF Types, TypeOK
<1>1. ASSUME NEW a \in Assets, RepairCounter(a) PROVE AskedInv'
  <2>1. /\ next[a] = 0 /\ next' = [next EXCEPT ![a] = 1]
        /\ UNCHANGED <<qty, asked, pc, found, todo, cable>>
    BY <1>1 DEF RepairCounter, serviceVars
  <2>2. Counters[a] = 0
    BY <2>1 DEF AskedInv, CountersStand
  <2>3. RequestsCurrent'
    BY <2>1 DEF AskedInv, RequestsCurrent, Unprocessed
  <2>4. CountersStand'
    BY <1>n, <2>1 DEF AskedInv, CountersStand
  <2>5. \A b \in Assets : Consumed(b)' = Consumed(b)
    BY <1>n, <2>1, <2>2 DEF Consumed, FirstCounter
  <2>6. QED
    BY <2>1, <2>3, <2>4, <2>5 DEF AskedInv, RequestsConserved
<1>2. ASSUME NEW a \in Assets, NEW n \in 0..MaxQty, Request(a, n) PROVE AskedInv'
  <2>1. /\ qty[a] = 0 /\ n \in Nat /\ qty' = [qty EXCEPT ![a] = n]
        /\ asked' = [asked EXCEPT ![a] = @ - qty[a] + n]
        /\ UNCHANGED <<next, pc, found, todo, cable>>
    BY <1>2, ConstantsAssumption DEF Request, serviceVars
  <2>2. RequestsCurrent'
    <3> SUFFICES ASSUME NEW i \in Instances
                 PROVE  /\ \A p \in Unprocessed(i) :
                             found[i][p].qty > 0 => qty'[found[i][p].asset] = found[i][p].qty
                        /\ pc[i] = "reserve" => qty'[cable[i].asset] = cable[i].qty
      BY <2>1 DEF RequestsCurrent, Unprocessed
    <3>1. ASSUME NEW p \in Unprocessed(i), found[i][p].qty > 0
          PROVE  qty'[found[i][p].asset] = found[i][p].qty
      <4>1. qty[found[i][p].asset] = found[i][p].qty
        BY <3>1 DEF AskedInv, RequestsCurrent
      <4>2. QED
        BY <1>n, <2>1, <3>1, <4>1, SnapshotType DEF Types
    <3>2. ASSUME pc[i] = "reserve" PROVE qty'[cable[i].asset] = cable[i].qty
      <4>1. cable[i].asset \in Assets /\ cable[i].qty > 0
        BY <3>2, AtWorkFacts DEF AtWork
      <4>2. qty[cable[i].asset] = cable[i].qty
        BY <3>2 DEF AskedInv, RequestsCurrent
      <4>3. QED
        BY <1>n, <2>1, <4>1, <4>2
    <3>3. QED
      BY <3>1, <3>2
  <2>3. CountersStand'
    BY <2>1 DEF AskedInv, CountersStand
  <2>4. \A b \in Assets : Consumed(b)' = Consumed(b)
    BY <2>1 DEF Consumed, FirstCounter
  <2>5. \A b \in Assets : Consumed(b) \in Int
    BY <1>n DEF Consumed, FirstCounter
  <2>6. \A b \in Assets : asked'[b] = qty'[b] + Consumed(b)
    BY <1>n, <2>1, <2>5 DEF AskedInv, RequestsConserved
  <2>7. QED
    BY <2>2, <2>3, <2>4, <2>6 DEF AskedInv, RequestsConserved
<1>3. ASSUME Moves PROVE AskedInv'
  BY <1>3, NothingAsked DEF Moves, haloVars, serviceVars, Unprocessed
<1>4. QED
  BY <1>1, <1>2, <1>3 DEF People, JoinGroup, LeaveGroup

\* The reserve write, with what Halo then holds of the asset.
LEMMA WriteAsked ==
  ASSUME OneLockFile, Types, IInv, AskedInv, NEW i \in Instances, pc[i] = "reserve",
         Apply(ReserveWrite(cable[i])),
         UNCHANGED <<asked, found, todo>>, pc'[i] \notin {"scan", "reserve"},
         \A j \in Instances : j # i => pc'[j] = pc[j]
  PROVE  AskedInv'
<1> DEFINE c == cable[i]
<1>1. /\ c \in CableTypes /\ c.qty > 0 /\ c # NoCable
      /\ c.asset \in Assets /\ c.next \in Nat /\ c.next >= 1
      /\ next_counter_value(c) = LastNumber(c) + 1
  BY AtWorkFacts DEF AtWork
<1>2. /\ clamp_qty(c) \in Nat /\ c.qty \in Nat
      /\ Remaining(c) = c.qty - clamp_qty(c) /\ LastNumber(c) = c.next + clamp_qty(c) - 1
  BY <1>1, PlanFacts DEF CableTypes, LastNumber
<1>3. next[c.asset] = c.next
  BY DEF IInv, PlanCurrent, AtWork
<1>4. qty[c.asset] = c.qty
  BY DEF AskedInv, RequestsCurrent
<1>5. \A p \in todo[i] : PrefixOf[found[i][p].asset] # PrefixOf[c.asset]
  BY <1>1 DEF IInv, BatchDistinct
<1>6. /\ next' = [next EXCEPT ![c.asset] = next_counter_value(c)]
      /\ qty'  = [qty EXCEPT ![c.asset] = Remaining(c)]
  BY DEF Apply, ReserveWrite
<1>a. \A j \in Instances : j # i => pc[j] = "down" /\ Unprocessed(j) = {}
  BY Alone
<1> HIDE DEF c
<1>n. /\ next \in [Assets -> Nat] /\ qty \in [Assets -> Nat] /\ asked \in [Assets -> Int]
      /\ Counters \in [Assets -> Nat]
  BY ConstantsAssumption DEF Types, TypeOK
<1>7. /\ next'[c.asset] = c.next + clamp_qty(c) /\ qty'[c.asset] = c.qty - clamp_qty(c)
      /\ \A a \in Assets : a # c.asset => next'[a] = next[a] /\ qty'[a] = qty[a]
  BY <1>1, <1>2, <1>6, <1>n
<1>8. RequestsCurrent'
  <2> SUFFICES ASSUME NEW j \in Instances, NEW p \in Unprocessed(j)', found[j][p].qty > 0
               PROVE  qty'[found[j][p].asset] = found[j][p].qty
    BY <1>a DEF RequestsCurrent
  <2>1. j = i /\ p \in todo[i] /\ p \in Unprocessed(i)
    BY <1>a DEF Unprocessed
  <2>2. found[i][p].asset \in Assets /\ found[i][p].asset # c.asset
    BY <1>5, <2>1, SnapshotType DEF Types
  <2>3. QED
    BY <1>7, <2>1, <2>2 DEF AskedInv, RequestsCurrent
<1>9. CountersStand'
  BY <1>1, <1>2, <1>7 DEF AskedInv, CountersStand
<1>10. RequestsConserved'
  <2> SUFFICES ASSUME NEW a \in Assets PROVE asked[a] = qty'[a] + Consumed(a)'
    BY DEF RequestsConserved
  <2>1. asked[a] = qty[a] + Consumed(a)
    BY DEF AskedInv, RequestsConserved
  <2>2. CASE a # c.asset
    BY <1>7, <2>1, <2>2 DEF Consumed, FirstCounter
  <2>3. CASE a = c.asset
    BY <1>1, <1>2, <1>3, <1>4, <1>7, <1>n, <2>1, <2>3 DEF Consumed, FirstCounter
  <2>4. QED
    BY <2>2, <2>3
<1>11. QED
  BY <1>8, <1>9, <1>10 DEF AskedInv

LEMMA StepAsked ==
  ASSUME OneLockFile, NoLateWrites, Types, IInv, AskedInv, NEW i \in Instances, Step(i)
  PROVE  AskedInv'
<1> USE DEF haloVars
<1>n. /\ DOMAIN pc = Instances /\ DOMAIN found = Instances /\ DOMAIN todo = Instances
      /\ DOMAIN cable = Instances
  BY DEF Types, TypeOK
<1>1. CASE BeginPoll(i)
  <2>1. found[i] = <<>>
    BY <1>1, NothingInHand DEF BeginPoll, IInv
  <2>2. pc[i] = "idle" /\ pc'[i] = "scan" /\ \A j \in Instances : j # i => pc'[j] = pc[j]
    BY <1>1, <1>n DEF BeginPoll, Goto
  <2>3. UNCHANGED <<next, qty, asked, found, todo, cable>>
    BY <1>1 DEF BeginPoll
  <2>4. QED
    BY <2>1, <2>2, <2>3, NothingAsked DEF Unprocessed
<1>2. CASE ReadPage(i)
  <2> DEFINE scanned == found[i] \o PageRead(i)
             batch   == apply_batch_cap(veto_duplicate_prefixes(scanned))
  <2>1. /\ pc[i] = "scan" /\ UNCHANGED <<next, qty, asked, cable>>
        /\ found' = [found EXCEPT ![i] = scanned]
        /\ \/ todo' = todo /\ pc' = pc
           \/ todo' = [todo EXCEPT ![i] = batch] /\ Goto(i, "process")
    BY <1>2 DEF ReadPage
  <2>2. found[i] \in Seq(CableTypes) /\ PageRead(i) \in Seq(CableTypes)
    BY PageType DEF Types, TypeOK
  <2>3. \A p \in DOMAIN scanned :
           scanned[p].qty > 0 => qty[scanned[p].asset] = scanned[p].qty
    <3> SUFFICES ASSUME NEW p \in DOMAIN scanned, scanned[p].qty > 0
                 PROVE  qty[scanned[p].asset] = scanned[p].qty
      OBVIOUS
    <3>1. CASE p \in DOMAIN found[i]
      <4>1. scanned[p] = found[i][p] /\ p \in Unprocessed(i)
        BY <2>1, <2>2, <3>1 DEF Unprocessed
      <4>2. QED
        BY <4>1 DEF AskedInv, RequestsCurrent
    <3>2. CASE p \notin DOMAIN found[i]
      <4> DEFINE k == p - Len(found[i])
      <4>1. k \in DOMAIN PageRead(i) /\ scanned[p] = PageRead(i)[k]
        BY <2>2, <3>2
      <4>2. PageRead(i)[k] = build_cable_type(listing[PageStart(i) + k])
        BY <4>1 DEF PageRead
      <4>3. QED
        BY <4>1, <4>2 DEF build_cable_type
    <3>3. QED
      BY <3>1, <3>2
  <2>4. batch \subseteq DOMAIN scanned
    BY BatchFacts
  <2> HIDE DEF scanned, batch
  <2>5. /\ Unprocessed(i)' \subseteq DOMAIN scanned /\ found'[i] = scanned
        /\ pc'[i] \in {"scan", "process"}
        /\ \A j \in Instances : j # i =>
              /\ pc'[j] = pc[j] /\ found'[j] = found[j] /\ Unprocessed(j)' = Unprocessed(j)
    BY <1>n, <2>1, <2>4 DEF Unprocessed, Goto
  <2>6. RequestsCurrent'
    BY <2>1, <2>3, <2>5 DEF AskedInv, RequestsCurrent
  <2>7. CountersStand' /\ RequestsConserved'
    BY <2>1 DEF AskedInv, CountersStand, RequestsConserved, Consumed, FirstCounter
  <2>8. QED
    BY <2>6, <2>7 DEF AskedInv
<1>3. CASE TakeAsset(i)
  <2>1. PICK p \in todo[i] :
          /\ todo' = [todo EXCEPT ![i] = @ \ {p}]
          /\ \/ UNCHANGED <<pc, cable>>
             \/ cable' = [cable EXCEPT ![i] = found[i][p]] /\ Goto(i, "reserve")
    BY <1>3 DEF TakeAsset
  <2>2. pc[i] = "process" /\ UNCHANGED <<next, qty, asked, found>>
    BY <1>3 DEF TakeAsset
  <2>3. todo'[i] \subseteq todo[i] /\ \A j \in Instances : j # i => todo'[j] = todo[j]
    BY <1>n, <2>1
  <2>4. CASE UNCHANGED <<pc, cable>>
    BY <2>2, <2>3, <2>4, NothingAsked DEF Unprocessed
  <2>5. CASE cable' = [cable EXCEPT ![i] = found[i][p]] /\ Goto(i, "reserve")
    <3>1. /\ pc'[i] = "reserve" /\ cable'[i] = found[i][p]
          /\ \A j \in Instances : j # i => pc'[j] = pc[j] /\ cable'[j] = cable[j]
      BY <1>n, <2>5 DEF Goto
    <3>2. p \in Unprocessed(i) /\ found[i][p].qty > 0
      BY <2>2 DEF Unprocessed, Types, WorkIsReal
    <3>3. qty[found[i][p].asset] = found[i][p].qty
      BY <3>2 DEF AskedInv, RequestsCurrent
    <3>4. \A j \in Instances : Unprocessed(j)' \subseteq Unprocessed(j)
      BY <2>2, <2>3, <3>1 DEF Unprocessed
    <3>5. RequestsCurrent'
      BY <2>2, <3>1, <3>3, <3>4 DEF AskedInv, RequestsCurrent
    <3>6. CountersStand' /\ RequestsConserved'
      BY <2>2 DEF AskedInv, CountersStand, RequestsConserved, Consumed, FirstCounter
    <3>7. QED
      BY <3>5, <3>6 DEF AskedInv
  <2>6. QED
    BY <2>1, <2>4, <2>5
<1>4. CASE ReadPageFails(i) \/ EndPoll(i) \/ SidecarRefused(i)
  BY <1>4, LeavePollAsked DEF ReadPageFails, EndPoll, SidecarRefused
<1>5. CASE ReserveApplied(i)
  <2>1. pc'[i] = "readback" /\ \A j \in Instances : j # i => pc'[j] = pc[j]
    BY <1>5, <1>n DEF ReserveApplied, Goto
  <2>2. QED
    BY <1>5, <2>1, WriteAsked DEF ReserveApplied
<1>6. CASE ReserveIgnored(i)
  BY <1>6, GotoAsked DEF ReserveIgnored
<1>7. CASE ReserveRaises(i)
  <2>1. CASE UNCHANGED haloVars
    BY <1>7, <2>1, AssetDoneAsked DEF ReserveRaises
  <2>2. CASE Apply(ReserveWrite(cable[i]))
    <3>1. pc'[i] = "process" /\ \A j \in Instances : j # i => pc'[j] = pc[j]
      BY <1>7, <1>n DEF ReserveRaises, AssetDone, Goto
    <3>2. QED
      BY <1>7, <2>2, <3>1, WriteAsked DEF ReserveRaises
  <2>3. QED
    BY <1>7, <2>1, <2>2 DEF ReserveRaises, Fault, NoLateWrites
<1>8. CASE ReadBack(i)
  BY <1>8, GotoAsked, AssetDoneAsked DEF ReadBack
<1>9. CASE Render(i)
  BY <1>9, GotoAsked, AssetDoneAsked DEF Render
<1>10. CASE EnqueueRaises(i)
  BY <1>10, GotoAsked DEF EnqueueRaises
<1>11. CASE ReadBackRaises(i) \/ RenderRaises(i) \/ Enqueue(i) \/ Report(i)
  BY <1>11, AssetDoneAsked DEF ReadBackRaises, RenderRaises, Enqueue, Report
<1>12. QED
  BY <1>1, <1>2, <1>3, <1>4, <1>5, <1>6, <1>7, <1>8, <1>9, <1>10, <1>11 DEF Step

LEMMA AskedInductive ==
  ASSUME OneLockFile, NoLateWrites, ~EditsWhilePending
  PROVE  /\ Init => AskedInv
         /\ Types /\ IInv /\ AskedInv /\ [Next]_vars => AskedInv'
<1>1. ASSUME Init PROVE AskedInv
  <2>1. RequestsCurrent
    BY <1>1 DEF Init, RequestsCurrent, Unprocessed
  <2>2. CountersStand /\ RequestsConserved
    BY <1>1, ConstantsAssumption
       DEF Init, CountersStand, RequestsConserved, Consumed, FirstCounter
  <2>3. QED
    BY <2>1, <2>2 DEF AskedInv
<1>2. ASSUME Types, IInv, AskedInv, [Next]_vars PROVE AskedInv'
  <2>1. ASSUME NEW i \in Instances, Start(i) PROVE AskedInv'
    <3>1. found[i] = <<>> /\ todo[i] = {}
      BY <1>2, <2>1, NothingInHand DEF Start, IInv
    <3>2. pc'[i] = "idle" /\ \A j \in Instances : j # i => pc'[j] = pc[j]
      BY <1>2, <2>1 DEF Start, Goto, Types, TypeOK
    <3>3. UNCHANGED <<next, qty, asked, found, todo, cable>>
      BY <2>1 DEF Start, haloVars
    <3>4. QED
      BY <1>2, <3>1, <3>2, <3>3, NothingAsked DEF Unprocessed
  <2>2. ASSUME NEW i \in Instances, Stop(i) PROVE AskedInv'
    <3>1. /\ pc'[i] = "down" /\ todo'[i] = {}
          /\ \A j \in Instances : j # i =>
                /\ pc'[j] = pc[j] /\ todo'[j] = todo[j]
                /\ found'[j] = found[j] /\ cable'[j] = cable[j]
      BY <1>2, <2>2 DEF Stop, Goto, Types, TypeOK
    <3>2. UNCHANGED <<next, qty, asked>>
      BY <2>2 DEF Stop, haloVars
    <3>3. QED
      BY <1>2, <3>1, <3>2, NothingAsked DEF Unprocessed
  <2>3. CASE UNCHANGED vars
    BY <1>2, <2>3, NothingAsked DEF vars, Unprocessed
  <2>4. ~(\E w \in late : ApplyLate(w))
    BY <1>2 DEF IInv
  <2>5. QED
    BY <1>2, <2>1, <2>2, <2>3, <2>4, PeopleAsked, StepAsked DEF Next
<1>3. QED
  BY <1>1, <1>2

\* The counter and the trigger move together: at all times every cable a family has
\* been asked for is still flagged on its record or has its number, never both and
\* never neither, for any number of families, polls, batches, crashes and failed
\* writes (allocator.reserve), when nobody edits a request that is still pending.
THEOREM RequestsKept ==
  ASSUME OneLockFile, NoLateWrites, ~EditsWhilePending
  PROVE  Spec => []RequestsConserved
<1>1. Init => AskedInv
  BY AskedInductive
<1>2. Types /\ IInv /\ AskedInv /\ [Next]_vars => AskedInv'
  BY AskedInductive
<1>3. AskedInv => RequestsConserved
  BY DEF AskedInv
<1>4. QED
  BY <1>1, <1>2, <1>3, SnapshotsHold, PTL DEF Spec

-----------------------------------------------------------------------------
(* Rehearsals.  The mode is read at the start of the process and looked at *)
(* twice: before the reserve (shadow) and after the render (dry).          *)

LEMMA ModesInductive ==
  ASSUME NoLateWrites
  PROVE  /\ Init => ModesHeld /\ late = {}
         /\ TypeOK /\ ModesHeld /\ late = {} /\ [Next]_vars => ModesHeld' /\ late' = {}
<1>1. ASSUME Init PROVE ModesHeld /\ late = {}
  BY <1>1 DEF Init, ModesHeld, AtWork
<1>2. ASSUME TypeOK, ModesHeld, late = {}, [Next]_vars PROVE ModesHeld' /\ late' = {}
  <2>n. pc \in [Instances -> {"down", "idle", "scan", "process", "reserve", "readback",
                              "render", "enqueue", "report"}]
        /\ DOMAIN mode = Instances /\ "off" \notin Modes
    BY <1>2, ConstantsAssumption DEF TypeOK
  <2>1. ASSUME NEW i \in Instances, Start(i) PROVE ModesHeld' /\ late' = {}
    <3>1. pc'[i] = "idle" /\ mode'[i] \in Modes /\ UNCHANGED late
          /\ \A j \in Instances : j # i => pc'[j] = pc[j] /\ mode'[j] = mode[j]
      BY <2>1, <2>n DEF Start, Goto
    <3>2. QED
      BY <1>2, <3>1 DEF ModesHeld, AtWork
  <2>2. ASSUME NEW i \in Instances, Stop(i) PROVE ModesHeld' /\ late' = {}
    <3>1. pc'[i] = "down" /\ UNCHANGED late
          /\ \A j \in Instances : j # i => pc'[j] = pc[j] /\ mode'[j] = mode[j]
      BY <2>2, <2>n DEF Stop, Goto
    <3>2. QED
      BY <1>2, <3>1 DEF ModesHeld, AtWork
  \* A step of the loop to a place where the mode is known to allow it.
  <2>m. ASSUME NEW i \in Instances, UNCHANGED <<mode, late>>,
               \A j \in Instances : j # i => pc'[j] = pc[j],
               pc'[i] # "down" => mode[i] \in Modes,
               pc'[i] \in AtWork => mode[i] # "shadow",
               pc'[i] \in {"enqueue", "report"} => mode[i] # "dry"
        PROVE  ModesHeld' /\ late' = {}
    BY <1>2, <2>m DEF ModesHeld
  <2>3. ASSUME NEW i \in Instances, Step(i) PROVE ModesHeld' /\ late' = {}
    <3>g. ASSUME NEW label, Goto(i, label)
          PROVE  pc'[i] = label /\ \A j \in Instances : j # i => pc'[j] = pc[j]
      BY <2>n, <3>g DEF Goto
    <3>1. /\ pc[i] # "down" => mode[i] \in Modes
          /\ pc[i] \in AtWork => mode[i] # "shadow"
          /\ pc[i] \in {"enqueue", "report"} => mode[i] # "dry"
      BY <1>2 DEF ModesHeld
    <3>2. CASE BeginPoll(i) \/ ReadPage(i) \/ ReadPageFails(i) \/ EndPoll(i) \/ SidecarRefused(i)
      <4>1. pc'[i] \in {"idle", "scan", "process"} /\ pc[i] # "down" /\ UNCHANGED <<mode, late>>
            /\ \A j \in Instances : j # i => pc'[j] = pc[j]
        BY <3>2, <3>g DEF BeginPoll, ReadPage, ReadPageFails, EndPoll, SidecarRefused, LeavePoll
      <4>2. QED
        BY <2>m, <3>1, <4>1 DEF AtWork
    <3>3. CASE TakeAsset(i)
      <4>1. pc[i] = "process" /\ UNCHANGED <<mode, late>>
            /\ \/ UNCHANGED pc
               \/ mode[i] # "shadow" /\ Goto(i, "reserve")
        BY <3>3 DEF TakeAsset, StopsBeforeReserve
      <4>2. CASE UNCHANGED pc
        BY <1>2, <4>1, <4>2 DEF ModesHeld
      <4>3. CASE mode[i] # "shadow" /\ Goto(i, "reserve")
        BY <2>m, <3>1, <3>g, <4>1, <4>3 DEF AtWork
      <4>4. QED
        BY <4>1, <4>2, <4>3
    <3>4. CASE ReserveApplied(i) \/ ReserveIgnored(i) \/ ReserveRaises(i)
      <4>1. pc'[i] \in {"readback", "process"} /\ pc[i] = "reserve" /\ UNCHANGED <<mode, late>>
            /\ \A j \in Instances : j # i => pc'[j] = pc[j]
        BY <3>4, <3>g DEF ReserveApplied, ReserveIgnored, ReserveRaises, AssetDone,
                          Fault, NoLateWrites
      <4>2. QED
        BY <2>m, <3>1, <4>1 DEF AtWork
    <3>5. CASE ReadBack(i) \/ ReadBackRaises(i) \/ RenderRaises(i)
      <4>1. pc'[i] \in {"render", "process"} /\ pc[i] \in {"readback", "render"}
            /\ UNCHANGED <<mode, late>> /\ \A j \in Instances : j # i => pc'[j] = pc[j]
        BY <3>5, <3>g DEF ReadBack, ReadBackRaises, RenderRaises, AssetDone
      <4>2. QED
        BY <2>m, <3>1, <4>1 DEF AtWork
    <3>6. CASE Render(i)
      <4>1. /\ pc'[i] = "process" \/ (pc'[i] = "enqueue" /\ mode[i] # "dry")
            /\ pc[i] = "render" /\ UNCHANGED <<mode, late>>
            /\ \A j \in Instances : j # i => pc'[j] = pc[j]
        BY <3>6, <3>g DEF Render, AssetDone
      <4>2. QED
        BY <2>m, <3>1, <4>1 DEF AtWork
    <3>7. CASE Enqueue(i) \/ EnqueueRaises(i) \/ Report(i)
      <4>1. pc'[i] \in {"process", "report"} /\ pc[i] \in {"enqueue", "report"}
            /\ UNCHANGED <<mode, late>> /\ \A j \in Instances : j # i => pc'[j] = pc[j]
        BY <3>7, <3>g DEF Enqueue, EnqueueRaises, Report, AssetDone
      <4>2. QED
        BY <2>m, <3>1, <4>1 DEF AtWork
    <3>8. QED
      BY <2>3, <3>2, <3>3, <3>4, <3>5, <3>6, <3>7 DEF Step
  <2>4. ASSUME People \/ UNCHANGED vars PROVE ModesHeld' /\ late' = {}
    <3>1. UNCHANGED <<pc, mode, late>>
      BY <2>4 DEF People, RepairCounter, Request, JoinGroup, LeaveGroup, Moves,
                  serviceVars, vars
    <3>2. QED
      BY <1>2, <3>1 DEF ModesHeld
  <2>5. QED
    BY <1>2, <2>1, <2>2, <2>3, <2>4 DEF Next
<1>3. QED
  BY <1>1, <1>2

\* Who moves a counter that holds a number: the process that reserves for its asset.
LEMMA OnlyReserveMoves ==
  ASSUME TypeOK, late = {}, [Next]_vars, NEW a \in Assets, next'[a] # next[a], next[a] # 0
  PROVE  \E i \in Instances : pc[i] = "reserve" /\ cable[i].asset = a
<1>n. next \in [Assets -> Nat]
  BY DEF TypeOK
<1>1. ~(\E w \in late : ApplyLate(w)) /\ ~(UNCHANGED vars)
  BY DEF vars
<1>2. ~People
  BY <1>n DEF People, RepairCounter, Request, JoinGroup, LeaveGroup, Moves, haloVars
<1>3. PICK i \in Instances : Start(i) \/ Stop(i) \/ Step(i)
  BY <1>1, <1>2 DEF Next
<1>4. ~Start(i) /\ ~Stop(i)
  BY DEF Start, Stop, haloVars
<1>5. ~BeginPoll(i) /\ ~ReadPage(i) /\ ~ReadPageFails(i) /\ ~TakeAsset(i) /\ ~EndPoll(i)
  BY DEF BeginPoll, ReadPage, ReadPageFails, TakeAsset, EndPoll, haloVars
<1>6. ~ReserveIgnored(i) /\ ~ReadBack(i) /\ ~ReadBackRaises(i) /\ ~Render(i) /\ ~RenderRaises(i)
  BY DEF ReserveIgnored, ReadBack, ReadBackRaises, Render, RenderRaises, haloVars
<1>7. ~Enqueue(i) /\ ~SidecarRefused(i) /\ ~EnqueueRaises(i) /\ ~Report(i)
  BY DEF Enqueue, SidecarRefused, EnqueueRaises, Report, haloVars
<1>8. ReserveApplied(i) \/ ReserveRaises(i)
  BY <1>3, <1>4, <1>5, <1>6, <1>7 DEF Step
<1>9. pc[i] = "reserve" /\ Apply(ReserveWrite(cable[i]))
  BY <1>8 DEF ReserveApplied, ReserveRaises, haloVars
<1>10. next' = [next EXCEPT ![cable[i].asset] = next_counter_value(cable[i])]
  BY <1>9 DEF Apply, ReserveWrite
<1>11. QED
  BY <1>9, <1>10, <1>n

\* SHADOW_MODE consumes no number: a counter moves only by the reserve of a process
\* that does not run in it.  DRY_RUN writes no job either: a job is written by a
\* live process at its enqueue.  For any number of processes, modes and locks, as
\* long as no write is applied after its caller gave it up.
THEOREM RehearsalsAreFree ==
  ASSUME NoLateWrites
  PROVE  Spec => RehearsalsConsumeNothing
<1> DEFINE J == ModesHeld /\ late = {}
<1>1. Init => J
  BY ModesInductive
<1>2. TypeOK /\ J /\ [Next]_vars => J'
  BY ModesInductive
<1>3. ASSUME TypeOK, ModesHeld, late = {}, [Next]_vars
      PROVE  /\ \A a \in Assets :
                   next'[a] # next[a] /\ next[a] # 0
                     => \E i \in Instances : mode[i] # "shadow" /\ cable[i].asset = a
             /\ jobs' # jobs
                  => \E i \in Instances : mode[i] = "live" /\ pc[i] = "enqueue"
  <2>1. ASSUME NEW a \in Assets, next'[a] # next[a], next[a] # 0
        PROVE  \E i \in Instances : mode[i] # "shadow" /\ cable[i].asset = a
    <3>1. PICK i \in Instances : pc[i] = "reserve" /\ cable[i].asset = a
      BY <1>3, <2>1, OnlyReserveMoves
    <3>2. QED
      BY <1>3, <3>1 DEF ModesHeld, AtWork
  <2>2. ASSUME jobs' # jobs
        PROVE  \E i \in Instances : mode[i] = "live" /\ pc[i] = "enqueue"
    <3>1. PICK i \in Instances : pc[i] = "enqueue"
      BY <1>3, <2>2, JobsOnlyEnqueued DEF Enqueue
    <3>2. QED
      BY <1>3, <3>1, ConstantsAssumption DEF ModesHeld, AtWork
  <2>3. QED
    BY <2>1, <2>2
<1>4. TypeOK /\ J /\ [Next]_vars =>
        [/\ \A a \in Assets :
               next'[a] # next[a] /\ next[a] # 0
                 => \E i \in Instances : mode[i] # "shadow" /\ cable[i].asset = a
         /\ jobs' # jobs
              => \E i \in Instances : mode[i] = "live" /\ pc[i] = "enqueue"]_vars
  BY <1>3
<1> HIDE DEF J
<1>5. QED
  BY <1>1, <1>2, <1>4, TypeCorrect, PTL DEF Spec, RehearsalsConsumeNothing

-----------------------------------------------------------------------------
(* A QUEUED line without a job.  Only the one write of reserve makes a     *)
(* line read QUEUED, and it moves the counter with it: a read-back that    *)
(* does not match is never that of the line that Halo shows.               *)

\* What a write of reserve carries.
LEMMA WriteFacts ==
  ASSUME NEW c \in CableTypes, c.qty > 0
  PROVE  /\ ReserveWrite(c).asset = c.asset /\ ReserveWrite(c).line = Line("QUEUED", c)
         /\ ReserveWrite(c).next = ReserveWrite(c).line.last + 1
         /\ Line("QUEUED", c).word = "QUEUED" /\ Line("QUEUED", c).last = LastNumber(c)
BY DEF ReserveWrite, Line, next_counter_value

LEMMA ApplyKeepsLines ==
  ASSUME TypeOK, LinesAndCounters, NEW w \in Writes, w.next = w.line.last + 1, Apply(w)
  PROVE  \A a \in Assets : status'[a].word = "QUEUED" => next'[a] = status'[a].last + 1
BY DEF TypeOK, LinesAndCounters, Apply, Writes

LEMMA LinesInductive ==
  /\ Init => LinesAndCounters
  /\ Types /\ LinesAndCounters /\ [Next]_vars => LinesAndCounters'
<1>1. Init => LinesAndCounters
  BY DEF Init, LinesAndCounters
<1>2. ASSUME Types, LinesAndCounters, [Next]_vars PROVE LinesAndCounters'
  <2>t. /\ next \in [Assets -> Nat] /\ status \in [Assets -> Lines] /\ late \subseteq Writes
    BY <1>2 DEF Types, TypeOK
  <2>1. ASSUME UNCHANGED <<next, status, late>> PROVE LinesAndCounters'
    BY <1>2, <2>1 DEF LinesAndCounters
  <2>2. ASSUME NEW a \in Assets, RepairCounter(a) PROVE LinesAndCounters'
    <3>1. next[a] = 0 /\ next' = [next EXCEPT ![a] = 1] /\ UNCHANGED <<status, late>>
      BY <2>2 DEF RepairCounter
    <3>2. status[a].last \in Nat
      BY <2>t DEF Lines
    <3>3. status[a].word # "QUEUED"
      BY <1>2, <3>1, <3>2 DEF LinesAndCounters
    <3>4. QED
      BY <1>2, <2>t, <3>1, <3>3 DEF LinesAndCounters
  <2>3. ASSUME NEW w \in late, ApplyLate(w) PROVE LinesAndCounters'
    <3>1. w \in Writes /\ w.next = w.line.last + 1 /\ Apply(w) /\ late' = late \ {w}
      BY <1>2, <2>t, <2>3 DEF LinesAndCounters, ApplyLate
    <3>2. QED
      BY <1>2, <3>1, ApplyKeepsLines DEF Types, LinesAndCounters
  <2>4. ASSUME NEW i \in Instances, pc[i] = "reserve",
               ReserveApplied(i) \/ ReserveRaises(i)
        PROVE  LinesAndCounters'
    <3>1. cable[i] \in CableTypes /\ cable[i].qty > 0
      BY <1>2, <2>4 DEF Types, WorkIsReal, AtWork
    <3> DEFINE w == ReserveWrite(cable[i])
    <3>2. w \in Writes /\ w.next = w.line.last + 1
      BY <3>1, WriteType, WriteFacts
    <3>3. \/ Apply(w) /\ late' = late
          \/ UNCHANGED <<next, status>> /\ late' = late \cup {w}
          \/ UNCHANGED <<next, status, late>>
      BY <2>4 DEF ReserveApplied, ReserveRaises, haloVars
    <3> HIDE DEF w
    <3>4. QED
      BY <1>2, <3>2, <3>3, ApplyKeepsLines DEF Types, LinesAndCounters
  <2>5. ASSUME NEW i \in Instances, Report(i) PROVE LinesAndCounters'
    <3>1. /\ UNCHANGED <<next, late>>
          /\ \/ status' = [status EXCEPT ![cable[i].asset] = Line("FAILED", cable[i])]
             \/ status' = status
      BY <2>5 DEF Report, ReportLine
    <3>2. \A a \in Assets : status'[a] = status[a] \/ status'[a].word = "FAILED"
      BY <2>t, <3>1 DEF Line
    <3>3. QED
      BY <1>2, <3>1, <3>2 DEF LinesAndCounters
  <2>6. ASSUME NEW i \in Instances, Step(i) PROVE LinesAndCounters'
    <3>1. CASE ReserveApplied(i) \/ ReserveRaises(i)
      BY <2>4, <3>1 DEF ReserveApplied, ReserveRaises
    <3>2. CASE Report(i)
      BY <2>5, <3>2
    <3>3. CASE BeginPoll(i) \/ ReadPage(i) \/ ReadPageFails(i) \/ TakeAsset(i) \/ EndPoll(i)
      BY <2>1, <3>3 DEF BeginPoll, ReadPage, ReadPageFails, TakeAsset, EndPoll, haloVars
    <3>4. CASE ReserveIgnored(i) \/ ReadBack(i) \/ ReadBackRaises(i) \/ Render(i)
      BY <2>1, <3>4 DEF ReserveIgnored, ReadBack, ReadBackRaises, Render, haloVars
    <3>5. CASE RenderRaises(i) \/ Enqueue(i) \/ SidecarRefused(i) \/ EnqueueRaises(i)
      BY <2>1, <3>5 DEF RenderRaises, Enqueue, SidecarRefused, EnqueueRaises, haloVars
    <3>6. QED
      BY <2>6, <3>1, <3>2, <3>3, <3>4, <3>5 DEF Step
  <2>7. ASSUME People \/ UNCHANGED vars PROVE LinesAndCounters'
    <3>1. (\E a \in Assets : RepairCounter(a)) \/ UNCHANGED <<next, status, late>>
      BY <2>7 DEF People, Request, JoinGroup, LeaveGroup, Moves, haloVars, vars
    <3>2. QED
      BY <2>1, <2>2, <3>1
  <2>8. ASSUME NEW i \in Instances, Start(i) \/ Stop(i) PROVE LinesAndCounters'
    BY <2>1, <2>8 DEF Start, Stop, haloVars
  <2>9. QED
    BY <1>2, <2>3, <2>6, <2>7, <2>8 DEF Next
<1>3. QED
  BY <1>1, <1>2

\* Where nobody at work is disturbed and no line or job changes, no record is
\* abandoned.
AtHalo == {"readback", "render", "enqueue", "report"}

LEMMA NothingAbandoned ==
  ASSUME UNCHANGED <<status, jobs>>,
         \A j \in Instances : pc[j] \in AtHalo => pc'[j] \in AtHalo /\ cable'[j] = cable[j]
  PROVE  Abandoned' \subseteq Abandoned
<1>1. ASSUME NEW a \in Assets PROVE (Pursued(a) => Pursued(a)') /\ (Queued(a) => Queued(a)')
  BY DEF Pursued, Queued, AtHalo, Line, LastNumber, clamp_qty
<1>2. QED
  BY <1>1 DEF Abandoned

\* A step that touches the line of one record, and those at work on it, abandons
\* no other.
LEMMA OnlyOneRecord ==
  ASSUME NEW r,
         \A j \in Instances : cable[j].asset = r \/ (pc'[j] = pc[j] /\ cable'[j] = cable[j]),
         \A b \in Assets : b # r => status'[b] = status[b],
         \A n \in DOMAIN jobs : n \in DOMAIN jobs' /\ jobs'[n] = jobs[n]
  PROVE  Abandoned' \ Abandoned \subseteq {r}
<1> SUFFICES ASSUME NEW a \in Abandoned', a \notin Abandoned, a # r
             PROVE  FALSE
  OBVIOUS
<1>1. a \in Assets /\ status'[a] = status[a] /\ status[a].word = "QUEUED"
  BY DEF Abandoned
<1>2. ~Queued(a)
  BY <1>1 DEF Abandoned, Queued
<1>3. Pursued(a)
  BY <1>1, <1>2 DEF Abandoned
<1>4. PICK j \in Instances :
         /\ pc[j] \in {"readback", "render", "enqueue", "report"}
         /\ cable[j].asset = a /\ status[a] = Line("QUEUED", cable[j])
  BY <1>3 DEF Pursued
<1>5. pc'[j] = pc[j] /\ cable'[j] = cable[j]
  BY <1>4
<1>6. Pursued(a)'
  BY <1>1, <1>4, <1>5 DEF Pursued, Line, LastNumber, clamp_qty
<1>7. QED
  BY <1>6 DEF Abandoned

\* Why a record may be abandoned.
Cause(a) ==
  \/ used'["faults"] > used["faults"] \/ late' # late
  \/ \E i \in Instances :
       /\ cable[i].asset = a
       /\ \/ pc[i] = "render" /\ mode[i] = "dry"
          \/ pc[i] = "enqueue" /\ a \in Oversized

Accounted ==
  /\ \A a \in Abandoned' \ Abandoned : Cause(a)
  /\ \A a, b \in Abandoned' \ Abandoned : a = b

LEMMA FaultIsACause ==
  ASSUME TypeOK, NEW kind, Fault(kind)
  PROVE  \A a : Cause(a)
<1>1. used \in [Bounded -> Nat] /\ "faults" \in Bounded
      /\ used' = [used EXCEPT !["faults"] = @ + 1]
  BY DEF TypeOK, Fault, Spend, Bounded
<1>2. used'["faults"] > used["faults"]
  BY <1>1
<1>3. QED
  BY <1>2 DEF Cause

\* What process i does to its own record, when it gives the record up or goes on.
LEMMA HisStep ==
  ASSUME Types, NEW i \in Instances,
         \A j \in Instances \ {i} : pc'[j] = pc[j] /\ cable'[j] = cable[j],
         \A b \in Assets : b # cable[i].asset => status'[b] = status[b],
         \A n \in DOMAIN jobs : n \in DOMAIN jobs' /\ jobs'[n] = jobs[n],
         cable[i].asset \in Abandoned' \ Abandoned => Cause(cable[i].asset)
  PROVE  Accounted
<1>1. Abandoned' \ Abandoned \subseteq {cable[i].asset}
  BY OnlyOneRecord
<1>2. QED
  BY <1>1 DEF Accounted

\* Steps that take nothing out of anybody's hands.
LEMMA PollAccounted ==
  ASSUME Types, NEW i \in Instances,
         \/ Start(i) \/ BeginPoll(i) \/ ReadPage(i) \/ ReadPageFails(i)
         \/ TakeAsset(i) \/ EndPoll(i)
  PROVE  Accounted
<1>t. pc \in [Instances -> {"down", "idle", "scan", "process", "reserve", "readback",
                           "render", "enqueue", "report"}]
      /\ cable \in [Instances -> CableTypes \cup {NoCable}]
  BY DEF Types, TypeOK
<1>1. UNCHANGED <<status, jobs>> /\ pc[i] \notin AtHalo
  BY DEF Start, BeginPoll, ReadPage, ReadPageFails, TakeAsset, EndPoll, haloVars, AtHalo
<1>2. \A j \in Instances : j # i => pc'[j] = pc[j] /\ cable'[j] = cable[j]
  BY <1>t DEF Start, BeginPoll, ReadPage, ReadPageFails, TakeAsset, EndPoll, LeavePoll, Goto
<1>3. Abandoned' \subseteq Abandoned
  BY <1>1, <1>2, NothingAbandoned
<1>4. QED
  BY <1>3 DEF Accounted

\* The one write of reserve, answered, lost, ignored or delayed.
LEMMA ReserveAccounted ==
  ASSUME Types, NEW i \in Instances,
         ReserveApplied(i) \/ ReserveIgnored(i) \/ ReserveRaises(i)
  PROVE  Accounted
<1>t. /\ pc \in [Instances -> {"down", "idle", "scan", "process", "reserve", "readback",
                              "render", "enqueue", "report"}]
      /\ cable \in [Instances -> CableTypes \cup {NoCable}]
      /\ status \in [Assets -> Lines]
  BY DEF Types, TypeOK
<1>1. pc[i] = "reserve" /\ jobs' = jobs
  BY DEF ReserveApplied, ReserveIgnored, ReserveRaises
<1>2. cable[i] \in CableTypes /\ cable[i].qty > 0 /\ cable[i].asset \in Assets
  BY <1>1 DEF Types, WorkIsReal, AtWork, CableTypes
<1>3. \/ status' = [status EXCEPT ![cable[i].asset] = Line("QUEUED", cable[i])]
      \/ status' = status
  BY <1>2, WriteFacts
     DEF ReserveApplied, ReserveIgnored, ReserveRaises, Apply, haloVars
<1>4. \A j \in Instances \ {i} : pc'[j] = pc[j] /\ cable'[j] = cable[j]
  BY <1>t DEF ReserveApplied, ReserveIgnored, ReserveRaises, AssetDone, Goto
<1>5. \A b \in Assets : b # cable[i].asset => status'[b] = status[b]
  BY <1>3, <1>t
<1>6. CASE ReserveApplied(i)
  <2>1. pc'[i] = "readback" /\ cable'[i] = cable[i]
    BY <1>t, <1>6 DEF ReserveApplied, Goto
  <2>2. status' = [status EXCEPT ![cable[i].asset] = Line("QUEUED", cable[i])]
    BY <1>2, <1>6, WriteFacts DEF ReserveApplied, Apply
  <2>3. status'[cable[i].asset] = Line("QUEUED", cable[i])
    BY <1>2, <1>t, <2>2
  <2>4. ASSUME NEW a \in Assets, a = cable[i].asset PROVE Pursued(a)'
    BY <2>1, <2>3, <2>4 DEF Pursued, Line, LastNumber, clamp_qty
  <2>5. cable[i].asset \notin Abandoned'
    BY <1>2, <2>4 DEF Abandoned
  <2>6. QED
    BY <1>1, <1>4, <1>5, <2>5, HisStep
<1>7. CASE ReserveIgnored(i) \/ ReserveRaises(i)
  <2>1. \E kind : Fault(kind)
    BY <1>7 DEF ReserveIgnored, ReserveRaises
  <2>2. Cause(cable[i].asset)
    BY <2>1, FaultIsACause DEF Types
  <2>3. QED
    BY <1>1, <1>4, <1>5, <2>2, HisStep
<1>8. QED
  BY <1>6, <1>7

\* The read-back.  One that does not match is not about the line Halo shows.
LEMMA ReadBackAccounted ==
  ASSUME Types, LinesAndCounters, NEW i \in Instances, ReadBack(i)
  PROVE  Accounted
<1>t. /\ pc \in [Instances -> {"down", "idle", "scan", "process", "reserve", "readback",
                              "render", "enqueue", "report"}]
      /\ cable \in [Instances -> CableTypes \cup {NoCable}]
  BY DEF Types, TypeOK
<1>1. pc[i] = "readback" /\ UNCHANGED <<status, jobs>>
  BY DEF ReadBack, haloVars
<1>2. \A j \in Instances \ {i} : pc'[j] = pc[j] /\ cable'[j] = cable[j]
  BY <1>t DEF ReadBack, AssetDone, Goto
<1>3. CASE ReadBackMatches(cable[i])
  <2>1. pc'[i] = "render" /\ cable' = cable
    BY <1>t, <1>3 DEF ReadBack, Goto
  <2>2. Abandoned' \subseteq Abandoned
    BY <1>1, <1>2, <2>1, NothingAbandoned DEF AtHalo
  <2>3. QED
    BY <2>2 DEF Accounted
<1>4. CASE ~ReadBackMatches(cable[i])
  <2>1. cable[i] \in CableTypes /\ cable[i].qty > 0 /\ cable[i].asset \in Assets
    BY <1>1 DEF Types, WorkIsReal, AtWork, CableTypes
  <2>2. status[cable[i].asset] # Line("QUEUED", cable[i])
    <3>1. SUFFICES ASSUME status[cable[i].asset] = Line("QUEUED", cable[i]) PROVE FALSE
      OBVIOUS
    <3>2. next[cable[i].asset] = LastNumber(cable[i]) + 1
      BY <2>1, <3>1, WriteFacts DEF LinesAndCounters
    <3>3. QED
      BY <1>4, <3>2 DEF ReadBackMatches, next_counter_value
  <2>3. ASSUME NEW a \in Abandoned', a \notin Abandoned PROVE FALSE
    <3>1. a \in Assets /\ status[a].word = "QUEUED" /\ ~Queued(a)
      BY <1>1, <2>3 DEF Abandoned, Queued
    <3>2. PICK j \in Instances :
             /\ pc[j] \in {"readback", "render", "enqueue", "report"}
             /\ cable[j].asset = a /\ status[a] = Line("QUEUED", cable[j])
      BY <2>3, <3>1 DEF Abandoned, Pursued
    <3>3. j # i
      BY <2>2, <3>2
    <3>4. Pursued(a)'
      BY <1>1, <1>2, <3>2, <3>3 DEF Pursued, Line, LastNumber, clamp_qty
    <3>5. QED
      BY <2>3, <3>4 DEF Abandoned
  <2>4. QED
    BY <2>3 DEF Accounted
<1>5. QED
  BY <1>3, <1>4

\* The steps of process_asset that fail by a fault, and the FAILED line.
LEMMA FailureAccounted ==
  ASSUME Types, NEW i \in Instances,
         \/ Stop(i) \/ ReadBackRaises(i) \/ RenderRaises(i) \/ EnqueueRaises(i) \/ Report(i)
  PROVE  Accounted
<1>t. /\ pc \in [Instances -> {"down", "idle", "scan", "process", "reserve", "readback",
                              "render", "enqueue", "report"}]
      /\ cable \in [Instances -> CableTypes \cup {NoCable}]
      /\ status \in [Assets -> Lines]
  BY DEF Types, TypeOK
<1>1. \A j \in Instances \ {i} : pc'[j] = pc[j] /\ cable'[j] = cable[j]
  BY <1>t DEF Stop, ReadBackRaises, RenderRaises, EnqueueRaises, Report, AssetDone, Goto
<1>2. jobs' = jobs
  BY DEF Stop, ReadBackRaises, RenderRaises, EnqueueRaises, Report
<1>3. /\ \A b \in Assets : b # cable[i].asset => status'[b] = status[b]
      /\ (\E kind : Fault(kind)) \/ status' = [status EXCEPT ![cable[i].asset] =
                                                 Line("FAILED", cable[i])]
  BY <1>t DEF Stop, ReadBackRaises, RenderRaises, EnqueueRaises, Report, ReportLine, haloVars
<1>4. CASE \E kind : Fault(kind)
  BY <1>1, <1>2, <1>3, <1>4, FaultIsACause, HisStep DEF Types
<1>5. CASE status' = [status EXCEPT ![cable[i].asset] = Line("FAILED", cable[i])]
  <2>1. cable[i].asset \notin Abandoned'
    BY <1>5, <1>t DEF Abandoned, Line
  <2>2. QED
    BY <1>1, <1>2, <1>3, <2>1, HisStep
<1>6. QED
  BY <1>3, <1>4, <1>5

\* The render, the job in the queue and the job the schema refuses.
LEMMA IssueAccounted ==
  ASSUME Types, NEW i \in Instances, Render(i) \/ Enqueue(i) \/ SidecarRefused(i)
  PROVE  Accounted
<1>t. /\ pc \in [Instances -> {"down", "idle", "scan", "process", "reserve", "readback",
                              "render", "enqueue", "report"}]
      /\ cable \in [Instances -> CableTypes \cup {NoCable}]
      /\ jobs \in Seq(Blocks)
  BY DEF Types, TypeOK
<1>1. \A j \in Instances \ {i} : pc'[j] = pc[j] /\ cable'[j] = cable[j]
  BY <1>t DEF Render, Enqueue, SidecarRefused, LeavePoll, AssetDone, Goto
<1>2. status' = status
  BY DEF Render, Enqueue, SidecarRefused, haloVars
<1>3. CASE Render(i)
  <2>1. pc[i] = "render" /\ jobs' = jobs
    BY <1>3 DEF Render
  <2>2. CASE mode[i] = "dry"
    BY <1>1, <1>2, <2>1, <2>2, HisStep DEF Cause
  <2>3. CASE mode[i] # "dry"
    <3>1. pc'[i] = "enqueue" /\ cable' = cable
      BY <1>3, <1>t, <2>3 DEF Render, Goto
    <3>2. Abandoned' \subseteq Abandoned
      BY <1>1, <1>2, <2>1, <3>1, NothingAbandoned DEF AtHalo
    <3>3. QED
      BY <3>2 DEF Accounted
  <2>4. QED
    BY <2>2, <2>3
<1>4. CASE Enqueue(i)
  <2>1. pc[i] = "enqueue" /\ jobs' = Append(jobs, BlockOf(cable[i]))
    BY <1>4 DEF Enqueue
  <2>2. cable[i] \in CableTypes /\ cable[i].qty > 0
    BY <2>1 DEF Types, WorkIsReal, AtWork
  <2>3. BlockOf(cable[i]) \in Blocks
    BY <2>2, PlanFacts DEF BlockOf, Blocks, CableTypes
  <2>4. /\ \A n \in DOMAIN jobs : n \in DOMAIN jobs' /\ jobs'[n] = jobs[n]
        /\ Len(jobs) + 1 \in DOMAIN jobs' /\ jobs'[Len(jobs) + 1] = BlockOf(cable[i])
    BY <1>t, <2>1, <2>3
  <2>5. ASSUME NEW a \in Abandoned', a \notin Abandoned, a = cable[i].asset
        PROVE  FALSE
    <3>1. a \in Assets /\ status[a].word = "QUEUED" /\ ~Queued(a)' /\ ~Pursued(a)'
      BY <1>2, <2>5 DEF Abandoned
    <3>2. ~Queued(a)
      BY <1>2, <2>4, <3>1 DEF Queued
    <3>3. PICK j \in Instances :
             /\ pc[j] \in {"readback", "render", "enqueue", "report"}
             /\ cable[j].asset = a /\ status[a] = Line("QUEUED", cable[j])
      BY <2>5, <3>1, <3>2 DEF Abandoned, Pursued
    <3>4. CASE j = i
      <4>1. jobs'[Len(jobs) + 1]
              = [asset |-> a, first |-> status'[a].first, last |-> status'[a].last]
        BY <1>2, <2>4, <2>5, <3>3, <3>4 DEF BlockOf, Line
      <4>2. QED
        BY <2>4, <3>1, <4>1 DEF Queued
    <3>5. CASE j # i
      BY <1>1, <1>2, <3>1, <3>3, <3>5 DEF Pursued, Line, LastNumber, clamp_qty
    <3>6. QED
      BY <3>4, <3>5
  <2>6. QED
    BY <1>1, <1>2, <2>4, <2>5, HisStep
<1>5. CASE SidecarRefused(i)
  <2>1. pc[i] = "enqueue" /\ cable[i].asset \in Oversized /\ jobs' = jobs
    BY <1>5 DEF SidecarRefused
  <2>2. QED
    BY <1>1, <1>2, <2>1, HisStep DEF Cause
<1>6. QED
  BY <1>3, <1>4, <1>5

\* A write that Halo applies after its caller gave it up.
LEMMA LateAccounted ==
  ASSUME Types, NEW w \in late, ApplyLate(w)
  PROVE  Accounted
<1>1. late' # late
  BY DEF ApplyLate
<1>2. /\ pc' = pc /\ cable' = cable /\ jobs' = jobs
      /\ status' = [status EXCEPT ![w.asset] = w.line]
  BY DEF ApplyLate, Apply, serviceVars
<1>3. \A b \in Assets : b # w.asset => status'[b] = status[b]
  BY <1>2 DEF Types, TypeOK
<1>4. Abandoned' \ Abandoned \subseteq {w.asset}
  BY <1>2, <1>3, OnlyOneRecord
<1>5. QED
  BY <1>1, <1>4 DEF Accounted, Cause

LEMMA StepAccounted ==
  ASSUME Types, LinesAndCounters, [Next]_vars
  PROVE  Accounted
<1>1. CASE People \/ UNCHANGED vars
  <2>1. UNCHANGED <<status, jobs, pc, cable>>
    BY <1>1 DEF People, RepairCounter, Request, JoinGroup, LeaveGroup, Moves, haloVars,
                serviceVars, vars
  <2>2. Abandoned' \subseteq Abandoned
    BY <2>1, NothingAbandoned
  <2>3. QED
    BY <2>2 DEF Accounted
<1>2. ASSUME NEW i \in Instances, Start(i) \/ Stop(i) \/ Step(i) PROVE Accounted
  BY <1>2, PollAccounted, ReserveAccounted, ReadBackAccounted, FailureAccounted,
     IssueAccounted DEF Step
<1>3. QED
  BY <1>1, <1>2, LateAccounted DEF Next

\* A record is left QUEUED without its job only by a failure, a late write, DRY_RUN
\* or a job the schema refuses, one record at a time: for any number of processes and
\* lock files and whatever fails.
THEOREM GapsAreExplained == Spec => GapsHaveACause
<1> DEFINE J == Types /\ LinesAndCounters
<1>1. Init => J
  BY TypesInductive, LinesInductive
<1>2. J /\ [Next]_vars => J'
  BY TypesInductive, LinesInductive
<1>3. J /\ [Next]_vars =>
        [/\ \A a \in Abandoned' \ Abandoned :
              \/ used'["faults"] > used["faults"] \/ late' # late
              \/ \E i \in Instances :
                   /\ cable[i].asset = a
                   /\ \/ pc[i] = "render" /\ mode[i] = "dry"
                      \/ pc[i] = "enqueue" /\ a \in Oversized
         /\ \A a, b \in Abandoned' \ Abandoned : a = b]_vars
  BY StepAccounted DEF Accounted, Cause
<1> HIDE DEF J
<1>4. QED
  BY <1>1, <1>2, <1>3, PTL DEF Spec, GapsHaveACause

-----------------------------------------------------------------------------
(* The refinement.  With one lock file one process at a time has a block   *)
(* in hand, so what CableNumbers calls held is what that one holds, and    *)
(* every step of the service, of Halo and of people is a Repair, a Take,   *)
(* an Issue, a GiveUp or nothing at all.                                   *)

\* What is held, when at most one process has a block in hand.
LEMMA HeldIs ==
  ASSUME NEW i \in Instances, \A j \in Instances : j # i => ~InHand(j), NEW a
  PROVE  /\ ~InHand(i) => Held(a) = {}
         /\ InHand(i) /\ cable[i].asset = a => Held(a) = HeldBy(i)
         /\ cable[i].asset # a => Held(a) = {}
<1>1. ASSUME ~InHand(i) \/ cable[i].asset # a PROVE Held(a) = {}
  <2>1. {j \in Instances : InHand(j) /\ cable[j].asset = a} = {}
    BY <1>1
  <2>2. QED
    BY <2>1 DEF Held
<1>2. ASSUME InHand(i), cable[i].asset = a PROVE Held(a) = HeldBy(i)
  <2>1. {j \in Instances : InHand(j) /\ cable[j].asset = a} = {i}
    BY <1>2
  <2>2. QED
    BY <2>1 DEF Held
<1>3. QED
  BY <1>1, <1>2

\* The same of the state a step leads to.
LEMMA HeldBecomes ==
  ASSUME NEW i \in Instances, \A j \in Instances : j # i => ~InHand(j)', NEW a
  PROVE  /\ ~InHand(i)' => Held(a)' = {}
         /\ InHand(i)' /\ cable'[i].asset = a => Held(a)' = HeldBy(i)'
         /\ cable'[i].asset # a => Held(a)' = {}
<1>1. ASSUME ~InHand(i)' \/ cable'[i].asset # a PROVE Held(a)' = {}
  <2>1. {j \in Instances : InHand(j)' /\ cable'[j].asset = a} = {}
    BY <1>1
  <2>2. QED
    BY <2>1 DEF Held
<1>2. ASSUME InHand(i)', cable'[i].asset = a PROVE Held(a)' = HeldBy(i)'
  <2>1. {j \in Instances : InHand(j)' /\ cable'[j].asset = a} = {i}
    BY <1>2
  <2>2. QED
    BY <2>1 DEF Held
<1>3. QED
  BY <1>1, <1>2

\* Once the counter has moved past it, the process holds its block; before that,
\* nothing.
LEMMA HeldByFacts ==
  ASSUME Types, IInv, NEW i \in Instances, InHand(i)
  PROVE  /\ next[cable[i].asset] = cable[i].next => HeldBy(i) = {}
         /\ next[cable[i].asset] = next_counter_value(cable[i]) =>
              HeldBy(i) = cable[i].next .. LastNumber(cable[i]) /\ HeldBy(i) # {}
<1>1. pc[i] \in AtWork
  BY DEF InHand, AtWork
<1>2. QED
  BY <1>1, AtWorkFacts DEF HeldBy

\* A step that moves no counter and writes no job, of a process that keeps what it
\* has in hand or has nothing, is no step of CableNumbers.
LEMMA Kept ==
  ASSUME UNCHANGED <<next, jobs>>, \A a \in Assets : Held(a)' = Held(a)
  PROVE  UNCHANGED Numbers!numberVars
BY DEF Numbers!numberVars, Issued

\* A step that ends with the block no longer in hand gives it up, if it was one.
LEMMA Dropped ==
  ASSUME Types, IInv, NEW i \in Instances, InHand(i), ~InHand(i)',
         \A j \in Instances : j # i => ~InHand(j) /\ ~InHand(j)',
         UNCHANGED <<next, jobs>>
  PROVE  [Numbers!Next]_Numbers!numberVars
<1> DEFINE c == cable[i]
<1>1. c.asset \in Assets
  BY AtWorkFacts DEF InHand, AtWork
<1>2. /\ Held(c.asset) = HeldBy(i) /\ \A a : a # c.asset => Held(a) = {}
      /\ \A a : Held(a)' = {}
  BY HeldIs, HeldBecomes
<1>3. CASE HeldBy(i) = {}
  <2>1. \A a \in Assets : Held(a)' = Held(a)
    BY <1>2, <1>3
  <2>2. QED
    BY <2>1, Kept
<1>4. CASE HeldBy(i) # {}
  <2>1. Numbers!GiveUp(c.asset)
    BY <1>1, <1>2, <1>4 DEF Numbers!GiveUp, Issued
  <2>2. QED
    BY <1>1, <2>1 DEF Numbers!Next
<1>5. QED
  BY <1>3, <1>4

\* A function that differs from another in one place.
LEMMA OnePlace ==
  ASSUME NEW S, NEW f, NEW g, NEW b \in S, f = [x \in S |-> f[x]], g = [x \in S |-> g[x]],
         \A x \in S : x # b => g[x] = f[x]
  PROVE  g = [f EXCEPT ![b] = g[b]]
OBVIOUS

\* The reserve write is a Take, whether its answer comes back or not.
LEMMA Taken ==
  ASSUME OneLockFile, Types, IInv, NEW i \in Instances, pc[i] = "reserve",
         Apply(ReserveWrite(cable[i])), UNCHANGED jobs,
         pc'[i] \in {"readback", "process"}, pc'[i] = "readback" => cable'[i] = cable[i],
         \A j \in Instances : j # i => pc'[j] = pc[j]
  PROVE  [Numbers!Next]_Numbers!numberVars
<1> DEFINE c == cable[i]
<1>1. /\ c.asset \in Assets /\ c.next \in Nat /\ c.next >= 1
      /\ next_counter_value(c) \in Nat /\ next_counter_value(c) = LastNumber(c) + 1
      /\ LastNumber(c) \in Nat /\ LastNumber(c) >= c.next
  BY AtWorkFacts DEF AtWork
<1>2. next[c.asset] = c.next
  BY DEF IInv, PlanCurrent, AtWork
<1>3. next \in [Assets -> Nat] /\ next' = [next EXCEPT ![c.asset] = next_counter_value(c)]
  BY DEF Apply, ReserveWrite, Types, TypeOK
<1>4. \A j \in Instances : j # i => pc[j] = "down" /\ ~InHand(j) /\ ~InHand(j)'
  BY Alone DEF InHand
<1>5. \A a : Held(a) = {}
  BY <1>4, HeldIs DEF InHand
<1>6. /\ next'[c.asset] = LastNumber(c) + 1 /\ next'[c.asset] > next[c.asset]
      /\ Numbers!Advance(c.asset)
  <2>1. next'[c.asset] = LastNumber(c) + 1 /\ next'[c.asset] \in Nat
    BY <1>1, <1>3
  <2>2. next'[c.asset] > next[c.asset]
    BY <1>1, <1>2, <2>1
  <2>3. next' = [next EXCEPT ![c.asset] = next'[c.asset]]
    BY <1>1, <1>3, <2>1
  <2>4. QED
    BY <2>1, <2>2, <2>3 DEF Numbers!Advance
<1>i. [a \in Assets |-> Issued(a)]' = [a \in Assets |-> Issued(a)]
  BY DEF Issued
<1>b. PICK b \in Assets : b = c.asset
  BY <1>1
<1>7. CASE pc'[i] = "process"
  <2>1. \A a : Held(a)' = {}
    BY <1>4, <1>7, HeldBecomes DEF InHand
  <2>2. [a \in Assets |-> Held(a)]' = [a \in Assets |-> Held(a)]
    BY <1>5, <2>1
  <2>3. Numbers!Take(b)
    BY <1>1, <1>2, <1>6, <1>i, <1>b, <2>2 DEF Numbers!Take
  <2>4. QED
    BY <2>3 DEF Numbers!Next
<1>8. CASE pc'[i] = "readback"
  <2>1. cable'[i] = c /\ InHand(i)'
    BY <1>8 DEF InHand
  <2>2. HeldBy(i)' = {n \in c.next .. LastNumber(c) : n < next'[c.asset]}
    BY <2>1 DEF HeldBy, LastNumber, clamp_qty
  <2>3. HeldBy(i)' = next[b] .. (next'[b] - 1)
    BY <1>1, <1>2, <1>6, <1>b, <2>2
  <2>4. Held(b)' = HeldBy(i)' /\ \A a : a # b => Held(a)' = {}
    BY <1>4, <1>b, <2>1, HeldBecomes
  <2> DEFINE old == [a \in Assets |-> Held(a)]
             new == [a \in Assets |-> Held(a)']
  <2>5. new[b] = old[b] \cup (next[b] .. (next'[b] - 1))
    BY <1>5, <2>3, <2>4
  <2>6. \A a \in Assets : a # b => new[a] = old[a]
    BY <1>5, <2>4
  <2>7. new = [old EXCEPT ![b] = new[b]]
    <3>1. old = [a \in Assets |-> old[a]] /\ new = [a \in Assets |-> new[a]]
      OBVIOUS
    <3> HIDE DEF old, new
    <3>2. QED
      BY <2>6, <3>1, OnePlace
  <2>8. Numbers!Take(b)
    <3>1. Numbers!Advance(b) /\ next[b] > 0
      BY <1>1, <1>2, <1>6, <1>b
    <3>2. new = [old EXCEPT ![b] = old[b] \cup (next[b] .. (next'[b] - 1))]
      BY <2>5, <2>7
    <3>3. QED
      BY <1>i, <3>1, <3>2 DEF Numbers!Take
  <2>9. QED
    BY <2>8 DEF Numbers!Next
<1>9. QED
  BY <1>7, <1>8

\* The enqueue puts every number in hand on a job.
LEMMA NumbersIssued ==
  ASSUME OneLockFile, Types, IInv, NEW i \in Instances, Enqueue(i)
  PROVE  [Numbers!Next]_Numbers!numberVars
<1> DEFINE c == cable[i]
           L == Len(jobs) + 1
<1>1. pc[i] = "enqueue" /\ InHand(i) /\ pc[i] \in AtWork
  BY DEF Enqueue, InHand, AtWork
<1>2. c \in CableTypes /\ c.qty > 0 /\ c.asset \in Assets
  BY <1>1, AtWorkFacts
<1>3. HeldBy(i) = c.next .. LastNumber(c) /\ HeldBy(i) # {}
  BY <1>1, HeldByFacts DEF IInv, PlanCurrent
<1>4. /\ pc'[i] = "process" /\ ~InHand(i)' /\ next' = next
      /\ \A j \in Instances : j # i => pc'[j] = pc[j]
  BY DEF Enqueue, AssetDone, Goto, InHand, haloVars, Types, TypeOK
<1>5. \A j \in Instances : j # i => ~InHand(j) /\ ~InHand(j)'
  BY <1>1, <1>4, Alone DEF InHand
<1>6. /\ Held(c.asset) = c.next .. LastNumber(c) /\ Held(c.asset) # {}
      /\ \A a : a # c.asset => Held(a) = {}
      /\ \A a : Held(a)' = {}
  BY <1>1, <1>3, <1>4, <1>5, HeldIs, HeldBecomes
<1>7. jobs \in Seq(Blocks) /\ BlockOf(c) \in Blocks /\ jobs' = Append(jobs, BlockOf(c))
  BY <1>2, WriteType DEF Types, TypeOK, Enqueue
<1>8. /\ DOMAIN jobs' = DOMAIN jobs \cup {L} /\ jobs'[L] = BlockOf(c)
      /\ \A n \in DOMAIN jobs : jobs'[n] = jobs[n]
  BY <1>7
<1>9. /\ BlockOf(c).asset = c.asset /\ BlockOf(c).first = c.next
      /\ BlockOf(c).last = LastNumber(c)
  BY DEF BlockOf
<1>b. PICK b \in Assets : b = c.asset
  BY <1>2
<1> HIDE DEF c, L
<1>10. Issued(b)' = Issued(b) \cup Held(b)
  <2> DEFINE S == {m \in DOMAIN jobs : jobs[m].asset = b}
  <2>1. {m \in DOMAIN jobs' : jobs'[m].asset = b} = S \cup {L}
    BY <1>8, <1>9, <1>b
  <2>2. jobs'[L].first .. jobs'[L].last = Held(b)
    BY <1>6, <1>8, <1>9, <1>b
  <2>3. \A n \in S : jobs'[n] = jobs[n]
    BY <1>8
  <2>4. Issued(b)' = UNION {jobs'[n].first .. jobs'[n].last : n \in S \cup {L}}
    BY <2>1 DEF Issued
  <2>5. Issued(b) = UNION {jobs[n].first .. jobs[n].last : n \in S}
    BY DEF Issued
  <2> HIDE DEF S
  <2>6. {jobs'[n].first .. jobs'[n].last : n \in S \cup {L}}
          = {jobs[n].first .. jobs[n].last : n \in S} \cup {Held(b)}
    BY <2>2, <2>3
  <2>7. QED
    BY <2>4, <2>5, <2>6
<1>11. ASSUME NEW a, a # b PROVE Issued(a)' = Issued(a)
  <2>1. {m \in DOMAIN jobs' : jobs'[m].asset = a} = {m \in DOMAIN jobs : jobs[m].asset = a}
    BY <1>8, <1>9, <1>b, <1>11
  <2>2. QED
    BY <1>8, <2>1 DEF Issued
<1>12. Numbers!Issue(b)
  <2>1. [a \in Assets |-> Issued(a)]'
          = [[a \in Assets |-> Issued(a)] EXCEPT ![b] = Issued(b) \cup Held(b)]
    BY <1>10, <1>11
  <2>2. [a \in Assets |-> Held(a)]' = [[a \in Assets |-> Held(a)] EXCEPT ![b] = {}]
    BY <1>6, <1>b
  <2>3. QED
    BY <1>4, <1>6, <1>b, <2>1, <2>2 DEF Numbers!Issue
<1>13. QED
  BY <1>12 DEF Numbers!Next

\* A person gives a family its first number.
LEMMA Repaired ==
  ASSUME Types, IInv, NEW a \in Assets, RepairCounter(a)
  PROVE  [Numbers!Next]_Numbers!numberVars
<1>1. /\ next \in [Assets -> Nat] /\ next[a] = 0 /\ next' = [next EXCEPT ![a] = 1]
      /\ UNCHANGED <<pc, cable, jobs>>
  BY DEF RepairCounter, serviceVars, Types, TypeOK
<1>2. ASSUME NEW j \in Instances, InHand(j) PROVE HeldBy(j)' = HeldBy(j)
  <2>1. pc[j] \in AtWork /\ pc[j] \notin {"reserve", "report"}
    BY <1>2 DEF InHand, AtWork
  <2>2. next[cable[j].asset] \in {cable[j].next, next_counter_value(cable[j])}
    BY <2>1 DEF IInv, PlanCurrent, AtWork
  <2>3. next[cable[j].asset] # 0 /\ cable[j].asset \in Assets
    BY <2>1, <2>2, AtWorkFacts
  <2>4. next'[cable[j].asset] = next[cable[j].asset]
    BY <1>1, <2>3
  <2>5. QED
    BY <1>1, <2>4 DEF HeldBy, LastNumber, clamp_qty
<1>3. \A b \in Assets : Held(b)' = Held(b)
  <2> TAKE b \in Assets
  <2> DEFINE owners == {j \in Instances : InHand(j) /\ cable[j].asset = b}
  <2>1. Held(b) = UNION {HeldBy(j) : j \in owners}
    BY DEF Held
  <2>2. Held(b)' = UNION {HeldBy(j)' : j \in owners}
    BY <1>1 DEF Held, InHand
  <2>3. {HeldBy(j)' : j \in owners} = {HeldBy(j) : j \in owners}
    BY <1>2
  <2>4. QED
    BY <2>1, <2>2, <2>3
<1>4. Numbers!Repair(a)
  BY <1>1, <1>3 DEF Numbers!Repair, Numbers!Advance, Issued
<1>5. QED
  BY <1>4 DEF Numbers!Next

LEMMA NumbersStep ==
  ASSUME OneLockFile, NoLateWrites, Types, IInv, NEW i \in Instances,
         Start(i) \/ Stop(i) \/ Step(i)
  PROVE  [Numbers!Next]_Numbers!numberVars
<1> USE DEF haloVars
<1>n. DOMAIN pc = Instances /\ DOMAIN cable = Instances
  BY DEF Types, TypeOK
\* Who is running is alone with what it holds, before and after.
<1>a. ASSUME pc[i] # "down", \A j \in Instances : j # i => pc'[j] = pc[j]
      PROVE  \A j \in Instances : j # i => ~InHand(j) /\ ~InHand(j)'
  BY <1>a, Alone DEF InHand
\* Steps with nothing in hand before and after.
<1>q. ASSUME pc[i] # "down", \A j \in Instances : j # i => pc'[j] = pc[j],
             ~InHand(i), ~InHand(i)', UNCHANGED <<next, jobs>>
      PROVE  [Numbers!Next]_Numbers!numberVars
  <2>1. \A j \in Instances : j # i => ~InHand(j) /\ ~InHand(j)'
    BY <1>a, <1>q
  <2>2. \A a \in Assets : Held(a)' = Held(a)
    BY <1>q, <2>1, HeldIs, HeldBecomes
  <2>3. QED
    BY <1>q, <2>2, Kept
\* Steps with the same cable type in hand, before and after.
<1>h. ASSUME pc[i] # "down", \A j \in Instances : j # i => pc'[j] = pc[j],
             InHand(i), InHand(i)', UNCHANGED <<next, jobs>>, cable'[i] = cable[i]
      PROVE  [Numbers!Next]_Numbers!numberVars
  <2>1. \A j \in Instances : j # i => ~InHand(j) /\ ~InHand(j)'
    BY <1>a, <1>h
  <2>2. HeldBy(i)' = HeldBy(i)
    BY <1>h DEF HeldBy, LastNumber, clamp_qty
  <2>3. \A a \in Assets : Held(a)' = Held(a)
    BY <1>h, <2>1, <2>2, HeldIs, HeldBecomes
  <2>4. QED
    BY <1>h, <2>3, Kept
\* Steps that end with the block no longer in hand.
<1>d. ASSUME pc[i] # "down", \A j \in Instances : j # i => pc'[j] = pc[j],
             InHand(i), ~InHand(i)', UNCHANGED <<next, jobs>>
      PROVE  [Numbers!Next]_Numbers!numberVars
  BY <1>a, <1>d, Dropped
<1>g. ASSUME NEW label, Goto(i, label)
      PROVE  pc'[i] = label /\ \A j \in Instances : j # i => pc'[j] = pc[j]
  BY <1>n, <1>g DEF Goto
<1>1. CASE Start(i)
  <2>1. pc'[i] = "idle" /\ (\A j \in Instances : j # i => pc'[j] = pc[j])
        /\ UNCHANGED <<next, jobs, cable>> /\ pc[i] = "down"
    BY <1>1, <1>g DEF Start
  <2>2. \A j \in Instances : pc[j] = "down"
    BY <1>1, ConstantsAssumption DEF Start, LockIsFree, IInv, LockHeld, OneLockFile
  <2>3. \A j \in Instances : ~InHand(j) /\ ~InHand(j)'
    BY <2>1, <2>2 DEF InHand
  <2>4. \A a \in Assets : Held(a)' = Held(a)
    BY <2>3, HeldIs, HeldBecomes
  <2>5. QED
    BY <2>1, <2>4, Kept
<1>2. CASE Stop(i)
  <2>1. pc[i] # "down" /\ ~InHand(i)' /\ (\A j \in Instances : j # i => pc'[j] = pc[j])
        /\ UNCHANGED <<next, jobs>>
    BY <1>2, <1>g DEF Stop, InHand
  <2>2. QED
    BY <1>d, <1>q, <2>1
<1>3. CASE BeginPoll(i) \/ ReadPage(i) \/ ReadPageFails(i) \/ TakeAsset(i) \/ EndPoll(i)
  <2>1. /\ pc[i] \in {"idle", "scan", "process"}
        /\ pc'[i] \in {"idle", "scan", "process", "reserve"}
        /\ \A j \in Instances : j # i => pc'[j] = pc[j]
        /\ UNCHANGED <<next, jobs>>
    <3>1. CASE BeginPoll(i) \/ ReadPage(i)
      BY <3>1, <1>g DEF BeginPoll, ReadPage
    <3>2. CASE ReadPageFails(i) \/ EndPoll(i)
      BY <3>2, <1>g DEF ReadPageFails, EndPoll, LeavePoll
    <3>3. CASE TakeAsset(i)
      BY <3>3, <1>g DEF TakeAsset
    <3>4. QED
      BY <1>3, <3>1, <3>2, <3>3
  <2>2. QED
    BY <1>q, <2>1 DEF InHand
<1>4. CASE ReserveApplied(i)
  BY <1>4, <1>g, Taken DEF ReserveApplied
<1>5. CASE ReserveIgnored(i)
  <2>1. /\ pc[i] = "reserve" /\ pc'[i] = "readback"
        /\ \A j \in Instances : j # i => pc'[j] = pc[j]
        /\ UNCHANGED <<next, jobs, cable>>
    BY <1>5, <1>g DEF ReserveIgnored
  <2>2. \A j \in Instances : j # i => ~InHand(j) /\ ~InHand(j)'
    BY <1>a, <2>1
  <2>3. next[cable[i].asset] = cable[i].next /\ cable[i].next \in Nat
    BY <2>1, AtWorkFacts DEF IInv, PlanCurrent, AtWork
  <2>4. HeldBy(i)' = {}
    BY <2>1, <2>3, AtWorkFacts DEF HeldBy, LastNumber, clamp_qty, AtWork
  <2>5. \A a \in Assets : Held(a)' = {} /\ Held(a) = {}
    BY <2>1, <2>2, <2>4, HeldIs, HeldBecomes DEF InHand
  <2>6. QED
    BY <2>1, <2>5, Kept
<1>6. CASE ReserveRaises(i)
  <2>1. /\ pc[i] = "reserve" /\ pc'[i] = "process" /\ UNCHANGED jobs
        /\ \A j \in Instances : j # i => pc'[j] = pc[j]
    BY <1>6, <1>g DEF ReserveRaises, AssetDone
  <2>2. CASE UNCHANGED haloVars
    BY <1>q, <2>1, <2>2 DEF InHand
  <2>3. CASE Apply(ReserveWrite(cable[i]))
    BY <2>1, <2>3, Taken
  <2>4. QED
    BY <1>6, <2>2, <2>3 DEF ReserveRaises, Fault, NoLateWrites
<1>7. CASE ReadBack(i) \/ Render(i)
  <2>1. /\ pc[i] \in {"readback", "render"} /\ InHand(i) /\ UNCHANGED <<next, jobs>>
        /\ \A j \in Instances : j # i => pc'[j] = pc[j]
        /\ pc'[i] = "process" \/ (pc'[i] \in {"render", "enqueue"} /\ cable' = cable)
    BY <1>7, <1>g DEF ReadBack, Render, AssetDone, InHand
  <2>2. QED
    BY <1>h, <1>d, <2>1 DEF InHand
<1>8. CASE ReadBackRaises(i) \/ RenderRaises(i) \/ SidecarRefused(i) \/ EnqueueRaises(i)
  <2>1. /\ pc[i] \in {"readback", "render", "enqueue"} /\ UNCHANGED <<next, jobs>>
        /\ \A j \in Instances : j # i => pc'[j] = pc[j]
        /\ pc'[i] \in {"process", "idle", "report"}
    BY <1>8, <1>g DEF ReadBackRaises, RenderRaises, SidecarRefused, EnqueueRaises, AssetDone,
                      LeavePoll
  <2>2. QED
    BY <1>d, <2>1 DEF InHand
<1>9. CASE Enqueue(i)
  BY <1>9, NumbersIssued
<1>10. CASE Report(i)
  <2>1. /\ pc[i] = "report" /\ pc'[i] = "process" /\ UNCHANGED <<next, jobs>>
        /\ \A j \in Instances : j # i => pc'[j] = pc[j]
    BY <1>10, <1>g DEF Report, AssetDone
  <2>2. QED
    BY <1>q, <2>1 DEF InHand
<1>11. QED
  BY <1>1, <1>2, <1>3, <1>4, <1>5, <1>6, <1>7, <1>8, <1>9, <1>10 DEF Step

\* The service against Halo implements CableNumbers: a block is taken off a counter
\* once, every number of it ends on one job or is given up, and only a person's
\* repair moves a counter otherwise; for any number of families, processes that
\* share a lock file, polls, crashes and failures.
THEOREM NumbersAreTakenOnce ==
  ASSUME OneLockFile, NoLateWrites
  PROVE  Spec => ImplementsCableNumbers
<1>1. Init => Numbers!Init
  <2> SUFFICES ASSUME Init PROVE Numbers!Init
    OBVIOUS
  <2>1. next \in [Assets -> Nat]
    BY ConstantsAssumption DEF Init
  <2>2. \A a : Held(a) = {}
    BY DEF Init, Held, InHand
  <2>3. \A a : Issued(a) = {}
    BY DEF Init, Issued
  <2>4. QED
    BY <2>1, <2>2, <2>3 DEF Numbers!Init
<1>2. Types /\ IInv /\ [Next]_vars => [Numbers!Next]_Numbers!numberVars
  <2> SUFFICES ASSUME Types, IInv, [Next]_vars PROVE [Numbers!Next]_Numbers!numberVars
    OBVIOUS
  <2>k. ASSUME UNCHANGED <<next, pc, cable, jobs>> PROVE UNCHANGED Numbers!numberVars
    <3>1. \A a \in Assets : Held(a)' = Held(a)
      BY <2>k DEF Held, HeldBy, InHand, LastNumber, clamp_qty
    <3>2. QED
      BY <2>k, <3>1, Kept
  <2>1. CASE UNCHANGED vars
    BY <2>k, <2>1 DEF vars
  <2>2. CASE People
    <3>1. ASSUME NEW a \in Assets, NEW n \in 0..MaxQty, Request(a, n)
          PROVE  [Numbers!Next]_Numbers!numberVars
      BY <2>k, <3>1 DEF Request, serviceVars
    <3>2. ASSUME Moves PROVE [Numbers!Next]_Numbers!numberVars
      BY <2>k, <3>2 DEF Moves, haloVars, serviceVars
    <3>3. QED
      BY <2>2, <3>1, <3>2, Repaired DEF People, JoinGroup, LeaveGroup
  <2>3. late = {}
    BY DEF IInv
  <2>4. QED
    BY <2>1, <2>2, <2>3, NumbersStep DEF Next
<1>3. QED
  BY <1>1, <1>2, SnapshotsHold, PTL DEF Spec, ImplementsCableNumbers, Numbers!Spec

=============================================================================
