------------------------ MODULE QueueProtocol_proofs ------------------------
(***************************************************************************)
(* Theorems about QueueProtocol, for every value of its constants.         *)
(***************************************************************************)
EXTENDS QueueProtocol, TLAPS

-----------------------------------------------------------------------------
(* The calls, one by one.                                                  *)

LEMMA WriteJobCalls ==
  /\ Len(WriteJob) = 7
  /\ WriteJob[1] = Call("create", "payload") /\ WriteJob[2] = Call("fill", "payload")
  /\ WriteJob[3] = Call("create", "sidecar") /\ WriteJob[4] = Call("fill", "sidecar")
  /\ WriteJob[5] = Call("rename", "sidecar") /\ WriteJob[6] = Call("rename", "payload")
  /\ WriteJob[7] = Call("sync", "payload")
  BY DEF WriteJob

LEMMA WriteResultCalls ==
  /\ Len(WriteResult) = 4
  /\ WriteResult[1] = Call("create", "result") /\ WriteResult[2] = Call("fill", "result")
  /\ WriteResult[3] = Call("rename", "result") /\ WriteResult[4] = Call("sync", "result")
  BY DEF WriteResult

-----------------------------------------------------------------------------
(* The inductive invariant.                                                *)

\* How far a writer has come, and how often it has put its payload.
Counted(j) ==
  /\ pc[j] = "new" =>
       step[j] = 1 /\ attempt[j] = 0 /\ puts[j] = 0 /\ tmp[j].payload = "none" /\ tmp[j].sidecar = "none"
  /\ pc[j] \in {"writing", "clean"} => attempt[j] >= 1 /\ puts[j] <= attempt[j]
  /\ pc[j] = "writing" /\ step[j] <= 6 => puts[j] < attempt[j]
  /\ pc[j] = "writing" /\ step[j] = 7 => puts[j] >= 1
  /\ answer[j] # "none" => pc[j] = "over"

Types == TypeOK /\ \A j \in Jobs : Counted(j)

\* A file is filled, or swept away, before it is renamed.
Filled(j) ==
  /\ pc[j] = "writing" /\ step[j] \in 3..6 => tmp[j].payload # "part"
  /\ pc[j] = "writing" /\ step[j] = 5 => tmp[j].sidecar # "part"
  /\ \A f \in Files : inbox[j][f] # "part"
  /\ results[j] # "part" /\ "part" \notin heard[j]
  /\ apc = "answer" /\ job = j /\ rstep = 3 => tmp[j].result # "part"

\* The agent has job j in hand, and may print it.
Taken(j) == apc = "take" /\ job = j

\* The agent only handles jobs that it has claimed, now or before.
Paired(j) ==
  /\ pc[j] = "writing" /\ step[j] = 6 => inbox[j].sidecar = "whole" \/ j \in known
  /\ inbox[j].payload # "none" => puts[j] > 0 /\ (inbox[j].sidecar = "whole" \/ j \in known)
  /\ j \in known => puts[j] > 0
  /\ printed[j] > 0 => j \in known
  /\ job = j => j \in known
  /\ Taken(j) => printed[j] = 0

\* Unless a rename was reported as failed, a payload is put once: what is printed
\* has left the inbox for good, and what is refused is not printed any more.
Single(j) ==
  j \notin misled =>
    /\ pc[j] = "clean" \/ (pc[j] = "writing" /\ step[j] <= 6) \/ answer[j] = "failed" => puts[j] = 0
    /\ printed[j] > 0 \/ (Taken(j) /\ "payload" \notin left) => inbox[j].payload = "none"
    /\ (job = j /\ says = "rejected") \/ results[j] = "rejected" \/ "rejected" \in heard[j] =>
         printed[j] = 0 /\ j \in known /\ ~Taken(j)

\* The files of a writer that never hung are young, and there.
Unswept(j) ==
  j \notin hung =>
    /\ pc[j] \in {"new", "writing", "clean"} => \A f \in Files : f \notin stale[j] /\ <<j, f>> \notin doomed
    /\ pc[j] = "writing" =>
         /\ step[j] = 2 => tmp[j].payload # "none"
         /\ step[j] \in 3..6 => tmp[j].payload = "whole"
         /\ step[j] = 4 => tmp[j].sidecar # "none"
         /\ step[j] = 5 => tmp[j].sidecar = "whole"

Sound(j) == Filled(j) /\ Paired(j) /\ Single(j) /\ Unswept(j)

IInv ==
  /\ apc = "idle" => job = NoJob
  /\ apc # "answer" => rstep = 1
  /\ \A j \in Jobs : Sound(j)

-----------------------------------------------------------------------------
(* What one call does to the files.                                        *)

\* Only file f of job j may be different in .tmp.
OnlyTmp(j, f) ==
  /\ tmp' \in [Jobs -> [TmpFiles -> Contents]]
  /\ stale' \in [Jobs -> SUBSET TmpFiles]
  /\ \A k \in Jobs, g \in TmpFiles : k # j \/ g # f =>
       tmp'[k][g] = tmp[k][g] /\ (g \in stale'[k] <=> g \in stale[k])

LEMMA CallEffects ==
  ASSUME TypeOK, NEW j \in Jobs, NEW f \in TmpFiles
  PROVE  /\ Create(j, f) => OnlyTmp(j, f) /\ tmp'[j][f] = "part" /\ f \notin stale'[j]
         /\ Fill(j, f) =>
              /\ OnlyTmp(j, f) /\ stale' = stale
              /\ tmp'[j][f] = IF tmp[j][f] = "none" THEN "none" ELSE "whole"
         /\ Leave(j, f) => OnlyTmp(j, f) /\ tmp'[j][f] = "none" /\ f \notin stale'[j]
<1>1. /\ tmp \in [Jobs -> [TmpFiles -> Contents]] /\ stale \in [Jobs -> SUBSET TmpFiles]
      /\ {"none", "part", "whole"} \subseteq Contents
  BY DEF TypeOK, Contents
<1>2. ASSUME Create(j, f) PROVE OnlyTmp(j, f) /\ tmp'[j][f] = "part" /\ f \notin stale'[j]
  BY <1>1, <1>2 DEF Create, OnlyTmp
<1>3. ASSUME Fill(j, f)
      PROVE  /\ OnlyTmp(j, f) /\ stale' = stale
             /\ tmp'[j][f] = IF tmp[j][f] = "none" THEN "none" ELSE "whole"
  BY <1>1, <1>3 DEF Fill, OnlyTmp
<1>4. ASSUME Leave(j, f) PROVE OnlyTmp(j, f) /\ tmp'[j][f] = "none" /\ f \notin stale'[j]
  BY <1>1, <1>4 DEF Leave, OnlyTmp
<1>5. QED
  BY <1>2, <1>3, <1>4

LEMMA PublishEffects ==
  ASSUME TypeOK, NEW j \in Jobs, NEW f \in Files, Publish(j, f)
  PROVE  /\ inbox' \in [Jobs -> [Files -> Contents]]
         /\ inbox'[j][f] = tmp[j][f]
         /\ \A k \in Jobs, g \in Files : k # j \/ g # f => inbox'[k][g] = inbox[k][g]
         /\ puts' = [puts EXCEPT ![j] = IF f = "payload" THEN @ + 1 ELSE @]
         /\ OnlyTmp(j, f) /\ tmp'[j][f] = "none" /\ f \notin stale'[j]
<1>1. f \in TmpFiles
  BY DEF TmpFiles
<1>2. Leave(j, f) /\ tmp[j][f] \in Contents
  BY <1>1 DEF Publish, TypeOK
<1>3. inbox \in [Jobs -> [Files -> Contents]] /\ inbox' = [inbox EXCEPT ![j][f] = tmp[j][f]]
  BY DEF TypeOK, Publish
<1>4. QED
  BY <1>1, <1>2, <1>3, CallEffects DEF Publish

\* The step a writer takes, call by call.
LEMMA WriteStepCases ==
  ASSUME TypeOK, NEW j \in Jobs, WriteStep(j)
  PROVE  \/ step[j] = 1 /\ Create(j, "payload") /\ UNCHANGED <<inbox, puts>>
         \/ step[j] = 2 /\ Fill(j, "payload") /\ UNCHANGED <<inbox, puts>>
         \/ step[j] = 3 /\ Create(j, "sidecar") /\ UNCHANGED <<inbox, puts>>
         \/ step[j] = 4 /\ Fill(j, "sidecar") /\ UNCHANGED <<inbox, puts>>
         \/ step[j] = 5 /\ tmp[j].sidecar # "none" /\ Publish(j, "sidecar")
         \/ step[j] = 6 /\ tmp[j].payload # "none" /\ Publish(j, "payload")
         \/ step[j] = 7 /\ UNCHANGED <<tmp, stale, inbox, puts>>
<1>1. step[j] \in 1..7
  BY DEF TypeOK
<1>2. QED
  BY <1>1, WriteJobCalls DEF WriteStep, Call, Missing

LEMMA WriteRaisesCases ==
  ASSUME TypeOK, NEW j \in Jobs, WriteRaises(j)
  PROVE  /\ step[j] # 7
         /\ \/ UNCHANGED <<tmp, stale, inbox, puts, misled>>
            \/ step[j] = 1 /\ Create(j, "payload") /\ UNCHANGED <<inbox, puts, misled>>
            \/ step[j] = 3 /\ Create(j, "sidecar") /\ UNCHANGED <<inbox, puts, misled>>
            \/ /\ step[j] = 5 /\ tmp[j].sidecar # "none" /\ Publish(j, "sidecar")
               /\ misled' = misled \cup {j}
            \/ /\ step[j] = 6 /\ tmp[j].payload # "none" /\ Publish(j, "payload")
               /\ misled' = misled \cup {j}
         /\ faults' \in 0..MaxFaults
<1>1. step[j] \in 1..7 /\ faults \in 0..MaxFaults /\ MaxFaults \in Nat
  BY ConstantsAssumption DEF TypeOK
<1>2. step[j] # 7
  BY <1>1, WriteJobCalls DEF WriteRaises, Call, Missing, CanRaise
<1>3. faults' \in 0..MaxFaults
  BY <1>1 DEF WriteRaises, Fault
<1>4. QED
  BY <1>1, <1>2, <1>3, WriteJobCalls DEF WriteRaises, Call, Missing, CanRaise

LEMMA AnswerStepCases ==
  ASSUME TypeOK, AnswerStep
  PROVE  /\ job \in Jobs /\ says \in Statuses
         /\ \/ rstep = 1 /\ Create(job, "result") /\ UNCHANGED results
            \/ rstep = 2 /\ Fill(job, "result") /\ UNCHANGED results
            \/ /\ rstep = 3 /\ tmp[job].result # "none" /\ Leave(job, "result")
               /\ results' = [results EXCEPT ![job] = IF tmp[job].result = "whole" THEN says ELSE "part"]
            \/ rstep = 4 /\ UNCHANGED <<tmp, stale, results>>
         /\ \/ rstep < 4 /\ rstep' = rstep + 1 /\ UNCHANGED <<apc, job, says>>
            \/ rstep = 4 /\ Rest
<1>1. rstep \in 1..4 /\ apc = "answer" /\ job \in Jobs /\ says \in Statuses
  BY DEF TypeOK, AnswerStep
<1>2. QED
  BY <1>1, WriteResultCalls DEF AnswerStep, Call, Missing

-----------------------------------------------------------------------------
(* Type correctness.                                                       *)

LEMMA TypesInit == Init => Types
  BY ConstantsAssumption
     DEF Init, Types, TypeOK, Counted, Contents, Statuses, TmpFiles, Files

LEMMA FaultCounted ==
  ASSUME TypeOK, NEW kind, Fault(kind)
  PROVE  faults' \in 0..MaxFaults
  BY ConstantsAssumption DEF TypeOK, Fault

\* What a writer does.
LEMMA WriterTypes ==
  ASSUME Types, NEW j \in Jobs, Writer(j) \/ WriterDies(j)
  PROVE  Types'
<1>1. TypeOK /\ \A k \in Jobs : Counted(k)
  BY DEF Types
<1>2. MaxAttempts \in Nat \ {0}
  BY ConstantsAssumption
<1>3. "payload" \in Files /\ "sidecar" \in Files /\ Files \subseteq TmpFiles
  BY DEF TmpFiles, Files
<1>4. CASE Begin(j)
  <2>1. TypeOK'
    BY <1>1, <1>2, <1>4 DEF Begin, TypeOK, shareVars, agentVars, ghostVars
  <2>2. ASSUME NEW k \in Jobs PROVE Counted(k)'
    <3>1. Counted(k) /\ Counted(j)
      BY <1>1
    <3>2. /\ pc[j] = "new" /\ pc' = [pc EXCEPT ![j] = "writing"] /\ attempt' = [attempt EXCEPT ![j] = 1]
          /\ tmp' = tmp /\ puts' = puts /\ step' = step /\ answer' = answer
      BY <1>4 DEF Begin, shareVars, ghostVars
    <3>3. /\ pc \in [Jobs -> {"new", "writing", "clean", "over"}] /\ attempt \in [Jobs -> 0..MaxAttempts]
          /\ step \in [Jobs -> 1..7]
      BY <1>1 DEF TypeOK
    <3>4. CASE k = j
      BY <3>1, <3>2, <3>3, <3>4 DEF Counted
    <3>5. CASE k # j
      BY <3>1, <3>2, <3>3, <3>5 DEF Counted
    <3>6. QED
      BY <3>4, <3>5
  <2>3. QED
    BY <2>1, <2>2 DEF Types
<1>5. CASE WriteStep(j)
  <2>1. /\ pc[j] = "writing" /\ step[j] \in 1..7
        /\ step[j] < 7 => step' = [step EXCEPT ![j] = @ + 1] /\ UNCHANGED <<pc, answer>>
        /\ step[j] = 7 => /\ pc' = [pc EXCEPT ![j] = "over"]
                          /\ answer' = [answer EXCEPT ![j] = "ok"] /\ UNCHANGED step
        /\ UNCHANGED <<results, attempt, agentVars, doomed, printed, heard, spoiled, misled, hung, faults>>
    BY <1>1, <1>5, WriteJobCalls DEF WriteStep, TypeOK
  <2>2. /\ tmp' \in [Jobs -> [TmpFiles -> Contents]] /\ stale' \in [Jobs -> SUBSET TmpFiles]
        /\ inbox' \in [Jobs -> [Files -> Contents]]
        /\ \A k \in Jobs \ {j}, f \in TmpFiles : tmp'[k][f] = tmp[k][f]
        /\ puts' = [puts EXCEPT ![j] = IF step[j] = 6 THEN @ + 1 ELSE @]
    <3>1. puts = [puts EXCEPT ![j] = @]
      BY <1>1 DEF TypeOK
    <3>2. /\ tmp \in [Jobs -> [TmpFiles -> Contents]] /\ stale \in [Jobs -> SUBSET TmpFiles]
          /\ inbox \in [Jobs -> [Files -> Contents]]
      BY <1>1 DEF TypeOK
    <3>3. QED
      BY <1>1, <1>3, <1>5, <2>1, <3>1, <3>2, WriteStepCases, CallEffects, PublishEffects DEF OnlyTmp
  <2>3. Counted(j)
    BY <1>1
  <2>4. puts' \in [Jobs -> 0..MaxAttempts]
    BY <1>1, <1>2, <2>1, <2>2, <2>3 DEF TypeOK, Counted
  <2>5. /\ step' \in [Jobs -> 1..7] /\ answer' \in [Jobs -> {"none", "ok", "failed"}]
        /\ pc' \in [Jobs -> {"new", "writing", "clean", "over"}]
    <3>1. /\ step \in [Jobs -> 1..7] /\ answer \in [Jobs -> {"none", "ok", "failed"}]
          /\ pc \in [Jobs -> {"new", "writing", "clean", "over"}]
      BY <1>1 DEF TypeOK
    <3>2. CASE step[j] < 7
      BY <2>1, <3>1, <3>2
    <3>3. CASE step[j] = 7
      BY <2>1, <3>1, <3>3
    <3>4. QED
      BY <2>1, <3>2, <3>3
  <2>6. TypeOK'
    BY <1>1, <2>1, <2>2, <2>4, <2>5 DEF TypeOK, agentVars
  <2>7. ASSUME NEW k \in Jobs PROVE Counted(k)'
    BY <1>1, <1>3, <2>1, <2>2 DEF Counted, TypeOK
  <2>8. QED
    BY <2>6, <2>7 DEF Types
<1>6. CASE WriteRaises(j)
  <2>1. /\ pc[j] = "writing" /\ pc' = [pc EXCEPT ![j] = "clean"]
        /\ UNCHANGED <<results, step, attempt, answer, agentVars, doomed, printed, heard, spoiled, hung>>
    BY <1>6 DEF WriteRaises
  <2>2. /\ tmp' \in [Jobs -> [TmpFiles -> Contents]] /\ stale' \in [Jobs -> SUBSET TmpFiles]
        /\ inbox' \in [Jobs -> [Files -> Contents]]
        /\ \A k \in Jobs \ {j}, f \in TmpFiles : tmp'[k][f] = tmp[k][f]
        /\ puts' = puts \/ puts' = [puts EXCEPT ![j] = @ + 1]
        /\ misled' \subseteq Jobs /\ faults' \in 0..MaxFaults /\ step[j] \in 1..7 /\ step[j] # 7
    <3>1. puts = [puts EXCEPT ![j] = @] /\ step[j] \in 1..7 /\ misled \subseteq Jobs
      BY <1>1 DEF TypeOK
    <3>2. /\ tmp \in [Jobs -> [TmpFiles -> Contents]] /\ stale \in [Jobs -> SUBSET TmpFiles]
          /\ inbox \in [Jobs -> [Files -> Contents]]
      BY <1>1 DEF TypeOK
    <3>3. QED
      BY <1>1, <1>3, <1>6, <3>1, <3>2, WriteRaisesCases, CallEffects, PublishEffects DEF OnlyTmp
  <2>3. Counted(j)
    BY <1>1
  <2>4. puts' \in [Jobs -> 0..MaxAttempts]
    <3>1. puts[j] < attempt[j] /\ attempt[j] \in 0..MaxAttempts /\ puts \in [Jobs -> 0..MaxAttempts]
      BY <1>1, <2>1, <2>2, <2>3 DEF TypeOK, Counted
    <3>2. QED
      BY <1>2, <2>2, <3>1
  <2>5. TypeOK'
    BY <1>1, <2>1, <2>2, <2>4 DEF TypeOK, agentVars
  <2>6. ASSUME NEW k \in Jobs PROVE Counted(k)'
    BY <1>1, <1>3, <2>1, <2>2 DEF Counted, TypeOK
  <2>7. QED
    BY <2>5, <2>6 DEF Types
<1>7. CASE CleanUp(j)
  <2>1. PICK kept \in SUBSET Files :
          /\ tmp'   = [tmp EXCEPT ![j] = [f \in TmpFiles |-> IF f \in Files \ kept THEN "none" ELSE @[f]]]
          /\ stale' = [stale EXCEPT ![j] = @ \ (Files \ kept)]
          /\ IF kept = {} THEN UNCHANGED faults ELSE Fault("unlink")
    BY <1>7 DEF CleanUp
  <2>2. faults' \in 0..MaxFaults
    BY <1>1, <2>1, FaultCounted DEF TypeOK
  <2>3. /\ tmp' \in [Jobs -> [TmpFiles -> Contents]] /\ stale' \in [Jobs -> SUBSET TmpFiles]
        /\ \A k \in Jobs \ {j}, f \in TmpFiles : tmp'[k][f] = tmp[k][f]
    BY <1>1, <2>1 DEF TypeOK, Contents
  <2>4. /\ step' \in [Jobs -> 1..7] /\ answer' \in [Jobs -> {"none", "ok", "failed"}]
        /\ pc' \in [Jobs -> {"new", "writing", "clean", "over"}] /\ attempt' \in [Jobs -> 0..MaxAttempts]
    <3>1. /\ step \in [Jobs -> 1..7] /\ answer \in [Jobs -> {"none", "ok", "failed"}]
          /\ pc \in [Jobs -> {"new", "writing", "clean", "over"}] /\ attempt \in [Jobs -> 0..MaxAttempts]
      BY <1>1 DEF TypeOK
    <3>2. step' \in [Jobs -> 1..7]
      BY <1>7, <3>1 DEF CleanUp
    <3>3. CASE Exhausted(j)
      BY <1>7, <3>1, <3>2, <3>3 DEF CleanUp, GiveUp
    <3>4. CASE ~Exhausted(j)
      <4>1. attempt[j] + 1 \in 0..MaxAttempts
        BY <1>2, <3>1, <3>4 DEF Exhausted
      <4>2. QED
        BY <1>7, <3>1, <3>2, <3>4, <4>1 DEF CleanUp
    <3>5. QED
      BY <3>3, <3>4
  <2>5. TypeOK'
    BY <1>1, <1>7, <2>2, <2>3, <2>4 DEF CleanUp, TypeOK, agentVars
  <2>6. ASSUME NEW k \in Jobs PROVE Counted(k)'
    BY <1>1, <1>2, <1>3, <1>7, <2>3 DEF CleanUp, Counted, TypeOK, GiveUp, Exhausted
  <2>7. QED
    BY <2>5, <2>6 DEF Types
<1>8. CASE WriterDies(j)
  <2>1. faults' \in 0..MaxFaults
    BY <1>1, <1>8, FaultCounted DEF WriterDies
  <2>2. TypeOK'
    BY <1>1, <1>8, <2>1 DEF WriterDies, TypeOK, shareVars, agentVars
  <2>3. ASSUME NEW k \in Jobs PROVE Counted(k)'
    BY <1>1, <1>8 DEF WriterDies, Counted, TypeOK, shareVars
  <2>4. QED
    BY <2>2, <2>3 DEF Types
<1>9. QED
  BY <1>4, <1>5, <1>6, <1>7, <1>8 DEF Writer

\* What leaves the writers alone, and at most removes a file of theirs, keeps
\* the count.
LEMMA CountedKept ==
  ASSUME TypeOK, \A k \in Jobs : Counted(k), UNCHANGED <<writerVars, puts>>,
         \A k \in Jobs, f \in Files : tmp'[k][f] \in {tmp[k][f], "none"}
  PROVE  \A k \in Jobs : Counted(k)'
<1>1. "payload" \in Files /\ "sidecar" \in Files
  BY DEF Files
<1>2. QED
  BY <1>1 DEF Counted, writerVars

LEMMA AgentTypes ==
  ASSUME Types, Agent \/ PrintRaises \/ MoveRaises \/ AgentDies
  PROVE  Types'
<1>1. TypeOK /\ \A k \in Jobs : Counted(k)
  BY DEF Types
<1>2. "result" \in TmpFiles /\ "result" \notin Files /\ Files \subseteq TmpFiles
  BY DEF TmpFiles, Files
<1>3. ASSUME NEW j \in Jobs, Notice(j) PROVE Types'
  <2>1. InboxFiles(j) \subseteq Files /\ known' \subseteq Jobs
        /\ apc' \in {"refuse", "take"} /\ says' \in {"none", "rejected", "success"}
    BY <1>1, <1>3 DEF Notice, InboxFiles, TypeOK
  <2>2. TypeOK'
    BY <1>1, <1>3, <2>1 DEF Notice, TypeOK, Statuses, shareVars, writerVars, ghostVars
  <2>3. \A k \in Jobs : Counted(k)'
    BY <1>1, <1>3, CountedKept DEF Notice, shareVars, ghostVars
  <2>4. QED
    BY <2>2, <2>3 DEF Types
<1>4. ASSUME NEW f \in Files, Carry(f) PROVE Types'
  <2>1. inbox' \in [Jobs -> [Files -> Contents]]
    BY <1>1, <1>4 DEF Carry, TypeOK, Contents
  <2>2. TypeOK'
    BY <1>1, <1>4, <2>1 DEF Carry, TypeOK, writerVars, ghostVars
  <2>3. \A k \in Jobs : Counted(k)'
    BY <1>1, <1>4, CountedKept DEF Carry, ghostVars
  <2>4. QED
    BY <2>2, <2>3 DEF Types
<1>5. CASE PrintJob \/ PrintRaises
  <2>1. /\ job \in Jobs /\ printed' \in [Jobs -> Nat] /\ spoiled' \subseteq Jobs
        /\ says' \in Statuses /\ faults' \in 0..MaxFaults
    <3>1. /\ job \in Jobs /\ printed \in [Jobs -> Nat] /\ spoiled \subseteq Jobs
          /\ says \in Statuses /\ faults \in 0..MaxFaults
      BY <1>1, <1>5 DEF PrintJob, PrintRaises, TypeOK
    <3>2. CASE PrintJob
      BY <3>1, <3>2 DEF PrintJob
    <3>3. CASE PrintRaises
      BY <1>1, <3>1, <3>3, FaultCounted DEF PrintRaises, Statuses
    <3>4. QED
      BY <1>5, <3>2, <3>3
  <2>2. /\ apc' = "shelve"
        /\ UNCHANGED <<shareVars, writerVars, known, job, left, rstep, doomed, puts, heard, misled, hung>>
    BY <1>5 DEF PrintJob, PrintRaises
  <2>3. TypeOK'
    BY <1>1, <2>1, <2>2 DEF TypeOK, shareVars, writerVars
  <2>4. \A k \in Jobs : Counted(k)'
    BY <1>1, <2>2, CountedKept DEF shareVars
  <2>5. QED
    BY <2>3, <2>4 DEF Types
<1>10. CASE Carried \/ MoveRaises
  <2>1. /\ job \in Jobs /\ says \in Statuses \cup {"none"} /\ faults' \in 0..MaxFaults
        /\ spoiled' \subseteq Jobs
    BY <1>1, <1>10, FaultCounted DEF Carried, MoveRaises, TypeOK, ghostVars
  <2>2. /\ left' \subseteq Files
        /\ Rest \/ (apc' = "answer" /\ says' \in Statuses /\ UNCHANGED <<job, rstep>>)
        /\ UNCHANGED <<shareVars, writerVars, known, doomed, puts, printed, heard, misled, hung>>
    BY <1>1, <1>10, <2>1 DEF Carried, MoveRaises, TypeOK, Statuses, ghostVars
  <2>3. TypeOK'
    BY <1>1, <2>1, <2>2 DEF Rest, TypeOK, shareVars, writerVars
  <2>4. \A k \in Jobs : Counted(k)'
    BY <1>1, <2>2, CountedKept DEF shareVars
  <2>5. QED
    BY <2>3, <2>4 DEF Types
<1>6. CASE AnswerStep
  <2>1. /\ tmp' \in [Jobs -> [TmpFiles -> Contents]] /\ stale' \in [Jobs -> SUBSET TmpFiles]
        /\ \A k \in Jobs, f \in Files : tmp'[k][f] = tmp[k][f]
        /\ results' \in [Jobs -> Statuses \cup {"none", "part"}]
    <3>1. results \in [Jobs -> Statuses \cup {"none", "part"}]
          /\ tmp \in [Jobs -> [TmpFiles -> Contents]] /\ stale \in [Jobs -> SUBSET TmpFiles]
      BY <1>1 DEF TypeOK
    <3>2. job \in Jobs /\ says \in Statuses
      BY <1>1, <1>6, AnswerStepCases
    <3>3. results' \in [Jobs -> Statuses \cup {"none", "part"}]
      BY <1>1, <1>6, <3>1, <3>2, AnswerStepCases
    <3>4. OnlyTmp(job, "result") \/ UNCHANGED <<tmp, stale>>
      BY <1>1, <1>2, <1>6, <3>2, AnswerStepCases, CallEffects
    <3>5. QED
      BY <1>2, <3>1, <3>2, <3>3, <3>4 DEF OnlyTmp
  <2>2. /\ apc' \in {"idle", "answer"} /\ job' \in Jobs \cup {NoJob} /\ says' \in Statuses \cup {"none"}
        /\ rstep' \in 1..4
        /\ apc' = "answer" => job' \in Jobs /\ says' \in Statuses
    <3>1. rstep \in 1..4 /\ apc = "answer"
      BY <1>1, <1>6 DEF AnswerStep, TypeOK
    <3>2. QED
      BY <1>1, <1>6, <3>1, AnswerStepCases DEF Rest
  <2>3. TypeOK'
    BY <1>1, <1>6, <2>1, <2>2 DEF AnswerStep, TypeOK, writerVars, ghostVars
  <2>4. \A k \in Jobs : Counted(k)'
    BY <1>1, <1>6, <2>1, CountedKept DEF AnswerStep, ghostVars
  <2>5. QED
    BY <2>3, <2>4 DEF Types
<1>7. CASE AnswerRaises
  <2>1. job \in Jobs /\ faults' \in 0..MaxFaults
    BY <1>1, <1>7, FaultCounted DEF AnswerRaises, TypeOK
  <2>2. OnlyTmp(job, "result")
    BY <1>1, <1>2, <1>7, <2>1, CallEffects DEF AnswerRaises
  <2>3. TypeOK'
    BY <1>1, <1>7, <2>1, <2>2 DEF AnswerRaises, Rest, OnlyTmp, TypeOK, writerVars
  <2>4. \A k \in Jobs : Counted(k)'
    BY <1>1, <1>2, <1>7, <2>1, <2>2, CountedKept DEF AnswerRaises, OnlyTmp
  <2>5. QED
    BY <2>3, <2>4 DEF Types
<1>8. CASE AgentDies
  <2>1. /\ job \in Jobs /\ faults' \in 0..MaxFaults /\ left' \subseteq Files
        /\ printed' \in [Jobs -> Nat] /\ spoiled' \subseteq Jobs
    BY <1>1, <1>8, FaultCounted DEF AgentDies, TypeOK
  <2>2. /\ Rest \/ (apc' = "answer" /\ says' = "failed" /\ UNCHANGED <<job, rstep>>)
        /\ UNCHANGED <<shareVars, writerVars, known, doomed, puts, heard, misled, hung>>
    BY <1>8 DEF AgentDies
  <2>3. TypeOK'
    BY <1>1, <2>1, <2>2 DEF Rest, TypeOK, Statuses, shareVars, writerVars
  <2>4. \A k \in Jobs : Counted(k)'
    BY <1>1, <2>2, CountedKept DEF shareVars
  <2>5. QED
    BY <2>3, <2>4 DEF Types
<1>9. QED
  BY <1>3, <1>4, <1>5, <1>6, <1>7, <1>8, <1>10 DEF Agent

LEMMA AroundTypes ==
  ASSUME Types
  PROVE  /\ \A j \in Jobs : Collect(j) => Types'
         /\ \A j \in Jobs, f \in TmpFiles : Age(j, f) \/ Look(j, f) \/ Sweep(j, f) => Types'
<1>1. TypeOK /\ \A k \in Jobs : Counted(k)
  BY DEF Types
<1>2. ASSUME NEW j \in Jobs, Collect(j) PROVE Types'
  <2>1. /\ heard' \in [Jobs -> SUBSET (Statuses \cup {"part"})]
        /\ results' \in [Jobs -> Statuses \cup {"none", "part"}]
    BY <1>1, <1>2 DEF Collect, TypeOK
  <2>2. TypeOK'
    BY <1>1, <1>2, <2>1 DEF Collect, TypeOK, writerVars, agentVars
  <2>3. \A k \in Jobs : Counted(k)'
    BY <1>1, <1>2, CountedKept DEF Collect
  <2>4. QED
    BY <2>2, <2>3 DEF Types
<1>3. ASSUME NEW j \in Jobs, NEW f \in TmpFiles, Age(j, f) PROVE Types'
  <2>1. stale' \in [Jobs -> SUBSET TmpFiles] /\ hung' \subseteq Jobs
    BY <1>1, <1>3 DEF Age, TypeOK
  <2>2. TypeOK'
    BY <1>1, <1>3, <2>1 DEF Age, TypeOK, writerVars, agentVars
  <2>3. \A k \in Jobs : Counted(k)'
    BY <1>1, <1>3, CountedKept DEF Age
  <2>4. QED
    BY <2>2, <2>3 DEF Types
<1>4. ASSUME NEW j \in Jobs, NEW f \in TmpFiles, Look(j, f) PROVE Types'
  <2>1. TypeOK'
    BY <1>1, <1>4 DEF Look, TypeOK, shareVars, writerVars, agentVars, ghostVars
  <2>2. \A k \in Jobs : Counted(k)'
    BY <1>1, <1>4, CountedKept DEF Look, shareVars, ghostVars
  <2>3. QED
    BY <2>1, <2>2 DEF Types
<1>5. ASSUME NEW j \in Jobs, NEW f \in TmpFiles, Sweep(j, f) PROVE Types'
  <2>1. /\ tmp' \in [Jobs -> [TmpFiles -> Contents]] /\ stale' \in [Jobs -> SUBSET TmpFiles]
        /\ \A k \in Jobs, g \in Files : tmp'[k][g] \in {tmp[k][g], "none"}
        /\ faults' \in 0..MaxFaults
    <3>1. Files \subseteq TmpFiles
      BY DEF TmpFiles
    <3>2. CASE Leave(j, f) /\ UNCHANGED faults
      <4>1. OnlyTmp(j, f) /\ tmp'[j][f] = "none" /\ faults' \in 0..MaxFaults
        BY <1>1, <3>2, CallEffects DEF TypeOK
      <4>2. \A k \in Jobs, g \in Files : tmp'[k][g] \in {tmp[k][g], "none"}
        BY <3>1, <4>1 DEF OnlyTmp
      <4>3. QED
        BY <4>1, <4>2 DEF OnlyTmp
    <3>3. CASE Fault("unlink") /\ UNCHANGED <<tmp, stale>>
      BY <1>1, <3>3, FaultCounted DEF TypeOK
    <3>4. QED
      BY <1>5, <3>2, <3>3 DEF Sweep
  <2>2. TypeOK'
    BY <1>1, <1>5, <2>1 DEF Sweep, TypeOK, writerVars, agentVars
  <2>3. \A k \in Jobs : Counted(k)'
    BY <1>1, <1>5, <2>1, CountedKept DEF Sweep
  <2>4. QED
    BY <2>2, <2>3 DEF Types
<1>6. QED
  BY <1>2, <1>3, <1>4, <1>5

LEMMA TypesStep == Types /\ [Next]_vars => Types'
<1> SUFFICES ASSUME Types, [Next]_vars PROVE Types'
  OBVIOUS
<1>1. CASE Next
  BY <1>1, WriterTypes, AgentTypes, AroundTypes DEF Next
<1>2. CASE UNCHANGED vars
  BY <1>2 DEF vars, Types, TypeOK, Counted
<1>3. QED
  BY <1>1, <1>2

\* The folders, writers, agent and sweeps keep their types, and a payload comes
\* into the inbox at most once per attempt, whatever fails (enqueue.write).
THEOREM TypeCorrect == Spec => []TypeOK
<1>1. Spec => []Types
  BY TypesInit, TypesStep, PTL DEF Spec
<1>2. Types => TypeOK
  BY DEF Types
<1>3. QED
  BY <1>1, <1>2, PTL

-----------------------------------------------------------------------------
(* The invariant is inductive.                                             *)

\* Nothing that is said of job k changes.
SameFor(k) ==
  /\ pc'[k] = pc[k] /\ step'[k] = step[k] /\ answer'[k] = answer[k]
  /\ \A f \in TmpFiles :
       /\ tmp'[k][f] = tmp[k][f]
       /\ f \in stale'[k] <=> f \in stale[k]
       /\ <<k, f>> \in doomed' <=> <<k, f>> \in doomed
  /\ \A f \in Files : inbox'[k][f] = inbox[k][f]
  /\ results'[k] = results[k] /\ heard'[k] = heard[k]
  /\ puts'[k] = puts[k] /\ printed'[k] = printed[k]
  /\ k \in known' <=> k \in known
  /\ k \in misled' <=> k \in misled
  /\ k \in hung' <=> k \in hung
  /\ job' = k <=> job = k
  /\ job = k => apc' = apc /\ left' = left /\ says' = says /\ rstep' = rstep

LEMMA SoundKept ==
  ASSUME NEW k \in Jobs, Sound(k), SameFor(k)
  PROVE  Sound(k)'
<1>1. "payload" \in Files /\ "sidecar" \in Files /\ Files \subseteq TmpFiles /\ "result" \in TmpFiles
  BY DEF Files, TmpFiles
<1>2. Filled(k)'
  BY <1>1 DEF Sound, Filled, SameFor
<1>3. Paired(k)'
  BY <1>1 DEF Sound, Paired, Taken, SameFor
<1>4. Single(k)'
  BY <1>1 DEF Sound, Single, Taken, SameFor
<1>5. Unswept(k)'
  BY <1>1 DEF Sound, Unswept, SameFor
<1>6. QED
  BY <1>2, <1>3, <1>4, <1>5 DEF Sound

\* What WriteStep changes, value by value.
LEMMA WriteStepAt ==
  ASSUME TypeOK, NEW j \in Jobs, WriteStep(j)
  PROVE  /\ \A k \in Jobs \ {j} : SameFor(k)
         /\ pc[j] = "writing" /\ step[j] \in 1..7
         /\ step[j] < 7 => pc'[j] = "writing" /\ step'[j] = step[j] + 1 /\ answer'[j] = answer[j]
         /\ step[j] = 7 => pc'[j] = "over" /\ answer'[j] = "ok"
         /\ tmp'[j].payload =
              IF step[j] = 1 THEN "part"
              ELSE IF step[j] = 2 /\ tmp[j].payload # "none" THEN "whole"
              ELSE IF step[j] = 6 THEN "none" ELSE tmp[j].payload
         /\ tmp'[j].sidecar =
              IF step[j] = 3 THEN "part"
              ELSE IF step[j] = 4 /\ tmp[j].sidecar # "none" THEN "whole"
              ELSE IF step[j] = 5 THEN "none" ELSE tmp[j].sidecar
         /\ tmp'[j].result = tmp[j].result
         /\ \A f \in Files : f \notin stale[j] => f \notin stale'[j]
         /\ inbox'[j].sidecar = IF step[j] = 5 THEN tmp[j].sidecar ELSE inbox[j].sidecar
         /\ inbox'[j].payload = IF step[j] = 6 THEN tmp[j].payload ELSE inbox[j].payload
         /\ step[j] = 5 => tmp[j].sidecar # "none"
         /\ step[j] = 6 => tmp[j].payload # "none"
         /\ puts'[j] = IF step[j] = 6 THEN puts[j] + 1 ELSE puts[j]
         /\ UNCHANGED <<results, agentVars, doomed, printed, heard, spoiled, misled, hung>>
<1>1. /\ pc[j] = "writing" /\ step[j] \in 1..7
      /\ step[j] < 7 => step' = [step EXCEPT ![j] = @ + 1] /\ UNCHANGED <<pc, answer>>
      /\ step[j] = 7 => /\ pc' = [pc EXCEPT ![j] = "over"]
                        /\ answer' = [answer EXCEPT ![j] = "ok"] /\ UNCHANGED step
      /\ UNCHANGED <<results, attempt, agentVars, doomed, printed, heard, spoiled, misled, hung, faults>>
  BY WriteJobCalls DEF WriteStep, TypeOK
<1>2. /\ "payload" \in Files /\ "sidecar" \in Files /\ Files = {"payload", "sidecar"}
      /\ TmpFiles = {"payload", "sidecar", "result"}
  BY DEF Files, TmpFiles
<1>3. /\ step \in [Jobs -> 1..7] /\ answer \in [Jobs -> {"none", "ok", "failed"}]
      /\ pc \in [Jobs -> {"new", "writing", "clean", "over"}] /\ puts \in [Jobs -> 0..MaxAttempts]
  BY DEF TypeOK
<1>4. /\ \A k \in Jobs \ {j} : /\ pc'[k] = pc[k] /\ step'[k] = step[k] /\ answer'[k] = answer[k]
      /\ step[j] < 7 => pc'[j] = "writing" /\ step'[j] = step[j] + 1 /\ answer'[j] = answer[j]
      /\ step[j] = 7 => pc'[j] = "over" /\ answer'[j] = "ok"
  <2>1. CASE step[j] < 7
    BY <1>1, <1>3, <2>1
  <2>2. CASE step[j] = 7
    BY <1>1, <1>3, <2>2
  <2>3. QED
    BY <1>1, <2>1, <2>2
<1> DEFINE Rows ==
      \A k \in Jobs \ {j} :
        /\ \A f \in TmpFiles : tmp'[k][f] = tmp[k][f] /\ (f \in stale'[k] <=> f \in stale[k])
        /\ \A f \in Files : inbox'[k][f] = inbox[k][f]
        /\ puts'[k] = puts[k]
<1>5. /\ Rows
      /\ tmp'[j].payload =
              IF step[j] = 1 THEN "part"
              ELSE IF step[j] = 2 /\ tmp[j].payload # "none" THEN "whole"
              ELSE IF step[j] = 6 THEN "none" ELSE tmp[j].payload
      /\ tmp'[j].sidecar =
              IF step[j] = 3 THEN "part"
              ELSE IF step[j] = 4 /\ tmp[j].sidecar # "none" THEN "whole"
              ELSE IF step[j] = 5 THEN "none" ELSE tmp[j].sidecar
      /\ tmp'[j].result = tmp[j].result
      /\ \A f \in Files : f \notin stale[j] => f \notin stale'[j]
      /\ inbox'[j].sidecar = IF step[j] = 5 THEN tmp[j].sidecar ELSE inbox[j].sidecar
      /\ inbox'[j].payload = IF step[j] = 6 THEN tmp[j].payload ELSE inbox[j].payload
      /\ step[j] = 5 => tmp[j].sidecar # "none"
      /\ step[j] = 6 => tmp[j].payload # "none"
      /\ puts'[j] = IF step[j] = 6 THEN puts[j] + 1 ELSE puts[j]
  <2>1. CASE step[j] = 1
    BY <1>2, <2>1, WriteStepCases, CallEffects DEF OnlyTmp
  <2>2. CASE step[j] = 2
    BY <1>2, <2>2, WriteStepCases, CallEffects DEF OnlyTmp
  <2>3. CASE step[j] = 3
    BY <1>2, <2>3, WriteStepCases, CallEffects DEF OnlyTmp
  <2>4. CASE step[j] = 4
    BY <1>2, <2>4, WriteStepCases, CallEffects DEF OnlyTmp
  <2>5. CASE step[j] = 5
    BY <1>2, <1>3, <2>5, WriteStepCases, PublishEffects DEF OnlyTmp
  <2>6. CASE step[j] = 6
    BY <1>2, <1>3, <2>6, WriteStepCases, PublishEffects DEF OnlyTmp
  <2>7. CASE step[j] = 7
    BY <2>7, WriteStepCases
  <2>8. QED
    BY <1>1, <2>1, <2>2, <2>3, <2>4, <2>5, <2>6, <2>7
<1>6. \A k \in Jobs \ {j} : SameFor(k)
  BY <1>1, <1>4, <1>5 DEF SameFor, agentVars
<1>7. QED
  BY <1>1, <1>4, <1>5, <1>6

LEMMA WriteStepSound ==
  ASSUME Types, \A k \in Jobs : Sound(k), NEW j \in Jobs, WriteStep(j)
  PROVE  \A k \in Jobs : Sound(k)'
<1> USE DEF Sound
<1>1. /\ TypeOK /\ Counted(j) /\ Filled(j) /\ Paired(j) /\ Single(j) /\ Unswept(j)
      /\ "payload" \in Files /\ "sidecar" \in Files /\ Files = {"payload", "sidecar"}
      /\ TmpFiles = {"payload", "sidecar", "result"}
      /\ puts[j] \in Nat /\ step[j] \in 1..7
      /\ \A f \in TmpFiles : tmp[j][f] \in {"none", "part", "whole"}
  BY DEF Types, Files, TmpFiles, TypeOK, Contents
<1>2. Filled(j)'
  BY <1>1, WriteStepAt DEF Filled, agentVars
<1>3. Paired(j)'
  BY <1>1, WriteStepAt DEF Paired, Taken, Filled, agentVars
<1>4. Single(j)'
  BY <1>1, WriteStepAt DEF Single, Taken, Paired, Counted, agentVars
<1>5. Unswept(j)'
  BY <1>1, WriteStepAt DEF Unswept
<1>6. ASSUME NEW k \in Jobs \ {j} PROVE Sound(k)'
  BY <1>1, WriteStepAt, SoundKept
<1>7. QED
  BY <1>2, <1>3, <1>4, <1>5, <1>6

\* What WriteRaises changes: the row of j, of which at most one file is torn,
\* or published without the writer's knowing it.
LEMMA WriteRaisesAt ==
  ASSUME TypeOK, NEW j \in Jobs, WriteRaises(j)
  PROVE  /\ \A k \in Jobs \ {j} : SameFor(k)
         /\ pc[j] = "writing" /\ pc'[j] = "clean" /\ step[j] \in 1..6 /\ answer'[j] = answer[j]
         /\ tmp'[j].result = tmp[j].result
         /\ \A f \in Files : f \notin stale[j] => f \notin stale'[j]
         /\ \/ /\ \A f \in Files : inbox'[j][f] = inbox[j][f]
               /\ puts'[j] = puts[j] /\ misled' = misled
            \/ /\ step[j] = 5 /\ inbox'[j].sidecar = tmp[j].sidecar /\ tmp[j].sidecar # "none"
               /\ inbox'[j].payload = inbox[j].payload
               /\ puts'[j] = puts[j] /\ j \in misled'
            \/ /\ step[j] = 6 /\ inbox'[j].payload = tmp[j].payload /\ tmp[j].payload # "none"
               /\ inbox'[j].sidecar = inbox[j].sidecar
               /\ puts'[j] = puts[j] + 1 /\ j \in misled'
         /\ UNCHANGED <<results, agentVars, doomed, printed, heard, spoiled, hung>>
<1>1. /\ pc[j] = "writing" /\ pc' = [pc EXCEPT ![j] = "clean"] /\ step[j] \in 1..7 /\ step[j] # 7
      /\ UNCHANGED <<results, step, attempt, answer, agentVars, doomed, printed, heard, spoiled, hung>>
  BY WriteRaisesCases DEF WriteRaises, TypeOK
<1>2. /\ "payload" \in Files /\ "sidecar" \in Files /\ Files = {"payload", "sidecar"}
      /\ TmpFiles = {"payload", "sidecar", "result"}
  BY DEF Files, TmpFiles
<1>3. pc \in [Jobs -> {"new", "writing", "clean", "over"}] /\ puts \in [Jobs -> 0..MaxAttempts]
  BY DEF TypeOK
<1>4. pc'[j] = "clean" /\ \A k \in Jobs \ {j} : pc'[k] = pc[k]
  BY <1>1, <1>3
<1> DEFINE Rows ==
      \A k \in Jobs \ {j} :
        /\ \A f \in TmpFiles : tmp'[k][f] = tmp[k][f] /\ (f \in stale'[k] <=> f \in stale[k])
        /\ \A f \in Files : inbox'[k][f] = inbox[k][f]
        /\ puts'[k] = puts[k] /\ (k \in misled' <=> k \in misled)
<1> DEFINE Row ==
      /\ tmp'[j].result = tmp[j].result
      /\ \A f \in Files : f \notin stale[j] => f \notin stale'[j]
      /\ \/ /\ \A f \in Files : inbox'[j][f] = inbox[j][f]
            /\ puts'[j] = puts[j] /\ misled' = misled
         \/ /\ step[j] = 5 /\ inbox'[j].sidecar = tmp[j].sidecar /\ tmp[j].sidecar # "none"
            /\ inbox'[j].payload = inbox[j].payload
            /\ puts'[j] = puts[j] /\ j \in misled'
         \/ /\ step[j] = 6 /\ inbox'[j].payload = tmp[j].payload /\ tmp[j].payload # "none"
            /\ inbox'[j].sidecar = inbox[j].sidecar
            /\ puts'[j] = puts[j] + 1 /\ j \in misled'
<1>5. Rows /\ Row
  <2>1. CASE UNCHANGED <<tmp, stale, inbox, puts, misled>>
    BY <2>1
  <2>2. CASE Create(j, "payload") /\ UNCHANGED <<inbox, puts, misled>>
    BY <1>2, <2>2, CallEffects DEF OnlyTmp
  <2>3. CASE Create(j, "sidecar") /\ UNCHANGED <<inbox, puts, misled>>
    BY <1>2, <2>3, CallEffects DEF OnlyTmp
  <2>4. CASE /\ step[j] = 5 /\ tmp[j].sidecar # "none" /\ Publish(j, "sidecar")
             /\ misled' = misled \cup {j}
    BY <1>2, <1>3, <2>4, PublishEffects DEF OnlyTmp
  <2>5. CASE /\ step[j] = 6 /\ tmp[j].payload # "none" /\ Publish(j, "payload")
             /\ misled' = misled \cup {j}
    BY <1>2, <1>3, <2>5, PublishEffects DEF OnlyTmp
  <2>6. QED
    BY <2>1, <2>2, <2>3, <2>4, <2>5, WriteRaisesCases
<1>6. \A k \in Jobs \ {j} : SameFor(k)
  BY <1>1, <1>4, <1>5 DEF SameFor, agentVars
<1>7. QED
  BY <1>1, <1>4, <1>5, <1>6

LEMMA WriteRaisesSound ==
  ASSUME Types, \A k \in Jobs : Sound(k), NEW j \in Jobs, WriteRaises(j)
  PROVE  \A k \in Jobs : Sound(k)'
<1> USE DEF Sound
<1>1. /\ TypeOK /\ Counted(j) /\ Filled(j) /\ Paired(j) /\ Single(j) /\ Unswept(j)
      /\ "payload" \in Files /\ "sidecar" \in Files /\ Files = {"payload", "sidecar"}
      /\ TmpFiles = {"payload", "sidecar", "result"}
      /\ puts[j] \in Nat /\ step[j] \in 1..7
      /\ \A f \in TmpFiles : tmp[j][f] \in {"none", "part", "whole"}
  BY DEF Types, Files, TmpFiles, TypeOK, Contents
<1>2. Filled(j)'
  BY <1>1, WriteRaisesAt DEF Filled, agentVars
<1>3. Paired(j)'
  BY <1>1, WriteRaisesAt DEF Paired, Taken, Filled, agentVars
<1>4. Single(j)'
  BY <1>1, WriteRaisesAt DEF Single, Taken, Counted, agentVars
<1>5. Unswept(j)'
  BY <1>1, WriteRaisesAt DEF Unswept
<1>6. ASSUME NEW k \in Jobs \ {j} PROVE Sound(k)'
  BY <1>1, WriteRaisesAt, SoundKept
<1>7. QED
  BY <1>2, <1>3, <1>4, <1>5, <1>6

LEMMA WriterSound ==
  ASSUME Types, IInv, NEW j \in Jobs, Writer(j) \/ WriterDies(j)
  PROVE  IInv'
<1> USE DEF Sound
<1>1. /\ TypeOK /\ Counted(j) /\ Filled(j) /\ Paired(j) /\ Single(j) /\ Unswept(j)
      /\ \A k \in Jobs : Sound(k)
      /\ Files = {"payload", "sidecar"} /\ TmpFiles = {"payload", "sidecar", "result"}
      /\ puts[j] \in Nat /\ step[j] \in 1..7
  BY DEF Types, IInv, Files, TmpFiles, TypeOK
<1>2. /\ step \in [Jobs -> 1..7] /\ answer \in [Jobs -> {"none", "ok", "failed"}]
      /\ pc \in [Jobs -> {"new", "writing", "clean", "over"}]
      /\ tmp \in [Jobs -> [TmpFiles -> Contents]] /\ stale \in [Jobs -> SUBSET TmpFiles]
  BY <1>1 DEF TypeOK
<1>3. CASE Begin(j)
  <2>1. /\ pc[j] = "new" /\ pc'[j] = "writing" /\ \A k \in Jobs \ {j} : pc'[k] = pc[k]
        /\ UNCHANGED <<shareVars, step, answer, agentVars, doomed, ghostVars>>
    BY <1>2, <1>3 DEF Begin
  <2>2. \A k \in Jobs \ {j} : SameFor(k)
    BY <2>1 DEF SameFor, shareVars, agentVars, ghostVars
  <2>3. Filled(j)' /\ Paired(j)'
    BY <1>1, <2>1 DEF Filled, Paired, Taken, Counted, shareVars, agentVars, ghostVars
  <2>4. Single(j)' /\ Unswept(j)'
    BY <1>1, <2>1 DEF Single, Taken, Unswept, Counted, shareVars, agentVars, ghostVars
  <2>5. QED
    BY <1>1, <2>1, <2>2, <2>3, <2>4, SoundKept DEF IInv, agentVars
<1>4. CASE CleanUp(j)
  <2>1. /\ pc[j] = "clean" /\ step' = [step EXCEPT ![j] = 1]
        /\ UNCHANGED <<inbox, results, agentVars, doomed, puts, printed, heard, spoiled, misled, hung>>
    BY <1>4 DEF CleanUp
  <2>2. /\ \A k \in Jobs \ {j} : pc'[k] = pc[k] /\ answer'[k] = answer[k] /\ step'[k] = step[k]
        /\ step'[j] = 1
        /\ \/ pc'[j] = "over" /\ answer'[j] = "failed"
           \/ pc'[j] = "writing" /\ answer'[j] = answer[j]
    <3>1. CASE Exhausted(j)
      BY <1>2, <1>4, <3>1 DEF CleanUp, GiveUp
    <3>2. CASE ~Exhausted(j)
      BY <1>2, <1>4, <3>2 DEF CleanUp
    <3>3. QED
      BY <3>1, <3>2
  <2>3. /\ \A k \in Jobs \ {j}, f \in TmpFiles : tmp'[k][f] = tmp[k][f] /\ (f \in stale'[k] <=> f \in stale[k])
        /\ tmp'[j].result = tmp[j].result
        /\ \A f \in Files : f \notin stale[j] => f \notin stale'[j]
    BY <1>1, <1>2, <1>4 DEF CleanUp
  <2>4. \A k \in Jobs \ {j} : SameFor(k)
    BY <2>1, <2>2, <2>3 DEF SameFor, agentVars
  <2>5. Filled(j)' /\ Paired(j)'
    BY <1>1, <2>1, <2>2, <2>3 DEF Filled, Paired, Taken, agentVars
  <2>6. Single(j)' /\ Unswept(j)'
    BY <1>1, <2>1, <2>2, <2>3 DEF Single, Taken, Unswept, Counted, agentVars
  <2>7. QED
    BY <1>1, <2>1, <2>4, <2>5, <2>6, SoundKept DEF IInv, agentVars
<1>5. CASE WriterDies(j)
  <2>1. /\ pc[j] \in {"writing", "clean"} /\ pc'[j] = "over" /\ \A k \in Jobs \ {j} : pc'[k] = pc[k]
        /\ UNCHANGED <<shareVars, step, attempt, answer, agentVars, doomed, puts, printed, heard, spoiled, misled, hung>>
    BY <1>2, <1>5 DEF WriterDies
  <2>2. \A k \in Jobs \ {j} : SameFor(k)
    BY <2>1 DEF SameFor, shareVars, agentVars
  <2>3. Filled(j)' /\ Paired(j)'
    BY <1>1, <2>1 DEF Filled, Paired, Taken, shareVars, agentVars
  <2>4. Single(j)' /\ Unswept(j)'
    BY <1>1, <2>1 DEF Single, Taken, Unswept, Counted, shareVars, agentVars
  <2>5. QED
    BY <1>1, <2>1, <2>2, <2>3, <2>4, SoundKept DEF IInv, agentVars
<1>6. CASE WriteStep(j)
  BY <1>1, <1>6, WriteStepAt, WriteStepSound DEF IInv, agentVars
<1>7. CASE WriteRaises(j)
  BY <1>1, <1>7, WriteRaisesAt, WriteRaisesSound DEF IInv, agentVars
<1>8. QED
  BY <1>3, <1>4, <1>5, <1>6, <1>7 DEF Writer

LEMMA AgentSound ==
  ASSUME Types, IInv, Agent \/ PrintRaises \/ MoveRaises \/ AgentDies
  PROVE  IInv'
<1> USE DEF Sound
<1>1. /\ TypeOK /\ \A k \in Jobs : Sound(k)
      /\ Files = {"payload", "sidecar"} /\ TmpFiles = {"payload", "sidecar", "result"}
      /\ NoJob \notin Jobs
  BY ConstantsAssumption DEF Types, IInv, Files, TmpFiles
<1>2. /\ inbox \in [Jobs -> [Files -> Contents]] /\ results \in [Jobs -> Statuses \cup {"none", "part"}]
      /\ tmp \in [Jobs -> [TmpFiles -> Contents]] /\ stale \in [Jobs -> SUBSET TmpFiles]
      /\ printed \in [Jobs -> Nat]
  BY <1>1 DEF TypeOK
<1>3. ASSUME NEW j \in Jobs, Notice(j) PROVE IInv'
  <2>1. /\ Filled(j) /\ Paired(j) /\ Single(j) /\ Unswept(j)
        /\ job = NoJob /\ apc = "idle" /\ job' = j /\ inbox[j].payload # "none" /\ "payload" \in left'
        /\ \A k \in Jobs \ {j} : k \in known' <=> k \in known
        /\ apc' # "answer" /\ printed[j] \in Nat
        /\ UNCHANGED <<shareVars, writerVars, rstep, doomed, ghostVars>>
    BY <1>1, <1>2, <1>3 DEF Notice, IInv, InboxFiles
  <2>2. \A k \in Jobs \ {j} : SameFor(k)
    BY <1>1, <2>1 DEF SameFor, shareVars, writerVars, ghostVars
  <2>3. Filled(j)' /\ Unswept(j)'
    BY <1>1, <2>1 DEF Filled, Unswept, shareVars, writerVars, ghostVars
  <2>4. Paired(j)'
    BY <1>1, <1>3, <2>1 DEF Notice, Filled, Paired, Taken, shareVars, writerVars, ghostVars
  <2>5. Single(j)'
    BY <1>1, <1>3, <2>1 DEF Notice, Filled, Paired, Single, Taken, shareVars, writerVars, ghostVars
  <2>6. QED
    BY <1>1, <1>3, <2>1, <2>2, <2>3, <2>4, <2>5, SoundKept DEF IInv, Notice
<1>4. ASSUME NEW f \in Files, Carry(f) PROVE IInv'
  <2>1. /\ apc \in {"refuse", "take"} /\ left' = left \ {f} /\ job \in Jobs
        /\ inbox'[job][f] = "none"
        /\ \A g \in Files \ {f} : inbox'[job][g] = inbox[job][g]
        /\ \A k \in Jobs \ {job}, g \in Files : inbox'[k][g] = inbox[k][g]
        /\ UNCHANGED <<tmp, stale, results, writerVars, known, apc, job, says, rstep, doomed, ghostVars>>
    BY <1>1, <1>2, <1>4 DEF Carry, TypeOK
  <2>2. Filled(job) /\ Paired(job) /\ Single(job) /\ Unswept(job)
    BY <1>1, <2>1
  <2>3. \A k \in Jobs \ {job} : SameFor(k)
    BY <1>1, <2>1 DEF SameFor, writerVars, ghostVars
  <2>4. /\ \A k \in {job} : Filled(k)' /\ Unswept(k)'
    BY <1>1, <2>1, <2>2 DEF Filled, Unswept, writerVars, ghostVars
  <2>5. /\ \A k \in {job} : Paired(k)'
    BY <1>1, <2>1, <2>2 DEF Paired, Taken, writerVars, ghostVars
  <2>6. /\ \A k \in {job} : Single(k)'
    BY <1>1, <2>1, <2>2 DEF Single, Taken, writerVars, ghostVars
  <2>7. \A k \in Jobs : Sound(k)'
    BY <1>1, <2>3, <2>4, <2>5, <2>6, SoundKept
  <2>8. QED
    BY <2>1, <2>7 DEF IInv
<1>5. ASSUME job \in Jobs, apc \in {"refuse", "take", "shelve"}, apc' \notin {"take", "idle"}, job' = job,
             says' \in {says, "failed"}, UNCHANGED <<rstep, shareVars, writerVars, known, doomed, puts, heard, misled, hung>>,
             left' \in {left, {}},
             \/ UNCHANGED printed
             \/ /\ apc = "take" /\ left = {} /\ printed' = [printed EXCEPT ![job] = @ + 1]
      PROVE  IInv'
  <2>1. Filled(job) /\ Paired(job) /\ Single(job) /\ Unswept(job) /\ rstep = 1
    BY <1>1, <1>5 DEF IInv
  <2>2. /\ \A k \in Jobs \ {job} : printed'[k] = printed[k]
        /\ \/ printed'[job] = printed[job]
           \/ apc = "take" /\ left = {}
    BY <1>2, <1>5
  <2>3. \A k \in Jobs \ {job} : SameFor(k)
    BY <1>1, <1>5, <2>2 DEF SameFor, shareVars, writerVars
  <2>4. \A k \in {job} : Unswept(k)' /\ Filled(k)'
    BY <1>1, <1>5, <2>1 DEF Unswept, Filled, shareVars, writerVars
  <2>5. \A k \in {job} : Paired(k)'
    BY <1>1, <1>5, <2>1, <2>2 DEF Paired, Taken, shareVars, writerVars
  <2>6. \A k \in {job} : Single(k)'
    BY <1>1, <1>5, <2>1, <2>2 DEF Single, Taken, shareVars, writerVars
  <2>7. \A k \in Jobs : Sound(k)'
    BY <1>1, <2>3, <2>4, <2>5, <2>6, SoundKept
  <2>8. QED
    BY <1>5, <2>1, <2>7 DEF IInv
<1>9. ASSUME job \in Jobs, apc # "idle", Rest, left' \in {left, {}},
             Leave(job, "result") \/ UNCHANGED <<tmp, stale>>,
             UNCHANGED <<inbox, results, writerVars, known, doomed, puts, printed, heard, misled, hung>>
      PROVE  IInv'
  <2>2. Filled(job) /\ Paired(job) /\ Single(job) /\ Unswept(job)
    BY <1>1, <1>9
  <2>3. /\ \A k \in Jobs \ {job}, f \in TmpFiles : tmp'[k][f] = tmp[k][f] /\ (f \in stale'[k] <=> f \in stale[k])
        /\ \A f \in Files : tmp'[job][f] = tmp[job][f] /\ (f \in stale'[job] <=> f \in stale[job])
    BY <1>1, <1>9, CallEffects DEF OnlyTmp
  <2>4. \A k \in Jobs \ {job} : SameFor(k)
    BY <1>1, <1>9, <2>3 DEF SameFor, Rest, writerVars
  <2>5. \A k \in {job} : Unswept(k)' /\ Paired(k)'
    BY <1>1, <1>9, <2>2, <2>3 DEF Unswept, Paired, Taken, Rest, writerVars
  <2>6. \A k \in {job} : Single(k)' /\ Filled(k)'
    BY <1>1, <1>9, <2>2, <2>3 DEF Single, Taken, Filled, Rest, writerVars
  <2>7. \A k \in Jobs : Sound(k)'
    BY <1>1, <2>4, <2>5, <2>6, SoundKept
  <2>8. QED
    BY <1>9, <2>7 DEF IInv, Rest
<1>10. CASE PrintJob
  <2>1. job \in Jobs
    BY <1>1, <1>10 DEF PrintJob, TypeOK
  <2>2. QED
    BY <1>5, <1>10, <2>1 DEF PrintJob
<1>11. CASE PrintRaises
  <2>1. job \in Jobs
    BY <1>1, <1>11 DEF PrintRaises, TypeOK
  <2>2. QED
    BY <1>5, <1>11, <2>1 DEF PrintRaises
<1>12. CASE Carried
  <2>1. job \in Jobs /\ apc \in {"refuse", "shelve"}
    BY <1>1, <1>12 DEF Carried, TypeOK
  <2>2. CASE says = "none"
    BY <1>9, <1>12, <2>1, <2>2 DEF Carried, shareVars, ghostVars
  <2>3. CASE says # "none"
    BY <1>5, <1>12, <2>1, <2>3 DEF Carried, ghostVars
  <2>4. QED
    BY <2>2, <2>3
<1>13. CASE MoveRaises
  <2>1. job \in Jobs /\ apc \in {"refuse", "take", "shelve"}
    BY <1>1, <1>13 DEF MoveRaises, TypeOK
  <2>2. CASE apc = "shelve" \/ says = "none"
    BY <1>9, <1>13, <2>1, <2>2 DEF MoveRaises, shareVars
  <2>3. CASE ~(apc = "shelve" \/ says = "none")
    BY <1>5, <1>13, <2>1, <2>3 DEF MoveRaises
  <2>4. QED
    BY <2>2, <2>3
<1>14. CASE AgentDies
  <2>1. job \in Jobs
    BY <1>1, <1>14 DEF AgentDies, TypeOK
  <2>2. CASE apc = "take"
    BY <1>5, <1>14, <2>1, <2>2 DEF AgentDies
  <2>3. CASE apc # "take"
    BY <1>9, <1>14, <2>1, <2>3 DEF AgentDies, shareVars
  <2>4. QED
    BY <2>2, <2>3
<1>6. CASE AnswerStep
  <2>1. /\ apc = "answer" /\ job \in Jobs /\ says \in Statuses /\ rstep \in 1..4
        /\ \/ rstep < 4 /\ rstep' = rstep + 1 /\ UNCHANGED <<apc, job, says>>
           \/ rstep = 4 /\ Rest
        /\ UNCHANGED <<inbox, writerVars, known, left, doomed, ghostVars>>
    BY <1>1, <1>6, AnswerStepCases DEF AnswerStep, TypeOK
  <2>2. Filled(job) /\ Paired(job) /\ Single(job) /\ Unswept(job)
    BY <1>1, <2>1
  <2>3. /\ \A k \in Jobs \ {job} :
             /\ \A f \in TmpFiles : tmp'[k][f] = tmp[k][f] /\ (f \in stale'[k] <=> f \in stale[k])
             /\ results'[k] = results[k]
        /\ \A f \in Files : tmp'[job][f] = tmp[job][f] /\ (f \in stale'[job] <=> f \in stale[job])
        /\ rstep = 2 => tmp'[job].result # "part"
        /\ results'[job] = results[job] \/ (rstep = 3 /\ results'[job] = says)
    <3>1. CASE rstep = 1 /\ Create(job, "result") /\ UNCHANGED results
      BY <1>1, <2>1, <3>1, CallEffects DEF OnlyTmp
    <3>2. CASE rstep = 2 /\ Fill(job, "result") /\ UNCHANGED results
      BY <1>1, <2>1, <3>2, CallEffects DEF OnlyTmp
    <3>3. CASE /\ rstep = 3 /\ tmp[job].result # "none" /\ Leave(job, "result")
               /\ results' = [results EXCEPT ![job] = IF tmp[job].result = "whole" THEN says ELSE "part"]
      <4>1. tmp[job].result = "whole"
        BY <1>1, <1>2, <2>1, <2>2, <3>3 DEF Filled, Contents
      <4>2. results' = [results EXCEPT ![job] = says]
        BY <3>3, <4>1
      <4>3. QED
        BY <1>1, <1>2, <2>1, <3>3, <4>2, CallEffects DEF OnlyTmp
    <3>4. CASE rstep = 4 /\ UNCHANGED <<tmp, stale, results>>
      BY <3>4
    <3>5. QED
      BY <1>1, <1>6, <3>1, <3>2, <3>3, <3>4, AnswerStepCases
  <2>4. \A k \in Jobs \ {job} : SameFor(k)
    BY <1>1, <2>1, <2>3 DEF SameFor, Rest, writerVars, ghostVars
  <2>5. \A k \in {job} : Unswept(k)' /\ Paired(k)'
    BY <1>1, <2>1, <2>2, <2>3 DEF Unswept, Paired, Taken, Rest, writerVars, ghostVars
  <2>6. \A k \in {job} : Single(k)'
    BY <1>1, <2>1, <2>2, <2>3 DEF Single, Taken, Rest, writerVars, ghostVars
  <2>7. \A k \in {job} : Filled(k)'
    BY <1>1, <2>1, <2>2, <2>3 DEF Filled, Rest, Statuses, writerVars, ghostVars
  <2>8. \A k \in Jobs : Sound(k)'
    BY <1>1, <2>4, <2>5, <2>6, <2>7, SoundKept
  <2>9. QED
    BY <2>1, <2>8 DEF IInv, Rest
<1>7. CASE AnswerRaises
  <2>1. job \in Jobs
    BY <1>1, <1>7 DEF AnswerRaises, TypeOK
  <2>2. QED
    BY <1>7, <1>9, <2>1 DEF AnswerRaises
<1>8. QED
  BY <1>3, <1>4, <1>6, <1>7, <1>10, <1>11, <1>12, <1>13, <1>14 DEF Agent

LEMMA AroundSound ==
  ASSUME Types, IInv
  PROVE  /\ \A j \in Jobs : Collect(j) => IInv'
         /\ \A j \in Jobs, f \in TmpFiles : Age(j, f) \/ Look(j, f) \/ Sweep(j, f) => IInv'
<1> USE DEF Sound
<1>1. /\ TypeOK /\ \A k \in Jobs : Sound(k) /\ Counted(k)
      /\ Files = {"payload", "sidecar"} /\ TmpFiles = {"payload", "sidecar", "result"}
      /\ results \in [Jobs -> Statuses \cup {"none", "part"}] /\ stale \in [Jobs -> SUBSET TmpFiles]
      /\ heard \in [Jobs -> SUBSET (Statuses \cup {"part"})]
  BY DEF Types, IInv, Files, TmpFiles, TypeOK
<1>2. ASSUME NEW j \in Jobs, Collect(j) PROVE IInv'
  <2>1. /\ heard'[j] = heard[j] \cup {results[j]} /\ results'[j] = "none" /\ results[j] # "none"
        /\ \A k \in Jobs \ {j} : heard'[k] = heard[k] /\ results'[k] = results[k]
        /\ UNCHANGED <<tmp, stale, inbox, writerVars, agentVars, doomed, puts, printed, spoiled, misled, hung, faults>>
    BY <1>1, <1>2 DEF Collect
  <2>2. Filled(j) /\ Paired(j) /\ Single(j) /\ Unswept(j)
    BY <1>1
  <2>3. \A k \in Jobs \ {j} : SameFor(k)
    BY <2>1 DEF SameFor, writerVars, agentVars
  <2>4. Filled(j)' /\ Paired(j)'
    BY <2>1, <2>2 DEF Filled, Paired, Taken, writerVars, agentVars
  <2>5. Single(j)' /\ Unswept(j)'
    BY <2>1, <2>2 DEF Single, Taken, Unswept, writerVars, agentVars
  <2>6. QED
    BY <1>1, <2>1, <2>3, <2>4, <2>5, SoundKept DEF IInv, agentVars
<1>3. ASSUME NEW j \in Jobs, NEW f \in TmpFiles, Age(j, f) PROVE IInv'
  <2>1. /\ tmp[j][f] # "none" /\ stale'[j] = stale[j] \cup {f}
        /\ \A k \in Jobs \ {j} : stale'[k] = stale[k] /\ (k \in hung' <=> k \in hung)
        /\ hung \subseteq hung'
        /\ AtWork(j, f) => j \in hung'
        /\ UNCHANGED <<tmp, inbox, results, writerVars, agentVars, doomed, puts, printed, heard, spoiled, misled, faults>>
    BY <1>1, <1>3 DEF Age
  <2>2. Filled(j) /\ Paired(j) /\ Single(j) /\ Unswept(j) /\ Counted(j)
    BY <1>1
  <2>3. \A k \in Jobs \ {j} : SameFor(k)
    BY <2>1 DEF SameFor, writerVars, agentVars
  <2>4. Filled(j)' /\ Paired(j)' /\ Single(j)'
    BY <2>1, <2>2 DEF Filled, Paired, Single, Taken, writerVars, agentVars
  <2>5. Unswept(j)'
    <3>1. CASE f = "result"
      BY <1>1, <2>1, <2>2, <3>1 DEF Unswept, writerVars
    <3>2. CASE f # "result" /\ pc[j] \in {"writing", "clean"}
      BY <2>1, <3>2 DEF Unswept, AtWork
    <3>3. CASE f # "result" /\ pc[j] \notin {"new", "writing", "clean"}
      BY <2>1, <3>3 DEF Unswept, writerVars
    <3>4. CASE f # "result" /\ pc[j] = "new"
      BY <1>1, <2>1, <2>2, <3>4 DEF Counted
    <3>5. QED
      BY <3>1, <3>2, <3>3, <3>4
  <2>6. QED
    BY <1>1, <2>1, <2>3, <2>4, <2>5, SoundKept DEF IInv, agentVars
<1>4. ASSUME NEW j \in Jobs, NEW f \in TmpFiles, Look(j, f) PROVE IInv'
  <2>1. /\ f \in stale[j] /\ doomed' = doomed \cup {<<j, f>>}
        /\ UNCHANGED <<shareVars, writerVars, agentVars, ghostVars>>
    BY <1>4 DEF Look, TooOld
  <2>2. Filled(j) /\ Paired(j) /\ Single(j) /\ Unswept(j)
    BY <1>1
  <2>3. \A k \in Jobs \ {j} : SameFor(k)
    BY <2>1 DEF SameFor, shareVars, writerVars, agentVars, ghostVars
  <2>4. Filled(j)' /\ Paired(j)' /\ Single(j)'
    BY <2>1, <2>2 DEF Filled, Paired, Single, Taken, shareVars, writerVars, agentVars, ghostVars
  <2>5. Unswept(j)'
    BY <1>1, <2>1, <2>2 DEF Unswept, shareVars, writerVars, ghostVars
  <2>6. QED
    BY <1>1, <2>1, <2>3, <2>4, <2>5, SoundKept DEF IInv, agentVars
<1>5. ASSUME NEW j \in Jobs, NEW f \in TmpFiles, Sweep(j, f) PROVE IInv'
  <2>1. /\ <<j, f>> \in doomed /\ doomed' = doomed \ {<<j, f>>}
        /\ UNCHANGED <<inbox, results, writerVars, agentVars, puts, printed, heard, spoiled, misled, hung>>
    BY <1>5 DEF Sweep
  <2>2. Filled(j) /\ Paired(j) /\ Single(j) /\ Unswept(j)
    BY <1>1
  <2>3. /\ \A k \in Jobs, g \in TmpFiles : k # j \/ g # f =>
             tmp'[k][g] = tmp[k][g] /\ (g \in stale'[k] <=> g \in stale[k])
        /\ tmp'[j][f] \in {tmp[j][f], "none"} /\ (f \notin stale[j] => f \notin stale'[j])
    BY <1>1, <1>5, CallEffects DEF Sweep, OnlyTmp
  <2>4. \A k \in Jobs \ {j} : SameFor(k)
    BY <2>1, <2>3 DEF SameFor, writerVars, agentVars
  <2>5. Filled(j)'
    BY <1>1, <2>1, <2>2, <2>3 DEF Filled, writerVars, agentVars
  <2>6. Paired(j)' /\ Single(j)'
    BY <2>1, <2>2 DEF Paired, Single, Taken, writerVars, agentVars
  <2>7. Unswept(j)'
    BY <1>1, <2>1, <2>2, <2>3 DEF Unswept, writerVars
  <2>8. QED
    BY <1>1, <2>1, <2>4, <2>5, <2>6, <2>7, SoundKept DEF IInv, agentVars
<1>6. QED
  BY <1>2, <1>3, <1>4, <1>5

LEMMA IInvInit == Init => IInv
<1> SUFFICES ASSUME Init PROVE IInv
  OBVIOUS
<1>1. Files \subseteq TmpFiles /\ "payload" \in Files /\ "sidecar" \in Files /\ "result" \in TmpFiles /\ NoJob \notin Jobs
  BY ConstantsAssumption DEF Files, TmpFiles
<1>2. ASSUME NEW j \in Jobs PROVE Filled(j) /\ Paired(j) /\ Single(j) /\ Unswept(j)
  BY <1>1 DEF Init, Filled, Paired, Single, Taken, Unswept
<1>3. QED
  BY <1>2 DEF Init, IInv, Sound

LEMMA IInvStep == Types /\ IInv /\ [Next]_vars => IInv'
<1> SUFFICES ASSUME Types, IInv, [Next]_vars PROVE IInv'
  OBVIOUS
<1>1. CASE Next
  BY <1>1, WriterSound, AgentSound, AroundSound DEF Next
<1>2. CASE UNCHANGED vars
  BY <1>2 DEF vars, IInv, Sound, Filled, Paired, Single, Taken, Unswept
<1>3. QED
  BY <1>1, <1>2

\* What the theorems below start from.
LEMMA Inductive == Spec => [](Types /\ IInv)
  BY TypesInit, TypesStep, IInvInit, IInvStep, PTL DEF Spec

-----------------------------------------------------------------------------
(* The properties.                                                         *)

\* The agent never sees half a file in the inbox, and the service never half a
\* result, whatever fails and whoever dies (write_job, write_result).
THEOREM NoHalves == Spec => []NothingIsHalf
<1>1. IInv => NothingIsHalf
  BY DEF IInv, Sound, Filled, NothingIsHalf
<1>2. QED
  BY <1>1, Inductive, PTL

\* A payload that the agent has not claimed has its sidecar beside it (the order
\* of the renames in write_job).
THEOREM SidecarFirst == Spec => []SidecarIsThere
<1>1. IInv => SidecarIsThere
  BY DEF IInv, Sound, Paired, Taken, SidecarIsThere
<1>2. QED
  BY <1>1, Inductive, PTL

\* A job that was given up was neither queued nor printed, unless the share
\* reported a rename as failed that it made (enqueue.write).
THEOREM GivenUpIsLost == Spec => []GivenUpNotQueued
<1>1. ASSUME Types, IInv, NEW j \in Jobs, answer[j] = "failed", j \notin misled
      PROVE  puts[j] = 0 /\ printed[j] = 0
  <2>1. Sound(j) /\ printed[j] \in Nat
    BY <1>1 DEF Types, TypeOK, IInv
  <2>2. puts[j] = 0
    BY <1>1, <2>1 DEF Sound, Single, Taken
  <2>3. QED
    BY <2>1, <2>2 DEF Sound, Paired, Taken
<1>2. Types /\ IInv => GivenUpNotQueued
  BY <1>1 DEF GivenUpNotQueued
<1>3. QED
  BY <1>2, Inductive, PTL

\* The retries of enqueue.write make no replays unless the share misled them.
THEOREM NoReplays == Spec => []ReplaysAreMisled
<1>1. IInv => ReplaysAreMisled
  BY DEF IInv, Sound, Single, Taken, ReplaysAreMisled
<1>2. QED
  BY <1>1, Inductive, PTL

\* A sweep spares the files of a write that does not hang (sweep_stale_tmp).
THEOREM SweepIsSafe == Spec => []SweepSparesWrites
<1>1. IInv => SweepSparesWrites
  BY DEF IInv, Sound, Unswept, SweepSparesWrites
<1>2. QED
  BY <1>1, Inductive, PTL

-----------------------------------------------------------------------------
(* The refinement.                                                         *)

Waiting == {j \in Jobs : inbox[j].payload # "none"}
WasPut  == {j \in Jobs : puts[j] > 0}

LEMMA QueueInit == Init => Queue!Init
  BY DEF Init, Queue!Init, Files

LEMMA QueueStep == Types /\ IInv /\ [Next]_vars => [Queue!Next]_Queue!vars
<1> SUFFICES ASSUME Types, IInv, Next PROVE [Queue!Next]_Queue!vars
  BY DEF vars, Queue!vars
<1> DEFINE Same == UNCHANGED <<inbox, puts, answer>>
<1>1. /\ TypeOK /\ \A k \in Jobs : Counted(k) /\ Files = {"payload", "sidecar"}
      /\ inbox \in [Jobs -> [Files -> Contents]] /\ puts \in [Jobs -> 0..MaxAttempts]
      /\ answer \in [Jobs -> {"none", "ok", "failed"}]
  BY DEF Types, TypeOK, Files
<1>2. Same => [Queue!Next]_Queue!vars
  BY DEF Queue!vars
<1>3. ASSUME NEW j \in Jobs, UNCHANGED answer, answer[j] = "none",
             inbox'[j].payload # "none", puts'[j] = puts[j] + 1,
             \A k \in Jobs \ {j} : inbox'[k].payload = inbox[k].payload /\ puts'[k] = puts[k]
      PROVE  Queue!Put(j)
  <2>1. Waiting' = Waiting \cup {j}
    BY <1>3 DEF Waiting
  <2>2. puts[j] \in Nat
    BY <1>1
  <2>3. WasPut' = WasPut \cup {j}
    BY <1>3, <2>2 DEF WasPut
  <2>4. QED
    BY <1>3, <2>1, <2>3 DEF Queue!Put, Waiting, WasPut
<1>4. ASSUME NEW j \in Jobs, WriteStep(j) PROVE [Queue!Next]_Queue!vars
  <2>1. /\ pc[j] = "writing" /\ step[j] \in 1..7 /\ answer[j] = "none"
        /\ step[j] = 7 => puts[j] > 0
    BY <1>1, <1>4 DEF WriteStep, Counted, TypeOK
  <2>2. CASE step[j] < 6
    <3>1. UNCHANGED answer
      BY <1>1, <1>4, <2>1, <2>2, WriteJobCalls DEF WriteStep
    <3>2. \A k \in Jobs : inbox'[k].payload = inbox[k].payload /\ puts'[k] = puts[k]
      BY <1>1, <1>4, <2>1, <2>2, WriteStepAt DEF SameFor
    <3>3. QED
      BY <3>1, <3>2 DEF Queue!vars
  <2>3. CASE step[j] = 6
    <3>1. UNCHANGED answer
      BY <1>1, <1>4, <2>3, WriteJobCalls DEF WriteStep
    <3>2. Queue!Put(j)
      BY <1>1, <1>3, <1>4, <2>1, <2>3, <3>1, WriteStepAt DEF SameFor
    <3>3. QED
      BY <3>2 DEF Queue!Next
  <2>4. CASE step[j] = 7
    <3>1. answer' = [answer EXCEPT ![j] = "ok"] /\ UNCHANGED <<inbox, puts>>
      BY <1>1, <1>4, <2>4, WriteStepCases, WriteJobCalls DEF WriteStep
    <3>2. Queue!Confirm(j)
      BY <2>1, <2>4, <3>1 DEF Queue!Confirm
    <3>3. QED
      BY <3>2 DEF Queue!Next
  <2>5. QED
    BY <2>1, <2>2, <2>3, <2>4
<1>5. ASSUME NEW j \in Jobs, WriteRaises(j) PROVE [Queue!Next]_Queue!vars
  <2>1. pc[j] = "writing" /\ answer[j] = "none" /\ UNCHANGED answer
    BY <1>1, <1>5 DEF WriteRaises, Counted, TypeOK
  <2>2. \A k \in Jobs \ {j} : inbox'[k].payload = inbox[k].payload /\ puts'[k] = puts[k]
    BY <1>1, <1>5, WriteRaisesAt DEF SameFor
  <2>3. CASE inbox'[j].payload = inbox[j].payload /\ puts'[j] = puts[j]
    <3>1. \A k \in Jobs : inbox'[k].payload = inbox[k].payload /\ puts'[k] = puts[k]
      BY <2>2, <2>3
    <3>2. QED
      BY <2>1, <3>1 DEF Queue!vars
  <2>4. CASE inbox'[j].payload # "none" /\ puts'[j] = puts[j] + 1
    BY <1>3, <2>1, <2>2, <2>4 DEF Queue!Next
  <2>5. QED
    BY <1>1, <1>5, <2>3, <2>4, WriteRaisesAt
<1>6. ASSUME NEW j \in Jobs, CleanUp(j) PROVE [Queue!Next]_Queue!vars
  <2>1. /\ pc[j] = "clean" /\ answer[j] = "none" /\ UNCHANGED <<inbox, puts>>
        /\ UNCHANGED answer \/ answer' = [answer EXCEPT ![j] = "failed"]
    BY <1>1, <1>6 DEF CleanUp, Counted, TypeOK, GiveUp
  <2>2. CASE UNCHANGED answer
    BY <1>2, <2>1, <2>2
  <2>3. CASE answer' = [answer EXCEPT ![j] = "failed"]
    <3>1. Queue!GiveUp(j)
      BY <2>1, <2>3 DEF Queue!GiveUp
    <3>2. QED
      BY <3>1 DEF Queue!Next
  <2>4. QED
    BY <2>1, <2>2, <2>3
<1>7. ASSUME NEW f \in Files, Carry(f) PROVE [Queue!Next]_Queue!vars
  <2>1. PICK j \in Jobs : /\ inbox' = [inbox EXCEPT ![j][f] = "none"]
                          /\ UNCHANGED <<puts, answer>>
    BY <1>1, <1>7 DEF Carry, TypeOK, writerVars, ghostVars
  <2>2. CASE f = "sidecar" \/ inbox[j].payload = "none"
    <3>1. \A k \in Jobs : inbox'[k].payload = inbox[k].payload
      BY <1>1, <2>1, <2>2
    <3>2. QED
      BY <2>1, <3>1 DEF Queue!vars
  <2>3. CASE f = "payload" /\ inbox[j].payload # "none"
    <3>1. /\ inbox'[j].payload = "none"
          /\ \A k \in Jobs \ {j} : inbox'[k].payload = inbox[k].payload
      BY <1>1, <2>1, <2>3
    <3>2. Waiting' = Waiting \ {j} /\ j \in Waiting
      BY <2>1, <2>3, <3>1 DEF Waiting
    <3>3. Queue!Take(j)
      BY <2>1, <3>2 DEF Queue!Take, Waiting
    <3>4. QED
      BY <3>3 DEF Queue!Next
  <2>4. QED
    BY <1>1, <2>2, <2>3
<1>8. ASSUME NEW j \in Jobs, Begin(j) \/ WriterDies(j) \/ Collect(j) \/ Notice(j) PROVE Same
  BY <1>8 DEF Begin, WriterDies, Collect, Notice, shareVars, writerVars, ghostVars
<1>9. CASE PrintJob \/ PrintRaises \/ Carried \/ MoveRaises \/ AnswerStep \/ AnswerRaises \/ AgentDies
  <2>1. Same
    BY <1>9 DEF PrintJob, PrintRaises, Carried, MoveRaises, AnswerStep, AnswerRaises, AgentDies,
       shareVars, writerVars, ghostVars
  <2>2. QED
    BY <1>2, <2>1
<1>10. ASSUME NEW j \in Jobs, NEW f \in TmpFiles, Age(j, f) \/ Look(j, f) \/ Sweep(j, f) PROVE Same
  BY <1>10 DEF Age, Look, Sweep, shareVars, writerVars, ghostVars
<1>11. QED
  BY <1>2, <1>4, <1>5, <1>6, <1>7, <1>8, <1>9, <1>10 DEF Next, Writer, Agent

\* The files do what the abstract queue promises: a payload comes to the inbox
\* only before its writer is answered, "ok" only if it came there, and goes only
\* with the agent.
THEOREM FilesAreQueue == Spec => IsQueue
  BY QueueInit, QueueStep, Inductive, PTL DEF Spec, IsQueue, Queue!Spec

=============================================================================
