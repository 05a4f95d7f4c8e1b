-------------------------- MODULE Reconciler_proofs --------------------------
(***************************************************************************)
(* Theorems about Reconciler, for every value of its constants.            *)
(***************************************************************************)
EXTENDS Reconciler, TLAPS

-----------------------------------------------------------------------------
(* The inductive invariant.                                                *)

\* The pass through results/, and the two places in it with a result in hand.
Holding == {"write", "delete"}

\* A job that may still be printed, once.
Open(j) ==
  /\ j \notin stuck \cup misled
  /\ place[j] \in {"inbox", "processing"} \/ (place[j] = "none" /\ write[j] \in {"new", "trying"})

\* A job that may still be printed was not, and nobody has an outcome of it.
OpenIsUnsettled ==
  \A j \in Jobs : Open(j) =>
    /\ j \notin printed
    /\ result[j] = "none"
    /\ ~(pc \in Holding /\ cur = j)
    /\ \A a \in Assets : status[a].job = j => status[a].word \notin Outcomes

\* What was not taken was not printed.
WaitingIsUnprinted == \A j \in Jobs : place[j] \in {"none", "inbox"} => j \notin printed

\* A write puts its job once, unless it is misled; one that was given up put
\* nothing.
WritesAreSingle ==
  /\ \A j \in Jobs :
       /\ write[j] = "new" => place[j] = "none"
       /\ write[j] = "trying" /\ place[j] # "none" => j \in misled
       /\ j \in again => j \in misled
       /\ write[j] = "trying" /\ j \notin Reprints => pc = "queue" /\ cur = j
  /\ pc = "report" => write[cur] = "over" /\ (place[cur] = "none" \/ cur \in misled)

\* Jobs that may have printed although they are reported as failed.
Excused == interrupted \cup misled

\* A result says what happened.
ResultsAreTrue ==
  \A j \in Jobs :
    /\ result[j] = "success" => j \in printed
    /\ result[j] \in {"failed", "rejected"} /\ j \in printed => j \in Excused

\* So does the line that is being written.
WordIsTrue ==
  pc = "write" =>
    /\ word \in {"SENT", "RESENT"} => cur \in printed
    /\ word = "FAILED" /\ cur \in printed => cur \in Excused

\* What is left of the pass are results, and the one in hand is not among them.
PassIsCurrent ==
  /\ pc \in Holding \cup {"results"} => \A j \in todo : result[j] # "none"
  /\ pc \in Holding => cur \notin todo

\* There is a word only with a result in hand, and one that is about to be
\* deleted was heard or refused often enough.
WordIsSettled ==
  /\ pc \notin Holding => word = "none"
  /\ pc = "delete" /\ word # "none" => cur \in accepted \/ refusals[cur] >= MaxAttempts

\* The counter in memory counts real refusals.
AttemptsAreReal == \A j \in Jobs : attempts[j] <= refusals[j]

\* A job of the listing of the watchdog has no outcome yet.
TellIsCurrent ==
  pc = "tell" =>
    \A j \in todo \ Astray, a \in Assets : status[a].job = j => status[a].word \notin Outcomes

TrueInv    == OpenIsUnsettled /\ WaitingIsUnprinted /\ WritesAreSingle /\ ResultsAreTrue
                /\ WordIsTrue /\ PassIsCurrent /\ LinesAreTrue
PatientInv == WordIsSettled /\ AttemptsAreReal

-----------------------------------------------------------------------------
(* Type correctness.                                                       *)

LEMMA TypesInit == Init => TypeOK
<1> SUFFICES ASSUME Init PROVE TypeOK
  OBVIOUS
<1>1. status \in [Assets -> [word : Words, job : Jobs \cup {NoJob}]]
  BY DEF Init, Blank, Words
<1>2. attempts \in [Jobs -> 0..(MaxAttempts - 1)] /\ refusals \in [Jobs -> 0..MaxAttempts]
  BY ConstantsAssumption DEF Init, ConstantsAssumption
<1>3. faults \in 0..MaxFaults
  BY ConstantsAssumption DEF Init, ConstantsAssumption
<1>4. QED
  BY <1>1, <1>2, <1>3 DEF Init, TypeOK, Folders, Results

\* A line of a job has the type of a line.
LEMMA LineType ==
  ASSUME TypeOK, NEW w \in Words, NEW j \in Jobs, WriteLine(w, j)
  PROVE  status' \in [Assets -> [word : Words, job : Jobs \cup {NoJob}]]
BY DEF TypeOK, WriteLine, Line

\* A job comes into the queue, or is given up.
LEMMA WritesTypes ==
  ASSUME TypeOK, NEW j \in Jobs,
         Reserve(j) \/ Reprint(j) \/ Plant(j) \/ Written(j) \/ Misreport(j) \/ GiveUp(j)
  PROVE  TypeOK'
<1>1. ASSUME Reserve(j) PROVE TypeOK'
  <2>1. status' \in [Assets -> [word : Words, job : Jobs \cup {NoJob}]]
    BY <1>1, LineType DEF Reserve, Words
  <2>2. faults' \in 0..MaxFaults
    BY <1>1, ConstantsAssumption DEF Reserve, TypeOK, Fault, ConstantsAssumption
  <2>3. QED
    BY <1>1, <2>1, <2>2 DEF TypeOK, Reserve, memoryVars, agentGhosts
<1>2. ASSUME Reprint(j) PROVE TypeOK'
  BY <1>2 DEF TypeOK, Reprint, memoryVars, passVars, ghostVars, agentGhosts
<1>3. ASSUME Plant(j) PROVE TypeOK'
  BY <1>3 DEF TypeOK, Plant, memoryVars, passVars, ghostVars, agentGhosts, Folders
<1>4. ASSUME Put(j) PROVE place' \in [Jobs -> Folders] /\ again' \subseteq Jobs
  BY <1>4 DEF TypeOK, Put, Folders
<1>5. ASSUME Written(j) PROVE TypeOK'
  <2>1. place' \in [Jobs -> Folders] /\ again' \subseteq Jobs
    BY <1>5, <1>4 DEF Written
  <2>2. (pc' = pc /\ cur' = cur) \/ (pc' = "poll" /\ cur' = NoJob)
    BY <1>5 DEF Written
  <2>3. QED
    BY <1>5, <2>1, <2>2 DEF TypeOK, Written, memoryVars, ghostVars, agentGhosts
<1>6. ASSUME Misreport(j) PROVE TypeOK'
  <2>1. place' \in [Jobs -> Folders] /\ again' \subseteq Jobs
    BY <1>6, <1>4 DEF Misreport
  <2>2. faults' \in 0..MaxFaults
    BY <1>6, ConstantsAssumption DEF Misreport, TypeOK, Fault, ConstantsAssumption
  <2>3. QED
    BY <1>6, <2>1, <2>2 DEF TypeOK, Misreport, memoryVars, passVars
<1>7. ASSUME GiveUp(j) PROVE TypeOK'
  <2>1. faults' \in 0..MaxFaults
    BY <1>7, ConstantsAssumption DEF GiveUp, TypeOK, Fault, ConstantsAssumption
  <2>2. strays' \subseteq Jobs
    BY <1>7 DEF GiveUp, Leaves, TypeOK
  <2>3. pc' = pc \/ (pc' = "report" /\ j \notin Reprints)
    BY <1>7 DEF GiveUp
  <2>4. QED
    BY <1>7, <2>1, <2>2, <2>3 DEF TypeOK, GiveUp, Writing, memoryVars, agentGhosts
<1>8. QED
  BY <1>1, <1>2, <1>3, <1>5, <1>6, <1>7

\* What goes on around the reconciler.
LEMMA AroundTypes ==
  ASSUME TypeOK, NEW j \in Jobs,
         Take(j) \/ Finish(j) \/ Reject(j) \/ RejectCopy(j) \/ Stay(j) \/ Tidy(j) \/ Clear(j)
  PROVE  TypeOK'
<1>1. ASSUME Take(j) PROVE TypeOK'
  BY <1>1 DEF TypeOK, Take, memoryVars, passVars, ghostVars, agentGhosts, Folders
<1>2. ASSUME NEW end \in Folders, NEW says \in Results, End(j, end, says),
             echo' \in [Jobs -> BOOLEAN], printed' \in SUBSET Jobs, interrupted' \in SUBSET Jobs
      PROVE  TypeOK'
  <2>1. faults' \in 0..MaxFaults
    BY <1>2, ConstantsAssumption DEF TypeOK, End, Fault, ConstantsAssumption
  <2>2. QED
    BY <1>2, <2>1 DEF TypeOK, End, memoryVars, passVars
<1>3. Doubtful(j) => printed' \in SUBSET Jobs /\ interrupted' \in SUBSET Jobs
  BY DEF TypeOK, Doubtful
<1>4. ASSUME Finish(j) PROVE TypeOK'
  <2>1. echo' \in [Jobs -> BOOLEAN] /\ printed' \in SUBSET Jobs /\ interrupted' \in SUBSET Jobs
    BY <1>3, <1>4 DEF TypeOK, Finish
  <2>2. QED
    BY <1>4, <2>1, <1>2 DEF Finish, Folders, Results
<1>5. ASSUME Reject(j) PROVE TypeOK'
  <2>1. echo' \in [Jobs -> BOOLEAN] /\ printed' \in SUBSET Jobs /\ interrupted' \in SUBSET Jobs
    BY <1>5 DEF TypeOK, Reject
  <2>2. QED
    BY <1>5, <2>1, <1>2 DEF Reject, Folders, Results
<1>6. ASSUME RejectCopy(j) PROVE TypeOK'
  <2>1. faults' \in 0..MaxFaults
    BY <1>6, ConstantsAssumption DEF TypeOK, RejectCopy, Fault, ConstantsAssumption
  <2>2. place' \in [Jobs -> Folders] /\ again' \subseteq Jobs
    BY <1>6 DEF TypeOK, RejectCopy, Folders
  <2>3. result' \in [Jobs -> Results] /\ echo' \in [Jobs -> BOOLEAN]
    BY <1>6 DEF TypeOK, RejectCopy, Results
  <2>4. QED
    BY <1>6, <2>1, <2>2, <2>3 DEF TypeOK, RejectCopy, memoryVars, passVars, agentGhosts
<1>7. ASSUME Stay(j) PROVE TypeOK'
  <2>1. faults' \in 0..MaxFaults
    BY <1>7, ConstantsAssumption DEF TypeOK, Stay, Fault, ConstantsAssumption
  <2>2. result' \in [Jobs -> Results] /\ echo' \in [Jobs -> BOOLEAN]
    <3>1. \/ UNCHANGED <<result, echo>>
          \/ \E says \in {"failed", "rejected"}, e \in BOOLEAN :
               result' = [result EXCEPT ![j] = says] /\ echo' = [echo EXCEPT ![j] = e]
      BY <1>7 DEF Stay
    <3>2. QED
      BY <3>1 DEF TypeOK, Results
  <2>3. /\ printed' \in SUBSET Jobs /\ interrupted' \in SUBSET Jobs
        /\ unheard' \in SUBSET Jobs /\ stuck' \in SUBSET Jobs
    BY <1>3, <1>7 DEF TypeOK, Stay
  <2>4. QED
    BY <1>7, <2>1, <2>2, <2>3 DEF TypeOK, Stay, queueVars, memoryVars, passVars
<1>8. ASSUME Tidy(j) PROVE TypeOK'
  BY <1>8 DEF TypeOK, Tidy, memoryVars, passVars, ghostVars, agentGhosts, Folders
<1>9. ASSUME Clear(j) PROVE TypeOK'
  <2>1. faults' \in 0..MaxFaults
    BY <1>9, ConstantsAssumption DEF TypeOK, Clear, Fault, ConstantsAssumption
  <2>2. QED
    BY <1>9, <2>1 DEF TypeOK, Clear, memoryVars, passVars, agentGhosts, Folders
<1>10. QED
  BY <1>1, <1>4, <1>5, <1>6, <1>7, <1>8, <1>9

\* run.
LEMMA ResultsTypes ==
  ASSUME TypeOK,
         BeginPass \/ ReadResult \/ ReadRaises \/ ReadFails \/ WriteOutcome \/ WriteRaises
           \/ DeleteResult \/ DeleteRaises \/ EndResults
  PROVE  TypeOK'
<1>1. ASSUME BeginPass PROVE TypeOK'
  BY <1>1 DEF TypeOK, BeginPass, shareVars, queueVars, memoryVars, ghostVars, agentGhosts
<1>2. ASSUME ReadResult PROVE TypeOK'
  BY <1>2 DEF TypeOK, ReadResult, StatusWord, shareVars, queueVars, memoryVars, agentGhosts, Outcomes
<1>3. ASSUME ReadFails PROVE TypeOK'
  BY <1>3, ConstantsAssumption
     DEF TypeOK, ReadFails, Gone, Fault, queueVars, memoryVars, agentGhosts, Results, ConstantsAssumption
<1>4. ASSUME WriteOutcome PROVE TypeOK'
  <2>1. status' \in [Assets -> [word : Words, job : Jobs \cup {NoJob}]]
    BY <1>4, LineType DEF WriteOutcome, TypeOK, Words
  <2>2. QED
    BY <1>4, <2>1 DEF TypeOK, WriteOutcome, shareVars, queueVars, memoryVars, agentGhosts
<1>5. ASSUME WriteRaises PROVE TypeOK'
  <2>1. status' \in [Assets -> [word : Words, job : Jobs \cup {NoJob}]]
    BY <1>5, LineType DEF WriteRaises, TypeOK, Words
  <2>2. faults' \in 0..MaxFaults
    BY <1>5, ConstantsAssumption DEF WriteRaises, TypeOK, Fault, ConstantsAssumption
  <2>3. refusals' \in [Jobs -> 0..MaxAttempts]
    BY <1>5, ConstantsAssumption DEF WriteRaises, TypeOK, ConstantsAssumption
  <2>4. attempts' \in [Jobs -> 0..(MaxAttempts - 1)]
    BY <1>5, ConstantsAssumption
       DEF WriteRaises, TypeOK, Exhausted, Forgotten, NextResult, ConstantsAssumption
  <2>5. QED
    BY <1>5, <2>1, <2>2, <2>3, <2>4 DEF TypeOK, WriteRaises, NextResult, shareVars, queueVars, agentGhosts
<1>6. ASSUME DeleteResult PROVE TypeOK'
  BY <1>6, ConstantsAssumption
     DEF TypeOK, DeleteResult, Gone, NextResult, queueVars, agentGhosts, Results, ConstantsAssumption
<1>7. ASSUME DeleteRaises PROVE TypeOK'
  BY <1>7, ConstantsAssumption
     DEF TypeOK, DeleteRaises, Fault, NextResult, shareVars, queueVars, memoryVars, agentGhosts, ConstantsAssumption
<1>8. ASSUME EndResults PROVE TypeOK'
  BY <1>8 DEF TypeOK, EndResults, shareVars, queueVars, ghostVars, agentGhosts
<1>9. ASSUME ReadRaises PROVE TypeOK'
  BY <1>9 DEF TypeOK, ReadRaises, shareVars, queueVars, memoryVars, ghostVars, agentGhosts
<1>10. QED
  BY <1>1, <1>2, <1>3, <1>4, <1>5, <1>6, <1>7, <1>8, <1>9

\* check_for_stalls, and the service.
LEMMA StallsTypes ==
  ASSUME TypeOK, Report \/ Quieten \/ CheckForStalls \/ Tell \/ EndStalls \/ Crash \/ Start
  PROVE  TypeOK'
<1>1. ASSUME CheckForStalls PROVE TypeOK'
  BY <1>1 DEF TypeOK, CheckForStalls, Outstanding, shareVars, queueVars, ghostVars, agentGhosts
<1>2. ASSUME Tell PROVE TypeOK'
  <2>1. PICK j \in todo : /\ todo' = todo \ {j}
                          /\ reported' = reported \cup {j}
                          /\ WriteLine("STALLED", j) \/ UNCHANGED status
                          /\ unheard' = unheard \/ unheard' = unheard \cup {j}
                          /\ faults' = faults \/ Fault("stall")
    BY <1>2 DEF Tell
  <2>2. status' \in [Assets -> [word : Words, job : Jobs \cup {NoJob}]]
    BY <2>1, LineType DEF TypeOK, Words
  <2>3. faults' \in 0..MaxFaults
    BY <2>1, ConstantsAssumption DEF TypeOK, Fault, ConstantsAssumption
  <2>4. QED
    BY <1>2, <2>1, <2>2, <2>3 DEF TypeOK, Tell, shareVars, queueVars, agentGhosts
<1>3. ASSUME EndStalls PROVE TypeOK'
  BY <1>3 DEF TypeOK, EndStalls, shareVars, queueVars, memoryVars, ghostVars, agentGhosts
<1>4. ASSUME Crash PROVE TypeOK'
  <2>1. attempts' \in [Jobs -> 0..(MaxAttempts - 1)]
    BY <1>4, ConstantsAssumption DEF Crash, ConstantsAssumption
  <2>2. faults' \in 0..MaxFaults
    BY <1>4, ConstantsAssumption DEF Crash, TypeOK, Fault, ConstantsAssumption
  <2>3. write' \in [Jobs -> {"new", "trying", "over", "foreign"}] /\ strays' \in SUBSET Jobs
    BY <1>4 DEF Crash, TypeOK, Leaves
  <2>4. unheard' \in SUBSET Jobs
    BY <1>4 DEF Crash, TypeOK
  <2>5. QED
    BY <1>4, <2>1, <2>2, <2>3, <2>4 DEF TypeOK, Crash, agentGhosts
<1>5. ASSUME Start PROVE TypeOK'
  BY <1>5 DEF TypeOK, Start, shareVars, queueVars, memoryVars, ghostVars, agentGhosts
<1>6. ASSUME Quieten PROVE TypeOK'
  BY <1>6 DEF TypeOK, Quieten, shareVars, queueVars, passVars, ghostVars, agentGhosts
<1>7. ASSUME Report PROVE TypeOK'
  <2>1. status' \in [Assets -> [word : Words, job : Jobs \cup {NoJob}]]
    <3>1. cur \in Jobs /\ (WriteLine("FAILED", cur) \/ UNCHANGED status)
      BY <1>7 DEF Report, TypeOK
    <3>2. QED
      BY <3>1, LineType DEF TypeOK, Words, Outcomes
  <2>2. faults' \in 0..MaxFaults
    BY <1>7, ConstantsAssumption DEF Report, TypeOK, Fault, ConstantsAssumption
  <2>3. unheard' \in SUBSET Jobs
    BY <1>7 DEF Report, TypeOK
  <2>4. QED
    BY <1>7, <2>1, <2>2, <2>3 DEF TypeOK, Report, shareVars, queueVars, memoryVars, agentGhosts
<1>8. QED
  BY <1>1, <1>2, <1>3, <1>4, <1>5, <1>6, <1>7

\* The state keeps its type; no counter of attempts stands at its end, and a
\* line is never written without a word (reconcile.py, whatever fails).
THEOREM TypeCorrect == Spec => []TypeOK
<1>1. Init => TypeOK
  BY TypesInit
<1>2. TypeOK /\ [Next]_vars => TypeOK'
  <2>1. ASSUME TypeOK, Next PROVE TypeOK'
    BY <2>1, WritesTypes, AroundTypes, ResultsTypes, StallsTypes DEF Next, Work, TypeOK
  <2>2. ASSUME TypeOK, UNCHANGED vars PROVE TypeOK'
    BY <2>2 DEF TypeOK, vars
  <2>3. QED
    BY <2>1, <2>2
<1>3. QED
  BY <1>1, <1>2, PTL DEF Spec

-----------------------------------------------------------------------------
(* LinesAreTrue.                                                           *)

LEMMA TrueInit == Init => TrueInv
BY DEF Init, Blank, Outcomes, TrueInv, OpenIsUnsettled, Open, WaitingIsUnprinted, WritesAreSingle,
   ResultsAreTrue, Excused,
         WordIsTrue, PassIsCurrent, LinesAreTrue, Holding

LEMMA WritesTrue ==
  ASSUME TypeOK, TrueInv, NEW j \in Jobs,
         Reserve(j) \/ Reprint(j) \/ Plant(j) \/ Written(j) \/ Misreport(j) \/ GiveUp(j)
  PROVE  TrueInv'
<1> USE DEF TrueInv
<1>1. ASSUME Reserve(j) PROVE TrueInv'
  <2>1. OpenIsUnsettled' /\ WaitingIsUnprinted'
    BY <1>1 DEF TypeOK, OpenIsUnsettled, Open, WaitingIsUnprinted, WritesAreSingle, Holding, Outcomes,
           Reserve, WriteLine, Line, memoryVars, agentGhosts
  <2>2. WritesAreSingle'
    BY <1>1 DEF TypeOK, WritesAreSingle,
           Reserve, WriteLine, Line, memoryVars, agentGhosts
  <2>3. ResultsAreTrue'
    BY <1>1 DEF TypeOK, OpenIsUnsettled, Open, WaitingIsUnprinted, WritesAreSingle, ResultsAreTrue, Excused,
           Reserve, WriteLine, Line, memoryVars, agentGhosts
  <2>4. WordIsTrue' /\ LinesAreTrue'
    BY <1>1 DEF TypeOK, OpenIsUnsettled, Open, WaitingIsUnprinted, WritesAreSingle, WordIsTrue,
       LinesAreTrue,
           Excused, Holding, Outcomes, Reserve, WriteLine, Line, memoryVars, agentGhosts
  <2>5. PassIsCurrent'
    BY <1>1 DEF TypeOK, PassIsCurrent, Holding,
           Reserve, WriteLine, Line, memoryVars, agentGhosts
  <2>6. QED
    BY <2>1, <2>2, <2>3, <2>4, <2>5
<1>2. ASSUME Reprint(j) PROVE TrueInv'
  BY <1>2 DEF TypeOK, OpenIsUnsettled, Open, WaitingIsUnprinted, WritesAreSingle, ResultsAreTrue, Excused,
         WordIsTrue, PassIsCurrent, LinesAreTrue, Holding,
         Reprint, memoryVars, passVars, ghostVars, agentGhosts
<1>3. ASSUME Plant(j) PROVE TrueInv'
  <2>1. OpenIsUnsettled' /\ WaitingIsUnprinted'
    BY <1>3 DEF TypeOK, OpenIsUnsettled, Open, WaitingIsUnprinted, WritesAreSingle, Holding, Outcomes,
           Plant, memoryVars, passVars, ghostVars, agentGhosts
  <2>2. WritesAreSingle'
    BY <1>3 DEF TypeOK, WritesAreSingle,
           Plant, memoryVars, passVars, ghostVars, agentGhosts
  <2>3. ResultsAreTrue'
    BY <1>3 DEF TypeOK, OpenIsUnsettled, Open, WaitingIsUnprinted, WritesAreSingle, ResultsAreTrue, Excused,
           Plant, memoryVars, passVars, ghostVars, agentGhosts
  <2>4. WordIsTrue' /\ LinesAreTrue'
    BY <1>3 DEF TypeOK, OpenIsUnsettled, Open, WaitingIsUnprinted, WritesAreSingle, WordIsTrue,
       LinesAreTrue,
           Excused, Holding, Outcomes, Plant, memoryVars, passVars, ghostVars, agentGhosts
  <2>5. PassIsCurrent'
    BY <1>3 DEF TypeOK, PassIsCurrent, Holding,
           Plant, memoryVars, passVars, ghostVars, agentGhosts
  <2>6. QED
    BY <2>1, <2>2, <2>3, <2>4, <2>5
<1>4. ASSUME Written(j) PROVE TrueInv'
  <2>1. OpenIsUnsettled' /\ WaitingIsUnprinted'
    BY <1>4 DEF TypeOK, OpenIsUnsettled, Open, WaitingIsUnprinted, WritesAreSingle, Holding, Outcomes,
           Written, Writing, Put, memoryVars, ghostVars, agentGhosts
  <2>2. WritesAreSingle'
    BY <1>4 DEF TypeOK, WritesAreSingle,
           Written, Writing, Put, memoryVars, ghostVars, agentGhosts
  <2>3. ResultsAreTrue'
    BY <1>4 DEF TypeOK, OpenIsUnsettled, Open, WaitingIsUnprinted, WritesAreSingle, ResultsAreTrue, Excused,
           Written, Writing, Put, memoryVars, ghostVars, agentGhosts
  <2>4. WordIsTrue' /\ LinesAreTrue'
    BY <1>4 DEF TypeOK, OpenIsUnsettled, Open, WaitingIsUnprinted, WritesAreSingle, WordIsTrue,
       LinesAreTrue,
           Excused, Holding, Outcomes, Written, Writing, Put, memoryVars, ghostVars, agentGhosts
  <2>5. PassIsCurrent'
    BY <1>4 DEF TypeOK, PassIsCurrent, Holding,
           Written, Writing, Put, memoryVars, ghostVars, agentGhosts
  <2>6. QED
    BY <2>1, <2>2, <2>3, <2>4, <2>5
<1>5. ASSUME Misreport(j) PROVE TrueInv'
  <2>1. OpenIsUnsettled' /\ WaitingIsUnprinted'
    BY <1>5 DEF TypeOK, OpenIsUnsettled, Open, WaitingIsUnprinted, WritesAreSingle, Holding, Outcomes,
           Misreport, Writing, Put, memoryVars, passVars
  <2>2. WritesAreSingle'
    BY <1>5 DEF TypeOK, WritesAreSingle,
           Misreport, Writing, Put, memoryVars, passVars
  <2>3. ResultsAreTrue'
    BY <1>5 DEF TypeOK, OpenIsUnsettled, Open, WaitingIsUnprinted, WritesAreSingle, ResultsAreTrue, Excused,
           Misreport, Writing, Put, memoryVars, passVars
  <2>4. WordIsTrue' /\ LinesAreTrue'
    BY <1>5 DEF TypeOK, OpenIsUnsettled, Open, WaitingIsUnprinted, WritesAreSingle, WordIsTrue,
       LinesAreTrue,
           Excused, Holding, Outcomes, Misreport, Writing, Put, memoryVars, passVars
  <2>5. PassIsCurrent'
    BY <1>5 DEF TypeOK, PassIsCurrent, Holding,
           Misreport, Writing, Put, memoryVars, passVars
  <2>6. QED
    BY <2>1, <2>2, <2>3, <2>4, <2>5
<1>6. ASSUME GiveUp(j) PROVE TrueInv'
  <2>1. OpenIsUnsettled' /\ WaitingIsUnprinted'
    BY <1>6 DEF TypeOK, OpenIsUnsettled, Open, WaitingIsUnprinted, WritesAreSingle, Holding, Outcomes,
           GiveUp, Writing, memoryVars, agentGhosts
  <2>2. WritesAreSingle'
    BY <1>6 DEF TypeOK, WritesAreSingle,
           GiveUp, Writing, memoryVars, agentGhosts
  <2>3. ResultsAreTrue'
    BY <1>6 DEF TypeOK, OpenIsUnsettled, Open, WaitingIsUnprinted, WritesAreSingle, ResultsAreTrue, Excused,
           GiveUp, Writing, memoryVars, agentGhosts
  <2>4. WordIsTrue' /\ LinesAreTrue'
    BY <1>6 DEF TypeOK, OpenIsUnsettled, Open, WaitingIsUnprinted, WritesAreSingle, WordIsTrue,
       LinesAreTrue,
           Excused, Holding, Outcomes, GiveUp, memoryVars, agentGhosts
  <2>5. PassIsCurrent'
    BY <1>6 DEF TypeOK, PassIsCurrent, Holding,
           GiveUp, Writing, memoryVars, agentGhosts
  <2>6. QED
    BY <2>1, <2>2, <2>3, <2>4, <2>5
<1>7. QED
  BY <1>1, <1>2, <1>3, <1>4, <1>5, <1>6

LEMMA AroundTrue ==
  ASSUME TypeOK, TrueInv, NEW j \in Jobs,
         Take(j) \/ Finish(j) \/ Reject(j) \/ RejectCopy(j) \/ Stay(j) \/ Tidy(j) \/ Clear(j)
  PROVE  TrueInv'
<1> USE DEF TrueInv
<1>1. ASSUME Take(j) PROVE TrueInv'
  <2>1. OpenIsUnsettled' /\ WaitingIsUnprinted'
    BY <1>1 DEF TypeOK, OpenIsUnsettled, Open, WaitingIsUnprinted, WritesAreSingle, Holding, Outcomes,
           Take, memoryVars, passVars, ghostVars, agentGhosts
  <2>2. WritesAreSingle'
    BY <1>1 DEF TypeOK, WritesAreSingle,
           Take, memoryVars, passVars, ghostVars, agentGhosts
  <2>3. ResultsAreTrue'
    BY <1>1 DEF TypeOK, OpenIsUnsettled, Open, WaitingIsUnprinted, WritesAreSingle, ResultsAreTrue, Excused,
           Take, memoryVars, passVars, ghostVars, agentGhosts
  <2>4. WordIsTrue' /\ LinesAreTrue'
    BY <1>1 DEF TypeOK, OpenIsUnsettled, Open, WaitingIsUnprinted, WritesAreSingle, WordIsTrue,
       LinesAreTrue,
           Excused, Holding, Outcomes, Take, memoryVars, passVars, ghostVars, agentGhosts
  <2>5. PassIsCurrent'
    BY <1>1 DEF TypeOK, PassIsCurrent, Holding,
           Take, memoryVars, passVars, ghostVars, agentGhosts
  <2>6. QED
    BY <2>1, <2>2, <2>3, <2>4, <2>5
<1>2. ASSUME Finish(j) PROVE TrueInv'
  <2>1. OpenIsUnsettled' /\ WaitingIsUnprinted'
    BY <1>2 DEF TypeOK, OpenIsUnsettled, Open, WaitingIsUnprinted, WritesAreSingle, Holding, Outcomes,
           Finish, End, Doubtful, memoryVars, passVars
  <2>2. WritesAreSingle'
    BY <1>2 DEF TypeOK, WritesAreSingle,
           Finish, End, Doubtful, memoryVars, passVars
  <2>3. ResultsAreTrue'
    BY <1>2 DEF TypeOK, OpenIsUnsettled, Open, WaitingIsUnprinted, WritesAreSingle, ResultsAreTrue, Excused,
           Finish, End, Doubtful, memoryVars, passVars
  <2>4. WordIsTrue' /\ LinesAreTrue'
    BY <1>2 DEF TypeOK, OpenIsUnsettled, Open, WaitingIsUnprinted, WritesAreSingle, WordIsTrue,
       LinesAreTrue,
           Excused, Holding, Outcomes, Finish, End, Doubtful, memoryVars, passVars
  <2>5. PassIsCurrent'
    BY <1>2 DEF TypeOK, PassIsCurrent, Holding,
           Finish, End, Doubtful, memoryVars, passVars
  <2>6. QED
    BY <2>1, <2>2, <2>3, <2>4, <2>5
<1>3. ASSUME Reject(j) PROVE TrueInv'
  <2>1. OpenIsUnsettled' /\ WaitingIsUnprinted'
    BY <1>3 DEF TypeOK, OpenIsUnsettled, Open, WaitingIsUnprinted, WritesAreSingle, Holding, Outcomes,
           Reject, End, memoryVars, passVars
  <2>2. WritesAreSingle'
    BY <1>3 DEF TypeOK, WritesAreSingle,
           Reject, End, memoryVars, passVars
  <2>3. ResultsAreTrue'
    BY <1>3 DEF TypeOK, OpenIsUnsettled, Open, WaitingIsUnprinted, WritesAreSingle, ResultsAreTrue, Excused,
           Reject, End, memoryVars, passVars
  <2>4. WordIsTrue' /\ LinesAreTrue'
    BY <1>3 DEF TypeOK, OpenIsUnsettled, Open, WaitingIsUnprinted, WritesAreSingle, WordIsTrue,
       LinesAreTrue,
           Excused, Holding, Outcomes, Reject, End, memoryVars, passVars
  <2>5. PassIsCurrent'
    BY <1>3 DEF TypeOK, PassIsCurrent, Holding,
           Reject, End, memoryVars, passVars
  <2>6. QED
    BY <2>1, <2>2, <2>3, <2>4, <2>5
<1>4. ASSUME RejectCopy(j) PROVE TrueInv'
  <2>1. OpenIsUnsettled' /\ WaitingIsUnprinted'
    BY <1>4 DEF TypeOK, OpenIsUnsettled, Open, WaitingIsUnprinted, WritesAreSingle, Holding, Outcomes,
           RejectCopy, memoryVars, passVars, agentGhosts
  <2>2. WritesAreSingle'
    BY <1>4 DEF TypeOK, WritesAreSingle,
           RejectCopy, memoryVars, passVars, agentGhosts
  <2>3. ResultsAreTrue'
    BY <1>4 DEF TypeOK, OpenIsUnsettled, Open, WaitingIsUnprinted, WritesAreSingle, ResultsAreTrue, Excused,
           RejectCopy, memoryVars, passVars, agentGhosts
  <2>4. WordIsTrue' /\ LinesAreTrue'
    BY <1>4 DEF TypeOK, OpenIsUnsettled, Open, WaitingIsUnprinted, WritesAreSingle, WordIsTrue,
       LinesAreTrue,
           Excused, Holding, Outcomes, RejectCopy, memoryVars, passVars, agentGhosts
  <2>5. PassIsCurrent'
    BY <1>4 DEF TypeOK, PassIsCurrent, Holding,
           RejectCopy, memoryVars, passVars, agentGhosts
  <2>6. QED
    BY <2>1, <2>2, <2>3, <2>4, <2>5
<1>5. ASSUME Stay(j) PROVE TrueInv'
  <2>1. OpenIsUnsettled' /\ WaitingIsUnprinted'
    BY <1>5 DEF TypeOK, OpenIsUnsettled, Open, WaitingIsUnprinted, WritesAreSingle, Holding, Outcomes,
           Stay, Doubtful, queueVars, memoryVars, passVars
  <2>2. WritesAreSingle'
    BY <1>5 DEF TypeOK, WritesAreSingle,
           Stay, Doubtful, queueVars, memoryVars, passVars
  <2>3. ResultsAreTrue'
    BY <1>5 DEF TypeOK, OpenIsUnsettled, Open, WaitingIsUnprinted, WritesAreSingle, ResultsAreTrue, Excused,
           Stay, Doubtful, queueVars, memoryVars, passVars
  <2>4. WordIsTrue' /\ LinesAreTrue'
    BY <1>5 DEF TypeOK, OpenIsUnsettled, Open, WaitingIsUnprinted, WritesAreSingle, WordIsTrue,
       LinesAreTrue,
           Excused, Holding, Outcomes, Stay, Doubtful, queueVars, memoryVars, passVars
  <2>5. PassIsCurrent'
    BY <1>5 DEF TypeOK, PassIsCurrent, Holding,
           Stay, Doubtful, queueVars, memoryVars, passVars
  <2>6. QED
    BY <2>1, <2>2, <2>3, <2>4, <2>5
<1>6. ASSUME Tidy(j) PROVE TrueInv'
  <2>1. OpenIsUnsettled' /\ WaitingIsUnprinted'
    BY <1>6 DEF TypeOK, OpenIsUnsettled, Open, WaitingIsUnprinted, WritesAreSingle, Holding, Outcomes,
           Tidy, memoryVars, passVars, ghostVars, agentGhosts
  <2>2. WritesAreSingle'
    BY <1>6 DEF TypeOK, WritesAreSingle,
           Tidy, memoryVars, passVars, ghostVars, agentGhosts
  <2>3. ResultsAreTrue'
    BY <1>6 DEF TypeOK, OpenIsUnsettled, Open, WaitingIsUnprinted, WritesAreSingle, ResultsAreTrue, Excused,
           Tidy, memoryVars, passVars, ghostVars, agentGhosts
  <2>4. WordIsTrue' /\ LinesAreTrue'
    BY <1>6 DEF TypeOK, OpenIsUnsettled, Open, WaitingIsUnprinted, WritesAreSingle, WordIsTrue,
       LinesAreTrue,
           Excused, Holding, Outcomes, Tidy, memoryVars, passVars, ghostVars, agentGhosts
  <2>5. PassIsCurrent'
    BY <1>6 DEF TypeOK, PassIsCurrent, Holding,
           Tidy, memoryVars, passVars, ghostVars, agentGhosts
  <2>6. QED
    BY <2>1, <2>2, <2>3, <2>4, <2>5
<1>7. ASSUME Clear(j) PROVE TrueInv'
  <2>1. OpenIsUnsettled' /\ WaitingIsUnprinted'
    BY <1>7 DEF TypeOK, OpenIsUnsettled, Open, WaitingIsUnprinted, WritesAreSingle, Holding, Outcomes,
           Clear, memoryVars, passVars, agentGhosts
  <2>2. WritesAreSingle'
    BY <1>7 DEF TypeOK, WritesAreSingle,
           Clear, memoryVars, passVars, agentGhosts
  <2>3. ResultsAreTrue'
    BY <1>7 DEF TypeOK, OpenIsUnsettled, Open, WaitingIsUnprinted, WritesAreSingle, ResultsAreTrue, Excused,
           Clear, memoryVars, passVars, agentGhosts
  <2>4. WordIsTrue' /\ LinesAreTrue'
    BY <1>7 DEF TypeOK, OpenIsUnsettled, Open, WaitingIsUnprinted, WritesAreSingle, WordIsTrue,
       LinesAreTrue,
           Excused, Holding, Outcomes, Clear, memoryVars, passVars, agentGhosts
  <2>5. PassIsCurrent'
    BY <1>7 DEF TypeOK, PassIsCurrent, Holding,
           Clear, memoryVars, passVars, agentGhosts
  <2>6. QED
    BY <2>1, <2>2, <2>3, <2>4, <2>5
<1>8. QED
  BY <1>1, <1>2, <1>3, <1>4, <1>5, <1>6, <1>7

LEMMA ResultsTrue ==
  ASSUME TypeOK, TrueInv,
         BeginPass \/ ReadResult \/ ReadRaises \/ ReadFails \/ WriteOutcome \/ WriteRaises
           \/ DeleteResult \/ DeleteRaises \/ EndResults
  PROVE  TrueInv'
<1> USE DEF TrueInv
<1>1. ASSUME BeginPass PROVE TrueInv'
  BY <1>1 DEF TypeOK, OpenIsUnsettled, Open, WaitingIsUnprinted, WritesAreSingle, ResultsAreTrue, Excused,
         WordIsTrue, PassIsCurrent, LinesAreTrue, Holding,
         BeginPass, shareVars, queueVars, memoryVars, ghostVars, agentGhosts
<1>2. ASSUME ReadResult PROVE TrueInv'
  <2>1. OpenIsUnsettled' /\ WaitingIsUnprinted'
    BY <1>2 DEF TypeOK, OpenIsUnsettled, Open, WaitingIsUnprinted, PassIsCurrent, Holding, Outcomes,
           ReadResult, StatusWord, Results, shareVars, queueVars, memoryVars, agentGhosts
  <2>2. WritesAreSingle'
    BY <1>2 DEF TypeOK, WritesAreSingle,
           ReadResult, StatusWord, Results, shareVars, queueVars, memoryVars, agentGhosts
  <2>3. ResultsAreTrue'
    BY <1>2 DEF TypeOK, OpenIsUnsettled, Open, WaitingIsUnprinted, WritesAreSingle, ResultsAreTrue, Excused,
           ReadResult, StatusWord, Results, shareVars, queueVars, memoryVars, agentGhosts
  <2>4. WordIsTrue' /\ LinesAreTrue'
    BY <1>2 DEF TypeOK, ResultsAreTrue, PassIsCurrent, WordIsTrue, LinesAreTrue,
           Excused, Holding, Outcomes, ReadResult, StatusWord, Results, shareVars, queueVars,
           memoryVars, agentGhosts
  <2>5. PassIsCurrent'
    BY <1>2 DEF TypeOK, PassIsCurrent, Holding,
           ReadResult, StatusWord, Results, shareVars, queueVars, memoryVars, agentGhosts
  <2>6. QED
    BY <2>1, <2>2, <2>3, <2>4, <2>5
<1>3. ASSUME ReadFails PROVE TrueInv'
  BY <1>3 DEF TypeOK, OpenIsUnsettled, Open, WaitingIsUnprinted, WritesAreSingle, ResultsAreTrue, Excused,
         WordIsTrue, PassIsCurrent, LinesAreTrue, Holding,
         ReadFails, Gone, queueVars, memoryVars, agentGhosts
<1>4. ASSUME WriteOutcome PROVE TrueInv'
  <2>1. OpenIsUnsettled' /\ WaitingIsUnprinted'
    BY <1>4 DEF TypeOK, OpenIsUnsettled, Open, WaitingIsUnprinted, WritesAreSingle, Holding, Outcomes,
           WriteOutcome, WriteLine, Line, shareVars, queueVars, memoryVars, agentGhosts
  <2>2. WritesAreSingle'
    BY <1>4 DEF TypeOK, WritesAreSingle,
           WriteOutcome, WriteLine, Line, shareVars, queueVars, memoryVars, agentGhosts
  <2>3. ResultsAreTrue'
    BY <1>4 DEF TypeOK, OpenIsUnsettled, Open, WaitingIsUnprinted, WritesAreSingle, ResultsAreTrue, Excused,
           WriteOutcome, WriteLine, Line, shareVars, queueVars, memoryVars, agentGhosts
  <2>4. WordIsTrue' /\ LinesAreTrue'
    BY <1>4 DEF TypeOK, OpenIsUnsettled, Open, WaitingIsUnprinted, WritesAreSingle, WordIsTrue,
       LinesAreTrue,
           Excused, Holding, Outcomes, WriteOutcome, WriteLine, Line, shareVars, queueVars, memoryVars,
           agentGhosts
  <2>5. PassIsCurrent'
    BY <1>4 DEF TypeOK, PassIsCurrent, Holding,
           WriteOutcome, WriteLine, Line, shareVars, queueVars, memoryVars, agentGhosts
  <2>6. QED
    BY <2>1, <2>2, <2>3, <2>4, <2>5
<1>5. ASSUME WriteRaises PROVE TrueInv'
  <2>1. OpenIsUnsettled' /\ WaitingIsUnprinted'
    BY <1>5 DEF TypeOK, OpenIsUnsettled, Open, WaitingIsUnprinted, WritesAreSingle, Holding, Outcomes,
           WriteRaises, WriteLine, Line, NextResult, shareVars, queueVars, agentGhosts
  <2>2. WritesAreSingle'
    BY <1>5 DEF TypeOK, WritesAreSingle,
           WriteRaises, WriteLine, Line, NextResult, shareVars, queueVars, agentGhosts
  <2>3. ResultsAreTrue'
    BY <1>5 DEF TypeOK, OpenIsUnsettled, Open, WaitingIsUnprinted, WritesAreSingle, ResultsAreTrue, Excused,
           WriteRaises, WriteLine, Line, NextResult, shareVars, queueVars, agentGhosts
  <2>4. WordIsTrue' /\ LinesAreTrue'
    BY <1>5 DEF TypeOK, OpenIsUnsettled, Open, WaitingIsUnprinted, WritesAreSingle, WordIsTrue,
       LinesAreTrue,
           Excused, Holding, Outcomes, WriteRaises, WriteLine, Line, NextResult, shareVars, queueVars,
           agentGhosts
  <2>5. PassIsCurrent'
    BY <1>5 DEF TypeOK, PassIsCurrent, Holding,
           WriteRaises, WriteLine, Line, NextResult, shareVars, queueVars, agentGhosts
  <2>6. QED
    BY <2>1, <2>2, <2>3, <2>4, <2>5
<1>6. ASSUME DeleteResult PROVE TrueInv'
  BY <1>6 DEF TypeOK, OpenIsUnsettled, Open, WaitingIsUnprinted, WritesAreSingle, ResultsAreTrue, Excused,
         WordIsTrue, PassIsCurrent, LinesAreTrue, Holding,
         DeleteResult, Gone, NextResult, queueVars, agentGhosts
<1>7. ASSUME DeleteRaises PROVE TrueInv'
  BY <1>7 DEF TypeOK, OpenIsUnsettled, Open, WaitingIsUnprinted, WritesAreSingle, ResultsAreTrue, Excused,
         WordIsTrue, PassIsCurrent, LinesAreTrue, Holding,
         DeleteRaises, NextResult, shareVars, queueVars, memoryVars, agentGhosts
<1>8. ASSUME EndResults PROVE TrueInv'
  BY <1>8 DEF TypeOK, OpenIsUnsettled, Open, WaitingIsUnprinted, WritesAreSingle, ResultsAreTrue, Excused,
         WordIsTrue, PassIsCurrent, LinesAreTrue, Holding,
         EndResults, shareVars, queueVars, ghostVars, agentGhosts
<1>9. ASSUME ReadRaises PROVE TrueInv'
  BY <1>9 DEF TypeOK, OpenIsUnsettled, Open, WaitingIsUnprinted, WritesAreSingle, ResultsAreTrue, Excused,
         WordIsTrue, PassIsCurrent, LinesAreTrue, Holding,
         ReadRaises, shareVars, queueVars, memoryVars, ghostVars, agentGhosts
<1>10. QED
  BY <1>1, <1>2, <1>3, <1>4, <1>5, <1>6, <1>7, <1>8, <1>9

LEMMA StallsTrue ==
  ASSUME TypeOK, TrueInv,
         Report \/ Quieten \/ CheckForStalls \/ Tell \/ EndStalls \/ Crash \/ Start
  PROVE  TrueInv'
<1> USE DEF TrueInv
<1>1. ASSUME Quieten PROVE TrueInv'
  BY <1>1 DEF TypeOK, OpenIsUnsettled, Open, WaitingIsUnprinted, WritesAreSingle, ResultsAreTrue, Excused,
         WordIsTrue, PassIsCurrent, LinesAreTrue, Holding,
         Quieten, shareVars, queueVars, passVars, ghostVars, agentGhosts
<1>2. ASSUME CheckForStalls PROVE TrueInv'
  <2>1. OpenIsUnsettled' /\ WaitingIsUnprinted'
    BY <1>2 DEF TypeOK, OpenIsUnsettled, Open, WaitingIsUnprinted, WritesAreSingle, Holding, Outcomes,
           CheckForStalls, shareVars, queueVars, ghostVars, agentGhosts
  <2>2. WritesAreSingle'
    BY <1>2 DEF TypeOK, WritesAreSingle,
           CheckForStalls, shareVars, queueVars, ghostVars, agentGhosts
  <2>3. ResultsAreTrue'
    BY <1>2 DEF TypeOK, OpenIsUnsettled, Open, WaitingIsUnprinted, WritesAreSingle, ResultsAreTrue, Excused,
           CheckForStalls, shareVars, queueVars, ghostVars, agentGhosts
  <2>4. WordIsTrue' /\ LinesAreTrue'
    BY <1>2 DEF TypeOK, OpenIsUnsettled, Open, WaitingIsUnprinted, WritesAreSingle, WordIsTrue,
       LinesAreTrue,
           Excused, Holding, Outcomes, CheckForStalls, shareVars, queueVars, ghostVars, agentGhosts
  <2>5. PassIsCurrent'
    BY <1>2 DEF TypeOK, PassIsCurrent, Holding,
           CheckForStalls, shareVars, queueVars, ghostVars, agentGhosts
  <2>6. QED
    BY <2>1, <2>2, <2>3, <2>4, <2>5
<1>3. ASSUME Tell PROVE TrueInv'
  <2>1. OpenIsUnsettled' /\ WaitingIsUnprinted'
    BY <1>3 DEF TypeOK, OpenIsUnsettled, Open, WaitingIsUnprinted, WritesAreSingle, Holding, Outcomes,
           Tell, WriteLine, Line, shareVars, queueVars, agentGhosts
  <2>2. WritesAreSingle'
    BY <1>3 DEF TypeOK, WritesAreSingle,
           Tell, WriteLine, Line, shareVars, queueVars, agentGhosts
  <2>3. ResultsAreTrue'
    BY <1>3 DEF TypeOK, OpenIsUnsettled, Open, WaitingIsUnprinted, WritesAreSingle, ResultsAreTrue, Excused,
           Tell, WriteLine, Line, shareVars, queueVars, agentGhosts
  <2>4. WordIsTrue' /\ LinesAreTrue'
    BY <1>3 DEF TypeOK, OpenIsUnsettled, Open, WaitingIsUnprinted, WritesAreSingle, WordIsTrue,
       LinesAreTrue,
           Excused, Holding, Outcomes, Tell, WriteLine, Line, shareVars, queueVars, agentGhosts
  <2>5. PassIsCurrent'
    BY <1>3 DEF TypeOK, PassIsCurrent, Holding,
           Tell, WriteLine, Line, shareVars, queueVars, agentGhosts
  <2>6. QED
    BY <2>1, <2>2, <2>3, <2>4, <2>5
<1>4. ASSUME EndStalls PROVE TrueInv'
  BY <1>4 DEF TypeOK, OpenIsUnsettled, Open, WaitingIsUnprinted, WritesAreSingle, ResultsAreTrue, Excused,
         WordIsTrue, PassIsCurrent, LinesAreTrue, Holding,
         EndStalls, shareVars, queueVars, memoryVars, ghostVars, agentGhosts
<1>5. ASSUME Crash PROVE TrueInv'
  <2>1. OpenIsUnsettled' /\ WaitingIsUnprinted'
    BY <1>5 DEF TypeOK, OpenIsUnsettled, Open, WaitingIsUnprinted, WritesAreSingle, Holding, Outcomes,
           Crash, agentGhosts
  <2>2. WritesAreSingle'
    BY <1>5 DEF TypeOK, WritesAreSingle,
           Crash, agentGhosts
  <2>3. ResultsAreTrue'
    BY <1>5 DEF TypeOK, OpenIsUnsettled, Open, WaitingIsUnprinted, WritesAreSingle, ResultsAreTrue, Excused,
           Crash, agentGhosts
  <2>4. WordIsTrue' /\ LinesAreTrue'
    BY <1>5 DEF TypeOK, OpenIsUnsettled, Open, WaitingIsUnprinted, WritesAreSingle, WordIsTrue,
       LinesAreTrue,
           Excused, Holding, Outcomes, Crash, agentGhosts
  <2>5. PassIsCurrent'
    BY <1>5 DEF TypeOK, PassIsCurrent, Holding,
           Crash, agentGhosts
  <2>6. QED
    BY <2>1, <2>2, <2>3, <2>4, <2>5
<1>6. ASSUME Start PROVE TrueInv'
  BY <1>6 DEF TypeOK, OpenIsUnsettled, Open, WaitingIsUnprinted, WritesAreSingle, ResultsAreTrue, Excused,
         WordIsTrue, PassIsCurrent, LinesAreTrue, Holding,
         Start, shareVars, queueVars, memoryVars, ghostVars, agentGhosts
<1>7. ASSUME Report PROVE TrueInv'
  <2>1. OpenIsUnsettled' /\ WaitingIsUnprinted'
    BY <1>7 DEF TypeOK, OpenIsUnsettled, Open, WaitingIsUnprinted, WritesAreSingle, Holding, Outcomes,
           Report, WriteLine, Line, shareVars, queueVars, memoryVars, agentGhosts
  <2>2. WritesAreSingle'
    BY <1>7 DEF TypeOK, WritesAreSingle,
           Report, WriteLine, Line, shareVars, queueVars, memoryVars, agentGhosts
  <2>3. ResultsAreTrue'
    BY <1>7 DEF TypeOK, OpenIsUnsettled, Open, WaitingIsUnprinted, WritesAreSingle, ResultsAreTrue, Excused,
           Report, WriteLine, Line, shareVars, queueVars, memoryVars, agentGhosts
  <2>4. WordIsTrue' /\ LinesAreTrue'
    BY <1>7 DEF TypeOK, OpenIsUnsettled, Open, WaitingIsUnprinted, WritesAreSingle, WordIsTrue,
       LinesAreTrue,
           Excused, Holding, Outcomes, Report, WriteLine, Line, shareVars, queueVars, memoryVars,
           agentGhosts
  <2>5. PassIsCurrent'
    BY <1>7 DEF TypeOK, PassIsCurrent, Holding,
           Report, WriteLine, Line, shareVars, queueVars, memoryVars, agentGhosts
  <2>6. QED
    BY <2>1, <2>2, <2>3, <2>4, <2>5
<1>8. QED
  BY <1>1, <1>2, <1>3, <1>4, <1>5, <1>6, <1>7

LEMMA TrueAlways == Spec => []TrueInv
<1>1. Init => TrueInv
  BY TrueInit
<1>2. TypeOK /\ TrueInv /\ [Next]_vars => TrueInv'
  <2>1. ASSUME TypeOK, TrueInv, Next PROVE TrueInv'
    BY <2>1, WritesTrue, AroundTrue, ResultsTrue, StallsTrue DEF Next, Work, TypeOK
  <2>2. ASSUME TypeOK, TrueInv, UNCHANGED vars PROVE TrueInv'
    BY <2>2 DEF vars, TrueInv, OpenIsUnsettled, Open, WaitingIsUnprinted, WritesAreSingle,
       ResultsAreTrue, Excused,
         WordIsTrue, PassIsCurrent, LinesAreTrue, Holding
  <2>3. QED
    BY <2>1, <2>2
<1>3. QED
  BY <1>1, <1>2, TypeCorrect, PTL DEF Spec

\* A record says SENT or RESENT only of a job that the driver took in full, and
\* FAILED of such a job only if its print or its agent was cut off before the
\* end, or if the share misreported a rename (reconcile.py, _status_word;
\* main.py, _report_enqueue_failure): what is still to be printed has no
\* result, no outcome and no line, and a write that is given up put nothing.
THEOREM LinesNeverLie == Spec => []LinesAreTrue
<1>1. TrueInv => LinesAreTrue
  BY DEF TrueInv
<1>2. QED
  BY <1>1, TrueAlways, PTL

-----------------------------------------------------------------------------
(* OutcomeStands.                                                          *)

LEMMA TellStep ==
  ASSUME TypeOK, TrueInv, TellIsCurrent, Next
  PROVE  TellIsCurrent'
<1>1. CASE \E j \in Jobs : Reserve(j)
  BY <1>1 DEF TellIsCurrent, Reserve
<1>2. CASE \E j \in Jobs : Reprint(j) \/ Plant(j) \/ Take(j) \/ Tidy(j) \/ Clear(j) \/ RejectCopy(j)
  BY <1>2 DEF TellIsCurrent, Astray, Reprint, Plant, Take, Tidy, Clear, RejectCopy, passVars,
         ghostVars, agentGhosts
<1>3. CASE \E j \in Jobs : Written(j) \/ Misreport(j) \/ GiveUp(j)
  <2>1. pc' = "tell" => pc = "tell" /\ UNCHANGED <<todo, status>> /\ Astray \subseteq Astray'
    BY <1>3 DEF Written, Misreport, GiveUp, Leaves, Astray, passVars, ghostVars, agentGhosts
  <2>2. QED
    BY <2>1 DEF TellIsCurrent
<1>4. CASE \E j \in Jobs : Finish(j) \/ Reject(j) \/ Stay(j)
  <2>1. UNCHANGED <<pc, todo, status>> /\ Astray \subseteq Astray'
    BY <1>4 DEF Finish, Reject, Stay, End, Astray, passVars, queueVars
  <2>2. QED
    BY <2>1 DEF TellIsCurrent
<1>5. CASE BeginPass \/ ReadResult \/ ReadRaises \/ ReadFails \/ WriteOutcome \/ WriteRaises
             \/ DeleteResult \/ DeleteRaises \/ EndResults \/ EndStalls \/ Crash \/ Start \/ Report
  BY <1>5 DEF TellIsCurrent, BeginPass, ReadResult, ReadRaises, ReadFails, WriteOutcome,
         WriteRaises, DeleteResult, DeleteRaises, EndResults, EndStalls, Crash, Start, Report,
         NextResult
<1>6. CASE Quieten
  BY <1>6 DEF TellIsCurrent, Astray, Quieten, passVars, ghostVars, agentGhosts, shareVars, queueVars
<1>7. CASE CheckForStalls
  <2>1. ASSUME pc' = "tell", NEW j \in todo' \ Astray'
        PROVE  Open(j)
    <3>1. todo' = Outstanding /\ Astray' = Astray
      BY <1>7, <2>1 DEF CheckForStalls, Astray, shareVars, queueVars, ghostVars, agentGhosts
    <3>2. j \in Jobs /\ (place[j] \in {"inbox", "processing"} \/ j \in again \cup strays)
      BY <2>1, <3>1 DEF Outstanding, TypeOK
    <3>3. j \notin again
      BY <2>1, <3>1, <3>2 DEF TrueInv, WritesAreSingle, Astray
    <3>4. QED
      BY <2>1, <3>1, <3>2, <3>3 DEF Open, Astray
  <2>2. todo' \subseteq Jobs \/ pc' # "tell"
    BY <1>7 DEF CheckForStalls, Outstanding, TypeOK
  <2>3. UNCHANGED status
    BY <1>7 DEF CheckForStalls
  <2>4. QED
    BY <2>1, <2>2, <2>3 DEF TellIsCurrent, TrueInv, OpenIsUnsettled
<1>8. CASE Tell
  BY <1>8 DEF TellIsCurrent, Tell, WriteLine, Line, Outcomes, TypeOK, Astray, shareVars, queueVars,
         agentGhosts
<1>9. CASE \E j \in Jobs : pc = "queue" /\ Written(j)
  BY <1>3, <1>9
<1>10. QED
  BY <1>1, <1>2, <1>3, <1>4, <1>5, <1>6, <1>7, <1>8, <1>9 DEF Next, Work, TypeOK

\* No step puts STALLED of j on a record that shows an outcome of j.
LEMMA TellSpares ==
  ASSUME TypeOK, TellIsCurrent, [Next]_vars,
         NEW a \in Assets, NEW j \in Jobs \ Astray,
         status[a].job = j, status[a].word \in Outcomes
  PROVE  status'[a] # Line("STALLED", j)
<1>1. status[a] # Line("STALLED", j)
  BY DEF Line, Outcomes
<1>2. CASE UNCHANGED status
  BY <1>1, <1>2
<1>3. CASE \E i \in Jobs : Reserve(i)
  BY <1>1, <1>3 DEF Reserve, WriteLine, Line
<1>4. CASE WriteOutcome \/ WriteRaises \/ Report
  BY <1>1, <1>4 DEF WriteOutcome, WriteRaises, Report, WriteLine, Line, TypeOK, Outcomes
<1>5. CASE Tell
  <2>1. PICK i \in todo : WriteLine("STALLED", i) \/ UNCHANGED status
    BY <1>5 DEF Tell
  <2>2. CASE i = j
    BY <1>5, <2>2 DEF Tell, TellIsCurrent
  <2>3. CASE i # j
    BY <1>1, <2>1, <2>3 DEF WriteLine, Line
  <2>4. QED
    BY <2>2, <2>3
<1>6. UNCHANGED status \/ (\E i \in Jobs : Reserve(i)) \/ WriteOutcome \/ WriteRaises \/ Report \/ Tell
  BY DEF Next, Work, Reprint, Plant, Written, Misreport, GiveUp, Take, Finish, Reject, RejectCopy,
         Stay, Tidy, Clear, End, Quieten, BeginPass, ReadResult, ReadRaises, ReadFails,
         DeleteResult, DeleteRaises, EndResults, CheckForStalls, EndStalls, Crash, Start, vars
<1>7. QED
  BY <1>2, <1>3, <1>4, <1>5, <1>6

\* The watchdog never writes STALLED over the outcome of the same job
\* (check_for_stalls), unless files of the job could not be moved, a write that
\* was given up left its sidecar, or a misreported rename a second copy: results
\* are dealt with before the listing it goes through, and none after.
THEOREM OutcomesAreKept == Spec => OutcomeStands
<1>1. Init => TrueInv /\ TellIsCurrent
  BY TrueInit DEF Init, TellIsCurrent
<1>2. TypeOK /\ TrueInv /\ TellIsCurrent /\ [Next]_vars => TellIsCurrent'
  <2>1. ASSUME TellIsCurrent, UNCHANGED vars PROVE TellIsCurrent'
    BY <2>1 DEF vars, TellIsCurrent, Astray
  <2>2. QED
    BY <2>1, TellStep
<1>3. TypeOK /\ TellIsCurrent /\ [Next]_vars =>
        [ \A a \in Assets, j \in Jobs \ Astray :
            status[a].job = j /\ status[a].word \in Outcomes => status'[a] # Line("STALLED", j) ]_vars
  BY TellSpares
<1>4. QED
  BY <1>1, <1>2, <1>3, TypeCorrect, TrueAlways, PTL DEF Spec, OutcomeStands

-----------------------------------------------------------------------------
(* NotGivenUpEarly.                                                        *)

\* What a refused write leaves: one more attempt in memory and one more
\* refusal, or a result that was refused often enough.
LEMMA RefusalCounts ==
  ASSUME TypeOK, PatientInv, WriteRaises
  PROVE  PatientInv'
<1>1. cur \in Jobs /\ MaxAttempts \in Nat \ {0}
  BY ConstantsAssumption DEF TypeOK, WriteRaises, ConstantsAssumption
<1>2. attempts[cur] \in 0..(MaxAttempts - 1) /\ refusals[cur] \in 0..MaxAttempts
  BY <1>1 DEF TypeOK
<1>3. refusals'[cur] = IF refusals[cur] < MaxAttempts THEN refusals[cur] + 1 ELSE refusals[cur]
  BY <1>1 DEF WriteRaises, TypeOK
<1>4. \A j \in Jobs \ {cur} : refusals'[j] = refusals[j] /\ attempts'[j] = attempts[j]
  BY <1>1 DEF WriteRaises, TypeOK, Forgotten
<1>5. attempts[cur] <= refusals[cur]
  BY <1>1 DEF PatientInv, AttemptsAreReal
<1>6. CASE Exhausted(cur)
  <2>1. attempts'[cur] = 0 /\ pc' = "delete" /\ cur' = cur
    BY <1>1, <1>6 DEF WriteRaises, TypeOK, Forgotten
  <2>2. refusals'[cur] >= MaxAttempts
    BY <1>1, <1>2, <1>3, <1>5, <1>6 DEF Exhausted
  <2>3. AttemptsAreReal'
    BY <1>1, <1>2, <1>3, <1>4, <2>1 DEF AttemptsAreReal, PatientInv
  <2>4. QED
    BY <2>1, <2>2, <2>3 DEF PatientInv, WordIsSettled, Holding
<1>7. CASE ~Exhausted(cur)
  <2>1. attempts'[cur] = attempts[cur] + 1 /\ pc' = "results" /\ word' = "none"
    BY <1>1, <1>7 DEF WriteRaises, TypeOK, NextResult
  <2>2. attempts[cur] + 1 < MaxAttempts
    BY <1>1, <1>2, <1>7 DEF Exhausted
  <2>3. AttemptsAreReal'
    BY <1>1, <1>2, <1>3, <1>4, <1>5, <2>1, <2>2 DEF AttemptsAreReal, PatientInv
  <2>4. QED
    BY <2>1, <2>3 DEF PatientInv, WordIsSettled, Holding
<1>8. QED
  BY <1>6, <1>7

LEMMA PatientStep ==
  ASSUME TypeOK, PatientInv, Next
  PROVE  PatientInv'
<1> USE DEF PatientInv, WordIsSettled, AttemptsAreReal, Holding
<1>1. CASE \E j \in Jobs : \/ Reprint(j) \/ Plant(j) \/ Misreport(j) \/ Take(j) \/ Finish(j) \/ Reject(j)
                          \/ RejectCopy(j) \/ Stay(j) \/ Tidy(j) \/ Clear(j)
  <2>1. UNCHANGED <<pc, cur, word, attempts, accepted, refusals>>
    BY <1>1 DEF Reprint, Plant, Misreport, Take, Finish, Reject, RejectCopy, Stay, Tidy, Clear, End,
           memoryVars, passVars, ghostVars
  <2>2. QED
    BY <2>1
<1>2. CASE \/ Quieten \/ BeginPass \/ EndResults \/ CheckForStalls \/ Tell \/ EndStalls \/ Start
           \/ ReadRaises \/ Report \/ \E j \in Jobs : Reserve(j)
  BY <1>2 DEF Quieten, BeginPass, EndResults, CheckForStalls, Tell, EndStalls, Start, ReadRaises,
         Report, Reserve, memoryVars, passVars, ghostVars
<1>3. CASE ReadResult
  BY <1>3 DEF ReadResult, memoryVars
<1>4. CASE ReadFails
  BY <1>4 DEF ReadFails, memoryVars
<1>5. CASE WriteOutcome
  BY <1>5 DEF WriteOutcome, memoryVars
<1>6. CASE WriteRaises
  BY <1>6, RefusalCounts
<1>7. CASE DeleteResult
  BY <1>7 DEF DeleteResult, NextResult, TypeOK
<1>8. CASE DeleteRaises
  BY <1>8 DEF DeleteRaises, NextResult, memoryVars
<1>9. CASE Crash
  <2>1. \A j \in Jobs : attempts'[j] = 0 /\ refusals'[j] = refusals[j] /\ refusals[j] \in Nat
    BY <1>9, ConstantsAssumption DEF Crash, TypeOK, ConstantsAssumption
  <2>2. QED
    BY <1>9, <2>1 DEF Crash
<1>10. CASE \E j \in Jobs : Written(j) \/ GiveUp(j)
  <2>1. PICK j \in Jobs : Written(j) \/ GiveUp(j)
    BY <1>10
  <2>2. UNCHANGED <<word, attempts, accepted, refusals>>
    BY <2>1 DEF Written, GiveUp, memoryVars, ghostVars
  <2>3. (pc' = pc /\ cur' = cur) \/ (pc \notin Holding /\ pc' \notin Holding)
    BY <2>1 DEF Written, GiveUp, Writing, Holding
  <2>4. QED
    BY <2>2, <2>3
<1>11. QED
  BY <1>1, <1>2, <1>3, <1>4, <1>5, <1>6, <1>7, <1>8, <1>9, <1>10 DEF Next, Work, TypeOK

\* Only DeleteResult and ReadFails take a result away.
LEMMA GoneWhenSettled ==
  ASSUME TypeOK, PatientInv, [Next]_vars,
         NEW j \in Jobs, result[j] # "none", result'[j] = "none", word # "none"
  PROVE  j \in accepted \/ refusals[j] >= MaxAttempts
<1>1. CASE DeleteResult
  <2>1. cur = j
    BY <1>1 DEF DeleteResult, Gone, TypeOK
  <2>2. QED
    BY <1>1, <2>1 DEF DeleteResult, PatientInv, WordIsSettled
<1>2. CASE ReadFails
  BY <1>2 DEF ReadFails, PatientInv, WordIsSettled, Holding
<1>3. CASE UNCHANGED result
  BY <1>3
<1>4. CASE \E i \in Jobs : Finish(i) \/ Reject(i) \/ RejectCopy(i) \/ Stay(i)
  <2>1. result'[j] = result[j] \/ result'[j] \in {"success", "failed", "rejected"}
    BY <1>4 DEF Finish, Reject, RejectCopy, Stay, End, TypeOK
  <2>2. QED
    BY <2>1
<1>5. \/ UNCHANGED result \/ DeleteResult \/ ReadFails
      \/ \E i \in Jobs : Finish(i) \/ Reject(i) \/ RejectCopy(i) \/ Stay(i)
  BY DEF Next, Work, Reserve, Reprint, Plant, Written, Misreport, GiveUp, Report, Take, Tidy, Clear,
         Quieten, BeginPass, ReadResult, ReadRaises, WriteOutcome, WriteRaises, DeleteRaises,
         EndResults, CheckForStalls, Tell, EndStalls, Crash, Start, shareVars, vars
<1>6. QED
  BY <1>1, <1>2, <1>3, <1>4, <1>5

\* A result with a line to write is deleted only when Halo took the line or
\* refused it STATUS_WRITE_MAX_ATTEMPTS times (_write_status): the counter in
\* memory never runs ahead of the refusals, also over a restart.
THEOREM GivesUpLast == Spec => NotGivenUpEarly
<1>1. Init => PatientInv
  BY DEF Init, PatientInv, WordIsSettled, AttemptsAreReal, Holding
<1>2. TypeOK /\ PatientInv /\ [Next]_vars => PatientInv'
  <2>1. ASSUME TypeOK, PatientInv, UNCHANGED vars PROVE PatientInv'
    BY <2>1 DEF vars, PatientInv, WordIsSettled, AttemptsAreReal, Holding
  <2>2. QED
    BY <2>1, PatientStep
<1>3. TypeOK /\ PatientInv /\ [Next]_vars =>
        [ \A j \in Jobs : result[j] # "none" /\ result'[j] = "none" /\ word # "none" =>
            j \in accepted \/ refusals[j] >= MaxAttempts ]_vars
  BY GoneWhenSettled
<1>4. QED
  BY <1>1, <1>2, <1>3, TypeCorrect, PTL DEF Spec, NotGivenUpEarly

=============================================================================
