------------------------------ MODULE Allocator ------------------------------
(***************************************************************************)
(* The numbering half of the label service against the Halo tenant it      *)
(* takes numbers from: src/main.py (poll_once, process_asset), guards.py,  *)
(* asset_source.py, allocator.py, enqueue.py and the paging and writing of *)
(* halo_client.py.                                                         *)
(*                                                                         *)
(* One step is one call that another actor can come between: a page of the *)
(* listing, the reserve write, its read-back, the enqueue, the FAILED      *)
(* write.  The print queue is the sequence of jobs written to it           *)
(* (QueueProtocol and PrintAgent say what happens there).                  *)
(***************************************************************************)
EXTENDS Integers, Sequences, FiniteSets

CONSTANTS
  Assets,            \* cable family records in Halo
  Prefixes,          \* prefixes they may carry
  BadPrefixes,       \* the blank one, and those prefix_pattern does not match
  PrefixOf,          \* [Assets -> Prefixes]
  Counters,          \* [Assets -> Nat]: the initial Next Cable ID; 0 stands for every
                     \* value validate refuses (blank, not a number, below 1)
  FirstListing,      \* the label group as Halo lists it at the start
  Oversized,         \* assets whose colour and type make a job name the job schema refuses
  Instances,         \* service processes
  NoInstance,
  LockFiles,         \* lock files they can see, and the one each uses
  LockOf,
  Modes,             \* subset of {"live", "shadow", "dry"}: SHADOW_MODE / DRY_RUN
  BatchSize,         \* guards.BATCH_SIZE
  MaxAssetsPerPoll,
  PageSize,          \* what Halo really returns per page
  WidestNumber,      \* the highest number whose identifier fits the media
  Faults,            \* the kinds of failure this instance of the model meets
  EditsWhilePending, \* whether technicians change a request the service may hold
  MaxQty,            \* bounds: the largest request, and how many requests,
  MaxRequests,       \* failures and changes of the asset group happen
  MaxFaults,
  MaxMoves

FaultKinds ==
  {"list",     \* a page of the listing cannot be read
   "refused",  \* the reserve write fails and is not applied
   "ignored",  \* it is answered with success and not applied
   "lost",     \* it is applied, the answer is lost
   "late",     \* it times out and Halo applies it later
   "readback", \* the read-back fails
   "layout",   \* the renderer raises LayoutError
   "queue",    \* every attempt to write the job fails
   "report",   \* the FAILED line cannot be written
   "crash"}    \* the process dies

ASSUME ConstantsAssumption ==
  /\ BadPrefixes \subseteq Prefixes
  /\ PrefixOf \in [Assets -> Prefixes]
  /\ Counters \in [Assets -> Nat]
  /\ FirstListing \in Seq(Assets)
  /\ Oversized \subseteq Assets
  /\ NoInstance \notin Instances
  /\ LockOf \in [Instances -> LockFiles]
  /\ Modes \subseteq {"live", "shadow", "dry"} /\ Modes # {}
  /\ Faults \subseteq FaultKinds
  /\ EditsWhilePending \in BOOLEAN
  /\ BatchSize \in Nat \ {0} /\ MaxAssetsPerPoll \in Nat \ {0} /\ PageSize \in Nat \ {0}
  /\ WidestNumber \in Nat /\ MaxQty \in Nat
  /\ MaxRequests \in Nat /\ MaxFaults \in Nat /\ MaxMoves \in Nat

VARIABLES
  \* Halo
  next,      \* next[a]: Next Cable ID
  qty,       \* qty[a]: Cables to Label; 0 stands for everything that is not pending
  status,    \* status[a]: Last Label Run
  listing,   \* the records of the label group, in the order Halo lists them
  late,      \* reserve writes that timed out and are still to be applied
  \* the service
  lock,      \* lock[f]: the instance holding lock file f
  pc,        \* pc[i]: where instance i is in main / poll_once / process_asset
  mode,      \* mode[i]: what it was configured to do when it started
  page,      \* page[i]: page_no of iter_assets
  found,     \* found[i]: the cable types read from the listing so far
  todo,      \* todo[i]: positions in found[i] this poll still has to process
  cable,     \* cable[i]: the cable type process_asset is working on
  jobs,      \* the jobs written to the print queue, in order
  \* what the model adds
  asked,     \* asked[a]: cables technicians have asked for and not withdrawn
  used       \* how much of each bound is spent

haloVars    == <<next, qty, status>>
serviceVars == <<lock, pc, mode, page, found, todo, cable>>
vars == <<next, qty, status, listing, late, lock, pc, mode, page, found, todo,
          cable, jobs, asked, used>>

CableTypes == [asset : Assets, next : Nat, qty : Nat]
NoCable    == [asset |-> "none", next |-> 0, qty |-> 0]
Blocks     == [asset : Assets, first : Nat, last : Nat]
Lines      == [word : {"-", "QUEUED", "FAILED"}, first : Nat, last : Nat]
Writes     == [asset : Assets, next : Nat, qty : Nat, line : Lines]

Bounded == {"requests", "faults", "moves"}
Limit(k) ==
  CASE k = "requests" -> MaxRequests [] k = "faults" -> MaxFaults [] k = "moves" -> MaxMoves

Listed == {listing[k] : k \in DOMAIN listing}

-----------------------------------------------------------------------------
(* What the service computes from the cable types it has read.             *)

\* get_pending keeps what has a positive quantity.
Pending(f) == {p \in DOMAIN f : f[p].qty > 0}

\* (A slip the checks must notice: an asset listed twice is processed twice.)
VetoNothing(f) == Pending(f)

\* veto_duplicate_prefixes drops every pending entry whose prefix another
\* pending entry carries, an asset listed twice included.
veto_duplicate_prefixes(f) ==
  {p \in Pending(f) : \A q \in Pending(f) :
      PrefixOf[f[q].asset] = PrefixOf[f[p].asset] => q = p}

\* apply_batch_cap keeps the first MaxAssetsPerPoll of them, in listing order.
apply_batch_cap(S) ==
  {p \in S : Cardinality({q \in S : q <= p}) <= MaxAssetsPerPoll}

\* (A slip: the page is compared with the size asked for, which Halo caps.)
ShortPageIsLast(size, fetched, record_count) == size < 50

\* iter_assets stops on an empty page, or once it has fetched record_count.
LastPage(size, fetched, record_count) == size = 0 \/ fetched >= record_count

clamp_qty(c) == IF c.qty > BatchSize THEN BatchSize ELSE c.qty
LastNumber(c) == c.next + clamp_qty(c) - 1
next_counter_value(c) == LastNumber(c) + 1

\* (Slips: the whole request is cleared; the remainder may go below zero.)
ClearedRequest(c) == 0
UnclampedRemainder(c) == c.qty - BatchSize

\* reserve writes back what this batch does not take.
Remaining(c) == IF c.qty > clamp_qty(c) THEN c.qty - clamp_qty(c) ELSE 0

\* validate: the prefix, the counter and the layout of the block's last number.
Valid(c) ==
  /\ PrefixOf[c.asset] \notin BadPrefixes
  /\ c.next >= 1
  /\ LastNumber(c) <= WidestNumber

BlockOf(c) == [asset |-> c.asset, first |-> c.next, last |-> LastNumber(c)]

Line(word, c) == [word |-> word, first |-> c.next, last |-> LastNumber(c)]

\* reserve: one write carries the counter, the trigger and the QUEUED line.
ReserveWrite(c) ==
  [asset |-> c.asset, next |-> next_counter_value(c), qty |-> Remaining(c),
   line |-> Line("QUEUED", c)]

\* (A slip: the answer of the write is believed.)
ReadBackSkipped(c) == TRUE

\* reserve refuses to go on unless the counter reads back as it was written.
ReadBackMatches(c) == next[c.asset] = next_counter_value(c)

-----------------------------------------------------------------------------
Init ==
  /\ next    = Counters
  /\ qty     = [a \in Assets |-> 0]
  /\ status  = [a \in Assets |-> [word |-> "-", first |-> 0, last |-> 0]]
  /\ listing = FirstListing
  /\ late    = {}
  /\ lock    = [f \in LockFiles |-> NoInstance]
  /\ pc      = [i \in Instances |-> "down"]
  /\ mode    = [i \in Instances |-> "off"]
  /\ page    = [i \in Instances |-> 1]
  /\ found   = [i \in Instances |-> <<>>]
  /\ todo    = [i \in Instances |-> {}]
  /\ cable   = [i \in Instances |-> NoCable]
  /\ jobs    = <<>>
  /\ asked   = [a \in Assets |-> 0]
  /\ used    = [k \in Bounded |-> 0]

\* One more of what a constant bounds.
Spend(k) ==
  /\ used[k] < Limit(k)
  /\ used' = [used EXCEPT ![k] = @ + 1]

Fault(kind) == kind \in Faults /\ Spend("faults")

Goto(i, label) == pc' = [pc EXCEPT ![i] = label]

\* process_asset returns: the for loop of poll_once goes on.
AssetDone(i) ==
  /\ Goto(i, "process")
  /\ cable' = [cable EXCEPT ![i] = NoCable]

\* Halo takes a write of the three fields.
Apply(w) ==
  /\ next'   = [next EXCEPT ![w.asset] = w.next]
  /\ qty'    = [qty EXCEPT ![w.asset] = w.qty]
  /\ status' = [status EXCEPT ![w.asset] = w.line]

-----------------------------------------------------------------------------
(* People and Halo.                                                        *)

\* A technician sets Cables to Label.
Request(a, n) ==
  /\ Spend("requests")
  /\ n # qty[a]
  /\ qty[a] = 0 \/ EditsWhilePending
  /\ qty'   = [qty EXCEPT ![a] = n]
  /\ asked' = [asked EXCEPT ![a] = @ - qty[a] + n]
  /\ UNCHANGED <<next, status, listing, late, serviceVars, jobs>>

\* A person sets a counter the service refuses to guess.
RepairCounter(a) ==
  /\ next[a] = 0
  /\ next' = [next EXCEPT ![a] = 1]
  /\ UNCHANGED <<qty, status, listing, late, serviceVars, jobs, asked, used>>

Moves ==
  /\ Spend("moves")
  /\ UNCHANGED <<haloVars, late, serviceVars, jobs, asked>>

\* A record joins or leaves the label group; the records behind it shift.
JoinGroup(a, k) ==
  /\ a \notin Listed
  /\ listing' = SubSeq(listing, 1, k) \o <<a>> \o SubSeq(listing, k + 1, Len(listing))
  /\ Moves

LeaveGroup(k) ==
  /\ listing' = SubSeq(listing, 1, k - 1) \o SubSeq(listing, k + 1, Len(listing))
  /\ Moves

\* Halo applies a write whose caller has given it up.
ApplyLate(w) ==
  /\ late' = late \ {w}
  /\ Apply(w)
  /\ UNCHANGED <<listing, serviceVars, jobs, asked, used>>

-----------------------------------------------------------------------------
(* The service process.                                                    *)

\* (A slip: the lock is not exclusive.)
LockIsShared(i) == TRUE

\* SingleInstanceLock.acquire: an exclusive lock on the file this one sees.
LockIsFree(i) == lock[LockOf[i]] = NoInstance

\* main: read the configuration, take the lock, enter the loop.
Start(i) ==
  /\ pc[i] = "down"
  /\ LockIsFree(i)
  /\ lock' = [lock EXCEPT ![LockOf[i]] = i]
  /\ \E m \in Modes : mode' = [mode EXCEPT ![i] = m]
  /\ Goto(i, "idle")
  /\ UNCHANGED <<haloVars, listing, late, page, found, todo, cable, jobs, asked, used>>

\* The process ends and its lock with it: a crash anywhere, or a signal, which
\* the loop heeds between polls.  Only Halo and the queue remember anything.
Stop(i) ==
  /\ pc[i] # "down"
  /\ Fault("crash")
  /\ lock'  = [lock EXCEPT ![LockOf[i]] = NoInstance]
  /\ mode'  = [mode EXCEPT ![i] = "off"]
  /\ page'  = [page EXCEPT ![i] = 1]
  /\ found' = [found EXCEPT ![i] = <<>>]
  /\ todo'  = [todo EXCEPT ![i] = {}]
  /\ cable' = [cable EXCEPT ![i] = NoCable]
  /\ Goto(i, "down")
  /\ UNCHANGED <<haloVars, listing, late, jobs, asked>>

\* poll_once starts: get_pending will ask for the first page.
BeginPoll(i) ==
  /\ pc[i] = "idle"
  /\ page' = [page EXCEPT ![i] = 1]
  /\ Goto(i, "scan")
  /\ UNCHANGED <<haloVars, listing, late, lock, mode, found, todo, cable, jobs, asked, used>>

\* poll_once is over, by whatever way; what it had read is dropped.
LeavePoll(i) ==
  /\ page'  = [page EXCEPT ![i] = 1]
  /\ found' = [found EXCEPT ![i] = <<>>]
  /\ todo'  = [todo EXCEPT ![i] = {}]
  /\ cable' = [cable EXCEPT ![i] = NoCable]
  /\ Goto(i, "idle")

\* build_cable_type: the fields of a record as Halo shows them now.
build_cable_type(a) == [asset |-> a, next |-> next[a], qty |-> qty[a]]

\* list_assets_page: the records at this page's place in the listing.
PageStart(i) == (page[i] - 1) * PageSize
PageLength(i) ==
  IF Len(listing) <= PageStart(i) THEN 0
  ELSE IF Len(listing) - PageStart(i) < PageSize THEN Len(listing) - PageStart(i)
  ELSE PageSize
PageRead(i) == [k \in 1..PageLength(i) |-> build_cable_type(listing[PageStart(i) + k])]

\* One turn of iter_assets.  After the last page the guards choose the batch.
ReadPage(i) ==
  /\ pc[i] = "scan"
  /\ found' = [found EXCEPT ![i] = @ \o PageRead(i)]
  /\ IF LastPage(PageLength(i), Len(found[i]) + PageLength(i), Len(listing))
     THEN /\ todo' = [todo EXCEPT ![i] =
                        apply_batch_cap(veto_duplicate_prefixes(found[i] \o PageRead(i)))]
          /\ Goto(i, "process")
          /\ UNCHANGED page
     ELSE /\ page' = [page EXCEPT ![i] = @ + 1]
          /\ UNCHANGED <<todo, pc>>
  /\ UNCHANGED <<haloVars, listing, late, lock, mode, cable, jobs, asked, used>>

\* get_pending raises: poll_once returns.
ReadPageFails(i) ==
  /\ pc[i] = "scan"
  /\ Fault("list")
  /\ LeavePoll(i)
  /\ UNCHANGED <<haloVars, listing, late, lock, mode, jobs, asked>>

\* (A slip: shadow mode is looked at only before the enqueue.)
ShadowReserves(i, c) == ~Valid(c)

\* process_asset takes the next cable type.  What validate refuses stays flagged;
\* in shadow mode the block is only logged.
StopsBeforeReserve(i, c) == ~Valid(c) \/ mode[i] = "shadow"

TakeAsset(i) ==
  /\ pc[i] = "process"
  /\ \E p \in todo[i] :
        /\ \A q \in todo[i] : p <= q
        /\ todo' = [todo EXCEPT ![i] = @ \ {p}]
        /\ IF StopsBeforeReserve(i, found[i][p])
           THEN UNCHANGED <<pc, cable>>
           ELSE /\ cable' = [cable EXCEPT ![i] = found[i][p]]
                /\ Goto(i, "reserve")
  /\ UNCHANGED <<haloVars, listing, late, lock, mode, page, found, jobs, asked, used>>

EndPoll(i) ==
  /\ pc[i] = "process"
  /\ todo[i] = {}
  /\ LeavePoll(i)
  /\ UNCHANGED <<haloVars, listing, late, lock, mode, jobs, asked, used>>

-----------------------------------------------------------------------------
(* allocator.reserve: the write, then the read-back.                       *)

ReserveApplied(i) ==
  /\ pc[i] = "reserve"
  /\ Apply(ReserveWrite(cable[i]))
  /\ Goto(i, "readback")
  /\ UNCHANGED <<listing, late, lock, mode, page, found, todo, cable, jobs, asked, used>>

\* Halo answers 200 and changes nothing.
ReserveIgnored(i) ==
  /\ pc[i] = "reserve"
  /\ Fault("ignored")
  /\ Goto(i, "readback")
  /\ UNCHANGED <<haloVars, listing, late, lock, mode, page, found, todo, cable, jobs, asked>>

\* update_fields raises, and reserve raises ReserveError, whatever Halo did:
\* nothing, the write, or the write after a while.
ReserveRaises(i) ==
  /\ pc[i] = "reserve"
  /\ \/ Fault("refused") /\ UNCHANGED <<haloVars, late>>
     \/ Fault("lost") /\ Apply(ReserveWrite(cable[i])) /\ UNCHANGED late
     \/ Fault("late") /\ late' = late \cup {ReserveWrite(cable[i])} /\ UNCHANGED haloVars
  /\ AssetDone(i)
  /\ UNCHANGED <<listing, lock, mode, page, found, todo, jobs, asked>>

ReadBack(i) ==
  /\ pc[i] = "readback"
  /\ IF ReadBackMatches(cable[i])
     THEN Goto(i, "render") /\ UNCHANGED cable
     ELSE AssetDone(i)
  /\ UNCHANGED <<haloVars, listing, late, lock, mode, page, found, todo, jobs, asked, used>>

ReadBackRaises(i) ==
  /\ pc[i] = "readback"
  /\ Fault("readback")
  /\ AssetDone(i)
  /\ UNCHANGED <<haloVars, listing, late, lock, mode, page, found, todo, jobs, asked>>

-----------------------------------------------------------------------------
(* renderer.render and enqueue.write: from here on every failure is a gap. *)

Render(i) ==
  /\ pc[i] = "render"
  /\ IF mode[i] = "dry"
     THEN AssetDone(i)
     ELSE Goto(i, "enqueue") /\ UNCHANGED cable
  /\ UNCHANGED <<haloVars, listing, late, lock, mode, page, found, todo, jobs, asked, used>>

RenderRaises(i) ==
  /\ pc[i] = "render"
  /\ Fault("layout")
  /\ AssetDone(i)
  /\ UNCHANGED <<haloVars, listing, late, lock, mode, page, found, todo, jobs, asked>>

Enqueue(i) ==
  /\ pc[i] = "enqueue"
  /\ cable[i].asset \notin Oversized
  /\ jobs' = Append(jobs, BlockOf(cable[i]))
  /\ AssetDone(i)
  /\ UNCHANGED <<haloVars, listing, late, lock, mode, page, found, todo, asked, used>>

\* write_job validates the sidecar and raises jsonschema.ValidationError, which
\* neither enqueue.write nor process_asset catches: main logs it, the poll is over.
SidecarRefused(i) ==
  /\ pc[i] = "enqueue"
  /\ cable[i].asset \in Oversized
  /\ LeavePoll(i)
  /\ UNCHANGED <<haloVars, listing, late, lock, mode, jobs, asked, used>>

\* enqueue.write gives up after its retries and raises QueueError.
EnqueueRaises(i) ==
  /\ pc[i] = "enqueue"
  /\ cable[i].asset \notin Oversized
  /\ Fault("queue")
  /\ Goto(i, "report")
  /\ UNCHANGED <<haloVars, listing, late, lock, mode, page, found, todo, cable, jobs, asked>>

\* (A slip: the line of the reserve is written once more.)
StillQueued(c) == Line("QUEUED", c)

\* _report_enqueue_failure: the FAILED line, best effort.
ReportLine(c) == Line("FAILED", c)

Report(i) ==
  /\ pc[i] = "report"
  /\ \/ /\ status' = [status EXCEPT ![cable[i].asset] = ReportLine(cable[i])]
        /\ UNCHANGED used
     \/ Fault("report") /\ UNCHANGED status
  /\ AssetDone(i)
  /\ UNCHANGED <<next, qty, listing, late, lock, mode, page, found, todo, jobs, asked>>

-----------------------------------------------------------------------------
People ==
  \/ \E a \in Assets : RepairCounter(a) \/ \E n \in 0..MaxQty : Request(a, n)
  \/ \E k \in 0..Len(listing) : \E a \in Assets : JoinGroup(a, k)
  \/ \E k \in DOMAIN listing : LeaveGroup(k)

Step(i) ==
  \/ BeginPoll(i) \/ ReadPage(i) \/ ReadPageFails(i) \/ TakeAsset(i) \/ EndPoll(i)
  \/ ReserveApplied(i) \/ ReserveIgnored(i) \/ ReserveRaises(i)
  \/ ReadBack(i) \/ ReadBackRaises(i)
  \/ Render(i) \/ RenderRaises(i)
  \/ Enqueue(i) \/ SidecarRefused(i) \/ EnqueueRaises(i) \/ Report(i)

Next ==
  \/ People
  \/ \E w \in late : ApplyLate(w)
  \/ \E i \in Instances : Start(i) \/ Stop(i) \/ Step(i)

Spec == Init /\ [][Next]_vars

\* The loop runs as long as the process does and a stopped container is
\* started again; people, Halo's delays and failures owe nothing.
Fairness == \A i \in Instances : WF_vars(Step(i)) /\ WF_vars(Start(i))

FairSpec == Spec /\ Fairness

-----------------------------------------------------------------------------
(* What makes it correct.                                                  *)

TypeOK ==
  /\ next \in [Assets -> Nat] /\ qty \in [Assets -> Nat] /\ status \in [Assets -> Lines]
  /\ listing \in Seq(Assets)
  /\ late \subseteq Writes
  /\ lock \in [LockFiles -> Instances \cup {NoInstance}]
  /\ pc \in [Instances -> {"down", "idle", "scan", "process", "reserve", "readback",
                           "render", "enqueue", "report"}]
  /\ mode \in [Instances -> Modes \cup {"off"}]
  /\ page \in [Instances -> Nat \ {0}]
  /\ found \in [Instances -> Seq(CableTypes)]
  /\ \A i \in Instances : todo[i] \subseteq DOMAIN found[i]
  /\ todo \in [Instances -> SUBSET Nat]
  /\ cable \in [Instances -> CableTypes \cup {NoCable}]
  /\ jobs \in Seq(Blocks)
  /\ asked \in [Assets -> Int]
  /\ used \in [Bounded -> Nat]

\* Gaps, never collisions (README): no two print jobs carry the same identifier,
\* across polls, retries, crashes and a listing that shifts while it is read.
NoCollision ==
  \A m, n \in DOMAIN jobs :
     m < n /\ PrefixOf[jobs[m].asset] = PrefixOf[jobs[n].asset]
       => jobs[m].last < jobs[n].first \/ jobs[n].last < jobs[m].first

\* Identifiers are reserved in Halo before anything is rendered: a number that a
\* job carries is never one the counter still offers.
ConsumedBeforeEnqueued == \A n \in DOMAIN jobs : jobs[n].last < next[jobs[n].asset]

\* How many numbers Halo has given out for an asset.
FirstCounter(a) == IF Counters[a] = 0 THEN 1 ELSE Counters[a]
Consumed(a) == IF next[a] = 0 THEN 0 ELSE next[a] - FirstCounter(a)

\* The one write of reserve moves the counter and the trigger together: every
\* cable asked for is still flagged or has its number, never both, never neither.
RequestsConserved == \A a \in Assets : asked[a] = qty[a] + Consumed(a)

\* SHADOW_MODE consumes no number, and no job comes from SHADOW_MODE or DRY_RUN.
RehearsalsConsumeNothing ==
  [][/\ \A a \in Assets :
          next'[a] # next[a] /\ next[a] # 0
            => \E i \in Instances : mode[i] # "shadow" /\ cable[i].asset = a
     /\ jobs' # jobs
          => \E i \in Instances : mode[i] = "live" /\ pc[i] = "enqueue"]_vars

\* The records that Halo shows as QUEUED although no job carries their block and
\* nobody is at work on it.
Pursued(a) ==
  \E i \in Instances :
     /\ pc[i] \in {"readback", "render", "enqueue", "report"}
     /\ cable[i].asset = a /\ status[a] = Line("QUEUED", cable[i])
Queued(a) ==
  \E n \in DOMAIN jobs :
     jobs[n] = [asset |-> a, first |-> status[a].first, last |-> status[a].last]
Abandoned == {a \in Assets : status[a].word = "QUEUED" /\ ~Pursued(a) /\ ~Queued(a)}

\* A QUEUED line is left without a job only by a failure, by a write that Halo
\* applies after its caller gave up, in DRY_RUN, or by a job the schema refuses, and
\* for one record at a time (every failure of process_asset after reserve, whose one
\* write moves the counter and the line together).
GapsHaveACause ==
  [][/\ \A a \in Abandoned' \ Abandoned :
          \/ used'["faults"] > used["faults"] \/ late' # late
          \/ \E i \in Instances :
               /\ cable[i].asset = a
               /\ \/ pc[i] = "render" /\ mode[i] = "dry"
                  \/ pc[i] = "enqueue" /\ a \in Oversized
     /\ \A a, b \in Abandoned' \ Abandoned : a = b]_vars

\* The abstract counter of CableNumbers: what an instance between the reserve
\* write and the enqueue holds of its block is what the counter has left behind.
InHand(i) == pc[i] \in {"readback", "render", "enqueue"}

HeldBy(i) == {n \in cable[i].next .. LastNumber(cable[i]) : n < next[cable[i].asset]}

Held(a) ==
  UNION {HeldBy(i) : i \in {j \in Instances : InHand(j) /\ cable[j].asset = a}}

Issued(a) ==
  UNION {jobs[n].first .. jobs[n].last : n \in {m \in DOMAIN jobs : jobs[m].asset = a}}

Numbers == INSTANCE CableNumbers WITH
  counter <- next,
  held    <- [a \in Assets |-> Held(a)],
  issued  <- [a \in Assets |-> Issued(a)]

\* The service against Halo keeps the promise of CableNumbers.
ImplementsCableNumbers == Numbers!Spec

\* Every request is served in the end: a batch at a time, whatever fails a
\* bounded number of times, for an asset that stays in the group.
RequestServed ==
  \A a \in Assets : qty[a] > 0 ~> (qty[a] = 0 \/ a \notin Listed)

-----------------------------------------------------------------------------
(* The inductive invariants behind NoCollision, ConsumedBeforeEnqueued,    *)
(* RequestsConserved and ImplementsCableNumbers, for a tenant with one     *)
(* lock file and no write applied after it was given up.                   *)

OneLockFile == \A i, j \in Instances : LockOf[i] = LockOf[j]
NoLateWrites == "late" \notin Faults
PrefixesAreDistinct ==
  \A a, b \in Assets : PrefixOf[a] = PrefixOf[b] => a = b \/ PrefixOf[a] \in BadPrefixes

\* A process that runs holds the lock.
LockHeld == \A i \in Instances : pc[i] # "down" => lock[LockOf[i]] = i

\* What poll_once has read and not yet processed still has the counter Halo has,
\* or one that validate refuses.
Unprocessed(i) == IF pc[i] = "scan" THEN DOMAIN found[i] ELSE todo[i]
SnapshotsCurrent ==
  \A i \in Instances : \A p \in Unprocessed(i) :
     found[i][p].next \in {0, next[found[i][p].asset]}

\* No two entries of a batch, the one at work included, share a prefix.
BatchDistinct ==
  \A i \in Instances :
     /\ \A p, q \in todo[i] :
          PrefixOf[found[i][p].asset] = PrefixOf[found[i][q].asset] => p = q
     /\ cable[i] # NoCable =>
          \A p \in todo[i] : PrefixOf[found[i][p].asset] # PrefixOf[cable[i].asset]

\* Every entry of a batch, and the one at work, asks for something.
AtWork == {"reserve", "readback", "render", "enqueue", "report"}
WorkIsReal ==
  \A i \in Instances :
     /\ \A p \in todo[i] : found[i][p].qty > 0
     /\ pc[i] \in AtWork => cable[i] \in CableTypes /\ cable[i].qty > 0

\* Where process_asset is says what it has in hand and where the counter is.
PlanCurrent ==
  \A i \in Instances :
     /\ pc[i] \in {"down", "idle"} => found[i] = <<>>
     /\ pc[i] \in {"down", "idle", "scan"} => todo[i] = {}
     /\ pc[i] \notin AtWork => cable[i] = NoCable
     /\ pc[i] \in AtWork =>
          /\ Valid(cable[i])
          /\ pc[i] = "reserve" => next[cable[i].asset] = cable[i].next
          /\ pc[i] = "readback" =>
               next[cable[i].asset] \in {cable[i].next, next_counter_value(cable[i])}
          /\ pc[i] \in {"render", "enqueue"} =>
               next[cable[i].asset] = next_counter_value(cable[i])
          /\ pc[i] # "report" =>
               \A n \in DOMAIN jobs :
                  jobs[n].asset = cable[i].asset => jobs[n].last < cable[i].next

JobsOwned == \A n \in DOMAIN jobs : PrefixOf[jobs[n].asset] \notin BadPrefixes

IInv ==
  /\ LockHeld /\ late = {}
  /\ WorkIsReal /\ SnapshotsCurrent /\ BatchDistinct /\ PlanCurrent
  /\ JobsOwned /\ ConsumedBeforeEnqueued

\* What was read of a request, and not yet taken, is what Halo still holds of it:
\* nobody edits a request the service may hold (~EditsWhilePending).
RequestsCurrent ==
  \A i \in Instances :
     /\ \A p \in Unprocessed(i) :
          found[i][p].qty > 0 => qty[found[i][p].asset] = found[i][p].qty
     /\ pc[i] = "reserve" => qty[cable[i].asset] = cable[i].qty

\* Only a counter that never held a number holds none.
CountersStand == \A a \in Assets : next[a] = 0 => Counters[a] = 0

AskedInv == RequestsCurrent /\ CountersStand /\ RequestsConserved

\* A process that runs has one of the modes, one that is past validate may
\* reserve, and one past render may enqueue.
ModesHeld ==
  \A i \in Instances :
     /\ pc[i] # "down" => mode[i] \in Modes
     /\ pc[i] \in AtWork => mode[i] # "shadow"
     /\ pc[i] \in {"enqueue", "report"} => mode[i] # "dry"

\* The QUEUED line of a record and its counter are written together, or will be.
LinesAndCounters ==
  /\ \A a \in Assets : status[a].word = "QUEUED" => next[a] = status[a].last + 1
  /\ \A w \in late : w.next = w.line.last + 1

-----------------------------------------------------------------------------
(* What main.py and guards.py say of this code and the code does not do.   *)

\* main.py: process_asset "never raises: a bad asset must not stop the rest of the
\* batch": a poll that got as far as its batch ends with nothing left of it.
BadAssetStopsNothing ==
  [][\A i \in Instances : pc[i] # "scan" /\ pc'[i] = "idle" => todo[i] = {}]_vars

=============================================================================
