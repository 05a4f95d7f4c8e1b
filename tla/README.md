# Verification of the Halo cable label service

TLA+ modules, TLC runs and TLAPS proofs about the program in this repository: a
service that takes blocks of cable numbers off counters kept in Halo, renders the
labels, and hands them through a folder queue to a print agent on a Windows host,
whose results go back to Halo.

## 1. The system

| Part | State it keeps | Operations | Talks to |
|---|---|---|---|
| Poll loop (`src/main.py`) | a lock file, a flag for signals | `main`, `poll_once`, `process_asset`, `_report_enqueue_failure` | all of the service |
| Configuration (`config.py`) | none after start | `load_config`: reads the files once, refuses what cannot work | all of the service, the tools |
| Scan (`asset_source.py`, `halo_client.iter_assets`) | one poll's listing | a page at a time | Halo, over HTTP |
| Guards (`guards.py`) | none | veto of shared prefixes, cap per poll, cap per batch | |
| Allocator (`allocator.py`) | none of its own: Next Cable ID, Cables to Label and Last Label Run live in Halo | `validate`, `reserve` (one write, one read-back) | Halo |
| Renderer, layout, naming, status (`renderer.py`, `layout.py`, `naming.py`, `status.py`) | none | pure | |
| Enqueue (`enqueue.py`) and queue protocol (`protocol/queue.py`) | folders `.tmp`, `inbox`, `processing`, `done`, `failed`, `results` | `write_job` with retries, `move_job`, `write_result`, `sweep_stale_tmp` | the share |
| Print agent (`winagent/src/agent.py`, `ledger.py`, `backends.py`) | a SQLite ledger, the folders, the time of the last print | start-up recovery, `handle`, sweeps from two threads | the share, the driver |
| Reconciler (`reconcile.py`) | reported stalls, retry counts | `run`, `check_for_stalls`, `_remind` | the share, Halo |
| Tools (`tools/`) | none | `reprint_range`, `enqueue_test_job`; the others only read, report or copy files | Halo, the share |

What is hard in it:

- *Ambiguous calls.* The reserve write can fail, be ignored, be applied with its
  answer lost, or be applied after its caller gave up.
- *Interleaving.* People edit records and the group while it is listed page by page;
  a second service process may start; the agent sweeps from two threads.
- *Crashes.* Between the reserve write and the job, between the two renames of a
  move, between the ledger and the result.
- *Ordering.* Results and status lines of different blocks overwrite one field.
- *Limits.* A batch, a number of assets per poll, a page Halo caps by itself,
  retention of the ledger.
- *Rounding.* The size a block is drawn at is searched twice, before and after its
  numbers are gone; the agent cuts a strip where the renderer is supposed to have put
  the pages.

What makes each part correct: identifiers are never issued twice and requests never
lost (numbering); a job is printed at most once, claimed before it is printed, and
ends in a result (agent); a consumer never sees half a job and no job is in two
places (queue); what `validate` lets through is drawn, cut and printed as measured, every
cable once (labels); a line in Halo says what happened, every result is
written or, after enough refusals, given up, and nobody waits in silence (reconciler).

## 2. Modules

| Module | What it is |
|---|---|
| `CableNumbers` | the abstract promise: a counter per family, blocks taken off it once, numbers in hand, numbers on a job |
| `Allocator` | the poll loop, the scan, the guards, `reserve`, and the hand-over to the queue, with Halo and the people around it |
| `MC_Allocator` | constant values for TLC |
| `Allocator_proofs` | theorems about `Allocator` for every value of its constants: the numbers |
| `Numbering_proofs` | more of them: the requests, the rehearsal modes, the gaps, the refinement of `CableNumbers` |
| `JobQueue` | the abstract promise of the queue: a job is put in as a whole, and its writer is told the truth |
| `QueueProtocol` | `protocol/queue.py` and `enqueue.py` one call on one file at a time, with retries, deaths, hangs and sweeps |
| `MC_QueueProtocol` | constant values for TLC |
| `QueueProtocol_proofs` | theorems about `QueueProtocol` for every value of its constants |
| `PrintAgent` | the agent: start-up, sweeps of two threads, `handle`, the ledger, `move_job` file by file |
| `MC_PrintAgent` | constant values for TLC |
| `PrintAgent_proofs` | theorems about `PrintAgent` for every value of its constants: the ledger and the folders |
| `Delivery_proofs` | more of them: a job delivered once is not both printed and rejected, and no job ends in silence without a failure |
| `Reconciler` | `reconcile.py`: results to status lines, retries, the stall watchdog, with the agent at work and restarts |
| `MC_Reconciler` | constant values for TLC |
| `Reconciler_proofs` | theorems about `Reconciler` for every value of its constants |
| `Labels` | pure operators: accepted settings, identifiers, the font search, the strip, the pages, the status line |
| `LabelJob` | a request from `load_config` through `validate`, `reserve`, `render` and `enqueue` to the printer |
| `MC_LabelJob` | settings and requests for TLC |
| `LabelJob_proofs` | theorems about `Labels` and `LabelJob` for every setting and request: identifiers, sizes, the order of the labels |
| `Pages_proofs` | more of them: where a block whose numbers are taken can still fail, and where its ink goes |

The modules meet at the job. `Allocator` ends where a job is in the queue, in one step;
`QueueProtocol` is that step file by file; `PrintAgent` begins with files in the inbox
and ends with a result; `Reconciler` reads results and writes lines. `LabelJob` goes the
same way with the numbers and pixels the others leave out.

### Allocator

One action is one call that something can come between. `ReadPage` is a turn of
`iter_assets`; its last page also runs the two guards, which touch no shared state.
`TakeAsset` is `validate` and the shadow-mode return. `ReserveApplied`,
`ReserveIgnored` and `ReserveRaises` are the ways the write of `reserve` can end,
`ReadBack` and `ReadBackRaises` those of its verification. `Render`, `Enqueue`,
`EnqueueRaises`, `SidecarRefused` and `Report` are the rest of `process_asset`.
`Stop` is a crash anywhere, or a signal; `Start` takes the lock of
`SingleInstanceLock`. `Request`, `RepairCounter`, `JoinGroup` and `LeaveGroup` are
people; `ApplyLate` is Halo applying a write whose client has timed out.

Abstracted: a prefix is a model value, equal when the upper-cased strings are;
`BadPrefixes` are those `validate` refuses. A counter that is blank, not a number or
below one is 0. The layout check is a bound on the widest number. A status line is
its word and its range. The queue is the sequence of jobs written to it. `Fault`
bounds the failures of a behaviour; it removes none of their interleavings.
`asked` (what was requested) and `used` (how much of each bound is spent) are the
model's own.

### QueueProtocol

`WriteJob` and `WriteResult` are the calls of `write_job` and `write_result` in their
order: create, fill (write, flush, fsync), rename, sync the folder. `Begin` is
`build_sidecar`, which gives a job its id once for all attempts of `enqueue.write`;
`WriteStep` is a call that succeeds, `WriteRaises` one that raises: it did nothing, or
half of it, or, for a rename on a share, all of it (`"lost"`). `CleanUp` is the
best-effort removal and what the loop of `enqueue.write` does next. `WriterDies` is a
death after any call.

The agent is abridged to what it does to these files: `Notice` takes a job of the
listing and refuses or claims it, `Carry` moves a file out, `PrintJob` and `PrintRaises`
are the call of the backend, `Carried` is the end of a move, `MoveRaises` a move that
fails, with or without a claim, `AnswerStep` and `AnswerRaises` are `write_result`.
`AgentDies` leaves a claimed job to the next start, which answers that it failed, whether
the driver has it or not. Two threads, the rows of the ledger and its pruning are in
`PrintAgent`. `Collect` is the reconciler. `Age` is the clock passing
`_STALE_TMP_SECONDS` for a file; `Look` and `Sweep` are `sweep_stale_tmp`, which looks
at the age of a file and then removes what has its name. `JobQueue` is what remains when
the files are left out, and `IsQueue` is the refinement.

Abstracted: a file has no content, half of it or all of it. `puts`, `printed`, `heard`,
`spoiled` (a move, a print or the agent failed on the claimed job), `misled`, `hung` and
`faults` are the model's own.

### PrintAgent

A step is one file renamed, one row written, one submission to the driver, or one
result written; the process may die after any of them (`Crash`), and also with a
submission half done. The folders, the ledger and the results outlive it. `pc` says
where in `recover_orphans`, `sweep_inbox` or `handle` a thread is; the six moves of
`move_job` (`reject`, `take`, `shelve`, `drop`, `recover`, `stray`) are places of
their own, with `left` the files still to rename (`MoveFile`, `MoveEnds`,
`MoveFails`). `Open` is every check of `handle` up to the claim, in its order;
`Claim`, `PrintJob`, `PrintRaises`, `Mark`, `MarkFailed` and `Answer` follow it.
`Start`, `NextOrphan`, `OrphansDone`, `NextStray`, `StrayMoveFails` and
`EndPreflight` are `preflight`; `BeginSweep`, `NextJob` and `EndSweep` are
`_sweep_inbox` under its lock; `Observe` is the start of the watcher.

Abstracted: a job has one sidecar and one payload; a copy is described by what the
checks of `handle` can tell apart (`Contents`), and an invalid sidecar still names its
job. A row and the files of its job age together; `LateCopies` says whether a copy may
come once they are pruned. Job ids are numbers in the order of the file names. The
printer is `busy` until it has taken a job in; `job_interval_seconds` is taken to be
as long as that, so a thread that remembers a print (`recalls`) waits for `busy` to end; a
print that raises, and a new start, remember nothing. `HandOver` counts in `crowded` the
jobs given to a busy printer. A job enters the inbox in one step: `Inbox` lists payloads,
which `write_job` renames in last (`SidecarIsThere`). SQLite errors and the printer
visibility check are left out. `printed`, `arrivals` and `faults` are the model's own.

### Reconciler

`BeginPass` lists `results/`. Each result is read and logged (`ReadResult`), its line
written (`WriteOutcome`, `WriteRaises`) and its file deleted (`DeleteResult`,
`DeleteRaises`), or deleted unread (`ReadFails`), or left where it is because `_describe`
raises on a sidecar without its fields (`ReadRaises`); `EndResults` ends `run`.
`CheckForStalls` lists what waits, `Tell` is one job of that listing, `EndStalls` the
return to `poll_once`, early if `_describe` raises.

`Reserve` is `process_asset` up to the QUEUED line, and its ends without a job. Then
`enqueue.write` is at it (`Writing`), for the poll (`pc` is `"queue"`) or for
`reprint_range.py` (`Reprint`): it succeeds (`Written`), a rename is made and reported as
failed (`Misreport`, after which the retry puts the job again), or it gives up (`GiveUp`)
and may leave its sidecar in the inbox; `Report` is the FAILED line of
`_report_enqueue_failure`. `Plant` is a job put by other hands, whose sidecar is not one
of the service's.

`Take`, `Finish`, `Reject`, `RejectCopy`, `Stay` and `Tidy` are what the service can see of
the agent. `Finish` is `handle` from the print on, or `recover_orphans`: a job reported as
failed may have been taken by the driver in full (`Doubtful`). `RejectCopy` refuses the
second copy of a job as a replay, and its result replaces the one of the job. `Stay` is
a move that fails: a rejected job, one that could not be taken and an orphan are answered
all the same, while a failed move after the print ends `handle` without a result. A job
that was refused and could not be moved is refused again. `Clear` is a person who empties
`failed/`; `Quieten` is the clock passing `stalled_after_minutes`. `Crash` loses what
`Reconciler.__init__` sets up, and the write it is in; `Start` sets it up again.

Abstracted: a line is its word and its job. Results of a pass, and the jobs of the
listing, are taken in any order: their names are random job ids. Writes and moves file by
file are in `QueueProtocol` and `PrintAgent`; that the agent refuses a second copy is
`PrintedAtMostOnce` there. The reminder about `failed/` only logs and is left out.
`printed`, `misled`, `interrupted` (reported as failed although the driver had it),
`stuck`, `unheard`, `accepted`, `refusals` and `faults` are the model's own.

### Labels and LabelJob

Lengths are hundredths of an inch and pixels are whole, with the rounding of the code:
`px` is `int(round(...))` with ties to even, `fit_font_px` the largest size that fits,
`StripHeight`, `InkTop` and `page_boxes` where the renderer draws and the agent cuts.
Identifiers are their digits. A text is as wide and as high as FreeType measures the
bundled font: advances per mille of the size, and a pixel more for digits with bowls
from 40 pixels on. `Accepted` is what `load_config` lets through.

In `LabelJob` an action is one function: `LoadConfig` or `Refuse`, `Validate` or
`NotValid`, `Reserve`, `Render` or `RenderRaises`, `Enqueue` or `SidecarRefused`,
`AgentRejects`, `PrintPages` or `PrintRaises`. A poll takes a request batch by batch;
`PlanRange` is where `reprint_range.py` and `enqueue_test_job.py` enter, which check less
(no positive counter, no prefix pattern, any number of copies).

Abstracted: a prefix is its length, in letters as wide as an L, and whether all of it is
letters and digits; a colour and type are their length. Nothing fails but what the
values make fail.

## 3. Runs

| Run | Question | Result |
|---|---|---|
| `alloc` | Two processes, one lock file, two families (one with an unusable counter), pages of one record, a batch of two, requests up to three cables, two failures of any kind except the late write, two changes of the group. | Types; `NoCollision`; `ConsumedBeforeEnqueued`; `RequestsConserved`; `RehearsalsConsumeNothing`; `GapsHaveACause`: a record reads QUEUED without a job only after a failure, a late write, a DRY_RUN or a job the schema refuses, one record at a time; and every behaviour is one of `CableNumbers` |
| `alloc_live` | One process, every kind of failure including the late write, edits of a pending request, one asset per poll, an asset whose job the schema refuses. | `RequestServed`: every request is served while its record stays in the group |
| `alloc_bad_asset` | Does a bad asset leave the rest of the batch alone (`main.py`)? | No: the sidecar check raises what nobody catches |
| `queue` | One job, two attempts, two failures of any kind: calls that raise, half-written files, renames reported as failed, leftovers that stay, moves and prints that fail, deaths of either half, calls that hang for an hour. | Types; `NothingIsHalf`; `SidecarIsThere`; `GivenUpNotQueued`; `ReplaysAreMisled`; `SweepSparesWrites`; every behaviour is one of `JobQueue`; `WrittenIsPrinted`: a job of which `enqueue.write` said that it is queued is printed, unless a move, the print or the agent failed with the claim in hand; `DebrisGoes` |
| `queue_given_up` | Is no job file written when a write is given up (`main.py`)? | No: the sidecar is in the inbox when only the second rename fails, and the watchdog counts it as a waiting job |
| `agent` | Two jobs, one delivered twice, copies that are damaged or lost their sidecar, two threads, two failures of any kind. | Types; `PrintedAtMostOnce`; `PrintedNotRejected`; `ClaimsAreHeld`: no row stays claimed unless a thread or the next start sees to it; `OneFailureCrowdsOneJob`: a job sent into a busy printer is paid for by a failure; `SilenceIsPaidFor`: so is a job that ends without a result; `StartsClean`: the first sweep finds `processing/` empty; `InboxDrains` |
| `agent_pruned` | Is a job never printed twice (`winagent/README.md`)? | Not when its row is pruned while a copy waits in the inbox |
| `reconcile` | A block, and a reprint of a record that can never be written or a job put by other hands whose sidecar lacks the fields of a job; two refusals of a line before it is given up, one failure of any kind. | Types; `LinesAreTrue`: SENT only of what the driver took in full, FAILED of such a job only if its print or its agent was cut off or a rename misreported; `OutcomeStands`: STALLED replaces no outcome unless files of the job were left in the queue; `NotGivenUpEarly`; `ResultsDrain`: the result of a foreign sidecar stays for ever, and holds nobody up; `ToldUnlessUnheard` |
| `reconcile_silent` | Is every waiting asset told of a stall (`README.md`)? | No: a STALLED line whose write fails once is not tried again |
| `labels` | The shipped settings with one thing changed at a time (13 accepted, 9 refused), requests of the service and the tools, from no label to two batches. | Types; `SizeAsValidated`; `TakenIsPrinted`: a block whose numbers are taken is printed, or the settings are among those it names; `InkOnItsPage`; `EndsAreIdentical`; `EveryCableOnce`; `StatusKeepsRange` |
| `labels_past_limit` | Does the agent refuse a strip past Pillow's limit of about 400 cables (`guards.py`, `README.md`)? A reprint of 450 with the shipped settings. | No: at `MAX_IMAGE_PIXELS` Pillow only warns; it refuses past twice that |
| `labels_unmeasured` | Does `configured: false` block anything that could reach media (`config.py`)? | No: with `SHADOW_MODE` the settings load, and the tools, which do not look at it, print |

*Bounds.* A batch of two and requests of three give a full batch and a remainder.
Two families and one record per page put a page boundary between any two reads, and
two group changes can move a record across it and back. Two failures are enough for
a failure during the recovery from another. Two requests let a family be asked for
again after its block. Deadlock is not checked: the bounds on people and failures
run out, and the liveness run asks the same question in a stronger form.

For the queue, jobs share nothing but the agent, which handles one at a time, so one job
meets every order of its own calls; the proofs are for any number. Two attempts put a
retry on top of an attempt of which the agent has already taken a part, and two failures
end a write, or make a retry meet a failure of the agent. Deadlock is not checked: attempts and failures
run out, and a job that is printed and answered is over.

For the agent, a second delivery makes replays, two jobs make the threads meet on
different jobs, and two failures put one into the recovery from another. The contents of
a copy are one for each way in which `handle` ends before the claim: good, cut short (refused
with a result), without a sidecar (refused without one). Deadlock is checked there: the main thread never stops polling.

For the reconciler, a record that is never writable puts refusals next to any other
failure without spending it, and two refusals tell the last from the one before. The
reprint has no QUEUED line and RESENT for an outcome; instead of it other hands may put a
foreign job, which spends no failure either. One failure is enough for each way in which a
line is lost; the four safety properties are proved for any number. Deadlock is
checked: the loop polls for ever.

For the labels, `BATCH_SIZE` is the real 250, and `MaxPixels` the real limit of Pillow
(twice `MAX_IMAGE_PIXELS`). Requests of 1, 4 and 251 cables give one identifier, a block whose
identifiers differ in the height of their digits, and a batch with a remainder; the counters
put a block below, at and across the padding (9800 to 10050). The comment in
`guards.py` and the repository's README put the limit at `MAX_IMAGE_PIXELS` itself, which
`TakenIsPrinted` does not use: four labels per cable make 135 million pixels of a full batch,
between the two, and are printed. `labels_past_limit` is that disagreement. The settings include 203,
300 and 600 dpi, where halves round differently, one line and three, zones centred and
not, and the loosest pattern. Deadlock is not checked: a request ends.

*Fairness.* `WF(Step(i))`: the `while _running` loop of `main` goes on for as long as
the process lives, and each call in it returns or raises, every HTTP request having a
time-out. `WF(Start(i))`: the container is restarted by its supervisor
(`docker-compose.yml`, `restart: unless-stopped`). Nothing is assumed of people, of
late writes or of failures. In `QueueProtocol`: a writer that has begun goes on, the
agent sweeps the inbox (its poll every `poll_seconds`), time passes, and a sweep that has
begun goes on. That the halves
start again is not assumed but is the hypothesis of `DebrisGoes` (`StartsAgain`): a half
that never restarts never sweeps. In `PrintAgent`: a thread that has begun goes on
(`Work`, `Preflight`; the backend is taken to return), the main thread polls every
`poll_seconds` (`BeginSweep(Main)`), the printer ends with a job (`Settle`), and the
service, which `install-service.ps1` registers with NSSM, is started again after it
exits (`Start`). The watcher's events may never come. In `Reconciler`: the loop goes on (`Work`), the
service is started again, and time passes (`Quieten`). Nothing is assumed of the agent,
which may never answer.

*What `alloc` leaves to others.* A reserve write that Halo applies after the client
gave up (`"late"`) can set a counter back; that it is excluded is an assumption on
Halo, named `NoLateWrites` in the proofs. Two lock files (two containers with a `/tmp`
each) are what the README's "one instance" rule forbids; `OneLockFile` names it. An
edit of a request that the service holds (`EditsWhilePending`) is overwritten by the
absolute write of the remainder, so `RequestsConserved` is checked without it.

## 4. Proofs

`Allocator_proofs` proves, for any set of families, processes, prefixes, batch and
page size, bounds and failures that satisfy `ConstantsAssumption`:

- `TypeCorrect`: `Spec => []TypeOK`. Inductive together with `WorkIsReal` (what is in
  a batch asks for at least one cable), which the arithmetic of a block needs.
- `ConsumedFirst`: under `OneLockFile` and `NoLateWrites`,
  `Spec => []ConsumedBeforeEnqueued`. `IInv` adds why: whoever runs has the lock
  (`LockHeld`), so one process at a time works; what it has read and not processed is
  still what Halo holds (`SnapshotsCurrent`), because only it moves counters that hold
  a number; no two entries of a batch share a prefix (`BatchDistinct`), so its own
  writes do not make its other entries stale; and while it has a block in hand the
  counter is past it and no job reaches into it (`PlanCurrent`). The proof has one step
  per action; `QuietStep`, `WorkStep` and `DoneStep` carry what the actions have in
  common.
- `NeverReissued`: when moreover `PrefixesAreDistinct`, `Spec => []NoCollision`. Only
  `Enqueue` writes a job, and by `IInv` no job of its family reaches into its block.

`Numbering_proofs` goes on from that invariant:

- `RequestsKept`: under `OneLockFile`, `NoLateWrites` and `~EditsWhilePending`,
  `Spec => []RequestsConserved`. `AskedInv` adds that what was read of a request and not
  yet taken is what Halo still holds of it (`RequestsCurrent`: the absolute remainder
  that `reserve` writes is then right) and that a counter that holds no number never held
  one (`CountersStand`).
- `RehearsalsAreFree`: under `NoLateWrites`, `Spec => RehearsalsConsumeNothing`, with
  `ModesHeld`: no process past `validate` is in `SHADOW_MODE`, none past `render` in
  `DRY_RUN`. Two lock files make no difference to it.
- `GapsAreExplained`: `Spec => GapsHaveACause`, for any number of processes and lock
  files. A step changes the line of one record, or takes one record out of the hands of
  one process (`OnlyOneRecord`, `HisStep`), so it gives up that record at most. Beyond
  types it needs `LinesAndCounters`: a QUEUED line stands only
  beside the counter it was written with, so a read-back that finds another counter
  does not leave the line of its block behind (`ReadBackAccounted`).
- `NumbersAreTakenOnce`: under `OneLockFile` and `NoLateWrites`,
  `Spec => ImplementsCableNumbers`. A write of `reserve` that is applied is `Take`,
  `Enqueue` is `Issue`, whatever leaves a block without a job is `GiveUp`, a person's
  `RepairCounter` is `Repair`, and all else stutters. That one process steps at a
  time follows from `LockHeld`.

The assumptions are about the deployment and the data: which of them a theorem names is
what it needs. Two families with one prefix are caught by the guard only when both
are pending in one poll, so only `NeverReissued` needs `PrefixesAreDistinct`.

`QueueProtocol_proofs` proves, for any jobs, attempts and failures that satisfy
`ConstantsAssumption`:

- `TypeCorrect`: `Spec => []TypeOK`, with `Counted`: an attempt puts its payload at most
  once, and a writer that is past the rename has put it.
- `NoHalves`, `SidecarFirst`, `GivenUpIsLost`, `NoReplays`, `SweepIsSafe`: the five safety
  invariants of the run. They are projections of one `IInv`. `Filled`: a file is whole, or
  was swept, when it is renamed. `Paired`: a payload that is not claimed has its sidecar,
  and what the agent handles and answers for is in its ledger. `Single`: unless a rename
  was misreported, what the agent has claimed leaves the inbox for good, so nothing is
  refused as a replay. `Unswept`: while its writer has not hung, no file of it is old, and
  none is about to be removed.
- `FilesAreQueue`: `Spec => IsQueue`. A rename of a payload is `Put`, a payload the
  agent carries away is `Take`, the last call is `Confirm`, a cleanup
  without attempts left is `GiveUp`, and all else stutters.

`PrintAgent_proofs` proves, for any jobs, copies, deliveries and failures that satisfy
`ConstantsAssumption`:

- `TypeCorrect`: `Spec => []TypeOK`, with `VerdictGiven` (past the claim a thread
  knows the status it will write), which is why no result lacks one.
- `NeverPrintedTwice`: when no copy comes after its row was pruned
  (`LateCopies = FALSE`), `Spec => []PrintedAtMostOnce`. `IInv` adds why: a job past
  the claim and short of the print has a row, was never printed, and is in the hands
  of one thread (`ClearedIsFresh`); a job that was printed and has no row any more is
  out of reach of every thread (`PrunedIsOver`); and rows are pruned only while the
  main thread is alone (`AloneAtStart`). The lock around the sweeps is not used: as
  the comment in `Agent.__init__` says, the ledger alone refuses a double claim. What
  the lock is needed for is `PrintedNotRejected`, in `Delivery_proofs`.
- `CrowdingIsPaidFor`: `Spec => []OneFailureCrowdsOneJob`. `Crowding` adds that a busy
  printer of which nobody knows is a failure not used yet.
- `ClaimsHeld` and `SweepsFromClean`: `Spec => []ClaimsAreHeld` and `Spec => StartsClean`.
  `HeldInv` carries both: main is alone while it recovers (`AloneAtStart`), and once the
  orphans are through, whatever is left in `processing/` is on the list of strays
  (`StraysKnown`). A claim is followed through `handle` step by step (`Onward`,
  `ThreadGoesOn`), so that it is never dropped between two places.

`Delivery_proofs` proves `NeverPrintedAndRejected`: when `LateCopies = FALSE`,
`Spec => []PrintedNotRejected`. `DeliveryInv` is three things. One thread at a time
sweeps, and a job leaves its list when it is taken up (`SweepsAlone`, the lock of
`_sweeping`). The agent knows nothing of a job that never came
(`NothingBeforeArrival`). A job that came once (`OnceInv`) lies in the inbox up to the
claim, is printed after its payload has left, and is refused only for what stays true:
a row, a damaged copy, or a copy that is gone. The order of `handle` (claim, take, print,
mark, answer) and that of `move_job` are used in every case.

It also proves `SilencePaid`: `Spec => []SilenceIsPaidFor`, with or without late copies.
The jobs that are over and have no result are no more than the failures so far.
Only the thread that handles a job brings it to an end (`OnlyItsOwn`), one thread at a
time is past the print (`OneTells`), and what it takes up is still claimed
(`ClaimInHand`), so a death leaves one job at most (`DeathSilencesOne`), and so does a
move or a result that fails; what is still claimed, the next start answers for.

`Reconciler_proofs` proves, for any jobs, records, failures and number of attempts that
satisfy `ConstantsAssumption`:

- `TypeCorrect`: `Spec => []TypeOK`.
- `LinesNeverLie`: `Spec => []LinesAreTrue`. `TrueInv` adds why: while a job may still
  be printed for the first time it has no result, no outcome on a record and is not in
  hand (`OpenIsUnsettled`), a result says what happened (`ResultsAreTrue`), and so does
  the line being written (`WordIsTrue`); a write puts its job once unless it is misled,
  and one that is given up put nothing (`WritesAreSingle`); what is left of a pass are
  results that exist (`PassIsCurrent`). What is excused is named in the property: a job
  whose print or agent was cut off, of which the agent says itself that it cannot know,
  and a job with a misreported rename.
- `OutcomesAreKept`: `Spec => OutcomeStands`. `TellIsCurrent` carries it: the listing
  of waiting jobs is made after the pass over the results, and no outcome is written
  while it is gone through, although the agent may end those jobs meanwhile. Jobs with
  files left in the queue are excluded (`Astray`); for the sidecar of a write that was
  given up the exclusion is needed, as such a sidecar (`queue_given_up`) counts as waiting.
- `GivesUpLast`: `Spec => NotGivenUpEarly`. The counter in memory never exceeds the
  refusals (`AttemptsAreReal`), and a line about to be dropped was heard or refused
  often enough (`WordIsSettled`).

`LabelJob_proofs` proves, for any settings, requests, batch size and limit of pixels that
satisfy `ConstantsAssumption` (which says nothing but their types; what `load_config`
refuses is `Accepted`, in the model):

- `TypeCorrect`: `Spec => []TypeOK`. The invariant is `Control`: where a request is in its
  way says what has been established about it (`Established`), and a block in hand has
  its identifiers, its plan and the size measured for it (`BlockInHand`).
- `EndsAgree`: `Spec => []EndsAreIdentical`. Labels of one cable have one text
  (`SameCable`), and the place of a line is rounded on its page before the page is put
  on the strip; nothing is assumed of the rounding but that it gives a whole number.
- `RangeIsKept`: `Spec => []StatusKeepsRange`, from the least status length that
  `load_config` accepts. The attempt showed that the property leaned on the padding
  and the separator of the settings that TLC was given; both are now in its hypothesis,
  as `load_config` bounds neither.
- `DrawnAsMeasured`: under `NineDigits`, `Spec => []SizeAsValidated`. A greater number
  never has fewer digits (`NotWider`), so the widest identifier of a block has as many
  as the last (`WidestIsLong`), and texts of one width and height fit at one size
  (`AlikeFitAlike`). `Counted` says that a request is never worked off further than it
  goes.
- `OneCableEach`: under `NineDigits`, `Spec => []EveryCableOnce`. No two numbers are
  written alike, whatever the padding (`DigitsDiffer`); `PrintedInOrder` says that the
  labels printed so far show numbers that grow, each on as many labels as the plan has
  it, and that a request from an asset goes on past them, whatever became of the
  blocks between.
- `CutAndNamedAlways`: `page_boxes` never refuses a strip of `render`, and `parse_stem` no
  name of a block from an asset unless the pattern is a looser one.

`Pages_proofs` goes on from that invariant:

- `TakenReachesPrinter`: under `NineDigits`, `Spec => []TakenIsPrinted`. What is left to
  fail once the numbers are gone is a question of the settings alone, and the property
  says of which. `Measured` keeps what `validate` established: a size that fits the last
  identifier, and a count within `BATCH_SIZE`. `render` finds a size too: the widest
  identifier is as wide as the last (`WidestLikeLast`), a smaller size makes no text
  wider (`WidthGrows`), and below 40 pixels none is higher for its digits
  (`HeightGrows`), so at the smallest size the widest fits if anything did
  (`WidestFits`). A name is no longer than that of the last number of the request
  (`SidecarFails`), a strip no larger than that of a full batch (`PixelsFail`).
- `InkStaysOnItsPage`: under `NineDigits`, `Spec => [](Roomy => InkOnItsPage)`. Pages,
  zone, margins, gaps, shares, the place of a line and half of what a text leaves of
  its line are each rounded, and the errors could add up. They do not where the
  settings leave a margin of two pixels, a line two pixels high and no negative gap
  (`Roomy`): a zone sticks out by one pixel at most (`TwoParts`, `ZoneOnPage`,
  `ZoneOnStrip`), the lines have room for text that fits, its bowls and the roundings of
  the shares but for three halves of a pixel above and below (`RoomForLines`), and the
  margin takes that up (`LinePlace`, `LineOnPage`, `TextOnStrip`). Minus a half rounds to
  zero (`RoundFromHalf`), which the bound above allows.

`Roomy` is not for the proof's convenience: with a margin of nothing, two lines without a
gap and a zone as high as the label, at 96 dpi, TLC finds ink a row above its page. The
shipped settings leave nine pixels at 300 dpi; `load_config` bounds neither the
margin nor the gap from below.

`NineDigits` (no request goes past 10^9) is the range on which `Width` is defined.

Only model-checked is liveness, which is out of the prover's reach: `RequestServed`,
`InboxDrains`, `WrittenIsPrinted`, `DebrisGoes`, `ResultsDrain`, `ToldUnlessUnheard`. Every
other property of a passing run is stated by a theorem.

## 5. Not modelled, and what is left

Not modelled, because it keeps no state of the protocol: reading YAML files and the
environment, authentication and HTTP, pixels inside a glyph, checksums, the calls into
the Windows driver beyond their outcomes, `BradyBackend` (not implemented), the SQLite
errors of the ledger, `ensure_queue`, the events of the file watcher (the thread they
start is modelled), and the tools that only read or copy (`check_halo`, `check_config`,
`check_prefixes`, `import_share_config`, `package_agent`, `render_test_block`, whose
import of `block_font_size` no longer exists in `layout.py`).

Behaviour worth knowing that no property states, each visible in a model:

- A `ReserveError` is documented as "nothing was consumed" (`errors.py`); the write may
  have been applied and its answer lost (`ReserveRaises` with `"lost"`).
- `_report_enqueue_failure` calls a queue that cannot be written "the one failure that
  leaves no trace anywhere a technician looks" (`main.py:197-202`). A failed read-back,
  a `LayoutError` and a crash leave a record that reads QUEUED without a job too, and
  nothing reports them; `GapsHaveACause` lists the causes.
- A replay of a printed job is refused, and the refusal overwrites its result and then
  its line, FAILED over SENT (`RejectCopy`); `ReplaysAreMisled` says when the retries of
  `enqueue.write` make one.
- A print cut off after the driver has the whole job reads FAILED (`Doubtful`); the agent
  cannot tell, and says so (`agent.py:193-195`).
- A sidecar without the fields of a job, put by other hands, is echoed by the agent that
  refuses it; `_describe` raises `KeyError` on it in every poll, so its result is never
  deleted (`ReadRaises`). In `inbox/` such a sidecar ends every pass of the watchdog, and
  the jobs behind it in the listing are not reported as stalled (`EndStalls`).
- A job that was claimed and then not moved, not printed or interrupted is over without a
  label, and its line says so; `WrittenIsPrinted` names no other way.
- A writer that hung for an hour can lose a file to a sweep that looked at it before
  (`Look`, `Sweep`); its rename then raises and it tries again.
- The gap between two jobs is forgotten by a restart and by a print that raises;
  `OneFailureCrowdsOneJob` bounds what that costs.
- A sidecar that `queue_given_up` leaves in the inbox waits there for ever, and counts as
  a waiting job of its record for the stall watchdog: STALLED replaces the FAILED line of
  a job that was never queued. `OutcomeStands` leaves out the jobs in `strays`, and fails
  with them.
- The remainder that `apply_batch_cap` leaves is "simply picked up on a later poll"
  (`guards.py:60-61`) only if what is before it in the listing gets out of the way:
  `MAX_ASSETS_PER_POLL` records that `validate` refuses, at the front of the group, take
  every place of every poll until a person repairs them. `RequestServed` has no such record.
- At 600 dpi `validate` and `render` can disagree by a pixel of height, because they
  measure different identifiers of a block (`SameHeight`); if the smallest font is 40
  pixels or more, the numbers can then be spent without a job. A full batch at 600 dpi is
  larger than Pillow opens.
- A prefix pattern looser than the shipped one admits names that the agent's stem does
  not; `load_config` does not refuse a negative margin or gap, with which no setting of
  the run is made (the theorems hold for them too, but for `InkStaysOnItsPage`).

Left: the composition of the four protocol modules into one, with liveness from a request
to its line, which TLC would have to carry.
