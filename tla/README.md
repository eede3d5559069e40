# Verification of the video upload platform

TLA+ models of the platform under `src/`: a NestJS/GraphQL backend (one or two
replicas over one SQLite file on a shared volume), an FFmpeg worker that polls
the backend for jobs, and a React frontend. The models are checked by TLC on
small instances and parts of them are proved with TLAPS for all instances.
`PROJECT.json` maps every definition to the lines it stands for.

## 1. Inventory of the system

| Part | Code | State it keeps | Operations |
| --- | --- | --- | --- |
| Metadata store | `shared/src/metadata-store.ts` | tables `upload_records`, `renditions` | createUpload, updateUpload, claimNext, resetStuckProcessing, retryProcessing, setRenditions; getUpload, listUploads, getRenditions |
| Write path | same, 144-262 | the RESERVED lock of SQLite | BEGIN IMMEDIATE, busy_timeout, runWithBusyRetry |
| Uploads volume | `shared/src/storage.ts` and the `fs` calls of its users | originals, staging directories, renditions, thumbnails | stream, unlink, mkdir, rm, rename, stat, read |
| Upload intake | `backend/src/upload/upload.service.ts`, `mp4-validation.ts`, `ffprobe-mp4-probe.ts` | per request: the file streamed so far | handleUpload: streamToDisk, validate, createUpload, safeUnlink |
| GraphQL mutations | `backend/src/upload/upload.resolver.ts` | none but the database | uploadVideo, claimNext, updateProcessingResult, retryProcessing |
| Queries | same, `video-query.service.ts` | none | videos, videoStatus (one read), videoMetadata (two reads) |
| File serving | `backend/src/files/*` | none | range parsing, stat, stream |
| Health | `backend/src/health/*` | probe files on the volume | live; ready: mkdir, writeFile, unlink against a timer |
| Worker | `processing/src/worker.ts`, `index.ts` | the job in hand (local variables) | poll loop, processOne, processJob |
| Calls | `processing/src/backend-client.ts` | requests in flight | claimNext, updateProcessingResult over `fetch`, no timeout, no retry |
| FFmpeg | `processing/src/ffmpeg.ts` | output files | transcodeRendition, extractThumbnail, probeDimensions |
| Rendition plan | `processing/src/rendition-plan.ts` | none (pure) | planRenditions |
| Frontend | `frontend/src/*` | Apollo cache, opened row, the browser's HTTP cache | upload form, polled list, detail read once, player |
| Wiring, deployment | `backend/src/app.module.ts`, `deployment/*` | - | one worker (Recreate), 1-2 replicas, one RWX volume |

**How they interact.** The worker and the backend share the volume; only the
backend opens the database. The `status` column is the job queue: the worker
sends `claimNext`, works on files whose paths are functions of the upload id, and
sends `updateProcessingResult`. A user uploads through one replica and may ask for
a retry through any. The browser polls the list, opens the detail of COMPLETED rows
and takes files through the `/files` route. Each replica is one thread: a SQLite
call blocks its other requests, its timers and its health probes.

**What is hard.** Replicas interleave between transactions; a resolver that makes
two transactions is not atomic; a call may be lost before or after it took
effect, is refused while the backend is down, and a request whose caller has gone
may still be served; the worker and the replicas are killed and restarted at any
point, the worker with nothing remembered; two attempts at one upload use the same directories; a write may give
up with SQLITE_BUSY; what a browser has cached outlives what it was read from; a
mount may hang, fill or turn read-only.

**What makes it correct.**

- *Store*: a claim is exclusive and takes the oldest waiting row; the columns of a
  row agree with its status.
- *Volume and worker*: nothing unfinished at a final path; COMPLETED means that
  the whole output set is in place; every job that is started is reported.
- *Intake*: a record exists only for a complete, accepted original.
- *Write path*: a mutation takes effect at most once and within its call; one that
  returned has, one that was refused has not, and only a failed COMMIT or a dead process
  leaves it open which.
- *Health*: "ready" means that the volume took a write just now; the answer comes.
- *Plan*: nothing is upscaled, doubled or impossible to encode, and there is always
  something to play.
- *Views*: the two reads of the detail answer as one; what is shown or played goes
  with the database and the volume.
- *Together*: at most one attempt at an upload at a time; the lifecycle
  `PENDING -> PROCESSING -> COMPLETED | FAILED` with retries; nothing waits for ever,
  or is in progress for ever without a failure that nobody could report.

The hazards of the code, each with its line and the properties that cover it, are
listed in `PROJECT.json`.

## 2. The modules

| Module | Models | Composes |
| --- | --- | --- |
| `SharedTypes` | ids, statuses, output slots, the kinds of failure | |
| `MetadataStore` | the two tables and the six mutations | `SharedTypes` |
| `VideoStorage` | the uploads volume | `SharedTypes` |
| `UploadIntake` | `UploadService.handleUpload` | `MetadataStore`, `VideoStorage` |
| `ProcessingWorker` | the poll loop and `processJob`, one action per await | `VideoStorage` |
| `BackendApi` | the mutations as served by replicas, and the calls in flight | `MetadataStore` |
| `VideoPlatform` | the platform: `Init`, `Next`, `Spec` | the three above |
| `JobLifecycle` | the abstract promise about an upload | |
| `PlatformProperties` | properties, refinement mapping, fairness | `VideoPlatform`, `JobLifecycle` |
| `AttemptHistory` | history of the attempts that ended unreported; properties that need it | `PlatformProperties` |
| `MCPlatform` | values for TLC | `PlatformProperties`, `RenditionPlan` |
| `MCAttemptHistory` | values for TLC | `AttemptHistory` |
| `PlatformProofs` | proofs: types, rows, calls, exclusivity | `PlatformProperties` |
| `FileProofs` | proofs: originals and final files | `PlatformProofs` |
| `PublishProofs` | proofs: what COMPLETED says about the files | `FileProofs` |
| `LifecycleProofs` | proofs: refinement of `JobLifecycle` and its promise, error column, rendition rows, no record stranded unless in silence | `AttemptHistory`, `PublishProofs` |
| `VideoViews` | the list, the detail and the files as a browser sees them, and the queries | `VideoPlatform` |
| `ViewProperties` | properties and fairness of the views | `VideoViews` |
| `MCVideoViews` | values for TLC | `ViewProperties` |
| `ViewProofs` | proofs about the views | `ViewProperties`, `PublishProofs` |
| `RenditionPlan` | `planRenditions`, and what its result should be | |
| `PlanProofs` | proofs about the plan | `RenditionPlan` |
| `ReplicaTypes` | replicas and the null value | |
| `AtomicWrites` | the abstract promise of the write path | |
| `WritePath` | `runWrite`: transactions, locks, attempts; plain reads | `ReplicaTypes` |
| `HealthProbe` | the writable probe against its timer | `ReplicaTypes` |
| `BackendReplica` | replicas as threads that do both; properties and fairness | the two above, `AtomicWrites` |
| `MCBackendReplica` | values for TLC | `BackendReplica` |
| `ReplicaProofs` | proofs about the replicas | `BackendReplica` |
| `RangeHeader` | the two parsers of the HTTP Range header | |
| `FileServing` | both handlers of the `/files` route, over a file that changes | `RangeHeader` |
| `MCFileServing` | values for TLC | `FileServing` |
| `ServingProofs` | proofs about the `/files` route | `FileServing` |

**State and code.**

- A row is one function per column: `status[id]` (`NO_ROW` before the insert),
  `uploadedAt`, `processingAge`, `thumbnailPath`, `error`, `renditionRows`. A path
  or a message is TRUE when set. `processingAge` is the age of
  `processing_started_at` in clock ticks, NULL when the column is; it stops at
  `StuckTimeout`, the only value it is compared with.
- A mutation of the store is one step, because it is one BEGIN IMMEDIATE
  transaction. A write that gives up is the fault `busy` at its caller.
- A resolver runs synchronously in its process, so a replica serves one call at a
  time and the only interleaving point of `updateProcessingResult` is between its
  two transactions: `handler[r]` holds the report that replica `r` is inside of.
- A crash of a replica (`CrashBackend`) ends that report and the uploads it receives.
  Its other callers see the crash as a rejected fetch (`CallFails`), whenever it comes:
  a claim whose answer was committed and not delivered, a request that was not served,
  a call made while the backend is down. Only a caller whose report is between its two
  transactions sees it after `CrashBackend` (`InService`).
- `requests` are calls sent and not served, `replies[w]` the answer under way.
  A worker that gives up or dies hangs up: an unserved request vanishes or, with
  the fault `lateRequest`, is served without a caller; an answer has no taker.
- `unreported` (`AttemptHistory`, auxiliary) are the uploads whose last attempt ended
  with nobody left to report it: the worker died, the answer to its claim was lost, or
  its FAILED report was not recorded. The program logs at best; the variable makes it
  possible to say that these are the only ways to strand a record.
- `pc[w]` is the await the worker stands at. `produce`/`producing` repeat for
  renditions `1..Plan[id]` and the thumbnail (slot 0), `move` likewise, as the two
  loops of `processJob` do. Any await of the try block may throw into the catch
  block (`StepThrows`), because of a fault or because the file is not there; an
  exception of the COMPLETED report goes there too, one of the other two calls to
  the poll loop (`CallThrows`).
- Files are `absent`, `partial` or `full`. ffmpeg makes its output partial when it
  opens it and full when it ends. With the fault `noFrame` a thumbnail run ends well
  without a file, as ffmpeg does when the clip is shorter than the second asked for.
- An upload whose replica died is `lost`, one whose request failed is `failed`: only
  the second had its catch blocks run.
- mkdir after rm is one step with it. The state between them (nothing there, then
  an exception or a crash) is reached through the next step failing.

- In `FileServing` `phase[r]` is where the handler of reader `r`'s request stands:
  `stat` (awaited), `open` (the stream is created, the file not opened), `stream`.
  What follows stat is synchronous and one step: `StatSucceeds` parses the header
  against the size that stat gave and decides the status. `found` and `opened` are
  the file at these two moments; its `version` counts the worker's changes. A
  header is what the regular expression of both parsers makes of it.
- Both handlers are modelled because both have tests; the application registers
  `FilesController` alone (the key `controllers` is given twice in `app.module.ts`).

- In `BackendReplica` `thread[r]` is what the one thread of replica `r` is inside of:
  a write (`begin`, `body`, `commit`, `committed`, `backoff`), a read, or nothing, and only then
  may callbacks of probes run. Locks are those of SQLite's rollback journal, the mode
  that the store chooses for NFS: one writer between BEGIN IMMEDIATE and COMMIT, a
  COMMIT that first keeps new readers out and then waits for the old ones. A write is
  a name; the database is the sequence of the writes it consists of, and `draft[r]`
  is what the open transaction has made of it, so that lost, repeated and stale
  writes differ. `TimedOut` is a `busy_timeout` that has passed: it may be at any time
  that the lock is held by another. `Commit` is SQLite's commit point (the journal is
  removed) and `ReturnWrite` the return of `runWrite`: between them the call may throw
  an I/O error (`CommitFails`) or the process die with the write stored. In
  `VideoPlatform`, where a mutation is one step, that is a mutation that took effect
  and whose answer is lost.
- In `HealthProbe` `fsCall[p]` is the call that `probeWritable` awaits, `result[p]`
  how far the thread pool is with it, `answer[p]` what the race has decided. The
  timer is armed while the answer is pending; firing does not stop the probe.
- In `VideoViews` `shown` and `detail` are the Apollo cache (`cache-and-network` with
  a poll for the list, the default `cache-first` for the detail), `pieces` the HTTP
  cache: for each file nothing, a 404, the file published last or one that has been
  replaced since. A 404 is kept as well, because Nest sets the Cache-Control header
  before the handler runs; `Evict` is the end of its hour, or a full cache. `Reload`
  empties the Apollo cache and not the HTTP cache. `query[id].at` is the replica that stands between the two
  reads of `videoMetadata`: it serves nothing else, the others do (`PlatformStep`
  keeps the platform's steps off its thread). `kept` and `held` are
  auxiliary and only observe.
- In `RenditionPlan` the loop over the ladder is four applications of `AddRung`, and
  quotients are exact. A double can differ by one rounding where the exact width is a
  half.

**Abstractions.** Upload ids are numbers (order matters only for the tie-break of
claimNext). `Plan` gives each id its number of renditions: the sizes do not
matter here. `Valid` are the uploads that the ftyp check and ffprobe accept.
Upload times are arbitrary members of `Stamps`, which also covers clocks that
differ between replicas and stamps taken before the write lock. Several abandoned
claims of dead callers are one element of `requests`. `attempt` and `claims` are
auxiliary: they distinguish the reports of different attempts, as HTTP requests are
distinct, up to `MaxClaims`. Manual retries are unbounded, except with the fault
`lateRequest`, where abandoned requests of ever more attempts would pile up: there
`MaxClaims` ends them.

`RecoverySweep` says whether something calls `resetStuckProcessing`. Only tests do
in the repository, so FALSE is the code; TRUE is the code with a caller added. With a
caller and several workers a second worker would claim the record of a slow one and
work in its directories; `NoRivals` (no caller, or one worker, as deployed) excludes
that.

## 3. What is checked

The runs `serving` and `replica` use modules of their own, `views` and `metadata_gap`
use `MCVideoViews`, `settle` uses `MCAttemptHistory`, all others `MCPlatform`.

| Run | Instance | Properties | Shows |
| --- | --- | --- | --- |
| `safety` | 1 worker, 2 replicas, 2 uploads, any number of retries, every fault but `lateRequest` | `TypeOK`, `CompletedIsRetrievable`, `ErrorOnlyWhenFailed`, `LifecycleSpec` | the deployed platform implements `JobLifecycle`; COMPLETED records have all files |
| `workers_late` | 2 workers, 2 replicas, a valid and an invalid upload, 2 claims, every fault | `ExclusiveProcessing`, `OneAttempt`, `FinalFilesWhole`, `RecordHasOriginal` | the claims and files stay sound even with late service |
| `settle` | 1 worker, 1 replica, 2 uploads of one rendition, any number of retries, every fault but `lateRequest` | `IncompleteMetadataIsTransient`, `ProcessingIsUnderWay`, `EveryUploadSettles` | every waiting upload ends COMPLETED or FAILED, and none stays half done without somebody at it, unless its attempt ended in silence |
| `queue` | 1 worker, 1 replica, 2 valid uploads and an invalid one, 2 upload times, any number of retries; busy, crashes of both sides, lost calls | `OnlyAcceptedLeftBehind`, `PendingEventuallyClaimed` | a refused upload leaves no file; oldest-first claiming starves a record only if older ones are retried again and again |
| `recovery` | `RecoverySweep` TRUE, timeout of 1 tick, 1 worker, 1 replica, 2 uploads; worker crash, lost calls | `FinalFilesWhole`, `CompletedIsRetrievable`, `ErrorOnlyWhenFailed`, `RowsConsistent`, `StuckJobRecovered` | with a caller, resetStuckProcessing does what the documents say, and does no harm when it takes the record of the one worker while that is still at work |
| `replica` | 2 replicas, 2 writes, reads, 2 attempts, 1 probe, crashes, a mount that changes at will | `TypeOK`, `NoStaleTransaction`, `ReadyMeansWritable`, `LeftoverIsReported`, `WritesAreAtomic`, `EveryWriteEnds`, `EveryProbeAnswered`, `ProbeFileRemoved` | the write path implements `AtomicWrites` through crashes and I/O errors on both sides of the commit point, waits and retries end, a readiness answer is true and comes in time |
| `views` | 1 browser with page loads, 1 upload of one rendition, any number of retries, 1 worker, 2 replicas; backend crashes | `ViewsTypeOK`, `MetadataIsSnapshot`, `PlayableWhileCompleted`, `BadgeCatchesUp` | two reads answer as one; a file taken from a COMPLETED record is there and its copy good until the record leaves COMPLETED; badges catch up |
| `serving` | 1 reader, both handlers, 14 headers, files of 0, 1 and 3 bytes, 2 changes of the file | `TypeOK`, `RangeHonoured`, `EndedAnswersAreExact`, `EveryRequestAnswered` | the parsers are exact and agree on single ranges; a wrong body needs a change between stat and open |
| `stuck_job` | 1 upload, worker crash | `StuckJobRecovered` violated | without a caller it does not |
| `metadata_gap` | 1 browser, 1 upload, no fault | `CompletedIsViewable` violated | a detail read between the two transactions stays without renditions |
| `completed_final` | 1 upload, lost calls | `CompletedIsFinal` violated | COMPLETED can become FAILED |
| `late_report` | 1 upload, lost calls served late | `CompletedIsRetrievable` violated | a late COMPLETED over a later attempt |

`MCPlatform` also asserts that `planRenditions` gives what `IsPlan` asks for at the
edges of the ladder, for tiny, odd, tall and wide sources (`PlanIsDownscaleOnly`), and
that the plans of its instances are plans of real sizes (`MCPlanIsPlanned`). TLC
evaluates both in every run of that module.

**Bounds.** One worker is what `deployment/base/processing.yaml` deploys; two are
what the claim is designed for. Two replicas are the `ha` overlay and the least
that interleave between transactions. Two uploads with plans of two renditions and
of one compete for the queue and tell loops with one turn from loops with two; where
late service bounds the retries, two claims per upload are the least that let an
earlier attempt's files and reports meet a later one. `settle`, `queue` and `views` are
about reports, the queue and caches, for which one rendition and the thumbnail are
enough. In `workers_late` the second upload is invalid, so both
workers compete for one record, which is where exclusivity could break. Two stamps
give every order of two uploads, ties included. Late service keeps requests of
dead callers alive, which is why it is in a run of its own. In `recovery` a timeout
of one tick lets a sweep take a record at any moment of its attempt. Symmetry (workers,
replicas) is used in the two runs without liveness.

In `replica` two writes compete for the lock and a third party, a reader, for the
commit; two attempts are the least with a first, a repeated and a last one. Probes
share nothing with each other, so one is enough. In `views` what a browser keeps is
kept per upload, so one upload is enough; a COMPLETED record is retried after a backend
crash that ate the answer to its report, so that rows, details and cached files of two
attempts meet, a kept 404 and an outdated copy under a COMPLETED record included;
`lostCall` is left out because `MetadataIsSnapshot` needs that. In `serving` readers share
nothing but the file, so one is enough; the headers have every form, with bounds
before, at and after the end of the files; two changes are the least that remove a
file and put another in its place.

**Fairness** (`FairSpec`). The worker's loop never returns and a killed worker is
restarted by Kubernetes: weak fairness of what the process does. A request that
was sent is served by some replica, and a replica ends what it is inside of: weak
fairness of serving and finishing. A claim is asked for again and again while
single calls may be lost or rejected busy, so granting one has strong fairness:
the network does not lose, and the lock does not reject, all of infinitely many.
No fault and no user step is fair. `Sweep` and `ClockTick` are fair where
`RecoverySweep` turns them on. In `FileServing` a handler goes on by itself (its
awaits are file-system calls that end); clients, failing reads and the worker are
not fair.

In `BackendReplica` the thread goes on with a SQLite call and the thread pool with a
file call (both stand still on a hung mount, which need not recover); the event loop
serves settled calls and due timers at each of its turns, so they have strong
fairness: resolvers run in between, but not instead. In `ViewProperties` the poll
timer fires again after answers and errors alike, and single polls may fail, but not
all of infinitely many (strong fairness of serving and receiving the list). A
rendered detail sends its query, which is served and comes back.

**Conditions.** Some of the promises hold only without some fault, and the
comments at the properties say so: retrievability, the error column, the refinement
and `PlayableWhileCompleted` without `lateRequest`; files, retrievability and the error
column without rivals (`NoRivals`), exclusivity and the refinement without a sweep;
`OnlyAcceptedLeftBehind` unless unlink fails; `MetadataIsSnapshot` without lost and late
calls; settling, attended PROCESSING records and transient metadata gaps without late
calls, and only for attempts that did not end in silence; a claim in the end unless
older uploads are retried for ever; badges unless the page is loaded anew for ever;
recovery only with a caller; a
probe's file is removed unless its process dies, the volume refuses a call or hangs
(a full volume can leave an empty probe file); a probe's answer may be late while
SQLite waits for the same hung mount on the same thread.

### Where documents and code disagree

1. `resetStuckProcessing` is never called (`stuck_job`), although
   `docs/architecture.md` describes recovery of a dead worker's record.
2. Property 8 of the design document fails between the two transactions of
   `updateProcessingResult`. In the database the gap is transient (`settle`) unless
   the attempt ends in silence in it (the replica dies in it and the FAILED report is
   not recorded, or the worker dies with it); but a detail that was
   opened in it, answered by another replica, is cached for the life of the page, and
   Requirement 9.4 fails although the record is complete (`metadata_gap`).
3. The lifecycle diagram has no way out of COMPLETED; a lost answer to the
   COMPLETED report makes it FAILED (`completed_final`). `JobLifecycle` states what
   the code does promise: only the attempt that completed it may do that; and
   `CompletedUndoubted` says which failures it takes.
4. Property 9 fails when a COMPLETED report is served after its worker gave up on
   it and a later attempt is under way (`late_report`): `updateUpload` looks at
   neither the status nor the attempt.

No document speaks of the HTTP cache: after COMPLETED, FAILED, a retry and COMPLETED
again, a browser that had taken files before the retry shows their old copies, or a 404
it got in between, for up to an hour (`files.controller.ts:24`), page loads
notwithstanding. `PlayableWhileCompleted` says that nothing worse happens.

## 4. What is proved

`PlatformProofs`, `FileProofs`, `PublishProofs` and `LifecycleProofs` are about the
platform, `ViewProofs` about the platform with a browser, for any sets of uploads,
workers and replicas, any plan, any bound on claims and any faults; the only
assumptions are those on constants in `SharedTypes`, `MetadataStore`,
`UploadIntake`, `BackendApi` and `VideoPlatform`, and the conditions a theorem
names. `ServingProofs` is about `FileServing`, for any files, headers and readers,
`ReplicaProofs` about `BackendReplica`, for any number of replicas, writes, attempts
and probes, and `PlanProofs` about `RenditionPlan`, for all sizes.

- `TypeCorrect`: `Spec => []TypeOK`. A lemma per component and per kind of step
  says that the step keeps that component typed; frame lemmas (`StoreFrame`,
  `StorageFrame`) say which steps touch the store and the volume at all.
- The lemma `CallsDisciplined` says that a worker has one call under way at most, as
  the single await of a fetch makes it: a fact about the model's transport on which the
  results below rest.
- `SingleAttempts`: `RecoverySweep = FALSE => (Spec => []OneAttempt)`, and from it
  `Exclusive`, the same for `ExclusiveProcessing`. Exclusivity is not inductive:
  nothing in it says that the row of an upload with an owner is not PENDING. The
  invariant `OneAttempt` adds a token per upload, which its owner holds or its
  FAILED report carries, and which does not exist while the row is `NO_ROW`,
  PENDING or FAILED. A granted claim creates it from a quiet row, the FAILED
  report moves it from the worker to the request and then consumes it, everything
  else only loses it (`FewerTokens`), and a retry finds it gone. That an owner
  comes only from a granted claim, and a FAILED report only from its owner, rests
  on `CallDiscipline`. The induction is on
  `TypeOK /\ CallDiscipline /\ OneAttempt`.

- `OriginalBehindRecord`: `Spec => []RecordHasOriginal`. Inductive with
  `OriginalInv`: an original under validation is complete, and a row exists only
  for an accepted, valid, complete one. Nothing but the intake writes to
  `originals/` (`OriginalsStay`) or makes a row come into being (`RowsStay`), and an
  intake that has settled stays so (`IntakeStays`).
- `RowsAlwaysConsistent`: `Spec => []RowsConsistent`, whatever fails and sweeps. It is
  inductive with `TypeOK`: `UpdateConsistent` says that the patch of a report fits
  the status it sets, `ConsistentStep` goes through the operations of the store.
- `FinalFilesFinished`: `NoRivals => (Spec => []FinalFilesWhole)`. The
  invariant `WholeInv` adds that a worker past its last ffmpeg run has every output
  in full in its staging directory. Other workers cannot spoil it because no two
  have one upload in hand: `AloneExclusive`, which is `SingleAttempts` when nothing
  sweeps and trivial for one worker.
- `CompletedHasOutput`: without rivals and without late service,
  `Spec => []CompletedIsRetrievable`. Four invariants lead to it: `Alone` (what
  `OneAttempt` says of workers and FAILED reports, without the status of the row,
  which a sweep changes under the owner's hands), `PublishInv`
  (`PublishedSoFar`: between the renames, the slots before the cursor are in
  place, and from the last rename on the whole output is), `ReportInv` (a request
  under way is a live worker's, and a report is about the job it has) and `OwnerInv`
  (the row of an upload in hand is PROCESSING, or PENDING by a sweep, or COMPLETED by the very report its
  owner awaits or believes lost, so the final directory of a COMPLETED record is
  never cleared). Each of the conditions
  is needed: `late_report` is the counterexample without the second.
- `RefusedLeavesNothing`: unless unlink fails, `Spec => []OnlyAcceptedLeftBehind`,
  by the same frame lemmas: a request fails with its file unlinked or after its
  validation.
- `ImplementsLifecycle`: without a sweep and without late service,
  `Spec => LifecycleSpec`. Under `Inductive`, the conjunction of all the invariants
  above, every action of the platform is mapped to the action of `JobLifecycle` it
  implements or to none: a granted claim is its start, the renames and the clearing
  before them its publication, the first transaction of a report its completion, a FAILED report its
  failure. That a report finds its upload running is `OneAttempt`, that it completes
  only what is published is `OwnerInv`.
- `LifecyclePromiseKept`: under the same conditions `Spec => []Lifecycle!Promise`. The
  promise of `JobLifecycle` is inductive in `JobLifecycle` (`LifecycleInvStep`), and
  the refinement carries it over.
- `ErrorsBelongToFailures`: without rivals and late service,
  `Spec => []ErrorOnlyWhenFailed`. A report of COMPLETED does not clear the error
  column; it finds it clear because the claim took the row from PENDING, where the
  retry had cleared it, and a sweep does not set it.
- `IncompleteIsTransient`: without rivals and late service,
  `HistorySpec => []IncompleteMetadataIsTransient`. A row that is COMPLETED
  without its renditions belongs to a worker whose COMPLETED report is not yet
  acknowledged or is known to have failed, or to a FAILED report under way
  (`MetadataInv`), until one of the steps that `unreported` records takes it away; that
  a handler serves the worker that still holds the job is `HandlerInv`.
- `ProcessingNeverStranded`: under the same conditions,
  `HistorySpec => []ProcessingIsUnderWay`: a worker that dies, a claim whose answer is
  lost and a FAILED report that fails are the only ways to strand a record; a failed
  step, a refused COMPLETED report or a restart inside one is none. `Running` alone is
  not inductive: a worker that gets "ok" ends its job, so one must know that the row
  has left PROCESSING by then. `AnsweredInv` says that, and `HandlerInv` that the "ok"
  is about the job the worker holds.
- `CompletedUndoubted`: without rivals, busy writes, backend crashes, lost and late
  calls, `Spec => CompletedIsFinal`, with worker crashes and file errors allowed. Only
  a FAILED report takes a row out of COMPLETED (`CompletedStays`), so the invariant is
  `Undisputed`: nobody handles or reports a failure of a COMPLETED upload. A worker
  turns from a COMPLETED report to its catch block only by an error or a broken call,
  and there is neither: no answer is an error (`NoErrors`), and `CallFails` is disabled.
- `ViewsTyped`, `PlayableAlways`, `MetadataAsOne`: a browser adds readers and changes
  no step (`ViewsPlatform`: `ViewsSpec => Spec`), so the theorems above hold under it.
  `PlayableWhileCompleted` then follows from `CompletedHasOutput` and from files
  that change only through a rename by the owner, whose row is not COMPLETED unless
  by its own, later report (`KeptInv`, `NothingPublished`). `MetadataIsSnapshot` needs that a second transaction ends
  before the row can leave COMPLETED and be completed again: a handler inside a
  report is the one its worker waits for, which a lost call would break.
- `NeverStale`, `WritesAtomic`, `ReadyIsWritable`, `ReplicaTyped`: `NoStaleTransaction`
  (one replica past BEGIN IMMEDIATE, building on the committed database) is inductive
  with the types, and with it each commit point appends its write once to what all
  others committed, the `Apply` of `AtomicWrites`; that a call returns only past its own
  commit point, and is refused only before it, is `StoredInv`. A probe that answered up has been through
  unlink, after which its file does not come back.
- `WritesAppliedOnce`, `WritesDurable`: the write path keeps what `AtomicWrites`
  promises a caller: a call that returned has its write in the database once, one that
  was refused has none, and what is stored stays in its place. Of a call that failed in
  COMMIT or whose process died nobody knows which, but it takes no effect later. Both are proved of
  `AtomicWrites` (`AtomicInv`, `ApplyOnce`) and carried over by `WritesAtomic`.
- `LeftoversReported`: `Spec => []LeftoverIsReported`, from the same invariant of the
  probes (`ProbeOK`) as `ReadyIsWritable`, which follows each file call with what it
  has done to the file.
- `PlanIsDocumented`, `PlanNeverEmpty`: the plan of any size satisfies `IsPlan`, and has
  one to four entries, which is what `PlanAssumption` says of the constant `Plan`. The
  loop's result is one of four suffixes of the ladder (`PlanIsSuffix`), since rungs of
  different heights never collide; the rest is integer arithmetic of `ToEven`.
- `RangeAlwaysHonoured` and `EndedExact`: `FileServing` keeps `RangeHonoured` and
  `EndedAnswersAreExact`. They rest on `HeaderParsed` (what `parseRangeHeader`
  resolves a single range to is the set of bytes it asks for) and `ParsersAgree`
  (`parseRange` does the same, though it clamps after comparing), and on
  `AnswerConsistent`, which ties status, range and bytes sent together.

**Model-checked only.** Liveness and fairness (out of the prover's reach):
`EveryUploadSettles`, `PendingEventuallyClaimed`, `StuckJobRecovered`,
`EveryRequestAnswered`, `EveryWriteEnds`, `EveryProbeAnswered`, `ProbeFileRemoved`,
`BadgeCatchesUp`. Every safety property that a passing run checks is proved.

## 5. Not modelled

- *Decisions about bytes*: the ftyp check and what ffprobe says of a file are the
  constant `Valid`; codecs, FFmpeg arguments, and the sizes that the worker's own
  ffprobe run reports (any plan is possible).
- *Formats*: GraphQL syntax and status codes; URLs, content types and the resolution of
  paths in the `/files` route; the framing of its responses (a 500 keeps the
  Content-Length of the answer it replaces); rows of the database as text.
- *Frontend*: rendering, the banners of the upload form, the choice of a rendition,
  and the record that an upload's own answer writes into the Apollo cache (PENDING,
  which the next poll corrects).
- *Resources*: the descriptor of a stream whose client has left; disk space.
- *Failures*: an I/O error of COMMIT after its commit point (`CommitFails` of
  `WritePath`) in the createUpload of an upload request, which would leave an error
  answer with a record behind it (of the worker's calls it is a lost answer, which is
  modelled); a directory removal that stops half way; corruption of the database on
  NFS; rolling updates beyond a restart.
- *Wiring*: dependency injection, start-up and `app.module.ts`, where the first of two
  `controllers` lists is lost and with it the health routes: a static fact, so
  `HealthProbe` models the handler as its tests use it.
- *The in-process client* of the end-to-end test, which reports renditions before the
  status, the reverse of the resolver.
- *A sweep with several workers*: `RecoverySweep` with two workers would break
  exclusivity (the reset looks at age alone), and a sweep keeps the upload time, so an
  upload that kills its worker goes to the front again. Nothing calls it, so these are
  hazards of a caller to come; with the one worker that is deployed, `recovery` and
  the theorems under `NoRivals` say what a sweep cannot spoil.

## 6. How it was built, and what could follow

The order was: store and volume, intake and worker, calls, composition, refinement,
fairness and their proofs; file serving; the write path with the health probe; the
views; the plan; the proofs of the refinement and of what had only been checked; sweeps
under one worker, and under which failures a status is final or attended. What
could follow, should the code go there: a caller of resetStuckProcessing with a lease
or an attempt number, for which `recovery` with two workers is the instance to start
from, and a report that is one transaction, which would let `CompletedIsViewable`
hold for details opened after COMPLETED.
