# Verification of SurfCam Weather Pi

TLA+ models of the C++ program in this repository (`src/src`, `src/include`): a
Raspberry Pi process that uploads a snapshot every 30 s and, when a web API asks
for it, encodes HLS and uploads segments and playlist to S3 with presigned PUTs.
TLC checks the models on small instances; TLAPS proves their safety properties
and the three refinements for every value of the constants. Paths below are relative to the
repository; `main.cpp` and the other sources are in its `src` directory.

## The system

| Part | State | Operations | Meets the others through |
|---|---|---|---|
| process control (`main.cpp`) | `keepRunning`, `streamShouldRun`, `emergencyStopHls`, `cameraRecoveryNeeded`, the handle `streamThread` | five threads: main, snapshot worker, stream checker, monitor, and the HLS worker the checker starts and joins | atomics, joins, camera calls |
| stream decision (`main.cpp:204-262`) | last definitive answer, time of the last yes (wall clock), failure streak | ask, decide, back off | the handle; the API |
| resource monitor (`main.cpp:265-363`) | none | read memory and temperature, raise the emergency flag | `emergencyStopHls` |
| camera operations (`CameraManager.cpp`) | libcamera's manager, camera, allocator, `isVideoMode_`, `snapshotsPaused_`, four mutexes | initialize, takePicture, startVideoMode, stopVideoMode, reinitialize | called by main, snapshot worker, HLS worker, checker |
| encoder pipeline (`CameraManager.cpp`) | pipeline, loop, `gstThread_`, `gstPipelineError_`, `pipelinePushMutex_` | build, dispatch bus errors, push frames, tear down | libcamera's thread, GStreamer's loop, the HLS worker |
| HLS uploader and policy (`HlsUploader.cpp`, `HlsUploadPolicy.cpp`) | names uploaded in order (at most 512), mtime of the last playlist uploaded | one poll: segments, then the playlist | the directory hlssink writes; the API client |
| API client (`ApiClient.cpp`) | none across calls | streaming requested?, snapshot upload, presigned transfer with up to 4 attempts | the network |
| configuration (`Config.cpp`) | constants after start | load | read by all |

What is hard here: the handle `streamThread` has no lock and is kept safe only by
which thread touches it when; several threads clear and set the same flags; the
snapshot worker takes the camera away from a session; GStreamer and libcamera
call back while a teardown runs; the uploader reads files that are being written;
transfers fail, or succeed without anybody learning it. `PROJECT.json` lists each
such hazard with its line and the properties aimed at it.

Correctness, part by part: a session handle is never overwritten and always
joined, a failed start is followed by a recovery, a signal ends the process
(process control); sessions stop neither too early nor too late (decision); no
push into a freed pipeline, a teardown returns, errors end the session
(encoder); nobody uses a camera that was reset, starts one in another's
configuration or waits for ever for a mutex (camera operations); what the bucket
holds matches what the playlist and the uploader's memory say (uploader); success
means stored, within a bounded time (API client).

## Modules

| Module | Models | Reads |
|---|---|---|
| `SessionLifecycle` | abstract: sessions one after another, recovery before the next | - |
| `StreamControl` | the five threads, flags, joins; camera and API calls as single steps | `main.cpp`, effects of `CameraManager.cpp` |
| `StreamControlProofs` | proofs about `StreamControl` | |
| `StreamDecision` | the checker's decision and its sleeps, with its clock | `main.cpp:177-262` |
| `StreamDecisionProofs` | proofs about `StreamDecision` | |
| `CameraCalls` | abstract: camera operations as single steps | - |
| `CameraControl` | the camera operations at their locks, with their failures | `CameraManager.cpp` but for its GStreamer half |
| `CameraControlProofs` | proofs about `CameraControl` | |
| `EncoderPipeline` | pipeline, bus errors, frame callback, requests, teardown | `CameraManager.cpp:309-343, 363-524, 570-814` |
| `EncoderPipelineProofs` | proofs about `EncoderPipeline` | |
| `FileTransfer` | abstract: at-least-once transfer of a changing file | - |
| `PresignedTransfer` | the retry loop of a presigned upload | `ApiClient.cpp:290-436` |
| `PresignedTransferProofs` | proofs about `PresignedTransfer` | |
| `HlsUploader` | `pollAndUpload`, its memory, the directory, the bucket | `HlsUploader.cpp`, `HlsUploadPolicy.cpp` |
| `HlsUploaderProofs` | proofs about `HlsUploader` | |

The modules are small enough to be instantiated by their `.cfg` files directly.
Definitions named `...Not`, `...Inclusive`, `...Late` and so on, marked *Variant*,
are plausible mistakes in the definition they precede; nothing uses them. Each one
breaks a property, which `PROJECT.json` records.

How they fit together: `StreamControl` takes every camera operation for one step,
which is `CameraCalls`; `CameraControl` implements it. `HlsUploader` takes a
transfer for one step that stores or not, answers or not, and may be repeated,
which is `FileTransfer` for one file; `PresignedTransfer` implements it.
`EncoderPipeline` opens the two steps of `CameraControl` that build and drop the
pipeline.

**StreamControl.** A program counter per thread (`pcMain`, `pcSnap`, `pcCheck`,
`pcMon`, `pcHls`); a step is one load, store, exchange, join or blocking call.
`pcHls = "none"` is the empty handle: thread constructor and join are the only
steps into and out of it. The RAII object `StreamShouldRunClear` is the label
`clear` on every way out of the worker. A camera call is one step with each
result it can report. A sleep is a step that may be delayed arbitrarily, which is
why the grace is a free choice here (after some yes) and exact in
`StreamDecision`. The monitor samples what `/proc/meminfo` and the temperature
file may say, unreadable included, and raises the flag as `Alarms` decides.
Sequential consistency stands for the acquire/release atomics: every flag is a
single word and the joins order the rest.

**StreamDecision.** One process, a true clock `now` and a wall clock `now + skew`
that may be corrected by up to `MaxSkew` at any time. An iteration is
`BeginIteration`, `Reap`, `ObeyAlarm` (the emergency), `LookForRecovery` with
`Recover` and, after a failed reinitialize, `Pause`; `AskApi` (the blocking call and
the decision, or an exception), then `Start` or `End` if it calls for one; `Sleep`,
`ChooseBackoff` and `SleepMore`. Each takes the time its calls take. A join takes up
to `StopTime`: the worker, which nothing interrupts, finishes the poll in hand and
makes `DrainPolls` more of up to `PollTime` each, and its other calls (cleaning up,
the encoder's start and stop) take up to `CameraTime`. Only a session still there
has to be joined (`JoinTimes`). `Recover` adds up to `ReinitTime`, the wait for
`cameraOpsMutex_` included. The signal may come between any two steps; one that
comes in the middle of a step is noticed when one at its beginning would have been,
and so after less time. `mayNeedRecovery` says whether a worker has run since the
recovery flag was last looked at, and so may have raised it: also one that a
decision has joined meanwhile. `asked`, `lastOn` and `stoppedAt` are history.

**CameraControl.** Four threads: main initializes (with retries) and destroys,
the snapshot worker takes pictures, the HLS worker starts and stops video mode,
the checker reinitializes. A mutex is a variable holding its owner. A step is
what a thread does between two points where another could tell the difference:
taking `cameraOpsMutex_` with the tests behind it, each camera call, each
release. `StartGoto` is a step of the start that may fail into the rollback,
which runs without `cameraOpsMutex_` as in the code. The camera is the state
machine libcamera documents (acquired, configured, running); `Camera::stop`
returns once the slot has been called for the requests it cancels (`StopReturns`).

**EncoderPipeline.** The thread that starts and stops video mode (stops are
serialized by `videoTeardownMutex_`), the GLib loop thread, libcamera's callback.
`stopWaits` says whether `Camera::stop` returns only after the callback in
flight; every property but `RequestsGoRound` is checked both ways. `LoopFirst`
says whether the loop thread is scheduled before the pipeline plays; nothing in
the code guarantees it. Requests are counted: `issued` to the camera since it
started, `queued` there now, `lost` to a refused requeue.

**HlsUploader.** A segment is its number. The number `cur` of the segment hlssink
has open determines directory, playlist and playlist mtime. The steps of a poll
are where the writer can move in between: listing, first size, last size, playlist
check, the transfer's own size, the transfer. A transfer may be stored and
answered, stored and unanswered (then repeated or given up), or fail; in a session whose
`reliable` is set it succeeds at once. A stop of
the encoder by another thread during a poll is the writer not moving.

**PresignedTransfer.** `written` numbers the states a file goes through; the file
may be rewritten, change its length or disappear between any two steps of the
call. A request takes any time up to its timeout; a PUT is stored or not, its
answer arrives, is lost, or is not understood.

## Runs

| Run | Shows | Bounds |
|---|---|---|
| `StreamControl` | 6 invariants; the threads implement `SessionLifecycle`; a signal ends the process, an emergency ends the session it finds, a finished worker is joined | 1 drain poll (the loop is entered and left; the code makes 8); nothing else is bounded |
| `StreamDecision` | types, `AskedInTime`, `StopLatency`, `ShutdownLatency`, `OutageKeepsSession` | grace 3 intervals, backoff 2, 4 and then capped at 5, skew 1; a poll of 1, 1 drain poll and 1 for the camera, so a join of up to 3; reinitialize 1, its pause 2; horizon 18: several graces, a capped outage, joins and recoveries anywhere in it. `AskedInTime` and `ShutdownLatency` are tight: with one less TLC finds them violated (of the second the recovery, 8, is the greater here; the backoff is 5) |
| `CameraControl` | no use of a reset camera, no start in another's configuration, no encoder without its buffers, no picture while paused, no deadlock unless a picture times out; the operations implement `CameraCalls` | unbounded |
| `EncoderPipeline` | no push into a freed pipeline; loop and thread end together; requests go round; a teardown returns; an error ends the session | 3 requests (one with the camera, one in the callback, one not yet issued); `LoopFirst` |
| `PresignedTransfer` | a call returns, within `TransferTime`; `FileTransfer` is implemented | 4 attempts as in the code; 3 writes, length up to 2 (grow, shrink, empty), one unit of time per timeout and pause |
| `HlsUploader` | what is remembered is stored; eviction spares the disk; a published playlist lacks only its newest end; the drain of a reliable session leaves bucket and last playlist complete | 2 sessions, of 6 segments (the open one included) and of 3; 3 on disk, 2 listed, memory of 5: files rotate out of disk and playlist, names are evicted and reused; 1 drain poll, which is enough, where the code makes 8 |

`EvictionSparesDisk` needs the memory to hold `2 * MaxFiles - 1` names
(`MemoryAssumption`; with one name less TLC finds a counterexample for 2, 3 and 4
files); the code has 512 for 8 files.

Runs that end with a counterexample, each against a sentence of the repository
(quoted in `PROJECT.json`, "findings"):

| Run | What the code does |
|---|---|
| `StreamDeadSessionEnds` | a snapshot stops the encoder of a live session, which polls on without one |
| `StreamGraceHonoured` | false, then unreachable, within the grace: stopped early |
| `HlsPlaylistComplete` | the playlist is rewritten between check and transfer |
| `EncoderShutdownHangs` | a loop not yet running is not told to quit, and is joined |
| `CameraPictureTaken` | the rollback of a failed start cancels a picture, which is saved and uploaded all the same |
| `CameraTimeoutReturns` | a picture that timed out stops the camera while it holds the mutex its own slot needs |

Other disagreements seen while modelling, which have no run:

- `main.cpp:207` says a shutdown cannot start a session; a signal between lines
  237 and 241 still does. `HandleHandedOver` and `ShutdownCompletes` show that
  such a session is joined before the exit.
- `HlsUploader.cpp:93`: an open segment that did not grow for 400 ms is taken for
  closed (`README.md:220` speaks of closed segments). It is stored short and not
  sent again; `DrainCompletes` is therefore about presence, not length.
- `CameraManager.cpp:517` clears the error flag after the pipeline began to play:
  an error dispatched before is lost, the loop has ended, and `CameraManager.h:56`
  is not kept. `ErrorEndsSession` starts where the session polls.
- A camera that refuses every request leaves an encoder that starves with no
  error raised (`CameraManager.cpp:720`); `RequestsGoRound` shows that nothing
  else loses one.
- A retried `initialize` (`main.cpp:391`) constructs a second
  `libcamera::CameraManager` before the assignment destroys the first
  (`CameraManager.cpp:141`); `reinitialize` resets the old one first.
- After a failed reinitialize nobody raises the recovery flag again until another
  session fails to start; with no stream wanted, snapshots stay paused
  (`CameraManager.cpp:851`).

Shutdown has 180 s (`surfcam.service:14`). `ShutdownLatency` bounds how long the
checker takes to leave its loop, wherever the signal finds it: a backoff of up to
180 s; or the join of a session (`StopTime`), a reinitialize, the minute after it, a
question and a round. With the code's numbers the join is the longest by far: a file
whose transfer fails takes up to 2 * 10 * 4 + 0.25 * (1 + 2 + 3) = 81.5 s
(`TransferTime`), a poll may try 8 segments and the playlist, and there may be 9
polls, one in hand and 8 of the drain: 9 * 9 * 81.5 s, almost two hours, in which the
checker also asks the API nothing (`AskedInTime`) and obeys no alarm. The 180 s are
therefore not kept by the code alone, and nothing here claims them. Both bounds
assume that the camera's calls return in a bounded time; `EncoderShutdownHangs` and
`CameraTimeoutReturns` show when they do not.

## Fairness

`StreamControl`: weak fairness of each thread. The operating system schedules
them, and every blocking call returns: curl has timeouts, the capture waits 5 s,
sleeps end. Nothing is assumed of signals, alarms, errors or particular answers.
The camera calls are assumed to return, as `CameraControl` shows of their locks,
captures that time out apart, and `EncoderPipeline`, on its condition, of the
teardown.
`CameraControl`: weak fairness of each thread's work inside an operation, strong
fairness of taking a mutex: the other users of `cameraOpsMutex_` hold it for
seconds and then sleep, so a thread blocked on it gets it. The start of an
operation and the end of a session are assumed of nobody.
`EncoderPipeline`: weak fairness of the loop thread, of a
callback that has begun, and of a start or teardown that has begun.
`PresignedTransfer`: weak fairness of a call that has begun.

## Proofs

Every safety property that a passing run checks is also a theorem, for every value
of the constants; so are the refinements of the three abstract modules. All follow
from the modules' `ASSUME`s only: counts and times are natural numbers; the
interval, the grace, the number of attempts, of buffers, of drain polls and of
listed segments are positive; a playlist lists fewer segments than hlssink keeps;
the memory of uploads is as large as said above. Bounds such as `MaxSegments` are
constants like any other: what is proved holds for all of them. Each inductive
invariant was model-checked before it was proved.

`StreamControlProofs`: `TypeCorrect`, `SessionsAreExclusive`,
`ExitedWorkersAreReapable`, `RecoveryComesFirst`,
`ReinitIsAlone`, `HandleIsHandedOver`, `VideoModeIsOwned`, `LifecycleImplemented`,
`CallsAreKept`.
The properties are not inductive. `SessionInv` adds what the code relies on
silently: a raised `cameraRecoveryNeeded` belongs to a worker with nothing left to
do (`FlagHasWorker`), which cannot raise another until it is joined
(`RecoveryTaken`), and past the exchange only a worker still to be joined can have
raised it (`RaisedByUnjoined`); main joins the checker before it
looks at the handle, and the checker, once gone, starts nothing (`CheckerGone`,
`NotYetBorn`, `NoneLeft`). Each thread's actions are treated in turn. The
refinement maps a session's phase from the two program counters and the recovery
flag; each step is one abstract step or a stutter (`LifecycleStep`).
`CallsAreKept` joins the module to `CameraControl`: what it takes a camera call to
do is what `CameraCalls` promises, at the moments `CameraCalls` allows.

`StreamDecisionProofs`: `TypeCorrect`, `SilenceIsBounded`, `StopIsTimely`,
`ShutdownIsTimely`, `OutageIsSurvived`. `TimeInv` states at each point of the loop
how much time may have passed since the last question and since the last yes, and
that `lastStreamRequestTime` is the true time of that yes up to `MaxSkew`.
`WaitAt` does the same for the time since the signal. Both use that no session
starts without an answer: one that is still there has not been joined since the
question, so a join's time is not counted twice (`Joined`); what a join adds to the
time it takes from the joins still possible (`StepOfTop`).

`EncoderPipelineProofs`: `TypeCorrect`, `PushesAreSafe`, `LoopIsJoined`,
`NoRequestStrays`. `PipelineInv` adds who stands inside `pipelinePushMutex_`
(`MutexOK`), that a pipeline exists wherever video mode is not idle and nothing of
its loop is left where it is freed (`PipelineOK`), and the count of requests, off
by one at most when a callback outlives its session (`RequestsOK`).

`PresignedTransferProofs`: `TypeCorrect`, `TransferIsTimely`,
`TransferImplemented`, `ReportedIsStored`. `TransferInv` bounds the time by the
attempt and the place in it (`TimeOK`), and says that what a PUT reads is not older
than the call (`FileOK`); the sum of the pauses comes from `SumNext`.
`ReportedIsStored` follows from `FileTransfer` alone.

`CameraControlProofs`: `TypeCorrect`, `CameraIsPresent`, `ConfiguredByStarter`,
`BuffersOutlive`, `PausedIsKept`, `OnlyPhotoStops`, `RollbackCancels`,
`NoCircularWait`, `Refinement`. None of the properties is inductive: what a thread
finds after a lock depends on where the others stand, some of which have let go of
`cameraOpsMutex_` in the middle of an operation. `Control` says it for each
variable: who owns a mutex stands inside it (`MutexOK`); which threads exist and
when a recovery may be due (`ThreadsOK`); snapshots are paused exactly while no
camera can be configured (`CameraOK`); a request exists from its queueing to the end
of its picture (`PhotoOK`); the camera runs for the encoder exactly while a start
has it running, or video mode is on and no stop has got past `Camera::stop`
(`VideoOK`). The last one carries the argument: a stop that reaches the camera finds
the encoder's own run, so only the rollback, which does not look, can hit a picture.
`NoCircularWait` is the order of the two mutexes, and what of `CallsReturn` is
safety. In the refinement a start takes effect when it sets `isVideoMode_`, a stop
when it has freed everything, a reinitialize when it ends.

`HlsUploaderProofs`: `TypeCorrect`, `RecordedAreStored`, `DrainIsComplete`,
`DirectoryIsRemembered`, `MissingAtTheEnd`.
- What is remembered: names are recorded once, but not always in order, as an older
  segment can be stored in a later poll than a newer one. `OrderOK` bounds the
  disorder: a name recorded after another is at most `MaxFiles` older (`Near`). So
  the names beside the oldest one of a full memory lie within `MaxFiles` of it
  below, and, if it were still on disk, above; they are distinct and too many for
  that (`OldestIsDeleted`, by the pigeonhole principle).
- What is published: `PlaylistOK` says that a checked playlist has no stored
  segment after a missing one, which a rotation does not change, and that while its
  mtime is that of the file it is complete; so `lastPlaylistWrite_` means a complete
  playlist (`PublishedOK`).
- What a drain leaves: `DrainOK` follows a poll of a reliable session whose writer
  stands still: each closed segment is recorded, still to come, or in hand, and
  none is forgotten meanwhile; when it comes to the playlist, all are recorded.
- The library defines `Min` by choice; that a set of naturals has one (`MinOf`) is
  proved here without induction, from the sets of smaller elements.

Only model-checked: liveness (`ShutdownCompletes`, `EmergencyEndsSession`,
`FinishedIsReaped`, `ShutdownReturns`, `ErrorEndsSession`, `CallsReturn`,
`TransferReturns`), for which the proof system has no rules of fairness within
reach here, and the counterexamples.

## Not modelled

- Configuration: read before any thread exists, constant afterwards. Logging,
  with the monitor's rate limit of warnings.
- The snapshot upload: one request without retry whose outcome is only logged,
  and which touches nothing shared.
- The handler of exceptions inside `stopVideoMode` (`CameraManager.cpp:645-668`):
  nothing it calls throws. The build against libcamera before 0.2
  (`LibcameraCompat.h`), which differs in names only.
- The branches of startVideoMode, reinitialize and the destructor that stop a
  running video mode: `OnlyPhotoFindsVideo` shows that they are never taken.
- The data race on `isVideoMode_` (written under one mutex, read under another):
  a single word, whose old and new values are both in the interleavings.
- What GStreamer and libcamera do inside, reference counts among it; build and
  service files; tests.

## Plan

1. A composition of `HlsUploader` with the session part of `StreamControl`, for
   the time between a stop by a snapshot and the end of the session.
2. Times: `ShutdownLatency` ends where the checker leaves its loop; what main adds
   after it (the other threads' joins and its own stop of a session) has no clock yet.
