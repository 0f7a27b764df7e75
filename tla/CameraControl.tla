---------------------------- MODULE CameraControl ----------------------------
(***************************************************************************)
(* The operations of src/CameraManager.cpp and the mutexes that order them *)
(* (cameraOpsMutex_ and videoTeardownMutex_), called by the threads of     *)
(* src/main.cpp: main initializes and destroys, the snapshot worker takes  *)
(* pictures, the HLS worker starts and stops video mode, the stream        *)
(* checker reinitializes after a start that failed.  Each call can fail    *)
(* wherever the code lets it; stopVideoMode and the rollback of a failed   *)
(* start run in part without cameraOpsMutex_.                              *)
(*                                                                         *)
(* A step is what a thread does between two points where another thread    *)
(* can tell the difference.  pipelinePushMutex_ is EncoderPipeline's;      *)
(* requestMutex_ and bufferMutex_ guard single steps here.  isInitialized_ *)
(* is TRUE before any thread but main exists, and never reset.             *)
(*                                                                         *)
(* External: the camera of libcamera.  It is configured once acquired and  *)
(* not running, started once configured, takes requests while it runs;     *)
(* stop completes the queued ones as cancelled, and returns when the slot  *)
(* has been called for them (CameraManager.h:38).                          *)
(***************************************************************************)
EXTENDS Naturals

VARIABLES
    pc,              \* where each thread stands
    cameraOps,       \* owner of cameraOpsMutex_, or "free"
    videoTeardown,   \* owner of videoTeardownMutex_, or "free"
    camera,          \* camera_: "none" for null, else its libcamera state
    config,          \* the role it was last configured for
    photo,           \* the request of the picture being taken
    saved,           \* history: what became of the request last written out
    isVideoMode,
    allocator,       \* allocator_ holds the video buffers
    pipeline,        \* pipeline_ is built
    requests,        \* pendingRequests_ owns the video requests
    snapshotsPaused,
    cameraRecoveryNeeded, keepRunning

locks   == <<cameraOps, videoTeardown>>
device  == <<camera, config, photo, saved>>
video   == <<isVideoMode, allocator, pipeline, requests>>
flags   == <<snapshotsPaused, cameraRecoveryNeeded, keepRunning>>
vars    == <<pc, locks, device, video, flags>>

Threads == {"main", "snap", "hls", "check"}

Init ==
    /\ pc = [t \in Threads |-> IF t = "main" THEN "boot" ELSE "unborn"]
    /\ cameraOps = "free" /\ videoTeardown = "free"
    /\ camera = "none" /\ config = "none"
    /\ photo = "none" /\ saved = "none"
    /\ isVideoMode = FALSE /\ allocator = FALSE /\ pipeline = FALSE /\ requests = FALSE
    /\ snapshotsPaused = FALSE /\ cameraRecoveryNeeded = FALSE /\ keepRunning = TRUE

-----------------------------------------------------------------------------
Goto(t, from, to) ==
    /\ pc[t] = from
    /\ pc' = [pc EXCEPT ![t] = to]

(* Variant: no mutex.                                                      *)
TakeOpsNot(t) == UNCHANGED cameraOps
TakeOps(t) ==
    /\ cameraOps = "free"
    /\ cameraOps' = t

(* The slot of a picture needs its completionMutex, which takePicture has  *)
(* when its wait of five seconds ended for want of a completed request.    *)
TimedOut == pc["snap"] = "timedOut"

(* Camera::stop calls the slot for a request not completed yet.            *)
StopReturns == photo = "queued" => ~TimedOut

(* Stopping a camera: a picture under way is cancelled, which its waiter   *)
(* takes for completed.                                                    *)
(* Variant: the camera is left running.                                    *)
StopIfRunningNot == UNCHANGED <<camera, photo>>
StopIfRunning ==
    /\ StopReturns
    /\ camera' = IF camera = "running" THEN "configured" ELSE camera
    /\ photo' = IF photo = "queued" THEN "cancelled" ELSE photo

Configurable == camera \in {"acquired", "configured"}

-----------------------------------------------------------------------------
(* Main: initialize, retried until it succeeds; the destructor.            *)

InitConstruct ==
    /\ Goto("main", "boot", IF keepRunning THEN "list" ELSE "done")
    /\ UNCHANGED <<locks, device, video, flags>>

(* No camera is listed, or it cannot be acquired, or the threads begin.    *)
InitAcquire ==
    /\ \/ Goto("main", "list", "boot") /\ camera' \in {camera, "available"}
       \/ /\ pc["main"] = "list" /\ keepRunning
          /\ pc' = [main |-> "run", snap |-> "idle", hls |-> "idle", check |-> "idle"]
          /\ camera' = "acquired"
       \/ /\ ~keepRunning
          /\ Goto("main", "list", "done") /\ camera' = "none"
    /\ UNCHANGED <<locks, config, photo, saved, video, flags>>

Signal ==
    /\ keepRunning
    /\ keepRunning' = FALSE
    /\ UNCHANGED <<pc, locks, device, video, snapshotsPaused, cameraRecoveryNeeded>>

(* Every other thread has been joined.                                     *)
Destroy ==
    /\ pc["snap"] = "done" /\ pc["check"] = "done" /\ pc["hls"] = "idle"
    /\ Goto("main", "run", "done")
    /\ camera' = "none" /\ config' = "none"
    /\ allocator' = FALSE /\ pipeline' = FALSE
    /\ UNCHANGED <<locks, photo, saved, isVideoMode, requests, flags>>

Main == InitConstruct \/ InitAcquire \/ Signal \/ Destroy

-----------------------------------------------------------------------------
(* takePicture.                                                            *)

PhotoCall ==
    /\ Goto("snap", "idle", IF keepRunning THEN "photo" ELSE "done")
    /\ UNCHANGED <<locks, device, video, flags>>

(* Variant: the mutex is kept over the call of stopVideoMode.              *)
KeepsOpsOverStop(next) == next \in {"configure", "stop"}
KeepsOps(next) == next = "configure"

(* Entered with cameraOpsMutex_: it is kept for a capture only.            *)
PhotoGoto(from, next) ==
    /\ Goto("snap", from, next)
    /\ IF KeepsOps(next) THEN TakeOps("snap")
                         ELSE cameraOps = "free" /\ UNCHANGED cameraOps
    /\ UNCHANGED <<videoTeardown, device, video, flags>>

PhotoLock ==
    PhotoGoto("photo", IF snapshotsPaused \/ camera = "none" THEN "idle"
                       ELSE IF isVideoMode THEN "stop"
                       ELSE "configure")

(* Back from stopVideoMode: only the camera is looked at again.            *)
(* Variant: nothing is.                                                    *)
CameraGoneUnseen == FALSE
CameraGone == camera = "none"

PhotoRelock == PhotoGoto("relock", IF CameraGone THEN "idle" ELSE "configure")

(* takePicture returns, having stopped the camera if it had started it.    *)
PhotoReturn(from) ==
    /\ Goto("snap", from, "idle")
    /\ cameraOps' = "free"
    /\ photo' = "none"
    /\ UNCHANGED <<videoTeardown, config, video, flags>>

PhotoConfigure ==
    /\ \/ /\ Configurable
          /\ Goto("snap", "configure", "start")
          /\ camera' = "configured" /\ config' = "photo"
          /\ UNCHANGED <<locks, photo, saved, video, flags>>
       \/ PhotoReturn("configure") /\ UNCHANGED <<camera, saved>>

(* Buffers, request, slot, start: each of them may fail.                   *)
PhotoStart ==
    /\ \/ /\ camera = "configured"
          /\ Goto("snap", "start", "queue")
          /\ camera' = "running"
          /\ UNCHANGED <<locks, config, photo, saved, video, flags>>
       \/ PhotoReturn("start") /\ UNCHANGED <<camera, saved>>

PhotoQueue ==
    /\ \/ /\ camera = "running"
          /\ Goto("snap", "queue", "wait")
          /\ photo' = "queued"
          /\ UNCHANGED <<locks, camera, config, saved, video, flags>>
       \/ PhotoReturn("queue") /\ camera' = "configured" /\ UNCHANGED saved

(* libcamera completes the request.                                        *)
PhotoComplete ==
    /\ camera = "running" /\ photo = "queued" /\ ~TimedOut
    /\ photo' = "complete"
    /\ UNCHANGED <<pc, locks, camera, config, saved, video, flags>>

(* The slot was called, or five seconds have passed.                       *)
PhotoWait ==
    /\ Goto("snap", "wait", IF photo = "queued" THEN "timedOut" ELSE "save")
    /\ UNCHANGED <<locks, device, video, flags>>

(* The picture is written out, or cannot be, or there is none; the camera  *)
(* is stopped.                                                             *)
PhotoSave ==
    /\ StopReturns
    /\ PhotoReturn(IF TimedOut THEN "timedOut" ELSE "save")
    /\ camera' = "configured"
    /\ saved' \in IF TimedOut THEN {saved} ELSE {photo, saved}

Snap == \/ PhotoCall \/ PhotoLock \/ PhotoRelock \/ PhotoConfigure \/ PhotoStart
        \/ PhotoQueue \/ PhotoComplete \/ PhotoWait \/ PhotoSave

-----------------------------------------------------------------------------
(* stopVideoMode, called by a picture and at the end of a session.         *)

(* Variant: nobody asks whether video mode is still on.                    *)
StopNeededAlways == TRUE
StopNeeded == isVideoMode

AfterStop(t) == IF t = "snap" THEN "relock" ELSE "idle"

StopLock(t) ==
    /\ videoTeardown = "free"
    /\ IF StopNeeded
       THEN Goto(t, "stop", "stopCamera") /\ videoTeardown' = t
       ELSE Goto(t, "stop", AfterStop(t)) /\ UNCHANGED videoTeardown
    /\ UNCHANGED <<cameraOps, device, video, flags>>

(* Without cameraOpsMutex_: the callback in flight may need it to end.     *)
StopCamera(t) ==
    /\ Goto(t, "stopCamera", "stopOps")
    /\ StopIfRunning
    /\ UNCHANGED <<locks, config, saved, video, flags>>

StopOps(t) ==
    /\ cameraOps = "free"
    /\ Goto(t, "stopOps", "stopFree")
    /\ requests' = FALSE /\ pipeline' = FALSE
    /\ UNCHANGED <<locks, device, isVideoMode, allocator, flags>>

StopFree(t) ==
    /\ Goto(t, "stopFree", AfterStop(t))
    /\ allocator' = FALSE /\ isVideoMode' = FALSE
    /\ videoTeardown' = "free"
    /\ UNCHANGED <<cameraOps, device, pipeline, requests, flags>>

StopVideo(t) == StopLock(t) \/ StopCamera(t) \/ StopOps(t) \/ StopFree(t)

-----------------------------------------------------------------------------
(* startVideoMode, and the session around it.                              *)

(* The checker starts a session with no recovery outstanding.              *)
SessionCall ==
    /\ pc["check"] = "idle" /\ ~cameraRecoveryNeeded
    /\ Goto("hls", "idle", "start")
    /\ UNCHANGED <<locks, device, video, flags>>

StartReturnsFalse(from) ==
    /\ Goto("hls", from, "idle")
    /\ cameraOps' = "free"
    /\ cameraRecoveryNeeded' = TRUE
    /\ UNCHANGED <<videoTeardown, photo, saved, isVideoMode, pipeline,
                   requests, snapshotsPaused, keepRunning>>

StartLock ==
    /\ cameraOps = "free"
    /\ IF camera = "none"
       THEN StartReturnsFalse("start") /\ UNCHANGED <<camera, config, allocator>>
       ELSE /\ Goto("hls", "start", "configure")
            /\ TakeOps("hls")
            /\ UNCHANGED <<videoTeardown, device, video, flags>>

(* Configuration or buffers may fail; there is nothing to roll back yet.   *)
StartConfigure ==
    /\ \/ /\ Configurable
          /\ camera' = "configured" /\ config' = "video"
          /\ \/ /\ Goto("hls", "configure", "build")
                /\ allocator' = TRUE
                /\ UNCHANGED <<locks, photo, saved, isVideoMode, pipeline,
                               requests, flags>>
             \/ StartReturnsFalse("configure") /\ allocator' = FALSE
       \/ StartReturnsFalse("configure") /\ UNCHANGED <<camera, config, allocator>>

(* cameraOpsMutex_ is released before the rollback.                        *)
StartGoto(from, to) ==
    /\ \/ Goto("hls", from, to) /\ UNCHANGED cameraOps
       \/ Goto("hls", from, "rollback") /\ cameraOps' = "free"
    /\ UNCHANGED <<videoTeardown, config, photo, saved, isVideoMode,
                   allocator, flags>>

(* A pipeline that cannot be built is gone when the rollback begins.       *)
StartBuild ==
    /\ StartGoto("build", "startCamera")
    /\ pipeline' = (pc'["hls"] = "startCamera")
    /\ UNCHANGED <<camera, requests>>

StartCamera ==
    /\ StartGoto("startCamera", "queue")
    /\ camera' = IF pc'["hls"] = "queue" THEN "running" ELSE camera
    /\ UNCHANGED <<pipeline, requests>>

(* One request per buffer; the loop may stop at any of them.               *)
StartQueue ==
    /\ StartGoto("queue", "activate")
    /\ requests' \in {pc'["hls"] = "activate", TRUE}
    /\ UNCHANGED <<camera, pipeline>>

StartActivate ==
    /\ Goto("hls", "activate", "live")
    /\ isVideoMode' = TRUE
    /\ cameraOps' = "free"
    /\ UNCHANGED <<videoTeardown, device, allocator, pipeline, requests, flags>>

RollbackLock ==
    /\ videoTeardown = "free"
    /\ Goto("hls", "rollback", "rollbackCamera")
    /\ videoTeardown' = "hls"
    /\ UNCHANGED <<cameraOps, device, video, flags>>

RollbackCamera ==
    /\ Goto("hls", "rollbackCamera", "rollbackFree")
    /\ StopIfRunning
    /\ UNCHANGED <<locks, config, saved, video, flags>>

RollbackFree ==
    /\ Goto("hls", "rollbackFree", "rollbackEnd")
    /\ requests' = FALSE /\ pipeline' = FALSE /\ allocator' = FALSE
    /\ videoTeardown' = "free"
    /\ UNCHANGED <<cameraOps, device, isVideoMode, flags>>

(* cameraOpsMutex_ is taken again only to be released on return.           *)
RollbackEnd ==
    /\ cameraOps = "free"
    /\ StartReturnsFalse("rollbackEnd")
    /\ UNCHANGED <<camera, config, allocator>>

(* Variant: the worker is gone without a stop.                             *)
EndOfSessionEncoding == "idle"
EndOfSession == "stop"

SessionEnd ==
    /\ Goto("hls", "live", EndOfSession)
    /\ UNCHANGED <<locks, device, video, flags>>

StartVideo == \/ StartLock \/ StartConfigure \/ StartBuild \/ StartCamera
              \/ StartQueue \/ StartActivate
Rollback   == RollbackLock \/ RollbackCamera \/ RollbackFree \/ RollbackEnd
Session    == SessionCall \/ StartVideo \/ Rollback \/ SessionEnd

-----------------------------------------------------------------------------
(* reinitialize, called by the checker once the failed session is joined.  *)

ReinitCall ==
    /\ cameraRecoveryNeeded /\ pc["hls"] = "idle"
    /\ Goto("check", "idle", IF keepRunning THEN "reinit" ELSE "idle")
    /\ cameraRecoveryNeeded' = FALSE
    /\ UNCHANGED <<locks, device, video, snapshotsPaused, keepRunning>>

ReinitLock ==
    /\ Goto("check", "reinit", "release")
    /\ TakeOps("check")
    /\ UNCHANGED <<videoTeardown, device, video, flags>>

ReinitRelease ==
    /\ Goto("check", "release", "acquire")
    /\ camera' = "none" /\ config' = "none"
    /\ allocator' = FALSE /\ pipeline' = FALSE
    /\ UNCHANGED <<locks, photo, saved, isVideoMode, requests, flags>>

(* Variant: a success leaves snapshots paused.                             *)
PausedAfterSticky(acquired) == snapshotsPaused \/ ~acquired
PausedAfter(acquired) == ~acquired

(* Nothing listed, not acquired, or recovered.                             *)
ReinitAcquire ==
    /\ Goto("check", "acquire", "idle")
    /\ camera' \in {"none", "available", "acquired"}
    /\ snapshotsPaused' = PausedAfter(camera' = "acquired")
    /\ cameraOps' = "free"
    /\ UNCHANGED <<videoTeardown, config, photo, saved, video, cameraRecoveryNeeded,
                   keepRunning>>

CheckDone ==
    /\ ~keepRunning
    /\ Goto("check", "idle", "done")
    /\ UNCHANGED <<locks, device, video, flags>>

Check == ReinitCall \/ ReinitLock \/ ReinitRelease \/ ReinitAcquire \/ CheckDone

-----------------------------------------------------------------------------
Next == \/ Main \/ Snap \/ Session \/ Check
        \/ \E t \in {"snap", "hls"} : StopVideo(t)

Spec == Init /\ [][Next]_vars

(* Threads are scheduled, and a mutex that is free again and again is not  *)
(* withheld from a thread for ever: its other users sleep between calls.   *)
Fairness ==
    /\ WF_vars(PhotoConfigure \/ PhotoStart \/ PhotoQueue \/ PhotoWait \/ PhotoSave)
    /\ WF_vars(StartConfigure \/ StartBuild \/ StartCamera \/ StartQueue \/ StartActivate)
    /\ WF_vars(RollbackCamera \/ RollbackFree)
    /\ WF_vars(ReinitRelease \/ ReinitAcquire)
    /\ \A t \in {"snap", "hls"} : WF_vars(StopCamera(t) \/ StopFree(t))
    /\ \A t \in {"snap", "hls"} : SF_vars(StopLock(t)) /\ SF_vars(StopOps(t))
    /\ SF_vars(PhotoLock \/ PhotoRelock)
    /\ SF_vars(StartLock)
    /\ SF_vars(RollbackLock \/ RollbackEnd)
    /\ SF_vars(ReinitLock)

FairSpec == Spec /\ Fairness

-----------------------------------------------------------------------------
(* Properties.                                                             *)

Capturing == pc["snap"] \in {"configure", "start", "queue", "wait", "save", "timedOut"}
Beginning == pc["hls"] \in {"configure", "build", "startCamera", "queue", "activate"}
Stopping(t) == pc[t] \in {"stopCamera", "stopOps", "stopFree"}
RollingBack == pc["hls"] \in {"rollbackCamera", "rollbackFree"}
Recovering == pc["check"] \in {"release", "acquire"}

(* A mutex is held by the one thread that stands inside it.                *)
LocksOK ==
    /\ cameraOps = CASE Capturing -> "snap" [] Beginning -> "hls"
                     [] Recovering -> "check" [] OTHER -> "free"
    /\ videoTeardown = CASE Stopping("snap") -> "snap"
                         [] Stopping("hls") \/ RollingBack -> "hls"
                         [] OTHER -> "free"

Labels == {"unborn", "boot", "list", "run", "done", "idle", "photo", "relock",
           "configure", "start", "queue", "wait", "save", "timedOut", "stop",
           "stopCamera", "stopOps", "stopFree", "build", "startCamera", "activate",
           "live", "rollback", "rollbackCamera", "rollbackFree", "rollbackEnd",
           "reinit", "release", "acquire"}

TypeOK ==
    /\ pc \in [Threads -> Labels]
    /\ camera \in {"none", "available", "acquired", "configured", "running"}
    /\ config \in {"none", "photo", "video"}
    /\ photo \in {"none", "queued", "complete", "cancelled"}
    /\ saved \in {"none", "complete", "cancelled"}
    /\ isVideoMode \in BOOLEAN /\ allocator \in BOOLEAN
    /\ pipeline \in BOOLEAN /\ requests \in BOOLEAN
    /\ snapshotsPaused \in BOOLEAN /\ cameraRecoveryNeeded \in BOOLEAN
    /\ keepRunning \in BOOLEAN
    /\ LocksOK

(* No operation uses camera_ after a reinitialize has reset it, although   *)
(* stops and rollbacks do not hold cameraOpsMutex_ and a picture lets go   *)
(* of it half way (CameraManager.cpp:180-187).                             *)
CameraPresent ==
    \/ Capturing \/ Beginning \/ RollingBack \/ Stopping("snap") \/ Stopping("hls")
    => camera # "none"

(* The camera starts in the configuration of the thread that starts it.    *)
OwnConfiguration ==
    /\ pc["snap"] \in {"start", "queue", "wait", "save", "timedOut"} => config = "photo"
    /\ Beginning /\ pc["hls"] # "configure" => config = "video"

(* A camera that runs for the encoder has its buffers, its pipeline and,   *)
(* in video mode, its requests: CameraManager.h:36-40.                     *)
BuffersOutliveCapture ==
    camera = "running" /\ config = "video" =>
        allocator /\ pipeline /\ (isVideoMode => requests)

(* CameraManager.h:90: after a failed reinitialize no picture is taken     *)
(* until one succeeds, even by a call that was under way.                  *)
PausedSkips == camera = "running" /\ config = "photo" => ~snapshotsPaused

(* Of the operations that look for a video mode to stop, only takePicture  *)
(* ever finds one: the tests in startVideoMode, reinitialize and the       *)
(* destructor (CameraManager.cpp:113, 534, 820) find none.                 *)
OnlyPhotoFindsVideo ==
    \/ pc["hls"] = "start"
    \/ pc["check"] = "reinit"
    \/ pc["snap"] = "done" /\ pc["check"] = "done" /\ pc["hls"] = "idle"
    => ~isVideoMode

(* Nothing but the rollback of a failed start stops the camera under a     *)
(* picture: no stop of an encoder that is already stopped does.            *)
CancelledByRollback ==
    [][photo = "queued" /\ photo' = "cancelled" => pc["hls"] = "rollbackCamera"]_vars

(* Every operation returns, unless a picture has timed out: the mutexes    *)
(* are taken in an order that admits no deadlock (CameraManager.h:41).     *)
CallsReturn ==
    /\ pc["snap"] = "photo" ~> pc["snap"] \in {"idle", "timedOut"}
    /\ pc["hls"] = "start" ~> pc["hls"] \in {"idle", "live"} \/ TimedOut
    /\ pc["hls"] = "stop" ~> pc["hls"] = "idle" \/ TimedOut
    /\ pc["check"] = "reinit" ~> pc["check"] = "idle" \/ TimedOut

(* CameraManager.h:70: no lock that a callback of libcamera needs is held  *)
(* across Camera::stop; a picture that never comes is given up after five  *)
(* seconds (CameraManager.cpp:251).                                        *)
TimeoutReturns == TimedOut ~> pc["snap"] = "idle"

(* README.md:18: the camera is handled safely across threads.  A picture   *)
(* that is written out, and then uploaded, was taken.                      *)
SavedIsComplete == saved # "cancelled"

-----------------------------------------------------------------------------
(* Refinement.                                                             *)

Calls == INSTANCE CameraCalls WITH videoMode <- isVideoMode, paused <- snapshotsPaused

(* The operations, locks and failures included, take effect as single      *)
(* steps: what StreamControl takes them for.                               *)
ImplementsCalls == Calls!Spec
=============================================================================
