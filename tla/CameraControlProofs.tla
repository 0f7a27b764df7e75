------------------------- MODULE CameraControlProofs -------------------------
(***************************************************************************)
(* Proofs about CameraControl: its invariants, who stops the camera under  *)
(* a picture, and that its operations implement CameraCalls.               *)
(***************************************************************************)
EXTENDS CameraControl, TLAPS

-----------------------------------------------------------------------------
(* The inductive invariant.                                                *)

UsesCamera == {"start", "queue", "wait", "save", "timedOut"}
Starts     == {"build", "startCamera", "queue", "activate"}
Stops      == {"stopCamera", "stopOps", "stopFree"}
Rollbacks  == {"rollback", "rollbackCamera", "rollbackFree"}
Ready      == {"configured", "running"}
Unusable   == {"none", "available"}

(* Each mutex names the thread that stands inside it.                      *)
MutexOK ==
    /\ cameraOps \in {"free", "snap", "hls", "check"}
    /\ Capturing <=> cameraOps = "snap"
    /\ Beginning <=> cameraOps = "hls"
    /\ Recovering <=> cameraOps = "check"
    /\ videoTeardown \in {"free", "snap", "hls"}
    /\ Stopping("snap") <=> videoTeardown = "snap"
    /\ Stopping("hls") \/ RollingBack <=> videoTeardown = "hls"

(* The threads only live while main runs, and a recovery is due or under   *)
(* way only between two sessions.                                          *)
ThreadsOK ==
    /\ pc["main"] # "run" => /\ pc["snap"] \in {"unborn", "done"}
                             /\ pc["check"] \in {"unborn", "done"}
                             /\ pc["hls"] \in {"unborn", "idle"}
    /\ cameraRecoveryNeeded \/ Recovering \/ pc["check"] = "reinit" => pc["hls"] = "idle"

(* Snapshots are paused exactly while a reinitialize has left no camera    *)
(* that can be configured; whoever has configured it finds it so.          *)
CameraOK ==
    /\ pc["main"] # "run" => camera \in Unusable
    /\ pc["main"] \in {"boot", "list"} => ~snapshotsPaused
    /\ pc["main"] = "run" /\ pc["check"] # "acquire" =>
         (snapshotsPaused <=> camera \in Unusable)
    /\ pc["check"] = "acquire" => camera = "none"
    /\ pc["snap"] = "configure" \/ pc["hls"] = "configure" => camera # "none"
    /\ pc["snap"] \in UsesCamera => camera \in Ready
    /\ pc["hls"] \in Starts \union Stops \union Rollbacks \union {"live", "stop"}
         => camera \in Ready

(* The request of a picture exists from its queueing to its return.        *)
PhotoOK ==
    /\ photo # "none" => pc["snap"] \in {"wait", "save", "timedOut"}
    /\ pc["snap"] = "wait" => photo # "none"
    /\ pc["snap"] = "save" => photo \in {"complete", "cancelled"}
    /\ pc["snap"] = "timedOut" => photo = "queued"

(* The camera runs for the encoder exactly while a start has it running or *)
(* video mode is on and no stop has got past Camera::stop.                 *)
VideoStreaming ==
    /\ isVideoMode
    /\ pc["hls"] \in {"live", "stop", "stopCamera"}
    /\ pc["snap"] \notin {"stopOps", "stopFree"}

VideoOK ==
    /\ Stopping("snap") \/ Stopping("hls") => isVideoMode
    /\ isVideoMode => pc["hls"] \in {"live", "stop"} \union Stops
    /\ pc["hls"] \in {"queue", "activate"} \/ VideoStreaming
         => camera = "running" /\ config = "video"
    /\ camera = "running" /\ config = "video" =>
         \/ pc["hls"] \in {"queue", "activate", "rollback", "rollbackCamera"}
         \/ VideoStreaming

(* What a start has built is there for as long as the camera runs for it.  *)
BuffersOK ==
    /\ pc["hls"] \in Starts => allocator
    /\ pc["hls"] \in {"startCamera", "queue", "activate"} => pipeline
    /\ camera = "running" /\ config = "video" =>
         /\ allocator /\ pipeline
         /\ pc["hls"] \in {"activate", "live", "stop", "stopCamera"} => requests

DeviceOK ==
    /\ camera \in {"none", "available", "acquired", "configured", "running"}
    /\ config \in {"none", "photo", "video"}
    /\ photo \in {"none", "queued", "complete", "cancelled"}
    /\ saved \in {"none", "complete", "cancelled"}

FlagsOK ==
    /\ isVideoMode \in BOOLEAN /\ allocator \in BOOLEAN
    /\ pipeline \in BOOLEAN /\ requests \in BOOLEAN
    /\ snapshotsPaused \in BOOLEAN /\ cameraRecoveryNeeded \in BOOLEAN
    /\ keepRunning \in BOOLEAN

Control ==
    /\ pc \in [Threads -> Labels]
    /\ MutexOK /\ ThreadsOK /\ DeviceOK /\ CameraOK /\ PhotoOK
    /\ OwnConfiguration /\ VideoOK /\ BuffersOK

IInv == Control /\ FlagsOK

-----------------------------------------------------------------------------
(* The parts of the invariant are open from here to the end of its proof.  *)
USE DEF Control, Labels, Threads, UsesCamera, Starts, Stops, Rollbacks, Ready,
        Unusable, MutexOK, ThreadsOK, DeviceOK, CameraOK, PhotoOK,
        OwnConfiguration, VideoOK, VideoStreaming, BuffersOK, Capturing,
        Beginning, Stopping, RollingBack, Recovering

LEMMA InvInit == Init => IInv
<1> SUFFICES ASSUME Init PROVE IInv
  OBVIOUS
<1>1. FlagsOK
  BY Zenon DEF Init, FlagsOK
<1>2. Control
  BY DEF Init
<1>. QED
  BY <1>1, <1>2 DEF IInv

(* What a step may leave in a flag it does not simply set.                 *)
LEMMA StartBuildEffect ==
    StartBuild => /\ StartGoto("build", "startCamera")
                  /\ pc'["hls"] = "startCamera" => pipeline'
                  /\ UNCHANGED <<camera, requests>>
BY Zenon DEF StartBuild

LEMMA StartQueueEffect ==
    StartQueue => /\ StartGoto("queue", "activate")
                  /\ pc'["hls"] = "activate" => requests'
                  /\ UNCHANGED <<camera, pipeline>>
<1> SUFFICES ASSUME StartQueue, pc'["hls"] = "activate" PROVE requests'
  BY Zenon DEF StartQueue
<1>. QED
  BY Zenon DEF StartQueue

(* Main makes the camera and, when no other thread is left, destroys it.   *)
LEMMA MainStep == Control /\ Main => Control'
<1> SUFFICES ASSUME Control, Main PROVE Control'
  OBVIOUS
<1>1. CASE InitConstruct
  BY <1>1 DEF InitConstruct, Goto, locks, device, video, flags
<1>2. CASE InitAcquire
  BY <1>2 DEF InitAcquire, Goto, locks, video, flags
<1>3. CASE Signal
  BY <1>3 DEF Signal, locks, device, video
<1>4. CASE Destroy
  BY <1>4 DEF Destroy, Goto, locks, flags
<1>. QED
  BY <1>1, <1>2, <1>3, <1>4 DEF Main

(* A picture configures a camera that does not run, which is not the       *)
(* encoder's.                                                              *)
LEMMA SnapStep == Control /\ Snap => Control'
<1> SUFFICES ASSUME Control, Snap PROVE Control'
  OBVIOUS
<1>1. CASE PhotoCall
  BY <1>1 DEF PhotoCall, Goto, locks, device, video, flags
<1>2. CASE PhotoLock
  BY <1>2 DEF PhotoLock, PhotoGoto, Goto, KeepsOps, TakeOps, device, video,
              flags
<1>3. CASE PhotoRelock
  BY <1>3 DEF PhotoRelock, PhotoGoto, Goto, KeepsOps, TakeOps, device, video,
              flags, CameraGone
<1>4. CASE PhotoConfigure
  <2>1. pc["hls"] \notin {"configure", "build", "startCamera", "queue", "activate"}
    BY <1>4 DEF PhotoConfigure, PhotoReturn, Goto
  <2>2. Configurable => ~VideoStreaming
    BY DEF Configurable
  <2>. QED
    BY <1>4, <2>1, <2>2 DEF PhotoConfigure, Configurable, Goto, locks, video, flags,
       PhotoReturn
<1>5. CASE PhotoStart
  BY <1>5 DEF PhotoStart, Goto, locks, video, flags, PhotoReturn
<1>6. CASE PhotoQueue
  BY <1>6 DEF PhotoQueue, Goto, locks, video, flags, PhotoReturn
<1>7. CASE PhotoComplete
  BY <1>7 DEF PhotoComplete, TimedOut, locks, video, flags
<1>8. CASE PhotoWait
  BY <1>8 DEF PhotoWait, Goto, locks, device, video, flags
<1>9. CASE PhotoSave
  BY <1>9 DEF PhotoSave, StopReturns, TimedOut, PhotoReturn, Goto, video, flags
<1>. QED
  BY <1>1, <1>2, <1>3, <1>4, <1>5, <1>6, <1>7, <1>8, <1>9 DEF Snap

(* Whoever finds video mode on keeps the session from ending, and so the   *)
(* checker from a reinitialize, until its stop is over.                    *)
LEMMA SnapStopStep == Control /\ StopVideo("snap") => Control'
<1> SUFFICES ASSUME Control, StopVideo("snap") PROVE Control'
  OBVIOUS
<1>1. CASE StopLock("snap")
  BY <1>1 DEF StopLock, StopNeeded, Goto, AfterStop, device, video, flags
<1>2. CASE StopCamera("snap")
  BY <1>2 DEF StopCamera, Goto, StopIfRunning, StopReturns, TimedOut, locks,
              video, flags
<1>3. CASE StopOps("snap")
  BY <1>3 DEF StopOps, Goto, locks, device, flags
<1>4. CASE StopFree("snap")
  <2>1. pc["hls"] \in {"live", "stop"} /\ ~(camera = "running" /\ config = "video")
    BY <1>4 DEF StopFree, Goto
  <2>. QED
    BY <1>4, <2>1 DEF StopFree, Goto, AfterStop, device, flags
<1>. QED
  BY <1>1, <1>2, <1>3, <1>4 DEF StopVideo

LEMMA SessionStopStep == Control /\ StopVideo("hls") => Control'
<1> SUFFICES ASSUME Control, StopVideo("hls") PROVE Control'
  OBVIOUS
<1>1. CASE StopLock("hls")
  BY <1>1 DEF StopLock, StopNeeded, Goto, AfterStop, device, video, flags
<1>2. CASE StopCamera("hls")
  BY <1>2 DEF StopCamera, Goto, StopIfRunning, StopReturns, TimedOut, locks,
              video, flags
<1>3. CASE StopOps("hls")
  BY <1>3 DEF StopOps, Goto, locks, device, flags
<1>4. CASE StopFree("hls")
  BY <1>4 DEF StopFree, Goto, AfterStop, device, flags
<1>. QED
  BY <1>1, <1>2, <1>3, <1>4 DEF StopVideo

(* A start has the camera to itself until it activates video mode or lets  *)
(* go for the rollback.                                                    *)
LEMMA SessionStep == Control /\ Session => Control'
<1> SUFFICES ASSUME Control, Session PROVE Control'
  OBVIOUS
<1>1. CASE SessionCall
  BY <1>1 DEF SessionCall, Goto, locks, device, video, flags
<1>2. CASE StartLock
  BY <1>2 DEF StartLock, StartReturnsFalse, Goto, TakeOps, device, video, flags
<1>3. CASE StartConfigure
  BY <1>3 DEF StartConfigure, Configurable, video, Goto, locks, flags,
              StartReturnsFalse
<1>4. CASE StartBuild
  BY <1>4, StartBuildEffect DEF StartGoto, Goto, flags
<1>5. CASE StartCamera
  BY <1>5 DEF StartCamera, StartGoto, Goto, flags
<1>6. CASE StartQueue
  BY <1>6, StartQueueEffect DEF StartGoto, Goto, flags
<1>7. CASE StartActivate
  BY <1>7 DEF StartActivate, Goto, device, flags
<1>8. CASE RollbackLock
  BY <1>8 DEF RollbackLock, Goto, device, video, flags
<1>9. CASE RollbackCamera
  BY <1>9 DEF RollbackCamera, Goto, StopIfRunning, StopReturns, TimedOut, locks,
              video, flags
<1>10. CASE RollbackFree
  BY <1>10 DEF RollbackFree, Goto, device, flags
<1>11. CASE RollbackEnd
  BY <1>11 DEF RollbackEnd, StartReturnsFalse, Goto
<1>12. CASE SessionEnd
  BY <1>12 DEF SessionEnd, Goto, EndOfSession, locks, device, video, flags
<1>. QED
  BY <1>1, <1>2, <1>3, <1>4, <1>5, <1>6, <1>7, <1>8, <1>9, <1>10, <1>11, <1>12
     DEF Session, StartVideo, Rollback

(* A reinitialize finds no session and no video mode.                      *)
LEMMA CheckStep == Control /\ Check => Control'
<1> SUFFICES ASSUME Control, Check PROVE Control'
  OBVIOUS
<1>1. CASE ReinitCall
  BY <1>1 DEF ReinitCall, Goto, locks, device, video
<1>2. CASE ReinitLock
  BY <1>2 DEF ReinitLock, Goto, TakeOps, device, video, flags
<1>3. CASE ReinitRelease
  <2>1. pc["hls"] = "idle" /\ ~isVideoMode
    BY <1>3 DEF ReinitRelease, Goto
  <2>2. ~Capturing /\ ~Stopping("snap")
    BY <1>3, <2>1 DEF ReinitRelease, Goto
  <2>. QED
    BY <1>3, <2>1, <2>2 DEF ReinitRelease, Goto, locks, flags
<1>4. CASE ReinitAcquire
  BY <1>4 DEF ReinitAcquire, Goto, PausedAfter, video
<1>5. CASE CheckDone
  BY <1>5 DEF CheckDone, Goto, locks, device, video, flags
<1>. QED
  BY <1>1, <1>2, <1>3, <1>4, <1>5 DEF Check

LEMMA ControlStep == Control /\ [Next]_vars => Control'
<1> SUFFICES ASSUME Control, UNCHANGED vars PROVE Control'
  BY MainStep, SnapStep, SnapStopStep, SessionStopStep, SessionStep, CheckStep DEF Next
<1>. QED
  BY DEF vars, locks, device, video, flags

HIDE DEF Control, Labels, Threads, UsesCamera, Starts, Stops, Rollbacks, Ready,
         Unusable, MutexOK, ThreadsOK, DeviceOK, CameraOK, PhotoOK,
         OwnConfiguration, VideoOK, VideoStreaming, BuffersOK, Capturing,
         Beginning, Stopping, RollingBack, Recovering

(* The flags stay Boolean.                                                 *)
LEMMA FlagsStep == FlagsOK /\ [Next]_vars => FlagsOK'
<1> SUFFICES ASSUME FlagsOK, [Next]_vars PROVE FlagsOK'
  OBVIOUS
<1> USE DEF FlagsOK
<1>1. CASE Main
  BY <1>1, Zenon DEF Main, InitConstruct, Goto, locks, device, video, flags,
       InitAcquire, Signal, Destroy
<1>2. CASE Snap
  BY <1>2, Zenon DEF Snap, PhotoCall, Goto, locks, device, video, flags,
       PhotoLock, PhotoGoto, KeepsOps, TakeOps, PhotoRelock, CameraGone,
       PhotoConfigure, Configurable, PhotoReturn, PhotoStart, PhotoQueue,
       PhotoComplete, TimedOut, PhotoWait, PhotoSave, StopReturns
<1>3. CASE \E t \in {"snap", "hls"} : StopVideo(t)
  BY <1>3, Zenon DEF StopVideo, StopLock, StopNeeded, Goto, AfterStop, device,
       video, flags, StopCamera, StopIfRunning, StopReturns, TimedOut, locks,
       StopOps, StopFree
<1>4. CASE StartVideo
  BY <1>4, Zenon DEF StartVideo, StartLock, StartReturnsFalse, Goto, TakeOps,
       device, video, flags, StartConfigure, Configurable, locks, StartBuild,
       StartGoto, StartCamera, StartQueue, StartActivate
<1>5. CASE SessionCall \/ Rollback \/ SessionEnd
  BY <1>5, Zenon DEF Rollback, RollbackLock, Goto, device, video, flags,
       RollbackCamera, StopIfRunning, StopReturns, TimedOut, locks,
       RollbackFree, RollbackEnd, StartReturnsFalse, SessionCall, SessionEnd,
       EndOfSession
<1>6. CASE Check
  BY <1>6, Zenon DEF Check, ReinitCall, Goto, locks, device, video, ReinitLock,
       TakeOps, flags, ReinitRelease, ReinitAcquire, PausedAfter, CheckDone
<1>7. CASE UNCHANGED vars
  BY <1>7, Zenon DEF vars, locks, device, video, flags
<1>. QED
  BY <1>1, <1>2, <1>3, <1>4, <1>5, <1>6, <1>7 DEF Next, Session

LEMMA InvStep == IInv /\ [Next]_vars => IInv'
BY ControlStep, FlagsStep, Zenon DEF IInv

(* The four threads keep the invariant at every one of their steps.        *)
THEOREM Invariance == Spec => []IInv
BY InvInit, InvStep, PTL DEF Spec

-----------------------------------------------------------------------------
(* Every variable keeps its type, and each of the two mutexes is held by   *)
(* the one thread that stands inside it.                                   *)
THEOREM TypeCorrect == Spec => []TypeOK
<1>1. IInv => TypeOK
  <2> SUFFICES ASSUME IInv PROVE TypeOK
    OBVIOUS
  <2>1. LocksOK
    BY DEF IInv, Control, MutexOK, LocksOK, Capturing, Beginning, Recovering,
           Stopping, RollingBack
  <2>. QED
    BY <2>1, Zenon DEF IInv, Control, DeviceOK, FlagsOK, TypeOK
<1>. QED
  BY <1>1, Invariance, PTL

(* No operation ever uses a camera_ that a reinitialize has reset.         *)
THEOREM CameraIsPresent == Spec => []CameraPresent
<1>1. IInv => CameraPresent
  BY DEF IInv, Control, MutexOK, CameraOK, VideoOK, CameraPresent, Capturing, Beginning,
         RollingBack, Stopping, UsesCamera, Starts, Stops, Rollbacks, Ready
<1>. QED
  BY <1>1, Invariance, PTL

(* The camera starts in the configuration of the thread that starts it.    *)
THEOREM ConfiguredByStarter == Spec => []OwnConfiguration
<1>1. IInv => OwnConfiguration
  BY DEF IInv, Control
<1>. QED
  BY <1>1, Invariance, PTL

(* Buffers, pipeline and requests outlive the camera's run for the encoder. *)
THEOREM BuffersOutlive == Spec => []BuffersOutliveCapture
<1>1. IInv => BuffersOutliveCapture
  BY DEF IInv, Control, VideoOK, VideoStreaming, BuffersOK, BuffersOutliveCapture, Stops
<1>. QED
  BY <1>1, Invariance, PTL

(* After a failed reinitialize no picture is taken until one succeeds.     *)
THEOREM PausedIsKept == Spec => []PausedSkips
<1>1. IInv => PausedSkips
  BY DEF IInv, Control, ThreadsOK, CameraOK, PausedSkips, Unusable
<1>. QED
  BY <1>1, Invariance, PTL

(* Only takePicture finds a video mode to stop: the tests of               *)
(* startVideoMode, reinitialize and the destructor find none.              *)
THEOREM OnlyPhotoStops == Spec => []OnlyPhotoFindsVideo
<1>1. IInv => OnlyPhotoFindsVideo
  BY DEF IInv, Control, ThreadsOK, VideoOK, OnlyPhotoFindsVideo, Stops
<1>. QED
  BY <1>1, Invariance, PTL

(* Only these steps of libcamera's stop cancel the picture they find.      *)
LEMMA CancelledByStop ==
    [Next]_vars /\ photo = "queued" /\ photo' = "cancelled" =>
        StopCamera("snap") \/ StopCamera("hls") \/ RollbackCamera
<1> SUFFICES ASSUME [Next]_vars, photo = "queued", photo' = "cancelled"
             PROVE  StopCamera("snap") \/ StopCamera("hls") \/ RollbackCamera
  OBVIOUS
<1>1. ~Main /\ ~Check /\ ~UNCHANGED vars
  BY DEF Main, Check, vars, locks, device, InitConstruct, InitAcquire, Signal, Destroy,
         ReinitCall, ReinitLock, ReinitRelease, ReinitAcquire, CheckDone
<1>2. ~Snap
  BY DEF Snap, device, PhotoCall, PhotoLock, PhotoRelock, PhotoGoto, PhotoConfigure,
         PhotoReturn, PhotoStart, PhotoQueue, PhotoComplete, PhotoWait, PhotoSave
<1>3. ~StartVideo /\ ~SessionCall /\ ~SessionEnd
  BY DEF StartVideo, SessionCall, SessionEnd, device, StartLock, StartReturnsFalse,
         StartConfigure, StartGoto, StartBuild, StartCamera, StartQueue, StartActivate
<1>4. ~RollbackLock /\ ~RollbackFree /\ ~RollbackEnd
  BY DEF RollbackLock, RollbackFree, RollbackEnd, device, StartReturnsFalse
<1>5. \A t \in {"snap", "hls"} : ~StopLock(t) /\ ~StopOps(t) /\ ~StopFree(t)
  BY DEF StopLock, StopOps, StopFree, device
<1>. QED
  BY <1>1, <1>2, <1>3, <1>4, <1>5 DEF Next, Session, Rollback, StopVideo

(* Only the rollback of a failed start stops the camera under a picture:   *)
(* a stop of the encoder that reaches the camera finds the encoder's run   *)
(* of it, which no picture shares.                                         *)
THEOREM RollbackCancels == Spec => CancelledByRollback
<1>1. ASSUME IInv, [Next]_vars, photo = "queued", photo' = "cancelled"
      PROVE  pc["hls"] = "rollbackCamera"
  <2>1. pc["snap"] \in {"wait", "save", "timedOut"} /\ config = "photo"
    BY <1>1 DEF IInv, Control, PhotoOK, OwnConfiguration
  <2>2. pc["hls"] # "stopCamera"
    BY <2>1, <1>1 DEF IInv, Control, VideoOK, VideoStreaming, Stopping
  <2>3. ~StopCamera("snap") /\ ~StopCamera("hls")
    BY <2>1, <2>2 DEF StopCamera, Goto
  <2>. QED
    BY <1>1, <2>3, CancelledByStop DEF RollbackCamera, Goto
<1>. QED
  BY <1>1, Invariance, PTL DEF Spec, CancelledByRollback

-----------------------------------------------------------------------------
(* The order of the mutexes.                                               *)

(* Where a thread stands before a lock it has to wait for.                 *)
WaitsForTeardown(t) ==
    \/ t \in {"snap", "hls"} /\ pc[t] = "stop"
    \/ t = "hls" /\ pc[t] = "rollback"

WaitsForOps(t) ==
    \/ t \in {"snap", "hls"} /\ pc[t] = "stopOps"
    \/ t = "snap" /\ pc[t] \in {"photo", "relock"}
    \/ t = "hls" /\ pc[t] \in {"start", "rollbackEnd"}
    \/ t = "check" /\ pc[t] = "reinit"

(* videoTeardownMutex_ comes before cameraOpsMutex_: the owner of the      *)
(* second waits for neither, that of the first for the second at most      *)
(* (CameraManager.cpp:685).                                                *)
LockOrder ==
    \A t \in Threads :
        /\ cameraOps = t => ~WaitsForOps(t) /\ ~WaitsForTeardown(t)
        /\ videoTeardown = t => ~WaitsForTeardown(t)

(* So the camera operations never wait for one another in a circle,        *)
(* whichever of their many ways out they take.                             *)
THEOREM NoCircularWait == Spec => []LockOrder
<1>1. IInv => LockOrder
  <2> SUFFICES ASSUME IInv, NEW t \in Threads
               PROVE  /\ cameraOps = t => ~WaitsForOps(t) /\ ~WaitsForTeardown(t)
                      /\ videoTeardown = t => ~WaitsForTeardown(t)
    BY DEF LockOrder
  <2>1. MutexOK
    BY DEF IInv, Control
  <2>2. CASE cameraOps = t
    BY <2>1, <2>2 DEF MutexOK, Threads, Capturing, Beginning, Recovering, Stopping,
       RollingBack, WaitsForOps, WaitsForTeardown
  <2>3. CASE videoTeardown = t
    BY <2>1, <2>2, <2>3 DEF MutexOK, Threads, Stopping, RollingBack, WaitsForTeardown
  <2>. QED
    BY <2>2, <2>3
<1>. QED
  BY <1>1, Invariance, PTL

-----------------------------------------------------------------------------
(* Refinement.                                                             *)

(* What a step does to the two flags the callers know of.                  *)
LEMMA FlagsChange ==
    [Next]_vars => \/ StartActivate
                   \/ StopFree("snap") \/ StopFree("hls")
                   \/ ReinitAcquire
                   \/ UNCHANGED <<isVideoMode, snapshotsPaused>>
<1> SUFFICES ASSUME [Next]_vars PROVE \/ StartActivate
                                      \/ StopFree("snap") \/ StopFree("hls")
                                      \/ ReinitAcquire
                                      \/ UNCHANGED <<isVideoMode, snapshotsPaused>>
  OBVIOUS
<1>1. CASE Main \/ UNCHANGED vars
  BY <1>1, Zenon DEF Main, vars, video, flags, InitConstruct, InitAcquire, Signal, Destroy
<1>2. CASE Snap
  BY <1>2, Zenon DEF Snap, video, flags, PhotoCall, PhotoLock, PhotoRelock, PhotoGoto,
     PhotoConfigure, PhotoReturn, PhotoStart, PhotoQueue, PhotoComplete, PhotoWait,
     PhotoSave
<1>3. CASE \E t \in {"snap", "hls"} : StopVideo(t)
  BY <1>3, Zenon DEF StopVideo, StopLock, StopCamera, StopOps, video, flags
<1>4. CASE StartVideo
  BY <1>4, Zenon DEF StartVideo, StartLock, StartReturnsFalse, StartConfigure, StartGoto,
     StartBuild, StartCamera, StartQueue, video, flags
<1>5. CASE SessionCall \/ Rollback \/ SessionEnd
  BY <1>5, Zenon DEF SessionCall, SessionEnd, Rollback, RollbackLock, RollbackCamera,
     RollbackFree, RollbackEnd, StartReturnsFalse, video, flags
<1>6. CASE Check
  BY <1>6, Zenon DEF Check, ReinitCall, ReinitLock, ReinitRelease, CheckDone, video, flags
<1>. QED
  BY <1>1, <1>2, <1>3, <1>4, <1>5, <1>6 DEF Next, Session

(* With their locks and failures, the operations take effect as the single *)
(* steps their callers take them for: the activation of a start, the last  *)
(* step of a stop, the end of a reinitialize; every other step stutters.   *)
THEOREM Refinement == Spec => ImplementsCalls
<1>1. Init => Calls!Init
  BY Zenon DEF Init, Calls!Init
<1>2. ASSUME IInv, [Next]_vars
      PROVE  [Calls!Next]_<<isVideoMode, snapshotsPaused>>
  <2>1. CASE StartActivate
    <3>1. ~isVideoMode /\ ~snapshotsPaused
      BY <1>2, <2>1 DEF IInv, Control, StartActivate, Goto, ThreadsOK, CameraOK, VideoOK,
         Recovering, Starts, Stops, Ready, Unusable
    <3>. QED
      BY <2>1, <3>1, Zenon DEF StartActivate, flags, Calls!Next, Calls!StartVideo
  <2>2. CASE StopFree("snap") \/ StopFree("hls")
    <3>1. isVideoMode
      BY <1>2, <2>2 DEF IInv, Control, StopFree, Goto, VideoOK, Stopping
    <3>. QED
      BY <2>2, <3>1, Zenon DEF StopFree, flags, Calls!Next, Calls!StopVideo
  <2>3. CASE ReinitAcquire
    <3>1. ~isVideoMode
      BY <1>2, <2>3 DEF IInv, Control, ReinitAcquire, Goto, ThreadsOK, VideoOK,
         Recovering, Stops
    <3>. QED
      BY <2>3, <3>1, Zenon DEF ReinitAcquire, PausedAfter, video, Calls!Next,
         Calls!Reinitialize
  <2>. QED
    BY <1>2, <2>1, <2>2, <2>3, FlagsChange
<1>. QED
  BY <1>1, <1>2, Invariance, PTL DEF Spec, ImplementsCalls, Calls!Spec
=============================================================================
