---------------------------- MODULE StreamControl ----------------------------
(***************************************************************************)
(* The five threads of src/main.cpp and the atomics they share: main, the  *)
(* snapshot worker, the stream checker, the resource monitor and the HLS   *)
(* worker the checker starts and joins.  One action per load, store,       *)
(* exchange, join or blocking call that another thread can observe; a      *)
(* camera call is one step with every outcome it may report.               *)
(*                                                                         *)
(* Time is absent: a sleep is a step that may be delayed for any length.   *)
(* The STREAM_TIMEOUT grace is therefore a free choice once the API has    *)
(* answered true; StreamDecision gives that decision its exact clock.      *)
(***************************************************************************)
EXTENDS Naturals

CONSTANT DrainPolls     \* polls of the uploader after the encoder stopped (8)

ASSUME DrainPollsAssumption == DrainPolls \in Nat

VARIABLES
    pcMain, pcSnap, pcCheck, pcMon, pcHls,  \* where each thread stands
    keepRunning,            \* cleared by the signal handler, never set again
    streamShouldRun,        \* the session the checker started is wanted
    emergencyStopHls,       \* raised by the monitor, exchanged by the checker
    cameraRecoveryNeeded,   \* raised by an HLS worker that failed to start
    reply,                  \* the API answer in hand, "none" for unreachable
    lastDefinitiveStreamOn, \* last boolean the API answered
    requestSeen,            \* lastStreamRequestTime # 0
    drained,                \* uploader polls made since the encoder stopped
    videoMode,              \* CameraManager::isVideoMode_
    snapshotsPaused,        \* CameraManager::snapshotsPaused_
    encoderError            \* CameraManager::gstPipelineError_

pcs     == <<pcMain, pcSnap, pcCheck, pcMon, pcHls>>
flags   == <<keepRunning, streamShouldRun, emergencyStopHls, cameraRecoveryNeeded>>
intent  == <<reply, lastDefinitiveStreamOn, requestSeen>>
camera  == <<videoMode, snapshotsPaused, encoderError>>
vars    == <<pcs, flags, intent, drained, camera>>

MainLabels  == {"init", "initCamera", "initDone", "spawn", "run", "stopFlag",
                "joinSnapshot", "joinCheck", "joinMonitor", "stop", "stopJoin", "exit", "done"}
SnapLabels  == {"unborn", "top", "capture", "sleep", "done"}
CheckLabels == {"unborn", "top", "reap", "reapJoin", "emergency", "emergencyStop",
                "emergencyJoin", "recovery", "recoveryCheck", "recoveryStop",
                "recoveryJoin", "reinit", "minute", "api", "recheck", "decide",
                "wantOn", "wantOff", "stop", "stopJoin", "startFlag", "startThread",
                "sleep", "done"}
MonLabels   == {"unborn", "top", "sample", "sleep", "done"}
HlsLabels   == {"none", "cleanup", "start", "startFailed", "loopFlag", "loopKeep",
                "loopEmergency", "poll", "upload", "stopVideo", "drain", "clear",
                "exited"}
Replies     == {"on", "off", "none"}

Init ==
    /\ pcMain = "init"
    /\ pcSnap = "unborn"
    /\ pcCheck = "unborn"
    /\ pcMon = "unborn"
    /\ pcHls = "none"
    /\ keepRunning = TRUE
    /\ streamShouldRun = FALSE
    /\ emergencyStopHls = FALSE
    /\ cameraRecoveryNeeded = FALSE
    /\ reply = "none"
    /\ lastDefinitiveStreamOn = FALSE
    /\ requestSeen = FALSE
    /\ drained = 0
    /\ videoMode = FALSE
    /\ snapshotsPaused = FALSE
    /\ encoderError = FALSE

-----------------------------------------------------------------------------
(* The handle streamThread is joinable from the constructor of the thread  *)
(* until the join that follows its end: both writers reset it right after. *)
Joinable == pcHls # "none"

(* join() returns once the HLS worker has run to its end.                  *)
JoinHlsWorker ==
    /\ pcHls = "exited"
    /\ pcHls' = "none"

(* A new session starts only once no handle is left to join.               *)
(* Variant: the flag is tested in place of the handle.                     *)
CanStartByFlag == keepRunning /\ ~streamShouldRun
CanStart == keepRunning /\ ~Joinable

(* stopHlsStreamSession waits for the worker when there is one.            *)
(* Variant: it only asks the worker to stop.                               *)
AfterStopNoJoin(join, next) == next
AfterStop(join, next) == IF Joinable THEN join ELSE next

(* The condition of the three worker loops started by main.                *)
(* Variant: a loop that does not look at keepRunning.                      *)
WhileTrue(body) == body
WhileRunning(body) == IF keepRunning THEN body ELSE "done"

(* A polling session: the worker is inside its encode-and-upload loop.     *)
InLoop == pcHls \in {"loopFlag", "loopKeep", "loopEmergency", "poll", "upload"}

-----------------------------------------------------------------------------
(* Main and the signal handler.                                            *)

Signal ==
    /\ keepRunning
    /\ keepRunning' = FALSE
    /\ UNCHANGED <<pcs, streamShouldRun, emergencyStopHls, cameraRecoveryNeeded,
                   intent, drained, camera>>

MainGoto(from, to) ==
    /\ pcMain = from
    /\ pcMain' = to
    /\ UNCHANGED <<keepRunning, emergencyStopHls, cameraRecoveryNeeded, intent,
                   drained, snapshotsPaused, encoderError>>

(* The boot loop: a failed initialize is retried after a sleep, unless the *)
(* process was told to stop meanwhile.  The main loop waits for the signal *)
(* and the joins wait for their thread.                                    *)
MainMove ==
    /\ \/ MainGoto("init", IF keepRunning THEN "initCamera" ELSE "done")
       \/ MainGoto("initCamera", "init")
       \/ MainGoto("initCamera", "initDone")
       \/ MainGoto("initDone", IF keepRunning THEN "spawn" ELSE "done")
       \/ ~keepRunning /\ MainGoto("run", "stopFlag")
       \/ pcSnap = "done" /\ MainGoto("joinSnapshot", "joinCheck")
       \/ pcCheck = "done" /\ MainGoto("joinCheck", "joinMonitor")
       \/ pcMon = "done" /\ MainGoto("joinMonitor", "stop")
    /\ UNCHANGED <<pcSnap, pcCheck, pcMon, pcHls, streamShouldRun, videoMode>>

MainSpawn ==
    /\ MainGoto("spawn", "run")
    /\ pcSnap' = "top"
    /\ pcCheck' = "top"
    /\ pcMon' = "top"
    /\ UNCHANGED <<pcHls, streamShouldRun, videoMode>>

(* streamShouldRun.store(false): before the joins, and again in the        *)
(* stopHlsStreamSession that follows them.                                 *)
MainClearFlag ==
    /\ \/ MainGoto("stopFlag", "joinSnapshot")
       \/ MainGoto("stop", AfterStop("stopJoin", "exit"))
    /\ streamShouldRun' = FALSE
    /\ UNCHANGED <<pcSnap, pcCheck, pcMon, pcHls, videoMode>>

MainJoinHls ==
    /\ MainGoto("stopJoin", "exit")
    /\ JoinHlsWorker
    /\ UNCHANGED <<pcSnap, pcCheck, pcMon, streamShouldRun, videoMode>>

(* Return from main: the camera's destructor stops a video mode still on.  *)
MainExit ==
    /\ MainGoto("exit", "done")
    /\ videoMode' = FALSE
    /\ UNCHANGED <<pcSnap, pcCheck, pcMon, pcHls, streamShouldRun>>

Main == MainMove \/ MainSpawn \/ MainClearFlag \/ MainJoinHls \/ MainExit

-----------------------------------------------------------------------------
(* The snapshot worker.                                                    *)

SnapGoto(from, to) ==
    /\ pcSnap = from
    /\ pcSnap' = to
    /\ UNCHANGED <<pcMain, pcCheck, pcMon, pcHls, flags, intent, drained,
                   snapshotsPaused, encoderError>>

SnapMove ==
    /\ \/ SnapGoto("top", WhileRunning("capture"))
       \/ SnapGoto("sleep", "top")
    /\ UNCHANGED videoMode

(* takePicture gives up while snapshots are paused.  Otherwise it takes    *)
(* the camera out of video mode, captures or fails to, and never puts it   *)
(* back.  The upload that follows a capture touches nothing shared: it is  *)
(* part of the wait for the next round.                                    *)
SnapCapture ==
    /\ SnapGoto("capture", "sleep")
    /\ videoMode' = (videoMode /\ snapshotsPaused)

Snap == SnapMove \/ SnapCapture

-----------------------------------------------------------------------------
(* The monitor: a reading of low memory or of a hot CPU raises the         *)
(* emergency flag.                                                         *)

(* Readings at the edges of what the monitor tells apart: KiB of memory, a *)
(* total of 0 when the line is missing, thousandths of a degree.           *)
MemoryReadings == [readable : BOOLEAN, total : {0, 524288}, free : {40959, 40960}]
CpuReadings    == [readable : BOOLEAN, milliC : {75000, 75001}]

AvailableMb(memory) == IF memory.total > 0 THEN memory.free \div 1024 ELSE 0

(* One unreadable file is enough to skip both tests.                       *)
Alarming(memory, cpu) ==
    /\ memory.readable
    /\ cpu.readable
    /\ AvailableMb(memory) < 40 \/ cpu.milliC > 75000

Alarms == {Alarming(memory, cpu) : memory \in MemoryReadings, cpu \in CpuReadings}

MonGoto(from, to) ==
    /\ pcMon = from
    /\ pcMon' = to
    /\ UNCHANGED <<pcMain, pcSnap, pcCheck, pcHls, keepRunning, streamShouldRun,
                   cameraRecoveryNeeded, intent, drained, camera>>

MonMove ==
    /\ \/ MonGoto("top", WhileRunning("sample"))
       \/ MonGoto("sleep", "top")
    /\ UNCHANGED emergencyStopHls

MonSample ==
    /\ MonGoto("sample", "sleep")
    /\ \E alarm \in Alarms : emergencyStopHls' = (emergencyStopHls \/ alarm)

Mon == MonMove \/ MonSample

-----------------------------------------------------------------------------
(* The stream checker.                                                     *)

CheckGoto(from, to) ==
    /\ pcCheck = from
    /\ pcCheck' = to
    /\ UNCHANGED <<pcMain, pcSnap, pcMon, drained>>

(* The steps that read flags and write none: the loop condition, the test  *)
(* of reapFinishedHlsWorker (a cleared flag announces the worker's end),   *)
(* the second operand of the recovery test, whose exchange has already     *)
(* consumed the flag, the choice to start or stop a session, the sleeps.   *)
CheckMove ==
    /\ \/ CheckGoto("top", WhileRunning("reap"))
       \/ CheckGoto("reap", IF Joinable /\ ~streamShouldRun THEN "reapJoin" ELSE "emergency")
       \/ CheckGoto("recoveryCheck", IF keepRunning THEN "recoveryStop" ELSE "api")
       \/ CheckGoto("minute", "api")
       \/ CheckGoto("wantOn", IF CanStart THEN "startFlag" ELSE "sleep")
       \/ CheckGoto("wantOff", IF keepRunning /\ Joinable THEN "stop" ELSE "sleep")
       \/ CheckGoto("sleep", "top")
    /\ UNCHANGED <<pcHls, flags, intent, camera>>

(* Variant: the exchange whose result nobody looks at.                     *)
CheckEmergencyDrop ==
    /\ CheckGoto("emergency", "recovery")
    /\ emergencyStopHls' = FALSE
    /\ UNCHANGED <<pcHls, keepRunning, streamShouldRun, cameraRecoveryNeeded, intent, camera>>

CheckEmergency ==
    /\ CheckGoto("emergency", IF emergencyStopHls THEN "emergencyStop" ELSE "recovery")
    /\ emergencyStopHls' = FALSE
    /\ UNCHANGED <<pcHls, keepRunning, streamShouldRun, cameraRecoveryNeeded, intent, camera>>

CheckRecovery ==
    /\ CheckGoto("recovery", IF cameraRecoveryNeeded THEN "recoveryCheck" ELSE "api")
    /\ cameraRecoveryNeeded' = FALSE
    /\ UNCHANGED <<pcHls, keepRunning, streamShouldRun, emergencyStopHls, intent, camera>>

(* stopHlsStreamSession, from each of its three call sites in the checker. *)
CheckStop ==
    /\ \/ CheckGoto("emergencyStop", AfterStop("emergencyJoin", "recovery"))
       \/ CheckGoto("recoveryStop", AfterStop("recoveryJoin", "reinit"))
       \/ CheckGoto("stop", AfterStop("stopJoin", "sleep"))
    /\ streamShouldRun' = FALSE
    /\ UNCHANGED <<pcHls, keepRunning, emergencyStopHls, cameraRecoveryNeeded, intent, camera>>

CheckJoin ==
    /\ JoinHlsWorker
    /\ \/ CheckGoto("reapJoin", "emergency")
       \/ CheckGoto("emergencyJoin", "recovery")
       \/ CheckGoto("recoveryJoin", "reinit")
       \/ CheckGoto("stopJoin", "sleep")
    /\ UNCHANGED <<flags, intent, camera>>

(* CameraManager::reinitialize: snapshots pause until one succeeds.        *)
CheckReinit ==
    /\ \/ CheckGoto("reinit", "api") /\ snapshotsPaused' = FALSE
       \/ CheckGoto("reinit", "minute") /\ snapshotsPaused' = TRUE
    /\ videoMode' = FALSE
    /\ UNCHANGED <<pcHls, flags, intent, encoderError>>

(* isStreamingRequested blocks, then answers; an exception goes to sleep.  *)
CheckApi ==
    /\ \/ CheckGoto("api", "recheck") /\ reply' \in Replies
       \/ CheckGoto("api", "sleep") /\ UNCHANGED reply
    /\ UNCHANGED <<pcHls, flags, lastDefinitiveStreamOn, requestSeen, camera>>

CheckRecheck ==
    /\ CheckGoto("recheck", IF keepRunning THEN "decide" ELSE "top")
    /\ reply' = IF keepRunning THEN reply ELSE "none"
    /\ UNCHANGED <<pcHls, flags, lastDefinitiveStreamOn, requestSeen, camera>>

(* shouldStream: on, or off but within the grace, or unreachable while the *)
(* last definitive answer was on.                                          *)
CheckDecide ==
    /\ \E withinGrace \in BOOLEAN :
          /\ withinGrace => requestSeen
          /\ CheckGoto("decide",
                       IF \/ reply = "on"
                          \/ reply = "off" /\ withinGrace
                          \/ reply = "none" /\ lastDefinitiveStreamOn
                       THEN "wantOn" ELSE "wantOff")
    /\ lastDefinitiveStreamOn' = IF reply = "none" THEN lastDefinitiveStreamOn
                                                    ELSE reply = "on"
    /\ requestSeen' = (requestSeen \/ reply = "on")
    /\ reply' = "none"
    /\ UNCHANGED <<pcHls, flags, camera>>

CheckStartFlag ==
    /\ CheckGoto("startFlag", "startThread")
    /\ streamShouldRun' = TRUE
    /\ UNCHANGED <<pcHls, keepRunning, emergencyStopHls, cameraRecoveryNeeded, intent, camera>>

(* The thread constructor may throw; streamShouldRun stays as it is.       *)
CheckStartThread ==
    /\ CheckGoto("startThread", "sleep")
    /\ pcHls' \in {"cleanup", pcHls}
    /\ UNCHANGED <<flags, intent, camera>>

Check == \/ CheckMove \/ CheckEmergency \/ CheckRecovery \/ CheckStop
         \/ CheckJoin \/ CheckReinit \/ CheckApi \/ CheckRecheck
         \/ CheckDecide \/ CheckStartFlag \/ CheckStartThread

-----------------------------------------------------------------------------
(* The HLS worker, one encode session.                                     *)

HlsGoto(from, to) ==
    /\ pcHls = from
    /\ pcHls' = to
    /\ UNCHANGED <<pcMain, pcSnap, pcCheck, pcMon, keepRunning, emergencyStopHls, intent>>

(* The segment directory is emptied; an error ends the session here.       *)
HlsCleanup ==
    /\ \/ HlsGoto("cleanup", "start")
       \/ HlsGoto("cleanup", "clear")
    /\ UNCHANGED <<streamShouldRun, cameraRecoveryNeeded, drained, camera>>

(* startVideoMode: an old encoder error is forgotten once the pipeline     *)
(* plays, which a start that fails later on has done as well.              *)
HlsStart ==
    /\ \/ /\ ~snapshotsPaused
          /\ HlsGoto("start", "loopFlag")
          /\ videoMode' = TRUE
          /\ encoderError' = FALSE
       \/ /\ HlsGoto("start", "startFailed")
          /\ videoMode' = FALSE
          /\ encoderError' \in {encoderError, FALSE}
    /\ UNCHANGED <<streamShouldRun, cameraRecoveryNeeded, drained, snapshotsPaused>>

HlsStartFailed ==
    /\ HlsGoto("startFailed", "clear")
    /\ cameraRecoveryNeeded' = TRUE
    /\ UNCHANGED <<streamShouldRun, drained, camera>>

(* The three loads of the loop condition, in their order.                  *)
(* Every way out of the loop stops the encoder.                            *)
(* Variant: the worker leaves the encoder to the next start.               *)
LeaveLoopEncoding == "drain"
LeaveLoop == "stopVideo"

HlsLoop ==
    /\ \/ HlsGoto("loopFlag", IF streamShouldRun THEN "loopKeep" ELSE LeaveLoop)
       \/ HlsGoto("loopKeep", IF keepRunning THEN "loopEmergency" ELSE LeaveLoop)
       \/ HlsGoto("loopEmergency", IF emergencyStopHls THEN LeaveLoop ELSE "poll")
    /\ UNCHANGED <<streamShouldRun, cameraRecoveryNeeded, drained, camera>>

(* consumeEncoderPipelineFailure, an exchange.                             *)
HlsPoll ==
    /\ HlsGoto("poll", IF encoderError THEN LeaveLoop ELSE "upload")
    /\ encoderError' = FALSE
    /\ UNCHANGED <<streamShouldRun, cameraRecoveryNeeded, drained, videoMode, snapshotsPaused>>

HlsUpload ==
    /\ \/ HlsGoto("upload", "loopFlag")
       \/ HlsGoto("upload", LeaveLoop)        \* an exception left the loop
    /\ UNCHANGED <<streamShouldRun, cameraRecoveryNeeded, drained, camera>>

HlsStopVideo ==
    /\ HlsGoto("stopVideo", "drain")
    /\ videoMode' = FALSE
    /\ UNCHANGED <<streamShouldRun, cameraRecoveryNeeded, drained, snapshotsPaused, encoderError>>

(* Variant: one poll too many.                                             *)
MoreDrainPollsInclusive == drained <= DrainPolls
MoreDrainPolls == drained < DrainPolls

HlsDrain ==
    /\ \/ MoreDrainPolls /\ HlsGoto("drain", "drain") /\ drained' = drained + 1
       \/ HlsGoto("drain", "clear") /\ drained' = 0   \* done, or it threw
    /\ UNCHANGED <<streamShouldRun, cameraRecoveryNeeded, camera>>

(* The destructor of StreamShouldRunClear, on every way out.               *)
(* Variant: no destructor.                                                 *)
HlsClearKeep ==
    /\ HlsGoto("clear", "exited")
    /\ UNCHANGED <<streamShouldRun, cameraRecoveryNeeded, drained, camera>>

HlsClear ==
    /\ HlsGoto("clear", "exited")
    /\ streamShouldRun' = FALSE
    /\ UNCHANGED <<cameraRecoveryNeeded, drained, camera>>

Hls == \/ HlsCleanup \/ HlsStart \/ HlsStartFailed \/ HlsLoop \/ HlsPoll
       \/ HlsUpload \/ HlsStopVideo \/ HlsDrain \/ HlsClear

(* The GStreamer bus or a failed push reports an encoder error.            *)
EncoderFails ==
    /\ videoMode
    /\ encoderError' = TRUE
    /\ UNCHANGED <<pcs, flags, intent, drained, videoMode, snapshotsPaused>>

(* The process is over.                                                    *)
Finished == pcMain = "done" /\ UNCHANGED vars

-----------------------------------------------------------------------------
Next == Signal \/ Main \/ Snap \/ Mon \/ Check \/ Hls \/ EncoderFails \/ Finished

Spec == Init /\ [][Next]_vars

(* Every thread is scheduled, and every blocking call it makes returns:    *)
(* curl and the capture wait have timeouts, sleeps end.  Neither a signal, *)
(* nor an encoder error, nor any particular API answer is promised.        *)
Fairness ==
    /\ WF_vars(Main)
    /\ WF_vars(Snap)
    /\ WF_vars(Mon)
    /\ WF_vars(Check)
    /\ WF_vars(Hls)

FairSpec == Spec /\ Fairness

-----------------------------------------------------------------------------
(* Properties.                                                             *)

LabelsOK ==
    /\ pcMain \in MainLabels
    /\ pcSnap \in SnapLabels
    /\ pcCheck \in CheckLabels
    /\ pcMon \in MonLabels
    /\ pcHls \in HlsLabels
    /\ reply \in Replies
    /\ drained \in 0..DrainPolls

FlagsOK ==
    /\ keepRunning \in BOOLEAN
    /\ streamShouldRun \in BOOLEAN
    /\ emergencyStopHls \in BOOLEAN
    /\ cameraRecoveryNeeded \in BOOLEAN
    /\ lastDefinitiveStreamOn \in BOOLEAN
    /\ requestSeen \in BOOLEAN
    /\ videoMode \in BOOLEAN
    /\ snapshotsPaused \in BOOLEAN
    /\ encoderError \in BOOLEAN

TypeOK == LabelsOK /\ FlagsOK

Starting == pcCheck \in {"startFlag", "startThread"}

(* The checker never assigns streamThread over a handle that still has a   *)
(* thread behind it (std::terminate), nor runs two sessions at once.       *)
OneSession == Starting => ~Joinable

(* A worker that has run to its end left streamShouldRun cleared, and no   *)
(* later store sets it again before the worker is joined: the flag is what *)
(* reapFinishedHlsWorker looks at, so a worker could otherwise stay        *)
(* unreaped and block every later session.                                 *)
ExitedIsReapable == pcHls = "exited" => ~streamShouldRun

(* A failed start is dealt with before the next session starts: the worker *)
(* raises cameraRecoveryNeeded before it can be joined, the checker takes  *)
(* the flag between the join and the start.                                *)
RecoveryBeforeStart == Starting => ~cameraRecoveryNeeded

(* The camera is reinitialized only while no HLS worker could be using it. *)
ReinitAlone == pcCheck = "reinit" => ~Joinable

(* The camera is in video mode only under a worker that will stop it: no   *)
(* way out of a session leaves an encoder running without an owner.        *)
VideoModeOwned == videoMode => InLoop \/ pcHls = "stopVideo"

(* Main touches streamThread, and lets the process end, only after the     *)
(* checker, the handle's other user, has finished.                         *)
HandleHandedOver ==
    pcMain \in {"stop", "stopJoin", "exit"} =>
        /\ pcCheck = "done"
        /\ pcMain = "exit" => ~Joinable

(* After a signal the process ends.                                        *)
ShutdownCompletes == ~keepRunning ~> pcMain = "done"

(* An emergency ends the session it finds, whichever of the worker and the *)
(* checker sees the flag first.                                            *)
EmergencyEndsSession == emergencyStopHls /\ InLoop ~> ~InLoop

(* A worker that has run to its end is joined.                             *)
FinishedIsReaped == pcHls = "exited" ~> ~Joinable

(* What README.md:218 says of a session the API keeps asking for: it keeps *)
(* going.  A polling worker whose camera left video mode is on its way out.*)
DeadSessionEnds == InLoop /\ ~videoMode ~> ~InLoop

-----------------------------------------------------------------------------
(* Refinement.                                                             *)

(* Where a session stands.  A failed start stays pending from the worker's *)
(* failure until the checker, which has taken the flag by then, begins to  *)
(* reinitialize.                                                           *)
RecoveryPending ==
    \/ pcHls = "startFailed"
    \/ cameraRecoveryNeeded
    \/ pcCheck \in {"recoveryCheck", "recoveryStop", "recoveryJoin"}

SessionPhase ==
    IF pcCheck = "reinit" THEN "recovering"
    ELSE IF RecoveryPending THEN "failed"
    ELSE IF pcHls = "none" THEN "idle"
    ELSE IF pcHls \in {"cleanup", "start"} THEN "starting"
    ELSE IF InLoop \/ pcHls = "stopVideo" THEN "live"
    ELSE "ending"

Lifecycle == INSTANCE SessionLifecycle WITH phase <- SessionPhase, running <- keepRunning

(* The checker and the worker implement the session life cycle.            *)
ImplementsLifecycle == Lifecycle!Spec
=============================================================================
