--------------------------- MODULE EncoderPipeline ---------------------------
(***************************************************************************)
(* The GStreamer half of src/CameraManager.cpp: building the pipeline and  *)
(* its main-loop thread, feeding it frames, noticing its errors, tearing   *)
(* it down.  Three threads: the one that starts and stops video mode (the  *)
(* HLS worker; stops are serialized by videoTeardownMutex_), the main-loop *)
(* thread, and libcamera's, which delivers completed requests.  A request  *)
(* goes round between the camera and the callback, which hands it back.    *)
(*                                                                         *)
(* External: a GMainLoop runs from the moment its thread enters            *)
(* g_main_loop_run until g_main_loop_quit, and a quit before that moment   *)
(* is not possible: is_running is still false.  Bus messages are           *)
(* dispatched by the running loop.  A pipeline set to NULL drops them.     *)
(***************************************************************************)

EXTENDS Naturals

CONSTANTS
    LoopFirst,      \* the loop thread is running before the pipeline plays
    Buffers         \* frame buffers, each with its request (4)

ASSUME EnvironmentAssumption == LoopFirst \in BOOLEAN
ASSUME BuffersAssumption == Buffers \in Nat \ {0}

VARIABLES
    pcVideo,        \* thread that starts and stops video mode
    pcLoop,         \* gstThread_: "none" when not joinable
    pcFrame,        \* libcamera's thread in requestComplete
    pipeline,       \* pipeline_ and appsrc_ are set
    loopRunning,    \* g_main_loop_is_running(loop_)
    busError,       \* an error message waits on the bus
    gstPipelineError,
    cameraRunning,  \* the camera delivers requests to the connected slot
    captureActive,  \* captureActive_ and not shuttingDown_
    pushMutex,      \* owner of pipelinePushMutex_
    issued,         \* requests made and queued since the camera started
    queued,         \* requests the camera has
    lost,           \* requests the camera did not take back
    stopWaits       \* Camera::stop returns only after the callback in flight;
                    \* either may be so, and it never changes

vars == <<pcVideo, pcLoop, pcFrame, pipeline, loopRunning, busError,
          gstPipelineError, cameraRunning, captureActive, pushMutex, issued, queued, lost,
          stopWaits>>

pool == <<issued, queued, lost>>

Init ==
    /\ pcVideo = "idle" /\ pcLoop = "none" /\ pcFrame = "idle"
    /\ pipeline = FALSE /\ loopRunning = FALSE /\ busError = FALSE
    /\ gstPipelineError = FALSE
    /\ cameraRunning = FALSE /\ captureActive = FALSE
    /\ pushMutex = "free"
    /\ issued = 0 /\ queued = 0 /\ lost = 0
    /\ stopWaits \in BOOLEAN

-----------------------------------------------------------------------------
(* startVideoMode: initializeGstreamerPipeline, then the camera.           *)

VideoStep(from, to) ==
    /\ pcVideo = from
    /\ pcVideo' = to
    /\ UNCHANGED <<pcFrame, stopWaits>>

VideoGoto(from, to) == VideoStep(from, to) /\ UNCHANGED pool

(* Elements, bus watch and loop are made and the thread is started; or one *)
(* of them fails, and no thread exists yet when the teardown begins.       *)
BuildPipeline ==
    /\ \/ VideoGoto("idle", "play") /\ pcLoop' = "created"
       \/ VideoGoto("idle", "lock") /\ UNCHANGED pcLoop
    /\ pipeline' = TRUE
    /\ UNCHANGED <<loopRunning, busError, gstPipelineError, cameraRunning,
                   captureActive, pushMutex>>

(* gst_element_set_state(PLAYING) returns; the pipeline may report errors  *)
(* before and after.                                                       *)
PlayPipeline ==
    /\ LoopFirst => pcLoop # "created"
    /\ VideoGoto("play", "arm") \/ VideoGoto("play", "lock")
    /\ UNCHANGED <<pcLoop, pipeline, loopRunning, busError, gstPipelineError,
                   cameraRunning, captureActive, pushMutex>>

(* The error of an earlier session is forgotten.                           *)
ForgetError ==
    /\ VideoGoto("arm", "startCamera")
    /\ gstPipelineError' = FALSE
    /\ UNCHANGED <<pcLoop, pipeline, loopRunning, busError, cameraRunning,
                   captureActive, pushMutex>>

(* The slot is connected and the camera started, or the start fails and    *)
(* is rolled back.                                                         *)
StartCamera ==
    /\ VideoGoto("startCamera", "queue") \/ VideoGoto("startCamera", "disconnect")
    /\ cameraRunning' = TRUE
    /\ UNCHANGED <<pcLoop, pipeline, loopRunning, busError, gstPipelineError,
                   captureActive, pushMutex>>

(* One request per buffer, the first of which may complete before the last *)
(* is queued; a request that cannot be made or queued rolls the start back.*)
QueueRequests ==
    /\ \/ /\ issued < Buffers
          /\ VideoStep("queue", "queue")
          /\ issued' = issued + 1
          /\ queued' = queued + 1
          /\ UNCHANGED lost
       \/ issued < Buffers /\ VideoGoto("queue", "disconnect")
       \/ issued = Buffers /\ VideoGoto("queue", "activate")
    /\ UNCHANGED <<pcLoop, pipeline, loopRunning, busError, gstPipelineError,
                   cameraRunning, captureActive, pushMutex>>

Activate ==
    /\ VideoGoto("activate", "up")
    /\ captureActive' = TRUE
    /\ UNCHANGED <<pcLoop, pipeline, loopRunning, busError, gstPipelineError,
                   cameraRunning, pushMutex>>

(* The session polls for an encoder error, which ends it.                  *)
ConsumeError ==
    /\ VideoGoto("up", IF gstPipelineError THEN "deactivate" ELSE "up")
    /\ gstPipelineError' = FALSE
    /\ UNCHANGED <<pcLoop, pipeline, loopRunning, busError, cameraRunning,
                   captureActive, pushMutex>>

(* It ends for any other reason: a stop, a shutdown, a snapshot.           *)
StopRequested ==
    /\ VideoGoto("up", "deactivate")
    /\ UNCHANGED <<pcLoop, pipeline, loopRunning, busError, gstPipelineError,
                   cameraRunning, captureActive, pushMutex>>

-----------------------------------------------------------------------------
(* stopVideoMode and shutdownGstreamerPipeline.                            *)

Deactivate ==
    /\ VideoGoto("deactivate", "disconnect")
    /\ captureActive' = FALSE
    /\ UNCHANGED <<pcLoop, pipeline, loopRunning, busError, gstPipelineError,
                   cameraRunning, pushMutex>>

(* disconnectVideoRequestSlot: no further callback begins.                 *)
DisconnectSlot ==
    /\ VideoGoto("disconnect", "stopCamera")
    /\ UNCHANGED <<pcLoop, pipeline, loopRunning, busError, gstPipelineError,
                   cameraRunning, captureActive, pushMutex>>

(* Camera::stop takes the requests back and the list of them is cleared.   *)
StopCamera ==
    /\ stopWaits => pcFrame = "idle"
    /\ VideoStep("stopCamera", "lock")
    /\ cameraRunning' = FALSE
    /\ issued' = 0 /\ queued' = 0 /\ lost' = 0
    /\ UNCHANGED <<pcLoop, pipeline, loopRunning, busError, gstPipelineError,
                   captureActive, pushMutex>>

(* Variant: teardown without the mutex.                                    *)
TakePushMutexNot(owner) == UNCHANGED pushMutex
TakePushMutex(owner) ==
    /\ pushMutex = "free"
    /\ pushMutex' = owner

LockPush ==
    /\ TakePushMutex("video")
    /\ VideoGoto("lock", "null")
    /\ UNCHANGED <<pcLoop, pipeline, loopRunning, busError, gstPipelineError,
                   cameraRunning, captureActive>>

SetNull ==
    /\ VideoGoto("null", "quit")
    /\ busError' = FALSE
    /\ UNCHANGED <<pcLoop, pipeline, loopRunning, gstPipelineError, cameraRunning,
                   captureActive, pushMutex>>

(* Only a loop that is running is told to quit.                            *)
(* Variant: the loop is not told.                                          *)
QuitLoopNot == UNCHANGED loopRunning
QuitLoop == loopRunning' = FALSE

QuitMainLoop ==
    /\ VideoGoto("quit", "join")
    /\ QuitLoop
    /\ UNCHANGED <<pcLoop, pipeline, busError, gstPipelineError, cameraRunning,
                   captureActive, pushMutex>>

(* Variant: the thread is detached.                                        *)
LoopJoinedNot == UNCHANGED pcLoop
LoopJoined ==
    /\ pcLoop \in {"none", "ended"}
    /\ pcLoop' = "none"

JoinLoop ==
    /\ LoopJoined
    /\ VideoGoto("join", "free")
    /\ UNCHANGED <<pipeline, loopRunning, busError, gstPipelineError, cameraRunning,
                   captureActive, pushMutex>>

FreePipeline ==
    /\ VideoGoto("free", "idle")
    /\ pipeline' = FALSE
    /\ pushMutex' = "free"
    /\ UNCHANGED <<pcLoop, loopRunning, busError, gstPipelineError, cameraRunning,
                   captureActive>>

(* What the thread does once begun, a session's wait for a stop apart.     *)
VideoWork == \/ PlayPipeline \/ ForgetError \/ StartCamera \/ QueueRequests
             \/ Activate \/ ConsumeError
             \/ Deactivate \/ DisconnectSlot \/ StopCamera \/ LockPush
             \/ SetNull \/ QuitMainLoop \/ JoinLoop \/ FreePipeline

Video == BuildPipeline \/ StopRequested \/ VideoWork

-----------------------------------------------------------------------------
(* The main-loop thread, and the pipeline that posts on the bus.           *)

EnterLoop ==
    /\ pcLoop = "created"
    /\ pcLoop' = "running"
    /\ loopRunning' = TRUE
    /\ UNCHANGED <<pcVideo, pcFrame, pipeline, busError, gstPipelineError,
                   cameraRunning, captureActive, pushMutex, pool, stopWaits>>

(* onGstMessage of an error: it is flagged and the loop ends.              *)
(* Variant: the loop ends and nothing is flagged.                          *)
FlagErrorNot == UNCHANGED gstPipelineError
FlagError == gstPipelineError' = TRUE

DispatchError ==
    /\ pcLoop = "running" /\ loopRunning /\ busError
    /\ busError' = FALSE
    /\ FlagError
    /\ loopRunning' = FALSE
    /\ UNCHANGED <<pcVideo, pcLoop, pcFrame, pipeline, cameraRunning, captureActive,
                   pushMutex, pool, stopWaits>>

LeaveLoop ==
    /\ pcLoop = "running" /\ ~loopRunning
    /\ pcLoop' = "ended"
    /\ UNCHANGED <<pcVideo, pcFrame, pipeline, loopRunning, busError, gstPipelineError,
                   cameraRunning, captureActive, pushMutex, pool, stopWaits>>

Loop == EnterLoop \/ DispatchError \/ LeaveLoop

PostError ==
    /\ pcVideo \in {"play", "arm", "startCamera", "queue", "activate", "up",
                    "deactivate", "disconnect", "stopCamera", "lock", "null"}
    /\ pipeline /\ ~busError
    /\ busError' = TRUE
    /\ UNCHANGED <<pcVideo, pcLoop, pcFrame, pipeline, loopRunning, gstPipelineError,
                   cameraRunning, captureActive, pushMutex, pool, stopWaits>>

-----------------------------------------------------------------------------
(* requestComplete: look, lock, look again, push, recycle.                 *)

FrameGoto(from, to) ==
    /\ pcFrame = from
    /\ pcFrame' = to
    /\ UNCHANGED <<pcVideo, pcLoop, pipeline, loopRunning, busError, cameraRunning,
                   captureActive, issued, stopWaits>>

(* recycleVideoRequest: a running camera takes the request back, or fails  *)
(* to, which is only logged.                                               *)
Recycle ==
    IF cameraRunning
    THEN \/ queued' = queued + 1 /\ UNCHANGED lost
         \/ lost' = lost + 1 /\ UNCHANGED queued
    ELSE UNCHANGED <<queued, lost>>

(* Where a callback goes that finds the pipeline not fed, or not yet.      *)
(* Variant: the request is dropped.                                        *)
NotFedDrop == "idle"
NotFed == "recycle"

FrameArrives ==
    /\ cameraRunning /\ queued > 0
    /\ pcVideo # "stopCamera"
    /\ FrameGoto("idle", IF captureActive THEN "lock" ELSE NotFed)
    /\ queued' = queued - 1
    /\ UNCHANGED <<gstPipelineError, pushMutex, lost>>

FrameRecycle ==
    /\ FrameGoto("recycle", "idle")
    /\ Recycle
    /\ UNCHANGED <<gstPipelineError, pushMutex>>

FrameLock ==
    /\ FrameGoto("lock", "look")
    /\ TakePushMutex("frame")
    /\ UNCHANGED <<gstPipelineError, queued, lost>>

(* Variant: what was seen before the mutex is believed.                    *)
StillAllowedStale == TRUE
StillAllowed == captureActive /\ pipeline

FrameLook ==
    /\ IF StillAllowed
       THEN FrameGoto("look", "push") /\ UNCHANGED <<pushMutex, queued, lost>>
       ELSE FrameGoto("look", "idle") /\ pushMutex' = "free" /\ Recycle
    /\ UNCHANGED gstPipelineError

(* A push the pipeline refuses counts as an encoder error.                 *)
FramePush ==
    /\ FrameGoto("push", "idle")
    /\ gstPipelineError' \in {gstPipelineError, TRUE}
    /\ pushMutex' = "free"
    /\ Recycle

FrameWork == FrameRecycle \/ FrameLock \/ FrameLook \/ FramePush

Frame == FrameArrives \/ FrameWork

-----------------------------------------------------------------------------
Next == Video \/ Loop \/ PostError \/ Frame

Spec == Init /\ [][Next]_vars

(* Threads are scheduled.  Errors, frames and stop requests may never come.*)
Fairness ==
    /\ WF_vars(Loop)
    /\ WF_vars(FrameWork)
    /\ WF_vars(VideoWork)

FairSpec == Spec /\ Fairness

-----------------------------------------------------------------------------
(* Properties.                                                             *)

(* The mutex is held by the thread that stands inside it.  A callback that *)
(* Camera::stop did not wait for may hand its request to the next session. *)
TypeOK ==
    /\ pcVideo \in {"idle", "play", "arm", "startCamera", "queue", "activate", "up",
                    "deactivate", "disconnect", "stopCamera", "lock", "null", "quit",
                    "join", "free"}
    /\ pcLoop \in {"none", "created", "running", "ended"}
    /\ pcFrame \in {"idle", "recycle", "lock", "look", "push"}
    /\ pipeline \in BOOLEAN
    /\ loopRunning \in BOOLEAN
    /\ busError \in BOOLEAN
    /\ gstPipelineError \in BOOLEAN
    /\ cameraRunning \in BOOLEAN
    /\ captureActive \in BOOLEAN
    /\ stopWaits \in BOOLEAN
    /\ issued \in 0..Buffers
    /\ queued \in 0..Buffers + 1
    /\ lost \in 0..Buffers + 1
    /\ pushMutex = CASE pcVideo \in {"null", "quit", "join", "free"} -> "video"
                     [] pcFrame \in {"look", "push"} -> "frame"
                     [] OTHER -> "free"

(* A callback never pushes into a pipeline that is gone, even if           *)
(* Camera::stop were to return before the callback in flight has: the      *)
(* second look under pipelinePushMutex_ is enough.                         *)
PushIntoLivePipeline == pcFrame = "push" => pipeline

(* The main loop, which the bus watch and onGstMessage use, outlives its   *)
(* thread, and a pipeline is freed only with nothing behind it.            *)
LoopOutlivesThread == pcLoop # "none" \/ loopRunning => pipeline

(* A teardown that began returns: neither the callback waiting for         *)
(* pipelinePushMutex_ nor Camera::stop waiting for the callback nor the    *)
(* join of the loop thread holds it up, if the thread had entered its loop.*)
ShutdownReturns ==
    pcVideo \in {"disconnect", "stopCamera", "lock", "null", "quit", "join"}
        ~> pcVideo = "idle"

(* An error the pipeline reports during a session ends the session.        *)
ErrorEndsSession == pcVideo = "up" /\ busError /\ loopRunning ~> pcVideo # "up"

(* Every request of a running camera is with the camera, in the callback,  *)
(* or one the camera refused: frames that arrive before capture is active, *)
(* that are turned away or that fail to be pushed come back all the same,  *)
(* and only refusals can starve the encoder.                               *)
InCallback == IF pcFrame = "idle" THEN 0 ELSE 1

RequestsGoRound == stopWaits /\ cameraRunning => queued + InCallback + lost = issued
=============================================================================
