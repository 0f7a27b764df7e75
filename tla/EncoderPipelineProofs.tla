------------------------ MODULE EncoderPipelineProofs ------------------------
(***************************************************************************)
(* Proofs about EncoderPipeline, for any number of buffers, whether or not *)
(* the loop thread is first and whether or not Camera::stop waits.         *)
(***************************************************************************)
EXTENDS EncoderPipeline, TLAPS

USE EnvironmentAssumption, BuffersAssumption

-----------------------------------------------------------------------------
(* The inductive invariant, part by part.                                  *)

LabelsOK ==
    /\ pcVideo \in {"idle", "play", "arm", "startCamera", "queue", "activate", "up",
                    "deactivate", "disconnect", "stopCamera", "lock", "null", "quit",
                    "join", "free"}
    /\ pcLoop \in {"none", "created", "running", "ended"}
    /\ pcFrame \in {"idle", "recycle", "lock", "look", "push"}

FlagsOK ==
    /\ pipeline \in BOOLEAN
    /\ loopRunning \in BOOLEAN
    /\ busError \in BOOLEAN
    /\ gstPipelineError \in BOOLEAN
    /\ cameraRunning \in BOOLEAN
    /\ captureActive \in BOOLEAN
    /\ stopWaits \in BOOLEAN

(* Who stands inside pipelinePushMutex_.                                   *)
TeardownInside == pcVideo \in {"null", "quit", "join", "free"}
FrameInside == pcFrame \in {"look", "push"}

MutexOK ==
    /\ TeardownInside => pushMutex = "video"
    /\ FrameInside => pushMutex = "frame"
    /\ ~TeardownInside /\ ~FrameInside => pushMutex = "free"

(* A pipeline exists while video mode is being started, used or stopped,   *)
(* and nothing of its loop is left when it is freed.                       *)
PipelineOK ==
    /\ pcVideo # "idle" => pipeline
    /\ loopRunning => pcLoop = "running"
    /\ pcVideo \in {"idle", "free"} => pcLoop = "none"
    /\ pcFrame = "push" => pipeline

(* The camera runs from its start to its stop, and only then has requests. *)
CameraOn == pcVideo \in {"queue", "activate", "up", "deactivate", "disconnect", "stopCamera"}

NumbersOK == issued \in Nat /\ queued \in Nat /\ lost \in Nat /\ issued <= Buffers

RequestsOK ==
    /\ cameraRunning <=> CameraOn
    /\ ~cameraRunning => issued = 0 /\ queued = 0 /\ lost = 0
    /\ stopWaits /\ ~cameraRunning => pcFrame = "idle"
    /\ stopWaits /\ cameraRunning => queued + InCallback + lost = issued
    /\ queued + InCallback + lost <= issued + 1

PipelineInv == LabelsOK /\ FlagsOK /\ MutexOK /\ PipelineOK /\ NumbersOK /\ RequestsOK

-----------------------------------------------------------------------------
LEMMA InvInit == Init => PipelineInv
<1> SUFFICES ASSUME Init PROVE PipelineInv
  OBVIOUS
<1>1. FlagsOK
  BY Zenon DEF Init, FlagsOK
<1>2. LabelsOK /\ MutexOK /\ PipelineOK /\ NumbersOK /\ RequestsOK
  BY DEF Init, LabelsOK, MutexOK, PipelineOK, NumbersOK, RequestsOK, TeardownInside,
         FrameInside, CameraOn, InCallback
<1>. QED
  BY <1>1, <1>2 DEF PipelineInv

(* The end of a push: the error flag may be up, the request goes round.    *)
LEMMA PushEffect ==
    FramePush => /\ pcFrame = "push" /\ pcFrame' = "idle"
                 /\ UNCHANGED <<pcVideo, pcLoop, pipeline, loopRunning, cameraRunning,
                                issued, stopWaits>>
                 /\ pushMutex' = "free"
                 /\ Recycle
BY Zenon DEF FramePush, FrameGoto

(* The step relations of the threads, unfolded to their assignments.       *)
LEMMA LabelsStep == LabelsOK /\ [Next]_vars => LabelsOK'
<1> SUFFICES ASSUME LabelsOK, [Next]_vars PROVE LabelsOK'
  OBVIOUS
<1> USE DEF LabelsOK
<1>1. CASE Video
  BY <1>1 DEF Video, VideoWork, VideoStep, VideoGoto, BuildPipeline, StopRequested,
       PlayPipeline, ForgetError, StartCamera, QueueRequests, Activate, ConsumeError,
       Deactivate, DisconnectSlot, StopCamera, LockPush, SetNull, QuitMainLoop,
       JoinLoop, LoopJoined, FreePipeline
<1>2. CASE Loop \/ PostError
  BY <1>2 DEF Loop, EnterLoop, DispatchError, LeaveLoop, PostError
<1>3. CASE Frame
  BY <1>3 DEF Frame, FrameWork, FrameGoto, FrameArrives, FrameRecycle, FrameLock,
       FrameLook, FramePush, NotFed
<1>4. CASE UNCHANGED vars
  BY <1>4 DEF vars
<1>. QED
  BY <1>1, <1>2, <1>3, <1>4 DEF Next

LEMMA FlagsStep == FlagsOK /\ [Next]_vars => FlagsOK'
<1> SUFFICES ASSUME FlagsOK, [Next]_vars PROVE FlagsOK'
  OBVIOUS
<1> USE DEF FlagsOK
<1>1. CASE Video
  BY <1>1, Zenon DEF Video, VideoWork, VideoStep, VideoGoto, BuildPipeline, StopRequested,
       PlayPipeline, ForgetError, StartCamera, QueueRequests, Activate, ConsumeError,
       Deactivate, DisconnectSlot, StopCamera, LockPush, SetNull, QuitMainLoop, QuitLoop,
       JoinLoop, LoopJoined, FreePipeline
<1>2. CASE Loop \/ PostError
  BY <1>2, Zenon DEF Loop, EnterLoop, DispatchError, FlagError, LeaveLoop, PostError
<1>3. CASE Frame
  BY <1>3, Zenon DEF Frame, FrameWork, FrameGoto, FrameArrives, FrameRecycle, FrameLock,
       FrameLook, FramePush
<1>4. CASE UNCHANGED vars
  BY <1>4, Zenon DEF vars
<1>. QED
  BY <1>1, <1>2, <1>3, <1>4 DEF Next

LEMMA MutexStep == LabelsOK /\ MutexOK /\ [Next]_vars => MutexOK'
<1> SUFFICES ASSUME LabelsOK, MutexOK, [Next]_vars PROVE MutexOK'
  OBVIOUS
<1> USE DEF LabelsOK, MutexOK, TeardownInside, FrameInside
<1>1. CASE Video
  BY <1>1 DEF Video, VideoWork, VideoStep, VideoGoto, BuildPipeline, StopRequested,
       PlayPipeline, ForgetError, StartCamera, QueueRequests, Activate, ConsumeError,
       Deactivate, DisconnectSlot, StopCamera, LockPush, TakePushMutex, SetNull,
       QuitMainLoop, JoinLoop, FreePipeline
<1>2. CASE Loop \/ PostError
  BY <1>2 DEF Loop, EnterLoop, DispatchError, LeaveLoop, PostError
<1>3. CASE Frame
  BY <1>3 DEF Frame, FrameWork, FrameGoto, FrameArrives, FrameRecycle, FrameLock,
       TakePushMutex, FrameLook, FramePush, NotFed
<1>4. CASE UNCHANGED vars
  BY <1>4 DEF vars
<1>. QED
  BY <1>1, <1>2, <1>3, <1>4 DEF Next

(* The pipeline is freed under the mutex, and a push needs both the mutex  *)
(* and a second look.                                                      *)
LEMMA PipelineStep ==
    LabelsOK /\ MutexOK /\ PipelineOK /\ [Next]_vars => PipelineOK'
<1> SUFFICES ASSUME LabelsOK, MutexOK, PipelineOK, [Next]_vars PROVE PipelineOK'
  OBVIOUS
<1> USE DEF PipelineOK
<1>1. CASE FreePipeline
  BY <1>1 DEF FreePipeline, VideoGoto, VideoStep, MutexOK, TeardownInside, FrameInside
<1>2. CASE JoinLoop
  BY <1>2 DEF JoinLoop, LoopJoined, VideoGoto, VideoStep
<1>3. CASE BuildPipeline
  BY <1>3 DEF BuildPipeline, VideoGoto, VideoStep
<1>4. CASE StopRequested \/ (VideoWork /\ ~FreePipeline /\ ~JoinLoop)
  BY <1>4 DEF VideoWork, VideoStep, VideoGoto, StopRequested, PlayPipeline, ForgetError,
       StartCamera, QueueRequests, Activate, ConsumeError, Deactivate, DisconnectSlot,
       StopCamera, LockPush, SetNull, QuitMainLoop, QuitLoop
<1>5. CASE Loop \/ PostError
  BY <1>5 DEF Loop, EnterLoop, DispatchError, LeaveLoop, PostError
<1>6. CASE FrameLook
  <2>1. CASE StillAllowed
    BY <1>6, <2>1 DEF FrameLook, FrameGoto, StillAllowed
  <2>2. CASE ~StillAllowed
    BY <1>6, <2>2 DEF FrameLook, FrameGoto
  <2>. QED
    BY <2>1, <2>2
<1>8. CASE FramePush
  BY <1>8, PushEffect
<1>9. CASE FrameArrives \/ FrameRecycle \/ FrameLock
  BY <1>9 DEF FrameGoto, FrameArrives, FrameRecycle, FrameLock, NotFed
<1>7. CASE UNCHANGED vars
  BY <1>7 DEF vars
<1>. QED
  BY <1>1, <1>2, <1>3, <1>4, <1>5, <1>6, <1>7, <1>8, <1>9
     DEF Next, Video, VideoWork, Frame, FrameWork

-----------------------------------------------------------------------------
LEMMA NumbersStep == NumbersOK /\ [Next]_vars => NumbersOK'
<1> SUFFICES ASSUME NumbersOK, [Next]_vars PROVE NumbersOK'
  OBVIOUS
<1> USE DEF NumbersOK
<1>1. CASE QueueRequests \/ StopCamera
  BY <1>1 DEF QueueRequests, StopCamera, VideoGoto, VideoStep, pool
<1>2. CASE BuildPipeline \/ StopRequested \/ (VideoWork /\ ~QueueRequests /\ ~StopCamera)
  BY <1>2 DEF VideoWork, VideoGoto, pool, BuildPipeline, StopRequested, PlayPipeline,
       ForgetError, StartCamera, Activate, ConsumeError, Deactivate, DisconnectSlot,
       LockPush, SetNull, QuitMainLoop, JoinLoop, FreePipeline
<1>3. CASE Loop \/ PostError
  BY <1>3 DEF Loop, EnterLoop, DispatchError, LeaveLoop, PostError, pool
<1>4. CASE FrameArrives \/ FrameLock
  BY <1>4 DEF FrameGoto, FrameArrives, FrameLock
<1>6. CASE FrameRecycle \/ FrameLook
  BY <1>6 DEF FrameGoto, FrameRecycle, FrameLook, Recycle
<1>7. CASE FramePush
  BY <1>7, PushEffect DEF Recycle
<1>5. CASE UNCHANGED vars
  BY <1>5 DEF vars
<1>. QED
  BY <1>1, <1>2, <1>3, <1>4, <1>5, <1>6, <1>7 DEF Next, Video, Frame, FrameWork

(* A request that leaves the camera enters the callback, and the callback  *)
(* gives it back, or loses it, when it returns.                            *)
LEMMA RequestsStep ==
    LabelsOK /\ NumbersOK /\ RequestsOK /\ [Next]_vars => RequestsOK'
<1> SUFFICES ASSUME LabelsOK, NumbersOK, RequestsOK, [Next]_vars PROVE RequestsOK'
  OBVIOUS
<1> USE DEF NumbersOK, RequestsOK, CameraOn, InCallback
<1>1. CASE QueueRequests
  BY <1>1 DEF QueueRequests, VideoGoto, VideoStep, pool
<1>2. CASE StopCamera
  BY <1>2 DEF StopCamera, VideoStep
<1>3. CASE StartCamera
  BY <1>3 DEF StartCamera, VideoGoto, VideoStep, pool
<1>4. CASE BuildPipeline \/ StopRequested
           \/ (VideoWork /\ ~QueueRequests /\ ~StopCamera /\ ~StartCamera)
  BY <1>4 DEF VideoWork, VideoGoto, VideoStep, pool, BuildPipeline, StopRequested,
       PlayPipeline, ForgetError, Activate, ConsumeError, Deactivate, DisconnectSlot,
       LockPush, SetNull, QuitMainLoop, JoinLoop, FreePipeline
<1>5. CASE Loop \/ PostError
  BY <1>5 DEF Loop, EnterLoop, DispatchError, LeaveLoop, PostError, pool
<1>6. CASE FrameArrives
  BY <1>6 DEF FrameArrives, FrameGoto, NotFed
<1>7. CASE FrameLock
  BY <1>7 DEF FrameLock, FrameGoto
<1>8. CASE FrameRecycle
  BY <1>8 DEF FrameRecycle, FrameGoto, Recycle
<1>11. CASE FramePush
  BY <1>11, PushEffect DEF Recycle
<1>9. CASE FrameLook
  BY <1>9 DEF FrameLook, FrameGoto, Recycle
<1>10. CASE UNCHANGED vars
  BY <1>10 DEF vars
<1>. QED
  BY <1>1, <1>2, <1>3, <1>4, <1>5, <1>6, <1>7, <1>8, <1>9, <1>10, <1>11
     DEF Next, Video, VideoWork, Frame, FrameWork

LEMMA InvStep == PipelineInv /\ [Next]_vars => PipelineInv'
BY LabelsStep, FlagsStep, MutexStep, PipelineStep, NumbersStep, RequestsStep, Zenon
   DEF PipelineInv

THEOREM Invariance == Spec => []PipelineInv
BY InvInit, InvStep, PTL DEF Spec

-----------------------------------------------------------------------------
(* Every variable keeps its type, and pipelinePushMutex_ is held by the    *)
(* thread that stands inside it.                                           *)
THEOREM TypeCorrect == Spec => []TypeOK
<1>1. PipelineInv => TypeOK
  <2> SUFFICES ASSUME PipelineInv PROVE TypeOK
    OBVIOUS
  <2>1. issued \in 0..Buffers /\ queued \in 0..Buffers + 1 /\ lost \in 0..Buffers + 1
    BY DEF PipelineInv, NumbersOK, RequestsOK, InCallback
  <2>2. pushMutex = CASE pcVideo \in {"null", "quit", "join", "free"} -> "video"
                     [] pcFrame \in {"look", "push"} -> "frame"
                     [] OTHER -> "free"
    BY DEF PipelineInv, MutexOK, TeardownInside, FrameInside
  <2>. QED
    BY <2>1, <2>2, Zenon DEF PipelineInv, LabelsOK, FlagsOK, TypeOK
<1>. QED
  BY <1>1, Invariance, PTL

(* No callback pushes into a pipeline that is gone, whether or not         *)
(* Camera::stop waits for it.                                              *)
THEOREM PushesAreSafe == Spec => []PushIntoLivePipeline
<1>1. PipelineInv => PushIntoLivePipeline
  BY DEF PipelineInv, PipelineOK, PushIntoLivePipeline
<1>. QED
  BY <1>1, Invariance, PTL

(* The loop and its thread never outlive the pipeline.                     *)
THEOREM LoopIsJoined == Spec => []LoopOutlivesThread
<1>1. PipelineInv => LoopOutlivesThread
  BY DEF PipelineInv, PipelineOK, LoopOutlivesThread
<1>. QED
  BY <1>1, Invariance, PTL

(* Only the camera's refusal takes a request out of circulation.           *)
THEOREM NoRequestStrays == Spec => []RequestsGoRound
<1>1. PipelineInv => RequestsGoRound
  BY DEF PipelineInv, RequestsOK, RequestsGoRound
<1>. QED
  BY <1>1, Invariance, PTL
=============================================================================
