------------------------- MODULE StreamControlProofs -------------------------
(***************************************************************************)
(* The safety of StreamControl, proved for every DrainPolls.               *)
(*                                                                         *)
(* SessionInv is the inductive invariant.  RecoveryBeforeStart rests on    *)
(* who may be alive where: a flag raised by a failed start belongs to a    *)
(* worker with nothing left to do (FlagHasWorker, RecoveryTaken), and past *)
(* the checker's exchange only a worker not yet joined can have raised it  *)
(* (RaisedByUnjoined), which bars the start.                               *)
(***************************************************************************)
EXTENDS StreamControl, TLAPS

Ended == {"none", "clear", "exited"}

(* A pending recovery belongs to a worker that has nothing left to do.     *)
FlagHasWorker == cameraRecoveryNeeded => pcHls \in Ended

(* Between the exchange that took a flag and the join, the worker that     *)
(* raised it cannot raise another.                                         *)
RecoveryTaken ==
    pcCheck \in {"recoveryCheck", "recoveryStop", "recoveryJoin"} =>
        ~cameraRecoveryNeeded /\ pcHls \in Ended

(* After the exchange, only a worker still to be joined raises the flag.   *)
PastExchange == {"reinit", "minute", "api", "recheck", "decide", "wantOn",
                 "startFlag", "startThread"}
RaisedByUnjoined == pcCheck \in PastExchange => (cameraRecoveryNeeded => Joinable)

(* Main is past the join of the checker only when the checker has ended.   *)
CheckerGone == pcMain \in {"joinMonitor", "stop", "stopJoin", "exit"} => pcCheck = "done"

(* The checker is not running before main starts it.                       *)
NotYetBorn == pcMain \in {"init", "initCamera", "initDone", "spawn"} => pcCheck = "unborn"

(* Main past its own join leaves no worker behind.                         *)
NoneLeft == pcMain = "exit" => ~Joinable

SessionInv ==
    /\ OneSession /\ ExitedIsReapable /\ ReinitAlone
    /\ FlagHasWorker /\ RecoveryTaken /\ RaisedByUnjoined
    /\ CheckerGone /\ NotYetBorn /\ NoneLeft

-----------------------------------------------------------------------------
(* Types.                                                                  *)

LEMMA LabelsStep == ASSUME LabelsOK, [Next]_vars PROVE LabelsOK'
<1> USE DrainPollsAssumption
<1> USE DEF LabelsOK, MainLabels, SnapLabels, CheckLabels, MonLabels, HlsLabels, Replies
<1>1. CASE Signal
  BY <1>1 DEF Signal, pcs, intent, camera
<1>2. CASE Main
  <2> USE DEF MainGoto, intent
  <2>1. CASE MainMove
    BY <2>1 DEF MainMove
  <2>2. CASE MainSpawn
    BY <2>2 DEF MainSpawn
  <2>3. CASE MainClearFlag
    BY <2>3 DEF MainClearFlag, AfterStop
  <2>4. CASE MainJoinHls
    BY <2>4 DEF MainJoinHls, JoinHlsWorker
  <2>5. CASE MainExit
    BY <2>5 DEF MainExit
  <2> QED BY <1>2, <2>1, <2>2, <2>3, <2>4, <2>5 DEF Main
<1>3. CASE Snap
  <2> USE DEF SnapGoto, flags, intent
  <2>1. CASE SnapMove
    BY <2>1 DEF SnapMove, WhileRunning
  <2>2. CASE SnapCapture
    BY <2>2 DEF SnapCapture
  <2> QED BY <1>3, <2>1, <2>2 DEF Snap
<1>4. CASE Mon
  <2> USE DEF MonGoto, intent, camera
  <2>1. CASE MonMove
    BY <2>1 DEF MonMove, WhileRunning
  <2>2. CASE MonSample
    BY <2>2 DEF MonSample
  <2> QED BY <1>4, <2>1, <2>2 DEF Mon
<1>5. CASE Check
  <2> USE DEF CheckGoto, flags, intent, camera
  <2>1. CASE CheckMove
    BY <2>1 DEF CheckMove, WhileRunning, CanStart
  <2>2. CASE CheckEmergency
    BY <2>2 DEF CheckEmergency
  <2>3. CASE CheckRecovery
    BY <2>3 DEF CheckRecovery
  <2>4. CASE CheckStop
    BY <2>4 DEF CheckStop, AfterStop
  <2>5. CASE CheckJoin
    BY <2>5 DEF CheckJoin, JoinHlsWorker
  <2>6. CASE CheckReinit
    BY <2>6 DEF CheckReinit
  <2>7. CASE CheckApi
    BY <2>7 DEF CheckApi
  <2>8. CASE CheckRecheck
    BY <2>8 DEF CheckRecheck
  <2>9. CASE CheckDecide
    BY <2>9 DEF CheckDecide
  <2>10. CASE CheckStartFlag
    BY <2>10 DEF CheckStartFlag
  <2>11. CASE CheckStartThread
    BY <2>11 DEF CheckStartThread
  <2> QED
    BY <1>5, <2>1, <2>2, <2>3, <2>4, <2>5, <2>6, <2>7, <2>8, <2>9, <2>10, <2>11
    DEF Check
<1>6. CASE Hls
  <2> USE DEF HlsGoto, intent, camera
  <2>1. CASE HlsCleanup
    BY <2>1 DEF HlsCleanup
  <2>2. CASE HlsStart
    BY <2>2 DEF HlsStart
  <2>3. CASE HlsStartFailed
    BY <2>3 DEF HlsStartFailed
  <2>4. CASE HlsLoop
    BY <2>4 DEF HlsLoop, LeaveLoop
  <2>5. CASE HlsPoll
    BY <2>5 DEF HlsPoll, LeaveLoop
  <2>6. CASE HlsUpload
    BY <2>6 DEF HlsUpload, LeaveLoop
  <2>7. CASE HlsStopVideo
    BY <2>7 DEF HlsStopVideo
  <2>8. CASE HlsDrain
    BY <2>8 DEF HlsDrain, MoreDrainPolls
  <2>9. CASE HlsClear
    BY <2>9 DEF HlsClear
  <2> QED BY <1>6, <2>1, <2>2, <2>3, <2>4, <2>5, <2>6, <2>7, <2>8, <2>9 DEF Hls
<1>7. CASE EncoderFails
  BY <1>7 DEF EncoderFails, pcs, flags, intent
<1>8. CASE UNCHANGED vars
  BY <1>8 DEF vars, pcs, flags, intent, camera
<1> QED BY <1>1, <1>2, <1>3, <1>4, <1>5, <1>6, <1>7, <1>8 DEF Next, Finished

LEMMA FlagsStep == ASSUME FlagsOK, [Next]_vars PROVE FlagsOK'
<1> USE DEF FlagsOK
<1>1. CASE Signal
  BY <1>1, Zenon DEF Signal, pcs, intent, camera
<1>2. CASE Main
  <2> USE DEF MainGoto, intent
  <2>1. CASE MainMove
    <3>1. UNCHANGED <<keepRunning, streamShouldRun, emergencyStopHls, cameraRecoveryNeeded,
                      lastDefinitiveStreamOn, requestSeen, camera>>
      BY <2>1 DEF MainMove, camera
    <3>. QED
      BY <3>1, Zenon DEF camera
  <2>2. CASE MainSpawn
    BY <2>2, Zenon DEF MainSpawn
  <2>3. CASE MainClearFlag
    BY <2>3, Zenon DEF MainClearFlag, AfterStop
  <2>4. CASE MainJoinHls
    BY <2>4, Zenon DEF MainJoinHls, JoinHlsWorker
  <2>5. CASE MainExit
    BY <2>5, Zenon DEF MainExit
  <2> QED BY <1>2, <2>1, <2>2, <2>3, <2>4, <2>5 DEF Main
<1>3. CASE Snap
  <2> USE DEF SnapGoto, flags, intent
  <2>1. CASE SnapMove
    BY <2>1, Zenon DEF SnapMove, WhileRunning
  <2>2. CASE SnapCapture
    BY <2>2, Zenon DEF SnapCapture
  <2> QED BY <1>3, <2>1, <2>2 DEF Snap
<1>4. CASE Mon
  <2> USE DEF MonGoto, intent, camera
  <2>1. CASE MonMove
    BY <2>1, Zenon DEF MonMove, WhileRunning
  <2>2. CASE MonSample
    BY <2>2, Zenon DEF MonSample
  <2> QED BY <1>4, <2>1, <2>2 DEF Mon
<1>5. CASE Check
  <2> USE DEF CheckGoto, flags, intent, camera
  <2>1. CASE CheckMove
    BY <2>1, Zenon DEF CheckMove, WhileRunning, CanStart
  <2>2. CASE CheckEmergency
    BY <2>2, Zenon DEF CheckEmergency
  <2>3. CASE CheckRecovery
    BY <2>3, Zenon DEF CheckRecovery
  <2>4. CASE CheckStop
    BY <2>4, Zenon DEF CheckStop, AfterStop
  <2>5. CASE CheckJoin
    BY <2>5, Zenon DEF CheckJoin, JoinHlsWorker
  <2>6. CASE CheckReinit
    BY <2>6, Zenon DEF CheckReinit
  <2>7. CASE CheckApi
    BY <2>7, Zenon DEF CheckApi
  <2>8. CASE CheckRecheck
    BY <2>8, Zenon DEF CheckRecheck
  <2>9. CASE CheckDecide
    BY <2>9, Zenon DEF CheckDecide
  <2>10. CASE CheckStartFlag
    BY <2>10, Zenon DEF CheckStartFlag
  <2>11. CASE CheckStartThread
    BY <2>11, Zenon DEF CheckStartThread
  <2> QED
    BY <1>5, <2>1, <2>2, <2>3, <2>4, <2>5, <2>6, <2>7, <2>8, <2>9, <2>10, <2>11
    DEF Check
<1>6. CASE Hls
  <2> USE DEF HlsGoto, intent, camera
  <2>1. CASE HlsCleanup
    BY <2>1, Zenon DEF HlsCleanup
  <2>2. CASE HlsStart
    BY <2>2, Zenon DEF HlsStart
  <2>3. CASE HlsStartFailed
    BY <2>3, Zenon DEF HlsStartFailed
  <2>4. CASE HlsLoop
    BY <2>4, Zenon DEF HlsLoop, LeaveLoop
  <2>5. CASE HlsPoll
    BY <2>5, Zenon DEF HlsPoll, LeaveLoop
  <2>6. CASE HlsUpload
    BY <2>6, Zenon DEF HlsUpload, LeaveLoop
  <2>7. CASE HlsStopVideo
    BY <2>7, Zenon DEF HlsStopVideo
  <2>8. CASE HlsDrain
    BY <2>8, Zenon DEF HlsDrain, MoreDrainPolls
  <2>9. CASE HlsClear
    BY <2>9, Zenon DEF HlsClear
  <2> QED BY <1>6, <2>1, <2>2, <2>3, <2>4, <2>5, <2>6, <2>7, <2>8, <2>9 DEF Hls
<1>7. CASE EncoderFails
  BY <1>7, Zenon DEF EncoderFails, pcs, flags, intent
<1>8. CASE UNCHANGED vars
  BY <1>8, Zenon DEF vars, pcs, flags, intent, camera
<1> QED BY <1>1, <1>2, <1>3, <1>4, <1>5, <1>6, <1>7, <1>8 DEF Next, Finished

(* Every variable keeps its type: no thread reaches a label outside its    *)
(* function, and the drain makes at most DrainPolls polls.                 *)
THEOREM TypeCorrect == Spec => []TypeOK
<1>1. Init => TypeOK
  <2>1. Init => LabelsOK
    BY DrainPollsAssumption
    DEF Init, LabelsOK, MainLabels, SnapLabels, CheckLabels, MonLabels, HlsLabels, Replies
  <2>2. Init => FlagsOK
    BY DEF Init, FlagsOK
  <2> QED BY <2>1, <2>2 DEF TypeOK
<1>2. TypeOK /\ [Next]_vars => TypeOK'
  BY LabelsStep, FlagsStep DEF TypeOK
<1> QED BY <1>1, <1>2, PTL DEF Spec

-----------------------------------------------------------------------------
(* Sessions.                                                               *)

LEMMA SessionStep == ASSUME TypeOK, SessionInv, [Next]_vars PROVE SessionInv'
<1> USE DEF SessionInv, OneSession, ExitedIsReapable, ReinitAlone, FlagHasWorker,
           RecoveryTaken, RaisedByUnjoined, CheckerGone, NotYetBorn, NoneLeft,
           Starting, Joinable, Ended, PastExchange
<1>1. CASE Signal
  BY <1>1 DEF Signal, pcs, intent, camera
<1>2. CASE Main
  <2> USE DEF MainGoto, intent
  <2>1. CASE MainMove
    BY <2>1 DEF MainMove
  <2>2. CASE MainSpawn
    BY <2>2 DEF MainSpawn
  <2>3. CASE MainClearFlag
    BY <2>3 DEF MainClearFlag, AfterStop
  <2>4. CASE MainJoinHls
    BY <2>4 DEF MainJoinHls, JoinHlsWorker
  <2>5. CASE MainExit
    BY <2>5 DEF MainExit
  <2> QED BY <1>2, <2>1, <2>2, <2>3, <2>4, <2>5 DEF Main
<1>3. CASE Snap
  <2> USE DEF SnapGoto, flags, intent
  <2>1. CASE SnapMove
    BY <2>1 DEF SnapMove, WhileRunning
  <2>2. CASE SnapCapture
    BY <2>2 DEF SnapCapture
  <2> QED BY <1>3, <2>1, <2>2 DEF Snap
<1>4. CASE Mon
  <2> USE DEF MonGoto, intent, camera
  <2>1. CASE MonMove
    BY <2>1 DEF MonMove, WhileRunning
  <2>2. CASE MonSample
    BY <2>2 DEF MonSample
  <2> QED BY <1>4, <2>1, <2>2 DEF Mon
<1>5. CASE Check
  <2> USE DEF CheckGoto, flags, intent, camera
  <2>1. CASE CheckMove
    BY <2>1 DEF CheckMove, WhileRunning, CanStart
  <2>2. CASE CheckEmergency
    BY <2>2 DEF CheckEmergency
  <2>3. CASE CheckRecovery
    BY <2>3 DEF CheckRecovery
  <2>4. CASE CheckStop
    BY <2>4 DEF CheckStop, AfterStop
  <2>5. CASE CheckJoin
    BY <2>5 DEF CheckJoin, JoinHlsWorker
  <2>6. CASE CheckReinit
    BY <2>6 DEF CheckReinit
  <2>7. CASE CheckApi
    BY <2>7 DEF CheckApi
  <2>8. CASE CheckRecheck
    BY <2>8 DEF CheckRecheck
  <2>9. CASE CheckDecide
    BY <2>9 DEF CheckDecide
  <2>10. CASE CheckStartFlag
    BY <2>10 DEF CheckStartFlag
  <2>11. CASE CheckStartThread
    BY <2>11 DEF CheckStartThread
  <2> QED
    BY <1>5, <2>1, <2>2, <2>3, <2>4, <2>5, <2>6, <2>7, <2>8, <2>9, <2>10, <2>11
    DEF Check
<1>6. CASE Hls
  <2> USE DEF HlsGoto, intent, camera
  <2>1. CASE HlsCleanup
    BY <2>1 DEF HlsCleanup
  <2>2. CASE HlsStart
    BY <2>2 DEF HlsStart
  <2>3. CASE HlsStartFailed
    BY <2>3 DEF HlsStartFailed
  <2>4. CASE HlsLoop
    BY <2>4 DEF HlsLoop, LeaveLoop
  <2>5. CASE HlsPoll
    BY <2>5 DEF HlsPoll, LeaveLoop
  <2>6. CASE HlsUpload
    BY <2>6 DEF HlsUpload, LeaveLoop
  <2>7. CASE HlsStopVideo
    BY <2>7 DEF HlsStopVideo
  <2>8. CASE HlsDrain
    BY <2>8 DEF HlsDrain, MoreDrainPolls
  <2>9. CASE HlsClear
    BY <2>9 DEF HlsClear
  <2> QED BY <1>6, <2>1, <2>2, <2>3, <2>4, <2>5, <2>6, <2>7, <2>8, <2>9 DEF Hls
<1>7. CASE EncoderFails
  BY <1>7 DEF EncoderFails, pcs, flags, intent
<1>8. CASE UNCHANGED vars
  BY <1>8 DEF vars, pcs, flags, intent, camera
<1> QED BY <1>1, <1>2, <1>3, <1>4, <1>5, <1>6, <1>7, <1>8 DEF Next, Finished

(* Only the worker turns video mode on; what it needs of the sessions is   *)
(* that none begins while another is in its loop.                          *)
LEMMA VideoStep == ASSUME TypeOK, SessionInv, VideoModeOwned, [Next]_vars PROVE VideoModeOwned'
<1> USE DEF VideoModeOwned, InLoop
<1>1. CASE Signal
  BY <1>1 DEF Signal, pcs, intent, camera
<1>2. CASE Main
  <2> USE DEF MainGoto, intent
  <2>1. CASE MainMove
    BY <2>1 DEF MainMove
  <2>2. CASE MainSpawn
    BY <2>2 DEF MainSpawn
  <2>3. CASE MainClearFlag
    BY <2>3 DEF MainClearFlag, AfterStop
  <2>4. CASE MainJoinHls
    BY <2>4 DEF MainJoinHls, JoinHlsWorker
  <2>5. CASE MainExit
    BY <2>5 DEF MainExit
  <2> QED BY <1>2, <2>1, <2>2, <2>3, <2>4, <2>5 DEF Main
<1>3. CASE Snap
  <2> USE DEF SnapGoto, flags, intent
  <2>1. CASE SnapMove
    BY <2>1 DEF SnapMove, WhileRunning
  <2>2. CASE SnapCapture
    BY <2>2 DEF SnapCapture
  <2> QED BY <1>3, <2>1, <2>2 DEF Snap
<1>4. CASE Mon
  <2> USE DEF MonGoto, intent, camera
  <2>1. CASE MonMove
    BY <2>1 DEF MonMove, WhileRunning
  <2>2. CASE MonSample
    BY <2>2 DEF MonSample
  <2> QED BY <1>4, <2>1, <2>2 DEF Mon
<1>5. CASE Check
  <2> USE DEF CheckGoto, flags, intent, camera
  <2>1. CASE CheckMove
    BY <2>1 DEF CheckMove, WhileRunning, CanStart
  <2>2. CASE CheckEmergency
    BY <2>2 DEF CheckEmergency
  <2>3. CASE CheckRecovery
    BY <2>3 DEF CheckRecovery
  <2>4. CASE CheckStop
    BY <2>4 DEF CheckStop, AfterStop
  <2>5. CASE CheckJoin
    BY <2>5 DEF CheckJoin, JoinHlsWorker
  <2>6. CASE CheckReinit
    BY <2>6 DEF CheckReinit
  <2>7. CASE CheckApi
    BY <2>7 DEF CheckApi
  <2>8. CASE CheckRecheck
    BY <2>8 DEF CheckRecheck
  <2>9. CASE CheckDecide
    BY <2>9 DEF CheckDecide
  <2>10. CASE CheckStartFlag
    BY <2>10 DEF CheckStartFlag
  <2>11. CASE CheckStartThread
    BY <2>11 DEF CheckStartThread, SessionInv, OneSession, Starting, Joinable
  <2> QED
    BY <1>5, <2>1, <2>2, <2>3, <2>4, <2>5, <2>6, <2>7, <2>8, <2>9, <2>10, <2>11
    DEF Check
<1>6. CASE Hls
  <2> USE DEF HlsGoto, intent, camera
  <2>1. CASE HlsCleanup
    BY <2>1 DEF HlsCleanup
  <2>2. CASE HlsStart
    BY <2>2 DEF HlsStart
  <2>3. CASE HlsStartFailed
    BY <2>3 DEF HlsStartFailed
  <2>4. CASE HlsLoop
    BY <2>4 DEF HlsLoop, LeaveLoop
  <2>5. CASE HlsPoll
    BY <2>5 DEF HlsPoll, LeaveLoop
  <2>6. CASE HlsUpload
    BY <2>6 DEF HlsUpload, LeaveLoop
  <2>7. CASE HlsStopVideo
    BY <2>7 DEF HlsStopVideo
  <2>8. CASE HlsDrain
    BY <2>8 DEF HlsDrain, MoreDrainPolls
  <2>9. CASE HlsClear
    BY <2>9 DEF HlsClear
  <2> QED BY <1>6, <2>1, <2>2, <2>3, <2>4, <2>5, <2>6, <2>7, <2>8, <2>9 DEF Hls
<1>7. CASE EncoderFails
  BY <1>7 DEF EncoderFails, pcs, flags, intent
<1>8. CASE UNCHANGED vars
  BY <1>8 DEF vars, pcs, flags, intent, camera
<1> QED BY <1>1, <1>2, <1>3, <1>4, <1>5, <1>6, <1>7, <1>8 DEF Next, Finished

LEMMA SessionInvariant == Spec => []SessionInv
<1>1. Init => SessionInv
  BY DEF Init, SessionInv, OneSession, ExitedIsReapable, ReinitAlone, FlagHasWorker,
           RecoveryTaken, RaisedByUnjoined, CheckerGone, NotYetBorn, NoneLeft,
           Starting, Joinable, Ended, PastExchange
<1>2. TypeOK /\ SessionInv /\ [Next]_vars => SessionInv'
  BY SessionStep
<1> QED BY <1>1, <1>2, TypeCorrect, PTL DEF Spec

(* The checker never replaces a handle whose thread it has not joined, so  *)
(* two sessions never overlap.                                             *)
THEOREM SessionsAreExclusive == Spec => []OneSession
<1>1. SessionInv => OneSession
  BY DEF SessionInv
<1> QED BY <1>1, SessionInvariant, PTL

(* A worker that has ended never hides behind a streamShouldRun set again  *)
(* before its join: reapFinishedHlsWorker finds it.                        *)
THEOREM ExitedWorkersAreReapable == Spec => []ExitedIsReapable
<1>1. SessionInv => ExitedIsReapable
  BY DEF SessionInv
<1> QED BY <1>1, SessionInvariant, PTL

(* No session starts while the camera failure of an earlier one is         *)
(* pending, whatever order the worker's store, its end, the checker's      *)
(* exchange, the joins and the API answer take.                            *)
THEOREM RecoveryComesFirst == Spec => []RecoveryBeforeStart
<1>1. SessionInv => RecoveryBeforeStart
  BY DEF SessionInv, OneSession, RaisedByUnjoined, PastExchange, RecoveryBeforeStart, Starting
<1> QED BY <1>1, SessionInvariant, PTL

(* The camera is never torn down and acquired again under a live worker.   *)
THEOREM ReinitIsAlone == Spec => []ReinitAlone
<1>1. SessionInv => ReinitAlone
  BY DEF SessionInv
<1> QED BY <1>1, SessionInvariant, PTL

(* Main reaches streamThread only after the checker has ended, and leaves  *)
(* no worker behind when the process ends.                                 *)
THEOREM HandleIsHandedOver == Spec => []HandleHandedOver
<1>1. SessionInv => HandleHandedOver
  BY DEF SessionInv, CheckerGone, NoneLeft, HandleHandedOver
<1> QED BY <1>1, SessionInvariant, PTL

(* Video mode is on only under a worker on its way to stopVideoMode.       *)
THEOREM VideoModeIsOwned == Spec => []VideoModeOwned
<1>1. Init => VideoModeOwned
  BY DEF Init, VideoModeOwned
<1>2. TypeOK /\ SessionInv /\ VideoModeOwned /\ [Next]_vars => VideoModeOwned'
  BY VideoStep
<1> QED BY <1>1, <1>2, TypeCorrect, SessionInvariant, PTL DEF Spec

-----------------------------------------------------------------------------
(* Refinement.                                                             *)

LEMMA LifecycleStep ==
    ASSUME TypeOK, SessionInv, SessionInv', [Next]_vars
    PROVE  [Lifecycle!Next]_<<SessionPhase, keepRunning>>
<1> USE DEF TypeOK, LabelsOK, CheckLabels, HlsLabels, SessionInv, OneSession, ReinitAlone,
           FlagHasWorker, RecoveryTaken, RaisedByUnjoined, CheckerGone, NotYetBorn,
           Starting, Joinable, Ended, PastExchange, SessionPhase, RecoveryPending, InLoop,
           Lifecycle!Next, Lifecycle!Move, Lifecycle!Begin, Lifecycle!GoLive,
           Lifecycle!GiveUp, Lifecycle!Fail, Lifecycle!Reap, Lifecycle!Recover,
           Lifecycle!Abandon, Lifecycle!Halt
<1>1. CASE Signal
  BY <1>1 DEF Signal, pcs
<1>2. CASE Main
  <2> USE DEF MainGoto
  <2>1. CASE MainMove
    BY <2>1 DEF MainMove
  <2>2. CASE MainSpawn
    BY <2>2 DEF MainSpawn
  <2>3. CASE MainClearFlag
    BY <2>3 DEF MainClearFlag
  <2>4. CASE MainJoinHls
    BY <2>4 DEF MainJoinHls, JoinHlsWorker
  <2>5. CASE MainExit
    BY <2>5 DEF MainExit
  <2> QED BY <1>2, <2>1, <2>2, <2>3, <2>4, <2>5 DEF Main
<1>3. CASE Snap
  <2> USE DEF SnapGoto, flags
  <2>1. CASE SnapMove
    BY <2>1 DEF SnapMove
  <2>2. CASE SnapCapture
    BY <2>2 DEF SnapCapture
  <2> QED BY <1>3, <2>1, <2>2 DEF Snap
<1>4. CASE Mon
  <2> USE DEF MonGoto
  <2>1. CASE MonMove
    BY <2>1 DEF MonMove
  <2>2. CASE MonSample
    BY <2>2 DEF MonSample
  <2> QED BY <1>4, <2>1, <2>2 DEF Mon
<1>5. CASE Check
  <2> USE DEF CheckGoto, flags
  <2>1. CASE CheckMove
    BY <2>1 DEF CheckMove, WhileRunning, CanStart
  <2>2. CASE CheckEmergency
    BY <2>2 DEF CheckEmergency
  <2>3. CASE CheckRecovery
    BY <2>3 DEF CheckRecovery
  <2>4. CASE CheckStop
    BY <2>4 DEF CheckStop, AfterStop
  <2>5. CASE CheckJoin
    BY <2>5 DEF CheckJoin, JoinHlsWorker
  <2>6. CASE CheckReinit
    BY <2>6 DEF CheckReinit
  <2>7. CASE CheckApi
    BY <2>7 DEF CheckApi
  <2>8. CASE CheckRecheck
    BY <2>8 DEF CheckRecheck
  <2>9. CASE CheckDecide
    BY <2>9 DEF CheckDecide
  <2>10. CASE CheckStartFlag
    BY <2>10 DEF CheckStartFlag
  <2>11. CASE CheckStartThread
    BY <2>11 DEF CheckStartThread
  <2> QED
    BY <1>5, <2>1, <2>2, <2>3, <2>4, <2>5, <2>6, <2>7, <2>8, <2>9, <2>10, <2>11
    DEF Check
<1>6. CASE Hls
  <2> USE DEF HlsGoto
  <2>1. CASE HlsCleanup
    BY <2>1 DEF HlsCleanup
  <2>2. CASE HlsStart
    BY <2>2 DEF HlsStart
  <2>3. CASE HlsStartFailed
    BY <2>3 DEF HlsStartFailed
  <2>4. CASE HlsLoop
    BY <2>4 DEF HlsLoop, LeaveLoop
  <2>5. CASE HlsPoll
    BY <2>5 DEF HlsPoll, LeaveLoop
  <2>6. CASE HlsUpload
    BY <2>6 DEF HlsUpload, LeaveLoop
  <2>7. CASE HlsStopVideo
    BY <2>7 DEF HlsStopVideo
  <2>8. CASE HlsDrain
    BY <2>8 DEF HlsDrain
  <2>9. CASE HlsClear
    BY <2>9 DEF HlsClear
  <2> QED BY <1>6, <2>1, <2>2, <2>3, <2>4, <2>5, <2>6, <2>7, <2>8, <2>9 DEF Hls
<1>7. CASE EncoderFails
  BY <1>7 DEF EncoderFails, pcs, flags
<1>8. CASE UNCHANGED vars
  BY <1>8 DEF vars, pcs, flags
<1> HIDE DEF Lifecycle!Next, SessionPhase, SessionInv, TypeOK
<1> QED BY <1>1, <1>2, <1>3, <1>4, <1>5, <1>6, <1>7, <1>8 DEF Next, Finished

(* The checker and the worker implement the session life cycle: sessions   *)
(* follow one another, and a failed start is followed by a recovery, or by *)
(* the end of the process, before the next one.                            *)
THEOREM LifecycleImplemented == Spec => ImplementsLifecycle
<1>1. Init => Lifecycle!Init
  BY DEF Init, Lifecycle!Init, SessionPhase, RecoveryPending
<1>2. TypeOK /\ SessionInv /\ SessionInv' /\ [Next]_vars
        => [Lifecycle!Next]_<<SessionPhase, keepRunning>>
  BY LifecycleStep
<1> QED BY <1>1, <1>2, TypeCorrect, SessionInvariant, PTL DEF Spec, ImplementsLifecycle, Lifecycle!Spec

-----------------------------------------------------------------------------
(* The camera, as it is assumed.                                           *)

(* CameraControl implements the same specification.                        *)
Calls == INSTANCE CameraCalls WITH paused <- snapshotsPaused

(* What a step does to the camera.                                         *)
LEMMA CameraStep ==
    [Next]_vars => \/ SnapCapture \/ MainExit \/ CheckReinit \/ HlsStart \/ HlsStopVideo
                   \/ UNCHANGED <<videoMode, snapshotsPaused>>
<1> SUFFICES ASSUME [Next]_vars
             PROVE  \/ SnapCapture \/ MainExit \/ CheckReinit \/ HlsStart \/ HlsStopVideo
                    \/ UNCHANGED <<videoMode, snapshotsPaused>>
  OBVIOUS
<1>1. CASE Signal \/ EncoderFails \/ Finished \/ UNCHANGED vars
  BY <1>1 DEF Signal, EncoderFails, Finished, vars, camera
<1>2. CASE Main
  BY <1>2 DEF Main, MainMove, MainSpawn, MainClearFlag, MainJoinHls, MainGoto, camera
<1>3. CASE Snap \/ Mon
  BY <1>3 DEF Snap, SnapMove, SnapGoto, Mon, MonMove, MonSample, MonGoto, camera
<1>4. CASE Check
  BY <1>4 DEF Check, CheckMove, CheckEmergency, CheckRecovery, CheckStop, CheckJoin, CheckApi,
     CheckRecheck, CheckDecide, CheckStartFlag, CheckStartThread, CheckGoto, camera
<1>5. CASE Hls
  BY <1>5 DEF Hls, HlsCleanup, HlsStartFailed, HlsLoop, HlsPoll, HlsUpload, HlsDrain,
     HlsClear, HlsGoto, camera
<1>. QED
  BY <1>1, <1>2, <1>3, <1>4, <1>5 DEF Next

(* StreamControl asks no more of the camera than CameraCalls promises, and *)
(* keeps its side: a start finds no video mode, a reinitialize none to     *)
(* stop.                                                                   *)
THEOREM CallsAreKept == Spec => Calls!Spec
<1>1. Init => Calls!Init
  BY DEF Init, Calls!Init
<1>2. TypeOK /\ ReinitAlone /\ VideoModeOwned /\ [Next]_vars
        => [Calls!Next]_<<videoMode, snapshotsPaused>>
  <2> SUFFICES ASSUME TypeOK, ReinitAlone, VideoModeOwned, [Next]_vars
               PROVE  Calls!Next \/ UNCHANGED <<videoMode, snapshotsPaused>>
    OBVIOUS
  <2>0. videoMode \in BOOLEAN /\ snapshotsPaused \in BOOLEAN
    BY DEF TypeOK, FlagsOK
  <2>1. CASE SnapCapture \/ MainExit \/ HlsStopVideo
    <3>1. snapshotsPaused' = snapshotsPaused /\ (videoMode' = videoMode \/ ~videoMode')
      BY <2>0, <2>1, Zenon DEF SnapCapture, SnapGoto, MainExit, MainGoto, HlsStopVideo
    <3>2. CASE videoMode' = videoMode
      BY <3>1, <3>2
    <3>3. CASE videoMode /\ videoMode' = FALSE
      BY <3>1, <3>3 DEF Calls!Next, Calls!StopVideo
    <3>4. videoMode' \in BOOLEAN
      BY <2>0, <2>1, Zenon DEF SnapCapture, MainExit, HlsStopVideo
    <3>. QED
      BY <2>0, <3>1, <3>2, <3>3, <3>4, Zenon
  <2>2. CASE CheckReinit
    <3>1. ~videoMode
      BY <2>2 DEF CheckReinit, CheckGoto, ReinitAlone, VideoModeOwned, InLoop, Joinable
    <3>. QED
      BY <2>0, <2>2, <3>1, Zenon DEF CheckReinit, Calls!Next, Calls!Reinitialize
  <2>3. CASE HlsStart
    <3>1. ~videoMode
      BY <2>3 DEF HlsStart, HlsGoto, VideoModeOwned, InLoop
    <3>. QED
      BY <2>0, <2>3, <3>1, Zenon DEF HlsStart, Calls!Next, Calls!StartVideo
  <2>. QED
    BY <2>1, <2>2, <2>3, CameraStep
<1>. QED
  BY <1>1, <1>2, TypeCorrect, ReinitIsAlone, VideoModeIsOwned, PTL DEF Spec, Calls!Spec
=============================================================================
