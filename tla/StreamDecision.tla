---------------------------- MODULE StreamDecision ----------------------------
(***************************************************************************)
(* When the stream checker of src/main.cpp starts and stops a session,     *)
(* with the clock StreamControl leaves out: the API's answers, the         *)
(* STREAM_TIMEOUT grace, which is measured on the wall clock, outages and  *)
(* the backoff that follows them; the joins of a worker that still polls   *)
(* and drains; and how long the checker takes to notice that the process   *)
(* is to end.                                                              *)
(*                                                                         *)
(* A step takes the time its blocking calls take.  A signal falls between  *)
(* two steps; one in the middle of a step would be noticed at the same     *)
(* moment as one at its beginning, and so after a shorter time.            *)
(*                                                                         *)
(* now is true time; the wall clock is ahead of it by skew, which may      *)
(* change at any moment (system_clock follows every correction).           *)
(***************************************************************************)
EXTENDS Integers

CONSTANTS
    Interval,       \* STREAM_CHECK_INTERVAL
    Timeout,        \* STREAM_TIMEOUT
    StreakFree,     \* failures in a row that cause no backoff (5)
    BackoffStep,    \* extra sleep for each further failure (20 s)
    BackoffCap,     \* its limit (180 s)
    ApiDelay,       \* the longest isStreamingRequested blocks (its timeouts)
    RecoveryPause,  \* the sleep after a failed reinitialize (1 min)
    ReinitTime,     \* the longest reinitialize takes, its wait for the camera included
    PollTime,       \* the longest pollAndUpload and the sleep after it take
    DrainPolls,     \* polls after the encoder has stopped (8)
    CameraTime,     \* the longest the worker's other calls take: clean up, start, stop
    MaxSkew,        \* bound: how far the wall clock runs ahead
    Horizon         \* bound: no sleep begins later

ASSUME TimesAssumption ==
    /\ Interval \in Nat \ {0} /\ Timeout \in Nat \ {0} /\ ApiDelay \in Nat
    /\ RecoveryPause \in Nat /\ ReinitTime \in Nat
ASSUME WorkerAssumption == PollTime \in Nat /\ DrainPolls \in Nat /\ CameraTime \in Nat
ASSUME BackoffAssumption ==
    StreakFree \in Nat /\ BackoffStep \in Nat /\ BackoffCap \in Nat
ASSUME BoundAssumption == MaxSkew \in Nat /\ Horizon \in Nat

VARIABLES
    pc,                     \* where the checker stands
    now, skew,              \* true time; the wall clock shows now + skew
    session,                \* streamThread is joinable
    mayNeedRecovery,        \* a worker ran whose failure to start was not yet seen
    lastDefinitiveStreamOn,
    lastStreamRequestTime,  \* wall clock, 0 for never
    apiFailureStreak,
    keepRunning,            \* cleared by the signal
    asked,                  \* history: when the API was last asked
    lastOn,                 \* history: when it last answered true
    stoppedAt               \* history: when the signal came, 0 before

clock  == <<now, skew>>
worker == <<session, mayNeedRecovery>>
intent == <<lastDefinitiveStreamOn, lastStreamRequestTime>>
past   == <<asked, lastOn>>
stop   == <<keepRunning, stoppedAt>>
vars   == <<pc, clock, worker, intent, apiFailureStreak, past, stop>>

Labels == {"top", "reap", "alarm", "look", "recover", "pause", "ask", "start",
           "end", "sleep", "backoff", "extra", "done"}

Init ==
    /\ pc = "top"
    /\ now = 1 /\ skew = 0
    /\ session = FALSE /\ mayNeedRecovery = FALSE
    /\ lastDefinitiveStreamOn = FALSE /\ lastStreamRequestTime = 0
    /\ apiFailureStreak = 0
    /\ asked = 1 /\ lastOn = 0
    /\ keepRunning = TRUE /\ stoppedAt = 0

-----------------------------------------------------------------------------
(* The signal handler.                                                     *)
Signal ==
    /\ keepRunning
    /\ keepRunning' = FALSE
    /\ stoppedAt' = now
    /\ UNCHANGED <<pc, clock, worker, intent, apiFailureStreak, past>>

-----------------------------------------------------------------------------
(* Joining the worker.                                                     *)

(* A worker told to stop still has the poll in hand, or its start, then    *)
(* stops the encoder and drains: nothing of this looks at the signal.      *)
StopTime == PollTime * (1 + DrainPolls) + CameraTime

JoinTimes == IF session THEN 0..StopTime ELSE {0}

(* stopHlsStreamSession, and then what takes one of more.                  *)
StopSession(more) ==
    /\ session' = FALSE
    /\ \E wait \in JoinTimes, rest \in more : now' = now + wait + rest

-----------------------------------------------------------------------------
(* The top of an iteration.                                                *)
BeginIteration ==
    /\ pc = "top" /\ keepRunning
    /\ pc' = "reap"
    /\ UNCHANGED <<clock, worker, intent, apiFailureStreak, past, stop>>

LeaveLoop ==
    /\ pc = "top" /\ ~keepRunning
    /\ pc' = "done"
    /\ UNCHANGED <<clock, worker, intent, apiFailureStreak, past, stop>>

(* A session that is over is joined at once.  After the signal main clears *)
(* streamShouldRun, and the reap joins a worker that has yet to end.       *)
Reap ==
    /\ pc = "reap"
    /\ pc' = "alarm"
    /\ \/ UNCHANGED <<now, session>>
       \/ keepRunning /\ session' = FALSE /\ UNCHANGED now
       \/ ~keepRunning /\ StopSession({0})
    /\ UNCHANGED <<skew, mayNeedRecovery, intent, apiFailureStreak, past, stop>>

(* An emergency the monitor has raised, if any.                            *)
ObeyAlarm ==
    /\ pc = "alarm"
    /\ pc' = "look"
    /\ \/ UNCHANGED <<now, session, apiFailureStreak>>
       \/ StopSession({0}) /\ apiFailureStreak' = 0
    /\ UNCHANGED <<skew, mayNeedRecovery, intent, past, stop>>

(* The exchange of cameraRecoveryNeeded.  A worker still there, that has   *)
(* not raised it, may yet do so.                                           *)
LookForRecovery ==
    /\ pc = "look"
    /\ \E needed \in BOOLEAN :
          /\ needed => mayNeedRecovery
          /\ pc' = IF needed /\ keepRunning THEN "recover" ELSE "ask"
          /\ mayNeedRecovery' = (session /\ ~needed)
    /\ UNCHANGED <<clock, session, intent, apiFailureStreak, past, stop>>

(* The worker that could not start is joined, the camera reinitialized.    *)
Recover ==
    /\ pc = "recover"
    /\ StopSession(0..ReinitTime)
    /\ pc' \in {"ask", "pause"}
    /\ UNCHANGED <<skew, mayNeedRecovery, intent, apiFailureStreak, past, stop>>

(* The minute after a failed reinitialize; nobody looks at the signal.     *)
Pause ==
    /\ pc = "pause"
    /\ pc' = "ask"
    /\ now' = now + RecoveryPause
    /\ UNCHANGED <<skew, worker, intent, apiFailureStreak, past, stop>>

-----------------------------------------------------------------------------
(* Asking the API.                                                         *)

(* Variants: one second too long; an outage is taken for a no.             *)
WithinGraceInclusive(wall, last) == last # 0 /\ wall - last <= Timeout
WithinGrace(wall, last) == last # 0 /\ wall - last < Timeout

DefinitiveAfterOff(reply) == reply = "on"
DefinitiveAfter(reply) ==
    IF reply = "none" THEN lastDefinitiveStreamOn ELSE reply = "on"

(* Variant: the end of the grace is stored in its place.                   *)
RequestTimeDeadline == now' + skew + Timeout
RequestTime == now' + skew

ShouldStream(reply) ==
    \/ reply = "on"
    \/ reply = "off" /\ WithinGrace(now' + skew, lastStreamRequestTime')
    \/ reply = "none" /\ lastDefinitiveStreamOn'

(* The answer has come and the decision is taken: a session is to start,   *)
(* to end, or neither.                                                     *)
Answered(reply) ==
    /\ lastDefinitiveStreamOn' = DefinitiveAfter(reply)
    /\ lastStreamRequestTime' = IF reply = "on" THEN RequestTime ELSE lastStreamRequestTime
    /\ lastOn' = IF reply = "on" THEN now' ELSE lastOn
    /\ apiFailureStreak' = IF reply = "none" THEN apiFailureStreak + 1 ELSE 0
    /\ \/ ShouldStream(reply) = session /\ pc' = "sleep"
       \/ ShouldStream(reply) /\ ~session /\ pc' = "start"
       \/ ~ShouldStream(reply) /\ session /\ pc' = "end"
    /\ UNCHANGED worker

Threw ==
    /\ pc' = "sleep"
    /\ apiFailureStreak' = apiFailureStreak + 1
    /\ UNCHANGED <<worker, intent, lastOn>>

(* An answer that comes after the signal is dropped, for the loop to end.  *)
Dropped ==
    /\ ~keepRunning
    /\ pc' = "top"
    /\ UNCHANGED <<worker, intent, apiFailureStreak, lastOn>>

AskApi ==
    /\ pc = "ask"
    /\ \E delay \in 0..ApiDelay : now' = now + delay
    /\ asked' = now'
    /\ \/ keepRunning /\ \E reply \in {"on", "off", "none"} : Answered(reply)
       \/ Threw
       \/ Dropped
    /\ UNCHANGED <<skew, stop>>

(* The session starts, unless the signal has come before line 237; or its  *)
(* thread cannot be created, which counts as a failure of the API.         *)
Start ==
    /\ pc = "start"
    /\ pc' = "sleep"
    /\ \/ /\ keepRunning
          /\ session' = TRUE /\ mayNeedRecovery' = TRUE
          /\ UNCHANGED apiFailureStreak
       \/ keepRunning /\ apiFailureStreak' = apiFailureStreak + 1 /\ UNCHANGED worker
       \/ ~keepRunning /\ UNCHANGED <<worker, apiFailureStreak>>
    /\ UNCHANGED <<clock, intent, past, stop>>

(* The session is to end, unless the signal has come before line 237.      *)
End ==
    /\ pc = "end"
    /\ pc' = "sleep"
    /\ \/ StopSession({0})
       \/ ~keepRunning /\ UNCHANGED <<now, session>>
    /\ UNCHANGED <<skew, mayNeedRecovery, intent, apiFailureStreak, past, stop>>

-----------------------------------------------------------------------------
(* The sleeps that end an iteration.                                       *)

(* Variant: the backoff grows without a limit.                             *)
CappedNot(time) == time
Capped(time) == IF time < BackoffCap THEN time ELSE BackoffCap

Backoff ==
    IF apiFailureStreak > StreakFree
    THEN Capped((apiFailureStreak - StreakFree) * BackoffStep)
    ELSE 0

Sleep ==
    /\ pc = "sleep" /\ now <= Horizon
    /\ pc' = "backoff"
    /\ now' = now + Interval
    /\ UNCHANGED <<skew, worker, intent, apiFailureStreak, past, stop>>

(* Variant: the backoff begins whether or not the process is to end.       *)
BacksOffAlways == apiFailureStreak > StreakFree
BacksOff == apiFailureStreak > StreakFree /\ keepRunning

ChooseBackoff ==
    /\ pc = "backoff"
    /\ pc' = IF BacksOff THEN "extra" ELSE "top"
    /\ UNCHANGED <<clock, worker, intent, apiFailureStreak, past, stop>>

SleepMore ==
    /\ pc = "extra"
    /\ pc' = "top"
    /\ now' = now + Backoff
    /\ UNCHANGED <<skew, worker, intent, apiFailureStreak, past, stop>>

(* The wall clock is corrected.                                            *)
AdjustClock ==
    /\ now <= Horizon
    /\ skew' \in 0..MaxSkew
    /\ UNCHANGED <<pc, now, worker, intent, apiFailureStreak, past, stop>>

(* The loop has ended, or the bound is reached.                            *)
Finished ==
    /\ pc = "done" \/ (pc = "sleep" /\ now > Horizon)
    /\ UNCHANGED vars

Next == \/ Signal \/ BeginIteration \/ LeaveLoop \/ Reap \/ ObeyAlarm
        \/ LookForRecovery \/ Recover \/ Pause \/ AskApi \/ Start
        \/ End \/ Sleep \/ ChooseBackoff \/ SleepMore \/ AdjustClock \/ Finished

Spec == Init /\ [][Next]_vars

-----------------------------------------------------------------------------
(* Properties.                                                             *)

NumbersOK ==
    /\ now \in Nat
    /\ skew \in 0..MaxSkew
    /\ asked \in Nat /\ asked <= now
    /\ lastOn \in Nat /\ lastOn <= now
    /\ lastStreamRequestTime \in Nat /\ lastStreamRequestTime - MaxSkew <= now
    /\ apiFailureStreak \in Nat
    /\ stoppedAt \in Nat /\ stoppedAt <= now

TypeOK ==
    /\ pc \in Labels
    /\ keepRunning \in BOOLEAN
    /\ session \in BOOLEAN /\ mayNeedRecovery \in BOOLEAN
    /\ lastDefinitiveStreamOn \in BOOLEAN
    /\ NumbersOK

(* However long an outage was, the API is asked again within the cap, a    *)
(* round and what may delay the question in it, so that the checker        *)
(* notices its return: CI_TESTING.md:121.  A session is joined at most     *)
(* once meanwhile, wherever that happens: none starts without an answer.   *)
AskedInTime ==
    now <= asked + Interval + BackoffCap + StopTime + ReinitTime + RecoveryPause

(* With the API reachable, a session is told to end once its viewers have  *)
(* been gone for STREAM_TIMEOUT and one more round, the answer to come and *)
(* the correction of the wall clock apart; an emergency during an outage,  *)
(* which resets the failure streak, leaves no session that escapes this.   *)
StopLatency ==
    session /\ pc # "end" /\ apiFailureStreak = 0 /\ keepRunning =>
        now - lastOn < Timeout + MaxSkew + Interval

(* Whatever the checker is doing when the signal comes, it has left its    *)
(* loop within one full backoff, or within a recovery that has just begun: *)
(* the join, the reinitialize, the pause, the question and the round that  *)
(* follow it.  surfcam.service:14 leaves 180 s for the whole shutdown; the *)
(* backoff alone may take them all, and so may the join.                   *)
ShutdownLatency ==
    ~keepRunning =>
        \/ now <= stoppedAt + BackoffCap
        \/ now <= stoppedAt + StopTime + ReinitTime + RecoveryPause + ApiDelay + Interval

(* main.cpp:179: an outage does not end a session the API last asked for,  *)
(* whatever the grace says: when a decision ends one, the API has just     *)
(* answered, or its last answer had already been false.                    *)
OutageKeepsSession ==
    [][pc = "ask" /\ pc' = "end" =>
         apiFailureStreak' = 0 \/ ~lastDefinitiveStreamOn]_vars

(* README.md:143: streaming is kept up for STREAM_TIMEOUT after the API    *)
(* last returned true.                                                     *)
GraceHonoured ==
    [][pc = "ask" /\ pc' = "end" => now' - lastOn >= Timeout]_vars
=============================================================================
