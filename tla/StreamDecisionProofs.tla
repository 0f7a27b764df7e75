------------------------- MODULE StreamDecisionProofs -------------------------
(***************************************************************************)
(* Proofs about StreamDecision for every value of its times and bounds.    *)
(***************************************************************************)
EXTENDS StreamDecision, TLAPS

USE TimesAssumption, WorkerAssumption, BackoffAssumption, BoundAssumption

(* The backoff is a time and never exceeds its limit.                      *)
LEMMA BackoffBounded ==
    ASSUME apiFailureStreak \in Nat
    PROVE  /\ Backoff \in 0..BackoffCap
           /\ apiFailureStreak = 0 => Backoff = 0
<1>1. CASE apiFailureStreak > StreakFree
  <2> DEFINE excess == apiFailureStreak - StreakFree
  <2>1. excess \in Nat
    BY <1>1
  <2>2. excess * BackoffStep \in Nat
    BY <2>1
  <2>3. Backoff = Capped(excess * BackoffStep)
    BY <1>1 DEF Backoff
  <2> HIDE DEF excess
  <2>4. Capped(excess * BackoffStep) \in 0..BackoffCap
    BY <2>2 DEF Capped
  <2>. QED
    BY <1>1, <2>3, <2>4
<1>2. CASE ~(apiFailureStreak > StreakFree)
  BY <1>2 DEF Backoff
<1>. QED
  BY <1>1, <1>2

(* The wall clock, ahead by at most m, against true time.                  *)
LEMMA AheadByAtMost == \A t, s, m \in Int : s <= m => (t + s) - m <= t
OBVIOUS

LEMMA NotBehind == \A t, s \in Int : 0 <= s => t <= t + s
OBVIOUS

LEMMA WallIsNat == \A t \in Nat, s \in Int : 0 <= s => t + s \in Nat
OBVIOUS

LEMMA AgeZero == \A t \in Int, a, b \in Nat : 0 < a => t - t < a + b
OBVIOUS

LEMMA TrueAge ==
    \A t, s, m, wall, seen, limit \in Int :
        0 <= s /\ (t + s) - wall < limit /\ wall - m <= seen => t - seen < limit + m
OBVIOUS

LEMMA OneRoundLater ==
    \A t, seen, limit, more \in Int : t - seen < limit => (t + more) - seen < limit + more
OBVIOUS

(* A join takes a time, none without a session.                            *)
LEMMA StopTimeIsNat == StopTime \in Nat
<1>1. PollTime * (1 + DrainPolls) \in Nat
  OBVIOUS
<1>. QED
  BY <1>1 DEF StopTime

LEMMA StopTimeIsFixed == StopTime' = StopTime
BY DEF StopTime

(* At the moment of the question, and of the signal, every bound holds.    *)
LEMMA AtTheQuestion ==
    \A t, join \in Nat :
        /\ t <= t + join
        /\ t <= t + join + Interval + BackoffCap
        /\ t <= t + Interval + BackoffCap + StopTime + ReinitTime + RecoveryPause
BY StopTimeIsNat

LEMMA AtTheSignal ==
    \A t, join \in Nat :
        /\ t <= t + join
        /\ t <= t + StopTime + ReinitTime
        /\ t <= t + StopTime + ReinitTime + RecoveryPause
        /\ t <= t + StopTime + ReinitTime + RecoveryPause + ApiDelay
        /\ t <= t + BackoffCap
BY StopTimeIsNat

(* What the join of this round has taken at most: nothing, as long as      *)
(* there is a session to join.                                             *)
Joined(alive) == IF alive THEN 0 ELSE StopTime

LEMMA JoinedIs ==
    /\ session => Joined(session) = 0
    /\ ~session => Joined(session) = StopTime
    /\ session' => Joined(session') = 0
    /\ ~session' => Joined(session') = StopTime
BY DEF Joined

LEMMA JoinedIsNat ==
    /\ Joined(session) \in Nat /\ Joined(session) <= StopTime
    /\ Joined(session') \in Nat /\ Joined(session') <= StopTime
BY StopTimeIsNat DEF Joined

LEMMA StopTakes ==
    ASSUME NEW most \in Nat, now \in Nat, StopSession(0..most)
    PROVE  /\ now' \in Nat /\ now <= now' /\ ~session'
           /\ now' + Joined(session) <= now + StopTime + most
<1>1. PICK wait \in JoinTimes, rest \in 0..most : now' = now + wait + rest
  BY DEF StopSession
<1>2. /\ wait \in Nat /\ rest \in Nat /\ rest <= most
      /\ wait + Joined(session) <= StopTime
  BY <1>1, StopTimeIsNat DEF JoinTimes, Joined
<1>. QED
  BY <1>1, <1>2, StopTimeIsNat, JoinedIsNat DEF StopSession

LEMMA StopAloneTakes ==
    ASSUME now \in Nat, StopSession({0})
    PROVE  /\ now' \in Nat /\ now <= now' /\ ~session'
           /\ now' + Joined(session) <= now + StopTime
<1>1. PICK wait \in JoinTimes : now' = now + wait
  BY StopTimeIsNat DEF StopSession, JoinTimes
<1>2. wait \in Nat /\ wait + Joined(session) <= StopTime
  BY <1>1, StopTimeIsNat DEF JoinTimes, Joined
<1>. QED
  BY <1>1, <1>2, StopTimeIsNat, JoinedIsNat DEF StopSession

(* Types are kept by every step: the numbers, then the rest.               *)
LEMMA NumbersStep == NumbersOK /\ [Next]_vars => NumbersOK'
<1> SUFFICES ASSUME NumbersOK, [Next]_vars PROVE NumbersOK'
  OBVIOUS
<1>1. CASE Reap \/ ObeyAlarm \/ Recover \/ End
  <2>1. now' \in Nat /\ now <= now'
    <3>1. StopSession({0}) => now' \in Nat /\ now <= now'
      BY StopAloneTakes DEF NumbersOK
    <3>2. StopSession(0..ReinitTime) => now' \in Nat /\ now <= now'
      BY StopTakes DEF NumbersOK
    <3>. QED
      BY <1>1, <3>1, <3>2 DEF Reap, ObeyAlarm, Recover, End, NumbersOK
  <2>2. apiFailureStreak' \in Nat
    BY <1>1 DEF Reap, ObeyAlarm, Recover, End, NumbersOK
  <2>3. UNCHANGED <<skew, intent, past, stop>>
    BY <1>1 DEF Reap, ObeyAlarm, Recover, End
  <2>. QED
    BY <2>1, <2>2, <2>3 DEF NumbersOK, intent, past, stop
<1>2. CASE AskApi
  <2>0. /\ skew \in Int /\ MaxSkew \in Int /\ 0 <= skew /\ skew <= MaxSkew
        /\ now \in Nat /\ now' \in Int /\ now' \in Nat /\ now' >= now
        /\ apiFailureStreak \in Nat
        /\ stoppedAt' \in Nat /\ stoppedAt' <= now'
    BY <1>2 DEF AskApi, NumbersOK, stop
  <2>1. now' \in Nat /\ now' >= now /\ asked' = now' /\ skew' = skew
    BY <1>2, <2>0 DEF AskApi
  <2>2. CASE Threw
    BY <2>0, <2>1, <2>2 DEF Threw, NumbersOK, intent
  <2>4. CASE Dropped
    BY <2>0, <2>1, <2>4 DEF Dropped, NumbersOK, intent
  <2>3. ASSUME NEW reply \in {"on", "off", "none"}, Answered(reply)
        PROVE  NumbersOK'
    <3>1. apiFailureStreak' \in Nat
      BY <2>0, <2>3 DEF Answered
    <3>2. CASE reply = "on"
      <4>1. lastOn' = now' /\ lastStreamRequestTime' = now' + skew
        BY <2>3, <3>2 DEF Answered, RequestTime
      <4>2. (now' + skew) - MaxSkew <= now'
        BY <2>0, AheadByAtMost, Zenon
      <4>3. now' + skew \in Nat
        BY <2>0, WallIsNat, Zenon
      <4>4. /\ lastOn' \in Nat /\ lastOn' <= now'
            /\ lastStreamRequestTime' \in Nat /\ lastStreamRequestTime' - MaxSkew <= now'
        <5>1. now' <= now'
          BY <2>0
        <5>. QED
          BY <2>1, <4>1, <4>2, <4>3, <5>1, Zenon
      <4>5. asked' \in Nat /\ asked' <= now' /\ skew' \in 0..MaxSkew
        BY <2>0, <2>1
      <4>. QED
        BY <2>0, <3>1, <4>4, <4>5, Zenon DEF NumbersOK
    <3>3. CASE reply # "on"
      <4>1. lastOn' = lastOn /\ lastStreamRequestTime' = lastStreamRequestTime
        BY <2>3, <3>3 DEF Answered
      <4>. QED
        BY <2>0, <2>1, <3>1, <4>1 DEF NumbersOK
    <3>. QED
      BY <3>2, <3>3
  <2>. QED
    BY <1>2, <2>2, <2>3, <2>4 DEF AskApi
<1>3. CASE Sleep \/ SleepMore \/ Pause
  <2>1. now' \in Nat /\ now' >= now
    BY <1>3, BackoffBounded DEF Sleep, SleepMore, Pause, NumbersOK
  <2>. QED
    BY <1>3, <2>1 DEF Sleep, SleepMore, Pause, NumbersOK, intent, past, stop
<1>4. CASE AdjustClock
  BY <1>4 DEF AdjustClock, NumbersOK, intent, past, stop
<1>5. CASE Signal
  BY <1>5 DEF Signal, NumbersOK, clock, intent, past
<1>6. CASE \/ BeginIteration \/ LeaveLoop \/ LookForRecovery \/ Start \/ ChooseBackoff
           \/ Finished \/ UNCHANGED vars
  BY <1>6 DEF BeginIteration, LeaveLoop, LookForRecovery, Start, ChooseBackoff, Finished,
              NumbersOK, vars, clock, worker, intent, past, stop
<1>. QED
  BY <1>1, <1>2, <1>3, <1>4, <1>5, <1>6 DEF Next

LEMMA TypeStep == TypeOK /\ [Next]_vars => TypeOK'
<1> SUFFICES ASSUME TypeOK, [Next]_vars
             PROVE  /\ pc' \in Labels
                    /\ keepRunning' \in BOOLEAN
                    /\ session' \in BOOLEAN /\ mayNeedRecovery' \in BOOLEAN
                    /\ lastDefinitiveStreamOn' \in BOOLEAN
  BY NumbersStep DEF TypeOK
<1> USE DEF TypeOK
<1>1. pc' \in Labels
  BY DEF Next, Labels, Signal, BeginIteration, LeaveLoop, Reap, ObeyAlarm, LookForRecovery,
         Recover, Pause, AskApi, Answered, Threw, Dropped, Start, End, Sleep, ChooseBackoff,
         SleepMore, AdjustClock, Finished, vars
<1>2. keepRunning' \in BOOLEAN
  BY Zenon DEF Next, Signal, BeginIteration, LeaveLoop, Reap, ObeyAlarm, LookForRecovery,
               Recover, Pause, AskApi, Start, End, Sleep, ChooseBackoff, SleepMore,
               AdjustClock, Finished, vars, stop
<1>3. CASE Reap \/ ObeyAlarm \/ LookForRecovery \/ Recover \/ Start \/ End
  BY <1>1, <1>2, <1>3, Zenon
  DEF Reap, ObeyAlarm, LookForRecovery, Recover, Start, End, StopSession, worker, intent
<1>4. CASE AskApi
  BY <1>1, <1>2, <1>4, Zenon
  DEF AskApi, Threw, Dropped, Answered, DefinitiveAfter, worker, intent
<1>5. CASE Signal \/ BeginIteration \/ LeaveLoop \/ Pause \/ Sleep \/ ChooseBackoff
           \/ SleepMore \/ AdjustClock \/ Finished \/ UNCHANGED vars
  BY <1>1, <1>2, <1>5, Zenon
  DEF Signal, BeginIteration, LeaveLoop, Pause, Sleep, ChooseBackoff, SleepMore, AdjustClock,
      Finished, vars, worker, intent
<1>. QED
  BY <1>3, <1>4, <1>5 DEF Next

(* Every variable has its type.                                            *)
THEOREM TypeCorrect == Spec => []TypeOK
<1>1. Init => TypeOK
  <2>1. Init => NumbersOK
    BY DEF Init, NumbersOK
  <2>. QED
    BY <2>1, Zenon DEF Init, TypeOK, Labels
<1>. QED
  BY <1>1, TypeStep, PTL DEF Spec

-----------------------------------------------------------------------------
(* What is known at each point of the loop of the time since the last      *)
(* question, and, for a session the API answers about, since the last yes. *)
(* lastStreamRequestTime is what the wall clock showed at that yes.        *)
Top == {"top", "reap", "alarm", "look", "recover", "done"}

SilenceAt ==
    /\ pc \in {"start", "end"} => now = asked
    /\ pc = "sleep" => now <= asked + Joined(session)
    /\ pc \in {"backoff", "extra"} => now <= asked + Joined(session) + Interval
    /\ pc \in Top => now <= asked + Joined(session) + Interval + BackoffCap
    /\ pc = "pause" => now <= asked + StopTime + Interval + BackoffCap + ReinitTime
    /\ AskedInTime

WallClockOfLastOn ==
    lastStreamRequestTime # 0 =>
        /\ lastOn <= lastStreamRequestTime
        /\ lastStreamRequestTime - MaxSkew <= lastOn

LatencyAt ==
    /\ session \/ pc = "start"
    /\ pc # "end" /\ apiFailureStreak = 0 /\ keepRunning
    =>  /\ pc # "pause"
        /\ pc \in {"start", "sleep"} => now - lastOn < Timeout + MaxSkew
        /\ pc \notin {"start", "sleep"} => now - lastOn < Timeout + MaxSkew + Interval

TimeInv == NumbersOK /\ SilenceAt /\ WallClockOfLastOn /\ LatencyAt

(* What a join adds to the time, it takes from the joins still possible.   *)
LEMMA StepOfTop ==
    ASSUME NumbersOK, session \in BOOLEAN, Reap \/ ObeyAlarm \/ End
    PROVE  /\ now' \in Nat /\ now <= now'
           /\ now' + Joined(session) <= now + Joined(session')
           /\ now' <= now + StopTime
           /\ session' => session /\ UNCHANGED <<now, apiFailureStreak>>
<1>1. now \in Nat
  BY DEF NumbersOK
<1>2. CASE StopSession({0})
  <2>1. /\ now' \in Nat /\ now <= now' /\ ~session'
        /\ now' + Joined(session) <= now + StopTime
    BY <1>1, <1>2, StopAloneTakes
  <2>. QED
    BY <1>1, <2>1, StopTimeIsNat, JoinedIs, JoinedIsNat
<1>3. CASE session' = FALSE /\ UNCHANGED now
  <2>1. ~session' /\ now' = now
    BY <1>3
  <2>. QED
    BY <1>1, <2>1, StopTimeIsNat, JoinedIs
<1>4. CASE UNCHANGED <<now, session, apiFailureStreak>>
  BY <1>1, <1>4, StopTimeIsNat, JoinedIs
<1>. QED
  BY <1>2, <1>3, <1>4 DEF Reap, ObeyAlarm, End

LEMMA AskedInTimeNext ==
    ASSUME asked' = asked,
           now' <= asked + Interval + BackoffCap + StopTime + ReinitTime + RecoveryPause
    PROVE  AskedInTime'
BY StopTimeIsFixed, Zenon DEF AskedInTime

LEMMA TimeInvStep == TypeOK /\ TimeInv /\ [Next]_vars => TimeInv'
<1> SUFFICES ASSUME TypeOK, TimeInv, [Next]_vars
             PROVE  SilenceAt' /\ WallClockOfLastOn' /\ LatencyAt'
  BY NumbersStep, Zenon DEF TimeInv
<1>t. NumbersOK /\ session \in BOOLEAN
  BY DEF TypeOK
<1>i. SilenceAt /\ WallClockOfLastOn /\ LatencyAt
  BY DEF TimeInv
<1>s. StopTime \in Nat
  BY StopTimeIsNat
<1>1. CASE Reap \/ ObeyAlarm \/ End
  <2>1. /\ \/ pc \in {"reap", "alarm"} /\ pc' \in {"alarm", "look"}
           \/ pc = "end" /\ pc' = "sleep" /\ (session' => ~keepRunning)
        /\ UNCHANGED <<asked, lastOn, lastStreamRequestTime, keepRunning>>
    BY <1>1 DEF Reap, ObeyAlarm, End, StopSession, intent, past, stop
  <2>2. /\ now' \in Nat /\ now <= now'
        /\ now' + Joined(session) <= now + Joined(session')
        /\ now' <= now + StopTime
        /\ session' => session /\ UNCHANGED <<now, apiFailureStreak>>
    BY <1>t, <1>1, StepOfTop
  <2>3. ASSUME pc = "end" PROVE SilenceAt'
    <3>1. now <= asked
      BY <1>i, <1>t, <2>3 DEF SilenceAt, NumbersOK
    <3>2. now' <= asked + Joined(session')
      BY <1>t, <1>s, <2>1, <2>2, <3>1, JoinedIsNat DEF NumbersOK
    <3>3. now' <= asked + Interval + BackoffCap + StopTime + ReinitTime + RecoveryPause
      BY <1>t, <1>s, <2>1, <2>2, <3>2, JoinedIsNat DEF NumbersOK
    <3>4. AskedInTime'
      BY <2>1, <3>3, AskedInTimeNext, Zenon
    <3>5. pc' = "sleep" /\ asked' = asked
      BY <2>1, <2>3
    <3>. QED
      BY <3>2, <3>4, <3>5 DEF SilenceAt, Top, Joined
  <2>4. ASSUME pc \in {"reap", "alarm"} PROVE SilenceAt'
    <3>1. now <= asked + Joined(session) + Interval + BackoffCap
      BY <1>i, <2>4 DEF SilenceAt, Top
    <3>2. now' <= asked + Joined(session') + Interval + BackoffCap
      BY <1>t, <1>s, <2>1, <2>2, <3>1, JoinedIsNat DEF NumbersOK
    <3>3. now' <= asked + Interval + BackoffCap + StopTime + ReinitTime + RecoveryPause
      BY <1>t, <1>s, <2>1, <2>2, <3>2, JoinedIsNat DEF NumbersOK
    <3>4. AskedInTime'
      BY <2>1, <3>3, AskedInTimeNext, Zenon
    <3>5. pc' \in {"alarm", "look"} /\ asked' = asked
      BY <2>1, <2>4
    <3>. QED
      BY <3>2, <3>4, <3>5 DEF SilenceAt, Top, Joined
  <2>5. SilenceAt'
    BY <2>1, <2>3, <2>4
  <2>6. WallClockOfLastOn'
    BY <1>i, <2>1 DEF WallClockOfLastOn
  <2>7. LatencyAt'
    BY <1>i, <1>t, <2>1, <2>2 DEF NumbersOK, LatencyAt
  <2>. QED
    BY <2>5, <2>6, <2>7
<1>2. CASE BeginIteration \/ LookForRecovery
  <2>0. /\ \/ pc = "top" /\ pc' = "reap"
           \/ pc = "look" /\ pc' \in {"recover", "ask"}
        /\ UNCHANGED <<now, asked, lastOn, lastStreamRequestTime, session, apiFailureStreak,
                       keepRunning>>
    BY <1>2 DEF BeginIteration, LookForRecovery, clock, worker, intent, past, stop
  <2>. QED
    BY <1>i, <1>t, <1>s, <2>0, JoinedIsNat
    DEF NumbersOK, SilenceAt, AskedInTime, Top, WallClockOfLastOn, LatencyAt
<1>3. CASE Recover
  <2>0. /\ pc = "recover" /\ pc' \in {"ask", "pause"}
        /\ UNCHANGED <<asked, lastOn, lastStreamRequestTime>>
    BY <1>3 DEF Recover, intent, past
  <2>1. /\ now' \in Nat /\ ~session'
        /\ now' + Joined(session) <= now + StopTime + ReinitTime
    BY <1>t, <1>3, StopTakes DEF Recover, NumbersOK
  <2>2. now <= asked + Joined(session) + Interval + BackoffCap
    BY <1>i, <2>0 DEF SilenceAt, Top
  <2>3. now' <= asked + StopTime + Interval + BackoffCap + ReinitTime
    BY <1>t, <1>s, <2>0, <2>1, <2>2, JoinedIsNat DEF NumbersOK
  <2>4. now' <= asked + Interval + BackoffCap + StopTime + ReinitTime + RecoveryPause
    BY <1>t, <1>s, <2>0, <2>1, <2>3, JoinedIsNat DEF NumbersOK
  <2>5. SilenceAt'
    BY <1>i, <2>0, <2>3, <2>4, <1>s DEF SilenceAt, AskedInTime, Top
  <2>. QED
    BY <1>i, <2>0, <2>1, <2>5 DEF WallClockOfLastOn, LatencyAt
<1>4. CASE AskApi
  <2>1. /\ now' \in Int /\ now' >= now /\ asked' = now' /\ skew' = skew
        /\ keepRunning' = keepRunning
        /\ skew \in Int /\ MaxSkew \in Int /\ Timeout \in Int
        /\ 0 <= skew /\ skew <= MaxSkew
        /\ lastOn \in Int /\ lastStreamRequestTime \in Int
    <3>1. now' \in Int /\ now' >= now
      BY <1>t, <1>4 DEF AskApi, NumbersOK
    <3>2. asked' = now' /\ skew' = skew /\ keepRunning' = keepRunning
      BY <1>4 DEF AskApi, stop
    <3>. QED
      BY <1>t, <3>1, <3>2 DEF NumbersOK
  <2>2. pc' \in {"sleep", "start", "end", "top"}
    BY <1>4 DEF AskApi, Answered, Threw, Dropped
  <2>3. SilenceAt'
    <3>3. /\ now' <= asked' + Joined(session')
          /\ now' <= asked' + Joined(session') + Interval + BackoffCap
          /\ now' <= asked' + Interval + BackoffCap + StopTime + ReinitTime + RecoveryPause
      <4>1. now' \in Nat /\ asked' = now'
        BY <1>t, <2>1 DEF NumbersOK
      <4>2. Joined(session') \in Nat
        BY JoinedIsNat
      <4>. QED
        BY <4>1, <4>2, AtTheQuestion, Zenon
    <3>. QED
      BY <1>i, <2>1, <2>2, <3>3, <1>s DEF SilenceAt, AskedInTime, Top
  <2>4. CASE Dropped
    <3>1. WallClockOfLastOn'
      BY <1>i, <2>4 DEF Dropped, intent, WallClockOfLastOn
    <3>. QED
      BY <1>i, <2>1, <2>3, <2>4, <3>1 DEF Dropped, LatencyAt
  <2>5. CASE Threw
    <3>1. apiFailureStreak' # 0
      BY <1>t, <2>5 DEF Threw, NumbersOK
    <3>2. WallClockOfLastOn'
      BY <1>i, <2>5 DEF Threw, intent, WallClockOfLastOn
    <3>. QED
      BY <1>i, <2>3, <3>1, <3>2 DEF LatencyAt
  <2>6. ASSUME NEW reply \in {"on", "off", "none"}, Answered(reply)
        PROVE  WallClockOfLastOn' /\ LatencyAt'
    <3>0. pc' \in {"sleep", "start", "end"}
      BY <2>6 DEF Answered
    <3>1. CASE reply = "on"
      <4>1. lastOn' = now' /\ lastStreamRequestTime' = now' + skew
        BY <2>6, <3>1 DEF Answered, RequestTime
      <4>2. (now' + skew) - MaxSkew <= now' /\ now' <= now' + skew
        BY <2>1, AheadByAtMost, NotBehind, Zenon
      <4>3. WallClockOfLastOn'
        BY <1>i, <4>1, <4>2, Zenon DEF WallClockOfLastOn
      <4>4. now' - lastOn' < Timeout + MaxSkew
        <5>1. Timeout \in Nat /\ MaxSkew \in Nat /\ 0 < Timeout
          OBVIOUS
        <5>. QED
          BY <2>1, <4>1, <5>1, AgeZero, Zenon
      <4>5. LatencyAt'
        BY <1>i, <3>0, <4>4 DEF LatencyAt
      <4>. QED
        BY <4>3, <4>5, Zenon
    <3>2. CASE reply = "off"
      <4>1. (session' \/ pc' = "start") /\ pc' # "end" =>
                WithinGrace(now' + skew, lastStreamRequestTime')
        <5>1. (session' \/ pc' = "start") /\ pc' # "end" => ShouldStream(reply)
          BY <1>t, <2>6 DEF Answered, worker
        <5>. QED
          BY <3>2, <5>1 DEF ShouldStream
      <4>2. lastOn' = lastOn /\ lastStreamRequestTime' = lastStreamRequestTime
        BY <2>6, <3>2 DEF Answered
      <4>3. ASSUME session' \/ pc' = "start", pc' # "end"
              PROVE  now' - lastOn' < Timeout + MaxSkew
        <5>1. lastStreamRequestTime # 0 /\ (now' + skew) - lastStreamRequestTime < Timeout
          BY <4>1, <4>2, <4>3, Zenon DEF WithinGrace
        <5>2. lastStreamRequestTime - MaxSkew <= lastOn
          BY <1>i, <5>1 DEF WallClockOfLastOn
        <5>. QED
          BY <2>1, <4>2, <5>1, <5>2, TrueAge, Zenon
      <4>4. WallClockOfLastOn'
        BY <1>i, <4>2 DEF WallClockOfLastOn
      <4>5. LatencyAt'
        BY <1>i, <3>0, <4>3 DEF LatencyAt
      <4>. QED
        BY <4>4, <4>5, Zenon
    <3>3. CASE reply = "none"
      <4>1. apiFailureStreak' # 0
        BY <1>t, <2>6, <3>3 DEF Answered, NumbersOK
      <4>2. WallClockOfLastOn'
        BY <1>i, <2>6, <3>3 DEF Answered, WallClockOfLastOn
      <4>. QED
        BY <1>i, <4>1, <4>2 DEF LatencyAt
    <3>. QED
      BY <3>1, <3>2, <3>3
  <2>. QED
    BY <1>4, <2>3, <2>4, <2>5, <2>6 DEF AskApi
<1>5. CASE Sleep
  <2>1. /\ pc = "sleep" /\ pc' = "backoff" /\ now' = now + Interval
        /\ UNCHANGED <<asked, lastOn, lastStreamRequestTime, session, apiFailureStreak,
                       keepRunning>>
    BY <1>5 DEF Sleep, worker, intent, past, stop
  <2>2. SilenceAt'
    BY <1>i, <1>t, <1>s, <2>1, JoinedIsNat DEF NumbersOK, SilenceAt, AskedInTime
  <2>3. WallClockOfLastOn'
    BY <1>i, <2>1 DEF WallClockOfLastOn
  <2>4. ASSUME session, apiFailureStreak = 0, keepRunning
        PROVE  now' - lastOn < Timeout + MaxSkew + Interval
    <3>1. /\ now \in Int /\ lastOn \in Int /\ Timeout + MaxSkew \in Int /\ Interval \in Int
          /\ now - lastOn < Timeout + MaxSkew /\ now' = now + Interval
      BY <1>i, <1>t, <2>1, <2>4 DEF LatencyAt, NumbersOK
    <3>. QED
      BY <3>1, OneRoundLater, Zenon
  <2>5. LatencyAt'
    BY <1>i, <2>1, <2>4 DEF LatencyAt
  <2>. QED
    BY <2>2, <2>3, <2>5
<1>6. CASE ChooseBackoff \/ LeaveLoop
  <2>1. /\ \/ pc = "backoff" /\ pc' \in {"extra", "top"}
           \/ pc = "top" /\ pc' = "done"
        /\ UNCHANGED <<now, asked, lastOn, lastStreamRequestTime, session, apiFailureStreak,
                       keepRunning>>
    BY <1>6 DEF ChooseBackoff, LeaveLoop, clock, worker, intent, past, stop
  <2>. QED
    BY <1>i, <1>t, <1>s, <2>1, JoinedIsNat
    DEF NumbersOK, SilenceAt, AskedInTime, Top, WallClockOfLastOn, LatencyAt
<1>7. CASE SleepMore
  <2>1. /\ pc = "extra" /\ pc' = "top" /\ now' = now + Backoff
        /\ Backoff \in 0..BackoffCap /\ (apiFailureStreak = 0 => Backoff = 0)
        /\ UNCHANGED <<asked, lastOn, lastStreamRequestTime, session, apiFailureStreak,
                       keepRunning>>
    BY <1>t, <1>7, BackoffBounded DEF SleepMore, NumbersOK, worker, intent, past, stop
  <2>. QED
    BY <1>i, <1>t, <1>s, <2>1, JoinedIsNat
    DEF NumbersOK, SilenceAt, AskedInTime, Top, WallClockOfLastOn, LatencyAt
<1>8. CASE Pause
  <2>1. /\ pc = "pause" /\ pc' = "ask" /\ now' = now + RecoveryPause
        /\ UNCHANGED <<asked, lastOn, lastStreamRequestTime, session, apiFailureStreak,
                       keepRunning>>
    BY <1>8 DEF Pause, worker, intent, past, stop
  <2>. QED
    BY <1>i, <1>t, <1>s, <2>1, JoinedIsNat
    DEF NumbersOK, SilenceAt, AskedInTime, Top, WallClockOfLastOn, LatencyAt
<1>9. CASE Signal
  BY <1>i, <1>9 DEF Signal, clock, worker, intent, past, AskedInTime, Joined, SilenceAt,
              WallClockOfLastOn, LatencyAt
<1>10. CASE AdjustClock
  BY <1>i, <1>10 DEF AdjustClock, worker, intent, past, stop, AskedInTime, Joined,
              SilenceAt, WallClockOfLastOn, LatencyAt
<1>11. CASE Finished \/ UNCHANGED vars
  BY <1>i, <1>11 DEF Finished, vars, clock, worker, intent, past, stop, AskedInTime, Joined,
              SilenceAt, WallClockOfLastOn, LatencyAt
<1>12. CASE Start
  <2>1. /\ pc = "start" /\ pc' = "sleep"
        /\ UNCHANGED <<now, asked, lastOn, lastStreamRequestTime, keepRunning>>
        /\ keepRunning /\ apiFailureStreak' = 0 /\ apiFailureStreak \in Nat =>
               apiFailureStreak = 0
    BY <1>12 DEF Start, clock, worker, intent, past, stop
  <2>2. SilenceAt'
    <3>1. now <= asked /\ now \in Nat /\ asked \in Nat
      BY <1>i, <1>t, <2>1 DEF SilenceAt, NumbersOK
    <3>2. now <= asked + Joined(session')
      BY <3>1, JoinedIsNat
    <3>3. now' <= asked' + Joined(session') /\ pc' = "sleep"
      BY <2>1, <3>2, Zenon
    <3>4. AskedInTime'
      BY <1>i, <2>1, AskedInTimeNext, Zenon DEF SilenceAt, AskedInTime
    <3>. QED
      BY <3>3, <3>4 DEF SilenceAt, Top, Joined
  <2>3. WallClockOfLastOn'
    BY <1>i, <2>1 DEF WallClockOfLastOn
  <2>4. ASSUME apiFailureStreak' = 0, keepRunning' PROVE now' - lastOn' < Timeout + MaxSkew
    <3>1. apiFailureStreak = 0 /\ keepRunning
      BY <1>t, <2>1, <2>4 DEF NumbersOK
    <3>2. now - lastOn < Timeout + MaxSkew
      BY <1>i, <2>1, <3>1 DEF LatencyAt
    <3>. QED
      BY <2>1, <3>2, Zenon
  <2>5. LatencyAt'
    BY <2>1, <2>4 DEF LatencyAt
  <2>. QED
    BY <2>2, <2>3, <2>5
<1>. QED
  BY <1>1, <1>2, <1>3, <1>4, <1>5, <1>6, <1>7, <1>8, <1>9, <1>10, <1>11, <1>12 DEF Next

LEMMA TimeInvariant == Spec => []TimeInv
<1>1. Init => TimeInv
  <2>1. Init => NumbersOK
    BY DEF Init, NumbersOK
  <2>2. Init => SilenceAt
    BY JoinedIsNat, StopTimeIsNat, StopTimeIsFixed DEF Init, SilenceAt, AskedInTime, Top
  <2>. QED
    BY <2>1, <2>2 DEF Init, TimeInv, WallClockOfLastOn, LatencyAt
<1>. QED
  BY <1>1, TimeInvStep, TypeCorrect, PTL DEF Spec

(* The checker never stays silent longer than a round with a full backoff, *)
(* the join of one session and a failed recovery, whatever the API, the    *)
(* camera and the emergencies do (AskedInTime).                            *)
THEOREM SilenceIsBounded == Spec => []AskedInTime
<1>1. TimeInv => AskedInTime
  BY DEF TimeInv, SilenceAt
<1>. QED
  BY <1>1, TimeInvariant, PTL

(* With the API reachable, a session is told to end less than              *)
(* STREAM_TIMEOUT, a round and the error of the wall clock after its last  *)
(* yes, the answer to come apart (StopLatency).                            *)
THEOREM StopIsTimely == Spec => []StopLatency
<1>1. TimeInv => StopLatency
  BY DEF TimeInv, NumbersOK, LatencyAt, StopLatency
<1>. QED
  BY <1>1, TimeInvariant, PTL

(* How long ago the signal came at each point of the loop: a round, a      *)
(* recovery, a pause and a backoff only begin before it.                   *)
WaitAt ==
    ~keepRunning =>
        /\ pc \in {"reap", "alarm", "look"} => now <= stoppedAt + Joined(session)
        /\ pc \in {"recover", "start", "end", "extra"} => now = stoppedAt
        /\ pc = "pause" => now <= stoppedAt + StopTime + ReinitTime
        /\ pc = "ask" => now <= stoppedAt + StopTime + ReinitTime + RecoveryPause
        /\ pc = "sleep" => now <= stoppedAt + StopTime + ReinitTime + RecoveryPause + ApiDelay
        /\ ShutdownLatency

LEMMA WaitStep == TypeOK /\ WaitAt /\ [Next]_vars => WaitAt'
<1>0. SUFFICES ASSUME TypeOK, WaitAt, [Next]_vars PROVE WaitAt'
  OBVIOUS
<1>t. /\ now \in Nat /\ stoppedAt \in Nat /\ NumbersOK /\ session \in BOOLEAN
      /\ StopTime \in Nat
  BY <1>0, StopTimeIsNat DEF TypeOK, NumbersOK
<1>1. CASE Signal
  <2>1. now' = stoppedAt' /\ now' \in Nat
    BY <1>t, <1>1 DEF Signal, clock
  <2>2. /\ now' <= stoppedAt' + Joined(session')
        /\ now' <= stoppedAt' + StopTime + ReinitTime
        /\ now' <= stoppedAt' + StopTime + ReinitTime + RecoveryPause
        /\ now' <= stoppedAt' + StopTime + ReinitTime + RecoveryPause + ApiDelay
        /\ now' <= stoppedAt' + BackoffCap
    <3>1. Joined(session') \in Nat
      BY JoinedIsNat
    <3>. QED
      BY <2>1, <3>1, AtTheSignal, Zenon
  <2>. QED
    BY <2>1, <2>2, StopTimeIsFixed DEF WaitAt, ShutdownLatency, Joined
<1>2. CASE BeginIteration \/ LeaveLoop
  BY <1>0, <1>2 DEF BeginIteration, LeaveLoop, clock, stop, WaitAt, ShutdownLatency
<1>3. CASE Reap \/ ObeyAlarm \/ End
  <2>1. /\ \/ pc \in {"reap", "alarm"} /\ pc' \in {"alarm", "look"}
           \/ pc = "end" /\ pc' = "sleep"
        /\ UNCHANGED <<keepRunning, stoppedAt>>
    BY <1>3 DEF Reap, ObeyAlarm, End, stop
  <2>2. /\ now' \in Nat /\ now' + Joined(session) <= now + Joined(session')
        /\ now' <= now + StopTime
    BY <1>t, <1>3, StepOfTop
  <2>3. ASSUME ~keepRunning, pc = "end" PROVE WaitAt'
    <3>1. now <= stoppedAt /\ stoppedAt' = stoppedAt /\ pc' = "sleep"
      BY <1>0, <1>t, <2>1, <2>3 DEF WaitAt
    <3>2. /\ now' <= stoppedAt' + StopTime + ReinitTime + RecoveryPause + ApiDelay
          /\ now' <= stoppedAt' + StopTime + ReinitTime + RecoveryPause + ApiDelay
                        + Interval
      BY <1>t, <2>2, <3>1
    <3>. QED
      BY <3>1, <3>2, StopTimeIsFixed DEF WaitAt, ShutdownLatency
  <2>4. ASSUME ~keepRunning, pc \in {"reap", "alarm"} PROVE WaitAt'
    <3>1. /\ now <= stoppedAt + Joined(session) /\ stoppedAt' = stoppedAt
          /\ pc' \in {"alarm", "look"}
      BY <1>0, <2>1, <2>4 DEF WaitAt
    <3>2. /\ now' <= stoppedAt' + Joined(session')
          /\ now' <= stoppedAt' + StopTime + ReinitTime + RecoveryPause + ApiDelay
                        + Interval
      BY <1>t, <2>2, <3>1, JoinedIsNat
    <3>. QED
      BY <3>1, <3>2, StopTimeIsFixed DEF WaitAt, ShutdownLatency, Joined
  <2>5. keepRunning => WaitAt'
    BY <2>1 DEF WaitAt
  <2>. QED
    BY <2>1, <2>3, <2>4, <2>5
<1>4. CASE LookForRecovery
  <2>1. /\ pc = "look" /\ pc' \in {"recover", "ask"} /\ (~keepRunning => pc' = "ask")
        /\ UNCHANGED <<now, keepRunning, stoppedAt>>
    BY <1>4 DEF LookForRecovery, clock, stop
  <2>2. ~keepRunning => now <= stoppedAt + Joined(session)
    BY <1>0, <2>1 DEF WaitAt
  <2>3. ~keepRunning => /\ now' <= stoppedAt' + StopTime + ReinitTime + RecoveryPause
                        /\ now' <= stoppedAt' + StopTime + ReinitTime + RecoveryPause + ApiDelay
                                      + Interval
    BY <1>t, <2>1, <2>2, JoinedIsNat
  <2>. QED
    BY <2>1, <2>3, StopTimeIsFixed DEF WaitAt, ShutdownLatency
<1>5. CASE Recover
  <2>1. pc = "recover" /\ pc' \in {"ask", "pause"} /\ UNCHANGED <<keepRunning, stoppedAt>>
    BY <1>5 DEF Recover, stop
  <2>2. now' \in Nat /\ now' + Joined(session) <= now + StopTime + ReinitTime
    BY <1>t, <1>5, StopTakes DEF Recover
  <2>3. ~keepRunning => now <= stoppedAt
    BY <1>0, <1>t, <2>1 DEF WaitAt
  <2>4. ~keepRunning => /\ now' <= stoppedAt' + StopTime + ReinitTime
                        /\ now' <= stoppedAt' + StopTime + ReinitTime + RecoveryPause
                        /\ now' <= stoppedAt' + StopTime + ReinitTime + RecoveryPause + ApiDelay
                                      + Interval
    BY <1>t, <2>1, <2>2, <2>3, JoinedIsNat
  <2>. QED
    BY <2>1, <2>4, StopTimeIsFixed DEF WaitAt, ShutdownLatency
<1>6. CASE Pause
  <2>1. /\ pc = "pause" /\ pc' = "ask" /\ now' = now + RecoveryPause
        /\ UNCHANGED <<keepRunning, stoppedAt>>
    BY <1>6 DEF Pause, stop
  <2>2. ~keepRunning => now <= stoppedAt + StopTime + ReinitTime
    BY <1>0, <2>1 DEF WaitAt
  <2>3. ~keepRunning => /\ now' <= stoppedAt' + StopTime + ReinitTime + RecoveryPause
                        /\ now' <= stoppedAt' + StopTime + ReinitTime + RecoveryPause + ApiDelay
                                      + Interval
    BY <1>t, <2>1, <2>2
  <2>. QED
    BY <2>1, <2>3, StopTimeIsFixed DEF WaitAt, ShutdownLatency
<1>7. CASE AskApi
  <2>1. /\ pc = "ask" /\ UNCHANGED <<keepRunning, stoppedAt>>
        /\ now' \in Nat /\ now' <= now + ApiDelay
        /\ ~keepRunning => pc' \in {"sleep", "top"}
    BY <1>t, <1>7 DEF AskApi, Threw, Dropped, stop
  <2>2. ~keepRunning => now <= stoppedAt + StopTime + ReinitTime + RecoveryPause
    BY <1>0, <2>1 DEF WaitAt
  <2>3. ~keepRunning => /\ now' <= stoppedAt' + StopTime + ReinitTime + RecoveryPause + ApiDelay
                        /\ now' <= stoppedAt' + StopTime + ReinitTime + RecoveryPause + ApiDelay
                                      + Interval
    BY <1>t, <2>1, <2>2
  <2>. QED
    BY <2>1, <2>3, StopTimeIsFixed DEF WaitAt, ShutdownLatency
<1>8. CASE Sleep
  <2>1. /\ pc = "sleep" /\ pc' = "backoff" /\ now' = now + Interval
        /\ UNCHANGED <<keepRunning, stoppedAt>>
    BY <1>8 DEF Sleep, stop
  <2>2. ~keepRunning => now <= stoppedAt + StopTime + ReinitTime + RecoveryPause + ApiDelay
    BY <1>0, <2>1 DEF WaitAt
  <2>3. ~keepRunning => now' <= stoppedAt' + StopTime + ReinitTime + RecoveryPause + ApiDelay
                                              + Interval
    BY <1>t, <2>1, <2>2
  <2>. QED
    BY <2>1, <2>3, StopTimeIsFixed DEF WaitAt, ShutdownLatency
<1>9. CASE ChooseBackoff
  BY <1>0, <1>9 DEF ChooseBackoff, BacksOff, clock, stop, WaitAt, ShutdownLatency
<1>10. CASE SleepMore
  <2>1. /\ pc = "extra" /\ pc' = "top" /\ now' = now + Backoff
        /\ UNCHANGED <<keepRunning, stoppedAt>>
    BY <1>10 DEF SleepMore, stop
  <2>2. Backoff \in 0..BackoffCap
    BY <1>t, BackoffBounded DEF NumbersOK
  <2>3. ~keepRunning => now <= stoppedAt
    BY <1>0, <1>t, <2>1 DEF WaitAt
  <2>4. ~keepRunning => now' <= stoppedAt' + BackoffCap
    BY <1>t, <2>1, <2>2, <2>3
  <2>. QED
    BY <2>1, <2>4, StopTimeIsFixed DEF WaitAt, ShutdownLatency
<1>11. CASE AdjustClock \/ Finished \/ UNCHANGED vars
  BY <1>0, <1>11 DEF AdjustClock, Finished, vars, clock, worker, stop, Joined, WaitAt,
                     ShutdownLatency
<1>12. CASE Start
  <2>1. pc = "start" /\ pc' = "sleep" /\ UNCHANGED <<now, keepRunning, stoppedAt>>
    BY <1>12 DEF Start, clock, stop
  <2>2. ~keepRunning => now <= stoppedAt
    BY <1>0, <1>t, <2>1 DEF WaitAt
  <2>3. ~keepRunning => /\ now <= stoppedAt + StopTime + ReinitTime + RecoveryPause + ApiDelay
                        /\ now <= stoppedAt + StopTime + ReinitTime + RecoveryPause + ApiDelay
                                      + Interval
    BY <1>t, <2>2
  <2>. QED
    BY <2>1, <2>3, StopTimeIsFixed DEF WaitAt, ShutdownLatency
<1>. QED
  BY <1>0, <1>1, <1>2, <1>3, <1>4, <1>5, <1>6, <1>7, <1>8, <1>9, <1>10, <1>11, <1>12 DEF Next

(* The checker has left its loop within a full backoff of the signal, or   *)
(* the join of a session, a reinitialize, its pause, a question and a      *)
(* round (ShutdownLatency).                                                *)
THEOREM ShutdownIsTimely == Spec => []ShutdownLatency
<1>1. Init => WaitAt
  BY DEF Init, WaitAt
<1>2. WaitAt => ShutdownLatency
  BY DEF WaitAt, ShutdownLatency
<1>. QED
  BY <1>1, <1>2, WaitStep, TypeCorrect, PTL DEF Spec

(* An outage alone never makes a decision that ends a session              *)
(* (OutageKeepsSession).                                                   *)
THEOREM OutageIsSurvived == Spec => OutageKeepsSession
<1>1. [Next]_vars =>
        [pc = "ask" /\ pc' = "end" =>
            apiFailureStreak' = 0 \/ ~lastDefinitiveStreamOn]_vars
  <2> SUFFICES ASSUME Next, pc = "ask", pc' = "end",
                      apiFailureStreak' # 0, lastDefinitiveStreamOn
               PROVE  FALSE
    BY Zenon
  <2>1. AskApi
    BY DEF Next, Signal, BeginIteration, LeaveLoop, Reap, ObeyAlarm, LookForRecovery, Recover,
           Pause, Start, End, Sleep, ChooseBackoff, SleepMore, AdjustClock, Finished, vars
  <2>2. PICK reply \in {"on", "off", "none"} : Answered(reply)
    BY <2>1 DEF AskApi, Threw, Dropped
  <2>3. reply = "none"
    BY <2>2 DEF Answered
  <2>4. ShouldStream(reply)
    BY <2>2, <2>3 DEF Answered, DefinitiveAfter, ShouldStream
  <2>. QED
    BY <2>2, <2>4 DEF Answered
<1>. QED
  BY <1>1, PTL DEF Spec, OutageKeepsSession
===============================================================================
