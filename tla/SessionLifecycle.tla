-------------------------- MODULE SessionLifecycle --------------------------
(***************************************************************************)
(* What the stream checker and its HLS worker promise about sessions, with *)
(* no threads, flags or joins: sessions follow one another and never       *)
(* overlap, and a session that could not start its camera is followed by   *)
(* an attempt to recover the camera before the next session, unless the    *)
(* process has been told to stop.                                          *)
(***************************************************************************)
VARIABLES phase, running

Phases == {"idle", "starting", "live", "ending", "failed", "recovering"}

Init == phase = "idle" /\ running = TRUE

Move(from, to) ==
    /\ phase = from
    /\ phase' = to
    /\ UNCHANGED running

Begin   == Move("idle", "starting")
GoLive  == Move("starting", "live")
GiveUp  == Move("starting", "ending") \/ Move("live", "ending")
Fail    == Move("starting", "failed")
Reap    == Move("ending", "idle")
Recover == Move("failed", "recovering") \/ Move("recovering", "idle")

(* A failure nobody will deal with: the worker may still be winding down.  *)
Abandon ==
    /\ ~running
    /\ Move("failed", "ending") \/ Move("failed", "idle")

Halt ==
    /\ running
    /\ running' = FALSE
    /\ UNCHANGED phase

Next == \/ Begin \/ GoLive \/ GiveUp \/ Fail \/ Reap \/ Recover \/ Abandon \/ Halt

Spec == Init /\ [][Next]_<<phase, running>>
=============================================================================
