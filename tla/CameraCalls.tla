----------------------------- MODULE CameraCalls -----------------------------
(***************************************************************************)
(* What the callers of src/CameraManager.cpp may assume of its operations, *)
(* and StreamControl does assume: each of them takes effect at once.       *)
(* Video mode begins only while snapshots are not paused, and the camera   *)
(* is reinitialized, with either result, only out of video mode.           *)
(***************************************************************************)
VARIABLES videoMode, paused

Init == videoMode = FALSE /\ paused = FALSE

StartVideo ==
    /\ ~videoMode /\ ~paused
    /\ videoMode' = TRUE
    /\ UNCHANGED paused

StopVideo ==
    /\ videoMode
    /\ videoMode' = FALSE
    /\ UNCHANGED paused

Reinitialize ==
    /\ ~videoMode
    /\ paused' \in BOOLEAN
    /\ UNCHANGED videoMode

Next == StartVideo \/ StopVideo \/ Reinitialize

Spec == Init /\ [][Next]_<<videoMode, paused>>
=============================================================================
