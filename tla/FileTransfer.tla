----------------------------- MODULE FileTransfer -----------------------------
(***************************************************************************)
(* What the uploader may assume of ApiClient::uploadLocalFileWithPresign,  *)
(* without attempts, presigning or timeouts: the file may be stored any    *)
(* number of times while a call lasts, each time as it then is; true is    *)
(* returned only if the bucket holds a state of the file not older than    *)
(* the call, and false promises nothing.                                   *)
(***************************************************************************)
EXTENDS Naturals

VARIABLES
    written,    \* states the file has gone through
    stored,     \* the one the bucket holds, 0 for none
    since,      \* the one the file was in when the call began
    result      \* "calling", or what the last call returned

vars == <<written, stored, since, result>>

Init == written = 0 /\ stored = 0 /\ since = 0 /\ result = "false"

Write ==
    /\ written' = written + 1
    /\ UNCHANGED <<stored, since, result>>

Call ==
    /\ result # "calling"
    /\ result' = "calling"
    /\ since' = written
    /\ UNCHANGED <<written, stored>>

Store ==
    /\ result = "calling"
    /\ stored' \in since..written
    /\ result' \in {"calling", "true", "false"}
    /\ UNCHANGED <<written, since>>

Fail ==
    /\ result = "calling"
    /\ result' = "false"
    /\ UNCHANGED <<written, stored, since>>

Next == Write \/ Call \/ Store \/ Fail

Spec == Init /\ [][Next]_vars

(* After true, the bucket holds the file as it was at the call or later.   *)
SuccessIsStored == result = "true" => stored \in since..written
=============================================================================
