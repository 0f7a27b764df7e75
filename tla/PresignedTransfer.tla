--------------------------- MODULE PresignedTransfer ---------------------------
(***************************************************************************)
(* ApiClient::uploadLocalFileWithPresign: a file is sent to the bucket in  *)
(* up to four attempts, each of which asks the API for a URL and puts the  *)
(* file there.  Meanwhile hlssink may rewrite the file, append to it or    *)
(* delete it, and the network may lose a request or an answer.             *)
(*                                                                         *)
(* External: a PUT is stored before the client gives up waiting for its    *)
(* answer, or never, and only if as many bytes were sent as announced.     *)
(***************************************************************************)
EXTENDS Naturals

CONSTANTS
    MaxAttempts,        \* kPresignedTransferMaxAttempts (4)
    RequestTimeout,     \* REQUEST_TIMEOUT, of the presign and of the PUT (10 s)
    BackoffUnit,        \* the sleep before an attempt, times its number (250 ms)
    MaxLength,          \* bound: lengths of the file
    MaxWrites           \* bound: how often it is written

ASSUME AttemptsAssumption == MaxAttempts \in Nat \ {0}
ASSUME TimesAssumption == RequestTimeout \in Nat /\ BackoffUnit \in Nat
ASSUME FileAssumption == MaxLength \in Nat /\ MaxWrites \in Nat

VARIABLES
    pc,
    present,            \* the file exists
    written, length,    \* how often it was written, its length
    fsize,              \* its length when the call looked
    attempt,
    opened, sent,       \* what the PUT reads: a state of the file, its length
    stored,             \* the state of the file the bucket holds, 0 for none
    result,             \* "calling", or what the last call returned
    elapsed,            \* time the call has taken
    since               \* history: state of the file at the call

file == <<present, written, length>>
body == <<opened, sent>>
vars == <<pc, file, fsize, attempt, body, stored, result, elapsed, since>>

Init ==
    /\ pc = "idle"
    /\ present = FALSE /\ written = 0 /\ length = 0
    /\ fsize = 0 /\ attempt = 0
    /\ opened = 0 /\ sent = 0
    /\ stored = 0
    /\ result = "false"
    /\ elapsed = 0
    /\ since = 0

-----------------------------------------------------------------------------
(* hlssink writes, rewrites and deletes.                                   *)

WriteFile ==
    /\ written < MaxWrites
    /\ written' = written + 1
    /\ present' = TRUE
    /\ length' \in 0..MaxLength
    /\ UNCHANGED <<pc, fsize, attempt, body, stored, result, elapsed, since>>

DeleteFile ==
    /\ present
    /\ present' = FALSE
    /\ length' = 0
    /\ UNCHANGED <<pc, written, fsize, attempt, body, stored, result, elapsed, since>>

-----------------------------------------------------------------------------
Return(answer) ==
    /\ pc' = "idle"
    /\ result' = answer

Proceed(to) ==
    /\ pc' = to
    /\ UNCHANGED result

Call ==
    /\ pc = "idle"
    /\ pc' = "size"
    /\ result' = "calling"
    /\ since' = written
    /\ attempt' = 0 /\ elapsed' = 0
    /\ UNCHANGED <<file, fsize, body, stored>>

(* The size is taken once, and announced with every attempt.               *)
TakeSize ==
    /\ pc = "size"
    /\ fsize' = length
    /\ IF fsize' = 0 THEN Return("false") ELSE Proceed("presign")
    /\ UNCHANGED <<file, attempt, body, stored, elapsed, since>>

(* A transient failure is followed by the next attempt, if there is one.   *)
(* Variants: one attempt more; attempts are not counted; a call that has   *)
(* run out of attempts succeeds.                                           *)
MoreAttemptsInclusive == attempt < MaxAttempts
MoreAttempts == attempt + 1 < MaxAttempts

NextAttemptNot == attempt
NextAttempt == attempt + 1

OutOfAttemptsTrue == "true"
OutOfAttempts == "false"

Retry ==
    IF MoreAttempts
    THEN Proceed("sleep") /\ attempt' = NextAttempt
    ELSE Return(OutOfAttempts) /\ UNCHANGED attempt

(* Variant: it doubles with every attempt.                                 *)
PauseDoubling == BackoffUnit * 2 ^ attempt
Pause == BackoffUnit * attempt

Sleep ==
    /\ pc = "sleep"
    /\ elapsed' = elapsed + Pause
    /\ Proceed("presign")
    /\ UNCHANGED <<file, fsize, attempt, body, stored, since>>

(* A request lasts no longer than its timeout.                             *)
RequestTakes ==
    \E time \in 0..RequestTimeout : elapsed' = elapsed + time

(* A URL is obtained; or not: a timeout, a broken connection, HTTP 429,    *)
(* 502, 503 and 504 are transient, anything else, an unusable answer       *)
(* included, is not.                                                       *)
Presign ==
    /\ pc = "presign"
    /\ RequestTakes
    /\ \/ Proceed("open") /\ UNCHANGED attempt
       \/ Retry
       \/ Return("false") /\ UNCHANGED attempt
    /\ UNCHANGED <<file, fsize, body, stored, since>>

(* Opened anew for every attempt.                                          *)
OpenFile ==
    /\ pc = "open"
    /\ IF present THEN Proceed("put") ELSE Return("false")
    /\ opened' = written /\ sent' = length
    /\ UNCHANGED <<file, fsize, attempt, stored, elapsed, since>>

(* The PUT is stored and answered; or stored, its answer lost or not       *)
(* understood; or not stored.                                              *)
Put ==
    /\ pc = "put"
    /\ RequestTakes
    /\ \/ /\ sent >= fsize
          /\ stored' = opened
          /\ \/ Return("true") /\ UNCHANGED attempt
             \/ Retry
             \/ Return("false") /\ UNCHANGED attempt
       \/ /\ UNCHANGED stored
          /\ Retry \/ (Return("false") /\ UNCHANGED attempt)
    /\ UNCHANGED <<file, fsize, body, since>>

Transfer == TakeSize \/ Presign \/ OpenFile \/ Put \/ Sleep

Next == WriteFile \/ DeleteFile \/ Call \/ Transfer

Spec == Init /\ [][Next]_vars

(* A call that has begun goes on: every request has a timeout.             *)
FairSpec == Spec /\ WF_vars(Transfer)

-----------------------------------------------------------------------------
(* Properties.                                                             *)

TypeOK ==
    /\ pc \in {"idle", "size", "presign", "open", "put", "sleep"}
    /\ present \in BOOLEAN
    /\ written \in 0..MaxWrites
    /\ length \in 0..MaxLength /\ fsize \in 0..MaxLength /\ sent \in 0..MaxLength
    /\ attempt \in 0..(MaxAttempts - 1)
    /\ opened \in 0..written /\ stored \in 0..written
    /\ since \in 0..written
    /\ result \in {"calling", "true", "false"}
    /\ elapsed \in Nat

(* What the attempts and the sleeps before them can take together: 81.5 s  *)
(* with the values of the code, which the drain and the end of the process *)
(* have to wait for (surfcam.service:13).                                  *)
SleepsBefore(n) == BackoffUnit * ((n * (n + 1)) \div 2)

TransferTime ==
    elapsed <= 2 * RequestTimeout * MaxAttempts + SleepsBefore(MaxAttempts - 1)

(* A call returns, whatever the network does.                              *)
TransferReturns == pc # "idle" ~> pc = "idle"

-----------------------------------------------------------------------------
(* Refinement.                                                             *)

Promise == INSTANCE FileTransfer

(* A call that returns true has stored the file as it was at the call or   *)
(* as it became during it; repeated attempts store nothing older.          *)
ImplementsTransfer == Promise!Spec
=============================================================================
