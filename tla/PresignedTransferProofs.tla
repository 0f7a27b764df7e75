----------------------- MODULE PresignedTransferProofs -----------------------
(***************************************************************************)
(* Proofs about PresignedTransfer, for any number of attempts, timeout,    *)
(* pause and file.                                                         *)
(***************************************************************************)
EXTENDS PresignedTransfer, TLAPS

USE AttemptsAssumption, TimesAssumption, FileAssumption

-----------------------------------------------------------------------------
(* Arithmetic.                                                             *)

LEMMA Distributes == \A x, y, z \in Nat : x * (y + z) = x * y + x * z
OBVIOUS

LEMMA ProductIsNat == \A x, y \in Nat : x * y \in Nat
OBVIOUS

LEMMA ProductGrows == \A x, y, z \in Nat : y <= z => x * y <= x * z
<1> SUFFICES ASSUME NEW x \in Nat, NEW y \in Nat, NEW z \in Nat, y <= z
             PROVE  x * y <= x * z
  OBVIOUS
<1> DEFINE d == z - y
<1>1. d \in Nat /\ z = y + d
  OBVIOUS
<1>2. x * z = x * y + x * d
  BY <1>1, Distributes
<1>. QED
  BY <1>1, <1>2, ProductIsNat

(* 1 + 2 + ... + n, with the value SleepsBefore gives it.                  *)
Sum(n) == (n * (n + 1)) \div 2

LEMMA SumIsNat == \A n \in Nat : Sum(n) \in Nat
<1> TAKE n \in Nat
<1>1. n * (n + 1) \in Nat
  BY ProductIsNat
<1>. QED
  BY <1>1 DEF Sum

LEMMA SumNext == \A n \in Nat : Sum(n + 1) = Sum(n) + (n + 1)
<1> TAKE n \in Nat
<1> DEFINE p == n * (n + 1)
<1>1. p \in Nat
  BY ProductIsNat
<1>2. (n + 1) * ((n + 1) + 1) = p + 2 * (n + 1)
  OBVIOUS
<1> HIDE DEF p
<1>3. (p + 2 * (n + 1)) \div 2 = p \div 2 + (n + 1)
  BY <1>1
<1>. QED
  BY <1>2, <1>3 DEF Sum, p

LEMMA SumGrows == \A m, n \in Nat : m <= n => Sum(m) <= Sum(n)
<1> SUFFICES ASSUME NEW m \in Nat, NEW n \in Nat, m <= n PROVE Sum(m) <= Sum(n)
  OBVIOUS
<1> DEFINE p == m * (m + 1)
           q == n * (n + 1)
<1>1. p \in Nat /\ q \in Nat
  BY ProductIsNat
<1>2. p <= q
  <2>1. m * (m + 1) <= m * (n + 1)
    BY ProductGrows
  <2>2. (n + 1) * m <= (n + 1) * n
    BY ProductGrows
  <2>. QED
    BY <2>1, <2>2
<1> HIDE DEF p, q
<1>3. p \div 2 <= q \div 2
  BY <1>1, <1>2
<1>. QED
  BY <1>3 DEF Sum, p, q

-----------------------------------------------------------------------------
(* The time spent before attempt n, and all of it.                         *)

Requests(n) == (2 * RequestTimeout) * n
Sleeps(n) == BackoffUnit * Sum(n)

LEMMA TimesAreNat == \A n \in Nat : Requests(n) \in Nat /\ Sleeps(n) \in Nat
BY ProductIsNat, SumIsNat DEF Requests, Sleeps

LEMMA RequestsNext == \A n \in Nat : Requests(n + 1) = Requests(n) + 2 * RequestTimeout
BY Distributes DEF Requests

LEMMA SleepsNext == \A n \in Nat : Sleeps(n + 1) = Sleeps(n) + BackoffUnit * (n + 1)
<1> TAKE n \in Nat
<1>1. Sum(n) \in Nat /\ n + 1 \in Nat /\ BackoffUnit \in Nat
  BY SumIsNat
<1>. QED
  BY <1>1, SumNext, Distributes DEF Sleeps

LEMMA TimesGrow ==
    \A m, n \in Nat : m <= n => Requests(m) <= Requests(n) /\ Sleeps(m) <= Sleeps(n)
<1> SUFFICES ASSUME NEW m \in Nat, NEW n \in Nat, m <= n
             PROVE  Requests(m) <= Requests(n) /\ Sleeps(m) <= Sleeps(n)
  OBVIOUS
<1>1. 2 * RequestTimeout \in Nat /\ Sum(m) \in Nat /\ Sum(n) \in Nat /\ Sum(m) <= Sum(n)
  BY SumIsNat, SumGrows
<1>. QED
  BY <1>1, ProductGrows DEF Requests, Sleeps

AllTime == Requests(MaxAttempts) + Sleeps(MaxAttempts - 1)

-----------------------------------------------------------------------------
(* The inductive invariant.                                                *)

Labels == {"idle", "size", "presign", "open", "put", "sleep"}

CallOK ==
    /\ pc \in Labels
    /\ result \in {"calling", "true", "false"}
    /\ pc # "idle" <=> result = "calling"

FileOK ==
    /\ present \in BOOLEAN
    /\ written \in 0..MaxWrites
    /\ length \in 0..MaxLength /\ fsize \in 0..MaxLength /\ sent \in 0..MaxLength
    /\ opened \in 0..written /\ stored \in 0..written
    /\ since \in 0..written
    /\ pc = "put" => since <= opened

(* How much time a call may have taken where it stands.                    *)
TimeOK ==
    /\ attempt \in 0..(MaxAttempts - 1)
    /\ elapsed \in Nat
    /\ pc = "idle" => elapsed <= AllTime
    /\ pc = "size" => elapsed = 0 /\ attempt = 0
    /\ pc = "sleep" => attempt > 0 /\ elapsed <= Requests(attempt) + Sleeps(attempt - 1)
    /\ pc = "presign" => elapsed <= Requests(attempt) + Sleeps(attempt)
    /\ pc \in {"open", "put"} =>
           elapsed <= Requests(attempt) + RequestTimeout + Sleeps(attempt)

TransferInv == CallOK /\ FileOK /\ TimeOK

LEMMA InvInit == Init => TransferInv
<1> SUFFICES ASSUME Init PROVE TransferInv
  OBVIOUS
<1>1. present \in BOOLEAN
  BY DEF Init
<1>2. CallOK /\ FileOK
  BY <1>1 DEF Init, CallOK, FileOK, Labels
<1>3. AllTime \in Nat
  BY TimesAreNat DEF AllTime
<1>4. TimeOK
  BY <1>3 DEF Init, TimeOK
<1>. QED
  BY <1>2, <1>4 DEF TransferInv

LEMMA CallStep == CallOK /\ [Next]_vars => CallOK'
<1> SUFFICES ASSUME CallOK, [Next]_vars PROVE CallOK'
  OBVIOUS
<1> USE DEF CallOK, Labels, Return, Proceed
<1>1. CASE WriteFile \/ DeleteFile \/ Call \/ TakeSize \/ OpenFile \/ Sleep
  BY <1>1 DEF WriteFile, DeleteFile, Call, TakeSize, OpenFile, Sleep
<1>2. CASE Presign \/ Put
  BY <1>2 DEF Presign, Put, Retry, OutOfAttempts
<1>3. CASE UNCHANGED vars
  BY <1>3 DEF vars
<1>. QED
  BY <1>1, <1>2, <1>3 DEF Next, Transfer

LEMMA FileStep == FileOK /\ [Next]_vars => FileOK'
<1> SUFFICES ASSUME FileOK, [Next]_vars PROVE FileOK'
  OBVIOUS
<1>0. present' \in BOOLEAN
  BY Zenon DEF FileOK, Next, Transfer, vars, file, WriteFile, DeleteFile, Call, TakeSize,
     Presign, OpenFile, Put, Sleep
<1> USE DEF FileOK, Return, Proceed, file, body
<1>1. CASE WriteFile \/ DeleteFile
  BY <1>0, <1>1 DEF WriteFile, DeleteFile
<1>2. CASE Call \/ TakeSize \/ OpenFile \/ Sleep
  BY <1>0, <1>2 DEF Call, TakeSize, OpenFile, Sleep
<1>3. CASE Presign \/ Put
  BY <1>0, <1>3 DEF Presign, Put, Retry
<1>4. CASE UNCHANGED vars
  BY <1>0, <1>4 DEF vars
<1>. QED
  BY <1>1, <1>2, <1>3, <1>4 DEF Next, Transfer

(* Whatever follows a request that failed, within what the attempt may take*)
LEMMA AfterRequest ==
    ASSUME attempt \in 0..(MaxAttempts - 1), elapsed' \in Nat,
           elapsed' <= Requests(attempt + 1) + Sleeps(attempt),
           Retry \/ (UNCHANGED attempt /\ pc' = "idle")
    PROVE  TimeOK'
<1>1. /\ Requests(attempt + 1) \in Nat /\ Sleeps(attempt) \in Nat
      /\ Requests(MaxAttempts) \in Nat /\ Sleeps(MaxAttempts - 1) \in Nat
      /\ Requests(attempt + 1) <= Requests(MaxAttempts)
      /\ Sleeps(attempt) <= Sleeps(MaxAttempts - 1)
  BY TimesAreNat, TimesGrow
<1>2. elapsed' <= AllTime
  BY <1>1 DEF AllTime
<1>3. CASE attempt' = attempt /\ pc' = "idle"
  BY <1>2, <1>3 DEF TimeOK, AllTime
<1>4. CASE MoreAttempts /\ pc' = "sleep" /\ attempt' = attempt + 1
  <2>1. attempt' - 1 = attempt /\ attempt' \in 0..(MaxAttempts - 1) /\ attempt' > 0
    BY <1>4 DEF MoreAttempts
  <2>. QED
    BY <1>4, <2>1 DEF TimeOK
<1>. QED
  BY <1>3, <1>4 DEF Retry, Return, Proceed, NextAttempt

LEMMA TimeStep == TimeOK /\ [Next]_vars => TimeOK'
<1> SUFFICES ASSUME TimeOK, [Next]_vars PROVE TimeOK'
  OBVIOUS
<1>0. /\ attempt \in 0..(MaxAttempts - 1) /\ attempt \in Nat
      /\ Requests(attempt) \in Nat /\ Sleeps(attempt) \in Nat
      /\ Requests(attempt + 1) = Requests(attempt) + 2 * RequestTimeout
  BY TimesAreNat, RequestsNext DEF TimeOK
<1>1. CASE WriteFile \/ DeleteFile \/ UNCHANGED vars
  BY <1>1 DEF WriteFile, DeleteFile, vars, TimeOK
<1>2. CASE Call
  BY <1>2 DEF Call, TimeOK
<1>3. CASE TakeSize
  <2>1. 0 <= AllTime /\ Requests(0) \in Nat /\ Sleeps(0) \in Nat
    BY TimesAreNat DEF AllTime
  <2>. QED
    BY <1>3, <2>1 DEF TakeSize, Return, Proceed, TimeOK
<1>4. CASE Presign
  <2>1. PICK time \in 0..RequestTimeout : elapsed' = elapsed + time
    BY <1>4 DEF Presign, RequestTakes
  <2>2. elapsed \in Nat /\ elapsed <= Requests(attempt) + Sleeps(attempt)
    BY <1>4 DEF Presign, TimeOK
  <2>3. /\ elapsed' \in Nat
        /\ elapsed' <= Requests(attempt) + RequestTimeout + Sleeps(attempt)
        /\ elapsed' <= Requests(attempt + 1) + Sleeps(attempt)
    BY <1>0, <2>1, <2>2
  <2>4. CASE Proceed("open") /\ UNCHANGED attempt
    BY <1>0, <2>3, <2>4 DEF Proceed, TimeOK
  <2>5. CASE Retry \/ (Return("false") /\ UNCHANGED attempt)
    BY <1>0, <2>3, <2>5, AfterRequest DEF Return
  <2>. QED
    BY <1>4, <2>4, <2>5 DEF Presign
<1>5. CASE OpenFile
  <2>1. elapsed <= Requests(attempt) + RequestTimeout + Sleeps(attempt) /\ elapsed \in Nat
    BY <1>5 DEF OpenFile, TimeOK
  <2>2. CASE Proceed("put")
    BY <1>0, <1>5, <2>1, <2>2 DEF OpenFile, Proceed, TimeOK
  <2>3. CASE Return("false")
    <3>1. elapsed <= Requests(attempt + 1) + Sleeps(attempt)
      BY <1>0, <2>1
    <3>. QED
      BY <1>0, <1>5, <2>1, <2>3, <3>1, AfterRequest DEF OpenFile, Return
  <2>. QED
    BY <1>5, <2>2, <2>3 DEF OpenFile
<1>6. CASE Put
  <2>1. PICK time \in 0..RequestTimeout : elapsed' = elapsed + time
    BY <1>6 DEF Put, RequestTakes
  <2>2. elapsed \in Nat /\ elapsed <= Requests(attempt) + RequestTimeout + Sleeps(attempt)
    BY <1>6 DEF Put, TimeOK
  <2>3. elapsed' \in Nat /\ elapsed' <= Requests(attempt + 1) + Sleeps(attempt)
    BY <1>0, <2>1, <2>2
  <2>4. Retry \/ (pc' = "idle" /\ UNCHANGED attempt)
    BY <1>6 DEF Put, Return
  <2>. QED
    BY <1>0, <2>3, <2>4, AfterRequest
<1>7. CASE Sleep
  <2>1. /\ elapsed \in Nat /\ elapsed <= Requests(attempt) + Sleeps(attempt - 1)
        /\ attempt - 1 \in Nat
    BY <1>0, <1>7 DEF Sleep, TimeOK
  <2>2. Sleeps(attempt) = Sleeps(attempt - 1) + BackoffUnit * attempt
    <3>1. Sleeps((attempt - 1) + 1) = Sleeps(attempt - 1) + BackoffUnit * ((attempt - 1) + 1)
      BY <2>1, SleepsNext
    <3>2. (attempt - 1) + 1 = attempt
      BY <1>0
    <3>. QED
      BY <3>1, <3>2
  <2>3. BackoffUnit * attempt \in Nat /\ Sleeps(attempt - 1) \in Nat
    BY <1>0, <2>1, ProductIsNat, TimesAreNat
  <2>4. elapsed' = elapsed + BackoffUnit * attempt
    BY <1>7 DEF Sleep, Pause
  <2>5. elapsed' \in Nat /\ elapsed' <= Requests(attempt) + Sleeps(attempt)
    BY <1>0, <2>1, <2>2, <2>3, <2>4
  <2>. QED
    BY <1>0, <1>7, <2>5 DEF Sleep, Proceed, TimeOK
<1>. QED
  BY <1>1, <1>2, <1>3, <1>4, <1>5, <1>6, <1>7 DEF Next, Transfer

THEOREM Invariance == Spec => []TransferInv
<1>1. TransferInv /\ [Next]_vars => TransferInv'
  BY CallStep, FileStep, TimeStep, Zenon DEF TransferInv
<1>. QED
  BY <1>1, InvInit, PTL DEF Spec

-----------------------------------------------------------------------------
(* Every variable keeps its type; no attempt beyond the last is begun.     *)
THEOREM TypeCorrect == Spec => []TypeOK
<1>1. TransferInv => TypeOK
  BY Zenon DEF TransferInv, CallOK, FileOK, TimeOK, TypeOK, Labels
<1>. QED
  BY <1>1, Invariance, PTL

(* A call takes no longer than its requests and pauses together.           *)
THEOREM TransferIsTimely == Spec => []TransferTime
<1>1. TransferInv => TransferTime
  <2> SUFFICES ASSUME TransferInv PROVE elapsed <= AllTime
    <3>1. 2 * RequestTimeout * MaxAttempts + SleepsBefore(MaxAttempts - 1) = AllTime
      BY Zenon DEF AllTime, Requests, Sleeps, Sum, SleepsBefore
    <3>. QED
      BY <3>1 DEF TransferTime
  <2>1. /\ attempt \in Nat /\ attempt <= MaxAttempts - 1 /\ elapsed \in Nat
        /\ MaxAttempts - 1 \in Nat
    BY DEF TransferInv, TimeOK
  <2>2. /\ Requests(attempt) \in Nat /\ Sleeps(attempt) \in Nat
        /\ Requests(attempt + 1) = Requests(attempt) + 2 * RequestTimeout
        /\ Requests(attempt + 1) <= Requests(MaxAttempts)
        /\ Sleeps(attempt) <= Sleeps(MaxAttempts - 1)
        /\ Requests(MaxAttempts) \in Nat /\ Sleeps(MaxAttempts - 1) \in Nat
    <3>1. /\ attempt + 1 \in Nat /\ MaxAttempts \in Nat
          /\ attempt + 1 <= MaxAttempts /\ attempt <= MaxAttempts - 1
      BY <2>1
    <3>2. Requests(attempt + 1) <= Requests(MaxAttempts)
      BY <3>1, TimesGrow
    <3>3. Sleeps(attempt) <= Sleeps(MaxAttempts - 1)
      BY <2>1, <3>1, TimesGrow
    <3>4. Requests(attempt + 1) = Requests(attempt) + 2 * RequestTimeout
      BY <2>1, RequestsNext
    <3>. QED
      BY <2>1, <3>1, <3>2, <3>3, <3>4, TimesAreNat
  <2>3. CASE pc \in {"presign", "open", "put"}
    BY <2>1, <2>2, <2>3 DEF TransferInv, TimeOK, AllTime
  <2>4. CASE pc = "sleep"
    <3>1. Sleeps(attempt - 1) \in Nat /\ Sleeps(attempt - 1) <= Sleeps(attempt)
      BY <2>1, <2>4, TimesAreNat, TimesGrow DEF TransferInv, TimeOK
    <3>. QED
      BY <2>1, <2>2, <2>4, <3>1 DEF TransferInv, TimeOK, AllTime
  <2>5. CASE pc \in {"idle", "size"}
    BY <2>1, <2>2, <2>5 DEF TransferInv, TimeOK, AllTime
  <2>. QED
    BY <2>3, <2>4, <2>5 DEF TransferInv, CallOK, Labels
<1>. QED
  BY <1>1, Invariance, PTL

-----------------------------------------------------------------------------
(* Attempts, requests and pauses stutter; what is stored is a state of the *)
(* file not older than the call.                                           *)
LEMMA PromiseStep ==
    TransferInv /\ [Next]_vars => [Promise!Next]_(Promise!vars)
<1> SUFFICES ASSUME TransferInv, [Next]_vars
             PROVE  Promise!Next \/ UNCHANGED Promise!vars
  OBVIOUS
<1> USE DEF Promise!vars, Return, Proceed, file
<1>1. CASE WriteFile
  BY <1>1 DEF WriteFile, Promise!Next, Promise!Write
<1>2. CASE Call
  BY <1>2 DEF Call, Promise!Next, Promise!Call, TransferInv, CallOK
<1>3. CASE TakeSize \/ OpenFile
  BY <1>3 DEF TakeSize, OpenFile, Promise!Next, Promise!Fail, TransferInv, CallOK
<1>4. CASE Presign
  BY <1>4 DEF Presign, Retry, OutOfAttempts, Promise!Next, Promise!Fail, TransferInv, CallOK
<1>5. CASE Put
  <2>1. result = "calling" /\ opened \in since..written /\ UNCHANGED <<written, since>>
    BY <1>5 DEF Put, TransferInv, CallOK, FileOK
  <2>2. CASE stored' = opened
    <3>1. result' \in {"calling", "true", "false"}
      BY <1>5, <2>1 DEF Put, Retry, OutOfAttempts
    <3>. QED
      BY <2>1, <2>2, <3>1 DEF Promise!Next, Promise!Store
  <2>3. CASE UNCHANGED stored /\ (Retry \/ Return("false"))
    BY <2>1, <2>3 DEF Retry, OutOfAttempts, Promise!Next, Promise!Fail
  <2>. QED
    BY <1>5, <2>2, <2>3 DEF Put
<1>6. CASE DeleteFile \/ Sleep \/ UNCHANGED vars
  BY <1>6 DEF DeleteFile, Sleep, vars
<1>. QED
  BY <1>1, <1>2, <1>3, <1>4, <1>5, <1>6 DEF Next, Transfer

(* The retry loop implements an at-least-once transfer.                    *)
THEOREM TransferImplemented == Spec => ImplementsTransfer
<1>1. Init => Promise!Init
  BY DEF Init, Promise!Init
<1>. QED
  BY <1>1, PromiseStep, Invariance, PTL DEF Spec, Promise!Spec, ImplementsTransfer

-----------------------------------------------------------------------------
(* What a caller may rely on follows from the promise alone.               *)
PromiseInv ==
    /\ written \in Nat /\ stored \in Nat /\ since \in Nat
    /\ stored <= written /\ since <= written
    /\ Promise!SuccessIsStored

LEMMA PromiseKept == Promise!Spec => []PromiseInv
<1>1. Promise!Init => PromiseInv
  BY DEF Promise!Init, PromiseInv, Promise!SuccessIsStored
<1>2. PromiseInv /\ [Promise!Next]_(Promise!vars) => PromiseInv'
  <2> SUFFICES ASSUME PromiseInv, [Promise!Next]_(Promise!vars) PROVE PromiseInv'
    OBVIOUS
  <2> USE DEF PromiseInv, Promise!SuccessIsStored
  <2>1. CASE Promise!Write
    BY <2>1 DEF Promise!Write
  <2>2. CASE Promise!Call
    BY <2>2 DEF Promise!Call
  <2>3. CASE Promise!Store
    BY <2>3 DEF Promise!Store
  <2>4. CASE Promise!Fail \/ UNCHANGED Promise!vars
    BY <2>4 DEF Promise!Fail, Promise!vars
  <2>. QED
    BY <2>1, <2>2, <2>3, <2>4 DEF Promise!Next
<1>. QED
  BY <1>1, <1>2, PTL DEF Promise!Spec

(* A transfer reported as successful is in the bucket, and no older than   *)
(* the call, whatever was lost, repeated or rewritten meanwhile.           *)
THEOREM ReportedIsStored == Spec => []Promise!SuccessIsStored
<1>1. PromiseInv => Promise!SuccessIsStored
  BY DEF PromiseInv
<1>. QED
  BY <1>1, TransferImplemented, PromiseKept, PTL DEF ImplementsTransfer
=============================================================================
