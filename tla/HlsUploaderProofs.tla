-------------------------- MODULE HlsUploaderProofs --------------------------
(***************************************************************************)
(* Proofs about HlsUploader, for any sizes of the directory, the playlist, *)
(* the memory and the drain: what the uploader remembers, what it forgets, *)
(* what it publishes, and what a drain leaves in the bucket.               *)
(***************************************************************************)
EXTENDS HlsUploader, SequenceTheorems, FiniteSetTheorems, TLAPS

(* MemoryAssumption is cited where it is needed.                           *)
USE WriterAssumption, UploaderAssumption, BoundAssumption

-----------------------------------------------------------------------------
(* Lemmas about the operators of the library and of the model.             *)

(* The least of a set of naturals: of the sets of smaller elements, one    *)
(* has no proper subset among the others.                                  *)
LEMMA MinOf ==
    ASSUME NEW S \in SUBSET Nat, S # {}
    PROVE  Min(S) \in S /\ \A n \in S : Min(S) <= n
<1> DEFINE Below(x) == {y \in S : y < x}
           Sets     == {Below(x) : x \in S}
<1>. /\ \A x \in S : x \in Nat
     /\ \A x, y : y \in Below(x) <=> y \in S /\ y < x
  OBVIOUS
<1>1. \A x \in S : Below(x) \in FiniteSubsetsOf(Nat)
  <2> SUFFICES ASSUME NEW x \in S PROVE Below(x) \in FiniteSubsetsOf(Nat)
    OBVIOUS
  <2>1. IsFiniteSet(0..x)
    BY FS_Interval
  <2>2. \A y \in Below(x) : y \in 0..x
    OBVIOUS
  <2>3. IsFiniteSet(Below(x))
    BY <2>1, <2>2, FS_Subset
  <2>. QED
    BY <2>3 DEF FiniteSubsetsOf
<1>2. \E B \in Sets : \A C \in Sets : <<C, B>> \notin StrictSubsetOrdering(Nat)
  <2>1. Sets \subseteq FiniteSubsetsOf(Nat)
    <3> HIDE DEF Below
    <3>. QED
      BY <1>1
  <2>3. Sets # {}
    <3> HIDE DEF Below
    <3>. QED
      OBVIOUS
  <2>2. IsWellFoundedOn(StrictSubsetOrdering(Nat), FiniteSubsetsOf(Nat))
    BY FS_StrictSubsetOrderingWellFounded
  <2>. HIDE DEF Sets
  <2>. QED
    BY <2>1, <2>2, <2>3, WFMin, Zenon
<1>3. PICK x \in S : \A y \in S : <<Below(y), Below(x)>> \notin StrictSubsetOrdering(Nat)
  BY <1>2
<1>4. \A y \in S : x <= y
  <2> SUFFICES ASSUME NEW y \in S, y < x PROVE FALSE
    OBVIOUS
  <2>0. \A z \in S : z < y => z < x
    OBVIOUS
  <2>1. Below(y) \subseteq Below(x)
    BY <2>0, Zenon
  <2>2. y \in Below(x) /\ y \notin Below(y)
    OBVIOUS
  <2>3. <<Below(y), Below(x)>> \in StrictSubsetOrdering(Nat)
    BY <2>1, <2>2 DEF StrictSubsetOrdering
  <2>. QED
    BY <1>3, <2>3
<1>. QED
  BY <1>4, Zenon DEF Min

(* The library's Min and Max, of two integers.                             *)
LEMMA MinOfTwo ==
    ASSUME NEW a \in Int, NEW b \in Int
    PROVE  Min({a, b}) = IF a <= b THEN a ELSE b
BY DEF Min
LEMMA MaxOfTwo ==
    ASSUME NEW a \in Int, NEW b \in Int
    PROVE  Max({a, b}) = IF a >= b THEN a ELSE b
BY DEF Max

(* MaxSegments \div session is a number of segments.                       *)
LEMMA DivAtMost ==
    ASSUME NEW a \in Nat, NEW b \in Nat \ {0}
    PROVE  a \div b <= a /\ a \div b \in Nat
OBVIOUS

(* A function on 1..n is a sequence of length n.                           *)
LEMMA FunctionIsSeq ==
    ASSUME NEW S, NEW n \in Nat, NEW f \in [1..n -> S]
    PROVE  f \in Seq(S) /\ Len(f) = n
<1>1. f \in Seq(S)
  BY SeqDef, Zenon
<1>. QED
  BY <1>1, LenProperties

Oldest(c) == IF c > PlaylistLength THEN c - PlaylistLength ELSE 0
ListOf(c) == PlaylistFrom(Max({0, c - PlaylistLength}), c - 1)
ListedOf(c) == {n \in Segments : c - PlaylistLength <= n /\ n < c}

(* A playlist lists, in order, the closed segments that are among the last *)
(* PlaylistLength.                                                         *)
LEMMA ListedFacts ==
    ASSUME NEW c \in Segments
    PROVE  /\ Oldest(c) \in 0..c
           /\ ListOf(c) \in Seq(Segments)
           /\ Len(ListOf(c)) = c - Oldest(c)
           /\ \A i \in 1..(c - Oldest(c)) : ListOf(c)[i] = Oldest(c) + i - 1
           /\ Range(ListOf(c)) = ListedOf(c)
<1>1. Max({0, c - PlaylistLength}) = Oldest(c)
  BY MaxOfTwo DEF Segments, Oldest
<1>2. /\ c - 1 - Oldest(c) + 1 = c - Oldest(c)
      /\ c - Oldest(c) \in Nat /\ Oldest(c) \in 0..c
  BY DEF Segments, Oldest
<1>3. ListOf(c) = [i \in 1..(c - Oldest(c)) |-> Oldest(c) + i - 1]
  BY <1>1, <1>2 DEF ListOf, PlaylistFrom
<1>4. \A i \in 1..(c - Oldest(c)) : Oldest(c) + i - 1 \in Segments
  BY <1>2 DEF Segments
<1>5. ListOf(c) \in [1..(c - Oldest(c)) -> Segments]
  BY <1>3, <1>4
<1>6. ListOf(c) \in Seq(Segments) /\ Len(ListOf(c)) = c - Oldest(c)
  BY <1>2, <1>5, FunctionIsSeq
<1>7. Range(ListOf(c)) = ListedOf(c)
  <2>1. ListedOf(c) = {n \in Segments : Oldest(c) <= n /\ n < c}
    BY DEF ListedOf, Segments, Oldest
  <2>2. Range(ListOf(c)) = {ListOf(c)[i] : i \in 1..(c - Oldest(c))}
    BY <1>6, RangeEquality
  <2>3. \A n \in ListedOf(c) : /\ n - Oldest(c) + 1 \in 1..(c - Oldest(c))
                              /\ ListOf(c)[n - Oldest(c) + 1] = n
    BY <2>1, <1>2, <1>3 DEF Segments
  <2>4. \A i \in 1..(c - Oldest(c)) : ListOf(c)[i] \in ListedOf(c)
    BY <2>1, <1>2, <1>3, <1>4 DEF Segments
  <2>. QED
    BY <2>2, <2>3, <2>4
<1>. QED
  BY <1>2, <1>3, <1>6, <1>7

(* What is in a sequence.                                                  *)
LEMMA UploadedFacts ==
    ASSUME NEW s \in Seq(Segments)
    PROVE  \A k : k \in Range(s) <=> \E i \in 1..Len(s) : s[i] = k
BY RangeEquality

Dropped == IF Len(order) < Cap THEN 0 ELSE 1

(* The memory after one more name.                                         *)
LEMMA RecordedFacts ==
    ASSUME order \in Seq(Segments), Len(order) <= Cap, NEW n \in Segments, n \notin Uploaded
    PROVE  /\ RecordUploaded(n) \in Seq(Segments)
           /\ Len(RecordUploaded(n)) = Len(order) - Dropped + 1
           /\ \A i \in 1..(Len(order) - Dropped) : RecordUploaded(n)[i] = order[i + Dropped]
           /\ RecordUploaded(n)[Len(order) - Dropped + 1] = n
<1> DEFINE rest == SubSeq(order, Dropped + 1, Len(order))
<1>0. Len(order) \in Nat /\ Dropped \in {0, 1} /\ Len(order) - Dropped \in Nat
  BY LenProperties DEF Dropped
<1>1. Min({Len(order), Cap - 1}) = Len(order) - Dropped
  BY <1>0, MinOfTwo DEF Dropped
<1>2. RecordUploaded(n) = Append(rest, n)
  <2>1. Len(order) - (Len(order) - Dropped) + 1 = Dropped + 1
    BY <1>0
  <2>. QED
    BY <1>1, <2>1 DEF RecordUploaded
<1>3. \A i \in (Dropped + 1)..Len(order) : order[i] \in Segments
  BY <1>0, ElementOfSeq
<1>4. /\ rest \in Seq(Segments)
      /\ Len(rest) = Len(order) - Dropped
      /\ \A i \in 1..(Len(order) - Dropped) : rest[i] = order[i + Dropped]
  <2>1. Dropped + 1 \in Int /\ Len(order) \in Int
    BY <1>0
  <2>2. /\ rest \in Seq(Segments)
        /\ Len(rest) = IF Dropped + 1 <= Len(order) THEN Len(order) - (Dropped + 1) + 1 ELSE 0
        /\ \A i \in 1..(Len(order) - (Dropped + 1) + 1) : rest[i] = order[(Dropped + 1) + i - 1]
    BY <2>1, <1>3, SubSeqProperties
  <2>. HIDE DEF rest
  <2>. QED
    BY <1>0, <2>2
<1>. HIDE DEF rest
<1>. QED
  BY <1>0, <1>2, <1>4, AppendProperties

(* A file is a number, as is its size.                                     *)
LEMMA SizeFacts ==
    ASSUME cur \in Segments, size \in 0..Full, item \in Segments \union {Playlist}
    PROVE  /\ Len(Listed) \in Nat
           /\ SizeOf(item) \in Nat
           /\ item = Playlist => SizeOf(item) = Len(Listed)
           /\ item # Playlist => SizeOf(item) <= Full
<1>1. Len(Listed) \in Nat
  BY ListedFacts, LenProperties DEF Listed, ListOf
<1>. QED
  BY <1>1 DEF SizeOf, Segments, Playlist

(* What the directory holds and lists depends on `cur` alone.              *)
LEMMA SameDirectory ==
    cur' = cur => Listed' = Listed /\ OnDisk' = OnDisk
BY DEF Listed, OnDisk

LEMMA SameMemory == order' = order => Uploaded' = Uploaded
BY DEF Uploaded

-----------------------------------------------------------------------------
(* The inductive invariant, part by part.                                  *)

Polling == pc \notin {"idle", "poll"}
InHand  == pc \in {"sample", "confirm", "check", "open", "transfer"}
Closed  == {n \in OnDisk : n < cur}

VarsOK ==
    /\ session \in 0..MaxSessions
    /\ cur \in Segments
    /\ size \in 0..Full
    /\ todo \subseteq Segments
    /\ item \in Segments \union {Playlist}
    /\ mtime \in 0..cur
    /\ seen \in Nat
    /\ order \in Seq(Segments)
    /\ lastWrite \in 0..cur
    /\ drained \in 0..DrainPolls

LabelsOK == pc \in Labels

FlagsOK == encoding \in BOOLEAN /\ reliable \in BOOLEAN

(* What a session is while it runs, drains and is over.                    *)
SessionOK ==
    /\ pc # "idle" => session > 0
    /\ encoding => pc # "idle" /\ drained = 0
    /\ pc = "idle" => (session = 0 /\ cur = 0) \/ drained = DrainPolls

(* No more is seen of the file in hand than there is.                      *)
SeenOK ==
    /\ ~InHand => seen = 0 /\ mtime = 0
    /\ item = Playlist => seen <= Len(Listed)
    /\ item # Playlist => seen <= Full

(* The file in hand is in the directory and not recorded yet.              *)
ItemOK ==
    /\ pc = "check" => item = Playlist
    /\ Polling => \A n \in todo : n <= cur
    /\ InHand /\ item = Playlist => cur > 0
    /\ InHand /\ item # Playlist => item <= cur /\ item \notin Uploaded

(* A name is recorded once.  Names may be recorded out of order, when an   *)
(* older segment is uploaded in a later poll than a newer one, but only as *)
(* far as a listing reaches back.                                          *)
Near(n, k) == n > k - MaxFiles

OrderOK ==
    /\ Len(order) <= Cap
    /\ \A i \in 1..Len(order) : order[i] <= cur
    /\ \A i, j \in 1..Len(order) : i < j => order[i] # order[j] /\ Near(order[j], order[i])
    /\ Polling => \A i \in 1..Len(order) : \A n \in todo : Near(n, order[i])
    /\ InHand /\ item # Playlist =>
         /\ \A i \in 1..Len(order) : Near(item, order[i])
         /\ \A n \in todo : n > item

(* Objects in the bucket are of this session or an earlier one, those of   *)
(* this session have been written by hlssink.                              *)
RemoteOK ==
    /\ remote \in [Segments -> [session : 0..MaxSessions, size : 0..Full]]
    /\ \A n \in Segments : remote[n].session <= session
    /\ session > 0 => \A n \in Segments : Stored(n, session) => n <= cur

RemotePlaylistOK ==
    /\ remotePlaylist.session \in 0..MaxSessions
    /\ remotePlaylist.entries \in Seq(Segments)

(* Of the segments a playlist can still list, those stored come first.     *)
NoHole ==
    \A i, j \in Segments :
        cur - PlaylistLength <= i /\ i < j /\ Stored(j, session) => Stored(i, session)

Publishing == item = Playlist /\ pc \in {"open", "transfer"}

(* A playlist that was checked and has not been rewritten since is whole   *)
(* and complete, also once it is published.                                *)
PlaylistOK ==
    /\ Publishing => NoHole
    /\ Publishing /\ mtime = cur => \A n \in ListedOf(cur) : Stored(n, session)
    /\ Publishing /\ mtime = cur /\ pc = "transfer" => seen = Len(Listed)

PublishedOK ==
    reliable /\ lastWrite = cur /\ cur > 0 =>
        /\ remotePlaylist = [session |-> session, entries |-> Listed]
        /\ \A n \in ListedOf(cur) : Stored(n, session)

(* Since the encoder stopped, no transfer has failed: a poll passes over   *)
(* no closed segment, nor over the playlist.                               *)
Draining == ~encoding /\ drained > 0 /\ reliable

DrainOK ==
    Draining =>
        /\ Polling => \A n \in Closed :
                         n \in Uploaded \/ n \in todo \/ (InHand /\ item = n)
        /\ Polling => todo \subseteq OnDisk
        /\ InHand /\ item = Playlist => mtime = cur
        /\ InHand /\ item = Playlist => Closed \subseteq Uploaded
        /\ InHand /\ item # Playlist => item \in OnDisk
        /\ pc = "confirm" => seen = SizeOf(item)
        /\ ~Polling /\ cur > 0 => lastWrite = cur

IInv ==
    /\ VarsOK /\ LabelsOK /\ FlagsOK /\ SessionOK /\ SeenOK /\ ItemOK /\ OrderOK
    /\ RemoteOK /\ RecordedIsStored /\ RemotePlaylistOK
    /\ PlaylistOK /\ PublishedOK /\ DrainOK

-----------------------------------------------------------------------------
(* Every step.                                                             *)

(* The two flags stay Booleans, and the worker at its labels.              *)
LEMMA FlagsStep == FlagsOK /\ [Next]_vars => FlagsOK'
BY Zenon DEF FlagsOK, Next, Worker, Poll, Writer, Grow, Rotate, StartSession, StopEncoder,
     EndSession, ListDirectory, PollDue, PickSegment, PickPlaylist, SampleSize, ConfirmSize,
     CheckPlaylist, OpenFile, TransferDone, TransferUnanswered, TransferFailed, Finished,
     Goto, AfterFile, DropFile, vars, disk, hand, memory, bucket

LEMMA LabelsStep == LabelsOK /\ [Next]_vars => LabelsOK'
BY DEF LabelsOK, Labels, Next, Worker, Poll, Writer, Grow, Rotate, StartSession, StopEncoder,
     EndSession, ListDirectory, PollDue, PickSegment, PickPlaylist, SampleSize, ConfirmSize,
     CheckPlaylist, OpenFile, TransferDone, TransferUnanswered, TransferFailed, Finished,
     Goto, AfterFile, DropFile, vars, disk, hand, memory, bucket

(* A session is drained before it ends; the next one starts afresh.        *)
LEMMA SessionStep ==
    VarsOK /\ LabelsOK /\ SessionOK /\ [Next]_vars => SessionOK'
<1> SUFFICES ASSUME VarsOK, LabelsOK, SessionOK, [Next]_vars PROVE SessionOK'
  OBVIOUS
<1> USE DEF VarsOK, SessionOK, LabelsOK, Labels, Segments
<1>1. CASE Writer
  BY <1>1 DEF Writer, Grow, Rotate
<1>2. CASE StartSession \/ StopEncoder \/ EndSession
  BY <1>2 DEF StartSession, StopEncoder, EndSession, disk
<1>3. CASE Poll
  BY <1>3 DEF Poll, ListDirectory, PickSegment, PickPlaylist, SampleSize, ConfirmSize,
     CheckPlaylist, OpenFile, TransferDone, TransferUnanswered, TransferFailed, Goto,
     AfterFile, DropFile, PollDue, disk
<1>4. CASE Finished \/ UNCHANGED vars
  BY <1>4 DEF Finished, vars, disk
<1>. QED
  BY <1>1, <1>2, <1>3, <1>4 DEF Next, Worker

(* A rotation moves the playlist on by at most one segment.                *)
LEMMA RotateFacts ==
    ASSUME VarsOK, SessionOK, Rotate
    PROVE  /\ cur' = cur + 1 /\ cur + 1 \in Segments
           /\ Listed = ListOf(cur) /\ Listed' = ListOf(cur + 1)
           /\ Oldest(cur) <= Oldest(cur + 1) /\ Oldest(cur + 1) <= Oldest(cur) + 1
           /\ Len(Listed) <= Len(Listed')
<1>1. MaxSegments \div session <= MaxSegments /\ MaxSegments \div session \in Int
  BY DivAtMost DEF Rotate, VarsOK, SessionOK
<1>2. cur' = cur + 1 /\ cur + 1 \in Segments /\ cur \in Nat
  BY <1>1 DEF Rotate, VarsOK, Segments
<1>3. Listed = ListOf(cur) /\ Listed' = ListOf(cur + 1)
  BY <1>2 DEF Listed, ListOf
<1>4. Oldest(cur) <= Oldest(cur + 1) /\ Oldest(cur + 1) <= Oldest(cur) + 1
  BY <1>2 DEF Oldest
<1>5. Len(ListOf(cur)) = cur - Oldest(cur) /\ Len(ListOf(cur + 1)) = cur + 1 - Oldest(cur + 1)
  BY <1>2, ListedFacts DEF VarsOK
<1>6. Oldest(cur) \in Int /\ Oldest(cur + 1) \in Int
  BY <1>2 DEF Oldest
<1>. QED
  BY <1>2, <1>3, <1>4, <1>5, <1>6

(* The segment taken up is the first of the listing not yet recorded.      *)
LEMMA PickFacts ==
    ASSUME VarsOK, PickSegment
    PROVE  /\ item' \in Segments /\ item' \in todo /\ item' \notin Uploaded
           /\ \A n \in todo : n \notin Uploaded => item' <= n
           /\ \A n : n \in todo' <=> n \in todo /\ n > item'
<1>0. Segments \subseteq Nat /\ Pending \subseteq todo
  BY DEF Pending, Segments
<1>1. Pending \in SUBSET Nat /\ Pending # {}
  BY <1>0 DEF PickSegment, VarsOK
<1>2. Min(Pending) \in Pending /\ \A n \in Pending : Min(Pending) <= n
  BY <1>1, MinOf
<1>3. item' = Min(Pending)
  BY DEF PickSegment
<1>. QED
  BY <1>2, <1>3 DEF PickSegment, Pending, VarsOK

(* Numbers, files and names keep their ranges.                             *)
LEMMA VarsStep ==
    VarsOK /\ SessionOK /\ SeenOK /\ ItemOK /\ OrderOK /\ [Next]_vars => VarsOK'
<1> SUFFICES ASSUME VarsOK, SessionOK, SeenOK, ItemOK, OrderOK, [Next]_vars PROVE VarsOK'
  OBVIOUS
<1> USE DEF VarsOK, SessionOK, SeenOK, InHand
<1>a. 0 \in 0..cur /\ cur \in 0..cur /\ 0 \in Segments
  BY DEF Segments
<1>1. CASE Grow \/ StopEncoder \/ EndSession \/ Finished \/ UNCHANGED vars
  <2>1. /\ UNCHANGED <<session, cur, hand, memory, drained>>
        /\ size' = size \/ (size < Full /\ size' = size + 1)
    BY <1>1 DEF Grow, StopEncoder, EndSession, Finished, vars, disk
  <2>. QED
    BY <2>1 DEF hand, memory
<1>2. CASE Rotate
  <2>1. cur + 1 \in Segments /\ \A x \in 0..cur : x \in 0..(cur + 1)
    BY <1>2, RotateFacts DEF Segments
  <2>. QED
    BY <1>2, <1>a, <2>1 DEF Rotate, hand, memory, bucket
<1>3. CASE StartSession
  BY <1>3, <1>a, EmptySeq DEF StartSession, ResetSession, hand, bucket
<1>4. CASE ListDirectory
  <2>1. OnDisk \subseteq Segments
    BY DEF OnDisk
  <2>. QED
    BY <1>4, <2>1 DEF ListDirectory, PollDue, Goto, disk, memory, bucket
<1>5. CASE PickSegment
  BY <1>5, PickFacts DEF PickSegment, Goto, disk, memory
<1>6. CASE PickPlaylist
  BY <1>6, <1>a DEF PickPlaylist, Pending, Goto, disk, memory, bucket
<1>7. CASE SampleSize \/ OpenFile
  <2>1. /\ UNCHANGED <<disk, memory, todo, item, drained>>
        /\ mtime' \in {0, mtime} /\ seen' \in {0, SizeOf(item)}
    BY <1>7 DEF SampleSize, OpenFile, Goto, DropFile
  <2>. QED
    BY <1>a, <2>1, SizeFacts DEF disk, memory
<1>8. CASE ConfirmSize \/ CheckPlaylist \/ TransferUnanswered \/ TransferFailed
  <2>1. /\ UNCHANGED <<disk, memory, todo, item, drained>>
        /\ mtime' \in {0, mtime} /\ seen' \in {0, seen}
    BY <1>8 DEF ConfirmSize, CheckPlaylist, TransferUnanswered, TransferFailed, Goto,
       DropFile, hand
  <2>. QED
    BY <1>a, <2>1 DEF disk, memory
<1>9. CASE TransferDone
  <2>1. CASE item = Playlist
    BY <1>9, <2>1 DEF TransferDone, Put, PlaylistWrite, DropFile, disk, Segments
  <2>2. CASE item # Playlist
    <3>1. RecordUploaded(item) \in Seq(Segments)
      BY <1>9, <2>2, RecordedFacts DEF TransferDone, ItemOK, OrderOK, InHand
    <3>. QED
      BY <1>9, <2>2, <3>1 DEF TransferDone, DropFile, disk, Segments
  <2>. QED
    BY <2>1, <2>2
<1>. QED
  BY <1>1, <1>2, <1>3, <1>4, <1>5, <1>6, <1>7, <1>8, <1>9 DEF Next, Worker, Poll, Writer

(* A file never shrinks while it is in hand.                               *)
LEMMA SeenStep ==
    VarsOK /\ SessionOK /\ LabelsOK /\ SeenOK /\ ItemOK /\ [Next]_vars => SeenOK'
<1> SUFFICES ASSUME VarsOK, SessionOK, LabelsOK, SeenOK, ItemOK, [Next]_vars PROVE SeenOK'
  OBVIOUS
<1> USE DEF VarsOK, SeenOK, ItemOK, LabelsOK, Labels, InHand
<1>a. Len(Listed) \in Nat
  BY SizeFacts
<1>1. CASE Grow \/ StopEncoder \/ EndSession \/ Finished \/ UNCHANGED vars
  BY <1>1, <1>a, SameDirectory
     DEF Grow, StopEncoder, EndSession, Finished, vars, disk, hand
<1>2. CASE Rotate
  BY <1>2, RotateFacts, <1>a DEF Rotate, hand, SessionOK
<1>3. CASE StartSession
  BY <1>3, <1>a, SameDirectory DEF StartSession, ResetSession, hand, bucket
<1>4. CASE ListDirectory \/ PickSegment \/ PickPlaylist
  BY <1>4, <1>a, SameDirectory DEF ListDirectory, PickSegment, PickPlaylist, Goto, disk
<1>5. CASE SampleSize \/ OpenFile
  BY <1>5, <1>a, SameDirectory, SizeFacts
     DEF SampleSize, OpenFile, AfterFile, DropFile, Goto, disk
<1>6. CASE \/ ConfirmSize \/ CheckPlaylist
          \/ TransferDone \/ TransferUnanswered \/ TransferFailed
  BY <1>6, <1>a, SameDirectory
     DEF ConfirmSize, CheckPlaylist, TransferDone, TransferUnanswered, TransferFailed, Goto,
     AfterFile, DropFile, disk, hand
<1>. QED
  BY <1>1, <1>2, <1>3, <1>4, <1>5, <1>6 DEF Next, Worker, Poll, Writer

(* Whatever happens to the directory, the file in hand is not recorded.    *)
LEMMA ItemStep ==
    VarsOK /\ LabelsOK /\ SessionOK /\ ItemOK /\ [Next]_vars => ItemOK'
<1> SUFFICES ASSUME VarsOK, LabelsOK, SessionOK, ItemOK, [Next]_vars PROVE ItemOK'
  OBVIOUS
<1> USE DEF VarsOK, ItemOK, Polling, LabelsOK, Labels, InHand
<1>1. CASE Grow \/ StopEncoder \/ EndSession \/ Finished \/ UNCHANGED vars
  BY <1>1, SameMemory DEF Grow, StopEncoder, EndSession, Finished, vars, disk, hand, memory
<1>2. CASE Rotate
  BY <1>2, RotateFacts, SameMemory DEF Rotate, hand, memory, Segments
<1>3. CASE StartSession
  BY <1>3, SameMemory DEF StartSession, ResetSession, hand, bucket
<1>4. CASE ListDirectory
  BY <1>4, SameMemory DEF ListDirectory, PollDue, Goto, disk, memory, bucket, OnDisk
<1>5. CASE PickSegment
  BY <1>5, PickFacts, SameMemory DEF PickSegment, Goto, disk, memory, Segments, Playlist
<1>6. CASE PickPlaylist
  BY <1>6, SameMemory DEF PickPlaylist, Exists, Goto, disk, memory, bucket
<1>7. CASE \/ SampleSize \/ ConfirmSize \/ CheckPlaylist \/ OpenFile
          \/ TransferUnanswered \/ TransferFailed
  BY <1>7, SameMemory
     DEF SampleSize, ConfirmSize, CheckPlaylist, OpenFile, TransferUnanswered, TransferFailed,
     Goto, AfterFile, DropFile, disk, hand, memory
<1>8. CASE TransferDone
  BY <1>8 DEF TransferDone, AfterFile, DropFile, disk
<1>. QED
  BY <1>1, <1>2, <1>3, <1>4, <1>5, <1>6, <1>7, <1>8 DEF Next, Worker, Poll, Writer

(* A name joins those it is near to, and none of them is dropped but the   *)
(* oldest.                                                                 *)
LEMMA OrderStep ==
    VarsOK /\ LabelsOK /\ SessionOK /\ ItemOK /\ OrderOK /\ [Next]_vars => OrderOK'
<1> SUFFICES ASSUME VarsOK, LabelsOK, SessionOK, ItemOK, OrderOK, [Next]_vars PROVE OrderOK'
  OBVIOUS
<1> USE DEF OrderOK, Polling, LabelsOK, Labels, InHand
<1>a. \A i \in 1..Len(order) : order[i] \in Segments
  BY ElementOfSeq DEF VarsOK
<1>b. cur \in Nat /\ MaxFiles \in Nat \ {0} /\ Len(order) \in Nat
  BY LenProperties DEF VarsOK, Segments
<1>1. CASE Grow \/ StopEncoder \/ EndSession \/ Finished \/ UNCHANGED vars
  BY <1>1 DEF Grow, StopEncoder, EndSession, Finished, vars, disk, hand, memory
<1>2. CASE Rotate
  <2>1. \A i \in 1..Len(order) : order[i] <= cur + 1
    BY <1>a, <1>b DEF Segments
  <2>. QED
    BY <1>2, <2>1 DEF Rotate, hand, memory
<1>3. CASE StartSession
  <2>1. order' = <<>> /\ Len(order') = 0 /\ pc' = "poll" /\ cur' = 0
    BY <1>3, EmptySeq DEF StartSession, ResetSession
  <2>. QED
    BY <2>1
<1>4. CASE ListDirectory
  <2>1. \A n \in OnDisk : n \in Nat /\ cur - MaxFiles < n
    BY DEF OnDisk, Segments
  <2>2. \A i \in 1..Len(order) : order[i] \in Int /\ order[i] <= cur
    BY <1>a DEF Segments
  <2>3. \A i \in 1..Len(order) : \A n \in OnDisk : Near(n, order[i])
    BY <2>1, <2>2, <1>b DEF Near
  <2>. QED
    BY <1>4, <2>3 DEF ListDirectory, Goto, memory, disk
<1>5. CASE PickSegment
  BY <1>5, PickFacts DEF PickSegment, Goto, disk, memory
<1>6. CASE \/ PickPlaylist \/ SampleSize \/ ConfirmSize \/ CheckPlaylist
          \/ OpenFile \/ TransferUnanswered \/ TransferFailed
  BY <1>6 DEF PickPlaylist, SampleSize, ConfirmSize, CheckPlaylist, OpenFile,
     TransferUnanswered, TransferFailed, Goto, AfterFile, DropFile, disk, hand, memory
<1>7. CASE TransferDone
  <2>1. CASE item = Playlist
    BY <1>7, <2>1 DEF TransferDone, AfterFile, DropFile, disk
  <2>2. CASE item # Playlist
    <3> DEFINE r == RecordUploaded(item)
               m == Len(order) - Dropped
    <3>1. item \in Segments /\ item \notin Uploaded /\ item <= cur
      BY <1>7, <2>2 DEF TransferDone, VarsOK, ItemOK
    <3>2. /\ m \in Nat /\ Len(r) = m + 1 /\ m + 1 <= Cap /\ Dropped \in {0, 1}
          /\ \A i \in 1..m : r[i] = order[i + Dropped] /\ i + Dropped \in 1..Len(order)
          /\ r[m + 1] = item
      BY <1>b, <3>1, RecordedFacts DEF VarsOK, Dropped
    <3>3. \A i \in 1..Len(order) : order[i] # item /\ Near(item, order[i])
      BY <1>7, <2>2, <3>1, UploadedFacts DEF TransferDone, VarsOK, Uploaded
    <3>4. \A n \in todo : n > item /\ Near(n, item)
      BY <1>7, <2>2, <3>1, <1>b DEF TransferDone, VarsOK, Near, Segments
    <3>5. /\ order' = r /\ todo' = todo /\ cur' = cur /\ pc' = "pick"
      BY <1>7, <2>2 DEF TransferDone, AfterFile, DropFile, disk
    <3> HIDE DEF r, m
    <3>6. Len(r) <= Cap /\ \A i \in 1..Len(r) : r[i] <= cur
      BY <3>1, <3>2
    <3>7. \A i, j \in 1..Len(r) : i < j => r[i] # r[j] /\ Near(r[j], r[i])
      <4> SUFFICES ASSUME NEW i \in 1..Len(r), NEW j \in 1..Len(r), i < j
                   PROVE  r[i] # r[j] /\ Near(r[j], r[i])
        OBVIOUS
      <4>1. i \in 1..m /\ r[i] = order[i + Dropped] /\ i + Dropped \in 1..Len(order)
        BY <3>2
      <4>2. CASE j = m + 1
        BY <3>2, <3>3, <4>1, <4>2
      <4>3. CASE j # m + 1
        <5>1. j \in 1..m /\ r[j] = order[j + Dropped] /\ j + Dropped \in 1..Len(order)
          BY <3>2, <4>3
        <5>2. i + Dropped < j + Dropped
          BY <3>2
        <5>. QED
          BY <4>1, <5>1, <5>2
      <4>. QED
        BY <4>2, <4>3
    <3>8. \A i \in 1..Len(r) : \A n \in todo : Near(n, r[i])
      BY <1>7, <3>2, <3>4 DEF TransferDone
    <3>. QED
      BY <3>5, <3>6, <3>7, <3>8
  <2>. QED
    BY <2>1, <2>2
<1>. QED
  BY <1>1, <1>2, <1>3, <1>4, <1>5, <1>6, <1>7 DEF Next, Worker, Poll, Writer

(* The names recorded after one more.                                      *)
LEMMA RecordedRange ==
    ASSUME order \in Seq(Segments), Len(order) <= Cap, NEW n \in Segments, n \notin Uploaded
    PROVE  \A k : k \in Range(RecordUploaded(n)) <=>
                    \/ k = n
                    \/ \E i \in 1..Len(order) : k = order[i] /\ i > Dropped
<1> DEFINE r == RecordUploaded(n)
           m == Len(order) - Dropped
<1>1. /\ r \in Seq(Segments)
      /\ Len(r) = m + 1
      /\ \A i \in 1..m : r[i] = order[i + Dropped]
      /\ r[m + 1] = n
  BY RecordedFacts
<1>2. Len(order) \in Nat /\ Dropped \in {0, 1} /\ m \in Nat
  BY LenProperties DEF Dropped
<1>3. \A k : k \in Range(r) <=> \E i \in 1..(m + 1) : r[i] = k
  BY <1>1, UploadedFacts
<1> HIDE DEF r
<1>4. ASSUME NEW k, NEW i \in 1..(m + 1), r[i] = k
      PROVE  k = n \/ \E j \in 1..Len(order) : k = order[j] /\ j > Dropped
  <2>1. CASE i = m + 1
    BY <1>1, <1>4, <2>1
  <2>2. CASE i # m + 1
    <3>1. i \in 1..m /\ i + Dropped \in 1..Len(order) /\ i + Dropped > Dropped
      BY <1>2, <2>2
    <3>. QED
      BY <1>1, <1>4, <3>1
  <2>. QED
    BY <2>1, <2>2
<1>5. ASSUME NEW j \in 1..Len(order), j > Dropped
      PROVE  \E i \in 1..(m + 1) : r[i] = order[j]
  <2>1. j - Dropped \in 1..m /\ (j - Dropped) + Dropped = j /\ j - Dropped \in 1..(m + 1)
    BY <1>2, <1>5
  <2>. QED
    BY <1>1, <2>1
<1>6. m + 1 \in 1..(m + 1)
  BY <1>2
<1>. QED
  BY <1>1, <1>3, <1>4, <1>5, <1>6 DEF r

(* What a session has stored stays, as an object of this session.          *)
LEMMA StoredStays ==
    VarsOK /\ RemoteOK /\ [Next]_vars =>
        \A n \in Segments : Stored(n, session) /\ session' = session => Stored(n, session)'
<1> SUFFICES ASSUME VarsOK, RemoteOK, [Next]_vars, NEW n \in Segments, Stored(n, session),
                    session' = session
             PROVE  Stored(n, session)'
  OBVIOUS
<1> USE DEF Stored
<1>1. CASE Put
  <2>1. \/ remote' = remote
        \/ remote' = [remote EXCEPT ![item] = [session |-> session, size |-> seen]]
    BY <1>1 DEF Put
  <2>2. DOMAIN remote = Segments /\ remote[n].session = session
    BY DEF RemoteOK
  <2>3. remote'[n].session = session
    BY <2>1, <2>2
  <2>. QED
    BY <2>3
<1>2. CASE UNCHANGED remote
  BY <1>2
<1>3. Put \/ UNCHANGED remote
  BY DEF Next, Worker, Poll, Writer, Grow, Rotate, StartSession, StopEncoder, EndSession,
     ListDirectory, PickSegment, PickPlaylist, SampleSize, ConfirmSize, CheckPlaylist,
     OpenFile, TransferDone, TransferUnanswered, TransferFailed, Goto, Finished, vars, bucket
<1>. QED
  BY <1>1, <1>2, <1>3

(* Only a recorded segment changes the memory within a session.            *)
LEMMA OrderStays ==
    [Next]_vars => \/ UNCHANGED order
                   \/ StartSession
                   \/ TransferDone /\ item # Playlist
BY DEF Next, Worker, Poll, Writer, Grow, Rotate, StopEncoder, EndSession, ListDirectory,
   PickSegment, PickPlaylist, SampleSize, ConfirmSize, CheckPlaylist, OpenFile, TransferDone,
   TransferUnanswered, TransferFailed, Goto, Finished, vars, memory

(* Sessions only change when one starts; a session's segments only grow.   *)
LEMMA SessionStays == [Next]_vars => StartSession \/ session' = session
BY DEF Next, Worker, Poll, Writer, Grow, Rotate, StopEncoder, EndSession, ListDirectory,
   PickSegment, PickPlaylist, SampleSize, ConfirmSize, CheckPlaylist, OpenFile, TransferDone,
   TransferUnanswered, TransferFailed, Goto, Finished, vars, disk

(* A name is recorded once its object has been stored.                     *)
LEMMA RecordedStep ==
    VarsOK /\ ItemOK /\ OrderOK /\ RemoteOK /\ RecordedIsStored /\ [Next]_vars
        => RecordedIsStored'
<1> SUFFICES ASSUME VarsOK, ItemOK, OrderOK, RemoteOK, RecordedIsStored, [Next]_vars
             PROVE  RecordedIsStored'
  OBVIOUS
<1>1. CASE StartSession
  <2>1. order' = <<>> /\ Len(order') = 0 /\ order' \in Seq(Segments)
    BY <1>1, EmptySeq DEF StartSession, ResetSession
  <2>2. \A k : k \in Range(order') => \E i \in 1..Len(order') : order'[i] = k
    BY <2>1, UploadedFacts
  <2>3. \A k : k \notin Range(order')
    BY <2>1, <2>2
  <2>. QED
    BY <2>3 DEF RecordedIsStored, Uploaded
<1>2. CASE session' = session /\ UNCHANGED order
  <2>1. Uploaded \subseteq Segments
    BY UploadedFacts, ElementOfSeq DEF VarsOK, Uploaded
  <2>. QED
    BY <1>2, <2>1, StoredStays, SameMemory DEF RecordedIsStored, Stored
<1>3. CASE session' = session /\ TransferDone /\ item # Playlist
  <2>1. item \in Segments /\ item \notin Uploaded
    BY <1>3 DEF TransferDone, VarsOK, ItemOK, InHand
  <2>2. \A k \in Uploaded' : k = item \/ (k \in Uploaded /\ k \in Segments)
    <3>1. order' = RecordUploaded(item)
      BY <1>3 DEF TransferDone
    <3>. QED
      BY <2>1, <3>1, RecordedRange, UploadedFacts, ElementOfSeq DEF VarsOK, OrderOK, Uploaded
  <2>3. remote'[item].session = session'
    <3>1. remote' = [remote EXCEPT ![item] = [session |-> session, size |-> seen]]
      BY <1>3 DEF TransferDone, Put
    <3>. QED
      BY <1>3, <2>1, <3>1 DEF RemoteOK
  <2>. QED
    <3>1. \A k \in Uploaded' : Stored(k, session)'
      BY <1>3, <2>2, <2>3, StoredStays DEF RecordedIsStored, Stored
    <3>. QED
      BY <3>1 DEF RecordedIsStored
<1>. QED
  BY <1>1, <1>2, <1>3, OrderStays, SessionStays

LEMMA CurGrows == [Next]_vars => StartSession \/ cur' = cur + 1 \/ cur' = cur
BY DEF Next, Worker, Poll, Writer, Grow, Rotate, StopEncoder, EndSession, ListDirectory,
   PickSegment, PickPlaylist, SampleSize, ConfirmSize, CheckPlaylist, OpenFile, TransferDone,
   TransferUnanswered, TransferFailed, Goto, Finished, vars, disk

(* Only a PUT of a segment changes the objects of segments.                *)
LEMMA RemoteStays ==
    [Next]_vars =>
        \/ UNCHANGED remote
        \/ /\ pc = "transfer" /\ item # Playlist /\ session' = session /\ cur' = cur
           /\ remote' = [remote EXCEPT ![item] = [session |-> session, size |-> seen]]
<1> SUFFICES ASSUME [Next]_vars
             PROVE  UNCHANGED remote \/ TransferDone \/ TransferUnanswered
  BY DEF TransferDone, TransferUnanswered, Put, disk
<1>. QED
  BY DEF Next, Worker, Poll, Writer, Grow, Rotate, StartSession, StopEncoder, EndSession,
     ListDirectory, PickSegment, PickPlaylist, SampleSize, ConfirmSize, CheckPlaylist,
     OpenFile, TransferFailed, Goto, Finished, vars, bucket

LEMMA RemoteStep ==
    VarsOK /\ SessionOK /\ SeenOK /\ ItemOK /\ RemoteOK /\ [Next]_vars => RemoteOK'
<1> SUFFICES ASSUME VarsOK, SessionOK, SeenOK, ItemOK, RemoteOK, [Next]_vars PROVE RemoteOK'
  OBVIOUS
<1>1. CASE StartSession
  <2>1. session' = session + 1 /\ session' <= MaxSessions /\ remote' = remote
    BY <1>1 DEF StartSession, bucket, VarsOK
  <2>2. \A n \in Segments : remote[n].session \in Int /\ remote[n].session <= session
    BY DEF RemoteOK
  <2>. QED
    BY <2>1, <2>2 DEF RemoteOK, Stored, VarsOK
<1>2. CASE session' = session /\ UNCHANGED remote
  <2>1. cur <= cur' /\ cur \in Nat /\ cur' \in Nat
    BY <1>2, CurGrows DEF VarsOK, StartSession, Segments
  <2>. QED
    BY <1>2, <2>1 DEF RemoteOK, Stored, VarsOK
<1>3. CASE pc = "transfer" /\ item # Playlist /\ session' = session /\ cur' = cur
           /\ remote' = [remote EXCEPT ![item] = [session |-> session, size |-> seen]]
  <2>1. item \in Segments /\ item <= cur /\ seen \in 0..Full
    BY <1>3 DEF VarsOK, ItemOK, InHand, SeenOK
  <2>. QED
    BY <1>3, <2>1 DEF RemoteOK, Stored, VarsOK
<1>. QED
  BY <1>1, <1>2, <1>3, RemoteStays, SessionStays

(* What a PUT of the playlist leaves in the bucket.                        *)
LEMMA EntriesFacts ==
    ASSUME VarsOK, seen <= Len(Listed)
    PROVE  /\ SubSeq(Listed, 1, seen) \in Seq(Segments)
           /\ Len(SubSeq(Listed, 1, seen)) = seen
           /\ \A i \in 1..seen : SubSeq(Listed, 1, seen)[i] = Oldest(cur) + i - 1
           /\ seen = Len(Listed) => SubSeq(Listed, 1, seen) = Listed
<1>1. /\ Listed \in Seq(Segments) /\ Len(Listed) = cur - Oldest(cur)
      /\ \A i \in 1..(cur - Oldest(cur)) : Listed[i] = Oldest(cur) + i - 1
  BY ListedFacts DEF Listed, ListOf, VarsOK
<1>2. seen \in Nat /\ Len(Listed) \in Nat
  BY <1>1, LenProperties DEF VarsOK
<1>3. \A i \in 1..seen : i \in 1..(cur - Oldest(cur)) /\ Listed[i] \in Segments
  BY <1>1, <1>2, ElementOfSeq
<1>4. /\ SubSeq(Listed, 1, seen) \in Seq(Segments)
      /\ Len(SubSeq(Listed, 1, seen)) = IF 1 <= seen THEN seen - 1 + 1 ELSE 0
      /\ \A i \in 1..(seen - 1 + 1) : SubSeq(Listed, 1, seen)[i] = Listed[1 + i - 1]
  <2>1. 1 \in Int /\ seen \in Int /\ \A i \in 1..seen : Listed[i] \in Segments
    BY <1>2, <1>3
  <2>. HIDE DEF Listed
  <2>. QED
    BY <2>1, SubSeqProperties
<1>5. seen = Len(Listed) => SubSeq(Listed, 1, seen) = Listed
  BY <1>1, SubSeqFull
<1>6. /\ (IF 1 <= seen THEN seen - 1 + 1 ELSE 0) = seen /\ seen - 1 + 1 = seen
      /\ \A i \in 1..seen : 1 + i - 1 = i
  BY <1>2
<1>. QED
  BY <1>1, <1>3, <1>4, <1>5, <1>6

(* Only a PUT of the playlist changes the playlist object.                 *)
LEMMA RemotePlaylistStays ==
    [Next]_vars =>
        \/ UNCHANGED remotePlaylist
        \/ /\ TransferDone \/ TransferUnanswered
           /\ pc = "transfer" /\ item = Playlist /\ session' = session /\ cur' = cur
           /\ UNCHANGED remote
           /\ remotePlaylist' = [session |-> session, entries |-> SubSeq(Listed, 1, seen)]
<1> SUFFICES ASSUME [Next]_vars
             PROVE  UNCHANGED remotePlaylist \/ TransferDone \/ TransferUnanswered
  BY DEF TransferDone, TransferUnanswered, Put, disk
<1>. QED
  BY DEF Next, Worker, Poll, Writer, Grow, Rotate, StartSession, StopEncoder, EndSession,
     ListDirectory, PickSegment, PickPlaylist, SampleSize, ConfirmSize, CheckPlaylist,
     OpenFile, TransferFailed, Goto, Finished, vars, bucket

LEMMA RemotePlaylistStep ==
    VarsOK /\ SeenOK /\ RemotePlaylistOK /\ [Next]_vars => RemotePlaylistOK'
<1> SUFFICES ASSUME VarsOK, SeenOK, RemotePlaylistOK, [Next]_vars PROVE RemotePlaylistOK'
  OBVIOUS
<1>1. CASE UNCHANGED remotePlaylist
  BY <1>1 DEF RemotePlaylistOK
<1>2. CASE /\ item = Playlist
           /\ remotePlaylist' = [session |-> session, entries |-> SubSeq(Listed, 1, seen)]
  <2>1. SubSeq(Listed, 1, seen) \in Seq(Segments)
    BY <1>2, EntriesFacts DEF SeenOK
  <2>. QED
    BY <1>2, <2>1 DEF RemotePlaylistOK, VarsOK
<1>. QED
  BY <1>1, <1>2, RemotePlaylistStays

-----------------------------------------------------------------------------
(* The playlist on its way.                                                *)

(* All that is listed is stored, nothing beyond the open segment is.       *)
LEMMA CheckedIsWhole ==
    ASSUME VarsOK, SessionOK, RemoteOK, RecordedIsStored, pc # "idle", AllListedUploaded
    PROVE  NoHole /\ \A n \in ListedOf(cur) : Stored(n, session)
<1>1. Range(Listed) = ListedOf(cur)
  BY ListedFacts DEF VarsOK, Listed, ListOf
<1>2. \A n \in ListedOf(cur) : Stored(n, session)
  BY <1>1 DEF AllListedUploaded, RecordedIsStored
<1>3. ASSUME NEW i \in Segments, NEW j \in Segments, cur - PlaylistLength <= i, i < j,
             Stored(j, session)
      PROVE  Stored(i, session)
  <2>1. j <= cur
    BY <1>3 DEF RemoteOK, SessionOK
  <2>2. i \in ListedOf(cur)
    BY <1>3, <2>1 DEF ListedOf, VarsOK, Segments
  <2>. QED
    BY <1>2, <2>2
<1>. QED
  BY <1>2, <1>3 DEF NoHole

(* How a playlist comes to be opened and sent, and what can happen to it.  *)
LEMMA PublishingStep ==
    [Next]_vars /\ Publishing' =>
        /\ item = Playlist
        /\ UNCHANGED <<session, remote, mtime>>
        /\ \/ pc = "check" /\ pc' = "open" /\ AllListedUploaded /\ cur' = cur
           \/ pc = "open" /\ pc' = "transfer" /\ seen' = SizeOf(item) /\ cur' = cur
           \/ pc' = pc /\ seen' = seen /\ cur' = cur
           \/ pc' = pc /\ seen' = seen /\ Rotate
<1> SUFFICES ASSUME [Next]_vars, item' = Playlist, pc' \in {"open", "transfer"}
             PROVE  /\ item = Playlist
                    /\ UNCHANGED <<session, remote, mtime>>
                    /\ \/ pc = "check" /\ pc' = "open" /\ AllListedUploaded /\ cur' = cur
                       \/ pc = "open" /\ pc' = "transfer" /\ seen' = SizeOf(item) /\ cur' = cur
                       \/ pc' = pc /\ seen' = seen /\ cur' = cur
                       \/ pc' = pc /\ seen' = seen /\ Rotate
  BY DEF Publishing
<1>1. CASE Grow \/ Rotate \/ UNCHANGED vars
  BY <1>1 DEF Grow, Rotate, vars, disk, hand, bucket
<1>2. CASE StartSession \/ EndSession
  BY <1>2 DEF StartSession, EndSession
<1>7. CASE StopEncoder \/ Finished
  <2>1. pc' \in {"poll", "idle"}
    BY <1>7 DEF StopEncoder, Finished, vars
  <2>. QED
    BY <2>1
<1>3. CASE ListDirectory \/ PickSegment \/ PickPlaylist \/ SampleSize
  BY <1>3 DEF ListDirectory, PickSegment, PickPlaylist, SampleSize, Goto, AfterFile
<1>4. CASE ConfirmSize \/ CheckPlaylist
  BY <1>4 DEF ConfirmSize, CheckPlaylist, Goto, AfterFile, DropFile, hand, disk, bucket
<1>5. CASE OpenFile
  BY <1>5 DEF OpenFile, Goto, AfterFile, disk, bucket
<1>6. CASE TransferDone \/ TransferUnanswered \/ TransferFailed
  BY <1>6 DEF TransferDone, TransferUnanswered, TransferFailed, Goto, AfterFile, DropFile,
     Put, hand, disk
<1>. QED
  BY <1>1, <1>2, <1>3, <1>4, <1>5, <1>6, <1>7 DEF Next, Worker, Poll, Writer

(* A rotation makes the playlist in hand an old one, by its mtime, but does *)
(* not make a hole.                                                        *)
LEMMA PlaylistStep ==
    /\ VarsOK /\ SessionOK /\ RemoteOK /\ RecordedIsStored /\ PlaylistOK
    /\ [Next]_vars
    => PlaylistOK'
<1> SUFFICES ASSUME VarsOK, SessionOK, RemoteOK, RecordedIsStored, PlaylistOK,
                    [Next]_vars, Publishing'
             PROVE  PlaylistOK'
  BY DEF PlaylistOK
<1>1. item = Playlist /\ UNCHANGED <<session, remote, mtime>>
  BY PublishingStep
<1>2. cur \in Nat /\ mtime \in 0..cur
  BY DEF VarsOK, Segments
<1>3. CASE pc = "check" /\ pc' = "open" /\ AllListedUploaded /\ cur' = cur
  <2>1. NoHole /\ \A n \in ListedOf(cur) : Stored(n, session)
    BY <1>3, CheckedIsWhole
  <2>. QED
    BY <1>1, <1>3, <2>1 DEF PlaylistOK, NoHole, Stored
<1>4. CASE pc = "open" /\ pc' = "transfer" /\ seen' = SizeOf(item) /\ cur' = cur
  <2>1. seen' = Len(Listed') /\ Publishing
    BY <1>1, <1>4, SizeFacts, SameDirectory DEF VarsOK, Publishing
  <2>. QED
    BY <1>1, <1>4, <2>1 DEF PlaylistOK, NoHole, Stored
<1>5. CASE pc' = pc /\ seen' = seen /\ cur' = cur
  <2>1. Publishing
    BY <1>1, <1>5 DEF Publishing
  <2>. QED
    BY <1>1, <1>5, <2>1, SameDirectory DEF PlaylistOK, NoHole, Stored
<1>6. CASE pc' = pc /\ Rotate
  <2>1. Publishing
    BY <1>1, <1>6 DEF Publishing
  <2>2. cur' = cur + 1 /\ mtime' # cur'
    BY <1>1, <1>2, <1>6 DEF Rotate
  <2>3. NoHole'
    BY <1>1, <1>2, <2>1, <2>2 DEF PlaylistOK, NoHole, Stored, Segments
  <2>. QED
    BY <2>2, <2>3 DEF PlaylistOK
<1>. QED
  BY <1>3, <1>4, <1>5, <1>6, PublishingStep


(* Only a PUT of the playlist changes what PublishedOK speaks of.          *)
LEMMA PublishedStays ==
    [Next]_vars =>
        \/ StartSession
        \/ UNCHANGED <<session, reliable, lastWrite, remotePlaylist>>
        \/ reliable' = reliable /\ ~reliable
        \/ TransferDone /\ item = Playlist /\ UNCHANGED <<session, reliable, cur>>
<1> SUFFICES ASSUME [Next]_vars
             PROVE  \/ StartSession
                    \/ UNCHANGED <<session, reliable, lastWrite, remotePlaylist>>
                    \/ TransferUnanswered
                    \/ TransferDone /\ item = Playlist
  BY DEF TransferUnanswered, TransferDone, disk
<1>. QED
  BY DEF Next, Worker, Poll, Writer, Grow, Rotate, StopEncoder, EndSession, ListDirectory,
     PickSegment, PickPlaylist, SampleSize, ConfirmSize, CheckPlaylist, OpenFile,
     TransferDone, Put, TransferFailed, Goto, Finished, vars, disk, memory, bucket

(* What was published last stays the last playlist until the next rotation. *)
LEMMA PublishedStep ==
    /\ VarsOK /\ SeenOK /\ RemoteOK /\ PlaylistOK /\ PublishedOK
    /\ [Next]_vars
    => PublishedOK'
<1> SUFFICES ASSUME VarsOK, SeenOK, RemoteOK, PlaylistOK, PublishedOK, [Next]_vars,
                    reliable', lastWrite' = cur', cur' > 0
             PROVE  /\ remotePlaylist' = [session |-> session', entries |-> Listed']
                    /\ \A n \in ListedOf(cur') : Stored(n, session)'
  BY DEF PublishedOK, ListedOf, Stored
<1>0. cur \in Nat /\ lastWrite \in 0..cur /\ ListedOf(cur) \subseteq Segments
  BY DEF VarsOK, Segments, ListedOf
<1>1. ~StartSession
  BY <1>0 DEF StartSession
<1>2. CASE UNCHANGED <<session, reliable, lastWrite, remotePlaylist>>
  <2>1. cur' = cur
    BY <1>0, <1>1, <1>2, CurGrows
  <2>2. reliable /\ lastWrite = cur /\ cur > 0
    BY <1>2, <2>1
  <2>. QED
    BY <1>0, <1>2, <2>1, <2>2, SameDirectory, StoredStays DEF PublishedOK
<1>3. CASE TransferDone /\ item = Playlist /\ UNCHANGED <<session, reliable, cur>>
  <2>1. pc = "transfer" /\ Publishing /\ lastWrite' = mtime
    BY <1>3 DEF TransferDone, Publishing, PlaylistWrite
  <2>2. mtime = cur /\ seen = Len(Listed) /\ \A n \in ListedOf(cur) : Stored(n, session)
    BY <1>3, <2>1 DEF PlaylistOK
  <2>3. remotePlaylist' = [session |-> session, entries |-> SubSeq(Listed, 1, seen)]
    BY <1>3 DEF TransferDone, Put
  <2>4. SubSeq(Listed, 1, seen) = Listed
    BY <1>3, <2>2, EntriesFacts DEF SeenOK
  <2>. QED
    BY <1>0, <1>3, <2>2, <2>3, <2>4, SameDirectory, StoredStays
<1>. QED
  BY <1>1, <1>2, <1>3, PublishedStays

-----------------------------------------------------------------------------
(* Making room.                                                            *)

(* The names recorded after the oldest one are distinct and near it.  When *)
(* the memory is full they are too many for the oldest name to be that of  *)
(* a segment still in the directory.                                       *)
LEMMA OldestIsDeleted ==
    ASSUME VarsOK, ItemOK, OrderOK, Len(order) = Cap,
           pc = "transfer", item # Playlist
    PROVE  order[1] \notin OnDisk
<1> SUFFICES ASSUME order[1] \in OnDisk PROVE FALSE
  OBVIOUS
<1> DEFINE k == order[1]
           f == [j \in 1..Cap |-> IF j = 1 THEN item ELSE order[j]]
           T == (k - MaxFiles + 1)..(k + MaxFiles - 1)
<1>1. /\ cur \in Nat /\ Cap \in Nat /\ 1 \in 1..Cap /\ MaxFiles \in Nat
      /\ k \in Nat /\ k <= cur /\ cur - MaxFiles < k
      /\ \A j \in 1..Cap : order[j] \in Nat
  BY ElementOfSeq DEF VarsOK, OnDisk, Segments
<1>2. /\ item \in Nat /\ item <= cur /\ Near(item, k)
      /\ \A j \in 1..Cap : order[j] # item
  <2>1. item <= cur /\ item \notin Uploaded /\ \A i \in 1..Cap : Near(item, order[i])
    BY DEF ItemOK, OrderOK, InHand
  <2>2. item \in Nat
    BY DEF VarsOK, Segments
  <2>3. \A j \in 1..Cap : order[j] \in Uploaded
    BY UploadedFacts DEF VarsOK, Uploaded
  <2>. QED
    BY <1>1, <2>1, <2>2, <2>3
<1>3. \A j \in 1..Cap : j # 1 => order[j] <= cur /\ order[j] # k /\ Near(order[j], k)
  BY <1>1 DEF OrderOK
<1>4. \A j \in 1..Cap : f[j] \in T \ {k}
  <2>1. \A x \in Nat : x <= cur /\ x # k /\ Near(x, k) => x \in T \ {k}
    BY <1>1 DEF Near
  <2>. HIDE DEF T
  <2>. QED
    BY <1>1, <1>2, <1>3, <2>1
<1>5. \A i, j \in 1..Cap : i # j => f[i] # f[j]
  BY <1>1, <1>2 DEF OrderOK
<1>6. IsFiniteSet(T \ {k}) /\ Cardinality(T \ {k}) < Cap
  <2>1. /\ IsFiniteSet(T)
        /\ Cardinality(T) = IF k - MaxFiles + 1 > k + MaxFiles - 1 THEN 0
                            ELSE (k + MaxFiles - 1) - (k - MaxFiles + 1) + 1
    <3>1. k - MaxFiles + 1 \in Int /\ k + MaxFiles - 1 \in Int
      BY <1>1
    <3>. HIDE DEF k
    <3>. QED
      BY <3>1, FS_Interval
  <2>2. k \in T /\ MaxFiles > 0
    BY <1>1
  <2>3. /\ IsFiniteSet(T \ {k})
        /\ Cardinality(T \ {k}) = IF k \in T THEN Cardinality(T) - 1 ELSE Cardinality(T)
    <3>. HIDE DEF T, k
    <3>. QED
      BY <2>1, FS_RemoveElement
  <2>. HIDE DEF T
  <2>. QED
    BY <1>1, <2>1, <2>2, <2>3, MemoryAssumption
<1>7. IsFiniteSet(1..Cap) /\ Cardinality(1..Cap) = Cap
  BY <1>1, FS_Interval
<1>8. f \in [1..Cap -> T \ {k}]
  BY <1>4
<1>. HIDE DEF f, T, k
<1>9. \E i, j \in 1..Cap : i # j /\ f[i] = f[j]
  BY <1>6, <1>7, <1>8, FS_PigeonHole
<1>. QED
  BY <1>5, <1>9

(* So no segment of the directory is forgotten.                            *)
LEMMA ForgottenIsDeleted ==
    ASSUME VarsOK, ItemOK, OrderOK, TransferDone, item # Playlist
    PROVE  \A k \in Uploaded : k \in Uploaded' \/ k \notin OnDisk
<1>1. /\ pc = "transfer" /\ order' = RecordUploaded(item) /\ order \in Seq(Segments)
      /\ item \in Segments /\ item \notin Uploaded /\ Len(order) <= Cap
  BY DEF TransferDone, VarsOK, ItemOK, OrderOK, InHand
<1>2. SUFFICES ASSUME NEW i \in 1..Len(order)
               PROVE  order[i] \in Uploaded' \/ order[i] \notin OnDisk
  BY <1>1, UploadedFacts DEF Uploaded
<1>3. i > Dropped => order[i] \in Uploaded'
  BY <1>1, RecordedRange DEF Uploaded
<1>4. ~(i > Dropped) => i = 1 /\ Len(order) = Cap
  BY <1>1, LenProperties DEF Dropped
<1>. QED
  BY <1>1, <1>3, <1>4, OldestIsDeleted

-----------------------------------------------------------------------------
(* The drain.                                                              *)

(* While draining, the directory stands still and transfers answer.        *)
LEMMA DrainFrame ==
    ASSUME FlagsOK, SessionOK, [Next]_vars, Draining'
    PROVE  /\ ~encoding /\ reliable /\ UNCHANGED <<cur, size>>
           /\ \/ EndSession \/ Finished \/ UNCHANGED vars
              \/ ListDirectory \/ PickSegment \/ PickPlaylist \/ SampleSize
              \/ ConfirmSize \/ CheckPlaylist \/ OpenFile \/ TransferDone \/ TransferFailed
<1>1. ~encoding' /\ drained' # 0 /\ reliable'
  BY DEF Draining
<1>2. CASE StartSession \/ StopEncoder \/ Grow \/ Rotate \/ TransferUnanswered
  BY <1>1, <1>2, Zenon
     DEF StartSession, StopEncoder, Grow, Rotate, TransferUnanswered, SessionOK
<1> DEFINE Others == \/ EndSession \/ Finished \/ UNCHANGED vars
                     \/ ListDirectory \/ PickSegment \/ PickPlaylist \/ SampleSize
                     \/ ConfirmSize \/ CheckPlaylist \/ OpenFile \/ TransferDone
                     \/ TransferFailed
<1>3. CASE Others
  <2>1. UNCHANGED <<disk, reliable>>
    BY <1>3 DEF EndSession, Finished, vars, ListDirectory, PickSegment, PickPlaylist,
       SampleSize, ConfirmSize, CheckPlaylist, OpenFile, TransferDone, TransferFailed, Goto
  <2>2. ~encoding /\ reliable /\ UNCHANGED <<cur, size>>
    BY <1>1, <2>1, Zenon DEF disk
  <2>. QED
    BY <1>3, <2>2
<1>. QED
  BY <1>2, <1>3 DEF Next, Worker, Poll, Writer

(* The file in hand exists, and is empty only if it is the open segment.   *)
LEMMA DrainHand ==
    ASSUME VarsOK, ItemOK, DrainOK, Draining, InHand
    PROVE  /\ Exists(item)
           /\ item \in Closed \union {Playlist} => NonEmpty
<1>1. CASE item = Playlist
  <2>1. cur \in Segments /\ cur > 0
    BY <1>1 DEF VarsOK, ItemOK
  <2>2. Len(Listed) = cur - Oldest(cur) /\ cur - Oldest(cur) > 0
    BY <2>1, ListedFacts DEF Listed, ListOf, Oldest, Segments
  <2>. QED
    BY <1>1, <2>1, <2>2 DEF Exists, SizeOf, NonEmpty
<1>2. CASE item # Playlist
  <2>1. item \in OnDisk
    BY <1>2 DEF DrainOK
  <2>. QED
    BY <1>2, <2>1 DEF Exists, SizeOf, NonEmpty, Closed, VarsOK, Segments, OnDisk
<1>. QED
  BY <1>1, <1>2

(* Step by step through a poll of the drain: nothing is passed over.       *)
LEMMA DrainStep ==
    /\ VarsOK /\ LabelsOK /\ FlagsOK /\ SessionOK /\ SeenOK /\ ItemOK /\ OrderOK
    /\ DrainOK /\ [Next]_vars
    => DrainOK'
<1> SUFFICES ASSUME VarsOK, LabelsOK, FlagsOK, SessionOK, SeenOK, ItemOK, OrderOK,
                    DrainOK, [Next]_vars, Draining'
             PROVE  DrainOK'
  BY DEF DrainOK
<1> USE DEF Polling, InHand
<1>a. ~encoding /\ reliable /\ UNCHANGED <<cur, size>>
  BY DrainFrame
<1>b. UNCHANGED <<OnDisk, Closed, Listed>>
  BY <1>a, SameDirectory DEF Closed
<1>c. item' = item => SizeOf(item)' = SizeOf(item)
  BY <1>a, <1>b DEF SizeOf
<1>1. CASE EndSession \/ Finished \/ UNCHANGED vars
  <2>1. Draining
    BY <1>1, <1>a DEF Draining, EndSession, Finished, vars
  <2>2. CASE EndSession
    BY <2>1, <2>2, <1>a DEF DrainOK, EndSession, memory
  <2>3. CASE Finished \/ UNCHANGED vars
    BY <2>1, <2>3, <1>a, <1>b, <1>c, SameMemory DEF DrainOK, Finished, vars, memory, hand
  <2>. QED
    BY <1>1, <2>2, <2>3
<1>2. CASE ListDirectory
  <2>1. pc' = "pick" /\ todo' = OnDisk
    BY <1>2 DEF ListDirectory, Goto
  <2>. QED
    BY <2>1, <1>b DEF DrainOK, Closed
<1>d. CASE ~ListDirectory /\ Polling
  <2>0. Draining
    BY <1>d, <1>a, DrainFrame DEF Draining, EndSession, Finished, vars, PickSegment,
       PickPlaylist, SampleSize, ConfirmSize, CheckPlaylist, OpenFile, TransferDone, TransferFailed
  <2>1. CASE PickSegment
    <3>1. pc = "pick" /\ pc' = "sample" /\ UNCHANGED <<order, mtime, seen>>
      BY <2>1 DEF PickSegment, Goto, memory
    <3>2. item' \in OnDisk /\ item' # Playlist
      BY <2>0, <2>1, <3>1, PickFacts DEF DrainOK, Segments, Playlist
    <3>3. \A n \in Closed : n \in Uploaded \/ n \in todo' \/ n = item'
      <4>1. \A n \in Closed : n \in Uploaded \/ n \in todo
        BY <2>0, <3>1 DEF DrainOK
      <4>2. \A n \in Closed : n \in Int
        BY DEF Closed, OnDisk, Segments
      <4>3. item' \in Int
        BY <2>1, PickFacts DEF Segments
      <4>. QED
        BY <2>1, <4>1, <4>2, <4>3, PickFacts
    <3>4. todo' \subseteq OnDisk
      BY <2>0, <2>1, <3>1, PickFacts DEF DrainOK
    <3>. QED
      BY <1>b, <3>1, <3>2, <3>3, <3>4, SameMemory DEF DrainOK
  <2>2. CASE PickPlaylist
    <3>1. pc = "pick" /\ item' = Playlist /\ UNCHANGED <<order, lastWrite, todo>>
      BY <2>2 DEF PickPlaylist, Goto, memory
    <3>2. Closed \subseteq Uploaded /\ todo \subseteq OnDisk
      BY <2>0, <2>2, <3>1 DEF DrainOK, PickPlaylist, Pending
    <3>3. CASE pc' = "sample" /\ mtime' = cur
      BY <1>a, <1>b, <3>1, <3>2, <3>3, SameMemory DEF DrainOK
    <3>4. CASE pc' = "poll" /\ ~(Exists(Playlist) /\ lastWrite # cur)
      BY <1>a, <3>1, <3>4 DEF DrainOK, Exists
    <3>. QED
      BY <2>2, <3>3, <3>4 DEF PickPlaylist, Goto
  <2>3. CASE SampleSize \/ OpenFile
    <3>1. pc \in {"sample", "open"} /\ UNCHANGED <<order, lastWrite, todo, item>>
      BY <2>3 DEF SampleSize, OpenFile, Goto, memory, DropFile
    <3>2. CASE pc' \in {"confirm", "transfer"} /\ mtime' = mtime /\ seen' = SizeOf(item)
      BY <1>a, <1>b, <1>c, <2>0, <3>1, <3>2, SameMemory DEF DrainOK
    <3>3. CASE pc' = AfterFile /\ ~NonEmpty
      <4>1. item # Playlist /\ item \notin Closed
        BY <2>0, <3>1, <3>3, DrainHand
      <4>2. pc' = "pick"
        BY <3>3, <4>1 DEF AfterFile
      <4>. QED
        BY <1>b, <2>0, <3>1, <4>1, <4>2, SameMemory DEF DrainOK
    <3>. QED
      BY <2>3, <3>2, <3>3 DEF SampleSize, OpenFile, Goto, AfterFile
  <2>4. CASE ConfirmSize
    <3>1. SizeStable
      BY <2>0, <2>4, DrainHand DEF DrainOK, SizeStable, ConfirmSize, Goto
    <3>2. /\ pc = "confirm" /\ pc' \in {"check", "open"}
          /\ UNCHANGED <<order, lastWrite, todo, item, mtime>>
      BY <2>4, <3>1 DEF ConfirmSize, Goto, memory, hand
    <3>. QED
      BY <1>a, <1>b, <2>0, <3>2, SameMemory DEF DrainOK
  <2>5. CASE CheckPlaylist
    <3>1. pc = "check" /\ item = Playlist /\ UNCHANGED <<order, lastWrite>>
      BY <2>5 DEF CheckPlaylist, ItemOK, Goto, memory
    <3>2. AllListedUploaded
      <4>1. Range(Listed) = ListedOf(cur)
        BY ListedFacts DEF VarsOK, Listed, ListOf
      <4>2. ListedOf(cur) \subseteq Closed
        BY DEF ListedOf, Closed, OnDisk, VarsOK, Segments
      <4>. QED
        BY <2>0, <3>1, <4>1, <4>2 DEF DrainOK, AllListedUploaded
    <3>3. pc' = "open" /\ UNCHANGED <<todo, item, mtime>>
      BY <2>5, <3>2 DEF CheckPlaylist, Goto, hand
    <3>. QED
      BY <1>a, <1>b, <2>0, <3>1, <3>3, SameMemory DEF DrainOK
  <2>6. CASE TransferDone
    <3>1. pc = "transfer" /\ pc' = AfterFile /\ UNCHANGED <<todo, item>>
      BY <2>6 DEF TransferDone, DropFile
    <3>2. CASE item = Playlist
      <4>1. pc' = "poll" /\ lastWrite' = cur
        BY <2>0, <2>6, <3>1, <3>2 DEF DrainOK, TransferDone, PlaylistWrite, AfterFile
      <4>. QED
        BY <4>1, <1>a DEF DrainOK
    <3>3. CASE item # Playlist
      <4>1. pc' = "pick"
        BY <3>1, <3>3 DEF AfterFile
      <4>2. \A n \in Closed : n \in Uploaded => n \in Uploaded'
        BY <2>6, <3>3, ForgottenIsDeleted DEF Closed
      <4>3. item \in Uploaded'
        <5>1. order' = RecordUploaded(item) /\ item \in Segments /\ item \notin Uploaded
          BY <2>6, <3>3 DEF TransferDone, VarsOK, ItemOK
        <5>. QED
          BY <5>1, RecordedRange DEF VarsOK, OrderOK, Uploaded
      <4>. QED
        BY <1>b, <2>0, <3>1, <4>1, <4>2, <4>3 DEF DrainOK
    <3>. QED
      BY <3>2, <3>3
  <2>7. CASE TransferFailed
    BY <1>a, <2>0, <2>7, DrainHand DEF TransferFailed, Goto
  <2>. QED
    BY <1>1, <1>d, <2>1, <2>2, <2>3, <2>4, <2>5, <2>6, <2>7, DrainFrame
<1>. QED
  BY <1>1, <1>2, <1>d, DrainFrame
     DEF PickSegment, PickPlaylist, SampleSize, ConfirmSize, CheckPlaylist, OpenFile,
     TransferDone, TransferFailed, Goto

-----------------------------------------------------------------------------
(* The invariant.                                                          *)

(* The invariant holds at first and is kept.                               *)
LEMMA InvInit == Init => IInv
<1> SUFFICES ASSUME Init PROVE IInv
  OBVIOUS
<1> USE DEF Init
<1>1. /\ order = <<>> /\ Len(order) = 0 /\ order \in Seq(Segments)
      /\ \A k : k \notin Uploaded
  <2>1. <<>> \in Seq(Segments) /\ Len(<<>>) = 0
    BY EmptySeq
  <2>2. \A k : k \in Range(<<>>) <=> \E i \in 1..Len(<<>>) : <<>>[i] = k
    BY <2>1, UploadedFacts
  <2>3. \A k : k \notin Range(<<>>)
    BY <2>1, <2>2
  <2>. QED
    BY <2>1, <2>3 DEF Uploaded
<1>2. VarsOK /\ LabelsOK
  BY <1>1 DEF VarsOK, LabelsOK, Labels, Segments
<1>3. FlagsOK
  BY Zenon DEF FlagsOK
<1>4. SessionOK /\ ItemOK /\ OrderOK
  BY <1>1 DEF SessionOK, ItemOK, OrderOK, Polling, InHand
<1>5. SeenOK
  BY <1>2, SizeFacts DEF SeenOK, VarsOK, InHand, Playlist
<1>6. RemoteOK /\ RecordedIsStored
  BY <1>1 DEF RemoteOK, RecordedIsStored, Absent, Segments
<1>7. RemotePlaylistOK
  BY EmptySeq DEF RemotePlaylistOK
<1>8. PlaylistOK /\ PublishedOK /\ DrainOK
  BY DEF PlaylistOK, Publishing, PublishedOK, DrainOK, Draining
<1>. QED
  BY <1>2, <1>3, <1>4, <1>5, <1>6, <1>7, <1>8 DEF IInv

LEMMA InvStep == IInv /\ [Next]_vars => IInv'
BY FlagsStep, LabelsStep, SessionStep, VarsStep, SeenStep, ItemStep, OrderStep,
   RecordedStep, RemoteStep, RemotePlaylistStep, PlaylistStep, PublishedStep, DrainStep
   DEF IInv

(* Every reachable state of the uploader satisfies the invariant.          *)
THEOREM Invariance == Spec => []IInv
BY InvInit, InvStep, PTL DEF Spec

-----------------------------------------------------------------------------
(* What the runs check.                                                    *)

(* Every variable of the uploader, the directory and the bucket keeps its  *)
(* type; what is seen of the playlist is never more than its length.       *)
THEOREM TypeCorrect == Spec => []TypeOK
<1>1. IInv => TypeOK
  <2> SUFFICES ASSUME IInv PROVE TypeOK
    OBVIOUS
  <2>1. cur \in Nat /\ 0..cur \subseteq Segments
    BY DEF IInv, VarsOK, Segments
  <2>2. Len(Listed) <= PlaylistLength /\ Len(Listed) \in Nat
    BY <2>1, ListedFacts DEF IInv, VarsOK, Listed, ListOf, Oldest
  <2>3. seen \in 0..(Full + PlaylistLength)
    BY <2>2 DEF IInv, VarsOK, SeenOK
  <2>4. encoding \in BOOLEAN /\ reliable \in BOOLEAN
    BY DEF IInv, FlagsOK
  <2>5. pc \in Labels
    BY DEF IInv, LabelsOK
  <2>. QED
    BY <2>1, <2>3, <2>4, <2>5 DEF TypeOK, IInv, VarsOK, RemoteOK, RemotePlaylistOK
<1>. QED
  BY <1>1, Invariance, PTL

(* A name the uploader takes for uploaded is that of an object of this     *)
(* very session: isSegmentUploaded never answers for a stale one.          *)
THEOREM RecordedAreStored == Spec => []RecordedIsStored
<1>1. IInv => RecordedIsStored
  BY DEF IInv
<1>. QED
  BY <1>1, Invariance, PTL

(* When transfers succeed, the polls after the encoder stopped, however    *)
(* few but one, leave the last playlist and every segment it lists.        *)
THEOREM DrainIsComplete == Spec => []DrainCompletes
<1>1. IInv => DrainCompletes
  <2> SUFFICES ASSUME IInv, reliable, pc = "idle", cur > 0
               PROVE  /\ remotePlaylist = [session |-> session, entries |-> Listed]
                      /\ \A n \in Range(Listed) : Stored(n, session)
    BY DEF DrainCompletes
  <2>1. Range(Listed) = ListedOf(cur)
    BY ListedFacts DEF IInv, VarsOK, Listed, ListOf
  <2>2. Draining
    BY DEF IInv, SessionOK, Draining, VarsOK
  <2>3. lastWrite = cur
    BY <2>2 DEF IInv, DrainOK, Polling
  <2>. QED
    BY <2>1, <2>3 DEF IInv, PublishedOK
<1>. QED
  BY <1>1, Invariance, PTL

(* recordSegmentUploaded never forgets a segment still in the directory.   *)
THEOREM DirectoryIsRemembered == Spec => EvictionSparesDisk
<1>1. IInv /\ [Next]_vars =>
        [session' = session => Uploaded \ Uploaded' \subseteq Segments \ OnDisk']_vars
  <2> SUFFICES ASSUME IInv, [Next]_vars, session' = session
               PROVE  Uploaded \ Uploaded' \subseteq Segments \ OnDisk'
    OBVIOUS
  <2>1. Uploaded \subseteq Segments
    BY UploadedFacts, ElementOfSeq DEF IInv, VarsOK, Uploaded
  <2>2. ~StartSession
    BY DEF IInv, VarsOK, StartSession
  <2>3. CASE UNCHANGED order
    BY <2>3, SameMemory
  <2>4. CASE TransferDone /\ item # Playlist
    <3>1. OnDisk' = OnDisk
      BY <2>4, SameDirectory DEF TransferDone, disk
    <3>. QED
      BY <2>1, <2>4, <3>1, ForgottenIsDeleted DEF IInv
  <2>. QED
    BY <2>2, <2>3, <2>4, OrderStays
<1>. QED
  BY <1>1, Invariance, PTL DEF Spec, EvictionSparesDisk

(* A playlist is uploaded after the segments it lists: what a published    *)
(* one still lacks comes after everything it has.                          *)
THEOREM MissingAtTheEnd == Spec => OnlyEndMissing
<1>1. IInv /\ [Next]_vars =>
        [remotePlaylist' # remotePlaylist =>
           \A i, j \in DOMAIN remotePlaylist'.entries :
              i < j /\ Stored(remotePlaylist'.entries[j], session)
                  => Stored(remotePlaylist'.entries[i], session)]_vars
  <2> DEFINE sent == SubSeq(Listed, 1, seen)
  <2> SUFFICES ASSUME IInv, [Next]_vars, remotePlaylist' # remotePlaylist,
                      NEW i \in DOMAIN remotePlaylist'.entries,
                      NEW j \in DOMAIN remotePlaylist'.entries,
                      i < j, Stored(remotePlaylist'.entries[j], session)
               PROVE  Stored(remotePlaylist'.entries[i], session)
    OBVIOUS
  <2>1. /\ pc = "transfer" /\ item = Playlist
        /\ remotePlaylist' = [session |-> session, entries |-> sent]
    BY RemotePlaylistStays
  <2>2. /\ sent \in Seq(Segments) /\ Len(sent) = seen
        /\ \A k \in 1..seen : sent[k] = Oldest(cur) + k - 1
    BY <2>1, EntriesFacts DEF IInv, SeenOK
  <2>3. remotePlaylist'.entries = sent
    BY <2>1
  <2>. HIDE DEF sent
  <2>4. i \in 1..seen /\ j \in 1..seen
    BY <2>2, <2>3, LenProperties
  <2>5. /\ sent[i] \in Segments /\ sent[j] \in Segments
        /\ cur - PlaylistLength <= sent[i] /\ sent[i] < sent[j]
    <3>1. cur \in Nat /\ seen \in Nat
      BY DEF IInv, VarsOK, Segments
    <3>. QED
      BY <2>2, <2>4, <3>1, ElementOfSeq DEF Oldest
  <2>6. NoHole
    BY <2>1 DEF IInv, PlaylistOK, Publishing
  <2>. QED
    BY <2>3, <2>5, <2>6 DEF NoHole
<1>. QED
  BY <1>1, Invariance, PTL DEF Spec, OnlyEndMissing
=============================================================================
