----------------------------- MODULE HlsUploader -----------------------------
(***************************************************************************)
(* src/HlsUploader.cpp with src/HlsUploadPolicy.cpp: what pollAndUpload    *)
(* does with the directory hlssink writes to while it is being written,    *)
(* and what reaches the bucket.                                            *)
(*                                                                         *)
(* A segment is its number; every session numbers them from 0.  Its data   *)
(* is the session and how much of it there is: Full once hlssink closed    *)
(* it.  hlssink (external) has one segment open, keeps MaxFiles on disk    *)
(* and rewrites the playlist, the last PlaylistLength closed segments,     *)
(* with each segment it closes; so the number `cur` of the open segment    *)
(* stands for the directory, for the playlist and for its mtime.           *)
(*                                                                         *)
(* The uploader samples a size, waits, samples again: the writer moves in  *)
(* between.  The retry loop of a transfer is PresignedTransfer's subject;  *)
(* here an attempt stores or not, answers or not, and may be repeated.     *)
(***************************************************************************)
EXTENDS Integers, SequencesExt, FiniteSetsExt

CONSTANTS
    MaxFiles,           \* hlssink max-files, the open one included (8)
    PlaylistLength,     \* entries of a playlist (hlssink's default, 5)
    Cap,                \* kMaxUploadedSegmentNames (512)
    DrainPolls,         \* polls after the encoder stopped (8)
    Full,               \* size of a closed segment
    MaxSegments,        \* bound: segments of a first session, fewer in later ones
    MaxSessions         \* bound: sessions

ASSUME WriterAssumption ==
    /\ MaxFiles \in Nat /\ PlaylistLength \in Nat \ {0} /\ PlaylistLength < MaxFiles
    /\ Full \in Nat \ {0}
ASSUME UploaderAssumption == Cap \in Nat \ {0} /\ DrainPolls \in Nat \ {0}
(* With one name less, making room can reach a name still on disk: names   *)
(* are not always recorded in order.                                       *)
ASSUME MemoryAssumption == Cap >= 2 * MaxFiles - 1
ASSUME BoundAssumption == MaxSegments \in Nat /\ MaxSessions \in Nat

Segments == 0..MaxSegments
Playlist == -1           \* a file that is no segment
Absent   == [session |-> 0, size |-> 0]

VARIABLES
    session, encoding,          \* the session, and whether hlssink is writing
    cur, size,                  \* the open segment and its size
    pc,                         \* where the worker stands in pollAndUpload
    todo,                       \* segments of this poll's listing not yet seen
    item,                       \* the file in hand
    seen,                       \* its size, when sampled and when announced
    mtime,                      \* the playlist mtime read before its upload
    order,                      \* uploadedSegmentOrder_; its members are uploadedSegments_
    lastWrite,                  \* lastPlaylistWrite_, 0 for none
    drained,                    \* polls since the encoder stopped
    reliable,                   \* every transfer of the session succeeds at once
    remote, remotePlaylist      \* the bucket: segments, and the playlist object

disk   == <<session, encoding, cur, size>>
hand   == <<todo, item, seen, mtime>>
memory == <<order, lastWrite>>
bucket == <<remote, remotePlaylist>>
vars   == <<disk, pc, hand, memory, drained, reliable, bucket>>

Init ==
    /\ session = 0 /\ encoding = FALSE /\ cur = 0 /\ size = 0
    /\ pc = "idle"
    /\ todo = {} /\ item = Playlist /\ seen = 0 /\ mtime = 0
    /\ order = <<>> /\ lastWrite = 0
    /\ drained = 0 /\ reliable = TRUE
    /\ remote = [n \in Segments |-> Absent]
    /\ remotePlaylist = [session |-> 0, entries |-> <<>>]

-----------------------------------------------------------------------------
(* The directory.                                                          *)

OnDisk == {n \in Segments : cur - MaxFiles < n /\ n <= cur}

PlaylistFrom(first, last) == [i \in 1..(last - first + 1) |-> first + i - 1]
Listed == PlaylistFrom(Max({0, cur - PlaylistLength}), cur - 1)

Exists(f) == IF f = Playlist THEN cur > 0 ELSE f \in OnDisk
SizeOf(f) == IF f = Playlist THEN Len(Listed) ELSE IF f = cur THEN size ELSE Full

(* hlssink writes into the open segment.                                   *)
Grow ==
    /\ encoding /\ size < Full
    /\ size' = size + 1
    /\ UNCHANGED <<session, encoding, cur, pc, hand, memory, drained, reliable, bucket>>

(* hlssink closes the open segment, rewrites the playlist, opens the next  *)
(* one and deletes the oldest file beyond max-files.                       *)
Rotate ==
    /\ encoding /\ size = Full /\ cur < MaxSegments \div session
    /\ cur' = cur + 1
    /\ size' = 0
    /\ UNCHANGED <<session, encoding, pc, hand, memory, drained, reliable, bucket>>

-----------------------------------------------------------------------------
(* The session around the polls (streamHlsWorker).                         *)

(* Variant: a session that starts with the names of the one before.        *)
ResetSessionNot == UNCHANGED memory
ResetSession == order' = <<>> /\ lastWrite' = 0

(* The worker resets its uploader, empties the directory and starts the    *)
(* encoder.                                                                *)
StartSession ==
    /\ pc = "idle" /\ session < MaxSessions
    /\ pc' = "poll"
    /\ session' = session + 1
    /\ encoding' = TRUE
    /\ cur' = 0 /\ size' = 0
    /\ drained' = 0
    /\ reliable' \in BOOLEAN
    /\ ResetSession
    /\ UNCHANGED <<hand, bucket>>

(* Between two polls the worker leaves its loop: stopVideoMode ends the    *)
(* writer where it is, without closing the open segment.  Another thread   *)
(* may stop it earlier: it is then a writer that no longer moves.          *)
StopEncoder ==
    /\ pc = "poll" /\ encoding
    /\ encoding' = FALSE
    /\ UNCHANGED <<session, cur, size, pc, hand, memory, drained, reliable, bucket>>

EndSession ==
    /\ pc = "poll" /\ ~encoding /\ drained = DrainPolls
    /\ pc' = "idle"
    /\ UNCHANGED <<disk, hand, memory, drained, reliable, bucket>>

-----------------------------------------------------------------------------
(* pollAndUpload.                                                          *)

Uploaded == Range(order)

Goto(from, to) ==
    /\ pc = from
    /\ pc' = to
    /\ UNCHANGED <<disk, memory, reliable, bucket>>

(* The next file of the listing whose name is not recorded.                *)
Pending == {n \in todo : n \notin Uploaded}

(* What follows a file that was uploaded, or could not be.                 *)
AfterFile == IF item = Playlist THEN "poll" ELSE "pick"
DropFile == seen' = 0 /\ mtime' = 0 /\ UNCHANGED <<todo, item>>

(* Variant: one poll too many.                                             *)
PollDueInclusive == encoding \/ drained <= DrainPolls
PollDue == encoding \/ drained < DrainPolls

ListDirectory ==
    /\ PollDue
    /\ Goto("poll", "pick")
    /\ todo' = OnDisk
    /\ drained' = IF encoding THEN drained ELSE drained + 1
    /\ UNCHANGED <<item, seen, mtime>>

PickSegment ==
    /\ Pending # {}
    /\ Goto("pick", "sample")
    /\ item' = Min(Pending)
    /\ todo' = {n \in todo : n > item'}
    /\ UNCHANGED <<seen, mtime, drained>>

(* Segments done: is there a playlist newer than the one last uploaded?    *)
PickPlaylist ==
    /\ Pending = {}
    /\ IF Exists(Playlist) /\ lastWrite # cur
       THEN Goto("pick", "sample") /\ mtime' = cur
       ELSE Goto("pick", "poll") /\ mtime' = 0
    /\ item' = Playlist
    /\ UNCHANGED <<todo, seen, drained>>

(* fileSizeStable: sizes never shrink, so the last of the three samples    *)
(* equals the first exactly when the middle one does too.                  *)
NonEmpty == Exists(item) /\ SizeOf(item) > 0

SampleSize ==
    /\ \/ NonEmpty /\ Goto("sample", "confirm") /\ seen' = SizeOf(item)
          /\ UNCHANGED <<todo, item, mtime>>
       \/ ~NonEmpty /\ Goto("sample", AfterFile) /\ DropFile
    /\ UNCHANGED drained

SizeStable == Exists(item) /\ SizeOf(item) = seen

ConfirmSize ==
    /\ \/ /\ SizeStable
          /\ Goto("confirm", IF item = Playlist THEN "check" ELSE "open")
          /\ UNCHANGED hand
       \/ ~SizeStable /\ Goto("confirm", AfterFile) /\ DropFile
    /\ UNCHANGED drained

(* Variant: the playlist is uploaded whatever it lists.                    *)
AllListedUploadedNot == TRUE
AllListedUploaded == Range(Listed) \subseteq Uploaded

CheckPlaylist ==
    /\ \/ AllListedUploaded /\ Goto("check", "open") /\ UNCHANGED hand
       \/ ~AllListedUploaded /\ Goto("check", AfterFile) /\ DropFile
    /\ UNCHANGED drained

(* uploadLocalFileWithPresign takes the size once, before the attempts.    *)
OpenFile ==
    /\ \/ NonEmpty /\ Goto("open", "transfer") /\ seen' = SizeOf(item)
          /\ UNCHANGED <<todo, item, mtime>>
       \/ ~NonEmpty /\ Goto("open", AfterFile) /\ DropFile
    /\ UNCHANGED drained

(* An attempt reads the file as it is now, and sends that much of it.      *)
Put ==
    /\ Exists(item)
    /\ IF item = Playlist
       THEN /\ remotePlaylist' = [session |-> session, entries |-> SubSeq(Listed, 1, seen)]
            /\ UNCHANGED remote
       ELSE /\ remote' = [remote EXCEPT ![item] = [session |-> session, size |-> seen]]
            /\ UNCHANGED remotePlaylist

(* recordSegmentUploaded: the oldest names make room for a new one.        *)
(* Variant: the list is emptied when full.                                 *)
RecordUploadedFlush(n) == IF Len(order) < Cap THEN Append(order, n) ELSE <<n>>
RecordUploaded(n) ==
    IF n \in Uploaded THEN order
    ELSE Append(SubSeq(order, Len(order) - Min({Len(order), Cap - 1}) + 1, Len(order)), n)

(* Variant: the mtime is taken when the upload is over.                    *)
PlaylistWriteLate == cur
PlaylistWrite == mtime

TransferDone ==
    /\ pc = "transfer"
    /\ Put
    /\ pc' = AfterFile
    /\ DropFile
    /\ IF item = Playlist
       THEN lastWrite' = PlaylistWrite /\ UNCHANGED order
       ELSE order' = RecordUploaded(item) /\ UNCHANGED lastWrite
    /\ UNCHANGED <<disk, drained, reliable>>

(* The object was stored but the answer was lost: another attempt follows, *)
(* or this was the last one.                                               *)
TransferUnanswered ==
    /\ ~reliable
    /\ pc = "transfer"
    /\ Put
    /\ \/ UNCHANGED <<pc, hand>>
       \/ pc' = AfterFile /\ DropFile
    /\ UNCHANGED <<disk, memory, drained, reliable>>

(* Every attempt failed, or the file was deleted before it could be read.  *)
TransferFailed ==
    /\ ~reliable \/ ~Exists(item)
    /\ Goto("transfer", AfterFile)
    /\ DropFile
    /\ UNCHANGED drained

Poll == \/ ListDirectory \/ PickSegment \/ PickPlaylist \/ SampleSize \/ ConfirmSize
        \/ CheckPlaylist \/ OpenFile \/ TransferDone \/ TransferUnanswered \/ TransferFailed

Worker == StartSession \/ StopEncoder \/ EndSession \/ Poll
Writer == Grow \/ Rotate

(* No session is left to run.                                              *)
Finished == pc = "idle" /\ session = MaxSessions /\ UNCHANGED vars

Next == Worker \/ Writer \/ Finished

Spec == Init /\ [][Next]_vars

-----------------------------------------------------------------------------
(* Properties.                                                             *)

Labels == {"idle", "poll", "pick", "sample", "confirm", "check", "open", "transfer"}

TypeOK ==
    /\ session \in 0..MaxSessions
    /\ encoding \in BOOLEAN
    /\ cur \in Segments
    /\ size \in 0..Full
    /\ pc \in Labels
    /\ todo \subseteq Segments
    /\ item \in Segments \union {Playlist}
    /\ mtime \in Segments
    /\ seen \in 0..(Full + PlaylistLength)
    /\ order \in Seq(Segments)
    /\ lastWrite \in Segments
    /\ drained \in 0..DrainPolls
    /\ reliable \in BOOLEAN
    /\ remote \in [Segments -> [session : 0..MaxSessions, size : 0..Full]]
    /\ remotePlaylist.session \in 0..MaxSessions
    /\ remotePlaylist.entries \in Seq(Segments)

Stored(n, s) == remote[n].session = s

(* The uploader only remembers what this session stored: a name left over  *)
(* from an earlier session, whose object is stale, is never taken for one  *)
(* of its own, however sessions, lost answers and evictions follow.        *)
RecordedIsStored == \A n \in Uploaded : Stored(n, session)

(* Within a session, making room in the memory never forgets a segment     *)
(* still in the directory: it would be uploaded again with every poll, and *)
(* a playlist that lists it would be held back (CI_TESTING.md:94).         *)
EvictionSparesDisk ==
    [][session' = session => Uploaded \ Uploaded' \subseteq Segments \ OnDisk']_vars

(* A playlist can be rewritten between the check and the PUT, so one that  *)
(* is published may run ahead of the bucket.  What it lacks at that moment *)
(* is only its newest end: no segment older than a stored one is missing.  *)
OnlyEndMissing ==
    [][remotePlaylist' # remotePlaylist =>
         \A i, j \in DOMAIN remotePlaylist'.entries :
            i < j /\ Stored(remotePlaylist'.entries[j], session)
                => Stored(remotePlaylist'.entries[i], session)]_vars

(* When its transfers succeed, the polls a session makes after the encoder *)
(* stopped leave the bucket with the session's last playlist and every     *)
(* segment it lists.                                                       *)
DrainCompletes ==
    reliable /\ pc = "idle" /\ cur > 0 =>
        /\ remotePlaylist = [session |-> session, entries |-> Listed]
        /\ \A n \in Range(Listed) : Stored(n, session)

(* README.md:47: index.m3u8 is uploaded only after every segment file it   *)
(* lists, which "avoids a playlist that points at missing objects".        *)
PlaylistComplete ==
    \A n \in Range(remotePlaylist.entries) : Stored(n, remotePlaylist.session)
=============================================================================
