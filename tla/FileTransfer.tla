---------------------------- MODULE FileTransfer ----------------------------
(***************************************************************************)
(* Files sent over HTTP: the senders of transfer_engine/src/http.rs        *)
(* (upload_single_file, upload_directory, upload_parallel), a TCP          *)
(* connection per stream, and the three receivers of the repository, the   *)
(* dashboard's handle_receive_file(), the Android server's receive_file()  *)
(* and the library's stream_file_receive().  All uploads carry the same    *)
(* file name, so that they meet in one file.                               *)
(*                                                                         *)
(* Bytes are abstracted to blocks <<u, k>>: block k of the file of upload  *)
(* u.  A block is the unit of a chunk written by the sender and of a read  *)
(* by the receiver.                                                        *)
(***************************************************************************)
EXTENDS Integers, Sequences, FiniteSets

CONSTANTS
    Uploads,
    Parallel,       \* the uploads made by upload_parallel()
    Sizes,          \* the sizes, in blocks, the files of the uploads may have
    NumStreams,     \* connections of a parallel upload
    BufBlocks,      \* blocks that fill the Android receiver's 4 MB buffer
    MaxFaults,      \* bound on lost connections and crashes
    None, Hole, Junk

ASSUME TransferAssumption ==
    /\ Parallel \subseteq Uploads /\ Sizes \subseteq [Uploads -> Nat]
    /\ NumStreams \in Nat \ {0} /\ BufBlocks \in Nat \ {0} /\ MaxFaults \in Nat

VARIABLES
    server,     \* which of the receivers the uploads go to
    size,       \* size[u]: blocks of the file of upload u
    checksum,   \* stream_file_receive() was given the expected checksum
    token,      \* token[u]: options.cancel_token
    snd,        \* snd[st]: where the sender of stream st is
    off,        \* off[st]: the next block it sends
    path,       \* path[st]: the connection
    pipe,       \* pipe[st]: what is in flight, in order
    closed,     \* closed[st]: the sender's end is closed, EOF follows the pipe
    rcv,        \* rcv[st]: where the receiver's handler is
    got,        \* got[st]: what it has read of the body
    flushed,    \* flushed[st]: how much of it is in the file (Android)
    file,       \* the file under its final name
    part,       \* the .xync.part file
    accepted,   \* the uploads a handler has opened the file for (history)
    faults

sendVars == <<token, snd, off>>
recvVars == <<rcv, got, flushed, file, part, accepted>>
fixedVars == <<server, size, checksum>>
transferVars == <<fixedVars, sendVars, path, pipe, closed, recvVars, faults>>

-----------------------------------------------------------------------------
(* Streams.  upload_parallel() cuts the file into equal ranges, the last     *)
(* stream taking the rest, and opens no stream for an empty range.           *)

Start(u, i) == IF u \in Parallel THEN (i - 1) * (size[u] \div NumStreams) ELSE 0

End(u, i) ==
    IF u \in Parallel /\ i < NumStreams THEN i * (size[u] \div NumStreams) ELSE size[u]

Streams ==
    {st \in Uploads \X (1..NumStreams) : st[1] \in Parallel \/ st[2] = 1}

first(st) == Start(st[1], st[2])
last(st)  == End(st[1], st[2])
content_length(st) == last(st) - first(st)

StreamsOf(u) == {st \in Streams : st[1] = u}
FileOf(u) == [k \in 1..size[u] |-> <<u, k - 1>>]

Items == (Uploads \X Nat) \cup {Hole, Junk}

ASSUME NoneIsNoFile == None \notin Seq(Items)

TransferTypeOK ==
    /\ server \in {"dashboard", "android", "atomic"} /\ checksum \in BOOLEAN
    /\ size \in Sizes
    /\ token \in [Uploads -> {"none", "live", "cancelled"}]
    /\ snd \in [Streams -> {"idle", "sending", "shut", "ok", "cancelled", "error"}]
    /\ off \in [Streams -> Nat]
    /\ path \in [Streams -> {"none", "up", "down"}]
    /\ pipe \in [Streams -> Seq(Items)]
    /\ closed \in [Streams -> BOOLEAN]
    /\ rcv \in [Streams -> {"none", "receiving", "stored", "error"}]
    /\ got \in [Streams -> Seq(Items)]
    /\ flushed \in [Streams -> Nat]
    /\ file = None \/ file \in Seq(Items)
    /\ part = None \/ part \in Seq(Items)
    /\ accepted \subseteq Uploads
    /\ faults \in 0..MaxFaults

TransferInit ==
    /\ server \in {"dashboard", "android", "atomic"}
    /\ size \in Sizes
    /\ checksum \in BOOLEAN /\ (server # "atomic" => ~checksum)
    /\ token \in [Uploads -> {"none", "live"}]
    /\ \A u \in Parallel : token[u] = "none"
    /\ snd = [st \in Streams |-> "idle"]
    /\ off = [st \in Streams |-> first(st)]
    /\ path = [st \in Streams |-> "none"]
    /\ pipe = [st \in Streams |-> <<>>]
    /\ closed = [st \in Streams |-> FALSE]
    /\ rcv = [st \in Streams |-> "none"]
    /\ got = [st \in Streams |-> <<>>]
    /\ flushed = [st \in Streams |-> 0]
    /\ file = None /\ part = None /\ accepted = {}
    /\ faults = 0

-----------------------------------------------------------------------------
(* The sender *)

\* connect_optimized() and the request's header; stream_file_receive() has no
\* notion of ranges.
Connect(st) ==
    /\ snd[st] = "idle"
    /\ st[1] \in Parallel => server # "atomic" /\ content_length(st) > 0
    /\ snd' = [snd EXCEPT ![st] = "sending"]
    /\ path' = [path EXCEPT ![st] = "up"]
    /\ UNCHANGED <<fixedVars, token, off, pipe, closed, recvVars, faults>>

\* Three rounds of attempts failed.
ConnectFails(st) ==
    /\ snd[st] = "idle"
    /\ st[1] \in Parallel => content_length(st) > 0
    /\ snd' = [snd EXCEPT ![st] = "error"]
    /\ UNCHANGED <<fixedVars, token, off, path, pipe, closed, recvVars, faults>>

\* One round of the chunk loop: the chunk is read and written.
SendChunk(st) ==
    /\ snd[st] = "sending" /\ token[st[1]] # "cancelled" /\ off[st] < last(st)
    /\ path[st] = "up"
    /\ pipe' = [pipe EXCEPT ![st] = Append(@, <<st[1], off[st]>>)]
    /\ off' = [off EXCEPT ![st] = @ + 1]
    /\ UNCHANGED <<fixedVars, token, snd, path, closed, recvVars, faults>>

\* With a cancel token the write is a branch of select! that maps its result to
\* Ok: after a write error the loop goes on as if the chunk had been sent.
SendUnnoticed(st) ==
    /\ snd[st] = "sending" /\ token[st[1]] = "live" /\ off[st] < last(st)
    /\ path[st] = "down"
    /\ off' = [off EXCEPT ![st] = @ + 1]
    /\ UNCHANGED <<fixedVars, token, snd, path, pipe, closed, recvVars, faults>>

\* Without one it ends the upload.
SendError(st) ==
    /\ snd[st] = "sending" /\ token[st[1]] = "none" /\ off[st] < last(st)
    /\ path[st] = "down"
    /\ snd' = [snd EXCEPT ![st] = "error"]
    /\ closed' = [closed EXCEPT ![st] = TRUE]
    /\ UNCHANGED <<fixedVars, token, off, path, pipe, recvVars, faults>>

\* Cancelled at a chunk boundary, or while a write is stuck (part of the chunk may
\* then be out): the CANCEL frame is written into the body.  Junk stands for both.
SendCancel(st) ==
    /\ snd[st] = "sending" /\ token[st[1]] = "cancelled"
    /\ pipe' = [pipe EXCEPT ![st] = IF path[st] = "up" THEN Append(@, Junk) ELSE @]
    /\ snd' = [snd EXCEPT ![st] = IF path[st] = "up" THEN "cancelled" ELSE "error"]
    /\ closed' = [closed EXCEPT ![st] = TRUE]
    /\ UNCHANGED <<fixedVars, token, off, path, recvVars, faults>>

\* A mutant of Shutdown: the loop ends one chunk early.
ShutdownEarly(st) ==
    /\ snd[st] = "sending" /\ off[st] + 1 >= last(st) /\ token[st[1]] # "cancelled"
    /\ snd' = [snd EXCEPT ![st] = "shut"] /\ closed' = [closed EXCEPT ![st] = TRUE]
    /\ UNCHANGED <<fixedVars, token, off, path, pipe, recvVars, faults>>

\* The whole range is written: shutdown(), which may or may not report a lost
\* connection.
Shutdown(st) ==
    /\ snd[st] = "sending" /\ off[st] = last(st) /\ token[st[1]] # "cancelled"
    /\ \/ snd' = [snd EXCEPT ![st] = "shut"]
       \/ path[st] = "down" /\ snd' = [snd EXCEPT ![st] = "error"]
    /\ closed' = [closed EXCEPT ![st] = TRUE]
    /\ UNCHANGED <<fixedVars, token, off, path, pipe, recvVars, faults>>

\* A stream of a parallel upload reads the response and ignores it; the others do
\* not wait for it.
Return(st) ==
    /\ snd[st] = "shut"
    /\ st[1] \in Parallel => path[st] = "down" \/ rcv[st] \in {"stored", "error"}
    /\ snd' = [snd EXCEPT ![st] = "ok"]
    /\ UNCHANGED <<fixedVars, token, off, path, pipe, closed, recvVars, faults>>

\* CancelToken::cancel(), by the user.
CancelUpload(u) ==
    /\ token[u] = "live"
    /\ \E st \in StreamsOf(u) : snd[st] \in {"idle", "sending"}
    /\ token' = [token EXCEPT ![u] = "cancelled"]
    /\ UNCHANGED <<fixedVars, snd, off, path, pipe, closed, recvVars, faults>>

-----------------------------------------------------------------------------
(* The receivers *)

\* The bytes of a file after a write of x at position p, or after set_len(n).
WriteAt(f, p, x) ==
    [k \in 1..(IF Len(f) > p THEN Len(f) ELSE p + 1) |->
        IF k = p + 1 THEN x ELSE IF k <= Len(f) THEN f[k] ELSE Hole]

SetLen(f, n) == [k \in 1..n |-> IF k <= Len(f) THEN f[k] ELSE Hole]

Opened == IF file = None THEN <<>> ELSE file

\* A mutant of OpenDashboard: the file is truncated when it is opened.
OpenDashboardTruncates(st) ==
    /\ server = "dashboard" /\ content_length(st) > 0
    /\ file' = <<>>
    /\ UNCHANGED part

\* The file is opened for writing without truncation; the stream with offset 0 of a
\* parallel upload sets its length.  An empty body is refused with 400.
OpenDashboard(st) ==
    /\ server = "dashboard" /\ content_length(st) > 0
    /\ file' = IF st[1] \in Parallel /\ first(st) = 0 THEN SetLen(Opened, size[st[1]]) ELSE Opened
    /\ UNCHANGED part

\* File::create(), whatever X-Offset says.
OpenAndroid(st) == server = "android" /\ file' = <<>> /\ UNCHANGED part

\* The part file is created; a caller receives one file of a name at a time.
OpenAtomic(st) ==
    /\ server = "atomic" /\ \A o \in Streams : rcv[o] # "receiving"
    /\ part' = <<>>
    /\ UNCHANGED file

Accept(st) ==
    /\ rcv[st] = "none" /\ path[st] = "up"
    /\ OpenDashboard(st) \/ OpenAndroid(st) \/ OpenAtomic(st)
    /\ rcv' = [rcv EXCEPT ![st] = "receiving"]
    /\ accepted' = accepted \cup {st[1]}
    /\ UNCHANGED <<fixedVars, sendVars, path, pipe, closed, got, flushed, faults>>

RefuseEmpty(st) ==
    /\ rcv[st] = "none" /\ path[st] = "up" /\ server = "dashboard" /\ content_length(st) = 0
    /\ rcv' = [rcv EXCEPT ![st] = "error"]
    /\ UNCHANGED <<fixedVars, sendVars, path, pipe, closed, got, flushed, file, part, accepted, faults>>

\* The file after the Android handler wrote what its buffer holds.
Flush(st, body) ==
    [k \in 1..(IF Len(body) > Len(file) THEN Len(body) ELSE Len(file)) |->
        IF k > flushed[st] /\ k <= Len(body) THEN body[k]
        ELSE IF k <= Len(file) THEN file[k] ELSE Hole]

BodyLeft(st) == server = "atomic" \/ Len(got[st]) < content_length(st)

\* A read of the body goes to the file, the part file, or the buffer, which is
\* written when it is full.
Write(st, x) ==
    \/ /\ server = "dashboard"
       /\ file' = WriteAt(file, first(st) + Len(got[st]), x)
       /\ UNCHANGED <<part, flushed>>
    \/ /\ server = "atomic"
       /\ part' = WriteAt(part, Len(got[st]), x)
       /\ UNCHANGED <<file, flushed>>
    \/ LET body == Append(got[st], x) IN
       /\ server = "android"
       /\ IF Len(body) - flushed[st] >= BufBlocks
          THEN file' = Flush(st, body) /\ flushed' = [flushed EXCEPT ![st] = Len(body)]
          ELSE UNCHANGED <<file, flushed>>
       /\ UNCHANGED part

Read(st) ==
    /\ rcv[st] = "receiving" /\ pipe[st] # <<>> /\ BodyLeft(st)
    /\ Write(st, Head(pipe[st]))
    /\ got' = [got EXCEPT ![st] = Append(@, Head(pipe[st]))]
    /\ pipe' = [pipe EXCEPT ![st] = Tail(@)]
    /\ UNCHANGED <<fixedVars, sendVars, path, closed, rcv, accepted, faults>>

AtEof(st) == pipe[st] = <<>> /\ closed[st] /\ path[st] = "up"

\* The dashboard answers success when the body is read, and also at an early EOF.
FinishDashboard(st) ==
    /\ server = "dashboard"
    /\ ~BodyLeft(st) \/ AtEof(st)
    /\ rcv' = [rcv EXCEPT ![st] = "stored"]
    /\ UNCHANGED <<file, part>>

\* hyper reports a body shorter than Content-Length as an error; what is still in
\* the buffer is then dropped with it.
FinishAndroid(st) ==
    /\ server = "android"
    /\ \/ /\ ~BodyLeft(st)
          /\ file' = Flush(st, got[st])
          /\ rcv' = [rcv EXCEPT ![st] = "stored"]
       \/ /\ BodyLeft(st) /\ AtEof(st)
          /\ rcv' = [rcv EXCEPT ![st] = "error"]
          /\ UNCHANGED file
    /\ UNCHANGED part

Intact(st) ==
    /\ checksum => got[st] = FileOf(st[1])
    /\ size[st[1]] > 0 => Len(got[st]) = size[st[1]]

\* A mutant of FinishAtomic: the size is not compared.
FinishAtomicUnchecked(st) ==
    /\ server = "atomic" /\ AtEof(st)
    /\ rcv' = [rcv EXCEPT ![st] = "stored"] /\ file' = part /\ part' = None

\* At EOF checksum and size are compared and the part file is renamed or removed.
FinishAtomic(st) ==
    /\ server = "atomic" /\ AtEof(st)
    /\ part' = None
    /\ IF Intact(st)
       THEN rcv' = [rcv EXCEPT ![st] = "stored"] /\ file' = part
       ELSE rcv' = [rcv EXCEPT ![st] = "error"] /\ UNCHANGED file

Finish(st) ==
    /\ rcv[st] = "receiving"
    /\ FinishDashboard(st) \/ FinishAndroid(st) \/ FinishAtomic(st)
    /\ UNCHANGED <<fixedVars, sendVars, path, pipe, closed, got, flushed, accepted, faults>>

\* A read error, or 30 s of silence at stream_file_receive(): the handler returns
\* and leaves what it has written where it is.
ReadError(st) ==
    /\ rcv[st] = "receiving" /\ path[st] = "down" /\ pipe[st] = <<>> /\ BodyLeft(st)
    /\ rcv' = [rcv EXCEPT ![st] = "error"]
    /\ UNCHANGED <<fixedVars, sendVars, path, pipe, closed, got, flushed, file, part, accepted, faults>>

-----------------------------------------------------------------------------
(* Faults *)

\* The connection is lost; a prefix of what was in flight still arrives.
LoseConnection(st) ==
    /\ faults < MaxFaults /\ path[st] = "up"
    /\ path' = [path EXCEPT ![st] = "down"]
    /\ \E n \in 0..Len(pipe[st]) : pipe' = [pipe EXCEPT ![st] = SubSeq(@, 1, n)]
    /\ faults' = faults + 1
    /\ UNCHANGED <<fixedVars, sendVars, closed, recvVars>>

\* The sending process ends: its kernel closes the connections.
SenderCrash(u) ==
    /\ faults < MaxFaults
    /\ \E st \in StreamsOf(u) : snd[st] = "sending"
    /\ snd' = [st \in Streams |-> IF st[1] = u /\ snd[st] \in {"idle", "sending", "shut"}
                                  THEN "error" ELSE snd[st]]
    /\ closed' = [st \in Streams |-> closed[st] \/ (st[1] = u /\ path[st] # "none")]
    /\ faults' = faults + 1
    /\ UNCHANGED <<fixedVars, token, off, path, pipe, recvVars>>

\* The receiving process ends and is started again: its files stay as they are.
ReceiverCrash ==
    /\ faults < MaxFaults
    /\ \E st \in Streams : rcv[st] = "receiving"
    /\ rcv' = [st \in Streams |-> IF rcv[st] = "receiving" THEN "error" ELSE rcv[st]]
    /\ path' = [st \in Streams |-> IF path[st] = "up" THEN "down" ELSE path[st]]
    /\ pipe' = [st \in Streams |-> <<>>]
    /\ faults' = faults + 1
    /\ UNCHANGED <<fixedVars, sendVars, closed, got, flushed, file, part, accepted>>

-----------------------------------------------------------------------------
SenderStep(st) ==
    \/ Connect(st) \/ ConnectFails(st) \/ SendChunk(st) \/ SendUnnoticed(st)
    \/ SendError(st) \/ SendCancel(st) \/ Shutdown(st) \/ Return(st)

ReceiverStep(st) ==
    \/ Accept(st) \/ RefuseEmpty(st) \/ Read(st) \/ Finish(st) \/ ReadError(st)

TransferNext ==
    \/ \E st \in Streams : SenderStep(st) \/ ReceiverStep(st) \/ LoseConnection(st)
    \/ \E u \in Uploads : CancelUpload(u) \/ SenderCrash(u)
    \/ ReceiverCrash

TransferSpec == TransferInit /\ [][TransferNext]_transferVars

-----------------------------------------------------------------------------
(* Properties *)

\* While only one upload has ever been accepted, a stream the receiver answered
\* with success, and that carried all it announced, is in the file: no other stream
\* of the upload has cut it off or overwritten it.  (The Android receiver is
\* claimed for uploads of one stream only.)
StoredIsInFile ==
    \A st \in Streams :
        /\ rcv[st] = "stored" /\ accepted = {st[1]}
        /\ Len(got[st]) = content_length(st) /\ Junk \notin {got[st][k] : k \in DOMAIN got[st]}
        /\ server = "android" => st[1] \notin Parallel
        => /\ Len(file) >= last(st)
           /\ \A k \in (first(st) + 1)..last(st) : file[k] = <<st[1], k - 1>>

\* An upload that returns Ok over a connection that was not lost has been received
\* whole, when the receiver is done with it: a cancellation, another upload of the
\* name or the end of the body cannot come between.  (Over a lost connection Ok may
\* be returned for blocks that never arrived, and the dashboard refuses an empty
\* file; the sender does not look at the answer.)
OkIsReceived ==
    \A st \in Streams :
        snd[st] = "ok" /\ path[st] = "up" /\ rcv[st] \in {"stored", "error"} =>
            \/ server = "dashboard" /\ content_length(st) = 0
            \/ /\ rcv[st] = "stored"
               /\ got[st] = [k \in 1..content_length(st) |-> <<st[1], first(st) + k - 1>>]

Published == INSTANCE AtomicFile WITH
    offered <- {FileOf(u) : u \in Uploads}, Absent <- None,
    content <- IF server = "atomic" /\ checksum THEN file ELSE None

\* stream_file_receive() keeps "atomic writes and integrity verification" when it is
\* given the checksum: its file is absent or one complete upload, across lost
\* connections, cancelled uploads and crashes of either side.
FileIsAtomic == Published!AtomicSpec
=============================================================================
