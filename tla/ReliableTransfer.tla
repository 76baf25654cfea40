-------------------------- MODULE ReliableTransfer --------------------------
(***************************************************************************)
(* The chunk protocol of transfer_engine/src/reliable.rs over one TCP      *)
(* connection: send_file_reliable() with its ChunkTracker, window, time    *)
(* outs and NACKs, and receive_file_reliable().  TCP neither loses nor     *)
(* reorders frames, so every retransmission reaches the receiver twice.    *)
(*                                                                         *)
(* Two things make the sender lose its place in the stream of answers: a   *)
(* NACK is one byte longer than frame_payload_len() says, and read_frame() *)
(* is a branch of select!, so its 50 ms timer may drop a frame half read.  *)
(* What is read afterwards is arbitrary (adrift).                          *)
(***************************************************************************)
EXTENDS Integers, Sequences, FiniteSets

CONSTANTS
    NChunks,        \* chunks of the file, numbered from 0
    StartWindow,    \* ReliabilityConfig::window_size
    MaxWindow,      \* the window's upper limit
    MAX_RETRIES,
    BPRES_INTERVAL,
    MaxTimeouts     \* bound on expired retransmission timers

ASSUME ReliableAssumption ==
    /\ NChunks \in Nat /\ MaxWindow \in Nat /\ StartWindow \in 1..MaxWindow /\ MAX_RETRIES \in Nat
    /\ BPRES_INTERVAL \in Nat \ {0} /\ MaxTimeouts \in Nat

VARIABLES
    sender,         \* where send_file_reliable() is
    chunks,         \* chunks[c]: the state and attempt of chunk c
    acked_ids,
    contiguous,     \* contiguous_acked
    in_flight,
    retransmits,
    window,
    adrift,         \* the sender has lost its place in the answers
    data,           \* frames to the receiver
    answers,        \* frames to the sender
    receiver,       \* where receive_file_reliable() is
    received,       \* the keys of received_chunks
    chunk_count,
    timeouts

trackerVars == <<chunks, acked_ids, contiguous, in_flight, retransmits>>
receiverVars == <<receiver, received, chunk_count>>
reliableVars == <<sender, trackerVars, window, adrift, data, answers, receiverVars, timeouts>>

Chunks == 0..(NChunks - 1)
ChunkStates == [state : {"Pending", "InFlight", "Acked"}, attempt : Nat]
Frames == [type : {"DATA", "ACK", "NACK"}, id : Chunks] \cup [type : {"FIN", "FINACK", "BPRES"}]

ReliableTypeOK ==
    /\ sender \in {"top", "read", "check", "fin", "ok", "error"}
    /\ receiver \in {"receiving", "ok", "error"}
    /\ chunks \in [Chunks -> ChunkStates]
    /\ acked_ids \subseteq Chunks /\ received \subseteq Chunks
    /\ contiguous \in 0..NChunks /\ in_flight \in Nat /\ retransmits \in Nat
    /\ window \in 1..MaxWindow /\ adrift \in BOOLEAN
    /\ data \in Seq(Frames) /\ answers \in Seq(Frames)
    /\ chunk_count \in Nat /\ timeouts \in 0..MaxTimeouts

ReliableInit ==
    /\ sender = "top" /\ receiver = "receiving"
    /\ chunks = [c \in Chunks |-> [state |-> "Pending", attempt |-> 0]]
    /\ acked_ids = {} /\ contiguous = 0 /\ in_flight = 0 /\ retransmits = 0
    /\ window = StartWindow /\ adrift = FALSE
    /\ data = <<>> /\ answers = <<>>
    /\ received = {} /\ chunk_count = 0 /\ timeouts = 0

-----------------------------------------------------------------------------
(* ChunkTracker *)

InFlight == {c \in Chunks : chunks[c].state = "InFlight"}
Pending == {c \in Chunks : chunks[c].state = "Pending"}
all_acked == contiguous = NChunks
has_exhausted_retries == \E c \in InFlight : chunks[c].attempt > MAX_RETRIES

Sending(c) == [type |-> "DATA", id |-> c]

\* The sequences (there is one) that hold the chunks of S in their order.
Ordered(S) ==
    {s \in [1..Cardinality(S) -> S] : \A i, j \in 1..Cardinality(S) : i < j => s[i] < s[j]}

DataFrames(s) == [i \in DOMAIN s |-> Sending(s[i])]

\* A mutant of mark_in_flight: a chunk sent again is not counted.
mark_in_flight_once(again, new) ==
    /\ chunks' = [c \in Chunks |->
          IF c \in again THEN [state |-> "InFlight", attempt |-> chunks[c].attempt + 1]
          ELSE IF c \in new THEN [state |-> "InFlight", attempt |-> 1] ELSE chunks[c]]
    /\ in_flight' = in_flight + Cardinality(new)
    /\ retransmits' = retransmits + Cardinality(again)

\* mark_in_flight() for the chunks sent again and for the new ones: each call counts.
mark_in_flight(again, new) ==
    /\ chunks' = [c \in Chunks |->
          IF c \in again THEN [state |-> "InFlight", attempt |-> chunks[c].attempt + 1]
          ELSE IF c \in new THEN [state |-> "InFlight", attempt |-> 1] ELSE chunks[c]]
    /\ in_flight' = in_flight + Cardinality(again) + Cardinality(new)
    /\ retransmits' = retransmits + Cardinality(again)

\* A mutant of NextContiguous: the first gap does not stop the count.
NextContiguousSkips(ch) == Cardinality({c \in Chunks : ch[c].state # "Pending"})

\* contiguous_acked moves over the chunks that are Acked.
NextContiguous(ch) ==
    CHOOSE n \in contiguous..NChunks :
        /\ \A c \in contiguous..(n - 1) : ch[c].state = "Acked"
        /\ n < NChunks => ch[n].state # "Acked"

\* A duplicate is recognised by acked_ids and changes nothing.
mark_acked(c) ==
    IF c \in acked_ids THEN UNCHANGED trackerVars
    ELSE /\ acked_ids' = acked_ids \cup {c}
         /\ chunks' = [chunks EXCEPT ![c].state = "Acked"]
         /\ in_flight' = IF in_flight = 0 THEN 0 ELSE in_flight - 1
         /\ contiguous' = NextContiguous(chunks')
         /\ UNCHANGED retransmits

-----------------------------------------------------------------------------
(* send_file_reliable() *)

\* One round: timed out chunks are sent again, then new ones while there is room.
\* `batched` and in_flight both count a new chunk, so half of the room is used.
SenderTop ==
    /\ sender = "top" /\ ~has_exhausted_retries
    /\ \E again \in SUBSET InFlight, used \in {0, 1} :
          LET counted == in_flight + Cardinality(again)
              room == IF counted >= window THEN 0 ELSE (window - counted + 1) \div 2
              new == {c \in Pending : Cardinality({p \in Pending : p < c}) < room}
          IN  /\ again # {} <=> used = 1
              /\ timeouts + used <= MaxTimeouts /\ timeouts' = timeouts + used
              /\ mark_in_flight(again, new)
              /\ \E resent \in Ordered(again), sent \in Ordered(new) :
                    data' = data \o DataFrames(resent) \o DataFrames(sent)
    /\ sender' = "read"
    /\ UNCHANGED <<acked_ids, contiguous, window, adrift, answers, receiverVars>>

SenderGivesUp ==
    /\ sender = "top" /\ has_exhausted_retries
    /\ sender' = "error"
    /\ UNCHANGED <<trackerVars, window, adrift, data, answers, receiverVars, timeouts>>

\* With a control loop the window is its parallel_streams, in every round.
ControlSetsWindow ==
    /\ sender = "top"
    /\ \E w \in 1..MaxWindow \ {window} : window' = w
    /\ UNCHANGED <<sender, trackerVars, adrift, data, answers, receiverVars, timeouts>>

SenderReadTimeout ==
    /\ sender = "read"
    /\ sender' = "check"
    /\ UNCHANGED <<trackerVars, window, adrift, data, answers, receiverVars, timeouts>>

\* The timer fires inside read_frame(): the bytes read so far are lost.
SenderTornRead ==
    /\ sender = "read" /\ answers # <<>>
    /\ answers' = Tail(answers) /\ adrift' = TRUE
    /\ sender' = "check"
    /\ UNCHANGED <<trackerVars, window, data, receiverVars, timeouts>>

ReadAck ==
    /\ sender = "read" /\ answers # <<>> /\ ~adrift /\ Head(answers).type = "ACK"
    /\ mark_acked(Head(answers).id)
    /\ answers' = Tail(answers)
    /\ sender' = "check"
    /\ UNCHANGED <<window, adrift, data, receiverVars, timeouts>>

\* The chunk is sent once more, whatever its state; the NACK's last byte stays in
\* the stream.
ReadNack ==
    /\ sender = "read" /\ answers # <<>> /\ ~adrift /\ Head(answers).type = "NACK"
    /\ LET c == Head(answers).id
           attempt == IF c \in InFlight THEN chunks[c].attempt + 1 ELSE 1
       IN  /\ data' = Append(data, Sending(c))
           /\ chunks' = [chunks EXCEPT ![c] = [state |-> "InFlight", attempt |-> attempt]]
           /\ in_flight' = in_flight + 1
           /\ retransmits' = IF attempt > 1 THEN retransmits + 1 ELSE retransmits
    /\ answers' = Tail(answers) /\ adrift' = TRUE
    /\ sender' = "check"
    /\ UNCHANGED <<acked_ids, contiguous, window, receiverVars, timeouts>>

\* A mutant of ReadBpres: the window grows without limit.
ReadBpresUncapped ==
    /\ sender = "read" /\ answers # <<>> /\ ~adrift /\ Head(answers).type = "BPRES"
    /\ window' = window + 1
    /\ answers' = Tail(answers)
    /\ sender' = "check"
    /\ UNCHANGED <<trackerVars, adrift, data, receiverVars, timeouts>>

\* The receiver reports a queue depth of 0: the window grows, up to 8.
ReadBpres ==
    /\ sender = "read" /\ answers # <<>> /\ ~adrift /\ Head(answers).type = "BPRES"
    /\ window' = IF window < MaxWindow THEN window + 1 ELSE window
    /\ answers' = Tail(answers)
    /\ sender' = "check"
    /\ UNCHANGED <<trackerVars, adrift, data, receiverVars, timeouts>>

\* Bytes taken for a frame of any kind: one with an unknown type ends the transfer.
ReadAdrift ==
    /\ sender = "read" /\ answers # <<>> /\ adrift
    /\ answers' = Tail(answers)
    /\ \/ sender' = "check" /\ \E c \in Chunks : mark_acked(c)
       \/ sender' \in {"check", "error"} /\ UNCHANGED trackerVars
    /\ UNCHANGED <<window, adrift, data, receiverVars, timeouts>>

SenderCheck ==
    /\ sender = "check"
    /\ IF all_acked
       THEN data' = Append(data, [type |-> "FIN"]) /\ sender' = "fin"
       ELSE sender' = "top" /\ UNCHANGED data
    /\ UNCHANGED <<trackerVars, window, adrift, answers, receiverVars, timeouts>>

\* A FINACK, another frame (the FIN is repeated), an error or 5 s: Ok is returned.
SenderFin ==
    /\ sender = "fin"
    /\ \/ UNCHANGED <<data, answers>>
       \/ /\ answers # <<>> /\ answers' = Tail(answers)
          /\ data' = IF Head(answers).type = "FINACK" THEN data ELSE Append(data, [type |-> "FIN"])
    /\ sender' = "ok"
    /\ UNCHANGED <<trackerVars, window, adrift, receiverVars, timeouts>>

-----------------------------------------------------------------------------
(* receive_file_reliable() *)

Bpres(count) == IF count % BPRES_INTERVAL = 0 THEN <<[type |-> "BPRES"]>> ELSE <<>>

\* A DATA frame is stored and acknowledged; one that was there before gets a NACK
\* as well.  At the top of the loop back pressure is reported every BPRES_INTERVAL.
ReceiveData ==
    /\ receiver = "receiving" /\ data # <<>> /\ Head(data).type = "DATA"
    /\ LET c == Head(data).id IN
       /\ received' = received \cup {c}
       /\ answers' = answers \o <<[type |-> "ACK", id |-> c]>>
                       \o (IF c \in received THEN <<[type |-> "NACK", id |-> c]>> ELSE <<>>)
                       \o Bpres(chunk_count + 1)
    /\ chunk_count' = chunk_count + 1
    /\ data' = Tail(data)
    /\ UNCHANGED <<sender, trackerVars, window, adrift, receiver, timeouts>>

\* FIN: what was received is put together, by offset, and returned.
ReceiveFin ==
    /\ receiver = "receiving" /\ data # <<>> /\ Head(data).type = "FIN"
    /\ answers' = Append(answers, [type |-> "FINACK"])
    /\ receiver' = "ok"
    /\ data' = Tail(data)
    /\ UNCHANGED <<sender, trackerVars, window, adrift, received, chunk_count, timeouts>>

\* The connection is closed by a sender that has returned an error.
ReceiveError ==
    /\ receiver = "receiving" /\ data = <<>> /\ sender \in {"error", "ok"}
    /\ receiver' = "error"
    /\ UNCHANGED <<sender, trackerVars, window, adrift, data, answers, received, chunk_count, timeouts>>

-----------------------------------------------------------------------------
ReliableNext ==
    \/ SenderTop \/ SenderGivesUp \/ ControlSetsWindow \/ SenderReadTimeout \/ SenderTornRead
    \/ ReadAck \/ ReadNack \/ ReadBpres \/ ReadAdrift \/ SenderCheck \/ SenderFin
    \/ ReceiveData \/ ReceiveFin \/ ReceiveError

ReliableSpec == ReliableInit /\ [][ReliableNext]_reliableVars

-----------------------------------------------------------------------------
(* Properties *)

\* As long as the sender reads frames where they begin, it announces the end of the
\* file, and the receiver returns it, only when every chunk has arrived: neither
\* duplicate acknowledgements nor retransmissions make all_acked() true too early.
ReturnedIsWhole ==
    ~adrift /\ (sender \in {"fin", "ok"} \/ receiver = "ok") => received = Chunks

\* "Duplicate ACK detection to prevent in_flight undercount": in_flight is never below
\* the number of chunks in flight, so the window holds; and it is too high by one for
\* every retransmission, for good, so the window can fill up with nothing in flight.
InFlightCount ==
    ~adrift => in_flight = Cardinality(InFlight) + retransmits
=============================================================================
