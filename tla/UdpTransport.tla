---------------------------- MODULE UdpTransport ----------------------------
(* The CLI's datagram transports (udp_transport.rs and quic_transport.rs,   *)
(* one protocol with two framings): handshake, chunks in a congestion       *)
(* window acknowledged one by one, FIN.  Datagrams are lost, duplicated and *)
(* reordered; a datagram for a receiver that has ended is refused (ICMP),   *)
(* which the sender's socket reports to the next send or recv on it.        *)
(*                                                                          *)
(* The receiver does not learn the size from the sender: its caller         *)
(* announces it (POST /api/initiate-udp, 0 when the request names none).    *)
(* Sizes are counted in halves of a chunk, so that a size may end inside a  *)
(* chunk.                                                                   *)
EXTENDS Naturals, FiniteSets

CONSTANTS TotalSize,       \* total_size of the sender's file, in half chunks
          ExpectedSizes,   \* sizes that may be announced to the receiver
          Attempts,        \* 5 handshakes, 5 FINs
          InitialCwnd,     \* per framing: 10 for udp, 12 for quic
          MinCwnd,         \* 4
          UdpStreams       \* num_streams of send_file_quic

ASSUME UdpAssumption ==
    /\ TotalSize \in Nat /\ ExpectedSizes \subseteq Nat /\ Attempts \in Nat \ {0}
    /\ InitialCwnd \in [{"udp", "quic"} -> Nat \ {0}] /\ MinCwnd \in Nat \ {0} /\ UdpStreams \in Nat \ {0}

NumChunks(bytes) == (bytes + 1) \div 2
UdpChunks == NumChunks(TotalSize)      \* num_chunks of the sender

Seqs == 0..(UdpChunks - 1)

VARIABLES framing,         \* "udp" or "quic"
          phase,           \* of send_file_udp
          sentOnce,        \* the handshake or FIN of this round was sent
          attempts,        \* handshake_attempts, fin_attempts
          next_seq, acked_seqs, cwnd,
          ackReader,       \* the task that reads acknowledgements runs
          refused,         \* an ICMP error waits at the sender's socket
          toReceiver, toSender,
          expected_size,   \* what the receiver was told
          receiveState,    \* "loop", then "writing" the file, then "ok" or "err"
          received_chunks,
          written          \* chunks in the file written at the end, {} before

senderVars == <<phase, sentOnce, attempts, next_seq, acked_seqs, cwnd, ackReader>>
udpReceiverVars == <<expected_size, receiveState, received_chunks, written>>
udpVars == <<framing, senderVars, refused, toReceiver, toSender, udpReceiverVars>>

Request == [frame |-> "HANDSHAKE_REQ"]
Response == [frame |-> "HANDSHAKE_RESP"]
Fin == [frame |-> "FIN"]
FinAck == [frame |-> "FIN_ACK"]
Ack(seq) == [frame |-> "ACK", seq |-> seq]
DataFrame(seq) == [frame |-> "DATA", seq |-> seq]

(* send_file_quic names a stream in every data frame; no receiver reads it. *)
StreamFrame(seq) == [frame |-> "STREAM_DATA", stream |-> seq % UdpStreams, seq |-> seq]

Packet(seq) == IF framing = "quic" THEN StreamFrame(seq) ELSE DataFrame(seq)

UdpTypeOK ==
    /\ framing \in {"udp", "quic"}
    /\ phase \in {"handshake", "data", "fin", "ok", "err"}
    /\ sentOnce \in BOOLEAN /\ ackReader \in BOOLEAN /\ refused \in BOOLEAN
    /\ attempts \in 0..Attempts
    /\ next_seq \in 0..UdpChunks /\ acked_seqs \subseteq 0..(next_seq - 1)
    /\ cwnd \in Nat \ {0}
    /\ expected_size \in Nat /\ receiveState \in {"loop", "writing", "ok", "err"}
    /\ received_chunks \subseteq Seqs /\ written \subseteq Seqs

UdpInit ==
    /\ framing \in {"udp", "quic"}
    /\ phase = "handshake" /\ sentOnce = FALSE /\ attempts = 0
    /\ next_seq = 0 /\ acked_seqs = {} /\ cwnd = InitialCwnd[framing]
    /\ ackReader = FALSE /\ refused = FALSE
    /\ toReceiver = {} /\ toSender = {}
    /\ expected_size \in ExpectedSizes /\ receiveState = "loop" /\ received_chunks = {} /\ written = {}

-----------------------------------------------------------------------------
(* send_file_udp                                                            *)

(* A send returns the socket's pending error with `?'.                      *)
SendFails ==
    /\ phase \in {"handshake", "data", "fin"} /\ refused
    /\ phase' = "err" /\ refused' = FALSE
    /\ UNCHANGED <<framing, sentOnce, attempts, next_seq, acked_seqs, cwnd, ackReader,
                   toReceiver, toSender, udpReceiverVars>>

SendRequest ==
    /\ phase = "handshake" /\ ~sentOnce /\ ~refused
    /\ toReceiver' = toReceiver \cup {Request} /\ sentOnce' = TRUE
    /\ UNCHANGED <<framing, phase, attempts, next_seq, acked_seqs, cwnd, ackReader, refused,
                   toSender, udpReceiverVars>>

(* Only a timeout counts as an attempt.                                     *)
HandshakeTimeout ==
    /\ phase = "handshake" /\ sentOnce
    /\ attempts' = attempts + 1 /\ sentOnce' = FALSE
    /\ phase' = IF attempts + 1 = Attempts THEN "err" ELSE phase
    /\ UNCHANGED <<framing, next_seq, acked_seqs, cwnd, ackReader, refused, toReceiver, toSender,
                   udpReceiverVars>>

(* An empty file has nothing to acknowledge: straight to the FIN.           *)
HandshakeAnswered ==
    /\ phase = "handshake" /\ sentOnce /\ Response \in toSender
    /\ toSender' = toSender \ {Response}
    /\ phase' = IF UdpChunks = 0 THEN "fin" ELSE "data"
    /\ sentOnce' = FALSE /\ attempts' = 0 /\ ackReader' = TRUE
    /\ UNCHANGED <<framing, next_seq, acked_seqs, cwnd, refused, toReceiver, udpReceiverVars>>

WindowOpen == next_seq < UdpChunks /\ next_seq - Cardinality(acked_seqs) < cwnd

SendDatagram ==
    /\ phase = "data" /\ WindowOpen /\ ~refused
    /\ toReceiver' = toReceiver \cup {Packet(next_seq)}
    /\ next_seq' = next_seq + 1
    /\ UNCHANGED <<framing, phase, sentOnce, attempts, acked_seqs, cwnd, ackReader, refused,
                   toSender, udpReceiverVars>>

(* The reader task hands an acknowledgement over when the window is full.   *)
(* (Counting it for the lowest chunk outstanding is a mutation.)            *)
TakeAckCumulative(seq) ==
    LET acked == acked_seqs \cup {Cardinality(acked_seqs)} IN
    /\ phase = "data" /\ ~WindowOpen /\ ackReader /\ Ack(seq) \in toSender
    /\ acked_seqs' = acked /\ cwnd' = cwnd + 1
    /\ toSender' = toSender \ {Ack(seq)}
    /\ phase' = IF Cardinality(acked) = UdpChunks THEN "fin" ELSE phase
    /\ UNCHANGED <<framing, sentOnce, attempts, next_seq, ackReader, refused, toReceiver, udpReceiverVars>>

TakeAck(seq) ==
    LET acked == acked_seqs \cup {seq} IN
    /\ phase = "data" /\ ~WindowOpen /\ ackReader /\ Ack(seq) \in toSender
    /\ acked_seqs' = acked
    /\ cwnd' = IF seq \in acked_seqs THEN cwnd ELSE cwnd + 1
    /\ toSender' = toSender \ {Ack(seq)}
    /\ phase' = IF Cardinality(acked) = UdpChunks THEN "fin" ELSE phase
    /\ UNCHANGED <<framing, sentOnce, attempts, next_seq, ackReader, refused, toReceiver, udpReceiverVars>>

(* 150 ms without an acknowledgement: the scan starts at the number of      *)
(* acknowledged chunks, so a lost chunk below that number is never sent     *)
(* again.                                                                   *)
Outstanding == (Cardinality(acked_seqs)..(next_seq - 1)) \ acked_seqs

Retransmit ==
    /\ phase = "data" /\ ~WindowOpen /\ ~refused
    /\ toReceiver' = toReceiver \cup {Packet(seq) : seq \in Outstanding}
    /\ cwnd' = IF cwnd \div 2 > MinCwnd THEN cwnd \div 2 ELSE MinCwnd
    /\ UNCHANGED <<framing, phase, sentOnce, attempts, next_seq, acked_seqs, ackReader, refused,
                   toSender, udpReceiverVars>>

SendFin ==
    /\ phase = "fin" /\ ~sentOnce /\ ~refused
    /\ toReceiver' = toReceiver \cup {Fin} /\ sentOnce' = TRUE
    /\ UNCHANGED <<framing, phase, attempts, next_seq, acked_seqs, cwnd, ackReader, refused,
                   toSender, udpReceiverVars>>

(* A late acknowledgement, or the closed channel of a reader that ended,    *)
(* wakes the select: the FIN goes out again and no attempt is counted.      *)
FinAgain ==
    /\ phase = "fin" /\ sentOnce
    /\ \/ /\ ackReader
          /\ \E seq \in Seqs : Ack(seq) \in toSender /\ toSender' = toSender \ {Ack(seq)}
       \/ ~ackReader /\ UNCHANGED toSender
    /\ sentOnce' = FALSE
    /\ UNCHANGED <<framing, phase, attempts, next_seq, acked_seqs, cwnd, ackReader, refused,
                   toReceiver, udpReceiverVars>>

FinDone ==
    /\ phase = "fin" /\ sentOnce /\ ackReader /\ FinAck \in toSender
    /\ toSender' = toSender \ {FinAck}
    /\ phase' = "ok" /\ ackReader' = FALSE
    /\ UNCHANGED <<framing, sentOnce, attempts, next_seq, acked_seqs, cwnd, refused, toReceiver,
                   udpReceiverVars>>

(* After the last FIN without an answer the sender returns Ok all the same. *)
FinTimeout ==
    /\ phase = "fin" /\ sentOnce /\ ackReader
    /\ attempts' = attempts + 1 /\ sentOnce' = FALSE
    /\ phase' = IF attempts + 1 = Attempts THEN "ok" ELSE phase
    /\ UNCHANGED <<framing, next_seq, acked_seqs, cwnd, ackReader, refused, toReceiver, toSender,
                   udpReceiverVars>>

(* The reader task ends on the socket's error.                              *)
ReaderEnds ==
    /\ ackReader /\ refused
    /\ ackReader' = FALSE /\ refused' = FALSE
    /\ UNCHANGED <<framing, phase, sentOnce, attempts, next_seq, acked_seqs, cwnd, toReceiver,
                   toSender, udpReceiverVars>>

-----------------------------------------------------------------------------
(* receive_file_udp_with_socket.  A datagram that is taken stays in the     *)
(* network when it is duplicated.                                           *)
Taken(frame) ==
    /\ receiveState = "loop" /\ frame \in toReceiver
    /\ toReceiver' \in {toReceiver, toReceiver \ {frame}}
    /\ UNCHANGED <<framing, senderVars, refused>>

ReceiveRequest ==
    /\ Taken(Request)
    /\ toSender' = toSender \cup {Response}
    /\ UNCHANGED udpReceiverVars

(* offset + len <= file_buf.len(): the buffer has expected_size bytes, and  *)
(* the sender's last chunk may be a short one.                              *)
ChunkEnd(seq) == IF 2 * (seq + 1) < TotalSize THEN 2 * (seq + 1) ELSE TotalSize
Fits(seq, bytes) == ChunkEnd(seq) <= bytes

(* A chunk that fits is copied into the buffer, every time; one that does   *)
(* not is left out.  Both are acknowledged.  (Leaving out a chunk that ends *)
(* where the buffer ends is a mutation.)                                    *)
StoreBelow(seq) ==
    /\ received_chunks' = IF ChunkEnd(seq) < expected_size THEN received_chunks \cup {seq}
                          ELSE received_chunks
    /\ toSender' = toSender \cup {Ack(seq)}
    /\ UNCHANGED <<expected_size, receiveState, written>>

Store(seq) ==
    /\ received_chunks' = IF Fits(seq, expected_size) THEN received_chunks \cup {seq} ELSE received_chunks
    /\ toSender' = toSender \cup {Ack(seq)}
    /\ UNCHANGED <<expected_size, receiveState, written>>

receive_file_udp(seq) == framing = "udp" /\ Taken(DataFrame(seq)) /\ Store(seq)
receive_file_quic(seq) == framing = "quic" /\ Taken(StreamFrame(seq)) /\ Store(seq)

(* FIN: answered always; the loop ends only when as many chunks have come   *)
(* as the announced size has.                                               *)
TakeFin ==
    /\ Taken(Fin)
    /\ toSender' = toSender \cup {FinAck}
    /\ receiveState' = IF Cardinality(received_chunks) >= NumChunks(expected_size) THEN "writing"
                   ELSE receiveState
    /\ UNCHANGED <<expected_size, received_chunks, written>>

(* The file is written after the FIN was answered, and the write may fail.  *)
WriteFile ==
    /\ receiveState = "writing"
    /\ \/ receiveState' = "ok" /\ written' = received_chunks
       \/ receiveState' = "err" /\ UNCHANGED written
    /\ UNCHANGED <<framing, senderVars, refused, toReceiver, toSender, expected_size, received_chunks>>

(* An error of recv_from or send_to leaves the loop with `?'.               *)
ReceiveFails ==
    /\ receiveState = "loop" /\ receiveState' = "err"
    /\ UNCHANGED <<framing, senderVars, refused, toReceiver, toSender, expected_size,
                   received_chunks, written>>

-----------------------------------------------------------------------------
(* The network                                                              *)
Lose ==
    /\ \/ \E d \in toReceiver : toReceiver' = toReceiver \ {d} /\ UNCHANGED toSender
       \/ \E d \in toSender : toSender' = toSender \ {d} /\ UNCHANGED toReceiver
    /\ UNCHANGED <<framing, senderVars, refused, udpReceiverVars>>

PortUnreachable ==
    /\ receiveState \in {"ok", "err"} /\ \E d \in toReceiver : toReceiver' = toReceiver \ {d}
    /\ refused' = TRUE
    /\ UNCHANGED <<framing, senderVars, toSender, udpReceiverVars>>

UdpNext ==
    \/ SendFails \/ SendRequest \/ HandshakeTimeout \/ HandshakeAnswered
    \/ SendDatagram \/ Retransmit \/ \E seq \in Seqs : TakeAck(seq)
    \/ SendFin \/ FinAgain \/ FinDone \/ FinTimeout \/ ReaderEnds
    \/ ReceiveRequest \/ TakeFin \/ WriteFile \/ ReceiveFails
    \/ \E seq \in Seqs : receive_file_udp(seq) \/ receive_file_quic(seq)
    \/ Lose \/ PortUnreachable

UdpSpec == UdpInit /\ [][UdpNext]_udpVars

-----------------------------------------------------------------------------
(* However datagrams are lost, repeated and reordered:                      *)
(*  - a chunk the sender counts as acknowledged is in the receiver's buffer *)
(*    if it fits there;                                                     *)
(*  - a sender that returns Ok, also one that gave up waiting for the FIN's *)
(*    answer, leaves a receiver that holds every chunk, provided that it    *)
(*    was told a size that is not too small (with one that is, Ok is        *)
(*    returned for chunks that were thrown away; and Ok never says that the *)
(*    file was written, as the FIN is answered before);                     *)
(*  - a receiver that left its loop to write, and the file it wrote, has no *)
(*    gap, whatever size it was told, and the sender had every              *)
(*    acknowledgement by then                                               *)
(* (send_file_udp, receive_file_udp and their quic counterparts).           *)
UdpOkIsStored ==
    /\ \A seq \in acked_seqs : Fits(seq, expected_size) => seq \in received_chunks
    /\ phase = "ok" /\ expected_size >= TotalSize => received_chunks = Seqs
    /\ receiveState \in {"writing", "ok"} =>
           received_chunks = 0..(NumChunks(expected_size) - 1) /\ acked_seqs = Seqs
    /\ receiveState = "ok" => written = received_chunks
=============================================================================
