-------------------------- MODULE Delivery_proofs --------------------------
(***************************************************************************)
(* A sender that reports success has been received: for files of any       *)
(* length, windows of any size, and whatever the network loses, repeats    *)
(* and delays.                                                             *)
(***************************************************************************)
EXTENDS UdpTransport, FileTransfer, ReliableTransfer, SequenceTheorems, FiniteSetTheorems,
        WellFoundedInduction, TLAPS

-----------------------------------------------------------------------------
(* UdpTransport: only chunks that were sent arrive, only chunks that have   *)
(* arrived are acknowledged, and the FIN leaves when all of them are.  What *)
(* fits the buffer is in it once it has arrived.                            *)

UdpInv ==
    /\ UdpTypeOK
    /\ phase \in {"handshake", "data", "fin"} => attempts < Attempts
    /\ \A s \in Seqs : DataFrame(s) \in toReceiver \/ StreamFrame(s) \in toReceiver => s < next_seq
    /\ \A s \in received_chunks : s < next_seq /\ Fits(s, expected_size)
    /\ \A s \in Seqs : Ack(s) \in toSender =>
           s < next_seq /\ (Fits(s, expected_size) => s \in received_chunks)
    /\ \A s \in acked_seqs : Fits(s, expected_size) => s \in received_chunks
    /\ phase \in {"fin", "ok"} => acked_seqs = Seqs
    /\ Fin \in toReceiver => acked_seqs = Seqs
    /\ receiveState \in {"writing", "ok"} =>
           Cardinality(received_chunks) >= NumChunks(expected_size) /\ acked_seqs = Seqs
    /\ receiveState = "ok" => written = received_chunks

\* Datagrams of different kinds, or for different chunks, differ.
LEMMA DatagramsDiffer ==
    /\ \A s : Request # DataFrame(s) /\ Request # StreamFrame(s) /\ Request # Fin
    /\ \A s : Fin # DataFrame(s) /\ Fin # StreamFrame(s)
    /\ \A s : Response # Ack(s) /\ FinAck # Ack(s)
    /\ \A s, t : Ack(s) = Ack(t) => s = t
    /\ \A s, t : DataFrame(s) # StreamFrame(t)
    /\ \A s, t : DataFrame(s) = DataFrame(t) => s = t
    /\ \A s, t : StreamFrame(s) = StreamFrame(t) => s = t
  <1>1. /\ Request.frame = "HANDSHAKE_REQ" /\ Fin.frame = "FIN"
        /\ Response.frame = "HANDSHAKE_RESP" /\ FinAck.frame = "FIN_ACK"
    BY DEF Request, Fin, Response, FinAck
  <1>2. \A s : /\ Ack(s).frame = "ACK" /\ Ack(s).seq = s
               /\ DataFrame(s).frame = "DATA" /\ DataFrame(s).seq = s
               /\ StreamFrame(s).frame = "STREAM_DATA" /\ StreamFrame(s).seq = s
    BY DEF Ack, DataFrame, StreamFrame
  <1>3. QED
    BY <1>1, <1>2

\* Any size has a number of chunks, and the chunks that fit it are among them.
LEMMA NumChunksType == \A n \in Nat : NumChunks(n) \in Nat
  BY DEF NumChunks

LEMMA UdpChunksType == UdpChunks \in Nat
  BY UdpAssumption, NumChunksType DEF UdpAssumption, UdpChunks

LEMMA FittingChunks ==
    ASSUME NEW n \in Nat, NEW s \in Seqs, Fits(s, n)
    PROVE  s \in 0..(NumChunks(n) - 1)
  <1>1. TotalSize \in Nat /\ s \in Nat /\ s <= (TotalSize + 1) \div 2 - 1
    BY UdpAssumption, UdpChunksType DEF UdpAssumption, Seqs, UdpChunks, NumChunks
  <1>2. 2 * s < TotalSize
    BY <1>1
  <1>3. 2 * s < n
    BY <1>1, <1>2 DEF Fits, ChunkEnd
  <1>4. QED
    BY <1>1, <1>3 DEF NumChunks

\* Every chunk fits a size that is not too small.
LEMMA LargeEnough ==
    ASSUME NEW n \in Nat, n >= TotalSize, NEW s \in Seqs
    PROVE  Fits(s, n)
  <1>1. TotalSize \in Nat /\ s \in Nat
    BY UdpAssumption, UdpChunksType DEF UdpAssumption, Seqs
  <1>2. QED
    BY <1>1 DEF Fits, ChunkEnd

\* A set of chunks as numerous as those of a size is all of them.
LEMMA AllOf ==
    ASSUME NEW n \in Nat, NEW S \in SUBSET (0..(n - 1)), Cardinality(S) >= n
    PROVE  S = 0..(n - 1)
  <1>1. IsFiniteSet(0..(n - 1)) /\ Cardinality(0..(n - 1)) = n
    <2>1. IsFiniteSet(0..(n - 1))
      BY FS_Interval
    <2>2. Cardinality(0..(n - 1)) = n
      BY FS_Interval
    <2>3. QED
      BY <2>1, <2>2
  <1>2. IsFiniteSet(S) /\ Cardinality(S) \in Nat /\ Cardinality(S) <= n
    BY <1>1, FS_Subset, FS_CardinalityType
  <1>3. Cardinality(S) = Cardinality(0..(n - 1))
    BY <1>1, <1>2
  <1>4. QED
    BY <1>1, <1>3, FS_Subset

LEMMA AllChunks ==
    ASSUME NEW S \in SUBSET Seqs, Cardinality(S) >= UdpChunks
    PROVE  S = Seqs
  BY UdpChunksType, AllOf DEF Seqs

LEMMA UdpInit_Inv == UdpInit => UdpInv
  <1> SUFFICES ASSUME UdpInit PROVE UdpInv
    OBVIOUS
  <1>1. UdpTypeOK
    <2>1. 0 \in 0..Attempts /\ 0 \in 0..UdpChunks
      BY UdpAssumption, UdpChunksType DEF UdpAssumption
    <2>2. cwnd \in Nat \ {0} /\ expected_size \in Nat
      BY UdpAssumption DEF UdpInit, UdpAssumption
    <2>3. QED
      BY <2>1, <2>2 DEF UdpInit, UdpTypeOK
  <1>2. attempts < Attempts
    BY UdpAssumption DEF UdpInit, UdpAssumption
  <1>3. QED
    BY <1>1, <1>2 DEF UdpInit, UdpInv

LEMMA UdpSender_Inv ==
    ASSUME UdpInv,
           \/ SendFails \/ SendRequest \/ HandshakeTimeout \/ HandshakeAnswered \/ SendFin
           \/ FinAgain \/ FinDone \/ FinTimeout \/ ReaderEnds
    PROVE  UdpInv'
  <1>0. UdpInv /\ UdpTypeOK /\ UdpAssumption
    BY UdpAssumption DEF UdpInv
  <1>1. CASE SendFails \/ ReaderEnds
    BY <1>0, <1>1 DEF SendFails, ReaderEnds, UdpInv, UdpTypeOK, udpReceiverVars
  <1>2. CASE SendRequest
    BY <1>0, <1>2, DatagramsDiffer DEF SendRequest, UdpInv, UdpTypeOK, udpReceiverVars
  <1>3. CASE HandshakeTimeout
    <2>1. /\ attempts \in Nat /\ attempts < Attempts /\ Attempts \in Nat /\ attempts' = attempts + 1
          /\ phase' = IF attempts + 1 = Attempts THEN "err" ELSE "handshake"
      BY <1>0, <1>3 DEF HandshakeTimeout, UdpInv, UdpTypeOK, UdpAssumption
    <2>2. attempts' \in 0..Attempts /\ (phase' \in {"handshake", "data", "fin"} => attempts' < Attempts)
      BY <2>1
    <2>3. UdpTypeOK'
      BY <1>0, <1>3, <2>1, <2>2 DEF HandshakeTimeout, UdpTypeOK, udpReceiverVars
    <2>4. QED
      BY <1>0, <1>3, <2>1, <2>2, <2>3 DEF HandshakeTimeout, UdpInv, udpReceiverVars
  <1>4. CASE HandshakeAnswered
    <2>1. UdpChunks = 0 => acked_seqs = Seqs
      BY <1>0 DEF UdpTypeOK, Seqs
    <2>2. 0 \in 0..Attempts /\ 0 < Attempts
      BY <1>0 DEF UdpAssumption
    <2>3. UdpTypeOK'
      BY <1>0, <1>4, <2>2 DEF HandshakeAnswered, UdpTypeOK, udpReceiverVars
    <2>4. \A s \in Seqs : Ack(s) \in toSender' => Ack(s) \in toSender
      BY <1>4 DEF HandshakeAnswered
    <2>5. QED
      BY <1>0, <1>4, <2>1, <2>2, <2>3, <2>4 DEF HandshakeAnswered, UdpInv, udpReceiverVars
  <1>5. CASE SendFin
    BY <1>0, <1>5, DatagramsDiffer DEF SendFin, UdpInv, UdpTypeOK, udpReceiverVars
  <1>6. CASE FinAgain
    BY <1>0, <1>6 DEF FinAgain, UdpInv, UdpTypeOK, udpReceiverVars
  <1>7. CASE FinDone
    BY <1>0, <1>7 DEF FinDone, UdpInv, UdpTypeOK, udpReceiverVars
  <1>8. CASE FinTimeout
    <2>1. /\ attempts \in Nat /\ attempts < Attempts /\ Attempts \in Nat /\ attempts' = attempts + 1
          /\ phase' = IF attempts + 1 = Attempts THEN "ok" ELSE "fin"
      BY <1>0, <1>8 DEF FinTimeout, UdpInv, UdpTypeOK, UdpAssumption
    <2>2. attempts' \in 0..Attempts /\ (phase' \in {"handshake", "data", "fin"} => attempts' < Attempts)
      BY <2>1
    <2>3. UdpTypeOK'
      BY <1>0, <1>8, <2>1, <2>2 DEF FinTimeout, UdpTypeOK, udpReceiverVars
    <2>4. QED
      BY <1>0, <1>8, <2>1, <2>2, <2>3 DEF FinTimeout, UdpInv, udpReceiverVars
  <1>9. QED
    BY <1>1, <1>2, <1>3, <1>4, <1>5, <1>6, <1>7, <1>8

LEMMA UdpData_Inv ==
    ASSUME UdpInv, SendDatagram \/ Retransmit \/ \E seq \in Seqs : TakeAck(seq)
    PROVE  UdpInv'
  <1>0. UdpTypeOK /\ UdpAssumption
    BY UdpAssumption DEF UdpInv
  <1>1. CASE SendDatagram
    <2>1. /\ next_seq \in Nat /\ next_seq < UdpChunks /\ next_seq' = next_seq + 1
          /\ toReceiver' = toReceiver \cup {Packet(next_seq)} /\ UdpChunks \in Nat
      BY <1>0, <1>1, UdpChunksType DEF SendDatagram, WindowOpen, UdpTypeOK
    <2>2. Packet(next_seq) \in {DataFrame(next_seq), StreamFrame(next_seq)}
      BY DEF Packet
    <2>3. UdpTypeOK'
      BY <1>0, <1>1, <2>1 DEF SendDatagram, UdpTypeOK, udpReceiverVars
    <2>4. \A s \in Seqs : DataFrame(s) \in toReceiver' \/ StreamFrame(s) \in toReceiver' => s < next_seq'
      BY <1>0, <2>1, <2>2, DatagramsDiffer DEF UdpInv, Seqs
    <2>5. /\ \A s \in received_chunks : s < next_seq'
          /\ \A s \in Seqs : s < next_seq => s < next_seq'
      BY <1>0, <2>1, UdpChunksType DEF UdpInv, UdpTypeOK, Seqs
    <2>6. Fin \in toReceiver' => Fin \in toReceiver
      BY <2>1, <2>2, DatagramsDiffer
    <2>7. QED
      BY <1>0, <1>1, <2>3, <2>4, <2>5, <2>6 DEF SendDatagram, UdpInv, udpReceiverVars
  <1>2. CASE Retransmit
    <2>1. ASSUME NEW s \in Outstanding PROVE s \in Seqs /\ s < next_seq
      <3>1. IsFiniteSet(0..(next_seq - 1)) /\ next_seq \in 0..UdpChunks /\ UdpChunks \in Nat
        BY <1>0, UdpChunksType, FS_Interval DEF UdpTypeOK
      <3>2. Cardinality(acked_seqs) \in Nat
        BY <1>0, <3>1, FS_Subset, FS_CardinalityType DEF UdpTypeOK
      <3>3. QED
        BY <3>1, <3>2 DEF Outstanding, Seqs
    <2>2. cwnd' \in Nat \ {0}
      BY <1>0, <1>2 DEF Retransmit, UdpTypeOK, UdpAssumption
    <2>3. UdpTypeOK'
      BY <1>0, <1>2, <2>2 DEF Retransmit, UdpTypeOK, udpReceiverVars
    <2>4. \A s \in Seqs : DataFrame(s) \in toReceiver' \/ StreamFrame(s) \in toReceiver' => s < next_seq
      BY <1>2, <2>1, DatagramsDiffer DEF Retransmit, UdpInv, Packet
    <2>5. Fin \in toReceiver' => Fin \in toReceiver
      BY <1>2, DatagramsDiffer DEF Retransmit, Packet
    <2>6. QED
      BY <1>2, <2>3, <2>4, <2>5 DEF Retransmit, UdpInv, udpReceiverVars
  <1>3. ASSUME NEW seq \in Seqs, TakeAck(seq) PROVE UdpInv'
    <2>1. /\ acked_seqs' = acked_seqs \cup {seq} /\ seq < next_seq
          /\ Fits(seq, expected_size) => seq \in received_chunks
      BY <1>3 DEF TakeAck, UdpInv
    <2>2. /\ \A s \in acked_seqs' : Fits(s, expected_size) => s \in received_chunks
          /\ acked_seqs' \in SUBSET Seqs
      BY <1>0, <2>1, UdpChunksType DEF UdpInv, UdpTypeOK, Seqs
    <2>3. acked_seqs = Seqs => acked_seqs' = Seqs
      BY <2>1, <2>2
    <2>4. phase' \in {"fin", "ok"} => acked_seqs' = Seqs
      <3>1. CASE Cardinality(acked_seqs') = UdpChunks
        BY <2>2, <3>1, UdpChunksType, AllChunks
      <3>2. CASE Cardinality(acked_seqs') # UdpChunks
        BY <1>3, <2>1, <3>2 DEF TakeAck
      <3>3. QED
        BY <3>1, <3>2
    <2>5. acked_seqs' \subseteq 0..(next_seq - 1) /\ cwnd' \in Nat \ {0}
      BY <1>0, <1>3, <2>1, UdpChunksType DEF TakeAck, UdpTypeOK, Seqs
    <2>6. UdpTypeOK'
      BY <1>0, <1>3, <2>5 DEF TakeAck, UdpTypeOK, udpReceiverVars
    <2>7. \A s \in Seqs : Ack(s) \in toSender' => Ack(s) \in toSender
      BY <1>3 DEF TakeAck
    <2>8. UNCHANGED <<attempts, next_seq, toReceiver, expected_size, receiveState, received_chunks, written>>
          /\ phase = "data"
      BY <1>3 DEF TakeAck, udpReceiverVars
    <2>9. phase' \in {"handshake", "data", "fin"} => attempts' < Attempts
      BY <2>8 DEF UdpInv
    <2>10. QED
      BY <2>2, <2>3, <2>4, <2>6, <2>7, <2>8, <2>9 DEF UdpInv
  <1>4. QED
    BY <1>1, <1>2, <1>3

LEMMA UdpReceiver_Inv ==
    ASSUME UdpInv,
           \/ ReceiveRequest \/ TakeFin \/ WriteFile \/ ReceiveFails \/ Lose \/ PortUnreachable
           \/ \E seq \in Seqs : receive_file_udp(seq) \/ receive_file_quic(seq)
    PROVE  UdpInv'
  <1>0. UdpTypeOK /\ UdpAssumption
    BY UdpAssumption DEF UdpInv
  <1>1. CASE ReceiveRequest
    BY <1>0, <1>1, DatagramsDiffer
       DEF ReceiveRequest, Taken, UdpInv, UdpTypeOK, senderVars, udpReceiverVars
  <1>2. CASE TakeFin
    <2>1. Fin \in toReceiver /\ acked_seqs = Seqs /\ UNCHANGED <<framing, senderVars, refused>>
      BY <1>2 DEF TakeFin, Taken, UdpInv
    <2>2. /\ toReceiver' \subseteq toReceiver /\ toSender' = toSender \cup {FinAck}
          /\ UNCHANGED <<expected_size, received_chunks, written>> /\ receiveState = "loop"
      BY <1>2 DEF TakeFin, Taken
    <2>3. /\ receiveState' \in {"loop", "writing"}
          /\ receiveState' = "writing" => Cardinality(received_chunks) >= NumChunks(expected_size)
      BY <1>2, <2>2 DEF TakeFin
    <2>4. UdpTypeOK'
      BY <1>0, <2>1, <2>2, <2>3 DEF UdpTypeOK, senderVars
    <2>5. QED
      BY <2>1, <2>2, <2>3, <2>4, DatagramsDiffer DEF UdpInv, senderVars
  <1>3. CASE Lose
    BY <1>0, <1>3 DEF Lose, UdpInv, UdpTypeOK, senderVars, udpReceiverVars
  <1>4. CASE PortUnreachable
    BY <1>0, <1>4 DEF PortUnreachable, UdpInv, UdpTypeOK, senderVars, udpReceiverVars
  <1>5. ASSUME NEW seq \in Seqs, receive_file_udp(seq) \/ receive_file_quic(seq) PROVE UdpInv'
    <2>1. /\ DataFrame(seq) \in toReceiver \/ StreamFrame(seq) \in toReceiver
          /\ toReceiver' \subseteq toReceiver
          /\ UNCHANGED <<framing, senderVars, refused>> /\ Store(seq)
      BY <1>5 DEF receive_file_udp, receive_file_quic, Taken
    <2>2. seq < next_seq
      BY <2>1 DEF UdpInv
    <2>3. /\ received_chunks' = IF Fits(seq, expected_size) THEN received_chunks \cup {seq} ELSE received_chunks
          /\ toSender' = toSender \cup {Ack(seq)} /\ receiveState = "loop"
          /\ UNCHANGED <<expected_size, receiveState, written>>
      BY <1>5 DEF receive_file_udp, receive_file_quic, Taken, Store
    <2>4. UdpTypeOK'
      BY <1>0, <2>1, <2>3 DEF UdpTypeOK, senderVars
    <2>5. /\ \A s \in received_chunks' : s < next_seq /\ Fits(s, expected_size)
          /\ \A s \in Seqs : Ack(s) \in toSender' =>
                 s < next_seq /\ (Fits(s, expected_size) => s \in received_chunks')
          /\ \A s \in acked_seqs : Fits(s, expected_size) => s \in received_chunks'
      BY <2>2, <2>3, DatagramsDiffer DEF UdpInv
    <2>6. QED
      BY <2>1, <2>3, <2>4, <2>5 DEF UdpInv, senderVars
  <1>6. CASE WriteFile
    <2>1. /\ receiveState = "writing"
          /\ (receiveState' = "ok" /\ written' = received_chunks) \/ (receiveState' = "err" /\ written' = written)
          /\ UNCHANGED <<framing, senderVars, refused, toReceiver, toSender, expected_size, received_chunks>>
      BY <1>6 DEF WriteFile
    <2>2. UdpTypeOK'
      BY <1>0, <2>1 DEF UdpTypeOK, senderVars
    <2>3. QED
      BY <2>1, <2>2 DEF UdpInv, senderVars
  <1>7. CASE ReceiveFails
    BY <1>0, <1>7 DEF ReceiveFails, UdpInv, UdpTypeOK, senderVars
  <1>8. QED
    BY <1>1, <1>2, <1>3, <1>4, <1>5, <1>6, <1>7

LEMMA UdpNext_Inv == UdpInv /\ [UdpNext]_udpVars => UdpInv'
  <1>1. UdpInv /\ UdpNext => UdpInv'
    BY UdpSender_Inv, UdpData_Inv, UdpReceiver_Inv DEF UdpNext
  <1>2. UdpInv /\ UNCHANGED udpVars => UdpInv'
    BY DEF UdpInv, UdpTypeOK, udpVars, senderVars, udpReceiverVars
  <1>3. QED
    BY <1>1, <1>2

\* However datagrams are lost, repeated and reordered, and whatever size was announced to
\* the receiver: what is acknowledged and fits is stored, a sender that returns Ok to a
\* receiver with room enough has been received, and the file that is written has no gap
\* (send_file_udp, receive_file_udp and their quic counterparts).
THEOREM UdpOkIsStoredHolds == UdpSpec => []UdpOkIsStored
  <1>1. UdpInv => UdpOkIsStored
    <2> SUFFICES ASSUME UdpInv PROVE UdpOkIsStored
      OBVIOUS
    <2>1. /\ expected_size \in Nat /\ received_chunks \subseteq Seqs
          /\ \A s \in received_chunks : Fits(s, expected_size)
      BY DEF UdpInv, UdpTypeOK
    <2>2. phase = "ok" /\ expected_size >= TotalSize => received_chunks = Seqs
      BY <2>1, LargeEnough DEF UdpInv
    <2>3. received_chunks \in SUBSET (0..(NumChunks(expected_size) - 1)) /\ NumChunks(expected_size) \in Nat
      BY <2>1, FittingChunks, NumChunksType
    <2>4. receiveState \in {"writing", "ok"} => received_chunks = 0..(NumChunks(expected_size) - 1)
      BY <2>3, AllOf DEF UdpInv
    <2>5. QED
      BY <2>2, <2>4 DEF UdpInv, UdpOkIsStored
  <1>2. QED
    BY <1>1, UdpInit_Inv, UdpNext_Inv, PTL DEF UdpSpec

-----------------------------------------------------------------------------
(* FileTransfer: what the receiver has read of a stream, followed by what   *)
(* is in flight, is the range from its first block on; while the connection *)
(* is up and the upload is not cancelled, all of it that was sent.          *)

Block(st, k) == <<st[1], first(st) + k - 1>>

\* What was read and what is in flight are blocks of the stream in their order, or
\* the bytes of a cancellation.
InOrder(st, read, flight) ==
    /\ read \in Seq(Items) /\ flight \in Seq(Items)
    /\ \A k \in 1..Len(read) : read[k] \in {Block(st, k), Junk}
    /\ \A k \in 1..Len(flight) : flight[k] \in {Block(st, Len(read) + k), Junk}

Complete(st, read, flight, n) ==
    /\ Len(read) + Len(flight) = n
    /\ \A k \in 1..Len(read) : read[k] = Block(st, k)
    /\ \A k \in 1..Len(flight) : flight[k] = Block(st, Len(read) + k)

Flow(st) ==
    /\ off[st] \in first(st)..last(st)
    /\ InOrder(st, got[st], pipe[st])
    /\ snd[st] = "idle" => path[st] = "none"
    /\ path[st] = "none" =>
          /\ snd[st] \in {"idle", "error"} /\ rcv[st] = "none"
          /\ pipe[st] = <<>> /\ off[st] = first(st)
    /\ rcv[st] = "none" => got[st] = <<>>
    /\ snd[st] \in {"shut", "ok"} => off[st] = last(st)
    /\ closed[st] => snd[st] \notin {"idle", "sending"}
    /\ path[st] = "up" /\ snd[st] # "cancelled" => Complete(st, got[st], pipe[st], off[st] - first(st))
    /\ path[st] = "up" /\ rcv[st] = "stored" /\ snd[st] \in {"sending", "shut", "ok"} =>
          Len(got[st]) = content_length(st)
    /\ path[st] = "up" /\ rcv[st] = "error" =>
          snd[st] \in {"cancelled", "error"} \/ (server = "dashboard" /\ content_length(st) = 0)
    /\ path[st] # "none" /\ server = "atomic" => st[1] \notin Parallel

FlowTypeOK ==
    /\ server \in {"dashboard", "android", "atomic"} /\ checksum \in BOOLEAN /\ size \in Sizes
    /\ token \in [Uploads -> {"none", "live", "cancelled"}]
    /\ snd \in [Streams -> {"idle", "sending", "shut", "ok", "cancelled", "error"}]
    /\ off \in [Streams -> Nat]
    /\ path \in [Streams -> {"none", "up", "down"}]
    /\ pipe \in [Streams -> Seq(Items)]
    /\ closed \in [Streams -> BOOLEAN]
    /\ rcv \in [Streams -> {"none", "receiving", "stored", "error"}]
    /\ got \in [Streams -> Seq(Items)]

FlowInv == FlowTypeOK /\ \A st \in Streams : Flow(st)

\* The ranges of the streams lie in the file, the range of a whole upload is the file.
LEMMA Ranges ==
    ASSUME size \in Sizes, NEW st \in Streams
    PROVE  /\ st[1] \in Uploads /\ st[2] \in 1..NumStreams /\ size[st[1]] \in Nat
           /\ first(st) \in Nat /\ last(st) \in Nat
           /\ first(st) <= last(st) /\ last(st) <= size[st[1]]
           /\ st[1] \notin Parallel => first(st) = 0 /\ last(st) = size[st[1]]
           /\ content_length(st) = last(st) - first(st) /\ content_length(st) \in Nat
  <1>1. st[1] \in Uploads /\ st[2] \in 1..NumStreams
    BY DEF Streams
  <1> DEFINE n == size[st[1]]
             i == st[2]
             q == n \div NumStreams
  <1>2. n \in Nat /\ NumStreams \in Nat /\ NumStreams > 0 /\ i \in Nat /\ i >= 1 /\ i <= NumStreams
    BY <1>1, TransferAssumption DEF TransferAssumption
  <1>3. q \in Nat /\ NumStreams * q <= n
    BY <1>2
  <1> HIDE DEF q, i, n
  <1>4. /\ (i - 1) * q \in Nat /\ i * q \in Nat /\ i * q = (i - 1) * q + q
        /\ i * q <= NumStreams * q
    <2>1. PICK a \in Nat : i = a + 1
      BY <1>2
    <2>2. PICK b \in Nat : NumStreams = i + b
      BY <1>2
    <2>3. a * q \in Nat /\ b * q \in Nat /\ (a + 1) * q = a * q + q /\ (i + b) * q = i * q + b * q
      BY <1>2, <1>3, <2>1, <2>2
    <2>4. QED
      BY <1>2, <1>3, <2>1, <2>2, <2>3
  <1>5. first(st) = IF st[1] \in Parallel THEN (i - 1) * q ELSE 0
    BY DEF first, Start, i, q, n
  <1>6. last(st) = IF st[1] \in Parallel /\ i < NumStreams THEN i * q ELSE n
    BY DEF last, End, i, q, n
  <1>7. n = size[st[1]]
    BY DEF n
  <1>8. /\ first(st) \in Nat /\ last(st) \in Nat
        /\ first(st) <= last(st) /\ last(st) <= n
        /\ st[1] \notin Parallel => first(st) = 0 /\ last(st) = n
    BY <1>2, <1>3, <1>4, <1>5, <1>6
  <1>9. QED
    BY <1>1, <1>2, <1>7, <1>8 DEF content_length

\* The file is not changed while it is sent.
LEMMA RangesStay ==
    ASSUME UNCHANGED fixedVars
    PROVE  /\ \A st : /\ first(st)' = first(st) /\ last(st)' = last(st)
                      /\ content_length(st)' = content_length(st)
           /\ \A st, k : Block(st, k)' = Block(st, k)
           /\ \A st, r, p : InOrder(st, r, p)' <=> InOrder(st, r, p)
           /\ \A st, r, p, n : Complete(st, r, p, n)' <=> Complete(st, r, p, n)
           /\ \A u : FileOf(u)' = FileOf(u)
           /\ server' = server /\ size' = size /\ checksum' = checksum
  <1>1. server' = server /\ size' = size /\ checksum' = checksum
    BY DEF fixedVars
  <1>2. \A st : first(st)' = first(st) /\ last(st)' = last(st)
    BY <1>1 DEF first, last, Start, End
  <1>3. /\ \A st : content_length(st)' = content_length(st)
        /\ \A st, k : Block(st, k)' = Block(st, k)
    BY <1>2 DEF content_length, Block
  <1>4. QED
    BY <1>1, <1>2, <1>3 DEF InOrder, Complete, FileOf

\* A stream that no step touches keeps its state.
LEMMA FlowKept ==
    ASSUME NEW st \in Streams, Flow(st), UNCHANGED fixedVars,
           off'[st] = off[st], snd'[st] = snd[st], path'[st] = path[st], pipe'[st] = pipe[st],
           closed'[st] = closed[st], rcv'[st] = rcv[st], got'[st] = got[st]
    PROVE  Flow(st)'
  BY RangesStay DEF Flow

\* One more item is sent.
LEMMA SendInOrder ==
    ASSUME NEW st, NEW r, NEW p, InOrder(st, r, p), NEW x \in Items
    PROVE  /\ Append(p, x) \in Seq(Items) /\ Len(Append(p, x)) = Len(p) + 1
           /\ x \in {Block(st, Len(r) + Len(p) + 1), Junk} => InOrder(st, r, Append(p, x))
           /\ \A n : Complete(st, r, p, n) /\ x = Block(st, Len(r) + Len(p) + 1) =>
                        Complete(st, r, Append(p, x), n + 1)
  <1>1. p \in Seq(Items) /\ r \in Seq(Items) /\ Len(p) \in Nat /\ Len(r) \in Nat
    BY DEF InOrder
  <1> DEFINE t == Append(p, x)
  <1>2. /\ t \in Seq(Items) /\ Len(t) = Len(p) + 1
        /\ \A k \in 1..Len(p) : t[k] = p[k]
        /\ t[Len(p) + 1] = x
    BY <1>1, AppendProperties
  <1> HIDE DEF t
  <1>3. Len(r) + (Len(p) + 1) = Len(r) + Len(p) + 1
    BY <1>1
  <1>4. ASSUME x \in {Block(st, Len(r) + Len(p) + 1), Junk} PROVE InOrder(st, r, t)
    <2>1. ASSUME NEW k \in 1..Len(t) PROVE t[k] \in {Block(st, Len(r) + k), Junk}
      <3>1. k \in 1..Len(p) \/ k = Len(p) + 1
        BY <1>1, <1>2
      <3>2. CASE k \in 1..Len(p)
        BY <1>2, <3>2 DEF InOrder
      <3>3. CASE k = Len(p) + 1
        BY <1>2, <1>3, <1>4, <3>3
      <3>4. QED
        BY <3>1, <3>2, <3>3
    <2>2. QED
      BY <1>1, <1>2, <2>1 DEF InOrder
  <1>5. ASSUME NEW n, Complete(st, r, p, n), x = Block(st, Len(r) + Len(p) + 1)
        PROVE  Complete(st, r, t, n + 1)
    <2>1. ASSUME NEW k \in 1..Len(t) PROVE t[k] = Block(st, Len(r) + k)
      <3>1. CASE k = Len(p) + 1
        BY <1>2, <1>3, <1>5, <3>1
      <3>2. CASE k # Len(p) + 1
        <4>1. k \in 1..Len(p)
          BY <1>1, <1>2, <3>2
        <4>2. QED
          BY <1>2, <1>5, <4>1 DEF Complete
      <3>3. QED
        BY <3>1, <3>2
    <2>2. Len(r) + Len(t) = n + 1
      BY <1>1, <1>2, <1>5 DEF Complete
    <2>3. QED
      BY <1>5, <2>1, <2>2 DEF Complete
  <1>6. QED
    BY <1>2, <1>4, <1>5 DEF t

\* The receiver reads one item.
LEMMA ReadInOrder ==
    ASSUME NEW st, NEW r, NEW p, InOrder(st, r, p), p # <<>>
    PROVE  /\ Head(p) \in Items /\ Len(Append(r, Head(p))) = Len(r) + 1
           /\ Len(Tail(p)) = Len(p) - 1
           /\ InOrder(st, Append(r, Head(p)), Tail(p))
           /\ \A n : Complete(st, r, p, n) => Complete(st, Append(r, Head(p)), Tail(p), n)
  <1>1. p \in Seq(Items) /\ r \in Seq(Items) /\ Len(p) \in Nat /\ Len(r) \in Nat /\ Len(p) > 0
    BY DEF InOrder
  <1> DEFINE x == Head(p)
             t == Tail(p)
             g == Append(r, x)
  <1>2. /\ x = p[1] /\ x \in Items /\ t \in Seq(Items) /\ Len(t) = Len(p) - 1
        /\ \A k \in 1..Len(t) : t[k] = p[k + 1]
    BY <1>1, HeadTailProperties
  <1>3. /\ g \in Seq(Items) /\ Len(g) = Len(r) + 1
        /\ \A k \in 1..Len(r) : g[k] = r[k]
        /\ g[Len(r) + 1] = x
    BY <1>1, <1>2, AppendProperties
  <1> HIDE DEF x, t, g
  <1>4. \A k \in 1..Len(t) : k + 1 \in 1..Len(p) /\ Len(r) + (k + 1) = Len(g) + k
    BY <1>1, <1>2, <1>3
  <1>5. InOrder(st, g, t)
    <2>1. \A k \in 1..Len(g) : g[k] \in {Block(st, k), Junk}
      <3> TAKE k \in 1..Len(g)
      <3>1. CASE k = Len(r) + 1
        <4>1. p[1] \in {Block(st, Len(r) + 1), Junk}
          BY <1>1 DEF InOrder
        <4>2. QED
          BY <1>2, <1>3, <3>1, <4>1
      <3>2. CASE k # Len(r) + 1
        <4>1. k \in 1..Len(r)
          BY <1>1, <1>3, <3>2
        <4>2. QED
          BY <1>3, <4>1 DEF InOrder
      <3>3. QED
        BY <3>1, <3>2
    <2>2. \A k \in 1..Len(t) : t[k] \in {Block(st, Len(g) + k), Junk}
      <3> TAKE k \in 1..Len(t)
      <3>1. p[k + 1] \in {Block(st, Len(r) + (k + 1)), Junk}
        BY <1>4 DEF InOrder
      <3>2. QED
        BY <1>2, <1>4, <3>1
    <2>3. QED
      BY <1>2, <1>3, <2>1, <2>2 DEF InOrder
  <1>6. ASSUME NEW n, Complete(st, r, p, n) PROVE Complete(st, g, t, n)
    <2>1. \A k \in 1..Len(g) : g[k] = Block(st, k)
      <3> TAKE k \in 1..Len(g)
      <3>1. CASE k = Len(r) + 1
        <4>1. p[1] = Block(st, Len(r) + 1)
          BY <1>1, <1>6 DEF Complete
        <4>2. QED
          BY <1>2, <1>3, <3>1, <4>1
      <3>2. CASE k # Len(r) + 1
        <4>1. k \in 1..Len(r)
          BY <1>1, <1>3, <3>2
        <4>2. QED
          BY <1>3, <1>6, <4>1 DEF Complete
      <3>3. QED
        BY <3>1, <3>2
    <2>2. \A k \in 1..Len(t) : t[k] = Block(st, Len(g) + k)
      <3> TAKE k \in 1..Len(t)
      <3>1. p[k + 1] = Block(st, Len(r) + (k + 1))
        BY <1>4, <1>6 DEF Complete
      <3>2. QED
        BY <1>2, <1>4, <3>1
    <2>3. Len(g) + Len(t) = Len(r) + Len(p)
      BY <1>1, <1>2, <1>3
    <2>4. QED
      BY <1>6, <2>1, <2>2, <2>3 DEF Complete
  <1>7. QED
    BY <1>2, <1>3, <1>5, <1>6 DEF x, t, g

LEMMA FlowInit == TransferInit => FlowInv
  <1> SUFFICES ASSUME TransferInit PROVE FlowInv
    OBVIOUS
  <1>1. <<>> \in Seq(Items) /\ Len(<<>>) = 0
    OBVIOUS
  <1>2. \A st \in Streams : first(st) \in Nat /\ first(st) \in first(st)..last(st)
    BY Ranges DEF TransferInit
  <1>3. FlowTypeOK
    BY <1>1, <1>2 DEF TransferInit, FlowTypeOK
  <1>4. ASSUME NEW st \in Streams PROVE Flow(st)
    BY <1>1, <1>2 DEF TransferInit, Flow, InOrder
  <1>5. QED
    BY <1>3, <1>4 DEF FlowInv

LEMMA SenderStep_Flow ==
    ASSUME FlowInv, NEW st \in Streams, SenderStep(st) PROVE FlowInv'
  <1>1. UNCHANGED fixedVars /\ rcv' = rcv /\ got' = got /\ token' = token
    BY DEF SenderStep, Connect, ConnectFails, SendChunk, SendUnnoticed, SendError, SendCancel,
           Shutdown, Return, recvVars
  <1>2. /\ st[1] \in Uploads /\ first(st) \in Nat /\ last(st) \in Nat /\ first(st) <= last(st)
        /\ off[st] \in first(st)..last(st) /\ Flow(st) /\ FlowTypeOK
    BY Ranges DEF FlowInv, FlowTypeOK, Flow
  <1>3. InOrder(st, got[st], pipe[st]) /\ Junk \in Items /\ <<st[1], off[st]>> \in Items
    BY <1>2 DEF Flow, Items
  <1>4. /\ snd' \in [Streams -> {"idle", "sending", "shut", "ok", "cancelled", "error"}]
        /\ off' \in [Streams -> Nat] /\ path' \in [Streams -> {"none", "up", "down"}]
        /\ closed' \in [Streams -> BOOLEAN]
        /\ \A o \in Streams : o # st => /\ snd'[o] = snd[o] /\ off'[o] = off[o] /\ path'[o] = path[o]
                                        /\ closed'[o] = closed[o]
    <2>1. CASE Connect(st) \/ ConnectFails(st) \/ Return(st)
      BY <1>2, <2>1 DEF Connect, ConnectFails, Return, FlowTypeOK
    <2>2. CASE SendChunk(st) \/ SendUnnoticed(st)
      <3>1. /\ off \in [Streams -> Nat] /\ off' = [off EXCEPT ![st] = off[st] + 1]
            /\ UNCHANGED <<snd, path, closed>>
        BY <1>2, <2>2 DEF SendChunk, SendUnnoticed, FlowTypeOK
      <3>2. off[st] + 1 \in Nat
        BY <3>1
      <3>3. QED
        BY <1>2, <3>1, <3>2 DEF FlowTypeOK
    <2>3. CASE SendError(st) \/ SendCancel(st) \/ Shutdown(st)
      BY <1>2, <2>3 DEF SendError, SendCancel, Shutdown, FlowTypeOK
    <2>4. QED
      BY <2>1, <2>2, <2>3 DEF SenderStep
  <1>5. /\ pipe' \in [Streams -> Seq(Items)]
        /\ \A o \in Streams : o # st => pipe'[o] = pipe[o]
    <2>1. CASE SendChunk(st) \/ SendCancel(st)
      <3>1. \A x \in Items : Append(pipe[st], x) \in Seq(Items)
        BY <1>3, SendInOrder
      <3>2. pipe \in [Streams -> Seq(Items)]
        BY <1>2 DEF FlowTypeOK
      <3>3. PICK new \in Seq(Items) : pipe' = [pipe EXCEPT ![st] = new]
        BY <1>3, <2>1, <3>1, <3>2 DEF SendChunk, SendCancel
      <3>4. QED
        BY <3>2, <3>3
    <2>2. CASE UNCHANGED pipe
      BY <1>2, <2>2 DEF FlowTypeOK
    <2>3. QED
      BY <2>1, <2>2 DEF SenderStep, Connect, ConnectFails, SendUnnoticed, SendError, Shutdown, Return
  <1>6. FlowTypeOK'
    BY <1>1, <1>2, <1>4, <1>5, RangesStay DEF FlowTypeOK
  <1>7. ASSUME NEW o \in Streams, o # st PROVE Flow(o)'
    BY <1>1, <1>4, <1>5, <1>7, FlowKept DEF FlowInv
  <1>8. Flow(st)'
    <2>1. CASE Connect(st)
      <3>1. got[st] = <<>> /\ pipe[st] = <<>> /\ off[st] = first(st) /\ rcv[st] = "none"
        BY <1>2, <2>1 DEF Connect, Flow
      <3>2. Complete(st, <<>>, <<>>, 0) /\ off[st] - first(st) = 0
        BY <1>2, <3>1 DEF Complete
      <3>3. /\ snd'[st] = "sending" /\ path'[st] = "up" /\ closed'[st] = closed[st]
            /\ pipe'[st] = pipe[st] /\ off'[st] = off[st]
            /\ st[1] \in Parallel => server # "atomic"
        BY <1>2, <2>1 DEF Connect, FlowTypeOK
      <3>4. ~closed[st]
        BY <1>2, <2>1 DEF Connect, Flow, FlowTypeOK
      <3>5. QED
        BY <1>1, <1>2, <1>3, <3>1, <3>2, <3>3, <3>4, RangesStay DEF Flow
    <2>2. CASE ConnectFails(st)
      <3>1. snd'[st] = "error" /\ UNCHANGED <<path, closed, pipe, off>> /\ path[st] = "none"
        BY <1>2, <2>2 DEF ConnectFails, FlowTypeOK, Flow
      <3>2. QED
        BY <1>1, <1>2, <3>1, RangesStay DEF Flow
    <2>3. CASE SendChunk(st)
      <3>1. /\ snd[st] = "sending" /\ path[st] = "up" /\ off[st] < last(st)
            /\ pipe'[st] = Append(pipe[st], <<st[1], off[st]>>) /\ off'[st] = off[st] + 1
            /\ UNCHANGED <<snd, path, closed>>
        BY <1>2, <2>3 DEF SendChunk, FlowTypeOK
      <3>2. Complete(st, got[st], pipe[st], off[st] - first(st))
        BY <1>2, <3>1 DEF Flow
      <3>3. <<st[1], off[st]>> = Block(st, Len(got[st]) + Len(pipe[st]) + 1)
        <4>1. Len(got[st]) + Len(pipe[st]) = off[st] - first(st)
          BY <3>2 DEF Complete
        <4>2. first(st) + ((off[st] - first(st)) + 1) - 1 = off[st]
          BY <1>2
        <4>3. QED
          BY <4>1, <4>2 DEF Block
      <3>4. InOrder(st, got[st], pipe'[st]) /\ Complete(st, got[st], pipe'[st], (off[st] - first(st)) + 1)
        <4> DEFINE x == <<st[1], off[st]>>
        <4>1. x \in Items
          BY <1>3, <3>1, <3>3
        <4> HIDE DEF x
        <4>2. pipe'[st] = Append(pipe[st], x) /\ x = Block(st, Len(got[st]) + Len(pipe[st]) + 1)
          BY <3>1, <3>3 DEF x
        <4>3. /\ InOrder(st, got[st], Append(pipe[st], x))
              /\ Complete(st, got[st], Append(pipe[st], x), (off[st] - first(st)) + 1)
          <5>1. InOrder(st, got[st], pipe[st])
            BY <1>3
          <5>2. x \in {Block(st, Len(got[st]) + Len(pipe[st]) + 1), Junk}
            BY <4>2
          <5>3. /\ InOrder(st, got[st], Append(pipe[st], x))
                /\ \A n : Complete(st, got[st], pipe[st], n) =>
                              Complete(st, got[st], Append(pipe[st], x), n + 1)
            BY <4>1, <4>2, <5>1, <5>2, SendInOrder
          <5>4. QED
            BY <3>2, <5>3
        <4>4. QED
          BY <4>2, <4>3
      <3>5. off'[st] \in first(st)..last(st) /\ (off[st] - first(st)) + 1 = off'[st] - first(st)
        BY <1>2, <3>1
      <3>6. QED
        BY <1>1, <1>2, <3>1, <3>4, <3>5, RangesStay DEF Flow
    <2>4. CASE SendUnnoticed(st)
      <3>1. /\ snd[st] = "sending" /\ path[st] = "down" /\ off[st] < last(st) /\ off'[st] = off[st] + 1
            /\ UNCHANGED <<snd, path, closed, pipe>>
        BY <1>2, <2>4 DEF SendUnnoticed, FlowTypeOK
      <3>2. off'[st] \in first(st)..last(st)
        BY <1>2, <3>1
      <3>3. QED
        BY <1>1, <1>2, <3>1, <3>2, RangesStay DEF Flow
    <2>5. CASE SendError(st)
      <3>1. /\ path[st] = "down" /\ snd'[st] = "error" /\ closed'[st] = TRUE
            /\ UNCHANGED <<off, path, pipe>>
        BY <1>2, <2>5 DEF SendError, FlowTypeOK
      <3>2. QED
        BY <1>1, <1>2, <3>1, RangesStay DEF Flow
    <2>6. CASE SendCancel(st)
      <3>1. /\ pipe'[st] = IF path[st] = "up" THEN Append(pipe[st], Junk) ELSE pipe[st]
            /\ snd'[st] = IF path[st] = "up" THEN "cancelled" ELSE "error"
            /\ UNCHANGED <<off, path>> /\ snd[st] = "sending"
        BY <1>2, <2>6 DEF SendCancel, FlowTypeOK
      <3>2. InOrder(st, got[st], pipe'[st])
        BY <1>3, <3>1, SendInOrder
      <3>3. QED
        BY <1>1, <1>2, <3>1, <3>2, RangesStay DEF Flow
    <2>7. CASE Shutdown(st)
      <3>1. /\ snd[st] = "sending" /\ off[st] = last(st)
            /\ snd'[st] = "shut" \/ (path[st] = "down" /\ snd'[st] = "error")
            /\ UNCHANGED <<off, path, pipe>>
        BY <1>2, <2>7 DEF Shutdown, FlowTypeOK
      <3>2. QED
        BY <1>1, <1>2, <3>1, RangesStay DEF Flow
    <2>8. CASE Return(st)
      <3>1. snd[st] = "shut" /\ snd'[st] = "ok" /\ UNCHANGED <<off, path, pipe, closed>>
        BY <1>2, <2>8 DEF Return, FlowTypeOK
      <3>2. QED
        BY <1>1, <1>2, <3>1, RangesStay DEF Flow
    <2>9. QED
      BY <2>1, <2>2, <2>3, <2>4, <2>5, <2>6, <2>7, <2>8 DEF SenderStep
  <1>9. QED
    BY <1>6, <1>7, <1>8 DEF FlowInv

LEMMA ReceiverStep_Flow ==
    ASSUME FlowInv, NEW st \in Streams, ReceiverStep(st) PROVE FlowInv'
  <1>1. UNCHANGED fixedVars /\ UNCHANGED <<token, snd, off, path, closed>>
    BY DEF ReceiverStep, Accept, RefuseEmpty, Read, Finish, ReadError, sendVars
  <1>2. /\ first(st) \in Nat /\ last(st) \in Nat /\ first(st) <= last(st) /\ size[st[1]] \in Nat
        /\ content_length(st) = last(st) - first(st) /\ content_length(st) \in Nat
        /\ off[st] \in first(st)..last(st) /\ Flow(st) /\ FlowTypeOK
    BY Ranges DEF FlowInv, FlowTypeOK, Flow
  <1>3. /\ InOrder(st, got[st], pipe[st]) /\ got[st] \in Seq(Items) /\ pipe[st] \in Seq(Items)
        /\ Len(got[st]) \in Nat /\ Len(pipe[st]) \in Nat
    BY <1>2 DEF Flow, FlowTypeOK
  <1>4. /\ rcv' \in [Streams -> {"none", "receiving", "stored", "error"}]
        /\ \A o \in Streams : o # st => rcv'[o] = rcv[o]
    BY <1>2 DEF ReceiverStep, Accept, RefuseEmpty, Read, Finish, ReadError, FinishDashboard,
                FinishAndroid, FinishAtomic, FlowTypeOK
  <1>5. /\ pipe' \in [Streams -> Seq(Items)] /\ got' \in [Streams -> Seq(Items)]
        /\ \A o \in Streams : o # st => pipe'[o] = pipe[o] /\ got'[o] = got[o]
    <2>1. CASE Read(st)
      <3>1. Append(got[st], Head(pipe[st])) \in Seq(Items) /\ Tail(pipe[st]) \in Seq(Items)
        BY <1>3, <2>1, ReadInOrder DEF Read, InOrder
      <3>2. pipe \in [Streams -> Seq(Items)] /\ got \in [Streams -> Seq(Items)]
        BY <1>2 DEF FlowTypeOK
      <3>3. QED
        BY <2>1, <3>1, <3>2 DEF Read
    <2>2. CASE UNCHANGED <<pipe, got>>
      BY <1>2, <2>2 DEF FlowTypeOK
    <2>3. QED
      BY <2>1, <2>2 DEF ReceiverStep, Accept, RefuseEmpty, Finish, ReadError
  <1>6. FlowTypeOK'
    BY <1>1, <1>2, <1>4, <1>5, RangesStay DEF FlowTypeOK
  <1>7. ASSUME NEW o \in Streams, o # st PROVE Flow(o)'
    BY <1>1, <1>4, <1>5, <1>7, FlowKept DEF FlowInv
  <1>8. Flow(st)'
    <2>1. CASE Accept(st)
      <3>1. rcv[st] = "none" /\ path[st] = "up" /\ rcv'[st] = "receiving" /\ UNCHANGED <<pipe, got>>
        BY <1>2, <2>1 DEF Accept, FlowTypeOK
      <3>2. QED
        BY <1>1, <1>2, <3>1, RangesStay DEF Flow
    <2>2. CASE RefuseEmpty(st)
      <3>1. /\ server = "dashboard" /\ content_length(st) = 0 /\ path[st] = "up"
            /\ rcv'[st] = "error" /\ rcv[st] = "none" /\ UNCHANGED <<pipe, got>>
        BY <1>2, <2>2 DEF RefuseEmpty, FlowTypeOK
      <3>2. QED
        BY <1>1, <1>2, <3>1, RangesStay DEF Flow
    <2>3. CASE Read(st)
      <3>1. /\ rcv[st] = "receiving" /\ rcv' = rcv /\ pipe[st] # <<>>
            /\ got'[st] = Append(got[st], Head(pipe[st])) /\ pipe'[st] = Tail(pipe[st])
        BY <1>2, <2>3 DEF Read, FlowTypeOK
      <3>2. /\ InOrder(st, got'[st], pipe'[st])
            /\ \A n : Complete(st, got[st], pipe[st], n) => Complete(st, got'[st], pipe'[st], n)
        BY <1>3, <3>1, ReadInOrder
      <3>3. path[st] # "none"
        BY <1>2, <3>1 DEF Flow
      <3>4. QED
        BY <1>1, <1>2, <3>1, <3>2, <3>3, RangesStay DEF Flow
    <2>4. CASE Finish(st)
      <3>1. /\ rcv[st] = "receiving" /\ UNCHANGED <<pipe, got>> /\ rcv'[st] \in {"stored", "error"}
        BY <1>2, <2>4 DEF Finish, FinishDashboard, FinishAndroid, FinishAtomic, FlowTypeOK
      <3>2. ASSUME path[st] = "up", snd[st] \in {"sending", "shut", "ok"}
            PROVE  rcv'[st] = "stored" /\ Len(got[st]) = content_length(st)
        <4>1. Complete(st, got[st], pipe[st], off[st] - first(st))
          BY <1>2, <3>2 DEF Flow
        <4>2. Len(got[st]) + Len(pipe[st]) = off[st] - first(st) /\ Len(got[st]) <= content_length(st)
          <5>1. Len(got[st]) + Len(pipe[st]) = off[st] - first(st)
            BY <4>1 DEF Complete
          <5>2. off[st] \in Nat /\ off[st] <= last(st)
            BY <1>2
          <5> DEFINE g == Len(got[st])
                     p == Len(pipe[st])
                     o == off[st]
                     a == first(st)
                     b == last(st)
          <5>3. g \in Nat /\ p \in Nat /\ a \in Nat /\ b \in Nat /\ content_length(st) = b - a
            BY <1>2, <1>3
          <5> HIDE DEF g, p, o, a, b
          <5>4. o \in Nat /\ o <= b /\ g + p = o - a
            BY <5>1, <5>2 DEF g, p, o, a, b
          <5>5. g <= b - a
            BY <5>3, <5>4
          <5>6. QED
            BY <5>1, <5>3, <5>5 DEF g, p, o, a, b
        <4>3. AtEof(st) => Len(got[st]) = content_length(st)
          <5> SUFFICES ASSUME AtEof(st) PROVE Len(got[st]) = content_length(st)
            OBVIOUS
          <5>1. closed[st] /\ Len(pipe[st]) = 0
            BY <1>3 DEF AtEof
          <5>2. off[st] = last(st)
            BY <1>2, <3>2, <5>1 DEF Flow
          <5>3. QED
            BY <1>2, <1>3, <4>2, <5>1, <5>2
        <4>4. server # "atomic" => (~BodyLeft(st) <=> Len(got[st]) = content_length(st))
          BY <1>2, <1>3, <4>2 DEF BodyLeft
        <4>5. CASE FinishDashboard(st)
          BY <1>2, <4>3, <4>4, <4>5 DEF FinishDashboard, FlowTypeOK
        <4>6. CASE FinishAndroid(st)
          BY <1>2, <4>3, <4>4, <4>6 DEF FinishAndroid, FlowTypeOK
        <4>7. CASE FinishAtomic(st)
          <5>1. Len(got[st]) = content_length(st) /\ st[1] \notin Parallel
            BY <1>2, <3>2, <4>3, <4>7 DEF FinishAtomic, Flow
          <5>2. first(st) = 0 /\ last(st) = size[st[1]] /\ Len(got[st]) = size[st[1]]
            BY <1>2, <5>1, Ranges DEF FlowTypeOK
          <5>3. got[st] = FileOf(st[1])
            <6>1. \A k \in 1..Len(got[st]) : got[st][k] = <<st[1], k - 1>>
              <7> TAKE k \in 1..Len(got[st])
              <7>1. 0 + k - 1 = k - 1
                BY <1>3
              <7>2. QED
                BY <4>1, <5>2, <7>1 DEF Complete, Block
            <6>2. DOMAIN got[st] = 1..size[st[1]] /\ got[st] \in [1..size[st[1]] -> Items]
              BY <1>3, <5>2, LenProperties
            <6>3. QED
              BY <5>2, <6>1, <6>2 DEF FileOf
          <5>4. Intact(st)
            BY <5>2, <5>3 DEF Intact
          <5>5. QED
            BY <1>2, <4>7, <5>1, <5>4 DEF FinishAtomic, FlowTypeOK
        <4>8. QED
          BY <2>4, <4>5, <4>6, <4>7 DEF Finish
      <3>3. path[st] = "up" /\ rcv'[st] = "error" => snd[st] \in {"cancelled", "error"}
        BY <1>2, <3>1, <3>2 DEF FlowTypeOK, Flow
      <3>4. QED
        BY <1>1, <1>2, <3>1, <3>2, <3>3, RangesStay DEF Flow
    <2>5. CASE ReadError(st)
      <3>1. rcv[st] = "receiving" /\ path[st] = "down" /\ rcv'[st] = "error" /\ UNCHANGED <<pipe, got>>
        BY <1>2, <2>5 DEF ReadError, FlowTypeOK
      <3>2. QED
        BY <1>1, <1>2, <3>1, RangesStay DEF Flow
    <2>6. QED
      BY <2>1, <2>2, <2>3, <2>4, <2>5 DEF ReceiverStep
  <1>9. QED
    BY <1>6, <1>7, <1>8 DEF FlowInv

\* A cancelled token, lost connections and crashes of either side.
LEMMA Fault_Flow ==
    ASSUME FlowInv,
           \/ \E st \in Streams : LoseConnection(st)
           \/ \E u \in Uploads : CancelUpload(u) \/ SenderCrash(u)
           \/ ReceiverCrash
    PROVE  FlowInv'
  <1>0. FlowTypeOK /\ <<>> \in Seq(Items) /\ Len(<<>>) = 0
    BY DEF FlowInv
  <1>1. ASSUME NEW st \in Streams, LoseConnection(st) PROVE FlowInv'
    <2>1. PICK n \in 0..Len(pipe[st]) : pipe' = [pipe EXCEPT ![st] = SubSeq(pipe[st], 1, n)]
      BY <1>0, <1>1 DEF LoseConnection, FlowTypeOK
    <2>2. /\ UNCHANGED fixedVars /\ UNCHANGED <<token, snd, off, closed, rcv, got>>
          /\ path[st] = "up" /\ path' = [path EXCEPT ![st] = "down"]
      BY <1>1 DEF LoseConnection, sendVars, recvVars
    <2>3. Flow(st) /\ InOrder(st, got[st], pipe[st])
      BY DEF FlowInv, Flow
    <2> DEFINE p == pipe[st]
               t == SubSeq(p, 1, n)
    <2>4. /\ t \in Seq(Items) /\ Len(t) = n /\ \A k \in 1..n : t[k] = p[k]
      <3>1. p \in Seq(Items) /\ n \in Nat /\ n <= Len(p) /\ Len(p) \in Nat
        BY <2>3 DEF InOrder
      <3>2. \A i \in 1..n : p[i] \in Items
        BY <3>1
      <3>3. QED
        BY <3>1, <3>2, SubSeqProperties
    <2>5. InOrder(st, got[st], t)
      BY <2>3, <2>4 DEF InOrder
    <2> HIDE DEF t
    <2>6. /\ pipe' \in [Streams -> Seq(Items)] /\ path' \in [Streams -> {"none", "up", "down"}]
          /\ pipe'[st] = t /\ path'[st] = "down"
          /\ \A o \in Streams : o # st => pipe'[o] = pipe[o] /\ path'[o] = path[o]
      <3>1. pipe \in [Streams -> Seq(Items)] /\ path \in [Streams -> {"none", "up", "down"}]
        BY <1>0 DEF FlowTypeOK
      <3>2. pipe' = [pipe EXCEPT ![st] = t]
        BY <2>1 DEF t
      <3>3. QED
        BY <2>2, <2>4, <3>1, <3>2
    <2>7. FlowTypeOK'
      BY <1>0, <2>2, <2>6, RangesStay DEF FlowTypeOK
    <2>8. Flow(st)'
      BY <2>2, <2>3, <2>5, <2>6, RangesStay DEF Flow
    <2>9. \A o \in Streams : o # st => Flow(o)'
      BY <2>2, <2>6, FlowKept DEF FlowInv
    <2>10. QED
      BY <2>7, <2>8, <2>9 DEF FlowInv
  <1>2. ASSUME NEW u \in Uploads, CancelUpload(u) PROVE FlowInv'
    <2>1. UNCHANGED fixedVars /\ UNCHANGED <<snd, off, path, pipe, closed, rcv, got>>
      BY <1>2 DEF CancelUpload, recvVars
    <2>2. FlowTypeOK'
      BY <1>0, <1>2, <2>1, RangesStay DEF CancelUpload, FlowTypeOK
    <2>3. \A o \in Streams : Flow(o)'
      BY <2>1, FlowKept DEF FlowInv
    <2>4. QED
      BY <2>2, <2>3 DEF FlowInv
  <1>3. ASSUME NEW u \in Uploads, SenderCrash(u) PROVE FlowInv'
    <2>1. /\ UNCHANGED fixedVars /\ UNCHANGED <<token, off, path, pipe, rcv, got>>
          /\ snd' = [st \in Streams |-> IF st[1] = u /\ snd[st] \in {"idle", "sending", "shut"}
                                        THEN "error" ELSE snd[st]]
          /\ closed' = [st \in Streams |-> closed[st] \/ (st[1] = u /\ path[st] # "none")]
      BY <1>3 DEF SenderCrash, recvVars
    <2>2. FlowTypeOK'
      <3>1. snd' \in [Streams -> {"idle", "sending", "shut", "ok", "cancelled", "error"}]
        BY <1>0, <2>1 DEF FlowTypeOK
      <3>2. closed' \in [Streams -> BOOLEAN]
        BY <2>1
      <3>3. QED
        BY <1>0, <2>1, <3>1, <3>2, RangesStay DEF FlowTypeOK
    <2>3. ASSUME NEW o \in Streams PROVE Flow(o)'
      <3>1. Flow(o)
        BY DEF FlowInv
      <3>2. CASE o[1] = u /\ snd[o] \in {"idle", "sending", "shut"}
        <4>1. snd'[o] = "error"
          BY <2>1, <3>2
        <4>2. QED
          BY <2>1, <3>1, <3>2, <4>1, RangesStay DEF Flow
      <3>3. CASE ~(o[1] = u /\ snd[o] \in {"idle", "sending", "shut"})
        <4>1. snd'[o] = snd[o]
          BY <2>1, <3>3
        <4>2. closed'[o] => snd[o] \notin {"idle", "sending"}
          BY <2>1, <3>1, <3>3 DEF Flow
        <4>3. QED
          BY <2>1, <3>1, <4>1, <4>2, RangesStay DEF Flow
      <3>4. QED
        BY <3>2, <3>3
    <2>4. QED
      BY <2>2, <2>3 DEF FlowInv
  <1>4. ASSUME ReceiverCrash PROVE FlowInv'
    <2>1. /\ UNCHANGED fixedVars /\ UNCHANGED <<token, snd, off, closed, got>>
          /\ rcv' = [st \in Streams |-> IF rcv[st] = "receiving" THEN "error" ELSE rcv[st]]
          /\ path' = [st \in Streams |-> IF path[st] = "up" THEN "down" ELSE path[st]]
          /\ pipe' = [st \in Streams |-> <<>>]
      BY <1>4 DEF ReceiverCrash, sendVars
    <2>2. FlowTypeOK'
      <3>1. rcv' \in [Streams -> {"none", "receiving", "stored", "error"}]
        BY <1>0, <2>1 DEF FlowTypeOK
      <3>2. path' \in [Streams -> {"none", "up", "down"}]
        BY <1>0, <2>1 DEF FlowTypeOK
      <3>3. pipe' \in [Streams -> Seq(Items)]
        BY <1>0, <2>1
      <3>4. QED
        BY <1>0, <2>1, <3>1, <3>2, <3>3, RangesStay DEF FlowTypeOK
    <2>3. ASSUME NEW o \in Streams PROVE Flow(o)'
      <3>1. Flow(o) /\ InOrder(o, got[o], <<>>)
        BY <1>0 DEF FlowInv, Flow, InOrder
      <3>2. /\ path'[o] # "up" /\ (path'[o] = "none" <=> path[o] = "none")
            /\ rcv'[o] = "none" <=> rcv[o] = "none"
            /\ pipe'[o] = <<>>
        BY <2>1
      <3>3. QED
        BY <2>1, <3>1, <3>2, RangesStay DEF Flow
    <2>4. QED
      BY <2>2, <2>3 DEF FlowInv
  <1>5. QED
    BY <1>1, <1>2, <1>3, <1>4

LEMMA FlowNext == FlowInv /\ [TransferNext]_transferVars => FlowInv'
  <1>1. FlowInv /\ TransferNext => FlowInv'
    BY SenderStep_Flow, ReceiverStep_Flow, Fault_Flow DEF TransferNext
  <1>2. FlowInv /\ UNCHANGED transferVars => FlowInv'
    <2> SUFFICES ASSUME FlowInv, UNCHANGED transferVars PROVE FlowInv'
      OBVIOUS
    <2>1. UNCHANGED fixedVars /\ UNCHANGED <<token, snd, off, path, pipe, closed, rcv, got>>
      BY DEF transferVars, sendVars, recvVars
    <2>2. FlowTypeOK'
      BY <2>1, RangesStay DEF FlowInv, FlowTypeOK
    <2>3. \A o \in Streams : Flow(o)'
      BY <2>1, FlowKept DEF FlowInv
    <2>4. QED
      BY <2>2, <2>3 DEF FlowInv
  <1>3. QED
    BY <1>1, <1>2

\* An upload that returns Ok over a connection that was not lost has been received
\* whole when the receiver is done: for any number and size of uploads, any number of
\* streams, cancellations and crashes (upload_single_file, upload_parallel and the
\* three receivers).
THEOREM OkIsReceivedHolds == TransferSpec => []OkIsReceived
  <1>1. FlowInv => OkIsReceived
    <2> SUFFICES ASSUME FlowInv, NEW st \in Streams, snd[st] = "ok", path[st] = "up",
                        rcv[st] \in {"stored", "error"}, ~(server = "dashboard" /\ content_length(st) = 0)
                 PROVE  /\ rcv[st] = "stored"
                        /\ got[st] = [k \in 1..content_length(st) |-> <<st[1], first(st) + k - 1>>]
      BY DEF OkIsReceived
    <2>1. Flow(st) /\ rcv[st] = "stored" /\ Len(got[st]) = content_length(st)
      BY DEF FlowInv, Flow
    <2>2. \A k \in 1..content_length(st) : got[st][k] = <<st[1], first(st) + k - 1>>
      BY <2>1 DEF Flow, Complete, Block
    <2>3. got[st] \in [1..content_length(st) -> Items]
      BY <2>1, LenProperties DEF FlowInv, FlowTypeOK
    <2>4. QED
      BY <2>1, <2>2, <2>3
  <1>2. QED
    BY <1>1, FlowInit, FlowNext, PTL DEF TransferSpec

-----------------------------------------------------------------------------
(* The files of the receivers.  stream_file_receive() has one handler at a  *)
(* time, whose part file is what it has read.                               *)

PartInv ==
    server = "atomic" =>
        /\ \A st, o \in Streams : rcv[st] = "receiving" /\ rcv[o] = "receiving" => st = o
        /\ \A st \in Streams : rcv[st] = "receiving" => part = got[st]

\* A block written at the end of a file.
LEMMA WriteAtEnd ==
    ASSUME NEW f \in Seq(Items), NEW x \in Items
    PROVE  WriteAt(f, Len(f), x) = Append(f, x)
  <1>1. Len(f) \in Nat
    OBVIOUS
  <1>2. /\ Append(f, x) \in [1..(Len(f) + 1) -> Items]
        /\ \A k \in 1..Len(f) : Append(f, x)[k] = f[k]
        /\ Append(f, x)[Len(f) + 1] = x
    <2>1. /\ Append(f, x) \in Seq(Items) /\ Len(Append(f, x)) = Len(f) + 1
          /\ \A k \in 1..Len(f) : Append(f, x)[k] = f[k]
          /\ Append(f, x)[Len(f) + 1] = x
      BY AppendProperties
    <2> DEFINE t == Append(f, x)
    <2> HIDE DEF t
    <2>2. t \in Seq(Items) => t \in [1..Len(t) -> Items]
      BY LenProperties
    <2>3. QED
      BY <2>1, <2>2 DEF t
  <1> DEFINE g == [k \in 1..(Len(f) + 1) |-> IF k = Len(f) + 1 THEN x ELSE f[k]]
  <1>3. WriteAt(f, Len(f), x) = g
    BY <1>1 DEF WriteAt
  <1>4. ASSUME NEW k \in 1..(Len(f) + 1) PROVE g[k] = Append(f, x)[k]
    BY <1>1, <1>2
  <1> DEFINE t == Append(f, x)
  <1>5. t = [k \in 1..(Len(f) + 1) |-> t[k]]
    BY <1>2
  <1> HIDE DEF t
  <1>6. g = t
    BY <1>4, <1>5 DEF t
  <1>7. QED
    BY <1>3, <1>6 DEF t

LEMMA PartNext ==
    FlowInv /\ PartInv /\ [TransferNext]_transferVars => PartInv'
  <1> SUFFICES ASSUME FlowInv, PartInv, [TransferNext]_transferVars, server' = "atomic" PROVE PartInv'
    BY DEF PartInv
  <1>1. UNCHANGED fixedVars /\ server = "atomic"
    BY DEF TransferNext, SenderStep, Connect, ConnectFails, SendChunk, SendUnnoticed, SendError,
           SendCancel, Shutdown, Return, ReceiverStep, Accept, RefuseEmpty, Read, Finish, ReadError,
           LoseConnection, CancelUpload, SenderCrash, ReceiverCrash, transferVars, fixedVars
  <1>2. rcv \in [Streams -> {"none", "receiving", "stored", "error"}]
        /\ got \in [Streams -> Seq(Items)]
    BY DEF FlowInv, FlowTypeOK
  <1>3. CASE UNCHANGED <<rcv, got, part>>
    BY <1>1, <1>3 DEF PartInv
  <1>4. ASSUME NEW st \in Streams, Accept(st) PROVE PartInv'
    <2>1. /\ \A o \in Streams : rcv[o] # "receiving"
          /\ part' = <<>> /\ rcv' = [rcv EXCEPT ![st] = "receiving"] /\ got' = got /\ rcv[st] = "none"
      BY <1>1, <1>4 DEF Accept, OpenDashboard, OpenAndroid, OpenAtomic
    <2>2. got[st] = <<>>
      BY <2>1 DEF FlowInv, Flow
    <2>3. QED
      BY <1>2, <2>1, <2>2 DEF PartInv
  <1>5. ASSUME NEW st \in Streams, Read(st) PROVE PartInv'
    <2>1. /\ rcv[st] = "receiving" /\ rcv' = rcv /\ pipe[st] # <<>>
          /\ part' = WriteAt(part, Len(got[st]), Head(pipe[st]))
          /\ got' = [got EXCEPT ![st] = Append(got[st], Head(pipe[st]))]
      BY <1>1, <1>2, <1>5 DEF Read, Write
    <2>2. got[st] \in Seq(Items) /\ Head(pipe[st]) \in Items /\ part = got[st]
      BY <1>1, <1>2, <2>1, ReadInOrder DEF FlowInv, Flow, PartInv
    <2>3. part' = Append(got[st], Head(pipe[st]))
      BY <2>1, <2>2, WriteAtEnd
    <2>4. got'[st] = part'
      BY <1>2, <2>1, <2>3
    <2>5. QED
      BY <1>1, <2>1, <2>4 DEF PartInv
  <1>6. ASSUME NEW st \in Streams, Finish(st) \/ RefuseEmpty(st) \/ ReadError(st) PROVE PartInv'
    <2>1. /\ \A o \in Streams : rcv'[o] = "receiving" => o # st /\ rcv[o] = "receiving"
          /\ got' = got /\ (part' = part \/ rcv[st] = "receiving")
      BY <1>1, <1>2, <1>6 DEF Finish, FinishDashboard, FinishAndroid, FinishAtomic, RefuseEmpty, ReadError
    <2>2. QED
      BY <1>1, <2>1 DEF PartInv
  <1>7. CASE ReceiverCrash
    BY <1>1, <1>7 DEF ReceiverCrash, PartInv
  <1>8. QED
    BY <1>3, <1>4, <1>5, <1>6, <1>7
       DEF TransferNext, SenderStep, Connect, ConnectFails, SendChunk, SendUnnoticed, SendError,
           SendCancel, Shutdown, Return, ReceiverStep, LoseConnection, CancelUpload, SenderCrash,
           transferVars, recvVars

\* The detailed receivers implement AtomicFile: under the final name there is nothing
\* or one complete file, and it changes in one step, when stream_file_receive() is
\* given the checksum; however uploads follow each other, are cut off or cancelled,
\* and whoever crashes.
THEOREM FileIsAtomicHolds == TransferSpec => FileIsAtomic
  <1> DEFINE content == IF server = "atomic" /\ checksum THEN file ELSE None
             offered == {FileOf(u) : u \in Uploads}
  <1>1. TransferInit => content = None
    BY DEF TransferInit
  <1>2. TransferInit => PartInv
    BY DEF TransferInit, PartInv
  <1>3. ASSUME FlowInv, PartInv, [TransferNext]_transferVars
        PROVE  /\ offered' = offered
               /\ content' = content \/ \E c \in offered : content' = c
    <2>1. UNCHANGED fixedVars
      BY <1>3 DEF TransferNext, SenderStep, Connect, ConnectFails, SendChunk, SendUnnoticed, SendError,
             SendCancel, Shutdown, Return, ReceiverStep, Accept, RefuseEmpty, Read, Finish, ReadError,
             LoseConnection, CancelUpload, SenderCrash, ReceiverCrash, transferVars
    <2>2. offered' = offered /\ server' = server /\ checksum' = checksum
      BY <2>1, RangesStay
    <2>3. CASE ~(server = "atomic" /\ checksum)
      BY <2>2, <2>3
    <2>4. CASE server = "atomic" /\ checksum /\ UNCHANGED file
      BY <2>2, <2>4
    <2>5. CASE server = "atomic" /\ checksum /\ \E st \in Streams : Finish(st)
      <3>1. PICK st \in Streams : Finish(st)
        BY <2>5
      <3>2. UNCHANGED file \/ (Intact(st) /\ file' = part)
        BY <2>5, <3>1 DEF Finish, FinishDashboard, FinishAndroid, FinishAtomic
      <3>3. rcv[st] = "receiving" => part = got[st]
        BY <1>3, <2>5 DEF PartInv
      <3>4. UNCHANGED file \/ file' = FileOf(st[1])
        BY <2>5, <3>1, <3>2, <3>3 DEF Finish, Intact
      <3>5. st[1] \in Uploads
        BY DEF Streams
      <3>6. QED
        BY <2>2, <2>5, <3>4, <3>5
    <2>6. server = "atomic" => UNCHANGED file \/ \E st \in Streams : Finish(st)
      BY <1>3
         DEF TransferNext, SenderStep, Connect, ConnectFails, SendChunk, SendUnnoticed, SendError,
             SendCancel, Shutdown, Return, ReceiverStep, Accept, OpenDashboard, OpenAndroid, OpenAtomic,
             RefuseEmpty, Read, Write, ReadError, LoseConnection, CancelUpload, SenderCrash,
             ReceiverCrash, transferVars, recvVars
    <2>7. QED
      BY <2>2, <2>3, <2>4, <2>5, <2>6
  <1>4. ASSUME FlowInv, PartInv, [TransferNext]_transferVars
        PROVE  [Published!AtomicNext]_<<offered, content>>
    BY <1>3, <1>4 DEF Published!AtomicNext, Published!Appear
  <1>5. TransferInit => Published!AtomicInit
    BY <1>1 DEF Published!AtomicInit
  <1>6. QED
    BY <1>2, <1>4, <1>5, FlowInit, FlowNext, PartNext, PTL
       DEF TransferSpec, FileIsAtomic, Published!AtomicSpec

-----------------------------------------------------------------------------
(* What the receivers have written, as long as one upload has been accepted.*)
(* Streams of one upload write disjoint ranges of the file.                 *)

\* What was read of a stream is in the file at its place.
InFile(st) ==
    \A k \in 1..Len(got[st]) : first(st) + k <= Len(file) /\ file[first(st) + k] = got[st][k]

DashboardFile(st) ==
    /\ Len(got[st]) <= content_length(st)
    /\ rcv[st] \in {"receiving", "stored"} => content_length(st) > 0
    /\ accepted \subseteq {st[1]} => InFile(st)

AndroidFile(st) ==
    /\ Len(got[st]) <= content_length(st) /\ flushed[st] <= Len(got[st])
    /\ accepted \subseteq {st[1]} /\ st[1] \notin Parallel =>
          /\ rcv[st] = "receiving" =>
                \A k \in 1..flushed[st] : k <= Len(file) /\ file[k] = got[st][k]
          /\ rcv[st] = "stored" => InFile(st)

AtomicFileOf(st) ==
    accepted \subseteq {st[1]} /\ rcv[st] = "stored" => file = got[st]

StoreTypeOK ==
    /\ flushed \in [Streams -> Nat]
    /\ file = None \/ file \in Seq(Items)
    /\ part = None \/ part \in Seq(Items)
    /\ accepted \subseteq Uploads
    /\ faults \in 0..MaxFaults

StoreInv ==
    /\ StoreTypeOK
    /\ \A st \in Streams : rcv[st] \in {"receiving", "stored"} \/ got[st] # <<>> => st[1] \in accepted
    /\ accepted # {} /\ server # "atomic" => file \in Seq(Items)
    /\ \A st \in Streams : /\ server = "dashboard" => DashboardFile(st)
                           /\ server = "android" => AndroidFile(st)
                           /\ server = "atomic" => AtomicFileOf(st)

LEMMA SeqOfFunction ==
    ASSUME NEW S, NEW n \in Nat, NEW g \in [1..n -> S]
    PROVE  g \in Seq(S) /\ Len(g) = n
  <1>1. g \in Seq(S)
    BY SeqDef
  <1>2. DOMAIN g = 1..Len(g) /\ Len(g) \in Nat /\ DOMAIN g = 1..n
    BY <1>1, LenProperties
  <1>3. QED
    BY <1>1, <1>2

LEMMA WriteAtFile ==
    ASSUME NEW f \in Seq(Items), NEW p \in Nat, NEW x \in Items
    PROVE  LET g == WriteAt(f, p, x) IN
           /\ g \in Seq(Items) /\ Len(g) >= Len(f) /\ Len(g) >= p + 1 /\ g[p + 1] = x
           /\ \A k \in 1..Len(f) : k # p + 1 => g[k] = f[k]
  <1> DEFINE g == WriteAt(f, p, x)
             n == IF Len(f) > p THEN Len(f) ELSE p + 1
  <1>1. n \in Nat /\ n >= Len(f) /\ n >= p + 1 /\ Len(f) \in Nat
    OBVIOUS
  <1>2. \A k \in 1..n : (IF k = p + 1 THEN x ELSE IF k <= Len(f) THEN f[k] ELSE Hole) \in Items
    BY <1>1 DEF Items
  <1>3. g = [k \in 1..n |-> IF k = p + 1 THEN x ELSE IF k <= Len(f) THEN f[k] ELSE Hole]
    BY DEF WriteAt
  <1> HIDE DEF g, n
  <1>4. g \in [1..n -> Items]
    BY <1>2, <1>3
  <1>5. g \in Seq(Items) /\ Len(g) = n
    BY <1>1, <1>4, SeqOfFunction
  <1>6. g[p + 1] = x /\ \A k \in 1..Len(f) : k # p + 1 => g[k] = f[k]
    BY <1>1, <1>3
  <1>7. QED
    BY <1>1, <1>5, <1>6 DEF g

LEMMA SetLenFile ==
    ASSUME NEW f \in Seq(Items), NEW n \in Nat
    PROVE  LET g == SetLen(f, n) IN
           g \in Seq(Items) /\ Len(g) = n /\ \A k \in 1..n : k <= Len(f) => g[k] = f[k]
  <1> DEFINE g == SetLen(f, n)
  <1>1. g = [k \in 1..n |-> IF k <= Len(f) THEN f[k] ELSE Hole]
    BY DEF SetLen
  <1>2. \A k \in 1..n : (IF k <= Len(f) THEN f[k] ELSE Hole) \in Items
    BY DEF Items
  <1> HIDE DEF g
  <1>3. g \in [1..n -> Items]
    BY <1>1, <1>2
  <1>4. g \in Seq(Items) /\ Len(g) = n
    BY <1>3, SeqOfFunction
  <1>5. QED
    BY <1>1, <1>4 DEF g

LEMMA FlushFile ==
    ASSUME NEW st, NEW body \in Seq(Items), file \in Seq(Items), flushed[st] \in Nat,
           \A k \in 1..flushed[st] : k <= Len(file) /\ file[k] = body[k]
    PROVE  LET g == Flush(st, body) IN
           \A k \in 1..Len(body) : k <= Len(g) /\ g[k] = body[k]
  <1> DEFINE g == Flush(st, body)
             n == IF Len(body) > Len(file) THEN Len(body) ELSE Len(file)
  <1>1. n \in Nat /\ n >= Len(body) /\ n >= Len(file) /\ Len(body) \in Nat /\ Len(file) \in Nat
    OBVIOUS
  <1>2. g = [k \in 1..n |-> IF k > flushed[st] /\ k <= Len(body) THEN body[k]
                            ELSE IF k <= Len(file) THEN file[k] ELSE Hole]
    BY DEF Flush
  <1>3. \A k \in 1..n : (IF k > flushed[st] /\ k <= Len(body) THEN body[k]
                         ELSE IF k <= Len(file) THEN file[k] ELSE Hole) \in Items
    BY <1>1 DEF Items
  <1> HIDE DEF g, n
  <1>4. g \in [1..n -> Items]
    BY <1>2, <1>3
  <1>5. Len(g) = n
    BY <1>1, <1>4, SeqOfFunction
  <1>6. ASSUME NEW k \in 1..Len(body) PROVE g[k] = body[k]
    <2>1. CASE k > flushed[st]
      BY <1>1, <1>2, <2>1
    <2>2. CASE k <= flushed[st]
      BY <1>1, <1>2, <2>2
    <2>3. QED
      BY <2>1, <2>2
  <1>7. QED
    BY <1>1, <1>5, <1>6 DEF g

\* The file after a flush is a file, whatever was in it.
LEMMA FlushIsFile ==
    ASSUME NEW st, NEW body \in Seq(Items), file \in Seq(Items), flushed[st] \in Nat
    PROVE  Flush(st, body) \in Seq(Items)
  <1> DEFINE n == IF Len(body) > Len(file) THEN Len(body) ELSE Len(file)
  <1>1. n \in Nat /\ Len(body) \in Nat /\ Len(file) \in Nat
    OBVIOUS
  <1>2. \A k \in 1..n : (IF k > flushed[st] /\ k <= Len(body) THEN body[k]
                         ELSE IF k <= Len(file) THEN file[k] ELSE Hole) \in Items
    BY <1>1 DEF Items
  <1>3. Flush(st, body) \in [1..n -> Items]
    BY <1>2 DEF Flush
  <1>4. QED
    BY <1>1, <1>3, SeqOfFunction

\* Multiplication distributes over addition, as the ranges of the streams need it.
LEMMA Distribute ==
    ASSUME NEW i \in Nat, NEW b \in Nat, NEW q \in Nat
    PROVE  (i + b) * q = i * q + b * q /\ b * q \in Nat /\ i * q \in Nat
  <1>1. (i + b) * q = i * q + b * q
    OBVIOUS
  <1>2. b * q \in Nat
    OBVIOUS
  <1>3. i * q \in Nat
    OBVIOUS
  <1>4. QED
    BY <1>1, <1>2, <1>3

\* Two streams of one upload have ranges that do not meet.
LEMMA RangesDisjoint ==
    ASSUME size \in Sizes, NEW st \in Streams, NEW o \in Streams, st # o, st[1] = o[1]
    PROVE  last(st) <= first(o) \/ last(o) <= first(st)
  <1>1. /\ st[1] \in Uploads /\ st[2] \in 1..NumStreams /\ o[2] \in 1..NumStreams
        /\ st = <<st[1], st[2]>> /\ o = <<o[1], o[2]>>
        /\ st[1] \in Parallel \/ (st[2] = 1 /\ o[2] = 1)
    BY DEF Streams
  <1>2. st[1] \in Parallel /\ st[2] # o[2] /\ NumStreams \in Nat \ {0} /\ size[st[1]] \in Nat
    BY <1>1, TransferAssumption
  <1> DEFINE q == size[st[1]] \div NumStreams
  <1>3. q \in Nat
    BY <1>2
  <1> HIDE DEF q
  <1>4. ASSUME NEW i \in 1..NumStreams, NEW j \in 1..NumStreams, i < j
        PROVE  i * q <= (j - 1) * q
    <2>1. i \in Nat /\ (j - 1) - i \in Nat /\ j - 1 = i + ((j - 1) - i)
      BY <1>2, <1>4
    <2>2. PICK b \in Nat : j - 1 = i + b
      BY <2>1
    <2>3. (i + b) * q = i * q + b * q /\ b * q \in Nat /\ i * q \in Nat
      BY <1>3, <2>1, <2>2, Distribute
    <2>4. QED
      BY <2>2, <2>3
  <1>5. /\ first(st) = (st[2] - 1) * q /\ first(o) = (o[2] - 1) * q
        /\ st[2] < NumStreams => last(st) = st[2] * q
        /\ o[2] < NumStreams => last(o) = o[2] * q
    BY <1>2 DEF first, last, Start, End, q
  <1>6. st[2] < o[2] \/ o[2] < st[2]
    BY <1>1, <1>2
  <1>7. CASE st[2] < o[2]
    BY <1>1, <1>2, <1>4, <1>5, <1>7
  <1>8. CASE o[2] < st[2]
    BY <1>1, <1>2, <1>4, <1>5, <1>8
  <1>9. QED
    BY <1>6, <1>7, <1>8

\* An upload that is not parallel has one stream.
LEMMA OneStream ==
    ASSUME NEW st \in Streams, NEW o \in Streams, st[1] = o[1], st[1] \notin Parallel
    PROVE  st = o
  <1>1. st = <<st[1], st[2]>> /\ o = <<o[1], o[2]>>
    BY DEF Streams
  <1>2. st[2] = 1 /\ o[2] = 1
    BY DEF Streams
  <1>3. QED
    BY <1>1, <1>2

\* What holds of a stream's place in the file, whichever the receiver.
Placed(st) ==
    /\ rcv[st] \in {"receiving", "stored"} \/ got[st] # <<>> => st[1] \in accepted
    /\ server = "dashboard" => DashboardFile(st)
    /\ server = "android" => AndroidFile(st)
    /\ server = "atomic" => AtomicFileOf(st)

\* A stream keeps its place while nothing is written and no file is opened.
LEMMA StoreKept ==
    ASSUME NEW st \in Streams, Placed(st), UNCHANGED fixedVars, UNCHANGED <<file, accepted>>,
           got'[st] = got[st], flushed'[st] = flushed[st], rcv'[st] \in {rcv[st], "error"}
    PROVE  Placed(st)'
  <1>1. /\ first(st)' = first(st) /\ content_length(st)' = content_length(st)
        /\ server' = server
    BY RangesStay
  <1>2. InFile(st)' <=> InFile(st)
    BY <1>1 DEF InFile
  <1>3. DashboardFile(st) => DashboardFile(st)'
    BY <1>1, <1>2 DEF DashboardFile
  <1>4. AndroidFile(st) => AndroidFile(st)'
    BY <1>1, <1>2 DEF AndroidFile
  <1>5. AtomicFileOf(st) => AtomicFileOf(st)'
    BY DEF AtomicFileOf
  <1>6. QED
    BY <1>1, <1>3, <1>4, <1>5 DEF Placed

LEMMA StoreInit == TransferInit => StoreInv
  <1> SUFFICES ASSUME TransferInit PROVE StoreInv
    OBVIOUS
  <1>1. StoreTypeOK
    <2>1. 0 \in 0..MaxFaults
      BY TransferAssumption
    <2>2. QED
      BY <2>1 DEF TransferInit, StoreTypeOK
  <1>2. ASSUME NEW st \in Streams PROVE Placed(st)
    <2>1. got[st] = <<>> /\ flushed[st] = 0 /\ rcv[st] = "none"
      BY DEF TransferInit
    <2>2. content_length(st) \in Nat
      BY Ranges DEF TransferInit
    <2>3. Len(<<>>) = 0 /\ ~(\E k \in 1..0 : TRUE)
      OBVIOUS
    <2>4. InFile(st)
      BY <2>1, <2>3 DEF InFile
    <2>5. QED
      BY <2>1, <2>2, <2>3, <2>4 DEF Placed, DashboardFile, AndroidFile, AtomicFileOf
  <1>3. accepted = {}
    BY DEF TransferInit
  <1>4. QED
    BY <1>1, <1>2, <1>3 DEF StoreInv, Placed

\* A handler starts: it opens the file.
LEMMA StoreAccept ==
    ASSUME FlowInv, StoreInv, UNCHANGED fixedVars, NEW o \in Streams, Accept(o)
    PROVE  StoreInv'
  <1>1. /\ size \in Sizes /\ o[1] \in Uploads /\ size[o[1]] \in Nat
        /\ rcv \in [Streams -> {"none", "receiving", "stored", "error"}]
        /\ rcv[o] = "none" /\ got[o] = <<>> /\ path[o] = "up"
    <2>1. size \in Sizes
      BY DEF FlowInv, FlowTypeOK
    <2>2. QED
      BY <2>1, Ranges DEF FlowInv, FlowTypeOK, Flow, Accept
  <1>2. /\ got' = got /\ flushed' = flushed /\ accepted' = accepted \cup {o[1]} /\ faults' = faults
        /\ rcv' = [rcv EXCEPT ![o] = "receiving"]
    BY DEF Accept
  <1>3. Opened \in Seq(Items) /\ (accepted # {} /\ server # "atomic" => Opened = file)
    BY NoneIsNoFile DEF StoreInv, StoreTypeOK, Opened
  <1>4. SetLen(Opened, size[o[1]]) \in Seq(Items)
    BY <1>1, <1>3, SetLenFile
  <1>5. CASE server = "dashboard"
    <2>1. /\ content_length(o) > 0 /\ part' = part
          /\ file' = IF o[1] \in Parallel /\ first(o) = 0 THEN SetLen(Opened, size[o[1]]) ELSE Opened
      BY <1>5 DEF Accept, OpenDashboard, OpenAndroid, OpenAtomic
    <2>2. file' \in Seq(Items)
      BY <1>3, <1>4, <2>1
    <2>3. StoreTypeOK'
      BY <1>1, <1>2, <2>1, <2>2 DEF StoreInv, StoreTypeOK
    <2>4. ASSUME NEW st \in Streams PROVE Placed(st)'
      <3>1. /\ first(st)' = first(st) /\ content_length(st)' = content_length(st)
            /\ server' = server
        BY RangesStay
      <3>2. /\ first(st) \in Nat /\ last(st) \in Nat /\ last(st) <= size[st[1]]
            /\ content_length(st) = last(st) - first(st)
        BY <1>1, Ranges
      <3>3. DashboardFile(st)
        BY <1>5 DEF StoreInv
      <3>4. ASSUME accepted' \subseteq {st[1]}, got[st] # <<>> PROVE InFile(st)'
        <4>1. accepted = {st[1]} /\ o[1] = st[1]
          BY <1>2, <3>4 DEF StoreInv
        <4>2. InFile(st) /\ Opened = file /\ file \in Seq(Items)
          BY <1>3, <1>5, <3>3, <4>1 DEF DashboardFile, StoreInv
        <4>3. got[st] \in Seq(Items) /\ Len(got[st]) <= content_length(st)
          BY <3>3 DEF DashboardFile, FlowInv, FlowTypeOK
        <4>4. ASSUME NEW k \in 1..Len(got[st])
              PROVE  first(st) + k <= Len(file') /\ file'[first(st) + k] = got[st][k]
          <5>1. /\ first(st) + k <= Len(file) /\ file[first(st) + k] = got[st][k]
                /\ first(st) + k \in 1..size[st[1]]
            BY <1>1, <3>2, <4>1, <4>2, <4>3 DEF InFile
          <5>2. CASE file' = file
            BY <5>1, <5>2
          <5>3. CASE file' = SetLen(file, size[st[1]])
            <6> DEFINE n == size[st[1]]
            <6>1. n \in Nat
              BY <1>1, <4>1
            <6> HIDE DEF n
            <6>2. /\ Len(SetLen(file, n)) = n
                  /\ \A j \in 1..n : j <= Len(file) => SetLen(file, n)[j] = file[j]
              BY <4>2, <6>1, SetLenFile
            <6>3. QED
              BY <5>1, <5>3, <6>1, <6>2 DEF n
          <5>4. QED
            BY <2>1, <4>1, <4>2, <5>2, <5>3
        <4>5. QED
          BY <1>2, <3>1, <4>4 DEF InFile
      <3>5. ASSUME got[st] = <<>> PROVE InFile(st)'
        <4>1. Len(<<>>) = 0 /\ ~(\E k \in 1..0 : TRUE)
          OBVIOUS
        <4>2. QED
          BY <1>2, <3>5, <4>1 DEF InFile
      <3>6. rcv'[st] = rcv[st] \/ st = o
        BY <1>1, <1>2
      <3>7. DashboardFile(st)'
        BY <1>1, <1>2, <2>1, <3>1, <3>3, <3>4, <3>5, <3>6 DEF DashboardFile
      <3>8. QED
        BY <1>2, <1>5, <3>1, <3>6, <3>7 DEF Placed, StoreInv
    <2>5. QED
      BY <2>2, <2>3, <2>4 DEF StoreInv, Placed
  <1>6. CASE server = "android"
    <2>1. file' = <<>> /\ part' = part
      BY <1>6 DEF Accept, OpenDashboard, OpenAndroid, OpenAtomic
    <2>2. file' \in Seq(Items)
      BY <2>1
    <2>3. StoreTypeOK'
      BY <1>1, <1>2, <2>1, <2>2 DEF StoreInv, StoreTypeOK
    <2>4. ASSUME NEW st \in Streams PROVE Placed(st)'
      <3>1. /\ first(st)' = first(st) /\ content_length(st)' = content_length(st)
            /\ server' = server
        BY RangesStay
      <3>2. AndroidFile(st)
        BY <1>6 DEF StoreInv
      <3>3. rcv'[st] = rcv[st] \/ st = o
        BY <1>1, <1>2
      <3>4. ASSUME accepted' \subseteq {st[1]}, st[1] \notin Parallel, st # o
            PROVE  FALSE
        <4>1. o[1] = st[1]
          BY <1>2, <3>4
        <4>2. QED
          BY <3>4, <4>1, OneStream
      <3>5. ASSUME st = o
            PROVE  rcv'[st] = "receiving" /\ flushed[st] = 0
        <4>1. Len(got[st]) = 0 /\ flushed[st] \in Nat /\ flushed[st] <= Len(got[st])
          BY <1>1, <3>2, <3>5 DEF AndroidFile, StoreInv, StoreTypeOK
        <4>2. QED
          BY <1>1, <1>2, <3>5, <4>1
      <3>6. ~(\E k \in 1..0 : TRUE)
        OBVIOUS
      <3>7. AndroidFile(st)'
        BY <1>2, <3>1, <3>2, <3>4, <3>5, <3>6 DEF AndroidFile
      <3>8. QED
        BY <1>2, <1>6, <3>1, <3>3, <3>7 DEF Placed, StoreInv
    <2>5. QED
      BY <2>2, <2>3, <2>4 DEF StoreInv, Placed
  <1>7. CASE server = "atomic"
    <2>1. file' = file /\ part' = <<>> /\ \A st \in Streams : rcv[st] # "receiving"
      BY <1>7 DEF Accept, OpenDashboard, OpenAndroid, OpenAtomic
    <2>2. <<>> \in Seq(Items)
      OBVIOUS
    <2>3. StoreTypeOK'
      BY <1>1, <1>2, <2>1, <2>2 DEF StoreInv, StoreTypeOK
    <2>4. ASSUME NEW st \in Streams PROVE Placed(st)'
      <3>1. server' = server
        BY RangesStay
      <3>2. AtomicFileOf(st)
        BY <1>7 DEF StoreInv
      <3>3. rcv'[st] = rcv[st] \/ (st = o /\ rcv'[st] = "receiving")
        BY <1>1, <1>2
      <3>4. AtomicFileOf(st)'
        BY <1>2, <2>1, <3>2, <3>3 DEF AtomicFileOf
      <3>5. QED
        BY <1>2, <1>7, <3>1, <3>3, <3>4 DEF Placed, StoreInv
    <2>5. server' = "atomic"
      BY <1>7, RangesStay
    <2>6. QED
      BY <2>3, <2>4, <2>5 DEF StoreInv, Placed
  <1>8. QED
    BY <1>5, <1>6, <1>7 DEF FlowInv, FlowTypeOK

\* A handler reads one item and writes it, or keeps it in its buffer.
LEMMA StoreRead ==
    ASSUME FlowInv, PartInv, StoreInv, UNCHANGED fixedVars, NEW o \in Streams, Read(o)
    PROVE  StoreInv'
  <1> DEFINE x == Head(pipe[o])
             body == Append(got[o], x)
  <1>1. /\ size \in Sizes /\ got \in [Streams -> Seq(Items)] /\ flushed \in [Streams -> Nat]
        /\ rcv[o] = "receiving" /\ path[o] # "none" /\ pipe[o] # <<>>
        /\ InOrder(o, got[o], pipe[o])
    BY DEF FlowInv, FlowTypeOK, Flow, Read, StoreInv, StoreTypeOK
  <1>2. x \in Items /\ Len(body) = Len(got[o]) + 1 /\ body \in Seq(Items) /\ Len(got[o]) \in Nat
    BY <1>1, ReadInOrder DEF InOrder
  <1>3. \A k \in 1..Len(got[o]) : body[k] = got[o][k]
    BY <1>1, <1>2, AppendProperties
  <1>4. body[Len(got[o]) + 1] = x
    BY <1>1, <1>2, AppendProperties
  <1>5. /\ rcv' = rcv /\ accepted' = accepted /\ faults' = faults
        /\ got' = [got EXCEPT ![o] = body]
        /\ BodyLeft(o) /\ Write(o, x)
    BY DEF Read
  <1> HIDE DEF x, body
  <1>6. /\ got'[o] = body /\ \A st \in Streams : st # o => got'[st] = got[st]
    BY <1>1, <1>5
  <1>7. o[1] \in accepted
    BY <1>1 DEF StoreInv
  <1>8. server' = server
    BY RangesStay
  <1>9. CASE server = "dashboard"
    <2>1. /\ file' = WriteAt(file, first(o) + Len(got[o]), x) /\ part' = part /\ flushed' = flushed
          /\ Len(got[o]) < content_length(o)
      BY <1>5, <1>9 DEF Write, BodyLeft
    <2>2. file \in Seq(Items)
      BY <1>7, <1>9 DEF StoreInv
    <2> DEFINE p == first(o) + Len(got[o])
    <2>3. /\ p \in Nat /\ p < last(o) /\ first(o) <= p
          /\ first(o) \in Nat /\ last(o) \in Nat
      BY <1>1, <1>2, <2>1, Ranges
    <2>4. p = first(o) + Len(got[o])
      OBVIOUS
    <2> HIDE DEF p
    <2>5. /\ file' \in Seq(Items) /\ Len(file') >= Len(file) /\ Len(file') >= p + 1 /\ file'[p + 1] = x
          /\ \A k \in 1..Len(file) : k # p + 1 => file'[k] = file[k]
      BY <1>2, <2>1, <2>2, <2>3, <2>4, WriteAtFile
    <2>6. StoreTypeOK'
      BY <1>5, <2>1, <2>5 DEF StoreInv, StoreTypeOK
    <2>7. ASSUME NEW st \in Streams PROVE Placed(st)'
      <3>1. /\ first(st)' = first(st) /\ content_length(st)' = content_length(st)
        BY RangesStay
      <3>2. /\ first(st) \in Nat /\ last(st) \in Nat
            /\ content_length(st) = last(st) - first(st)
        BY <1>1, Ranges
      <3>3. DashboardFile(st)
        BY <1>9 DEF StoreInv
      <3>4. CASE st = o
        <4>1. Len(got'[st]) <= content_length(st)
          BY <1>2, <1>6, <2>1, <3>2, <3>4
        <4>2. ASSUME accepted \subseteq {st[1]}, NEW k \in 1..Len(body)
              PROVE  first(st) + k <= Len(file') /\ file'[first(st) + k] = body[k]
          <5>1. CASE k = Len(got[o]) + 1
            <6>1. first(st) + k = p + 1
              BY <1>2, <2>3, <2>4, <3>4, <5>1
            <6>2. QED
              BY <1>4, <2>5, <5>1, <6>1
          <5>2. CASE k # Len(got[o]) + 1
            <6>1. k \in 1..Len(got[o])
              BY <1>2, <5>2
            <6>2. first(st) + k <= Len(file) /\ file[first(st) + k] = body[k]
              BY <1>3, <3>3, <3>4, <4>2, <6>1 DEF DashboardFile, InFile
            <6>3. first(st) + k # p + 1 /\ first(st) + k \in 1..Len(file)
              <7>1. k \in Nat /\ k >= 1 /\ k <= Len(got[o]) /\ p = first(st) + Len(got[o])
                BY <1>2, <2>4, <3>4, <6>1
              <7>2. Len(file) \in Nat
                BY <2>2
              <7> DEFINE a == first(st)
                         g == Len(got[o])
              <7>3. a \in Nat /\ g \in Nat /\ k <= g /\ p = a + g /\ a + k <= Len(file)
                BY <1>2, <3>2, <6>2, <7>1
              <7> HIDE DEF a, g
              <7>4. a + k # p + 1 /\ a + k \in 1..Len(file)
                BY <7>1, <7>2, <7>3
              <7>5. QED
                BY <7>4 DEF a
            <6>4. QED
              BY <2>2, <2>5, <6>2, <6>3
          <5>3. QED
            BY <5>1, <5>2
        <4>3. accepted \subseteq {st[1]} => InFile(st)'
          BY <1>6, <3>1, <3>4, <4>2 DEF InFile
        <4>4. DashboardFile(st)'
          BY <1>5, <3>1, <3>3, <4>1, <4>3 DEF DashboardFile
        <4>5. QED
          BY <1>5, <1>7, <1>8, <1>9, <3>4, <4>4 DEF Placed
      <3>5. CASE st # o
        <4>1. got'[st] = got[st] /\ got[st] \in Seq(Items)
          BY <1>1, <1>6, <3>5
        <4>2. ASSUME accepted \subseteq {st[1]}, NEW k \in 1..Len(got[st])
              PROVE  first(st) + k <= Len(file') /\ file'[first(st) + k] = got[st][k]
          <5>1. first(st) + k <= Len(file) /\ file[first(st) + k] = got[st][k]
            BY <3>3, <4>2 DEF DashboardFile, InFile
          <5>2. last(st) <= first(o) \/ last(o) <= first(st)
            BY <1>1, <1>7, <3>5, <4>2, RangesDisjoint
          <5>3. first(st) + k \in (first(st) + 1)..last(st)
            BY <3>2, <3>3, <4>1 DEF DashboardFile
          <5>4. first(st) + k # p + 1 /\ first(st) + k \in 1..Len(file)
            <6>1. k \in Nat /\ k >= 1 /\ Len(file) \in Nat
              BY <2>2, <4>1
            <6> DEFINE a == first(st)
                       b == last(st)
                       d == first(o)
                       e == last(o)
            <6>2. /\ a \in Nat /\ b \in Nat /\ d \in Nat /\ e \in Nat
                  /\ a + k <= b /\ d <= p /\ p < e /\ p \in Nat /\ (b <= d \/ e <= a)
                  /\ a + k <= Len(file)
              BY <2>3, <3>2, <5>1, <5>2, <5>3
            <6> HIDE DEF a, b, d, e
            <6>3. a + k # p + 1 /\ a + k \in 1..Len(file)
              BY <6>1, <6>2
            <6>4. QED
              BY <6>3 DEF a
          <5>5. QED
            BY <2>2, <2>5, <5>1, <5>4
        <4>3. accepted \subseteq {st[1]} => InFile(st)'
          BY <3>1, <4>1, <4>2 DEF InFile
        <4>4. DashboardFile(st)'
          BY <1>5, <3>1, <3>3, <4>1, <4>3 DEF DashboardFile
        <4>5. QED
          BY <1>5, <1>8, <1>9, <4>1, <4>4 DEF Placed, StoreInv
      <3>6. QED
        BY <3>4, <3>5
    <2>8. QED
      BY <2>5, <2>6, <2>7 DEF StoreInv, Placed
  <1>10. CASE server = "atomic"
    <2>1. /\ file' = file /\ flushed' = flushed
          /\ part' = WriteAt(part, Len(got[o]), x)
      BY <1>5, <1>10 DEF Write
    <2>2. part' = None \/ part' \in Seq(Items)
      <3>1. part \in Seq(Items)
        BY <1>1, <1>10 DEF PartInv
      <3>2. QED
        BY <1>2, <2>1, <3>1, WriteAtFile
    <2>3. StoreTypeOK'
      BY <1>5, <2>1, <2>2 DEF StoreInv, StoreTypeOK
    <2>4. ASSUME NEW st \in Streams PROVE Placed(st)'
      <3>1. AtomicFileOf(st)
        BY <1>10 DEF StoreInv
      <3>2. AtomicFileOf(st)'
        <4>1. CASE st = o
          BY <1>1, <1>5, <4>1 DEF AtomicFileOf
        <4>2. CASE st # o
          BY <1>5, <1>6, <2>1, <3>1, <4>2 DEF AtomicFileOf
        <4>3. QED
          BY <4>1, <4>2
      <3>3. QED
        BY <1>5, <1>6, <1>7, <1>8, <1>10, <3>2 DEF Placed, StoreInv
    <2>5. QED
      BY <1>8, <1>10, <2>3, <2>4 DEF StoreInv, Placed
  <1>11. CASE server = "android"
    <2>1. /\ part' = part
          /\ \/ Len(body) - flushed[o] >= BufBlocks /\ file' = Flush(o, body)
                /\ flushed' = [flushed EXCEPT ![o] = Len(body)]
             \/ file' = file /\ flushed' = flushed
      BY <1>5, <1>11 DEF Write, body
    <2>2. file \in Seq(Items)
      BY <1>7, <1>11 DEF StoreInv
    <2>3. file' \in Seq(Items)
      BY <1>1, <1>2, <2>1, <2>2, FlushIsFile
    <2>4. flushed' \in [Streams -> Nat] /\ flushed'[o] \in {flushed[o], Len(body)}
          /\ \A st \in Streams : st # o => flushed'[st] = flushed[st]
      <3>1. CASE flushed' = flushed
        BY <1>1, <3>1
      <3>2. CASE flushed' = [flushed EXCEPT ![o] = Len(body)]
        <4>1. Len(body) \in Nat
          BY <1>2
        <4>2. QED
          BY <1>1, <3>2, <4>1
      <3>3. QED
        BY <2>1, <3>1, <3>2
    <2>5. StoreTypeOK'
      BY <1>5, <2>1, <2>3, <2>4 DEF StoreInv, StoreTypeOK
    <2>6. ASSUME NEW st \in Streams PROVE Placed(st)'
      <3>1. /\ first(st)' = first(st) /\ content_length(st)' = content_length(st)
            /\ content_length(st) \in Nat
        BY <1>1, RangesStay, Ranges
      <3>2. AndroidFile(st)
        BY <1>11 DEF StoreInv
      <3>3. CASE st = o
        <4>1. Len(got'[st]) <= content_length(st) /\ flushed'[st] <= Len(got'[st])
          BY <1>1, <1>2, <1>5, <1>6, <1>11, <2>4, <3>1, <3>2, <3>3 DEF AndroidFile, BodyLeft
        <4>2. ASSUME accepted \subseteq {st[1]}, st[1] \notin Parallel, NEW k \in 1..flushed'[st]
              PROVE  k <= Len(file') /\ file'[k] = body[k]
          <5>1. \A j \in 1..flushed[st] : j <= Len(file) /\ file[j] = body[j]
            BY <1>1, <1>2, <1>3, <3>2, <3>3, <4>2 DEF AndroidFile
          <5>2. CASE file' = Flush(o, body)
            <6>1. flushed'[st] \in {flushed[st], Len(body)} /\ flushed'[st] <= Len(body)
              BY <1>6, <2>4, <3>3, <4>1
            <6>2. k \in 1..Len(body)
              BY <1>1, <1>2, <6>1, <3>3
            <6>3. QED
              BY <1>1, <1>2, <2>2, <3>3, <5>1, <5>2, <6>2, FlushFile
          <5>3. CASE file' = file /\ flushed' = flushed
            BY <5>1, <5>3
          <5>4. QED
            BY <2>1, <5>2, <5>3
        <4>3. AndroidFile(st)'
          BY <1>1, <1>5, <1>6, <3>1, <3>3, <4>1, <4>2 DEF AndroidFile
        <4>4. QED
          BY <1>5, <1>7, <1>8, <1>11, <3>3, <4>3 DEF Placed
      <3>4. CASE st # o
        <4>1. ~(accepted \subseteq {st[1]} /\ st[1] \notin Parallel)
          BY <1>7, <3>4, OneStream
        <4>2. AndroidFile(st)'
          BY <1>5, <1>6, <2>4, <3>1, <3>2, <3>4, <4>1 DEF AndroidFile
        <4>3. QED
          BY <1>5, <1>6, <1>8, <1>11, <3>4, <4>2 DEF Placed, StoreInv
      <3>5. QED
        BY <3>3, <3>4
    <2>7. QED
      BY <2>3, <2>5, <2>6 DEF StoreInv, Placed
  <1>12. QED
    BY <1>9, <1>10, <1>11 DEF FlowInv, FlowTypeOK

\* A handler ends: what is still in the buffer is written, or the part file is
\* given its name.
LEMMA StoreFinish ==
    ASSUME FlowInv, PartInv, StoreInv, UNCHANGED fixedVars, NEW o \in Streams, Finish(o)
    PROVE  StoreInv'
  <1>1. /\ size \in Sizes /\ got \in [Streams -> Seq(Items)] /\ flushed \in [Streams -> Nat]
        /\ rcv \in [Streams -> {"none", "receiving", "stored", "error"}]
        /\ rcv[o] = "receiving" /\ path[o] # "none"
    BY DEF FlowInv, FlowTypeOK, Flow, Finish, StoreInv, StoreTypeOK
  <1>2. got' = got /\ flushed' = flushed /\ accepted' = accepted /\ faults' = faults /\ server' = server
    BY RangesStay DEF Finish
  <1>3. o[1] \in accepted
    BY <1>1 DEF StoreInv
  <1>4. rcv' \in {[rcv EXCEPT ![o] = "stored"], [rcv EXCEPT ![o] = "error"]}
    BY DEF Finish, FinishDashboard, FinishAndroid, FinishAtomic
  <1>5. /\ rcv'[o] \in {"stored", "error"} /\ \A st \in Streams : st # o => rcv'[st] = rcv[st]
    BY <1>1, <1>4
  <1>6. CASE server = "dashboard"
    <2>1. file' = file /\ part' = part
      BY <1>6 DEF Finish, FinishDashboard, FinishAndroid, FinishAtomic
    <2>2. StoreTypeOK'
      BY <1>2, <2>1 DEF StoreInv, StoreTypeOK
    <2>3. ASSUME NEW st \in Streams PROVE Placed(st)'
      <3>1. /\ first(st)' = first(st) /\ content_length(st)' = content_length(st)
        BY RangesStay
      <3>2. DashboardFile(st) /\ (InFile(st) => InFile(st)')
        BY <1>2, <1>6, <2>1, <3>1 DEF StoreInv, InFile
      <3>3. DashboardFile(st)'
        BY <1>1, <1>2, <1>5, <3>1, <3>2 DEF DashboardFile
      <3>4. QED
        BY <1>2, <1>3, <1>5, <1>6, <3>3 DEF Placed, StoreInv
    <2>4. QED
      BY <1>2, <2>1, <2>2, <2>3 DEF StoreInv, Placed
  <1>7. CASE server = "android"
    <2>1. /\ part' = part
          /\ \/ ~BodyLeft(o) /\ file' = Flush(o, got[o])
             \/ rcv'[o] = "error" /\ file' = file
      BY <1>1, <1>7 DEF Finish, FinishDashboard, FinishAndroid, FinishAtomic
    <2>2. file \in Seq(Items)
      BY <1>3, <1>7 DEF StoreInv
    <2>3. file' \in Seq(Items)
      BY <1>1, <2>1, <2>2, FlushIsFile
    <2>4. StoreTypeOK'
      BY <1>2, <2>1, <2>3 DEF StoreInv, StoreTypeOK
    <2>5. ASSUME NEW st \in Streams PROVE Placed(st)'
      <3>1. /\ first(st)' = first(st) /\ content_length(st)' = content_length(st)
            /\ st[1] \notin Parallel => first(st) = 0
        BY <1>1, RangesStay, Ranges
      <3>2. AndroidFile(st)
        BY <1>7 DEF StoreInv
      <3>3. CASE st = o
        <4>1. ASSUME accepted \subseteq {st[1]}, st[1] \notin Parallel, rcv'[st] = "stored"
              PROVE  InFile(st)'
          <5>1. \A j \in 1..flushed[st] : j <= Len(file) /\ file[j] = got[st][j]
            BY <1>1, <3>2, <3>3, <4>1 DEF AndroidFile
          <5>2. file' = Flush(st, got[st])
            BY <2>1, <3>3, <4>1
          <5>3. \A k \in 1..Len(got[st]) : k <= Len(file') /\ file'[k] = got[st][k]
            <6>1. got[st] \in Seq(Items) /\ flushed[st] \in Nat
              BY <1>1
            <6>2. \A k \in 1..Len(got[st]) :
                     k <= Len(Flush(st, got[st])) /\ Flush(st, got[st])[k] = got[st][k]
              BY <2>2, <5>1, <6>1, FlushFile
            <6>3. QED
              BY <5>2, <6>2
          <5>4. \A k \in 1..Len(got[st]) : first(st) + k = k
            BY <3>1, <4>1
          <5>5. QED
            BY <1>2, <3>1, <5>3, <5>4 DEF InFile
        <4>2. AndroidFile(st)'
          BY <1>2, <1>5, <3>1, <3>2, <3>3, <4>1 DEF AndroidFile
        <4>3. QED
          BY <1>2, <1>3, <1>7, <3>3, <4>2 DEF Placed
      <3>4. CASE st # o
        <4>1. ~(accepted \subseteq {st[1]} /\ st[1] \notin Parallel)
          BY <1>3, <3>4, OneStream
        <4>2. AndroidFile(st)'
          BY <1>2, <3>1, <3>2, <3>4, <4>1 DEF AndroidFile
        <4>3. QED
          BY <1>2, <1>5, <1>7, <3>4, <4>2 DEF Placed, StoreInv
      <3>5. QED
        BY <3>3, <3>4
    <2>6. QED
      BY <2>3, <2>4, <2>5 DEF StoreInv, Placed
  <1>8. CASE server = "atomic"
    <2>1. /\ part' = None
          /\ \/ file' = part
             \/ rcv'[o] = "error" /\ file' = file
      BY <1>1, <1>8 DEF Finish, FinishDashboard, FinishAndroid, FinishAtomic
    <2>2. part = got[o]
      BY <1>1, <1>8 DEF PartInv
    <2>3. StoreTypeOK'
      BY <1>1, <1>2, <2>1, <2>2 DEF StoreInv, StoreTypeOK
    <2>4. o[1] \notin Parallel
      BY <1>1, <1>8 DEF FlowInv, Flow
    <2>5. ASSUME NEW st \in Streams PROVE Placed(st)'
      <3>1. AtomicFileOf(st)
        BY <1>8 DEF StoreInv
      <3>2. CASE st = o
        <4>1. AtomicFileOf(st)'
          BY <1>2, <2>1, <2>2, <3>2 DEF AtomicFileOf
        <4>2. QED
          BY <1>2, <1>3, <1>8, <3>2, <4>1 DEF Placed
      <3>3. CASE st # o
        <4>1. ~(accepted \subseteq {st[1]})
          BY <1>3, <2>4, <3>3, OneStream
        <4>2. AtomicFileOf(st)'
          BY <1>2, <4>1 DEF AtomicFileOf
        <4>3. QED
          BY <1>2, <1>5, <1>8, <3>3, <4>2 DEF Placed, StoreInv
      <3>4. QED
        BY <3>2, <3>3
    <2>6. QED
      BY <1>2, <1>8, <2>3, <2>5 DEF StoreInv, Placed
  <1>9. QED
    BY <1>6, <1>7, <1>8 DEF FlowInv, FlowTypeOK

LEMMA StoreNext ==
    FlowInv /\ PartInv /\ StoreInv /\ [TransferNext]_transferVars => StoreInv'
  <1> SUFFICES ASSUME FlowInv, PartInv, StoreInv, [TransferNext]_transferVars PROVE StoreInv'
    OBVIOUS
  <1>1. UNCHANGED fixedVars
    BY DEF TransferNext, SenderStep, Connect, ConnectFails, SendChunk, SendUnnoticed, SendError,
           SendCancel, Shutdown, Return, ReceiverStep, Accept, RefuseEmpty, Read, Finish, ReadError,
           LoseConnection, CancelUpload, SenderCrash, ReceiverCrash, transferVars
  <1>2. rcv \in [Streams -> {"none", "receiving", "stored", "error"}] /\ faults \in 0..MaxFaults
        /\ MaxFaults \in Nat
    BY TransferAssumption DEF FlowInv, FlowTypeOK, StoreInv, StoreTypeOK
  <1>3. ASSUME UNCHANGED <<got, flushed, file, part, accepted>>, faults' \in 0..MaxFaults,
               \A st \in Streams : rcv'[st] \in {rcv[st], "error"}
        PROVE  StoreInv'
    <2>1. StoreTypeOK'
      BY <1>3 DEF StoreInv, StoreTypeOK
    <2>2. ASSUME NEW st \in Streams PROVE Placed(st)'
      BY <1>1, <1>3, StoreKept DEF StoreInv, Placed
    <2>3. accepted' = accepted /\ file' = file /\ server' = server
      BY <1>1, <1>3, RangesStay
    <2>4. QED
      BY <2>1, <2>2, <2>3 DEF StoreInv, Placed
  <1>4. CASE UNCHANGED <<recvVars, faults>>
    BY <1>2, <1>3, <1>4 DEF recvVars
  <1>5. ASSUME NEW st \in Streams, RefuseEmpty(st) \/ ReadError(st) PROVE StoreInv'
    BY <1>2, <1>3, <1>5 DEF RefuseEmpty, ReadError
  <1>6. ASSUME NEW st \in Streams, LoseConnection(st) PROVE StoreInv'
    BY <1>2, <1>3, <1>6 DEF LoseConnection, recvVars
  <1>7. ASSUME NEW u \in Uploads, SenderCrash(u) PROVE StoreInv'
    BY <1>2, <1>3, <1>7 DEF SenderCrash, recvVars
  <1>8. CASE ReceiverCrash
    BY <1>2, <1>3, <1>8 DEF ReceiverCrash
  <1>9. QED
    BY <1>1, <1>4, <1>5, <1>6, <1>7, <1>8, StoreAccept, StoreRead, StoreFinish
       DEF TransferNext, SenderStep, Connect, ConnectFails, SendChunk, SendUnnoticed, SendError,
           SendCancel, Shutdown, Return, ReceiverStep, CancelUpload, transferVars

\* What a receiver answered with success is in the file, for every size, every
\* number of streams and every order in which they are read: no stream of the
\* upload cuts off or overwrites another.
THEOREM StoredIsInFileHolds == TransferSpec => []StoredIsInFile
  <1>1. ASSUME FlowInv, StoreInv PROVE StoredIsInFile
    <2> SUFFICES ASSUME NEW st \in Streams,
                        rcv[st] = "stored", accepted = {st[1]}, Len(got[st]) = content_length(st),
                        Junk \notin {got[st][k] : k \in DOMAIN got[st]},
                        server = "android" => st[1] \notin Parallel
                 PROVE  /\ Len(file) >= last(st)
                        /\ \A k \in (first(st) + 1)..last(st) : file[k] = <<st[1], k - 1>>
      BY DEF StoredIsInFile
    <2>1. /\ first(st) \in Nat /\ last(st) \in Nat /\ first(st) <= last(st)
          /\ content_length(st) = last(st) - first(st)
          /\ st[1] \notin Parallel => first(st) = 0
      <3>1. size \in Sizes
        BY <1>1 DEF FlowInv, FlowTypeOK
      <3>2. QED
        BY <3>1, Ranges
    <2>2. /\ got[st] \in Seq(Items) /\ InOrder(st, got[st], pipe[st])
          /\ server = "atomic" => st[1] \notin Parallel
      BY <1>1 DEF FlowInv, FlowTypeOK, Flow
    <2>3. /\ server # "atomic" => file \in Seq(Items)
          /\ server = "atomic" => file = got[st]
      BY <1>1 DEF StoreInv, AtomicFileOf
    <2>4. file \in Seq(Items) /\ Len(file) \in Nat
      BY <2>2, <2>3
    <2>5. \A k \in 1..Len(got[st]) : first(st) + k <= Len(file) /\ file[first(st) + k] = got[st][k]
      <3>1. CASE server = "dashboard"
        BY <1>1, <3>1 DEF StoreInv, DashboardFile, InFile
      <3>2. CASE server = "android"
        BY <1>1, <3>2 DEF StoreInv, AndroidFile, InFile
      <3>3. CASE server = "atomic"
        <4>1. \A k \in 1..Len(got[st]) : first(st) + k = k
          BY <2>1, <2>2, <3>3
        <4>2. QED
          BY <2>2, <2>3, <3>3, <4>1
      <3>4. QED
        BY <1>1, <3>1, <3>2, <3>3 DEF FlowInv, FlowTypeOK
    <2>6. ASSUME NEW k \in (first(st) + 1)..last(st) PROVE file[k] = <<st[1], k - 1>>
      <3> DEFINE j == k - first(st)
      <3>1. j \in 1..Len(got[st]) /\ first(st) + j = k
        BY <2>1
      <3> HIDE DEF j
      <3>2. file[k] = got[st][j] /\ got[st][j] \in {Block(st, j), Junk} /\ j \in DOMAIN got[st]
        BY <2>2, <2>5, <3>1 DEF InOrder
      <3>3. got[st][j] = <<st[1], first(st) + j - 1>>
        BY <3>2 DEF Block
      <3>4. first(st) + j - 1 = k - 1
        BY <2>1, <3>1
      <3>5. QED
        BY <3>2, <3>3, <3>4
    <2>7. Len(file) >= last(st)
      <3>1. CASE Len(got[st]) > 0
        <4>1. first(st) + Len(got[st]) <= Len(file)
          BY <2>1, <2>2, <2>5, <3>1
        <4>2. QED
          BY <2>1, <2>4, <4>1
      <3>2. CASE Len(got[st]) = 0
        <4>1. server # "dashboard"
          BY <1>1, <2>1, <3>2 DEF StoreInv, DashboardFile
        <4>2. last(st) = 0
          <5>1. st[1] \notin Parallel
            BY <1>1, <2>2, <4>1 DEF FlowInv, FlowTypeOK
          <5>2. QED
            BY <2>1, <3>2, <5>1
        <4>3. QED
          BY <2>4, <4>2
      <3>3. QED
        BY <2>1, <3>1, <3>2
    <2>8. QED
      BY <2>6, <2>7
  <1>2. TransferInit => PartInv
    BY DEF TransferInit, PartInv
  <1>3. QED
    BY <1>1, <1>2, FlowInit, FlowNext, PartNext, StoreInit, StoreNext, PTL DEF TransferSpec

\* The three parts of the invariant together are the module's type invariant.
THEOREM TransferTypesHold == TransferSpec => []TransferTypeOK
  <1>1. FlowInv /\ StoreInv => TransferTypeOK
    BY DEF FlowInv, FlowTypeOK, StoreInv, StoreTypeOK, TransferTypeOK
  <1>2. TransferInit => PartInv
    BY DEF TransferInit, PartInv
  <1>3. QED
    BY <1>1, <1>2, FlowInit, FlowNext, PartNext, StoreInit, StoreNext, PTL DEF TransferSpec

-----------------------------------------------------------------------------
(* ReliableTransfer: as long as the sender is not adrift, its tracker knows *)
(* no acknowledgement the receiver did not send, so that a chunk is Acked   *)
(* only when it has arrived.                                                *)

\* The frames of a connection, without their order.
OnWire(s) == {s[k] : k \in 1..Len(s)}

Tracked ==
    /\ acked_ids \subseteq received
    /\ \A c \in Chunks : chunks[c].state = "Acked" <=> c \in acked_ids
    /\ \A c \in 0..(contiguous - 1) : chunks[c].state = "Acked"
    /\ \A f \in OnWire(answers) : f.type = "ACK" => f.id \in received
    /\ \A f \in OnWire(data) : /\ f.type = "DATA" => chunks[f.id].state # "Pending"
                               /\ f.type = "FIN" => all_acked
    /\ \A c \in received : chunks[c].state # "Pending"
    /\ sender \in {"fin", "ok"} \/ receiver = "ok" => all_acked
    /\ in_flight = Cardinality(InFlight) + retransmits

ReliableInv == ReliableTypeOK /\ (~adrift => Tracked)

\* Every set of natural numbers has a least one.
LEMMA SmallestOf ==
    ASSUME NEW S \in SUBSET Nat, S # {}
    PROVE  \E m \in S : \A k \in S : m <= k
  <1> DEFINE R == {ss \in Nat \X Nat : ss[1] < ss[2]}
  <1>1. IsWellFoundedOn(R, Nat)
    BY NatLessThanWellFounded DEF OpToRel
  <1> HIDE DEF R
  <1>2. PICK m \in S : \A k \in S : <<k, m>> \notin R
    BY <1>1, WFMin
  <1>3. ASSUME NEW k \in S PROVE m <= k
    <2>1. k \in Nat /\ m \in Nat /\ <<k, m>> \in Nat \X Nat
      OBVIOUS
    <2>2. k < m => <<k, m>> \in R
      BY <2>1 DEF R
    <2>3. QED
      BY <1>2, <2>1, <2>2
  <1>4. QED
    BY <1>3

LEMMA WireAppend ==
    ASSUME NEW S, NEW s \in Seq(S), NEW x \in S
    PROVE  Append(s, x) \in Seq(S) /\ OnWire(Append(s, x)) = OnWire(s) \cup {x}
  <1> DEFINE t == Append(s, x)
  <1>1. /\ t \in Seq(S) /\ Len(t) = Len(s) + 1 /\ Len(s) \in Nat
        /\ \A k \in 1..Len(s) : t[k] = s[k]
        /\ t[Len(s) + 1] = x
    BY AppendProperties
  <1> HIDE DEF t
  <1>2. OnWire(t) \subseteq OnWire(s) \cup {x}
    <2> SUFFICES ASSUME NEW k \in 1..Len(t) PROVE t[k] \in OnWire(s) \cup {x}
      BY DEF OnWire
    <2>1. k = Len(s) + 1 \/ k \in 1..Len(s)
      BY <1>1
    <2>2. QED
      BY <1>1, <2>1 DEF OnWire
  <1>3. OnWire(s) \cup {x} \subseteq OnWire(t)
    <2>1. \A k \in 1..Len(s) : k \in 1..Len(t)
      BY <1>1
    <2>2. Len(s) + 1 \in 1..Len(t)
      BY <1>1
    <2>3. QED
      BY <1>1, <2>1, <2>2 DEF OnWire
  <1>4. QED
    BY <1>1, <1>2, <1>3 DEF t

LEMMA WireTail ==
    ASSUME NEW S, NEW s \in Seq(S), s # <<>>
    PROVE  /\ Head(s) \in S /\ Head(s) \in OnWire(s)
           /\ Tail(s) \in Seq(S) /\ OnWire(Tail(s)) \subseteq OnWire(s)
  <1> DEFINE t == Tail(s)
  <1>1. /\ Head(s) = s[1] /\ Head(s) \in S /\ t \in Seq(S) /\ Len(t) = Len(s) - 1
        /\ \A k \in 1..Len(t) : t[k] = s[k + 1]
        /\ Len(s) \in Nat /\ Len(s) > 0
    BY HeadTailProperties
  <1> HIDE DEF t
  <1>2. \A k \in 1..Len(t) : k + 1 \in 1..Len(s)
    BY <1>1
  <1>3. 1 \in 1..Len(s)
    BY <1>1
  <1>4. QED
    BY <1>1, <1>2, <1>3 DEF OnWire, t

LEMMA WireConcat ==
    ASSUME NEW S, NEW s \in Seq(S), NEW t \in Seq(S)
    PROVE  s \o t \in Seq(S) /\ OnWire(s \o t) \subseteq OnWire(s) \cup OnWire(t)
  <1> DEFINE c == s \o t
  <1>1. /\ c \in Seq(S) /\ Len(c) = Len(s) + Len(t) /\ Len(s) \in Nat /\ Len(t) \in Nat
        /\ \A k \in 1..(Len(s) + Len(t)) : c[k] = IF k <= Len(s) THEN s[k] ELSE t[k - Len(s)]
    BY ConcatProperties
  <1> HIDE DEF c
  <1>2. ASSUME NEW k \in 1..Len(c) PROVE c[k] \in OnWire(s) \cup OnWire(t)
    <2>1. CASE k <= Len(s)
      <3>1. c[k] = s[k] /\ k \in 1..Len(s)
        BY <1>1, <2>1
      <3>2. QED
        BY <3>1 DEF OnWire
    <2>2. CASE k > Len(s)
      <3>1. c[k] = t[k - Len(s)] /\ k - Len(s) \in 1..Len(t)
        BY <1>1, <2>2
      <3>2. QED
        BY <3>1 DEF OnWire
    <2>3. QED
      BY <1>1, <2>1, <2>2
  <1>3. QED
    BY <1>1, <1>2 DEF OnWire, c

\* The frames of a set of chunks are DATA frames of these chunks.
LEMMA WireData ==
    ASSUME NEW S \in SUBSET Chunks, IsFiniteSet(S), NEW s \in Ordered(S)
    PROVE  /\ DataFrames(s) \in Seq(Frames)
           /\ \A f \in OnWire(DataFrames(s)) : f.type = "DATA" /\ f.id \in S
  <1> DEFINE n == Cardinality(S)
             t == DataFrames(s)
  <1>1. n \in Nat /\ s \in [1..n -> S]
    BY FS_CardinalityType DEF Ordered
  <1> HIDE DEF n
  <1>2. t = [i \in 1..n |-> [type |-> "DATA", id |-> s[i]]]
    BY <1>1 DEF DataFrames, Sending
  <1> HIDE DEF t
  <1>3. ASSUME NEW i \in 1..n
        PROVE  t[i] \in Frames /\ t[i].type = "DATA" /\ t[i].id \in S
    BY <1>1, <1>2 DEF Frames
  <1>4. t \in [1..n -> Frames]
    BY <1>2, <1>3
  <1>5. t \in Seq(Frames) /\ Len(t) = n
    BY <1>1, <1>4, SeqOfFunction
  <1>6. QED
    BY <1>3, <1>5 DEF OnWire, t

\* contiguous_acked has a next value, and the chunks below it are Acked.
LEMMA ContiguousAdvances ==
    ASSUME contiguous \in 0..NChunks, NEW ch
    PROVE  /\ NextContiguous(ch) \in contiguous..NChunks
           /\ \A c \in contiguous..(NextContiguous(ch) - 1) : ch[c].state = "Acked"
  <1> DEFINE S == {n \in contiguous..NChunks : n < NChunks => ch[n].state # "Acked"}
  <1>1. NChunks \in Nat
    BY ReliableAssumption
  <1>2. S \in SUBSET Nat /\ NChunks \in S
    BY <1>1
  <1>3. PICK m \in S : \A k \in S : m <= k
    BY <1>2, SmallestOf
  <1>4. ASSUME NEW c \in contiguous..(m - 1) PROVE ch[c].state = "Acked"
    <2>1. m \in contiguous..NChunks /\ c \in Int /\ c < m
      BY <1>2
    <2>2. c \in contiguous..NChunks /\ c < NChunks /\ c \notin S
      BY <1>1, <1>3, <2>1
    <2>3. QED
      BY <2>2
  <1>5. \E n \in contiguous..NChunks :
            /\ \A c \in contiguous..(n - 1) : ch[c].state = "Acked"
            /\ n < NChunks => ch[n].state # "Acked"
    BY <1>3, <1>4
  <1>6. QED
    BY <1>5 DEF NextContiguous

LEMMA InFlightFinite ==
    /\ IsFiniteSet(Chunks) /\ \A S \in SUBSET Chunks : IsFiniteSet(S) /\ Cardinality(S) \in Nat
  <1>1. NChunks \in Nat
    BY ReliableAssumption
  <1>2. IsFiniteSet(Chunks)
    BY <1>1, FS_Interval DEF Chunks
  <1>3. QED
    BY <1>2, FS_Subset, FS_CardinalityType

LEMMA ReliableInit_Inv == ReliableInit => ReliableInv
  <1> SUFFICES ASSUME ReliableInit PROVE ReliableInv
    OBVIOUS
  <1>1. ReliableTypeOK
    <2>1. chunks \in [Chunks -> ChunkStates]
      BY DEF ReliableInit, ChunkStates
    <2>2. <<>> \in Seq(Frames)
      OBVIOUS
    <2>3. /\ window \in 1..MaxWindow /\ contiguous \in 0..NChunks /\ timeouts \in 0..MaxTimeouts
      BY ReliableAssumption DEF ReliableInit
    <2>4. QED
      BY <2>1, <2>2, <2>3 DEF ReliableInit, ReliableTypeOK
  <1>2. InFlight = {}
    BY DEF InFlight, ReliableInit
  <1>3. Cardinality(InFlight) = 0
    BY <1>2, FS_EmptySet
  <1>4. OnWire(data) = {} /\ OnWire(answers) = {}
    BY DEF OnWire, ReliableInit
  <1>5. Tracked
    BY <1>3, <1>4 DEF Tracked, ReliableInit, all_acked
  <1>6. QED
    BY <1>1, <1>5 DEF ReliableInv

\* The tracker's part of the invariant looks at these variables only.
LEMMA TrackedKept ==
    ASSUME Tracked, UNCHANGED trackerVars, received' = received,
           OnWire(answers') \subseteq OnWire(answers), OnWire(data') \subseteq OnWire(data),
           sender' \in {"fin", "ok"} \/ receiver' = "ok" =>
               sender \in {"fin", "ok"} \/ receiver = "ok" \/ all_acked
    PROVE  Tracked'
  <1>1. OnWire(answers)' \subseteq OnWire(answers) /\ OnWire(data)' \subseteq OnWire(data)
    BY DEF OnWire
  <1>2. InFlight' = InFlight /\ (all_acked' <=> all_acked)
    BY DEF InFlight, all_acked, trackerVars
  <1>3. QED
    BY <1>1, <1>2 DEF Tracked, trackerVars

LEMMA SenderTop_Inv ==
    ASSUME ReliableInv, SenderTop
    PROVE  ReliableInv'
  <1>1. PICK again \in SUBSET InFlight, used \in {0, 1}, new \in SUBSET Pending :
          /\ timeouts + used <= MaxTimeouts /\ timeouts' = timeouts + used
          /\ mark_in_flight(again, new)
          /\ \E resent \in Ordered(again), sent \in Ordered(new) :
                data' = data \o DataFrames(resent) \o DataFrames(sent)
    BY DEF SenderTop
  <1>2. PICK resent \in Ordered(again), sent \in Ordered(new) :
          data' = data \o DataFrames(resent) \o DataFrames(sent)
    BY <1>1
  <1>3. /\ sender = "top" /\ sender' = "read"
        /\ UNCHANGED <<acked_ids, contiguous, window, adrift, answers, receiverVars>>
    BY DEF SenderTop
  <1>4. ReliableTypeOK
    BY DEF ReliableInv
  <1>5. again \in SUBSET Chunks /\ new \in SUBSET Chunks
    BY DEF InFlight, Pending
  <1>6. IsFiniteSet(again) /\ IsFiniteSet(new) /\ Cardinality(again) \in Nat /\ Cardinality(new) \in Nat
    BY <1>5, InFlightFinite
  <1>7. /\ data' \in Seq(Frames)
        /\ \A f \in OnWire(data') : f \in OnWire(data) \/ (f.type = "DATA" /\ f.id \in again \cup new)
    <2>1. data \in Seq(Frames)
      BY <1>4 DEF ReliableTypeOK
    <2>2. /\ DataFrames(resent) \in Seq(Frames)
          /\ \A f \in OnWire(DataFrames(resent)) : f.type = "DATA" /\ f.id \in again
      BY <1>5, <1>6, WireData
    <2>3. /\ DataFrames(sent) \in Seq(Frames)
          /\ \A f \in OnWire(DataFrames(sent)) : f.type = "DATA" /\ f.id \in new
      BY <1>5, <1>6, WireData
    <2> DEFINE a == DataFrames(resent)
               b == DataFrames(sent)
    <2> HIDE DEF a, b
    <2>4. data \o a \in Seq(Frames) /\ OnWire(data \o a) \subseteq OnWire(data) \cup OnWire(a)
      BY <2>1, <2>2, WireConcat DEF a
    <2>5. /\ (data \o a) \o b \in Seq(Frames)
          /\ OnWire((data \o a) \o b) \subseteq OnWire(data \o a) \cup OnWire(b)
      BY <2>3, <2>4, WireConcat DEF b
    <2>6. data' = (data \o a) \o b
      BY <1>2 DEF a, b
    <2>7. QED
      BY <2>2, <2>3, <2>4, <2>5, <2>6 DEF a, b
  <1>8. /\ chunks' = [c \in Chunks |->
              IF c \in again THEN [state |-> "InFlight", attempt |-> chunks[c].attempt + 1]
              ELSE IF c \in new THEN [state |-> "InFlight", attempt |-> 1] ELSE chunks[c]]
        /\ in_flight' = in_flight + Cardinality(again) + Cardinality(new)
        /\ retransmits' = retransmits + Cardinality(again)
    BY <1>1 DEF mark_in_flight
  <1>9. \A c \in Chunks : chunks'[c].state = IF c \in again \cup new THEN "InFlight" ELSE chunks[c].state
    BY <1>8
  <1>10. ReliableTypeOK'
    <2>1. chunks' \in [Chunks -> ChunkStates]
      <3>1. ASSUME NEW c \in Chunks PROVE chunks'[c] \in ChunkStates
        <4>1. chunks[c] \in ChunkStates /\ chunks[c].attempt \in Nat
          BY <1>4 DEF ReliableTypeOK, ChunkStates
        <4>2. QED
          BY <1>8, <4>1 DEF ChunkStates
      <3>2. QED
        BY <1>8, <3>1
    <2>2. in_flight' \in Nat /\ retransmits' \in Nat
      <3>1. in_flight \in Nat /\ retransmits \in Nat
        BY <1>4 DEF ReliableTypeOK
      <3>2. Cardinality(again) \in Nat /\ Cardinality(new) \in Nat
        BY <1>6
      <3>3. QED
        BY <1>8, <3>1, <3>2
    <2>3. timeouts' \in 0..MaxTimeouts
      BY <1>1, <1>4, ReliableAssumption DEF ReliableTypeOK
    <2>4. QED
      BY <1>3, <1>4, <1>7, <2>1, <2>2, <2>3 DEF ReliableTypeOK, receiverVars
  <1>11. ASSUME ~adrift' PROVE Tracked'
    <2>1. Tracked
      BY <1>3, <1>11 DEF ReliableInv
    <2>2. \A c \in again \cup new : chunks[c].state \in {"InFlight", "Pending"}
      BY DEF InFlight, Pending
    <2>3. all_acked' <=> all_acked
      BY <1>3 DEF all_acked
    <2>4. \A c \in Chunks : chunks'[c].state = "Acked" <=> chunks[c].state = "Acked"
      BY <1>9, <2>2
    <2>5. \A c \in Chunks : chunks[c].state # "Pending" => chunks'[c].state # "Pending"
      BY <1>9
    <2>6. \A c \in 0..(contiguous - 1) : c \in Chunks
      BY <1>4, ReliableAssumption DEF ReliableTypeOK, Chunks
    <2>7. in_flight' = Cardinality(InFlight)' + retransmits'
      <3>1. InFlight' = InFlight \cup new /\ InFlight \cap new = {}
        BY <1>9 DEF InFlight, Pending
      <3>2. InFlight \in SUBSET Chunks /\ IsFiniteSet(InFlight) /\ Cardinality(InFlight) \in Nat
        BY InFlightFinite DEF InFlight
      <3>3. Cardinality(InFlight \cup new) = Cardinality(InFlight) + Cardinality(new)
        BY <1>6, <3>1, <3>2, FS_Union, FS_EmptySet
      <3>4. Cardinality(InFlight)' = Cardinality(InFlight) + Cardinality(new)
        BY <3>1, <3>3
      <3>5. in_flight = Cardinality(InFlight) + retransmits /\ retransmits \in Nat
        BY <1>4, <2>1 DEF Tracked, ReliableTypeOK
      <3> DEFINE n == Cardinality(InFlight)
      <3> HIDE DEF n
      <3>6. in_flight' = (n + Cardinality(new)) + retransmits'
        BY <1>6, <1>8, <3>2, <3>5 DEF n
      <3>7. QED
        BY <3>4, <3>6 DEF n
    <2>8. ASSUME NEW f \in OnWire(data')
          PROVE  /\ f.type = "DATA" => chunks'[f.id].state # "Pending"
                 /\ f.type = "FIN" => all_acked
      <3>1. CASE f.type = "DATA" /\ f.id \in again \cup new
        BY <1>5, <1>9, <3>1
      <3>2. CASE f \in OnWire(data)
        <4>1. f \in Frames
          BY <1>4, <3>2 DEF OnWire, ReliableTypeOK
        <4>2. f.type = "DATA" => f.id \in Chunks
          BY <4>1 DEF Frames
        <4>3. QED
          BY <2>1, <2>5, <3>2, <4>2 DEF Tracked
      <3>3. QED
        BY <1>7, <3>1, <3>2
    <2>9. acked_ids \subseteq Chunks /\ received \subseteq Chunks
      BY <1>4 DEF ReliableTypeOK
    <2>10. QED
      BY <1>3, <2>1, <2>3, <2>4, <2>5, <2>6, <2>7, <2>8, <2>9 DEF Tracked, OnWire, receiverVars
  <1>12. QED
    BY <1>10, <1>11 DEF ReliableInv

\* An acknowledgement read where it begins is of a chunk that has arrived.
LEMMA MarkAcked_Type ==
    ASSUME ReliableTypeOK, NEW c \in Chunks, mark_acked(c)
    PROVE  /\ chunks' \in [Chunks -> ChunkStates] /\ acked_ids' \subseteq Chunks
           /\ contiguous' \in 0..NChunks /\ in_flight' \in Nat /\ retransmits' \in Nat
  <1>1. CASE c \in acked_ids
    BY <1>1 DEF mark_acked, trackerVars, ReliableTypeOK
  <1>2. CASE c \notin acked_ids
    <2>1. /\ acked_ids' = acked_ids \cup {c} /\ chunks' = [chunks EXCEPT ![c].state = "Acked"]
          /\ in_flight' = IF in_flight = 0 THEN 0 ELSE in_flight - 1
          /\ contiguous' = NextContiguous(chunks') /\ retransmits' = retransmits
      BY <1>2 DEF mark_acked
    <2>2. chunks' \in [Chunks -> ChunkStates]
      BY <2>1 DEF ReliableTypeOK, ChunkStates
    <2>3. contiguous' \in contiguous..NChunks
      BY <2>1, ContiguousAdvances DEF ReliableTypeOK
    <2>4. contiguous' \in 0..NChunks
      BY <2>3, ReliableAssumption DEF ReliableTypeOK
    <2>5. in_flight' \in Nat
      BY <2>1 DEF ReliableTypeOK
    <2>6. QED
      BY <2>1, <2>2, <2>4, <2>5 DEF ReliableTypeOK
  <1>3. QED
    BY <1>1, <1>2

LEMMA ReadAck_Inv ==
    ASSUME ReliableInv, ReadAck
    PROVE  ReliableInv'
  <1> DEFINE c == Head(answers).id
  <1>1. ReliableTypeOK /\ Tracked /\ ~adrift
    BY DEF ReliableInv, ReadAck
  <1>2. /\ sender = "read" /\ answers # <<>> /\ Head(answers).type = "ACK"
        /\ mark_acked(c) /\ answers' = Tail(answers) /\ sender' = "check"
        /\ UNCHANGED <<window, adrift, data, receiverVars, timeouts>>
    BY DEF ReadAck
  <1>3. /\ Head(answers) \in Frames /\ Head(answers) \in OnWire(answers)
        /\ Tail(answers) \in Seq(Frames) /\ OnWire(Tail(answers)) \subseteq OnWire(answers)
    BY <1>1, <1>2, WireTail DEF ReliableTypeOK
  <1>4. c \in Chunks
    BY <1>2, <1>3 DEF Frames
  <1>5. c \in received
    BY <1>1, <1>2, <1>3 DEF Tracked
  <1> HIDE DEF c
  <1>6. ReliableTypeOK'
    BY <1>1, <1>2, <1>3, <1>4, MarkAcked_Type DEF ReliableTypeOK, receiverVars
  <1>7. CASE c \in acked_ids
    <2>1. UNCHANGED trackerVars
      BY <1>2, <1>7 DEF mark_acked
    <2>2. QED
      BY <1>1, <1>2, <1>3, <1>6, <2>1, TrackedKept DEF ReliableInv, receiverVars
  <1>8. CASE c \notin acked_ids
    <2>1. /\ acked_ids' = acked_ids \cup {c} /\ chunks' = [chunks EXCEPT ![c].state = "Acked"]
          /\ in_flight' = IF in_flight = 0 THEN 0 ELSE in_flight - 1
          /\ contiguous' = NextContiguous(chunks') /\ retransmits' = retransmits
      BY <1>2, <1>8 DEF mark_acked
    <2>2. chunks \in [Chunks -> ChunkStates] /\ retransmits \in Nat /\ contiguous \in 0..NChunks
      BY <1>1 DEF ReliableTypeOK
    <2>3. \A d \in Chunks : chunks'[d].state = IF d = c THEN "Acked" ELSE chunks[d].state
      BY <1>4, <2>1, <2>2 DEF ChunkStates
    <2>4. c \in InFlight
      <3>1. chunks[c].state # "Pending" /\ chunks[c].state # "Acked"
        BY <1>1, <1>4, <1>5, <1>8 DEF Tracked
      <3>2. chunks[c].state \in {"Pending", "InFlight", "Acked"}
        BY <1>4, <2>2 DEF ChunkStates
      <3>3. QED
        BY <1>4, <3>1, <3>2 DEF InFlight
    <2>5. InFlight' = InFlight \ {c}
      BY <2>3 DEF InFlight
    <2>6. IsFiniteSet(InFlight) /\ Cardinality(InFlight) \in Nat
      BY InFlightFinite DEF InFlight
    <2> DEFINE n == Cardinality(InFlight)
    <2>7. Cardinality(InFlight \ {c}) = n - 1 /\ n # 0
      BY <2>4, <2>6, FS_RemoveElement, FS_EmptySet
    <2>8. in_flight = n + retransmits
      BY <1>1 DEF Tracked
    <2>9. Cardinality(InFlight)' = Cardinality(InFlight \ {c})
      BY <2>5
    <2>10. n \in Nat
      BY <2>6
    <2> HIDE DEF n
    <2>11. in_flight' = (n - 1) + retransmits'
      BY <2>1, <2>2, <2>7, <2>8, <2>10
    <2>12. in_flight' = Cardinality(InFlight)' + retransmits'
      BY <2>7, <2>9, <2>11
    <2>13. PICK next \in contiguous..NChunks :
              contiguous' = next /\ \A d \in contiguous..(next - 1) : chunks'[d].state = "Acked"
      BY <2>1, <2>2, ContiguousAdvances
    <2>14. ASSUME NEW d \in 0..(next - 1) PROVE chunks'[d].state = "Acked"
      <3>1. NChunks \in Nat /\ contiguous \in Nat /\ next \in Nat /\ d \in Nat
            /\ next <= NChunks /\ contiguous <= next
        BY <2>2, ReliableAssumption
      <3>2. CASE d < contiguous
        <4>1. d \in 0..(contiguous - 1) /\ d \in Chunks
          BY <3>1, <3>2 DEF Chunks
        <4>2. QED
          BY <1>1, <2>3, <4>1 DEF Tracked
      <3>3. CASE d >= contiguous
        BY <2>13, <3>1, <3>3
      <3>4. QED
        BY <3>1, <3>2, <3>3
    <2>15. all_acked => all_acked'
      BY <2>2, <2>13, ReliableAssumption DEF all_acked
    <2>16. ASSUME NEW f \in OnWire(data)
           PROVE  /\ f.type = "DATA" => chunks'[f.id].state # "Pending"
                  /\ f.type = "FIN" => all_acked
      <3>1. f \in Frames
        BY <1>1 DEF OnWire, ReliableTypeOK
      <3>2. f.type = "DATA" => f.id \in Chunks
        BY <3>1 DEF Frames
      <3>3. QED
        BY <1>1, <2>3, <3>2 DEF Tracked
    <2>17. acked_ids \subseteq Chunks /\ received \subseteq Chunks
      BY <1>1 DEF ReliableTypeOK
    <2>18. OnWire(answers)' \subseteq OnWire(answers) /\ OnWire(data)' = OnWire(data)
      BY <1>2, <1>3 DEF OnWire
    <2>19. /\ acked_ids' \subseteq received'
           /\ \A d \in Chunks : chunks'[d].state = "Acked" <=> d \in acked_ids'
           /\ \A d \in received' : chunks'[d].state # "Pending"
      BY <1>1, <1>2, <1>4, <1>5, <2>1, <2>3, <2>17 DEF Tracked, receiverVars
    <2>20. /\ \A f \in OnWire(answers)' : f.type = "ACK" => f.id \in received'
           /\ sender' \in {"fin", "ok"} \/ receiver' = "ok" => all_acked'
      BY <1>1, <1>2, <2>15, <2>18 DEF Tracked, receiverVars
    <2>21. Tracked'
      BY <2>12, <2>13, <2>14, <2>15, <2>16, <2>18, <2>19, <2>20 DEF Tracked
    <2>22. QED
      BY <1>6, <2>21 DEF ReliableInv
  <1>9. QED
    BY <1>7, <1>8

LEMMA ReceiveData_Inv ==
    ASSUME ReliableInv, ReceiveData
    PROVE  ReliableInv'
  <1> DEFINE c == Head(data).id
             ack == <<[type |-> "ACK", id |-> c]>>
             nack == IF c \in received THEN <<[type |-> "NACK", id |-> c]>> ELSE <<>>
  <1>1. ReliableTypeOK
    BY DEF ReliableInv
  <1>2. /\ receiver = "receiving" /\ data # <<>> /\ Head(data).type = "DATA"
        /\ received' = received \cup {c} /\ answers' = (answers \o ack) \o nack \o Bpres(chunk_count + 1)
        /\ chunk_count' = chunk_count + 1 /\ data' = Tail(data)
        /\ UNCHANGED <<sender, trackerVars, window, adrift, receiver, timeouts>>
    BY DEF ReceiveData
  <1>3. /\ Head(data) \in Frames /\ Head(data) \in OnWire(data)
        /\ Tail(data) \in Seq(Frames) /\ OnWire(Tail(data)) \subseteq OnWire(data)
    BY <1>1, <1>2, WireTail DEF ReliableTypeOK
  <1>4. c \in Chunks
    BY <1>2, <1>3 DEF Frames
  <1> HIDE DEF c
  <1>5. /\ [type |-> "ACK", id |-> c] \in Frames /\ [type |-> "NACK", id |-> c] \in Frames
        /\ [type |-> "BPRES"] \in Frames
    BY <1>4 DEF Frames
  <1>6. ASSUME NEW f \in Frames PROVE <<f>> \in Seq(Frames) /\ OnWire(<<f>>) = {f}
    <2>1. <<f>> \in Seq(Frames) /\ Len(<<f>>) = 1 /\ <<f>>[1] = f
      OBVIOUS
    <2>2. QED
      BY <2>1 DEF OnWire
  <1>7. <<>> \in Seq(Frames) /\ OnWire(<<>>) = {}
    <2>1. <<>> \in Seq(Frames) /\ Len(<<>>) = 0 /\ 1..0 = {}
      OBVIOUS
    <2>2. QED
      BY <2>1 DEF OnWire
  <1>8. ack \in Seq(Frames) /\ OnWire(ack) = {[type |-> "ACK", id |-> c]}
    BY <1>5, <1>6
  <1>9. nack \in Seq(Frames) /\ OnWire(nack) \subseteq {[type |-> "NACK", id |-> c]}
    BY <1>5, <1>6, <1>7
  <1> DEFINE bpres == Bpres(chunk_count + 1)
  <1>10. bpres \in Seq(Frames) /\ OnWire(bpres) \subseteq {[type |-> "BPRES"]}
    BY <1>5, <1>6, <1>7 DEF Bpres
  <1> HIDE DEF ack, nack, bpres
  <1>11. answers \in Seq(Frames)
    BY <1>1 DEF ReliableTypeOK
  <1>12. answers \o ack \in Seq(Frames) /\ OnWire(answers \o ack) \subseteq OnWire(answers) \cup OnWire(ack)
    BY <1>8, <1>11, WireConcat
  <1>13. /\ (answers \o ack) \o nack \in Seq(Frames)
         /\ OnWire((answers \o ack) \o nack) \subseteq OnWire(answers \o ack) \cup OnWire(nack)
    BY <1>9, <1>12, WireConcat
  <1>14. /\ ((answers \o ack) \o nack) \o bpres \in Seq(Frames)
         /\ OnWire(((answers \o ack) \o nack) \o bpres) \subseteq
                OnWire((answers \o ack) \o nack) \cup OnWire(bpres)
    BY <1>10, <1>13, WireConcat
  <1>15. answers' = ((answers \o ack) \o nack) \o bpres
    BY <1>2 DEF bpres
  <1>16. ReliableTypeOK'
    <2>1. answers' \in Seq(Frames) /\ data' \in Seq(Frames)
      BY <1>2, <1>3, <1>14, <1>15
    <2>2. received' \subseteq Chunks /\ chunk_count' \in Nat
      BY <1>1, <1>2, <1>4 DEF ReliableTypeOK
    <2>3. QED
      BY <1>1, <1>2, <2>1, <2>2 DEF ReliableTypeOK, trackerVars
  <1>17. ASSUME ~adrift' PROVE Tracked'
    <2>1. Tracked
      BY <1>2, <1>17 DEF ReliableInv
    <2>2. ASSUME NEW f \in OnWire(answers') PROVE f.type = "ACK" => f.id \in received'
      <3>1. f \in OnWire(answers) \/ f = [type |-> "ACK", id |-> c]
            \/ f = [type |-> "NACK", id |-> c] \/ f = [type |-> "BPRES"]
        BY <1>8, <1>9, <1>10, <1>12, <1>13, <1>14, <1>15
      <3>2. CASE f \in OnWire(answers)
        BY <1>2, <2>1, <3>2 DEF Tracked
      <3>3. CASE f = [type |-> "ACK", id |-> c]
        BY <1>2, <3>3
      <3>4. CASE f = [type |-> "NACK", id |-> c] \/ f = [type |-> "BPRES"]
        BY <3>4
      <3>5. QED
        BY <3>1, <3>2, <3>3, <3>4
    <2>3. chunks[c].state # "Pending"
      BY <1>2, <1>3, <2>1 DEF Tracked, c
    <2>4. InFlight' = InFlight /\ (all_acked' <=> all_acked)
      BY <1>2 DEF InFlight, all_acked, trackerVars
    <2>5. OnWire(data)' \subseteq OnWire(data)
      BY <1>2, <1>3 DEF OnWire
    <2>6. OnWire(answers)' = OnWire(answers')
      BY DEF OnWire
    <2>7. /\ acked_ids' = acked_ids /\ chunks' = chunks /\ contiguous' = contiguous
          /\ in_flight' = in_flight /\ retransmits' = retransmits
          /\ sender' = sender /\ receiver' = receiver /\ received' = received \cup {c}
      BY <1>2 DEF trackerVars
    <2>8. QED
      BY <2>1, <2>2, <2>3, <2>4, <2>5, <2>6, <2>7 DEF Tracked
  <1>18. QED
    BY <1>16, <1>17 DEF ReliableInv

\* A frame read while adrift may mark any chunk, and a NACK sends its chunk again
\* whatever its state: from there on only the types are kept.
LEMMA Adrift_Inv ==
    ASSUME ReliableInv, SenderTornRead \/ ReadNack \/ ReadAdrift
    PROVE  ReliableInv'
  <1>1. ReliableTypeOK /\ answers # <<>> /\ adrift'
    BY DEF ReliableInv, SenderTornRead, ReadNack, ReadAdrift
  <1>2. Head(answers) \in Frames /\ Tail(answers) \in Seq(Frames)
    BY <1>1, WireTail DEF ReliableTypeOK
  <1>3. CASE SenderTornRead
    BY <1>1, <1>2, <1>3 DEF SenderTornRead, ReliableInv, ReliableTypeOK, trackerVars, receiverVars
  <1>4. CASE ReadNack
    <2> DEFINE c == Head(answers).id
               n == IF c \in InFlight THEN chunks[c].attempt + 1 ELSE 1
    <2>1. /\ data' = Append(data, Sending(c))
          /\ chunks' = [chunks EXCEPT ![c] = [state |-> "InFlight", attempt |-> n]]
          /\ in_flight' = in_flight + 1
          /\ retransmits' = IF n > 1 THEN retransmits + 1 ELSE retransmits
          /\ answers' = Tail(answers) /\ sender' = "check" /\ Head(answers).type = "NACK"
          /\ UNCHANGED <<acked_ids, contiguous, window, receiverVars, timeouts>>
      BY <1>4 DEF ReadNack
    <2>2. c \in Chunks
      BY <1>2, <2>1 DEF Frames
    <2>3. n \in Nat
      BY <1>1, <2>2 DEF ReliableTypeOK, ChunkStates
    <2> HIDE DEF c, n
    <2>4. Sending(c) \in Frames /\ [state |-> "InFlight", attempt |-> n] \in ChunkStates
      BY <2>2, <2>3 DEF Sending, Frames, ChunkStates
    <2>5. data' \in Seq(Frames)
      BY <1>1, <2>1, <2>4, WireAppend DEF ReliableTypeOK
    <2>6. chunks' \in [Chunks -> ChunkStates]
      BY <1>1, <2>1, <2>2, <2>4 DEF ReliableTypeOK
    <2>7. in_flight' \in Nat /\ retransmits' \in Nat
      BY <1>1, <2>1 DEF ReliableTypeOK
    <2>8. QED
      BY <1>1, <1>2, <2>1, <2>5, <2>6, <2>7 DEF ReliableInv, ReliableTypeOK, receiverVars
  <1>5. CASE ReadAdrift
    <2>1. /\ answers' = Tail(answers) /\ sender' \in {"check", "error"}
          /\ UNCHANGED <<window, adrift, data, receiverVars, timeouts>>
          /\ UNCHANGED trackerVars \/ \E c \in Chunks : mark_acked(c)
      BY <1>5 DEF ReadAdrift
    <2>2. /\ chunks' \in [Chunks -> ChunkStates] /\ acked_ids' \subseteq Chunks
          /\ contiguous' \in 0..NChunks /\ in_flight' \in Nat /\ retransmits' \in Nat
      <3>1. CASE UNCHANGED trackerVars
        BY <1>1, <3>1 DEF ReliableTypeOK, trackerVars
      <3>2. QED
        BY <1>1, <2>1, <3>1, MarkAcked_Type
    <2>3. QED
      BY <1>1, <1>2, <2>1, <2>2 DEF ReliableInv, ReliableTypeOK, receiverVars
  <1>6. QED
    BY <1>3, <1>4, <1>5

\* Another FIN or FINACK is sent.
LEMMA FinFrame == [type |-> "FIN"] \in Frames /\ [type |-> "FINACK"] \in Frames
  BY DEF Frames

\* The end of the file is announced and answered.
LEMMA Fin_Inv ==
    ASSUME ReliableInv, SenderCheck \/ SenderFin \/ ReceiveFin
    PROVE  ReliableInv'
  <1>1. ReliableTypeOK /\ UNCHANGED <<trackerVars, window, adrift, received, chunk_count, timeouts>>
    BY DEF ReliableInv, SenderCheck, SenderFin, ReceiveFin, receiverVars
  <1>2. /\ data' \in Seq(Frames) /\ OnWire(data') \subseteq OnWire(data) \cup {[type |-> "FIN"]}
        /\ answers' \in Seq(Frames) /\ OnWire(answers') \subseteq OnWire(answers) \cup {[type |-> "FINACK"]}
    <2>1. data \in Seq(Frames) /\ answers \in Seq(Frames)
      BY <1>1 DEF ReliableTypeOK
    <2>2. /\ Append(data, [type |-> "FIN"]) \in Seq(Frames)
          /\ OnWire(Append(data, [type |-> "FIN"])) = OnWire(data) \cup {[type |-> "FIN"]}
      BY <2>1, FinFrame, WireAppend
    <2>3. /\ Append(answers, [type |-> "FINACK"]) \in Seq(Frames)
          /\ OnWire(Append(answers, [type |-> "FINACK"])) = OnWire(answers) \cup {[type |-> "FINACK"]}
      BY <2>1, FinFrame, WireAppend
    <2>4. answers # <<>> => Tail(answers) \in Seq(Frames) /\ OnWire(Tail(answers)) \subseteq OnWire(answers)
      BY <2>1, WireTail
    <2>5. data # <<>> => Tail(data) \in Seq(Frames) /\ OnWire(Tail(data)) \subseteq OnWire(data)
      BY <2>1, WireTail
    <2>6. /\ data' \in {data, Append(data, [type |-> "FIN"])} \/ (data # <<>> /\ data' = Tail(data))
          /\ \/ answers' = answers \/ answers' = Append(answers, [type |-> "FINACK"])
             \/ answers # <<>> /\ answers' = Tail(answers)
      BY DEF SenderCheck, SenderFin, ReceiveFin
    <2>7. data' \in Seq(Frames) /\ OnWire(data') \subseteq OnWire(data) \cup {[type |-> "FIN"]}
      BY <2>1, <2>2, <2>5, <2>6
    <2>8. answers' \in Seq(Frames) /\ OnWire(answers') \subseteq OnWire(answers) \cup {[type |-> "FINACK"]}
      BY <2>1, <2>3, <2>4, <2>6
    <2>9. QED
      BY <2>7, <2>8
  <1>3. sender' \in {"top", "fin", "ok", sender} /\ receiver' \in {"ok", receiver}
    BY DEF SenderCheck, SenderFin, ReceiveFin, receiverVars
  <1>4. ReliableTypeOK'
    BY <1>1, <1>2, <1>3 DEF ReliableTypeOK, trackerVars
  <1>5. ASSUME ~adrift' PROVE Tracked'
    <2>1. Tracked
      BY <1>1, <1>5 DEF ReliableInv
    <2>2. /\ OnWire(data') \subseteq OnWire(data) \/ all_acked
          /\ sender' \in {"fin", "ok"} \/ receiver' = "ok" =>
                sender \in {"fin", "ok"} \/ receiver = "ok" \/ all_acked
      <3>1. CASE SenderCheck
        BY <3>1 DEF SenderCheck, receiverVars
      <3>2. CASE SenderFin
        BY <2>1, <3>2 DEF SenderFin, receiverVars, Tracked
      <3>3. CASE ReceiveFin
        <4>1. data # <<>> /\ data \in Seq(Frames) /\ Head(data).type = "FIN" /\ data' = Tail(data)
          BY <1>1, <3>3 DEF ReceiveFin, ReliableTypeOK
        <4>2. Head(data) \in OnWire(data) /\ OnWire(data') \subseteq OnWire(data)
          BY <4>1, WireTail
        <4>3. all_acked
          BY <2>1, <4>1, <4>2 DEF Tracked
        <4>4. QED
          BY <4>3
      <3>4. QED
        BY <3>1, <3>2, <3>3
    <2>3. InFlight' = InFlight /\ (all_acked' <=> all_acked)
      BY <1>1 DEF InFlight, all_acked, trackerVars
    <2>4. OnWire(data)' = OnWire(data') /\ OnWire(answers)' = OnWire(answers')
      BY DEF OnWire
    <2>5. /\ acked_ids' = acked_ids /\ chunks' = chunks /\ contiguous' = contiguous
          /\ in_flight' = in_flight /\ retransmits' = retransmits /\ received' = received
      BY <1>1 DEF trackerVars
    <2>6. ASSUME NEW f \in OnWire(data')
          PROVE  /\ f.type = "DATA" => chunks[f.id].state # "Pending"
                 /\ f.type = "FIN" => all_acked
      <3>1. CASE f \in OnWire(data)
        BY <2>1, <3>1 DEF Tracked
      <3>2. CASE f = [type |-> "FIN"] /\ all_acked
        BY <3>2
      <3>3. QED
        BY <1>2, <2>2, <3>1, <3>2
    <2>7. ASSUME NEW f \in OnWire(answers') PROVE f.type = "ACK" => f.id \in received
      <3>1. CASE f \in OnWire(answers)
        BY <2>1, <3>1 DEF Tracked
      <3>2. CASE f = [type |-> "FINACK"]
        BY <3>2
      <3>3. QED
        BY <1>2, <3>1, <3>2
    <2>8. QED
      BY <2>1, <2>2, <2>3, <2>4, <2>5, <2>6, <2>7 DEF Tracked
  <1>6. QED
    BY <1>4, <1>5 DEF ReliableInv

\* Steps that only move the sender or the window.
LEMMA Quiet_Inv ==
    ASSUME ReliableInv,
           \/ SenderGivesUp \/ ControlSetsWindow \/ SenderReadTimeout \/ ReadBpres \/ ReceiveError
           \/ UNCHANGED reliableVars
    PROVE  ReliableInv'
  <1>1. /\ ReliableTypeOK /\ UNCHANGED <<trackerVars, adrift, data, received, chunk_count, timeouts>>
        /\ answers' = answers \/ (answers # <<>> /\ answers' = Tail(answers))
        /\ sender' \in {sender, "check", "error"} /\ receiver' \in {receiver, "error"}
    BY DEF ReliableInv, SenderGivesUp, ControlSetsWindow, SenderReadTimeout, ReadBpres, ReceiveError,
           reliableVars, receiverVars
  <1>2. window' \in 1..MaxWindow
    <2>1. window \in 1..MaxWindow /\ MaxWindow \in Int
      BY <1>1, ReliableAssumption DEF ReliableTypeOK
    <2>2. QED
      BY <2>1 DEF SenderGivesUp, ControlSetsWindow, SenderReadTimeout, ReadBpres, ReceiveError,
                  reliableVars, receiverVars
  <1>3. answers \in Seq(Frames)
    BY <1>1 DEF ReliableTypeOK
  <1>4. answers' \in Seq(Frames) /\ OnWire(answers') \subseteq OnWire(answers)
    BY <1>1, <1>3, WireTail
  <1>5. ReliableTypeOK'
    BY <1>1, <1>2, <1>4 DEF ReliableTypeOK, trackerVars
  <1>6. ASSUME ~adrift' PROVE Tracked'
    <2>1. Tracked /\ data' = data
      BY <1>1, <1>6 DEF ReliableInv
    <2>2. QED
      BY <1>1, <1>4, <2>1, TrackedKept
  <1>7. QED
    BY <1>5, <1>6 DEF ReliableInv

LEMMA ReliableNext_Inv == ReliableInv /\ [ReliableNext]_reliableVars => ReliableInv'
  BY SenderTop_Inv, ReadAck_Inv, ReceiveData_Inv, Adrift_Inv, Fin_Inv, Quiet_Inv DEF ReliableNext

\* For files of any length, windows of any size and any number of timeouts: as long
\* as the sender reads frames where they begin, neither side finishes before every
\* chunk has arrived.
THEOREM ReturnedIsWholeHolds == ReliableSpec => []ReturnedIsWhole
  <1>1. ASSUME ReliableInv PROVE ReturnedIsWhole
    <2> SUFFICES ASSUME Tracked, ReliableTypeOK, all_acked PROVE received = Chunks
      BY <1>1 DEF ReliableInv, ReturnedIsWhole, Tracked
    <2>1. \A c \in Chunks : c \in 0..(contiguous - 1)
      BY ReliableAssumption DEF all_acked, Chunks
    <2>2. Chunks \subseteq received /\ received \subseteq Chunks
      BY <2>1 DEF Tracked, ReliableTypeOK
    <2>3. QED
      BY <2>2
  <1>2. QED
    BY <1>1, ReliableInit_Inv, ReliableNext_Inv, PTL DEF ReliableSpec

\* in_flight is the number of chunks in flight plus one for every retransmission
\* there has been: the window is never overrun, and retransmissions shrink it.
THEOREM InFlightCountHolds == ReliableSpec => []InFlightCount
  <1>1. ReliableInv => InFlightCount
    BY DEF ReliableInv, Tracked, InFlightCount
  <1>2. QED
    BY <1>1, ReliableInit_Inv, ReliableNext_Inv, PTL DEF ReliableSpec
=============================================================================
