-------------------------- MODULE Transport_proofs --------------------------
(***************************************************************************)
(* What the transports promise, for files of any length, any number of     *)
(* tasks, calls and frames, and any window.                                *)
(***************************************************************************)
EXTENDS QuicUpload, Keepalive, Tunnel, SequenceTheorems, FiniteSetTheorems, TLAPS

-----------------------------------------------------------------------------
(* QuicUpload: the counter of the flow window.  Tasks between the two steps *)
(* of acquire, and between the two of Drop, hold a permit they are not      *)
(* counted for; both numbers follow the tasks' states.                      *)

Holding == {"admitted", "counted", "written", "ending", "uncounted"}
Counted == {"counted", "written", "ending"}
InStates(S) == {t \in QuicTasks : task[t] \in S}

QuicInv ==
    /\ QuicTypeOK
    /\ avail + Cardinality(InStates(Holding)) = WindowMax
    /\ inFlight = Cardinality(InStates(Counted))

\* Every set of tasks is finite, and the counted ones hold a permit.
LEMMA TasksFinite ==
    ASSUME QuicAssumption, NEW S
    PROVE  IsFiniteSet(InStates(S)) /\ Cardinality(InStates(S)) \in Nat
  BY FS_Subset, FS_CardinalityType DEF QuicAssumption, InStates

\* A task that moves from a to b: what it does to the tasks counted in S.
LEMMA TaskMoves ==
    ASSUME QuicAssumption, task \in [QuicTasks -> TaskStates],
           NEW t \in QuicTasks, NEW a, NEW b, TaskGoes(t, a, b), NEW S
    PROVE  /\ (a \in S <=> b \in S) => InStates(S)' = InStates(S)
           /\ a \notin S /\ b \in S => Cardinality(InStates(S)') = Cardinality(InStates(S)) + 1
           /\ a \in S /\ b \notin S => Cardinality(InStates(S)') = Cardinality(InStates(S)) - 1
  <1>1. /\ task[t] = a /\ task'[t] = b
        /\ \A u \in QuicTasks \ {t} : task'[u] = task[u]
    BY DEF TaskGoes
  <1>2. IsFiniteSet(InStates(S))
    BY TasksFinite
  <1>3. ASSUME a \in S <=> b \in S PROVE InStates(S)' = InStates(S)
    BY <1>1, <1>3 DEF InStates
  <1>4. ASSUME a \notin S, b \in S PROVE Cardinality(InStates(S)') = Cardinality(InStates(S)) + 1
    <2>1. InStates(S)' = InStates(S) \cup {t} /\ t \notin InStates(S)
      BY <1>1, <1>4 DEF InStates
    <2>2. QED
      BY <1>2, <2>1, FS_AddElement
  <1>5. ASSUME a \in S, b \notin S PROVE Cardinality(InStates(S)') = Cardinality(InStates(S)) - 1
    <2>1. InStates(S)' = InStates(S) \ {t} /\ t \in InStates(S)
      BY <1>1, <1>5 DEF InStates
    <2>2. Cardinality(InStates(S) \ {t}) = Cardinality(InStates(S)) - 1
      BY <1>2, <2>1, FS_RemoveElement
    <2>3. QED
      BY <2>1, <2>2
  <1>6. QED
    BY <1>3, <1>4, <1>5

LEMMA QuicInit_Inv ==
    ASSUME QuicAssumption
    PROVE  QuicInit => QuicInv
  <1> SUFFICES ASSUME QuicInit PROVE QuicInv
    OBVIOUS
  <1>1. InStates(Holding) = {} /\ InStates(Counted) = {}
    BY DEF QuicInit, InStates, Holding, Counted
  <1>2. Cardinality({}) = 0
    BY FS_EmptySet
  <1>3. QuicTypeOK
    BY DEF QuicInit, QuicTypeOK, TaskStates, QuicAssumption
  <1>4. QED
    BY <1>1, <1>2, <1>3 DEF QuicInv, QuicInit, QuicAssumption

LEMMA QuicNext_Inv ==
    ASSUME QuicAssumption
    PROVE  QuicInv /\ [QuicNext]_quicVars => QuicInv'
  <1> SUFFICES ASSUME QuicInv, [QuicNext]_quicVars PROVE QuicInv'
    OBVIOUS
  <1> USE DEF QuicInv
  <1>t. QuicTypeOK /\ task \in [QuicTasks -> TaskStates] /\ WindowMax \in Nat
    BY DEF QuicTypeOK, QuicAssumption
  <1>n. \A S : Cardinality(InStates(S)) \in Nat
    BY TasksFinite
  <1>1. ASSUME NEW a, NEW b, Goto(a, b),
               b \in {"metadata", "prehash", "spawning", "joining", "checksum", "ok", "error"}
        PROVE  QuicInv'
    BY <1>1 DEF Goto, QuicTypeOK, InStates
  <1>2. CASE UNCHANGED quicVars
    BY <1>2 DEF quicVars, QuicTypeOK, InStates
  <1>3. ASSUME NEW t \in QuicTasks, SpawnTask(t) \/ ReadChunk(t) \/ ReadNothing(t) \/ WriteChunk(t)
                                       \/ HashChunk(t) \/ StreamFails(t)
        PROVE  QuicInv'
    <2>1. QuicTypeOK'
      BY <1>3 DEF SpawnTask, ReadChunk, ReadNothing, WriteChunk, HashChunk, StreamFails, TaskGoes,
                  QuicTypeOK, TaskStates, QuicAssumption
    <2>2. InStates(Holding)' = InStates(Holding) /\ InStates(Counted)' = InStates(Counted)
      <3>1. PICK a, b : /\ TaskGoes(t, a, b)
                        /\ a \in Holding <=> b \in Holding
                        /\ a \in Counted <=> b \in Counted
        BY <1>3 DEF SpawnTask, ReadChunk, ReadNothing, WriteChunk, HashChunk, StreamFails,
                    Holding, Counted
      <3>2. QED
        BY <1>t, <3>1, TaskMoves
    <2>3. UNCHANGED <<avail, inFlight>>
      BY <1>3 DEF SpawnTask, ReadChunk, ReadNothing, WriteChunk, HashChunk, StreamFails
    <2>4. QED
      BY <2>1, <2>2, <2>3
  <1>4. ASSUME NEW t \in QuicTasks, Acquire(t) PROVE QuicInv'
    <2>1. TaskGoes(t, "buffered", "admitted") /\ avail > 0 /\ avail' = avail - 1 /\ inFlight' = inFlight
      BY <1>4 DEF Acquire
    <2>2. /\ InStates(Counted)' = InStates(Counted)
          /\ Cardinality(InStates(Holding)') = Cardinality(InStates(Holding)) + 1
      BY <1>t, <2>1, TaskMoves DEF Holding, Counted
    <2>3. QuicTypeOK'
      BY <1>4, <2>1 DEF Acquire, TaskGoes, QuicTypeOK, TaskStates
    <2>4. QED
      BY <1>t, <1>n, <2>1, <2>2, <2>3 DEF QuicTypeOK
  <1>5. ASSUME NEW t \in QuicTasks, CountIn(t) PROVE QuicInv'
    <2>1. TaskGoes(t, "admitted", "counted") /\ avail' = avail /\ inFlight' = inFlight + 1
      BY <1>5 DEF CountIn
    <2>2. /\ InStates(Holding)' = InStates(Holding)
          /\ Cardinality(InStates(Counted)') = Cardinality(InStates(Counted)) + 1
      BY <1>t, <2>1, TaskMoves DEF Holding, Counted
    <2>3. QuicTypeOK'
      BY <1>5, <2>1 DEF CountIn, TaskGoes, QuicTypeOK, TaskStates
    <2>4. QED
      BY <2>1, <2>2, <2>3
  <1>6. ASSUME NEW t \in QuicTasks, DropPermit(t) PROVE QuicInv'
    <2>1. CASE TaskGoes(t, "ending", "uncounted") /\ inFlight' = inFlight - 1
                /\ UNCHANGED <<upload, nextOffset, avail, total_sent>>
      <3>1. /\ InStates(Holding)' = InStates(Holding)
            /\ Cardinality(InStates(Counted)') = Cardinality(InStates(Counted)) - 1
        BY <1>t, <2>1, TaskMoves DEF Holding, Counted
      <3>2. Cardinality(InStates(Counted)') \in Nat
        BY TasksFinite, FS_Subset, FS_CardinalityType DEF QuicAssumption, InStates
      <3>3. QuicTypeOK'
        BY <2>1, <3>1, <3>2 DEF TaskGoes, QuicTypeOK, TaskStates
      <3>4. QED
        BY <2>1, <3>1, <3>3
    <2>2. CASE TaskGoes(t, "uncounted", "over") /\ avail' = avail + 1
                /\ UNCHANGED <<upload, nextOffset, inFlight, total_sent>>
      <3>1. /\ InStates(Counted)' = InStates(Counted)
            /\ Cardinality(InStates(Holding)') = Cardinality(InStates(Holding)) - 1
        BY <1>t, <2>2, TaskMoves DEF Holding, Counted
      <3>2. QuicTypeOK'
        BY <2>2 DEF TaskGoes, QuicTypeOK, TaskStates
      <3>3. QED
        BY <1>n, <2>2, <3>1, <3>2 DEF QuicTypeOK
    <2>3. QED
      BY <1>6, <2>1, <2>2 DEF DropPermit
  <1>7. QED
    BY <1>1, <1>2, <1>3, <1>4, <1>5, <1>6
       DEF QuicNext, QuicConnect, QuicFails, SpawnDone, JoinTasks, SendChecksum

\* However many tasks acquire and release the window, and wherever they are between
\* the two updates of each, the counter never exceeds the window (FlowWindow::acquire,
\* WindowPermit::drop).
THEOREM InFlightWithinWindowHolds == QuicSpec => []InFlightWithinWindow
  <1>1. QuicInv => InFlightWithinWindow
    <2> SUFFICES ASSUME QuicInv PROVE InFlightWithinWindow
      OBVIOUS
    <2>1. InStates(Counted) \subseteq InStates(Holding)
      BY DEF InStates, Counted, Holding
    <2>2. Cardinality(InStates(Counted)) <= Cardinality(InStates(Holding))
      BY <2>1, TasksFinite, FS_Subset, QuicAssumption
    <2>3. QED
      BY <2>2, TasksFinite, QuicAssumption DEF QuicInv, QuicTypeOK, InFlightWithinWindow, QuicAssumption
  <1>2. QED
    BY <1>1, QuicInit_Inv, QuicNext_Inv, QuicAssumption, PTL DEF QuicSpec

-----------------------------------------------------------------------------
(* Keepalive: a frame that was begun is in hand until it is written.  After *)
(* the stream is dropped the wire may end with half a frame, but nothing is *)
(* written to it any more.                                                  *)

Contiguous(w) ==
    \A i \in 1..Len(w) - 1 : w[i].half = 1 => w[i + 1] = [frame |-> w[i].frame, half |-> 2]
Closed(w) == Len(w) > 0 => w[Len(w)].half # 1

KeepaliveInv ==
    /\ wire \in Seq(Piece) /\ frames \in Seq(KaFrames)
    /\ Contiguous(wire)
    /\ poll # "dropped" =>
          \/ partial = <<>> /\ Closed(wire)
          \/ \E f \in KaFrames : partial = Pieces(f) /\ Closed(wire)
          \/ \E f \in KaFrames : /\ partial = <<[frame |-> f, half |-> 2]>>
                                 /\ Len(wire) > 0 /\ wire[Len(wire)] = [frame |-> f, half |-> 1]

\* A piece that follows a whole frame, or completes one, may be written.
LEMMA AppendPiece ==
    ASSUME NEW w \in Seq(Piece), Contiguous(w), NEW x \in Piece,
           \/ Closed(w) \/ (Len(w) > 0 /\ x = [frame |-> w[Len(w)].frame, half |-> 2])
    PROVE  Append(w, x) \in Seq(Piece) /\ Contiguous(Append(w, x))
           /\ Len(Append(w, x)) > 0 /\ Append(w, x)[Len(Append(w, x))] = x
  <1>1. Append(w, x) \in Seq(Piece) /\ Len(Append(w, x)) = Len(w) + 1 /\ Len(w) \in Nat
    OBVIOUS
  <1>2. /\ \A i \in 1..Len(w) : Append(w, x)[i] = w[i]
        /\ Append(w, x)[Len(w) + 1] = x
    OBVIOUS
  <1>3. Contiguous(Append(w, x))
    BY <1>1, <1>2 DEF Contiguous, Closed
  <1>4. QED
    BY <1>1, <1>2, <1>3

LEMMA PieceFacts ==
    \A f \in KaFrames : /\ [frame |-> f, half |-> 1] \in Piece
                        /\ [frame |-> f, half |-> 2] \in Piece
                        /\ [frame |-> "DATA", half |-> 0] \in Piece
                        /\ Len(Pieces(f)) = 2 /\ Pieces(f) # <<>>
                        /\ Head(Pieces(f)) = [frame |-> f, half |-> 1]
                        /\ Tail(Pieces(f)) = <<[frame |-> f, half |-> 2]>>
  BY DEF Piece, Pieces, KaFrames

LEMMA KeepaliveNext_Inv ==
    KeepaliveInv /\ [KeepaliveNext]_keepaliveVars => KeepaliveInv'
  <1> SUFFICES ASSUME KeepaliveInv, [KeepaliveNext]_keepaliveVars PROVE KeepaliveInv'
    OBVIOUS
  <1>1. CASE WriteFrame
    <2>1. PICK f \in KaFrames :
             \/ partial = Pieces(f) /\ Closed(wire)
             \/ /\ partial = <<[frame |-> f, half |-> 2]>>
                /\ Len(wire) > 0 /\ wire[Len(wire)] = [frame |-> f, half |-> 1]
      BY <1>1 DEF WriteFrame, Polling, KeepaliveInv
    <2> DEFINE one == [frame |-> f, half |-> 1]
               two == [frame |-> f, half |-> 2]
    <2>2. one \in Piece /\ two \in Piece
      BY PieceFacts
    <2>3. CASE partial = Pieces(f) /\ Closed(wire)
      <3>1. /\ Append(wire, one) \in Seq(Piece) /\ Contiguous(Append(wire, one))
            /\ Len(Append(wire, one)) > 0 /\ Append(wire, one)[Len(Append(wire, one))] = one
        BY <2>2, <2>3, AppendPiece DEF KeepaliveInv
      <3> DEFINE w == Append(wire, one)
      <3>2. wire' = Append(w, two)
        BY <1>1, <2>2, <2>3 DEF WriteFrame, Pieces, KeepaliveInv
      <3>w. w \in Seq(Piece) /\ Contiguous(w) /\ Len(w) > 0 /\ w[Len(w)] = one
        BY <3>1
      <3> HIDE DEF w
      <3>t. two = [frame |-> w[Len(w)].frame, half |-> 2]
        BY <3>w
      <3>3. /\ wire' \in Seq(Piece) /\ Contiguous(wire')
            /\ Len(wire') > 0 /\ wire'[Len(wire')] = two
        BY <2>2, <3>w, <3>t, <3>2, AppendPiece
      <3>4. QED
        BY <1>1, <3>3 DEF WriteFrame, KeepaliveInv, Closed
    <2>4. CASE /\ partial = <<two>> /\ Len(wire) > 0 /\ wire[Len(wire)] = one
      <3>1. wire' = Append(wire, two)
        BY <1>1, <2>2, <2>4 DEF WriteFrame, KeepaliveInv
      <3>2. /\ wire' \in Seq(Piece) /\ Contiguous(wire')
            /\ Len(wire') > 0 /\ wire'[Len(wire')] = two
        BY <2>2, <2>4, <3>1, AppendPiece DEF KeepaliveInv
      <3>3. QED
        BY <1>1, <3>2 DEF WriteFrame, KeepaliveInv, Closed
    <2>5. QED
      BY <2>1, <2>3, <2>4
  <1>2. CASE WriteFramePart
    <2>1. PICK f \in KaFrames : partial = Pieces(f) /\ Closed(wire)
      <3>1. Len(partial) = 2 /\ poll # "dropped"
        BY <1>2 DEF WriteFramePart, Polling
      <3>2. partial # <<>> /\ \A f \in KaFrames : partial # <<[frame |-> f, half |-> 2]>>
        BY <3>1
      <3>3. QED
        BY <3>1, <3>2 DEF KeepaliveInv
    <2>2. wire' = Append(wire, [frame |-> f, half |-> 1]) /\ partial' = <<[frame |-> f, half |-> 2]>>
      BY <1>2, <2>1, PieceFacts DEF WriteFramePart
    <2>3. /\ wire' \in Seq(Piece) /\ Contiguous(wire')
          /\ Len(wire') > 0 /\ wire'[Len(wire')] = [frame |-> f, half |-> 1]
      BY <2>1, <2>2, AppendPiece, PieceFacts DEF KeepaliveInv
    <2>4. QED
      BY <1>2, <2>2, <2>3 DEF WriteFramePart, KeepaliveInv
  <1>3. CASE NextFrame
    <2>1. Head(frames) \in KaFrames /\ Tail(frames) \in Seq(KaFrames)
      BY <1>3 DEF NextFrame, KeepaliveInv
    <2>2. QED
      BY <1>3, <2>1 DEF NextFrame, Polling, KeepaliveInv, Pieces
  <1>4. CASE WriteData
    <2>1. Closed(wire) /\ wire' = Append(wire, [frame |-> "DATA", half |-> 0])
      BY <1>4 DEF WriteData, KeepaliveInv, Pieces
    <2>2. /\ wire' \in Seq(Piece) /\ Contiguous(wire')
          /\ Len(wire') > 0 /\ wire'[Len(wire')] = [frame |-> "DATA", half |-> 0]
      BY <2>1, AppendPiece, PieceFacts DEF KeepaliveInv, KaFrames
    <2>3. QED
      BY <1>4, <2>2 DEF WriteData, KeepaliveInv, Closed
  <1>5. CASE PingTick \/ PeerPing
    <2>1. frames' \in Seq(KaFrames)
      <3>1. "PING" \in KaFrames /\ "PONG" \in KaFrames /\ frames \in Seq(KaFrames)
        BY DEF KaFrames, KeepaliveInv
      <3>2. Append(frames, "PING") \in Seq(KaFrames) /\ Append(frames, "PONG") \in Seq(KaFrames)
        BY <3>1
      <3>3. QED
        BY <1>5, <3>1, <3>2 DEF PingTick, PeerPing
    <2>2. QED
      BY <1>5, <2>1 DEF PingTick, PeerPing, KeepaliveInv
  <1>6. CASE \/ WriteBlock \/ FlushBody \/ FlushAndShutdown \/ Blocked \/ WriteFails \/ Repoll
             \/ MonitorStarts \/ IdleTimeout \/ MonitorStops \/ PeerOther \/ PeerCloses
             \/ UNCHANGED keepaliveVars
    BY <1>6 DEF WriteBlock, FlushBody, FlushAndShutdown, Blocked, WriteFails, Repoll, Polling,
                MonitorStarts, IdleTimeout, MonitorStops, PeerOther, PeerCloses, keepaliveVars,
                KeepaliveInv
  <1>7. CASE DropHandle
    BY <1>7 DEF DropHandle, KeepaliveInv
  <1>8. QED
    BY <1>1, <1>2, <1>3, <1>4, <1>5, <1>6, <1>7 DEF KeepaliveNext

LEMMA KeepaliveInit_Inv == KeepaliveInit => KeepaliveInv
  BY DEF KeepaliveInit, KeepaliveInv, Contiguous, Closed

\* Whatever part of a frame the connection takes at each poll, and whatever the monitor
\* and the peer queue meanwhile, nothing comes between the two pieces of a PING or PONG
\* (poll_write, poll_flush).
THEOREM FramesAreContiguousHolds == KeepaliveSpec => []FramesAreContiguous
  <1>1. KeepaliveInv => FramesAreContiguous
    BY DEF KeepaliveInv, Contiguous, FramesAreContiguous
  <1>2. QED
    BY <1>1, KeepaliveInit_Inv, KeepaliveNext_Inv, PTL DEF KeepaliveSpec
-----------------------------------------------------------------------------
(* Tunnel: what a connection carries is a file being read and pieces not    *)
(* yet read; each piece follows the one before it, and only the call that   *)
(* holds the mutex may have left its frame unfinished at the end.           *)

FramePiece == Calls \X (1..FramePieces)

\* Piece y may come after piece x: the next one of its frame, or a first one.
Follows(x, y) == IF x[2] < FramePieces THEN y = <<x[1], x[2] + 1>> ELSE y[2] = 1

\* r is the file the phone is reading, s what it has not read.
Carries(r, s) ==
    /\ r \in Seq(FramePiece) /\ s \in Seq(FramePiece) /\ Len(r) < FramePieces
    /\ \A i \in 1..Len(r) : r[i] = <<r[1][1], i>>
    /\ \A i \in 1..Len(s) - 1 : Follows(s[i], s[i + 1])
    /\ Len(s) > 0 => IF Len(r) = 0 THEN s[1][2] = 1 ELSE s[1] = <<r[1][1], Len(r) + 1>>
EndsWith(r, s, x) == IF Len(s) > 0 THEN s[Len(s)] = x ELSE Len(r) > 0 /\ r[Len(r)] = x

Begun(c) == lockedBy[c] # NoCall /\ piece[lockedBy[c]] > 0
Sent(k, c) == k \in Calls /\ via[k] = c /\ call[k] # "idle"

LinkInv(c) ==
    /\ Carries(reading[c], stream[c])
    /\ \A i \in 1..Len(reading[c]) : Sent(reading[c][i][1], c)
    /\ \A i \in 1..Len(stream[c]) : Sent(stream[c][i][1], c)
    /\ IF Begun(c) THEN EndsWith(reading[c], stream[c], <<lockedBy[c], piece[lockedBy[c]]>>)
       ELSE \A x \in FramePiece : EndsWith(reading[c], stream[c], x) => x[2] = FramePieces

LocksInv ==
    /\ \A c \in Links : lockedBy[c] # NoCall =>
           /\ lockedBy[c] \in Calls /\ c <= links
           /\ call[lockedBy[c]] = "writing" /\ via[lockedBy[c]] = c
    /\ \A k \in Calls :
           /\ call[k] # "idle" /\ call[k] # "no_tunnel" => via[k] \in 1..links
           /\ call[k] = "writing" => lockedBy[via[k]] = k /\ piece[k] < FramePieces
           /\ call[k] \in {"idle", "waiting"} => piece[k] = 0

StoredInv ==
    \A f \in stored : \E k \in Calls :
        /\ call[k] # "idle" /\ via[k] \in 1..links
        /\ f = [phone |-> phoneOf[via[k]], content |-> [i \in 1..FramePieces |-> <<k, i>>]]

TunnelInv ==
    /\ TunnelTypeOK
    /\ stream \in [Links -> Seq(FramePiece)] /\ reading \in [Links -> Seq(FramePiece)]
    /\ \A c \in Links : c > links => reading[c] = <<>> /\ stream[c] = <<>>
    /\ LocksInv /\ StoredInv
    /\ \A c \in up : LinkInv(c)

\* A piece that follows the last one may be written.
LEMMA WriteCarries ==
    ASSUME NEW r, NEW s, Carries(r, s), NEW x \in FramePiece,
           \/ Len(s) = 0 /\ Len(r) = 0 /\ x[2] = 1
           \/ \E y \in FramePiece : EndsWith(r, s, y) /\ Follows(y, x)
    PROVE  /\ Carries(r, Append(s, x)) /\ EndsWith(r, Append(s, x), x)
           /\ \A y : EndsWith(r, Append(s, x), y) => y = x
  <1>1. r \in Seq(FramePiece) /\ s \in Seq(FramePiece) /\ Len(s) \in Nat /\ Len(r) \in Nat
    BY DEF Carries
  <1> DEFINE t == Append(s, x)
  <1>2. /\ t \in Seq(FramePiece) /\ Len(t) = Len(s) + 1
        /\ \A i \in 1..Len(s) : t[i] = s[i]
        /\ t[Len(s) + 1] = x
    BY <1>1, AppendProperties
  <1> HIDE DEF t
  <1>3. ASSUME NEW i \in 1..Len(t) - 1 PROVE Follows(t[i], t[i + 1])
    <2>1. CASE i = Len(s)
      <3>1. t[i] = s[Len(s)] /\ t[i + 1] = x /\ Len(s) > 0
        BY <1>1, <1>2, <2>1
      <3>2. Follows(s[Len(s)], x)
        BY <3>1 DEF EndsWith
      <3>3. QED
        BY <3>1, <3>2
    <2>2. CASE i < Len(s)
      <3>1. i \in 1..Len(s) - 1 /\ t[i] = s[i] /\ t[i + 1] = s[i + 1]
        BY <1>1, <1>2, <2>2
      <3>2. QED
        BY <3>1 DEF Carries
    <2>3. QED
      BY <1>1, <1>2, <2>1, <2>2
  <1>4. IF Len(r) = 0 THEN t[1][2] = 1 ELSE t[1] = <<r[1][1], Len(r) + 1>>
    <2>1. CASE Len(s) > 0
      BY <1>1, <1>2, <2>1 DEF Carries
    <2>2. CASE Len(s) = 0 /\ Len(r) = 0
      <3>1. \A y : ~EndsWith(r, s, y)
        BY <2>2 DEF EndsWith
      <3>2. QED
        BY <1>2, <2>2, <3>1
    <2>3. CASE Len(s) = 0 /\ Len(r) > 0
      <3>1. r[Len(r)] = <<r[1][1], Len(r)>> /\ Len(r) < FramePieces
        BY <1>1, <2>3 DEF Carries
      <3>2. Follows(r[Len(r)], x)
        BY <2>3 DEF EndsWith
      <3>3. x = <<r[1][1], Len(r) + 1>>
        BY <3>1, <3>2 DEF Follows
      <3>4. QED
        BY <1>2, <2>3, <3>3
    <2>4. QED
      BY <1>1, <2>1, <2>2, <2>3
  <1>5. Carries(r, t)
    BY <1>1, <1>2, <1>3, <1>4 DEF Carries
  <1>6. EndsWith(r, t, x) /\ \A y : EndsWith(r, t, y) => y = x
    BY <1>1, <1>2 DEF EndsWith
  <1>7. QED
    BY <1>5, <1>6 DEF t

\* The phone reads one piece: the file grows by it, or is complete with it.
LEMMA ReadCarries ==
    ASSUME NEW r, NEW s, Carries(r, s), Len(s) > 0
    PROVE  LET content == Append(r, Head(s)) IN
           /\ Tail(s) \in Seq(FramePiece) /\ content \in Seq(FramePiece)
           /\ Len(content) < FramePieces =>
                 Carries(content, Tail(s)) /\ \A x : EndsWith(content, Tail(s), x) <=> EndsWith(r, s, x)
           /\ Len(content) = FramePieces =>
                 /\ Carries(<<>>, Tail(s))
                 /\ content = [i \in 1..FramePieces |-> <<s[1][1], i>>]
                 /\ \A x : EndsWith(<<>>, Tail(s), x) => EndsWith(r, s, x)
                 /\ \A x : EndsWith(r, s, x) => EndsWith(<<>>, Tail(s), x) \/ x[2] = FramePieces
  <1>1. r \in Seq(FramePiece) /\ s \in Seq(FramePiece) /\ Len(s) \in Nat /\ Len(r) \in Nat /\ s # <<>>
    BY DEF Carries
  <1> DEFINE content == Append(r, Head(s))
             t == Tail(s)
  <1>2. /\ t \in Seq(FramePiece) /\ Len(t) = Len(s) - 1
        /\ \A i \in 1..Len(t) : t[i] = s[i + 1]
        /\ Head(s) = s[1] /\ s[1] \in FramePiece
    BY <1>1, HeadTailProperties
  <1>3. /\ content \in Seq(FramePiece) /\ Len(content) = Len(r) + 1
        /\ \A i \in 1..Len(r) : content[i] = r[i]
        /\ content[Len(r) + 1] = s[1]
    BY <1>1, <1>2, AppendProperties
  <1> HIDE DEF content, t
  <1>4. /\ s[1] = <<s[1][1], Len(r) + 1>>
        /\ Len(r) > 0 => s[1][1] = r[1][1]
    <2>1. CASE Len(r) = 0
      BY <1>1, <1>2, <2>1 DEF Carries, FramePiece
    <2>2. CASE Len(r) # 0
      BY <1>1, <2>2 DEF Carries
    <2>3. QED
      BY <1>1, <2>1, <2>2
  <1>5. \A i \in 1..Len(content) : content[i] = <<s[1][1], i>>
    BY <1>1, <1>3, <1>4 DEF Carries
  <1>6. ASSUME NEW i \in 1..Len(t) - 1 PROVE Follows(t[i], t[i + 1])
    <2>1. i + 1 \in 1..Len(s) - 1 /\ t[i] = s[i + 1] /\ t[i + 1] = s[(i + 1) + 1]
      BY <1>1, <1>2
    <2>2. QED
      BY <2>1 DEF Carries
  <1>7. Len(t) > 0 => Follows(s[1], t[1])
    BY <1>1, <1>2 DEF Carries
  <1>8. ASSUME Len(content) < FramePieces
        PROVE  Carries(content, t) /\ \A x : EndsWith(content, t, x) <=> EndsWith(r, s, x)
    <2>0. Len(r) + 1 \in Nat /\ FramePieces \in Nat
      BY <1>1, TunnelAssumption
    <2>1. Len(t) > 0 => t[1] = <<content[1][1], Len(content) + 1>>
      <3> SUFFICES ASSUME Len(t) > 0 PROVE t[1] = <<content[1][1], Len(content) + 1>>
        OBVIOUS
      <3>1. content[1] = <<s[1][1], 1>> /\ s[1][2] = Len(r) + 1
        BY <1>1, <1>3, <1>4, <1>5
      <3>2. QED
        BY <1>3, <1>7, <1>8, <3>1 DEF Follows
    <2>2. \A i \in 1..Len(content) : content[i] = <<content[1][1], i>>
      BY <1>1, <1>3, <1>5
    <2>3. Carries(content, t)
      BY <1>1, <1>2, <1>3, <1>6, <1>8, <2>1, <2>2 DEF Carries
    <2>4. \A x : EndsWith(content, t, x) <=> EndsWith(r, s, x)
      BY <1>1, <1>2, <1>3 DEF EndsWith
    <2>5. QED
      BY <2>3, <2>4
  <1>9. ASSUME Len(content) = FramePieces
        PROVE  /\ Carries(<<>>, t)
               /\ content = [i \in 1..FramePieces |-> <<s[1][1], i>>]
               /\ \A x : EndsWith(<<>>, t, x) => EndsWith(r, s, x)
               /\ \A x : EndsWith(r, s, x) => EndsWith(<<>>, t, x) \/ x[2] = FramePieces
    <2>1. s[1][2] = FramePieces /\ FramePieces \in Nat /\ 0 < FramePieces
      BY <1>3, <1>4, <1>9, TunnelAssumption
    <2>2. Len(t) > 0 => t[1][2] = 1
      BY <1>7, <2>1 DEF Follows
    <2>3. <<>> \in Seq(FramePiece) /\ Len(<<>>) = 0
      OBVIOUS
    <2>4. Carries(<<>>, t)
      BY <1>2, <1>6, <2>1, <2>2, <2>3 DEF Carries
    <2>5. content = [i \in 1..FramePieces |-> <<s[1][1], i>>]
      BY <1>3, <1>5, <1>9, LenProperties
    <2>6. /\ \A x : EndsWith(<<>>, t, x) => EndsWith(r, s, x)
          /\ \A x : EndsWith(r, s, x) => EndsWith(<<>>, t, x) \/ x[2] = FramePieces
      BY <1>1, <1>2, <2>1, <2>3 DEF EndsWith
    <2>7. QED
      BY <2>4, <2>5, <2>6
  <1>10. QED
    BY <1>2, <1>3, <1>8, <1>9 DEF content, t
\* Nothing is carried by a connection that was just made.
LEMMA EmptyCarries == Carries(<<>>, <<>>) /\ \A x : ~EndsWith(<<>>, <<>>, x)
  <1>1. <<>> \in Seq(FramePiece) /\ Len(<<>>) = 0 /\ 0 < FramePieces
    BY TunnelAssumption
  <1>2. QED
    BY <1>1 DEF Carries, EndsWith

LEMMA TunnelInit_Inv == TunnelInit => TunnelInv
  <1> SUFFICES ASSUME TunnelInit PROVE TunnelInv
    OBVIOUS
  <1>1. phoneOf \in [1..links -> Phones]
    BY DEF TunnelInit
  <1>2. TunnelTypeOK
    BY <1>1, TunnelAssumption DEF TunnelInit, TunnelTypeOK, Links
  <1>3. LocksInv
    BY TunnelAssumption DEF TunnelInit, LocksInv, Links
  <1>4. QED
    BY <1>2, <1>3 DEF TunnelInit, TunnelInv, StoredInv

LEMMA OpenTunnel_Inv ==
    ASSUME TunnelInv, NEW p \in Phones, OpenTunnel(p) PROVE TunnelInv'
  <1> DEFINE d == links + 1
  <1>1. /\ links \in Nat /\ links' = d /\ d \in Links /\ 1..links \subseteq 1..d
    BY TunnelAssumption DEF OpenTunnel, TunnelInv, TunnelTypeOK, Links
  <1>2. phoneOf' \in [1..d -> Phones] /\ \A c \in 1..links : phoneOf'[c] = phoneOf[c]
    <2>1. phoneOf \in Seq(Phones) /\ Len(phoneOf) = links
      BY <1>1, SeqDef DEF TunnelInv, TunnelTypeOK
    <2>2. phoneOf' = Append(phoneOf, p)
      BY DEF OpenTunnel
    <2>3. phoneOf' \in Seq(Phones) /\ Len(phoneOf') = d /\ \A c \in 1..links : phoneOf'[c] = phoneOf[c]
      BY <2>1, <2>2, AppendProperties
    <2>4. phoneOf' \in [1..d -> Phones]
      BY <2>3, LenProperties
    <2>5. QED
      BY <2>3, <2>4
  <1>3. TunnelTypeOK'
    <2>1. /\ links' \in 0..MaxTunnels /\ phoneOf' \in [1..links' -> Phones]
          /\ lockedBy' \in [Links -> Calls \cup {NoCall}]
          /\ call' \in [Calls -> {"idle", "waiting", "writing", "ok", "no_tunnel", "io_error",
                                 "write_error"}]
          /\ piece' \in [Calls -> 0..FramePieces]
      BY <1>1, <1>2 DEF OpenTunnel, TunnelInv, TunnelTypeOK, Links
    <2>2. /\ tunnels' \in [Phones -> 1..links' \cup {NoTunnel}]
          /\ via' \in [Calls -> 1..links' \cup {NoTunnel}]
      BY <1>1 DEF OpenTunnel, TunnelInv, TunnelTypeOK
    <2>3. up' \subseteq 1..links' /\ unaccepted' \subseteq 1..links' /\ monitored' \subseteq 1..links'
      BY <1>1 DEF OpenTunnel, TunnelInv, TunnelTypeOK
    <2>4. QED
      BY <2>1, <2>2, <2>3 DEF TunnelTypeOK
  <1>4. LocksInv'
    <2>1. \A c \in Links : c <= links => c <= links'
      BY <1>1 DEF Links
    <2>2. QED
      BY <1>1, <2>1 DEF OpenTunnel, TunnelInv, LocksInv
  <1>5. StoredInv'
    <2> SUFFICES ASSUME NEW f \in stored
                 PROVE  \E k \in Calls : /\ call[k] # "idle" /\ via[k] \in 1..d
                                         /\ f = [phone |-> phoneOf'[via[k]],
                                                 content |-> [i \in 1..FramePieces |-> <<k, i>>]]
      BY <1>1 DEF OpenTunnel, StoredInv
    <2>1. PICK k \in Calls : /\ call[k] # "idle" /\ via[k] \in 1..links
                             /\ f = [phone |-> phoneOf[via[k]],
                                     content |-> [i \in 1..FramePieces |-> <<k, i>>]]
      BY DEF TunnelInv, StoredInv
    <2>2. QED
      BY <1>1, <1>2, <2>1
  <1>6. ASSUME NEW c \in up' PROVE LinkInv(c)'
    <2>1. CASE c \in up
      BY <2>1 DEF OpenTunnel, TunnelInv, LinkInv, Begun, Sent
    <2>2. CASE c = d
      <3>1. reading[d] = <<>> /\ stream[d] = <<>> /\ lockedBy[d] = NoCall
        BY <1>1 DEF TunnelInv, LocksInv
      <3>2. QED
        BY <2>2, <3>1, EmptyCarries DEF OpenTunnel, LinkInv, Begun
    <2>3. QED
      BY <2>1, <2>2 DEF OpenTunnel
  <1>7. \A c \in Links : c > links' => c > links
    BY <1>1 DEF Links
  <1>8. QED
    BY <1>1, <1>3, <1>4, <1>5, <1>6, <1>7 DEF OpenTunnel, TunnelInv

LEMMA Disconnect_Inv ==
    ASSUME TunnelInv, NEW c \in 1..links, Disconnect(c) PROVE TunnelInv'
  <1>1. TunnelTypeOK' /\ LocksInv' /\ StoredInv'
    <2>1. up' \subseteq 1..links
      BY DEF Disconnect, TunnelInv, TunnelTypeOK
    <2>2. TunnelTypeOK'
      BY <2>1 DEF Disconnect, TunnelInv, TunnelTypeOK
    <2>3. LocksInv'
      BY DEF Disconnect, TunnelInv, LocksInv
    <2>4. StoredInv'
      BY DEF Disconnect, TunnelInv, StoredInv
    <2>5. QED
      BY <2>2, <2>3, <2>4
  <1>2. stream' \in [Links -> Seq(FramePiece)] /\ \A d \in Links : d # c => stream'[d] = stream[d]
    <2>1. <<>> \in Seq(FramePiece) /\ stream \in [Links -> Seq(FramePiece)]
      BY DEF TunnelInv
    <2>2. QED
      BY <2>1 DEF Disconnect
  <1>3. c \in Links /\ up' \subseteq Links /\ links \in Nat
    <2>1. 1..links \subseteq Links /\ links \in Nat
      BY TunnelAssumption DEF TunnelInv, TunnelTypeOK, Links
    <2>2. QED
      BY <2>1 DEF Disconnect, TunnelInv, TunnelTypeOK
  <1>4. ASSUME NEW d \in up' PROVE LinkInv(d)'
    <2>1. LinkInv(d) /\ stream'[d] = stream[d] /\ reading'[d] = reading[d]
      BY <1>2, <1>3 DEF Disconnect, TunnelInv
    <2>2. /\ \A k, e : Sent(k, e)' <=> Sent(k, e)
          /\ Begun(d)' <=> Begun(d)
          /\ UNCHANGED <<lockedBy, piece>>
      BY DEF Disconnect, Sent, Begun
    <2>3. QED
      BY <2>1, <2>2 DEF LinkInv
  <1>5. QED
    BY <1>1, <1>2, <1>3, <1>4 DEF Disconnect, TunnelInv

LEMMA ReadPiece_Inv ==
    ASSUME TunnelInv, NEW c \in 1..links, ReadPiece(c) PROVE TunnelInv'
  <1> DEFINE r == reading[c]
             s == stream[c]
             content == Append(r, Head(s))
  <1>1. /\ c \in Links /\ c \in up /\ up \subseteq Links /\ links \in Nat
        /\ s \in Seq(FramePiece) /\ r \in Seq(FramePiece) /\ Len(s) > 0 /\ LinkInv(c)
    BY TunnelAssumption DEF ReadPiece, TunnelInv, TunnelTypeOK, Links
  <1>2. Carries(r, s)
    BY <1>1 DEF LinkInv
  <1>3. /\ Tail(s) \in Seq(FramePiece) /\ content \in Seq(FramePiece)
        /\ Len(content) < FramePieces =>
              Carries(content, Tail(s)) /\ \A x : EndsWith(content, Tail(s), x) <=> EndsWith(r, s, x)
        /\ Len(content) = FramePieces =>
              /\ Carries(<<>>, Tail(s))
              /\ content = [i \in 1..FramePieces |-> <<s[1][1], i>>]
              /\ \A x : EndsWith(<<>>, Tail(s), x) => EndsWith(r, s, x)
              /\ \A x : EndsWith(r, s, x) => EndsWith(<<>>, Tail(s), x) \/ x[2] = FramePieces
    BY <1>1, <1>2, ReadCarries
  <1>4. /\ stream' = [stream EXCEPT ![c] = Tail(s)]
        /\ \/ /\ Len(content) = FramePieces
              /\ stored' = stored \cup {[phone |-> phoneOf[c], content |-> content]}
              /\ reading' = [reading EXCEPT ![c] = <<>>]
           \/ /\ Len(content) < FramePieces
              /\ reading' = [reading EXCEPT ![c] = content]
              /\ UNCHANGED stored
        /\ UNCHANGED <<links, phoneOf, up, unaccepted, tunnels, lockedBy, monitored, call, via, piece>>
    BY DEF ReadPiece, TunnelInv
  <1>5. /\ \A i \in 1..Len(s) : Sent(s[i][1], c)
        /\ \A i \in 1..Len(r) : Sent(r[i][1], c)
        /\ \A k, d : Sent(k, d)' <=> Sent(k, d)
        /\ \A d : Begun(d)' <=> Begun(d)
    BY <1>1, <1>4 DEF LinkInv, Sent, Begun
  <1>6. /\ \A i \in 1..Len(Tail(s)) : Sent(Tail(s)[i][1], c)
        /\ \A i \in 1..Len(content) : Sent(content[i][1], c)
    <2>1. s # <<>> /\ Len(s) \in Nat /\ Len(r) \in Nat
      BY <1>1
    <2>2. /\ Len(Tail(s)) = Len(s) - 1 /\ \A i \in 1..Len(Tail(s)) : Tail(s)[i] = s[i + 1]
          /\ Head(s) = s[1] /\ s[1] \in FramePiece
      BY <1>1, <2>1, HeadTailProperties
    <2>3. /\ Len(content) = Len(r) + 1 /\ \A i \in 1..Len(r) : content[i] = r[i]
          /\ content[Len(r) + 1] = s[1]
      BY <1>1, <2>2, AppendProperties
    <2>4. \A i \in 1..Len(Tail(s)) : Sent(Tail(s)[i][1], c)
      BY <1>1, <1>5, <2>1, <2>2
    <2>5. Sent(s[1][1], c)
      BY <1>1, <1>5, <2>1
    <2> HIDE DEF content
    <2>6. \A i \in 1..Len(content) : Sent(content[i][1], c)
      <3>1. \A i \in 1..Len(content) : i \in 1..Len(r) \/ i = Len(r) + 1
        BY <2>1, <2>3
      <3>2. QED
        BY <1>5, <2>3, <2>5, <3>1
    <2>7. QED
      BY <2>4, <2>6
  <1> HIDE DEF content
  <1>7. TunnelTypeOK' /\ LocksInv'
    <2>1. TunnelTypeOK'
      BY <1>4 DEF TunnelInv, TunnelTypeOK
    <2>2. LocksInv'
      BY <1>4 DEF TunnelInv, LocksInv
    <2>3. QED
      BY <2>1, <2>2
  <1>8. /\ stream' \in [Links -> Seq(FramePiece)] /\ reading' \in [Links -> Seq(FramePiece)]
        /\ stream'[c] = Tail(s)
        /\ \A d \in Links : d # c => stream'[d] = stream[d] /\ reading'[d] = reading[d]
    <2>1. /\ stream \in [Links -> Seq(FramePiece)] /\ reading \in [Links -> Seq(FramePiece)]
          /\ <<>> \in Seq(FramePiece)
      BY DEF TunnelInv
    <2>2. stream' \in [Links -> Seq(FramePiece)] /\ stream'[c] = Tail(s)
          /\ \A d \in Links : d # c => stream'[d] = stream[d]
      BY <1>1, <1>3, <1>4, <2>1
    <2>3. PICK new \in Seq(FramePiece) : reading' = [reading EXCEPT ![c] = new]
      BY <1>3, <1>4, <2>1
    <2>4. reading' \in [Links -> Seq(FramePiece)] /\ \A d \in Links : d # c => reading'[d] = reading[d]
      BY <2>1, <2>3
    <2>5. QED
      BY <2>2, <2>4
  <1>9. StoredInv'
    <2>1. CASE UNCHANGED stored
      BY <1>4, <2>1 DEF TunnelInv, StoredInv
    <2>2. CASE /\ Len(content) = FramePieces
               /\ stored' = stored \cup {[phone |-> phoneOf[c], content |-> content]}
      <3>1. Sent(s[1][1], c) /\ content = [i \in 1..FramePieces |-> <<s[1][1], i>>]
        BY <1>1, <1>3, <1>5, <2>2
      <3>2. QED
        BY <1>4, <2>2, <3>1 DEF TunnelInv, StoredInv, Sent
    <2>3. QED
      BY <1>4, <2>1, <2>2
  <1>10. LinkInv(c)'
    <2>1. CASE Len(content) < FramePieces
      <3>1. reading'[c] = content
        BY <1>1, <1>4, <2>1, TunnelAssumption DEF TunnelInv
      <3>2. IF Begun(c) THEN EndsWith(content, Tail(s), <<lockedBy[c], piece[lockedBy[c]]>>)
            ELSE \A x \in FramePiece : EndsWith(content, Tail(s), x) => x[2] = FramePieces
        BY <1>1, <1>3, <2>1 DEF LinkInv
      <3>3. QED
        BY <1>3, <1>4, <1>5, <1>6, <1>8, <2>1, <3>1, <3>2 DEF LinkInv
    <2>2. CASE Len(content) = FramePieces
      <3>1. reading'[c] = <<>> /\ Len(<<>>) = 0
        BY <1>1, <1>4, <2>2, TunnelAssumption DEF TunnelInv
      <3>2. CASE Begun(c)
        <4>1. piece[lockedBy[c]] \in Nat /\ piece[lockedBy[c]] < FramePieces
          BY <1>1, <3>2, TunnelAssumption DEF Begun, TunnelInv, LocksInv, TunnelTypeOK
        <4>2. EndsWith(r, s, <<lockedBy[c], piece[lockedBy[c]]>>)
          BY <1>1, <3>2 DEF LinkInv
        <4>3. EndsWith(<<>>, Tail(s), <<lockedBy[c], piece[lockedBy[c]]>>)
          BY <1>3, <2>2, <4>1, <4>2
        <4>4. QED
          BY <1>3, <1>4, <1>5, <1>6, <1>8, <2>2, <3>1, <3>2, <4>3 DEF LinkInv
      <3>3. CASE ~Begun(c)
        <4>1. \A x \in FramePiece : EndsWith(<<>>, Tail(s), x) => x[2] = FramePieces
          BY <1>1, <1>3, <2>2, <3>3 DEF LinkInv
        <4>2. QED
          BY <1>3, <1>4, <1>5, <1>6, <1>8, <2>2, <3>1, <3>3, <4>1 DEF LinkInv
      <3>4. QED
        BY <3>2, <3>3
    <2>3. QED
      BY <1>4, <2>1, <2>2
  <1>11. ASSUME NEW d \in up', d # c PROVE LinkInv(d)'
    <2>1. d \in Links /\ LinkInv(d) /\ stream'[d] = stream[d] /\ reading'[d] = reading[d]
      BY <1>1, <1>4, <1>8, <1>11 DEF TunnelInv
    <2>2. QED
      BY <1>4, <1>5, <2>1 DEF LinkInv
  <1>12. \A d \in Links : d > links => reading'[d] = <<>> /\ stream'[d] = <<>>
    BY <1>1, <1>8 DEF TunnelInv
  <1>13. QED
    BY <1>4, <1>7, <1>8, <1>9, <1>10, <1>11, <1>12 DEF TunnelInv
LEMMA LinksMade == TunnelTypeOK => 1..links \subseteq Links /\ links \in Nat
  BY TunnelAssumption DEF TunnelTypeOK, Links

\* The server and the monitor only move the entries of the table.
LEMMA Table_Inv ==
    ASSUME TunnelInv, NEW c \in 1..links, AcceptTunnel(c) \/ MonitorFails(c) PROVE TunnelInv'
  <1>1. TunnelTypeOK'
    <2>1. TunnelTypeOK
      BY DEF TunnelInv
    <2>2. CASE AcceptTunnel(c)
      <3>1. tunnels' \in [Phones -> 1..links \cup {NoTunnel}]
        BY <2>1, <2>2 DEF AcceptTunnel, TunnelTypeOK
      <3>2. unaccepted' \subseteq 1..links /\ monitored' \subseteq 1..links
        BY <2>1, <2>2 DEF AcceptTunnel, TunnelTypeOK
      <3>3. QED
        BY <2>1, <2>2, <3>1, <3>2 DEF AcceptTunnel, TunnelTypeOK
    <2>3. CASE MonitorFails(c)
      <3>1. tunnels' \in [Phones -> 1..links \cup {NoTunnel}]
        BY <2>1, <2>3 DEF MonitorFails, TunnelTypeOK
      <3>2. monitored' \subseteq 1..links
        BY <2>1, <2>3 DEF MonitorFails, TunnelTypeOK
      <3>3. QED
        BY <2>1, <2>3, <3>1, <3>2 DEF MonitorFails, TunnelTypeOK
    <2>4. QED
      BY <2>2, <2>3
  <1>2. UNCHANGED <<links, phoneOf, up, lockedBy, stream, reading, stored, call, via, piece>>
    BY DEF AcceptTunnel, MonitorFails
  <1>3. LocksInv' /\ StoredInv' /\ \A d \in up' : LinkInv(d)'
    BY <1>2 DEF TunnelInv, LocksInv, StoredInv, LinkInv, Begun, Sent
  <1>4. QED
    BY <1>1, <1>2, <1>3 DEF TunnelInv

LEMMA Look_Inv ==
    ASSUME TunnelInv, NEW k \in Calls, Look(k) PROVE TunnelInv'
  <1>1. /\ call[k] = "idle" /\ call'[k] \in {"waiting", "no_tunnel"}
        /\ call'[k] = "waiting" => via'[k] \in 1..links
        /\ \A j \in Calls : j # k => call'[j] = call[j] /\ via'[j] = via[j]
        /\ UNCHANGED <<links, phoneOf, up, unaccepted, tunnels, lockedBy, monitored, stream, reading,
                       stored, piece>>
    BY TunnelAssumption DEF Look, Candidates, TunnelInv, TunnelTypeOK
  <1>2. TunnelTypeOK'
    <2>1. call' \in [Calls -> {"idle", "waiting", "writing", "ok", "no_tunnel", "io_error", "write_error"}]
      BY DEF Look, TunnelInv, TunnelTypeOK
    <2>2. via' \in [Calls -> 1..links \cup {NoTunnel}]
      <3>1. Candidates(CallTo[k]) \subseteq 1..links
        BY TunnelAssumption DEF Candidates, TunnelInv, TunnelTypeOK
      <3>2. via \in [Calls -> 1..links \cup {NoTunnel}]
        BY DEF TunnelInv, TunnelTypeOK
      <3>3. QED
        BY <3>1, <3>2 DEF Look
    <2>3. QED
      BY <1>1, <2>1, <2>2 DEF TunnelInv, TunnelTypeOK
  <1>3. LocksInv'
    <2>1. \A c \in Links : lockedBy[c] # k
      BY <1>1, TunnelAssumption DEF TunnelInv, LocksInv
    <2>2. \A c \in Links : lockedBy'[c] # NoCall =>
             /\ lockedBy'[c] \in Calls /\ c <= links
             /\ call'[lockedBy'[c]] = "writing" /\ via'[lockedBy'[c]] = c
      BY <1>1, <2>1 DEF TunnelInv, LocksInv
    <2>3. ASSUME NEW j \in Calls
          PROVE  /\ call'[j] # "idle" /\ call'[j] # "no_tunnel" => via'[j] \in 1..links
                 /\ call'[j] = "writing" => lockedBy[via'[j]] = j /\ piece[j] < FramePieces
                 /\ call'[j] \in {"idle", "waiting"} => piece[j] = 0
      BY <1>1 DEF TunnelInv, LocksInv
    <2>4. QED
      BY <1>1, <2>2, <2>3 DEF LocksInv
  <1>4. StoredInv'
    <2> SUFFICES ASSUME NEW f \in stored
                 PROVE  \E j \in Calls :
                           /\ call'[j] # "idle" /\ via'[j] \in 1..links
                           /\ f = [phone |-> phoneOf[via'[j]],
                                   content |-> [i \in 1..FramePieces |-> <<j, i>>]]
      BY <1>1 DEF StoredInv
    <2>1. PICK j \in Calls :
             /\ call[j] # "idle" /\ via[j] \in 1..links
             /\ f = [phone |-> phoneOf[via[j]], content |-> [i \in 1..FramePieces |-> <<j, i>>]]
      BY DEF TunnelInv, StoredInv
    <2>2. call'[j] = call[j] /\ via'[j] = via[j]
      BY <1>1, <2>1
    <2>3. QED
      BY <2>1, <2>2
  <1>5. ASSUME NEW c \in up' PROVE LinkInv(c)'
    <2>1. \A j : Sent(j, c) => Sent(j, c)'
      BY <1>1 DEF Sent
    <2>2. LinkInv(c) /\ (Begun(c)' <=> Begun(c))
      BY <1>1, <1>5 DEF TunnelInv, Begun
    <2>3. QED
      BY <1>1, <2>1, <2>2 DEF LinkInv
  <1>6. QED
    BY <1>1, <1>2, <1>3, <1>4, <1>5 DEF TunnelInv

\* The mutex is taken, or given up before anything was written.
LEMMA Lock_Inv ==
    ASSUME TunnelInv, NEW k \in Calls, Lock(k) \/ FileReadFails(k) PROVE TunnelInv'
  <1>1. /\ call[k] \in {"waiting", "writing"} /\ piece[k] = 0 /\ via[k] \in 1..links /\ via[k] \in Links
        /\ lockedBy[via[k]] \in {NoCall, k}
    <2>1. /\ call[k] \in {"waiting", "writing"} /\ piece[k] = 0
          /\ call[k] = "waiting" => lockedBy[via[k]] = NoCall
      BY DEF Lock, FileReadFails, TunnelInv, LocksInv
    <2>2. via[k] \in 1..links /\ (call[k] = "writing" => lockedBy[via[k]] = k)
      BY <2>1 DEF TunnelInv, LocksInv
    <2>3. QED
      BY <2>1, <2>2, LinksMade DEF TunnelInv
  <1>2. /\ \/ call'[k] = "writing" /\ lockedBy' = [lockedBy EXCEPT ![via[k]] = k]
           \/ call'[k] = "io_error" /\ lockedBy' = [lockedBy EXCEPT ![via[k]] = NoCall]
        /\ \A j \in Calls : j # k => call'[j] = call[j]
        /\ UNCHANGED <<links, phoneOf, up, unaccepted, tunnels, monitored, stream, reading, stored, via,
                       piece>>
    BY DEF Lock, FileReadFails, TunnelInv, TunnelTypeOK
  <1>3. TunnelTypeOK'
    <2>1. call' \in [Calls -> {"idle", "waiting", "writing", "ok", "no_tunnel", "io_error", "write_error"}]
      BY DEF Lock, FileReadFails, TunnelInv, TunnelTypeOK
    <2>2. lockedBy' \in [Links -> Calls \cup {NoCall}]
      BY DEF Lock, FileReadFails, TunnelInv, TunnelTypeOK
    <2>3. QED
      BY <1>2, <2>1, <2>2 DEF TunnelInv, TunnelTypeOK
  <1>4. /\ lockedBy'[via[k]] = IF call'[k] = "writing" THEN k ELSE NoCall
        /\ \A c \in Links : c # via[k] => lockedBy'[c] = lockedBy[c]
    BY <1>1, <1>2 DEF TunnelInv, TunnelTypeOK
  <1>5. LocksInv'
    <2>1. ASSUME NEW c \in Links, lockedBy'[c] # NoCall
          PROVE  /\ lockedBy'[c] \in Calls /\ c <= links
                 /\ call'[lockedBy'[c]] = "writing" /\ via[lockedBy'[c]] = c
      <3>1. CASE c = via[k]
        BY <1>1, <1>4, <2>1, <3>1 DEF TunnelInv, LocksInv
      <3>2. CASE c # via[k]
        <4>1. lockedBy'[c] = lockedBy[c]
          BY <1>4, <3>2
        <4>2. /\ lockedBy[c] \in Calls /\ c <= links
              /\ call[lockedBy[c]] = "writing" /\ via[lockedBy[c]] = c
          BY <2>1, <4>1 DEF TunnelInv, LocksInv
        <4>3. lockedBy[c] # k
          BY <3>2, <4>2
        <4>4. QED
          BY <1>2, <4>1, <4>2, <4>3
      <3>3. QED
        BY <3>1, <3>2
    <2>2. ASSUME NEW j \in Calls
          PROVE  /\ call'[j] # "idle" /\ call'[j] # "no_tunnel" => via[j] \in 1..links
                 /\ call'[j] = "writing" => lockedBy'[via[j]] = j /\ piece[j] < FramePieces
                 /\ call'[j] \in {"idle", "waiting"} => piece[j] = 0
      <3>1. CASE j = k
        BY <1>1, <1>2, <1>4, <3>1, TunnelAssumption
      <3>2. CASE j # k
        <4>1. call'[j] = call[j] /\ (call[j] = "writing" => via[j] \in Links /\ via[j] # via[k])
          <5>1. call'[j] = call[j] /\ j # NoCall
            BY <1>2, <3>2, TunnelAssumption
          <5>2. call[j] = "writing" => via[j] \in 1..links /\ lockedBy[via[j]] = j
            BY DEF TunnelInv, LocksInv
          <5>3. QED
            BY <1>1, <3>2, <5>1, <5>2, LinksMade DEF TunnelInv
        <4>2. QED
          BY <1>4, <4>1 DEF TunnelInv, LocksInv
      <3>3. QED
        BY <3>1, <3>2
    <2>3. QED
      BY <1>2, <2>1, <2>2 DEF LocksInv
  <1>6. StoredInv'
    <2>1. \A j \in Calls : call[j] # "idle" => call'[j] # "idle"
      BY <1>2
    <2>2. QED
      BY <1>2, <2>1 DEF TunnelInv, StoredInv
  <1>7. ASSUME NEW c \in up' PROVE LinkInv(c)'
    <2>1. \A j : Sent(j, c) => Sent(j, c)'
      BY <1>2 DEF Sent
    <2>2. LinkInv(c) /\ c \in Links
      BY <1>2, <1>7, TunnelAssumption DEF TunnelInv, TunnelTypeOK, Links
    <2>3. CASE c = via[k]
      <3>1. ~Begun(c) /\ ~Begun(c)'
        BY <1>1, <1>2, <1>4, <2>3 DEF Begun
      <3>2. QED
        BY <1>2, <2>1, <2>2, <3>1 DEF LinkInv
    <2>4. CASE c # via[k]
      <3>1. lockedBy'[c] = lockedBy[c] /\ (Begun(c)' <=> Begun(c))
        BY <1>2, <1>4, <2>2, <2>4 DEF Begun
      <3>2. QED
        BY <1>2, <2>1, <2>2, <3>1 DEF LinkInv
    <2>5. QED
      BY <2>3, <2>4
  <1>8. QED
    BY <1>2, <1>3, <1>5, <1>6, <1>7 DEF TunnelInv
\* What a call writes continues what its connection carries.
LEMMA WriteLink ==
    ASSUME TunnelInv, NEW k \in Calls, call[k] = "writing", via[k] \in up
    PROVE  LET r == reading[via[k]]
               t == Append(stream[via[k]], <<k, piece[k] + 1>>)
           IN  /\ <<k, piece[k] + 1>> \in FramePiece
               /\ Carries(r, t) /\ EndsWith(r, t, <<k, piece[k] + 1>>)
               /\ \A y : EndsWith(r, t, y) => y = <<k, piece[k] + 1>>
  <1> DEFINE r == reading[via[k]]
             s == stream[via[k]]
             x == <<k, piece[k] + 1>>
  <1>1. /\ lockedBy[via[k]] = k /\ piece[k] < FramePieces /\ piece[k] \in Nat /\ FramePieces \in Nat
        /\ k # NoCall
    BY TunnelAssumption DEF TunnelInv, LocksInv, TunnelTypeOK
  <1>2. LinkInv(via[k]) /\ Carries(r, s) /\ r \in Seq(FramePiece) /\ s \in Seq(FramePiece)
    BY DEF TunnelInv, LinkInv, Carries
  <1>3. x \in FramePiece /\ x[1] = k /\ x[2] = piece[k] + 1
    BY <1>1 DEF FramePiece
  <1>4. CASE piece[k] > 0
    <2>1. EndsWith(r, s, <<k, piece[k]>>)
      BY <1>1, <1>2, <1>4 DEF LinkInv, Begun
    <2>2. <<k, piece[k]>> \in FramePiece /\ Follows(<<k, piece[k]>>, x)
      BY <1>1, <1>4 DEF FramePiece, Follows
    <2>3. QED
      BY <1>2, <1>3, <2>1, <2>2, WriteCarries
  <1>5. CASE piece[k] = 0
    <2>1. \A y \in FramePiece : EndsWith(r, s, y) => y[2] = FramePieces
      BY <1>1, <1>2, <1>5 DEF LinkInv, Begun
    <2>2. \/ Len(s) = 0 /\ Len(r) = 0
          \/ \E y \in FramePiece : EndsWith(r, s, y)
      <3>1. Len(s) \in Nat /\ Len(r) \in Nat
        BY <1>2
      <3>2. CASE Len(s) > 0
        BY <1>2, <3>1, <3>2 DEF EndsWith
      <3>3. CASE Len(s) = 0 /\ Len(r) > 0
        BY <1>2, <3>1, <3>3 DEF EndsWith
      <3>4. QED
        BY <3>1, <3>2, <3>3
    <2>3. x[2] = 1
      BY <1>3, <1>5
    <2>4. \/ Len(s) = 0 /\ Len(r) = 0 /\ x[2] = 1
          \/ \E y \in FramePiece : EndsWith(r, s, y) /\ Follows(y, x)
      BY <1>1, <2>1, <2>2, <2>3 DEF Follows
    <2> HIDE DEF r, s, x
    <2>5. /\ Carries(r, Append(s, x)) /\ EndsWith(r, Append(s, x), x)
          /\ \A y : EndsWith(r, Append(s, x), y) => y = x
      BY <1>2, <1>3, <2>4, WriteCarries
    <2>6. QED
      BY <1>3, <2>5 DEF r, s, x
  <1>6. QED
    BY <1>1, <1>4, <1>5

\* A call writes a piece of its frame, or finds the phone gone.
LEMMA Write_Inv ==
    ASSUME TunnelInv, NEW k \in Calls, WritePiece(k) \/ TunnelWriteFails(k) PROVE TunnelInv'
  <1> DEFINE c == via[k]
  <1>1. /\ call[k] = "writing" /\ c \in 1..links /\ c \in Links /\ lockedBy[c] = k /\ k # NoCall
        /\ piece[k] \in Nat /\ piece[k] < FramePieces /\ FramePieces \in Nat
        /\ 1..links \subseteq Links /\ links \in Nat /\ up \subseteq Links
    <2>1. call[k] = "writing"
      BY DEF WritePiece, TunnelWriteFails
    <2>2. 1..links \subseteq Links /\ links \in Nat /\ up \subseteq 1..links
      BY LinksMade DEF TunnelInv, TunnelTypeOK
    <2>3. c \in 1..links /\ lockedBy[c] = k /\ piece[k] < FramePieces
      BY <2>1 DEF TunnelInv, LocksInv
    <2>4. piece[k] \in Nat /\ FramePieces \in Nat /\ k # NoCall
      BY TunnelAssumption DEF TunnelInv, TunnelTypeOK
    <2>5. QED
      BY <2>1, <2>2, <2>3, <2>4
  <1>2. /\ \A j \in Calls : j # k => call'[j] = call[j] /\ piece'[j] = piece[j]
        /\ \A d \in Links : d # c => stream'[d] = stream[d] /\ lockedBy'[d] = lockedBy[d]
        /\ UNCHANGED <<links, phoneOf, up, unaccepted, monitored, reading, stored, via>>
    <2>1. CASE WritePiece(k)
      BY <1>1, <2>1 DEF WritePiece, TunnelInv, TunnelTypeOK
    <2>2. CASE TunnelWriteFails(k)
      BY <1>1, <2>2 DEF TunnelWriteFails, TunnelInv, TunnelTypeOK
    <2>3. QED
      BY <2>1, <2>2
  <1>3. \/ call'[k] = "writing" /\ lockedBy'[c] = k /\ piece'[k] < FramePieces
        \/ call'[k] \in {"ok", "write_error"} /\ lockedBy'[c] = NoCall
    <2>1. CASE WritePiece(k)
      BY <1>1, <2>1 DEF WritePiece, TunnelInv, TunnelTypeOK
    <2>2. CASE TunnelWriteFails(k)
      BY <1>1, <2>2 DEF TunnelWriteFails, TunnelInv, TunnelTypeOK
    <2>3. QED
      BY <2>1, <2>2
  <1>4. TunnelTypeOK'
    <2>1. call' \in [Calls -> {"idle", "waiting", "writing", "ok", "no_tunnel", "io_error", "write_error"}]
      BY DEF WritePiece, TunnelWriteFails, TunnelInv, TunnelTypeOK
    <2>2. lockedBy' \in [Links -> Calls \cup {NoCall}]
      BY DEF WritePiece, TunnelWriteFails, TunnelInv, TunnelTypeOK
    <2>3. piece' \in [Calls -> 0..FramePieces]
      <3>1. piece \in [Calls -> 0..FramePieces] /\ piece[k] + 1 \in 0..FramePieces
        BY <1>1 DEF TunnelInv, TunnelTypeOK
      <3>2. QED
        BY <3>1 DEF WritePiece, TunnelWriteFails
    <2>4. tunnels' \in [Phones -> 1..links \cup {NoTunnel}]
      BY DEF WritePiece, TunnelWriteFails, TunnelInv, TunnelTypeOK
    <2>5. QED
      BY <1>2, <2>1, <2>2, <2>3, <2>4 DEF TunnelInv, TunnelTypeOK
  <1>5. LocksInv'
    <2>1. ASSUME NEW d \in Links, lockedBy'[d] # NoCall
          PROVE  /\ lockedBy'[d] \in Calls /\ d <= links
                 /\ call'[lockedBy'[d]] = "writing" /\ via[lockedBy'[d]] = d
      <3>1. CASE d = c
        BY <1>1, <1>3, <2>1, <3>1
      <3>2. CASE d # c
        <4>1. /\ lockedBy[d] \in Calls /\ d <= links
              /\ call[lockedBy[d]] = "writing" /\ via[lockedBy[d]] = d
          BY <1>2, <2>1, <3>2 DEF TunnelInv, LocksInv
        <4>2. QED
          BY <1>2, <3>2, <4>1
      <3>3. QED
        BY <3>1, <3>2
    <2>2. ASSUME NEW j \in Calls
          PROVE  /\ call'[j] # "idle" /\ call'[j] # "no_tunnel" => via[j] \in 1..links
                 /\ call'[j] = "writing" => lockedBy'[via[j]] = j /\ piece'[j] < FramePieces
                 /\ call'[j] \in {"idle", "waiting"} => piece'[j] = 0
      <3>1. CASE j = k
        BY <1>1, <1>3, <3>1
      <3>2. CASE j # k
        <4>1. call'[j] = call[j] /\ piece'[j] = piece[j]
          BY <1>2, <3>2
        <4>2. call[j] = "writing" => via[j] \in Links /\ lockedBy[via[j]] = j
          BY <1>1 DEF TunnelInv, LocksInv
        <4>3. call[j] = "writing" => lockedBy'[via[j]] = j
          BY <1>1, <1>2, <3>2, <4>2
        <4>4. QED
          BY <4>1, <4>3 DEF TunnelInv, LocksInv
      <3>3. QED
        BY <3>1, <3>2
    <2>3. QED
      BY <1>2, <2>1, <2>2 DEF LocksInv
  <1>6. StoredInv'
    <2>1. \A j \in Calls : call[j] # "idle" => call'[j] # "idle"
      BY <1>2, <1>3
    <2>2. QED
      BY <1>2, <2>1 DEF TunnelInv, StoredInv
  <1>7. /\ stream' \in [Links -> Seq(FramePiece)]
        /\ c \notin up => stream' = stream
        /\ c \in up => /\ stream'[c] = Append(stream[c], <<k, piece[k] + 1>>)
                       /\ piece'[k] = piece[k] + 1
                       /\ call'[k] # "writing" => piece[k] + 1 = FramePieces
    <2>1. stream \in [Links -> Seq(FramePiece)] /\ <<k, piece[k] + 1>> \in FramePiece
      <3>1. stream \in [Links -> Seq(FramePiece)]
        BY DEF TunnelInv
      <3>2. piece[k] + 1 \in 1..FramePieces
        BY <1>1
      <3>3. QED
        BY <3>1, <3>2 DEF FramePiece
    <2>2. Append(stream[c], <<k, piece[k] + 1>>) \in Seq(FramePiece)
      BY <1>1, <2>1, AppendProperties
    <2>3. CASE WritePiece(k)
      <3>1. stream' = IF c \in up THEN [stream EXCEPT ![c] = Append(stream[c], <<k, piece[k] + 1>>)]
                      ELSE stream
        BY <1>1, <2>1, <2>3 DEF WritePiece
      <3>2. piece'[k] = piece[k] + 1 /\ (call'[k] # "writing" => piece[k] + 1 = FramePieces)
        BY <1>1, <2>3 DEF WritePiece, TunnelInv, TunnelTypeOK
      <3>3. QED
        BY <1>1, <2>1, <2>2, <3>1, <3>2
    <2>4. CASE TunnelWriteFails(k)
      BY <2>1, <2>4 DEF TunnelWriteFails
    <2>5. QED
      BY <2>3, <2>4
  <1>8. ASSUME NEW d \in up' PROVE LinkInv(d)'
    <2>1. \A j, e : Sent(j, e) => Sent(j, e)'
      BY <1>2, <1>3 DEF Sent
    <2>2. LinkInv(d) /\ d \in Links /\ d \in up
      BY <1>1, <1>2, <1>8 DEF TunnelInv
    <2>3. CASE d # c
      <3>1. lockedBy[d] # NoCall => lockedBy[d] # k /\ lockedBy[d] \in Calls
        BY <2>2, <2>3 DEF TunnelInv, LocksInv
      <3>2. /\ lockedBy'[d] = lockedBy[d] /\ (Begun(d)' <=> Begun(d))
            /\ Begun(d) => piece'[lockedBy[d]] = piece[lockedBy[d]]
            /\ stream'[d] = stream[d] /\ reading'[d] = reading[d]
        BY <1>2, <2>2, <2>3, <3>1 DEF Begun
      <3>3. QED
        BY <2>1, <2>2, <3>2 DEF LinkInv
    <2>4. CASE d = c
      <3> DEFINE x == <<k, piece[k] + 1>>
                 t == Append(stream[c], x)
      <3>1. /\ x \in FramePiece /\ Carries(reading[c], t) /\ EndsWith(reading[c], t, x)
            /\ \A y : EndsWith(reading[c], t, y) => y = x
        BY <1>1, <2>2, <2>4, WriteLink
      <3>2. stream'[c] = t /\ reading'[c] = reading[c] /\ piece'[k] = piece[k] + 1
        BY <1>2, <1>7, <2>2, <2>4
      <3>3. \A i \in 1..Len(t) : Sent(t[i][1], c)
        <4>1. stream[c] \in Seq(FramePiece)
          BY <1>1 DEF TunnelInv
        <4>2. /\ Len(t) = Len(stream[c]) + 1 /\ t[Len(stream[c]) + 1] = x
              /\ \A i \in 1..Len(stream[c]) : t[i] = stream[c][i]
          BY <3>1, <4>1, AppendProperties
        <4>3. x[1] = k /\ Sent(k, c)
          BY <1>1 DEF Sent
        <4>4. \A i \in 1..Len(stream[c]) : Sent(stream[c][i][1], c)
          BY <2>2, <2>4 DEF LinkInv
        <4> HIDE DEF t, x
        <4>5. ASSUME NEW i \in 1..Len(t) PROVE i \in 1..Len(stream[c]) \/ i = Len(stream[c]) + 1
          BY <4>1, <4>2
        <4>6. QED
          BY <4>2, <4>3, <4>4, <4>5
      <3> HIDE DEF t, x
      <3>r. /\ Carries(reading[d], stream[d])' /\ EndsWith(reading'[d], stream'[d], x)
            /\ \A y : EndsWith(reading'[d], stream'[d], y) => y = x
        BY <2>4, <3>1, <3>2
      <3>s. /\ (\A i \in 1..Len(reading[d]) : Sent(reading[d][i][1], d))'
            /\ (\A i \in 1..Len(stream[d]) : Sent(stream[d][i][1], d))'
        <4>1. \A i \in 1..Len(reading[d]) : Sent(reading[d][i][1], d)
          BY <2>2 DEF LinkInv
        <4>2. reading'[d] = reading[d] /\ stream'[d] = t
          BY <2>4, <3>2
        <4>3. \A i \in 1..Len(t) : Sent(t[i][1], d)
          BY <2>4, <3>3
        <4>4. QED
          BY <1>2, <1>3, <4>1, <4>2, <4>3 DEF Sent
      <3>4. CASE call'[k] = "writing"
        <4>1. lockedBy'[d] = k /\ Begun(d)'
          BY <1>1, <1>3, <2>4, <3>2, <3>4 DEF Begun
        <4>2. x = <<lockedBy'[d], piece'[lockedBy'[d]]>>
          BY <3>2, <4>1 DEF x
        <4>3. QED
          BY <3>r, <3>s, <4>1, <4>2 DEF LinkInv
      <3>5. CASE call'[k] # "writing"
        <4>1. ~Begun(d)' /\ x[2] = FramePieces
          BY <1>3, <1>2, <1>7, <2>2, <2>4, <3>5 DEF Begun, x
        <4>2. QED
          BY <3>r, <3>s, <4>1 DEF LinkInv
      <3>6. QED
        BY <3>4, <3>5
    <2>5. QED
      BY <2>3, <2>4
  <1>9. \A d \in Links : d > links => reading'[d] = <<>> /\ stream'[d] = <<>>
    BY <1>1, <1>2 DEF TunnelInv
  <1>10. QED
    BY <1>2, <1>4, <1>5, <1>6, <1>7, <1>8, <1>9 DEF TunnelInv

LEMMA TunnelNext_Inv == TunnelInv /\ [TunnelNext]_tunnelVars => TunnelInv'
  <1> SUFFICES ASSUME TunnelInv, [TunnelNext]_tunnelVars PROVE TunnelInv'
    OBVIOUS
  <1>1. CASE TunnelNext
    BY <1>1, OpenTunnel_Inv, Disconnect_Inv, ReadPiece_Inv, Table_Inv, Look_Inv, Lock_Inv, Write_Inv
       DEF TunnelNext
  <1>2. CASE UNCHANGED tunnelVars
    BY <1>2 DEF tunnelVars, TunnelInv, TunnelTypeOK, LocksInv, StoredInv, LinkInv, Begun, Sent
  <1>3. QED
    BY <1>1, <1>2

\* Whatever phones reconnect and monitors drop, and however many calls share a tunnel,
\* what a phone saves is the whole frame of one call, and the frame of a call reaches
\* one phone only (send_through_tunnel, readLoop).
THEOREM TunnelFilesAreWholeHolds == TunnelSpec => []TunnelFilesAreWhole
  <1>1. TunnelInv => TunnelFilesAreWhole
    <2> SUFFICES ASSUME TunnelInv PROVE TunnelFilesAreWhole
      OBVIOUS
    <2>1. \A f \in stored : \E k \in Calls : f.content = [i \in 1..FramePieces |-> <<k, i>>]
      <3> TAKE f \in stored
      <3>1. PICK k \in Calls :
               f = [phone |-> phoneOf[via[k]], content |-> [i \in 1..FramePieces |-> <<k, i>>]]
        BY DEF TunnelInv, StoredInv
      <3>2. QED
        BY <3>1
    <2>2. ASSUME NEW f \in stored, NEW g \in stored, f.content = g.content PROVE f = g
      <3>1. PICK k \in Calls :
               f = [phone |-> phoneOf[via[k]], content |-> [i \in 1..FramePieces |-> <<k, i>>]]
        BY DEF TunnelInv, StoredInv
      <3>2. PICK j \in Calls :
               g = [phone |-> phoneOf[via[j]], content |-> [i \in 1..FramePieces |-> <<j, i>>]]
        BY DEF TunnelInv, StoredInv
      <3>3. <<k, 1>> = <<j, 1>>
        <4>1. 1 \in 1..FramePieces
          BY TunnelAssumption
        <4>2. f.content[1] = <<k, 1>> /\ g.content[1] = <<j, 1>>
          BY <3>1, <3>2, <4>1
        <4>3. QED
          BY <2>2, <4>2
      <3>4. k = j
        BY <3>3
      <3>5. QED
        BY <3>1, <3>2, <3>4
    <2>3. QED
      BY <2>1, <2>2 DEF TunnelFilesAreWhole
  <1>2. QED
    BY <1>1, TunnelInit_Inv, TunnelNext_Inv, PTL DEF TunnelSpec
=============================================================================
