----------------------------- MODULE Keepalive -----------------------------
(* The KeepaliveStream of the transfer engine (keepalive.rs), as tcp_upload *)
(* (transport/core.rs) and the TLS upload (transport/tls.rs) use it: a      *)
(* monitor task queues a PING every interval and watches for idleness, a    *)
(* reader task answers the peer's PINGs, and the writer puts queued frames  *)
(* on the connection ahead of the body.  A frame of four bytes may be       *)
(* written in two pieces; a piece is a record [frame, half] on the wire and *)
(* a block of the body is [frame |-> "DATA", half |-> 0].                   *)
EXTENDS Naturals, Sequences

CONSTANTS BodyBlocks,   \* blocks of the upload's body
          IdleTicks,    \* idle_timeout / ping_interval (30 s / 10 s)
          MaxTicks,     \* bound: ticks of the monitor
          MaxPeerFrames \* bound: frames the peer sends

ASSUME KeepaliveAssumption ==
    /\ BodyBlocks \in Nat /\ IdleTicks \in Nat \ {0}
    /\ MaxTicks \in Nat /\ MaxPeerFrames \in Nat

VARIABLES poll,     \* where the uploading task stands
          blocks,   \* blocks not yet written
          frames,   \* the channel of frames to write (ping_rx)
          partial,  \* pending_ping: the pieces of the frame being written
          wire,     \* what was written
          monitor,  \* the monitor task
          permit,   \* stop_notify holds a permit
          flagged,  \* the shared flag `stopped'
          idle,     \* ticks since last_activity
          ticks,
          peerFrames,
          listening \* the reader task runs

keepaliveVars == <<poll, blocks, frames, partial, wire, monitor, permit, flagged,
                   idle, ticks, peerFrames, listening>>

KaFrames == {"PING", "PONG"}
Piece == [frame : KaFrames, half : {1, 2}] \cup [frame : {"DATA"}, half : {0}]
Pieces(f) == <<[frame |-> f, half |-> 1], [frame |-> f, half |-> 2]>>

KeepaliveTypeOK ==
    /\ poll \in {"ready", "write", "flush", "parked", "stalled", "failed", "shut", "dropped"}
    /\ blocks \in 0..BodyBlocks
    /\ frames \in Seq(KaFrames)
    /\ partial \in Seq(Piece) /\ Len(partial) <= 2
    /\ wire \in Seq(Piece)
    /\ monitor \in {"spawned", "waiting", "ended"}
    /\ permit \in BOOLEAN /\ flagged \in BOOLEAN /\ listening \in BOOLEAN
    /\ idle \in 0..MaxTicks /\ ticks \in 0..MaxTicks
    /\ peerFrames \in 0..MaxPeerFrames

(* KeepaliveStream::new spawns both tasks.                                  *)
KeepaliveInit ==
    /\ poll = "ready" /\ blocks = BodyBlocks
    /\ frames = <<>> /\ partial = <<>> /\ wire = <<>>
    /\ monitor = "spawned" /\ permit = FALSE /\ flagged = FALSE
    /\ idle = 0 /\ ticks = 0 /\ peerFrames = 0 /\ listening = TRUE

(* The upload writes a block (poll_write); after the last one it flushes    *)
(* (poll_flush) and shuts the connection down, which drains nothing.        *)
WriteBlock ==
    /\ poll = "ready" /\ blocks > 0 /\ poll' = "write"
    /\ UNCHANGED <<blocks, frames, partial, wire, monitor, permit, flagged, idle, ticks, peerFrames, listening>>

FlushBody ==
    /\ poll = "ready" /\ blocks = 0 /\ poll' = "flush"
    /\ UNCHANGED <<blocks, frames, partial, wire, monitor, permit, flagged, idle, ticks, peerFrames, listening>>

Polling == poll \in {"write", "flush"}

(* Both polls first write the frame in hand, in one piece or as far as the  *)
(* connection takes it; only a frame written to its end is activity.        *)
WriteFrame ==
    /\ Polling /\ partial # <<>>
    /\ wire' = wire \o partial
    /\ partial' = <<>> /\ idle' = 0
    /\ UNCHANGED <<poll, blocks, frames, monitor, permit, flagged, ticks, peerFrames, listening>>

(* A partial write returns Pending although the connection registered no    *)
(* waker.  (Dropping the rest of the frame is a mutation.)                  *)
WriteFrameForgetsRest ==
    /\ Polling /\ Len(partial) = 2
    /\ wire' = Append(wire, Head(partial))
    /\ partial' = <<>>
    /\ poll' = "stalled"
    /\ UNCHANGED <<blocks, frames, monitor, permit, flagged, idle, ticks, peerFrames, listening>>

WriteFramePart ==
    /\ Polling /\ Len(partial) = 2
    /\ wire' = Append(wire, Head(partial))
    /\ partial' = Tail(partial)
    /\ poll' = "stalled"
    /\ UNCHANGED <<blocks, frames, monitor, permit, flagged, idle, ticks, peerFrames, listening>>

NextFrame ==
    /\ Polling /\ partial = <<>> /\ frames # <<>>
    /\ partial' = Pieces(Head(frames))
    /\ frames' = Tail(frames)
    /\ UNCHANGED <<poll, blocks, wire, monitor, permit, flagged, idle, ticks, peerFrames, listening>>

(* With no frame left the block, or the flush, goes through.                *)
WriteData ==
    /\ poll = "write" /\ partial = <<>> /\ frames = <<>>
    /\ wire' = Append(wire, [frame |-> "DATA", half |-> 0])
    /\ blocks' = blocks - 1 /\ idle' = 0 /\ poll' = "ready"
    /\ UNCHANGED <<frames, partial, monitor, permit, flagged, ticks, peerFrames, listening>>

FlushAndShutdown ==
    /\ poll = "flush" /\ partial = <<>> /\ frames = <<>>
    /\ poll' = "shut"
    /\ UNCHANGED <<blocks, frames, partial, wire, monitor, permit, flagged, idle, ticks, peerFrames, listening>>

Blocked ==
    /\ Polling /\ poll' = "parked"
    /\ UNCHANGED <<blocks, frames, partial, wire, monitor, permit, flagged, idle, ticks, peerFrames, listening>>

WriteFails ==
    /\ Polling /\ poll' = "failed"
    /\ UNCHANGED <<blocks, frames, partial, wire, monitor, permit, flagged, idle, ticks, peerFrames, listening>>

(* The task is polled again when the connection is writable; a stalled one  *)
(* only if another future of its select! wakes it.                          *)
Repoll ==
    /\ poll \in {"parked", "stalled"}
    /\ poll' = IF blocks > 0 THEN "write" ELSE "flush"
    /\ UNCHANGED <<blocks, frames, partial, wire, monitor, permit, flagged, idle, ticks, peerFrames, listening>>

(* The monitor: the first tick is skipped; then a tick queues a PING, or    *)
(* finds the stream idle and ends.                                          *)
MonitorStarts ==
    /\ monitor = "spawned" /\ monitor' = "waiting"
    /\ UNCHANGED <<poll, blocks, frames, partial, wire, permit, flagged, idle, ticks, peerFrames, listening>>

PingTick ==
    /\ monitor = "waiting" /\ ticks < MaxTicks /\ idle < IdleTicks
    /\ ticks' = ticks + 1 /\ idle' = idle + 1
    /\ frames' = IF poll = "dropped" THEN frames ELSE Append(frames, "PING")
    /\ UNCHANGED <<poll, blocks, partial, wire, monitor, permit, flagged, peerFrames, listening>>

IdleTimeout ==
    /\ monitor = "waiting" /\ ticks < MaxTicks /\ idle >= IdleTicks
    /\ ticks' = ticks + 1 /\ monitor' = "ended"
    /\ flagged' = TRUE /\ permit' = TRUE
    /\ UNCHANGED <<poll, blocks, frames, partial, wire, idle, peerFrames, listening>>

MonitorStops ==
    /\ monitor = "waiting" /\ permit
    /\ permit' = FALSE /\ monitor' = "ended"
    /\ UNCHANGED <<poll, blocks, frames, partial, wire, flagged, idle, ticks, peerFrames, listening>>

(* Frames from the peer: a PING is answered, everything is activity.        *)
PeerPing ==
    /\ listening /\ peerFrames < MaxPeerFrames
    /\ peerFrames' = peerFrames + 1 /\ idle' = 0
    /\ frames' = IF poll = "dropped" THEN frames ELSE Append(frames, "PONG")
    /\ UNCHANGED <<poll, blocks, partial, wire, monitor, permit, flagged, ticks, listening>>

PeerOther ==
    /\ listening /\ peerFrames < MaxPeerFrames
    /\ peerFrames' = peerFrames + 1 /\ idle' = 0
    /\ UNCHANGED <<poll, blocks, frames, partial, wire, monitor, permit, flagged, ticks, listening>>

PeerCloses ==
    /\ listening /\ listening' = FALSE
    /\ UNCHANGED <<poll, blocks, frames, partial, wire, monitor, permit, flagged, idle, ticks, peerFrames>>

(* The upload is over, returned or cancelled: the stream and both handles   *)
(* are dropped, and drop calls stop().  Notify::notify_one keeps a permit   *)
(* for a monitor that is not waiting yet.                                   *)
DropHandle ==
    /\ poll # "dropped" /\ poll' = "dropped"
    /\ flagged' = TRUE /\ permit' = TRUE
    /\ frames' = <<>> /\ partial' = <<>>
    /\ UNCHANGED <<blocks, wire, monitor, idle, ticks, peerFrames, listening>>

KeepaliveNext ==
    \/ WriteBlock \/ FlushBody \/ WriteFrame \/ WriteFramePart \/ NextFrame
    \/ WriteData \/ FlushAndShutdown \/ Blocked \/ WriteFails \/ Repoll
    \/ MonitorStarts \/ PingTick \/ IdleTimeout \/ MonitorStops
    \/ PeerPing \/ PeerOther \/ PeerCloses \/ DropHandle

KeepaliveSpec == KeepaliveInit /\ [][KeepaliveNext]_keepaliveVars

-----------------------------------------------------------------------------
(* The two pieces of a PING or PONG are adjacent on the connection: neither *)
(* a block of the body nor another frame is written between them, whatever  *)
(* the connection accepts at each poll (poll_write, poll_flush).            *)
FramesAreContiguous ==
    \A i \in 1..Len(wire) - 1 :
        wire[i].half = 1 => wire[i + 1] = [frame |-> wire[i].frame, half |-> 2]
=============================================================================
