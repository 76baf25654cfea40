------------------------------- MODULE Tunnel -------------------------------
(* The reverse tunnel (cli/src/tunnel.rs and TunnelClient.kt): phones       *)
(* connect to the Mac, which keeps one connection per phone address and     *)
(* writes files into it for send_through_tunnel.  A monitor per connection  *)
(* looks at it every 15 s.  Both take the connection's mutex.               *)
EXTENDS Naturals, Sequences

CONSTANTS Phones,       \* a phone is known by its address
          Calls,        \* calls of send_through_tunnel
          CallTo,       \* the phone each is for
          FramePieces,       \* pieces in which write_all hands a frame to the socket
          MaxTunnels,   \* bound on connections made
          NoTunnel, NoCall

ASSUME TunnelAssumption ==
    /\ FramePieces \in Nat \ {0} /\ MaxTunnels \in Nat /\ NoCall \notin Calls
    /\ NoTunnel \notin 1..MaxTunnels /\ CallTo \in [Calls -> Phones]

Links == 1..MaxTunnels

VARIABLES links,        \* number of connections made
          phoneOf,      \* the phone of each
          up,           \* connections the phone has not closed
          unaccepted,   \* connections the Mac has not accepted
          tunnels,      \* TUNNELS
          lockedBy,       \* the call that holds the mutex of a connection
          monitored,    \* connections whose monitor runs
          stream,       \* pieces written and not read, <<call, piece>>
          reading,      \* pieces of the file readLoop is at
          stored,       \* files a phone has saved
          call,         \* state of each call
          via,          \* the connection it uses
          piece         \* pieces it has written

tunnelVars == <<links, phoneOf, up, unaccepted, tunnels, lockedBy, monitored, stream, reading, stored,
                call, via, piece>>

TunnelTypeOK ==
    /\ links \in 0..MaxTunnels /\ phoneOf \in [1..links -> Phones]
    /\ up \subseteq 1..links /\ unaccepted \subseteq 1..links /\ monitored \subseteq 1..links
    /\ tunnels \in [Phones -> 1..links \cup {NoTunnel}]
    /\ lockedBy \in [Links -> Calls \cup {NoCall}]
    /\ call \in [Calls -> {"idle", "waiting", "writing", "ok", "no_tunnel", "io_error",
                           "write_error"}]
    /\ via \in [Calls -> 1..links \cup {NoTunnel}] /\ piece \in [Calls -> 0..FramePieces]

TunnelInit ==
    /\ links = 0 /\ phoneOf = <<>> /\ up = {} /\ unaccepted = {}
    /\ tunnels = [p \in Phones |-> NoTunnel]
    /\ lockedBy = [c \in Links |-> NoCall] /\ monitored = {}
    /\ stream = [c \in Links |-> <<>>] /\ reading = [c \in Links |-> <<>>]
    /\ stored = {}
    /\ call = [k \in Calls |-> "idle"] /\ via = [k \in Calls |-> NoTunnel]
    /\ piece = [k \in Calls |-> 0]

-----------------------------------------------------------------------------
(* TunnelClient                                                             *)

(* connect, or the probe of scanAndConnect that closes at once.             *)
OpenTunnel(p) ==
    /\ links < MaxTunnels /\ links' = links + 1
    /\ phoneOf' = Append(phoneOf, p)
    /\ up' = up \cup {links + 1} /\ unaccepted' = unaccepted \cup {links + 1}
    /\ UNCHANGED <<tunnels, lockedBy, monitored, stream, reading, stored, call, via, piece>>

(* stop, or a broken network: what was not read is lost.                    *)
Disconnect(c) ==
    /\ c \in up /\ up' = up \ {c}
    /\ stream' = [stream EXCEPT ![c] = <<>>]
    /\ UNCHANGED <<links, phoneOf, unaccepted, tunnels, lockedBy, monitored, reading, stored, call, via,
                   piece>>

(* readLoop takes what follows a header for the file's content, as many     *)
(* pieces as the header announced.                                          *)
ReadPiece(c) ==
    LET content == Append(reading[c], Head(stream[c])) IN
    /\ c \in up /\ stream[c] # <<>>
    /\ stream' = [stream EXCEPT ![c] = Tail(@)]
    /\ \/ /\ Len(content) = FramePieces
          /\ stored' = stored \cup {[phone |-> phoneOf[c], content |-> content]}
          /\ reading' = [reading EXCEPT ![c] = <<>>]
       \/ /\ Len(content) < FramePieces
          /\ reading' = [reading EXCEPT ![c] = content]
          /\ UNCHANGED stored
    /\ UNCHANGED <<links, phoneOf, up, unaccepted, tunnels, lockedBy, monitored, call, via, piece>>

-----------------------------------------------------------------------------
(* start_tunnel_server: the new connection replaces the phone's old one.    *)
AcceptTunnel(c) ==
    /\ c \in unaccepted /\ \A d \in unaccepted : c <= d
    /\ unaccepted' = unaccepted \ {c}
    /\ tunnels' = [tunnels EXCEPT ![phoneOf[c]] = c]
    /\ monitored' = monitored \cup {c}
    /\ UNCHANGED <<links, phoneOf, up, lockedBy, stream, reading, stored, call, via, piece>>

(* The monitor's try_write fails on a closed connection, and on one whose   *)
(* send buffer is full.  The entry of the address is removed, whichever     *)
(* connection it holds by now.                                              *)
MonitorFails(c) ==
    /\ c \in monitored /\ lockedBy[c] = NoCall
    /\ c \notin up \/ stream[c] # <<>>
    /\ monitored' = monitored \ {c}
    /\ tunnels' = [tunnels EXCEPT ![phoneOf[c]] = NoTunnel]
    /\ UNCHANGED <<links, phoneOf, up, unaccepted, lockedBy, stream, reading, stored, call, via, piece>>

-----------------------------------------------------------------------------
(* send_through_tunnel                                                      *)

(* The phone's tunnel or, if it has none, any other one.                    *)
Candidates(p) ==
    IF tunnels[p] # NoTunnel THEN {tunnels[p]} ELSE {tunnels[q] : q \in Phones} \ {NoTunnel}

Look(k) ==
    /\ call[k] = "idle"
    /\ \/ \E c \in Candidates(CallTo[k]) :
              via' = [via EXCEPT ![k] = c] /\ call' = [call EXCEPT ![k] = "waiting"]
       \/ /\ Candidates(CallTo[k]) = {}
          /\ call' = [call EXCEPT ![k] = "no_tunnel"] /\ UNCHANGED via
    /\ UNCHANGED <<links, phoneOf, up, unaccepted, tunnels, lockedBy, monitored, stream, reading, stored,
                   piece>>

(* The mutex is held from here until the frame is written.  (Not waiting    *)
(* for it is a mutation.)                                                   *)
LockAnyway(k) ==
    /\ call[k] = "waiting"
    /\ lockedBy' = [lockedBy EXCEPT ![via[k]] = k]
    /\ call' = [call EXCEPT ![k] = "writing"]
    /\ UNCHANGED <<links, phoneOf, up, unaccepted, tunnels, monitored, stream, reading, stored, via, piece>>

Lock(k) ==
    /\ call[k] = "waiting" /\ lockedBy[via[k]] = NoCall
    /\ lockedBy' = [lockedBy EXCEPT ![via[k]] = k]
    /\ call' = [call EXCEPT ![k] = "writing"]
    /\ UNCHANGED <<links, phoneOf, up, unaccepted, tunnels, monitored, stream, reading, stored, via, piece>>

(* The file, read under the lock, cannot be read.                           *)
FileReadFails(k) ==
    /\ call[k] = "writing" /\ piece[k] = 0
    /\ call' = [call EXCEPT ![k] = "io_error"]
    /\ lockedBy' = [lockedBy EXCEPT ![via[k]] = NoCall]
    /\ UNCHANGED <<links, phoneOf, up, unaccepted, tunnels, monitored, stream, reading, stored, via, piece>>

(* A piece goes into the socket's buffer; bytes for a phone that has gone   *)
(* may still be taken.  The last one releases the mutex.                    *)
WritePiece(k) ==
    /\ call[k] = "writing" /\ piece[k] < FramePieces
    /\ piece' = [piece EXCEPT ![k] = @ + 1]
    /\ stream' = IF via[k] \in up THEN [stream EXCEPT ![via[k]] = Append(@, <<k, piece[k] + 1>>)]
                 ELSE stream
    /\ \/ /\ piece[k] + 1 = FramePieces
          /\ call' = [call EXCEPT ![k] = "ok"] /\ lockedBy' = [lockedBy EXCEPT ![via[k]] = NoCall]
       \/ /\ piece[k] + 1 < FramePieces
          /\ UNCHANGED <<call, lockedBy>>
    /\ UNCHANGED <<links, phoneOf, up, unaccepted, tunnels, monitored, reading, stored, via>>

(* A write error removes the entry of the address asked for, which is not   *)
(* the one that was used when another phone's tunnel stood in for it.       *)
TunnelWriteFails(k) ==
    /\ call[k] = "writing" /\ via[k] \notin up
    /\ call' = [call EXCEPT ![k] = "write_error"]
    /\ lockedBy' = [lockedBy EXCEPT ![via[k]] = NoCall]
    /\ tunnels' = [tunnels EXCEPT ![CallTo[k]] = NoTunnel]
    /\ UNCHANGED <<links, phoneOf, up, unaccepted, monitored, stream, reading, stored, via, piece>>

TunnelNext ==
    \/ \E p \in Phones : OpenTunnel(p)
    \/ \E c \in 1..links : Disconnect(c) \/ ReadPiece(c) \/ AcceptTunnel(c) \/ MonitorFails(c)
    \/ \E k \in Calls : Look(k) \/ Lock(k) \/ FileReadFails(k) \/ WritePiece(k) \/ TunnelWriteFails(k)

TunnelSpec == TunnelInit /\ [][TunnelNext]_tunnelVars

-----------------------------------------------------------------------------
(* A file a phone saves from its tunnel is one call's file, whole and in    *)
(* order, and one call's file is saved at most once: several calls share    *)
(* the connection, phones reconnect and monitors interfere, but no frame is *)
(* ever written into the middle of another (send_through_tunnel, readLoop). *)
TunnelFilesAreWhole ==
    /\ \A f \in stored : \E k \in Calls : f.content = [i \in 1..FramePieces |-> <<k, i>>]
    /\ \A f, g \in stored : f.content = g.content => f = g
=============================================================================
