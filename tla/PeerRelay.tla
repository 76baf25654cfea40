----------------------------- MODULE PeerRelay -----------------------------
(* The relay server of the transfer engine (relay.rs): connections that     *)
(* name the same session are paired and forwarded to each other.  The       *)
(* accept loop handles one connection at a time, and handle_peer sleeps     *)
(* PEER_TIMEOUT (30 s) for a first peer before it returns, while a client   *)
(* (connect_to_relay) waits 5 s for the pairing: when the server wakes the  *)
(* client of that first peer is gone, unless it was paired before.          *)
EXTENDS Naturals, Sequences

CONSTANTS Callers,    \* connections made by connect_to_relay
          SessionOf,  \* the session id each one sends
          NoCaller

ASSUME PeerRelayAssumption == NoCaller \notin Callers

RelayIds == {SessionOf[c] : c \in Callers}

VARIABLES caller,   \* what the client knows
          backlog,  \* connections not yet accepted
          serving,  \* the connection handle_peer runs for
          stage,    \* "accept", "read" or "sleep"
          slots,    \* sessions: the waiting first peer of each
          pipes     \* running forward tasks, <<from, to>>

peerRelayVars == <<caller, backlog, serving, stage, slots, pipes>>

PeerRelayTypeOK ==
    /\ caller \in [Callers -> {"idle", "waiting", "paired", "gone"}]
    /\ backlog \in Seq(Callers)
    /\ serving \in Callers \cup {NoCaller}
    /\ stage \in {"accept", "read", "sleep"}
    /\ slots \in [RelayIds -> Callers \cup {NoCaller}]
    /\ pipes \subseteq Callers \X Callers

PeerRelayInit ==
    /\ caller = [c \in Callers |-> "idle"]
    /\ backlog = <<>> /\ serving = NoCaller /\ stage = "accept"
    /\ slots = [s \in RelayIds |-> NoCaller]
    /\ pipes = {}

(* connect_to_relay: connect, send the session id, wait for the OK byte.    *)
Call(c) ==
    /\ caller[c] = "idle"
    /\ caller' = [caller EXCEPT ![c] = "waiting"]
    /\ backlog' = Append(backlog, c)
    /\ UNCHANGED <<serving, stage, slots, pipes>>

(* The 5 s are over, or the user of a paired stream closes it.              *)
HangUp(c) ==
    /\ caller[c] \in {"waiting", "paired"}
    /\ caller' = [caller EXCEPT ![c] = "gone"]
    /\ UNCHANGED <<backlog, serving, stage, slots, pipes>>

(* run: the next connection, which may be one its client has left.          *)
Accept ==
    /\ stage = "accept" /\ backlog # <<>>
    /\ serving' = Head(backlog) /\ backlog' = Tail(backlog)
    /\ stage' = "read"
    /\ UNCHANGED <<caller, slots, pipes>>

(* The id could not be read: the connection is dropped.                     *)
ReadIdFails ==
    /\ stage = "read" /\ caller[serving] = "gone"
    /\ serving' = NoCaller /\ stage' = "accept"
    /\ UNCHANGED <<caller, backlog, slots, pipes>>

(* The first peer of the session: it takes the slot and the loop sleeps.    *)
FirstPeer ==
    LET s == SessionOf[serving] IN
    /\ stage = "read" /\ slots[s] = NoCaller
    /\ slots' = [slots EXCEPT ![s] = serving]
    /\ stage' = "sleep"
    /\ UNCHANGED <<caller, backlog, serving, pipes>>

(* A client still waiting reads the OK byte; one that left does not.        *)
Told(first, second) ==
    [c \in Callers |-> IF c \in {first, second} /\ caller[c] = "waiting"
                       THEN "paired" ELSE caller[c]]

(* The second peer takes the first one out of the slot, whether or not it   *)
(* still lives, and two forward tasks start.  (Pairing without emptying the *)
(* slot is a mutation.)                                                     *)
SecondPeerLeavesSlot ==
    LET s == SessionOf[serving]
        first == slots[s]
    IN /\ stage = "read" /\ first # NoCaller
       /\ caller' = Told(first, serving)
       /\ pipes' = pipes \cup {<<first, serving>>, <<serving, first>>}
       /\ serving' = NoCaller /\ stage' = "accept"
       /\ UNCHANGED <<backlog, slots>>

SecondPeer ==
    LET s == SessionOf[serving]
        first == slots[s]
    IN /\ stage = "read" /\ first # NoCaller
       /\ slots' = [slots EXCEPT ![s] = NoCaller]
       /\ caller' = Told(first, serving)
       /\ pipes' = pipes \cup {<<first, serving>>, <<serving, first>>}
       /\ serving' = NoCaller /\ stage' = "accept"
       /\ UNCHANGED backlog

(* After PEER_TIMEOUT only a warning: the peer stays in its slot.           *)
PeerTimeout ==
    /\ stage = "sleep" /\ caller[serving] # "waiting"
    /\ serving' = NoCaller /\ stage' = "accept"
    /\ UNCHANGED <<caller, backlog, slots, pipes>>

(* forward ends at the end of its reader's stream or at a write error.      *)
ForwardEnds(p) ==
    /\ caller[p[1]] = "gone" \/ caller[p[2]] = "gone"
    /\ pipes' = pipes \ {p}
    /\ UNCHANGED <<caller, backlog, serving, stage, slots>>

PeerRelayNext ==
    \/ \E c \in Callers : Call(c) \/ HangUp(c)
    \/ Accept \/ ReadIdFails \/ FirstPeer \/ SecondPeer \/ PeerTimeout
    \/ \E p \in pipes : ForwardEnds(p)

PeerRelaySpec == PeerRelayInit /\ [][PeerRelayNext]_peerRelayVars

-----------------------------------------------------------------------------
(* Bytes only flow between two connections of one session, a connection has *)
(* at most one partner, and a connection waiting in a slot has none:        *)
(* whatever a third caller of the session does, it is never joined to a     *)
(* pair (RelayServer::handle_peer).                                         *)
PipesArePairs ==
    /\ \A p, q \in pipes : /\ SessionOf[p[1]] = SessionOf[p[2]]
                           /\ p[1] = q[1] => p[2] = q[2]
                           /\ p[1] = q[2] => p[2] = q[1]
    /\ \A p \in pipes : \A s \in RelayIds : slots[s] \notin {p[1], p[2]}
=============================================================================
