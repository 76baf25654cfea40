------------------------------ MODULE Discovery ------------------------------
(***************************************************************************)
(* LAN discovery as one device sees it (crates/transfer_engine/src/        *)
(* discovery.rs, peer.rs, and start_discovery / upsert_device /            *)
(* discover_peers of the coordinator): every device may advertise with UDP *)
(* datagrams that are lost, duplicated and reordered; `me' scans, keeps a  *)
(* registry of peers with expiry and a list of devices for the interface.  *)
(***************************************************************************)
EXTENDS Integers, FiniteSets

CONSTANTS
    Stations,        \* devices of the network
    me,              \* the one that scans
    NoUuid,          \* stations whose device id is not a UUID
    ZeroId,          \* the id that 16 zero bytes decode to
    LongNames,       \* stations whose announcement exceeds MAX_MSG_SIZE
    Expiry,          \* PeerManager.expiry in ticks
    MaxStarts        \* bound on advertising sockets

ASSUME DiscoveryAssumption ==
    me \in Stations /\ Expiry \in Nat \ {0} /\ MaxStarts \in Nat \ {0} /\ ZeroId \notin Stations

VARIABLES
    socket,          \* the advertising socket of every station, 0 = not advertising
    sockets,         \* number of sockets bound so far
    owner,           \* which station bound a socket
    net,             \* datagrams under way to the discovery port
    replies,         \* responses under way: unicast to the advertising socket, which nobody reads
    scanning,        \* the scan task of me
    peers,           \* PeerManager.peers: wire id -> [addr, age]
    upserts,         \* tasks spawned by the discovery callback and not run yet
    devices          \* TransferCoordinator.devices: wire id -> address

discoveryVars == <<socket, sockets, owner, net, replies, scanning, peers, upserts, devices>>

\* encode_announce writes zeros for an id that does not parse as a UUID.
WireId(s) == IF s \in NoUuid THEN ZeroId ELSE s
Ids == {WireId(s) : s \in Stations}

\* recv_from cuts a datagram at MAX_MSG_SIZE and decode_discovery then answers None.
Decodes(s) == s \notin LongNames

DiscoveryInit ==
    /\ socket = [s \in Stations |-> 0] /\ sockets = 0 /\ owner = <<>>
    /\ net = {} /\ replies = {}
    /\ scanning = FALSE
    /\ peers = <<>> /\ upserts = {} /\ devices = <<>>

-----------------------------------------------------------------------------
(* start_advertising                                                       *)

\* A socket is bound, then a query and an announcement go out.
start_advertising(s) ==
    /\ socket[s] = 0 /\ sockets < MaxStarts
    /\ sockets' = sockets + 1
    /\ socket' = [socket EXCEPT ![s] = sockets + 1]
    /\ owner' = [k \in 1..(sockets + 1) |-> IF k = sockets + 1 THEN s ELSE owner[k]]
    /\ net' = net \cup {[kind |-> k, station |-> s, addr |-> sockets + 1] : k \in {"query", "announce"}}
    /\ UNCHANGED <<replies, scanning, peers, upserts, devices>>

\* ADVERTISE_INTERVAL later.
announce(s) ==
    /\ socket[s] # 0
    /\ net' = net \cup {[kind |-> "announce", station |-> s, addr |-> socket[s]]}
    /\ UNCHANGED <<socket, sockets, owner, replies, scanning, peers, upserts, devices>>

\* The AdvertHandle is dropped.
stop_advertising(s) ==
    /\ socket[s] # 0
    /\ socket' = [socket EXCEPT ![s] = 0]
    /\ UNCHANGED <<sockets, owner, net, replies, scanning, peers, upserts, devices>>

-----------------------------------------------------------------------------
(* start_scanning                                                          *)

start_scanning ==
    /\ ~scanning /\ scanning' = TRUE
    /\ UNCHANGED <<socket, sockets, owner, net, replies, peers, upserts, devices>>

stop_scanning ==
    /\ scanning /\ scanning' = FALSE
    /\ UNCHANGED <<socket, sockets, owner, net, replies, peers, upserts, devices>>

\* A query from another id is answered to the socket it came from.
ReceiveQuery(m) ==
    /\ scanning /\ m.kind = "query"
    /\ replies' = IF WireId(m.station) # WireId(me) THEN replies \cup {m.addr} ELSE replies
    /\ UNCHANGED <<socket, sockets, owner, net, scanning, peers, upserts, devices>>

Known(id, addr) == id \in DOMAIN peers /\ peers[id].addr = addr

\* An announcement from the address on record is skipped, last_seen included; from any other one it
\* replaces the record, and the callback spawns a task that updates the list of devices.
ReceiveAnnounce(m) ==
    LET id == WireId(m.station)
    IN  /\ scanning /\ m.kind = "announce" /\ Decodes(m.station)
        /\ ~Known(id, m.addr)
        /\ peers' = [i \in DOMAIN peers \cup {id} |-> IF i = id THEN [addr |-> m.addr, age |-> 0] ELSE peers[i]]
        /\ upserts' = upserts \cup {[id |-> id, addr |-> m.addr]}
        /\ UNCHANGED <<socket, sockets, owner, net, replies, scanning, devices>>

\* Mutant: the task of the callback only updates devices that are listed.
upsert_device_known(u) ==
    /\ upserts' = upserts \ {u}
    /\ devices' = [i \in DOMAIN devices |-> IF i = u.id THEN u.addr ELSE devices[i]]
    /\ UNCHANGED <<socket, sockets, owner, net, replies, scanning, peers>>

\* upsert_device, in a task of its own: the tasks of two announcements run in any order.
upsert_device(u) ==
    /\ upserts' = upserts \ {u}
    /\ devices' = [i \in DOMAIN devices \cup {u.id} |-> IF i = u.id THEN u.addr ELSE devices[i]]
    /\ UNCHANGED <<socket, sockets, owner, net, replies, scanning, peers>>

LoseDatagram(m) ==
    /\ net' = net \ {m}
    /\ UNCHANGED <<socket, sockets, owner, replies, scanning, peers, upserts, devices>>

-----------------------------------------------------------------------------
(* peer.rs                                                                 *)

IsAlive(id) == peers[id].age < Expiry
list_alive == {id \in DOMAIN peers : IsAlive(id)}

\* The reap interval of the scan task.
reap_expired_peers ==
    /\ scanning /\ list_alive # DOMAIN peers
    /\ peers' = [id \in list_alive |-> peers[id]]
    /\ UNCHANGED <<socket, sockets, owner, net, replies, scanning, upserts, devices>>

PeersTick ==
    /\ \E id \in DOMAIN peers : IsAlive(id)
    /\ peers' = [id \in DOMAIN peers |-> [peers[id] EXCEPT !.age = IF @ < Expiry THEN @ + 1 ELSE @]]
    /\ UNCHANGED <<socket, sockets, owner, net, replies, scanning, upserts, devices>>

DiscoveryNext ==
    \/ \E s \in Stations : start_advertising(s) \/ announce(s) \/ stop_advertising(s)
    \/ start_scanning \/ stop_scanning
    \/ \E m \in net : ReceiveQuery(m) \/ ReceiveAnnounce(m) \/ LoseDatagram(m)
    \/ \E u \in upserts : upsert_device(u)
    \/ reap_expired_peers \/ PeersTick

DiscoverySpec == DiscoveryInit /\ [][DiscoveryNext]_discoveryVars

-----------------------------------------------------------------------------
DiscoveryTypeOK ==
    /\ socket \in [Stations -> 0..MaxStarts] /\ sockets \in 0..MaxStarts /\ replies \subseteq 1..MaxStarts
    /\ DOMAIN peers \subseteq Ids /\ DOMAIN devices \subseteq Ids
    /\ \A id \in DOMAIN peers : peers[id].addr \in 1..sockets /\ peers[id].age \in 0..Expiry

\* Once the callbacks have run, every peer of the registry is in the list of devices that the
\* interface shows, at an address where a station with that wire id advertised: re-registration, expiry, restarts of
\* the advertiser and callbacks that overtake each other lose no device (discovery.rs:440-497).
DevicesCoverPeers ==
    /\ \A id \in DOMAIN peers :
          id \in DOMAIN devices \/ \E u \in upserts : u.id = id
    /\ \A id \in DOMAIN devices : WireId(owner[devices[id]]) = id
=============================================================================
