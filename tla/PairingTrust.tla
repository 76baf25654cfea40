---------------------------- MODULE PairingTrust ----------------------------
(***************************************************************************)
(* Pairing and trust on first use (crates/transfer_engine/src/pairing.rs,  *)
(* transport/tofu.rs, transport/tls.rs, identity.rs and the pairing calls  *)
(* of the coordinator).                                                    *)
(*                                                                         *)
(* Every device has a PairingManager with its own copy of the trust store, *)
(* a TLS transport with another copy, and one tofu.json that both copies   *)
(* overwrite as a whole. The applications carry the payloads from device   *)
(* to device (they are outside of the repository); payloads are lost,      *)
(* duplicated and reordered.                                               *)
(***************************************************************************)
EXTENDS Integers, FiniteSets

CONSTANTS
    Nodes,           \* devices
    RequestIds,      \* identifiers of pairing requests
    TTL,             \* PAIRING_REQUEST_TTL in ticks
    MaxRestarts,     \* bound on restarts and on TLS transports
    MaxBlocks,       \* bound on block and unblock calls
    NoPrint          \* "no entry"

ASSUME PairingAssumption ==
    /\ TTL \in Nat \ {0} /\ MaxRestarts \in Nat /\ MaxBlocks \in Nat
    /\ NoPrint \notin Nodes \X (0..MaxRestarts)

VARIABLES
    pending,         \* PairingManager.pending of every device
    trust,           \* entries of the pairing manager's TofuStore
    tls,             \* entries of the TLS transport's TofuStore
    disk,            \* tofu.json
    cert,            \* number of the certificate that the device's TLS server presents, 0 = none
    blocked,         \* PairingManager.blocked
    wire,            \* payloads under way
    used,            \* request identifiers handed out
    confirmed,       \* history: where a user confirmed a request before it expired, and the
                     \* device and print that the request named
    restarts, blocks

pairingVars == <<pending, trust, tls, disk, cert, blocked, wire, used, confirmed, restarts, blocks>>

\* DeviceIdentity::fingerprint hashes the device id; the fingerprint of a certificate hashes the
\* certificate, and every transport generates a new one.
IdPrint(d) == <<d, 0>>
CertPrint(d) == <<d, cert[d]>>

Entries == [Nodes -> (Nodes \X (0..MaxRestarts)) \cup {NoPrint}]
NoEntries == [d \in Nodes |-> NoPrint]

PairingInit ==
    /\ pending = [d \in Nodes |-> {}]
    /\ trust = [d \in Nodes |-> NoEntries] /\ tls = trust /\ disk = trust
    /\ cert = [d \in Nodes |-> 0]
    /\ blocked = [d \in Nodes |-> {}]
    /\ wire = {} /\ used = {} /\ confirmed = {}
    /\ restarts = 0 /\ blocks = 0

-----------------------------------------------------------------------------
(* tofu.rs                                                                 *)

\* trust: the entry is replaced and the whole store saved over the file.
Trust(d, p, print) ==
    /\ trust' = [trust EXCEPT ![d][p] = print]
    /\ disk' = [disk EXCEPT ![d] = trust'[d]]

\* reload_if_changed of either copy.
reload_if_changed(d) ==
    \/ trust[d] # disk[d] /\ trust' = [trust EXCEPT ![d] = disk[d]] /\ UNCHANGED tls
    \/ tls[d] # disk[d] /\ tls' = [tls EXCEPT ![d] = disk[d]] /\ UNCHANGED trust

Reload(d) == reload_if_changed(d) /\ UNCHANGED <<pending, disk, cert, blocked, wire, used, confirmed, restarts, blocks>>

-----------------------------------------------------------------------------
(* pairing.rs                                                              *)

IsExpired(r) == r.age >= TTL

\* request_pairing: the payload repeats the id of the device it is sent to.
request_pairing(d, p, id) ==
    /\ id \notin used /\ d # p
    /\ used' = used \cup {id}
    /\ pending' = [pending EXCEPT ![d] = @ \cup
         {[id |-> id, device |-> p, print |-> IdPrint(d), incoming |-> FALSE, age |-> 0]}]
    /\ wire' = wire \cup {[kind |-> "request", id |-> id, from |-> d, to |-> p, device |-> p,
                           print |-> IdPrint(d), accepted |-> FALSE]}
    /\ UNCHANGED <<trust, tls, disk, cert, blocked, confirmed, restarts, blocks>>

\* insert replaces an entry with the same request id.
incoming_request(m) ==
    LET d == m.to
    IN  /\ m.kind = "request"
        /\ pending' = [pending EXCEPT ![d] = {r \in @ : r.id # m.id} \cup
             {[id |-> m.id, device |-> m.device, print |-> m.print, incoming |-> TRUE, age |-> 0]}]
        /\ UNCHANGED <<trust, tls, disk, cert, blocked, wire, used, confirmed, restarts, blocks>>

Without(d, r) == pending' = [pending EXCEPT ![d] = @ \ {r}]

\* The application answers the device that asked, with the print of its own.
Answer(d, r, yes) ==
    wire' = IF r.incoming
            THEN wire \cup {[kind |-> "confirm", id |-> r.id, from |-> d, to |-> n, device |-> d,
                             print |-> IdPrint(d), accepted |-> yes] :
                                n \in {n \in Nodes : IdPrint(n) = r.print}}
            ELSE wire

Confirmation(d, r) == [id |-> r.id, on |-> d, device |-> r.device, print |-> r.print]

\* Mutant: a confirmation that forgets the expiry.
confirm_pairing_late(d, r) ==
    /\ Without(d, r)
    /\ Trust(d, r.device, r.print) /\ Answer(d, r, TRUE)
    /\ confirmed' = confirmed \cup (IF r.age < TTL THEN {Confirmation(d, r)} ELSE {})
    /\ UNCHANGED <<tls, cert, blocked, used, restarts, blocks>>

confirm_pairing(d, r) ==
    /\ Without(d, r)
    /\ IF IsExpired(r)
       THEN UNCHANGED <<trust, disk, wire>>
       ELSE Trust(d, r.device, r.print) /\ Answer(d, r, TRUE)
    /\ confirmed' = confirmed \cup (IF r.age < TTL THEN {Confirmation(d, r)} ELSE {})
    /\ UNCHANGED <<tls, cert, blocked, used, restarts, blocks>>

reject_pairing(d, r) ==
    /\ Without(d, r) /\ Answer(d, r, FALSE)
    /\ UNCHANGED <<trust, tls, disk, cert, blocked, used, confirmed, restarts, blocks>>

\* accept_remote_confirmation looks at nothing but the payload.
accept_remote_confirmation(m) ==
    LET d == m.to
    IN  /\ m.kind = "confirm"
        /\ IF m.accepted THEN Trust(d, m.device, m.print) ELSE UNCHANGED <<trust, disk>>
        /\ pending' = [pending EXCEPT ![d] = {r \in @ : r.id # m.id}]
        /\ UNCHANGED <<tls, cert, blocked, wire, used, confirmed, restarts, blocks>>

block_peer(d, p) ==
    /\ blocks < MaxBlocks /\ blocks' = blocks + 1
    /\ blocked' = [blocked EXCEPT ![d] = @ \cup {p}]
    /\ UNCHANGED <<pending, trust, tls, disk, cert, wire, used, confirmed, restarts>>

unblock_peer(d, p) ==
    /\ p \in blocked[d] /\ blocked' = [blocked EXCEPT ![d] = @ \ {p}]
    /\ UNCHANGED <<pending, trust, tls, disk, cert, wire, used, confirmed, restarts, blocks>>

reap_expired(d) ==
    /\ \E r \in pending[d] : IsExpired(r)
    /\ pending' = [pending EXCEPT ![d] = {r \in @ : ~IsExpired(r)}]
    /\ UNCHANGED <<trust, tls, disk, cert, blocked, wire, used, confirmed, restarts, blocks>>

PairingTick ==
    /\ \E d \in Nodes : \E r \in pending[d] : r.age < TTL
    /\ pending' = [d \in Nodes |-> {[r EXCEPT !.age = IF @ < TTL THEN @ + 1 ELSE TTL] : r \in pending[d]}]
    /\ UNCHANGED <<trust, tls, disk, cert, blocked, wire, used, confirmed, restarts, blocks>>

-----------------------------------------------------------------------------
(* tls.rs                                                                  *)

\* TlsTcpTransport::new: a new certificate, and a store read from the file.
NewTransport(d) ==
    /\ restarts < MaxRestarts /\ restarts' = restarts + 1
    /\ cert' = [cert EXCEPT ![d] = restarts + 1]
    /\ tls' = [tls EXCEPT ![d] = disk[d]]
    /\ UNCHANGED <<pending, trust, disk, blocked, wire, used, confirmed, blocks>>

\* verify_server_cert, by the transport of d for the server of p: accepted when it is the stored
\* print, stored and accepted on first use, and refused (nothing changes) otherwise.
verify_server_cert(d, p) ==
    /\ d # p /\ cert[p] # 0 /\ cert[d] # 0
    /\ tls[d][p] = NoPrint
    /\ tls' = [tls EXCEPT ![d][p] = CertPrint(p)]
    /\ disk' = [disk EXCEPT ![d] = tls'[d]]
    /\ UNCHANGED <<pending, trust, cert, blocked, wire, used, confirmed, restarts, blocks>>

\* The process ends and starts: pending requests and the block list are only in memory.
Restart(d) ==
    /\ restarts < MaxRestarts /\ restarts' = restarts + 1
    /\ pending' = [pending EXCEPT ![d] = {}]
    /\ blocked' = [blocked EXCEPT ![d] = {}]
    /\ trust' = [trust EXCEPT ![d] = disk[d]]
    /\ tls' = [tls EXCEPT ![d] = disk[d]]
    /\ cert' = [cert EXCEPT ![d] = 0]
    /\ UNCHANGED <<disk, wire, used, confirmed, blocks>>

LosePayload(m) ==
    /\ wire' = wire \ {m}
    /\ UNCHANGED <<pending, trust, tls, disk, cert, blocked, used, confirmed, restarts, blocks>>

PairingNext ==
    \/ \E d, p \in Nodes, id \in RequestIds : request_pairing(d, p, id)
    \/ \E m \in wire : incoming_request(m)
    \/ \E m \in wire : accept_remote_confirmation(m)
    \/ \E m \in wire : LosePayload(m)
    \/ \E d \in Nodes : \E r \in pending[d] : confirm_pairing(d, r)
    \/ \E d \in Nodes : \E r \in pending[d] : reject_pairing(d, r)
    \/ \E d, p \in Nodes : block_peer(d, p)
    \/ \E d, p \in Nodes : unblock_peer(d, p)
    \/ \E d, p \in Nodes : verify_server_cert(d, p)
    \/ \E d \in Nodes : reap_expired(d) \/ NewTransport(d) \/ Restart(d) \/ Reload(d)
    \/ PairingTick

PairingSpec == PairingInit /\ [][PairingNext]_pairingVars

-----------------------------------------------------------------------------
PairingTypeOK ==
    /\ trust \in [Nodes -> Entries] /\ tls \in [Nodes -> Entries] /\ disk \in [Nodes -> Entries]
    /\ blocked \in [Nodes -> SUBSET Nodes]
    /\ \A d \in Nodes : \A r \in pending[d] : r.id \in used /\ r.age \in 0..TTL

\* A user agreed that a store of d holds print x for p: on d, to a request that named p and x,
\* or on p, whose own print x is, to a request that carried the print of d.
Agreed(d, p, x, conf) ==
    \/ \E c \in conf : c.on = d /\ c.device = p /\ c.print = x
    \/ x = IdPrint(p) /\ \E c \in conf : c.on = p /\ c.print = IdPrint(d)

\* A print in any copy of a trust store is one a user agreed to before the request expired
\* (confirm_pairing, accept_remote_confirmation), or the certificate of that very peer, which
\* verify_server_cert stores on first use and asks no user about. It survives restarts,
\* duplicated and late payloads, and the two copies that overwrite each other's file. What the
\* user agrees to is the entry as the code writes it: the payload repeats the id it is sent to,
\* so that the device asked files the print of the asking one under its own id.
TrustHasConsent ==
    \A d, p \in Nodes : \A x \in {trust[d][p], tls[d][p], disk[d][p]} \ {NoPrint} :
        Agreed(d, p, x, confirmed) \/ (x[1] = p /\ x[2] # 0)
=============================================================================
