------------------------------ MODULE RelayHub ------------------------------
(***************************************************************************)
(* The relay server of relay/src: the registry of connected nodes and one  *)
(* handler task per WebSocket connection.  The nodes are an open           *)
(* environment here: any node may connect, send any frame a node of this   *)
(* repository sends, close its socket or vanish behind a dead network      *)
(* path.  AgentRuntime and RelaySystem narrow that environment down to the *)
(* agent and the command line client.                                      *)
(*                                                                         *)
(* A connection is one WebSocket.  up[c] holds the frames on their way to  *)
(* the relay (the node's outbound queue and the network together), down[c] *)
(* those on their way to the node (the handler's tx queue and the network).*)
(* A connection whose two ends are both gone is free and may be used for a *)
(* new WebSocket: nothing refers to it any more, so reusing its name is    *)
(* indistinguishable from drawing a fresh connection_id.                   *)
(***************************************************************************)
EXTENDS Naturals, Sequences, FiniteSets

CONSTANTS
    Nodes,          \* node identities (the UUIDs of agents and CLI runs)
    Conns,          \* names for WebSocket connections
    Ids,            \* identities of requests (TaskId and request_id)
    Incompatible,   \* nodes built for another PROTOCOL_VERSION
    None,           \* absence of a node, a connection or an id
    MaxFrames       \* bound on the frames of a connection that are in transit when
                    \* its node starts to send another

ASSUME HubAssumption ==
    /\ None \notin Nodes \cup Conns \cup Ids
    /\ Incompatible \subseteq Nodes
    /\ MaxFrames \in Nat \ {0}

VARIABLES
    owner,      \* owner[c]: the node that opened c
    sock,       \* sock[c]: the node's end, "open" or "closed"
    link,       \* link[c]: the path, "up", or "cut" when packets vanish silently
    handler,    \* handler[c]: "identify", "dispatch" (the main loop) or "done"
    up, down,   \* frames in transit, in order
    registry,   \* registry[n]: the connection whose tx is registered for n
    latest,     \* auxiliary: the connection n opened last
    overtaken   \* auxiliary: n's last registration came from an older connection
                \* than one that was already registered

hubVars == <<owner, sock, link, handler, up, down, registry, latest, overtaken>>

-----------------------------------------------------------------------------
(* Frames.  Only what the relay routes by is kept. *)

Requests  == {"pair_request", "task_request"}
Responses == {"pair_response", "task_result"}
NodeTypes == {"heartbeat", "query"} \cup Requests \cup Responses
MsgTypes  == NodeTypes \cup {"heartbeat_ack", "query_response", "error"}

NodeOrNone == Nodes \cup {None}
ConnOrNone == Conns \cup {None}
Msgs == [type : MsgTypes, from : NodeOrNone, to : NodeOrNone, id : Ids \cup {None}]

Heartbeat(n) == [type |-> "heartbeat", from |-> n, to |-> None, id |-> None]
HeartbeatAck == [type |-> "heartbeat_ack", from |-> None, to |-> None, id |-> None]
QueryResponse(m) == [type |-> "query_response", from |-> None, to |-> None, id |-> m.id]
Error == [type |-> "error", from |-> None, to |-> None, id |-> None]

\* Codec::decode: JSON parses, and the envelope's version is this build's.
Decodes(m) == m.from \notin Incompatible

\* What is left of a queue when its writer is aborted: any prefix may already
\* have reached the other side.
Prefixes(s) == {SubSeq(s, 1, i) : i \in 0..Len(s)}

-----------------------------------------------------------------------------
\* The types of the relay's state: connections, handlers, frames, registry.
HubTypeOK ==
    /\ owner \in [Conns -> NodeOrNone]
    /\ sock \in [Conns -> {"open", "closed"}]
    /\ link \in [Conns -> {"up", "cut"}]
    /\ handler \in [Conns -> {"identify", "dispatch", "done"}]
    /\ up \in [Conns -> Seq(Msgs)]
    /\ down \in [Conns -> Seq(Msgs)]
    /\ registry \in [Nodes -> ConnOrNone]
    /\ latest \in [Nodes -> ConnOrNone]
    /\ overtaken \in [Nodes -> BOOLEAN]

HubInit ==
    /\ owner = [c \in Conns |-> None]
    /\ sock = [c \in Conns |-> "closed"]
    /\ link = [c \in Conns |-> "up"]
    /\ handler = [c \in Conns |-> "done"]
    /\ up = [c \in Conns |-> <<>>]
    /\ down = [c \in Conns |-> <<>>]
    /\ registry = [n \in Nodes |-> None]
    /\ latest = [n \in Nodes |-> None]
    /\ overtaken = [n \in Nodes |-> FALSE]

Free(c) == sock[c] = "closed" /\ handler[c] = "done"

-----------------------------------------------------------------------------
(* The node's end of a connection. *)

\* A node connects: the relay accepts, spawns handle_connection, which waits in
\* identify().
ClientConnect(n, c) ==
    /\ Free(c)
    /\ owner' = [owner EXCEPT ![c] = n]
    /\ sock' = [sock EXCEPT ![c] = "open"]
    /\ link' = [link EXCEPT ![c] = "up"]
    /\ handler' = [handler EXCEPT ![c] = "identify"]
    /\ up' = [up EXCEPT ![c] = <<Heartbeat(n)>>]
    /\ down' = [down EXCEPT ![c] = <<>>]
    /\ latest' = [latest EXCEPT ![n] = c]
    /\ UNCHANGED <<registry, overtaken>>

\* Frames written to a cut path, or to a handler that is gone, arrive nowhere.
ReachesRelay(c) == link[c] = "up" /\ handler[c] # "done"

ClientSend(c, m) ==
    /\ sock[c] = "open"
    /\ m.from = owner[c]
    /\ up' = IF ReachesRelay(c) THEN [up EXCEPT ![c] = Append(@, m)] ELSE up
    /\ UNCHANGED <<owner, sock, link, handler, down, registry, latest, overtaken>>

\* The node reads one frame and answers it with the frames of reply.
ClientRecv(c, reply) ==
    /\ sock[c] = "open"
    /\ down[c] # <<>>
    /\ \A i \in DOMAIN reply : reply[i].from = owner[c]
    /\ down' = [down EXCEPT ![c] = Tail(@)]
    /\ up' = IF ReachesRelay(c) THEN [up EXCEPT ![c] = @ \o reply] ELSE up
    /\ UNCHANGED <<owner, sock, link, handler, registry, latest, overtaken>>

\* The node drops its socket: its writer is aborted mid-queue, what it never read
\* is gone.
ClientClose(c) ==
    /\ sock[c] = "open"
    /\ sock' = [sock EXCEPT ![c] = "closed"]
    /\ \E rest \in Prefixes(up[c]) : up' = [up EXCEPT ![c] = rest]
    /\ down' = [down EXCEPT ![c] = <<>>]
    /\ UNCHANGED <<owner, link, handler, registry, latest, overtaken>>

\* The path dies silently: neither end is told.
Cut(c) ==
    /\ sock[c] = "open" /\ handler[c] # "done" /\ link[c] = "up"
    /\ link' = [link EXCEPT ![c] = "cut"]
    /\ up' = [up EXCEPT ![c] = <<>>]
    /\ down' = [down EXCEPT ![c] = <<>>]
    /\ UNCHANGED <<owner, sock, handler, registry, latest, overtaken>>

-----------------------------------------------------------------------------
(* The relay's end: handle_connection. *)

\* identify(): the first frame must decode to a heartbeat; upsert_from_heartbeat
\* then replaces whatever is registered for the node.
Identified(c) == LET m == Head(up[c]) IN Decodes(m) /\ m.type = "heartbeat"

\* Registry::upsert_from_heartbeat
upsert_from_heartbeat(n, c) ==
    /\ registry' = [registry EXCEPT ![n] = c]
    /\ overtaken' = [overtaken EXCEPT ![n] =
                       /\ latest[n] # c
                       /\ latest[n] \in Conns
                       /\ owner[latest[n]] = n
                       /\ handler[latest[n]] = "dispatch"]

Identify(c) ==
    /\ handler[c] = "identify"
    /\ up[c] # <<>>
    /\ Identified(c)
    /\ upsert_from_heartbeat(Head(up[c]).from, c)
    /\ handler' = [handler EXCEPT ![c] = "dispatch"]
    /\ up' = [up EXCEPT ![c] = Tail(@)]
    /\ UNCHANGED <<owner, sock, link, down, latest>>

\* handle_connection returns before its main loop.
LeaveIdentify(c) ==
    /\ handler[c] = "identify"
    /\ handler' = [handler EXCEPT ![c] = "done"]
    /\ up' = [up EXCEPT ![c] = <<>>]
    /\ UNCHANGED <<owner, sock, link, down, registry, latest, overtaken>>

\* The first frame identifies nobody, or the socket closed before any frame.
IdentifyReject(c) ==
    /\ IF up[c] = <<>> THEN sock[c] = "closed" /\ link[c] = "up" ELSE ~Identified(c)
    /\ LeaveIdentify(c)

\* No frame arrived within 10 s: it is still in transit, or the path is cut.
IdentifyTimeout(c) == LeaveIdentify(c)

\* A mutant of Route: get_tx() asked for the sender instead of the addressee.
Route_sender(c, m) ==
    CASE m.type = "heartbeat"              -> <<c, HeartbeatAck>>
      [] m.type = "query"                  -> <<c, QueryResponse(m)>>
      [] m.type \in Requests \cup Responses -> <<registry[m.from], m>>
      [] OTHER                             -> <<None, m>>

\* dispatch(): the tx a frame is answered or forwarded on (None: dropped) and the
\* frame put there.  get_tx() and tx.send() are two steps of the code; a target
\* that disconnects between them loses the frame, exactly as one that
\* disconnects right after the send does.
Route(c, m) ==
    CASE ~Decodes(m)                  -> <<c, Error>>
      [] m.type = "heartbeat"         -> <<c, HeartbeatAck>>
      [] m.type = "query"             -> <<c, QueryResponse(m)>>
      [] m.type \in Requests /\ m.to \in Nodes ->
             IF registry[m.to] # None THEN <<registry[m.to], m>> ELSE <<c, Error>>
      [] m.type \in Responses /\ m.to \in Nodes -> <<registry[m.to], m>>
      [] OTHER                        -> <<None, m>>

\* send_msg: tx.send().ok() and the write task; the frame is lost when nobody is
\* left to read it.
send_msg(tx, m) ==
    IF tx # None /\ sock[tx] = "open" /\ link[tx] = "up" /\ handler[tx] = "dispatch"
      THEN [down EXCEPT ![tx] = Append(@, m)]
      ELSE down

Dispatch(c) ==
    /\ handler[c] = "dispatch"
    /\ up[c] # <<>>
    /\ LET route == Route(c, Head(up[c]))
       IN  down' = send_msg(route[1], route[2])
    /\ up' = [up EXCEPT ![c] = Tail(@)]
    /\ UNCHANGED <<owner, sock, link, handler, registry, latest, overtaken>>

\* Mutants of remove(): without the connection_id comparison; never reached; the
\* entry marked offline instead of deleted.
remove_any(n, c) == registry' = [registry EXCEPT ![n] = None]
remove_skipped(n, c) == UNCHANGED registry
remove_marks(n, c) ==
    registry' = [registry EXCEPT ![n] = IF @ = c THEN "offline" ELSE @]

\* Registry::remove: only the connection that is registered unregisters the node.
remove(n, c) ==
    registry' = [registry EXCEPT ![n] = IF @ = c THEN None ELSE @]

\* The main loop ends: remove, then the write task is aborted mid-queue.
HandlerExit(c) ==
    /\ remove(owner[c], c)
    /\ handler' = [handler EXCEPT ![c] = "done"]
    /\ up' = [up EXCEPT ![c] = <<>>]
    /\ \E rest \in Prefixes(down[c]) : down' = [down EXCEPT ![c] = rest]
    /\ UNCHANGED <<owner, sock, link, latest, overtaken>>

\* stream.next() yields None after the frames sent before the close.
HandlerClosed(c) ==
    /\ handler[c] = "dispatch"
    /\ sock[c] = "closed" /\ link[c] = "up" /\ up[c] = <<>>
    /\ HandlerExit(c)

\* stream.next() yields an error: the kernel gave up on a cut path.
HandlerError(c) ==
    /\ handler[c] = "dispatch"
    /\ link[c] = "cut"
    /\ HandlerExit(c)

\* The relay process dies and is started again: every handler and the in-memory
\* registry are gone.
RelayRestart ==
    /\ \E c \in Conns : handler[c] # "done"
    /\ handler' = [c \in Conns |-> "done"]
    /\ registry' = [n \in Nodes |-> None]
    /\ up' = [c \in Conns |-> <<>>]
    /\ overtaken' = [n \in Nodes |-> FALSE]
    /\ UNCHANGED <<owner, sock, link, down, latest>>

RelayStep(c) ==
    \/ Identify(c)
    \/ IdentifyReject(c)
    \/ IdentifyTimeout(c)
    \/ Dispatch(c)
    \/ HandlerClosed(c)
    \/ HandlerError(c)

-----------------------------------------------------------------------------
\* What node n may send: the messages the agents and the CLI construct.
NodeMsgs(n) ==
    {Heartbeat(n)}
    \cup [type : {"query"}, from : {n}, to : {None}, id : Ids]
    \cup [type : {"pair_request", "pair_response"}, from : {n}, to : Nodes, id : Ids]
    \cup [type : {"task_request", "task_result"}, from : {n}, to : NodeOrNone, id : Ids]

\* The queues are unbounded; the bound is on what a node puts into them.
Room(c) == Len(up[c]) + Len(down[c]) < MaxFrames

ClientStep(c) ==
    \/ \E n \in Nodes : ClientConnect(n, c)
    \/ (\A d \in Conns : Room(d)) /\ \E m \in NodeMsgs(owner[c]) : ClientSend(c, m)
    \/ \E reply \in {<<>>} \cup {<<m>> : m \in NodeMsgs(owner[c])} : ClientRecv(c, reply)
    \/ ClientClose(c)
    \/ Cut(c)

HubNext ==
    \/ \E c \in Conns : ClientStep(c) \/ RelayStep(c)
    \/ RelayRestart

HubSpec == HubInit /\ [][HubNext]_hubVars

-----------------------------------------------------------------------------
(* Properties *)

\* A registered connection is one whose handler is in its main loop, and it is
\* registered under the node that opened it: no handler leaves handle_connection
\* with its tx still in the registry, whatever the order of connects, closes,
\* errors and restarts.
RegisteredIsRunning ==
    \A n \in Nodes : registry[n] # None =>
        /\ handler[registry[n]] = "dispatch"
        /\ owner[registry[n]] = n

\* Registry isolation, as far as the connection_id check gives it: a node whose
\* newest connection has identified itself stays registered under exactly that
\* connection, unless an older connection of the same node identified itself
\* after it (see LiveNodeReachable).
RegistryIsolation ==
    \A n \in Nodes :
        (latest[n] # None /\ owner[latest[n]] = n
          /\ handler[latest[n]] = "dispatch" /\ ~overtaken[n])
        => registry[n] = latest[n]

\* The relay forwards a request or a response only to the node it is addressed to.
DeliveredToAddressee ==
    \A c \in Conns : \A i \in DOMAIN down[c] :
        down[c][i].type \in Requests \cup Responses => down[c][i].to = owner[c]

\* A registration disappears only when the handler that made it ends: no step of
\* another connection takes a running handler's node out of the registry.
OnlyOwnHandlerUnregisters ==
    [][\A n \in Nodes :
         (registry[n] # None /\ registry'[n] = None) => handler'[registry[n]] = "done"]_hubVars

\* README section 5: connection ids prevent "overlapping handler tasks from
\* prematurely removing new connections from the relay registry".  Stated for the
\* node's newest connection: once identified, the node is not offline.
LiveNodeReachable ==
    \A n \in Nodes :
        (latest[n] # None /\ owner[latest[n]] = n /\ handler[latest[n]] = "dispatch")
        => registry[n] # None

=============================================================================
