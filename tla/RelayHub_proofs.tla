-------------------------- MODULE RelayHub_proofs --------------------------
(***************************************************************************)
(* The relay's registry invariants for any number of nodes, connections    *)
(* and frames in transit.  RegistryIsolation is not inductive as it        *)
(* stands: the handler registers the id found in the frame, so it takes    *)
(* that frames carry the id of the node that opened the connection         *)
(* (HonestFrames), and remove() is harmless because a registered           *)
(* connection belongs to the node it is registered for                     *)
(* (RegisteredIsRunning).                                                  *)
(***************************************************************************)
EXTENDS RelayHub, TLAPS

\* Every frame on its way to the relay carries the id of the connection's node.
HonestFrames ==
    \A c \in Conns : \A i \in DOMAIN up[c] : up[c][i].from = owner[c]

\* A connection in use was opened by a node.
OpenedByNode ==
    \A c \in Conns : ~Free(c) => owner[c] \in Nodes

HubInv ==
    /\ HubTypeOK
    /\ OpenedByNode
    /\ HonestFrames
    /\ RegisteredIsRunning
    /\ RegistryIsolation
    /\ DeliveredToAddressee

-----------------------------------------------------------------------------
(* Facts about the queues. *)

\* Popping a frame leaves the rest in place.
LEMMA PopFrame ==
    ASSUME NEW S, NEW s \in Seq(S), s # <<>>
    PROVE  /\ Head(s) \in S /\ Head(s) = s[1] /\ 1 \in DOMAIN s
           /\ Tail(s) \in Seq(S)
           /\ \A i \in DOMAIN Tail(s) : i + 1 \in DOMAIN s /\ Tail(s)[i] = s[i + 1]
  OBVIOUS

\* Pushing a frame leaves the others in place.
LEMMA PushFrame ==
    ASSUME NEW S, NEW s \in Seq(S), NEW m \in S
    PROVE  /\ Append(s, m) \in Seq(S)
           /\ \A i \in DOMAIN Append(s, m) :
                 Append(s, m)[i] = m \/ (i \in DOMAIN s /\ Append(s, m)[i] = s[i])
  OBVIOUS

\* An aborted writer leaves a queue of frames that were in it.
LEMMA PrefixFrames ==
    ASSUME NEW S, NEW s \in Seq(S), NEW r \in Prefixes(s)
    PROVE  /\ r \in Seq(S)
           /\ \A i \in DOMAIN r : i \in DOMAIN s /\ r[i] = s[i]
  <1>1. PICK k \in 0..Len(s) : r = SubSeq(s, 1, k)
    BY DEF Prefixes
  <1>2. QED
    BY <1>1

\* What a node may send is a frame with the node's id.
LEMMA NodeMsgsType ==
    ASSUME HubAssumption, NEW n \in Nodes, NEW m \in NodeMsgs(n)
    PROVE  m \in Msgs /\ m.from = n
  BY DEF NodeMsgs, Msgs, Heartbeat, MsgTypes, NodeTypes, Requests, Responses, NodeOrNone

-----------------------------------------------------------------------------
\* The initial state satisfies the invariant.
LEMMA HubInitInv == ASSUME HubAssumption, HubInit PROVE HubInv
  BY DEF HubAssumption, HubInit, HubInv, HubTypeOK, OpenedByNode, Free, HonestFrames,
         RegisteredIsRunning, RegistryIsolation, DeliveredToAddressee, NodeOrNone, ConnOrNone

-----------------------------------------------------------------------------
(* One lemma per action. *)

\* A new connection disturbs nobody else's registration.
LEMMA ConnectInv ==
    ASSUME HubAssumption, HubInv, NEW n \in Nodes, NEW c \in Conns, ClientConnect(n, c)
    PROVE  HubInv'
  <1> USE DEF ClientConnect, Free
  <1>1. Heartbeat(n) \in Msgs /\ Heartbeat(n).from = n
    BY DEF Heartbeat, Msgs, MsgTypes, NodeTypes, NodeOrNone
  <1>2. HubTypeOK'
    BY <1>1 DEF HubInv, HubTypeOK, NodeOrNone, ConnOrNone
  <1>3. OpenedByNode'
    BY DEF HubInv, HubTypeOK, OpenedByNode
  <1>4. HonestFrames'
    BY <1>1 DEF HubInv, HubTypeOK, HonestFrames
  <1>5. RegisteredIsRunning'
    BY DEF HubInv, HubTypeOK, RegisteredIsRunning, ConnOrNone
  <1>6. RegistryIsolation'
    BY DEF HubInv, HubTypeOK, RegistryIsolation, ConnOrNone
  <1>7. DeliveredToAddressee'
    BY DEF HubInv, HubTypeOK, DeliveredToAddressee
  <1>8. QED
    BY <1>2, <1>3, <1>4, <1>5, <1>6, <1>7 DEF HubInv

\* A node sends a frame.
LEMMA SendInv ==
    ASSUME HubAssumption, HubInv, NEW c \in Conns, NEW m \in NodeMsgs(owner[c]),
           ClientSend(c, m)
    PROVE  HubInv'
  <1> USE DEF ClientSend
  <1>1. owner[c] \in Nodes
    BY DEF HubInv, OpenedByNode, Free
  <1>2. m \in Msgs /\ m.from = owner[c]
    BY <1>1, NodeMsgsType
  <1>3. up[c] \in Seq(Msgs)
    BY DEF HubInv, HubTypeOK
  <1>4. HubTypeOK'
    BY <1>2, <1>3, PushFrame DEF HubInv, HubTypeOK
  <1>5. HonestFrames'
    BY <1>2, <1>3, PushFrame DEF HubInv, HubTypeOK, HonestFrames
  <1>6. /\ OpenedByNode' /\ RegisteredIsRunning'
        /\ RegistryIsolation' /\ DeliveredToAddressee'
    BY DEF HubInv, OpenedByNode, Free, RegisteredIsRunning, RegistryIsolation,
           DeliveredToAddressee
  <1>7. QED
    BY <1>4, <1>5, <1>6 DEF HubInv

\* A node reads a frame and may answer it.
LEMMA RecvInv ==
    ASSUME HubAssumption, HubInv, NEW c \in Conns,
           NEW reply \in {<<>>} \cup {<<m>> : m \in NodeMsgs(owner[c])},
           ClientRecv(c, reply)
    PROVE  HubInv'
  <1> USE DEF ClientRecv
  <1>1. owner[c] \in Nodes
    BY DEF HubInv, OpenedByNode, Free
  <1>2. up[c] \in Seq(Msgs) /\ down[c] \in Seq(Msgs)
    BY DEF HubInv, HubTypeOK
  <1>3. /\ up[c] \o reply \in Seq(Msgs)
        /\ \A i \in DOMAIN (up[c] \o reply) :
              \/ (up[c] \o reply)[i].from = owner[c]
              \/ i \in DOMAIN up[c] /\ (up[c] \o reply)[i] = up[c][i]
    <2>1. CASE reply = <<>>
      BY <1>2, <2>1
    <2>2. CASE reply # <<>>
      <3>1. PICK m \in NodeMsgs(owner[c]) : reply = <<m>>
        BY <2>2
      <3>2. m \in Msgs /\ m.from = owner[c]
        BY <1>1, NodeMsgsType
      <3>3. QED
        BY <1>2, <3>1, <3>2
    <2>3. QED
      BY <2>1, <2>2
  <1>4. HubTypeOK'
    BY <1>2, <1>3, PopFrame DEF HubInv, HubTypeOK
  <1>5. HonestFrames'
    <2> SUFFICES ASSUME NEW d \in Conns, NEW i \in DOMAIN up'[d] PROVE up'[d][i].from = owner'[d]
      BY DEF HonestFrames
    <2>1. CASE d = c
      <3>1. up'[d] \in {up[c], up[c] \o reply} /\ owner'[d] = owner[c]
        BY <2>1 DEF HubInv, HubTypeOK
      <3>2. \A k \in DOMAIN up[c] : up[c][k].from = owner[c]
        BY DEF HubInv, HonestFrames
      <3>3. QED
        BY <1>3, <3>1, <3>2
    <2>2. CASE d # c
      BY <2>2 DEF HubInv, HubTypeOK, HonestFrames
    <2>3. QED
      BY <2>1, <2>2
  <1>6. DeliveredToAddressee'
    BY <1>2, PopFrame DEF HubInv, HubTypeOK, DeliveredToAddressee
  <1>7. OpenedByNode' /\ RegisteredIsRunning' /\ RegistryIsolation'
    BY DEF HubInv, OpenedByNode, Free, RegisteredIsRunning, RegistryIsolation
  <1>8. QED
    BY <1>4, <1>5, <1>6, <1>7 DEF HubInv

\* A node drops its socket.
LEMMA CloseInv ==
    ASSUME HubAssumption, HubInv, NEW c \in Conns, ClientClose(c)
    PROVE  HubInv'
  <1> USE DEF ClientClose
  <1>1. PICK rest \in Prefixes(up[c]) : up' = [up EXCEPT ![c] = rest]
    OBVIOUS
  <1>2. up[c] \in Seq(Msgs)
    BY DEF HubInv, HubTypeOK
  <1>3. rest \in Seq(Msgs) /\ \A i \in DOMAIN rest : i \in DOMAIN up[c] /\ rest[i] = up[c][i]
    BY <1>2, PrefixFrames
  <1>4. HubTypeOK'
    BY <1>1, <1>3 DEF HubInv, HubTypeOK
  <1>5. HonestFrames'
    BY <1>1, <1>3 DEF HubInv, HubTypeOK, HonestFrames
  <1>6. DeliveredToAddressee'
    BY DEF HubInv, HubTypeOK, DeliveredToAddressee
  <1>7. OpenedByNode' /\ RegisteredIsRunning' /\ RegistryIsolation'
    BY DEF HubInv, HubTypeOK, OpenedByNode, Free, RegisteredIsRunning, RegistryIsolation
  <1>8. QED
    BY <1>4, <1>5, <1>6, <1>7 DEF HubInv

\* The network path dies.
LEMMA CutInv ==
    ASSUME HubAssumption, HubInv, NEW c \in Conns, Cut(c)
    PROVE  HubInv'
  <1> USE DEF Cut
  <1>1. HubTypeOK'
    BY DEF HubInv, HubTypeOK
  <1>2. HonestFrames' /\ DeliveredToAddressee'
    BY DEF HubInv, HubTypeOK, HonestFrames, DeliveredToAddressee
  <1>3. OpenedByNode' /\ RegisteredIsRunning' /\ RegistryIsolation'
    BY DEF HubInv, HubTypeOK, OpenedByNode, Free, RegisteredIsRunning, RegistryIsolation
  <1>4. QED
    BY <1>1, <1>2, <1>3 DEF HubInv

-----------------------------------------------------------------------------
\* identify() registers the connection for its node.
LEMMA IdentifyInv ==
    ASSUME HubAssumption, HubInv, NEW c \in Conns, Identify(c)
    PROVE  HubInv'
  <1> DEFINE n == owner[c]
  <1> USE DEF Identify, upsert_from_heartbeat
  <1>1. n \in Nodes
    BY DEF HubInv, OpenedByNode, Free
  <1>2. up[c] \in Seq(Msgs)
    BY DEF HubInv, HubTypeOK
  <1>3. Head(up[c]).from = n
    BY <1>2, PopFrame DEF HubInv, HonestFrames
  <1>4. HubTypeOK'
    BY <1>1, <1>2, <1>3, PopFrame DEF HubInv, HubTypeOK, ConnOrNone
  <1>5. OpenedByNode'
    BY DEF HubInv, HubTypeOK, OpenedByNode, Free
  <1>6. HonestFrames'
    BY <1>2, PopFrame DEF HubInv, HubTypeOK, HonestFrames
  <1>7. RegisteredIsRunning'
    BY <1>1, <1>3 DEF HubInv, HubTypeOK, RegisteredIsRunning, ConnOrNone
  <1>8. RegistryIsolation'
    <2> SUFFICES ASSUME NEW k \in Nodes, latest[k] # None, owner[latest[k]] = k,
                        handler'[latest[k]] = "dispatch", ~overtaken'[k]
                 PROVE  registry'[k] = latest[k]
      BY DEF RegistryIsolation
    <2>0. latest[k] \in Conns
      BY DEF HubInv, HubTypeOK, ConnOrNone
    <2>1. CASE k = n
      BY <1>1, <1>3, <2>0, <2>1 DEF HubInv, HubTypeOK
    <2>2. CASE k # n
      BY <1>1, <1>3, <2>0, <2>2 DEF HubInv, HubTypeOK, RegistryIsolation
    <2>3. QED
      BY <2>1, <2>2
  <1>9. DeliveredToAddressee'
    BY DEF HubInv, DeliveredToAddressee
  <1>10. QED
    BY <1>4, <1>5, <1>6, <1>7, <1>8, <1>9 DEF HubInv

\* A handler gives up before it registered anything.
LEMMA LeaveIdentifyInv ==
    ASSUME HubAssumption, HubInv, NEW c \in Conns, LeaveIdentify(c)
    PROVE  HubInv'
  <1> USE DEF LeaveIdentify
  <1>1. HubTypeOK'
    BY DEF HubInv, HubTypeOK
  <1>2. HonestFrames' /\ DeliveredToAddressee'
    BY DEF HubInv, HubTypeOK, HonestFrames, DeliveredToAddressee
  <1>3. OpenedByNode' /\ RegisteredIsRunning' /\ RegistryIsolation'
    BY DEF HubInv, HubTypeOK, OpenedByNode, Free, RegisteredIsRunning, RegistryIsolation, ConnOrNone
  <1>4. QED
    BY <1>1, <1>2, <1>3 DEF HubInv

\* dispatch() answers its own connection, or forwards to the connection that is
\* registered for the addressee.
LEMMA RouteTarget ==
    ASSUME HubAssumption, HubInv, NEW c \in Conns, NEW m \in Msgs
    PROVE  /\ Route(c, m)[1] \in ConnOrNone
           /\ Route(c, m)[2] \in Msgs
           /\ (Route(c, m)[1] # None /\ Route(c, m)[2].type \in Requests \cup Responses)
                => Route(c, m)[2].to = owner[Route(c, m)[1]]
  <1>1. /\ HeartbeatAck \in Msgs /\ HeartbeatAck.type \notin Requests \cup Responses
        /\ Error \in Msgs /\ Error.type \notin Requests \cup Responses
        /\ QueryResponse(m) \in Msgs /\ QueryResponse(m).type \notin Requests \cup Responses
    BY DEF HeartbeatAck, Error, QueryResponse, Msgs, MsgTypes, NodeOrNone, Requests, Responses
  <1>2. \A n \in Nodes : registry[n] \in ConnOrNone /\ (registry[n] # None => owner[registry[n]] = n)
    BY DEF HubInv, HubTypeOK, RegisteredIsRunning
  <1>3. QED
    BY <1>1, <1>2 DEF Route, HubAssumption, ConnOrNone

\* dispatch() answers or forwards one frame.
LEMMA DispatchInv ==
    ASSUME HubAssumption, HubInv, NEW c \in Conns, Dispatch(c)
    PROVE  HubInv'
  <1> DEFINE t == Route(c, Head(up[c]))[1]
             m == Route(c, Head(up[c]))[2]
  <1>0. up[c] \in Seq(Msgs) /\ up[c] # <<>> /\ \A d \in Conns : down[d] \in Seq(Msgs)
    BY DEF HubInv, HubTypeOK, Dispatch
  <1>1. Head(up[c]) \in Msgs
    BY <1>0, PopFrame
  <1>2. /\ t \in ConnOrNone /\ m \in Msgs
        /\ (t # None /\ m.type \in Requests \cup Responses) => m.to = owner[t]
    BY <1>1, RouteTarget
  <1>3. \/ down' = down
        \/ t \in Conns /\ down' = [down EXCEPT ![t] = Append(@, m)]
    BY <1>2 DEF Dispatch, send_msg, ConnOrNone
  <1>4. /\ up' = [up EXCEPT ![c] = Tail(up[c])]
        /\ UNCHANGED <<owner, sock, link, handler, registry, latest, overtaken>>
    BY DEF Dispatch
  <1> HIDE DEF t, m
  <1>5. down' \in [Conns -> Seq(Msgs)] /\ DeliveredToAddressee'
    <2>1. CASE down' = down
      BY <1>4, <2>1 DEF HubInv, HubTypeOK, DeliveredToAddressee
    <2>2. CASE t \in Conns /\ down' = [down EXCEPT ![t] = Append(@, m)]
      <3>1. /\ Append(down[t], m) \in Seq(Msgs)
            /\ \A i \in DOMAIN Append(down[t], m) :
                  \/ Append(down[t], m)[i] = m
                  \/ i \in DOMAIN down[t] /\ Append(down[t], m)[i] = down[t][i]
        BY <1>0, <1>2, <2>2, PushFrame
      <3>2. t # None => (m.type \in Requests \cup Responses => m.to = owner[t])
        BY <1>2
      <3>3. t # None
        BY <2>2 DEF HubAssumption
      <3> HIDE DEF t, m
      <3>4. down' \in [Conns -> Seq(Msgs)] /\ down'[t] = Append(down[t], m)
        BY <2>2, <3>1 DEF HubInv, HubTypeOK
      <3>5. ASSUME NEW d \in Conns, NEW i \in DOMAIN down'[d],
                   down'[d][i].type \in Requests \cup Responses
            PROVE  down'[d][i].to = owner[d]
        BY <2>2, <3>1, <3>2, <3>3, <3>4, <3>5 DEF HubInv, HubTypeOK, DeliveredToAddressee
      <3>6. QED
        BY <1>4, <3>4, <3>5 DEF DeliveredToAddressee
    <2>3. QED
      BY <1>3, <2>1, <2>2
  <1>6. HubTypeOK'
    BY <1>0, <1>4, <1>5, PopFrame DEF HubInv, HubTypeOK
  <1>7. HonestFrames'
    BY <1>0, <1>4, PopFrame DEF HubInv, HubTypeOK, HonestFrames
  <1>8. OpenedByNode' /\ RegisteredIsRunning' /\ RegistryIsolation'
    BY <1>4 DEF HubInv, OpenedByNode, Free, RegisteredIsRunning, RegistryIsolation,
                Dispatch
  <1>9. QED
    BY <1>5, <1>6, <1>7, <1>8 DEF HubInv

\* The main loop ends and remove() runs: the case the connection_id check is for.
LEMMA ExitInv ==
    ASSUME HubAssumption, HubInv, NEW c \in Conns, handler[c] = "dispatch", HandlerExit(c)
    PROVE  HubInv'
  <1> USE DEF HandlerExit, remove
  <1>1. owner[c] \in Nodes
    BY DEF HubInv, OpenedByNode, Free
  <1>2. PICK rest \in Prefixes(down[c]) : down' = [down EXCEPT ![c] = rest]
    OBVIOUS
  <1>3. down[c] \in Seq(Msgs)
    BY DEF HubInv, HubTypeOK
  <1>4. rest \in Seq(Msgs) /\ \A i \in DOMAIN rest : i \in DOMAIN down[c] /\ rest[i] = down[c][i]
    BY <1>3, PrefixFrames
  <1>5. HubTypeOK'
    BY <1>1, <1>2, <1>4 DEF HubInv, HubTypeOK, ConnOrNone
  <1>6. HonestFrames'
    BY DEF HubInv, HubTypeOK, HonestFrames
  <1>7. DeliveredToAddressee'
    BY <1>2, <1>4 DEF HubInv, HubTypeOK, DeliveredToAddressee
  <1>8. OpenedByNode'
    BY DEF HubInv, HubTypeOK, OpenedByNode, Free
  <1>9. RegisteredIsRunning'
    <2> SUFFICES ASSUME NEW n \in Nodes, registry'[n] # None
                 PROVE  handler'[registry'[n]] = "dispatch" /\ owner[registry'[n]] = n
      BY DEF RegisteredIsRunning
    <2>1. registry'[n] = registry[n] /\ registry[n] # c
      BY <1>1 DEF HubInv, HubTypeOK, RegisteredIsRunning, HubAssumption
    <2>2. QED
      BY <2>1 DEF HubInv, HubTypeOK, RegisteredIsRunning, ConnOrNone
  <1>10. RegistryIsolation'
    <2> SUFFICES ASSUME NEW n \in Nodes, latest[n] # None, owner[latest[n]] = n,
                        handler'[latest[n]] = "dispatch", ~overtaken[n]
                 PROVE  registry'[n] = latest[n]
      BY DEF RegistryIsolation
    <2>1. latest[n] \in Conns /\ latest[n] # c
      BY DEF HubInv, HubTypeOK, ConnOrNone
    <2>2. registry[n] = latest[n]
      BY <2>1 DEF HubInv, HubTypeOK, RegistryIsolation
    <2>3. QED
      BY <1>1, <2>1, <2>2 DEF HubInv, HubTypeOK
  <1>11. QED
    BY <1>5, <1>6, <1>7, <1>8, <1>9, <1>10 DEF HubInv

\* The relay restarts with an empty registry.
LEMMA RestartInv ==
    ASSUME HubAssumption, HubInv, RelayRestart
    PROVE  HubInv'
  <1> USE DEF RelayRestart
  <1>1. HubTypeOK'
    BY DEF HubInv, HubTypeOK, ConnOrNone
  <1>2. HonestFrames' /\ DeliveredToAddressee'
    BY DEF HubInv, HonestFrames, DeliveredToAddressee
  <1>3. OpenedByNode' /\ RegisteredIsRunning' /\ RegistryIsolation'
    BY DEF HubInv, HubTypeOK, OpenedByNode, Free, RegisteredIsRunning, RegistryIsolation, ConnOrNone
  <1>4. QED
    BY <1>1, <1>2, <1>3 DEF HubInv

\* Every step of the relay and of its environment preserves the invariant.
LEMMA HubNextInv ==
    ASSUME HubAssumption, HubInv, [HubNext]_hubVars
    PROVE  HubInv'
  <1>1. CASE UNCHANGED hubVars
    BY <1>1 DEF hubVars, HubInv, HubTypeOK, OpenedByNode, Free, HonestFrames,
                RegisteredIsRunning, RegistryIsolation, DeliveredToAddressee
  <1>2. ASSUME NEW c \in Conns, ClientStep(c) PROVE HubInv'
    BY <1>2, ConnectInv, SendInv, RecvInv, CloseInv, CutInv DEF ClientStep
  <1>3. ASSUME NEW c \in Conns, RelayStep(c) PROVE HubInv'
    BY <1>3, IdentifyInv, LeaveIdentifyInv, DispatchInv, ExitInv
       DEF RelayStep, IdentifyReject, IdentifyTimeout, HandlerClosed, HandlerError
  <1>4. CASE RelayRestart
    BY <1>4, RestartInv
  <1>5. QED
    BY <1>1, <1>2, <1>3, <1>4 DEF HubNext

\* The relay keeps its state well typed, registers only running handlers, keeps a
\* node's newest identified connection registered (registry isolation) and
\* forwards only to the addressee.
THEOREM HubInvariant == HubSpec => []HubInv
  <1>1. HubInit => HubInv
    BY HubAssumption, HubInitInv
  <1>2. HubInv /\ [HubNext]_hubVars => HubInv'
    BY HubAssumption, HubNextInv
  <1>3. QED
    BY <1>1, <1>2, PTL DEF HubSpec

\* Type correctness of the relay's state.
THEOREM HubTypeCorrect == HubSpec => []HubTypeOK
  BY HubInvariant, PTL DEF HubInv

\* No handler leaves its tx behind in the registry.
THEOREM RegisteredIsRunningHolds == HubSpec => []RegisteredIsRunning
  BY HubInvariant, PTL DEF HubInv

\* The connection_id check of Registry::remove gives registry isolation, except
\* when identifications overtake one another.
THEOREM RegistryIsolationHolds == HubSpec => []RegistryIsolation
  BY HubInvariant, PTL DEF HubInv

\* dispatch() never forwards to a node the frame is not addressed to.
THEOREM DeliveredToAddresseeHolds == HubSpec => []DeliveredToAddressee
  BY HubInvariant, PTL DEF HubInv

\* A step removes a registration only by ending the handler that made it.
THEOREM OnlyOwnHandlerUnregistersHolds == HubSpec => OnlyOwnHandlerUnregisters
  <1> DEFINE A == \A n \in Nodes :
                    (registry[n] # None /\ registry'[n] = None) => handler'[registry[n]] = "done"
  <1>1. ASSUME HubInv, HubNext PROVE A
    <2>1. \A n \in Nodes : registry[n] \in ConnOrNone
      BY <1>1 DEF HubInv, HubTypeOK
    <2>2. ASSUME NEW c \in Conns, ClientStep(c) PROVE A
      BY <2>2 DEF ClientStep, ClientConnect, ClientSend, ClientRecv, ClientClose, Cut
    <2>3. ASSUME NEW c \in Conns, Identify(c) PROVE A
      <3>1. owner[c] \in Nodes /\ up[c] \in Seq(Msgs) /\ up[c] # <<>>
        BY <1>1, <2>3 DEF HubInv, HubTypeOK, OpenedByNode, Free, Identify
      <3>2. Head(up[c]).from = owner[c]
        BY <1>1, <3>1, PopFrame DEF HubInv, HonestFrames
      <3>3. QED
        BY <1>1, <2>3, <3>1, <3>2, HubAssumption
           DEF HubInv, HubTypeOK, Identify, upsert_from_heartbeat, HubAssumption
    <2>4. ASSUME NEW c \in Conns, IdentifyReject(c) \/ IdentifyTimeout(c) \/ Dispatch(c) PROVE A
      BY <2>4 DEF IdentifyReject, IdentifyTimeout, LeaveIdentify, Dispatch
    <2>5. ASSUME NEW c \in Conns, HandlerExit(c) PROVE A
      BY <1>1, <2>1, <2>5 DEF HubInv, HubTypeOK, HandlerExit, remove, ConnOrNone
    <2>6. CASE RelayRestart
      BY <2>1, <2>6 DEF RelayRestart, ConnOrNone
    <2>7. QED
      BY <1>1, <2>2, <2>3, <2>4, <2>5, <2>6
         DEF HubNext, RelayStep, HandlerClosed, HandlerError
  <1>2. HubInv /\ [HubNext]_hubVars => [A]_hubVars
    BY <1>1
  <1>3. QED
    BY HubInvariant, <1>2, PTL DEF HubSpec, OnlyOwnHandlerUnregisters
=============================================================================
