------------------------- MODULE RelaySystem_proofs -------------------------
(***************************************************************************)
(* Agents, relay and CLI runs together, for any number of them, of         *)
(* connections, of frames in transit and of failures.  The relay's         *)
(* invariant (HubInv) says that a frame only goes to its addressee; here   *)
(* it is shown that every frame and every task still names the run that    *)
(* asked, and that a program works on a connection nobody else has.        *)
(***************************************************************************)
EXTENDS RelaySystem, RelayHub_proofs

\* A request, or a question to the relay, carries the id of the run that made it, and
\* a response that of the run it goes to: the id of a run is the id of its request.
Sound(m) ==
    /\ m.type \in Requests \cup {"query"} => m.from \in Clis /\ m.id = m.from
    /\ m.type \in Responses => m.to \in Clis /\ m.id = m.to

SoundUp == \A c \in Conns : \A i \in DOMAIN up[c] : Sound(up[c][i])

\* The relay answers a question on the connection it came from.
SoundDown ==
    \A c \in Conns : \A i \in DOMAIN down[c] :
        /\ Sound(down[c][i])
        /\ down[c][i].type = "query_response" => down[c][i].id = owner[c]

SoundFrames == SoundUp /\ SoundDown

\* The tasks of the agents came from runs, as their requests did.
RunTasks == {t \in Tasks : t.from \in Clis /\ t.id = t.from}

SoundTasks ==
    /\ \A n \in Agents : pending[n] \in RunTasks \cup {NoTask} /\ queue[n] \in Seq(RunTasks)
    /\ \A e \in running : e.task \in RunTasks

\* A program has the connections it opened itself, and they are open.
OwnConnections ==
    /\ \A n \in Agents : cur[n] # None => owner[cur[n]] = n /\ sock[cur[n]] = "open"
    /\ \A k \in Clis : conn[k] # None => owner[conn[k]] = k /\ sock[conn[k]] = "open"
    /\ \A k \in Clis : cli[k] \in {"identified", "waiting"} => conn[k] # None

\* Tasks are waited for, queued and listened to only inside an event loop.
LoopHasTasks ==
    /\ \A n \in Agents : cur[n] = None => pending[n] = NoTask /\ queue[n] = <<>>
    /\ ResultsStayInTheirLoop

SystemInv ==
    /\ HubInv /\ AgentTypeOK /\ CliTypeOK
    /\ SoundFrames /\ SoundTasks /\ OwnConnections /\ LoopHasTasks /\ AnswerIsOwn

-----------------------------------------------------------------------------
(* What the steps of a connection do to the frames. *)

\* A node connects.
LEMMA ConnectSound ==
    ASSUME HubInv, SoundFrames, NEW n \in Nodes, NEW c \in Conns, ClientConnect(n, c)
    PROVE  SoundFrames'
  <1>1. Sound(Heartbeat(n))
    BY DEF Sound, Heartbeat, Requests, Responses
  <1>2. /\ up \in [Conns -> Seq(Msgs)] /\ down \in [Conns -> Seq(Msgs)]
        /\ owner \in [Conns -> NodeOrNone]
    BY DEF HubInv, HubTypeOK
  <1>3. /\ up'[c] = <<Heartbeat(n)>> /\ down'[c] = <<>>
        /\ \A d \in Conns \ {c} : up'[d] = up[d] /\ down'[d] = down[d] /\ owner'[d] = owner[d]
    BY <1>2 DEF ClientConnect
  <1>4. SoundUp'
    BY <1>1, <1>3 DEF SoundFrames, SoundUp
  <1>5. SoundDown'
    BY <1>3 DEF SoundFrames, SoundDown
  <1>6. QED
    BY <1>4, <1>5 DEF SoundFrames

\* A node sends a sound frame.
LEMMA SendSound ==
    ASSUME HubInv, SoundFrames, NEW c \in Conns, NEW m \in Msgs, Sound(m), ClientSend(c, m)
    PROVE  SoundFrames'
  <1>1. up \in [Conns -> Seq(Msgs)]
    BY DEF HubInv, HubTypeOK
  <1>2. \A d \in Conns : \A i \in DOMAIN up'[d] :
            up'[d][i] = m \/ (i \in DOMAIN up[d] /\ up'[d][i] = up[d][i])
    BY <1>1, PushFrame DEF ClientSend
  <1>3. SoundUp'
    BY <1>2 DEF SoundFrames, SoundUp
  <1>4. SoundDown'
    BY DEF SoundFrames, SoundDown, ClientSend
  <1>5. QED
    BY <1>3, <1>4 DEF SoundFrames

\* A node reads a frame, and may answer with a sound one.
LEMMA RecvSound ==
    ASSUME HubInv, SoundFrames, NEW c \in Conns, NEW reply, ClientRecv(c, reply),
           reply = <<>> \/ \E m \in Msgs : Sound(m) /\ reply = <<m>>
    PROVE  /\ SoundFrames'
           /\ Head(down[c]) \in Msgs /\ Sound(Head(down[c]))
           /\ Head(down[c]).type \in Requests \cup Responses => Head(down[c]).to = owner[c]
           /\ Head(down[c]).type = "query_response" => Head(down[c]).id = owner[c]
  <1>1. up \in [Conns -> Seq(Msgs)] /\ down \in [Conns -> Seq(Msgs)] /\ down[c] # <<>>
    BY DEF HubInv, HubTypeOK, ClientRecv
  <1>2. /\ Head(down[c]) \in Msgs /\ Head(down[c]) = down[c][1] /\ 1 \in DOMAIN down[c]
        /\ \A i \in DOMAIN Tail(down[c]) : i + 1 \in DOMAIN down[c] /\ Tail(down[c])[i] = down[c][i + 1]
    BY <1>1, PopFrame
  <1>3. \A d \in Conns : \A i \in DOMAIN up'[d] :
            Sound(up'[d][i]) \/ (i \in DOMAIN up[d] /\ up'[d][i] = up[d][i])
    <2>1. CASE reply = <<>>
      BY <1>1, <2>1 DEF ClientRecv
    <2>2. ASSUME NEW m \in Msgs, Sound(m), reply = <<m>>
          PROVE  \A d \in Conns : \A i \in DOMAIN up'[d] :
                    Sound(up'[d][i]) \/ (i \in DOMAIN up[d] /\ up'[d][i] = up[d][i])
      <3>1. up[c] \in Seq(Msgs)
        BY <1>1
      <3>2. \A i \in DOMAIN (up[c] \o reply) :
               (up[c] \o reply)[i] = m \/ (i \in DOMAIN up[c] /\ (up[c] \o reply)[i] = up[c][i])
        BY <2>2, <3>1
      <3>3. \A d \in Conns : up'[d] = up[d] \/ (d = c /\ up'[d] = up[c] \o reply)
        BY <1>1 DEF ClientRecv
      <3>4. QED
        BY <2>2, <3>2, <3>3
    <2>3. QED
      BY <2>1, <2>2
  <1>4. SoundUp'
    BY <1>3 DEF SoundFrames, SoundUp
  <1>5. /\ down'[c] = Tail(down[c]) /\ owner' = owner
        /\ \A d \in Conns \ {c} : down'[d] = down[d]
    BY <1>1 DEF ClientRecv
  <1>6. SoundDown'
    <2> SUFFICES ASSUME NEW d \in Conns, NEW i \in DOMAIN down'[d]
                 PROVE  /\ Sound(down'[d][i])
                        /\ down'[d][i].type = "query_response" => down'[d][i].id = owner[d]
      BY <1>5 DEF SoundDown
    <2>1. \E j \in DOMAIN down[d] : down'[d][i] = down[d][j]
      <3>1. CASE d # c
        BY <1>5, <3>1
      <3>2. CASE d = c
        <4>1. i \in DOMAIN Tail(down[c]) /\ down'[d][i] = Tail(down[c])[i]
          BY <1>5, <3>2
        <4>2. i + 1 \in DOMAIN down[c] /\ Tail(down[c])[i] = down[c][i + 1]
          BY <1>2, <4>1
        <4>3. QED
          BY <3>2, <4>1, <4>2
      <3>3. QED
        BY <3>1, <3>2
    <2>2. QED
      BY <2>1 DEF SoundFrames, SoundDown
  <1>7. QED
    BY <1>2, <1>4, <1>6 DEF SoundFrames, SoundDown, HubInv, DeliveredToAddressee

\* A step that only takes frames away.
LEMMA FewerSound ==
    ASSUME SoundFrames, UNCHANGED owner,
           \A c \in Conns : \A i \in DOMAIN up'[c] : \E j \in DOMAIN up[c] : up'[c][i] = up[c][j],
           \A c \in Conns : \A i \in DOMAIN down'[c] : \E j \in DOMAIN down[c] : down'[c][i] = down[c][j]
    PROVE  SoundFrames'
  BY DEF SoundFrames, SoundUp, SoundDown

\* dispatch() answers a question with its id, on its own connection, and forwards
\* requests and responses as they are.
LEMMA DispatchSound ==
    ASSUME HubInv, SoundFrames, NEW c \in Conns, Dispatch(c)
    PROVE  SoundFrames'
  <1> DEFINE h == Head(up[c])
             t == Route(c, h)[1]
             m == Route(c, h)[2]
  <1>1. /\ up \in [Conns -> Seq(Msgs)] /\ down \in [Conns -> Seq(Msgs)] /\ up[c] # <<>>
        /\ owner' = owner
    BY DEF HubInv, HubTypeOK, Dispatch
  <1>2. /\ h \in Msgs /\ h = up[c][1] /\ 1 \in DOMAIN up[c]
        /\ \A i \in DOMAIN Tail(up[c]) : i + 1 \in DOMAIN up[c] /\ Tail(up[c])[i] = up[c][i + 1]
    BY <1>1, PopFrame
  <1>3. Sound(h) /\ h.from = owner[c]
    BY <1>2 DEF SoundFrames, SoundUp, HubInv, HonestFrames
  <1>4. /\ Sound(HeartbeatAck) /\ HeartbeatAck.type # "query_response"
        /\ Sound(Error) /\ Error.type # "query_response"
        /\ Sound(QueryResponse(h)) /\ QueryResponse(h).id = h.id
    BY DEF Sound, HeartbeatAck, Error, QueryResponse, Requests, Responses
  <1>5. t \in ConnOrNone /\ m \in Msgs
    BY <1>2, RouteTarget, HubAssumption
  <1>6. \/ m = Error \/ m = HeartbeatAck
        \/ m = h /\ (h.type # "query_response" \/ t = None)
        \/ h.type = "query" /\ t = c /\ m = QueryResponse(h)
    BY DEF Route, Requests, Responses
  <1>7. Sound(m) /\ (t # None /\ m.type = "query_response" => m.id = owner[t])
    <2>1. h.type = "query" => h.id = owner[c]
      BY <1>3 DEF Sound
    <2> HIDE DEF h, t, m
    <2>2. QED
      BY <1>3, <1>4, <1>6, <2>1
  <1>8. \/ down' = down
        \/ t \in Conns /\ down' = [down EXCEPT ![t] = Append(@, m)]
    BY <1>5 DEF Dispatch, send_msg, ConnOrNone
  <1>9. t \in Conns => t # None
    BY HubAssumption
  <1>10. up' = [up EXCEPT ![c] = Tail(up[c])]
    BY DEF Dispatch
  <1> HIDE DEF h, t, m
  <1>11. SoundUp'
    BY <1>1, <1>2, <1>10 DEF SoundFrames, SoundUp
  <1>12. SoundDown'
    <2>1. CASE down' = down
      BY <1>1, <2>1 DEF SoundFrames, SoundDown
    <2>2. CASE t \in Conns /\ down' = [down EXCEPT ![t] = Append(@, m)]
      <3>1. \A i \in DOMAIN Append(down[t], m) :
               \/ Append(down[t], m)[i] = m
               \/ i \in DOMAIN down[t] /\ Append(down[t], m)[i] = down[t][i]
        BY <1>1, <1>5, <2>2, PushFrame
      <3>2. down'[t] = Append(down[t], m) /\ \A d \in Conns \ {t} : down'[d] = down[d]
        BY <1>1, <2>2
      <3>3. QED
        BY <1>1, <1>7, <1>9, <2>2, <3>1, <3>2 DEF SoundFrames, SoundDown
    <2>3. QED
      BY <1>8, <2>1, <2>2
  <1>13. QED
    BY <1>11, <1>12 DEF SoundFrames

\* The other steps of a handler, the end of a path, of a socket and of the relay only
\* take frames away.
LEMMA LossSound ==
    ASSUME HubInv, SoundFrames, NEW c \in Conns,
           Identify(c) \/ LeaveIdentify(c) \/ HandlerExit(c) \/ Cut(c) \/ ClientClose(c) \/ RelayRestart
    PROVE  SoundFrames'
  <1>1. /\ up \in [Conns -> Seq(Msgs)] /\ down \in [Conns -> Seq(Msgs)]
    BY DEF HubInv, HubTypeOK
  <1>2. \A s \in Seq(Msgs) : \A r \in Prefixes(s) : \A i \in DOMAIN r : i \in DOMAIN s /\ r[i] = s[i]
    BY PrefixFrames
  <1>3. CASE Identify(c)
    <2>1. \A i \in DOMAIN Tail(up[c]) : i + 1 \in DOMAIN up[c] /\ Tail(up[c])[i] = up[c][i + 1]
      BY <1>1, <1>3, PopFrame DEF Identify
    <2>2. \A d \in Conns : up'[d] = up[d] \/ (d = c /\ up'[d] = Tail(up[c]))
      BY <1>1, <1>3 DEF Identify
    <2>3. owner' = owner /\ down' = down
      BY <1>3 DEF Identify
    <2>4. QED
      BY <2>1, <2>2, <2>3, FewerSound
  <1>4. CASE LeaveIdentify(c)
    <2>1. owner' = owner /\ down' = down /\ \A d \in Conns : up'[d] = up[d] \/ up'[d] = <<>>
      BY <1>1, <1>4 DEF LeaveIdentify
    <2>2. QED
      BY <2>1, FewerSound
  <1>5. CASE HandlerExit(c)
    <2>1. PICK rest \in Prefixes(down[c]) : down' = [down EXCEPT ![c] = rest]
      BY <1>5 DEF HandlerExit
    <2>2. \A i \in DOMAIN rest : i \in DOMAIN down[c] /\ rest[i] = down[c][i]
      BY <1>1, <1>2
    <2>3. /\ owner' = owner /\ \A d \in Conns : up'[d] = up[d] \/ up'[d] = <<>>
          /\ \A d \in Conns : down'[d] = down[d] \/ (d = c /\ down'[d] = rest)
      BY <1>1, <1>5, <2>1 DEF HandlerExit
    <2>4. QED
      BY <2>2, <2>3, FewerSound
  <1>6. CASE Cut(c)
    <2>1. /\ owner' = owner /\ \A d \in Conns : up'[d] = up[d] \/ up'[d] = <<>>
          /\ \A d \in Conns : down'[d] = down[d] \/ down'[d] = <<>>
      BY <1>1, <1>6 DEF Cut
    <2>2. QED
      BY <2>1, FewerSound
  <1>7. CASE ClientClose(c)
    <2>1. PICK rest \in Prefixes(up[c]) : up' = [up EXCEPT ![c] = rest]
      BY <1>7 DEF ClientClose
    <2>2. \A i \in DOMAIN rest : i \in DOMAIN up[c] /\ rest[i] = up[c][i]
      BY <1>1, <1>2
    <2>3. /\ owner' = owner /\ \A d \in Conns : down'[d] = down[d] \/ down'[d] = <<>>
          /\ \A d \in Conns : up'[d] = up[d] \/ (d = c /\ up'[d] = rest)
      BY <1>1, <1>7, <2>1 DEF ClientClose
    <2>4. QED
      BY <2>2, <2>3, FewerSound
  <1>8. CASE RelayRestart
    <2>1. owner' = owner /\ down' = down /\ \A d \in Conns : up'[d] = <<>>
      BY <1>8 DEF RelayRestart
    <2>2. QED
      BY <2>1, FewerSound
  <1>9. QED
    BY <1>3, <1>4, <1>5, <1>6, <1>7, <1>8
-----------------------------------------------------------------------------
(* The relay's steps: the programs keep their connections. *)

LEMMA RelayKeeps ==
    ASSUME HubInv, SoundFrames, NEW c \in Conns,
           RelayRuns(c) \/ IdentifyTimeout(c) \/ Cut(c) \/ RelayRestart
    PROVE  HubInv' /\ SoundFrames' /\ UNCHANGED <<owner, sock>>
  <1>1. CASE Identify(c)
    BY <1>1, IdentifyInv, LossSound, HubAssumption DEF Identify
  <1>2. CASE LeaveIdentify(c)
    BY <1>2, LeaveIdentifyInv, LossSound, HubAssumption DEF LeaveIdentify
  <1>3. CASE Dispatch(c)
    BY <1>3, DispatchInv, DispatchSound, HubAssumption DEF Dispatch
  <1>4. CASE handler[c] = "dispatch" /\ HandlerExit(c)
    BY <1>4, ExitInv, LossSound, HubAssumption DEF HandlerExit
  <1>5. CASE Cut(c)
    BY <1>5, CutInv, LossSound, HubAssumption DEF Cut
  <1>6. CASE RelayRestart
    BY <1>6, RestartInv, LossSound, HubAssumption DEF RelayRestart
  <1>7. QED
    BY <1>1, <1>2, <1>3, <1>4, <1>5, <1>6
       DEF RelayRuns, IdentifyReject, IdentifyTimeout, HandlerClosed, HandlerError

\* Steps that leave the programs and the hub's view of them alone.
LEMMA ProgramsKept ==
    ASSUME SystemInv, HubInv', SoundFrames', UNCHANGED <<agentVars, cliVars, owner, sock>>,
           failures' \in 0..MaxFailures
    PROVE  SystemInv'
  <1>1. AgentTypeOK' /\ SoundTasks' /\ LoopHasTasks'
    BY DEF SystemInv, agentVars, AgentTypeOK, SoundTasks, LoopHasTasks, ResultsStayInTheirLoop
  <1>2. CliTypeOK' /\ AnswerIsOwn'
    BY DEF SystemInv, cliVars, CliTypeOK, AnswerIsOwn
  <1>3. OwnConnections'
    BY DEF SystemInv, agentVars, cliVars, OwnConnections
  <1>4. QED
    BY <1>1, <1>2, <1>3 DEF SystemInv

LEMMA RelayStepInv ==
    ASSUME SystemInv, NEW c \in Conns,
           RelayRuns(c) \/ IdentifyTimeout(c) \/ Cut(c) \/ RelayRestart,
           UNCHANGED <<agentVars, cliVars>>, failures' \in 0..MaxFailures
    PROVE  SystemInv'
  <1>1. HubInv' /\ SoundFrames' /\ UNCHANGED <<owner, sock>>
    BY RelayKeeps DEF SystemInv
  <1>2. QED
    BY <1>1, ProgramsKept

-----------------------------------------------------------------------------
(* The agents. *)

\* A new connection is nobody's yet.
LEMMA ConnectIsFresh ==
    ASSUME SystemInv, NEW m \in Nodes, NEW c \in Conns, ClientConnect(m, c)
    PROVE  /\ \A n \in Agents : cur[n] # c
           /\ \A k \in Clis : conn[k] # c
           /\ owner'[c] = m /\ sock'[c] = "open"
           /\ \A d \in Conns \ {c} : owner'[d] = owner[d] /\ sock'[d] = sock[d]
  <1>1. c # None
    BY HubAssumption
  <1>2. sock[c] = "closed"
    BY DEF ClientConnect, Free
  <1>3. owner \in [Conns -> NodeOrNone] /\ sock \in [Conns -> {"open", "closed"}]
    BY DEF SystemInv, HubInv, HubTypeOK
  <1>4. QED
    BY <1>1, <1>2, <1>3 DEF ClientConnect, SystemInv, OwnConnections

LEMMA AgentConnectInv ==
    ASSUME SystemInv, NEW n \in Agents, AgentConnect(n), UNCHANGED <<cliVars, failures>>
    PROVE  SystemInv'
  <1>1. PICK c \in Conns : ClientConnect(n, c) /\ cur' = [cur EXCEPT ![n] = c]
    BY DEF AgentConnect
  <1>2. n \in Nodes /\ c # None
    BY AgentAssumption, HubAssumption
  <1>3. HubInv' /\ SoundFrames'
    BY <1>1, <1>2, ConnectInv, ConnectSound, HubAssumption DEF SystemInv
  <1>4. /\ \A a \in Agents : cur[a] # c
        /\ \A k \in Clis : conn[k] # c
        /\ owner'[c] = n /\ sock'[c] = "open"
        /\ \A d \in Conns \ {c} : owner'[d] = owner[d] /\ sock'[d] = sock[d]
    BY <1>1, <1>2, ConnectIsFresh
  <1>5. cur \in [Agents -> ConnOrNone] /\ conn \in [Clis -> ConnOrNone]
    BY DEF SystemInv, AgentTypeOK, CliTypeOK
  <1>6. AgentTypeOK'
    <2>1. 0 \in (1 - Interval)..(AckLimit + Interval)
      BY AgentAssumption DEF AckLimit
    <2>2. age' \in [Agents -> (1 - Interval)..(AckLimit + Interval)]
      BY <2>1 DEF SystemInv, AgentTypeOK, AgentConnect
    <2>3. cur' \in [Agents -> ConnOrNone]
      BY <1>1, <1>5 DEF ConnOrNone
    <2>4. QED
      BY <2>2, <2>3 DEF SystemInv, AgentTypeOK, AgentConnect
  <1>7. OwnConnections'
    <2>1. \A a \in Agents : cur'[a] # None => owner'[cur'[a]] = a /\ sock'[cur'[a]] = "open"
      BY <1>1, <1>4, <1>5 DEF SystemInv, OwnConnections, ConnOrNone
    <2>2. \A k \in Clis : conn[k] # None => owner'[conn[k]] = k /\ sock'[conn[k]] = "open"
      BY <1>4, <1>5 DEF SystemInv, OwnConnections, ConnOrNone
    <2>3. QED
      BY <2>1, <2>2 DEF SystemInv, OwnConnections, cliVars
  <1>8. LoopHasTasks'
    <2>1. \A a \in Agents : cur'[a] = None => cur[a] = None
      BY <1>1, <1>2, <1>5
    <2>2. \A e \in running : e.node \in Agents
      BY DEF SystemInv, AgentTypeOK, Executions
    <2>3. QED
      BY <2>1, <2>2 DEF SystemInv, LoopHasTasks, ResultsStayInTheirLoop, AgentConnect
  <1>9. SoundTasks' /\ CliTypeOK' /\ AnswerIsOwn'
    BY DEF SystemInv, SoundTasks, CliTypeOK, AnswerIsOwn, AgentConnect, cliVars
  <1>10. QED
    BY <1>3, <1>6, <1>7, <1>8, <1>9 DEF SystemInv

\* The end of an event loop, or of the agent: the executions that are left have
\* nobody listening.
LEMMA LoopEnds ==
    ASSUME SystemInv, NEW n \in Agents, cur[n] # None, ClientClose(cur[n]),
           cur' = [cur EXCEPT ![n] = None], pending' = [pending EXCEPT ![n] = NoTask],
           queue' = [queue EXCEPT ![n] = <<>>], UNCHANGED <<age, cliVars>>,
           failures' \in 0..MaxFailures,
           running' \subseteq Executions,
           \A e \in running' : \E d \in running : /\ e.node = d.node /\ e.task = d.task
                                                  /\ e.attached => d.attached /\ d.node # n
    PROVE  SystemInv'
  <1>1. cur \in [Agents -> ConnOrNone] /\ conn \in [Clis -> ConnOrNone] /\ cur[n] \in Conns
    BY DEF SystemInv, AgentTypeOK, CliTypeOK, ConnOrNone
  <1>2. HubInv' /\ SoundFrames'
    BY <1>1, CloseInv, LossSound, HubAssumption DEF SystemInv
  <1>3. owner' = owner /\ \A d \in Conns \ {cur[n]} : sock'[d] = sock[d]
    BY <1>1 DEF ClientClose, SystemInv, HubInv, HubTypeOK
  <1>4. owner[cur[n]] = n
    BY DEF SystemInv, OwnConnections
  <1>5. AgentTypeOK'
    <2>1. cur' \in [Agents -> ConnOrNone]
      BY <1>1 DEF ConnOrNone
    <2>2. pending' \in [Agents -> Tasks \cup {NoTask}] /\ queue' \in [Agents -> Seq(Tasks)]
      BY DEF SystemInv, AgentTypeOK
    <2>3. QED
      BY <2>1, <2>2 DEF SystemInv, AgentTypeOK
  <1>6. OwnConnections'
    <2>1. ASSUME NEW a \in Agents, cur'[a] # None
          PROVE  owner'[cur'[a]] = a /\ sock'[cur'[a]] = "open"
      <3>1. a # n /\ cur'[a] = cur[a] /\ cur[a] \in Conns
        BY <1>1, <2>1 DEF ConnOrNone
      <3>2. owner[cur[a]] = a /\ sock[cur[a]] = "open"
        BY <2>1, <3>1 DEF SystemInv, OwnConnections
      <3>3. QED
        BY <1>3, <1>4, <3>1, <3>2
    <2>2. ASSUME NEW k \in Clis, conn[k] # None
          PROVE  owner'[conn[k]] = k /\ sock'[conn[k]] = "open"
      <3>1. k # n
        BY CliAssumption
      <3>2. conn[k] \in Conns /\ owner[conn[k]] = k /\ sock[conn[k]] = "open"
        BY <1>1, <2>2 DEF SystemInv, OwnConnections, ConnOrNone
      <3>3. QED
        BY <1>3, <1>4, <3>1, <3>2
    <2>3. QED
      BY <2>1, <2>2 DEF SystemInv, OwnConnections, cliVars
  <1>7. SoundTasks'
    <2>1. \A a \in Agents : pending'[a] \in RunTasks \cup {NoTask} /\ queue'[a] \in Seq(RunTasks)
      BY DEF SystemInv, SoundTasks, AgentTypeOK
    <2>2. QED
      BY <2>1 DEF SystemInv, SoundTasks
  <1>8. LoopHasTasks'
    <2>1. \A a \in Agents : cur'[a] = None => pending'[a] = NoTask /\ queue'[a] = <<>>
      BY <1>1 DEF SystemInv, LoopHasTasks, AgentTypeOK
    <2>2. ASSUME NEW e \in running', e.attached PROVE cur'[e.node] # None
      <3>1. PICK d \in running : e.node = d.node /\ d.attached /\ d.node # n
        BY <2>2
      <3>2. d.node \in Agents /\ cur[d.node] # None
        BY <3>1 DEF SystemInv, AgentTypeOK, Executions, LoopHasTasks, ResultsStayInTheirLoop
      <3>3. QED
        BY <1>1, <3>1, <3>2
    <2>3. QED
      BY <2>1, <2>2 DEF LoopHasTasks, ResultsStayInTheirLoop
  <1>9. CliTypeOK' /\ AnswerIsOwn'
    BY DEF SystemInv, CliTypeOK, AnswerIsOwn, cliVars
  <1>10. QED
    BY <1>2, <1>5, <1>6, <1>7, <1>8, <1>9 DEF SystemInv

LEMMA LeaveInv ==
    ASSUME SystemInv, NEW n \in Agents, cur[n] # None, ClientClose(cur[n]), LeaveEventLoop(n),
           UNCHANGED cliVars, failures' \in 0..MaxFailures
    PROVE  SystemInv'
  <1>1. running \subseteq Executions
    BY DEF SystemInv, AgentTypeOK
  <1>2. \A d \in running :
           LET e == [d EXCEPT !.attached = (@ /\ d.node # n)]
           IN  /\ e \in Executions /\ e.node = d.node /\ e.task = d.task
               /\ e.attached => d.attached /\ d.node # n
    BY <1>1 DEF Executions
  <1>3. running' = {[e EXCEPT !.attached = (@ /\ e.node # n)] : e \in running}
    BY DEF LeaveEventLoop
  <1>4. /\ running' \subseteq Executions
        /\ \A e \in running' : \E d \in running : /\ e.node = d.node /\ e.task = d.task
                                                  /\ e.attached => d.attached /\ d.node # n
    <2> SUFFICES ASSUME NEW e \in running'
                 PROVE  /\ e \in Executions
                        /\ \E d \in running : /\ e.node = d.node /\ e.task = d.task
                                              /\ e.attached => d.attached /\ d.node # n
      OBVIOUS
    <2>1. PICK d \in running : e = [d EXCEPT !.attached = (@ /\ d.node # n)]
      BY <1>3
    <2>2. QED
      BY <1>2, <2>1
  <1>5. QED
    BY <1>4, LoopEnds DEF LeaveEventLoop

LEMMA CrashInv ==
    ASSUME SystemInv, NEW n \in Agents, AgentCrash(n), UNCHANGED cliVars, failures' \in 0..MaxFailures
    PROVE  SystemInv'
  <1>1. running \subseteq Executions
    BY DEF SystemInv, AgentTypeOK
  <1>2. /\ running' \subseteq Executions
        /\ \A e \in running' : \E d \in running : /\ e.node = d.node /\ e.task = d.task
                                                  /\ e.attached => d.attached /\ d.node # n
    BY <1>1 DEF AgentCrash
  <1>3. QED
    BY <1>2, LoopEnds DEF AgentCrash

\* Steps after which every program still has its connection, and tasks and results
\* belong where they did.
LEMMA AgentKept ==
    ASSUME SystemInv, HubInv', SoundFrames', UNCHANGED <<owner, sock, cur, cliVars>>,
           failures' \in 0..MaxFailures, AgentTypeOK', SoundTasks', LoopHasTasks'
    PROVE  SystemInv'
  <1>1. CliTypeOK' /\ AnswerIsOwn'
    BY DEF SystemInv, cliVars, CliTypeOK, AnswerIsOwn
  <1>2. OwnConnections'
    BY DEF SystemInv, cliVars, OwnConnections
  <1>3. QED
    BY <1>1, <1>2 DEF SystemInv

\* The connection of an event loop.
LEMMA Current ==
    ASSUME SystemInv, NEW n \in Agents, cur[n] # None
    PROVE  cur[n] \in Conns /\ owner[cur[n]] = n /\ n \in Nodes
  BY AgentAssumption DEF SystemInv, AgentTypeOK, ConnOrNone, OwnConnections

LEMMA TickInv ==
    ASSUME SystemInv, NEW n \in Agents, TickHeartbeat(n), UNCHANGED <<cliVars, failures>>
    PROVE  SystemInv'
  <1>1. cur[n] \in Conns /\ owner[cur[n]] = n /\ n \in Nodes
    BY Current DEF TickHeartbeat, AtSelect
  <1>2. ClientSend(cur[n], Heartbeat(n)) /\ Heartbeat(n) \in NodeMsgs(owner[cur[n]])
    BY <1>1 DEF TickHeartbeat, NodeMsgs
  <1>3. Heartbeat(n) \in Msgs
    BY <1>1, <1>2, NodeMsgsType, HubAssumption
  <1>4. Sound(Heartbeat(n))
    BY DEF Sound, Heartbeat, Requests, Responses
  <1>5. HubInv' /\ SoundFrames'
    BY <1>1, <1>2, <1>3, <1>4, SendInv, SendSound, HubAssumption DEF SystemInv
  <1>6. UNCHANGED <<owner, sock>>
    BY <1>2 DEF ClientSend
  <1>7. AgentTypeOK'
    <2>1. age[n] \in (1 - Interval)..(AckLimit + Interval) /\ ~(age[n] + Interval > AckLimit)
      BY DEF SystemInv, AgentTypeOK, TickHeartbeat, AckOverdue
    <2>2. Interval \in Nat \ {0} /\ AckLimit \in Nat
      BY AgentAssumption DEF AckLimit
    <2>3. age[n] + Interval \in (1 - Interval)..(AckLimit + Interval)
      BY <2>1, <2>2
    <2>4. age' \in [Agents -> (1 - Interval)..(AckLimit + Interval)]
      BY <2>3 DEF SystemInv, AgentTypeOK, TickHeartbeat
    <2>5. QED
      BY <2>4 DEF SystemInv, AgentTypeOK, TickHeartbeat
  <1>8. SoundTasks' /\ LoopHasTasks'
    BY DEF SystemInv, SoundTasks, LoopHasTasks, ResultsStayInTheirLoop, TickHeartbeat
  <1>9. failures' \in 0..MaxFailures
    BY DEF SystemInv, CliTypeOK
  <1>10. QED
    BY <1>5, <1>6, <1>7, <1>8, <1>9, AgentKept DEF TickHeartbeat

\* What an agent reads is sound, and reading it leaves the frames sound.
LEMMA AgentReads ==
    ASSUME SystemInv, NEW n \in Agents, cur[n] # None, ClientRecv(cur[n], <<>>)
    PROVE  /\ HubInv' /\ SoundFrames' /\ UNCHANGED <<owner, sock>>
           /\ Head(down[cur[n]]) \in Msgs /\ Sound(Head(down[cur[n]]))
  <1>1. cur[n] \in Conns
    BY Current
  <1>2. HubInv'
    BY <1>1, RecvInv, HubAssumption DEF SystemInv
  <1>3. SoundFrames' /\ Head(down[cur[n]]) \in Msgs /\ Sound(Head(down[cur[n]]))
    BY <1>1, RecvSound DEF SystemInv
  <1>4. QED
    BY <1>2, <1>3 DEF ClientRecv

LEMMA RecvAckInv ==
    ASSUME SystemInv, NEW n \in Agents, AgentRecvAck(n), UNCHANGED <<cliVars, failures>>
    PROVE  SystemInv'
  <1>1. cur[n] # None /\ ClientRecv(cur[n], <<>>)
    BY DEF AgentRecvAck, AtSelect
  <1>2. HubInv' /\ SoundFrames' /\ UNCHANGED <<owner, sock>>
    BY <1>1, AgentReads
  <1>3. AgentTypeOK'
    <2>1. PICK p \in 0..(Interval - 1) : age' = [age EXCEPT ![n] = -p]
      BY DEF AgentRecvAck
    <2>2. Interval \in Nat \ {0} /\ AckLimit \in Nat
      BY AgentAssumption DEF AckLimit
    <2>3. -p \in (1 - Interval)..(AckLimit + Interval)
      BY <2>1, <2>2
    <2>4. age' \in [Agents -> (1 - Interval)..(AckLimit + Interval)]
      BY <2>1, <2>3 DEF SystemInv, AgentTypeOK
    <2>5. QED
      BY <2>4 DEF SystemInv, AgentTypeOK, AgentRecvAck
  <1>4. SoundTasks' /\ LoopHasTasks'
    BY DEF SystemInv, SoundTasks, LoopHasTasks, ResultsStayInTheirLoop, AgentRecvAck
  <1>5. failures' \in 0..MaxFailures
    BY DEF SystemInv, CliTypeOK
  <1>6. QED
    BY <1>2, <1>3, <1>4, <1>5, AgentKept DEF AgentRecvAck

\* The answer to a pairing request goes to the run that asked.
LEMMA RecvPairInv ==
    ASSUME SystemInv, NEW n \in Agents, AgentRecvPair(n), UNCHANGED <<cliVars, failures>>
    PROVE  SystemInv'
  <1> DEFINE c == cur[n]
             m == Head(down[c])
             answer == [type |-> "pair_response", from |-> n, to |-> m.from, id |-> m.id]
  <1>1. c \in Conns /\ owner[c] = n /\ n \in Nodes /\ down[c] # <<>>
    BY Current DEF AgentRecvPair, AtSelect
  <1>2. m.type = "pair_request" /\ ClientRecv(c, <<answer>>)
    BY DEF AgentRecvPair
  <1>3. Sound(m)
    <2>1. down[c] \in Seq(Msgs)
      BY <1>1 DEF SystemInv, HubInv, HubTypeOK
    <2>2. m = down[c][1] /\ 1 \in DOMAIN down[c]
      BY <1>1, <2>1, PopFrame
    <2>3. QED
      BY <1>1, <2>2 DEF SystemInv, SoundFrames, SoundDown
  <1>4. m.from \in Clis /\ m.id = m.from
    BY <1>2, <1>3 DEF Sound, Requests
  <1> HIDE DEF m
  <1>5. answer \in NodeMsgs(owner[c])
    BY <1>1, <1>4, CliAssumption DEF NodeMsgs
  <1>6. answer \in Msgs
    BY <1>1, <1>5, NodeMsgsType, HubAssumption
  <1>7. Sound(answer)
    BY <1>4 DEF Sound, Requests, Responses
  <1> HIDE DEF c, answer
  <1>8. HubInv'
    BY <1>1, <1>2, <1>5, RecvInv, HubAssumption DEF SystemInv
  <1>9. SoundFrames'
    BY <1>1, <1>2, <1>6, <1>7, RecvSound DEF SystemInv
  <1>10. UNCHANGED <<owner, sock>>
    BY <1>2 DEF ClientRecv
  <1>11. failures' \in 0..MaxFailures /\ UNCHANGED <<agentVars, cliVars>>
    BY DEF SystemInv, CliTypeOK, AgentRecvPair
  <1>12. QED
    BY <1>8, <1>9, <1>10, <1>11, ProgramsKept

\* A task takes over the origin and the id of its request.
LEMMA RecvTaskInv ==
    ASSUME SystemInv, NEW n \in Agents, AgentRecvTask(n), UNCHANGED <<cliVars, failures>>
    PROVE  SystemInv'
  <1> DEFINE m == Head(down[cur[n]])
             t == IF m.id \in Handled THEN [id |-> m.id, from |-> m.from] ELSE NoTask
  <1>1. /\ cur[n] # None /\ ClientRecv(cur[n], <<>>) /\ m.type = "task_request"
        /\ pending' = [pending EXCEPT ![n] = t] /\ UNCHANGED <<cur, age, queue, running>>
    BY DEF AgentRecvTask, AtSelect
  <1>2. HubInv' /\ SoundFrames' /\ UNCHANGED <<owner, sock>> /\ Sound(m)
    BY <1>1, AgentReads
  <1>3. m.from \in Clis /\ m.id = m.from
    BY <1>1, <1>2 DEF Sound, Requests
  <1>4. t \in RunTasks \cup {NoTask}
    BY <1>3, CliAssumption DEF RunTasks, Tasks
  <1>5. RunTasks \subseteq Tasks
    BY DEF RunTasks
  <1> HIDE DEF m, t
  <1>6. AgentTypeOK'
    BY <1>1, <1>4, <1>5 DEF SystemInv, AgentTypeOK
  <1>7. SoundTasks'
    BY <1>1, <1>4 DEF SystemInv, SoundTasks, AgentTypeOK
  <1>8. LoopHasTasks'
    BY <1>1 DEF SystemInv, LoopHasTasks, ResultsStayInTheirLoop, AgentTypeOK
  <1>9. failures' \in 0..MaxFailures
    BY DEF SystemInv, CliTypeOK
  <1>10. QED
    BY <1>1, <1>2, <1>6, <1>7, <1>8, <1>9, AgentKept

LEMMA RecvOtherInv ==
    ASSUME SystemInv, NEW n \in Agents, AgentRecvOther(n), UNCHANGED <<cliVars, failures>>
    PROVE  SystemInv'
  <1>1. cur[n] # None /\ ClientRecv(cur[n], <<>>) /\ UNCHANGED agentVars
    BY DEF AgentRecvOther, AtSelect
  <1>2. HubInv' /\ SoundFrames' /\ UNCHANGED <<owner, sock>>
    BY <1>1, AgentReads
  <1>3. failures' \in 0..MaxFailures
    BY DEF SystemInv, CliTypeOK
  <1>4. QED
    BY <1>1, <1>2, <1>3, ProgramsKept

\* The hub does not notice a step inside an agent or a run.
LEMMA HubKept ==
    ASSUME HubInv, SoundFrames, UNCHANGED hubVars
    PROVE  HubInv' /\ SoundFrames' /\ UNCHANGED <<owner, sock>>
  <1>1. HubInv'
    BY HubNextInv, HubAssumption
  <1>2. QED
    BY <1>1 DEF hubVars, SoundFrames, SoundUp, SoundDown

LEMMA SubmitInv ==
    ASSUME SystemInv, NEW n \in Agents, submit(n), UNCHANGED <<cliVars, failures>>
    PROVE  SystemInv'
  <1>1. HubInv' /\ SoundFrames' /\ UNCHANGED <<owner, sock>>
    BY HubKept DEF SystemInv, submit
  <1>2. /\ pending[n] \in RunTasks /\ pending[n] \in Tasks /\ cur[n] # None
        /\ queue[n] \in Seq(RunTasks) /\ queue[n] \in Seq(Tasks)
    BY DEF submit, SystemInv, SoundTasks, LoopHasTasks, RunTasks, AgentTypeOK
  <1>3. /\ queue' = [queue EXCEPT ![n] = Append(queue[n], pending[n])]
        /\ pending' = [pending EXCEPT ![n] = NoTask] /\ UNCHANGED <<cur, age, running>>
    BY DEF submit
  <1>4. Append(queue[n], pending[n]) \in Seq(RunTasks) /\ Append(queue[n], pending[n]) \in Seq(Tasks)
    BY <1>2
  <1>5. AgentTypeOK'
    BY <1>3, <1>4 DEF SystemInv, AgentTypeOK
  <1>6. SoundTasks'
    BY <1>3, <1>4 DEF SystemInv, SoundTasks, AgentTypeOK
  <1>7. LoopHasTasks'
    BY <1>2, <1>3 DEF SystemInv, LoopHasTasks, ResultsStayInTheirLoop, AgentTypeOK
  <1>8. failures' \in 0..MaxFailures
    BY DEF SystemInv, CliTypeOK
  <1>9. QED
    BY <1>1, <1>3, <1>5, <1>6, <1>7, <1>8, AgentKept

LEMMA DispatchTaskInv ==
    ASSUME SystemInv, NEW n \in Agents, DispatchTask(n), UNCHANGED <<cliVars, failures>>
    PROVE  SystemInv'
  <1> DEFINE e == [node |-> n, task |-> Head(queue[n]), attached |-> TRUE]
  <1>1. HubInv' /\ SoundFrames' /\ UNCHANGED <<owner, sock>>
    BY HubKept DEF SystemInv, DispatchTask
  <1>2. /\ queue[n] # <<>> /\ queue[n] \in Seq(RunTasks) /\ queue[n] \in Seq(Tasks) /\ cur[n] # None
        /\ running' = running \cup {e} /\ queue' = [queue EXCEPT ![n] = Tail(queue[n])]
        /\ UNCHANGED <<cur, age, pending>>
    BY DEF DispatchTask, SystemInv, SoundTasks, LoopHasTasks, AgentTypeOK
  <1>3. /\ Head(queue[n]) \in RunTasks /\ Head(queue[n]) \in Tasks
        /\ Tail(queue[n]) \in Seq(RunTasks) /\ Tail(queue[n]) \in Seq(Tasks)
    BY <1>2, PopFrame
  <1>4. e \in Executions /\ e.task \in RunTasks /\ e.node = n
    BY <1>3 DEF Executions
  <1> HIDE DEF e
  <1>5. AgentTypeOK'
    BY <1>2, <1>3, <1>4 DEF SystemInv, AgentTypeOK
  <1>6. SoundTasks'
    BY <1>2, <1>3, <1>4 DEF SystemInv, SoundTasks, AgentTypeOK
  <1>7. LoopHasTasks'
    BY <1>2, <1>4 DEF SystemInv, LoopHasTasks, ResultsStayInTheirLoop, AgentTypeOK
  <1>8. failures' \in 0..MaxFailures
    BY DEF SystemInv, CliTypeOK
  <1>9. QED
    BY <1>1, <1>2, <1>5, <1>6, <1>7, <1>8, AgentKept

\* A result goes to the origin of its task, over the connection of the loop that
\* queued it.
LEMMA FinishInv ==
    ASSUME SystemInv, NEW d \in running, FinishTask(d), UNCHANGED <<cliVars, failures>>
    PROVE  SystemInv'
  <1>1. /\ d.node \in Agents /\ d.task \in RunTasks
        /\ running' = running \ {d} /\ UNCHANGED <<cur, age, pending, queue>>
    BY DEF FinishTask, SystemInv, AgentTypeOK, Executions, SoundTasks
  <1>2. HubInv' /\ SoundFrames' /\ UNCHANGED <<owner, sock>>
    <2>1. CASE ~d.attached
      BY <2>1, HubKept DEF FinishTask, SystemInv
    <2>2. CASE d.attached
      <3>1. cur[d.node] # None
        BY <2>2 DEF SystemInv, LoopHasTasks, ResultsStayInTheirLoop
      <3>2. cur[d.node] \in Conns /\ owner[cur[d.node]] = d.node /\ d.node \in Nodes
        BY <1>1, <3>1, Current
      <3>3. ClientSend(cur[d.node], TaskResult(d))
        BY <2>2 DEF FinishTask
      <3>4. d.task.from \in Clis /\ d.task.id = d.task.from /\ d.task.from \in Nodes /\ d.task.id \in Ids
        BY <1>1, CliAssumption DEF RunTasks
      <3>5. TaskResult(d) \in NodeMsgs(d.node)
        BY <3>2, <3>4 DEF TaskResult, NodeMsgs, NodeOrNone
      <3>6. TaskResult(d) \in Msgs
        BY <3>2, <3>5, NodeMsgsType, HubAssumption
      <3>7. Sound(TaskResult(d))
        BY <3>4 DEF Sound, TaskResult, Requests, Responses
      <3>8. HubInv'
        BY <3>2, <3>3, <3>5, SendInv, HubAssumption DEF SystemInv
      <3>9. SoundFrames'
        BY <3>2, <3>3, <3>6, <3>7, SendSound DEF SystemInv
      <3>10. QED
        BY <3>3, <3>8, <3>9 DEF ClientSend
    <2>3. QED
      BY <2>1, <2>2
  <1>3. AgentTypeOK' /\ SoundTasks' /\ LoopHasTasks'
    BY <1>1 DEF SystemInv, AgentTypeOK, SoundTasks, LoopHasTasks, ResultsStayInTheirLoop
  <1>4. failures' \in 0..MaxFailures
    BY DEF SystemInv, CliTypeOK
  <1>5. QED
    BY <1>1, <1>2, <1>3, <1>4, AgentKept

LEMMA AgentStepInv ==
    ASSUME SystemInv, NEW n \in Agents, AgentStep(n), UNCHANGED <<cliVars, failures>>
    PROVE  SystemInv'
  <1>1. failures' \in 0..MaxFailures
    BY DEF SystemInv, CliTypeOK
  <1>2. CASE AgentClosed(n) \/ AgentReadError(n) \/ HalfOpenTimeout(n)
    <2>1. cur[n] # None /\ ClientClose(cur[n]) /\ LeaveEventLoop(n)
      BY <1>2 DEF AgentClosed, AgentReadError, HalfOpenTimeout, TickTimeout, AtSelect
    <2>2. QED
      BY <1>1, <2>1, LeaveInv
  <1>3. QED
    BY <1>2, AgentConnectInv, TickInv, RecvAckInv, RecvPairInv, RecvTaskInv, RecvOtherInv,
       SubmitInv, DispatchTaskInv, FinishInv DEF AgentStep

-----------------------------------------------------------------------------
(* The CLI runs. *)

\* Steps of runs: the agents do not notice.
LEMMA CliKept ==
    ASSUME SystemInv, HubInv', SoundFrames', UNCHANGED agentVars,
           CliTypeOK', OwnConnections', AnswerIsOwn'
    PROVE  SystemInv'
  <1>1. AgentTypeOK' /\ SoundTasks' /\ LoopHasTasks'
    BY DEF SystemInv, agentVars, AgentTypeOK, SoundTasks, LoopHasTasks, ResultsStayInTheirLoop
  <1>2. QED
    BY <1>1 DEF SystemInv

LEMMA CliConnectInv ==
    ASSUME SystemInv, NEW k \in Clis, connect_and_identify(k), UNCHANGED <<agentVars, failures>>
    PROVE  SystemInv'
  <1>1. PICK c \in Conns : ClientConnect(k, c) /\ conn' = [conn EXCEPT ![k] = c]
    BY DEF connect_and_identify, cli_id
  <1>2. k \in Nodes /\ c # None
    BY CliAssumption, HubAssumption
  <1>3. HubInv' /\ SoundFrames'
    BY <1>1, <1>2, ConnectInv, ConnectSound, HubAssumption DEF SystemInv
  <1>4. /\ \A a \in Agents : cur[a] # c
        /\ \A j \in Clis : conn[j] # c
        /\ owner'[c] = k /\ sock'[c] = "open"
        /\ \A d \in Conns \ {c} : owner'[d] = owner[d] /\ sock'[d] = sock[d]
    BY <1>1, <1>2, ConnectIsFresh
  <1>5. /\ cur \in [Agents -> ConnOrNone] /\ conn \in [Clis -> ConnOrNone] /\ cur' = cur
        /\ cli \in [Clis -> {"new", "identified", "waiting", "done", "failed"}]
        /\ cli' = [cli EXCEPT ![k] = "identified"] /\ UNCHANGED <<want, got, failures>>
    BY DEF SystemInv, AgentTypeOK, CliTypeOK, agentVars, connect_and_identify
  <1>6. CliTypeOK'
    <2>1. conn' \in [Clis -> ConnOrNone]
      BY <1>1, <1>5 DEF ConnOrNone
    <2>2. QED
      BY <1>5, <2>1 DEF SystemInv, CliTypeOK
  <1>7. OwnConnections'
    <2>1. \A a \in Agents : cur'[a] # None => owner'[cur'[a]] = a /\ sock'[cur'[a]] = "open"
      BY <1>4, <1>5 DEF SystemInv, OwnConnections, ConnOrNone
    <2>2. \A j \in Clis : conn'[j] # None => owner'[conn'[j]] = j /\ sock'[conn'[j]] = "open"
      BY <1>1, <1>4, <1>5 DEF SystemInv, OwnConnections, ConnOrNone
    <2>3. \A j \in Clis : cli'[j] \in {"identified", "waiting"} => conn'[j] # None
      BY <1>1, <1>2, <1>5 DEF SystemInv, OwnConnections
    <2>4. QED
      BY <2>1, <2>2, <2>3 DEF OwnConnections
  <1>8. AnswerIsOwn'
    BY <1>5 DEF SystemInv, AnswerIsOwn
  <1>9. QED
    BY <1>3, <1>6, <1>7, <1>8, CliKept

\* The connection of a run that is not over.
LEMMA CliCurrent ==
    ASSUME SystemInv, NEW k \in Clis, conn[k] # None \/ cli[k] \in {"identified", "waiting"}
    PROVE  conn[k] \in Conns /\ conn[k] # None /\ owner[conn[k]] = k /\ sock[conn[k]] = "open"
  BY DEF SystemInv, CliTypeOK, ConnOrNone, OwnConnections

LEMMA RequestInv ==
    ASSUME SystemInv, NEW k \in Clis, CliRequest(k), UNCHANGED <<agentVars, failures>>
    PROVE  SystemInv'
  <1>1. PICK type \in {"query", "pair_request", "task_request"}, n \in Agents :
           /\ ClientSend(conn[k], [type |-> type, from |-> k, id |-> k,
                                   to |-> IF type = "query" THEN None ELSE n])
           /\ want' = [want EXCEPT ![k] = AnswerTo(type)]
    BY DEF CliRequest, cli_id
  <1> DEFINE m == [type |-> type, from |-> k, id |-> k, to |-> IF type = "query" THEN None ELSE n]
  <1>2. conn[k] \in Conns /\ owner[conn[k]] = k /\ k \in Nodes /\ k \in Ids /\ n \in Nodes
    BY CliCurrent, CliAssumption, AgentAssumption DEF CliRequest
  <1>3. m \in NodeMsgs(owner[conn[k]])
    BY <1>2 DEF NodeMsgs, NodeOrNone
  <1>4. m \in Msgs
    BY <1>2, <1>3, NodeMsgsType, HubAssumption
  <1>5. Sound(m)
    BY DEF Sound, Requests, Responses
  <1> HIDE DEF m
  <1>6. ClientSend(conn[k], m)
    BY <1>1 DEF m
  <1>7. HubInv' /\ SoundFrames'
    BY <1>2, <1>3, <1>4, <1>5, <1>6, SendInv, SendSound, HubAssumption DEF SystemInv
  <1>8. UNCHANGED <<owner, sock>>
    BY <1>6 DEF ClientSend
  <1>9. AnswerTo(type) \in {"query_response", "pair_response", "task_result"}
    BY <1>1 DEF AnswerTo
  <1>10. cli[k] = "identified" /\ cli' = [cli EXCEPT ![k] = "waiting"] /\ UNCHANGED <<conn, got>>
    BY DEF CliRequest
  <1>11. CliTypeOK'
    BY <1>1, <1>9, <1>10 DEF SystemInv, CliTypeOK
  <1>12. OwnConnections'
    BY <1>8, <1>10 DEF SystemInv, CliTypeOK, OwnConnections, agentVars
  <1>13. AnswerIsOwn'
    BY <1>10 DEF SystemInv, CliTypeOK, AnswerIsOwn
  <1>14. QED
    BY <1>7, <1>11, <1>12, <1>13, CliKept

\* The frame a run takes for its answer has the id of its request.
LEMMA CliRecvInv ==
    ASSUME SystemInv, NEW k \in Clis, CliRecv(k), UNCHANGED <<agentVars, failures>>
    PROVE  SystemInv'
  <1> DEFINE m == Head(down[conn[k]])
             outcome == CliOutcome(want[k], m)
  <1>1. /\ cli[k] = "waiting" /\ ClientRecv(conn[k], <<>>) /\ UNCHANGED <<conn, want>>
        /\ cli' = [cli EXCEPT ![k] = outcome]
        /\ got' = [got EXCEPT ![k] = IF outcome = "done" THEN m.id ELSE None]
    BY DEF CliRecv
  <1>2. conn[k] \in Conns /\ conn[k] # None /\ owner[conn[k]] = k
    BY <1>1, CliCurrent
  <1>3. /\ SoundFrames' /\ m \in Msgs /\ Sound(m)
        /\ m.type \in Requests \cup Responses => m.to = k
        /\ m.type = "query_response" => m.id = k
    BY <1>1, <1>2, RecvSound DEF SystemInv
  <1>4. HubInv'
    BY <1>1, <1>2, RecvInv, HubAssumption DEF SystemInv
  <1>5. UNCHANGED <<owner, sock>>
    BY <1>1 DEF ClientRecv
  <1>6. outcome \in {"waiting", "done", "failed"} /\ (outcome = "done" => m.type = want[k])
    BY DEF CliOutcome
  <1>7. want[k] \in {"none", "query_response", "pair_response", "task_result"}
    BY DEF SystemInv, CliTypeOK
  <1>8. m.type \in MsgTypes /\ m.id \in Ids \cup {None}
    BY <1>3 DEF Msgs
  <1>9. outcome = "done" => m.id = k
    BY <1>3, <1>6, <1>7, <1>8 DEF Sound, Requests, Responses, MsgTypes, NodeTypes
  <1> HIDE DEF m, outcome
  <1>10. CliTypeOK'
    BY <1>1, <1>6, <1>8 DEF SystemInv, CliTypeOK
  <1>11. OwnConnections'
    BY <1>1, <1>2, <1>5 DEF SystemInv, CliTypeOK, OwnConnections, agentVars
  <1>12. AnswerIsOwn'
    BY <1>1, <1>6, <1>9 DEF SystemInv, CliTypeOK, AnswerIsOwn
  <1>13. QED
    BY <1>3, <1>4, <1>10, <1>11, <1>12, CliKept

\* A run that ends without an answer, or is interrupted.
LEMMA CliFailsInv ==
    ASSUME SystemInv, NEW k \in Clis, CliClosed(k) \/ CliQuit(k), UNCHANGED agentVars,
           failures' \in 0..MaxFailures
    PROVE  SystemInv'
  <1>1. cli' = [cli EXCEPT ![k] = "failed"] /\ UNCHANGED <<conn, want, got, hubVars>>
    BY DEF CliClosed, CliQuit
  <1>2. HubInv' /\ SoundFrames' /\ UNCHANGED <<owner, sock>>
    BY <1>1, HubKept DEF SystemInv
  <1>3. CliTypeOK'
    BY <1>1 DEF SystemInv, CliTypeOK
  <1>4. OwnConnections'
    BY <1>1, <1>2 DEF SystemInv, CliTypeOK, OwnConnections, agentVars
  <1>5. AnswerIsOwn'
    BY <1>1 DEF SystemInv, CliTypeOK, AnswerIsOwn
  <1>6. QED
    BY <1>2, <1>3, <1>4, <1>5, CliKept

LEMMA CliExitInv ==
    ASSUME SystemInv, NEW k \in Clis, CliExit(k), UNCHANGED <<agentVars, failures>>
    PROVE  SystemInv'
  <1>1. /\ cli[k] \in {"done", "failed"} /\ conn[k] # None /\ ClientClose(conn[k])
        /\ conn' = [conn EXCEPT ![k] = None] /\ UNCHANGED <<cli, want, got>>
    BY DEF CliExit
  <1>2. conn[k] \in Conns /\ owner[conn[k]] = k
    BY <1>1, CliCurrent
  <1>3. HubInv' /\ SoundFrames'
    BY <1>1, <1>2, CloseInv, LossSound, HubAssumption DEF SystemInv
  <1>4. owner' = owner /\ \A d \in Conns \ {conn[k]} : sock'[d] = sock[d]
    BY <1>1, <1>2 DEF ClientClose, SystemInv, HubInv, HubTypeOK
  <1>5. cur \in [Agents -> ConnOrNone] /\ conn \in [Clis -> ConnOrNone] /\ cur' = cur
    BY DEF SystemInv, AgentTypeOK, CliTypeOK, agentVars
  <1>6. CliTypeOK'
    <2>1. conn' \in [Clis -> ConnOrNone]
      BY <1>1, <1>5 DEF ConnOrNone
    <2>2. QED
      BY <1>1, <2>1 DEF SystemInv, CliTypeOK
  <1>7. OwnConnections'
    <2>1. ASSUME NEW a \in Agents, cur[a] # None
          PROVE  owner'[cur[a]] = a /\ sock'[cur[a]] = "open"
      <3>1. a # k
        BY CliAssumption
      <3>2. cur[a] \in Conns /\ owner[cur[a]] = a /\ sock[cur[a]] = "open"
        BY <1>5, <2>1 DEF SystemInv, OwnConnections, ConnOrNone
      <3>3. QED
        BY <1>2, <1>4, <3>1, <3>2
    <2>2. ASSUME NEW j \in Clis, conn'[j] # None
          PROVE  owner'[conn'[j]] = j /\ sock'[conn'[j]] = "open"
      <3>1. j # k /\ conn'[j] = conn[j] /\ conn[j] \in Conns
        BY <1>1, <1>5, <2>2 DEF ConnOrNone
      <3>2. owner[conn[j]] = j /\ sock[conn[j]] = "open"
        BY <2>2, <3>1 DEF SystemInv, OwnConnections
      <3>3. QED
        BY <1>2, <1>4, <3>1, <3>2
    <2>3. \A j \in Clis : cli'[j] \in {"identified", "waiting"} => conn'[j] # None
      BY <1>1, <1>5 DEF SystemInv, OwnConnections
    <2>4. QED
      BY <1>5, <2>1, <2>2, <2>3 DEF OwnConnections
  <1>8. AnswerIsOwn'
    BY <1>1 DEF SystemInv, AnswerIsOwn
  <1>9. QED
    BY <1>3, <1>6, <1>7, <1>8, CliKept

-----------------------------------------------------------------------------
LEMMA FailureInv ==
    ASSUME SystemInv, Failure
    PROVE  SystemInv'
  <1>1. failures' \in 0..MaxFailures
    BY CliAssumption DEF SystemInv, CliTypeOK, Failure
  <1>2. ASSUME NEW c \in Conns, Cut(c) \/ IdentifyTimeout(c), UNCHANGED <<agentVars, cliVars>>
        PROVE  SystemInv'
    BY <1>1, <1>2, RelayStepInv
  <1>3. ASSUME RelayRestart, UNCHANGED <<agentVars, cliVars>> PROVE SystemInv'
    <2>1. PICK c \in Conns : handler[c] # "done"
      BY <1>3 DEF RelayRestart
    <2>2. QED
      BY <1>1, <1>3, RelayStepInv
  <1>4. ASSUME NEW n \in Agents, AgentCrash(n), UNCHANGED cliVars PROVE SystemInv'
    BY <1>1, <1>4, CrashInv
  <1>5. ASSUME NEW n \in Agents, SlowAckTimeout(n), UNCHANGED cliVars PROVE SystemInv'
    BY <1>1, <1>5, LeaveInv DEF SlowAckTimeout, TickTimeout, AtSelect
  <1>6. ASSUME NEW k \in Clis, CliQuit(k), UNCHANGED agentVars PROVE SystemInv'
    BY <1>1, <1>6, CliFailsInv
  <1>7. QED
    BY <1>2, <1>3, <1>4, <1>5, <1>6 DEF Failure

LEMMA SystemNextInv ==
    ASSUME SystemInv, [SystemNext]_sysVars
    PROVE  SystemInv'
  <1>1. failures \in 0..MaxFailures
    BY DEF SystemInv, CliTypeOK
  <1>2. CASE UNCHANGED sysVars
    <2>1. HubInv' /\ SoundFrames' /\ UNCHANGED <<owner, sock>>
      BY <1>2, HubKept DEF SystemInv, sysVars
    <2>2. QED
      BY <1>1, <1>2, <2>1, ProgramsKept DEF sysVars
  <1>3. ASSUME NEW n \in Agents, AgentStep(n), UNCHANGED <<cliVars, failures>> PROVE SystemInv'
    BY <1>3, AgentStepInv
  <1>4. ASSUME NEW k \in Clis, CliStep(k), UNCHANGED <<agentVars, failures>> PROVE SystemInv'
    BY <1>1, <1>4, CliConnectInv, RequestInv, CliRecvInv, CliFailsInv, CliExitInv DEF CliStep
  <1>5. ASSUME NEW c \in Conns, RelayRuns(c), UNCHANGED <<agentVars, cliVars, failures>> PROVE SystemInv'
    BY <1>1, <1>5, RelayStepInv
  <1>6. CASE Failure
    BY <1>6, FailureInv
  <1>7. QED
    BY <1>2, <1>3, <1>4, <1>5, <1>6 DEF SystemNext

LEMMA SystemInitInv == ASSUME SystemInit PROVE SystemInv
  <1>1. HubInv
    BY HubInitInv, HubAssumption DEF SystemInit
  <1>2. AgentTypeOK
    <2>1. 0 \in (1 - Interval)..(AckLimit + Interval)
      BY AgentAssumption DEF AckLimit
    <2>2. QED
      BY <2>1 DEF SystemInit, AgentInit, AgentTypeOK, ConnOrNone
  <1>3. CliTypeOK
    BY CliAssumption DEF SystemInit, CliInit, CliTypeOK, ConnOrNone
  <1>4. SoundFrames
    BY DEF SystemInit, HubInit, SoundFrames, SoundUp, SoundDown
  <1>5. SoundTasks
    BY DEF SystemInit, AgentInit, SoundTasks
  <1>6. OwnConnections
    BY DEF SystemInit, AgentInit, CliInit, OwnConnections
  <1>7. LoopHasTasks
    BY DEF SystemInit, AgentInit, LoopHasTasks, ResultsStayInTheirLoop
  <1>8. AnswerIsOwn
    BY DEF SystemInit, CliInit, AnswerIsOwn
  <1>9. QED
    BY <1>1, <1>2, <1>3, <1>4, <1>5, <1>6, <1>7, <1>8 DEF SystemInv

\* The invariant of agents, relay and CLI runs together.
THEOREM SystemInvariant == SystemSpec => []SystemInv
  <1>1. SystemInit => SystemInv
    BY SystemInitInv
  <1>2. SystemInv /\ [SystemNext]_sysVars => SystemInv'
    BY SystemNextInv
  <1>3. QED
    BY <1>1, <1>2, PTL DEF SystemSpec

\* Relay, agents and runs keep their types: the age of an acknowledgement stays in the
\* range the heartbeat interval gives it, and failures are counted.
THEOREM SystemTypesHold == SystemSpec => []SystemTypeOK
  <1>1. SystemInv => SystemTypeOK
    BY DEF SystemInv, HubInv, SystemTypeOK
  <1>2. QED
    BY <1>1, SystemInvariant, PTL

\* A run that is done was answered with the result of its own request, although it
\* compares no ids: no answer to another run can reach it (execute() of the tasks).
THEOREM AnswerIsOwnHolds == SystemSpec => []AnswerIsOwn
  <1>1. SystemInv => AnswerIsOwn
    BY DEF SystemInv
  <1>2. QED
    BY <1>1, SystemInvariant, PTL

\* Whatever the order of disconnects, crashes and reconnects, a program works on an
\* open connection of its own (run_event_loop, connect_and_identify).
THEOREM ServesOwnConnectionHolds == SystemSpec => []ServesOwnConnection
  <1>1. SystemInv => ServesOwnConnection
    <2> SUFFICES ASSUME SystemInv PROVE ServesOwnConnection
      OBVIOUS
    <2>1. OwnConnections
      BY DEF SystemInv
    <2>2. ASSUME NEW n \in Agents, NEW k \in Clis, cur[n] # None PROVE cur[n] # conn[k]
      <3>1. n # k
        BY CliAssumption
      <3>2. QED
        BY <2>1, <2>2, <3>1 DEF OwnConnections
    <2>3. QED
      BY <2>1, <2>2 DEF OwnConnections, ServesOwnConnection
  <1>2. QED
    BY <1>1, SystemInvariant, PTL

\* A task whose result is still to be forwarded belongs to the event loop that runs
\* (the result forwarder of run_event_loop).
THEOREM ResultsStayInTheirLoopHold == SystemSpec => []ResultsStayInTheirLoop
  <1>1. SystemInv => ResultsStayInTheirLoop
    BY DEF SystemInv, LoopHasTasks
  <1>2. QED
    BY <1>1, SystemInvariant, PTL
=============================================================================
