---------------------------- MODULE AgentRuntime ----------------------------
(***************************************************************************)
(* The agent of crates/runtime and crates/task_manager: the reconnection   *)
(* loop, the event loop of one relay connection with its heartbeat timer,  *)
(* and the task queue, dispatcher and result forwarder behind it.          *)
(*                                                                         *)
(* Time is counted in units of 5 s.  age[n] is the time since the last     *)
(* HeartbeatAck as it stood at the last tick of the heartbeat interval: an *)
(* ack that arrives p units after a tick resets it to -p, each tick adds   *)
(* Interval.                                                               *)
(***************************************************************************)
EXTENDS RelayHub, Integers

CONSTANTS
    Agents,     \* the nodes that run Agent::run
    Handled,    \* the requests whose kind has a factory at their target
    Interval,   \* HEARTBEAT_INTERVAL_SECS (15 s), in units of 5 s
    Slack,      \* the 5 s added to two intervals before the agent gives up
    QueueCap    \* capacity of the TaskQueue (100 in run_event_loop)

ASSUME AgentAssumption ==
    /\ Agents \subseteq Nodes
    /\ Handled \subseteq Ids
    /\ Interval \in Nat \ {0} /\ Slack \in Nat /\ QueueCap \in Nat \ {0}

VARIABLES
    cur,        \* cur[n]: the connection run_event_loop is serving, or None
    age,        \* age[n]: see above
    pending,    \* pending[n]: the task submit() is waiting to enqueue, or None
    queue,      \* queue[n]: the TaskQueue
    running     \* spawned execute_task calls

agentVars == <<cur, age, pending, queue, running>>

Tasks == [id : Ids, from : Nodes]
NoTask == [id |-> None, from |-> None]

\* An executing task; attached says that the result channel of the event loop it
\* was queued in is still being forwarded.
Executions == [node : Agents, task : Tasks, attached : BOOLEAN]

AckLimit == 2 * Interval + Slack

AgentTypeOK ==
    /\ cur \in [Agents -> ConnOrNone]
    /\ age \in [Agents -> (1 - Interval)..(AckLimit + Interval)]
    /\ pending \in [Agents -> Tasks \cup {NoTask}]
    /\ queue \in [Agents -> Seq(Tasks)]
    /\ running \subseteq Executions

AgentInit ==
    /\ cur = [n \in Agents |-> None]
    /\ age = [n \in Agents |-> 0]
    /\ pending = [n \in Agents |-> NoTask]
    /\ queue = [n \in Agents |-> <<>>]
    /\ running = {}

-----------------------------------------------------------------------------
\* connect_and_run() succeeds: run_event_loop() starts with an empty queue, sends
\* the first heartbeat at once and takes the time as the first acknowledgement.
AgentConnect(n) ==
    /\ cur[n] = None
    /\ \E c \in Conns :
          ClientConnect(n, c) /\ cur' = [cur EXCEPT ![n] = c]
    /\ age' = [age EXCEPT ![n] = 0]
    /\ UNCHANGED <<pending, queue, running>>

\* A mutant of LeaveEventLoop: the result forwarder is not aborted.
LeaveEventLoop_forwarding(n) ==
    /\ cur' = [cur EXCEPT ![n] = None]
    /\ pending' = [pending EXCEPT ![n] = NoTask]
    /\ queue' = [queue EXCEPT ![n] = <<>>]
    /\ UNCHANGED <<age, running>>

\* A mutant of LeaveEventLoop: the agent stays on the connection it has left.
LeaveEventLoop_stays(n) ==
    /\ pending' = [pending EXCEPT ![n] = NoTask]
    /\ queue' = [queue EXCEPT ![n] = <<>>]
    /\ running' = {[e EXCEPT !.attached = (@ /\ e.node # n)] : e \in running}
    /\ UNCHANGED <<age, cur>>

\* The event loop ends: the write, dispatcher and result tasks are aborted, so
\* queued tasks vanish and tasks already spawned finish with nobody listening.
\* run() then sleeps 5 s and connects again.
LeaveEventLoop(n) ==
    /\ cur' = [cur EXCEPT ![n] = None]
    /\ pending' = [pending EXCEPT ![n] = NoTask]
    /\ queue' = [queue EXCEPT ![n] = <<>>]
    /\ running' = {[e EXCEPT !.attached = (@ /\ e.node # n)] : e \in running}
    /\ UNCHANGED age

\* The event loop is at its select!, not inside handle_message().
AtSelect(n) == cur[n] # None /\ pending[n] = NoTask

\* stream.next() yields None: the relay closed the connection.
AgentClosed(n) ==
    /\ AtSelect(n)
    /\ handler[cur[n]] = "done" /\ link[cur[n]] = "up" /\ down[cur[n]] = <<>>
    /\ ClientClose(cur[n])
    /\ LeaveEventLoop(n)

\* stream.next() yields an error: the kernel gave up on a cut path.
AgentReadError(n) ==
    /\ AtSelect(n)
    /\ link[cur[n]] = "cut"
    /\ ClientClose(cur[n])
    /\ LeaveEventLoop(n)

\* hb_interval.tick(): too long without an acknowledgement ends the event loop ...
AckOverdue(n) == age[n] + Interval > AckLimit

TickTimeout(n) ==
    /\ AtSelect(n)
    /\ AckOverdue(n)
    /\ ClientClose(cur[n])
    /\ LeaveEventLoop(n)

\* ... because the connection is half-open, or, a failure of the network, because
\* acknowledgements that are on their way take too long.
HalfOpenTimeout(n) == TickTimeout(n) /\ link[cur[n]] = "cut"
SlowAckTimeout(n)  == TickTimeout(n) /\ link[cur[n]] = "up"

\* A mutant of TickHeartbeat: sending a heartbeat counts as hearing from the relay.
TickHeartbeat_resets(n) ==
    /\ AtSelect(n)
    /\ ~AckOverdue(n)
    /\ Room(cur[n])
    /\ ClientSend(cur[n], Heartbeat(n))
    /\ age' = [age EXCEPT ![n] = 0]
    /\ UNCHANGED <<cur, pending, queue, running>>

\* ... otherwise another heartbeat is sent (Room only bounds the model).
TickHeartbeat(n) ==
    /\ AtSelect(n)
    /\ ~AckOverdue(n)
    /\ Room(cur[n])
    /\ ClientSend(cur[n], Heartbeat(n))
    /\ age' = [age EXCEPT ![n] = @ + Interval]
    /\ UNCHANGED <<cur, pending, queue, running>>

\* A HeartbeatAck arrives p units after the last tick.
AgentRecvAck(n) ==
    /\ AtSelect(n)
    /\ ClientRecv(cur[n], <<>>)
    /\ Head(down[cur[n]]).type = "heartbeat_ack"
    /\ \E p \in 0..(Interval - 1) : age' = [age EXCEPT ![n] = -p]
    /\ UNCHANGED <<cur, pending, queue, running>>

\* handle_message(PairRequest): accepted without asking.
AgentRecvPair(n) ==
    /\ AtSelect(n)
    /\ down[cur[n]] # <<>>
    /\ LET m == Head(down[cur[n]])
       IN  /\ m.type = "pair_request"
           /\ ClientRecv(cur[n], <<[type |-> "pair_response", from |-> n,
                                    to |-> m.from, id |-> m.id]>>)
    /\ UNCHANGED agentVars

\* handle_message(TaskRequest): a kind without a factory is only logged; any other
\* task is submitted, which waits while the queue is full.
AgentRecvTask(n) ==
    /\ AtSelect(n)
    /\ ClientRecv(cur[n], <<>>)
    /\ LET m == Head(down[cur[n]])
       IN  /\ m.type = "task_request"
           /\ pending' = [pending EXCEPT ![n] =
                            IF m.id \in Handled THEN [id |-> m.id, from |-> m.from]
                                                ELSE NoTask]
    /\ UNCHANGED <<cur, age, queue, running>>

\* handle_message() of everything else: logged, or ignored.
AgentRecvOther(n) ==
    /\ AtSelect(n)
    /\ ClientRecv(cur[n], <<>>)
    /\ Head(down[cur[n]]).type \in {"error", "query_response", "pair_response", "task_result"}
    /\ UNCHANGED agentVars

\* A mutant of submit: a task that finds the queue full is refused, and only logged.
submit_refuses(n) ==
    /\ pending[n] # NoTask
    /\ queue' = [queue EXCEPT ![n] = IF Len(@) < QueueCap THEN Append(@, pending[n]) ELSE @]
    /\ pending' = [pending EXCEPT ![n] = NoTask]
    /\ UNCHANGED <<cur, age, running, hubVars>>

\* TaskQueue::submit() completes once the channel has room.
submit(n) ==
    /\ pending[n] # NoTask
    /\ Len(queue[n]) < QueueCap
    /\ queue' = [queue EXCEPT ![n] = Append(@, pending[n])]
    /\ pending' = [pending EXCEPT ![n] = NoTask]
    /\ UNCHANGED <<cur, age, running, hubVars>>

\* TaskDispatcher::run() spawns one execution per queued task.
DispatchTask(n) ==
    /\ queue[n] # <<>>
    /\ running' = running \cup {[node |-> n, task |-> Head(queue[n]), attached |-> TRUE]}
    /\ queue' = [queue EXCEPT ![n] = Tail(@)]
    /\ UNCHANGED <<cur, age, pending, hubVars>>

\* A mutant of TaskResult: the result has lost the origin of its task.
TaskResult_lost(e) == [type |-> "task_result", from |-> e.node, to |-> None, id |-> e.task.id]

\* execute_task() finishes, in any order; the result forwarder sends the result,
\* Ok or Err alike, to the task's origin if its event loop is still there.
TaskResult(e) == [type |-> "task_result", from |-> e.node, to |-> e.task.from, id |-> e.task.id]

FinishTask(e) ==
    /\ e \in running
    /\ running' = running \ {e}
    /\ IF e.attached THEN ClientSend(cur[e.node], TaskResult(e)) ELSE UNCHANGED hubVars
    /\ UNCHANGED <<cur, age, pending, queue>>

\* The agent process dies: its socket closes, its tasks are gone.  It may be
\* started again at once, without the 5 s pause of run().
AgentCrash(n) ==
    /\ cur[n] # None
    /\ ClientClose(cur[n])
    /\ cur' = [cur EXCEPT ![n] = None]
    /\ pending' = [pending EXCEPT ![n] = NoTask]
    /\ queue' = [queue EXCEPT ![n] = <<>>]
    /\ running' = {e \in running : e.node # n}
    /\ UNCHANGED age

AgentStep(n) ==
    \/ AgentConnect(n)
    \/ AgentClosed(n)
    \/ AgentReadError(n)
    \/ HalfOpenTimeout(n)
    \/ TickHeartbeat(n)
    \/ AgentRecvAck(n)
    \/ AgentRecvPair(n)
    \/ AgentRecvTask(n)
    \/ AgentRecvOther(n)
    \/ submit(n)
    \/ DispatchTask(n)
    \/ \E e \in running : e.node = n /\ FinishTask(e)
=============================================================================
