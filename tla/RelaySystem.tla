---------------------------- MODULE RelaySystem ----------------------------
(***************************************************************************)
(* Agents, the relay and command line clients together.  A CLI run (cli/   *)
(* src/net.rs and the request tasks of ping.rs, terminal.rs, file.rs,      *)
(* clipboard.rs, notify.rs, pair.rs and search.rs) connects with a node id *)
(* of its own, sends one request and reads until an answer of the kind it  *)
(* waits for, an error or the end of the connection; it has no timeout.    *)
(***************************************************************************)
EXTENDS AgentRuntime

CONSTANTS
    Clis,           \* CLI runs; each is also the id of the one request it makes
    MaxFailures     \* bound on the failures of one behaviour

ASSUME CliAssumption ==
    /\ Clis \subseteq Nodes /\ Clis \subseteq Ids
    /\ Clis \cap Agents = {}
    /\ MaxFailures \in Nat

VARIABLES
    cli,        \* cli[k]: "new", "identified", "waiting", "done" or "failed"
    conn,       \* conn[k]: the connection of run k, None before and after it
    want,       \* want[k]: the type of the answer run k waits for
    got,        \* got[k]: the id of the request that the answer taken belongs to
    failures    \* failures so far

cliVars == <<cli, conn, want, got>>
sysVars == <<hubVars, agentVars, cliVars, failures>>

AnswerTo(type) ==
    CASE type = "query"        -> "query_response"
      [] type = "pair_request" -> "pair_response"
      [] type = "task_request" -> "task_result"

CliTypeOK ==
    /\ cli \in [Clis -> {"new", "identified", "waiting", "done", "failed"}]
    /\ conn \in [Clis -> ConnOrNone]
    /\ want \in [Clis -> {"none", "query_response", "pair_response", "task_result"}]
    /\ got \in [Clis -> Ids \cup {None}]
    /\ failures \in 0..MaxFailures

\* The types of relay, agents and CLI runs.
SystemTypeOK == HubTypeOK /\ AgentTypeOK /\ CliTypeOK

CliInit ==
    /\ cli = [k \in Clis |-> "new"]
    /\ conn = [k \in Clis |-> None]
    /\ want = [k \in Clis |-> "none"]
    /\ got = [k \in Clis |-> None]
    /\ failures = 0

-----------------------------------------------------------------------------
\* A mutant of cli_id: every run of the CLI uses one persistent identity.
cli_id_persistent(k) == CHOOSE n \in Clis : TRUE

\* connect_and_identify() draws a new node id for every run.
cli_id(k) == k

connect_and_identify(k) ==
    /\ cli[k] = "new"
    /\ \E c \in Conns : ClientConnect(cli_id(k), c) /\ conn' = [conn EXCEPT ![k] = c]
    /\ cli' = [cli EXCEPT ![k] = "identified"]
    /\ UNCHANGED <<want, got>>

\* execute() of the client task sends its request ...
CliRequest(k) ==
    /\ cli[k] = "identified"
    /\ \E type \in {"query", "pair_request", "task_request"}, n \in Agents :
          /\ ClientSend(conn[k], [type |-> type, from |-> cli_id(k), id |-> k,
                                  to |-> IF type = "query" THEN None ELSE n])
          /\ want' = [want EXCEPT ![k] = AnswerTo(type)]
    /\ cli' = [cli EXCEPT ![k] = "waiting"]
    /\ UNCHANGED <<conn, got>>

\* ... and reads frames: the first of the wanted type is the answer, whatever its
\* id; an error ends the run too, except for a search, which skips it.
CliOutcome(wanted, m) ==
    CASE m.type = wanted -> "done"
      [] m.type = "error" /\ wanted \in {"pair_response", "task_result"} -> "failed"
      [] OTHER -> "waiting"

CliRecv(k) ==
    /\ cli[k] = "waiting"
    /\ ClientRecv(conn[k], <<>>)
    /\ LET m == Head(down[conn[k]])
           outcome == CliOutcome(want[k], m)
       IN  /\ cli' = [cli EXCEPT ![k] = outcome]
           /\ got' = [got EXCEPT ![k] = IF outcome = "done" THEN m.id ELSE None]
    /\ UNCHANGED <<conn, want>>

\* recv() yields None or an error: "Connection closed".
CliClosed(k) ==
    /\ cli[k] \in {"identified", "waiting"}
    /\ \/ handler[conn[k]] = "done" /\ link[conn[k]] = "up" /\ down[conn[k]] = <<>>
       \/ link[conn[k]] = "cut"
    /\ cli' = [cli EXCEPT ![k] = "failed"]
    /\ UNCHANGED <<conn, want, got, hubVars>>

\* The process ends and its socket with it.
CliExit(k) ==
    /\ cli[k] \in {"done", "failed"} /\ conn[k] # None
    /\ ClientClose(conn[k])
    /\ conn' = [conn EXCEPT ![k] = None]
    /\ UNCHANGED <<cli, want, got>>

\* The user interrupts a run that is waiting.
CliQuit(k) ==
    /\ cli[k] = "waiting"
    /\ cli' = [cli EXCEPT ![k] = "failed"]
    /\ UNCHANGED <<conn, want, got, hubVars>>

CliStep(k) ==
    \/ connect_and_identify(k)
    \/ CliRequest(k)
    \/ CliRecv(k)
    \/ CliClosed(k)
    \/ CliExit(k)

-----------------------------------------------------------------------------
\* What may go wrong around the programs, MaxFailures times.
Failure ==
    /\ failures < MaxFailures
    /\ failures' = failures + 1
    /\ \/ \E c \in Conns : Cut(c) /\ UNCHANGED <<agentVars, cliVars>>
       \/ \E c \in Conns : IdentifyTimeout(c) /\ UNCHANGED <<agentVars, cliVars>>
       \/ RelayRestart /\ UNCHANGED <<agentVars, cliVars>>
       \/ \E n \in Agents : AgentCrash(n) /\ UNCHANGED cliVars
       \/ \E n \in Agents : SlowAckTimeout(n) /\ UNCHANGED cliVars
       \/ \E k \in Clis : CliQuit(k) /\ UNCHANGED agentVars

RelayRuns(c) ==
    \/ Identify(c)
    \/ IdentifyReject(c)
    \/ Dispatch(c)
    \/ HandlerClosed(c)
    \/ HandlerError(c)

SystemInit == HubInit /\ AgentInit /\ CliInit

SystemNext ==
    \/ \E n \in Agents : AgentStep(n) /\ UNCHANGED <<cliVars, failures>>
    \/ \E k \in Clis : CliStep(k) /\ UNCHANGED <<agentVars, failures>>
    \/ \E c \in Conns : RelayRuns(c) /\ UNCHANGED <<agentVars, cliVars, failures>>
    \/ Failure

\* The tokio tasks run, timers fire and TCP delivers what it accepted or reports
\* the close.  Nothing is assumed of failures, nor that either kernel ever notices
\* a cut path (AgentReadError, HandlerError).
HandlerFairness(c) ==
    /\ WF_sysVars(Identify(c) /\ UNCHANGED <<agentVars, cliVars, failures>>)
    /\ WF_sysVars((IdentifyReject(c) \/ HandlerClosed(c)) /\ UNCHANGED <<agentVars, cliVars, failures>>)
    /\ WF_sysVars(Dispatch(c) /\ UNCHANGED <<agentVars, cliVars, failures>>)

AgentFairness(n) ==
    /\ WF_sysVars(AgentConnect(n) /\ UNCHANGED <<cliVars, failures>>)
    /\ WF_sysVars((HalfOpenTimeout(n) \/ TickHeartbeat(n)) /\ UNCHANGED <<cliVars, failures>>)
    /\ WF_sysVars(AgentClosed(n) /\ UNCHANGED <<cliVars, failures>>)
    /\ WF_sysVars(/\ AgentRecvAck(n) \/ AgentRecvPair(n) \/ AgentRecvTask(n) \/ AgentRecvOther(n)
                  /\ UNCHANGED <<cliVars, failures>>)
    /\ WF_sysVars((submit(n) \/ DispatchTask(n)) /\ UNCHANGED <<cliVars, failures>>)
    /\ WF_sysVars(/\ \E e \in running : e.node = n /\ FinishTask(e)
                  /\ UNCHANGED <<cliVars, failures>>)

Fairness ==
    /\ \A c \in Conns : HandlerFairness(c)
    /\ \A n \in Agents : AgentFairness(n)
    /\ \A k \in Clis : WF_sysVars(CliStep(k) /\ UNCHANGED <<agentVars, failures>>)

SystemSpec == SystemInit /\ [][SystemNext]_sysVars
FairSystemSpec == SystemSpec /\ Fairness

-----------------------------------------------------------------------------
(* Properties *)

\* A CLI run takes the first result it sees for its own, without comparing task
\* ids: that is right because every run has its own node id, so no answer to an
\* earlier, abandoned run can reach it.
AnswerIsOwn == \A k \in Clis : cli[k] = "done" => got[k] = k

\* No two programs share a connection, and a program never works on a connection
\* it has closed: whatever the order of disconnects, crashes and reconnects, the
\* event loop of an agent serves an open connection that the agent itself opened.
ServesOwnConnection ==
    /\ \A n \in Agents : cur[n] # None => owner[cur[n]] = n /\ sock[cur[n]] = "open"
    /\ \A k \in Clis : conn[k] # None => sock[conn[k]] = "open"
    /\ \A n \in Agents, k \in Clis : cur[n] # None => cur[n] # conn[k]

\* A task that outlives its event loop never answers over a later connection: as
\* long as a result is still to be forwarded, the loop that queued the task runs.
ResultsStayInTheirLoop ==
    \A e \in running : e.attached => cur[e.node] # None

\* An agent on a half-open connection notices the missing acknowledgements and
\* works on a live connection again.
HalfOpenDetected ==
    \A n \in Agents :
        (cur[n] # None /\ link[cur[n]] = "cut") ~> (cur[n] # None /\ link[cur[n]] = "up")

\* A waiting CLI run is answered, with a result or an error, unless its task is of
\* a kind the target does not know or something failed.
Answered ==
    \A k \in Clis :
        (cli[k] = "waiting" /\ (want[k] = "task_result" => k \in Handled))
        ~> (cli[k] # "waiting" \/ failures > 0)
=============================================================================
