---------------------------- MODULE AndroidAgent ----------------------------
(* The agent inside the phone's application: its entry points               *)
(* (agents/android/src/lib.rs startAgent, stopAgent, startServer), the      *)
(* identity it loads or generates, and the server mode of the runtime       *)
(* (crates/runtime/src/lib.rs serve, accept_and_run).  Every call of        *)
(* startAgent makes a run, a thread with a runtime of its own; what the     *)
(* event loop does with a connection is AgentRuntime's.                     *)
EXTENDS Naturals

CONSTANTS
    Runs,        \* calls of startAgent; a run that generates a key uses its own name
    NoRun,
    NoKey,
    MaxVisitors  \* bound on the connections that are accepted

ASSUME RunAssumption == NoRun \notin Runs /\ NoKey \notin Runs /\ MaxVisitors \in Nat

VARIABLES
    agentStage,      \* agentStage[a]: where the run is
    SHUTDOWN_TX, \* the run whose sender the static holds
    signal,      \* signal[a]: "open", "sent", or "closed" once its sender is dropped
    port,        \* the run that listens on node_port
    nodeKey,     \* nodeKey[a]: the identity the run works with
    storedKey,   \* the identity in the database
    nodeState,   \* what the application shows
    events,      \* the runs with a Connected event to dispatch
    fileServer,  \* the native file server listens
    visitors,    \* connections accepted so far
    failed,      \* history: the runs whose identity the database failed to read or to save
    rivals       \* history: pairs of runs that generated an identity at the same time

agentRunVars == <<agentStage, SHUTDOWN_TX, signal, port, nodeKey, storedKey, nodeState, events, fileServer,
                  visitors, failed, rivals>>

Serving == {"binding", "accepting", "handshake", "session", "paused"}
Beginning == {"starting", "loading", "saving"}
Stages == {"none", "ending", "ended"} \cup Beginning \cup Serving

AgentTypeOK ==
    /\ agentStage \in [Runs -> Stages]
    /\ SHUTDOWN_TX \in Runs \cup {NoRun}
    /\ signal \in [Runs -> {"open", "sent", "closed"}]
    /\ port \in Runs \cup {NoRun}
    /\ nodeKey \in [Runs -> Runs \cup {NoKey}]
    /\ storedKey \in Runs \cup {NoKey}
    /\ nodeState \in {"Offline", "Listening", "Connected"}
    /\ events \subseteq Runs
    /\ fileServer \in BOOLEAN
    /\ failed \subseteq Runs /\ rivals \subseteq SUBSET Runs
    /\ visitors \in 0..MaxVisitors

AgentInit ==
    /\ agentStage = [a \in Runs |-> "none"]
    /\ SHUTDOWN_TX = NoRun
    /\ signal = [a \in Runs |-> "open"]
    /\ port = NoRun
    /\ nodeKey = [a \in Runs |-> NoKey] /\ storedKey = NoKey
    /\ nodeState = "Offline"
    /\ events = {}
    /\ fileServer = FALSE
    /\ failed = {} /\ rivals = {}
    /\ visitors = 0

Goes(a, s) == agentStage' = [agentStage EXCEPT ![a] = s]

-----------------------------------------------------------------------------
(* The entry points *)

\* A mutant of startAgent: the running agent keeps a sender, so its channel stays open.
startAgentKeepsOld(a) ==
    /\ agentStage[a] = "none"
    /\ Goes(a, "starting")
    /\ SHUTDOWN_TX' = a
    /\ nodeState' = "Listening"
    /\ UNCHANGED <<signal, port, nodeKey, storedKey, events, fileServer, visitors, failed, rivals>>

\* startP2pNode() of the application and startAgent(): the new sender replaces the one
\* in the static, which closes the channel of the run before.
startAgent(a) ==
    /\ agentStage[a] = "none"
    /\ Goes(a, "starting")
    /\ signal' = [b \in Runs |-> IF b = SHUTDOWN_TX THEN "closed" ELSE signal[b]]
    /\ SHUTDOWN_TX' = a
    /\ nodeState' = "Listening"
    /\ UNCHANGED <<port, nodeKey, storedKey, events, fileServer, visitors, failed, rivals>>

\* The virtual machine refuses a reference or a string: startAgent() returns at once.
startAgentRefused(a) ==
    /\ agentStage[a] = "none"
    /\ Goes(a, "ended")
    /\ nodeState' = "Listening"
    /\ UNCHANGED <<SHUTDOWN_TX, signal, port, nodeKey, storedKey, events, fileServer, visitors, failed, rivals>>

\* stopNode() and onDestroy() of the application: the sender is taken, used and dropped.
stopAgent ==
    /\ signal' = [b \in Runs |-> IF b = SHUTDOWN_TX THEN "sent" ELSE signal[b]]
    /\ SHUTDOWN_TX' = NoRun
    /\ nodeState' = "Offline"
    /\ UNCHANGED <<agentStage, port, nodeKey, storedKey, events, fileServer, visitors, failed, rivals>>

\* startServer(): a second one cannot bind the port and returns.
startServer ==
    /\ fileServer' \in {fileServer, TRUE}
    /\ UNCHANGED <<agentStage, SHUTDOWN_TX, signal, port, nodeKey, storedKey, nodeState, events, visitors, failed, rivals>>

\* The process ends and begins again with its statics empty and the database as it is.
ProcessDies ==
    /\ agentStage' = [a \in Runs |-> IF agentStage[a] = "none" THEN "none" ELSE "ended"]
    /\ SHUTDOWN_TX' = NoRun /\ port' = NoRun
    /\ events' = {} /\ fileServer' = FALSE
    /\ nodeState' = "Offline"
    /\ UNCHANGED <<signal, nodeKey, storedKey, visitors, failed, rivals>>

-----------------------------------------------------------------------------
(* A run *)

\* The runtime and the database are there, or the thread ends.
OpenDatabase(a) ==
    /\ agentStage[a] = "starting"
    /\ Goes(a, "loading") \/ Goes(a, "ended")
    /\ UNCHANGED <<SHUTDOWN_TX, signal, port, nodeKey, storedKey, nodeState, events, fileServer, visitors, failed, rivals>>

\* A mutant of LoadKey: a key is generated although one is stored.
LoadKeyAlwaysNew(a) ==
    /\ agentStage[a] = "loading"
    /\ Goes(a, "saving")
    /\ UNCHANGED <<SHUTDOWN_TX, signal, port, nodeKey, storedKey, nodeState, events, fileServer, visitors, failed, rivals>>

\* load_or_generate_identity(): a key that cannot be read is generated anew, like none.
LoadKey(a) ==
    /\ agentStage[a] = "loading"
    /\ \/ /\ storedKey # NoKey
          /\ nodeKey' = [nodeKey EXCEPT ![a] = storedKey]
          /\ Goes(a, "binding")
          /\ UNCHANGED <<failed, rivals>>
       \/ /\ Goes(a, "saving")
          /\ UNCHANGED nodeKey
          /\ failed' = IF storedKey # NoKey THEN failed \cup {a} ELSE failed
          /\ rivals' = rivals \cup {{a, b} : b \in {b \in Runs : agentStage[b] = "saving"}}
    /\ UNCHANGED <<SHUTDOWN_TX, signal, port, storedKey, nodeState, events, fileServer, visitors>>

\* A key that cannot be saved is used all the same.
SaveKey(a) ==
    /\ agentStage[a] = "saving"
    /\ Goes(a, "binding")
    /\ nodeKey' = [nodeKey EXCEPT ![a] = a]
    /\ \/ storedKey' = a /\ UNCHANGED failed
       \/ UNCHANGED storedKey /\ failed' = failed \cup {a}
    /\ UNCHANGED <<SHUTDOWN_TX, signal, port, nodeState, events, fileServer, visitors, rivals>>

\* serve(): the listener, while no other run holds the port, or its error ends the run.
Bind(a) ==
    /\ agentStage[a] = "binding"
    /\ \/ port = NoRun /\ port' = a /\ Goes(a, "accepting")
       \/ Goes(a, "ending") /\ UNCHANGED port
    /\ UNCHANGED <<SHUTDOWN_TX, signal, nodeKey, storedKey, nodeState, events, fileServer, visitors, failed, rivals>>

AcceptVisitor(a) ==
    /\ agentStage[a] = "accepting" /\ visitors < MaxVisitors
    /\ visitors' = visitors + 1
    /\ Goes(a, "handshake") \/ Goes(a, "paused")
    /\ UNCHANGED <<SHUTDOWN_TX, signal, port, nodeKey, storedKey, nodeState, events, fileServer, failed, rivals>>

\* The second after an accept() that failed, and the end of a connection's event loop.
AcceptAgain(a) ==
    /\ agentStage[a] \in {"paused", "session"}
    /\ Goes(a, "accepting")
    /\ UNCHANGED <<SHUTDOWN_TX, signal, port, nodeKey, storedKey, nodeState, events, fileServer, visitors, failed, rivals>>

\* accept_and_run() announces the connection and runs the event loop.
accept_and_run(a) ==
    /\ agentStage[a] = "handshake"
    /\ Goes(a, "session")
    /\ events' = events \cup {a}
    /\ UNCHANGED <<SHUTDOWN_TX, signal, port, nodeKey, storedKey, nodeState, fileServer, visitors, failed, rivals>>

\* A handshake that fails leaves serve() with `?`, and the listener with it.
HandshakeFails(a) ==
    /\ agentStage[a] = "handshake"
    /\ Goes(a, "ending")
    /\ port' = NoRun
    /\ UNCHANGED <<SHUTDOWN_TX, signal, nodeKey, storedKey, nodeState, events, fileServer, visitors, failed, rivals>>

\* select!: the signal, or a channel without a sender, ends serve() wherever it waits.
ShutdownReceived(a) ==
    /\ agentStage[a] \in Serving /\ signal[a] # "open"
    /\ Goes(a, "ending")
    /\ port' = IF port = a THEN NoRun ELSE port
    /\ UNCHANGED <<SHUTDOWN_TX, signal, nodeKey, storedKey, nodeState, events, fileServer, visitors, failed, rivals>>

\* The dispatcher calls the application until its runtime is dropped.
DispatchEvent(a) ==
    /\ a \in events
    /\ events' = events \ {a}
    /\ nodeState' = "Connected"
    /\ UNCHANGED <<agentStage, SHUTDOWN_TX, signal, port, nodeKey, storedKey, fileServer, visitors, failed, rivals>>

DropRuntime(a) ==
    /\ agentStage[a] = "ending"
    /\ Goes(a, "ended")
    /\ events' = events \ {a}
    /\ UNCHANGED <<SHUTDOWN_TX, signal, port, nodeKey, storedKey, nodeState, fileServer, visitors, failed, rivals>>

AgentNext ==
    \/ stopAgent \/ startServer \/ ProcessDies
    \/ \E a \in Runs :
          \/ startAgent(a) \/ startAgentRefused(a)
          \/ OpenDatabase(a) \/ LoadKey(a) \/ SaveKey(a)
          \/ Bind(a) \/ AcceptVisitor(a) \/ AcceptAgain(a) \/ accept_and_run(a) \/ HandshakeFails(a)
          \/ ShutdownReceived(a) \/ DispatchEvent(a) \/ DropRuntime(a)

AgentSpec == AgentInit /\ [][AgentNext]_agentRunVars

-----------------------------------------------------------------------------
(* Properties *)

Alive(a) == agentStage[a] \in Beginning \cup Serving

\* However often the application starts and stops it, every run is the one stopAgent()
\* would stop or has been told to end, and whoever holds the port is such a run
\* (SHUTDOWN_TX, shutdown_rx).
AgentsAreStoppable ==
    /\ \A a \in Runs : Alive(a) => SHUTDOWN_TX = a \/ signal[a] # "open"
    /\ port # NoRun => Alive(port)

\* The phone keeps its identity over restarts and crashes: runs that work with different
\* ones, which generated them themselves or got them from the runs that did, have a reason in
\* those very runs. The database failed one of them, or both looked for an identity before
\* either had saved one (load_or_generate_identity). Other runs, whatever else fails, share
\* theirs. README.md says of the Node ID that "it never changes": these are the exceptions.
IdentityIsKept ==
    \A a, b \in Runs :
        nodeKey[a] # NoKey /\ nodeKey[b] # NoKey /\ nodeKey[a] # nodeKey[b] =>
            \/ nodeKey[a] \in failed \/ nodeKey[b] \in failed
            \/ {nodeKey[a], nodeKey[b]} \in rivals
=============================================================================
