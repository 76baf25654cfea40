----------------------------- MODULE MacBackend -----------------------------
(* How the Mac application starts and watches the relay and the dashboard   *)
(* (mac-app: ConnectionManager.swift, BackendService.swift,                 *)
(* HotspotDetector.swift, DevicePersistence.swift).  Every function runs on *)
(* the main actor from start to end; what interleaves are the closures it   *)
(* leaves for later (asyncAfter), the timers, the tasks they create, the    *)
(* termination handler, the network monitor and the user.                   *)
EXTENDS Naturals, FiniteSets

CONSTANTS
    maxRetries,    \* 3 in ConnectionManager
    Hosts,         \* relays a user may connect to
    NoHost,
    MaxProcesses,  \* bound on the processes launched
    MaxChecks,     \* bound on the closures of attemptRelayStart that wait
    MaxDue         \* bound on the other closures and tasks of one kind that wait

ASSUME MacAssumption ==
    /\ maxRetries \in Nat /\ MaxProcesses \in Nat /\ NoHost \notin Hosts
    /\ MaxChecks \in Nat /\ MaxDue \in Nat

VARIABLES
    connectionStatus, isConnecting, retryCount,
    retryTimer, healthCheckTimer, pollTimer,        \* TRUE: scheduled
    checkDue, dashboardDue, pollDue,                \* closures of asyncAfter
    retryDue, healthDue, exitDue,                   \* tasks of timers and of the handler
    relayRunning,
    relayProcess, dashboardProcess, bridgeProcess,  \* 0: nil
    launched,      \* processes 1..launched were started
    alive, dying,  \* running; told to terminate
    bridges,       \* those of connectToRelay
    dashboards,    \* those of startDashboard
    lost,          \* running processes whose variable a later one has taken
    monitoring, networkType, pathDue,
    hotspotHandler, \* setupHotspotAutoConnect has installed its handler
    knownRelays, lastRelay

timerVars == <<retryTimer, healthCheckTimer>>
dueVars == <<checkDue, retryDue, healthDue, exitDue>>
launchVars == <<launched, alive, bridges, dashboards, lost>>
relayVars == <<relayRunning, relayProcess, launchVars, dashboardDue>>
stateVars == <<connectionStatus, isConnecting, retryCount>>
pollVars == <<pollTimer, pollDue, dashboardProcess>>
networkVars == <<monitoring, networkType, pathDue, hotspotHandler>>
knownVars == <<knownRelays, lastRelay>>
macVars == <<stateVars, timerVars, dueVars, relayVars, pollVars, bridgeProcess, dying,
             networkVars, knownVars>>

Networks == {"wifi", "other"} \* NetworkType, as the handler tells it apart

MacInit ==
    /\ connectionStatus = "disconnected" /\ isConnecting = FALSE /\ retryCount = 0
    /\ retryTimer = FALSE /\ healthCheckTimer = FALSE /\ pollTimer = FALSE
    /\ checkDue = 0 /\ dashboardDue = 0 /\ pollDue = 0
    /\ retryDue = 0 /\ healthDue = 0 /\ exitDue = 0
    /\ relayRunning = FALSE
    /\ relayProcess = 0 /\ dashboardProcess = 0 /\ bridgeProcess = 0
    /\ launched = 0 /\ alive = {} /\ dying = {} /\ bridges = {} /\ dashboards = {} /\ lost = {}
    /\ monitoring = FALSE /\ networkType = "other" /\ pathDue = "none"
    /\ hotspotHandler = FALSE
    /\ knownRelays = {} /\ lastRelay = NoHost

(* Process.run: a new process runs.                                         *)
Run == launched < MaxProcesses /\ launched' = launched + 1 /\ alive' = alive \cup {launched + 1}

(* The variable that held process h is given another value.                 *)
Loses(h) == lost' = lost \cup ((alive \ dying) \cap {h})

(* BackendService.startRelay; the binary may be missing.                    *)
startRelayProcess ==
    \/ relayRunning /\ UNCHANGED relayVars
    \/ ~relayRunning /\ UNCHANGED relayVars
    \/ /\ ~relayRunning
       /\ Run /\ UNCHANGED <<bridges, dashboards, lost>>
       /\ relayProcess' = launched + 1
       /\ relayRunning' = TRUE
       /\ dashboardDue < MaxDue /\ dashboardDue' = dashboardDue + 1

(* attemptRelayStart looks at relayRunning half a second later.             *)
attemptRelayStart ==
    /\ startRelayProcess
    /\ checkDue < MaxChecks /\ checkDue' = checkDue + 1

(* ConnectionManager.startRelay, from a button, the window or a handler.    *)
startRelay ==
    /\ connectionStatus' = "connecting" /\ isConnecting' = TRUE /\ retryCount' = 0
    /\ attemptRelayStart

UserStarts ==
    /\ startRelay
    /\ UNCHANGED <<timerVars, retryDue, healthDue, exitDue, pollVars, bridgeProcess, dying,
                   networkVars, knownVars>>

(* The task of ContentView starts the relay without the manager.            *)
ViewStarts ==
    /\ ~relayRunning /\ startRelayProcess
    /\ UNCHANGED <<stateVars, timerVars, dueVars, pollVars, bridgeProcess, dying, networkVars, knownVars>>

startHealthCheck == healthCheckTimer' = TRUE

(* Mutant of handleRetry: the last failure leaves the indicator on.         *)
handleRetryKeepsConnecting ==
    /\ retryCount' = retryCount + 1
    /\ UNCHANGED isConnecting
    /\ \/ retryCount < maxRetries /\ connectionStatus' = "connecting" /\ retryTimer' = TRUE
       \/ retryCount >= maxRetries /\ connectionStatus' = "failed" /\ UNCHANGED retryTimer

(* handleRetry: another attempt after a while, at most maxRetries times.    *)
handleRetry ==
    /\ retryCount' = retryCount + 1
    /\ \/ /\ retryCount < maxRetries
          /\ connectionStatus' = "connecting" /\ retryTimer' = TRUE /\ UNCHANGED isConnecting
       \/ /\ retryCount >= maxRetries
          /\ connectionStatus' = "failed" /\ isConnecting' = FALSE /\ UNCHANGED retryTimer

(* The closure of attemptRelayStart.                                        *)
CheckRelay ==
    /\ checkDue > 0 /\ checkDue' = checkDue - 1
    /\ \/ /\ relayRunning
          /\ connectionStatus' = "connected" /\ isConnecting' = FALSE /\ retryCount' = 0
          /\ startHealthCheck /\ UNCHANGED retryTimer
       \/ ~relayRunning /\ handleRetry /\ UNCHANGED healthCheckTimer
    /\ UNCHANGED <<retryDue, healthDue, exitDue, relayVars, pollVars, bridgeProcess, dying,
                   networkVars, knownVars>>

(* A timer fires: it leaves a task for the main actor.                      *)
RetryTimerFires ==
    /\ retryTimer /\ retryDue < MaxDue
    /\ retryTimer' = FALSE /\ retryDue' = retryDue + 1
    /\ UNCHANGED <<stateVars, healthCheckTimer, checkDue, healthDue, exitDue, relayVars, pollVars,
                   bridgeProcess, dying, networkVars, knownVars>>

HealthTimerFires ==
    /\ healthCheckTimer /\ healthDue < MaxDue
    /\ healthDue' = healthDue + 1
    /\ UNCHANGED <<stateVars, timerVars, checkDue, retryDue, exitDue, relayVars, pollVars,
                   bridgeProcess, dying, networkVars, knownVars>>

Retry ==
    /\ retryDue > 0 /\ retryDue' = retryDue - 1
    /\ attemptRelayStart
    /\ UNCHANGED <<stateVars, timerVars, healthDue, exitDue, pollVars, bridgeProcess, dying,
                   networkVars, knownVars>>

HealthCheck ==
    /\ healthDue > 0 /\ healthDue' = healthDue - 1
    /\ \/ relayRunning /\ UNCHANGED <<stateVars, relayVars, checkDue>>
       \/ ~relayRunning /\ startRelay
    /\ UNCHANGED <<timerVars, retryDue, exitDue, pollVars, bridgeProcess, dying, networkVars, knownVars>>

(* BackendService.startDashboard, a second after the relay; then polling.   *)
startDashboard ==
    /\ dashboardDue > 0 /\ dashboardDue' = dashboardDue - 1
    /\ \/ UNCHANGED <<launchVars, pollVars>>
       \/ /\ Run /\ dashboards' = dashboards \cup {launched + 1} /\ UNCHANGED bridges
          /\ Loses(dashboardProcess) /\ dashboardProcess' = launched + 1
          /\ pollDue < MaxDue /\ pollDue' = pollDue + 1 /\ UNCHANGED pollTimer
    /\ UNCHANGED <<stateVars, timerVars, dueVars, relayRunning, relayProcess, bridgeProcess, dying,
                   networkVars, knownVars>>

startPolling ==
    /\ pollDue > 0 /\ pollDue' = pollDue - 1
    /\ pollTimer' = TRUE
    /\ UNCHANGED <<stateVars, timerVars, dueVars, relayVars, dashboardProcess, bridgeProcess, dying,
                   networkVars, knownVars>>

(* Mutant of stopBackend: the relay is forgotten, not terminated.           *)
stopBackendKeepsRelay ==
    /\ pollTimer' = FALSE
    /\ dying' = dying \cup (alive \cap {dashboardProcess, bridgeProcess})
    /\ dashboardProcess' = 0 /\ relayProcess' = 0 /\ relayRunning' = FALSE

(* stopBackend; dying also takes the manager's own process (see stop).      *)
stopBackend ==
    /\ pollTimer' = FALSE
    /\ dying' = dying \cup (alive \cap {dashboardProcess, relayProcess, bridgeProcess})
    /\ dashboardProcess' = 0 /\ relayProcess' = 0 /\ relayRunning' = FALSE

(* ConnectionManager.stop: the timers end; the closures that wait and the   *)
(* tasks of timers that have fired do not.                                  *)
stopConnection ==
    /\ retryTimer' = FALSE /\ healthCheckTimer' = FALSE
    /\ bridgeProcess' = 0
    /\ connectionStatus' = "disconnected" /\ isConnecting' = FALSE /\ retryCount' = 0
    /\ stopBackend

UserStops ==
    /\ stopConnection
    /\ UNCHANGED <<dueVars, launchVars, dashboardDue, pollDue, networkVars, knownVars>>

(* DevicePersistence: the relay is known and is the last one.               *)
addRelay(host) == knownRelays' = knownRelays \cup {host} /\ lastRelay' = host

(* connectToRelay runs a relay process towards a host the user chose.       *)
(* It is remembered before the process is launched, and the variable of an  *)
(* earlier one is overwritten whether or not the launch succeeds.           *)
connectToRelay(host) ==
    /\ addRelay(host)
    /\ isConnecting' = FALSE /\ UNCHANGED retryCount
    /\ Loses(bridgeProcess)
    /\ \/ /\ Run /\ bridges' = bridges \cup {launched + 1} /\ UNCHANGED dashboards
          /\ bridgeProcess' = launched + 1
          /\ relayRunning' = TRUE /\ connectionStatus' = "connected"
          /\ startHealthCheck
       \/ /\ connectionStatus' = "failed" /\ bridgeProcess' = 0
          /\ UNCHANGED <<launched, alive, bridges, dashboards, relayRunning, healthCheckTimer>>
    /\ UNCHANGED <<retryTimer, dueVars, relayProcess, dashboardDue, pollVars, dying, networkVars>>

(* A process ends, told to or not.  Only connectToRelay's has a handler.    *)
ProcessEnds(p) ==
    /\ p \in alive /\ alive' = alive \ {p} /\ dying' = dying \ {p} /\ lost' = lost \ {p}
    /\ exitDue' = IF p \in bridges THEN exitDue + 1 ELSE exitDue
    /\ UNCHANGED <<stateVars, timerVars, checkDue, retryDue, healthDue, relayRunning, relayProcess,
                   launched, bridges, dashboards, dashboardDue, pollVars, bridgeProcess,
                   networkVars, knownVars>>

terminationHandler ==
    /\ exitDue > 0 /\ exitDue' = exitDue - 1
    /\ \/ connectionStatus = "connected" /\ startRelay
       \/ connectionStatus # "connected" /\ UNCHANGED <<stateVars, relayVars, checkDue>>
    /\ UNCHANGED <<timerVars, retryDue, healthDue, pollVars, bridgeProcess, dying, networkVars, knownVars>>

-----------------------------------------------------------------------------
(* A change of network starts the relay: handlePathChange and the handler   *)
(* setupHotspotAutoConnect installs.                                        *)
AutoConnects(net) ==
    /\ hotspotHandler /\ net = "wifi" /\ net # networkType
    /\ connectionStatus # "connected" /\ ~isConnecting

handlePathChange(net) ==
    /\ networkType' = net
    /\ \/ AutoConnects(net) /\ startRelay
       \/ ~AutoConnects(net) /\ UNCHANGED <<stateVars, relayVars, checkDue>>

(* The window appears: the monitor starts with the network as it is, then   *)
(* the handler is installed (it stays when the window closes).  The relay   *)
(* the window starts by itself is UserStarts.                               *)
startMonitoring(net) ==
    /\ ~monitoring /\ monitoring' = TRUE
    /\ handlePathChange(net) /\ hotspotHandler' = TRUE
    /\ UNCHANGED <<timerVars, retryDue, healthDue, exitDue, pollVars, bridgeProcess, dying,
                   pathDue, knownVars>>

(* The window closes: stop, then stopMonitoring.                            *)
WindowCloses ==
    /\ monitoring /\ monitoring' = FALSE
    /\ stopConnection
    /\ UNCHANGED <<dueVars, launchVars, dashboardDue, pollDue, networkType, pathDue, hotspotHandler, knownVars>>

(* The monitor reports a path from its own queue.                           *)
PathUpdate(net) ==
    /\ monitoring /\ pathDue = "none" /\ net # networkType
    /\ pathDue' = net
    /\ UNCHANGED <<stateVars, timerVars, dueVars, relayVars, pollVars, bridgeProcess, dying,
                   monitoring, networkType, hotspotHandler, knownVars>>

TakePathUpdate ==
    /\ pathDue # "none" /\ pathDue' = "none"
    /\ handlePathChange(pathDue)
    /\ UNCHANGED <<timerVars, retryDue, healthDue, exitDue, pollVars, bridgeProcess, dying,
                   monitoring, hotspotHandler, knownVars>>

MacNext ==
    \/ UserStarts \/ ViewStarts \/ UserStops
    \/ CheckRelay \/ RetryTimerFires \/ HealthTimerFires \/ Retry \/ HealthCheck
    \/ startDashboard \/ startPolling \/ terminationHandler
    \/ \E host \in Hosts : connectToRelay(host)
    \/ \E p \in 1..launched : ProcessEnds(p)
    \/ WindowCloses \/ TakePathUpdate
    \/ \E net \in Networks : startMonitoring(net) \/ PathUpdate(net)

MacSpec == MacInit /\ [][MacNext]_macVars

-----------------------------------------------------------------------------
MacTypeOK ==
    /\ connectionStatus \in {"disconnected", "connecting", "connected", "failed"}
    /\ {isConnecting, retryTimer, healthCheckTimer, pollTimer, relayRunning, monitoring, hotspotHandler} \subseteq BOOLEAN
    /\ retryCount \in Nat
    /\ checkDue \in 0..MaxChecks
    /\ {dashboardDue, pollDue, retryDue, healthDue} \subseteq 0..MaxDue
    /\ exitDue \in 0..MaxProcesses
    /\ launched \in 0..MaxProcesses
    /\ {relayProcess, dashboardProcess, bridgeProcess} \subseteq 0..launched
    /\ dying \subseteq alive /\ alive \subseteq 1..launched
    /\ bridges \cup dashboards \subseteq 1..launched /\ lost \subseteq alive
    /\ networkType \in Networks /\ pathDue \in Networks \cup {"none"}
    /\ knownRelays \subseteq Hosts /\ lastRelay \in knownRelays \cup {NoHost}

(* While the application shows that it is connecting, a check or a retry is *)
(* still to come that will end it: with the flag stuck, a change of network *)
(* would never start the relay again.  A process that runs and was not told *)
(* to terminate is in a variable stop looks at, unless a later process took *)
(* that variable: the relay of an earlier connectToRelay and an earlier     *)
(* dashboard run on after stop, but never a relay of startRelay, however    *)
(* its callers overlap (attemptRelayStart, handleRetry, stopBackend).       *)
BackendIsSupervised ==
    /\ isConnecting => checkDue + retryDue > 0 \/ retryTimer
    /\ alive \ (dying \cup lost) \subseteq {relayProcess, dashboardProcess, bridgeProcess}
    /\ lost \subseteq bridges \cup dashboards
    /\ connectionStatus = "connected" => healthCheckTimer
=============================================================================
