----------------------------- MODULE MC_Devices -----------------------------
(* What surrounds the transfers: tuning, trust, discovery, the relay for    *)
(* peers, benchmarks, the dashboard, the phone's application and the Mac's. *)
(* The components share no state, so a behaviour follows one of them        *)
(* (focus) and leaves the others in their initial states.                   *)
EXTENDS ControlLoop, PairingTrust, Discovery, Benchmark, CliTuning, LanShare,
        DashboardProgress, PeerRelay, AndroidTransfers, MacBackend, MacUploads,
        MacTransferView, AndroidAgent, TLC

CONSTANTS b1, b2, r1, r2, q1, q2, q3, q4, q5, q6, j1, j2, j3, c1, c2, c3, c4, i1, i2,
          o1, o2, w1, w2, h1, p1, p2, l3

VARIABLE focus

\* No option; slow and small; beyond what the loop would choose itself.
MCOptions ==
    {DefaultTuning, [chunk |-> 8192, parallel |-> 0, buffer |-> 64, rate |-> 2000],
     [chunk |-> 4194304, parallel |-> 16, buffer |-> 8192, rate |-> 500000]}

MCOwner == (r1 :> b1) @@ (r2 :> NoTransfer)
MCShareKind == (q1 :> "stream") @@ (q2 :> "stream") @@ (q3 :> "lan") @@ (q4 :> "lan")
            @@ (q5 :> "relay") @@ (q6 :> "relay")
MCTmpName == MCShareKind
MCJobKind == (j1 :> "receive") @@ (j2 :> "receive") @@ (j3 :> "download")
MCSessionOf == (c1 :> i1) @@ (c2 :> i1) @@ (c3 :> i1) @@ (c4 :> i2)
MCOfferHost == (o1 :> h1) @@ (o2 :> h1)

(* The phone's transfers in three parts: two offers, one offer that may be   *)
(* cancelled, two uploads.  The Mac application in three: a relay of the     *)
(* user's choice, a network that changes, a dashboard that is started twice. *)
(* Benchmarks overlap on the Mac or on the phone.  The Mac's uploads meet    *)
(* scans or handshakes.  Shares of one kind meet: the paths of different     *)
(* kinds have nothing in common.  One pairing request meets restarts and    *)
(* certificates, two requests each other (a payload that is lost is one that *)
(* is never delivered).  Two runs of the agent serve, three look for a key.  *)
OnlyRequests ==
    tls' = tls /\ cert' = cert /\ blocked' = blocked /\ restarts' = restarts /\ wire \subseteq wire'
OnlyDownloads == \A f \in Sends : step'[f] = "none"
OneKindOfShare == \A q, r \in Shares : shr'[q] # "idle" /\ shr'[r] # "idle" => ShareKind[q] = ShareKind[r]
FewProcesses == launched' <= 2 /\ {dashboardDue', pollDue', retryDue', healthDue'} \subseteq {0, 1}
NoTasks == {retryDue', healthDue', exitDue'} = {0}

DevicesInit ==
    /\ focus \in {"control", "pairing", "requests", "discovery", "benchmark", "tuning", "share",
                  "dashboard", "relay", "downloads", "cancels", "uploads",
                  "mac", "network", "processes", "sender", "view", "agent", "keys"}
    /\ ControlInit /\ PairingInit /\ DiscoveryInit /\ BenchmarkInit /\ TuningInit
    /\ ShareInit /\ DashboardInit /\ PeerRelayInit /\ AndroidInit /\ MacInit
    /\ UploadsInit /\ ViewInit /\ AgentInit
    /\ focus # "control" => config = DefaultTuning
    /\ focus # "tuning" => ~large /\ override = NoOverride

DevicesNext ==
    /\ UNCHANGED focus
    /\ \/ focus = "control" /\ ControlNext
       \/ focus # "control" /\ UNCHANGED controlVars
    /\ \/ focus = "pairing" /\ PairingNext /\ p2 \notin used'
       \/ focus = "requests" /\ PairingNext /\ OnlyRequests
       \/ focus \notin {"pairing", "requests"} /\ UNCHANGED pairingVars
    /\ \/ focus = "discovery" /\ DiscoveryNext
       \/ focus # "discovery" /\ UNCHANGED discoveryVars
    /\ \/ focus = "benchmark" /\ BenchmarkNext /\ (req'[r2] = "none" \/ bench'[b2] = "idle")
       \/ focus # "benchmark" /\ UNCHANGED benchmarkVars
    /\ \/ focus = "tuning" /\ TuningNext
       \/ focus # "tuning" /\ UNCHANGED tuningVars
    /\ \/ focus = "share" /\ ShareNext /\ OneKindOfShare
       \/ focus # "share" /\ UNCHANGED shareVars
    /\ \/ focus = "dashboard" /\ DashboardNext
       \/ focus # "dashboard" /\ UNCHANGED dashboardVars
    /\ \/ focus = "relay" /\ PeerRelayNext
       \/ focus # "relay" /\ UNCHANGED peerRelayVars
    /\ \/ focus = "downloads" /\ AndroidNext /\ OnlyDownloads /\ cancelFlag' = {}
       \/ focus = "cancels" /\ AndroidNext /\ OnlyDownloads /\ prompts' \subseteq {o1}
       \/ focus = "uploads" /\ AndroidNext /\ prompts' = {}
       \/ focus \notin {"downloads", "cancels", "uploads"} /\ UNCHANGED androidVars
    /\ \/ focus = "mac" /\ MacNext /\ ~monitoring' /\ FewProcesses
       \/ focus = "network" /\ MacNext /\ knownRelays' = {} /\ FewProcesses
       \/ focus = "processes" /\ MacNext /\ ~monitoring' /\ knownRelays' = {} /\ NoTasks
       \/ focus \notin {"mac", "network", "processes"} /\ UNCHANGED macVars
    /\ \/ focus = "sender" /\ UploadsNext /\ (dials' = 0 \/ scansMade' = 0)
       \/ focus # "sender" /\ UNCHANGED uploadsVars
    /\ \/ focus = "view" /\ ViewNext
       \/ focus # "view" /\ UNCHANGED viewVars
    /\ \/ focus = "agent" /\ AgentNext /\ agentStage'[l3] = "none"
       \/ focus = "keys" /\ AgentNext /\ port' = NoRun /\ ~fileServer'
       \/ focus \notin {"agent", "keys"} /\ UNCHANGED agentRunVars

DevicesSpec ==
    DevicesInit /\ [][DevicesNext]_<<focus, controlVars, pairingVars, discoveryVars, benchmarkVars,
                                     tuningVars, shareVars, dashboardVars, peerRelayVars, androidVars,
                                     macVars, uploadsVars, viewVars, agentRunVars>>

(* The types of the thirteen components, each while it is followed: the     *)
(* others are as they began.                                                *)
DevicesTypeOK ==
    CASE focus = "control" -> ControlTypeOK
      [] focus \in {"pairing", "requests"} -> PairingTypeOK
      [] focus = "discovery" -> DiscoveryTypeOK
      [] focus = "benchmark" -> BenchmarkTypeOK
      [] focus = "tuning" -> CliTuningTypeOK
      [] focus = "share" -> ShareTypeOK
      [] focus = "dashboard" -> DashboardTypeOK
      [] focus = "relay" -> PeerRelayTypeOK
      [] focus \in {"downloads", "cancels", "uploads"} -> AndroidTypeOK
      [] focus \in {"mac", "network", "processes"} -> MacTypeOK
      [] focus = "sender" -> UploadsTypeOK
      [] focus = "view" -> ViewTypeOK
      [] focus \in {"agent", "keys"} -> AgentTypeOK

(* What needs a user's consent has it.  An identity in a trust store is one *)
(* a user confirmed (confirm_pairing, accept_remote_confirmation); the       *)
(* phone downloads what it is offered only after a prompt was accepted       *)
(* (NodeService onStartCommand); and the phone keeps the identity others     *)
(* agreed to but where its database failed or two runs generated one at once *)
(* (load_or_generate_identity).  Nobody is asked about certificates on first *)
(* use (verify_server_cert), nor about files pushed through the tunnel,      *)
(* which readLoop stores as they come (TunnelClient.kt; module Tunnel).      *)
ConsentIsGiven == TrustHasConsent /\ DownloadHasConsent /\ IdentityIsKept

(* What transfers leave in the temporary directories is known: on the Mac   *)
(* the files of shares whose body failed, which no code removes but another *)
(* share of the name (dashboard.rs), on the phone the files texts were sent *)
(* from, which nothing removes (startTextTransfer).  Nothing else stays     *)
(* (share handlers and their servers; uploadFile, cancelTransfer).          *)
LeftoversAreKnown == LeftoversAreAborted /\ OnlyTextsStayInCache

(* Who will end work in progress, and which work nobody will.  An active    *)
(* progress record has its handler, unless a receive died of an error: the  *)
(* record then stays active (dashboard.rs).  A connecting or connected Mac  *)
(* application has a check to come, a running process the variable stop     *)
(* looks at, unless a later one took it: an earlier dashboard, or relay of  *)
(* connectToRelay, runs on (ConnectionManager.swift, BackendService.swift). *)
(* A transfer on the screen has a process (TransferView.swift), a power     *)
(* assertion an upload (AppViewModel.swift), an agent on the phone the      *)
(* sender stopAgent uses (lib.rs).                                          *)
WorkHasKnownOwner ==
    /\ OrphansAreDeadReceives /\ BackendIsSupervised
    /\ ShownTransferHasProcess /\ AwakeWhileSending /\ AgentsAreStoppable
=============================================================================
