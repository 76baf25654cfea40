------------------------------ MODULE MC_Files ------------------------------
(* The ways a file travels between two devices, checked side by side: the   *)
(* components share no state, so a behaviour follows one of them (focus)    *)
(* and leaves the others in their initial states.                           *)
EXTENDS FileTransfer, DirectTransfer, ReliableTransfer, QuicUpload, Keepalive, UdpTransport,
        Tunnel, CliTransfers, RemoteCommands, TLC

CONSTANTS u1, u2, t1, t2, f1, m1, m2, k1, k2, d1, d2, d3, d4, d5, d6, g1, g2, e1, e2

VARIABLE focus

MCSizes == {(u1 :> 1) @@ (u2 :> 2), (u1 :> 2) @@ (u2 :> 1), (u1 :> 0) @@ (u2 :> 1)}
MCSource == (t1 :> f1) @@ (t2 :> f1)
MCReasons == {{"plain"}, {"timeout"}}

MCCommandKind == (d1 :> "write") @@ (d2 :> "download") @@ (d3 :> "transfer")
                 @@ (d4 :> "read") @@ (d5 :> "auto") @@ (d6 :> "upload")
MCProgramOf == [c \in {d1, d2, d3, d4, d5, d6} |-> IF c = d3 THEN g2 ELSE g1]
Idle(cs) == \A c \in cs : stage'[c] = "idle"

MCKindsOf ==
    {(e1 :> p[1]) @@ (e2 :> p[2]) : p \in
        {<<"get", "set">>, <<"set", "get">>, <<"set", "set">>, <<"notify", "terminal">>,
         <<"terminal", "notify">>, <<"search", "pair">>, <<"set", "search">>}}

MCInitialCwnd == ("udp" :> 1) @@ ("quic" :> 2)

MCCallTo == (k1 :> m1) @@ (k2 :> m2)

FilesInit ==
    /\ focus \in {"http", "direct", "reliable", "quic", "keepalive", "udp", "tunnel", "history", "commands",
                  "remote"}
    /\ KeepaliveInit /\ QuicInit /\ ReliableInit /\ DirectInit /\ UdpInit /\ TunnelInit /\ CliInit
    /\ CommandsInit
    /\ focus # "remote" => platform = "desktop" /\ kind = CHOOSE k \in KindsOf : TRUE
    /\ focus # "udp" => framing = "udp"
    /\ framing = "udp" => expected_size = TotalSize
    /\ focus # "direct" => \A f \in FileIds : contents[f] = CHOOSE c \in Contents : TRUE
    /\ TransferInit
    /\ focus # "http" =>
           /\ server = "atomic" /\ checksum /\ size = CHOOSE z \in Sizes : TRUE
           /\ \A u \in Uploads : token[u] = "none"

FilesNext ==
    /\ UNCHANGED focus
    /\ \/ focus = "http" /\ TransferNext
       \/ focus # "http" /\ UNCHANGED transferVars
    /\ \/ focus = "direct" /\ DirectNext
       \/ focus # "direct" /\ UNCHANGED directVars
    /\ \/ focus = "reliable" /\ ReliableNext
       \/ focus # "reliable" /\ UNCHANGED reliableVars
    /\ \/ focus = "quic" /\ QuicNext
       \/ focus # "quic" /\ UNCHANGED quicVars
    /\ \/ focus = "keepalive" /\ KeepaliveNext
       \/ focus # "keepalive" /\ UNCHANGED keepaliveVars
    /\ \/ focus = "udp" /\ UdpNext
       \/ focus # "udp" /\ UNCHANGED udpVars
    /\ \/ focus = "tunnel" /\ TunnelNext
       \/ focus # "tunnel" /\ UNCHANGED tunnelVars
    /\ \/ focus = "history" /\ CliNext /\ Idle({d4, d5, d6})
       \/ focus = "commands" /\ CliNext /\ Idle({d1, d2, d3})
       \/ focus \notin {"history", "commands"} /\ UNCHANGED cliVars
    /\ \/ focus = "remote" /\ CommandsNext
       \/ focus # "remote" /\ UNCHANGED commandVars

FilesSpec ==
    FilesInit /\ [][FilesNext]_<<focus, transferVars, directVars, reliableVars, quicVars, keepaliveVars,
                                 udpVars, tunnelVars, cliVars, commandVars>>

(* The types of the nine components, each while it is followed: the         *)
(* others are as they began.                                                *)
FilesTypeOK ==
    CASE focus = "http" -> TransferTypeOK
      [] focus = "direct" -> DirectTypeOK
      [] focus = "reliable" -> ReliableTypeOK
      [] focus = "quic" -> QuicTypeOK
      [] focus = "keepalive" -> KeepaliveTypeOK
      [] focus = "udp" -> UdpTypeOK
      [] focus = "tunnel" -> TunnelTypeOK
      [] focus \in {"history", "commands"} -> CliTypeOK
      [] focus = "remote" -> CommandsTypeOK

(* A sender that reports success, over HTTP or over datagrams, leaves a     *)
(* receiver that has all it sent (http_upload, send_file_udp): over HTTP if *)
(* its connections last, over datagrams if the size announced to the        *)
(* receiver was not too small.  For datagrams "has" means in memory: the    *)
(* FIN is answered before the file is written, and the write may fail.      *)
SuccessIsReceived == OkIsReceived /\ UdpOkIsStored

(* Several writers share a connection: no frame is written into another     *)
(* (KeepaliveStream, send_through_tunnel).                                  *)
FramesAreWhole == FramesAreContiguous /\ TunnelFilesAreWhole

(* What is recorded or reported is what happened: the two ends of a        *)
(* session agree (DirectTransfer), the history of the command line tool     *)
(* says what its commands reported (CliTransfers), and a command for        *)
(* another device reports what that device did, in the order in which it    *)
(* was asked (RemoteCommands).                                              *)
RecordsAgree == OutcomesAgree /\ HistoryIsTruthful /\ ReportsAreTrue /\ EffectsKeepOrder
=============================================================================
