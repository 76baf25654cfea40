------------------------------- MODULE LanShare -------------------------------
(***************************************************************************)
(* Files the dashboard passes on to a device (dashboard: /api/upload-and-  *)
(* send, /api/share-file-lan, /api/stream-upload and its one-shot file     *)
(* servers).  The body goes to a temporary file named after the kind of    *)
(* request and the file, so two shares of one kind and name use the same   *)
(* path: opening it truncates the other's file, and whoever ends first     *)
(* removes it.                                                             *)
(*                                                                         *)
(* A file is a node of the file system with blocks in it; a directory      *)
(* entry and the open handles point to nodes, as in POSIX.                 *)
(***************************************************************************)
EXTENDS Naturals, Sequences, FiniteSets

CONSTANTS Shares,     \* requests to pass a file on
          ShareKind,  \* "relay", "lan" or "stream"
          TmpName,    \* its temporary file: pdos_upload_, pdos_lan_ or pdos_stream_ and the name
          Blocks,     \* blocks in a body
          NoNode, NoBlock

VARIABLES shr,        \* where each request's handler is
          wrote,      \* blocks of the body it has written
          hnd,        \* the node its file handle points to
          dir,        \* path -> node
          opened,     \* path -> the shares that opened it since it was last removed
          data,       \* node -> blocks, each named after the share that wrote it
          srv,        \* the one-shot server of the share
          srvHnd,     \* the node the server opened
          sentBlocks, \* what the device received
          shown       \* TRANSFER_PROGRESS map of the file name: "completed" or not

shareVars == <<shr, wrote, hnd, dir, opened, data, srv, srvHnd, sentBlocks, shown>>
serverVars == <<srv, srvHnd, sentBlocks, shown>>

Paths == {TmpName[q] : q \in Shares}

ASSUME ShareAssumption ==
    /\ ShareKind \in [Shares -> {"relay", "lan", "stream"}]
    /\ \A q, r \in Shares : TmpName[q] = TmpName[r] => ShareKind[q] = ShareKind[r]
    /\ Blocks \in Nat \ {0} /\ NoNode \notin Shares

HandlerEnds == {"ok", "failed", "aborted"}

\* The type of the handlers, the servers and the file system they share.
ShareTypeOK ==
    /\ shr \in [Shares -> {"idle", "writing", "written", "signalling"} \cup HandlerEnds]
    /\ wrote \in [Shares -> 0..Blocks]
    /\ hnd \in [Shares -> Shares \cup {NoNode}]
    /\ dir \in [Paths -> Shares \cup {NoNode}] /\ opened \in [Paths -> SUBSET Shares]
    /\ data \in [Shares -> Seq(Shares \cup {NoBlock})]
    /\ srv \in [Shares -> {"none", "waiting", "serving", "over"}]
    /\ srvHnd \in [Shares -> Shares \cup {NoNode}]
    /\ sentBlocks \in [Shares -> Seq(Shares \cup {NoBlock})]
    /\ shown \in [Paths -> {"none", "in_progress", "completed"}]

ShareInit ==
    /\ shr = [q \in Shares |-> "idle"]
    /\ wrote = [q \in Shares |-> 0]
    /\ hnd = [q \in Shares |-> NoNode]
    /\ dir = [p \in Paths |-> NoNode] /\ opened = [p \in Paths |-> {}]
    /\ data = [q \in Shares |-> <<>>]
    /\ srv = [q \in Shares |-> "none"]
    /\ srvHnd = [q \in Shares |-> NoNode]
    /\ sentBlocks = [q \in Shares |-> <<>>]
    /\ shown = [p \in Paths |-> "none"]

\* remove_file: the entry goes, open handles keep their node.
RemoveTmp(q) ==
    /\ dir' = [dir EXCEPT ![TmpName[q]] = NoNode]
    /\ opened' = [opened EXCEPT ![TmpName[q]] = {}]

----------------------------------------------------------------------------
(* The request's handler *)

\* File::create, or fs::write for the two kinds whose body is in the JSON: a new node,
\* or the node at the path truncated.
CreateTmp(q) ==
    /\ shr[q] = "idle"
    /\ LET node == IF dir[TmpName[q]] = NoNode THEN q ELSE dir[TmpName[q]]
       IN /\ dir' = [dir EXCEPT ![TmpName[q]] = node]
          /\ hnd' = [hnd EXCEPT ![q] = node]
          /\ data' = [data EXCEPT ![node] = <<>>]
    /\ opened' = [opened EXCEPT ![TmpName[q]] = @ \cup {q}]
    /\ shr' = [shr EXCEPT ![q] = "writing"]
    /\ UNCHANGED <<wrote, serverVars>>

\* A block at the handle's own position.
Put(s, i, b) ==
    [k \in 1..(IF Len(s) > i THEN Len(s) ELSE i) |->
        IF k = i THEN b ELSE IF k <= Len(s) THEN s[k] ELSE NoBlock]

WriteTmp(q) ==
    /\ shr[q] = "writing" /\ wrote[q] < Blocks
    /\ data' = [data EXCEPT ![hnd[q]] = Put(@, wrote[q] + 1, q)]
    /\ wrote' = [wrote EXCEPT ![q] = @ + 1]
    /\ UNCHANGED <<shr, hnd, dir, opened, serverVars>>

\* The file cannot be created or written, or (stream) the body cannot be read: the
\* handler leaves through `?`, or answers 500 when the body came in the JSON, and does
\* not remove what it has created.
BodyError(q) ==
    /\ shr[q] \in {"idle", "writing"}
    /\ shr' = [shr EXCEPT ![q] = "aborted"]
    /\ UNCHANGED <<wrote, hnd, dir, opened, data, serverVars>>

\* The body is in; a stream that ended early is taken for the whole file.
BodyIn(q) ==
    /\ shr[q] = "writing"
    /\ wrote[q] = Blocks \/ ShareKind[q] = "stream"
    /\ shr' = [shr EXCEPT ![q] = "written"]
    /\ UNCHANGED <<wrote, hnd, dir, opened, data, serverVars>>

\* /api/upload-and-send: the file goes through the relay (run_file_write_raw) and is
\* removed whatever comes of it.
SendByRelay(q) ==
    /\ shr[q] = "written" /\ ShareKind[q] = "relay"
    /\ \E outcome \in {"ok", "failed"} : shr' = [shr EXCEPT ![q] = outcome]
    /\ RemoveTmp(q)
    /\ UNCHANGED <<wrote, hnd, data, serverVars>>

\* Mutant: a failed bind answers without removing the file.
RefuseKeepsTmp(q) ==
    /\ shr[q] = "written" /\ ShareKind[q] # "relay"
    /\ shr' = [shr EXCEPT ![q] = "failed"]
    /\ UNCHANGED <<wrote, hnd, dir, opened, data, serverVars>>

\* No address on the LAN, no port to listen on or (stream) no valid device id.
Refuse(q) ==
    /\ shr[q] = "written" /\ ShareKind[q] # "relay"
    /\ shr' = [shr EXCEPT ![q] = "failed"]
    /\ RemoveTmp(q)
    /\ UNCHANGED <<wrote, hnd, data, serverVars>>

\* The one-shot server is spawned before the device is told its address.
SpawnServer(q) ==
    /\ shr[q] = "written" /\ ShareKind[q] # "relay"
    /\ shr' = [shr EXCEPT ![q] = "signalling"]
    /\ srv' = [srv EXCEPT ![q] = "waiting"]
    /\ UNCHANGED <<wrote, hnd, dir, opened, data, srvHnd, sentBlocks, shown>>

Signalled(q) ==
    /\ shr[q] = "signalling"
    /\ shr' = [shr EXCEPT ![q] = "ok"]
    /\ UNCHANGED <<wrote, hnd, dir, opened, data, serverVars>>

\* The relay signal failed: the file is removed, the server keeps waiting.
SignalFails(q) ==
    /\ shr[q] = "signalling"
    /\ shr' = [shr EXCEPT ![q] = "failed"]
    /\ RemoveTmp(q)
    /\ UNCHANGED <<wrote, hnd, data, serverVars>>

----------------------------------------------------------------------------
(* The one-shot server *)

\* A connection, its request read and the path opened, if it is still there.
ServerAccepts(q) ==
    /\ srv[q] = "waiting"
    /\ srv' = [srv EXCEPT ![q] = "serving"]
    /\ srvHnd' = [srvHnd EXCEPT ![q] = dir[TmpName[q]]]
    /\ UNCHANGED <<shr, wrote, hnd, dir, opened, data, sentBlocks, shown>>

\* One chunk read and written; the map of progress is keyed by the file's name.
ServerSends(q) ==
    /\ srv[q] = "serving" /\ srvHnd[q] # NoNode
    /\ Len(sentBlocks[q]) < Len(data[srvHnd[q]])
    /\ LET next == Append(sentBlocks[q], data[srvHnd[q]][Len(sentBlocks[q]) + 1])
       IN /\ sentBlocks' = [sentBlocks EXCEPT ![q] = next]
          /\ shown' = [shown EXCEPT ![TmpName[q]] =
                          IF ShareKind[q] # "stream" THEN @
                          ELSE IF Len(next) = Len(data[srvHnd[q]]) THEN "completed"
                          ELSE "in_progress"]
    /\ UNCHANGED <<shr, wrote, hnd, dir, opened, data, srv, srvHnd>>

\* The end of the file, or an error of the connection: the path is removed, whichever
\* share's file it is by now.
ServerEnds(q) ==
    /\ srv[q] = "serving"
    /\ srv' = [srv EXCEPT ![q] = "over"]
    /\ RemoveTmp(q)
    /\ UNCHANGED <<shr, wrote, hnd, data, srvHnd, sentBlocks, shown>>

\* Nobody came within 600 seconds.
ServerTimeout(q) ==
    /\ srv[q] = "waiting"
    /\ srv' = [srv EXCEPT ![q] = "over"]
    /\ RemoveTmp(q)
    /\ UNCHANGED <<shr, wrote, hnd, data, srvHnd, sentBlocks, shown>>

ShareNext ==
    \E q \in Shares :
        \/ CreateTmp(q) \/ WriteTmp(q) \/ BodyError(q) \/ BodyIn(q) \/ SendByRelay(q)
        \/ Refuse(q) \/ SpawnServer(q) \/ Signalled(q) \/ SignalFails(q)
        \/ ServerAccepts(q) \/ ServerSends(q) \/ ServerEnds(q) \/ ServerTimeout(q)

ShareSpec == ShareInit /\ [][ShareNext]_shareVars

----------------------------------------------------------------------------
\* The share will still remove its path: its handler has not yet handed the file over, or
\* its server is not over.
RemovalToCome(q) == shr[q] \in {"writing", "written"} \/ srv[q] \in {"waiting", "serving"}

\* What is left in /tmp is exactly what shares left that could not take in their body:
\* every share that opened a path since it was last removed will remove it, unless it is
\* one of these (BodyError), in whatever order shares of one name create, truncate and
\* remove each other's file.  The file such a share leaves stays until another share of
\* the same name removes it: no code does it otherwise.
LeftoversAreAborted ==
    \A p \in Paths :
        /\ dir[p] # NoNode <=> opened[p] # {}
        /\ \A q \in opened[p] : shr[q] = "aborted" \/ RemovalToCome(q)
=============================================================================
