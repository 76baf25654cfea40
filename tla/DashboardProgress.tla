------------------------- MODULE DashboardProgress -------------------------
(* The state the CLI's dashboard server shares between its connections:     *)
(* the two progress records of system_monitor.rs, each written by every     *)
(* transfer of its direction, the list of received files the browser polls, *)
(* the progress record a receiver posts to the sender, and the control      *)
(* streams that watch the progress record.  Connections are tasks of a      *)
(* multi-threaded runtime, so the steps of two transfers interleave; only   *)
(* the accesses to one record are atomic (its mutex).                       *)
EXTENDS Naturals, Sequences

CONSTANTS Jobs,        \* transfers the dashboard serves or starts
          JobKind,     \* which handler: "receive", "download", "udp", "send"
          Chunks,      \* chunks of a transfer
          MaxPending,  \* PENDING_TRANSFERS keeps this many entries (50)
          NoJob

ASSUME DashboardAssumption ==
    /\ JobKind \in [Jobs -> {"receive", "download", "udp", "send"}]
    /\ Chunks \in Nat \ {0} /\ MaxPending \in Nat \ {0}
    /\ NoJob \notin Jobs

VARIABLES job,      \* where the transfer's handler or task stands
          left,     \* chunks still to move
          progress, \* TRANSFER_PROGRESS and SENDER_TRANSFER_PROGRESS
          waiting,  \* PENDING_TRANSFERS
          posts,    \* progress posts on their way to the sender
          remote,   \* the sender's REMOTE_PROGRESS
          watcher   \* a control stream of the browser

dashboardVars == <<job, left, progress, waiting, posts, remote, watcher>>

Records == {"transfer", "sender"}
RecordOf(j) == IF JobKind[j] = "send" THEN "sender" ELSE "transfer"
Receives == {j \in Jobs : JobKind[j] = "receive"}
Started == {j \in Jobs : JobKind[j] # "receive"}

(* A post says which chunks are left; a post with active false is the last. *)
Post == [of : Jobs, left : 0..Chunks, active : BOOLEAN]

DashboardTypeOK ==
    /\ job \in [Jobs -> {"idle", "running", "closing", "done", "refused", "died"}]
    /\ left \in [Jobs -> 0..Chunks]
    /\ progress \in [Records -> [active : BOOLEAN, owner : Jobs \cup {NoJob}]]
    /\ waiting \in Seq(Jobs) /\ Len(waiting) <= MaxPending
    /\ posts \subseteq Post
    /\ remote \in Post \cup {NoJob}
    /\ watcher \in {"closed", "open", "stale", "ended"}

DashboardInit ==
    /\ job = [j \in Jobs |-> "idle"]
    /\ left = [j \in Jobs |-> Chunks]
    /\ progress = [r \in Records |-> [active |-> FALSE, owner |-> NoJob]]
    /\ waiting = <<>> /\ posts = {} /\ remote = NoJob
    /\ watcher = "closed"

SetProgress(j, active) ==
    progress' = [progress EXCEPT ![RecordOf(j)] = [active |-> active, owner |-> j]]

(* A request without a body (receive) or without JSON, host or path is      *)
(* answered with 400 and changes nothing.                                   *)
RefuseJob(j) ==
    /\ job[j] = "idle"
    /\ job' = [job EXCEPT ![j] = "refused"]
    /\ UNCHANGED <<left, progress, waiting, posts, remote, watcher>>

(* POST /api/receive-file: the file is opened; the progress record is only  *)
(* written after the first chunk.                                           *)
ReceiveOpen(j) ==
    /\ job[j] = "idle"
    /\ job' = [job EXCEPT ![j] = "running"]
    /\ UNCHANGED <<left, progress, waiting, posts, remote, watcher>>

ReceiveChunk(j) ==
    /\ job[j] = "running" /\ left[j] > 0
    /\ left' = [left EXCEPT ![j] = @ - 1]
    /\ SetProgress(j, TRUE)
    /\ posts' = posts \cup {[of |-> j, left |-> left[j] - 1, active |-> TRUE]}
    /\ UNCHANGED <<job, waiting, remote, watcher>>

(* A read or write error leaves the handler with `?': no record is written. *)
ReceiveDies(j) ==
    /\ job[j] = "running" /\ left[j] > 0
    /\ job' = [job EXCEPT ![j] = "died"]
    /\ UNCHANGED <<left, progress, waiting, posts, remote, watcher>>

(* The loop ends with the last chunk or with an early end of the body       *)
(* (n == 0): the record says completed either way.                          *)
ReceiveFinish(j) ==
    /\ job[j] = "running"
    /\ job' = [job EXCEPT ![j] = "closing"]
    /\ SetProgress(j, FALSE)
    /\ posts' = posts \cup {[of |-> j, left |-> 0, active |-> FALSE]}
    /\ UNCHANGED <<left, waiting, remote, watcher>>

(* Mutation: the list is never cut.                                         *)
PushPendingUncapped(j) ==
    /\ job[j] = "closing"
    /\ job' = [job EXCEPT ![j] = "done"]
    /\ waiting' = Append(waiting, j)
    /\ UNCHANGED <<left, progress, posts, remote, watcher>>

(* transfers.push(entry); if transfers.len() > 50 { transfers.remove(0); }  *)
PushPending(j) ==
    /\ job[j] = "closing"
    /\ job' = [job EXCEPT ![j] = "done"]
    /\ LET all == Append(waiting, j)
       IN waiting' = IF Len(all) > MaxPending THEN Tail(all) ELSE all
    /\ UNCHANGED <<left, progress, posts, remote, watcher>>

(* A download, a UDP receive or a send writes the record when it starts ... *)
StartJob(j) ==
    /\ job[j] = "idle"
    /\ job' = [job EXCEPT ![j] = "running"]
    /\ SetProgress(j, TRUE)
    /\ UNCHANGED <<left, waiting, posts, remote, watcher>>

(* ... from its callback (without a length hint, total is 0 and the         *)
(* download counts as complete; the UDP callback always says active) ...    *)
Callback(j, hinted) ==
    /\ job[j] = "running" /\ left[j] > 0
    /\ left' = [left EXCEPT ![j] = @ - 1]
    /\ SetProgress(j, JobKind[j] = "udp" \/ (hinted /\ left[j] > 1))
    /\ UNCHANGED <<job, waiting, posts, remote, watcher>>

(* ... and when it is over, completed or failed.  (A failed job that        *)
(* returned without the last write is a mutation.)                          *)
EndJobOnSuccess(j) ==
    /\ job[j] = "running"
    /\ job' = [job EXCEPT ![j] = "done"]
    /\ IF left[j] = 0 THEN SetProgress(j, FALSE) ELSE UNCHANGED progress
    /\ UNCHANGED <<left, waiting, posts, remote, watcher>>

EndJob(j) ==
    /\ job[j] = "running"
    /\ job' = [job EXCEPT ![j] = "done"]
    /\ SetProgress(j, FALSE)
    /\ UNCHANGED <<left, waiting, posts, remote, watcher>>

(* GET /api/pending-transfers takes the list and clears it under one lock;  *)
(* the entries are gone whether or not the response arrives.                *)
Poll ==
    /\ waiting # <<>> /\ waiting' = <<>>
    /\ UNCHANGED <<job, left, progress, posts, remote, watcher>>

(* Every post is a task of its own with its own connection: posts arrive at *)
(* POST /api/report-progress of the sender in any order, or not at all.     *)
PostArrives(p) ==
    /\ posts' = posts \ {p}
    /\ remote' = p
    /\ UNCHANGED <<job, left, progress, waiting, watcher>>

PostFails(p) ==
    /\ posts' = posts \ {p}
    /\ UNCHANGED <<job, left, progress, waiting, remote, watcher>>

(* GET /api/control-stream: a loop that ends when the record is inactive    *)
(* and 2 s have passed, or when the browser goes away.                      *)
WatchOpen ==
    /\ watcher = "closed" /\ watcher' = "open"
    /\ UNCHANGED <<job, left, progress, waiting, posts, remote>>

WatchAges ==
    /\ watcher = "open" /\ watcher' = "stale"
    /\ UNCHANGED <<job, left, progress, waiting, posts, remote>>

WatchEnds ==
    /\ watcher = "stale" /\ ~progress["transfer"].active
    /\ watcher' = "ended"
    /\ UNCHANGED <<job, left, progress, waiting, posts, remote>>

DashboardNext ==
    \/ \E j \in Jobs : RefuseJob(j)
    \/ \E j \in Receives : \/ ReceiveOpen(j) \/ ReceiveChunk(j) \/ ReceiveDies(j)
                           \/ ReceiveFinish(j) \/ PushPending(j)
    \/ \E j \in Started : \/ StartJob(j) \/ EndJob(j)
                          \/ \E hinted \in BOOLEAN : Callback(j, hinted)
    \/ Poll
    \/ \E p \in posts : PostArrives(p) \/ PostFails(p)
    \/ WatchOpen \/ WatchAges \/ WatchEnds

DashboardSpec == DashboardInit /\ [][DashboardNext]_dashboardVars

-----------------------------------------------------------------------------
(* A progress record that says active was written last by a transfer that   *)
(* is still running, or by a receive that died of a read or write error: no *)
(* other end of a transfer leaves it active, however the transfers that     *)
(* share the record overlap.  The dead receive's record does stay active,   *)
(* and every control stream that watches it stays open, until another       *)
(* transfer of the same direction writes it (handle_receive_file,           *)
(* /api/control-stream).                                                    *)
OrphansAreDeadReceives ==
    \A r \in Records :
        LET owner == progress[r].owner
        IN /\ progress[r].active =>
                \/ job[owner] = "running"
                \/ owner \in Receives /\ job[owner] = "died"
           /\ owner # NoJob /\ job[owner] = "died" => progress[r].active
=============================================================================
