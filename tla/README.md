# TLA+ verification of the Personal Distributed Operating System

This directory specifies the parts of the repository whose correctness depends on the order
in which tasks, processes and messages meet: the relay hub, the agents and the command line
clients that talk through it; the transfer engine with its negotiated sessions, direct transfers
and protocols; pairing, discovery and tuning; the dashboard; the applications for Android and
macOS. TLC checks the specifications on small instances; TLAPS proves for every instance the safety
properties of the relay hub and of agents and clients around it, of negotiated sessions, of every way
a file travels and of what surrounds the transfers, one action property of the sessions, one of the control loop and the
refinement of the abstract file (section 4).

## 1. The system

| Component | State | Operations | Interacts with |
|---|---|---|---|
| relay hub (`relay/src`) | `Registry`: node id -> sender, `connection_id` | accept, `identify`, `dispatch`, `remove` | one handler task per WebSocket |
| agent runtime (`crates/runtime`) | the connection being served, `last_ack` | `run` (reconnect), `run_event_loop`, `handle_message` | the relay, the task manager |
| task manager (`crates/task_manager`) | bounded queue, spawned executions | `submit`, `run`, `execute_task` | the event loop that created it |
| CLI requests (`cli/src/net.rs`, `ping.rs`, `pair.rs`, `search.rs`, ...) | one connection, one request | `connect_and_identify`, `execute` | an agent, through the relay |
| session manager (`transfer_engine/src/session.rs`) | active sessions, bounded history | `create`, `update_state` | every task of the coordinator |
| session negotiation (`transfer_engine/src/lib.rs`) | cancel tokens, responders, engine mutex, event channels | `start_session`, upload task, `handle_incoming_session`, `accept_session`, `reject_session`, `cancel_session` | the same on the other device, over TCP |
| direct transfers, resume state (`lib.rs`, `streaming.rs`, `resume.rs`) | session manager, `states`, `transfers`, states on disk | `start_transfer`, `start`, `pause`, `resume`, `cancel` | streaming engine, disk |
| HTTP upload and receive (`http.rs`; `cli/src/dashboard.rs`, `agents/android/src/file_server.rs`) | connections, part file, final file | `upload_single_file`, `upload_directory`, `upload_parallel`, three receivers | each other, over TCP |
| reliable chunk transfer (`reliable.rs`) | chunk tracker, window | send, acknowledge, NACK, retransmit | its peer |
| QUIC, keepalive, flow window (`transport/`, `keepalive.rs`, `window.rs`) | shared offset, permits, queued frames | spawn, acquire, poll_write, monitor | one connection |
| pairing and trust store (`pairing.rs`, `tofu.rs`, `tls.rs`) | pending requests, two copies of the store and the file | request, confirm, reject, block, verify | its peer, the user |
| discovery, peers, peer relay (`discovery.rs`, `peer.rs`, `relay.rs`) | peer table, device list, slots | advertise, scan, expire, pair callers | the network |
| tuners (`control/`, `cli/src/adaptive/`) | samples, configuration, previous configuration | sample, classify, plan, apply, revert | the upload they tune |
| CLI transports (`udp_transport.rs`, `quic_transport.rs`, `tunnel.rs`) | window, received chunks, tunnels by address | send, acknowledge, retransmit, monitor | the phone |
| remote commands (`cli/src/clipboard.rs`, `notify.rs`, `terminal.rs`; task kinds and providers) | clipboard, posted closures, one reply per request | get, set, notify, run | the agent's tasks, the phone's main thread |
| CLI transfers and history (`file.rs`, `http_transfer.rs`, `telemetry.rs`, `main.rs`) | sessions in memory and in a file | read, write, download, upload, auto, transfer | agent, file server, tunnel |
| dashboard (`dashboard.rs`, `system_monitor.rs`) | progress records, pending files, temporary files | share, receive, progress, control stream | browser, phone |
| benchmarks (`observability.rs`, `file_server.rs`) | process-wide flags and samples | start, sample, stop, report | uploads that overlap |
| phone's agent (`agents/android/src/lib.rs`, `serve()`) | shutdown sender, port, stored identity | `startAgent`, `stopAgent`, accept, crash | the service that starts it, one client at a time |
| Android application (Kotlin) | prompts, transfers, copies, history | accept, decline, download, upload, cancel | notifications, HTTP, tunnel |
| Mac applications (Swift) | processes, timers, queued closures, counters | start, check, retry, stop, send, clear | `dos` processes, main queue |

`PROJECT.json` lists every component, also those that are not modelled (wrappers of libraries,
databases, screens, metric samplers), each with the reason.

What is hard in this code, and where (the full list, by line, is in `PROJECT.json`):

- *connections that overlap.* A node may have two connections at the relay at once; the handler
  of the old one ends, or even starts, after the new one has registered.
- *half-open connections.* Only the age of the last acknowledgement shows them.
- *tasks that outlive what they belong to.* Executions of an event loop that has ended; an upload
  whose session is cancelled.
- *several tasks moving one session.* The user's accept, reject and cancel, the upload task, the
  incoming handler and its 60 s timer all call `update_state`, and ignore its result.
- *shared resources.* One engine mutex per device, held while a file is sent; a queue with a limit,
  awaited inside the loop that also handles heartbeats; statics, flags, progress records and
  temporary files named after the file that overlapping transfers use together.
- *one connection, several writers.* Keepalive frames, answers and the body; several files in one
  tunnel; blocks of one file over several connections.
- *what success means.* Answers that are not read, results that are thrown away, a FIN that is lost:
  each sender has its own idea of when it may report Ok.
- *closures and timers that outlive their cause.* In the Swift applications nothing cancels a closure
  that was queued for later, and in the Kotlin one nothing interrupts a blocked thread.

Hazards the models contain and no property is about: Ok over a lost connection (`http.rs:251`); the
sender of `reliable.rs` that loses its place in the stream (`:264`, `:441`); sessions left in
Negotiating after an error (`lib.rs:788`); a tunnel forgotten by the monitor of an older connection
(`tunnel.rs:58`); results of QUIC streams that are dropped (`quic.rs:366`); a lost datagram below the
start of the retransmission scan (`udp_transport.rs:165`); a caller of the peer relay that sends
nothing (`relay.rs:69`); a history file torn by a crash (`telemetry.rs:343`); downloads whose body
ends early (`http_transfer.rs:267`, `NioTransfer.kt:1205`); a benchmark report with the receiver's
measurements of an earlier request, as a benchmarked upload does not read its answer
(`observability.rs:3282`); files pushed through the tunnel, which the phone stores without a prompt
(`TunnelClient.kt:145`). In these the code does what it does and
no document promises otherwise, so the properties are stated around them.

## 2. Modules

| Module | Models | Uses |
|---|---|---|
| `RelayHub` | the relay against arbitrary nodes | |
| `AgentRuntime` | an agent: reconnection, event loop, task queue, dispatcher, result forwarder | extends `RelayHub` |
| `RelaySystem` | agents, relay and CLI runs together, failures, fairness | extends `AgentRuntime` |
| `SessionManager` | the manager's map, history and transitions | |
| `SessionNegotiation` | initiator, upload task, receiver, users and connections of negotiated sessions | extends `SessionManager` |
| `AtomicFile` | abstract: a file appears complete or not at all | |
| `FileTransfer` | HTTP uploads and the three receivers | instantiates `AtomicFile` |
| `DirectTransfer` | transfers without negotiation, resume states | extends `SessionManager` |
| `ReliableTransfer`, `QuicUpload`, `Keepalive`, `UdpTransport`, `Tunnel` | one protocol each | |
| `CliTransfers` | the tool's transfer commands and its history | |
| `RemoteCommands` | clipboard, notification and terminal commands and the providers that carry them out | |
| `ControlLoop`, `CliTuning` | the two tuners | |
| `PairingTrust`, `Discovery`, `PeerRelay` | trust, peers, the relay for peers | |
| `Benchmark`, `LanShare`, `DashboardProgress` | what overlapping requests share in the CLI and the file server | |
| `AndroidAgent` | the runs of the agent on the phone | |
| `AndroidTransfers`, `MacBackend`, `MacUploads`, `MacTransferView` | the applications | |
| `MC_RelayHub`, `MC_RelaySystem`, `MC_SessionNegotiation` | symmetry sets and values for TLC | the modules they are named after |
| `MC_Files`, `MC_Devices` | components checked side by side | all the others |
| `RelayHub_proofs`, `RelaySystem_proofs` | theorems about the relay hub; about relay, agents and CLI runs together | extend what they are named after, and TLAPS |
| `SessionManager_proofs`, `Session_proofs` | theorems about the sessions | the same |
| `Transport_proofs`, `Delivery_proofs` | theorems about QUIC, keepalive and tunnel; about HTTP, datagrams and the chunk protocol | the same |
| `Files_proofs`, `Devices_proofs` | theorems about direct transfers, commands and history; about the devices' components; the compositions | extend `MC_Files`, `MC_Devices` |

### RelayHub

A connection `c` has the node's end (`sock`), the path (`link`, which may be cut without either
end being told), the relay's end (`handler`: in `identify`, in the main loop, or done) and the
frames in both directions in order (`up`, `down`; an unbounded channel and the TCP stream
together). `registry[n]` is the connection whose sender is registered for node `n`, which stands for
both `tx` and `connection_id` of the entry.

The handler's actions are `Identify` (with `upsert_from_heartbeat`), `IdentifyReject` and
`IdentifyTimeout` (the three ways `identify` returns `None`), `Dispatch` (one frame of the main loop,
routed as `Route` says), and `HandlerClosed` and `HandlerError`, which end the loop, call `remove`
and abort the write task: any prefix of the queue may have been sent. `update_heartbeat` changes only
fields no property looks at and has no counterpart. Two actions of the code are one here: the lookup
of a sender and the send on it. A target that goes away between them loses the frame, as one that
goes away after the send does.

`latest` and `overtaken` are auxiliary: the connection a node opened last, and whether the
registration was made by an older connection over a newer one. No guard reads them.

### AgentRuntime and RelaySystem

`cur[n]` is the connection `run_event_loop` serves. Its `select!` is enabled when `AtSelect(n)`:
`handle_message` awaits `submit`, so while a task waits for room in the queue the loop neither reads
nor ticks (`pending`). Time is counted in units of 5 s; `age[n]` is the age of the last
acknowledgement at the last tick, so that the test `elapsed > 2 * interval + 5 s`, made once per
interval, is modelled with its granularity. When a loop ends, its queue vanishes and executions are
detached (`attached = FALSE`): they finish with nobody forwarding their result.

A CLI run draws a node id (`cli_id`), connects, sends one request and reads until the answer
(`CliOutcome`). The three kinds of exchange are a query answered by the relay (search), a pairing
request, and a task request, which stands for ping, exec, clipboard, notify and file commands alike:
their `execute` methods are the same loop. `Handled` says which requests are of a kind the agent has
a factory for.

`Failure` collects what may go wrong, at most `MaxFailures` times in a behaviour: a cut path, an
identification timeout, a restart of the relay, a crash of an agent, acknowledgements that take too
long, an interrupted CLI run.

### SessionManager and SessionNegotiation

`active[d][s]` and `history[d]` are the two containers of a device's manager. `update_state` refuses
what `valid_transition` refuses and moves a session that ends to the history, trimmed to
`MaxHistory`.

A session `s` goes from device `From[s]` to `To[s]`. `starter[s]` is the program counter of
`start_session`, `upload[s]` that of the task it spawns, `incoming[s]` that of
`handle_incoming_session`. A step covers what a task does between two awaits where another task can
make a difference; in particular the cancel token is inserted in a step of its own after the spawn,
`cancel_session` is two steps, and the decision on the outcome and its recording are two steps.
Session ids are UUIDs, so a session is started once and received once. An upload ends with
`SentFile` or `SendFails`; what happens to the bytes is `FileTransfer`.

`consent[s]` is a history variable: the receiving user has called `accept_session`.

### FileTransfer and AtomicFile

A block `<<u, k>>` is the unit of a chunk the sender writes and of a read of the receiver. An upload has
one stream or, if parallel, several; a stream has the sender's step (`snd`), the path, what is in
transit, the receiver's step (`rcv`) and what it has read (`got`). All uploads carry one file name, so
they meet in one file. `server` is the receiver of a behaviour: the dashboard (opens without
truncating, writes at an offset), the phone's file server (truncates), or the library's
`stream_file_receive` (part file, checks, rename). Crashes of either side and lost connections are
bounded by `MaxFaults`. A cancelled sender puts the bytes of a cancel frame into the body, as the code
does (`Junk`).

`AtomicFile` is what the library's receiver promises: under the final name there is nothing or one
complete file, changed in one step. `FileIsAtomic` is the refinement, with `file` as the abstract
content, claimed when the receiver was given the checksum. Without one, two uploads of a name can mix
their blocks in the shared part file and still have the expected length; the code accepts it, so the
mapping excludes it.

### DirectTransfer

Extends `SessionManager` with the steps of `start_transfer` and `execute_with_cancel`: the session, the
entry of `states`, the resume state on disk, the engine mutex, the upload, and then the same places
again in the order of the code. `OutcomesAgree` says in which of them the outcome may differ: a
cancellation that comes too late to stop the upload has already closed the session.

Resume states are kept per file, saved before the engine's mutex is taken and marked after it is
released. `markers[f]` is a history variable: the transfers that were to mark the state when it was
saved, the one that saved it and those it overtook. `ResumableUntilSent` says that the state is offered
(`list_resumable`) until one of these was sent, and no longer. It is not said, because it is not so, that
this one is the transfer that saved it. Every offset that the code writes is 0, so nothing is claimed
of offsets.

### ReliableTransfer, QuicUpload, Keepalive, UdpTransport, Tunnel

`ReliableTransfer` has the tracker's sets and the counter `in_flight`, which are compared
(`InFlightCount`), and frames in both directions in order. `adrift` records that the sender has lost
its place in the stream; from then on what it reads is arbitrary and nothing is claimed.
`QuicUpload` splits `acquire` and `drop` of the flow window into the semaphore's and the counter's
step. `Keepalive` writes a frame in two pieces with any `Pending` in between. `UdpTransport` keeps the
datagrams in a set from which any may be delivered, kept (duplicated) or lost, with both framings. Its
receiver was told a size by the request that opened the socket (`expected_size`, not necessarily the
file's; counted in half chunks, so that it may end inside one): a chunk that does not fit the buffer is
left out and acknowledged (`Store`), and the file is written after the FIN was answered, or not
(`WriteFile`).
`Tunnel` has a connection per phone address with a mutex, the calls that take it and its monitor.

### CliTransfers

A command goes through `stage`; the processes have the history in `memory`, the file on disk is shared
and may be `Torn` by a process that ends while it writes. `arrived` (the file is there) and `reported`
(what the command told its caller) are what the history is compared with.

### RemoteCommands

A behaviour has one platform, the desktop or the phone. A command (`cmd`) sends its request, the agent
makes a task of it (`job`), the provider does its work and the result (`returned`) is forwarded as the
reply, unless the connection, the device or the user's patience ends first. On the desktop a provider
does its work before it answers; on the phone a text or notification is posted to the main thread
(`looper`) and success is answered at once, while terminal commands run outside of it. `effects` is
what the device has carried out, in order; `shown`, the texts on the clipboard since a command asked,
and `before`, which commands had succeeded before another was sent, are history variables.

### ControlLoop and CliTuning

Sizes, rates and limits are the code's numbers; measurements are the comparisons the classifiers
make. In `ControlLoop` a round of the background task has a step for each lock it takes: snapshot
(`Tick`), `Classify`, `Decide`, which reads the configuration (`read`), and `ApplyDecision`, which writes
it; a stop or `reset_for_resume` may come between any two. The configuration starts as the user's options
seed it. In `CliTuning` the rules of one plan are applied in the order of the code, each on the result of
the one before; it has the configuration to revert to, the cool-down and the hill-climbing tuner of every
third cycle. `grown` records that a plan has raised the chunk size.

### PairingTrust, Discovery, PeerRelay

Payloads and datagrams are sets: lost, repeated and reordered. `PairingTrust` has three copies of a
device's store: the manager's, the TLS transport's and the file; `confirmed` is a history variable that
records, of every confirmation in time, on which device it was and which device and print the request
named. `Discovery` separates the registry of peers from the list of
devices, which tasks update in any order (`upserts`). `PeerRelay` has the accept loop that sleeps inside
`handle_peer`, the slots by session id and the pipes.

### Benchmark, LanShare, DashboardProgress

What overlapping requests share: the registered state, flags and lists (statics) in `Benchmark`; a path
in the temporary directory in `LanShare`, with file nodes and handles as in POSIX, so that removing and
truncating act on the right file and `opened` with the shares that opened the path since it was last
removed; the two progress records and the list of pending files in `DashboardProgress`. A benchmarked
upload returns when its last byte is written and does not read the answer, so its request may be taken
up, and end, after the report.

### AndroidAgent

A run of the agent is a thread that `startAgent` spawned: it loads or makes its identity, binds the
port and serves one client after the other until its shutdown channel fires. `SHUTDOWN_TX` is the
static with the newest run's sender: putting another one in drops the old one, which the old run
sees at its next `select!`. Runs may overlap; the key is read and saved in two steps. Two history
variables record why identities may differ: the runs the database `failed`, and the `rivals`, pairs of
runs that generated one at the same time.

### AndroidTransfers, MacBackend, MacUploads, MacTransferView

In Kotlin a transfer is a coroutine blocked in socket calls, which only its progress callback can end;
`consent` records how a download came to start. A text is sent from a file in the cache
(`startTextTransfer`, `clips`). In Swift everything runs on the main thread from start
to end, so an action is a whole function, and what interleaves are the closures, timers and tasks it
leaves behind, counted (`checkDue`, `retryDue`) or queued (`mainQueue`). `lost` are the processes that run
and whose variable a later one has taken (`Loses`).

### MC_Files and MC_Devices

The components of these two modules share no state. `focus` picks the one a behaviour follows, the
others stay in their initial states, so the state space is the sum and not the product of theirs.
`MC_Files` has the focuses http, direct, reliable, quic, keepalive, udp, tunnel, the commands in
two groups (history, commands), and remote. `MC_Devices` has control, pairing in two (one request with
restarts and certificates; two requests), discovery, benchmark, tuning, share, dashboard, relay, the phone
in three (two offers; one offer that may be cancelled; two uploads), the Mac's backend in three (a relay
of the user's choice; a changing network; dashboards and relays started twice), sender, view, and the
phone's agent in two (two runs that serve; three that look for a key). The
groups are conjuncts of the next-state relation; what they cut off is an interleaving of actors
that touch different state, or a bound on how much happens in one behaviour. Where one statement is
made about several components, a property of the MC module is the conjunction of theirs
(`SuccessIsReceived`, `FramesAreWhole`, `RecordsAgree`, `ConsentIsGiven`, `LeftoversAreKnown`,
`WorkHasKnownOwner`).

## 3. Runs

| Run | Instance | Shows |
|---|---|---|
| `relay_hub` | 3 nodes (one of another protocol version), 2 connections | registrations follow handlers, frames reach their addressee |
| `relay_system` | 1 agent, 2 CLI runs, 3 connections, 2 failures | answers belong to the run that asked, results stay in their event loop |
| `relay_live` | 1 agent, 1 CLI run, 3 connections, 1 failure, interval : slack = 3 : 1 | half-open connections are left, requests are answered |
| `relay_queue` | 1 agent, 2 CLI runs, task queue of 1, no failure | a full queue delays requests and loses none |
| `relay_isolation` | 1 agent, 2 connections, 1 failure | *violation*: a live agent is unregistered |
| `session` | 2 devices, 2 sessions of 2 files, 3 user calls, history of 1 | one life per session, consent, meaning of Completed, engine mutex |
| `session_live` | 2 sessions of 1 file, 2 user calls, no history | requests end, cancellations take effect |
| `session_receiver` | 1 session | *violation*: the receiver never becomes Active |
| `session_cancel` | 1 session | *violation*: a cancelled session is uploaded |
| `files` | 2 uploads (one over 2 streams) of up to 2 blocks, 1 fault; 2 direct transfers of one file; 3 chunks and 2 timeouts; 3 QUIC tasks, window of 1; datagrams for a file of 1.5 chunks, announced as 0.5 to 2; 2 phones, 2 calls, 3 tunnels; 6 commands in 2 processes; 2 remote commands on either platform | what is received, recorded, resumed and counted is what was sent; `FileIsAtomic` |
| `devices` | 2 devices, 2 pairing requests, 1 restart; 2 tuning decisions from 3 seeds, 1 reset; 3 stations; 2 benchmarks, 2 requests; 4 tuning cycles; 2 shares of each kind; 3 jobs; 4 callers of 2 sessions; 2 offers, 2 uploads of the phone; 2 processes of the Mac; 2 files, 3 sends; 3 runs of the phone's agent | consent, ownership of what is switched on or in progress, ranges, what is left of temporary files, pairs |
| `control_samples` | only the loop takes samples | *violation*: the loop never takes one |

What the properties of `files` and `devices` say:

| Property | Says |
|---|---|
| `StoredIsInFile` | a stream answered with success is in the file; no other stream of the upload cut it off |
| `SuccessIsReceived` | Ok over a connection that lasts, or over datagrams to a receiver that was not told too small a size, means the receiver has everything; an acknowledged chunk that fits was kept; a file written from datagrams has no gap |
| `FileIsAtomic` | the library's receiver implements `AtomicFile` |
| `RecordsAgree` | manager, events and result of a direct transfer tell one story; the tool's history says what its commands reported; a remote command reports what the device did, and commands take effect in the order in which they were seen to succeed |
| `ResumableUntilSent` | a resume state is offered until, and only until, a transfer that was to mark it was sent |
| `ReturnedIsWhole`, `InFlightCount` | the chunk protocol ends only with every chunk; the counter is the chunks in flight plus the retransmissions |
| `InFlightWithinWindow` | counter and semaphore, changed one after the other by several tasks, keep the bound |
| `FramesAreWhole` | no frame or file is written into another on a shared connection |
| `ConsentIsGiven` | an entry of a trust store is one a user agreed to in time, with that device and print, or the peer's certificate on first use; an offered download goes back to an accepted prompt, never to a declined one; the phone's runs differ in their identity only where the database failed the run that made one or two made one at once |
| `DevicesCoverPeers` | every known peer is, or is about to be, in the list the interface shows, at an address of its own |
| `SwitchesHaveOwners`, `ReportIsComplete` | flags and processes of overlapping benchmarks have somebody left to clear them; a report has every sample of its collector, and the session's tasks are over |
| `CfgInRange`, `BackOffNeverSpeedsUp` | no sequence of plans, probes and reverts leaves the ranges, the documented one of the chunk size until a plan has raised it; a decision to back off raises nothing above the configuration it was read from, but to the floors |
| `LeftoversAreKnown`, `CompletedUploadWasSent` | what stays behind are the files of shares whose body failed and those texts were sent from, nothing else; a completed upload of the phone was handed over whole |
| `WorkHasKnownOwner` | what is shown as active, connecting or sending has a process, a check or a worker that will end it, but the record of a receive that died; every process and agent can be stopped, but a dashboard or a relay of `connectToRelay` whose variable a later one took |
| `PipesArePairs` | the peer relay joins exactly two callers of one session |

Bounds. Two connections are what overlapping needs: an old and a new one; the third in the system
runs is the CLI's. `MaxFrames` limits what is in transit when a node starts to send another frame; one
frame per direction already gives every order of arrival between connections, and the order inside a
connection is fixed. Two failures let a relay restart or a cut meet a crash. Two sessions share an
engine and compete for one place in the history; two files let the first succeed and the second fail;
three user calls allow accept, cancel and a further answer. `Interval` is 1 where only safety is
checked: it then only changes how many ticks a timeout takes. Deadlock is not checked: a bounded
number of user calls, failures and sessions is used up, and the CLI processes end.

In `files`, two streams of one upload and a second upload of the same name are what a shared file
needs; three chunks with a window that grows from two leave one to be lost, one in flight and one
waiting; a window of one makes three QUIC tasks wait for each other; three tunnels let a phone connect
again while another is connected. Announced sizes of half a chunk to two chunks for a file of one and a
half contain one that cuts off the last chunk, one that cuts the first, the right one and one that is too
large. In `devices`, a restart reads what either copy of the trust store left on disk;
a station without a UUID, one whose announcement is too long and one that is normal cover the ways to
decode an announcement; two shares of one path meet in every order, for each of the three kinds of
request; a third caller meets a pair. Seeds of the control loop are the defaults, one below all of its
floors and one above all of its limits. Four
tuning cycles contain a plan, its revert and the tuner's third-cycle probe. Histories and lists of one or
two entries are full at once.

Symmetry (connections; sessions, or nodes of the same version) is used in safety runs only.

Fairness. Weak fairness of the relay's handlers, of the agent's branches (timers, reads,
queue, executions) and of CLI steps: tokio schedules ready tasks, TCP delivers or reports a close.
Nothing is assumed of failures, of users, nor that a kernel ever notices a cut path. The engine mutex
gets strong fairness: tokio's `Mutex` is first-in first-out, so a waiting upload cannot be passed over
for ever although the mutex is taken again and again. The approval timer is weakly fair, and an upload
in progress ends, by success or error. `control_samples` assumes weak fairness of the loop's timer and
of the upload's writes. The runs `files` and `devices` check safety only and assume none.

Findings. (1) `relay_isolation`: `connection_id` keeps an old handler from removing a newer entry, but
`upsert_from_heartbeat` lets an old connection replace a newer one; when it then ends, the node is gone
although its new connection is alive, and later heartbeats are acknowledged without registering it.
`RegistryIsolation` states what does hold. (2) `session_receiver`: Handshaking -> Active is not a
valid transition. (3) `session_cancel`: a cancellation before the upload task has inserted its token
has no effect on the upload. `CancelTakesEffect` states what does hold. (4) `control_samples`: the loop
waits until the history has a sample, and the call that would add one comes after the wait; nothing else
in the program adds samples. In `devices` the holder of the public `metrics` field takes samples as the
tests do (`OthersSample`), so that the decisions are checked nevertheless.

Where a comment or document says more than the code does, the property of a passing run names the exact
exceptions instead of the document's sentence:

| Document | Code | Property |
|---|---|---|
| `README.md:131`: the Node ID is derived from the stored key, "ensuring it never changes" | two runs of the phone's agent that find no key each make one (`agents/android/src/lib.rs:216`), and so does a run whose database fails | `ConsentIsGiven` (`IdentityIsKept`) |
| `pairing.rs:12`: "both sides persist each other's fingerprint" | the request repeats the id it is sent to (`:144`), so the device that was asked files the print under its own id; a confirmation is taken without a pending request | `ConsentIsGiven` (`Agreed` says which entries) |
| `resume.rs:9-10`: a resumed transfer "skips to the last offset" | every offset written is 0 (`lib.rs:601`, `:1192`) | none: nothing can be skipped |
| `auto_tuner.rs:17`: chunk size, "Range: 16 KB → 1 MB" | `plan_network` doubles it up to 2 MB (`decision_engine.rs:151`), and the tuner keeps it there | `CfgInRange` (`grown`) |
| `decision.rs:48`: "when unsure, reduce speed cautiously"; `:111`: "Back off aggressively" | a rate below 50 Mbps that the user's options seed is raised towards 50 | `BackOffNeverSpeedsUp` (floors) |

## 4. Proofs

`RelayHub_proofs` proves, for any sets of nodes and connections and unbounded queues:
`HubTypeCorrect`, `RegisteredIsRunningHolds`, `RegistryIsolationHolds`, `DeliveredToAddresseeHolds`
and the action property `OnlyOwnHandlerUnregistersHolds`. The inductive invariant adds to the
properties `HonestFrames` (every frame a node sent carries its own id) and `OpenedByNode`. The first
is needed because `Identify` registers the id found in the frame while `remove` takes out the
identified node: if the two could differ, an entry could outlive its handler. That frames are honest
follows from the programs of this repository, which are the only senders modelled; the relay itself
does not check it.

`RelaySystem_proofs` proves, for any agents, runs, connections, queue lengths and numbers of failures,
every invariant that the run of the whole relay system checks: `AnswerIsOwnHolds`,
`ServesOwnConnectionHolds`, `ResultsStayInTheirLoopHold` and `SystemTypesHold`. `SystemInv` has the hub's
invariant and four more parts:

- `SoundFrames`: every request in either queue of a connection has the id of the run it comes from,
  every response the id of the run it goes to, and the answer to a query is on its way to the node that
  asked. This is what lets a run take the first result it sees: `dispatch` forwards a frame as it is, and
  the hub's `DeliveredToAddressee` brings a response to nobody but the run whose id it carries;
- `SoundTasks`: the same of the tasks an agent waits to submit, has queued and executes, so that a
  response made later, over another connection, is sound again;
- `OwnConnections`: a program has only open connections that it opened, and a run that waits has one;
- `LoopHasTasks`: outside an event loop an agent neither waits to submit nor has a queue, and no
  execution is attached.

The lemmas follow a frame: `ConnectSound`, `SendSound`, `RecvSound`, `DispatchSound`, `LossSound` say what
each kind of step does to the queues, for the hub's actions alone; the steps of agents and runs cite them.

`Session_proofs` proves, for any devices, sessions, number of files and history bound:
`SessionTypeCorrect`, `LiveOrOverHolds`, `UploadNeedsConsentHolds`, `CompletedIsSentHolds` and
`EngineHeldBySenderHolds`. The strengthening:

- `Fresh`: a side that has not started a session has neither a live nor a recorded one, so `create`
  never revives a session;
- `ConsentChain`: consent precedes every stage of the acceptance, from the oneshot through the
  handler and the wire to the upload task;
- `CompletedChain`, `CompletedRecords`: an upload that is to report Completed has sent every file, and
  no other task records Completed at the initiator.

`update_state` and `trim` have lemmas of their own (`UpdateState`, `TrimPush`), each invariant part a
step lemma with one case per action. The assumptions are those named in the modules
(`HubAssumption`, `ManagerAssumption`, `NegotiationAssumption`); TLC evaluates them in the runs.

`OnlyOwnHandlerUnregisters` is proved and not a property of a run: it follows from the shape of
`remove` together with the invariant.

`ProceedsOnceHolds` is the action property of the manager, proved for `Spec` from the same invariant:
`Onward` says of one session that its rank does not fall and that a session that is over stays over,
`TrimKeeps` that the history loses entries only at its old end. The manager's own lemmas are in
`SessionManager_proofs`, which the direct transfers use too.

`Transport_proofs`, for any number of tasks, frames, phones, calls and pieces:

- `InFlightWithinWindowHolds`. `QuicInv` ties both numbers to the tasks' states: permits left plus tasks
  that hold one are the window, and the counter is the number of tasks between the two counting steps.
- `FramesAreContiguousHolds`. `KeepaliveInv`: the rest of a frame that was begun is in hand, and its
  first piece is the last thing on the wire.
- `TunnelFilesAreWholeHolds`. `TunnelInv`: what a phone has read and has yet to read of a connection are
  whole files, then at most one begun file, whose writer holds the connection's lock.

`Delivery_proofs`, for files of any length and whatever is lost, repeated or reordered:

- `UdpOkIsStoredHolds`, for any file size and any announced size. `UdpInv`: acknowledged chunks that fit
  are in the buffer, and nothing else is; a FIN on its way means that all have been acknowledged. That the
  chunks that fit are the first ones (`Fits` against `NumChunks`) makes a written file one without a gap.
- `OkIsReceivedHolds`, `StoredIsInFileHolds`, `TransferTypesHold`. `FlowInv`: what was read and is in
  transit are the blocks of the stream in their order; `StoreInv` says, receiver by receiver, where the
  file has them.
- `FileIsAtomicHolds`: the refinement of `AtomicFile`. `PartInv`: the library's receiver has one handler
  at a time and the part file is what it has read, so the rename publishes a whole file.
- `ReturnedIsWholeHolds`, `InFlightCountHolds`. `Tracked`, while the sender is not adrift: a chunk is
  Acked exactly when its id is in the tracker's set, an acknowledgement under way is of a received chunk,
  the contiguous chunks are acknowledged, and the counter is a cardinality plus the retransmissions.

`Files_proofs`:

- `OutcomesAgreeHolds`. `Story(t)`: where the session of a transfer is at each
  step, and that a record which is not the transfer's own is a late cancellation's.
- `ResumableUntilSentHolds`. `StateKept(f)`: every transfer of the file between its state and its mark is
  among `markers[f]`, and these are all at such a step or over. A step writes a state or only moves
  transfers along (`Moves`).
- `HistoryIsTruthfulHolds`. `GoodList`, for the memory of every process and for the file: each command at
  most once, only commands that are past their report, completed as they reported.
- `ReportsAreTrueHolds`, `EffectsKeepOrderHolds`. `Truthful(c)` follows a result from the provider to the
  user; `EffectsInOrder` keeps the order from the posted closures to the effects.
- `FilesStep`, `FilesStart`, `FilesComponents`: a step of `FilesSpec` is a step of one component and a
  stutter of the others, so `FilesSpec` implies every component's specification and its properties are
  theirs: `SuccessIsReceivedHolds`, `FramesAreWholeHolds`, `RecordsAgreeHolds`, `FilesTypesHold`. Every
  invariant of the run `files` is proved.

`Devices_proofs` has an invariant per component and the same composition at its end (`DevicesStep`,
`DevicesStart`, `DevicesComponents`), which gives `ConsentIsGivenHolds`, `LeftoversAreKnownHolds`,
`WorkHasKnownOwnerHolds` and `DevicesTypesHold` for `DevicesSpec`. Every invariant of the run `devices` is
proved:

| Theorem | What the inductive invariant adds |
|---|---|
| `PipesArePairsHolds` | a connection is in one place: the backlog, the accept loop, the slot of its session or a pipe |
| `SwitchesHaveOwnersHolds`, `ReportIsCompleteHolds` | a joined collector has handed over its samples; a session past a stage of `stop` has left the registry and ended its tasks |
| `CfgInRangeHolds` | the configuration to revert to is in range too and has the user's transport |
| `BackOffNeverSpeedsUpHolds` (action property) | between decision and application the configuration is the one that was read, or the defaults after a reset; every rule's and the step limiter's arithmetic is estimated for any numbers, as the user's options may be any |
| `CompletedUploadWasSentHolds`, `DownloadHasConsentHolds`, `OnlyTextsStayInCacheHolds` | a copy lives while its coroutine works, a pending offer is on the screen and was neither started nor declined |
| `LeftoversAreAbortedHolds` | a path exists exactly when somebody has opened it since it was removed, and each of these will remove it or has aborted (`OpenersKeep`) |
| `TrustHasConsentHolds` | an accepted confirmation under way carries the print of the device it names, whose user confirmed a request with the print of the device it goes to; all three copies of a store satisfy the property |
| `AgentsAreStoppableHolds`, `IdentityIsKeptHolds` | the port belongs to a run that listens; every identity in use or stored was made by a run that works with it, and two runs that made one, or are about to save one, have failed or are rivals (`KeysHaveReasons`) |
| `DevicesCoverPeersHolds` | every address on the wire, in a callback or in the list is a socket of the station it is said to be of |
| `OrphansAreDeadReceivesHolds` | a record belongs to a job of its direction, and only a dead receive leaves it active |
| `ShownTransferHasProcessHolds` | while a transfer is shown, a device and files are selected, so that a retry sends |
| `BackendIsSupervisedHolds` | a process that runs is in a variable of `stop()` or is lost, and only bridges and dashboards are ever lost; connecting implies a waiting check or retry |
| `AwakeWhileSendingHolds` | running the queued closures in order never makes the count negative and ends at the number of files being sent (`Counts`, prefix sums as a witness) |
| `DevicesTypesHold` | where a bound follows from what the code does: a download that has not ended has an attempt left; tasks of ended bridges and bridges that run are no more than were launched; a handle that was truncated writes at its own offset and leaves a gap |

Assumptions on constants are the named `ASSUME`s of the modules, which TLC evaluates in the runs. They
are finiteness and ranges of the bounds, and that a null value is no member of the set it is null for.
The proofs use no bound on the number of connections, files, chunks, commands, devices or failures;
the conjuncts by which `MC_Devices` splits a component into several focuses only restrict steps, so the
theorems about the components hold without them.

What the proofs changed in the models. In `MacTransferView`, the file a cleared transfer removes from the
selection is removed by its id (`Deselect`), and a file that has left the selection is no longer the file
of a sending: filtering by value had said more than the code does. `ReliableTransfer` says which sequence
of frames a step writes by a predicate (`Ordered`) instead of a sort. Some assumptions that the instances
satisfied had not been stated (`MaxWindow`, `MaxTaken`, `MaxLaunches`, `MaxChecks` and `MaxDue` are
numbers; null values are not members).

Only model-checked:

- the liveness properties `HalfOpenDetected`, `Answered`, `RequestEnds` and `CancelTakesEffect`: fairness
  and `ENABLED` are out of the prover's reach.

Every other invariant and action property of a passing run is stated by a theorem.

## 5. What is left out

Payloads, names, platform and capability data, progress counters, logs, the text of reports and pages.
Search ranking. What a connection accepted by the P2P server mode of the agent (`serve`) carries: it runs
the event loop of `AgentRuntime`. The `other` branch of `start_session` (a message that is neither Accept nor
Reject): the receiver sends none. Duplicate session ids. Byte ranges of the dashboard's file servers and
offsets of the phone's downloads. Which transport is chosen from two capability lists (`selection.rs`).

Not modelled, by component: `nat.rs` (used by its own tests only); the LAN discovery crate and the
phone's discovery (broadcast input and output, no state that another part depends on); the heartbeat
service (not used by the agents); cryptography, storage, search, common types (wrappers and pure data);
user interfaces other than the two transfer screens; samplers of system metrics; scripts and migrations.
Measurements are floating-point numbers and out of TLC's reach: the tuners see classes of them.

## 6. Plan

Every component with state and interleavings of its own has a module, and every safety property of the
passing runs a theorem. What is left: action properties of the components that have none yet (what a step
of a trust store or of the device list may never do), the abstract specifications of
the chunk protocol and of the remote commands as refinements, and the liveness properties should the
prover come to support fairness.
