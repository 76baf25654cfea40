--------------------------- MODULE RemoteCommands ---------------------------
(* What a user asks of another device from the command line or the          *)
(* dashboard: its clipboard, a notification, a terminal command, pairing, a *)
(* search (cli/src/clipboard.rs, notify.rs, terminal.rs, pair.rs,           *)
(* search.rs, dashboard.rs), the tasks that serve it there                  *)
(* (crates/task_manager) and the providers of the desktop and of the        *)
(* Android agent.  RelaySystem shows that the answers find their way; here  *)
(* the relay only delivers, refuses or loses, and what the answers say is   *)
(* compared with what the device did.  A terminal command counts as done    *)
(* once it ran, whatever its exit status, which no provider looks at.       *)
EXTENDS Naturals, Sequences

CONSTANTS
    Cmds,       \* commands, each run once; a set command offers itself as its text
    Dashboard,  \* those made by the dashboard, the others by the command line tool
    KindsOf,    \* what the commands may be: a set of functions from Cmds to CmdKinds
    Empty,      \* the empty text
    MaxBreaks   \* bound on the event loops that end and the agents that die

CmdKinds == {"get", "set", "notify", "terminal", "pair", "search"}

ASSUME CmdAssumption ==
    /\ Dashboard \subseteq Cmds /\ KindsOf \subseteq [Cmds -> CmdKinds]
    /\ Empty \notin Cmds /\ MaxBreaks \in Nat

VARIABLES
    kind,       \* kind[c]
    platform,   \* of the agent: "android" or "desktop"
    cmd,        \* cmd[c]: "idle", "waiting", "ok" or "error"
    text,       \* text[c]: what a set command sets, what a get command got
    request,    \* request[c]: "none", "sent" or "gone"
    reply,      \* reply[c]: the frame on its way back
    job,        \* job[c], its task on the agent: "none", "queued", "running", "executed" or "over"
    returned,   \* returned[c]: what execute() returned
    forwarded,  \* forwarded[c]: the event loop that took the task still runs
    looper,     \* what the providers posted to the Android main thread
    clip,       \* the clipboard of the device
    local,      \* the clipboard of the Mac
    online,     \* the agent has an event loop
    effects,    \* the commands the device carried out, in order (history)
    shown,      \* shown[c]: what was on the device's clipboard since c was sent (history)
    before,     \* <<c, d>>: c was reported before d was sent (history)
    breaks

clientVars == <<cmd, text, before>>
wireVars == <<request, reply>>
agentVars == <<job, returned, forwarded, online>>
deviceVars == <<looper, clip, effects, shown>>
commandVars == <<kind, platform, clientVars, wireVars, agentVars, deviceVars, local, breaks>>

IsTask(c) == kind[c] \in {"get", "set", "notify", "terminal"}

CmdTexts == Cmds \cup {Empty}

\* The JSON of a result by the fields the commands look for; the content of "content".
Results == [fields : {{}, {"content"}, {"success"}, {"error"}}, content : CmdTexts]
Plain(field) == [fields |-> {field}, content |-> Empty]
Content(x) == [fields |-> {"content"}, content |-> x]
NoResult == [fields |-> {}, content |-> Empty]

\* The frames: TaskResult, Error, PairResponse, SearchResponse.
CmdFrames == [type : {"none", "task_result", "error", "pair_response", "search_response"}, body : Results]
NoFrame == [type |-> "none", body |-> NoResult]
Frame(type) == [type |-> type, body |-> NoResult]

CommandsTypeOK ==
    /\ kind \in KindsOf /\ platform \in {"android", "desktop"}
    /\ cmd \in [Cmds -> {"idle", "waiting", "ok", "error"}]
    /\ text \in [Cmds -> CmdTexts]
    /\ request \in [Cmds -> {"none", "sent", "gone"}]
    /\ reply \in [Cmds -> CmdFrames]
    /\ job \in [Cmds -> {"none", "queued", "running", "executed", "over"}]
    /\ returned \in [Cmds -> Results]
    /\ forwarded \in [Cmds -> BOOLEAN]
    /\ looper \in Seq(Cmds) /\ effects \in Seq(Cmds)
    /\ clip \in CmdTexts /\ local \in CmdTexts
    /\ online \in BOOLEAN
    /\ shown \in [Cmds -> SUBSET CmdTexts]
    /\ before \subseteq Cmds \X Cmds
    /\ breaks \in 0..MaxBreaks

CommandsInit ==
    /\ kind \in KindsOf /\ platform \in {"android", "desktop"}
    /\ cmd = [c \in Cmds |-> "idle"]
    /\ text = [c \in Cmds |-> Empty]
    /\ request = [c \in Cmds |-> "none"]
    /\ reply = [c \in Cmds |-> NoFrame]
    /\ job = [c \in Cmds |-> "none"]
    /\ returned = [c \in Cmds |-> NoResult]
    /\ forwarded = [c \in Cmds |-> FALSE]
    /\ looper = <<>> /\ effects = <<>>
    /\ clip = Empty /\ local = Empty
    /\ online = TRUE
    /\ shown = [c \in Cmds |-> {}]
    /\ before = {}
    /\ breaks = 0

-----------------------------------------------------------------------------
(* The commands *)

\* What every command does first: connect_and_identify(), a task queue and a dispatcher
\* of its own, and its one request; before records which commands were over by then.
Sends(c, x) ==
    /\ cmd[c] = "idle"
    /\ cmd' = [cmd EXCEPT ![c] = "waiting"]
    /\ text' = [text EXCEPT ![c] = x]
    /\ request' = [request EXCEPT ![c] = "sent"]
    /\ shown' = [shown EXCEPT ![c] = {clip}]
    /\ before' = before \cup {<<d, c>> : d \in {e \in Cmds : cmd[e] = "ok"}}
    /\ UNCHANGED <<kind, platform, reply, agentVars, looper, clip, effects, local, breaks>>

\* The task of each kind sends its request and waits.
ClientClipboardTask(c, x) == Sends(c, x)
ClientNotifyTask(c) == Sends(c, Empty)
ClientTerminalTask(c) == Sends(c, Empty)
ClientPairTask(c) == Sends(c, Empty)
ClientSearchTask(c) == Sends(c, Empty)

run_clipboard_get_raw(c) == kind[c] = "get" /\ ClientClipboardTask(c, Empty)
run_clipboard_set_raw(c, x) == kind[c] = "set" /\ ClientClipboardTask(c, x)
run_notify_raw(c) == kind[c] = "notify" /\ ClientNotifyTask(c)
run_terminal_raw(c) == kind[c] = "terminal" /\ ClientTerminalTask(c)
run_pair(c) == kind[c] = "pair" /\ ClientPairTask(c)
run_search_raw(c) == kind[c] = "search" /\ ClientSearchTask(c)

\* The Mac's clipboard through pbpaste and pbcopy, which may fail.
read_local_clipboard == {local, Empty}
write_local_clipboard(x) == local' \in {x, local}

\* The dashboard's requests; the text to set may be the Mac's clipboard.
ApiDevices(c) == c \in Dashboard /\ run_search_raw(c)
ApiNotify(c) == c \in Dashboard /\ run_notify_raw(c)
ApiClipboardGet(c) == c \in Dashboard /\ run_clipboard_get_raw(c)
ApiClipboardSet(c) == c \in Dashboard /\ \E x \in {c} \cup read_local_clipboard : run_clipboard_set_raw(c, x)
ApiExec(c) == c \in Dashboard /\ run_terminal_raw(c)

Submit(c) ==
    \/ ApiDevices(c) \/ ApiNotify(c) \/ ApiClipboardGet(c) \/ ApiClipboardSet(c) \/ ApiExec(c)
    \/ /\ c \notin Dashboard
       /\ \/ run_clipboard_get_raw(c) \/ run_clipboard_set_raw(c, c) \/ run_notify_raw(c)
          \/ run_terminal_raw(c) \/ run_pair(c) \/ run_search_raw(c)

\* No connection to the relay, or the connection ends before an answer.
NoConnection(c) ==
    /\ cmd[c] \in {"idle", "waiting"}
    /\ cmd' = [cmd EXCEPT ![c] = "error"]
    /\ reply' = [reply EXCEPT ![c] = NoFrame]
    /\ UNCHANGED <<kind, platform, text, before, request, agentVars, deviceVars, local, breaks>>

\* What a frame means to the execute() that waits for it: a search takes no notice
\* of an error, nobody of a frame of another kind.
TaskAnswer(m) == IF m.type = "task_result" THEN "ok" ELSE IF m.type = "error" THEN "error" ELSE "waiting"
PairAnswer(m) == IF m.type = "pair_response" THEN "ok" ELSE IF m.type = "error" THEN "error" ELSE "waiting"
SearchAnswer(m) == IF m.type = "search_response" THEN "ok" ELSE "waiting"

\* What the command makes of the result of its task.
ReadGet(m) == IF TaskAnswer(m) = "ok" /\ "content" \notin m.body.fields THEN "error" ELSE TaskAnswer(m)
ReadSet(m) == IF TaskAnswer(m) = "ok" /\ "success" \notin m.body.fields THEN "error" ELSE TaskAnswer(m)
ReadNotify(m) == IF TaskAnswer(m) = "ok" /\ "success" \notin m.body.fields THEN "error" ELSE TaskAnswer(m)
ReadTerminal(m) == IF TaskAnswer(m) = "ok" /\ "success" \notin m.body.fields THEN "error" ELSE TaskAnswer(m)

Reading(k, m) ==
    CASE k = "get" -> ReadGet(m)
      [] k = "set" -> ReadSet(m)
      [] k = "notify" -> ReadNotify(m)
      [] k = "terminal" -> ReadTerminal(m)
      [] k = "pair" -> PairAnswer(m)
      [] k = "search" -> SearchAnswer(m)

\* /api/clipboard/get also puts what it got on the Mac's clipboard.
Receive(c) ==
    LET m == reply[c]
        outcome == Reading(kind[c], m)
        gets == kind[c] = "get" /\ outcome = "ok"
    IN  /\ cmd[c] = "waiting" /\ m.type # "none"
        /\ cmd' = [cmd EXCEPT ![c] = outcome]
        /\ text' = [text EXCEPT ![c] = IF gets THEN m.body.content ELSE @]
        /\ reply' = [reply EXCEPT ![c] = NoFrame]
        /\ IF gets /\ c \in Dashboard THEN write_local_clipboard(m.body.content) ELSE UNCHANGED local
        /\ UNCHANGED <<kind, platform, before, request, agentVars, deviceVars, breaks>>

-----------------------------------------------------------------------------
(* The relay and the agent *)

Answer(c, m) == reply' = [reply EXCEPT ![c] = IF cmd[c] = "waiting" THEN m ELSE @]

\* The relay answers a search itself, and refuses what is for a device it does not know.
RelayAnswers(c) ==
    /\ request[c] = "sent"
    /\ \/ kind[c] = "search" /\ Answer(c, Frame("search_response"))
       \/ kind[c] # "search" /\ ~online /\ Answer(c, Frame("error"))
    /\ request' = [request EXCEPT ![c] = "gone"]
    /\ UNCHANGED <<kind, platform, clientVars, agentVars, deviceVars, local, breaks>>

\* The agent accepts every pairing request ...
AcceptPair(c) ==
    /\ request[c] = "sent" /\ online /\ kind[c] = "pair"
    /\ Answer(c, Frame("pair_response"))
    /\ request' = [request EXCEPT ![c] = "gone"]
    /\ UNCHANGED <<kind, platform, clientVars, agentVars, deviceVars, local, breaks>>

\* ... and queues a task: both agents register the four kinds, and the payloads are
\* well formed.
create_task(c) ==
    /\ request[c] = "sent" /\ online /\ IsTask(c)
    /\ request' = [request EXCEPT ![c] = "gone"]
    /\ job' = [job EXCEPT ![c] = "queued"]
    /\ forwarded' = [forwarded EXCEPT ![c] = TRUE]
    /\ UNCHANGED <<kind, platform, clientVars, reply, returned, online, deviceVars, local, breaks>>

DispatchCmd(c) ==
    /\ job[c] = "queued"
    /\ job' = [job EXCEPT ![c] = "running"]
    /\ UNCHANGED <<kind, platform, clientVars, wireVars, returned, forwarded, online, deviceVars, local, breaks>>

\* The provider returns to execute(), with Ok or with Err.
ProviderReturns(c, r) ==
    /\ job[c] = "running"
    /\ job' = [job EXCEPT ![c] = "executed"]
    /\ returned' = [returned EXCEPT ![c] = r]
    /\ UNCHANGED <<kind, platform, clientVars, wireVars, forwarded, online, local, breaks>>

ProviderFails(c) == ProviderReturns(c, Plain("error")) /\ UNCHANGED deviceVars

\* The device's clipboard holds x; every command under way may see it.
SetClip(x) ==
    /\ clip' = x
    /\ shown' = [c \in Cmds |-> IF cmd[c] = "waiting" THEN shown[c] \cup {x} ELSE shown[c]]

\* get_text(): on the phone the callback turns every failure into the empty text.
DesktopGetText(c) ==
    /\ platform = "desktop" /\ kind[c] = "get"
    /\ ProviderReturns(c, Content(clip)) /\ UNCHANGED deviceVars

AndroidGetText(c) ==
    /\ platform = "android" /\ kind[c] = "get"
    /\ \E x \in {clip, Empty} : ProviderReturns(c, Content(x))
    /\ UNCHANGED deviceVars

\* set_text(): the desktop sets it ...
DesktopSetText(c) ==
    /\ platform = "desktop" /\ kind[c] = "set"
    /\ ProviderReturns(c, Plain("success"))
    /\ SetClip(text[c])
    /\ effects' = Append(effects, c)
    /\ UNCHANGED looper

\* ... the phone posts it to the main thread and answers at once,
AndroidPosts(c) ==
    /\ platform = "android"
    /\ ProviderReturns(c, Plain("success"))
    /\ looper' = Append(looper, c)
    /\ UNCHANGED <<clip, effects, shown>>

AndroidSetText(c) == kind[c] = "set" /\ AndroidPosts(c)
AndroidShow(c) == kind[c] = "notify" /\ AndroidPosts(c)

\* A mutant of MainThread: the block posted last runs first.
MainThread_last ==
    /\ looper # <<>>
    /\ looper' = SubSeq(looper, 1, Len(looper) - 1)
    /\ LET c == looper[Len(looper)]
       IN  /\ effects' = Append(effects, c)
           /\ IF kind[c] = "set" THEN SetClip(text[c]) ELSE UNCHANGED <<clip, shown>>
    /\ UNCHANGED <<kind, platform, clientVars, wireVars, agentVars, local, breaks>>

\* which runs one posted block after the other and logs what fails.
MainThread ==
    /\ looper # <<>>
    /\ looper' = Tail(looper)
    /\ LET c == Head(looper)
       IN  \/ /\ effects' = Append(effects, c)
              /\ IF kind[c] = "set" THEN SetClip(text[c]) ELSE UNCHANGED <<clip, shown>>
           \/ UNCHANGED <<effects, clip, shown>>
    /\ UNCHANGED <<kind, platform, clientVars, wireVars, agentVars, local, breaks>>

\* show(): a banner, or else a dialog, is on the desktop before it returns.
DesktopShow(c) ==
    /\ platform = "desktop" /\ kind[c] = "notify"
    /\ ProviderReturns(c, Plain("success"))
    /\ effects' = Append(effects, c)
    /\ UNCHANGED <<looper, clip, shown>>

\* execute(): whatever the exit status, the output is a success.
RunsCommand(c) ==
    /\ kind[c] = "terminal"
    /\ ProviderReturns(c, Plain("success"))
    /\ effects' = Append(effects, c)
    /\ UNCHANGED <<looper, clip, shown>>

DesktopExecute(c) == platform = "desktop" /\ RunsCommand(c)
AndroidExecute(c) == platform = "android" /\ RunsCommand(c)

\* execute() of each kind of task: its provider, or the provider's error.
ClipboardTask(c) ==
    \/ DesktopGetText(c) \/ AndroidGetText(c)
    \/ DesktopSetText(c) \/ AndroidSetText(c)
    \/ kind[c] \in {"get", "set"} /\ ProviderFails(c)
NotificationsTask(c) ==
    \/ DesktopShow(c) \/ AndroidShow(c)
    \/ kind[c] = "notify" /\ ProviderFails(c)
TerminalTask(c) ==
    \/ DesktopExecute(c) \/ AndroidExecute(c)
    \/ kind[c] = "terminal" /\ ProviderFails(c)

\* A mutant of ForwardResult: an Err becomes a success.
ForwardResult_ok(c) ==
    /\ job[c] = "executed"
    /\ job' = [job EXCEPT ![c] = "over"]
    /\ IF forwarded[c] THEN Answer(c, [type |-> "task_result", body |-> Plain("success")])
                       ELSE UNCHANGED reply
    /\ UNCHANGED <<kind, platform, clientVars, request, returned, forwarded, online, deviceVars, local, breaks>>

\* The result task sends what execute() returned, an Err as the field "error", while its event loop runs.
ForwardResult(c) ==
    /\ job[c] = "executed"
    /\ job' = [job EXCEPT ![c] = "over"]
    /\ IF forwarded[c] THEN Answer(c, [type |-> "task_result", body |-> returned[c]]) ELSE UNCHANGED reply
    /\ UNCHANGED <<kind, platform, clientVars, request, returned, forwarded, online, deviceVars, local, breaks>>

\* What is on its way to or from an agent that breaks off may be lost.
Lost ==
    \E lost \in SUBSET {c \in Cmds : request[c] = "sent" \/ reply[c].type = "task_result"} :
        /\ request' = [c \in Cmds |-> IF c \in lost THEN "gone" ELSE request[c]]
        /\ reply' = [c \in Cmds |-> IF c \in lost THEN NoFrame ELSE reply[c]]

\* The event loop ends: queued tasks are gone, running ones go on with nobody listening.
LoopEnds ==
    /\ online /\ breaks < MaxBreaks
    /\ breaks' = breaks + 1
    /\ online' = FALSE
    /\ job' = [c \in Cmds |-> IF job[c] = "queued" THEN "over" ELSE job[c]]
    /\ forwarded' = [c \in Cmds |-> FALSE]
    /\ Lost
    /\ UNCHANGED <<kind, platform, clientVars, returned, deviceVars, local>>

\* The agent dies, and on the phone what it had posted dies with it.
AgentDies ==
    /\ breaks < MaxBreaks
    /\ breaks' = breaks + 1
    /\ online' = FALSE
    /\ job' = [c \in Cmds |-> IF job[c] = "none" THEN "none" ELSE "over"]
    /\ forwarded' = [c \in Cmds |-> FALSE]
    /\ looper' = <<>>
    /\ Lost
    /\ UNCHANGED <<kind, platform, clientVars, returned, clip, effects, shown, local>>

AgentReturns ==
    /\ ~online
    /\ online' = TRUE
    /\ UNCHANGED <<kind, platform, clientVars, wireVars, job, returned, forwarded, deviceVars, local, breaks>>

CommandsNext ==
    \/ \E c \in Cmds :
          \/ Submit(c) \/ NoConnection(c) \/ Receive(c)
          \/ RelayAnswers(c) \/ AcceptPair(c) \/ create_task(c) \/ DispatchCmd(c)
          \/ ClipboardTask(c) \/ NotificationsTask(c) \/ TerminalTask(c) \/ ForwardResult(c)
    \/ MainThread \/ LoopEnds \/ AgentDies \/ AgentReturns

CommandsSpec == CommandsInit /\ [][CommandsNext]_commandVars

-----------------------------------------------------------------------------
(* Properties *)

Done(c) == \E i \in DOMAIN effects : effects[i] = c

\* What a command reports is what the device did, whatever broke off in between: a
\* text it got was on the clipboard after it asked (or is the empty text the phone
\* gives for a failure), a success on the desktop and every terminal command was
\* carried out, on the phone at least handed to the main thread (run_*_raw, execute).
ReportsAreTrue ==
    \A c \in Cmds :
        cmd[c] = "ok" =>
            /\ kind[c] = "get" => (text[c] \in shown[c] \/ (platform = "android" /\ text[c] = Empty))
            /\ kind[c] = "terminal" => Done(c)
            /\ kind[c] \in {"set", "notify"} /\ platform = "desktop" => Done(c)
            /\ kind[c] \in {"set", "notify"} => returned[c] = Plain("success")

\* A command is carried out at most once, and never before one whose success was
\* reported before it was sent, unless the phone only posted that one and carries
\* out this one outside its main thread (mainHandler, spawn_blocking).
Overtakes(c, d) == platform = "android" /\ kind[c] # "terminal" /\ kind[d] = "terminal"

EffectsKeepOrder ==
    \A i, j \in DOMAIN effects :
        /\ effects[i] = effects[j] => i = j
        /\ <<effects[i], effects[j]>> \in before /\ ~Overtakes(effects[i], effects[j]) => i < j
=============================================================================
