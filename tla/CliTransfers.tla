---------------------------- MODULE CliTransfers ----------------------------
(* The transfer commands of the command line tool and of its dashboard, and *)
(* the history they keep (cli/src/file.rs, http_transfer.rs, telemetry.rs,  *)
(* transfer_engine/mod.rs, main.rs).  A command reads or writes a file over *)
(* the relay, downloads or uploads it over HTTP, sends it "auto" (HTTP,     *)
(* then the reverse tunnel) or plans a "transfer".  Every process loads the *)
(* history when it starts; store_session appends to the copy in memory and  *)
(* saves that copy over the file, which the processes share.                *)
(* How the bytes of an upload travel is FileTransfer, the tunnel is Tunnel. *)
EXTENDS Naturals, Sequences

CONSTANTS
    Commands,
    CommandKind,  \* [Commands -> {"read","write","download","upload","auto","transfer"}]
    Programs,     \* processes of the dos binary
    ProgramOf,    \* [Commands -> Programs]
    MaxSessions,  \* 100 in store_session
    MaxLaunches,  \* bound on the starts of a process
    Torn          \* a history file cut off while it was written

ASSUME CliAssumption ==
    /\ CommandKind \in [Commands -> {"read", "write", "download", "upload", "auto", "transfer"}]
    /\ ProgramOf \in [Commands -> Programs]
    /\ MaxSessions \in Nat \ {0} /\ MaxLaunches \in Nat

VARIABLES
    running,   \* processes that run
    launches,  \* starts of a process so far
    stage,     \* where a command is
    reported,   \* what the command reports: "none", "ok" or "err"
    arrived,   \* commands whose file is complete at its destination
    memory,    \* TRANSFER_SESSIONS of each process
    historyFile,   \* transfer_history.json
    learned,   \* transfer_learning.json
    loaded     \* the learning database a transfer command loaded

cliVars == <<running, launches, stage, reported, arrived, memory, historyFile, learned, loaded>>
fileVars == <<memory, historyFile>>
learnVars == <<learned, loaded>>
programVars == <<running, launches>>

CliInit ==
    /\ running = {} /\ launches = [p \in Programs |-> 0]
    /\ stage = [c \in Commands |-> "idle"]
    /\ reported = [c \in Commands |-> "none"]
    /\ arrived = {}
    /\ memory = [p \in Programs |-> <<>>]
    /\ historyFile = <<>>
    /\ learned = {} /\ loaded = [c \in Commands |-> {}]

(* main starts: the history is loaded; a file that does not parse leaves    *)
(* the list empty.                                                          *)
load_history_from_disk(p) ==
    /\ p \notin running /\ launches[p] < MaxLaunches
    /\ running' = running \cup {p}
    /\ launches' = [launches EXCEPT ![p] = @ + 1]
    /\ memory' = [memory EXCEPT ![p] = IF historyFile = Torn THEN <<>> ELSE historyFile]
    /\ UNCHANGED <<stage, reported, arrived, historyFile, learnVars>>

At(c, here) == ProgramOf[c] \in running /\ stage[c] = here
Kind(c, kinds) == CommandKind[c] \in kinds
Goes(c, there) == stage' = [stage EXCEPT ![c] = there]

(* The command returns r; or it stores a session first.                     *)
Returns(c, r) == Goes(c, "done") /\ reported' = [reported EXCEPT ![c] = r]
StoreThenReturn(c, r) == Goes(c, "store") /\ reported' = [reported EXCEPT ![c] = r]
Arrives(c) == arrived' = arrived \cup {c}

-----------------------------------------------------------------------------
(* The first error of a command (the file cannot be read, no connection, an *)
(* HTTP status other than 200) returns with ?: no session is stored.        *)
FailsEarly(c) ==
    /\ At(c, "idle") /\ Kind(c, {"read", "write", "download", "upload"})
    /\ Returns(c, "err")
    /\ UNCHANGED <<arrived, fileVars, learnVars, programVars>>

(* run_file_read_raw and run_file_write_raw: one task on a connection of    *)
(* its own, submitted to a queue that sends the request to the agent.       *)
SubmitTask(c) ==
    /\ At(c, "idle") /\ Kind(c, {"read", "write"})
    /\ Goes(c, "waiting")
    /\ UNCHANGED <<reported, arrived, fileVars, learnVars, programVars>>

(* The agent writes the file.                                               *)
AgentWrites(c) ==
    /\ stage[c] = "waiting" /\ Kind(c, {"write"}) /\ c \notin arrived
    /\ Arrives(c)
    /\ UNCHANGED <<stage, reported, fileVars, learnVars, programVars>>

(* ClientFileTask::execute returns a result with "success".                 *)
WriteSucceeds(c) ==
    /\ At(c, "waiting") /\ Kind(c, {"write"}) /\ c \in arrived
    /\ StoreThenReturn(c, "ok")
    /\ UNCHANGED <<arrived, fileVars, learnVars, programVars>>

(* Mutant of WriteFailed: an answer without "success" counts as one with.  *)
WriteFailedAsOk(c) ==
    /\ At(c, "waiting") /\ Kind(c, {"write"})
    /\ StoreThenReturn(c, "ok")
    /\ Arrives(c) \/ UNCHANGED arrived
    /\ UNCHANGED <<fileVars, learnVars, programVars>>

(* An error result, an error message, a result that is neither, or the end  *)
(* of the connection: the file may have been written all the same.          *)
WriteFailed(c) ==
    /\ At(c, "waiting") /\ Kind(c, {"write"})
    /\ StoreThenReturn(c, "err")
    /\ Arrives(c) \/ UNCHANGED arrived
    /\ UNCHANGED <<fileVars, learnVars, programVars>>

(* The content is decoded and written to the local path.                    *)
ReadEnds(c) ==
    /\ At(c, "waiting") /\ Kind(c, {"read"})
    /\ \/ Arrives(c) /\ Returns(c, "ok")
       \/ Returns(c, "err") /\ UNCHANGED arrived
    /\ UNCHANGED <<fileVars, learnVars, programVars>>

-----------------------------------------------------------------------------
(* http_download_with_chunk_size: the status line was 200, the output file  *)
(* is created and the body is copied until the connection ends.             *)
StartDownload(c) ==
    /\ At(c, "idle") /\ Kind(c, {"download"})
    /\ Goes(c, "receiving")
    /\ UNCHANGED <<reported, arrived, fileVars, learnVars, programVars>>

(* The end of the connection ends the loop, whatever the Content-Length     *)
(* said: a body cut short is a completed, verified session too.  A transfer *)
(* command that "downloads" fetches the peer's file of that name, so its    *)
(* own file arrives nowhere.                                                *)
DownloadEnds(c) ==
    /\ At(c, "receiving")
    /\ \/ StoreThenReturn(c, "ok") /\ UNCHANGED arrived
       \/ Kind(c, {"download"}) /\ StoreThenReturn(c, "ok") /\ Arrives(c)
       \/ Returns(c, "err") /\ UNCHANGED arrived
    /\ UNCHANGED <<fileVars, learnVars, programVars>>

-----------------------------------------------------------------------------
(* http_upload around transfer_engine::http::upload_to; its session goes to *)
(* the caller and is not stored.                                            *)
StartUpload(c) ==
    /\ At(c, "idle") /\ Kind(c, {"upload", "auto"})
    /\ Goes(c, "uploading")
    /\ UNCHANGED <<reported, arrived, fileVars, learnVars, programVars>>

(* The learning database is loaded when an engine is made; record appends   *)
(* to that copy and saves it over the file.                                 *)
NewLearningDb(c) == loaded' = [loaded EXCEPT ![c] = learned]
SaveRecord(c) == learned' = loaded[c] \cup {c}

(* execute_single_file records an upload that returned Ok.                  *)
record_learning(c) == IF Kind(c, {"transfer"}) THEN SaveRecord(c) ELSE UNCHANGED learned

UploadSucceeds(c) ==
    /\ At(c, "uploading")
    /\ Arrives(c) /\ Returns(c, "ok") /\ record_learning(c)
    /\ UNCHANGED <<loaded, fileVars, programVars>>

(* send_file_auto takes an upload of 0 Mbps for one that was blocked.       *)
UploadWasSlow(c) ==
    /\ At(c, "uploading") /\ Kind(c, {"auto"})
    /\ Arrives(c) /\ Goes(c, "tunnelling")
    /\ UNCHANGED <<reported, fileVars, learnVars, programVars>>

(* A failed upload may have stored the file; "auto" tries the tunnel.       *)
UploadFails(c) ==
    /\ At(c, "uploading")
    /\ Arrives(c) \/ UNCHANGED arrived
    /\ \/ Kind(c, {"auto"}) /\ Goes(c, "tunnelling") /\ UNCHANGED reported
       \/ Kind(c, {"upload", "transfer"}) /\ Returns(c, "err")
    /\ UNCHANGED <<fileVars, learnVars, programVars>>

(* send_through_tunnel returns when the frame is written; no one answers.   *)
TunnelReturns(c) ==
    /\ At(c, "tunnelling")
    /\ Arrives(c) \/ UNCHANGED arrived
    /\ \E r \in {"ok", "err"} : Returns(c, r)
    /\ UNCHANGED <<fileVars, learnVars, programVars>>

-----------------------------------------------------------------------------
(* select_strategy.  few: fewer than 10 files; ranges: the peer answers     *)
(* range requests; lossy: the link loses more than 1% or is WiFi.           *)
select_strategy(category, few, ranges, lossy) ==
    CASE category \in {"Tiny", "Small"} -> "SingleStream"
      [] category = "Many" -> "Batched"
      [] category = "Mixed" -> IF few THEN "SingleStream" ELSE "Batched"
      [] category = "Big" -> IF ranges /\ lossy THEN "ParallelRanges" ELSE "SingleStream"

(* TransferEngine::execute: one upload (a directory is zipped), a download  *)
(* of the source path, or, for a batch, a session for files nobody sends.   *)
execute(c, strategy) ==
    \/ strategy = "SingleStream" /\ Goes(c, "uploading") /\ UNCHANGED reported
    \/ strategy = "ParallelRanges" /\ Goes(c, "receiving") /\ UNCHANGED reported
    \/ strategy = "ParallelRanges" /\ Returns(c, "err")
    \/ strategy = "Batched" /\ Returns(c, "ok")

(* run_transfer: probes, handshake (its failure only means defaults),       *)
(* profile, engine; the engine loads the learning database.                 *)
run_transfer(c) ==
    /\ At(c, "idle") /\ Kind(c, {"transfer"})
    /\ \E category \in {"Tiny", "Small", "Many", "Mixed", "Big"}, few, ranges, lossy \in BOOLEAN :
           execute(c, select_strategy(category, few, ranges, lossy))
    /\ NewLearningDb(c)
    /\ UNCHANGED <<arrived, learned, fileVars, programVars>>

-----------------------------------------------------------------------------
(* store_session pushes under the lock, drops the oldest past the limit and *)
(* unlocks before it saves.                                                 *)
Pushed(sessions, s) ==
    IF Len(sessions) = MaxSessions THEN Append(Tail(sessions), s) ELSE Append(sessions, s)

store_session(c) ==
    /\ At(c, "store")
    /\ memory' = [memory EXCEPT ![ProgramOf[c]] =
                      Pushed(@, [command |-> c, completed |-> reported[c] = "ok"])]
    /\ Goes(c, "save")
    /\ UNCHANGED <<reported, arrived, historyFile, learnVars, programVars>>

(* save_history_to_disk writes, under the lock, what the list is now.       *)
save_history_to_disk(c) ==
    /\ At(c, "save")
    /\ historyFile' = memory[ProgramOf[c]] \/ UNCHANGED historyFile \* write errors are ignored
    /\ Goes(c, "done")
    /\ UNCHANGED <<reported, arrived, memory, learnVars, programVars>>

(* The process ends or is killed; a save it was in may leave part of a file. *)
Exit(p) ==
    /\ p \in running
    /\ running' = running \ {p}
    /\ stage' = [c \in Commands |-> IF ProgramOf[c] = p /\ stage[c] # "idle" THEN "gone" ELSE stage[c]]
    /\ memory' = [memory EXCEPT ![p] = <<>>]
    /\ \/ (\E c \in Commands : At(c, "save") /\ ProgramOf[c] = p) /\ historyFile' = Torn
       \/ UNCHANGED historyFile
    /\ UNCHANGED <<launches, reported, arrived, learnVars>>

CliNext ==
    \/ \E p \in Programs : load_history_from_disk(p) \/ Exit(p)
    \/ \E c \in Commands :
           \/ FailsEarly(c) \/ SubmitTask(c) \/ AgentWrites(c) \/ WriteSucceeds(c) \/ WriteFailed(c)
           \/ ReadEnds(c) \/ StartDownload(c) \/ DownloadEnds(c)
           \/ StartUpload(c) \/ UploadSucceeds(c) \/ UploadWasSlow(c) \/ UploadFails(c)
           \/ TunnelReturns(c) \/ run_transfer(c)
           \/ store_session(c) \/ save_history_to_disk(c)

CliSpec == CliInit /\ [][CliNext]_cliVars

-----------------------------------------------------------------------------
SessionRecords == [command : Commands, completed : BOOLEAN]

Lists == {memory[p] : p \in Programs} \cup (IF historyFile = Torn THEN {} ELSE {historyFile})

CliTypeOK ==
    /\ running \subseteq Programs /\ launches \in [Programs -> 0..MaxLaunches]
    /\ stage \in [Commands -> {"idle", "waiting", "receiving", "uploading", "tunnelling",
                               "store", "save", "done", "gone"}]
    /\ reported \in [Commands -> {"none", "ok", "err"}]
    /\ arrived \subseteq Commands /\ learned \subseteq Commands
    /\ loaded \in [Commands -> SUBSET Commands]
    /\ DOMAIN memory = Programs
    /\ \A sessions \in Lists :
           /\ Len(sessions) <= MaxSessions
           /\ \A i \in DOMAIN sessions : sessions[i] \in SessionRecords

InHistory(c, sessions) == \E i \in DOMAIN sessions : sessions[i].command = c

(* Whatever the interleaving of commands, processes and crashes, the        *)
(* history says of a command what the command reported, once; a command     *)
(* that returned after it stored is in its process's list while there is    *)
(* room; and a relay write or read that reports success, like a record of   *)
(* the learning database, stands for a file that arrived (store_session,    *)
(* run_file_write_raw, record_learning).                                    *)
HistoryIsTruthful ==
    /\ \A sessions \in Lists : \A i, j \in DOMAIN sessions :
           /\ sessions[i].completed <=> reported[sessions[i].command] = "ok"
           /\ sessions[i].command = sessions[j].command => i = j
    /\ \A c \in Commands :
           reported[c] = "ok" =>
               /\ Kind(c, {"write", "download"}) /\ stage[c] \in {"save", "done"} =>
                      InHistory(c, memory[ProgramOf[c]]) \/ Len(memory[ProgramOf[c]]) = MaxSessions
               /\ Kind(c, {"read", "write"}) => c \in arrived
    /\ learned \subseteq arrived
=============================================================================
