--------------------------- MODULE DirectTransfer ---------------------------
(***************************************************************************)
(* Transfers without a negotiated session: TransferCoordinator's           *)
(* start_transfer() and execute_with_cancel(), the streaming engine they   *)
(* share, the resume states on disk (resume.rs), and the TransferEngine    *)
(* methods start, pause, resume and cancel.  A transfer is known in three  *)
(* places, the session manager, `states` and `transfers`, which the tasks  *)
(* update one after the other.                                             *)
(*                                                                         *)
(* start_transfer() and cancel_session() take &self and may run at the     *)
(* same time; the methods of the trait take &mut self, so they run only    *)
(* when nothing else does (Exclusive).                                     *)
(***************************************************************************)
EXTENDS SessionManager, FiniteSets

CONSTANTS
    here,           \* the device whose coordinator this is
    Source,         \* Source[t]: the file_id of transfer t (source path and name)
    Contents,       \* contents a source file may have; a hash tells them apart
    Reasons,        \* reasons of a cancellation, as the words from_anyhow() finds in them
    MaxEdits,       \* bound on changes of a source file
    MaxUserCalls    \* bound on the calls of users

Transfers == DOMAIN Source
FileIds == {Source[t] : t \in Transfers}

ASSUME DirectAssumption ==
    /\ here \in Devices /\ Transfers \subseteq Sessions
    /\ {} \notin Reasons /\ "none" \notin Contents
    /\ MaxEdits \in Nat /\ MaxUserCalls \in Nat

VARIABLES
    xfer,       \* xfer[t]: where start_transfer() is
    result,     \* result[t]: what execute_with_cancel() returned
    reason,     \* reason[t]: the token's reason, {} while it is not cancelled
    states,     \* states[t]: the map of the same name
    transfers,  \* transfers[t]: the status in its TransferModel
    holder,     \* the transfer that holds the engine's mutex
    handles,    \* handles[t]: the state of its handle in StreamEngine.active
    saved,      \* saved[f]: the resume state on disk
    markers,    \* history: markers[f], the transfers that were to mark the state on disk
                \* when it was saved: the one that saved it and those it overtook
    resumes,    \* resumes[t]: options.resume, as given and then as negotiated
    offset,     \* offset[t]: the resume offset the transfer starts from
    outcome,    \* outcome[t]: the final events emitted, in order
    stopping,   \* cancel_session() calls between the token and the manager
    contents,   \* contents[f]: what the source file holds
    edits, userCalls

statusVars == <<states, transfers, outcome>>
engineVars == <<holder, handles, saved, markers>>
userVarsDT == <<stopping, contents, edits, userCalls>>
directVars == <<managerVars, xfer, result, reason, statusVars, engineVars, offset, resumes, userVarsDT>>

Nothing == "none"
NoState == [hash |-> Nothing, last_offset |-> 0, completed |-> FALSE]
Statuses == {Nothing, "Running", "Paused", "Completed", "Failed"}
Kinds == {"PeerUnreachable", "Timeout", "Cancelled", "FileNotFound", "StorageError",
          "ChecksumMismatch", "NetworkUnstable", "IncompatiblePeer", "Internal"}
Running(t) == xfer[t] \notin {"idle", "returned", "aborted"}

DirectTypeOK ==
    /\ ManagerTypeOK
    /\ xfer \in [Transfers -> {"idle", "registered", "negotiating", "active", "saved", "locked",
                               "sending", "unlocking", "result", "returned", "aborted"}]
    /\ result \in [Transfers -> Kinds \cup {Nothing, "Ok"}]
    /\ states \in [Transfers -> Statuses] /\ transfers \in [Transfers -> Statuses]
    /\ holder \in Transfers \cup {Nothing}
    /\ handles \in [Transfers -> {Nothing, "Running", "Completed", "Failed"}]
    /\ offset \in [Transfers -> Nat] /\ resumes \in [Transfers -> BOOLEAN]
    /\ stopping \subseteq Transfers /\ markers \in [FileIds -> SUBSET Transfers]
    /\ contents \in [FileIds -> Contents]

DirectInit ==
    /\ ManagerInit
    /\ xfer = [t \in Transfers |-> "idle"] /\ result = [t \in Transfers |-> Nothing]
    /\ reason = [t \in Transfers |-> {}]
    /\ states = [t \in Transfers |-> Nothing] /\ transfers = [t \in Transfers |-> Nothing]
    /\ outcome = [t \in Transfers |-> <<>>]
    /\ holder = Nothing /\ handles = [t \in Transfers |-> Nothing]
    /\ saved = [f \in FileIds |-> NoState] /\ markers = [f \in FileIds |-> {}]
    /\ offset = [t \in Transfers |-> 0] /\ resumes = [t \in Transfers |-> FALSE]
    /\ stopping = {} /\ edits = 0 /\ userCalls = 0
    /\ \E c \in Contents : contents = [f \in FileIds |-> c]

-----------------------------------------------------------------------------
(* Errors and resume states *)

\* TransferError::from_anyhow(): the first group of words found in the message.
from_anyhow(words) ==
    CASE words \cap {"refused", "unreachable"} # {} -> "PeerUnreachable"
      [] words \cap {"timeout", "timed out"} # {}   -> "Timeout"
      [] words \cap {"cancel"} # {}                 -> "Cancelled"
      [] words \cap {"not found"} # {}              -> "FileNotFound"
      [] words \cap {"permission denied", "disk full", "storage"} # {} -> "StorageError"
      [] words \cap {"checksum", "integrity"} # {}  -> "ChecksumMismatch"
      [] words \cap {"network", "connection", "reset", "broken pipe"} # {} -> "NetworkUnstable"
      [] words \cap {"incompatible", "version"} # {} -> "IncompatiblePeer"
      [] OTHER -> "Internal"

\* The resume offset, if the state is of this content and not finished.
can_resume(f) ==
    IF saved[f].hash = contents[f] /\ ~saved[f].completed THEN saved[f].last_offset ELSE 0

save(f, state) == saved' = [saved EXCEPT ![f] = state]

\* Nothing is written when there is no state for f.
update_offset(f, n) ==
    saved' = [saved EXCEPT ![f] = IF @ = NoState THEN @ ELSE [@ EXCEPT !.last_offset = n]]

mark_completed(f) ==
    saved' = [saved EXCEPT ![f] = IF @ = NoState THEN @ ELSE [@ EXCEPT !.completed = TRUE]]

-----------------------------------------------------------------------------
(* start_transfer() *)

\* Token, channels, session, states and model are created, the resume state is read.
StartTransfer(t) ==
    /\ xfer[t] = "idle"
    /\ create(here, t)
    /\ states' = [states EXCEPT ![t] = "Running"]
    /\ transfers' = [transfers EXCEPT ![t] = "Running"]
    /\ \E mine \in BOOLEAN :
          /\ resumes' = [resumes EXCEPT ![t] = mine]
          /\ offset' = [offset EXCEPT ![t] = IF mine THEN can_resume(Source[t]) ELSE 0]
    /\ xfer' = [xfer EXCEPT ![t] = "registered"]
    /\ UNCHANGED <<result, reason, outcome, engineVars, userVarsDT>>

\* A bad address or a failed handshake returns at once.
HandshakeFails(t) ==
    /\ xfer[t] = "registered"
    /\ xfer' = [xfer EXCEPT ![t] = "aborted"]
    /\ UNCHANGED <<managerVars, result, reason, statusVars, engineVars, offset, resumes, userVarsDT>>

\* A feature is used when both payloads offer it.  The other features and the
\* limits choose how upload_file() sends.
negotiate(mine, theirs) == mine /\ theirs

HandshakeDone(t) ==
    /\ xfer[t] = "registered"
    /\ update_state(here, t, "Negotiating")
    /\ \E theirs \in BOOLEAN : resumes' = [resumes EXCEPT ![t] = negotiate(@, theirs)]
    /\ xfer' = [xfer EXCEPT ![t] = "negotiating"]
    /\ UNCHANGED <<result, reason, statusVars, engineVars, offset, userVarsDT>>

BecomeActive(t) ==
    /\ xfer[t] = "negotiating"
    /\ update_state(here, t, "Active")
    /\ xfer' = [xfer EXCEPT ![t] = "active"]
    /\ UNCHANGED <<result, reason, statusVars, engineVars, offset, resumes, userVarsDT>>

Cancelled(t) == reason[t] # {}

\* Transfers of f between the state they saved and the mark they will leave.
ToMark(f) ==
    {t \in Transfers : Source[t] = f /\ resumes[t] /\ xfer[t] \in {"saved", "locked", "sending", "unlocking"}}

\* A mutant of FreshState: a state that is there keeps its mark.
FreshStateKeepsMark(t) ==
    /\ save(Source[t], [hash |-> contents[Source[t]], last_offset |-> 0,
                        completed |-> saved[Source[t]].completed])
    /\ markers' = [markers EXCEPT ![Source[t]] = ToMark(Source[t]) \cup {t}]

FreshState(t) ==
    /\ save(Source[t], [hash |-> contents[Source[t]], last_offset |-> 0, completed |-> FALSE])
    /\ markers' = [markers EXCEPT ![Source[t]] = ToMark(Source[t]) \cup {t}]

\* execute_with_cancel(): a fresh resume state is saved (when the negotiated options
\* have resume), and the token is looked at.
SaveState(t) ==
    /\ xfer[t] = "active"
    /\ IF resumes[t] THEN FreshState(t) ELSE UNCHANGED <<saved, markers>>
    /\ xfer' = [xfer EXCEPT ![t] = IF Cancelled(t) THEN "result" ELSE "saved"]
    /\ result' = [result EXCEPT ![t] = IF Cancelled(t) THEN "Cancelled" ELSE @]
    /\ UNCHANGED <<managerVars, reason, statusVars, holder, handles, offset, resumes, userVarsDT>>

LockEngine(t) ==
    /\ xfer[t] = "saved" /\ holder = Nothing
    /\ holder' = t
    /\ xfer' = [xfer EXCEPT ![t] = "locked"]
    /\ UNCHANGED <<managerVars, result, reason, statusVars, handles, saved, markers, offset, resumes, userVarsDT>>

\* The engine looks at the token again, and registers the transfer under an id of
\* its own.
Execute(t) ==
    /\ xfer[t] = "locked"
    /\ IF Cancelled(t)
       THEN /\ result' = [result EXCEPT ![t] = from_anyhow({"cancel"} \cup reason[t])]
            /\ xfer' = [xfer EXCEPT ![t] = "unlocking"]
            /\ UNCHANGED handles
       ELSE /\ handles' = [handles EXCEPT ![t] = "Running"]
            /\ xfer' = [xfer EXCEPT ![t] = "sending"]
            /\ UNCHANGED result
    /\ UNCHANGED <<managerVars, reason, statusVars, holder, saved, markers, offset, resumes, userVarsDT>>

\* upload_file() returns: Ok, an error, or cancelled once the token is (see
\* FileTransfer; a token cancelled after the last chunk is not seen).
UploadEnds(t) ==
    /\ xfer[t] = "sending"
    /\ \E r \in {"Ok", from_anyhow({"reset"}), from_anyhow({"refused"})}
               \cup (IF Cancelled(t) THEN {from_anyhow({"cancel"} \cup reason[t])} ELSE {}) :
          /\ result' = [result EXCEPT ![t] = r]
          /\ handles' = [handles EXCEPT ![t] = IF r = "Ok" THEN "Completed" ELSE "Failed"]
    /\ xfer' = [xfer EXCEPT ![t] = "unlocking"]
    /\ UNCHANGED <<managerVars, reason, statusVars, holder, saved, markers, offset, resumes, userVarsDT>>

\* The mutex is released and the resume state updated.
UnlockEngine(t) ==
    /\ xfer[t] = "unlocking"
    /\ holder' = Nothing
    /\ IF ~resumes[t] THEN UNCHANGED saved
       ELSE IF result[t] = "Ok" THEN mark_completed(Source[t]) ELSE update_offset(Source[t], 0)
    /\ xfer' = [xfer EXCEPT ![t] = "result"]
    /\ UNCHANGED <<managerVars, result, reason, statusVars, handles, markers, offset, resumes, userVarsDT>>

\* A mutant of Record: every error is reported as a failure.
RecordFailed(t) ==
    LET new == IF result[t] = "Ok" THEN "Completed" ELSE "Failed"
    IN  /\ xfer[t] = "result"
        /\ update_state(here, t, IF result[t] = "Ok" THEN "Failed" ELSE new)
        /\ states' = [states EXCEPT ![t] = new]
        /\ transfers' = [transfers EXCEPT ![t] = new]
        /\ outcome' = [outcome EXCEPT ![t] = Append(@, new)]
        /\ xfer' = [xfer EXCEPT ![t] = "returned"]
        /\ UNCHANGED <<result, reason, engineVars, offset, resumes, userVarsDT>>

\* The outcome goes to the manager, which may refuse it, to states, to transfers and
\* to the event channel.
Record(t) ==
    LET session == CASE result[t] = "Ok" -> "Completed"
                     [] result[t] = "Cancelled" -> "Cancelled"
                     [] OTHER -> "Failed"
        status == IF result[t] = "Ok" THEN "Completed" ELSE "Failed"
    IN  /\ xfer[t] = "result"
        /\ update_state(here, t, session)
        /\ states' = [states EXCEPT ![t] = status]
        /\ transfers' = [transfers EXCEPT ![t] = status]
        /\ outcome' = [outcome EXCEPT ![t] = Append(@, session)]
        /\ xfer' = [xfer EXCEPT ![t] = "returned"]
        /\ UNCHANGED <<result, reason, engineVars, offset, resumes, userVarsDT>>

-----------------------------------------------------------------------------
(* Users *)

Call == userCalls < MaxUserCalls /\ userCalls' = userCalls + 1

\* cancel_session(): first the token ...
CancelToken(t, why) ==
    /\ Call /\ xfer[t] # "idle" /\ t \notin stopping
    /\ reason' = [reason EXCEPT ![t] = why]
    /\ stopping' = stopping \cup {t}
    /\ UNCHANGED <<managerVars, xfer, result, statusVars, engineVars, offset, resumes, contents, edits>>

\* ... then the manager.
CancelState(t) ==
    /\ t \in stopping
    /\ stopping' = stopping \ {t}
    /\ update_state(here, t, "Cancelled")
    /\ UNCHANGED <<xfer, result, reason, statusVars, engineVars, offset, resumes, contents, edits, userCalls>>

Exclusive == stopping = {} /\ \A t \in Transfers : ~Running(t)

\* TransferEngine::start(): Handshaking -> Active and Handshaking -> Completed are
\* refused, so the session stays in Handshaking however the upload ends.
EngineStart(t) ==
    /\ Call /\ Exclusive /\ xfer[t] = "idle"
    /\ create(here, t)
    /\ xfer' = [xfer EXCEPT ![t] = "aborted"]
    /\ \E h \in {"Completed", "Failed"} : handles' = [handles EXCEPT ![t] = h]
    /\ UNCHANGED <<result, reason, statusVars, holder, saved, markers, offset, resumes, stopping, contents, edits>>

\* pause() finds its transfer under the session id, the resume state is under the
\* file id: no offset is written.
Pause(t) ==
    /\ Call /\ Exclusive /\ states[t] = "Running"
    /\ states' = [states EXCEPT ![t] = "Paused"]
    /\ transfers' = [transfers EXCEPT ![t] = "Paused"]
    /\ UNCHANGED <<managerVars, xfer, result, reason, outcome, engineVars, offset, resumes, stopping, contents, edits>>

Resume(t) ==
    /\ Call /\ Exclusive /\ states[t] \in {"Paused", "Failed"}
    /\ states' = [states EXCEPT ![t] = "Running"]
    /\ transfers' = [transfers EXCEPT ![t] = IF @ = Nothing THEN @ ELSE "Running"]
    /\ UNCHANGED <<managerVars, xfer, result, reason, outcome, engineVars, offset, resumes, stopping, contents, edits>>

\* cancel() records a failure for any id; the engine's map has no such id to remove.
Cancel(t, why) ==
    /\ Call /\ Exclusive
    /\ reason' = [reason EXCEPT ![t] = IF xfer[t] = "idle" THEN @ ELSE why]
    /\ states' = [states EXCEPT ![t] = "Failed"]
    /\ transfers' = [transfers EXCEPT ![t] = IF @ = Nothing THEN @ ELSE "Failed"]
    /\ outcome' = [outcome EXCEPT ![t] = IF xfer[t] = "idle" THEN @ ELSE Append(@, "Cancelled")]
    /\ UNCHANGED <<managerVars, xfer, result, engineVars, offset, resumes, stopping, contents, edits>>

\* The user edits a source file.
Edit(f) ==
    /\ edits < MaxEdits /\ edits' = edits + 1
    /\ \E c \in Contents \ {contents[f]} : contents' = [contents EXCEPT ![f] = c]
    /\ UNCHANGED <<managerVars, xfer, result, reason, statusVars, engineVars, offset, resumes, stopping, userCalls>>

-----------------------------------------------------------------------------
TransferTask(t) ==
    \/ StartTransfer(t) \/ HandshakeFails(t) \/ HandshakeDone(t) \/ BecomeActive(t)
    \/ SaveState(t) \/ LockEngine(t) \/ Execute(t) \/ UploadEnds(t) \/ UnlockEngine(t)
    \/ Record(t)

DirectNext ==
    \/ \E t \in Transfers :
          \/ TransferTask(t) \/ CancelState(t) \/ EngineStart(t) \/ Pause(t) \/ Resume(t)
          \/ \E why \in Reasons : CancelToken(t, why) \/ Cancel(t, why)
    \/ \E f \in FileIds : Edit(f)

DirectSpec == DirectInit /\ [][DirectNext]_directVars

-----------------------------------------------------------------------------
(* Properties *)

\* When start_transfer() has returned, the manager, the event channel and its result
\* tell the same story, with one exception: a cancel_session() that came too late to
\* stop the upload has already closed the session as Cancelled.  Words in a reason
\* such as "timeout" turn a cancellation into a failure everywhere but there.
OutcomesAgree ==
    \A t \in Transfers : xfer[t] = "returned" =>
        LET told == outcome[t][1] IN
        /\ told = "Completed" <=> result[t] = "Ok"
        /\ active[here][t] = "absent"
        /\ Recorded(here, t) \subseteq {told} \cup (IF Cancelled(t) THEN {"Cancelled"} ELSE {})
        /\ handles[t] = "Completed" <=> told = "Completed"

\* list_resumable() offers the state of a file until a transfer that was to mark it has been
\* sent.  The states are kept per file, not per transfer, and the engine's mutex is released
\* before the mark: a transfer that was overtaken marks the state of the one that overtook
\* it, which is then no longer offered whatever becomes of that one.  No transfer that was
\* over before the state was saved ever counts, and no mark is lost (save, mark_completed,
\* update_offset of resume.rs).
ResumableUntilSent ==
    \A f \in FileIds : saved[f].completed <=>
        \E t \in markers[f] : xfer[t] \in {"result", "returned"} /\ result[t] = "Ok"
=============================================================================
