------------------------- MODULE SessionNegotiation -------------------------
(***************************************************************************)
(* The negotiated file transfer of crates/transfer_engine/src/lib.rs: the  *)
(* initiator's start_session() and the upload task it spawns, the          *)
(* receiver's handle_incoming_session(), and the user of either device     *)
(* calling accept_session(), reject_session() and cancel_session().  Each  *)
(* of them is a task of its own; they meet in the session manager, the     *)
(* cancel tokens, the responders and the engine's mutex.                   *)
(*                                                                         *)
(* A step is what a task does between two awaits at which another task     *)
(* could make a difference.  The file bytes, the progress counters and the *)
(* names in the payloads are left out.                                     *)
(***************************************************************************)
EXTENDS SessionManager

CONSTANTS
    From, To,       \* From[s] starts session s with its peer To[s]
    Files,          \* number of files of a session
    MaxCalls,       \* bound on the calls users make (accept, reject, cancel)
    None

ASSUME NegotiationAssumption ==
    /\ From \in [Sessions -> Devices] /\ To \in [Sessions -> Devices]
    /\ \A s \in Sessions : From[s] # To[s]
    /\ Files \in Nat /\ MaxCalls \in Nat
    /\ None \notin Sessions

VARIABLES
    starter,    \* starter[s]: where start_session() is
    upload,     \* upload[s]: where the spawned upload task is
    sent,       \* sent[s]: files whose upload returned Ok
    token,      \* token[s]: the CancelToken of the upload task
    engine,     \* engine[d]: the session whose upload holds the engine mutex
    incoming,   \* incoming[s]: where handle_incoming_session() is
    responder,  \* responder[s]: session_responders has an entry for s
    oneshot,    \* oneshot[s]: what was sent to the waiting handler
    wire,       \* wire[s]: the message in flight on the session's connection
    link,       \* link[s]: "up" while that connection works
    cancelling, \* cancel_session() calls between the token and the manager
    events,     \* events[d][s]: the kinds of session events emitted at d
    consent,    \* consent[s]: the receiving user has called accept_session (history)
    calls       \* user calls so far

taskVars == <<starter, upload, sent, token, engine>>
peerVars == <<incoming, responder, oneshot>>
netVars  == <<wire, link>>
userVars == <<cancelling, consent, calls>>
vars == <<managerVars, taskVars, peerVars, netVars, userVars, events>>

EventKinds == {"Started", "Requested", "Active", "Completed", "Failed", "Cancelled"}

TaskTypeOK ==
    /\ starter \in [Sessions -> {"idle", "created", "negotiating", "awaiting", "returned", "error"}]
    /\ upload \in [Sessions -> {"none", "spawned", "next", "queued", "sending",
                                "failed", "Completed", "Failed", "Cancelled", "ended"}]
    /\ sent \in [Sessions -> 0..Files]
    /\ token \in [Sessions -> {"none", "live", "cancelled"}]
    /\ engine \in [Devices -> Sessions \cup {None}]
    /\ incoming \in [Sessions -> {"none", "created", "waiting", "accepting", "rejecting",
                                  "accepted", "rejected", "done", "error"}]
    /\ responder \in [Sessions -> BOOLEAN]
    /\ oneshot \in [Sessions -> {"empty", "accept", "reject"}]
    /\ wire \in [Sessions -> {"none", "request", "accept", "reject"}]
    /\ link \in [Sessions -> {"none", "up", "down"}]
    /\ cancelling \subseteq Devices \X Sessions
    /\ events \in [Devices -> [Sessions -> SUBSET EventKinds]]
    /\ consent \in [Sessions -> BOOLEAN]
    /\ calls \in 0..MaxCalls

\* The types of the session manager and of the tasks around it.
SessionTypeOK == ManagerTypeOK /\ TaskTypeOK

Init ==
    /\ ManagerInit
    /\ starter = [s \in Sessions |-> "idle"]
    /\ upload = [s \in Sessions |-> "none"]
    /\ sent = [s \in Sessions |-> 0]
    /\ token = [s \in Sessions |-> "none"]
    /\ engine = [d \in Devices |-> None]
    /\ incoming = [s \in Sessions |-> "none"]
    /\ responder = [s \in Sessions |-> FALSE]
    /\ oneshot = [s \in Sessions |-> "empty"]
    /\ wire = [s \in Sessions |-> "none"]
    /\ link = [s \in Sessions |-> "none"]
    /\ cancelling = {}
    /\ events = [d \in Devices |-> [s \in Sessions |-> {}]]
    /\ consent = [s \in Sessions |-> FALSE]
    /\ calls = 0

-----------------------------------------------------------------------------
\* emit_session_event(): an event goes to the session's channel, if there is one; the
\* channel is created right before the first event of either side.
emit(d, s, kind) ==
    events' = [events EXCEPT ![d][s] =
                 IF @ # {} \/ kind \in {"Started", "Requested"} THEN @ \cup {kind} ELSE @]

\* start_session() creates the session ...
StartSession(s) ==
    /\ starter[s] = "idle"
    /\ create(From[s], s)
    /\ starter' = [starter EXCEPT ![s] = "created"]
    /\ UNCHANGED <<upload, sent, token, engine, peerVars, netVars, userVars, events>>

\* ... announces it ...
StartNegotiating(s) ==
    /\ starter[s] = "created"
    /\ update_state(From[s], s, "Negotiating")
    /\ emit(From[s], s, "Started")
    /\ starter' = [starter EXCEPT ![s] = "negotiating"]
    /\ UNCHANGED <<upload, sent, token, engine, peerVars, netVars, userVars>>

\* ... connects and writes the request.
SendRequest(s) ==
    /\ starter[s] = "negotiating"
    /\ link' = [link EXCEPT ![s] = "up"]
    /\ wire' = [wire EXCEPT ![s] = "request"]
    /\ starter' = [starter EXCEPT ![s] = "awaiting"]
    /\ UNCHANGED <<managerVars, upload, sent, token, engine, peerVars, userVars, events>>

\* A connect, write or read error returns with the session as it is.
ConnectFails(s) ==
    /\ starter[s] = "negotiating"
    /\ starter' = [starter EXCEPT ![s] = "error"]
    /\ UNCHANGED <<managerVars, upload, sent, token, engine, peerVars, netVars, userVars, events>>

ReadFails(s) ==
    /\ starter[s] = "awaiting"
    /\ link[s] = "down"
    /\ starter' = [starter EXCEPT ![s] = "error"]
    /\ UNCHANGED <<managerVars, upload, sent, token, engine, peerVars, netVars, userVars, events>>

\* Accept: the result of update_state is ignored, the upload task is spawned.
RecvAccept(s) ==
    /\ starter[s] = "awaiting" /\ wire[s] = "accept"
    /\ update_state(From[s], s, "Active")
    /\ emit(From[s], s, "Active")
    /\ starter' = [starter EXCEPT ![s] = "returned"]
    /\ upload' = [upload EXCEPT ![s] = "spawned"]
    /\ wire' = [wire EXCEPT ![s] = "none"]
    /\ UNCHANGED <<sent, token, engine, peerVars, link, userVars>>

RecvReject(s) ==
    /\ starter[s] = "awaiting" /\ wire[s] = "reject"
    /\ update_state(From[s], s, "Failed")
    /\ emit(From[s], s, "Failed")
    /\ starter' = [starter EXCEPT ![s] = "returned"]
    /\ wire' = [wire EXCEPT ![s] = "none"]
    /\ UNCHANGED <<upload, sent, token, engine, peerVars, link, userVars>>

-----------------------------------------------------------------------------
(* The upload task *)

\* What no step of the upload task touches.
otherTasks == <<starter, peerVars, netVars, userVars>>

\* The token that cancel_session() looks for is only inserted here.
InsertToken(s) ==
    /\ upload[s] = "spawned"
    /\ token' = [token EXCEPT ![s] = "live"]
    /\ upload' = [upload EXCEPT ![s] = "next"]
    /\ UNCHANGED <<managerVars, sent, engine, events, otherTasks>>

\* execute_with_cancel() of the coordinator looks at the token, then waits for the
\* engine, which serves one upload of the device at a time.
NextFile(s) ==
    /\ upload[s] = "next" /\ sent[s] < Files
    /\ upload' = [upload EXCEPT ![s] = IF token[s] = "cancelled" THEN "failed" ELSE "queued"]
    /\ UNCHANGED <<managerVars, sent, token, engine, events, otherTasks>>

\* A mutant of LockEngine: the mutex is not waited for.
LockEngine_unguarded(s) ==
    /\ upload[s] = "queued"
    /\ IF token[s] = "cancelled"
       THEN upload' = [upload EXCEPT ![s] = "failed"] /\ UNCHANGED engine
       ELSE /\ upload' = [upload EXCEPT ![s] = "sending"]
            /\ engine' = [engine EXCEPT ![From[s]] = s]
    /\ UNCHANGED <<managerVars, sent, token, events, otherTasks>>

\* With the mutex, execute_with_cancel() of the engine looks at the token again.
LockEngine(s) ==
    /\ upload[s] = "queued" /\ engine[From[s]] = None
    /\ IF token[s] = "cancelled"
       THEN upload' = [upload EXCEPT ![s] = "failed"] /\ UNCHANGED engine
       ELSE /\ upload' = [upload EXCEPT ![s] = "sending"]
            /\ engine' = [engine EXCEPT ![From[s]] = s]
    /\ UNCHANGED <<managerVars, sent, token, events, otherTasks>>

\* upload_file() returns Ok.
SentFile(s) ==
    /\ upload[s] = "sending"
    /\ sent' = [sent EXCEPT ![s] = @ + 1]
    /\ upload' = [upload EXCEPT ![s] = "next"]
    /\ engine' = [engine EXCEPT ![From[s]] = None]
    /\ UNCHANGED <<managerVars, token, events, otherTasks>>

\* A mutant of SendFails: the error is logged and all_succeeded stays true.
SendFails_ignored(s) ==
    /\ upload[s] = "sending"
    /\ upload' = [upload EXCEPT ![s] = "Completed"]
    /\ engine' = [engine EXCEPT ![From[s]] = None]
    /\ UNCHANGED <<managerVars, sent, token, events, otherTasks>>

\* It returns an error, of the network or because a chunk boundary sees the token:
\* all_succeeded becomes false and the loop is left.
SendFails(s) ==
    /\ upload[s] = "sending"
    /\ upload' = [upload EXCEPT ![s] = "failed"]
    /\ engine' = [engine EXCEPT ![From[s]] = None]
    /\ UNCHANGED <<managerVars, sent, token, events, otherTasks>>

\* A mutant of DecideOutcome: the token is not looked at again after the loop.
DecideOutcome_unchecked(s) ==
    /\ \/ upload[s] = "next" /\ sent[s] = Files
       \/ upload[s] = "failed"
    /\ upload' = [upload EXCEPT ![s] = IF @ = "next" THEN "Completed" ELSE "Failed"]
    /\ UNCHANGED <<managerVars, sent, token, engine, events, otherTasks>>

\* After the loop, all_succeeded and the token decide what will be reported.
DecideOutcome(s) ==
    /\ \/ upload[s] = "next" /\ sent[s] = Files
       \/ upload[s] = "failed"
    /\ upload' = [upload EXCEPT ![s] = IF token[s] = "cancelled" THEN "Cancelled"
                                       ELSE IF @ = "next" THEN "Completed" ELSE "Failed"]
    /\ UNCHANGED <<managerVars, sent, token, engine, events, otherTasks>>

\* The outcome is recorded and announced (a cancellation as SessionFailed) and the
\* token removed from the map.
ReportOutcome(s) ==
    /\ upload[s] \in is_terminal
    /\ update_state(From[s], s, upload[s])
    /\ emit(From[s], s, IF upload[s] = "Completed" THEN "Completed" ELSE "Failed")
    /\ upload' = [upload EXCEPT ![s] = "ended"]
    /\ token' = [token EXCEPT ![s] = "none"]
    /\ UNCHANGED <<sent, engine, otherTasks>>

-----------------------------------------------------------------------------
(* The receiver *)

\* handle_incoming_session() reads the request and creates its side of the session ...
RecvRequest(s) ==
    /\ incoming[s] = "none" /\ wire[s] = "request"
    /\ create(To[s], s)
    /\ incoming' = [incoming EXCEPT ![s] = "created"]
    /\ wire' = [wire EXCEPT ![s] = "none"]
    /\ UNCHANGED <<taskVars, responder, oneshot, link, userVars, events>>

\* ... and waits for the user.
AskUser(s) ==
    /\ incoming[s] = "created"
    /\ responder' = [responder EXCEPT ![s] = TRUE]
    /\ emit(To[s], s, "Requested")
    /\ incoming' = [incoming EXCEPT ![s] = "waiting"]
    /\ UNCHANGED <<managerVars, taskVars, oneshot, netVars, userVars>>

TakeAnswer(s) ==
    /\ incoming[s] = "waiting" /\ oneshot[s] # "empty"
    /\ incoming' = [incoming EXCEPT ![s] = IF oneshot[s] = "accept" THEN "accepting"
                                                                  ELSE "rejecting"]
    /\ UNCHANGED <<managerVars, taskVars, responder, oneshot, netVars, userVars, events>>

\* A mutant of ApprovalTimeout: silence is taken for consent.
ApprovalTimeout_accepts(s) ==
    /\ incoming[s] = "waiting"
    /\ incoming' = [incoming EXCEPT ![s] = "accepting"]
    /\ UNCHANGED <<managerVars, taskVars, responder, oneshot, netVars, userVars, events>>

\* A mutant of ApprovalTimeout: no limit on the wait.
ApprovalTimeout_never(s) == FALSE /\ UNCHANGED vars

\* 60 s without an answer, or with one that comes as the timer fires.
ApprovalTimeout(s) ==
    /\ incoming[s] = "waiting"
    /\ incoming' = [incoming EXCEPT ![s] = "rejecting"]
    /\ UNCHANGED <<managerVars, taskVars, responder, oneshot, netVars, userVars, events>>

\* The answer is written to the connection ...
SendAnswer(s) ==
    /\ incoming[s] \in {"accepting", "rejecting"}
    /\ link[s] = "up"
    /\ wire' = [wire EXCEPT ![s] = IF incoming[s] = "accepting" THEN "accept" ELSE "reject"]
    /\ incoming' = [incoming EXCEPT ![s] = IF @ = "accepting" THEN "accepted" ELSE "rejected"]
    /\ UNCHANGED <<managerVars, taskVars, responder, oneshot, link, userVars, events>>

\* ... which may fail: the handler returns at once.
AnswerFails(s) ==
    /\ incoming[s] \in {"accepting", "rejecting"}
    /\ link[s] = "down"
    /\ incoming' = [incoming EXCEPT ![s] = "error"]
    /\ UNCHANGED <<managerVars, taskVars, responder, oneshot, netVars, userVars, events>>

\* The handler updates its side, announces it and removes the responder.
FinishIncoming(s) ==
    /\ incoming[s] \in {"accepted", "rejected"}
    /\ update_state(To[s], s, IF incoming[s] = "accepted" THEN "Active" ELSE "Failed")
    /\ emit(To[s], s, IF incoming[s] = "accepted" THEN "Active" ELSE "Failed")
    /\ incoming' = [incoming EXCEPT ![s] = "done"]
    /\ responder' = [responder EXCEPT ![s] = FALSE]
    /\ UNCHANGED <<taskVars, oneshot, netVars, userVars>>

-----------------------------------------------------------------------------
(* The users and the network *)

Call == calls < MaxCalls /\ calls' = calls + 1

\* The answer reaches the handler only if the responder is registered and the
\* handler has not taken the timeout (the receiver of the oneshot is then gone).
respond(s, answer) ==
    /\ responder' = [responder EXCEPT ![s] = FALSE]
    /\ oneshot' = [oneshot EXCEPT ![s] =
                     IF responder[s] /\ incoming[s] = "waiting" THEN answer ELSE @]

accept_session(s) ==
    /\ Call /\ incoming[s] # "none"
    /\ respond(s, "accept")
    /\ update_state(To[s], s, "Active")
    /\ emit(To[s], s, "Active")
    /\ consent' = [consent EXCEPT ![s] = TRUE]
    /\ UNCHANGED <<taskVars, incoming, netVars, cancelling>>

reject_session(s) ==
    /\ Call /\ incoming[s] # "none"
    /\ respond(s, "reject")
    /\ update_state(To[s], s, "Failed")
    /\ emit(To[s], s, "Failed")
    /\ UNCHANGED <<taskVars, incoming, netVars, cancelling, consent>>

\* cancel_session() signals the token if there is one ...
CancelToken(d, s) ==
    /\ Call /\ <<d, s>> \notin cancelling
    /\ \/ d = From[s] /\ starter[s] # "idle"
       \/ d = To[s] /\ incoming[s] # "none"
    /\ token' = [token EXCEPT ![s] = IF d = From[s] /\ @ = "live" THEN "cancelled" ELSE @]
    /\ cancelling' = cancelling \cup {<<d, s>>}
    /\ UNCHANGED <<managerVars, starter, upload, sent, engine, peerVars, netVars, consent, events>>

\* ... and then records and announces the cancellation.
CancelRecord(d, s) ==
    /\ <<d, s>> \in cancelling
    /\ update_state(d, s, "Cancelled")
    /\ emit(d, s, "Cancelled")
    /\ cancelling' = cancelling \ {<<d, s>>}
    /\ UNCHANGED <<taskVars, peerVars, netVars, consent, calls>>

\* The connection breaks; what it carried is lost.
LinkBreaks(s) ==
    /\ link[s] = "up" /\ starter[s] = "awaiting"
    /\ link' = [link EXCEPT ![s] = "down"]
    /\ wire' = [wire EXCEPT ![s] = "none"]
    /\ UNCHANGED <<managerVars, taskVars, peerVars, userVars, events>>

Starts(s) ==
    \/ StartSession(s)
    \/ ConnectFails(s)

StarterRuns(s) ==
    \/ StartNegotiating(s)
    \/ SendRequest(s)
    \/ ReadFails(s)
    \/ RecvAccept(s)
    \/ RecvReject(s)

UploadRuns(s) ==
    \/ InsertToken(s)
    \/ NextFile(s)
    \/ SentFile(s)
    \/ SendFails(s)
    \/ DecideOutcome(s)
    \/ ReportOutcome(s)

ReceiverRuns(s) ==
    \/ RecvRequest(s)
    \/ AskUser(s)
    \/ TakeAnswer(s)
    \/ ApprovalTimeout(s)
    \/ SendAnswer(s)
    \/ AnswerFails(s)
    \/ FinishIncoming(s)

User ==
    \/ \E s \in Sessions : accept_session(s) \/ reject_session(s)
    \/ \E d \in Devices, s \in Sessions : CancelToken(d, s)

Next ==
    \/ \E s \in Sessions : Starts(s)
    \/ \E s \in Sessions : StarterRuns(s)
    \/ \E s \in Sessions : UploadRuns(s) \/ LockEngine(s)
    \/ \E s \in Sessions : ReceiverRuns(s)
    \/ User
    \/ \E d \in Devices, s \in Sessions : CancelRecord(d, s)
    \/ \E s \in Sessions : LinkBreaks(s)

Spec == Init /\ [][Next]_vars

\* The tokio tasks run, the approval timer fires, an upload ends (SentFile or
\* SendFails) and the engine mutex is fair.  Nobody has to start a session, answer
\* or cancel, and no connection has to break.
Fairness ==
    \A s \in Sessions :
        /\ WF_vars(StarterRuns(s))
        /\ WF_vars(UploadRuns(s))
        /\ SF_vars(LockEngine(s))
        /\ WF_vars(ReceiverRuns(s))

FairSpec == Spec /\ Fairness

-----------------------------------------------------------------------------
(* Properties *)

\* No file leaves the initiator without the receiving user's consent, in whatever
\* order answers, timeouts and cancellations happen.
UploadNeedsConsent ==
    \A s \in Sessions : (upload[s] # "none" \/ "Active" \in events[From[s]][s]) => consent[s]

\* A session is recorded as completed only if the upload of every file returned Ok
\* and the receiver accepted it.
CompletedIsSent ==
    \A s \in Sessions : "Completed" \in Recorded(From[s], s) => sent[s] = Files /\ consent[s]

\* The engine mutex belongs to an upload that is sending, so an upload that ended,
\* failed or was cancelled never leaves the device's other sessions waiting.
EngineHeldBySender ==
    \A s \in Sessions : engine[From[s]] = s <=> upload[s] = "sending"

\* An initiator whose request went out learns how it ends: accepted and uploaded to
\* the end, rejected, or given up with an error, even if the other user never answers.
RequestEnds ==
    \A s \in Sessions :
        starter[s] = "awaiting" ~> \/ starter[s] = "error"
                                   \/ starter[s] = "returned" /\ upload[s] \in {"none", "ended"}

\* A cancellation that finds the token while files are still being sent ends the
\* upload, and SessionCompleted is not announced for it.
CancelTakesEffect ==
    \A s \in Sessions :
        (token[s] = "cancelled" /\ upload[s] \in {"next", "queued", "sending", "failed"})
        ~> (upload[s] = "ended" /\ "Completed" \notin events[From[s]][s])

\* A receiver that accepted has the session Active: "We transition the session to
\* Active." (handle_incoming_session).
ReceiverBecomesActive ==
    \A s \in Sessions :
        incoming[s] = "done" /\ active[To[s]][s] # "absent" => active[To[s]][s] = "Active"

\* "Cancel signal shared between API user and transfer task" (CancelToken): a file
\* is not being sent for a session recorded as cancelled unless the upload task has
\* been signalled and will stop at the next chunk.
CancelReachesUpload ==
    \A s \in Sessions :
        "Cancelled" \in Recorded(From[s], s) /\ upload[s] = "sending" => token[s] = "cancelled"
=============================================================================
