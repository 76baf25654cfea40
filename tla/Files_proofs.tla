---------------------------- MODULE Files_proofs ----------------------------
(***************************************************************************)
(* What the ways of sending a file record and report, and the properties   *)
(* of all of them side by side.                                            *)
(***************************************************************************)
EXTENDS MC_Files, Transport_proofs, Delivery_proofs, SessionManager_proofs

-----------------------------------------------------------------------------
(* DirectTransfer.  While start_transfer() runs, its session is where the   *)
(* steps so far have taken it, or a cancel_session() has closed it; then    *)
(* the only record is Cancelled, and the token is cancelled.                *)

\* What a late cancel_session() may have recorded.
Late(t) == IF Cancelled(t) THEN {"Cancelled"} ELSE {}

Beginning == {"idle", "registered", "negotiating", "active", "saved", "locked", "sending"}

Story(t) ==
    /\ offset[t] = 0
    /\ xfer[t] = "idle" => Untouched(here, t) /\ t \notin stopping
    /\ t \in stopping => Cancelled(t)
    /\ xfer[t] \in Beginning => result[t] = Nothing /\ handles[t] # "Completed"
    /\ xfer[t] \in {"unlocking", "result", "returned"} => (handles[t] = "Completed" <=> result[t] = "Ok")
    /\ xfer[t] \notin {"returned", "aborted"} => outcome[t] = <<>> /\ Recorded(here, t) \subseteq Late(t)
    /\ xfer[t] = "registered" => active[here][t] \in {"Handshaking", "absent"}
    /\ xfer[t] = "negotiating" => active[here][t] \in {"Negotiating", "absent"}
    /\ xfer[t] \in {"active", "saved", "locked", "sending", "unlocking", "result"} =>
          active[here][t] \in {"Active", "absent"}
    /\ xfer[t] = "returned" =>
          /\ outcome[t] # <<>> /\ (outcome[t][1] = "Completed" <=> result[t] = "Ok")
          /\ active[here][t] = "absent"
          /\ Recorded(here, t) \subseteq {outcome[t][1]} \cup Late(t)

DirectMore ==
    /\ reason \in [Transfers -> {{}} \cup Reasons]
    /\ outcome \in [Transfers -> Seq(is_terminal)]
    /\ saved \in [FileIds -> [hash : Contents \cup {Nothing}, last_offset : {0}, completed : BOOLEAN]]

\* The transfers that were to mark the state on disk are the ones that still do (ToMark)
\* and the ones that are over since; the state is there for them to mark.
Marking == {"saved", "locked", "sending", "unlocking"}
Marked(t) == xfer[t] \in {"result", "returned"} /\ result[t] = "Ok"

StateKept(f) ==
    /\ saved[f].completed <=> \E t \in markers[f] : Marked(t)
    /\ markers[f] # {} => saved[f].hash # Nothing
    /\ \A t \in markers[f] : Source[t] = f /\ resumes[t] /\ xfer[t] \in Marking \cup {"result", "returned"}
    /\ \A t \in Transfers : Source[t] = f /\ resumes[t] /\ xfer[t] \in Marking => t \in markers[f]

StatesKept == \A f \in FileIds : StateKept(f)

DirectInv ==
    /\ ManagerInv /\ DirectTypeOK /\ DirectMore /\ StatesKept
    /\ \A t \in Transfers : Story(t)

LEMMA FromAnyhowKind == \A words : from_anyhow(words) \in Kinds
  BY DEF from_anyhow, Kinds

\* update_state() on the session of t: what it does to the sessions of the device.
LEMMA DirectUpdate ==
    ASSUME ManagerInv, NEW t \in Transfers, NEW state \in States, update_state(here, t, state)
    PROVE  /\ ManagerInv'
           /\ \A o \in Transfers : Untouched(here, o) => Untouched(here, o)'
           /\ \A o \in Transfers : o # t => /\ active'[here][o] = active[here][o]
                                            /\ Recorded(here, o)' \subseteq Recorded(here, o)
           /\ Recorded(here, t)' \subseteq Recorded(here, t) \cup {state}
           /\ state \notin is_terminal => Recorded(here, t)' \subseteq Recorded(here, t)
           /\ active'[here][t] = IF ~valid_transition(active[here][t], state) THEN active[here][t]
                                 ELSE IF state \in is_terminal THEN "absent" ELSE state
  <1>1. here \in Devices /\ t \in Sessions /\ Transfers \subseteq Sessions
    BY DirectAssumption
  <1>2. /\ ManagerInv'
        /\ \A e \in Devices, o \in Sessions : Untouched(e, o) => Untouched(e, o)'
        /\ \A e \in Devices : \A i \in DOMAIN history'[e] :
              \/ \E j \in DOMAIN history[e] : history'[e][i] = history[e][j]
              \/ e = here /\ history'[e][i] = [id |-> t, state |-> state]
    BY <1>1, UpdateState, ManagerAssumption
  <1>3. \A i \in DOMAIN history'[here] :
              \/ \E j \in DOMAIN history[here] : history'[here][i] = history[here][j]
              \/ history'[here][i] = [id |-> t, state |-> state]
    BY <1>1, <1>2
  <1>4. history' \in [Devices -> Seq(Ended)]
    BY <1>2 DEF ManagerInv
  <1>5. \A i \in DOMAIN history'[here] : history'[here][i] \in Ended
    BY <1>1, <1>4
  <1>6. ASSUME NEW o \in Transfers, o # t PROVE Recorded(here, o)' \subseteq Recorded(here, o)
    BY <1>3, <1>6 DEF Recorded
  <1>7. Recorded(here, t)' \subseteq Recorded(here, t) \cup {state}
    BY <1>3 DEF Recorded
  <1>8. ASSUME state \notin is_terminal PROVE Recorded(here, t)' \subseteq Recorded(here, t)
    <2>1. \A i \in DOMAIN history'[here] : history'[here][i] # [id |-> t, state |-> state]
      BY <1>5, <1>8 DEF Ended
    <2>2. QED
      BY <1>3, <2>1 DEF Recorded
  <1>9. active \in [Devices -> [Sessions -> Live \cup {"absent"}]]
    BY DEF ManagerInv
  <1>10. \A o \in Transfers : o # t => active'[here][o] = active[here][o]
    BY <1>1, <1>9 DEF update_state, managerVars
  <1>11. active'[here][t] = IF ~valid_transition(active[here][t], state) THEN active[here][t]
                            ELSE IF state \in is_terminal THEN "absent" ELSE state
    BY <1>1, <1>9 DEF update_state, managerVars
  <1>12. QED
    BY <1>1, <1>2, <1>6, <1>7, <1>8, <1>10, <1>11

\* A transfer whose own steps do not move keeps its story, while sessions only end,
\* and cancelled tokens stay cancelled.
LEMMA StoryKept ==
    ASSUME NEW o \in Transfers, Story(o),
           offset'[o] = offset[o], xfer'[o] = xfer[o], result'[o] = result[o],
           handles'[o] = handles[o], outcome'[o] = outcome[o],
           Untouched(here, o) => Untouched(here, o)',
           active'[here][o] = active[here][o], Recorded(here, o)' \subseteq Recorded(here, o),
           Cancelled(o) => Cancelled(o)',
           o \in stopping' => o \in stopping \/ (xfer[o] # "idle" /\ Cancelled(o)')
    PROVE  Story(o)'
  <1>1. Late(o) \subseteq Late(o)'
    BY DEF Late
  <1>2. QED
    BY <1>1 DEF Story

LEMMA ManagerSame ==
    ASSUME UNCHANGED managerVars
    PROVE  /\ ManagerInv => ManagerInv'
           /\ \A o \in Transfers : /\ Untouched(here, o) => Untouched(here, o)'
                                   /\ active'[here][o] = active[here][o]
                                   /\ Recorded(here, o)' = Recorded(here, o)
  BY DEF managerVars, ManagerInv, GoodHistory, Untouched, Recorded

LEMMA DirectInit_Inv == DirectInit => DirectInv
  <1> SUFFICES ASSUME DirectInit PROVE DirectInv
    OBVIOUS
  <1>1. here \in Devices /\ Transfers \subseteq Sessions
    BY DirectAssumption
  <1>2. ManagerInit
    BY DEF DirectInit
  <1>3. /\ active \in [Devices -> [Sessions -> Live \cup {"absent"}]]
        /\ \A d \in Devices : history[d] = <<>> /\ \A s \in Sessions : active[d][s] = "absent"
        /\ history \in [Devices -> Seq(Ended)]
    BY <1>2 DEF ManagerInit
  <1>4. ManagerInv
    BY <1>3, ManagerAssumption DEF ManagerInv, GoodHistory, ManagerAssumption
  <1>5. DirectTypeOK
    BY <1>3 DEF DirectInit, DirectTypeOK, ManagerTypeOK, Statuses, Nothing
  <1>6. DirectMore
    BY DEF DirectInit, DirectMore, NoState, Nothing
  <1>7. StatesKept
    BY DEF StatesKept, StateKept, DirectInit, NoState, Marking
  <1>8. ASSUME NEW t \in Transfers PROVE Story(t)
    <2>1. /\ offset[t] = 0 /\ xfer[t] = "idle" /\ result[t] = Nothing /\ handles[t] = Nothing
          /\ outcome[t] = <<>> /\ stopping = {}
      BY DEF DirectInit
    <2>2. Untouched(here, t) /\ Recorded(here, t) = {}
      BY <1>1, <1>3 DEF Untouched, Recorded
    <2>3. QED
      BY <2>1, <2>2 DEF Story, Nothing, Beginning
  <1>9. QED
    BY <1>4, <1>5, <1>6, <1>7, <1>8 DEF DirectInv

\* The types, of every variable but the manager's.
LEMMA DirectTypes ==
    ASSUME DirectInv, ManagerInv', DirectNext
    PROVE  DirectTypeOK' /\ DirectMore'
  <1>1. ManagerTypeOK'
    BY DEF ManagerInv, ManagerTypeOK
  <1>2. DirectTypeOK /\ DirectMore
    BY DEF DirectInv
  <1>3. \A t \in Transfers : Source[t] \in FileIds
    BY DEF FileIds
  <1>4. ASSUME NEW t \in Transfers,
               StartTransfer(t) \/ HandshakeFails(t) \/ HandshakeDone(t) \/ BecomeActive(t)
        PROVE  DirectTypeOK' /\ DirectMore'
    <2>1. \A f \in FileIds : can_resume(f) = 0
      BY <1>2 DEF DirectMore, can_resume
    <2>2. UNCHANGED <<result, reason, outcome, engineVars, userVarsDT>>
      BY <1>4 DEF StartTransfer, HandshakeFails, HandshakeDone, BecomeActive, statusVars
    <2>3. DirectMore'
      BY <1>2, <2>2 DEF DirectMore, engineVars
    <2>4. states' \in [Transfers -> Statuses] /\ transfers' \in [Transfers -> Statuses]
      BY <1>2, <1>4 DEF DirectTypeOK, Statuses, StartTransfer, HandshakeFails, HandshakeDone, BecomeActive,
                        statusVars
    <2>5. offset' \in [Transfers -> Nat]
      <3>1. offset' = offset \/ offset' = [offset EXCEPT ![t] = 0]
        BY <1>3, <1>4, <2>1 DEF StartTransfer, HandshakeFails, HandshakeDone, BecomeActive
      <3>2. QED
        BY <1>2, <3>1 DEF DirectTypeOK
    <2>6. resumes' \in [Transfers -> BOOLEAN]
      <3>1. resumes' = resumes \/ \E b \in BOOLEAN : resumes' = [resumes EXCEPT ![t] = b]
        <4>1. \A theirs \in BOOLEAN : negotiate(resumes[t], theirs) \in BOOLEAN
          BY DEF negotiate
        <4>2. QED
          BY <1>4, <4>1 DEF StartTransfer, HandshakeFails, HandshakeDone, BecomeActive
      <3>2. QED
        BY <1>2, <3>1 DEF DirectTypeOK
    <2>7. xfer' \in [Transfers -> {"idle", "registered", "negotiating", "active", "saved", "locked",
                                   "sending", "unlocking", "result", "returned", "aborted"}]
      BY <1>2, <1>4 DEF DirectTypeOK, StartTransfer, HandshakeFails, HandshakeDone, BecomeActive
    <2>8. QED
      BY <1>1, <1>2, <2>2, <2>3, <2>4, <2>5, <2>6, <2>7 DEF DirectTypeOK, engineVars, userVarsDT
  <1>5. ASSUME NEW t \in Transfers, SaveState(t) \/ UnlockEngine(t)
        PROVE  DirectTypeOK' /\ DirectMore'
    <2>1. saved' \in [FileIds -> [hash : Contents \cup {Nothing}, last_offset : {0}, completed : BOOLEAN]]
      <3> DEFINE f == Source[t]
                 R == [hash : Contents \cup {Nothing}, last_offset : {0}, completed : BOOLEAN]
      <3>1. f \in FileIds /\ saved \in [FileIds -> R] /\ saved[f] \in R /\ contents[f] \in Contents
        BY <1>2, <1>3 DEF DirectMore, DirectTypeOK
      <3>2. /\ [hash |-> contents[f], last_offset |-> 0, completed |-> FALSE] \in R
            /\ [saved[f] EXCEPT !.completed = TRUE] \in R
            /\ [saved[f] EXCEPT !.last_offset = 0] \in R
        BY <3>1
      <3>3. \/ saved' = saved
            \/ saved' = [saved EXCEPT ![f] = [hash |-> contents[f], last_offset |-> 0, completed |-> FALSE]]
            \/ saved' = [saved EXCEPT ![f] = [saved[f] EXCEPT !.completed = TRUE]]
            \/ saved' = [saved EXCEPT ![f] = [saved[f] EXCEPT !.last_offset = 0]]
            \/ saved' = [saved EXCEPT ![f] = saved[f]]
        BY <1>5 DEF SaveState, FreshState, UnlockEngine, save, mark_completed, update_offset
      <3> HIDE DEF f, R
      <3>4. QED
        BY <3>1, <3>2, <3>3 DEF R
    <2>2. UNCHANGED <<reason, statusVars, handles, offset, resumes, userVarsDT>>
      BY <1>5 DEF SaveState, UnlockEngine
    <2>3. /\ holder' \in {holder, Nothing}
          /\ xfer' \in [Transfers -> {"idle", "registered", "negotiating", "active", "saved", "locked",
                                   "sending", "unlocking", "result", "returned", "aborted"}]
          /\ result' \in [Transfers -> Kinds \cup {Nothing, "Ok"}]
      BY <1>2, <1>5 DEF SaveState, UnlockEngine, DirectTypeOK, Kinds
    <2>4. markers' \in [FileIds -> SUBSET Transfers]
      <3>1. \/ markers' = markers
            \/ markers' = [markers EXCEPT ![Source[t]] = ToMark(Source[t]) \cup {t}]
        BY <1>5 DEF SaveState, FreshState, UnlockEngine
      <3>2. ToMark(Source[t]) \cup {t} \subseteq Transfers
        BY DEF ToMark
      <3>3. QED
        BY <1>2, <3>1, <3>2 DEF DirectTypeOK
    <2>5. QED
      BY <1>1, <1>2, <2>1, <2>2, <2>3, <2>4 DEF DirectTypeOK, DirectMore, statusVars, userVarsDT
  <1>6. ASSUME NEW t \in Transfers, LockEngine(t) \/ Execute(t) \/ UploadEnds(t)
        PROVE  DirectTypeOK' /\ DirectMore'
    <2>1. UNCHANGED <<reason, statusVars, saved, markers, offset, resumes, userVarsDT>>
      BY <1>6 DEF LockEngine, Execute, UploadEnds
    <2>2. /\ holder' \in {holder, t}
          /\ xfer' \in [Transfers -> {"idle", "registered", "negotiating", "active", "saved", "locked",
                                   "sending", "unlocking", "result", "returned", "aborted"}]
          /\ handles' \in [Transfers -> {Nothing, "Running", "Completed", "Failed"}]
      BY <1>2, <1>6 DEF LockEngine, Execute, UploadEnds, DirectTypeOK
    <2>3. result' \in [Transfers -> Kinds \cup {Nothing, "Ok"}]
      <3>1. result' = result \/ \E r \in Kinds \cup {"Ok"} : result' = [result EXCEPT ![t] = r]
        BY <1>6, FromAnyhowKind DEF LockEngine, Execute, UploadEnds
      <3>2. QED
        BY <1>2, <3>1 DEF DirectTypeOK
    <2>4. QED
      BY <1>1, <1>2, <2>1, <2>2, <2>3 DEF DirectTypeOK, DirectMore, statusVars, userVarsDT
  <1>7. ASSUME NEW t \in Transfers, Record(t)
        PROVE  DirectTypeOK' /\ DirectMore'
    <2>1. PICK session \in is_terminal, status \in {"Completed", "Failed"} :
             /\ states' = [states EXCEPT ![t] = status]
             /\ transfers' = [transfers EXCEPT ![t] = status]
             /\ outcome' = [outcome EXCEPT ![t] = Append(outcome[t], session)]
      <3>1. /\ (CASE result[t] = "Ok" -> "Completed"
                  [] result[t] = "Cancelled" -> "Cancelled"
                  [] OTHER -> "Failed") \in is_terminal
            /\ (IF result[t] = "Ok" THEN "Completed" ELSE "Failed") \in {"Completed", "Failed"}
        BY DEF is_terminal
      <3>2. QED
        BY <1>7, <3>1 DEF Record
    <2>2. outcome' \in [Transfers -> Seq(is_terminal)]
      <3>1. Append(outcome[t], session) \in Seq(is_terminal)
        BY <1>2 DEF DirectMore
      <3>2. QED
        BY <1>2, <2>1, <3>1 DEF DirectMore
    <2>3. states' \in [Transfers -> Statuses] /\ transfers' \in [Transfers -> Statuses]
      BY <1>2, <2>1 DEF DirectTypeOK, Statuses
    <2>4. UNCHANGED <<result, reason, engineVars, offset, resumes, userVarsDT>>
      BY <1>7 DEF Record
    <2>5. xfer' \in [Transfers -> {"idle", "registered", "negotiating", "active", "saved", "locked",
                                   "sending", "unlocking", "result", "returned", "aborted"}]
      BY <1>2, <1>7 DEF Record, DirectTypeOK
    <2>6. QED
      BY <1>1, <1>2, <2>2, <2>3, <2>4, <2>5 DEF DirectTypeOK, DirectMore, engineVars, userVarsDT
  <1>8. ASSUME NEW t \in Transfers, NEW why \in Reasons, CancelToken(t, why) \/ Cancel(t, why)
        PROVE  DirectTypeOK' /\ DirectMore'
    <2>1. reason' \in [Transfers -> {{}} \cup Reasons]
      <3>1. reason' = reason \/ reason' = [reason EXCEPT ![t] = why] \/ reason' = [reason EXCEPT ![t] = reason[t]]
        BY <1>8 DEF CancelToken, Cancel
      <3>2. QED
        BY <1>2, <3>1 DEF DirectMore
    <2>2. outcome' \in [Transfers -> Seq(is_terminal)]
      <3>1. /\ Append(outcome[t], "Cancelled") \in Seq(is_terminal)
            /\ outcome[t] \in Seq(is_terminal)
        BY <1>2 DEF DirectMore, is_terminal
      <3>2. \/ outcome' = outcome \/ outcome' = [outcome EXCEPT ![t] = outcome[t]]
            \/ outcome' = [outcome EXCEPT ![t] = Append(outcome[t], "Cancelled")]
        BY <1>8 DEF CancelToken, Cancel, statusVars
      <3>3. QED
        BY <1>2, <3>1, <3>2 DEF DirectMore
    <2>3. states' \in [Transfers -> Statuses] /\ transfers' \in [Transfers -> Statuses]
      BY <1>2, <1>8 DEF DirectTypeOK, Statuses, CancelToken, Cancel, statusVars
    <2>4. UNCHANGED <<xfer, result, engineVars, offset, resumes, contents>> /\ stopping' \subseteq Transfers
      BY <1>2, <1>8 DEF CancelToken, Cancel, DirectTypeOK
    <2>5. QED
      BY <1>1, <1>2, <2>1, <2>2, <2>3, <2>4 DEF DirectTypeOK, DirectMore, engineVars
  <1>9. ASSUME NEW t \in Transfers, CancelState(t) \/ EngineStart(t) \/ Pause(t) \/ Resume(t)
        PROVE  DirectTypeOK' /\ DirectMore'
    <2>1. UNCHANGED <<result, reason, outcome, holder, saved, markers, offset, resumes, contents>>
      BY <1>9 DEF CancelState, EngineStart, Pause, Resume, statusVars, engineVars
    <2>2. states' \in [Transfers -> Statuses] /\ transfers' \in [Transfers -> Statuses]
      BY <1>2, <1>9 DEF DirectTypeOK, Statuses, CancelState, EngineStart, Pause, Resume, statusVars
    <2>3. /\ handles' \in [Transfers -> {Nothing, "Running", "Completed", "Failed"}]
          /\ stopping' \subseteq Transfers
          /\ xfer' \in [Transfers -> {"idle", "registered", "negotiating", "active", "saved", "locked",
                                   "sending", "unlocking", "result", "returned", "aborted"}]
      BY <1>2, <1>9 DEF DirectTypeOK, CancelState, EngineStart, Pause, Resume, engineVars
    <2>4. QED
      BY <1>1, <1>2, <2>1, <2>2, <2>3 DEF DirectTypeOK, DirectMore
  <1>10. ASSUME NEW f \in FileIds, Edit(f)
         PROVE  DirectTypeOK' /\ DirectMore'
    <2>1. /\ UNCHANGED <<xfer, result, reason, statusVars, engineVars, offset, resumes, stopping>>
          /\ contents' \in [FileIds -> Contents]
      BY <1>2, <1>10 DEF Edit, DirectTypeOK
    <2>2. QED
      BY <1>1, <1>2, <2>1 DEF DirectTypeOK, DirectMore, statusVars, engineVars
  <1>11. QED
    BY <1>4, <1>5, <1>6, <1>7, <1>8, <1>9, <1>10 DEF DirectNext, TransferTask

\* Steps of start_transfer() that leave the manager alone.
LEMMA EngineSteps ==
    ASSUME DirectInv, NEW t \in Transfers,
           HandshakeFails(t) \/ SaveState(t) \/ LockEngine(t) \/ Execute(t) \/ UploadEnds(t) \/ UnlockEngine(t)
    PROVE  ManagerInv' /\ \A o \in Transfers : Story(o)'
  <1>1. UNCHANGED <<managerVars, reason, outcome, offset, stopping>>
    BY DEF HandshakeFails, SaveState, LockEngine, Execute, UploadEnds, UnlockEngine, statusVars, userVarsDT
  <1>2. ManagerInv /\ DirectTypeOK /\ \A o \in Transfers : Story(o)
    BY DEF DirectInv
  <1>3. /\ ManagerInv'
        /\ \A o \in Transfers : /\ Untouched(here, o) => Untouched(here, o)'
                                /\ active'[here][o] = active[here][o]
                                /\ Recorded(here, o)' = Recorded(here, o)
    BY <1>1, <1>2, ManagerSame
  <1>4. \A o \in Transfers : (Cancelled(o)' <=> Cancelled(o)) /\ Late(o)' = Late(o)
    BY <1>1 DEF Cancelled, Late
  <1>5. ASSUME NEW o \in Transfers, o # t PROVE Story(o)'
    <2>1. xfer'[o] = xfer[o] /\ result'[o] = result[o] /\ handles'[o] = handles[o]
      BY <1>2, <1>5 DEF HandshakeFails, SaveState, LockEngine, Execute, UploadEnds, UnlockEngine,
                        DirectTypeOK, engineVars
    <2>2. QED
      BY <1>1, <1>2, <1>3, <1>4, <2>1, StoryKept
  <1>6. /\ xfer[t] # "idle" /\ xfer[t] \notin {"returned", "aborted"} /\ xfer[t] # "result"
        /\ xfer'[t] # "idle" /\ xfer'[t] # "returned"
        /\ xfer'[t] \in {"registered", "negotiating", "active", "aborted"} => xfer'[t] = "aborted"
        /\ xfer'[t] # "aborted" => xfer[t] \in {"active", "saved", "locked", "sending", "unlocking"}
    BY <1>2 DEF HandshakeFails, SaveState, LockEngine, Execute, UploadEnds, UnlockEngine, DirectTypeOK
  <1>7. /\ xfer'[t] \in Beginning => result'[t] = Nothing /\ handles'[t] # "Completed"
        /\ xfer'[t] \in {"unlocking", "result"} => (handles'[t] = "Completed" <=> result'[t] = "Ok")
    <2>1. CASE HandshakeFails(t)
      BY <1>2, <2>1 DEF HandshakeFails, DirectTypeOK, Beginning
    <2>2. CASE SaveState(t)
      BY <1>2, <2>2 DEF SaveState, DirectTypeOK, Beginning, Story
    <2>3. CASE LockEngine(t)
      BY <1>2, <2>3 DEF LockEngine, DirectTypeOK, Beginning, Story
    <2>4. CASE Execute(t)
      <3>1. from_anyhow({"cancel"} \cup reason[t]) # "Ok"
        BY FromAnyhowKind DEF Kinds
      <3>2. QED
        BY <1>2, <2>4, <3>1 DEF Execute, DirectTypeOK, Beginning, Story
    <2>5. CASE UploadEnds(t)
      BY <1>2, <2>5 DEF UploadEnds, DirectTypeOK, Beginning
    <2>6. CASE UnlockEngine(t)
      BY <1>2, <2>6 DEF UnlockEngine, DirectTypeOK, Beginning, Story
    <2>7. QED
      BY <2>1, <2>2, <2>3, <2>4, <2>5, <2>6
  <1>8. Story(t)'
    BY <1>1, <1>2, <1>3, <1>4, <1>6, <1>7 DEF Story
  <1>9. QED
    BY <1>3, <1>5, <1>8

\* Steps of start_transfer() and of cancel_session() that call the manager.
LEMMA SessionSteps ==
    ASSUME DirectInv, NEW t \in Transfers,
           HandshakeDone(t) \/ BecomeActive(t) \/ Record(t) \/ CancelState(t)
    PROVE  ManagerInv' /\ \A o \in Transfers : Story(o)'
  <1>1. UNCHANGED <<result, reason, handles, offset>> /\ stopping' \subseteq stopping
    BY DEF HandshakeDone, BecomeActive, Record, CancelState, engineVars, userVarsDT
  <1>2. ManagerInv /\ DirectTypeOK /\ DirectMore /\ \A o \in Transfers : Story(o)
    BY DEF DirectInv
  <1> DEFINE session == CASE result[t] = "Ok" -> "Completed"
                          [] result[t] = "Cancelled" -> "Cancelled"
                          [] OTHER -> "Failed"
  <1>3. PICK state \in States :
          /\ update_state(here, t, state)
          /\ \/ HandshakeDone(t) /\ state = "Negotiating"
             \/ BecomeActive(t) /\ state = "Active"
             \/ Record(t) /\ state = session
             \/ CancelState(t) /\ state = "Cancelled"
    <2>1. session \in States /\ {"Negotiating", "Active", "Cancelled"} \subseteq States
      BY DEF States, Live, is_terminal
    <2>2. QED
      BY <2>1 DEF HandshakeDone, BecomeActive, Record, CancelState
  <1>4. /\ ManagerInv'
        /\ \A o \in Transfers : Untouched(here, o) => Untouched(here, o)'
        /\ \A o \in Transfers : o # t => /\ active'[here][o] = active[here][o]
                                         /\ Recorded(here, o)' \subseteq Recorded(here, o)
        /\ Recorded(here, t)' \subseteq Recorded(here, t) \cup {state}
        /\ state \notin is_terminal => Recorded(here, t)' \subseteq Recorded(here, t)
        /\ active'[here][t] = IF ~valid_transition(active[here][t], state) THEN active[here][t]
                              ELSE IF state \in is_terminal THEN "absent" ELSE state
    BY <1>2, <1>3, DirectUpdate
  <1>5. \A o \in Transfers : (Cancelled(o)' <=> Cancelled(o)) /\ Late(o)' = Late(o)
    BY <1>1 DEF Cancelled, Late
  <1>6. ASSUME NEW o \in Transfers, o # t PROVE Story(o)'
    <2>1. xfer'[o] = xfer[o] /\ outcome'[o] = outcome[o]
      BY <1>2, <1>6 DEF HandshakeDone, BecomeActive, Record, CancelState, DirectTypeOK, DirectMore, statusVars
    <2>2. QED
      BY <1>1, <1>2, <1>4, <1>5, <1>6, <2>1, StoryKept
  <1>7. CASE HandshakeDone(t) /\ state = "Negotiating"
    <2>1. xfer[t] = "registered" /\ xfer'[t] = "negotiating" /\ outcome'[t] = outcome[t]
      BY <1>2, <1>7 DEF HandshakeDone, DirectTypeOK, statusVars
    <2>2. active'[here][t] \in {"Negotiating", "absent"} /\ Recorded(here, t)' \subseteq Recorded(here, t)
      BY <1>2, <1>4, <1>7, <2>1 DEF Story, is_terminal, valid_transition
    <2>3. Story(t)'
      BY <1>1, <1>2, <1>5, <2>1, <2>2 DEF Story, Beginning
    <2>4. QED
      BY <1>4, <1>6, <2>3
  <1>8. CASE BecomeActive(t) /\ state = "Active"
    <2>1. xfer[t] = "negotiating" /\ xfer'[t] = "active" /\ outcome'[t] = outcome[t]
      BY <1>2, <1>8 DEF BecomeActive, DirectTypeOK, statusVars
    <2>2. active'[here][t] \in {"Active", "absent"} /\ Recorded(here, t)' \subseteq Recorded(here, t)
      BY <1>2, <1>4, <1>8, <2>1 DEF Story, is_terminal, valid_transition
    <2>3. Story(t)'
      BY <1>1, <1>2, <1>5, <2>1, <2>2 DEF Story, Beginning
    <2>4. QED
      BY <1>4, <1>6, <2>3
  <1>9. CASE Record(t) /\ state = session
    <2>1. /\ xfer[t] = "result" /\ xfer'[t] = "returned" /\ outcome'[t] = Append(outcome[t], session)
      BY <1>2, <1>9 DEF Record, DirectTypeOK, DirectMore
    <2>2. session \in is_terminal /\ (session = "Completed" <=> result[t] = "Ok")
      BY DEF is_terminal
    <2>3. active'[here][t] = "absent"
      BY <1>2, <1>4, <1>9, <2>1, <2>2 DEF Story, valid_transition
    <2>4. outcome[t] = <<>> /\ Recorded(here, t) \subseteq Late(t)
      BY <1>2, <2>1 DEF Story
    <2> HIDE DEF session
    <2>5. outcome'[t] # <<>> /\ outcome'[t][1] = session
      BY <2>1, <2>4
    <2>6. Recorded(here, t)' \subseteq {outcome'[t][1]} \cup Late(t)'
      BY <1>4, <1>5, <1>9, <2>4, <2>5
    <2>7. Story(t)'
      BY <1>1, <1>2, <1>5, <2>1, <2>2, <2>3, <2>5, <2>6 DEF Story, Beginning
    <2>8. QED
      BY <1>4, <1>6, <2>7
  <1>10. CASE CancelState(t) /\ state = "Cancelled"
    <2>1. /\ t \in stopping /\ xfer' = xfer /\ outcome' = outcome /\ state \in is_terminal
      BY <1>10 DEF CancelState, statusVars, is_terminal
    <2>2. Cancelled(t) /\ xfer[t] # "idle" /\ "Cancelled" \in Late(t)
      BY <1>2, <2>1 DEF Story, Late
    <2>3. Recorded(here, t)' \subseteq Recorded(here, t) \cup Late(t)'
      BY <1>4, <1>5, <1>10, <2>2
    <2>4. active'[here][t] \in {active[here][t], "absent"}
      BY <1>4, <2>1
    <2>5. Story(t)'
      BY <1>1, <1>2, <1>5, <2>1, <2>2, <2>3, <2>4 DEF Story
    <2>6. QED
      BY <1>4, <1>6, <2>5
  <1>11. QED
    BY <1>3, <1>4, <1>6, <1>7, <1>8, <1>9, <1>10

\* A session is created, by start_transfer() or by start().
LEMMA CreateSteps ==
    ASSUME DirectInv, NEW t \in Transfers, StartTransfer(t) \/ EngineStart(t)
    PROVE  ManagerInv' /\ \A o \in Transfers : Story(o)'
  <1>1. UNCHANGED <<result, reason, outcome, stopping>> /\ create(here, t) /\ xfer[t] = "idle"
    BY DEF StartTransfer, EngineStart, statusVars, userVarsDT
  <1>2. ManagerInv /\ DirectTypeOK /\ DirectMore /\ \A o \in Transfers : Story(o)
    BY DEF DirectInv
  <1>3. here \in Devices /\ t \in Sessions /\ Transfers \subseteq Sessions
    BY DirectAssumption
  <1>4. /\ ManagerInv' /\ history' = history
        /\ \A o \in Transfers : o # t /\ Untouched(here, o) => Untouched(here, o)'
    <2>1. Untouched(here, t)
      BY <1>1, <1>2 DEF Story
    <2>2. QED
      BY <1>1, <1>2, <1>3, <2>1, CreateSession
  <1>5. /\ \A o \in Transfers : Recorded(here, o)' = Recorded(here, o)
        /\ \A o \in Transfers : active'[here][o] = IF o = t THEN "Handshaking" ELSE active[here][o]
    <2>1. active \in [Devices -> [Sessions -> Live \cup {"absent"}]]
      BY <1>2 DEF ManagerInv
    <2>2. QED
      BY <1>1, <1>3, <1>4, <2>1 DEF create, Recorded
  <1>6. \A o \in Transfers : (Cancelled(o)' <=> Cancelled(o)) /\ Late(o)' = Late(o)
    BY <1>1 DEF Cancelled, Late
  <1>7. \A f \in FileIds : can_resume(f) = 0
    BY <1>2 DEF DirectMore, can_resume
  <1>8. Source[t] \in FileIds
    BY DEF FileIds
  <1>9. ASSUME NEW o \in Transfers, o # t PROVE Story(o)'
    <2>1. xfer'[o] = xfer[o] /\ offset'[o] = offset[o] /\ handles'[o] = handles[o]
      BY <1>2, <1>9 DEF StartTransfer, EngineStart, DirectTypeOK, engineVars
    <2>2. QED
      BY <1>1, <1>2, <1>4, <1>5, <1>6, <1>9, <2>1, StoryKept
  <1>10. CASE StartTransfer(t)
    <2>1. xfer'[t] = "registered" /\ offset'[t] = 0 /\ handles'[t] = handles[t]
      BY <1>2, <1>7, <1>8, <1>10 DEF StartTransfer, DirectTypeOK, engineVars
    <2>2. QED
      BY <1>1, <1>2, <1>4, <1>5, <1>6, <1>9, <2>1 DEF Story, Beginning
  <1>11. CASE EngineStart(t)
    <2>1. xfer'[t] = "aborted" /\ offset'[t] = offset[t]
      BY <1>2, <1>11 DEF EngineStart, DirectTypeOK
    <2>2. QED
      BY <1>1, <1>2, <1>4, <1>5, <1>6, <1>9, <2>1 DEF Story, Beginning
  <1>12. QED
    BY <1>10, <1>11

\* What users do without the manager.
LEMMA UserSteps ==
    ASSUME DirectInv, NEW t \in Transfers,
           \/ Pause(t) \/ Resume(t) \/ \E f \in FileIds : Edit(f)
           \/ \E why \in Reasons : CancelToken(t, why) \/ Cancel(t, why)
    PROVE  ManagerInv' /\ \A o \in Transfers : Story(o)'
  <1>1. UNCHANGED <<managerVars, xfer, result, handles, offset>>
    BY DEF Pause, Resume, Edit, CancelToken, Cancel, engineVars, statusVars
  <1>2. ManagerInv /\ DirectTypeOK /\ DirectMore /\ \A o \in Transfers : Story(o)
    BY DEF DirectInv
  <1>3. /\ ManagerInv'
        /\ \A o \in Transfers : /\ Untouched(here, o) => Untouched(here, o)'
                                /\ active'[here][o] = active[here][o]
                                /\ Recorded(here, o)' = Recorded(here, o)
    BY <1>1, <1>2, ManagerSame
  <1>4. \/ reason' = reason
        \/ \E why \in Reasons : reason' \in {[reason EXCEPT ![t] = why], [reason EXCEPT ![t] = reason[t]]}
    BY DEF Pause, Resume, Edit, CancelToken, Cancel
  <1>5. \A o \in Transfers : Cancelled(o) => Cancelled(o)'
    BY <1>2, <1>4, DirectAssumption DEF Cancelled, DirectMore
  <1>6. \/ stopping' = stopping
        \/ stopping' = stopping \cup {t} /\ xfer[t] # "idle" /\ Cancelled(t)'
    BY <1>2, DirectAssumption DEF Pause, Resume, Edit, CancelToken, Cancel, Cancelled, DirectMore
  <1>7. CASE outcome' = outcome
    BY <1>1, <1>2, <1>3, <1>5, <1>6, <1>7, StoryKept
  <1>8. CASE /\ ~Running(t) /\ xfer[t] # "idle" /\ stopping' = stopping
             /\ outcome' = [outcome EXCEPT ![t] = Append(outcome[t], "Cancelled")]
    <2>1. ASSUME NEW o \in Transfers, o # t PROVE Story(o)'
      <3>1. outcome'[o] = outcome[o]
        BY <1>2, <1>8, <2>1 DEF DirectMore
      <3>2. QED
        BY <1>1, <1>2, <1>3, <1>5, <1>6, <3>1, StoryKept
    <2>2. xfer[t] \in {"returned", "aborted"}
      BY <1>8 DEF Running
    <2>3. ASSUME outcome[t] # <<>>
          PROVE  outcome'[t] # <<>> /\ outcome'[t][1] = outcome[t][1]
      <3>1. outcome[t] \in Seq(is_terminal) /\ outcome'[t] = Append(outcome[t], "Cancelled")
        BY <1>2, <1>8 DEF DirectMore
      <3>2. Len(outcome[t]) \in Nat /\ Len(outcome[t]) > 0
        BY <2>3, <3>1
      <3>3. "Cancelled" \in is_terminal
        BY DEF is_terminal
      <3>4. outcome'[t][1] = outcome[t][1] /\ Len(outcome'[t]) = Len(outcome[t]) + 1
        BY <3>1, <3>2, <3>3, AppendProperties
      <3>5. QED
        BY <3>1, <3>2, <3>4
    <2>4. Late(t) \subseteq Late(t)'
      BY <1>5 DEF Late
    <2>5. Story(t)'
      BY <1>1, <1>2, <1>3, <1>5, <1>8, <2>2, <2>3, <2>4 DEF Story, Beginning
    <2>6. QED
      BY <1>3, <2>1, <2>5
  <1>9. \/ outcome' = outcome
        \/ /\ ~Running(t) /\ xfer[t] # "idle" /\ stopping' = stopping
           /\ outcome' = [outcome EXCEPT ![t] = Append(outcome[t], "Cancelled")]
    BY <1>2 DEF Pause, Resume, Edit, CancelToken, Cancel, Exclusive, statusVars, DirectMore
  <1>10. QED
    BY <1>3, <1>7, <1>8, <1>9

\* A step of t that writes no resume state: it stays where it is, is not yet at its state,
\* comes nearer to its mark, or is over.
Moves(t) ==
    \/ xfer'[t] = xfer[t] /\ result'[t] = result[t] /\ resumes'[t] = resumes[t]
    \/ /\ xfer[t] \in {"idle", "registered", "negotiating"}
       /\ xfer'[t] \in {"registered", "negotiating", "active", "aborted"}
    \/ xfer[t] \in Marking /\ xfer'[t] \in Marking /\ resumes'[t] = resumes[t]
    \/ xfer[t] = "result" /\ xfer'[t] = "returned" /\ result'[t] = result[t] /\ resumes'[t] = resumes[t]

LEMMA MovesKeep ==
    ASSUME DirectInv, UNCHANGED <<saved, markers>>, \A t \in Transfers : Moves(t)
    PROVE  StatesKept'
  <1> SUFFICES ASSUME NEW f \in FileIds PROVE StateKept(f)'
    BY DEF StatesKept
  <1>1. StateKept(f) /\ markers[f] \subseteq Transfers
    BY DEF DirectInv, StatesKept, DirectTypeOK
  <1>2. \A t \in markers[f] : /\ Marked(t)' <=> Marked(t)
                              /\ resumes'[t] /\ xfer'[t] \in Marking \cup {"result", "returned"}
    BY <1>1 DEF StateKept, Moves, Marked, Marking
  <1>3. \A t \in Transfers : Source[t] = f /\ resumes'[t] /\ xfer'[t] \in Marking => t \in markers[f]
    BY <1>1 DEF StateKept, Moves, Marking
  <1>4. QED
    BY <1>1, <1>2, <1>3 DEF StateKept

\* A fresh state is unmarked and has its transfer, and those it overtakes, to mark it.
LEMMA SaveSteps ==
    ASSUME DirectInv, NEW t \in Transfers, SaveState(t)
    PROVE  StatesKept'
  <1>1. /\ xfer \in [Transfers -> {"idle", "registered", "negotiating", "active", "saved", "locked",
                                   "sending", "unlocking", "result", "returned", "aborted"}]
        /\ result \in [Transfers -> Kinds \cup {Nothing, "Ok"}] /\ StatesKept /\ result[t] = Nothing
        /\ markers \in [FileIds -> SUBSET Transfers] /\ contents \in [FileIds -> Contents]
        /\ saved \in [FileIds -> [hash : Contents \cup {Nothing}, last_offset : {0}, completed : BOOLEAN]]
    BY DEF DirectInv, DirectTypeOK, DirectMore, Story, Beginning, SaveState
  <1>2. /\ xfer[t] = "active" /\ resumes' = resumes
        /\ xfer'[t] \in {"result", "saved"} /\ (xfer'[t] = "result" => result'[t] = "Cancelled")
        /\ \A o \in Transfers \ {t} : xfer'[o] = xfer[o] /\ result'[o] = result[o]
    BY <1>1 DEF SaveState
  <1>3. \A f \in FileIds : t \notin markers[f]
    BY <1>1, <1>2 DEF StatesKept, StateKept, Marking
  <1>4. ASSUME NEW f \in FileIds, saved'[f] = saved[f], markers'[f] = markers[f],
               ~resumes[t] \/ Source[t] # f
        PROVE  StateKept(f)'
    <2>1. StateKept(f) /\ markers[f] \subseteq Transfers \ {t}
      BY <1>1, <1>3 DEF StatesKept
    <2>2. \A o \in markers[f] : Marked(o)' <=> Marked(o)
      BY <1>2, <2>1 DEF Marked
    <2>3. QED
      BY <1>2, <1>4, <2>1, <2>2 DEF StateKept
  <1>5. CASE ~resumes[t]
    BY <1>4, <1>5 DEF SaveState, StatesKept
  <1>6. CASE resumes[t]
    <2> DEFINE f == Source[t]
               c == [hash |-> contents[f], last_offset |-> 0, completed |-> FALSE]
    <2>1. /\ f \in FileIds /\ contents[f] # Nothing
          /\ saved' = [saved EXCEPT ![f] = c] /\ markers' = [markers EXCEPT ![f] = ToMark(f) \cup {t}]
      BY <1>1, <1>6, DirectAssumption DEF SaveState, FreshState, save, FileIds, Nothing
    <2>2. saved'[f] = c /\ markers'[f] = ToMark(f) \cup {t}
          /\ \A g \in FileIds \ {f} : saved'[g] = saved[g] /\ markers'[g] = markers[g]
      BY <1>1, <2>1
    <2>3. ~saved'[f].completed /\ saved'[f].hash # Nothing
      BY <2>1, <2>2
    <2>4. ASSUME NEW o \in markers'[f]
          PROVE  /\ Source[o] = f /\ resumes'[o] /\ xfer'[o] \in Marking \cup {"result"}
                 /\ ~Marked(o)'
      <3>1. CASE o = t
        BY <1>2, <1>6, <3>1 DEF Marking, Marked
      <3>2. CASE o \in ToMark(f) /\ o # t
        BY <1>2, <3>2 DEF ToMark, Marking, Marked
      <3>3. QED
        BY <2>2, <3>1, <3>2
    <2>5. \A o \in Transfers : Source[o] = f /\ resumes'[o] /\ xfer'[o] \in Marking => o \in markers'[f]
      BY <1>2, <2>2 DEF ToMark, Marking
    <2> HIDE DEF c
    <2>6. StateKept(f)'
      BY <2>3, <2>4, <2>5 DEF StateKept
    <2>7. QED
      BY <1>4, <2>2, <2>6 DEF StatesKept
  <1>7. QED
    BY <1>5, <1>6

\* A transfer that ends marks the state it finds if it was sent, and leaves the mark alone
\* if not.
LEMMA UnlockSteps ==
    ASSUME DirectInv, NEW t \in Transfers, UnlockEngine(t)
    PROVE  StatesKept'
  <1>1. /\ xfer \in [Transfers -> {"idle", "registered", "negotiating", "active", "saved", "locked",
                                   "sending", "unlocking", "result", "returned", "aborted"}]
        /\ markers \in [FileIds -> SUBSET Transfers] /\ StatesKept
        /\ saved \in [FileIds -> [hash : Contents \cup {Nothing}, last_offset : {0}, completed : BOOLEAN]]
    BY DEF DirectInv, DirectTypeOK, DirectMore
  <1>2. /\ xfer[t] = "unlocking" /\ xfer'[t] = "result" /\ UNCHANGED <<resumes, result, markers>>
        /\ \A o \in Transfers \ {t} : xfer'[o] = xfer[o]
    BY <1>1 DEF UnlockEngine
  <1>3. \A f \in FileIds : \A o \in Transfers \ {t} : Marked(o)' <=> Marked(o)
    BY <1>2 DEF Marked
  <1>4. ~Marked(t) /\ (Marked(t)' <=> result[t] = "Ok")
    BY <1>2 DEF Marked
  <1>5. ASSUME NEW f \in FileIds
        PROVE  /\ saved'[f].completed <=>
                      saved[f].completed \/ (f = Source[t] /\ resumes[t] /\ result[t] = "Ok")
               /\ saved'[f].hash = saved[f].hash
    <2>1. saved[f] \in [hash : Contents \cup {Nothing}, last_offset : {0}, completed : BOOLEAN]
      BY <1>1
    <2>2. CASE f # Source[t]
      BY <1>1, <2>2 DEF UnlockEngine, mark_completed, update_offset
    <2>3. CASE f = Source[t] /\ ~resumes[t]
      BY <2>3 DEF UnlockEngine
    <2>4. CASE f = Source[t] /\ resumes[t] /\ result[t] # "Ok"
      BY <1>1, <2>1, <2>4 DEF UnlockEngine, update_offset
    <2>5. CASE f = Source[t] /\ resumes[t] /\ result[t] = "Ok"
      <3>1. t \in markers[f]
        BY <1>1, <1>2, <2>5 DEF StatesKept, StateKept, Marking
      <3>2. saved[f] # NoState
        BY <1>1, <3>1 DEF StatesKept, StateKept, NoState
      <3>3. saved'[f] = [saved[f] EXCEPT !.completed = TRUE]
        BY <1>1, <2>5, <3>2 DEF UnlockEngine, mark_completed
      <3>4. QED
        BY <2>1, <2>5, <3>3
    <2>6. QED
      BY <2>2, <2>3, <2>4, <2>5
  <1>6. ASSUME NEW f \in FileIds PROVE StateKept(f)'
    <2>1. StateKept(f) /\ markers'[f] = markers[f] /\ markers[f] \subseteq Transfers
      BY <1>1, <1>2 DEF StatesKept
    <2>2. t \in markers[f] <=> f = Source[t] /\ resumes[t]
      BY <1>2, <2>1 DEF StateKept, Marking
    <2>3. saved'[f].completed <=> \E o \in markers[f] : Marked(o)'
      <3>1. saved[f].completed <=> \E o \in markers[f] : Marked(o)
        BY <2>1 DEF StateKept
      <3>2. (\E o \in markers[f] : Marked(o)') <=>
                (\E o \in markers[f] : Marked(o)) \/ (t \in markers[f] /\ result[t] = "Ok")
        BY <1>3, <1>4, <2>1
      <3>3. QED
        BY <1>5, <2>2, <3>1, <3>2
    <2>4. QED
      BY <1>2, <1>5, <2>1, <2>3 DEF StateKept, Marking
  <1>7. QED
    BY <1>6 DEF StatesKept

LEMMA StateSteps ==
    ASSUME DirectInv, DirectNext
    PROVE  StatesKept'
  <1>1. /\ xfer \in [Transfers -> {"idle", "registered", "negotiating", "active", "saved", "locked",
                                   "sending", "unlocking", "result", "returned", "aborted"}]
        /\ result \in [Transfers -> Kinds \cup {Nothing, "Ok"}] /\ resumes \in [Transfers -> BOOLEAN]
    BY DEF DirectInv, DirectTypeOK
  <1>2. ASSUME NEW t \in Transfers,
               \/ StartTransfer(t) \/ HandshakeFails(t) \/ HandshakeDone(t) \/ BecomeActive(t)
               \/ LockEngine(t) \/ Execute(t) \/ UploadEnds(t) \/ Record(t) \/ EngineStart(t)
        PROVE  UNCHANGED <<saved, markers>> /\ \A o \in Transfers : Moves(o)
    <2>1. UNCHANGED <<saved, markers>>
      BY <1>2 DEF StartTransfer, HandshakeFails, HandshakeDone, BecomeActive, LockEngine, Execute,
                  UploadEnds, Record, EngineStart, engineVars
    <2>2. \A o \in Transfers \ {t} : xfer'[o] = xfer[o] /\ result'[o] = result[o] /\ resumes'[o] = resumes[o]
      BY <1>1, <1>2 DEF StartTransfer, HandshakeFails, HandshakeDone, BecomeActive, LockEngine, Execute,
                  UploadEnds, Record, EngineStart
    <2>3. Moves(t)
      <3>1. CASE StartTransfer(t) \/ HandshakeFails(t) \/ HandshakeDone(t) \/ BecomeActive(t) \/ EngineStart(t)
        BY <1>1, <3>1 DEF StartTransfer, HandshakeFails, HandshakeDone, BecomeActive, EngineStart, Moves
      <3>2. CASE LockEngine(t) \/ Execute(t) \/ UploadEnds(t)
        BY <1>1, <3>2 DEF LockEngine, Execute, UploadEnds, Moves, Marking
      <3>3. CASE Record(t)
        BY <1>1, <3>3 DEF Record, Moves
      <3>4. QED
        BY <1>2, <3>1, <3>2, <3>3
    <2>4. QED
      BY <2>1, <2>2, <2>3 DEF Moves
  <1>3. ASSUME \/ \E t \in Transfers : CancelState(t) \/ Pause(t) \/ Resume(t)
               \/ \E t \in Transfers, why \in Reasons : CancelToken(t, why) \/ Cancel(t, why)
               \/ \E f \in FileIds : Edit(f)
        PROVE  UNCHANGED <<saved, markers>> /\ \A o \in Transfers : Moves(o)
    <2>1. UNCHANGED <<xfer, result, resumes, saved, markers>>
      BY <1>3 DEF CancelState, Pause, Resume, CancelToken, Cancel, Edit, engineVars
    <2>2. QED
      BY <2>1 DEF Moves
  <1>4. QED
    BY <1>2, <1>3, MovesKeep, SaveSteps, UnlockSteps DEF DirectNext, TransferTask

LEMMA DirectNext_Inv == DirectInv /\ [DirectNext]_directVars => DirectInv'
  <1> SUFFICES ASSUME DirectInv, [DirectNext]_directVars PROVE DirectInv'
    OBVIOUS
  <1>1. CASE DirectNext
    <2>1. ASSUME NEW t \in Transfers,
                 \/ TransferTask(t) \/ CancelState(t) \/ EngineStart(t) \/ Pause(t) \/ Resume(t)
                 \/ \E why \in Reasons : CancelToken(t, why) \/ Cancel(t, why)
          PROVE  ManagerInv' /\ \A o \in Transfers : Story(o)'
      BY <2>1, EngineSteps, SessionSteps, CreateSteps, UserSteps DEF TransferTask
    <2>2. ASSUME NEW f \in FileIds, Edit(f) PROVE ManagerInv' /\ \A o \in Transfers : Story(o)'
      <3>1. PICK t \in Transfers : Source[t] = f
        BY DEF FileIds
      <3>2. QED
        BY <2>2, <3>1, UserSteps
    <2>3. ManagerInv' /\ \A o \in Transfers : Story(o)'
      BY <1>1, <2>1, <2>2 DEF DirectNext
    <2>4. QED
      BY <1>1, <2>3, DirectTypes, StateSteps DEF DirectInv
  <1>2. CASE UNCHANGED directVars
    <2>1. UNCHANGED <<managerVars, xfer, result, reason, states, transfers, outcome, holder, handles, saved,
                      markers, offset, resumes, stopping, contents>>
      BY <1>2 DEF directVars, statusVars, engineVars, userVarsDT
    <2>2. ManagerInv /\ DirectTypeOK /\ DirectMore /\ StatesKept /\ \A t \in Transfers : Story(t)
      BY DEF DirectInv
    <2>3. ManagerInv'
      BY <2>1, <2>2, ManagerSame
    <2>4. DirectTypeOK'
      BY <2>1, <2>2, <2>3 DEF DirectTypeOK, ManagerInv, ManagerTypeOK, managerVars
    <2>5. DirectMore' /\ StatesKept'
      BY <2>1, <2>2 DEF DirectMore, StatesKept, StateKept, Marked
    <2>6. ASSUME NEW t \in Transfers PROVE Story(t)'
      <3>1. Cancelled(t)' = Cancelled(t)
        BY <2>1 DEF Cancelled
      <3>2. QED
        BY <2>1, <2>2, <3>1, ManagerSame, StoryKept
    <2>7. QED
      BY <2>3, <2>4, <2>5, <2>6 DEF DirectInv
  <1>3. QED
    BY <1>1, <1>2

\* What OutcomesAgree and ResumableUntilSent say of a state of the invariant.
LEMMA DirectInv_Properties == DirectInv => OutcomesAgree /\ ResumableUntilSent
  <1> SUFFICES ASSUME DirectInv PROVE OutcomesAgree /\ ResumableUntilSent
    OBVIOUS
  <1>1. ResumableUntilSent
    BY DEF DirectInv, StatesKept, StateKept, Marked, ResumableUntilSent
  <1>2. OutcomesAgree
    BY DEF DirectInv, Story, Late, OutcomesAgree
  <1>3. QED
    BY <1>1, <1>2

\* When start_transfer() has returned, the session manager, the event channel, the
\* engine's handle and the result tell the same story, but for a late cancel_session().
THEOREM OutcomesAgreeHolds == DirectSpec => []OutcomesAgree
  <1>1. QED
    BY DirectInit_Inv, DirectNext_Inv, DirectInv_Properties, PTL DEF DirectSpec

\* The resume state of a file is marked completed (mark_completed), and no longer offered
\* by list_resumable(), when one of the transfers that were to mark it was sent, and not
\* before: whatever transfers of the file overtake one another, fail or are cancelled.
THEOREM ResumableUntilSentHolds == DirectSpec => []ResumableUntilSent
  <1>1. QED
    BY DirectInit_Inv, DirectNext_Inv, DirectInv_Properties, PTL DEF DirectSpec

-----------------------------------------------------------------------------
(* CliTransfers.  A session is pushed when its command has reported and     *)
(* moves on, so every list holds a command at most once, with its report;   *)
(* a command past its store has a process that still has it in memory.      *)

Past == {"save", "done", "gone"}

\* A list of sessions, at the stages st with the reports rep.
GoodList(sessions, st, rep) ==
    /\ sessions \in Seq(SessionRecords) /\ Len(sessions) <= MaxSessions
    /\ \A i \in DOMAIN sessions :
          /\ st[sessions[i].command] \in Past
          /\ sessions[i].completed <=> rep[sessions[i].command] = "ok"
    /\ \A i, j \in DOMAIN sessions : sessions[i].command = sessions[j].command => i = j

\* c is in the list, or the list is full.
Kept(c, sessions) == InHistory(c, sessions) \/ Len(sessions) = MaxSessions

Told(c) ==
    /\ stage[c] \in {"idle", "waiting", "receiving", "uploading", "tunnelling"} => reported[c] = "none"
    /\ stage[c] \notin {"idle", "gone"} => ProgramOf[c] \in running
    /\ stage[c] = "waiting" => Kind(c, {"read", "write"})
    /\ stage[c] = "receiving" => Kind(c, {"download", "transfer"})
    /\ stage[c] = "uploading" => Kind(c, {"upload", "auto", "transfer"})
    /\ stage[c] = "tunnelling" => Kind(c, {"auto"})
    /\ reported[c] = "ok" /\ Kind(c, {"write", "download"}) /\ stage[c] \in {"save", "done"} =>
          Kept(c, memory[ProgramOf[c]])
    /\ reported[c] = "ok" /\ Kind(c, {"read", "write"}) => c \in arrived
    /\ loaded[c] \subseteq arrived

CliTypes ==
    /\ running \subseteq Programs /\ launches \in [Programs -> 0..MaxLaunches]
    /\ stage \in [Commands -> {"idle", "waiting", "receiving", "uploading", "tunnelling",
                               "store", "save", "done", "gone"}]
    /\ reported \in [Commands -> {"none", "ok", "err"}]
    /\ arrived \subseteq Commands /\ learned \subseteq arrived
    /\ loaded \in [Commands -> SUBSET Commands]
    /\ memory \in [Programs -> Seq(SessionRecords)]

CliInv ==
    /\ CliTypes
    /\ \A p \in Programs : GoodList(memory[p], stage, reported)
    /\ historyFile # Torn => GoodList(historyFile, stage, reported)
    /\ \A c \in Commands : Told(c)

\* A list stays good while the commands in it keep their reports and go on.
LEMMA GoodListKept ==
    ASSUME NEW sessions, NEW st, NEW rep, NEW st2, NEW rep2, GoodList(sessions, st, rep),
           \A c \in Commands : st[c] \in Past => st2[c] \in Past /\ rep2[c] = rep[c]
    PROVE  GoodList(sessions, st2, rep2)
  <1>1. \A i \in DOMAIN sessions : sessions[i].command \in Commands
    <2>1. \A i \in DOMAIN sessions : sessions[i] \in SessionRecords
      BY DEF GoodList
    <2>2. \A s \in SessionRecords : s.command \in Commands
      BY DEF SessionRecords
    <2>3. QED
      BY <2>1, <2>2
  <1>2. QED
    BY <1>1 DEF GoodList

LEMMA EmptyList == \A st, rep : GoodList(<<>>, st, rep)
  <1>1. Len(<<>>) = 0 /\ 0 <= MaxSessions /\ DOMAIN <<>> = {} /\ <<>> \in Seq(SessionRecords)
    BY CliAssumption
  <1>2. QED
    BY <1>1 DEF GoodList

\* store_session() on a good list.
LEMMA PushGood ==
    ASSUME NEW sessions, NEW st, NEW rep, GoodList(sessions, st, rep),
           NEW c \in Commands, NEW st2, st[c] = "store", st2[c] = "save",
           \A d \in Commands : d # c => st2[d] = st[d],
           NEW s, s = [command |-> c, completed |-> rep[c] = "ok"]
    PROVE  /\ GoodList(Pushed(sessions, s), st2, rep)
           /\ Kept(c, Pushed(sessions, s))
           /\ \A d \in Commands : Kept(d, sessions) => Kept(d, Pushed(sessions, s))
  <1> DEFINE after == Pushed(sessions, s)
             n == Len(sessions)
  <1>1. s \in SessionRecords /\ s.command = c /\ s.completed = (rep[c] = "ok")
    BY DEF SessionRecords
  <1>2. sessions \in Seq(SessionRecords) /\ n \in Nat /\ n <= MaxSessions
    BY DEF GoodList
  <1>3. \A i \in 1..n : sessions[i] \in SessionRecords /\ sessions[i].command \in Commands
    <2>1. \A i \in 1..n : sessions[i] \in SessionRecords
      BY <1>2
    <2>2. \A r \in SessionRecords : r.command \in Commands
      BY DEF SessionRecords
    <2>3. QED
      BY <2>1, <2>2
  <1>4. \A i \in 1..n : sessions[i].command # c
    BY <1>2 DEF GoodList, Past
  <1>5. MaxSessions \in Nat /\ MaxSessions > 0
    BY CliAssumption
  <1>6. CASE n # MaxSessions
    <2>1. after = Append(sessions, s) /\ n + 1 <= MaxSessions
      BY <1>2, <1>5, <1>6 DEF Pushed
    <2>2. /\ after \in Seq(SessionRecords) /\ Len(after) = n + 1 /\ DOMAIN after = 1..(n + 1)
          /\ \A i \in 1..n : after[i] = sessions[i]
          /\ after[n + 1] = s
      <3>1. sessions \in Seq(SessionRecords) /\ s \in SessionRecords
        BY <1>1, <1>2
      <3>2. /\ Append(sessions, s) \in Seq(SessionRecords) /\ Len(Append(sessions, s)) = n + 1
            /\ \A i \in 1..n : Append(sessions, s)[i] = sessions[i]
            /\ Append(sessions, s)[n + 1] = s
        BY <3>1, AppendProperties
      <3> HIDE DEF after, n
      <3>3. after \in Seq(SessionRecords) /\ Len(after) = n + 1
        BY <2>1, <3>2
      <3>4. DOMAIN after = 1..(n + 1)
        BY <3>3
      <3>5. (\A i \in 1..n : after[i] = sessions[i]) /\ after[n + 1] = s
        BY <2>1, <3>2
      <3>6. QED
        BY <3>3, <3>4, <3>5
    <2> HIDE DEF after
    <2>3. \A i \in 1..(n + 1) : i \in 1..n \/ i = n + 1
      BY <1>2
    <2> HIDE DEF n
    <2>4. \A i \in DOMAIN after : /\ st2[after[i].command] \in Past
                                  /\ after[i].completed <=> rep[after[i].command] = "ok"
      <3> SUFFICES ASSUME NEW i \in 1..(n + 1)
                   PROVE  /\ st2[after[i].command] \in Past
                          /\ after[i].completed <=> rep[after[i].command] = "ok"
        BY <2>2
      <3>1. CASE i \in 1..n
        BY <1>2, <1>3, <1>4, <2>2, <3>1 DEF GoodList, n
      <3>2. CASE i = n + 1
        BY <1>1, <2>2, <3>2 DEF Past
      <3>3. QED
        BY <2>3, <3>1, <3>2
    <2>5. \A i, j \in DOMAIN after : after[i].command = after[j].command => i = j
      <3>1. \A i, j \in 1..n : sessions[i].command = sessions[j].command => i = j
        BY <1>2 DEF GoodList, n
      <3>2. QED
        BY <1>1, <1>4, <2>2, <2>3, <3>1
    <2>6. GoodList(after, st2, rep)
      BY <2>1, <2>2, <2>4, <2>5 DEF GoodList
    <2>7. InHistory(c, after)
      <3>1. n + 1 \in DOMAIN after
        BY <1>2, <2>2 DEF n
      <3>2. QED
        BY <1>1, <2>2, <3>1 DEF InHistory
    <2>8. \A d \in Commands : InHistory(d, sessions) => InHistory(d, after)
      <3>1. DOMAIN sessions = 1..n /\ 1..n \subseteq DOMAIN after
        BY <1>2, <2>2 DEF n
      <3>2. QED
        BY <2>2, <3>1 DEF InHistory
    <2>9. QED
      BY <1>6, <2>6, <2>7, <2>8 DEF Kept, n, after
  <1>7. CASE n = MaxSessions
    <2> DEFINE rest == Tail(sessions)
    <2>1. /\ rest \in Seq(SessionRecords) /\ Len(rest) = n - 1
          /\ \A i \in 1..(n - 1) : rest[i] = sessions[i + 1]
      BY <1>2, <1>5, <1>7, HeadTailProperties
    <2>2. after = Append(rest, s)
      BY <1>7 DEF Pushed
    <2> HIDE DEF rest
    <2>3. /\ after \in Seq(SessionRecords) /\ Len(after) = n /\ DOMAIN after = 1..n
          /\ \A i \in 1..(n - 1) : after[i] = sessions[i + 1]
          /\ after[n] = s
      <3>1. n - 1 \in Nat /\ (n - 1) + 1 = n
        BY <1>2, <1>5, <1>7
      <3>2. /\ Append(rest, s) \in Seq(SessionRecords) /\ Len(Append(rest, s)) = Len(rest) + 1
            /\ \A i \in 1..Len(rest) : Append(rest, s)[i] = rest[i]
            /\ Append(rest, s)[Len(rest) + 1] = s
        <4>1. rest \in Seq(SessionRecords) /\ s \in SessionRecords
          BY <1>1, <2>1
        <4>2. QED
          BY <4>1, AppendProperties
      <3> HIDE DEF after, n
      <3>3. after \in Seq(SessionRecords) /\ Len(after) = n
        BY <2>1, <2>2, <3>1, <3>2
      <3>4. DOMAIN after = 1..n
        BY <3>3
      <3>5. \A i \in 1..(n - 1) : after[i] = rest[i]
        BY <2>1, <2>2, <3>2
      <3>6. after[n] = s
        BY <2>1, <2>2, <3>1, <3>2
      <3>7. QED
        BY <2>1, <3>3, <3>4, <3>5, <3>6
    <2> HIDE DEF after
    <2>4. \A i \in 1..n : (i \in 1..(n - 1) /\ i + 1 \in 1..n) \/ i = n
      BY <1>2
    <2>5. \A i \in DOMAIN after : /\ st2[after[i].command] \in Past
                                  /\ after[i].completed <=> rep[after[i].command] = "ok"
      <3> SUFFICES ASSUME NEW i \in 1..n
                   PROVE  /\ st2[after[i].command] \in Past
                          /\ after[i].completed <=> rep[after[i].command] = "ok"
        BY <2>3
      <3>1. CASE i \in 1..(n - 1) /\ i + 1 \in 1..n
        <4>1. PICK k \in 1..n : after[i] = sessions[k]
          BY <2>3, <3>1
        <4>2. QED
          BY <1>2, <1>3, <1>4, <4>1 DEF GoodList
      <3>2. CASE i = n
        BY <1>1, <2>3, <3>2 DEF Past
      <3>3. QED
        BY <2>4, <3>1, <3>2
    <2>6. \A i, j \in DOMAIN after : after[i].command = after[j].command => i = j
      <3>1. \A i, j \in 1..n : sessions[i].command = sessions[j].command => i = j
        BY <1>2 DEF GoodList
      <3>2. ASSUME NEW i \in 1..n, NEW j \in 1..n, after[i].command = after[j].command PROVE i = j
        <4>1. CASE i \in 1..(n - 1) /\ i + 1 \in 1..n /\ j \in 1..(n - 1) /\ j + 1 \in 1..n
          <5>1. i + 1 = j + 1
            BY <2>3, <3>1, <3>2, <4>1
          <5>2. QED
            BY <4>1, <5>1
        <4> DEFINE other(k) == k \in 1..n /\ k # n => after[k].command # c
        <4>0. \A k : other(k)
          BY <1>4, <2>3, <2>4
        <4>c. after[n].command = c
          BY <1>1, <2>3
        <4>2. CASE i = n /\ j # n
          BY <3>2, <4>0, <4>c, <4>2
        <4>3. CASE j = n /\ i # n
          BY <3>2, <4>0, <4>c, <4>3
        <4>4. QED
          BY <2>4, <4>1, <4>2, <4>3
      <3>3. QED
        BY <2>3, <3>2
    <2>7. GoodList(after, st2, rep)
      BY <1>2, <2>3, <2>5, <2>6 DEF GoodList
    <2>8. Len(after) = MaxSessions
      BY <1>7, <2>3
    <2>9. QED
      BY <2>7, <2>8 DEF Kept, after
  <1>8. QED
    BY <1>6, <1>7

LEMMA CliInit_Inv == CliInit => CliInv
  <1> SUFFICES ASSUME CliInit PROVE CliInv
    OBVIOUS
  <1>1. CliTypes
    BY CliAssumption DEF CliInit, CliTypes
  <1>2. \A p \in Programs : GoodList(memory[p], stage, reported)
    BY EmptyList DEF CliInit
  <1>3. GoodList(historyFile, stage, reported)
    BY EmptyList DEF CliInit
  <1>4. \A c \in Commands : Told(c)
    BY DEF CliInit, Told
  <1>5. QED
    BY <1>1, <1>2, <1>3, <1>4 DEF CliInv

\* One command moves before it has stored: the lists stay as they are.
LEMMA CommandMoves ==
    ASSUME CliInv, CliTypes', NEW c \in Commands,
           stage[c] \notin Past, UNCHANGED <<memory, historyFile, running>>, arrived \subseteq arrived',
           \A d \in Commands : d # c => /\ stage'[d] = stage[d] /\ reported'[d] = reported[d]
                                        /\ loaded'[d] = loaded[d],
           Told(c)'
    PROVE  CliInv'
  <1>1. \A d \in Commands : stage[d] \in Past => stage'[d] \in Past /\ reported'[d] = reported[d]
    OBVIOUS
  <1>2. \A p \in Programs : GoodList(memory'[p], stage', reported')
    BY <1>1, GoodListKept DEF CliInv
  <1>3. historyFile' # Torn => GoodList(historyFile', stage', reported')
    BY <1>1, GoodListKept DEF CliInv
  <1>4. ASSUME NEW d \in Commands, d # c PROVE Told(d)'
    <2>1. Told(d)
      BY DEF CliInv
    <2>2. QED
      BY <1>4, <2>1 DEF Told, Kind
  <1>5. QED
    BY <1>2, <1>3, <1>4 DEF CliInv

\* The commands before they store, and what the agent does for them.
LEMMA EarlySteps ==
    ASSUME CliInv, NEW c \in Commands,
           \/ FailsEarly(c) \/ SubmitTask(c) \/ AgentWrites(c) \/ WriteSucceeds(c) \/ WriteFailed(c)
           \/ ReadEnds(c) \/ StartDownload(c) \/ DownloadEnds(c) \/ StartUpload(c)
    PROVE  CliInv'
  <1>1. CliTypes /\ Told(c)
    BY DEF CliInv
  <1>2. UNCHANGED <<memory, historyFile, running, launches, learned, loaded>>
    BY DEF FailsEarly, SubmitTask, AgentWrites, WriteSucceeds, WriteFailed, ReadEnds, StartDownload,
           DownloadEnds, StartUpload, fileVars, learnVars, programVars
  <1>3. arrived' = arrived \/ arrived' = arrived \cup {c}
    BY DEF FailsEarly, SubmitTask, AgentWrites, WriteSucceeds, WriteFailed, ReadEnds, StartDownload,
           DownloadEnds, StartUpload, Arrives
  <1>4. stage[c] \in {"idle", "waiting", "receiving"}
    BY DEF FailsEarly, SubmitTask, AgentWrites, WriteSucceeds, WriteFailed, ReadEnds, StartDownload,
           DownloadEnds, StartUpload, At
  <1>5. \E s \in {"waiting", "receiving", "uploading", "store", "done"} :
           stage' = stage \/ stage' = [stage EXCEPT ![c] = s]
    BY DEF FailsEarly, SubmitTask, AgentWrites, WriteSucceeds, WriteFailed, ReadEnds, StartDownload,
           DownloadEnds, StartUpload, Goes, Returns, StoreThenReturn
  <1>6. \E r \in {"ok", "err"} : reported' = reported \/ reported' = [reported EXCEPT ![c] = r]
    BY DEF FailsEarly, SubmitTask, AgentWrites, WriteSucceeds, WriteFailed, ReadEnds, StartDownload,
           DownloadEnds, StartUpload, Goes, Returns, StoreThenReturn
  <1>7. CliTypes'
    <2>1. stage' \in [Commands -> {"idle", "waiting", "receiving", "uploading", "tunnelling",
                                   "store", "save", "done", "gone"}]
      BY <1>1, <1>5 DEF CliTypes
    <2>2. reported' \in [Commands -> {"none", "ok", "err"}]
      BY <1>1, <1>6 DEF CliTypes
    <2>3. QED
      BY <1>1, <1>2, <1>3, <2>1, <2>2 DEF CliTypes
  <1>8. \A d \in Commands : d # c => stage'[d] = stage[d] /\ reported'[d] = reported[d]
    BY <1>1, <1>5, <1>6 DEF CliTypes
  <1>9. Told(c)'
    <2>1. CASE FailsEarly(c) \/ SubmitTask(c) \/ StartDownload(c) \/ StartUpload(c)
      BY <1>1, <1>2, <1>3, <2>1 DEF CliTypes, Told, FailsEarly, SubmitTask, StartDownload, StartUpload, At,
         Kind, Goes, Returns
    <2>2. CASE AgentWrites(c)
      BY <1>1, <1>2, <1>3, <2>2 DEF CliTypes, Told, AgentWrites, Kind
    <2>3. CASE WriteSucceeds(c) \/ WriteFailed(c) \/ DownloadEnds(c)
      BY <1>1, <1>2, <1>3, <2>3 DEF CliTypes, Told, WriteSucceeds, WriteFailed, DownloadEnds, At, Kind,
         StoreThenReturn, Returns, Goes
    <2>4. CASE ReadEnds(c)
      BY <1>1, <1>2, <1>3, <2>4 DEF CliTypes, Told, ReadEnds, At, Kind, Returns, Goes, Arrives
    <2>5. QED
      BY <2>1, <2>2, <2>3, <2>4
  <1>10. QED
    BY <1>2, <1>3, <1>4, <1>7, <1>8, <1>9, CommandMoves DEF Past

\* Uploads, the tunnel, and the planned transfers.
LEMMA UploadSteps ==
    ASSUME CliInv, NEW c \in Commands,
           \/ UploadSucceeds(c) \/ UploadWasSlow(c) \/ UploadFails(c) \/ TunnelReturns(c) \/ run_transfer(c)
    PROVE  CliInv'
  <1>1. CliTypes /\ Told(c)
    BY DEF CliInv
  <1>2. UNCHANGED <<memory, historyFile, running, launches>>
    BY DEF UploadSucceeds, UploadWasSlow, UploadFails, TunnelReturns, run_transfer, fileVars, programVars
  <1>3. arrived' = arrived \/ arrived' = arrived \cup {c}
    BY DEF UploadSucceeds, UploadWasSlow, UploadFails, TunnelReturns, run_transfer, Arrives
  <1>4. stage[c] \in {"idle", "uploading", "tunnelling"}
    BY DEF UploadSucceeds, UploadWasSlow, UploadFails, TunnelReturns, run_transfer, At
  <1>5. loaded' = loaded \/ loaded' = [loaded EXCEPT ![c] = learned]
    BY DEF UploadSucceeds, UploadWasSlow, UploadFails, TunnelReturns, run_transfer, learnVars, NewLearningDb
  <1>6. learned' = learned \/ (learned' = loaded[c] \cup {c} /\ c \in arrived')
    BY DEF UploadSucceeds, UploadWasSlow, UploadFails, TunnelReturns, run_transfer, learnVars,
           record_learning, SaveRecord, Arrives
  <1>7. run_transfer(c) => \E strategy : execute(c, strategy)
    BY DEF run_transfer
  <1>8. \E s \in {"receiving", "uploading", "tunnelling", "done"} : stage' = [stage EXCEPT ![c] = s]
    BY <1>7 DEF UploadSucceeds, UploadWasSlow, UploadFails, TunnelReturns, execute, Returns, Goes
  <1>9. \E r \in {"ok", "err"} : reported' = reported \/ reported' = [reported EXCEPT ![c] = r]
    BY <1>7 DEF UploadSucceeds, UploadWasSlow, UploadFails, TunnelReturns, execute, Returns
  <1>10. CliTypes'
    <2>1. stage' \in [Commands -> {"idle", "waiting", "receiving", "uploading", "tunnelling",
                                   "store", "save", "done", "gone"}]
      BY <1>1, <1>8 DEF CliTypes
    <2>2. reported' \in [Commands -> {"none", "ok", "err"}]
      BY <1>1, <1>9 DEF CliTypes
    <2>3. loaded' \in [Commands -> SUBSET Commands]
      BY <1>1, <1>5 DEF CliTypes
    <2>4. arrived' \subseteq Commands /\ learned' \subseteq arrived'
      BY <1>1, <1>3, <1>6 DEF CliTypes, Told
    <2>5. QED
      BY <1>1, <1>2, <2>1, <2>2, <2>3, <2>4 DEF CliTypes
  <1>11. \A d \in Commands : d # c => /\ stage'[d] = stage[d] /\ reported'[d] = reported[d]
                                      /\ loaded'[d] = loaded[d]
    BY <1>1, <1>5, <1>8, <1>9 DEF CliTypes
  <1>12. Told(c)'
    <2>1. loaded'[c] \subseteq arrived'
      BY <1>1, <1>3, <1>5 DEF CliTypes, Told
    <2>2. CASE UploadSucceeds(c) \/ UploadWasSlow(c) \/ UploadFails(c)
      BY <1>1, <1>2, <1>3, <2>1, <2>2 DEF CliTypes, Told, UploadSucceeds, UploadWasSlow, UploadFails, At,
         Kind, Returns, Goes
    <2>3. CASE TunnelReturns(c)
      BY <1>1, <1>2, <1>3, <2>1, <2>3 DEF CliTypes, Told, TunnelReturns, At, Kind, Returns, Goes
    <2>4. CASE run_transfer(c)
      <3>1. /\ Kind(c, {"transfer"}) /\ ProgramOf[c] \in running /\ stage[c] = "idle" /\ reported[c] = "none"
        BY <1>1, <2>4 DEF run_transfer, At, Told
      <3>2. \/ stage'[c] \in {"uploading", "receiving"} /\ reported'[c] = "none"
            \/ stage'[c] = "done"
        BY <1>1, <1>7, <2>4, <3>1 DEF execute, Returns, Goes, CliTypes
      <3>3. QED
        BY <1>2, <2>1, <3>1, <3>2 DEF Told, Kind
    <2>5. QED
      BY <2>2, <2>3, <2>4
  <1>13. QED
    BY <1>2, <1>3, <1>4, <1>10, <1>11, <1>12, CommandMoves DEF Past

\* store_session() and save_history_to_disk().
LEMMA StoreSteps ==
    ASSUME CliInv, NEW c \in Commands, store_session(c) \/ save_history_to_disk(c)
    PROVE  CliInv'
  <1>1. CliTypes /\ (\A d \in Commands : Told(d)) /\ \A p \in Programs : GoodList(memory[p], stage, reported)
    BY DEF CliInv
  <1>2. UNCHANGED <<reported, arrived, learned, loaded, running, launches>>
    BY DEF store_session, save_history_to_disk, learnVars, programVars
  <1>3. ProgramOf[c] \in Programs /\ ProgramOf[c] \in running
    BY CliAssumption DEF store_session, save_history_to_disk, At
  <1>4. CASE store_session(c)
    <2> DEFINE p == ProgramOf[c]
               s == [command |-> c, completed |-> reported[c] = "ok"]
    <2>1. stage[c] = "store" /\ stage' = [stage EXCEPT ![c] = "save"] /\ historyFile' = historyFile
      BY <1>4 DEF store_session, At, Goes
    <2>2. memory' = [memory EXCEPT ![p] = Pushed(memory[p], s)]
      BY <1>4 DEF store_session
    <2>3. stage'[c] = "save" /\ \A d \in Commands : d # c => stage'[d] = stage[d]
      BY <1>1, <2>1 DEF CliTypes
    <2>4. /\ GoodList(Pushed(memory[p], s), stage', reported) /\ Kept(c, Pushed(memory[p], s))
          /\ \A d \in Commands : Kept(d, memory[p]) => Kept(d, Pushed(memory[p], s))
      <3>1. GoodList(memory[p], stage, reported)
        BY <1>1, <1>3
      <3>2. stage[c] = "store" /\ s = [command |-> c, completed |-> reported[c] = "ok"]
        BY <2>1
      <3> HIDE DEF s
      <3>3. QED
        BY <2>3, <3>1, <3>2, PushGood
    <2>5. \A d \in Commands : stage[d] \in Past => stage'[d] \in Past /\ reported'[d] = reported[d]
      BY <1>2, <2>1, <2>3 DEF Past
    <2>6. \A q \in Programs : GoodList(memory'[q], stage', reported')
      <3>1. ASSUME NEW q \in Programs, q # p PROVE GoodList(memory'[q], stage', reported')
        <4>1. memory'[q] = memory[q]
          BY <1>1, <2>2, <3>1 DEF CliTypes
        <4>2. QED
          BY <1>1, <2>5, <4>1, GoodListKept
      <3>2. memory'[p] = Pushed(memory[p], s)
        BY <1>1, <1>3, <2>2 DEF CliTypes
      <3>3. QED
        BY <1>2, <2>4, <3>1, <3>2
    <2>7. historyFile' # Torn => GoodList(historyFile', stage', reported')
      <3>1. historyFile # Torn => GoodList(historyFile, stage, reported)
        BY DEF CliInv
      <3>2. historyFile' = historyFile
        BY <2>1
      <3>3. QED
        BY <2>5, <3>1, <3>2, GoodListKept
    <2>8. CliTypes'
      <3>1. stage' \in [Commands -> {"idle", "waiting", "receiving", "uploading", "tunnelling",
                                     "store", "save", "done", "gone"}]
        BY <1>1, <2>1 DEF CliTypes
      <3>2. memory' \in [Programs -> Seq(SessionRecords)]
        BY <1>1, <2>2, <2>4 DEF CliTypes, GoodList
      <3>3. QED
        BY <1>1, <1>2, <3>1, <3>2 DEF CliTypes
    <2>9. ASSUME NEW d \in Commands PROVE Told(d)'
      <3>1. ProgramOf[d] \in Programs
        BY CliAssumption
      <3>2. \A e \in Commands : Kept(e, memory[ProgramOf[d]]) => Kept(e, memory'[ProgramOf[d]])
        BY <1>1, <1>3, <2>2, <2>4, <3>1 DEF CliTypes
      <3>3. CASE d # c
        BY <1>1, <1>2, <2>3, <3>2, <3>3 DEF Told, Kind
      <3>4. CASE d = c
        <4>1. Kept(c, memory'[p])
          BY <1>1, <1>3, <2>2, <2>4 DEF CliTypes
        <4>2. QED
          BY <1>1, <1>2, <1>3, <2>3, <3>4, <4>1 DEF Told, Kind
      <3>5. QED
        BY <3>3, <3>4
    <2>10. QED
      BY <2>6, <2>7, <2>8, <2>9 DEF CliInv
  <1>5. CASE save_history_to_disk(c)
    <2>1. stage[c] = "save" /\ stage' = [stage EXCEPT ![c] = "done"] /\ memory' = memory
      BY <1>5 DEF save_history_to_disk, At, Goes
    <2>2. stage'[c] = "done" /\ \A d \in Commands : d # c => stage'[d] = stage[d]
      BY <1>1, <2>1 DEF CliTypes
    <2>3. \A d \in Commands : stage[d] \in Past => stage'[d] \in Past /\ reported'[d] = reported[d]
      BY <1>2, <2>2 DEF Past
    <2>4. \A q \in Programs : GoodList(memory'[q], stage', reported')
      <3>1. memory' = memory
        BY <2>1
      <3>2. QED
        BY <1>1, <2>3, <3>1, GoodListKept
    <2>5. historyFile' # Torn => GoodList(historyFile', stage', reported')
      <3>1. historyFile' = memory'[ProgramOf[c]] \/ historyFile' = historyFile
        BY <1>5, <2>1 DEF save_history_to_disk
      <3>2. QED
        BY <1>3, <2>3, <2>4, <3>1, GoodListKept DEF CliInv
    <2>6. CliTypes'
      BY <1>1, <1>2, <2>1 DEF CliTypes
    <2>7. ASSUME NEW d \in Commands PROVE Told(d)'
      <3>1. CASE d # c
        BY <1>1, <1>2, <2>1, <2>2, <3>1 DEF Told, Kind
      <3>2. CASE d = c
        BY <1>1, <1>2, <1>3, <2>1, <2>2, <3>2 DEF Told, Kind
      <3>3. QED
        BY <3>1, <3>2
    <2>8. QED
      BY <2>4, <2>5, <2>6, <2>7 DEF CliInv
  <1>6. QED
    BY <1>4, <1>5

\* A process starts or ends.
LEMMA ProcessSteps ==
    ASSUME CliInv, NEW p \in Programs, load_history_from_disk(p) \/ Exit(p)
    PROVE  CliInv'
  <1>1. CliTypes /\ (\A d \in Commands : Told(d)) /\ \A q \in Programs : GoodList(memory[q], stage, reported)
    BY DEF CliInv
  <1>2. UNCHANGED <<reported, arrived, learned, loaded>>
    BY DEF load_history_from_disk, Exit, learnVars
  <1>3. CASE load_history_from_disk(p)
    <2> DEFINE read == IF historyFile = Torn THEN <<>> ELSE historyFile
    <2>1. /\ p \notin running /\ running' = running \cup {p} /\ stage' = stage /\ historyFile' = historyFile
          /\ memory' = [memory EXCEPT ![p] = read] /\ launches' = [launches EXCEPT ![p] = launches[p] + 1]
          /\ launches[p] < MaxLaunches
      BY <1>3 DEF load_history_from_disk
    <2>2. GoodList(read, stage, reported)
      BY EmptyList DEF CliInv
    <2>3. read \in Seq(SessionRecords)
      BY <2>2 DEF GoodList
    <2> HIDE DEF read
    <2>4. \A q \in Programs : GoodList(memory'[q], stage', reported')
      BY <1>1, <1>2, <2>1, <2>2 DEF CliTypes
    <2>5. historyFile' # Torn => GoodList(historyFile', stage', reported')
      BY <1>2, <2>1 DEF CliInv
    <2>6. CliTypes'
      <3>1. memory' \in [Programs -> Seq(SessionRecords)]
        BY <1>1, <2>1, <2>3 DEF CliTypes
      <3>2. launches[p] + 1 \in 0..MaxLaunches
        BY <1>1, <2>1, CliAssumption DEF CliTypes
      <3>3. launches' \in [Programs -> 0..MaxLaunches]
        BY <1>1, <2>1, <3>2 DEF CliTypes
      <3>4. QED
        BY <1>1, <1>2, <2>1, <3>1, <3>3 DEF CliTypes
    <2>7. ASSUME NEW d \in Commands PROVE Told(d)'
      <3>1. ProgramOf[d] \in Programs
        BY CliAssumption
      <3>2. CASE ProgramOf[d] = p
        BY <1>1, <1>2, <2>1, <3>2 DEF Told, Kind
      <3>3. CASE ProgramOf[d] # p
        <4>1. memory'[ProgramOf[d]] = memory[ProgramOf[d]]
          BY <1>1, <2>1, <3>1, <3>3 DEF CliTypes
        <4>2. QED
          BY <1>1, <1>2, <2>1, <4>1 DEF Told, Kind
      <3>4. QED
        BY <3>2, <3>3
    <2>8. QED
      BY <2>4, <2>5, <2>6, <2>7 DEF CliInv
  <1>4. CASE Exit(p)
    <2>1. /\ running' = running \ {p} /\ memory' = [memory EXCEPT ![p] = <<>>] /\ launches' = launches
          /\ historyFile' = Torn \/ historyFile' = historyFile
          /\ stage' = [c \in Commands |-> IF ProgramOf[c] = p /\ stage[c] # "idle" THEN "gone" ELSE stage[c]]
      BY <1>4 DEF Exit
    <2>2. \A d \in Commands : stage[d] \in Past => stage'[d] \in Past /\ reported'[d] = reported[d]
      BY <1>2, <2>1 DEF Past
    <2>3. \A q \in Programs : GoodList(memory'[q], stage', reported')
      <3>1. ASSUME NEW q \in Programs, q # p PROVE GoodList(memory'[q], stage', reported')
        <4>1. memory'[q] = memory[q]
          BY <1>1, <2>1, <3>1 DEF CliTypes
        <4>2. QED
          BY <1>1, <2>2, <4>1, GoodListKept
      <3>2. memory'[p] = <<>>
        BY <1>1, <2>1 DEF CliTypes
      <3>3. QED
        BY <3>1, <3>2, EmptyList
    <2>4. historyFile' # Torn => GoodList(historyFile', stage', reported')
      BY <2>1, <2>2, GoodListKept DEF CliInv
    <2>5. CliTypes'
      <3>1. stage' \in [Commands -> {"idle", "waiting", "receiving", "uploading", "tunnelling",
                                     "store", "save", "done", "gone"}]
        BY <1>1, <2>1 DEF CliTypes
      <3>2. memory' \in [Programs -> Seq(SessionRecords)]
        BY <1>1, <2>1 DEF CliTypes
      <3>3. QED
        BY <1>1, <1>2, <2>1, <3>1, <3>2 DEF CliTypes
    <2>6. ASSUME NEW d \in Commands PROVE Told(d)'
      <3>1. ProgramOf[d] \in Programs
        BY CliAssumption
      <3>2. CASE ProgramOf[d] = p
        <4>1. stage'[d] = "gone" \/ (stage'[d] = "idle" /\ stage[d] = "idle")
          BY <2>1, <3>2
        <4>2. QED
          BY <1>1, <1>2, <4>1 DEF Told, Kind
      <3>3. CASE ProgramOf[d] # p
        <4>1. memory'[ProgramOf[d]] = memory[ProgramOf[d]] /\ stage'[d] = stage[d]
          BY <1>1, <2>1, <3>1, <3>3 DEF CliTypes
        <4>2. QED
          BY <1>1, <1>2, <2>1, <3>3, <4>1 DEF Told, Kind
      <3>4. QED
        BY <3>2, <3>3
    <2>7. QED
      BY <2>3, <2>4, <2>5, <2>6 DEF CliInv
  <1>5. QED
    BY <1>3, <1>4

LEMMA CliNext_Inv == CliInv /\ [CliNext]_cliVars => CliInv'
  <1> SUFFICES ASSUME CliInv, [CliNext]_cliVars PROVE CliInv'
    OBVIOUS
  <1>1. CASE CliNext
    BY <1>1, EarlySteps, UploadSteps, StoreSteps, ProcessSteps DEF CliNext
  <1>2. CASE UNCHANGED cliVars
    <2>1. UNCHANGED <<running, launches, stage, reported, arrived, memory, historyFile, learned, loaded>>
      BY <1>2 DEF cliVars
    <2>2. CliTypes'
      BY <2>1 DEF CliInv, CliTypes
    <2>3. \A c \in Commands : Told(c)'
      BY <2>1 DEF CliInv, Told, Kind
    <2>4. QED
      BY <2>1, <2>2, <2>3 DEF CliInv
  <1>3. QED
    BY <1>1, <1>2

LEMMA CliInv_Properties == CliInv => HistoryIsTruthful /\ CliTypeOK
  <1> SUFFICES ASSUME CliInv PROVE HistoryIsTruthful /\ CliTypeOK
    OBVIOUS
  <1>1. \A sessions \in Lists : GoodList(sessions, stage, reported)
    BY DEF CliInv, Lists
  <1>2. HistoryIsTruthful
    <2>1. \A sessions \in Lists : \A i, j \in DOMAIN sessions :
             /\ sessions[i].completed <=> reported[sessions[i].command] = "ok"
             /\ sessions[i].command = sessions[j].command => i = j
      BY <1>1 DEF GoodList
    <2>2. \A c \in Commands :
             reported[c] = "ok" =>
               /\ Kind(c, {"write", "download"}) /\ stage[c] \in {"save", "done"} =>
                      InHistory(c, memory[ProgramOf[c]]) \/ Len(memory[ProgramOf[c]]) = MaxSessions
               /\ Kind(c, {"read", "write"}) => c \in arrived
      BY DEF CliInv, Told, Kept
    <2>3. learned \subseteq arrived
      BY DEF CliInv, CliTypes
    <2>4. QED
      BY <2>1, <2>2, <2>3 DEF HistoryIsTruthful
  <1>3. CliTypeOK
    <2>1. \A sessions \in Lists : /\ Len(sessions) <= MaxSessions
                                  /\ \A i \in DOMAIN sessions : sessions[i] \in SessionRecords
      <3>1. \A sessions \in Lists : sessions \in Seq(SessionRecords) /\ Len(sessions) <= MaxSessions
        BY <1>1 DEF GoodList
      <3>2. QED
        BY <3>1
    <2>2. CliTypes
      BY DEF CliInv
    <2>3. learned \subseteq Commands /\ DOMAIN memory = Programs
      BY <2>2 DEF CliTypes
    <2>4. QED
      BY <2>1, <2>2, <2>3 DEF CliTypes, CliTypeOK
  <1>4. QED
    BY <1>2, <1>3

\* The history of the command line tool says of each command what it reported, once,
\* in every process and on disk, and success of a write, a read or a learning record
\* stands for a file that arrived.
THEOREM HistoryIsTruthfulHolds == CliSpec => []HistoryIsTruthful
  <1>1. QED
    BY CliInit_Inv, CliNext_Inv, CliInv_Properties, PTL DEF CliSpec

-----------------------------------------------------------------------------
(* RemoteCommands.  A result says what the provider did, and a command      *)
(* takes only the result of its own task.  What the phone posted runs in    *)
(* the order of the posts, so only what bypasses the main thread can        *)
(* overtake it.                                                             *)

InSeq(c, seq) == \E i \in DOMAIN seq : seq[i] = c
Once(seq) == \A i, j \in DOMAIN seq : seq[i] = seq[j] => i = j
Respects(seq, R) == \A i, j \in DOMAIN seq : <<seq[i], seq[j]>> \in R => i < j

\* Appending to a sequence.
LEMMA AppendKeeps ==
    ASSUME NEW S, NEW seq \in Seq(S), NEW x \in S, NEW R
    PROVE  /\ Append(seq, x) \in Seq(S)
           /\ \A c : InSeq(c, Append(seq, x)) <=> InSeq(c, seq) \/ c = x
           /\ Once(seq) /\ ~InSeq(x, seq) => Once(Append(seq, x))
           /\ Respects(seq, R) /\ (\A d \in S : InSeq(d, seq) => <<x, d>> \notin R) /\ <<x, x>> \notin R =>
                 Respects(Append(seq, x), R)
  <1> DEFINE n == Len(seq)
             after == Append(seq, x)
  <1>1. /\ n \in Nat /\ DOMAIN seq = 1..n /\ after \in Seq(S) /\ DOMAIN after = 1..(n + 1)
        /\ \A i \in 1..n : after[i] = seq[i]
        /\ after[n + 1] = x
    BY AppendProperties
  <1>2. \A i \in 1..(n + 1) : i \in 1..n \/ i = n + 1
    BY <1>1
  <1>3. 1..n \subseteq 1..(n + 1) /\ n + 1 \in 1..(n + 1) /\ n + 1 \notin 1..n
    BY <1>1
  <1>4. \A i \in 1..n : seq[i] \in S /\ i < n + 1
    BY <1>1
  <1> HIDE DEF n, after
  <1>5. \A c : InSeq(c, after) <=> InSeq(c, seq) \/ c = x
    BY <1>1, <1>2, <1>3 DEF InSeq
  <1>6. Once(seq) /\ ~InSeq(x, seq) => Once(after)
    BY <1>1, <1>2, <1>3 DEF InSeq, Once
  <1>7. ASSUME Respects(seq, R), \A d \in S : InSeq(d, seq) => <<x, d>> \notin R, <<x, x>> \notin R
        PROVE  Respects(after, R)
    <2> SUFFICES ASSUME NEW i \in 1..(n + 1), NEW j \in 1..(n + 1), <<after[i], after[j]>> \in R PROVE i < j
      BY <1>1 DEF Respects
    <2>1. CASE i \in 1..n /\ j \in 1..n
      BY <1>1, <1>7, <2>1 DEF Respects
    <2>2. CASE i \in 1..n /\ j = n + 1
      BY <1>4, <2>2
    <2>3. CASE i = n + 1 /\ j \in 1..n
      <3>1. after[i] = x /\ after[j] \in S /\ InSeq(after[j], seq)
        BY <1>1, <1>4, <2>3 DEF InSeq
      <3>2. QED
        BY <1>7, <3>1
    <2>4. CASE i = n + 1 /\ j = n + 1
      BY <1>1, <1>7, <2>4
    <2>5. QED
      BY <1>2, <2>1, <2>2, <2>3, <2>4
  <1>8. QED
    BY <1>1, <1>5, <1>6, <1>7 DEF after

\* Taking the first element.
LEMMA TailKeeps ==
    ASSUME NEW S, NEW seq \in Seq(S), seq # <<>>, NEW R
    PROVE  /\ Tail(seq) \in Seq(S) /\ Head(seq) \in S /\ InSeq(Head(seq), seq)
           /\ \A c : InSeq(c, Tail(seq)) => InSeq(c, seq)
           /\ Once(seq) => Once(Tail(seq)) /\ ~InSeq(Head(seq), Tail(seq))
           /\ Respects(seq, R) =>
                 /\ Respects(Tail(seq), R)
                 /\ \A c : InSeq(c, Tail(seq)) => <<c, Head(seq)>> \notin R
  <1> DEFINE n == Len(seq)
             rest == Tail(seq)
             front == Head(seq)
  <1>1. /\ n \in Nat /\ n > 0 /\ DOMAIN seq = 1..n /\ rest \in Seq(S) /\ Len(rest) = n - 1
        /\ DOMAIN rest = 1..(n - 1) /\ front = seq[1] /\ front \in S
        /\ \A i \in 1..(n - 1) : rest[i] = seq[i + 1]
    BY HeadTailProperties
  <1>2. 1 \in 1..n /\ \A i \in 1..(n - 1) : i + 1 \in 1..n /\ i + 1 # 1 /\ ~(i + 1 < 1)
    BY <1>1
  <1>3. \A i, j \in 1..(n - 1) : (i + 1 = j + 1 => i = j) /\ (i + 1 < j + 1 => i < j)
    BY <1>1
  <1> HIDE DEF n, rest, front
  <1>4. InSeq(front, seq) /\ \A c : InSeq(c, rest) => InSeq(c, seq)
    BY <1>1, <1>2 DEF InSeq
  <1>5. Once(seq) => Once(rest) /\ ~InSeq(front, rest)
    <2>1. Once(seq) => Once(rest)
      <3> SUFFICES ASSUME Once(seq), NEW i \in 1..(n - 1), NEW j \in 1..(n - 1), rest[i] = rest[j]
                   PROVE  i = j
        BY <1>1 DEF Once
      <3>1. i + 1 \in DOMAIN seq /\ j + 1 \in DOMAIN seq /\ seq[i + 1] = seq[j + 1]
        BY <1>1, <1>2
      <3>2. i + 1 = j + 1
        BY <3>1 DEF Once
      <3>3. QED
        BY <1>3, <3>2
    <2>2. Once(seq) => ~InSeq(front, rest)
      BY <1>1, <1>2 DEF Once, InSeq
    <2>3. QED
      BY <2>1, <2>2
  <1>6. ASSUME Respects(seq, R)
        PROVE  Respects(rest, R) /\ \A c : InSeq(c, rest) => <<c, front>> \notin R
    <2>1. Respects(rest, R)
      BY <1>1, <1>2, <1>3, <1>6 DEF Respects
    <2>2. ASSUME NEW i \in 1..(n - 1), <<rest[i], front>> \in R PROVE FALSE
      <3>1. <<seq[i + 1], seq[1]>> \in R
        BY <1>1, <2>2
      <3>2. i + 1 < 1
        BY <1>1, <1>2, <1>6, <3>1 DEF Respects
      <3>3. QED
        BY <1>2, <3>2
    <2>3. QED
      BY <1>1, <2>1, <2>2 DEF InSeq
  <1>7. QED
    BY <1>1, <1>4, <1>5, <1>6 DEF rest, front

\* Relations that agree on the elements of a sequence.
LEMMA RespectsLess ==
    ASSUME NEW seq, NEW R, NEW Q, Respects(seq, R),
           \A c, d : InSeq(c, seq) /\ InSeq(d, seq) /\ <<c, d>> \in Q => <<c, d>> \in R
    PROVE  Respects(seq, Q)
  BY DEF Respects, InSeq

-----------------------------------------------------------------------------
Truthful(c) ==
    /\ cmd[c] = "idle" => request[c] = "none"
    /\ request[c] # "gone" => job[c] = "none"
    /\ job[c] \in {"none", "queued", "running"} =>
          ~InSeq(c, effects) /\ ~InSeq(c, looper) /\ returned[c] = NoResult
    /\ job[c] # "none" => IsTask(c)
    /\ reply[c].type # "none" => cmd[c] = "waiting"
    /\ reply[c].type = "task_result" => job[c] = "over" /\ reply[c].body = returned[c]
    /\ cmd[c] = "waiting" => clip \in shown[c]
    /\ cmd[c] = "waiting" /\ "content" \in returned[c].fields =>
          returned[c].content \in shown[c] \/ (platform = "android" /\ returned[c].content = Empty)
    /\ "success" \in returned[c].fields =>
          /\ returned[c] = Plain("success")
          /\ kind[c] = "terminal" \/ platform = "desktop" => InSeq(c, effects)
    /\ cmd[c] = "ok" /\ IsTask(c) =>
          /\ job[c] = "over"
          /\ kind[c] = "get" => (text[c] \in shown[c] \/ (platform = "android" /\ text[c] = Empty))
          /\ kind[c] # "get" => "success" \in returned[c].fields
    /\ InSeq(c, looper) => kind[c] \in {"set", "notify"} /\ platform = "android" /\ ~InSeq(c, effects)

\* The pairs of commands the device must carry out in this order.
Due == {p \in before : ~Overtakes(p[1], p[2])}

EffectsInOrder ==
    /\ Once(looper) /\ Once(effects)
    /\ \A c, d \in Cmds : <<c, d>> \in before => cmd[c] = "ok" /\ cmd[d] # "idle" /\ c # d
    /\ Respects(effects, Due) /\ Respects(looper, before)
    /\ \A c, d \in Cmds : InSeq(c, looper) /\ InSeq(d, effects) /\ <<c, d>> \in before => kind[d] = "terminal"

CommandInv == CommandsTypeOK /\ (\A c \in Cmds : Truthful(c)) /\ EffectsInOrder

LEMMA KindOf == ASSUME CommandInv, NEW c \in Cmds PROVE kind[c] \in CmdKinds
  BY CmdAssumption DEF CommandInv, CommandsTypeOK

\* What execute() and the run_*_raw functions make of a frame.
LEMMA ReadingMeans ==
    ASSUME NEW k \in CmdKinds, NEW m
    PROVE  /\ Reading(k, m) \in {"ok", "error", "waiting"}
           /\ Reading(k, m) = "ok" /\ k \in {"get", "set", "notify", "terminal"} =>
                 /\ m.type = "task_result"
                 /\ k = "get" => "content" \in m.body.fields
                 /\ k # "get" => "success" \in m.body.fields
  <1>1. TaskAnswer(m) \in {"ok", "error", "waiting"} /\ (TaskAnswer(m) = "ok" => m.type = "task_result")
    BY DEF TaskAnswer
  <1>2. PairAnswer(m) \in {"ok", "error", "waiting"} /\ SearchAnswer(m) \in {"ok", "error", "waiting"}
    BY DEF PairAnswer, SearchAnswer
  <1>3. CASE k = "get"
    BY <1>1, <1>3 DEF Reading, ReadGet
  <1>4. CASE k = "set"
    BY <1>1, <1>4 DEF Reading, ReadSet
  <1>5. CASE k = "notify"
    BY <1>1, <1>5 DEF Reading, ReadNotify
  <1>6. CASE k = "terminal"
    BY <1>1, <1>6 DEF Reading, ReadTerminal
  <1>7. CASE k = "pair" \/ k = "search"
    BY <1>2, <1>7 DEF Reading
  <1>8. QED
    BY <1>3, <1>4, <1>5, <1>6, <1>7 DEF CmdKinds

\* A command that a step does not touch, but for the clipboard it may see.
LEMMA TruthfulKept ==
    ASSUME NEW d \in Cmds, Truthful(d), UNCHANGED <<kind, platform>>,
           cmd'[d] = cmd[d], text'[d] = text[d], request'[d] = request[d], reply'[d] = reply[d],
           job'[d] = job[d], returned'[d] = returned[d],
           InSeq(d, effects)' <=> InSeq(d, effects), InSeq(d, looper)' <=> InSeq(d, looper),
           shown[d] \subseteq shown'[d], cmd[d] = "waiting" => clip' \in shown'[d]
    PROVE  Truthful(d)'
  BY DEF Truthful, IsTask

\* The order, when nothing is posted, carried out or sent.
LEMMA OrderKept ==
    ASSUME EffectsInOrder, UNCHANGED <<kind, platform, looper, effects, before>>,
           \A c \in Cmds : (cmd[c] = "ok" => cmd'[c] = "ok") /\ (cmd[c] # "idle" => cmd'[c] # "idle")
    PROVE  EffectsInOrder'
  <1>1. Due' = Due
    BY DEF Due, Overtakes
  <1>2. QED
    BY <1>1 DEF EffectsInOrder

LEMMA CommandInit_Inv == CommandsInit => CommandInv
  <1> SUFFICES ASSUME CommandsInit PROVE CommandInv
    OBVIOUS
  <1>1. CommandsTypeOK
    <2>1. Empty \in CmdTexts /\ NoResult \in Results
      BY DEF CmdTexts, NoResult, Results
    <2>2. NoFrame \in CmdFrames
      BY <2>1 DEF NoFrame, CmdFrames
    <2>3. 0 \in 0..MaxBreaks /\ <<>> \in Seq(Cmds)
      BY CmdAssumption
    <2>4. QED
      BY <2>1, <2>2, <2>3 DEF CommandsInit, CommandsTypeOK
  <1>2. \A c : ~InSeq(c, looper) /\ ~InSeq(c, effects)
    BY DEF CommandsInit, InSeq
  <1>3. ASSUME NEW c \in Cmds PROVE Truthful(c)
    BY <1>2 DEF CommandsInit, Truthful, NoResult, NoFrame
  <1>4. EffectsInOrder
    BY DEF CommandsInit, EffectsInOrder, Once, Respects, InSeq
  <1>5. QED
    BY <1>1, <1>3, <1>4 DEF CommandInv

\* Frames on their way, and the task that is queued, started and answered for.
LEMMA WireSteps ==
    ASSUME CommandInv, NEW c \in Cmds,
           \/ NoConnection(c) \/ Receive(c) \/ RelayAnswers(c) \/ AcceptPair(c) \/ create_task(c)
           \/ DispatchCmd(c) \/ ForwardResult(c)
    PROVE  CommandInv'
  <1>1. CommandsTypeOK /\ EffectsInOrder /\ \A d \in Cmds : Truthful(d)
    BY DEF CommandInv
  <1>2. UNCHANGED <<kind, platform, looper, clip, effects, shown, before, returned, online, breaks>>
    BY DEF NoConnection, Receive, RelayAnswers, AcceptPair, create_task, DispatchCmd, ForwardResult,
           agentVars, deviceVars, clientVars, wireVars
  <1>3. kind[c] \in CmdKinds /\ Reading(kind[c], reply[c]) \in {"ok", "error", "waiting"}
    BY KindOf, ReadingMeans
  <1>4. \/ cmd' = cmd
        \/ /\ cmd[c] \in {"idle", "waiting"}
           /\ \E s \in {"ok", "error", "waiting"} : cmd' = [cmd EXCEPT ![c] = s]
    BY <1>3 DEF NoConnection, Receive, RelayAnswers, AcceptPair, create_task, DispatchCmd, ForwardResult,
           clientVars
  <1>5. request' = request \/ request' = [request EXCEPT ![c] = "gone"]
    BY DEF NoConnection, Receive, RelayAnswers, AcceptPair, create_task, DispatchCmd, ForwardResult, wireVars
  <1>6. \/ job' = job
        \/ \E s \in {"queued", "running", "over"} : job' = [job EXCEPT ![c] = s]
    BY DEF NoConnection, Receive, RelayAnswers, AcceptPair, create_task, DispatchCmd, ForwardResult, agentVars
  <1>7. forwarded' = forwarded \/ forwarded' = [forwarded EXCEPT ![c] = TRUE]
    BY DEF NoConnection, Receive, RelayAnswers, AcceptPair, create_task, DispatchCmd, ForwardResult, agentVars
  <1>8. text' = text \/ \E x \in CmdTexts : text' = [text EXCEPT ![c] = x]
    <2>1. reply[c].body.content \in CmdTexts /\ text[c] \in CmdTexts
      BY <1>1 DEF CommandsTypeOK, CmdFrames, Results
    <2>2. QED
      BY <2>1 DEF NoConnection, Receive, RelayAnswers, AcceptPair, create_task, DispatchCmd, ForwardResult,
             clientVars
  <1>9. reply' = reply \/ \E m \in CmdFrames : reply' = [reply EXCEPT ![c] = m]
    <2>1. reply[c] \in CmdFrames /\ NoFrame \in CmdFrames
      BY <1>1 DEF CommandsTypeOK, CmdFrames, NoFrame, NoResult, Results, CmdTexts
    <2>2. /\ Frame("error") \in CmdFrames /\ Frame("search_response") \in CmdFrames
          /\ Frame("pair_response") \in CmdFrames
      BY DEF CmdFrames, Frame, NoResult, Results, CmdTexts
    <2>3. [type |-> "task_result", body |-> returned[c]] \in CmdFrames
      BY <1>1 DEF CommandsTypeOK, CmdFrames
    <2>4. QED
      BY <2>1, <2>2, <2>3 DEF NoConnection, Receive, RelayAnswers, AcceptPair, create_task, DispatchCmd,
         ForwardResult, wireVars, Answer
  <1>10. local' \in CmdTexts
    <2>1. reply[c].body.content \in CmdTexts /\ local \in CmdTexts
      BY <1>1 DEF CommandsTypeOK, CmdFrames, Results
    <2>2. QED
      BY <2>1 DEF NoConnection, Receive, RelayAnswers, AcceptPair, create_task, DispatchCmd, ForwardResult,
         write_local_clipboard
  <1>11. CommandsTypeOK'
    <2>1. cmd' \in [Cmds -> {"idle", "waiting", "ok", "error"}]
      BY <1>1, <1>4 DEF CommandsTypeOK
    <2>2. request' \in [Cmds -> {"none", "sent", "gone"}]
      BY <1>1, <1>5 DEF CommandsTypeOK
    <2>3. job' \in [Cmds -> {"none", "queued", "running", "executed", "over"}]
      BY <1>1, <1>6 DEF CommandsTypeOK
    <2>4. forwarded' \in [Cmds -> BOOLEAN]
      BY <1>1, <1>7 DEF CommandsTypeOK
    <2>5. text' \in [Cmds -> CmdTexts] /\ reply' \in [Cmds -> CmdFrames]
      <3>1. text \in [Cmds -> CmdTexts] /\ reply \in [Cmds -> CmdFrames]
        BY <1>1 DEF CommandsTypeOK
      <3>2. text' \in [Cmds -> CmdTexts]
        BY <1>8, <3>1
      <3>3. reply' \in [Cmds -> CmdFrames]
        BY <1>9, <3>1
      <3>4. QED
        BY <3>2, <3>3
    <2>6. QED
      BY <1>1, <1>2, <1>10, <2>1, <2>2, <2>3, <2>4, <2>5 DEF CommandsTypeOK
  <1>12. ASSUME NEW d \in Cmds, d # c PROVE Truthful(d)'
    <2>1. cmd'[d] = cmd[d] /\ request'[d] = request[d] /\ job'[d] = job[d]
      BY <1>1, <1>4, <1>5, <1>6, <1>12 DEF CommandsTypeOK
    <2>2. text'[d] = text[d] /\ reply'[d] = reply[d]
      BY <1>1, <1>8, <1>9, <1>12 DEF CommandsTypeOK
    <2>3. cmd[d] = "waiting" => clip \in shown[d]
      BY <1>1 DEF Truthful
    <2>4. Truthful(d)
      BY <1>1
    <2>5. QED
      BY <1>2, <2>1, <2>2, <2>3, <2>4, TruthfulKept DEF InSeq
  <1>13. Truthful(c)'
    <2>1. Truthful(c)
      BY <1>1
    <2>2. /\ InSeq(c, effects)' <=> InSeq(c, effects)
          /\ InSeq(c, looper)' <=> InSeq(c, looper)
          /\ IsTask(c)' <=> IsTask(c)
      BY <1>2 DEF InSeq, IsTask
    <2>3. CASE NoConnection(c)
      <3>1. cmd'[c] = "error" /\ reply'[c] = NoFrame /\ UNCHANGED <<request, job>> /\ cmd[c] \in {"idle", "waiting"}
        BY <1>1, <2>3 DEF NoConnection, CommandsTypeOK, agentVars
      <3>2. QED
        BY <1>2, <2>1, <2>2, <3>1 DEF Truthful, NoFrame
    <2>4. CASE Receive(c)
      <3>1. /\ cmd[c] = "waiting" /\ cmd'[c] = Reading(kind[c], reply[c]) /\ reply'[c] = NoFrame
            /\ text'[c] = IF kind[c] = "get" /\ Reading(kind[c], reply[c]) = "ok" THEN reply[c].body.content
                          ELSE text[c]
            /\ UNCHANGED <<request, job>>
        BY <1>1, <2>4 DEF Receive, CommandsTypeOK, agentVars
      <3>2. CASE cmd'[c] = "ok" /\ IsTask(c)
        <4>1. /\ reply[c].type = "task_result"
              /\ kind[c] = "get" => "content" \in reply[c].body.fields
              /\ kind[c] # "get" => "success" \in reply[c].body.fields
          BY <1>3, <3>1, <3>2, ReadingMeans DEF IsTask
        <4>2. QED
          BY <1>2, <2>1, <2>2, <3>1, <3>2, <4>1 DEF Truthful, NoFrame
      <3>3. CASE ~(cmd'[c] = "ok" /\ IsTask(c))
        BY <1>2, <1>3, <2>1, <2>2, <3>1, <3>3 DEF Truthful, NoFrame
      <3>4. QED
        BY <3>2, <3>3
    <2>5. CASE RelayAnswers(c) \/ AcceptPair(c)
      <3>1. /\ request[c] = "sent" /\ request'[c] = "gone" /\ UNCHANGED <<cmd, text, job>>
            /\ reply'[c] = reply[c] \/ (cmd[c] = "waiting" /\ reply'[c].type # "task_result")
        BY <1>1, <2>5 DEF RelayAnswers, AcceptPair, CommandsTypeOK, agentVars, clientVars, Answer, Frame
      <3>2. QED
        BY <1>2, <2>1, <2>2, <3>1 DEF Truthful
    <2>6. CASE create_task(c)
      <3>1. /\ request[c] = "sent" /\ request'[c] = "gone" /\ job'[c] = "queued" /\ IsTask(c)
            /\ UNCHANGED <<cmd, text, reply>>
        BY <1>1, <2>6 DEF create_task, CommandsTypeOK, clientVars
      <3>2. QED
        BY <1>2, <2>1, <2>2, <3>1 DEF Truthful
    <2>7. CASE DispatchCmd(c)
      <3>1. job[c] = "queued" /\ job'[c] = "running" /\ UNCHANGED <<cmd, text, request, reply>>
        BY <1>1, <2>7 DEF DispatchCmd, CommandsTypeOK, clientVars, wireVars
      <3>2. QED
        BY <1>2, <2>1, <2>2, <3>1 DEF Truthful
    <2>8. CASE ForwardResult(c)
      <3>1. /\ job[c] = "executed" /\ job'[c] = "over" /\ UNCHANGED <<cmd, text, request>>
            /\ \/ reply'[c] = reply[c]
               \/ cmd[c] = "waiting" /\ reply'[c] = [type |-> "task_result", body |-> returned[c]]
        BY <1>1, <2>8 DEF ForwardResult, CommandsTypeOK, clientVars, Answer
      <3>2. CASE reply'[c] = reply[c]
        BY <1>2, <2>1, <2>2, <3>1, <3>2 DEF Truthful
      <3>3. CASE cmd[c] = "waiting" /\ reply'[c].type = "task_result" /\ reply'[c].body = returned[c]
        BY <1>2, <2>1, <2>2, <3>1, <3>3 DEF Truthful
      <3>4. QED
        BY <3>1, <3>2, <3>3
    <2>9. QED
      BY <2>3, <2>4, <2>5, <2>6, <2>7, <2>8
  <1>14. EffectsInOrder'
    <2>1. \A d \in Cmds : (cmd[d] = "ok" => cmd'[d] = "ok") /\ (cmd[d] # "idle" => cmd'[d] # "idle")
      BY <1>1, <1>4 DEF CommandsTypeOK
    <2>2. QED
      BY <1>1, <1>2, <2>1, OrderKept
  <1>15. QED
    BY <1>11, <1>12, <1>13, <1>14 DEF CommandInv

LEMMA SubmitSends ==
    ASSUME CommandInv, NEW c \in Cmds, Submit(c)
    PROVE  \E x \in CmdTexts : Sends(c, x)
  <1>1. local \in CmdTexts /\ Empty \in CmdTexts /\ c \in CmdTexts
    BY DEF CommandInv, CommandsTypeOK, CmdTexts
  <1>2. QED
    BY <1>1 DEF Submit, ApiDevices, ApiNotify, ApiClipboardGet, ApiClipboardSet, ApiExec, read_local_clipboard,
       run_clipboard_get_raw, run_clipboard_set_raw, run_notify_raw, run_terminal_raw, run_pair, run_search_raw,
       ClientClipboardTask, ClientNotifyTask, ClientTerminalTask, ClientPairTask, ClientSearchTask

\* A command is sent: what was reported before it comes before it.
LEMMA SendSteps ==
    ASSUME CommandInv, NEW c \in Cmds, NEW x \in CmdTexts, Sends(c, x)
    PROVE  CommandInv'
  <1>1. CommandsTypeOK /\ EffectsInOrder /\ \A d \in Cmds : Truthful(d)
    BY DEF CommandInv
  <1>2. UNCHANGED <<kind, platform, reply, job, returned, forwarded, online, looper, clip, effects, local, breaks>>
    BY DEF Sends, agentVars
  <1>3. /\ cmd[c] = "idle" /\ cmd' = [cmd EXCEPT ![c] = "waiting"]
        /\ text' = [text EXCEPT ![c] = x] /\ request' = [request EXCEPT ![c] = "sent"]
        /\ shown' = [shown EXCEPT ![c] = {clip}]
        /\ before' = before \cup {<<d, c>> : d \in {e \in Cmds : cmd[e] = "ok"}}
    BY DEF Sends
  <1>4. CommandsTypeOK'
    <2>1. cmd' \in [Cmds -> {"idle", "waiting", "ok", "error"}] /\ request' \in [Cmds -> {"none", "sent", "gone"}]
      BY <1>1, <1>3 DEF CommandsTypeOK
    <2>2. text' \in [Cmds -> CmdTexts]
      BY <1>1, <1>3 DEF CommandsTypeOK
    <2>3. shown' \in [Cmds -> SUBSET CmdTexts]
      BY <1>1, <1>3 DEF CommandsTypeOK
    <2>4. before' \subseteq Cmds \X Cmds
      BY <1>1, <1>3 DEF CommandsTypeOK
    <2>5. QED
      BY <1>1, <1>2, <2>1, <2>2, <2>3, <2>4 DEF CommandsTypeOK
  <1>5. \A d : (InSeq(d, effects)' <=> InSeq(d, effects)) /\ (InSeq(d, looper)' <=> InSeq(d, looper))
    BY <1>2 DEF InSeq
  <1>6. ASSUME NEW d \in Cmds, d # c PROVE Truthful(d)'
    <2>1. cmd'[d] = cmd[d] /\ text'[d] = text[d] /\ request'[d] = request[d] /\ shown'[d] = shown[d]
      BY <1>1, <1>3, <1>6 DEF CommandsTypeOK
    <2>2. Truthful(d) /\ (cmd[d] = "waiting" => clip \in shown[d])
      BY <1>1 DEF Truthful
    <2>3. QED
      BY <1>2, <1>5, <2>1, <2>2, TruthfulKept
  <1>7. job[c] = "none" /\ returned[c] = NoResult /\ reply[c].type = "none" /\ ~InSeq(c, effects) /\ ~InSeq(c, looper)
    <2>1. Truthful(c)
      BY <1>1
    <2>2. QED
      BY <1>3, <2>1 DEF Truthful
  <1>8. Truthful(c)'
    <2>1. cmd'[c] = "waiting" /\ request'[c] = "sent" /\ clip' \in shown'[c]
      BY <1>1, <1>2, <1>3 DEF CommandsTypeOK
    <2>2. QED
      BY <1>2, <1>5, <1>7, <2>1 DEF Truthful, NoResult
  <1>9. EffectsInOrder'
    <2>1. \A d, e \in Cmds : <<d, e>> \in before' => <<d, e>> \in before \/ (e = c /\ cmd[d] = "ok")
      BY <1>3
    <2>2. \A d \in Cmds : cmd'[d] = IF d = c THEN "waiting" ELSE cmd[d]
      BY <1>1, <1>3 DEF CommandsTypeOK
    <2>3. \A d, e \in Cmds : <<d, e>> \in before' => cmd'[d] = "ok" /\ cmd'[e] # "idle" /\ d # e
      BY <1>1, <1>3, <2>1, <2>2 DEF EffectsInOrder
    <2>4. \A d : InSeq(d, looper) \/ InSeq(d, effects) => d \in Cmds
      BY <1>1 DEF CommandsTypeOK, InSeq
    <2>5. \A d, e : (InSeq(d, looper) \/ InSeq(d, effects)) /\ (InSeq(e, looper) \/ InSeq(e, effects)) =>
                       (<<d, e>> \in before' => <<d, e>> \in before)
      BY <1>7, <2>1, <2>4
    <2>6. Respects(looper, before')
      BY <1>1, <2>5, RespectsLess DEF EffectsInOrder
    <2>7. Respects(effects, Due')
      <3>1. \A d, e : InSeq(d, effects) /\ InSeq(e, effects) /\ <<d, e>> \in Due' => <<d, e>> \in Due
        BY <1>2, <2>5 DEF Due, Overtakes
      <3>2. QED
        BY <1>1, <3>1, RespectsLess DEF EffectsInOrder
    <2>8. QED
      BY <1>1, <1>2, <1>5, <2>3, <2>5, <2>6, <2>7 DEF EffectsInOrder
  <1>10. QED
    BY <1>4, <1>6, <1>8, <1>9 DEF CommandInv

\* The agent's event loop ends, the agent dies or returns.
LEMMA BreakSteps ==
    ASSUME CommandInv, LoopEnds \/ AgentDies \/ AgentReturns
    PROVE  CommandInv'
  <1>1. CommandsTypeOK /\ EffectsInOrder /\ \A d \in Cmds : Truthful(d)
    BY DEF CommandInv
  <1>2. UNCHANGED <<kind, platform, cmd, text, before, returned, clip, effects, shown, local>>
    BY DEF LoopEnds, AgentDies, AgentReturns, clientVars, deviceVars
  <1>3. looper' = looper \/ looper' = <<>>
    BY DEF LoopEnds, AgentDies, AgentReturns, deviceVars
  <1>4. /\ job' \in [Cmds -> {"none", "queued", "running", "executed", "over"}]
        /\ \A d \in Cmds : job'[d] = job[d] \/ (job[d] # "none" /\ job'[d] = "over")
    BY <1>1 DEF LoopEnds, AgentDies, AgentReturns, CommandsTypeOK
  <1>5. /\ request' \in [Cmds -> {"none", "sent", "gone"}]
        /\ \A d \in Cmds : request'[d] = request[d] \/ (request'[d] = "gone" /\ cmd[d] # "idle")
    <2>1. \A d \in Cmds : request[d] = "sent" \/ reply[d].type = "task_result" => cmd[d] # "idle"
      BY <1>1 DEF Truthful
    <2>2. QED
      BY <1>1, <2>1 DEF LoopEnds, AgentDies, AgentReturns, Lost, wireVars, CommandsTypeOK
  <1>6. /\ reply' \in [Cmds -> CmdFrames]
        /\ \A d \in Cmds : reply'[d] = reply[d] \/ reply'[d] = NoFrame
    <2>1. NoFrame \in CmdFrames
      BY DEF CmdFrames, NoFrame, NoResult, Results, CmdTexts
    <2>2. QED
      BY <1>1, <2>1 DEF LoopEnds, AgentDies, AgentReturns, Lost, wireVars, CommandsTypeOK
  <1>7. breaks' \in 0..MaxBreaks /\ online' \in BOOLEAN /\ forwarded' \in [Cmds -> BOOLEAN]
    <2>1. breaks' \in 0..MaxBreaks
      <3>1. breaks \in 0..MaxBreaks
        BY <1>1 DEF CommandsTypeOK
      <3>2. breaks' = breaks \/ (breaks < MaxBreaks /\ breaks' = breaks + 1)
        BY DEF LoopEnds, AgentDies, AgentReturns
      <3>3. QED
        BY <3>1, <3>2, CmdAssumption
    <2>2. QED
      BY <1>1, <2>1 DEF LoopEnds, AgentDies, AgentReturns, CommandsTypeOK
  <1>8. looper' \in Seq(Cmds)
    <2>1. looper \in Seq(Cmds) /\ <<>> \in Seq(Cmds)
      BY <1>1 DEF CommandsTypeOK
    <2>2. QED
      BY <1>3, <2>1
  <1>9. CommandsTypeOK'
    BY <1>1, <1>2, <1>4, <1>5, <1>6, <1>7, <1>8 DEF CommandsTypeOK
  <1>10. \A d : (InSeq(d, looper)' => InSeq(d, looper)) /\ (InSeq(d, effects)' <=> InSeq(d, effects))
    BY <1>2, <1>3 DEF InSeq
  <1>11. ASSUME NEW d \in Cmds PROVE Truthful(d)'
    <2>1. Truthful(d)
      BY <1>1
    <2>2. IsTask(d)' <=> IsTask(d)
      BY <1>2 DEF IsTask
    <2>3. reply'[d].type = "none" \/ reply'[d] = reply[d]
      BY <1>6 DEF NoFrame
    <2>4. QED
      BY <1>2, <1>4, <1>5, <1>10, <2>1, <2>2, <2>3 DEF Truthful
  <1>12. EffectsInOrder'
    <2>1. Due' = Due
      BY <1>2 DEF Due, Overtakes
    <2>2. Once(looper') /\ Respects(looper', before)
      BY <1>1, <1>3 DEF EffectsInOrder, Once, Respects
    <2>3. QED
      BY <1>1, <1>2, <1>10, <2>1, <2>2 DEF EffectsInOrder
  <1>13. QED
    BY <1>9, <1>11, <1>12 DEF CommandInv

\* A command is carried out, by its provider or by the main thread: nothing that was
\* sent after its success was reported has been, unless it may overtake.
LEMMA CarriedOut ==
    ASSUME CommandInv, NEW c \in Cmds, ~InSeq(c, effects), effects' = Append(effects, c),
           UNCHANGED <<kind, platform, cmd, before>>,
           \A d \in Cmds : InSeq(d, effects) => <<c, d>> \notin Due,
           looper' \in Seq(Cmds), Once(looper'), Respects(looper', before),
           \A d : InSeq(d, looper') => InSeq(d, looper),
           \A d \in Cmds : InSeq(d, looper') /\ <<d, c>> \in before => kind[c] = "terminal"
    PROVE  /\ EffectsInOrder' /\ effects' \in Seq(Cmds)
           /\ \A d : InSeq(d, effects)' <=> InSeq(d, effects) \/ d = c
  <1>1. CommandsTypeOK /\ EffectsInOrder
    BY DEF CommandInv
  <1>2. effects \in Seq(Cmds)
    BY <1>1 DEF CommandsTypeOK
  <1>3. Due' = Due
    BY DEF Due, Overtakes
  <1>4. <<c, c>> \notin Due
    BY <1>1 DEF EffectsInOrder, Due
  <1>5. /\ effects' \in Seq(Cmds) /\ Once(effects') /\ Respects(effects', Due)
        /\ \A d : InSeq(d, effects') <=> InSeq(d, effects) \/ d = c
    <2>1. Once(effects) /\ Respects(effects, Due)
      BY <1>1 DEF EffectsInOrder
    <2>2. QED
      BY <1>2, <1>4, <2>1, AppendKeeps
  <1>6. \A d, e \in Cmds : InSeq(d, looper') /\ InSeq(e, effects') /\ <<d, e>> \in before => kind[e] = "terminal"
    BY <1>1, <1>5 DEF EffectsInOrder
  <1>7. \A d : InSeq(d, effects)' <=> InSeq(d, effects')
    BY DEF InSeq
  <1>8. EffectsInOrder'
    <2>1. \A d, e \in Cmds : <<d, e>> \in before' => cmd'[d] = "ok" /\ cmd'[e] # "idle" /\ d # e
      BY <1>1 DEF EffectsInOrder
    <2>2. QED
      BY <1>3, <1>5, <1>6, <2>1 DEF EffectsInOrder
  <1>9. QED
    BY <1>5, <1>7, <1>8

\* The clipboard is set, or not: who waits sees it.
LEMMA ClipSteps ==
    ASSUME CommandInv, NEW x \in CmdTexts, SetClip(x) \/ UNCHANGED <<clip, shown>>
    PROVE  /\ clip' \in CmdTexts /\ shown' \in [Cmds -> SUBSET CmdTexts]
           /\ \A d \in Cmds : shown[d] \subseteq shown'[d] /\ (cmd[d] = "waiting" => clip' \in shown'[d])
  <1>1. shown \in [Cmds -> SUBSET CmdTexts] /\ clip \in CmdTexts
    BY DEF CommandInv, CommandsTypeOK
  <1>2. \A d \in Cmds : cmd[d] = "waiting" => clip \in shown[d]
    BY DEF CommandInv, Truthful
  <1>3. CASE SetClip(x)
    BY <1>1, <1>3 DEF SetClip
  <1>4. CASE UNCHANGED <<clip, shown>>
    BY <1>1, <1>2, <1>4
  <1>5. QED
    BY <1>3, <1>4

\* The main thread of the phone runs, or loses, the block posted first.
LEMMA MainThreadStep == ASSUME CommandInv, MainThread PROVE CommandInv'
  <1> DEFINE c == Head(looper)
  <1>1. CommandsTypeOK /\ EffectsInOrder /\ \A d \in Cmds : Truthful(d)
    BY DEF CommandInv
  <1>2. UNCHANGED <<kind, platform, cmd, text, before, request, reply, job, returned, forwarded, online, local, breaks>>
    BY DEF MainThread, clientVars, wireVars, agentVars
  <1>3. looper \in Seq(Cmds) /\ looper # <<>> /\ looper' = Tail(looper) /\ Once(looper) /\ Respects(looper, before)
    BY <1>1 DEF MainThread, CommandsTypeOK, EffectsInOrder
  <1>4. /\ looper' \in Seq(Cmds) /\ c \in Cmds /\ InSeq(c, looper)
        /\ \A d : InSeq(d, looper') => InSeq(d, looper)
        /\ Once(looper') /\ ~InSeq(c, looper') /\ Respects(looper', before)
        /\ \A d : InSeq(d, looper') => <<d, c>> \notin before
    BY <1>3, TailKeeps
  <1>5. /\ kind[c] \in {"set", "notify"} /\ platform = "android" /\ ~InSeq(c, effects)
        /\ job[c] \notin {"none", "queued", "running"}
    <2>1. Truthful(c)
      BY <1>1, <1>4
    <2>2. QED
      BY <1>4, <2>1 DEF Truthful
  <1>6. text[c] \in CmdTexts
    BY <1>1, <1>4 DEF CommandsTypeOK
  <1>7. /\ effects' = effects \/ effects' = Append(effects, c)
        /\ SetClip(text[c]) \/ UNCHANGED <<clip, shown>>
    BY DEF MainThread
  <1> HIDE DEF c
  <1>8. /\ clip' \in CmdTexts /\ shown' \in [Cmds -> SUBSET CmdTexts]
        /\ \A d \in Cmds : shown[d] \subseteq shown'[d] /\ (cmd[d] = "waiting" => clip' \in shown'[d])
    BY <1>6, <1>7, ClipSteps
  <1>9. /\ EffectsInOrder' /\ effects' \in Seq(Cmds)
        /\ \A d \in Cmds : InSeq(d, effects) => InSeq(d, effects)'
        /\ \A d \in Cmds : InSeq(d, effects)' => InSeq(d, effects) \/ d = c
    <2>1. CASE effects' = effects
      <3>1. Due' = Due
        BY <1>2 DEF Due, Overtakes
      <3>2. EffectsInOrder'
        BY <1>1, <1>2, <1>4, <2>1, <3>1 DEF EffectsInOrder
      <3>3. QED
        BY <1>1, <2>1, <3>2 DEF CommandsTypeOK, InSeq
    <2>2. CASE effects' = Append(effects, c)
      <3>1. \A d \in Cmds : InSeq(d, effects) => <<c, d>> \notin Due
        BY <1>1, <1>4, <1>5 DEF EffectsInOrder, Due, Overtakes
      <3>2. \A d \in Cmds : InSeq(d, looper') /\ <<d, c>> \in before => kind[c] = "terminal"
        BY <1>4
      <3>3. QED
        BY <1>2, <1>4, <1>5, <2>2, <3>1, <3>2, CarriedOut
    <2>3. QED
      BY <1>7, <2>1, <2>2
  <1>10. CommandsTypeOK'
    BY <1>1, <1>2, <1>4, <1>8, <1>9 DEF CommandsTypeOK
  <1>11. \A d : InSeq(d, looper)' <=> InSeq(d, looper')
    BY DEF InSeq
  <1>12. ASSUME NEW d \in Cmds PROVE Truthful(d)'
    <2>1. Truthful(d)
      BY <1>1
    <2>2. IsTask(d)' <=> IsTask(d)
      BY <1>2 DEF IsTask
    <2>3. InSeq(d, looper)' => InSeq(d, looper) /\ ~InSeq(d, effects)'
      BY <1>4, <1>9, <1>11, <2>1 DEF Truthful
    <2>4. job[d] \in {"none", "queued", "running"} => ~InSeq(d, effects)'
      BY <1>5, <1>9, <2>1 DEF Truthful
    <2>5. QED
      BY <1>2, <1>8, <1>9, <2>1, <2>2, <2>3, <2>4 DEF Truthful
  <1>13. QED
    BY <1>9, <1>10, <1>12 DEF CommandInv

\* A provider returns r: with a text it read, with the error of a failure, or with the
\* success of what it carried out or posted.
LEMMA ProviderSteps ==
    ASSUME CommandInv, NEW c \in Cmds, NEW r \in Results, ProviderReturns(c, r),
           \/ /\ UNCHANGED deviceVars
              /\ r = Plain("error") \/ (kind[c] = "get" /\ r = Content(clip))
                 \/ (kind[c] = "get" /\ platform = "android" /\ r = Content(Empty))
           \/ /\ effects' = Append(effects, c) /\ looper' = looper /\ r = Plain("success")
              /\ kind[c] = "terminal" \/ (kind[c] \in {"set", "notify"} /\ platform = "desktop")
              /\ SetClip(text[c]) \/ UNCHANGED <<clip, shown>>
           \/ /\ looper' = Append(looper, c) /\ r = Plain("success") /\ platform = "android"
              /\ kind[c] \in {"set", "notify"} /\ UNCHANGED <<clip, effects, shown>>
    PROVE  CommandInv'
  <1>1. CommandsTypeOK /\ EffectsInOrder /\ \A d \in Cmds : Truthful(d)
    BY DEF CommandInv
  <1>2. /\ UNCHANGED <<kind, platform, cmd, text, before, request, reply, forwarded, online, local, breaks>>
        /\ job[c] = "running" /\ job' = [job EXCEPT ![c] = "executed"]
        /\ returned' = [returned EXCEPT ![c] = r]
    BY DEF ProviderReturns, clientVars, wireVars
  <1>3. /\ \A d \in Cmds : d # c => job'[d] = job[d] /\ returned'[d] = returned[d]
        /\ job'[c] = "executed" /\ returned'[c] = r
        /\ job' \in [Cmds -> {"none", "queued", "running", "executed", "over"}]
        /\ returned' \in [Cmds -> Results]
    BY <1>1, <1>2 DEF CommandsTypeOK
  <1>4. Truthful(c)
    BY <1>1
  <1>5. ~InSeq(c, effects) /\ ~InSeq(c, looper) /\ cmd[c] # "ok" /\ reply[c].type # "task_result" /\ IsTask(c)
        /\ request[c] = "gone"
    BY <1>1, <1>2, <1>4 DEF Truthful, CommandsTypeOK
  <1>6. /\ clip' \in CmdTexts /\ shown' \in [Cmds -> SUBSET CmdTexts]
        /\ \A d \in Cmds : shown[d] \subseteq shown'[d] /\ (cmd[d] = "waiting" => clip' \in shown'[d])
    <2>1. text[c] \in CmdTexts /\ (SetClip(text[c]) \/ UNCHANGED <<clip, shown>>)
      BY <1>1 DEF CommandsTypeOK, deviceVars
    <2>2. QED
      BY <2>1, ClipSteps
  <1>7. \A d \in Cmds : <<c, d>> \notin before
    BY <1>1, <1>5 DEF EffectsInOrder
  <1>8. /\ EffectsInOrder' /\ effects' \in Seq(Cmds) /\ looper' \in Seq(Cmds)
        /\ \A d \in Cmds : d # c => /\ InSeq(d, effects)' <=> InSeq(d, effects)
                                    /\ InSeq(d, looper)' <=> InSeq(d, looper)
        /\ effects' = Append(effects, c) => InSeq(c, effects)'
        /\ effects' = effects => ~InSeq(c, effects)'
        /\ looper' = looper => ~InSeq(c, looper)'
    <2>1. CASE effects' = effects /\ looper' = looper
      <3>1. EffectsInOrder'
        BY <1>1, <1>2, <2>1, OrderKept
      <3>2. effects # Append(effects, c)
        <4>1. effects \in Seq(Cmds)
          BY <1>1 DEF CommandsTypeOK
        <4>2. QED
          BY <1>5, <4>1, AppendKeeps
      <3>3. QED
        BY <1>1, <1>5, <2>1, <3>1, <3>2 DEF CommandsTypeOK, InSeq
    <2>2. CASE effects' = Append(effects, c) /\ looper' = looper
      <3>1. looper' \in Seq(Cmds) /\ Once(looper') /\ Respects(looper', before)
        BY <1>1, <2>2 DEF CommandsTypeOK, EffectsInOrder
      <3>2. \A d \in Cmds : InSeq(d, looper') /\ <<d, c>> \in before => kind[c] = "terminal"
        <4>1. kind[c] = "terminal" \/ platform = "desktop"
          <5>1. effects # Append(effects, c)
            <6>1. effects \in Seq(Cmds)
              BY <1>1 DEF CommandsTypeOK
            <6>2. QED
              BY <1>5, <6>1, AppendKeeps
          <5>2. QED
            BY <2>2, <5>1 DEF deviceVars
        <4>2. \A d \in Cmds : InSeq(d, looper) => platform = "android"
          BY <1>1 DEF Truthful
        <4>3. QED
          BY <2>2, <4>1, <4>2
      <3>3. QED
        <4>1. \A d \in Cmds : InSeq(d, effects) => <<c, d>> \notin Due
          BY <1>7 DEF Due
        <4>2. \A d : InSeq(d, looper') => InSeq(d, looper)
          BY <2>2
        <4>3. EffectsInOrder' /\ effects' \in Seq(Cmds) /\ \A d : InSeq(d, effects)' <=> InSeq(d, effects) \/ d = c
          BY <1>2, <1>5, <2>2, <3>1, <3>2, <4>1, <4>2, CarriedOut
        <4>4. \A d : InSeq(d, looper)' <=> InSeq(d, looper)
          BY <2>2 DEF InSeq
        <4>5. effects' # effects
          BY <1>5, <4>3 DEF InSeq
        <4>6. QED
          BY <1>5, <2>2, <3>1, <4>3, <4>4, <4>5
    <2>3. CASE looper' = Append(looper, c) /\ effects' = effects
      <3>1. looper \in Seq(Cmds) /\ Once(looper) /\ Respects(looper, before) /\ effects \in Seq(Cmds)
        BY <1>1 DEF CommandsTypeOK, EffectsInOrder
      <3>2. /\ looper' \in Seq(Cmds) /\ Once(looper') /\ Respects(looper', before)
            /\ \A d : InSeq(d, looper') <=> InSeq(d, looper) \/ d = c
        BY <1>5, <1>7, <2>3, <3>1, AppendKeeps
      <3>3. Due' = Due
        BY <1>2 DEF Due, Overtakes
      <3>4. \A d, e \in Cmds : InSeq(d, looper') /\ InSeq(e, effects) /\ <<d, e>> \in before => kind[e] = "terminal"
        BY <1>1, <1>7, <3>2 DEF EffectsInOrder
      <3>5. EffectsInOrder'
        <4>1. \A d, e \in Cmds : <<d, e>> \in before' => cmd'[d] = "ok" /\ cmd'[e] # "idle" /\ d # e
          BY <1>1, <1>2 DEF EffectsInOrder
        <4>2. QED
          BY <1>1, <1>2, <2>3, <3>2, <3>3, <3>4, <4>1 DEF EffectsInOrder
      <3>6. looper # Append(looper, c) /\ effects # Append(effects, c)
        BY <1>5, <3>1, AppendKeeps
      <3>7. \A d : (InSeq(d, effects)' <=> InSeq(d, effects)) /\ (InSeq(d, looper)' <=> InSeq(d, looper'))
        BY <2>3 DEF InSeq
      <3>8. QED
        BY <1>5, <2>3, <3>1, <3>2, <3>5, <3>6, <3>7
    <2>4. QED
      BY <2>1, <2>2, <2>3 DEF deviceVars
  <1>9. CommandsTypeOK'
    BY <1>1, <1>2, <1>3, <1>6, <1>8 DEF CommandsTypeOK
  <1>10. ASSUME NEW d \in Cmds, d # c PROVE Truthful(d)'
    <2>1. Truthful(d)
      BY <1>1
    <2>2. InSeq(d, effects)' <=> InSeq(d, effects)
      BY <1>8, <1>10
    <2>3. InSeq(d, looper)' <=> InSeq(d, looper)
      BY <1>8, <1>10
    <2>4. job'[d] = job[d] /\ returned'[d] = returned[d]
      BY <1>3, <1>10
    <2>5. shown[d] \subseteq shown'[d] /\ (cmd[d] = "waiting" => clip' \in shown'[d])
      BY <1>6
    <2>6. QED
      BY <1>2, <2>1, <2>2, <2>3, <2>4, <2>5, TruthfulKept
  <1>11. Truthful(c)'
    <2>1. /\ r = Plain("success") => /\ "content" \notin r.fields
                                     /\ kind[c] = "terminal" \/ platform = "desktop" => InSeq(c, effects)'
          /\ "success" \in r.fields => r = Plain("success")
      <3>1. \A y : "success" \notin Content(y).fields
        BY DEF Content
      <3>2. "success" \notin Plain("error").fields /\ "content" \notin Plain("success").fields
        BY DEF Plain
      <3>3. Plain("success") # Plain("error") /\ \A y : Plain("success") # Content(y)
        BY DEF Plain, Content
      <3>4. QED
        BY <1>8, <3>1, <3>2, <3>3
    <2>2. cmd[c] = "waiting" /\ "content" \in r.fields =>
             r.content \in shown'[c] \/ (platform = "android" /\ r.content = Empty)
      <3>1. \A y : Content(y).content = y
        BY DEF Content
      <3>2. "content" \notin Plain("error").fields /\ "content" \notin Plain("success").fields
        BY DEF Plain
      <3>3. UNCHANGED deviceVars => clip' = clip
        BY DEF deviceVars
      <3>4. QED
        BY <1>6, <3>1, <3>2, <3>3
    <2>3. InSeq(c, looper)' => kind[c] \in {"set", "notify"} /\ platform = "android" /\ ~InSeq(c, effects)'
      <3>1. looper' = looper \/ (effects' = effects /\ kind[c] \in {"set", "notify"} /\ platform = "android")
        BY DEF deviceVars
      <3>2. QED
        BY <1>8, <3>1
    <2>4. IsTask(c)'
      BY <1>2, <1>5 DEF IsTask
    <2>5. clip' \in shown'[c] \/ cmd[c] # "waiting"
      BY <1>6
    <2>6. QED
      BY <1>2, <1>3, <1>4, <1>5, <2>1, <2>2, <2>3, <2>4, <2>5 DEF Truthful
  <1>12. QED
    BY <1>8, <1>9, <1>10, <1>11 DEF CommandInv

LEMMA TaskSteps ==
    ASSUME CommandInv, NEW c \in Cmds, ClipboardTask(c) \/ NotificationsTask(c) \/ TerminalTask(c)
    PROVE  CommandInv'
  <1>1. clip \in CmdTexts /\ Empty \in CmdTexts
    BY DEF CommandInv, CommandsTypeOK, CmdTexts
  <1>2. Plain("success") \in Results /\ Plain("error") \in Results /\ \A y \in CmdTexts : Content(y) \in Results
    BY <1>1 DEF Plain, Content, Results
  <1>3. CASE ProviderFails(c)
    BY <1>2, <1>3, ProviderSteps DEF ProviderFails
  <1>4. CASE DesktopGetText(c) \/ AndroidGetText(c)
    BY <1>1, <1>2, <1>4, ProviderSteps DEF DesktopGetText, AndroidGetText
  <1>5. CASE DesktopSetText(c)
    BY <1>2, <1>5, ProviderSteps DEF DesktopSetText
  <1>6. CASE AndroidSetText(c) \/ AndroidShow(c)
    BY <1>2, <1>6, ProviderSteps DEF AndroidSetText, AndroidShow, AndroidPosts
  <1>7. CASE DesktopShow(c)
    BY <1>2, <1>7, ProviderSteps DEF DesktopShow
  <1>8. CASE DesktopExecute(c) \/ AndroidExecute(c)
    BY <1>2, <1>8, ProviderSteps DEF DesktopExecute, AndroidExecute, RunsCommand
  <1>9. QED
    BY <1>3, <1>4, <1>5, <1>6, <1>7, <1>8 DEF ClipboardTask, NotificationsTask, TerminalTask

LEMMA CommandNext_Inv == CommandInv /\ [CommandsNext]_commandVars => CommandInv'
  <1> SUFFICES ASSUME CommandInv, [CommandsNext]_commandVars PROVE CommandInv'
    OBVIOUS
  <1>1. CASE CommandsNext
    BY <1>1, SubmitSends, SendSteps, WireSteps, TaskSteps, MainThreadStep, BreakSteps DEF CommandsNext
  <1>2. CASE UNCHANGED commandVars
    <2>1. UNCHANGED <<kind, platform, cmd, text, before, request, reply, job, returned, forwarded, online,
                      looper, clip, effects, shown, local, breaks>>
      BY <1>2 DEF commandVars, clientVars, wireVars, agentVars, deviceVars
    <2>2. CommandsTypeOK'
      BY <2>1 DEF CommandInv, CommandsTypeOK
    <2>3. ASSUME NEW d \in Cmds PROVE Truthful(d)'
      <3>1. Truthful(d) /\ (cmd[d] = "waiting" => clip \in shown[d])
        BY DEF CommandInv, Truthful
      <3>2. QED
        BY <2>1, <3>1, TruthfulKept DEF InSeq
    <2>4. EffectsInOrder'
      BY <2>1, OrderKept DEF CommandInv
    <2>5. QED
      BY <2>2, <2>3, <2>4 DEF CommandInv
  <1>3. QED
    BY <1>1, <1>2

LEMMA CommandInv_Properties == CommandInv => ReportsAreTrue /\ EffectsKeepOrder
  <1> SUFFICES ASSUME CommandInv PROVE ReportsAreTrue /\ EffectsKeepOrder
    OBVIOUS
  <1>1. ReportsAreTrue
    BY DEF CommandInv, Truthful, ReportsAreTrue, Done, InSeq, IsTask
  <1>2. EffectsKeepOrder
    <2> SUFFICES ASSUME NEW i \in DOMAIN effects, NEW j \in DOMAIN effects
                 PROVE  /\ effects[i] = effects[j] => i = j
                        /\ <<effects[i], effects[j]>> \in before /\ ~Overtakes(effects[i], effects[j]) => i < j
      BY DEF EffectsKeepOrder
    <2>1. Once(effects) /\ Respects(effects, Due)
      BY DEF CommandInv, EffectsInOrder
    <2>2. QED
      BY <2>1 DEF Once, Respects, Due
  <1>3. QED
    BY <1>1, <1>2

\* A command for another device reports what that device did, whatever breaks off.
THEOREM ReportsAreTrueHolds == CommandsSpec => []ReportsAreTrue
  <1>1. QED
    BY CommandInit_Inv, CommandNext_Inv, CommandInv_Properties, PTL DEF CommandsSpec

\* A device carries out a command at most once, and not before one whose success was
\* reported before it was sent, but for the phone's main thread.
THEOREM EffectsKeepOrderHolds == CommandsSpec => []EffectsKeepOrder
  <1>1. QED
    BY CommandInit_Inv, CommandNext_Inv, CommandInv_Properties, PTL DEF CommandsSpec

-----------------------------------------------------------------------------
(* All of them side by side: a behaviour of FilesSpec is a behaviour of     *)
(* each component, which holds still when another one is followed.          *)

\* The counters of the keepalive: a stream is idle no longer than it has been watched,
\* and a block is only written while there is one.
KeepaliveTypes ==
    /\ KeepaliveTypeOK
    /\ idle <= ticks
    /\ poll = "write" => blocks > 0

LEMMA KeepaliveTypesNext ==
    KeepaliveInv' /\ KeepaliveTypes /\ [KeepaliveNext]_keepaliveVars => KeepaliveTypes'
  <1> SUFFICES ASSUME KeepaliveInv', KeepaliveTypes, [KeepaliveNext]_keepaliveVars PROVE KeepaliveTypes'
    OBVIOUS
  <1>1. KeepaliveTypeOK /\ idle <= ticks /\ (poll = "write" => blocks > 0)
    BY DEF KeepaliveTypes
  <1>2. wire' \in Seq(Piece) /\ frames' \in Seq(KaFrames)
    BY DEF KeepaliveInv
  <1>3. /\ blocks \in Nat /\ blocks <= BodyBlocks /\ idle \in Nat /\ ticks \in Nat /\ ticks <= MaxTicks
        /\ peerFrames \in Nat /\ peerFrames <= MaxPeerFrames
        /\ BodyBlocks \in Nat /\ MaxTicks \in Nat /\ MaxPeerFrames \in Nat
    BY <1>1, KeepaliveAssumption DEF KeepaliveTypeOK
  <1>4. partial' \in Seq(Piece) /\ Len(partial') <= 2
    <2>1. partial \in Seq(Piece) /\ Len(partial) <= 2
      BY <1>1 DEF KeepaliveTypeOK
    <2>2. CASE partial' = partial \/ partial' = <<>>
      <3>1. <<>> \in Seq(Piece) /\ Len(<<>>) = 0 /\ 0 <= 2
        OBVIOUS
      <3>2. CASE partial' = partial
        BY <2>1, <3>2
      <3>3. CASE partial' = <<>>
        BY <3>1, <3>3
      <3>4. QED
        BY <2>2, <3>2, <3>3
    <2>3. CASE WriteFramePart
      <3>1. Len(partial) = 2 /\ partial' = Tail(partial)
        BY <2>3 DEF WriteFramePart
      <3>2. partial # <<>>
        BY <3>1
      <3>3. Tail(partial) \in Seq(Piece) /\ Len(Tail(partial)) = 1
        BY <2>1, <3>1, <3>2, HeadTailProperties
      <3>4. 1 <= 2
        OBVIOUS
      <3>5. QED
        BY <3>1, <3>3, <3>4
    <2>4. CASE NextFrame
      <3>1. Head(frames) \in KaFrames
        BY <1>1, <2>4 DEF NextFrame, KeepaliveTypeOK
      <3>2. \A f \in KaFrames : Pieces(f) \in Seq(Piece) /\ Len(Pieces(f)) = 2
        <4> TAKE f \in KaFrames
        <4>1. [frame |-> f, half |-> 1] \in Piece /\ [frame |-> f, half |-> 2] \in Piece
          BY DEF Piece
        <4>2. QED
          BY <4>1 DEF Pieces
      <3>3. partial' = Pieces(Head(frames)) /\ 2 <= 2
        BY <2>4 DEF NextFrame
      <3>4. QED
        BY <3>1, <3>2, <3>3
    <2>5. QED
      BY <2>2, <2>3, <2>4 DEF KeepaliveNext, keepaliveVars, WriteBlock, FlushBody, WriteFrame, WriteData,
         FlushAndShutdown, Blocked, WriteFails, Repoll, MonitorStarts, PingTick, IdleTimeout, MonitorStops,
         PeerPing, PeerOther, PeerCloses, DropHandle
  <1>5. /\ poll' \in {"ready", "write", "flush", "parked", "stalled", "failed", "shut", "dropped"}
        /\ monitor' \in {"spawned", "waiting", "ended"}
        /\ permit' \in BOOLEAN /\ flagged' \in BOOLEAN /\ listening' \in BOOLEAN
    BY <1>1 DEF KeepaliveTypeOK, KeepaliveNext, keepaliveVars, WriteBlock, FlushBody, WriteFrame, WriteFramePart,
       NextFrame, WriteData, FlushAndShutdown, Blocked, WriteFails, Repoll, MonitorStarts, PingTick, IdleTimeout,
       MonitorStops, PeerPing, PeerOther, PeerCloses, DropHandle
  <1>6. blocks' \in 0..BodyBlocks /\ (poll' = "write" => blocks' > 0)
    <2>1. CASE WriteData
      BY <1>1, <1>3, <2>1 DEF WriteData
    <2>2. CASE blocks' = blocks /\ (poll' = poll \/ poll' # "write" \/ blocks > 0)
      BY <1>1, <1>3, <2>2
    <2>3. QED
      BY <2>1, <2>2 DEF KeepaliveNext, keepaliveVars, WriteBlock, FlushBody, WriteFrame, WriteFramePart,
         NextFrame, FlushAndShutdown, Blocked, WriteFails, Repoll, MonitorStarts, PingTick, IdleTimeout,
         MonitorStops, PeerPing, PeerOther, PeerCloses, DropHandle
  <1>7. /\ idle' \in 0..MaxTicks /\ ticks' \in 0..MaxTicks /\ idle' <= ticks'
    <2>1. \/ ticks' = ticks /\ (idle' = idle \/ idle' = 0)
          \/ ticks < MaxTicks /\ ticks' = ticks + 1 /\ (idle' = idle + 1 \/ idle' = idle)
      BY DEF KeepaliveNext, keepaliveVars, WriteBlock, FlushBody, WriteFrame, WriteFramePart, WriteData,
         NextFrame, FlushAndShutdown, Blocked, WriteFails, Repoll, MonitorStarts, PingTick, IdleTimeout,
         MonitorStops, PeerPing, PeerOther, PeerCloses, DropHandle
    <2>2. CASE ticks' = ticks /\ (idle' = idle \/ idle' = 0)
      BY <1>1, <1>3, <2>2
    <2>3. CASE ticks < MaxTicks /\ ticks' = ticks + 1 /\ (idle' = idle + 1 \/ idle' = idle)
      BY <1>1, <1>3, <2>3
    <2>4. QED
      BY <2>1, <2>2, <2>3
  <1>8. peerFrames' \in 0..MaxPeerFrames
    <2>1. peerFrames' = peerFrames \/ (peerFrames < MaxPeerFrames /\ peerFrames' = peerFrames + 1)
      BY DEF KeepaliveNext, keepaliveVars, WriteBlock, FlushBody, WriteFrame, WriteFramePart, WriteData,
         NextFrame, FlushAndShutdown, Blocked, WriteFails, Repoll, MonitorStarts, PingTick, IdleTimeout,
         MonitorStops, PeerPing, PeerOther, PeerCloses, DropHandle
    <2>2. QED
      BY <1>3, <2>1
  <1>9. QED
    BY <1>2, <1>4, <1>5, <1>6, <1>7, <1>8 DEF KeepaliveTypes, KeepaliveTypeOK

LEMMA KeepaliveTypesInit == KeepaliveInit => KeepaliveTypes
  <1> SUFFICES ASSUME KeepaliveInit PROVE KeepaliveTypes
    OBVIOUS
  <1>1. BodyBlocks \in 0..BodyBlocks /\ 0 \in 0..MaxTicks /\ 0 \in 0..MaxPeerFrames /\ 0 <= 0
    BY KeepaliveAssumption
  <1>2. <<>> \in Seq(Piece) /\ <<>> \in Seq(KaFrames) /\ Len(<<>>) = 0 /\ 0 <= 2
    OBVIOUS
  <1>3. Len(partial) <= 2
    BY <1>2 DEF KeepaliveInit
  <1>4. QED
    BY <1>1, <1>2, <1>3 DEF KeepaliveInit, KeepaliveTypes, KeepaliveTypeOK

filesVars == <<focus, transferVars, directVars, reliableVars, quicVars, keepaliveVars,
               udpVars, tunnelVars, cliVars, commandVars>>

Focuses == {"http", "direct", "reliable", "quic", "keepalive", "udp", "tunnel", "history", "commands", "remote"}

\* Each component takes its own steps or none.
LEMMA FilesStep ==
    [FilesNext]_filesVars =>
        /\ [TransferNext]_transferVars /\ [DirectNext]_directVars /\ [ReliableNext]_reliableVars
        /\ [QuicNext]_quicVars /\ [KeepaliveNext]_keepaliveVars /\ [UdpNext]_udpVars
        /\ [TunnelNext]_tunnelVars /\ [CliNext]_cliVars /\ [CommandsNext]_commandVars /\ UNCHANGED focus
  BY DEF FilesNext, filesVars

LEMMA FilesStart ==
    FilesInit => /\ TransferInit /\ DirectInit /\ ReliableInit /\ QuicInit /\ KeepaliveInit /\ UdpInit
                 /\ TunnelInit /\ CliInit /\ CommandsInit /\ focus \in Focuses
  BY DEF FilesInit, Focuses

LEMMA FilesComponents ==
    FilesSpec => /\ TransferSpec /\ DirectSpec /\ ReliableSpec /\ QuicSpec /\ KeepaliveSpec /\ UdpSpec
                 /\ TunnelSpec /\ CliSpec /\ CommandsSpec
  <1>1. QED
    BY FilesStart, FilesStep, PTL
       DEF FilesSpec, filesVars, TransferSpec, DirectSpec, ReliableSpec, QuicSpec, KeepaliveSpec, UdpSpec,
           TunnelSpec, CliSpec, CommandsSpec

\* An Ok of the HTTP or of the UDP sender stands for a file the receiver has.
THEOREM SuccessIsReceivedHolds == FilesSpec => []SuccessIsReceived
  <1>1. OkIsReceived /\ UdpOkIsStored => SuccessIsReceived
    BY DEF SuccessIsReceived
  <1>2. QED
    BY <1>1, FilesComponents, OkIsReceivedHolds, UdpOkIsStoredHolds, PTL

\* No frame of the keepalive or of a tunnel is written into another.
THEOREM FramesAreWholeHolds == FilesSpec => []FramesAreWhole
  <1>1. FramesAreContiguous /\ TunnelFilesAreWhole => FramesAreWhole
    BY DEF FramesAreWhole
  <1>2. QED
    BY <1>1, FilesComponents, FramesAreContiguousHolds, TunnelFilesAreWholeHolds, PTL

\* What start_transfer(), the history of the command line tool and the commands for
\* another device record or report is what happened.
THEOREM RecordsAgreeHolds == FilesSpec => []RecordsAgree
  <1>1. OutcomesAgree /\ HistoryIsTruthful /\ ReportsAreTrue /\ EffectsKeepOrder => RecordsAgree
    BY DEF RecordsAgree
  <1>2. QED
    BY <1>1, FilesComponents, OutcomesAgreeHolds, HistoryIsTruthfulHolds, ReportsAreTrueHolds,
       EffectsKeepOrderHolds, PTL

\* Type correctness of the nine components.
THEOREM FilesTypesHold == FilesSpec => []FilesTypeOK
  <1>1. focus \in Focuses /\ TransferTypeOK /\ DirectInv /\ ReliableInv /\ QuicInv /\ KeepaliveTypes
           /\ UdpInv /\ TunnelInv /\ CliInv /\ CommandInv => FilesTypeOK
    <2>1. DirectInv => DirectTypeOK
      BY DEF DirectInv
    <2>2. (ReliableInv => ReliableTypeOK) /\ (QuicInv => QuicTypeOK)
      BY DEF ReliableInv, QuicInv
    <2>3. (KeepaliveTypes => KeepaliveTypeOK) /\ (UdpInv => UdpTypeOK)
      BY DEF KeepaliveTypes, UdpInv
    <2>4. (TunnelInv => TunnelTypeOK) /\ (CommandInv => CommandsTypeOK)
      BY DEF TunnelInv, CommandInv
    <2> SUFFICES ASSUME focus \in Focuses, TransferTypeOK, DirectInv, ReliableInv, QuicInv, KeepaliveTypes,
                        UdpInv, TunnelInv, CliInv, CommandInv
                 PROVE  FilesTypeOK
      OBVIOUS
    <2>5. /\ TransferTypeOK /\ DirectTypeOK /\ ReliableTypeOK /\ QuicTypeOK /\ KeepaliveTypeOK /\ UdpTypeOK
          /\ TunnelTypeOK /\ CliTypeOK /\ CommandsTypeOK
      BY <2>1, <2>2, <2>3, <2>4, CliInv_Properties
    <2>6. CASE focus = "http"
      BY <2>5, <2>6 DEF FilesTypeOK
    <2>7. CASE focus = "direct"
      BY <2>5, <2>7 DEF FilesTypeOK
    <2>8. CASE focus = "reliable"
      BY <2>5, <2>8 DEF FilesTypeOK
    <2>9. CASE focus = "quic"
      BY <2>5, <2>9 DEF FilesTypeOK
    <2>10. CASE focus = "keepalive"
      BY <2>5, <2>10 DEF FilesTypeOK
    <2>11. CASE focus = "udp"
      BY <2>5, <2>11 DEF FilesTypeOK
    <2>12. CASE focus = "tunnel"
      BY <2>5, <2>12 DEF FilesTypeOK
    <2>13. CASE focus \in {"history", "commands"}
      BY <2>5, <2>13 DEF FilesTypeOK
    <2>14. CASE focus = "remote"
      BY <2>5, <2>14 DEF FilesTypeOK
    <2>15. QED
      BY <2>6, <2>7, <2>8, <2>9, <2>10, <2>11, <2>12, <2>13, <2>14 DEF Focuses
  <1>2. DirectSpec => []DirectInv
    BY DirectInit_Inv, DirectNext_Inv, PTL DEF DirectSpec
  <1>3. ReliableSpec => []ReliableInv
    BY ReliableInit_Inv, ReliableNext_Inv, PTL DEF ReliableSpec
  <1>4. QuicSpec => []QuicInv
    BY QuicInit_Inv, QuicNext_Inv, QuicAssumption, PTL DEF QuicSpec
  <1>5. KeepaliveSpec => []KeepaliveTypes
    BY KeepaliveInit_Inv, KeepaliveNext_Inv, KeepaliveTypesInit, KeepaliveTypesNext, PTL DEF KeepaliveSpec
  <1>6. UdpSpec => []UdpInv
    BY UdpInit_Inv, UdpNext_Inv, PTL DEF UdpSpec
  <1>7. TunnelSpec => []TunnelInv
    BY TunnelInit_Inv, TunnelNext_Inv, PTL DEF TunnelSpec
  <1>8. CliSpec => []CliInv
    BY CliInit_Inv, CliNext_Inv, PTL DEF CliSpec
  <1>9. CommandsSpec => []CommandInv
    BY CommandInit_Inv, CommandNext_Inv, PTL DEF CommandsSpec
  <1>10. FilesSpec => [](focus \in Focuses)
    <2>1. focus \in Focuses /\ [FilesNext]_filesVars => (focus \in Focuses)'
      BY FilesStep
    <2>2. QED
      BY <2>1, FilesStart, PTL DEF FilesSpec, filesVars
  <1>11. QED
    BY <1>1, <1>2, <1>3, <1>4, <1>5, <1>6, <1>7, <1>8, <1>9, <1>10, FilesComponents, TransferTypesHold, PTL
=============================================================================
