--------------------------- MODULE Session_proofs ---------------------------
(***************************************************************************)
(* The session invariants for any number of devices, sessions, files and   *)
(* user calls and any max_history.                                         *)
(***************************************************************************)
EXTENDS SessionNegotiation, SessionManager_proofs, SequenceTheorems, TLAPS

-----------------------------------------------------------------------------
(* The invariant. *)

\* A session that has not started, or has not arrived, is unknown to the manager.
Fresh ==
    \A s \in Sessions :
        /\ starter[s] = "idle" => Untouched(From[s], s)
        /\ incoming[s] = "none" => Untouched(To[s], s)

\* Wherever an acceptance can be between the receiving user and the upload task,
\* the user has accepted.
ConsentChain ==
    \A s \in Sessions :
        (\/ oneshot[s] = "accept"
         \/ incoming[s] \in {"accepting", "accepted"}
         \/ wire[s] = "accept"
         \/ upload[s] # "none"
         \/ "Active" \in events[From[s]][s]) => consent[s]

\* The upload task exists only after start_session() has returned, it reports
\* completion only with every file sent, and a recorded completion is its own.
CompletedChain ==
    \A s \in Sessions :
        /\ starter[s] # "returned" => upload[s] = "none"
        /\ upload[s] \in {"queued", "sending"} => sent[s] < Files
        /\ upload[s] = "Completed" => sent[s] = Files

CompletedRecords ==
    \A s \in Sessions : \A i \in DOMAIN history[From[s]] :
        history[From[s]][i] = [id |-> s, state |-> "Completed"]
        => upload[s] = "ended" /\ sent[s] = Files

SessionInv ==
    /\ ManagerInv
    /\ TaskTypeOK
    /\ Fresh
    /\ ConsentChain
    /\ EngineHeldBySender
    /\ CompletedChain
    /\ CompletedRecords

\* How a step can change the manager: not at all, by update_state() (with Completed
\* only from an upload task that has come to that end), or by creating a session
\* that was not known.
ManagerMove ==
    \/ UNCHANGED managerVars
    \/ \E d \in Devices, s \in Sessions, state \in States :
          /\ update_state(d, s, state)
          /\ state = "Completed" => d = From[s] /\ upload[s] = "Completed" /\ upload'[s] = "ended"
    \/ \E s \in Sessions : starter[s] = "idle" /\ starter'[s] # "idle" /\ create(From[s], s)
    \/ \E s \in Sessions : incoming[s] = "none" /\ incoming'[s] # "none" /\ create(To[s], s)

\* Every step keeps the types of the tasks' state.
LEMMA TypeStep ==
    ASSUME NegotiationAssumption, SessionInv, [Next]_vars
    PROVE  TaskTypeOK'
  <1> USE DEF SessionInv, TaskTypeOK, NegotiationAssumption, vars, taskVars,
       peerVars, netVars, userVars, otherTasks, emit, EventKinds, Call,
       respond, is_terminal
  <1>1. CASE \E s \in Sessions : StartSession(s)
    BY <1>1 DEF StartSession
  <1>2. CASE \E s \in Sessions : ConnectFails(s)
    BY <1>2 DEF ConnectFails
  <1>3. CASE \E s \in Sessions : StartNegotiating(s)
    BY <1>3 DEF StartNegotiating
  <1>4. CASE \E s \in Sessions : SendRequest(s)
    BY <1>4 DEF SendRequest
  <1>5. CASE \E s \in Sessions : ReadFails(s)
    BY <1>5 DEF ReadFails
  <1>6. CASE \E s \in Sessions : RecvAccept(s)
    BY <1>6 DEF RecvAccept
  <1>7. CASE \E s \in Sessions : RecvReject(s)
    BY <1>7 DEF RecvReject
  <1>8. CASE \E s \in Sessions : InsertToken(s)
    BY <1>8 DEF InsertToken
  <1>9. CASE \E s \in Sessions : NextFile(s)
    BY <1>9 DEF NextFile
  <1>10. CASE \E s \in Sessions : SentFile(s)
    BY <1>10 DEF SentFile, CompletedChain
  <1>11. CASE \E s \in Sessions : SendFails(s)
    BY <1>11 DEF SendFails
  <1>12. CASE \E s \in Sessions : DecideOutcome(s)
    BY <1>12 DEF DecideOutcome
  <1>13. CASE \E s \in Sessions : ReportOutcome(s)
    BY <1>13 DEF ReportOutcome
  <1>14. CASE \E s \in Sessions : LockEngine(s)
    <2>1. PICK s \in Sessions : LockEngine(s)
      BY <1>14
    <2>2. CASE token[s] = "cancelled"
      <3>1. upload' = [upload EXCEPT ![s] = "failed"] /\ engine' = engine
        BY <2>1, <2>2 DEF LockEngine
      <3>2. QED
        BY <2>1, <3>1 DEF LockEngine
    <2>3. CASE token[s] # "cancelled"
      <3>1. /\ upload' = [upload EXCEPT ![s] = "sending"]
            /\ engine' = [engine EXCEPT ![From[s]] = s]
        BY <2>1, <2>3 DEF LockEngine
      <3>2. QED
        BY <2>1, <3>1 DEF LockEngine
    <2>4. QED
      BY <2>2, <2>3
  <1>15. CASE \E s \in Sessions : RecvRequest(s)
    BY <1>15 DEF RecvRequest
  <1>16. CASE \E s \in Sessions : AskUser(s)
    BY <1>16 DEF AskUser
  <1>17. CASE \E s \in Sessions : TakeAnswer(s)
    BY <1>17 DEF TakeAnswer
  <1>18. CASE \E s \in Sessions : ApprovalTimeout(s)
    BY <1>18 DEF ApprovalTimeout
  <1>19. CASE \E s \in Sessions : SendAnswer(s)
    BY <1>19 DEF SendAnswer
  <1>20. CASE \E s \in Sessions : AnswerFails(s)
    BY <1>20 DEF AnswerFails
  <1>21. CASE \E s \in Sessions : FinishIncoming(s)
    BY <1>21 DEF FinishIncoming
  <1>22. CASE \E s \in Sessions : accept_session(s)
    BY <1>22 DEF accept_session
  <1>23. CASE \E s \in Sessions : reject_session(s)
    BY <1>23 DEF reject_session
  <1>24. CASE \E s \in Sessions : LinkBreaks(s)
    BY <1>24 DEF LinkBreaks
  <1>25. CASE \E d \in Devices, s \in Sessions : CancelToken(d, s)
    BY <1>25 DEF CancelToken
  <1>26. CASE \E d \in Devices, s \in Sessions : CancelRecord(d, s)
    BY <1>26 DEF CancelRecord
  <1>27. CASE UNCHANGED vars
    BY <1>27
  <1>28. QED
    BY <1>1, <1>2, <1>3, <1>4, <1>5, <1>6, <1>7, <1>8, <1>9, <1>10, <1>11,
       <1>12, <1>13, <1>14, <1>15, <1>16, <1>17, <1>18, <1>19, <1>20, <1>21,
       <1>22, <1>23, <1>24, <1>25, <1>26, <1>27 DEF Next, Starts, StarterRuns,
       UploadRuns, ReceiverRuns, User

\* Every step moves the manager in one of the ways of ManagerMove, a session never
\* becomes unstarted again, and files are counted only while they are being sent.
LEMMA MoveStep ==
    ASSUME NegotiationAssumption, SessionInv, [Next]_vars
    PROVE  /\ ManagerMove
           /\ \A s \in Sessions : starter'[s] = "idle" => starter[s] = "idle"
           /\ \A s \in Sessions : incoming'[s] = "none" => incoming[s] = "none"
           /\ \A s \in Sessions : upload[s] \in {"Completed", "ended"} =>
                 sent'[s] = sent[s] /\ upload'[s] \in {upload[s], "ended"}
  <1> USE DEF ManagerMove, SessionInv, TaskTypeOK, CompletedChain,
       NegotiationAssumption, vars, managerVars, taskVars, peerVars, netVars,
       userVars, otherTasks, States, Live, is_terminal
  <1>1. CASE \E s \in Sessions : StartSession(s)
    BY <1>1 DEF StartSession
  <1>2. CASE \E s \in Sessions : ConnectFails(s)
    BY <1>2 DEF ConnectFails
  <1>3. CASE \E s \in Sessions : StartNegotiating(s)
    BY <1>3 DEF StartNegotiating
  <1>4. CASE \E s \in Sessions : SendRequest(s)
    BY <1>4 DEF SendRequest
  <1>5. CASE \E s \in Sessions : ReadFails(s)
    BY <1>5 DEF ReadFails
  <1>6. CASE \E s \in Sessions : RecvAccept(s)
    <2>1. PICK s \in Sessions : RecvAccept(s)
      BY <1>6
    <2>2. /\ From[s] \in Devices /\ "Active" \in States /\ "Active" # "Completed"
          /\ update_state(From[s], s, "Active")
      BY <2>1 DEF RecvAccept
    <2>3. ManagerMove
      BY <2>2
    <2>4. upload[s] = "none"
      BY <2>1 DEF RecvAccept
    <2>5. QED
      BY <2>1, <2>3, <2>4 DEF RecvAccept
  <1>7. CASE \E s \in Sessions : RecvReject(s)
    BY <1>7 DEF RecvReject
  <1>8. CASE \E s \in Sessions : InsertToken(s)
    BY <1>8 DEF InsertToken
  <1>9. CASE \E s \in Sessions : NextFile(s)
    BY <1>9 DEF NextFile
  <1>10. CASE \E s \in Sessions : SentFile(s)
    BY <1>10 DEF SentFile
  <1>11. CASE \E s \in Sessions : SendFails(s)
    BY <1>11 DEF SendFails
  <1>12. CASE \E s \in Sessions : DecideOutcome(s)
    BY <1>12 DEF DecideOutcome
  <1>13. CASE \E s \in Sessions : ReportOutcome(s)
    BY <1>13 DEF ReportOutcome
  <1>14. CASE \E s \in Sessions : LockEngine(s)
    BY <1>14 DEF LockEngine
  <1>15. CASE \E s \in Sessions : RecvRequest(s)
    BY <1>15 DEF RecvRequest
  <1>16. CASE \E s \in Sessions : AskUser(s)
    BY <1>16 DEF AskUser
  <1>17. CASE \E s \in Sessions : TakeAnswer(s)
    BY <1>17 DEF TakeAnswer
  <1>18. CASE \E s \in Sessions : ApprovalTimeout(s)
    BY <1>18 DEF ApprovalTimeout
  <1>19. CASE \E s \in Sessions : SendAnswer(s)
    BY <1>19 DEF SendAnswer
  <1>20. CASE \E s \in Sessions : AnswerFails(s)
    BY <1>20 DEF AnswerFails
  <1>21. CASE \E s \in Sessions : FinishIncoming(s)
    BY <1>21 DEF FinishIncoming
  <1>22. CASE \E s \in Sessions : accept_session(s)
    BY <1>22 DEF accept_session
  <1>23. CASE \E s \in Sessions : reject_session(s)
    BY <1>23 DEF reject_session
  <1>24. CASE \E s \in Sessions : LinkBreaks(s)
    BY <1>24 DEF LinkBreaks
  <1>25. CASE \E d \in Devices, s \in Sessions : CancelToken(d, s)
    BY <1>25 DEF CancelToken
  <1>26. CASE \E d \in Devices, s \in Sessions : CancelRecord(d, s)
    BY <1>26 DEF CancelRecord
  <1>27. CASE UNCHANGED vars
    BY <1>27
  <1>28. QED
    BY <1>1, <1>2, <1>3, <1>4, <1>5, <1>6, <1>7, <1>8, <1>9, <1>10, <1>11,
       <1>12, <1>13, <1>14, <1>15, <1>16, <1>17, <1>18, <1>19, <1>20, <1>21,
       <1>22, <1>23, <1>24, <1>25, <1>26, <1>27 DEF Next, Starts, StarterRuns,
       UploadRuns, ReceiverRuns, User

\* Every step keeps the chain from the receiving user's consent to the upload.
LEMMA ConsentStep ==
    ASSUME NegotiationAssumption, SessionInv, [Next]_vars
    PROVE  ConsentChain'
  <1> USE DEF SessionInv, TaskTypeOK, ConsentChain, NegotiationAssumption,
       vars, managerVars, taskVars, peerVars, netVars, userVars, otherTasks,
       emit, respond, is_terminal, EventKinds
  <1>1. CASE \E s \in Sessions : StartSession(s)
    BY <1>1 DEF StartSession
  <1>2. CASE \E s \in Sessions : ConnectFails(s)
    BY <1>2 DEF ConnectFails
  <1>3. CASE \E s \in Sessions : StartNegotiating(s)
    BY <1>3 DEF StartNegotiating
  <1>4. CASE \E s \in Sessions : SendRequest(s)
    BY <1>4 DEF SendRequest
  <1>5. CASE \E s \in Sessions : ReadFails(s)
    BY <1>5 DEF ReadFails
  <1>6. CASE \E s \in Sessions : RecvAccept(s)
    BY <1>6 DEF RecvAccept
  <1>7. CASE \E s \in Sessions : RecvReject(s)
    BY <1>7 DEF RecvReject
  <1>8. CASE \E s \in Sessions : InsertToken(s)
    BY <1>8 DEF InsertToken
  <1>9. CASE \E s \in Sessions : NextFile(s)
    BY <1>9 DEF NextFile
  <1>10. CASE \E s \in Sessions : SentFile(s)
    BY <1>10 DEF SentFile
  <1>11. CASE \E s \in Sessions : SendFails(s)
    BY <1>11 DEF SendFails
  <1>12. CASE \E s \in Sessions : DecideOutcome(s)
    BY <1>12 DEF DecideOutcome
  <1>13. CASE \E s \in Sessions : ReportOutcome(s)
    BY <1>13 DEF ReportOutcome
  <1>14. CASE \E s \in Sessions : LockEngine(s)
    BY <1>14 DEF LockEngine
  <1>15. CASE \E s \in Sessions : RecvRequest(s)
    BY <1>15 DEF RecvRequest
  <1>16. CASE \E s \in Sessions : AskUser(s)
    BY <1>16 DEF AskUser
  <1>17. CASE \E s \in Sessions : TakeAnswer(s)
    BY <1>17 DEF TakeAnswer
  <1>18. CASE \E s \in Sessions : ApprovalTimeout(s)
    BY <1>18 DEF ApprovalTimeout
  <1>19. CASE \E s \in Sessions : SendAnswer(s)
    BY <1>19 DEF SendAnswer
  <1>20. CASE \E s \in Sessions : AnswerFails(s)
    BY <1>20 DEF AnswerFails
  <1>21. CASE \E s \in Sessions : FinishIncoming(s)
    BY <1>21 DEF FinishIncoming
  <1>22. CASE \E s \in Sessions : accept_session(s)
    BY <1>22 DEF accept_session
  <1>23. CASE \E s \in Sessions : reject_session(s)
    BY <1>23 DEF reject_session
  <1>24. CASE \E s \in Sessions : LinkBreaks(s)
    BY <1>24 DEF LinkBreaks
  <1>25. CASE \E d \in Devices, s \in Sessions : CancelToken(d, s)
    BY <1>25 DEF CancelToken
  <1>26. CASE \E d \in Devices, s \in Sessions : CancelRecord(d, s)
    BY <1>26 DEF CancelRecord
  <1>27. CASE UNCHANGED vars
    BY <1>27
  <1>28. QED
    BY <1>1, <1>2, <1>3, <1>4, <1>5, <1>6, <1>7, <1>8, <1>9, <1>10, <1>11,
       <1>12, <1>13, <1>14, <1>15, <1>16, <1>17, <1>18, <1>19, <1>20, <1>21,
       <1>22, <1>23, <1>24, <1>25, <1>26, <1>27 DEF Next, Starts, StarterRuns,
       UploadRuns, ReceiverRuns, User

\* Every step keeps the engine mutex with the upload that is sending.
LEMMA EngineStep ==
    ASSUME NegotiationAssumption, SessionInv, [Next]_vars
    PROVE  EngineHeldBySender'
  <1> USE DEF SessionInv, TaskTypeOK, EngineHeldBySender, CompletedChain,
       NegotiationAssumption, vars, managerVars, taskVars, peerVars, netVars,
       userVars, otherTasks, is_terminal
  <1>1. CASE \E s \in Sessions : StartSession(s)
    BY <1>1 DEF StartSession
  <1>2. CASE \E s \in Sessions : ConnectFails(s)
    BY <1>2 DEF ConnectFails
  <1>3. CASE \E s \in Sessions : StartNegotiating(s)
    BY <1>3 DEF StartNegotiating
  <1>4. CASE \E s \in Sessions : SendRequest(s)
    BY <1>4 DEF SendRequest
  <1>5. CASE \E s \in Sessions : ReadFails(s)
    BY <1>5 DEF ReadFails
  <1>6. CASE \E s \in Sessions : RecvAccept(s)
    <2>1. PICK s \in Sessions : RecvAccept(s)
      BY <1>6
    <2>2. upload[s] = "none" /\ upload' = [upload EXCEPT ![s] = "spawned"] /\ engine' = engine
      BY <2>1 DEF RecvAccept
    <2>3. QED
      BY <2>2
  <1>7. CASE \E s \in Sessions : RecvReject(s)
    BY <1>7 DEF RecvReject
  <1>8. CASE \E s \in Sessions : InsertToken(s)
    BY <1>8 DEF InsertToken
  <1>9. CASE \E s \in Sessions : NextFile(s)
    BY <1>9 DEF NextFile
  <1>10. CASE \E s \in Sessions : SentFile(s)
    BY <1>10 DEF SentFile
  <1>11. CASE \E s \in Sessions : SendFails(s)
    BY <1>11 DEF SendFails
  <1>12. CASE \E s \in Sessions : DecideOutcome(s)
    BY <1>12 DEF DecideOutcome
  <1>13. CASE \E s \in Sessions : ReportOutcome(s)
    BY <1>13 DEF ReportOutcome
  <1>14. CASE \E s \in Sessions : LockEngine(s)
    BY <1>14 DEF LockEngine
  <1>15. CASE \E s \in Sessions : RecvRequest(s)
    BY <1>15 DEF RecvRequest
  <1>16. CASE \E s \in Sessions : AskUser(s)
    BY <1>16 DEF AskUser
  <1>17. CASE \E s \in Sessions : TakeAnswer(s)
    BY <1>17 DEF TakeAnswer
  <1>18. CASE \E s \in Sessions : ApprovalTimeout(s)
    BY <1>18 DEF ApprovalTimeout
  <1>19. CASE \E s \in Sessions : SendAnswer(s)
    BY <1>19 DEF SendAnswer
  <1>20. CASE \E s \in Sessions : AnswerFails(s)
    BY <1>20 DEF AnswerFails
  <1>21. CASE \E s \in Sessions : FinishIncoming(s)
    BY <1>21 DEF FinishIncoming
  <1>22. CASE \E s \in Sessions : accept_session(s)
    BY <1>22 DEF accept_session
  <1>23. CASE \E s \in Sessions : reject_session(s)
    BY <1>23 DEF reject_session
  <1>24. CASE \E s \in Sessions : LinkBreaks(s)
    BY <1>24 DEF LinkBreaks
  <1>25. CASE \E d \in Devices, s \in Sessions : CancelToken(d, s)
    BY <1>25 DEF CancelToken
  <1>26. CASE \E d \in Devices, s \in Sessions : CancelRecord(d, s)
    BY <1>26 DEF CancelRecord
  <1>27. CASE UNCHANGED vars
    BY <1>27
  <1>28. QED
    BY <1>1, <1>2, <1>3, <1>4, <1>5, <1>6, <1>7, <1>8, <1>9, <1>10, <1>11,
       <1>12, <1>13, <1>14, <1>15, <1>16, <1>17, <1>18, <1>19, <1>20, <1>21,
       <1>22, <1>23, <1>24, <1>25, <1>26, <1>27 DEF Next, Starts, StarterRuns,
       UploadRuns, ReceiverRuns, User

\* Every step keeps the upload task behind the acceptance and its report honest.
LEMMA CompletedStep ==
    ASSUME NegotiationAssumption, SessionInv, [Next]_vars
    PROVE  CompletedChain'
  <1> USE DEF SessionInv, TaskTypeOK, CompletedChain, NegotiationAssumption,
       vars, managerVars, taskVars, peerVars, netVars, userVars, otherTasks,
       is_terminal
  <1>1. CASE \E s \in Sessions : StartSession(s)
    BY <1>1 DEF StartSession
  <1>2. CASE \E s \in Sessions : ConnectFails(s)
    BY <1>2 DEF ConnectFails
  <1>3. CASE \E s \in Sessions : StartNegotiating(s)
    BY <1>3 DEF StartNegotiating
  <1>4. CASE \E s \in Sessions : SendRequest(s)
    BY <1>4 DEF SendRequest
  <1>5. CASE \E s \in Sessions : ReadFails(s)
    BY <1>5 DEF ReadFails
  <1>6. CASE \E s \in Sessions : RecvAccept(s)
    BY <1>6 DEF RecvAccept
  <1>7. CASE \E s \in Sessions : RecvReject(s)
    BY <1>7 DEF RecvReject
  <1>8. CASE \E s \in Sessions : InsertToken(s)
    BY <1>8 DEF InsertToken
  <1>9. CASE \E s \in Sessions : NextFile(s)
    BY <1>9 DEF NextFile
  <1>10. CASE \E s \in Sessions : SentFile(s)
    BY <1>10 DEF SentFile
  <1>11. CASE \E s \in Sessions : SendFails(s)
    BY <1>11 DEF SendFails
  <1>12. CASE \E s \in Sessions : DecideOutcome(s)
    BY <1>12 DEF DecideOutcome
  <1>13. CASE \E s \in Sessions : ReportOutcome(s)
    BY <1>13 DEF ReportOutcome
  <1>14. CASE \E s \in Sessions : LockEngine(s)
    BY <1>14 DEF LockEngine
  <1>15. CASE \E s \in Sessions : RecvRequest(s)
    BY <1>15 DEF RecvRequest
  <1>16. CASE \E s \in Sessions : AskUser(s)
    BY <1>16 DEF AskUser
  <1>17. CASE \E s \in Sessions : TakeAnswer(s)
    BY <1>17 DEF TakeAnswer
  <1>18. CASE \E s \in Sessions : ApprovalTimeout(s)
    BY <1>18 DEF ApprovalTimeout
  <1>19. CASE \E s \in Sessions : SendAnswer(s)
    BY <1>19 DEF SendAnswer
  <1>20. CASE \E s \in Sessions : AnswerFails(s)
    BY <1>20 DEF AnswerFails
  <1>21. CASE \E s \in Sessions : FinishIncoming(s)
    BY <1>21 DEF FinishIncoming
  <1>22. CASE \E s \in Sessions : accept_session(s)
    BY <1>22 DEF accept_session
  <1>23. CASE \E s \in Sessions : reject_session(s)
    BY <1>23 DEF reject_session
  <1>24. CASE \E s \in Sessions : LinkBreaks(s)
    BY <1>24 DEF LinkBreaks
  <1>25. CASE \E d \in Devices, s \in Sessions : CancelToken(d, s)
    BY <1>25 DEF CancelToken
  <1>26. CASE \E d \in Devices, s \in Sessions : CancelRecord(d, s)
    BY <1>26 DEF CancelRecord
  <1>27. CASE UNCHANGED vars
    BY <1>27
  <1>28. QED
    BY <1>1, <1>2, <1>3, <1>4, <1>5, <1>6, <1>7, <1>8, <1>9, <1>10, <1>11,
       <1>12, <1>13, <1>14, <1>15, <1>16, <1>17, <1>18, <1>19, <1>20, <1>21,
       <1>22, <1>23, <1>24, <1>25, <1>26, <1>27 DEF Next, Starts, StarterRuns,
       UploadRuns, ReceiverRuns, User

\* Every step keeps the managers good, unseen sessions unseen and the recorded
\* completions backed by an upload that sent every file.
LEMMA ManagerStep ==
    ASSUME ManagerAssumption, NegotiationAssumption, SessionInv, [Next]_vars
    PROVE  ManagerInv' /\ Fresh' /\ CompletedRecords'
  <1> DEFINE Keeps(s) ==
         /\ starter'[s] = "idle" => starter[s] = "idle"
         /\ incoming'[s] = "none" => incoming[s] = "none"
         /\ upload[s] \in {"Completed", "ended"} =>
               sent'[s] = sent[s] /\ upload'[s] \in {upload[s], "ended"}
  <1>1. ManagerMove /\ \A s \in Sessions : Keeps(s)
    BY MoveStep
  <1>2. \A s \in Sessions : From[s] \in Devices /\ To[s] \in Devices /\ From[s] # To[s]
    BY DEF NegotiationAssumption
  <1>3. ManagerInv /\ Fresh /\ CompletedRecords /\ CompletedChain
    BY DEF SessionInv
  <1>4. CASE UNCHANGED managerVars
    <2>1. active' = active /\ history' = history
      BY <1>4 DEF managerVars
    <2>2. ManagerInv'
      BY <1>3, <2>1 DEF ManagerInv, GoodHistory
    <2>3. Fresh'
      BY <1>1, <1>3, <2>1 DEF Fresh, Untouched
    <2>4. CompletedRecords'
      BY <1>1, <1>3, <2>1 DEF CompletedRecords
    <2>5. QED
      BY <2>2, <2>3, <2>4
  <1>5. ASSUME NEW d \in Devices, NEW u \in Sessions, NEW state \in States,
               update_state(d, u, state),
               state = "Completed" => d = From[u] /\ upload[u] = "Completed" /\ upload'[u] = "ended"
        PROVE  ManagerInv' /\ Fresh' /\ CompletedRecords'
    <2>1. /\ ManagerInv'
          /\ \A e \in Devices, t \in Sessions : Untouched(e, t) => Untouched(e, t)'
          /\ \A e \in Devices : \A i \in DOMAIN history'[e] :
                \/ \E j \in DOMAIN history[e] : history'[e][i] = history[e][j]
                \/ e = d /\ history'[e][i] = [id |-> u, state |-> state]
      BY <1>3, <1>5, UpdateState
    <2>2. Fresh'
      BY <1>1, <1>2, <1>3, <2>1 DEF Fresh
    <2>3. ASSUME NEW s \in Sessions, NEW i \in DOMAIN history'[From[s]],
                 history'[From[s]][i] = [id |-> s, state |-> "Completed"]
          PROVE  upload'[s] = "ended" /\ sent'[s] = Files
      <3>1. CASE \E j \in DOMAIN history[From[s]] : history'[From[s]][i] = history[From[s]][j]
        BY <1>1, <1>3, <2>3, <3>1 DEF CompletedRecords
      <3>2. CASE history'[From[s]][i] = [id |-> u, state |-> state]
        <4>1. s = u /\ state = "Completed"
          BY <2>3, <3>2
        <4>2. upload[s] = "Completed" /\ upload'[s] = "ended"
          BY <1>5, <4>1
        <4>3. QED
          BY <1>1, <1>3, <4>2 DEF CompletedChain
      <3>3. QED
        BY <1>2, <2>1, <3>1, <3>2
    <2>4. CompletedRecords'
      BY <2>3 DEF CompletedRecords
    <2>5. QED
      BY <2>1, <2>2, <2>4
  <1>6. ASSUME NEW u \in Sessions, starter[u] = "idle", starter'[u] # "idle", create(From[u], u)
        PROVE  ManagerInv' /\ Fresh' /\ CompletedRecords'
    <2>1. /\ ManagerInv'
          /\ \A e \in Devices, t \in Sessions :
                (e # From[u] \/ t # u) /\ Untouched(e, t) => Untouched(e, t)'
          /\ history' = history
      BY <1>2, <1>3, <1>6, CreateSession DEF Fresh
    <2>2. Fresh'
      BY <1>1, <1>2, <1>3, <1>6, <2>1 DEF Fresh
    <2>3. CompletedRecords'
      BY <1>1, <1>3, <2>1 DEF CompletedRecords
    <2>4. QED
      BY <2>1, <2>2, <2>3
  <1>7. ASSUME NEW u \in Sessions, incoming[u] = "none", incoming'[u] # "none", create(To[u], u)
        PROVE  ManagerInv' /\ Fresh' /\ CompletedRecords'
    <2>1. /\ ManagerInv'
          /\ \A e \in Devices, t \in Sessions :
                (e # To[u] \/ t # u) /\ Untouched(e, t) => Untouched(e, t)'
          /\ history' = history
      BY <1>2, <1>3, <1>7, CreateSession DEF Fresh
    <2>2. Fresh'
      BY <1>1, <1>2, <1>3, <1>7, <2>1 DEF Fresh
    <2>3. CompletedRecords'
      BY <1>1, <1>3, <2>1 DEF CompletedRecords
    <2>4. QED
      BY <2>1, <2>2, <2>3
  <1>8. QED
    BY <1>1, <1>4, <1>5, <1>6, <1>7 DEF ManagerMove

-----------------------------------------------------------------------------
\* The inductive invariant holds in every behaviour of the negotiation.
THEOREM SessionInvariant == Spec => []SessionInv
  <1>1. Init => SessionInv
    <2>1. SUFFICES ASSUME Init PROVE SessionInv
      OBVIOUS
    <2>2. \A d \in Devices : history[d] = <<>> /\ \A s \in Sessions : active[d][s] = "absent"
      BY <2>1 DEF Init, ManagerInit
    <2>3. ManagerInv
      <3>1. /\ active \in [Devices -> [Sessions -> Live \cup {"absent"}]]
            /\ history \in [Devices -> Seq(Ended)]
        BY <2>1 DEF Init, ManagerInit
      <3>2. \A d \in Devices : GoodHistory(history[d])
        <4>1. GoodHistory(<<>>)
          <5>1. <<>> \in Seq(Ended) /\ Len(<<>>) = 0 /\ DOMAIN <<>> = {}
            OBVIOUS
          <5>2. QED
            BY <5>1, ManagerAssumption DEF GoodHistory, ManagerAssumption
        <4>2. QED
          BY <2>2, <4>1, Zenon
      <3>3. QED
        BY <2>2, <3>1, <3>2 DEF ManagerInv
    <2>4. Fresh /\ CompletedRecords
      BY <2>1, <2>2, NegotiationAssumption DEF Fresh, Untouched, CompletedRecords, NegotiationAssumption
    <2>5. TaskTypeOK
      BY <2>1, NegotiationAssumption DEF Init, TaskTypeOK, NegotiationAssumption
    <2>6. ConsentChain /\ CompletedChain
      BY <2>1, NegotiationAssumption DEF Init, ConsentChain, CompletedChain, NegotiationAssumption
    <2>7. EngineHeldBySender
      BY <2>1, NegotiationAssumption DEF Init, EngineHeldBySender, NegotiationAssumption
    <2>8. QED
      BY <2>3, <2>4, <2>5, <2>6, <2>7 DEF SessionInv
  <1>2. SessionInv /\ [Next]_vars => SessionInv'
    <2>1. SUFFICES ASSUME SessionInv, [Next]_vars PROVE SessionInv'
      OBVIOUS
    <2>2. QED
      BY <2>1, ManagerAssumption, NegotiationAssumption, ManagerStep, TypeStep,
         ConsentStep, EngineStep, CompletedStep DEF SessionInv
  <1>3. QED
    BY <1>1, <1>2, PTL DEF Spec

\* The types of the negotiation's state (SessionTypeOK).
THEOREM SessionTypeCorrect == Spec => []SessionTypeOK
  <1>1. SessionInv => SessionTypeOK
    BY DEF SessionInv, ManagerInv, SessionTypeOK, ManagerTypeOK
  <1>2. QED
    BY <1>1, SessionInvariant, PTL

\* A session is live or over and over only once, and the history keeps to
\* max_history, whatever the interleaving of update_state() calls.
THEOREM LiveOrOverHolds == Spec => []LiveOrOver
  <1>1. SessionInv => LiveOrOver
    <2>1. SUFFICES ASSUME SessionInv PROVE LiveOrOver
      OBVIOUS
    <2>2. ManagerInv
      BY <2>1 DEF SessionInv
    <2>3. \A d \in Devices, s \in Sessions :
             (\A i \in DOMAIN history[d] : history[d][i].id # s) => Recorded(d, s) = {}
      BY DEF Recorded
    <2>4. QED
      BY <2>2, <2>3 DEF ManagerInv, GoodHistory, LiveOrOver
  <1>2. QED
    BY <1>1, SessionInvariant, PTL

\* Nothing is uploaded unless the receiving user called accept_session().
THEOREM UploadNeedsConsentHolds == Spec => []UploadNeedsConsent
  <1>1. SessionInv => UploadNeedsConsent
    BY DEF SessionInv, ConsentChain, UploadNeedsConsent
  <1>2. QED
    BY <1>1, SessionInvariant, PTL

\* A completion is recorded only with every file sent and the session accepted.
THEOREM CompletedIsSentHolds == Spec => []CompletedIsSent
  <1>1. SessionInv => CompletedIsSent
    <2>1. SUFFICES ASSUME SessionInv, NEW s \in Sessions, "Completed" \in Recorded(From[s], s)
                   PROVE  sent[s] = Files /\ consent[s]
      BY DEF CompletedIsSent
    <2>2. PICK i \in DOMAIN history[From[s]] :
             history[From[s]][i].id = s /\ history[From[s]][i].state = "Completed"
      BY <2>1 DEF Recorded
    <2>3. history[From[s]] \in Seq(Ended)
      BY <2>1, NegotiationAssumption DEF SessionInv, ManagerInv, NegotiationAssumption
    <2>4. history[From[s]][i] \in Ended
      BY <2>2, <2>3
    <2>5. history[From[s]][i] = [id |-> s, state |-> "Completed"]
      BY <2>2, <2>4 DEF Ended
    <2>6. upload[s] = "ended" /\ sent[s] = Files
      BY <2>1, <2>5 DEF SessionInv, CompletedRecords
    <2>7. QED
      BY <2>1, <2>6 DEF SessionInv, ConsentChain
  <1>2. QED
    BY <1>1, SessionInvariant, PTL

\* The engine mutex belongs to the one upload of the device that is sending.
THEOREM EngineHeldBySenderHolds == Spec => []EngineHeldBySender
  <1>1. SessionInv => EngineHeldBySender
    BY DEF SessionInv
  <1>2. QED
    BY <1>1, SessionInvariant, PTL

-----------------------------------------------------------------------------
\* What is left of history h in a later history g, as ProceedsOnce says it.
KeepsRecords(h, g) ==
    \E n \in 0..Len(h) :
        LET kept == SubSeq(h, n + 1, Len(h))
        IN  /\ Len(g) >= Len(kept)
            /\ SubSeq(g, 1, Len(kept)) = kept
            /\ n > 0 => Len(g) = MaxHistory

LEMMA KeepsAll ==
    ASSUME NEW h \in Seq(Ended), NEW g \in Seq(Ended), Len(g) >= Len(h),
           \A i \in 1..Len(h) : g[i] = h[i]
    PROVE  KeepsRecords(h, g)
  <1>1. Len(h) \in Nat /\ Len(g) \in Nat
    OBVIOUS
  <1>2. SubSeq(h, 1, Len(h)) = h
    BY SubSeqFull
  <1>3. SubSeq(g, 1, Len(h)) = h
    <2>1. \A i \in 1..Len(h) : g[i] \in Ended
      BY <1>1, ElementOfSeq
    <2>2. /\ SubSeq(g, 1, Len(h)) \in Seq(Ended)
          /\ Len(SubSeq(g, 1, Len(h))) = IF 1 <= Len(h) THEN Len(h) - 1 + 1 ELSE 0
          /\ \A i \in 1 .. Len(h) - 1 + 1 : SubSeq(g, 1, Len(h))[i] = g[1 + i - 1]
      BY <1>1, <2>1, SubSeqProperties
    <2>3. Len(SubSeq(g, 1, Len(h))) = Len(h)
      BY <1>1, <2>2
    <2>4. \A i \in 1..Len(h) : SubSeq(g, 1, Len(h))[i] = h[i]
      <3>1. Len(h) - 1 + 1 = Len(h) /\ \A i \in 1..Len(h) : 1 + i - 1 = i
        BY <1>1
      <3>2. QED
        BY <2>2, <3>1
    <2>5. QED
      BY <2>2, <2>3, <2>4, SeqEqual
  <1>4. 0 \in 0..Len(h) /\ 0 + 1 = 1 /\ ~(0 > 0)
    BY <1>1
  <1>5. QED
    BY <1>2, <1>3, <1>4 DEF KeepsRecords

\* Appending a record and trimming drops at most the oldest record, and only when
\* the history is full.
LEMMA TrimKeeps ==
    ASSUME ManagerAssumption, NEW h, GoodHistory(h), NEW x \in Ended
    PROVE  KeepsRecords(h, trim(Append(h, x)))
  <1> DEFINE a == Append(h, x)
             r == trim(a)
             len == Len(h)
  <1>0. h \in Seq(Ended) /\ len \in Nat /\ MaxHistory \in Nat /\ len <= MaxHistory
    BY DEF GoodHistory, ManagerAssumption
  <1>1. /\ a \in Seq(Ended) /\ Len(a) = len + 1
        /\ \A i \in 1..len : a[i] = h[i]
    BY <1>0, AppendProperties
  <1>2. CASE len + 1 <= MaxHistory
    <2>1. r = a
      BY <1>0, <1>1, <1>2 DEF trim
    <2>2. Len(a) >= len
      BY <1>0, <1>1
    <2>3. QED
      BY <1>0, <1>1, <2>1, <2>2, KeepsAll
  <1>3. CASE ~(len + 1 <= MaxHistory)
    <2>1. len = MaxHistory /\ Len(a) > MaxHistory /\ Len(a) - MaxHistory + 1 = 2
      BY <1>0, <1>1, <1>3
    <2>2. r = SubSeq(a, 2, len + 1)
      BY <1>1, <2>1 DEF trim
    <2>3. \A i \in 2..(len + 1) : a[i] \in Ended
      BY <1>0, <1>1, ElementOfSeq
    <2>4. /\ r \in Seq(Ended)
          /\ Len(r) = IF 2 <= len + 1 THEN len + 1 - 2 + 1 ELSE 0
          /\ \A i \in 1 .. len + 1 - 2 + 1 : r[i] = a[2 + i - 1]
      BY <1>0, <2>2, <2>3, SubSeqProperties
    <2>5. Len(r) = len /\ \A i \in 1..len : r[i] = a[i + 1]
      <3>1. len + 1 - 2 + 1 = len /\ \A i \in 1..len : 2 + i - 1 = i + 1
        BY <1>0
      <3>2. QED
        BY <1>0, <2>4, <3>1
    <2> HIDE DEF r, a
    <2>6. CASE len = 0
      <3>1. Len(r) >= len /\ \A i \in 1..len : r[i] = h[i]
        BY <2>5, <2>6
      <3>2. QED
        BY <1>0, <2>4, <3>1, KeepsAll DEF r, a
    <2>7. CASE len > 0
      <3> DEFINE kept == SubSeq(h, 2, len)
                 front == SubSeq(r, 1, len - 1)
      <3>1. /\ \A i \in 2..len : h[i] \in Ended
            /\ \A i \in 1..(len - 1) : r[i] \in Ended
        BY <1>0, <2>4, <2>5, ElementOfSeq
      <3>2. /\ kept \in Seq(Ended) /\ Len(kept) = IF 2 <= len THEN len - 2 + 1 ELSE 0
            /\ \A i \in 1 .. len - 2 + 1 : kept[i] = h[2 + i - 1]
        BY <1>0, <3>1, SubSeqProperties
      <3>3. /\ front \in Seq(Ended) /\ Len(front) = IF 1 <= len - 1 THEN len - 1 - 1 + 1 ELSE 0
            /\ \A i \in 1 .. len - 1 - 1 + 1 : front[i] = r[1 + i - 1]
        BY <1>0, <3>1, SubSeqProperties
      <3> HIDE DEF kept, front
      <3>4. Len(kept) = len - 1 /\ Len(front) = len - 1
        <4>1. CASE len = 1
          BY <3>2, <3>3, <4>1
        <4>2. CASE len >= 2
          <5>1. /\ 2 <= len /\ 1 <= len - 1
                /\ len - 2 + 1 = len - 1 /\ len - 1 - 1 + 1 = len - 1
            BY <1>0, <4>2
          <5>2. QED
            BY <3>2, <3>3, <5>1
        <4>3. len = 1 \/ len >= 2
          <5>1. len \in Nat
            BY <1>0
          <5>2. len # 0
            BY <2>7
          <5> HIDE DEF len
          <5>3. QED
            BY <5>1, <5>2
        <4>4. QED
          BY <4>1, <4>2, <4>3, Zenon
      <3>5. ASSUME NEW i \in 1..(len - 1) PROVE front[i] = kept[i]
        <4>1. /\ i \in 1 .. len - 2 + 1 /\ i \in 1 .. len - 1 - 1 + 1
              /\ i \in 1..len /\ i + 1 \in 1..len /\ 2 + i - 1 = i + 1 /\ 1 + i - 1 = i
          BY <1>0
        <4>2. kept[i] = h[i + 1] /\ front[i] = r[i] /\ r[i] = a[i + 1] /\ a[i + 1] = h[i + 1]
          BY <1>1, <2>5, <3>2, <3>3, <4>1
        <4>3. QED
          BY <4>2
      <3>6. front = kept
        BY <3>2, <3>3, <3>4, <3>5, SeqEqual
      <3>7. 1 \in 0..len /\ 1 + 1 = 2 /\ len >= len - 1
        BY <1>0, <2>7
      <3>8. SubSeq(r, 1, Len(kept)) = kept /\ Len(r) >= Len(kept) /\ Len(r) = MaxHistory
        BY <2>1, <2>5, <3>4, <3>6, <3>7 DEF front
      <3>9. QED
        BY <3>7, <3>8 DEF KeepsRecords, kept, r, a
    <2>8. QED
      BY <1>0, <2>6, <2>7
  <1>4. QED
    BY <1>2, <1>3

\* What ProceedsOnce says of one session.
Onward(d, s) ==
    \/ active'[d][s] = "absent"
    \/ Rank(d, s) > 0 /\ Rank(d, s)' >= Rank(d, s)
    \/ active'[d][s] = "Handshaking" /\ Recorded(d, s) = {}

\* A session that a step leaves alone.
LEMMA SameIsOnward ==
    ASSUME ManagerInv, NEW d \in Devices, NEW s \in Sessions, active'[d][s] = active[d][s]
    PROVE  Onward(d, s)
  <1>1. active[d][s] \in Live \cup {"absent"}
    BY DEF ManagerInv
  <1>2. CASE active[d][s] = "absent"
    BY <1>2 DEF Onward
  <1>3. CASE active[d][s] = "Handshaking"
    BY <1>3 DEF Onward, Rank
  <1>4. CASE active[d][s] = "Negotiating"
    BY <1>4 DEF Onward, Rank
  <1>5. CASE active[d][s] = "Active"
    BY <1>5 DEF Onward, Rank
  <1>6. QED
    BY <1>1, <1>2, <1>3, <1>4, <1>5 DEF Live

LEMMA ProceedsStep ==
    ASSUME ManagerAssumption, NegotiationAssumption, SessionInv, [Next]_vars
    PROVE  \A d \in Devices :
              (\A s \in Sessions : Onward(d, s)) /\ KeepsRecords(history[d], history'[d])
  <1>1. ManagerMove
    BY MoveStep
  <1>2. ManagerInv /\ Fresh
    BY DEF SessionInv
  <1>3. \A d \in Devices : GoodHistory(history[d]) /\ history[d] \in Seq(Ended)
    BY <1>2 DEF ManagerInv
  <1>4. \A d \in Devices : KeepsRecords(history[d], history[d])
    <2>1. \A d \in Devices : Len(history[d]) \in Nat
      BY <1>3
    <2>2. \A d \in Devices : Len(history[d]) >= Len(history[d])
      BY <2>1
    <2>3. QED
      BY <1>3, <2>2, KeepsAll
  <1>5. CASE UNCHANGED managerVars
    BY <1>2, <1>4, <1>5, SameIsOnward DEF managerVars
  <1>6. ASSUME NEW e \in Devices, NEW u \in Sessions, NEW state \in States, update_state(e, u, state)
        PROVE  \A d \in Devices :
                  (\A s \in Sessions : Onward(d, s)) /\ KeepsRecords(history[d], history'[d])
    <2>1. CASE ~valid_transition(active[e][u], state)
      BY <1>5, <1>6, <2>1 DEF update_state
    <2>2. CASE valid_transition(active[e][u], state) /\ state \notin is_terminal
      <3>1. active' = [active EXCEPT ![e][u] = state] /\ history' = history
        BY <1>6, <2>2 DEF update_state
      <3>2. \A d \in Devices, s \in Sessions : active'[d][s] = IF d = e /\ s = u THEN state ELSE active[d][s]
        BY <1>2, <3>1 DEF ManagerInv
      <3>3. Onward(e, u)
        <4>1. CASE active[e][u] = "Handshaking" /\ active'[e][u] = "Negotiating"
          BY <4>1 DEF Onward, Rank
        <4>2. CASE active[e][u] = "Negotiating" /\ active'[e][u] = "Active"
          BY <4>2 DEF Onward, Rank
        <4>3. QED
          BY <2>2, <3>2, <4>1, <4>2 DEF valid_transition, is_terminal
      <3>4. QED
        BY <1>2, <1>4, <3>1, <3>2, <3>3, SameIsOnward
    <2>3. CASE valid_transition(active[e][u], state) /\ state \in is_terminal
      <3> DEFINE x == [id |-> u, state |-> state]
      <3>1. /\ active' = [active EXCEPT ![e][u] = "absent"]
            /\ history' = [history EXCEPT ![e] = trim(Append(history[e], x))] /\ x \in Ended
        BY <1>6, <2>3 DEF update_state, Ended
      <3>2. /\ \A d \in Devices, s \in Sessions :
                  active'[d][s] = IF d = e /\ s = u THEN "absent" ELSE active[d][s]
            /\ \A d \in Devices : history'[d] = IF d = e THEN trim(Append(history[e], x)) ELSE history[d]
        <4> HIDE DEF x
        <4>1. QED
          BY <1>2, <3>1 DEF ManagerInv
      <3> HIDE DEF x
      <3>3. KeepsRecords(history[e], trim(Append(history[e], x)))
        BY <1>3, <3>1, TrimKeeps
      <3>4. \A d \in Devices : KeepsRecords(history[d], history'[d])
        BY <1>4, <3>2, <3>3
      <3>5. \A d \in Devices, s \in Sessions : Onward(d, s)
        BY <1>2, <3>2, SameIsOnward DEF Onward
      <3>6. QED
        BY <3>4, <3>5
    <2>4. QED
      BY <2>1, <2>2, <2>3
  <1>7. ASSUME NEW e \in Devices, NEW u \in Sessions, Untouched(e, u), create(e, u)
        PROVE  \A d \in Devices :
                  (\A s \in Sessions : Onward(d, s)) /\ KeepsRecords(history[d], history'[d])
    <2>1. active' = [active EXCEPT ![e][u] = "Handshaking"] /\ history' = history
      BY <1>7 DEF create
    <2>2. \A d \in Devices, s \in Sessions :
             active'[d][s] = IF d = e /\ s = u THEN "Handshaking" ELSE active[d][s]
      BY <1>2, <2>1 DEF ManagerInv
    <2>3. Onward(e, u)
      <3>1. Recorded(e, u) = {}
        BY <1>7 DEF Untouched, Recorded
      <3>2. QED
        BY <2>2, <3>1 DEF Onward
    <2>4. QED
      BY <1>2, <1>4, <2>1, <2>2, <2>3, SameIsOnward
  <1>8. \A u \in Sessions : From[u] \in Devices /\ To[u] \in Devices
    BY DEF NegotiationAssumption
  <1>9. \A u \in Sessions : /\ starter[u] = "idle" => Untouched(From[u], u)
                            /\ incoming[u] = "none" => Untouched(To[u], u)
    BY <1>2 DEF Fresh
  <1>10. QED
    BY <1>1, <1>5, <1>6, <1>7, <1>8, <1>9 DEF ManagerMove

\* "Each session proceeds through these states exactly once" (session.rs): no step of
\* any task takes a session back, revives one that is over or rewrites how it ended.
THEOREM ProceedsOnceHolds == Spec => ProceedsOnce
  <1>1. SessionInv /\ [Next]_vars =>
           [\A d \in Devices :
               /\ \A s \in Sessions :
                     \/ active'[d][s] = "absent"
                     \/ Rank(d, s) > 0 /\ Rank(d, s)' >= Rank(d, s)
                     \/ active'[d][s] = "Handshaking" /\ Recorded(d, s) = {}
               /\ \E n \in 0..Len(history[d]) :
                     LET kept == SubSeq(history[d], n + 1, Len(history[d]))
                     IN  /\ Len(history'[d]) >= Len(kept)
                         /\ SubSeq(history'[d], 1, Len(kept)) = kept
                         /\ n > 0 => Len(history'[d]) = MaxHistory]_managerVars
    BY ProceedsStep, ManagerAssumption, NegotiationAssumption DEF Onward, KeepsRecords
  <1>2. QED
    BY <1>1, SessionInvariant, PTL DEF Spec, ProceedsOnce
=============================================================================
