-------------------------- MODULE AndroidTransfers --------------------------
(* File transfers of the Android application: the prompt for an incoming    *)
(* file (NodeService.kt), the transfers it and the user start               *)
(* (FileTransferManager.kt) and the HTTP client they run on (NioTransfer.kt *)
(* and, as a fallback, TunnelClient.kt).  A transfer is a coroutine on an   *)
(* IO thread that blocks in socket calls: cancelling its job has no effect  *)
(* once it has started, only the progress callback notices cancelFlag.      *)
(* The wake and wifi locks, which no property reads, are left out.          *)
EXTENDS Naturals, Sequences

CONSTANTS Offers,         \* files another device offers to this one
          OfferHost,      \* the host in each offer's URL
          Sends,          \* files the user sends from this device
          Texts,          \* those of them that are texts, sent from a file of the cache
          Parts,          \* calls of the progress callback a whole file takes
          MAX_TRIES,      \* MAX_RETRIES of FileTransferManager
          MaxRecords,     \* 200 records of history
          MaxToggles      \* bound on settings changed and services restarted

ASSUME AndroidAssumption ==
    /\ Offers \cap Sends = {} /\ Texts \subseteq Sends
    /\ Parts \in Nat \ {0} /\ MAX_TRIES \in Nat \ {0}
    /\ MaxRecords \in Nat \ {0} /\ MaxToggles \in Nat

Files == Offers \cup Sends
OfferHosts == {OfferHost[o] : o \in Offers}

VARIABLES autoAccept, trustedPeers,       \* SettingsManager
          prompts,                        \* notifications on the screen
          pendingDownloads,               \* what their buttons refer to
          intents,                        \* buttons pressed, not yet handled
          consent,                        \* how each download came to start
          declined,                       \* offers the user declined while they were pending
          activeTransfers, status, cancelFlag,
          step,                           \* where the coroutine is
          sent,                           \* parts the current attempt has moved
          tries,                          \* attempt
          copies,                         \* upload_ files in the cache directory
          clips,                          \* clipboard_ files there
          history,                        \* newest first
          cancelling,                     \* cancelTransfer before addToHistory
          toggles

promptVars == <<autoAccept, trustedPeers, prompts, pendingDownloads, intents, consent, declined>>
jobVars == <<activeTransfers, status, cancelFlag, step, sent, tries, copies, history, cancelling>>
androidVars == <<promptVars, jobVars, toggles, clips>>

AndroidTypeOK ==
    /\ autoAccept \in BOOLEAN /\ trustedPeers \subseteq OfferHosts
    /\ prompts \subseteq Offers /\ pendingDownloads \subseteq Offers
    /\ intents \subseteq {"accept", "decline"} \X Offers
    /\ consent \in [Offers -> {"none", "user", "trusted"}] /\ declined \subseteq Offers
    /\ activeTransfers \subseteq Files /\ cancelFlag \subseteq Files
    /\ status \in [Files -> {"none", "CONNECTING", "TRANSFERRING", "COMPLETED", "FAILED", "CANCELLED"}]
    /\ step \in [Files -> {"none", "queued", "copy", "http", "answer", "tunnel", "record", "end",
                           "dropped"}]
    /\ sent \in [Files -> 0..Parts] /\ tries \in [Files -> 0..MAX_TRIES]
    /\ copies \subseteq Sends /\ clips \subseteq Texts
    /\ Len(history) <= MaxRecords
    /\ cancelling \subseteq Files /\ toggles \in 0..MaxToggles

AndroidInit ==
    /\ autoAccept = FALSE /\ trustedPeers = {}
    /\ prompts = {} /\ pendingDownloads = {} /\ intents = {}
    /\ consent = [o \in Offers |-> "none"] /\ declined = {}
    /\ activeTransfers = {} /\ status = [f \in Files |-> "none"] /\ cancelFlag = {}
    /\ step = [f \in Files |-> "none"]
    /\ sent = [f \in Files |-> 0] /\ tries = [f \in Files |-> 0]
    /\ copies = {} /\ clips = {} /\ history = <<>> /\ cancelling = {} /\ toggles = 0

-----------------------------------------------------------------------------
(* NodeService: offers and their prompts                                    *)

(* startDownload, startUpload: register, then launch.                       *)
Launch(f) ==
    /\ step[f] = "none"
    /\ activeTransfers' = activeTransfers \cup {f}
    /\ status' = [status EXCEPT ![f] = "CONNECTING"]
    /\ step' = [step EXCEPT ![f] = "queued"]
    /\ UNCHANGED <<cancelFlag, sent, tries, copies, history, cancelling>>

(* A signal of the other device: downloaded at once from a trusted peer     *)
(* when the user allows it, otherwise a prompt.                             *)
showAcceptDeclineNotification(o) ==
    /\ consent[o] = "none" /\ o \notin prompts \cup declined
    /\ \/ /\ autoAccept /\ OfferHost[o] \in trustedPeers
          /\ consent' = [consent EXCEPT ![o] = "trusted"]
          /\ Launch(o)
          /\ UNCHANGED <<prompts, pendingDownloads>>
       \/ /\ ~(autoAccept /\ OfferHost[o] \in trustedPeers)
          /\ prompts' = prompts \cup {o} /\ pendingDownloads' = pendingDownloads \cup {o}
          /\ UNCHANGED <<consent, jobVars>>
    /\ UNCHANGED <<autoAccept, trustedPeers, intents, declined, toggles>>

(* The user may press a button again, or the other one, before the service  *)
(* has handled the first press.                                             *)
Press(button, o) ==
    /\ o \in prompts
    /\ intents' = intents \cup {<<button, o>>}
    /\ UNCHANGED <<autoAccept, trustedPeers, prompts, pendingDownloads, consent, declined, jobVars, toggles>>

(* The entry is taken out of the map, so that a second press, or one after  *)
(* the other button's, finds nothing.  (Not looking is a mutation.)         *)
AcceptUnchecked(o) ==
    /\ <<"accept", o>> \in intents
    /\ intents' = intents \ {<<"accept", o>>}
    /\ pendingDownloads' = pendingDownloads \ {o} /\ prompts' = prompts \ {o}
    /\ trustedPeers' = trustedPeers \cup {OfferHost[o]}
    /\ consent' = [consent EXCEPT ![o] = "user"]
    /\ Launch(o)
    /\ UNCHANGED <<autoAccept, declined, toggles>>

AcceptDownload(o) ==
    /\ <<"accept", o>> \in intents
    /\ intents' = intents \ {<<"accept", o>>}
    /\ \/ /\ o \in pendingDownloads
          /\ pendingDownloads' = pendingDownloads \ {o} /\ prompts' = prompts \ {o}
          /\ trustedPeers' = trustedPeers \cup {OfferHost[o]}
          /\ consent' = [consent EXCEPT ![o] = "user"]
          /\ Launch(o)
       \/ /\ o \notin pendingDownloads
          /\ UNCHANGED <<pendingDownloads, prompts, trustedPeers, consent, jobVars>>
    /\ UNCHANGED <<autoAccept, declined, toggles>>

DeclineDownload(o) ==
    /\ <<"decline", o>> \in intents
    /\ intents' = intents \ {<<"decline", o>>}
    /\ declined' = declined \cup (pendingDownloads \cap {o})
    /\ pendingDownloads' = pendingDownloads \ {o} /\ prompts' = prompts \ {o}
    /\ UNCHANGED <<autoAccept, trustedPeers, consent, jobVars, toggles>>

SetAutoAccept(b) ==
    /\ toggles < MaxToggles /\ toggles' = toggles + 1
    /\ autoAccept # b /\ autoAccept' = b
    /\ UNCHANGED <<trustedPeers, prompts, pendingDownloads, intents, consent, declined, jobVars>>

removeTrustedPeer(h) ==
    /\ toggles < MaxToggles /\ toggles' = toggles + 1
    /\ h \in trustedPeers /\ trustedPeers' = trustedPeers \ {h}
    /\ UNCHANGED <<autoAccept, prompts, pendingDownloads, intents, consent, declined, jobVars>>

StartUpload(f) ==
    /\ f \in Sends \ Texts /\ Launch(f)
    /\ UNCHANGED <<promptVars, toggles>>

(* The text is written to a file, which is then uploaded like any other.    *)
startTextTransfer(f) ==
    /\ f \in Texts /\ Launch(f)
    /\ clips' = clips \cup {f}
    /\ UNCHANGED <<promptVars, toggles>>

-----------------------------------------------------------------------------
(* FileTransferManager: the coroutine of a transfer                         *)
Goto(f, s) == step' = [step EXCEPT ![f] = s]

Failed(f) ==
    /\ status' = [status EXCEPT ![f] = "FAILED"]
    /\ copies' = copies \ {f}
    /\ Goto(f, "record")
    /\ UNCHANGED <<promptVars, activeTransfers, cancelFlag, sent, tries, history, cancelling, toggles>>

(* downloadFile: not enough storage.                                        *)
NoStorage(f) == f \in Offers /\ step[f] = "queued" /\ Failed(f)

(* uploadFile: storage, permission, size or the copy of the content.        *)
PrepareFails(f) == f \in Sends /\ step[f] \in {"queued", "copy"} /\ Failed(f)

(* uploadFile: the content is copied to a file of the cache directory.      *)
CopyContent(f) ==
    /\ f \in Sends /\ step[f] = "queued"
    /\ copies' = copies \cup {f}
    /\ Goto(f, "copy")
    /\ UNCHANGED <<promptVars, activeTransfers, status, cancelFlag, sent, tries, history, cancelling, toggles>>

(* Status TRANSFERRING, capability handshake (which may fail), connection.  *)
Transferring(f) ==
    /\ status' = [status EXCEPT ![f] = "TRANSFERRING"]
    /\ Goto(f, "http")
    /\ UNCHANGED <<promptVars, activeTransfers, cancelFlag, sent, tries, copies, history, cancelling,
                   toggles>>

downloadFile(f) == f \in Offers /\ step[f] = "queued" /\ Transferring(f)
uploadFile(f) == f \in Sends /\ step[f] = "copy" /\ Transferring(f)

(* The progress callback after a part.                                      *)
MovedFile(f) ==
    /\ step[f] = "http" /\ f \notin cancelFlag /\ sent[f] < Parts
    /\ sent' = [sent EXCEPT ![f] = @ + 1]
    /\ UNCHANGED <<promptVars, activeTransfers, status, cancelFlag, tries, copies, history, cancelling, toggles>>

httpDownloadWithResume(f) == f \in Offers /\ MovedFile(f) /\ UNCHANGED step

httpUpload(f) ==
    /\ f \in Sends /\ (sent[f] > 0 \/ f \in copies)
    /\ MovedFile(f)
    /\ Goto(f, IF sent[f] + 1 = Parts THEN "answer" ELSE "http")

(* An exception (the connection, or the callback that saw cancelFlag) ends  *)
(* the coroutine: the `finally' deletes the copy, the handler of launch     *)
(* records a failure.  (Deleting the copy only on the ordinary way out is a *)
(* mutation.)                                                               *)
HttpThrowsKeepsCopy(f) ==
    /\ step[f] \in {"http", "answer"}
    /\ status' = [status EXCEPT ![f] = "FAILED"]
    /\ Goto(f, "record")
    /\ UNCHANGED <<promptVars, activeTransfers, cancelFlag, sent, tries, copies, history, cancelling, toggles>>

HttpThrows(f) == step[f] \in {"http", "answer"} /\ Failed(f)

(* httpDownloadWithResume: the end of the body, whatever its length, is a   *)
(* success.                                                                 *)
DownloadEnds(f) ==
    /\ f \in Offers /\ step[f] = "http"
    /\ status' = [status EXCEPT ![f] = "COMPLETED"]
    /\ Goto(f, "record")
    /\ UNCHANGED <<promptVars, activeTransfers, cancelFlag, sent, tries, copies, history, cancelling,
                   toggles>>

(* A status other than 2xx before the body: tried again from the start,     *)
(* MAX_RETRIES times in all, unless cancelled.                              *)
DownloadRefused(f) ==
    LET over == tries[f] + 1 >= MAX_TRIES \/ f \in cancelFlag IN
    /\ f \in Offers /\ step[f] = "http" /\ sent[f] = 0
    /\ tries' = [tries EXCEPT ![f] = @ + 1]
    /\ status' = IF over THEN [status EXCEPT ![f] = "FAILED"] ELSE status
    /\ Goto(f, IF over THEN "record" ELSE "http")
    /\ UNCHANGED <<promptVars, activeTransfers, cancelFlag, sent, copies, history, cancelling,
                   toggles>>

(* httpUpload: the answer to the whole body.  Without a 2xx, and when the   *)
(* copy is gone, the tunnel is tried.                                       *)
UploadAnswered(f) ==
    /\ f \in Sends /\ step[f] = "answer"
    /\ \/ /\ status' = [status EXCEPT ![f] = "COMPLETED"]
          /\ copies' = copies \ {f}
          /\ Goto(f, "record")
          /\ UNCHANGED sent
       \/ /\ Goto(f, "tunnel") /\ sent' = [sent EXCEPT ![f] = 0]
          /\ UNCHANGED <<status, copies>>
    /\ UNCHANGED <<promptVars, activeTransfers, cancelFlag, tries, history, cancelling, toggles>>

UploadEmpty(f) ==
    /\ f \in Sends /\ step[f] = "http" /\ sent[f] = 0 /\ f \notin copies
    /\ Goto(f, "tunnel")
    /\ UNCHANGED <<promptVars, activeTransfers, status, cancelFlag, sent, tries, copies, history,
                   cancelling, toggles>>

(* tlsHttpUpload catches its exceptions, the cancelled callback's too: the  *)
(* tunnel is tried.                                                         *)
TlsFails(f) ==
    /\ f \in Sends /\ step[f] \in {"http", "answer"}
    /\ Goto(f, "tunnel") /\ sent' = [sent EXCEPT ![f] = 0]
    /\ UNCHANGED <<promptVars, activeTransfers, status, cancelFlag, tries, copies, history, cancelling,
                   toggles>>

(* TunnelClient.sendFileToMac                                               *)
TunnelProgress(f) ==
    /\ step[f] = "tunnel" /\ f \notin cancelFlag /\ sent[f] < Parts
    /\ sent[f] > 0 \/ f \in copies
    /\ sent' = [sent EXCEPT ![f] = @ + 1]
    /\ UNCHANGED <<promptVars, activeTransfers, status, cancelFlag, step, tries, copies, history,
                   cancelling, toggles>>

(* It answers true when the last byte is flushed, and false on any          *)
(* exception, the callback's included.  (Ignoring its answer is a           *)
(* mutation.)                                                               *)
TunnelAnswer(f, ok) ==
    /\ step[f] = "tunnel"
    /\ status' = [status EXCEPT ![f] = IF ok THEN "COMPLETED" ELSE "FAILED"]
    /\ copies' = copies \ {f}
    /\ Goto(f, "record")
    /\ UNCHANGED <<promptVars, activeTransfers, cancelFlag, sent, tries, history, cancelling, toggles>>

TunnelEndsAnyway(f) == TunnelAnswer(f, TRUE)

TunnelEnds(f) == (sent[f] = Parts /\ TunnelAnswer(f, TRUE)) \/ TunnelAnswer(f, FALSE)

(* addToHistory records the status of this moment.                          *)
Recorded(f) ==
    /\ history' = SubSeq(<<[file |-> f, status |-> status[f], sent |-> sent[f]]>> \o history, 1,
                         IF Len(history) < MaxRecords THEN Len(history) + 1 ELSE MaxRecords)
    /\ activeTransfers' = activeTransfers \ {f}

RecordEnd(f) ==
    /\ step[f] = "record" /\ Recorded(f)
    /\ Goto(f, "end")
    /\ UNCHANGED <<promptVars, status, cancelFlag, sent, tries, copies, cancelling, toggles>>

-----------------------------------------------------------------------------
(* cancelTransfer: the flag, the status and the files first; a coroutine    *)
(* that has not started never will, one that checks storage and permission  *)
(* goes on.  Then the record.                                               *)
cancelTransfer(f) ==
    /\ f \in activeTransfers \ cancelling
    /\ cancelFlag' = cancelFlag \cup {f} /\ cancelling' = cancelling \cup {f}
    /\ status' = [status EXCEPT ![f] = "CANCELLED"]
    /\ copies' = copies \ {f}
    /\ (step[f] = "queued" /\ Goto(f, "end")) \/ UNCHANGED step
    /\ UNCHANGED <<promptVars, activeTransfers, sent, tries, history, toggles>>

CancelRecord(f) ==
    /\ f \in cancelling /\ cancelling' = cancelling \ {f}
    /\ Recorded(f)
    /\ UNCHANGED <<promptVars, status, cancelFlag, step, sent, tries, copies, toggles>>

clearHistory ==
    /\ history # <<>> /\ history' = <<>>
    /\ UNCHANGED <<promptVars, activeTransfers, status, cancelFlag, step, sent, tries, copies, cancelling, toggles>>

(* The service is created again in the same process: FileTransferManager    *)
(* is initialised a second time and sweepPartialFiles deletes the copies of *)
(* transfers that still run.                                                *)
sweepPartialFiles ==
    /\ toggles < MaxToggles /\ toggles' = toggles + 1
    /\ copies' = {}
    /\ UNCHANGED <<promptVars, activeTransfers, status, cancelFlag, step, sent, tries, history, cancelling>>

(* onDestroy cancels the scope before the service is created again: a       *)
(* coroutine that has not started never will, and stays listed as active.   *)
ServiceRestart ==
    /\ toggles < MaxToggles /\ toggles' = toggles + 1
    /\ \E new \in SUBSET {f \in Files : step[f] = "queued"} :
           step' = [f \in Files |-> IF f \in new THEN "dropped" ELSE step[f]]
    /\ copies' = {}
    /\ UNCHANGED <<promptVars, activeTransfers, status, cancelFlag, sent, tries, history, cancelling>>

(* The process dies and is restarted: prompts stay on the screen, what they *)
(* refer to is lost, the history is read back and the copies are swept.     *)
AppRestart ==
    /\ toggles < MaxToggles /\ toggles' = toggles + 1
    /\ pendingDownloads' = {} /\ intents' = {}
    /\ step' = [f \in Files |-> IF step[f] = "none" THEN "none" ELSE "end"]
    /\ activeTransfers' = {} /\ cancelling' = {} /\ copies' = {}
    /\ UNCHANGED <<autoAccept, trustedPeers, prompts, consent, declined, status, cancelFlag, sent, tries, history>>

TransferStep ==
    \/ \E o \in Offers : \/ showAcceptDeclineNotification(o) \/ AcceptDownload(o) \/ DeclineDownload(o)
                         \/ \E button \in {"accept", "decline"} : Press(button, o)
    \/ \E b \in BOOLEAN : SetAutoAccept(b)
    \/ \E h \in OfferHosts : removeTrustedPeer(h)
    \/ \E f \in Files : \/ StartUpload(f) \/ NoStorage(f) \/ PrepareFails(f) \/ CopyContent(f)
                        \/ downloadFile(f) \/ uploadFile(f) \/ httpDownloadWithResume(f)
                        \/ httpUpload(f) \/ HttpThrows(f) \/ DownloadEnds(f) \/ DownloadRefused(f)
                        \/ UploadAnswered(f) \/ UploadEmpty(f) \/ TlsFails(f)
                        \/ TunnelProgress(f) \/ TunnelEnds(f) \/ RecordEnd(f) \/ cancelTransfer(f) \/ CancelRecord(f)
    \/ clearHistory \/ sweepPartialFiles \/ ServiceRestart \/ AppRestart

AndroidNext ==
    \/ TransferStep /\ UNCHANGED clips
    \/ \E f \in Texts : startTextTransfer(f)

AndroidSpec == AndroidInit /\ [][AndroidNext]_androidVars

-----------------------------------------------------------------------------
(* A download runs only for an offer whose prompt the user accepted, or     *)
(* from a host that was trusted because the user had accepted one of its    *)
(* offers before.  An offer declined while its prompt was open is never     *)
(* downloaded, in whatever order presses of both buttons are handled and    *)
(* whatever restarts in between (onStartCommand,                            *)
(* showAcceptDeclineNotification).                                          *)
DownloadHasConsent ==
    /\ \A o \in Offers : step[o] # "none" =>
           /\ o \notin declined
           /\ \/ consent[o] = "user"
              \/ consent[o] = "trusted" /\ \E p \in Offers : OfferHost[p] = OfferHost[o] /\ consent[p] = "user"
    /\ \A h \in trustedPeers : \E p \in Offers : OfferHost[p] = h /\ consent[p] = "user"

(* When a transfer's coroutine has run it is no longer listed as active,    *)
(* unless its cancellation is just being recorded, and the copy of the      *)
(* content it made for the upload is gone, also when it was cancelled,      *)
(* failed or lost its process on the way (uploadFile, cancelTransfer).  The *)
(* file a text was sent from is never removed: sweepPartialFiles, uploadFile *)
(* and cancelTransfer look for other names.                                 *)
OnlyTextsStayInCache ==
    /\ \A f \in Files : step[f] = "end" => f \notin copies /\ (f \in activeTransfers => f \in cancelling)
    /\ clips = {f \in Texts : step[f] # "none"}

(* A record that says an upload was completed stands for one whose every    *)
(* part was handed over, by HTTP or by the tunnel, even when the user       *)
(* cancelled it at the same time (uploadFile, addToHistory).                *)
CompletedUploadWasSent ==
    \A i \in DOMAIN history :
        history[i].file \in Sends /\ history[i].status = "COMPLETED" => history[i].sent = Parts
=============================================================================
