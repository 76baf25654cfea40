--------------------------- MODULE MacTransferView ---------------------------
(* The send view of the Mac application of mac-app (TransferView.swift and  *)
(* FileTransferService.sendFile).  A send is a `dos send-file' process; its *)
(* end is reported on the main thread some time later, and a success clears *)
(* the view another 2 s later.  There is one transfer on the screen, and    *)
(* every process that ends, cancelled or not, updates whichever it is.      *)
(* The animated bar, which measures nothing, and the list of devices are    *)
(* left out.                                                                *)
EXTENDS Naturals, Sequences

CONSTANTS
    Picks,        \* files the user may add
    Gadgets,      \* devices the user may tap
    NoGadget,
    MaxSendings   \* bound on the processes started

ASSUME ViewAssumption == NoGadget \notin Gadgets \cup Picks /\ MaxSendings \in Nat

Sendings == 1..MaxSendings

VARIABLES
    selectedFiles,     \* sequence of Picks
    selectedDeviceID,
    activeTransfer,    \* status of the transfer on the screen, or "none"
    sendings,          \* processes started
    sending,           \* [Sendings -> "unused" | "running" | "succeeded" | "failed" |
                       \*              "clearing" | "over"]
    sentFile,          \* the selected file each was started with, NoGadget once it is
                       \* not selected any more: one added again is another
    sentTo,            \* the device each was started with
    retryable          \* devices of the failed entries of the history

viewVars == <<selectedFiles, selectedDeviceID, activeTransfer, sendings, sending,
              sentFile, sentTo, retryable>>

ViewTypeOK ==
    /\ selectedFiles \in Seq(Picks)
    /\ selectedDeviceID \in Gadgets \cup {NoGadget}
    /\ activeTransfer \in {"none", "transferring", "completed", "failed"}
    /\ sendings \in 0..MaxSendings
    /\ sending \in [Sendings -> {"unused", "running", "succeeded", "failed", "clearing", "over"}]
    /\ DOMAIN sentFile = Sendings /\ DOMAIN sentTo = Sendings
    /\ retryable \subseteq Gadgets

ViewInit ==
    /\ selectedFiles = <<>> /\ selectedDeviceID = NoGadget /\ activeTransfer = "none"
    /\ sendings = 0 /\ sending = [p \in Sendings |-> "unused"]
    /\ sentFile = [p \in Sendings |-> NoGadget] /\ sentTo = [p \in Sendings |-> NoGadget]
    /\ retryable = {}

processVars == <<sendings, sending, sentFile, sentTo>>

(* The pickers are reached from the list, a drop is accepted at any time.   *)
addFile(f) ==
    /\ ~\E i \in DOMAIN selectedFiles : selectedFiles[i] = f
    /\ selectedFiles' = Append(selectedFiles, f)
    /\ UNCHANGED <<selectedDeviceID, activeTransfer, processVars, retryable>>

RemoveFiles ==
    /\ activeTransfer = "none" /\ selectedFiles # <<>> /\ selectedFiles' = <<>>
    /\ sentFile' = [p \in Sendings |-> NoGadget]
    /\ UNCHANGED <<selectedDeviceID, activeTransfer, sendings, sending, sentTo, retryable>>

(* FileTransferService.sendFile: launching the process may throw, which is  *)
(* reported as a failure.                                                   *)
sendFile(f, g) ==
    /\ sendings < MaxSendings /\ sendings' = sendings + 1
    /\ \E how \in {"running", "failed"} : sending' = [sending EXCEPT ![sendings'] = how]
    /\ sentFile' = [sentFile EXCEPT ![sendings'] = f]
    /\ sentTo' = [sentTo EXCEPT ![sendings'] = g]

(* sendFiles sends the first file only, to the device g if there is one.    *)
SendFirst(g) ==
    \/ /\ g # NoGadget /\ selectedFiles # <<>>
       /\ activeTransfer' = "transferring"
       /\ sendFile(Head(selectedFiles), g)
    \/ (g = NoGadget \/ selectedFiles = <<>>) /\ UNCHANGED <<activeTransfer, processVars>>

(* A tap on a device: select it, and send if files are selected; a second   *)
(* tap takes the selection back.                                            *)
deviceRow(g) ==
    /\ activeTransfer = "none"
    /\ \/ /\ selectedDeviceID = g /\ selectedDeviceID' = NoGadget
          /\ UNCHANGED <<activeTransfer, processVars>>
       \/ /\ selectedDeviceID # g /\ selectedDeviceID' = g
          /\ SendFirst(g)
    /\ UNCHANGED <<selectedFiles, retryable>>

(* The process goes on.                                                     *)
cancelShown ==
    /\ activeTransfer = "transferring" /\ activeTransfer' = "none"
    /\ UNCHANGED <<selectedFiles, selectedDeviceID, processVars, retryable>>

retryTransfer ==
    /\ activeTransfer = "failed"
    /\ IF selectedDeviceID # NoGadget /\ selectedFiles # <<>>
       THEN SendFirst(selectedDeviceID)
       ELSE activeTransfer' = "transferring" /\ UNCHANGED processVars
    /\ UNCHANGED <<selectedFiles, selectedDeviceID, retryable>>

retryHistoryRecord(g) ==
    /\ activeTransfer = "none" /\ g \in retryable
    /\ selectedDeviceID' = g /\ SendFirst(g)
    /\ UNCHANGED <<selectedFiles, retryable>>

ClearHistory ==
    /\ activeTransfer = "none" /\ retryable # {} /\ retryable' = {}
    /\ UNCHANGED <<selectedFiles, selectedDeviceID, activeTransfer, processVars>>

SendProcessEnds(p) ==
    /\ sending[p] = "running"
    /\ \E how \in {"succeeded", "failed"} : sending' = [sending EXCEPT ![p] = how]
    /\ UNCHANGED <<selectedFiles, selectedDeviceID, activeTransfer, sendings, sentFile, sentTo, retryable>>

(* The completion on the main thread; activeTransfer?. does nothing when    *)
(* there is none.                                                           *)
SetStatus(status) == activeTransfer' = IF activeTransfer = "none" THEN "none" ELSE status

SendCompleted(p) ==
    /\ sending[p] = "succeeded" /\ sending' = [sending EXCEPT ![p] = "clearing"]
    /\ SetStatus("completed")
    /\ UNCHANGED <<selectedFiles, selectedDeviceID, sendings, sentFile, sentTo, retryable>>

SendFailed(p) ==
    /\ sending[p] = "failed" /\ sending' = [sending EXCEPT ![p] = "over"]
    /\ SetStatus("failed")
    /\ retryable' = retryable \cup {sentTo[p]}
    /\ UNCHANGED <<selectedFiles, selectedDeviceID, sendings, sentFile, sentTo>>

(* removeAll: the file that was sent, if it is still selected.              *)
Deselect(f) ==
    /\ \/ \E i \in DOMAIN selectedFiles :
              /\ selectedFiles[i] = f
              /\ selectedFiles' = SubSeq(selectedFiles, 1, i - 1)
                                  \o SubSeq(selectedFiles, i + 1, Len(selectedFiles))
       \/ (\A i \in DOMAIN selectedFiles : selectedFiles[i] # f) /\ UNCHANGED selectedFiles
    /\ sentFile' = [p \in Sendings |-> IF sentFile[p] = f THEN NoGadget ELSE sentFile[p]]

(* (A mutation of Cleared: only the selection is cleared.)                   *)
ClearedKeepsTransfer(p) ==
    /\ sending[p] = "clearing" /\ sending' = [sending EXCEPT ![p] = "over"]
    /\ selectedDeviceID' = NoGadget
    /\ Deselect(sentFile[p])
    /\ UNCHANGED <<activeTransfer, sendings, sentTo, retryable>>

(* 2 s after a success, whatever is on the screen by then.                  *)
Cleared(p) ==
    /\ sending[p] = "clearing" /\ sending' = [sending EXCEPT ![p] = "over"]
    /\ activeTransfer' = "none" /\ selectedDeviceID' = NoGadget
    /\ Deselect(sentFile[p])
    /\ UNCHANGED <<sendings, sentTo, retryable>>

ViewNext ==
    \/ \E f \in Picks : addFile(f)
    \/ RemoveFiles \/ cancelShown \/ retryTransfer \/ ClearHistory
    \/ \E g \in Gadgets : deviceRow(g) \/ retryHistoryRecord(g)
    \/ \E p \in Sendings : SendProcessEnds(p) \/ SendCompleted(p) \/ SendFailed(p) \/ Cleared(p)

ViewSpec == ViewInit /\ [][ViewNext]_viewVars

-----------------------------------------------------------------------------
(* A transfer shown as in progress ends: some process is still running or   *)
(* its end is still to be reported, also after cancelled sends, retries and *)
(* late clears of earlier ones (sendFiles, retryTransfer).                  *)
ShownTransferHasProcess ==
    activeTransfer = "transferring" =>
        \E p \in Sendings : sending[p] \in {"running", "succeeded", "failed"}
=============================================================================
