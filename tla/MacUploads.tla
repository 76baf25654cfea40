----------------------------- MODULE MacUploads -----------------------------
(* The sending side of the Mac application of agents/mac (AppViewModel.swift *)
(* and the buttons of ContentView.swift).  A call runs on the main thread   *)
(* and leaves closures on the main queue, which run in the order they were  *)
(* queued; uploads, scans and handshakes end on other threads and queue a   *)
(* closure too.  While uploads are under way the application holds an       *)
(* activity that keeps the Mac awake.                                       *)
(* What is only shown (telemetry, reports, the history polled after an      *)
(* upload, messages) is left out.                                           *)
EXTENDS Naturals, Sequences, FiniteSets

CONSTANTS
    Urls,         \* files the user queues, each sent once
    Machines,     \* devices a scan may list or the user may dial
    Androids,     \* those whose platform is "android"
    NoMachine,
    DialPorts,    \* number of ports connectToIP tries (4)
    MaxScans,     \* bound on the scans made
    MaxDials      \* bound on the calls of connectToIP

ASSUME UploadsAssumption ==
    /\ IsFiniteSet(Urls) /\ Androids \subseteq Machines /\ NoMachine \notin Machines
    /\ DialPorts \in Nat \ {0} /\ MaxScans \in Nat /\ MaxDials \in Nat

VARIABLES
    isScanning,           \* and scanTimer is set
    scansMade, scansOut,  \* scans requested, and those without an answer yet
    discoveredNodes, selectedNode,
    dials,                \* calls of connectToIP made
    dialling,             \* [machine, port] of the one waiting, or NoMachine
    macUpload,            \* [Urls -> "queued" | "sending" | "skipped" | "done"]
    mainQueue,            \* closures on the main queue
    activeTransfersCount,
    sleepActivityToken,   \* the variable holds a token
    awake                 \* the system has been asked not to sleep

uploadsVars == <<isScanning, scansMade, scansOut, discoveredNodes, selectedNode, dials, dialling,
                 macUpload, mainQueue, activeTransfersCount, sleepActivityToken, awake>>

lookVars == <<isScanning, scansMade, scansOut, discoveredNodes, selectedNode, dials, dialling>>
sendVars == <<macUpload, activeTransfersCount, sleepActivityToken, awake>>

Add(n) == [do |-> "add", n |-> n]
Subtract == [do |-> "subtract"]
Refresh == [do |-> "refresh"]
Devices(ms) == [do |-> "devices", list |-> ms]
Connected(m) == [do |-> "connected", machine |-> m]
Closures ==
    {Add(n) : n \in 0..Cardinality(Urls)} \cup {Subtract, Refresh}
    \cup {Devices(ms) : ms \in SUBSET Machines} \cup {Connected(m) : m \in Machines}

UploadsTypeOK ==
    /\ isScanning \in BOOLEAN /\ scansMade \in 0..MaxScans /\ scansOut \in 0..scansMade
    /\ discoveredNodes \subseteq Machines /\ selectedNode \in Machines \cup {NoMachine}
    /\ dials \in 0..MaxDials
    /\ dialling \in [machine : Machines, port : 1..DialPorts] \cup {NoMachine}
    /\ macUpload \in [Urls -> {"queued", "sending", "skipped", "done"}]
    /\ \A i \in DOMAIN mainQueue : mainQueue[i] \in Closures
    /\ activeTransfersCount \in Nat
    /\ sleepActivityToken \in BOOLEAN /\ awake \in BOOLEAN

UploadsInit ==
    /\ isScanning = FALSE /\ scansMade = 0 /\ scansOut = 0 /\ discoveredNodes = {} /\ selectedNode = NoMachine
    /\ dials = 0 /\ dialling = NoMachine
    /\ macUpload = [f \in Urls |-> "queued"] /\ mainQueue = <<>>
    /\ activeTransfersCount = 0 /\ sleepActivityToken = FALSE /\ awake = FALSE

Enqueue(closures) == mainQueue' = mainQueue \o closures

-----------------------------------------------------------------------------
(* Scanning and dialling.                                                   *)

scanDevices ==
    /\ scansMade < MaxScans
    /\ scansMade' = scansMade + 1 /\ scansOut' = scansOut + 1

toggleScan ==
    /\ isScanning' = ~isScanning
    /\ IF isScanning' THEN scanDevices ELSE UNCHANGED <<scansMade, scansOut>>
    /\ UNCHANGED <<discoveredNodes, selectedNode, dials, dialling, mainQueue, sendVars>>

ScanTimer ==
    /\ isScanning /\ scanDevices
    /\ UNCHANGED <<isScanning, discoveredNodes, selectedNode, dials, dialling, mainQueue, sendVars>>

(* An answer may come after the scan was switched off, and two may come in  *)
(* either order.                                                            *)
ScanAnswer(ms) ==
    /\ scansOut > 0 /\ scansOut' = scansOut - 1
    /\ Enqueue(<<Devices(ms)>>)
    /\ UNCHANGED <<isScanning, scansMade, discoveredNodes, selectedNode, dials, dialling, sendVars>>

ScanError ==
    /\ scansOut > 0 /\ scansOut' = scansOut - 1
    /\ UNCHANGED <<isScanning, scansMade, discoveredNodes, selectedNode, dials, dialling, mainQueue, sendVars>>

(* The button is disabled until the completion of the call before.          *)
connectToIP(m) ==
    /\ dialling = NoMachine /\ dials < MaxDials
    /\ ~\E i \in DOMAIN mainQueue : mainQueue[i].do = "connected"
    /\ dials' = dials + 1 /\ dialling' = [machine |-> m, port |-> 1]
    /\ UNCHANGED <<isScanning, scansMade, scansOut, discoveredNodes, selectedNode, mainQueue, sendVars>>

tryPort ==
    /\ dialling # NoMachine
    /\ dialling' = IF dialling.port < DialPorts
                   THEN [dialling EXCEPT !.port = @ + 1] ELSE NoMachine
    /\ UNCHANGED <<isScanning, scansMade, scansOut, discoveredNodes, selectedNode, dials, mainQueue, sendVars>>

HandshakeAnswered ==
    /\ dialling # NoMachine
    /\ Enqueue(<<Connected(dialling.machine)>>)
    /\ dialling' = NoMachine
    /\ UNCHANGED <<isScanning, scansMade, scansOut, discoveredNodes, selectedNode, dials, sendVars>>

(* A press on a device while no file is queued.                             *)
SelectNode(m) ==
    /\ m \in discoveredNodes /\ selectedNode' = m
    /\ UNCHANGED <<isScanning, scansMade, scansOut, discoveredNodes, dials, dialling, mainQueue, sendVars>>

-----------------------------------------------------------------------------
(* Sending.  Of the files fs those in bad have no readable attributes or no *)
(* valid URL.  The files go to the selected device through the dashboard or *)
(* directly, or to an address the user typed: the count is kept alike.      *)

(* (A mutation: a file that cannot be read is skipped without a closure.)   *)
LaunchUploadsForgetBad(fs, bad) ==
    /\ Enqueue(<<Add(Cardinality(fs))>>)
    /\ macUpload' = [f \in Urls |-> IF f \notin fs THEN macUpload[f]
                                    ELSE IF f \in bad THEN "skipped" ELSE "sending"]
    /\ UNCHANGED <<lookVars, activeTransfersCount, sleepActivityToken, awake>>

LaunchUploads(fs, bad) ==
    /\ Enqueue(<<Add(Cardinality(fs))>> \o [i \in 1..Cardinality(bad) |-> Subtract])
    /\ macUpload' = [f \in Urls |-> IF f \notin fs THEN macUpload[f]
                                    ELSE IF f \in bad THEN "skipped" ELSE "sending"]
    /\ UNCHANGED <<lookVars, activeTransfersCount, sleepActivityToken, awake>>

QueuedUrls == {f \in Urls : macUpload[f] = "queued"}

(* The button of any listed device; the files go to the selected one.  With *)
(* none selected they are dropped.                                          *)
sendFiles(fs, bad) ==
    /\ discoveredNodes # {}
    /\ \/ selectedNode # NoMachine /\ LaunchUploads(fs, bad)
       \/ /\ selectedNode = NoMachine
          /\ macUpload' = [f \in Urls |-> IF f \in fs THEN "skipped" ELSE macUpload[f]]
          /\ UNCHANGED <<lookVars, mainQueue, activeTransfersCount, sleepActivityToken, awake>>

sendFilesDirectly(fs, bad) == LaunchUploads(fs, bad)

UploadEnds(f) ==
    /\ macUpload[f] = "sending"
    /\ macUpload' = [macUpload EXCEPT ![f] = "done"]
    /\ Enqueue(<<Subtract>>)
    /\ UNCHANGED <<lookVars, activeTransfersCount, sleepActivityToken, awake>>

-----------------------------------------------------------------------------
(* The main queue.                                                          *)

acquirePowerAssertion ==
    /\ sleepActivityToken' = TRUE
    /\ awake' = (awake \/ ~sleepActivityToken)

releasePowerAssertion ==
    /\ sleepActivityToken' = FALSE
    /\ awake' = (awake /\ ~sleepActivityToken)

(* didSet of activeTransfersCount queues another closure.                   *)
RunCount ==
    /\ mainQueue # <<>> /\ Head(mainQueue).do \in {"add", "subtract"}
    /\ activeTransfersCount' =
           IF Head(mainQueue).do = "add" THEN activeTransfersCount + Head(mainQueue).n
           ELSE activeTransfersCount - 1
    /\ mainQueue' = Append(Tail(mainQueue), Refresh)
    /\ UNCHANGED <<lookVars, macUpload, sleepActivityToken, awake>>

RunRefresh ==
    /\ mainQueue # <<>> /\ Head(mainQueue).do = "refresh"
    /\ IF activeTransfersCount > 0 THEN acquirePowerAssertion ELSE releasePowerAssertion
    /\ mainQueue' = Tail(mainQueue)
    /\ UNCHANGED <<lookVars, macUpload, activeTransfersCount>>

RunDevices ==
    /\ mainQueue # <<>> /\ Head(mainQueue).do = "devices"
    /\ discoveredNodes' = Head(mainQueue).list
    /\ \/ selectedNode' \in Head(mainQueue).list \cap Androids
       \/ Head(mainQueue).list \cap Androids = {} /\ UNCHANGED selectedNode
    /\ mainQueue' = Tail(mainQueue)
    /\ UNCHANGED <<isScanning, scansMade, scansOut, dials, dialling, sendVars>>

RunConnected ==
    /\ mainQueue # <<>> /\ Head(mainQueue).do = "connected"
    /\ discoveredNodes' = discoveredNodes \cup {Head(mainQueue).machine}
    /\ selectedNode' = Head(mainQueue).machine
    /\ mainQueue' = Tail(mainQueue)
    /\ UNCHANGED <<isScanning, scansMade, scansOut, dials, dialling, sendVars>>

UploadsNext ==
    \/ toggleScan \/ ScanTimer \/ ScanError \/ tryPort \/ HandshakeAnswered
    \/ \E ms \in SUBSET Machines : ScanAnswer(ms)
    \/ \E m \in Machines : connectToIP(m) \/ SelectNode(m)
    \/ \E fs \in (SUBSET QueuedUrls) \ {{}} : \E bad \in SUBSET fs :
           sendFiles(fs, bad) \/ sendFilesDirectly(fs, bad)
    \/ \E f \in Urls : UploadEnds(f)
    \/ RunCount \/ RunRefresh \/ RunDevices \/ RunConnected

UploadsSpec == UploadsInit /\ [][UploadsNext]_uploadsVars

-----------------------------------------------------------------------------
(* Once the queued closures have run, the Mac is kept awake exactly while   *)
(* an upload is under way, whatever files were unreadable and in whichever  *)
(* order uploads ended (activeTransfersCount, acquirePowerAssertion,        *)
(* releasePowerAssertion).                                                  *)
AwakeWhileSending ==
    mainQueue = <<>> => (awake <=> \E f \in Urls : macUpload[f] = "sending")
=============================================================================
