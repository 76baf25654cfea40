--------------------------- MODULE Devices_proofs ---------------------------
(***************************************************************************)
(* Theorems about the components of MC_Devices: the relay for peers, the   *)
(* benchmarks, the tuning of an upload and what else surrounds the         *)
(* transfers.  Each component's theorem is about its own specification,    *)
(* and the last part of the module carries them over to DevicesSpec, of    *)
(* which every component's specification is a consequence.                 *)
(***************************************************************************)
EXTENDS MC_Devices, FiniteSetTheorems, SequenceTheorems, TLAPS

-----------------------------------------------------------------------------
(* The relay for peers. *)

(* The connections that have not been accepted.                            *)
Queued == {backlog[i] : i \in 1..Len(backlog)}

(* A connection is in one place only.  One that is queued, or whose id is  *)
(* being read, is in no slot and no pipe and is queued once; one that      *)
(* waits in a slot is in the slot of its own session and in no pipe; and a *)
(* client that has not called is nowhere.                                  *)
QueuedOnce ==
    /\ \A i, j \in 1..Len(backlog) : backlog[i] = backlog[j] => i = j
    /\ \A c \in Queued : caller[c] # "idle"

ServedOnce ==
    stage # "accept" => /\ serving \in Callers /\ serving \notin Queued
                        /\ caller[serving] # "idle"

SlottedOnce ==
    \A s \in RelayIds : slots[s] # NoCaller =>
        /\ SessionOf[slots[s]] = s /\ caller[slots[s]] # "idle"
        /\ slots[s] \notin Queued
        /\ stage = "read" => slots[s] # serving

PipedOnce ==
    \A p \in pipes : \A c \in {p[1], p[2]} :
        /\ caller[c] # "idle" /\ c \notin Queued
        /\ stage = "read" => c # serving

PeerRelayInv ==
    /\ PeerRelayTypeOK /\ QueuedOnce /\ ServedOnce /\ SlottedOnce /\ PipedOnce
    /\ PipesArePairs

(* A call puts its connection at the end of the backlog, an accept takes   *)
(* away the first one and nothing else.                                    *)
LEMMA QueueGrows ==
    ASSUME NEW c \in Callers, backlog \in Seq(Callers), backlog' = Append(backlog, c)
    PROVE  Queued' = Queued \cup {c}
<1>1. /\ backlog' \in Seq(Callers) /\ Len(backlog') = Len(backlog) + 1
      /\ \A i \in 1..Len(backlog) : backlog'[i] = backlog[i]
      /\ backlog'[Len(backlog) + 1] = c
  BY AppendProperties
<1>2. Len(backlog) \in Nat
  OBVIOUS
<1> QED  BY <1>1, <1>2 DEF Queued

LEMMA QueueShrinks ==
    ASSUME backlog \in Seq(Callers), backlog # <<>>, backlog' = Tail(backlog), QueuedOnce
    PROVE  /\ Head(backlog) \in Queued /\ Head(backlog) \in Callers
           /\ Queued' \subseteq Queued /\ Head(backlog) \notin Queued'
           /\ backlog' \in Seq(Callers)
           /\ \A i, j \in 1..Len(backlog') : backlog'[i] = backlog'[j] => i = j
<1>1. /\ Head(backlog) = backlog[1] /\ Len(backlog) \in Nat /\ Len(backlog) >= 1
      /\ Head(backlog) \in Callers /\ Tail(backlog) \in Seq(Callers)
      /\ Len(backlog') = Len(backlog) - 1
      /\ \A i \in 1..Len(backlog') : backlog'[i] = backlog[i + 1]
  BY HeadTailProperties
<1>2. \A i \in 1..Len(backlog') : i + 1 \in 1..Len(backlog) /\ i + 1 # 1
  BY <1>1
<1>3. 1 \in 1..Len(backlog)
  BY <1>1
<1>4. Queued' \subseteq Queued
  BY <1>1, <1>2 DEF Queued
<1>5. Head(backlog) \notin Queued'
  BY <1>1, <1>2, <1>3 DEF Queued, QueuedOnce
<1>6. \A i, j \in 1..Len(backlog') : backlog'[i] = backlog'[j] => i = j
  <2> SUFFICES ASSUME NEW i \in 1..Len(backlog'), NEW j \in 1..Len(backlog'),
                      backlog'[i] = backlog'[j]
               PROVE  i = j
    OBVIOUS
  <2>1. i + 1 = j + 1
    BY <1>1, <1>2 DEF QueuedOnce
  <2> QED  BY <2>1
<1> QED  BY <1>1, <1>3, <1>4, <1>5, <1>6 DEF Queued

LEMMA PeerRelayStep ==
    ASSUME PeerRelayInv, [PeerRelayNext]_peerRelayVars
    PROVE  PeerRelayInv'
<1> USE DEF PeerRelayInv
<1>t. /\ caller \in [Callers -> {"idle", "waiting", "paired", "gone"}]
      /\ backlog \in Seq(Callers)
      /\ serving \in Callers \cup {NoCaller}
      /\ stage \in {"accept", "read", "sleep"}
      /\ slots \in [RelayIds -> Callers \cup {NoCaller}]
      /\ pipes \subseteq Callers \X Callers
  BY DEF PeerRelayTypeOK
<1>1. ASSUME NEW c \in Callers, Call(c)
      PROVE  PeerRelayInv'
  <2>1. Queued' = Queued \cup {c} /\ backlog' \in Seq(Callers)
    BY <1>1, <1>t, QueueGrows DEF Call
  <2>2. caller[c] = "idle" /\ caller' = [caller EXCEPT ![c] = "waiting"]
        /\ serving' = serving /\ stage' = stage /\ slots' = slots /\ pipes' = pipes
    BY <1>1 DEF Call
  <2>3. \A d \in Callers : caller'[d] # "idle" <=> caller[d] # "idle" \/ d = c
    BY <2>2, <1>t
  <2>4. PeerRelayTypeOK'
    BY <2>1, <2>2, <1>t DEF PeerRelayTypeOK, RelayIds
  <2>5. QueuedOnce'
    <3>1. /\ Len(backlog') = Len(backlog) + 1 /\ Len(backlog) \in Nat
          /\ \A i \in 1..Len(backlog) : backlog'[i] = backlog[i] /\ backlog[i] \in Callers
          /\ backlog'[Len(backlog) + 1] = c
      BY <1>1, <1>t, AppendProperties DEF Call
    <3>2. c \notin Queued
      BY <2>2 DEF QueuedOnce
    <3>3. \A i, j \in 1..Len(backlog') : backlog'[i] = backlog'[j] => i = j
      BY <3>1, <3>2 DEF QueuedOnce, Queued
    <3>4. Queued \subseteq Callers
      BY <3>1 DEF Queued
    <3> QED  BY <3>3, <3>4, <2>1, <2>3 DEF QueuedOnce
  <2>6. ServedOnce' /\ SlottedOnce' /\ PipedOnce'
    <3>1. ServedOnce'
      BY <2>1, <2>2, <2>3 DEF ServedOnce
    <3>2. SlottedOnce'
      BY <2>1, <2>2, <2>3, <1>t DEF SlottedOnce, RelayIds
    <3>3. PipedOnce'
      <4>1. \A p \in pipes : p[1] \in Callers /\ p[2] \in Callers
        BY <1>t
      <4> QED  BY <4>1, <2>1, <2>2, <2>3 DEF PipedOnce
    <3> QED  BY <3>1, <3>2, <3>3
  <2> QED  BY <2>2, <2>4, <2>5, <2>6 DEF PipesArePairs, RelayIds
<1>2. ASSUME NEW c \in Callers, HangUp(c)
      PROVE  PeerRelayInv'
  <2>1. /\ caller' = [caller EXCEPT ![c] = "gone"] /\ backlog' = backlog
        /\ serving' = serving /\ stage' = stage /\ slots' = slots /\ pipes' = pipes
    BY <1>2 DEF HangUp
  <2>2. \A d \in Callers : caller[d] # "idle" => caller'[d] # "idle"
    BY <2>1, <1>t
  <2>3. Queued \subseteq Callers /\ Queued' = Queued
    BY <2>1, <1>t DEF Queued
  <2>4. PeerRelayTypeOK'
    BY <2>1, <1>t DEF PeerRelayTypeOK, RelayIds
  <2>5. QueuedOnce' /\ ServedOnce' /\ SlottedOnce'
    <3>1. QueuedOnce'
      BY <2>1, <2>2, <2>3, <1>t DEF QueuedOnce
    <3>2. ServedOnce'
      BY <2>1, <2>2, <2>3, <1>t DEF ServedOnce
    <3>3. SlottedOnce'
      BY <2>1, <2>2, <2>3, <1>t DEF SlottedOnce, RelayIds
    <3> QED  BY <3>1, <3>2, <3>3
  <2>6. PipedOnce'
    <3>1. \A p \in pipes : p[1] \in Callers /\ p[2] \in Callers
      BY <1>t
    <3> QED  BY <3>1, <2>1, <2>2, <2>3 DEF PipedOnce
  <2> QED  BY <2>1, <2>4, <2>5, <2>6 DEF PipesArePairs, RelayIds
<1>3. CASE Accept
  <2>1. /\ stage = "accept" /\ backlog # <<>> /\ serving' = Head(backlog)
        /\ backlog' = Tail(backlog) /\ stage' = "read"
        /\ caller' = caller /\ slots' = slots /\ pipes' = pipes
    BY <1>3 DEF Accept
  <2>2. /\ Head(backlog) \in Queued /\ Head(backlog) \in Callers
        /\ Queued' \subseteq Queued /\ Head(backlog) \notin Queued'
        /\ backlog' \in Seq(Callers)
        /\ \A i, j \in 1..Len(backlog') : backlog'[i] = backlog'[j] => i = j
    BY <2>1, <1>t, QueueShrinks
  <2>3. PeerRelayTypeOK'
    BY <2>1, <2>2, <1>t DEF PeerRelayTypeOK, RelayIds
  <2>4. QueuedOnce'
    BY <2>1, <2>2 DEF QueuedOnce
  <2>5. ServedOnce'
    BY <2>1, <2>2 DEF QueuedOnce, ServedOnce
  <2>6. SlottedOnce'
    BY <2>1, <2>2 DEF SlottedOnce, RelayIds
  <2>7. PipedOnce'
    BY <2>1, <2>2 DEF PipedOnce
  <2> QED  BY <2>1, <2>3, <2>4, <2>5, <2>6, <2>7 DEF PipesArePairs, RelayIds
<1>4. CASE ReadIdFails \/ PeerTimeout
  <2>1. /\ serving' = NoCaller /\ stage' = "accept" /\ caller' = caller
        /\ backlog' = backlog /\ slots' = slots /\ pipes' = pipes
    BY <1>4 DEF ReadIdFails, PeerTimeout
  <2>2. Queued' = Queued
    BY <2>1 DEF Queued
  <2>3. PeerRelayTypeOK'
    BY <2>1, <1>t DEF PeerRelayTypeOK, RelayIds
  <2> QED  BY <2>1, <2>2, <2>3
           DEF QueuedOnce, ServedOnce, SlottedOnce, PipedOnce, PipesArePairs, RelayIds
<1>5. CASE FirstPeer
  <2> DEFINE s == SessionOf[serving]
  <2>1. /\ stage = "read" /\ slots[s] = NoCaller
        /\ slots' = [slots EXCEPT ![s] = serving] /\ stage' = "sleep"
        /\ caller' = caller /\ backlog' = backlog /\ serving' = serving /\ pipes' = pipes
    BY <1>5 DEF FirstPeer
  <2>2. Queued' = Queued
    BY <2>1 DEF Queued
  <2>3. serving \in Callers /\ serving \notin Queued /\ caller[serving] # "idle"
    BY <2>1 DEF ServedOnce
  <2>4. s \in RelayIds
    BY <2>3 DEF RelayIds
  <2>5. \A t \in RelayIds : slots'[t] = IF t = s THEN serving ELSE slots[t]
    BY <2>1, <2>4, <1>t
  <2>6. PeerRelayTypeOK'
    BY <2>1, <2>3, <2>4, <1>t DEF PeerRelayTypeOK, RelayIds
  <2>7. QueuedOnce' /\ ServedOnce' /\ PipedOnce'
    BY <2>1, <2>2 DEF QueuedOnce, ServedOnce, PipedOnce
  <2>8. SlottedOnce'
    BY <2>1, <2>2, <2>3, <2>5 DEF SlottedOnce, RelayIds
  <2>9. PipesArePairs'
    <3>1. \A p \in pipes : serving \notin {p[1], p[2]}
      BY <2>1 DEF PipedOnce
    <3>2. \A p \in pipes : \A t \in RelayIds : slots'[t] \notin {p[1], p[2]}
      BY <3>1, <2>5 DEF PipesArePairs
    <3> QED  BY <3>2, <2>1 DEF PipesArePairs, RelayIds
  <2> QED  BY <2>6, <2>7, <2>8, <2>9
<1>6. CASE SecondPeer
  <2> DEFINE s == SessionOf[serving]
             f == slots[s]
             new == {<<f, serving>>, <<serving, f>>}
  <2>1. /\ stage = "read" /\ f # NoCaller
        /\ slots' = [slots EXCEPT ![s] = NoCaller]
        /\ caller' = Told(f, serving)
        /\ pipes' = pipes \cup new
        /\ serving' = NoCaller /\ stage' = "accept" /\ backlog' = backlog
    BY <1>6 DEF SecondPeer
  <2>2. Queued' = Queued
    BY <2>1 DEF Queued
  <2>3. serving \in Callers /\ serving \notin Queued /\ caller[serving] # "idle"
    BY <2>1 DEF ServedOnce
  <2>4. s \in RelayIds
    BY <2>3 DEF RelayIds
  <2>5. /\ f \in Callers /\ SessionOf[f] = s /\ caller[f] # "idle" /\ f \notin Queued
        /\ f # serving
    BY <2>1, <2>4, <1>t DEF SlottedOnce
  <2>6. caller' \in [Callers -> {"idle", "waiting", "paired", "gone"}]
        /\ \A d \in Callers : caller[d] # "idle" => caller'[d] # "idle"
    BY <2>1, <1>t DEF Told
  <2>7. \A t \in RelayIds : slots'[t] = IF t = s THEN NoCaller ELSE slots[t]
    BY <2>1, <2>4, <1>t
  <2>8. \A t \in RelayIds : slots'[t] # f /\ slots'[t] # serving
    BY <2>7, <2>5, <2>3, <2>1, PeerRelayAssumption DEF SlottedOnce
  <2>9. \A p \in pipes : /\ p[1] \in Callers /\ p[2] \in Callers
                         /\ p[1] # f /\ p[2] # f /\ p[1] # serving /\ p[2] # serving
    BY <1>t, <2>1, <2>4 DEF PipesArePairs, PipedOnce
  <2>10. PeerRelayTypeOK'
    <3>1. slots' \in [RelayIds -> Callers \cup {NoCaller}]
      BY <2>1, <1>t
    <3>2. pipes' \subseteq Callers \X Callers
      BY <2>1, <2>3, <2>5, <1>t
    <3> QED  BY <2>1, <2>6, <1>t, <3>1, <3>2 DEF PeerRelayTypeOK, RelayIds
  <2>11. QueuedOnce'
    <3>1. Queued \subseteq Callers
      BY <1>t DEF Queued
    <3> QED  BY <3>1, <2>1, <2>2, <2>6 DEF QueuedOnce
  <2>12. ServedOnce'
    BY <2>1 DEF ServedOnce
  <2>13. SlottedOnce'
    BY <2>1, <2>2, <2>6, <2>7, <1>t DEF SlottedOnce, RelayIds
  <2>14. PipedOnce'
    <3>1. \A p \in pipes : \A c \in {p[1], p[2]} : caller'[c] # "idle" /\ c \notin Queued
      BY <2>9, <2>6 DEF PipedOnce
    <3>2. \A p \in new : \A c \in {p[1], p[2]} : caller'[c] # "idle" /\ c \notin Queued
      BY <2>3, <2>5, <2>6
    <3> QED  BY <3>1, <3>2, <2>1, <2>2 DEF PipedOnce
  <2>15. PipesArePairs'
    <3>1. \A p \in pipes' : SessionOf[p[1]] = SessionOf[p[2]]
      BY <2>1, <2>5 DEF PipesArePairs
    <3>2. \A p \in pipes, q \in new : p[1] # q[1] /\ p[1] # q[2] /\ q[1] # p[2]
      BY <2>9
    <3>3. \A p, q \in new : (p[1] = q[1] => p[2] = q[2]) /\ (p[1] = q[2] => p[2] = q[1])
      BY <2>5
    <3>4. \A p, q \in pipes' : (p[1] = q[1] => p[2] = q[2]) /\ (p[1] = q[2] => p[2] = q[1])
      BY <3>2, <3>3, <2>1 DEF PipesArePairs
    <3>5. \A p \in pipes' : \A t \in RelayIds : slots'[t] \notin {p[1], p[2]}
      <4>1. \A p \in new : \A t \in RelayIds : slots'[t] \notin {p[1], p[2]}
        BY <2>8
      <4>2. \A p \in pipes : NoCaller \notin {p[1], p[2]}
        BY <2>9, PeerRelayAssumption
      <4>3. \A p \in pipes : \A t \in RelayIds : slots'[t] \notin {p[1], p[2]}
        BY <4>2, <2>7 DEF PipesArePairs
      <4> QED  BY <4>1, <4>3, <2>1
    <3> QED  BY <3>1, <3>4, <3>5 DEF PipesArePairs, RelayIds
  <2> QED  BY <2>10, <2>11, <2>12, <2>13, <2>14, <2>15
<1>7. ASSUME NEW p \in pipes, ForwardEnds(p)
      PROVE  PeerRelayInv'
  <2>1. /\ pipes' \subseteq pipes /\ caller' = caller /\ backlog' = backlog
        /\ serving' = serving /\ stage' = stage /\ slots' = slots
    BY <1>7 DEF ForwardEnds
  <2>2. Queued' = Queued
    BY <2>1 DEF Queued
  <2>3. PeerRelayTypeOK'
    BY <2>1, <1>t DEF PeerRelayTypeOK, RelayIds
  <2>4. QueuedOnce' /\ ServedOnce' /\ SlottedOnce' /\ PipedOnce'
    BY <2>1, <2>2 DEF QueuedOnce, ServedOnce, SlottedOnce, PipedOnce, RelayIds
  <2>5. PipesArePairs'
    BY <2>1 DEF PipesArePairs, RelayIds
  <2> QED  BY <2>3, <2>4, <2>5
<1>8. CASE UNCHANGED peerRelayVars
  <2>1. /\ pipes' = pipes /\ caller' = caller /\ backlog' = backlog
        /\ serving' = serving /\ stage' = stage /\ slots' = slots
    BY <1>8 DEF peerRelayVars
  <2>2. Queued' = Queued
    BY <2>1 DEF Queued
  <2>3. PeerRelayTypeOK'
    BY <2>1, <1>t DEF PeerRelayTypeOK, RelayIds
  <2> QED  BY <2>1, <2>2, <2>3
           DEF QueuedOnce, ServedOnce, SlottedOnce, PipedOnce, PipesArePairs, RelayIds
<1> QED  BY <1>1, <1>2, <1>3, <1>4, <1>5, <1>6, <1>7, <1>8 DEF PeerRelayNext

LEMMA PeerRelayInvHolds == PeerRelaySpec => []PeerRelayInv
<1>1. PeerRelayInit => PeerRelayInv
  <2> SUFFICES ASSUME PeerRelayInit PROVE PeerRelayInv
    OBVIOUS
  <2>1. backlog = <<>> /\ Len(backlog) = 0 /\ Queued = {}
    BY DEF PeerRelayInit, Queued
  <2>2. PeerRelayTypeOK
    BY <2>1 DEF PeerRelayInit, PeerRelayTypeOK
  <2> QED  BY <2>1, <2>2 DEF PeerRelayInit, PeerRelayInv, QueuedOnce, ServedOnce,
                             SlottedOnce, PipedOnce, PipesArePairs
<1>2. PeerRelayInv /\ [PeerRelayNext]_peerRelayVars => PeerRelayInv'
  BY PeerRelayStep
<1> QED  BY <1>1, <1>2, PTL DEF PeerRelaySpec

(* PipesArePairs for any number of callers and sessions: whatever the order *)
(* of calls, hang-ups and timeouts, RelayServer::handle_peer joins two      *)
(* connections of one session and never a third.                            *)
THEOREM PipesArePairsHolds == PeerRelaySpec => []PipesArePairs
<1>1. PeerRelayInv => PipesArePairs
  BY DEF PeerRelayInv
<1> QED  BY <1>1, PeerRelayInvHolds, PTL

-----------------------------------------------------------------------------
(* The benchmarks. *)

(* A session that has stopped its feedback loop waited for it to end, and   *)
(* one that has joined its collector has all its samples.                   *)
JoinedHasAll ==
    \A t \in Transfers :
        /\ bench[t] \in {"joining", "fetching", "reported"} => feedback[t] = "ended"
        /\ bench[t] \in {"fetching", "reported"} =>
              report[t].samples = taken[t] /\ collector[t] = "ended"

BenchmarkInv == BenchmarkTypeOK /\ SwitchesHaveOwners /\ JoinedHasAll

(* The types of the statics and tasks of the CLI, and of the phone.         *)
CliSideTypes ==
    /\ bench \in [Transfers -> {"idle", "running", "aborting", "joining", "fetching",
                                "reported"}]
    /\ collector \in [Transfers -> {"none", "check", "tick", "ended"}]
    /\ taken \in [Transfers -> 0..MaxTaken]
    /\ feedback \in [Transfers -> {"none", "on", "aborted", "ended"}]
    /\ adaptive \in Transfers \cup {NoTransfer}
    /\ profiling \in BOOLEAN
    /\ report \in [Transfers -> [samples : 0..MaxTaken, fetched : BOOLEAN,
                                 after : Requests \cup {NoRequest}]]

PhoneSideTypes ==
    /\ req \in [Requests -> {"none", "cleared", "serving", "stopped", "over"}]
    /\ flag \in BOOLEAN
    /\ sampler \in [Requests -> {"none", "check", "tick", "ended"}]
    /\ rxSamples \in 0..MaxTaken
    /\ after \in Requests \cup {NoRequest}
    /\ perf \in Requests \cup {NoRequest}

LEMMA BenchmarkTypesKept ==
    ASSUME BenchmarkTypeOK, [BenchmarkNext]_benchmarkVars
    PROVE  BenchmarkTypeOK'
<1>a. MaxTaken \in Nat
  BY OwnerAssumption
<1>b. CliSideTypes /\ PhoneSideTypes
  BY DEF BenchmarkTypeOK, CliSideTypes, PhoneSideTypes
<1>c. ASSUME CliSideTypes', PhoneSideTypes'
      PROVE  BenchmarkTypeOK'
  <2>1. {after', perf'} \subseteq Requests \cup {NoRequest}
    BY <1>c DEF PhoneSideTypes
  <2> QED  BY <1>c, <2>1, Zenon DEF BenchmarkTypeOK, CliSideTypes, PhoneSideTypes
<1>d. UNCHANGED phoneVars => PhoneSideTypes'
  BY <1>b DEF PhoneSideTypes, phoneVars
<1>e. UNCHANGED cliVars => CliSideTypes'
  BY <1>b DEF CliSideTypes, cliVars
<1>1. ASSUME NEW t \in Transfers, BenchStart(t)
      PROVE  CliSideTypes' /\ UNCHANGED phoneVars
  BY <1>1, <1>b DEF BenchStart, CliSideTypes
<1>2. ASSUME NEW t \in Transfers, Abort(t)
      PROVE  CliSideTypes' /\ UNCHANGED phoneVars
  BY <1>2, <1>b DEF Abort, CliSideTypes
<1>3. ASSUME NEW t \in Transfers, Deregister(t)
      PROVE  CliSideTypes' /\ UNCHANGED phoneVars
  BY <1>3, <1>b DEF Deregister, CliSideTypes
<1>4. ASSUME NEW t \in Transfers, CollectorCheck(t)
      PROVE  CliSideTypes' /\ UNCHANGED phoneVars
  BY <1>4, <1>b DEF CollectorCheck, CliSideTypes
<1>5. ASSUME NEW t \in Transfers, CollectorTick(t)
      PROVE  CliSideTypes' /\ UNCHANGED phoneVars
  <2>1. taken' \in [Transfers -> 0..MaxTaken]
    <3>1. taken[t] \in 0..MaxTaken /\ taken \in [Transfers -> 0..MaxTaken]
      BY <1>b DEF CliSideTypes
    <3>2. (IF taken[t] < MaxTaken THEN taken[t] + 1 ELSE taken[t]) \in 0..MaxTaken
      BY <3>1, <1>a
    <3> QED  BY <3>1, <3>2, <1>5 DEF CollectorTick
  <2> QED  BY <2>1, <1>5, <1>b DEF CollectorTick, CliSideTypes
<1>6. ASSUME NEW t \in Transfers, Join(t) \/ Fetch(t) \/ FetchFails(t)
      PROVE  CliSideTypes' /\ UNCHANGED phoneVars
  <2> DEFINE R == [samples : 0..MaxTaken, fetched : BOOLEAN,
                   after : Requests \cup {NoRequest}]
  <2>1. /\ report \in [Transfers -> R] /\ report[t] \in R /\ taken[t] \in 0..MaxTaken
        /\ after \in Requests \cup {NoRequest}
    BY <1>b DEF CliSideTypes, PhoneSideTypes
  <2>2. [report[t] EXCEPT !.samples = taken[t]] \in R
    BY <2>1
  <2>3. [report[t] EXCEPT !.fetched = TRUE, !.after = after] \in R
    BY <2>1
  <2>4. report' \in [Transfers -> R]
    <3> HIDE DEF R
    <3>1. CASE Join(t)
      BY <3>1, <2>1, <2>2 DEF Join
    <3>2. CASE Fetch(t)
      BY <3>2, <2>1, <2>3 DEF Fetch
    <3>3. CASE FetchFails(t)
      BY <3>3, <2>1 DEF FetchFails
    <3> QED  BY <3>1, <3>2, <3>3, <1>6
  <2>5. /\ bench' \in [Transfers -> {"idle", "running", "aborting", "joining", "fetching",
                                     "reported"}]
        /\ UNCHANGED <<collector, taken, feedback, adaptive, profiling, phoneVars>>
    BY <1>6, <1>b DEF Join, Fetch, FetchFails, CliSideTypes
  <2> QED  BY <2>4, <2>5, <1>b DEF CliSideTypes
<1>7. ASSUME NEW r \in Requests, StartClear(r)
      PROVE  PhoneSideTypes' /\ UNCHANGED cliVars
  BY <1>7, <1>a, <1>b DEF StartClear, PhoneSideTypes
<1>8. ASSUME NEW r \in Requests, StopPerf(r)
      PROVE  PhoneSideTypes' /\ UNCHANGED cliVars
  BY <1>8, <1>b DEF StopPerf, PhoneSideTypes
<1>10. ASSUME NEW r \in Requests, SamplerCheck(r)
      PROVE  PhoneSideTypes' /\ UNCHANGED cliVars
  BY <1>10, <1>b DEF SamplerCheck, PhoneSideTypes
<1>11. ASSUME NEW r \in Requests, SamplerTick(r)
      PROVE  PhoneSideTypes' /\ UNCHANGED cliVars
  <2>1. rxSamples' \in 0..MaxTaken
    BY <1>11, <1>a, <1>b DEF SamplerTick, PhoneSideTypes
  <2> QED  BY <2>1, <1>11, <1>b DEF SamplerTick, PhoneSideTypes
<1>12. ASSUME NEW r \in Requests, StopSampler(r)
      PROVE  PhoneSideTypes' /\ UNCHANGED cliVars
  BY <1>12, <1>b DEF StopSampler, PhoneSideTypes
<1>13. ASSUME NEW r \in Requests, NEW installed \in BOOLEAN, StartSampler(r, installed)
      PROVE  PhoneSideTypes' /\ UNCHANGED cliVars
  BY <1>13, <1>b DEF StartSampler, PhoneSideTypes
<1>14. CASE UNCHANGED benchmarkVars
  BY <1>14, <1>c, <1>d, <1>e DEF benchmarkVars, phoneVars, cliVars
<1> QED  BY <1>c, <1>d, <1>e, <1>1, <1>2, <1>3, <1>4, <1>5, <1>6, <1>7, <1>8, <1>10,
            <1>11, <1>12, <1>13, <1>14 DEF BenchmarkNext

LEMMA SwitchesKept ==
    ASSUME BenchmarkTypeOK, SwitchesHaveOwners, [BenchmarkNext]_benchmarkVars
    PROVE  SwitchesHaveOwners'
<1>t. /\ bench \in [Transfers -> {"idle", "running", "aborting", "joining", "fetching",
                                  "reported"}]
      /\ req \in [Requests -> {"none", "cleared", "serving", "stopped", "over"}]
      /\ adaptive \in Transfers \cup {NoTransfer} /\ perf \in Requests \cup {NoRequest}
  BY DEF BenchmarkTypeOK
<1>1. ASSUME NEW t \in Transfers, BenchStart(t)
      PROVE  SwitchesHaveOwners'
  BY <1>1, <1>t DEF BenchStart, phoneVars, SwitchesHaveOwners
<1>2. ASSUME NEW t \in Transfers, Abort(t)
      PROVE  SwitchesHaveOwners'
  BY <1>2, <1>t DEF Abort, phoneVars, SwitchesHaveOwners
<1>3. ASSUME NEW t \in Transfers, Deregister(t)
      PROVE  SwitchesHaveOwners'
  BY <1>3, <1>t DEF Deregister, phoneVars, SwitchesHaveOwners
<1>4. ASSUME NEW t \in Transfers, CollectorCheck(t) \/ CollectorTick(t)
      PROVE  SwitchesHaveOwners'
  BY <1>4, <1>t DEF CollectorCheck, CollectorTick, phoneVars, SwitchesHaveOwners
<1>5. ASSUME NEW t \in Transfers, Join(t) \/ Fetch(t) \/ FetchFails(t)
      PROVE  SwitchesHaveOwners'
  <2>1. /\ bench[t] \notin {"running", "aborting"}
        /\ \A u \in Transfers : u # t => bench'[u] = bench[u]
        /\ adaptive' = adaptive /\ profiling' = profiling /\ req' = req
        /\ flag' = flag /\ perf' = perf
    BY <1>5, <1>t DEF Join, Fetch, FetchFails, phoneVars
  <2> QED  BY <2>1, <1>t DEF SwitchesHaveOwners
<1>6. ASSUME NEW r \in Requests, StartClear(r) \/ StopPerf(r)
      PROVE  SwitchesHaveOwners'
  <2>1. /\ req[r] # "serving" /\ \A q \in Requests : q # r => req'[q] = req[q]
        /\ perf' = NoRequest \/ (perf' = perf /\ req[r] # "stopped")
        /\ flag' = flag /\ adaptive' = adaptive /\ profiling' = profiling /\ bench' = bench
    BY <1>6, <1>t DEF StartClear, StopPerf, cliVars
  <2> QED  BY <2>1, <1>t DEF SwitchesHaveOwners
<1>7. ASSUME NEW r \in Requests, SamplerCheck(r) \/ SamplerTick(r)
      PROVE  SwitchesHaveOwners'
  BY <1>7, <1>t DEF SamplerCheck, SamplerTick, cliVars, SwitchesHaveOwners
<1>8. ASSUME NEW r \in Requests, StopSampler(r)
      PROVE  SwitchesHaveOwners'
  BY <1>8, <1>t DEF StopSampler, cliVars, SwitchesHaveOwners
<1>9. ASSUME NEW r \in Requests, NEW installed \in BOOLEAN, StartSampler(r, installed)
      PROVE  SwitchesHaveOwners'
  BY <1>9, <1>t DEF StartSampler, cliVars, SwitchesHaveOwners
<1>10. CASE UNCHANGED benchmarkVars
  BY <1>10 DEF benchmarkVars, SwitchesHaveOwners
<1> QED  BY <1>1, <1>2, <1>3, <1>4, <1>5, <1>6, <1>7, <1>8, <1>9, <1>10 DEF BenchmarkNext

LEMMA JoinedKept ==
    ASSUME BenchmarkTypeOK, JoinedHasAll, [BenchmarkNext]_benchmarkVars
    PROVE  JoinedHasAll'
<1>t. /\ bench \in [Transfers -> {"idle", "running", "aborting", "joining", "fetching",
                                  "reported"}]
      /\ collector \in [Transfers -> {"none", "check", "tick", "ended"}]
      /\ taken \in [Transfers -> 0..MaxTaken]
      /\ feedback \in [Transfers -> {"none", "on", "aborted", "ended"}]
      /\ report \in [Transfers -> [samples : 0..MaxTaken, fetched : BOOLEAN,
                                   after : Requests \cup {NoRequest}]]
  BY DEF BenchmarkTypeOK
<1>1. ASSUME NEW t \in Transfers, BenchStart(t) \/ Abort(t) \/ Deregister(t)
      PROVE  JoinedHasAll'
  <2>1. /\ bench'[t] \notin {"fetching", "reported"}
        /\ bench'[t] = "joining" => feedback'[t] = "ended"
        /\ \A u \in Transfers : u # t => /\ bench'[u] = bench[u] /\ collector'[u] = collector[u]
                                        /\ feedback'[u] = feedback[u]
        /\ report' = report /\ taken' = taken
    BY <1>1, <1>t DEF BenchStart, Abort, Deregister
  <2> QED  BY <2>1 DEF JoinedHasAll
<1>2. ASSUME NEW t \in Transfers, CollectorCheck(t) \/ CollectorTick(t)
      PROVE  JoinedHasAll'
  <2>1. /\ collector[t] # "ended" /\ bench' = bench /\ report' = report /\ feedback' = feedback
        /\ \A u \in Transfers : u # t => taken'[u] = taken[u] /\ collector'[u] = collector[u]
    BY <1>2, <1>t DEF CollectorCheck, CollectorTick
  <2> QED  BY <2>1 DEF JoinedHasAll
<1>3. ASSUME NEW t \in Transfers, Join(t)
      PROVE  JoinedHasAll'
  <2>1. /\ bench[t] = "joining" /\ collector[t] = "ended" /\ bench'[t] = "fetching"
        /\ report'[t].samples = taken[t] /\ feedback' = feedback
        /\ \A u \in Transfers : u # t => bench'[u] = bench[u] /\ report'[u] = report[u]
        /\ collector' = collector /\ taken' = taken
    BY <1>3, <1>t DEF Join
  <2> QED  BY <2>1 DEF JoinedHasAll
<1>4. ASSUME NEW t \in Transfers, Fetch(t) \/ FetchFails(t)
      PROVE  JoinedHasAll'
  <2>0. report'[t].samples = report[t].samples
    <3>1. report[t] \in [samples : 0..MaxTaken, fetched : BOOLEAN,
                         after : Requests \cup {NoRequest}]
      BY <1>t
    <3>2. [report[t] EXCEPT !.fetched = TRUE, !.after = after].samples = report[t].samples
      BY <3>1
    <3>3. CASE Fetch(t)
      BY <3>2, <3>3, <1>t DEF Fetch
    <3>4. CASE FetchFails(t)
      BY <3>4 DEF FetchFails
    <3> QED  BY <3>3, <3>4, <1>4
  <2>1. /\ bench[t] = "fetching" /\ bench'[t] = "reported"
        /\ report'[t].samples = report[t].samples /\ feedback' = feedback
        /\ \A u \in Transfers : u # t => bench'[u] = bench[u] /\ report'[u] = report[u]
        /\ collector' = collector /\ taken' = taken
    BY <2>0, <1>4, <1>t DEF Fetch, FetchFails
  <2> QED  BY <2>1 DEF JoinedHasAll
<1>5. ASSUME NEW r \in Requests,
             \/ StartClear(r) \/ SamplerCheck(r) \/ SamplerTick(r) \/ StopSampler(r)
             \/ StopPerf(r)
             \/ \E installed \in BOOLEAN : StartSampler(r, installed)
      PROVE  UNCHANGED <<bench, collector, taken, feedback, report>>
  BY <1>5 DEF StartClear, SamplerCheck, SamplerTick, StopSampler, StopPerf,
              StartSampler, cliVars
<1>6. ASSUME UNCHANGED <<bench, collector, taken, feedback, report>>
      PROVE  JoinedHasAll'
  BY <1>6 DEF JoinedHasAll
<1>7. CASE UNCHANGED benchmarkVars
  BY <1>7, <1>6 DEF benchmarkVars
<1> QED  BY <1>1, <1>2, <1>3, <1>4, <1>5, <1>6, <1>7 DEF BenchmarkNext

LEMMA BenchmarkInvHolds == BenchmarkSpec => []BenchmarkInv
<1>1. BenchmarkInit => BenchmarkInv
  <2> SUFFICES ASSUME BenchmarkInit PROVE BenchmarkInv
    OBVIOUS
  <2>1. BenchmarkTypeOK
    <3>1. MaxTaken \in Nat /\ 0 \in 0..MaxTaken
      BY OwnerAssumption
    <3>2. NoReport \in [samples : 0..MaxTaken, fetched : BOOLEAN,
                        after : Requests \cup {NoRequest}]
      BY <3>1 DEF NoReport
    <3>3. CliSideTypes
      BY <3>1, <3>2 DEF BenchmarkInit, CliSideTypes
    <3>4. PhoneSideTypes
      BY <3>1 DEF BenchmarkInit, PhoneSideTypes
    <3> QED  BY <3>3, <3>4 DEF BenchmarkTypeOK, CliSideTypes, PhoneSideTypes
  <2>2. SwitchesHaveOwners /\ JoinedHasAll
    BY DEF BenchmarkInit, SwitchesHaveOwners, JoinedHasAll, NoReport
  <2> QED  BY <2>1, <2>2 DEF BenchmarkInv
<1>2. ASSUME BenchmarkInv, [BenchmarkNext]_benchmarkVars
      PROVE  BenchmarkInv'
  <2>1. BenchmarkTypeOK' /\ SwitchesHaveOwners' /\ JoinedHasAll'
    BY <1>2, BenchmarkTypesKept, SwitchesKept, JoinedKept DEF BenchmarkInv
  <2> QED  BY <2>1 DEF BenchmarkInv
<1> QED  BY <1>1, <1>2, PTL DEF BenchmarkSpec

(* SwitchesHaveOwners for any number of overlapping transfers and requests: *)
(* nothing that BenchmarkSession::start or start_sampler switches on stays  *)
(* on once nobody is left to switch it off.                                 *)
THEOREM SwitchesHaveOwnersHolds == BenchmarkSpec => []SwitchesHaveOwners
<1>1. BenchmarkInv => SwitchesHaveOwners
  BY DEF BenchmarkInv
<1> QED  BY <1>1, BenchmarkInvHolds, PTL

(* ReportIsComplete for any number of them: BenchmarkSession::stop writes a *)
(* report only when its collector and its feedback loop have ended, with    *)
(* every sample the collector took.                                         *)
THEOREM ReportIsCompleteHolds == BenchmarkSpec => []ReportIsComplete
<1>1. BenchmarkInv => ReportIsComplete
  <2> SUFFICES ASSUME BenchmarkInv, NEW t \in Transfers, bench[t] = "reported"
               PROVE  /\ collector[t] = "ended" /\ feedback[t] = "ended" /\ adaptive # t
                      /\ report[t].samples = taken[t]
    BY DEF ReportIsComplete
  <2>1. adaptive # t
    BY OwnerAssumption DEF BenchmarkInv, SwitchesHaveOwners
  <2> QED  BY <2>1 DEF BenchmarkInv, JoinedHasAll
<1> QED  BY <1>1, BenchmarkInvHolds, PTL

-----------------------------------------------------------------------------
(* The tuning of an upload. *)

(* The configurations an upload can work with, and the tuner's states.     *)
ChunkRange == {n \in Nat : Within(n, 16 * KB, 2048 * KB)}
StreamRange == {n \in Nat : Within(n, 1, 8)}
BufferRange == {n \in Nat : Within(n, 256, 8192)}
BatchRange == {n \in Nat : Within(n, 4, 16)}
WorkerRange == {n \in Nat : Within(n, CpuCount, 3 * CpuCount)}
LimitRange == {n \in Nat : n # Unlimited => Within(n, 5000, 60000)}

CfgRange ==
    [chunk : ChunkRange, streams : StreamRange, send_kb : BufferRange,
     recv_kb : BufferRange, batch : BatchRange, workers : WorkerRange,
     limit : LimitRange, mode : Modes]

Tuners(n) ==
    [chunkUp : BOOLEAN, streamUp : BOOLEAN, bufferUp : BOOLEAN, stale : 0..n,
     probing : BOOLEAN]

(* A configuration that is in force or kept for a revert has the user's    *)
(* transport, when there is one; and a plan is applied before the last     *)
(* cycle is counted.                                                       *)
TuningInv ==
    /\ phase \in {"top", "measuring", "stopped"}
    /\ large \in BOOLEAN /\ override \in Modes \cup {NoOverride}
    /\ cfg \in CfgRange /\ prevCfg \in CfgRange
    /\ override # NoOverride => cfg.mode = override /\ prevCfg.mode = override
    /\ prevTp \in Throughputs /\ tuner \in Tuners(8)
    /\ cycle \in 0..MaxCycles /\ (phase = "measuring" => cycle < MaxCycles)

(* A field of a configuration may take any value of its range.             *)
LEMMA CfgFields ==
    ASSUME NEW c \in CfgRange
    PROVE  /\ c.chunk \in ChunkRange /\ c.streams \in StreamRange
           /\ c.send_kb \in BufferRange /\ c.recv_kb \in BufferRange
           /\ c.batch \in BatchRange /\ c.workers \in WorkerRange
           /\ c.limit \in LimitRange /\ c.mode \in Modes
BY DEF CfgRange

(* The arithmetic of the plans, on one number at a time.                   *)
LEMMA PlanArithmetic ==
    /\ \A n \in ChunkRange : Up(n, Down(n * 2, 2048 * KB)) \in ChunkRange
    /\ \A n \in ChunkRange : /\ Down(n, Up(n \div 2, 64 * KB)) \in ChunkRange
                             /\ Down(n, Up(n \div 2, 128 * KB)) \in ChunkRange
    /\ \A n \in StreamRange : /\ Down(n, 1) \in StreamRange
                              /\ Up(n, Down(n + 2, 6)) \in StreamRange
                              /\ Down(n, Up(n - 1, 1)) \in StreamRange
    /\ \A n, m \in BufferRange : /\ Up(n, 4096) \in BufferRange
                                 /\ (IF n < 4096 THEN 4096 ELSE m) \in BufferRange
    /\ \A n \in BatchRange : Down(n + 4, 16) \in BatchRange
    /\ \A n \in WorkerRange : Up(n, Down(n + 2, CpuCount * 3)) \in WorkerRange
    /\ \A n \in LimitRange :
          Up(((IF n = Unlimited THEN 100000 ELSE n) * 6) \div 10, 5000) \in LimitRange
<1>k. KB \in Nat /\ KB > 0
  BY DEF KB
<1>1. \A n \in ChunkRange : Up(n, Down(n * 2, 2048 * KB)) \in ChunkRange
  BY <1>k, SMT DEF Up, Down, ChunkRange, Within
<1>2. \A n \in ChunkRange : /\ Down(n, Up(n \div 2, 64 * KB)) \in ChunkRange
                           /\ Down(n, Up(n \div 2, 128 * KB)) \in ChunkRange
  BY <1>k, SMT DEF Up, Down, ChunkRange, Within
<1>3. \A n \in StreamRange : /\ Down(n, 1) \in StreamRange
                            /\ Up(n, Down(n + 2, 6)) \in StreamRange
                            /\ Down(n, Up(n - 1, 1)) \in StreamRange
  BY SMT DEF Up, Down, StreamRange, Within
<1>4. \A n, m \in BufferRange : /\ Up(n, 4096) \in BufferRange
                               /\ (IF n < 4096 THEN 4096 ELSE m) \in BufferRange
  BY SMT DEF Up, BufferRange, Within
<1>5. \A n \in BatchRange : Down(n + 4, 16) \in BatchRange
  BY SMT DEF Down, BatchRange, Within
<1>6. \A n \in WorkerRange : Up(n, Down(n + 2, CpuCount * 3)) \in WorkerRange
  <2>1. CpuCount \in Nat
    BY TuningAssumption
  <2> QED  BY <2>1, SMT DEF Up, Down, WorkerRange, Within
<1>7. \A n \in LimitRange :
         Up(((IF n = Unlimited THEN 100000 ELSE n) * 6) \div 10, 5000) \in LimitRange
  <2> SUFFICES ASSUME NEW n \in LimitRange
               PROVE  Up(((IF n = Unlimited THEN 100000 ELSE n) * 6) \div 10, 5000)
                         \in LimitRange
    OBVIOUS
  <2> DEFINE now == IF n = Unlimited THEN 100000 ELSE n
  <2>1. now \in Nat /\ Within(now, 5000, 100000)
    BY SMT DEF LimitRange, Within, Unlimited
  <2> HIDE DEF now
  <2>2. (now * 6) \div 10 \in Nat /\ (now * 6) \div 10 <= 60000
    BY <2>1, SMT DEF Within
  <2>3. Up((now * 6) \div 10, 5000) \in LimitRange
    BY <2>2, SMT DEF Up, LimitRange, Within
  <2> QED  BY <2>3 DEF now
<1> QED  BY <1>1, <1>2, <1>3, <1>4, <1>5, <1>6, <1>7

(* Every plan stays in the range of configurations.                        *)
LEMMA PlansInRange ==
    ASSUME NEW c \in CfgRange
    PROVE  /\ plan_network(c) \in CfgRange /\ plan_cpu(c) \in CfgRange
           /\ plan_disk(c) \in CfgRange /\ plan_memory(c) \in CfgRange
           /\ plan_scheduler(c) \in CfgRange /\ plan_thermal(c) \in CfgRange
           /\ plan_kernel_copy(c) \in CfgRange
<1>1. Doubled(c) \in CfgRange
  <2> DEFINE x == Up(c.chunk, Down(c.chunk * 2, 2048 * KB))
  <2>1. x \in ChunkRange
    BY CfgFields, PlanArithmetic
  <2>2. Doubled(c) = [c EXCEPT !.chunk = x]
    BY DEF Doubled
  <2> HIDE DEF x
  <2> QED  BY <2>1, <2>2 DEF CfgRange
<1>2. ASSUME NEW floor \in {64 * KB, 128 * KB}
      PROVE  Halved(c, floor) \in CfgRange
  <2> DEFINE x == Down(c.chunk, Up(c.chunk \div 2, floor))
  <2>1. x \in ChunkRange
    BY CfgFields, PlanArithmetic, <1>2
  <2>2. Halved(c, floor) = [c EXCEPT !.chunk = x]
    BY DEF Halved
  <2> HIDE DEF x
  <2> QED  BY <2>1, <2>2 DEF CfgRange
<1>3. ASSUME NEW d \in CfgRange
      PROVE  OneStream(d) \in CfgRange
  <2> DEFINE x == Down(d.streams, 1)
  <2>1. x \in StreamRange
    BY CfgFields, PlanArithmetic
  <2>2. OneStream(d) = [d EXCEPT !.streams = x]
    BY DEF OneStream
  <2> HIDE DEF x
  <2> QED  BY <2>1, <2>2 DEF CfgRange
<1>4. plan_network(c) \in CfgRange
  <2> DEFINE d == Doubled(c)
             x == Up(d.streams, Down(d.streams + 2, 6))
             y == IF c.send_kb < 4096 THEN 4096 ELSE d.recv_kb
             z == Up(d.send_kb, 4096)
  <2>1. d \in CfgRange
    BY <1>1
  <2>2. plan_network(c) = [d EXCEPT !.streams = x, !.recv_kb = y, !.send_kb = z]
    BY DEF plan_network
  <2> HIDE DEF d
  <2>3. x \in StreamRange /\ y \in BufferRange /\ z \in BufferRange
    BY <2>1, CfgFields, PlanArithmetic
  <2> HIDE DEF x, y, z
  <2> QED  BY <2>1, <2>2, <2>3 DEF CfgRange
<1>5. plan_cpu(c) \in CfgRange
  <2> DEFINE d == Halved(c, 128 * KB)
             x == Down(d.batch + 4, 16)
             y == Down(d.streams, Up(d.streams - 1, 1))
  <2>1. d \in CfgRange
    BY <1>2
  <2>2. plan_cpu(c) = [d EXCEPT !.batch = x, !.streams = y]
    BY DEF plan_cpu
  <2> HIDE DEF d
  <2>3. x \in BatchRange /\ y \in StreamRange
    BY <2>1, CfgFields, PlanArithmetic
  <2> HIDE DEF x, y
  <2> QED  BY <2>1, <2>2, <2>3 DEF CfgRange
<1>6. plan_disk(c) \in CfgRange /\ plan_memory(c) \in CfgRange
  <2> DEFINE d == OneStream(Halved(c, 64 * KB))
  <2>1. d \in CfgRange
    BY <1>2, <1>3
  <2>2. plan_memory(c) \in CfgRange
    BY <1>2, <1>3 DEF plan_memory
  <2>3. plan_disk(c) = [d EXCEPT !.limit = 20000]
    BY DEF plan_disk
  <2> HIDE DEF d
  <2>4. 20000 \in LimitRange
    BY SMT DEF LimitRange, Within
  <2>5. \A x \in LimitRange : [d EXCEPT !.limit = x] \in CfgRange
    BY <2>1 DEF CfgRange
  <2> QED  BY <2>2, <2>3, <2>4, <2>5
<1>7. plan_scheduler(c) \in CfgRange
  <2> DEFINE d == Doubled(c)
             x == Up(d.workers, Down(d.workers + 2, CpuCount * 3))
  <2>1. d \in CfgRange
    BY <1>1
  <2>2. plan_scheduler(c) = [d EXCEPT !.workers = x]
    BY DEF plan_scheduler
  <2> HIDE DEF d
  <2>3. x \in WorkerRange
    BY <2>1, CfgFields, PlanArithmetic
  <2> HIDE DEF x
  <2> QED  BY <2>1, <2>2, <2>3 DEF CfgRange
<1>8. plan_thermal(c) \in CfgRange
  <2> DEFINE d == OneStream(Doubled(c))
             x == Up(((IF d.limit = Unlimited THEN 100000 ELSE d.limit) * 6) \div 10, 5000)
  <2>1. d \in CfgRange
    BY <1>1, <1>3
  <2>2. plan_thermal(c) = [d EXCEPT !.limit = x]
    BY DEF plan_thermal
  <2> HIDE DEF d
  <2>3. x \in LimitRange
    BY <2>1, CfgFields, PlanArithmetic
  <2> HIDE DEF x
  <2> QED  BY <2>1, <2>2, <2>3 DEF CfgRange
<1>9. plan_kernel_copy(c) \in CfgRange
  <2> DEFINE d == Doubled(c)
  <2>1. d \in CfgRange
    BY <1>1
  <2>2. plan_kernel_copy(c) = [d EXCEPT !.mode = "TcpZeroCopy"]
    BY DEF plan_kernel_copy
  <2> HIDE DEF d
  <2> QED  BY <2>1, <2>2 DEF CfgRange, Modes
<1> QED  BY <1>4, <1>5, <1>6, <1>7, <1>8, <1>9

LEMMA PlannedInRange ==
    ASSUME NEW c \in CfgRange, NEW r \in Reports
    PROVE  Planned(r, c) \in CfgRange
<1>1. r.bottleneck \in Categories \cup {"Healthy"}
  <2>1. PICK w \in Categories, s \in {p \in ScoreLevels \X ScoreLevels : p[2] <= p[1]} :
           r = Report(w, s[1], s[2])
    BY DEF Reports
  <2>2. r.bottleneck = IF s[1] < 8 THEN "Healthy" ELSE w
    BY <2>1 DEF Report
  <2> QED  BY <2>2
<1>2. CASE r.confidence < 15 \/ r.bottleneck = "Healthy"
  BY <1>2 DEF Planned
<1>3. ASSUME ~(r.confidence < 15 \/ r.bottleneck = "Healthy")
      PROVE  \/ Planned(r, c) = plan_network(c) \/ Planned(r, c) = plan_cpu(c)
             \/ Planned(r, c) = plan_disk(c) \/ Planned(r, c) = plan_memory(c)
             \/ Planned(r, c) = plan_scheduler(c) \/ Planned(r, c) = plan_thermal(c)
             \/ Planned(r, c) = plan_kernel_copy(c)
  <2>1. CASE r.bottleneck = "Network"
    BY <1>3, <2>1 DEF Planned
  <2>2. CASE r.bottleneck = "Cpu"
    BY <1>3, <2>2 DEF Planned
  <2>3. CASE r.bottleneck = "Disk"
    BY <1>3, <2>3 DEF Planned
  <2>4. CASE r.bottleneck = "Memory"
    BY <1>3, <2>4 DEF Planned
  <2>5. CASE r.bottleneck = "Scheduler"
    BY <1>3, <2>5 DEF Planned
  <2>6. CASE r.bottleneck = "Thermal"
    BY <1>3, <2>6 DEF Planned
  <2>7. CASE r.bottleneck = "KernelCopy"
    BY <1>3, <2>7 DEF Planned
  <2> QED  BY <1>1, <1>3, <2>1, <2>2, <2>3, <2>4, <2>5, <2>6, <2>7 DEF Categories
<1> QED  BY <1>2, <1>3, PlansInRange

LEMMA AppliedInRange ==
    ASSUME TuningInv, NEW r \in Reports, NEW longTrip \in BOOLEAN
    PROVE  /\ Applied(r, longTrip) \in CfgRange
           /\ override # NoOverride => Applied(r, longTrip).mode = override
<1>1. TargetMode(r, longTrip) \in Modes
      /\ (override # NoOverride => TargetMode(r, longTrip) = override)
  BY DEF TuningInv, TargetMode, select_transport, Modes
<1>2. Planned(r, cfg) \in CfgRange
  BY PlannedInRange DEF TuningInv
<1>3. \A c \in CfgRange : \A m \in Modes :
         [c EXCEPT !.mode = m] \in CfgRange /\ [c EXCEPT !.mode = m].mode = m
  BY DEF CfgRange
<1> QED  BY <1>1, <1>2, <1>3 DEF Applied

(* A step of the tuner stays in its own bounds, coming from the planner's. *)
LEMMA StepInRange ==
    ASSUME NEW cur \in Nat, NEW min \in Nat, NEW max \in Nat, NEW top \in Nat,
           NEW by \in Nat, NEW up, Within(cur, min, top), Within(max, min, top)
    PROVE  Step(cur, min, max, by, up) \in Nat /\ Within(Step(cur, min, max, by, up), min, top)
<1>1. Down(cur + by, max) \in Nat /\ Within(Down(cur + by, max), min, top)
  BY SMT DEF Down, Within
<1>2. Up(cur - by, min) \in Nat /\ Within(Up(cur - by, min), min, top)
  BY SMT DEF Up, Within
<1> QED  BY <1>1, <1>2 DEF Step

LEMMA CandidateInRange ==
    ASSUME NEW c \in CfgRange, NEW t \in Tuners(8)
    PROVE  Candidate(t, c) \in CfgRange /\ Candidate(t, c).mode = c.mode
<1>1. CASE t.stale % 3 = 0
  <2> DEFINE x == Step(c.chunk, 16 * KB, 1024 * KB, 128 * KB, t.chunkUp)
  <2>0. KB \in Nat
    BY DEF KB
  <2>1. x \in ChunkRange
    <3> DEFINE low == 16 * KB
               end == 1024 * KB
               high == 2048 * KB
               by == 128 * KB
    <3>1. c.chunk \in Nat /\ Within(c.chunk, low, high)
      BY CfgFields DEF ChunkRange
    <3>2. /\ low \in Nat /\ end \in Nat /\ high \in Nat /\ by \in Nat
          /\ Within(end, low, high)
      BY <2>0, SMT DEF Within
    <3> HIDE DEF low, end, high, by
    <3>3. /\ Step(c.chunk, low, end, by, t.chunkUp) \in Nat
          /\ Within(Step(c.chunk, low, end, by, t.chunkUp), low, high)
      BY <3>1, <3>2, StepInRange
    <3> QED  BY <3>3 DEF ChunkRange, low, end, high, by
  <2>2. Candidate(t, c) = [c EXCEPT !.chunk = x]
    BY <1>1 DEF Candidate
  <2> HIDE DEF x
  <2> QED  BY <2>1, <2>2 DEF CfgRange
<1>2. CASE t.stale % 3 = 1
  <2> DEFINE x == Step(c.streams, 1, 8, 1, t.streamUp)
  <2>1. x \in StreamRange
    <3>1. c.streams \in Nat /\ Within(c.streams, 1, 8)
      BY CfgFields DEF StreamRange
    <3>2. Within(8, 1, 8)
      BY SMT DEF Within
    <3>3. x \in Nat /\ Within(x, 1, 8)
      BY <3>1, <3>2, StepInRange, SMT
    <3> QED  BY <3>3 DEF StreamRange
  <2>2. Candidate(t, c) = [c EXCEPT !.streams = x]
    BY <1>2 DEF Candidate
  <2> HIDE DEF x
  <2> QED  BY <2>1, <2>2 DEF CfgRange
<1>3. CASE t.stale % 3 # 0 /\ t.stale % 3 # 1
  <2> DEFINE x == Step(c.send_kb, 256, 8192, 1024, t.bufferUp)
  <2>1. x \in BufferRange
    <3>1. c.send_kb \in Nat /\ Within(c.send_kb, 256, 8192)
      BY CfgFields DEF BufferRange
    <3>2. Within(8192, 256, 8192)
      BY SMT DEF Within
    <3>3. x \in Nat /\ Within(x, 256, 8192)
      BY <3>1, <3>2, StepInRange, SMT
    <3> QED  BY <3>3 DEF BufferRange
  <2>2. Candidate(t, c) = [c EXCEPT !.send_kb = x, !.recv_kb = x]
    BY <1>3 DEF Candidate
  <2> HIDE DEF x
  <2> QED  BY <2>1, <2>2 DEF CfgRange
<1> QED  BY <1>1, <1>2, <1>3

(* A probe is judged, the tuner restarted after eight stale steps, and the *)
(* directions turned, without leaving the tuner's states.                  *)
LEMMA TunerTypes ==
    ASSUME NEW t \in Tuners(8), NEW improved \in BOOLEAN
    PROVE  Restarted(Judged(t, improved)) \in Tuners(8)
<1>1. \A u \in Tuners(9) : Flip(u) \in Tuners(9)
  <2> SUFFICES ASSUME NEW u \in Tuners(9) PROVE Flip(u) \in Tuners(9)
    OBVIOUS
  <2>1. /\ [u EXCEPT !.chunkUp = ~@] \in Tuners(9)
        /\ [u EXCEPT !.streamUp = ~@] \in Tuners(9)
        /\ [u EXCEPT !.bufferUp = ~@] \in Tuners(9)
    BY DEF Tuners
  <2>2. CASE u.stale % 3 = 0
    BY <2>1, <2>2 DEF Flip
  <2>3. CASE u.stale % 3 = 1
    BY <2>1, <2>3 DEF Flip
  <2>4. CASE u.stale % 3 # 0 /\ u.stale % 3 # 1
    BY <2>1, <2>4 DEF Flip
  <2> QED  BY <2>2, <2>3, <2>4
<1>2. Judged(t, improved) \in Tuners(9)
  <2> DEFINE over == [t EXCEPT !.probing = FALSE]
  <2>0. t \in Tuners(9) /\ t.stale \in 0..8
    BY DEF Tuners
  <2>1. over \in Tuners(8) /\ over.stale = t.stale
    BY DEF Tuners
  <2> HIDE DEF over
  <2>2. [over EXCEPT !.stale = 0] \in Tuners(9)
    BY <2>1 DEF Tuners
  <2>3. [over EXCEPT !.stale = over.stale + 1] \in Tuners(9)
    BY <2>0, <2>1 DEF Tuners
  <2>4. Flip([over EXCEPT !.stale = over.stale + 1]) \in Tuners(9)
    BY <2>3, <1>1
  <2> QED  BY <2>0, <2>2, <2>4 DEF Judged, over
<1>3. \A u \in Tuners(9) : Restarted(u) \in Tuners(8)
  BY DEF Restarted, Tuners
<1> QED  BY <1>2, <1>3

LEMMA MovedTypes ==
    ASSUME NEW t \in Tuners(8), NEW c
    PROVE  /\ Moved(t, c) \in Tuners(8)
           /\ [Moved(t, c) EXCEPT !.probing = TRUE] \in Tuners(8)
<1>1. \A cur, min, max : \A up \in BOOLEAN : Turned(cur, min, max, up) \in BOOLEAN
  BY DEF Turned
<1> DEFINE x == Turned(c.chunk, 16 * KB, 1024 * KB, t.chunkUp)
           y == Turned(c.streams, 1, 8, t.streamUp)
           z == Turned(c.send_kb, 256, 8192, t.bufferUp)
<1>2. x \in BOOLEAN /\ y \in BOOLEAN /\ z \in BOOLEAN
  <2>1. t.chunkUp \in BOOLEAN /\ t.streamUp \in BOOLEAN /\ t.bufferUp \in BOOLEAN
    BY DEF Tuners
  <2> HIDE DEF x, y, z
  <2> QED  BY <1>1, <2>1 DEF x, y, z
<1>3. \/ Moved(t, c) = [t EXCEPT !.chunkUp = x]
      \/ Moved(t, c) = [t EXCEPT !.streamUp = y]
      \/ Moved(t, c) = [t EXCEPT !.bufferUp = z]
  <2>1. CASE t.stale % 3 = 0
    BY <2>1 DEF Moved
  <2>2. CASE t.stale % 3 = 1
    BY <2>2 DEF Moved
  <2>3. CASE t.stale % 3 # 0 /\ t.stale % 3 # 1
    BY <2>3 DEF Moved
  <2> QED  BY <2>1, <2>2, <2>3
<1>4. Moved(t, c) \in Tuners(8)
  <2> HIDE DEF x, y, z
  <2>1. /\ [t EXCEPT !.chunkUp = x] \in Tuners(8) /\ [t EXCEPT !.streamUp = y] \in Tuners(8)
        /\ [t EXCEPT !.bufferUp = z] \in Tuners(8)
    BY <1>2 DEF Tuners
  <2> QED  BY <2>1, <1>3
<1>5. \A u \in Tuners(8) : [u EXCEPT !.probing = TRUE] \in Tuners(8)
  BY DEF Tuners
<1> QED  BY <1>4, <1>5

LEMMA TunedInRange ==
    ASSUME TuningInv, NEW c \in CfgRange, NEW improved \in BOOLEAN
    PROVE  /\ Tuned(c, improved).cfg \in CfgRange /\ Tuned(c, improved).cfg.mode = c.mode
           /\ Tuned(c, improved).tuner \in Tuners(8)
<1> DEFINE t == Restarted(Judged(tuner, improved))
<1>1. t \in Tuners(8) /\ tuner \in Tuners(8)
  BY TunerTypes DEF TuningInv
<1> HIDE DEF t
<1>2. Candidate(t, c) \in CfgRange /\ Candidate(t, c).mode = c.mode
  BY <1>1, CandidateInRange
<1>3. Moved(t, c) \in Tuners(8) /\ [Moved(t, c) EXCEPT !.probing = TRUE] \in Tuners(8)
  BY <1>1, MovedTypes
<1>4. \/ Tuned(c, improved) = [cfg |-> c, tuner |-> tuner]
      \/ Tuned(c, improved) = [cfg |-> c, tuner |-> Moved(t, c)]
      \/ Tuned(c, improved) = [cfg |-> Candidate(t, c),
                               tuner |-> [Moved(t, c) EXCEPT !.probing = TRUE]]
  BY DEF Tuned, t
<1>5. CASE Tuned(c, improved) = [cfg |-> c, tuner |-> tuner]
  BY <1>1, <1>5
<1>6. CASE Tuned(c, improved) = [cfg |-> c, tuner |-> Moved(t, c)]
  BY <1>3, <1>6
<1>7. CASE Tuned(c, improved) = [cfg |-> Candidate(t, c),
                                 tuner |-> [Moved(t, c) EXCEPT !.probing = TRUE]]
  <2> DEFINE u == [Moved(t, c) EXCEPT !.probing = TRUE]
  <2>1. u \in Tuners(8) /\ Tuned(c, improved) = [cfg |-> Candidate(t, c), tuner |-> u]
    BY <1>3, <1>7
  <2> HIDE DEF u
  <2> QED  BY <1>2, <2>1
<1> QED  BY <1>4, <1>5, <1>6, <1>7

LEMMA TuningStep ==
    ASSUME TuningInv, [TuningNext]_tuningVars
    PROVE  TuningInv'
<1>a. MaxCycles \in Nat /\ Throughputs \subseteq Nat
  BY TuningAssumption
<1>t. /\ cfg \in CfgRange /\ prevCfg \in CfgRange /\ cycle \in 0..MaxCycles
      /\ (override # NoOverride => cfg.mode = override /\ prevCfg.mode = override)
      /\ phase = "measuring" => cycle < MaxCycles
  BY DEF TuningInv
<1>0. ASSUME NEW c \in CfgRange, override # NoOverride => c.mode = override,
             NEW tp \in Throughputs, NEW current \in Throughputs, NEW improved \in BOOLEAN,
             EndCycle(c, tp, current, improved), cycle < MaxCycles,
             UNCHANGED <<large, override>>, prevCfg' \in CfgRange,
             override # NoOverride => prevCfg'.mode = override
      PROVE  TuningInv'
  <2>1. /\ cfg' \in CfgRange /\ (override # NoOverride => cfg'.mode = override)
        /\ tuner' \in Tuners(8)
    BY <1>0, TunedInRange DEF EndCycle
  <2>2. cycle' \in 0..MaxCycles /\ phase' = "top" /\ prevTp' \in Throughputs
    BY <1>0, <1>a, <1>t DEF EndCycle
  <2> QED  BY <1>0, <2>1, <2>2 DEF TuningInv
<1>1. ASSUME NEW r \in Reports, NEW longTrip \in BOOLEAN, Apply(r, longTrip)
      PROVE  TuningInv'
  BY <1>1, <1>t, AppliedInRange DEF Apply, TuningInv
<1>2. ASSUME NEW r \in Reports, NEW longTrip \in BOOLEAN, NEW current \in Throughputs,
             NEW improved \in BOOLEAN, NoAction(r, longTrip, current, improved)
      PROVE  TuningInv'
  <2>1. /\ cycle < MaxCycles /\ EndCycle(cfg, prevTp, current, improved)
        /\ UNCHANGED <<large, override, prevCfg>>
    BY <1>2 DEF NoAction
  <2>2. prevTp \in Throughputs
    BY DEF TuningInv
  <2> QED  BY <2>1, <2>2, <1>t, <1>0
<1>3. ASSUME NEW tp \in Throughputs, NEW current \in Throughputs, NEW improved \in BOOLEAN,
             Measure(tp, current, improved)
      PROVE  TuningInv'
  <2> DEFINE kept == IF tp < prevTp THEN prevCfg ELSE cfg
  <2>1. /\ phase = "measuring" /\ prevCfg' = kept
        /\ EndCycle(kept, tp, current, improved) /\ UNCHANGED <<large, override>>
    BY <1>3 DEF Measure
  <2>2. kept \in CfgRange /\ (override # NoOverride => kept.mode = override)
    BY <1>t
  <2> HIDE DEF kept
  <2> QED  BY <2>1, <2>2, <1>t, <1>0
<1>4. CASE AbortLoop
  BY <1>4 DEF AbortLoop, TuningInv
<1>5. CASE UNCHANGED tuningVars
  BY <1>5 DEF tuningVars, TuningInv
<1> QED  BY <1>1, <1>2, <1>3, <1>4, <1>5 DEF TuningNext

LEMMA TuningInvHolds == TuningSpec => []TuningInv
<1>1. TuningInit => TuningInv
  <2> SUFFICES ASSUME TuningInit PROVE TuningInv
    OBVIOUS
  <2>1. override \in Modes \cup {NoOverride} /\ MaxCycles \in Nat /\ 0 \in Throughputs
    BY TuningAssumption DEF TuningInit
  <2>2. DefaultCfg \in CfgRange
    <3>1. CpuCount \in WorkerRange
      BY TuningAssumption, SMT DEF WorkerRange, Within
    <3>2. /\ 1024 * KB \in ChunkRange /\ 1 \in StreamRange /\ 4096 \in BufferRange
          /\ 4 \in BatchRange /\ Unlimited \in LimitRange /\ "TcpBuffered" \in Modes
      <4>1. KB \in Nat
        BY DEF KB
      <4>2. 1024 * KB \in ChunkRange
        BY <4>1, SMT DEF ChunkRange, Within
      <4> QED  BY <4>2, SMT DEF StreamRange, BufferRange, BatchRange, LimitRange, Modes,
                                Within, Unlimited
    <3> QED  BY <3>1, <3>2 DEF DefaultCfg, CfgRange
  <2>3. \A m \in Modes :
           [DefaultCfg EXCEPT !.mode = m] \in CfgRange /\ [DefaultCfg EXCEPT !.mode = m].mode = m
    BY <2>2 DEF CfgRange
  <2>4. cfg \in CfgRange /\ prevCfg = cfg /\ (override # NoOverride => cfg.mode = override)
    <3>1. CASE override = NoOverride
      <4>1. DefaultCfg.mode \in Modes
        BY DEF DefaultCfg, Modes
      <4> QED  BY <3>1, <4>1, <2>3 DEF TuningInit
    <3>2. CASE override # NoOverride
      BY <3>2, <2>1, <2>3 DEF TuningInit
    <3> QED  BY <3>1, <3>2
  <2>5. tuner \in Tuners(8)
    BY DEF TuningInit, NewTuner, Tuners
  <2> QED  BY <2>1, <2>4, <2>5 DEF TuningInit, TuningInv
<1> QED  BY <1>1, TuningStep, PTL DEF TuningSpec

(* As long as no plan has raised the chunk size it is at most the tuner's   *)
(* end, 1 MB: a probe stays below it, a revert goes back below it.          *)
SmallUntilGrown ==
    /\ grown \in BOOLEAN
    /\ ~grown => cfg.chunk <= 1024 * KB /\ prevCfg.chunk <= 1024 * KB

LEMMA TunedStaysSmall ==
    ASSUME NEW c \in CfgRange, c.chunk <= 1024 * KB, NEW improved
    PROVE  Tuned(c, improved).cfg.chunk <= 1024 * KB
<1> DEFINE t == Restarted(Judged(tuner, improved))
           low == 16 * KB
           end == 1024 * KB
           by == 128 * KB
           x == Step(c.chunk, low, end, by, t.chunkUp)
           y == Step(c.streams, 1, 8, 1, t.streamUp)
           z == Step(c.send_kb, 256, 8192, 1024, t.bufferUp)
<1>1. KB \in Nat
  BY DEF KB
<1>2. low \in Nat /\ end \in Nat /\ by \in Nat /\ Within(end, low, end)
  BY <1>1 DEF Within
<1>3. c.chunk \in Nat /\ Within(c.chunk, low, end)
  BY CfgFields DEF ChunkRange, Within
<1> HIDE DEF t, low, end, by
<1>4. x <= end
  <2>1. Within(x, low, end)
    BY <1>2, <1>3, StepInRange
  <2> QED  BY <2>1 DEF Within
<1>5. \/ Candidate(t, c) = [c EXCEPT !.chunk = x] \/ Candidate(t, c) = [c EXCEPT !.streams = y]
      \/ Candidate(t, c) = [c EXCEPT !.send_kb = z, !.recv_kb = z]
  <2>1. CASE t.stale % 3 = 0
    BY <2>1 DEF Candidate, low, end, by
  <2>2. CASE t.stale % 3 = 1
    BY <2>2 DEF Candidate
  <2>3. CASE t.stale % 3 # 0 /\ t.stale % 3 # 1
    BY <2>3 DEF Candidate
  <2> QED  BY <2>1, <2>2, <2>3
<1> HIDE DEF x, y, z
<1>6. Candidate(t, c).chunk \in {x, c.chunk}
  BY <1>5 DEF CfgRange
<1>7. Candidate(t, c).chunk <= end /\ c.chunk <= end
  BY <1>4, <1>6 DEF end
<1>8. Tuned(c, improved).cfg \in {c, Candidate(t, c)}
  BY DEF Tuned, t
<1> QED  BY <1>7, <1>8 DEF end

LEMMA SmallStep ==
    ASSUME TuningInv, SmallUntilGrown, [TuningNext]_tuningVars
    PROVE  SmallUntilGrown'
<1>k. KB \in Nat
  BY DEF KB
<1>t. cfg \in CfgRange /\ prevCfg \in CfgRange
  BY DEF TuningInv
<1>1. ASSUME NEW r \in Reports, NEW longTrip \in BOOLEAN, Apply(r, longTrip)
      PROVE  SmallUntilGrown'
  <2>1. grown' = (grown \/ cfg'.chunk > cfg.chunk) /\ prevCfg' = prevCfg /\ cfg' = Applied(r, longTrip)
    BY <1>1 DEF Apply
  <2>2. grown' \in BOOLEAN
    BY <2>1
  <2>3. cfg'.chunk \in Nat /\ cfg.chunk \in Nat
    BY <1>t, <2>1, AppliedInRange, CfgFields DEF ChunkRange
  <2>4. ASSUME ~grown' PROVE cfg'.chunk <= 1024 * KB /\ prevCfg'.chunk <= 1024 * KB
    <3>1. ~grown /\ ~(cfg'.chunk > cfg.chunk)
      BY <2>1, <2>4
    <3>2. cfg.chunk <= 1024 * KB /\ prevCfg.chunk <= 1024 * KB
      BY <3>1 DEF SmallUntilGrown
    <3> QED  BY <1>k, <2>1, <2>3, <3>1, <3>2
  <2> QED  BY <2>2, <2>4 DEF SmallUntilGrown
<1>2. ASSUME NEW c \in {cfg, prevCfg}, NEW tp, NEW current, NEW improved,
             EndCycle(c, tp, current, improved), prevCfg' \in {c, prevCfg}, UNCHANGED grown
      PROVE  SmallUntilGrown'
  <2>1. cfg' = Tuned(c, improved).cfg
    BY <1>2 DEF EndCycle
  <2>2. ASSUME ~grown PROVE cfg'.chunk <= 1024 * KB /\ prevCfg'.chunk <= 1024 * KB
    <3>1. c.chunk <= 1024 * KB /\ c \in CfgRange /\ prevCfg.chunk <= 1024 * KB
      BY <1>t, <2>2 DEF SmallUntilGrown
    <3> QED  BY <1>2, <2>1, <3>1, TunedStaysSmall
  <2> QED  BY <1>2, <2>2 DEF SmallUntilGrown
<1>3. ASSUME NEW r \in Reports, NEW longTrip \in BOOLEAN, NEW current \in Throughputs,
             NEW improved \in BOOLEAN, NoAction(r, longTrip, current, improved)
      PROVE  SmallUntilGrown'
  BY <1>2, <1>3 DEF NoAction
<1>4. ASSUME NEW tp \in Throughputs, NEW current \in Throughputs, NEW improved \in BOOLEAN,
             Measure(tp, current, improved)
      PROVE  SmallUntilGrown'
  BY <1>2, <1>4 DEF Measure
<1>5. CASE AbortLoop
  BY <1>5 DEF AbortLoop, SmallUntilGrown
<1>6. CASE UNCHANGED tuningVars
  BY <1>6 DEF tuningVars, SmallUntilGrown
<1> QED  BY <1>1, <1>3, <1>4, <1>5, <1>6 DEF TuningNext

LEMMA SmallUntilGrownHolds == TuningSpec => []SmallUntilGrown
<1>1. TuningInit => SmallUntilGrown
  <2> SUFFICES ASSUME TuningInit PROVE SmallUntilGrown
    OBVIOUS
  <2>1. DefaultCfg.chunk = 1024 * KB
    BY DEF DefaultCfg
  <2>2. \A m : [DefaultCfg EXCEPT !.mode = m].chunk = 1024 * KB
    BY DEF DefaultCfg
  <2>3. cfg.chunk = 1024 * KB /\ prevCfg.chunk = 1024 * KB /\ grown = FALSE
    BY <2>2 DEF TuningInit
  <2>4. grown \in BOOLEAN
    BY <2>3, Zenon
  <2>5. 1024 * KB <= 1024 * KB
    BY DEF KB
  <2> QED  BY <2>3, <2>4, <2>5 DEF SmallUntilGrown
<1> QED  BY <1>1, SmallStep, TuningInvHolds, PTL DEF TuningSpec

(* CfgInRange for every number of processors, set of throughputs and        *)
(* scores: no sequence of plans, reverts and probes (FeedbackLoop::run_loop, *)
(* AutoTuner::step) takes an upload out of its range or off the user's      *)
(* transport; the chunk size leaves the range auto_tuner.rs documents only  *)
(* by a plan that doubles it.                                               *)
THEOREM CfgInRangeHolds == TuningSpec => []CfgInRange
<1>1. TuningInv /\ SmallUntilGrown => CfgInRange
  <2> SUFFICES ASSUME TuningInv, SmallUntilGrown PROVE CfgInRange
    OBVIOUS
  <2>1. \A c \in CfgRange :
           /\ Within(c.chunk, 16 * KB, 2048 * KB) /\ Within(c.streams, 1, 8)
           /\ Within(c.send_kb, 256, 8192) /\ Within(c.recv_kb, 256, 8192)
           /\ Within(c.batch, 4, 16) /\ Within(c.workers, CpuCount, 3 * CpuCount)
           /\ c.limit # Unlimited => Within(c.limit, 5000, 60000)
    BY CfgFields DEF ChunkRange, StreamRange, BufferRange, BatchRange, WorkerRange, LimitRange
  <2>2. \A c \in {cfg, prevCfg} : c \in CfgRange
    BY DEF TuningInv
  <2>3. override # NoOverride => cfg.mode = override
    BY DEF TuningInv
  <2>4. \A c \in {cfg, prevCfg} : Within(c.chunk, 16 * KB, IF grown THEN 2048 * KB ELSE 1024 * KB)
    <3>1. CASE grown
      BY <2>1, <2>2, <3>1
    <3>2. CASE ~grown
      BY <2>1, <2>2, <3>2 DEF SmallUntilGrown, Within
    <3> QED  BY <3>1, <3>2
  <2> QED  BY <2>1, <2>2, <2>3, <2>4 DEF CfgInRange
<1> QED  BY <1>1, TuningInvHolds, SmallUntilGrownHolds, PTL

-----------------------------------------------------------------------------
(* The phone's transfers. *)

JobSteps == {"none", "queued", "copy", "http", "answer", "tunnel", "record", "end", "dropped"}
Statuses == {"none", "CONNECTING", "TRANSFERRING", "COMPLETED", "FAILED", "CANCELLED"}
HistoryRecords == [file : Files, status : Statuses, sent : 0..Parts]

JobTypes ==
    /\ step \in [Files -> JobSteps] /\ status \in [Files -> Statuses]
    /\ sent \in [Files -> 0..Parts]

(* One transfer: its copy lives as long as its coroutine works on the      *)
(* content, an ended one is not active unless its cancellation is being    *)
(* recorded, and an upload that is completed, or waits for the answer to   *)
(* its whole body, has handed over every part.                             *)
JobInv(f) ==
    /\ f \in copies => f \in Sends /\ step[f] \in {"copy", "http", "answer", "tunnel"}
    /\ (step[f] = "end" /\ f \in activeTransfers) => f \in cancelling
    /\ f \in Sends => /\ status[f] = "COMPLETED" => step[f] \in {"record", "end"}
                      /\ (status[f] = "COMPLETED" \/ step[f] = "answer") => sent[f] = Parts

(* An offer that is pending is on the screen and was neither started nor   *)
(* declined, and an offer without consent was not started.                 *)
OfferInv ==
    /\ pendingDownloads \subseteq prompts /\ consent \in [Offers -> {"none", "user", "trusted"}]
    /\ \A o \in Offers : /\ o \in pendingDownloads => step[o] = "none" /\ o \notin declined
                         /\ consent[o] = "none" => step[o] = "none"

TransfersInv ==
    /\ JobTypes /\ (\A f \in Files : JobInv(f))
    /\ history \in Seq(HistoryRecords) /\ CompletedUploadWasSent
    /\ OfferInv /\ DownloadHasConsent

(* An upload is launched, of a file or of a text.                          *)
Sending(f) == f \in Sends /\ Launch(f) /\ UNCHANGED <<promptVars, toggles>>

(* What a step of the coroutine of f, or a cancellation of it, does.       *)
JobStep(f) ==
    \/ NoStorage(f) \/ PrepareFails(f) \/ CopyContent(f) \/ downloadFile(f) \/ uploadFile(f)
    \/ httpDownloadWithResume(f) \/ httpUpload(f) \/ HttpThrows(f) \/ DownloadEnds(f)
    \/ DownloadRefused(f) \/ UploadAnswered(f) \/ UploadEmpty(f) \/ TlsFails(f)
    \/ TunnelProgress(f) \/ TunnelEnds(f)

OthersKept(f) ==
    /\ \A g \in Files \ {f} : /\ step'[g] = step[g] /\ status'[g] = status[g]
                              /\ sent'[g] = sent[g] /\ (g \in copies' <=> g \in copies)
                              /\ (g \in activeTransfers' <=> g \in activeTransfers)
                              /\ (g \in cancelling' <=> g \in cancelling)

(* Only Launch starts a transfer; every other step of it finds it started. *)
Advances(f) ==
    /\ JobTypes' /\ JobInv(f)' /\ OthersKept(f)
    /\ step[f] # "none" /\ step'[f] # "none" /\ UNCHANGED promptVars

LEMMA JobStepKeeps ==
    ASSUME JobTypes, NEW f \in Files, JobInv(f), JobStep(f)
    PROVE  Advances(f) /\ UNCHANGED history
<1>t. /\ step \in [Files -> JobSteps] /\ status \in [Files -> Statuses]
      /\ sent \in [Files -> 0..Parts] /\ sent[f] \in 0..Parts /\ Parts \in Nat /\ Parts # 0
      /\ Offers \cap Sends = {}
  BY AndroidAssumption DEF JobTypes
<1>i. /\ f \in copies => f \in Sends /\ step[f] \in {"copy", "http", "answer", "tunnel"}
      /\ (step[f] = "end" /\ f \in activeTransfers) => f \in cancelling
      /\ f \in Sends => /\ status[f] = "COMPLETED" => step[f] \in {"record", "end"}
                        /\ (status[f] = "COMPLETED" \/ step[f] = "answer") => sent[f] = Parts
  BY DEF JobInv
<1> USE DEF JobSteps, Statuses
<1>f. ASSUME Failed(f), step[f] \in {"queued", "copy", "http", "answer"}
      PROVE  Advances(f) /\ UNCHANGED history
  <2>1. /\ step' = [step EXCEPT ![f] = "record"] /\ status' = [status EXCEPT ![f] = "FAILED"]
        /\ copies' = copies \ {f} /\ UNCHANGED <<activeTransfers, sent, cancelling>>
        /\ UNCHANGED promptVars /\ UNCHANGED history
    BY <1>f DEF Failed, Goto
  <2>2. JobTypes'
    BY <2>1, <1>t DEF JobTypes
  <2>3. JobInv(f)'
    BY <2>1, <1>t DEF JobInv
  <2>4. OthersKept(f)
    BY <2>1, <1>t DEF OthersKept
  <2>5. step[f] # "none" /\ step'[f] # "none"
    BY <2>1, <1>f, <1>t
  <2> QED  BY <2>1, <2>2, <2>3, <2>4, <2>5 DEF Advances
<1>1. CASE NoStorage(f) \/ PrepareFails(f) \/ HttpThrows(f)
  BY <1>1, <1>f DEF NoStorage, PrepareFails, HttpThrows
<1>2. CASE CopyContent(f)
  <2>1. /\ f \in Sends /\ step[f] = "queued" /\ step' = [step EXCEPT ![f] = "copy"]
        /\ copies' = copies \cup {f} /\ UNCHANGED <<activeTransfers, status, sent, cancelling>>
        /\ UNCHANGED promptVars /\ UNCHANGED history
    BY <1>2 DEF CopyContent, Goto
  <2>2. JobTypes'
    BY <2>1, <1>t DEF JobTypes
  <2>3. JobInv(f)'
    BY <2>1, <1>t, <1>i DEF JobInv
  <2>4. OthersKept(f)
    BY <2>1, <1>t DEF OthersKept
  <2>5. step'[f] # "none"
    BY <2>1, <1>t
  <2> QED  BY <2>1, <2>2, <2>3, <2>4, <2>5 DEF Advances
<1>3. CASE downloadFile(f) \/ uploadFile(f)
  <2>1. /\ step[f] \in {"queued", "copy"} /\ step' = [step EXCEPT ![f] = "http"]
        /\ status' = [status EXCEPT ![f] = "TRANSFERRING"]
        /\ UNCHANGED <<copies, activeTransfers, sent, cancelling>>
        /\ UNCHANGED promptVars /\ UNCHANGED history
    BY <1>3 DEF downloadFile, uploadFile, Transferring, Goto
  <2>2. JobTypes'
    BY <2>1, <1>t DEF JobTypes
  <2>3. JobInv(f)'
    BY <2>1, <1>t, <1>i DEF JobInv
  <2>4. OthersKept(f)
    BY <2>1, <1>t DEF OthersKept
  <2>5. step'[f] # "none"
    BY <2>1, <1>t
  <2> QED  BY <2>1, <2>2, <2>3, <2>4, <2>5 DEF Advances
<1>4. CASE httpDownloadWithResume(f) \/ httpUpload(f) \/ TunnelProgress(f)
  <2>1. /\ step[f] \in {"http", "tunnel"} /\ sent[f] < Parts
        /\ sent' = [sent EXCEPT ![f] = sent[f] + 1]
        /\ UNCHANGED <<copies, activeTransfers, status, cancelling>>
        /\ UNCHANGED promptVars /\ UNCHANGED history
    BY <1>4 DEF httpDownloadWithResume, httpUpload, MovedFile, TunnelProgress
  <2>2. \/ step' = step
        \/ step' = [step EXCEPT ![f] = "http"] /\ sent[f] + 1 # Parts
        \/ step' = [step EXCEPT ![f] = "answer"] /\ sent[f] + 1 = Parts
    BY <1>4 DEF httpDownloadWithResume, httpUpload, Goto, TunnelProgress
  <2>3. sent[f] + 1 \in 0..Parts
    BY <2>1, <1>t
  <2>4. sent' \in [Files -> 0..Parts] /\ sent'[f] = sent[f] + 1
    BY <2>1, <2>3, <1>t
  <2>5. step' \in [Files -> JobSteps]
        /\ (step'[f] = step[f] \/ step'[f] = "http" \/ (step'[f] = "answer" /\ sent[f] + 1 = Parts))
    BY <2>2, <1>t
  <2>6. JobTypes'
    BY <2>1, <2>4, <2>5, <1>t DEF JobTypes
  <2>7. JobInv(f)'
    <3>1. /\ status'[f] # "COMPLETED" \/ f \notin Sends
          /\ step'[f] \in {"http", "tunnel", "answer"}
          /\ step'[f] = "answer" => sent'[f] = Parts
      BY <2>1, <2>4, <2>5, <1>i
    <3> QED  BY <3>1, <2>1, <1>i DEF JobInv
  <2>8. OthersKept(f)
    BY <2>1, <2>2, <1>t DEF OthersKept
  <2>9. step[f] # "none" /\ step'[f] # "none"
    BY <2>1, <2>5
  <2> QED  BY <2>1, <2>6, <2>7, <2>8, <2>9 DEF Advances
<1>5. CASE DownloadEnds(f) \/ DownloadRefused(f)
  <2>1. /\ f \in Offers /\ step[f] = "http"
        /\ status' \in {status, [status EXCEPT ![f] = "FAILED"], [status EXCEPT ![f] = "COMPLETED"]}
        /\ step' \in {[step EXCEPT ![f] = "record"], [step EXCEPT ![f] = "http"]}
        /\ UNCHANGED <<copies, activeTransfers, sent, cancelling>>
        /\ UNCHANGED promptVars /\ UNCHANGED history
    BY <1>5 DEF DownloadEnds, DownloadRefused, Goto
  <2>2. JobTypes'
    BY <2>1, <1>t DEF JobTypes
  <2>3. JobInv(f)'
    BY <2>1, <1>t, <1>i DEF JobInv
  <2>4. OthersKept(f)
    BY <2>1, <1>t DEF OthersKept
  <2>5. step'[f] # "none"
    BY <2>1, <1>t
  <2> QED  BY <2>1, <2>2, <2>3, <2>4, <2>5 DEF Advances
<1>6. CASE UploadAnswered(f) \/ TunnelEnds(f)
  <2>1. ASSUME step[f] \in {"answer", "tunnel"}, step' = [step EXCEPT ![f] = "record"],
               copies' = copies \ {f},
               \/ status' = [status EXCEPT ![f] = "FAILED"]
               \/ (status' = [status EXCEPT ![f] = "COMPLETED"] /\ sent[f] = Parts),
               UNCHANGED <<activeTransfers, sent, cancelling>>,
               UNCHANGED promptVars, UNCHANGED history
        PROVE  Advances(f) /\ UNCHANGED history
    <3>1. JobTypes'
      BY <2>1, <1>t DEF JobTypes
    <3>2. JobInv(f)'
      BY <2>1, <1>t DEF JobInv
    <3>3. OthersKept(f)
      BY <2>1, <1>t DEF OthersKept
    <3>4. step[f] # "none" /\ step'[f] # "none"
      BY <2>1, <1>t
    <3> QED  BY <2>1, <3>1, <3>2, <3>3, <3>4 DEF Advances
  <2>2. ASSUME step[f] = "answer", step' = [step EXCEPT ![f] = "tunnel"],
               sent' = [sent EXCEPT ![f] = 0],
               UNCHANGED <<copies, activeTransfers, status, cancelling>>,
               UNCHANGED promptVars, UNCHANGED history
        PROVE  Advances(f) /\ UNCHANGED history
    <3>1. JobTypes'
      BY <2>2, <1>t DEF JobTypes
    <3>2. JobInv(f)'
      BY <2>2, <1>t, <1>i DEF JobInv
    <3>3. OthersKept(f)
      BY <2>2, <1>t DEF OthersKept
    <3>4. step[f] # "none" /\ step'[f] # "none"
      BY <2>2, <1>t
    <3> QED  BY <2>2, <3>1, <3>2, <3>3, <3>4 DEF Advances
  <2>3. CASE UploadAnswered(f)
    <3>1. f \in Sends /\ step[f] = "answer" /\ sent[f] = Parts
      BY <2>3, <1>i DEF UploadAnswered
    <3>2. CASE step' = [step EXCEPT ![f] = "record"]
      <4>1. \/ status' = [status EXCEPT ![f] = "COMPLETED"] /\ copies' = copies \ {f}
               /\ UNCHANGED sent
            \/ step' = [step EXCEPT ![f] = "tunnel"]
        BY <2>3 DEF UploadAnswered, Goto
      <4>2. [step EXCEPT ![f] = "tunnel"] # [step EXCEPT ![f] = "record"]
        BY <1>t
      <4>3. UNCHANGED <<activeTransfers, cancelling, history>> /\ UNCHANGED promptVars
        BY <2>3 DEF UploadAnswered
      <4> QED  BY <4>1, <4>2, <4>3, <3>1, <3>2, <2>1
    <3>3. CASE step' # [step EXCEPT ![f] = "record"]
      BY <2>3, <3>1, <3>3, <2>2 DEF UploadAnswered, Goto
    <3> QED  BY <3>2, <3>3
  <2>4. CASE TunnelEnds(f)
    BY <2>4, <2>1 DEF TunnelEnds, TunnelAnswer, Goto
  <2> QED  BY <1>6, <2>3, <2>4
<1>7. CASE UploadEmpty(f) \/ TlsFails(f)
  <2>1. /\ f \in Sends /\ step[f] \in {"http", "answer"} /\ step' = [step EXCEPT ![f] = "tunnel"]
        /\ (sent' = sent \/ sent' = [sent EXCEPT ![f] = 0])
        /\ UNCHANGED <<copies, activeTransfers, status, cancelling>>
        /\ UNCHANGED promptVars /\ UNCHANGED history
    BY <1>7 DEF UploadEmpty, TlsFails, Goto
  <2>2. JobTypes'
    BY <2>1, <1>t DEF JobTypes
  <2>3. JobInv(f)'
    BY <2>1, <1>t, <1>i DEF JobInv
  <2>4. OthersKept(f)
    BY <2>1, <1>t DEF OthersKept
  <2>5. step[f] # "none" /\ step'[f] # "none"
    BY <2>1, <1>t
  <2> QED  BY <2>1, <2>2, <2>3, <2>4, <2>5 DEF Advances
<1> QED  BY <1>1, <1>2, <1>3, <1>4, <1>5, <1>6, <1>7 DEF JobStep

(* What a step keeps of the offers when it starts no transfer.             *)
LEMMA OffersKept ==
    ASSUME OfferInv, DownloadHasConsent, UNCHANGED <<prompts, trustedPeers, consent, declined>>,
           pendingDownloads' \subseteq pendingDownloads,
           \A g \in Files : step'[g] = "none" <=> step[g] = "none"
    PROVE  OfferInv' /\ DownloadHasConsent'
<1>1. \A o \in Offers : o \in Files
  BY DEF Files
<1>2. OfferInv'
  BY <1>1 DEF OfferInv
<1>3. DownloadHasConsent'
  BY <1>1 DEF DownloadHasConsent
<1> QED  BY <1>2, <1>3

(* A record is of the file's status and progress at that moment; the       *)
(* records before it are kept, or the oldest of them dropped.              *)
LEMMA RecordedKeeps ==
    ASSUME JobTypes, NEW f \in Files, JobInv(f), Recorded(f),
           history \in Seq(HistoryRecords), CompletedUploadWasSent
    PROVE  history' \in Seq(HistoryRecords) /\ CompletedUploadWasSent'
<1> DEFINE rec == [file |-> f, status |-> status[f], sent |-> sent[f]]
           all == <<rec>> \o history
           k == IF Len(history) < MaxRecords THEN Len(history) + 1 ELSE MaxRecords
<1>1. rec \in HistoryRecords
  BY DEF JobTypes, HistoryRecords
<1>2. rec.file \in Sends /\ rec.status = "COMPLETED" => rec.sent = Parts
  BY DEF JobInv
<1>3. history' = SubSeq(all, 1, k)
  BY DEF Recorded
<1> HIDE DEF rec
<1>4. /\ <<rec>> \in Seq(HistoryRecords) /\ Len(<<rec>>) = 1 /\ <<rec>>[1] = rec
  BY <1>1
<1>5. /\ all \in Seq(HistoryRecords) /\ Len(all) = Len(history) + 1
      /\ \A i \in 1..Len(all) : all[i] = IF i <= 1 THEN <<rec>>[i] ELSE history[i - 1]
  BY <1>4, ConcatProperties
<1>6. Len(history) \in Nat /\ MaxRecords \in Nat /\ MaxRecords >= 1
  BY AndroidAssumption
<1>7. k \in 1..(Len(history) + 1)
  BY <1>6
<1> HIDE DEF k, all
<1>8. 1 \in 1..(Len(all) + 1) /\ k \in 0..Len(all)
  BY <1>5, <1>6, <1>7
<1>9. /\ SubSeq(all, 1, k) \in Seq(HistoryRecords) /\ Len(SubSeq(all, 1, k)) = k
      /\ \A i \in 1..k : SubSeq(all, 1, k)[i] = all[i]
  <2>1. /\ SubSeq(all, 1, k) \in Seq(HistoryRecords)
        /\ Len(SubSeq(all, 1, k)) = k
        /\ \A i \in 1..k : SubSeq(all, 1, k)[i] = all[1 + i - 1]
    BY <1>5, <1>6, <1>7, <1>8
  <2>2. \A i \in 1..k : 1 + i - 1 = i
    BY <1>7, <1>6
  <2> QED  BY <2>1, <2>2
<1>10. \A i \in 1..k : all[i] = rec \/ \E j \in 1..Len(history) : all[i] = history[j]
  <2> SUFFICES ASSUME NEW i \in 1..k, all[i] # rec
               PROVE  \E j \in 1..Len(history) : all[i] = history[j]
    OBVIOUS
  <2>1. i \in 1..Len(all) /\ i # 1
    BY <1>4, <1>5, <1>6, <1>7
  <2>2. all[i] = history[i - 1] /\ i - 1 \in 1..Len(history)
    BY <2>1, <1>5, <1>6
  <2> QED  BY <2>2
<1>11. CompletedUploadWasSent'
  <2> SUFFICES ASSUME NEW i \in DOMAIN history', history'[i].file \in Sends,
                      history'[i].status = "COMPLETED"
               PROVE  history'[i].sent = Parts
    BY DEF CompletedUploadWasSent
  <2>1. i \in 1..k /\ history'[i] = all[i]
    BY <1>3, <1>9
  <2>2. \A j \in 1..Len(history) :
            history[j].file \in Sends /\ history[j].status = "COMPLETED" => history[j].sent = Parts
    BY DEF CompletedUploadWasSent
  <2> QED  BY <2>1, <2>2, <1>2, <1>10
<1> QED  BY <1>3, <1>9, <1>11

(* A launch finds its transfer unstarted, and starts it.                   *)
LEMMA LaunchKeeps ==
    ASSUME JobTypes, \A g \in Files : JobInv(g), NEW f \in Files, Launch(f)
    PROVE  /\ JobTypes' /\ (\A g \in Files : JobInv(g)') /\ UNCHANGED history
           /\ step[f] = "none" /\ step'[f] # "none"
           /\ \A g \in Files \ {f} : step'[g] = step[g]
<1>1. /\ step[f] = "none" /\ activeTransfers' = activeTransfers \cup {f}
      /\ status' = [status EXCEPT ![f] = "CONNECTING"]
      /\ step' = [step EXCEPT ![f] = "queued"]
      /\ UNCHANGED <<sent, copies, history, cancelling>>
  BY DEF Launch
<1>2. JobTypes'
  BY <1>1 DEF JobTypes, JobSteps, Statuses
<1>3. step'[f] = "queued" /\ status'[f] = "CONNECTING"
      /\ \A g \in Files \ {f} : step'[g] = step[g] /\ status'[g] = status[g]
  BY <1>1 DEF JobTypes
<1>4. JobInv(f)'
  BY <1>1, <1>3 DEF JobInv
<1>5. ASSUME NEW g \in Files \ {f} PROVE JobInv(g)'
  BY <1>1, <1>3, <1>5 DEF JobInv
<1> QED  BY <1>1, <1>2, <1>3, <1>4, <1>5

(* The steps on the offers and the settings.                               *)
LEMMA OfferStepKeeps ==
    ASSUME TransfersInv, NEW o \in Offers,
           \/ showAcceptDeclineNotification(o) \/ AcceptDownload(o) \/ DeclineDownload(o)
    PROVE  TransfersInv'
<1>t. /\ JobTypes /\ (\A f \in Files : JobInv(f)) /\ history \in Seq(HistoryRecords)
      /\ CompletedUploadWasSent /\ OfferInv /\ DownloadHasConsent
      /\ \A p \in Offers : p \in Files
      /\ consent \in [Offers -> {"none", "user", "trusted"}]
  BY DEF TransfersInv, OfferInv, Files
<1>k. ASSUME UNCHANGED jobVars, OfferInv', DownloadHasConsent' PROVE TransfersInv'
  BY <1>k, <1>t DEF jobVars, JobTypes, JobInv, CompletedUploadWasSent, TransfersInv
<1>l. ASSUME Launch(o), OfferInv', DownloadHasConsent' PROVE TransfersInv'
  <2>1. JobTypes' /\ (\A g \in Files : JobInv(g)') /\ history' = history
    BY <1>t, <1>l, LaunchKeeps
  <2> QED  BY <2>1, <1>l, <1>t DEF CompletedUploadWasSent, TransfersInv
<1>s. ASSUME Launch(o)
      PROVE  step[o] = "none" /\ step'[o] # "none" /\ \A g \in Offers \ {o} : step'[g] = step[g]
  BY <1>t, <1>s, LaunchKeeps
<1>1. CASE showAcceptDeclineNotification(o)
  <2>1. /\ consent[o] = "none" /\ o \notin prompts /\ o \notin declined
        /\ UNCHANGED <<trustedPeers, declined>>
    BY <1>1 DEF showAcceptDeclineNotification
  <2>2. CASE /\ OfferHost[o] \in trustedPeers /\ consent' = [consent EXCEPT ![o] = "trusted"]
             /\ Launch(o) /\ UNCHANGED <<prompts, pendingDownloads>>
    <3>1. /\ consent'[o] = "trusted" /\ (\A p \in Offers \ {o} : consent'[p] = consent[p])
          /\ consent' \in [Offers -> {"none", "user", "trusted"}]
      BY <2>2, <1>t
    <3>2. \A p \in Offers : consent[p] = "user" => consent'[p] = "user"
      BY <3>1, <2>1
    <3>3. OfferInv'
      BY <3>1, <2>1, <2>2, <1>s, <1>t DEF OfferInv
    <3>4. DownloadHasConsent'
      BY <3>1, <3>2, <2>1, <2>2, <1>s, <1>t DEF DownloadHasConsent
    <3> QED  BY <3>3, <3>4, <2>2, <1>l
  <2>3. CASE /\ prompts' = prompts \cup {o} /\ pendingDownloads' = pendingDownloads \cup {o}
             /\ UNCHANGED <<consent, jobVars>>
    <3>1. step[o] = "none" /\ step' = step
      BY <2>1, <2>3, <1>t DEF OfferInv, jobVars
    <3>2. OfferInv'
      BY <3>1, <2>1, <2>3, <1>t DEF OfferInv
    <3>3. DownloadHasConsent'
      BY <3>1, <2>1, <2>3, <1>t DEF DownloadHasConsent
    <3> QED  BY <3>2, <3>3, <2>3, <1>k
  <2> QED  BY <1>1, <2>2, <2>3 DEF showAcceptDeclineNotification
<1>2. CASE AcceptDownload(o)
  <2>1. UNCHANGED declined
    BY <1>2 DEF AcceptDownload
  <2>2. CASE /\ o \in pendingDownloads /\ pendingDownloads' = pendingDownloads \ {o}
             /\ prompts' = prompts \ {o} /\ trustedPeers' = trustedPeers \cup {OfferHost[o]}
             /\ consent' = [consent EXCEPT ![o] = "user"] /\ Launch(o)
    <3>1. /\ consent'[o] = "user" /\ (\A p \in Offers \ {o} : consent'[p] = consent[p])
          /\ consent' \in [Offers -> {"none", "user", "trusted"}]
      BY <2>2, <1>t
    <3>2. o \notin declined
      BY <2>2, <1>t DEF OfferInv
    <3>3. OfferInv'
      BY <3>1, <3>2, <2>1, <2>2, <1>s, <1>t DEF OfferInv
    <3>4. \A p \in Offers : consent[p] = "user" => consent'[p] = "user"
      BY <3>1
    <3>5. DownloadHasConsent'
      BY <3>1, <3>2, <3>4, <2>1, <2>2, <1>s, <1>t DEF DownloadHasConsent
    <3> QED  BY <3>3, <3>5, <2>2, <1>l
  <2>3. CASE UNCHANGED <<pendingDownloads, prompts, trustedPeers, consent, jobVars>>
    <3>1. OfferInv' /\ DownloadHasConsent'
      BY <2>1, <2>3, <1>t, OffersKept DEF jobVars
    <3> QED  BY <3>1, <2>3, <1>k
  <2> QED  BY <1>2, <2>2, <2>3 DEF AcceptDownload
<1>3. CASE DeclineDownload(o)
  <2>1. /\ declined' = declined \cup (pendingDownloads \cap {o})
        /\ pendingDownloads' = pendingDownloads \ {o} /\ prompts' = prompts \ {o}
        /\ UNCHANGED <<trustedPeers, consent, jobVars>>
    BY <1>3 DEF DeclineDownload
  <2>2. step' = step
    BY <2>1 DEF jobVars
  <2>3. OfferInv'
    BY <2>1, <2>2, <1>t DEF OfferInv
  <2>4. DownloadHasConsent'
    BY <2>1, <2>2, <1>t DEF DownloadHasConsent, OfferInv
  <2> QED  BY <2>1, <2>3, <2>4, <1>k
<1> QED  BY <1>1, <1>2, <1>3

(* The other steps of one transfer: its upload is launched, its coroutine  *)
(* moves on, its end or its cancellation is recorded.                      *)
LEMMA TransferStepKeeps ==
    ASSUME TransfersInv, NEW f \in Files,
           \/ Sending(f) \/ JobStep(f) \/ RecordEnd(f) \/ cancelTransfer(f) \/ CancelRecord(f)
    PROVE  TransfersInv'
<1>t. /\ JobTypes /\ (\A g \in Files : JobInv(g)) /\ history \in Seq(HistoryRecords)
      /\ CompletedUploadWasSent /\ OfferInv /\ DownloadHasConsent
      /\ step \in [Files -> JobSteps] /\ status \in [Files -> Statuses]
      /\ sent \in [Files -> 0..Parts]
  BY DEF TransfersInv, JobTypes
<1>o. ASSUME OthersKept(f), JobInv(f)' PROVE \A g \in Files : JobInv(g)'
  <2>1. ASSUME NEW g \in Files \ {f} PROVE JobInv(g)'
    BY <1>o, <1>t DEF OthersKept, JobInv
  <2> QED  BY <2>1, <1>o
<1>h. ASSUME UNCHANGED history PROVE history' \in Seq(HistoryRecords) /\ CompletedUploadWasSent'
  BY <1>h, <1>t DEF CompletedUploadWasSent
<1>1. CASE Sending(f)
  <2>1. f \in Sends /\ Launch(f) /\ UNCHANGED promptVars
    BY <1>1 DEF Sending
  <2>2. /\ JobTypes' /\ (\A g \in Files : JobInv(g)') /\ history' = history
        /\ \A g \in Files \ {f} : step'[g] = step[g]
    BY <2>1, <1>t, LaunchKeeps
  <2>3. f \notin Offers
    BY <2>1, AndroidAssumption
  <2>4. \A g \in Offers : step'[g] = step[g]
    BY <2>2, <2>3 DEF Files
  <2>5. UNCHANGED <<prompts, pendingDownloads, trustedPeers, consent, declined>>
    BY <2>1 DEF promptVars
  <2>6. OfferInv' /\ DownloadHasConsent'
    BY <2>4, <2>5, <1>t DEF OfferInv, DownloadHasConsent
  <2> QED  BY <2>2, <2>6, <1>h DEF TransfersInv
<1>2. CASE JobStep(f)
  <2>1. /\ JobTypes' /\ JobInv(f)' /\ OthersKept(f) /\ UNCHANGED promptVars /\ UNCHANGED history
        /\ step[f] # "none" /\ step'[f] # "none"
    BY <1>2, <1>t, JobStepKeeps DEF Advances
  <2>2. \A g \in Files : step'[g] = "none" <=> step[g] = "none"
    BY <2>1 DEF OthersKept
  <2>3. OfferInv' /\ DownloadHasConsent'
    BY <2>1, <2>2, <1>t, OffersKept DEF promptVars
  <2> QED  BY <2>1, <2>3, <1>o, <1>h DEF TransfersInv
<1>3. CASE RecordEnd(f)
  <2>1. /\ step[f] = "record" /\ Recorded(f) /\ step' = [step EXCEPT ![f] = "end"]
        /\ activeTransfers' = activeTransfers \ {f}
        /\ UNCHANGED <<status, sent, copies, cancelling>> /\ UNCHANGED promptVars
    BY <1>3 DEF RecordEnd, Recorded, Goto
  <2>2. JobTypes'
    BY <2>1, <1>t DEF JobTypes, JobSteps
  <2>3. JobInv(f)'
    BY <2>1, <1>t DEF JobInv
  <2>4. OthersKept(f)
    BY <2>1, <1>t DEF OthersKept
  <2>5. history' \in Seq(HistoryRecords) /\ CompletedUploadWasSent'
    BY <2>1, <1>t, RecordedKeeps
  <2>6. \A g \in Files : step'[g] = "none" <=> step[g] = "none"
    BY <2>1, <1>t
  <2>7. OfferInv' /\ DownloadHasConsent'
    BY <2>1, <2>6, <1>t, OffersKept DEF promptVars
  <2> QED  BY <2>2, <2>3, <2>4, <2>5, <2>7, <1>o DEF TransfersInv
<1>4. CASE cancelTransfer(f)
  <2>1. /\ cancelling' = cancelling \cup {f} /\ status' = [status EXCEPT ![f] = "CANCELLED"]
        /\ copies' = copies \ {f}
        /\ UNCHANGED <<activeTransfers, sent, history>> /\ UNCHANGED promptVars
    BY <1>4 DEF cancelTransfer
  <2>2. (step[f] = "queued" /\ step' = [step EXCEPT ![f] = "end"]) \/ step' = step
    BY <1>4 DEF cancelTransfer, Goto
  <2>3. JobTypes'
    BY <2>1, <2>2, <1>t DEF JobTypes, JobSteps, Statuses
  <2>4. /\ status'[f] = "CANCELLED" /\ f \notin copies' /\ f \in cancelling'
        /\ (step'[f] = step[f] \/ step'[f] = "end")
    BY <2>1, <2>2, <1>t
  <2>5. JobInv(f)'
    BY <2>1, <2>4, <1>t DEF JobInv
  <2>6. OthersKept(f)
    BY <2>1, <2>2, <1>t DEF OthersKept
  <2>7. \A g \in Files : step'[g] = "none" <=> step[g] = "none"
    BY <2>2, <1>t
  <2>8. OfferInv' /\ DownloadHasConsent'
    BY <2>1, <2>7, <1>t, OffersKept DEF promptVars
  <2> QED  BY <2>1, <2>3, <2>5, <2>6, <2>8, <1>o, <1>h DEF TransfersInv
<1>5. CASE CancelRecord(f)
  <2>1. /\ Recorded(f) /\ cancelling' = cancelling \ {f}
        /\ activeTransfers' = activeTransfers \ {f}
        /\ UNCHANGED <<step, status, sent, copies>> /\ UNCHANGED promptVars
    BY <1>5 DEF CancelRecord, Recorded
  <2>2. JobTypes'
    BY <2>1, <1>t DEF JobTypes
  <2>3. JobInv(f)'
    BY <2>1, <1>t DEF JobInv
  <2>4. OthersKept(f)
    BY <2>1 DEF OthersKept
  <2>5. history' \in Seq(HistoryRecords) /\ CompletedUploadWasSent'
    BY <2>1, <1>t, RecordedKeeps
  <2>6. OfferInv' /\ DownloadHasConsent'
    BY <2>1, <1>t, OffersKept DEF promptVars
  <2> QED  BY <2>2, <2>3, <2>4, <2>5, <2>6, <1>o DEF TransfersInv
<1> QED  BY <1>1, <1>2, <1>3, <1>4, <1>5

(* The steps that no single transfer takes.                                *)
LEMMA ServiceStepKeeps ==
    ASSUME TransfersInv,
           \/ clearHistory \/ sweepPartialFiles \/ ServiceRestart \/ AppRestart
           \/ \E o \in Offers, button \in {"accept", "decline"} : Press(button, o)
           \/ \E b \in BOOLEAN : SetAutoAccept(b)
           \/ \E h \in OfferHosts : removeTrustedPeer(h)
           \/ UNCHANGED androidVars
    PROVE  TransfersInv'
<1>t. /\ JobTypes /\ (\A g \in Files : JobInv(g)) /\ history \in Seq(HistoryRecords)
      /\ CompletedUploadWasSent /\ OfferInv /\ DownloadHasConsent
      /\ step \in [Files -> JobSteps]
  BY DEF TransfersInv, JobTypes
<1>k. ASSUME UNCHANGED <<step, status, sent>>, copies' \subseteq copies,
             UNCHANGED <<activeTransfers, cancelling>>
      PROVE  JobTypes' /\ \A g \in Files : JobInv(g)'
  <2>1. JobTypes'
    BY <1>k, <1>t DEF JobTypes
  <2>2. ASSUME NEW g \in Files PROVE JobInv(g)'
    BY <1>k, <1>t, <2>2 DEF JobInv
  <2> QED  BY <2>1, <2>2
<1>h. ASSUME UNCHANGED history PROVE history' \in Seq(HistoryRecords) /\ CompletedUploadWasSent'
  BY <1>h, <1>t DEF CompletedUploadWasSent
<1>p. ASSUME UNCHANGED promptVars, \A g \in Files : step'[g] = "none" <=> step[g] = "none"
      PROVE  OfferInv' /\ DownloadHasConsent'
  BY <1>p, <1>t, OffersKept DEF promptVars
<1>1. CASE clearHistory
  <2>1. /\ history' = <<>> /\ UNCHANGED <<step, status, sent, copies, activeTransfers, cancelling>>
        /\ UNCHANGED promptVars
    BY <1>1 DEF clearHistory
  <2>2. history' \in Seq(HistoryRecords) /\ CompletedUploadWasSent'
    BY <2>1 DEF CompletedUploadWasSent
  <2> QED  BY <2>1, <2>2, <1>k, <1>p DEF TransfersInv
<1>2. CASE sweepPartialFiles
  <2>1. /\ copies' = {} /\ UNCHANGED <<step, status, sent, activeTransfers, cancelling>>
        /\ UNCHANGED promptVars /\ UNCHANGED history
    BY <1>2 DEF sweepPartialFiles
  <2> QED  BY <2>1, <1>k, <1>p, <1>h DEF TransfersInv
<1>3. CASE ServiceRestart
  <2>1. /\ copies' = {} /\ UNCHANGED <<status, sent, activeTransfers, cancelling>>
        /\ UNCHANGED promptVars /\ UNCHANGED history
    BY <1>3 DEF ServiceRestart
  <2>2. PICK new \in SUBSET {f \in Files : step[f] = "queued"} :
            step' = [f \in Files |-> IF f \in new THEN "dropped" ELSE step[f]]
    BY <1>3 DEF ServiceRestart
  <2>3. \A g \in Files : step'[g] = step[g] \/ (step[g] = "queued" /\ step'[g] = "dropped")
    BY <2>2
  <2>4. step' \in [Files -> JobSteps]
    BY <2>2, <1>t DEF JobSteps
  <2>5. JobTypes'
    BY <2>1, <2>4, <1>t DEF JobTypes
  <2>6. ASSUME NEW g \in Files PROVE JobInv(g)'
    <3>1. JobInv(g) /\ (step'[g] = step[g] \/ (step[g] = "queued" /\ step'[g] = "dropped"))
      BY <1>t, <2>3
    <3> QED  BY <3>1, <2>1 DEF JobInv
  <2>7. OfferInv' /\ DownloadHasConsent'
    BY <2>1, <2>3, <1>p
  <2> QED  BY <2>1, <2>5, <2>6, <2>7, <1>h DEF TransfersInv
<1>4. CASE AppRestart
  <2>1. /\ step' = [f \in Files |-> IF step[f] = "none" THEN "none" ELSE "end"]
        /\ activeTransfers' = {} /\ copies' = {} /\ UNCHANGED <<status, sent, history>>
        /\ pendingDownloads' = {} /\ UNCHANGED <<prompts, trustedPeers, consent, declined>>
    BY <1>4 DEF AppRestart
  <2>2. JobTypes'
    BY <2>1, <1>t DEF JobTypes, JobSteps
  <2>3. ASSUME NEW g \in Files PROVE JobInv(g)'
    <3>1. JobInv(g) /\ step'[g] = IF step[g] = "none" THEN "none" ELSE "end"
      BY <1>t, <2>1
    <3> QED  BY <3>1, <2>1 DEF JobInv
  <2>4. \A g \in Files : step'[g] = "none" <=> step[g] = "none"
    BY <2>1
  <2>5. OfferInv' /\ DownloadHasConsent'
    BY <2>1, <2>4, <1>t, OffersKept
  <2> QED  BY <2>1, <2>2, <2>3, <2>5, <1>h DEF TransfersInv
<1>5. CASE \/ \E o \in Offers, button \in {"accept", "decline"} : Press(button, o)
           \/ \E b \in BOOLEAN : SetAutoAccept(b)
           \/ UNCHANGED androidVars
  <2>1. UNCHANGED jobVars /\ UNCHANGED <<prompts, pendingDownloads, trustedPeers, consent, declined>>
    BY <1>5 DEF Press, SetAutoAccept, androidVars, promptVars
  <2>2. UNCHANGED <<step, status, sent, copies, activeTransfers, cancelling, history>>
    BY <2>1 DEF jobVars
  <2>3. OfferInv' /\ DownloadHasConsent'
    BY <2>1, <2>2, <1>t, OffersKept
  <2> QED  BY <2>2, <2>3, <1>k, <1>h DEF TransfersInv
<1>6. CASE \E h \in OfferHosts : removeTrustedPeer(h)
  <2>1. /\ trustedPeers' \subseteq trustedPeers /\ UNCHANGED jobVars
        /\ UNCHANGED <<prompts, pendingDownloads, consent, declined>>
    BY <1>6 DEF removeTrustedPeer
  <2>2. UNCHANGED <<step, status, sent, copies, activeTransfers, cancelling, history>>
    BY <2>1 DEF jobVars
  <2>3. OfferInv' /\ DownloadHasConsent'
    BY <2>1, <2>2, <1>t DEF OfferInv, DownloadHasConsent
  <2> QED  BY <2>2, <2>3, <1>k, <1>h DEF TransfersInv
<1> QED  BY <1>1, <1>2, <1>3, <1>4, <1>5, <1>6

LEMMA AndroidSteps ==
    ASSUME [AndroidNext]_androidVars
    PROVE  \/ \E o \in Offers : \/ showAcceptDeclineNotification(o) \/ AcceptDownload(o)
                                \/ DeclineDownload(o)
           \/ \E f \in Files : \/ Sending(f) \/ JobStep(f) \/ RecordEnd(f)
                               \/ cancelTransfer(f) \/ CancelRecord(f)
           \/ clearHistory \/ sweepPartialFiles \/ ServiceRestart \/ AppRestart
           \/ \E o \in Offers, button \in {"accept", "decline"} : Press(button, o)
           \/ \E b \in BOOLEAN : SetAutoAccept(b)
           \/ \E h \in OfferHosts : removeTrustedPeer(h)
           \/ UNCHANGED androidVars
<1>1. \A f \in Files : StartUpload(f) => Sending(f)
  BY DEF StartUpload, Sending
<1>2. CASE TransferStep
  BY <1>1, <1>2 DEF TransferStep, JobStep
<1>3. ASSUME NEW f \in Texts, startTextTransfer(f) PROVE f \in Files /\ Sending(f)
  BY <1>3, AndroidAssumption DEF startTextTransfer, Sending, Files
<1> QED  BY <1>2, <1>3 DEF AndroidNext

LEMMA TransfersInvHolds == AndroidSpec => []TransfersInv
<1>1. AndroidInit => TransfersInv
  <2> SUFFICES ASSUME AndroidInit PROVE TransfersInv
    OBVIOUS
  <2>1. Parts \in Nat
    BY AndroidAssumption
  <2>2. JobTypes
    BY <2>1 DEF AndroidInit, JobTypes, JobSteps, Statuses
  <2>3. \A f \in Files : JobInv(f)
    BY DEF AndroidInit, JobInv
  <2>4. history \in Seq(HistoryRecords) /\ CompletedUploadWasSent
    BY DEF AndroidInit, CompletedUploadWasSent
  <2>5. OfferInv /\ DownloadHasConsent
    BY DEF AndroidInit, OfferInv, DownloadHasConsent, Files
  <2> QED  BY <2>2, <2>3, <2>4, <2>5 DEF TransfersInv
<1>2. TransfersInv /\ [AndroidNext]_androidVars => TransfersInv'
  <2> SUFFICES ASSUME TransfersInv, [AndroidNext]_androidVars PROVE TransfersInv'
    OBVIOUS
  <2>1. \/ \E o \in Offers : \/ showAcceptDeclineNotification(o) \/ AcceptDownload(o)
                             \/ DeclineDownload(o)
        \/ \E f \in Files : \/ Sending(f) \/ JobStep(f) \/ RecordEnd(f)
                            \/ cancelTransfer(f) \/ CancelRecord(f)
        \/ clearHistory \/ sweepPartialFiles \/ ServiceRestart \/ AppRestart
        \/ \E o \in Offers, button \in {"accept", "decline"} : Press(button, o)
        \/ \E b \in BOOLEAN : SetAutoAccept(b)
        \/ \E h \in OfferHosts : removeTrustedPeer(h)
        \/ UNCHANGED androidVars
    BY AndroidSteps
  <2> QED  BY <2>1, OfferStepKeeps, TransferStepKeeps, ServiceStepKeeps
<1> QED  BY <1>1, <1>2, PTL DEF AndroidSpec

(* A record of the phone's history that says an upload was completed       *)
(* stands for one that handed over every part, whatever was cancelled,     *)
(* swept or restarted meanwhile (FileTransferManager.addToHistory).        *)
THEOREM CompletedUploadWasSentHolds == AndroidSpec => []CompletedUploadWasSent
<1>1. TransfersInv => CompletedUploadWasSent
  BY DEF TransfersInv
<1> QED  BY <1>1, TransfersInvHolds, PTL

(* Nothing is downloaded to the phone without the user's consent           *)
(* (NodeService.onStartCommand, showAcceptDeclineNotification).            *)
THEOREM DownloadHasConsentHolds == AndroidSpec => []DownloadHasConsent
<1>1. TransfersInv => DownloadHasConsent
  BY DEF TransfersInv
<1> QED  BY <1>1, TransfersInvHolds, PTL

(* Only startTextTransfer starts the transfer of a text, and no step makes *)
(* a transfer that was started one that was not.                           *)
LEMMA TextsStart ==
    ASSUME TransfersInv, TransferStep
    PROVE  \A f \in Texts : step'[f] = "none" <=> step[f] = "none"
<1>t. /\ JobTypes /\ (\A g \in Files : JobInv(g)) /\ step \in [Files -> JobSteps]
      /\ Texts \subseteq Files /\ Texts \cap Offers = {}
  BY AndroidAssumption DEF TransfersInv, JobTypes, Files
<1>l. ASSUME NEW f \in Files \ Texts, Launch(f) PROVE \A g \in Texts : step'[g] = step[g]
  BY <1>l, <1>t DEF Launch
<1>1. ASSUME NEW o \in Offers, \/ showAcceptDeclineNotification(o) \/ AcceptDownload(o)
                               \/ DeclineDownload(o)
      PROVE  \A f \in Texts : step'[f] = step[f]
  <2>1. o \in Files \ Texts
    BY <1>t DEF Files
  <2>2. Launch(o) \/ UNCHANGED step
    BY <1>1 DEF showAcceptDeclineNotification, AcceptDownload, DeclineDownload, jobVars
  <2> QED  BY <2>1, <2>2, <1>l
<1>2. ASSUME NEW g \in Files, StartUpload(g) PROVE \A f \in Texts : step'[f] = step[f]
  BY <1>2, <1>l DEF StartUpload
<1>3. ASSUME NEW g \in Files, JobStep(g)
      PROVE  \A f \in Texts : step'[f] = "none" <=> step[f] = "none"
  <2>1. Advances(g)
    BY <1>3, <1>t, JobStepKeeps
  <2> QED  BY <2>1, <1>t DEF Advances, OthersKept
<1>4. ASSUME NEW g \in Files, RecordEnd(g) \/ cancelTransfer(g) \/ CancelRecord(g)
      PROVE  \A f \in Texts : step'[f] = "none" <=> step[f] = "none"
  <2>1. \/ step[g] # "none" /\ step' = [step EXCEPT ![g] = "end"]
        \/ UNCHANGED step
    BY <1>4 DEF RecordEnd, cancelTransfer, CancelRecord, Goto
  <2> QED  BY <2>1, <1>t
<1>5. CASE ServiceRestart
  <2>1. PICK new \in SUBSET {f \in Files : step[f] = "queued"} :
            step' = [f \in Files |-> IF f \in new THEN "dropped" ELSE step[f]]
    BY <1>5 DEF ServiceRestart
  <2> QED  BY <2>1, <1>t
<1>6. CASE AppRestart
  BY <1>6, <1>t DEF AppRestart
<1>7. CASE \/ clearHistory \/ sweepPartialFiles
           \/ \E o \in Offers, button \in {"accept", "decline"} : Press(button, o)
           \/ \E b \in BOOLEAN : SetAutoAccept(b)
           \/ \E h \in OfferHosts : removeTrustedPeer(h)
  BY <1>7 DEF clearHistory, sweepPartialFiles, Press, SetAutoAccept, removeTrustedPeer, jobVars
<1>8. \/ \E o \in Offers : \/ showAcceptDeclineNotification(o) \/ AcceptDownload(o)
                           \/ DeclineDownload(o)
      \/ \E f \in Files : \/ StartUpload(f) \/ JobStep(f) \/ RecordEnd(f)
                          \/ cancelTransfer(f) \/ CancelRecord(f)
      \/ ServiceRestart \/ AppRestart \/ clearHistory \/ sweepPartialFiles
      \/ \E o \in Offers, button \in {"accept", "decline"} : Press(button, o)
      \/ \E b \in BOOLEAN : SetAutoAccept(b)
      \/ \E h \in OfferHosts : removeTrustedPeer(h)
  BY DEF TransferStep, JobStep
<1> QED  BY <1>1, <1>2, <1>3, <1>4, <1>5, <1>6, <1>7, <1>8

ClipsAreTexts == clips = {f \in Texts : step[f] # "none"}

LEMMA ClipsAreTextsHolds == AndroidSpec => []ClipsAreTexts
<1>1. AndroidInit => ClipsAreTexts
  BY AndroidAssumption DEF AndroidInit, ClipsAreTexts, Files
<1>2. TransfersInv /\ ClipsAreTexts /\ [AndroidNext]_androidVars => ClipsAreTexts'
  <2> SUFFICES ASSUME TransfersInv, ClipsAreTexts, [AndroidNext]_androidVars PROVE ClipsAreTexts'
    OBVIOUS
  <2>1. CASE TransferStep /\ UNCHANGED clips
    BY <2>1, TextsStart DEF ClipsAreTexts
  <2>2. ASSUME NEW f \in Texts, startTextTransfer(f) PROVE ClipsAreTexts'
    <3>1. step \in [Files -> JobSteps] /\ Texts \subseteq Files
      BY AndroidAssumption DEF TransfersInv, JobTypes, Files
    <3>2. step' = [step EXCEPT ![f] = "queued"] /\ clips' = clips \cup {f}
      BY <2>2 DEF startTextTransfer, Launch
    <3>3. \A g \in Texts : step'[g] # "none" <=> (g = f \/ step[g] # "none")
      BY <3>1, <3>2
    <3> QED  BY <3>2, <3>3 DEF ClipsAreTexts
  <2>3. CASE UNCHANGED androidVars
    BY <2>3 DEF androidVars, jobVars, ClipsAreTexts
  <2> QED  BY <2>1, <2>2, <2>3 DEF AndroidNext
<1> QED  BY <1>1, <1>2, TransfersInvHolds, PTL DEF AndroidSpec

(* An upload that has ended leaves no copy of its content behind; what     *)
(* stays in the cache are the files of the texts that were sent            *)
(* (FileTransferManager.uploadFile, cancelTransfer, startTextTransfer).    *)
THEOREM OnlyTextsStayInCacheHolds == AndroidSpec => []OnlyTextsStayInCache
<1>1. TransfersInv /\ ClipsAreTexts => OnlyTextsStayInCache
  <2> SUFFICES ASSUME TransfersInv, ClipsAreTexts PROVE OnlyTextsStayInCache
    OBVIOUS
  <2>1. ASSUME NEW f \in Files, step[f] = "end"
        PROVE  f \notin copies /\ (f \in activeTransfers => f \in cancelling)
    <3>1. JobInv(f)
      BY DEF TransfersInv
    <3> QED  BY <3>1, <2>1 DEF JobInv
  <2> QED  BY <2>1 DEF ClipsAreTexts, OnlyTextsStayInCache
<1> QED  BY <1>1, TransfersInvHolds, ClipsAreTextsHolds, PTL

-----------------------------------------------------------------------------
(* Files the dashboard passes on. *)

(* A share that opened a path since it was last removed will remove it or  *)
(* has aborted.  A handler that is only signalling does not count: its     *)
(* server may be over and have removed the path, and a later share may     *)
(* have created it again.                                                  *)
Keeper(q) == shr[q] = "aborted" \/ RemovalToCome(q)

OpenersKeep ==
    \A p \in Paths : /\ dir[p] # NoNode <=> opened[p] # {}
                     /\ \A q \in opened[p] : TmpName[q] = p /\ Keeper(q)

HandlersTyped ==
    /\ shr \in [Shares -> {"idle", "writing", "written", "signalling"} \cup HandlerEnds]
    /\ srv \in [Shares -> {"none", "waiting", "serving", "over"}]

PathsTyped == dir \in [Paths -> Shares \cup {NoNode}] /\ opened \in [Paths -> SUBSET Shares]

ShareInv == HandlersTyped /\ PathsTyped /\ OpenersKeep

LEMMA TmpNames == \A q \in Shares : TmpName[q] \in Paths
BY DEF Paths

(* Removing the path of q: nobody has it open any more, the others keep    *)
(* what they had.                                                          *)
LEMMA RemovalKeeps ==
    ASSUME ShareInv, NEW q \in Shares, RemoveTmp(q),
           \A r \in Shares \ {q} : shr'[r] = shr[r] /\ srv'[r] = srv[r]
    PROVE  PathsTyped' /\ OpenersKeep'
<1>1. TmpName[q] \in Paths
  BY TmpNames
<1>2. PathsTyped'
  BY <1>1 DEF RemoveTmp, ShareInv, PathsTyped
<1>3. ASSUME NEW p \in Paths
      PROVE  /\ dir'[p] # NoNode <=> opened'[p] # {}
             /\ \A r \in opened'[p] : TmpName[r] = p /\ Keeper(r)'
  <2>1. CASE p = TmpName[q]
    <3>1. dir'[p] = NoNode /\ opened'[p] = {}
      BY <2>1, <1>1 DEF RemoveTmp, ShareInv, PathsTyped
    <3> QED  BY <3>1
  <2>2. CASE p # TmpName[q]
    <3>1. dir'[p] = dir[p] /\ opened'[p] = opened[p]
      BY <2>2, <1>1 DEF RemoveTmp, ShareInv, PathsTyped
    <3>2. ASSUME NEW r \in opened[p] PROVE TmpName[r] = p /\ Keeper(r)'
      <4>1. r \in Shares /\ TmpName[r] = p /\ Keeper(r)
        BY <3>2 DEF ShareInv, PathsTyped, OpenersKeep
      <4>2. r # q
        BY <4>1, <2>2
      <4> QED  BY <4>1, <4>2 DEF Keeper, RemovalToCome
    <3> QED  BY <3>1, <3>2 DEF ShareInv, OpenersKeep
  <2> QED  BY <2>1, <2>2
<1> QED  BY <1>2, <1>3 DEF OpenersKeep

(* A step of q that leaves the paths alone, and after which q keeps what it *)
(* kept.                                                                    *)
LEMMA HandlerKeeps ==
    ASSUME ShareInv, NEW q \in Shares, dir' = dir, opened' = opened, Keeper(q) => Keeper(q)',
           \A r \in Shares \ {q} : shr'[r] = shr[r] /\ srv'[r] = srv[r]
    PROVE  PathsTyped' /\ OpenersKeep'
<1>1. PathsTyped'
  BY DEF ShareInv, PathsTyped
<1>2. ASSUME NEW p \in Paths, NEW r \in opened[p] PROVE TmpName[r] = p /\ Keeper(r)'
  <2>1. r \in Shares /\ TmpName[r] = p /\ Keeper(r)
    BY <1>2 DEF ShareInv, PathsTyped, OpenersKeep
  <2>2. CASE r # q
    BY <2>1, <2>2 DEF Keeper, RemovalToCome
  <2> QED  BY <2>1, <2>2
<1>3. \A p \in Paths : dir[p] # NoNode <=> opened[p] # {}
  BY DEF ShareInv, OpenersKeep
<1> QED  BY <1>1, <1>2, <1>3 DEF OpenersKeep

LEMMA CreateKeeps ==
    ASSUME ShareInv, NEW q \in Shares, CreateTmp(q)
    PROVE  ShareInv'
<1>1. TmpName[q] \in Paths /\ NoNode \notin Shares
  BY TmpNames, ShareAssumption
<1>2. HandlersTyped' /\ shr'[q] = "writing" /\ \A r \in Shares \ {q} : shr'[r] = shr[r] /\ srv'[r] = srv[r]
  BY DEF CreateTmp, serverVars, ShareInv, HandlersTyped
<1>3. PICK n \in Shares : dir' = [dir EXCEPT ![TmpName[q]] = n]
  <2>1. dir[TmpName[q]] \in Shares \cup {NoNode}
    BY <1>1 DEF ShareInv, PathsTyped
  <2> QED  BY <2>1 DEF CreateTmp
<1>4. opened' = [opened EXCEPT ![TmpName[q]] = opened[TmpName[q]] \cup {q}]
  BY DEF CreateTmp
<1>5. PathsTyped'
  BY <1>1, <1>3, <1>4 DEF ShareInv, PathsTyped
<1>6. ASSUME NEW p \in Paths
      PROVE  /\ dir'[p] # NoNode <=> opened'[p] # {}
             /\ \A r \in opened'[p] : TmpName[r] = p /\ Keeper(r)'
  <2>1. ASSUME NEW r \in opened[p] PROVE TmpName[r] = p /\ Keeper(r)'
    <3>1. r \in Shares /\ TmpName[r] = p /\ Keeper(r)
      BY <2>1 DEF ShareInv, PathsTyped, OpenersKeep
    <3>2. CASE r = q
      BY <3>1, <3>2, <1>2 DEF Keeper, RemovalToCome
    <3>3. CASE r # q
      BY <3>1, <3>3, <1>2 DEF Keeper, RemovalToCome
    <3> QED  BY <3>2, <3>3
  <2>2. CASE p = TmpName[q]
    <3>1. dir'[p] \in Shares /\ opened'[p] = opened[p] \cup {q}
      BY <2>2, <1>1, <1>3, <1>4 DEF ShareInv, PathsTyped
    <3>2. Keeper(q)'
      BY <1>2 DEF Keeper, RemovalToCome
    <3> QED  BY <3>1, <3>2, <2>1, <2>2, <1>1
  <2>3. CASE p # TmpName[q]
    <3>1. dir'[p] = dir[p] /\ opened'[p] = opened[p]
      BY <2>3, <1>1, <1>3, <1>4 DEF ShareInv, PathsTyped
    <3> QED  BY <3>1, <2>1 DEF ShareInv, OpenersKeep
  <2> QED  BY <2>2, <2>3
<1> QED  BY <1>2, <1>5, <1>6 DEF ShareInv, OpenersKeep

LEMMA ShareStep == ShareInv /\ [ShareNext]_shareVars => ShareInv'
<1> SUFFICES ASSUME ShareInv, [ShareNext]_shareVars PROVE ShareInv'
  OBVIOUS
<1>t. HandlersTyped
  BY DEF ShareInv
<1>u. ASSUME UNCHANGED <<shr, srv, dir, opened>> PROVE ShareInv'
  BY <1>u DEF ShareInv, HandlersTyped, PathsTyped, OpenersKeep, Keeper, RemovalToCome
<1>n. ASSUME NEW q \in Shares,
             \/ CreateTmp(q) \/ WriteTmp(q) \/ BodyError(q) \/ BodyIn(q) \/ SendByRelay(q)
             \/ Refuse(q) \/ SpawnServer(q) \/ Signalled(q) \/ SignalFails(q)
             \/ ServerAccepts(q) \/ ServerSends(q) \/ ServerEnds(q) \/ ServerTimeout(q)
      PROVE  ShareInv'
  (* The handler or the server moves on. *)
  <2>h. ASSUME NEW h \in {"idle", "writing", "written", "signalling"} \cup HandlerEnds,
               NEW v \in {"none", "waiting", "serving", "over"},
               shr' = [shr EXCEPT ![q] = h], srv' = [srv EXCEPT ![q] = v]
        PROVE  /\ HandlersTyped' /\ shr'[q] = h /\ srv'[q] = v
               /\ \A r \in Shares \ {q} : shr'[r] = shr[r] /\ srv'[r] = srv[r]
    BY <2>h, <1>t DEF HandlersTyped
  <2>i. /\ srv[q] \in {"none", "waiting", "serving", "over"} /\ srv = [srv EXCEPT ![q] = srv[q]]
        /\ shr[q] \in {"idle", "writing", "written", "signalling"} \cup HandlerEnds
        /\ shr = [shr EXCEPT ![q] = shr[q]]
    BY <1>t DEF HandlersTyped
  <2>1. CASE CreateTmp(q)
    BY <2>1, CreateKeeps
  <2>2. CASE WriteTmp(q) \/ ServerSends(q)
    BY <2>2, <1>u DEF WriteTmp, ServerSends, serverVars
  <2>3. CASE BodyError(q) \/ BodyIn(q)
    <3>1. PICK h \in {"aborted", "written"} : shr' = [shr EXCEPT ![q] = h]
      BY <2>3 DEF BodyError, BodyIn
    <3>2. srv' = srv /\ dir' = dir /\ opened' = opened
      BY <2>3 DEF BodyError, BodyIn, serverVars
    <3>3. /\ HandlersTyped' /\ shr'[q] \in {"aborted", "written"}
          /\ \A r \in Shares \ {q} : shr'[r] = shr[r] /\ srv'[r] = srv[r]
      BY <3>1, <3>2, <2>h, <2>i DEF HandlerEnds
    <3>4. Keeper(q)'
      BY <3>3 DEF Keeper, RemovalToCome
    <3> QED  BY <3>2, <3>3, <3>4, HandlerKeeps DEF ShareInv
  <2>4. CASE SendByRelay(q) \/ Refuse(q) \/ SignalFails(q)
    <3>1. PICK h \in {"ok", "failed"} : shr' = [shr EXCEPT ![q] = h]
      BY <2>4 DEF SendByRelay, Refuse, SignalFails
    <3>2. srv' = srv /\ RemoveTmp(q)
      BY <2>4 DEF SendByRelay, Refuse, SignalFails, serverVars
    <3>3. HandlersTyped' /\ \A r \in Shares \ {q} : shr'[r] = shr[r] /\ srv'[r] = srv[r]
      BY <3>1, <3>2, <2>h, <2>i DEF HandlerEnds
    <3> QED  BY <3>2, <3>3, RemovalKeeps DEF ShareInv
  <2>5. CASE SpawnServer(q)
    <3>1. /\ shr' = [shr EXCEPT ![q] = "signalling"] /\ srv' = [srv EXCEPT ![q] = "waiting"]
          /\ dir' = dir /\ opened' = opened
      BY <2>5 DEF SpawnServer
    <3>2. /\ HandlersTyped' /\ srv'[q] = "waiting"
          /\ \A r \in Shares \ {q} : shr'[r] = shr[r] /\ srv'[r] = srv[r]
      BY <3>1, <2>h
    <3>3. Keeper(q)'
      BY <3>2 DEF Keeper, RemovalToCome
    <3> QED  BY <3>1, <3>2, <3>3, HandlerKeeps DEF ShareInv
  <2>6. CASE Signalled(q)
    <3>1. /\ shr[q] = "signalling" /\ shr' = [shr EXCEPT ![q] = "ok"] /\ srv' = srv
          /\ dir' = dir /\ opened' = opened
      BY <2>6 DEF Signalled, serverVars
    <3>2. HandlersTyped' /\ \A r \in Shares \ {q} : shr'[r] = shr[r] /\ srv'[r] = srv[r]
      BY <3>1, <2>h, <2>i DEF HandlerEnds
    <3>3. Keeper(q) => Keeper(q)'
      BY <3>1 DEF Keeper, RemovalToCome
    <3> QED  BY <3>1, <3>2, <3>3, HandlerKeeps DEF ShareInv
  <2>7. CASE ServerAccepts(q)
    <3>1. shr' = shr /\ srv' = [srv EXCEPT ![q] = "serving"] /\ dir' = dir /\ opened' = opened
      BY <2>7 DEF ServerAccepts
    <3>2. /\ HandlersTyped' /\ srv'[q] = "serving"
          /\ \A r \in Shares \ {q} : shr'[r] = shr[r] /\ srv'[r] = srv[r]
      BY <3>1, <2>h, <2>i
    <3>3. Keeper(q)'
      BY <3>2 DEF Keeper, RemovalToCome
    <3> QED  BY <3>1, <3>2, <3>3, HandlerKeeps DEF ShareInv
  <2>8. CASE ServerEnds(q) \/ ServerTimeout(q)
    <3>1. shr' = shr /\ srv' = [srv EXCEPT ![q] = "over"] /\ RemoveTmp(q)
      BY <2>8 DEF ServerEnds, ServerTimeout
    <3>2. HandlersTyped' /\ \A r \in Shares \ {q} : shr'[r] = shr[r] /\ srv'[r] = srv[r]
      BY <3>1, <2>h, <2>i
    <3> QED  BY <3>1, <3>2, RemovalKeeps DEF ShareInv
  <2> QED  BY <1>n, <2>1, <2>2, <2>3, <2>4, <2>5, <2>6, <2>7, <2>8
<1>v. CASE UNCHANGED shareVars
  BY <1>v, <1>u DEF shareVars
<1> QED  BY <1>v, <1>n DEF ShareNext

LEMMA ShareInvHolds == ShareSpec => []ShareInv
<1>1. ShareInit => ShareInv
  BY DEF ShareInit, ShareInv, HandlersTyped, PathsTyped, OpenersKeep
<1> QED  BY <1>1, ShareStep, PTL DEF ShareSpec

(* In whatever order shares of one name meet, what stays at their path is   *)
(* what shares left whose body failed (share handlers of dashboard.rs and   *)
(* their one-shot servers).                                                 *)
THEOREM LeftoversAreAbortedHolds == ShareSpec => []LeftoversAreAborted
<1>1. ShareInv => LeftoversAreAborted
  BY DEF ShareInv, OpenersKeep, LeftoversAreAborted, Keeper
<1> QED  BY <1>1, ShareInvHolds, PTL

-----------------------------------------------------------------------------
(* Pairing and trust. *)

Prints == Nodes \X (0..MaxRestarts)
PairingRequests == [id : RequestIds, device : Nodes, print : Prints, incoming : BOOLEAN, age : 0..TTL]
Payloads == [kind : {"request", "confirm"}, id : RequestIds, from : Nodes, to : Nodes,
             device : Nodes, print : Prints, accepted : BOOLEAN]

(* The print x, in a store of the device d for p, was agreed to by one of  *)
(* the confirmations conf or is a certificate of p: TrustHasConsent says   *)
(* it of every print, the lemmas below of an entry, of a device's entries  *)
(* and of a copy of the store.                                             *)
PrintHasConsent(d, p, x, conf) ==
    x # NoPrint => Agreed(d, p, x, conf) \/ (x[1] = p /\ x[2] # 0)

EntriesHaveConsent(d, e, conf) ==
    e \in Entries /\ \A p \in Nodes : PrintHasConsent(d, p, e[p], conf)

StoreHasConsent(S, conf) ==
    S \in [Nodes -> Entries] /\ \A d \in Nodes : EntriesHaveConsent(d, S[d], conf)

(* An accepted confirmation under way carries the identity print of the    *)
(* device it names, whose user confirmed a request with the print of the   *)
(* device it is for.                                                       *)
AnswerHasConsent(m, conf) ==
    /\ m.print = IdPrint(m.device)
    /\ \E c \in conf : c.on = m.device /\ c.print = IdPrint(m.to)

AnswersHaveConsent ==
    \A m \in wire : m.kind = "confirm" /\ m.accepted => AnswerHasConsent(m, confirmed)

PairingTypes ==
    /\ restarts \in 0..MaxRestarts /\ cert \in [Nodes -> 0..MaxRestarts]
    /\ blocked \in [Nodes -> SUBSET Nodes]
    /\ pending \in [Nodes -> SUBSET PairingRequests] /\ wire \subseteq Payloads
    /\ \A d \in Nodes : \A r \in pending[d] : r.id \in used
    /\ \A m \in wire : m.id \in used

StoresHaveConsent ==
    /\ StoreHasConsent(trust, confirmed) /\ StoreHasConsent(tls, confirmed)
    /\ StoreHasConsent(disk, confirmed)

PairingInv == PairingTypes /\ AnswersHaveConsent /\ StoresHaveConsent

(* A confirmation is never taken back.                                     *)
LEMMA ConsentStays ==
    ASSUME NEW S, NEW conf, NEW more, conf \subseteq more, StoreHasConsent(S, conf)
    PROVE  StoreHasConsent(S, more)
<1>1. ASSUME NEW d, NEW p, NEW x, Agreed(d, p, x, conf) PROVE Agreed(d, p, x, more)
  BY <1>1 DEF Agreed
<1>2. ASSUME NEW d, NEW p, NEW x, PrintHasConsent(d, p, x, conf) PROVE PrintHasConsent(d, p, x, more)
  BY <1>1, <1>2, Zenon DEF PrintHasConsent
<1> QED  BY <1>2, Zenon DEF StoreHasConsent, EntriesHaveConsent

(* A copy of the store takes over a device's entries.                      *)
LEMMA EntriesCopied ==
    ASSUME NEW S, NEW conf, StoreHasConsent(S, conf), NEW d \in Nodes, NEW e,
           EntriesHaveConsent(d, e, conf)
    PROVE  StoreHasConsent([S EXCEPT ![d] = e], conf)
<1>1. /\ S \in [Nodes -> Entries] /\ e \in Entries
      /\ \A n \in Nodes : EntriesHaveConsent(n, S[n], conf)
  BY DEF StoreHasConsent, EntriesHaveConsent
<1>2. [S EXCEPT ![d] = e] \in [Nodes -> Entries]
  BY <1>1
<1>3. ASSUME NEW n \in Nodes PROVE EntriesHaveConsent(n, [S EXCEPT ![d] = e][n], conf)
  BY <1>1
<1> QED  BY <1>2, <1>3 DEF StoreHasConsent

(* One entry is replaced.                                                  *)
LEMMA EntryReplaced ==
    ASSUME NEW S, NEW conf, StoreHasConsent(S, conf), NEW d \in Nodes, NEW p \in Nodes,
           NEW x \in Prints, PrintHasConsent(d, p, x, conf)
    PROVE  /\ StoreHasConsent([S EXCEPT ![d][p] = x], conf)
           /\ EntriesHaveConsent(d, [S EXCEPT ![d][p] = x][d], conf)
<1> DEFINE e == [S[d] EXCEPT ![p] = x]
<1>1. S[d] \in Entries /\ S \in [Nodes -> Entries]
      /\ \A n \in Nodes : PrintHasConsent(d, n, S[d][n], conf)
  BY DEF StoreHasConsent, EntriesHaveConsent
<1>2. e \in Entries
  BY <1>1 DEF Entries, Prints
<1>3. ASSUME NEW n \in Nodes PROVE PrintHasConsent(d, n, e[n], conf)
  <2>1. e[n] = IF n = p THEN x ELSE S[d][n]
    BY <1>1 DEF Entries
  <2> QED  BY <2>1, <1>1
<1>4. EntriesHaveConsent(d, e, conf)
  BY <1>2, <1>3 DEF EntriesHaveConsent
<1>5. [S EXCEPT ![d][p] = x] = [S EXCEPT ![d] = e]
  BY <1>1
<1>6. [S EXCEPT ![d] = e][d] = e
  BY <1>1
<1> QED  BY <1>4, <1>5, <1>6, EntriesCopied

(* TofuStore.trust: the copy and the file.                                 *)
LEMMA TrustKeeps ==
    ASSUME NEW d \in Nodes, NEW p \in Nodes, NEW x \in Prints, Trust(d, p, x),
           confirmed \subseteq confirmed', StoresHaveConsent, tls' = tls,
           PrintHasConsent(d, p, x, confirmed')
    PROVE  StoresHaveConsent'
<1>1. /\ StoreHasConsent(trust, confirmed') /\ StoreHasConsent(tls, confirmed')
      /\ StoreHasConsent(disk, confirmed')
  BY ConsentStays DEF StoresHaveConsent
<1>2. trust' = [trust EXCEPT ![d][p] = x] /\ disk' = [disk EXCEPT ![d] = trust'[d]]
  BY DEF Trust
<1>3. StoreHasConsent(trust', confirmed') /\ EntriesHaveConsent(d, trust'[d], confirmed')
  BY <1>1, <1>2, EntryReplaced
<1>4. StoreHasConsent(disk', confirmed')
  BY <1>1, <1>2, <1>3, EntriesCopied
<1> QED  BY <1>1, <1>3, <1>4 DEF StoresHaveConsent

LEMMA PairingTypesKept ==
    ASSUME PairingTypes, [PairingNext]_pairingVars PROVE PairingTypes'
<1>t. /\ restarts \in 0..MaxRestarts /\ cert \in [Nodes -> 0..MaxRestarts]
      /\ blocked \in [Nodes -> SUBSET Nodes]
      /\ pending \in [Nodes -> SUBSET PairingRequests] /\ wire \subseteq Payloads
      /\ \A d \in Nodes : \A r \in pending[d] : r.id \in used
      /\ \A m \in wire : m.id \in used
      /\ MaxRestarts \in Nat /\ TTL \in Nat /\ TTL # 0
  BY PairingAssumption DEF PairingTypes
<1>p. \A d \in Nodes : IdPrint(d) \in Prints
  BY <1>t DEF IdPrint, Prints
<1>l. 0 \in 0..TTL
  BY <1>t
  (* Nothing but the requests and payloads changes. *)
<1>a. ASSUME UNCHANGED <<restarts, cert, blocked>>,
             pending' \in [Nodes -> SUBSET PairingRequests], wire' \subseteq Payloads,
             \A d \in Nodes : \A r \in pending'[d] : r.id \in used',
             \A m \in wire' : m.id \in used'
      PROVE  PairingTypes'
  BY <1>a, <1>t DEF PairingTypes
<1>1. ASSUME NEW d \in Nodes, NEW p \in Nodes, NEW id \in RequestIds, request_pairing(d, p, id)
      PROVE  PairingTypes'
  <2> DEFINE r == [id |-> id, device |-> p, print |-> IdPrint(d), incoming |-> FALSE, age |-> 0]
             m == [kind |-> "request", id |-> id, from |-> d, to |-> p, device |-> p,
                   print |-> IdPrint(d), accepted |-> FALSE]
  <2>1. r \in PairingRequests /\ r.id = id
    BY <1>p, <1>l DEF PairingRequests
  <2>2. m \in Payloads /\ m.id = id
    BY <1>p DEF Payloads
  <2>3. /\ pending' = [pending EXCEPT ![d] = pending[d] \cup {r}] /\ wire' = wire \cup {m}
        /\ used' = used \cup {id} /\ UNCHANGED <<restarts, cert, blocked>>
    BY <1>1 DEF request_pairing
  <2> HIDE DEF r, m
  <2>4. pending' \in [Nodes -> SUBSET PairingRequests]
    BY <2>1, <2>3, <1>t
  <2>5. \A n \in Nodes : \A s \in pending'[n] : s \in pending[n] \/ s = r
    BY <2>3, <1>t
  <2>6. \A n \in Nodes : \A s \in pending'[n] : s.id \in used'
    BY <2>1, <2>3, <2>5, <1>t
  <2>7. wire' \subseteq Payloads /\ \A s \in wire' : s.id \in used'
    BY <2>2, <2>3, <1>t
  <2> QED  BY <2>3, <2>4, <2>6, <2>7, <1>a
<1>2. ASSUME NEW m \in wire, incoming_request(m)
      PROVE  PairingTypes'
  <2> DEFINE r == [id |-> m.id, device |-> m.device, print |-> m.print, incoming |-> TRUE, age |-> 0]
  <2>1. m \in Payloads /\ m.id \in used
    BY <1>t
  <2>2. m.to \in Nodes /\ m.device \in Nodes /\ m.print \in Prints /\ m.id \in RequestIds
    BY <2>1 DEF Payloads
  <2>3. r \in PairingRequests /\ r.id = m.id
    BY <2>2, <1>l DEF PairingRequests
  <2>4. /\ pending' = [pending EXCEPT ![m.to] = {s \in pending[m.to] : s.id # m.id} \cup {r}]
        /\ UNCHANGED <<wire, used, restarts, cert, blocked>>
    BY <1>2 DEF incoming_request
  <2> HIDE DEF r
  <2>5. pending' \in [Nodes -> SUBSET PairingRequests]
    BY <2>2, <2>3, <2>4, <1>t
  <2>6. \A n \in Nodes : \A s \in pending'[n] : s \in pending[n] \/ s = r
    BY <2>2, <2>4, <1>t
  <2>7. \A n \in Nodes : \A s \in pending'[n] : s.id \in used'
    BY <2>1, <2>3, <2>4, <2>6, <1>t
  <2> QED  BY <2>4, <2>5, <2>7, <1>t, <1>a
<1>3. ASSUME NEW m \in wire, accept_remote_confirmation(m)
      PROVE  PairingTypes'
  <2>1. m.to \in Nodes
    BY <1>t DEF Payloads
  <2>2. /\ pending' = [pending EXCEPT ![m.to] = {s \in pending[m.to] : s.id # m.id}]
        /\ UNCHANGED <<wire, used, restarts, cert, blocked>>
    BY <1>3 DEF accept_remote_confirmation
  <2>3. pending' \in [Nodes -> SUBSET PairingRequests]
        /\ \A n \in Nodes : pending'[n] \subseteq pending[n]
    BY <2>1, <2>2, <1>t
  <2> QED  BY <2>2, <2>3, <1>t, <1>a
<1>4. ASSUME NEW m \in wire, LosePayload(m) PROVE PairingTypes'
  BY <1>4, <1>t, <1>a DEF LosePayload
<1>5. ASSUME NEW d \in Nodes, NEW r \in pending[d], confirm_pairing(d, r) \/ reject_pairing(d, r)
      PROVE  PairingTypes'
  <2>1. r \in PairingRequests /\ r.id \in used
    BY <1>t
  <2>2. /\ pending' = [pending EXCEPT ![d] = pending[d] \ {r}]
        /\ UNCHANGED <<used, restarts, cert, blocked>>
    BY <1>5 DEF confirm_pairing, reject_pairing, Without
  <2>3. pending' \in [Nodes -> SUBSET PairingRequests]
        /\ \A n \in Nodes : pending'[n] \subseteq pending[n]
    BY <2>2, <1>t
  <2>4. wire' = wire \/ Answer(d, r, TRUE) \/ Answer(d, r, FALSE)
    BY <1>5 DEF confirm_pairing, reject_pairing
  <2>5. ASSUME NEW yes \in BOOLEAN, NEW n \in Nodes
        PROVE  LET m == [kind |-> "confirm", id |-> r.id, from |-> d, to |-> n, device |-> d,
                         print |-> IdPrint(d), accepted |-> yes]
               IN m \in Payloads /\ m.id \in used
    BY <2>1, <1>p DEF PairingRequests, Payloads
  <2>6. wire' \subseteq Payloads /\ \A m \in wire' : m.id \in used'
    BY <2>2, <2>4, <2>5, <1>t DEF Answer
  <2> QED  BY <2>2, <2>3, <2>6, <1>t, <1>a
<1>6. ASSUME NEW d \in Nodes, NEW p \in Nodes, block_peer(d, p) \/ unblock_peer(d, p)
      PROVE  PairingTypes'
  <2>1. UNCHANGED <<restarts, cert, pending, wire, used>>
    BY <1>6 DEF block_peer, unblock_peer
  <2>2. \E s \in SUBSET Nodes : blocked' = [blocked EXCEPT ![d] = s]
    BY <1>6, <1>t DEF block_peer, unblock_peer
  <2>3. blocked' \in [Nodes -> SUBSET Nodes]
    BY <2>2, <1>t
  <2> QED  BY <2>1, <2>3, <1>t DEF PairingTypes
<1>7. ASSUME NEW d \in Nodes, NEW p \in Nodes, verify_server_cert(d, p)
      PROVE  PairingTypes'
  BY <1>7, <1>t, <1>a DEF verify_server_cert
<1>8. ASSUME NEW d \in Nodes, reap_expired(d) PROVE PairingTypes'
  <2>1. /\ pending' = [pending EXCEPT ![d] = {r \in pending[d] : ~IsExpired(r)}]
        /\ UNCHANGED <<wire, used, restarts, cert, blocked>>
    BY <1>8 DEF reap_expired
  <2>2. pending' \in [Nodes -> SUBSET PairingRequests]
        /\ \A n \in Nodes : pending'[n] \subseteq pending[n]
    BY <2>1, <1>t
  <2> QED  BY <2>1, <2>2, <1>t, <1>a
<1>9. ASSUME NEW d \in Nodes, NewTransport(d) \/ Restart(d) PROVE PairingTypes'
  <2>1. restarts < MaxRestarts /\ restarts' = restarts + 1 /\ UNCHANGED <<wire, used>>
    BY <1>9 DEF NewTransport, Restart
  <2>2. restarts' \in 0..MaxRestarts /\ restarts + 1 \in 0..MaxRestarts /\ 0 \in 0..MaxRestarts
    BY <2>1, <1>t
  <2>3. \E k \in 0..MaxRestarts : cert' = [cert EXCEPT ![d] = k]
    BY <1>9, <2>2 DEF NewTransport, Restart
  <2>4. cert' \in [Nodes -> 0..MaxRestarts]
    BY <2>3, <1>t
  <2>5. pending' = pending \/ pending' = [pending EXCEPT ![d] = {}]
    BY <1>9 DEF NewTransport, Restart
  <2>6. pending' \in [Nodes -> SUBSET PairingRequests]
        /\ \A n \in Nodes : pending'[n] \subseteq pending[n]
    BY <2>5, <1>t
  <2>7. blocked' = blocked \/ blocked' = [blocked EXCEPT ![d] = {}]
    BY <1>9 DEF NewTransport, Restart
  <2>8. blocked' \in [Nodes -> SUBSET Nodes]
    BY <2>7, <1>t
  <2> QED  BY <2>1, <2>2, <2>4, <2>6, <2>8, <1>t DEF PairingTypes
<1>10. ASSUME NEW d \in Nodes, Reload(d) PROVE PairingTypes'
  BY <1>10, <1>t, <1>a DEF Reload
<1>11. CASE PairingTick
  <2> DEFINE Older(r) == [r EXCEPT !.age = IF r.age < TTL THEN r.age + 1 ELSE TTL]
  <2>1. /\ pending' = [d \in Nodes |-> {Older(r) : r \in pending[d]}]
        /\ UNCHANGED <<wire, used, restarts, cert, blocked>>
    BY <1>11 DEF PairingTick
  <2>2. ASSUME NEW r \in PairingRequests PROVE Older(r) \in PairingRequests /\ Older(r).id = r.id
    <3>1. r.age \in 0..TTL
      BY DEF PairingRequests
    <3>2. (IF r.age < TTL THEN r.age + 1 ELSE TTL) \in 0..TTL
      BY <3>1, <1>t
    <3> QED  BY <3>2 DEF PairingRequests
  <2> HIDE DEF Older
  <2>3. pending' \in [Nodes -> SUBSET PairingRequests]
    BY <2>1, <2>2, <1>t
  <2>4. \A d \in Nodes : \A r \in pending'[d] : r.id \in used'
    BY <2>1, <2>2, <1>t
  <2> QED  BY <2>1, <2>3, <2>4, <1>t, <1>a
<1>12. CASE UNCHANGED pairingVars
  BY <1>12, <1>t, <1>a DEF pairingVars
<1> QED
  BY <1>1, <1>2, <1>3, <1>4, <1>5, <1>6, <1>7, <1>8, <1>9, <1>10, <1>11, <1>12 DEF PairingNext

(* Every step keeps that the accepted confirmations under way, and what    *)
(* they and a user's confirmation put into the stores, have consent.       *)
LEMMA PairingConsentKept ==
    ASSUME PairingInv, [PairingNext]_pairingVars
    PROVE  AnswersHaveConsent' /\ StoresHaveConsent'
<1>t. /\ cert \in [Nodes -> 0..MaxRestarts] /\ wire \subseteq Payloads
      /\ pending \in [Nodes -> SUBSET PairingRequests]
      /\ AnswersHaveConsent /\ StoresHaveConsent
      /\ MaxRestarts \in Nat /\ TTL \in Nat
  BY PairingAssumption DEF PairingInv, PairingTypes
<1>p. \A d \in Nodes : IdPrint(d) \in Prints
  BY <1>t DEF IdPrint, Prints
<1>w. ASSUME confirmed \subseteq confirmed',
             \A m \in wire' : m \in wire \/ m.kind # "confirm" \/ ~m.accepted
      PROVE  AnswersHaveConsent'
  BY <1>w, <1>t DEF AnswersHaveConsent, AnswerHasConsent
<1>s. ASSUME UNCHANGED <<trust, tls, disk, confirmed>> PROVE StoresHaveConsent'
  BY <1>s, <1>t DEF StoresHaveConsent
<1>1. ASSUME NEW d \in Nodes, NEW p \in Nodes, NEW id \in RequestIds, request_pairing(d, p, id)
      PROVE  AnswersHaveConsent' /\ StoresHaveConsent'
  BY <1>1, <1>w, <1>s DEF request_pairing
<1>2. ASSUME NEW m \in wire, incoming_request(m) \/ LosePayload(m)
      PROVE  AnswersHaveConsent' /\ StoresHaveConsent'
  BY <1>2, <1>w, <1>s DEF incoming_request, LosePayload
<1>3. ASSUME NEW m \in wire, accept_remote_confirmation(m)
      PROVE  AnswersHaveConsent' /\ StoresHaveConsent'
  <2>1. m.to \in Nodes /\ m.device \in Nodes /\ m.print \in Prints
    BY <1>t DEF Payloads
  <2>2. m.kind = "confirm" /\ UNCHANGED <<tls, wire, confirmed>>
    BY <1>3 DEF accept_remote_confirmation
  <2>3. CASE m.accepted
    <3>1. Trust(m.to, m.device, m.print)
      BY <1>3, <2>3 DEF accept_remote_confirmation
    <3>2. AnswerHasConsent(m, confirmed)
      BY <1>t, <2>2, <2>3 DEF AnswersHaveConsent
    <3>3. PrintHasConsent(m.to, m.device, m.print, confirmed')
      BY <3>2, <2>2 DEF PrintHasConsent, AnswerHasConsent, Agreed
    <3>4. StoresHaveConsent'
      BY <3>1, <3>3, <2>1, <2>2, <1>t, TrustKeeps
    <3> QED  BY <3>4, <2>2, <1>w
  <2>4. CASE ~m.accepted
    BY <1>3, <2>2, <2>4, <1>w, <1>s DEF accept_remote_confirmation
  <2> QED  BY <2>3, <2>4
<1>4. ASSUME NEW d \in Nodes, NEW r \in pending[d], confirm_pairing(d, r)
      PROVE  AnswersHaveConsent' /\ StoresHaveConsent'
  <2>1. r.age \in 0..TTL /\ r.device \in Nodes /\ r.print \in Prints
    BY <1>t DEF PairingRequests
  <2>2. confirmed \subseteq confirmed' /\ tls' = tls
    BY <1>4 DEF confirm_pairing
  <2>3. CASE IsExpired(r)
    <3>1. UNCHANGED <<trust, disk, wire>>
      BY <1>4, <2>3 DEF confirm_pairing
    <3>2. StoresHaveConsent'
      BY <3>1, <2>2, <1>t, ConsentStays DEF StoresHaveConsent
    <3> QED  BY <3>1, <3>2, <2>2, <1>w
  <2>4. CASE ~IsExpired(r)
    <3>1. r.age < TTL
      BY <2>1, <2>4, <1>t DEF IsExpired
    <3>2. Confirmation(d, r) \in confirmed' /\ Trust(d, r.device, r.print) /\ Answer(d, r, TRUE)
      BY <1>4, <2>4, <3>1 DEF confirm_pairing
    <3>3. \E c \in confirmed' : c.on = d /\ c.device = r.device /\ c.print = r.print
      BY <3>2 DEF Confirmation
    <3>4. PrintHasConsent(d, r.device, r.print, confirmed')
      BY <3>3 DEF PrintHasConsent, Agreed
    <3>5. StoresHaveConsent'
      BY <3>2, <3>4, <2>1, <2>2, <1>t, TrustKeeps
    <3>6. \A m \in wire' : m \in wire \/ (/\ m.device = d /\ m.print = IdPrint(d)
                                          /\ IdPrint(m.to) = r.print)
      BY <3>2 DEF Answer
    <3>7. AnswersHaveConsent'
      <4> SUFFICES ASSUME NEW m \in wire', m.kind = "confirm", m.accepted
                   PROVE  AnswerHasConsent(m, confirmed')
        BY DEF AnswersHaveConsent
      <4>1. CASE m \in wire
        BY <4>1, <2>2, <1>t DEF AnswersHaveConsent, AnswerHasConsent
      <4>2. CASE m.device = d /\ m.print = IdPrint(d) /\ IdPrint(m.to) = r.print
        BY <4>2, <3>3 DEF AnswerHasConsent
      <4> QED  BY <4>1, <4>2, <3>6
    <3> QED  BY <3>5, <3>7
  <2> QED  BY <2>3, <2>4
<1>5. ASSUME NEW d \in Nodes, NEW r \in pending[d], reject_pairing(d, r)
      PROVE  AnswersHaveConsent' /\ StoresHaveConsent'
  <2>1. UNCHANGED <<trust, tls, disk, confirmed>> /\ Answer(d, r, FALSE)
    BY <1>5 DEF reject_pairing
  <2>2. \A m \in wire' : m \in wire \/ ~m.accepted
    BY <2>1 DEF Answer
  <2> QED  BY <2>1, <2>2, <1>w, <1>s
<1>6. ASSUME NEW d \in Nodes, NEW p \in Nodes, block_peer(d, p) \/ unblock_peer(d, p)
      PROVE  AnswersHaveConsent' /\ StoresHaveConsent'
  BY <1>6, <1>w, <1>s DEF block_peer, unblock_peer
<1>7. ASSUME NEW d \in Nodes, NEW p \in Nodes, verify_server_cert(d, p)
      PROVE  AnswersHaveConsent' /\ StoresHaveConsent'
  <2>1. /\ cert[p] # 0 /\ tls' = [tls EXCEPT ![d][p] = CertPrint(p)]
        /\ disk' = [disk EXCEPT ![d] = tls'[d]] /\ UNCHANGED <<trust, wire, confirmed>>
    BY <1>7 DEF verify_server_cert
  <2>2. CertPrint(p) \in Prints
    BY <1>t DEF CertPrint, Prints
  <2>3. PrintHasConsent(d, p, CertPrint(p), confirmed)
    BY <2>1 DEF PrintHasConsent, CertPrint
  <2>4. StoreHasConsent(tls', confirmed) /\ EntriesHaveConsent(d, tls'[d], confirmed)
    BY <2>1, <2>2, <2>3, <1>t, EntryReplaced DEF StoresHaveConsent
  <2>5. StoreHasConsent(disk', confirmed)
    BY <2>1, <2>4, <1>t, EntriesCopied DEF StoresHaveConsent
  <2> QED  BY <2>1, <2>4, <2>5, <1>t, <1>w DEF StoresHaveConsent
<1>8. ASSUME NEW d \in Nodes, NewTransport(d) \/ Restart(d) \/ Reload(d)
      PROVE  AnswersHaveConsent' /\ StoresHaveConsent'
  <2>1. /\ UNCHANGED <<disk, wire, confirmed>>
        /\ (trust' = trust \/ trust' = [trust EXCEPT ![d] = disk[d]])
        /\ (tls' = tls \/ tls' = [tls EXCEPT ![d] = disk[d]])
    BY <1>8 DEF NewTransport, Restart, Reload, reload_if_changed
  <2>2. EntriesHaveConsent(d, disk[d], confirmed)
    BY <1>t DEF StoresHaveConsent, StoreHasConsent
  <2>3. StoreHasConsent(trust', confirmed) /\ StoreHasConsent(tls', confirmed)
    BY <2>1, <2>2, <1>t, EntriesCopied DEF StoresHaveConsent
  <2> QED  BY <2>1, <2>3, <1>t, <1>w DEF StoresHaveConsent
<1>9. CASE (\E d \in Nodes : reap_expired(d)) \/ PairingTick \/ UNCHANGED pairingVars
  BY <1>9, <1>w, <1>s DEF reap_expired, PairingTick, pairingVars
<1> QED  BY <1>1, <1>2, <1>3, <1>4, <1>5, <1>6, <1>7, <1>8, <1>9 DEF PairingNext

LEMMA PairingInvHolds == PairingSpec => []PairingInv
<1>1. PairingInit => PairingInv
  <2> SUFFICES ASSUME PairingInit PROVE PairingInv
    OBVIOUS
  <2>1. MaxRestarts \in Nat /\ NoPrint \notin Prints
    BY PairingAssumption DEF Prints
  <2>2. PairingTypes
    BY <2>1 DEF PairingInit, PairingTypes
  <2>3. AnswersHaveConsent
    BY DEF PairingInit, AnswersHaveConsent
  <2>5. NoEntries \in Entries /\ \A n \in Nodes : NoEntries[n] = NoPrint
    BY DEF NoEntries, Entries
  <2>6. \A d \in Nodes : EntriesHaveConsent(d, NoEntries, confirmed)
    BY <2>5 DEF EntriesHaveConsent, PrintHasConsent
  <2>7. StoresHaveConsent
    BY <2>5, <2>6 DEF PairingInit, StoresHaveConsent, StoreHasConsent
  <2> QED  BY <2>2, <2>3, <2>7 DEF PairingInv
<1>2. PairingInv /\ [PairingNext]_pairingVars => PairingInv'
  BY PairingTypesKept, PairingConsentKept DEF PairingInv
<1> QED  BY <1>1, <1>2, PTL DEF PairingSpec

(* A print in any copy of a device's trust store is one that a user of the *)
(* device or of the peer agreed to in time, or a certificate of the peer   *)
(* (pairing.rs confirm_pairing and accept_remote_confirmation, tofu.rs,    *)
(* tls.rs verify_server_cert).                                             *)
THEOREM TrustHasConsentHolds == PairingSpec => []TrustHasConsent
<1>1. PairingInv => TrustHasConsent
  <2> SUFFICES ASSUME PairingInv, NEW d \in Nodes, NEW p \in Nodes,
                      NEW x \in {trust[d][p], tls[d][p], disk[d][p]} \ {NoPrint}
               PROVE  Agreed(d, p, x, confirmed) \/ (x[1] = p /\ x[2] # 0)
    BY DEF TrustHasConsent
  <2>1. /\ PrintHasConsent(d, p, trust[d][p], confirmed) /\ PrintHasConsent(d, p, tls[d][p], confirmed)
        /\ PrintHasConsent(d, p, disk[d][p], confirmed)
    BY DEF PairingInv, StoresHaveConsent, StoreHasConsent, EntriesHaveConsent
  <2>2. PrintHasConsent(d, p, x, confirmed)
    BY <2>1
  <2> QED  BY <2>2 DEF PrintHasConsent
<1> QED  BY <1>1, PairingInvHolds, PTL

-----------------------------------------------------------------------------
(* The agent on the phone. *)

(* The run that listens has bound the port and has not left serve().       *)
Listening == {"accepting", "handshake", "session", "paused"}

AgentOwners ==
    /\ \A a \in Runs : Alive(a) => SHUTDOWN_TX = a \/ signal[a] # "open"
    /\ port # NoRun => agentStage[port] \in Listening

(* The identities in use and in the database were generated by runs that   *)
(* work with their own.  Two of these, or one and a run that is about to   *)
(* save, have a reason in common; what is saved stays, under one name or   *)
(* another.                                                                *)
Reason(x, y) == x \in failed \/ y \in failed \/ {x, y} \in rivals

KeysMade ==
    /\ \A a \in Runs : nodeKey[a] # NoKey => /\ nodeKey[nodeKey[a]] = nodeKey[a]
                                             /\ agentStage[a] \notin Beginning \cup {"none"}
    /\ storedKey # NoKey => nodeKey[storedKey] = storedKey
    /\ \A x \in Runs : nodeKey[x] = x /\ x \notin failed => storedKey # NoKey

KeysHaveReasons ==
    /\ \A x, y \in Runs : x # y /\ nodeKey[x] = x /\ nodeKey[y] = y => Reason(x, y)
    /\ \A x, y \in Runs : x # y /\ nodeKey[x] = x /\ agentStage[y] = "saving" => Reason(x, y)
    /\ \A x, y \in Runs : x # y /\ agentStage[x] = "saving" /\ agentStage[y] = "saving" =>
           {x, y} \in rivals

OneKey == KeysMade /\ KeysHaveReasons

AgentInv == AgentTypeOK /\ AgentOwners /\ OneKey

LEMMA AgentStep == AgentInv /\ [AgentNext]_agentRunVars => AgentInv'
<1> SUFFICES ASSUME AgentInv, [AgentNext]_agentRunVars PROVE AgentInv'
  OBVIOUS
<1>t. /\ agentStage \in [Runs -> Stages] /\ SHUTDOWN_TX \in Runs \cup {NoRun}
      /\ signal \in [Runs -> {"open", "sent", "closed"}] /\ port \in Runs \cup {NoRun}
      /\ nodeKey \in [Runs -> Runs \cup {NoKey}] /\ storedKey \in Runs \cup {NoKey}
      /\ NoRun \notin Runs /\ NoKey \notin Runs
  BY RunAssumption DEF AgentInv, AgentTypeOK
<1>v. /\ nodeState \in {"Offline", "Listening", "Connected"} /\ events \subseteq Runs
      /\ fileServer \in BOOLEAN /\ failed \subseteq Runs /\ rivals \subseteq SUBSET Runs
      /\ visitors \in 0..MaxVisitors
      /\ MaxVisitors \in Nat
  BY RunAssumption DEF AgentInv, AgentTypeOK
<1>i. AgentOwners /\ OneKey
  BY DEF AgentInv
  (* A run moves on, and nothing but its stage changes. *)
<1>g. ASSUME NEW a \in Runs, NEW s \in Stages, Goes(a, s)
      PROVE  /\ agentStage' \in [Runs -> Stages] /\ agentStage'[a] = s
             /\ \A b \in Runs \ {a} : agentStage'[b] = agentStage[b]
  BY <1>g, <1>t DEF Goes
<1>m. ASSUME NEW a \in Runs, NEW s \in Stages, Goes(a, s),
             UNCHANGED <<SHUTDOWN_TX, signal>>,
             s \in Beginning \cup Serving => Alive(a),
             \/ (port' = port /\ (port = a => s \in Listening))
             \/ (port' = a /\ s \in Listening)
             \/ port' = NoRun
      PROVE  AgentOwners'
  <2>1. \A b \in Runs : Alive(b)' => Alive(b)
    BY <1>m, <1>g DEF Alive
  <2>2. port' # NoRun => agentStage'[port'] \in Listening
    BY <1>m, <1>g, <1>i, <1>t DEF AgentOwners
  <2> QED  BY <2>1, <2>2, <1>m, <1>i DEF AgentOwners, Alive
<1>k. ASSUME NEW a \in Runs, NEW s \in Stages, Goes(a, s),
             UNCHANGED <<nodeKey, storedKey, failed, rivals>>,
             s \in Beginning \cup {"none"} => agentStage[a] \in Beginning \cup {"none"},
             s # "saving"
      PROVE  OneKey'
  <2>1. /\ \A b \in Runs : agentStage'[b] = "saving" => agentStage[b] = "saving"
        /\ \A b \in Runs : agentStage'[b] \in Beginning \cup {"none"} =>
                           agentStage[b] \in Beginning \cup {"none"}
    BY <1>k, <1>g
  <2>2. KeysMade'
    BY <2>1, <1>k, <1>i DEF OneKey, KeysMade
  <2>3. KeysHaveReasons'
    BY <2>1, <1>k, <1>i DEF OneKey, KeysHaveReasons, Reason
  <2> QED  BY <2>2, <2>3 DEF OneKey
<1>u. ASSUME UNCHANGED <<agentStage, nodeKey, storedKey, failed, rivals>> PROVE OneKey'
  BY <1>u, <1>i DEF OneKey, KeysMade, KeysHaveReasons, Reason
<1>1. CASE stopAgent
  <2>1. /\ signal' = [b \in Runs |-> IF b = SHUTDOWN_TX THEN "sent" ELSE signal[b]]
        /\ SHUTDOWN_TX' = NoRun /\ nodeState' = "Offline"
        /\ UNCHANGED <<agentStage, port, nodeKey, storedKey, events, fileServer, visitors, failed, rivals>>
    BY <1>1 DEF stopAgent
  <2>2. AgentTypeOK'
    BY <2>1, <1>t, <1>v DEF AgentTypeOK
  <2>3. AgentOwners'
    BY <2>1, <1>t, <1>i DEF AgentOwners, Alive
  <2>4. OneKey'
    BY <2>1, <1>u
  <2> QED  BY <2>2, <2>3, <2>4 DEF AgentInv
<1>2. CASE startServer
  <2>1. fileServer' \in BOOLEAN
    BY <1>2, <1>v DEF startServer
  <2>2. UNCHANGED <<agentStage, SHUTDOWN_TX, signal, port, nodeKey, storedKey, nodeState, events,
                    visitors, failed, rivals>>
    BY <1>2 DEF startServer
  <2>3. AgentTypeOK'
    BY <2>1, <2>2, <1>t, <1>v DEF AgentTypeOK
  <2>4. AgentOwners' /\ OneKey'
    BY <2>2, <1>i, <1>u DEF AgentOwners, Alive
  <2> QED  BY <2>3, <2>4 DEF AgentInv
<1>3. CASE ProcessDies
  <2>1. /\ agentStage' = [a \in Runs |-> IF agentStage[a] = "none" THEN "none" ELSE "ended"]
        /\ SHUTDOWN_TX' = NoRun /\ port' = NoRun /\ events' = {} /\ fileServer' = FALSE
        /\ nodeState' = "Offline" /\ UNCHANGED <<signal, nodeKey, storedKey, visitors, failed, rivals>>
    BY <1>3 DEF ProcessDies
  <2>2. \A a \in Runs : agentStage'[a] \in {"none", "ended"}
    BY <2>1
  <2>3. agentStage' \in [Runs -> Stages]
    BY <2>1 DEF Stages
  <2>4. AgentTypeOK'
    BY <2>1, <2>3, <1>t, <1>v DEF AgentTypeOK
  <2>5. AgentOwners'
    BY <2>1, <2>2 DEF AgentOwners, Alive, Beginning, Serving
  <2>6. OneKey'
    <3>1. \A a \in Runs : /\ agentStage'[a] # "saving"
                         /\ agentStage'[a] \in Beginning \cup {"none"} => agentStage[a] = "none"
      BY <2>1, <2>2 DEF Beginning
    <3>2. KeysMade'
      BY <2>1, <3>1, <1>i DEF OneKey, KeysMade
    <3>3. KeysHaveReasons'
      BY <2>1, <3>1, <1>i DEF OneKey, KeysHaveReasons, Reason
    <3> QED  BY <3>2, <3>3 DEF OneKey
  <2> QED  BY <2>4, <2>5, <2>6 DEF AgentInv
<1>4. ASSUME NEW a \in Runs, startAgent(a) PROVE AgentInv'
  <2>1. /\ agentStage[a] = "none" /\ Goes(a, "starting")
        /\ signal' = [b \in Runs |-> IF b = SHUTDOWN_TX THEN "closed" ELSE signal[b]]
        /\ SHUTDOWN_TX' = a /\ nodeState' = "Listening"
        /\ UNCHANGED <<port, nodeKey, storedKey, events, fileServer, visitors, failed, rivals>>
    BY <1>4 DEF startAgent
  <2>2. /\ agentStage' \in [Runs -> Stages] /\ agentStage'[a] = "starting"
        /\ \A b \in Runs \ {a} : agentStage'[b] = agentStage[b]
    BY <2>1, <1>g DEF Stages, Beginning
  <2>3. AgentTypeOK'
    BY <2>1, <2>2, <1>t, <1>v DEF AgentTypeOK
  <2>4. \A b \in Runs : Alive(b)' => SHUTDOWN_TX' = b \/ signal'[b] # "open"
    BY <2>1, <2>2, <1>t, <1>i DEF AgentOwners, Alive
  <2>5. port' # NoRun => agentStage'[port'] \in Listening
    BY <2>1, <2>2, <1>t, <1>i DEF AgentOwners, Listening
  <2>6. OneKey'
    BY <2>1, <1>k DEF Stages, Beginning
  <2> QED  BY <2>3, <2>4, <2>5, <2>6 DEF AgentInv, AgentOwners
<1>5. ASSUME NEW a \in Runs, startAgentRefused(a) PROVE AgentInv'
  <2>1. /\ agentStage[a] = "none" /\ Goes(a, "ended") /\ nodeState' = "Listening"
        /\ UNCHANGED <<SHUTDOWN_TX, signal, port, nodeKey, storedKey, events, fileServer, visitors, failed, rivals>>
    BY <1>5 DEF startAgentRefused
  <2>2. agentStage' \in [Runs -> Stages]
    BY <2>1, <1>g DEF Stages
  <2>3. AgentTypeOK'
    BY <2>1, <2>2, <1>t, <1>v DEF AgentTypeOK
  <2>4. port # a
    BY <2>1, <1>i, <1>t DEF AgentOwners, Listening
  <2>5. AgentOwners'
    BY <2>1, <2>4, <1>m DEF Stages, Beginning, Serving
  <2>6. OneKey'
    BY <2>1, <1>k DEF Stages, Beginning
  <2> QED  BY <2>3, <2>5, <2>6 DEF AgentInv
<1>6. ASSUME NEW a \in Runs, OpenDatabase(a) PROVE AgentInv'
  <2>1. /\ agentStage[a] = "starting" /\ (Goes(a, "loading") \/ Goes(a, "ended"))
        /\ UNCHANGED <<SHUTDOWN_TX, signal, port, nodeKey, storedKey, nodeState, events, fileServer,
                       visitors, failed, rivals>>
    BY <1>6 DEF OpenDatabase
  <2>2. PICK s \in {"loading", "ended"} : Goes(a, s)
    BY <2>1
  <2>3. s \in Stages /\ agentStage' \in [Runs -> Stages]
    BY <2>2, <1>g DEF Stages, Beginning
  <2>4. AgentTypeOK'
    BY <2>1, <2>3, <1>t, <1>v DEF AgentTypeOK
  <2>5. port # a /\ Alive(a) /\ agentStage[a] \in Beginning /\ s # "saving"
    BY <2>1, <1>i, <1>t DEF AgentOwners, Listening, Alive, Beginning
  <2>6. AgentOwners'
    BY <2>1, <2>2, <2>3, <2>5, <1>m
  <2>7. OneKey'
    BY <2>1, <2>2, <2>3, <2>5, <1>k
  <2> QED  BY <2>4, <2>6, <2>7 DEF AgentInv
<1>7. ASSUME NEW a \in Runs, LoadKey(a) PROVE AgentInv'
  <2> DEFINE Noted == /\ failed' = IF storedKey # NoKey THEN failed \cup {a} ELSE failed
                      /\ rivals' = rivals \cup {{a, b} : b \in {b \in Runs : agentStage[b] = "saving"}}
  <2>1. /\ agentStage[a] = "loading"
        /\ UNCHANGED <<SHUTDOWN_TX, signal, port, storedKey, nodeState, events, fileServer, visitors>>
    BY <1>7 DEF LoadKey
  <2>2. PICK s \in {"binding", "saving"} :
            /\ Goes(a, s)
            /\ s = "binding" => /\ storedKey # NoKey /\ UNCHANGED <<failed, rivals>>
                                /\ nodeKey' = [nodeKey EXCEPT ![a] = storedKey]
            /\ s = "saving" => /\ UNCHANGED nodeKey /\ Noted
    <3>1. CASE Goes(a, "binding") /\ storedKey # NoKey /\ UNCHANGED <<failed, rivals>>
               /\ nodeKey' = [nodeKey EXCEPT ![a] = storedKey]
      BY <3>1
    <3>2. CASE Goes(a, "saving") /\ UNCHANGED nodeKey /\ Noted
      BY <3>2
    <3> QED  BY <1>7, <3>1, <3>2 DEF LoadKey
  <2>3. s \in Stages /\ agentStage' \in [Runs -> Stages] /\ agentStage'[a] = s
        /\ \A b \in Runs \ {a} : agentStage'[b] = agentStage[b]
    BY <2>2, <1>g DEF Stages, Beginning, Serving
  <2>4. nodeKey' \in [Runs -> Runs \cup {NoKey}]
    BY <2>2, <1>t
  <2>5. AgentTypeOK'
    BY <2>1, <2>2, <2>3, <2>4, <1>t, <1>v DEF AgentTypeOK
  <2>6. port # a /\ Alive(a) /\ agentStage[a] \in Beginning
    BY <2>1, <1>i, <1>t DEF AgentOwners, Listening, Alive, Beginning
  <2>7. AgentOwners'
    BY <2>1, <2>2, <2>3, <2>6, <1>m
  <2>8. nodeKey[a] = NoKey
    BY <2>6, <1>i DEF OneKey, KeysMade
  <2>9. OneKey'
    <3>1. CASE s = "binding"
      <4>1. /\ nodeKey'[a] = storedKey /\ storedKey # a /\ storedKey \in Runs
            /\ \A b \in Runs \ {a} : nodeKey'[b] = nodeKey[b]
        BY <3>1, <2>2, <2>8, <1>t, <1>i DEF OneKey, KeysMade
      <4>2. \A b \in Runs : nodeKey'[b] = b <=> nodeKey[b] = b
        BY <4>1, <2>8, <1>t
      <4>3. KeysMade'
        BY <3>1, <4>1, <4>2, <2>1, <2>2, <2>3, <2>8, <1>t, <1>i DEF OneKey, KeysMade, Beginning
      <4>4. KeysHaveReasons'
        BY <3>1, <4>2, <2>2, <2>3, <1>i DEF OneKey, KeysHaveReasons, Reason
      <4> QED  BY <4>3, <4>4 DEF OneKey
    <3>2. CASE s = "saving"
      <4>1. /\ nodeKey' = nodeKey /\ (storedKey # NoKey => a \in failed')
            /\ \A b \in Runs : agentStage[b] = "saving" => {a, b} \in rivals' /\ {b, a} \in rivals'
        BY <3>2, <2>2
      <4>2. failed \subseteq failed' /\ rivals \subseteq rivals'
        BY <3>2, <2>2
      <4>3. KeysMade'
        BY <4>1, <4>2, <2>1, <2>3, <2>8, <1>i DEF OneKey, KeysMade
      <4>4. \A x, y \in Runs : Reason(x, y) => Reason(x, y)'
        BY <4>2 DEF Reason
      <4>5. \A x \in Runs : nodeKey[x] = x => Reason(x, a)'
        BY <4>1, <4>2, <1>i DEF OneKey, KeysMade, Reason
      <4>6. KeysHaveReasons'
        <5>1. \A x, y \in Runs : x # y /\ nodeKey'[x] = x /\ nodeKey'[y] = y => Reason(x, y)'
          BY <4>1, <4>4, <1>i DEF OneKey, KeysHaveReasons
        <5>2. \A x, y \in Runs : x # y /\ nodeKey'[x] = x /\ agentStage'[y] = "saving" => Reason(x, y)'
          BY <4>1, <4>4, <4>5, <2>3, <1>i DEF OneKey, KeysHaveReasons
        <5>3. \A x, y \in Runs : x # y /\ agentStage'[x] = "saving" /\ agentStage'[y] = "saving" =>
                  {x, y} \in rivals'
          BY <4>1, <4>2, <2>3, <1>i DEF OneKey, KeysHaveReasons
        <5> QED  BY <5>1, <5>2, <5>3 DEF KeysHaveReasons, Reason
      <4> QED  BY <4>3, <4>6 DEF OneKey
    <3> QED  BY <3>1, <3>2, <2>2
  <2> QED  BY <2>5, <2>7, <2>9 DEF AgentInv
<1>8. ASSUME NEW a \in Runs, SaveKey(a) PROVE AgentInv'
  <2>1. /\ agentStage[a] = "saving" /\ Goes(a, "binding") /\ nodeKey' = [nodeKey EXCEPT ![a] = a]
        /\ UNCHANGED <<SHUTDOWN_TX, signal, port, nodeState, events, fileServer, visitors>>
        /\ UNCHANGED rivals
        /\ ((storedKey' = a /\ UNCHANGED failed) \/ (UNCHANGED storedKey /\ failed' = failed \cup {a}))
    BY <1>8 DEF SaveKey
  <2>2. "binding" \in Stages /\ agentStage' \in [Runs -> Stages] /\ agentStage'[a] = "binding"
        /\ \A b \in Runs \ {a} : agentStage'[b] = agentStage[b]
    BY <2>1, <1>g DEF Stages, Serving
  <2>3. nodeKey' \in [Runs -> Runs \cup {NoKey}] /\ nodeKey'[a] = a
        /\ \A b \in Runs \ {a} : nodeKey'[b] = nodeKey[b]
    BY <2>1, <1>t
  <2>4. AgentTypeOK'
    BY <2>1, <2>2, <2>3, <1>t, <1>v DEF AgentTypeOK
  <2>5. port # a /\ Alive(a) /\ agentStage[a] \in Beginning
    BY <2>1, <1>i, <1>t DEF AgentOwners, Listening, Alive, Beginning
  <2>6. AgentOwners'
    BY <2>1, <2>2, <2>5, <1>m
  <2>7. nodeKey[a] = NoKey /\ \A b \in Runs : nodeKey[b] # a
    BY <2>5, <1>t, <1>i DEF OneKey, KeysMade
  <2>8. OneKey'
    <3>1. /\ failed \subseteq failed' /\ (storedKey' = a \/ a \in failed')
          /\ (storedKey' = a \/ storedKey' = storedKey)
          /\ \A x, y \in Runs : Reason(x, y) => Reason(x, y)'
      BY <2>1 DEF Reason
    <3>2. KeysMade'
      <4>1. ASSUME NEW b \in Runs, nodeKey'[b] # NoKey
            PROVE  /\ nodeKey'[nodeKey'[b]] = nodeKey'[b]
                   /\ agentStage'[b] \notin Beginning \cup {"none"}
        <5>1. CASE b = a
          BY <5>1, <2>2, <2>3 DEF Beginning
        <5>2. CASE b # a
          BY <5>2, <4>1, <2>2, <2>3, <2>7, <1>t, <1>i DEF OneKey, KeysMade
        <5> QED  BY <5>1, <5>2
      <4>2. storedKey' # NoKey => nodeKey'[storedKey'] = storedKey'
        BY <3>1, <2>3, <2>7, <1>t, <1>i DEF OneKey, KeysMade
      <4>3. \A x \in Runs : nodeKey'[x] = x /\ x \notin failed' => storedKey' # NoKey
        BY <3>1, <2>3, <1>t, <1>i DEF OneKey, KeysMade
      <4> QED  BY <4>1, <4>2, <4>3 DEF KeysMade
    <3>3. KeysHaveReasons'
      <4>1. \A x, y \in Runs : Reason(x, y)' => Reason(y, x)'
        BY DEF Reason
      <4>2. \A x \in Runs \ {a} : nodeKey[x] = x => Reason(x, a)'
        BY <3>1, <2>1, <1>i DEF OneKey, KeysHaveReasons
      <4>3. \A x, y \in Runs : x # y /\ nodeKey'[x] = x /\ nodeKey'[y] = y => Reason(x, y)'
        BY <3>1, <4>1, <4>2, <2>3, <1>i DEF OneKey, KeysHaveReasons
      <4>4. \A x, y \in Runs : x # y /\ agentStage'[x] = "saving" /\ agentStage'[y] = "saving" =>
                {x, y} \in rivals'
        BY <2>1, <2>2, <1>i DEF OneKey, KeysHaveReasons
      <4>5. \A y \in Runs \ {a} : agentStage[y] = "saving" => Reason(a, y)'
        BY <2>1, <1>i DEF OneKey, KeysHaveReasons, Reason
      <4>6. \A x, y \in Runs : x # y /\ nodeKey'[x] = x /\ agentStage'[y] = "saving" => Reason(x, y)'
        BY <3>1, <4>5, <2>2, <2>3, <1>i DEF OneKey, KeysHaveReasons
      <4> QED  BY <4>3, <4>4, <4>6 DEF KeysHaveReasons, Reason
    <3> QED  BY <3>2, <3>3 DEF OneKey
  <2> QED  BY <2>4, <2>6, <2>8 DEF AgentInv
<1>9. ASSUME NEW a \in Runs,
             \/ Bind(a) \/ AcceptVisitor(a) \/ AcceptAgain(a) \/ accept_and_run(a)
             \/ HandshakeFails(a) \/ ShutdownReceived(a) \/ DropRuntime(a)
      PROVE  AgentInv'
  <2>1. /\ UNCHANGED <<SHUTDOWN_TX, signal, nodeKey, storedKey, nodeState, fileServer, failed, rivals>>
        /\ events' \subseteq Runs
    BY <1>9, <1>v DEF Bind, AcceptVisitor, AcceptAgain, accept_and_run, HandshakeFails,
                      ShutdownReceived, DropRuntime
  <2>2. visitors' \in 0..MaxVisitors
    BY <1>9, <1>v DEF Bind, AcceptVisitor, AcceptAgain, accept_and_run, HandshakeFails,
                      ShutdownReceived, DropRuntime
  <2>3. PICK s \in Listening \cup {"ending", "ended"} :
            /\ Goes(a, s)
            /\ s \in Listening => agentStage[a] \in Serving
            /\ \/ (port' = port /\ (port = a => s \in Listening))
               \/ (port' = a /\ s \in Listening)
               \/ port' = NoRun
    <3>1. CASE Bind(a)
      BY <3>1, <1>i, <1>t DEF Bind, Listening, Serving, AgentOwners
    <3>2. CASE AcceptVisitor(a) \/ AcceptAgain(a) \/ accept_and_run(a)
      BY <3>2 DEF AcceptVisitor, AcceptAgain, accept_and_run, Listening, Serving
    <3>3. CASE HandshakeFails(a)
      BY <3>3 DEF HandshakeFails, Listening
    <3>4. CASE ShutdownReceived(a)
      BY <3>4 DEF ShutdownReceived
    <3>5. CASE DropRuntime(a)
      <4>1. Goes(a, "ended") /\ port' = port /\ port # a
        BY <3>5, <1>i, <1>t DEF DropRuntime, AgentOwners, Listening
      <4> QED  BY <4>1 DEF Listening
    <3> QED  BY <1>9, <3>1, <3>2, <3>3, <3>4, <3>5
  <2>4. s \in Stages /\ s \notin Beginning
    BY DEF Listening, Stages, Beginning, Serving
  <2>5. s \in Beginning \cup Serving => Alive(a)
    BY <2>3, <2>4 DEF Listening, Serving, Alive
  <2>6. agentStage' \in [Runs -> Stages]
    BY <2>3, <2>4, <1>g
  <2>7. port' \in Runs \cup {NoRun}
    BY <2>3, <1>t
  <2>8. AgentTypeOK'
    BY <2>1, <2>2, <2>6, <2>7, <1>t, <1>v DEF AgentTypeOK
  <2>9. AgentOwners'
    BY <2>1, <2>3, <2>4, <2>5, <1>m
  <2>10. OneKey'
    BY <2>1, <2>3, <2>4, <1>k DEF Listening, Beginning, Serving
  <2> QED  BY <2>8, <2>9, <2>10 DEF AgentInv
<1>10. ASSUME NEW a \in Runs, DispatchEvent(a) PROVE AgentInv'
  <2>1. /\ events' \subseteq Runs /\ nodeState' = "Connected"
        /\ UNCHANGED <<agentStage, SHUTDOWN_TX, signal, port, nodeKey, storedKey, fileServer,
                       visitors, failed, rivals>>
    BY <1>10, <1>v DEF DispatchEvent
  <2>2. AgentTypeOK'
    BY <2>1, <1>t, <1>v DEF AgentTypeOK
  <2>3. AgentOwners' /\ OneKey'
    BY <2>1, <1>i, <1>u DEF AgentOwners, Alive
  <2> QED  BY <2>2, <2>3 DEF AgentInv
<1>11. CASE UNCHANGED agentRunVars
  <2>1. AgentTypeOK'
    BY <1>11, <1>t, <1>v DEF AgentTypeOK, agentRunVars
  <2>2. AgentOwners' /\ OneKey'
    BY <1>11, <1>i, <1>u DEF AgentOwners, Alive, agentRunVars
  <2> QED  BY <2>1, <2>2 DEF AgentInv
<1> QED
  BY <1>1, <1>2, <1>3, <1>4, <1>5, <1>6, <1>7, <1>8, <1>9, <1>10, <1>11 DEF AgentNext

LEMMA AgentInvHolds == AgentSpec => []AgentInv
<1>1. AgentInit => AgentInv
  <2> SUFFICES ASSUME AgentInit PROVE AgentInv
    OBVIOUS
  <2>1. AgentTypeOK
    <3>1. 0 \in 0..MaxVisitors
      BY RunAssumption
    <3>2. agentStage \in [Runs -> Stages]
      BY DEF AgentInit, Stages
    <3> QED  BY <3>1, <3>2 DEF AgentInit, AgentTypeOK
  <2>2. AgentOwners
    BY DEF AgentInit, AgentOwners, Alive, Beginning, Serving
  <2>3. OneKey
    BY RunAssumption DEF AgentInit, OneKey, KeysMade, KeysHaveReasons, Beginning
  <2> QED  BY <2>1, <2>2, <2>3 DEF AgentInv
<1> QED  BY <1>1, AgentStep, PTL DEF AgentSpec

(* stopAgent stops the run that is alive and not yet told to end, and the  *)
(* port is held by a run that is alive (lib.rs startAgent, stopAgent).     *)
THEOREM AgentsAreStoppableHolds == AgentSpec => []AgentsAreStoppable
<1>1. AgentInv => AgentsAreStoppable
  BY DEF AgentInv, AgentOwners, AgentsAreStoppable, Alive, Listening, Serving
<1> QED  BY <1>1, AgentInvHolds, PTL

(* Two runs of the agent have the same identity unless one that generated  *)
(* theirs was failed by the database, or the two that did generated them   *)
(* at once (load_or_generate_identity).                                    *)
THEOREM IdentityIsKeptHolds == AgentSpec => []IdentityIsKept
<1>1. AgentInv => IdentityIsKept
  <2> SUFFICES ASSUME AgentInv, NEW a \in Runs, NEW b \in Runs,
                      nodeKey[a] # NoKey, nodeKey[b] # NoKey, nodeKey[a] # nodeKey[b]
               PROVE  Reason(nodeKey[a], nodeKey[b])
    BY DEF IdentityIsKept, Reason
  <2>1. /\ nodeKey[a] \in Runs /\ nodeKey[nodeKey[a]] = nodeKey[a]
        /\ nodeKey[b] \in Runs /\ nodeKey[nodeKey[b]] = nodeKey[b]
    BY DEF AgentInv, AgentTypeOK, OneKey, KeysMade
  <2> QED  BY <2>1 DEF AgentInv, OneKey, KeysHaveReasons
<1> QED  BY <1>1, AgentInvHolds, PTL

-----------------------------------------------------------------------------
(* Discovery. *)

(* Sockets are numbered as they are bound, and every address on the wire,  *)
(* in a callback or in the list of devices is the number of a socket of    *)
(* the station it is said to be of.                                        *)
SocketsInv ==
    /\ sockets \in 0..MaxStarts /\ owner \in [1..sockets -> Stations]
    /\ socket \in [Stations -> 0..sockets]
    /\ \A s \in Stations : socket[s] # 0 => owner[socket[s]] = s

NetInv ==
    /\ net \subseteq [kind : {"query", "announce"}, station : Stations, addr : 1..sockets]
    /\ \A m \in net : owner[m.addr] = m.station
    /\ replies \subseteq 1..sockets

PeersInv ==
    /\ DOMAIN peers \subseteq Ids
    /\ \A id \in DOMAIN peers : peers[id] \in [addr : 1..sockets, age : 0..Expiry]

ListInv ==
    /\ upserts \subseteq [id : Ids, addr : 1..sockets]
    /\ \A u \in upserts : WireId(owner[u.addr]) = u.id
    /\ DOMAIN devices \subseteq Ids
    /\ \A id \in DOMAIN devices : devices[id] \in 1..sockets

DiscoveryInv == SocketsInv /\ NetInv /\ PeersInv /\ ListInv /\ DevicesCoverPeers

(* A new socket changes nothing of the ones before.                        *)
LEMMA SocketAdded ==
    ASSUME DiscoveryInv, NEW s \in Stations, start_advertising(s)
    PROVE  DiscoveryInv'
<1>t. /\ sockets \in 0..MaxStarts /\ owner \in [1..sockets -> Stations]
      /\ socket \in [Stations -> 0..sockets] /\ MaxStarts \in Nat /\ sockets \in Nat
  BY DiscoveryAssumption DEF DiscoveryInv, SocketsInv
<1>1. /\ sockets < MaxStarts /\ sockets' = sockets + 1
      /\ socket' = [socket EXCEPT ![s] = sockets + 1]
      /\ owner' = [k \in 1..(sockets + 1) |-> IF k = sockets + 1 THEN s ELSE owner[k]]
      /\ net' = net \cup {[kind |-> k, station |-> s, addr |-> sockets + 1] : k \in {"query", "announce"}}
      /\ UNCHANGED <<replies, scanning, peers, upserts, devices>>
  BY DEF start_advertising
<1>2. /\ 1..sockets \subseteq 1..sockets' /\ sockets' \in 1..sockets' /\ sockets' \notin 1..sockets
      /\ 0..sockets \subseteq 0..sockets' /\ sockets' \in 0..sockets' /\ sockets' \in 0..MaxStarts
      /\ \A k \in 1..sockets' : k = sockets' \/ k \in 1..sockets
  BY <1>1, <1>t
<1>3. /\ owner' \in [1..sockets' -> Stations] /\ owner'[sockets'] = s
      /\ \A k \in 1..sockets : owner'[k] = owner[k]
  BY <1>1, <1>2, <1>t
<1>4. SocketsInv'
  <2>1. socket' \in [Stations -> 0..sockets']
    BY <1>1, <1>2, <1>t
  <2>2. ASSUME NEW r \in Stations, socket'[r] # 0 PROVE owner'[socket'[r]] = r
    <3>1. CASE r = s
      BY <3>1, <1>1, <1>3, <1>t
    <3>2. CASE r # s
      <4>1. socket'[r] = socket[r] /\ socket[r] \in 0..sockets
        BY <3>2, <1>1, <1>t
      <4>2. socket[r] \in 1..sockets
        BY <4>1, <2>2, <1>t
      <4> QED  BY <4>1, <4>2, <2>2, <1>3 DEF DiscoveryInv, SocketsInv
    <3> QED  BY <3>1, <3>2
  <2> QED  BY <2>1, <2>2, <1>2, <1>3 DEF SocketsInv
<1>5. NetInv'
  <2>1. ASSUME NEW m \in net'
        PROVE  /\ m \in [kind : {"query", "announce"}, station : Stations, addr : 1..sockets']
               /\ owner'[m.addr] = m.station
    <3>1. CASE m \in net
      <4>1. m \in [kind : {"query", "announce"}, station : Stations, addr : 1..sockets]
            /\ owner[m.addr] = m.station
        BY <3>1 DEF DiscoveryInv, NetInv
      <4> QED  BY <4>1, <1>2, <1>3
    <3>2. CASE m \notin net
      <4>1. PICK k \in {"query", "announce"} : m = [kind |-> k, station |-> s, addr |-> sockets']
        BY <3>2, <1>1
      <4> QED  BY <4>1, <1>2, <1>3
    <3> QED  BY <3>1, <3>2
  <2>2. replies' \subseteq 1..sockets'
    BY <1>1, <1>2 DEF DiscoveryInv, NetInv
  <2> QED  BY <2>1, <2>2 DEF NetInv
<1>6. PeersInv'
  <2>1. \A id \in DOMAIN peers : peers[id] \in [addr : 1..sockets', age : 0..Expiry]
    BY <1>2 DEF DiscoveryInv, PeersInv
  <2> QED  BY <2>1, <1>1 DEF DiscoveryInv, PeersInv
<1>7. ListInv' /\ DevicesCoverPeers'
  <2>1. \A u \in upserts : u \in [id : Ids, addr : 1..sockets] /\ WireId(owner[u.addr]) = u.id
    BY DEF DiscoveryInv, ListInv
  <2>2. \A u \in upserts : u \in [id : Ids, addr : 1..sockets'] /\ WireId(owner'[u.addr]) = u.id
    BY <2>1, <1>2, <1>3
  <2>3. \A id \in DOMAIN devices : devices[id] \in 1..sockets /\ WireId(owner[devices[id]]) = id
    BY DEF DiscoveryInv, ListInv, DevicesCoverPeers
  <2>4. \A id \in DOMAIN devices : devices[id] \in 1..sockets' /\ WireId(owner'[devices[id]]) = id
    BY <2>3, <1>2, <1>3
  <2> QED  BY <2>2, <2>4, <1>1 DEF DiscoveryInv, ListInv, DevicesCoverPeers
<1> QED  BY <1>4, <1>5, <1>6, <1>7 DEF DiscoveryInv

(* An announcement goes to the registry and to a callback of its own.      *)
LEMMA AnnounceReceived ==
    ASSUME DiscoveryInv, NEW m \in net, ReceiveAnnounce(m)
    PROVE  PeersInv' /\ ListInv' /\ DevicesCoverPeers'
<1> DEFINE id == WireId(m.station)
           u == [id |-> id, addr |-> m.addr]
<1>1. m.station \in Stations /\ m.addr \in 1..sockets /\ owner[m.addr] = m.station
  BY DEF DiscoveryInv, NetInv
<1>2. /\ peers' = [i \in DOMAIN peers \cup {id} |->
                      IF i = id THEN [addr |-> m.addr, age |-> 0] ELSE peers[i]]
      /\ upserts' = upserts \cup {u} /\ UNCHANGED <<sockets, owner, devices>>
  BY DEF ReceiveAnnounce
<1>3. id \in Ids /\ WireId(owner[m.addr]) = id
  BY <1>1 DEF Ids
<1>4. u \in [id : Ids, addr : 1..sockets] /\ u.id = id /\ u.addr = m.addr
  BY <1>1, <1>3
<1>5. 0 \in 0..Expiry
  BY DiscoveryAssumption
<1>6. [addr |-> m.addr, age |-> 0] \in [addr : 1..sockets, age : 0..Expiry]
  BY <1>1, <1>5
<1> HIDE DEF id, u
<1>7. PeersInv'
  <2>1. DOMAIN peers' = DOMAIN peers \cup {id}
    BY <1>2
  <2>2. ASSUME NEW i \in DOMAIN peers' PROVE peers'[i] \in [addr : 1..sockets, age : 0..Expiry]
    BY <1>2, <1>6, <2>1, <2>2 DEF DiscoveryInv, PeersInv
  <2> QED  BY <2>1, <2>2, <1>2, <1>3 DEF DiscoveryInv, PeersInv
<1>8. ListInv'
  BY <1>2, <1>3, <1>4 DEF DiscoveryInv, ListInv
<1>9. DevicesCoverPeers'
  <2>1. DOMAIN peers' = DOMAIN peers \cup {id}
    BY <1>2
  <2>2. ASSUME NEW i \in DOMAIN peers' PROVE i \in DOMAIN devices \/ \E v \in upserts' : v.id = i
    BY <2>1, <2>2, <1>2, <1>4 DEF DiscoveryInv, DevicesCoverPeers
  <2> QED  BY <2>2, <1>2 DEF DiscoveryInv, DevicesCoverPeers
<1> QED  BY <1>7, <1>8, <1>9

(* A callback runs.                                                        *)
LEMMA DeviceListed ==
    ASSUME DiscoveryInv, NEW u \in upserts, upsert_device(u)
    PROVE  ListInv' /\ DevicesCoverPeers'
<1>1. /\ upserts' = upserts \ {u} /\ UNCHANGED <<sockets, owner, peers>>
      /\ devices' = [i \in DOMAIN devices \cup {u.id} |-> IF i = u.id THEN u.addr ELSE devices[i]]
  BY DEF upsert_device
<1>2. u.id \in Ids /\ u.addr \in 1..sockets /\ WireId(owner[u.addr]) = u.id
  BY DEF DiscoveryInv, ListInv
<1>3. DOMAIN devices' = DOMAIN devices \cup {u.id}
      /\ devices'[u.id] = u.addr
      /\ \A i \in DOMAIN devices \ {u.id} : devices'[i] = devices[i]
  BY <1>1
<1>4. ASSUME NEW i \in DOMAIN devices'
      PROVE  i \in Ids /\ devices'[i] \in 1..sockets /\ WireId(owner[devices'[i]]) = i
  <2>1. CASE i = u.id
    BY <2>1, <1>2, <1>3
  <2>2. CASE i # u.id
    BY <2>2, <1>3, <1>4 DEF DiscoveryInv, ListInv, DevicesCoverPeers
  <2> QED  BY <2>1, <2>2
<1>5. ListInv'
  BY <1>1, <1>4 DEF DiscoveryInv, ListInv
<1>6. DevicesCoverPeers'
  <2>1. ASSUME NEW i \in DOMAIN peers PROVE i \in DOMAIN devices' \/ \E v \in upserts' : v.id = i
    BY <1>1, <1>3 DEF DiscoveryInv, DevicesCoverPeers
  <2> QED  BY <2>1, <1>1, <1>4 DEF DevicesCoverPeers
<1> QED  BY <1>5, <1>6

LEMMA DiscoveryStep == DiscoveryInv /\ [DiscoveryNext]_discoveryVars => DiscoveryInv'
<1> SUFFICES ASSUME DiscoveryInv, [DiscoveryNext]_discoveryVars PROVE DiscoveryInv'
  OBVIOUS
<1>i. SocketsInv /\ NetInv /\ PeersInv /\ ListInv /\ DevicesCoverPeers
  BY DEF DiscoveryInv
<1>s. ASSUME UNCHANGED <<socket, sockets, owner>> PROVE SocketsInv'
  BY <1>s, <1>i DEF SocketsInv
<1>n. ASSUME UNCHANGED <<sockets, owner, replies>>, net' \subseteq net PROVE NetInv'
  BY <1>n, <1>i DEF NetInv
<1>p. ASSUME UNCHANGED <<sockets, peers>> PROVE PeersInv'
  BY <1>p, <1>i DEF PeersInv
<1>l. ASSUME UNCHANGED <<sockets, owner, upserts, devices>> PROVE ListInv'
  BY <1>l, <1>i DEF ListInv
<1>c. ASSUME UNCHANGED <<owner, upserts, devices>>, DOMAIN peers' \subseteq DOMAIN peers
      PROVE  DevicesCoverPeers'
  BY <1>c, <1>i DEF DevicesCoverPeers
<1>1. ASSUME NEW s \in Stations, announce(s) PROVE DiscoveryInv'
  <2> DEFINE m == [kind |-> "announce", station |-> s, addr |-> socket[s]]
  <2>1. /\ socket[s] # 0 /\ net' = net \cup {m}
        /\ UNCHANGED <<socket, sockets, owner, replies, scanning, peers, upserts, devices>>
    BY <1>1 DEF announce
  <2>2. socket[s] \in 1..sockets /\ owner[socket[s]] = s
    BY <2>1, <1>i, DiscoveryAssumption DEF SocketsInv
  <2>3. /\ m \in [kind : {"query", "announce"}, station : Stations, addr : 1..sockets]
        /\ owner[m.addr] = m.station
    BY <2>2
  <2> HIDE DEF m
  <2>4. NetInv'
    BY <2>1, <2>3, <1>i DEF NetInv
  <2> QED  BY <2>1, <2>4, <1>s, <1>p, <1>l, <1>c DEF DiscoveryInv
<1>2. ASSUME NEW s \in Stations, stop_advertising(s) PROVE DiscoveryInv'
  <2>1. /\ socket' = [socket EXCEPT ![s] = 0]
        /\ UNCHANGED <<sockets, owner, net, replies, scanning, peers, upserts, devices>>
    BY <1>2 DEF stop_advertising
  <2>2. 0 \in 0..sockets /\ socket \in [Stations -> 0..sockets]
    BY <1>i, DiscoveryAssumption DEF SocketsInv
  <2>3. socket' \in [Stations -> 0..sockets]
        /\ \A r \in Stations : socket'[r] = 0 \/ socket'[r] = socket[r]
    BY <2>1, <2>2
  <2>4. SocketsInv'
    BY <2>1, <2>3, <1>i DEF SocketsInv
  <2> QED  BY <2>1, <2>4, <1>n, <1>p, <1>l, <1>c DEF DiscoveryInv
<1>3. CASE start_scanning \/ stop_scanning \/ UNCHANGED discoveryVars
  <2>1. UNCHANGED <<socket, sockets, owner, net, replies, peers, upserts, devices>>
    BY <1>3 DEF start_scanning, stop_scanning, discoveryVars
  <2> QED  BY <2>1, <1>s, <1>n, <1>p, <1>l, <1>c DEF DiscoveryInv
<1>4. ASSUME NEW m \in net, ReceiveQuery(m) PROVE DiscoveryInv'
  <2>1. UNCHANGED <<socket, sockets, owner, net, scanning, peers, upserts, devices>>
        /\ replies' \subseteq replies \cup {m.addr}
    BY <1>4 DEF ReceiveQuery
  <2>2. m.addr \in 1..sockets
    BY <1>i DEF NetInv
  <2>3. NetInv'
    BY <2>1, <2>2, <1>i DEF NetInv
  <2> QED  BY <2>1, <2>3, <1>s, <1>p, <1>l, <1>c DEF DiscoveryInv
<1>5. ASSUME NEW m \in net, ReceiveAnnounce(m) PROVE DiscoveryInv'
  <2>1. UNCHANGED <<socket, sockets, owner, net, replies>>
    BY <1>5 DEF ReceiveAnnounce
  <2> QED  BY <2>1, <1>5, <1>s, <1>n, AnnounceReceived DEF DiscoveryInv
<1>6. ASSUME NEW m \in net, LoseDatagram(m) PROVE DiscoveryInv'
  BY <1>6, <1>s, <1>n, <1>p, <1>l, <1>c DEF LoseDatagram, DiscoveryInv
<1>7. ASSUME NEW u \in upserts, upsert_device(u) PROVE DiscoveryInv'
  <2>1. UNCHANGED <<socket, sockets, owner, net, replies, peers>>
    BY <1>7 DEF upsert_device
  <2> QED  BY <2>1, <1>7, <1>s, <1>n, <1>p, DeviceListed DEF DiscoveryInv
<1>8. CASE reap_expired_peers
  <2>1. /\ peers' = [id \in list_alive |-> peers[id]]
        /\ UNCHANGED <<socket, sockets, owner, net, replies, upserts, devices>>
    BY <1>8 DEF reap_expired_peers
  <2>2. DOMAIN peers' \subseteq DOMAIN peers /\ \A id \in DOMAIN peers' : peers'[id] = peers[id]
    BY <2>1 DEF list_alive
  <2>3. PeersInv'
    BY <2>1, <2>2, <1>i DEF PeersInv
  <2> QED  BY <2>1, <2>2, <2>3, <1>s, <1>n, <1>l, <1>c DEF DiscoveryInv
<1>9. CASE PeersTick
  <2> DEFINE Older(x) == [x EXCEPT !.age = IF x.age < Expiry THEN x.age + 1 ELSE x.age]
  <2>1. /\ peers' = [id \in DOMAIN peers |-> Older(peers[id])]
        /\ UNCHANGED <<socket, sockets, owner, net, replies, upserts, devices>>
    BY <1>9 DEF PeersTick
  <2>2. ASSUME NEW x \in [addr : 1..sockets, age : 0..Expiry]
        PROVE  Older(x) \in [addr : 1..sockets, age : 0..Expiry]
    <3>1. x.age \in 0..Expiry /\ Expiry \in Nat
      BY DiscoveryAssumption
    <3>2. (IF x.age < Expiry THEN x.age + 1 ELSE x.age) \in 0..Expiry
      BY <3>1
    <3> QED  BY <3>2
  <2> HIDE DEF Older
  <2>3. DOMAIN peers' = DOMAIN peers
    BY <2>1
  <2>4. PeersInv'
    BY <2>1, <2>2, <2>3, <1>i DEF PeersInv
  <2> QED  BY <2>1, <2>3, <2>4, <1>s, <1>n, <1>l, <1>c DEF DiscoveryInv
<1> QED
  BY <1>1, <1>2, <1>3, <1>4, <1>5, <1>6, <1>7, <1>8, <1>9, SocketAdded DEF DiscoveryNext

LEMMA DiscoveryInvHolds == DiscoverySpec => []DiscoveryInv
<1>1. DiscoveryInit => DiscoveryInv
  <2> SUFFICES ASSUME DiscoveryInit PROVE DiscoveryInv
    OBVIOUS
  <2>1. sockets = 0 /\ owner = <<>> /\ 0 \in 0..MaxStarts /\ 1..0 = {} /\ 0 \in 0..0
    BY DiscoveryAssumption DEF DiscoveryInit
  <2>2. owner \in [1..sockets -> Stations]
    BY <2>1
  <2>3. SocketsInv
    BY <2>1, <2>2 DEF DiscoveryInit, SocketsInv
  <2>4. DOMAIN peers = {} /\ DOMAIN devices = {}
    BY DEF DiscoveryInit
  <2>5. NetInv /\ PeersInv /\ ListInv /\ DevicesCoverPeers
    BY <2>4 DEF DiscoveryInit, NetInv, PeersInv, ListInv, DevicesCoverPeers
  <2> QED  BY <2>3, <2>5 DEF DiscoveryInv
<1> QED  BY <1>1, DiscoveryStep, PTL DEF DiscoverySpec

(* The list of devices covers the registry of peers once the callbacks     *)
(* have run, and every device is listed at a socket of its own             *)
(* (start_scanning, upsert_device, reap_expired).                          *)
THEOREM DevicesCoverPeersHolds == DiscoverySpec => []DevicesCoverPeers
<1>1. DiscoveryInv => DevicesCoverPeers
  BY DEF DiscoveryInv
<1> QED  BY <1>1, DiscoveryInvHolds, PTL

-----------------------------------------------------------------------------
(* The dashboard's progress records. *)

(* A record belongs to a job of its own direction, which runs or died when *)
(* the record is active; a receive that has written it leaves it active    *)
(* until its loop ends.                                                    *)
Busy(g) == g \in {"running", "died"}

Owned(p, r, at) ==
    /\ p.owner \in Jobs => RecordOf(p.owner) = r
    /\ p.active => p.owner \in Jobs /\ Busy(at[p.owner])
    /\ p.owner \in Receives => at[p.owner] # "idle" /\ (Busy(at[p.owner]) => p.active)

RecordsOwned ==
    /\ \A r \in Records : Owned(progress[r], r, job)
    /\ \A j \in Jobs : job[j] = "died" => j \in Receives

DashboardInv == DashboardTypeOK /\ RecordsOwned

LEMMA DashboardStep == DashboardInv /\ [DashboardNext]_dashboardVars => DashboardInv'
<1> SUFFICES ASSUME DashboardInv, [DashboardNext]_dashboardVars PROVE DashboardInv'
  OBVIOUS
<1> DEFINE JobStages == {"idle", "running", "closing", "done", "refused", "died"}
           ProgressRecords == [active : BOOLEAN, owner : Jobs \cup {NoJob}]
<1>t. /\ job \in [Jobs -> JobStages] /\ left \in [Jobs -> 0..Chunks]
      /\ progress \in [Records -> ProgressRecords]
      /\ \A j \in Jobs : RecordOf(j) \in Records
      /\ Chunks \in Nat /\ MaxPending \in Nat /\ MaxPending >= 1
  BY DashboardAssumption DEF DashboardInv, DashboardTypeOK, RecordOf, Records
<1>v. /\ waiting \in Seq(Jobs) /\ Len(waiting) <= MaxPending /\ posts \subseteq Post
      /\ remote \in Post \cup {NoJob} /\ watcher \in {"closed", "open", "stale", "ended"}
  BY DEF DashboardInv, DashboardTypeOK
<1>r. RecordsOwned
  BY DEF DashboardInv
<1>q. ASSUME job' \in [Jobs -> JobStages], left' \in [Jobs -> 0..Chunks],
             progress' \in [Records -> ProgressRecords], waiting' \in Seq(Jobs),
             Len(waiting') <= MaxPending, posts' \subseteq Post, remote' \in Post \cup {NoJob},
             watcher' \in {"closed", "open", "stale", "ended"}, RecordsOwned'
      PROVE  DashboardInv'
  BY <1>q DEF DashboardInv, DashboardTypeOK
<1>s. ASSUME NEW j \in Jobs, NEW b \in BOOLEAN, SetProgress(j, b)
      PROVE  /\ progress' \in [Records -> ProgressRecords]
             /\ progress'[RecordOf(j)] = [active |-> b, owner |-> j]
             /\ \A r \in Records \ {RecordOf(j)} : progress'[r] = progress[r]
  <2>1. [active |-> b, owner |-> j] \in ProgressRecords
    OBVIOUS
  <2> QED  BY <2>1, <1>s, <1>t DEF SetProgress
  (* A job's record is written while the job goes to another stage; the    *)
  (* records of the other jobs are left alone.                             *)
<1>o. ASSUME NEW j \in Jobs, NEW b \in BOOLEAN, SetProgress(j, b), job'[j] # "died",
             \A i \in Jobs \ {j} : job'[i] = job[i], b => job'[j] = "running",
             j \in Receives => job'[j] # "idle" /\ (job'[j] = "running" => b)
      PROVE  RecordsOwned'
  <2>1. ASSUME NEW r \in Records PROVE Owned(progress'[r], r, job')
    <3>1. CASE r = RecordOf(j)
      <4>1. progress'[r] = [active |-> b, owner |-> j]
        BY <3>1, <1>o, <1>s
      <4>2. progress'[r].active = b
        BY <4>1
      <4>3. progress'[r].owner = j
        BY <4>1
      <4>4. Busy(job'[j]) => job'[j] = "running"
        BY <1>o DEF Busy
      <4>5. job'[j] = "running" => Busy(job'[j])
        BY DEF Busy
      <4> QED  BY <4>2, <4>3, <4>4, <4>5, <3>1, <1>o, Zenon DEF Owned
    <3>2. CASE r # RecordOf(j)
      <4>1. progress'[r] = progress[r]
        <5>1. \A q \in Records \ {RecordOf(j)} : progress'[q] = progress[q]
          BY <1>o, <1>s
        <5> QED  BY <3>2, <5>1
      <4>2. Owned(progress[r], r, job)
        BY <1>r DEF RecordsOwned
      <4>3. progress[r].owner # j
        BY <4>2, <3>2 DEF Owned
      <4>4. progress[r].owner \in Jobs => job'[progress[r].owner] = job[progress[r].owner]
        BY <4>3, <1>o
      <4> QED  BY <4>1, <4>2, <4>4 DEF Owned, Receives
    <3> QED  BY <3>1, <3>2
  <2>2. \A i \in Jobs : job'[i] = "died" => i \in Receives
    BY <1>o, <1>r DEF RecordsOwned
  <2> QED  BY <2>1, <2>2 DEF RecordsOwned
<1>k. ASSUME UNCHANGED progress,
             \A i \in Jobs : /\ Busy(job[i]) => Busy(job'[i])
                             /\ job[i] # "idle" => job'[i] # "idle" /\ (Busy(job'[i]) => Busy(job[i]))
                             /\ job'[i] = "died" => i \in Receives
      PROVE  RecordsOwned'
  <2>1. ASSUME NEW r \in Records PROVE Owned(progress[r], r, job')
    <3>1. Owned(progress[r], r, job)
      BY <1>r DEF RecordsOwned
    <3> QED  BY <3>1, <1>k DEF Owned, Receives
  <2> QED  BY <2>1, <1>k DEF RecordsOwned
<1>i. ASSUME UNCHANGED <<job, progress>> PROVE RecordsOwned'
  BY <1>i, <1>r DEF RecordsOwned
<1>g. ASSUME NEW j \in Jobs, NEW g \in JobStages, job' = [job EXCEPT ![j] = g]
      PROVE  /\ job' \in [Jobs -> JobStages] /\ job'[j] = g
             /\ \A i \in Jobs \ {j} : job'[i] = job[i]
  BY <1>g, <1>t
<1> HIDE DEF JobStages, ProgressRecords
<1>j. {"idle", "running", "closing", "done", "refused", "died"} \subseteq JobStages
  BY DEF JobStages
<1>1. ASSUME NEW j \in Jobs, RefuseJob(j) \/ ReceiveOpen(j) \/ (j \in Receives /\ ReceiveDies(j))
      PROVE  DashboardInv'
  <2>1. PICK g \in {"refused", "running", "died"} :
            /\ job' = [job EXCEPT ![j] = g] /\ (g = "died" => j \in Receives)
            /\ (job[j] = "idle" /\ g # "died") \/ (job[j] = "running" /\ g = "died")
    BY <1>1 DEF RefuseJob, ReceiveOpen, ReceiveDies
  <2>2. UNCHANGED <<left, progress, waiting, posts, remote, watcher>>
    BY <1>1 DEF RefuseJob, ReceiveOpen, ReceiveDies
  <2>3. job' \in [Jobs -> JobStages] /\ job'[j] = g /\ \A i \in Jobs \ {j} : job'[i] = job[i]
    BY <2>1, <1>g, <1>j
  <2>4. ASSUME NEW i \in Jobs
        PROVE  /\ Busy(job[i]) => Busy(job'[i])
               /\ job[i] # "idle" => job'[i] # "idle" /\ (Busy(job'[i]) => Busy(job[i]))
               /\ job'[i] = "died" => i \in Receives
    <3>1. CASE i = j
      BY <3>1, <2>1, <2>3 DEF Busy
    <3>2. CASE i # j
      BY <3>2, <2>3, <1>r DEF RecordsOwned
    <3> QED  BY <3>1, <3>2
  <2>5. RecordsOwned'
    BY <2>2, <2>4, <1>k
  <2> QED  BY <2>2, <2>3, <2>5, <1>t, <1>v, <1>q
<1>2. ASSUME NEW j \in Jobs, \/ j \in Receives /\ ReceiveChunk(j)
                             \/ j \in Started /\ \E hinted \in BOOLEAN : Callback(j, hinted)
      PROVE  DashboardInv'
  <2>1. /\ job[j] = "running" /\ left[j] > 0 /\ left' = [left EXCEPT ![j] = left[j] - 1]
        /\ UNCHANGED <<job, waiting, remote, watcher>>
    BY <1>2 DEF ReceiveChunk, Callback
  <2>2. PICK b \in BOOLEAN : SetProgress(j, b) /\ (j \in Receives => b)
    BY <1>2 DEF ReceiveChunk, Callback, Receives, Started
  <2>3. left[j] - 1 \in 0..Chunks
    BY <2>1, <1>t
  <2>4. left' \in [Jobs -> 0..Chunks]
    BY <2>1, <2>3, <1>t
  <2>5. [of |-> j, left |-> left[j] - 1, active |-> TRUE] \in Post
    BY <2>3 DEF Post
  <2>6. posts' \subseteq Post
    BY <1>2, <2>5, <1>v DEF ReceiveChunk, Callback
  <2>7. progress' \in [Records -> ProgressRecords] /\ RecordsOwned'
    BY <2>1, <2>2, <1>s, <1>o
  <2> QED  BY <2>1, <2>4, <2>6, <2>7, <1>t, <1>v, <1>q
<1>3. ASSUME NEW j \in Jobs, \/ j \in Receives /\ ReceiveFinish(j)
                             \/ j \in Started /\ (StartJob(j) \/ EndJob(j))
      PROVE  DashboardInv'
  <2>1. PICK g \in {"closing", "running", "done"}, b \in BOOLEAN :
            /\ job' = [job EXCEPT ![j] = g] /\ SetProgress(j, b) /\ (b => g = "running")
            /\ j \in Receives => g = "closing"
    BY <1>3 DEF ReceiveFinish, StartJob, EndJob, Receives, Started
  <2>2. UNCHANGED <<left, waiting, remote, watcher>>
    BY <1>3 DEF ReceiveFinish, StartJob, EndJob
  <2>3. job' \in [Jobs -> JobStages] /\ job'[j] = g /\ \A i \in Jobs \ {j} : job'[i] = job[i]
    BY <2>1, <1>g, <1>j
  <2>4. progress' \in [Records -> ProgressRecords] /\ RecordsOwned'
    BY <2>1, <2>3, <1>s, <1>o
  <2>5. [of |-> j, left |-> 0, active |-> FALSE] \in Post
    BY <1>t DEF Post
  <2>6. posts' \subseteq Post
    BY <1>3, <2>5, <1>v DEF ReceiveFinish, StartJob, EndJob
  <2> QED  BY <2>2, <2>3, <2>4, <2>6, <1>t, <1>v, <1>q
<1>4. ASSUME NEW j \in Jobs, PushPending(j) PROVE DashboardInv'
  <2>1. /\ job[j] = "closing" /\ job' = [job EXCEPT ![j] = "done"]
        /\ waiting' = IF Len(Append(waiting, j)) > MaxPending THEN Tail(Append(waiting, j))
                      ELSE Append(waiting, j)
        /\ UNCHANGED <<left, progress, posts, remote, watcher>>
    BY <1>4 DEF PushPending
  <2>2. Append(waiting, j) \in Seq(Jobs) /\ Len(Append(waiting, j)) = Len(waiting) + 1
    BY <1>v, AppendProperties
  <2>3. Len(waiting) \in Nat /\ Append(waiting, j) # <<>>
    BY <1>v, <2>2
  <2>4. /\ Tail(Append(waiting, j)) \in Seq(Jobs)
        /\ Len(Tail(Append(waiting, j))) = Len(Append(waiting, j)) - 1
    BY <2>2, <2>3, HeadTailProperties
  <2>5. waiting' \in Seq(Jobs) /\ Len(waiting') <= MaxPending
    <3>1. CASE Len(Append(waiting, j)) > MaxPending
      BY <3>1, <2>1, <2>2, <2>3, <2>4, <1>t, <1>v
    <3>2. CASE ~(Len(Append(waiting, j)) > MaxPending)
      BY <3>2, <2>1, <2>2, <2>3, <1>t
    <3> QED  BY <3>1, <3>2
  <2>6. job' \in [Jobs -> JobStages] /\ job'[j] = "done" /\ \A i \in Jobs \ {j} : job'[i] = job[i]
    BY <2>1, <1>g, <1>j
  <2>7. RecordsOwned'
    <3>1. ASSUME NEW i \in Jobs
          PROVE  /\ Busy(job[i]) => Busy(job'[i])
                 /\ job[i] # "idle" => job'[i] # "idle" /\ (Busy(job'[i]) => Busy(job[i]))
                 /\ job'[i] = "died" => i \in Receives
      BY <2>1, <2>6, <1>r DEF RecordsOwned, Busy
    <3> QED  BY <2>1, <3>1, <1>k
  <2> QED  BY <2>1, <2>5, <2>6, <2>7, <1>t, <1>v, <1>q
<1>5. CASE Poll
  <2>1. waiting' = <<>> /\ UNCHANGED <<job, left, progress, posts, remote, watcher>>
    BY <1>5 DEF Poll
  <2>2. waiting' \in Seq(Jobs) /\ Len(waiting') <= MaxPending
    BY <2>1, <1>t
  <2> QED  BY <2>1, <2>2, <1>i, <1>t, <1>v, <1>q
<1>6. ASSUME NEW p \in posts, PostArrives(p) \/ PostFails(p) PROVE DashboardInv'
  <2>1. /\ posts' \subseteq Post /\ remote' \in Post \cup {NoJob}
        /\ UNCHANGED <<job, left, progress, waiting, watcher>>
    BY <1>6, <1>v DEF PostArrives, PostFails
  <2> QED  BY <2>1, <1>i, <1>t, <1>v, <1>q
<1>7. CASE WatchOpen \/ WatchAges \/ WatchEnds \/ UNCHANGED dashboardVars
  <2>1. /\ watcher' \in {"closed", "open", "stale", "ended"}
        /\ UNCHANGED <<job, left, progress, waiting, posts, remote>>
    BY <1>7, <1>v DEF WatchOpen, WatchAges, WatchEnds, dashboardVars
  <2> QED  BY <2>1, <1>i, <1>t, <1>v, <1>q
<1> QED
  BY <1>1, <1>2, <1>3, <1>4, <1>5, <1>6, <1>7 DEF DashboardNext, Receives, Started

LEMMA DashboardInvHolds == DashboardSpec => []DashboardInv
<1>1. DashboardInit => DashboardInv
  <2> SUFFICES ASSUME DashboardInit PROVE DashboardInv
    OBVIOUS
  <2>1. Chunks \in 0..Chunks /\ 0 <= MaxPending
    BY DashboardAssumption
  <2>2. progress \in [Records -> [active : BOOLEAN, owner : Jobs \cup {NoJob}]]
        /\ \A r \in Records : progress[r].active = FALSE /\ progress[r].owner = NoJob
    BY DEF DashboardInit
  <2>3. DashboardTypeOK
    BY <2>1, <2>2 DEF DashboardInit, DashboardTypeOK
  <2>4. RecordsOwned
    BY <2>2, DashboardAssumption DEF RecordsOwned, Owned, Receives, DashboardInit
  <2> QED  BY <2>3, <2>4 DEF DashboardInv
<1> QED  BY <1>1, DashboardStep, PTL DEF DashboardSpec

(* An active progress record has a job that runs, or the dead receive that *)
(* wrote it last (dashboard.rs, system_monitor.rs).                        *)
THEOREM OrphansAreDeadReceivesHolds == DashboardSpec => []OrphansAreDeadReceives
<1>1. DashboardInv => OrphansAreDeadReceives
  <2> SUFFICES ASSUME DashboardInv, NEW r \in Records
               PROVE  /\ progress[r].active =>
                             \/ job[progress[r].owner] = "running"
                             \/ progress[r].owner \in Receives /\ job[progress[r].owner] = "died"
                      /\ progress[r].owner # NoJob /\ job[progress[r].owner] = "died" => progress[r].active
    BY DEF OrphansAreDeadReceives
  <2>1. Owned(progress[r], r, job) /\ \A j \in Jobs : job[j] = "died" => j \in Receives
    BY DEF DashboardInv, RecordsOwned
  <2>2. progress[r].owner \in Jobs \cup {NoJob}
    BY DEF DashboardInv, DashboardTypeOK
  <2>3. CASE progress[r].owner = NoJob
    BY <2>1, <2>3, DashboardAssumption DEF Owned
  <2>4. CASE progress[r].owner \in Jobs
    BY <2>1, <2>4 DEF Owned, Busy
  <2> QED  BY <2>2, <2>3, <2>4
<1> QED  BY <1>1, DashboardInvHolds, PTL

-----------------------------------------------------------------------------
(* The send view of the Mac application. *)

SendingStages == {"unused", "running", "succeeded", "failed", "clearing", "over"}

(* While a transfer is on the screen a device and files are selected, so   *)
(* that a retry really sends.                                              *)
ShownIsSelected == activeTransfer # "none" => selectedDeviceID # NoGadget /\ selectedFiles # <<>>

ViewTypes ==
    /\ selectedFiles \in Seq(Picks) /\ selectedDeviceID \in Gadgets \cup {NoGadget}
    /\ activeTransfer \in {"none", "transferring", "completed", "failed"}
    /\ sendings \in 0..MaxSendings /\ sending \in [Sendings -> SendingStages]
    /\ DOMAIN sentFile = Sendings
    /\ sentTo \in [Sendings -> Gadgets \cup {NoGadget}]
    /\ \A p \in Sendings : sending[p] # "unused" => sentTo[p] \in Gadgets
    /\ retryable \subseteq Gadgets

ViewInv == ViewTypes /\ ShownIsSelected /\ ShownTransferHasProcess

(* A process is started for the selected file.                             *)
LEMMA SendFileKeeps ==
    ASSUME ViewTypes, NEW g \in Gadgets, NEW f, sendFile(f, g)
    PROVE  /\ sendings' \in 0..MaxSendings /\ sending' \in [Sendings -> SendingStages]
           /\ DOMAIN sentFile' = Sendings /\ sentTo' \in [Sendings -> Gadgets \cup {NoGadget}]
           /\ \A p \in Sendings : sending'[p] # "unused" => sentTo'[p] \in Gadgets
           /\ \E p \in Sendings : sending'[p] \in {"running", "succeeded", "failed"}
<1>1. /\ sendings < MaxSendings /\ sendings' = sendings + 1
      /\ sentFile' = [sentFile EXCEPT ![sendings'] = f]
      /\ sentTo' = [sentTo EXCEPT ![sendings'] = g]
  BY DEF sendFile
<1>2. PICK how \in {"running", "failed"} : sending' = [sending EXCEPT ![sendings'] = how]
  BY DEF sendFile
<1>3. sendings' \in Sendings /\ sendings' \in 0..MaxSendings
  BY <1>1, ViewAssumption DEF ViewTypes, Sendings
<1>4. /\ sending \in [Sendings -> SendingStages] /\ sentTo \in [Sendings -> Gadgets \cup {NoGadget}]
      /\ DOMAIN sentFile = Sendings
      /\ \A p \in Sendings : sending[p] # "unused" => sentTo[p] \in Gadgets
  BY DEF ViewTypes
<1>5. sending' \in [Sendings -> SendingStages] /\ sending'[sendings'] = how
  BY <1>2, <1>3, <1>4 DEF SendingStages
<1>6. sentTo' \in [Sendings -> Gadgets \cup {NoGadget}] /\ DOMAIN sentFile' = Sendings
  BY <1>1, <1>4
<1>7. \A p \in Sendings : sending'[p] # "unused" => sentTo'[p] \in Gadgets
  BY <1>1, <1>2, <1>3, <1>4
<1> QED  BY <1>3, <1>5, <1>6, <1>7

(* removeAll leaves a sequence of files.                                   *)
LEMMA DeselectKeeps ==
    ASSUME selectedFiles \in Seq(Picks), NEW f, Deselect(f)
    PROVE  selectedFiles' \in Seq(Picks) /\ DOMAIN sentFile' = Sendings
<1>1. DOMAIN sentFile' = Sendings
  BY DEF Deselect
<1>2. CASE UNCHANGED selectedFiles
  BY <1>1, <1>2
<1>3. CASE \E i \in DOMAIN selectedFiles :
               selectedFiles' = SubSeq(selectedFiles, 1, i - 1)
                                \o SubSeq(selectedFiles, i + 1, Len(selectedFiles))
  <2>1. PICK i \in DOMAIN selectedFiles :
            selectedFiles' = SubSeq(selectedFiles, 1, i - 1)
                             \o SubSeq(selectedFiles, i + 1, Len(selectedFiles))
    BY <1>3
  <2>2. i \in 1..Len(selectedFiles) /\ Len(selectedFiles) \in Nat
    OBVIOUS
  <2>3. \A k \in 1..(i - 1) : selectedFiles[k] \in Picks
    BY <2>2
  <2>4. \A k \in (i + 1)..Len(selectedFiles) : selectedFiles[k] \in Picks
    BY <2>2
  <2>5. SubSeq(selectedFiles, 1, i - 1) \in Seq(Picks)
    BY <2>2, <2>3
  <2>6. SubSeq(selectedFiles, i + 1, Len(selectedFiles)) \in Seq(Picks)
    BY <2>2, <2>4
  <2> QED  BY <2>1, <2>5, <2>6, <1>1, ConcatProperties
<1> QED  BY <1>2, <1>3 DEF Deselect

LEMMA ViewStep == ViewInv /\ [ViewNext]_viewVars => ViewInv'
<1> SUFFICES ASSUME ViewInv, [ViewNext]_viewVars PROVE ViewInv'
  OBVIOUS
<1>t. /\ selectedFiles \in Seq(Picks) /\ selectedDeviceID \in Gadgets \cup {NoGadget}
      /\ activeTransfer \in {"none", "transferring", "completed", "failed"}
      /\ NoGadget \notin Gadgets
  BY ViewAssumption DEF ViewInv, ViewTypes
<1>u. /\ sendings \in 0..MaxSendings /\ sending \in [Sendings -> SendingStages]
      /\ DOMAIN sentFile = Sendings /\ sentTo \in [Sendings -> Gadgets \cup {NoGadget}]
      /\ \A p \in Sendings : sending[p] # "unused" => sentTo[p] \in Gadgets
      /\ retryable \subseteq Gadgets
  BY DEF ViewInv, ViewTypes
<1>i. ViewTypes /\ ShownIsSelected /\ ShownTransferHasProcess
  BY DEF ViewInv
<1>h. ASSUME UNCHANGED <<sending, activeTransfer>> PROVE ShownTransferHasProcess'
  BY <1>h, <1>i DEF ShownTransferHasProcess
<1>1. ASSUME NEW f \in Picks, addFile(f) PROVE ViewInv'
  <2>1. /\ selectedFiles' = Append(selectedFiles, f)
        /\ UNCHANGED <<selectedDeviceID, activeTransfer, sendings, sending, sentFile, sentTo, retryable>>
    BY <1>1 DEF addFile, processVars
  <2>2. selectedFiles' \in Seq(Picks) /\ Len(selectedFiles') = Len(selectedFiles) + 1
    BY <2>1, <1>t, AppendProperties
  <2>3. selectedFiles' # <<>>
    BY <2>2, <1>t
  <2>4. ViewTypes'
    BY <2>1, <2>2, <1>t, <1>u DEF ViewTypes
  <2> QED  BY <2>1, <2>3, <2>4, <1>h, <1>i DEF ViewInv, ShownIsSelected
<1>2. CASE RemoveFiles
  <2>1. /\ activeTransfer = "none" /\ selectedFiles' = <<>> /\ sentFile' = [p \in Sendings |-> NoGadget]
        /\ UNCHANGED <<selectedDeviceID, activeTransfer, sendings, sending, sentTo, retryable>>
    BY <1>2 DEF RemoveFiles
  <2>2. ViewTypes'
    BY <2>1, <1>t, <1>u DEF ViewTypes
  <2> QED  BY <2>1, <2>2, <1>h DEF ViewInv, ShownIsSelected
<1>3. CASE cancelShown
  <2>1. /\ activeTransfer' = "none"
        /\ UNCHANGED <<selectedFiles, selectedDeviceID, sendings, sending, sentFile, sentTo, retryable>>
    BY <1>3 DEF cancelShown, processVars
  <2>2. ViewTypes'
    BY <2>1, <1>t, <1>u DEF ViewTypes
  <2> QED  BY <2>1, <2>2 DEF ViewInv, ShownIsSelected, ShownTransferHasProcess
<1>4. CASE ClearHistory
  <2>1. /\ retryable' = {}
        /\ UNCHANGED <<selectedFiles, selectedDeviceID, activeTransfer, sendings, sending, sentFile, sentTo>>
    BY <1>4 DEF ClearHistory, processVars
  <2>2. ViewTypes'
    BY <2>1, <1>t, <1>u DEF ViewTypes
  <2> QED  BY <2>1, <2>2, <1>h, <1>i DEF ViewInv, ShownIsSelected
  (* A send to g, which is the selected device. *)
<1>s. ASSUME NEW g \in Gadgets, SendFirst(g), selectedDeviceID' = g,
             UNCHANGED <<selectedFiles, retryable>>,
             activeTransfer = "none" \/ selectedFiles # <<>>
      PROVE  ViewInv'
  <2>1. CASE /\ selectedFiles # <<>> /\ activeTransfer' = "transferring"
             /\ sendFile(Head(selectedFiles), g)
    <3>1. /\ sendings' \in 0..MaxSendings /\ sending' \in [Sendings -> SendingStages]
          /\ DOMAIN sentFile' = Sendings /\ sentTo' \in [Sendings -> Gadgets \cup {NoGadget}]
          /\ \A p \in Sendings : sending'[p] # "unused" => sentTo'[p] \in Gadgets
          /\ \E p \in Sendings : sending'[p] \in {"running", "succeeded", "failed"}
      BY <2>1, <1>i, SendFileKeeps
    <3>2. ViewTypes'
      BY <3>1, <2>1, <1>s, <1>t, <1>u DEF ViewTypes
    <3>3. ShownTransferHasProcess'
      BY <3>1 DEF ShownTransferHasProcess
    <3>4. ShownIsSelected'
      BY <2>1, <1>s, <1>t DEF ShownIsSelected
    <3> QED  BY <3>2, <3>3, <3>4 DEF ViewInv
  <2>2. CASE selectedFiles = <<>> /\ UNCHANGED <<activeTransfer, sendings, sending, sentFile, sentTo>>
    <3>1. activeTransfer = "none"
      BY <2>2, <1>s
    <3>2. ViewTypes'
      BY <2>2, <1>s, <1>t, <1>u DEF ViewTypes
    <3> QED  BY <3>1, <3>2, <2>2, <1>h DEF ViewInv, ShownIsSelected
  <2> QED  BY <1>s, <1>t, <2>1, <2>2 DEF SendFirst, processVars
<1>5. ASSUME NEW g \in Gadgets, deviceRow(g) PROVE ViewInv'
  <2>1. activeTransfer = "none" /\ UNCHANGED <<selectedFiles, retryable>>
    BY <1>5 DEF deviceRow
  <2>2. CASE selectedDeviceID' = g /\ SendFirst(g)
    BY <2>1, <2>2, <1>s
  <2>3. CASE selectedDeviceID' = NoGadget
             /\ UNCHANGED <<activeTransfer, sendings, sending, sentFile, sentTo>>
    <3>1. ViewTypes'
      BY <2>1, <2>3, <1>t, <1>u DEF ViewTypes
    <3> QED  BY <3>1, <2>1, <2>3, <1>h DEF ViewInv, ShownIsSelected
  <2> QED  BY <1>5, <2>2, <2>3 DEF deviceRow, processVars
<1>6. CASE retryTransfer
  <2>1. activeTransfer = "failed" /\ UNCHANGED <<selectedFiles, selectedDeviceID, retryable>>
    BY <1>6 DEF retryTransfer
  <2>2. selectedDeviceID # NoGadget /\ selectedFiles # <<>>
    BY <2>1, <1>i DEF ShownIsSelected
  <2>3. SendFirst(selectedDeviceID) /\ selectedDeviceID \in Gadgets
    BY <1>6, <2>2, <1>t DEF retryTransfer
  <2> QED  BY <2>1, <2>2, <2>3, <1>s
<1>7. ASSUME NEW g \in Gadgets, retryHistoryRecord(g) PROVE ViewInv'
  BY <1>7, <1>s DEF retryHistoryRecord
<1>p. ASSUME NEW p \in Sendings, NEW how \in SendingStages \ {"unused"}, sending[p] # "unused",
             sending' = [sending EXCEPT ![p] = how], UNCHANGED sentTo
      PROVE  /\ sending' \in [Sendings -> SendingStages] /\ sending'[p] = how
             /\ \A q \in Sendings : q # p => sending'[q] = sending[q]
             /\ \A q \in Sendings : sending'[q] # "unused" => sentTo'[q] \in Gadgets
  BY <1>p, <1>u
<1>8. ASSUME NEW p \in Sendings, SendProcessEnds(p) PROVE ViewInv'
  <2>1. /\ sending[p] = "running"
        /\ UNCHANGED <<selectedFiles, selectedDeviceID, activeTransfer, sendings, sentFile, sentTo, retryable>>
    BY <1>8 DEF SendProcessEnds
  <2>2. PICK how \in {"succeeded", "failed"} : sending' = [sending EXCEPT ![p] = how]
    BY <1>8 DEF SendProcessEnds
  <2>3. /\ sending' \in [Sendings -> SendingStages] /\ sending'[p] = how
        /\ \A q \in Sendings : q # p => sending'[q] = sending[q]
        /\ \A q \in Sendings : sending'[q] # "unused" => sentTo'[q] \in Gadgets
    BY <2>1, <2>2, <1>p DEF SendingStages
  <2>4. ViewTypes'
    BY <2>1, <2>3, <1>t, <1>u DEF ViewTypes
  <2>5. ShownTransferHasProcess'
    BY <2>3 DEF ShownTransferHasProcess
  <2> QED  BY <2>1, <2>4, <2>5, <1>i DEF ViewInv, ShownIsSelected
<1>9. ASSUME NEW p \in Sendings, SendCompleted(p) \/ SendFailed(p) PROVE ViewInv'
  <2>1. /\ sending[p] # "unused"
        /\ UNCHANGED <<selectedFiles, selectedDeviceID, sendings, sentFile, sentTo>>
        /\ retryable' \subseteq retryable \cup {sentTo[p]}
    BY <1>9 DEF SendCompleted, SendFailed
  <2>2. PICK how \in {"clearing", "over"} : sending' = [sending EXCEPT ![p] = how]
    BY <1>9 DEF SendCompleted, SendFailed
  <2>3. activeTransfer' \in {"none", "completed", "failed"}
        /\ (activeTransfer' # "none" => activeTransfer # "none")
    BY <1>9 DEF SendCompleted, SendFailed, SetStatus
  <2>4. /\ sending' \in [Sendings -> SendingStages]
        /\ \A q \in Sendings : sending'[q] # "unused" => sentTo'[q] \in Gadgets
    BY <2>1, <2>2, <1>p DEF SendingStages
  <2>5. retryable' \subseteq Gadgets
    BY <2>1, <1>u
  <2>6. ViewTypes'
    BY <2>1, <2>3, <2>4, <2>5, <1>t, <1>u DEF ViewTypes
  <2> QED  BY <2>1, <2>3, <2>6, <1>i DEF ViewInv, ShownIsSelected, ShownTransferHasProcess
<1>10. ASSUME NEW p \in Sendings, Cleared(p) PROVE ViewInv'
  <2>1. /\ sending[p] = "clearing" /\ sending' = [sending EXCEPT ![p] = "over"]
        /\ activeTransfer' = "none" /\ selectedDeviceID' = NoGadget /\ Deselect(sentFile[p])
        /\ UNCHANGED <<sendings, sentTo, retryable>>
    BY <1>10 DEF Cleared
  <2>2. /\ sending' \in [Sendings -> SendingStages]
        /\ \A q \in Sendings : sending'[q] # "unused" => sentTo'[q] \in Gadgets
    BY <2>1, <1>p DEF SendingStages
  <2>3. selectedFiles' \in Seq(Picks) /\ DOMAIN sentFile' = Sendings
    BY <2>1, <1>t, DeselectKeeps
  <2>4. ViewTypes'
    BY <2>1, <2>2, <2>3, <1>t, <1>u DEF ViewTypes
  <2> QED  BY <2>1, <2>4 DEF ViewInv, ShownIsSelected, ShownTransferHasProcess
<1>11. CASE UNCHANGED viewVars
  <2>1. UNCHANGED <<selectedFiles, selectedDeviceID, activeTransfer, sendings, sending, sentFile, sentTo, retryable>>
    BY <1>11 DEF viewVars
  <2>2. ViewTypes'
    BY <2>1, <1>t, <1>u DEF ViewTypes
  <2> QED  BY <2>1, <2>2, <1>h, <1>i DEF ViewInv, ShownIsSelected
<1> QED
  BY <1>1, <1>2, <1>3, <1>4, <1>5, <1>6, <1>7, <1>8, <1>9, <1>10, <1>11 DEF ViewNext

LEMMA ViewInvHolds == ViewSpec => []ViewInv
<1>1. ViewInit => ViewInv
  <2> SUFFICES ASSUME ViewInit PROVE ViewInv
    OBVIOUS
  <2>1. 0 \in 0..MaxSendings
    BY ViewAssumption
  <2>2. ViewTypes
    BY <2>1 DEF ViewInit, ViewTypes, SendingStages
  <2> QED  BY <2>2 DEF ViewInit, ViewInv, ShownIsSelected, ShownTransferHasProcess
<1> QED  BY <1>1, ViewStep, PTL DEF ViewSpec

(* A transfer shown as in progress has a process that runs or whose end is *)
(* still to be reported (TransferView.swift sendFiles, retryTransfer).     *)
THEOREM ShownTransferHasProcessHolds == ViewSpec => []ShownTransferHasProcess
<1>1. ViewInv => ShownTransferHasProcess
  BY DEF ViewInv
<1> QED  BY <1>1, ViewInvHolds, PTL

-----------------------------------------------------------------------------
(* The Mac application's backend (MacBackend).  The processes no variable   *)
(* but relayProcess could stop:                                             *)
Unowned == alive \ (bridges \cup dashboards \cup dying)

(* A relay is launched only while relayRunning is false, and relayRunning   *)
(* becomes false only in stopBackend, which tells the relay to terminate.   *)
OwnedInv ==
    /\ Unowned \subseteq {relayProcess}
    /\ ~relayRunning => Unowned = {}

(* The timers and the closures that wait.                                   *)
WatchTypes ==
    /\ connectionStatus \in {"disconnected", "connecting", "connected", "failed"}
    /\ checkDue \in Nat /\ retryDue \in Nat /\ retryCount \in Nat

WatchInv ==
    /\ isConnecting => checkDue + retryDue > 0 \/ retryTimer
    /\ connectionStatus = "connected" => healthCheckTimer

MacInv == OwnedInv /\ WatchTypes /\ WatchInv

(* BackendService.startRelay keeps what it owns.                            *)
LEMMA StartRelayOwns ==
    ASSUME OwnedInv, startRelayProcess, UNCHANGED dying
    PROVE  OwnedInv'
<1>1. CASE UNCHANGED relayVars
  BY <1>1 DEF OwnedInv, Unowned, relayVars, launchVars
<1>2. CASE ~relayRunning /\ Run /\ UNCHANGED <<bridges, dashboards, lost>> /\ relayProcess' = launched + 1
           /\ relayRunning' = TRUE
  <2>1. Unowned' \subseteq Unowned \cup {launched + 1}
    BY <1>2 DEF Unowned, Run
  <2> QED  BY <1>2, <2>1 DEF OwnedInv
<1> QED  BY <1>1, <1>2 DEF startRelayProcess

(* ConnectionManager.startRelay, whoever calls it, leaves a check to come.  *)
LEMMA StartRelayKeeps ==
    ASSUME MacInv, startRelay, retryDue' \in Nat, UNCHANGED <<dying, retryTimer, healthCheckTimer>>
    PROVE  MacInv'
<1>1. OwnedInv'
  BY StartRelayOwns DEF MacInv, startRelay, attemptRelayStart
<1>2. WatchTypes'
  BY DEF MacInv, WatchTypes, startRelay, attemptRelayStart
<1>3. checkDue' + retryDue' > 0
  <2>1. checkDue \in Nat /\ checkDue' = checkDue + 1
    BY DEF MacInv, WatchTypes, startRelay, attemptRelayStart
  <2>2. retryDue' \in Nat
    OBVIOUS
  <2>3. \A m, n \in Nat : (m + 1) + n > 0
    OBVIOUS
  <2>4. (checkDue + 1) + retryDue' > 0
    BY <2>1, <2>2, <2>3
  <2> QED  BY <2>1, <2>4
<1>4. WatchInv'
  BY <1>3 DEF WatchInv, startRelay
<1> QED  BY <1>1, <1>2, <1>4 DEF MacInv

(* ConnectionManager.stop leaves nothing to watch and no relay of its own.  *)
LEMMA StopKeeps ==
    ASSUME MacInv, stopConnection, UNCHANGED <<checkDue, retryDue, alive, bridges, dashboards>>
    PROVE  MacInv'
<1>1. Unowned' \subseteq Unowned \ {relayProcess}
  BY DEF Unowned, stopConnection, stopBackend
<1>2. OwnedInv'
  BY <1>1 DEF MacInv, OwnedInv
<1>3. WatchTypes' /\ WatchInv'
  BY DEF MacInv, WatchTypes, WatchInv, stopConnection
<1> QED  BY <1>2, <1>3 DEF MacInv

LEMMA MacStep ==
    ASSUME MacInv, [MacNext]_macVars
    PROVE  MacInv'
<1> USE DEF stateVars, timerVars, dueVars, relayVars, launchVars
  (* Steps that leave all the invariant reads. *)
<1>u. ASSUME UNCHANGED <<stateVars, timerVars, checkDue, retryDue, relayRunning, relayProcess,
                         alive, bridges, dashboards, dying>>
      PROVE  MacInv'
  BY <1>u DEF MacInv, OwnedInv, Unowned, WatchTypes, WatchInv
<1>1. CASE UserStarts
  BY <1>1, StartRelayKeeps DEF UserStarts, MacInv, WatchTypes
<1>2. CASE ViewStarts
  <2>1. OwnedInv'
    BY <1>2, StartRelayOwns DEF ViewStarts, MacInv
  <2> QED  BY <1>2, <2>1 DEF ViewStarts, MacInv, WatchTypes, WatchInv
<1>3. CASE UserStops \/ WindowCloses
  BY <1>3, StopKeeps DEF UserStops, WindowCloses
<1>4. CASE CheckRelay
  <2>1. OwnedInv'
    BY <1>4 DEF CheckRelay, MacInv, OwnedInv, Unowned
  <2>2. checkDue' \in Nat /\ UNCHANGED retryDue /\ retryDue \in Nat /\ retryCount \in Nat
    BY <1>4 DEF CheckRelay, MacInv, WatchTypes
  <2>3. CASE relayRunning /\ connectionStatus' = "connected" /\ isConnecting' = FALSE
             /\ retryCount' = 0 /\ startHealthCheck
    BY <2>1, <2>2, <2>3 DEF MacInv, WatchTypes, WatchInv, startHealthCheck
  <2>4. CASE handleRetry /\ UNCHANGED healthCheckTimer
    <3>1. WatchTypes'
      BY <2>2, <2>4 DEF handleRetry, WatchTypes
    <3>2. WatchInv'
      BY <2>2, <2>4, MacAssumption DEF handleRetry, WatchInv
    <3> QED  BY <2>1, <3>1, <3>2 DEF MacInv
  <2> QED  BY <1>4, <2>3, <2>4 DEF CheckRelay
<1>5. CASE RetryTimerFires
  BY <1>5 DEF RetryTimerFires, MacInv, OwnedInv, Unowned, WatchTypes, WatchInv
<1>6. CASE HealthTimerFires \/ startPolling
  BY <1>6, <1>u DEF HealthTimerFires, startPolling
<1>7. CASE Retry
  <2>1. OwnedInv'
    BY <1>7, StartRelayOwns DEF Retry, attemptRelayStart, MacInv
  <2>2. /\ checkDue' = checkDue + 1 /\ retryDue' = retryDue - 1 /\ retryDue > 0
        /\ UNCHANGED <<connectionStatus, isConnecting, retryCount, retryTimer, healthCheckTimer>>
    BY <1>7 DEF Retry, attemptRelayStart
  <2>3. WatchTypes' /\ checkDue' + retryDue' > 0
    BY <2>2 DEF MacInv, WatchTypes
  <2> QED  BY <2>1, <2>2, <2>3 DEF MacInv, WatchInv
<1>8. CASE HealthCheck
  <2>1. CASE startRelay
    BY <1>8, <2>1, StartRelayKeeps DEF HealthCheck, MacInv, WatchTypes
  <2> QED  BY <1>8, <2>1, <1>u DEF HealthCheck
<1>9. CASE startDashboard
  <2>1. Unowned' \subseteq Unowned
    BY <1>9 DEF startDashboard, Unowned, Run
  <2> QED  BY <1>9, <2>1 DEF startDashboard, MacInv, OwnedInv, WatchTypes, WatchInv
<1>10. CASE terminationHandler
  <2>1. CASE startRelay
    BY <1>10, <2>1, StartRelayKeeps DEF terminationHandler, MacInv, WatchTypes
  <2> QED  BY <1>10, <2>1, <1>u DEF terminationHandler
<1>11. ASSUME NEW host \in Hosts, connectToRelay(host) PROVE MacInv'
  <2>1. Unowned' \subseteq Unowned
    BY <1>11 DEF connectToRelay, Unowned, Run
  <2>2. OwnedInv'
    BY <1>11, <2>1 DEF connectToRelay, MacInv, OwnedInv
  <2>3. WatchTypes'
    BY <1>11 DEF connectToRelay, MacInv, WatchTypes
  <2>4. WatchInv'
    BY <1>11 DEF connectToRelay, startHealthCheck, MacInv, WatchInv
  <2> QED  BY <2>2, <2>3, <2>4 DEF MacInv
<1>12. ASSUME NEW p \in 1..launched, ProcessEnds(p) PROVE MacInv'
  <2>1. Unowned' \subseteq Unowned
    BY <1>12 DEF ProcessEnds, Unowned
  <2> QED  BY <1>12, <2>1 DEF ProcessEnds, MacInv, OwnedInv, WatchTypes, WatchInv
<1>13. ASSUME NEW to, handlePathChange(to), UNCHANGED <<timerVars, retryDue, dying>>
       PROVE  MacInv'
  <2>1. CASE startRelay
    BY <1>13, <2>1, StartRelayKeeps DEF MacInv, WatchTypes
  <2> QED  BY <1>13, <2>1, <1>u DEF handlePathChange
<1>14. CASE TakePathUpdate
  BY <1>14, <1>13 DEF TakePathUpdate
<1>15. ASSUME NEW to \in Networks, startMonitoring(to) \/ PathUpdate(to) PROVE MacInv'
  BY <1>15, <1>13, <1>u DEF startMonitoring, PathUpdate
<1>16. CASE UNCHANGED macVars
  BY <1>16, <1>u DEF macVars
<1> QED
  BY <1>1, <1>2, <1>3, <1>4, <1>5, <1>6, <1>7, <1>8, <1>9, <1>10, <1>11, <1>12, <1>14, <1>15, <1>16
  DEF MacNext

LEMMA MacInvHolds == MacSpec => []MacInv
<1>1. MacInit => MacInv
  BY DEF MacInit, MacInv, OwnedInv, Unowned, WatchTypes, WatchInv
<1> QED  BY <1>1, MacStep, PTL DEF MacSpec

-----------------------------------------------------------------------------
(* The uploads of the Mac application (MacUploads).  What a closure of the  *)
(* main queue adds to activeTransfersCount:                                 *)
CountDelta(c) == IF c.do = "add" THEN c.n ELSE IF c.do = "subtract" THEN -1 ELSE 0

(* Running the closures of q in order takes the count from `from` to        *)
(* `to`, and it is never negative on the way.                               *)
Counts(q, from, to) ==
    \E b \in [0..Len(q) -> Nat] :
        /\ b[0] = from /\ b[Len(q)] = to
        /\ \A i \in 1..Len(q) : b[i] = b[i - 1] + CountDelta(q[i])

(* A closure that leads to a refresh waits in q.                            *)
RefreshDue(q) == \E i \in 1..Len(q) : q[i].do \in {"add", "subtract", "refresh"}

SendingUrls == {f \in Urls : macUpload[f] = "sending"}

LookTypes ==
    /\ isScanning \in BOOLEAN /\ scansMade \in 0..MaxScans /\ scansOut \in 0..scansMade
    /\ discoveredNodes \subseteq Machines /\ selectedNode \in Machines \cup {NoMachine}
    /\ dials \in 0..MaxDials
    /\ dialling \in [machine : Machines, port : 1..DialPorts] \cup {NoMachine}

SendTypes ==
    /\ mainQueue \in Seq(Closures)
    /\ macUpload \in [Urls -> {"queued", "sending", "skipped", "done"}]
    /\ activeTransfersCount \in Nat
    /\ awake \in BOOLEAN

AwakeInv ==
    /\ sleepActivityToken = awake
    /\ Counts(mainQueue, activeTransfersCount, Cardinality(SendingUrls))
    /\ RefreshDue(mainQueue) \/ (awake <=> activeTransfersCount > 0)

UploadsInv == LookTypes /\ SendTypes /\ AwakeInv

(* The closures, told apart by what they do.                                *)
LEMMA ClosureFacts ==
    /\ \A n \in 0..Cardinality(Urls) : Add(n) \in Closures /\ Add(n).do = "add" /\ CountDelta(Add(n)) = n
    /\ Subtract \in Closures /\ Subtract.do = "subtract" /\ CountDelta(Subtract) = -1
    /\ Refresh \in Closures /\ Refresh.do = "refresh" /\ CountDelta(Refresh) = 0
    /\ \A ms \in SUBSET Machines : Devices(ms) \in Closures /\ CountDelta(Devices(ms)) = 0
    /\ \A m \in Machines : Connected(m) \in Closures /\ CountDelta(Connected(m)) = 0
  BY DEF Closures, Add, Subtract, Refresh, Devices, Connected, CountDelta

LEMMA ClosureKinds ==
    ASSUME NEW c \in Closures
    PROVE  /\ CountDelta(c) \in Int
           /\ c.do \in {"add", "subtract", "refresh", "devices", "connected"}
           /\ c.do \in {"refresh", "devices", "connected"} => CountDelta(c) = 0
           /\ c.do = "devices" => c.list \subseteq Machines
           /\ c.do = "connected" => c.machine \in Machines
<1>0. Cardinality(Urls) \in Nat
  BY UploadsAssumption, FS_CardinalityType
<1>1. ASSUME NEW n \in 0..Cardinality(Urls), c = Add(n) PROVE c.do = "add" /\ CountDelta(c) \in Int
  BY <1>0, <1>1 DEF Add, CountDelta
<1>2. CASE c = Subtract \/ c = Refresh
  BY <1>2 DEF Subtract, Refresh, CountDelta
<1>3. ASSUME NEW ms \in SUBSET Machines, c = Devices(ms)
      PROVE  c.do = "devices" /\ CountDelta(c) = 0 /\ c.list \subseteq Machines
  BY <1>3 DEF Devices, CountDelta
<1>4. ASSUME NEW m \in Machines, c = Connected(m)
      PROVE  c.do = "connected" /\ CountDelta(c) = 0 /\ c.machine \in Machines
  BY <1>4 DEF Connected, CountDelta
<1> QED  BY <1>1, <1>2, <1>3, <1>4 DEF Closures

(* Two stretches of the queue, one after the other.                         *)
LEMMA CountsConcat ==
    ASSUME NEW q \in Seq(Closures), NEW r \in Seq(Closures), NEW from, NEW mid, NEW to,
           Counts(q, from, mid), Counts(r, mid, to)
    PROVE  Counts(q \o r, from, to)
<1>1. PICK b \in [0..Len(q) -> Nat] :
          /\ b[0] = from /\ b[Len(q)] = mid
          /\ \A i \in 1..Len(q) : b[i] = b[i - 1] + CountDelta(q[i])
  BY DEF Counts
<1>2. PICK d \in [0..Len(r) -> Nat] :
          /\ d[0] = mid /\ d[Len(r)] = to
          /\ \A i \in 1..Len(r) : d[i] = d[i - 1] + CountDelta(r[i])
  BY DEF Counts
<1> DEFINE s == q \o r
           e == [i \in 0..Len(s) |-> IF i <= Len(q) THEN b[i] ELSE d[i - Len(q)]]
<1>3. /\ Len(q) \in Nat /\ Len(r) \in Nat /\ Len(s) = Len(q) + Len(r)
      /\ \A i \in 1..Len(s) : s[i] = IF i <= Len(q) THEN q[i] ELSE r[i - Len(q)]
  BY ConcatProperties
<1> HIDE DEF s
<1>4. e \in [0..Len(s) -> Nat]
  <2> SUFFICES ASSUME NEW i \in 0..Len(s)
               PROVE  (IF i <= Len(q) THEN b[i] ELSE d[i - Len(q)]) \in Nat
    OBVIOUS
  <2>1. CASE i <= Len(q)
    <3>1. i \in 0..Len(q)
      BY <1>3, <2>1
    <3> QED  BY <2>1, <3>1
  <2>2. CASE ~(i <= Len(q))
    <3>1. i - Len(q) \in 0..Len(r)
      BY <1>3, <2>2
    <3> QED  BY <1>2, <2>2, <3>1
  <2> QED  BY <2>1, <2>2
<1>5. e[0] = from
  BY <1>1, <1>3
<1>6. e[Len(s)] = to
  <2>1. CASE Len(r) = 0
    BY <1>1, <1>2, <1>3, <2>1
  <2>2. CASE Len(r) > 0
    BY <1>2, <1>3, <2>2
  <2> QED  BY <1>3, <2>1, <2>2
<1>7. ASSUME NEW i \in 1..Len(s) PROVE e[i] = e[i - 1] + CountDelta(s[i])
  <2>0. /\ i \in 0..Len(s) /\ i - 1 \in 0..Len(s)
        /\ e[i] = IF i <= Len(q) THEN b[i] ELSE d[i - Len(q)]
        /\ e[i - 1] = IF i - 1 <= Len(q) THEN b[i - 1] ELSE d[(i - 1) - Len(q)]
    BY <1>3
  <2> HIDE DEF e
  <2>1. CASE i <= Len(q)
    <3>1. i \in 1..Len(q) /\ i - 1 <= Len(q)
      BY <1>3, <2>1
    <3>2. e[i] = b[i] /\ e[i - 1] = b[i - 1] /\ s[i] = q[i]
      BY <1>3, <2>0, <2>1, <3>1
    <3> QED  BY <1>1, <3>1, <3>2
  <2>2. CASE i = Len(q) + 1
    <3>1. i - Len(q) = 1 /\ i - 1 = Len(q) /\ ~(i <= Len(q)) /\ 1 \in 1..Len(r)
      BY <1>3, <2>2
    <3>2. e[i] = d[1] /\ e[i - 1] = b[Len(q)] /\ s[i] = r[1]
      BY <1>3, <2>0, <3>1
    <3> QED  BY <1>1, <1>2, <3>1, <3>2
  <2>3. CASE i > Len(q) + 1
    <3> DEFINE j == i - Len(q)
    <3>1. /\ j \in 1..Len(r) /\ e[i] = d[j] /\ s[i] = r[j]
          /\ e[i - 1] = d[(i - 1) - Len(q)] /\ (i - 1) - Len(q) = j - 1
      BY <1>3, <2>0, <2>3
    <3> HIDE DEF j
    <3>2. d[j] = d[j - 1] + CountDelta(r[j])
      BY <1>2, <3>1
    <3>3. e[i] = d[j] /\ e[i - 1] = d[j - 1] /\ CountDelta(s[i]) = CountDelta(r[j])
      BY <3>1, Zenon
    <3> QED  BY <3>2, <3>3, Zenon
  <2>4. i <= Len(q) \/ i = Len(q) + 1 \/ i > Len(q) + 1
    BY <1>3
  <2> QED  BY <2>1, <2>2, <2>3, <2>4, Zenon
<1> HIDE DEF e
<1> QED  BY <1>4, <1>5, <1>6, <1>7 DEF Counts, s

(* One closure.                                                             *)
LEMMA CountsOne ==
    ASSUME NEW c \in Closures, NEW from \in Nat, NEW to \in Nat, to = from + CountDelta(c)
    PROVE  <<c>> \in Seq(Closures) /\ Counts(<<c>>, from, to)
<1> DEFINE b == [i \in 0..1 |-> IF i = 0 THEN from ELSE to]
<1>1. b \in [0..1 -> Nat] /\ b[0] = from /\ b[1] = to
  OBVIOUS
<1>2. Len(<<c>>) = 1 /\ <<c>>[1] = c /\ <<c>> \in Seq(Closures)
  OBVIOUS
<1>3. \A i \in 1..1 : b[i] = b[i - 1] + CountDelta(<<c>>[i])
  BY <1>1, <1>2
<1> HIDE DEF b
<1> QED  BY <1>1, <1>2, <1>3 DEF Counts

(* What LaunchUploads queues: the files are added, the bad ones taken off.  *)
LEMMA CountsLaunch ==
    ASSUME NEW k \in 0..Cardinality(Urls), NEW m \in 0..k, NEW from \in Nat
    PROVE  LET r == <<Add(k)>> \o [i \in 1..m |-> Subtract]
           IN  r \in Seq(Closures) /\ Counts(r, from, from + k - m)
<1> DEFINE u == [i \in 1..m |-> Subtract]
           d == [i \in 0..m |-> from + k - i]
<1>0. Cardinality(Urls) \in Nat
  BY UploadsAssumption, FS_CardinalityType
<1>1. k \in Nat /\ m \in Nat /\ m <= k /\ from + k \in Nat
  BY <1>0
<1>2. u \in Seq(Closures) /\ Len(u) = m /\ \A i \in 1..m : u[i] = Subtract
  BY <1>1, ClosureFacts
<1>3. d \in [0..m -> Nat] /\ d[0] = from + k /\ d[m] = from + k - m
  BY <1>1
<1>4. \A i \in 1..m : d[i] = d[i - 1] + -1
  BY <1>1
<1> HIDE DEF d, u
<1>5. Counts(u, from + k, from + k - m)
  BY <1>2, <1>3, <1>4, ClosureFacts DEF Counts
<1>6. Add(k) \in Closures /\ CountDelta(Add(k)) = k
  BY ClosureFacts
<1>7. <<Add(k)>> \in Seq(Closures) /\ Counts(<<Add(k)>>, from, from + k)
  BY <1>1, <1>6, CountsOne
<1>8. <<Add(k)>> \o u \in Seq(Closures)
  BY <1>2, <1>7, ConcatProperties
<1> QED  BY <1>2, <1>5, <1>7, <1>8, CountsConcat DEF u

(* The closure at the head has run.                                         *)
LEMMA CountsTail ==
    ASSUME NEW q \in Seq(Closures), q # <<>>, NEW from, NEW to, Counts(q, from, to)
    PROVE  from + CountDelta(Head(q)) \in Nat /\ Counts(Tail(q), from + CountDelta(Head(q)), to)
<1>1. PICK b \in [0..Len(q) -> Nat] :
          /\ b[0] = from /\ b[Len(q)] = to
          /\ \A i \in 1..Len(q) : b[i] = b[i - 1] + CountDelta(q[i])
  BY DEF Counts
<1>2. /\ Len(q) \in Nat \ {0} /\ Head(q) = q[1] /\ Len(Tail(q)) = Len(q) - 1
      /\ \A i \in 1..Len(Tail(q)) : Tail(q)[i] = q[i + 1]
  BY HeadTailProperties, LenProperties, EmptySeq
<1> DEFINE d == [i \in 0..Len(Tail(q)) |-> b[i + 1]]
<1>3. d \in [0..Len(Tail(q)) -> Nat] /\ d[0] = b[1] /\ d[Len(Tail(q))] = to
  BY <1>1, <1>2
<1>4. b[1] = from + CountDelta(Head(q)) /\ b[1] \in Nat
  BY <1>1, <1>2
<1>5. ASSUME NEW i \in 1..Len(Tail(q)) PROVE d[i] = d[i - 1] + CountDelta(Tail(q)[i])
  <2>1. i + 1 \in 1..Len(q) /\ (i + 1) - 1 = i /\ d[i] = b[i + 1] /\ d[i - 1] = b[i]
    BY <1>2
  <2> QED  BY <1>1, <1>2, <2>1
<1> HIDE DEF d
<1> QED  BY <1>3, <1>4, <1>5 DEF Counts

LEMMA RefreshDueConcat ==
    ASSUME NEW q \in Seq(Closures), NEW r \in Seq(Closures), RefreshDue(q) \/ RefreshDue(r)
    PROVE  RefreshDue(q \o r)
<1>1. /\ Len(q) \in Nat /\ Len(r) \in Nat /\ Len(q \o r) = Len(q) + Len(r)
      /\ \A i \in 1..Len(q \o r) : (q \o r)[i] = IF i <= Len(q) THEN q[i] ELSE r[i - Len(q)]
  BY ConcatProperties
<1>2. ASSUME NEW i \in 1..Len(q), q[i].do \in {"add", "subtract", "refresh"} PROVE RefreshDue(q \o r)
  <2>1. i \in 1..Len(q \o r) /\ (q \o r)[i] = q[i]
    BY <1>1
  <2> QED  BY <1>2, <2>1 DEF RefreshDue
<1>3. ASSUME NEW i \in 1..Len(r), r[i].do \in {"add", "subtract", "refresh"} PROVE RefreshDue(q \o r)
  <2>1. i + Len(q) \in 1..Len(q \o r) /\ ~(i + Len(q) <= Len(q)) /\ (i + Len(q)) - Len(q) = i
    BY <1>1
  <2>2. (q \o r)[i + Len(q)] = r[i]
    BY <1>1, <2>1
  <2> QED  BY <1>3, <2>1, <2>2 DEF RefreshDue
<1> QED  BY <1>2, <1>3 DEF RefreshDue

LEMMA RefreshDueTail ==
    ASSUME NEW q \in Seq(Closures), q # <<>>, RefreshDue(q),
           Head(q).do \notin {"add", "subtract", "refresh"}
    PROVE  RefreshDue(Tail(q))
<1>1. /\ Len(q) \in Nat \ {0} /\ Head(q) = q[1] /\ Len(Tail(q)) = Len(q) - 1
      /\ \A i \in 1..Len(Tail(q)) : Tail(q)[i] = q[i + 1]
  BY HeadTailProperties, LenProperties, EmptySeq
<1>2. PICK i \in 1..Len(q) : q[i].do \in {"add", "subtract", "refresh"}
  BY DEF RefreshDue
<1>3. i # 1
  BY <1>1, <1>2
<1>4. i - 1 \in 1..Len(Tail(q)) /\ (i - 1) + 1 = i
  BY <1>1, <1>3
<1>5. Tail(q)[i - 1] = q[i]
  BY <1>1, <1>4
<1> QED  BY <1>2, <1>4, <1>5 DEF RefreshDue

LEMMA SendingFinite ==
    ASSUME NEW S \in SUBSET Urls
    PROVE  IsFiniteSet(S) /\ Cardinality(S) \in 0..Cardinality(Urls) /\ Cardinality(S) \in Nat
<1>1. IsFiniteSet(S) /\ Cardinality(S) <= Cardinality(Urls)
  BY FS_Subset, UploadsAssumption
<1>2. Cardinality(S) \in Nat /\ Cardinality(Urls) \in Nat
  BY <1>1, FS_CardinalityType, UploadsAssumption
<1> QED  BY <1>1, <1>2

(* Closures are queued that account for the uploads started and ended.      *)
LEMMA EnqueueKeeps ==
    ASSUME SendTypes, AwakeInv, NEW r \in Seq(Closures), Enqueue(r),
           Counts(r, Cardinality(SendingUrls), Cardinality(SendingUrls')),
           macUpload' \in [Urls -> {"queued", "sending", "skipped", "done"}],
           UNCHANGED <<activeTransfersCount, sleepActivityToken, awake>>
    PROVE  SendTypes' /\ AwakeInv'
<1>1. mainQueue \in Seq(Closures) /\ mainQueue' = mainQueue \o r
  BY DEF SendTypes, Enqueue
<1>2. SendTypes'
  BY <1>1, ConcatProperties DEF SendTypes
<1>3. Counts(mainQueue \o r, activeTransfersCount, Cardinality(SendingUrls'))
  BY <1>1, CountsConcat DEF AwakeInv
<1>4. RefreshDue(mainQueue') \/ (awake' <=> activeTransfersCount' > 0)
  BY <1>1, RefreshDueConcat DEF AwakeInv
<1>5. Counts(mainQueue', activeTransfersCount', Cardinality(SendingUrls'))
  BY <1>1, <1>3
<1>6. sleepActivityToken' = awake'
  BY DEF AwakeInv
<1> QED  BY <1>2, <1>4, <1>5, <1>6 DEF AwakeInv

(* A closure without effect on the count.                                   *)
LEMMA EnqueueOne ==
    ASSUME SendTypes, AwakeInv, NEW c \in Closures, CountDelta(c) = 0, Enqueue(<<c>>),
           UNCHANGED sendVars
    PROVE  SendTypes' /\ AwakeInv'
<1>1. UNCHANGED <<macUpload, activeTransfersCount, sleepActivityToken, awake>> /\ SendingUrls' = SendingUrls
  BY DEF sendVars, SendingUrls
<1>2. Cardinality(SendingUrls) \in Nat
  BY SendingFinite DEF SendingUrls
<1>3. <<c>> \in Seq(Closures) /\ Counts(<<c>>, Cardinality(SendingUrls), Cardinality(SendingUrls'))
  BY <1>1, <1>2, CountsOne
<1>4. macUpload' \in [Urls -> {"queued", "sending", "skipped", "done"}]
  BY <1>1 DEF SendTypes
<1> QED  BY <1>1, <1>3, <1>4, EnqueueKeeps

LEMMA LaunchUploadsKeeps ==
    ASSUME SendTypes, AwakeInv, NEW fs \in SUBSET QueuedUrls, NEW bad \in SUBSET fs,
           LaunchUploads(fs, bad)
    PROVE  SendTypes' /\ AwakeInv'
<1> DEFINE r == <<Add(Cardinality(fs))>> \o [i \in 1..Cardinality(bad) |-> Subtract]
<1>1. /\ Enqueue(r) /\ UNCHANGED <<activeTransfersCount, sleepActivityToken, awake>>
      /\ macUpload' = [f \in Urls |-> IF f \notin fs THEN macUpload[f]
                                      ELSE IF f \in bad THEN "skipped" ELSE "sending"]
  BY DEF LaunchUploads
<1>2. macUpload' \in [Urls -> {"queued", "sending", "skipped", "done"}]
  BY <1>1 DEF SendTypes
<1>3. /\ SendingUrls \in SUBSET Urls /\ fs \in SUBSET Urls /\ bad \in SUBSET Urls
      /\ SendingUrls \cap (fs \ bad) = {} /\ fs \cap bad = bad
  BY DEF SendingUrls, QueuedUrls
<1>4. SendingUrls' = SendingUrls \cup (fs \ bad)
  BY <1>1, <1>3 DEF SendingUrls, QueuedUrls
<1>5. /\ IsFiniteSet(SendingUrls) /\ Cardinality(SendingUrls) \in Nat
      /\ IsFiniteSet(fs) /\ Cardinality(fs) \in 0..Cardinality(Urls) /\ Cardinality(fs) \in Nat
      /\ IsFiniteSet(bad) /\ Cardinality(bad) \in Nat
  BY <1>3, SendingFinite
<1>6. Cardinality(bad) \in 0..Cardinality(fs)
  BY <1>5, FS_Subset
<1>7. IsFiniteSet(fs \ bad) /\ Cardinality(fs \ bad) = Cardinality(fs) - Cardinality(bad)
  BY <1>3, <1>5, FS_Difference
<1>8. Cardinality(SendingUrls') = Cardinality(SendingUrls) + Cardinality(fs) - Cardinality(bad)
  <2>1. Cardinality(SendingUrls \cup (fs \ bad)) =
            Cardinality(SendingUrls) + Cardinality(fs \ bad) - Cardinality(SendingUrls \cap (fs \ bad))
    BY <1>5, <1>7, FS_Union
  <2>2. Cardinality(SendingUrls \cap (fs \ bad)) = 0
    BY <1>3, FS_EmptySet
  <2> QED  BY <1>4, <1>5, <1>7, <2>1, <2>2
<1>9. /\ r \in Seq(Closures)
      /\ Counts(r, Cardinality(SendingUrls), Cardinality(SendingUrls) + Cardinality(fs) - Cardinality(bad))
  BY <1>5, <1>6, CountsLaunch
<1> HIDE DEF r
<1> QED  BY <1>1, <1>2, <1>8, <1>9, EnqueueKeeps

LEMMA UploadEndsKeeps ==
    ASSUME SendTypes, AwakeInv, NEW f \in Urls, UploadEnds(f)
    PROVE  SendTypes' /\ AwakeInv'
<1>1. /\ macUpload[f] = "sending" /\ macUpload' = [macUpload EXCEPT ![f] = "done"]
      /\ Enqueue(<<Subtract>>) /\ UNCHANGED <<activeTransfersCount, sleepActivityToken, awake>>
  BY DEF UploadEnds
<1>2. macUpload' \in [Urls -> {"queued", "sending", "skipped", "done"}]
  BY <1>1 DEF SendTypes
<1>3. SendingUrls' = SendingUrls \ {f} /\ f \in SendingUrls /\ SendingUrls \in SUBSET Urls
  BY <1>1 DEF SendingUrls, SendTypes
<1>4. IsFiniteSet(SendingUrls) /\ Cardinality(SendingUrls) \in Nat
  BY <1>3, SendingFinite
<1>5. Cardinality(SendingUrls') = Cardinality(SendingUrls) - 1
  BY <1>3, <1>4, FS_RemoveElement
<1>6. Cardinality(SendingUrls') \in Nat
  BY <1>3, SendingFinite
<1>7. Cardinality(SendingUrls') = Cardinality(SendingUrls) + -1
  BY <1>4, <1>5
<1>8. <<Subtract>> \in Seq(Closures) /\ Counts(<<Subtract>>, Cardinality(SendingUrls), Cardinality(SendingUrls'))
  BY <1>4, <1>6, <1>7, CountsOne, ClosureFacts
<1> QED  BY <1>1, <1>2, <1>8, EnqueueKeeps

(* The closures of the main queue run.                                      *)
LEMMA RunsKeep ==
    ASSUME SendTypes, AwakeInv, RunCount \/ RunRefresh \/ RunDevices \/ RunConnected
    PROVE  SendTypes' /\ AwakeInv'
<1>1. mainQueue \in Seq(Closures) /\ mainQueue # <<>>
  BY DEF SendTypes, RunCount, RunRefresh, RunDevices, RunConnected
<1>2. Head(mainQueue) \in Closures /\ Tail(mainQueue) \in Seq(Closures)
  BY <1>1, HeadTailProperties
<1> DEFINE c == Head(mainQueue)
           q == Tail(mainQueue)
           sum == activeTransfersCount + CountDelta(c)
<1>3. /\ CountDelta(c) \in Int /\ activeTransfersCount \in Nat
      /\ c.do \in {"refresh", "devices", "connected"} => CountDelta(c) = 0
  BY <1>2, ClosureKinds DEF SendTypes
<1>4. sum \in Nat /\ Counts(q, sum, Cardinality(SendingUrls))
  BY <1>1, CountsTail DEF AwakeInv
<1>5. UNCHANGED macUpload /\ SendingUrls' = SendingUrls
  BY DEF RunCount, RunRefresh, RunDevices, RunConnected, sendVars, SendingUrls
<1>6. macUpload' \in [Urls -> {"queued", "sending", "skipped", "done"}]
  BY <1>5 DEF SendTypes
<1>7. CASE RunCount
  <2>1. c.do \in {"add", "subtract"} /\ activeTransfersCount' = sum
    BY <1>3, <1>7 DEF RunCount, CountDelta
  <2>2. mainQueue' = Append(q, Refresh) /\ UNCHANGED <<sleepActivityToken, awake>>
    BY <1>7 DEF RunCount
  <2>3. Refresh \in Closures /\ Refresh.do = "refresh" /\ CountDelta(Refresh) = 0
    BY ClosureFacts
  <2>4. mainQueue' = q \o <<Refresh>>
    BY <1>2, <2>2, <2>3, AppendIsConcat
  <2>5. Cardinality(SendingUrls) \in Nat
    BY SendingFinite DEF SendingUrls
  <2>6. <<Refresh>> \in Seq(Closures) /\ Counts(<<Refresh>>, Cardinality(SendingUrls), Cardinality(SendingUrls))
    BY <2>3, <2>5, CountsOne
  <2>7. Counts(mainQueue', sum, Cardinality(SendingUrls))
    BY <1>2, <1>4, <2>4, <2>6, CountsConcat
  <2>8. RefreshDue(<<Refresh>>)
    <3>1. 1 \in 1..Len(<<Refresh>>) /\ <<Refresh>>[1] = Refresh
      OBVIOUS
    <3> QED  BY <2>3, <3>1 DEF RefreshDue
  <2>9. RefreshDue(mainQueue')
    BY <1>2, <2>4, <2>6, <2>8, RefreshDueConcat
  <2>10. SendTypes'
    BY <1>2, <1>4, <1>6, <2>1, <2>2, <2>4, <2>6, ConcatProperties DEF SendTypes
  <2> QED  BY <1>5, <2>1, <2>2, <2>7, <2>9, <2>10 DEF AwakeInv
<1>8. CASE RunRefresh
  <2>1. sum = activeTransfersCount
    BY <1>3, <1>8 DEF RunRefresh
  <2>2. mainQueue' = q /\ UNCHANGED activeTransfersCount
    BY <1>8 DEF RunRefresh
  <2>3. /\ awake' \in BOOLEAN /\ sleepActivityToken' = awake'
        /\ awake' <=> activeTransfersCount > 0
    <3>1. awake \in BOOLEAN /\ sleepActivityToken = awake
      BY DEF SendTypes, AwakeInv
    <3>2. CASE activeTransfersCount > 0
      <4>1. sleepActivityToken' = TRUE /\ awake' = (awake \/ ~awake)
        BY <1>8, <3>1, <3>2 DEF RunRefresh, acquirePowerAssertion
      <4> QED  BY <3>1, <3>2, <4>1
    <3>3. CASE ~(activeTransfersCount > 0)
      <4>1. sleepActivityToken' = FALSE /\ awake' = (awake /\ ~awake)
        BY <1>8, <3>1, <3>3 DEF RunRefresh, releasePowerAssertion
      <4> QED  BY <3>1, <3>3, <4>1
    <3> QED  BY <3>2, <3>3
  <2>4. SendTypes'
    BY <1>2, <1>3, <1>6, <2>2, <2>3 DEF SendTypes
  <2>5. Counts(mainQueue', activeTransfersCount', Cardinality(SendingUrls'))
    BY <1>4, <1>5, <2>1, <2>2
  <2>6. awake' <=> activeTransfersCount' > 0
    BY <2>2, <2>3
  <2> QED  BY <2>3, <2>4, <2>5, <2>6 DEF AwakeInv
<1>9. CASE RunDevices \/ RunConnected
  <2>1. /\ c.do \in {"devices", "connected"} /\ mainQueue' = q
        /\ UNCHANGED <<activeTransfersCount, sleepActivityToken, awake>>
    BY <1>9 DEF RunDevices, RunConnected, sendVars
  <2>2. sum = activeTransfersCount
    BY <1>3, <2>1
  <2>3. SendTypes'
    BY <1>2, <1>6, <2>1 DEF SendTypes
  <2>4. Counts(mainQueue', activeTransfersCount', Cardinality(SendingUrls'))
    BY <1>4, <1>5, <2>1, <2>2
  <2>5. c.do \notin {"add", "subtract", "refresh"}
    BY <2>1
  <2>6. RefreshDue(mainQueue) => RefreshDue(q)
    BY <1>1, <2>5, RefreshDueTail
  <2>7. RefreshDue(mainQueue') \/ (awake' <=> activeTransfersCount' > 0)
    BY <2>1, <2>6 DEF AwakeInv
  <2>8. sleepActivityToken' = awake'
    BY <2>1 DEF AwakeInv
  <2> QED  BY <2>3, <2>4, <2>7, <2>8 DEF AwakeInv
<1> QED  BY <1>7, <1>8, <1>9

(* The steps that leave the queue and the uploads alone.                    *)
LEMMA SendUnchanged ==
    ASSUME SendTypes, AwakeInv, UNCHANGED <<mainQueue, sendVars>>
    PROVE  SendTypes' /\ AwakeInv'
<1>1. UNCHANGED <<mainQueue, macUpload, activeTransfersCount, sleepActivityToken, awake>>
      /\ SendingUrls' = SendingUrls
  BY DEF sendVars, SendingUrls
<1> QED  BY <1>1 DEF SendTypes, AwakeInv

LEMMA LookStep ==
    ASSUME LookTypes, SendTypes, [UploadsNext]_uploadsVars
    PROVE  LookTypes'
<1>0. MaxScans \in Nat /\ MaxDials \in Nat /\ DialPorts \in Nat \ {0}
  BY UploadsAssumption
<1>1. CASE toggleScan \/ ScanTimer
  <2>1. /\ isScanning' \in BOOLEAN
        /\ scanDevices \/ UNCHANGED <<scansMade, scansOut>>
        /\ UNCHANGED <<discoveredNodes, selectedNode, dials, dialling>>
    BY <1>1 DEF toggleScan, ScanTimer, LookTypes
  <2>2. scansMade' \in 0..MaxScans /\ scansOut' \in 0..scansMade'
    BY <1>0, <2>1 DEF scanDevices, LookTypes
  <2> QED  BY <2>1, <2>2 DEF LookTypes
<1>2. ASSUME scansOut > 0, scansOut' = scansOut - 1,
             UNCHANGED <<isScanning, scansMade, discoveredNodes, selectedNode, dials, dialling>>
      PROVE  LookTypes'
  <2>1. scansOut' \in 0..scansMade
    BY <1>0, <1>2 DEF LookTypes
  <2> QED  BY <1>2, <2>1 DEF LookTypes
<1>3. ASSUME NEW m \in Machines, connectToIP(m) PROVE LookTypes'
  <2>1. /\ dials < MaxDials /\ dials' = dials + 1 /\ dialling' = [machine |-> m, port |-> 1]
        /\ UNCHANGED <<isScanning, scansMade, scansOut, discoveredNodes, selectedNode>>
    BY <1>3 DEF connectToIP
  <2>2. dials' \in 0..MaxDials
    BY <1>0, <2>1 DEF LookTypes
  <2>3. 1 \in 1..DialPorts
    BY <1>0
  <2>4. dialling' \in [machine : Machines, port : 1..DialPorts]
    BY <2>1, <2>3
  <2> QED  BY <2>1, <2>2, <2>4 DEF LookTypes
<1>4. CASE tryPort
  <2>1. dialling # NoMachine /\ UNCHANGED <<isScanning, scansMade, scansOut, discoveredNodes, selectedNode, dials>>
    BY <1>4 DEF tryPort
  <2>2. dialling \in [machine : Machines, port : 1..DialPorts]
    BY <2>1 DEF LookTypes
  <2>3. dialling' \in [machine : Machines, port : 1..DialPorts] \cup {NoMachine}
    <3>1. CASE dialling.port < DialPorts
      <4>1. dialling' = [dialling EXCEPT !.port = @ + 1]
        BY <1>4, <3>1 DEF tryPort
      <4>2. dialling.port + 1 \in 1..DialPorts
        BY <1>0, <2>2, <3>1
      <4> QED  BY <2>2, <4>1, <4>2
    <3>2. CASE ~(dialling.port < DialPorts)
      BY <1>4, <3>2 DEF tryPort
    <3> QED  BY <3>1, <3>2
  <2> QED  BY <2>1, <2>3 DEF LookTypes
<1>5. CASE HandshakeAnswered
  BY <1>5 DEF HandshakeAnswered, LookTypes
<1>6. ASSUME NEW m \in Machines, SelectNode(m) PROVE LookTypes'
  BY <1>6 DEF SelectNode, LookTypes
<1>7. ASSUME UNCHANGED lookVars PROVE LookTypes'
  BY <1>7 DEF lookVars, LookTypes
<1>8. CASE RunDevices \/ RunConnected
  <2>1. mainQueue \in Seq(Closures) /\ mainQueue # <<>>
    BY <1>8 DEF SendTypes, RunDevices, RunConnected
  <2>2. Head(mainQueue) \in Closures
    BY <2>1, HeadTailProperties
  <2>3. /\ Head(mainQueue).do = "devices" => Head(mainQueue).list \subseteq Machines
        /\ Head(mainQueue).do = "connected" => Head(mainQueue).machine \in Machines
    BY <2>2, ClosureKinds
  <2>4. discoveredNodes' \subseteq Machines /\ selectedNode' \in Machines \cup {NoMachine}
    BY <1>8, <2>3 DEF RunDevices, RunConnected, LookTypes
  <2>5. UNCHANGED <<isScanning, scansMade, scansOut, dials, dialling>>
    BY <1>8 DEF RunDevices, RunConnected
  <2> QED  BY <2>4, <2>5 DEF LookTypes
<1>9. CASE ScanError
  BY <1>9, <1>2 DEF ScanError
<1>10. ASSUME NEW ms \in SUBSET Machines, ScanAnswer(ms) PROVE LookTypes'
  BY <1>10, <1>2 DEF ScanAnswer
<1>11. ASSUME NEW fs, NEW bad, sendFiles(fs, bad) \/ sendFilesDirectly(fs, bad) PROVE LookTypes'
  BY <1>11, <1>7 DEF sendFiles, sendFilesDirectly, LaunchUploads
<1>12. ASSUME NEW f \in Urls, UploadEnds(f) PROVE LookTypes'
  BY <1>12, <1>7 DEF UploadEnds
<1>13. CASE RunCount \/ RunRefresh
  BY <1>13, <1>7 DEF RunCount, RunRefresh
<1>14. CASE UNCHANGED uploadsVars
  BY <1>14, <1>7 DEF uploadsVars, lookVars
<1> QED
  BY <1>1, <1>3, <1>4, <1>5, <1>6, <1>8, <1>9, <1>10, <1>11, <1>12, <1>13, <1>14 DEF UploadsNext

LEMMA UploadsStep ==
    ASSUME UploadsInv, [UploadsNext]_uploadsVars
    PROVE  UploadsInv'
<1>0. LookTypes /\ SendTypes /\ AwakeInv /\ LookTypes'
  BY LookStep DEF UploadsInv
<1>1. CASE UNCHANGED <<mainQueue, sendVars>>
  BY <1>0, <1>1, SendUnchanged DEF UploadsInv
<1>2. CASE toggleScan \/ ScanTimer \/ ScanError \/ tryPort
  BY <1>2, <1>1 DEF toggleScan, ScanTimer, ScanError, tryPort
<1>3. CASE HandshakeAnswered
  <2>1. dialling # NoMachine /\ Enqueue(<<Connected(dialling.machine)>>) /\ UNCHANGED sendVars
    BY <1>3 DEF HandshakeAnswered
  <2>2. dialling.machine \in Machines
    BY <1>0, <2>1 DEF LookTypes
  <2>3. Connected(dialling.machine) \in Closures /\ CountDelta(Connected(dialling.machine)) = 0
    BY <2>2, ClosureFacts
  <2> QED  BY <1>0, <2>1, <2>3, EnqueueOne DEF UploadsInv
<1>4. ASSUME NEW ms \in SUBSET Machines, ScanAnswer(ms) PROVE UploadsInv'
  <2>1. Enqueue(<<Devices(ms)>>) /\ UNCHANGED sendVars
    BY <1>4 DEF ScanAnswer
  <2>2. Devices(ms) \in Closures /\ CountDelta(Devices(ms)) = 0
    BY ClosureFacts
  <2> QED  BY <1>0, <2>1, <2>2, EnqueueOne DEF UploadsInv
<1>5. ASSUME NEW m \in Machines, connectToIP(m) \/ SelectNode(m) PROVE UploadsInv'
  BY <1>5, <1>1 DEF connectToIP, SelectNode
<1>6. ASSUME NEW fs \in SUBSET QueuedUrls, NEW bad \in SUBSET fs,
             sendFiles(fs, bad) \/ sendFilesDirectly(fs, bad)
      PROVE  UploadsInv'
  <2>1. CASE LaunchUploads(fs, bad)
    BY <1>0, <2>1, LaunchUploadsKeeps DEF UploadsInv
  <2>2. CASE /\ macUpload' = [f \in Urls |-> IF f \in fs THEN "skipped" ELSE macUpload[f]]
             /\ UNCHANGED <<mainQueue, activeTransfersCount, sleepActivityToken, awake>>
    <3>1. macUpload' \in [Urls -> {"queued", "sending", "skipped", "done"}]
      BY <1>0, <2>2 DEF SendTypes
    <3>2. SendingUrls' = SendingUrls
      BY <2>2 DEF SendingUrls, QueuedUrls
    <3>3. SendTypes'
      BY <1>0, <2>2, <3>1 DEF SendTypes
    <3>4. AwakeInv'
      BY <1>0, <2>2, <3>2 DEF AwakeInv
    <3> QED  BY <1>0, <3>3, <3>4 DEF UploadsInv
  <2> QED  BY <1>6, <2>1, <2>2 DEF sendFiles, sendFilesDirectly
<1>7. ASSUME NEW f \in Urls, UploadEnds(f) PROVE UploadsInv'
  BY <1>0, <1>7, UploadEndsKeeps DEF UploadsInv
<1>8. CASE RunCount \/ RunRefresh \/ RunDevices \/ RunConnected
  BY <1>0, <1>8, RunsKeep DEF UploadsInv
<1>9. CASE UNCHANGED uploadsVars
  BY <1>9, <1>1 DEF uploadsVars, sendVars
<1> QED  BY <1>2, <1>3, <1>4, <1>5, <1>6, <1>7, <1>8, <1>9 DEF UploadsNext

LEMMA UploadsInvHolds == UploadsSpec => []UploadsInv
<1>1. UploadsInit => UploadsInv
  <2> SUFFICES ASSUME UploadsInit PROVE UploadsInv
    OBVIOUS
  <2>0. 0 \in 0..MaxScans /\ 0 \in 0..MaxDials /\ 0 \in 0..0
    BY UploadsAssumption
  <2>1. LookTypes
    <3>1. scansMade \in 0..MaxScans /\ scansOut \in 0..scansMade /\ dials \in 0..MaxDials
      BY <2>0 DEF UploadsInit
    <3>2. isScanning \in BOOLEAN
      BY DEF UploadsInit
    <3>3. /\ discoveredNodes \subseteq Machines /\ selectedNode \in Machines \cup {NoMachine}
          /\ dialling \in [machine : Machines, port : 1..DialPorts] \cup {NoMachine}
      BY DEF UploadsInit
    <3> QED  BY <3>1, <3>2, <3>3 DEF LookTypes
  <2>2. SendTypes
    <3>1. mainQueue \in Seq(Closures) /\ activeTransfersCount \in Nat
      BY DEF UploadsInit
    <3>2. macUpload \in [Urls -> {"queued", "sending", "skipped", "done"}]
      BY DEF UploadsInit
    <3>3. awake \in BOOLEAN
      BY DEF UploadsInit
    <3> QED  BY <3>1, <3>2, <3>3 DEF SendTypes
  <2>3. SendingUrls = {} /\ Cardinality(SendingUrls) = 0
    BY FS_EmptySet DEF UploadsInit, SendingUrls
  <2> DEFINE b == [i \in 0..0 |-> 0]
  <2>4. b \in [0..0 -> Nat] /\ b[0] = 0
    OBVIOUS
  <2>5. mainQueue = <<>> /\ Len(mainQueue) = 0 /\ 1..0 = {}
    BY DEF UploadsInit
  <2> HIDE DEF b
  <2>6. Counts(mainQueue, 0, 0)
    BY <2>4, <2>5 DEF Counts
  <2>7. Counts(mainQueue, activeTransfersCount, Cardinality(SendingUrls))
    BY <2>3, <2>6 DEF UploadsInit
  <2>8. sleepActivityToken = awake /\ (awake <=> activeTransfersCount > 0)
    <3>1. sleepActivityToken = FALSE /\ awake = FALSE
      BY DEF UploadsInit
    <3>2. ~(activeTransfersCount > 0)
      BY DEF UploadsInit
    <3> QED  BY <3>1, <3>2, Zenon
  <2>9. AwakeInv
    BY <2>7, <2>8 DEF AwakeInv
  <2> QED  BY <2>1, <2>2, <2>9 DEF UploadsInv
<1> QED  BY <1>1, UploadsStep, PTL DEF UploadsSpec

(* Once the queued closures have run, the Mac is kept awake exactly while   *)
(* an upload is under way (activeTransfersCount, acquirePowerAssertion).    *)
THEOREM AwakeWhileSendingHolds == UploadsSpec => []AwakeWhileSending
<1>1. UploadsInv => AwakeWhileSending
  <2> SUFFICES ASSUME UploadsInv, mainQueue = <<>>
               PROVE  awake <=> \E f \in Urls : macUpload[f] = "sending"
    BY DEF AwakeWhileSending
  <2>1. Len(mainQueue) = 0 /\ 1..0 = {}
    OBVIOUS
  <2>2. activeTransfersCount = Cardinality(SendingUrls)
    BY <2>1 DEF UploadsInv, AwakeInv, Counts
  <2>3. awake <=> activeTransfersCount > 0
    BY <2>1 DEF UploadsInv, AwakeInv, RefreshDue
  <2>4. IsFiniteSet(SendingUrls) /\ Cardinality(SendingUrls) \in Nat
    BY SendingFinite DEF SendingUrls
  <2>5. Cardinality(SendingUrls) = 0 <=> SendingUrls = {}
    BY <2>4, FS_EmptySet
  <2>6. Cardinality(SendingUrls) > 0 <=> SendingUrls # {}
    BY <2>4, <2>5
  <2> QED  BY <2>2, <2>3, <2>6 DEF SendingUrls
<1> QED  BY <1>1, UploadsInvHolds, PTL

-----------------------------------------------------------------------------
(* The control loop of an upload (ControlLoop).                             *)
LEMMA Percent ==
    ASSUME NEW n \in Nat
    PROVE  /\ (n * 70) \div 100 \in Nat /\ (n * 70) \div 100 <= n
           /\ (n * 85) \div 100 \in Nat /\ (n * 85) \div 100 <= n
           /\ (n * 90) \div 100 \in Nat /\ (n * 90) \div 100 <= n
           /\ (n * 75) \div 100 \in Nat /\ (n * 75) \div 100 <= n
           /\ (n * 80) \div 100 \in Nat /\ (n * 80) \div 100 <= n
           /\ (n * 15) \div 100 \in Nat /\ (n * 15) \div 100 <= n
           /\ (n * 100) \div 100 \in Nat /\ (n * 100) \div 100 <= n
           /\ (n * 8) \div 10 \in Nat /\ (n * 8) \div 10 <= n
           /\ (n * 105) \div 100 \in Nat
           /\ (n * 110) \div 100 \in Nat
  OBVIOUS

LEMMA RateIsNat ==
    ASSUME NEW c \in Tunings
    PROVE  RateOf(c) \in Nat
  BY DEF Tunings, RateOf, NoLimit

(* A back-off ends at most at the rate it started from, or at 50 Mbps when  *)
(* that was less, and always with a limit.                                  *)
LEMMA BackOffBounds ==
    ASSUME NEW c \in Tunings, NEW pct \in {70, 85, 90}
    PROVE  BackOff(c, pct) \in Nat /\ BackOff(c, pct) # NoLimit /\ BackOff(c, pct) <= Most(RateOf(c), 5000)
<1> DEFINE old == RateOf(c)
           part == (old * pct) \div 100
           cut == (old * 15) \div 100
<1>1. old \in Nat
  BY RateIsNat
<1> HIDE DEF old
<1>2. part \in Nat /\ part <= old /\ cut \in Nat /\ cut <= old
  BY <1>1, Percent
<1> HIDE DEF part, cut
<1> DEFINE target == Most(part, 5000)
           next == limit_step(old, target, cut)
<1>3. target \in Nat /\ target <= Most(old, 5000)
  BY <1>1, <1>2 DEF Most
<1> HIDE DEF target
<1>4. next \in Nat /\ next <= Most(old, 5000)
  BY <1>1, <1>2, <1>3 DEF limit_step, Least, Most
<1> HIDE DEF next
<1>5. /\ Clamp(next, MIN_RATE, MAX_RATE) \in Nat /\ 1000 <= Clamp(next, MIN_RATE, MAX_RATE)
      /\ Clamp(next, MIN_RATE, MAX_RATE) <= Most(old, 5000)
  BY <1>1, <1>4 DEF Clamp, Least, Most, MIN_RATE, MAX_RATE
<1>6. BackOff(c, pct) = Clamp(next, MIN_RATE, MAX_RATE)
  BY DEF BackOff, next, target, part, cut, old
<1> QED  BY <1>5, <1>6 DEF old, NoLimit

LEMMA SpeedUpIsNat ==
    ASSUME NEW c \in Tunings
    PROVE  SpeedUp(c) \in Nat
<1> DEFINE old == RateOf(c)
           more == (old * 105) \div 100
           rise == (old * 15) \div 100
<1>1. old \in Nat
  BY RateIsNat
<1> HIDE DEF old
<1>2. more \in Nat /\ rise \in Nat /\ rise <= old
  BY <1>1, Percent
<1> HIDE DEF more, rise
<1> DEFINE target == Least(more, MAX_RATE)
           next == limit_step(old, target, rise)
<1>3. target \in Nat
  BY <1>2 DEF Least, MAX_RATE
<1> HIDE DEF target
<1>4. next \in Nat
  BY <1>1, <1>2, <1>3 DEF limit_step, Least, Most
<1> HIDE DEF next
<1>5. Clamp(next, MIN_RATE, MAX_RATE) \in Nat
  BY <1>4 DEF Clamp, Least, Most, MIN_RATE, MAX_RATE
<1> QED  BY <1>5 DEF SpeedUp, next, target, more, rise, old

LEMMA ScaledBounds ==
    ASSUME NEW c \in Tunings, NEW pct \in {75, 80, 90, 100, 110}
    PROVE  /\ Scaled(c, pct) \in Nat
           /\ pct # 110 => Scaled(c, pct) <= Most(c.chunk, MIN_CHUNK_BYTES)
<1> DEFINE old == c.chunk
           part == (old * pct) \div 100
<1>1. old \in Nat
  BY DEF Tunings
<1>2. MIN_CHUNK_BYTES \in Nat /\ MAX_CHUNK_BYTES \in Nat /\ MIN_CHUNK_BYTES <= MAX_CHUNK_BYTES
  BY DEF MIN_CHUNK_BYTES, MAX_CHUNK_BYTES
<1> HIDE DEF old
<1>3. part \in Nat /\ (pct # 110 => part <= old)
  BY <1>1, Percent
<1> HIDE DEF part
<1>4. /\ Clamp(part, MIN_CHUNK_BYTES, MAX_CHUNK_BYTES) \in Nat
      /\ pct # 110 => Clamp(part, MIN_CHUNK_BYTES, MAX_CHUNK_BYTES) <= Most(old, MIN_CHUNK_BYTES)
  BY <1>1, <1>2, <1>3 DEF Clamp, Least, Most
<1>5. Scaled(c, pct) = Clamp(part, MIN_CHUNK_BYTES, MAX_CHUNK_BYTES)
  BY DEF Scaled, part, old
<1> QED  BY <1>4, <1>5 DEF old

LEMMA FewerBounds ==
    ASSUME NEW c \in Tunings, NEW n \in {0, 1, 2}
    PROVE  Fewer(c, n) \in Nat /\ Fewer(c, n) <= Most(c.parallel, MIN_PARALLELISM)
<1> DEFINE old == c.parallel
<1>1. old \in Nat
  BY DEF Tunings
<1> HIDE DEF old
<1>2. Clamp(Most(1, old - n), 1, 8) \in Nat /\ Clamp(Most(1, old - n), 1, 8) <= Most(old, 1)
  BY <1>1 DEF Clamp, Least, Most
<1>3. Fewer(c, n) = Clamp(Most(1, old - n), 1, 8)
  BY DEF Fewer, old, MIN_PARALLELISM, MAX_PARALLELISM
<1> QED  BY <1>2, <1>3 DEF old, MIN_PARALLELISM

(* What a decision that backs off leaves, against the configuration r it    *)
(* was taken from; c is the one it is applied to.                           *)
NotFaster(d, c, r) ==
    /\ RateOf(d) <= Most(RateOf(r), 5000)
    /\ d.parallel <= Most(r.parallel, MIN_PARALLELISM)
    /\ d.chunk <= Most(r.chunk, MIN_CHUNK_BYTES) \/ d.chunk = c.chunk

LEMMA AdjustedBounds ==
    ASSUME NEW c \in Tunings, NEW r \in Tunings, NEW b \in Bottlenecks, NEW mode
    PROVE  /\ Adjusted(c, r, b, mode) \in Tunings
           /\ b \in BackOffs => NotFaster(Adjusted(c, r, b, mode), c, r)
<1> DEFINE d == Adjusted(c, r, b, mode)
           Size(pct) == IF mode = "quic" THEN c.chunk ELSE Scaled(r, pct)
           Buffer(size) == IF mode = "quic" THEN c.buffer ELSE size
<1>c. /\ c.chunk \in Nat /\ c.parallel \in Nat /\ c.rate \in Nat /\ c.buffer \in Nat
      /\ r.chunk \in Nat /\ r.buffer \in Nat
  BY DEF Tunings
<1>s. ASSUME NEW pct \in {75, 80, 90, 100, 110}
      PROVE  /\ Size(pct) \in Nat
             /\ pct # 110 => Size(pct) <= Most(r.chunk, MIN_CHUNK_BYTES) \/ Size(pct) = c.chunk
  BY <1>c, ScaledBounds
<1>f. ASSUME NEW n \in {0, 1, 2}
      PROVE  Fewer(r, n) \in Nat /\ Fewer(r, n) <= Most(r.parallel, MIN_PARALLELISM)
  BY FewerBounds
<1>b. ASSUME NEW pct \in {70, 85, 90}
      PROVE  BackOff(r, pct) \in Nat /\ BackOff(r, pct) # NoLimit /\ BackOff(r, pct) <= Most(RateOf(r), 5000)
  BY BackOffBounds
<1>n. ASSUME NEW x, x.rate # NoLimit, x.rate <= Most(RateOf(r), 5000),
             x.parallel <= Most(r.parallel, MIN_PARALLELISM),
             x.chunk <= Most(r.chunk, MIN_CHUNK_BYTES) \/ x.chunk = c.chunk
      PROVE  NotFaster(x, c, r)
  <2>1. RateOf(x) = x.rate
    BY <1>n DEF RateOf
  <2> QED  BY <1>n, <2>1 DEF NotFaster
<1>1. CASE b = "NetworkCongestion"
  <2> DEFINE buf == Buffer((r.buffer * 8) \div 10)
  <2>1. d = [c EXCEPT !.chunk = Size(75), !.parallel = Fewer(r, 1), !.rate = BackOff(r, 70), !.buffer = buf]
    BY <1>1 DEF Adjusted
  <2>2. buf \in Nat
    BY <1>c, Percent
  <2> HIDE DEF buf, d, Size, Buffer
  <2>3. Size(75) \in Nat /\ Fewer(r, 1) \in Nat /\ BackOff(r, 70) \in Nat
    BY <1>s, <1>f, <1>b
  <2>4. d \in Tunings /\ d.chunk = Size(75) /\ d.parallel = Fewer(r, 1) /\ d.rate = BackOff(r, 70)
    BY <2>1, <2>2, <2>3 DEF Tunings
  <2>5. NotFaster(d, c, r)
    BY <1>s, <1>f, <1>b, <1>n, <2>4
  <2> QED  BY <2>4, <2>5 DEF d
<1>2. CASE b = "ReceiverSlow"
  <2> DEFINE buf == Buffer(r.buffer)
  <2>1. d = [c EXCEPT !.chunk = Size(80), !.parallel = Fewer(r, 1), !.rate = BackOff(r, 85), !.buffer = buf]
    BY <1>2 DEF Adjusted
  <2>2. buf \in Nat
    BY <1>c
  <2> HIDE DEF buf, d, Size, Buffer
  <2>3. Size(80) \in Nat /\ Fewer(r, 1) \in Nat /\ BackOff(r, 85) \in Nat
    BY <1>s, <1>f, <1>b
  <2>4. d \in Tunings /\ d.chunk = Size(80) /\ d.parallel = Fewer(r, 1) /\ d.rate = BackOff(r, 85)
    BY <2>1, <2>2, <2>3 DEF Tunings
  <2>5. NotFaster(d, c, r)
    BY <1>s, <1>f, <1>b, <1>n, <2>4
  <2> QED  BY <2>4, <2>5 DEF d
<1>3. CASE b = "ThermalThrottling"
  <2>1. d = [c EXCEPT !.chunk = Size(90), !.parallel = Fewer(r, 1), !.rate = BackOff(r, 90)]
    BY <1>3 DEF Adjusted
  <2> HIDE DEF d, Size
  <2>2. Size(90) \in Nat /\ Fewer(r, 1) \in Nat /\ BackOff(r, 90) \in Nat
    BY <1>s, <1>f, <1>b
  <2>3. d \in Tunings /\ d.chunk = Size(90) /\ d.parallel = Fewer(r, 1) /\ d.rate = BackOff(r, 90)
    BY <2>1, <2>2 DEF Tunings
  <2>4. NotFaster(d, c, r)
    BY <1>s, <1>f, <1>b, <1>n, <2>3
  <2> QED  BY <2>3, <2>4 DEF d
<1>4. CASE b = "CpuBound"
  <2>1. d = [c EXCEPT !.chunk = Size(100), !.parallel = Fewer(r, 2)]
    BY <1>4 DEF Adjusted
  <2> HIDE DEF d, Size
  <2>2. Size(100) \in Nat /\ Fewer(r, 2) \in Nat
    BY <1>s, <1>f
  <2>3. d \in Tunings
    BY <2>1, <2>2 DEF Tunings
  <2> QED  BY <1>4, <2>3 DEF d, BackOffs
<1>5. CASE b = "LinkLimited"
  <2>1. d = [c EXCEPT !.chunk = Size(110), !.parallel = Fewer(r, 0), !.rate = SpeedUp(r)]
    BY <1>5 DEF Adjusted
  <2> HIDE DEF d, Size
  <2>2. Size(110) \in Nat /\ Fewer(r, 0) \in Nat /\ SpeedUp(r) \in Nat
    BY <1>s, <1>f, SpeedUpIsNat
  <2>3. d \in Tunings
    BY <2>1, <2>2 DEF Tunings
  <2> QED  BY <1>5, <2>3 DEF d, BackOffs
<1> QED  BY <1>1, <1>2, <1>3, <1>4, <1>5 DEF Bottlenecks

CounterSet == [thermal : 0..2, link : 0..2]

LEMMA ClassifyTypes ==
    ASSUME NEW s \in Signals, NEW c \in CounterSet
    PROVE  /\ classify(s, c).bottleneck \in Bottlenecks \cup {"Unknown"}
           /\ classify(s, c).counters \in CounterSet
<1> DEFINE th == IF s.decays THEN c.thermal + 1 ELSE 0
           li == IF s.steady THEN c.link + 1 ELSE 0
<1>1. c.thermal \in 0..2 /\ c.link \in 0..2 /\ th \in 0..3 /\ li \in 0..3
  BY DEF CounterSet
<1>2. \E t \in 0..2, l \in 0..2, b \in Bottlenecks \cup {"Unknown"} :
         classify(s, c) = [bottleneck |-> b, counters |-> [thermal |-> t, link |-> l]]
  <2>1. CASE s.congested \/ s.slow \/ s.cpu
    BY <1>1, <2>1 DEF classify, Bottlenecks
  <2>2. CASE ~(s.congested \/ s.slow \/ s.cpu) /\ th >= 3
    <3>1. classify(s, c) = [bottleneck |-> "ThermalThrottling", counters |-> [thermal |-> 0, link |-> c.link]]
      BY <2>2 DEF classify, confirmation_threshold
    <3> QED  BY <1>1, <3>1 DEF Bottlenecks
  <2>3. CASE ~(s.congested \/ s.slow \/ s.cpu) /\ ~(th >= 3) /\ li >= 3
    <3>1. classify(s, c) = [bottleneck |-> "LinkLimited", counters |-> [thermal |-> th, link |-> 0]]
      BY <2>3 DEF classify, confirmation_threshold
    <3>2. th \in 0..2
      BY <1>1, <2>3
    <3> HIDE DEF th
    <3> QED  BY <3>1, <3>2 DEF Bottlenecks
  <2>4. CASE ~(s.congested \/ s.slow \/ s.cpu) /\ ~(th >= 3) /\ ~(li >= 3)
    <3>1. classify(s, c) = [bottleneck |-> "Unknown", counters |-> [thermal |-> th, link |-> li]]
      BY <2>4 DEF classify, confirmation_threshold
    <3>2. th \in 0..2 /\ li \in 0..2
      BY <1>1, <2>4
    <3> HIDE DEF th, li
    <3> QED  BY <3>1, <3>2
  <2> QED  BY <2>1, <2>2, <2>3, <2>4
<1> QED  BY <1>2 DEF CounterSet

(* What the locks of the loop leave of a round: a decision that waits to be *)
(* applied has a bottleneck, and the configuration it was taken from is the *)
(* shared one unless a reset came in between.                               *)
DecisionIsCurrent ==
    loopAt = "decided" => found # "Unknown" /\ (config = read \/ (config = DefaultTuning /\ resets > 0))

HistoryTypes == written \in BOOLEAN /\ nsamples \in 0..3 /\ counters \in CounterSet
LoopTypes ==
    /\ loopAt \in {"none", "tick", "sampled", "classified", "decided", "ended"}
    /\ found \in Bottlenecks \cup {"Unknown"}
    /\ running \in {"new", "on", "off"} /\ transport \in {"tcp", "quic"} /\ cooling \in BOOLEAN
    /\ running = "new" => loopAt = "none"
    /\ resets \in Nat

ControlInv ==
    /\ HistoryTypes /\ LoopTypes /\ config \in Tunings /\ read \in Tunings
    /\ DecisionIsCurrent

LEMMA DefaultIsTuning == DefaultTuning \in Tunings
  BY DEF DefaultTuning, Tunings, NoLimit

(* The end of a round.                                                      *)
LEMMA RoundEndKeeps ==
    ASSUME LoopTypes, RoundEnds, UNCHANGED <<running, transport, resets>>, cooling' \in BOOLEAN,
           loopAt # "none"
    PROVE  LoopTypes' /\ read' \in Tunings /\ DecisionIsCurrent'
<1>1. loopAt' \in {"tick", "ended"} /\ found' = "Unknown" /\ read' = DefaultTuning
  BY DEF RoundEnds
<1>2. LoopTypes'
  BY <1>1 DEF LoopTypes
<1> QED  BY <1>1, <1>2, DefaultIsTuning DEF DecisionIsCurrent

LEMMA SnapshotKeeps ==
    ASSUME HistoryTypes, Snapshot, UNCHANGED counters
    PROVE  HistoryTypes'
<1>1. written' = FALSE /\ nsamples' = Least(nsamples + 1, 3) /\ nsamples \in 0..3
  BY DEF Snapshot, HistoryTypes, Needed
<1>2. nsamples' \in 0..3
  BY <1>1 DEF Least
<1>3. written' \in BOOLEAN
  BY <1>1, Zenon
<1> QED  BY <1>2, <1>3 DEF HistoryTypes

LEMMA ControlStep ==
    ASSUME ControlInv, [ControlNext]_controlVars
    PROVE  ControlInv'
<1>0. HistoryTypes /\ LoopTypes /\ config \in Tunings /\ read \in Tunings /\ DecisionIsCurrent
  BY DEF ControlInv
<1> DEFINE Shared == <<running, transport, resets>>
           History == <<written, nsamples, counters>>
<1>h. ASSUME UNCHANGED History PROVE HistoryTypes'
  BY <1>0, <1>h DEF HistoryTypes
<1>l. ASSUME LoopTypes', UNCHANGED <<config, loopAt, found, read, resets>>
      PROVE  LoopTypes' /\ config' \in Tunings /\ read' \in Tunings /\ DecisionIsCurrent'
  BY <1>0, <1>l DEF DecisionIsCurrent
<1>1. ASSUME NEW mode \in {"tcp", "quic"}, set_transport(mode)
      PROVE  ControlInv'
  <2>1. UNCHANGED History /\ UNCHANGED <<config, loopAt, found, read, resets>>
    BY <1>1 DEF set_transport, loopVars
  <2>2. LoopTypes'
    BY <1>0, <1>1 DEF LoopTypes, set_transport, loopVars
  <2> QED  BY <1>h, <1>l, <2>1, <2>2 DEF ControlInv
<1>2. CASE spawn
  <2>1. UNCHANGED History /\ UNCHANGED <<config, found, read, resets>> /\ loopAt' = "tick"
    BY <1>2 DEF spawn
  <2>2. LoopTypes'
    BY <1>0, <1>2 DEF LoopTypes, spawn
  <2>3. DecisionIsCurrent'
    BY <2>1 DEF DecisionIsCurrent
  <2> QED  BY <1>0, <1>h, <2>1, <2>2, <2>3 DEF ControlInv
<1>3. CASE record_write
  <2>1. UNCHANGED <<nsamples, counters>> /\ written' = TRUE /\ UNCHANGED <<config, loopAt, found, read, resets>>
    BY <1>3 DEF record_write, loopVars
  <2>2. LoopTypes'
    BY <1>0, <1>3 DEF LoopTypes, record_write, loopVars
  <2>3. written' \in BOOLEAN
    BY <2>1, Zenon
  <2>4. HistoryTypes'
    BY <1>0, <2>1, <2>3 DEF HistoryTypes
  <2> QED  BY <1>l, <2>1, <2>2, <2>4 DEF ControlInv
<1>4. CASE OtherSnapshot
  <2>1. Snapshot /\ UNCHANGED counters /\ UNCHANGED <<config, loopAt, found, read, resets>>
    BY <1>4 DEF OtherSnapshot, loopVars
  <2>2. LoopTypes'
    BY <1>0, <1>4 DEF LoopTypes, OtherSnapshot, loopVars
  <2>3. HistoryTypes'
    BY <1>0, <2>1, SnapshotKeeps
  <2> QED  BY <1>l, <2>1, <2>2, <2>3 DEF ControlInv
<1>5. CASE EmptyTick
  <2>1. /\ UNCHANGED History /\ UNCHANGED Shared /\ UNCHANGED <<config, cooling>> /\ RoundEnds
        /\ loopAt = "tick"
    BY <1>5 DEF EmptyTick
  <2>2. cooling' \in BOOLEAN
    BY <1>0, <2>1 DEF LoopTypes
  <2>3. LoopTypes' /\ read' \in Tunings /\ DecisionIsCurrent'
    BY <1>0, <2>1, <2>2, RoundEndKeeps
  <2> QED  BY <1>0, <1>h, <2>1, <2>3 DEF ControlInv
<1>6. CASE Tick
  <2>1. /\ Snapshot /\ UNCHANGED counters /\ UNCHANGED Shared /\ UNCHANGED <<config, found, read, cooling>>
        /\ loopAt = "tick" /\ loopAt' = "sampled"
    BY <1>6 DEF Tick
  <2>2. LoopTypes'
    BY <1>0, <2>1 DEF LoopTypes
  <2>3. HistoryTypes'
    BY <1>0, <2>1, SnapshotKeeps
  <2>4. DecisionIsCurrent'
    BY <2>1 DEF DecisionIsCurrent
  <2> QED  BY <1>0, <2>1, <2>2, <2>3, <2>4 DEF ControlInv
<1>7. ASSUME NEW s \in Signals, Classify(s)
      PROVE  ControlInv'
  <2> DEFINE result == IF nsamples < Needed THEN [bottleneck |-> "Unknown", counters |-> counters]
                       ELSE classify(s, counters)
  <2>1. result.bottleneck \in Bottlenecks \cup {"Unknown"} /\ result.counters \in CounterSet
    <3>1. counters \in CounterSet
      BY <1>0 DEF HistoryTypes
    <3>2. CASE nsamples < Needed
      BY <3>1, <3>2
    <3>3. CASE ~(nsamples < Needed)
      <4>1. result = classify(s, counters)
        BY <3>3
      <4> HIDE DEF result
      <4> QED  BY <3>1, <4>1, ClassifyTypes
    <3> QED  BY <3>2, <3>3
  <2>2. /\ UNCHANGED Shared /\ UNCHANGED <<nsamples, written, config, cooling>> /\ loopAt = "sampled"
        /\ \/ RoundEnds /\ UNCHANGED counters
           \/ /\ loopAt' = "classified" /\ found' = result.bottleneck /\ counters' = result.counters
              /\ UNCHANGED read
    BY <1>7 DEF Classify
  <2> HIDE DEF result
  <2>3. HistoryTypes'
    BY <1>0, <2>1, <2>2 DEF HistoryTypes
  <2>4. CASE RoundEnds /\ UNCHANGED counters
    <3>1. cooling' \in BOOLEAN
      BY <1>0, <2>2 DEF LoopTypes
    <3>2. LoopTypes' /\ read' \in Tunings /\ DecisionIsCurrent'
      BY <1>0, <2>2, <2>4, <3>1, RoundEndKeeps
    <3> QED  BY <1>0, <2>2, <2>3, <3>2 DEF ControlInv
  <2>5. CASE loopAt' = "classified" /\ found' = result.bottleneck /\ counters' = result.counters /\ UNCHANGED read
    <3>1. LoopTypes'
      BY <1>0, <2>1, <2>2, <2>5 DEF LoopTypes
    <3>2. DecisionIsCurrent'
      BY <2>5 DEF DecisionIsCurrent
    <3> QED  BY <1>0, <2>2, <2>3, <2>5, <3>1, <3>2 DEF ControlInv
  <2> QED  BY <2>2, <2>4, <2>5
<1>8. CASE Decide
  <2>1. /\ UNCHANGED History /\ UNCHANGED Shared /\ UNCHANGED <<config, cooling>> /\ loopAt = "classified"
        /\ \/ RoundEnds
           \/ found # "Unknown" /\ read' = config /\ loopAt' = "decided" /\ UNCHANGED found
    BY <1>8 DEF Decide
  <2>2. HistoryTypes'
    BY <1>h, <2>1
  <2>3. CASE RoundEnds
    <3>1. cooling' \in BOOLEAN
      BY <1>0, <2>1 DEF LoopTypes
    <3>2. LoopTypes' /\ read' \in Tunings /\ DecisionIsCurrent'
      BY <1>0, <2>1, <2>3, <3>1, RoundEndKeeps
    <3> QED  BY <1>0, <2>1, <2>2, <3>2 DEF ControlInv
  <2>4. CASE found # "Unknown" /\ read' = config /\ loopAt' = "decided" /\ UNCHANGED found
    <3>1. LoopTypes'
      BY <1>0, <2>1, <2>4 DEF LoopTypes
    <3>2. DecisionIsCurrent'
      BY <2>1, <2>4 DEF DecisionIsCurrent
    <3> QED  BY <1>0, <2>1, <2>2, <2>4, <3>1, <3>2 DEF ControlInv
  <2> QED  BY <2>1, <2>3, <2>4
<1>9. CASE ApplyDecision
  <2>1. /\ UNCHANGED History /\ UNCHANGED Shared /\ RoundEnds /\ cooling' = TRUE /\ loopAt = "decided"
        /\ config' = Adjusted(config, read, found, transport)
    BY <1>9 DEF ApplyDecision
  <2>2. cooling' \in BOOLEAN
    BY <2>1, Zenon
  <2>3. found \in Bottlenecks
    BY <1>0, <2>1 DEF LoopTypes, DecisionIsCurrent
  <2>4. config' \in Tunings
    BY <1>0, <2>1, <2>3, AdjustedBounds
  <2>5. LoopTypes' /\ read' \in Tunings /\ DecisionIsCurrent'
    BY <1>0, <2>1, <2>2, RoundEndKeeps
  <2> QED  BY <1>h, <2>1, <2>4, <2>5 DEF ControlInv
<1>10. CASE CooldownEnds
  <2>1. UNCHANGED History /\ UNCHANGED <<config, loopAt, found, read, resets>> /\ cooling' = FALSE
    BY <1>10 DEF CooldownEnds
  <2>2. cooling' \in BOOLEAN
    BY <2>1, Zenon
  <2>3. LoopTypes'
    BY <1>0, <1>10, <2>2 DEF LoopTypes, CooldownEnds
  <2> QED  BY <1>h, <1>l, <2>1, <2>3 DEF ControlInv
<1>11. CASE stop
  <2>1. UNCHANGED History /\ UNCHANGED <<config, loopAt, found, read, resets>>
    BY <1>11 DEF stop, loopVars
  <2>2. LoopTypes'
    BY <1>0, <1>11 DEF LoopTypes, stop, loopVars
  <2> QED  BY <1>h, <1>l, <2>1, <2>2 DEF ControlInv
<1>12. CASE reset_for_resume
  <2>1. /\ nsamples' = 0 /\ written' = FALSE /\ config' = DefaultTuning /\ resets' = resets + 1
        /\ UNCHANGED <<counters, loopAt, found, read>>
    BY <1>12 DEF reset_for_resume, loopVars
  <2>2. LoopTypes' /\ resets' > 0
    BY <1>0, <1>12, <2>1 DEF LoopTypes, reset_for_resume, loopVars
  <2>3. nsamples' \in 0..3 /\ written' \in BOOLEAN
    <3>1. 0 \in 0..3
      OBVIOUS
    <3> QED  BY <2>1, <3>1, Zenon
  <2>4. HistoryTypes'
    BY <1>0, <2>1, <2>3 DEF HistoryTypes
  <2>5. DecisionIsCurrent'
    BY <1>0, <2>1, <2>2 DEF DecisionIsCurrent
  <2> QED  BY <1>0, <2>1, <2>2, <2>4, <2>5, DefaultIsTuning DEF ControlInv
<1>13. CASE UNCHANGED controlVars
  <2>1. UNCHANGED History /\ UNCHANGED <<config, loopAt, found, read, resets>>
    BY <1>13 DEF controlVars, loopVars
  <2>2. LoopTypes'
    BY <1>0, <1>13 DEF LoopTypes, controlVars, loopVars
  <2> QED  BY <1>h, <1>l, <2>1, <2>2 DEF ControlInv
<1> QED
  BY <1>1, <1>2, <1>3, <1>4, <1>5, <1>6, <1>7, <1>8, <1>9, <1>10, <1>11, <1>12, <1>13
     DEF ControlNext, LoopStep

LEMMA ControlInvHolds == ControlSpec => []ControlInv
<1>1. ControlInit => ControlInv
  <2> SUFFICES ASSUME ControlInit PROVE ControlInv
    OBVIOUS
  <2>0. nsamples \in 0..3 /\ resets \in Nat /\ counters \in CounterSet /\ config \in Tunings
    BY ControlAssumption DEF ControlInit, CounterSet
  <2>1. LoopTypes /\ HistoryTypes
    BY <2>0, Zenon DEF ControlInit, LoopTypes, HistoryTypes
  <2>2. read \in Tunings /\ DecisionIsCurrent
    BY DefaultIsTuning DEF ControlInit, DecisionIsCurrent
  <2> QED  BY <2>0, <2>1, <2>2 DEF ControlInv
<1>2. ControlInv /\ [ControlNext]_controlVars => ControlInv'
  BY ControlStep
<1> QED  BY <1>1, <1>2, PTL DEF ControlSpec

(* A decision taken for congestion, a slow receiver or heat raises neither  *)
(* the rate, the chunk size nor the parallelism above the configuration it  *)
(* was taken from, except up to the floors of decision.rs, for every        *)
(* configuration that options of the user may seed; and by the time it is   *)
(* applied only reset_for_resume can have replaced that configuration       *)
(* (loop.rs:111-152, 219-225).                                              *)
THEOREM BackOffNeverSpeedsUpHolds == ControlSpec => BackOffNeverSpeedsUp
<1>1. ASSUME ControlInv, ControlNext, loopAt = "decided", loopAt' # "decided", found \in BackOffs
      PROVE  /\ config = read \/ (config = DefaultTuning /\ resets > 0)
             /\ NotFaster(config', config, read)
  <2>1. DecisionIsCurrent /\ config \in Tunings /\ read \in Tunings
    BY <1>1 DEF ControlInv
  <2>2. ApplyDecision
    <3>1. (\E s \in Signals : Classify(s)) => loopAt = "sampled"
      BY DEF Classify
    <3>2. EmptyTick \/ Tick \/ Decide => loopAt # "decided"
      BY DEF EmptyTick, Tick, Decide
    <3>3. LoopStep => ApplyDecision
      BY <1>1, <3>1, <3>2 DEF LoopStep
    <3>4. (\E mode \in {"tcp", "quic"} : set_transport(mode)) => UNCHANGED loopAt
      BY DEF set_transport, loopVars
    <3>5. spawn => loopAt' = "tick" /\ running = "new"
      BY DEF spawn
    <3>6. record_write \/ OtherSnapshot \/ CooldownEnds \/ stop \/ reset_for_resume => UNCHANGED loopAt
      BY DEF record_write, OtherSnapshot, CooldownEnds, stop, reset_for_resume, loopVars
    <3>7. running = "new" => loopAt = "none"
      BY <1>1 DEF ControlInv, LoopTypes
    <3> QED  BY <1>1, <3>3, <3>4, <3>5, <3>6, <3>7 DEF ControlNext
  <2>3. config' = Adjusted(config, read, found, transport)
    BY <2>2 DEF ApplyDecision
  <2>4. found \in Bottlenecks
    BY <1>1 DEF BackOffs, Bottlenecks
  <2>5. NotFaster(config', config, read)
    BY <1>1, <2>1, <2>3, <2>4, AdjustedBounds
  <2> QED  BY <1>1, <2>1, <2>5 DEF DecisionIsCurrent
<1>2. ControlInv /\ [ControlNext]_controlVars =>
         [loopAt = "decided" /\ loopAt' # "decided" /\ found \in BackOffs
            => /\ config = read \/ (config = DefaultTuning /\ resets > 0)
               /\ RateOf(config') <= Most(RateOf(read), 5000)
               /\ config'.parallel <= Most(read.parallel, MIN_PARALLELISM)
               /\ config'.chunk <= Most(read.chunk, MIN_CHUNK_BYTES) \/ config'.chunk = config.chunk]_controlVars
  BY <1>1 DEF NotFaster
<1> QED  BY <1>2, ControlInvHolds, PTL DEF ControlSpec, BackOffNeverSpeedsUp

-----------------------------------------------------------------------------
(* The types of the shares (LanShare).  A file stays a sequence of blocks   *)
(* however far behind the end a truncated handle writes.                    *)
LEMMA PutType ==
    ASSUME NEW S, NEW s \in Seq(S), NEW i \in Nat, NEW b \in S, NoBlock \in S
    PROVE  Put(s, i, b) \in Seq(S)
<1> DEFINE n == IF Len(s) > i THEN Len(s) ELSE i
<1>1. n \in Nat /\ Len(s) \in Nat
  OBVIOUS
<1>2. ASSUME NEW k \in 1..n
      PROVE  (IF k = i THEN b ELSE IF k <= Len(s) THEN s[k] ELSE NoBlock) \in S
  BY <1>1
<1> HIDE DEF n
<1>3. [k \in 1..n |-> IF k = i THEN b ELSE IF k <= Len(s) THEN s[k] ELSE NoBlock] \in [1..n -> S]
  BY <1>2
<1>4. [k \in 1..n |-> IF k = i THEN b ELSE IF k <= Len(s) THEN s[k] ELSE NoBlock] \in Seq(S)
  BY <1>1, <1>3
<1> QED  BY <1>4 DEF Put, n

(* What the handler of q writes, and what its server sends.                 *)
WriteTypes ==
    /\ wrote \in [Shares -> 0..Blocks] /\ hnd \in [Shares -> Shares \cup {NoNode}]
    /\ data \in [Shares -> Seq(Shares \cup {NoBlock})]

ServeTypes ==
    /\ srvHnd \in [Shares -> Shares \cup {NoNode}]
    /\ sentBlocks \in [Shares -> Seq(Shares \cup {NoBlock})]
    /\ shown \in [Paths -> {"none", "in_progress", "completed"}]

LEMMA ShareTypesKept ==
    ASSUME ShareInv, WriteTypes, ServeTypes, [ShareNext]_shareVars
    PROVE  WriteTypes' /\ ServeTypes'
<1>t. /\ dir \in [Paths -> Shares \cup {NoNode}] /\ Blocks \in Nat
      /\ \A q \in Shares : TmpName[q] \in Paths
  BY ShareAssumption, TmpNames DEF ShareInv, PathsTyped
<1>w. ASSUME UNCHANGED <<wrote, hnd, data>> PROVE WriteTypes'
  BY <1>w DEF WriteTypes
<1>s. ASSUME UNCHANGED <<srvHnd, sentBlocks, shown>> PROVE ServeTypes'
  BY <1>s DEF ServeTypes
<1>1. ASSUME NEW q \in Shares, CreateTmp(q) PROVE WriteTypes' /\ ServeTypes'
  <2> DEFINE node == IF dir[TmpName[q]] = NoNode THEN q ELSE dir[TmpName[q]]
  <2>1. node \in Shares
    BY <1>t
  <2>2. /\ hnd' = [hnd EXCEPT ![q] = node] /\ data' = [data EXCEPT ![node] = <<>>]
        /\ UNCHANGED <<wrote, srvHnd, sentBlocks, shown>>
    BY <1>1 DEF CreateTmp, serverVars
  <2> HIDE DEF node
  <2>3. <<>> \in Seq(Shares \cup {NoBlock})
    OBVIOUS
  <2> QED  BY <2>1, <2>2, <2>3, <1>s DEF WriteTypes
<1>2. ASSUME NEW q \in Shares, WriteTmp(q) PROVE WriteTypes' /\ ServeTypes'
  <2> DEFINE n == hnd[q]
  <2>1. /\ data' = [data EXCEPT ![n] = Put(data[n], wrote[q] + 1, q)] /\ wrote[q] < Blocks
        /\ wrote' = [wrote EXCEPT ![q] = wrote[q] + 1] /\ UNCHANGED <<hnd, srvHnd, sentBlocks, shown>>
    BY <1>2 DEF WriteTmp, serverVars
  <2>2. wrote[q] \in Nat /\ wrote[q] + 1 \in 0..Blocks
    BY <2>1, <1>t DEF WriteTypes
  <2> HIDE DEF n
  <2>3. ASSUME n \in Shares PROVE Put(data[n], wrote[q] + 1, q) \in Seq(Shares \cup {NoBlock})
    <3>1. data[n] \in Seq(Shares \cup {NoBlock}) /\ wrote[q] + 1 \in Nat
      BY <2>2, <2>3 DEF WriteTypes
    <3>2. q \in Shares \cup {NoBlock} /\ NoBlock \in Shares \cup {NoBlock}
      OBVIOUS
    <3> QED  BY <3>1, <3>2, PutType
  <2>4. data' \in [Shares -> Seq(Shares \cup {NoBlock})]
    BY <2>1, <2>3 DEF WriteTypes
  <2>5. wrote' \in [Shares -> 0..Blocks]
    BY <2>1, <2>2 DEF WriteTypes
  <2> QED  BY <2>1, <2>4, <2>5, <1>s DEF WriteTypes
<1>3. ASSUME NEW q \in Shares, ServerAccepts(q) PROVE WriteTypes' /\ ServeTypes'
  BY <1>3, <1>t, <1>w DEF ServerAccepts, ServeTypes
<1>4. ASSUME NEW q \in Shares, ServerSends(q) PROVE WriteTypes' /\ ServeTypes'
  <2> DEFINE n == srvHnd[q]
             next == Append(sentBlocks[q], data[n][Len(sentBlocks[q]) + 1])
  <2>1. n \in Shares /\ sentBlocks[q] \in Seq(Shares \cup {NoBlock})
        /\ data[n] \in Seq(Shares \cup {NoBlock}) /\ Len(sentBlocks[q]) < Len(data[n])
    BY <1>4 DEF ServerSends, ServeTypes, WriteTypes
  <2>2. data[n][Len(sentBlocks[q]) + 1] \in Shares \cup {NoBlock}
    BY <2>1
  <2>3. next \in Seq(Shares \cup {NoBlock})
    BY <2>1, <2>2
  <2>4. /\ sentBlocks' = [sentBlocks EXCEPT ![q] = next] /\ UNCHANGED <<wrote, hnd, data, srvHnd>>
        /\ \E to \in {"none", "in_progress", "completed"} : shown' = [shown EXCEPT ![TmpName[q]] = to]
    BY <1>4, <1>t DEF ServerSends, ServeTypes
  <2> HIDE DEF next, n
  <2> QED  BY <2>3, <2>4, <1>t, <1>w DEF ServeTypes
<1>5. ASSUME NEW q \in Shares,
             \/ BodyError(q) \/ BodyIn(q) \/ SendByRelay(q) \/ Refuse(q) \/ SpawnServer(q) \/ Signalled(q)
             \/ SignalFails(q) \/ ServerEnds(q) \/ ServerTimeout(q)
      PROVE  WriteTypes' /\ ServeTypes'
  <2>1. UNCHANGED <<wrote, hnd, data, srvHnd, sentBlocks, shown>>
    BY <1>5 DEF BodyError, BodyIn, SendByRelay, Refuse, SpawnServer, Signalled, SignalFails, ServerEnds,
                ServerTimeout, serverVars
  <2> QED  BY <2>1, <1>w, <1>s
<1>6. CASE UNCHANGED shareVars
  BY <1>6, <1>w, <1>s DEF shareVars
<1> QED  BY <1>1, <1>2, <1>3, <1>4, <1>5, <1>6 DEF ShareNext

LEMMA ShareTypesHold == ShareSpec => []ShareTypeOK
<1>1. ShareInit => WriteTypes /\ ServeTypes
  <2> SUFFICES ASSUME ShareInit PROVE WriteTypes /\ ServeTypes
    OBVIOUS
  <2>1. <<>> \in Seq(Shares \cup {NoBlock}) /\ 0 \in 0..Blocks
    BY ShareAssumption
  <2> QED  BY <2>1 DEF ShareInit, WriteTypes, ServeTypes
<1>2. ShareInv /\ WriteTypes /\ ServeTypes => ShareTypeOK
  BY DEF ShareInv, HandlersTyped, PathsTyped, WriteTypes, ServeTypes, ShareTypeOK
<1>3. ShareInv /\ (WriteTypes /\ ServeTypes) /\ [ShareNext]_shareVars => (WriteTypes /\ ServeTypes)'
  BY ShareTypesKept
<1> QED  BY <1>1, <1>2, <1>3, ShareInvHolds, PTL DEF ShareSpec

-----------------------------------------------------------------------------
(* The types of the phone's transfers (AndroidTransfers).  A download that  *)
(* has not ended has an attempt left, and the history is cut after every    *)
(* record.                                                                  *)
AskTypes ==
    /\ autoAccept \in BOOLEAN /\ trustedPeers \subseteq OfferHosts
    /\ prompts \subseteq Offers /\ intents \subseteq {"accept", "decline"} \X Offers
    /\ declined \subseteq Offers

TransferLists ==
    /\ activeTransfers \subseteq Files /\ cancelFlag \subseteq Files /\ cancelling \subseteq Files
    /\ copies \subseteq Sends

AttemptsLeft ==
    /\ tries \in [Files -> 0..MAX_TRIES]
    /\ \A f \in Files : step[f] \notin {"record", "end"} => tries[f] < MAX_TRIES

PhoneTypes ==
    /\ AskTypes /\ TransferLists /\ AttemptsLeft
    /\ Len(history) <= MaxRecords /\ toggles \in 0..MaxToggles

LEMMA LaunchTypes ==
    ASSUME JobTypes, TransferLists, AttemptsLeft, NEW f \in Files, Launch(f)
    PROVE  TransferLists' /\ AttemptsLeft' /\ UNCHANGED history
<1>1. TransferLists' /\ UNCHANGED history
  BY DEF TransferLists, Launch
<1>2. UNCHANGED tries /\ \A g \in Files : step'[g] # step[g] => step[g] = "none"
  BY DEF JobTypes, Launch
<1> QED  BY <1>1, <1>2 DEF AttemptsLeft

(* The history is never longer than MaxRecords.                             *)
LEMMA RecordedShort ==
    ASSUME NEW f \in Files, Recorded(f), JobTypes, history \in Seq(HistoryRecords)
    PROVE  Len(history') <= MaxRecords
<1> DEFINE rec == [file |-> f, status |-> status[f], sent |-> sent[f]]
           all == <<rec>> \o history
           k == IF Len(history) < MaxRecords THEN Len(history) + 1 ELSE MaxRecords
<1>1. history' = SubSeq(all, 1, k) /\ rec \in HistoryRecords
  BY DEF Recorded, JobTypes, HistoryRecords
<1> HIDE DEF rec
<1>2. /\ <<rec>> \in Seq(HistoryRecords) /\ Len(<<rec>>) = 1
  BY <1>1
<1>3. all \in Seq(HistoryRecords) /\ Len(all) = Len(history) + 1
  BY <1>2, ConcatProperties
<1>4. Len(history) \in Nat /\ MaxRecords \in Nat /\ MaxRecords >= 1
  BY AndroidAssumption
<1>5. k \in 1..(Len(history) + 1) /\ k <= MaxRecords
  BY <1>4
<1> HIDE DEF k, all
<1>6. 1 \in 1..(Len(all) + 1) /\ k \in 0..Len(all)
  BY <1>3, <1>4, <1>5
<1>7. Len(SubSeq(all, 1, k)) = k
  BY <1>3, <1>4, <1>5, <1>6
<1> QED  BY <1>1, <1>5, <1>7

LEMMA AskKept ==
    ASSUME TransfersInv, PhoneTypes, NEW o \in Offers,
           \/ showAcceptDeclineNotification(o) \/ AcceptDownload(o) \/ DeclineDownload(o)
           \/ \E button \in {"accept", "decline"} : Press(button, o)
    PROVE  PhoneTypes'
<1>t. /\ JobTypes /\ AskTypes /\ TransferLists /\ AttemptsLeft /\ Len(history) <= MaxRecords
      /\ toggles \in 0..MaxToggles /\ o \in Files /\ OfferHost[o] \in OfferHosts
  BY DEF TransfersInv, PhoneTypes, Files, OfferHosts
<1>j. ASSUME UNCHANGED jobVars PROVE TransferLists' /\ AttemptsLeft' /\ UNCHANGED history
  BY <1>j, <1>t DEF jobVars, TransferLists, AttemptsLeft
<1>l. ASSUME Launch(o) PROVE TransferLists' /\ AttemptsLeft' /\ UNCHANGED history
  BY <1>l, <1>t, LaunchTypes
<1>q. ASSUME AskTypes', UNCHANGED toggles, Launch(o) \/ UNCHANGED jobVars PROVE PhoneTypes'
  BY <1>q, <1>t, <1>j, <1>l DEF PhoneTypes
<1>1. CASE showAcceptDeclineNotification(o)
  <2>1. AskTypes'
    BY <1>1, <1>t DEF showAcceptDeclineNotification, AskTypes
  <2> QED  BY <1>1, <2>1, <1>q DEF showAcceptDeclineNotification
<1>2. CASE AcceptDownload(o)
  <2>1. AskTypes'
    BY <1>2, <1>t DEF AcceptDownload, AskTypes
  <2> QED  BY <1>2, <2>1, <1>q DEF AcceptDownload
<1>3. CASE DeclineDownload(o)
  <2>1. AskTypes'
    BY <1>3, <1>t DEF DeclineDownload, AskTypes
  <2> QED  BY <1>3, <2>1, <1>q DEF DeclineDownload
<1>4. ASSUME NEW button \in {"accept", "decline"}, Press(button, o) PROVE PhoneTypes'
  <2>1. AskTypes'
    BY <1>4, <1>t DEF Press, AskTypes
  <2> QED  BY <1>4, <2>1, <1>q DEF Press
<1> QED  BY <1>1, <1>2, <1>3, <1>4

LEMMA WorkKept ==
    ASSUME TransfersInv, PhoneTypes, NEW f \in Files,
           \/ Sending(f) \/ JobStep(f) \/ RecordEnd(f) \/ cancelTransfer(f) \/ CancelRecord(f)
    PROVE  PhoneTypes'
<1>t. /\ JobTypes /\ AskTypes /\ TransferLists /\ AttemptsLeft /\ Len(history) <= MaxRecords
      /\ toggles \in 0..MaxToggles /\ history \in Seq(HistoryRecords) /\ step \in [Files -> JobSteps]
      /\ tries \in [Files -> 0..MAX_TRIES] /\ MAX_TRIES \in Nat
  BY AndroidAssumption DEF TransfersInv, PhoneTypes, JobTypes, AttemptsLeft
<1>q. ASSUME UNCHANGED promptVars, UNCHANGED toggles, TransferLists', AttemptsLeft', Len(history') <= MaxRecords
      PROVE  PhoneTypes'
  BY <1>q, <1>t DEF PhoneTypes, promptVars, AskTypes
  (* A step that takes no attempt, and leaves what has ended ended. *)
<1>a. ASSUME UNCHANGED tries, NEW s, step' = [step EXCEPT ![f] = s] \/ UNCHANGED step,
             step[f] \notin {"record", "end"} \/ s = "end"
      PROVE  AttemptsLeft'
  BY <1>a, <1>t DEF AttemptsLeft
<1>1. CASE Sending(f)
  <2>1. TransferLists' /\ AttemptsLeft' /\ UNCHANGED history
    BY <1>1, <1>t, LaunchTypes DEF Sending
  <2> QED  BY <1>1, <2>1, <1>t, <1>q DEF Sending
<1>2. CASE DownloadRefused(f)
  <2>1. /\ tries' = [tries EXCEPT ![f] = tries[f] + 1] /\ step[f] = "http"
        /\ \E s \in JobSteps : step' = [step EXCEPT ![f] = s] /\ (s # "record" => tries[f] + 1 < MAX_TRIES)
        /\ UNCHANGED <<promptVars, activeTransfers, cancelFlag, copies, history, cancelling, toggles>>
    <3>1. tries[f] + 1 >= MAX_TRIES \/ tries[f] + 1 < MAX_TRIES
      BY <1>t
    <3> QED  BY <1>2, <3>1 DEF DownloadRefused, Goto, JobSteps
  <2>2. tries[f] < MAX_TRIES /\ tries[f] \in Nat
    BY <2>1, <1>t DEF AttemptsLeft
  <2>3. tries' \in [Files -> 0..MAX_TRIES]
    BY <2>1, <2>2, <1>t
  <2>4. \A g \in Files : step'[g] \notin {"record", "end"} => tries'[g] < MAX_TRIES
    BY <2>1, <1>t DEF AttemptsLeft
  <2>5. TransferLists'
    BY <2>1, <1>t DEF TransferLists
  <2> QED  BY <2>1, <2>3, <2>4, <2>5, <1>t, <1>q DEF AttemptsLeft
<1>3. CASE JobStep(f) /\ ~DownloadRefused(f)
  <2>1. /\ UNCHANGED <<promptVars, activeTransfers, cancelFlag, tries, history, cancelling, toggles>>
        /\ copies' \subseteq copies \cup (Sends \cap {f})
        /\ step[f] \notin {"record", "end"}
        /\ UNCHANGED step \/ \E s \in JobSteps : step' = [step EXCEPT ![f] = s]
    <3>1. CASE NoStorage(f) \/ PrepareFails(f) \/ HttpThrows(f)
      BY <3>1 DEF NoStorage, PrepareFails, HttpThrows, Failed, Goto, JobSteps
    <3>2. CASE CopyContent(f) \/ downloadFile(f) \/ uploadFile(f) \/ httpDownloadWithResume(f)
      BY <3>2 DEF CopyContent, downloadFile, uploadFile, Transferring, httpDownloadWithResume, MovedFile, Goto, JobSteps
    <3>3. CASE httpUpload(f) \/ DownloadEnds(f)
      BY <3>3 DEF httpUpload, MovedFile, DownloadEnds, Goto, JobSteps
    <3>4. CASE UploadAnswered(f) \/ UploadEmpty(f) \/ TlsFails(f) \/ TunnelProgress(f)
      BY <3>4 DEF UploadAnswered, UploadEmpty, TlsFails, TunnelProgress, Goto, JobSteps
    <3>5. CASE TunnelEnds(f)
      BY <3>5 DEF TunnelEnds, TunnelAnswer, Goto, JobSteps
    <3> QED  BY <1>3, <3>1, <3>2, <3>3, <3>4, <3>5 DEF JobStep
  <2>2. AttemptsLeft'
    BY <2>1, <1>a
  <2>3. TransferLists'
    BY <2>1, <1>t DEF TransferLists
  <2> QED  BY <2>1, <2>2, <2>3, <1>t, <1>q
<1>4. CASE RecordEnd(f) \/ CancelRecord(f)
  <2>1. /\ Recorded(f) /\ UNCHANGED <<promptVars, cancelFlag, tries, copies, toggles>>
        /\ activeTransfers' \subseteq activeTransfers /\ cancelling' \subseteq cancelling
        /\ UNCHANGED step \/ step' = [step EXCEPT ![f] = "end"]
    BY <1>4 DEF RecordEnd, CancelRecord, Recorded, Goto
  <2>2. AttemptsLeft'
    BY <2>1, <1>a
  <2>3. TransferLists'
    BY <2>1, <1>t DEF TransferLists
  <2>4. Len(history') <= MaxRecords
    BY <2>1, <1>t, RecordedShort
  <2> QED  BY <2>1, <2>2, <2>3, <2>4, <1>q
<1>5. CASE cancelTransfer(f)
  <2>1. AttemptsLeft'
    BY <1>5, <1>a DEF cancelTransfer, Goto
  <2>2. TransferLists'
    BY <1>5, <1>t DEF cancelTransfer, TransferLists
  <2> QED  BY <1>5, <2>1, <2>2, <1>t, <1>q DEF cancelTransfer
<1> QED  BY <1>1, <1>2, <1>3, <1>4, <1>5

LEMMA SettingsKept ==
    ASSUME TransfersInv, PhoneTypes,
           \/ \E b \in BOOLEAN : SetAutoAccept(b)
           \/ \E h \in OfferHosts : removeTrustedPeer(h)
           \/ clearHistory \/ sweepPartialFiles \/ ServiceRestart \/ AppRestart \/ UNCHANGED androidVars
    PROVE  PhoneTypes'
<1>t. /\ JobTypes /\ AskTypes /\ TransferLists /\ AttemptsLeft /\ Len(history) <= MaxRecords
      /\ toggles \in 0..MaxToggles /\ MaxToggles \in Nat /\ MaxRecords \in Nat
  BY AndroidAssumption DEF TransfersInv, PhoneTypes
<1>n. toggles < MaxToggles => toggles + 1 \in 0..MaxToggles
  BY <1>t
<1>j. ASSUME UNCHANGED jobVars PROVE TransferLists' /\ AttemptsLeft' /\ UNCHANGED history
  BY <1>j, <1>t DEF jobVars, TransferLists, AttemptsLeft
<1>p. ASSUME UNCHANGED promptVars PROVE AskTypes'
  BY <1>p, <1>t DEF promptVars, AskTypes
<1>1. ASSUME NEW b \in BOOLEAN, SetAutoAccept(b) PROVE PhoneTypes'
  <2>1. AskTypes' /\ toggles' \in 0..MaxToggles /\ UNCHANGED jobVars
    BY <1>1, <1>t, <1>n DEF SetAutoAccept, AskTypes
  <2> QED  BY <2>1, <1>j, <1>t DEF PhoneTypes
<1>2. ASSUME NEW h \in OfferHosts, removeTrustedPeer(h) PROVE PhoneTypes'
  <2>1. AskTypes' /\ toggles' \in 0..MaxToggles /\ UNCHANGED jobVars
    BY <1>2, <1>t, <1>n DEF removeTrustedPeer, AskTypes
  <2> QED  BY <2>1, <1>j, <1>t DEF PhoneTypes
<1>3. CASE clearHistory
  <2>1. UNCHANGED promptVars /\ TransferLists' /\ AttemptsLeft' /\ UNCHANGED toggles /\ history' = <<>>
    BY <1>3, <1>t DEF clearHistory, TransferLists, AttemptsLeft
  <2>2. Len(history') <= MaxRecords
    BY <2>1, <1>t
  <2> QED  BY <2>1, <2>2, <1>p, <1>t DEF PhoneTypes
<1>4. CASE sweepPartialFiles
  <2>1. UNCHANGED promptVars /\ TransferLists' /\ AttemptsLeft' /\ UNCHANGED history
    BY <1>4, <1>t DEF sweepPartialFiles, TransferLists, AttemptsLeft
  <2>2. toggles' \in 0..MaxToggles
    BY <1>4, <1>n DEF sweepPartialFiles
  <2> QED  BY <2>1, <2>2, <1>p, <1>t DEF PhoneTypes
<1>5. CASE ServiceRestart
  <2>1. UNCHANGED promptVars /\ TransferLists' /\ UNCHANGED <<tries, history>>
    BY <1>5, <1>t DEF ServiceRestart, TransferLists
  <2>2. \A f \in Files : step'[f] = step[f] \/ step[f] = "queued"
    BY <1>5, <1>t DEF ServiceRestart
  <2>3. AttemptsLeft'
    BY <2>1, <2>2, <1>t DEF AttemptsLeft
  <2>4. toggles' \in 0..MaxToggles
    BY <1>5, <1>n DEF ServiceRestart
  <2> QED  BY <2>1, <2>3, <2>4, <1>p, <1>t DEF PhoneTypes
<1>6. CASE AppRestart
  <2>1. TransferLists' /\ UNCHANGED <<tries, history>>
    BY <1>6, <1>t DEF AppRestart, TransferLists
  <2>2. \A f \in Files : step'[f] = "end" \/ step[f] = "none"
    BY <1>6, <1>t DEF AppRestart
  <2>3. AttemptsLeft'
    BY <2>1, <2>2, <1>t DEF AttemptsLeft
  <2>4. AskTypes'
    BY <1>6, <1>t DEF AppRestart, AskTypes
  <2>5. toggles' \in 0..MaxToggles
    BY <1>6, <1>n DEF AppRestart
  <2> QED  BY <2>1, <2>3, <2>4, <2>5, <1>t DEF PhoneTypes
<1>7. CASE UNCHANGED androidVars
  BY <1>7, <1>j, <1>p, <1>t DEF androidVars, PhoneTypes
<1> QED  BY <1>1, <1>2, <1>3, <1>4, <1>5, <1>6, <1>7

LEMMA AndroidTypesHold == AndroidSpec => []AndroidTypeOK
<1>1. AndroidInit => PhoneTypes
  <2> SUFFICES ASSUME AndroidInit PROVE PhoneTypes
    OBVIOUS
  <2>1. MAX_TRIES \in Nat /\ 0 < MAX_TRIES /\ 0 \in 0..MAX_TRIES
        /\ MaxRecords \in Nat /\ 0 <= MaxRecords /\ 0 \in 0..MaxToggles
    BY AndroidAssumption
  <2>2. AttemptsLeft
    BY <2>1 DEF AndroidInit, AttemptsLeft
  <2>3. Len(history) <= MaxRecords /\ toggles \in 0..MaxToggles
    BY <2>1 DEF AndroidInit
  <2> QED  BY <2>2, <2>3 DEF AndroidInit, PhoneTypes, AskTypes, TransferLists
<1>2. TransfersInv /\ PhoneTypes /\ [AndroidNext]_androidVars => PhoneTypes'
  <2> SUFFICES ASSUME TransfersInv, PhoneTypes, [AndroidNext]_androidVars PROVE PhoneTypes'
    OBVIOUS
  <2>1. \/ \E o \in Offers : \/ showAcceptDeclineNotification(o) \/ AcceptDownload(o) \/ DeclineDownload(o)
                             \/ \E button \in {"accept", "decline"} : Press(button, o)
        \/ \E f \in Files : \/ Sending(f) \/ JobStep(f) \/ RecordEnd(f)
                            \/ cancelTransfer(f) \/ CancelRecord(f)
        \/ \E b \in BOOLEAN : SetAutoAccept(b)
        \/ \E h \in OfferHosts : removeTrustedPeer(h)
        \/ clearHistory \/ sweepPartialFiles \/ ServiceRestart \/ AppRestart \/ UNCHANGED androidVars
    BY AndroidSteps
  <2> QED  BY <2>1, AskKept, WorkKept, SettingsKept
<1>3. TransfersInv /\ PhoneTypes /\ ClipsAreTexts => AndroidTypeOK
  BY DEF ClipsAreTexts, TransfersInv, PhoneTypes, JobTypes, JobSteps, Statuses, OfferInv, AskTypes, TransferLists,
         AttemptsLeft, AndroidTypeOK
<1> QED  BY <1>1, <1>2, <1>3, TransfersInvHolds, ClipsAreTextsHolds, PTL DEF AndroidSpec

-----------------------------------------------------------------------------
(* The types of the Mac application's backend (MacBackend).  A process of   *)
(* connectToRelay leaves one task behind when it ends, so the tasks and the *)
(* bridges that still run are together no more than were launched.          *)
LaunchTypesOK ==
    /\ launched \in 0..MaxProcesses
    /\ alive \subseteq 1..launched /\ bridges \subseteq 1..launched /\ dashboards \subseteq 1..launched
    /\ dying \subseteq alive
    /\ relayProcess \in 0..launched /\ dashboardProcess \in 0..launched /\ bridgeProcess \in 0..launched

RunningBridges == alive \cap bridges

ExitsAreLaunched == exitDue \in Nat /\ exitDue + Cardinality(RunningBridges) <= launched

FlagTypes ==
    /\ isConnecting \in BOOLEAN /\ retryTimer \in BOOLEAN /\ healthCheckTimer \in BOOLEAN
    /\ pollTimer \in BOOLEAN /\ relayRunning \in BOOLEAN /\ monitoring \in BOOLEAN
    /\ hotspotHandler \in BOOLEAN

DueTypes ==
    /\ checkDue \in 0..MaxChecks /\ dashboardDue \in 0..MaxDue /\ pollDue \in 0..MaxDue
    /\ retryDue \in 0..MaxDue /\ healthDue \in 0..MaxDue

NetworkTypes ==
    /\ networkType \in Networks /\ pathDue \in Networks \cup {"none"}
    /\ knownRelays \subseteq Hosts /\ lastRelay \in knownRelays \cup {NoHost}

MacTypes == LaunchTypesOK /\ ExitsAreLaunched /\ FlagTypes /\ DueTypes /\ NetworkTypes

LEMMA BridgesFinite ==
    ASSUME LaunchTypesOK
    PROVE  IsFiniteSet(RunningBridges) /\ Cardinality(RunningBridges) \in Nat /\ launched \in Nat
<1>1. launched \in Nat /\ RunningBridges \subseteq 1..launched
  BY MacAssumption DEF LaunchTypesOK, RunningBridges
<1>2. IsFiniteSet(1..launched)
  BY <1>1, FS_Interval
<1>3. IsFiniteSet(RunningBridges)
  BY <1>1, <1>2, FS_Subset
<1> QED  BY <1>1, <1>3, FS_CardinalityType

(* Steps in which no bridge starts or ends.                                 *)
LEMMA SameBridges ==
    ASSUME LaunchTypesOK, ExitsAreLaunched, LaunchTypesOK', RunningBridges' = RunningBridges,
           exitDue' \in Nat, exitDue' <= exitDue, launched' >= launched
    PROVE  ExitsAreLaunched'
<1>1. Cardinality(RunningBridges) \in Nat /\ launched \in Nat
  BY BridgesFinite
<1>2. launched' \in Nat
  BY MacAssumption DEF LaunchTypesOK
<1>3. exitDue \in Nat /\ exitDue + Cardinality(RunningBridges) <= launched
  BY DEF ExitsAreLaunched
<1>4. exitDue' + Cardinality(RunningBridges) <= launched'
  BY <1>1, <1>2, <1>3
<1> QED  BY <1>4 DEF ExitsAreLaunched

LEMMA RunTypes ==
    ASSUME LaunchTypesOK, Run
    PROVE  /\ launched' \in 0..MaxProcesses /\ launched' = launched + 1 /\ launched' >= launched
           /\ alive' \subseteq 1..launched' /\ 1..launched \subseteq 1..launched'
           /\ 0..launched \subseteq 0..launched' /\ launched + 1 \in 1..launched'
           /\ launched + 1 \notin bridges /\ launched \in Nat
<1>1. launched \in Nat /\ MaxProcesses \in Nat /\ launched < MaxProcesses /\ launched' = launched + 1
  BY MacAssumption DEF LaunchTypesOK, Run
<1>2. /\ launched' \in 0..MaxProcesses /\ launched' >= launched /\ 1..launched \subseteq 1..launched'
      /\ 0..launched \subseteq 0..launched' /\ launched + 1 \in 1..launched' /\ launched + 1 \notin 1..launched
  BY <1>1
<1> QED  BY <1>1, <1>2 DEF LaunchTypesOK, Run

(* BackendService.startRelay, whoever calls it.                             *)
LEMMA StartRelayTypes ==
    ASSUME LaunchTypesOK, FlagTypes, DueTypes, startRelayProcess,
           UNCHANGED <<dying, dashboardProcess, bridgeProcess>>
    PROVE  /\ LaunchTypesOK' /\ RunningBridges' = RunningBridges /\ launched' >= launched
           /\ dashboardDue' \in 0..MaxDue /\ relayRunning' \in BOOLEAN
<1>1. CASE UNCHANGED relayVars
  <2>1. launched \in Nat
    BY BridgesFinite
  <2>2. launched' = launched /\ launched' >= launched
    BY <1>1, <2>1 DEF relayVars, launchVars
  <2>3. LaunchTypesOK' /\ RunningBridges' = RunningBridges
    BY <1>1 DEF relayVars, launchVars, LaunchTypesOK, RunningBridges
  <2>4. dashboardDue' \in 0..MaxDue /\ relayRunning' \in BOOLEAN
    BY <1>1 DEF relayVars, DueTypes, FlagTypes
  <2> QED  BY <2>2, <2>3, <2>4
<1>2. CASE /\ Run /\ UNCHANGED <<bridges, dashboards, lost>> /\ relayProcess' = launched + 1
           /\ relayRunning' = TRUE /\ dashboardDue < MaxDue /\ dashboardDue' = dashboardDue + 1
  <2>1. dashboardDue' \in 0..MaxDue
    BY <1>2, MacAssumption DEF DueTypes
  <2>2. LaunchTypesOK' /\ launched' >= launched
    BY <1>2, RunTypes DEF LaunchTypesOK, Run
  <2>3. RunningBridges' = RunningBridges
    BY <1>2, RunTypes DEF Run, RunningBridges
  <2> QED  BY <1>2, <2>1, <2>2, <2>3
<1> QED  BY <1>1, <1>2 DEF startRelayProcess

(* ConnectionManager.startRelay, from a button, a window or a handler.      *)
LEMMA StartTypes ==
    ASSUME MacTypes, startRelay, retryDue' \in 0..MaxDue, healthDue' \in 0..MaxDue,
           exitDue' \in Nat, exitDue' <= exitDue,
           UNCHANGED <<timerVars, pollVars, bridgeProcess, dying>>, monitoring' \in BOOLEAN,
           hotspotHandler' \in BOOLEAN, NetworkTypes'
    PROVE  MacTypes'
<1>1. /\ LaunchTypesOK' /\ RunningBridges' = RunningBridges /\ launched' >= launched
      /\ dashboardDue' \in 0..MaxDue /\ relayRunning' \in BOOLEAN
  BY StartRelayTypes DEF MacTypes, startRelay, attemptRelayStart, pollVars
<1>2. ExitsAreLaunched'
  BY <1>1, SameBridges DEF MacTypes
<1>3. checkDue' \in 0..MaxChecks
  BY MacAssumption DEF MacTypes, DueTypes, startRelay, attemptRelayStart
<1>4. DueTypes'
  BY <1>1, <1>3 DEF MacTypes, DueTypes, pollVars
<1>5. FlagTypes'
  BY <1>1 DEF MacTypes, FlagTypes, startRelay, timerVars, pollVars
<1> QED  BY <1>1, <1>2, <1>4, <1>5 DEF MacTypes

(* ConnectionManager.stop ends timers and tells processes to terminate.     *)
LEMMA StopTypes ==
    ASSUME MacTypes, stopConnection, UNCHANGED <<dueVars, launchVars, dashboardDue, pollDue>>,
           monitoring' \in BOOLEAN, UNCHANGED <<networkType, pathDue, hotspotHandler, knownVars>>
    PROVE  MacTypes'
<1>1. launched \in Nat /\ UNCHANGED launched /\ 0 \in 0..launched /\ launched' >= launched
  <2>1. launched \in Nat /\ UNCHANGED launched
    BY BridgesFinite DEF MacTypes, launchVars
  <2> QED  BY <2>1
<1>2. LaunchTypesOK'
  BY <1>1 DEF MacTypes, LaunchTypesOK, stopConnection, stopBackend, launchVars
<1>3. RunningBridges' = RunningBridges /\ UNCHANGED exitDue
  BY DEF RunningBridges, launchVars, dueVars
<1>4. exitDue \in Nat /\ exitDue <= exitDue
  BY DEF MacTypes, ExitsAreLaunched
<1>5. ExitsAreLaunched'
  BY <1>1, <1>2, <1>3, <1>4, SameBridges DEF MacTypes
<1>6. FlagTypes'
  BY DEF MacTypes, FlagTypes, stopConnection, stopBackend
<1>7. DueTypes' /\ NetworkTypes'
  BY DEF MacTypes, DueTypes, NetworkTypes, dueVars, knownVars
<1> QED  BY <1>2, <1>5, <1>6, <1>7 DEF MacTypes

(* Steps that start, end and tell no process.                               *)
LEMMA NoProcessTypes ==
    ASSUME MacTypes, UNCHANGED <<launchVars, relayProcess, dashboardProcess, bridgeProcess, dying>>,
           exitDue' \in Nat, exitDue' <= exitDue, FlagTypes', DueTypes', NetworkTypes'
    PROVE  MacTypes'
<1>1. launched \in Nat /\ UNCHANGED launched /\ launched' >= launched
  <2>1. launched \in Nat /\ UNCHANGED launched
    BY BridgesFinite DEF MacTypes, launchVars
  <2> QED  BY <2>1
<1>2. LaunchTypesOK' /\ RunningBridges' = RunningBridges
  BY DEF MacTypes, LaunchTypesOK, RunningBridges, launchVars
<1> QED  BY <1>1, <1>2, SameBridges DEF MacTypes

LEMMA MacTypesKept ==
    ASSUME MacInv, MacTypes, [MacNext]_macVars
    PROVE  MacTypes'
<1> USE DEF stateVars, timerVars, dueVars, pollVars, networkVars, knownVars
<1>t. LaunchTypesOK /\ ExitsAreLaunched /\ FlagTypes /\ DueTypes /\ NetworkTypes
  BY DEF MacTypes
<1>c. /\ MaxProcesses \in Nat /\ MaxChecks \in Nat /\ MaxDue \in Nat /\ exitDue \in Nat
      /\ exitDue <= exitDue /\ launched \in Nat
  BY <1>t, MacAssumption DEF ExitsAreLaunched, LaunchTypesOK
<1>d. /\ retryDue \in 0..MaxDue /\ healthDue \in 0..MaxDue /\ pollDue \in 0..MaxDue
      /\ dashboardDue \in 0..MaxDue /\ checkDue \in 0..MaxChecks
  BY <1>t DEF DueTypes
<1>m. \A n \in 0..MaxDue : (n > 0 => n - 1 \in 0..MaxDue) /\ (n < MaxDue => n + 1 \in 0..MaxDue)
  BY <1>c
<1>f. monitoring \in BOOLEAN /\ hotspotHandler \in BOOLEAN
  BY <1>t DEF FlagTypes
<1>n. ASSUME UNCHANGED <<networkType, pathDue, knownVars>> PROVE NetworkTypes'
  BY <1>n, <1>t DEF NetworkTypes
<1>1. CASE UserStarts
  BY <1>1, <1>c, <1>d, <1>f, <1>n, StartTypes DEF UserStarts
<1>2. CASE ViewStarts
  <2>1. /\ LaunchTypesOK' /\ RunningBridges' = RunningBridges /\ launched' >= launched
        /\ dashboardDue' \in 0..MaxDue /\ relayRunning' \in BOOLEAN
    BY <1>2, <1>t, StartRelayTypes DEF ViewStarts
  <2>2. ExitsAreLaunched'
    BY <1>2, <2>1, <1>t, <1>c, SameBridges DEF ViewStarts
  <2>3. FlagTypes' /\ DueTypes'
    BY <1>2, <2>1, <1>t DEF ViewStarts, FlagTypes, DueTypes
  <2> QED  BY <1>2, <2>1, <2>2, <2>3, <1>n DEF ViewStarts, MacTypes
<1>3. CASE UserStops
  BY <1>3, <1>f, StopTypes DEF UserStops
<1>4. CASE WindowCloses
  BY <1>4, StopTypes DEF WindowCloses
<1>5. CASE CheckRelay
  <2>1. checkDue' \in 0..MaxChecks
    BY <1>5, <1>c, <1>d DEF CheckRelay
  <2>2. DueTypes'
    BY <1>5, <2>1, <1>t DEF CheckRelay, DueTypes, relayVars
  <2>3. FlagTypes'
    <3>1. CASE isConnecting' = FALSE /\ startHealthCheck /\ UNCHANGED retryTimer
      BY <1>5, <3>1, <1>t DEF CheckRelay, FlagTypes, relayVars, startHealthCheck
    <3>2. CASE handleRetry /\ UNCHANGED healthCheckTimer
      BY <1>5, <3>2, <1>t DEF CheckRelay, FlagTypes, relayVars, handleRetry
    <3> QED  BY <1>5, <3>1, <3>2 DEF CheckRelay
  <2> QED  BY <1>5, <2>2, <2>3, <1>c, <1>n, NoProcessTypes DEF CheckRelay, relayVars
<1>6. CASE RetryTimerFires
  <2>1. DueTypes' /\ FlagTypes'
    BY <1>6, <1>t, <1>d, <1>m DEF RetryTimerFires, DueTypes, FlagTypes, relayVars
  <2> QED  BY <1>6, <2>1, <1>c, <1>n, NoProcessTypes DEF RetryTimerFires, relayVars
<1>7. CASE HealthTimerFires
  <2>1. DueTypes' /\ FlagTypes'
    BY <1>7, <1>t, <1>d, <1>m DEF HealthTimerFires, DueTypes, FlagTypes, relayVars
  <2> QED  BY <1>7, <2>1, <1>c, <1>n, NoProcessTypes DEF HealthTimerFires, relayVars
<1>8. CASE Retry
  <2>1. /\ LaunchTypesOK' /\ RunningBridges' = RunningBridges /\ launched' >= launched
        /\ dashboardDue' \in 0..MaxDue /\ relayRunning' \in BOOLEAN
    BY <1>8, <1>t, StartRelayTypes DEF Retry, attemptRelayStart
  <2>2. ExitsAreLaunched'
    BY <1>8, <2>1, <1>t, <1>c, SameBridges DEF Retry
  <2>3. checkDue' \in 0..MaxChecks /\ retryDue' \in 0..MaxDue
    BY <1>8, <1>c, <1>d, <1>m DEF Retry, attemptRelayStart
  <2>4. FlagTypes' /\ DueTypes'
    BY <1>8, <2>1, <2>3, <1>t DEF Retry, FlagTypes, DueTypes
  <2> QED  BY <1>8, <2>1, <2>2, <2>4, <1>n DEF Retry, MacTypes
<1>9. CASE HealthCheck
  <2>1. healthDue' \in 0..MaxDue /\ healthDue' = healthDue - 1
    BY <1>9, <1>d, <1>m DEF HealthCheck
  <2>2. CASE startRelay
    BY <1>9, <2>1, <2>2, <1>c, <1>d, <1>f, <1>n, StartTypes DEF HealthCheck
  <2>3. CASE UNCHANGED <<stateVars, relayVars, checkDue>>
    <3>1. DueTypes' /\ FlagTypes'
      BY <1>9, <2>1, <2>3, <1>t DEF HealthCheck, DueTypes, FlagTypes, relayVars
    <3> QED  BY <1>9, <2>3, <3>1, <1>c, <1>n, NoProcessTypes DEF HealthCheck, relayVars
  <2> QED  BY <1>9, <2>2, <2>3 DEF HealthCheck
<1>10. CASE startDashboard
  <2>1. dashboardDue' \in 0..MaxDue
    BY <1>10, <1>d, <1>m DEF startDashboard
  <2>2. CASE UNCHANGED <<launchVars, pollVars>>
    <3>1. DueTypes' /\ FlagTypes'
      BY <1>10, <2>1, <2>2, <1>t DEF startDashboard, DueTypes, FlagTypes
    <3> QED  BY <1>10, <2>2, <3>1, <1>c, <1>n, NoProcessTypes DEF startDashboard
  <2>3. CASE /\ Run /\ dashboards' = dashboards \cup {launched + 1} /\ UNCHANGED bridges
             /\ Loses(dashboardProcess) /\ dashboardProcess' = launched + 1
             /\ pollDue < MaxDue /\ pollDue' = pollDue + 1 /\ UNCHANGED pollTimer
    <3>1. pollDue' \in 0..MaxDue
      BY <2>3, <1>d, <1>m
    <3>2. DueTypes' /\ FlagTypes'
      BY <1>10, <2>1, <2>3, <3>1, <1>t DEF startDashboard, DueTypes, FlagTypes
    <3>3. LaunchTypesOK'
      BY <1>10, <2>3, <1>t, RunTypes DEF startDashboard, LaunchTypesOK, Run
    <3>4. RunningBridges' = RunningBridges /\ launched' >= launched
      BY <2>3, <1>t, RunTypes DEF RunningBridges, Run
    <3>5. ExitsAreLaunched'
      BY <1>10, <3>3, <3>4, <1>t, <1>c, SameBridges DEF startDashboard
    <3> QED  BY <1>10, <3>2, <3>3, <3>5, <1>n DEF startDashboard, MacTypes
  <2> QED  BY <1>10, <2>2, <2>3 DEF startDashboard
<1>11. CASE startPolling
  <2>1. DueTypes' /\ FlagTypes'
    BY <1>11, <1>t, <1>d, <1>m DEF startPolling, DueTypes, FlagTypes, relayVars
  <2> QED  BY <1>11, <2>1, <1>c, <1>n, NoProcessTypes DEF startPolling, relayVars
<1>12. CASE terminationHandler
  <2>1. exitDue' \in Nat /\ exitDue' <= exitDue
    BY <1>12, <1>c DEF terminationHandler
  <2>2. CASE startRelay
    BY <1>12, <2>1, <2>2, <1>d, <1>f, <1>n, StartTypes DEF terminationHandler
  <2>3. CASE UNCHANGED <<stateVars, relayVars, checkDue>>
    <3>1. DueTypes' /\ FlagTypes'
      BY <1>12, <2>3, <1>t DEF terminationHandler, DueTypes, FlagTypes, relayVars
    <3> QED  BY <1>12, <2>1, <2>3, <3>1, <1>n, NoProcessTypes DEF terminationHandler, relayVars
  <2> QED  BY <1>12, <2>2, <2>3 DEF terminationHandler
<1>13. ASSUME NEW host \in Hosts, connectToRelay(host) PROVE MacTypes'
  <2>1. NetworkTypes'
    BY <1>13, <1>t DEF connectToRelay, addRelay, NetworkTypes
  <2>2. DueTypes'
    BY <1>13, <1>t DEF connectToRelay, DueTypes
  <2>3. CASE /\ Run /\ bridges' = bridges \cup {launched + 1} /\ UNCHANGED dashboards
             /\ bridgeProcess' = launched + 1 /\ relayRunning' = TRUE /\ startHealthCheck
    <3>1. FlagTypes'
      BY <1>13, <2>3, <1>t DEF connectToRelay, startHealthCheck, FlagTypes
    <3>2. LaunchTypesOK'
      BY <1>13, <2>3, <1>t, RunTypes DEF connectToRelay, LaunchTypesOK, Run
    <3>3. RunningBridges' = RunningBridges \cup {launched + 1} /\ launched + 1 \notin RunningBridges
      BY <2>3, <1>t, RunTypes DEF RunningBridges, Run, LaunchTypesOK
    <3>4. Cardinality(RunningBridges') = Cardinality(RunningBridges) + 1
      BY <3>3, <1>t, BridgesFinite, FS_AddElement
    <3>5. Cardinality(RunningBridges) \in Nat
      BY <1>t, BridgesFinite
    <3>6. exitDue + (Cardinality(RunningBridges) + 1) <= launched + 1
      BY <3>5, <1>t, <1>c DEF ExitsAreLaunched
    <3>7. launched' = launched + 1 /\ UNCHANGED exitDue
      BY <1>13, <2>3 DEF connectToRelay, Run
    <3>8. ExitsAreLaunched'
      BY <3>4, <3>6, <3>7, <1>c DEF ExitsAreLaunched
    <3> QED  BY <2>1, <2>2, <3>1, <3>2, <3>8 DEF MacTypes
  <2>4. CASE bridgeProcess' = 0 /\ UNCHANGED <<launched, alive, bridges, dashboards, relayRunning,
                                                 healthCheckTimer>>
    <3>1. FlagTypes'
      BY <1>13, <2>4, <1>t DEF connectToRelay, FlagTypes
    <3>2. 0 \in 0..launched /\ launched' = launched /\ launched' >= launched
      BY <2>4, <1>c
    <3>3. LaunchTypesOK' /\ RunningBridges' = RunningBridges
      BY <1>13, <2>4, <3>2, <1>t DEF connectToRelay, LaunchTypesOK, RunningBridges
    <3>4. ExitsAreLaunched'
      BY <1>13, <3>2, <3>3, <1>t, <1>c, SameBridges DEF connectToRelay
    <3> QED  BY <2>1, <2>2, <3>1, <3>3, <3>4 DEF MacTypes
  <2> QED  BY <1>13, <2>3, <2>4 DEF connectToRelay
<1>14. ASSUME NEW p \in 1..launched, ProcessEnds(p) PROVE MacTypes'
  <2>1. FlagTypes' /\ DueTypes'
    BY <1>14, <1>t DEF ProcessEnds, FlagTypes, DueTypes
  <2>2. LaunchTypesOK'
    BY <1>14, <1>t DEF ProcessEnds, LaunchTypesOK
  <2>3. UNCHANGED launched /\ launched' >= launched /\ RunningBridges' = RunningBridges \ {p} /\ p \in alive
    BY <1>14, <1>c DEF ProcessEnds, RunningBridges
  <2>4. ExitsAreLaunched'
    <3>1. CASE p \notin bridges
      <4>1. RunningBridges' = RunningBridges /\ UNCHANGED exitDue
        BY <1>14, <2>3, <3>1 DEF ProcessEnds, RunningBridges
      <4> QED  BY <4>1, <2>2, <2>3, <1>t, <1>c, SameBridges
    <3>2. CASE p \in bridges
      <4>1. exitDue' = exitDue + 1 /\ p \in RunningBridges
        BY <1>14, <3>2 DEF ProcessEnds, RunningBridges
      <4>2. IsFiniteSet(RunningBridges) /\ Cardinality(RunningBridges) \in Nat
        BY <1>t, BridgesFinite
      <4>3. IsFiniteSet(RunningBridges \ {p}) /\ Cardinality(RunningBridges \ {p}) = Cardinality(RunningBridges) - 1
        BY <4>1, <4>2, FS_RemoveElement
      <4>4. (exitDue + 1) + (Cardinality(RunningBridges) - 1) <= launched
        BY <4>2, <1>t, <1>c DEF ExitsAreLaunched
      <4> QED  BY <2>3, <4>1, <4>3, <4>4, <1>c DEF ExitsAreLaunched
    <3> QED  BY <3>1, <3>2
  <2> QED  BY <1>14, <2>1, <2>2, <2>4, <1>n DEF ProcessEnds, MacTypes
<1>15. ASSUME NEW to \in Networks, handlePathChange(to), UNCHANGED <<timerVars, retryDue, healthDue, exitDue, pollVars>>,
              UNCHANGED <<bridgeProcess, dying, knownVars>>, pathDue' \in Networks \cup {"none"},
              monitoring' \in BOOLEAN, hotspotHandler' \in BOOLEAN
       PROVE  MacTypes'
  <2>1. NetworkTypes'
    BY <1>15, <1>t DEF handlePathChange, NetworkTypes
  <2>2. CASE startRelay
    BY <1>15, <2>1, <2>2, <1>c, <1>d, StartTypes
  <2>3. CASE UNCHANGED <<stateVars, relayVars, checkDue>>
    <3>1. DueTypes' /\ FlagTypes'
      BY <1>15, <2>3, <1>t DEF DueTypes, FlagTypes, relayVars
    <3> QED  BY <1>15, <2>1, <2>3, <3>1, <1>c, NoProcessTypes DEF relayVars
  <2> QED  BY <1>15, <2>2, <2>3 DEF handlePathChange
<1>16. CASE TakePathUpdate
  <2>1. pathDue \in Networks /\ pathDue' \in Networks \cup {"none"}
    BY <1>16, <1>t DEF TakePathUpdate, NetworkTypes
  <2> QED  BY <1>16, <2>1, <1>15, <1>f DEF TakePathUpdate
<1>17. ASSUME NEW to \in Networks, startMonitoring(to) PROVE MacTypes'
  <2>1. pathDue' \in Networks \cup {"none"}
    BY <1>17, <1>t DEF startMonitoring, NetworkTypes
  <2> QED  BY <1>17, <2>1, <1>15 DEF startMonitoring
<1>18. ASSUME NEW to \in Networks, PathUpdate(to) PROVE MacTypes'
  <2>1. DueTypes' /\ FlagTypes' /\ NetworkTypes'
    BY <1>18, <1>t DEF PathUpdate, DueTypes, FlagTypes, NetworkTypes, relayVars
  <2> QED  BY <1>18, <2>1, <1>c, NoProcessTypes DEF PathUpdate, relayVars
<1>19. CASE UNCHANGED macVars
  <2>1. DueTypes' /\ FlagTypes'
    BY <1>19, <1>t DEF macVars, DueTypes, FlagTypes, relayVars
  <2> QED  BY <1>19, <2>1, <1>c, <1>n, NoProcessTypes DEF macVars, relayVars
<1> QED
  BY <1>1, <1>2, <1>3, <1>4, <1>5, <1>6, <1>7, <1>8, <1>9, <1>10, <1>11, <1>12, <1>13, <1>14, <1>16,
     <1>17, <1>18, <1>19
  DEF MacNext

LEMMA MacTypesAlways == MacSpec => []MacTypes
<1>1. MacInit => MacTypes
  <2> SUFFICES ASSUME MacInit PROVE MacTypes
    OBVIOUS
  <2>1. 0 \in 0..MaxProcesses /\ 0 \in 0..MaxChecks /\ 0 \in 0..MaxDue /\ 0 \in 0..0
    BY MacAssumption
  <2>2. LaunchTypesOK /\ FlagTypes /\ DueTypes
    BY <2>1 DEF MacInit, LaunchTypesOK, FlagTypes, DueTypes
  <2>3. RunningBridges = {} /\ exitDue = 0 /\ launched = 0
    BY DEF MacInit, RunningBridges
  <2>4. ExitsAreLaunched
    BY <2>3, FS_EmptySet DEF ExitsAreLaunched
  <2> QED  BY <2>2, <2>4 DEF MacInit, MacTypes, NetworkTypes, Networks
<1>2. MacInv /\ MacTypes /\ [MacNext]_macVars => MacTypes'
  BY MacTypesKept
<1> QED  BY <1>1, <1>2, MacInvHolds, PTL DEF MacSpec

(* Which processes stop reaches.  What runs is held by one of the three     *)
(* variables, told to terminate, or lost; each variable holds a process of  *)
(* its own kind, so that only a bridge or a dashboard is lost, and the      *)
(* variable of the relay is overwritten only when it holds none.            *)
HeldInv ==
    /\ alive \ (dying \cup lost) \subseteq {relayProcess, dashboardProcess, bridgeProcess}
    /\ lost \subseteq alive /\ lost \subseteq bridges \cup dashboards
    /\ (alive \cap {dashboardProcess}) \subseteq dashboards
    /\ (alive \cap {bridgeProcess}) \subseteq bridges
    /\ alive \cap {relayProcess} \cap (bridges \cup dashboards) = {}

LEMMA FreshProcess ==
    ASSUME LaunchTypesOK
    PROVE  /\ launched + 1 \notin alive /\ launched + 1 \notin bridges /\ launched + 1 \notin dashboards
           /\ launched + 1 # relayProcess /\ launched + 1 # dashboardProcess
           /\ launched + 1 # bridgeProcess /\ 0 \notin alive
<1>1. launched \in Nat
  BY BridgesFinite
<1>2. launched + 1 \notin 0..launched /\ launched + 1 \notin 1..launched /\ 0 \notin 1..launched
  BY <1>1
<1> QED  BY <1>2 DEF LaunchTypesOK

LEMMA HeldStart ==
    ASSUME OwnedInv, LaunchTypesOK, HeldInv, startRelayProcess \/ UNCHANGED relayVars,
           UNCHANGED <<dying, dashboardProcess, bridgeProcess>>
    PROVE  HeldInv'
<1>1. CASE UNCHANGED relayVars
  BY <1>1 DEF relayVars, launchVars, HeldInv
<1>2. CASE /\ ~relayRunning /\ Run /\ UNCHANGED <<bridges, dashboards, lost>>
           /\ relayProcess' = launched + 1
  <2>1. alive' = alive \cup {launched + 1}
    BY <1>2 DEF Run
  <2>2. alive \ dying \subseteq bridges \cup dashboards
    BY <1>2 DEF OwnedInv, Unowned
  <2>3. alive \ (dying \cup lost) \subseteq {dashboardProcess, bridgeProcess}
    BY <2>2 DEF HeldInv
  <2> QED  BY <1>2, <2>1, <2>3, FreshProcess DEF HeldInv
<1> QED  BY <1>1, <1>2 DEF startRelayProcess

LEMMA HeldStep ==
    ASSUME MacInv, MacTypes, HeldInv, [MacNext]_macVars
    PROVE  HeldInv'
<1>t. OwnedInv /\ LaunchTypesOK
  BY DEF MacInv, MacTypes
<1>f. /\ launched + 1 \notin alive /\ launched + 1 \notin bridges /\ launched + 1 \notin dashboards
      /\ launched + 1 # relayProcess /\ launched + 1 # dashboardProcess
      /\ launched + 1 # bridgeProcess /\ 0 \notin alive
  BY <1>t, FreshProcess
<1>1. CASE UserStarts \/ ViewStarts \/ Retry
  BY <1>1, <1>t, HeldStart DEF UserStarts, ViewStarts, Retry, startRelay, attemptRelayStart, pollVars
<1>2. CASE HealthCheck \/ terminationHandler \/ TakePathUpdate \/ \E to \in Networks : startMonitoring(to)
  BY <1>2, <1>t, HeldStart DEF HealthCheck, terminationHandler, TakePathUpdate, startMonitoring,
         handlePathChange, startRelay, attemptRelayStart, pollVars
<1>3. CASE UserStops \/ WindowCloses
  <2>1. /\ dying' = dying \cup (alive \cap {dashboardProcess, relayProcess, bridgeProcess})
        /\ dashboardProcess' = 0 /\ relayProcess' = 0 /\ bridgeProcess' = 0
        /\ UNCHANGED <<alive, bridges, dashboards, lost>>
    BY <1>3 DEF UserStops, WindowCloses, stopConnection, stopBackend, launchVars
  <2> QED  BY <2>1, <1>f DEF HeldInv
<1>4. CASE startDashboard
  <2>1. UNCHANGED <<relayProcess, bridgeProcess, dying>>
    BY <1>4 DEF startDashboard
  <2>2. CASE UNCHANGED <<launchVars, pollVars>>
    BY <2>1, <2>2 DEF launchVars, pollVars, HeldInv
  <2>3. CASE /\ Run /\ dashboards' = dashboards \cup {launched + 1} /\ UNCHANGED bridges
             /\ Loses(dashboardProcess) /\ dashboardProcess' = launched + 1
    <3>1. alive' = alive \cup {launched + 1}
      BY <2>3 DEF Run
    <3>2. lost' = lost \cup ((alive \ dying) \cap {dashboardProcess})
      BY <2>3 DEF Loses
    <3> QED  BY <2>1, <2>3, <3>1, <3>2, <1>f DEF HeldInv
  <2> QED  BY <1>4, <2>2, <2>3 DEF startDashboard
<1>5. ASSUME NEW host \in Hosts, connectToRelay(host) PROVE HeldInv'
  <2>1. /\ lost' = lost \cup ((alive \ dying) \cap {bridgeProcess})
        /\ UNCHANGED <<relayProcess, dashboardProcess, dying>>
    BY <1>5 DEF connectToRelay, Loses, pollVars
  <2>2. CASE /\ Run /\ bridges' = bridges \cup {launched + 1} /\ UNCHANGED dashboards
             /\ bridgeProcess' = launched + 1
    <3>1. alive' = alive \cup {launched + 1}
      BY <2>2 DEF Run
    <3> QED  BY <2>1, <2>2, <3>1, <1>f DEF HeldInv
  <2>3. CASE bridgeProcess' = 0 /\ UNCHANGED <<alive, bridges, dashboards>>
    BY <2>1, <2>3, <1>f DEF HeldInv
  <2> QED  BY <1>5, <2>2, <2>3 DEF connectToRelay
<1>6. ASSUME NEW p \in 1..launched, ProcessEnds(p) PROVE HeldInv'
  <2>1. /\ alive' = alive \ {p} /\ dying' = dying \ {p} /\ lost' = lost \ {p}
        /\ UNCHANGED <<relayProcess, dashboardProcess, bridgeProcess, bridges, dashboards>>
    BY <1>6 DEF ProcessEnds, pollVars
  <2> QED  BY <2>1 DEF HeldInv
<1>7. CASE \/ CheckRelay \/ RetryTimerFires \/ HealthTimerFires \/ startPolling
           \/ (\E to \in Networks : PathUpdate(to)) \/ UNCHANGED macVars
  <2>1. UNCHANGED <<launchVars, relayProcess, dashboardProcess, bridgeProcess, dying>>
    BY <1>7 DEF CheckRelay, RetryTimerFires, HealthTimerFires, startPolling, PathUpdate, macVars,
           relayVars, pollVars
  <2> QED  BY <2>1 DEF launchVars, HeldInv
<1> QED  BY <1>1, <1>2, <1>3, <1>4, <1>5, <1>6, <1>7 DEF MacNext

LEMMA HeldInvHolds == MacSpec => []HeldInv
<1>1. MacInit => HeldInv
  BY DEF MacInit, HeldInv
<1>2. MacInv /\ MacTypes /\ HeldInv /\ [MacNext]_macVars => HeldInv'
  BY HeldStep
<1> QED  BY <1>1, <1>2, MacInvHolds, MacTypesAlways, PTL DEF MacSpec

(* A connecting application has a check to come, a connected application    *)
(* its health check, and a running process the variable stop looks at, but  *)
(* for the bridges and dashboards whose variable was overwritten            *)
(* (attemptRelayStart, handleRetry, stopBackend).                           *)
THEOREM BackendIsSupervisedHolds == MacSpec => []BackendIsSupervised
<1>1. MacInv /\ HeldInv => BackendIsSupervised
  BY DEF MacInv, HeldInv, WatchInv, BackendIsSupervised
<1> QED  BY <1>1, MacInvHolds, HeldInvHolds, PTL

LEMMA MacTypesHold == MacSpec => []MacTypeOK
<1>3. MacInv /\ MacTypes /\ HeldInv => MacTypeOK
  <2> SUFFICES ASSUME MacInv, MacTypes, HeldInv PROVE MacTypeOK
    OBVIOUS
  <2>1. Cardinality(RunningBridges) \in Nat /\ launched \in Nat
    BY BridgesFinite DEF MacTypes
  <2>2. launched \in 0..MaxProcesses /\ MaxProcesses \in Nat /\ exitDue \in Nat
        /\ exitDue + Cardinality(RunningBridges) <= launched
    BY MacAssumption DEF MacTypes, LaunchTypesOK, ExitsAreLaunched
  <2>3. exitDue \in 0..MaxProcesses
    BY <2>1, <2>2
  <2>4. {isConnecting, retryTimer, healthCheckTimer, pollTimer, relayRunning, monitoring, hotspotHandler} \subseteq BOOLEAN
    BY DEF MacTypes, FlagTypes
  <2>5. checkDue \in 0..MaxChecks /\ {dashboardDue, pollDue, retryDue, healthDue} \subseteq 0..MaxDue
    BY DEF MacTypes, DueTypes
  <2>6. /\ launched \in 0..MaxProcesses /\ {relayProcess, dashboardProcess, bridgeProcess} \subseteq 0..launched
        /\ dying \subseteq alive /\ alive \subseteq 1..launched /\ bridges \cup dashboards \subseteq 1..launched
        /\ lost \subseteq alive
    BY DEF MacTypes, LaunchTypesOK, HeldInv
  <2> QED  BY <2>3, <2>4, <2>5, <2>6 DEF MacInv, WatchTypes, MacTypes, NetworkTypes, MacTypeOK
<1> QED  BY <1>3, MacInvHolds, MacTypesAlways, HeldInvHolds, PTL

-----------------------------------------------------------------------------
(* The thirteen components together (MC_Devices).  They share no state: a   *)
(* behaviour of DevicesSpec is one of each component's specification.       *)
devicesVars == <<focus, controlVars, pairingVars, discoveryVars, benchmarkVars, tuningVars, shareVars,
                 dashboardVars, peerRelayVars, androidVars, macVars, uploadsVars, viewVars, agentRunVars>>

LEMMA DevicesStep ==
    [DevicesNext]_devicesVars =>
        /\ [ControlNext]_controlVars /\ [PairingNext]_pairingVars /\ [DiscoveryNext]_discoveryVars
        /\ [BenchmarkNext]_benchmarkVars /\ [TuningNext]_tuningVars /\ [ShareNext]_shareVars
        /\ [DashboardNext]_dashboardVars /\ [PeerRelayNext]_peerRelayVars /\ [AndroidNext]_androidVars
        /\ [MacNext]_macVars /\ [UploadsNext]_uploadsVars /\ [ViewNext]_viewVars /\ [AgentNext]_agentRunVars
        /\ UNCHANGED focus
  BY DEF DevicesNext, devicesVars

LEMMA DevicesStart ==
    DevicesInit =>
        /\ ControlInit /\ PairingInit /\ DiscoveryInit /\ BenchmarkInit /\ TuningInit /\ ShareInit
        /\ DashboardInit /\ PeerRelayInit /\ AndroidInit /\ MacInit /\ UploadsInit /\ ViewInit /\ AgentInit
  BY DEF DevicesInit

LEMMA DevicesComponents ==
    DevicesSpec =>
        /\ ControlSpec /\ PairingSpec /\ DiscoverySpec /\ BenchmarkSpec /\ TuningSpec /\ ShareSpec
        /\ DashboardSpec /\ PeerRelaySpec /\ AndroidSpec /\ MacSpec /\ UploadsSpec /\ ViewSpec /\ AgentSpec
  BY DevicesStart, DevicesStep, PTL
  DEF DevicesSpec, devicesVars, ControlSpec, PairingSpec, DiscoverySpec, BenchmarkSpec, TuningSpec,
      ShareSpec, DashboardSpec, PeerRelaySpec, AndroidSpec, MacSpec, UploadsSpec, ViewSpec, AgentSpec

(* A store of a device holds the identities users confirmed and the         *)
(* certificates seen on first use, the phone downloads the offers whose     *)
(* prompt was accepted, and keeps the identity others agreed to but where   *)
(* its database failed or two runs generated one at once (confirm_pairing,  *)
(* onStartCommand, load_or_generate_identity).                              *)
THEOREM ConsentIsGivenHolds == DevicesSpec => []ConsentIsGiven
<1>1. TrustHasConsent /\ DownloadHasConsent /\ IdentityIsKept => ConsentIsGiven
  BY DEF ConsentIsGiven
<1> QED
  BY <1>1, DevicesComponents, TrustHasConsentHolds, DownloadHasConsentHolds, IdentityIsKeptHolds, PTL

(* What stays in a temporary directory is the file of a share whose body    *)
(* failed, on the Mac, or of a text that was sent, on the phone (share      *)
(* handlers of dashboard.rs; uploadFile, startTextTransfer).                *)
THEOREM LeftoversAreKnownHolds == DevicesSpec => []LeftoversAreKnown
<1>1. LeftoversAreAborted /\ OnlyTextsStayInCache => LeftoversAreKnown
  BY DEF LeftoversAreKnown
<1> QED
  BY <1>1, DevicesComponents, LeftoversAreAbortedHolds, OnlyTextsStayInCacheHolds, PTL

(* Work in progress has someone who will end it, in each of the five        *)
(* components that show or hold it, but for the records of receives that    *)
(* died and the processes whose variable was overwritten (dashboard.rs,     *)
(* ConnectionManager.swift, TransferView.swift, AppViewModel.swift, lib.rs  *)
(* of the Android agent).                                                   *)
THEOREM WorkHasKnownOwnerHolds == DevicesSpec => []WorkHasKnownOwner
<1>1. /\ OrphansAreDeadReceives /\ BackendIsSupervised /\ ShownTransferHasProcess
      /\ AwakeWhileSending /\ AgentsAreStoppable
      => WorkHasKnownOwner
  BY DEF WorkHasKnownOwner
<1> QED
  BY <1>1, DevicesComponents, OrphansAreDeadReceivesHolds, BackendIsSupervisedHolds,
     ShownTransferHasProcessHolds, AwakeWhileSendingHolds, AgentsAreStoppableHolds, PTL

(* What each component's invariant says of the types of its variables.      *)
LEMMA ControlTyped == ControlInv => ControlTypeOK
<1> SUFFICES ASSUME ControlInv PROVE ControlTypeOK
  OBVIOUS
<1>1. HistoryTypes /\ LoopTypes /\ config \in Tunings /\ read \in Tunings /\ DecisionIsCurrent
  BY DEF ControlInv
<1>2. nsamples \in 0..Needed /\ counters \in [thermal : 0..2, link : 0..2] /\ written \in BOOLEAN
  BY <1>1 DEF HistoryTypes, Needed, CounterSet
<1> QED  BY <1>1, <1>2 DEF LoopTypes, DecisionIsCurrent, ControlTypeOK

LEMMA PairingTyped == PairingInv => PairingTypeOK
<1> SUFFICES ASSUME PairingInv PROVE PairingTypeOK
  OBVIOUS
<1>1. \A d \in Nodes : \A r \in pending[d] : r.id \in used /\ r.age \in 0..TTL
  BY DEF PairingInv, PairingTypes, PairingRequests
<1> QED  BY <1>1 DEF PairingInv, PairingTypes, StoresHaveConsent, StoreHasConsent, PairingTypeOK

LEMMA DiscoveryTyped == DiscoveryInv => DiscoveryTypeOK
<1> SUFFICES ASSUME DiscoveryInv PROVE DiscoveryTypeOK
  OBVIOUS
<1>1. sockets \in Nat /\ sockets <= MaxStarts /\ MaxStarts \in Nat
  BY DiscoveryAssumption DEF DiscoveryInv, SocketsInv
<1>2. 0..sockets \subseteq 0..MaxStarts /\ 1..sockets \subseteq 1..MaxStarts
  BY <1>1
<1>3. socket \in [Stations -> 0..MaxStarts] /\ replies \subseteq 1..MaxStarts /\ sockets \in 0..MaxStarts
  BY <1>2 DEF DiscoveryInv, SocketsInv, NetInv
<1>4. \A id \in DOMAIN peers : peers[id].addr \in 1..sockets /\ peers[id].age \in 0..Expiry
  BY DEF DiscoveryInv, PeersInv
<1> QED  BY <1>3, <1>4 DEF DiscoveryInv, PeersInv, ListInv, DiscoveryTypeOK

LEMMA TuningTyped == TuningInv /\ SmallUntilGrown => CliTuningTypeOK
<1> SUFFICES ASSUME TuningInv, SmallUntilGrown PROVE CliTuningTypeOK
  OBVIOUS
<1>1. /\ ChunkRange \subseteq Nat /\ StreamRange \subseteq Nat /\ BufferRange \subseteq Nat
      /\ BatchRange \subseteq Nat /\ WorkerRange \subseteq Nat /\ LimitRange \subseteq Nat
  BY DEF ChunkRange, StreamRange, BufferRange, BatchRange, WorkerRange, LimitRange
<1>2. CfgRange \subseteq [chunk : Nat, streams : Nat, send_kb : Nat, recv_kb : Nat, batch : Nat,
                          workers : Nat, limit : Nat, mode : Modes]
  BY <1>1 DEF CfgRange
<1>3. cfg \in CfgRange /\ prevCfg \in CfgRange
  BY DEF TuningInv
<1>4. grown \in BOOLEAN
  BY DEF SmallUntilGrown
<1> QED  BY <1>2, <1>3, <1>4 DEF TuningInv, Tuners, CliTuningTypeOK

LEMMA UploadsTyped == UploadsInv => UploadsTypeOK
<1> SUFFICES ASSUME UploadsInv PROVE UploadsTypeOK
  OBVIOUS
<1>1. \A i \in DOMAIN mainQueue : mainQueue[i] \in Closures
  BY DEF UploadsInv, SendTypes
<1>2. sleepActivityToken \in BOOLEAN
  BY DEF UploadsInv, SendTypes, AwakeInv
<1> QED  BY <1>1, <1>2 DEF UploadsInv, LookTypes, SendTypes, UploadsTypeOK

LEMMA ViewTyped == ViewInv => ViewTypeOK
<1> SUFFICES ASSUME ViewInv PROVE ViewTypeOK
  OBVIOUS
<1>1. DOMAIN sentTo = Sendings
  BY DEF ViewInv, ViewTypes
<1> QED  BY <1>1 DEF ViewInv, ViewTypes, SendingStages, ViewTypeOK

Focuses == {"control", "pairing", "requests", "discovery", "benchmark", "tuning", "share", "dashboard",
            "relay", "downloads", "cancels", "uploads", "mac", "network", "processes", "sender", "view",
            "agent", "keys"}

AllTyped ==
    /\ ControlTypeOK /\ PairingTypeOK /\ DiscoveryTypeOK /\ BenchmarkTypeOK /\ CliTuningTypeOK
    /\ ShareTypeOK /\ DashboardTypeOK /\ PeerRelayTypeOK /\ AndroidTypeOK /\ MacTypeOK
    /\ UploadsTypeOK /\ ViewTypeOK /\ AgentTypeOK

(* Every variable of the thirteen components keeps its type, the bounds     *)
(* that are consequences of what the code does included: the attempts of a  *)
(* download (downloadFile), the length of the history (addToHistory), the   *)
(* termination tasks of the bridges (connectToRelay), the counters of the   *)
(* classifier (classify).                                                   *)
THEOREM DevicesTypesHold == DevicesSpec => []DevicesTypeOK
<1>1. DevicesSpec => [](focus \in Focuses)
  <2>1. DevicesInit => focus \in Focuses
    BY DEF DevicesInit, Focuses
  <2>2. focus \in Focuses /\ [DevicesNext]_devicesVars => (focus \in Focuses)'
    BY DevicesStep
  <2> QED  BY <2>1, <2>2, PTL DEF DevicesSpec, devicesVars
<1>2. BenchmarkInv => BenchmarkTypeOK
  BY DEF BenchmarkInv
<1>3. DashboardInv => DashboardTypeOK
  BY DEF DashboardInv
<1>4. PeerRelayInv => PeerRelayTypeOK
  BY DEF PeerRelayInv
<1>5. AgentInv => AgentTypeOK
  BY DEF AgentInv
<1>6. DevicesSpec => []AllTyped
  BY DevicesComponents, ControlInvHolds, PairingInvHolds, DiscoveryInvHolds, BenchmarkInvHolds,
     TuningInvHolds, SmallUntilGrownHolds, ShareTypesHold, DashboardInvHolds, PeerRelayInvHolds, AndroidTypesHold,
     MacTypesHold, UploadsInvHolds, ViewInvHolds, AgentInvHolds, ControlTyped, PairingTyped,
     DiscoveryTyped, TuningTyped, UploadsTyped, ViewTyped, <1>2, <1>3, <1>4, <1>5, PTL
  DEF AllTyped
<1>7. focus \in Focuses /\ AllTyped => DevicesTypeOK
  <2> SUFFICES ASSUME focus \in Focuses, AllTyped PROVE DevicesTypeOK
    OBVIOUS
  <2>1. /\ ControlTypeOK /\ PairingTypeOK /\ DiscoveryTypeOK /\ BenchmarkTypeOK /\ CliTuningTypeOK
        /\ ShareTypeOK /\ DashboardTypeOK /\ PeerRelayTypeOK /\ AndroidTypeOK /\ MacTypeOK
        /\ UploadsTypeOK /\ ViewTypeOK /\ AgentTypeOK
    BY DEF AllTyped
  <2> QED  BY <2>1 DEF Focuses, DevicesTypeOK
<1> QED  BY <1>1, <1>6, <1>7, PTL
=============================================================================
