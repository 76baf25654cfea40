--------------------------- MODULE SessionManager ---------------------------
(***************************************************************************)
(* The SessionManager of crates/transfer_engine/src/session.rs, one per    *)
(* device: a map of the sessions that are not over and a bounded list of   *)
(* the ones that are.  The operations here are the manager's methods; the  *)
(* modules that use it call them from the steps of the coordinator.        *)
(***************************************************************************)
EXTENDS Integers, Sequences

CONSTANTS
    Devices,
    Sessions,       \* session ids (UUIDs: never used twice)
    MaxHistory      \* max_history (100 in TransferCoordinator::new)

ASSUME ManagerAssumption == MaxHistory \in Nat

VARIABLES
    active,     \* active[d][s]: the state of session s at device d, or "absent"
    history     \* history[d]: the sessions that ended at d, oldest first

managerVars == <<active, history>>

Live == {"Handshaking", "Negotiating", "Active"}
is_terminal == {"Completed", "Failed", "Cancelled"}
Ended == [id : Sessions, state : is_terminal]

ManagerTypeOK ==
    /\ active \in [Devices -> [Sessions -> Live \cup {"absent"}]]
    /\ history \in [Devices -> Seq(Ended)]

ManagerInit ==
    /\ active = [d \in Devices |-> [s \in Sessions |-> "absent"]]
    /\ history = [d \in Devices |-> <<>>]

\* A session starts in Handshaking.
create(d, s) ==
    /\ active' = [active EXCEPT ![d][s] = "Handshaking"]
    /\ UNCHANGED history

valid_transition(from, to) ==
    \/ from = "Handshaking" /\ to \in {"Negotiating", "Failed", "Cancelled"}
    \/ from = "Negotiating" /\ to \in {"Active", "Failed", "Cancelled"}
    \/ from = "Active" /\ to \in is_terminal

\* The entries over max_history are removed from the front.
trim(h) == IF Len(h) > MaxHistory THEN SubSeq(h, Len(h) - MaxHistory + 1, Len(h)) ELSE h

\* A mutant of update_state: the session is written back although it is not there.
update_state_upsert(d, s, state) ==
    IF state \in is_terminal
    THEN /\ active' = [active EXCEPT ![d][s] = "absent"]
         /\ history' = [history EXCEPT ![d] = trim(Append(@, [id |-> s, state |-> state]))]
    ELSE active' = [active EXCEPT ![d][s] = state] /\ UNCHANGED history

\* A mutant of update_state: a session that ends stays in the active map.
update_state_kept(d, s, state) ==
    IF valid_transition(active[d][s], state) /\ state \in is_terminal
    THEN /\ history' = [history EXCEPT ![d] = trim(Append(@, [id |-> s, state |-> state]))]
         /\ UNCHANGED active
    ELSE IF valid_transition(active[d][s], state)
    THEN active' = [active EXCEPT ![d][s] = state] /\ UNCHANGED history
    ELSE UNCHANGED managerVars

\* A mutant of update_state: a session that ends is not moved to the history.
update_state_inplace(d, s, state) ==
    /\ active' = [active EXCEPT ![d][s] = IF valid_transition(@, state) THEN state ELSE @]
    /\ UNCHANGED history

\* An unknown session or an invalid transition changes nothing (the callers ignore
\* the FALSE this returns); a terminal state moves the session to the history.
update_state(d, s, state) ==
    IF ~valid_transition(active[d][s], state)
    THEN UNCHANGED managerVars
    ELSE IF state \in is_terminal
    THEN /\ active' = [active EXCEPT ![d][s] = "absent"]
         /\ history' = [history EXCEPT ![d] = trim(Append(@, [id |-> s, state |-> state]))]
    ELSE active' = [active EXCEPT ![d][s] = state] /\ UNCHANGED history

-----------------------------------------------------------------------------
(* Properties *)

Recorded(d, s) == {history[d][i].state : i \in {j \in DOMAIN history[d] : history[d][j].id = s}}

\* A session is either live or over, never both, it is over only once, and the
\* history keeps its bound: get() and list_active() cannot disagree.
LiveOrOver ==
    \A d \in Devices :
        /\ Len(history[d]) <= MaxHistory
        /\ \A i, j \in DOMAIN history[d] : history[d][i].id = history[d][j].id => i = j
        /\ \A s \in Sessions : active[d][s] # "absent" => Recorded(d, s) = {}

Rank(d, s) ==
    CASE active[d][s] = "Handshaking" -> 1
      [] active[d][s] = "Negotiating" -> 2
      [] active[d][s] = "Active"      -> 3
      [] active[d][s] = "absent"      -> 0

\* "Each session proceeds through these states exactly once" (session.rs): no step
\* of any task takes a live session back or brings back one that is over, and the
\* record of how a session ended stays as it is until later ones push it out.
ProceedsOnce ==
    [][\A d \in Devices :
          /\ \A s \in Sessions :
                \/ active'[d][s] = "absent"
                \/ Rank(d, s) > 0 /\ Rank(d, s)' >= Rank(d, s)
                \/ active'[d][s] = "Handshaking" /\ Recorded(d, s) = {}
          /\ \E n \in 0..Len(history[d]) :
                LET kept == SubSeq(history[d], n + 1, Len(history[d]))
                IN  /\ Len(history'[d]) >= Len(kept)
                    /\ SubSeq(history'[d], 1, Len(kept)) = kept
                    /\ n > 0 => Len(history'[d]) = MaxHistory
      ]_managerVars
=============================================================================
