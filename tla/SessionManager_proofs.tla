----------------------- MODULE SessionManager_proofs -----------------------
(***************************************************************************)
(* What update_state() and create() keep of the manager's two collections, *)
(* for any number of devices and sessions and any max_history: the lemmas  *)
(* that the proofs about negotiated (Session_proofs) and about direct      *)
(* transfers (Files_proofs) share.                                         *)
(***************************************************************************)
EXTENDS SessionManager, TLAPS

States == Live \cup is_terminal

\* What the history of one device keeps to.
GoodHistory(h) ==
    /\ h \in Seq(Ended)
    /\ Len(h) <= MaxHistory
    /\ \A i, j \in DOMAIN h : h[i].id = h[j].id => i = j

\* Session s has never been seen at device d.
Untouched(d, s) ==
    /\ active[d][s] = "absent"
    /\ \A i \in DOMAIN history[d] : history[d][i].id # s

\* ManagerTypeOK and LiveOrOver, with the histories apart.
ManagerInv ==
    /\ active \in [Devices -> [Sessions -> Live \cup {"absent"}]]
    /\ history \in [Devices -> Seq(Ended)]
    /\ \A d \in Devices : GoodHistory(history[d])
    /\ \A d \in Devices, s \in Sessions :
          active[d][s] # "absent" => \A i \in DOMAIN history[d] : history[d][i].id # s

-----------------------------------------------------------------------------
\* Appending the record of a session that has none, and trimming, keeps the
\* history good; what is in it was there before or is the new record.
LEMMA TrimPush ==
    ASSUME ManagerAssumption,
           NEW h, GoodHistory(h), NEW x \in Ended, \A i \in DOMAIN h : h[i].id # x.id
    PROVE  /\ GoodHistory(trim(Append(h, x)))
           /\ \A i \in DOMAIN trim(Append(h, x)) :
                 \/ trim(Append(h, x))[i] = x
                 \/ \E j \in DOMAIN h : trim(Append(h, x))[i] = h[j]
  <1> DEFINE a == Append(h, x)
             k == Len(a) - MaxHistory
             r == trim(a)
  <1>0. h \in Seq(Ended) /\ Len(h) \in Nat /\ MaxHistory \in Nat
    BY DEF GoodHistory, ManagerAssumption
  <1>1. /\ a \in Seq(Ended) /\ Len(a) = Len(h) + 1
        /\ \A i \in DOMAIN a : (i = Len(a) /\ a[i] = x) \/ (i \in DOMAIN h /\ a[i] = h[i])
    BY <1>0
  <1>2. \A i, j \in DOMAIN a : a[i].id = a[j].id => i = j
    BY <1>1 DEF GoodHistory
  <1>3. \E m \in Nat :
           /\ r \in Seq(Ended) /\ Len(r) <= MaxHistory
           /\ \A i \in DOMAIN r : i + m \in DOMAIN a /\ r[i] = a[i + m]
    <2>1. CASE Len(a) > MaxHistory
      <3>1. r = SubSeq(a, k + 1, Len(a))
        BY <1>0, <1>1, <2>1 DEF trim
      <3>2. k \in Nat /\ Len(a) \in Nat /\ k <= Len(a)
        BY <1>0, <1>1, <2>1
      <3>3. r \in Seq(Ended) /\ Len(r) = MaxHistory
        BY <1>0, <1>1, <3>1, <3>2
      <3>4. \A i \in DOMAIN r : i + k \in DOMAIN a /\ r[i] = a[i + k]
        BY <1>0, <1>1, <3>1, <3>2, <3>3
      <3>5. Len(r) <= MaxHistory
        BY <1>0, <3>3
      <3> HIDE DEF k, r, a
      <3>6. QED
        BY <3>2, <3>3, <3>4, <3>5, Zenon
    <2>2. CASE ~(Len(a) > MaxHistory)
      <3>1. r = a
        BY <1>0, <1>1, <2>2 DEF trim
      <3>2. Len(r) <= MaxHistory
        BY <1>0, <1>1, <2>2, <3>1
      <3>3. \A i \in DOMAIN r : i + 0 \in DOMAIN a /\ r[i] = a[i + 0]
        BY <1>1, <3>1
      <3>4. QED
        BY <1>1, <3>1, <3>2, <3>3
    <2>3. QED
      BY <2>1, <2>2
  <1>4. PICK m \in Nat :
           /\ r \in Seq(Ended) /\ Len(r) <= MaxHistory
           /\ \A i \in DOMAIN r : i + m \in DOMAIN a /\ r[i] = a[i + m]
    BY <1>3
  <1>5. ASSUME NEW i \in DOMAIN r, NEW j \in DOMAIN r, r[i].id = r[j].id PROVE i = j
    <2>1. i + m \in DOMAIN a /\ j + m \in DOMAIN a /\ a[i + m].id = a[j + m].id
      BY <1>4, <1>5
    <2>2. i + m = j + m
      BY <1>2, <2>1
    <2>3. i \in Nat /\ j \in Nat
      BY <1>4
    <2>4. QED
      BY <2>2, <2>3
  <1>6. GoodHistory(r)
    BY <1>4, <1>5 DEF GoodHistory
  <1>7. ASSUME NEW i \in DOMAIN r
        PROVE  r[i] = x \/ \E j \in DOMAIN h : r[i] = h[j]
    BY <1>1, <1>4
  <1>8. QED
    BY <1>6, <1>7

\* What update_state() does to a good manager: it stays good, sessions it has never
\* seen stay unseen, and the only record that can be new is the one asked for.
LEMMA UpdateState ==
    ASSUME ManagerAssumption, ManagerInv,
           NEW d \in Devices, NEW s \in Sessions, NEW state \in States,
           update_state(d, s, state)
    PROVE  /\ ManagerInv'
           /\ \A e \in Devices, t \in Sessions : Untouched(e, t) => Untouched(e, t)'
           /\ \A e \in Devices : \A i \in DOMAIN history'[e] :
                 \/ \E j \in DOMAIN history[e] : history'[e][i] = history[e][j]
                 \/ e = d /\ history'[e][i] = [id |-> s, state |-> state]
  <1>1. CASE UNCHANGED managerVars
    BY <1>1 DEF managerVars, ManagerInv, Untouched, GoodHistory
  <1>2. CASE valid_transition(active[d][s], state) /\ state \notin is_terminal
    <2>1. /\ active' = [active EXCEPT ![d][s] = state] /\ history' = history
          /\ active[d][s] # "absent" /\ state \in Live
      BY <1>2 DEF update_state, valid_transition, States, Live, is_terminal
    <2>2. \A e \in Devices, t \in Sessions :
             active'[e][t] = IF e = d /\ t = s THEN state ELSE active[e][t]
      BY <2>1 DEF ManagerInv
    <2>3. active' \in [Devices -> [Sessions -> Live \cup {"absent"}]]
      BY <2>1 DEF ManagerInv
    <2>4. QED
      BY <2>1, <2>2, <2>3 DEF ManagerInv, Untouched, GoodHistory
  <1>3. CASE valid_transition(active[d][s], state) /\ state \in is_terminal
    <2> DEFINE x == [id |-> s, state |-> state]
               r == trim(Append(history[d], x))
    <2>1. /\ active' = [active EXCEPT ![d][s] = "absent"]
          /\ history' = [history EXCEPT ![d] = r]
          /\ active[d][s] # "absent" /\ x \in Ended
      BY <1>3 DEF update_state, valid_transition, Ended, is_terminal
    <2>2. /\ GoodHistory(r)
          /\ \A i \in DOMAIN r : r[i] = x \/ \E j \in DOMAIN history[d] : r[i] = history[d][j]
      <3>1. GoodHistory(history[d]) /\ \A i \in DOMAIN history[d] : history[d][i].id # x.id
        BY <2>1 DEF ManagerInv
      <3>2. QED
        BY <2>1, <3>1, TrimPush
    <2>3. /\ \A e \in Devices, t \in Sessions :
                active'[e][t] = IF e = d /\ t = s THEN "absent" ELSE active[e][t]
          /\ \A e \in Devices : history'[e] = IF e = d THEN r ELSE history[e]
          /\ active' \in [Devices -> [Sessions -> Live \cup {"absent"}]]
          /\ history' \in [Devices -> Seq(Ended)]
      <3>1. r \in Seq(Ended)
        BY <2>2 DEF GoodHistory
      <3> HIDE DEF r
      <3>2. QED
        BY <2>1, <3>1 DEF ManagerInv
    <2>4. \A e \in Devices : \A i \in DOMAIN history'[e] :
             \/ \E j \in DOMAIN history[e] : history'[e][i] = history[e][j]
             \/ e = d /\ history'[e][i] = x
      <3>1. \A i \in DOMAIN history'[d] :
               \/ \E j \in DOMAIN history[d] : history'[d][i] = history[d][j]
               \/ history'[d][i] = x
        <4>1. history'[d] = r
          BY <2>3
        <4> HIDE DEF r, x
        <4>2. QED
          BY <2>2, <4>1
      <3>2. \A e \in Devices : e # d => history'[e] = history[e]
        BY <2>3
      <3> HIDE DEF r, x
      <3>3. QED
        BY <3>1, <3>2
    <2>5. \A e \in Devices : GoodHistory(history'[e])
      <3>1. ASSUME NEW e \in Devices PROVE GoodHistory(history'[e])
        <4>1. GoodHistory(r) /\ GoodHistory(history[e])
          BY <2>2 DEF ManagerInv
        <4>2. history'[e] = r \/ history'[e] = history[e]
          BY <2>3
        <4>3. QED
          BY <4>1, <4>2, Zenon
      <3>2. QED
        BY <3>1
    <2>6. \A e \in Devices, t \in Sessions :
             (t # s \/ e # d) /\ (\A i \in DOMAIN history[e] : history[e][i].id # t)
             => \A i \in DOMAIN history'[e] : history'[e][i].id # t
      BY <2>4
    <2>7. \A e \in Devices, t \in Sessions : Untouched(e, t) => Untouched(e, t)'
      BY <2>1, <2>3, <2>6 DEF Untouched
    <2>8. \A e \in Devices, t \in Sessions :
             active'[e][t] # "absent" => \A i \in DOMAIN history'[e] : history'[e][i].id # t
      <3>1. ASSUME NEW e \in Devices, NEW t \in Sessions, active'[e][t] # "absent"
            PROVE  \A i \in DOMAIN history'[e] : history'[e][i].id # t
        <4>1. (e # d \/ t # s) /\ active[e][t] # "absent"
          BY <2>3, <3>1
        <4>2. \A i \in DOMAIN history[e] : history[e][i].id # t
          BY <4>1 DEF ManagerInv
        <4>3. QED
          BY <2>6, <4>1, <4>2
      <3>2. QED
        BY <3>1
    <2>9. ManagerInv'
      <3>1. \A e \in Devices : GoodHistory(history[e])'
        BY <2>5 DEF GoodHistory
      <3>2. QED
        BY <2>3, <2>8, <3>1 DEF ManagerInv
    <2>10. QED
      BY <2>4, <2>7, <2>9
  <1>4. QED
    BY <1>1, <1>2, <1>3 DEF update_state

\* Creating a session the device has never seen keeps the manager good.
LEMMA CreateSession ==
    ASSUME ManagerInv, NEW d \in Devices, NEW s \in Sessions,
           Untouched(d, s), create(d, s)
    PROVE  /\ ManagerInv'
           /\ \A e \in Devices, t \in Sessions :
                 (e # d \/ t # s) /\ Untouched(e, t) => Untouched(e, t)'
           /\ history' = history
  <1>1. active' = [active EXCEPT ![d][s] = "Handshaking"] /\ history' = history
    BY DEF create
  <1>2. /\ \A e \in Devices, t \in Sessions :
              active'[e][t] = IF e = d /\ t = s THEN "Handshaking" ELSE active[e][t]
        /\ active' \in [Devices -> [Sessions -> Live \cup {"absent"}]]
    BY <1>1 DEF ManagerInv, Live
  <1>3. QED
    BY <1>1, <1>2 DEF ManagerInv, Untouched, GoodHistory
=============================================================================
