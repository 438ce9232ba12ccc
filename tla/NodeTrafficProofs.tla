------------------------- MODULE NodeTrafficProofs -------------------------
(***************************************************************************)
(* Nothing is charged twice and nothing is lost, a row is the sum of the   *)
(* shares, and a deletion sticks, for any number of nodes, inbounds and    *)
(* clients and any bounds.                                                 *)
(***************************************************************************)
EXTENDS NodeTraffic, TLAPS, FiniteSetTheorems, WellFoundedInduction

(***************************************************************************)
(* The invariant.  Of a (node, client) pair: the node's share of the row,  *)
(* together with what the counter is ahead of the baseline, is traffic     *)
(* that happened.  Of a snapshot in flight: the same at the time of the    *)
(* fetch, and since then the counter has gained at most the traffic since. *)
(***************************************************************************)

\* The pair (n, e) on the master and on the node.
PairInv(n, e) ==
    /\ ctr[n][e] <= gen[n][e]
    /\ charged[n][e] <= gen[n][e]
    /\ base[n][e] # None => charged[n][e] + ctr[n][e] <= gen[n][e] + base[n][e]

\* The client e in the snapshot s of node n.
FlightInv(n, e, s) ==
    /\ s.top[e] <= s.gen[e] /\ s.gen[e] <= gen[n][e]
    /\ ctr[n][e] + s.gen[e] <= gen[n][e] + s.top[e]
    /\ charged[n][e] <= s.gen[e]
    /\ base[n][e] # None => charged[n][e] + s.top[e] <= s.gen[e] + base[n][e]

\* Every copy is at most the counter at the fetch, and one is equal to it.
CopiesInv(s) ==
    \A e \in Emails : Reporting(s, e) # {} =>
        /\ \A t \in Reporting(s, e) : s.copy[<<t, e>>] <= s.top[e]
        /\ \E t \in Reporting(s, e) : s.copy[<<t, e>>] = s.top[e]

CounterType ==
    /\ ctr \in [Nodes -> [Emails -> Nat]] /\ gen \in [Nodes -> [Emails -> Nat]]
    /\ charged \in [Nodes -> [Emails -> Nat]]
    /\ base \in [Nodes -> [Emails -> Nat \cup {None}]]
    /\ snap \in [Nodes -> {NoSnap} \cup Snapshot]

NodeType ==
    /\ hosts \in [Nodes -> SUBSET Tags]
    /\ on \in [Nodes -> SUBSET (Tags \X Emails)]
    /\ exp \in [Nodes -> [Emails -> Int]]

Inv ==
    /\ CounterType /\ NodeType
    /\ \A n \in Nodes, e \in Emails : PairInv(n, e)
    /\ \A n \in Nodes : snap[n] # NoSnap =>
         CopiesInv(snap[n]) /\ \A e \in Emails : FlightInv(n, e, snap[n])
-----------------------------------------------------------------------------
\* The value nodeEmailTotals folds the copies of a counter to is the counter at
\* the time of the fetch.
LEMMA CanonIsTop ==
    ASSUME NEW s \in Snapshot, NEW e \in Emails,
           CopiesInv(s), Reporting(s, e) # {}
    PROVE  Canon(s, e) = s.top[e]
<1> DEFINE copies == {s.copy[<<t, e>>] : t \in Reporting(s, e)}
<1>1. s.copy \in [Tags \X Emails -> Nat] /\ s.top[e] \in Nat /\ s.tags \subseteq Tags
  BY DEF Snapshot
<1>2. PICK t \in Reporting(s, e) : s.copy[<<t, e>>] = s.top[e]
  BY DEF CopiesInv
<1>3. s.top[e] \in copies
  BY <1>2
<1>4. \A w \in copies : w \in Nat /\ w <= s.top[e]
  BY <1>1 DEF CopiesInv, Reporting
<1> HIDE DEF copies
<1>5. \A v \in copies : (\A w \in copies : w <= v) => v = s.top[e]
  BY <1>1, <1>3, <1>4
<1>6. (CHOOSE v \in copies : \A w \in copies : w <= v) = s.top[e]
  <2>1. \E v \in copies : \A w \in copies : w <= v
    BY <1>3, <1>4
  <2> QED
    BY <2>1, <1>5
<1> QED
  BY <1>6 DEF Canon, copies

\* A snapshot is not the absence of one.
LEMMA SnapshotIsSnap == ASSUME NEW s \in Snapshot PROVE s # NoSnap
BY DEF Snapshot, NoSnap

\* Before any traffic all numbers are zero and no snapshot is in flight.
LEMMA InitInv == Init => Inv
<1> SUFFICES ASSUME Init PROVE Inv
  OBVIOUS
<1>1. CounterType /\ NodeType
  BY DEF Init, CounterType, NodeType, None
<1>2. \A n \in Nodes, e \in Emails : PairInv(n, e)
  BY DEF Init, PairInv, None
<1>3. \A n \in Nodes : snap[n] = NoSnap
  BY DEF Init
<1> QED
  BY <1>1, <1>2, <1>3 DEF Inv

-----------------------------------------------------------------------------
(***************************************************************************)
(* What each step does to the numbers of one pair.                         *)
(***************************************************************************)

\* The counter and the traffic of a pair do not change, and the share and the
\* baseline at most start again.
Resets(n, e) ==
    /\ gen'[n][e] = gen[n][e]
    /\ ctr'[n][e] \in {0, ctr[n][e]}
    /\ charged'[n][e] \in {0, charged[n][e]}
    /\ base'[n][e] \in {None, base[n][e]}

\* The snapshot of n is gone, or the same but for its live clients.
SameSnap(n) ==
    \/ snap'[n] = NoSnap
    \/ /\ snap[n] # NoSnap
       /\ \E L \in SUBSET Emails : snap'[n] = [snap[n] EXCEPT !.live = L]

\* A pair that is reset, or left alone, keeps its invariant.
LEMMA ResetKeepsPair ==
    ASSUME Inv, CounterType', NEW n \in Nodes, NEW e \in Emails, Resets(n, e)
    PROVE  PairInv(n, e)'
<1>1. /\ ctr[n][e] \in Nat /\ gen[n][e] \in Nat /\ charged[n][e] \in Nat
      /\ base[n][e] \in Nat \cup {None}
  BY DEF Inv, CounterType
<1>2. PairInv(n, e)
  BY DEF Inv
<1> QED
  BY <1>1, <1>2 DEF PairInv, Resets, None

\* ... and so does its snapshot.
LEMMA ResetKeepsFlight ==
    ASSUME Inv, CounterType', NEW n \in Nodes, SameSnap(n),
           \A e \in Emails : Resets(n, e), snap'[n] # NoSnap
    PROVE  CopiesInv(snap'[n]) /\ \A e \in Emails : FlightInv(n, e, snap[n])'
<1>1. snap[n] # NoSnap /\ snap[n] \in Snapshot
  BY DEF SameSnap, Inv, CounterType
<1>2. PICK L \in SUBSET Emails : snap'[n] = [snap[n] EXCEPT !.live = L]
  BY <1>1 DEF SameSnap
<1>3. /\ snap'[n].tags = snap[n].tags /\ snap'[n].on = snap[n].on
      /\ snap'[n].copy = snap[n].copy /\ snap'[n].top = snap[n].top
      /\ snap'[n].gen = snap[n].gen
  BY <1>1, <1>2 DEF Snapshot
<1>4. CopiesInv(snap'[n])
  BY <1>1, <1>3 DEF Inv, CopiesInv, Reporting
<1>5. ASSUME NEW e \in Emails PROVE FlightInv(n, e, snap[n])'
  <2>1. /\ ctr[n][e] \in Nat /\ gen[n][e] \in Nat /\ charged[n][e] \in Nat
        /\ base[n][e] \in Nat \cup {None}
        /\ snap[n].top[e] \in Nat /\ snap[n].gen[e] \in Nat
    BY <1>1 DEF Inv, CounterType, Snapshot
  <2>2. FlightInv(n, e, snap[n]) /\ PairInv(n, e) /\ Resets(n, e)
    BY <1>1 DEF Inv
  <2> QED
    BY <2>1, <2>2, <1>3 DEF FlightInv, PairInv, Resets, None
<1> QED
  BY <1>4, <1>5
\* A step that only resets pairs keeps the invariant.
LEMMA ResetKeepsInv ==
    ASSUME Inv, CounterType', NodeType',
           \A n \in Nodes : SameSnap(n),
           \A n \in Nodes, e \in Emails : Resets(n, e)
    PROVE  Inv'
<1>1. \A n \in Nodes, e \in Emails : PairInv(n, e)'
  BY ResetKeepsPair
<1>2. ASSUME NEW n \in Nodes, snap'[n] # NoSnap
      PROVE  CopiesInv(snap'[n]) /\ \A e \in Emails : FlightInv(n, e, snap[n])'
  BY <1>2, ResetKeepsFlight
<1> QED
  BY <1>1, <1>2 DEF Inv, CopiesInv

\* The steps that leave the snapshots and the numbers alone.
Frame == UNCHANGED <<ctr, gen, charged, base, snap>>

\* A step that at most starts the numbers of a pair again, and drops or keeps
\* the snapshots, keeps the invariant.
LEMMA FrameKeepsInv ==
    ASSUME Inv, Frame, NodeType' PROVE Inv'
<1>1. CounterType'
  BY DEF Inv, CounterType, Frame
<1>2. \A n \in Nodes : SameSnap(n)
  <2>1. ASSUME NEW n \in Nodes, snap[n] # NoSnap
        PROVE  \E L \in SUBSET Emails : snap'[n] = [snap[n] EXCEPT !.live = L]
    <3>1. snap[n] \in Snapshot /\ snap'[n] = snap[n]
      BY <2>1 DEF Inv, CounterType, Frame
    <3>2. snap[n].live \in SUBSET Emails /\ snap[n] = [snap[n] EXCEPT !.live = snap[n].live]
      BY <3>1 DEF Snapshot
    <3> QED
      BY <3>1, <3>2
  <2> QED
    BY <2>1 DEF SameSnap, Frame
<1>3. \A n \in Nodes, e \in Emails : Resets(n, e)
  BY DEF Resets, Frame
<1> QED
  BY <1>1, <1>2, <1>3, ResetKeepsInv

\* The counters of some clients of a node fall.
LEMMA FallKeepsInv ==
    ASSUME Inv, NEW n \in Nodes, NEW E \in SUBSET Emails, CounterFalls(n, E),
           UNCHANGED <<gen, charged, base>>, NodeType'
    PROVE  Inv'
<1>1. ctr' \in [Nodes -> [Emails -> Nat]]
  <2>1. ctr \in [Nodes -> [Emails -> Nat]]
    BY DEF Inv, CounterType
  <2> QED
    BY <2>1 DEF CounterFalls
<1>2. ASSUME NEW m \in Nodes
      PROVE  SameSnap(m) /\ snap'[m] \in {NoSnap} \cup Snapshot
  <2>1. snap \in [Nodes -> {NoSnap} \cup Snapshot]
    BY DEF Inv, CounterType
  <2>2. CASE snap[m] = NoSnap
    <3>1. snap'[m] = NoSnap
      BY <2>1, <2>2 DEF CounterFalls
    <3> QED
      BY <2>2, <3>1 DEF SameSnap
  <2>3. CASE snap[m] # NoSnap
    <3>1. snap[m] \in Snapshot
      BY <2>1, <2>3
    <3>2. /\ snap[m].live \in SUBSET Emails
          /\ snap[m] = [snap[m] EXCEPT !.live = snap[m].live]
          /\ \A L \in SUBSET Emails : [snap[m] EXCEPT !.live = L] \in Snapshot
      BY <3>1 DEF Snapshot
    <3>3. \E L \in SUBSET Emails : snap'[m] = [snap[m] EXCEPT !.live = L]
      <4>1. CASE m = n
        <5>1. snap'[m] = [snap[m] EXCEPT !.live = @ \ E]
          BY <2>1, <2>3, <4>1 DEF CounterFalls
        <5> QED
          BY <5>1, <3>2
      <4>2. CASE m # n
        <5>1. snap'[m] = snap[m]
          BY <2>1, <4>2 DEF CounterFalls
        <5> QED
          BY <5>1, <3>2
      <4> QED
        BY <4>1, <4>2
    <3> QED
      BY <2>3, <3>2, <3>3 DEF SameSnap
  <2> QED
    BY <2>2, <2>3
<1>3. snap' \in [Nodes -> {NoSnap} \cup Snapshot]
  <2>1. DOMAIN snap' = Nodes /\ snap' = [m \in Nodes |-> snap'[m]]
    BY DEF CounterFalls, Inv, CounterType
  <2> QED
    BY <1>2, <2>1
<1>4. \A m \in Nodes, e \in Emails : Resets(m, e)
  <2> SUFFICES ASSUME NEW m \in Nodes, NEW e \in Emails PROVE ctr'[m][e] \in {0, ctr[m][e]}
    BY DEF Resets
  <2>1. ctr \in [Nodes -> [Emails -> Nat]]
    BY DEF Inv, CounterType
  <2> QED
    BY <2>1 DEF CounterFalls
<1>5. CounterType'
  BY <1>1, <1>3 DEF Inv, CounterType
<1> QED
  BY <1>2, <1>4, <1>5, ResetKeepsInv
-----------------------------------------------------------------------------
(***************************************************************************)
(* The steps of a node.                                                    *)
(***************************************************************************)

\* An edit of inbounds and clients on a node keeps the invariant.
LEMMA NodeEditKeepsInv ==
    ASSUME Inv, NEW n \in Nodes, NEW H \in SUBSET Tags,
           NEW C \in SUBSET (Tags \X Emails), NodeEdit(n, H, C)
    PROVE  Inv'
<1>1. NodeType'
  BY DEF Inv, NodeType, NodeEdit
<1>2. {e \in Emails : ~ \E t \in H : <<t, e>> \in C} \in SUBSET Emails
  OBVIOUS
<1>3. UNCHANGED <<gen, charged, base>>
  BY DEF NodeEdit
<1> QED
  BY <1>1, <1>2, <1>3, FallKeepsInv DEF NodeEdit

\* Traffic raises the counter and the traffic that happened alike.
LEMMA UseKeepsInv ==
    ASSUME Inv, NEW n \in Nodes, NEW e \in Emails, Use(n, e)
    PROVE  Inv'
<1>0. /\ ctr \in [Nodes -> [Emails -> Nat]] /\ gen \in [Nodes -> [Emails -> Nat]]
      /\ charged \in [Nodes -> [Emails -> Nat]]
      /\ base \in [Nodes -> [Emails -> Nat \cup {None}]]
      /\ snap \in [Nodes -> {NoSnap} \cup Snapshot]
  BY DEF Inv, CounterType
<1>1. NodeType'
  <2>1. exp' \in [Nodes -> [Emails -> Int]]
    BY DEF Inv, NodeType, Use
  <2> QED
    BY <2>1 DEF Inv, NodeType, Use
<1>2. ctr' \in [Nodes -> [Emails -> Nat]] /\ gen' \in [Nodes -> [Emails -> Nat]]
  BY <1>0 DEF Use
<1>3. CounterType'
  BY <1>0, <1>2 DEF CounterType, Use, historyVars
<1>4. ASSUME NEW m \in Nodes, NEW f \in Emails
      PROVE  \E d \in {0, 1} : ctr'[m][f] = ctr[m][f] + d /\ gen'[m][f] = gen[m][f] + d
  BY <1>0 DEF Use
<1>5. UNCHANGED <<charged, base, snap>>
  BY DEF Use, historyVars
<1>6. ASSUME NEW m \in Nodes, NEW f \in Emails PROVE PairInv(m, f)'
  <2>1. PairInv(m, f)
    BY DEF Inv
  <2>2. PICK d \in {0, 1} : ctr'[m][f] = ctr[m][f] + d /\ gen'[m][f] = gen[m][f] + d
    BY <1>4
  <2>3. /\ ctr[m][f] \in Nat /\ gen[m][f] \in Nat /\ charged[m][f] \in Nat
        /\ base[m][f] \in Nat \cup {None}
    BY <1>0
  <2> QED
    BY <1>5, <2>1, <2>2, <2>3 DEF PairInv, None
<1>7. ASSUME NEW m \in Nodes, snap'[m] # NoSnap
      PROVE  CopiesInv(snap'[m]) /\ \A f \in Emails : FlightInv(m, f, snap[m])'
  <2>1. snap[m] \in Snapshot /\ snap'[m] = snap[m] /\ snap[m] # NoSnap
    BY <1>0, <1>5, <1>7
  <2>2. ASSUME NEW f \in Emails PROVE FlightInv(m, f, snap[m])'
    <3>1. FlightInv(m, f, snap[m])
      BY <2>1 DEF Inv
    <3>2. snap[m].top[f] \in Nat /\ snap[m].gen[f] \in Nat
      BY <2>1 DEF Snapshot
    <3>3. PICK d \in {0, 1} : ctr'[m][f] = ctr[m][f] + d /\ gen'[m][f] = gen[m][f] + d
      BY <1>4
    <3>4. /\ ctr[m][f] \in Nat /\ gen[m][f] \in Nat /\ charged[m][f] \in Nat
          /\ base[m][f] \in Nat \cup {None}
      BY <1>0
    <3> QED
      BY <1>5, <2>1, <3>1, <3>2, <3>3, <3>4 DEF FlightInv, None
  <2> QED
    BY <2>1, <2>2 DEF Inv
<1> QED
  BY <1>1, <1>3, <1>6, <1>7 DEF Inv, CopiesInv

\* Every step of a node keeps the invariant.
LEMMA NodeKeepsInv ==
    ASSUME Inv, NEW n \in Nodes, Node(n) PROVE Inv'
<1>0. /\ hosts[n] \in SUBSET Tags /\ on[n] \in SUBSET (Tags \X Emails)
      /\ exp \in [Nodes -> [Emails -> Int]]
  BY DEF Inv, NodeType
<1>1. ASSUME NEW t \in Tags, NodeAddInbound(n, t) PROVE Inv'
  <2>1. PICK E \in SUBSET Emails : NodeEdit(n, hosts[n] \cup {t}, on[n] \cup ({t} \X E))
    BY <1>1 DEF NodeAddInbound
  <2>2. hosts[n] \cup {t} \in SUBSET Tags /\ on[n] \cup ({t} \X E) \in SUBSET (Tags \X Emails)
    BY <1>0
  <2> QED
    BY <2>1, <2>2, NodeEditKeepsInv
<1>2. ASSUME NEW t \in Tags, NodeDelInbound(n, t) PROVE Inv'
  BY <1>0, <1>2, NodeEditKeepsInv DEF NodeDelInbound
<1>3. ASSUME NEW t \in Tags, NEW u \in Tags, NodeRename(n, t, u) PROVE Inv'
  <2> DEFINE C == {<<IF p[1] = t THEN u ELSE p[1], p[2]>> : p \in on[n]}
  <2>1. C \in SUBSET (Tags \X Emails)
    BY <1>0
  <2>2. (hosts[n] \ {t}) \cup {u} \in SUBSET Tags
    BY <1>0
  <2>3. NodeEdit(n, (hosts[n] \ {t}) \cup {u}, C)
    BY <1>3 DEF NodeRename
  <2> QED
    BY <2>1, <2>2, <2>3, NodeEditKeepsInv
<1>4. ASSUME NEW t \in Tags, NEW e \in Emails, NodeAttach(n, t, e) PROVE Inv'
  BY <1>0, <1>4, NodeEditKeepsInv DEF NodeAttach
<1>5. ASSUME NEW t \in Tags, NEW e \in Emails, NodeDetach(n, t, e) PROVE Inv'
  BY <1>0, <1>5, NodeEditKeepsInv DEF NodeDetach
<1>6. ASSUME NEW e \in Emails, NodeReset(n, e) PROVE Inv'
  <2>1. NodeType'
    BY <1>6 DEF Inv, NodeType, NodeReset
  <2>2. CounterFalls(n, {e}) /\ UNCHANGED <<gen, charged, base>>
    BY <1>6 DEF NodeReset
  <2> QED
    BY <2>1, <2>2, FallKeepsInv
<1>7. ASSUME NEW e \in Emails, NodeRenew(n, e) PROVE Inv'
  <2>1. NodeType'
    BY <1>7 DEF Inv, NodeType, NodeRenew
  <2>2. CounterFalls(n, {e}) /\ UNCHANGED <<gen, charged, base>>
    BY <1>7 DEF NodeRenew
  <2> QED
    BY <2>1, <2>2, FallKeepsInv
<1> QED
  BY <1>1, <1>2, <1>3, <1>4, <1>5, <1>6, <1>7, UseKeepsInv DEF Node
-----------------------------------------------------------------------------
(***************************************************************************)
(* Fetching, and the steps of the master but for the merge.                *)
(***************************************************************************)

\* A snapshot whose counters are those of the node now.
LEMMA NewSnapKeepsInv ==
    ASSUME Inv, NEW n \in Nodes, NEW s \in Snapshot,
           snap' = [snap EXCEPT ![n] = s], s.gen = gen[n], s.top = ctr[n], CopiesInv(s),
           UNCHANGED <<ctr, gen, charged, base, hosts, on, exp>>
    PROVE  Inv'
<1>0. /\ ctr \in [Nodes -> [Emails -> Nat]] /\ gen \in [Nodes -> [Emails -> Nat]]
      /\ charged \in [Nodes -> [Emails -> Nat]]
      /\ base \in [Nodes -> [Emails -> Nat \cup {None}]]
      /\ snap \in [Nodes -> {NoSnap} \cup Snapshot]
  BY DEF Inv, CounterType
<1>1. CounterType' /\ NodeType'
  BY <1>0 DEF Inv, CounterType, NodeType
<1>2. \A m \in Nodes, e \in Emails : PairInv(m, e)'
  BY DEF Inv, PairInv
<1>3. ASSUME NEW m \in Nodes, snap'[m] # NoSnap
      PROVE  CopiesInv(snap'[m]) /\ \A e \in Emails : FlightInv(m, e, snap[m])'
  <2>1. CASE m = n
    <3>1. snap'[m] = s
      BY <1>0, <2>1
    <3>2. ASSUME NEW e \in Emails PROVE FlightInv(m, e, snap[m])'
      <4>1. /\ ctr[m][e] \in Nat /\ gen[m][e] \in Nat /\ charged[m][e] \in Nat
            /\ base[m][e] \in Nat \cup {None}
        BY <1>0
      <4>2. PairInv(m, e)
        BY DEF Inv
      <4> QED
        BY <2>1, <3>1, <4>1, <4>2 DEF FlightInv, PairInv, None
    <3> QED
      BY <3>1, <3>2
  <2>2. CASE m # n
    <3>1. snap'[m] = snap[m]
      BY <1>0, <2>2
    <3> QED
      BY <1>3, <3>1 DEF Inv, FlightInv
  <2> QED
    BY <2>1, <2>2
<1> QED
  BY <1>1, <1>2, <1>3 DEF Inv, CopiesInv

\* A fetch brings the numbers of now into flight.
LEMMA FetchKeepsInv ==
    ASSUME Inv, NEW n \in Nodes, Fetch(n) \/ FetchBlank(n) PROVE Inv'
<1>0. /\ ctr[n] \in [Emails -> Nat] /\ gen[n] \in [Emails -> Nat]
      /\ hosts[n] \in SUBSET Tags /\ on[n] \in SUBSET (Tags \X Emails)
      /\ exp[n] \in [Emails -> Int]
  BY DEF Inv, CounterType, NodeType
<1>1. UNCHANGED <<ctr, gen, charged, base, hosts, on, exp>>
  BY DEF Fetch, FetchBlank, nodeVars, historyVars
<1>2. CASE Fetch(n)
  <2>1. PICK copy \in [Tags \X Emails -> 0..MaxGen] :
          /\ \A t \in Tags, e \in Emails :
               IF <<t, e>> \in on[n] THEN copy[<<t, e>>] <= ctr[n][e]
                                     ELSE copy[<<t, e>>] = 0
          /\ \A e \in Emails : OnNode(n, e) =>
               \E t \in hosts[n] : <<t, e>> \in on[n] /\ copy[<<t, e>>] = ctr[n][e]
          /\ snap' = [snap EXCEPT ![n] =
               [tags |-> hosts[n], on |-> on[n], copy |-> copy, exp |-> exp[n],
                gen |-> gen[n], top |-> ctr[n], live |-> Emails, none |-> FALSE]]
    BY <1>2 DEF Fetch
  <2> DEFINE s == [tags |-> hosts[n], on |-> on[n], copy |-> copy, exp |-> exp[n],
                   gen |-> gen[n], top |-> ctr[n], live |-> Emails, none |-> FALSE]
  <2>2. copy \in [Tags \X Emails -> Nat]
    BY <2>1
  <2>3. s \in Snapshot
    BY <1>0, <2>2 DEF Snapshot
  <2>4. CopiesInv(s)
    BY <1>0, <2>1 DEF CopiesInv, Reporting, OnNode
  <2>5. snap' = [snap EXCEPT ![n] = s] /\ s.gen = gen[n] /\ s.top = ctr[n]
    BY <2>1
  <2> HIDE DEF s
  <2> QED
    BY <1>1, <2>3, <2>4, <2>5, NewSnapKeepsInv
<1>3. CASE FetchBlank(n)
  <2> DEFINE s == [tags |-> {}, on |-> {}, copy |-> [p \in Tags \X Emails |-> 0],
                   exp |-> exp[n], gen |-> gen[n], top |-> ctr[n], live |-> Emails,
                   none |-> FALSE]
  <2>1. s \in Snapshot
    BY <1>0 DEF Snapshot
  <2>2. CopiesInv(s)
    BY DEF CopiesInv, Reporting
  <2>3. snap' = [snap EXCEPT ![n] = s] /\ s.gen = gen[n] /\ s.top = ctr[n]
    BY <1>3 DEF FetchBlank
  <2> HIDE DEF s
  <2> QED
    BY <1>1, <2>1, <2>2, <2>3, NewSnapKeepsInv
<1> QED
  BY <1>2, <1>3

\* A snapshot that is not merged leaves no trace.
LEMMA DropKeepsInv ==
    ASSUME Inv, NEW n \in Nodes, DropSnapshot(n) PROVE Inv'
<1>1. CounterType' /\ NodeType'
  BY DEF Inv, CounterType, NodeType, DropSnapshot, nodeVars, historyVars
<1>2. ASSUME NEW m \in Nodes PROVE SameSnap(m)
  <2>1. snap \in [Nodes -> {NoSnap} \cup Snapshot]
    BY DEF Inv, CounterType
  <2>2. CASE snap'[m] # NoSnap
    <3>1. snap'[m] = snap[m] /\ snap[m] \in Snapshot /\ snap[m] # NoSnap
      BY <2>1, <2>2 DEF DropSnapshot
    <3>2. snap[m].live \in SUBSET Emails /\ snap[m] = [snap[m] EXCEPT !.live = snap[m].live]
      BY <3>1 DEF Snapshot
    <3> QED
      BY <3>1, <3>2 DEF SameSnap
  <2> QED
    BY <2>2 DEF SameSnap
<1>3. \A m \in Nodes, e \in Emails : Resets(m, e)
  BY DEF Resets, DropSnapshot, nodeVars, historyVars
<1> QED
  BY <1>1, <1>2, <1>3, ResetKeepsInv

\* A snapshot that is unchanged, or loses live clients, is the same.
LEMMA SameButLive ==
    ASSUME NEW S, NEW n \in Nodes, snap \in [Nodes -> {NoSnap} \cup Snapshot],
           snap'[n] = snap[n] \/ (snap[n] # NoSnap /\ snap'[n] = [snap[n] EXCEPT !.live = @ \ S])
    PROVE  SameSnap(n) /\ snap'[n] \in {NoSnap} \cup Snapshot
<1>1. CASE snap[n] = NoSnap
  BY <1>1 DEF SameSnap
<1>2. CASE snap[n] # NoSnap
  <2>1. snap[n] \in Snapshot
    BY <1>2
  <2>2. /\ snap[n].live \in SUBSET Emails
        /\ snap[n] = [snap[n] EXCEPT !.live = snap[n].live]
        /\ \A L \in SUBSET Emails : [snap[n] EXCEPT !.live = L] \in Snapshot
    BY <2>1 DEF Snapshot
  <2>3. \E L \in SUBSET Emails : snap'[n] = [snap[n] EXCEPT !.live = L]
    BY <1>2, <2>2
  <2> QED
    BY <1>2, <2>2, <2>3 DEF SameSnap
<1> QED
  BY <1>1, <1>2

\* The resets of the master, and the deletion of a client.
LEMMA MasterResetKeepsInv ==
    ASSUME Inv,
           \/ \E e \in Emails : ResetClientTrafficByEmail(e)
           \/ UNCHANGED <<nodeVars, snap>> /\ \E e \in Emails : TrafficRemoved(e)
           \/ \E n \in Nodes, t \in Tags, e \in Emails : ResetClientTraffic(n, t, e)
           \/ ResetAllTraffics
    PROVE  Inv'
<1>0. /\ ctr \in [Nodes -> [Emails -> Nat]] /\ gen \in [Nodes -> [Emails -> Nat]]
      /\ charged \in [Nodes -> [Emails -> Nat]]
      /\ base \in [Nodes -> [Emails -> Nat \cup {None}]]
      /\ snap \in [Nodes -> {NoSnap} \cup Snapshot]
      /\ NodeType
  BY DEF Inv, CounterType
<1> DEFINE Reset ==
      /\ CounterType' /\ NodeType'
      /\ \A n \in Nodes : SameSnap(n)
      /\ \A n \in Nodes, e \in Emails : Resets(n, e)
<1>1. ASSUME NEW e \in Emails, ResetClientTrafficByEmail(e) PROVE Reset
  <2>1. NodeType' /\ UNCHANGED <<ctr, gen, snap>>
    BY <1>0, <1>1 DEF ResetClientTrafficByEmail, nodeVars, NodeType
  <2>2. CounterType'
    BY <1>0, <1>1, <2>1 DEF ResetClientTrafficByEmail, Zeroed, CounterType
  <2>3. \A n \in Nodes : SameSnap(n)
    BY <1>0, <2>1, SameButLive
  <2>4. \A n \in Nodes, f \in Emails : Resets(n, f)
    BY <1>0, <1>1, <2>1 DEF ResetClientTrafficByEmail, Zeroed, Resets
  <2> QED
    BY <2>1, <2>2, <2>3, <2>4
<1>2. ASSUME NEW e \in Emails, UNCHANGED <<nodeVars, snap>>, TrafficRemoved(e) PROVE Reset
  <2>1. NodeType' /\ UNCHANGED <<ctr, gen, snap>>
    BY <1>0, <1>2 DEF nodeVars, NodeType
  <2>2. CounterType'
    BY <1>0, <1>2, <2>1 DEF TrafficRemoved, CounterType
  <2>3. \A n \in Nodes : SameSnap(n)
    BY <1>0, <2>1, SameButLive
  <2>4. \A n \in Nodes, f \in Emails : Resets(n, f)
    BY <1>0, <1>2, <2>1 DEF TrafficRemoved, Resets
  <2> QED
    BY <2>1, <2>2, <2>3, <2>4
<1>3. ASSUME NEW n \in Nodes, NEW t \in Tags, NEW e \in Emails, ResetClientTraffic(n, t, e)
      PROVE  Reset
  <2>1. NodeType' /\ UNCHANGED gen
    BY <1>0, <1>3 DEF ResetClientTraffic, NodeType
  <2>2. ASSUME NEW m \in Nodes PROVE SameSnap(m) /\ snap'[m] \in {NoSnap} \cup Snapshot
    <3>1. snap'[m] = snap[m] \/ (snap[m] # NoSnap /\ snap'[m] = [snap[m] EXCEPT !.live = @ \ {e}])
      <4>1. CASE snap' = snap
        BY <4>1
      <4>2. CASE snap[n] # NoSnap /\ snap' = [snap EXCEPT ![n].live = @ \ {e}]
        BY <1>0, <4>2
      <4> QED
        BY <1>3, <4>1, <4>2 DEF ResetClientTraffic
    <3> QED
      BY <1>0, <3>1, SameButLive
  <2>3. snap' \in [Nodes -> {NoSnap} \cup Snapshot]
    <3>1. DOMAIN snap' = Nodes /\ snap' = [m \in Nodes |-> snap'[m]]
      BY <1>0, <1>3 DEF ResetClientTraffic
    <3> QED
      BY <2>2, <3>1
  <2>4. ctr' \in [Nodes -> [Emails -> Nat]]
        /\ \A m \in Nodes, f \in Emails : ctr'[m][f] \in {0, ctr[m][f]}
    <3>1. CASE ctr' = ctr
      BY <1>0, <3>1
    <3>2. CASE ctr' = [ctr EXCEPT ![n][e] = 0]
      BY <1>0, <3>2
    <3> QED
      BY <1>3, <3>1, <3>2 DEF ResetClientTraffic
  <2>5. charged' \in [Nodes -> [Emails -> Nat]] /\ base' \in [Nodes -> [Emails -> Nat \cup {None}]]
    BY <1>0, <1>3 DEF ResetClientTraffic, Zeroed
  <2>6. CounterType'
    BY <1>0, <2>1, <2>3, <2>4, <2>5 DEF CounterType
  <2>7. \A m \in Nodes, f \in Emails : Resets(m, f)
    BY <1>0, <1>3, <2>1, <2>4 DEF ResetClientTraffic, Zeroed, Resets
  <2> QED
    BY <2>1, <2>2, <2>6, <2>7
<1>4. ASSUME ResetAllTraffics PROVE Reset
  <2>1. NodeType' /\ UNCHANGED <<ctr, gen, snap, base>>
    BY <1>0, <1>4 DEF ResetAllTraffics, nodeVars, NodeType
  <2>2. CounterType'
    BY <1>0, <1>4, <2>1 DEF ResetAllTraffics, Zeroed, CounterType
  <2>3. \A n \in Nodes : SameSnap(n)
    BY <1>0, <2>1, SameButLive
  <2>4. \A n \in Nodes, f \in Emails : Resets(n, f)
    BY <1>0, <1>4, <2>1 DEF ResetAllTraffics, Zeroed, Resets
  <2> QED
    BY <2>1, <2>2, <2>3, <2>4
<1>5. Reset
  BY <1>1, <1>2, <1>3, <1>4
<1> QED
  BY <1>5, ResetKeepsInv
-----------------------------------------------------------------------------
(***************************************************************************)
(* The merge.                                                              *)
(***************************************************************************)

\* The share and the baseline of the merged node: either both are as they were
\* or reset, or the baseline is at the counter of the snapshot (or gone) and the
\* share is a part of the traffic that the snapshot has seen.
Merged(n, e, s) ==
    \/ charged'[n][e] \in {0, charged[n][e]} /\ base'[n][e] \in {None, base[n][e]}
    \/ /\ base'[n][e] \in {None, s.top[e]}
       /\ charged'[n][e] \in Nat /\ charged'[n][e] <= s.gen[e]

\* What a merge does to share and baseline of a pair of its node.
LEMMA MergeNumbers ==
    ASSUME Inv, NEW n \in Nodes, NEW s, s = snap[n], s # NoSnap,
           NEW dirty \in BOOLEAN, NEW made \in SUBSET Tags, NEW first, NEW e \in Emails,
           charged'[n][e] = ShareAfter(n, s, dirty, made, first, e),
           base'[n][e] = IF Orphaned(n, s, dirty, made, e) THEN None
                         ELSE BaseAfter(n, s, dirty, made, e)
    PROVE  Merged(n, e, s)
<1>0. /\ s \in Snapshot /\ CopiesInv(s) /\ FlightInv(n, e, s)
      /\ charged[n][e] \in Nat /\ base[n][e] \in Nat \cup {None}
  BY DEF Inv, CounterType
<1>1. s.top[e] \in Nat /\ s.gen[e] \in Nat
  BY <1>0 DEF Snapshot
<1>2. CASE Seeded(n, s, dirty, made, e) \/ Updated(n, s, made, e)
  <2>1. Reporting(s, e) # {}
    BY <1>2 DEF Seeded, Seeders, Updated
  <2>2. Canon(s, e) = s.top[e]
    BY <1>0, <2>1, CanonIsTop
  <2>3. base'[n][e] \in {None, s.top[e]}
    BY <1>2, <2>2 DEF BaseAfter
  <2>4. SeedOf(s, made, first[e], e) \in {0, s.top[e]}
    BY <2>2 DEF SeedOf
  <2>5. /\ Delta(n, s, e) \in Nat
        /\ charged[n][e] + Delta(n, s, e) <= s.gen[e]
    BY <1>0, <1>1, <2>2 DEF Delta, FlightInv, None
  <2>6. \/ charged'[n][e] = 0
        \/ charged'[n][e] = s.top[e]
        \/ charged'[n][e] = charged[n][e] + Delta(n, s, e)
    BY <1>2, <2>2, <2>4 DEF ShareAfter
  <2>7. charged'[n][e] \in Nat /\ charged'[n][e] <= s.gen[e]
    BY <1>0, <1>1, <2>5, <2>6 DEF FlightInv
  <2> QED
    BY <2>3, <2>7 DEF Merged
<1>3. CASE ~(Seeded(n, s, dirty, made, e) \/ Updated(n, s, made, e))
  <2>1. base'[n][e] \in {None, base[n][e]}
    BY <1>3 DEF BaseAfter
  <2>2. charged'[n][e] \in {0, charged[n][e]}
    BY <1>3 DEF ShareAfter
  <2> QED
    BY <2>1, <2>2 DEF Merged
<1> QED
  BY <1>2, <1>3

\* A merge keeps the invariant.
LEMMA MergeKeepsInv ==
    ASSUME Inv, NEW n \in Nodes, SetRemoteTraffic(n) PROVE Inv'
<1>0. /\ ctr \in [Nodes -> [Emails -> Nat]] /\ gen \in [Nodes -> [Emails -> Nat]]
      /\ charged \in [Nodes -> [Emails -> Nat]]
      /\ base \in [Nodes -> [Emails -> Nat \cup {None}]]
      /\ snap \in [Nodes -> {NoSnap} \cup Snapshot]
  BY DEF Inv, CounterType
<1>1. /\ UNCHANGED <<ctr, gen, hosts, on, exp>>
      /\ snap' = [snap EXCEPT ![n] = NoSnap] /\ snap[n] # NoSnap
  BY DEF SetRemoteTraffic, nodeVars
<1>2. PICK s : s = snap[n]
  OBVIOUS
<1>3. s \in Snapshot /\ s # NoSnap
  BY <1>0, <1>1, <1>2
<1>4. PICK dirty \in BOOLEAN, made \in SUBSET Tags, first \in [Emails -> Tags] :
        /\ base' = [m \in Nodes |-> [e \in Emails |->
             IF Orphaned(n, s, dirty, made, e) THEN None
             ELSE IF m = n THEN BaseAfter(n, s, dirty, made, e)
             ELSE base[m][e]]]
        /\ charged' = [m \in Nodes |-> [e \in Emails |->
             IF m = n THEN ShareAfter(n, s, dirty, made, first, e)
             ELSE IF Restarts(n, s, dirty, made, first, e) THEN 0
             ELSE charged[m][e]]]
  <2>1. PICK dirty \in BOOLEAN, made \in SUBSET Tags, first \in [Emails -> Tags] :
          MergeWith(n, dirty, made, first)
    BY DEF SetRemoteTraffic
  <2> QED  BY <1>2, <2>1 DEF MergeWith, MergeHistory
<1>5. ASSUME NEW e \in Emails PROVE Merged(n, e, s)
  BY <1>2, <1>3, <1>4, MergeNumbers
<1>6. ASSUME NEW m \in Nodes, NEW e \in Emails, m # n
      PROVE  charged'[m][e] \in {0, charged[m][e]} /\ base'[m][e] \in {None, base[m][e]}
  BY <1>4, <1>6
<1>7. CounterType' /\ NodeType'
  <2>1. ASSUME NEW m \in Nodes, NEW e \in Emails
        PROVE  charged'[m][e] \in Nat /\ base'[m][e] \in Nat \cup {None}
    <3>1. s.top[e] \in Nat
      BY <1>3 DEF Snapshot
    <3>2. charged[m][e] \in Nat /\ base[m][e] \in Nat \cup {None}
      BY <1>0
    <3>3. CASE m = n
      BY <1>5, <3>1, <3>2, <3>3 DEF Merged
    <3> QED
      BY <1>6, <3>2, <3>3
  <2>2. charged' \in [Nodes -> [Emails -> Nat]]
    BY <1>4, <2>1
  <2>3. base' \in [Nodes -> [Emails -> Nat \cup {None}]]
    BY <1>4, <2>1
  <2> QED
    BY <1>0, <1>1, <2>2, <2>3 DEF Inv, CounterType, NodeType
<1>8. ASSUME NEW m \in Nodes, NEW e \in Emails PROVE PairInv(m, e)'
  <2>1. CASE m # n
    <3>1. Resets(m, e)
      BY <1>1, <1>6, <2>1 DEF Resets
    <3> QED
      BY <1>7, <3>1, ResetKeepsPair
  <2>2. CASE m = n
    <3>1. CASE charged'[n][e] \in {0, charged[n][e]} /\ base'[n][e] \in {None, base[n][e]}
      <4>1. Resets(m, e)
        BY <1>1, <2>2, <3>1 DEF Resets
      <4> QED
        BY <1>7, <4>1, ResetKeepsPair
    <3>2. CASE /\ base'[n][e] \in {None, s.top[e]}
               /\ charged'[n][e] \in Nat /\ charged'[n][e] <= s.gen[e]
      <4>1. s.top[e] \in Nat /\ s.gen[e] \in Nat /\ ctr[n][e] \in Nat /\ gen[n][e] \in Nat
        BY <1>0, <1>3 DEF Snapshot
      <4>2. FlightInv(n, e, s) /\ PairInv(n, e)
        BY <1>2, <1>3 DEF Inv
      <4> QED
        BY <1>1, <2>2, <3>2, <4>1, <4>2 DEF FlightInv, PairInv, None
    <3> QED
      BY <1>5, <3>1, <3>2 DEF Merged
  <2> QED
    BY <2>1, <2>2
<1>9. ASSUME NEW m \in Nodes, snap'[m] # NoSnap
      PROVE  CopiesInv(snap'[m]) /\ \A e \in Emails : FlightInv(m, e, snap[m])'
  <2>1. m # n /\ snap'[m] = snap[m]
    BY <1>0, <1>1, <1>9
  <2>2. SameSnap(m)
    <3>1. snap \in [Nodes -> {NoSnap} \cup Snapshot]
      BY <1>0
    <3> QED
      BY <2>1, <3>1, SameButLive
  <2>3. \A e \in Emails : Resets(m, e)
    BY <1>1, <1>6, <2>1 DEF Resets
  <2> QED
    BY <1>7, <1>9, <2>2, <2>3, ResetKeepsFlight
<1> QED
  BY <1>7, <1>8, <1>9 DEF Inv, CopiesInv

-----------------------------------------------------------------------------
\* The numbers of every pair, and every snapshot in flight, keep the invariant.
(***************************************************************************)
(* The requests that change the clients of an inbound.                     *)
(***************************************************************************)

RequestType ==
    /\ req \in [Inbound -> Request \cup {NoReq}]
    /\ sticks \in [Emails -> {"no", "kept", "all"}]

\* The steps of a request that leave the rows alone.
QuietRequest ==
    \/ \E n \in Nodes, t \in Tags, e \in Emails : AddClient(n, t, e) \/ Detach(n, t, e)
    \/ \E e \in Emails : \E ib \in del[e].todo : DelInboundClientByEmail(e, ib)
    \/ \E ib \in Inbound : SaveFails(ib)

LEMMA QuietRequestKeeps ==
    ASSUME QuietRequest
    PROVE  UNCHANGED <<nodeVars, snap, central, conf, link, row, base, tomb, charged, local,
                       exact, since>>
<1>1. ASSUME NEW ib, NEW op, NEW e, NEW stat, ReadSettings(ib, op, e, stat)
      PROVE  UNCHANGED <<nodeVars, snap, central, conf, link, row, base, tomb, charged, local,
                         exact, since>>
  BY <1>1 DEF ReadSettings, historyVars
<1>2. ASSUME NEW n \in Nodes, NEW t \in Tags, NEW e \in Emails, AddClient(n, t, e) \/ Detach(n, t, e)
      PROVE  UNCHANGED <<nodeVars, snap, central, conf, link, row, base, tomb, charged, local,
                         exact, since>>
  BY <1>1, <1>2 DEF AddClient, Detach
<1>3. ASSUME NEW e \in Emails, NEW ib \in del[e].todo, DelInboundClientByEmail(e, ib)
      PROVE  UNCHANGED <<nodeVars, snap, central, conf, link, row, base, tomb, charged, local,
                         exact, since>>
  BY <1>1, <1>3 DEF DelInboundClientByEmail, historyVars
<1>4. ASSUME NEW ib \in Inbound, SaveFails(ib)
      PROVE  UNCHANGED <<nodeVars, snap, central, conf, link, row, base, tomb, charged, local,
                         exact, since>>
  BY <1>4 DEF SaveFails, historyVars
<1> QED
  BY <1>2, <1>3, <1>4 DEF QuietRequest

\* What a save does to the rows.
LEMMA SaveEffect ==
    ASSUME RequestType, NEW ib \in Inbound, SaveSettings(ib)
    PROVE  /\ req[ib] \in Request
           /\ UNCHANGED <<nodeVars, snap, since>>
           /\ \E e \in Emails : TrafficKept \/ TrafficRemoved(e) \/ AddClientStat(e, ib)
<1>1. req[ib] \in Request
  BY DEF RequestType, SaveSettings
<1>2. req[ib].client \in Emails
  BY <1>1 DEF Request
<1>3. \/ AddClientStat(req[ib].client, ib)
      \/ TrafficRemoved(req[ib].client)
      \/ TrafficKept
  BY DEF SaveSettings
<1> QED
  BY <1>1, <1>2, <1>3 DEF SaveSettings

LEMMA RequestStep == RequestType /\ [Next]_vars => RequestType'
<1> SUFFICES ASSUME RequestType, [Next]_vars PROVE RequestType'
  OBVIOUS
<1>1. CASE UNCHANGED <<req, sticks>>
  BY <1>1 DEF RequestType
<1>2. ASSUME NEW E, NoLonger(E) PROVE sticks' \in [Emails -> {"no", "kept", "all"}]
  BY <1>2 DEF NoLonger, RequestType
<1>3. ASSUME NEW ib \in Inbound, NEW op \in {"add", "detach", "delete"}, NEW e \in Emails,
             NEW stat \in BOOLEAN, ReadSettings(ib, op, e, stat)
      PROVE  RequestType'
  <2> DEFINE r == [op |-> op, client |-> e, stat |-> stat, lost |-> FALSE,
                   read |-> {f \in Emails : <<ib, f>> \in conf}]
  <2>1. r \in Request
    BY DEF Request
  <2>2. req' = [req EXCEPT ![ib] = r] /\ sticks' = sticks
    BY <1>3 DEF ReadSettings
  <2> HIDE DEF r
  <2> QED
    BY <2>1, <2>2 DEF RequestType
<1>4. ASSUME NEW n \in Nodes, NEW t \in Tags, NEW e \in Emails, AddClient(n, t, e) \/ Detach(n, t, e)
      PROVE  RequestType'
  <2>1. <<n, t>> \in Inbound
    BY DEF Inbound
  <2> QED
    BY <1>3, <1>4, <2>1 DEF AddClient, Detach
<1>5. ASSUME NEW e \in Emails, NEW ib \in del[e].todo, DelInboundClientByEmail(e, ib)
      PROVE  RequestType'
  <2>1. CASE ReadSettings(ib, "delete", e, HasRow(e) /\ ~UsedElsewhere(e, ib)) /\ ib \in central
    <3>1. CASE ib \in Inbound
      <4>1. (HasRow(e) /\ ~UsedElsewhere(e, ib)) \in BOOLEAN
        OBVIOUS
      <4> QED
        BY <1>3, <2>1, <3>1, <4>1
    <3>2. CASE ib \notin Inbound
      BY <2>1, <3>2 DEF ReadSettings, RequestType
    <3> QED
      BY <3>1, <3>2
  <2>2. CASE UNCHANGED <<req, sticks>>
    BY <1>1, <2>2
  <2> QED
    BY <1>5, <2>1, <2>2 DEF DelInboundClientByEmail
<1>6. ASSUME NEW ib \in Inbound, SaveSettings(ib) \/ SaveFails(ib) PROVE RequestType'
  <2>1. req' = [req EXCEPT ![ib] = NoReq]
    BY <1>6 DEF SaveSettings, SaveFails
  <2>2. \E E : NoLonger(E)
    BY <1>6 DEF SaveSettings, SaveFails
  <2>3. sticks' \in [Emails -> {"no", "kept", "all"}]
    BY <1>2, <2>2
  <2> QED
    BY <2>1, <2>3 DEF RequestType
<1>7. ASSUME NEW n \in Nodes, SetRemoteTraffic(n) PROVE RequestType'
  <2>1. PICK I : NewInbounds(I)
    BY <1>7 DEF SetRemoteTraffic
  <2>2. \E E : NoLonger(E)
    BY <1>7 DEF SetRemoteTraffic
  <2>3. sticks' \in [Emails -> {"no", "kept", "all"}]
    BY <1>2, <2>2
  <2>4. ASSUME NEW r \in Request PROVE [r EXCEPT !.lost = TRUE] \in Request
    BY DEF Request
  <2>5. req' = [ib \in Inbound |-> IF ib \in I /\ req[ib] # NoReq
                                    THEN [req[ib] EXCEPT !.lost = TRUE] ELSE req[ib]]
    BY <2>1 DEF NewInbounds
  <2>6. ASSUME NEW ib \in Inbound
        PROVE  (IF ib \in I /\ req[ib] # NoReq THEN [req[ib] EXCEPT !.lost = TRUE] ELSE req[ib])
                 \in Request \cup {NoReq}
    BY <2>4 DEF RequestType
  <2> QED
    BY <2>3, <2>5, <2>6 DEF RequestType
<1>8. ASSUME NEW e \in Emails,
             \/ DeleteFails(e) \/ TombstoneExpires(e) \/ DeleteFinish(e)
             \/ \E keepTraffic \in BOOLEAN : Delete(e, keepTraffic)
      PROVE  RequestType'
  <2>1. ASSUME NEW keepTraffic \in BOOLEAN, Delete(e, keepTraffic) PROVE RequestType'
    BY <2>1 DEF Delete, RequestType
  <2>2. CASE DeleteFails(e) \/ TombstoneExpires(e)
    <3>1. req' = req /\ \E E : NoLonger(E)
      BY <2>2 DEF DeleteFails, TombstoneExpires
    <3> QED
      BY <1>2, <3>1 DEF RequestType
  <2>3. CASE DeleteFinish(e)
    BY <1>1, <2>3 DEF DeleteFinish
  <2> QED
    BY <1>8, <2>1, <2>2, <2>3
<1>9. CASE Master
  <2>1. ASSUME NEW e \in Emails, AddLocalTraffic(e) \/ ResetClientTrafficByEmail(e) PROVE RequestType'
    BY <1>1, <2>1 DEF AddLocalTraffic, ResetClientTrafficByEmail
  <2>2. ASSUME NEW n \in Nodes, NEW t \in Tags, NEW e \in Emails, ResetClientTraffic(n, t, e)
        PROVE  RequestType'
    BY <1>1, <2>2 DEF ResetClientTraffic
  <2>3. CASE ResetAllTraffics
    BY <1>1, <2>3 DEF ResetAllTraffics
  <2> QED
    BY <1>4, <1>5, <1>6, <1>8, <1>9, <2>1, <2>2, <2>3 DEF Master
<1>10. ASSUME NEW n \in Nodes, Node(n) PROVE RequestType'
  <2>1. UNCHANGED <<req, sticks>>
    BY <1>10 DEF Node, NodeAddInbound, NodeDelInbound, NodeRename, NodeAttach, NodeDetach,
                 NodeEdit, Use, NodeReset, NodeRenew
  <2> QED
    BY <1>1, <2>1
<1>11. ASSUME NEW n \in Nodes, Fetch(n) \/ FetchBlank(n) \/ DropSnapshot(n) PROVE RequestType'
  BY <1>1, <1>11 DEF Fetch, FetchBlank, DropSnapshot
<1>12. CASE UNCHANGED vars
  BY <1>1, <1>12 DEF vars
<1> QED
  BY <1>7, <1>9, <1>10, <1>11, <1>12 DEF Next, Sync

LEMMA RequestsTyped == Spec => []RequestType
<1>1. Init => RequestType
  BY DEF Init, RequestType
<1> QED
  BY <1>1, RequestStep, PTL DEF Spec

LEMMA StepInv == RequestType /\ Inv /\ [Next]_vars => Inv'
<1> SUFFICES ASSUME RequestType, Inv, [Next]_vars PROVE Inv'
  OBVIOUS
<1>1. CASE UNCHANGED vars
  <2>1. NodeType' /\ Frame
    BY <1>1 DEF Inv, NodeType, Frame, vars, nodeVars, historyVars
  <2> QED
    BY <2>1, FrameKeepsInv
<1>2. ASSUME NEW n \in Nodes, Sync(n) PROVE Inv'
  BY <1>2, FetchKeepsInv, DropKeepsInv, MergeKeepsInv DEF Sync
<1>3. ASSUME NEW e \in Emails,
             AddLocalTraffic(e) \/ TombstoneExpires(e) \/ DeleteFails(e)
               \/ \E keepTraffic \in BOOLEAN : Delete(e, keepTraffic)
      PROVE  Inv'
  <2>1. NodeType' /\ Frame
    BY <1>3 DEF Inv, NodeType, Frame, AddLocalTraffic, TombstoneExpires, DeleteFails,
                Delete, nodeVars, historyVars
  <2> QED
    BY <2>1, FrameKeepsInv
<1>6. ASSUME NEW e \in Emails,
             TrafficKept \/ TrafficRemoved(e), UNCHANGED <<nodeVars, snap>>
      PROVE  Inv'
  <2>1. UNCHANGED <<nodeVars, snap>> /\ (TrafficKept \/ TrafficRemoved(e))
    BY <1>6
  <2>2. CASE TrafficKept
    <3>1. NodeType' /\ Frame
      BY <2>1, <2>2 DEF Inv, NodeType, Frame, TrafficKept, nodeVars
    <3> QED
      BY <3>1, FrameKeepsInv
  <2> QED
    BY <2>1, <2>2, MasterResetKeepsInv
<1>4. CASE QuietRequest
  <2>1. NodeType' /\ Frame
    BY <1>4, QuietRequestKeeps DEF Inv, NodeType, Frame, nodeVars
  <2> QED
    BY <2>1, FrameKeepsInv
<1>7. ASSUME NEW ib \in Inbound, SaveSettings(ib) PROVE Inv'
  <2>1. PICK e \in Emails : TrafficKept \/ TrafficRemoved(e) \/ AddClientStat(e, ib)
    BY <1>7, SaveEffect
  <2>2. UNCHANGED <<nodeVars, snap>>
    BY <1>7, SaveEffect
  <2>3. CASE AddClientStat(e, ib)
    <3>1. NodeType' /\ Frame
      BY <2>2, <2>3 DEF Inv, NodeType, Frame, AddClientStat, nodeVars
    <3> QED
      BY <3>1, FrameKeepsInv
  <2> QED
    BY <1>6, <2>1, <2>2, <2>3
<1>8. ASSUME NEW e \in Emails, DeleteFinish(e) PROVE Inv'
  BY <1>6, <1>8 DEF DeleteFinish
<1>5. CASE Master
  <2>1. CASE ResetAllTraffics
    BY <2>1, MasterResetKeepsInv
  <2>2. ASSUME NEW n \in Nodes, NEW t \in Tags, NEW e \in Emails, ResetClientTraffic(n, t, e)
        PROVE  Inv'
    BY <2>2, MasterResetKeepsInv
  <2>3. ASSUME NEW e \in Emails, ResetClientTrafficByEmail(e) PROVE Inv'
    BY <2>3, MasterResetKeepsInv
  <2>4. ASSUME NEW e \in Emails, \E keepTraffic \in BOOLEAN : Delete(e, keepTraffic)
        PROVE  Inv'
    BY <1>3, <2>4
  <2>6. ASSUME NEW e \in Emails,
               AddLocalTraffic(e) \/ TombstoneExpires(e) \/ DeleteFails(e) \/ DeleteFinish(e)
        PROVE  Inv'
    BY <1>3, <1>8, <2>6
  <2> QED
    BY <1>4, <1>5, <1>7, <2>1, <2>2, <2>3, <2>4, <2>6 DEF Master, QuietRequest
<1> QED
  BY <1>1, <1>2, <1>5, NodeKeepsInv DEF Next

\* The accounting invariant holds always.
THEOREM AccountingInvariant == Spec => []Inv
<1>1. Init => Inv
  BY InitInv
<1>2. RequestType /\ Inv /\ [Next]_vars => Inv'
  BY StepInv
<1> QED
  BY <1>1, <1>2, RequestsTyped, PTL DEF Spec

\* No traffic of a client on a node is charged to its row twice by
\* setRemoteTrafficLocked, for any number of nodes, inbounds and clients.
THEOREM NeverChargedTwice == Spec => []ChargedOnce
<1>1. Inv => ChargedOnce
  BY DEF Inv, PairInv, ChargedOnce
<1> QED
  BY <1>1, AccountingInvariant, PTL
-----------------------------------------------------------------------------
(***************************************************************************)
(* The tables of the master keep their shape.                              *)
(***************************************************************************)

Run == [active : BOOLEAN, keep : BOOLEAN, todo : SUBSET Inbound]

TableType ==
    /\ central \in SUBSET Inbound
    /\ conf \in SUBSET (Inbound \X Emails)
    /\ link \in SUBSET (Inbound \X Emails)
    /\ tomb \in SUBSET Emails
    /\ del \in [Emails -> Run]

RowType == row \in [Emails -> {NoRow} \cup Row]

HistoryType ==
    /\ local \in [Emails -> Nat]
    /\ exact \in [Nodes -> [Emails -> BOOLEAN]]
    /\ since \in [Nodes -> [Emails -> Int]]

TypeInv == Inv /\ RequestType /\ TableType /\ RowType /\ HistoryType

LEMMA MergeChoices ==
    ASSUME Inv, NEW n \in Nodes, SetRemoteTraffic(n)
    PROVE  /\ snap[n] \in Snapshot /\ snap[n] # NoSnap
           /\ snap' = [snap EXCEPT ![n] = NoSnap]
           /\ UNCHANGED <<nodeVars, tomb>>
           /\ \E dirty \in BOOLEAN, made \in SUBSET Tags, first \in [Emails -> Tags] :
                MergeWith(n, dirty, made, first)
<1>1. snap[n] \in Snapshot /\ snap[n] # NoSnap
  BY DEF Inv, CounterType, SetRemoteTraffic
<1> QED
  BY <1>1 DEF SetRemoteTraffic

LEMMA InitTypeInv == Init => TypeInv
<1> SUFFICES ASSUME Init PROVE TypeInv
  OBVIOUS
<1>1. Inv /\ RequestType
  BY InitInv DEF Init, RequestType
<1>2. TableType
  BY DEF Init, TableType, NoDel, Run
<1>3. RowType
  <2>1. [used |-> 0, home |-> LocalIb, exp |-> -1] \in Row
    BY DEF Row
  <2> QED
    BY <2>1 DEF Init, RowType
<1>4. HistoryType
  BY DEF Init, HistoryType
<1> QED
  BY <1>1, <1>2, <1>3, <1>4 DEF TypeInv

\* What a merge writes to the row of a client is a row.
LEMMA RowAfterIsRow ==
    ASSUME Inv, RowType, NEW n \in Nodes, snap[n] # NoSnap, NEW dirty \in BOOLEAN,
           NEW made \in SUBSET Tags, NEW first \in [Emails -> Tags], NEW e \in Emails
    PROVE  RowAfter(n, snap[n], dirty, made, first, e) \in {NoRow} \cup Row
<1> DEFINE s == snap[n]
           r == RowAfterSweep(n, s, dirty, e)
<1>0. s \in Snapshot /\ CopiesInv(s) /\ s.exp[e] \in Int /\ s.top[e] \in Nat
  <2>1. s \in Snapshot /\ CopiesInv(s)
    BY DEF Inv, CounterType
  <2> QED
    BY <2>1 DEF Snapshot
<1>1. row[e] \in {NoRow} \cup Row /\ base[n][e] \in Nat \cup {None}
  BY DEF Inv, CounterType, RowType
<1>2. r \in {NoRow} \cup Row
  <2>1. CASE HomeSwept(n, s, dirty, e)
    <3>1. row[e] \in Row
      BY <1>1, <2>1 DEF HomeSwept, HasRow
    <3>2. [row[e] EXCEPT !.home = GoneIb] \in Row
      BY <3>1 DEF Row
    <3> QED
      BY <3>1, <3>2 DEF RowAfterSweep
  <2>2. CASE ~HomeSwept(n, s, dirty, e)
    BY <1>1, <2>2 DEF RowAfterSweep
  <2> QED
    BY <2>1, <2>2
<1> HIDE DEF s, r
<1>3. ASSUME Seeded(n, s, dirty, made, e) \/ Updated(n, s, made, e)
      PROVE  Canon(s, e) \in Nat
  <2>1. Reporting(s, e) # {}
    BY <1>3 DEF Seeded, Seeders, Updated
  <2> QED
    BY <1>0, <2>1, CanonIsTop
<1>4. RowAfterStats(n, s, dirty, made, first, e) \in {NoRow} \cup Row
  <2>1. CASE Seeded(n, s, dirty, made, e)
    <3>1. SeedOf(s, made, first[e], e) \in Nat
      BY <1>3, <2>1 DEF SeedOf
    <3>2. <<n, first[e]>> \in Inbound
      BY DEF Inbound
    <3>3. [used |-> SeedOf(s, made, first[e], e), home |-> <<n, first[e]>>, exp |-> s.exp[e]] \in Row
      BY <1>0, <3>1, <3>2 DEF Row
    <3> QED
      BY <2>1, <3>3 DEF RowAfterStats
  <2>2. CASE ~Seeded(n, s, dirty, made, e) /\ (~Updated(n, s, made, e) \/ r = NoRow)
    BY <1>2, <2>2 DEF RowAfterStats, r
  <2>3. CASE ~Seeded(n, s, dirty, made, e) /\ Updated(n, s, made, e) /\ r # NoRow
    <3>1. r \in Row /\ Canon(s, e) \in Nat
      BY <1>2, <1>3, <2>3
    <3>2. Delta(n, s, e) \in Nat
      BY <1>1, <3>1 DEF Delta, None
    <3>3. MergeActivationExpiry(r.exp, s.exp[e]) \in Int
      BY <1>0, <3>1 DEF MergeActivationExpiry, Row
    <3>4. /\ [r EXCEPT !.used = Canon(s, e), !.exp = s.exp[e]] \in Row
          /\ [r EXCEPT !.used = @ + Delta(n, s, e),
                       !.exp = MergeActivationExpiry(@, s.exp[e])] \in Row
      <4>1. ASSUME NEW u \in Nat, NEW x \in Int PROVE [r EXCEPT !.used = u, !.exp = x] \in Row
        BY <3>1 DEF Row
      <4>2. r.used + Delta(n, s, e) \in Nat
        BY <3>1, <3>2 DEF Row
      <4> QED
        BY <1>0, <3>1, <3>3, <4>1, <4>2
    <3> QED
      BY <2>3, <3>4 DEF RowAfterStats, r
  <2> QED
    BY <2>1, <2>2, <2>3
<1> QED
  BY <1>4 DEF RowAfter, s

\* The merge writes inbounds and clients that the snapshot reports.
LEMMA MergeKeepsTables ==
    ASSUME TypeInv, NEW n \in Nodes, SetRemoteTraffic(n)
    PROVE  TableType' /\ RowType' /\ HistoryType'
<1>0. snap[n] \in Snapshot /\ snap[n] # NoSnap /\ UNCHANGED tomb
  BY MergeChoices DEF TypeInv
<1>d. del' \in [Emails -> Run]
  <2>1. PICK I : NewInbounds(I)
    BY DEF SetRemoteTraffic
  <2>2. ASSUME NEW d \in Run PROVE [d EXCEPT !.todo = @ \ I] \in Run
    BY DEF Run
  <2>3. \A e \in Emails : del[e] \in Run
    BY DEF TypeInv, TableType
  <2>4. del' = [e \in Emails |-> [del[e] EXCEPT !.todo = @ \ I]]
    BY <2>1 DEF NewInbounds
  <2> QED
    BY <2>2, <2>3, <2>4
<1>1. PICK dirty \in BOOLEAN, made \in SUBSET Tags, first \in [Emails -> Tags] :
        MergeWith(n, dirty, made, first)
  BY MergeChoices DEF TypeInv
<1> DEFINE s == snap[n]
<1>2. s.tags \in SUBSET Tags /\ s.on \in SUBSET (Tags \X Emails) /\ s.gen \in [Emails -> Nat]
  BY <1>0 DEF Snapshot
<1>3. RowType'
  <2>1. \A e \in Emails : RowAfter(n, s, dirty, made, first, e) \in {NoRow} \cup Row
    BY <1>0, RowAfterIsRow DEF TypeInv
  <2>2. row' = [e \in Emails |-> RowAfter(n, s, dirty, made, first, e)]
    BY <1>1 DEF MergeWith
  <2> HIDE DEF s
  <2> QED
    BY <2>1, <2>2 DEF RowType
<1>4. TableType'
  <2>1. central' \in SUBSET Inbound
    <3>1. {n} \X made \in SUBSET Inbound
      BY DEF Inbound
    <3> QED
      BY <1>1, <3>1 DEF MergeWith, TypeInv, TableType
  <2>2. \A C \in SUBSET s.on : {<<<<n, p[1]>>, p[2]>> : p \in C} \in SUBSET (Inbound \X Emails)
    BY <1>2 DEF Inbound
  <2>3. conf' \in SUBSET (Inbound \X Emails)
    <3> DEFINE C == {q \in s.on : q[1] \in made \/ (q[1] \in Known(n, s) /\ q[2] \notin tomb)}
    <3>1. {<<<<n, p[1]>>, p[2]>> : p \in C} \in SUBSET (Inbound \X Emails)
      BY <2>2
    <3>2. \/ conf' = conf
          \/ conf' = {p \in conf : p[1] \notin {n} \X (Known(n, s) \cup Swept(n, s, dirty))}
                     \cup {<<<<n, p[1]>>, p[2]>> : p \in C}
      BY <1>1 DEF MergeWith, ConfAfter
    <3> HIDE DEF C
    <3> QED
      BY <3>1, <3>2 DEF TypeInv, TableType
  <2>4. link' \in SUBSET (Inbound \X Emails)
    <3> DEFINE C == {q \in s.on : q[1] \in Mapped(n, s, made) /\ q[2] \notin tomb}
    <3>1. {<<<<n, p[1]>>, p[2]>> : p \in C} \in SUBSET (Inbound \X Emails)
      BY <2>2
    <3>2. \/ link' = link
          \/ link' = {p \in link : p[1] \notin {n} \X (Mapped(n, s, made) \cup Swept(n, s, dirty))}
                     \cup {<<<<n, p[1]>>, p[2]>> : p \in C}
      BY <1>1 DEF MergeWith, LinkAfter
    <3> HIDE DEF C
    <3> QED
      BY <3>1, <3>2 DEF TypeInv, TableType
  <2> QED
    BY <1>0, <1>d, <2>1, <2>3, <2>4 DEF TypeInv, TableType
<1>5. HistoryType'
  <2>0. MergeHistory(n, s, dirty, made, first)
    BY <1>1 DEF MergeWith
  <2>1. local' \in [Emails -> Nat]
    BY <2>0 DEF MergeHistory, TypeInv, HistoryType
  <2>2. exact' \in [Nodes -> [Emails -> BOOLEAN]]
    <3>1. exact' = [m \in Nodes |-> [e \in Emails |->
            IF Restarts(n, s, dirty, made, first, e) \/ (m = n /\ ~exact[m][e])
              THEN m = n /\ BecomesExact(n, s, dirty, made, first, e)
            ELSE exact[m][e] /\ (m = n => Reporting(s, e) # {} \/ s.tags = {})]]
      BY <2>0 DEF MergeHistory
    <3>2. \A m \in Nodes, e \in Emails : exact'[m][e] \in BOOLEAN
      BY <3>1
    <3> QED
      BY <3>1, <3>2
  <2>3. since' \in [Nodes -> [Emails -> Int]]
    <3>1. ASSUME NEW e \in Emails, BecomesExact(n, s, dirty, made, first, e)
          PROVE  s.gen[e] - ShareAfter(n, s, dirty, made, first, e) \in Int
      <4>1. charged'[n][e] = ShareAfter(n, s, dirty, made, first, e)
        BY <2>0 DEF MergeHistory
      <4>2. charged'[n][e] \in Nat
        BY MergeKeepsInv DEF TypeInv, Inv, CounterType
      <4>3. s.gen[e] \in Nat
        BY <1>2
      <4> QED
        BY <4>1, <4>2, <4>3
    <3>2. since' = [since EXCEPT ![n] = [e \in Emails |->
            IF BecomesExact(n, s, dirty, made, first, e)
              THEN s.gen[e] - ShareAfter(n, s, dirty, made, first, e)
              ELSE since[n][e]]]
      BY <2>0 DEF MergeHistory
    <3> HIDE DEF s
    <3> QED
      BY <3>1, <3>2 DEF TypeInv, HistoryType
  <2> QED
    BY <2>1, <2>2, <2>3 DEF HistoryType
<1> QED
  BY <1>3, <1>4, <1>5
\* The tables' row of a client that is set back, goes, or takes local traffic.
LEMMA RowChangesKeepType ==
    ASSUME RowType, NEW e \in Emails
    PROVE  /\ HasRow(e) => row[e] \in Row /\ [row[e] EXCEPT !.used = 0] \in Row
           /\ AddLocalTraffic(e) => RowType'
           /\ TrafficRemoved(e) => RowType'
           /\ \A E \in SUBSET Emails : Zeroed(E) => RowType'
<1>1. ASSUME NEW f \in Emails, HasRow(f)
      PROVE  row[f] \in Row /\ [row[f] EXCEPT !.used = 0] \in Row
  <2>1. row[f] \in Row
    BY <1>1 DEF RowType, HasRow
  <2> QED
    BY <2>1 DEF Row
<1>2. ASSUME AddLocalTraffic(e) PROVE RowType'
  <2>1. row[e] \in Row
    BY <1>1, <1>2 DEF AddLocalTraffic
  <2> DEFINE r == [row[e] EXCEPT !.used = @ + 1, !.exp = IF @ < 0 THEN 1 ELSE @]
  <2>2. r \in Row
    <3>1. row[e].used + 1 \in Nat /\ (IF row[e].exp < 0 THEN 1 ELSE row[e].exp) \in Int
      BY <2>1 DEF Row
    <3>2. ASSUME NEW u \in Nat, NEW x \in Int PROVE [row[e] EXCEPT !.used = u, !.exp = x] \in Row
      BY <2>1 DEF Row
    <3> QED
      BY <3>1, <3>2
  <2>3. row' = [row EXCEPT ![e] = r]
    BY <1>2 DEF AddLocalTraffic, RowType
  <2> HIDE DEF r
  <2> QED
    BY <2>2, <2>3 DEF RowType
<1>3. ASSUME TrafficRemoved(e) PROVE RowType'
  BY <1>3 DEF RowType, TrafficRemoved
<1>4. ASSUME NEW E \in SUBSET Emails, Zeroed(E) PROVE RowType'
  <2>1. row' = [f \in Emails |-> IF f \in E /\ HasRow(f) THEN [row[f] EXCEPT !.used = 0]
                                 ELSE row[f]]
    BY <1>4 DEF Zeroed
  <2>2. \A f \in Emails : row'[f] \in {NoRow} \cup Row
    BY <1>1, <2>1 DEF RowType
  <2> QED
    BY <2>1, <2>2 DEF RowType
<1> QED
  BY <1>1, <1>2, <1>3, <1>4

LEMMA MasterKeepsTables ==
    ASSUME TypeInv, Master PROVE TableType' /\ RowType' /\ HistoryType'
<1>0. TableType /\ RowType /\ HistoryType
  BY DEF TypeInv
<1>1. ASSUME NEW e \in Emails, AddLocalTraffic(e) PROVE TableType' /\ RowType' /\ HistoryType'
  <2>1. TableType'
    BY <1>0, <1>1 DEF AddLocalTraffic, TableType
  <2>2. HistoryType'
    BY <1>0, <1>1 DEF AddLocalTraffic, HistoryType
  <2> QED
    BY <1>0, <1>1, <2>1, <2>2, RowChangesKeepType
<1>2. ASSUME NEW E \in SUBSET Emails, Zeroed(E), exact' \in [Nodes -> [Emails -> BOOLEAN]],
             UNCHANGED <<central, conf, link, tomb, del, since>>
      PROVE  TableType' /\ RowType' /\ HistoryType'
  <2>1. TableType'
    BY <1>0, <1>2 DEF TableType
  <2>2. HistoryType'
    BY <1>0, <1>2 DEF HistoryType, Zeroed
  <2>3. RowType'
    <3>1. CASE Emails = {}
      BY <1>2, <3>1 DEF Zeroed, RowType
    <3>2. CASE \E e \in Emails : TRUE
      BY <1>0, <1>2, <3>2, RowChangesKeepType
    <3> QED
      BY <3>1, <3>2
  <2> QED
    BY <2>1, <2>2, <2>3
<1>3. ASSUME NEW e \in Emails, ResetClientTrafficByEmail(e)
      PROVE  TableType' /\ RowType' /\ HistoryType'
  <2>1. exact' \in [Nodes -> [Emails -> BOOLEAN]]
    BY <1>0, <1>3 DEF ResetClientTrafficByEmail, HistoryType
  <2> QED
    BY <1>2, <1>3, <2>1 DEF ResetClientTrafficByEmail
<1>4. ASSUME NEW n \in Nodes, NEW t \in Tags, NEW e \in Emails, ResetClientTraffic(n, t, e)
      PROVE  TableType' /\ RowType' /\ HistoryType'
  <2>1. exact' \in [Nodes -> [Emails -> BOOLEAN]]
    BY <1>0, <1>4 DEF ResetClientTraffic, HistoryType
  <2> QED
    BY <1>2, <1>4, <2>1 DEF ResetClientTraffic
<1>5. ASSUME ResetAllTraffics PROVE TableType' /\ RowType' /\ HistoryType'
  <2>1. exact' \in [Nodes -> [Emails -> BOOLEAN]]
    BY <1>5 DEF ResetAllTraffics
  <2> QED
    BY <1>2, <1>5, <2>1 DEF ResetAllTraffics
<1>6. CASE QuietRequest
  <2>1. UNCHANGED <<central, conf, link, tomb, row, local, exact, since>>
    BY <1>6, QuietRequestKeeps
  <2>2. del' \in [Emails -> Run]
    <3>1. ASSUME NEW e \in Emails, NEW ib \in del[e].todo, DelInboundClientByEmail(e, ib)
          PROVE  del' \in [Emails -> Run]
      <4>1. del[e] \in Run
        BY <1>0 DEF TableType
      <4>2. [del[e] EXCEPT !.todo = @ \ {ib}] \in Run
        BY <4>1 DEF Run
      <4>3. del' = del \/ del' = [del EXCEPT ![e] = [del[e] EXCEPT !.todo = @ \ {ib}]]
        BY <1>0, <3>1 DEF DelInboundClientByEmail, ReadSettings, TableType
      <4> QED
        BY <1>0, <4>2, <4>3 DEF TableType
    <3>2. ASSUME NEW ib \in Inbound, SaveFails(ib) PROVE del' \in [Emails -> Run]
      <4>1. NoDel \in Run
        BY DEF NoDel, Run
      <4>2. del' = del \/ \E e : del' = [del EXCEPT ![e] = NoDel]
        BY <3>2 DEF SaveFails
      <4> QED
        BY <1>0, <4>1, <4>2 DEF TableType
    <3>3. ASSUME NEW n \in Nodes, NEW t \in Tags, NEW e \in Emails, AddClient(n, t, e) \/ Detach(n, t, e)
          PROVE  del' \in [Emails -> Run]
      BY <1>0, <3>3 DEF AddClient, Detach, ReadSettings, TableType
    <3> QED
      BY <1>6, <3>1, <3>2, <3>3 DEF QuietRequest
  <2> QED
    BY <1>0, <2>1, <2>2 DEF TableType, RowType, HistoryType
<1>8. ASSUME NEW e \in Emails, NEW keepTraffic \in BOOLEAN, Delete(e, keepTraffic)
      PROVE  TableType' /\ RowType' /\ HistoryType'
  <2> DEFINE ibs == {p[1] : p \in {q \in link : q[2] = e}}
  <2>1. ibs \in SUBSET Inbound
    BY <1>0 DEF TableType
  <2>2. del' = [del EXCEPT ![e] = [active |-> TRUE, keep |-> keepTraffic, todo |-> ibs]]
    BY <1>8 DEF Delete
  <2> HIDE DEF ibs
  <2>3. del' \in [Emails -> Run]
    BY <1>0, <2>1, <2>2 DEF TableType, Run
  <2>4. TableType'
    BY <1>0, <1>8, <2>3 DEF Delete, TableType
  <2> QED
    BY <1>0, <1>8, <2>4 DEF Delete, RowType, HistoryType, historyVars
<1>9. ASSUME NEW e \in Emails, TrafficKept \/ TrafficRemoved(e), UNCHANGED since
      PROVE  RowType' /\ HistoryType'
  <2>1. CASE TrafficKept
    BY <1>0, <1>9, <2>1 DEF TrafficKept, RowType, HistoryType
  <2>2. CASE TrafficRemoved(e)
    <3>1. HistoryType'
      BY <1>0, <1>9, <2>2 DEF TrafficRemoved, HistoryType
    <3> QED
      BY <1>0, <2>2, <3>1, RowChangesKeepType
  <2> QED
    BY <1>9, <2>1, <2>2
<1>10. ASSUME NEW ib \in Inbound, SaveSettings(ib) PROVE TableType' /\ RowType' /\ HistoryType'
  <2>0. RequestType
    BY DEF TypeInv
  <2>1. req[ib] \in Request
    BY <1>10, <2>0, SaveEffect
  <2>2. SavedClients(req[ib]) \in SUBSET Emails /\ req[ib].client \in Emails
    BY <2>1 DEF SavedClients, Request
  <2>3. /\ central' = central \cup {ib}
        /\ conf' = {p \in conf : p[1] # ib} \cup ({ib} \X SavedClients(req[ib]))
        /\ link' = {p \in link : p[1] # ib} \cup ({ib} \X SavedClients(req[ib]))
        /\ tomb' = tomb
    BY <1>10 DEF SaveSettings
  <2>4. {ib} \X SavedClients(req[ib]) \in SUBSET (Inbound \X Emails)
    BY <2>2
  <2>5. /\ central' \in SUBSET Inbound
        /\ conf' \in SUBSET (Inbound \X Emails) /\ link' \in SUBSET (Inbound \X Emails)
    BY <1>0, <2>3, <2>4 DEF TableType
  <2>6. del' \in [Emails -> Run]
    <3> DEFINE d == [del[req[ib].client] EXCEPT !.todo = @ \ {ib}]
    <3>1. del[req[ib].client] \in Run
      BY <1>0, <2>2 DEF TableType
    <3>2. d \in Run
      BY <3>1 DEF Run
    <3>3. del' = del \/ del' = [del EXCEPT ![req[ib].client] = d]
      BY <1>0, <1>10, <2>2 DEF SaveSettings, TableType
    <3> HIDE DEF d
    <3> QED
      BY <1>0, <3>2, <3>3 DEF TableType
  <2>7. TableType'
    BY <1>0, <2>3, <2>5, <2>6 DEF TableType
  <2>8. PICK e \in Emails : TrafficKept \/ TrafficRemoved(e) \/ AddClientStat(e, ib)
    BY <1>10, <2>0, SaveEffect
  <2>9. since' = since
    BY <1>10, <2>0, SaveEffect
  <2>10. CASE AddClientStat(e, ib)
    <3>1. [used |-> 0, home |-> ib, exp |-> -1] \in Row
      BY DEF Row
    <3>2. RowType'
      BY <1>0, <2>10, <3>1 DEF AddClientStat, RowType
    <3> QED
      BY <1>0, <2>7, <2>9, <2>10, <3>2 DEF AddClientStat, HistoryType
  <2> QED
    BY <1>9, <2>7, <2>8, <2>9, <2>10
<1>11. ASSUME NEW e \in Emails, DeleteFinish(e) PROVE TableType' /\ RowType' /\ HistoryType'
  <2>1. NoDel \in Run
    BY DEF NoDel, Run
  <2>2. TableType'
    BY <1>0, <1>11, <2>1 DEF DeleteFinish, TableType
  <2> QED
    BY <1>9, <1>11, <2>2 DEF DeleteFinish
<1>12. ASSUME NEW e \in Emails, DeleteFails(e) PROVE TableType' /\ RowType' /\ HistoryType'
  <2>1. NoDel \in Run
    BY DEF NoDel, Run
  <2>2. TableType'
    BY <1>0, <1>12, <2>1 DEF DeleteFails, TableType
  <2> QED
    BY <1>0, <1>12, <2>2 DEF DeleteFails, RowType, HistoryType, historyVars
<1>13. ASSUME NEW e \in Emails, TombstoneExpires(e) PROVE TableType' /\ RowType' /\ HistoryType'
  BY <1>0, <1>13 DEF TombstoneExpires, TableType, RowType, HistoryType, historyVars
<1> QED
  BY <1>1, <1>3, <1>4, <1>5, <1>6, <1>8, <1>10, <1>11, <1>12, <1>13 DEF Master, QuietRequest

LEMMA NodeKeepsTables ==
    ASSUME TypeInv, NEW n \in Nodes, Node(n) PROVE TableType' /\ RowType' /\ HistoryType'
<1>0. TableType /\ RowType /\ HistoryType
  BY DEF TypeInv
<1>1. ASSUME NEW E, CounterFalls(n, E),
             UNCHANGED <<central, conf, link, row, tomb, del, local, since>>
      PROVE  TableType' /\ RowType' /\ HistoryType'
  <2>1. exact' = [exact EXCEPT ![n] = [e \in Emails |-> exact[n][e] /\ e \notin E]]
    BY <1>1 DEF CounterFalls
  <2>2. \A e \in Emails : (exact[n][e] /\ e \notin E) \in BOOLEAN
    OBVIOUS
  <2>3. exact' \in [Nodes -> [Emails -> BOOLEAN]]
    BY <1>0, <2>1, <2>2 DEF HistoryType
  <2> QED
    BY <1>0, <1>1, <2>3 DEF TableType, RowType, HistoryType
<1>2. ASSUME NEW H, NEW C, NodeEdit(n, H, C) PROVE TableType' /\ RowType' /\ HistoryType'
  BY <1>1, <1>2 DEF NodeEdit
<1>3. ASSUME NEW e \in Emails, NodeReset(n, e) \/ NodeRenew(n, e)
      PROVE  TableType' /\ RowType' /\ HistoryType'
  BY <1>1, <1>3 DEF NodeReset, NodeRenew
<1>4. ASSUME NEW e \in Emails, Use(n, e) PROVE TableType' /\ RowType' /\ HistoryType'
  BY <1>0, <1>4 DEF Use, TableType, RowType, HistoryType, historyVars
<1> QED
  BY <1>2, <1>3, <1>4 DEF Node, NodeAddInbound, NodeDelInbound, NodeRename, NodeAttach, NodeDetach

LEMMA TypeInvStep == TypeInv /\ [Next]_vars => TypeInv'
<1> SUFFICES ASSUME TypeInv, [Next]_vars PROVE TypeInv'
  OBVIOUS
<1>1. Inv' /\ RequestType'
  BY StepInv, RequestStep DEF TypeInv
<1>2. CASE UNCHANGED vars
  BY <1>1, <1>2 DEF TypeInv, TableType, RowType, HistoryType, vars, historyVars
<1>3. ASSUME NEW n \in Nodes, Fetch(n) \/ FetchBlank(n) \/ DropSnapshot(n)
      PROVE  TableType' /\ RowType' /\ HistoryType'
  BY <1>3 DEF TypeInv, TableType, RowType, HistoryType, Fetch, FetchBlank, DropSnapshot, historyVars
<1>4. CASE Next
  BY <1>1, <1>3, <1>4, MergeKeepsTables, MasterKeepsTables, NodeKeepsTables DEF Next, Sync, TypeInv
<1> QED
  BY <1>2, <1>4

LEMMA TypeInvariant == Spec => []TypeInv
BY InitTypeInv, TypeInvStep, PTL DEF Spec

\* The tables of the master, the nodes and the snapshots keep their shape.
THEOREM TypeCorrect == Spec => []TypeOK
<1>1. TypeInv => TypeOK
  BY DEF TypeInv, Inv, CounterType, NodeType, RequestType, TableType, RowType, HistoryType,
     TypeOK, Run
<1> QED
  BY <1>1, TypeInvariant, PTL
-----------------------------------------------------------------------------
(***************************************************************************)
(* What a merge may never do to a deadline.                                *)
(***************************************************************************)

\* A row that a merge leaves keeps an activated deadline activated.
LEMMA MergeKeepsActivation ==
    ASSUME TypeInv, NEW n \in Nodes, snap[n] # NoSnap, NEW dirty \in BOOLEAN,
           NEW made \in SUBSET Tags, NEW first \in [Emails -> Tags], NEW e \in Emails,
           HasRow(e), row[e].exp > 0, RowAfter(n, snap[n], dirty, made, first, e) # NoRow
    PROVE  RowAfter(n, snap[n], dirty, made, first, e).exp > 0
<1> DEFINE s == snap[n]
           r == RowAfterSweep(n, s, dirty, e)
<1>1. s.exp[e] \in Int
  <2>1. s \in Snapshot
    BY DEF TypeInv, Inv, CounterType
  <2> QED
    BY <2>1 DEF Snapshot
<1>2. row[e] \in Row /\ row[e].exp \in Int
  <2>1. row[e] \in Row
    BY DEF TypeInv, RowType, HasRow
  <2> QED
    BY <2>1 DEF Row
<1>3. r = NoRow \/ (r \in Row /\ r.exp = row[e].exp)
  <2>1. [row[e] EXCEPT !.home = GoneIb] \in Row /\ [row[e] EXCEPT !.home = GoneIb].exp = row[e].exp
    BY <1>2 DEF Row
  <2> QED
    BY <1>2, <2>1 DEF RowAfterSweep
<1>4. RowAfter(n, s, dirty, made, first, e) = RowAfterStats(n, s, dirty, made, first, e)
  BY DEF RowAfter
<1>5. ~Seeded(n, s, dirty, made, e)
  BY DEF Seeded, Seeders
<1> HIDE DEF s, r
<1>6. CASE ~Updated(n, s, made, e) \/ r = NoRow
  <2>1. RowAfterStats(n, s, dirty, made, first, e) = r
    BY <1>5, <1>6 DEF RowAfterStats, r
  <2> QED
    BY <1>3, <1>4, <2>1 DEF s
<1>7. CASE Updated(n, s, made, e) /\ r # NoRow
  <2>1. ASSUME NEW u, NEW x PROVE [r EXCEPT !.used = u, !.exp = x].exp = x
    BY <1>3, <1>7 DEF Row
  <2>2. CASE NodeClientRenewed(n, s, e)
    <3>1. s.exp[e] > row[e].exp
      BY <2>2 DEF NodeClientRenewed
    <3>2. RowAfterStats(n, s, dirty, made, first, e) = [r EXCEPT !.used = Canon(s, e), !.exp = s.exp[e]]
      BY <1>5, <1>7, <2>2 DEF RowAfterStats, r
    <3>3. s.exp[e] > 0
      BY <1>1, <1>2, <3>1
    <3> QED
      BY <1>4, <2>1, <3>2, <3>3 DEF s
  <2>3. CASE ~NodeClientRenewed(n, s, e)
    <3>1. RowAfterStats(n, s, dirty, made, first, e) =
            [r EXCEPT !.used = @ + Delta(n, s, e), !.exp = MergeActivationExpiry(@, s.exp[e])]
      BY <1>5, <1>7, <2>3 DEF RowAfterStats, r
    <3>2. MergeActivationExpiry(r.exp, s.exp[e]) > 0
      BY <1>1, <1>2, <1>3, <1>7 DEF MergeActivationExpiry
    <3>3. RowAfterStats(n, s, dirty, made, first, e).exp = MergeActivationExpiry(r.exp, s.exp[e])
      BY <2>1, <3>1
    <3> QED
      BY <1>4, <3>2, <3>3 DEF s
  <2> QED
    BY <2>2, <2>3
<1> QED
  BY <1>6, <1>7

Keeps(e) == HasRow(e) /\ row'[e] # NoRow /\ row[e].exp > 0 => row'[e].exp > 0

LEMMA ActivationStep ==
    ASSUME TypeInv, [Next]_vars, NEW e \in Emails PROVE Keeps(e)
<1>0. ASSUME HasRow(e) PROVE row[e] \in Row /\ row[e].exp \in Int
  <2>1. row[e] \in Row
    BY <1>0 DEF TypeInv, RowType, HasRow
  <2> QED
    BY <2>1 DEF Row
<1>1. CASE row' = row
  BY <1>1 DEF Keeps
<1>2. ASSUME NEW n \in Nodes, SetRemoteTraffic(n) PROVE Keeps(e)
  <2>1. PICK dirty \in BOOLEAN, made \in SUBSET Tags, first \in [Emails -> Tags] :
          MergeWith(n, dirty, made, first)
    BY <1>2, MergeChoices DEF TypeInv
  <2>2. row'[e] = RowAfter(n, snap[n], dirty, made, first, e) /\ snap[n] # NoSnap
    BY <1>2, <2>1 DEF MergeWith, SetRemoteTraffic
  <2> QED
    BY <2>2, MergeKeepsActivation DEF Keeps
<1>3. ASSUME NEW E \in SUBSET Emails, Zeroed(E) PROVE Keeps(e)
  <2>1. row'[e] = IF e \in E /\ HasRow(e) THEN [row[e] EXCEPT !.used = 0] ELSE row[e]
    BY <1>3 DEF Zeroed
  <2>2. HasRow(e) => [row[e] EXCEPT !.used = 0].exp = row[e].exp
    BY <1>0 DEF Row
  <2> QED
    BY <2>1, <2>2 DEF Keeps
<1>4. ASSUME NEW f \in Emails, AddLocalTraffic(f) PROVE Keeps(e)
  <2> DEFINE r == [row[f] EXCEPT !.used = @ + 1, !.exp = IF @ < 0 THEN 1 ELSE @]
  <2>1. row' = [row EXCEPT ![f] = r]
    BY <1>4 DEF AddLocalTraffic, TypeInv, RowType
  <2>2. row'[e] = IF e = f THEN r ELSE row[e]
    BY <2>1 DEF TypeInv, RowType
  <2>3. e = f /\ HasRow(e) => r.exp = IF row[e].exp < 0 THEN 1 ELSE row[e].exp
    BY <1>0 DEF Row
  <2> HIDE DEF r
  <2> QED
    BY <1>0, <2>2, <2>3 DEF Keeps
<1>5. ASSUME NEW f \in Emails, TrafficKept \/ TrafficRemoved(f) PROVE Keeps(e)
  BY <1>5 DEF TrafficKept, TrafficRemoved, Keeps, TypeInv, RowType
<1>6. ASSUME NEW ib \in Inbound, SaveSettings(ib) PROVE Keeps(e)
  <2>1. PICK f \in Emails : TrafficKept \/ TrafficRemoved(f) \/ AddClientStat(f, ib)
    BY <1>6, SaveEffect DEF TypeInv
  <2>2. CASE AddClientStat(f, ib)
    BY <2>2 DEF AddClientStat, Keeps, TypeInv, RowType
  <2> QED
    BY <1>5, <2>1, <2>2
<1>7. ASSUME NEW n \in Nodes, Node(n) \/ Fetch(n) \/ FetchBlank(n) \/ DropSnapshot(n) PROVE row' = row
  BY <1>7 DEF Node, NodeAddInbound, NodeDelInbound, NodeRename, NodeAttach, NodeDetach, NodeEdit,
              Use, NodeReset, NodeRenew, Fetch, FetchBlank, DropSnapshot
<1>8. CASE Master
  <2>1. ASSUME NEW f \in Emails, ResetClientTrafficByEmail(f) PROVE Keeps(e)
    BY <1>3, <2>1 DEF ResetClientTrafficByEmail
  <2>2. ASSUME NEW n \in Nodes, NEW t \in Tags, NEW f \in Emails, ResetClientTraffic(n, t, f)
        PROVE  Keeps(e)
    BY <1>3, <2>2 DEF ResetClientTraffic
  <2>3. CASE ResetAllTraffics
    BY <1>3, <2>3 DEF ResetAllTraffics
  <2>4. ASSUME NEW f \in Emails, DeleteFinish(f) PROVE Keeps(e)
    BY <1>5, <2>4 DEF DeleteFinish
  <2>5. ASSUME NEW f \in Emails, DeleteFails(f) \/ TombstoneExpires(f)
                                 \/ \E keepTraffic \in BOOLEAN : Delete(f, keepTraffic)
        PROVE  row' = row
    BY <2>5 DEF DeleteFails, TombstoneExpires, Delete
  <2>6. CASE QuietRequest
    BY <1>1, <2>6, QuietRequestKeeps
  <2> QED
    BY <1>1, <1>4, <1>6, <1>8, <2>1, <2>2, <2>3, <2>4, <2>5, <2>6 DEF Master, QuietRequest
<1> QED
  BY <1>1, <1>2, <1>7, <1>8 DEF Next, Sync, vars

\* An activated deadline never becomes a duration again, whichever node or
\* operation writes the row next (mergeActivationExpiry, addClientTraffic).
THEOREM ActivationLasts == Spec => ActivatedStays
<1>1. TypeInv /\ [Next]_vars =>
        [\A e \in Emails : HasRow(e) /\ row'[e] # NoRow /\ row[e].exp > 0 => row'[e].exp > 0]_vars
  BY ActivationStep DEF Keeps
<1> QED
  BY <1>1, TypeInvariant, PTL DEF Spec, ActivatedStays

-----------------------------------------------------------------------------
(***************************************************************************)
(* Nothing is lost.  An exact share follows the counter: its baseline is   *)
(* not ahead of the counter, nor of a snapshot in flight, and a snapshot   *)
(* in which the client lives is behind the counter by the traffic since.   *)
(***************************************************************************)

ExactPair(n, e) ==
    exact[n][e] =>
        /\ base[n][e] # None /\ base[n][e] <= ctr[n][e]
        /\ charged[n][e] + (ctr[n][e] - base[n][e]) = gen[n][e] - since[n][e]

ExactFlight(n, e, s) ==
    /\ e \in s.live => ctr[n][e] - s.top[e] = gen[n][e] - s.gen[e]
    /\ exact[n][e] => e \in s.live /\ base[n][e] <= s.top[e]

Follows(n, e) ==
    ExactPair(n, e) /\ (snap[n] # NoSnap => ExactFlight(n, e, snap[n]))

ExactInv == \A n \in Nodes, e \in Emails : Follows(n, e)

LEMMA PairTyped ==
    ASSUME TypeInv, NEW n \in Nodes, NEW e \in Emails
    PROVE  /\ ctr[n][e] \in Nat /\ gen[n][e] \in Nat /\ charged[n][e] \in Nat
           /\ base[n][e] \in Nat \cup {None} /\ since[n][e] \in Int
           /\ exact[n][e] \in BOOLEAN
           /\ snap[n] # NoSnap => snap[n] \in Snapshot /\ snap[n].top[e] \in Nat /\ snap[n].gen[e] \in Nat
<1>1. snap[n] # NoSnap => snap[n] \in Snapshot
  BY DEF TypeInv, Inv, CounterType
<1>2. snap[n] \in Snapshot => snap[n].top[e] \in Nat /\ snap[n].gen[e] \in Nat
  BY DEF Snapshot
<1> QED
  BY <1>1, <1>2 DEF TypeInv, Inv, CounterType, HistoryType

\* A pair whose numbers a step leaves alone, or whose share stops being exact.
LEMMA QuietFollows ==
    ASSUME TypeInv, NEW n \in Nodes, NEW e \in Emails, Follows(n, e),
           ctr'[n][e] = ctr[n][e], gen'[n][e] = gen[n][e],
           exact'[n][e] => /\ exact[n][e] /\ base'[n][e] = base[n][e]
                           /\ charged'[n][e] = charged[n][e] /\ since'[n][e] = since[n][e],
           \/ snap'[n] = NoSnap
           \/ snap'[n] = snap[n]
           \/ /\ snap[n] # NoSnap
              /\ \E L \in SUBSET Emails : /\ e \in L <=> e \in snap[n].live
                                          /\ snap'[n] = [snap[n] EXCEPT !.live = L]
    PROVE  Follows(n, e)'
<1>1. ExactPair(n, e)'
  BY DEF Follows, ExactPair
<1>2. ASSUME snap'[n] # NoSnap PROVE ExactFlight(n, e, snap[n])'
  <2>1. /\ snap[n] # NoSnap /\ snap'[n].top = snap[n].top /\ snap'[n].gen = snap[n].gen
        /\ e \in snap'[n].live <=> e \in snap[n].live
    <3>1. CASE snap'[n] = snap[n]
      BY <1>2, <3>1
    <3>2. CASE snap[n] # NoSnap /\ \E L \in SUBSET Emails :
                 (e \in L <=> e \in snap[n].live) /\ snap'[n] = [snap[n] EXCEPT !.live = L]
      <4>1. snap[n] \in Snapshot
        BY <3>2, PairTyped
      <4> QED
        BY <3>2, <4>1 DEF Snapshot
    <3> QED
      BY <1>2, <3>1, <3>2
  <2> QED
    BY <2>1 DEF Follows, ExactFlight
<1> QED
  BY <1>1, <1>2 DEF Follows

\* A pair whose counter falls.
LEMMA FallenFollows ==
    ASSUME NEW n \in Nodes, NEW e \in Emails, ~exact'[n][e],
           snap'[n] # NoSnap => e \notin snap'[n].live
    PROVE  Follows(n, e)'
BY DEF Follows, ExactPair, ExactFlight

LEMMA CounterFallsFollows ==
    ASSUME TypeInv, ExactInv, NEW n \in Nodes, NEW E \in SUBSET Emails, CounterFalls(n, E),
           UNCHANGED <<gen, charged, base, since>>
    PROVE  ExactInv'
<1> SUFFICES ASSUME NEW m \in Nodes, NEW e \in Emails PROVE Follows(m, e)'
  BY DEF ExactInv
<1>0. /\ ctr \in [Nodes -> [Emails -> Nat]] /\ exact \in [Nodes -> [Emails -> BOOLEAN]]
      /\ snap \in [Nodes -> {NoSnap} \cup Snapshot]
  BY DEF TypeInv, Inv, CounterType, HistoryType
<1>1. CASE m = n /\ e \in E
  <2>1. ~exact'[n][e]
    BY <1>0, <1>1 DEF CounterFalls
  <2>2. ASSUME snap'[n] # NoSnap PROVE e \notin snap'[n].live
    <3>1. snap[n] # NoSnap
      BY <1>0, <2>2 DEF CounterFalls
    <3>2. snap[n] \in Snapshot /\ snap'[n] = [snap[n] EXCEPT !.live = @ \ E]
      BY <1>0, <3>1 DEF CounterFalls
    <3> QED
      BY <1>1, <3>2 DEF Snapshot
  <2> QED
    BY <1>1, <2>1, <2>2, FallenFollows
<1>2. CASE ~(m = n /\ e \in E)
  <2>1. ctr'[m][e] = ctr[m][e] /\ (exact'[m][e] => exact[m][e])
    BY <1>0, <1>2 DEF CounterFalls
  <2>2. \/ snap'[m] = snap[m]
        \/ /\ snap[m] # NoSnap
           /\ \E L \in SUBSET Emails : /\ e \in L <=> e \in snap[m].live
                                       /\ snap'[m] = [snap[m] EXCEPT !.live = L]
    <3>1. CASE m # n \/ snap[n] = NoSnap
      BY <1>0, <3>1 DEF CounterFalls
    <3>2. CASE m = n /\ snap[n] # NoSnap
      <4>1. snap[n] \in Snapshot /\ snap'[n] = [snap[n] EXCEPT !.live = snap[n].live \ E]
        BY <1>0, <3>2 DEF CounterFalls
      <4>2. snap[n].live \ E \in SUBSET Emails
        BY <4>1 DEF Snapshot
      <4> QED
        BY <1>2, <3>2, <4>1, <4>2
    <3> QED
      BY <3>1, <3>2
  <2>3. Follows(m, e)
    BY DEF ExactInv
  <2> QED
    BY <2>1, <2>2, <2>3, QuietFollows
<1> QED
  BY <1>1, <1>2

LEMMA NodeFollows ==
    ASSUME TypeInv, ExactInv, NEW n \in Nodes, Node(n) PROVE ExactInv'
<1>1. ASSUME NEW H, NEW C, NodeEdit(n, H, C) PROVE ExactInv'
  <2>1. {e \in Emails : ~ \E t \in H : <<t, e>> \in C} \in SUBSET Emails
    OBVIOUS
  <2> QED
    BY <1>1, <2>1, CounterFallsFollows DEF NodeEdit
<1>2. ASSUME NEW e \in Emails, NodeReset(n, e) \/ NodeRenew(n, e) PROVE ExactInv'
  BY <1>2, CounterFallsFollows DEF NodeReset, NodeRenew
<1>3. ASSUME NEW f \in Emails, Use(n, f) PROVE ExactInv'
  <2> SUFFICES ASSUME NEW m \in Nodes, NEW e \in Emails PROVE Follows(m, e)'
    BY DEF ExactInv
  <2>1. UNCHANGED <<snap, charged, base, exact, since>>
    BY <1>3 DEF Use, historyVars
  <2>2. PICK d \in {0, 1} : ctr'[m][e] = ctr[m][e] + d /\ gen'[m][e] = gen[m][e] + d
    BY <1>3 DEF Use, TypeInv, Inv, CounterType
  <2>3. Follows(m, e)
    BY DEF ExactInv
  <2>4. ExactPair(m, e)'
    BY <2>1, <2>2, <2>3, PairTyped DEF Follows, ExactPair, None
  <2>5. ASSUME snap[m] # NoSnap PROVE ExactFlight(m, e, snap[m])'
    BY <2>1, <2>2, <2>3, <2>5, PairTyped DEF Follows, ExactFlight
  <2> QED
    BY <2>1, <2>4, <2>5 DEF Follows
<1> QED
  BY <1>1, <1>2, <1>3 DEF Node, NodeAddInbound, NodeDelInbound, NodeRename, NodeAttach, NodeDetach

LEMMA FetchFollows ==
    ASSUME TypeInv, ExactInv, NEW n \in Nodes, Fetch(n) \/ FetchBlank(n) \/ DropSnapshot(n)
    PROVE  ExactInv'
<1> SUFFICES ASSUME NEW m \in Nodes, NEW e \in Emails PROVE Follows(m, e)'
  BY DEF ExactInv
<1>1. UNCHANGED <<ctr, gen, charged, base, exact, since>>
  BY DEF Fetch, FetchBlank, DropSnapshot, nodeVars, historyVars
<1>2. Follows(m, e) /\ snap \in [Nodes -> {NoSnap} \cup Snapshot]
  BY DEF ExactInv, TypeInv, Inv, CounterType
<1>3. CASE m # n \/ DropSnapshot(n)
  <2>1. snap'[m] \in {snap[m], NoSnap}
    BY <1>2, <1>3 DEF Fetch, FetchBlank, DropSnapshot
  <2> QED
    BY <1>1, <1>2, <2>1, QuietFollows
<1>4. CASE m = n /\ (Fetch(n) \/ FetchBlank(n))
  <2>1. snap'[n].top = ctr[n] /\ snap'[n].gen = gen[n] /\ snap'[n].live = Emails
    <3>1. CASE Fetch(n)
      <4>1. PICK copy \in [Tags \X Emails -> 0..MaxGen] :
              snap' = [snap EXCEPT ![n] =
                [tags |-> hosts[n], on |-> on[n], copy |-> copy, exp |-> exp[n],
                 gen |-> gen[n], top |-> ctr[n], live |-> Emails, none |-> FALSE]]
        BY <3>1 DEF Fetch
      <4> QED
        BY <1>2, <4>1
    <3>2. CASE FetchBlank(n)
      BY <1>2, <3>2 DEF FetchBlank
    <3> QED
      BY <1>4, <3>1, <3>2
  <2>2. ExactPair(n, e)'
    BY <1>1, <1>2, <1>4 DEF Follows, ExactPair
  <2>3. ExactFlight(n, e, snap[n])'
    BY <1>1, <1>2, <1>4, <2>1, PairTyped DEF Follows, ExactPair, ExactFlight
  <2> QED
    BY <1>4, <2>2, <2>3 DEF Follows
<1> QED
  BY <1>3, <1>4
\* The share of the merged node, where it stays exact.
LEMMA MergedShareFollows ==
    ASSUME TypeInv, ExactInv, NEW n \in Nodes, NEW s, s = snap[n], s # NoSnap,
           NEW dirty \in BOOLEAN, NEW made \in SUBSET s.tags, NEW first, NEW e \in Emails,
           exact[n][e], ~Restarts(n, s, dirty, made, first, e),
           Reporting(s, e) # {} \/ s.tags = {}
    PROVE  /\ ~Orphaned(n, s, dirty, made, e)
           /\ LET b == BaseAfter(n, s, dirty, made, e)
                  c == ShareAfter(n, s, dirty, made, first, e)
              IN  /\ b # None /\ b <= ctr[n][e]
                  /\ c + (ctr[n][e] - b) = gen[n][e] - since[n][e]
<1>0. s \in Snapshot /\ CopiesInv(s) /\ FlightInv(n, e, s) /\ Follows(n, e)
  BY DEF TypeInv, Inv, CounterType, ExactInv
<1>1. /\ ctr[n][e] \in Nat /\ gen[n][e] \in Nat /\ charged[n][e] \in Nat
      /\ base[n][e] \in Nat \cup {None} /\ since[n][e] \in Int
      /\ s.top[e] \in Nat /\ s.gen[e] \in Nat
  BY PairTyped
<1>2. /\ base[n][e] # None /\ base[n][e] <= ctr[n][e] /\ base[n][e] <= s.top[e]
      /\ charged[n][e] + (ctr[n][e] - base[n][e]) = gen[n][e] - since[n][e]
      /\ ctr[n][e] - s.top[e] = gen[n][e] - s.gen[e] /\ s.gen[e] <= gen[n][e]
  BY <1>0 DEF Follows, ExactPair, ExactFlight, FlightInv
<1>3. /\ RowAfter(n, s, dirty, made, first, e) # NoRow
      /\ ~Orphaned(n, s, dirty, made, e) /\ ~Seeded(n, s, dirty, made, e)
      /\ ~(Updated(n, s, made, e) /\ NodeClientRenewed(n, s, e))
  BY DEF Restarts, RowAfter
<1>4. /\ ~StatGone(n, s, dirty, made, e)
      /\ ~(HomeSwept(n, s, dirty, e) /\ Reporting(s, e) = {})
  <2>1. CASE Reporting(s, e) # {}
    BY <2>1 DEF StatGone
  <2>2. CASE s.tags = {}
    BY <2>2 DEF StatGone, HomeSwept, Swept, Mapped, Known
  <2> QED
    BY <2>1, <2>2
<1>5. CASE Updated(n, s, made, e)
  <2>1. Canon(s, e) = s.top[e]
    BY <1>0, <1>5, CanonIsTop DEF Updated
  <2>2. BaseAfter(n, s, dirty, made, e) = s.top[e]
    BY <1>4, <1>5, <2>1 DEF BaseAfter
  <2>3. Delta(n, s, e) = s.top[e] - base[n][e]
    BY <1>1, <1>2, <2>1 DEF Delta, None
  <2>4. ShareAfter(n, s, dirty, made, first, e) = charged[n][e] + (s.top[e] - base[n][e])
    BY <1>3, <1>5, <2>3 DEF ShareAfter
  <2> QED
    BY <1>1, <1>2, <1>3, <2>2, <2>4 DEF None
<1>6. CASE ~Updated(n, s, made, e)
  BY <1>2, <1>3, <1>4, <1>6 DEF BaseAfter, ShareAfter
<1> QED
  BY <1>5, <1>6

\* The share of the merged node, where it becomes exact.
LEMMA BecomesExactFollows ==
    ASSUME TypeInv, ExactInv, NEW n \in Nodes, NEW s, s = snap[n], s # NoSnap,
           NEW dirty \in BOOLEAN, NEW made \in SUBSET s.tags, NEW first, NEW e \in Emails,
           BecomesExact(n, s, dirty, made, first, e)
    PROVE  /\ ~Orphaned(n, s, dirty, made, e)
           /\ BaseAfter(n, s, dirty, made, e) = s.top[e]
           /\ s.top[e] <= ctr[n][e]
           /\ ctr[n][e] - s.top[e] = gen[n][e] - s.gen[e]
<1>0. s \in Snapshot /\ CopiesInv(s) /\ FlightInv(n, e, s) /\ Follows(n, e)
  BY DEF TypeInv, Inv, CounterType, ExactInv
<1>1. /\ ctr[n][e] \in Nat /\ gen[n][e] \in Nat
      /\ s.top[e] \in Nat /\ s.gen[e] \in Nat
  BY PairTyped
<1>2. /\ ctr[n][e] - s.top[e] = gen[n][e] - s.gen[e] /\ s.gen[e] <= gen[n][e]
  BY <1>0 DEF Follows, ExactFlight, FlightInv, BecomesExact
<1>3. /\ RowAfter(n, s, dirty, made, first, e) # NoRow
      /\ Seeded(n, s, dirty, made, e) \/ Updated(n, s, made, e)
  BY DEF BecomesExact
<1>4. Reporting(s, e) # {} /\ ~Orphaned(n, s, dirty, made, e)
  BY <1>3 DEF RowAfter, Seeded, Seeders, Updated
<1>5. BaseAfter(n, s, dirty, made, e) = s.top[e]
  BY <1>0, <1>3, <1>4, CanonIsTop DEF BaseAfter, StatGone
<1> QED
  BY <1>1, <1>2, <1>4, <1>5

LEMMA MergeFollows ==
    ASSUME TypeInv, ExactInv, NEW n \in Nodes, SetRemoteTraffic(n) PROVE ExactInv'
<1> SUFFICES ASSUME NEW m \in Nodes, NEW e \in Emails PROVE Follows(m, e)'
  BY DEF ExactInv
<1>0. /\ snap[n] # NoSnap /\ snap' = [snap EXCEPT ![n] = NoSnap]
      /\ snap \in [Nodes -> {NoSnap} \cup Snapshot] /\ UNCHANGED <<ctr, gen>>
      /\ snap[n].tags \in SUBSET Tags
  BY MergeChoices DEF TypeInv, Inv, CounterType, Snapshot, nodeVars
<1>1. PICK dirty \in BOOLEAN, made \in SUBSET Tags, first \in [Emails -> Tags] :
        MergeWith(n, dirty, made, first)
  BY MergeChoices DEF TypeInv
<1>2. PICK s : s = snap[n]
  OBVIOUS
<1>3. /\ made \in SUBSET s.tags
      /\ base'[m][e] = IF Orphaned(n, s, dirty, made, e) THEN None
                       ELSE IF m = n THEN BaseAfter(n, s, dirty, made, e) ELSE base[m][e]
      /\ MergeHistory(n, s, dirty, made, first)
  BY <1>1, <1>2 DEF MergeWith
<1>4. /\ charged'[m][e] = IF m = n THEN ShareAfter(n, s, dirty, made, first, e)
                          ELSE IF Restarts(n, s, dirty, made, first, e) THEN 0
                          ELSE charged[m][e]
      /\ exact'[m][e] = IF Restarts(n, s, dirty, made, first, e) \/ (m = n /\ ~exact[m][e])
                          THEN m = n /\ BecomesExact(n, s, dirty, made, first, e)
                        ELSE exact[m][e] /\ (m = n => Reporting(s, e) # {} \/ s.tags = {})
  BY <1>3 DEF MergeHistory
<1>5. since'[m][e] = IF m = n /\ BecomesExact(n, s, dirty, made, first, e)
                       THEN s.gen[e] - ShareAfter(n, s, dirty, made, first, e)
                       ELSE since[m][e]
  BY <1>3 DEF MergeHistory, TypeInv, HistoryType
<1>6. CASE m # n
  <2>1. exact'[m][e] => exact[m][e] /\ ~Restarts(n, s, dirty, made, first, e)
    BY <1>4, <1>6
  <2>2. ~Restarts(n, s, dirty, made, first, e) => ~Orphaned(n, s, dirty, made, e)
    BY DEF Restarts, RowAfter
  <2>3. snap'[m] = snap[m] /\ Follows(m, e)
    BY <1>0, <1>6 DEF ExactInv
  <2> QED
    BY <1>0, <1>3, <1>4, <1>5, <1>6, <2>1, <2>2, <2>3, QuietFollows
<1>7. CASE m = n
  <2>0. snap'[n] = NoSnap
    BY <1>0
  <2>1. CASE BecomesExact(n, s, dirty, made, first, e)
    <3>1. charged'[n][e] \in Nat /\ ctr[n][e] \in Nat /\ gen[n][e] \in Nat
          /\ s.top[e] \in Nat /\ s.gen[e] \in Nat
      BY <1>0, <1>2, MergeKeepsInv, PairTyped DEF TypeInv, Inv, CounterType
    <3>2. /\ base'[n][e] = s.top[e] /\ s.top[e] <= ctr[n][e]
          /\ ctr[n][e] - s.top[e] = gen[n][e] - s.gen[e]
      BY <1>0, <1>2, <1>3, <1>7, <2>1, BecomesExactFollows
    <3>3. since'[n][e] = s.gen[e] - charged'[n][e]
      BY <1>4, <1>5, <1>7, <2>1
    <3> QED
      BY <1>0, <1>7, <2>0, <3>1, <3>2, <3>3 DEF Follows, ExactPair, None
  <2>2. CASE ~BecomesExact(n, s, dirty, made, first, e) /\ exact'[n][e]
    <3>1. /\ exact[n][e] /\ ~Restarts(n, s, dirty, made, first, e)
          /\ Reporting(s, e) # {} \/ s.tags = {}
      BY <1>4, <1>7, <2>2
    <3>2. /\ ~Orphaned(n, s, dirty, made, e)
          /\ LET b == BaseAfter(n, s, dirty, made, e)
                 c == ShareAfter(n, s, dirty, made, first, e)
             IN  /\ b # None /\ b <= ctr[n][e]
                 /\ c + (ctr[n][e] - b) = gen[n][e] - since[n][e]
      BY <1>0, <1>2, <1>3, <3>1, MergedShareFollows
    <3>3. /\ base'[n][e] = BaseAfter(n, s, dirty, made, e)
          /\ charged'[n][e] = ShareAfter(n, s, dirty, made, first, e)
          /\ since'[n][e] = since[n][e]
      BY <1>3, <1>4, <1>5, <1>7, <2>2, <3>2
    <3> QED
      BY <1>0, <1>7, <2>0, <3>2, <3>3 DEF Follows, ExactPair
  <2>3. CASE ~exact'[n][e]
    BY <1>7, <2>0, <2>3, FallenFollows
  <2> QED
    BY <2>1, <2>2, <2>3
<1> QED
  BY <1>6, <1>7

LEMMA MasterFollows == ASSUME TypeInv, ExactInv, Master PROVE ExactInv'
<1> DEFINE Quiet(n, e) ==
      /\ ctr'[n][e] = ctr[n][e] /\ gen'[n][e] = gen[n][e] /\ snap'[n] = snap[n]
      /\ exact'[n][e] => /\ exact[n][e] /\ base'[n][e] = base[n][e]
                         /\ charged'[n][e] = charged[n][e] /\ since'[n][e] = since[n][e]
<1>0. /\ ctr \in [Nodes -> [Emails -> Nat]] /\ exact \in [Nodes -> [Emails -> BOOLEAN]]
      /\ base \in [Nodes -> [Emails -> Nat \cup {None}]]
      /\ charged \in [Nodes -> [Emails -> Nat]]
      /\ snap \in [Nodes -> {NoSnap} \cup Snapshot]
  BY DEF TypeInv, Inv, CounterType, HistoryType
<1>1. ASSUME \A n \in Nodes, e \in Emails : Quiet(n, e) PROVE ExactInv'
  BY <1>1, QuietFollows DEF ExactInv
<1>2. ASSUME NEW f \in Emails, ResetClientTrafficByEmail(f) PROVE \A n \in Nodes, e \in Emails : Quiet(n, e)
  BY <1>0, <1>2 DEF ResetClientTrafficByEmail, Zeroed, nodeVars
<1>3. ASSUME ResetAllTraffics PROVE \A n \in Nodes, e \in Emails : Quiet(n, e)
  BY <1>3 DEF ResetAllTraffics, nodeVars
<1>4. ASSUME NEW f \in Emails, TrafficKept \/ TrafficRemoved(f), UNCHANGED <<nodeVars, snap, since>>
      PROVE  \A n \in Nodes, e \in Emails : Quiet(n, e)
  <2>1. CASE TrafficKept
    BY <1>4, <2>1 DEF TrafficKept, nodeVars
  <2>2. CASE TrafficRemoved(f)
    BY <1>0, <1>4, <2>2 DEF TrafficRemoved, nodeVars
  <2> QED
    BY <1>4, <2>1, <2>2
<1>5. ASSUME NEW f \in Emails,
             \/ AddLocalTraffic(f) \/ DeleteFails(f) \/ TombstoneExpires(f)
             \/ \E keepTraffic \in BOOLEAN : Delete(f, keepTraffic)
      PROVE  \A n \in Nodes, e \in Emails : Quiet(n, e)
  BY <1>5 DEF AddLocalTraffic, DeleteFails, TombstoneExpires, Delete, nodeVars, historyVars
<1>6. CASE QuietRequest
  <2>1. \A n \in Nodes, e \in Emails : Quiet(n, e)
    BY <1>6, QuietRequestKeeps DEF nodeVars
  <2> QED
    BY <1>1, <2>1
<1>9. ASSUME NEW ib \in Inbound, SaveSettings(ib) PROVE \A n \in Nodes, e \in Emails : Quiet(n, e)
  <2>1. PICK f \in Emails : TrafficKept \/ TrafficRemoved(f) \/ AddClientStat(f, ib)
    BY <1>9, SaveEffect DEF TypeInv
  <2>2. UNCHANGED <<nodeVars, snap, since>>
    BY <1>9, SaveEffect DEF TypeInv
  <2>3. CASE AddClientStat(f, ib)
    BY <2>2, <2>3 DEF AddClientStat, nodeVars
  <2> QED
    BY <1>4, <2>1, <2>2, <2>3
<1>7. ASSUME NEW n \in Nodes, NEW t \in Tags, NEW f \in Emails, ResetClientTraffic(n, t, f)
      PROVE  ExactInv'
  <2> SUFFICES ASSUME NEW m \in Nodes, NEW e \in Emails PROVE Follows(m, e)'
    BY DEF ExactInv
  <2>1. gen' = gen /\ since' = since /\ Follows(m, e)
    BY <1>7 DEF ResetClientTraffic, ExactInv
  <2>2. CASE e # f
    <3>1. ctr'[m][e] = ctr[m][e] /\ base'[m][e] = base[m][e] /\ charged'[m][e] = charged[m][e]
          /\ exact'[m][e] = exact[m][e]
      <4>1. ctr'[m][e] = ctr[m][e]
        <5>1. CASE ctr' = ctr
          BY <5>1
        <5>2. CASE ctr' = [ctr EXCEPT ![n][f] = 0]
          BY <1>0, <2>2, <5>2
        <5> QED
          BY <1>7, <5>1, <5>2 DEF ResetClientTraffic
      <4>2. base'[m][e] = base[m][e] /\ exact'[m][e] = exact[m][e]
        BY <1>0, <1>7, <2>2 DEF ResetClientTraffic
      <4>3. charged'[m][e] = charged[m][e]
        BY <1>0, <1>7, <2>2 DEF ResetClientTraffic, Zeroed
      <4> QED
        BY <4>1, <4>2, <4>3
    <3>2. \/ snap'[m] = snap[m]
          \/ snap[m] # NoSnap /\ snap'[m] = [snap[m] EXCEPT !.live = @ \ {f}]
      <4>1. CASE snap' = snap
        BY <4>1
      <4>2. CASE snap[n] # NoSnap /\ snap' = [snap EXCEPT ![n].live = @ \ {f}]
        BY <1>0, <4>2
      <4> QED
        BY <1>7, <4>1, <4>2 DEF ResetClientTraffic
    <3>3. snap[m] # NoSnap => snap[m].live \ {f} \in SUBSET Emails
                              /\ (e \in snap[m].live \ {f} <=> e \in snap[m].live)
      BY <2>2, PairTyped DEF Snapshot
    <3> QED
      BY <2>1, <3>1, <3>2, <3>3, QuietFollows
  <2>3. CASE e = f
    <3>1. ~exact'[m][e]
      BY <1>0, <1>7, <2>3 DEF ResetClientTraffic
    <3>2. CASE ctr'[m][e] = ctr[m][e] /\ snap'[m] = snap[m]
      BY <2>1, <3>1, <3>2, QuietFollows
    <3>3. CASE m = n /\ snap' = IF snap[n] = NoSnap THEN snap
                                ELSE [snap EXCEPT ![n].live = @ \ {f}]
      <4>1. snap'[m] # NoSnap => e \notin snap'[m].live
        <5>1. CASE snap[n] = NoSnap
          BY <3>3, <5>1
        <5>2. CASE snap[n] # NoSnap
          <6>1. snap[n] \in Snapshot /\ snap'[n] = [snap[n] EXCEPT !.live = snap[n].live \ {f}]
            BY <1>0, <3>3, <5>2
          <6>2. snap'[n].live = snap[n].live \ {f}
            BY <6>1 DEF Snapshot
          <6> QED
            BY <2>3, <3>3, <6>2
        <5> QED
          BY <5>1, <5>2
      <4> QED
        BY <3>1, <4>1, FallenFollows
    <3>4. \/ ctr'[m][e] = ctr[m][e] /\ snap'[m] = snap[m]
          \/ m = n /\ snap' = IF snap[n] = NoSnap THEN snap
                              ELSE [snap EXCEPT ![n].live = @ \ {f}]
      BY <1>0, <1>7 DEF ResetClientTraffic
    <3> QED
      BY <3>2, <3>3, <3>4
  <2> QED
    BY <2>2, <2>3
<1>8. ASSUME NEW f \in Emails, DeleteFinish(f) PROVE \A n \in Nodes, e \in Emails : Quiet(n, e)
  BY <1>4, <1>8 DEF DeleteFinish
<1> HIDE DEF Quiet
<1> QED
  BY <1>1, <1>2, <1>3, <1>5, <1>6, <1>7, <1>8, <1>9 DEF Master, QuietRequest

LEMMA ExactInvStep == TypeInv /\ ExactInv /\ [Next]_vars => ExactInv'
<1> SUFFICES ASSUME TypeInv, ExactInv, [Next]_vars PROVE ExactInv'
  OBVIOUS
<1>1. CASE UNCHANGED vars
  BY <1>1 DEF vars, nodeVars, historyVars, ExactInv, Follows, ExactPair, ExactFlight
<1>2. ASSUME NEW n \in Nodes, Node(n) \/ Sync(n) PROVE ExactInv'
  BY <1>2, NodeFollows, FetchFollows, MergeFollows DEF Sync
<1> QED
  BY <1>1, <1>2, MasterFollows DEF Next

\* No traffic is lost: while the share of a node is exact, it and what the
\* counter gained over the baseline are all the traffic since (#5202), for any
\* order of fetches, merges, edits and resets.
THEOREM NothingIsLost == Spec => []ExactShare
<1>1. Init => ExactInv
  BY DEF Init, ExactInv, Follows, ExactPair
<1>2. ExactInv => ExactShare
  BY DEF ExactInv, Follows, ExactPair, ExactShare
<1> QED
  BY <1>1, <1>2, ExactInvStep, TypeInvariant, PTL DEF Spec

-----------------------------------------------------------------------------
(***************************************************************************)
(* Sums over the nodes.  The fold of the library is a recursive function;  *)
(* that it exists, and what it computes, is proved over the subsets of a   *)
(* finite set, by the least size of a subset for which it would fail.      *)
(***************************************************************************)

\* The member that the fold takes out of a set first.
Pick(s) == CHOOSE x \in s : TRUE

\* A set of numbers that is not empty has a least one.
LEMMA LeastNatural ==
  ASSUME NEW T \in SUBSET Nat, T # {}
  PROVE  \E n \in T : \A m \in T : n <= m
<1>1. PICK n \in T : \A m \in T : <<m, n>> \notin OpToRel(<, Nat)
  BY WFMin, NatLessThanWellFounded, Zenon
<1>2. ASSUME NEW m \in T PROVE n <= m
  <2>1. <<m, n>> \notin OpToRel(<, Nat)
    BY <1>1, Zenon
  <2>2. n \in Nat /\ m \in Nat
    OBVIOUS
  <2>3. ~(m < n)
    BY <2>1, <2>2, Zenon DEF OpToRel
  <2> QED  BY <2>2, <2>3
<1> QED  BY <1>2

\* A set of numbers with zero and with the successor of each of its members
\* holds every number.
LEMMA Numbers ==
  ASSUME NEW T \in SUBSET Nat, 0 \in T, \A k \in T : k + 1 \in T
  PROVE  T = Nat
<1> SUFFICES ASSUME Nat \ T # {} PROVE FALSE
  OBVIOUS
<1>1. PICK n \in Nat \ T : \A m \in Nat \ T : n <= m
  BY LeastNatural
<1>2. n # 0 /\ n - 1 \in Nat /\ (n - 1) + 1 = n
  BY <1>1
<1>3. n - 1 \in T
  BY <1>1, <1>2
<1> QED  BY <1>2, <1>3, <1>1

\* What holds of the empty set, and of a set when it holds of the set without
\* the member picked from it, holds of every subset.
LEMMA Subsets ==
  ASSUME NEW S, IsFiniteSet(S), NEW G \in SUBSET (SUBSET S), {} \in G,
         \A s \in SUBSET S : s # {} /\ s \ {Pick(s)} \in G => s \in G
  PROVE  G = SUBSET S
<1> DEFINE T == {k \in Nat : \A s \in SUBSET S : Cardinality(s) = k => s \in G}
<1>1. 0 \in T
  <2>1. ASSUME NEW s \in SUBSET S, Cardinality(s) = 0 PROVE s = {}
    BY <2>1, FS_EmptySet, FS_Subset
  <2> QED  BY <2>1
<1>2. ASSUME NEW k \in T PROVE k + 1 \in T
  <2>1. ASSUME NEW s \in SUBSET S, Cardinality(s) = k + 1 PROVE s \in G
    <3>1. IsFiniteSet(s)
      BY FS_Subset
    <3>2. s # {}
      BY <2>1, FS_EmptySet
    <3>3. Pick(s) \in s
      BY <3>2 DEF Pick
    <3>4. Cardinality(s \ {Pick(s)}) = k
      <4>1. Cardinality(s \ {Pick(s)}) = Cardinality(s) - 1 /\ k \in Nat
        BY <3>1, <3>3, FS_RemoveElement
      <4> QED  BY <2>1, <4>1
    <3>5. s \ {Pick(s)} \in G
      BY <3>4
    <3> QED  BY <3>2, <3>5
  <2> QED  BY <2>1
<1>3. T = Nat
  <2>1. T \in SUBSET Nat
    OBVIOUS
  <2> HIDE DEF T
  <2> QED  BY <1>1, <1>2, <2>1, Numbers
<1>4. ASSUME NEW s \in SUBSET S PROVE s \in G
  <2>1. Cardinality(s) \in Nat
    BY FS_Subset, FS_CardinalityType
  <2>2. Cardinality(s) \in T
    BY <1>3, <2>1
  <2> QED  BY <2>2
<1> QED  BY <1>4

\* The equation of a sum over the subsets of S.
SumEq(F, f, S) ==
  F = [s \in SUBSET S |-> IF s = {} THEN 0 ELSE f[Pick(s)] + F[s \ {Pick(s)}]]

\* A finite set has its sums.
LEMMA SumExists ==
  ASSUME NEW S, IsFiniteSet(S), NEW f \in [S -> Nat]
  PROVE  \E F : SumEq(F, f, S)
<1> DEFINE Upto(F, k) ==
      \A s \in SUBSET S : Cardinality(s) <= k =>
        F[s] = IF s = {} THEN 0 ELSE f[Pick(s)] + F[s \ {Pick(s)}]
    T == {k \in Nat : \E F \in [SUBSET S -> Nat] : Upto(F, k)}
<1>0. \A s \in SUBSET S : IsFiniteSet(s) /\ Cardinality(s) \in Nat
  BY FS_Subset, FS_CardinalityType
<1>1. 0 \in T
  <2>1. ASSUME NEW s \in SUBSET S, Cardinality(s) <= 0 PROVE s = {}
    BY <2>1, <1>0, FS_EmptySet
  <2>2. [s \in SUBSET S |-> 0] \in [SUBSET S -> Nat]
    OBVIOUS
  <2>3. Upto([s \in SUBSET S |-> 0], 0)
    BY <2>1
  <2> HIDE DEF Upto
  <2> QED  BY <2>2, <2>3
<1>2. ASSUME NEW k \in T PROVE k + 1 \in T
  <2>1. PICK F \in [SUBSET S -> Nat] : Upto(F, k)
    OBVIOUS
  <2> DEFINE H == [s \in SUBSET S |-> IF Cardinality(s) <= k THEN F[s]
                                      ELSE f[Pick(s)] + F[s \ {Pick(s)}]]
  <2>2. ASSUME NEW s \in SUBSET S, s # {}
        PROVE  /\ Pick(s) \in s /\ Pick(s) \in S /\ s \ {Pick(s)} \in SUBSET S
               /\ Cardinality(s \ {Pick(s)}) = Cardinality(s) - 1
    <3>1. Pick(s) \in s
      BY <2>2 DEF Pick
    <3> QED  BY <3>1, <1>0, FS_RemoveElement
  <2>3. ASSUME NEW s \in SUBSET S, ~(Cardinality(s) <= k) PROVE s # {}
    <3>1. Cardinality({}) = 0 /\ k \in Nat
      BY FS_EmptySet
    <3>2. ASSUME s = {} PROVE FALSE
      <4>1. Cardinality(s) = 0
        BY <3>1, <3>2
      <4> QED  BY <2>3, <3>1, <4>1
    <3> QED  BY <3>2
  <2>4. H \in [SUBSET S -> Nat]
    <3>1. ASSUME NEW s \in SUBSET S, ~(Cardinality(s) <= k)
          PROVE  f[Pick(s)] + F[s \ {Pick(s)}] \in Nat
      <4>1. f[Pick(s)] \in Nat /\ F[s \ {Pick(s)}] \in Nat
        BY <3>1, <2>2, <2>3
      <4> QED  BY <4>1
    <3>2. \A s \in SUBSET S : F[s] \in Nat
      OBVIOUS
    <3> QED  BY <3>1, <3>2
  <2>5. ASSUME NEW s \in SUBSET S, Cardinality(s) <= k + 1, s # {}
        PROVE  H[s] = f[Pick(s)] + H[s \ {Pick(s)}]
    <3>1. H[s \ {Pick(s)}] = F[s \ {Pick(s)}]
      <4>1. Cardinality(s \ {Pick(s)}) <= k
        BY <2>5, <2>2, <1>0
      <4> QED  BY <4>1, <2>5, <2>2
    <3>2. CASE Cardinality(s) <= k
      <4>1. F[s] = f[Pick(s)] + F[s \ {Pick(s)}]
        BY <2>1, <2>5, <3>2
      <4> QED  BY <3>1, <3>2, <4>1
    <3>3. CASE ~(Cardinality(s) <= k)
      BY <3>1, <3>3
    <3> QED  BY <3>2, <3>3
  <2>6. H[{}] = 0
    <3>1. Cardinality({}) = 0 /\ {} \in SUBSET S
      BY FS_EmptySet
    <3>2. F[{}] = 0
      BY <2>1, <3>1
    <3> QED  BY <3>1, <3>2
  <2> HIDE DEF H
  <2>7. Upto(H, k + 1)
    BY <2>5, <2>6
  <2> HIDE DEF Upto
  <2> QED  BY <2>4, <2>7
<1>3. T = Nat
  <2>1. T \in SUBSET Nat
    OBVIOUS
  <2> HIDE DEF T
  <2> QED  BY <1>1, <1>2, <2>1, Numbers
<1>4. Cardinality(S) \in T
  BY <1>0, <1>3
<1>5. PICK F \in [SUBSET S -> Nat] : Upto(F, Cardinality(S))
  <2> HIDE DEF Upto
  <2> QED  BY <1>4
<1>6. ASSUME NEW s \in SUBSET S
      PROVE  F[s] = IF s = {} THEN 0 ELSE f[Pick(s)] + F[s \ {Pick(s)}]
  <2>1. Cardinality(s) <= Cardinality(S)
    BY FS_Subset
  <2> QED  BY <1>5, <2>1
<1>7. F = [s \in SUBSET S |-> F[s]]
  OBVIOUS
<1>8. F = [s \in SUBSET S |-> IF s = {} THEN 0 ELSE f[Pick(s)] + F[s \ {Pick(s)}]]
  BY <1>6, <1>7
<1> QED  BY <1>8 DEF SumEq

\* The sum of numbers.
LEMMA SumIsNat ==
  ASSUME NEW S, IsFiniteSet(S), NEW f \in [S -> Nat], NEW F, SumEq(F, f, S)
  PROVE  F \in [SUBSET S -> Nat]
<1> DEFINE G == {s \in SUBSET S : F[s] \in Nat}
<1>1. {} \in G
  BY DEF SumEq
<1>2. ASSUME NEW s \in SUBSET S, s # {}, s \ {Pick(s)} \in G PROVE s \in G
  <2>1. Pick(s) \in s
    BY <1>2 DEF Pick
  <2>2. f[Pick(s)] \in Nat
    BY <2>1
  <2>3. F[s] = f[Pick(s)] + F[s \ {Pick(s)}]
    BY <1>2 DEF SumEq
  <2> QED  BY <1>2, <2>2, <2>3
<1>3. G = SUBSET S
  <2>1. G \in SUBSET (SUBSET S)
    OBVIOUS
  <2> HIDE DEF G
  <2> QED  BY <1>1, <1>2, <2>1, Subsets
<1>4. F = [s \in SUBSET S |-> F[s]]
  BY DEF SumEq
<1> QED  BY <1>3, <1>4

\* The sum of nothing but zeros.
LEMMA SumOfZeros ==
  ASSUME NEW S, IsFiniteSet(S), NEW f \in [S -> Nat], NEW F, SumEq(F, f, S),
         \A m \in S : f[m] = 0
  PROVE  F[S] = 0
<1> DEFINE G == {s \in SUBSET S : F[s] = 0}
<1>1. {} \in G
  BY DEF SumEq
<1>2. ASSUME NEW s \in SUBSET S, s # {}, s \ {Pick(s)} \in G PROVE s \in G
  <2>1. Pick(s) \in s
    BY <1>2 DEF Pick
  <2>2. f[Pick(s)] = 0
    BY <2>1
  <2>3. F[s] = f[Pick(s)] + F[s \ {Pick(s)}]
    BY <1>2 DEF SumEq
  <2> QED  BY <1>2, <2>2, <2>3
<1>3. S \in G
  <2>1. G \in SUBSET (SUBSET S)
    OBVIOUS
  <2> HIDE DEF G
  <2>2. G = SUBSET S
    BY <1>1, <1>2, <2>1, Subsets
  <2> QED  BY <2>2
<1> QED  BY <1>3


\* The sum of the shares that the nodes have in the row of e.
Total(g, e) == MapThenSumSet(LAMBDA n : g[n][e], Nodes)

Shares(g, e) == [n \in Nodes |-> g[n][e]]

LEMMA TotalIsSum ==
  ASSUME NEW g \in [Nodes -> [Emails -> Nat]], NEW e \in Emails
  PROVE  /\ Shares(g, e) \in [Nodes -> Nat]
         /\ \E F : SumEq(F, Shares(g, e), Nodes) /\ Total(g, e) = F[Nodes]
<1> DEFINE f == Shares(g, e)
<1>0. f \in [Nodes -> Nat]
  BY DEF Shares
<1> DEFINE iter == CHOOSE iter : iter = [s \in SUBSET Nodes |->
               IF s = {} THEN 0
               ELSE LET x == CHOOSE x \in s : TRUE IN g[x][e] + iter[s \ {x}]]
<1>1. SumEq(iter, f, Nodes)
  <2>1. ASSUME NEW F, SumEq(F, f, Nodes)
        PROVE  F = [s \in SUBSET Nodes |-> IF s = {} THEN 0
                      ELSE LET x == CHOOSE x \in s : TRUE IN g[x][e] + F[s \ {x}]]
    <3>1. ASSUME NEW s \in SUBSET Nodes, s # {} PROVE f[Pick(s)] = g[Pick(s)][e]
      <4>1. Pick(s) \in Nodes
        BY <3>1 DEF Pick
      <4> QED  BY <4>1 DEF Shares
    <3>2. F = [s \in SUBSET Nodes |-> IF s = {} THEN 0 ELSE f[Pick(s)] + F[s \ {Pick(s)}]]
      BY <2>1 DEF SumEq
    <3>3. [s \in SUBSET Nodes |-> IF s = {} THEN 0 ELSE f[Pick(s)] + F[s \ {Pick(s)}]]
            = [s \in SUBSET Nodes |-> IF s = {} THEN 0 ELSE g[Pick(s)][e] + F[s \ {Pick(s)}]]
      BY <3>1
    <3>4. F = [s \in SUBSET Nodes |-> IF s = {} THEN 0 ELSE g[Pick(s)][e] + F[s \ {Pick(s)}]]
      BY <3>2, <3>3
    <3> QED  BY <3>4, Zenon DEF Pick
  <2>2. ASSUME NEW F, F = [s \in SUBSET Nodes |-> IF s = {} THEN 0
                      ELSE LET x == CHOOSE x \in s : TRUE IN g[x][e] + F[s \ {x}]]
        PROVE  SumEq(F, f, Nodes)
    <3>1. ASSUME NEW s \in SUBSET Nodes, s # {} PROVE f[Pick(s)] = g[Pick(s)][e]
      <4>1. Pick(s) \in Nodes
        BY <3>1 DEF Pick
      <4> QED  BY <4>1 DEF Shares
    <3>2. F = [s \in SUBSET Nodes |-> IF s = {} THEN 0 ELSE g[Pick(s)][e] + F[s \ {Pick(s)}]]
      BY <2>2, Zenon DEF Pick
    <3>3. [s \in SUBSET Nodes |-> IF s = {} THEN 0 ELSE f[Pick(s)] + F[s \ {Pick(s)}]]
            = [s \in SUBSET Nodes |-> IF s = {} THEN 0 ELSE g[Pick(s)][e] + F[s \ {Pick(s)}]]
      BY <3>1
    <3>4. F = [s \in SUBSET Nodes |-> IF s = {} THEN 0 ELSE f[Pick(s)] + F[s \ {Pick(s)}]]
      BY <3>2, <3>3
    <3> QED  BY <3>4 DEF SumEq
  <2>3. \E F : F = [s \in SUBSET Nodes |-> IF s = {} THEN 0
                      ELSE LET x == CHOOSE x \in s : TRUE IN g[x][e] + F[s \ {x}]]
    <3> HIDE DEF f
    <3>1. IsFiniteSet(Nodes)
      BY TrafficAssumption
    <3>2. PICK F : SumEq(F, f, Nodes)
      BY <1>0, <3>1, SumExists
    <3>3. F = [s \in SUBSET Nodes |-> IF s = {} THEN 0
                      ELSE LET x == CHOOSE x \in s : TRUE IN g[x][e] + F[s \ {x}]]
      BY <2>1, <3>2
    <3> WITNESS F
    <3> QED  BY <3>3
  <2>4. iter = [s \in SUBSET Nodes |-> IF s = {} THEN 0
                  ELSE LET x == CHOOSE x \in s : TRUE IN g[x][e] + iter[s \ {x}]]
    BY <2>3
  <2> HIDE DEF iter, f
  <2> QED  BY <2>2, <2>4
<1>2. Total(g, e) = iter[Nodes]
  BY DEF Total, MapThenSumSet, MapThenFoldSet
<1> HIDE DEF iter
<1> QED  BY <1>0, <1>1, <1>2

LEMMA TotalIsNat ==
  ASSUME NEW g \in [Nodes -> [Emails -> Nat]], NEW e \in Emails
  PROVE  Total(g, e) \in Nat
<1>1. PICK F : SumEq(F, Shares(g, e), Nodes) /\ Total(g, e) = F[Nodes]
  BY TotalIsSum
<1>2. IsFiniteSet(Nodes) /\ Shares(g, e) \in [Nodes -> Nat]
  BY TotalIsSum, TrafficAssumption
<1>3. F \in [SUBSET Nodes -> Nat]
  BY <1>1, <1>2, SumIsNat
<1> QED  BY <1>1, <1>3

\* The share of one node changes.
LEMMA TotalOfOne ==
  ASSUME NEW g \in [Nodes -> [Emails -> Nat]], NEW h \in [Nodes -> [Emails -> Nat]],
         NEW e \in Emails, NEW n \in Nodes, \A m \in Nodes : m # n => g[m][e] = h[m][e]
  PROVE  Total(h, e) + g[n][e] = Total(g, e) + h[n][e]
<1> DEFINE f == Shares(g, e)
           k == Shares(h, e)
<1>1. PICK F : SumEq(F, f, Nodes) /\ Total(g, e) = F[Nodes]
  BY TotalIsSum
<1>2. PICK H : SumEq(H, k, Nodes) /\ Total(h, e) = H[Nodes]
  BY TotalIsSum
<1>3. IsFiniteSet(Nodes) /\ f \in [Nodes -> Nat] /\ k \in [Nodes -> Nat]
  BY TotalIsSum, TrafficAssumption
<1>4. f[n] = g[n][e] /\ k[n] = h[n][e] /\ \A m \in Nodes : m # n => f[m] = k[m]
  BY DEF Shares
<1> HIDE DEF f, k
<1> DEFINE G == {s \in SUBSET Nodes : IF n \in s THEN H[s] + f[n] = F[s] + k[n] ELSE H[s] = F[s]}
<1>5. F \in [SUBSET Nodes -> Nat] /\ H \in [SUBSET Nodes -> Nat]
  BY <1>1, <1>2, <1>3, SumIsNat
<1>6. {} \in G
  BY <1>1, <1>2 DEF SumEq
<1>7. ASSUME NEW s \in SUBSET Nodes, s # {}, s \ {Pick(s)} \in G PROVE s \in G
  <2> DEFINE x == Pick(s)
             r == s \ {x}
  <2>1. x \in s
    BY <1>7 DEF Pick
  <2>2. F[s] = f[x] + F[r] /\ H[s] = k[x] + H[r]
    BY <1>1, <1>2, <1>7 DEF SumEq
  <2>3. r \in SUBSET Nodes /\ x \in Nodes /\ x \notin r /\ s = r \cup {x} /\ r \in G
    BY <1>7, <2>1
  <2> HIDE DEF x, r
  <2>4. F[r] \in Nat /\ H[r] \in Nat /\ f[x] \in Nat /\ k[x] \in Nat /\ f[n] \in Nat /\ k[n] \in Nat
    BY <1>5, <1>3, <2>3
  <2>5. CASE x = n
    <3>1. H[r] = F[r] /\ n \in s
      BY <2>3, <2>5
    <3>2. H[s] + f[n] = F[s] + k[n]
      BY <2>2, <2>4, <2>5, <3>1
    <3> QED  BY <3>1, <3>2
  <2>6. CASE x # n /\ n \in s
    <3>1. n \in r /\ f[x] = k[x]
      BY <1>4, <2>3, <2>6
    <3>2. H[r] + f[n] = F[r] + k[n]
      BY <2>3, <3>1
    <3>3. PICK a \in Nat, b \in Nat, c \in Nat, v \in Nat, w \in Nat :
            a = F[r] /\ b = H[r] /\ c = f[x] /\ v = f[n] /\ w = k[n]
      BY <2>4
    <3>4. b + v = a + w /\ F[s] = c + a /\ H[s] = c + b
      BY <2>2, <3>1, <3>2, <3>3
    <3>5. H[s] + v = F[s] + w
      <4>1. (c + b) + v = (c + a) + w
        BY <3>4
      <4> QED  BY <3>4, <4>1
    <3>6. H[s] + f[n] = F[s] + k[n]
      BY <3>3, <3>5
    <3> QED  BY <2>6, <3>6
  <2>7. CASE x # n /\ n \notin s
    <3>1. n \notin r /\ f[x] = k[x]
      BY <1>4, <2>3, <2>7
    <3>2. H[r] = F[r]
      BY <2>3, <3>1
    <3>3. H[s] = F[s]
      BY <2>2, <2>4, <3>1, <3>2
    <3> QED  BY <2>7, <3>3
  <2> QED  BY <2>5, <2>6, <2>7
<1>8. Nodes \in G
  <2>1. G \in SUBSET (SUBSET Nodes)
    OBVIOUS
  <2> HIDE DEF G
  <2>2. G = SUBSET Nodes
    BY <1>3, <1>6, <1>7, <2>1, Subsets
  <2> QED  BY <2>2
<1>9. H[Nodes] + f[n] = F[Nodes] + k[n]
  BY <1>8
<1> QED  BY <1>1, <1>2, <1>4, <1>9

\* No node has a share.
LEMMA TotalOfNone ==
  ASSUME NEW g \in [Nodes -> [Emails -> Nat]], NEW e \in Emails,
         \A m \in Nodes : g[m][e] = 0
  PROVE  Total(g, e) = 0
<1> DEFINE f == Shares(g, e)
<1>1. PICK F : SumEq(F, f, Nodes) /\ Total(g, e) = F[Nodes]
  BY TotalIsSum
<1>2. IsFiniteSet(Nodes) /\ f \in [Nodes -> Nat]
  BY TotalIsSum, TrafficAssumption
<1>3. \A m \in Nodes : f[m] = 0
  BY DEF Shares
<1> HIDE DEF f
<1>4. F[Nodes] = 0
  BY <1>1, <1>2, <1>3, SumOfZeros
<1> QED  BY <1>1, <1>4

\* No share changes.
LEMMA TotalOfSame ==
  ASSUME NEW g \in [Nodes -> [Emails -> Nat]], NEW h \in [Nodes -> [Emails -> Nat]],
         NEW e \in Emails, \A m \in Nodes : g[m][e] = h[m][e]
  PROVE  Total(h, e) = Total(g, e)
<1>1. CASE Nodes = {}
  <2>1. Total(g, e) = 0 /\ Total(h, e) = 0
    BY <1>1, TotalOfNone
  <2> QED  BY <2>1
<1>2. CASE Nodes # {}
  <2>1. PICK n \in Nodes : TRUE
    BY <1>2
  <2>2. Total(h, e) + g[n][e] = Total(g, e) + h[n][e]
    BY TotalOfOne
  <2>3. g[n][e] = h[n][e] /\ g[n][e] \in Nat
    OBVIOUS
  <2>4. Total(g, e) \in Nat /\ Total(h, e) \in Nat
    BY TotalIsNat
  <2>5. \A a, b, c \in Nat : a + c = b + c => a = b
    OBVIOUS
  <2>6. Total(h, e) + g[n][e] = Total(g, e) + g[n][e]
    BY <2>2, <2>3
  <2> QED  BY <2>3, <2>4, <2>5, <2>6
<1> QED  BY <1>1, <1>2

\* One node's share is all there is.
LEMMA TotalOfOnly ==
  ASSUME NEW g \in [Nodes -> [Emails -> Nat]], NEW e \in Emails, NEW n \in Nodes,
         \A m \in Nodes : m # n => g[m][e] = 0
  PROVE  Total(g, e) = g[n][e]
<1> DEFINE z == [m \in Nodes |-> [d \in Emails |-> 0]]
<1>1. z \in [Nodes -> [Emails -> Nat]] /\ \A m \in Nodes : z[m][e] = 0
  OBVIOUS
<1> HIDE DEF z
<1>2. Total(z, e) = 0
  BY <1>1, TotalOfNone
<1>3. Total(g, e) + z[n][e] = Total(z, e) + g[n][e]
  <2>1. z \in [Nodes -> [Emails -> Nat]]
    BY <1>1
  <2>2. \A m \in Nodes : m # n => z[m][e] = g[m][e]
    BY <1>1
  <2> QED  BY <2>1, <2>2, TotalOfOne, Zenon
<1>4. Total(g, e) \in Nat /\ g[n][e] \in Nat
  BY TotalIsNat
<1> QED  BY <1>1, <1>2, <1>3, <1>4

-----------------------------------------------------------------------------
(***************************************************************************)
(* The row of a client is the sum of the shares, and without a row there   *)
(* are none.                                                               *)
(***************************************************************************)

RowSum(e) ==
    /\ HasRow(e) => row[e].used = local[e] + Total(charged, e)
    /\ ~HasRow(e) => local[e] = 0 /\ \A n \in Nodes : charged[n][e] = 0

SumInv == \A e \in Emails : RowSum(e)

\* The effects of a step on one client: nothing, or a new row with nothing in
\* it; all shares end; one node's share is all there is; one node's share grows
\* with the row; the local share grows with it.
Still(e) ==
    /\ local'[e] = local[e] /\ \A n \in Nodes : charged'[n][e] = charged[n][e]
    /\ HasRow(e) => row'[e] # NoRow /\ row'[e].used = row[e].used
    /\ ~HasRow(e) /\ row'[e] # NoRow => row'[e].used = 0

Cleared(e) ==
    /\ local'[e] = 0 /\ \A n \in Nodes : charged'[n][e] = 0
    /\ row'[e] # NoRow => row'[e].used = 0

Alone(n, e) ==
    /\ local'[e] = 0 /\ \A m \in Nodes : m # n => charged'[m][e] = 0
    /\ row'[e] # NoRow => row'[e].used = charged'[n][e]
    /\ row'[e] = NoRow => charged'[n][e] = 0

Gained(n, e) ==
    /\ HasRow(e) /\ row'[e] # NoRow
    /\ local'[e] = local[e] /\ \A m \in Nodes : m # n => charged'[m][e] = charged[m][e]
    /\ row'[e].used + charged[n][e] = row[e].used + charged'[n][e]

Locally(e) ==
    /\ HasRow(e) /\ row'[e] # NoRow
    /\ local'[e] = local[e] + 1 /\ row'[e].used = row[e].used + 1
    /\ \A n \in Nodes : charged'[n][e] = charged[n][e]

LEMMA EffectKeepsSum ==
    ASSUME TypeInv, TypeInv', NEW e \in Emails, RowSum(e),
           \/ Still(e) \/ Cleared(e) \/ Locally(e)
           \/ \E n \in Nodes : Alone(n, e) \/ Gained(n, e)
    PROVE  RowSum(e)'
<1>1. /\ charged \in [Nodes -> [Emails -> Nat]] /\ charged' \in [Nodes -> [Emails -> Nat]]
      /\ local[e] \in Nat /\ local'[e] \in Nat
  BY DEF TypeInv, Inv, CounterType, HistoryType
<1>2. /\ HasRow(e) => row[e].used \in Nat
      /\ row'[e] # NoRow => row'[e].used \in Nat
  BY DEF TypeInv, RowType, HasRow, Row
<1> DEFINE t == Total(charged, e)
           u == Total(charged', e)
<1>3. t \in Nat /\ u \in Nat
  BY <1>1, TotalIsNat
<1>4. /\ HasRow(e) => row[e].used = local[e] + t
      /\ ~HasRow(e) => local[e] = 0 /\ \A n \in Nodes : charged[n][e] = 0
  BY DEF RowSum
<1>5. SUFFICES /\ row'[e] # NoRow => row'[e].used = local'[e] + u
               /\ row'[e] = NoRow => local'[e] = 0 /\ \A n \in Nodes : charged'[n][e] = 0
  BY DEF RowSum, HasRow
<1>6. ~HasRow(e) => t = 0
  BY <1>1, <1>4, TotalOfNone
<1>7. (\A n \in Nodes : charged[n][e] = charged'[n][e]) => u = t
  BY <1>1, TotalOfSame
<1>8. (\A n \in Nodes : charged'[n][e] = 0) => u = 0
  BY <1>1, TotalOfNone
<1>9. \A n \in Nodes : (\A m \in Nodes : m # n => charged'[m][e] = 0) => u = charged'[n][e]
  BY <1>1, TotalOfOnly
<1>10. \A n \in Nodes : (\A m \in Nodes : m # n => charged[m][e] = charged'[m][e])
                          => u + charged[n][e] = t + charged'[n][e]
  BY <1>1, TotalOfOne
<1>11. \A n \in Nodes : charged[n][e] \in Nat /\ charged'[n][e] \in Nat
  BY <1>1
<1> HIDE DEF t, u
<1>12. CASE Still(e)
  BY <1>12, <1>1, <1>3, <1>4, <1>6, <1>7 DEF Still, HasRow
<1>13. CASE Cleared(e)
  BY <1>13, <1>1, <1>3, <1>8 DEF Cleared
<1>14. CASE Locally(e)
  <2>1. /\ row'[e].used = row[e].used + 1 /\ local'[e] = local[e] + 1 /\ u = t
        /\ row'[e] # NoRow /\ row[e].used = local[e] + t
    BY <1>14, <1>4, <1>7 DEF Locally
  <2>2. row'[e].used = local'[e] + u
    BY <2>1, <1>1, <1>3
  <2> QED  BY <2>1, <2>2
<1>15. ASSUME NEW n \in Nodes, Alone(n, e)
       PROVE  /\ row'[e] # NoRow => row'[e].used = local'[e] + u
              /\ row'[e] = NoRow => local'[e] = 0 /\ \A m \in Nodes : charged'[m][e] = 0
  BY <1>15, <1>1, <1>2, <1>3, <1>9, <1>11 DEF Alone
<1>16. ASSUME NEW n \in Nodes, Gained(n, e)
       PROVE  /\ row'[e] # NoRow => row'[e].used = local'[e] + u
              /\ row'[e] = NoRow => local'[e] = 0 /\ \A m \in Nodes : charged'[m][e] = 0
  <2>1. u + charged[n][e] = t + charged'[n][e]
    BY <1>10, <1>16 DEF Gained
  <2>2. /\ row[e].used = local[e] + t /\ local'[e] = local[e] /\ row'[e] # NoRow
        /\ row'[e].used + charged[n][e] = row[e].used + charged'[n][e]
    BY <1>4, <1>16 DEF Gained
  <2>3. row[e].used \in Nat /\ row'[e].used \in Nat
    BY <1>2, <1>16 DEF Gained
  <2>4. local[e] \in Nat /\ charged[n][e] \in Nat /\ charged'[n][e] \in Nat
    BY <1>1, <1>11
  <2>5. \A a, b, l, v, w, x, y \in Nat :
          (v + a = w + b) /\ (x = l + w) /\ (y + a = x + b) => y = l + v
    OBVIOUS
  <2>6. row'[e].used = local[e] + u
    BY <2>1, <2>2, <2>3, <2>4, <2>5, <1>3
  <2> QED  BY <2>2, <2>6
<1> QED  BY <1>12, <1>13, <1>14, <1>15, <1>16

\* The merge of one node's snapshot: the row of a client starts again with this
\* node's share alone, or it gains what the share gains.
LEMMA MergeKeepsSum ==
    ASSUME TypeInv, TypeInv', SumInv, NEW n \in Nodes, SetRemoteTraffic(n)
    PROVE  SumInv'
<1> SUFFICES ASSUME NEW e \in Emails PROVE RowSum(e)'
  BY DEF SumInv
<1>0. RowSum(e)
  BY DEF SumInv
<1>1. PICK dirty \in BOOLEAN, made \in SUBSET Tags, first \in [Emails -> Tags] :
        MergeWith(n, dirty, made, first)
  BY MergeChoices DEF TypeInv
<1> DEFINE s == snap[n]
           new == RowAfter(n, s, dirty, made, first, e)
           share == ShareAfter(n, s, dirty, made, first, e)
           again == Restarts(n, s, dirty, made, first, e)
<1>2. row'[e] = new
  BY <1>1 DEF MergeWith
<1>3. charged'[n][e] = share
  BY <1>1 DEF MergeWith, MergeHistory
<1>4. local'[e] = IF again THEN 0 ELSE local[e]
  BY <1>1 DEF MergeWith, MergeHistory
<1>5. \A m \in Nodes : m # n => charged'[m][e] = IF again THEN 0 ELSE charged[m][e]
  BY <1>1 DEF MergeWith, MergeHistory
<1>6. /\ charged[n][e] \in Nat /\ charged'[n][e] \in Nat
      /\ row[e] \in {NoRow} \cup Row /\ base[n][e] \in Nat \cup {None}
      /\ s \in Snapshot /\ CopiesInv(s)
  BY MergeChoices DEF TypeInv, Inv, CounterType, RowType
<1>7. CASE new = NoRow
  <2>1. share = 0 /\ again
    BY <1>7 DEF ShareAfter, Restarts
  <2>2. Alone(n, e)
    BY <1>2, <1>3, <1>4, <1>5, <1>7, <2>1 DEF Alone
  <2> QED  BY <1>0, <2>2, EffectKeepsSum
<1>8. CASE new # NoRow /\ Seeded(n, s, dirty, made, e)
  <2>1. again /\ share = SeedOf(s, made, first[e], e)
    BY <1>8 DEF Restarts, ShareAfter
  <2>2. new.used = SeedOf(s, made, first[e], e)
    BY <1>8 DEF RowAfter, RowAfterStats
  <2>3. Alone(n, e)
    BY <1>2, <1>3, <1>4, <1>5, <1>8, <2>1, <2>2 DEF Alone
  <2> QED  BY <1>0, <2>3, EffectKeepsSum
<1>9. CASE new # NoRow /\ ~Seeded(n, s, dirty, made, e)
  <2> DEFINE r == RowAfterSweep(n, s, dirty, e)
  <2>1. new = RowAfterStats(n, s, dirty, made, first, e)
    BY <1>9 DEF RowAfter
  <2>2. r # NoRow
    BY <1>9, <2>1 DEF RowAfterStats
  <2>3. HasRow(e) /\ row[e] \in Row /\ r \in Row /\ r.used = row[e].used
    <3>1. CASE ~HomeSwept(n, s, dirty, e)
      <4>1. r = row[e]
        BY <3>1 DEF RowAfterSweep
      <4> QED  BY <1>6, <2>2, <4>1 DEF HasRow
    <3>2. CASE HomeSwept(n, s, dirty, e)
      <4>1. HasRow(e) /\ row[e] \in Row
        BY <1>6, <3>2 DEF HomeSwept, HasRow
      <4>2. r = [row[e] EXCEPT !.home = GoneIb]
        BY <2>2, <3>2 DEF RowAfterSweep
      <4> QED  BY <4>1, <4>2 DEF Row
    <3> QED  BY <3>1, <3>2
  <2> HIDE DEF r, s
  <2>4. CASE ~Updated(n, s, made, e)
    <3>1. new = r
      BY <1>9, <2>1, <2>4 DEF RowAfterStats, r
    <3>2. ~again /\ share = charged[n][e]
      BY <1>9, <2>4 DEF Restarts, ShareAfter
    <3>3. Still(e)
      BY <1>2, <1>3, <1>4, <1>5, <1>9, <2>3, <3>1, <3>2 DEF Still
    <3> QED  BY <1>0, <3>3, EffectKeepsSum
  <2>5. CASE Updated(n, s, made, e) /\ NodeClientRenewed(n, s, e)
    <3>1. again /\ share = Canon(s, e)
      BY <1>9, <2>5 DEF Restarts, ShareAfter
    <3>2. new = [r EXCEPT !.used = Canon(s, e), !.exp = s.exp[e]]
      BY <1>9, <2>1, <2>2, <2>5 DEF RowAfterStats, r
    <3>3. new.used = Canon(s, e)
      BY <2>3, <3>2 DEF Row
    <3> HIDE DEF new, share, again
    <3>4. Alone(n, e)
      BY <1>2, <1>3, <1>4, <1>5, <1>9, <3>1, <3>3 DEF Alone
    <3> QED  BY <1>0, <3>4, EffectKeepsSum
  <2>6. CASE Updated(n, s, made, e) /\ ~NodeClientRenewed(n, s, e)
    <3>1. ~again /\ share = charged[n][e] + Delta(n, s, e)
      BY <1>9, <2>6 DEF Restarts, ShareAfter
    <3>2. new = [r EXCEPT !.used = @ + Delta(n, s, e), !.exp = MergeActivationExpiry(@, s.exp[e])]
      BY <1>9, <2>1, <2>2, <2>6 DEF RowAfterStats, r
    <3>3. new.used = row[e].used + Delta(n, s, e)
      BY <2>3, <3>2 DEF Row
    <3>4. Delta(n, s, e) \in Nat
      <4>1. Canon(s, e) = s.top[e] /\ s.top[e] \in Nat
        <5>1. Reporting(s, e) # {}
          BY <2>6 DEF Updated
        <5> QED  BY <1>6, <5>1, CanonIsTop DEF Snapshot, s
      <4> QED  BY <1>6, <4>1 DEF Delta, None
    <3>5. row[e].used \in Nat
      BY <2>3 DEF Row
    <3> HIDE DEF new, share, again
    <3>6. row'[e].used + charged[n][e] = row[e].used + charged'[n][e]
      BY <1>2, <1>3, <1>6, <3>1, <3>3, <3>4, <3>5
    <3>7. Gained(n, e)
      BY <1>2, <1>4, <1>5, <1>9, <2>3, <3>1, <3>6 DEF Gained
    <3> QED  BY <1>0, <3>7, EffectKeepsSum
  <2> QED  BY <2>4, <2>5, <2>6
<1> QED  BY <1>7, <1>8, <1>9

LEMMA MasterKeepsSum ==
    ASSUME TypeInv, TypeInv', SumInv, Master PROVE SumInv'
<1> SUFFICES ASSUME NEW e \in Emails
             PROVE  Still(e) \/ Cleared(e) \/ Locally(e)
  BY EffectKeepsSum DEF SumInv
<1>0. /\ charged \in [Nodes -> [Emails -> Nat]] /\ local \in [Emails -> Nat]
      /\ row \in [Emails -> {NoRow} \cup Row]
  BY DEF TypeInv, Inv, CounterType, HistoryType, RowType
<1>1. ASSUME NEW E \in SUBSET Emails, Zeroed(E) PROVE Still(e) \/ Cleared(e)
  <2>1. local'[e] = (IF e \in E THEN 0 ELSE local[e])
        /\ \A n \in Nodes : charged'[n][e] = IF e \in E THEN 0 ELSE charged[n][e]
    BY <1>1 DEF Zeroed
  <2>2. row'[e] = IF e \in E /\ HasRow(e) THEN [row[e] EXCEPT !.used = 0] ELSE row[e]
    BY <1>1 DEF Zeroed
  <2>3. CASE e \in E
    <3>1. HasRow(e) => row'[e].used = 0
      <4>1. HasRow(e) => row[e] \in Row
        BY <1>0 DEF HasRow
      <4> QED  BY <2>2, <2>3, <4>1 DEF Row
    <3> QED  BY <2>1, <2>2, <2>3, <3>1 DEF Cleared, HasRow
  <2>4. CASE e \notin E
    BY <2>1, <2>2, <2>4 DEF Still, HasRow
  <2> QED  BY <2>3, <2>4
<1>2. ASSUME NEW f \in Emails, TrafficRemoved(f) PROVE Still(e) \/ Cleared(e)
  <2>1. CASE e = f
    BY <1>0, <1>2, <2>1 DEF TrafficRemoved, Cleared
  <2>2. CASE e # f
    BY <1>0, <1>2, <2>2 DEF TrafficRemoved, Still, HasRow
  <2> QED  BY <2>1, <2>2
<1>3. ASSUME row' = row, charged' = charged, local' = local PROVE Still(e)
  BY <1>3 DEF Still, HasRow
<1>4. ASSUME NEW f \in Emails, AddLocalTraffic(f) PROVE Still(e) \/ Locally(e)
  <2>1. CASE e # f
    BY <1>0, <1>4, <2>1 DEF AddLocalTraffic, Still, HasRow
  <2>2. CASE e = f
    <3>1. row[e] \in Row
      BY <1>0, <1>4, <2>2 DEF AddLocalTraffic, HasRow
    <3>2. row'[e].used = row[e].used + 1 /\ row'[e] # NoRow
      <4>1. PICK x : row'[e] = [row[e] EXCEPT !.used = @ + 1, !.exp = x]
        BY <1>0, <1>4, <2>2 DEF AddLocalTraffic
      <4>2. row'[e] \in Row
        BY <4>1, <3>1 DEF TypeInv, RowType, Row, NoRow
      <4> QED  BY <3>1, <4>1, <4>2 DEF Row, NoRow
    <3> QED  BY <1>0, <1>4, <2>2, <3>2 DEF AddLocalTraffic, Locally
  <2> QED  BY <2>1, <2>2
<1>5. ASSUME NEW ib \in Inbound, SaveSettings(ib) PROVE Still(e) \/ Cleared(e)
  <2>1. PICK f \in Emails : TrafficKept \/ TrafficRemoved(f) \/ AddClientStat(f, ib)
    BY <1>5, SaveEffect DEF TypeInv
  <2>2. CASE AddClientStat(f, ib)
    <3>1. charged' = charged /\ local' = local
      BY <2>2 DEF AddClientStat
    <3>2. row'[e] = IF e = f /\ ~HasRow(e) THEN [used |-> 0, home |-> ib, exp |-> -1] ELSE row[e]
      BY <1>0, <2>2 DEF AddClientStat, HasRow
    <3> QED  BY <3>1, <3>2 DEF Still, HasRow
  <2> QED  BY <1>2, <1>3, <2>1, <2>2 DEF TrafficKept
<1>6. CASE \E f \in Emails : AddLocalTraffic(f)
  BY <1>4, <1>6
<1>7. CASE \/ \E f \in Emails : ResetClientTrafficByEmail(f)
           \/ \E n \in Nodes, t \in Tags, f \in Emails : ResetClientTraffic(n, t, f)
           \/ ResetAllTraffics
  BY <1>1, <1>7 DEF ResetClientTrafficByEmail, ResetClientTraffic, ResetAllTraffics
<1>8. CASE \E f \in Emails : DeleteFinish(f)
  <2>1. PICK f \in Emails : TrafficKept \/ TrafficRemoved(f)
    BY <1>8 DEF DeleteFinish
  <2> QED  BY <1>2, <1>3, <2>1 DEF TrafficKept
<1>9. CASE \/ \E f \in Emails : \/ \E keepTraffic \in BOOLEAN : Delete(f, keepTraffic)
                                \/ DeleteFails(f) \/ TombstoneExpires(f)
           \/ QuietRequest
  <2>1. row' = row /\ charged' = charged /\ local' = local
    BY <1>9, QuietRequestKeeps DEF Delete, DeleteFails, TombstoneExpires, historyVars
  <2> QED  BY <1>3, <2>1
<1>10. CASE \E ib \in Inbound : SaveSettings(ib)
  BY <1>5, <1>10
<1> QED  BY <1>6, <1>7, <1>8, <1>9, <1>10 DEF Master, QuietRequest

LEMMA NodeKeepsSum ==
    ASSUME NEW n \in Nodes, Node(n) \/ Fetch(n) \/ FetchBlank(n) \/ DropSnapshot(n)
    PROVE  row' = row /\ charged' = charged /\ local' = local
<1>1. ASSUME Node(n) PROVE row' = row /\ charged' = charged /\ local' = local
  BY <1>1 DEF Node, NodeAddInbound, NodeDelInbound, NodeRename, NodeAttach, NodeDetach,
     NodeEdit, Use, NodeReset, NodeRenew, historyVars
<1>2. ASSUME Fetch(n) \/ FetchBlank(n) \/ DropSnapshot(n)
      PROVE  row' = row /\ charged' = charged /\ local' = local
  BY <1>2 DEF Fetch, FetchBlank, DropSnapshot, historyVars
<1> QED  BY <1>1, <1>2

LEMMA SumInvStep == TypeInv /\ TypeInv' /\ SumInv /\ [Next]_vars => SumInv'
<1> SUFFICES ASSUME TypeInv, TypeInv', SumInv, [Next]_vars PROVE SumInv'
  OBVIOUS
<1>1. ASSUME row' = row, charged' = charged, local' = local PROVE SumInv'
  <2> SUFFICES ASSUME NEW e \in Emails PROVE Still(e)
    BY EffectKeepsSum DEF SumInv
  <2> QED  BY <1>1 DEF Still, HasRow
<1>2. CASE UNCHANGED vars
  BY <1>1, <1>2 DEF vars, historyVars
<1>3. ASSUME NEW n \in Nodes, Node(n) \/ Sync(n) PROVE SumInv'
  <2>1. CASE SetRemoteTraffic(n)
    BY <2>1, MergeKeepsSum
  <2>2. CASE Node(n) \/ Fetch(n) \/ FetchBlank(n) \/ DropSnapshot(n)
    BY <1>1, <2>2, NodeKeepsSum
  <2> QED  BY <1>3, <2>1, <2>2 DEF Sync
<1> QED  BY <1>2, <1>3, MasterKeepsSum DEF Next

LEMMA InitSumInv == Init => SumInv
<1> SUFFICES ASSUME Init, NEW e \in Emails PROVE RowSum(e)
  BY DEF SumInv
<1>1. local[e] = 0 /\ \A n \in Nodes : charged[n][e] = 0
  BY DEF Init
<1>2. Total(charged, e) = 0
  <2>1. charged \in [Nodes -> [Emails -> Nat]]
    BY DEF Init
  <2> QED  BY <1>1, <2>1, TotalOfNone
<1>3. HasRow(e) => row[e].used = 0
  BY DEF Init, HasRow
<1> QED  BY <1>1, <1>2, <1>3 DEF RowSum

\* The accumulator row of a client is at all times the master's own share and
\* the shares of its nodes, for any number of nodes: a merge of one node changes
\* nothing of what another node, or the local Xray, has put in.
THEOREM RowsAreSums == Spec => []RowIsSum
<1>1. SumInv => RowIsSum
  BY DEF SumInv, RowSum, RowIsSum, Total
<1> QED
  BY <1>1, InitSumInv, SumInvStep, TypeInvariant, PTL DEF Spec

-----------------------------------------------------------------------------
(***************************************************************************)
(* A deletion sticks.  While it is under way the settings that still name  *)
(* the client, and the requests that read them, are on inbounds the        *)
(* deletion has yet to come to; afterwards there are none of either, for a *)
(* request on an inbound that is gone inserts it again when it saves.      *)
(***************************************************************************)

\* The deletion of e has yet to come to the inbound.
Ahead(e, ib) == del[e].active /\ ib \in del[e].todo

\* The request on the inbound would put e back into its settings.
WouldRestore(e, ib) == req[ib] # NoReq /\ ~req[ib].lost /\ e \in req[ib].read

Going(e) ==
    /\ e \in tomb
    /\ \A ib \in Inbound : <<ib, e>> \in conf => Ahead(e, ib)
    /\ \A ib \in Inbound : <<ib, e>> \in link => del[e].active
    /\ \A ib \in Inbound : WouldRestore(e, ib) => ib \notin central \/ Ahead(e, ib)
    /\ sticks[e] = "all" => IF del[e].active THEN ~del[e].keep ELSE ~HasRow(e)

Sticking(e) == sticks[e] # "no" => Going(e)

ConfKnown == \A ib \in Inbound, e \in Emails : <<ib, e>> \in conf => ib \in central

GoneInv == ConfKnown /\ \A e \in Emails : Sticking(e)

\* What a merge does beside its tables, and what it does not adopt.
LEMMA MergeKnown ==
    ASSUME NEW n \in Nodes, SetRemoteTraffic(n)
    PROVE  \E dirty \in BOOLEAN, made \in SUBSET Tags, first \in [Emails -> Tags] :
             /\ MergeWith(n, dirty, made, first)
             /\ dirty => made = {}
             /\ made \subseteq snap[n].tags /\ made \cap Known(n, snap[n]) = {}
             /\ NewInbounds({n} \X made)
             /\ NoLonger({e \in Emails : Reporting(snap[n], e) \cap made # {}})
<1>1. PICK dirty \in BOOLEAN, made \in SUBSET Tags, first \in [Emails -> Tags] :
        /\ MergeWith(n, dirty, made, first)
        /\ NewInbounds({n} \X made)
        /\ NoLonger({e \in Emails : Reporting(snap[n], e) \cap made # {}})
  BY DEF SetRemoteTraffic
<1>2. made \subseteq snap[n].tags \ Known(n, snap[n]) /\ (dirty => made = {})
  BY <1>1 DEF MergeWith
<1> QED  BY <1>1, <1>2

\* A merge puts a client with a tombstone on no inbound that it does not make.
LEMMA MergeSticks ==
    ASSUME TypeInv, GoneInv, NEW n \in Nodes, SetRemoteTraffic(n) PROVE GoneInv'
<1>1. PICK dirty \in BOOLEAN, made \in SUBSET Tags, first \in [Emails -> Tags] :
        /\ MergeWith(n, dirty, made, first)
        /\ dirty => made = {}
        /\ made \subseteq snap[n].tags /\ made \cap Known(n, snap[n]) = {}
        /\ NewInbounds({n} \X made)
        /\ NoLonger({e \in Emails : Reporting(snap[n], e) \cap made # {}})
  BY MergeKnown
<1> DEFINE s == snap[n]
           K == {n} \X Known(n, s)
           W == {n} \X Swept(n, s, dirty)
           M == {n} \X made
<1>2. s \in Snapshot /\ s # NoSnap /\ tomb' = tomb
  BY MergeChoices DEF TypeInv
<1>3. central' = (central \cup M) \ W /\ K \subseteq central /\ W \subseteq central /\ M \cap W = {}
  <2>1. made \cap Swept(n, s, dirty) = {}
    BY <1>1 DEF Swept
  <2> QED  BY <1>1, <2>1 DEF MergeWith, Known, Swept
<1>4. \A ib \in Inbound, e \in Emails : <<ib, e>> \in conf' =>
        \/ <<ib, e>> \in conf /\ ib \notin W
        \/ /\ ib \in M \cup K /\ ib \notin W
           /\ e \in tomb => ib \in M /\ Reporting(s, e) \cap made # {}
  <2>1. conf' = ConfAfter(n, s, dirty, made)
    BY <1>1 DEF MergeWith
  <2>2. Known(n, s) \cap Swept(n, s, dirty) = {} /\ made \cap Swept(n, s, dirty) = {}
    BY <1>1 DEF Known, Swept
  <2> TAKE ib \in Inbound, e \in Emails
  <2>3. ASSUME <<ib, e>> \in conf', <<ib, e>> \notin conf \/ ib \in W
        PROVE  \E t \in Tags : /\ ib = <<n, t>> /\ <<t, e>> \in s.on
                               /\ t \in made \/ (t \in Known(n, s) /\ e \notin tomb)
    <3> DEFINE C == {q \in s.on : q[1] \in made \/ (q[1] \in Known(n, s) /\ q[2] \notin tomb)}
    <3>1. \/ conf' = conf /\ Swept(n, s, dirty) = {}
          \/ conf' = {p \in conf : p[1] \notin {n} \X (Known(n, s) \cup Swept(n, s, dirty))}
                     \cup {<<<<n, q[1]>>, q[2]>> : q \in C}
      BY <2>1 DEF ConfAfter, Swept
    <3>2. PICK q \in C : <<ib, e>> = <<<<n, q[1]>>, q[2]>>
      <4> HIDE DEF C
      <4> QED  BY <2>3, <3>1
    <3>3. s.on \in SUBSET (Tags \X Emails)
      BY <1>2 DEF Snapshot
    <3>4. q[1] \in Tags /\ q = <<q[1], q[2]>> /\ ib = <<n, q[1]>> /\ e = q[2]
      BY <3>2, <3>3
    <3> QED  BY <3>2, <3>4
  <2>4. ASSUME NEW t \in Tags, ib = <<n, t>>, <<t, e>> \in s.on,
               t \in made \/ (t \in Known(n, s) /\ e \notin tomb)
        PROVE  /\ ib \in M \cup K /\ ib \notin W
               /\ e \in tomb => ib \in M /\ Reporting(s, e) \cap made # {}
    BY <1>1, <2>2, <2>4 DEF Reporting
  <2> QED  BY <2>3, <2>4
<1>5. ASSUME NEW ib \in Inbound, NEW e \in Emails, <<ib, e>> \in link', e \in tomb
      PROVE  <<ib, e>> \in link
  BY <1>1, <1>5 DEF MergeWith, LinkAfter
<1>6. ConfKnown'
  BY <1>3, <1>4 DEF ConfKnown, GoneInv
<1>7. ASSUME NEW e \in Emails, sticks'[e] # "no" PROVE Going(e)'
  <2>1. sticks'[e] = sticks[e] /\ Reporting(s, e) \cap made = {}
    BY <1>1, <1>7 DEF NoLonger
  <2>2. Going(e)
    BY <1>7, <2>1 DEF GoneInv, Sticking
  <2>3. /\ del'[e].active = del[e].active /\ del'[e].keep = del[e].keep
        /\ del'[e].todo = del[e].todo \ M
    <3>1. del[e] \in Run
      BY DEF TypeInv, TableType
    <3>2. del'[e] = [del[e] EXCEPT !.todo = @ \ M]
      BY <1>1 DEF NewInbounds
    <3> QED  BY <3>1, <3>2 DEF Run
  <2>4. \A ib \in Inbound : <<ib, e>> \in conf' => <<ib, e>> \in conf /\ ib \notin M
    <3>1. M \cap central = {}
      BY <1>1, <1>2 DEF Known, Snapshot
    <3> QED  BY <1>4, <2>1, <2>2, <3>1 DEF Going, GoneInv, ConfKnown
  <2>5. \A ib \in Inbound : WouldRestore(e, ib)' => WouldRestore(e, ib) /\ ib \notin M
    <3> TAKE ib \in Inbound
    <3>1. req'[ib] = IF ib \in M /\ req[ib] # NoReq THEN [req[ib] EXCEPT !.lost = TRUE] ELSE req[ib]
      BY <1>1 DEF NewInbounds
    <3>2. req[ib] # NoReq => [req[ib] EXCEPT !.lost = TRUE].lost
      BY DEF TypeInv, RequestType, Request
    <3> QED  BY <3>1, <3>2 DEF WouldRestore
  <2>6. ~HasRow(e) => ~HasRow(e)'
    <3>1. ASSUME ~HasRow(e) PROVE RowAfter(n, s, dirty, made, first, e) = NoRow
      <4>1. ~Seeded(n, s, dirty, made, e)
        BY <2>1, <2>2 DEF Seeded, Seeders, Going, Reporting
      <4>2. RowAfterSweep(n, s, dirty, e) = NoRow /\ ~Updated(n, s, made, e)
        BY <3>1 DEF RowAfterSweep, HomeSwept, Updated, HasRow
      <4> QED  BY <4>1, <4>2 DEF RowAfter, RowAfterStats
    <3> QED  BY <1>1, <3>1 DEF MergeWith, HasRow
  <2>7. \A ib \in Inbound : ib \notin M /\ Ahead(e, ib) => Ahead(e, ib)'
    BY <2>3 DEF Ahead
  <2>8. \A ib \in Inbound : ib \notin M /\ ib \notin central => ib \notin central'
    BY <1>3
  <2> HIDE DEF M, K, W, s
  <2>9. /\ e \in tomb'
        /\ \A ib \in Inbound : <<ib, e>> \in conf' => Ahead(e, ib)'
        /\ \A ib \in Inbound : <<ib, e>> \in link' => del'[e].active
    BY <1>2, <1>5, <2>2, <2>3, <2>4, <2>7 DEF Going
  <2>10. \A ib \in Inbound : WouldRestore(e, ib)' => ib \notin central' \/ Ahead(e, ib)'
    BY <2>2, <2>5, <2>7, <2>8 DEF Going
  <2>11. sticks'[e] = "all" => IF del'[e].active THEN ~del'[e].keep ELSE ~HasRow(e)'
    BY <2>1, <2>2, <2>3, <2>6 DEF Going
  <2> QED  BY <2>9, <2>10, <2>11 DEF Going
<1> QED  BY <1>6, <1>7 DEF GoneInv, Sticking

\* A save writes what was read, and a client that was read is still to be deleted
\* there, or the inbound was gone.
LEMMA SaveSticks ==
    ASSUME TypeInv, GoneInv, NEW ib \in Inbound, SaveSettings(ib) PROVE GoneInv'
<1> DEFINE r == req[ib]
           S == SavedClients(r)
<1>1. r \in Request /\ r # NoReq /\ ~r.lost /\ tomb' = tomb
  BY SaveEffect DEF TypeInv, SaveSettings
<1>2. r.client \in Emails /\ r.read \in SUBSET Emails /\ S \in SUBSET Emails
  BY <1>1 DEF Request, SavedClients
<1>3. /\ central' = central \cup {ib}
      /\ conf' = {p \in conf : p[1] # ib} \cup ({ib} \X S)
      /\ link' = {p \in link : p[1] # ib} \cup ({ib} \X S)
      /\ req' = [req EXCEPT ![ib] = NoReq]
      /\ del' = IF r.op = "delete" THEN [del EXCEPT ![r.client].todo = @ \ {ib}] ELSE del
      /\ NoLonger(IF ib \notin central THEN S ELSE IF r.op = "add" THEN {r.client} ELSE {})
  BY DEF SaveSettings
<1>4. \A jb \in Inbound, e \in Emails :
        /\ <<jb, e>> \in conf' <=> IF jb = ib THEN e \in S ELSE <<jb, e>> \in conf
        /\ <<jb, e>> \in link' <=> IF jb = ib THEN e \in S ELSE <<jb, e>> \in link
  <2> HIDE DEF S
  <2> QED  BY <1>3
<1>5. ConfKnown'
  BY <1>3, <1>4 DEF ConfKnown, GoneInv
<1>6. ASSUME NEW e \in Emails, sticks'[e] # "no" PROVE Going(e)'
  <2>1. sticks'[e] = sticks[e] /\ (ib \notin central => e \notin S) /\ ~(r.op = "add" /\ e = r.client)
    BY <1>3, <1>6 DEF NoLonger, SavedClients
  <2>2. Going(e)
    BY <1>6, <2>1 DEF GoneInv, Sticking
  <2>3. /\ del'[e].active = del[e].active /\ del'[e].keep = del[e].keep
        /\ \A jb \in Inbound : jb # ib => (jb \in del'[e].todo <=> jb \in del[e].todo)
        /\ ~(r.op = "delete" /\ e = r.client) => del'[e] = del[e]
    <3>1. del \in [Emails -> Run] /\ del[e] \in Run
      BY DEF TypeInv, TableType
    <3>2. CASE r.op = "delete" /\ e = r.client
      <4>1. del'[e] = [del[e] EXCEPT !.todo = @ \ {ib}]
        BY <1>3, <3>1, <3>2
      <4> QED  BY <3>1, <3>2, <4>1 DEF Run
    <3>3. CASE ~(r.op = "delete" /\ e = r.client)
      BY <1>3, <3>1, <3>3
    <3> QED  BY <3>2, <3>3
  <2>4. e \in S => WouldRestore(e, ib) /\ ib \in central /\ ~(r.op = "delete" /\ e = r.client)
    BY <1>1, <2>1 DEF SavedClients, WouldRestore
  <2>5. e \in S => Ahead(e, ib)'
    BY <2>2, <2>3, <2>4 DEF Going, Ahead
  <2>6. \A jb \in Inbound : jb # ib /\ Ahead(e, jb) => Ahead(e, jb)'
    BY <2>3 DEF Ahead
  <2>7. \A jb \in Inbound : WouldRestore(e, jb)' => jb # ib /\ WouldRestore(e, jb)
    BY <1>3 DEF WouldRestore, TypeInv, RequestType
  <2>8. ~HasRow(e) => ~HasRow(e)'
    <3>1. \/ r.op = "add" /\ AddClientStat(r.client, ib)
          \/ TrafficRemoved(r.client)
          \/ TrafficKept
      BY DEF SaveSettings
    <3> QED
      BY <1>2, <2>1, <3>1 DEF AddClientStat, TrafficRemoved, TrafficKept, HasRow, TypeInv, RowType
  <2> HIDE DEF S, r
  <2>9. /\ e \in tomb'
        /\ \A jb \in Inbound : <<jb, e>> \in conf' => Ahead(e, jb)'
        /\ \A jb \in Inbound : <<jb, e>> \in link' => del'[e].active
    BY <1>1, <1>4, <2>2, <2>3, <2>5, <2>6 DEF Going, Ahead
  <2>10. \A jb \in Inbound : WouldRestore(e, jb)' => jb \notin central' \/ Ahead(e, jb)'
    BY <1>3, <2>2, <2>6, <2>7 DEF Going
  <2>11. sticks'[e] = "all" => IF del'[e].active THEN ~del'[e].keep ELSE ~HasRow(e)'
    BY <2>1, <2>2, <2>3, <2>8 DEF Going
  <2> QED  BY <2>9, <2>10, <2>11 DEF Going
<1> QED  BY <1>5, <1>6 DEF GoneInv, Sticking

\* Taking the lock and reading the settings names no client the deletion is past.
LEMMA ReadSticks ==
    ASSUME TypeInv, GoneInv, NEW ib \in Inbound, NEW op, NEW f, NEW stat,
           ReadSettings(ib, op, f, stat)
    PROVE  GoneInv'
<1>1. /\ UNCHANGED <<central, conf, link, row, tomb, del, sticks>>
      /\ \A jb \in Inbound : jb # ib => req'[jb] = req[jb]
      /\ \A e \in Emails : WouldRestore(e, ib)' => <<ib, e>> \in conf
  <2>1. req' = [req EXCEPT ![ib] = [op |-> op, client |-> f, stat |-> stat, lost |-> FALSE,
                                    read |-> {g \in Emails : <<ib, g>> \in conf}]]
    BY DEF ReadSettings
  <2>2. req'[ib].read = {g \in Emails : <<ib, g>> \in conf}
    BY <2>1 DEF TypeInv, RequestType
  <2> QED  BY <2>1, <2>2 DEF ReadSettings, TypeInv, RequestType, WouldRestore
<1>2. ASSUME NEW e \in Emails, sticks'[e] # "no" PROVE Going(e)'
  <2>1. Going(e)
    BY <1>1, <1>2 DEF GoneInv, Sticking
  <2>2. \A jb \in Inbound : WouldRestore(e, jb)' => jb \notin central' \/ Ahead(e, jb)'
    BY <1>1, <2>1 DEF Going, WouldRestore, Ahead
  <2> QED  BY <1>1, <2>1, <2>2 DEF Going, Ahead, HasRow
<1> QED  BY <1>1, <1>2 DEF GoneInv, Sticking, ConfKnown

\* A step that leaves tables and requests alone, for each client that still sticks.
LEMMA CalmSticks ==
    ASSUME GoneInv, UNCHANGED <<central, conf>>,
           \A e \in Emails : sticks'[e] # "no" =>
             /\ sticks'[e] = sticks[e] /\ del'[e] = del[e]
             /\ e \in tomb => e \in tomb'
             /\ HasRow(e)' => HasRow(e)
             /\ \A ib \in Inbound : <<ib, e>> \in link' => <<ib, e>> \in link
             /\ \A ib \in Inbound : WouldRestore(e, ib)' => WouldRestore(e, ib)
    PROVE  GoneInv'
<1>1. ASSUME NEW e \in Emails, sticks'[e] # "no" PROVE Going(e)'
  <2>1. Going(e)
    BY <1>1 DEF GoneInv, Sticking
  <2> QED  BY <1>1, <2>1 DEF Going, Ahead
<1> QED  BY <1>1 DEF GoneInv, Sticking, ConfKnown

\* The deletion comes to an inbound: it locks it, or passes over one that is gone
\* or has lost the client with no request on it.
LEMMA PassSticks ==
    ASSUME TypeInv, GoneInv, NEW f \in Emails, NEW ib \in Inbound, DelInboundClientByEmail(f, ib)
    PROVE  GoneInv'
<1>1. CASE ib \in central /\ <<ib, f>> \in conf
  BY <1>1, ReadSticks DEF DelInboundClientByEmail
<1>2. CASE ~(ib \in central /\ <<ib, f>> \in conf)
  <2>1. /\ UNCHANGED <<central, conf, link, row, tomb, req, sticks>>
        /\ ib \in central => req[ib] = NoReq
        /\ del' = [del EXCEPT ![f].todo = @ \ {ib}]
    BY <1>2 DEF DelInboundClientByEmail
  <2>2. \A e \in Emails :
          /\ del'[e].active = del[e].active /\ del'[e].keep = del[e].keep
          /\ \A jb \in Inbound : jb \in del[e].todo /\ ~(e = f /\ jb = ib) => jb \in del'[e].todo
    <3>1. del \in [Emails -> Run] /\ \A e \in Emails : del[e] \in Run
      BY DEF TypeInv, TableType
    <3>2. \A e \in Emails : del'[e] = IF e = f THEN [del[e] EXCEPT !.todo = @ \ {ib}] ELSE del[e]
      BY <2>1, <3>1
    <3> QED  BY <3>1, <3>2 DEF Run
  <2>3. ASSUME NEW e \in Emails, sticks'[e] # "no" PROVE Going(e)'
    <3>1. Going(e)
      BY <2>1, <2>3 DEF GoneInv, Sticking
    <3>2. \A jb \in Inbound : Ahead(e, jb) /\ ~(e = f /\ jb = ib) => Ahead(e, jb)'
      BY <2>2 DEF Ahead
    <3>3. \A jb \in Inbound : <<jb, e>> \in conf' => Ahead(e, jb)'
      BY <1>2, <2>1, <3>1, <3>2 DEF Going, GoneInv, ConfKnown
    <3>4. \A jb \in Inbound : WouldRestore(e, jb)' => jb \notin central' \/ Ahead(e, jb)'
      BY <2>1, <3>1, <3>2 DEF Going, WouldRestore
    <3> QED  BY <2>1, <2>2, <3>1, <3>3, <3>4 DEF Going, HasRow
  <2> QED  BY <2>1, <2>3 DEF GoneInv, Sticking, ConfKnown
<1> QED  BY <1>1, <1>2

\* A deletion that sticks begins with every inbound that could name the client.
LEMMA DeleteSticks ==
    ASSUME TypeInv, GoneInv, NEW f \in Emails, NEW keepTraffic \in BOOLEAN, Delete(f, keepTraffic)
    PROVE  GoneInv'
<1> DEFINE todo == {p[1] : p \in {q \in link : q[2] = f}}
<1>1. /\ UNCHANGED <<central, conf, link, row, req>> /\ tomb' = tomb \cup {f}
      /\ del' = [del EXCEPT ![f] = [active |-> TRUE, keep |-> keepTraffic, todo |-> todo]]
      /\ sticks' = [sticks EXCEPT ![f] =
           IF ~Listed(f) THEN "no" ELSE IF keepTraffic THEN "kept" ELSE "all"]
  BY DEF Delete
<1>2. \A ib \in Inbound : <<ib, f>> \in link => ib \in todo
  OBVIOUS
<1>3. /\ del'[f].active /\ del'[f].keep = keepTraffic /\ del'[f].todo = todo
      /\ \A e \in Emails : e # f => del'[e] = del[e]
  BY <1>1 DEF TypeInv, TableType
<1>4. /\ sticks'[f] # "no" => Listed(f)
      /\ sticks'[f] = "all" => ~keepTraffic
      /\ \A e \in Emails : e # f => sticks'[e] = sticks[e]
  BY <1>1 DEF TypeInv, RequestType
<1> HIDE DEF todo
<1>5. ASSUME sticks'[f] # "no" PROVE Going(f)'
  <2>1. Listed(f)
    BY <1>4, <1>5
  <2>2. \A ib \in Inbound : <<ib, f>> \in conf => <<ib, f>> \in link
    BY <2>1 DEF Listed
  <2>3. \A ib \in Inbound : WouldRestore(f, ib) => <<ib, f>> \in link
    BY <2>1 DEF Listed, WouldRestore
  <2>4. \A ib \in Inbound : <<ib, f>> \in link => Ahead(f, ib)'
    BY <1>2, <1>3 DEF Ahead
  <2>5. \A ib \in Inbound : WouldRestore(f, ib)' => Ahead(f, ib)'
    BY <1>1, <2>3, <2>4 DEF WouldRestore
  <2>6. f \in tomb'
    BY <1>1
  <2> QED  BY <1>1, <1>3, <1>4, <2>2, <2>4, <2>5, <2>6 DEF Going
<1>6. ASSUME NEW e \in Emails, e # f, sticks'[e] # "no" PROVE Going(e)'
  <2>1. Going(e)
    BY <1>4, <1>6 DEF GoneInv, Sticking
  <2> QED  BY <1>1, <1>3, <1>4, <1>6, <2>1 DEF Going, Ahead, WouldRestore, HasRow
<1> QED  BY <1>1, <1>5, <1>6 DEF GoneInv, Sticking, ConfKnown

\* The last transaction: no inbound is ahead, so no settings name the client.
LEMMA FinishSticks ==
    ASSUME TypeInv, GoneInv, NEW f \in Emails, DeleteFinish(f) PROVE GoneInv'
<1>1. /\ UNCHANGED <<central, conf, tomb, req, sticks>> /\ del[f].active /\ del[f].todo = {}
      /\ del' = [del EXCEPT ![f] = NoDel] /\ link' = {p \in link : p[2] # f}
      /\ IF del[f].keep THEN TrafficKept ELSE TrafficRemoved(f)
  BY DEF DeleteFinish
<1>2. ~del'[f].active /\ \A e \in Emails : e # f => del'[e] = del[e]
  BY <1>1 DEF TypeInv, TableType, NoDel
<1>3. \A e \in Emails : HasRow(e)' => HasRow(e)
  BY <1>1 DEF TrafficKept, TrafficRemoved, HasRow, TypeInv, RowType
<1>4. ~del[f].keep => ~HasRow(f)'
  BY <1>1 DEF TrafficRemoved, HasRow, TypeInv, RowType
<1>5. ASSUME sticks'[f] # "no" PROVE Going(f)'
  <2>1. Going(f)
    BY <1>1, <1>5 DEF GoneInv, Sticking
  <2>2. \A ib \in Inbound : ~Ahead(f, ib)
    BY <1>1 DEF Ahead
  <2>3. \A ib \in Inbound : <<ib, f>> \notin conf'
    BY <1>1, <2>1, <2>2 DEF Going
  <2>4. \A ib \in Inbound : <<ib, f>> \notin link'
    BY <1>1
  <2>5. \A ib \in Inbound : WouldRestore(f, ib)' => ib \notin central'
    BY <1>1, <2>1, <2>2 DEF Going, WouldRestore
  <2>6. sticks'[f] = "all" => ~HasRow(f)'
    BY <1>1, <1>4, <2>1 DEF Going
  <2> QED  BY <1>1, <1>2, <2>1, <2>3, <2>4, <2>5, <2>6 DEF Going
<1>6. ASSUME NEW e \in Emails, e # f, sticks'[e] # "no" PROVE Going(e)'
  <2>1. Going(e)
    BY <1>1, <1>6 DEF GoneInv, Sticking
  <2>2. \A ib \in Inbound : <<ib, e>> \in link' => <<ib, e>> \in link
    BY <1>1
  <2> QED  BY <1>1, <1>2, <1>3, <1>6, <2>1, <2>2 DEF Going, Ahead, WouldRestore
<1> QED  BY <1>1, <1>5, <1>6 DEF GoneInv, Sticking, ConfKnown

\* A deletion that fails, or whose tombstone expires, need not stick.
LEMMA FailureSticks ==
    ASSUME TypeInv, GoneInv,
           \/ \E f \in Emails : DeleteFails(f) \/ TombstoneExpires(f)
           \/ \E ib \in Inbound : SaveFails(ib)
    PROVE  GoneInv'
<1>1. ASSUME NEW f \in Emails, DeleteFails(f) \/ TombstoneExpires(f) PROVE GoneInv'
  <2>1. UNCHANGED <<central, conf, link, row, req>> /\ sticks' = [e \in Emails |-> IF e \in {f} THEN "no" ELSE sticks[e]]
    BY <1>1 DEF DeleteFails, TombstoneExpires, NoLonger
  <2>2. \A e \in Emails : e # f => del'[e] = del[e] /\ (e \in tomb => e \in tomb')
    BY <1>1 DEF DeleteFails, TombstoneExpires, TypeInv, TableType
  <2> QED  BY <2>1, <2>2, CalmSticks DEF HasRow, WouldRestore
<1>2. ASSUME NEW ib \in Inbound, SaveFails(ib) PROVE GoneInv'
  <2> DEFINE r == req[ib]
  <2>1. /\ UNCHANGED <<central, conf, link, row, tomb>> /\ req' = [req EXCEPT ![ib] = NoReq]
        /\ del' = IF r.op = "delete" THEN [del EXCEPT ![r.client] = NoDel] ELSE del
        /\ sticks' = [e \in Emails |-> IF e \in (IF r.op = "delete" THEN {r.client} ELSE {})
                                         THEN "no" ELSE sticks[e]]
    BY <1>2 DEF SaveFails, NoLonger
  <2>2. \A e \in Emails : sticks'[e] # "no" => sticks'[e] = sticks[e] /\ del'[e] = del[e]
    BY <2>1 DEF TypeInv, TableType
  <2>3. \A jb \in Inbound, e \in Emails : WouldRestore(e, jb)' => WouldRestore(e, jb)
    BY <2>1 DEF WouldRestore, TypeInv, RequestType
  <2> QED  BY <2>1, <2>2, <2>3, CalmSticks DEF HasRow
<1> QED  BY <1>1, <1>2

\* The operations on rows alone give no client a row.
LEMMA RowsStick ==
    ASSUME TypeInv, GoneInv,
           \/ \E e \in Emails : AddLocalTraffic(e) \/ ResetClientTrafficByEmail(e)
           \/ \E n \in Nodes, t \in Tags, e \in Emails : ResetClientTraffic(n, t, e)
           \/ ResetAllTraffics
    PROVE  GoneInv'
<1>1. UNCHANGED <<central, conf, link, tomb, del, req, sticks>>
  BY DEF AddLocalTraffic, ResetClientTrafficByEmail, ResetClientTraffic, ResetAllTraffics
<1>2. ASSUME NEW E, Zeroed(E), NEW e \in Emails PROVE HasRow(e)' => HasRow(e)
  BY <1>2 DEF Zeroed, HasRow
<1>3. ASSUME NEW f \in Emails, AddLocalTraffic(f), NEW e \in Emails PROVE HasRow(e)' => HasRow(e)
  BY <1>3 DEF AddLocalTraffic, HasRow, TypeInv, RowType
<1>4. \A e \in Emails : HasRow(e)' => HasRow(e)
  BY <1>2, <1>3 DEF ResetClientTrafficByEmail, ResetClientTraffic, ResetAllTraffics
<1> QED  BY <1>1, <1>4, CalmSticks DEF WouldRestore

LEMMA GoneStep == TypeInv /\ GoneInv /\ [Next]_vars => GoneInv'
<1> SUFFICES ASSUME TypeInv, GoneInv, [Next]_vars PROVE GoneInv'
  OBVIOUS
<1>1. CASE UNCHANGED <<central, conf, link, row, tomb, del, req, sticks>>
  BY <1>1, CalmSticks DEF HasRow, WouldRestore
<1>2. ASSUME NEW n \in Nodes, Node(n) \/ Fetch(n) \/ FetchBlank(n) \/ DropSnapshot(n)
      PROVE  UNCHANGED <<central, conf, link, row, tomb, del, req, sticks>>
  BY <1>2 DEF Node, NodeAddInbound, NodeDelInbound, NodeRename, NodeAttach, NodeDetach, NodeEdit,
              Use, NodeReset, NodeRenew, Fetch, FetchBlank, DropSnapshot
<1>3. ASSUME NEW n \in Nodes, NEW t \in Tags, NEW e \in Emails, AddClient(n, t, e) \/ Detach(n, t, e)
      PROVE  GoneInv'
  <2>1. <<n, t>> \in Inbound
    BY DEF Inbound
  <2> QED  BY <1>3, <2>1, ReadSticks DEF AddClient, Detach
<1>4. ASSUME NEW e \in Emails, NEW ib \in del[e].todo, DelInboundClientByEmail(e, ib) PROVE GoneInv'
  <2>1. ib \in Inbound
    <3>1. del[e] \in Run
      BY DEF TypeInv, TableType
    <3> QED  BY <3>1 DEF Run
  <2> QED  BY <1>4, <2>1, PassSticks
<1>5. CASE Master
  BY <1>3, <1>4, <1>5, SaveSticks, DeleteSticks, FinishSticks, FailureSticks, RowsStick DEF Master
<1> QED  BY <1>1, <1>2, <1>5, MergeSticks DEF Next, Sync, vars

\* A deletion that ended well sticks, for any number of nodes, inbounds, clients
\* and requests under way: a merge applies the tombstone, and a save can restore
\* only what the deletion has yet to come to (DelInboundClientByEmail waits for
\* the lock of every inbound it passes).
THEOREM DeletionSticks == Spec => []DeletedIsGone
<1>1. Init => GoneInv
  BY DEF Init, GoneInv, ConfKnown, Sticking
<1>2. TypeInv /\ GoneInv => DeletedIsGone
  <2> SUFFICES ASSUME TypeInv, GoneInv, NEW e \in Emails, sticks[e] # "no", ~del[e].active
               PROVE  /\ \A p \in conf \cup link : p[2] # e
                      /\ sticks[e] = "all" => ~HasRow(e)
    BY DEF DeletedIsGone
  <2>1. Going(e)
    BY DEF GoneInv, Sticking
  <2>2. ASSUME NEW p \in conf \cup link, p[2] = e PROVE FALSE
    <3>1. p[1] \in Inbound /\ p = <<p[1], e>>
      BY <2>2 DEF TypeInv, TableType
    <3> QED  BY <2>1, <2>2, <3>1 DEF Going, Ahead
  <2> QED  BY <2>1, <2>2 DEF Going
<1> QED
  BY <1>1, <1>2, GoneStep, TypeInvariant, PTL DEF Spec
=============================================================================
