-------------------------- MODULE DraftPagesProofs --------------------------
(***************************************************************************)
(* Proofs about the pages that edit a draft and send it: the hosts, the    *)
(* settings of the panel, the DNS section, the editor of the Xray          *)
(* template, the forms of an inbound, a client and an outbound, and the    *)
(* plain controls of the template.  Every page has an invariant: it holds  *)
(* at the start, every step of the page keeps it, and what the page        *)
(* promises follows from it.  PanelPagesProofs puts them together.         *)
(***************************************************************************)
EXTENDS Hosts, SettingsDraft, DnsEditor, XrayEditor, InboundForm, XrayBasics, ClientForm,
        OutboundForm, Integers, FiniteSetTheorems, SequenceTheorems, WellFoundedInduction, TLAPS

-----------------------------------------------------------------------------
(* Numbers. *)

\* A set of naturals that is not empty has a least element.
LEMMA LeastNatural ==
  ASSUME NEW T \in SUBSET Nat, T # {}
  PROVE  \E n \in T : \A m \in T : n <= m
<1>1. PICK n \in T : \A m \in T : <<m, n>> \notin OpToRel(<, Nat)
  BY WFMin, NatLessThanWellFounded, Zenon
<1>2. ASSUME NEW m \in T PROVE n <= m
  <2>1. <<m, n>> \notin OpToRel(<, Nat)
    BY <1>1, Zenon
  <2>2. n \in Nat /\ m \in Nat
    OBVIOUS
  <2>3. ~(m < n)
    BY <2>1, <2>2, Zenon DEF OpToRel
  <2> QED  BY <2>2, <2>3
<1> QED  BY <1>2

\* A set of numbers with zero and with the successor of each of its members
\* holds every number.
LEMMA Numbers ==
  ASSUME NEW T \in SUBSET Nat, 0 \in T, \A k \in T : k + 1 \in T
  PROVE  T = Nat
<1> SUFFICES ASSUME Nat \ T # {} PROVE FALSE
  OBVIOUS
<1>1. PICK n \in Nat \ T : \A m \in Nat \ T : n <= m
  BY LeastNatural
<1>2. n # 0 /\ n - 1 \in Nat /\ (n - 1) + 1 = n
  BY <1>1
<1>3. n - 1 \in T
  BY <1>1, <1>2
<1> QED  BY <1>2, <1>3, <1>1

-----------------------------------------------------------------------------
(* The hosts.  A host without TLS of its own has no sni, wherever its row  *)
(* is: stored, listed, read, opened or sent; and a dialog without a change *)
(* shows and sends what it was opened with.                                *)

IsHost(x) == x \in StoredHost /\ (x.sni = "none" \/ x.security # "same")

HostRows(made) == DOMAIN made = HostIds /\ \A h \in HostIds : made[h] = NoHost \/ IsHost(made[h])

ReadSound ==
  \/ reading = NoRead \/ reading = [at |-> "asked"]
  \/ reading = [at |-> "read", rows |-> reading.rows] /\ HostRows(reading.rows)

HostFormSound ==
  \/ hostForm = ClosedHostForm
  \/ /\ hostForm = [mode |-> hostForm.mode, id |-> hostForm.id, security |-> hostForm.security,
                    sni |-> hostForm.sni, opened |-> hostForm.opened, touched |-> hostForm.touched]
     /\ hostForm.security \in Securities /\ hostForm.sni \in {"none", "own", "typed"}
     /\ hostForm.opened = NoHost \/ IsHost(hostForm.opened)
     /\ hostForm.mode = "add" \/ (hostForm.mode = "edit" /\ hostForm.id \in HostIds /\ IsHost(hostForm.opened))
     /\ (hostForm.mode = "edit" /\ ~ hostForm.touched)
          => hostForm.security = hostForm.opened.security /\ hostForm.sni = hostForm.opened.sni

MoveSound(r) ==
  /\ HostRows(r.base)
  /\ \E i, j \in 1..Cardinality(InList(r.base)) :
       /\ i # j
       /\ r.ids = Swapped(inboundHostsInOrder(r.base), i, j)
       /\ r.of = {inboundHostsInOrder(r.base)[i], inboundHostsInOrder(r.base)[j]}

RequestSound(r) ==
  /\ r.kind \in {"reorder", "setEnable", "bulkEnable", "del", "bulkDel", "edit", "add"}
  /\ r.kind = "reorder" => MoveSound(r)
  /\ r.kind \in {"setEnable", "bulkEnable"} => r.off \in BOOLEAN
  /\ r.kind \in {"edit", "add"} =>
       /\ r.of.security \in Securities /\ r.of.sni \in {"none", "own", "typed"}
       /\ r.of.sni = "none" \/ r.of.security # "same"
  /\ r.kind = "edit" =>
       /\ \E h \in HostIds : r.ids = {h}
       /\ ~ r.touched => r.of.sni = r.opened.sni /\ r.of.security = r.opened.security

HostsInv ==
  /\ HostRows(hostStore) /\ HostRows(hosts) /\ ticked \subseteq HostIds
  /\ ReadSound /\ HostFormSound
  /\ \A r \in sent : RequestSound(r)

-----------------------------------------------------------------------------
(* The order of the hosts.  Before is a strict total order of the hosts of *)
(* a table, so that there is one ascending enumeration of them.            *)

Numbered(made, S) == S \subseteq Nat /\ \A h \in S : made[h].sortOrder \in Nat

LEMMA BeforeIsOrder ==
  ASSUME NEW made, NEW S, Numbered(made, S)
  PROVE  /\ \A a \in S : ~ Before(made, a, a)
         /\ \A a, b \in S : a = b \/ Before(made, a, b) \/ Before(made, b, a)
         /\ \A a, b, c \in S : Before(made, a, b) /\ Before(made, b, c) => Before(made, a, c)
BY DEF Numbered, Before

\* Of finitely many hosts one is the last.
LEMMA LastExists ==
  ASSUME NEW made, NEW A, Numbered(made, A)
  PROVE  \A k \in Nat : \A S \in SUBSET A :
           (IsFiniteSet(S) /\ Cardinality(S) = k + 1)
             => \E m \in S : \A a \in S \ {m} : Before(made, a, m)
<1> DEFINE HasLast(S) == \E m \in S : \A a \in S \ {m} : Before(made, a, m)
           T == {k \in Nat : \A S \in SUBSET A : (IsFiniteSet(S) /\ Cardinality(S) = k + 1) => HasLast(S)}
<1>1. 0 \in T
  <2>1. ASSUME NEW S \in SUBSET A, IsFiniteSet(S), Cardinality(S) = 1 PROVE HasLast(S)
    <3>1. PICK x : S = {x}
      BY <2>1, FS_Singleton
    <3> QED  BY <3>1
  <2> HIDE DEF HasLast
  <2> QED  BY <2>1
<1>2. ASSUME NEW k \in T PROVE k + 1 \in T
  <2>1. ASSUME NEW S \in SUBSET A, IsFiniteSet(S), Cardinality(S) = k + 2 PROVE HasLast(S)
    <3>1. PICK x : x \in S
      BY <2>1, FS_EmptySet
    <3> DEFINE R == S \ {x}
    <3>2. IsFiniteSet(R) /\ Cardinality(R) = k + 1 /\ R \in SUBSET A
      BY <2>1, <3>1, FS_RemoveElement
    <3>3. PICK m \in R : \A a \in R \ {m} : Before(made, a, m)
      <4>1. HasLast(R)
        <5> HIDE DEF HasLast, R
        <5> QED  BY <3>2
      <4> QED  BY <4>1
    <3>4. x \in A /\ m \in A /\ \A a \in S : a \in A
      BY <3>1, <3>3
    <3>5. CASE Before(made, x, m)
      BY <3>3, <3>5
    <3>6. CASE Before(made, m, x)
      <4>1. ASSUME NEW a \in S \ {x} PROVE Before(made, a, x)
        BY <3>3, <3>4, <3>6, BeforeIsOrder
      <4> QED  BY <3>1, <4>1
    <3> QED  BY <3>3, <3>4, <3>5, <3>6, BeforeIsOrder
  <2> HIDE DEF HasLast
  <2> QED  BY <2>1
<1>3. T = Nat
  <2> HIDE DEF HasLast
  <2>1. T \in SUBSET Nat
    OBVIOUS
  <2> HIDE DEF T
  <2> QED  BY <1>1, <1>2, <2>1, Numbers
<1> QED  BY <1>3

LEMMA OrderExists ==
  ASSUME NEW made, NEW A, Numbered(made, A)
  PROVE  \A k \in Nat : \A S \in SUBSET A :
           (IsFiniteSet(S) /\ Cardinality(S) = k) => \E order \in [1..k -> S] : Ascending(made, order)
<1> DEFINE HasOrder(S, k) == \E order \in [1..k -> S] : Ascending(made, order)
           T == {k \in Nat : \A S \in SUBSET A : (IsFiniteSet(S) /\ Cardinality(S) = k) => HasOrder(S, k)}
<1>1. 0 \in T
  <2>1. ASSUME NEW S PROVE HasOrder(S, 0)
    <3> DEFINE order == [i \in 1..0 |-> i]
    <3>1. order \in [1..0 -> S] /\ Ascending(made, order)
      BY DEF Ascending
    <3> QED  BY <3>1
  <2> HIDE DEF HasOrder
  <2> QED  BY <2>1
<1>2. ASSUME NEW k \in T PROVE k + 1 \in T
  <2>1. ASSUME NEW S \in SUBSET A, IsFiniteSet(S), Cardinality(S) = k + 1 PROVE HasOrder(S, k + 1)
    <3>1. PICK m \in S : \A a \in S \ {m} : Before(made, a, m)
      BY <2>1, LastExists
    <3> DEFINE R == S \ {m}
    <3>2. IsFiniteSet(R) /\ Cardinality(R) = k /\ R \in SUBSET A
      BY <2>1, <3>1, FS_RemoveElement
    <3>3. PICK init \in [1..k -> R] : Ascending(made, init)
      <4>1. HasOrder(R, k)
        <5> HIDE DEF HasOrder, R
        <5> QED  BY <3>2
      <4> QED  BY <4>1
    <3> DEFINE order == [i \in 1..(k + 1) |-> IF i = k + 1 THEN m ELSE init[i]]
    <3>4. order \in [1..(k + 1) -> S]
      BY <3>1, <3>3
    <3>5. ASSUME NEW i \in 1..(k + 1), NEW j \in 1..(k + 1), i < j PROVE Before(made, order[i], order[j])
      <4>1. i \in 1..k /\ i # k + 1 /\ order[i] = init[i] /\ init[i] \in R
        BY <3>3, <3>5
      <4>2. CASE j = k + 1
        BY <3>1, <4>1, <4>2
      <4>3. CASE j # k + 1
        <5>1. j \in 1..k /\ order[j] = init[j]
          BY <3>5, <4>3
        <5> QED  BY <3>3, <3>5, <4>1, <5>1 DEF Ascending
      <4> QED  BY <4>2, <4>3
    <3>6. Ascending(made, order)
      <4> HIDE DEF order
      <4> QED  BY <3>4, <3>5 DEF Ascending
    <3> HIDE DEF order
    <3> QED  BY <3>4, <3>6
  <2> HIDE DEF HasOrder
  <2> QED  BY <2>1
<1>3. T = Nat
  <2> HIDE DEF HasOrder
  <2>1. T \in SUBSET Nat
    OBVIOUS
  <2> HIDE DEF T
  <2> QED  BY <1>1, <1>2, <2>1, Numbers
<1> QED  BY <1>3

OnceEach(S, order) ==
  /\ \A i, j \in 1..Cardinality(S) : order[i] = order[j] => i = j
  /\ \A h \in S : \E i \in 1..Cardinality(S) : order[i] = h

\* An ascending enumeration has every host once.
LEMMA OrderHasAll ==
  ASSUME NEW made, NEW S, Numbered(made, S), IsFiniteSet(S),
         NEW order \in [1..Cardinality(S) -> S], Ascending(made, order)
  PROVE  OnceEach(S, order)
<1>0. Cardinality(S) \in Nat
  BY FS_CardinalityType
<1>1. \A i, j \in 1..Cardinality(S) : order[i] = order[j] => i = j
  <2> SUFFICES ASSUME NEW i \in 1..Cardinality(S), NEW j \in 1..Cardinality(S), order[i] = order[j], i # j
               PROVE  FALSE
    OBVIOUS
  <2>1. i < j \/ j < i
    BY <1>0
  <2>2. Before(made, order[i], order[j]) \/ Before(made, order[j], order[i])
    BY <2>1 DEF Ascending
  <2>3. order[i] \in S
    OBVIOUS
  <2> QED  BY <2>2, <2>3, BeforeIsOrder
<1>2. order \in Injection(1..Cardinality(S), S)
  BY <1>1 DEF Injection, IsInjective
<1>3. IsFiniteSet(1..Cardinality(S)) /\ Cardinality(1..Cardinality(S)) = Cardinality(S)
  BY <1>0, FS_Interval
<1>4. order \in Surjection(1..Cardinality(S), S)
  BY <1>2, <1>3, FS_Injection
<1> QED  BY <1>1, <1>4 DEF Surjection, OnceEach

\* There is no other one.
LEMMA OrderIsOne ==
  ASSUME NEW made, NEW S, Numbered(made, S), IsFiniteSet(S),
         NEW s \in [1..Cardinality(S) -> S], Ascending(made, s),
         NEW t \in [1..Cardinality(S) -> S], Ascending(made, t)
  PROVE  s = t
<1> DEFINE n == Cardinality(S)
           D == {i \in 1..n : s[i] # t[i]}
<1>0. n \in Nat
  BY FS_CardinalityType
<1>1. SUFFICES ASSUME D # {} PROVE FALSE
  <2>1. \A i \in 1..n : s[i] = t[i]
    BY <1>1
  <2>2. s = [i \in 1..n |-> s[i]] /\ t = [i \in 1..n |-> t[i]]
    OBVIOUS
  <2> QED  BY <2>1, <2>2
<1>a. /\ \A i, j \in 1..n : s[i] = s[j] => i = j
      /\ \A h \in S : \E i \in 1..n : s[i] = h
  <2>1. OnceEach(S, s)
    <3> HIDE DEF D
    <3> QED  BY OrderHasAll
  <2> QED  BY <2>1 DEF OnceEach
<1>b. /\ \A i, j \in 1..n : t[i] = t[j] => i = j
      /\ \A h \in S : \E i \in 1..n : t[i] = h
  <2>1. OnceEach(S, t)
    <3> HIDE DEF D
    <3> QED  BY OrderHasAll
  <2> QED  BY <2>1 DEF OnceEach
<1>2. PICK k \in D : \A m \in D : k <= m
  <2>1. D \in SUBSET Nat
    BY <1>0
  <2> QED  BY <1>1, <2>1, LeastNatural
<1>3. k \in 1..n /\ s[k] # t[k] /\ s[k] \in S /\ t[k] \in S
  BY <1>2
<1>4. \A m \in 1..n : m < k => s[m] = t[m]
  BY <1>0, <1>2
<1>5. PICK i \in 1..n : s[i] = t[k]
  BY <1>3, <1>a
<1>6. PICK j \in 1..n : t[j] = s[k]
  BY <1>3, <1>b
<1>7. k < i
  <2>1. i # k
    BY <1>3, <1>5
  <2>2. ~(i < k)
    <3> SUFFICES ASSUME i < k PROVE FALSE
      OBVIOUS
    <3>1. t[i] = t[k]
      BY <1>4, <1>5
    <3>2. i = k
      BY <1>3, <3>1, <1>b
    <3> QED  BY <2>1, <3>2
  <2> QED  BY <1>0, <1>3, <2>1, <2>2
<1>8. k < j
  <2>1. j # k
    BY <1>3, <1>6
  <2>2. ~(j < k)
    <3> SUFFICES ASSUME j < k PROVE FALSE
      OBVIOUS
    <3>1. s[j] = s[k]
      BY <1>4, <1>6
    <3>2. j = k
      BY <1>3, <3>1, <1>a
    <3> QED  BY <2>1, <3>2
  <2> QED  BY <1>0, <1>3, <2>1, <2>2
<1>9. Before(made, s[k], t[k]) /\ Before(made, t[k], s[k])
  BY <1>3, <1>5, <1>6, <1>7, <1>8 DEF Ascending
<1> QED  BY <1>3, <1>9, BeforeIsOrder

\* What the page shows: the ascending enumeration of the hosts of a table.
LEMMA OrderOfRows ==
  ASSUME NEW made, HostRows(made)
  PROVE  /\ Numbered(made, InList(made)) /\ IsFiniteSet(InList(made)) /\ Cardinality(InList(made)) \in Nat
         /\ inboundHostsInOrder(made) \in [1..Cardinality(InList(made)) -> InList(made)]
         /\ Ascending(made, inboundHostsInOrder(made))
<1>1. InList(made) \in SUBSET HostIds
  BY DEF InList
<1>2. IsFiniteSet(InList(made)) /\ Cardinality(InList(made)) \in Nat
  BY <1>1, HostsAssumption, FS_Subset, FS_CardinalityType
<1>3. Numbered(made, InList(made))
  BY HostsAssumption DEF Numbered, InList, HostRows, HostExists, IsHost, StoredHost
<1>4. \E order \in [1..Cardinality(InList(made)) -> InList(made)] : Ascending(made, order)
  BY <1>2, <1>3, OrderExists
<1> QED  BY <1>2, <1>3, <1>4 DEF inboundHostsInOrder

-----------------------------------------------------------------------------
LEMMA HostsInvInit == HostsInit => HostsInv
<1> SUFFICES ASSUME HostsInit PROVE HostsInv
  OBVIOUS
<1>1. PICK s \in Securities : hostStore = FirstHosts(s)
  BY DEF HostsInit
<1> DEFINE sni == IF s = "same" THEN "none" ELSE "own"
<1>2. ASSUME NEW h \in HostIds PROVE hostStore[h] = NoHost \/ IsHost(hostStore[h])
  <2> DEFINE hid == h \in Hidden
             off == FALSE
             x == [sortOrder |-> 0, off |-> off, security |-> s, sni |-> sni, hidden |-> hid]
  <2>1. hostStore[h] = NoHost \/ hostStore[h] = x
    BY <1>1 DEF FirstHosts
  <2>2. (sni = "none" \/ s # "same") /\ sni \in {"none", "own", "typed"} /\ s \in Securities
        /\ hid \in BOOLEAN /\ off \in BOOLEAN
    OBVIOUS
  <2> HIDE DEF sni, hid, off
  <2>3. IsHost(x)
    BY <2>2 DEF IsHost, StoredHost
  <2> QED  BY <2>1, <2>3
<1>3. HostRows(hostStore)
  BY <1>1, <1>2 DEF HostRows, FirstHosts
<1> QED  BY <1>3 DEF HostsInit, HostsInv, ReadSound, HostFormSound

-----------------------------------------------------------------------------
LEMMA EditedHost ==
  \A z, s, n, v : IsHost(z) =>
    [[[z EXCEPT !.security = s] EXCEPT !.sni = n] EXCEPT !.hidden = v]
      = [sortOrder |-> z.sortOrder, off |-> z.off, security |-> s, sni |-> n, hidden |-> v]
<1> SUFFICES ASSUME NEW z, NEW s, NEW n, NEW v, IsHost(z)
             PROVE  [[[z EXCEPT !.security = s] EXCEPT !.sni = n] EXCEPT !.hidden = v]
                    = [sortOrder |-> z.sortOrder, off |-> z.off, security |-> s, sni |-> n, hidden |-> v]
  OBVIOUS
<1>1. PICK o, f, e, i, d : z = [sortOrder |-> o, off |-> f, security |-> e, sni |-> i, hidden |-> d]
  <2>1. z = [sortOrder |-> z.sortOrder, off |-> z.off, security |-> z.security, sni |-> z.sni, hidden |-> z.hidden]
    BY DEF IsHost, StoredHost
  <2> QED  BY <2>1
<1> DEFINE y == [z EXCEPT !.security = s]
           x == [y EXCEPT !.sni = n]
<1>2. y = [sortOrder |-> o, off |-> f, security |-> s, sni |-> i, hidden |-> d]
  BY <1>1
<1>3. x = [sortOrder |-> o, off |-> f, security |-> s, sni |-> n, hidden |-> d]
  <2> HIDE DEF y
  <2> QED  BY <1>2
<1>4. [x EXCEPT !.hidden = v]
      = [sortOrder |-> o, off |-> f, security |-> s, sni |-> n, hidden |-> v]
  <2> HIDE DEF x
  <2> QED  BY <1>3
<1>5. z.sortOrder = o /\ z.off = f
  BY <1>1
<1> QED  BY <1>4, <1>5

\* What a request makes of the rows.
LEMMA MoveLength == ASSUME NEW r, MoveSound(r) PROVE Len(r.ids) \in Nat
<1> DEFINE S == InList(r.base)
           n == Cardinality(S)
           order == inboundHostsInOrder(r.base)
<1>1. order \in [1..n -> S] /\ n \in Nat
  BY OrderOfRows DEF MoveSound
<1>2. PICK i \in 1..n, j \in 1..n : r.ids = Swapped(order, i, j)
  BY DEF MoveSound
<1> HIDE DEF order, n, S
<1>3. r.ids \in [1..n -> S]
  BY <1>1, <1>2 DEF Swapped
<1>4. r.ids \in Seq(S)
  BY <1>1, <1>3
<1> QED  BY <1>4

LEMMA ResultRows ==
  ASSUME HostRows(hostStore), NEW r, RequestSound(r), NEW made \in Results(r)
  PROVE  HostRows(made)
<1>1. CASE r.kind = "reorder"
  <2>0. Len(r.ids) \in Nat
    BY <1>1, MoveLength DEF RequestSound
  <2>1. made = Reordered(r.ids)
    BY <1>1 DEF Results
  <2>2. ASSUME NEW h \in HostIds PROVE made[h] = NoHost \/ IsHost(made[h])
    <3> DEFINE n == Position(r.ids, h) - 1
               row(g) == IF HostExists(hostStore, g) /\ \E i \in 1..Len(r.ids) : r.ids[i] = g
                         THEN [hostStore[g] EXCEPT !.sortOrder = Position(r.ids, g) - 1] ELSE hostStore[g]
    <3>1. made = [g \in HostIds |-> row(g)]
      BY <2>1 DEF Reordered
    <3>2. row(h) = hostStore[h]
          \/ (HostExists(hostStore, h) /\ row(h) = [hostStore[h] EXCEPT !.sortOrder = n])
      OBVIOUS
    <3> HIDE DEF n, row
    <3>3. made[h] = row(h)
      BY <3>1
    <3>4. HostExists(hostStore, h) => IsHost(hostStore[h])
      BY DEF HostExists, HostRows
    <3>5. (row(h) # hostStore[h]) => n \in Nat
      <4>1. ASSUME NEW k \in 1..Len(r.ids), r.ids[k] = h PROVE n \in Nat
        <5>1. Position(r.ids, h) \in 1..Len(r.ids)
          BY <4>1 DEF Position
        <5> QED  BY <5>1, <2>0 DEF n
      <4> QED  BY <4>1 DEF row
    <3> QED  BY <3>2, <3>3, <3>4, <3>5 DEF HostRows, IsHost, StoredHost
  <2> QED  BY <2>1, <2>2 DEF HostRows, Reordered
<1>2. CASE r.kind \in {"setEnable", "bulkEnable"}
  <2>1. made = [h \in HostIds |-> IF h \in r.ids /\ HostExists(hostStore, h)
                                  THEN [hostStore[h] EXCEPT !.off = r.off] ELSE hostStore[h]]
    BY <1>2 DEF Results, Only
  <2>2. ASSUME NEW h \in HostIds PROVE made[h] = NoHost \/ IsHost(made[h])
    <3>1. IsHost(hostStore[h]) => IsHost([hostStore[h] EXCEPT !.off = r.off])
      BY <1>2 DEF IsHost, StoredHost, RequestSound
    <3> HIDE DEF IsHost
    <3>2. made[h] = hostStore[h]
          \/ (HostExists(hostStore, h) /\ made[h] = [hostStore[h] EXCEPT !.off = r.off])
      BY <2>1
    <3> QED  BY <3>1, <3>2 DEF HostExists, HostRows
  <2> QED  BY <2>1, <2>2, SMTT(30) DEF HostRows
<1>3. CASE r.kind \in {"del", "bulkDel"}
  <2>1. made = [h \in HostIds |-> IF h \in r.ids /\ HostExists(hostStore, h)
                                  THEN NoHost ELSE hostStore[h]]
    BY <1>3 DEF Results, Only
  <2> QED  BY <2>1, SMTT(30) DEF HostRows
<1>4. CASE r.kind = "edit"
  <2>1. PICK h \in r.ids \cap InList(hostStore) :
          made = [hostStore EXCEPT ![h].security = r.of.security, ![h].sni = r.of.sni, ![h].hidden = FALSE]
    BY <1>4, ZenonT(60) DEF Results
  <2>2. h \in HostIds /\ IsHost(hostStore[h])
    BY <2>1 DEF InList, HostExists, HostRows
  <2> DEFINE x == [[[hostStore[h] EXCEPT !.security = r.of.security] EXCEPT !.sni = r.of.sni] EXCEPT !.hidden = FALSE]
  <2>3. made = [hostStore EXCEPT ![h] = x]
    BY <2>1, <2>2 DEF HostRows
  <2>4. IsHost(x)
    <3>1. x = [sortOrder |-> hostStore[h].sortOrder, off |-> hostStore[h].off, security |-> r.of.security,
               sni |-> r.of.sni, hidden |-> FALSE]
      BY <2>2, EditedHost
    <3>2. /\ r.of.sni = "none" \/ r.of.security # "same"
          /\ r.of.security \in Securities /\ r.of.sni \in {"none", "own", "typed"}
      BY <1>4 DEF RequestSound
    <3>3. hostStore[h].sortOrder \in Nat /\ hostStore[h].off \in BOOLEAN
      BY <2>2 DEF IsHost, StoredHost
    <3> DEFINE off == hostStore[h].off
               hid == FALSE
    <3>4. x = [sortOrder |-> hostStore[h].sortOrder, off |-> off, security |-> r.of.security,
               sni |-> r.of.sni, hidden |-> hid] /\ hid \in BOOLEAN /\ off \in BOOLEAN
      BY <3>1, <3>3
    <3> HIDE DEF x, off, hid
    <3> QED  BY <3>2, <3>3, <3>4 DEF IsHost, StoredHost
  <2> HIDE DEF x
  <2> QED  BY <2>2, <2>3, <2>4, SMTT(30) DEF HostRows
<1>5. CASE r.kind = "add"
  <2>1. PICK h \in HostIds \ InList(hostStore) :
          made = [hostStore EXCEPT ![h] = [sortOrder |-> 0, off |-> FALSE, security |-> r.of.security,
                                           sni |-> r.of.sni, hidden |-> FALSE]]
    BY <1>5 DEF Results
  <2> DEFINE x == [sortOrder |-> 0, off |-> FALSE, security |-> r.of.security, sni |-> r.of.sni, hidden |-> FALSE]
  <2>2. IsHost(x)
    <3>1. /\ r.of.sni = "none" \/ r.of.security # "same"
          /\ r.of.security \in Securities /\ r.of.sni \in {"none", "own", "typed"}
      BY <1>5 DEF RequestSound
    <3> DEFINE no == FALSE
    <3>2. x = [sortOrder |-> 0, off |-> no, security |-> r.of.security, sni |-> r.of.sni, hidden |-> no]
          /\ no \in BOOLEAN
      OBVIOUS
    <3> HIDE DEF x, no
    <3> QED  BY <3>1, <3>2 DEF IsHost, StoredHost
  <2> HIDE DEF x
  <2> QED  BY <2>1, <2>2 DEF x, HostRows
<1> QED  BY <1>1, <1>2, <1>3, <1>4, <1>5 DEF RequestSound

\* A request that is sent leaves everything else.
LEMMA SendingKeeps ==
  ASSUME HostsInv, NEW r, RequestSound(r), Sends_(r)
  PROVE  HostsInv'
<1>1. HostRows(hostStore') /\ HostRows(hosts') /\ ReadSound' /\ HostFormSound' /\ ticked' \subseteq HostIds
  BY DEF Sends_, HostsInv, ReadSound, HostFormSound
<1>2. \A q \in sent' : RequestSound(q)
  BY DEF Sends_, HostsInv
<1> QED  BY <1>1, <1>2 DEF HostsInv, HostRows, RequestSound

LEMMA HostsSendStep ==
  ASSUME HostsInv,
         \/ \E h \in HostIds :
              (\E step \in {"up", "down"} : onMove(h, step)) \/ onToggleEnableHost(h) \/ onDeleteHost(h)
         \/ \E on \in BOOLEAN : onBulkEnable(on)
         \/ onBulkDelete \/ onOkHost
  PROVE  HostsInv'
<1>1. ASSUME NEW h \in HostIds, NEW step \in {"up", "down"}, onMove(h, step) PROVE HostsInv'
  <2> DEFINE S == InList(hosts)
             n == Cardinality(S)
             order == inboundHostsInOrder(hosts)
             i == Position(order, h)
             j == IF step = "up" THEN i - 1 ELSE i + 1
             ids == Swapped(order, i, j)
             of == {h, order[j]}
             r == [kind |-> "reorder", ids |-> ids, base |-> hosts, of |-> of]
  <2>1. HostExists(hosts, h) /\ j \in 1..Len(order) /\ Sends_(r)
    BY <1>1 DEF onMove
  <2>2. HostRows(hosts)
    BY DEF HostsInv
  <2>3. Numbered(hosts, S) /\ IsFiniteSet(S) /\ n \in Nat /\ order \in [1..n -> S] /\ Ascending(hosts, order)
    BY <2>2, OrderOfRows
  <2>4. OnceEach(S, order)
    <3> HIDE DEF order, S
    <3> QED  BY <2>3, OrderHasAll DEF n
  <2>5. h \in S
    BY <2>1 DEF InList
  <2>6. i \in 1..n /\ order[i] = h
    <3>1. order \in Seq(S) /\ Len(order) = n
      <4> HIDE DEF order, S, n
      <4> QED  BY <2>3
    <3>2. \E k \in 1..Len(order) : order[k] = h
      BY <2>4, <2>5, <3>1 DEF OnceEach
    <3>3. Position(order, h) \in 1..Len(order) /\ order[Position(order, h)] = h
      <4> HIDE DEF order
      <4> QED  BY <3>2 DEF Position
    <3> QED  BY <3>1, <3>3
  <2>7. j \in 1..n /\ i # j
    <3>1. order \in Seq(S) /\ Len(order) = n
      <4> HIDE DEF order, S, n
      <4> QED  BY <2>3
    <3>2. j = i - 1 \/ j = i + 1
      OBVIOUS
    <3> HIDE DEF i, j, order, n
    <3> QED  BY <2>1, <2>3, <2>6, <3>1, <3>2
  <2>8. of = {order[i], order[j]}
    BY <2>6
  <2> HIDE DEF i, j, ids, of
  <2>9. MoveSound(r)
    <3>1. r.base = hosts /\ r.ids = Swapped(order, i, j) /\ r.of = {order[i], order[j]}
      BY <2>8 DEF ids
    <3> HIDE DEF r
    <3> QED  BY <2>2, <2>6, <2>7, <3>1 DEF MoveSound
  <2>10. RequestSound(r)
    <3>1. r.kind = "reorder"
      OBVIOUS
    <3> HIDE DEF r
    <3> QED  BY <2>9, <3>1 DEF RequestSound
  <2> HIDE DEF r
  <2> QED  BY <2>1, <2>10, SendingKeeps
<1>2. ASSUME NEW h \in HostIds, onToggleEnableHost(h) \/ onDeleteHost(h) PROVE HostsInv'
  <2>1. CASE onDeleteHost(h)
    BY <2>1, SendingKeeps DEF RequestSound, onDeleteHost
  <2>2. CASE onToggleEnableHost(h)
    <3> DEFINE off == ~ hosts[h].off
    <3>1. Sends_([kind |-> "setEnable", ids |-> {h}, off |-> off]) /\ off \in BOOLEAN
      BY <2>2 DEF onToggleEnableHost
    <3> DEFINE r == [kind |-> "setEnable", ids |-> {h}, off |-> off]
    <3> HIDE DEF off
    <3>2. RequestSound(r)
      <4>1. r.kind = "setEnable" /\ r.off = off
        OBVIOUS
      <4> HIDE DEF r
      <4> QED  BY <3>1, <4>1 DEF RequestSound
    <3>3. Sends_(r)
      BY <3>1
    <3> HIDE DEF r
    <3> QED  BY <3>2, <3>3, SendingKeeps
  <2> QED  BY <1>2, <2>1, <2>2
<1>3. ASSUME NEW on \in BOOLEAN, onBulkEnable(on) PROVE HostsInv'
  <2> DEFINE off == ~ on
  <2>1. Sends_([kind |-> "bulkEnable", ids |-> ticked, off |-> off]) /\ off \in BOOLEAN
    BY <1>3 DEF onBulkEnable
  <2> DEFINE r == [kind |-> "bulkEnable", ids |-> ticked, off |-> off]
  <2> HIDE DEF off
  <2>2. RequestSound(r)
    <3>1. r.kind = "bulkEnable" /\ r.off = off
      OBVIOUS
    <3> HIDE DEF r
    <3> QED  BY <2>1, <3>1 DEF RequestSound
  <2>3. Sends_(r)
    BY <2>1
  <2> HIDE DEF r
  <2> QED  BY <2>2, <2>3, SendingKeeps
<1>4. CASE onBulkDelete
  BY <1>4, SendingKeeps DEF RequestSound, onBulkDelete
<1>5. CASE onOkHost
  <2> DEFINE n == Cardinality(sent)
             r == [kind |-> hostForm.mode, ids |-> {hostForm.id}, of |-> ShownFields, nth |-> n,
                   touched |-> hostForm.touched, opened |-> hostForm.opened]
  <2>1. Sends_(r) /\ hostForm # ClosedHostForm
    BY <1>5 DEF onOkHost
  <2>2. /\ hostForm.mode = "add" \/ (hostForm.mode = "edit" /\ hostForm.id \in HostIds /\ IsHost(hostForm.opened))
        /\ (hostForm.mode = "edit" /\ ~ hostForm.touched)
             => hostForm.security = hostForm.opened.security /\ hostForm.sni = hostForm.opened.sni
        /\ hostForm.security \in Securities /\ hostForm.sni \in {"none", "own", "typed"}
    BY <2>1 DEF HostsInv, HostFormSound
  <2>3. /\ ShownFields.security = hostForm.security
        /\ ShownFields.sni = IF hostForm.security = "same" THEN "none" ELSE hostForm.sni
    BY DEF ShownFields
  <2> HIDE DEF n
  <2>4. /\ r.kind = hostForm.mode /\ r.ids = {hostForm.id} /\ r.of = ShownFields
        /\ r.touched = hostForm.touched /\ r.opened = hostForm.opened
    OBVIOUS
  <2>5. RequestSound(r)
    <3> HIDE DEF r
    <3>1. r.of.security \in Securities /\ r.of.sni \in {"none", "own", "typed"}
          /\ (r.of.sni = "none" \/ r.of.security # "same")
      BY <2>2, <2>3, <2>4
    <3>2. r.kind = "edit" =>
            /\ \E h \in HostIds : r.ids = {h}
            /\ ~ r.touched => r.of.sni = r.opened.sni /\ r.of.security = r.opened.security
      BY <2>2, <2>3, <2>4 DEF IsHost
    <3>3. r.kind \in {"add", "edit"}
      BY <2>2, <2>4
    <3> HIDE DEF r, IsHost
    <3> QED  BY <3>1, <3>2, <3>3 DEF RequestSound
  <2> HIDE DEF r
  <2> QED  BY <2>1, <2>5, SendingKeeps
<1> QED  BY <1>1, <1>2, <1>3, <1>4, <1>5

LEMMA HostDialogStep ==
  ASSUME HostsInv,
         \/ \E h \in HostIds : onEditHost(h)
         \/ onAddHost \/ TypeSni \/ CloseHost
         \/ \E s \in Securities : PickSecurity(s)
  PROVE  HostsInv'
<1>1. UNCHANGED <<hostStore, hosts, reading, ticked, sent>>
  BY DEF onEditHost, onAddHost, TypeSni, CloseHost, PickSecurity
<1>2. HostFormSound'
  <2>1. ASSUME NEW h \in HostIds, onEditHost(h) PROVE HostFormSound'
    <3>1. IsHost(hosts[h])
      BY <2>1 DEF onEditHost, HostExists, HostsInv, HostRows
    <3>2. hosts[h].security \in Securities /\ hosts[h].sni \in {"none", "own", "typed"}
      BY <3>1 DEF IsHost, StoredHost
    <3> HIDE DEF IsHost
    <3> QED  BY <2>1, <3>1, <3>2 DEF onEditHost, HostFormSound
  <2>2. CASE onAddHost \/ CloseHost
    BY <2>2 DEF onAddHost, CloseHost, HostFormSound, Securities
  <2>3. CASE TypeSni
    BY <2>3 DEF TypeSni, HostFormSound, HostsInv, ClosedHostForm
  <2>4. ASSUME NEW s \in Securities, PickSecurity(s) PROVE HostFormSound'
    <3> DEFINE sni == IF s = "same" THEN (IF hostForm.opened = NoHost THEN "none" ELSE hostForm.opened.sni)
                      ELSE hostForm.sni
    <3>1. hostForm' = [[[hostForm EXCEPT !.security = s] EXCEPT !.touched = TRUE] EXCEPT !.sni = sni]
          /\ hostForm # ClosedHostForm
      BY <2>4 DEF PickSecurity, HostFormSound, HostsInv
    <3>2. sni \in {"none", "own", "typed"}
      BY <3>1 DEF HostsInv, HostFormSound, IsHost, StoredHost
    <3> HIDE DEF sni
    <3> QED  BY <3>1, <3>2, <2>4 DEF HostFormSound, HostsInv, ClosedHostForm
  <2> QED  BY <2>1, <2>2, <2>3, <2>4
<1> QED  BY <1>1, <1>2 DEF HostsInv, HostRows, ReadSound, RequestSound

LEMMA HostsServerStep ==
  ASSUME HostsInv,
         \/ \E h \in HostIds : TickHost(h)
         \/ \E r \in sent : SucceedsHost(r) \/ FailsHost(r)
         \/ ReadHosts \/ HostsArrive \/ OthersChange
  PROVE  HostsInv'
<1>1. CASE \E h \in HostIds : TickHost(h)
  <2>1. PICK h \in HostIds : TickHost(h)
    BY <1>1
  <2>2. ticked' \subseteq HostIds
    BY <2>1 DEF TickHost, HostsInv
  <2> QED  BY <2>1, <2>2 DEF TickHost, HostsInv, HostRows, ReadSound, RequestSound, HostFormSound
<1>2. ASSUME NEW r \in sent, SucceedsHost(r) PROVE HostsInv'
  <2>1. HostRows(hostStore')
    BY <1>2, ResultRows DEF SucceedsHost, HostsInv
  <2>2. reading' = [at |-> "asked"] /\ ticked' \subseteq HostIds /\ sent' \subseteq sent /\ UNCHANGED hosts
        /\ (hostForm' = hostForm \/ hostForm' = ClosedHostForm)
    BY <1>2 DEF SucceedsHost, HostsInv
  <2>3. HostFormSound'
    BY <2>2 DEF HostsInv, HostFormSound
  <2> QED  BY <2>1, <2>2, <2>3 DEF HostsInv, HostRows, ReadSound, RequestSound
<1>3. ASSUME NEW r \in sent, FailsHost(r) PROVE HostsInv'
  BY <1>3 DEF FailsHost, HostsInv, HostRows, ReadSound, RequestSound, HostFormSound
<1>4. CASE ReadHosts \/ HostsArrive
  <2>1. ReadSound' /\ HostRows(hosts')
    BY <1>4 DEF ReadHosts, HostsArrive, HostsInv, ReadSound, NoRead, HostRows
  <2> QED  BY <1>4, <2>1 DEF ReadHosts, HostsArrive, HostsInv, HostRows, RequestSound, HostFormSound
<1>5. CASE OthersChange
  <2>1. UNCHANGED <<hosts, reading, ticked, hostForm, sent>>
    BY <1>5 DEF OthersChange
  <2>2. PICK h \in HostIds :
       \/ HostExists(hostStore, h) /\ hostStore' = [hostStore EXCEPT ![h] = NoHost]
       \/ HostExists(hostStore, h) /\ hostStore' = [hostStore EXCEPT ![h].sortOrder = Cardinality(HostIds)]
    BY <1>5 DEF OthersChange
  <2> DEFINE x == [hostStore[h] EXCEPT !.sortOrder = Cardinality(HostIds)]
  <2>3. HostExists(hostStore, h) => IsHost(x)
    <3>1. HostExists(hostStore, h) => hostStore[h] \in StoredHost /\ (hostStore[h].sni = "none" \/ hostStore[h].security # "same")
      BY DEF HostsInv, HostRows, HostExists, IsHost
    <3>2. Cardinality(HostIds) \in Nat
      BY HostsAssumption, FS_CardinalityType
    <3> DEFINE c == Cardinality(HostIds)
    <3>3. hostStore[h] \in StoredHost => x \in StoredHost /\ x.sni = hostStore[h].sni /\ x.security = hostStore[h].security
      <4>1. c \in Nat /\ x = [hostStore[h] EXCEPT !.sortOrder = c]
        BY <3>2
      <4> HIDE DEF c, x
      <4> QED  BY <4>1 DEF StoredHost
    <3> HIDE DEF x
    <3> QED  BY <3>1, <3>3 DEF IsHost
  <2>4. \/ hostStore' = [hostStore EXCEPT ![h] = NoHost]
        \/ hostStore' = [hostStore EXCEPT ![h] = x] /\ HostExists(hostStore, h)
    BY <2>2 DEF HostsInv, HostRows
  <2> HIDE DEF x
  <2>5. HostRows(hostStore')
    BY <2>3, <2>4 DEF HostsInv, HostRows
  <2> QED  BY <2>1, <2>5 DEF HostsInv, HostRows, ReadSound, RequestSound, HostFormSound
<1> QED  BY <1>1, <1>2, <1>3, <1>4, <1>5

LEMMA HostsInvStep == HostsInv /\ HostsNext => HostsInv'
BY HostsSendStep, HostDialogStep, HostsServerStep DEF HostsNext

LEMMA HostsInvStutter == HostsInv /\ UNCHANGED hostVars => HostsInv'
BY DEF HostsInv, hostVars, HostRows, ReadSound, RequestSound, HostFormSound

LEMMA HostsInvTypes == HostsInv => HostsTypeOK
BY DEF HostsInv, HostsTypeOK, HostExists, HostRows, IsHost

\* An edit stores the fields of its request in the host it was opened for.
LEMMA HostKeeps == HostsInv => HostKept
<1> SUFFICES ASSUME HostsInv, NEW r \in sent, r.kind = "edit", ~ r.touched, SucceedsHost(r),
                    NEW h \in r.ids, HostExists(hostStore, h)
             PROVE  /\ hostStore'[h].sni = r.opened.sni /\ hostStore'[h].security = r.opened.security
                    /\ hostStore'[h].sortOrder = hostStore[h].sortOrder
  BY DEF HostKept
<1>1. r.ids = {h} /\ h \in HostIds /\ r.of.sni = r.opened.sni /\ r.of.security = r.opened.security
  BY SMTT(30) DEF HostsInv, RequestSound
<1>2. hostStore' = [hostStore EXCEPT ![h].security = r.of.security, ![h].sni = r.of.sni, ![h].hidden = FALSE]
  BY <1>1 DEF SucceedsHost, Results
<1>3. IsHost(hostStore[h]) /\ DOMAIN hostStore = HostIds
  BY <1>1 DEF HostsInv, HostRows, HostExists
<1> QED  BY <1>1, <1>2, <1>3 DEF IsHost

IsSwap(s, t, S, n, i, j) ==
  /\ t \in [1..n -> S] /\ \A a, b \in 1..n : t[a] = t[b] => a = b
  /\ t[i] = s[j] /\ t[j] = s[i]
  /\ \A a \in 1..n \ {i, j} : t[a] = s[a]

\* Exchanging two places of an enumeration keeps it one.
LEMMA SwapKeeps ==
  ASSUME NEW S, NEW n \in Nat, NEW s \in [1..n -> S], \A a, b \in 1..n : s[a] = s[b] => a = b,
         NEW i \in 1..n, NEW j \in 1..n, i # j
  PROVE  IsSwap(s, Swapped(s, i, j), S, n, i, j)
<1> DEFINE t == Swapped(s, i, j)
<1>1. t \in [1..n -> S] /\ t[i] = s[j] /\ t[j] = s[i] /\ \A a \in 1..n \ {i, j} : t[a] = s[a]
  BY DEF Swapped
<1>2. \A a, b \in 1..n : t[a] = t[b] => a = b
  <2> HIDE DEF t
  <2> QED  BY <1>1
<1> QED  BY <1>1, <1>2 DEF IsSwap

\* The hosts of a table, numbered by their places in an enumeration of them,
\* come in the order of the enumeration.
LEMMA NumbersGiveOrder ==
  ASSUME HostRows(hostStore), NEW ids \in [1..Cardinality(InList(hostStore)) -> InList(hostStore)],
         \A a, b \in 1..Cardinality(InList(hostStore)) : ids[a] = ids[b] => a = b,
         HostRows(Reordered(ids))
  PROVE  InList(Reordered(ids)) = InList(hostStore) /\ inboundHostsInOrder(Reordered(ids)) = ids
<1> DEFINE S == InList(hostStore)
           n == Cardinality(S)
           made == Reordered(ids)
<1>1. n \in Nat /\ IsFiniteSet(S) /\ S \in SUBSET HostIds
  BY OrderOfRows DEF InList
<1>2. ids \in Seq(S) /\ Len(ids) = n
  <2>1. ids \in [1..n -> S]
    OBVIOUS
  <2> HIDE DEF n, S
  <2> QED  BY <1>1, <2>1
<1>3. ASSUME NEW a \in 1..n
      PROVE  made[ids[a]] = [hostStore[ids[a]] EXCEPT !.sortOrder = a - 1] /\ IsHost(hostStore[ids[a]])
  <2>1. ids[a] \in HostIds /\ HostExists(hostStore, ids[a])
    BY <1>1 DEF InList
  <2>2. Position(ids, ids[a]) = a
    <3>1. \E k \in 1..Len(ids) : ids[k] = ids[a]
      BY <1>2
    <3>2. Position(ids, ids[a]) \in 1..n /\ ids[Position(ids, ids[a])] = ids[a]
      BY <1>2, <3>1 DEF Position
    <3> QED  BY <3>2
  <2>3. \E k \in 1..Len(ids) : ids[k] = ids[a]
    BY <1>2
  <2> QED  BY <2>1, <2>2, <2>3 DEF Reordered, HostRows, HostExists
<1>4. ASSUME NEW a \in 1..n PROVE made[ids[a]].sortOrder = a - 1 /\ made[ids[a]] # NoHost
  <2>1. a - 1 \in Nat
    BY <1>1
  <2> DEFINE x == hostStore[ids[a]]
  <2>2. made[ids[a]] = [x EXCEPT !.sortOrder = a - 1] /\ x \in StoredHost
    BY <1>3 DEF IsHost
  <2> HIDE DEF x, made
  <2>3. made[ids[a]] \in StoredHost /\ made[ids[a]].sortOrder = a - 1
    BY <2>1, <2>2 DEF StoredHost
  <2> QED  BY <2>3, HostsAssumption
<1>5. Numbered(hostStore, S) /\ \A h \in S : \E a \in 1..n : ids[a] = h
  <2>1. ids \in Injection(1..n, S)
    BY DEF Injection, IsInjective
  <2>2. IsFiniteSet(1..n) /\ Cardinality(1..n) = n
    BY <1>1, FS_Interval
  <2>3. ids \in Surjection(1..n, S)
    BY <1>1, <2>1, <2>2, FS_Injection
  <2> QED  BY <2>3, OrderOfRows DEF Surjection
<1>6. InList(made) = S
  <2>1. \A h \in S : made[h] # NoHost
    BY <1>4, <1>5
  <2>2. \A h \in HostIds \ S : made[h] = NoHost
    BY DEF Reordered, InList, HostExists
  <2> HIDE DEF made
  <2> QED  BY <1>1, <2>1, <2>2 DEF InList, HostExists
<1>7. Ascending(made, ids)
  <2>1. ASSUME NEW a \in 1..n, NEW b \in 1..n, a < b PROVE Before(made, ids[a], ids[b])
    <3>1. made[ids[a]].sortOrder = a - 1 /\ made[ids[b]].sortOrder = b - 1
      BY <1>4
    <3> HIDE DEF made
    <3> QED  BY <1>1, <2>1, <3>1 DEF Before
  <2>2. DOMAIN ids = 1..n
    OBVIOUS
  <2> HIDE DEF made
  <2> QED  BY <2>1, <2>2 DEF Ascending
<1>b. HostRows(made)
  OBVIOUS
<1>8. /\ Numbered(made, S)
      /\ inboundHostsInOrder(made) \in [1..n -> S]
      /\ Ascending(made, inboundHostsInOrder(made))
  <2> HIDE DEF made, n
  <2> QED  BY <1>6, <1>b, OrderOfRows DEF n
<1> HIDE DEF made
<1>9. inboundHostsInOrder(made) = ids
  <2> DEFINE s == inboundHostsInOrder(made)
  <2>1. s \in [1..Cardinality(S) -> S] /\ Ascending(made, s)
    BY <1>8
  <2> HIDE DEF s, S
  <2>2. s = ids
    BY <1>1, <1>7, <1>8, <2>1, OrderIsOne DEF S
  <2> QED  BY <2>2 DEF s
<1> QED  BY <1>6, <1>9 DEF made

\* A move sends the order that was shown with two neighbours exchanged, and
\* the numbers the server gives bring the hosts in that order.
LEMMA HostsStepsApart == HostsInv => MovesSwap
<1> SUFFICES ASSUME HostsInv, NEW r \in sent, r.kind = "reorder", r.base = hostStore, SucceedsHost(r)
             PROVE  LET was == inboundHostsInOrder(hostStore)
                        is == inboundHostsInOrder(hostStore')
                    IN /\ Len(is) = Len(was)
                       /\ \A i \in 1..Len(was) :
                            IF was[i] \in r.of THEN is[i] \in r.of \ {was[i]} ELSE is[i] = was[i]
  BY DEF MovesSwap
<1> DEFINE S == InList(hostStore)
           n == Cardinality(S)
           was == inboundHostsInOrder(hostStore)
           is == inboundHostsInOrder(hostStore')
<1>1. HostRows(hostStore) /\ RequestSound(r)
  BY DEF HostsInv
<1>2. hostStore' = Reordered(r.ids)
  BY DEF SucceedsHost, Results
<1>3. HostRows(hostStore')
  BY <1>1, ResultRows DEF SucceedsHost
<1>4. was \in [1..n -> S] /\ n \in Nat /\ OnceEach(S, was)
  <2>1. Numbered(hostStore, S) /\ IsFiniteSet(S) /\ n \in Nat /\ was \in [1..n -> S] /\ Ascending(hostStore, was)
    BY <1>1, OrderOfRows
  <2> HIDE DEF was, S
  <2>2. OnceEach(S, was)
    BY <2>1, OrderHasAll DEF n
  <2> QED  BY <2>1, <2>2
<1>5. PICK i \in 1..n, j \in 1..n : i # j /\ r.ids = Swapped(was, i, j) /\ r.of = {was[i], was[j]}
  BY <1>1 DEF RequestSound, MoveSound
<1> DEFINE ids == r.ids
<1>6. \A a, b \in 1..n : was[a] = was[b] => a = b
  BY <1>4 DEF OnceEach
<1>7. /\ ids \in [1..n -> S] /\ \A a, b \in 1..n : ids[a] = ids[b] => a = b
      /\ ids[i] = was[j] /\ ids[j] = was[i]
      /\ \A a \in 1..n \ {i, j} : ids[a] = was[a]
  <2> HIDE DEF was, n, S
  <2>1. IsSwap(was, Swapped(was, i, j), S, n, i, j)
    BY <1>4, <1>5, <1>6, SwapKeeps
  <2>2. IsSwap(was, ids, S, n, i, j)
    BY <1>5, <2>1
  <2> QED  BY <2>2 DEF IsSwap
<1>8. is = ids
  BY <1>1, <1>2, <1>3, <1>7, NumbersGiveOrder
<1>9. Len(was) = n /\ Len(is) = n
  <2>1. was \in [1..n -> S] /\ is \in [1..n -> S]
    BY <1>4, <1>7, <1>8
  <2> HIDE DEF was, is, n, S, ids
  <2>2. was \in Seq(S) /\ is \in Seq(S)
    BY <1>4, <2>1
  <2> QED  BY <1>4, <2>1, <2>2
<1> HIDE DEF was, is, n, S, ids
<1>10. \A a \in 1..n : IF was[a] \in r.of THEN is[a] \in r.of \ {was[a]} ELSE is[a] = was[a]
  BY <1>4, <1>5, <1>6, <1>7, <1>8
<1> QED  BY <1>9, <1>10 DEF was, is

-----------------------------------------------------------------------------
(* The draft of the panel settings.  A refetch is what makes a saved draft *)
(* clean, and it may have been read before the save or after it; so the    *)
(* invariant says what a draft that counts as saved has in common with     *)
(* what is stored, from the moment its save is on its way.                 *)

\* The draft after the answer of the save that is in flight.
AfterSave(d) == IF saving.tfaOff THEN [d EXCEPT !.tfa = FALSE] ELSE d

\* What is typed is not armed for clearing, in a draft that may still be sent.
NeverBoth(d) == ~ (d.typed # 0 /\ d.clear)
NothingArmed ==
  /\ NeverTypedAndCleared
  /\ dialog.kind = "tfaOff" => NeverBoth(dialog.captured)

\* Unless an answer was lost, the view is that of the stored settings, or a
\* refetch is still to come.
ViewCurrent ==
  ~ unheard /\ saving.kind # "stored" =>
    /\ refetch = NoRefetch => view = Redacted(stored)
    /\ refetch.kind = "read" => refetch.view = Redacted(stored)

\* Clearing is offered for a secret that the view has.
ClearsWhatIsShown == settings.has = view.has /\ (settings.clear => settings.has)

\* While a dialog is open only a refetch and an answer change the draft.
DialogOverDraft ==
  /\ dialog.kind = "tfaOff" =>
       [settings EXCEPT !.tfa = FALSE] \in
         {[dialog.captured EXCEPT !.tfa = FALSE], [DraftOf(view) EXCEPT !.tfa = FALSE]}
  /\ dialog.kind = "restart" => saveDisabled_ /\ saving = NotSavingSettings

\* A draft that has the plain values and the flag that are stored (or sent), and
\* clears a secret only if that cleared it.
Fits(d, plain, tfa, emptied) ==
  /\ d.plain = plain
  /\ d = DraftOf(view) \/ (d.tfa = tfa /\ (d.typed = 0 /\ d.clear => emptied))

SaveFits ==
  /\ saving.kind \in {"asked", "stored", "refused"} /\ saving.tfaOff => ~ saving.sent.tfa
  /\ saving.kind = "stored" => stored.plain = saving.sent.plain /\ stored.tfa = saving.sent.tfa
  /\ (saving.kind = "asked" /\ edits # "late" /\ settings.plain = saving.sent.plain)
       => Fits(AfterSave(settings), saving.sent.plain, saving.sent.tfa,
               saving.sent.typed = 0 /\ saving.sent.clear)
  /\ (saving.kind = "stored" /\ edits # "late" /\ settings.plain = saving.sent.plain)
       => Fits(AfterSave(settings), stored.plain, stored.tfa, stored.secret = 0)

EditsFit ==
  /\ edits = "edited" => refetch = NoRefetch
  /\ edits \in {"edited", "saved"} /\ saving.kind # "none" => settings.plain = saving.sent.plain
  /\ edits = "saved" /\ ~ unheard =>
       /\ settings.plain = stored.plain
       /\ saving.kind # "stored" => Fits(settings, stored.plain, stored.tfa, stored.secret = 0)
       /\ refetch.kind = "read" => refetch.view.plain = settings.plain

SettingsInv ==
  /\ SettingsTypeOK /\ NothingArmed /\ ViewCurrent /\ ClearsWhatIsShown
  /\ DialogOverDraft /\ SaveFits /\ EditsFit

LEMMA EditKeepsSave ==
  ASSUME SaveFits, NEW d, updateSetting(d), UNCHANGED <<stored, saving>>
  PROVE  SaveFits'
<1>1. CASE saving = NotSavingSettings
  BY <1>1 DEF SaveFits, NotSavingSettings
<1>2. CASE saving # NotSavingSettings
  BY <1>2 DEF SaveFits, updateSetting
<1> QED  BY <1>1, <1>2

LEMMA SettingsInvStep ==
  ASSUME SettingsInv, SettingsNext
  PROVE  SettingsInv'
<1> USE SettingsAssumption DEF SettingsInv, SettingsTypeOK, StoredSettings, View, Draft, NoRefetch,
        NoDialog, Idle, NotSavingSettings, DraftOf, Redacted
<1>1. CASE EditPlain
  <2>1. SettingsTypeOK'
    BY <1>1 DEF EditPlain, updateSetting, OnPage
  <2>2. NothingArmed'
    BY <1>1 DEF EditPlain, updateSetting, OnPage, NothingArmed, NeverTypedAndCleared, NeverBoth
  <2>3. ViewCurrent'
    BY <1>1 DEF EditPlain, updateSetting, OnPage, ViewCurrent
  <2>4. ClearsWhatIsShown'
    BY <1>1 DEF EditPlain, updateSetting, OnPage, ClearsWhatIsShown
  <2>5. DialogOverDraft'
    BY <1>1 DEF EditPlain, updateSetting, OnPage, DialogOverDraft, saveDisabled_
  <2>6. SaveFits'
    BY <1>1, EditKeepsSave DEF EditPlain
  <2>7. EditsFit'
    BY <1>1 DEF EditPlain, updateSetting, OnPage, EditsFit, SaveFits, Fits, AfterSave, ViewCurrent
  <2> QED  BY <2>1, <2>2, <2>3, <2>4, <2>5, <2>6, <2>7
<1>2. CASE TypeSecret
  <2>1. SettingsTypeOK'
    <3>1. \A t \in 0..MaxSecret : [settings EXCEPT !.typed = t, !.clear = FALSE] \in Draft
      BY DEF SettingsTypeOK, Draft
    <3>2. /\ settings' \in Draft /\ edits' \in {"edited", "late"}
          /\ UNCHANGED <<stored, view, refetch, saving, dialog, restart, unheard>>
      <4> HIDE SettingsAssumption DEF SettingsInv, SettingsTypeOK, Draft
      <4> QED  BY <1>2, <3>1 DEF TypeSecret, updateSetting
    <3> HIDE DEF StoredSettings, View, Draft, DraftOf, Redacted
    <3> QED  BY <3>2
  <2>2. NothingArmed'
    BY <1>2 DEF TypeSecret, updateSetting, OnPage, NothingArmed, NeverTypedAndCleared, NeverBoth
  <2>3. ViewCurrent'
    BY <1>2 DEF TypeSecret, updateSetting, OnPage, ViewCurrent
  <2>4. ClearsWhatIsShown'
    BY <1>2 DEF TypeSecret, updateSetting, OnPage, ClearsWhatIsShown
  <2>5. DialogOverDraft'
    BY <1>2 DEF TypeSecret, updateSetting, OnPage, DialogOverDraft, saveDisabled_
  <2>6. SaveFits'
    BY <1>2, EditKeepsSave DEF TypeSecret
  <2>7. EditsFit'
    BY <1>2 DEF TypeSecret, updateSetting, OnPage, EditsFit, SaveFits, Fits, AfterSave, ViewCurrent
  <2> QED  BY <2>1, <2>2, <2>3, <2>4, <2>5, <2>6, <2>7
<1>3. CASE ToggleClear
  <2>1. SettingsTypeOK'
    <3>1. [settings EXCEPT !.typed = 0, !.clear = ~ settings.clear] \in Draft
      <4>1. settings \in Draft /\ (~ settings.clear) \in BOOLEAN /\ 0 \in 0..MaxSecret
        BY SettingsAssumption DEF SettingsTypeOK
      <4> DEFINE c == ~ settings.clear
      <4> HIDE DEF c
      <4>2. [settings EXCEPT !.typed = 0, !.clear = c] \in Draft
        BY <4>1 DEF Draft, c
      <4> QED  BY <4>2 DEF c
    <3> QED  BY <1>3, <3>1 DEF ToggleClear, updateSetting, SettingsTypeOK
  <2>2. NothingArmed'
    BY <1>3 DEF ToggleClear, updateSetting, OnPage, NothingArmed, NeverTypedAndCleared, NeverBoth
  <2>3. ViewCurrent'
    BY <1>3 DEF ToggleClear, updateSetting, OnPage, ViewCurrent
  <2>4. ClearsWhatIsShown'
    BY <1>3 DEF ToggleClear, updateSetting, OnPage, ClearsWhatIsShown
  <2>5. DialogOverDraft'
    BY <1>3 DEF ToggleClear, updateSetting, OnPage, DialogOverDraft, saveDisabled_
  <2>6. SaveFits'
    BY <1>3, EditKeepsSave DEF ToggleClear
  <2>7. EditsFit'
    BY <1>3 DEF ToggleClear, updateSetting, OnPage, EditsFit, SaveFits, Fits, AfterSave, ViewCurrent
  <2> QED  BY <2>1, <2>2, <2>3, <2>4, <2>5, <2>6, <2>7
<1>4. CASE onSave
  <2>1. SettingsTypeOK'
    BY <1>4 DEF onSave, OnPage, saveDisabled_
  <2>2. NothingArmed'
    BY <1>4 DEF onSave, OnPage, saveDisabled_, NothingArmed, NeverTypedAndCleared, NeverBoth
  <2>3. ViewCurrent'
    BY <1>4 DEF onSave, OnPage, saveDisabled_, ViewCurrent
  <2>4. ClearsWhatIsShown'
    BY <1>4 DEF onSave, OnPage, saveDisabled_, ClearsWhatIsShown
  <2>5. DialogOverDraft'
    BY <1>4 DEF onSave, OnPage, saveDisabled_, DialogOverDraft, saveDisabled_
  <2>6. SaveFits'
    BY <1>4 DEF onSave, OnPage, saveDisabled_, SaveFits, Fits, AfterSave, EditsFit, DialogOverDraft
  <2>7. EditsFit'
    BY <1>4 DEF onSave, OnPage, saveDisabled_, EditsFit, SaveFits, Fits, AfterSave, ViewCurrent
  <2> QED  BY <2>1, <2>2, <2>3, <2>4, <2>5, <2>6, <2>7
<1>5. CASE ServerUpdates
  <2>1. SettingsTypeOK'
    BY <1>5 DEF ServerUpdates, SecretAfter
  <2>2. NothingArmed'
    BY <1>5 DEF ServerUpdates, SecretAfter, NothingArmed, NeverTypedAndCleared, NeverBoth
  <2>3. ViewCurrent'
    BY <1>5 DEF ServerUpdates, SecretAfter, ViewCurrent
  <2>4. ClearsWhatIsShown'
    BY <1>5 DEF ServerUpdates, SecretAfter, ClearsWhatIsShown
  <2>5. DialogOverDraft'
    BY <1>5 DEF ServerUpdates, SecretAfter, DialogOverDraft, saveDisabled_
  <2>6. SaveFits'
    <3>1. PICK body \in Draft, off \in BOOLEAN :
            saving = [kind |-> "asked", sent |-> body, tfaOff |-> off]
      BY <1>5 DEF ServerUpdates, SettingsTypeOK, NotSavingSettings
    <3>2. CASE saving'.kind = "refused"
      BY <1>5, <3>1, <3>2 DEF ServerUpdates, SaveFits
    <3>3. CASE saving'.kind = "stored"
      <4>1. /\ stored'.plain = body.plain /\ stored'.tfa = body.tfa
            /\ (body.typed = 0 /\ body.clear) => stored'.secret = 0
            /\ saving' = [kind |-> "stored", sent |-> body, tfaOff |-> off]
        BY <1>5, <3>1, <3>3 DEF ServerUpdates, SecretAfter
      <4>2. UNCHANGED <<settings, view, edits>>
        BY <1>5 DEF ServerUpdates
      <4> QED  BY <3>1, <4>1, <4>2, ZenonT(60) DEF SaveFits, Fits, AfterSave
    <3> QED  BY <1>5, <3>1, <3>2, <3>3 DEF ServerUpdates
  <2>7. EditsFit'
    BY <1>5 DEF ServerUpdates, SecretAfter, EditsFit, SaveFits, Fits, AfterSave, ViewCurrent
  <2> QED  BY <2>1, <2>2, <2>3, <2>4, <2>5, <2>6, <2>7
<1>6. CASE SettingsSaved
  <2>1. SettingsTypeOK'
    <3>1. [settings EXCEPT !.tfa = FALSE] \in Draft /\ settings \in Draft
      BY DEF SettingsTypeOK, Draft
    <3>2. settings' \in Draft
      BY <1>6, <3>1 DEF SettingsSaved
    <3> QED  BY <1>6, <3>2 DEF SettingsSaved, SettingsTypeOK
  <2>2. NothingArmed'
    BY <1>6 DEF SettingsSaved, NothingArmed, NeverTypedAndCleared, NeverBoth
  <2>3. ViewCurrent'
    BY <1>6 DEF SettingsSaved, ViewCurrent
  <2>4. ClearsWhatIsShown'
    BY <1>6 DEF SettingsSaved, ClearsWhatIsShown
  <2>5. DialogOverDraft'
    <3>1. settings \in Draft
      BY DEF SettingsTypeOK
    <3>2. [settings' EXCEPT !.tfa = FALSE] = [settings EXCEPT !.tfa = FALSE]
      BY <1>6, <3>1 DEF SettingsSaved, Draft
    <3>3. saving # NotSavingSettings
      BY <1>6 DEF SettingsSaved, NotSavingSettings
    <3> QED  BY <1>6, <3>2, <3>3 DEF SettingsSaved, DialogOverDraft
  <2>6. SaveFits'
    BY <1>6 DEF SettingsSaved, SaveFits, Fits, AfterSave, EditsFit, DialogOverDraft
  <2>7. EditsFit'
    BY <1>6 DEF SettingsSaved, EditsFit, SaveFits, Fits, AfterSave, ViewCurrent
  <2> QED  BY <2>1, <2>2, <2>3, <2>4, <2>5, <2>6, <2>7
<1>7. CASE SettingsNotSaved
  <2>1. SettingsTypeOK'
    BY <1>7 DEF SettingsNotSaved
  <2>2. NothingArmed'
    BY <1>7 DEF SettingsNotSaved, NothingArmed, NeverTypedAndCleared, NeverBoth
  <2>3. ViewCurrent'
    BY <1>7 DEF SettingsNotSaved, ViewCurrent
  <2>4. ClearsWhatIsShown'
    BY <1>7 DEF SettingsNotSaved, ClearsWhatIsShown
  <2>5. DialogOverDraft'
    BY <1>7 DEF SettingsNotSaved, DialogOverDraft, saveDisabled_
  <2>6. SaveFits'
    BY <1>7 DEF SettingsNotSaved, SaveFits, Fits, AfterSave, EditsFit, DialogOverDraft
  <2>7. EditsFit'
    BY <1>7 DEF SettingsNotSaved, EditsFit, SaveFits, Fits, AfterSave, ViewCurrent
  <2> QED  BY <2>1, <2>2, <2>3, <2>4, <2>5, <2>6, <2>7
<1>8. CASE ServerShows
  <2>1. SettingsTypeOK'
    BY <1>8 DEF ServerShows
  <2>2. NothingArmed'
    BY <1>8 DEF ServerShows, NothingArmed, NeverTypedAndCleared, NeverBoth
  <2>3. ViewCurrent'
    BY <1>8 DEF ServerShows, ViewCurrent
  <2>4. ClearsWhatIsShown'
    BY <1>8 DEF ServerShows, ClearsWhatIsShown
  <2>5. DialogOverDraft'
    BY <1>8 DEF ServerShows, DialogOverDraft, saveDisabled_
  <2>6. SaveFits'
    BY <1>8 DEF ServerShows, SaveFits, Fits, AfterSave, EditsFit, DialogOverDraft
  <2>7. EditsFit'
    BY <1>8 DEF ServerShows, EditsFit, SaveFits, Fits, AfterSave, ViewCurrent
  <2> QED  BY <2>1, <2>2, <2>3, <2>4, <2>5, <2>6, <2>7
<1>9. CASE SettingsArrive
  <2>1. SettingsTypeOK'
    <3>1. refetch.view \in View
      BY <1>9 DEF SettingsArrive, SettingsTypeOK, NoRefetch
    <3>2. DraftOf(refetch.view) \in Draft
      BY <3>1, SettingsAssumption DEF DraftOf, View, Draft
    <3> HIDE DEF StoredSettings, View, Draft, DraftOf, Redacted
    <3> QED  BY <1>9, <3>1, <3>2 DEF SettingsArrive, SettingsTypeOK
  <2>2. NothingArmed'
    BY <1>9 DEF SettingsArrive, NothingArmed, NeverTypedAndCleared, NeverBoth
  <2>3. ViewCurrent'
    BY <1>9 DEF SettingsArrive, ViewCurrent
  <2>4. ClearsWhatIsShown'
    BY <1>9 DEF SettingsArrive, ClearsWhatIsShown
  <2>5. DialogOverDraft'
    BY <1>9 DEF SettingsArrive, DialogOverDraft, saveDisabled_
  <2>6. SaveFits'
    <3>1. CASE refetch.view = view
      <4>1. UNCHANGED <<stored, view, settings, saving>>
        BY <1>9, <3>1 DEF SettingsArrive
      <4>2. CASE saving = NotSavingSettings
        BY <4>1, <4>2 DEF SaveFits, NotSavingSettings
      <4>3. CASE saving # NotSavingSettings
        BY <1>9, <3>1, <4>1, <4>3, ZenonT(60) DEF SettingsArrive, SaveFits, Fits, AfterSave
      <4> QED  BY <4>2, <4>3
    <3>2. CASE refetch.view # view
      <4>1. settings' = DraftOf(view') /\ UNCHANGED <<stored, saving>>
        BY <1>9, <3>2 DEF SettingsArrive
      <4>2. settings'.clear = FALSE /\ [settings' EXCEPT !.tfa = FALSE].clear = FALSE
            /\ [settings' EXCEPT !.tfa = FALSE].plain = settings'.plain
            /\ [settings' EXCEPT !.tfa = FALSE].tfa = FALSE
        BY <4>1 DEF DraftOf
      <4>3. saving.kind \in {"asked", "stored"} => saving.tfaOff \in BOOLEAN /\ saving.sent.tfa \in BOOLEAN
        BY DEF SettingsTypeOK, NotSavingSettings, Draft
      <4> QED  BY <4>1, <4>2, <4>3 DEF SaveFits, Fits, AfterSave
    <3> QED  BY <3>1, <3>2
  <2>7. EditsFit'
    BY <1>9 DEF SettingsArrive, EditsFit, SaveFits, Fits, AfterSave, ViewCurrent
  <2> QED  BY <2>1, <2>2, <2>3, <2>4, <2>5, <2>6, <2>7
<1>10. CASE RefetchFails
  <2>1. SettingsTypeOK'
    BY <1>10 DEF RefetchFails
  <2>2. NothingArmed'
    BY <1>10 DEF RefetchFails, NothingArmed, NeverTypedAndCleared, NeverBoth
  <2>3. ViewCurrent'
    BY <1>10 DEF RefetchFails, ViewCurrent
  <2>4. ClearsWhatIsShown'
    BY <1>10 DEF RefetchFails, ClearsWhatIsShown
  <2>5. DialogOverDraft'
    BY <1>10 DEF RefetchFails, DialogOverDraft, saveDisabled_
  <2>6. SaveFits'
    BY <1>10 DEF RefetchFails, SaveFits, Fits, AfterSave, EditsFit, DialogOverDraft
  <2>7. EditsFit'
    BY <1>10 DEF RefetchFails, EditsFit, SaveFits, Fits, AfterSave, ViewCurrent
  <2> QED  BY <2>1, <2>2, <2>3, <2>4, <2>5, <2>6, <2>7
<1>11. CASE Refocus
  <2>1. SettingsTypeOK'
    BY <1>11 DEF Refocus
  <2>2. NothingArmed'
    BY <1>11 DEF Refocus, NothingArmed, NeverTypedAndCleared, NeverBoth
  <2>3. ViewCurrent'
    BY <1>11 DEF Refocus, ViewCurrent
  <2>4. ClearsWhatIsShown'
    BY <1>11 DEF Refocus, ClearsWhatIsShown
  <2>5. DialogOverDraft'
    BY <1>11 DEF Refocus, DialogOverDraft, saveDisabled_
  <2>6. SaveFits'
    BY <1>11 DEF Refocus, SaveFits, Fits, AfterSave, EditsFit, DialogOverDraft
  <2>7. EditsFit'
    BY <1>11 DEF Refocus, EditsFit, SaveFits, Fits, AfterSave, ViewCurrent
  <2> QED  BY <2>1, <2>2, <2>3, <2>4, <2>5, <2>6, <2>7
<1>12. CASE toggleTwoFactor
  <2>1. SettingsTypeOK'
    BY <1>12 DEF toggleTwoFactor, OnPage
  <2>2. NothingArmed'
    BY <1>12 DEF toggleTwoFactor, OnPage, NothingArmed, NeverTypedAndCleared, NeverBoth
  <2>3. ViewCurrent'
    BY <1>12 DEF toggleTwoFactor, OnPage, ViewCurrent
  <2>4. ClearsWhatIsShown'
    BY <1>12 DEF toggleTwoFactor, OnPage, ClearsWhatIsShown
  <2>5. DialogOverDraft'
    BY <1>12 DEF toggleTwoFactor, OnPage, DialogOverDraft, saveDisabled_
  <2>6. SaveFits'
    BY <1>12 DEF toggleTwoFactor, OnPage, SaveFits, Fits, AfterSave, EditsFit, DialogOverDraft
  <2>7. EditsFit'
    BY <1>12 DEF toggleTwoFactor, OnPage, EditsFit, SaveFits, Fits, AfterSave, ViewCurrent
  <2> QED  BY <2>1, <2>2, <2>3, <2>4, <2>5, <2>6, <2>7
<1>13. CASE ConfirmTwoFactorOn
  <2>1. SettingsTypeOK'
    BY <1>13 DEF ConfirmTwoFactorOn, updateSetting
  <2>2. NothingArmed'
    BY <1>13 DEF ConfirmTwoFactorOn, updateSetting, NothingArmed, NeverTypedAndCleared, NeverBoth
  <2>3. ViewCurrent'
    BY <1>13 DEF ConfirmTwoFactorOn, updateSetting, ViewCurrent
  <2>4. ClearsWhatIsShown'
    BY <1>13 DEF ConfirmTwoFactorOn, updateSetting, ClearsWhatIsShown
  <2>5. DialogOverDraft'
    BY <1>13 DEF ConfirmTwoFactorOn, updateSetting, DialogOverDraft, saveDisabled_
  <2>6. SaveFits'
    BY <1>13, EditKeepsSave DEF ConfirmTwoFactorOn
  <2>7. EditsFit'
    BY <1>13 DEF ConfirmTwoFactorOn, updateSetting, EditsFit, SaveFits, Fits, AfterSave, ViewCurrent
  <2> QED  BY <2>1, <2>2, <2>3, <2>4, <2>5, <2>6, <2>7
<1>14. CASE ConfirmTwoFactorOff
  <2>1. SettingsTypeOK'
    <3>1. dialog.captured \in Draft
      BY <1>14 DEF ConfirmTwoFactorOff, SettingsTypeOK, NoDialog
    <3>2. [dialog.captured EXCEPT !.tfa = FALSE] \in Draft
      BY <3>1 DEF Draft
    <3> QED  BY <1>14, <3>2 DEF ConfirmTwoFactorOff, SettingsTypeOK
  <2>2. NothingArmed'
    BY <1>14 DEF ConfirmTwoFactorOff, NothingArmed, NeverTypedAndCleared, NeverBoth
  <2>3. ViewCurrent'
    BY <1>14 DEF ConfirmTwoFactorOff, ViewCurrent
  <2>4. ClearsWhatIsShown'
    BY <1>14 DEF ConfirmTwoFactorOff, ClearsWhatIsShown
  <2>5. DialogOverDraft'
    BY <1>14 DEF ConfirmTwoFactorOff, DialogOverDraft, saveDisabled_
  <2>6. SaveFits'
    <3>1. dialog.captured \in Draft /\ settings \in Draft /\ view \in View
      BY <1>14 DEF ConfirmTwoFactorOff, SettingsTypeOK, NoDialog
    <3>2. [settings EXCEPT !.tfa = FALSE] \in
            {[dialog.captured EXCEPT !.tfa = FALSE], [DraftOf(view) EXCEPT !.tfa = FALSE]}
      BY <1>14 DEF ConfirmTwoFactorOff, DialogOverDraft
    <3> DEFINE body == [dialog.captured EXCEPT !.tfa = FALSE]
    <3>3. /\ body \in Draft /\ body.tfa = FALSE
          /\ [DraftOf(view) EXCEPT !.tfa = FALSE].clear = FALSE
          /\ [settings EXCEPT !.tfa = FALSE].plain = settings.plain
          /\ [settings EXCEPT !.tfa = FALSE].tfa = FALSE
      BY <3>1 DEF Draft, DraftOf
    <3>4. saving' = [kind |-> "asked", sent |-> body, tfaOff |-> TRUE]
          /\ UNCHANGED <<settings, view>>
      BY <1>14 DEF ConfirmTwoFactorOff
    <3> HIDE DEF body
    <3> QED  BY <3>2, <3>3, <3>4 DEF SaveFits, Fits, AfterSave, body
  <2>7. EditsFit'
    BY <1>14 DEF ConfirmTwoFactorOff, EditsFit, SaveFits, Fits, AfterSave, ViewCurrent
  <2> QED  BY <2>1, <2>2, <2>3, <2>4, <2>5, <2>6, <2>7
<1>15. CASE CancelDialog
  <2>1. SettingsTypeOK'
    BY <1>15 DEF CancelDialog
  <2>2. NothingArmed'
    BY <1>15 DEF CancelDialog, NothingArmed, NeverTypedAndCleared, NeverBoth
  <2>3. ViewCurrent'
    BY <1>15 DEF CancelDialog, ViewCurrent
  <2>4. ClearsWhatIsShown'
    BY <1>15 DEF CancelDialog, ClearsWhatIsShown
  <2>5. DialogOverDraft'
    BY <1>15 DEF CancelDialog, DialogOverDraft, saveDisabled_
  <2>6. SaveFits'
    BY <1>15 DEF CancelDialog, SaveFits, Fits, AfterSave, EditsFit, DialogOverDraft
  <2>7. EditsFit'
    BY <1>15 DEF CancelDialog, EditsFit, SaveFits, Fits, AfterSave, ViewCurrent
  <2> QED  BY <2>1, <2>2, <2>3, <2>4, <2>5, <2>6, <2>7
<1>16. CASE restartPanel
  <2>1. SettingsTypeOK'
    BY <1>16 DEF restartPanel, OnPage, saveDisabled_
  <2>2. NothingArmed'
    BY <1>16 DEF restartPanel, OnPage, saveDisabled_, NothingArmed, NeverTypedAndCleared, NeverBoth
  <2>3. ViewCurrent'
    BY <1>16 DEF restartPanel, OnPage, saveDisabled_, ViewCurrent
  <2>4. ClearsWhatIsShown'
    BY <1>16 DEF restartPanel, OnPage, saveDisabled_, ClearsWhatIsShown
  <2>5. DialogOverDraft'
    BY <1>16 DEF restartPanel, OnPage, saveDisabled_, DialogOverDraft, saveDisabled_
  <2>6. SaveFits'
    BY <1>16 DEF restartPanel, OnPage, saveDisabled_, SaveFits, Fits, AfterSave, EditsFit, DialogOverDraft
  <2>7. EditsFit'
    BY <1>16 DEF restartPanel, OnPage, saveDisabled_, EditsFit, SaveFits, Fits, AfterSave, ViewCurrent
  <2> QED  BY <2>1, <2>2, <2>3, <2>4, <2>5, <2>6, <2>7
<1>17. CASE ConfirmRestart
  <2>1. SettingsTypeOK'
    BY <1>17 DEF ConfirmRestart
  <2>2. NothingArmed'
    BY <1>17 DEF ConfirmRestart, NothingArmed, NeverTypedAndCleared, NeverBoth
  <2>3. ViewCurrent'
    BY <1>17 DEF ConfirmRestart, ViewCurrent
  <2>4. ClearsWhatIsShown'
    BY <1>17 DEF ConfirmRestart, ClearsWhatIsShown
  <2>5. DialogOverDraft'
    BY <1>17 DEF ConfirmRestart, DialogOverDraft, saveDisabled_
  <2>6. SaveFits'
    BY <1>17 DEF ConfirmRestart, SaveFits, Fits, AfterSave, EditsFit, DialogOverDraft
  <2>7. EditsFit'
    BY <1>17 DEF ConfirmRestart, EditsFit, SaveFits, Fits, AfterSave, ViewCurrent
  <2> QED  BY <2>1, <2>2, <2>3, <2>4, <2>5, <2>6, <2>7
<1>18. CASE RestartGoesOn
  <2>1. SettingsTypeOK'
    BY <1>18 DEF RestartGoesOn
  <2>2. NothingArmed'
    BY <1>18 DEF RestartGoesOn, NothingArmed, NeverTypedAndCleared, NeverBoth
  <2>3. ViewCurrent'
    BY <1>18 DEF RestartGoesOn, ViewCurrent
  <2>4. ClearsWhatIsShown'
    BY <1>18 DEF RestartGoesOn, ClearsWhatIsShown
  <2>5. DialogOverDraft'
    BY <1>18 DEF RestartGoesOn, DialogOverDraft, saveDisabled_
  <2>6. SaveFits'
    BY <1>18 DEF RestartGoesOn, SaveFits, Fits, AfterSave, EditsFit, DialogOverDraft
  <2>7. EditsFit'
    BY <1>18 DEF RestartGoesOn, EditsFit, SaveFits, Fits, AfterSave, ViewCurrent
  <2> QED  BY <2>1, <2>2, <2>3, <2>4, <2>5, <2>6, <2>7
<1> QED  BY <1>1, <1>2, <1>3, <1>4, <1>5, <1>6, <1>7, <1>8, <1>9, <1>10, <1>11, <1>12, <1>13, <1>14, <1>15, <1>16, <1>17, <1>18 DEF SettingsNext

LEMMA SettingsInvInit == SettingsInit => SettingsInv
<1> SUFFICES ASSUME SettingsInit PROVE SettingsInv
  OBVIOUS
<1>1. stored \in StoredSettings /\ view \in View /\ settings \in Draft
  BY SettingsAssumption DEF SettingsInit, StoredSettings, View, Draft, Redacted, DraftOf
<1>2. SettingsTypeOK
  BY <1>1 DEF SettingsInit, SettingsTypeOK
<1> QED
  BY <1>2 DEF SettingsInit, SettingsInv, NothingArmed, NeverTypedAndCleared, NeverBoth,
     ViewCurrent, ClearsWhatIsShown, DialogOverDraft, SaveFits, EditsFit, DraftOf,
     NoDialog, NoRefetch, NotSavingSettings, AfterSave, Fits

LEMMA SettingsInvStutter == SettingsInv /\ UNCHANGED settingsVars => SettingsInv'
<1> SUFFICES ASSUME SettingsInv, UNCHANGED settingsVars PROVE SettingsInv'
  OBVIOUS
<1> USE DEF settingsVars, SettingsInv
<1>1. SettingsTypeOK' /\ ViewCurrent' /\ ClearsWhatIsShown'
  BY DEF SettingsTypeOK, ViewCurrent, ClearsWhatIsShown
<1>2. NothingArmed' /\ DialogOverDraft'
  BY DEF NothingArmed, NeverTypedAndCleared, NeverBoth, DialogOverDraft, saveDisabled_
<1>3. SaveFits' /\ EditsFit'
  BY ZenonT(60) DEF SaveFits, EditsFit, Fits, AfterSave
<1> QED  BY <1>1, <1>2, <1>3

LEMMA SettingsTruth == SettingsInv => CleanShowsStored /\ SavedIsClean
<1> SUFFICES ASSUME SettingsInv PROVE CleanShowsStored /\ SavedIsClean
  OBVIOUS
<1> USE DEF SettingsInv
<1>1. CleanShowsStored
  BY DEF CleanShowsStored, AtRest, ViewCurrent, saveDisabled_, NotSavingSettings
<1>2. SavedIsClean
  <2> SUFFICES ASSUME AtRest, ~ unheard, edits = "saved", settings.typed = 0
               PROVE  settings = DraftOf(view)
    BY DEF SavedIsClean, saveDisabled_
  <2>1. view = Redacted(stored) /\ Fits(settings, stored.plain, stored.tfa, stored.secret = 0)
    BY DEF AtRest, ViewCurrent, EditsFit, NotSavingSettings
  <2>2. settings \in Draft /\ settings.has = view.has /\ (settings.clear => settings.has)
    BY DEF SettingsTypeOK, ClearsWhatIsShown
  <2> QED  BY <2>1, <2>2 DEF Fits, Redacted, DraftOf, Draft
<1> QED  BY <1>1, <1>2

LEMMA SettingsStepsApart == SettingsInv => DiscardedOnlyByNews /\ RestartServesTarget
<1> SUFFICES ASSUME SettingsInv PROVE DiscardedOnlyByNews /\ RestartServesTarget
  OBVIOUS
<1> USE DEF SettingsInv
<1>1. DiscardedOnlyByNews
  <2> SUFFICES ASSUME SettingsArrive, settings'.plain # settings.plain, ~ unheard
               PROVE  edits \in {"late", "none"}
    BY DEF DiscardedOnlyByNews
  <2>1. settings' = DraftOf(refetch.view) /\ refetch.kind = "read"
    BY DEF SettingsArrive
  <2>2. settings'.plain = refetch.view.plain
    BY <2>1 DEF DraftOf
  <2>3. edits # "edited"
    BY <2>1 DEF EditsFit, NoRefetch
  <2>4. edits # "saved"
    BY <2>1, <2>2 DEF EditsFit
  <2> QED  BY <2>3, <2>4 DEF SettingsTypeOK
<1>2. RestartServesTarget
  BY DEF RestartServesTarget, ConfirmRestart, AtRest, ViewCurrent, DialogOverDraft, saveDisabled_,
         DraftOf, Redacted, NotSavingSettings
<1> QED  BY <1>1, <1>2

-----------------------------------------------------------------------------
LEMMA RowTakenOut ==
  ASSUME NEW R, NEW list \in Seq(R), NEW i \in DOMAIN list
  PROVE  /\ RemoveAt(list, i) \in Seq(R)
         /\ Len(RemoveAt(list, i)) = Len(list) - 1
<1>1. Len(list) \in Nat /\ DOMAIN list = 1..Len(list) /\ i \in 1..Len(list)
  OBVIOUS
<1> DEFINE front == SubSeq(list, 1, i - 1)
           back == SubSeq(list, i + 1, Len(list))
<1>2. front \in Seq(R) /\ Len(front) = i - 1
  BY <1>1
<1>3. back \in Seq(R) /\ Len(back) = Len(list) - i
  BY <1>1
<1> HIDE DEF front, back
<1> DEFINE rest == front \o back
<1>4. rest \in Seq(R) /\ Len(rest) = Len(front) + Len(back)
  <2>1. front \in Seq(R) /\ back \in Seq(R)
    BY <1>2, <1>3
  <2> QED  BY <2>1
<1>5. RemoveAt(list, i) = rest
  BY DEF RemoveAt, front, back
<1> HIDE DEF rest
<1>6. Len(front) + Len(back) = Len(list) - 1
  BY <1>1, <1>2, <1>3
<1> QED  BY <1>4, <1>5, <1>6

\* SetToSeq lists the elements of a finite set, every one of them once.
LEMMA SetListed ==
  ASSUME NEW S, IsFiniteSet(S)
  PROVE  /\ Cardinality(S) \in Nat
         /\ SetToSeq(S) \in [1..Cardinality(S) -> S]
         /\ \A x \in S : \E k \in 1..Cardinality(S) : SetToSeq(S)[k] = x
<1> DEFINE n == Cardinality(S)
<1>1. n \in Nat /\ ExistsBijection(1..n, S)
  BY FS_CardinalityType
<1>2. PICK g \in [1..n -> S] : IsInjective(g)
  BY <1>1 DEF ExistsBijection, Bijection, Injection
<1>3. SetToSeq(S) \in [1..n -> S] /\ IsInjective(SetToSeq(S))
  BY <1>2 DEF SetToSeq
<1>4. SetToSeq(S) \in Injection(1..n, S)
  BY <1>3 DEF Injection
<1>5. Cardinality(1..n) = n /\ IsFiniteSet(1..n)
  BY <1>1, FS_Interval
<1>6. SetToSeq(S) \in Surjection(1..n, S)
  BY <1>4, <1>5, FS_Injection
<1> QED  BY <1>1, <1>3, <1>6 DEF Surjection

(* The DNS section. *)

DnsSection == [on : BOOLEAN, servers : Seq(Server), hosts : SUBSET Domains]

\* fakedns goes with the dns section, and the rows with its hosts.
DnsInv ==
  /\ DnsTypeOK
  /\ dns \in DnsSection
  /\ HostsShown
  /\ FakednsUsable

LEMMA RowsAreHosts ==
  ASSUME NEW named \in SUBSET Domains
  PROVE  /\ RowsOf(named) \in Seq(HostRow)
         /\ Len(RowsOf(named)) <= MaxHosts
         /\ HostsOf(RowsOf(named)) = named
<1>1. IsFiniteSet(named) /\ Cardinality(named) <= Cardinality(Domains)
      /\ Cardinality(Domains) \in Nat
  BY DnsAssumption, FS_Subset, FS_CardinalityType
<1> DEFINE n == Cardinality(named)
           list == SetToSeq(named)
<1>2. n \in Nat /\ list \in [1..n -> named] /\ \A d \in named : \E k \in 1..n : list[k] = d
  BY <1>1, SetListed
<1> HIDE DEF n, list
<1> DEFINE rs == [k \in 1..n |-> [domain |-> list[k], valued |-> TRUE]]
<1>3. rs = RowsOf(named)
  BY DEF RowsOf, n, list
<1>4. rs \in Seq(HostRow) /\ Len(rs) = n
  <2>1. \A k \in 1..n : [domain |-> list[k], valued |-> TRUE] \in HostRow
    BY <1>2 DEF HostRow
  <2> QED  BY <1>2, <2>1
<1>5. HostsOf(rs) = named
  <2>1. DOMAIN rs = 1..n /\ \A k \in 1..n : rs[k].domain = list[k] /\ rs[k].valued /\ list[k] # NoDomain
    BY <1>2, DnsAssumption
  <2> HIDE DEF rs
  <2>2. HostsOf(rs) = {list[k] : k \in 1..n}
    BY <2>1 DEF HostsOf
  <2> QED  BY <1>2, <2>2
<1>6. n <= MaxHosts
  BY <1>1, <1>2, DnsAssumption DEF n
<1> HIDE DEF rs
<1> QED  BY <1>3, <1>4, <1>5, <1>6

LEMMA NoRowsNoHosts ==
  /\ <<>> \in Seq(HostRow) /\ Len(<<>>) = 0 /\ HostsOf(<<>>) = {}
BY DEF HostsOf

LEMMA HostsAreDomains == \A list \in Seq(HostRow) : HostsOf(list) \subseteq Domains
<1> SUFFICES ASSUME NEW list \in Seq(HostRow) PROVE \A d \in HostsOf(list) : d \in Domains
  OBVIOUS
<1>1. ASSUME NEW k \in DOMAIN list, list[k].domain # NoDomain
      PROVE  list[k].domain \in Domains
  <2>1. list[k] \in HostRow
    OBVIOUS
  <2> QED  BY <1>1, <2>1 DEF HostRow
<1> QED  BY <1>1 DEF HostsOf

\* The dns sections that the tab writes or a refetch brings.
LEMMA SectionsWritten ==
  /\ Off \in DnsSection /\ Off.servers = <<>> /\ ~ Off.on /\ Off.hosts = {}
  /\ On \in DnsSection /\ On.servers = <<>> /\ On.on /\ On.hosts = {}
  /\ LET full == [On EXCEPT !.hosts = Domains]
     IN full \in DnsSection /\ full.servers = <<>> /\ full.on /\ full.hosts = Domains
<1>1. <<>> \in Seq(Server)
  OBVIOUS
<1>2. Off \in DnsSection /\ Off.servers = <<>> /\ ~ Off.on /\ Off.hosts = {}
  BY <1>1 DEF DnsSection, Off
<1>3. On \in DnsSection /\ On.servers = <<>> /\ On.on /\ On.hosts = {}
  BY <1>1 DEF DnsSection, On
<1>4. LET full == [On EXCEPT !.hosts = Domains]
      IN full \in DnsSection /\ full.servers = <<>> /\ full.on /\ full.hosts = Domains
  BY <1>3 DEF DnsSection
<1> QED  BY <1>2, <1>3, <1>4

LEMMA DnsInvInit == DnsInit => DnsInv
<1> SUFFICES ASSUME DnsInit PROVE DnsInv
  OBVIOUS
<1>1. dns \in DnsSection /\ dns.servers = <<>>
  BY SectionsWritten DEF DnsInit
<1>2. /\ RowsOf(dns.hosts) \in Seq(HostRow)
      /\ Len(RowsOf(dns.hosts)) <= MaxHosts
      /\ HostsOf(RowsOf(dns.hosts)) = dns.hosts
  <2>1. dns.hosts \in SUBSET Domains
    BY <1>1 DEF DnsSection
  <2> QED  BY <2>1, RowsAreHosts
<1>3. Len(dns.servers) = 0 /\ MaxServers \in Nat
  BY <1>1, DnsAssumption
<1>4. DnsTypeOK
  <2>1. dns.on \in BOOLEAN /\ dns.servers \in Seq(Server) /\ dns.hosts \subseteq Domains
    BY <1>1 DEF DnsSection
  <2>2. Len(dns.servers) <= MaxServers
    BY <1>3
  <2>3. hostRows = RowsOf(dns.hosts) /\ fakedns = Null /\ serverDialog = Closed /\ replaced = FALSE
    BY DEF DnsInit
  <2> QED  BY <1>2, <2>1, <2>2, <2>3 DEF DnsTypeOK
<1>5. HostsShown
  BY <1>2 DEF DnsInit, HostsShown
<1>6. FakednsUsable
  BY DEF DnsInit, FakednsUsable, Null
<1> QED  BY <1>1, <1>4, <1>5, <1>6 DEF DnsInv

LEMMA EffectOnRows ==
  ASSUME DnsInv, NEW next \in DnsSection, HostsEffect(next)
  PROVE  /\ hostRows' \in Seq(HostRow) /\ Len(hostRows') <= MaxHosts
         /\ (next.on # dns.on /\ (~ next.on => next.hosts = {})) => next.hosts = HostsOf(hostRows')
<1>0. next.hosts \in SUBSET Domains /\ next.on \in BOOLEAN /\ dns.on \in BOOLEAN
  BY DEF DnsSection, DnsInv
<1>1. /\ RowsOf(next.hosts) \in Seq(HostRow)
      /\ Len(RowsOf(next.hosts)) <= MaxHosts
      /\ HostsOf(RowsOf(next.hosts)) = next.hosts
  BY <1>0, RowsAreHosts
<1>2. MaxHosts \in Nat /\ hostRows \in Seq(HostRow) /\ Len(hostRows) <= MaxHosts
  BY DnsAssumption DEF DnsInv, DnsTypeOK
<1>3. CASE next.on = dns.on
  BY <1>2, <1>3 DEF HostsEffect
<1>4. CASE next.on # dns.on /\ next.on
  BY <1>1, <1>4 DEF HostsEffect
<1>5. CASE next.on # dns.on /\ ~ next.on
  <2>1. hostRows' = <<>>
    BY <1>0, <1>5 DEF HostsEffect
  <2>2. hostRows' \in Seq(HostRow) /\ Len(hostRows') = 0 /\ HostsOf(hostRows') = {}
    BY <2>1, NoRowsNoHosts
  <2> QED  BY <1>2, <1>5, <2>2
<1> QED  BY <1>3, <1>4, <1>5

LEMMA ServersEdited ==
  ASSUME NEW d \in DnsSection, NEW list \in Seq(Server)
  PROVE  /\ [d EXCEPT !.servers = list] \in DnsSection
         /\ [d EXCEPT !.servers = list].servers = list
         /\ [d EXCEPT !.servers = list].hosts = d.hosts
         /\ [d EXCEPT !.servers = list].on = d.on
BY DEF DnsSection

LEMMA HostsEdited ==
  ASSUME NEW d \in DnsSection, NEW h \in SUBSET Domains
  PROVE  /\ [d EXCEPT !.hosts = h] \in DnsSection
         /\ [d EXCEPT !.hosts = h].servers = d.servers
         /\ [d EXCEPT !.hosts = h].hosts = h
         /\ [d EXCEPT !.hosts = h].on = d.on
BY DEF DnsSection

\* The list of servers after the dialog wrote at an index, or one was removed.
LEMMA ListEdited ==
  ASSUME NEW list \in Seq(Server), NEW s \in Server
  PROVE  /\ Append(list, s) \in Seq(Server) /\ Len(Append(list, s)) = Len(list) + 1
         /\ \A k \in DOMAIN list : LET e == [list EXCEPT ![k] = s]
                                  IN e \in Seq(Server) /\ Len(e) = Len(list)
OBVIOUS

\* What every action but the ones of the template leaves of the dns section.
LEMMA ServersWritten ==
  ASSUME DnsInv, NEW list \in Seq(Server), Len(list) <= MaxServers,
         dns' = [dns EXCEPT !.servers = list], UNCHANGED <<fakedns, hostRows, replaced>>
  PROVE  /\ dns' \in DnsSection /\ Len(dns'.servers) <= MaxServers
         /\ HostsShown' /\ FakednsUsable'
<1>1. dns \in DnsSection
  BY DEF DnsInv
<1>2. dns' \in DnsSection /\ dns'.servers = list /\ dns'.hosts = dns.hosts /\ dns'.on = dns.on
  BY <1>1, ServersEdited
<1>3. HostsShown'
  BY <1>2 DEF DnsInv, HostsShown
<1>4. FakednsUsable'
  BY <1>2 DEF DnsInv, FakednsUsable
<1> QED  BY <1>2, <1>3, <1>4

LEMMA DnsWhole ==
  ASSUME dns' \in DnsSection, Len(dns'.servers) <= MaxServers,
         fakedns' \in 0..MaxFakedns \cup {Null},
         hostRows' \in Seq(HostRow), Len(hostRows') <= MaxHosts,
         serverDialog' \in 0..MaxServers \cup {Closed}, replaced' \in BOOLEAN,
         HostsShown', FakednsUsable'
  PROVE  DnsInv'
<1>1. dns'.on \in BOOLEAN /\ dns'.servers \in Seq(Server) /\ dns'.hosts \subseteq Domains
  BY DEF DnsSection
<1> QED  BY <1>1 DEF DnsInv, DnsTypeOK

LEMMA DnsInvStep ==
  ASSUME DnsInv, DnsNext
  PROVE  DnsInv'
<1>0. /\ dns \in DnsSection /\ MaxServers \in Nat /\ MaxServers >= 1 /\ MaxHosts \in Nat
      /\ dns.on \in BOOLEAN /\ dns.servers \in Seq(Server) /\ dns.hosts \in SUBSET Domains
      /\ Len(dns.servers) \in Nat /\ Len(dns.servers) <= MaxServers
      /\ fakedns \in 0..MaxFakedns \cup {Null}
      /\ hostRows \in Seq(HostRow) /\ Len(hostRows) <= MaxHosts
      /\ serverDialog \in 0..MaxServers \cup {Closed} /\ replaced \in BOOLEAN
      /\ HostsShown /\ FakednsUsable
  BY DnsAssumption DEF DnsInv, DnsSection, DnsTypeOK
<1>1. CASE toggleDNS
  <2>1. dns' \in DnsSection /\ HostsEffect(dns') /\ dns'.servers = <<>> /\ dns'.on # dns.on /\ dns'.hosts = {}
    BY <1>1, <1>0, SectionsWritten DEF toggleDNS
  <2>2. hostRows' \in Seq(HostRow) /\ Len(hostRows') <= MaxHosts /\ dns'.hosts = HostsOf(hostRows')
    BY <2>1, EffectOnRows
  <2>3. fakedns' = Null /\ serverDialog' = serverDialog /\ replaced' = replaced
    BY <1>1 DEF toggleDNS
  <2>4. Len(dns'.servers) <= MaxServers
    BY <2>1, <1>0
  <2>5. HostsShown'
    BY <2>2 DEF HostsShown
  <2>6. FakednsUsable'
    BY <2>3 DEF FakednsUsable, Null
  <2> QED  BY <1>0, <2>1, <2>2, <2>3, <2>4, <2>5, <2>6, DnsWhole
<1>2. CASE EditHosts
  <2>1. hostRows' \in Seq(HostRow) /\ Len(hostRows') <= MaxHosts /\ syncHosts(hostRows')
    <3>1. CASE /\ Len(hostRows) < MaxHosts
               /\ syncHosts(Append(hostRows, [domain |-> NoDomain, valued |-> FALSE]))
      <4> DEFINE row == [domain |-> NoDomain, valued |-> FALSE]
      <4>1. row \in HostRow
        BY DEF HostRow
      <4> HIDE DEF row
      <4>2. Append(hostRows, row) \in Seq(HostRow) /\ Len(Append(hostRows, row)) = Len(hostRows) + 1
        BY <4>1, <1>0
      <4>3. hostRows' = Append(hostRows, row)
        BY <3>1 DEF syncHosts, row
      <4> QED  BY <3>1, <4>2, <4>3, <1>0 DEF row
    <3>2. ASSUME NEW k \in DOMAIN hostRows, NEW row \in HostRow,
                 syncHosts([hostRows EXCEPT ![k] = row])
          PROVE  hostRows' \in Seq(HostRow) /\ Len(hostRows') <= MaxHosts /\ syncHosts(hostRows')
      BY <3>2, <1>0 DEF syncHosts
    <3>3. ASSUME NEW k \in DOMAIN hostRows, syncHosts(RemoveAt(hostRows, k))
          PROVE  hostRows' \in Seq(HostRow) /\ Len(hostRows') <= MaxHosts /\ syncHosts(hostRows')
      <4>1. RemoveAt(hostRows, k) \in Seq(HostRow) /\ Len(RemoveAt(hostRows, k)) = Len(hostRows) - 1
        BY <1>0, RowTakenOut
      <4> QED  BY <3>3, <4>1, <1>0 DEF syncHosts
    <3> QED  BY <1>2, <3>1, <3>2, <3>3 DEF EditHosts
  <2>2. dns' = [dns EXCEPT !.hosts = HostsOf(hostRows')] /\ HostsOf(hostRows') \in SUBSET Domains
    BY <2>1, HostsAreDomains DEF syncHosts
  <2>3. /\ dns' \in DnsSection /\ dns'.hosts = HostsOf(hostRows')
        /\ dns'.servers = dns.servers /\ dns'.on = dns.on
    BY <2>2, <1>0, HostsEdited
  <2>4. UNCHANGED <<fakedns, serverDialog, replaced>>
    BY <1>2 DEF EditHosts
  <2>5. HostsShown' /\ FakednsUsable'
    BY <2>3, <2>4, <1>0 DEF HostsShown, FakednsUsable
  <2> QED  BY <1>0, <2>1, <2>3, <2>4, <2>5, DnsWhole
<1>3. CASE openServerModal
  <2>1. serverDialog' \in 0..MaxServers
    BY <1>0, <1>3 DEF openServerModal
  <2>2. UNCHANGED <<dns, fakedns, hostRows, replaced>>
    BY <1>3 DEF openServerModal
  <2>3. HostsShown' /\ FakednsUsable'
    BY <2>2, <1>0 DEF HostsShown, FakednsUsable
  <2> QED  BY <1>0, <2>1, <2>2, <2>3, DnsWhole
<1>4. CASE onServerConfirm
  <2>1. UNCHANGED <<fakedns, hostRows, replaced>> /\ serverDialog' = Closed
    BY <1>4 DEF onServerConfirm
  <2>2. \E list \in Seq(Server) : Len(list) <= MaxServers /\ dns' = [dns EXCEPT !.servers = list]
    <3>1. PICK s \in Server :
            dns' = IF ~ dns.on THEN dns
                ELSE IF serverDialog \in DOMAIN dns.servers
                     THEN [dns EXCEPT !.servers = [@ EXCEPT ![serverDialog] = s]]
                ELSE IF Len(dns.servers) < MaxServers
                     THEN [dns EXCEPT !.servers = Append(@, s)] ELSE dns
      BY <1>4 DEF onServerConfirm
    <3>2. CASE dns' = dns
      <4>1. dns = [dns EXCEPT !.servers = dns.servers]
        BY <1>0 DEF DnsSection
      <4> QED  BY <3>2, <4>1, <1>0
    <3>3. CASE serverDialog \in DOMAIN dns.servers
               /\ dns' = [dns EXCEPT !.servers = [dns.servers EXCEPT ![serverDialog] = s]]
      BY <3>3, <1>0, ListEdited
    <3>4. CASE Len(dns.servers) < MaxServers /\ dns' = [dns EXCEPT !.servers = Append(dns.servers, s)]
      <4>1. Append(dns.servers, s) \in Seq(Server) /\ Len(Append(dns.servers, s)) = Len(dns.servers) + 1
        BY <1>0, ListEdited
      <4>2. Len(Append(dns.servers, s)) <= MaxServers
        BY <3>4, <4>1, <1>0
      <4> QED  BY <3>4, <4>1, <4>2
    <3> QED  BY <3>1, <3>2, <3>3, <3>4
  <2>3. dns' \in DnsSection /\ Len(dns'.servers) <= MaxServers /\ HostsShown' /\ FakednsUsable'
    BY <2>1, <2>2, ServersWritten
  <2> QED  BY <1>0, <2>1, <2>3, DnsWhole
<1>5. CASE RemoveServers
  <2>1. UNCHANGED <<fakedns, hostRows, serverDialog, replaced>>
    BY <1>5 DEF RemoveServers
  <2>2. \E list \in Seq(Server) : Len(list) <= MaxServers /\ dns' = [dns EXCEPT !.servers = list]
    <3>1. ASSUME NEW k \in DOMAIN dns.servers, dns' = [dns EXCEPT !.servers = RemoveAt(@, k)]
          PROVE  \E list \in Seq(Server) : Len(list) <= MaxServers /\ dns' = [dns EXCEPT !.servers = list]
      <4>1. RemoveAt(dns.servers, k) \in Seq(Server)
            /\ Len(RemoveAt(dns.servers, k)) = Len(dns.servers) - 1
        BY <1>0, RowTakenOut
      <4>2. Len(RemoveAt(dns.servers, k)) <= MaxServers
        BY <4>1, <1>0
      <4>3. dns' = [dns EXCEPT !.servers = RemoveAt(dns.servers, k)]
        BY <3>1
      <4> QED  BY <4>1, <4>2, <4>3
    <3>2. CASE dns' = [dns EXCEPT !.servers = <<>>]
      <4>1. <<>> \in Seq(Server) /\ Len(<<>>) <= MaxServers
        BY <1>0
      <4> QED  BY <3>2, <4>1
    <3>3. ASSUME NEW a \in Presets, dns' = [dns EXCEPT !.servers = <<[address |-> a, plain |-> TRUE]>>]
          PROVE  \E list \in Seq(Server) : Len(list) <= MaxServers /\ dns' = [dns EXCEPT !.servers = list]
      <4> DEFINE s == [address |-> a, plain |-> TRUE]
      <4>1. s \in Server
        BY DnsAssumption DEF Server
      <4> HIDE DEF s
      <4>2. <<s>> \in Seq(Server) /\ Len(<<s>>) <= MaxServers
        BY <1>0, <4>1
      <4>3. dns' = [dns EXCEPT !.servers = <<s>>]
        BY <3>3 DEF s
      <4> QED  BY <4>2, <4>3
    <3> QED  BY <1>5, <3>1, <3>2, <3>3 DEF RemoveServers
  <2>3. dns' \in DnsSection /\ Len(dns'.servers) <= MaxServers /\ HostsShown' /\ FakednsUsable'
    BY <2>1, <2>2, ServersWritten
  <2> QED  BY <1>0, <2>1, <2>3, DnsWhole
<1>6. CASE EditFakedns
  <2>1. UNCHANGED <<dns, hostRows, serverDialog, replaced>> /\ dns.on
    BY <1>6 DEF EditFakedns
  <2>2. fakedns' \in 0..MaxFakedns \cup {Null} /\ fakedns' # 0
    <3>0. MaxFakedns \in Nat /\ MaxFakedns >= 1 /\ Null = 99
      BY DnsAssumption DEF Null
    <3>1. CASE fakedns = Null /\ fakedns' = 1
      BY <3>0, <3>1
    <3>2. CASE fakedns \in 0..(MaxFakedns - 1) /\ fakedns' = fakedns + 1
      BY <3>0, <3>2
    <3>3. CASE fakedns \in 1..MaxFakedns /\ fakedns' = IF fakedns = 1 THEN Null ELSE fakedns - 1
      BY <3>0, <3>3
    <3> QED  BY <3>1, <3>2, <3>3, <1>6 DEF EditFakedns
  <2>3. HostsShown' /\ FakednsUsable'
    BY <2>1, <2>2, <1>0 DEF HostsShown, FakednsUsable
  <2> QED  BY <1>0, <2>1, <2>2, <2>3, DnsWhole
<1>7. CASE TemplateReplaced
  <2>1. dns' \in DnsSection /\ dns'.servers = <<>> /\ HostsEffect(dns')
    BY <1>7, SectionsWritten DEF TemplateReplaced
  <2>2. hostRows' \in Seq(HostRow) /\ Len(hostRows') <= MaxHosts
    BY <2>1, EffectOnRows
  <2>3. Len(dns'.servers) <= MaxServers
    BY <2>1, <1>0
  <2>4. fakedns' = Null /\ replaced' = TRUE /\ serverDialog' = serverDialog
    BY <1>7 DEF TemplateReplaced
  <2>5. HostsShown'
    BY <2>4 DEF HostsShown
  <2>6. FakednsUsable'
    BY <2>4 DEF FakednsUsable, Null
  <2> QED  BY <1>0, <2>1, <2>2, <2>3, <2>4, <2>5, <2>6, DnsWhole
<1> QED  BY <1>1, <1>2, <1>3, <1>4, <1>5, <1>6, <1>7 DEF DnsNext

LEMMA DnsInvStutter == DnsInv /\ UNCHANGED dnsVars => DnsInv'
BY DEF DnsInv, dnsVars, DnsTypeOK, HostsShown, FakednsUsable

-----------------------------------------------------------------------------
(* The draft of the Xray settings. *)

\* As long as the server has not moved by itself, the keys in the text that the
\* draft is compared with are older than none in the draft, in a save under way
\* or in the store, and an answer with new keys is not older than the draft.
KeysInOrder ==
  /\ oldText.key <= server.template.key /\ oldText.key <= template.key
  /\ save.kind # "none" => oldText.key <= save.sent.key /\ save.sent.key <= template.key
  /\ save.kind = "stored" => save.sent.key <= server.template.key
  /\ behind # "ip" => server.template.key <= template.key
  /\ rotated # 0 => template.key <= rotated \/ rotated < oldText.key

\* What counts as saved is what the server has, or what it is about to say.
SavedIsStored ==
  IF save.kind = "stored" THEN save.sent.edit = server.template.edit
  ELSE oldText.edit = server.template.edit

EditorInv ==
  /\ EditorTypeOK
  /\ ViewsAgree
  /\ save.kind # "none" => save.sent \in Template
  /\ behind # "yes" => KeysInOrder /\ SavedIsStored

LEMMA TemplateEdited ==
  ASSUME NEW t \in Template
  PROVE  /\ t.edit \in Edits /\ t.key \in 1..MaxKey /\ t # Broken
         /\ \A e \in Edits : [t EXCEPT !.edit = e] \in Template
                             /\ [t EXCEPT !.edit = e].key = t.key
         /\ \A k \in 1..MaxKey : [t EXCEPT !.key = k] \in Template
                                 /\ [t EXCEPT !.key = k].key = k /\ [t EXCEPT !.key = k].edit = t.edit
BY EditorAssumption DEF Template

LEMMA PayloadEdited ==
  ASSUME NEW p \in Payload
  PROVE  /\ p.template \in Template /\ p.subs \in 0..MaxSubs
         /\ \A t \in Template : [p EXCEPT !.template = t] \in Payload
                                /\ [p EXCEPT !.template = t].template = t
         /\ \A s \in 0..MaxSubs : [p EXCEPT !.subs = s] \in Payload
                                /\ [p EXCEPT !.subs = s].template = p.template
BY DEF Payload

LEMMA EditorInvInit == EditorInit => EditorInv
<1> SUFFICES ASSUME EditorInit PROVE EditorInv
  OBVIOUS
<1> DEFINE t == [edit |-> Default, key |-> 1]
<1>1. t \in Template /\ t.key = 1 /\ t.edit = Default
  BY EditorAssumption DEF Template
<1> HIDE DEF t
<1>2. server \in Payload /\ server.template = t
  BY <1>1, EditorAssumption DEF EditorInit, Payload, t
<1>3. EditorTypeOK
  <2>1. /\ cache = server /\ text = t /\ template = t /\ oldText = t
        /\ fetch = NoFetch /\ save = NoTemplateSave
        /\ failed = FALSE /\ saveDisabled = TRUE /\ late = FALSE
    BY <1>2 DEF EditorInit
  <2>2. rotated \in 0..MaxKey /\ behind \in Behind
    BY EditorAssumption DEF EditorInit, Behind
  <2> QED  BY <1>1, <1>2, <2>1, <2>2 DEF EditorTypeOK
<1> QED
  BY <1>1, <1>2, <1>3 DEF EditorInit, EditorInv, ViewsAgree, NoTemplateSave, KeysInOrder, SavedIsStored

LEMMA EditorFacts ==
  ASSUME EditorInv
  PROVE  /\ server \in Payload /\ cache \in Payload /\ template \in Template /\ oldText \in Template
         /\ server.template \in Template /\ cache.template \in Template
         /\ text \in Template \cup {Broken} /\ rotated \in 0..MaxKey /\ behind \in Behind
         /\ MaxKey \in Nat
         /\ template.key \in 1..MaxKey /\ oldText.key \in 1..MaxKey
         /\ server.template.key \in 1..MaxKey /\ cache.template.key \in 1..MaxKey
         /\ fetch \in {NoFetch, [kind |-> "asked"]} \cup [kind : {"read"}, payload : Payload]
         /\ save \in {NoTemplateSave} \cup [kind : {"asked", "stored"}, sent : Template \cup {Broken}]
         /\ failed \in BOOLEAN /\ saveDisabled \in BOOLEAN /\ late \in BOOLEAN
         /\ text # Broken => text = template
         /\ save.kind # "none" => /\ save.kind \in {"asked", "stored"}
                                  /\ save.sent \in Template /\ save.sent.key \in 1..MaxKey
         /\ fetch.kind = "read" => fetch.payload \in Payload
<1>1. server.template \in Template /\ cache.template \in Template
  BY PayloadEdited DEF EditorInv, EditorTypeOK
<1>2. save.kind # "none" => save.sent \in Template /\ save.kind \in {"asked", "stored"}
  BY DEF EditorInv, EditorTypeOK, NoTemplateSave
<1>3. fetch.kind = "read" => fetch.payload \in Payload
  BY DEF EditorInv, EditorTypeOK, NoFetch
<1> QED
  BY <1>1, <1>2, <1>3, TemplateEdited, EditorAssumption DEF EditorInv, EditorTypeOK, ViewsAgree

\* An edit leaves the keys of the draft.
LEMMA EditStep ==
  ASSUME EditorInv, UNCHANGED <<server, query, requests, oldText, saveDisabled, behind>>,
         template' \in Template, template'.key = template.key,
         text' \in Template \cup {Broken}, text' # Broken => text' = template',
         late' \in BOOLEAN
  PROVE  EditorInv'
<1>1. UNCHANGED <<server, cache, fetch, failed, save, rotated, oldText, saveDisabled, behind>>
  BY DEF query, requests
<1>2. EditorTypeOK'
  BY <1>1 DEF EditorInv, EditorTypeOK
<1>3. ViewsAgree'
  BY DEF ViewsAgree
<1>4. (behind # "yes" => KeysInOrder /\ SavedIsStored)'
  BY <1>1 DEF EditorInv, KeysInOrder, SavedIsStored
<1> QED  BY <1>1, <1>2, <1>3, <1>4 DEF EditorInv

LEMMA EditorInvStep ==
  ASSUME EditorInv, EditorNext
  PROVE  EditorInv'
<1> USE EditorFacts
<1>1. CASE EditText
  <2>1. PICK t \in [edit : Edits, key : {template.key}] \cup {Broken} : setXraySetting(t)
    BY <1>1 DEF EditText
  <2>2. CASE t = Broken
    BY <1>1, <2>1, <2>2, EditStep DEF EditText, setXraySetting, Edited, InFlight
  <2>3. CASE t \in [edit : Edits, key : {template.key}]
    <3>1. t \in Template /\ t.key = template.key /\ t # Broken
      BY <2>3, TemplateEdited DEF Template
    <3> QED  BY <1>1, <2>1, <3>1, EditStep DEF EditText, setXraySetting, Edited, InFlight
  <2> QED  BY <2>2, <2>3
<1>2. CASE EditTemplate
  <2>1. PICK e \in Edits : setTemplateSettings([template EXCEPT !.edit = e])
    BY <1>2 DEF EditTemplate
  <2>2. template' \in Template /\ template'.key = template.key /\ text' = template'
    BY <2>1, TemplateEdited DEF setTemplateSettings
  <2>3. late' \in BOOLEAN
    BY <1>2 DEF EditTemplate, Edited, InFlight
  <2>4. UNCHANGED <<server, query, requests, oldText, saveDisabled, behind>>
    BY <1>2 DEF EditTemplate
  <2> QED  BY <2>2, <2>3, <2>4, EditStep
<1>3. CASE DirtyPoll
  BY <1>3 DEF DirtyPoll, EditorInv, EditorTypeOK, ViewsAgree, KeysInOrder, SavedIsStored,
              query, requests, draft, history, Dirty
<1>4. CASE ServerReads
  <2>1. fetch' \in [kind : {"read"}, payload : Payload]
    BY <1>4 DEF ServerReads
  <2> QED
    BY <1>4, <2>1 DEF ServerReads, EditorInv, EditorTypeOK, ViewsAgree, KeysInOrder, SavedIsStored,
                      requests, draft, history
<1>5. CASE Deliver
  <2>1. fetch.payload \in Payload /\ cache' = fetch.payload /\ fetch' = NoFetch /\ failed' = FALSE
        /\ UNCHANGED <<server, save, rotated>>
    BY <1>5 DEF Deliver, requests
  <2>2. CASE UNCHANGED <<draft, oldText, saveDisabled, history>>
    BY <2>1, <2>2 DEF EditorInv, EditorTypeOK, ViewsAgree, KeysInOrder, SavedIsStored,
                      draft, history
  <2>3. CASE /\ text' = fetch.payload.template /\ template' = fetch.payload.template
             /\ oldText' = fetch.payload.template
             /\ saveDisabled' = TRUE /\ late' = (save.kind # "none")
             /\ behind' = IF server = fetch.payload /\ save.kind = "none" THEN "no" ELSE "yes"
    <3>1. fetch.payload.template \in Template
      BY <2>1, PayloadEdited
    <3>2. EditorTypeOK'
      BY <2>1, <2>3, <3>1 DEF EditorTypeOK, Behind
    <3>3. ViewsAgree'
      BY <2>3 DEF ViewsAgree
    <3>4. behind' # "yes" => /\ save.kind = "none" /\ behind' = "no"
                             /\ oldText' = server.template /\ template' = server.template
      BY <2>3
    <3>5. (behind # "yes" => KeysInOrder)'
      BY <2>1, <3>4 DEF KeysInOrder
    <3>6. (behind # "yes" => SavedIsStored)'
      BY <2>1, <3>4 DEF SavedIsStored
    <3> QED  BY <2>1, <3>2, <3>3, <3>5, <3>6 DEF EditorInv
  <2> QED  BY <1>5, <2>2, <2>3 DEF Deliver, Seed
<1>6. CASE FetchFails
  BY <1>6 DEF FetchFails, EditorInv, EditorTypeOK, ViewsAgree, KeysInOrder, SavedIsStored,
              requests, draft, history
<1>7. CASE Recheck
  BY <1>7 DEF Recheck, Invalidate, EditorInv, EditorTypeOK, ViewsAgree, KeysInOrder, SavedIsStored,
              requests, draft, history
<1>8. CASE onSaveAll
  <2>1. /\ text \in Template /\ text = template /\ save.kind = "none"
        /\ save' = [kind |-> "asked", sent |-> text]
        /\ UNCHANGED <<server, cache, fetch, failed, rotated, text, template, oldText, saveDisabled, late, behind>>
    BY <1>8 DEF onSaveAll, query, draft, history
  <2>2. save' \in [kind : {"asked", "stored"}, sent : Template \cup {Broken}]
        /\ save'.kind = "asked" /\ save'.sent = template
    BY <2>1
  <2>3. EditorTypeOK' /\ ViewsAgree'
    BY <2>1, <2>2 DEF EditorInv, EditorTypeOK, ViewsAgree
  <2>4. (behind # "yes" => KeysInOrder)'
    BY <2>1, <2>2 DEF EditorInv, KeysInOrder
  <2>5. (behind # "yes" => SavedIsStored)'
    BY <2>1, <2>2 DEF EditorInv, SavedIsStored
  <2> QED  BY <2>1, <2>2, <2>3, <2>4, <2>5 DEF EditorInv
<1>9. CASE ServerStores
  <2>1. /\ save.kind = "asked" /\ save.sent \in Template
        /\ server' = [server EXCEPT !.template = save.sent]
        /\ save' = [save EXCEPT !.kind = "stored"]
        /\ UNCHANGED <<cache, fetch, failed, rotated, text, template, oldText, saveDisabled, late, behind>>
    BY <1>9 DEF ServerStores, query, draft, history
  <2>2. server' \in Payload /\ server'.template = save.sent
    BY <2>1, PayloadEdited
  <2>3. save' \in [kind : {"asked", "stored"}, sent : Template \cup {Broken}]
        /\ save'.kind = "stored" /\ save'.sent = save.sent
    BY <2>1 DEF NoTemplateSave
  <2>4. EditorTypeOK' /\ ViewsAgree'
    BY <2>1, <2>2, <2>3 DEF EditorInv, EditorTypeOK, ViewsAgree
  <2>5. (behind # "yes" => KeysInOrder)'
    BY <2>1, <2>2, <2>3 DEF EditorInv, KeysInOrder
  <2>6. (behind # "yes" => SavedIsStored)'
    BY <2>1, <2>2, <2>3 DEF SavedIsStored
  <2> QED  BY <2>1, <2>3, <2>4, <2>5, <2>6 DEF EditorInv
<1>10. CASE SaveFails
  <2>1. /\ save.kind # "none" /\ save' = NoTemplateSave
        /\ behind' = IF save.kind = "stored" THEN "yes" ELSE behind
        /\ UNCHANGED <<server, cache, fetch, failed, rotated, text, template, oldText, saveDisabled, late>>
    BY <1>10 DEF SaveFails, query, draft
  <2> QED
    BY <2>1 DEF EditorInv, EditorTypeOK, ViewsAgree, KeysInOrder, SavedIsStored, NoTemplateSave, Behind
<1>11. CASE SaveAnswered
  <2>1. /\ save.kind = "stored" /\ save.sent \in Template /\ oldText' = save.sent
        /\ saveDisabled' = TRUE /\ save' = NoTemplateSave /\ fetch' = [kind |-> "asked"]
        /\ UNCHANGED <<server, cache, failed, rotated, text, template, late, behind>>
    BY <1>11 DEF SaveAnswered, Invalidate, draft, history
  <2>2. EditorTypeOK' /\ ViewsAgree'
    BY <2>1 DEF EditorInv, EditorTypeOK, ViewsAgree
  <2>3. (behind # "yes" => KeysInOrder)'
    BY <2>1 DEF EditorInv, KeysInOrder, NoTemplateSave
  <2>4. (behind # "yes" => SavedIsStored)'
    BY <2>1 DEF EditorInv, SavedIsStored, NoTemplateSave
  <2> QED  BY <2>1, <2>2, <2>3, <2>4 DEF EditorInv, NoTemplateSave
<1>12. CASE ServerChangesIp
  <2>1. PICK k \in 1..MaxKey : ServerChangesKeys(k) /\ rotated' = k
    BY <1>12 DEF ServerChangesIp
  <2>2. server' \in Payload /\ server'.template.key = k
        /\ server'.template.edit = server.template.edit
    <3>1. server' = [server EXCEPT !.template = [server.template EXCEPT !.key = k]]
      BY <2>1 DEF ServerChangesKeys
    <3>2. [server.template EXCEPT !.key = k] \in Template
          /\ [server.template EXCEPT !.key = k].key = k
          /\ [server.template EXCEPT !.key = k].edit = server.template.edit
      BY TemplateEdited
    <3> QED  BY <3>1, <3>2, PayloadEdited
  <2>3. k > server.template.key /\ k > template.key /\ k > oldText.key
    BY <2>1 DEF ServerChangesKeys, New
  <2>4. /\ behind' = IF behind = "yes" THEN "yes" ELSE "ip"
        /\ UNCHANGED <<cache, fetch, failed, save, text, template, oldText, saveDisabled, late>>
    BY <1>12 DEF ServerChangesIp, query, draft
  <2>5. EditorTypeOK' /\ ViewsAgree'
    BY <2>1, <2>2, <2>4 DEF EditorInv, EditorTypeOK, ViewsAgree, Behind
  <2>6. (behind # "yes" => KeysInOrder)'
    BY <2>1, <2>2, <2>3, <2>4 DEF EditorInv, KeysInOrder
  <2>7. (behind # "yes" => SavedIsStored)'
    BY <2>2, <2>4 DEF EditorInv, SavedIsStored
  <2> QED  BY <2>4, <2>5, <2>6, <2>7 DEF EditorInv
<1>13. CASE AutoChangeIp
  <2>1. PICK k \in 1..MaxKey : ServerChangesKeys(k)
    BY <1>13 DEF AutoChangeIp
  <2>2. server' \in Payload
    <3>1. server' = [server EXCEPT !.template = [server.template EXCEPT !.key = k]]
      BY <2>1 DEF ServerChangesKeys
    <3>2. [server.template EXCEPT !.key = k] \in Template
      BY TemplateEdited
    <3> QED  BY <3>1, <3>2, PayloadEdited
  <2> QED
    BY <1>13, <2>2 DEF AutoChangeIp, EditorInv, EditorTypeOK, ViewsAgree, query, requests, draft, Behind
<1>14. CASE ChangeIpAnswered
  <2>1. /\ rotated # 0 /\ rotated' = 0
        /\ setTemplateSettings([template EXCEPT !.key = rotated])
        /\ behind' = IF rotated < server.template.key THEN "yes"
                     ELSE IF behind = "ip" THEN "told" ELSE behind
        /\ UNCHANGED <<server, cache, fetch, failed, save, oldText, saveDisabled>>
    BY <1>14 DEF ChangeIpAnswered, query
  <2>2. rotated \in 1..MaxKey
    BY <2>1
  <2>3. template' \in Template /\ template'.key = rotated /\ text' = template'
    BY <2>1, <2>2, TemplateEdited DEF setTemplateSettings
  <2>4. late' \in BOOLEAN
    BY <1>14 DEF ChangeIpAnswered, Edited, InFlight
  <2>5. EditorTypeOK' /\ ViewsAgree'
    BY <2>1, <2>3, <2>4 DEF EditorInv, EditorTypeOK, ViewsAgree, Behind
  <2>6. ASSUME behind' # "yes" PROVE behind # "yes" /\ server.template.key <= rotated /\ behind' # "ip"
    BY <2>1, <2>2, <2>6
  <2>7. (behind # "yes" => KeysInOrder)'
    BY <2>1, <2>2, <2>3, <2>6 DEF EditorInv, KeysInOrder
  <2>8. (behind # "yes" => SavedIsStored)'
    BY <2>1, <2>6 DEF EditorInv, SavedIsStored
  <2> QED  BY <2>1, <2>5, <2>7, <2>8 DEF EditorInv
<1>15. CASE ChangeIpLost
  BY <1>15 DEF ChangeIpLost, EditorInv, EditorTypeOK, ViewsAgree, KeysInOrder, SavedIsStored,
               query, draft, history
<1>16. CASE ChangeSubscriptions
  <2>1. PICK s \in 0..MaxSubs : /\ server' = [server EXCEPT !.subs = s]
                                /\ behind' = IF s = server.subs THEN behind ELSE "yes"
    BY <1>16 DEF ChangeSubscriptions
  <2>2. server' \in Payload /\ server'.template = server.template
    BY <2>1, PayloadEdited
  <2>3. fetch' = fetch \/ fetch' = [kind |-> "asked"]
    BY <1>16 DEF ChangeSubscriptions, Invalidate
  <2>4. UNCHANGED <<cache, failed, save, rotated, text, template, oldText, saveDisabled, late>>
    BY <1>16 DEF ChangeSubscriptions, requests, draft
  <2> QED
    BY <2>1, <2>2, <2>3, <2>4 DEF EditorInv, EditorTypeOK, ViewsAgree, KeysInOrder, SavedIsStored, Behind
<1> QED
  BY <1>1, <1>2, <1>3, <1>4, <1>5, <1>6, <1>7, <1>8, <1>9, <1>10, <1>11, <1>12, <1>13, <1>14,
     <1>15, <1>16 DEF EditorNext

LEMMA EditorInvStutter == EditorInv /\ UNCHANGED editorVars => EditorInv'
BY DEF EditorInv, editorVars, EditorTypeOK, ViewsAgree, KeysInOrder, SavedIsStored

LEMMA EditorTruth ==
  ASSUME EditorInv PROVE EditorTypeOK /\ ViewsAgree /\ OnlyTemplatesSent /\ CleanIsStored
<1>1. OnlyTemplatesSent
  BY TemplateEdited DEF EditorInv, OnlyTemplatesSent
<1>2. CleanIsStored
  <2> SUFFICES ASSUME save.kind = "none", behind \in {"no", "told"}, text = oldText
               PROVE  text = server.template
    BY DEF CleanIsStored, InFlight, Dirty
  <2>1. text = template /\ oldText = template
    BY EditorFacts, TemplateEdited
  <2>2. oldText.key = server.template.key /\ oldText.edit = server.template.edit
    BY <2>1, EditorFacts DEF EditorInv, KeysInOrder, SavedIsStored
  <2> QED  BY <2>1, <2>2, EditorFacts DEF Template
<1> QED  BY <1>1, <1>2 DEF EditorInv

-----------------------------------------------------------------------------
(* The dialog of an inbound. *)

\* The slices that are chosen are there, and mKCP's mask under mKCP only;
\* others may still be there, which the schema drops when the form is sent.
\* What was edited is there too, and a key only with the slice it is part of.
FormOneTransport(s) ==
  /\ s.network # "none" => s.network \in s.slices
  /\ s.security # "none" => s.security \in s.slices
  /\ s.mask => s.network = "kcp"
  /\ s.edited \subseteq s.slices
  /\ "reality" \notin s.slices => s.key = 0

StreamSound(s) ==
  /\ StreamOneTransport(s)
  /\ s.edited \subseteq s.slices
  /\ "reality" \notin s.slices => s.key = 0

StoredInbound(f) ==
  /\ f = [protocol |-> f.protocol, stream |-> f.stream, strategy |-> f.strategy, rows |-> f.rows]
  /\ f.protocol \in Protocols /\ f.strategy \in {"node", "listen"}
  /\ f.stream \in Streams /\ StreamSound(f.stream)

FormInv ==
  /\ \A i \in DOMAIN inboundsStored : StoredInbound(inboundsStored[i])
  /\ inbFields \in Fields
  /\ FormOneTransport(inbFields.stream)
  /\ "stage" \in DOMAIN inbSaving
  /\ inbSaving.stage = "inbound" => /\ inbSaving.fields \in Fields
                                    /\ StreamSound(inbSaving.fields.stream)

LEMMA FormConstants ==
  /\ "tcp" \in Networks /\ MaxKeyPair \in Nat
  /\ Networks \subseteq {"tcp", "kcp", "ws", "grpc", "httpupgrade", "xhttp"}
  /\ {"vless", "hysteria"} \subseteq Protocols
BY InboundFormAssumption

LEMMA StreamShape ==
  ASSUME NEW s \in Streams
  PROVE  /\ s.network \in Networks \cup {"hysteria", "none"} /\ s.security \in {"tls", "reality", "none"}
         /\ s.slices \in SUBSET Slices /\ s.edited \in SUBSET Slices
         /\ s.mask \in BOOLEAN /\ s.key \in 0..MaxKeyPair
BY DEF Streams, Secured

\* What is sent has the chosen slices and no other.
LEMMA ParsedOneTransport ==
  ASSUME NEW f \in Fields, FormOneTransport(f.stream)
  PROVE  Parsed(f) \in Fields /\ StreamSound(Parsed(f).stream)
<1> DEFINE s == f.stream
           kept == s.slices \cap {s.network, s.security, "sockopt"}
           key == IF "reality" \in kept THEN s.key ELSE 0
           p == [s EXCEPT !.slices = kept, !.edited = s.edited \cap kept, !.key = key]
<1>0. s \in Streams
  BY DEF Fields
<1>1. Parsed(f) = [f EXCEPT !.stream = p]
  BY DEF Parsed
<1>2. /\ s.network \in Networks \cup {"hysteria", "none"} /\ s.security \in {"tls", "reality", "none"}
      /\ s.slices \in SUBSET Slices /\ s.edited \in SUBSET Slices /\ s.key \in 0..MaxKeyPair
      /\ FormOneTransport(s) /\ MaxKeyPair \in Nat
  BY <1>0, StreamShape, InboundFormAssumption
<1>3. kept \in SUBSET Slices /\ s.edited \cap kept \in SUBSET Slices /\ key \in 0..MaxKeyPair
  BY <1>2
<1>4. kept \ {"sockopt"} = {s.network, s.security} \ {"none"}
  <2>1. "none" \notin Slices /\ s.network # "sockopt" /\ s.security # "sockopt"
    BY <1>2, InboundFormAssumption DEF Slices, Secured
  <2> QED  BY <1>2, <2>1 DEF FormOneTransport
<1> HIDE DEF s
<1>5. [s EXCEPT !.slices = kept, !.edited = s.edited \cap kept, !.key = key] \in Streams
  <2> HIDE DEF kept, key
  <2> QED  BY <1>0, <1>3 DEF Streams
<1>6. /\ p.slices = kept /\ p.network = s.network /\ p.security = s.security /\ p.mask = s.mask
      /\ p.edited = s.edited \cap kept /\ p.key = key
  <2> HIDE DEF kept, key
  <2> QED  BY <1>0 DEF Streams
<1>9. "reality" \notin kept => key = 0
  OBVIOUS
<1> HIDE DEF kept, key
<1>7. StreamSound(p)
  BY <1>2, <1>4, <1>6, <1>9 DEF StreamSound, StreamOneTransport, FormOneTransport
<1> HIDE DEF p
<1>8. [f EXCEPT !.stream = p] \in Fields /\ [f EXCEPT !.stream = p].stream = p
  BY <1>5 DEF Fields, p
<1> QED  BY <1>1, <1>7, <1>8

LEMMA FormInvInit == InboundFormInit => FormInv
<1> SUFFICES ASSUME InboundFormInit PROVE FormInv
  OBVIOUS
<1>1. \A i \in DOMAIN inboundsStored : StoredInbound(inboundsStored[i])
  BY InboundFormAssumption DEF InboundFormInit, StoredInbound, StreamSound
<1>2. inbFields \in Fields /\ FormOneTransport(inbFields.stream)
  <2>1. /\ Tcp.network = "tcp" /\ Tcp.slices = {"tcp"} /\ Tcp.security = "none" /\ Tcp.mask = FALSE
        /\ Tcp.edited = {} /\ Tcp.key = 0 /\ Tcp \in Streams
    <3>1. Bare \in Streams /\ Bare.network = "none" /\ Bare.security = "none" /\ Bare.mask = FALSE
          /\ Bare.edited = {} /\ Bare.key = 0
      BY FormConstants DEF Bare, Streams
    <3>2. "tcp" \in Networks /\ {"tcp"} \in SUBSET Slices
      BY InboundFormAssumption DEF Slices
    <3>3. Tcp = [Bare EXCEPT !.network = "tcp", !.slices = {"tcp"}]
      BY DEF Tcp
    <3> QED  BY <3>1, <3>2, <3>3 DEF Streams
  <2> QED
    BY <2>1, FormConstants DEF InboundFormInit, AddedFields, Fields, FormOneTransport
<1> QED  BY <1>1, <1>2 DEF FormInv, InboundFormInit, NoSave

LEMMA StrategyKeepsStream ==
  ASSUME NEW f \in Fields, NEW nodes, NEW seen
  PROVE  /\ StrategyEffect(f, nodes, seen) \in Fields
         /\ StrategyEffect(f, nodes, seen).stream = f.stream
BY DEF StrategyEffect, Fields

\* Another stream in the form.
LEMMA StreamTyped ==
  ASSUME NEW f \in Fields, NEW s \in Streams
  PROVE  [f EXCEPT !.stream = s] \in Fields /\ [f EXCEPT !.stream = s].stream = s
BY DEF Fields

LEMMA FieldsStep ==
  ASSUME FormInv, NEW f \in Fields, FormOneTransport(f.stream), SetFields(f)
  PROVE  FormInv'
<1>1. inbFields' \in Fields /\ inbFields'.stream = f.stream
  BY StrategyKeepsStream DEF SetFields
<1> QED  BY <1>1 DEF SetFields, FormInv

LEMMA FormInvStutter == FormInv /\ UNCHANGED inbVars => FormInv'
BY DEF FormInv, inbVars

\* Each change of a stream leaves the chosen slices in place.
LEMMA StreamChanges ==
  ASSUME NEW s \in Streams, FormOneTransport(s)
  PROVE  /\ \A n \in Networks :
              NetworkSwitched(s, n) \in Streams /\ FormOneTransport(NetworkSwitched(s, n))
         /\ s.network # "kcp" => \A c \in Secured \cup {"none"} :
              LET t == [s EXCEPT !.security = c,
                          !.slices = (s.slices \ Secured) \cup ({c} \cap Secured),
                          !.edited = s.edited \ Secured, !.key = 0]
              IN t \in Streams /\ FormOneTransport(t)
         /\ \A k \in 0..MaxKeyPair :
              LET t == [s EXCEPT !.key = k, !.slices = s.slices \cup {"reality"},
                                 !.edited = s.edited \cup {"reality"}]
              IN t \in Streams /\ FormOneTransport(t)
         /\ \A part \in s.slices :
              LET t == [s EXCEPT !.edited = s.edited \cup {part}]
              IN t \in Streams /\ FormOneTransport(t)
         /\ LET t == [s EXCEPT !.slices = (s.slices \ {"sockopt"}) \cup ({"sockopt"} \ s.slices),
                               !.edited = s.edited \ {"sockopt"}]
            IN t \in Streams /\ FormOneTransport(t)
         /\ LET t == [s EXCEPT !.security = "none"] IN t \in Streams /\ FormOneTransport(t)
<1>0. /\ s.network \in Networks \cup {"hysteria", "none"} /\ s.security \in {"tls", "reality", "none"}
      /\ s.slices \in SUBSET Slices /\ s.edited \in SUBSET Slices
      /\ s.mask \in BOOLEAN /\ s.key \in 0..MaxKeyPair /\ MaxKeyPair \in Nat
      /\ Networks \subseteq {"tcp", "kcp", "ws", "grpc", "httpupgrade", "xhttp"}
      /\ {"reality", "tls", "sockopt", "hysteria"} \subseteq Slices /\ Networks \subseteq Slices
      /\ s.network # "sockopt" /\ s.security # "sockopt"
  BY StreamShape, InboundFormAssumption DEF Slices, Secured
<1>1. ASSUME NEW n \in Networks
      PROVE  NetworkSwitched(s, n) \in Streams /\ FormOneTransport(NetworkSwitched(s, n))
  <2> DEFINE l == (s.slices \ Networks) \cup {n}
             e == s.edited \ Networks
             m == (n = "kcp")
  <2>1. l \in SUBSET Slices /\ e \in SUBSET Slices /\ n \in l /\ m \in BOOLEAN /\ (m => n = "kcp")
    BY <1>0, <1>1
  <2>2. /\ s.security # "none" => s.security \in l
        /\ e \subseteq l /\ ("reality" \notin l => s.key = 0)
    BY <1>0 DEF FormOneTransport
  <2>3. NetworkSwitched(s, n) = [s EXCEPT !.network = n, !.slices = l, !.edited = e, !.mask = m]
    BY DEF NetworkSwitched
  <2> HIDE DEF l, e, m
  <2> DEFINE t == [s EXCEPT !.network = n, !.slices = l, !.edited = e, !.mask = m]
  <2>4. t \in Streams /\ t.network = n /\ t.slices = l /\ t.mask = m /\ t.security = s.security
        /\ t.edited = e /\ t.key = s.key
    BY <2>1, <1>1 DEF Streams
  <2> HIDE DEF t
  <2>5. NetworkSwitched(s, n) = t
    BY <2>3 DEF t
  <2> QED  BY <2>1, <2>2, <2>4, <2>5 DEF FormOneTransport
<1>2. ASSUME s.network # "kcp", NEW c \in Secured \cup {"none"}
      PROVE  LET t == [s EXCEPT !.security = c,
                          !.slices = (s.slices \ Secured) \cup ({c} \cap Secured),
                          !.edited = s.edited \ Secured, !.key = 0]
             IN t \in Streams /\ FormOneTransport(t)
  <2> DEFINE l == (s.slices \ Secured) \cup ({c} \cap Secured)
             e == s.edited \ Secured
             t == [s EXCEPT !.security = c, !.slices = l, !.edited = e, !.key = 0]
  <2>1. l \in SUBSET Slices /\ e \in SUBSET Slices /\ (c # "none" => c \in l)
    BY <1>0, <1>2 DEF Secured
  <2>2. (s.network # "none" => s.network \in l) /\ e \subseteq l
    BY <1>0 DEF FormOneTransport, Secured
  <2> HIDE DEF l, e
  <2>3. t \in Streams /\ t.network = s.network /\ t.slices = l /\ t.mask = s.mask /\ t.security = c
        /\ t.edited = e /\ t.key = 0
    <3>1. 0 \in 0..MaxKeyPair /\ s \in Streams
      BY <1>0
    <3> QED  BY <2>1, <3>1, <1>2 DEF Streams
  <2>4. FormOneTransport(t)
    <3> HIDE DEF t
    <3> QED  BY <2>1, <2>2, <2>3 DEF FormOneTransport
  <2> QED  BY <2>3, <2>4 DEF l, e
<1>3. ASSUME NEW k \in 0..MaxKeyPair
      PROVE  LET t == [s EXCEPT !.key = k, !.slices = s.slices \cup {"reality"},
                                 !.edited = s.edited \cup {"reality"}]
             IN t \in Streams /\ FormOneTransport(t)
  <2> DEFINE l == s.slices \cup {"reality"}
             e == s.edited \cup {"reality"}
             t == [s EXCEPT !.key = k, !.slices = l, !.edited = e]
  <2>1. l \in SUBSET Slices /\ e \in SUBSET Slices /\ s.slices \subseteq l
        /\ e \subseteq l /\ "reality" \in l
    BY <1>0 DEF FormOneTransport
  <2> HIDE DEF l, e
  <2>2. t \in Streams /\ t.network = s.network /\ t.slices = l /\ t.mask = s.mask /\ t.security = s.security
        /\ t.edited = e /\ t.key = k
    BY <2>1, <1>3 DEF Streams
  <2>3. FormOneTransport(t)
    <3> HIDE DEF t
    <3> QED  BY <2>1, <2>2 DEF FormOneTransport
  <2> QED  BY <2>2, <2>3 DEF l, e
<1>4. ASSUME NEW part \in s.slices
      PROVE  LET t == [s EXCEPT !.edited = s.edited \cup {part}]
             IN t \in Streams /\ FormOneTransport(t)
  <2> DEFINE e == s.edited \cup {part}
             t == [s EXCEPT !.edited = e]
  <2>1. e \in SUBSET Slices /\ e \subseteq s.slices
    BY <1>0, <1>4 DEF FormOneTransport
  <2> HIDE DEF e
  <2>2. t \in Streams /\ t.network = s.network /\ t.slices = s.slices /\ t.mask = s.mask
        /\ t.security = s.security /\ t.edited = e /\ t.key = s.key
    BY <2>1 DEF Streams
  <2>3. FormOneTransport(t)
    <3> HIDE DEF t
    <3> QED  BY <2>1, <2>2 DEF FormOneTransport
  <2> QED  BY <2>2, <2>3 DEF e
<1>5. LET t == [s EXCEPT !.slices = (s.slices \ {"sockopt"}) \cup ({"sockopt"} \ s.slices),
                         !.edited = s.edited \ {"sockopt"}]
      IN t \in Streams /\ FormOneTransport(t)
  <2> DEFINE l == (s.slices \ {"sockopt"}) \cup ({"sockopt"} \ s.slices)
             e == s.edited \ {"sockopt"}
             t == [s EXCEPT !.slices = l, !.edited = e]
  <2>1. l \in SUBSET Slices /\ e \in SUBSET Slices /\ s.slices \ {"sockopt"} \subseteq l
        /\ e \subseteq l
    BY <1>0 DEF FormOneTransport
  <2> HIDE DEF l, e
  <2>2. t \in Streams /\ t.network = s.network /\ t.slices = l /\ t.mask = s.mask /\ t.security = s.security
        /\ t.edited = e /\ t.key = s.key
    BY <2>1 DEF Streams
  <2>3. FormOneTransport(t)
    <3> HIDE DEF t
    <3> QED  BY <1>0, <2>1, <2>2 DEF FormOneTransport
  <2> QED  BY <2>2, <2>3 DEF l, e
<1>6. LET t == [s EXCEPT !.security = "none"] IN t \in Streams /\ FormOneTransport(t)
  <2> DEFINE t == [s EXCEPT !.security = "none"]
  <2>1. t \in Streams /\ t.network = s.network /\ t.slices = s.slices /\ t.mask = s.mask
        /\ t.security = "none" /\ t.edited = s.edited /\ t.key = s.key
    BY DEF Streams
  <2>2. FormOneTransport(t)
    <3> HIDE DEF t
    <3> QED  BY <2>1 DEF FormOneTransport
  <2> QED  BY <2>1, <2>2
<1> QED  BY <1>1, <1>2, <1>3, <1>4, <1>5, <1>6

LEMMA GivenStreams ==
  /\ Tcp \in Streams /\ FormOneTransport(Tcp)
  /\ Bare \in Streams /\ FormOneTransport(Bare)
  /\ HysteriaStream \in Streams /\ FormOneTransport(HysteriaStream)
<1>1. Bare \in Streams /\ Bare.network = "none" /\ Bare.security = "none" /\ Bare.mask = FALSE
      /\ Bare.edited = {} /\ Bare.key = 0
  BY FormConstants DEF Bare, Streams
<1>2. "tcp" \in Networks /\ {"tcp"} \in SUBSET Slices /\ {"hysteria", "tls"} \in SUBSET Slices
  BY InboundFormAssumption DEF Slices, Secured
<1>3. /\ Tcp \in Streams /\ Tcp.network = "tcp" /\ Tcp.slices = {"tcp"}
      /\ Tcp.security = "none" /\ Tcp.mask = FALSE /\ Tcp.edited = {} /\ Tcp.key = 0
  BY <1>1, <1>2 DEF Streams, Tcp
<1>4. /\ HysteriaStream \in Streams /\ HysteriaStream.network = "hysteria"
      /\ HysteriaStream.slices = {"hysteria", "tls"}
      /\ HysteriaStream.security = "tls" /\ HysteriaStream.mask = FALSE
      /\ HysteriaStream.edited = {} /\ HysteriaStream.key = 0
  BY <1>1, <1>2 DEF Streams, HysteriaStream, Secured
<1> QED  BY <1>1, <1>3, <1>4 DEF FormOneTransport

LEMMA FormInvStep ==
  ASSUME FormInv, InboundFormNext
  PROVE  FormInv'
<1> DEFINE f == inbFields
           s == inbFields.stream
<1>0. f \in Fields /\ s \in Streams /\ FormOneTransport(s)
      /\ \A i \in DOMAIN inboundsStored : StoredInbound(inboundsStored[i])
  BY DEF FormInv, Fields
<1> HIDE DEF f, s
<1>1. CASE NodesArrive \/ Rendered
  <2>1. inbFields' \in Fields /\ inbFields'.stream = s
    BY <1>0, <1>1, StrategyKeepsStream DEF NodesArrive, Rendered, f, s
  <2>2. UNCHANGED <<inboundsStored, inbSaving>>
    BY <1>1 DEF NodesArrive, Rendered
  <2> QED  BY <1>0, <2>1, <2>2 DEF FormInv
<1>2. CASE onAddInbound
  <2>1. AddedFields \in Fields /\ AddedFields.stream = Tcp
    BY GivenStreams, InboundFormAssumption DEF AddedFields, Fields
  <2>2. inbFields' \in Fields /\ inbFields'.stream = Tcp
    BY <1>2, <2>1, StrategyKeepsStream DEF onAddInbound
  <2>3. UNCHANGED <<inboundsStored, inbSaving>>
    BY <1>2 DEF onAddInbound, NewDialog
  <2> QED  BY <1>0, <2>2, <2>3, GivenStreams DEF FormInv
<1>3. CASE CloseInboundForm
  BY <1>3 DEF CloseInboundForm, FormInv
<1>4. ASSUME NEW i \in Masters, openEdit(i) PROVE FormInv'
  <2>1. StoredInbound(inboundsStored[i])
    BY <1>0, <1>4 DEF openEdit
  <2>2. FieldsOf(i) \in Fields /\ FieldsOf(i).stream = inboundsStored[i].stream
    BY <2>1 DEF StoredInbound, FieldsOf, Fields
  <2>3. FormOneTransport(inboundsStored[i].stream)
    BY <2>1 DEF StoredInbound, StreamSound, StreamOneTransport, FormOneTransport
  <2>4. inbFields' \in Fields /\ inbFields'.stream = inboundsStored[i].stream
    BY <1>4, <2>2, StrategyKeepsStream, ZenonT(60) DEF openEdit
  <2>5. UNCHANGED <<inboundsStored, inbSaving>>
    BY <1>4 DEF openEdit, NewDialog
  <2> QED  BY <1>0, <2>3, <2>4, <2>5 DEF FormInv
<1>5. ASSUME NEW i \in Masters, loadFallbacks(i) PROVE FormInv'
  BY <1>5 DEF loadFallbacks, FormInv
<1>6. ASSUME NEW n \in Networks, ChangeNetwork(n) PROVE FormInv'
  <2>1. NetworkSwitched(s, n) \in Streams /\ FormOneTransport(NetworkSwitched(s, n))
    BY <1>0, StreamChanges
  <2>2. SetFields([f EXCEPT !.stream = NetworkSwitched(s, n)])
    BY <1>6 DEF ChangeNetwork, f, s
  <2> QED  BY <1>0, <2>1, <2>2, StreamTyped, FieldsStep
<1>7. ASSUME NEW c \in Secured \cup {"none"}, onSecurityChange(c) PROVE FormInv'
  <2> DEFINE t == [s EXCEPT !.security = c,
                     !.slices = (s.slices \ Secured) \cup ({c} \cap Secured),
                     !.edited = s.edited \ Secured, !.key = 0]
  <2>1. t \in Streams /\ FormOneTransport(t)
    BY <1>0, <1>7, StreamChanges DEF onSecurityChange, s
  <2>2. SetFields([f EXCEPT !.stream = t])
    BY <1>7 DEF onSecurityChange, f, s
  <2> HIDE DEF t
  <2> QED  BY <1>0, <2>1, <2>2, StreamTyped, FieldsStep
<1>8. ASSUME NEW d \in keysAsked, NEW ok \in BOOLEAN, KeyAnswered(d, ok) PROVE FormInv'
  <2>1. UNCHANGED <<inboundsStored, inbSaving>>
    BY <1>8 DEF KeyAnswered
  <2>2. CASE inbFields' = inbFields
    BY <2>1, <2>2 DEF FormInv
  <2>3. CASE s.key + 1 <= MaxKeyPair
             /\ inbFields' = [f EXCEPT !.stream =
                  [s EXCEPT !.key = s.key + 1, !.slices = s.slices \cup {"reality"},
                            !.edited = s.edited \cup {"reality"}]]
    <3> DEFINE t == [s EXCEPT !.key = s.key + 1, !.slices = s.slices \cup {"reality"},
                              !.edited = s.edited \cup {"reality"}]
    <3>1. s.key + 1 \in 0..MaxKeyPair
      BY <1>0, <2>3, StreamShape, FormConstants
    <3>2. t \in Streams /\ FormOneTransport(t)
      BY <1>0, <3>1, StreamChanges
    <3>3. inbFields' = [f EXCEPT !.stream = t]
      BY <2>3
    <3> HIDE DEF t
    <3>4. inbFields' \in Fields /\ inbFields'.stream = t
      BY <1>0, <3>2, <3>3, StreamTyped
    <3> QED  BY <1>0, <2>1, <3>2, <3>4 DEF FormInv
  <2> QED  BY <1>8, <2>2, <2>3 DEF KeyAnswered, f, s
<1>9. ASSUME NEW p \in Protocols, ChangeProtocol(p) PROVE FormInv'
  <2> DEFINE t == IF p = "amneziawg" THEN [s EXCEPT !.security = "none"]
                  ELSE IF p = "hysteria" THEN HysteriaStream
                  ELSE IF p \in {"wireguard", "tunnel"} THEN Bare
                  ELSE IF s.network \in {"hysteria", "none"} THEN Tcp
                  ELSE s
  <2>1. t \in Streams /\ FormOneTransport(t)
    <3>1. [s EXCEPT !.security = "none"] \in Streams /\ FormOneTransport([s EXCEPT !.security = "none"])
      BY <1>0, StreamChanges
    <3> QED  BY <1>0, <3>1, GivenStreams
  <2>2. SetFields([f EXCEPT !.protocol = p, !.stream = t])
    BY <1>9 DEF ChangeProtocol, f, s
  <2> HIDE DEF t
  <2>3. [f EXCEPT !.protocol = p, !.stream = t] \in Fields /\ [f EXCEPT !.protocol = p, !.stream = t].stream = t
    BY <1>0, <2>1 DEF Fields
  <2> QED  BY <2>1, <2>2, <2>3, FieldsStep
<1>10. ASSUME NEW c \in {"node", "listen"}, EditStrategy(c) PROVE FormInv'
  <2>1. [f EXCEPT !.strategy = c] \in Fields /\ [f EXCEPT !.strategy = c].stream = s
    BY <1>0 DEF Fields, f, s
  <2>2. SetFields([f EXCEPT !.strategy = c])
    BY <1>10 DEF EditStrategy, f
  <2> QED  BY <1>0, <2>1, <2>2, FieldsStep
<1>11. CASE genRealityKeypair
  <2>1. SetFields(f)
    BY <1>11 DEF genRealityKeypair, f
  <2> QED  BY <1>0, <2>1, FieldsStep DEF f, s
<1>12. CASE EditTransport \/ EditTls \/ EditReality \/ EditSockopt
  <2>1. PICK part \in s.slices : SetFields([f EXCEPT !.stream = [s EXCEPT !.edited = s.edited \cup {part}]])
    BY <1>12 DEF EditTransport, EditTls, EditReality, EditSockopt, EditSlice, f, s
  <2> DEFINE t == [s EXCEPT !.edited = s.edited \cup {part}]
  <2>2. t \in Streams /\ FormOneTransport(t)
    BY <1>0, StreamChanges, ZenonT(60)
  <2>3. SetFields([f EXCEPT !.stream = t])
    BY <2>1
  <2> HIDE DEF t
  <2> QED  BY <1>0, <2>2, <2>3, StreamTyped, FieldsStep
<1>13. CASE toggleSockopt
  <2> DEFINE t == [s EXCEPT !.slices = (s.slices \ {"sockopt"}) \cup ({"sockopt"} \ s.slices),
                            !.edited = s.edited \ {"sockopt"}]
  <2>1. t \in Streams /\ FormOneTransport(t)
    BY <1>0, StreamChanges
  <2>2. SetFields([f EXCEPT !.stream = t])
    BY <1>13 DEF toggleSockopt, f, s
  <2> HIDE DEF t
  <2> QED  BY <1>0, <2>1, <2>2, StreamTyped, FieldsStep
<1>14. CASE addFallback \/ updateFallback \/ removeFallback \/ moveFallback \/ addAllFallbacks
  <2>1. UNCHANGED <<inboundsStored, inbFields, inbSaving>>
    BY <1>14 DEF addFallback, updateFallback, removeFallback, moveFallback, addAllFallbacks, SetRows
  <2> QED  BY <2>1 DEF FormInv
<1>15. CASE submit
  <2>1. "stage" \in DOMAIN inbSaving' /\ inbSaving'.fields = Parsed(f) /\ UNCHANGED <<inboundsStored, inbFields>>
    BY <1>15 DEF submit, f
  <2>2. Parsed(f) \in Fields /\ StreamSound(Parsed(f).stream)
    BY <1>0, ParsedOneTransport DEF s, f
  <2> QED  BY <2>1, <2>2 DEF FormInv
<1>16. ASSUME NEW ok \in BOOLEAN, InboundAnswered(ok) PROVE FormInv'
  <2>1. inbSaving.fields \in Fields /\ StreamSound(inbSaving.fields.stream)
    BY <1>16 DEF InboundAnswered, FormInv
  <2>2. inbSaving'.stage # "inbound" /\ "stage" \in DOMAIN inbSaving' /\ UNCHANGED inbFields
    <3> DEFINE j == IF inbSaving.of = NoMaster THEN CHOOSE x \in Masters : x \notin DOMAIN inboundsStored
                    ELSE inbSaving.of
    <3>1. inbSaving' = NoSave \/ inbSaving' = [inbSaving EXCEPT !.stage = "rows", !.of = j]
      BY <1>16 DEF InboundAnswered
    <3> HIDE DEF j
    <3>2. NoSave.stage # "inbound" /\ "stage" \in DOMAIN NoSave
      BY DEF NoSave
    <3>3. inbSaving'.stage # "inbound" /\ "stage" \in DOMAIN inbSaving'
      BY <3>1, <3>2 DEF FormInv
    <3> QED  BY <1>16, <3>3 DEF InboundAnswered
  <2>3. \A i \in DOMAIN inboundsStored' : StoredInbound(inboundsStored'[i])
    <3>1. CASE UNCHANGED inboundsStored
      BY <1>0, <3>1
    <3>2. ASSUME NEW i, NEW below,
                 LET record == [protocol |-> inbSaving.fields.protocol, stream |-> inbSaving.fields.stream,
                                strategy |-> inbSaving.fields.strategy, rows |-> below]
                 IN inboundsStored' = [x \in DOMAIN inboundsStored \cup {i} |->
                                         IF x = i THEN record ELSE inboundsStored[x]]
          PROVE  \A x \in DOMAIN inboundsStored' : StoredInbound(inboundsStored'[x])
      <4> DEFINE record == [protocol |-> inbSaving.fields.protocol, stream |-> inbSaving.fields.stream,
                            strategy |-> inbSaving.fields.strategy, rows |-> below]
      <4>1. StoredInbound(record)
        <5>1. /\ record = [protocol |-> record.protocol, stream |-> record.stream,
                           strategy |-> record.strategy, rows |-> record.rows]
              /\ record.stream = inbSaving.fields.stream
              /\ record.protocol = inbSaving.fields.protocol
              /\ record.strategy = inbSaving.fields.strategy
          OBVIOUS
        <5>2. /\ inbSaving.fields.stream \in Streams /\ inbSaving.fields.protocol \in Protocols
              /\ inbSaving.fields.strategy \in {"node", "listen"}
          BY <2>1 DEF Fields
        <5> HIDE DEF record
        <5> QED  BY <2>1, <5>1, <5>2 DEF StoredInbound
      <4> HIDE DEF record
      <4>2. inboundsStored' = [x \in DOMAIN inboundsStored \cup {i} |->
                                 IF x = i THEN record ELSE inboundsStored[x]]
        BY <3>2 DEF record
      <4> QED  BY <1>0, <4>1, <4>2
    <3>3. CASE ok
      <4> DEFINE j == IF inbSaving.of = NoMaster THEN CHOOSE x \in Masters : x \notin DOMAIN inboundsStored
                      ELSE inbSaving.of
                 before == IF inbSaving.of = NoMaster THEN << >> ELSE inboundsStored[j].rows
      <4>1. inboundsStored' = [x \in DOMAIN inboundsStored \cup {j} |->
                                 IF x = j
                                 THEN [protocol |-> inbSaving.fields.protocol,
                                       stream |-> inbSaving.fields.stream,
                                       strategy |-> inbSaving.fields.strategy, rows |-> before]
                                 ELSE inboundsStored[x]]
        BY <1>16, <3>3 DEF InboundAnswered
      <4> HIDE DEF j, before
      <4> QED  BY <3>2, <4>1
    <3>4. CASE ~ ok
      BY <1>16, <3>1, <3>4 DEF InboundAnswered
    <3> QED  BY <3>3, <3>4
  <2> QED  BY <1>0, <2>2, <2>3 DEF FormInv, f, s
<1>17. ASSUME NEW ok \in BOOLEAN, saveFallbacks(ok) PROVE FormInv'
  <2>1. inbSaving' = NoSave /\ UNCHANGED inbFields
    BY <1>17 DEF saveFallbacks
  <2>2. \A i \in DOMAIN inboundsStored' : StoredInbound(inboundsStored'[i])
    <3>1. CASE UNCHANGED inboundsStored
      BY <1>0, <3>1
    <3>2. CASE inboundsStored' = [inboundsStored EXCEPT ![inbSaving.of].rows = inbSaving.rows]
      <4>1. SUFFICES ASSUME NEW i \in DOMAIN inboundsStored, i = inbSaving.of
                     PROVE  StoredInbound(inboundsStored'[i])
        BY <1>0, <3>2
      <4> DEFINE g == inboundsStored[i]
      <4>2. inboundsStored'[i] = [g EXCEPT !.rows = inbSaving.rows]
        BY <3>2, <4>1
      <4>3. g = [protocol |-> g.protocol, stream |-> g.stream, strategy |-> g.strategy, rows |-> g.rows]
            /\ g.stream \in Streams /\ StreamSound(g.stream)
           /\ g.protocol \in Protocols /\ g.strategy \in {"node", "listen"}
        BY <1>0 DEF StoredInbound
      <4> HIDE DEF g
      <4>4. [g EXCEPT !.rows = inbSaving.rows] = [protocol |-> g.protocol, stream |-> g.stream,
                                                   strategy |-> g.strategy, rows |-> inbSaving.rows]
        BY <4>3
      <4> DEFINE h == [protocol |-> g.protocol, stream |-> g.stream,
                       strategy |-> g.strategy, rows |-> inbSaving.rows]
      <4>5. h = [protocol |-> h.protocol, stream |-> h.stream, strategy |-> h.strategy, rows |-> h.rows]
            /\ h.stream = g.stream /\ h.protocol = g.protocol /\ h.strategy = g.strategy
        OBVIOUS
      <4>6. inboundsStored'[i] = h
        BY <4>2, <4>4
      <4> HIDE DEF h
      <4> QED  BY <4>3, <4>5, <4>6 DEF StoredInbound
    <3> QED  BY <1>17, <3>1, <3>2 DEF saveFallbacks
  <2> QED  BY <1>0, <2>1, <2>2 DEF FormInv, NoSave, f, s
<1> QED
  BY <1>1, <1>2, <1>3, <1>4, <1>5, <1>6, <1>7, <1>8, <1>9, <1>10, <1>11, <1>12, <1>13, <1>14,
     <1>15, <1>16, <1>17 DEF InboundFormNext

LEMMA FormTruth == FormInv => OneTransport
BY DEF FormInv, StoredInbound, StreamSound, OneTransport

-----------------------------------------------------------------------------
(* What the dialog of an inbound knows of what is stored.  An edit that     *)
(* nothing was typed into holds the fields of the inbound it was opened on, *)
(* but for a strategy that can no longer be offered, and its rows, once     *)
(* they are shown; a save on its way that is faithful carries the same.     *)
(* While the rows of a save are under way none of this is claimed of a      *)
(* dialog opened meanwhile: the answer closes it.                          *)

FormShape ==
  /\ inbForm \in [open: BOOLEAN, mode: {"add", "edit"}, of: Masters \cup {NoMaster}]
  /\ inbForm.mode = "add" => inbForm.of = NoMaster
  /\ inbForm.mode = "edit" => inbForm.of \in DOMAIN inboundsStored
  /\ DOMAIN inboundsStored \subseteq Masters
  /\ loadsAsked \subseteq DOMAIN inboundsStored
  /\ nodesKnown \in {"waiting", "some", "none"}

\* The history: which dialog, and what became of it.
Alibis == [dialog: Nat, changes: Nat, typed: BOOLEAN, rowsTyped: BOOLEAN,
           rowsOf: Masters \cup {NoMaster}, late: BOOLEAN]

\* A key that the dialog itself asked for makes it a changed one.
AlibiKept ==
  /\ inbAlibi \in Alibis
  /\ keysAsked \subseteq 0..inbAlibi.dialog
  /\ inbAlibi.dialog \in keysAsked => inbAlibi.typed

RowsTyped ==
  /\ \A i \in DOMAIN inboundsStored : inboundsStored[i].rows \in Seq(Targets)
  /\ rows_ \in Seq(Targets \cup {Nowhere})

InboundSaves == [stage: {"inbound", "rows"}, of: Masters \cup {NoMaster}, fields: Fields,
                 rows: Seq(Targets), host: BOOLEAN, faithful: BOOLEAN]

\* The save under way: what it carries, and, when it is faithful, that it
\* carries what is stored.
SaveOnItsWay(s) ==
  /\ s \in InboundSaves
  /\ s.of = NoMaster => s.stage = "inbound" /\ ~s.faithful /\ ~(Masters \subseteq DOMAIN inboundsStored)
  /\ s.of # NoMaster => s.of \in DOMAIN inboundsStored
  /\ s.faithful /\ s.stage = "inbound" =>
       /\ s.fields.protocol = inboundsStored[s.of].protocol
       /\ s.fields.stream = inboundsStored[s.of].stream
       /\ s.fields.strategy = inboundsStored[s.of].strategy
       /\ s.host => s.rows = inboundsStored[s.of].rows
  /\ s.faithful /\ s.stage = "rows" => s.rows = inboundsStored[s.of].rows

SaveSent == inbSaving = NoSave \/ SaveOnItsWay(inbSaving)

\* The strategy of f cannot be offered: a node is not known, or does not fit.
Unoffered(f) == nodesKnown # "waiting" /\ ~(nodesKnown = "some" /\ f.protocol \in NodeEligible)

EditShown == inbForm.open /\ inbForm.mode = "edit" /\ inbSaving.stage # "rows"

FieldsAsOpened ==
  EditShown /\ ~inbAlibi.typed /\ ~inbAlibi.late =>
    LET g == inboundsStored[inbForm.of] IN
    /\ inbFields.protocol = g.protocol /\ inbFields.stream = g.stream
    /\ inbFields.strategy = g.strategy \/ (inbFields.strategy = "listen" /\ Unoffered(inbFields))

RowsAsLoaded ==
  EditShown /\ inbAlibi.rowsOf = inbForm.of /\ ~inbAlibi.rowsTyped =>
    LET g == inboundsStored[inbForm.of] IN
    g.protocol \in {"vless", "trojan"} => rows_ = g.rows

FormKnows == FormShape /\ AlibiKept /\ RowsTyped /\ SaveSent /\ FieldsAsOpened /\ RowsAsLoaded
LEMMA MoreConstants ==
  /\ NoMaster \notin Masters /\ IsFiniteSet(Targets) /\ Nowhere \notin Targets
  /\ DOMAIN FirstInbounds \subseteq Masters
  /\ \A i \in DOMAIN FirstInbounds : FirstInbounds[i].rows \in Seq(Targets)
BY InboundFormAssumption DEF NoMaster

\* The rows that are sent are inbounds and destinations, and all of the rows
\* when none of them points nowhere.
LEMMA RowsSentTyped ==
  ASSUME NEW rs \in Seq(Targets \cup {Nowhere})
  PROVE  RowsSent(rs) \in Seq(Targets)
<1> DEFINE good == {k \in DOMAIN rs : rs[k] # Nowhere}
           Below(k) == good \cap 1..k
           Nth(j) == CHOOSE k \in good : Cardinality(Below(k)) = j
<1>0. good \subseteq 1..Len(rs) /\ Len(rs) \in Nat /\ IsFiniteSet(1..Len(rs))
  <2>1. Len(rs) \in Nat /\ DOMAIN rs = 1..Len(rs)
    OBVIOUS
  <2>2. IsFiniteSet(1..Len(rs))
    BY <2>1, FS_Interval
  <2> QED  BY <2>1, <2>2
<1>1. IsFiniteSet(good) /\ Cardinality(good) \in Nat
  BY <1>0, FS_Subset, FS_CardinalityType
<1>2. \A k \in good : rs[k] \in Targets
  OBVIOUS
<1>3. RowsSent(rs) = [j \in 1..Cardinality(good) |-> rs[Nth(j)]]
  BY DEF RowsSent
<1> HIDE DEF good
<1>4. \A k \in Nat : IsFiniteSet(Below(k)) /\ Cardinality(Below(k)) \in Nat
  BY <1>1, FS_Subset, FS_CardinalityType
<1>5. Below(0) = {} /\ Cardinality(Below(0)) = 0
  <2>1. Below(0) = {}
    OBVIOUS
  <2> QED  BY <2>1, FS_EmptySet
<1>6. Below(Len(rs)) = good
  BY <1>0
<1>7. ASSUME NEW k \in Nat, k + 1 \notin good
      PROVE  Below(k + 1) = Below(k)
  BY <1>0, <1>7
<1>8. ASSUME NEW k \in Nat, k + 1 \in good
      PROVE  Cardinality(Below(k + 1)) = Cardinality(Below(k)) + 1
  <2>1. Below(k + 1) = Below(k) \cup {k + 1} /\ k + 1 \notin Below(k)
    BY <1>0, <1>8
  <2> HIDE DEF Below
  <2> QED  BY <2>1, <1>4, FS_AddElement
<1>9. ASSUME NEW j \in 1..Cardinality(good)
      PROVE  \E k \in good : Cardinality(Below(k)) = j
  <2> HIDE DEF Below
  <2> DEFINE T == {k \in Nat : Cardinality(Below(k)) >= j}
  <2>1. Len(rs) \in T
    BY <1>0, <1>1, <1>6
  <2>2. PICK k \in T : \A m \in T : k <= m
    <3>1. T \in SUBSET Nat /\ T # {}
      BY <2>1
    <3> HIDE DEF T
    <3> QED  BY <3>1, LeastNatural
  <2>3. k \in Nat /\ Cardinality(Below(k)) >= j /\ k # 0
    <3>1. j \in Nat /\ j > 0
      BY <1>1
    <3> QED  BY <1>5, <3>1
  <2>4. k - 1 \in Nat /\ (k - 1) + 1 = k
    BY <2>3
  <2>5. ~(Cardinality(Below(k - 1)) >= j)
    BY <2>2, <2>3, <2>4
  <2> HIDE DEF T
  <2>6. Cardinality(Below(k - 1)) \in Nat /\ Cardinality(Below(k)) \in Nat /\ j \in Nat
    <3>1. j \in Nat
      BY <1>1
    <3>2. \A n \in Nat : Cardinality(Below(n)) \in Nat
      BY <1>4
    <3> QED  BY <2>3, <2>4, <3>1, <3>2
  <2>7. k \in good
    BY <1>7, <2>3, <2>4, <2>5
  <2>8. Cardinality(Below(k)) = Cardinality(Below(k - 1)) + 1
    BY <1>8, <2>4, <2>7
  <2> QED  BY <2>3, <2>5, <2>6, <2>7, <2>8
<1>10. \A j \in 1..Cardinality(good) : Nth(j) \in good
  <2> HIDE DEF Below
  <2> QED  BY <1>9
<1> HIDE DEF Nth
<1> QED  BY <1>1, <1>2, <1>3, <1>10

LEMMA RowsSentWhole ==
  ASSUME NEW rs \in Seq(Targets)
  PROVE  RowsSent(rs) = rs
<1> DEFINE good == {k \in DOMAIN rs : rs[k] # Nowhere}
           Nth(j) == CHOOSE k \in good : Cardinality(good \cap 1..k) = j
<1>1. Len(rs) \in Nat /\ DOMAIN rs = 1..Len(rs)
  OBVIOUS
<1>2. good = 1..Len(rs)
  BY <1>1, MoreConstants
<1>0. \A n \in Nat : Cardinality(1..n) = n
  <2> SUFFICES ASSUME NEW n \in Nat PROVE Cardinality(1..n) = n
    OBVIOUS
  <2>1. Cardinality(1..n) = IF 1 > n THEN 0 ELSE n - 1 + 1
    BY FS_Interval
  <2> QED  BY <2>1
<1>3. Cardinality(good) = Len(rs)
  BY <1>0, <1>1, <1>2
<1>4. RowsSent(rs) = [j \in 1..Cardinality(good) |-> rs[Nth(j)]]
  BY DEF RowsSent
<1>5. ASSUME NEW j \in 1..Len(rs) PROVE Nth(j) = j
  <2>1. \A k \in good : Cardinality(good \cap 1..k) = k
    <3> SUFFICES ASSUME NEW k \in good PROVE Cardinality(good \cap 1..k) = k
      OBVIOUS
    <3>1. k \in Nat /\ good \cap 1..k = 1..k
      BY <1>1, <1>2
    <3> QED  BY <1>0, <3>1
  <2>2. j \in good
    BY <1>2
  <2> HIDE DEF good
  <2>3. Nth(j) = CHOOSE k \in good : k = j
    BY <2>1
  <2> QED  BY <2>2, <2>3
<1> HIDE DEF good, Nth
<1> QED  BY <1>1, <1>3, <1>4, <1>5
-----------------------------------------------------------------------------
\* The effect on the strategy touches nothing else, and takes away only what
\* cannot be offered.
LEMMA EffectIs ==
  ASSUME NEW f \in Fields, NEW nodes, NEW seen
  PROVE  LET e == StrategyEffect(f, nodes, seen) IN
         /\ e \in Fields /\ e.protocol = f.protocol /\ e.stream = f.stream
         /\ \/ e.strategy = f.strategy
            \/ /\ e.strategy = "listen" /\ nodes # "waiting"
               /\ ~(nodes = "some" /\ f.protocol \in NodeEligible)
BY DEF StrategyEffect, Fields

LEMMA FieldsOfIs ==
  ASSUME FormInv, NEW i \in DOMAIN inboundsStored
  PROVE  /\ FieldsOf(i) \in Fields
         /\ FieldsOf(i).protocol = inboundsStored[i].protocol
         /\ FieldsOf(i).stream = inboundsStored[i].stream
         /\ FieldsOf(i).strategy = inboundsStored[i].strategy
BY DEF FormInv, StoredInbound, FieldsOf, Fields

LEMMA FormKnowsInit ==
  ASSUME InboundFormInit PROVE FormKnows
<1> DEFINE no == FALSE
<1>1. /\ inbForm = [open |-> no, mode |-> "add", of |-> NoMaster]
      /\ inbAlibi = [dialog |-> 0, changes |-> 0, typed |-> no, rowsTyped |-> no,
                     rowsOf |-> NoMaster, late |-> no]
      /\ ~no /\ no \in BOOLEAN
  BY DEF InboundFormInit
<1> HIDE DEF no
<1>2. FormShape
  BY <1>1, MoreConstants DEF FormShape, InboundFormInit
<1>3. AlibiKept
  BY <1>1 DEF AlibiKept, InboundFormInit, Alibis
<1>4. RowsTyped
  BY MoreConstants DEF RowsTyped, InboundFormInit
<1>5. SaveSent
  BY DEF SaveSent, InboundFormInit
<1>6. ~EditShown
  BY <1>1 DEF EditShown
<1> QED  BY <1>2, <1>3, <1>4, <1>5, <1>6 DEF FormKnows, FieldsAsOpened, RowsAsLoaded

\* What is known of a save depends on what is stored and on nothing else.
LEMMA SaveStays ==
  ASSUME SaveSent, inbSaving' = inbSaving, inboundsStored' = inboundsStored
  PROVE  SaveSent'
BY DEF SaveSent, SaveOnItsWay

LEMMA NodesKnow ==
  ASSUME FormInv, FormKnows, NodesArrive \/ Rendered
  PROVE  FormKnows'
<1> DEFINE e == StrategyEffect(inbFields, nodesKnown', watched')
<1>1. /\ inboundsStored' = inboundsStored /\ inbForm' = inbForm /\ rows_' = rows_
      /\ loadsAsked' = loadsAsked /\ keysAsked' = keysAsked /\ inbSaving' = inbSaving
      /\ inbAlibi' = inbAlibi /\ nodesKnown' \in {"waiting", "some", "none"}
      /\ nodesKnown \in {"waiting", "some", "none"}
      /\ nodesKnown # "waiting" => nodesKnown' = nodesKnown
      /\ inbForm.open => inbFields' = e
  BY DEF NodesArrive, Rendered, FormKnows, FormShape
<1>2. FormShape' /\ AlibiKept' /\ RowsTyped' /\ SaveSent'
  BY <1>1, SaveStays DEF FormKnows, FormShape, AlibiKept, RowsTyped
<1>3. /\ e.protocol = inbFields.protocol /\ e.stream = inbFields.stream
      /\ \/ e.strategy = inbFields.strategy
         \/ /\ e.strategy = "listen" /\ nodesKnown' # "waiting"
            /\ ~(nodesKnown' = "some" /\ inbFields.protocol \in NodeEligible)
  BY EffectIs DEF FormInv
<1> HIDE DEF e
<1>4. FieldsAsOpened'
  <2> SUFFICES ASSUME EditShown', ~inbAlibi'.typed, ~inbAlibi'.late
               PROVE  LET g == inboundsStored[inbForm.of] IN
                      /\ inbFields'.protocol = g.protocol /\ inbFields'.stream = g.stream
                      /\ inbFields'.strategy = g.strategy
                         \/ (inbFields'.strategy = "listen" /\ Unoffered(inbFields)')
    BY <1>1 DEF FieldsAsOpened
  <2>1. EditShown /\ ~inbAlibi.typed /\ ~inbAlibi.late /\ inbForm.open
    BY <1>1 DEF EditShown
  <2> DEFINE g == inboundsStored[inbForm.of]
  <2>2. /\ inbFields.protocol = g.protocol /\ inbFields.stream = g.stream
        /\ inbFields.strategy = g.strategy \/ (inbFields.strategy = "listen" /\ Unoffered(inbFields))
    BY <2>1 DEF FormKnows, FieldsAsOpened
  <2> HIDE DEF g
  <2>3. Unoffered(inbFields) => Unoffered(inbFields)'
    BY <1>1, <1>3, <2>1 DEF Unoffered
  <2>4. nodesKnown' # "waiting" /\ ~(nodesKnown' = "some" /\ inbFields.protocol \in NodeEligible)
          => Unoffered(inbFields)'
    BY <1>1, <1>3, <2>1 DEF Unoffered
  <2> QED  BY <1>1, <1>3, <2>1, <2>2, <2>3, <2>4 DEF g
<1>5. RowsAsLoaded'
  BY <1>1 DEF RowsAsLoaded, EditShown, FormKnows
<1> QED  BY <1>2, <1>4, <1>5 DEF FormKnows

\* The history of a dialog that opens.
AlibiOpened(a, n, no, o) ==
  [a EXCEPT !.dialog = n, !.typed = no, !.rowsTyped = no, !.rowsOf = o, !.late = no]

LEMMA AlibiOpens ==
  ASSUME NEW a \in Alibis, NEW n \in Nat, NEW o \in Masters \cup {NoMaster}, NEW no \in BOOLEAN
  PROVE  /\ AlibiOpened(a, n, no, o) \in Alibis /\ AlibiOpened(a, n, no, o).dialog = n
         /\ AlibiOpened(a, n, no, o).rowsOf = o
<1> DEFINE a1 == [a EXCEPT !.dialog = n]
           a2 == [a1 EXCEPT !.typed = no]
           a3 == [a2 EXCEPT !.rowsTyped = no]
           a4 == [a3 EXCEPT !.rowsOf = o]
           a5 == [a4 EXCEPT !.late = no]
<1>1. a1 \in Alibis /\ a1.dialog = n
  BY DEF Alibis
<1> HIDE DEF a1
<1>2. a2 \in Alibis /\ a2.dialog = n
  BY <1>1 DEF Alibis
<1> HIDE DEF a2
<1>3. a3 \in Alibis /\ a3.dialog = n
  BY <1>2 DEF Alibis
<1> HIDE DEF a3
<1>4. a4 \in Alibis /\ a4.dialog = n /\ a4.rowsOf = o
  BY <1>3 DEF Alibis
<1> HIDE DEF a4
<1>5. a5 \in Alibis /\ a5.dialog = n /\ a5.rowsOf = o
  BY <1>4 DEF Alibis
<1> QED  BY <1>5 DEF a1, a2, a3, a4, AlibiOpened

LEMMA AddOpens ==
  ASSUME FormInv, FormKnows, onAddInbound
  PROVE  FormKnows'
<1> DEFINE no == FALSE
           yes == TRUE
           n == inbAlibi.dialog + 1
           a5 == AlibiOpened(inbAlibi, n, no, NoMaster)
<1>1. /\ inboundsStored' = inboundsStored /\ nodesKnown' = nodesKnown /\ keysAsked' = keysAsked
      /\ inbSaving' = inbSaving /\ loadsAsked' = loadsAsked
      /\ inbForm' = [open |-> yes, mode |-> "add", of |-> NoMaster] /\ rows_' = << >>
      /\ yes \in BOOLEAN /\ no \in BOOLEAN /\ ~no
  BY DEF onAddInbound, NewDialog
<1>2. inbAlibi \in Alibis
      /\ keysAsked \subseteq 0..inbAlibi.dialog
  BY DEF FormKnows, AlibiKept
<1>3. inbAlibi' = a5
  BY <1>2 DEF onAddInbound, AlibiOpened
<1> HIDE DEF no, yes
<1>4. /\ a5 \in Alibis
      /\ a5.dialog = n
  <2>1. n \in Nat /\ NoMaster \in Masters \cup {NoMaster}
    BY <1>2 DEF Alibis
  <2> HIDE DEF n
  <2> QED  BY <1>1, <1>2, <2>1, AlibiOpens
<1> HIDE DEF a5
<1>5. AlibiKept'
  <2>1. keysAsked \subseteq 0..n /\ n \notin keysAsked
    BY <1>2 DEF Alibis
  <2> QED  BY <1>1, <1>3, <1>4, <2>1 DEF AlibiKept
<1>6. FormShape'
  BY <1>1 DEF FormKnows, FormShape
<1>7. RowsTyped' /\ SaveSent'
  BY <1>1, SaveStays DEF FormKnows, RowsTyped
<1>8. ~EditShown'
  BY <1>1 DEF EditShown
<1> QED  BY <1>5, <1>6, <1>7, <1>8 DEF FormKnows, FieldsAsOpened, RowsAsLoaded

LEMMA EditOpens ==
  ASSUME FormInv, FormKnows, NEW i \in Masters, openEdit(i)
  PROVE  FormKnows'
<1> DEFINE no == FALSE
           yes == TRUE
           hasRows == FieldsOf(i).protocol \in {"vless", "trojan"}
           of == IF hasRows THEN NoMaster ELSE i
           n == inbAlibi.dialog + 1
           a5 == AlibiOpened(inbAlibi, n, no, of)
           e == StrategyEffect(FieldsOf(i), nodesKnown, no)
<1>0. i \in DOMAIN inboundsStored
  BY DEF openEdit
<1>1. /\ inboundsStored' = inboundsStored /\ nodesKnown' = nodesKnown /\ keysAsked' = keysAsked
      /\ inbSaving' = inbSaving /\ inbFields' = e
      /\ inbForm' = [open |-> yes, mode |-> "edit", of |-> i]
      /\ yes \in BOOLEAN /\ no \in BOOLEAN /\ ~no
  BY DEF openEdit, NewDialog
<1>2. /\ loadsAsked' = IF hasRows THEN loadsAsked \cup {i} ELSE loadsAsked
      /\ rows_' = IF hasRows THEN rows_ ELSE << >>
  BY DEF openEdit
<1>3. inbAlibi \in Alibis
      /\ keysAsked \subseteq 0..inbAlibi.dialog
  BY DEF FormKnows, AlibiKept
<1>4. inbAlibi' = a5
  BY <1>3 DEF openEdit, AlibiOpened
<1>5. of \in Masters \cup {NoMaster} /\ (hasRows => of = NoMaster)
  OBVIOUS
<1>6. hasRows => inboundsStored[i].protocol \in {"vless", "trojan"}
  BY <1>0, FieldsOfIs
<1>7. inboundsStored[i].protocol \in {"vless", "trojan"} => hasRows
  BY <1>0, FieldsOfIs
<1> HIDE DEF no, yes, of, hasRows
<1>8. /\ a5 \in Alibis
      /\ a5.dialog = n /\ a5.rowsOf = of
  <2>1. n \in Nat
    BY <1>3 DEF Alibis
  <2> HIDE DEF n
  <2> QED  BY <1>1, <1>3, <1>5, <2>1, AlibiOpens
<1> HIDE DEF a5
<1>9. AlibiKept'
  <2>1. keysAsked \subseteq 0..n /\ n \notin keysAsked
    BY <1>3 DEF Alibis
  <2> QED  BY <1>1, <1>4, <1>8, <2>1 DEF AlibiKept
<1>10. FormShape'
  BY <1>0, <1>1, <1>2 DEF FormKnows, FormShape
<1>11. RowsTyped' /\ SaveSent'
  BY <1>1, <1>2, SaveStays DEF FormKnows, RowsTyped
<1>12. FieldsAsOpened'
  <2>1. /\ e.protocol = inboundsStored[i].protocol /\ e.stream = inboundsStored[i].stream
        /\ e.strategy = inboundsStored[i].strategy \/ (e.strategy = "listen" /\ nodesKnown # "waiting"
             /\ ~(nodesKnown = "some" /\ e.protocol \in NodeEligible))
    <3> DEFINE f == FieldsOf(i)
    <3>1. /\ f \in Fields /\ f.protocol = inboundsStored[i].protocol
          /\ f.stream = inboundsStored[i].stream /\ f.strategy = inboundsStored[i].strategy
      BY <1>0, FieldsOfIs
    <3> HIDE DEF f
    <3>2. /\ e.protocol = f.protocol /\ e.stream = f.stream
          /\ \/ e.strategy = f.strategy
             \/ /\ e.strategy = "listen" /\ nodesKnown # "waiting"
                /\ ~(nodesKnown = "some" /\ f.protocol \in NodeEligible)
      BY <3>1, EffectIs DEF f
    <3> HIDE DEF e
    <3> QED  BY <3>1, <3>2
  <2> HIDE DEF e
  <2> QED  BY <1>1, <2>1 DEF FieldsAsOpened, Unoffered
<1>13. RowsAsLoaded'
  <2>1. inbForm'.of = i /\ i # NoMaster
    BY <1>1, MoreConstants
  <2>2. inboundsStored[i].protocol \in {"vless", "trojan"} => inbAlibi'.rowsOf # i
    BY <1>4, <1>5, <1>7, <1>8, <2>1
  <2> QED  BY <1>1, <2>1, <2>2 DEF RowsAsLoaded
<1> QED  BY <1>9, <1>10, <1>11, <1>12, <1>13 DEF FormKnows

LEMMA CloseKnows ==
  ASSUME FormInv, FormKnows, CloseInboundForm
  PROVE  FormKnows'
<1> DEFINE no == FALSE
           d == [inbForm EXCEPT !.open = no]
<1>1. /\ inboundsStored' = inboundsStored /\ nodesKnown' = nodesKnown /\ keysAsked' = keysAsked
      /\ inbSaving' = inbSaving /\ inbAlibi' = inbAlibi /\ rows_' = rows_ /\ loadsAsked' = loadsAsked
      /\ inbForm' = d /\ no \in BOOLEAN /\ ~no
      /\ inbForm \in [open: BOOLEAN, mode: {"add", "edit"}, of: Masters \cup {NoMaster}]
  BY DEF CloseInboundForm, FormKnows, FormShape
<1> HIDE DEF no
<1>2. /\ d \in [open: BOOLEAN, mode: {"add", "edit"}, of: Masters \cup {NoMaster}]
      /\ d.mode = inbForm.mode /\ d.of = inbForm.of /\ d.open = no
  BY <1>1
<1> HIDE DEF d
<1>3. FormShape' /\ AlibiKept' /\ RowsTyped' /\ SaveSent'
  BY <1>1, <1>2, SaveStays DEF FormKnows, FormShape, AlibiKept, RowsTyped
<1>4. ~EditShown'
  BY <1>1, <1>2 DEF EditShown
<1> QED  BY <1>3, <1>4 DEF FormKnows, FieldsAsOpened, RowsAsLoaded

LEMMA LoadKnows ==
  ASSUME FormInv, FormKnows, NEW i \in Masters, loadFallbacks(i)
  PROVE  FormKnows'
<1> DEFINE no == FALSE
<1>0. i \in DOMAIN inboundsStored
  BY DEF loadFallbacks, FormKnows, FormShape
<1>1. /\ inboundsStored' = inboundsStored /\ nodesKnown' = nodesKnown /\ keysAsked' = keysAsked
      /\ inbSaving' = inbSaving /\ inbForm' = inbForm /\ inbFields' = inbFields
      /\ loadsAsked' = loadsAsked \ {i} /\ no \in BOOLEAN /\ ~no
      /\ inbAlibi \in Alibis
  BY DEF loadFallbacks, FormKnows, AlibiKept
<1>2. \/ rows_' = inboundsStored[i].rows
         /\ inbAlibi' = [[inbAlibi EXCEPT !.rowsOf = i] EXCEPT !.rowsTyped = no]
      \/ rows_' = << >> /\ inbAlibi' = [inbAlibi EXCEPT !.rowsOf = NoMaster]
  BY <1>1 DEF loadFallbacks
<1> HIDE DEF no
<1>3. /\ inbAlibi' \in Alibis
      /\ inbAlibi'.dialog = inbAlibi.dialog /\ inbAlibi'.typed = inbAlibi.typed
      /\ inbAlibi'.late = inbAlibi.late
      /\ (rows_' = inboundsStored[i].rows /\ inbAlibi'.rowsOf = i) \/ inbAlibi'.rowsOf = NoMaster
  BY <1>1, <1>2 DEF Alibis
<1>4. FormShape' /\ AlibiKept' /\ SaveSent'
  BY <1>1, <1>3, SaveStays DEF FormKnows, FormShape, AlibiKept
<1>5. RowsTyped'
  <2>1. inboundsStored[i].rows \in Seq(Targets)
    BY <1>0 DEF FormKnows, RowsTyped
  <2>2. Seq(Targets) \subseteq Seq(Targets \cup {Nowhere}) /\ << >> \in Seq(Targets \cup {Nowhere})
    OBVIOUS
  <2> QED  BY <1>1, <1>2, <2>1, <2>2 DEF FormKnows, RowsTyped
<1>6. FieldsAsOpened'
  BY <1>1, <1>3 DEF FormKnows, FieldsAsOpened, EditShown, Unoffered
<1>7. RowsAsLoaded'
  <2>1. EditShown' => inbForm.of # NoMaster
    BY <1>1, MoreConstants DEF EditShown, FormKnows, FormShape
  <2> QED  BY <1>1, <1>3, <2>1 DEF RowsAsLoaded
<1> QED  BY <1>4, <1>5, <1>6, <1>7 DEF FormKnows
\* A field that is changed, and the key that is asked for with it.
LEMMA FieldTyped ==
  ASSUME FormKnows, Typed, keysAsked' \in {keysAsked, keysAsked \cup {inbAlibi.dialog}},
         UNCHANGED <<inboundsStored, nodesKnown, inbForm, rows_, loadsAsked, inbSaving>>
  PROVE  FormKnows'
<1> DEFINE yes == TRUE
           n == inbAlibi.changes + 1
           a1 == [inbAlibi EXCEPT !.typed = yes]
           a2 == [a1 EXCEPT !.changes = n]
<1>1. inbAlibi \in Alibis /\ keysAsked \subseteq 0..inbAlibi.dialog /\ inbAlibi.dialog \in Nat
      /\ yes /\ yes \in BOOLEAN
  BY DEF FormKnows, AlibiKept, Alibis
<1>2. inbAlibi' = a2
  BY <1>1 DEF Typed, Alibis
<1>3. n \in Nat
  BY <1>1 DEF Alibis
<1> HIDE DEF yes, n
<1>4. /\ a1 \in Alibis /\ a1.dialog = inbAlibi.dialog /\ a1.typed = yes
      /\ a1.rowsOf = inbAlibi.rowsOf /\ a1.rowsTyped = inbAlibi.rowsTyped
  BY <1>1 DEF Alibis
<1> HIDE DEF a1
<1>5. /\ a2 \in Alibis /\ a2.dialog = inbAlibi.dialog /\ a2.typed = yes
      /\ a2.rowsOf = inbAlibi.rowsOf /\ a2.rowsTyped = inbAlibi.rowsTyped
  BY <1>3, <1>4 DEF Alibis
<1> HIDE DEF a2
<1>6. AlibiKept'
  <2>1. keysAsked' \subseteq 0..inbAlibi.dialog
    BY <1>1
  <2> QED  BY <1>1, <1>2, <1>5, <2>1 DEF AlibiKept
<1>7. FormShape' /\ RowsTyped' /\ SaveSent'
  BY SaveStays DEF FormKnows, FormShape, RowsTyped
<1>8. FieldsAsOpened'
  BY <1>1, <1>2, <1>5 DEF FieldsAsOpened
<1>9. RowsAsLoaded'
  BY <1>2, <1>5 DEF FormKnows, RowsAsLoaded, EditShown
<1> QED  BY <1>6, <1>7, <1>8, <1>9 DEF FormKnows

LEMMA KeyKnows ==
  ASSUME FormInv, FormKnows, NEW d \in keysAsked, NEW ok \in BOOLEAN, KeyAnswered(d, ok)
  PROVE  FormKnows'
<1> DEFINE tooLate == inbAlibi.late \/ d # inbAlibi.dialog
           a == [inbAlibi EXCEPT !.late = tooLate]
<1>1. /\ inbAlibi \in Alibis /\ keysAsked \subseteq 0..inbAlibi.dialog
      /\ inbAlibi.dialog \in keysAsked => inbAlibi.typed
  BY DEF FormKnows, AlibiKept
<1>2. /\ UNCHANGED <<inboundsStored, nodesKnown, inbForm, rows_, loadsAsked, inbSaving>>
      /\ keysAsked' = keysAsked \ {d}
  BY DEF KeyAnswered
<1>3. (inbFields' = inbFields /\ inbAlibi' = inbAlibi) \/ inbAlibi' = a
  BY DEF KeyAnswered
<1>4. tooLate \in BOOLEAN /\ (d = inbAlibi.dialog \/ tooLate)
  BY <1>1 DEF Alibis
<1> HIDE DEF tooLate
<1>5. /\ a \in Alibis /\ a.dialog = inbAlibi.dialog /\ a.typed = inbAlibi.typed /\ a.late = tooLate
      /\ a.rowsOf = inbAlibi.rowsOf /\ a.rowsTyped = inbAlibi.rowsTyped
  BY <1>1, <1>4 DEF Alibis
<1> HIDE DEF a
<1>6. AlibiKept'
  BY <1>1, <1>2, <1>3, <1>5 DEF AlibiKept
<1>7. FormShape' /\ RowsTyped' /\ SaveSent'
  BY <1>2, SaveStays DEF FormKnows, FormShape, RowsTyped
<1>8. FieldsAsOpened'
  <2>1. CASE inbFields' = inbFields /\ inbAlibi' = inbAlibi
    BY <1>2, <2>1 DEF FormKnows, FieldsAsOpened, EditShown, Unoffered
  <2>2. CASE inbAlibi' = a
    BY <1>1, <1>4, <1>5, <2>2 DEF FieldsAsOpened
  <2> QED  BY <1>3, <2>1, <2>2
<1>9. RowsAsLoaded'
  BY <1>2, <1>3, <1>5 DEF FormKnows, RowsAsLoaded, EditShown
<1> QED  BY <1>6, <1>7, <1>8, <1>9 DEF FormKnows

LEMMA RowsKnow ==
  ASSUME FormKnows, NEW rs \in Seq(Targets \cup {Nowhere}), SetRows(rs)
  PROVE  FormKnows'
<1> DEFINE yes == TRUE
           n == inbAlibi.changes + 1
           a1 == [inbAlibi EXCEPT !.typed = yes]
           a2 == [a1 EXCEPT !.changes = n]
           a3 == [a2 EXCEPT !.rowsTyped = yes]
<1>1. inbAlibi \in Alibis /\ yes /\ yes \in BOOLEAN
  BY DEF FormKnows, AlibiKept
<1>2. /\ inbAlibi' = a3 /\ rows_' = rs
      /\ UNCHANGED <<inboundsStored, nodesKnown, inbForm, inbFields, loadsAsked, keysAsked, inbSaving>>
  BY <1>1 DEF SetRows, Alibis
<1>3. n \in Nat
  BY <1>1 DEF Alibis
<1> HIDE DEF yes, n
<1>4. a1 \in Alibis /\ a1.dialog = inbAlibi.dialog /\ a1.typed = yes
  BY <1>1 DEF Alibis
<1> HIDE DEF a1
<1>5. a2 \in Alibis /\ a2.dialog = inbAlibi.dialog /\ a2.typed = yes
  BY <1>3, <1>4 DEF Alibis
<1> HIDE DEF a2
<1>6. a3 \in Alibis /\ a3.dialog = inbAlibi.dialog /\ a3.typed = yes /\ a3.rowsTyped = yes
  BY <1>1, <1>5 DEF Alibis
<1> HIDE DEF a3
<1>7. FormShape' /\ AlibiKept' /\ RowsTyped' /\ SaveSent'
  BY <1>1, <1>2, <1>6, SaveStays DEF FormKnows, FormShape, RowsTyped, AlibiKept
<1> QED  BY <1>1, <1>2, <1>6, <1>7 DEF FormKnows, FieldsAsOpened, RowsAsLoaded

\* All of a finite set, one after the other.
LEMMA SetAsSequence ==
  ASSUME NEW S, IsFiniteSet(S)
  PROVE  SetToSeq(S) \in Seq(S)
<1> DEFINE n == Cardinality(S)
           Orders == {f \in [1..n -> S] : IsInjective(f)}
<1>1. n \in Nat
  BY FS_CardinalityType
<1>2. ExistsBijection(1..n, S)
  BY FS_CardinalityType
<1>3. PICK f \in Bijection(1..n, S) : TRUE
  BY <1>2 DEF ExistsBijection
<1>4. f \in [1..n -> S] /\ IsInjective(f)
  BY <1>3 DEF Bijection, Injection, Surjection, IsInjective
<1>5. SetToSeq(S) \in [1..n -> S]
  BY <1>4 DEF SetToSeq
<1> QED  BY <1>1, <1>5

LEMMA CardKnows ==
  ASSUME FormKnows,
         addFallback \/ updateFallback \/ removeFallback \/ moveFallback \/ addAllFallbacks
  PROVE  FormKnows'
<1> DEFINE Rows == Targets \cup {Nowhere}
<1>0. rows_ \in Seq(Rows)
  BY DEF FormKnows, RowsTyped
<1>1. CASE addFallback
  <2>1. Append(rows_, Nowhere) \in Seq(Rows)
    BY <1>0
  <2> QED  BY <1>1, <2>1, RowsKnow DEF addFallback
<1>2. CASE updateFallback
  <2>1. PICK k \in DOMAIN rows_, x \in Targets : SetRows([rows_ EXCEPT ![k] = x])
    BY <1>2 DEF updateFallback
  <2>2. [rows_ EXCEPT ![k] = x] \in Seq(Rows)
    BY <1>0
  <2> QED  BY <2>1, <2>2, RowsKnow
<1>3. CASE removeFallback
  <2>1. PICK k \in DOMAIN rows_ : SetRows(RemoveAt(rows_, k))
    BY <1>3 DEF removeFallback
  <2>2. RemoveAt(rows_, k) \in Seq(Rows)
    <3> HIDE DEF Rows
    <3>1. SubSeq(rows_, 1, k - 1) \in Seq(Rows) /\ SubSeq(rows_, k + 1, Len(rows_)) \in Seq(Rows)
      BY <1>0
    <3> QED  BY <3>1 DEF RemoveAt
  <2> QED  BY <2>1, <2>2, RowsKnow
<1>4. CASE moveFallback
  <2>1. PICK k \in DOMAIN rows_ :
          k > 1 /\ SetRows([rows_ EXCEPT ![k - 1] = rows_[k], ![k] = rows_[k - 1]])
    BY <1>4 DEF moveFallback
  <2>2. [rows_ EXCEPT ![k - 1] = rows_[k], ![k] = rows_[k - 1]] \in Seq(Rows)
    <3> HIDE DEF Rows
    <3>1. ASSUME NEW q \in Seq(Rows), NEW j \in DOMAIN q, NEW x \in Rows
          PROVE  [q EXCEPT ![j] = x] \in Seq(Rows) /\ DOMAIN [q EXCEPT ![j] = x] = DOMAIN q
      OBVIOUS
    <3>2. rows_[k] \in Rows /\ rows_[k - 1] \in Rows /\ k - 1 \in DOMAIN rows_
      BY <1>0, <2>1
    <3> DEFINE q == [rows_ EXCEPT ![k - 1] = rows_[k]]
    <3>3. q \in Seq(Rows) /\ DOMAIN q = DOMAIN rows_
      BY <1>0, <3>1, <3>2
    <3> HIDE DEF q
    <3>4. [q EXCEPT ![k] = rows_[k - 1]] \in Seq(Rows)
      BY <2>1, <3>1, <3>2, <3>3
    <3> QED  BY <3>4 DEF q
  <2> QED  BY <2>1, <2>2, RowsKnow
<1>5. CASE addAllFallbacks
  <2> DEFINE S == (Targets \ {Dest, inbForm.of}) \ ToSet(rows_)
  <2>1. IsFiniteSet(S) /\ S \subseteq Rows
    BY MoreConstants, FS_Subset
  <2>2. SetRows(rows_ \o SetToSeq(S))
    BY <1>5 DEF addAllFallbacks
  <2> HIDE DEF S
  <2>3. SetToSeq(S) \in Seq(S)
    BY <2>1, SetAsSequence
  <2>4. SetToSeq(S) \in Seq(Rows)
    <3> DEFINE q == SetToSeq(S)
    <3> HIDE DEF q, Rows
    <3>1. q \in Seq(S)
      BY <2>3 DEF q
    <3>2. q \in Seq(Rows)
      BY <2>1, <3>1
    <3> QED  BY <3>2 DEF q
  <2> HIDE DEF Rows
  <2>5. rows_ \o SetToSeq(S) \in Seq(Rows)
    BY <1>0, <2>4
  <2> QED  BY <2>2, <2>5, RowsKnow DEF Rows
<1> QED  BY <1>1, <1>2, <1>3, <1>4, <1>5
\* A stream that is stored passes the schema as it is.
LEMMA ParsedSame ==
  ASSUME NEW f \in Fields, StreamSound(f.stream)
  PROVE  Parsed(f) = f
<1> DEFINE s == f.stream
           kept == s.slices \cap {s.network, s.security, "sockopt"}
           key == IF "reality" \in kept THEN s.key ELSE 0
           edited == s.edited \cap kept
           p == [s EXCEPT !.slices = kept, !.edited = edited, !.key = key]
<1>0. s \in Streams
  BY DEF Fields
<1>1. Parsed(f) = [f EXCEPT !.stream = p]
  BY DEF Parsed
<1>2. kept = s.slices
  <2>1. s.slices \ {"sockopt"} = {s.network, s.security} \ {"none"}
    BY DEF StreamSound, StreamOneTransport
  <2> HIDE DEF s
  <2> QED  BY <2>1
<1>3. edited = s.edited /\ key = s.key
  BY <1>2 DEF StreamSound
<1> HIDE DEF kept, edited, key
<1>4. p = s
  <2> HIDE DEF s
  <2> QED  BY <1>0, <1>2, <1>3 DEF Streams
<1> HIDE DEF p
<1> QED  BY <1>1, <1>4 DEF Fields

LEMMA SaveKnows ==
  ASSUME FormInv, FormKnows, submit
  PROVE  FormKnows'
<1> DEFINE f == Parsed(inbFields)
           i == inbForm.of
           g == inboundsStored[i]
           good == RowsSent(rows_)
           host == IsFallbackHost(f)
           faithful == /\ inbForm.mode = "edit" /\ ~inbAlibi.typed /\ ~inbAlibi.late
                       /\ inbAlibi.rowsOf = i /\ ~inbAlibi.rowsTyped
                       /\ FieldsOf(i).strategy = "node" =>
                            nodesKnown # "none" /\ f.protocol \in NodeEligible
           s == [stage |-> "inbound", of |-> i, fields |-> f, rows |-> good, host |-> host,
                 faithful |-> faithful]
<1>1. /\ UNCHANGED <<inboundsStored, nodesKnown, inbForm, inbFields, rows_, loadsAsked,
                     keysAsked, inbAlibi>>
      /\ inbSaving' = s /\ inbSaving = NoSave /\ inbForm.open
      /\ inbForm.mode = "edit" \/ Masters \ DOMAIN inboundsStored # {}
  BY DEF submit
<1>2. f \in Fields
  BY ParsedOneTransport DEF FormInv
<1>3. good \in Seq(Targets)
  BY RowsSentTyped DEF FormKnows, RowsTyped
<1>4. host \in BOOLEAN /\ faithful \in BOOLEAN
  BY DEF IsFallbackHost
<1>5. /\ i \in Masters \cup {NoMaster}
      /\ i # NoMaster => i \in DOMAIN inboundsStored
      /\ inbForm.mode = "edit" => i \in DOMAIN inboundsStored /\ i # NoMaster
  BY MoreConstants DEF FormKnows, FormShape
<1>6. host => f.protocol \in {"vless", "trojan"}
  BY DEF IsFallbackHost
<1>7. faithful => /\ f.protocol = g.protocol /\ f.stream = g.stream /\ f.strategy = g.strategy
                  /\ host => good = g.rows
  <2> SUFFICES ASSUME faithful
               PROVE  /\ f.protocol = g.protocol /\ f.stream = g.stream /\ f.strategy = g.strategy
                      /\ host => good = g.rows
    OBVIOUS
  <2>1. /\ inbForm.mode = "edit" /\ ~inbAlibi.typed /\ ~inbAlibi.late
        /\ inbAlibi.rowsOf = i /\ ~inbAlibi.rowsTyped
        /\ FieldsOf(i).strategy = "node" => nodesKnown # "none" /\ f.protocol \in NodeEligible
    OBVIOUS
  <2>2. EditShown
    BY <1>1, <2>1 DEF EditShown, NoSave
  <2>3. i \in DOMAIN inboundsStored
    BY <1>5, <2>1
  <2>4. /\ inbFields.protocol = g.protocol /\ inbFields.stream = g.stream
        /\ inbFields.strategy = g.strategy \/ (inbFields.strategy = "listen" /\ Unoffered(inbFields))
    BY <2>1, <2>2 DEF FormKnows, FieldsAsOpened
  <2>5. /\ StreamSound(g.stream) /\ FieldsOf(i).strategy = g.strategy
        /\ g.strategy \in {"node", "listen"} /\ g.rows \in Seq(Targets)
    BY <2>3, FieldsOfIs DEF FormInv, StoredInbound, FormKnows, RowsTyped
  <2>6. f = inbFields
    BY <2>4, <2>5, ParsedSame DEF FormInv
  <2> HIDE DEF f, g, i, good, host, faithful
  <2>7. f.strategy = g.strategy
    <3>1. nodesKnown \in {"waiting", "some", "none"}
      BY DEF FormKnows, FormShape
    <3> QED  BY <2>1, <2>4, <2>5, <2>6, <3>1 DEF Unoffered
  <2>8. host => rows_ = g.rows
    BY <1>6, <2>1, <2>2, <2>4, <2>6 DEF FormKnows, RowsAsLoaded, g, i
  <2>9. host => good = g.rows
    BY <2>5, <2>8, RowsSentWhole DEF good
  <2> QED  BY <2>4, <2>6, <2>7, <2>9
<1>10. faithful => inbForm.mode = "edit"
  OBVIOUS
<1> HIDE DEF f, i, g, good, host, faithful
<1>8. /\ s \in InboundSaves /\ s.stage = "inbound" /\ s.of = i /\ s.fields = f
      /\ s.rows = good /\ s.host = host /\ s.faithful = faithful
  BY <1>2, <1>3, <1>4, <1>5 DEF InboundSaves
<1> HIDE DEF s
<1>9. SaveOnItsWay(s)
  BY <1>1, <1>5, <1>7, <1>8, <1>10 DEF SaveOnItsWay, FormKnows, FormShape, g, i
<1>11. SaveSent'
  BY <1>1, <1>9 DEF SaveSent, SaveOnItsWay
<1>12. FormShape' /\ AlibiKept' /\ RowsTyped'
  BY <1>1 DEF FormKnows, FormShape, AlibiKept, RowsTyped
<1>13. EditShown' = EditShown /\ Unoffered(inbFields)' = Unoffered(inbFields)
  BY <1>1, <1>8 DEF EditShown, NoSave, Unoffered
<1>14. FieldsAsOpened' /\ RowsAsLoaded'
  BY <1>1, <1>13 DEF FormKnows, FieldsAsOpened, RowsAsLoaded
<1> QED  BY <1>11, <1>12, <1>14 DEF FormKnows

\* An inbound that is answered: stored as it was sent, and as it was before
\* when the save was faithful.
LEMMA AnswerKnows ==
  ASSUME FormInv, FormKnows, NEW ok \in BOOLEAN, InboundAnswered(ok)
  PROVE  FormKnows' /\ InboundKept
<1> DEFINE s == inbSaving
           i == IF s.of = NoMaster THEN CHOOSE x \in Masters : x \notin DOMAIN inboundsStored ELSE s.of
           before == IF s.of = NoMaster THEN << >> ELSE inboundsStored[i].rows
           record == [protocol |-> s.fields.protocol, stream |-> s.fields.stream,
                      strategy |-> s.fields.strategy, rows |-> before]
           no == FALSE
           closed == [inbForm EXCEPT !.open = no]
           r1 == [s EXCEPT !.stage = "rows"]
           r == [r1 EXCEPT !.of = i]
<1>1. /\ UNCHANGED <<nodesKnown, inbFields, rows_, loadsAsked, keysAsked, inbAlibi>>
      /\ s.stage = "inbound" /\ SaveOnItsWay(s) /\ no \in BOOLEAN /\ ~no
  BY DEF InboundAnswered, NoSave, FormKnows, SaveSent
<1>2. s \in InboundSaves /\ s.fields \in Fields
  BY <1>1 DEF SaveOnItsWay, InboundSaves
<1>3. i \in Masters /\ (s.of = NoMaster => i \notin DOMAIN inboundsStored)
      /\ (s.of # NoMaster => i = s.of /\ i \in DOMAIN inboundsStored)
  BY <1>1, <1>2, MoreConstants DEF SaveOnItsWay, InboundSaves
<1>4. CASE ~ok
  <2>1. inbSaving' = NoSave /\ UNCHANGED <<inboundsStored, inbForm>>
    BY <1>4 DEF InboundAnswered
  <2>2. FormShape' /\ AlibiKept' /\ RowsTyped' /\ SaveSent'
    BY <1>1, <2>1 DEF FormKnows, FormShape, AlibiKept, RowsTyped, SaveSent
  <2>3. EditShown' = EditShown /\ Unoffered(inbFields)' = Unoffered(inbFields)
    BY <1>1, <2>1 DEF EditShown, NoSave, Unoffered
  <2>4. FieldsAsOpened' /\ RowsAsLoaded'
    BY <1>1, <2>1, <2>3 DEF FormKnows, FieldsAsOpened, RowsAsLoaded
  <2>5. InboundKept
    BY <2>1 DEF InboundKept
  <2> QED  BY <2>2, <2>4, <2>5 DEF FormKnows
<1>5. CASE ok
  <2>1. /\ inboundsStored' = [x \in DOMAIN inboundsStored \cup {i} |->
                                IF x = i THEN record ELSE inboundsStored[x]]
        /\ inbSaving' = IF s.host THEN r ELSE NoSave
        /\ inbForm' = IF s.host THEN inbForm ELSE closed
    BY <1>2, <1>5 DEF InboundAnswered, InboundSaves
  <2>2. before \in Seq(Targets) /\ (s.of # NoMaster => before = inboundsStored[i].rows)
    BY <1>3 DEF FormKnows, RowsTyped
  <2>3. /\ record.rows = before /\ record.protocol = s.fields.protocol
        /\ record.stream = s.fields.stream /\ record.strategy = s.fields.strategy
    OBVIOUS
  <2>4. inbForm \in [open: BOOLEAN, mode: {"add", "edit"}, of: Masters \cup {NoMaster}]
    BY DEF FormKnows, FormShape
  <2>5. s.faithful => s.of # NoMaster /\ record = inboundsStored[i]
    <3> SUFFICES ASSUME s.faithful PROVE s.of # NoMaster /\ record = inboundsStored[i]
      OBVIOUS
    <3>1. s.of # NoMaster
      BY <1>1 DEF SaveOnItsWay
    <3> DEFINE g == inboundsStored[i]
    <3>2. /\ s.fields.protocol = g.protocol /\ s.fields.stream = g.stream
          /\ s.fields.strategy = g.strategy
      BY <1>1, <1>3, <3>1 DEF SaveOnItsWay
    <3>3. g = [protocol |-> g.protocol, stream |-> g.stream, strategy |-> g.strategy, rows |-> g.rows]
      BY <1>3, <3>1 DEF FormInv, StoredInbound
    <3>4. before = g.rows
      BY <2>2, <3>1
    <3> HIDE DEF g, before
    <3> QED  BY <3>1, <3>2, <3>3, <3>4 DEF g
  <2> HIDE DEF i, before, record, no
  <2>6. /\ closed \in [open: BOOLEAN, mode: {"add", "edit"}, of: Masters \cup {NoMaster}]
        /\ closed.mode = inbForm.mode /\ closed.of = inbForm.of /\ closed.open = no
    BY <1>1, <2>4
  <2>7. /\ r \in InboundSaves /\ r.stage = "rows" /\ r.of = i /\ r.rows = s.rows
        /\ r.faithful = s.faithful /\ r.host = s.host
    <3>1. r1 \in InboundSaves /\ r1.stage = "rows" /\ r1.rows = s.rows
          /\ r1.faithful = s.faithful /\ r1.host = s.host
      BY <1>2 DEF InboundSaves
    <3> HIDE DEF r1
    <3> QED  BY <1>3, <3>1 DEF InboundSaves
  <2> HIDE DEF closed, r
  <2>8. /\ DOMAIN inboundsStored' = DOMAIN inboundsStored \cup {i} /\ inboundsStored'[i] = record
        /\ \A x \in DOMAIN inboundsStored : x # i => inboundsStored'[x] = inboundsStored[x]
    BY <2>1
  <2>9. /\ inbForm' \in [open: BOOLEAN, mode: {"add", "edit"}, of: Masters \cup {NoMaster}]
        /\ inbForm'.mode = inbForm.mode /\ inbForm'.of = inbForm.of
    BY <2>1, <2>4, <2>6
  <2>10. FormShape'
    BY <1>1, <1>3, <2>8, <2>9 DEF FormKnows, FormShape
  <2>11. AlibiKept'
    BY <1>1 DEF FormKnows, AlibiKept
  <2>12. RowsTyped'
    BY <1>1, <2>2, <2>3, <2>8 DEF FormKnows, RowsTyped
  <2>13. SaveSent'
    <3>1. CASE s.host
      <4>1. s.faithful => s.rows = inboundsStored[i].rows /\ inboundsStored'[i] = inboundsStored[i]
        BY <1>1, <1>3, <2>5, <2>8, <3>1 DEF SaveOnItsWay
      <4>2. i # NoMaster
        BY <1>3, MoreConstants
      <4>3. inbSaving' = r
        BY <2>1, <3>1
      <4> QED  BY <2>7, <2>8, <4>1, <4>2, <4>3 DEF SaveSent, SaveOnItsWay
    <3>2. CASE ~s.host
      BY <2>1, <3>2 DEF SaveSent
    <3> QED  BY <3>1, <3>2
  <2>14. ~EditShown'
    <3>1. CASE s.host
      BY <2>1, <2>7, <3>1 DEF EditShown
    <3>2. CASE ~s.host
      BY <1>1, <2>1, <2>6, <3>2 DEF EditShown
    <3> QED  BY <3>1, <3>2
  <2>15. InboundKept
    BY <2>5, <2>8 DEF InboundKept
  <2> QED  BY <2>10, <2>11, <2>12, <2>13, <2>14, <2>15 DEF FormKnows, FieldsAsOpened, RowsAsLoaded
<1> QED  BY <1>4, <1>5

LEMMA RowsSavedKnows ==
  ASSUME FormInv, FormKnows, NEW ok \in BOOLEAN, saveFallbacks(ok)
  PROVE  FormKnows' /\ InboundKept
<1> DEFINE s == inbSaving
           no == FALSE
           closed == [inbForm EXCEPT !.open = no]
           i == s.of
           q == s.rows
<1>1. /\ UNCHANGED <<nodesKnown, inbFields, rows_, loadsAsked, keysAsked, inbAlibi>>
      /\ s.stage = "rows" /\ SaveOnItsWay(s) /\ no \in BOOLEAN /\ ~no
      /\ inbSaving' = NoSave /\ inbForm' = closed
  BY DEF saveFallbacks, NoSave, FormKnows, SaveSent
<1>2. i \in DOMAIN inboundsStored /\ q \in Seq(Targets)
      /\ (s.faithful => q = inboundsStored[i].rows)
  BY <1>1 DEF SaveOnItsWay, InboundSaves
<1>3. UNCHANGED inboundsStored \/ inboundsStored' = [inboundsStored EXCEPT ![i].rows = q]
  BY DEF saveFallbacks
<1>4. StoredInbound(inboundsStored[i])
  BY <1>2 DEF FormInv
<1>5. inbForm \in [open: BOOLEAN, mode: {"add", "edit"}, of: Masters \cup {NoMaster}]
  BY DEF FormKnows, FormShape
<1> HIDE DEF no, i, q
<1>6. /\ closed \in [open: BOOLEAN, mode: {"add", "edit"}, of: Masters \cup {NoMaster}]
      /\ closed.mode = inbForm.mode /\ closed.of = inbForm.of /\ closed.open = no
  BY <1>1, <1>5
<1> HIDE DEF closed
<1>7. /\ DOMAIN inboundsStored' = DOMAIN inboundsStored
      /\ \A x \in DOMAIN inboundsStored : x # i => inboundsStored'[x] = inboundsStored[x]
      /\ inboundsStored'[i].rows \in Seq(Targets)
      /\ s.faithful => inboundsStored'[i] = inboundsStored[i]
  <2> DEFINE g == inboundsStored[i]
             h == [g EXCEPT !.rows = q]
  <2>1. g = [protocol |-> g.protocol, stream |-> g.stream, strategy |-> g.strategy, rows |-> g.rows]
        /\ g.rows \in Seq(Targets)
    BY <1>2, <1>4 DEF StoredInbound, FormKnows, RowsTyped
  <2>2. inboundsStored' = inboundsStored \/ inboundsStored' = [inboundsStored EXCEPT ![i] = h]
    BY <1>3
  <2> HIDE DEF g
  <2>3. h.rows = q /\ (q = g.rows => h = g)
    BY <2>1
  <2> HIDE DEF h
  <2> QED  BY <1>2, <2>1, <2>2, <2>3 DEF g
<1>8. FormShape'
  BY <1>1, <1>6, <1>7 DEF FormKnows, FormShape
<1>9. RowsTyped'
  BY <1>1, <1>7 DEF FormKnows, RowsTyped
<1>10. AlibiKept' /\ SaveSent' /\ ~EditShown'
  BY <1>1, <1>6 DEF FormKnows, AlibiKept, SaveSent, EditShown
<1>11. InboundKept
  BY <1>7 DEF InboundKept
<1> QED  BY <1>8, <1>9, <1>10, <1>11 DEF FormKnows, FieldsAsOpened, RowsAsLoaded

LEMMA FormKnowsStutter == FormKnows /\ UNCHANGED inbVars => FormKnows'
BY DEF FormKnows, FormShape, AlibiKept, RowsTyped, SaveSent, SaveOnItsWay, FieldsAsOpened,
       RowsAsLoaded, EditShown, Unoffered, inbVars

LEMMA FormKnowsStep ==
  ASSUME FormInv, FormKnows, InboundFormNext
  PROVE  FormKnows' /\ InboundKept
<1>1. CASE \E ok \in BOOLEAN : InboundAnswered(ok) \/ saveFallbacks(ok)
  BY <1>1, AnswerKnows, RowsSavedKnows
<1>2. CASE NodesArrive \/ Rendered
  BY <1>2, NodesKnow DEF NodesArrive, Rendered, InboundKept
<1>3. CASE onAddInbound
  BY <1>3, AddOpens DEF onAddInbound, NewDialog, InboundKept
<1>4. CASE CloseInboundForm
  BY <1>4, CloseKnows DEF CloseInboundForm, InboundKept
<1>5. ASSUME NEW i \in Masters, openEdit(i) PROVE FormKnows' /\ InboundKept
  BY <1>5, EditOpens DEF openEdit, NewDialog, InboundKept
<1>6. ASSUME NEW i \in Masters, loadFallbacks(i) PROVE FormKnows' /\ InboundKept
  BY <1>6, LoadKnows DEF loadFallbacks, InboundKept
<1>7. ASSUME NEW f, SetFields(f), Typed, keysAsked' \in {keysAsked, keysAsked \cup {inbAlibi.dialog}}
      PROVE  FormKnows' /\ InboundKept
  BY <1>7, FieldTyped DEF SetFields, InboundKept
<1>8. ASSUME NEW n \in Networks, ChangeNetwork(n) PROVE FormKnows' /\ InboundKept
  BY <1>7, <1>8 DEF ChangeNetwork
<1>9. ASSUME NEW c \in Secured \cup {"none"}, onSecurityChange(c) PROVE FormKnows' /\ InboundKept
  <2>1. Typed /\ keysAsked' \in {keysAsked, keysAsked \cup {inbAlibi.dialog}}
    BY <1>9 DEF onSecurityChange
  <2>2. \E f : SetFields(f)
    BY <1>9 DEF onSecurityChange
  <2> QED  BY <1>7, <2>1, <2>2
<1>10. ASSUME NEW d \in keysAsked, NEW ok \in BOOLEAN, KeyAnswered(d, ok)
       PROVE  FormKnows' /\ InboundKept
  BY <1>10, KeyKnows DEF KeyAnswered, InboundKept
<1>11. ASSUME NEW p \in Protocols, ChangeProtocol(p) PROVE FormKnows' /\ InboundKept
  <2>1. Typed /\ keysAsked' = keysAsked
    BY <1>11 DEF ChangeProtocol
  <2>2. \E f : SetFields(f)
    BY <1>11 DEF ChangeProtocol
  <2> QED  BY <1>7, <2>1, <2>2
<1>12. ASSUME NEW c \in {"node", "listen"}, EditStrategy(c) PROVE FormKnows' /\ InboundKept
  BY <1>7, <1>12 DEF EditStrategy
<1>13. CASE genRealityKeypair
  BY <1>7, <1>13 DEF genRealityKeypair
<1>14. CASE EditTransport \/ EditTls \/ EditReality \/ EditSockopt
  BY <1>7, <1>14 DEF EditTransport, EditTls, EditReality, EditSockopt, EditSlice
<1>15. CASE toggleSockopt
  BY <1>7, <1>15 DEF toggleSockopt
<1>16. CASE addFallback \/ updateFallback \/ removeFallback \/ moveFallback \/ addAllFallbacks
  <2>1. inboundsStored' = inboundsStored
    BY <1>16 DEF addFallback, updateFallback, removeFallback, moveFallback, addAllFallbacks, SetRows
  <2> QED  BY <1>16, <2>1, CardKnows DEF InboundKept
<1>17. CASE submit
  BY <1>17, SaveKnows DEF submit, InboundKept
<1> QED
  BY <1>1, <1>2, <1>3, <1>4, <1>5, <1>6, <1>8, <1>9, <1>10, <1>11, <1>12, <1>13, <1>14,
     <1>15, <1>16, <1>17 DEF InboundFormNext

\* Every record of the form and of what is stored has its type.
LEMMA FormKnowsTypes ==
  ASSUME FormInv, FormKnows PROVE InboundFormTypeOK
<1>1. \A i \in DOMAIN inboundsStored :
        FieldsOf(i) \in Fields /\ ToSet(inboundsStored[i].rows) \subseteq Targets
  BY FieldsOfIs DEF FormKnows, RowsTyped, ToSet
<1>2. ToSet(rows_) \subseteq Targets \cup {Nowhere}
  BY DEF FormKnows, RowsTyped, ToSet
<1> QED  BY <1>1, <1>2 DEF InboundFormTypeOK, FormInv, FormOneTransport, FormKnows, FormShape

-----------------------------------------------------------------------------
(* The plain controls of the template. *)

BasicsInv ==
  /\ {"metrics", "stats"} \subseteq DOMAIN tt
  /\ MetricsHaveStats

\* An edit of a part that is neither leaves the metrics and the stats.
LeavesMetrics(t, u) ==
  DOMAIN u = DOMAIN t /\ u.metrics = t.metrics /\ u.stats = t.stats

LEMMA PartEdited ==
  ASSUME NEW t, {"metrics", "stats"} \subseteq DOMAIN t, NEW v, NEW part, part \notin {"metrics", "stats"}
  PROVE  LeavesMetrics(t, [t EXCEPT ![part] = v])
BY DEF LeavesMetrics

LEMMA RulesSetLeaveMetrics ==
  ASSUME {"metrics", "stats"} \subseteq DOMAIN tt, NEW tag, NEW p, NEW data
  PROVE  LeavesMetrics(tt, ruleSetter(tt, tag, p, data))
<1>1. \E v : ruleSetter(tt, tag, p, data) = tt \/ ruleSetter(tt, tag, p, data) = [tt EXCEPT !.rules = v]
  BY DEF ruleSetter
<1> QED  BY <1>1, PartEdited DEF LeavesMetrics

LEMMA OutboundSyncLeavesMetrics ==
  ASSUME NEW t, {"metrics", "stats"} \subseteq DOMAIN t, NEW tag
  PROVE  LeavesMetrics(t, syncOutbound(t, tag))
<1>1. \E v, w : syncOutbound(t, tag) = t \/ syncOutbound(t, tag) = [t EXCEPT !.outbounds = v, !.direct = w]
  BY ZenonT(60) DEF syncOutbound
<1> QED  BY <1>1, PartEdited DEF LeavesMetrics

LEMMA WithDirectLeavesMetrics ==
  ASSUME {"metrics", "stats"} \subseteq DOMAIN tt
  PROVE  LeavesMetrics(tt, WithDirect(tt))
BY DEF WithDirect, LeavesMetrics

LEMMA BasicsInvInit == BasicsInit => BasicsInv
<1>1. /\ {"metrics", "stats", "rules", "routing", "log", "direct", "outbounds", "observer", "burst"} \subseteq DOMAIN Shipped
      /\ Shipped.stats = TRUE
  BY DEF Shipped
<1> HIDE DEF Shipped
<1>2. SUFFICES ASSUME BasicsInit PROVE BasicsInv
  OBVIOUS
<1>3. CASE tt = Shipped
  BY <1>1, <1>3 DEF BasicsInv, MetricsHaveStats
<1>4. CASE tt = [Shipped EXCEPT !.outbounds = <<"other", "direct", "blocked">>,
                   !.rules = Append(@, NewRule("direct", "domain", <<"private">>)),
                   !.direct = [@ EXCEPT !.otherSockopt = TRUE, !.strategy = "UseIP"],
                   !.observer = [subjects |-> "s", probe |-> Missing],
                   !.burst = [subjects |-> "s", ping |-> "p", sampling |-> 1]]
  <2>1. tt.stats = TRUE /\ {"metrics", "stats"} \subseteq DOMAIN tt
    BY <1>1, <1>4
  <2> QED  BY <2>1 DEF BasicsInv, MetricsHaveStats
<1>5. CASE tt = [Shipped EXCEPT !.rules = <<[NewRule("blocked", "ip", <<"private">>) EXCEPT !.domain = <<"private">>],
                                           NewRule("blocked", "ip", <<"bittorrent">>)>>]
  <2>1. tt.stats = TRUE /\ {"metrics", "stats"} \subseteq DOMAIN tt
    BY <1>1, <1>5
  <2> QED  BY <2>1 DEF BasicsInv, MetricsHaveStats
<1>6. CASE tt = [Shipped EXCEPT !.rules = Missing, !.routing = Missing, !.log = Missing, !.metrics = Missing,
                   !.stats = FALSE, !.direct = Missing, !.outbounds = <<"other">>]
  <2>1. tt.metrics = Missing /\ {"metrics", "stats"} \subseteq DOMAIN tt
    BY <1>1, <1>6
  <2> QED  BY <2>1 DEF BasicsInv, MetricsHaveStats
<1> QED  BY <1>2, <1>3, <1>4, <1>5, <1>6 DEF BasicsInit

LEMMA BasicsInvStep ==
  ASSUME BasicsInv, BasicsNext
  PROVE  BasicsInv'
<1>0. {"metrics", "stats"} \subseteq DOMAIN tt /\ MetricsHaveStats
  BY DEF BasicsInv
<1>a. ASSUME LeavesMetrics(tt, tt') PROVE BasicsInv'
  BY <1>0, <1>a DEF LeavesMetrics, BasicsInv, MetricsHaveStats
<1>1. ASSUME NEW l \in Lists, EditList(l[1], l[2]) PROVE BasicsInv'
  <2>1. PICK data : LET t == ruleSetter(tt, l[1], l[2], data)
                    IN tt' = IF l[1] = "blocked" THEN t ELSE syncOutbound(t, l[1])
    BY <1>1 DEF EditList
  <2> DEFINE t == ruleSetter(tt, l[1], l[2], data)
  <2>2. LeavesMetrics(tt, t)
    BY <1>0, RulesSetLeaveMetrics
  <2>3. tt' = t \/ tt' = syncOutbound(t, l[1])
    BY <2>1
  <2> HIDE DEF t
  <2>4. LeavesMetrics(t, syncOutbound(t, l[1]))
    BY <1>0, <2>2, OutboundSyncLeavesMetrics DEF LeavesMetrics
  <2>5. LeavesMetrics(tt, tt')
    BY <2>2, <2>3, <2>4 DEF LeavesMetrics
  <2> QED  BY <1>a, <2>5
<1>2. ASSUME NEW v, PickFreedomStrategy(v) \/ setDirectHappyEyeballs(v) PROVE BasicsInv'
  <2>1. \E w : tt' = [WithDirect(tt) EXCEPT !.direct = w]
    BY <1>2 DEF PickFreedomStrategy, setDirectHappyEyeballs, mutate
  <2>2. LeavesMetrics(tt, WithDirect(tt))
    BY <1>0, WithDirectLeavesMetrics
  <2>3. LeavesMetrics(tt, tt')
    BY <1>0, <2>1, <2>2 DEF LeavesMetrics
  <2> QED  BY <1>a, <2>3
<1>3. ASSUME NEW v, PickRoutingStrategy(v) \/ PickLogLevel(v) \/ setLevel0(v) \/ SwitchStatistic(v)
                    \/ patchObservatory \/ patchPingConfig
      PROVE  BasicsInv'
  <2>1. LeavesMetrics(tt, tt')
    BY <1>0, <1>3 DEF PickRoutingStrategy, PickLogLevel, setLevel0, SwitchStatistic, patchObservatory,
                      patchPingConfig, mutate, LeavesMetrics
  <2> QED  BY <1>a, <2>1
<1>4. ASSUME NEW field \in MetricsFields, NEW v \in LevelValues, setMetrics(field, v) PROVE BasicsInv'
  <2>1. PICK gone \in BOOLEAN : \E m :
          tt' = [tt EXCEPT !.metrics = IF gone THEN Missing ELSE m, !.stats = tt.stats \/ ~ gone]
    <3> DEFINE was == IF tt.metrics = Missing THEN [tag |-> Missing, listen |-> Missing] ELSE tt.metrics
               m == [was EXCEPT ![field] = v]
               gone == m = [tag |-> Missing, listen |-> Missing]
    <3>1. tt' = [tt EXCEPT !.metrics = IF gone THEN Missing ELSE m, !.stats = @ \/ ~ gone]
      BY <1>4 DEF setMetrics, mutate
    <3>2. gone \in BOOLEAN
      OBVIOUS
    <3> HIDE DEF gone, m
    <3>3. tt' = [tt EXCEPT !.metrics = IF gone THEN Missing ELSE m, !.stats = tt.stats \/ ~ gone]
      BY <1>0, <3>1, <3>2
    <3> QED  BY <3>2, <3>3
  <2> QED  BY <1>0, <2>1 DEF BasicsInv, MetricsHaveStats
<1> QED  BY <1>1, <1>2, <1>3, <1>4 DEF BasicsNext

LEMMA BasicsInvStutter == BasicsInv /\ UNCHANGED basicsVars => BasicsInv'
BY DEF BasicsInv, basicsVars, MetricsHaveStats

-----------------------------------------------------------------------------
(* The outbounds of the template: no tag twice, and the settings of the     *)
(* direct one with its tag.                                                 *)

Distinct(s) == \A i, j \in DOMAIN s : s[i] = s[j] => i = j

SoundOutbounds(outbounds, direct) ==
  /\ outbounds \in Seq(OutboundTags) /\ Distinct(outbounds)
  /\ direct \in DirectSettings \cup {Missing}
  /\ direct # Missing <=> "direct" \in ToSet(outbounds)

OutboundsSound ==
  /\ {"rules", "outbounds", "direct"} \subseteq DOMAIN tt
  /\ SoundOutbounds(tt.outbounds, tt.direct)

LEMMA DistinctCounted ==
  ASSUME NEW S, NEW s \in Seq(S), Distinct(s)
  PROVE  Cardinality(ToSet(s)) = Len(s)
<1>1. Len(s) \in Nat /\ DOMAIN s = 1..Len(s)
  OBVIOUS
<1>2. s \in Bijection(1..Len(s), ToSet(s))
  <2>1. s \in [1..Len(s) -> ToSet(s)]
    BY <1>1 DEF ToSet
  <2>2. \A i, j \in 1..Len(s) : s[i] = s[j] => i = j
    BY <1>1 DEF Distinct
  <2>3. \A v \in ToSet(s) : \E i \in 1..Len(s) : s[i] = v
    BY <1>1 DEF ToSet
  <2> QED  BY <2>1, <2>2, <2>3 DEF Bijection, Injection, Surjection, IsInjective
<1>3. ExistsBijection(1..Len(s), ToSet(s))
  BY <1>2 DEF ExistsBijection
<1> QED  BY <1>1, <1>3, FS_CountingElements

LEMMA OneMore ==
  ASSUME NEW s \in Seq(OutboundTags), Distinct(s), NEW tag \in OutboundTags, tag \notin ToSet(s)
  PROVE  /\ Append(s, tag) \in Seq(OutboundTags) /\ Distinct(Append(s, tag))
         /\ ToSet(Append(s, tag)) = ToSet(s) \cup {tag}
<1> DEFINE u == Append(s, tag)
<1>1. /\ u \in Seq(OutboundTags) /\ Len(u) = Len(s) + 1 /\ Len(s) \in Nat
      /\ DOMAIN s = 1..Len(s) /\ DOMAIN u = 1..(Len(s) + 1)
      /\ \A i \in DOMAIN s : u[i] = s[i]
      /\ u[Len(s) + 1] = tag
  OBVIOUS
<1> HIDE DEF u
<1>2. \A i \in DOMAIN u : i \in DOMAIN s \/ i = Len(s) + 1
  BY <1>1
<1>3. \A i \in DOMAIN s : s[i] # tag
  BY DEF ToSet
<1>4. Distinct(u)
  BY <1>1, <1>2, <1>3 DEF Distinct
<1>5. ToSet(u) = ToSet(s) \cup {tag}
  BY <1>1, <1>2 DEF ToSet
<1> QED  BY <1>1, <1>4, <1>5 DEF u

LEMMA OneLess ==
  ASSUME NEW s \in Seq(OutboundTags), Distinct(s), NEW k \in DOMAIN s
  PROVE  /\ RemoveAt(s, k) \in Seq(OutboundTags) /\ Distinct(RemoveAt(s, k))
         /\ ToSet(RemoveAt(s, k)) = ToSet(s) \ {s[k]}
<1> DEFINE u == RemoveAt(s, k)
           a == SubSeq(s, 1, k - 1)
           b == SubSeq(s, k + 1, Len(s))
<1>1. Len(s) \in Nat /\ DOMAIN s = 1..Len(s) /\ k \in 1..Len(s)
  OBVIOUS
<1>2. /\ a \in Seq(OutboundTags) /\ Len(a) = k - 1 /\ DOMAIN a = 1..(k - 1)
      /\ \A i \in 1..(k - 1) : a[i] = s[i]
  BY <1>1
<1>3. /\ b \in Seq(OutboundTags) /\ Len(b) = Len(s) - k
      /\ \A i \in 1..(Len(s) - k) : b[i] = s[i + k]
  BY <1>1
<1>4. u = a \o b
  BY DEF RemoveAt
<1> HIDE DEF a, b, u
<1>c. /\ u \in Seq(OutboundTags) /\ Len(u) = Len(a) + Len(b)
      /\ \A i \in 1..(Len(a) + Len(b)) : u[i] = IF i <= Len(a) THEN a[i] ELSE b[i - Len(a)]
  <2>1. a \in Seq(OutboundTags) /\ b \in Seq(OutboundTags)
    BY <1>2, <1>3
  <2>2. u \in Seq(OutboundTags)
    BY <2>1, <1>4
  <2> QED  BY <2>1, <2>2, <1>4, ConcatProperties
<1>5. /\ u \in Seq(OutboundTags) /\ Len(u) = Len(s) - 1 /\ DOMAIN u = 1..(Len(s) - 1)
      /\ \A i \in 1..(k - 1) : u[i] = s[i]
      /\ \A i \in k..(Len(s) - 1) : u[i] = s[i + 1]
  <2>1. /\ u \in Seq(OutboundTags) /\ Len(u) = Len(s) - 1 /\ DOMAIN u = 1..(Len(s) - 1)
    BY <1>1, <1>2, <1>3, <1>c
  <2>2. ASSUME NEW i \in 1..(k - 1) PROVE u[i] = s[i]
    BY <1>1, <1>2, <1>3, <1>c
  <2>3. ASSUME NEW i \in k..(Len(s) - 1) PROVE u[i] = s[i + 1]
    <3>0. i \in (Len(a) + 1)..(Len(a) + Len(b))
      BY <1>1, <1>2, <1>3
    <3>1. u[i] = b[i - (k - 1)]
      BY <3>0, <1>1, <1>2, <1>3, <1>c, SMTT(30)
    <3>2. i - (k - 1) \in 1..(Len(s) - k) /\ i - (k - 1) + k = i + 1
      BY <1>1
    <3> QED  BY <3>1, <3>2, <1>3
  <2> QED  BY <2>1, <2>2, <2>3
<1>6. \A i \in DOMAIN u : \E j \in DOMAIN s : j # k /\ u[i] = s[j] /\ j = IF i < k THEN i ELSE i + 1
  BY <1>1, <1>5
<1>7. \A j \in DOMAIN s \ {k} : \E i \in DOMAIN u : u[i] = s[j]
  <2> SUFFICES ASSUME NEW j \in DOMAIN s, j # k PROVE \E i \in DOMAIN u : u[i] = s[j]
    OBVIOUS
  <2>1. CASE j < k
    BY <1>1, <1>5, <2>1
  <2>2. CASE j > k
    <3>1. j - 1 \in k..(Len(s) - 1) /\ j - 1 + 1 = j
      BY <1>1, <2>2
    <3> QED  BY <1>1, <1>5, <3>1
  <2> QED  BY <1>1, <2>1, <2>2
<1>8. Distinct(u)
  <2> SUFFICES ASSUME NEW i \in DOMAIN u, NEW j \in DOMAIN u, u[i] = u[j] PROVE i = j
    BY DEF Distinct
  <2>1. PICK p \in DOMAIN s : u[i] = s[p] /\ p = IF i < k THEN i ELSE i + 1
    BY <1>6
  <2>2. PICK q \in DOMAIN s : u[j] = s[q] /\ q = IF j < k THEN j ELSE j + 1
    BY <1>6
  <2>3. p = q
    BY <2>1, <2>2 DEF Distinct
  <2> QED  BY <1>1, <1>5, <2>1, <2>2, <2>3
<1>9. ToSet(u) = ToSet(s) \ {s[k]}
  <2>1. \A v \in ToSet(u) : v \in ToSet(s) /\ v # s[k]
    BY <1>6 DEF ToSet, Distinct
  <2>2. \A v \in ToSet(s) : v # s[k] => v \in ToSet(u)
    BY <1>7 DEF ToSet
  <2> QED  BY <2>1, <2>2 DEF ToSet
<1> QED  BY <1>5, <1>8, <1>9 DEF u

LEMMA DirectConstants ==
  /\ Missing \notin DirectSettings
  /\ directSettings \in DirectSettings
  /\ \A d \in DirectSettings : \A s \in {"AsIs", "UseIP"}, h \in {Missing, "on"} :
       [d EXCEPT !.strategy = s] \in DirectSettings /\ [d EXCEPT !.happy = h] \in DirectSettings
BY BasicsAssumption DEF DirectSettings, directSettings

LEMMA SyncKeepsOutbounds ==
  ASSUME NEW t, {"rules", "outbounds", "direct"} \subseteq DOMAIN t, SoundOutbounds(t.outbounds, t.direct),
         NEW tag \in {"direct", "IPv4"}
  PROVE  LET u == syncOutbound(t, tag)
         IN {"rules", "outbounds", "direct"} \subseteq DOMAIN u /\ SoundOutbounds(u.outbounds, u.direct)
<1> DEFINE u == syncOutbound(t, tag)
           used == \E i \in DOMAIN t.rules : t.rules[i].outboundTag = tag
           there == tag \in ToSet(t.outbounds)
           first == t.outbounds[1] = tag
           k == CHOOSE i \in DOMAIN t.outbounds : t.outbounds[i] = tag
           outs == IF used /\ ~there THEN Append(t.outbounds, tag)
                   ELSE IF ~used /\ there /\ ~first THEN RemoveAt(t.outbounds, k)
                   ELSE t.outbounds
           dir == IF tag = "direct" /\ used # there /\ ~(there /\ first)
                  THEN (IF used THEN directSettings ELSE Missing) ELSE t.direct
<1>1. CASE t.rules = Missing
  BY <1>1 DEF syncOutbound
<1>2. CASE t.rules # Missing
  <2>1. u = [t EXCEPT !.outbounds = outs, !.direct = dir]
    BY <1>2 DEF syncOutbound
  <2>2. tag \in OutboundTags
    BY DEF OutboundTags
  <2>3. there => k \in DOMAIN t.outbounds /\ t.outbounds[k] = tag
    BY DEF ToSet
  <2>4. used \in BOOLEAN /\ there \in BOOLEAN
    OBVIOUS
  <2>5. SoundOutbounds(outs, dir)
    <3> HIDE DEF used, k
    <3>0. t.outbounds \in Seq(OutboundTags) /\ Distinct(t.outbounds)
      BY DEF SoundOutbounds
    <3>1. CASE used /\ ~there
      <4>1. outs = Append(t.outbounds, tag)
        BY <3>1
      <4>2. dir = IF tag = "direct" THEN directSettings ELSE t.direct
        BY <3>1
      <4>3. /\ outs \in Seq(OutboundTags) /\ Distinct(outs)
            /\ ToSet(outs) = ToSet(t.outbounds) \cup {tag}
        BY <4>1, <3>0, <3>1, <2>2, OneMore
      <4> HIDE DEF outs, dir
      <4> QED  BY <4>2, <4>3, <3>1, DirectConstants DEF SoundOutbounds
    <3>2. CASE ~used /\ there /\ ~first
      <4>1. outs = RemoveAt(t.outbounds, k)
        BY <3>2
      <4>2. dir = IF tag = "direct" THEN Missing ELSE t.direct
        BY <3>2
      <4>3. /\ outs \in Seq(OutboundTags) /\ Distinct(outs)
            /\ ToSet(outs) = ToSet(t.outbounds) \ {tag}
        BY <4>1, <3>0, <3>2, <2>3, OneLess
      <4> HIDE DEF outs, dir
      <4> QED  BY <4>2, <4>3, <3>2, DirectConstants DEF SoundOutbounds
    <3>3. CASE ~(used /\ ~there) /\ ~(~used /\ there /\ ~first)
      <4>1. outs = t.outbounds
        BY <3>3
      <4>2. dir = t.direct
        BY <3>3, <2>4
      <4> QED  BY <4>1, <4>2
    <3> QED  BY <3>1, <3>2, <3>3
  <2> HIDE DEF outs, dir, u
  <2>6. DOMAIN u = DOMAIN t /\ u.outbounds = outs /\ u.direct = dir
    BY <2>1
  <2> QED  BY <2>5, <2>6 DEF u
<1> QED  BY <1>1, <1>2

LEMMA DirectIsThere ==
  ASSUME OutboundsSound
  PROVE  LET u == WithDirect(tt)
         IN /\ {"rules", "outbounds", "direct"} \subseteq DOMAIN u /\ SoundOutbounds(u.outbounds, u.direct)
            /\ u.direct \in DirectSettings
<1>1. CASE tt.direct # Missing
  BY <1>1 DEF WithDirect, OutboundsSound, SoundOutbounds
<1>2. CASE tt.direct = Missing
  <2>1. WithDirect(tt) = [tt EXCEPT !.outbounds = Append(tt.outbounds, "direct"), !.direct = directSettings]
    BY <1>2 DEF WithDirect
  <2>2. /\ Append(tt.outbounds, "direct") \in Seq(OutboundTags) /\ Distinct(Append(tt.outbounds, "direct"))
        /\ ToSet(Append(tt.outbounds, "direct")) = ToSet(tt.outbounds) \cup {"direct"}
    <3>1. "direct" \in OutboundTags
      BY DEF OutboundTags
    <3> QED  BY <1>2, <3>1, OneMore DEF OutboundsSound, SoundOutbounds
  <2> DEFINE u == WithDirect(tt)
  <2>3. DOMAIN u = DOMAIN tt /\ u.outbounds = Append(tt.outbounds, "direct") /\ u.direct = directSettings
    BY <2>1 DEF OutboundsSound
  <2> HIDE DEF u
  <2>4. SoundOutbounds(u.outbounds, u.direct) /\ u.direct \in DirectSettings
    BY <2>2, <2>3, DirectConstants DEF SoundOutbounds
  <2> QED  BY <2>3, <2>4 DEF u, OutboundsSound
<1> QED  BY <1>1, <1>2

LEMMA OutboundsSoundInit == BasicsInit => OutboundsSound
<1> SUFFICES ASSUME BasicsInit PROVE OutboundsSound
  OBVIOUS
<1> DEFINE two == <<"direct", "blocked">>
           three == <<"other", "direct", "blocked">>
           one == <<"other">>
<1>1. SoundOutbounds(two, directSettings)
  <2>1. two \in Seq(OutboundTags) /\ Distinct(two)
    BY DEF OutboundTags, Distinct
  <2>2. two[1] = "direct" /\ 1 \in DOMAIN two
    OBVIOUS
  <2> HIDE DEF two
  <2> QED  BY <2>1, <2>2, DirectConstants DEF SoundOutbounds, ToSet
<1>2. ASSUME NEW d \in DirectSettings PROVE SoundOutbounds(three, d)
  <2>1. three \in Seq(OutboundTags) /\ Distinct(three)
    BY DEF OutboundTags, Distinct
  <2>2. three[2] = "direct" /\ 2 \in DOMAIN three
    OBVIOUS
  <2> HIDE DEF three
  <2> QED  BY <2>1, <2>2, <1>2, DirectConstants DEF SoundOutbounds, ToSet
<1>3. SoundOutbounds(one, Missing)
  <2>1. one \in Seq(OutboundTags) /\ Distinct(one)
    BY DEF OutboundTags, Distinct
  <2>2. \A i \in DOMAIN one : one[i] # "direct"
    OBVIOUS
  <2> HIDE DEF one
  <2> QED  BY <2>1, <2>2 DEF SoundOutbounds, ToSet
<1> DEFINE other == [directSettings EXCEPT !.otherSockopt = TRUE, !.strategy = "UseIP"]
<1>4. other \in DirectSettings
  BY DEF directSettings, DirectSettings
<1>5. /\ DOMAIN Shipped = {"rules", "outbounds", "direct", "routing", "log", "metrics", "stats", "policy", "observer", "burst"}
      /\ Shipped.outbounds = two /\ Shipped.direct = directSettings
  BY DEF Shipped
<1> HIDE DEF Shipped, two, three, one, other
<1>6. {"rules", "outbounds", "direct"} \subseteq DOMAIN tt
  BY <1>5 DEF BasicsInit
<1>7. \/ tt.outbounds = two /\ tt.direct = directSettings
      \/ tt.outbounds = three /\ tt.direct = other
      \/ tt.outbounds = one /\ tt.direct = Missing
  BY <1>5 DEF BasicsInit, one, three, other
<1> QED  BY <1>1, <1>2, <1>3, <1>4, <1>6, <1>7 DEF OutboundsSound

LEMMA OutboundsSoundStep ==
  ASSUME OutboundsSound, BasicsNext
  PROVE  OutboundsSound'
<1>0. {"rules", "outbounds", "direct"} \subseteq DOMAIN tt /\ SoundOutbounds(tt.outbounds, tt.direct)
  BY DEF OutboundsSound
<1>1. ASSUME NEW l \in Lists, EditList(l[1], l[2]) PROVE OutboundsSound'
  <2>1. PICK data : LET t == ruleSetter(tt, l[1], l[2], data)
                    IN tt' = IF l[1] = "blocked" THEN t ELSE syncOutbound(t, l[1])
    BY <1>1 DEF EditList
  <2> DEFINE t == ruleSetter(tt, l[1], l[2], data)
  <2>2. {"rules", "outbounds", "direct"} \subseteq DOMAIN t /\ SoundOutbounds(t.outbounds, t.direct)
    <3>1. \E v : t = tt \/ t = [tt EXCEPT !.rules = v]
      BY DEF ruleSetter
    <3> HIDE DEF t
    <3> QED  BY <1>0, <3>1
  <2>3. l[1] # "blocked" => l[1] \in {"direct", "IPv4"}
    BY DEF Lists
  <2>4. CASE l[1] = "blocked"
    BY <2>1, <2>2, <2>4 DEF OutboundsSound
  <2>5. CASE l[1] # "blocked"
    <3> HIDE DEF t
    <3>1. tt' = syncOutbound(t, l[1])
      BY <2>1, <2>5 DEF t
    <3> QED  BY <2>2, <2>3, <2>5, <3>1, SyncKeepsOutbounds DEF OutboundsSound
  <2> QED  BY <2>4, <2>5
<1>2. ASSUME NEW s \in {"AsIs", "UseIP"}, PickFreedomStrategy(s) PROVE OutboundsSound'
  <2> DEFINE u == WithDirect(tt)
  <2>1. tt' = [u EXCEPT !.direct = [u.direct EXCEPT !.strategy = s]]
    BY <1>2 DEF PickFreedomStrategy, mutate
  <2>2. /\ {"rules", "outbounds", "direct"} \subseteq DOMAIN u /\ SoundOutbounds(u.outbounds, u.direct)
        /\ u.direct \in DirectSettings
    BY DirectIsThere
  <2> HIDE DEF u
  <2> DEFINE d == [u.direct EXCEPT !.strategy = s]
  <2>3. d \in DirectSettings
    BY <2>2, DirectConstants
  <2> HIDE DEF d
  <2>4. DOMAIN tt' = DOMAIN u /\ tt'.outbounds = u.outbounds /\ tt'.direct = d
    BY <2>1, <2>2 DEF d
  <2> QED  BY <2>2, <2>3, <2>4, DirectConstants DEF OutboundsSound, SoundOutbounds
<1>3. ASSUME NEW h \in {Missing, "on"}, setDirectHappyEyeballs(h) PROVE OutboundsSound'
  <2> DEFINE u == WithDirect(tt)
  <2>1. tt' = [u EXCEPT !.direct = [u.direct EXCEPT !.happy = h]]
    BY <1>3 DEF setDirectHappyEyeballs, mutate
  <2>2. /\ {"rules", "outbounds", "direct"} \subseteq DOMAIN u /\ SoundOutbounds(u.outbounds, u.direct)
        /\ u.direct \in DirectSettings
    BY DirectIsThere
  <2> HIDE DEF u
  <2> DEFINE d == [u.direct EXCEPT !.happy = h]
  <2>3. d \in DirectSettings
    BY <2>2, DirectConstants
  <2> HIDE DEF d
  <2>4. DOMAIN tt' = DOMAIN u /\ tt'.outbounds = u.outbounds /\ tt'.direct = d
    BY <2>1, <2>2 DEF d
  <2> QED  BY <2>2, <2>3, <2>4, DirectConstants DEF OutboundsSound, SoundOutbounds
<1>4. ASSUME NEW v, PickRoutingStrategy(v) \/ PickLogLevel(v) \/ setLevel0(v) \/ SwitchStatistic(v)
                    \/ patchObservatory \/ patchPingConfig
      PROVE  OutboundsSound'
  <2>1. DOMAIN tt' = DOMAIN tt /\ tt'.outbounds = tt.outbounds /\ tt'.direct = tt.direct
    BY <1>0, <1>4 DEF PickRoutingStrategy, PickLogLevel, setLevel0, SwitchStatistic, patchObservatory,
                      patchPingConfig, mutate
  <2> QED  BY <1>0, <2>1 DEF OutboundsSound
<1>5. ASSUME NEW field \in MetricsFields, NEW v \in LevelValues, setMetrics(field, v) PROVE OutboundsSound'
  <2>1. \E m, st : tt' = [tt EXCEPT !.metrics = m, !.stats = st]
    BY <1>5 DEF setMetrics, mutate
  <2>2. DOMAIN tt' = DOMAIN tt /\ tt'.outbounds = tt.outbounds /\ tt'.direct = tt.direct
    BY <1>0, <2>1
  <2> QED  BY <1>0, <2>2 DEF OutboundsSound
<1> QED  BY <1>1, <1>2, <1>3, <1>4, <1>5 DEF BasicsNext

LEMMA OutboundsSoundStutter == OutboundsSound /\ UNCHANGED basicsVars => OutboundsSound'
BY DEF OutboundsSound, basicsVars

LEMMA BasicsTyped == OutboundsSound => BasicsTypeOK
BY DistinctCounted DEF OutboundsSound, SoundOutbounds, BasicsTypeOK

-----------------------------------------------------------------------------
(* The form of a client.  A save reads what the form was filled with and    *)
(* the server as it finds it, request by request; the invariant says what   *)
(* the two have in common at each of them.                                  *)

LeafRecord == {r \in ClientRecord : r.flows \subseteq r.ids \cap FlowCapable}
LeafFields == [email: Emails \cup {NoEmail}, sub: Nat, flow: BOOLEAN, limit: {n \in Nat : n % Step = 0},
               enable: BOOLEAN, ids: SUBSET Gateways, links: SUBSET Links]
SwitchedFields == [flow: BOOLEAN, limit: Nat, enable: BOOLEAN]
SaveStages == {"none", "create", "update", "attach", "detach", "links"}

ServerTyped ==
  /\ DOMAIN clients \subseteq Emails
  /\ \A e \in DOMAIN clients : clients[e] \in LeafRecord
  /\ \A ask \in hydrating : ask.email \in Emails /\ ask.row \in LeafRecord
  /\ optionsLoaded \in BOOLEAN /\ clientClicks \in Nat
  /\ toggling.stage = "update" => toggling.base \in SwitchedFields
FormTyped ==
  /\ clientForm \in [open: BOOLEAN, mode: {"add", "edit"},
                     email: Emails \cup {NoEmail}, ids: SUBSET Gateways]
  /\ clientFields \in LeafFields
  /\ clientAlibi \in [for: Emails \cup {NoEmail}, typed: Nat, blind: BOOLEAN,
                      halfway: BOOLEAN, disturbed: BOOLEAN, alone: BOOLEAN]
SaveTyped ==
  clientSaving \in [stage: SaveStages, edit: BOOLEAN, target: Emails \cup {NoEmail},
    fields: LeafFields, attach: SUBSET Gateways, detach: SUBSET Gateways,
    faithful: BOOLEAN, undisturbed: BOOLEAN, again: BOOLEAN]

\* A subscription id is of one addition: whoever has that of a dialog was made by it,
\* and has no links yet.
Bearers(sub) == {e \in DOMAIN clients : clients[e].sub = sub}
SubsSound ==
  /\ \A e \in DOMAIN clients : clients[e].sub = 0 \/ clients[e].sub < clientClicks
  /\ hydrating # {} => clientClicks > 0
  /\ clientForm.open /\ clientForm.mode = "add" =>
       /\ clientFields.sub <= clientClicks
       /\ \A e \in Bearers(clientFields.sub) : clients[e].links = {}
       /\ ~clientAlibi.halfway /\ ~(clientSaving.stage = "links" /\ ~clientSaving.edit) =>
            Bearers(clientFields.sub) = {}
  /\ clientSaving.stage = "create" =>
       /\ clientSaving.fields.sub < clientClicks
       /\ \A e \in Bearers(clientSaving.fields.sub) : clients[e].links = {}
       /\ ~clientSaving.again => Bearers(clientSaving.fields.sub) = {}

\* What the save under way has in common with the server.
Was(s) == (s.fields.ids \ s.attach) \cup s.detach
OnNow(s) == CASE s.stage = "attach" -> Was(s)
              [] s.stage = "detach" -> Was(s) \cup s.attach
              [] s.stage = "links" -> s.fields.ids
SaveShape(s) ==
  /\ s.fields.email \in Emails
  /\ s.fields.flow => TakeFlow(s.fields.ids)
  /\ s.attach \subseteq s.fields.ids /\ s.detach \cap s.fields.ids = {}
  /\ IF s.edit THEN s.stage # "create"
     ELSE s.stage \in {"create", "links"} /\ s.attach = {} /\ s.detach = {} /\ s.fields.ids # {}
Reached(r, s) ==
  /\ s.edit => r.enable = s.fields.enable
  /\ ~s.again => /\ r.ids = OnNow(s)
                 /\ Was(s) # {} => r.limit = s.fields.limit
                 /\ r.flows = IF s.fields.flow /\ TakeFlow(Was(s)) THEN r.ids \cap FlowCapable ELSE {}
SaveSound ==
  LET s == clientSaving IN
  /\ s.detach \cap s.fields.ids = {}
  /\ s.stage # "none" => SaveShape(s)
  /\ s.stage = "update" /\ s.undisturbed /\ ~s.again /\ Exists(s.target) =>
       clients[s.target].ids = Was(s)
  /\ s.stage \in {"attach", "detach", "links"} =>
       /\ Exists(s.fields.email)
       /\ s.undisturbed => Reached(clients[s.fields.email], s)

\* What an untouched form has in common with its client.
Like(r, f) ==
  /\ r.ids = f.ids /\ r.links = f.links /\ r.enable = f.enable /\ HasFlow(r) = f.flow
  /\ f.limit <= r.limit + Step \div 2 /\ r.limit <= f.limit + Step \div 2
FaithfulSound ==
  clientSaving.faithful =>
    /\ clientSaving.stage \in {"update", "links"} /\ clientSaving.edit
    /\ clientSaving.target = clientSaving.fields.email /\ Exists(clientSaving.target)
    /\ clientSaving.attach = {} /\ clientSaving.detach = {}
    /\ Like(clients[clientSaving.target], clientSaving.fields)

Undisturbed == clientForm.open /\ clientForm.mode = "edit" /\ ~clientAlibi.disturbed
FormSeen ==
  Undisturbed =>
    /\ clientForm.email = clientAlibi.for
    /\ ~clientAlibi.halfway /\ clientSaving.stage \in {"none", "update", "attach"}
         /\ Exists(clientForm.email) => clients[clientForm.email].ids = clientForm.ids
    /\ clientSaving.stage # "none" =>
         clientSaving.edit /\ clientSaving.target = clientForm.email
FormUntouched ==
  Undisturbed /\ clientAlibi.typed = 0 /\ ~clientAlibi.blind =>
    /\ optionsLoaded /\ Exists(clientForm.email)
    /\ Like(clients[clientForm.email], clientFields)
    /\ clientFields.ids = clientForm.ids /\ clientFields.email = clientForm.email
    /\ clientSaving.stage # "none" => clientSaving.faithful /\ clientSaving.fields = clientFields

FormBook ==
  /\ ServerTyped /\ FormTyped /\ SaveTyped
  /\ SubsSound /\ SaveSound /\ FaithfulSound /\ FormSeen /\ FormUntouched

\* No other row's record is awaited under a form that opened without one.
FormAlone ==
  clientForm.open /\ clientForm.mode = "edit" /\ clientAlibi.alone =>
    clientForm.email = clientAlibi.for /\ hydrating = {}

ClientFormInv == FormBook /\ FormAlone

LEMMA QuotientOf ==
  ASSUME NEW n \in Int, NEW d \in Int, d > 0
  PROVE  n = (n \div d) * d + (n % d)
BY SMTT(30)

LEMMA QuotientTyped ==
  ASSUME NEW n \in Nat, NEW d \in Nat \ {0}
  PROVE  n \div d \in Nat /\ n % d \in 0..(d - 1)
BY SMTT(30)

LEMMA MultipleOf ==
  ASSUME NEW q \in Nat, NEW d \in Nat \ {0}
  PROVE  (q * d) % d = 0
BY SMTT(30)

LEMMA ShownNear ==
  ASSUME NEW l \in Nat
  PROVE  /\ Shown(l) \in Nat /\ Shown(l) % Step = 0
         /\ Shown(l) <= l + Step \div 2 /\ l <= Shown(l) + Step \div 2
<1> DEFINE h == Step \div 2
           q == (l + h) \div Step
           r == (l + h) % Step
<1>1. Step \in Nat \ {0}
  BY ClientFormAssumption
<1>2. h \in Nat /\ Step <= 2 * h + 1
  BY <1>1
<1>3. q \in Nat /\ r \in 0..(Step - 1) /\ l + h = q * Step + r
  <2>1. l + h \in Nat /\ l + h \in Int /\ Step \in Int /\ Step > 0
    BY <1>1, <1>2
  <2> HIDE DEF h
  <2> QED  BY <2>1, <1>1, QuotientOf, QuotientTyped
<1>4. Shown(l) = q * Step
  BY DEF Shown
<1>5. Shown(l) \in Nat /\ Shown(l) % Step = 0
  <2> HIDE DEF q
  <2> QED  BY <1>1, <1>3, <1>4, MultipleOf
<1>6. Shown(l) + r = l + h
  <2> HIDE DEF q, r, h
  <2> QED  BY <1>1, <1>3, <1>4
<1> HIDE DEF h, q, r
<1>7. Shown(l) <= l + h /\ l <= Shown(l) + h
  BY <1>1, <1>2, <1>3, <1>5, <1>6
<1> QED  BY <1>5, <1>7 DEF h

LEMMA UpdatedIs ==
  ASSUME NEW r \in LeafRecord, NEW f \in LeafFields \cup SwitchedFields
  PROVE  LET u == Updated(r, f) IN
         /\ u \in LeafRecord
         /\ u.sub = r.sub /\ u.ids = r.ids /\ u.links = r.links /\ u.enable = f.enable
         /\ u.limit = IF r.ids = {} THEN r.limit ELSE f.limit
         /\ u.flows = IF f.flow THEN r.ids \cap FlowCapable ELSE {}
<1> DEFINE fl == IF f.flow THEN r.ids \cap FlowCapable ELSE {}
           li == IF r.ids = {} THEN r.limit ELSE f.limit
           en == f.enable
           u == [r EXCEPT !.flows = fl, !.limit = li, !.enable = en]
<1>0. f.flow \in BOOLEAN /\ f.limit \in Nat /\ f.enable \in BOOLEAN
  BY DEF LeafFields, SwitchedFields
<1>1. r \in ClientRecord /\ r.flows \subseteq r.ids \cap FlowCapable
  BY DEF LeafRecord
<1>2. fl \subseteq r.ids \cap FlowCapable /\ fl \in SUBSET Gateways /\ li \in Nat /\ en \in BOOLEAN
  BY <1>0, <1>1 DEF ClientRecord
<1>3. Updated(r, f) = u
  BY DEF Updated
<1>4. /\ u \in ClientRecord
      /\ u.sub = r.sub /\ u.ids = r.ids /\ u.links = r.links /\ u.enable = en
      /\ u.limit = li /\ u.flows = fl
  <2> HIDE DEF fl, li, en
  <2> QED  BY <1>1, <1>2 DEF ClientRecord
<1> HIDE DEF u
<1> QED  BY <1>2, <1>3, <1>4 DEF LeafRecord

LEMMA AttachedIs ==
  ASSUME NEW r \in LeafRecord, NEW new \in SUBSET Gateways
  PROVE  LET u == Attached(r, new) IN
         /\ u \in LeafRecord
         /\ u.sub = r.sub /\ u.links = r.links /\ u.enable = r.enable /\ u.limit = r.limit
         /\ u.ids = r.ids \cup new
         /\ u.flows = r.flows \cup (IF r.flows # {} THEN (new \ r.ids) \cap FlowCapable ELSE {})
<1> DEFINE fl == r.flows \cup (IF r.flows # {} THEN (new \ r.ids) \cap FlowCapable ELSE {})
           on == r.ids \cup new
           u == [r EXCEPT !.ids = on, !.flows = fl]
<1>1. r \in ClientRecord /\ r.flows \subseteq r.ids \cap FlowCapable
  BY DEF LeafRecord
<1>2. fl \subseteq on \cap FlowCapable /\ fl \in SUBSET Gateways /\ on \in SUBSET Gateways
  BY <1>1 DEF ClientRecord
<1>3. Attached(r, new) = u
  BY <1>1 DEF Attached, HasFlow, ClientRecord
<1>4. /\ u \in ClientRecord
      /\ u.sub = r.sub /\ u.links = r.links /\ u.enable = r.enable /\ u.limit = r.limit
      /\ u.ids = on /\ u.flows = fl
  <2> HIDE DEF fl, on
  <2> QED  BY <1>1, <1>2 DEF ClientRecord
<1> HIDE DEF u
<1> QED  BY <1>2, <1>3, <1>4 DEF LeafRecord

LEMMA DetachedIs ==
  ASSUME NEW r \in LeafRecord, NEW old
  PROVE  LET u == Detached(r, old) IN
         /\ u \in LeafRecord
         /\ u.sub = r.sub /\ u.links = r.links /\ u.enable = r.enable /\ u.limit = r.limit
         /\ u.ids = r.ids \ old /\ u.flows = r.flows \ old
<1> DEFINE fl == r.flows \ old
           on == r.ids \ old
           u == [r EXCEPT !.ids = on, !.flows = fl]
<1>1. r \in ClientRecord /\ r.flows \subseteq r.ids \cap FlowCapable
  BY DEF LeafRecord
<1>2. fl \subseteq on \cap FlowCapable /\ fl \in SUBSET Gateways /\ on \in SUBSET Gateways
  BY <1>1 DEF ClientRecord
<1>3. Detached(r, old) = u
  BY <1>1 DEF Detached, ClientRecord
<1>4. /\ u \in ClientRecord
      /\ u.sub = r.sub /\ u.links = r.links /\ u.enable = r.enable /\ u.limit = r.limit
      /\ u.ids = on /\ u.flows = fl
  <2> HIDE DEF fl, on
  <2> QED  BY <1>1, <1>2 DEF ClientRecord
<1> HIDE DEF u
<1> QED  BY <1>2, <1>3, <1>4 DEF LeafRecord

LEMMA CreatedIs ==
  ASSUME ServerTyped, NEW s, s.fields \in LeafFields
  PROVE  LET u == Created(s)
             f == s.fields
         IN
         /\ u \in LeafRecord
         /\ Exists(f.email) => u.sub = clients[f.email].sub /\ u.links = clients[f.email].links
         /\ ~Exists(f.email) => u.sub = f.sub /\ u.links = {}
         /\ ~Exists(f.email) /\ f.ids # {} =>
              /\ u.ids = f.ids /\ u.limit = f.limit
              /\ u.flows = IF f.flow THEN f.ids \cap FlowCapable ELSE {}
<1> DEFINE f == s.fields
           r == IF Exists(f.email) THEN clients[f.email]
                ELSE [sub |-> f.sub, flows |-> {}, limit |-> f.limit, enable |-> TRUE, ids |-> {}, links |-> {}]
           new == f.ids \ r.ids
           fl == r.flows \cup (IF f.flow THEN new \cap FlowCapable ELSE {})
           on == r.ids \cup new
           li == f.limit
           yes == TRUE
           u == [r EXCEPT !.ids = on, !.limit = li, !.enable = yes, !.flows = fl]
<1>0. /\ f.sub \in Nat /\ f.limit \in Nat /\ f.ids \in SUBSET Gateways /\ f.flow \in BOOLEAN
  BY DEF LeafFields
<1>1. r \in ClientRecord /\ r.flows \subseteq r.ids \cap FlowCapable
  <2>1. CASE Exists(f.email)
    BY <2>1 DEF ServerTyped, LeafRecord, Exists
  <2>2. CASE ~Exists(f.email)
    <3>1. r = [sub |-> f.sub, flows |-> {}, limit |-> f.limit, enable |-> TRUE, ids |-> {}, links |-> {}]
      BY <2>2
    <3> HIDE DEF r
    <3> QED  BY <3>1, <1>0 DEF ClientRecord
  <2> QED  BY <2>1, <2>2
<1>2. /\ Exists(f.email) => r = clients[f.email]
      /\ ~Exists(f.email) => r.sub = f.sub /\ r.links = {} /\ r.ids = {} /\ r.flows = {}
  OBVIOUS
<1>3. Created(s) = IF new = {} THEN r ELSE u
  <2> HIDE DEF r
  <2>1. Created(s) = IF new = {} THEN r ELSE [r EXCEPT !.ids = r.ids \cup new, !.limit = f.limit,
          !.enable = TRUE, !.flows = r.flows \cup (IF f.flow THEN new \cap FlowCapable ELSE {})]
    <3> USE DEF r
    <3> QED  BY DEF Created
  <2> QED  BY <2>1
<1> HIDE DEF r
<1>4. fl \subseteq on \cap FlowCapable /\ fl \in SUBSET Gateways /\ on \in SUBSET Gateways /\ yes \in BOOLEAN
  BY <1>0, <1>1 DEF ClientRecord
<1>5. /\ u \in ClientRecord
      /\ u.sub = r.sub /\ u.links = r.links /\ u.limit = li /\ u.ids = on /\ u.flows = fl
  <2> HIDE DEF fl, on, new, yes, li
  <2>1. li \in Nat
    BY <1>0 DEF li
  <2> QED  BY <1>1, <1>4, <2>1 DEF ClientRecord
<1>6. CASE new = {}
  BY <1>1, <1>2, <1>3, <1>6 DEF LeafRecord
<1>7. CASE new # {}
  <2> HIDE DEF u
  <2> QED  BY <1>2, <1>3, <1>4, <1>5, <1>7 DEF LeafRecord
<1> QED  BY <1>6, <1>7

LEMMA FormBookInit == ClientFormInit => FormBook
<1> SUFFICES ASSUME ClientFormInit PROVE FormBook
  OBVIOUS
<1>1. NoFields \in LeafFields
  BY ClientFormAssumption DEF NoFields, LeafFields
<1>2. /\ NotSaving.stage = "none" /\ NotSaving.fields = NoFields /\ NotSaving.detach = {}
      /\ NotSaving.faithful = FALSE
  BY DEF NotSaving
<1>3. SaveTyped
  BY <1>1 DEF ClientFormInit, SaveTyped, NotSaving, SaveStages
<1>4. \A e \in DOMAIN FirstClients : FirstClients[e] \in LeafRecord /\ FirstClients[e].sub = 0
  <2> TAKE e \in DOMAIN FirstClients
  <2> DEFINE r == FirstClients[e]
  <2>1. r = [sub |-> 0, flows |-> r.flows, limit |-> r.limit, enable |-> r.enable,
             ids |-> r.ids, links |-> r.links]
        /\ r.limit \in Nat /\ r.enable \in BOOLEAN /\ r.ids \subseteq Gateways
        /\ r.links \subseteq Links /\ r.flows \subseteq r.ids \cap FlowCapable
    BY ClientFormAssumption
  <2> HIDE DEF r
  <2>2. r \in ClientRecord /\ r.sub = 0
    <3>1. r.flows \subseteq Gateways
      BY <2>1
    <3> QED  BY <2>1, <3>1 DEF ClientRecord
  <2> QED  BY <2>1, <2>2 DEF LeafRecord, r
<1>5. ServerTyped
  BY <1>4, ClientFormAssumption DEF ClientFormInit, ServerTyped, NotToggling
<1>6. FormTyped
  BY <1>1 DEF ClientFormInit, FormTyped, ClosedForm, NoAlibi
<1>7. SubsSound
  BY <1>2, <1>4 DEF ClientFormInit, SubsSound, ClosedForm
<1>8. SaveSound /\ FaithfulSound
  BY <1>2 DEF ClientFormInit, SaveSound, FaithfulSound
<1>9. FormSeen /\ FormUntouched
  BY DEF ClientFormInit, FormSeen, FormUntouched, Undisturbed, ClosedForm
<1> QED  BY <1>3, <1>5, <1>6, <1>7, <1>8, <1>9 DEF FormBook

LEMMA EmptyFormTyped ==
  ASSUME clientClicks' \in Nat, EmptyForm, ServerTyped
  PROVE  /\ clientFields' \in LeafFields
         /\ clientFields'.sub = clientClicks'
<1> DEFINE now == clientClicks'
<1>1. PICK e \in FreshEmails : clientFields' = [NoFields EXCEPT !.email = e, !.sub = now]
  BY DEF EmptyForm
<1>2. e \in Emails \cup {NoEmail}
  BY <1>1 DEF FreshEmails
<1>3. NoFields \in LeafFields
  BY ClientFormAssumption DEF NoFields, LeafFields
<1>4. now \in Nat
  OBVIOUS
<1> HIDE DEF now
<1>5. clientFields' \in LeafFields /\ clientFields'.sub = now
  BY <1>1, <1>2, <1>3, <1>4 DEF LeafFields
<1> QED  BY <1>5 DEF now

\* The clients and the save under way are as they were.
LEMMA SaveKept ==
  ASSUME SaveTyped, SaveSound, FaithfulSound, clients' = clients, clientSaving' = clientSaving
  PROVE  SaveTyped' /\ SaveSound' /\ FaithfulSound'
<1>1. SaveTyped'
  BY DEF SaveTyped
<1>2. SaveSound'
  BY DEF SaveSound, Exists
<1>3. FaithfulSound'
  BY DEF FaithfulSound, Exists
<1> QED  BY <1>1, <1>2, <1>3

LEMMA AddKeeps == ASSUME FormBook, onAdd PROVE FormBook'
<1> USE DEF FormBook
<1>1. /\ UNCHANGED <<clients, optionsLoaded, hydrating, clientSaving, toggling>>
      /\ clientForm' = [open |-> TRUE, mode |-> "add", email |-> NoEmail, ids |-> {}]
      /\ clientClicks' = clientClicks + 1 /\ EmptyForm /\ clientAlibi' = NoAlibi
  BY DEF onAdd, Click
<1>2. clientClicks \in Nat /\ clientClicks' \in Nat
  BY <1>1 DEF ServerTyped
<1>3. clientFields' \in LeafFields /\ clientFields'.sub = clientClicks'
  BY <1>1, <1>2, EmptyFormTyped
<1>4. ServerTyped'
  BY <1>1, <1>2 DEF ServerTyped
<1>5. FormTyped'
  BY <1>1, <1>3 DEF FormTyped, NoAlibi
<1>6. SaveTyped' /\ SaveSound' /\ FaithfulSound'
  BY <1>1, SaveKept
<1>7. SubsSound'
  <2>1. \A e \in DOMAIN clients : clients[e].sub \in Nat
    BY DEF ServerTyped, LeafRecord, ClientRecord
  <2>2. Bearers(clientFields'.sub) = {}
    BY <1>1, <1>2, <1>3, <2>1 DEF Bearers, SubsSound
  <2>3. /\ clientSaving.stage = "create" => clientSaving.fields.sub \in Nat
        /\ \A sub : Bearers(sub)' = Bearers(sub)
    BY <1>1 DEF SaveTyped, LeafFields, Bearers
  <2>4. /\ \A e \in DOMAIN clients' : clients'[e].sub = 0 \/ clients'[e].sub < clientClicks'
        /\ clientClicks' > 0
    BY <1>1, <1>2, <2>1 DEF SubsSound
  <2>5. Bearers(clientFields.sub)' = {}
    BY <1>1, <2>2 DEF Bearers
  <2>6. clientSaving'.stage = "create" =>
          /\ clientSaving'.fields.sub < clientClicks'
          /\ \A e \in Bearers(clientSaving.fields.sub)' : clients'[e].links = {}
          /\ ~clientSaving'.again => Bearers(clientSaving.fields.sub)' = {}
    BY <1>1, <1>2, <2>3 DEF SubsSound, Bearers
  <2> QED  BY <1>2, <1>3, <2>4, <2>5, <2>6 DEF SubsSound
<1>8. FormSeen' /\ FormUntouched'
  BY <1>1 DEF FormSeen, FormUntouched, Undisturbed
<1> QED  BY <1>4, <1>5, <1>6, <1>7, <1>8

LEMMA HydratedOpenKeeps ==
  ASSUME FormBook, NEW ask \in hydrating, NEW ok \in BOOLEAN, Hydrated(ask, ok), clientForm.open
  PROVE  FormBook'
<1> USE DEF FormBook
<1> DEFINE e == ask.email
           on == (IF ok /\ Exists(e) THEN clients[e] ELSE ask.row).ids
<1>1. /\ UNCHANGED <<clients, optionsLoaded, clientSaving, toggling, clientClicks, clientFields>>
      /\ hydrating' = hydrating \ {ask}
      /\ clientForm' = [clientForm EXCEPT !.open = TRUE, !.email = e, !.ids = on]
      /\ clientAlibi' = [clientAlibi EXCEPT !.disturbed = TRUE]
  BY DEF Hydrated
<1>2. e \in Emails /\ on \in SUBSET Gateways
  BY DEF ServerTyped, Exists, LeafRecord, ClientRecord
<1>3. /\ FormTyped'
      /\ clientForm'.open /\ clientForm'.mode = clientForm.mode
      /\ clientAlibi'.disturbed /\ clientAlibi'.halfway = clientAlibi.halfway
  <2> HIDE DEF e, on
  <2> QED  BY <1>1, <1>2 DEF FormTyped
<1>4. ServerTyped'
  BY <1>1 DEF ServerTyped
<1>5. SaveTyped' /\ SaveSound' /\ FaithfulSound'
  BY <1>1, SaveKept
<1>6. SubsSound'
  <2>1. \A sub : Bearers(sub)' = Bearers(sub)
    BY <1>1 DEF Bearers
  <2> QED  BY <1>1, <1>3, <2>1 DEF SubsSound, Bearers
<1>7. FormSeen' /\ FormUntouched'
  BY <1>3 DEF FormSeen, FormUntouched, Undisturbed
<1> QED  BY <1>3, <1>4, <1>5, <1>6, <1>7

LEMMA HydratedAddKeeps ==
  ASSUME FormBook, NEW ask \in hydrating, NEW ok \in BOOLEAN, Hydrated(ask, ok),
         ~clientForm.open, clientForm.mode # "edit"
  PROVE  FormBook'
<1> USE DEF FormBook
<1> DEFINE e == ask.email
           on == (IF ok /\ Exists(e) THEN clients[e] ELSE ask.row).ids
<1>1. /\ UNCHANGED <<clients, optionsLoaded, clientSaving, toggling, clientClicks>>
      /\ hydrating' = hydrating \ {ask}
      /\ clientForm' = [clientForm EXCEPT !.open = TRUE, !.email = e, !.ids = on]
      /\ EmptyForm /\ clientAlibi' = NoAlibi
  BY DEF Hydrated
<1>2. e \in Emails /\ on \in SUBSET Gateways
  BY DEF ServerTyped, Exists, LeafRecord, ClientRecord
<1>3. clientFields' \in LeafFields /\ clientFields'.sub = clientClicks'
  BY <1>1, EmptyFormTyped DEF ServerTyped
<1>4. /\ FormTyped'
      /\ clientForm'.mode = clientForm.mode
  <2> HIDE DEF e, on
  <2> QED  BY <1>1, <1>2, <1>3 DEF FormTyped, NoAlibi
<1>5. ServerTyped'
  BY <1>1 DEF ServerTyped
<1>6. SaveTyped' /\ SaveSound' /\ FaithfulSound'
  BY <1>1, SaveKept
<1>7. SubsSound'
  <2>1. \A x \in DOMAIN clients : clients[x].sub \in Nat
    BY DEF ServerTyped, LeafRecord, ClientRecord
  <2>2. clientClicks \in Nat /\ clientClicks > 0
    BY DEF SubsSound, ServerTyped
  <2>3. Bearers(clientFields.sub)' = {}
    BY <1>1, <1>3, <2>1, <2>2 DEF Bearers, SubsSound
  <2>4. \A sub : Bearers(sub)' = Bearers(sub)
    BY <1>1 DEF Bearers
  <2> QED  BY <1>1, <1>3, <2>2, <2>3, <2>4 DEF SubsSound, Bearers
<1>8. FormSeen' /\ FormUntouched'
  BY <1>4 DEF FormSeen, FormUntouched, Undisturbed
<1> QED  BY <1>4, <1>5, <1>6, <1>7, <1>8

LEMMA SeededIs ==
  ASSUME NEW e \in Emails, NEW r \in LeafRecord, optionsLoaded \in BOOLEAN
  PROVE  LET f == SeededFields(e, r) IN
         /\ f \in LeafFields
         /\ f.email = e /\ f.ids = r.ids
         /\ optionsLoaded => Like(r, f)
<1> DEFINE fl == HasFlow(r)
           li == Shown(r.limit)
           g == [email |-> e, sub |-> r.sub, flow |-> fl, limit |-> li, enable |-> r.enable,
                 ids |-> r.ids, links |-> r.links]
           kept == g.flow /\ ShowsFlow(g.ids)
           f == [g EXCEPT !.flow = kept]
<1>1. /\ r.sub \in Nat /\ r.limit \in Nat /\ r.enable \in BOOLEAN /\ r.ids \in SUBSET Gateways
      /\ r.links \in SUBSET Links /\ r.flows \subseteq r.ids \cap FlowCapable
  BY DEF LeafRecord, ClientRecord
<1>2. li \in Nat /\ li % Step = 0 /\ li <= r.limit + Step \div 2 /\ r.limit <= li + Step \div 2
  BY <1>1, ShownNear
<1>3. fl \in BOOLEAN /\ (fl => TakeFlow(r.ids))
  BY <1>1 DEF HasFlow, TakeFlow
<1>4. SeededFields(e, r) = f
  BY DEF SeededFields, WithoutHiddenFlow
<1>5. g \in LeafFields
  <2> HIDE DEF fl, li
  <2> QED  BY <1>1, <1>2, <1>3 DEF LeafFields
<1>6. kept \in BOOLEAN /\ (optionsLoaded => kept = fl)
  <2>1. g.flow = fl /\ g.ids = r.ids
    <3> HIDE DEF fl, li
    <3> QED  OBVIOUS
  <2>2. ShowsFlow(g.ids) \in BOOLEAN
    BY DEF ShowsFlow, TakeFlow
  <2> HIDE DEF g, fl
  <2> QED  BY <2>1, <2>2, <1>3 DEF ShowsFlow
<1>7. /\ g.email = e /\ g.ids = r.ids /\ g.links = r.links /\ g.enable = r.enable /\ g.limit = li
  <2> HIDE DEF fl, li
  <2> QED  OBVIOUS
<1>8. /\ f \in LeafFields /\ f.flow = kept
      /\ f.email = e /\ f.ids = r.ids /\ f.links = r.links /\ f.enable = r.enable /\ f.limit = li
  <2> HIDE DEF g, kept, li
  <2> QED  BY <1>5, <1>6, <1>7 DEF LeafFields
<1> HIDE DEF f, li, kept
<1> QED  BY <1>2, <1>4, <1>6, <1>8 DEF Like

LEMMA HydratedEditKeeps ==
  ASSUME FormBook, NEW ask \in hydrating, NEW ok \in BOOLEAN, Hydrated(ask, ok),
         ~clientForm.open, clientForm.mode = "edit"
  PROVE  FormBook'
<1> USE DEF FormBook
<1> DEFINE e == ask.email
           full == ok /\ Exists(e)
           record == IF full THEN clients[e] ELSE ask.row
           on == record.ids
           blind == ~full \/ ~optionsLoaded
           partial == ~full
           busy_ == toggling.stage # "none" \/ clientSaving.stage # "none"
           last == hydrating' = {}
<1>1. /\ UNCHANGED <<clients, optionsLoaded, clientSaving, toggling, clientClicks>>
      /\ hydrating' = hydrating \ {ask}
      /\ clientForm' = [clientForm EXCEPT !.open = TRUE, !.email = e, !.ids = on]
      /\ clientFields' = SeededFields(e, record)
      /\ clientAlibi' = [for |-> e, typed |-> 0, blind |-> blind, halfway |-> partial, disturbed |-> busy_,
                         alone |-> last]
  BY DEF Hydrated
<1>2. e \in Emails /\ record \in LeafRecord /\ on \in SUBSET Gateways
  BY DEF ServerTyped, Exists, LeafRecord, ClientRecord
<1>3. /\ blind \in BOOLEAN /\ partial \in BOOLEAN /\ busy_ \in BOOLEAN /\ full \in BOOLEAN
      /\ last \in BOOLEAN
  BY DEF Exists
<1>4. /\ clientFields' \in LeafFields /\ clientFields'.email = e /\ clientFields'.ids = on
      /\ optionsLoaded => Like(record, clientFields')
  BY <1>1, <1>2, SeededIs DEF ServerTyped
<1>5. /\ FormTyped'
      /\ clientForm'.mode = "edit" /\ clientForm'.email = e /\ clientForm'.ids = on
      /\ clientAlibi'.for = e /\ clientAlibi'.blind = blind /\ clientAlibi'.halfway = partial
      /\ clientAlibi'.disturbed = busy_
  <2> HIDE DEF e, on, blind, partial, busy_, last
  <2> QED  BY <1>1, <1>2, <1>3, <1>4 DEF FormTyped
<1>6. ServerTyped'
  BY <1>1 DEF ServerTyped
<1>7. SaveTyped' /\ SaveSound' /\ FaithfulSound'
  BY <1>1, SaveKept
<1>8. SubsSound'
  <2>1. \A sub : Bearers(sub)' = Bearers(sub)
    BY <1>1 DEF Bearers
  <2> QED  BY <1>1, <1>5, <2>1 DEF SubsSound, Bearers
<1>9. FormSeen' /\ FormUntouched'
  <2>1. ~clientAlibi'.disturbed => clientSaving'.stage = "none"
    BY <1>1, <1>5
  <2>2. ~clientAlibi'.halfway => Exists(e) /\ record = clients[e]
    BY <1>5
  <2>3. ~clientAlibi'.blind => Exists(e) /\ record = clients[e] /\ optionsLoaded
    BY <1>5
  <2>4. Exists(e) = Exists(e)'
    BY <1>1 DEF Exists
  <2> HIDE DEF e, full, record, blind, partial, busy_
  <2>5. FormSeen'
    BY <1>1, <1>5, <2>1, <2>2, <2>4 DEF FormSeen, Undisturbed, on
  <2>6. FormUntouched'
    BY <1>1, <1>4, <1>5, <2>1, <2>3, <2>4 DEF FormUntouched, Undisturbed
  <2> QED  BY <2>5, <2>6
<1> QED  BY <1>5, <1>6, <1>7, <1>8, <1>9

LEMMA EditKeeps == ASSUME FormBook, NEW e \in Emails, onEdit(e) PROVE FormBook'
<1> USE DEF FormBook
<1> DEFINE edit == "edit"
           row == Slim(clients[e])
<1>1. /\ UNCHANGED <<clients, optionsLoaded, clientFields, clientSaving, toggling, clientAlibi>>
      /\ ~clientForm.open /\ e \in DOMAIN clients
      /\ clientForm' = [clientForm EXCEPT !.mode = "edit"]
      /\ hydrating' = hydrating \cup {[email |-> e, row |-> row]}
      /\ clientClicks' = clientClicks + 1
  BY DEF onEdit, Click, Exists
<1>2. row \in LeafRecord
  <2>1. clients[e] \in LeafRecord
    BY <1>1 DEF ServerTyped
  <2> QED  BY <2>1 DEF Slim, LeafRecord, ClientRecord
<1>3. FormTyped' /\ ~clientForm'.open
  BY <1>1 DEF FormTyped
<1>4. ServerTyped'
  <2> HIDE DEF row
  <2>1. \A ask \in hydrating' : ask.email \in Emails /\ ask.row \in LeafRecord
    BY <1>1, <1>2 DEF ServerTyped
  <2> QED  BY <1>1, <2>1 DEF ServerTyped
<1>5. SaveTyped' /\ SaveSound' /\ FaithfulSound'
  BY <1>1, SaveKept
<1>6. SubsSound'
  <2>1. /\ \A sub : Bearers(sub)' = Bearers(sub)
        /\ clientClicks \in Nat /\ \A x \in DOMAIN clients : clients[x].sub \in Nat
        /\ clientSaving.fields.sub \in Nat
    BY <1>1 DEF Bearers, ServerTyped, LeafRecord, ClientRecord, SaveTyped, LeafFields
  <2>2. clientClicks' > 0 /\ \A x \in DOMAIN clients' : clients'[x].sub = 0 \/ clients'[x].sub < clientClicks'
    BY <1>1, <2>1 DEF SubsSound
  <2>3. clientSaving'.stage = "create" => clientSaving'.fields.sub < clientClicks'
    BY <1>1, <2>1 DEF SubsSound
  <2> QED  BY <1>1, <1>3, <2>1, <2>2, <2>3 DEF SubsSound, Bearers
<1>7. FormSeen' /\ FormUntouched'
  BY <1>3 DEF FormSeen, FormUntouched, Undisturbed
<1> QED  BY <1>3, <1>4, <1>5, <1>6, <1>7

LEMMA SwitchKeeps == ASSUME FormBook, NEW e \in Emails, onToggleEnable(e) PROVE FormBook'
<1> USE DEF FormBook
<1> DEFINE fl == HasFlow(clients[e])
           en == ~clients[e].enable
           base == [flow |-> fl, limit |-> clients[e].limit, enable |-> en]
<1>1. /\ UNCHANGED <<clients, optionsLoaded, hydrating, clientForm, clientFields, clientSaving, clientAlibi>>
      /\ ~clientForm.open /\ e \in DOMAIN clients
      /\ toggling' = [email |-> e, stage |-> "update", base |-> base]
      /\ clientClicks' = clientClicks + 1
  BY DEF onToggleEnable, Click, Exists
<1>2. FormTyped' /\ ~clientForm'.open
  BY <1>1 DEF FormTyped
<1>3. ServerTyped'
  <2>1. fl \in BOOLEAN /\ en \in BOOLEAN /\ clients[e].limit \in Nat
    BY <1>1 DEF ServerTyped, LeafRecord, ClientRecord, HasFlow
  <2>2. base \in SwitchedFields
    <3> HIDE DEF fl, en
    <3> QED  BY <2>1 DEF SwitchedFields
  <2> HIDE DEF fl, en, base
  <2> QED  BY <1>1, <2>1, <2>2 DEF ServerTyped
<1>4. SaveTyped' /\ SaveSound' /\ FaithfulSound'
  BY <1>1, SaveKept
<1>5. SubsSound'
  <2>1. /\ \A sub : Bearers(sub)' = Bearers(sub)
        /\ clientClicks \in Nat /\ \A x \in DOMAIN clients : clients[x].sub \in Nat
        /\ clientSaving.fields.sub \in Nat
    BY <1>1 DEF Bearers, ServerTyped, LeafRecord, ClientRecord, SaveTyped, LeafFields
  <2>2. clientClicks' > 0 /\ \A x \in DOMAIN clients' : clients'[x].sub = 0 \/ clients'[x].sub < clientClicks'
    BY <1>1, <2>1 DEF SubsSound
  <2>3. clientSaving'.stage = "create" => clientSaving'.fields.sub < clientClicks'
    BY <1>1, <2>1 DEF SubsSound
  <2> QED  BY <1>1, <1>2, <2>1, <2>2, <2>3 DEF SubsSound, Bearers
<1>6. FormSeen' /\ FormUntouched'
  BY <1>2 DEF FormSeen, FormUntouched, Undisturbed
<1> QED  BY <1>2, <1>3, <1>4, <1>5, <1>6

LEMMA ArriveKeeps == ASSUME FormBook, OptionsArrive PROVE FormBook'
<1> USE DEF FormBook
<1>1. /\ UNCHANGED <<clients, hydrating, clientForm, clientFields, clientSaving, toggling, clientAlibi, clientClicks>>
      /\ optionsLoaded' = TRUE
  BY DEF OptionsArrive
<1>2. FormTyped' /\ ServerTyped'
  BY <1>1 DEF FormTyped, ServerTyped
<1>3. SaveTyped' /\ SaveSound' /\ FaithfulSound'
  BY <1>1, SaveKept
<1>4. SubsSound'
  BY <1>1 DEF SubsSound, Bearers
<1>5. FormSeen' /\ FormUntouched'
  BY <1>1 DEF FormSeen, FormUntouched, Undisturbed, Exists
<1> QED  BY <1>2, <1>3, <1>4, <1>5

LEMMA CloseKeeps == ASSUME FormBook, CloseForm PROVE FormBook'
<1> USE DEF FormBook
<1>1. /\ UNCHANGED <<clients, optionsLoaded, hydrating, clientFields, clientSaving, toggling, clientAlibi, clientClicks>>
      /\ clientForm' = [clientForm EXCEPT !.open = FALSE]
  BY DEF CloseForm
<1>2. FormTyped' /\ ~clientForm'.open
  BY <1>1 DEF FormTyped
<1>3. ServerTyped'
  BY <1>1 DEF ServerTyped
<1>4. SaveTyped' /\ SaveSound' /\ FaithfulSound'
  BY <1>1, SaveKept
<1>5. SubsSound'
  BY <1>1, <1>2 DEF SubsSound, Bearers
<1>6. FormSeen' /\ FormUntouched'
  BY <1>2 DEF FormSeen, FormUntouched, Undisturbed
<1> QED  BY <1>2, <1>3, <1>4, <1>5, <1>6

\* What is typed is a form; the flow goes with the last inbound that takes one.
LEMMA TypedIs ==
  ASSUME TypeBasics \/ ToggleAttached \/ PickFlow \/ EditLinks, FormTyped
  PROVE  \E f \in LeafFields : Types(f) /\ f.sub = clientFields.sub
<1>1. CASE TypeBasics
  <2>1. CASE \E e \in Emails : Types([clientFields EXCEPT !.email = e])
    <3>1. PICK e \in Emails : Types([clientFields EXCEPT !.email = e])
      BY <2>1
    <3>2. [clientFields EXCEPT !.email = e] \in LeafFields
          /\ [clientFields EXCEPT !.email = e].sub = clientFields.sub
      BY DEF FormTyped, LeafFields
    <3> QED  BY <3>1, <3>2
  <2>2. CASE \E n \in Limits : Types([clientFields EXCEPT !.limit = Shown(n)])
    <3>1. PICK n \in Limits : Types([clientFields EXCEPT !.limit = Shown(n)])
      BY <2>2
    <3> DEFINE li == Shown(n)
    <3>2. li \in Nat /\ li % Step = 0
      BY ShownNear, ClientFormAssumption
    <3> HIDE DEF li
    <3>3. [clientFields EXCEPT !.limit = li] \in LeafFields
          /\ [clientFields EXCEPT !.limit = li].sub = clientFields.sub
      BY <3>2 DEF FormTyped, LeafFields
    <3> QED  BY <3>1, <3>3 DEF li
  <2>3. CASE Types([clientFields EXCEPT !.enable = ~@])
    <3> DEFINE en == ~clientFields.enable
               f == [clientFields EXCEPT !.enable = en]
    <3>1. Types(f) /\ en \in BOOLEAN
      BY <2>3 DEF FormTyped, LeafFields
    <3>2. f \in LeafFields /\ f.sub = clientFields.sub
      <4> HIDE DEF en
      <4> QED  BY <3>1 DEF FormTyped, LeafFields
    <3> QED  BY <3>1, <3>2
  <2> QED  BY <1>1, <2>1, <2>2, <2>3 DEF TypeBasics
<1>2. CASE ToggleAttached
  <2>1. PICK i \in Gateways : Types([clientFields EXCEPT !.ids = (clientFields.ids \ {i}) \cup ({i} \ clientFields.ids)])
    BY <1>2 DEF ToggleAttached
  <2> DEFINE on == (clientFields.ids \ {i}) \cup ({i} \ clientFields.ids)
  <2>2. on \in SUBSET Gateways
    BY DEF FormTyped, LeafFields
  <2> HIDE DEF on
  <2>3. [clientFields EXCEPT !.ids = on] \in LeafFields
        /\ [clientFields EXCEPT !.ids = on].sub = clientFields.sub
    BY <2>2 DEF FormTyped, LeafFields
  <2> QED  BY <2>1, <2>3 DEF on
<1>3. CASE PickFlow
  <2> DEFINE fl == ~clientFields.flow
             f == [clientFields EXCEPT !.flow = fl]
  <2>1. Types(f) /\ fl \in BOOLEAN
    BY <1>3 DEF PickFlow, FormTyped, LeafFields
  <2>2. f \in LeafFields /\ f.sub = clientFields.sub
    <3> HIDE DEF fl
    <3> QED  BY <2>1 DEF FormTyped, LeafFields
  <2> QED  BY <2>1, <2>2
<1>4. CASE EditLinks
  <2>1. PICK l \in Links : Types([clientFields EXCEPT !.links = (clientFields.links \ {l}) \cup ({l} \ clientFields.links)])
    BY <1>4 DEF EditLinks
  <2> DEFINE ls == (clientFields.links \ {l}) \cup ({l} \ clientFields.links)
  <2>2. ls \in SUBSET Links
    BY DEF FormTyped, LeafFields
  <2> HIDE DEF ls
  <2>3. [clientFields EXCEPT !.links = ls] \in LeafFields
        /\ [clientFields EXCEPT !.links = ls].sub = clientFields.sub
    BY <2>2 DEF FormTyped, LeafFields
  <2> QED  BY <2>1, <2>3 DEF ls
<1> QED  BY <1>1, <1>2, <1>3, <1>4

LEMMA ShownFlow ==
  ASSUME NEW f \in LeafFields, optionsLoaded \in BOOLEAN
  PROVE  LET g == WithoutHiddenFlow(f) IN
         /\ g \in LeafFields
         /\ g.email = f.email /\ g.sub = f.sub /\ g.ids = f.ids
         /\ g.flow => TakeFlow(g.ids)
         /\ optionsLoaded /\ (f.flow => TakeFlow(f.ids)) => g = f
<1> DEFINE fl == f.flow /\ ShowsFlow(f.ids)
           g == [f EXCEPT !.flow = fl]
<1>1. fl \in BOOLEAN /\ (fl => TakeFlow(f.ids)) /\ (optionsLoaded /\ (f.flow => TakeFlow(f.ids)) => fl = f.flow)
  BY DEF ShowsFlow, TakeFlow, LeafFields
<1>2. WithoutHiddenFlow(f) = g
  BY DEF WithoutHiddenFlow
<1>3. /\ g \in LeafFields /\ g.flow = fl
      /\ g.email = f.email /\ g.sub = f.sub /\ g.ids = f.ids
      /\ fl = f.flow => g = f
  <2> HIDE DEF fl
  <2> QED  BY <1>1 DEF LeafFields
<1> HIDE DEF g, fl
<1> QED  BY <1>1, <1>2, <1>3

LEMMA TypingKeeps ==
  ASSUME FormBook, TypeBasics \/ ToggleAttached \/ PickFlow \/ EditLinks
  PROVE  FormBook'
<1> USE DEF FormBook
<1>1. PICK f \in LeafFields : Types(f) /\ f.sub = clientFields.sub
  BY TypedIs
<1>2. /\ UNCHANGED <<clients, optionsLoaded, hydrating, clientForm, clientSaving, toggling, clientClicks>>
      /\ clientFields' = WithoutHiddenFlow(f)
      /\ clientAlibi' = [clientAlibi EXCEPT !.typed = clientAlibi.typed + 1]
  BY <1>1 DEF Types
<1>3. clientFields' \in LeafFields /\ clientFields'.sub = clientFields.sub
  BY <1>1, <1>2, ShownFlow DEF ServerTyped
<1>4. /\ FormTyped'
      /\ clientAlibi'.typed # 0 /\ clientAlibi'.for = clientAlibi.for
      /\ clientAlibi'.halfway = clientAlibi.halfway /\ clientAlibi'.disturbed = clientAlibi.disturbed
  BY <1>2, <1>3 DEF FormTyped
<1>5. ServerTyped'
  BY <1>2 DEF ServerTyped
<1>6. SaveTyped' /\ SaveSound' /\ FaithfulSound'
  BY <1>2, SaveKept
<1>7. SubsSound'
  BY <1>2, <1>3, <1>4 DEF SubsSound, Bearers
<1>8. FormSeen' /\ FormUntouched'
  BY <1>2, <1>4 DEF FormSeen, FormUntouched, Undisturbed, Exists
<1> QED  BY <1>4, <1>5, <1>6, <1>7, <1>8

LEMMA SubmitKeeps == ASSUME FormBook, onSubmit PROVE FormBook'
<1> USE DEF FormBook
<1> DEFINE edit == clientForm.mode = "edit"
           f == WithoutHiddenFlow(clientFields)
           phase == IF edit THEN "update" ELSE "create"
           target == IF edit THEN clientForm.email ELSE clientFields.email
           more == IF edit THEN clientFields.ids \ clientForm.ids ELSE {}
           less == IF edit THEN clientForm.ids \ clientFields.ids ELSE {}
           true_ == edit /\ clientAlibi.typed = 0 /\ ~clientAlibi.blind /\ ~clientAlibi.disturbed
           calm == ~clientAlibi.disturbed
           half == clientAlibi.halfway
           s == [stage |-> phase, edit |-> edit, target |-> target, fields |-> f, attach |-> more,
                 detach |-> less, faithful |-> true_, undisturbed |-> calm, again |-> half]
<1>1. /\ UNCHANGED <<clients, optionsLoaded, hydrating, clientForm, clientFields, toggling, clientAlibi>>
      /\ clientForm.open /\ clientSaving.stage = "none" /\ clientFields.email # NoEmail
      /\ edit \/ clientFields.ids # {}
      /\ clientSaving' = s /\ clientClicks' = clientClicks + 1
  BY DEF onSubmit, Click
<1>2. /\ f \in LeafFields /\ f.email = clientFields.email /\ f.sub = clientFields.sub
      /\ f.ids = clientFields.ids /\ (f.flow => TakeFlow(f.ids))
      /\ optionsLoaded /\ (clientFields.flow => TakeFlow(clientFields.ids)) => f = clientFields
  BY ShownFlow DEF FormTyped, ServerTyped
<1>3. /\ edit \in BOOLEAN /\ phase \in SaveStages /\ target \in Emails \cup {NoEmail}
      /\ more \in SUBSET Gateways /\ less \in SUBSET Gateways /\ true_ \in BOOLEAN
      /\ calm \in BOOLEAN /\ half \in BOOLEAN
  BY DEF FormTyped, SaveStages, LeafFields
<1>4. /\ SaveTyped'
      /\ clientSaving'.stage = phase /\ clientSaving'.edit = edit /\ clientSaving'.target = target
      /\ clientSaving'.fields = f /\ clientSaving'.attach = more /\ clientSaving'.detach = less
      /\ clientSaving'.faithful = true_ /\ clientSaving'.undisturbed = calm /\ clientSaving'.again = half
  <2> HIDE DEF edit, f, phase, target, more, less, true_, calm, half
  <2> QED  BY <1>1, <1>2, <1>3 DEF SaveTyped
<1>5. ServerTyped' /\ FormTyped'
  BY <1>1 DEF ServerTyped, FormTyped
<1>6. SubsSound'
  <2>1. /\ \A sub : Bearers(sub)' = Bearers(sub)
        /\ clientClicks \in Nat /\ \A x \in DOMAIN clients : clients[x].sub \in Nat
        /\ clientFields.sub \in Nat
    BY <1>1 DEF Bearers, ServerTyped, LeafRecord, ClientRecord, FormTyped, LeafFields
  <2>2. clientClicks' > 0 /\ \A x \in DOMAIN clients' : clients'[x].sub = 0 \/ clients'[x].sub < clientClicks'
    BY <1>1, <2>1 DEF SubsSound
  <2>3. clientSaving'.stage # "links"
    BY <1>4
  <2> HIDE DEF f, half
  <2>4. clientSaving'.stage = "create" =>
          /\ clientSaving'.fields.sub < clientClicks'
          /\ \A e \in Bearers(clientSaving'.fields.sub) : clients[e].links = {}
          /\ ~clientSaving'.again => Bearers(clientSaving'.fields.sub) = {}
    <3>1. clientSaving'.stage = "create" => clientForm.mode = "add"
      BY <1>4 DEF FormTyped
    <3> QED  BY <3>1, <1>1, <1>2, <1>4, <2>1 DEF SubsSound, half
  <2>5. clientForm.open /\ clientForm.mode = "add" =>
          /\ clientFields.sub <= clientClicks'
          /\ \A e \in Bearers(clientFields.sub) : clients[e].links = {}
          /\ ~clientAlibi.halfway => Bearers(clientFields.sub) = {}
    BY <1>1, <2>1 DEF SubsSound
  <2>6. \A e \in DOMAIN clients : clients'[e] = clients[e]
    BY <1>1
  <2> QED
    <3> HIDE DEF s, phase
    <3>1. /\ \A e \in DOMAIN clients' : clients'[e].sub = 0 \/ clients'[e].sub < clientClicks'
          /\ hydrating' # {} => clientClicks' > 0
      BY <2>2
    <3>2. clientForm'.open /\ clientForm'.mode = "add" =>
             /\ clientFields'.sub <= clientClicks'
             /\ \A e \in Bearers(clientFields.sub)' : clients'[e].links = {}
             /\ ~clientAlibi'.halfway /\ ~(clientSaving'.stage = "links" /\ ~clientSaving'.edit) =>
                  Bearers(clientFields.sub)' = {}
      BY <1>1, <2>1, <2>5 DEF Bearers
    <3>3. clientSaving'.stage = "create" =>
             /\ clientSaving'.fields.sub < clientClicks'
             /\ \A e \in Bearers(clientSaving.fields.sub)' : clients'[e].links = {}
             /\ ~clientSaving'.again => Bearers(clientSaving.fields.sub)' = {}
      BY <1>1, <2>4 DEF Bearers
    <3> QED  BY <3>1, <3>2, <3>3 DEF SubsSound
<1> DEFINE t == clientSaving'
<1>7. t.stage # "none" /\ (edit => t.stage = "update") /\ (~edit => t.stage = "create")
  BY <1>4
<1>8. SaveShape(t)
  <2>1. t.fields.email \in Emails /\ (t.fields.flow => TakeFlow(t.fields.ids))
    BY <1>1, <1>2, <1>4 DEF LeafFields
  <2>2. t.attach \subseteq t.fields.ids /\ t.detach \cap t.fields.ids = {}
    BY <1>2, <1>4
  <2>3. IF t.edit THEN t.stage # "create"
        ELSE t.stage \in {"create", "links"} /\ t.attach = {} /\ t.detach = {} /\ t.fields.ids # {}
    <3>1. CASE edit
      <4>1. t.edit /\ t.stage # "create"
        BY <3>1, <1>4, <1>7
      <4> QED  BY <4>1
    <3>2. CASE ~edit
      <4>1. ~t.edit /\ t.stage = "create" /\ t.attach = {} /\ t.detach = {} /\ t.fields.ids # {}
        BY <3>2, <1>1, <1>2, <1>4
      <4> QED  BY <4>1
    <3> QED  BY <3>1, <3>2
  <2> QED  BY <2>1, <2>2, <2>3 DEF SaveShape
<1>9. SaveSound'
  <2>1. t.stage = "update" /\ t.undisturbed /\ ~t.again /\ Exists(t.target) => clients[t.target].ids = Was(t)
    <3> SUFFICES ASSUME t.stage = "update", t.undisturbed, ~t.again, Exists(t.target)
                 PROVE  clients[t.target].ids = Was(t)
      OBVIOUS
    <3>1. edit /\ calm /\ ~half /\ target = clientForm.email
      BY <1>4, <1>7
    <3>2. clients[clientForm.email].ids = clientForm.ids
      BY <3>1, <1>1, <1>4 DEF FormSeen, Undisturbed
    <3>3. Was(t) = (clientFields.ids \ (clientFields.ids \ clientForm.ids)) \cup (clientForm.ids \ clientFields.ids)
      BY <3>1, <1>2, <1>4 DEF Was
    <3> QED  BY <3>1, <3>2, <3>3, <1>4
  <2>2. t.stage \notin {"attach", "detach", "links"}
    BY <1>7
  <2> HIDE DEF t
  <2>3. SaveShape(clientSaving')
    BY <1>8 DEF t
  <2>4. t.detach \cap t.fields.ids = {}
    BY <1>8 DEF SaveShape
  <2> QED  BY <1>1, <2>1, <2>2, <2>3, <2>4 DEF SaveSound, Exists, t
<1>10. true_ =>
          /\ edit /\ Undisturbed /\ optionsLoaded /\ Exists(clientForm.email)
          /\ Like(clients[clientForm.email], clientFields)
          /\ clientFields.ids = clientForm.ids /\ clientFields.email = clientForm.email
          /\ f = clientFields
  <2> SUFFICES ASSUME true_ PROVE
          /\ edit /\ Undisturbed /\ optionsLoaded /\ Exists(clientForm.email)
          /\ Like(clients[clientForm.email], clientFields)
          /\ clientFields.ids = clientForm.ids /\ clientFields.email = clientForm.email
          /\ f = clientFields
    OBVIOUS
  <2> HIDE DEF f
  <2>1. Undisturbed
    BY <1>1 DEF Undisturbed
  <2>2. /\ optionsLoaded /\ Exists(clientForm.email)
        /\ Like(clients[clientForm.email], clientFields)
        /\ clientFields.ids = clientForm.ids /\ clientFields.email = clientForm.email
    BY <2>1 DEF FormUntouched
  <2>3. clientFields.flow => TakeFlow(clientFields.ids)
    BY <2>2 DEF Like, HasFlow, TakeFlow, ServerTyped, LeafRecord, Exists
  <2> QED  BY <1>2, <2>1, <2>2, <2>3
<1>11. FaithfulSound'
  <2> SUFFICES ASSUME t.faithful
               PROVE  /\ t.stage \in {"update", "links"} /\ t.edit
                      /\ t.target = t.fields.email /\ t.target \in DOMAIN clients'
                      /\ t.attach = {} /\ t.detach = {}
                      /\ Like(clients'[t.target], t.fields)
    BY DEF FaithfulSound, Exists
  <2>1. true_
    BY <1>4
  <2>2. /\ edit /\ Exists(clientForm.email) /\ Like(clients[clientForm.email], clientFields)
        /\ clientFields.ids = clientForm.ids /\ clientFields.email = clientForm.email /\ f = clientFields
    BY <1>10, <2>1
  <2>3. t.stage = "update" /\ t.edit /\ t.target = clientForm.email /\ t.fields = clientFields
    BY <1>4, <1>7, <2>2
  <2>4. t.attach = {} /\ t.detach = {}
    BY <1>4, <2>2
  <2> HIDE DEF t
  <2> QED  BY <2>2, <2>3, <2>4, <1>1 DEF Exists
<1>12. FormSeen'
  <2>1. Undisturbed' => Undisturbed /\ edit
    BY <1>1 DEF Undisturbed
  <2>2. edit => t.edit /\ t.target = clientForm.email
    BY <1>4
  <2> HIDE DEF s, t
  <2> QED  BY <1>1, <2>1, <2>2 DEF FormSeen, Exists, t
<1>13. FormUntouched'
  <2> SUFFICES ASSUME Undisturbed', clientAlibi'.typed = 0, ~clientAlibi'.blind
               PROVE  /\ optionsLoaded' /\ Exists(clientForm.email)'
                      /\ Like(clients'[clientForm'.email], clientFields')
                      /\ clientFields'.ids = clientForm'.ids /\ clientFields'.email = clientForm'.email
                      /\ t.stage # "none" => t.faithful /\ t.fields = clientFields'
    BY DEF FormUntouched
  <2>1. true_
    BY <1>1 DEF Undisturbed
  <2>2. t.faithful /\ t.fields = clientFields
    BY <1>4, <1>10, <2>1
  <2> HIDE DEF t, s, f, true_
  <2> QED  BY <1>1, <1>10, <2>1, <2>2 DEF Exists
<1> QED  BY <1>4, <1>5, <1>6, <1>9, <1>11, <1>12, <1>13

\* As long as every client has the subscription id and the links of one that was there,
\* a subscription id that nobody has stays so, and so does one whose bearers have no links.
LEMMA BearersKept ==
  ASSUME \A x \in DOMAIN clients' : \E y \in DOMAIN clients :
           clients'[x].sub = clients[y].sub /\ clients'[x].links = clients[y].links,
         NEW sub
  PROVE  /\ Bearers(sub) = {} => {x \in DOMAIN clients' : clients'[x].sub = sub} = {}
         /\ (\A x \in Bearers(sub) : clients[x].links = {}) =>
              \A x \in DOMAIN clients' : clients'[x].sub = sub => clients'[x].links = {}
<1>1. \A x \in DOMAIN clients' : clients'[x].sub = sub =>
        \E y \in Bearers(sub) : clients'[x].links = clients[y].links
  BY DEF Bearers
<1> QED  BY <1>1

LEMMA FailKeeps == ASSUME FormBook, RequestFails PROVE FormBook'
<1> USE DEF FormBook
<1> DEFINE half == clientAlibi.halfway \/ clientSaving.stage \in {"detach", "links"}
<1>1. /\ UNCHANGED <<clients, optionsLoaded, hydrating, clientForm, clientFields, toggling, clientClicks>>
      /\ clientSaving.stage # "none" /\ clientSaving' = NotSaving
      /\ clientAlibi' = [clientAlibi EXCEPT !.halfway = half]
  BY DEF RequestFails
<1>2. half \in BOOLEAN
  BY DEF FormTyped
<1>3. /\ FormTyped'
      /\ clientAlibi'.typed = clientAlibi.typed /\ clientAlibi'.for = clientAlibi.for
      /\ clientAlibi'.blind = clientAlibi.blind /\ clientAlibi'.disturbed = clientAlibi.disturbed
      /\ clientAlibi'.halfway = half
  <2> HIDE DEF half
  <2> QED  BY <1>1, <1>2 DEF FormTyped
<1>4. NotSaving.stage = "none" /\ NotSaving.faithful = FALSE /\ NotSaving.detach = {}
  BY DEF NotSaving
<1>5. SaveTyped'
  <2>1. NoFields \in LeafFields
    BY ClientFormAssumption DEF NoFields, LeafFields
  <2> QED  BY <1>1, <2>1 DEF SaveTyped, NotSaving, SaveStages
<1>6. ServerTyped'
  BY <1>1 DEF ServerTyped
<1>7. SaveSound' /\ FaithfulSound'
  BY <1>1, <1>4 DEF SaveSound, FaithfulSound
<1>8. SubsSound'
  <2>1. \A sub : Bearers(sub)' = Bearers(sub)
    BY <1>1 DEF Bearers
  <2> QED  BY <1>1, <1>3, <1>4, <2>1 DEF SubsSound, Bearers
<1>9. FormSeen'
  <2>1. Undisturbed' => Undisturbed /\ clientSaving.edit
    BY <1>1, <1>3 DEF Undisturbed, FormSeen
  <2>2. clientSaving.edit /\ ~half => clientSaving.stage \in {"update", "attach"} /\ ~clientAlibi.halfway
    BY <1>1 DEF SaveSound, SaveShape, SaveTyped, SaveStages
  <2> HIDE DEF half
  <2> QED  BY <1>1, <1>3, <1>4, <2>1, <2>2 DEF FormSeen, Exists
<1>10. FormUntouched'
  BY <1>1, <1>3, <1>4 DEF FormUntouched, Undisturbed, Exists
<1> QED  BY <1>3, <1>5, <1>6, <1>7, <1>8, <1>9, <1>10

LEMMA SwitchedKeeps == ASSUME FormBook, NEW ok \in BOOLEAN, ToggleAnswered(ok) PROVE FormBook'
<1> USE DEF FormBook
<1> DEFINE e == toggling.email
<1>1. /\ UNCHANGED <<optionsLoaded, hydrating, clientForm, clientFields, clientClicks>>
      /\ toggling.stage = "update" /\ toggling' = NotToggling
      /\ clients' = IF ok /\ Exists(e) THEN [clients EXCEPT ![e] = Updated(clients[e], toggling.base)] ELSE clients
      /\ clientAlibi' = [clientAlibi EXCEPT !.disturbed = TRUE]
      /\ clientSaving' = [clientSaving EXCEPT !.faithful = FALSE, !.undisturbed = FALSE]
  BY DEF ToggleAnswered
<1>2. /\ FormTyped'
      /\ clientAlibi'.disturbed /\ clientAlibi'.halfway = clientAlibi.halfway
  BY <1>1 DEF FormTyped
<1>3. /\ SaveTyped'
      /\ ~clientSaving'.faithful /\ ~clientSaving'.undisturbed
      /\ clientSaving'.stage = clientSaving.stage /\ clientSaving'.edit = clientSaving.edit
      /\ clientSaving'.target = clientSaving.target /\ clientSaving'.fields = clientSaving.fields
      /\ clientSaving'.attach = clientSaving.attach /\ clientSaving'.detach = clientSaving.detach
      /\ clientSaving'.again = clientSaving.again
  <2> DEFINE no == FALSE
  <2>1. /\ clientSaving' = [clientSaving EXCEPT !.faithful = no, !.undisturbed = no]
        /\ no \in BOOLEAN /\ ~no
    BY <1>1
  <2> HIDE DEF no
  <2> QED  BY <2>1 DEF SaveTyped
<1>4. /\ DOMAIN clients' = DOMAIN clients
      /\ \A x \in DOMAIN clients : /\ clients'[x] \in LeafRecord
                                   /\ clients'[x].sub = clients[x].sub
                                   /\ clients'[x].links = clients[x].links
  <2>1. CASE ok /\ Exists(e)
    <3>1. /\ Updated(clients[e], toggling.base) \in LeafRecord
          /\ Updated(clients[e], toggling.base).sub = clients[e].sub
          /\ Updated(clients[e], toggling.base).links = clients[e].links
      BY <1>1, <2>1, UpdatedIs DEF ServerTyped, Exists
    <3>2. clients' = [clients EXCEPT ![e] = Updated(clients[e], toggling.base)]
      BY <1>1, <2>1
    <3> DEFINE u == Updated(clients[e], toggling.base)
    <3> HIDE DEF u, e
    <3> QED  BY <3>1, <3>2, <2>1 DEF ServerTyped, Exists, u
  <2>2. CASE ~(ok /\ Exists(e))
    BY <1>1, <2>2 DEF ServerTyped
  <2> QED  BY <2>1, <2>2
<1>5. ServerTyped'
  <2>1. toggling'.stage # "update"
    BY <1>1 DEF NotToggling
  <2> QED  BY <1>1, <1>4, <2>1 DEF ServerTyped
<1>6. SaveSound'
  <2>1. SaveShape(clientSaving) => SaveShape(clientSaving')
    BY <1>3 DEF SaveShape
  <2> QED  BY <1>3, <1>4, <2>1 DEF SaveSound, Exists
<1>7. FaithfulSound'
  BY <1>3 DEF FaithfulSound
<1>8. SubsSound'
  <2>1. \A sub : Bearers(sub)' = Bearers(sub)
    BY <1>4 DEF Bearers
  <2>2. \A sub : \A x \in Bearers(sub) : clients'[x].links = clients[x].links
    BY <1>4 DEF Bearers
  <2> QED  BY <1>1, <1>2, <1>3, <1>4, <2>1, <2>2 DEF SubsSound
<1>9. FormSeen' /\ FormUntouched'
  BY <1>2 DEF FormSeen, FormUntouched, Undisturbed
<1> QED  BY <1>2, <1>3, <1>5, <1>6, <1>7, <1>8, <1>9

LEMMA NextIs ==
  ASSUME SaveTyped, clientSaving.stage # "none"
  PROVE  LET s == clientSaving
             next == NextStage(s)
         IN
         /\ next \in SaveStages
         /\ s.stage = "create" => next = IF s.fields.links # {} THEN "links" ELSE "none"
         /\ s.stage = "update" => next = IF s.attach # {} THEN "attach"
                                         ELSE IF s.detach # {} THEN "detach" ELSE "links"
         /\ s.stage = "attach" => next = IF s.detach # {} THEN "detach" ELSE "links"
         /\ s.stage = "detach" => next = "links"
         /\ s.stage = "links" => next = "none"
<1> DEFINE s == clientSaving
<1>1. s.stage \in SaveStages
  BY DEF SaveTyped
<1> HIDE DEF s
<1>2. CASE s.stage = "create"
  BY <1>2 DEF NextStage, SaveStages, s
<1>3. CASE s.stage = "update"
  BY <1>3 DEF NextStage, SaveStages, s
<1>4. CASE s.stage = "attach"
  BY <1>4 DEF NextStage, SaveStages, s
<1>5. CASE s.stage = "detach"
  BY <1>5 DEF NextStage, SaveStages, s
<1>6. CASE s.stage = "links"
  BY <1>6 DEF NextStage, SaveStages, s
<1> QED  BY <1>1, <1>2, <1>3, <1>4, <1>5, <1>6 DEF SaveStages, s

LEMMA SucceededIs ==
  ASSUME FormBook, RequestSucceeds
  PROVE  LET s == clientSaving
             t == clientSaving'
             next == NextStage(s)
         IN
         /\ UNCHANGED <<optionsLoaded, hydrating, clientFields, toggling, clientAlibi, clientClicks>>
         /\ FormTyped' /\ SaveTyped'
         /\ clientForm'.mode = clientForm.mode /\ clientForm'.email = clientForm.email
         /\ clientForm'.ids = clientForm.ids /\ clientForm'.open = (clientForm.open /\ next # "none")
         /\ next = "none" => t = NotSaving
         /\ next # "none" => /\ t.stage = next /\ t.edit = s.edit /\ t.target = s.target
                             /\ t.fields = s.fields /\ t.attach = s.attach /\ t.detach = s.detach
                             /\ t.faithful = s.faithful /\ t.undisturbed = s.undisturbed
                             /\ t.again = s.again
<1> USE DEF FormBook
<1> DEFINE next == NextStage(clientSaving)
           left == clientForm.open /\ next # "none"
<1>1. /\ UNCHANGED <<optionsLoaded, hydrating, clientFields, toggling, clientAlibi, clientClicks>>
      /\ clientSaving' = IF next = "none" THEN NotSaving ELSE [clientSaving EXCEPT !.stage = next]
      /\ clientForm' = [clientForm EXCEPT !.open = left]
      /\ clientSaving.stage # "none"
  BY DEF RequestSucceeds
<1>2. next \in SaveStages
  BY <1>1, NextIs
<1>3. left \in BOOLEAN
  BY DEF FormTyped
<1> HIDE DEF next
<1>4. /\ FormTyped'
      /\ clientForm'.mode = clientForm.mode /\ clientForm'.email = clientForm.email
      /\ clientForm'.ids = clientForm.ids /\ clientForm'.open = left
  <2> HIDE DEF left
  <2> QED  BY <1>1, <1>3 DEF FormTyped
<1>5. CASE next = "none"
  <2>1. NoFields \in LeafFields
    BY ClientFormAssumption DEF NoFields, LeafFields
  <2>2. SaveTyped'
    BY <1>1, <1>5, <2>1 DEF SaveTyped, NotSaving, SaveStages
  <2> QED  BY <1>1, <1>4, <1>5, <2>2 DEF next
<1>6. CASE next # "none"
  <2>1. clientSaving' = [clientSaving EXCEPT !.stage = next]
    BY <1>1, <1>6
  <2>2. LET s == clientSaving
            t == clientSaving' IN
        /\ SaveTyped'
        /\ t.stage = next /\ t.edit = s.edit /\ t.target = s.target
        /\ t.fields = s.fields /\ t.attach = s.attach /\ t.detach = s.detach
        /\ t.faithful = s.faithful /\ t.undisturbed = s.undisturbed
        /\ t.again = s.again
    BY <2>1, <1>2 DEF SaveTyped
  <2> QED  BY <1>1, <1>4, <1>6, <2>2 DEF next
<1> QED  BY <1>5, <1>6

LEMMA LinkedIs ==
  ASSUME NEW r \in LeafRecord, NEW ls \in SUBSET Links
  PROVE  LET u == [r EXCEPT !.links = ls] IN
         /\ u \in LeafRecord
         /\ u.sub = r.sub /\ u.ids = r.ids /\ u.enable = r.enable /\ u.limit = r.limit
         /\ u.flows = r.flows /\ u.links = ls
BY DEF LeafRecord, ClientRecord

LEMMA AnsweredIs ==
  ASSUME FormBook, RequestSucceeds
  PROVE  LET s == clientSaving
             e == s.fields.email
             f == s.fields
         IN
         /\ s.stage = "create" =>
              /\ \A x \in DOMAIN clients : (x = e) = (clients[x].sub = f.sub)
              /\ DOMAIN clients' = DOMAIN clients \cup {e}
              /\ clients'[e] = Created(s)
              /\ \A x \in DOMAIN clients \ {e} : clients'[x] = clients[x]
         /\ s.stage = "update" =>
              /\ Exists(s.target) /\ (e # s.target => ~Exists(e))
              /\ DOMAIN clients' = (DOMAIN clients \ {s.target}) \cup {e}
              /\ clients'[e] = Updated(clients[s.target], f)
              /\ \A x \in DOMAIN clients \ {e, s.target} : clients'[x] = clients[x]
         /\ s.stage \in {"attach", "detach", "links"} =>
              /\ Exists(e) /\ DOMAIN clients' = DOMAIN clients
              /\ clients'[e] = CASE s.stage = "attach" -> Attached(clients[e], s.attach)
                                 [] s.stage = "detach" -> Detached(clients[e], s.detach)
                                 [] s.stage = "links" -> [clients[e] EXCEPT !.links = f.links]
              /\ \A x \in DOMAIN clients \ {e} : clients'[x] = clients[x]
<1> DEFINE s == clientSaving
           e == s.fields.email
           f == s.fields
<1>1. Acceptable(s) /\ clients' = Answered(s)
  BY DEF RequestSucceeds
<1>2. CASE s.stage = "create"
  <2>1. clients' = [x \in DOMAIN clients \cup {e} |-> IF x = e THEN Created(s) ELSE clients[x]]
    BY <1>1, <1>2 DEF Answered
  <2>2. \A x \in DOMAIN clients : (x = e) = (clients[x].sub = f.sub)
    BY <1>1, <1>2 DEF Acceptable
  <2> DEFINE new == Created(s)
  <2> HIDE DEF s, e, f, new
  <2>3. /\ DOMAIN clients' = DOMAIN clients \cup {e}
        /\ clients'[e] = new
        /\ \A x \in DOMAIN clients \ {e} : clients'[x] = clients[x]
    BY <2>1 DEF new
  <2> QED  BY <1>2, <2>2, <2>3 DEF s, e, f, new
<1>3. CASE s.stage = "update"
  <2>1. clients' = [x \in (DOMAIN clients \ {s.target}) \cup {e} |->
                      IF x = e THEN Updated(clients[s.target], f) ELSE clients[x]]
    BY <1>1, <1>3 DEF Answered, Rekeyed
  <2>2. Exists(s.target) /\ (e # s.target => ~Exists(e))
    BY <1>1, <1>3 DEF Acceptable
  <2> DEFINE new == Updated(clients[s.target], f)
             old == s.target
  <2> HIDE DEF s, e, f, new, old
  <2>3. /\ DOMAIN clients' = (DOMAIN clients \ {old}) \cup {e}
        /\ clients'[e] = new
        /\ \A x \in DOMAIN clients \ {e, old} : clients'[x] = clients[x]
    BY <2>1 DEF new, old
  <2> QED  BY <1>3, <2>2, <2>3 DEF s, e, f, new, old
<1>4. CASE s.stage = "attach"
  <2>1. clients' = [clients EXCEPT ![e] = Attached(clients[e], s.attach)] /\ Exists(e)
    BY <1>1, <1>4 DEF Answered, Acceptable
  <2> DEFINE new == Attached(clients[e], s.attach)
  <2> HIDE DEF new, e, s
  <2>2. DOMAIN clients' = DOMAIN clients /\ clients'[e] = new
        /\ \A x \in DOMAIN clients \ {e} : clients'[x] = clients[x]
    BY <2>1 DEF Exists, new
  <2> QED  BY <1>4, <2>1, <2>2 DEF new, e, s
<1>5. CASE s.stage = "detach"
  <2>1. clients' = [clients EXCEPT ![e] = Detached(clients[e], s.detach)] /\ Exists(e)
    BY <1>1, <1>5 DEF Answered, Acceptable
  <2> DEFINE new == Detached(clients[e], s.detach)
  <2> HIDE DEF new, e, s
  <2>2. DOMAIN clients' = DOMAIN clients /\ clients'[e] = new
        /\ \A x \in DOMAIN clients \ {e} : clients'[x] = clients[x]
    BY <2>1 DEF Exists, new
  <2> QED  BY <1>5, <2>1, <2>2 DEF new, e, s
<1>6. CASE s.stage = "links"
  <2>1. clients' = [clients EXCEPT ![e] = [clients[e] EXCEPT !.links = f.links]] /\ Exists(e)
    BY <1>1, <1>6 DEF Answered, Acceptable
  <2> DEFINE new == [clients[e] EXCEPT !.links = f.links]
  <2> HIDE DEF new, e, s
  <2>2. DOMAIN clients' = DOMAIN clients /\ clients'[e] = new
        /\ \A x \in DOMAIN clients \ {e} : clients'[x] = clients[x]
    BY <2>1 DEF Exists, new
  <2> QED  BY <1>6, <2>1, <2>2 DEF new, e, s
<1> HIDE DEF e, f
<1> QED  BY <1>2, <1>3, <1>4, <1>5, <1>6 DEF s, e, f

\* What the form and the save under way look like after a request that succeeds.
LEMMA StillSound ==
  ASSUME FormBook, RequestSucceeds, ServerTyped',
         \A x \in DOMAIN clients' : \E y \in DOMAIN clients :
           clients'[x].sub = clients[y].sub /\ clients'[x].links = clients[y].links,
         clientSaving'.stage # "create", clientSaving.edit
  PROVE  SubsSound'
<1> USE DEF FormBook
<1>1. /\ UNCHANGED <<optionsLoaded, hydrating, clientFields, toggling, clientAlibi, clientClicks>>
      /\ clientForm'.mode = clientForm.mode
      /\ clientForm'.open => clientForm.open
  BY SucceededIs
<1>2. \A x \in DOMAIN clients' : clients'[x].sub = 0 \/ clients'[x].sub < clientClicks'
  BY <1>1 DEF SubsSound
<1>3. clientForm'.open /\ clientForm'.mode = "add" =>
        /\ clientFields'.sub <= clientClicks'
        /\ \A x \in DOMAIN clients' : clients'[x].sub = clientFields'.sub => clients'[x].links = {}
        /\ ~clientAlibi'.halfway => {x \in DOMAIN clients' : clients'[x].sub = clientFields'.sub} = {}
  BY <1>1, BearersKept DEF SubsSound
<1> QED  BY <1>1, <1>2, <1>3 DEF SubsSound, Bearers

LEMMA CreateKeeps ==
  ASSUME FormBook, RequestSucceeds, clientSaving.stage = "create"
  PROVE  FormBook'
<1> USE DEF FormBook
<1> DEFINE s == clientSaving
           t == clientSaving'
           f == s.fields
           e == f.email
           next == NextStage(s)
<1>1. /\ UNCHANGED <<optionsLoaded, hydrating, clientFields, toggling, clientAlibi, clientClicks>>
      /\ FormTyped' /\ SaveTyped'
      /\ clientForm'.mode = clientForm.mode /\ clientForm'.open = (clientForm.open /\ next # "none")
      /\ next = "none" => t = NotSaving
      /\ next # "none" => /\ t.stage = next /\ t.edit = s.edit /\ t.target = s.target
                          /\ t.fields = s.fields /\ t.attach = s.attach /\ t.detach = s.detach
                          /\ t.faithful = s.faithful /\ t.undisturbed = s.undisturbed
                          /\ t.again = s.again
  BY SucceededIs
<1>2. /\ \A x \in DOMAIN clients : (x = e) = (clients[x].sub = f.sub)
      /\ DOMAIN clients' = DOMAIN clients \cup {e}
      /\ clients'[e] = Created(s)
      /\ \A x \in DOMAIN clients \ {e} : clients'[x] = clients[x]
  BY AnsweredIs
<1>3. next \in {"links", "none"}
  BY NextIs
<1>4. /\ ~s.edit /\ s.attach = {} /\ s.detach = {} /\ f.ids # {} /\ e \in Emails
      /\ f.flow => TakeFlow(f.ids)
  BY DEF SaveSound, SaveShape
<1>5. /\ f \in LeafFields
      /\ Created(s) \in LeafRecord
      /\ Exists(e) => Created(s).sub = clients[e].sub /\ Created(s).links = clients[e].links
      /\ ~Exists(e) => Created(s).sub = f.sub /\ Created(s).links = {}
      /\ ~Exists(e) => /\ Created(s).ids = f.ids /\ Created(s).limit = f.limit
                       /\ Created(s).flows = IF f.flow THEN f.ids \cap FlowCapable ELSE {}
  <2>1. f \in LeafFields
    BY DEF SaveTyped
  <2> QED  BY <2>1, <1>4, CreatedIs
<1>6. /\ NotSaving.stage = "none" /\ NotSaving.faithful = FALSE /\ NotSaving.detach = {}
  BY DEF NotSaving
<1> DEFINE u == Created(s)
<1> HIDE DEF u, next
<1>7. ServerTyped'
  BY <1>1, <1>2, <1>4, <1>5 DEF ServerTyped, u
<1>8. ~Exists(e) => \A x \in DOMAIN clients : clients[x].sub # f.sub
  BY <1>2 DEF Exists
<1>9. SubsSound'
  <2>1. f.sub < clientClicks /\ \A x \in DOMAIN clients : clients[x].sub = f.sub => clients[x].links = {}
    BY DEF SubsSound, Bearers
  <2>2. \A x \in DOMAIN clients' : clients'[x].sub = 0 \/ clients'[x].sub < clientClicks'
    BY <1>1, <1>2, <1>5, <2>1 DEF SubsSound, Exists, u
  <2>3. \A x \in DOMAIN clients' :
          \/ clients'[x].links = {}
          \/ x \in DOMAIN clients /\ clients'[x].sub = clients[x].sub /\ clients'[x].links = clients[x].links
    BY <1>2, <1>5 DEF Exists, u
  <2>4. clientForm'.open /\ clientForm'.mode = "add" =>
          /\ clientFields'.sub <= clientClicks'
          /\ \A x \in DOMAIN clients' : clients'[x].sub = clientFields'.sub => clients'[x].links = {}
          /\ t.stage = "links" /\ ~t.edit
    BY <1>1, <1>3, <1>4, <2>3 DEF SubsSound, Bearers
  <2>5. t.stage # "create"
    BY <1>1, <1>3, <1>6
  <2> HIDE DEF s, f, e
  <2> QED  BY <1>1, <2>2, <2>4, <2>5 DEF SubsSound, Bearers
<1>10. ~s.faithful
  BY <1>4 DEF FaithfulSound
<1>11. ~t.faithful
  BY <1>1, <1>6, <1>10
<1>12. FaithfulSound'
  BY <1>11 DEF FaithfulSound
<1>13. SaveSound'
  <2>1. CASE next = "none"
    BY <1>1, <1>6, <2>1 DEF SaveSound
  <2>2. CASE next = "links"
    <3>1. /\ t.stage = "links" /\ ~t.edit /\ t.fields = f /\ t.attach = {} /\ t.detach = {}
          /\ t.again = s.again
      BY <1>1, <1>4, <2>2
    <3>2. SaveShape(t)
      BY <3>1, <1>4 DEF SaveShape
    <3>3. ~s.again => ~Exists(e)
      BY <1>2 DEF SubsSound, Bearers, Exists
    <3>4. Was(t) = f.ids /\ OnNow(t) = f.ids
      BY <3>1 DEF Was, OnNow
    <3>5. Reached(clients'[e], t)
      <4>1. ~t.again => /\ u.ids = f.ids /\ u.limit = f.limit
                        /\ u.flows = IF f.flow THEN f.ids \cap FlowCapable ELSE {}
        BY <1>5, <3>1, <3>3 DEF u
      <4>2. f.flow = (f.flow /\ TakeFlow(f.ids)) /\ clients'[e] = u
        BY <1>2, <1>4, <1>5 DEF u, LeafFields
      <4> HIDE DEF s, t, f, e
      <4>3. ~t.again => /\ u.ids = OnNow(t) /\ u.limit = t.fields.limit
                        /\ u.flows = IF t.fields.flow /\ TakeFlow(Was(t)) THEN u.ids \cap FlowCapable ELSE {}
        BY <4>1, <4>2, <3>1, <3>4
      <4> QED  BY <4>2, <4>3, <3>1 DEF Reached
    <3>6. e \in DOMAIN clients'
      BY <1>2
    <3>7. t.detach \cap t.fields.ids = {}
      BY <3>1
    <3> HIDE DEF s, f, e
    <3> QED  BY <3>1, <3>2, <3>5, <3>6, <3>7 DEF SaveSound, Exists, e
  <2> QED  BY <1>3, <2>1, <2>2
<1>14. ~Undisturbed'
  <2>1. Undisturbed' => Undisturbed
    BY <1>1 DEF Undisturbed
  <2> QED  BY <2>1, <1>4 DEF FormSeen
<1>15. FormSeen' /\ FormUntouched'
  BY <1>14 DEF FormSeen, FormUntouched
<1> QED  BY <1>1, <1>7, <1>9, <1>12, <1>13, <1>15

LEMMA UpdatedKeepsLike ==
  ASSUME NEW r \in LeafRecord, NEW f \in LeafFields, Like(r, f)
  PROVE  Like(Updated(r, f), f)
<1> DEFINE u == Updated(r, f)
<1>1. /\ u \in LeafRecord
      /\ u.sub = r.sub /\ u.ids = r.ids /\ u.links = r.links /\ u.enable = f.enable
      /\ u.limit = IF r.ids = {} THEN r.limit ELSE f.limit
      /\ u.flows = IF f.flow THEN r.ids \cap FlowCapable ELSE {}
  BY UpdatedIs
<1> HIDE DEF u
<1>2. /\ r.ids = f.ids /\ r.links = f.links /\ HasFlow(r) = f.flow
      /\ f.limit <= r.limit + Step \div 2 /\ r.limit <= f.limit + Step \div 2
  BY DEF Like
<1>3. r.flows \subseteq r.ids \cap FlowCapable /\ f.limit \in Nat /\ Step \div 2 \in Nat /\ f.flow \in BOOLEAN
  BY ClientFormAssumption DEF LeafRecord, LeafFields
<1>4. HasFlow(u) = f.flow
  BY <1>1, <1>2, <1>3 DEF HasFlow
<1>5. f.limit <= u.limit + Step \div 2 /\ u.limit <= f.limit + Step \div 2
  <2> DEFINE h == Step \div 2
  <2>1. h \in Nat
    BY <1>3
  <2> HIDE DEF h
  <2>2. f.limit <= f.limit + h
    BY <1>3, <2>1
  <2>3. CASE r.ids = {}
    BY <1>1, <1>2, <2>3 DEF h
  <2>4. CASE r.ids # {}
    BY <1>1, <2>2, <2>4 DEF h
  <2> QED  BY <2>3, <2>4
<1> QED  BY <1>1, <1>2, <1>4, <1>5 DEF Like, u

LEMMA UpdateKeeps ==
  ASSUME FormBook, RequestSucceeds, clientSaving.stage = "update"
  PROVE  FormBook'
<1> USE DEF FormBook
<1> DEFINE s == clientSaving
           t == clientSaving'
           f == s.fields
           e == f.email
           r == clients[s.target]
           next == NextStage(s)
<1>1. /\ next = IF s.attach # {} THEN "attach" ELSE IF s.detach # {} THEN "detach" ELSE "links"
  BY NextIs
<1>2. /\ UNCHANGED <<optionsLoaded, hydrating, clientFields, toggling, clientAlibi, clientClicks>>
      /\ FormTyped' /\ SaveTyped'
      /\ clientForm'.mode = clientForm.mode /\ clientForm'.email = clientForm.email
      /\ clientForm'.ids = clientForm.ids /\ clientForm'.open = clientForm.open
      /\ t.stage = next /\ t.edit = s.edit /\ t.target = s.target
      /\ t.fields = s.fields /\ t.attach = s.attach /\ t.detach = s.detach
      /\ t.faithful = s.faithful /\ t.undisturbed = s.undisturbed /\ t.again = s.again
  <2>1. clientForm.open \in BOOLEAN /\ next # "none"
    BY <1>1 DEF FormTyped
  <2> QED  BY <2>1, SucceededIs
<1>3. /\ Exists(s.target) /\ (e # s.target => ~Exists(e))
      /\ DOMAIN clients' = (DOMAIN clients \ {s.target}) \cup {e}
      /\ clients'[e] = Updated(r, f)
      /\ \A x \in DOMAIN clients \ {e, s.target} : clients'[x] = clients[x]
  BY AnsweredIs
<1>4. /\ s.edit /\ e \in Emails /\ s.attach \subseteq f.ids /\ s.detach \cap f.ids = {}
      /\ f.flow => TakeFlow(f.ids)
  BY DEF SaveSound, SaveShape
<1>5. r \in LeafRecord /\ f \in LeafFields
  BY <1>3 DEF ServerTyped, Exists, SaveTyped
<1> DEFINE u == Updated(r, f)
<1>6. /\ u \in LeafRecord
      /\ u.sub = r.sub /\ u.ids = r.ids /\ u.links = r.links /\ u.enable = f.enable
      /\ u.limit = IF r.ids = {} THEN r.limit ELSE f.limit
      /\ u.flows = IF f.flow THEN r.ids \cap FlowCapable ELSE {}
  BY <1>5, UpdatedIs
<1> HIDE DEF u, next
<1>7. ServerTyped'
  BY <1>2, <1>3, <1>4, <1>6 DEF ServerTyped, u
<1>8. SubsSound'
  <2>1. \A x \in DOMAIN clients' : \E y \in DOMAIN clients :
           clients'[x].sub = clients[y].sub /\ clients'[x].links = clients[y].links
    BY <1>3, <1>6 DEF Exists, u
  <2>2. t.stage # "create"
    BY <1>1, <1>2
  <2> QED  BY <1>4, <1>7, <2>1, <2>2, StillSound
<1>9. SaveSound'
  <2>1. SaveShape(t)
    BY <1>1, <1>2, <1>4 DEF SaveShape
  <2>2. t.undisturbed => Reached(clients'[e], t)
    <3> SUFFICES ASSUME t.undisturbed PROVE Reached(clients'[e], t)
      OBVIOUS
    <3>1. Was(t) = Was(s)
      BY <1>2 DEF Was
    <3>2. ~t.again => r.ids = Was(t)
      BY <1>2, <1>3, <3>1 DEF SaveSound
    <3>3. OnNow(t) = Was(t)
      BY <1>1, <1>2 DEF OnNow, Was
    <3>4. clients'[e].flows = IF t.fields.flow /\ TakeFlow(r.ids) THEN clients'[e].ids \cap FlowCapable ELSE {}
      BY <1>2, <1>3, <1>6 DEF TakeFlow, u
    <3>5. clients'[e].ids = r.ids /\ clients'[e].enable = t.fields.enable
          /\ (r.ids # {} => clients'[e].limit = t.fields.limit)
      BY <1>2, <1>3, <1>6 DEF u
    <3> HIDE DEF s, t, f, e, r
    <3> QED  BY <3>2, <3>3, <3>4, <3>5 DEF Reached
  <2>3. e \in DOMAIN clients' /\ t.stage # "update" /\ t.fields.email = e
    BY <1>1, <1>2, <1>3
  <2>4. t.detach \cap t.fields.ids = {}
    BY <1>2, <1>4
  <2> HIDE DEF s, f, e, r
  <2> QED  BY <2>1, <2>2, <2>3, <2>4 DEF SaveSound, Exists
<1>10. FaithfulSound'
  <2> SUFFICES ASSUME t.faithful
               PROVE  /\ t.stage \in {"update", "links"} /\ t.edit
                      /\ t.target = t.fields.email /\ t.target \in DOMAIN clients'
                      /\ t.attach = {} /\ t.detach = {}
                      /\ Like(clients'[t.target], t.fields)
    BY DEF FaithfulSound, Exists
  <2>1. s.target = e /\ s.attach = {} /\ s.detach = {} /\ Like(r, f)
    BY <1>2 DEF FaithfulSound
  <2>2. Like(u, f)
    BY <2>1, <1>5, UpdatedKeepsLike DEF u
  <2> QED  BY <1>1, <1>2, <1>3, <1>4, <2>1, <2>2 DEF u
<1>11. Undisturbed' => Undisturbed /\ s.target = clientForm.email
  BY <1>2 DEF Undisturbed, FormSeen
<1>12. FormSeen'
  <2> SUFFICES ASSUME Undisturbed'
               PROVE  /\ clientForm'.email = clientAlibi'.for
                      /\ ~clientAlibi'.halfway /\ t.stage \in {"none", "update", "attach"}
                           /\ clientForm'.email \in DOMAIN clients' =>
                         clients'[clientForm'.email].ids = clientForm'.ids
                      /\ t.stage # "none" => t.edit /\ t.target = clientForm'.email
    BY DEF FormSeen, Exists
  <2>1. ~clientAlibi.halfway => r.ids = clientForm.ids
    BY <1>3, <1>11 DEF FormSeen
  <2>2. clientForm.email \in DOMAIN clients' => clientForm.email = e
    BY <1>3, <1>11
  <2>3. clientForm.email = clientAlibi.for
    BY <1>11 DEF FormSeen
  <2> QED  BY <1>2, <1>3, <1>4, <1>6, <1>11, <2>1, <2>2, <2>3 DEF u
<1>13. FormUntouched'
  <2> SUFFICES ASSUME Undisturbed', clientAlibi'.typed = 0, ~clientAlibi'.blind
               PROVE  /\ optionsLoaded' /\ clientForm'.email \in DOMAIN clients'
                      /\ Like(clients'[clientForm'.email], clientFields')
                      /\ clientFields'.ids = clientForm'.ids /\ clientFields'.email = clientForm'.email
                      /\ t.stage # "none" => t.faithful /\ t.fields = clientFields'
    BY DEF FormUntouched, Exists
  <2>1. /\ optionsLoaded /\ clientFields.ids = clientForm.ids /\ clientFields.email = clientForm.email
        /\ s.faithful /\ f = clientFields
    BY <1>2, <1>11 DEF FormUntouched
  <2>2. Like(r, f) /\ e = clientForm.email
    BY <2>1, <1>11 DEF FaithfulSound
  <2>3. Like(u, f)
    BY <2>2, <1>5, UpdatedKeepsLike DEF u
  <2> QED  BY <1>2, <1>3, <2>1, <2>2, <2>3 DEF u
<1> QED  BY <1>2, <1>7, <1>8, <1>9, <1>10, <1>12, <1>13

LEMMA AttachKeeps ==
  ASSUME FormBook, RequestSucceeds, clientSaving.stage = "attach"
  PROVE  FormBook'
<1> USE DEF FormBook
<1> DEFINE s == clientSaving
           t == clientSaving'
           f == s.fields
           e == f.email
           r == clients[e]
           next == NextStage(s)
<1>1. next = IF s.detach # {} THEN "detach" ELSE "links"
  BY NextIs
<1>2. /\ UNCHANGED <<optionsLoaded, hydrating, clientFields, toggling, clientAlibi, clientClicks>>
      /\ FormTyped' /\ SaveTyped'
      /\ clientForm'.mode = clientForm.mode /\ clientForm'.email = clientForm.email
      /\ clientForm'.ids = clientForm.ids /\ clientForm'.open = clientForm.open
      /\ t.stage = next /\ t.edit = s.edit /\ t.target = s.target
      /\ t.fields = s.fields /\ t.attach = s.attach /\ t.detach = s.detach
      /\ t.faithful = s.faithful /\ t.undisturbed = s.undisturbed /\ t.again = s.again
  <2>1. clientForm.open \in BOOLEAN /\ next # "none"
    BY <1>1 DEF FormTyped
  <2> QED  BY <2>1, SucceededIs
<1>3. /\ Exists(e) /\ DOMAIN clients' = DOMAIN clients
      /\ clients'[e] = Attached(r, s.attach)
      /\ \A x \in DOMAIN clients \ {e} : clients'[x] = clients[x]
  BY AnsweredIs
<1>4. /\ s.edit /\ s.attach \subseteq f.ids /\ s.detach \cap f.ids = {} /\ SaveShape(s)
  BY DEF SaveSound, SaveShape
<1>5. r \in LeafRecord /\ s.attach \in SUBSET Gateways
  BY <1>3 DEF ServerTyped, Exists, SaveTyped
<1> DEFINE u == Attached(r, s.attach)
<1>6. /\ u \in LeafRecord
      /\ u.sub = r.sub /\ u.links = r.links /\ u.enable = r.enable /\ u.limit = r.limit
      /\ u.ids = r.ids \cup s.attach
      /\ u.flows = r.flows \cup (IF r.flows # {} THEN (s.attach \ r.ids) \cap FlowCapable ELSE {})
  BY <1>5, AttachedIs
<1> HIDE DEF u, next
<1>7. ServerTyped'
  BY <1>2, <1>3, <1>6 DEF ServerTyped, u
<1>8. SubsSound'
  <2>1. \A x \in DOMAIN clients' : \E y \in DOMAIN clients :
           clients'[x].sub = clients[y].sub /\ clients'[x].links = clients[y].links
    BY <1>3, <1>6 DEF Exists, u
  <2>2. t.stage # "create"
    BY <1>1, <1>2
  <2> QED  BY <1>4, <1>7, <2>1, <2>2, StillSound
<1>9. SaveSound'
  <2>1. SaveShape(t)
    BY <1>1, <1>2, <1>4 DEF SaveShape
  <2>2. t.undisturbed => Reached(u, t)
    <3> SUFFICES ASSUME t.undisturbed PROVE Reached(u, t)
      OBVIOUS
    <3>1. Was(t) = Was(s) /\ Was(s) = (f.ids \ s.attach) \cup s.detach
      BY <1>2 DEF Was
    <3>2. /\ r.enable = f.enable
          /\ ~s.again => /\ r.ids = Was(s) /\ (Was(s) # {} => r.limit = f.limit)
                         /\ r.flows = IF f.flow /\ TakeFlow(Was(s)) THEN Was(s) \cap FlowCapable ELSE {}
      BY <1>2, <1>4 DEF SaveSound, Reached, OnNow
    <3>3. ~t.again => u.ids = OnNow(t)
      <4>1. ~t.again => u.ids = Was(s) \cup s.attach
        BY <1>2, <1>6, <3>2
      <4>2. CASE next = "detach"
        BY <1>2, <3>1, <4>1, <4>2 DEF OnNow
      <4>3. CASE next # "detach"
        <5>1. s.detach = {} /\ next = "links"
          BY <1>1, <4>3
        <5>2. Was(s) \cup s.attach = f.ids
          BY <1>4, <3>1, <5>1
        <5> QED  BY <1>2, <4>1, <5>1, <5>2 DEF OnNow
      <4> QED  BY <4>2, <4>3
    <3>4. ~t.again => u.flows = IF f.flow /\ TakeFlow(Was(s)) THEN u.ids \cap FlowCapable ELSE {}
      <4> SUFFICES ASSUME ~t.again
                   PROVE  u.flows = IF f.flow /\ TakeFlow(Was(s)) THEN u.ids \cap FlowCapable ELSE {}
        OBVIOUS
      <4>1. /\ r.ids = Was(s)
            /\ r.flows = IF f.flow /\ TakeFlow(Was(s)) THEN Was(s) \cap FlowCapable ELSE {}
        BY <1>2, <3>2
      <4>2. CASE f.flow /\ TakeFlow(Was(s))
        <5>1. r.flows = Was(s) \cap FlowCapable /\ r.flows # {}
          BY <4>1, <4>2 DEF TakeFlow
        <5> QED  BY <1>6, <4>1, <4>2, <5>1
      <4>3. CASE ~(f.flow /\ TakeFlow(Was(s)))
        BY <1>6, <4>1, <4>3
      <4> QED  BY <4>2, <4>3
    <3>5. u.enable = t.fields.enable /\ (~t.again /\ Was(t) # {} => u.limit = t.fields.limit)
      BY <1>2, <1>6, <3>1, <3>2
    <3>6. ~t.again => u.flows = IF t.fields.flow /\ TakeFlow(Was(t)) THEN u.ids \cap FlowCapable ELSE {}
      BY <1>2, <3>1, <3>4
    <3> HIDE DEF s, t, f, e, r
    <3> QED  BY <3>3, <3>5, <3>6 DEF Reached
  <2>3. e \in DOMAIN clients' /\ t.stage # "update" /\ t.fields.email = e /\ clients'[e] = u
    BY <1>1, <1>2, <1>3 DEF Exists, u
  <2>4. t.detach \cap t.fields.ids = {}
    BY <1>2, <1>4
  <2> HIDE DEF s, f, e, r
  <2> QED  BY <2>1, <2>2, <2>3, <2>4 DEF SaveSound, Exists
<1>10. ~t.faithful /\ ~s.faithful
  BY <1>2 DEF FaithfulSound
<1>11. FaithfulSound'
  BY <1>10 DEF FaithfulSound
<1>12. Undisturbed' => Undisturbed
  BY <1>2 DEF Undisturbed
<1>13. FormSeen'
  <2>1. t.stage \notin {"none", "update", "attach"}
    BY <1>1, <1>2
  <2>2. Undisturbed => clientForm.email = clientAlibi.for /\ s.target = clientForm.email
    BY DEF FormSeen
  <2> QED  BY <1>2, <1>4, <1>12, <2>1, <2>2 DEF FormSeen
<1>14. FormUntouched'
  <2>1. ~(Undisturbed /\ clientAlibi.typed = 0 /\ ~clientAlibi.blind)
    BY <1>10 DEF FormUntouched
  <2> QED  BY <1>2, <1>12, <2>1 DEF FormUntouched
<1> QED  BY <1>2, <1>7, <1>8, <1>9, <1>11, <1>13, <1>14

LEMMA DetachKeeps ==
  ASSUME FormBook, RequestSucceeds, clientSaving.stage = "detach"
  PROVE  FormBook'
<1> USE DEF FormBook
<1> DEFINE s == clientSaving
           t == clientSaving'
           f == s.fields
           e == f.email
           r == clients[e]
           next == NextStage(s)
<1>1. next = "links"
  BY NextIs
<1>2. /\ UNCHANGED <<optionsLoaded, hydrating, clientFields, toggling, clientAlibi, clientClicks>>
      /\ FormTyped' /\ SaveTyped'
      /\ clientForm'.mode = clientForm.mode /\ clientForm'.email = clientForm.email
      /\ clientForm'.ids = clientForm.ids /\ clientForm'.open = clientForm.open
      /\ t.stage = next /\ t.edit = s.edit /\ t.target = s.target
      /\ t.fields = s.fields /\ t.attach = s.attach /\ t.detach = s.detach
      /\ t.faithful = s.faithful /\ t.undisturbed = s.undisturbed /\ t.again = s.again
  <2>1. clientForm.open \in BOOLEAN /\ next # "none"
    BY <1>1 DEF FormTyped
  <2> QED  BY <2>1, SucceededIs
<1>3. /\ Exists(e) /\ DOMAIN clients' = DOMAIN clients
      /\ clients'[e] = Detached(r, s.detach)
      /\ \A x \in DOMAIN clients \ {e} : clients'[x] = clients[x]
  BY AnsweredIs
<1>4. /\ s.edit /\ s.attach \subseteq f.ids /\ s.detach \cap f.ids = {} /\ SaveShape(s)
  BY DEF SaveSound, SaveShape
<1>5. r \in LeafRecord
  BY <1>3 DEF ServerTyped, Exists
<1> DEFINE u == Detached(r, s.detach)
<1>6. /\ u \in LeafRecord
      /\ u.sub = r.sub /\ u.links = r.links /\ u.enable = r.enable /\ u.limit = r.limit
      /\ u.ids = r.ids \ s.detach /\ u.flows = r.flows \ s.detach
  BY <1>5, DetachedIs
<1> HIDE DEF u, next
<1>7. ServerTyped'
  BY <1>2, <1>3, <1>6 DEF ServerTyped, u
<1>8. SubsSound'
  <2>1. \A x \in DOMAIN clients' : \E y \in DOMAIN clients :
           clients'[x].sub = clients[y].sub /\ clients'[x].links = clients[y].links
    BY <1>3, <1>6 DEF Exists, u
  <2>2. t.stage # "create"
    BY <1>1, <1>2
  <2> QED  BY <1>4, <1>7, <2>1, <2>2, StillSound
<1>9. SaveSound'
  <2>1. SaveShape(t)
    BY <1>1, <1>2, <1>4 DEF SaveShape
  <2>2. t.undisturbed => Reached(u, t)
    <3> SUFFICES ASSUME t.undisturbed PROVE Reached(u, t)
      OBVIOUS
    <3>1. Was(t) = Was(s) /\ Was(s) = (f.ids \ s.attach) \cup s.detach
      BY <1>2 DEF Was
    <3>2. /\ r.enable = f.enable
          /\ ~s.again => /\ r.ids = Was(s) \cup s.attach /\ (Was(s) # {} => r.limit = f.limit)
                         /\ r.flows = IF f.flow /\ TakeFlow(Was(s)) THEN r.ids \cap FlowCapable ELSE {}
      BY <1>2, <1>4 DEF SaveSound, Reached, OnNow
    <3>3. ~t.again => u.ids = OnNow(t)
      <4>1. ((f.ids \ s.attach) \cup s.detach \cup s.attach) \ s.detach = f.ids
        BY <1>4
      <4> QED  BY <1>1, <1>2, <1>6, <3>1, <3>2, <4>1 DEF OnNow
    <3>4. ~t.again => u.flows = IF t.fields.flow /\ TakeFlow(Was(t)) THEN u.ids \cap FlowCapable ELSE {}
      <4> SUFFICES ASSUME ~t.again
                   PROVE  u.flows = IF f.flow /\ TakeFlow(Was(s)) THEN u.ids \cap FlowCapable ELSE {}
        BY <1>2, <3>1
      <4>1. r.flows = IF f.flow /\ TakeFlow(Was(s)) THEN r.ids \cap FlowCapable ELSE {}
        BY <1>2, <3>2
      <4>2. CASE f.flow /\ TakeFlow(Was(s))
        <5>1. r.flows = r.ids \cap FlowCapable
          BY <4>1, <4>2
        <5> QED  BY <1>6, <4>2, <5>1
      <4>3. CASE ~(f.flow /\ TakeFlow(Was(s)))
        <5>1. r.flows = {}
          BY <4>1, <4>3
        <5> QED  BY <1>6, <4>3, <5>1
      <4> QED  BY <4>2, <4>3
    <3>5. u.enable = t.fields.enable /\ (~t.again /\ Was(t) # {} => u.limit = t.fields.limit)
      BY <1>2, <1>6, <3>1, <3>2
    <3> HIDE DEF s, t, f, e, r
    <3> QED  BY <3>3, <3>4, <3>5 DEF Reached
  <2>3. e \in DOMAIN clients' /\ t.stage # "update" /\ t.fields.email = e /\ clients'[e] = u
    BY <1>1, <1>2, <1>3 DEF Exists, u
  <2>4. t.detach \cap t.fields.ids = {}
    BY <1>2, <1>4
  <2> HIDE DEF s, f, e, r
  <2> QED  BY <2>1, <2>2, <2>3, <2>4 DEF SaveSound, Exists
<1>10. ~t.faithful /\ ~s.faithful
  BY <1>2 DEF FaithfulSound
<1>11. FaithfulSound'
  BY <1>10 DEF FaithfulSound
<1>12. Undisturbed' => Undisturbed
  BY <1>2 DEF Undisturbed
<1>13. FormSeen'
  <2>1. t.stage \notin {"none", "update", "attach"}
    BY <1>1, <1>2
  <2>2. Undisturbed => clientForm.email = clientAlibi.for /\ s.target = clientForm.email
    BY DEF FormSeen
  <2> QED  BY <1>2, <1>4, <1>12, <2>1, <2>2 DEF FormSeen
<1>14. FormUntouched'
  <2>1. ~(Undisturbed /\ clientAlibi.typed = 0 /\ ~clientAlibi.blind)
    BY <1>10 DEF FormUntouched
  <2> QED  BY <1>2, <1>12, <2>1 DEF FormUntouched
<1> QED  BY <1>2, <1>7, <1>8, <1>9, <1>11, <1>13, <1>14

LEMMA LinksKeep ==
  ASSUME FormBook, RequestSucceeds, clientSaving.stage = "links"
  PROVE  FormBook'
<1> USE DEF FormBook
<1> DEFINE s == clientSaving
           f == s.fields
           e == f.email
           r == clients[e]
<1>1. NextStage(s) = "none"
  BY NextIs
<1>2. /\ UNCHANGED <<optionsLoaded, hydrating, clientFields, toggling, clientAlibi, clientClicks>>
      /\ FormTyped' /\ SaveTyped'
      /\ ~clientForm'.open /\ clientSaving' = NotSaving
  BY <1>1, SucceededIs
<1>3. /\ Exists(e) /\ DOMAIN clients' = DOMAIN clients
      /\ clients'[e] = [r EXCEPT !.links = f.links]
      /\ \A x \in DOMAIN clients \ {e} : clients'[x] = clients[x]
  BY AnsweredIs
<1>4. r \in LeafRecord /\ f.links \in SUBSET Links
  BY <1>3 DEF ServerTyped, Exists, SaveTyped, LeafFields
<1>5. clients'[e] \in LeafRecord /\ clients'[e].sub = r.sub
  BY <1>3, <1>4, LinkedIs
<1>6. ServerTyped'
  BY <1>2, <1>3, <1>5 DEF ServerTyped
<1>7. /\ NotSaving.stage = "none" /\ NotSaving.faithful = FALSE /\ NotSaving.detach = {}
  BY DEF NotSaving
<1>8. SubsSound'
  <2>1. \A x \in DOMAIN clients' : clients'[x].sub = clients[x].sub
    BY <1>3, <1>5
  <2> QED  BY <1>2, <1>3, <1>7, <2>1 DEF SubsSound
<1>9. SaveSound' /\ FaithfulSound'
  BY <1>2, <1>7 DEF SaveSound, FaithfulSound
<1>10. FormSeen' /\ FormUntouched'
  BY <1>2 DEF FormSeen, FormUntouched, Undisturbed
<1> QED  BY <1>2, <1>6, <1>8, <1>9, <1>10

LEMMA SucceedKeeps == ASSUME FormBook, RequestSucceeds PROVE FormBook'
<1>1. clientSaving.stage \in SaveStages /\ clientSaving.stage # "none"
  BY DEF RequestSucceeds, FormBook, SaveTyped
<1> QED
  BY <1>1, CreateKeeps, UpdateKeeps, AttachKeeps, DetachKeeps, LinksKeep DEF SaveStages

LEMMA FormBookStep == FormBook /\ ClientFormNext => FormBook'
<1> SUFFICES ASSUME FormBook, ClientFormNext PROVE FormBook'
  OBVIOUS
<1>1. CASE \E ask \in hydrating, ok \in BOOLEAN : Hydrated(ask, ok)
  <2>1. clientForm.open \in BOOLEAN
    BY DEF FormBook, FormTyped
  <2> QED  BY <1>1, <2>1, HydratedOpenKeeps, HydratedEditKeeps, HydratedAddKeeps
<1>2. CASE TypeBasics \/ ToggleAttached \/ PickFlow \/ EditLinks
  BY <1>2, TypingKeeps
<1>3. CASE onAdd \/ OptionsArrive \/ CloseForm \/ onSubmit \/ RequestSucceeds \/ RequestFails
  BY <1>3, AddKeeps, ArriveKeeps, CloseKeeps, SubmitKeeps, SucceedKeeps, FailKeeps
<1>4. CASE \E e \in Emails : onEdit(e) \/ onToggleEnable(e)
  BY <1>4, EditKeeps, SwitchKeeps
<1>5. CASE \E ok \in BOOLEAN : ToggleAnswered(ok)
  BY <1>5, SwitchedKeeps
<1> QED  BY <1>1, <1>2, <1>3, <1>4, <1>5 DEF ClientFormNext

LEMMA FormBookStutter == FormBook /\ UNCHANGED clientVars => FormBook'
<1> SUFFICES ASSUME FormBook, UNCHANGED clientVars PROVE FormBook'
  OBVIOUS
<1> USE DEF FormBook, clientVars
<1>1. ServerTyped' /\ FormTyped'
  BY DEF ServerTyped, FormTyped
<1>2. SaveTyped' /\ SaveSound' /\ FaithfulSound'
  BY SaveKept
<1>3. SubsSound'
  BY DEF SubsSound, Bearers
<1>4. FormSeen' /\ FormUntouched'
  BY DEF FormSeen, FormUntouched, Undisturbed, Exists
<1> QED  BY <1>1, <1>2, <1>3, <1>4

LEMMA ClientFormInvInit == ClientFormInit => ClientFormInv
  BY FormBookInit DEF ClientFormInit, ClosedForm, FormAlone, ClientFormInv

LEMMA AloneKept ==
  ASSUME ClientFormInv, ClientFormNext \/ UNCHANGED clientVars
  PROVE  FormAlone'
<1> USE DEF ClientFormInv, FormBook, FormAlone
<1>1. CASE onAdd
  BY <1>1 DEF onAdd
<1>2. CASE \E e \in Emails : onEdit(e)
  BY <1>2 DEF onEdit, FormTyped
<1>3. ASSUME NEW ask \in hydrating, NEW ok \in BOOLEAN, Hydrated(ask, ok)
      PROVE  FormAlone'
  <2> DEFINE on == (IF ok /\ Exists(ask.email) THEN clients[ask.email] ELSE ask.row).ids
             blind == ~(ok /\ Exists(ask.email)) \/ ~optionsLoaded
             half == ~(ok /\ Exists(ask.email))
             busy_ == toggling.stage # "none" \/ clientSaving.stage # "none"
             last == hydrating' = {}
  <2>1. clientForm' = [clientForm EXCEPT !.open = TRUE, !.email = ask.email, !.ids = on]
    BY <1>3 DEF Hydrated
  <2>2. clientForm'.mode = clientForm.mode /\ clientForm'.email = ask.email
    <3> HIDE DEF on
    <3> QED  BY <2>1 DEF FormTyped
  <2>3. CASE clientForm.open
    <3>1. clientAlibi' = [clientAlibi EXCEPT !.disturbed = TRUE]
      BY <1>3, <2>3 DEF Hydrated
    <3>2. clientAlibi'.alone = clientAlibi.alone
      BY <3>1 DEF FormTyped
    <3> QED  BY <2>2, <2>3, <3>2
  <2>4. CASE ~clientForm.open /\ clientForm.mode = "edit"
    <3>1. clientAlibi' = [for |-> ask.email, typed |-> 0, blind |-> blind, halfway |-> half,
                          disturbed |-> busy_, alone |-> last]
      BY <1>3, <2>4 DEF Hydrated
    <3>2. clientAlibi'.for = ask.email /\ clientAlibi'.alone = last
      <4> HIDE DEF blind, half, busy_, last
      <4> QED  BY <3>1
    <3> QED  BY <2>2, <3>2
  <2>5. CASE clientForm.mode # "edit"
    BY <2>2, <2>5
  <2> QED  BY <2>3, <2>4, <2>5 DEF FormTyped
<1>4. CASE OptionsArrive
  BY <1>4 DEF OptionsArrive
<1>5. CASE TypeBasics \/ ToggleAttached \/ PickFlow \/ EditLinks
  <2>1. /\ UNCHANGED <<hydrating, clientForm>>
        /\ clientAlibi' = [clientAlibi EXCEPT !.typed = clientAlibi.typed + 1]
    BY <1>5 DEF TypeBasics, ToggleAttached, PickFlow, EditLinks, Types
  <2>2. clientAlibi'.alone = clientAlibi.alone /\ clientAlibi'.for = clientAlibi.for
    BY <2>1 DEF FormTyped
  <2> QED  BY <2>1, <2>2
<1>6. CASE CloseForm
  BY <1>6 DEF CloseForm, FormTyped
<1>7. CASE onSubmit
  BY <1>7 DEF onSubmit
<1>8. CASE RequestSucceeds
  BY <1>8, SucceededIs
<1>9. CASE RequestFails
  <2> DEFINE half == clientAlibi.halfway \/ clientSaving.stage \in {"detach", "links"}
  <2>1. /\ UNCHANGED <<hydrating, clientForm>>
        /\ clientAlibi' = [clientAlibi EXCEPT !.halfway = half]
    BY <1>9 DEF RequestFails
  <2>2. clientAlibi'.alone = clientAlibi.alone /\ clientAlibi'.for = clientAlibi.for
    <3> HIDE DEF half
    <3> QED  BY <2>1 DEF FormTyped
  <2> QED  BY <2>1, <2>2
<1>10. CASE \E e \in Emails : onToggleEnable(e)
  BY <1>10 DEF onToggleEnable
<1>11. CASE \E ok \in BOOLEAN : ToggleAnswered(ok)
  <2>1. /\ UNCHANGED <<hydrating, clientForm>>
        /\ clientAlibi' = [clientAlibi EXCEPT !.disturbed = TRUE]
    BY <1>11 DEF ToggleAnswered
  <2>2. clientAlibi'.alone = clientAlibi.alone /\ clientAlibi'.for = clientAlibi.for
    BY <2>1 DEF FormTyped
  <2> QED  BY <2>1, <2>2
<1>12. CASE UNCHANGED clientVars
  BY <1>12 DEF clientVars
<1> QED
  BY <1>1, <1>2, <1>3, <1>4, <1>5, <1>6, <1>7, <1>8, <1>9, <1>10, <1>11, <1>12 DEF ClientFormNext

LEMMA ClientFormInvStep == ClientFormInv /\ ClientFormNext => ClientFormInv'
  BY FormBookStep, AloneKept DEF ClientFormInv

LEMMA ClientFormInvStutter == ClientFormInv /\ UNCHANGED clientVars => ClientFormInv'
  BY FormBookStutter, AloneKept DEF ClientFormInv

LEMMA ClientFormInvTypes == ClientFormInv => ClientFormTypeOK /\ FormIsItsClient
<1> SUFFICES ASSUME ClientFormInv PROVE ClientFormTypeOK /\ FormIsItsClient
  OBVIOUS
<1>1. ClientFormTypeOK
  BY DEF ClientFormInv, FormBook, ClientFormTypeOK, ServerTyped, FormTyped, SaveTyped, SaveSound, LeafFields,
         LeafRecord, SaveStages
<1>2. FormIsItsClient
  BY DEF ClientFormInv, FormAlone, FormIsItsClient
<1> QED  BY <1>1, <1>2

\* Records that agree on everything but the limit and the flow.
LEMMA SameRest ==
  ASSUME NEW r \in ClientRecord, NEW u \in ClientRecord,
         r.sub = u.sub, r.enable = u.enable, r.ids = u.ids, r.links = u.links
  PROVE  [r EXCEPT !.limit = 0, !.flows = {}] = [u EXCEPT !.limit = 0, !.flows = {}]
BY DEF ClientRecord

LEMMA SameAsItself == ASSUME NEW r \in LeafRecord PROVE SameButRounding(r, r)
BY ClientFormAssumption DEF SameButRounding, LeafRecord, ClientRecord

LEMMA UpdatedRounds ==
  ASSUME NEW r \in LeafRecord, NEW f \in LeafFields, Like(r, f)
  PROVE  SameButRounding(r, Updated(r, f))
<1> DEFINE u == Updated(r, f)
<1>1. /\ u \in LeafRecord
      /\ u.sub = r.sub /\ u.ids = r.ids /\ u.links = r.links /\ u.enable = f.enable
      /\ u.limit = IF r.ids = {} THEN r.limit ELSE f.limit
  BY UpdatedIs
<1>2. Like(u, f)
  BY UpdatedKeepsLike
<1> HIDE DEF u
<1>3. [r EXCEPT !.limit = 0, !.flows = {}] = [u EXCEPT !.limit = 0, !.flows = {}]
  <2>1. r \in ClientRecord /\ u \in ClientRecord
    BY <1>1 DEF LeafRecord
  <2>2. u.enable = r.enable
    BY <1>1 DEF Like
  <2> QED  BY <1>1, <2>1, <2>2, SameRest
<1>4. HasFlow(r) = HasFlow(u)
  BY <1>2 DEF Like
<1>5. u.limit <= r.limit + Step \div 2 /\ r.limit <= u.limit + Step \div 2
  <2>1. r.limit <= r.limit + Step \div 2
    BY ClientFormAssumption DEF LeafRecord, ClientRecord
  <2> QED  BY <1>1, <2>1 DEF Like
<1> QED  BY <1>3, <1>4, <1>5 DEF SameButRounding, u

LEMMA UntouchedSaves ==
  ASSUME ClientFormInv, ClientFormNext \/ UNCHANGED clientVars
  PROVE  UntouchedSaveKeeps
<1> USE DEF ClientFormInv, FormBook
<1> SUFFICES ASSUME clientSaving.faithful, toggling' = toggling
             PROVE  /\ DOMAIN clients' = DOMAIN clients
                    /\ \A e \in DOMAIN clients : SameButRounding(clients[e], clients'[e])
  BY DEF UntouchedSaveKeeps
<1>1. CASE clients' = clients
  BY <1>1, SameAsItself DEF ServerTyped
<1>2. CASE RequestSucceeds
  <2> DEFINE s == clientSaving
             e == s.target
             f == s.fields
             r == clients[e]
  <2>1. /\ s.stage \in {"update", "links"} /\ e = f.email /\ Exists(e) /\ Like(r, f)
    BY DEF FaithfulSound
  <2>2. r \in LeafRecord /\ f \in LeafFields
    BY <2>1 DEF ServerTyped, Exists, SaveTyped
  <2>3. /\ DOMAIN clients' = DOMAIN clients
        /\ \A x \in DOMAIN clients \ {e} : clients'[x] = clients[x]
    BY <1>2, <2>1, AnsweredIs DEF Exists
  <2>4. SameButRounding(r, clients'[e])
    <3>1. CASE s.stage = "update"
      <4>1. clients'[e] = Updated(r, f)
        BY <1>2, <2>1, <3>1, AnsweredIs
      <4> HIDE DEF r, f
      <4> QED  BY <2>1, <2>2, <4>1, UpdatedRounds
    <3>2. CASE s.stage = "links"
      <4>1. clients'[e] = [r EXCEPT !.links = f.links]
        BY <1>2, <2>1, <3>2, AnsweredIs
      <4>2. clients'[e] = r
        BY <2>1, <2>2, <4>1 DEF Like, LeafRecord, ClientRecord
      <4> QED  BY <2>2, <4>2, SameAsItself
    <3> QED  BY <2>1, <3>1, <3>2
  <2>5. \A x \in DOMAIN clients \ {e} : SameButRounding(clients[x], clients'[x])
    BY <2>3, SameAsItself DEF ServerTyped
  <2> QED  BY <2>3, <2>4, <2>5
<1>3. CASE \E ok \in BOOLEAN : ToggleAnswered(ok)
  BY <1>3 DEF ToggleAnswered, NotToggling
<1>4. CASE TypeBasics \/ ToggleAttached \/ PickFlow \/ EditLinks
  <2>1. PICK f : Types(f)
    BY <1>4 DEF TypeBasics, ToggleAttached, PickFlow, EditLinks
  <2> QED  BY <2>1, <1>1 DEF Types
<1> QED
  BY <1>1, <1>2, <1>3, <1>4 DEF ClientFormNext, clientVars, onAdd, onEdit, Hydrated, OptionsArrive,
     CloseForm, onSubmit, RequestFails, onToggleEnable

LEMMA SavesWhole ==
  ASSUME ClientFormInv, ClientFormNext \/ UNCHANGED clientVars
  PROVE  SavedWhole
<1> USE DEF ClientFormInv, FormBook
<1> DEFINE s == clientSaving
           f == s.fields
           e == f.email
           r == clients[e]
           u == clients'[e]
           was == (f.ids \ s.attach) \cup s.detach
<1> SUFFICES ASSUME clientForm.open, ~clientForm'.open, s.stage # "none",
                    clientSaving'.stage = "none", s.undisturbed
             PROVE  Stored(s)
  BY DEF SavedWhole
<1>1. RequestSucceeds
  <2>1. ~(TypeBasics \/ ToggleAttached \/ PickFlow \/ EditLinks)
    <3>1. \A g : Types(g) => FALSE
      BY DEF Types
    <3> QED  BY <3>1 DEF TypeBasics, ToggleAttached, PickFlow, EditLinks
  <2>2. \A ask \in hydrating, ok \in BOOLEAN : ~Hydrated(ask, ok)
    <3> SUFFICES ASSUME NEW ask \in hydrating, NEW ok \in BOOLEAN, Hydrated(ask, ok) PROVE FALSE
      OBVIOUS
    <3>1. clientSaving' = clientSaving
      BY DEF Hydrated
    <3> QED  BY <3>1
  <2>3. ~ \E ok \in BOOLEAN : ToggleAnswered(ok)
    BY DEF ToggleAnswered
  <2> QED
    BY <2>1, <2>2, <2>3 DEF ClientFormNext, clientVars, onAdd, onEdit, OptionsArrive,
       CloseForm, onSubmit, RequestFails, onToggleEnable
<1>2. SaveShape(s) /\ was = Was(s)
  BY DEF SaveSound, Was
<1>3. NextStage(s) = "none"
  <2>1. s.stage \in SaveStages
    BY DEF SaveTyped
  <2>2. clientSaving'.stage = NextStage(s) \/ NextStage(s) = "none"
    BY <1>1, SucceededIs
  <2> QED  BY <2>2
<1>4. s.stage \in {"create", "links"} /\ (s.stage = "create" => f.links = {})
  BY <1>3, NextIs DEF SaveTyped, SaveStages
<1> SUFFICES /\ e \in DOMAIN clients' /\ u.links = f.links /\ (s.edit => u.enable = f.enable)
             /\ ~s.again => /\ u.ids = f.ids /\ (was # {} => u.limit = f.limit)
                            /\ (f.flow => TakeFlow(was)) => HasFlow(u) = f.flow
  BY DEF Stored
<1>5. CASE s.stage = "create"
  <2>1. /\ \A x \in DOMAIN clients : (x = e) = (clients[x].sub = f.sub)
        /\ DOMAIN clients' = DOMAIN clients \cup {e}
        /\ u = Created(s)
    BY <1>1, <1>5, AnsweredIs
  <2>2. ~s.edit /\ s.attach = {} /\ s.detach = {} /\ f.ids # {} /\ (f.flow => TakeFlow(f.ids))
    BY <1>2, <1>5 DEF SaveShape
  <2>3. f \in LeafFields
    BY DEF SaveTyped
  <2>4. /\ Exists(e) => u.sub = r.sub /\ u.links = r.links
        /\ ~Exists(e) => u.sub = f.sub /\ u.links = {}
        /\ ~Exists(e) => /\ u.ids = f.ids /\ u.limit = f.limit
                         /\ u.flows = IF f.flow THEN f.ids \cap FlowCapable ELSE {}
    BY <2>1, <2>2, <2>3, CreatedIs
  <2>5. Exists(e) => r.links = {}
    BY <1>5, <2>1 DEF SubsSound, Bearers, Exists
  <2>6. ~s.again => ~Exists(e)
    BY <1>5, <2>1 DEF SubsSound, Bearers, Exists
  <2>7. ~s.again => HasFlow(u) = f.flow
    <3>1. f.flow \in BOOLEAN
      BY <2>3 DEF LeafFields
    <3>2. CASE f.flow
      BY <2>2, <2>4, <2>6, <3>2 DEF HasFlow, TakeFlow
    <3>3. CASE ~f.flow
      BY <2>4, <2>6, <3>1, <3>3 DEF HasFlow
    <3> QED  BY <3>2, <3>3
  <2> HIDE DEF u, r
  <2> QED  BY <1>4, <1>5, <2>1, <2>2, <2>4, <2>5, <2>6, <2>7
<1>6. CASE s.stage = "links"
  <2>1. /\ Exists(e) /\ DOMAIN clients' = DOMAIN clients /\ u = [r EXCEPT !.links = f.links]
    BY <1>1, <1>6, AnsweredIs
  <2>2. r \in LeafRecord /\ f \in LeafFields /\ f.links \in SUBSET Links /\ f.flow \in BOOLEAN
    BY <2>1 DEF ServerTyped, Exists, SaveTyped, LeafFields
  <2>3. /\ u.links = f.links /\ u.ids = r.ids /\ u.enable = r.enable /\ u.limit = r.limit /\ u.flows = r.flows
    BY <2>1, <2>2, LinkedIs
  <2>4. /\ s.edit => r.enable = f.enable
        /\ ~s.again => /\ r.ids = f.ids /\ (was # {} => r.limit = f.limit)
                       /\ r.flows = IF f.flow /\ TakeFlow(was) THEN r.ids \cap FlowCapable ELSE {}
    BY <1>2, <1>6 DEF SaveSound, Reached, OnNow
  <2>5. ~s.again /\ (f.flow => TakeFlow(was)) => HasFlow(r) = f.flow
    <3>1. f.flow => f.ids \cap FlowCapable # {}
      BY <1>2 DEF SaveShape, TakeFlow
    <3>2. CASE f.flow
      BY <2>4, <3>1, <3>2 DEF HasFlow
    <3>3. CASE ~f.flow
      BY <2>2, <2>4, <3>3 DEF HasFlow
    <3> QED  BY <3>2, <3>3
  <2>6. HasFlow(u) = HasFlow(r)
    BY <2>3 DEF HasFlow
  <2> HIDE DEF u, r
  <2> QED  BY <2>1, <2>3, <2>4, <2>5, <2>6 DEF Exists
<1> QED  BY <1>4, <1>5, <1>6

-----------------------------------------------------------------------------
(* The form of an outbound.  What crosses the adapter and can be expressed  *)
(* comes back as it was; what the form holds is either what the operator    *)
(* last made, as it is written, or what he last made, as it is read.        *)

LEMMA PlainTyped == Plain \in Stream /\ Blank \in Outbound /\ Nothing \in Outbound
                    /\ BrokenJson \in Outbound /\ Empty \in Outbound
<1>1. Plain \in Stream
  BY DEF Plain, Stream
<1>2. Blank \in Outbound
  <2> DEFINE no == FALSE
  <2>1. Blank = [protocol |-> "vless", tag |-> "unset", foreign |-> "unset", flow |-> "unset",
                 detail |-> "unset", mux |-> no, stream |-> Plain]
    BY DEF Blank
  <2>2. no \in BOOLEAN
    OBVIOUS
  <2>3. "vless" \in Protocols_
    BY DEF Protocols_
  <2> HIDE DEF no
  <2> QED  BY <1>1, <2>1, <2>2, <2>3 DEF Outbound
<1> QED  BY <1>1, <1>2 DEF Nothing, BrokenJson, Empty, Outbound

LEMMA StreamRead ==
  ASSUME NEW s \in Stream
  PROVE  LET r == hydrateStreamForm(s) IN
         /\ r \in Stream
         /\ r.network = s.network /\ r.security = s.security /\ r.names = s.names /\ r.sock = s.sock
         /\ r.masks = s.masks /\ r.xmux = IF s.xmux = "connections" THEN "both" ELSE s.xmux
<1> DEFINE x == IF s.xmux = "connections" THEN "both" ELSE s.xmux
           r == [s EXCEPT !.xmux = x]
<1>1. x \in {"unset", "connections", "concurrency", "both"}
  BY DEF Stream
<1>2. hydrateStreamForm(s) = r
  BY DEF hydrateStreamForm
<1>3. /\ r \in Stream
      /\ r.network = s.network /\ r.security = s.security /\ r.names = s.names /\ r.sock = s.sock
      /\ r.masks = s.masks /\ r.xmux = x
  <2> HIDE DEF x
  <2> QED  BY <1>1 DEF Stream
<1> QED  BY <1>2, <1>3
LEMMA StreamEq ==
  ASSUME NEW a \in Stream, NEW b \in Stream,
         a.network = b.network, a.security = b.security, a.names = b.names, a.sock = b.sock,
         a.masks = b.masks, a.xmux = b.xmux
  PROVE  a = b
<1>1. a = [network |-> a.network, security |-> a.security, names |-> a.names, sock |-> a.sock,
           masks |-> a.masks, xmux |-> a.xmux]
  BY DEF Stream
<1>2. b = [network |-> b.network, security |-> b.security, names |-> b.names, sock |-> b.sock,
           masks |-> b.masks, xmux |-> b.xmux]
  BY DEF Stream
<1> QED  BY <1>1, <1>2

LEMMA OutboundEq ==
  ASSUME NEW a \in Outbound, NEW b \in Outbound,
         a.protocol = b.protocol, a.tag = b.tag, a.foreign = b.foreign, a.flow = b.flow,
         a.detail = b.detail, a.mux = b.mux, a.stream = b.stream
  PROVE  a = b
<1>1. a = [protocol |-> a.protocol, tag |-> a.tag, foreign |-> a.foreign, flow |-> a.flow,
           detail |-> a.detail, mux |-> a.mux, stream |-> a.stream]
  BY DEF Outbound
<1>2. b = [protocol |-> b.protocol, tag |-> b.tag, foreign |-> b.foreign, flow |-> b.flow,
           detail |-> b.detail, mux |-> b.mux, stream |-> b.stream]
  BY DEF Outbound
<1> QED  BY <1>1, <1>2

\* The fields of an outbound have the values that the form tells apart.
LEMMA OutboundParts ==
  ASSUME NEW w \in Outbound
  PROVE  /\ w.stream \in Stream /\ w.mux \in BOOLEAN
         /\ w.detail \in {"unset", "seed", "port 53", "ipsBlocked", "block rule", "sniffing off"}
         /\ w.flow \in {"unset", "vision"} /\ w.foreign \in {"unset", "proxySettings"}
         /\ w.protocol \in Protocols_ \cup {"nothing", "broken", "empty", "unknown"}
         /\ w.tag \in {"unset", "own"} \cup OtherTags
BY DEF Outbound

\* Another stream in an outbound is an outbound.
LEMMA OtherStream ==
  ASSUME NEW w \in Outbound, NEW s \in Stream
  PROVE  LET r == [w EXCEPT !.stream = s] IN
         /\ r \in Outbound /\ r.stream = s
         /\ r.protocol = w.protocol /\ r.tag = w.tag /\ r.foreign = w.foreign /\ r.flow = w.flow
         /\ r.detail = w.detail /\ r.mux = w.mux
BY DEF Outbound

LEMMA RawIs ==
  ASSUME NEW w \in Outbound
  PROVE  LET r == rawOutboundToFormValues(w) IN
         /\ r \in Outbound
         /\ r.protocol = IF w.protocol \in Protocols_ THEN w.protocol ELSE "vless"
         /\ r.tag = w.tag /\ r.foreign = "unset"
         /\ r.flow = IF w.protocol = "vless" THEN w.flow ELSE "unset"
         /\ r.detail = DetailRead(w) /\ r.mux = w.mux /\ r.stream = hydrateStreamForm(w.stream)
<1> DEFINE p == IF w.protocol \in Protocols_ THEN w.protocol ELSE "vless"
           f == IF w.protocol = "vless" THEN w.flow ELSE "unset"
           d == DetailRead(w)
           s == hydrateStreamForm(w.stream)
           r1 == [w EXCEPT !.protocol = p]
           r2 == [r1 EXCEPT !.foreign = "unset"]
           r3 == [r2 EXCEPT !.flow = f]
           r4 == [r3 EXCEPT !.detail = d]
           r5 == [r4 EXCEPT !.stream = s]
<1>1. p \in Protocols_
  BY DEF Protocols_
<1>2. f \in {"unset", "vision"}
  BY OutboundParts
<1>3. d \in {"unset", "seed", "port 53", "ipsBlocked", "block rule", "sniffing off"}
  BY OutboundParts DEF DetailRead
<1>4. s \in Stream
  BY OutboundParts, StreamRead
<1>5. rawOutboundToFormValues(w) = r5
  BY DEF rawOutboundToFormValues, Outbound
<1> HIDE DEF p, f, d, s
<1>6. r1 \in Outbound /\ r1.protocol = p /\ r1.tag = w.tag /\ r1.flow = w.flow /\ r1.mux = w.mux
  BY <1>1 DEF Outbound
<1> HIDE DEF r1
<1>7. r2 \in Outbound /\ r2.protocol = p /\ r2.tag = w.tag /\ r2.foreign = "unset" /\ r2.mux = w.mux
  BY <1>6 DEF Outbound
<1> HIDE DEF r2
<1>8. r3 \in Outbound /\ r3.protocol = p /\ r3.tag = w.tag /\ r3.foreign = "unset" /\ r3.mux = w.mux
      /\ r3.flow = f
  BY <1>7, <1>2 DEF Outbound
<1> HIDE DEF r3
<1>9. r4 \in Outbound /\ r4.protocol = p /\ r4.tag = w.tag /\ r4.foreign = "unset" /\ r4.mux = w.mux
      /\ r4.flow = f /\ r4.detail = d
  BY <1>8, <1>3 DEF Outbound
<1> HIDE DEF r4
<1>10. r5 \in Outbound /\ r5.protocol = p /\ r5.tag = w.tag /\ r5.foreign = "unset" /\ r5.mux = w.mux
       /\ r5.flow = f /\ r5.detail = d /\ r5.stream = s
  BY <1>9, <1>4 DEF Outbound
<1> HIDE DEF r5
<1> QED  BY <1>5, <1>10 DEF p, f, d, s

\* A stream as it is written.
LEMMA StreamWritten ==
  ASSUME NEW s \in Stream
  PROVE  LET r == normalizeStreamSettingsForWire(s) IN
         /\ r \in Stream
         /\ r.network = s.network /\ r.security = s.security /\ r.names = s.names /\ r.masks = s.masks
         /\ r.sock = IF s.sock = "defaults" THEN "unset" ELSE s.sock
         /\ r.xmux = IF s.network = "xhttp" THEN resolveXmuxExclusivity(s.xmux) ELSE "unset"
<1> DEFINE x == IF s.network = "xhttp" THEN resolveXmuxExclusivity(s.xmux) ELSE "unset"
           k == IF s.sock = "defaults" THEN "unset" ELSE s.sock
           a == [s EXCEPT !.xmux = x]
           r == [a EXCEPT !.sock = k]
<1>1. x \in {"unset", "connections", "concurrency", "both"} /\ k \in {"unset", "mark", "defaults"}
  BY DEF Stream, resolveXmuxExclusivity
<1>2. normalizeStreamSettingsForWire(s) = r
  BY DEF normalizeStreamSettingsForWire, normalizeSockoptForWire, normalizeXhttpForWire, Stream
<1> HIDE DEF x, k
<1>3. /\ a \in Stream /\ a.network = s.network /\ a.security = s.security /\ a.names = s.names
      /\ a.masks = s.masks /\ a.xmux = x
  BY <1>1 DEF Stream
<1> HIDE DEF a
<1>4. /\ r \in Stream /\ r.network = s.network /\ r.security = s.security /\ r.names = s.names
      /\ r.masks = s.masks /\ r.xmux = x /\ r.sock = k
  BY <1>1, <1>3 DEF Stream
<1> HIDE DEF r
<1> QED  BY <1>2, <1>4 DEF x, k

WrittenStream(v) ==
  IF v.protocol \in StreamProtocols THEN normalizeStreamSettingsForWire(v.stream)
  ELSE [Plain EXCEPT !.sock = v.stream.sock]

LEMMA SockAlone ==
  ASSUME NEW s \in Stream
  PROVE  LET r == [Plain EXCEPT !.sock = s.sock] IN
         /\ r \in Stream /\ r.sock = s.sock
         /\ r.network = "unset" /\ r.security = "none" /\ r.names = "unset"
         /\ r.masks = {} /\ r.xmux = "unset"
BY DEF Plain, Stream

LEMMA WireIs ==
  ASSUME NEW v \in Outbound
  PROVE  LET r == formValuesToWirePayload(v) IN
         /\ r \in Outbound
         /\ r.protocol = v.protocol /\ r.tag = v.tag /\ r.foreign = v.foreign /\ r.flow = v.flow
         /\ r.detail = DetailWritten(v) /\ r.mux = (v.mux /\ muxAllowed(v))
         /\ r.stream = WrittenStream(v)
<1> DEFINE d == DetailWritten(v)
           m == v.mux /\ muxAllowed(v)
           s == WrittenStream(v)
           r1 == [v EXCEPT !.detail = d]
           r2 == [r1 EXCEPT !.mux = m]
           r3 == [r2 EXCEPT !.stream = s]
<1>1. d \in {"unset", "seed", "port 53", "ipsBlocked", "block rule", "sniffing off"}
  BY OutboundParts DEF DetailWritten
<1>2. m \in BOOLEAN
  BY DEF muxAllowed
<1>3. s \in Stream
  BY OutboundParts, StreamWritten, SockAlone DEF WrittenStream
<1>4. formValuesToWirePayload(v) = r3
  BY DEF formValuesToWirePayload, WrittenStream, Outbound
<1> HIDE DEF d, m, s
<1>5. /\ r1 \in Outbound /\ r1.protocol = v.protocol /\ r1.tag = v.tag /\ r1.foreign = v.foreign
      /\ r1.flow = v.flow /\ r1.detail = d
  BY <1>1 DEF Outbound
<1> HIDE DEF r1
<1>6. /\ r2 \in Outbound /\ r2.protocol = v.protocol /\ r2.tag = v.tag /\ r2.foreign = v.foreign
      /\ r2.flow = v.flow /\ r2.detail = d /\ r2.mux = m
  BY <1>2, <1>5 DEF Outbound
<1> HIDE DEF r2
<1>7. /\ r3 \in Outbound /\ r3.protocol = v.protocol /\ r3.tag = v.tag /\ r3.foreign = v.foreign
      /\ r3.flow = v.flow /\ r3.detail = d /\ r3.mux = m /\ r3.stream = s
  BY <1>3, <1>6 DEF Outbound
<1> HIDE DEF r3
<1> QED  BY <1>4, <1>7 DEF d, m, s
\* An outbound that can be expressed is written as it was read.
LEMMA ExpressibleComesBack ==
  ASSUME NEW w \in Outbound, Expressible(w)
  PROVE  formValuesToWirePayload(rawOutboundToFormValues(w)) = w
<1> DEFINE r == rawOutboundToFormValues(w)
           q == formValuesToWirePayload(r)
<1>0. w.stream \in Stream /\ w.mux \in BOOLEAN
  BY OutboundParts
<1>1. /\ r \in Outbound /\ r.protocol = w.protocol /\ r.tag = w.tag /\ r.foreign = w.foreign
      /\ r.flow = w.flow /\ r.detail = DetailRead(w) /\ r.mux = w.mux
      /\ r.stream = hydrateStreamForm(w.stream)
  BY RawIs, OutboundParts DEF Expressible
<1>2. /\ r.stream \in Stream /\ r.stream.network = w.stream.network
      /\ r.stream.security = w.stream.security /\ r.stream.names = w.stream.names
      /\ r.stream.sock = w.stream.sock /\ r.stream.masks = w.stream.masks
      /\ r.stream.xmux = IF w.stream.xmux = "connections" THEN "both" ELSE w.stream.xmux
  BY <1>0, <1>1, StreamRead
<1> HIDE DEF r
<1>3. /\ q \in Outbound /\ q.protocol = r.protocol /\ q.tag = r.tag /\ q.foreign = r.foreign
      /\ q.flow = r.flow /\ q.detail = DetailWritten(r) /\ q.mux = (r.mux /\ muxAllowed(r))
      /\ q.stream = WrittenStream(r)
  BY <1>1, WireIs
<1> HIDE DEF q
<1>4. DetailWritten(r) = w.detail
  BY <1>1, OutboundParts DEF DetailWritten, DetailRead, Expressible
<1>5. (r.mux /\ muxAllowed(r)) = w.mux
  BY <1>0, <1>1, <1>2 DEF muxAllowed, Expressible
<1>6. WrittenStream(r) = w.stream
  <2>1. CASE w.protocol \in StreamProtocols
    <3> DEFINE s == normalizeStreamSettingsForWire(r.stream)
    <3>1. /\ s \in Stream /\ s.network = r.stream.network /\ s.security = r.stream.security
          /\ s.names = r.stream.names /\ s.masks = r.stream.masks
          /\ s.sock = IF r.stream.sock = "defaults" THEN "unset" ELSE r.stream.sock
          /\ s.xmux = IF r.stream.network = "xhttp" THEN resolveXmuxExclusivity(r.stream.xmux)
                      ELSE "unset"
      BY <1>2, StreamWritten
    <3>2. WrittenStream(r) = s
      BY <2>1, <1>1 DEF WrittenStream
    <3> HIDE DEF s
    <3>3. s.sock = w.stream.sock
      BY <3>1, <1>2 DEF Expressible
    <3>4. s.xmux = w.stream.xmux
      BY <3>1, <1>2 DEF Expressible, resolveXmuxExclusivity
    <3> QED  BY <3>1, <3>2, <3>3, <3>4, <1>0, <1>2, StreamEq
  <2>2. CASE w.protocol \notin StreamProtocols
    BY <2>2, <1>1, <1>2 DEF WrittenStream, Expressible
  <2> QED  BY <2>1, <2>2
<1>7. q = w
  BY <1>1, <1>3, <1>4, <1>5, <1>6, OutboundEq
<1> QED  BY <1>7 DEF q, r

\* The stream that an outbound without a transport is given.
LEMMA TcpSlice ==
  /\ newStreamSlice("tcp") \in Stream /\ newStreamSlice("tcp").network = "tcp"
  /\ newStreamSlice("tcp").security = "none" /\ newStreamSlice("tcp").names = "unset"
  /\ newStreamSlice("tcp").sock = "unset" /\ newStreamSlice("tcp").masks = {}
  /\ newStreamSlice("tcp").xmux = "unset"
BY PlainTyped DEF newStreamSlice, Plain, Stream

\* With its transport written out an outbound is as expressible as before.
LEMMA TransportExpressible ==
  ASSUME NEW w \in Outbound, Expressible(w)
  PROVE  /\ WithTransport(w) \in Outbound /\ Expressible(WithTransport(w))
         /\ WithTransport(WithTransport(w)) = WithTransport(w)
<1>1. CASE ~(w.protocol \in StreamProtocols /\ w.stream.network = "unset")
  BY <1>1 DEF WithTransport
<1>2. CASE w.protocol \in StreamProtocols /\ w.stream.network = "unset"
  <2> DEFINE s == [w.stream EXCEPT !.network = "tcp"]
             t == [w EXCEPT !.stream = s]
  <2>1. w.stream = Plain /\ w.stream \in Stream /\ w.mux \in BOOLEAN
    BY <1>2, OutboundParts DEF Expressible
  <2>2. s \in Stream /\ s.network = "tcp" /\ s.xmux = w.stream.xmux /\ s.sock = w.stream.sock
    BY <2>1 DEF Stream
  <2>3. WithTransport(w) = t
    BY <1>2 DEF WithTransport, Outbound
  <2> HIDE DEF s
  <2>4. /\ t \in Outbound /\ t.stream = s
        /\ t.protocol = w.protocol /\ t.tag = w.tag /\ t.foreign = w.foreign /\ t.flow = w.flow
        /\ t.detail = w.detail /\ t.mux = w.mux
    BY <2>2, OtherStream
  <2> HIDE DEF t
  <2>5. w.stream.network = "unset" /\ w.stream.xmux = "unset" /\ w.stream.sock = "unset"
    BY <2>1 DEF Plain
  <2>6. w.protocol # "hysteria"
    BY <2>5 DEF Expressible
  <2>7. t.mux => muxAllowed(t)
    BY <2>2, <2>4, <2>5 DEF Expressible, muxAllowed
  <2>8. Expressible(t)
    BY <1>2, <2>2, <2>4, <2>5, <2>6, <2>7 DEF Expressible
  <2>9. WithTransport(t) = t
    BY <2>2, <2>4 DEF WithTransport
  <2> QED  BY <2>3, <2>4, <2>8, <2>9
<1> QED  BY <1>1, <1>2

\* Read, settled and written an expressible outbound has got its transport.
LEMMA SettledComesBack ==
  ASSUME NEW w \in Outbound, Expressible(w)
  PROVE  formValuesToWirePayload(Settled(rawOutboundToFormValues(w))) = WithTransport(w)
<1> DEFINE r == rawOutboundToFormValues(w)
<1>0. w.stream \in Stream /\ w.mux \in BOOLEAN
  BY OutboundParts
<1>1. /\ r \in Outbound /\ r.protocol = w.protocol /\ r.tag = w.tag /\ r.foreign = w.foreign
      /\ r.flow = w.flow /\ r.detail = DetailRead(w) /\ r.mux = w.mux
      /\ r.stream = hydrateStreamForm(w.stream)
  BY RawIs, OutboundParts DEF Expressible
<1>2. /\ r.stream \in Stream /\ r.stream.network = w.stream.network
      /\ r.stream.security = w.stream.security
      /\ r.stream.sock = w.stream.sock
  BY <1>0, <1>1, StreamRead
<1>3. formValuesToWirePayload(r) = w
  BY ExpressibleComesBack
<1> HIDE DEF r
<1>4. CASE ~(w.protocol \in StreamProtocols /\ w.stream.network = "unset")
  <2>1. w.protocol = "wireguard" => w.stream.network = "unset"
    BY DEF Expressible, StreamProtocols, Plain
  <2>2. w.protocol = "hysteria" => w.stream.network = "hysteria" /\ w.stream.security = "tls"
    BY DEF Expressible
  <2>3. Settled(r) = r
    BY <1>1, <1>2, <1>4, <2>1, <2>2 DEF Settled, StreamProtocols
  <2> QED  BY <1>3, <1>4, <2>3 DEF WithTransport, r
<1>5. CASE w.protocol \in StreamProtocols /\ w.stream.network = "unset"
  <2> DEFINE s == newStreamSlice("tcp")
             v == [r EXCEPT !.stream = s]
             q == formValuesToWirePayload(v)
             u == [w.stream EXCEPT !.network = "tcp"]
             t == [w EXCEPT !.stream = u]
  <2>1. w.protocol \in {"vless", "trojan"} /\ w.stream = Plain
    BY <1>5 DEF Expressible, StreamProtocols
  <2>2. Settled(r) = v
    BY <2>1, <1>1, <1>2, <1>5 DEF Settled
  <2>3. WithTransport(w) = t
    BY <1>5 DEF WithTransport, Outbound
  <2>4. /\ s \in Stream /\ s.network = "tcp" /\ s.security = "none" /\ s.names = "unset"
        /\ s.sock = "unset" /\ s.masks = {} /\ s.xmux = "unset"
    BY TcpSlice
  <2>5. u \in Stream /\ u = s
    BY <2>1, <1>0 DEF newStreamSlice, Stream
  <2> HIDE DEF s, u
  <2>6. /\ v \in Outbound /\ v.stream = s
        /\ v.protocol = r.protocol /\ v.tag = r.tag /\ v.foreign = r.foreign /\ v.flow = r.flow
        /\ v.detail = r.detail /\ v.mux = r.mux
    BY <1>1, <2>4, OtherStream
  <2>7. /\ t \in Outbound /\ t.stream = u
        /\ t.protocol = w.protocol /\ t.tag = w.tag /\ t.foreign = w.foreign /\ t.flow = w.flow
        /\ t.detail = w.detail /\ t.mux = w.mux
    BY <2>5, OtherStream
  <2> HIDE DEF v, t
  <2>8. /\ q \in Outbound /\ q.protocol = v.protocol /\ q.tag = v.tag /\ q.foreign = v.foreign
        /\ q.flow = v.flow /\ q.detail = DetailWritten(v) /\ q.mux = (v.mux /\ muxAllowed(v))
        /\ q.stream = WrittenStream(v)
    BY <2>6, WireIs
  <2>9. DetailWritten(v) = w.detail
    BY <1>1, <2>1, <2>6, OutboundParts DEF DetailWritten, DetailRead, Expressible
  <2>10. (v.mux /\ muxAllowed(v)) = w.mux
    BY <1>0, <1>1, <2>4, <2>6 DEF muxAllowed, Expressible
  <2>11. WrittenStream(v) = s
    <3> DEFINE n == normalizeStreamSettingsForWire(s)
    <3>1. /\ n \in Stream /\ n.network = s.network /\ n.security = s.security
          /\ n.names = s.names /\ n.masks = s.masks
          /\ n.sock = IF s.sock = "defaults" THEN "unset" ELSE s.sock
          /\ n.xmux = IF s.network = "xhttp" THEN resolveXmuxExclusivity(s.xmux) ELSE "unset"
      BY <2>4, StreamWritten
    <3>2. WrittenStream(v) = n
      BY <2>1, <2>6, <1>1 DEF WrittenStream, StreamProtocols
    <3> HIDE DEF n
    <3> QED  BY <3>1, <3>2, <2>4, StreamEq
  <2> HIDE DEF q
  <2>12. q = t
    BY <1>1, <2>5, <2>6, <2>7, <2>8, <2>9, <2>10, <2>11, OutboundEq
  <2> QED  BY <2>2, <2>3, <2>12 DEF q, r
<1> QED  BY <1>4, <1>5
LEMMA HysteriaSlice ==
  hysteriaStreamSlice \in Stream
  /\ \A n \in {"unset", "sni"} : [hysteriaStreamSlice EXCEPT !.names = n] \in Stream
<1> DEFINE a == newStreamSlice("hysteria")
<1>1. a \in Stream
  BY PlainTyped DEF newStreamSlice, Stream
<1>2. hysteriaStreamSlice = [a EXCEPT !.security = "tls"]
  BY DEF hysteriaStreamSlice
<1> HIDE DEF a
<1>3. hysteriaStreamSlice \in Stream
  BY <1>1, <1>2 DEF Stream
<1> QED  BY <1>3 DEF Stream

LEMMA SliceTyped ==
  ASSUME NEW n \in {"unset", "tcp", "ws", "xhttp", "hysteria"}
  PROVE  newStreamSlice(n) \in Stream
BY PlainTyped DEF newStreamSlice, Stream

LEMMA SettledTyped ==
  ASSUME NEW v \in Outbound
  PROVE  Settled(v) \in Outbound
<1> DEFINE n == IF v.stream.network = "unset" THEN "unset" ELSE v.stream.names
           h == [hysteriaStreamSlice EXCEPT !.names = n]
<1>1. n \in {"unset", "sni"}
  BY OutboundParts DEF Stream
<1>2. h \in Stream
  BY <1>1, HysteriaSlice
<1> HIDE DEF h
<1>3. [v EXCEPT !.stream = h] \in Outbound /\ [v EXCEPT !.stream = Plain] \in Outbound
      /\ [v EXCEPT !.stream = newStreamSlice("tcp")] \in Outbound
  BY <1>2, PlainTyped, TcpSlice, OtherStream
<1> HIDE DEF n
<1>4. \/ Settled(v) = [v EXCEPT !.stream = h]
      \/ Settled(v) = [v EXCEPT !.stream = Plain]
      \/ Settled(v) = [v EXCEPT !.stream = newStreamSlice("tcp")]
      \/ Settled(v) = v
  BY DEF Settled, h, n
<1> QED  BY <1>3, <1>4

-----------------------------------------------------------------------------
\* The form and what the operator last made stand for one outbound.
FormStands ==
  \/ outLatest = formValuesToWirePayload(outForm)
  \/ outForm = Settled(rawOutboundToFormValues(outLatest))

OutTyped ==
  /\ outDialog \in [open: BOOLEAN, of: Outbound, tab: {"form", "json"}, dirty: BOOLEAN]
  /\ outForm \in Outbound /\ outText \in Outbound /\ outLatest \in Outbound
  /\ confirmed \in Outbound

\* The text of the JSON tab: that of the form until it is typed over, then
\* what the operator last made, unless it is no outbound.
TextStands ==
  outDialog.tab = "json" =>
    /\ ~outDialog.dirty => outText = formValuesToWirePayload(outForm)
    /\ outDialog.dirty /\ outText = Empty => outLatest = formValuesToWirePayload(outForm)
    /\ outDialog.dirty /\ outText \notin {BrokenJson, Empty} => outLatest = outText

OutInv ==
  /\ OutTyped
  /\ outDialog.open /\ (outDialog.tab = "form" \/ ~outDialog.dirty) => FormStands
  /\ outDialog.open => TextStands

LEMMA OutInvInit ==
  ASSUME OutboundFormInit PROVE OutInv
<1>1. OutTyped
  <2> DEFINE no == FALSE
  <2>1. outDialog = [open |-> no, of |-> Nothing, tab |-> "form", dirty |-> no] /\ no \in BOOLEAN
    BY DEF OutboundFormInit
  <2> HIDE DEF no
  <2>2. outDialog \in [open: BOOLEAN, of: Outbound, tab: {"form", "json"}, dirty: BOOLEAN]
    BY <2>1, PlainTyped
  <2> QED  BY <2>2, PlainTyped DEF OutTyped, OutboundFormInit
<1>2. ~outDialog.open
  BY DEF OutboundFormInit
<1> QED  BY <1>1, <1>2 DEF OutInv

\* The fields of another state of the dialog.
LEMMA DialogOf ==
  ASSUME NEW o \in BOOLEAN, NEW w \in Outbound, NEW t \in {"form", "json"}, NEW d \in BOOLEAN
  PROVE  LET r == [open |-> o, of |-> w, tab |-> t, dirty |-> d] IN
         /\ r \in [open: BOOLEAN, of: Outbound, tab: {"form", "json"}, dirty: BOOLEAN]
         /\ r.open = o /\ r.of = w /\ r.tab = t /\ r.dirty = d
OBVIOUS

LEMMA OpenStands ==
  ASSUME OutInv, NEW w \in Outbound, openForm(w)
  PROVE  OutInv'
<1> DEFINE no == FALSE
           yes == TRUE
           r == rawOutboundToFormValues(w)
<1>1. outDialog' = [open |-> yes, of |-> w, tab |-> "form", dirty |-> no]
      /\ yes \in BOOLEAN /\ no \in BOOLEAN
  BY DEF openForm
<1> HIDE DEF no, yes
<1>2. /\ outDialog' \in [open: BOOLEAN, of: Outbound, tab: {"form", "json"}, dirty: BOOLEAN]
      /\ outDialog'.tab = "form"
  BY <1>1, DialogOf
<1>3. r \in Outbound
  BY RawIs
<1>4. outForm' = Settled(r) /\ outText' = formValuesToWirePayload(r) /\ outLatest' = w
      /\ confirmed' = Nothing
  BY DEF openForm
<1>5. outForm' \in Outbound /\ outText' \in Outbound
  BY <1>3, <1>4, SettledTyped, WireIs
<1>6. OutTyped'
  BY <1>2, <1>4, <1>5, PlainTyped DEF OutTyped
<1>7. FormStands'
  BY <1>4 DEF FormStands
<1>8. TextStands'
  BY <1>2 DEF TextStands
<1> QED  BY <1>6, <1>7, <1>8 DEF OutInv

LEMMA EditStands ==
  ASSUME OutInv, NEW v \in Outbound, EditedOutbound(v)
  PROVE  OutInv'
<1>1. outForm' = Settled(v) /\ outLatest' = formValuesToWirePayload(outForm')
      /\ outDialog' = outDialog /\ outText' = outText /\ confirmed' = confirmed
      /\ outDialog.tab = "form"
  BY DEF EditedOutbound
<1>2. outForm' \in Outbound
  BY <1>1, SettledTyped
<1>3. outLatest' \in Outbound
  BY <1>1, <1>2, WireIs
<1>4. OutTyped'
  BY <1>1, <1>2, <1>3 DEF OutTyped, OutInv
<1>5. FormStands'
  BY <1>1 DEF FormStands
<1>6. TextStands'
  BY <1>1 DEF TextStands
<1> QED  BY <1>4, <1>5, <1>6 DEF OutInv

\* The values that the fields of the form can be given.
LEMMA FieldEdits ==
  ASSUME NEW v \in Outbound
  PROVE  /\ \A f \in {"unset", "vision"} : [v EXCEPT !.flow = f] \in Outbound
         /\ \A d \in {"unset", "seed", "port 53", "ipsBlocked", "block rule", "sniffing off"} :
              [v EXCEPT !.detail = d] \in Outbound
         /\ \A t \in {"unset", "own"} \cup OtherTags : [v EXCEPT !.tag = t] \in Outbound
         /\ \A m \in BOOLEAN : [v EXCEPT !.mux = m] \in Outbound
<1>1. \A f \in {"unset", "vision"} : [v EXCEPT !.flow = f] \in Outbound
  BY DEF Outbound
<1>2. \A d \in {"unset", "seed", "port 53", "ipsBlocked", "block rule", "sniffing off"} :
        [v EXCEPT !.detail = d] \in Outbound
  BY DEF Outbound
<1>3. \A t \in {"unset", "own"} \cup OtherTags : [v EXCEPT !.tag = t] \in Outbound
  BY DEF Outbound
<1>4. \A m \in BOOLEAN : [v EXCEPT !.mux = m] \in Outbound
  BY DEF Outbound
<1> QED  BY <1>1, <1>2, <1>3, <1>4

LEMMA StreamEdits ==
  ASSUME NEW s \in Stream
  PROVE  /\ \A n \in {"unset", "sni"} : [s EXCEPT !.names = n] \in Stream
         /\ \A k \in {"unset", "mark", "defaults"} : [s EXCEPT !.sock = k] \in Stream
         /\ \A x \in {"unset", "connections", "concurrency", "both"} : [s EXCEPT !.xmux = x] \in Stream
         /\ \A m \in SUBSET {"tcp", "udp", "quic"} : [s EXCEPT !.masks = m] \in Stream
         /\ \A c \in {"none", "tls", "reality"} : [s EXCEPT !.security = c] \in Stream
<1>1. \A n \in {"unset", "sni"} : [s EXCEPT !.names = n] \in Stream
  BY DEF Stream
<1>2. \A k \in {"unset", "mark", "defaults"} : [s EXCEPT !.sock = k] \in Stream
  BY DEF Stream
<1>3. \A x \in {"unset", "connections", "concurrency", "both"} : [s EXCEPT !.xmux = x] \in Stream
  BY DEF Stream
<1>4. \A m \in SUBSET {"tcp", "udp", "quic"} : [s EXCEPT !.masks = m] \in Stream
  BY DEF Stream
<1>5. \A c \in {"none", "tls", "reality"} : [s EXCEPT !.security = c] \in Stream
  BY DEF Stream
<1> QED  BY <1>1, <1>2, <1>3, <1>4, <1>5

LEMMA ProtocolStands ==
  ASSUME OutInv, NEW p \in Protocols_, onValuesChange(p)
  PROVE  OutInv'
<1> DEFINE d == DetailRead([Blank EXCEPT !.protocol = p])
           s == CASE p = "hysteria" -> hysteriaStreamSlice
                  [] p # "hysteria" /\ outForm.stream.network = "hysteria" -> newStreamSlice("tcp")
                  [] OTHER -> outForm.stream
           v1 == [outForm EXCEPT !.protocol = p]
           v2 == [v1 EXCEPT !.flow = "unset"]
           v3 == [v2 EXCEPT !.detail = d]
           v4 == [v3 EXCEPT !.stream = s]
<1>0. outForm \in Outbound /\ outForm.stream \in Stream
  BY OutboundParts DEF OutInv, OutTyped
<1>1. d \in {"unset", "seed", "port 53", "ipsBlocked", "block rule", "sniffing off"}
  <2>1. [Blank EXCEPT !.protocol = p] \in Outbound
    BY PlainTyped DEF Outbound
  <2> QED  BY <2>1, OutboundParts DEF DetailRead
<1>2. s \in Stream
  BY <1>0, HysteriaSlice, TcpSlice
<1>3. EditedOutbound(v4)
  BY <1>0 DEF onValuesChange, Outbound
<1> HIDE DEF d, s
<1>4. v1 \in Outbound
  BY <1>0 DEF Outbound
<1> HIDE DEF v1
<1>5. v2 \in Outbound
  BY <1>4, FieldEdits
<1> HIDE DEF v2
<1>6. v3 \in Outbound
  BY <1>1, <1>5, FieldEdits
<1> HIDE DEF v3
<1>7. v4 \in Outbound
  BY <1>2, <1>6, OtherStream
<1> HIDE DEF v4
<1> QED  BY <1>3, <1>7, EditStands

LEMMA SecurityStands ==
  ASSUME OutInv, NEW c \in {"none", "tls", "reality"}, onOutboundSecurityChange(c)
  PROVE  OutInv'
<1> DEFINE s1 == [outForm.stream EXCEPT !.security = c]
           s2 == [s1 EXCEPT !.names = "unset"]
           v == [outForm EXCEPT !.stream = s2]
<1>0. outForm \in Outbound /\ outForm.stream \in Stream
  BY OutboundParts DEF OutInv, OutTyped
<1>1. EditedOutbound(v)
  BY <1>0 DEF onOutboundSecurityChange, Outbound
<1>2. s1 \in Stream
  BY <1>0, StreamEdits
<1> HIDE DEF s1
<1>3. s2 \in Stream
  BY <1>2, StreamEdits
<1> HIDE DEF s2
<1>4. v \in Outbound
  BY <1>0, <1>3, OtherStream
<1> HIDE DEF v
<1> QED  BY <1>1, <1>4, EditStands

LEMMA NetworkStands ==
  ASSUME OutInv, NEW n \in {"tcp", "ws", "xhttp"}, onNetworkChange(n)
  PROVE  OutInv'
<1> DEFINE s == applyNetworkChange(outForm.protocol, outForm.stream, n)
           v == [outForm EXCEPT !.stream = s]
<1>0. outForm \in Outbound /\ outForm.stream \in Stream
  BY OutboundParts DEF OutInv, OutTyped
<1>1. EditedOutbound(v)
  BY <1>0 DEF onNetworkChange
<1>2. s \in Stream
  <2> DEFINE k == \/ outForm.stream.security = "tls" /\ canEnableTls(outForm.protocol, n)
                  \/ outForm.stream.security = "reality" /\ canEnableReality(outForm.protocol, n)
             c == IF k THEN outForm.stream.security ELSE "none"
             m == IF k THEN outForm.stream.names ELSE "unset"
             s1 == [newStreamSlice(n) EXCEPT !.security = c]
             s2 == [s1 EXCEPT !.names = m]
  <2>1. c \in {"none", "tls", "reality"} /\ m \in {"unset", "sni"}
    BY <1>0 DEF Stream
  <2>2. s = s2
    BY DEF applyNetworkChange
  <2> HIDE DEF c, m
  <2>3. s1 \in Stream
    BY <2>1, SliceTyped, StreamEdits
  <2> HIDE DEF s1
  <2> QED  BY <2>1, <2>2, <2>3, StreamEdits
<1> HIDE DEF s
<1>3. v \in Outbound
  BY <1>0, <1>2, OtherStream
<1> HIDE DEF v
<1> QED  BY <1>1, <1>3, EditStands

\* The other fields.
LEMMA FieldStands ==
  ASSUME OutInv, TypeFlow \/ TypeTag \/ TypeSniffing \/ ToggleMux
  PROVE  OutInv'
<1>0. outForm \in Outbound /\ outForm.mux \in BOOLEAN
  BY OutboundParts DEF OutInv, OutTyped
<1>1. CASE TypeFlow
  <2>1. PICK v \in Outbound : EditedOutbound(v)
    BY <1>0, <1>1, FieldEdits DEF TypeFlow
  <2> QED  BY <2>1, EditStands
<1>2. CASE TypeTag
  <2>1. PICK v \in Outbound : EditedOutbound(v)
    BY <1>0, <1>2, FieldEdits DEF TypeTag
  <2> QED  BY <2>1, EditStands
<1>3. CASE TypeSniffing
  <2>1. PICK v \in Outbound : EditedOutbound(v)
    BY <1>0, <1>3, FieldEdits DEF TypeSniffing
  <2> QED  BY <2>1, EditStands
<1>4. CASE ToggleMux
  <2> DEFINE m == ~outForm.mux
             v == [outForm EXCEPT !.mux = m]
  <2>1. m \in BOOLEAN /\ EditedOutbound(v)
    BY <1>0, <1>4 DEF ToggleMux
  <2> HIDE DEF m
  <2>2. v \in Outbound
    BY <1>0, <2>1, FieldEdits
  <2> HIDE DEF v
  <2> QED  BY <2>1, <2>2, EditStands
<1> QED  BY <1>1, <1>2, <1>3, <1>4

LEMMA StreamStands ==
  ASSUME OutInv, TypeServerName \/ TypeSockopt \/ TypeXmux
  PROVE  OutInv'
<1>0. outForm \in Outbound /\ outForm.stream \in Stream
  BY OutboundParts DEF OutInv, OutTyped
<1>1. CASE TypeServerName
  <2> DEFINE s == [outForm.stream EXCEPT !.names = "sni"]
  <2>1. s \in Stream /\ EditedOutbound([outForm EXCEPT !.stream = s])
    BY <1>0, <1>1, StreamEdits DEF TypeServerName
  <2> HIDE DEF s
  <2> QED  BY <1>0, <2>1, OtherStream, EditStands
<1>2. CASE TypeSockopt
  <2>1. PICK k \in {"mark", "defaults"} : EditedOutbound([outForm EXCEPT !.stream.sock = k])
    BY <1>2 DEF TypeSockopt
  <2> DEFINE s == [outForm.stream EXCEPT !.sock = k]
  <2>2. s \in Stream /\ EditedOutbound([outForm EXCEPT !.stream = s])
    BY <1>0, <2>1, StreamEdits
  <2> HIDE DEF s
  <2> QED  BY <1>0, <2>2, OtherStream, EditStands
<1>3. CASE TypeXmux
  <2>1. PICK x \in {"concurrency", "both"} : EditedOutbound([outForm EXCEPT !.stream.xmux = x])
    BY <1>3 DEF TypeXmux
  <2> DEFINE s == [outForm.stream EXCEPT !.xmux = x]
  <2>2. s \in Stream /\ EditedOutbound([outForm EXCEPT !.stream = s])
    BY <1>0, <2>1, StreamEdits
  <2> HIDE DEF s
  <2> QED  BY <1>0, <2>2, OtherStream, EditStands
<1> QED  BY <1>1, <1>2, <1>3

LEMMA MaskStands ==
  ASSUME OutInv, NEW kind \in {"tcp", "udp", "quic"}, TypeMask(kind)
  PROVE  OutInv'
<1> DEFINE m == IF kind \in outForm.stream.masks THEN outForm.stream.masks \ {kind}
                ELSE outForm.stream.masks \cup {kind}
           s == [outForm.stream EXCEPT !.masks = m]
           v == [outForm EXCEPT !.stream = s]
<1>0. outForm \in Outbound /\ outForm.stream \in Stream
  BY OutboundParts DEF OutInv, OutTyped
<1>1. m \in SUBSET {"tcp", "udp", "quic"}
  BY <1>0 DEF Stream
<1>2. EditedOutbound(v)
  BY <1>0 DEF TypeMask
<1> HIDE DEF m
<1>3. s \in Stream
  BY <1>0, <1>1, StreamEdits
<1> HIDE DEF s
<1>4. v \in Outbound
  BY <1>0, <1>3, OtherStream
<1> HIDE DEF v
<1> QED  BY <1>2, <1>4, EditStands

LEMMA JsonStands ==
  ASSUME OutInv, NEW t \in Outbound, TypeJson(t)
  PROVE  OutInv'
<1> DEFINE yes == TRUE
           d == [outDialog EXCEPT !.dirty = yes]
<1>0. outDialog.tab = "json" /\ outForm \in Outbound /\ outLatest \in Outbound
  BY DEF TypeJson, OutInv, OutTyped
<1>1. outText' = t /\ outDialog' = d /\ yes /\ yes \in BOOLEAN
      /\ outForm' = outForm /\ confirmed' = confirmed
  BY DEF TypeJson
<1>2. outLatest' = CASE t = BrokenJson -> outLatest
                     [] t = Empty -> formValuesToWirePayload(outForm)
                     [] OTHER -> t
  BY DEF TypeJson
<1> HIDE DEF yes
<1>3. /\ d \in [open: BOOLEAN, of: Outbound, tab: {"form", "json"}, dirty: BOOLEAN]
      /\ d.tab = "json" /\ d.dirty = yes
  BY <1>0, <1>1 DEF OutInv, OutTyped
<1> HIDE DEF d
<1>4. Empty # BrokenJson
  <2>1. Empty.protocol = "empty" /\ BrokenJson.protocol = "broken"
    BY DEF Empty, BrokenJson, Blank
  <2> QED  BY <2>1
<1>5. outLatest' \in Outbound
  BY <1>0, <1>2, WireIs
<1>6. OutTyped'
  BY <1>1, <1>3, <1>5 DEF OutTyped, OutInv
<1>7. TextStands'
  BY <1>1, <1>2, <1>3, <1>4 DEF TextStands
<1> QED  BY <1>1, <1>3, <1>6, <1>7 DEF OutInv

LEMMA LinkStands ==
  ASSUME OutInv, NEW w \in Outbound, importShareLink(w)
  PROVE  OutInv'
<1> DEFINE no == FALSE
           tag == IF w.tag = "unset" THEN outForm.tag ELSE w.tag
           u == [w EXCEPT !.tag = tag]
           r == rawOutboundToFormValues(u)
           d1 == [outDialog EXCEPT !.dirty = no]
           d == [d1 EXCEPT !.tab = "form"]
<1>0. outForm \in Outbound
  BY DEF OutInv, OutTyped
<1>1. u \in Outbound
  <2>1. tag \in {"unset", "own"} \cup OtherTags
    BY <1>0, OutboundParts
  <2> HIDE DEF tag
  <2> QED  BY <2>1, FieldEdits
<1>2. outForm' = Settled(r) /\ outText' = formValuesToWirePayload(r)
      /\ outLatest' = formValuesToWirePayload(outForm') /\ confirmed' = confirmed
      /\ outDialog' = d /\ no \in BOOLEAN
  BY DEF importShareLink, Outbound
<1> HIDE DEF u, no
<1>3. r \in Outbound
  BY <1>1, RawIs
<1>4. outForm' \in Outbound /\ outText' \in Outbound
  BY <1>2, <1>3, SettledTyped, WireIs
<1>5. outLatest' \in Outbound
  BY <1>2, <1>4, WireIs
<1>6. /\ d \in [open: BOOLEAN, of: Outbound, tab: {"form", "json"}, dirty: BOOLEAN]
      /\ d.tab = "form"
  BY <1>2 DEF OutInv, OutTyped
<1> HIDE DEF d
<1>7. OutTyped'
  BY <1>2, <1>4, <1>5, <1>6 DEF OutTyped, OutInv
<1>8. FormStands'
  BY <1>2 DEF FormStands
<1>9. TextStands'
  BY <1>2, <1>6 DEF TextStands
<1> QED  BY <1>7, <1>8, <1>9 DEF OutInv

LEMMA TabStands ==
  ASSUME OutInv, onTabChange
  PROVE  OutInv'
<1> DEFINE no == FALSE
<1>0. /\ outDialog \in [open: BOOLEAN, of: Outbound, tab: {"form", "json"}, dirty: BOOLEAN]
      /\ outForm \in Outbound /\ outText \in Outbound
      /\ outLatest' = outLatest /\ confirmed' = confirmed /\ no \in BOOLEAN /\ ~no
      /\ outDialog.open
  BY DEF OutInv, OutTyped, onTabChange
<1>1. CASE outDialog.tab = "form"
  <2> DEFINE d1 == [outDialog EXCEPT !.tab = "json"]
             d == [d1 EXCEPT !.dirty = no]
  <2>1. outText' = formValuesToWirePayload(outForm) /\ outDialog' = d /\ outForm' = outForm
    BY <1>1 DEF onTabChange
  <2> HIDE DEF no
  <2>2. /\ d \in [open: BOOLEAN, of: Outbound, tab: {"form", "json"}, dirty: BOOLEAN]
        /\ d.dirty = no
    BY <1>0
  <2> HIDE DEF d
  <2>3. outText' \in Outbound
    BY <1>0, <2>1, WireIs
  <2>4. OutTyped'
    BY <1>0, <2>1, <2>2, <2>3 DEF OutTyped, OutInv
  <2>5. FormStands
    BY <1>0, <1>1 DEF OutInv
  <2>6. FormStands'
    BY <1>0, <2>1, <2>5 DEF FormStands
  <2>7. TextStands'
    BY <1>0, <2>1, <2>2 DEF TextStands
  <2> QED  BY <2>4, <2>6, <2>7 DEF OutInv
<1>2. CASE outDialog.tab # "form" /\ (~outDialog.dirty \/ outText = Empty)
  <2> DEFINE d == [outDialog EXCEPT !.tab = "form"]
  <2>1. outDialog' = d /\ outForm' = outForm /\ outText' = outText
    BY <1>2 DEF onTabChange, applyJsonToForm
  <2>2. /\ d \in [open: BOOLEAN, of: Outbound, tab: {"form", "json"}, dirty: BOOLEAN]
        /\ d.tab = "form"
    BY <1>0
  <2> HIDE DEF d
  <2>3. OutTyped'
    BY <1>0, <2>1, <2>2 DEF OutTyped, OutInv
  <2>4. FormStands
    BY <1>0, <1>2 DEF OutInv, TextStands, FormStands
  <2>5. FormStands'
    BY <1>0, <2>1, <2>4 DEF FormStands
  <2>6. TextStands'
    BY <2>1, <2>2 DEF TextStands
  <2> QED  BY <2>3, <2>5, <2>6 DEF OutInv
<1>3. CASE outDialog.tab # "form" /\ ~(~outDialog.dirty \/ outText = Empty)
  <2> DEFINE d1 == [outDialog EXCEPT !.tab = "form"]
             d == [d1 EXCEPT !.dirty = no]
             r == rawOutboundToFormValues(outText)
  <2>1. outDialog' = d /\ outForm' = Settled(r) /\ outText' = outText /\ outText # BrokenJson
    BY <1>3 DEF onTabChange, applyJsonToForm
  <2> HIDE DEF no
  <2>2. /\ d \in [open: BOOLEAN, of: Outbound, tab: {"form", "json"}, dirty: BOOLEAN]
        /\ d.tab = "form"
    BY <1>0
  <2> HIDE DEF d
  <2>3. r \in Outbound
    BY <1>0, RawIs
  <2>4. outForm' \in Outbound
    BY <2>1, <2>3, SettledTyped
  <2>5. OutTyped'
    BY <1>0, <2>1, <2>2, <2>4 DEF OutTyped, OutInv
  <2>6. outLatest = outText
    BY <1>0, <1>3, <2>1 DEF OutInv, TextStands
  <2>7. FormStands'
    BY <1>0, <2>1, <2>6 DEF FormStands
  <2>8. TextStands'
    BY <2>1, <2>2 DEF TextStands
  <2> QED  BY <2>5, <2>7, <2>8 DEF OutInv
<1> QED  BY <1>1, <1>2, <1>3

LEMMA ClosedStands ==
  ASSUME OutInv, ClosedOutbound, confirmed' \in Outbound
  PROVE  OutInv'
<1> DEFINE no == FALSE
<1>1. outDialog' = [open |-> no, of |-> Nothing, tab |-> "form", dirty |-> no] /\ no \in BOOLEAN
      /\ ~no
  BY DEF ClosedOutbound
<1> HIDE DEF no
<1>2. /\ outDialog' \in [open: BOOLEAN, of: Outbound, tab: {"form", "json"}, dirty: BOOLEAN]
      /\ outDialog'.open = no
  BY <1>1, PlainTyped, DialogOf
<1>3. OutTyped'
  BY <1>2, PlainTyped DEF OutTyped, ClosedOutbound
<1> QED  BY <1>1, <1>2, <1>3 DEF OutInv

LEMMA OkStands ==
  ASSUME OutInv, onOk
  PROVE  OutInv'
<1> DEFINE v == IF outDialog.tab = "json" THEN rawOutboundToFormValues(outText) ELSE outForm
<1>1. v \in Outbound
  BY RawIs DEF OutInv, OutTyped
<1>2. confirmed' = formValuesToWirePayload(v) /\ ClosedOutbound
  BY DEF onOk
<1> HIDE DEF v
<1>3. confirmed' \in Outbound
  BY <1>1, <1>2, WireIs
<1> QED  BY <1>2, <1>3, ClosedStands

LEMMA OutInvStutter ==
  ASSUME OutInv, UNCHANGED outboundVars PROVE OutInv'
BY DEF OutInv, OutTyped, FormStands, TextStands, outboundVars

LEMMA OutInvStep ==
  ASSUME OutInv, OutboundFormNext PROVE OutInv'
<1>0. confirmed \in Outbound
  BY DEF OutInv, OutTyped
<1>1. CASE \E w \in Opened \cup {Blank} \cup ({confirmed} \ {Nothing}) : openForm(w)
  BY <1>0, <1>1, OutboundFormAssumption, PlainTyped, OpenStands
<1>2. CASE \E p \in Protocols_ : onValuesChange(p)
  BY <1>2, ProtocolStands
<1>3. CASE \E s \in {"none", "tls", "reality"} : onOutboundSecurityChange(s)
  BY <1>3, SecurityStands
<1>4. CASE \E n \in {"tcp", "ws", "xhttp"} : onNetworkChange(n)
  BY <1>4, NetworkStands
<1>5. CASE TypeFlow \/ TypeTag \/ TypeSniffing \/ ToggleMux
  BY <1>5, FieldStands
<1>6. CASE TypeServerName \/ TypeSockopt \/ TypeXmux
  BY <1>6, StreamStands
<1>7. CASE TypeTcpMask \/ TypeUdpMask \/ TypeQuic
  BY <1>7, MaskStands DEF TypeTcpMask, TypeUdpMask, TypeQuic
<1>8. CASE \E t \in Pasted \cup {BrokenJson, Empty} : TypeJson(t)
  BY <1>8, OutboundFormAssumption, PlainTyped, JsonStands
<1>9. CASE \E w \in Pasted : importShareLink(w)
  BY <1>9, OutboundFormAssumption, LinkStands
<1>10. CASE onTabChange
  BY <1>10, TabStands
<1>11. CASE onOk
  BY <1>11, OkStands
<1>12. CASE onClose
  BY <1>0, <1>12, ClosedStands DEF onClose
<1> QED  BY <1>1, <1>2, <1>3, <1>4, <1>5, <1>6, <1>7, <1>8, <1>9, <1>10, <1>11, <1>12
         DEF OutboundFormNext

\* What is confirmed is what the operator last made.
LEMMA ConfirmedFromInv ==
  ASSUME OutInv, OutboundFormNext \/ UNCHANGED outboundVars
  PROVE  ConfirmedAsEdited
<1> DEFINE w == outLatest
<1> SUFFICES ASSUME onOk, Expressible(w)
             PROVE  WithTransport(confirmed') = WithTransport(w)
  BY DEF ConfirmedAsEdited
<1>0. outForm \in Outbound /\ outText \in Outbound /\ w \in Outbound /\ outDialog.open
      /\ outDialog.tab \in {"form", "json"}
  BY DEF OutInv, OutTyped, onOk
<1> HIDE DEF w
<1>1. /\ WithTransport(w) \in Outbound /\ Expressible(WithTransport(w))
      /\ WithTransport(WithTransport(w)) = WithTransport(w)
  BY <1>0, TransportExpressible
<1>2. FormStands =>
        formValuesToWirePayload(outForm) = w \/ formValuesToWirePayload(outForm) = WithTransport(w)
  BY <1>0, SettledComesBack DEF FormStands, w
<1>3. CASE outDialog.tab = "form"
  <2>1. confirmed' = formValuesToWirePayload(outForm)
    BY <1>3 DEF onOk
  <2>2. FormStands
    BY <1>0, <1>3 DEF OutInv
  <2> QED  BY <1>1, <1>2, <2>1, <2>2
<1>4. CASE outDialog.tab = "json"
  <2>1. confirmed' = formValuesToWirePayload(rawOutboundToFormValues(outText))
        /\ outText \notin {BrokenJson, Empty}
    BY <1>4 DEF onOk
  <2>2. outText = w \/ outText = WithTransport(w)
    BY <1>0, <1>2, <1>4, <2>1 DEF OutInv, TextStands, w
  <2>3. confirmed' = outText
    BY <1>0, <1>1, <2>1, <2>2, ExpressibleComesBack
  <2> QED  BY <1>1, <2>2, <2>3
<1> QED  BY <1>0, <1>3, <1>4

-----------------------------------------------------------------------------
(* The sequence that FlattenSeq makes of the sequences ss, step by step.   *)

Flat(ss, E, g) ==
  /\ g \in [0..Len(ss) -> Seq(E)] /\ g[0] = <<>>
  /\ \A i \in 1..Len(ss) : g[i] = g[i - 1] \o ss[i]

\* The steps exist ...
LEMMA FlatExists ==
  ASSUME NEW E, NEW ss \in Seq(Seq(E))
  PROVE  \E g : Flat(ss, E, g)
<1> DEFINE n == Len(ss)
           To(g, k) == g \in [0..k -> Seq(E)] /\ g[0] = <<>> /\ \A i \in 1..k : g[i] = g[i - 1] \o ss[i]
           T == {k \in Nat : k <= n => \E g : To(g, k)}
<1>0. n \in Nat /\ \A i \in 1..n : ss[i] \in Seq(E)
  OBVIOUS
<1>1. 0 \in T
  <2>1. To([i \in 0..0 |-> <<>>], 0)
    <3>1. <<>> \in Seq(E)
      BY EmptySeq
    <3> QED  BY <3>1
  <2> HIDE DEF To
  <2> QED  BY <2>1
<1>2. ASSUME NEW k \in T PROVE k + 1 \in T
  <2> SUFFICES ASSUME k + 1 <= n PROVE \E g : To(g, k + 1)
    <3> HIDE DEF To, n
    <3> QED  OBVIOUS
  <2>1. PICK g : To(g, k)
    <3> HIDE DEF To, n
    <3> QED  BY <1>0
  <2> DEFINE y == g[k] \o ss[k + 1]
             h == [i \in 0..(k + 1) |-> IF i = k + 1 THEN y ELSE g[i]]
  <2>2. ss[k + 1] \in Seq(E) /\ g[k] \in Seq(E)
    BY <1>0, <2>1
  <2>3. y \in Seq(E)
    BY <2>2, ConcatProperties
  <2>y. y = g[k] \o ss[k + 1]
    OBVIOUS
  <2> HIDE DEF y
  <2>4. h \in [0..(k + 1) -> Seq(E)] /\ h[0] = <<>>
    BY <2>1, <2>3
  <2>5. ASSUME NEW i \in 1..(k + 1) PROVE h[i] = h[i - 1] \o ss[i]
    <3>1. CASE i = k + 1
      <4>1. h[i] = y /\ h[i - 1] = g[k]
        BY <3>1
      <4> HIDE DEF h
      <4> QED  BY <3>1, <4>1, <2>y
    <3>2. CASE i # k + 1
      <4>1. i \in 1..k /\ i - 1 \in 0..k /\ h[i] = g[i] /\ h[i - 1] = g[i - 1]
        BY <3>2
      <4> QED  BY <4>1, <2>1
    <3> QED  BY <3>1, <3>2
  <2> HIDE DEF h
  <2> QED  BY <2>4, <2>5
<1>3. T = Nat
  <2> HIDE DEF To, n
  <2>1. T \in SUBSET Nat
    OBVIOUS
  <2> HIDE DEF T
  <2> QED  BY <1>1, <1>2, <2>1, Numbers
<1>4. PICK g : To(g, n)
  <2> HIDE DEF To, n
  <2>1. n \in T /\ n <= n
    <3> HIDE DEF T
    <3> QED  BY <1>0, <1>3
  <2> QED  BY <2>1
<1> QED  BY <1>4 DEF Flat

\* ... and the last of them is the result.
LEMMA FlatIs ==
  ASSUME NEW E, NEW ss \in Seq(Seq(E)), NEW g, Flat(ss, E, g)
  PROVE  FlattenSeq(ss) = g[Len(ss)] /\ FlattenSeq(ss) \in Seq(E)
<1> DEFINE n == Len(ss)
<1>0. n \in Nat /\ \A i \in 1..n : ss[i] \in Seq(E)
  OBVIOUS
<1>b. g \in [0..n -> Seq(E)] /\ g[0] = <<>> /\ \A i \in 1..n : g[i] = g[i - 1] \o ss[i]
  BY DEF Flat
<1>a. g[n] \in Seq(E)
  BY <1>0, <1>b
<1>1. CASE n = 0
  <2>1. ss = <<>>
    BY <1>1
  <2>2. FlattenSeq(ss) = ss
    BY <1>1 DEF FlattenSeq
  <2> QED  BY <1>1, <2>1, <2>2, <1>a DEF Flat
<1>2. CASE n # 0
  <2> DEFINE body(f) == [i \in 1..n |-> IF i = 1 THEN ss[i] ELSE f[i - 1] \o ss[i]]
             c == CHOOSE f : f = [i \in 1..n |-> IF i = 1 THEN ss[i] ELSE f[i - 1] \o ss[i]]
             w == [i \in 1..n |-> g[i]]
  <2>1. ASSUME NEW i \in 1..n PROVE w[i] = IF i = 1 THEN ss[i] ELSE w[i - 1] \o ss[i]
    <3>1. CASE i = 1
      <4>1. g[1] = g[1 - 1] \o ss[1] /\ 1 - 1 = 0 /\ g[0] = <<>>
        <5> HIDE DEF w, n
        <5>1. 1 \in 1..n
          BY <3>1
        <5>2. \A k \in 1..n : g[k] = g[k - 1] \o ss[k]
          BY <1>b
        <5>3. g[1] = g[1 - 1] \o ss[1]
          BY <5>1, <5>2
        <5> QED  BY <1>b, <5>3
      <4>2. <<>> \o ss[1] = ss[1]
        BY <1>0, <3>1, ConcatEmptySeq
      <4> QED  BY <3>1, <4>1, <4>2
    <3>2. CASE i # 1
      <4>1. i - 1 \in 1..n /\ g[i] = g[i - 1] \o ss[i]
        <5> HIDE DEF w, n
        <5>2. \A k \in 1..n : g[k] = g[k - 1] \o ss[k]
          BY <1>b
        <5>3. n \in Nat /\ i \in 1..n /\ i # 1
          BY <1>0, <3>2
        <5>4. i - 1 \in 1..n
          BY <5>3
        <5> QED  BY <5>2, <5>3, <5>4
      <4> QED  BY <3>2, <4>1
    <3> QED  BY <3>1, <3>2
  <2>2. w = body(w)
    <3>1. w = [i \in 1..n |-> w[i]]
      OBVIOUS
    <3> HIDE DEF w
    <3> QED  BY <2>1, <3>1
  <2>3. c = body(c)
    <3>1. \E f : f = body(f)
      <4> HIDE DEF w
      <4> QED  BY <2>2
    <3>2. c = CHOOSE f : f = body(f)
      OBVIOUS
    <3> HIDE DEF body, c
    <3> QED  BY <3>1, <3>2
  <2>4. FlattenSeq(ss) = c[n]
    BY <1>2 DEF FlattenSeq
  <2> DEFINE D == {i \in 1..n : c[i] # w[i]}
  <2>5. D = {}
    <3> SUFFICES ASSUME D # {} PROVE FALSE
      OBVIOUS
    <3>1. D \in SUBSET Nat
      <4> HIDE DEF c, w
      <4> QED  BY <1>0
    <3>2. PICK k \in D : \A m \in D : k <= m
      <4> HIDE DEF D
      <4> QED  BY <3>1, LeastNatural
    <3>3. k \in 1..n /\ c[k] # w[k]
      OBVIOUS
    <3> HIDE DEF c, w
    <3>4. c[k] = IF k = 1 THEN ss[k] ELSE c[k - 1] \o ss[k]
      BY <2>3, <3>3
    <3>5. w[k] = IF k = 1 THEN ss[k] ELSE w[k - 1] \o ss[k]
      BY <2>1, <3>3
    <3>6. k # 1
      BY <3>3, <3>4, <3>5
    <3>7. k - 1 \in 1..n /\ ~(k <= k - 1)
      BY <1>0, <3>3, <3>6
    <3>8. c[k - 1] = w[k - 1]
      BY <3>2, <3>7
    <3> QED  BY <3>3, <3>4, <3>5, <3>6, <3>8
  <2>6. c[n] = w[n] /\ w[n] = g[n]
    <3>1. n \in 1..n
      BY <1>0, <1>2
    <3>2. w[n] = g[n]
      BY <3>1
    <3> HIDE DEF c, w
    <3> QED  BY <2>5, <3>1, <3>2
  <2> QED  BY <2>4, <2>6, <1>a
<1> QED  BY <1>1, <1>2

\* One sequence more.
LEMMA FlatAppend ==
  ASSUME NEW E, NEW ss \in Seq(Seq(E)), NEW x \in Seq(E)
  PROVE  FlattenSeq(Append(ss, x)) = FlattenSeq(ss) \o x
<1> DEFINE n == Len(ss)
           more == Append(ss, x)
<1>1. PICK g : Flat(ss, E, g)
  BY FlatExists
<1>2. n \in Nat /\ more \in Seq(Seq(E)) /\ Len(more) = n + 1 /\ more[n + 1] = x /\ \A i \in 1..n : more[i] = ss[i]
  BY AppendProperties
<1> DEFINE y == g[n] \o x
           h == [i \in 0..(n + 1) |-> IF i = n + 1 THEN y ELSE g[i]]
<1>3. FlattenSeq(ss) = g[n] /\ g[n] \in Seq(E)
  BY <1>1, FlatIs
<1> HIDE DEF more, n
<1>4. g \in [0..n -> Seq(E)] /\ g[0] = <<>> /\ \A i \in 1..n : g[i] = g[i - 1] \o ss[i]
  BY <1>1 DEF Flat, n
<1>5. h \in [0..(n + 1) -> Seq(E)] /\ h[0] = <<>> /\ h[n + 1] = y
  <2>1. y \in Seq(E)
    BY <1>3, ConcatProperties
  <2> HIDE DEF y
  <2> QED  BY <1>2, <1>4, <2>1
<1>6. ASSUME NEW i \in 1..(n + 1) PROVE h[i] = h[i - 1] \o more[i]
  <2>1. CASE i = n + 1
    <3>1. h[i] = y /\ h[i - 1] = g[n]
      <4> HIDE DEF y
      <4> QED  BY <1>2, <2>1
    <3> HIDE DEF h
    <3> QED  BY <1>2, <2>1, <3>1
  <2>2. CASE i # n + 1
    <3>1. i \in 1..n /\ i - 1 \in 0..n /\ h[i] = g[i] /\ h[i - 1] = g[i - 1]
      BY <1>2, <2>2
    <3> QED  BY <1>2, <1>4, <3>1
  <2> QED  BY <2>1, <2>2
<1>y. y = g[n] \o x
  OBVIOUS
<1> HIDE DEF h, y
<1>7. Flat(more, E, h)
  BY <1>2, <1>5, <1>6 DEF Flat
<1>8. FlattenSeq(more) = h[n + 1]
  BY <1>2, <1>7, FlatIs
<1> QED  BY <1>3, <1>5, <1>8, <1>y DEF more

LEMMA FlatIsSeq ==
  ASSUME NEW E, NEW ss \in Seq(Seq(E))
  PROVE  FlattenSeq(ss) \in Seq(E)
BY FlatExists, FlatIs

-----------------------------------------------------------------------------
(* The lists of the basic controls and the rules they are made from.       *)

\* What a rule adds to a list, and what a list of rules shows.
Part(rule, tag, p) == IF Matches(rule, tag, p) THEN rule[p] ELSE <<>>
ListShown(rules, tag, p) == FlattenSeq([i \in DOMAIN rules |-> Part(rules[i], tag, p)])

LEMMA PartIsData ==
  ASSUME NEW rule \in TemplateRules, NEW tag, NEW p \in Properties
  PROVE  Part(rule, tag, p) \in Seq(RuleEntries)
<1>1. rule[p] \in RuleData
  BY DEF TemplateRules
<1>2. <<>> \in Seq(RuleEntries)
  BY EmptySeq
<1> QED  BY <1>1, <1>2 DEF Part, Matches, RuleData

LEMMA PartsAreData ==
  ASSUME NEW rules \in Seq(TemplateRules), NEW tag, NEW p \in Properties
  PROVE  /\ [i \in DOMAIN rules |-> Part(rules[i], tag, p)] \in Seq(Seq(RuleEntries))
         /\ Len([i \in DOMAIN rules |-> Part(rules[i], tag, p)]) = Len(rules)
         /\ Len(rules) \in Nat /\ DOMAIN rules = 1..Len(rules)
<1> DEFINE n == Len(rules)
<1>1. n \in Nat /\ DOMAIN rules = 1..n /\ \A i \in 1..n : rules[i] \in TemplateRules
  OBVIOUS
<1>2. \A i \in 1..n : Part(rules[i], tag, p) \in Seq(RuleEntries)
  BY <1>1, PartIsData
<1> HIDE DEF n
<1>3. [i \in 1..n |-> Part(rules[i], tag, p)] \in [1..n -> Seq(RuleEntries)]
  BY <1>2
<1> DEFINE f == [i \in 1..n |-> Part(rules[i], tag, p)]
<1>4. f \in Seq(Seq(RuleEntries)) /\ Len(f) = n
  <2> HIDE DEF f
  <2> QED  BY <1>1, <1>3 DEF f
<1> QED  BY <1>1, <1>4 DEF n

LEMMA ShownIsData ==
  ASSUME NEW rules \in Seq(TemplateRules), NEW tag, NEW p \in Properties
  PROVE  ListShown(rules, tag, p) \in Seq(RuleEntries)
BY PartsAreData, FlatIsSeq, ZenonT(60) DEF ListShown

LEMMA NothingShown == ASSUME NEW tag, NEW p PROVE ListShown(<<>>, tag, p) = <<>>
<1>1. [i \in DOMAIN <<>> |-> Part(<<>>[i], tag, p)] = <<>>
  OBVIOUS
<1>2. Len(<<>>) = 0
  BY EmptySeq
<1>3. FlattenSeq(<<>>) = <<>>
  BY <1>2 DEF FlattenSeq
<1> QED  BY <1>1, <1>3 DEF ListShown

LEMMA OneMoreRule ==
  ASSUME NEW rules \in Seq(TemplateRules), NEW rule \in TemplateRules, NEW tag, NEW p \in Properties
  PROVE  ListShown(Append(rules, rule), tag, p) = ListShown(rules, tag, p) \o Part(rule, tag, p)
<1> DEFINE u == Append(rules, rule)
           n == Len(rules)
           f == [i \in DOMAIN rules |-> Part(rules[i], tag, p)]
           h == [i \in DOMAIN u |-> Part(u[i], tag, p)]
           x == Part(rule, tag, p)
<1>1. u \in Seq(TemplateRules) /\ Len(u) = n + 1 /\ u[n + 1] = rule /\ \A i \in 1..n : u[i] = rules[i]
  BY AppendProperties
<1>2. f \in Seq(Seq(RuleEntries)) /\ Len(f) = n /\ n \in Nat /\ DOMAIN rules = 1..n
  BY PartsAreData
<1>3. h \in Seq(Seq(RuleEntries)) /\ Len(h) = n + 1 /\ DOMAIN u = 1..(n + 1)
  <2> HIDE DEF u
  <2> QED  BY <1>1, PartsAreData
<1>4. x \in Seq(RuleEntries)
  BY PartIsData
<1>5. h[n + 1] = x /\ \A i \in 1..n : h[i] = f[i]
  <2> HIDE DEF u, x
  <2>1. h[n + 1] = x
    BY <1>1, <1>2, <1>3 DEF x
  <2>2. ASSUME NEW i \in 1..n PROVE h[i] = f[i]
    BY <1>1, <1>2, <1>3
  <2> QED  BY <2>1, <2>2
<1> HIDE DEF f, h, x, n, u
<1>6. h = Append(f, x)
  <2> DEFINE a == Append(f, x)
  <2>1. a \in Seq(Seq(RuleEntries)) /\ Len(a) = n + 1 /\ a[n + 1] = x /\ \A i \in 1..n : a[i] = f[i]
    BY <1>2, <1>4, AppendProperties
  <2> HIDE DEF a
  <2>2. \A i \in 1..Len(h) : h[i] = a[i]
    <3> SUFFICES ASSUME NEW i \in 1..(n + 1) PROVE h[i] = a[i]
      BY <1>3
    <3>1. i \in 1..n \/ i = n + 1
      BY <1>2
    <3>2. ASSUME NEW k \in 1..n PROVE h[k] = a[k]
      BY <1>5, <2>1
    <3> QED  BY <1>5, <2>1, <3>1, <3>2
  <2>3. h = a
    BY <1>3, <2>1, <2>2, SeqEqual
  <2> QED  BY <2>3 DEF a
<1>7. FlattenSeq(h) = FlattenSeq(f) \o x
  BY <1>2, <1>4, <1>6, FlatAppend
<1> QED  BY <1>7 DEF f, h, x, u, ListShown

\* A rule that says nothing for the list adds nothing to it.
LEMMA OneMoreElsewhere ==
  ASSUME NEW rules \in Seq(TemplateRules), NEW rule \in TemplateRules, NEW tag, NEW p \in Properties,
         ~ Matches(rule, tag, p)
  PROVE  ListShown(Append(rules, rule), tag, p) = ListShown(rules, tag, p)
<1>1. Part(rule, tag, p) = <<>>
  BY DEF Part
<1>2. ListShown(rules, tag, p) \o <<>> = ListShown(rules, tag, p)
  BY ShownIsData, ConcatEmptySeq
<1> QED  BY <1>1, <1>2, OneMoreRule

\* A list that shows something has a rule, and so a first one.
LEMMA ShownHasFirst ==
  ASSUME NEW rules \in Seq(TemplateRules), NEW tag, NEW p \in Properties, ListShown(rules, tag, p) # <<>>
  PROVE  \E i \in DOMAIN rules : Matches(rules[i], tag, p) /\ \A j \in 1..(i - 1) : ~ Matches(rules[j], tag, p)
<1> DEFINE n == Len(rules)
           f == [i \in DOMAIN rules |-> Part(rules[i], tag, p)]
           D == {i \in DOMAIN rules : Matches(rules[i], tag, p)}
<1>1. f \in Seq(Seq(RuleEntries)) /\ Len(f) = n /\ n \in Nat /\ DOMAIN rules = 1..n
  BY PartsAreData
<1>2. CASE D = {}
  <2>1. PICK g : Flat(f, RuleEntries, g)
    <3> HIDE DEF f
    <3> QED  BY <1>1, FlatExists
  <2>2. \A i \in 1..n : f[i] = <<>>
    BY <1>1, <1>2 DEF Part
  <2>3. ListShown(rules, tag, p) = g[n]
    <3>1. FlattenSeq(f) = g[Len(f)]
      <4> HIDE DEF f
      <4> QED  BY <1>1, <2>1, FlatIs
    <3> QED  BY <1>1, <3>1 DEF ListShown
  <2> HIDE DEF f, n
  <2>4. g[0] = <<>> /\ \A i \in 1..n : g[i - 1] \in Seq(RuleEntries) /\ g[i] = g[i - 1] \o f[i]
    <3>1. g \in [0..n -> Seq(RuleEntries)] /\ g[0] = <<>> /\ \A i \in 1..n : g[i] = g[i - 1] \o f[i]
      BY <1>1, <2>1 DEF Flat
    <3>2. \A i \in 1..n : i - 1 \in 0..n
      BY <1>1
    <3> QED  BY <3>1, <3>2
  <2>5. \A i \in 1..n : g[i] = g[i - 1]
    BY <2>2, <2>4, ConcatEmptySeq
  <2> DEFINE B == {i \in 0..n : g[i] # <<>>}
  <2>6. CASE B = {}
    BY <1>1, <2>3, <2>6
  <2>7. CASE B # {}
    <3>1. B \in SUBSET Nat
      BY <1>1
    <3>2. PICK k \in B : \A m \in B : k <= m
      <4> HIDE DEF B
      <4> QED  BY <2>7, <3>1, LeastNatural
    <3>3. k \in 0..n /\ g[k] # <<>> /\ k # 0
      BY <2>4
    <3>4. k \in 1..n /\ k - 1 \in 0..n /\ ~ (k <= k - 1)
      BY <1>1, <3>3
    <3>5. g[k - 1] = <<>>
      BY <3>2, <3>4
    <3> QED  BY <2>5, <3>3, <3>4, <3>5
  <2> QED  BY <2>6, <2>7
<1>3. CASE D # {}
  <2>1. D \in SUBSET Nat
    BY <1>1
  <2>2. PICK i \in D : \A j \in D : i <= j
    <3> HIDE DEF D
    <3> QED  BY <1>3, <2>1, LeastNatural
  <2>3. i \in 1..n /\ Matches(rules[i], tag, p)
    BY <1>1, <2>2
  <2>4. ASSUME NEW j \in 1..(i - 1) PROVE ~ Matches(rules[j], tag, p)
    <3>1. j \in 1..n /\ ~(i <= j)
      BY <1>1, <2>3
    <3> QED  BY <1>1, <2>2, <3>1
  <2> QED  BY <1>1, <2>3, <2>4
<1> QED  BY <1>2, <1>3

-----------------------------------------------------------------------------
(* An edit of a list that shows something.                                 *)

\* What becomes of a rule: it stays, takes what was chosen, or goes.
ListKept(rules, i, first, tag, p, data) ==
  IF ~Matches(rules[i], tag, p) THEN <<rules[i]>>
  ELSE IF i = first /\ data # <<>> THEN <<[rules[i] EXCEPT ![p] = data]>>
  ELSE <<>>

AllKept(rules, first, tag, p, data) ==
  [i \in DOMAIN rules |-> ListKept(rules, i, first, tag, p, data)]

LEMMA EditedRule ==
  ASSUME NEW rule \in TemplateRules, NEW tag, NEW p \in Properties, NEW data \in Seq(RuleEntries)
  PROVE  /\ [rule EXCEPT ![p] = data] \in TemplateRules
         /\ [rule EXCEPT ![p] = data][p] = data
         /\ [rule EXCEPT ![p] = data].outboundTag = rule.outboundTag
         /\ \A q \in Properties \ {p} : [rule EXCEPT ![p] = data][q] = rule[q]
<1> DEFINE x == [rule EXCEPT ![p] = data]
<1>1. rule \in [Properties \cup {"outboundTag"} -> RuleData \cup OutboundTags] /\ \A q \in Properties : rule[q] \in RuleData
  BY DEF TemplateRules
<1>2. data \in RuleData
  BY DEF RuleData
<1>3. p # "outboundTag" /\ p \in Properties \cup {"outboundTag"}
  BY DEF Properties
<1>4. x \in [Properties \cup {"outboundTag"} -> RuleData \cup OutboundTags]
  BY <1>1, <1>2
<1>5. x[p] = data /\ x["outboundTag"] = rule["outboundTag"] /\ \A q \in Properties \ {p} : x[q] = rule[q]
  BY <1>1, <1>3
<1> HIDE DEF x
<1>6. x \in TemplateRules
  BY <1>1, <1>2, <1>4, <1>5 DEF TemplateRules
<1> QED  BY <1>5, <1>6 DEF x

LEMMA KeptIsRules ==
  ASSUME NEW rules \in Seq(TemplateRules), NEW first, NEW tag, NEW p \in Properties,
         NEW data \in Seq(RuleEntries), NEW i \in DOMAIN rules
  PROVE  ListKept(rules, i, first, tag, p, data) \in Seq(TemplateRules)
<1>1. rules[i] \in TemplateRules
  OBVIOUS
<1> DEFINE x == [rules[i] EXCEPT ![p] = data]
           y == rules[i]
<1>2. x \in TemplateRules
  BY <1>1, EditedRule
<1> HIDE DEF x
<1>3. <<y>> \in Seq(TemplateRules) /\ <<x>> \in Seq(TemplateRules) /\ <<>> \in Seq(TemplateRules)
  BY <1>1, <1>2
<1>4. ListKept(rules, i, first, tag, p, data) \in {<<y>>, <<x>>, <<>>}
  BY DEF ListKept, x
<1> QED  BY <1>3, <1>4

LEMMA AllKeptIsRules ==
  ASSUME NEW rules \in Seq(TemplateRules), NEW first, NEW tag, NEW p \in Properties,
         NEW data \in Seq(RuleEntries)
  PROVE  /\ AllKept(rules, first, tag, p, data) \in Seq(Seq(TemplateRules))
         /\ Len(AllKept(rules, first, tag, p, data)) = Len(rules)
<1> DEFINE n == Len(rules)
           f == [i \in 1..n |-> ListKept(rules, i, first, tag, p, data)]
<1>1. n \in Nat /\ DOMAIN rules = 1..n
  OBVIOUS
<1>2. \A i \in 1..n : ListKept(rules, i, first, tag, p, data) \in Seq(TemplateRules)
  BY <1>1, KeptIsRules
<1>3. f \in [1..n -> Seq(TemplateRules)]
  BY <1>2
<1>4. f \in Seq(Seq(TemplateRules)) /\ Len(f) = n
  <2> HIDE DEF f, n
  <2> QED  BY <1>1, <1>3
<1>5. AllKept(rules, first, tag, p, data) = f
  BY <1>1 DEF AllKept
<1> QED  BY <1>4, <1>5

IsFirst(rules, first, tag, p) ==
  /\ first \in DOMAIN rules /\ Matches(rules[first], tag, p)
  /\ \A j \in 1..(first - 1) : ~ Matches(rules[j], tag, p)

\* The list shows what was chosen.
LEMMA EditedReadsBack ==
  ASSUME NEW rules \in Seq(TemplateRules), NEW tag, NEW p \in Properties, NEW data \in Seq(RuleEntries),
         NEW first, IsFirst(rules, first, tag, p)
  PROVE  ListShown(FlattenSeq(AllKept(rules, first, tag, p, data)), tag, p) = data
<1> DEFINE n == Len(rules)
           e == AllKept(rules, first, tag, p, data)
           so(k) == IF k < first THEN <<>> ELSE data
<1>1. e \in Seq(Seq(TemplateRules)) /\ Len(e) = n /\ n \in Nat /\ DOMAIN rules = 1..n
  <2>1. n \in Nat /\ DOMAIN rules = 1..n
    OBVIOUS
  <2>2. e \in Seq(Seq(TemplateRules)) /\ Len(e) = n
    BY AllKeptIsRules
  <2> QED  BY <2>1, <2>2
<1>2. \A i \in 1..n : e[i] = ListKept(rules, i, first, tag, p, data) /\ rules[i] \in TemplateRules
  BY <1>1 DEF AllKept
<1> HIDE DEF e
<1>3. PICK g : Flat(e, TemplateRules, g)
  BY <1>1, FlatExists
<1>4. FlattenSeq(e) = g[n]
  BY <1>1, <1>3, FlatIs
<1> HIDE DEF n
<1>5. g[0] = <<>> /\ (\A i \in 0..n : g[i] \in Seq(TemplateRules)) /\ \A i \in 1..n : g[i] = g[i - 1] \o e[i]
  BY <1>1, <1>3 DEF Flat
<1>6. first \in 1..n /\ Matches(rules[first], tag, p) /\ \A j \in 1..(first - 1) : ~ Matches(rules[j], tag, p)
  BY <1>1 DEF IsFirst
<1>7. Missing # data
  BY BasicsAssumption
<1>8. ASSUME NEW k \in 1..n, ListShown(g[k - 1], tag, p) = so(k - 1) PROVE ListShown(g[k], tag, p) = so(k)
  <2>0. k - 1 \in 0..n /\ k \in Nat /\ first \in Nat /\ g[k - 1] \in Seq(TemplateRules) /\ g[k] = g[k - 1] \o e[k]
    <3>1. k - 1 \in 0..n /\ k \in Nat
      BY <1>1
    <3>2. first \in Nat
      BY <1>1, <1>6
    <3> QED  BY <1>5, <3>1, <3>2
  <2>1. CASE ~ Matches(rules[k], tag, p)
    <3>1. e[k] = <<rules[k]>>
      BY <1>2, <2>1 DEF ListKept
    <3>2. g[k] = Append(g[k - 1], rules[k])
      BY <2>0, <3>1, <1>2, AppendIsConcat
    <3>3. ListShown(g[k], tag, p) = ListShown(g[k - 1], tag, p)
      BY <2>0, <2>1, <3>2, <1>2, OneMoreElsewhere
    <3>4. so(k) = so(k - 1)
      <4>1. k # first
        BY <2>1, <1>6
      <4> QED  BY <4>1, <2>0
    <3> QED  BY <1>8, <3>3, <3>4
  <2>2. CASE Matches(rules[k], tag, p) /\ k = first /\ data # <<>>
    <3> DEFINE x == [rules[k] EXCEPT ![p] = data]
    <3>1. e[k] = <<x>>
      BY <1>2, <2>2 DEF ListKept
    <3>2. x \in TemplateRules /\ x[p] = data /\ x.outboundTag = rules[k].outboundTag
      BY <1>2, EditedRule
    <3> HIDE DEF x
    <3>3. g[k] = Append(g[k - 1], x)
      BY <2>0, <3>1, <3>2, AppendIsConcat
    <3>4. Part(x, tag, p) = data
      BY <3>2, <2>2, <1>7 DEF Part, Matches
    <3>5. ListShown(g[k], tag, p) = ListShown(g[k - 1], tag, p) \o data
      <4>1. ListShown(Append(g[k - 1], x), tag, p) = ListShown(g[k - 1], tag, p) \o Part(x, tag, p)
        BY <2>0, <3>2, OneMoreRule
      <4> QED  BY <3>3, <3>4, <4>1
    <3>6. so(k - 1) = <<>> /\ so(k) = data
      BY <2>0, <2>2
    <3>7. <<>> \o data = data
      BY ConcatEmptySeq
    <3> QED  BY <1>8, <3>5, <3>6, <3>7
  <2>3. CASE Matches(rules[k], tag, p) /\ ~(k = first /\ data # <<>>)
    <3>1. e[k] = <<>>
      BY <1>2, <2>3 DEF ListKept
    <3>2. g[k] = g[k - 1]
      BY <2>0, <3>1, ConcatEmptySeq
    <3>3. ~(k < first)
      <4>1. k < first => k \in 1..(first - 1)
        BY <2>0
      <4> QED  BY <1>6, <2>3, <4>1
    <3>4. so(k) = data
      BY <3>3
    <3>5. so(k - 1) = data
      <4>1. CASE k = first
        <5>1. data = <<>>
          BY <2>3, <4>1
        <5> QED  BY <5>1
      <4>2. CASE k # first
        <5>1. ~(k - 1 < first)
          BY <2>0, <3>3, <4>2
        <5> QED  BY <5>1
      <4> QED  BY <4>1, <4>2
    <3> QED  BY <1>8, <3>2, <3>4, <3>5
  <2> QED  BY <2>1, <2>2, <2>3
<1>9. ListShown(g[0], tag, p) = so(0)
  <2>1. so(0) = <<>>
    BY <1>1, <1>6
  <2> QED  BY <2>1, <1>5, NothingShown
<1>10. ListShown(g[n], tag, p) = so(n)
  <2> DEFINE T == {k \in Nat : k <= n => ListShown(g[k], tag, p) = so(k)}
  <2> HIDE DEF so
  <2>1. 0 \in T
    BY <1>9
  <2>2. ASSUME NEW k \in T PROVE k + 1 \in T
    <3> SUFFICES ASSUME k + 1 <= n PROVE ListShown(g[k + 1], tag, p) = so(k + 1)
      OBVIOUS
    <3>1. k + 1 \in 1..n /\ (k + 1) - 1 = k /\ k <= n
      BY <1>1
    <3>2. ListShown(g[k], tag, p) = so(k)
      BY <3>1
    <3>3. ListShown(g[(k + 1) - 1], tag, p) = so((k + 1) - 1)
      BY <3>1, <3>2
    <3> QED  BY <1>8, <3>1, <3>3
  <2>3. T \in SUBSET Nat
    OBVIOUS
  <2>4. T = Nat
    <3> HIDE DEF T
    <3> QED  BY <2>1, <2>2, <2>3, Numbers
  <2>5. n \in T /\ n <= n
    <3> HIDE DEF T
    <3> QED  BY <1>1, <2>4
  <2> QED  BY <2>5
<1>11. so(n) = data
  BY <1>1, <1>6
<1> QED  BY <1>4, <1>10, <1>11 DEF e

\* Every other list shows what it did, when the rules of the edited one said
\* nothing else.
LEMMA EditedLeavesOthers ==
  ASSUME NEW rules \in Seq(TemplateRules), NEW tag, NEW p \in Properties, NEW data \in Seq(RuleEntries),
         NEW first, NEW tag2, NEW p2 \in Properties, tag2 # tag \/ p2 # p,
         \A i \in DOMAIN rules : Matches(rules[i], tag, p) => \A q \in Properties \ {p} : rules[i][q] = Missing
  PROVE  ListShown(FlattenSeq(AllKept(rules, first, tag, p, data)), tag2, p2)
           = ListShown(rules, tag2, p2)
<1> DEFINE n == Len(rules)
           e == AllKept(rules, first, tag, p, data)
           f == [i \in DOMAIN rules |-> Part(rules[i], tag2, p2)]
<1>1. e \in Seq(Seq(TemplateRules)) /\ Len(e) = n /\ n \in Nat /\ DOMAIN rules = 1..n
  <2>1. n \in Nat /\ DOMAIN rules = 1..n
    OBVIOUS
  <2>2. e \in Seq(Seq(TemplateRules)) /\ Len(e) = n
    BY AllKeptIsRules
  <2> QED  BY <2>1, <2>2
<1>2. \A i \in 1..n : e[i] = ListKept(rules, i, first, tag, p, data) /\ rules[i] \in TemplateRules
  BY <1>1 DEF AllKept
<1>a. f \in Seq(Seq(RuleEntries)) /\ Len(f) = n
  BY PartsAreData
<1>b. \A i \in 1..n : f[i] = Part(rules[i], tag2, p2)
  BY <1>1
<1>c. \A i \in 1..n : Matches(rules[i], tag, p) => ~ Matches(rules[i], tag2, p2)
  BY <1>1 DEF Matches
<1>d. ListShown(rules, tag2, p2) = FlattenSeq(f)
  BY DEF ListShown
<1> HIDE DEF e, f
<1>3. PICK g : Flat(e, TemplateRules, g)
  BY <1>1, FlatExists
<1>4. FlattenSeq(e) = g[n]
  BY <1>1, <1>3, FlatIs
<1>e. PICK h : Flat(f, RuleEntries, h)
  BY <1>a, FlatExists
<1>f. FlattenSeq(f) = h[n]
  BY <1>a, <1>e, FlatIs
<1> HIDE DEF n
<1>5. g[0] = <<>> /\ (\A i \in 0..n : g[i] \in Seq(TemplateRules)) /\ \A i \in 1..n : g[i] = g[i - 1] \o e[i]
  BY <1>1, <1>3 DEF Flat
<1>6. h[0] = <<>> /\ (\A i \in 0..n : h[i] \in Seq(RuleEntries)) /\ \A i \in 1..n : h[i] = h[i - 1] \o f[i]
  BY <1>a, <1>e DEF Flat
<1>8. ASSUME NEW k \in 1..n, ListShown(g[k - 1], tag2, p2) = h[k - 1] PROVE ListShown(g[k], tag2, p2) = h[k]
  <2>0. k - 1 \in 0..n
    BY <1>1
  <2>9. g[k - 1] \in Seq(TemplateRules) /\ g[k] = g[k - 1] \o e[k] /\ h[k - 1] \in Seq(RuleEntries) /\ h[k] = h[k - 1] \o f[k]
    BY <2>0, <1>5, <1>6
  <2>1. CASE ~ Matches(rules[k], tag, p)
    <3>1. e[k] = <<rules[k]>>
      BY <1>2, <2>1 DEF ListKept
    <3>2. g[k] = Append(g[k - 1], rules[k])
      BY <2>9, <3>1, <1>2, AppendIsConcat
    <3>3. ListShown(g[k], tag2, p2) = ListShown(g[k - 1], tag2, p2) \o Part(rules[k], tag2, p2)
      BY <2>9, <3>2, <1>2, OneMoreRule, SMTT(30)
    <3> QED  BY <1>8, <1>b, <2>9, <3>3
  <2>2. CASE Matches(rules[k], tag, p)
    <3>1. f[k] = <<>>
      BY <1>b, <1>c, <2>2 DEF Part
    <3>2. h[k] = h[k - 1]
      BY <2>9, <3>1, ConcatEmptySeq
    <3> DEFINE x == [rules[k] EXCEPT ![p] = data]
    <3>3. e[k] = <<x>> \/ e[k] = <<>>
      BY <1>2, <2>2 DEF ListKept
    <3>4. x \in TemplateRules /\ x.outboundTag = rules[k].outboundTag /\ \A q \in Properties \ {p} : x[q] = rules[k][q]
      BY <1>2, EditedRule
    <3> HIDE DEF x
    <3>5. CASE e[k] = <<>>
      <4>1. g[k] = g[k - 1]
        BY <2>9, <3>5, ConcatEmptySeq
      <4> QED  BY <1>8, <3>2, <4>1
    <3>6. CASE e[k] = <<x>>
      <4>1. ~ Matches(x, tag2, p2)
        BY <1>1, <3>4, <2>2 DEF Matches
      <4>2. g[k] = Append(g[k - 1], x)
        BY <2>9, <3>4, <3>6, AppendIsConcat
      <4>3. ListShown(g[k], tag2, p2) = ListShown(g[k - 1], tag2, p2)
        BY <2>9, <3>4, <4>1, <4>2, OneMoreElsewhere
      <4> QED  BY <1>8, <3>2, <4>3
    <3> QED  BY <3>3, <3>5, <3>6
  <2> QED  BY <2>1, <2>2
<1>10. ListShown(g[n], tag2, p2) = h[n]
  <2> DEFINE T == {k \in Nat : k <= n => ListShown(g[k], tag2, p2) = h[k]}
  <2>1. 0 \in T
    BY <1>5, <1>6, NothingShown
  <2>2. ASSUME NEW k \in T PROVE k + 1 \in T
    <3> SUFFICES ASSUME k + 1 <= n PROVE ListShown(g[k + 1], tag2, p2) = h[k + 1]
      OBVIOUS
    <3>1. k + 1 \in 1..n /\ (k + 1) - 1 = k /\ k <= n
      BY <1>1
    <3>2. ListShown(g[k], tag2, p2) = h[k]
      BY <3>1
    <3>3. ListShown(g[(k + 1) - 1], tag2, p2) = h[(k + 1) - 1]
      BY <3>1, <3>2
    <3> QED  BY <1>8, <3>1, <3>3
  <2>3. T \in SUBSET Nat
    OBVIOUS
  <2>4. T = Nat
    <3> HIDE DEF T
    <3> QED  BY <2>1, <2>2, <2>3, Numbers
  <2>5. n \in T /\ n <= n
    <3> HIDE DEF T
    <3> QED  BY <1>1, <2>4
  <2> QED  BY <2>5
<1> QED  BY <1>4, <1>10, <1>d, <1>f DEF e

-----------------------------------------------------------------------------
(* What holds of the template: its rules are rules, its first outbound is  *)
(* there, and an observer has its parts.                                   *)

IsObserver(x) == x = Missing \/ x = [subjects |-> x.subjects, probe |-> x.probe]
IsBurst(x) == x = Missing \/ x = [subjects |-> x.subjects, ping |-> x.ping, sampling |-> x.sampling]

TemplateSound ==
  /\ {"rules", "outbounds", "direct", "observer", "burst"} \subseteq DOMAIN tt
  /\ tt.rules = Missing \/ tt.rules \in Seq(TemplateRules)
  /\ tt.outbounds # <<>>
  /\ IsObserver(tt.observer) /\ IsBurst(tt.burst)

\* The rules of a template after an edit of a list.
RulesAfter(tag, p, data) == ruleSetter(tt, tag, p, data).rules

LEMMA GetterShows ==
  ASSUME NEW t, t.rules # Missing, NEW tag, NEW p
  PROVE  ruleGetter(t, tag, p) = ListShown(t.rules, tag, p)
BY DEF ruleGetter, ListShown, Part

LEMMA SetterEdits ==
  ASSUME TemplateSound, tt.rules # Missing, NEW tag \in OutboundTags, NEW p \in Properties, NEW data \in Seq(RuleEntries)
  PROVE  LET t == ruleSetter(tt, tag, p, data)
         IN \/ /\ ListShown(tt.rules, tag, p) = <<>>
               /\ t = [tt EXCEPT !.rules = Append(tt.rules, NewRule(tag, p, data))]
            \/ \E first : /\ IsFirst(tt.rules, first, tag, p)
                          /\ t = [tt EXCEPT !.rules = FlattenSeq(AllKept(tt.rules, first, tag, p, data))]
<1> DEFINE rules == tt.rules
<1>1. rules \in Seq(TemplateRules) /\ ruleGetter(tt, tag, p) = ListShown(rules, tag, p)
  BY GetterShows DEF TemplateSound
<1>2. CASE ListShown(rules, tag, p) = <<>>
  BY <1>1, <1>2 DEF ruleSetter
<1>3. CASE ListShown(rules, tag, p) # <<>>
  <2> DEFINE first == CHOOSE i \in DOMAIN rules :
                        Matches(rules[i], tag, p) /\ \A j \in 1..(i - 1) : ~ Matches(rules[j], tag, p)
  <2>1. IsFirst(rules, first, tag, p)
    <3>1. \E i \in DOMAIN rules :
            Matches(rules[i], tag, p) /\ \A j \in 1..(i - 1) : ~ Matches(rules[j], tag, p)
      BY <1>1, <1>3, ShownHasFirst
    <3> QED  BY <3>1 DEF IsFirst
  <2>2. ruleSetter(tt, tag, p, data) = [tt EXCEPT !.rules = FlattenSeq(AllKept(rules, first, tag, p, data))]
    BY <1>1, <1>3 DEF ruleSetter, AllKept, ListKept
  <2> HIDE DEF first
  <2> QED  BY <2>1, <2>2
<1> QED  BY <1>2, <1>3

LEMMA NewRuleIsRule ==
  ASSUME NEW tag \in OutboundTags, NEW p \in Properties, NEW data \in Seq(RuleEntries)
  PROVE  /\ NewRule(tag, p, data) \in TemplateRules
         /\ Part(NewRule(tag, p, data), tag, p) = data
         /\ \A tag2 \in OutboundTags, p2 \in Properties : (tag2 # tag \/ p2 # p) => ~ Matches(NewRule(tag, p, data), tag2, p2)
<1> DEFINE x == NewRule(tag, p, data)
<1>1. \A q \in Properties : x[q] = IF q = p THEN data ELSE Missing
  BY DEF NewRule, Properties
<1>2. x.outboundTag = tag /\ x["outboundTag"] = tag
  BY DEF NewRule
<1>3. DOMAIN x = Properties \cup {"outboundTag"} /\ x = [q \in DOMAIN x |-> x[q]]
  BY DEF NewRule
<1>4. Missing # data
  BY BasicsAssumption
<1> HIDE DEF x
<1>5. x \in [Properties \cup {"outboundTag"} -> RuleData \cup OutboundTags]
  BY <1>1, <1>2, <1>3 DEF RuleData
<1>6. x \in TemplateRules
  BY <1>1, <1>5 DEF TemplateRules, RuleData
<1>7. Part(x, tag, p) = data
  BY <1>1, <1>2, <1>4 DEF Part, Matches
<1>8. \A tag2 \in OutboundTags, p2 \in Properties : (tag2 # tag \/ p2 # p) => ~ Matches(x, tag2, p2)
  BY <1>1, <1>2 DEF Matches
<1> QED  BY <1>6, <1>7, <1>8 DEF x

\* An edited list shows what was chosen, the others what they did.
LEMMA SetterReadsBack ==
  ASSUME TemplateSound, tt.rules # Missing, NEW tag \in OutboundTags, NEW p \in Properties, NEW data \in Seq(RuleEntries)
  PROVE  /\ RulesAfter(tag, p, data) \in Seq(TemplateRules)
         /\ ListShown(RulesAfter(tag, p, data), tag, p) = data
         /\ \A tag2 \in OutboundTags, p2 \in Properties :
              (tag2 # tag \/ p2 # p) =>
                Combined(tag, p) \/ ListShown(RulesAfter(tag, p, data), tag2, p2) = ListShown(tt.rules, tag2, p2)
<1> DEFINE rules == tt.rules
           after == RulesAfter(tag, p, data)
<1>1. rules \in Seq(TemplateRules) /\ "rules" \in DOMAIN tt
  BY DEF TemplateSound
<1>2. CASE ListShown(rules, tag, p) = <<>> /\ after = Append(rules, NewRule(tag, p, data))
  <2> DEFINE x == NewRule(tag, p, data)
  <2>1. /\ x \in TemplateRules /\ Part(x, tag, p) = data
        /\ \A tag2 \in OutboundTags, p2 \in Properties : (tag2 # tag \/ p2 # p) => ~ Matches(x, tag2, p2)
    BY NewRuleIsRule
  <2>2. after = Append(rules, x)
    BY <1>2
  <2> HIDE DEF x, after
  <2>3. after \in Seq(TemplateRules)
    BY <1>1, <2>1, <2>2, AppendProperties
  <2>4. ListShown(after, tag, p) = data
    <3>1. ListShown(Append(rules, x), tag, p) = ListShown(rules, tag, p) \o Part(x, tag, p)
      BY <1>1, <2>1, OneMoreRule
    <3>2. <<>> \o data = data
      BY ConcatEmptySeq
    <3> QED  BY <1>2, <2>1, <2>2, <3>1, <3>2
  <2>5. ASSUME NEW tag2 \in OutboundTags, NEW p2 \in Properties, tag2 # tag \/ p2 # p
        PROVE  ListShown(after, tag2, p2) = ListShown(rules, tag2, p2)
    BY <1>1, <2>1, <2>2, <2>5, OneMoreElsewhere
  <2> QED  BY <2>3, <2>4, <2>5 DEF after
<1>3. ASSUME NEW first, IsFirst(rules, first, tag, p), after = FlattenSeq(AllKept(rules, first, tag, p, data))
      PROVE  /\ after \in Seq(TemplateRules) /\ ListShown(after, tag, p) = data
             /\ \A tag2 \in OutboundTags, p2 \in Properties :
                  (tag2 # tag \/ p2 # p) => Combined(tag, p) \/ ListShown(after, tag2, p2) = ListShown(rules, tag2, p2)
  <2> HIDE DEF after
  <2>1. AllKept(rules, first, tag, p, data) \in Seq(Seq(TemplateRules))
    BY <1>1, AllKeptIsRules
  <2>2. after \in Seq(TemplateRules)
    BY <1>3, <2>1, FlatIsSeq
  <2>3. ListShown(after, tag, p) = data
    BY <1>1, <1>3, EditedReadsBack
  <2>4. ASSUME NEW tag2 \in OutboundTags, NEW p2 \in Properties, tag2 # tag \/ p2 # p, ~ Combined(tag, p)
        PROVE  ListShown(after, tag2, p2) = ListShown(rules, tag2, p2)
    <3>1. \A i \in DOMAIN rules : Matches(rules[i], tag, p) => \A q \in Properties \ {p} : rules[i][q] = Missing
      BY <2>4 DEF Combined
    <3> HIDE DEF rules
    <3> QED  BY <1>1, <1>3, <2>4, <3>1, EditedLeavesOthers
  <2> QED  BY <2>2, <2>3, <2>4
<1>4. \/ ListShown(rules, tag, p) = <<>> /\ after = Append(rules, NewRule(tag, p, data))
      \/ \E first : IsFirst(rules, first, tag, p) /\ after = FlattenSeq(AllKept(rules, first, tag, p, data))
  BY <1>1, SetterEdits DEF RulesAfter
<1> QED  BY <1>2, <1>3, <1>4

-----------------------------------------------------------------------------
LEMMA WithoutIsSeq ==
  ASSUME NEW S, NEW s \in Seq(S), NEW e
  PROVE  WithoutEntry(s, e) \in Seq(S)
<1> DEFINE n == Len(s)
           one(i) == IF s[i] = e THEN <<>> ELSE <<s[i]>>
           f == [i \in 1..n |-> one(i)]
<1>1. n \in Nat /\ DOMAIN s = 1..n /\ \A i \in 1..n : s[i] \in S
  OBVIOUS
<1>2. ASSUME NEW i \in 1..n PROVE one(i) \in Seq(S)
  <2>1. <<s[i]>> \in Seq(S) /\ <<>> \in Seq(S)
    BY <1>1
  <2> QED  BY <2>1
<1> HIDE DEF one
<1>3. f \in [1..n -> Seq(S)]
  BY <1>2
<1>4. f \in Seq(Seq(S))
  <2> HIDE DEF f, n
  <2> QED  BY <1>1, <1>3
<1>5. FlattenSeq(f) \in Seq(S)
  <2> HIDE DEF f
  <2> QED  BY <1>4, FlatIsSeq
<1>6. WithoutEntry(s, e) = FlattenSeq(f)
  BY <1>1 DEF WithoutEntry, one
<1> QED  BY <1>5, <1>6

LEMMA ListParts ==
  \A l \in Lists : l[1] \in OutboundTags /\ l[2] \in Properties /\ l = <<l[1], l[2]>>
                   /\ (l[1] = "blocked" \/ l[1] \in {"direct", "IPv4"})
BY DEF Lists, OutboundTags, Properties

\* An edit of a list, without what does not matter here.
LEMMA EditListIs ==
  ASSUME TemplateSound, NEW tag \in OutboundTags, NEW p \in Properties, EditList(tag, p)
  PROVE  \E data \in Seq(RuleEntries) :
           /\ tt' = IF tag = "blocked" THEN ruleSetter(tt, tag, p, data)
                    ELSE syncOutbound(ruleSetter(tt, tag, p, data), tag)
           /\ chosen' = Chosen(tag, p, data)
           /\ cleared' = Combined(tag, p)
<1> DEFINE was == ruleGetter(tt, tag, p)
           data(e) == IF e \in ToSet(was) THEN WithoutEntry(was, e) ELSE Append(was, e)
<1>1. PICK e \in ListEntries :
        /\ tt' = IF tag = "blocked" THEN ruleSetter(tt, tag, p, data(e))
                 ELSE syncOutbound(ruleSetter(tt, tag, p, data(e)), tag)
        /\ chosen' = Chosen(tag, p, data(e))
        /\ cleared' = Combined(tag, p)
  BY DEF EditList
<1>2. was \in Seq(RuleEntries)
  <2>1. CASE tt.rules = Missing
    <3>1. was = <<>>
      BY <2>1 DEF ruleGetter
    <3> QED  BY <3>1, EmptySeq
  <2>2. CASE tt.rules # Missing
    BY <2>2, GetterShows, ShownIsData DEF TemplateSound
  <2> QED  BY <2>1, <2>2
<1> HIDE DEF was
<1>3. data(e) \in Seq(RuleEntries)
  <2>1. WithoutEntry(was, e) \in Seq(RuleEntries)
    BY <1>2, WithoutIsSeq
  <2>2. e \in RuleEntries
    BY DEF RuleEntries
  <2>3. Append(was, e) \in Seq(RuleEntries)
    BY <1>2, <2>2, AppendProperties
  <2> QED  BY <2>1, <2>3
<1> HIDE DEF data
<1> QED  BY <1>1, <1>3

LEMMA SetterKeepsRest ==
  ASSUME TemplateSound, NEW tag \in OutboundTags, NEW p \in Properties, NEW data \in Seq(RuleEntries)
  PROVE  LET t == ruleSetter(tt, tag, p, data)
         IN /\ DOMAIN t = DOMAIN tt
            /\ \A part \in DOMAIN tt \ {"rules"} : t[part] = tt[part]
            /\ t.rules = Missing \/ t.rules \in Seq(TemplateRules)
            /\ tt.rules = Missing <=> t.rules = Missing
<1>1. CASE tt.rules = Missing
  BY <1>1 DEF ruleSetter
<1>2. CASE tt.rules # Missing
  <2> DEFINE t == ruleSetter(tt, tag, p, data)
  <2>1. \E v : t = [tt EXCEPT !.rules = v]
    BY <1>2, SetterEdits
  <2>2. t.rules \in Seq(TemplateRules)
    BY <1>2, SetterReadsBack DEF RulesAfter
  <2> HIDE DEF t
  <2>3. DOMAIN t = DOMAIN tt /\ \A part \in DOMAIN tt \ {"rules"} : t[part] = tt[part]
    BY <2>1
  <2>4. t.rules # Missing
    BY <2>2, BasicsAssumption
  <2> QED  BY <1>2, <2>2, <2>3, <2>4 DEF t
<1> QED  BY <1>1, <1>2

\* syncOutbound changes the outbounds behind the first and the direct settings.
LEMMA SyncKeepsRest ==
  ASSUME NEW t, {"rules", "outbounds", "direct"} \subseteq DOMAIN t, SoundOutbounds(t.outbounds, t.direct),
         t.outbounds # <<>>, NEW tag \in {"direct", "IPv4"}
  PROVE  LET u == syncOutbound(t, tag)
         IN /\ DOMAIN u = DOMAIN t
            /\ \A part \in DOMAIN t \ {"outbounds", "direct"} : u[part] = t[part]
            /\ u.outbounds # <<>> /\ u.outbounds[1] = t.outbounds[1]
            /\ (t.direct # Missing /\ u.direct # Missing) => u.direct = t.direct
<1> DEFINE u == syncOutbound(t, tag)
           used == \E i \in DOMAIN t.rules : t.rules[i].outboundTag = tag
           there == tag \in ToSet(t.outbounds)
           first == t.outbounds[1] = tag
           k == CHOOSE i \in DOMAIN t.outbounds : t.outbounds[i] = tag
           outs == IF used /\ ~there THEN Append(t.outbounds, tag)
                   ELSE IF ~used /\ there /\ ~first THEN RemoveAt(t.outbounds, k)
                   ELSE t.outbounds
           dir == IF tag = "direct" /\ used # there /\ ~(there /\ first)
                  THEN (IF used THEN directSettings ELSE Missing) ELSE t.direct
<1>1. CASE t.rules = Missing
  BY <1>1 DEF syncOutbound
<1>2. CASE t.rules # Missing
  <2>1. u = [t EXCEPT !.outbounds = outs, !.direct = dir]
    BY <1>2 DEF syncOutbound
  <2>2. tag \in OutboundTags /\ t.outbounds \in Seq(OutboundTags)
    BY DEF OutboundTags, SoundOutbounds
  <2>3. there => k \in DOMAIN t.outbounds /\ t.outbounds[k] = tag
    BY DEF ToSet
  <2>4. used \in BOOLEAN /\ there \in BOOLEAN
    OBVIOUS
  <2>5. (tag = "direct" /\ t.direct # Missing) => there
    BY DEF SoundOutbounds
  <2>6. outs # <<>> /\ outs[1] = t.outbounds[1]
    <3> DEFINE s == t.outbounds
    <3>0. Len(s) \in Nat /\ Len(s) >= 1 /\ s \in Seq(OutboundTags) /\ DOMAIN s = 1..Len(s)
      BY <2>2
    <3> HIDE DEF used, k
    <3>1. CASE used /\ ~there
      <4>1. outs = Append(s, tag)
        BY <3>1
      <4>2. Append(s, tag)[1] = s[1] /\ Append(s, tag) # <<>>
        BY <3>0, <2>2, AppendProperties
      <4> QED  BY <4>1, <4>2
    <3>2. CASE ~used /\ there /\ ~first
      <4>1. outs = RemoveAt(s, k) /\ k \in 1..Len(s) /\ k # 1
        BY <3>0, <3>2, <2>3
      <4> DEFINE a == SubSeq(s, 1, k - 1)
                 b == SubSeq(s, k + 1, Len(s))
      <4> HIDE DEF s, outs
      <4>2. a \in Seq(OutboundTags) /\ Len(a) = k - 1 /\ a[1] = s[1]
        BY <3>0, <4>1
      <4>3. b \in Seq(OutboundTags) /\ Len(b) \in Nat
        BY <3>0, <4>1
      <4>4. outs = a \o b
        BY <4>1 DEF RemoveAt
      <4> HIDE DEF a, b
      <4>5. outs \in Seq(OutboundTags) /\ Len(outs) = Len(a) + Len(b) /\ 1 \in 1..(Len(a) + Len(b)) /\ 1 <= Len(a)
        <5>1. outs \in Seq(OutboundTags) /\ Len(outs) = Len(a) + Len(b)
          BY <4>2, <4>3, <4>4, ConcatProperties
        <5>2. k \in Nat /\ k >= 2
          BY <3>0, <4>1
        <5> QED  BY <4>2, <4>3, <5>1, <5>2
      <4>6. outs[1] = a[1]
        BY <4>2, <4>3, <4>4, <4>5, ConcatProperties
      <4>7. outs # <<>>
        BY <4>2, <4>3, <4>5, EmptySeq
      <4> QED  BY <4>2, <4>6, <4>7 DEF s
    <3>3. CASE ~(used /\ ~there) /\ ~(~used /\ there /\ ~first)
      <4>1. outs = s
        BY <3>3
      <4> QED  BY <4>1
    <3> QED  BY <3>1, <3>2, <3>3
  <2>7. (t.direct # Missing /\ dir # Missing) => dir = t.direct
    <3> HIDE DEF used, there
    <3> QED  BY <2>4, <2>5
  <2> HIDE DEF outs, dir, u
  <2>8. DOMAIN u = DOMAIN t /\ u.outbounds = outs /\ u.direct = dir
        /\ \A part \in DOMAIN t \ {"outbounds", "direct"} : u[part] = t[part]
    BY <2>1
  <2> QED  BY <2>6, <2>7, <2>8 DEF u
<1> QED  BY <1>1, <1>2

LEMMA DirectKeepsRest ==
  ASSUME TemplateSound, OutboundsSound
  PROVE  LET u == WithDirect(tt)
         IN /\ DOMAIN u = DOMAIN tt
            /\ \A part \in DOMAIN tt \ {"outbounds", "direct"} : u[part] = tt[part]
            /\ u.outbounds # <<>> /\ u.outbounds[1] = tt.outbounds[1]
            /\ tt.direct # Missing => u.direct = tt.direct
<1>1. CASE tt.direct # Missing
  BY <1>1 DEF WithDirect, TemplateSound
<1>2. CASE tt.direct = Missing
  <2> DEFINE u == WithDirect(tt)
             outs == Append(tt.outbounds, "direct")
  <2>1. u = [tt EXCEPT !.outbounds = outs, !.direct = directSettings]
    BY <1>2 DEF WithDirect
  <2>2. outs # <<>> /\ outs[1] = tt.outbounds[1]
    <3>1. tt.outbounds \in Seq(OutboundTags) /\ tt.outbounds # <<>> /\ "direct" \in OutboundTags
      BY DEF OutboundsSound, SoundOutbounds, OutboundTags, TemplateSound
    <3>2. 1 \in 1..Len(tt.outbounds)
      BY <3>1, EmptySeq
    <3> QED  BY <3>1, <3>2, AppendProperties
  <2> HIDE DEF outs, u
  <2>3. DOMAIN u = DOMAIN tt /\ u.outbounds = outs /\ \A part \in DOMAIN tt \ {"outbounds", "direct"} : u[part] = tt[part]
    BY <2>1 DEF TemplateSound
  <2> QED  BY <1>2, <2>2, <2>3 DEF u
<1> QED  BY <1>1, <1>2

-----------------------------------------------------------------------------
LEMMA TemplateSoundInit == BasicsInit => TemplateSound
<1> SUFFICES ASSUME BasicsInit PROVE TemplateSound
  OBVIOUS
<1> DEFINE a == NewRule("blocked", "ip", <<"private">>)
           b == NewRule("blocked", "protocol", <<"bittorrent">>)
           c == NewRule("direct", "domain", <<"private">>)
           d == [NewRule("blocked", "ip", <<"private">>) EXCEPT !.domain = <<"private">>]
           e == NewRule("blocked", "ip", <<"bittorrent">>)
           two == <<"direct", "blocked">>
           three == <<"other", "direct", "blocked">>
           one == <<"other">>
           obs == [subjects |-> "s", probe |-> Missing]
           bur == [subjects |-> "s", ping |-> "p", sampling |-> 1]
<1>1. <<"private">> \in Seq(RuleEntries) /\ <<"bittorrent">> \in Seq(RuleEntries)
  BY DEF RuleEntries
<1>2. a \in TemplateRules /\ b \in TemplateRules /\ c \in TemplateRules /\ d \in TemplateRules /\ e \in TemplateRules
  <2>0. /\ "blocked" \in OutboundTags /\ "direct" \in OutboundTags
        /\ "ip" \in Properties /\ "protocol" \in Properties /\ "domain" \in Properties
    BY DEF OutboundTags, Properties
  <2>1. a \in TemplateRules
    BY <1>1, <2>0, NewRuleIsRule
  <2>2. b \in TemplateRules
    BY <1>1, <2>0, NewRuleIsRule
  <2>3. c \in TemplateRules
    BY <1>1, <2>0, NewRuleIsRule
  <2>4. e \in TemplateRules
    BY <1>1, <2>0, NewRuleIsRule
  <2>5. d = [a EXCEPT !["domain"] = <<"private">>]
    OBVIOUS
  <2> HIDE DEF a, d
  <2>6. d \in TemplateRules
    BY <1>1, <2>0, <2>1, <2>5, EditedRule
  <2> QED  BY <2>1, <2>2, <2>3, <2>4, <2>6
<1> HIDE DEF a, b, c, d, e
<1> DEFINE r1 == <<a, b>>
           r2 == Append(r1, c)
           r3 == <<d, e>>
<1>3. r1 \in Seq(TemplateRules) /\ r3 \in Seq(TemplateRules)
  BY <1>2
<1>4. r2 \in Seq(TemplateRules)
  <2> HIDE DEF r1
  <2> QED  BY <1>2, <1>3, AppendProperties
<1>5. two # <<>> /\ three # <<>> /\ one # <<>>
  OBVIOUS
<1>6. IsObserver(obs) /\ IsBurst(bur) /\ IsObserver(Missing) /\ IsBurst(Missing)
  BY DEF IsObserver, IsBurst
<1>7. /\ DOMAIN Shipped = {"rules", "outbounds", "direct", "routing", "log", "metrics", "stats", "policy", "observer", "burst"}
      /\ Shipped.rules = r1 /\ Shipped.outbounds = two /\ Shipped.observer = Missing /\ Shipped.burst = Missing
  BY DEF Shipped, a, b
<1> HIDE DEF Shipped, two, three, one, r1, r2, r3, obs, bur
<1>8. {"rules", "outbounds", "direct", "observer", "burst"} \subseteq DOMAIN tt
  BY <1>7 DEF BasicsInit
<1>9. \/ tt.rules = r1 /\ tt.outbounds = two /\ tt.observer = Missing /\ tt.burst = Missing
      \/ tt.rules = r2 /\ tt.outbounds = three /\ tt.observer = obs /\ tt.burst = bur
      \/ tt.rules = r3 /\ tt.outbounds = two /\ tt.observer = Missing /\ tt.burst = Missing
      \/ tt.rules = Missing /\ tt.outbounds = one /\ tt.observer = Missing /\ tt.burst = Missing
  BY <1>7 DEF BasicsInit, one, three, obs, bur, r2, r3, c, d, e
<1> QED  BY <1>3, <1>4, <1>5, <1>6, <1>8, <1>9 DEF TemplateSound

\* What an edit of the template leaves of it.
LEMMA EditListKeeps ==
  ASSUME TemplateSound, OutboundsSound, NEW l \in Lists, EditList(l[1], l[2])
  PROVE  /\ TemplateSound' /\ UnshownKept /\ ListsReadBack
<1> DEFINE tag == l[1]
           p == l[2]
<1>1. tag \in OutboundTags /\ p \in Properties /\ l = <<tag, p>> /\ (tag = "blocked" \/ tag \in {"direct", "IPv4"})
  BY ListParts
<1> HIDE DEF tag, p
<1>2. PICK data \in Seq(RuleEntries) :
        /\ tt' = IF tag = "blocked" THEN ruleSetter(tt, tag, p, data)
                 ELSE syncOutbound(ruleSetter(tt, tag, p, data), tag)
        /\ chosen' = Chosen(tag, p, data)
        /\ cleared' = Combined(tag, p)
  BY <1>1, EditListIs DEF tag, p
<1> DEFINE t == ruleSetter(tt, tag, p, data)
<1>3. /\ DOMAIN t = DOMAIN tt
      /\ \A part \in DOMAIN tt \ {"rules"} : t[part] = tt[part]
      /\ t.rules = Missing \/ t.rules \in Seq(TemplateRules)
      /\ tt.rules = Missing <=> t.rules = Missing
  BY <1>1, SetterKeepsRest
<1>4. tt' = t \/ (tag \in {"direct", "IPv4"} /\ tt' = syncOutbound(t, tag))
  BY <1>1, <1>2
<1>r. t.rules = RulesAfter(tag, p, data)
  BY DEF RulesAfter
<1> HIDE DEF t
<1>5. {"rules", "outbounds", "direct", "observer", "burst"} \subseteq DOMAIN tt
  BY DEF TemplateSound
<1>6. t.outbounds = tt.outbounds /\ t.direct = tt.direct /\ t.observer = tt.observer /\ t.burst = tt.burst
  BY <1>3, <1>5
<1>7. tag \in {"direct", "IPv4"} =>
        /\ DOMAIN syncOutbound(t, tag) = DOMAIN t
        /\ \A part \in DOMAIN t \ {"outbounds", "direct"} : syncOutbound(t, tag)[part] = t[part]
        /\ syncOutbound(t, tag).outbounds # <<>> /\ syncOutbound(t, tag).outbounds[1] = t.outbounds[1]
        /\ (t.direct # Missing /\ syncOutbound(t, tag).direct # Missing) => syncOutbound(t, tag).direct = t.direct
  <2>1. t.outbounds # <<>> /\ SoundOutbounds(t.outbounds, t.direct) /\ {"rules", "outbounds", "direct"} \subseteq DOMAIN t
    BY <1>3, <1>5, <1>6 DEF TemplateSound, OutboundsSound
  <2> QED  BY <2>1, SyncKeepsRest
<1>8. /\ DOMAIN tt' = DOMAIN tt /\ tt'.rules = t.rules
      /\ tt'.observer = tt.observer /\ tt'.burst = tt.burst
      /\ tt'.outbounds # <<>> /\ tt'.outbounds[1] = tt.outbounds[1]
      /\ (tt.direct # Missing /\ tt'.direct # Missing) => tt'.direct = tt.direct
  BY <1>3, <1>4, <1>5, <1>6, <1>7 DEF TemplateSound
<1>9. TemplateSound'
  BY <1>3, <1>5, <1>8 DEF TemplateSound
<1>10. UnshownKept
  BY <1>8 DEF UnshownKept
<1>11. ListsReadBack
  <2> SUFFICES ASSUME tt.rules # Missing, NEW l2 \in Lists
               PROVE  \/ l2 = chosen'.list /\ ruleGetter(tt', l2[1], l2[2]) = chosen'.data
                      \/ l2 # chosen'.list /\ (cleared' \/ ruleGetter(tt', l2[1], l2[2]) = ruleGetter(tt, l2[1], l2[2]))
    BY DEF ListsReadBack
  <2>1. chosen'.list = l /\ chosen'.data = data
    BY <1>1, <1>2 DEF Chosen
  <2>2. l2[1] \in OutboundTags /\ l2[2] \in Properties /\ l2 = <<l2[1], l2[2]>>
    BY ListParts
  <2>3. tt'.rules # Missing
    BY <1>3, <1>8
  <2>4. ruleGetter(tt', l2[1], l2[2]) = ListShown(t.rules, l2[1], l2[2]) /\ ruleGetter(tt, l2[1], l2[2]) = ListShown(tt.rules, l2[1], l2[2])
    BY <1>8, <2>3, GetterShows
  <2>5. /\ ListShown(t.rules, tag, p) = data
        /\ \A tag2 \in OutboundTags, p2 \in Properties :
             (tag2 # tag \/ p2 # p) => Combined(tag, p) \/ ListShown(t.rules, tag2, p2) = ListShown(tt.rules, tag2, p2)
    BY <1>1, <1>r, SetterReadsBack
  <2>6. CASE l2 = l
    <3>1. l2[1] = tag /\ l2[2] = p
      BY <2>6 DEF tag, p
    <3> QED  BY <2>1, <2>4, <2>5, <2>6, <3>1
  <2>7. CASE l2 # l
    <3>1. l2[1] # tag \/ l2[2] # p
      BY <1>1, <2>2, <2>7
    <3> QED  BY <1>2, <2>1, <2>2, <2>4, <2>5, <2>7, <3>1
  <2> QED  BY <2>6, <2>7
<1> QED  BY <1>9, <1>10, <1>11

LEMMA OtherEditsKeep ==
  ASSUME TemplateSound, OutboundsSound, BasicsNext, ~ \E l \in Lists : EditList(l[1], l[2])
  PROVE  TemplateSound' /\ UnshownKept /\ chosen' = chosen
<1>0. {"rules", "outbounds", "direct", "observer", "burst"} \subseteq DOMAIN tt
  BY DEF TemplateSound
<1>1. ASSUME NEW s, PickFreedomStrategy(s) \/ setDirectHappyEyeballs(s)
      PROVE  TemplateSound' /\ UnshownKept /\ chosen' = chosen
  <2> DEFINE u == WithDirect(tt)
  <2>1. /\ DOMAIN u = DOMAIN tt
        /\ \A part \in DOMAIN tt \ {"outbounds", "direct"} : u[part] = tt[part]
        /\ u.outbounds # <<>> /\ u.outbounds[1] = tt.outbounds[1]
        /\ tt.direct # Missing => u.direct = tt.direct
    BY DirectKeepsRest
  <2>2. u.direct \in DirectSettings
    BY DirectIsThere
  <2>3. chosen' = chosen /\ \/ tt' = [u EXCEPT !.direct = [u.direct EXCEPT !.strategy = s]]
                            \/ tt' = [u EXCEPT !.direct = [u.direct EXCEPT !.happy = s]]
    BY <1>1 DEF PickFreedomStrategy, setDirectHappyEyeballs, mutate
  <2> HIDE DEF u
  <2>4. /\ DOMAIN tt' = DOMAIN tt /\ \A part \in DOMAIN tt \ {"outbounds", "direct"} : tt'[part] = tt[part]
        /\ tt'.outbounds = u.outbounds /\ tt'.direct.otherSockopt = u.direct.otherSockopt
    BY <1>0, <2>1, <2>2, <2>3 DEF DirectSettings
  <2>5. tt'.rules = tt.rules /\ tt'.observer = tt.observer /\ tt'.burst = tt.burst
    BY <1>0, <2>4
  <2>6. TemplateSound'
    BY <1>0, <2>1, <2>4, <2>5 DEF TemplateSound
  <2>7. UnshownKept
    BY <2>1, <2>4, <2>5 DEF UnshownKept
  <2> QED  BY <2>3, <2>6, <2>7
<1>2. ASSUME NEW v, PickRoutingStrategy(v) \/ PickLogLevel(v) \/ setLevel0(v) \/ SwitchStatistic(v)
      PROVE  TemplateSound' /\ UnshownKept /\ chosen' = chosen
  <2>1. \E w : tt' = [tt EXCEPT !.routing = w] \/ tt' = [tt EXCEPT !.log = w] \/ tt' = [tt EXCEPT !.policy = w]
    BY <1>2 DEF PickRoutingStrategy, PickLogLevel, setLevel0, SwitchStatistic, mutate
  <2>2. /\ DOMAIN tt' = DOMAIN tt /\ tt'.rules = tt.rules /\ tt'.observer = tt.observer /\ tt'.burst = tt.burst
        /\ tt'.outbounds = tt.outbounds /\ tt'.direct = tt.direct
    BY <1>0, <2>1
  <2>3. chosen' = chosen
    BY <1>2 DEF PickRoutingStrategy, PickLogLevel, setLevel0, SwitchStatistic
  <2> QED  BY <2>2, <2>3 DEF TemplateSound, UnshownKept
<1>3. ASSUME NEW field \in MetricsFields, NEW v \in LevelValues, setMetrics(field, v)
      PROVE  TemplateSound' /\ UnshownKept /\ chosen' = chosen
  <2>1. \E m, st : tt' = [tt EXCEPT !.metrics = m, !.stats = st]
    BY <1>3 DEF setMetrics, mutate
  <2>2. /\ DOMAIN tt' = DOMAIN tt /\ tt'.rules = tt.rules /\ tt'.observer = tt.observer /\ tt'.burst = tt.burst
        /\ tt'.outbounds = tt.outbounds /\ tt'.direct = tt.direct
    BY <1>0, <2>1
  <2>3. chosen' = chosen
    BY <1>3 DEF setMetrics
  <2> QED  BY <2>2, <2>3 DEF TemplateSound, UnshownKept
<1>4. CASE patchObservatory
  <2> DEFINE x == [tt.observer EXCEPT !.probe = "typed"]
  <2>1. tt.observer # Missing /\ tt' = [tt EXCEPT !.observer = x] /\ chosen' = chosen
    BY <1>0, <1>4 DEF patchObservatory, mutate
  <2>2. x.subjects = tt.observer.subjects /\ IsObserver(x)
    BY <2>1 DEF TemplateSound, IsObserver
  <2> HIDE DEF x
  <2>3. /\ DOMAIN tt' = DOMAIN tt /\ tt'.rules = tt.rules /\ tt'.observer = x /\ tt'.burst = tt.burst
        /\ tt'.outbounds = tt.outbounds /\ tt'.direct = tt.direct
    BY <1>0, <2>1
  <2> QED  BY <2>1, <2>2, <2>3 DEF TemplateSound, UnshownKept
<1>5. CASE patchPingConfig
  <2> DEFINE x == [tt.burst EXCEPT !.ping = "typed"]
  <2>1. tt.burst # Missing /\ tt' = [tt EXCEPT !.burst = x] /\ chosen' = chosen
    BY <1>0, <1>5 DEF patchPingConfig, mutate
  <2>2. x.subjects = tt.burst.subjects /\ x.sampling = tt.burst.sampling /\ IsBurst(x)
    BY <2>1 DEF TemplateSound, IsBurst
  <2> HIDE DEF x
  <2>3. /\ DOMAIN tt' = DOMAIN tt /\ tt'.rules = tt.rules /\ tt'.observer = tt.observer /\ tt'.burst = x
        /\ tt'.outbounds = tt.outbounds /\ tt'.direct = tt.direct
    BY <1>0, <2>1
  <2> QED  BY <2>1, <2>2, <2>3 DEF TemplateSound, UnshownKept
<1> QED  BY <1>1, <1>2, <1>3, <1>4, <1>5 DEF BasicsNext

LEMMA TemplateSoundStep == TemplateSound /\ OutboundsSound /\ BasicsNext => TemplateSound'
BY EditListKeeps, OtherEditsKeep

LEMMA TemplateSoundStutter == TemplateSound /\ UNCHANGED basicsVars => TemplateSound'
BY DEF TemplateSound, basicsVars

LEMMA BasicsStepsApart == TemplateSound /\ OutboundsSound /\ BasicsNext => ListsReadBack /\ UnshownKept
<1> SUFFICES ASSUME TemplateSound, OutboundsSound, BasicsNext PROVE ListsReadBack /\ UnshownKept
  OBVIOUS
<1>1. CASE \E l \in Lists : EditList(l[1], l[2])
  BY <1>1, EditListKeeps
<1>2. CASE ~ \E l \in Lists : EditList(l[1], l[2])
  <2>1. UnshownKept /\ chosen' = chosen
    BY <1>2, OtherEditsKeep
  <2>2. ListsReadBack
    BY <2>1 DEF ListsReadBack
  <2> QED  BY <2>1, <2>2
<1> QED  BY <1>1, <1>2

-----------------------------------------------------------------------------
(* What a step of a page may do to an edit. *)

\* A draft that was not edited while anything was under way, and a server that
\* did not move without it: then an answer brings what the page has, or what the
\* draft itself was stored as.
UntouchedInv ==
  (behind = "no" /\ ~ late) =>
    /\ \/ server = cache
       \/ /\ text = server.template
          /\ \/ save.kind = "stored" \/ fetch.kind = "asked" \/ failed
             \/ fetch.kind = "read" /\ fetch.payload = server
    /\ fetch.kind = "read" =>
         fetch.payload = server \/ (fetch.payload = cache /\ save.kind = "stored")
    /\ save.kind # "none" => text = save.sent

LEMMA UntouchedInit == EditorInit => UntouchedInv
BY DEF EditorInit, UntouchedInv, NoFetch, NoTemplateSave

LEMMA UntouchedStutter == UntouchedInv /\ UNCHANGED editorVars => UntouchedInv'
BY DEF UntouchedInv, editorVars

\* An edit that does not count as late was made with nothing under way.
LEMMA UntouchedEdit ==
  ASSUME UntouchedInv, UNCHANGED <<server, cache, fetch, failed, save>>, Edited,
         behind' = "no" => behind = "no"
  PROVE  UntouchedInv'
<1> SUFFICES ASSUME behind' = "no", ~ late' PROVE UntouchedInv'
  BY DEF UntouchedInv
<1>1. behind = "no" /\ ~ late /\ ~ InFlight /\ ~ failed
  BY DEF Edited
<1>2. save.kind = "none" /\ fetch.kind = "none" /\ server = cache
  BY <1>1 DEF InFlight, UntouchedInv
<1> QED  BY <1>2 DEF UntouchedInv

LEMMA UntouchedStep ==
  ASSUME EditorInv, UntouchedInv, EditorNext
  PROVE  UntouchedInv'
<1> USE EditorFacts
<1>1. CASE EditText \/ EditTemplate
  BY <1>1, UntouchedEdit DEF EditText, EditTemplate, query, requests
<1>2. CASE DirtyPoll
  BY <1>2 DEF DirtyPoll, UntouchedInv, query, requests, draft, history
<1>3. CASE ServerReads
  BY <1>3 DEF ServerReads, UntouchedInv, requests, draft, history
<1>4. CASE Deliver
  <2>1. /\ fetch.kind = "read" /\ cache' = fetch.payload /\ fetch' = NoFetch /\ failed' = FALSE
        /\ UNCHANGED <<server, save, rotated>>
    BY <1>4 DEF Deliver, requests
  <2>2. CASE fetch.payload = cache
    <3>1. UNCHANGED <<text, template, oldText, saveDisabled, late, behind>>
      BY <1>4, <2>2 DEF Deliver, Seed, draft, history
    <3> QED  BY <2>1, <2>2, <3>1 DEF UntouchedInv, NoFetch
  <2>3. CASE fetch.payload # cache
    <3>1. /\ text' = fetch.payload.template
          /\ late' = (save.kind # "none")
          /\ behind' = IF server = fetch.payload /\ save.kind = "none" THEN "no" ELSE "yes"
      BY <1>4, <2>3 DEF Deliver, Seed
    <3> QED  BY <2>1, <3>1 DEF UntouchedInv, NoFetch
  <2> QED  BY <2>2, <2>3
<1>5. CASE FetchFails
  BY <1>5 DEF FetchFails, UntouchedInv, requests, draft, history, NoFetch
<1>6. CASE Recheck
  BY <1>6 DEF Recheck, Invalidate, UntouchedInv, requests, draft, history
<1>7. CASE onSaveAll
  BY <1>7 DEF onSaveAll, UntouchedInv, query, draft, history
<1>8. CASE ServerStores
  <2>1. /\ save.kind = "asked" /\ save.sent \in Template
        /\ server' = [server EXCEPT !.template = save.sent]
        /\ save' = [save EXCEPT !.kind = "stored"]
        /\ UNCHANGED <<cache, fetch, failed, rotated, text, template, oldText, saveDisabled, late, behind>>
    BY <1>8 DEF ServerStores, query, draft, history
  <2>2. server'.template = save.sent
        /\ (server.template = save.sent => server' = server)
    BY <2>1 DEF Payload
  <2>3. save'.kind = "stored" /\ save'.sent = save.sent
    BY <2>1 DEF NoTemplateSave
  <2> SUFFICES ASSUME behind = "no", ~ late PROVE UntouchedInv'
    BY <2>1 DEF UntouchedInv
  <2>4. text = save.sent /\ (fetch.kind = "read" => fetch.payload = server)
    BY <2>1 DEF UntouchedInv
  <2>5. fetch.kind = "read" => fetch.payload = server' \/ fetch.payload = cache
    BY <2>2, <2>4 DEF UntouchedInv
  <2> QED  BY <2>1, <2>2, <2>3, <2>4, <2>5 DEF UntouchedInv
<1>9. CASE SaveFails
  BY <1>9 DEF SaveFails, UntouchedInv, query, draft, NoTemplateSave
<1>10. CASE SaveAnswered
  BY <1>10 DEF SaveAnswered, Invalidate, UntouchedInv, draft, history, NoTemplateSave
<1>11. CASE ServerChangesIp \/ AutoChangeIp
  BY <1>11 DEF ServerChangesIp, AutoChangeIp, UntouchedInv
<1>12. CASE ChangeIpAnswered
  BY <1>12, UntouchedEdit DEF ChangeIpAnswered, query
<1>13. CASE ChangeSubscriptions
  <2>1. PICK s \in 0..MaxSubs : /\ server' = [server EXCEPT !.subs = s]
                                /\ behind' = IF s = server.subs THEN behind ELSE "yes"
    BY <1>13 DEF ChangeSubscriptions
  <2>2. s = server.subs => server' = server
    BY <2>1 DEF Payload
  <2>3. fetch' = fetch \/ fetch' = [kind |-> "asked"]
    BY <1>13 DEF ChangeSubscriptions, Invalidate
  <2>4. UNCHANGED <<cache, failed, save, rotated, text, template, oldText, saveDisabled, late>>
    BY <1>13 DEF ChangeSubscriptions, requests, draft
  <2> SUFFICES ASSUME behind = "no", ~ late, server' = server PROVE UntouchedInv'
    BY <2>1, <2>2, <2>4 DEF UntouchedInv
  <2> QED  BY <2>3, <2>4 DEF UntouchedInv
<1>14. CASE ChangeIpLost
  BY <1>14 DEF ChangeIpLost, UntouchedInv, query, draft, history
<1> QED
  BY <1>1, <1>2, <1>3, <1>4, <1>5, <1>6, <1>7, <1>8, <1>9, <1>10, <1>11, <1>12, <1>13, <1>14 DEF EditorNext

LEMMA EditorStepsApart ==
  ASSUME EditorInv, UntouchedInv
  PROVE  TakenOnlyByNews /\ KeysKept
<1> USE EditorFacts
<1>1. TakenOnlyByNews
  <2> SUFFICES ASSUME Deliver, text' # text, ~ late, behind = "no" PROVE FALSE
    BY DEF TakenOnlyByNews
  <2>1. fetch.payload # cache /\ text' = fetch.payload.template /\ fetch.kind = "read"
    BY DEF Deliver, Seed, draft
  <2>2. fetch.payload = server
    BY <2>1 DEF UntouchedInv
  <2> QED  BY <2>1, <2>2 DEF UntouchedInv
<1>2. KeysKept
  <2> SUFFICES ASSUME onSaveAll, behind \in {"no", "told"}
               PROVE  save'.sent.key >= server.template.key
    BY DEF KeysKept
  <2>1. save'.sent = template
    BY DEF onSaveAll
  <2>2. server.template.key <= template.key
    BY DEF EditorInv, KeysInOrder
  <2> QED  BY <2>1, <2>2
<1> QED  BY <1>1, <1>2

\* The dialog of a server is open for a server that is there, unless the template
\* was replaced under it.
ServerOpenInv ==
  ~ replaced /\ serverDialog \notin {0, Closed} => dns.on /\ serverDialog \in DOMAIN dns.servers

LEMMA ServerOpenInit == DnsInit => ServerOpenInv
BY DEF DnsInit, ServerOpenInv

LEMMA ServerOpenStutter == ServerOpenInv /\ UNCHANGED dnsVars => ServerOpenInv'
BY DEF ServerOpenInv, dnsVars

LEMMA ServerOpenStep ==
  ASSUME ServerOpenInv, DnsNext
  PROVE  ServerOpenInv'
<1>1. CASE toggleDNS \/ EditHosts \/ RemoveServers \/ EditFakedns
  <2>1. serverDialog = Closed /\ serverDialog' = serverDialog
    BY <1>1 DEF toggleDNS, EditHosts, RemoveServers, EditFakedns
  <2> QED  BY <2>1 DEF ServerOpenInv
<1>2. CASE openServerModal
  BY <1>2 DEF openServerModal, ServerOpenInv
<1>3. CASE onServerConfirm
  BY <1>3 DEF onServerConfirm, ServerOpenInv
<1>4. CASE TemplateReplaced
  BY <1>4 DEF TemplateReplaced, ServerOpenInv
<1> QED  BY <1>1, <1>2, <1>3, <1>4 DEF DnsNext

LEMMA DnsStepsApart ==
  ASSUME DnsInv, ServerOpenInv
  PROVE  OneServerChanges
<1> SUFFICES ASSUME onServerConfirm, ~ replaced, serverDialog # 0
             PROVE  /\ Len(dns'.servers) = Len(dns.servers)
                    /\ \A k \in DOMAIN dns.servers \ {serverDialog} : dns'.servers[k] = dns.servers[k]
  BY DEF OneServerChanges
<1>1. serverDialog \in DOMAIN dns.servers /\ dns.on
  BY DEF ServerOpenInv, onServerConfirm
<1>2. dns.servers \in Seq(Server) /\ dns \in DnsSection
  BY DEF DnsInv, DnsSection
<1>3. PICK s \in Server : dns' = [dns EXCEPT !.servers = [dns.servers EXCEPT ![serverDialog] = s]]
  BY <1>1 DEF onServerConfirm
<1>4. dns'.servers = [dns.servers EXCEPT ![serverDialog] = s]
  BY <1>2, <1>3 DEF DnsSection
<1> QED  BY <1>1, <1>2, <1>4
=============================================================================
