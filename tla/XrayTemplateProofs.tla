------------------------- MODULE XrayTemplateProofs -------------------------
(***************************************************************************)
(* Proofs about the references of the Xray template, for any tags, any     *)
(* lists and any order of the tabs, the dialogs and the late answers: a    *)
(* name that a row uses is a name of a row, the observers follow the       *)
(* balancers, and a deletion does what its dialog announced.  All of it    *)
(* rests on what an open dialog holds: as long as no answer came in over   *)
(* it, what it read when it was opened is what the template has now.       *)
(***************************************************************************)
EXTENDS XrayTemplate, FiniteSetTheorems, TLAPS

-----------------------------------------------------------------------------
(* The rows at some positions of a list *)

Rank(keep, i) == Cardinality({j \in keep : j <= i})

\* The positions of keep are finitely many, and Nth counts through them.
LEMMA NthCounts ==
  ASSUME NEW n \in Nat, NEW keep \in SUBSET (1..n)
  PROVE  /\ Cardinality(keep) \in Nat
         /\ \A k \in 1..Cardinality(keep) :
              Nth(keep, k) \in keep /\ Rank(keep, Nth(keep, k)) = k
         /\ \A i \in keep : \E k \in 1..Cardinality(keep) : Nth(keep, k) = i
         /\ \A k, l \in 1..Cardinality(keep) : Nth(keep, k) = Nth(keep, l) => k = l
<1> DEFINE N == Cardinality(keep)
           rank == [i \in keep |-> Rank(keep, i)]
<1>1. IsFiniteSet(1..n)
  BY FS_Interval
<1>2. IsFiniteSet(keep) /\ N \in Nat
  BY <1>1, FS_Subset, FS_CardinalityType
<1>3. ASSUME NEW i \in keep
      PROVE  /\ IsFiniteSet({j \in keep : j <= i})
             /\ Rank(keep, i) \in 1..N
  <2>1. {j \in keep : j <= i} \in SUBSET keep
    OBVIOUS
  <2>2. /\ IsFiniteSet({j \in keep : j <= i}) /\ Rank(keep, i) <= N
        /\ Rank(keep, i) \in Nat
    BY <1>2, <2>1, FS_Subset, FS_CardinalityType DEF Rank
  <2>3. i \in {j \in keep : j <= i}
    OBVIOUS
  <2>4. Rank(keep, i) # 0
    BY <2>2, <2>3, FS_EmptySet DEF Rank
  <2> QED  BY <2>2, <2>4, <1>2
<1>4. ASSUME NEW i \in keep, NEW j \in keep, i < j
      PROVE  Rank(keep, i) # Rank(keep, j)
  <2>1. {k \in keep : k <= i} \in SUBSET {k \in keep : k <= j}
    <3>1. \A k \in keep : k \in Int /\ i \in Int /\ j \in Int
      OBVIOUS
    <3>2. \A k \in keep : k <= i => k <= j
      BY <1>4, <3>1
    <3> QED  BY <3>2
  <2>2. {k \in keep : k <= i} # {k \in keep : k <= j}
    <3>1. j \in {k \in keep : k <= j} /\ j \notin {k \in keep : k <= i}
      BY <1>4
    <3> QED  BY <3>1
  <2> QED  BY <1>3, <2>1, <2>2, FS_Subset DEF Rank
<1>5. ASSUME NEW i \in keep, NEW j \in keep, Rank(keep, i) = Rank(keep, j)
      PROVE  i = j
  <2>1. i \in Int /\ j \in Int
    OBVIOUS
  <2> QED  BY <1>4, <1>5, <2>1
<1>6. rank \in Injection(keep, 1..N)
  BY <1>3, <1>5 DEF Injection, IsInjective
<1>7. IsFiniteSet(1..N) /\ Cardinality(1..N) = N
  BY <1>2, FS_Interval
<1>8. rank \in Surjection(keep, 1..N)
  BY <1>6, <1>7, FS_Injection
<1>9. ASSUME NEW k \in 1..N PROVE \E i \in keep : Rank(keep, i) = k
  BY <1>8 DEF Surjection
<1>10. ASSUME NEW k \in 1..N PROVE Nth(keep, k) \in keep /\ Rank(keep, Nth(keep, k)) = k
  BY <1>9 DEF Nth, Rank
<1>11. ASSUME NEW i \in keep PROVE Nth(keep, Rank(keep, i)) = i
  BY <1>3, <1>5, <1>10
<1> QED  BY <1>2, <1>3, <1>10, <1>11

\* RowsAt has the rows at those positions, each of them once, and no other.
LEMMA RowsAtSelects ==
  ASSUME NEW R, NEW list \in Seq(R), NEW keep \in SUBSET DOMAIN list
  PROVE  /\ RowsAt(list, keep) \in Seq(R)
         /\ Len(RowsAt(list, keep)) = Cardinality(keep)
         /\ \A k \in DOMAIN RowsAt(list, keep) :
              Nth(keep, k) \in keep /\ RowsAt(list, keep)[k] = list[Nth(keep, k)]
         /\ \A i \in keep : \E k \in DOMAIN RowsAt(list, keep) :
              RowsAt(list, keep)[k] = list[i]
         /\ \A k, l \in DOMAIN RowsAt(list, keep) :
              Nth(keep, k) = Nth(keep, l) => k = l
<1> DEFINE N == Cardinality(keep)
<1>1. Len(list) \in Nat /\ DOMAIN list = 1..Len(list)
  OBVIOUS
<1>2. /\ N \in Nat
      /\ \A k \in 1..N : Nth(keep, k) \in keep
      /\ \A i \in keep : \E k \in 1..N : Nth(keep, k) = i
      /\ \A k, l \in 1..N : Nth(keep, k) = Nth(keep, l) => k = l
  BY <1>1, NthCounts
<1> DEFINE rows == [k \in 1..N |-> list[Nth(keep, k)]]
<1>3. rows = RowsAt(list, keep)
  BY DEF RowsAt
<1>4. \A k \in 1..N : list[Nth(keep, k)] \in R
  BY <1>1, <1>2
<1> HIDE DEF N
<1>5. rows \in Seq(R) /\ Len(rows) = N /\ DOMAIN rows = 1..N
  BY <1>2, <1>4
<1>6. \A k \in 1..N : rows[k] = list[Nth(keep, k)]
  OBVIOUS
<1> HIDE DEF rows
<1> QED  BY <1>2, <1>3, <1>5, <1>6 DEF N
\* RemoveAt leaves the other rows, in their order.
LEMMA RemoveAtSelects ==
  ASSUME NEW R, NEW list \in Seq(R), NEW i \in DOMAIN list
  PROVE  /\ RemoveAt(list, i) \in Seq(R)
         /\ Len(RemoveAt(list, i)) = Len(list) - 1
         /\ \A k \in DOMAIN RemoveAt(list, i) :
              RemoveAt(list, i)[k] = IF k < i THEN list[k] ELSE list[k + 1]
<1>1. Len(list) \in Nat /\ DOMAIN list = 1..Len(list) /\ i \in 1..Len(list)
  OBVIOUS
<1> DEFINE front == SubSeq(list, 1, i - 1)
           back == SubSeq(list, i + 1, Len(list))
<1>2. /\ front \in Seq(R) /\ Len(front) = i - 1
      /\ \A k \in 1..(i - 1) : front[k] = list[k]
  BY <1>1
<1>3. /\ back \in Seq(R) /\ Len(back) = Len(list) - i
      /\ \A k \in 1..(Len(list) - i) : back[k] = list[k + i]
  BY <1>1
<1> HIDE DEF front, back
<1> DEFINE rest == front \o back
<1>4. /\ rest \in Seq(R) /\ Len(rest) = Len(list) - 1
      /\ \A k \in 1..(Len(list) - 1) :
           rest[k] = IF k <= i - 1 THEN front[k] ELSE back[k - (i - 1)]
  <2>1. front \in Seq(R) /\ back \in Seq(R)
    BY <1>2, <1>3
  <2>2. /\ rest \in Seq(R) /\ Len(rest) = Len(front) + Len(back)
        /\ \A k \in 1..(Len(front) + Len(back)) :
             rest[k] = IF k <= Len(front) THEN front[k] ELSE back[k - Len(front)]
    BY <2>1
  <2>3. Len(front) + Len(back) = Len(list) - 1
    BY <1>1, <1>2, <1>3
  <2> QED  BY <1>2, <2>2, <2>3
<1>5. rest = RemoveAt(list, i)
  BY DEF RemoveAt, front, back
<1> HIDE DEF rest
<1>6. DOMAIN rest = 1..(Len(list) - 1)
  BY <1>4
<1>7. ASSUME NEW k \in 1..(Len(list) - 1)
      PROVE  rest[k] = IF k < i THEN list[k] ELSE list[k + 1]
  <2>1. CASE k < i
    <3>1. k \in 1..(i - 1) /\ k <= i - 1
      BY <1>1, <2>1
    <3> QED  BY <1>2, <1>4, <2>1, <3>1
  <2>2. CASE ~ (k < i)
    <3>1. /\ ~ (k <= i - 1) /\ k - (i - 1) \in 1..(Len(list) - i)
          /\ (k - (i - 1)) + i = k + 1
      BY <1>1, <2>2
    <3> QED  BY <1>3, <1>4, <2>2, <3>1
  <2> QED  BY <2>1, <2>2
<1> QED  BY <1>4, <1>5, <1>6, <1>7

-----------------------------------------------------------------------------
(* What an open dialog holds *)

\* The fields of the forms have the types of the rows they become.
DialogTypes ==
  /\ dialog.kind = "outbound" =>
       dialog.tag \in OutTags \cup {NoTag} /\ dialog.dialer \in OutTags \cup {NoTag}
  /\ dialog.kind = "rule" =>
       dialog.out \in OutTags \cup {NoTag} /\ dialog.bal \in BalTags \cup {NoTag}
  /\ dialog.kind = "balancer" => dialog.fb \in OutTags \cup {NoTag}
  /\ request.at \in Nat

\* While no answer has come in over a dialog, it is at the row it was opened at,
\* or at none, and what it read is what the template has.
OutboundFormFresh ==
  \/ /\ dialog.at = 0 /\ dialog.tag = NoTag /\ dialog.dialer = NoTag
     /\ dialog.taken = TagsOf(outbounds)
  \/ /\ dialog.at \in DOMAIN outbounds
     /\ dialog.tag = outbounds[dialog.at].tag
     /\ dialog.dialer = outbounds[dialog.at].dialer
     /\ dialog.taken = {outbounds[j].tag : j \in DOMAIN outbounds \ {dialog.at}}

RuleFormFresh ==
  \/ dialog.at = 0 /\ dialog.out = NoTag /\ dialog.bal = NoTag
  \/ /\ dialog.at \in DOMAIN rules
     /\ dialog.out = rules[dialog.at].out /\ dialog.bal = rules[dialog.at].bal

BalancerFormFresh ==
  \/ dialog.at = 0 /\ dialog.fb = NoTag
  \/ dialog.at \in DOMAIN balancers /\ dialog.fb = balancers[dialog.at].fb

PlanFresh ==
  /\ dialog.kind = "delOutbound" =>
       dialog.at \in DOMAIN outbounds /\ dialog.plan = planOutboundDeletion(dialog.at)
  /\ dialog.kind = "delBalancer" =>
       dialog.at \in DOMAIN balancers /\ dialog.plan = planBalancerDeletion(dialog.at)

DialogFresh ==
  "late" \notin taint =>
    /\ dialog.kind = "outbound" => OutboundFormFresh
    /\ dialog.kind = "rule" => RuleFormFresh
    /\ dialog.kind = "balancer" => BalancerFormFresh
    /\ PlanFresh

TemplateInv == TypeOK /\ DialogTypes /\ DialogFresh /\ ReferencesResolve
-----------------------------------------------------------------------------
(* The references, list by list *)

Unique(list) == \A i, j \in DOMAIN list : list[i].tag = list[j].tag => i = j
DialersResolve(list) == \A i \in DOMAIN list : list[i].dialer \in {NoTag} \cup TagsOf(list)
OutsResolve(rs, list) == \A i \in DOMAIN rs : rs[i].out \in {NoTag} \cup TagsOf(list)
BalsResolve(rs, list) == \A i \in DOMAIN rs : rs[i].bal \in {NoTag} \cup TagsOf(list)
FallbacksResolve(bs, list) == \A i \in DOMAIN bs : bs[i].fb \in {NoTag} \cup TagsOf(list)

Checked == taint \cap {"raw", "rawAll", "late"} = {}
Untouched == taint \subseteq {"renamed"}

\* ReferencesResolve, in those terms.
LEMMA ReferencesByList ==
  ReferencesResolve <=>
    /\ Checked => BalsResolve(rules, balancers)
    /\ Untouched => /\ OutsResolve(rules, outbounds)
                    /\ FallbacksResolve(balancers, outbounds)
                    /\ DialersResolve(outbounds)
                    /\ Unique(outbounds) /\ Unique(balancers)
    /\ ObserversMatch /\ SubjectsFollow
BY DEF ReferencesResolve, BalancersResolve, OutboundsResolve, TagsUnique, Checked, Untouched,
       BalsResolve, OutsResolve, FallbacksResolve, DialersResolve, Unique,
       balancerTagOptions, outboundTagOptions

LEMMA ReferencesByListNext ==
  ReferencesResolve' <=>
    /\ Checked' => BalsResolve(rules, balancers)'
    /\ Untouched' => /\ OutsResolve(rules, outbounds)'
                     /\ FallbacksResolve(balancers, outbounds)'
                     /\ DialersResolve(outbounds)'
                     /\ Unique(outbounds)' /\ Unique(balancers)'
    /\ ObserversMatch' /\ SubjectsFollow'
BY ReferencesByList, PTL

\* A step that changes neither the balancers nor the observers.
LEMMA ObserversStay ==
  ASSUME ReferencesResolve, UNCHANGED <<balancers, observatory, burst>>,
         taint \subseteq taint'
  PROVE  ObserversMatch' /\ SubjectsFollow'
BY DEF ReferencesResolve, ObserversMatch, SubjectsFollow, SyncedBurst,
       SyncedObservatory, ToSet

\* A step that changes the outbounds alone and keeps their names.
LEMMA OutboundsChange ==
  ASSUME TemplateInv, UNCHANGED <<routing, observers>>,
         outbounds' \in Seq(Outbound), taint \subseteq taint', taint' \subseteq Taints,
         Untouched' => /\ TagsOf(outbounds) \subseteq TagsOf(outbounds')
                       /\ DialersResolve(outbounds') /\ Unique(outbounds')
  PROVE  TypeOK' /\ ReferencesResolve'
<1>1. TypeOK /\ ReferencesResolve
  BY DEF TemplateInv
<1>2. UNCHANGED <<rules, balancers, observatory, burst>>
  BY DEF routing, observers
<1>3. TypeOK'
  BY <1>1, <1>2 DEF TypeOK
<1>4. Checked' => BalsResolve(rules, balancers)'
  BY <1>1, <1>2, ReferencesByList DEF Checked, BalsResolve, TagsOf
<1>5. Untouched' => /\ OutsResolve(rules, outbounds)'
                    /\ FallbacksResolve(balancers, outbounds)'
                    /\ DialersResolve(outbounds)'
                    /\ Unique(outbounds)' /\ Unique(balancers)'
  <2>1. Untouched' => Untouched
    BY DEF Untouched
  <2> QED
    BY <1>1, <1>2, <2>1, ReferencesByList
       DEF OutsResolve, FallbacksResolve, Unique, DialersResolve
<1>6. ObserversMatch' /\ SubjectsFollow'
  BY <1>1, <1>2, ObserversStay
<1> QED  BY <1>3, <1>4, <1>5, <1>6, ReferencesByListNext
\* A step that changes the rules alone.
LEMMA RulesChange ==
  ASSUME TemplateInv, UNCHANGED <<outbounds, balancers, observers>>,
         rules' \in Seq(Rule), taint \subseteq taint', taint' \subseteq Taints,
         Checked' => BalsResolve(rules', balancers),
         Untouched' => OutsResolve(rules', outbounds)
  PROVE  TypeOK' /\ ReferencesResolve'
<1>1. TypeOK /\ ReferencesResolve
  BY DEF TemplateInv
<1>2. UNCHANGED <<outbounds, balancers, observatory, burst>>
  BY DEF observers
<1>3. TypeOK'
  BY <1>1, <1>2 DEF TypeOK
<1>4. Checked' => BalsResolve(rules, balancers)'
  BY <1>2 DEF BalsResolve, TagsOf
<1>5. Untouched' => OutsResolve(rules, outbounds)'
  BY <1>2 DEF OutsResolve, TagsOf
<1>6. Untouched' => /\ FallbacksResolve(balancers, outbounds)'
                    /\ DialersResolve(outbounds)'
                    /\ Unique(outbounds)' /\ Unique(balancers)'
  <2>1. Untouched' => Untouched
    BY DEF Untouched
  <2> QED
    BY <1>1, <1>2, <2>1, ReferencesByList
       DEF FallbacksResolve, Unique, DialersResolve, TagsOf
<1>7. ObserversMatch' /\ SubjectsFollow'
  BY <1>1, <1>2, ObserversStay
<1> QED  BY <1>3, <1>4, <1>5, <1>6, <1>7, ReferencesByListNext

\* A step of the handlers that do not look after the references.
LEMMA LooseChange ==
  ASSUME TemplateInv, UNCHANGED <<balancers, observers>>,
         outbounds' \in Seq(Outbound), rules' \in Seq(Rule),
         taint \subseteq taint', "loose" \in taint', taint' \subseteq Taints,
         Checked' => BalsResolve(rules', balancers)
  PROVE  TypeOK' /\ ReferencesResolve'
<1>1. TypeOK /\ ReferencesResolve
  BY DEF TemplateInv
<1>2. UNCHANGED <<balancers, observatory, burst>>
  BY DEF observers
<1>3. TypeOK'
  BY <1>1, <1>2 DEF TypeOK
<1>4. Checked' => BalsResolve(rules, balancers)'
  BY <1>2 DEF BalsResolve, TagsOf
<1>5. ~ Untouched'
  BY DEF Untouched
<1>6. ObserversMatch' /\ SubjectsFollow'
  BY <1>1, <1>2, ObserversStay
<1> QED  BY <1>3, <1>4, <1>5, <1>6, ReferencesByListNext

\* A step that leaves the template alone, and what it went through.
LEMMA TemplateStays ==
  ASSUME TemplateInv, UNCHANGED <<outbounds, routing, observers, taint>>
  PROVE  TypeOK' /\ ReferencesResolve'
<1>1. TypeOK /\ ReferencesResolve
  BY DEF TemplateInv
<1>2. UNCHANGED <<outbounds, rules, balancers, observatory, burst, taint>>
  BY DEF routing, observers
<1> QED
  BY <1>1, <1>2 DEF TypeOK, ReferencesResolve, BalancersResolve, OutboundsResolve, TagsUnique,
                    ObserversMatch, SubjectsFollow, balancerTagOptions, outboundTagOptions,
                    TagsOf, SyncedBurst, SyncedObservatory, ToSet

-----------------------------------------------------------------------------
(* Rows that are appended, replaced and moved *)

LEMMA AppendedRow ==
  ASSUME NEW list \in Seq(Outbound), NEW row \in Outbound
  PROVE  /\ Append(list, row) \in Seq(Outbound)
         /\ TagsOf(Append(list, row)) = TagsOf(list) \cup {row.tag}
         /\ Unique(list) /\ row.tag \notin TagsOf(list) => Unique(Append(list, row))
         /\ DialersResolve(list) /\ row.dialer \in {NoTag, row.tag} \cup TagsOf(list)
              => DialersResolve(Append(list, row))
<1> DEFINE new == Append(list, row)
<1>1. /\ new \in Seq(Outbound) /\ Len(list) \in Nat /\ DOMAIN list = 1..Len(list)
      /\ DOMAIN new = 1..(Len(list) + 1)
      /\ \A i \in 1..Len(list) : new[i] = list[i]
      /\ new[Len(list) + 1] = row
  OBVIOUS
<1> HIDE DEF new
<1>2. TagsOf(new) = TagsOf(list) \cup {row.tag}
  <2>1. TagsOf(new) \subseteq TagsOf(list) \cup {row.tag}
    <3>1. \A i \in DOMAIN new : i \in DOMAIN list \/ i = Len(list) + 1
      BY <1>1
    <3> QED  BY <1>1, <3>1 DEF TagsOf
  <2>2. TagsOf(list) \cup {row.tag} \subseteq TagsOf(new)
    <3>1. DOMAIN list \subseteq DOMAIN new /\ Len(list) + 1 \in DOMAIN new
      BY <1>1
    <3> QED  BY <1>1, <3>1 DEF TagsOf
  <2> QED  BY <2>1, <2>2
<1>3. ASSUME Unique(list), row.tag \notin TagsOf(list) PROVE Unique(new)
  <2>1. \A i \in DOMAIN list : list[i].tag # row.tag
    BY <1>3 DEF TagsOf
  <2>2. \A i \in DOMAIN new : i \in DOMAIN list \/ i = Len(list) + 1
    BY <1>1
  <2> QED  BY <1>1, <1>3, <2>1, <2>2 DEF Unique
<1>4. ASSUME DialersResolve(list), row.dialer \in {NoTag, row.tag} \cup TagsOf(list)
      PROVE  DialersResolve(new)
  <2>2. \A i \in DOMAIN new : i \in DOMAIN list \/ i = Len(list) + 1
    BY <1>1
  <2> QED  BY <1>1, <1>2, <1>4, <2>2 DEF DialersResolve
<1> QED  BY <1>1, <1>2, <1>3, <1>4 DEF new
LEMMA ReplacedRow ==
  ASSUME NEW list \in Seq(Outbound), NEW i \in DOMAIN list, NEW row \in Outbound,
         row.tag = list[i].tag
  PROVE  /\ [list EXCEPT ![i] = row] \in Seq(Outbound)
         /\ TagsOf([list EXCEPT ![i] = row]) = TagsOf(list)
         /\ Unique(list) => Unique([list EXCEPT ![i] = row])
         /\ DialersResolve(list) /\ row.dialer \in {NoTag} \cup TagsOf(list)
              => DialersResolve([list EXCEPT ![i] = row])
<1> DEFINE new == [list EXCEPT ![i] = row]
<1>1. /\ new \in Seq(Outbound) /\ DOMAIN new = DOMAIN list
      /\ \A j \in DOMAIN list : new[j] = IF j = i THEN row ELSE list[j]
  OBVIOUS
<1> HIDE DEF new
<1>2. \A j \in DOMAIN list : new[j].tag = list[j].tag
  BY <1>1
<1>3. TagsOf(new) = TagsOf(list)
  BY <1>1, <1>2 DEF TagsOf
<1>4. Unique(list) => Unique(new)
  BY <1>1, <1>2 DEF Unique
<1>5. DialersResolve(list) /\ row.dialer \in {NoTag} \cup TagsOf(list) => DialersResolve(new)
  BY <1>1, <1>3 DEF DialersResolve
<1> QED  BY <1>1, <1>3, <1>4, <1>5 DEF new

\* The same rows in another order.
LEMMA MovedRows ==
  ASSUME NEW list \in Seq(Outbound), NEW new \in Seq(Outbound),
         NEW from \in [DOMAIN new -> DOMAIN list],
         \A k \in DOMAIN new : new[k] = list[from[k]],
         \A k, l \in DOMAIN new : from[k] = from[l] => k = l,
         \A j \in DOMAIN list : \E k \in DOMAIN new : from[k] = j
  PROVE  /\ TagsOf(new) = TagsOf(list)
         /\ Unique(list) => Unique(new)
         /\ DialersResolve(list) => DialersResolve(new)
<1>1. TagsOf(new) = TagsOf(list)
  <2>1. TagsOf(new) \subseteq TagsOf(list)
    BY DEF TagsOf
  <2>2. ASSUME NEW j \in DOMAIN list PROVE list[j].tag \in TagsOf(new)
    <3>1. PICK k \in DOMAIN new : from[k] = j
      OBVIOUS
    <3>2. new[k] = list[j]
      BY <3>1
    <3> QED  BY <3>2 DEF TagsOf
  <2> QED  BY <2>1, <2>2 DEF TagsOf
<1>2. Unique(list) => Unique(new)
  BY DEF Unique
<1>3. DialersResolve(list) => DialersResolve(new)
  BY <1>1 DEF DialersResolve
<1> QED  BY <1>1, <1>2, <1>3

LEMMA SwappedRows ==
  ASSUME NEW list \in Seq(Outbound), NEW i \in DOMAIN list, NEW j \in DOMAIN list
  PROVE  /\ Swap(list, i, j) \in Seq(Outbound)
         /\ TagsOf(Swap(list, i, j)) = TagsOf(list)
         /\ Unique(list) => Unique(Swap(list, i, j))
         /\ DialersResolve(list) => DialersResolve(Swap(list, i, j))
<1> DEFINE new == Swap(list, i, j)
           from == [k \in DOMAIN list |-> IF k = j THEN i ELSE IF k = i THEN j ELSE k]
<1>1. /\ new \in Seq(Outbound) /\ DOMAIN new = DOMAIN list
      /\ \A k \in DOMAIN list : new[k] = list[from[k]]
  BY DEF Swap
<1>2. /\ from \in [DOMAIN list -> DOMAIN list]
      /\ \A k \in DOMAIN list : from[from[k]] = k
  OBVIOUS
<1> HIDE DEF new, from
<1>3. \A k \in DOMAIN list : \E l \in DOMAIN new : from[l] = k
  BY <1>1, <1>2 DEF from
<1>4. /\ from \in [DOMAIN new -> DOMAIN list]
      /\ \A k \in DOMAIN new : new[k] = list[from[k]]
      /\ \A k, l \in DOMAIN new : from[k] = from[l] => k = l
  BY <1>1, <1>2
<1>5. /\ TagsOf(new) = TagsOf(list)
      /\ Unique(list) => Unique(new)
      /\ DialersResolve(list) => DialersResolve(new)
  BY <1>1, <1>3, <1>4, MovedRows
<1> QED  BY <1>1, <1>5 DEF new

LEMMA FirstRow ==
  ASSUME NEW list \in Seq(Outbound), NEW i \in DOMAIN list
  PROVE  /\ <<list[i]>> \o RemoveAt(list, i) \in Seq(Outbound)
         /\ TagsOf(<<list[i]>> \o RemoveAt(list, i)) = TagsOf(list)
         /\ Unique(list) => Unique(<<list[i]>> \o RemoveAt(list, i))
         /\ DialersResolve(list) => DialersResolve(<<list[i]>> \o RemoveAt(list, i))
<1> DEFINE rest == RemoveAt(list, i)
           head == <<list[i]>>
           new == head \o rest
           from == [k \in DOMAIN list |->
                      IF k = 1 THEN i ELSE IF k - 1 < i THEN k - 1 ELSE k]
<1>1. /\ Len(list) \in Nat /\ DOMAIN list = 1..Len(list) /\ i \in 1..Len(list)
      /\ list[i] \in Outbound
  OBVIOUS
<1>2. /\ rest \in Seq(Outbound) /\ Len(rest) = Len(list) - 1
      /\ \A k \in DOMAIN rest : rest[k] = IF k < i THEN list[k] ELSE list[k + 1]
  BY RemoveAtSelects
<1>3. head \in Seq(Outbound) /\ Len(head) = 1 /\ head[1] = list[i]
  BY <1>1
<1> HIDE DEF head, rest
<1>4. /\ new \in Seq(Outbound) /\ Len(new) = Len(head) + Len(rest)
      /\ \A k \in 1..(Len(head) + Len(rest)) :
           new[k] = IF k <= Len(head) THEN head[k] ELSE rest[k - Len(head)]
  <2>1. head \in Seq(Outbound) /\ rest \in Seq(Outbound)
    BY <1>2, <1>3
  <2> QED  BY <2>1
<1> HIDE DEF new
<1>5. DOMAIN new = DOMAIN list
  BY <1>1, <1>2, <1>3, <1>4
<1>6. ASSUME NEW k \in DOMAIN list PROVE new[k] = list[from[k]]
  <2>1. CASE k = 1
    BY <1>1, <1>2, <1>3, <1>4, <2>1
  <2>2. CASE k # 1
    <3>1. k - 1 \in DOMAIN rest /\ ~ (k <= 1) /\ k \in 1..(1 + Len(rest)) /\ (k - 1) + 1 = k
      BY <1>1, <1>2, <2>2
    <3>2. new[k] = rest[k - 1]
      BY <1>3, <1>4, <3>1
    <3> QED  BY <1>2, <2>2, <3>1, <3>2
  <2> QED  BY <2>1, <2>2
<1>7. /\ from \in [DOMAIN list -> DOMAIN list]
      /\ \A k, l \in DOMAIN list : from[k] = from[l] => k = l
  BY <1>1
<1>8. ASSUME NEW j \in DOMAIN list PROVE \E k \in DOMAIN list : from[k] = j
  <2>1. CASE j = i
    <3>1. 1 \in DOMAIN list
      BY <1>1
    <3> QED  BY <2>1, <3>1
  <2>2. CASE j < i
    <3>1. j + 1 \in DOMAIN list /\ j + 1 # 1 /\ (j + 1) - 1 = j
      BY <1>1, <2>2
    <3>2. from[j + 1] = j
      BY <2>2, <3>1
    <3> QED  BY <3>1, <3>2
  <2>3. CASE j > i
    <3>1. j # 1 /\ ~ (j - 1 < i)
      BY <1>1, <2>3
    <3>2. from[j] = j
      BY <3>1
    <3> QED  BY <3>2
  <2> QED  BY <1>1, <2>1, <2>2, <2>3
<1> HIDE DEF from
<1>9. /\ TagsOf(new) = TagsOf(list)
      /\ Unique(list) => Unique(new)
      /\ DialersResolve(list) => DialersResolve(new)
  <2>1. /\ new \in Seq(Outbound) /\ from \in [DOMAIN new -> DOMAIN list]
        /\ \A k \in DOMAIN new : new[k] = list[from[k]]
        /\ \A k, l \in DOMAIN new : from[k] = from[l] => k = l
        /\ \A j \in DOMAIN list : \E k \in DOMAIN new : from[k] = j
    BY <1>4, <1>5, <1>6, <1>7, <1>8
  <2> QED  BY <2>1, MovedRows
<1> QED  BY <1>4, <1>9 DEF new, head, rest
\* The least of some positions.
LEMMA LeastPosition ==
  ASSUME NEW n \in Nat, NEW I \in SUBSET (1..n), I # {}
  PROVE  Min(I) \in I
<1>1. IsFiniteSet(I) /\ Cardinality(I) \in Nat /\ Cardinality(I) # 0
  <2>1. IsFiniteSet(1..n)
    BY FS_Interval
  <2>2. IsFiniteSet(I)
    BY <2>1, FS_Subset
  <2> QED  BY <2>2, FS_CardinalityType, FS_EmptySet
<1>2. PICK x \in I : Rank(I, x) = 1
  <2>1. 1 \in 1..Cardinality(I)
    BY <1>1
  <2>2. \A k \in 1..Cardinality(I) : Nth(I, k) \in I /\ Rank(I, Nth(I, k)) = k
    BY NthCounts
  <2> QED  BY <2>1, <2>2
<1>3. IsFiniteSet({j \in I : j <= x}) /\ x \in {j \in I : j <= x}
  BY <1>1, FS_Subset
<1>4. \A y \in {j \in I : j <= x} : y = x
  BY <1>2, <1>3, FS_Singleton DEF Rank
<1>5. \A y \in I : x <= y
  BY <1>4
<1> QED  BY <1>5 DEF Min

\* FirstIndex finds an outbound with one of the tags, if there is one.
LEMMA FirstIndexFinds ==
  ASSUME outbounds \in Seq(Outbound), NEW tags
  PROVE  \/ /\ FirstIndex(tags) = 0
            /\ \A i \in DOMAIN outbounds : outbounds[i].tag \notin tags
         \/ /\ FirstIndex(tags) \in DOMAIN outbounds
            /\ outbounds[FirstIndex(tags)].tag \in tags
<1> DEFINE I == {i \in 1..Len(outbounds) : outbounds[i].tag \in tags}
<1>1. FirstIndex(tags) = IF I # {} THEN Min(I) ELSE 0
  BY DEF FirstIndex, SelectInSeq
<1>2. CASE I = {}
  BY <1>1, <1>2
<1>3. CASE I # {}
  <2>1. Min(I) \in I
    <3>1. Len(outbounds) \in Nat /\ I \in SUBSET (1..Len(outbounds))
      OBVIOUS
    <3> QED  BY <1>3, <3>1, LeastPosition
  <2> QED  BY <1>1, <1>3, <2>1
<1> QED  BY <1>2, <1>3

LEMMA SyncedOutboundTypes ==
  ASSUME outbounds \in Seq(Outbound), NEW tag \in OutTags, NEW after
  PROVE  syncOutbound(tag, after) \in Seq(Outbound)
<1> DEFINE I == {i \in 1..Len(outbounds) : outbounds[i].tag = tag}
           idx == SelectInSeq(outbounds, LAMBDA o : o.tag = tag)
           used == \E i \in DOMAIN after : after[i].out = tag
           row == [tag |-> tag, dialer |-> NoTag]
<1>1. idx = IF I # {} THEN Min(I) ELSE 0
  BY DEF SelectInSeq
<1>2. idx = 0 \/ idx \in DOMAIN outbounds
  <2>1. CASE I # {}
    <3>1. Min(I) \in I
      <4>1. Len(outbounds) \in Nat /\ I \in SUBSET (1..Len(outbounds))
        OBVIOUS
      <4> QED  BY <2>1, <4>1, LeastPosition
    <3> QED  BY <1>1, <2>1, <3>1
  <2> QED  BY <1>1, <2>1
<1> HIDE DEF idx
<1>3. row \in Outbound
  BY DEF Outbound
<1>4. Append(outbounds, row) \in Seq(Outbound)
  BY <1>3
<1>5. idx > 1 => idx \in DOMAIN outbounds
  BY <1>2
<1>6. idx > 1 => RemoveAt(outbounds, idx) \in Seq(Outbound)
  BY <1>5, RemoveAtSelects
<1>7. syncOutbound(tag, after) =
        CASE ~ used /\ idx > 1 -> RemoveAt(outbounds, idx)
          [] used /\ idx = 0 -> Append(outbounds, row)
          [] OTHER -> outbounds
  BY DEF syncOutbound, idx
<1> HIDE DEF row, used
<1> QED  BY <1>4, <1>6, <1>7
-----------------------------------------------------------------------------
(* A renamed outbound *)

\* Whether an observer is there depends on the strategies and on there being a
\* fallback, and on nothing else.
LEMMA ObserverIsOn ==
  ASSUME NEW list
  PROVE  /\ SyncedBurst(list).on <=> \E i \in DOMAIN list : balancerRequiresBurst(list[i])
         /\ SyncedObservatory(list).on <=>
              /\ \A i \in DOMAIN list : ~ balancerRequiresBurst(list[i])
              /\ \E i \in DOMAIN list : list[i].strat = "leastPing"
         /\ SyncedBurst(list).on \in BOOLEAN /\ SyncedObservatory(list).on \in BOOLEAN
<1> DEFINE req == {b \in ToSet(list) : balancerRequiresBurst(b)}
           pings == {b \in ToSet(list) : b.strat = "leastPing"}
<1>1. /\ req # {} <=> \E i \in DOMAIN list : balancerRequiresBurst(list[i])
      /\ pings # {} <=> \E i \in DOMAIN list : list[i].strat = "leastPing"
      /\ (\A b \in ToSet(list) : ~ balancerRequiresBurst(b)) <=> req = {}
  BY DEF ToSet
<1>2. /\ SyncedBurst(list).on = (req # {})
      /\ SyncedObservatory(list).on = (req = {} /\ pings # {})
  BY <1>1 DEF SyncedBurst, SyncedObservatory, Observer, NoObserver
<1> HIDE DEF req, pings
<1> QED  BY <1>1, <1>2

LEMMA SameObserverIsOn ==
  ASSUME NEW list, NEW new, DOMAIN new = DOMAIN list,
         \A i \in DOMAIN list :
           new[i].strat = list[i].strat /\ (new[i].fb = NoTag <=> list[i].fb = NoTag)
  PROVE  /\ SyncedBurst(new).on = SyncedBurst(list).on
         /\ SyncedObservatory(new).on = SyncedObservatory(list).on
<1>1. \A i \in DOMAIN list : balancerRequiresBurst(new[i]) <=> balancerRequiresBurst(list[i])
  BY DEF balancerRequiresBurst
<1>2. SyncedBurst(new).on <=> SyncedBurst(list).on
  BY <1>1, ObserverIsOn
<1>3. SyncedObservatory(new).on <=> SyncedObservatory(list).on
  BY <1>1, ObserverIsOn
<1> QED  BY <1>2, <1>3, ObserverIsOn

\* Every reference to the old tag follows: a rename keeps what resolves.
LEMMA RenameKeeps ==
  ASSUME TemplateInv, NEW i \in DOMAIN outbounds, NEW row \in Outbound,
         propagateOutboundTagRename([outbounds EXCEPT ![i] = row], outbounds[i].tag, row.tag),
         UNCHANGED observers,
         "renamed" \in taint', taint \subseteq taint', taint' \subseteq Taints,
         Untouched' => /\ row.dialer \in {NoTag} \cup TagsOf(outbounds)
                       /\ \A j \in DOMAIN outbounds \ {i} : outbounds[j].tag # row.tag
  PROVE  TypeOK' /\ ReferencesResolve'
<1> DEFINE old == outbounds[i].tag
           new == row.tag
           F(t) == Follow(t, old, new)
<1>1. TypeOK /\ ReferencesResolve
  BY DEF TemplateInv
<1>tags. old \in OutTags /\ new \in OutTags /\ NoTag \notin OutTags
  <2>1. outbounds[i] \in Outbound
    BY <1>1 DEF TypeOK
  <2> QED  BY <2>1, TemplateAssumption DEF Outbound
<1>2. /\ DOMAIN outbounds' = DOMAIN outbounds
      /\ \A j \in DOMAIN outbounds :
           /\ outbounds'[j] \in Outbound
           /\ outbounds'[j].tag = IF j = i THEN new ELSE outbounds[j].tag
           /\ outbounds'[j].dialer = F(IF j = i THEN row.dialer ELSE outbounds[j].dialer)
      /\ outbounds' \in Seq(Outbound)
  <2> DEFINE list == [outbounds EXCEPT ![i] = row]
  <2>1. /\ list \in Seq(Outbound) /\ DOMAIN list = DOMAIN outbounds
        /\ \A j \in DOMAIN outbounds : list[j] = IF j = i THEN row ELSE outbounds[j]
    BY <1>1 DEF TypeOK
  <2> HIDE DEF list
  <2>2. outbounds' = [j \in DOMAIN list |-> [list[j] EXCEPT !.dialer = F(@)]]
    BY DEF propagateOutboundTagRename, list
  <2>3. old \in OutTags /\ new \in OutTags
    BY <1>tags
  <2>4. ASSUME NEW o \in Outbound
        PROVE  /\ [o EXCEPT !.dialer = F(@)] \in Outbound
               /\ [o EXCEPT !.dialer = F(@)].tag = o.tag
               /\ [o EXCEPT !.dialer = F(@)].dialer = F(o.dialer)
    BY <2>3 DEF Outbound, Follow
  <2>5. \A j \in DOMAIN outbounds : list[j] \in Outbound
    BY <1>1, <2>1 DEF TypeOK
  <2>6. DOMAIN outbounds = 1..Len(outbounds) /\ Len(outbounds) \in Nat
    BY <1>1 DEF TypeOK
  <2>7. outbounds' \in Seq(Outbound)
    BY <2>1, <2>2, <2>4, <2>5, <2>6
  <2> QED  BY <2>1, <2>2, <2>4, <2>5, <2>7
<1>3. /\ DOMAIN rules' = DOMAIN rules /\ rules' \in Seq(Rule)
      /\ \A j \in DOMAIN rules :
           rules'[j].out = F(rules[j].out) /\ rules'[j].bal = rules[j].bal
  <2>1. rules' = [j \in DOMAIN rules |-> [rules[j] EXCEPT !.out = F(@)]]
    BY DEF propagateOutboundTagRename
  <2>2. old \in OutTags /\ new \in OutTags
    BY <1>tags
  <2>3. ASSUME NEW r \in Rule
        PROVE  /\ [r EXCEPT !.out = F(@)] \in Rule
               /\ [r EXCEPT !.out = F(@)].out = F(r.out)
               /\ [r EXCEPT !.out = F(@)].bal = r.bal
    BY <2>2 DEF Rule, Follow
  <2>4. /\ DOMAIN rules = 1..Len(rules) /\ Len(rules) \in Nat
        /\ \A j \in DOMAIN rules : rules[j] \in Rule
    BY <1>1 DEF TypeOK
  <2>5. rules' \in Seq(Rule)
    BY <2>1, <2>3, <2>4
  <2> QED  BY <2>1, <2>3, <2>4, <2>5
<1>4. /\ DOMAIN balancers' = DOMAIN balancers /\ balancers' \in Seq(Balancer)
      /\ \A j \in DOMAIN balancers :
           /\ balancers'[j].fb = F(balancers[j].fb)
           /\ balancers'[j].tag = balancers[j].tag
           /\ balancers'[j].strat = balancers[j].strat
           /\ balancers'[j].fb = NoTag <=> balancers[j].fb = NoTag
  <2> DEFINE B(b) == [b EXCEPT !.fb = F(@), !.sel = {F(s) : s \in @}]
  <2>1. balancers' = [j \in DOMAIN balancers |-> B(balancers[j])]
    BY DEF propagateOutboundTagRename
  <2>2. old \in OutTags /\ new \in OutTags /\ NoTag \notin OutTags
    BY <1>tags
  <2>3. ASSUME NEW b \in Balancer
        PROVE  /\ B(b) \in Balancer
               /\ B(b).fb = F(b.fb) /\ B(b).tag = b.tag /\ B(b).strat = b.strat
               /\ B(b).fb = NoTag <=> b.fb = NoTag
    <3>1. {F(s) : s \in b.sel} \in SUBSET OutTags
      BY <2>2 DEF Balancer, Follow
    <3>2. F(b.fb) \in OutTags \cup {NoTag}
      BY <2>2 DEF Balancer, Follow
    <3>3. ASSUME NEW f \in OutTags \cup {NoTag}, NEW s \in SUBSET OutTags
          PROVE  [b EXCEPT !.fb = f, !.sel = s] \in Balancer
      BY DEF Balancer
    <3>4. B(b) \in Balancer
      BY <3>1, <3>2, <3>3
    <3>5. B(b).fb = F(b.fb) /\ B(b).tag = b.tag /\ B(b).strat = b.strat
      BY DEF Balancer
    <3>6. F(b.fb) = NoTag <=> b.fb = NoTag
      BY <2>2 DEF Follow
    <3> QED  BY <3>4, <3>5, <3>6
  <2> HIDE DEF B
  <2>4. /\ DOMAIN balancers = 1..Len(balancers) /\ Len(balancers) \in Nat
        /\ \A j \in DOMAIN balancers : balancers[j] \in Balancer
    BY <1>1 DEF TypeOK
  <2>5. balancers' \in Seq(Balancer)
    BY <2>1, <2>3, <2>4
  <2> QED  BY <2>1, <2>3, <2>4, <2>5
<1>5. TypeOK'
  BY <1>2, <1>3, <1>4 DEF TypeOK
<1>6. Checked' => BalsResolve(rules, balancers)'
  <2>1. Checked' => Checked
    BY DEF Checked
  <2>2. TagsOf(balancers') = TagsOf(balancers)
    BY <1>4 DEF TagsOf
  <2> QED  BY <1>1, <1>3, <2>1, <2>2, ReferencesByList DEF BalsResolve
<1>7. ASSUME NEW t \in {NoTag} \cup TagsOf(outbounds)
      PROVE  F(t) \in {NoTag} \cup TagsOf(outbounds')
  <2>1. CASE t = old
    BY <1>2, <2>1 DEF Follow, TagsOf
  <2>2. CASE t # old /\ t # NoTag
    BY <1>2, <2>2 DEF Follow, TagsOf
  <2>3. CASE t # old /\ t = NoTag
    BY <2>3 DEF Follow
  <2> QED  BY <2>1, <2>2, <2>3
<1>8. Untouched' => /\ OutsResolve(rules, outbounds)'
                    /\ FallbacksResolve(balancers, outbounds)'
                    /\ DialersResolve(outbounds)'
                    /\ Unique(outbounds)' /\ Unique(balancers)'
  <2> SUFFICES ASSUME Untouched'
               PROVE  /\ OutsResolve(rules, outbounds)'
                      /\ FallbacksResolve(balancers, outbounds)'
                      /\ DialersResolve(outbounds)'
                      /\ Unique(outbounds)' /\ Unique(balancers)'
    OBVIOUS
  <2>1. Untouched
    BY DEF Untouched
  <2>2. /\ OutsResolve(rules, outbounds) /\ FallbacksResolve(balancers, outbounds)
        /\ DialersResolve(outbounds) /\ Unique(outbounds) /\ Unique(balancers)
    BY <1>1, <2>1, ReferencesByList
  <2> HIDE DEF F, old
  <2>3. OutsResolve(rules, outbounds)'
    BY <1>3, <1>7, <2>2 DEF OutsResolve
  <2>4. FallbacksResolve(balancers, outbounds)'
    BY <1>4, <1>7, <2>2 DEF FallbacksResolve
  <2>5. DialersResolve(outbounds)'
    BY <1>2, <1>7, <2>2 DEF DialersResolve
  <2>6. Unique(outbounds)'
    BY <1>2, <2>2 DEF Unique
  <2>7. Unique(balancers)'
    BY <1>4, <2>2 DEF Unique
  <2> QED  BY <2>3, <2>4, <2>5, <2>6, <2>7
<1>9. ObserversMatch' /\ SubjectsFollow'
  <2>1. SubjectsFollow'
    BY DEF SubjectsFollow
  <2>2. UNCHANGED <<observatory, burst>>
    BY DEF observers
  <2>3. ObserversMatch'
    BY <1>1, <1>4, <2>2, SameObserverIsOn DEF ReferencesResolve, ObserversMatch
  <2> QED  BY <2>1, <2>3
<1> QED  BY <1>5, <1>6, <1>8, <1>9, ReferencesByListNext
-----------------------------------------------------------------------------
(* What a deletion leaves *)

LEMMA SyncedTaint ==
  ASSUME taint \subseteq Taints, taint' = Synced
  PROVE  taint' \subseteq Taints /\ (Checked' => Checked) /\ (Untouched' => Untouched)
BY DEF Synced, Taints, Checked, Untouched

LEMMA SyncedObservers ==
  ASSUME syncObservatories
  PROVE  ObserversMatch' /\ SubjectsFollow'
BY DEF syncObservatories, ObserversMatch, SubjectsFollow

\* The rules that are left are those that keep a destination, repaired.
LEMMA CleanRulesLeaves ==
  ASSUME TypeOK, NEW outs, NEW bals
  PROVE  LET left == CleanRules(outs, bals)
             kept == {i \in DOMAIN rules : classifyRule(rules[i], outs, bals) # "removed"}
         IN /\ left \in Seq(Rule) /\ Len(left) = Cardinality(kept)
            /\ \A k \in DOMAIN left : \E i \in kept : left[k] = Repaired(rules[i], outs, bals)
            /\ \A i \in kept : \E k \in DOMAIN left : left[k] = Repaired(rules[i], outs, bals)
<1> DEFINE kept == {i \in DOMAIN rules : classifyRule(rules[i], outs, bals) # "removed"}
           rows == RowsAt(rules, kept)
           left == [k \in DOMAIN rows |-> Repaired(rows[k], outs, bals)]
<1>1. rules \in Seq(Rule) /\ kept \in SUBSET DOMAIN rules
  BY DEF TypeOK
<1> HIDE DEF kept
<1>2. /\ rows \in Seq(Rule) /\ Len(rows) = Cardinality(kept)
      /\ \A k \in DOMAIN rows : Nth(kept, k) \in kept /\ rows[k] = rules[Nth(kept, k)]
      /\ \A i \in kept : \E k \in DOMAIN rows : rows[k] = rules[i]
  BY <1>1, RowsAtSelects
<1>3. left = CleanRules(outs, bals)
  BY DEF CleanRules, kept
<1> HIDE DEF rows
<1>4. \A r \in Rule : Repaired(r, outs, bals) \in Rule
  BY DEF Repaired, Rule
<1>5. \A k \in DOMAIN rows : rows[k] \in Rule
  BY <1>2
<1>6. DOMAIN rows = 1..Len(rows) /\ Len(rows) \in Nat
  BY <1>2
<1>7. left \in Seq(Rule) /\ Len(left) = Len(rows) /\ DOMAIN left = DOMAIN rows
  BY <1>4, <1>5, <1>6
<1>8. \A k \in DOMAIN rows : left[k] = Repaired(rows[k], outs, bals)
  OBVIOUS
<1> HIDE DEF left
<1>9. \A k \in DOMAIN left : \E i \in kept : left[k] = Repaired(rules[i], outs, bals)
  BY <1>2, <1>7, <1>8
<1>10. \A i \in kept : \E k \in DOMAIN left : left[k] = Repaired(rules[i], outs, bals)
  BY <1>2, <1>7, <1>8
<1> QED  BY <1>2, <1>3, <1>7, <1>9, <1>10 DEF kept

\* The balancers that are left are those that are not deleted, without the
\* outbounds that are.
LEMMA CleanBalancersLeaves ==
  ASSUME TypeOK, NEW outs, NEW bals
  PROVE  LET left == CleanBalancers(outs, bals)
             kept == {i \in DOMAIN balancers : balancers[i].tag \notin bals}
         IN /\ left \in Seq(Balancer)
            /\ \A k \in DOMAIN left :
                 /\ Nth(kept, k) \in kept /\ left[k].tag = balancers[Nth(kept, k)].tag
                 /\ left[k].fb = IF balancers[Nth(kept, k)].fb \in outs THEN NoTag
                                 ELSE balancers[Nth(kept, k)].fb
            /\ \A i \in kept : \E k \in DOMAIN left : left[k].tag = balancers[i].tag
            /\ \A k, l \in DOMAIN left : Nth(kept, k) = Nth(kept, l) => k = l
<1> DEFINE kept == {i \in DOMAIN balancers : balancers[i].tag \notin bals}
           rows == RowsAt(balancers, kept)
           B(b) == [b EXCEPT !.sel = @ \ outs, !.fb = IF @ \in outs THEN NoTag ELSE @]
           left == [k \in DOMAIN rows |-> B(rows[k])]
<1>1. balancers \in Seq(Balancer) /\ kept \in SUBSET DOMAIN balancers
  BY DEF TypeOK
<1> HIDE DEF kept
<1>2. /\ rows \in Seq(Balancer) /\ Len(rows) = Cardinality(kept)
      /\ \A k \in DOMAIN rows : Nth(kept, k) \in kept /\ rows[k] = balancers[Nth(kept, k)]
      /\ \A i \in kept : \E k \in DOMAIN rows : rows[k] = balancers[i]
      /\ \A k, l \in DOMAIN rows : Nth(kept, k) = Nth(kept, l) => k = l
  BY <1>1, RowsAtSelects
<1>3. left = CleanBalancers(outs, bals)
  BY DEF CleanBalancers, kept
<1> HIDE DEF rows
<1>4. ASSUME NEW b \in Balancer
      PROVE  /\ B(b) \in Balancer /\ B(b).tag = b.tag
             /\ B(b).fb = IF b.fb \in outs THEN NoTag ELSE b.fb
  <2>1. ASSUME NEW s \in SUBSET OutTags, NEW f \in OutTags \cup {NoTag}
        PROVE  [b EXCEPT !.sel = s, !.fb = f] \in Balancer
    BY DEF Balancer
  <2>2. b.sel \ outs \in SUBSET OutTags
    BY DEF Balancer
  <2>3. (IF b.fb \in outs THEN NoTag ELSE b.fb) \in OutTags \cup {NoTag}
    BY DEF Balancer
  <2>4. B(b) \in Balancer
    BY <2>1, <2>2, <2>3
  <2>5. B(b).tag = b.tag /\ B(b).fb = IF b.fb \in outs THEN NoTag ELSE b.fb
    BY DEF Balancer
  <2> QED  BY <2>4, <2>5
<1> HIDE DEF B
<1>5. \A k \in DOMAIN rows : rows[k] \in Balancer
  BY <1>2
<1>6. DOMAIN rows = 1..Len(rows) /\ Len(rows) \in Nat
  BY <1>2
<1>7. left \in Seq(Balancer) /\ DOMAIN left = DOMAIN rows
  BY <1>4, <1>5, <1>6
<1>8. \A k \in DOMAIN rows : left[k] = B(rows[k])
  OBVIOUS
<1> HIDE DEF left
<1>9. \A k \in DOMAIN left :
        /\ Nth(kept, k) \in kept /\ left[k].tag = balancers[Nth(kept, k)].tag
        /\ left[k].fb = IF balancers[Nth(kept, k)].fb \in outs THEN NoTag
                        ELSE balancers[Nth(kept, k)].fb
  BY <1>2, <1>4, <1>5, <1>7, <1>8
<1>10. \A i \in kept : \E k \in DOMAIN left : left[k].tag = balancers[i].tag
  BY <1>2, <1>4, <1>5, <1>7, <1>8
<1> QED  BY <1>2, <1>3, <1>7, <1>9, <1>10 DEF kept

LEMMA CleanOutboundsLeaves ==
  ASSUME TypeOK, NEW outs
  PROVE  LET left == CleanOutbounds(outs)
             kept == {i \in DOMAIN outbounds : outbounds[i].tag \notin outs}
         IN /\ left \in Seq(Outbound)
            /\ \A k \in DOMAIN left :
                 /\ Nth(kept, k) \in kept /\ left[k].tag = outbounds[Nth(kept, k)].tag
                 /\ left[k].dialer = IF outbounds[Nth(kept, k)].dialer \in outs THEN NoTag
                                     ELSE outbounds[Nth(kept, k)].dialer
            /\ \A i \in kept : \E k \in DOMAIN left : left[k].tag = outbounds[i].tag
            /\ \A k, l \in DOMAIN left : Nth(kept, k) = Nth(kept, l) => k = l
<1> DEFINE kept == {i \in DOMAIN outbounds : outbounds[i].tag \notin outs}
           rows == RowsAt(outbounds, kept)
           O(o) == [o EXCEPT !.dialer = IF @ \in outs THEN NoTag ELSE @]
           left == [k \in DOMAIN rows |-> O(rows[k])]
<1>1. outbounds \in Seq(Outbound) /\ kept \in SUBSET DOMAIN outbounds
  BY DEF TypeOK
<1> HIDE DEF kept
<1>2. /\ rows \in Seq(Outbound) /\ Len(rows) = Cardinality(kept)
      /\ \A k \in DOMAIN rows : Nth(kept, k) \in kept /\ rows[k] = outbounds[Nth(kept, k)]
      /\ \A i \in kept : \E k \in DOMAIN rows : rows[k] = outbounds[i]
      /\ \A k, l \in DOMAIN rows : Nth(kept, k) = Nth(kept, l) => k = l
  BY <1>1, RowsAtSelects
<1>3. left = CleanOutbounds(outs)
  BY DEF CleanOutbounds, kept
<1> HIDE DEF rows
<1>4. ASSUME NEW o \in Outbound
      PROVE  /\ O(o) \in Outbound /\ O(o).tag = o.tag
             /\ O(o).dialer = IF o.dialer \in outs THEN NoTag ELSE o.dialer
  BY DEF Outbound
<1> HIDE DEF O
<1>5. \A k \in DOMAIN rows : rows[k] \in Outbound
  BY <1>2
<1>6. DOMAIN rows = 1..Len(rows) /\ Len(rows) \in Nat
  BY <1>2
<1>7. left \in Seq(Outbound) /\ DOMAIN left = DOMAIN rows
  BY <1>4, <1>5, <1>6
<1>8. \A k \in DOMAIN rows : left[k] = O(rows[k])
  OBVIOUS
<1> HIDE DEF left
<1>9. \A k \in DOMAIN left :
        /\ Nth(kept, k) \in kept /\ left[k].tag = outbounds[Nth(kept, k)].tag
        /\ left[k].dialer = IF outbounds[Nth(kept, k)].dialer \in outs THEN NoTag
                            ELSE outbounds[Nth(kept, k)].dialer
  BY <1>2, <1>4, <1>5, <1>7, <1>8
<1>10. \A i \in kept : \E k \in DOMAIN left : left[k].tag = outbounds[i].tag
  BY <1>2, <1>4, <1>5, <1>7, <1>8
<1> QED  BY <1>2, <1>3, <1>7, <1>9, <1>10 DEF kept
\* What is left after a deletion refers to what is left.
LEMMA CleanupKeeps ==
  ASSUME TemplateInv, NEW outs, NEW bals, applyCleanup(outs, bals), taint' = Synced
  PROVE  TypeOK' /\ ReferencesResolve'
<1> DEFINE keptB == {i \in DOMAIN balancers : balancers[i].tag \notin bals}
           keptO == {i \in DOMAIN outbounds : outbounds[i].tag \notin outs}
<1>1. TypeOK /\ ReferencesResolve
  BY DEF TemplateInv
<1>2. taint' \subseteq Taints /\ (Checked' => Checked) /\ (Untouched' => Untouched)
  BY <1>1, SyncedTaint DEF TypeOK
<1>3. /\ rules' \in Seq(Rule)
      /\ \A k \in DOMAIN rules' : \E i \in DOMAIN rules :
           rules'[k] = Repaired(rules[i], outs, bals)
  <2>1. rules' = CleanRules(outs, bals)
    BY DEF applyCleanup
  <2> QED  BY <1>1, <2>1, CleanRulesLeaves
<1>4. /\ balancers' \in Seq(Balancer)
      /\ \A k \in DOMAIN balancers' :
           /\ Nth(keptB, k) \in keptB /\ balancers'[k].tag = balancers[Nth(keptB, k)].tag
           /\ balancers'[k].fb = IF balancers[Nth(keptB, k)].fb \in outs THEN NoTag
                                 ELSE balancers[Nth(keptB, k)].fb
      /\ \A i \in keptB : \E k \in DOMAIN balancers' : balancers'[k].tag = balancers[i].tag
      /\ \A k, l \in DOMAIN balancers' : Nth(keptB, k) = Nth(keptB, l) => k = l
  <2>1. balancers' = CleanBalancers(outs, bals)
    BY DEF applyCleanup
  <2> QED  BY <1>1, <2>1, CleanBalancersLeaves
<1>5. /\ outbounds' \in Seq(Outbound)
      /\ \A k \in DOMAIN outbounds' :
           /\ Nth(keptO, k) \in keptO /\ outbounds'[k].tag = outbounds[Nth(keptO, k)].tag
           /\ outbounds'[k].dialer = IF outbounds[Nth(keptO, k)].dialer \in outs THEN NoTag
                                     ELSE outbounds[Nth(keptO, k)].dialer
      /\ \A i \in keptO : \E k \in DOMAIN outbounds' : outbounds'[k].tag = outbounds[i].tag
      /\ \A k, l \in DOMAIN outbounds' : Nth(keptO, k) = Nth(keptO, l) => k = l
  <2>1. outbounds' = CleanOutbounds(outs)
    BY DEF applyCleanup
  <2> QED  BY <1>1, <2>1, CleanOutboundsLeaves
<1>6. TypeOK'
  BY <1>2, <1>3, <1>4, <1>5 DEF TypeOK
<1>7. ASSUME NEW t \in TagsOf(balancers), t \notin bals PROVE t \in TagsOf(balancers')
  <2>1. PICK i \in DOMAIN balancers : t = balancers[i].tag
    BY DEF TagsOf
  <2>2. PICK k \in DOMAIN balancers' : balancers'[k].tag = balancers[i].tag
    BY <1>4, <1>7, <2>1
  <2> QED  BY <2>1, <2>2 DEF TagsOf
<1>8. ASSUME NEW t \in TagsOf(outbounds), t \notin outs PROVE t \in TagsOf(outbounds')
  <2>1. PICK i \in DOMAIN outbounds : t = outbounds[i].tag
    BY DEF TagsOf
  <2>2. PICK k \in DOMAIN outbounds' : outbounds'[k].tag = outbounds[i].tag
    BY <1>5, <1>8, <2>1
  <2> QED  BY <2>1, <2>2 DEF TagsOf
<1>9. Checked' => BalsResolve(rules, balancers)'
  <2> SUFFICES ASSUME Checked', NEW k \in DOMAIN rules'
               PROVE  rules'[k].bal \in {NoTag} \cup TagsOf(balancers')
    BY DEF BalsResolve
  <2>1. PICK i \in DOMAIN rules : rules'[k] = Repaired(rules[i], outs, bals)
    BY <1>3
  <2>2. rules'[k].bal = IF rules[i].bal \in bals THEN NoTag ELSE rules[i].bal
    BY <2>1 DEF Repaired
  <2>3. rules[i].bal \in {NoTag} \cup TagsOf(balancers)
    BY <1>1, <1>2, ReferencesByList DEF BalsResolve
  <2> QED  BY <1>7, <2>2, <2>3
<1>10. Untouched' => /\ OutsResolve(rules, outbounds)'
                     /\ FallbacksResolve(balancers, outbounds)'
                     /\ DialersResolve(outbounds)'
                     /\ Unique(outbounds)' /\ Unique(balancers)'
  <2> SUFFICES ASSUME Untouched'
               PROVE  /\ OutsResolve(rules, outbounds)'
                      /\ FallbacksResolve(balancers, outbounds)'
                      /\ DialersResolve(outbounds)'
                      /\ Unique(outbounds)' /\ Unique(balancers)'
    OBVIOUS
  <2>1. /\ OutsResolve(rules, outbounds) /\ FallbacksResolve(balancers, outbounds)
        /\ DialersResolve(outbounds) /\ Unique(outbounds) /\ Unique(balancers)
    BY <1>1, <1>2, ReferencesByList
  <2>2. ASSUME NEW k \in DOMAIN rules' PROVE rules'[k].out \in {NoTag} \cup TagsOf(outbounds')
    <3>1. PICK i \in DOMAIN rules : rules'[k] = Repaired(rules[i], outs, bals)
      BY <1>3
    <3>2. rules'[k].out = IF rules[i].out \in outs THEN NoTag ELSE rules[i].out
      BY <3>1 DEF Repaired
    <3> QED  BY <1>8, <2>1, <3>2 DEF OutsResolve
  <2>3. FallbacksResolve(balancers, outbounds)'
    <3>1. ASSUME NEW k \in DOMAIN balancers'
          PROVE  balancers'[k].fb \in {NoTag} \cup TagsOf(outbounds')
      <4>1. PICK i \in DOMAIN balancers :
              balancers'[k].fb = IF balancers[i].fb \in outs THEN NoTag ELSE balancers[i].fb
        BY <1>4
      <4> QED  BY <1>8, <2>1, <4>1 DEF FallbacksResolve
    <3> QED  BY <3>1 DEF FallbacksResolve
  <2>4. DialersResolve(outbounds)'
    <3>1. ASSUME NEW k \in DOMAIN outbounds'
          PROVE  outbounds'[k].dialer \in {NoTag} \cup TagsOf(outbounds')
      <4>1. PICK i \in DOMAIN outbounds :
              outbounds'[k].dialer = IF outbounds[i].dialer \in outs THEN NoTag
                                     ELSE outbounds[i].dialer
        BY <1>5
      <4> QED  BY <1>8, <2>1, <4>1 DEF DialersResolve
    <3> QED  BY <3>1 DEF DialersResolve
  <2>5. Unique(outbounds)'
    <3>1. ASSUME NEW k \in DOMAIN outbounds', NEW l \in DOMAIN outbounds',
                 outbounds'[k].tag = outbounds'[l].tag
          PROVE  k = l
      <4>1. /\ Nth(keptO, k) \in DOMAIN outbounds /\ Nth(keptO, l) \in DOMAIN outbounds
            /\ outbounds[Nth(keptO, k)].tag = outbounds[Nth(keptO, l)].tag
        BY <1>5, <3>1
      <4>2. Nth(keptO, k) = Nth(keptO, l)
        BY <2>1, <4>1 DEF Unique
      <4> QED  BY <1>5, <4>2
    <3> QED  BY <3>1 DEF Unique
  <2>6. Unique(balancers)'
    <3>1. ASSUME NEW k \in DOMAIN balancers', NEW l \in DOMAIN balancers',
                 balancers'[k].tag = balancers'[l].tag
          PROVE  k = l
      <4>1. /\ Nth(keptB, k) \in DOMAIN balancers /\ Nth(keptB, l) \in DOMAIN balancers
            /\ balancers[Nth(keptB, k)].tag = balancers[Nth(keptB, l)].tag
        BY <1>4, <3>1
      <4>2. Nth(keptB, k) = Nth(keptB, l)
        BY <2>1, <4>1 DEF Unique
      <4> QED  BY <1>4, <4>2
    <3> QED  BY <3>1 DEF Unique
  <2> QED  BY <2>2, <2>3, <2>4, <2>5, <2>6 DEF OutsResolve
<1>11. ObserversMatch' /\ SubjectsFollow'
  BY SyncedObservers DEF applyCleanup
<1> QED  BY <1>6, <1>9, <1>10, <1>11, ReferencesByListNext

\* A deletion whose row is gone only syncs the observers.
LEMMA SyncKeeps ==
  ASSUME TemplateInv, UNCHANGED <<outbounds, rules, balancers>>, syncObservatories,
         taint' = Synced
  PROVE  TypeOK' /\ ReferencesResolve'
<1>1. TypeOK /\ ReferencesResolve
  BY DEF TemplateInv
<1>2. taint' \subseteq Taints /\ (Checked' => Checked) /\ (Untouched' => Untouched)
  BY <1>1, SyncedTaint DEF TypeOK
<1>3. TypeOK'
  BY <1>1, <1>2 DEF TypeOK
<1>4. ObserversMatch' /\ SubjectsFollow'
  BY SyncedObservers
<1> QED
  BY <1>1, <1>2, <1>3, <1>4, ReferencesByList, ReferencesByListNext
     DEF BalsResolve, OutsResolve, FallbacksResolve, DialersResolve, Unique, TagsOf
-----------------------------------------------------------------------------
(* The handlers of the outbounds *)

LEMMA OutboundConfirmKeeps ==
  ASSUME TemplateInv, NEW typed \in FormTags \cup {Keep},
         NEW picked \in Picked \cup {NoTag, Keep}, OutboundConfirm(typed, picked)
  PROVE  TypeOK' /\ ReferencesResolve'
<1> DEFINE i == dialog.at
           row == [tag |-> IF typed = Keep THEN dialog.tag ELSE typed,
                   dialer |-> IF picked = Keep THEN dialog.dialer ELSE picked]
           others == {outbounds[j].tag : j \in DOMAIN outbounds \ {i}}
           renamed == i \in DOMAIN outbounds /\ outbounds[i].tag # row.tag
<1>1. TypeOK /\ ReferencesResolve /\ DialogTypes /\ DialogFresh
  BY DEF TemplateInv
<1>2. /\ dialog.kind = "outbound"
      /\ IF typed = Keep THEN dialog.tag # NoTag ELSE typed \notin dialog.taken
      /\ picked \in others \cup {NoTag, Keep}
  BY DEF OutboundConfirm, OutboundFormOk
<1>3. \A j \in DOMAIN outbounds : outbounds[j] \in Outbound
  BY <1>1 DEF TypeOK
<1>4. row \in Outbound
  <2>1. row.tag \in OutTags
    BY <1>1, <1>2, TemplateAssumption DEF DialogTypes
  <2>2. row.dialer \in OutTags \cup {NoTag}
    BY <1>1, <1>2, <1>3 DEF DialogTypes, Outbound
  <2> QED  BY <2>1, <2>2 DEF Outbound
<1>5. UNCHANGED observers /\ taint \subseteq taint' /\ taint' \subseteq Taints
  BY <1>1 DEF OutboundConfirm, Taint, TypeOK, Taints
<1>6. ASSUME Untouched'
      PROVE  /\ OutboundFormFresh
             /\ DialersResolve(outbounds) /\ Unique(outbounds)
  <2>1. Untouched /\ "late" \notin taint
    BY <1>5, <1>6 DEF Untouched
  <2> QED  BY <1>1, <1>2, <2>1, ReferencesByList DEF DialogFresh
<1>7. ASSUME Untouched' PROVE row.dialer \in {NoTag} \cup TagsOf(outbounds)
  <2>1. CASE picked = Keep
    BY <1>6, <1>7, <2>1 DEF OutboundFormFresh, DialersResolve
  <2>2. CASE picked # Keep
    BY <1>2, <2>2 DEF TagsOf
  <2> QED  BY <2>1, <2>2
<1>8. ASSUME Untouched', i \in DOMAIN outbounds
      PROVE  \A j \in DOMAIN outbounds \ {i} : outbounds[j].tag # row.tag
  <2>1. dialog.tag = outbounds[i].tag /\ dialog.taken = others
    BY <1>1, <1>6, <1>8 DEF OutboundFormFresh, TypeOK
  <2>2. CASE typed = Keep
    BY <1>6, <1>8, <2>1, <2>2 DEF Unique
  <2>3. CASE typed # Keep
    BY <1>2, <2>1, <2>3
  <2> QED  BY <2>2, <2>3
<1>9. ASSUME Untouched', i \notin DOMAIN outbounds PROVE row.tag \notin TagsOf(outbounds)
  BY <1>2, <1>6, <1>9 DEF OutboundFormFresh
<1>10. CASE renamed
  <2>1. /\ propagateOutboundTagRename([outbounds EXCEPT ![i] = row],
                                      outbounds[i].tag, row.tag)
        /\ "renamed" \in taint'
    BY <1>10 DEF OutboundConfirm, Taint
  <2> HIDE DEF row, i
  <2>2. i \in DOMAIN outbounds
    BY <1>10
  <2> QED  BY <1>4, <1>5, <1>7, <1>8, <2>1, <2>2, RenameKeeps
<1>11. CASE ~ renamed
  <2>1. /\ outbounds' = IF i \in DOMAIN outbounds THEN [outbounds EXCEPT ![i] = row]
                        ELSE Append(outbounds, row)
        /\ UNCHANGED routing
    BY <1>11 DEF OutboundConfirm, Written
  <2> HIDE DEF row, i
  <2>2. outbounds \in Seq(Outbound)
    BY <1>1 DEF TypeOK
  <2>3. CASE i \in DOMAIN outbounds
    <3>1. row.tag = outbounds[i].tag
      BY <1>11, <2>3
    <3>2. /\ outbounds' \in Seq(Outbound) /\ TagsOf(outbounds') = TagsOf(outbounds)
          /\ Unique(outbounds) => Unique(outbounds')
          /\ DialersResolve(outbounds) /\ row.dialer \in {NoTag} \cup TagsOf(outbounds)
               => DialersResolve(outbounds')
      BY <1>4, <2>1, <2>2, <2>3, <3>1, ReplacedRow
    <3> QED  BY <1>5, <1>6, <1>7, <2>1, <3>2, OutboundsChange
  <2>4. CASE i \notin DOMAIN outbounds
    <3>2. /\ outbounds' \in Seq(Outbound)
          /\ TagsOf(outbounds') = TagsOf(outbounds) \cup {row.tag}
          /\ Unique(outbounds) /\ row.tag \notin TagsOf(outbounds) => Unique(outbounds')
          /\ DialersResolve(outbounds)
             /\ row.dialer \in {NoTag, row.tag} \cup TagsOf(outbounds)
               => DialersResolve(outbounds')
      BY <1>4, <2>1, <2>2, <2>4, AppendedRow
    <3> QED  BY <1>5, <1>6, <1>7, <1>9, <2>1, <2>4, <3>2, OutboundsChange
  <2> QED  BY <2>3, <2>4
<1> QED  BY <1>10, <1>11

LEMMA OutboundDeleteKeeps ==
  ASSUME TemplateInv, OutboundDeleteOk
  PROVE  TypeOK' /\ ReferencesResolve'
<1>1. applyOutboundDeletion(dialog.at) /\ taint' = Synced
  BY DEF OutboundDeleteOk
<1>2. CASE dialog.at \in DOMAIN outbounds
  BY <1>1, <1>2, CleanupKeeps DEF applyOutboundDeletion
<1>3. CASE dialog.at \notin DOMAIN outbounds
  BY <1>1, <1>3, SyncKeeps DEF applyOutboundDeletion
<1> QED  BY <1>2, <1>3

LEMMA OutboundMoveKeeps ==
  ASSUME TemplateInv, NEW i \in DOMAIN outbounds, NEW op \in {"first", "up", "down"},
         OutboundMove(i, op)
  PROVE  TypeOK' /\ ReferencesResolve'
<1>1. TypeOK /\ ReferencesResolve /\ outbounds \in Seq(Outbound)
  BY DEF TemplateInv, TypeOK
<1>2. Len(outbounds) \in Nat /\ DOMAIN outbounds = 1..Len(outbounds)
  BY <1>1
<1>3. UNCHANGED <<routing, observers>> /\ taint' = taint /\ op \in OutboundRowActions(i)
  BY DEF OutboundMove
<1>4. /\ outbounds' \in Seq(Outbound)
      /\ TagsOf(outbounds') = TagsOf(outbounds)
      /\ Unique(outbounds) => Unique(outbounds')
      /\ DialersResolve(outbounds) => DialersResolve(outbounds')
  <2>1. CASE op = "first"
    <3>1. outbounds' = <<outbounds[i]>> \o RemoveAt(outbounds, i)
      BY <2>1 DEF OutboundMove
    <3> QED  BY <1>1, <3>1, FirstRow
  <2>2. CASE op = "up"
    <3>1. outbounds' = Swap(outbounds, i - 1, i) /\ i - 1 \in DOMAIN outbounds
      BY <1>2, <1>3, <2>2 DEF OutboundMove, OutboundRowActions
    <3> QED  BY <1>1, <3>1, SwappedRows
  <2>3. CASE op = "down"
    <3>1. outbounds' = Swap(outbounds, i, i + 1) /\ i + 1 \in DOMAIN outbounds
      BY <1>2, <1>3, <2>3 DEF OutboundMove, OutboundRowActions
    <3> QED  BY <1>1, <3>1, SwappedRows
  <2> QED  BY <2>1, <2>2, <2>3
<1>5. Untouched' => DialersResolve(outbounds) /\ Unique(outbounds)
  BY <1>1, <1>3, ReferencesByList DEF Untouched
<1>6. taint' \subseteq Taints
  BY <1>1, <1>3 DEF TypeOK
<1> QED  BY <1>3, <1>4, <1>5, <1>6, OutboundsChange

LEMMA ImportOutboundsKeeps ==
  ASSUME TemplateInv, NEW row \in Pasted.outbounds, importOutbounds(row)
  PROVE  TypeOK' /\ ReferencesResolve'
<1>1. outbounds \in Seq(Outbound) /\ row \in Outbound /\ taint \subseteq Taints
  BY DefaultsAssumption DEF TemplateInv, TypeOK
<1>2. /\ outbounds' = Append(outbounds, row) /\ UNCHANGED <<routing, observers>>
      /\ taint' = taint \cup {"raw"}
  BY DEF importOutbounds, Taint
<1>3. outbounds' \in Seq(Outbound)
  BY <1>1, <1>2
<1>4. ~ Untouched' /\ taint \subseteq taint' /\ taint' \subseteq Taints
  BY <1>1, <1>2 DEF Untouched, Taints
<1> QED  BY <1>2, <1>3, <1>4, OutboundsChange
-----------------------------------------------------------------------------
(* The handlers of the rules and of the balancers *)

LEMMA RuleConfirmKeeps ==
  ASSUME TemplateInv, NEW out, NEW bal, RuleConfirm(out, bal)
  PROVE  TypeOK' /\ ReferencesResolve'
<1> DEFINE i == dialog.at
           r == [out |-> IF out = Keep THEN dialog.out ELSE out,
                 bal |-> IF bal = Keep THEN dialog.bal ELSE bal]
<1>1. TypeOK /\ ReferencesResolve /\ DialogTypes /\ DialogFresh
  BY DEF TemplateInv
<1>2. /\ dialog.kind = "rule"
      /\ out \in {NoTag, Keep} \cup TagsOf(outbounds)
      /\ bal \in {NoTag, Keep} \cup TagsOf(balancers)
      /\ rules' = IF i \in DOMAIN rules THEN [rules EXCEPT ![i] = r] ELSE Append(rules, r)
      /\ UNCHANGED <<outbounds, balancers, observers>> /\ taint' = taint
  BY DEF RuleConfirm, Written, outboundTagOptions, balancerTagOptions
<1>3. TagsOf(outbounds) \subseteq OutTags /\ TagsOf(balancers) \subseteq BalTags
  <2>1. /\ \A j \in DOMAIN outbounds : outbounds[j] \in Outbound
        /\ \A j \in DOMAIN balancers : balancers[j] \in Balancer
    BY <1>1 DEF TypeOK
  <2> QED  BY <2>1 DEF TagsOf, Outbound, Balancer
<1>4. r \in Rule
  BY <1>1, <1>2, <1>3 DEF DialogTypes, Rule
<1>5. Checked => r.bal \in {NoTag} \cup TagsOf(balancers)
  <2> SUFFICES ASSUME Checked, bal = Keep
               PROVE  dialog.bal \in {NoTag} \cup TagsOf(balancers)
    BY <1>2
  <2>1. RuleFormFresh
    BY <1>1, <1>2 DEF DialogFresh, Checked
  <2> QED  BY <1>1, <2>1, ReferencesByList DEF RuleFormFresh, BalsResolve
<1>6. Untouched => r.out \in {NoTag} \cup TagsOf(outbounds)
  <2> SUFFICES ASSUME Untouched, out = Keep
               PROVE  dialog.out \in {NoTag} \cup TagsOf(outbounds)
    BY <1>2
  <2>1. RuleFormFresh
    BY <1>1, <1>2 DEF DialogFresh, Untouched
  <2> QED  BY <1>1, <2>1, ReferencesByList DEF RuleFormFresh, OutsResolve
<1> HIDE DEF r, i
<1>7. /\ rules' \in Seq(Rule)
      /\ \A k \in DOMAIN rules' : rules'[k] = r \/ \E j \in DOMAIN rules : rules'[k] = rules[j]
  <2>1. /\ rules \in Seq(Rule) /\ Len(rules) \in Nat /\ DOMAIN rules = 1..Len(rules)
    BY <1>1 DEF TypeOK
  <2>2. CASE i \in DOMAIN rules
    BY <1>2, <1>4, <2>1, <2>2
  <2>3. CASE i \notin DOMAIN rules
    <3>1. rules' = Append(rules, r)
      BY <1>2, <2>3
    <3>2. /\ rules' \in Seq(Rule) /\ DOMAIN rules' = 1..(Len(rules) + 1)
          /\ \A j \in 1..Len(rules) : rules'[j] = rules[j]
          /\ rules'[Len(rules) + 1] = r
      BY <1>4, <2>1, <3>1
    <3> QED  BY <2>1, <3>2
  <2> QED  BY <2>2, <2>3
<1>8. Checked' => BalsResolve(rules', balancers)
  <2>1. Checked' => Checked
    BY <1>2 DEF Checked
  <2> QED  BY <1>1, <1>5, <1>7, <2>1, ReferencesByList DEF BalsResolve
<1>9. Untouched' => OutsResolve(rules', outbounds)
  <2>1. Untouched' => Untouched
    BY <1>2 DEF Untouched
  <2> QED  BY <1>1, <1>6, <1>7, <2>1, ReferencesByList DEF OutsResolve
<1>10. taint \subseteq taint' /\ taint' \subseteq Taints
  BY <1>1, <1>2 DEF TypeOK
<1> QED  BY <1>2, <1>7, <1>8, <1>9, <1>10, RulesChange

LEMMA RuleDeleteKeeps ==
  ASSUME TemplateInv, RuleDeleteOk
  PROVE  TypeOK' /\ ReferencesResolve'
<1>1. TypeOK /\ ReferencesResolve
  BY DEF TemplateInv
<1>2. /\ rules' = IF dialog.at \in DOMAIN rules THEN RemoveAt(rules, dialog.at) ELSE rules
      /\ UNCHANGED <<outbounds, balancers, observers>> /\ taint' = taint
  BY DEF RuleDeleteOk
<1>3. /\ rules' \in Seq(Rule)
      /\ \A k \in DOMAIN rules' : \E j \in DOMAIN rules : rules'[k] = rules[j]
  <2>1. rules \in Seq(Rule) /\ Len(rules) \in Nat /\ DOMAIN rules = 1..Len(rules)
    BY <1>1 DEF TypeOK
  <2>2. CASE dialog.at \in DOMAIN rules
    <3>1. rules' = RemoveAt(rules, dialog.at)
      BY <1>2, <2>2
    <3>2. /\ rules' \in Seq(Rule) /\ Len(rules') = Len(rules) - 1
          /\ \A k \in DOMAIN rules' :
               rules'[k] = IF k < dialog.at THEN rules[k] ELSE rules[k + 1]
      BY <2>1, <2>2, <3>1, RemoveAtSelects
    <3>3. \A k \in DOMAIN rules' : k \in DOMAIN rules /\ k + 1 \in DOMAIN rules
      BY <2>1, <3>2
    <3> QED  BY <3>2, <3>3
  <2>3. CASE dialog.at \notin DOMAIN rules
    BY <1>2, <2>1, <2>3
  <2> QED  BY <2>2, <2>3
<1>4. Checked' => BalsResolve(rules', balancers)
  BY <1>1, <1>2, <1>3, ReferencesByList DEF BalsResolve, Checked
<1>5. Untouched' => OutsResolve(rules', outbounds)
  BY <1>1, <1>2, <1>3, ReferencesByList DEF OutsResolve, Untouched
<1>6. taint \subseteq taint' /\ taint' \subseteq Taints
  BY <1>1, <1>2 DEF TypeOK
<1> QED  BY <1>2, <1>3, <1>4, <1>5, <1>6, RulesChange

LEMMA ImportRulesKeeps ==
  ASSUME TemplateInv, NEW r \in Pasted.rules, importRules(r)
  PROVE  TypeOK' /\ ReferencesResolve'
<1>1. rules \in Seq(Rule) /\ r \in Rule /\ taint \subseteq Taints
  BY DefaultsAssumption DEF TemplateInv, TypeOK
<1>2. /\ rules' = Append(rules, r) /\ UNCHANGED <<outbounds, balancers, observers>>
      /\ taint' = taint \cup {"raw"}
  BY DEF importRules, Taint
<1>3. rules' \in Seq(Rule)
  BY <1>1, <1>2
<1>4. ~ Untouched' /\ ~ Checked' /\ taint \subseteq taint' /\ taint' \subseteq Taints
  BY <1>1, <1>2 DEF Untouched, Checked, Taints
<1> QED  BY <1>2, <1>3, <1>4, RulesChange

\* Some of the rules, or one more without a balancer.
LEMMA RuleSetterKeeps ==
  ASSUME TemplateInv, NEW tag \in OutTags, NEW given, rules' = ruleSetter(tag, given),
         Checked
  PROVE  BalsResolve(rules', balancers)
<1>1. TypeOK /\ BalsResolve(rules, balancers)
  BY ReferencesByList DEF TemplateInv
<1> DEFINE kept == {i \in DOMAIN rules : rules[i].out # tag}
           row == [out |-> tag, bal |-> NoTag]
<1>2. rules \in Seq(Rule) /\ Len(rules) \in Nat /\ DOMAIN rules = 1..Len(rules)
  BY <1>1 DEF TypeOK
<1>3. rules' \in {rules, RowsAt(rules, kept), Append(rules, row)}
  BY DEF ruleSetter
<1>4. CASE rules' = rules
  BY <1>1, <1>4
<1>5. CASE rules' = RowsAt(rules, kept)
  <2>1. kept \in SUBSET DOMAIN rules
    OBVIOUS
  <2> HIDE DEF kept
  <2>2. \A k \in DOMAIN rules' : Nth(kept, k) \in kept /\ rules'[k] = rules[Nth(kept, k)]
    BY <1>2, <1>5, <2>1, RowsAtSelects
  <2> QED  BY <1>1, <2>1, <2>2 DEF BalsResolve
<1>6. CASE rules' = Append(rules, row)
  <2> HIDE DEF row
  <2>1. /\ DOMAIN rules' = 1..(Len(rules) + 1)
        /\ \A j \in 1..Len(rules) : rules'[j] = rules[j]
        /\ rules'[Len(rules) + 1] = row
    BY <1>2, <1>6
  <2>2. row.bal = NoTag
    BY DEF row
  <2> QED  BY <1>1, <1>2, <2>1, <2>2 DEF BalsResolve
<1> QED  BY <1>3, <1>4, <1>5, <1>6

LEMMA RuleSetterTypes ==
  ASSUME rules \in Seq(Rule), NEW tag \in OutTags, NEW given
  PROVE  ruleSetter(tag, given) \in Seq(Rule)
<1> DEFINE kept == {i \in DOMAIN rules : rules[i].out # tag}
           row == [out |-> tag, bal |-> NoTag]
<1>1. ruleSetter(tag, given) \in {rules, RowsAt(rules, kept), Append(rules, row)}
  BY DEF ruleSetter
<1>2. RowsAt(rules, kept) \in Seq(Rule)
  BY RowsAtSelects
<1>3. row \in Rule
  BY DEF Rule
<1> HIDE DEF row, kept
<1>4. Append(rules, row) \in Seq(Rule)
  BY <1>3
<1> QED  BY <1>1, <1>2, <1>4

LEMMA BasicRoutingKeeps ==
  ASSUME TemplateInv, NEW tag \in BlockTags \cup SyncTags, NEW given \in BOOLEAN,
         BasicRouting(tag, given)
  PROVE  TypeOK' /\ ReferencesResolve'
<1>1. TypeOK /\ tag \in OutTags
  BY TemplateAssumption DEF TemplateInv
<1>2. /\ rules' = ruleSetter(tag, given)
      /\ outbounds' = IF tag \in SyncTags THEN syncOutbound(tag, rules') ELSE outbounds
      /\ taint' = taint \cup {"loose"} /\ UNCHANGED <<balancers, observers>>
  BY DEF BasicRouting, Taint
<1>3. rules' \in Seq(Rule)
  BY <1>1, <1>2, RuleSetterTypes DEF TypeOK
<1>4. outbounds' \in Seq(Outbound)
  BY <1>1, <1>2, SyncedOutboundTypes DEF TypeOK
<1>5. Checked' => BalsResolve(rules', balancers)
  BY <1>1, <1>2, RuleSetterKeeps DEF Checked
<1>6. taint \subseteq taint' /\ "loose" \in taint' /\ taint' \subseteq Taints
  BY <1>1, <1>2 DEF TypeOK, Taints
<1> QED  BY <1>2, <1>3, <1>4, <1>5, <1>6, LooseChange
LEMMA BalancerConfirmKeeps ==
  ASSUME TemplateInv, NEW form \in BalancerForms, BalancerConfirm(form)
  PROVE  TypeOK' /\ ReferencesResolve'
<1> DEFINE i == dialog.at
           wire == IF form.fb = Keep THEN [form EXCEPT !.fb = dialog.fb] ELSE form
           old == IF i \in DOMAIN balancers THEN balancers[i].tag ELSE NoTag
<1>1. TypeOK /\ ReferencesResolve /\ DialogTypes /\ DialogFresh
  BY DEF TemplateInv
<1>2. /\ dialog.kind = "balancer"
      /\ wire.tag \notin {balancers[j].tag : j \in DOMAIN balancers \ {i}}
      /\ form.fb \in TagsOf(outbounds) \cup {NoTag, Keep}
      /\ balancers' = IF i \in DOMAIN balancers
                      THEN [balancers EXCEPT ![i] = wire] ELSE Append(balancers, wire)
      /\ rules' = IF old # NoTag
                  THEN [j \in DOMAIN rules |->
                          [rules[j] EXCEPT !.bal = Follow(@, old, wire.tag)]]
                  ELSE rules
      /\ syncObservatories
      /\ taint' = Synced /\ UNCHANGED outbounds
  BY DEF BalancerConfirm, Written
<1>3. taint' \subseteq Taints /\ (Checked' => Checked) /\ (Untouched' => Untouched)
  BY <1>1, <1>2, SyncedTaint DEF TypeOK
<1>4. /\ \A j \in DOMAIN outbounds : outbounds[j] \in Outbound
      /\ \A j \in DOMAIN balancers : balancers[j] \in Balancer
      /\ \A j \in DOMAIN rules : rules[j] \in Rule
      /\ balancers \in Seq(Balancer) /\ Len(balancers) \in Nat
      /\ DOMAIN balancers = 1..Len(balancers)
      /\ rules \in Seq(Rule) /\ Len(rules) \in Nat /\ DOMAIN rules = 1..Len(rules)
  BY <1>1 DEF TypeOK
<1>5. wire \in Balancer /\ wire.tag \in BalTags
  <2>1. TagsOf(outbounds) \subseteq OutTags
    BY <1>4 DEF TagsOf, Outbound
  <2>2. Selectors \subseteq SUBSET OutTags
    BY TemplateAssumption
  <2>3. CASE form.fb = Keep
    <3>1. \A f \in OutTags \cup {NoTag} : [form EXCEPT !.fb = f] \in Balancer
      BY <2>2 DEF BalancerForms, Balancer
    <3>2. dialog.fb \in OutTags \cup {NoTag}
      BY <1>1, <1>2 DEF DialogTypes
    <3> QED  BY <2>3, <3>1, <3>2 DEF Balancer
  <2>4. CASE form.fb # Keep
    BY <1>2, <2>1, <2>2, <2>4 DEF BalancerForms, Balancer
  <2> QED  BY <2>3, <2>4
<1>6. Untouched => wire.fb \in {NoTag} \cup TagsOf(outbounds)
  <2> SUFFICES ASSUME Untouched PROVE wire.fb \in {NoTag} \cup TagsOf(outbounds)
    OBVIOUS
  <2>1. CASE form.fb = Keep
    <3>1. BalancerFormFresh
      BY <1>1, <1>2 DEF DialogFresh, Untouched
    <3>2. dialog.fb \in {NoTag} \cup TagsOf(outbounds)
      BY <1>1, <3>1, ReferencesByList DEF BalancerFormFresh, FallbacksResolve
    <3>3. wire.fb = dialog.fb
      BY <2>1 DEF BalancerForms
    <3> QED  BY <3>2, <3>3
  <2>2. CASE form.fb # Keep
    BY <1>2, <2>2
  <2> QED  BY <2>1, <2>2
<1> HIDE DEF wire, i
<1>7. /\ balancers' \in Seq(Balancer)
      /\ \A k \in DOMAIN balancers' :
           \/ balancers'[k] = wire
           \/ k \in DOMAIN balancers /\ k # i /\ balancers'[k] = balancers[k]
      /\ \A k \in DOMAIN balancers :
           k # i => k \in DOMAIN balancers' /\ balancers'[k] = balancers[k]
      /\ \E k \in DOMAIN balancers' : balancers'[k] = wire
      /\ \A k, l \in DOMAIN balancers' :
           (k = l) \/ (k \in DOMAIN balancers /\ k # i) \/ (l \in DOMAIN balancers /\ l # i)
  <2>1. CASE i \in DOMAIN balancers
    <3>1. /\ balancers' \in Seq(Balancer) /\ DOMAIN balancers' = DOMAIN balancers
          /\ \A k \in DOMAIN balancers : balancers'[k] = IF k = i THEN wire ELSE balancers[k]
      BY <1>2, <1>4, <1>5, <2>1
    <3> QED  BY <2>1, <3>1
  <2>2. CASE i \notin DOMAIN balancers
    <3>1. balancers' = Append(balancers, wire)
      BY <1>2, <2>2
    <3>2. /\ balancers' \in Seq(Balancer) /\ DOMAIN balancers' = 1..(Len(balancers) + 1)
          /\ \A k \in 1..Len(balancers) : balancers'[k] = balancers[k]
          /\ balancers'[Len(balancers) + 1] = wire
      BY <1>4, <1>5, <3>1
    <3> QED  BY <1>4, <2>2, <3>2
  <2> QED  BY <2>1, <2>2
<1>8. /\ rules' \in Seq(Rule) /\ DOMAIN rules' = DOMAIN rules
      /\ \A j \in DOMAIN rules :
           /\ rules'[j].out = rules[j].out
           /\ rules'[j].bal = IF old # NoTag /\ rules[j].bal = old THEN wire.tag ELSE rules[j].bal
  <2>1. CASE old # NoTag
    <3>1. rules' = [j \in DOMAIN rules |-> [rules[j] EXCEPT !.bal = Follow(@, old, wire.tag)]]
      BY <1>2, <2>1
    <3>2. ASSUME NEW r \in Rule
          PROVE  /\ [r EXCEPT !.bal = Follow(@, old, wire.tag)] \in Rule
                 /\ [r EXCEPT !.bal = Follow(@, old, wire.tag)].out = r.out
                 /\ [r EXCEPT !.bal = Follow(@, old, wire.tag)].bal =
                      IF r.bal = old THEN wire.tag ELSE r.bal
      BY <1>5 DEF Rule, Follow
    <3> HIDE DEF old
    <3>3. rules' \in Seq(Rule)
      BY <1>4, <3>1, <3>2
    <3> QED  BY <1>4, <2>1, <3>1, <3>2, <3>3
  <2>2. CASE old = NoTag
    BY <1>2, <1>4, <2>2
  <2> QED  BY <2>1, <2>2
<1>9. TypeOK'
  BY <1>1, <1>2, <1>3, <1>7, <1>8 DEF TypeOK
<1>10. ASSUME NEW t \in TagsOf(balancers), t # old PROVE t \in TagsOf(balancers')
  <2>1. PICK k \in DOMAIN balancers : t = balancers[k].tag
    BY DEF TagsOf
  <2>2. k # i
    BY <1>10, <2>1
  <2>3. k \in DOMAIN balancers' /\ balancers'[k] = balancers[k]
    BY <1>7, <2>1, <2>2
  <2> QED  BY <2>1, <2>3 DEF TagsOf
<1>11. wire.tag \in TagsOf(balancers')
  BY <1>7 DEF TagsOf
<1>12. Checked' => BalsResolve(rules, balancers)'
  <2> SUFFICES ASSUME Checked', NEW j \in DOMAIN rules
               PROVE  rules'[j].bal \in {NoTag} \cup TagsOf(balancers')
    BY <1>8 DEF BalsResolve
  <2>1. rules[j].bal \in {NoTag} \cup TagsOf(balancers)
    BY <1>1, <1>3, ReferencesByList DEF BalsResolve
  <2>2. NoTag \notin TagsOf(balancers)
    BY <1>4, TemplateAssumption DEF TagsOf, Balancer
  <2> HIDE DEF old
  <2> QED  BY <1>8, <1>10, <1>11, <2>1, <2>2
<1>13. Untouched' => /\ OutsResolve(rules, outbounds)'
                     /\ FallbacksResolve(balancers, outbounds)'
                     /\ DialersResolve(outbounds)'
                     /\ Unique(outbounds)' /\ Unique(balancers)'
  <2> SUFFICES ASSUME Untouched'
               PROVE  /\ OutsResolve(rules, outbounds)'
                      /\ FallbacksResolve(balancers, outbounds)'
                      /\ DialersResolve(outbounds)'
                      /\ Unique(outbounds)' /\ Unique(balancers)'
    OBVIOUS
  <2>1. /\ OutsResolve(rules, outbounds) /\ FallbacksResolve(balancers, outbounds)
        /\ DialersResolve(outbounds) /\ Unique(outbounds) /\ Unique(balancers) /\ Untouched
    BY <1>1, <1>3, ReferencesByList
  <2>2. outbounds' = outbounds
    BY <1>2
  <2>3. OutsResolve(rules, outbounds)'
    BY <1>8, <2>1, <2>2 DEF OutsResolve, TagsOf
  <2>4. FallbacksResolve(balancers, outbounds)'
    <3>1. TagsOf(outbounds)' = TagsOf(outbounds)
      BY <2>2 DEF TagsOf
    <3> QED  BY <1>6, <1>7, <2>1, <3>1 DEF FallbacksResolve
  <2>5. DialersResolve(outbounds)' /\ Unique(outbounds)'
    BY <2>1, <2>2 DEF DialersResolve, Unique, TagsOf
  <2>6. Unique(balancers)'
    <3>1. ASSUME NEW k \in DOMAIN balancers', NEW l \in DOMAIN balancers',
                 balancers'[k].tag = balancers'[l].tag
          PROVE  k = l
      <4>1. \A j \in DOMAIN balancers : j # i => balancers[j].tag # wire.tag
        BY <1>2
      <4> QED  BY <1>7, <2>1, <3>1, <4>1 DEF Unique
    <3> QED  BY <3>1 DEF Unique
  <2> QED  BY <2>3, <2>4, <2>5, <2>6
<1>14. ObserversMatch' /\ SubjectsFollow'
  BY <1>2, SyncedObservers
<1> QED  BY <1>9, <1>12, <1>13, <1>14, ReferencesByListNext

LEMMA BalancerDeleteKeeps ==
  ASSUME TemplateInv, BalancerDeleteOk
  PROVE  TypeOK' /\ ReferencesResolve'
<1>1. applyBalancerDeletion(dialog.at) /\ taint' = Synced
  BY DEF BalancerDeleteOk
<1>2. CASE dialog.at \in DOMAIN balancers
  BY <1>1, <1>2, CleanupKeeps DEF applyBalancerDeletion
<1>3. CASE dialog.at \notin DOMAIN balancers
  BY <1>1, <1>3, SyncKeeps DEF applyBalancerDeletion
<1> QED  BY <1>2, <1>3
-----------------------------------------------------------------------------
(* The dialogs of WARP and NordVPN, and the page *)

\* The row that the answer overwrites is the WARP outbound, or the answer came
\* too late.
LEMMA ChangeIpKeeps ==
  ASSUME TemplateInv, changeIp
  PROVE  TypeOK' /\ ReferencesResolve'
<1> DEFINE i == request.at
           row == [tag |-> Warp, dialer |-> NoTag]
           stale == i > 0 /\ (i \notin DOMAIN outbounds \/ outbounds[i].tag # Warp)
<1>1. /\ TypeOK /\ ReferencesResolve /\ i \in Nat
      /\ outbounds \in Seq(Outbound) /\ DOMAIN outbounds = 1..Len(outbounds)
      /\ Len(outbounds) \in Nat
  BY DEF TemplateInv, DialogTypes, TypeOK
<1>2. /\ outbounds' = CASE i = 0 -> outbounds
                        [] i \in DOMAIN outbounds -> [outbounds EXCEPT ![i] = row]
                        [] OTHER -> Append(outbounds, row)
      /\ taint' = taint \cup (IF Free THEN {} ELSE {"late"})
                        \cup (IF stale THEN {"late"} ELSE {})
      /\ UNCHANGED <<routing, observers>>
  BY DEF changeIp, Answered, Written
<1>3. row \in Outbound /\ row.tag = Warp /\ row.dialer = NoTag
  BY TemplateAssumption DEF Outbound
<1>4. taint \subseteq taint' /\ taint' \subseteq Taints
  BY <1>1, <1>2 DEF TypeOK, Taints
<1>5. Untouched' => ~ stale /\ DialersResolve(outbounds) /\ Unique(outbounds)
  <2>1. Untouched' => Untouched
    BY <1>4 DEF Untouched
  <2>2. Untouched' => ~ stale
    BY <1>2 DEF Untouched
  <2> QED  BY <1>1, <2>1, <2>2, ReferencesByList
<1> HIDE DEF row
<1>6. CASE i = 0
  <2>1. outbounds' = outbounds
    BY <1>2, <1>6
  <2> QED  BY <1>1, <1>2, <1>4, <1>5, <2>1, OutboundsChange
<1>7. CASE i \in DOMAIN outbounds /\ outbounds[i].tag = Warp
  <2>1. outbounds' = [outbounds EXCEPT ![i] = row]
    BY <1>1, <1>2, <1>7
  <2>2. /\ outbounds' \in Seq(Outbound) /\ TagsOf(outbounds') = TagsOf(outbounds)
        /\ Unique(outbounds) => Unique(outbounds')
        /\ DialersResolve(outbounds) => DialersResolve(outbounds')
    BY <1>1, <1>3, <1>7, <2>1, ReplacedRow
  <2> QED  BY <1>2, <1>4, <1>5, <2>2, OutboundsChange
<1>8. CASE i # 0 /\ (i \notin DOMAIN outbounds \/ outbounds[i].tag # Warp)
  <2>1. ~ Untouched'
    BY <1>1, <1>5, <1>8
  <2>2. outbounds' = [outbounds EXCEPT ![i] = row] \/ outbounds' = Append(outbounds, row)
    BY <1>2, <1>8
  <2>3. outbounds' \in Seq(Outbound)
    BY <1>1, <1>3, <2>2
  <2> QED  BY <1>2, <1>4, <2>1, <2>3, OutboundsChange
<1> QED  BY <1>6, <1>7, <1>8

LEMMA DelConfigKeeps ==
  ASSUME TemplateInv, delConfig
  PROVE  TypeOK' /\ ReferencesResolve'
<1> DEFINE i == FirstIndex({Warp})
<1>1. TypeOK /\ outbounds \in Seq(Outbound) /\ DOMAIN outbounds = 1..Len(outbounds)
  BY DEF TemplateInv, TypeOK
<1>2. /\ outbounds' = IF i > 0 THEN RemoveAt(outbounds, i) ELSE outbounds
      /\ taint \subseteq taint' /\ "loose" \in taint' /\ taint' \subseteq Taints
      /\ UNCHANGED <<routing, observers>>
  BY <1>1 DEF delConfig, Answered, TypeOK, Taints
<1>3. i > 0 => i \in DOMAIN outbounds
  BY <1>1, FirstIndexFinds
<1> HIDE DEF i
<1>4. i > 0 => RemoveAt(outbounds, i) \in Seq(Outbound)
  BY <1>1, <1>3, RemoveAtSelects
<1>5. outbounds' \in Seq(Outbound)
  BY <1>1, <1>2, <1>4
<1>6. ~ Untouched'
  BY <1>2 DEF Untouched
<1> QED  BY <1>2, <1>5, <1>6, OutboundsChange

LEMMA LogoutKeeps ==
  ASSUME TemplateInv, logout
  PROVE  TypeOK' /\ ReferencesResolve'
<1> DEFINE i == request.at
           kept == {j \in DOMAIN rules : rules[j].out \notin NordTags}
<1>1. TypeOK /\ ReferencesResolve /\ outbounds \in Seq(Outbound) /\ rules \in Seq(Rule)
  BY DEF TemplateInv, TypeOK
<1>2. /\ outbounds' = IF i \in DOMAIN outbounds THEN RemoveAt(outbounds, i) ELSE outbounds
      /\ rules' = RowsAt(rules, kept)
      /\ taint \subseteq taint' /\ "loose" \in taint' /\ taint' \subseteq Taints
      /\ UNCHANGED <<balancers, observers>>
  BY <1>1 DEF logout, Answered, TypeOK, Taints
<1>3. kept \in SUBSET DOMAIN rules
  OBVIOUS
<1> HIDE DEF kept, i
<1>4. /\ rules' \in Seq(Rule)
      /\ \A k \in DOMAIN rules' : Nth(kept, k) \in kept /\ rules'[k] = rules[Nth(kept, k)]
  BY <1>1, <1>2, <1>3, RowsAtSelects
<1>5. i \in DOMAIN outbounds => RemoveAt(outbounds, i) \in Seq(Outbound)
  BY <1>1, RemoveAtSelects
<1>6. outbounds' \in Seq(Outbound)
  BY <1>1, <1>2, <1>5
<1>7. Checked' => BalsResolve(rules', balancers)
  <2>1. Checked' => Checked
    BY <1>2 DEF Checked
  <2> QED  BY <1>1, <1>3, <1>4, <2>1, ReferencesByList DEF BalsResolve
<1> QED  BY <1>2, <1>4, <1>6, <1>7, LooseChange

LEMMA AddVendorKeeps ==
  ASSUME TemplateInv, NEW tags, NEW tag \in tags, tag \in OutTags,
         AddVendorOutbound(tag, tags)
  PROVE  TypeOK' /\ ReferencesResolve'
<1> DEFINE row == [tag |-> tag, dialer |-> NoTag]
<1>1. TypeOK /\ ReferencesResolve /\ outbounds \in Seq(Outbound)
  BY DEF TemplateInv, TypeOK
<1>2. /\ FirstIndex(tags) = 0 /\ outbounds' = Append(outbounds, row)
      /\ UNCHANGED <<routing, observers>> /\ taint' = taint
  BY DEF AddVendorOutbound
<1>3. row \in Outbound /\ row.tag = tag /\ row.dialer = NoTag
  BY DEF Outbound
<1>4. row.tag \notin TagsOf(outbounds)
  <2>1. 0 \notin DOMAIN outbounds
    BY <1>1
  <2>2. \A i \in DOMAIN outbounds : outbounds[i].tag \notin tags
    BY <1>1, <1>2, <2>1, FirstIndexFinds
  <2> QED  BY <1>3, <2>2 DEF TagsOf
<1> HIDE DEF row
<1>5. /\ outbounds' \in Seq(Outbound)
      /\ TagsOf(outbounds') = TagsOf(outbounds) \cup {row.tag}
      /\ Unique(outbounds) => Unique(outbounds')
      /\ DialersResolve(outbounds) => DialersResolve(outbounds')
  BY <1>1, <1>2, <1>3, <1>4, AppendedRow
<1>6. Untouched' => DialersResolve(outbounds) /\ Unique(outbounds)
  BY <1>1, <1>2, ReferencesByList DEF Untouched
<1>7. taint' \subseteq Taints
  BY <1>1, <1>2 DEF TypeOK
<1> QED  BY <1>2, <1>5, <1>6, <1>7, OutboundsChange

LEMMA WarpResetKeeps ==
  ASSUME TemplateInv, WarpReset
  PROVE  TypeOK' /\ ReferencesResolve'
<1> DEFINE i == FirstIndex({Warp})
           row == [outbounds[i] EXCEPT !.dialer = NoTag]
<1>1. TypeOK /\ ReferencesResolve /\ outbounds \in Seq(Outbound)
  BY DEF TemplateInv, TypeOK
<1>2. /\ i > 0 /\ outbounds' = [outbounds EXCEPT ![i].dialer = NoTag]
      /\ UNCHANGED <<routing, observers>> /\ taint' = taint
  BY DEF WarpReset
<1>3. i \in DOMAIN outbounds
  BY <1>1, <1>2, FirstIndexFinds
<1> HIDE DEF i
<1>4. outbounds[i] \in Outbound
  BY <1>1, <1>3
<1>5. row \in Outbound /\ row.tag = outbounds[i].tag /\ row.dialer = NoTag
  BY <1>4 DEF Outbound
<1>6. outbounds' = [outbounds EXCEPT ![i] = row]
  BY <1>2
<1> HIDE DEF row
<1>7. /\ outbounds' \in Seq(Outbound) /\ TagsOf(outbounds') = TagsOf(outbounds)
      /\ Unique(outbounds) => Unique(outbounds')
      /\ DialersResolve(outbounds) => DialersResolve(outbounds')
  BY <1>1, <1>3, <1>5, <1>6, ReplacedRow
<1>8. Untouched' => DialersResolve(outbounds) /\ Unique(outbounds)
  BY <1>1, <1>2, ReferencesByList DEF Untouched
<1>9. taint' \subseteq Taints
  BY <1>1, <1>2 DEF TypeOK
<1> QED  BY <1>2, <1>7, <1>8, <1>9, OutboundsChange

LEMMA NordResetKeeps ==
  ASSUME TemplateInv, NEW tag \in NordTags, NordReset(tag)
  PROVE  TypeOK' /\ ReferencesResolve'
<1> DEFINE i == FirstIndex(NordTags)
           row == [tag |-> tag, dialer |-> NoTag]
           loose == IF \E j \in DOMAIN outbounds \ {i} : outbounds[j].tag = tag
                    THEN {"loose"} ELSE {}
<1>1. TypeOK /\ outbounds \in Seq(Outbound)
  BY DEF TemplateInv, TypeOK
<1>2. /\ i > 0
      /\ propagateOutboundTagRename([outbounds EXCEPT ![i] = row], outbounds[i].tag, tag)
      /\ taint' = taint \cup ({"renamed"} \cup loose)
      /\ UNCHANGED observers
  BY DEF NordReset, Taint
<1>3. i \in DOMAIN outbounds
  BY <1>1, <1>2, FirstIndexFinds
<1>4. row \in Outbound /\ row.tag = tag /\ row.dialer = NoTag
  BY TemplateAssumption DEF Outbound
<1>5. Untouched' => \A j \in DOMAIN outbounds \ {i} : outbounds[j].tag # tag
  BY <1>2 DEF Untouched
<1>6. "renamed" \in taint' /\ taint \subseteq taint' /\ taint' \subseteq Taints
  BY <1>1, <1>2 DEF TypeOK, Taints
<1> HIDE DEF i, row
<1> QED  BY <1>2, <1>3, <1>4, <1>5, <1>6, RenameKeeps

LEMMA AdvancedKeeps ==
  ASSUME TemplateInv,
         AdvancedOutbounds(<<>>) \/ AdvancedRules(<<>>) \/ AdvancedTemplate(<<>>)
  PROVE  TypeOK' /\ ReferencesResolve'
<1>1. TypeOK /\ ReferencesResolve
  BY DEF TemplateInv
<1>2. CASE AdvancedOutbounds(<<>>)
  <2>1. /\ outbounds' = <<>> /\ taint' = taint \cup {"raw"}
        /\ UNCHANGED <<routing, observers>>
    BY <1>2 DEF AdvancedOutbounds, Taint
  <2>2. ~ Untouched' /\ taint \subseteq taint' /\ taint' \subseteq Taints
    BY <1>1, <2>1 DEF Untouched, TypeOK, Taints
  <2> QED  BY <2>1, <2>2, OutboundsChange
<1>3. CASE AdvancedRules(<<>>)
  <2>1. /\ rules' = <<>> /\ taint' = taint \cup {"raw"}
        /\ UNCHANGED <<outbounds, balancers, observers>>
    BY <1>3 DEF AdvancedRules, Taint
  <2>2. /\ ~ Untouched' /\ ~ Checked' /\ taint \subseteq taint' /\ taint' \subseteq Taints
    BY <1>1, <2>1 DEF Untouched, Checked, TypeOK, Taints
  <2> QED  BY <2>1, <2>2, RulesChange
<1>4. CASE AdvancedTemplate(<<>>)
  <2>1. /\ balancers' = <<>> /\ taint' = taint \cup {"rawAll"}
        /\ UNCHANGED <<outbounds, rules, observers>>
    BY <1>4 DEF AdvancedTemplate, Taint
  <2>2. ~ Untouched' /\ ~ Checked' /\ "rawAll" \in taint'
    BY <2>1 DEF Untouched, Checked
  <2>3. TypeOK'
    BY <1>1, <2>1 DEF TypeOK, Taints
  <2>4. ObserversMatch' /\ SubjectsFollow'
    BY <2>2 DEF ObserversMatch, SubjectsFollow
  <2> QED  BY <2>2, <2>3, <2>4, ReferencesByListNext
<1> QED  BY <1>2, <1>3, <1>4

\* The default template refers to what it has.
LEMMA DefaultResolves ==
  /\ OutsResolve(DefaultRules, DefaultOutbounds) /\ BalsResolve(DefaultRules, <<>>)
  /\ FallbacksResolve(<<>>, DefaultOutbounds) /\ DialersResolve(DefaultOutbounds)
  /\ Unique(DefaultOutbounds) /\ Unique(<<>>)
  /\ SyncedBurst(<<>>) = NoObserver /\ SyncedObservatory(<<>>) = NoObserver
<1>1. ToSet(<<>>) = {}
  BY DEF ToSet
<1>2. SyncedBurst(<<>>) = NoObserver /\ SyncedObservatory(<<>>) = NoObserver
  BY <1>1 DEF SyncedBurst, SyncedObservatory
<1> QED  BY <1>2, DefaultsAssumption DEF OutsResolve, BalsResolve, FallbacksResolve,
                                         DialersResolve, Unique

LEMMA ResetKeeps ==
  ASSUME TemplateInv, resetToDefault
  PROVE  TypeOK' /\ ReferencesResolve'
<1>1. /\ outbounds' = DefaultOutbounds /\ rules' = DefaultRules /\ balancers' = <<>>
      /\ observatory' = NoObserver /\ burst' = NoObserver
      /\ taint' = IF Free THEN {} ELSE {"late"}
  BY DEF resetToDefault
<1>2. TypeOK'
  BY <1>1, DefaultsAssumption DEF TypeOK, Taints
<1>3. /\ OutsResolve(rules, outbounds)' /\ BalsResolve(rules, balancers)'
      /\ FallbacksResolve(balancers, outbounds)' /\ DialersResolve(outbounds)'
      /\ Unique(outbounds)' /\ Unique(balancers)'
  BY <1>1, DefaultResolves DEF OutsResolve, BalsResolve, FallbacksResolve, DialersResolve,
                               Unique, TagsOf
<1>4. ObserversMatch' /\ SubjectsFollow'
  BY <1>1, DefaultResolves DEF ObserversMatch, SubjectsFollow
<1> QED  BY <1>2, <1>3, <1>4, ReferencesByListNext
-----------------------------------------------------------------------------
(* What an open dialog holds stays true *)

LEMMA DialogGone ==
  ASSUME TemplateInv, dialog' = NoDialog, request' \in {request, NoRequest}
  PROVE  DialogTypes' /\ DialogFresh'
<1>1. dialog'.kind = "none" /\ request'.at \in Nat
  BY DEF NoDialog, NoRequest, TemplateInv, DialogTypes
<1> QED  BY <1>1 DEF DialogTypes, DialogFresh, PlanFresh

\* A dialog that stays open saw no change, or the answer that made it is noted.
LEMMA DialogStays ==
  ASSUME TemplateInv, dialog' = dialog, request'.at \in Nat,
         Free \/ "late" \in taint' \/ UNCHANGED <<outbounds, routing, observers, taint>>
  PROVE  DialogTypes' /\ DialogFresh'
<1>1. DialogTypes /\ DialogFresh
  BY DEF TemplateInv
<1>2. DialogTypes'
  BY <1>1 DEF DialogTypes
<1>3. CASE Free
  <2>1. dialog'.kind = "none"
    BY <1>3 DEF Free, NoDialog
  <2> QED  BY <1>2, <2>1 DEF DialogFresh, PlanFresh
<1>4. CASE "late" \in taint'
  BY <1>2, <1>4 DEF DialogFresh
<1>5. CASE UNCHANGED <<outbounds, routing, observers, taint>>
  <2>1. UNCHANGED <<outbounds, rules, balancers, observatory, burst, taint>>
    BY <1>5 DEF routing, observers
  <2>2. planOutboundDeletion(dialog.at)' = planOutboundDeletion(dialog.at)
    BY <2>1 DEF planOutboundDeletion, Impact, balancersEmptiedBy, ruleImpacts, ToSet,
                SyncedBurst, SyncedObservatory, CleanBalancers
  <2>3. planBalancerDeletion(dialog.at)' = planBalancerDeletion(dialog.at)
    BY <2>1 DEF planBalancerDeletion, Impact, ruleImpacts,
                SyncedBurst, SyncedObservatory, CleanBalancers
  <2>4. UNCHANGED <<dialog, outbounds, rules, balancers, taint>>
    BY <2>1
  <2> QED
    BY <1>1, <1>2, <2>2, <2>3, <2>4
       DEF DialogFresh, PlanFresh, OutboundFormFresh, RuleFormFresh, BalancerFormFresh, TagsOf
<1> QED  BY <1>3, <1>4, <1>5

\* What a dialog reads when it is opened.
LEMMA OpenedFresh ==
  ASSUME TemplateInv,
         \/ OpenOutboundAdd
         \/ \E i \in DOMAIN outbounds : OpenOutboundEdit(i) \/ OpenOutboundDelete(i)
         \/ \E i \in DOMAIN rules \cup {0} : OpenRule(i)
         \/ \E i \in DOMAIN rules : OpenRuleDelete(i)
         \/ \E i \in DOMAIN balancers \cup {0} : OpenBalancer(i)
         \/ \E i \in DOMAIN balancers : OpenBalancerDelete(i)
  PROVE  /\ DialogTypes' /\ DialogFresh'
         /\ UNCHANGED <<outbounds, routing, observers, taint>>
<1>1. /\ \A i \in DOMAIN outbounds : outbounds[i] \in Outbound
      /\ \A i \in DOMAIN rules : rules[i] \in Rule
      /\ \A i \in DOMAIN balancers : balancers[i] \in Balancer
      /\ request.at \in Nat
      /\ 0 \notin DOMAIN rules /\ 0 \notin DOMAIN balancers
  BY DEF TemplateInv, TypeOK, DialogTypes
<1>2. UNCHANGED <<outbounds, routing, observers, taint, request>>
  BY DEF OpenOutboundAdd, OpenOutboundEdit, OpenOutboundDelete, OpenRule, OpenRuleDelete,
         OpenBalancer, OpenBalancerDelete, Open
<1>3. UNCHANGED <<outbounds, rules, balancers, observatory, burst>> /\ request'.at \in Nat
  BY <1>1, <1>2 DEF routing, observers
<1>4. CASE OpenOutboundAdd
  <2>1. dialog' = [kind |-> "outbound", at |-> 0, tag |-> NoTag, dialer |-> NoTag,
                   taken |-> TagsOf(outbounds)]
    BY <1>4 DEF OpenOutboundAdd, Open
  <2>2. /\ dialog'.kind = "outbound" /\ dialog'.at = 0 /\ dialog'.tag = NoTag
        /\ dialog'.dialer = NoTag /\ dialog'.taken = TagsOf(outbounds)
    BY <2>1
  <2>3. DialogTypes'
    BY <1>3, <2>2 DEF DialogTypes
  <2>4. DialogFresh'
    BY <1>3, <2>2 DEF DialogFresh, OutboundFormFresh, PlanFresh, TagsOf
  <2> QED  BY <1>2, <2>3, <2>4
<1>5. ASSUME NEW i \in DOMAIN outbounds, OpenOutboundEdit(i)
      PROVE  DialogTypes' /\ DialogFresh'
  <2>1. dialog' = [kind |-> "outbound", at |-> i, tag |-> outbounds[i].tag,
                   dialer |-> outbounds[i].dialer,
                   taken |-> {outbounds[j].tag : j \in DOMAIN outbounds \ {i}}]
    BY <1>5 DEF OpenOutboundEdit, Open
  <2>2. /\ dialog'.kind = "outbound" /\ dialog'.at = i /\ dialog'.tag = outbounds[i].tag
        /\ dialog'.dialer = outbounds[i].dialer
        /\ dialog'.taken = {outbounds[j].tag : j \in DOMAIN outbounds \ {i}}
    BY <2>1
  <2>3. DialogTypes'
    BY <1>1, <1>3, <2>2 DEF DialogTypes, Outbound
  <2>4. DialogFresh'
    BY <1>3, <2>2 DEF DialogFresh, OutboundFormFresh, PlanFresh
  <2> QED  BY <2>3, <2>4
<1>6. ASSUME NEW i \in DOMAIN outbounds, OpenOutboundDelete(i)
      PROVE  DialogTypes' /\ DialogFresh'
  <2>1. dialog' = [kind |-> "delOutbound", at |-> i, plan |-> planOutboundDeletion(i)]
    BY <1>6 DEF OpenOutboundDelete, Open
  <2>2. /\ dialog'.kind = "delOutbound" /\ dialog'.at = i
        /\ dialog'.plan = planOutboundDeletion(i)
    BY <2>1
  <2>3. planOutboundDeletion(dialog.at)' = planOutboundDeletion(i)
    <3>1. \A outs : balancersEmptiedBy(outs)' = balancersEmptiedBy(outs)
      BY <1>3 DEF balancersEmptiedBy, ToSet
    <3>2. \A outs, bals : Impact(outs, bals)' = Impact(outs, bals)
      BY <1>3 DEF Impact, ruleImpacts, SyncedBurst, SyncedObservatory, CleanBalancers
    <3>3. outbounds'[dialog'.at] = outbounds[i]
      BY <1>3, <2>2
    <3>4. PICK outs, bals : outs = {outbounds[i].tag} /\ bals = balancersEmptiedBy(outs)
      OBVIOUS
    <3>5. planOutboundDeletion(dialog.at)' = Impact(outs, bals)'
      BY <3>1, <3>3, <3>4 DEF planOutboundDeletion
    <3>6. planOutboundDeletion(i) = Impact(outs, bals)
      BY <3>4 DEF planOutboundDeletion
    <3> QED  BY <3>2, <3>5, <3>6
  <2>4. DialogTypes'
    BY <1>3, <2>2 DEF DialogTypes
  <2>5. DialogFresh'
    BY <1>3, <2>2, <2>3 DEF DialogFresh, PlanFresh
  <2> QED  BY <2>4, <2>5
<1>7. ASSUME NEW i \in DOMAIN rules \cup {0}, OpenRule(i)
      PROVE  DialogTypes' /\ DialogFresh'
  <2>1. dialog' = IF i = 0 THEN [kind |-> "rule", at |-> 0, out |-> NoTag, bal |-> NoTag]
                  ELSE [kind |-> "rule", at |-> i, out |-> rules[i].out, bal |-> rules[i].bal]
    BY <1>7 DEF OpenRule, Open
  <2>2. /\ dialog'.kind = "rule"
        /\ \/ dialog'.at = 0 /\ dialog'.out = NoTag /\ dialog'.bal = NoTag
           \/ /\ dialog'.at \in DOMAIN rules
              /\ dialog'.out = rules[dialog'.at].out /\ dialog'.bal = rules[dialog'.at].bal
    BY <2>1
  <2>3. DialogTypes'
    BY <1>1, <1>3, <2>2 DEF DialogTypes, Rule
  <2>4. DialogFresh'
    BY <1>3, <2>2 DEF DialogFresh, RuleFormFresh, PlanFresh
  <2> QED  BY <2>3, <2>4
<1>8. ASSUME NEW i \in DOMAIN rules, OpenRuleDelete(i)
      PROVE  DialogTypes' /\ DialogFresh'
  <2>1. dialog'.kind = "delRule"
    BY <1>8 DEF OpenRuleDelete, Open
  <2> QED  BY <1>3, <2>1 DEF DialogTypes, DialogFresh, PlanFresh
<1>9. ASSUME NEW i \in DOMAIN balancers \cup {0}, OpenBalancer(i)
      PROVE  DialogTypes' /\ DialogFresh'
  <2>1. dialog' = IF i = 0 THEN [kind |-> "balancer", at |-> 0, fb |-> NoTag]
                  ELSE [kind |-> "balancer", at |-> i, fb |-> balancers[i].fb]
    BY <1>9 DEF OpenBalancer, Open
  <2>2. /\ dialog'.kind = "balancer"
        /\ \/ dialog'.at = 0 /\ dialog'.fb = NoTag
           \/ dialog'.at \in DOMAIN balancers /\ dialog'.fb = balancers[dialog'.at].fb
    BY <2>1
  <2>3. DialogTypes'
    BY <1>1, <1>3, <2>2 DEF DialogTypes, Balancer
  <2>4. DialogFresh'
    BY <1>3, <2>2 DEF DialogFresh, BalancerFormFresh, PlanFresh
  <2> QED  BY <2>3, <2>4
<1>10. ASSUME NEW i \in DOMAIN balancers, OpenBalancerDelete(i)
       PROVE  DialogTypes' /\ DialogFresh'
  <2>1. dialog' = [kind |-> "delBalancer", at |-> i, plan |-> planBalancerDeletion(i)]
    BY <1>10 DEF OpenBalancerDelete, Open
  <2>2. /\ dialog'.kind = "delBalancer" /\ dialog'.at = i
        /\ dialog'.plan = planBalancerDeletion(i)
    BY <2>1
  <2>3. planBalancerDeletion(dialog.at)' = planBalancerDeletion(i)
    BY <1>3, <2>2
       DEF planBalancerDeletion, Impact, ruleImpacts,
           SyncedBurst, SyncedObservatory, CleanBalancers
  <2>4. DialogTypes'
    BY <1>3, <2>2 DEF DialogTypes
  <2>5. DialogFresh'
    BY <1>3, <2>2, <2>3 DEF DialogFresh, PlanFresh
  <2> QED  BY <2>4, <2>5
<1> QED  BY <1>2, <1>4, <1>5, <1>6, <1>7, <1>8, <1>9, <1>10
-----------------------------------------------------------------------------
(* The invariant *)

LEMMA TemplateInvInit == Init => TemplateInv
<1> SUFFICES ASSUME Init PROVE TemplateInv
  OBVIOUS
<1>1. /\ outbounds = DefaultOutbounds /\ rules = DefaultRules /\ balancers = <<>>
      /\ observatory = NoObserver /\ burst = NoObserver /\ taint = {}
      /\ dialog.kind = "none" /\ request.at = 0
  BY DEF Init, NoDialog, NoRequest
<1>2. TypeOK
  BY <1>1, DefaultsAssumption DEF TypeOK
<1>3. DialogTypes /\ DialogFresh
  BY <1>1 DEF DialogTypes, DialogFresh, PlanFresh
<1>4. ReferencesResolve
  BY <1>1, DefaultResolves, ReferencesByList DEF ObserversMatch, SubjectsFollow
<1> QED  BY <1>2, <1>3, <1>4 DEF TemplateInv

LEMMA OpenedKeeps ==
  ASSUME TemplateInv,
         \/ OpenOutboundAdd
         \/ \E i \in DOMAIN outbounds : OpenOutboundEdit(i) \/ OpenOutboundDelete(i)
         \/ \E i \in DOMAIN rules \cup {0} : OpenRule(i)
         \/ \E i \in DOMAIN rules : OpenRuleDelete(i)
         \/ \E i \in DOMAIN balancers \cup {0} : OpenBalancer(i)
         \/ \E i \in DOMAIN balancers : OpenBalancerDelete(i)
  PROVE  TemplateInv'
<1>1. /\ DialogTypes' /\ DialogFresh'
      /\ UNCHANGED <<outbounds, routing, observers, taint>>
  BY OpenedFresh
<1>2. TypeOK' /\ ReferencesResolve'
  BY <1>1, TemplateStays
<1> QED  BY <1>1, <1>2 DEF TemplateInv

LEMMA RequestAt == ASSUME TemplateInv PROVE request.at \in Nat /\ NoRequest.at \in Nat
BY DEF TemplateInv, DialogTypes, NoRequest

LEMMA OutboundStepKeeps ==
  ASSUME TemplateInv, OutboundStep
  PROVE  TemplateInv'
<1>1. CASE \/ OpenOutboundAdd
           \/ \E i \in DOMAIN outbounds : OpenOutboundEdit(i) \/ OpenOutboundDelete(i)
  BY <1>1, OpenedKeeps
<1>2. ASSUME NEW c \in OutboundChoices, OutboundConfirm(c[1], c[2])
      PROVE  TemplateInv'
  <2>1. c[1] \in FormTags \cup {Keep} /\ c[2] \in Picked \cup {NoTag, Keep}
    BY DEF OutboundChoices
  <2>2. TypeOK' /\ ReferencesResolve'
    BY <1>2, <2>1, OutboundConfirmKeeps
  <2>3. dialog' = NoDialog /\ request' = request
    BY <1>2 DEF OutboundConfirm, Close
  <2> QED  BY <2>2, <2>3, DialogGone DEF TemplateInv
<1>3. CASE OutboundDeleteOk
  <2>1. dialog' = NoDialog /\ request' = request
    BY <1>3 DEF OutboundDeleteOk, Close
  <2> QED  BY <1>3, <2>1, DialogGone, OutboundDeleteKeeps DEF TemplateInv
<1>4. ASSUME NEW i \in DOMAIN outbounds, NEW op \in {"first", "up", "down"}, OutboundMove(i, op)
      PROVE  TemplateInv'
  <2>1. Free /\ dialog' = dialog /\ request' = request
    BY <1>4 DEF OutboundMove
  <2> QED  BY <1>4, <2>1, DialogStays, RequestAt, OutboundMoveKeeps DEF TemplateInv
<1>5. ASSUME NEW row \in Pasted.outbounds, importOutbounds(row)
      PROVE  TemplateInv'
  <2>1. Free /\ dialog' = dialog /\ request' = request
    BY <1>5 DEF importOutbounds
  <2> QED  BY <1>5, <2>1, DialogStays, RequestAt, ImportOutboundsKeeps DEF TemplateInv
<1> QED  BY <1>1, <1>2, <1>3, <1>4, <1>5 DEF OutboundStep

LEMMA RuleStepKeeps ==
  ASSUME TemplateInv, RuleStep
  PROVE  TemplateInv'
<1>1. CASE \/ \E i \in DOMAIN rules \cup {0} : OpenRule(i)
           \/ \E i \in DOMAIN rules : OpenRuleDelete(i)
  BY <1>1, OpenedKeeps
<1>2. ASSUME NEW c \in RuleChoices, RuleConfirm(c[1], c[2])
      PROVE  TemplateInv'
  <2>1. dialog' = NoDialog /\ request' = request
    BY <1>2 DEF RuleConfirm, Close
  <2> QED  BY <1>2, <2>1, DialogGone, RuleConfirmKeeps DEF TemplateInv
<1>3. CASE RuleDeleteOk
  <2>1. dialog' = NoDialog /\ request' = request
    BY <1>3 DEF RuleDeleteOk, Close
  <2> QED  BY <1>3, <2>1, DialogGone, RuleDeleteKeeps DEF TemplateInv
<1>4. ASSUME NEW r \in Pasted.rules, importRules(r)
      PROVE  TemplateInv'
  <2>1. Free /\ dialog' = dialog /\ request' = request
    BY <1>4 DEF importRules
  <2> QED  BY <1>4, <2>1, DialogStays, RequestAt, ImportRulesKeeps DEF TemplateInv
<1>5. ASSUME NEW tag \in BlockTags \cup SyncTags, NEW given \in BOOLEAN, BasicRouting(tag, given)
      PROVE  TemplateInv'
  <2>1. Free /\ dialog' = dialog /\ request' = request
    BY <1>5 DEF BasicRouting
  <2> QED  BY <1>5, <2>1, DialogStays, RequestAt, BasicRoutingKeeps DEF TemplateInv
<1> QED  BY <1>1, <1>2, <1>3, <1>4, <1>5 DEF RuleStep

LEMMA BalancerStepKeeps ==
  ASSUME TemplateInv, BalancerStep
  PROVE  TemplateInv'
<1>1. CASE \/ \E i \in DOMAIN balancers \cup {0} : OpenBalancer(i)
           \/ \E i \in DOMAIN balancers : OpenBalancerDelete(i)
  BY <1>1, OpenedKeeps
<1>2. ASSUME NEW form \in BalancerForms, BalancerConfirm(form)
      PROVE  TemplateInv'
  <2>1. dialog' = NoDialog /\ request' = request
    BY <1>2 DEF BalancerConfirm, Close
  <2> QED  BY <1>2, <2>1, DialogGone, BalancerConfirmKeeps DEF TemplateInv
<1>3. CASE BalancerDeleteOk
  <2>1. dialog' = NoDialog /\ request' = request
    BY <1>3 DEF BalancerDeleteOk, Close
  <2> QED  BY <1>3, <2>1, DialogGone, BalancerDeleteKeeps DEF TemplateInv
<1> QED  BY <1>1, <1>2, <1>3 DEF BalancerStep

\* A request that is sent, and one that fails.
LEMMA AskKeeps ==
  ASSUME TemplateInv, NEW kind, NEW at \in Nat, Ask(kind, at)
  PROVE  TemplateInv'
<1>1. /\ dialog' = dialog /\ request'.at \in Nat
      /\ UNCHANGED <<outbounds, routing, observers, taint>>
  BY DEF Ask
<1> QED  BY <1>1, DialogStays, TemplateStays DEF TemplateInv

LEMMA FailureKeeps ==
  ASSUME TemplateInv, RequestFails
  PROVE  TemplateInv'
<1>1. /\ dialog' = dialog /\ request'.at \in Nat
      /\ UNCHANGED <<outbounds, routing, observers, taint>>
  BY RequestAt DEF RequestFails
<1> QED  BY <1>1, DialogStays, TemplateStays DEF TemplateInv

LEMMA FirstIndexIsNat ==
  ASSUME TemplateInv, NEW tags
  PROVE  FirstIndex(tags) \in Nat
<1>1. outbounds \in Seq(Outbound)
  BY DEF TemplateInv, TypeOK
<1>2. DOMAIN outbounds \subseteq Nat
  BY <1>1
<1> QED  BY <1>1, <1>2, FirstIndexFinds

\* An answer: a dialog that is open then is noted.
LEMMA AnsweredKeepsDialog ==
  ASSUME TemplateInv, NEW written, Answered(written), dialog' = dialog
  PROVE  DialogTypes' /\ DialogFresh'
<1>1. Free \/ "late" \in taint'
  BY DEF Answered
<1>2. request'.at \in Nat
  BY RequestAt DEF Answered
<1> QED  BY <1>1, <1>2, DialogStays

LEMMA WarpStepKeeps ==
  ASSUME TemplateInv, WarpStep
  PROVE  TemplateInv'
<1>1. CASE AskChangeIp
  <2>1. FirstIndex({Warp}) \in Nat
    BY FirstIndexIsNat
  <2> QED  BY <1>1, <2>1, AskKeeps DEF AskChangeIp
<1>2. CASE AskWarpDelete \/ RequestFails
  BY <1>2, AskKeeps, FailureKeeps DEF AskWarpDelete
<1>3. CASE changeIp
  <2>1. (\E written : Answered(written)) /\ dialog' = dialog
    BY <1>3 DEF changeIp
  <2> QED  BY <1>3, <2>1, AnsweredKeepsDialog, ChangeIpKeeps DEF TemplateInv
<1>4. CASE delConfig
  <2>1. Answered({"loose"}) /\ dialog' = dialog
    BY <1>4 DEF delConfig
  <2> QED  BY <1>4, <2>1, AnsweredKeepsDialog, DelConfigKeeps DEF TemplateInv
<1>5. CASE AddVendorOutbound(Warp, {Warp})
  <2>1. Free /\ dialog' = dialog /\ request' = request
    BY <1>5 DEF AddVendorOutbound
  <2>2. Warp \in OutTags
    BY TemplateAssumption
  <2> QED  BY <1>5, <2>1, <2>2, DialogStays, RequestAt, AddVendorKeeps DEF TemplateInv
<1>6. CASE WarpReset
  <2>1. Free /\ dialog' = dialog /\ request' = request
    BY <1>6 DEF WarpReset
  <2> QED  BY <1>6, <2>1, DialogStays, RequestAt, WarpResetKeeps DEF TemplateInv
<1> QED  BY <1>1, <1>2, <1>3, <1>4, <1>5, <1>6 DEF WarpStep

LEMMA NordStepKeeps ==
  ASSUME TemplateInv, NordStep
  PROVE  TemplateInv'
<1>1. CASE AskNordLogout
  <2>1. FirstIndex(NordTags) \in Nat
    BY FirstIndexIsNat
  <2> QED  BY <1>1, <2>1, AskKeeps DEF AskNordLogout
<1>2. CASE logout
  <2>1. Answered({"loose"}) /\ dialog' = dialog
    BY <1>2 DEF logout
  <2> QED  BY <1>2, <2>1, AnsweredKeepsDialog, LogoutKeeps DEF TemplateInv
<1>3. ASSUME NEW tag \in NordTags, AddVendorOutbound(tag, NordTags)
      PROVE  TemplateInv'
  <2>1. Free /\ dialog' = dialog /\ request' = request
    BY <1>3 DEF AddVendorOutbound
  <2>2. tag \in OutTags
    BY TemplateAssumption
  <2> QED  BY <1>3, <2>1, <2>2, DialogStays, RequestAt, AddVendorKeeps DEF TemplateInv
<1>4. ASSUME NEW tag \in NordTags, NordReset(tag)
      PROVE  TemplateInv'
  <2>1. Free /\ dialog' = dialog /\ request' = request
    BY <1>4 DEF NordReset
  <2> QED  BY <1>4, <2>1, DialogStays, RequestAt, NordResetKeeps DEF TemplateInv
<1> QED  BY <1>1, <1>2, <1>3, <1>4 DEF NordStep

LEMMA PageStepKeeps ==
  ASSUME TemplateInv, PageStep
  PROVE  TemplateInv'
<1>1. CASE AdvancedOutbounds(<<>>) \/ AdvancedRules(<<>>) \/ AdvancedTemplate(<<>>)
  <2>1. Free /\ dialog' = dialog /\ request' = request
    BY <1>1 DEF AdvancedOutbounds, AdvancedRules, AdvancedTemplate
  <2> QED  BY <1>1, <2>1, DialogStays, RequestAt, AdvancedKeeps DEF TemplateInv
<1>2. CASE AskReset
  BY <1>2, AskKeeps DEF AskReset
<1>3. CASE resetToDefault
  <2>1. dialog' = dialog /\ request' = NoRequest /\ (Free \/ "late" \in taint')
    BY <1>3 DEF resetToDefault
  <2> QED  BY <1>3, <2>1, DialogStays, RequestAt, ResetKeeps DEF TemplateInv
<1> QED  BY <1>1, <1>2, <1>3 DEF PageStep

LEMMA TemplateInvStep == TemplateInv /\ [Next]_vars => TemplateInv'
<1> SUFFICES ASSUME TemplateInv, [Next]_vars PROVE TemplateInv'
  OBVIOUS
<1>1. CASE Cancel
  <2>1. /\ dialog' = NoDialog /\ request' = request
        /\ UNCHANGED <<outbounds, routing, observers, taint>>
    BY <1>1 DEF Cancel, Close
  <2> QED  BY <2>1, DialogGone, TemplateStays DEF TemplateInv
<1>2. CASE OutboundStep \/ RuleStep \/ BalancerStep
  BY <1>2, OutboundStepKeeps, RuleStepKeeps, BalancerStepKeeps
<1>3. CASE WarpStep \/ NordStep \/ PageStep
  BY <1>3, WarpStepKeeps, NordStepKeeps, PageStepKeeps
<1>4. CASE UNCHANGED vars
  <2>1. /\ dialog' = dialog /\ request' = request
        /\ UNCHANGED <<outbounds, routing, observers, taint>>
    BY <1>4 DEF vars, routing, observers
  <2> QED  BY <2>1, DialogStays, RequestAt, TemplateStays DEF TemplateInv
<1> QED  BY <1>1, <1>2, <1>3, <1>4 DEF Next

LEMMA TemplateInvariant == Spec => []TemplateInv
BY TemplateInvInit, TemplateInvStep, PTL DEF Spec

\* The lists of the template keep the shape of their rows, whatever the dialogs
\* captured and the answers overwrite.
THEOREM TemplateTyping == Spec => []TypeOK
<1>1. TemplateInv => TypeOK
  BY DEF TemplateInv
<1> QED  BY <1>1, TemplateInvariant, PTL

\* A name that a row of the template uses is the name of a row, once, and the
\* observers follow the balancers, but for the sources that each part states
\* (reference-cleanup.ts, basics/helpers.ts, balancer-helpers.ts and the tabs).
THEOREM ReferencesAlwaysResolve == Spec => []ReferencesResolve
<1>1. TemplateInv => ReferencesResolve
  BY DEF TemplateInv
<1> QED  BY <1>1, TemplateInvariant, PTL
-----------------------------------------------------------------------------
(* What a deletion does *)

\* A rule that a deletion does not touch is as it was.
LEMMA UntouchedRule ==
  ASSUME NEW r \in Rule, NEW outs, NEW bals, classifyRule(r, outs, bals) = "untouched"
  PROVE  Repaired(r, outs, bals) = r
<1>1. r.out \notin outs /\ r.bal \notin bals
  BY DEF classifyRule
<1>2. Repaired(r, outs, bals) = [out |-> r.out, bal |-> r.bal]
  BY <1>1 DEF Repaired
<1> QED  BY <1>2 DEF Rule

LEMMA CleanupDisarmsNone ==
  ASSUME TypeOK, NEW outs, NEW bals, rules' = CleanRules(outs, bals),
         NEW k \in DOMAIN rules', rules'[k] = [out |-> NoTag, bal |-> NoTag]
  PROVE  rules'[k] \in ToSet(rules)
<1>1. PICK i \in DOMAIN rules :
        /\ classifyRule(rules[i], outs, bals) # "removed"
        /\ rules'[k] = Repaired(rules[i], outs, bals)
  BY CleanRulesLeaves
<1>2. classifyRule(rules[i], outs, bals) = "untouched"
  BY <1>1 DEF classifyRule
<1>3. rules[i] \in Rule
  BY DEF TypeOK
<1>4. rules'[k] = rules[i]
  BY <1>1, <1>2, <1>3, UntouchedRule
<1> QED  BY <1>4 DEF ToSet

LEMMA DeletionDisarmsNone ==
  ASSUME TypeOK, OutboundDeleteOk \/ BalancerDeleteOk,
         NEW k \in DOMAIN rules', rules'[k] = [out |-> NoTag, bal |-> NoTag]
  PROVE  rules'[k] \in ToSet(rules)
<1>1. rules' = rules \/ \E outs, bals : rules' = CleanRules(outs, bals)
  BY DEF OutboundDeleteOk, BalancerDeleteOk, applyOutboundDeletion, applyBalancerDeletion,
         applyCleanup
<1>2. CASE rules' = rules
  BY <1>2 DEF ToSet
<1>3. CASE \E outs, bals : rules' = CleanRules(outs, bals)
  BY <1>3, CleanupDisarmsNone
<1> QED  BY <1>1, <1>2, <1>3

\* A rule without a destination matches all traffic that reaches it: a deletion
\* drops the rules that lose theirs (classifyRule, applyCleanup).
THEOREM DeletionsDisarmNoRule == Spec => NoRuleDisarmed
<1>1. TemplateInv /\ [Next]_vars =>
        [(OutboundDeleteOk \/ BalancerDeleteOk) =>
           \A i \in DOMAIN rules' :
             rules'[i] = [out |-> NoTag, bal |-> NoTag] => rules'[i] \in ToSet(rules)]_vars
  BY DeletionDisarmsNone DEF TemplateInv
<1> QED  BY <1>1, TemplateInvariant, PTL DEF Spec, NoRuleDisarmed

\* The announcement of a deletion, and what the clean-up leaves.
LEMMA CleanupAsAnnounced ==
  ASSUME TypeOK, NEW outs, NEW bals, dialog.plan = Impact(outs, bals),
         applyCleanup(outs, bals)
  PROVE  LET plan == dialog.plan
             gone == {i \in DOMAIN rules : plan.fates[i] = "removed"}
         IN /\ Len(rules') = Len(rules) - Cardinality(gone)
            /\ \A i \in DOMAIN rules :
                 plan.fates[i] = "untouched" => rules[i] \in ToSet(rules')
            /\ TagsOf(balancers') = TagsOf(balancers) \ plan.bals
            /\ plan.burst = (burst.on /\ ~ burst'.on)
            /\ plan.observatory = (observatory.on /\ ~ observatory'.on)
<1> DEFINE plan == dialog.plan
           fate(i) == classifyRule(rules[i], outs, bals)
           gone == {i \in DOMAIN rules : plan.fates[i] = "removed"}
           kept == {i \in DOMAIN rules : fate(i) # "removed"}
           keptB == {i \in DOMAIN balancers : balancers[i].tag \notin bals}
<1>1. plan.bals = bals /\ \A i \in DOMAIN rules : plan.fates[i] = fate(i)
  BY DEF Impact, ruleImpacts
<1>2. /\ DOMAIN rules = 1..Len(rules) /\ Len(rules) \in Nat
      /\ \A i \in DOMAIN rules : rules[i] \in Rule
  BY DEF TypeOK
<1>3. /\ Len(rules') = Cardinality(kept)
      /\ \A i \in kept : \E k \in DOMAIN rules' : rules'[k] = Repaired(rules[i], outs, bals)
  BY CleanRulesLeaves DEF applyCleanup
<1>4. Cardinality(kept) = Len(rules) - Cardinality(gone)
  <2>1. IsFiniteSet(DOMAIN rules) /\ Cardinality(DOMAIN rules) = Len(rules)
    BY <1>2, FS_Interval
  <2>2. kept \in SUBSET DOMAIN rules /\ gone \in SUBSET DOMAIN rules
    OBVIOUS
  <2>3. /\ IsFiniteSet(kept) /\ IsFiniteSet(gone)
        /\ Cardinality(kept) \in Nat /\ Cardinality(gone) \in Nat
    BY <2>1, <2>2, FS_Subset, FS_CardinalityType
  <2>4. kept \cup gone = DOMAIN rules /\ kept \cap gone = {}
    BY <1>1
  <2>5. Cardinality(kept \cup gone) =
          Cardinality(kept) + Cardinality(gone) - Cardinality(kept \cap gone)
    BY <2>3, FS_Union
  <2> HIDE DEF kept, gone
  <2>6. Cardinality({}) = 0
    BY FS_EmptySet
  <2>7. Len(rules) = Cardinality(kept) + Cardinality(gone) - 0
    BY <2>1, <2>4, <2>5, <2>6
  <2>8. \A a, b, c \in Nat : c = a + b - 0 => a = c - b
    OBVIOUS
  <2> QED  BY <1>2, <2>3, <2>7, <2>8
<1>5. ASSUME NEW i \in DOMAIN rules, plan.fates[i] = "untouched"
      PROVE  rules[i] \in ToSet(rules')
  <2>1. fate(i) = "untouched" /\ i \in kept
    BY <1>1, <1>5
  <2>2. Repaired(rules[i], outs, bals) = rules[i]
    BY <1>2, <2>1, UntouchedRule
  <2>3. PICK k \in DOMAIN rules' : rules'[k] = rules[i]
    BY <1>3, <2>1, <2>2
  <2> QED  BY <2>3 DEF ToSet
<1>6. TagsOf(balancers') = TagsOf(balancers) \ bals
  <2>1. /\ \A k \in DOMAIN balancers' :
             /\ Nth(keptB, k) \in keptB
             /\ balancers'[k].tag = balancers[Nth(keptB, k)].tag
        /\ \A i \in keptB : \E k \in DOMAIN balancers' : balancers'[k].tag = balancers[i].tag
    BY CleanBalancersLeaves DEF applyCleanup
  <2>2. ASSUME NEW t \in TagsOf(balancers') PROVE t \in TagsOf(balancers) \ bals
    <3>1. PICK k \in DOMAIN balancers' : t = balancers'[k].tag
      BY DEF TagsOf
    <3>2. PICK i \in keptB : t = balancers[i].tag
      BY <2>1, <3>1
    <3> QED  BY <3>2 DEF TagsOf
  <2>3. ASSUME NEW t \in TagsOf(balancers) \ bals PROVE t \in TagsOf(balancers')
    <3>1. PICK i \in DOMAIN balancers : t = balancers[i].tag
      BY DEF TagsOf
    <3>2. PICK k \in DOMAIN balancers' : balancers'[k].tag = t
      BY <2>1, <3>1
    <3> QED  BY <3>2 DEF TagsOf
  <2> QED  BY <2>2, <2>3
<1>7. /\ plan.burst = (burst.on /\ ~ SyncedBurst(CleanBalancers(outs, bals)).on)
      /\ plan.observatory =
           (observatory.on /\ ~ SyncedObservatory(CleanBalancers(outs, bals)).on)
  BY DEF Impact
<1>8. /\ burst' = SyncedBurst(CleanBalancers(outs, bals))
      /\ observatory' = SyncedObservatory(CleanBalancers(outs, bals))
  BY DEF applyCleanup, syncObservatories
<1> QED  BY <1>1, <1>3, <1>4, <1>5, <1>6, <1>7, <1>8

\* A deletion that is confirmed does what its dialog said: which rules go and
\* which stay, which balancers go along, and whether an observer does
\* (planOutboundDeletion against applyOutboundDeletion, and the balancers' pair).
THEOREM DeletionsAreAnnounced == Spec => DeletesAsAnnounced
<1> DEFINE Announced ==
             LET plan == dialog.plan
                 gone == {i \in DOMAIN rules : plan.fates[i] = "removed"}
             IN /\ Len(rules') = Len(rules) - Cardinality(gone)
                /\ \A i \in DOMAIN rules :
                     plan.fates[i] = "untouched" => rules[i] \in ToSet(rules')
                /\ TagsOf(balancers') = TagsOf(balancers) \ plan.bals
                /\ plan.burst = (burst.on /\ ~ burst'.on)
                /\ plan.observatory = (observatory.on /\ ~ observatory'.on)
<1>1. ASSUME TemplateInv, "late" \notin taint, OutboundDeleteOk PROVE Announced
  <2>1. TypeOK /\ dialog.at \in DOMAIN outbounds
        /\ dialog.plan = planOutboundDeletion(dialog.at)
    BY <1>1 DEF TemplateInv, DialogFresh, PlanFresh, OutboundDeleteOk
  <2>2. PICK outs, bals :
          outs = {outbounds[dialog.at].tag} /\ bals = balancersEmptiedBy(outs)
    OBVIOUS
  <2>3. dialog.plan = Impact(outs, bals) /\ applyCleanup(outs, bals)
    BY <1>1, <2>1, <2>2 DEF OutboundDeleteOk, applyOutboundDeletion, planOutboundDeletion
  <2> QED  BY <2>1, <2>3, CleanupAsAnnounced
<1>2. ASSUME TemplateInv, "late" \notin taint, BalancerDeleteOk PROVE Announced
  <2>1. TypeOK /\ dialog.at \in DOMAIN balancers
        /\ dialog.plan = planBalancerDeletion(dialog.at)
    BY <1>2 DEF TemplateInv, DialogFresh, PlanFresh, BalancerDeleteOk
  <2>2. dialog.plan = Impact({}, {balancers[dialog.at].tag})
        /\ applyCleanup({}, {balancers[dialog.at].tag})
    BY <1>2, <2>1 DEF BalancerDeleteOk, applyBalancerDeletion, planBalancerDeletion
  <2> QED  BY <2>1, <2>2, CleanupAsAnnounced
<1> HIDE DEF Announced
<1>3. TemplateInv /\ [Next]_vars =>
        [(OutboundDeleteOk \/ BalancerDeleteOk) /\ "late" \notin taint => Announced]_vars
  BY <1>1, <1>2
<1> USE DEF Announced
<1> QED  BY <1>3, TemplateInvariant, PTL DEF Spec, DeletesAsAnnounced
=============================================================================
