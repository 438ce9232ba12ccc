---------------------------- MODULE XrayTemplate ----------------------------
(***************************************************************************)
(* The Xray template as the panel's editor holds it: outbounds, routing    *)
(* rules, balancers and the two observatories, which refer to each other   *)
(* by tag, and every handler of the Xray page that edits them.  A handler  *)
(* runs to its end before the next one (one browser thread), but a dialog  *)
(* stays open between its opening and its confirmation, and the WARP,      *)
(* NordVPN and reset requests are answered while other edits go on; both   *)
(* keep an index or a form that was read earlier.                          *)
(*                                                                         *)
(* Abstracted: of an outbound only its tag and its dialerProxy, of a rule  *)
(* only its destinations, of a balancer its tag, selector, fallback and    *)
(* strategy are kept, and neither the order of the rules nor whether one   *)
(* is enabled.  The rule of the panel's own API, which its tables hide, and*)
(* the tags that client reverse proxies and subscriptions provide are not  *)
(* part of the model: nothing here edits them.                             *)
(***************************************************************************)
EXTENDS Naturals, Sequences, FiniteSets, SequencesExt

CONSTANTS
  OutTags,      \* tags an outbound may have
  FormTags,     \* the tags that the operator types into the outbound form
  BalTags,      \* tags a balancer may have
  NoTag,        \* the empty tag: no reference
  Warp,         \* the tag 'warp'
  NordTags,     \* the tags with the prefix 'nord-'
  BlockTags,    \* 'blocked': basic routing writes rules, never the outbound
  SyncTags,     \* 'direct' and 'IPv4': basic routing also adds and removes
                \* the outbound
  DefaultOutbounds, DefaultRules,  \* the default template; no balancers
  Selectors,    \* the selectors an operator gives a balancer
  Picked,       \* the tags an operator picks as rule target, fallback, dialer
  Pasted,       \* the outbounds and the rules that are pasted as JSON
  MaxOutbounds, MaxRules, MaxBalancers,  \* bounds on the lists
  MaxTaint      \* bound on the unchecked paths taken since the last reset

Strategies == {"random", "leastPing", "leastLoad"}   \* roundRobin acts as random
Outbound == [tag : OutTags, dialer : OutTags \cup {NoTag}]
Rule == [out : OutTags \cup {NoTag}, bal : BalTags \cup {NoTag}]
Balancer == [tag : BalTags, sel : SUBSET OutTags, fb : OutTags \cup {NoTag},
             strat : Strategies]

TagsOf(list) == {list[i].tag : i \in DOMAIN list}

ASSUME TemplateAssumption ==
  /\ NoTag \notin OutTags \cup BalTags
  /\ Selectors \subseteq (SUBSET OutTags) \ {{}}   \* the form refuses an empty one
  /\ FormTags \cup NordTags \cup BlockTags \cup SyncTags \cup {Warp} \subseteq OutTags

\* The rows of the default template and of what is pasted have the shape of
\* rows, and the default template's references resolve (config.json).
ASSUME DefaultsAssumption ==
  /\ DefaultOutbounds \in Seq(Outbound) /\ DefaultRules \in Seq(Rule)
  /\ Pasted.outbounds \subseteq Outbound /\ Pasted.rules \subseteq Rule
  /\ \A i, j \in DOMAIN DefaultOutbounds :
       DefaultOutbounds[i].tag = DefaultOutbounds[j].tag => i = j
  /\ \A i \in DOMAIN DefaultOutbounds :
       DefaultOutbounds[i].dialer \in {NoTag} \cup TagsOf(DefaultOutbounds)
  /\ \A i \in DOMAIN DefaultRules :
       /\ DefaultRules[i].out \in {NoTag} \cup TagsOf(DefaultOutbounds)
       /\ DefaultRules[i].bal = NoTag

VARIABLES
  outbounds,    \* templateSettings.outbounds
  rules,        \* templateSettings.routing.rules
  balancers,    \* templateSettings.routing.balancers
  observatory,  \* observatory: is it there, and its subjectSelector
  burst,        \* burstObservatory, likewise
  dialog,       \* the modal that is open, with what it captured
  request,      \* a WARP, NordVPN or reset request without its answer
  taint         \* history: the unchecked paths the template went through

vars == <<outbounds, rules, balancers, observatory, burst, dialog, request, taint>>
observers == <<observatory, burst>>
routing == <<rules, balancers>>

NoObserver == [on |-> FALSE, subjects |-> {}]
Observer(subjects) == [on |-> TRUE, subjects |-> subjects]
Keep == "keep"        \* a field of a form that the operator leaves alone
NoDialog == [kind |-> "none", at |-> 0]
NoRequest == [kind |-> "none", at |-> 0]
Taints == {"raw", "rawAll", "loose", "late", "renamed"}

\* The rows of a list at the positions of keep, in their order.  (What
\* SelectSeq selects, written with the positions for the sake of the proofs.)
Nth(keep, k) == CHOOSE i \in keep : Cardinality({j \in keep : j <= i}) = k
RowsAt(list, keep) == [k \in 1..Cardinality(keep) |-> list[Nth(keep, k)]]

-----------------------------------------------------------------------------
(* balancer-helpers.ts *)

collectSelectors(list) == UNION {b.sel : b \in list}

balancerRequiresBurst(b) ==
  b.strat = "leastLoad" \/ (b.strat = "random" /\ b.fb # NoTag)

\* The two observer sections that syncObservatories leaves for a list of
\* balancers.
SyncedBurst(list) ==
  LET all == ToSet(list)
      required == {b \in all : balancerRequiresBurst(b)}
  IN IF required # {}
     THEN Observer(collectSelectors(required \cup {b \in all : b.strat = "leastPing"}))
     ELSE NoObserver

SyncedObservatory(list) ==
  LET all == ToSet(list)
      pings == {b \in all : b.strat = "leastPing"}
  IN IF (\A b \in all : ~ balancerRequiresBurst(b)) /\ pings # {}
     THEN Observer(collectSelectors(pings))
     ELSE NoObserver

syncObservatories ==
  /\ burst' = SyncedBurst(balancers')
  /\ observatory' = SyncedObservatory(balancers')

-----------------------------------------------------------------------------
(* reference-cleanup.ts: what is left once the outbounds outs and the      *)
(* balancers bals are gone                                                 *)

balancersEmptiedBy(outs) ==
  {b.tag : b \in {c \in ToSet(balancers) : c.sel # {} /\ c.sel \subseteq outs}}

\* What a rule points at once the tags are gone; a rule without a
\* destination is dropped.
Repaired(r, outs, bals) ==
  [out |-> IF r.out \in outs THEN NoTag ELSE r.out,
   bal |-> IF r.bal \in bals THEN NoTag ELSE r.bal]

\* Mutant: a rule that lost its destination stays.
ClassifyKeeping(r, outs, bals) ==
  IF r.out \notin outs /\ r.bal \notin bals THEN "untouched" ELSE "modified"

classifyRule(r, outs, bals) ==
  IF r.out \notin outs /\ r.bal \notin bals THEN "untouched"
  ELSE IF Repaired(r, outs, bals) = [out |-> NoTag, bal |-> NoTag] THEN "removed"
  ELSE "modified"

ruleImpacts(outs, bals) == [i \in DOMAIN rules |-> classifyRule(rules[i], outs, bals)]

CleanRules(outs, bals) ==
  LET kept == RowsAt(rules, {i \in DOMAIN rules :
                               classifyRule(rules[i], outs, bals) # "removed"})
  IN [i \in DOMAIN kept |-> Repaired(kept[i], outs, bals)]

CleanBalancers(outs, bals) ==
  LET kept == RowsAt(balancers, {i \in DOMAIN balancers : balancers[i].tag \notin bals})
  IN [i \in DOMAIN kept |->
        [kept[i] EXCEPT !.sel = @ \ outs,
                        !.fb = IF @ \in outs THEN NoTag ELSE @]]

CleanOutbounds(outs) ==
  LET kept == RowsAt(outbounds, {i \in DOMAIN outbounds : outbounds[i].tag \notin outs})
  IN [i \in DOMAIN kept |->
        [kept[i] EXCEPT !.dialer = IF @ \in outs THEN NoTag ELSE @]]

applyCleanup(outs, bals) ==
  /\ rules' = CleanRules(outs, bals)
  /\ balancers' = CleanBalancers(outs, bals)
  /\ outbounds' = CleanOutbounds(outs)
  /\ syncObservatories

\* The dialog's DeletionImpact: the fate of every rule, the balancers that go
\* with it, and whether an observer goes.
Impact(outs, bals) ==
  [fates |-> ruleImpacts(outs, bals), bals |-> bals,
   observatory |-> observatory.on /\ ~ SyncedObservatory(CleanBalancers(outs, bals)).on,
   burst |-> burst.on /\ ~ SyncedBurst(CleanBalancers(outs, bals)).on]

\* Mutant: the plan forgets the balancers that the deletion empties.
PlanWithoutCascade(i) == Impact({outbounds[i].tag}, {})

planOutboundDeletion(i) ==
  LET outs == {outbounds[i].tag} IN Impact(outs, balancersEmptiedBy(outs))

planBalancerDeletion(i) == Impact({}, {balancers[i].tag})

applyOutboundDeletion(i) ==
  IF i \in DOMAIN outbounds
  THEN LET outs == {outbounds[i].tag} IN applyCleanup(outs, balancersEmptiedBy(outs))
  ELSE UNCHANGED <<outbounds, rules, balancers>> /\ syncObservatories

\* Mutant: the row goes, the rules that name it stay.
DeleteBalancerOnly(i) ==
  /\ balancers' = IF i \in DOMAIN balancers THEN RemoveAt(balancers, i) ELSE balancers
  /\ UNCHANGED <<outbounds, rules>>
  /\ syncObservatories

applyBalancerDeletion(i) ==
  IF i \in DOMAIN balancers
  THEN applyCleanup({}, {balancers[i].tag})
  ELSE UNCHANGED <<outbounds, rules, balancers>> /\ syncObservatories

\* basics/helpers.ts: every reference to the old tag follows the outbound.
Follow(tag, old, new) == IF tag = old THEN new ELSE tag

propagateOutboundTagRename(list, old, new) ==
  /\ rules' = [i \in DOMAIN rules |-> [rules[i] EXCEPT !.out = Follow(@, old, new)]]
  /\ balancers' = [i \in DOMAIN balancers |->
       [balancers[i] EXCEPT !.fb = Follow(@, old, new),
                            !.sel = {Follow(s, old, new) : s \in @}]]
  /\ outbounds' = [i \in DOMAIN list |-> [list[i] EXCEPT !.dialer = Follow(@, old, new)]]

-----------------------------------------------------------------------------
(* The page opens on the default template                                  *)

Init ==
  /\ outbounds = DefaultOutbounds
  /\ rules = DefaultRules
  /\ balancers = <<>>
  /\ observatory = NoObserver
  /\ burst = NoObserver
  /\ dialog = NoDialog
  /\ request = NoRequest
  /\ taint = {}

Free == dialog = NoDialog
Taint(paths) == taint' = taint \cup paths /\ Cardinality(taint') <= MaxTaint
Open(d) == Free /\ dialog' = d /\ UNCHANGED <<outbounds, routing, observers, request, taint>>
Close == dialog' = NoDialog

\* A sync of the observers repairs what a rename or pasted text left there.
Synced == (taint \ {"renamed", "rawAll"}) \cup (IF "rawAll" \in taint THEN {"raw"} ELSE {})

Cancel == ~ Free /\ Close /\ UNCHANGED <<outbounds, routing, observers, request, taint>>

\* A confirmation writes at the index that its dialog has kept: over a row, or
\* behind the last one.  After an answer that shortened the list the index may
\* lie further on, and JavaScript then leaves a hole before the new row; a list
\* of the model has no holes, so that confirmation is not a step of it.
Writable(list, i) == i <= Len(list) + 1
Written(list, i, row) ==
  IF i \in DOMAIN list THEN [list EXCEPT ![i] = row] ELSE Append(list, row)

-----------------------------------------------------------------------------
(* OutboundsTab.tsx *)

\* The buttons of a row in the table (useOutboundColumns.tsx).
OutboundRowActions(i) ==
  {"edit", "delete"} \cup (IF i > 1 THEN {"first", "up"} ELSE {})
                     \cup (IF i < Len(outbounds) THEN {"down"} ELSE {})

\* The form remembers the tags the other outbounds had when it was opened.
OpenOutboundAdd ==
  Open([kind |-> "outbound", at |-> 0, tag |-> NoTag, dialer |-> NoTag,
        taken |-> TagsOf(outbounds)])

OpenOutboundEdit(i) ==
  Open([kind |-> "outbound", at |-> i, tag |-> outbounds[i].tag,
        dialer |-> outbounds[i].dialer,
        taken |-> {outbounds[j].tag : j \in DOMAIN outbounds \ {i}}])

\* OutboundFormModal's onOk refuses an empty tag and one that was taken when
\* the form was opened.  The dialerProxy select offers the tags of the other
\* outbounds.
OutboundFormOk(typed, picked) ==
  /\ dialog.kind = "outbound"
  /\ IF typed = Keep THEN dialog.tag # NoTag ELSE typed \notin dialog.taken
  /\ picked \in {outbounds[j].tag : j \in DOMAIN outbounds \ {dialog.at}} \cup {NoTag, Keep}

\* The tab's onConfirm: an edit replaces the row at the index and, when the
\* row there had another tag, takes the references along.
OutboundConfirm(typed, picked) ==
  LET i == dialog.at
      row == [tag |-> IF typed = Keep THEN dialog.tag ELSE typed,
              dialer |-> IF picked = Keep THEN dialog.dialer ELSE picked]
      renamed == i \in DOMAIN outbounds /\ outbounds[i].tag # row.tag
  IN /\ OutboundFormOk(typed, picked)
     /\ Close
     /\ IF renamed
        THEN /\ propagateOutboundTagRename([outbounds EXCEPT ![i] = row],
                                           outbounds[i].tag, row.tag)
             /\ Taint({"renamed"})
        ELSE /\ Writable(outbounds, i)
             /\ outbounds' = Written(outbounds, i, row)
             /\ Len(outbounds') <= MaxOutbounds
             /\ UNCHANGED <<routing, taint>>
     /\ UNCHANGED <<observers, request>>

OpenOutboundDelete(i) ==
  Open([kind |-> "delOutbound", at |-> i, plan |-> planOutboundDeletion(i)])

OutboundDeleteOk ==
  /\ dialog.kind = "delOutbound"
  /\ applyOutboundDeletion(dialog.at)
  /\ Close
  /\ taint' = Synced
  /\ UNCHANGED request

Swap(list, i, j) == [list EXCEPT ![i] = list[j], ![j] = list[i]]

OutboundMove(i, op) ==
  /\ Free /\ op \in OutboundRowActions(i)
  /\ outbounds' = CASE op = "first" -> <<outbounds[i]>> \o RemoveAt(outbounds, i)
                    [] op = "up" -> Swap(outbounds, i - 1, i)
                    [] op = "down" -> Swap(outbounds, i, i + 1)
  /\ UNCHANGED <<routing, observers, dialog, request, taint>>

\* Any outbounds may be pasted, with tags and dialers nobody checks.
importOutbounds(row) ==
  /\ Free /\ Len(outbounds) < MaxOutbounds
  /\ outbounds' = Append(outbounds, row)
  /\ Taint({"raw"})
  /\ UNCHANGED <<routing, observers, dialog, request>>

-----------------------------------------------------------------------------
(* RoutingTab.tsx, RuleFormModal.tsx, RoutingBasic.tsx *)

outboundTagOptions == {NoTag} \cup TagsOf(outbounds)
balancerTagOptions == {NoTag} \cup TagsOf(balancers)

OpenRule(i) ==
  Open(IF i = 0 THEN [kind |-> "rule", at |-> 0, out |-> NoTag, bal |-> NoTag]
       ELSE [kind |-> "rule", at |-> i, out |-> rules[i].out, bal |-> rules[i].bal])

\* Mutant: a field that nobody touched is saved as the form's marker.
RuleConfirmUnseeded(out, bal) ==
  /\ dialog.kind = "rule"
  /\ out \in outboundTagOptions \cup {Keep}
  /\ bal \in balancerTagOptions \cup {Keep}
  /\ Close
  /\ rules' = IF dialog.at \in DOMAIN rules
              THEN [rules EXCEPT ![dialog.at] = [out |-> out, bal |-> bal]]
              ELSE Append(rules, [out |-> out, bal |-> bal])
  /\ Len(rules') <= MaxRules
  /\ UNCHANGED <<outbounds, balancers, observers, request, taint>>

\* The selects offer what the template has now; what the form was opened
\* with stays unless it is changed.  The tab drops a rule that is empty as JSON,
\* which the form never sends: its rule always has a type and the switch.
RuleConfirm(out, bal) ==
  LET i == dialog.at
      r == [out |-> IF out = Keep THEN dialog.out ELSE out,
            bal |-> IF bal = Keep THEN dialog.bal ELSE bal]
  IN /\ dialog.kind = "rule"
     /\ out \in outboundTagOptions \cup {Keep}
     /\ bal \in balancerTagOptions \cup {Keep}
     /\ Close
     /\ Writable(rules, i)
     /\ rules' = Written(rules, i, r)
     /\ Len(rules') <= MaxRules
     /\ UNCHANGED <<outbounds, balancers, observers, request, taint>>

OpenRuleDelete(i) == Open([kind |-> "delRule", at |-> i])

RuleDeleteOk ==
  /\ dialog.kind = "delRule"
  /\ rules' = IF dialog.at \in DOMAIN rules THEN RemoveAt(rules, dialog.at) ELSE rules
  /\ Close
  /\ UNCHANGED <<outbounds, balancers, observers, request, taint>>

importRules(r) ==
  /\ Free /\ Len(rules) < MaxRules
  /\ rules' = Append(rules, r)
  /\ Taint({"raw"})
  /\ UNCHANGED <<outbounds, balancers, observers, dialog, request>>

\* ruleSetter: a first value appends a rule of the tag, the last value taken
\* away removes the tag's rules.
ruleSetter(tag, given) ==
  IF \E i \in DOMAIN rules : rules[i].out = tag
  THEN IF given THEN rules ELSE RowsAt(rules, {i \in DOMAIN rules : rules[i].out # tag})
  ELSE Append(rules, [out |-> tag, bal |-> NoTag])

\* syncOutbound keeps the first outbound of the list, the core's default.
syncOutbound(tag, after) ==
  LET used == \E i \in DOMAIN after : after[i].out = tag
      idx == SelectInSeq(outbounds, LAMBDA o : o.tag = tag)
  IN CASE ~ used /\ idx > 1 -> RemoveAt(outbounds, idx)
       [] used /\ idx = 0 -> Append(outbounds, [tag |-> tag, dialer |-> NoTag])
       [] OTHER -> outbounds

BasicRouting(tag, given) ==
  /\ Free
  /\ rules' = ruleSetter(tag, given)
  /\ outbounds' = IF tag \in SyncTags THEN syncOutbound(tag, rules') ELSE outbounds
  /\ Len(rules') <= MaxRules /\ Len(outbounds') <= MaxOutbounds
  /\ Taint({"loose"})
  /\ UNCHANGED <<balancers, observers, dialog, request>>

-----------------------------------------------------------------------------
(* BalancersTab.tsx, BalancerFormModal.tsx *)

OpenBalancer(i) ==
  Open(IF i = 0 THEN [kind |-> "balancer", at |-> 0, fb |-> NoTag]
       ELSE [kind |-> "balancer", at |-> i, fb |-> balancers[i].fb])

\* The form refuses an empty selector and the tag of another balancer; the
\* selector takes any text, the fallback what the list offers or what it was.
BalancerConfirm(form) ==
  LET i == dialog.at
      wire == IF form.fb = Keep THEN [form EXCEPT !.fb = dialog.fb] ELSE form
      old == IF i \in DOMAIN balancers THEN balancers[i].tag ELSE NoTag
  IN /\ dialog.kind = "balancer"
     /\ wire.tag \notin {balancers[j].tag : j \in DOMAIN balancers \ {i}}
     /\ form.fb \in TagsOf(outbounds) \cup {NoTag, Keep}
     /\ Close
     /\ Writable(balancers, i)
     /\ balancers' = Written(balancers, i, wire)
     /\ Len(balancers') <= MaxBalancers
     /\ rules' = IF old # NoTag
                 THEN [j \in DOMAIN rules |->
                         [rules[j] EXCEPT !.bal = Follow(@, old, wire.tag)]]
                 ELSE rules
     /\ syncObservatories
     /\ taint' = Synced
     /\ UNCHANGED <<outbounds, request>>

OpenBalancerDelete(i) ==
  Open([kind |-> "delBalancer", at |-> i, plan |-> planBalancerDeletion(i)])

BalancerDeleteOk ==
  /\ dialog.kind = "delBalancer"
  /\ applyBalancerDeletion(dialog.at)
  /\ Close
  /\ taint' = Synced
  /\ UNCHANGED request

-----------------------------------------------------------------------------
(* WarpModal.tsx, NordModal.tsx: the handlers act when the answer is there,*)
(* on the index that the render before the request had found               *)

FirstIndex(tags) == SelectInSeq(outbounds, LAMBDA o : o.tag \in tags)

Ask(kind, at) ==
  /\ Free /\ request = NoRequest /\ Cardinality(taint) < MaxTaint
  /\ request' = [kind |-> kind, at |-> at]
  /\ UNCHANGED <<outbounds, routing, observers, dialog, taint>>

Answered(written) ==
  /\ request' = NoRequest
  /\ taint' = taint \cup (IF Free THEN {} ELSE {"late"}) \cup written

AskChangeIp == Ask("changeIp", FirstIndex({Warp}))
AskWarpDelete == Ask("warpDelete", 0)
AskNordLogout == Ask("nordLogout", FirstIndex(NordTags))

\* onResetOutbound without tags: the row of the index is overwritten,
\* whatever it is by now.
changeIp ==
  LET i == request.at
      row == [tag |-> Warp, dialer |-> NoTag]
      stale == i > 0 /\ (i \notin DOMAIN outbounds \/ outbounds[i].tag # Warp)
  IN /\ request.kind = "changeIp"
     /\ Writable(outbounds, i)
     /\ outbounds' = IF i = 0 THEN outbounds ELSE Written(outbounds, i, row)
     /\ Answered(IF stale THEN {"late"} ELSE {})
     /\ UNCHANGED <<routing, observers, dialog>>

\* delConfig: onRemoveOutboundByTag, which leaves every reference alone.
delConfig ==
  LET i == FirstIndex({Warp})
  IN /\ request.kind = "warpDelete"
     /\ outbounds' = IF i > 0 THEN RemoveAt(outbounds, i) ELSE outbounds
     /\ Answered({"loose"})
     /\ UNCHANGED <<routing, observers, dialog>>

\* logout: the row of the index goes, and every rule to a NordVPN outbound.
logout ==
  LET i == request.at
  IN /\ request.kind = "nordLogout"
     /\ outbounds' = IF i \in DOMAIN outbounds THEN RemoveAt(outbounds, i) ELSE outbounds
     /\ rules' = RowsAt(rules, {j \in DOMAIN rules : rules[j].out \notin NordTags})
     /\ Answered({"loose"})
     /\ UNCHANGED <<balancers, observers, dialog>>

\* A request that fails changes nothing.
RequestFails ==
  /\ request # NoRequest
  /\ request' = NoRequest
  /\ UNCHANGED <<outbounds, routing, observers, dialog, taint>>

\* The modals offer to add the outbound only while the template has none.
AddVendorOutbound(tag, tags) ==
  /\ Free /\ FirstIndex(tags) = 0 /\ Len(outbounds) < MaxOutbounds
  /\ outbounds' = Append(outbounds, [tag |-> tag, dialer |-> NoTag])
  /\ UNCHANGED <<routing, observers, dialog, request, taint>>

WarpReset ==
  LET i == FirstIndex({Warp})
  IN /\ Free /\ i > 0
     /\ outbounds' = [outbounds EXCEPT ![i].dialer = NoTag]
     /\ UNCHANGED <<routing, observers, dialog, request, taint>>

\* A new server gives the outbound a new tag; its references follow, but the
\* tag is not compared with those of the other outbounds.
NordReset(tag) ==
  LET i == FirstIndex(NordTags)
      row == [tag |-> tag, dialer |-> NoTag]
  IN /\ Free /\ i > 0
     /\ propagateOutboundTagRename([outbounds EXCEPT ![i] = row], outbounds[i].tag, tag)
     /\ Taint({"renamed"} \cup
              (IF \E j \in DOMAIN outbounds \ {i} : outbounds[j].tag = tag
               THEN {"loose"} ELSE {}))
     /\ UNCHANGED <<observers, dialog, request>>

-----------------------------------------------------------------------------
(* XrayPage.tsx: the JSON editors, and the reset to the default template   *)

AdvancedOutbounds(list) ==
  /\ Free
  /\ outbounds' = list
  /\ Taint({"raw"})
  /\ UNCHANGED <<routing, observers, dialog, request>>

AdvancedRules(list) ==
  /\ Free
  /\ rules' = list
  /\ Taint({"raw"})
  /\ UNCHANGED <<outbounds, balancers, observers, dialog, request>>

AdvancedTemplate(list) ==
  /\ Free
  /\ balancers' = list
  /\ Taint({"rawAll"})
  /\ UNCHANGED <<outbounds, rules, observers, dialog, request>>

AskReset == Ask("reset", 0)

\* resetDefaultMut: the answer replaces the whole template, an open dialog
\* keeps what it read before.
resetToDefault ==
  /\ request.kind = "reset"
  /\ outbounds' = DefaultOutbounds /\ rules' = DefaultRules /\ balancers' = <<>>
  /\ observatory' = NoObserver /\ burst' = NoObserver
  /\ request' = NoRequest
  /\ taint' = IF Free THEN {} ELSE {"late"}
  /\ UNCHANGED dialog

-----------------------------------------------------------------------------
\* What the modals let the operator enter: any tag or the one that was there,
\* and of the tags what their selects offer.
OutboundChoices == (FormTags \cup {Keep}) \X (Picked \cup {NoTag, Keep})
RuleChoices == (Picked \cup {NoTag, Keep}) \X (BalTags \cup {NoTag, Keep})
BalancerForms == [tag : BalTags, sel : Selectors, fb : Picked \cup {NoTag, Keep},
                  strat : Strategies]

OutboundStep ==
  \/ OpenOutboundAdd
  \/ \E i \in DOMAIN outbounds : OpenOutboundEdit(i) \/ OpenOutboundDelete(i)
  \/ \E c \in OutboundChoices : OutboundConfirm(c[1], c[2])
  \/ OutboundDeleteOk
  \/ \E i \in DOMAIN outbounds, op \in {"first", "up", "down"} : OutboundMove(i, op)
  \/ \E row \in Pasted.outbounds : importOutbounds(row)

RuleStep ==
  \/ \E i \in DOMAIN rules \cup {0} : OpenRule(i)
  \/ \E c \in RuleChoices : RuleConfirm(c[1], c[2])
  \/ \E i \in DOMAIN rules : OpenRuleDelete(i)
  \/ RuleDeleteOk
  \/ \E r \in Pasted.rules : importRules(r)
  \/ \E tag \in BlockTags \cup SyncTags, given \in BOOLEAN : BasicRouting(tag, given)

BalancerStep ==
  \/ \E i \in DOMAIN balancers \cup {0} : OpenBalancer(i)
  \/ \E form \in BalancerForms : BalancerConfirm(form)
  \/ \E i \in DOMAIN balancers : OpenBalancerDelete(i)
  \/ BalancerDeleteOk

WarpStep ==
  \/ AskChangeIp \/ AskWarpDelete \/ changeIp \/ delConfig \/ RequestFails
  \/ AddVendorOutbound(Warp, {Warp})
  \/ WarpReset

NordStep ==
  \/ AskNordLogout \/ logout
  \/ \E tag \in NordTags : AddVendorOutbound(tag, NordTags)
  \/ \E tag \in NordTags : NordReset(tag)

PageStep ==
  \/ AdvancedOutbounds(<<>>)
  \/ AdvancedRules(<<>>)
  \/ AdvancedTemplate(<<>>)
  \/ AskReset \/ resetToDefault

Next ==
  \/ Cancel \/ OutboundStep \/ RuleStep \/ BalancerStep
  \/ WarpStep \/ NordStep \/ PageStep

Spec == Init /\ [][Next]_vars

-----------------------------------------------------------------------------
(* Properties *)

\* The lists hold rows of the template's shape.
TypeOK ==
  /\ outbounds \in Seq(Outbound) /\ rules \in Seq(Rule) /\ balancers \in Seq(Balancer)
  /\ taint \subseteq Taints

\* A dangling balancerTag stops the core's router: it can come only from
\* pasted JSON or from a dialog over which a late answer changed the template.
BalancersResolve ==
  taint \cap {"raw", "rawAll", "late"} = {} =>
    \A i \in DOMAIN rules : rules[i].bal \in balancerTagOptions

\* The editor's own handlers, renames and deletions included, leave no rule,
\* fallback or dialerProxy pointing at an outbound that is gone, as long as
\* basic routing and the WARP and NordVPN dialogs are not used.
OutboundsResolve ==
  taint \subseteq {"renamed"} =>
    /\ \A i \in DOMAIN rules : rules[i].out \in outboundTagOptions
    /\ \A i \in DOMAIN balancers : balancers[i].fb \in outboundTagOptions
    /\ \A i \in DOMAIN outbounds : outbounds[i].dialer \in outboundTagOptions

\* No two outbounds share a tag, and no two balancers, under the same
\* condition: a deletion by tag then removes one row.
TagsUnique ==
  taint \subseteq {"renamed"} =>
    /\ \A i, j \in DOMAIN outbounds : outbounds[i].tag = outbounds[j].tag => i = j
    /\ \A i, j \in DOMAIN balancers : balancers[i].tag = balancers[j].tag => i = j

\* Each observer lives exactly as long as a balancer requires it, and both
\* never live together; a core without a required one does not start.
ObserversMatch ==
  "rawAll" \notin taint =>
    /\ burst.on = SyncedBurst(balancers).on
    /\ observatory.on = SyncedObservatory(balancers).on

\* The observers watch exactly the outbounds their balancers select from,
\* except after a rename: no handler of a rename syncs the observers.
SubjectsFollow ==
  taint \cap {"rawAll", "renamed"} = {} =>
    burst = SyncedBurst(balancers) /\ observatory = SyncedObservatory(balancers)

\* The references of the template: whatever order the tabs are used in, a name
\* that a row uses is a name of a row, once, and the observers follow the
\* balancers, but for the sources of dangling names that each part states.
ReferencesResolve ==
  BalancersResolve /\ OutboundsResolve /\ TagsUnique /\ ObserversMatch /\ SubjectsFollow

\* No rule is left without a destination by a deletion: such a rule would
\* swallow the traffic it matches.  (action property)
NoRuleDisarmed ==
  [][(OutboundDeleteOk \/ BalancerDeleteOk) =>
       \A i \in DOMAIN rules' :
         rules'[i] = [out |-> NoTag, bal |-> NoTag] => rules'[i] \in ToSet(rules)]_vars

\* What a deletion does is what its dialog announced, when no answer changed
\* the template while the dialog was open.  (action property)
DeletesAsAnnounced ==
  [][(OutboundDeleteOk \/ BalancerDeleteOk) /\ "late" \notin taint =>
        LET plan == dialog.plan
            gone == {i \in DOMAIN rules : plan.fates[i] = "removed"}
        IN /\ Len(rules') = Len(rules) - Cardinality(gone)
           /\ \A i \in DOMAIN rules :
                plan.fates[i] = "untouched" => rules[i] \in ToSet(rules')
           /\ TagsOf(balancers') = TagsOf(balancers) \ plan.bals
           /\ plan.burst = (burst.on /\ ~ burst'.on)
           /\ plan.observatory = (observatory.on /\ ~ observatory'.on)
    ]_vars
=============================================================================
