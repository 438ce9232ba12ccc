------------------------------ MODULE XrayBasics ------------------------------
(***************************************************************************)
(* The plain controls of the Xray page that edit the template without      *)
(* showing it: the basic tab, the basic routing lists and the observers'   *)
(* settings (frontend/src/pages/xray/basics/, routing/RoutingBasic,        *)
(* balancers/ObservatorySettingsTab).  A list gathers the entries of every *)
(* rule of its outbound and writes them back into one rule, which brings   *)
(* the outbound into being and takes it away.                              *)
(***************************************************************************)
EXTENDS Naturals, FiniteSets, Sequences, SequencesExt

CONSTANTS
  ListEntries,   \* the entries of a list: geo names
  Missing,    \* a property or an object that is not there
  MaxKnobs   \* bound: controls changed

\* The outbounds that the controls tell apart, and what they set on the direct one.
OutboundTags == {"direct", "blocked", "IPv4", "other"}
DirectSettings == [strategy : {Missing, "AsIs", "UseIP"}, happy : {Missing, "on"}, otherSockopt : BOOLEAN]

\* What a rule lists: entries of the lists and those that templates come with.
Properties == {"ip", "domain", "protocol"}
RuleEntries == ListEntries \cup {"private", "bittorrent"}
RuleData == Seq(RuleEntries) \cup {Missing}
TemplateRules == {rule \in [Properties \cup {"outboundTag"} -> RuleData \cup OutboundTags] :
                    \A p \in Properties : rule[p] \in RuleData}

ASSUME BasicsAssumption ==
  /\ Missing \notin ListEntries /\ Missing \notin DirectSettings
  /\ Missing \notin Seq(RuleEntries) /\ Missing \notin Seq(TemplateRules)

VARIABLES
  tt,        \* the template, as far as these controls go
  chosen,    \* history: the list that was edited last and what was chosen
  cleared,   \* history: an edit cleared a rule of more than one property, or
             \* several rules with several properties became one
  knobs

basicsVars == <<tt, chosen, cleared, knobs>>

Lists == {<<"blocked", "ip">>, <<"blocked", "domain">>, <<"blocked", "protocol">>,
          <<"direct", "ip">>, <<"direct", "domain">>, <<"IPv4", "domain">>}

NewRule(tag, p, data) == [q \in Properties \cup {"outboundTag"} |->
                            IF q = "outboundTag" THEN tag ELSE IF q = p THEN data ELSE Missing]

directSettings == [strategy |-> Missing, happy |-> Missing, otherSockopt |-> FALSE]

Matches(rule, tag, p) == rule.outboundTag = tag /\ rule[p] # Missing

\* What a list shows: the entries of all its rules.
ruleGetter(t, tag, p) ==
  IF t.rules = Missing THEN <<>>
  ELSE FlattenSeq([i \in DOMAIN t.rules |->
                     IF Matches(t.rules[i], tag, p) THEN t.rules[i][p] ELSE <<>>])

\* ruleSetter: the first rule of the list gets the entries and the others go; a
\* list without entries leaves no rule, whatever else the rules said.
ruleSetter(t, tag, p, data) ==
  IF t.rules = Missing THEN t
  ELSE IF ruleGetter(t, tag, p) = <<>> THEN [t EXCEPT !.rules = Append(@, NewRule(tag, p, data))]
  ELSE LET first == CHOOSE i \in DOMAIN t.rules :
                      Matches(t.rules[i], tag, p)
                        /\ \A j \in 1..(i - 1) : ~Matches(t.rules[j], tag, p)
       IN [t EXCEPT !.rules =
             FlattenSeq([i \in DOMAIN t.rules |->
               IF ~Matches(t.rules[i], tag, p) THEN <<t.rules[i]>>
               ELSE IF i = first /\ data # <<>> THEN <<[t.rules[i] EXCEPT ![p] = data]>>
               ELSE <<>>])]

\* syncOutbound: without rules the outbound goes unless it is the first, which
\* is the default; with rules it is there.
syncOutbound(t, tag) ==
  IF t.rules = Missing THEN t
  ELSE LET used == \E i \in DOMAIN t.rules : t.rules[i].outboundTag = tag
           there == tag \in ToSet(t.outbounds)
       IN [t EXCEPT
             !.outbounds = IF used /\ ~there THEN Append(@, tag)
                           ELSE IF ~used /\ there /\ @[1] # tag
                                THEN RemoveAt(@, CHOOSE i \in DOMAIN @ : @[i] = tag)
                           ELSE @,
             !.direct = IF tag = "direct" /\ used # there /\ ~(there /\ t.outbounds[1] = tag)
                        THEN (IF used THEN directSettings ELSE Missing) ELSE @]

-----------------------------------------------------------------------------
\* Templates as they come: the shipped one, one whose direct outbound is not the
\* default, one with a rule of two properties, and one that lost its parts.
Shipped == [rules |-> <<NewRule("blocked", "ip", <<"private">>), NewRule("blocked", "protocol", <<"bittorrent">>)>>,
            outbounds |-> <<"direct", "blocked">>,
            direct |-> directSettings, routing |-> "AsIs", log |-> "warning",
            metrics |-> [tag |-> "m", listen |-> "l"], stats |-> TRUE,
            policy |-> [level |-> Missing, stats |-> FALSE], observer |-> Missing, burst |-> Missing]

BasicsInit ==
  /\ tt \in {Shipped,
             [Shipped EXCEPT !.outbounds = <<"other", "direct", "blocked">>,
                !.rules = Append(@, NewRule("direct", "domain", <<"private">>)),
                !.direct = [@ EXCEPT !.otherSockopt = TRUE, !.strategy = "UseIP"],
                !.observer = [subjects |-> "s", probe |-> Missing],
                !.burst = [subjects |-> "s", ping |-> "p", sampling |-> 1]],
             [Shipped EXCEPT !.rules = <<[NewRule("blocked", "ip", <<"private">>) EXCEPT !.domain = <<"private">>],
                                         NewRule("blocked", "ip", <<"bittorrent">>)>>],
             [Shipped EXCEPT !.rules = Missing, !.routing = Missing, !.log = Missing, !.metrics = Missing,
                !.stats = FALSE, !.direct = Missing, !.outbounds = <<"other">>]}
  /\ chosen = Missing /\ cleared = FALSE /\ knobs = 0

\* mutate: an edit of a clone of the template.
mutate(next) ==
  /\ knobs < MaxKnobs /\ knobs' = knobs + 1
  /\ next # tt /\ tt' = next
  /\ cleared' = FALSE

Chosen(tag, p, data) == [list |-> <<tag, p>>, data |-> data]

\* The rules an edit of a list writes over say something else as well.
Combined(tag, p) ==
  tt.rules # Missing /\ \E i \in DOMAIN tt.rules :
    Matches(tt.rules[i], tag, p) /\ \E q \in Properties \ {p} : tt.rules[i][q] # Missing

WithoutEntry(s, e) == FlattenSeq([i \in DOMAIN s |-> IF s[i] = e THEN <<>> ELSE <<s[i]>>])

\* A list is edited by adding an entry at its end or by removing one; the list
\* of blocked addresses, domains and protocols (a switch) brings no outbound.
EditList(tag, p) ==
  \E e \in IF p = "protocol" THEN ListEntries \cap {"bittorrent"} ELSE ListEntries :
    LET was == ruleGetter(tt, tag, p)
        data == IF e \in ToSet(was) THEN WithoutEntry(was, e) ELSE Append(was, e)
        t == ruleSetter(tt, tag, p, data)
    IN /\ knobs < MaxKnobs /\ knobs' = knobs + 1
       /\ tt' = IF tag = "blocked" THEN t ELSE syncOutbound(t, tag)
       /\ chosen' = Chosen(tag, p, data)
       /\ cleared' = Combined(tag, p)

\* The outbound named direct is added when it is missing.
WithDirect(t) ==
  IF t.direct # Missing THEN t
  ELSE [t EXCEPT !.outbounds = Append(@, "direct"), !.direct = directSettings]

PickFreedomStrategy(s) ==
  /\ mutate([WithDirect(tt) EXCEPT !.direct.strategy = s])
  /\ UNCHANGED chosen

setDirectHappyEyeballs(h) ==
  /\ h # IF tt.direct = Missing THEN Missing ELSE tt.direct.happy
  /\ mutate([WithDirect(tt) EXCEPT !.direct.happy = h])
  /\ UNCHANGED chosen

\* These two do nothing in a template without routing or without log.
PickRoutingStrategy(s) ==
  tt.rules # Missing /\ mutate([tt EXCEPT !.routing = s]) /\ UNCHANGED chosen
PickLogLevel(l) == tt.log # Missing /\ mutate([tt EXCEPT !.log = l]) /\ UNCHANGED chosen

\* setMetrics: the metrics go with their last field, and bring the stats.
setMetrics(field, v) ==
  LET was == IF tt.metrics = Missing THEN [tag |-> Missing, listen |-> Missing] ELSE tt.metrics
      m == [was EXCEPT ![field] = v]
      gone == m = [tag |-> Missing, listen |-> Missing]
  IN /\ mutate([tt EXCEPT !.metrics = IF gone THEN Missing ELSE m, !.stats = @ \/ ~gone])
     /\ UNCHANGED chosen

\* The two fields of the metrics; what may be typed in a field, or cleared.
MetricsFields == {"tag", "listen"}
LevelValues == {Missing, "typed"}

setLevel0(v) == mutate([tt EXCEPT !.policy.level = v]) /\ UNCHANGED chosen
SwitchStatistic(on) == mutate([tt EXCEPT !.policy.stats = on]) /\ UNCHANGED chosen

\* The section of an observer is shown when the template has it.
patchObservatory ==
  tt.observer # Missing /\ mutate([tt EXCEPT !.observer.probe = "typed"]) /\ UNCHANGED chosen
patchPingConfig ==
  tt.burst # Missing /\ mutate([tt EXCEPT !.burst.ping = "typed"]) /\ UNCHANGED chosen

BasicsNext ==
  \/ \E l \in Lists : EditList(l[1], l[2])
  \/ \E s \in {"AsIs", "UseIP"} : PickFreedomStrategy(s)
  \/ \E h \in {Missing, "on"} : setDirectHappyEyeballs(h)
  \/ \E s \in {"AsIs", "IPOnDemand"} : PickRoutingStrategy(s)
  \/ \E l \in {"none", "warning"} : PickLogLevel(l)
  \/ \E field \in MetricsFields, v \in LevelValues : setMetrics(field, v)
  \/ \E v \in LevelValues : setLevel0(v)
  \/ \E on \in BOOLEAN : SwitchStatistic(on)
  \/ patchObservatory \/ patchPingConfig

BasicsSpec == BasicsInit /\ [][BasicsNext]_basicsVars

-----------------------------------------------------------------------------
BasicsTypeOK ==
  /\ tt.direct # Missing <=> "direct" \in ToSet(tt.outbounds)
  /\ Cardinality(ToSet(tt.outbounds)) = Len(tt.outbounds)

\* A list shows afterwards what was chosen in it, in one rule or none, and every
\* other list shows what it did, unless the edited rules said more than the list.
ListsReadBack ==
  (chosen' # chosen /\ tt.rules # Missing) =>
    \A l \in Lists :
      \/ l = chosen'.list /\ ruleGetter(tt', l[1], l[2]) = chosen'.data
      \/ l # chosen'.list /\ (cleared' \/ ruleGetter(tt', l[1], l[2]) = ruleGetter(tt, l[1], l[2]))

\* What a control does not show it leaves alone: the other outbounds, the socket
\* options of the direct one, the subjects of an observer.
UnshownKept ==
  /\ (tt.direct # Missing /\ tt'.direct # Missing) => tt'.direct.otherSockopt = tt.direct.otherSockopt
  /\ (tt.observer # Missing => tt'.observer.subjects = tt.observer.subjects)
  /\ (tt.burst # Missing => tt'.burst.subjects = tt.burst.subjects /\ tt'.burst.sampling = tt.burst.sampling)
  /\ tt'.outbounds[1] = tt.outbounds[1]

\* Metrics are never asked for without the stats they are made from.
MetricsHaveStats == tt.metrics # Missing => tt.stats
=============================================================================
