----------------------------- MODULE InboundForm -----------------------------
(***************************************************************************)
(* The dialog that adds and edits an inbound                               *)
(* (frontend/src/pages/inbounds/form/InboundFormModal.tsx), with its card  *)
(* of fallback rows (useInboundFallbacks.ts), which are loaded and saved   *)
(* by requests of their own, the keys a security tab asks the server for   *)
(* (useSecurityActions.ts) and the effect that keeps the strategy of the   *)
(* share address inside what can be offered.                               *)
(*                                                                         *)
(* An inbound is its protocol, its stream settings, the strategy of its    *)
(* share address and its fallback rows.  Stream settings are a network, a  *)
(* security, the slices present in the object (one per network, per        *)
(* security and for the socket options), those of them that differ from    *)
(* the defaults, whether the mKCP mask is there, and the REALITY key.      *)
(* A fallback row is the inbound it points at, or a typed destination.     *)
(***************************************************************************)
EXTENDS Naturals, Sequences, FiniteSets, SequencesExt

CONSTANTS
  Masters,         \* the inbounds the panel starts with, and a name for an added one
  FirstInbounds,   \* what is stored for those that exist: inbound -> record
  Targets,         \* what a fallback row may point at
  Nowhere,         \* a row that points nowhere
  Dest,            \* a target that is a typed destination, not an inbound
  Protocols, Networks,
  MaxKeyPair, MaxOpens, MaxTypedInbound   \* bounds: keys made, dialogs opened, changes typed

Secured == {"tls", "reality"}
Slices == Networks \cup {"hysteria"} \cup Secured \cup {"sockopt"}
Streams == [network: Networks \cup {"hysteria", "none"}, security: Secured \cup {"none"},
            slices: SUBSET Slices, edited: SUBSET Slices, mask: BOOLEAN, key: 0..MaxKeyPair]
StreamOneTransport(s) ==
  /\ s.slices \ {"sockopt"} = {s.network, s.security} \ {"none"}
  /\ s.mask => s.network = "kcp"

ASSUME InboundFormAssumption ==
  /\ {"tcp"} \subseteq Networks
  /\ Networks \subseteq {"tcp", "kcp", "ws", "grpc", "httpupgrade", "xhttp"}
  /\ {"vless", "hysteria"} \subseteq Protocols
  /\ DOMAIN FirstInbounds \subseteq Masters
  /\ \A i \in DOMAIN FirstInbounds :
       LET f == FirstInbounds[i]
       IN /\ f = [protocol |-> f.protocol, stream |-> f.stream, strategy |-> f.strategy, rows |-> f.rows]
          /\ f.protocol \in Protocols /\ f.strategy \in {"node", "listen"}
          /\ f.stream \in Streams /\ f.stream.edited \subseteq f.stream.slices
          /\ StreamOneTransport(f.stream)
          /\ "reality" \notin f.stream.slices => f.stream.key = 0
          /\ f.rows \in Seq(Targets)
  /\ "no inbound" \notin Masters
  /\ Dest \in Targets /\ Nowhere \notin Targets /\ IsFiniteSet(Targets)
  /\ MaxKeyPair \in Nat /\ MaxOpens \in Nat /\ MaxTypedInbound \in Nat

VARIABLES
  inboundsStored,   \* the server
  nodesKnown,       \* availableNodes: "waiting", "some" enabled node, "none" or failed
  inbForm,          \* [open, mode, of]: the dialog and the inbound it edits
  inbFields,        \* what the form holds: protocol, stream, strategy
  watched,          \* Form.useWatch has delivered the protocol since the dialog opened
  rows_,            \* the fallback rows shown
  loadsAsked,       \* GET fallbacks under way: the inbounds they are for
  keysAsked,        \* GET key pair under way: the number of the dialog that asked
  inbSaving,        \* the save under way
  inbAlibi          \* history: which dialog this is, what was changed, whose rows are
                    \* shown, and whether another dialog's key arrived

inbVars == <<inboundsStored, nodesKnown, inbForm, inbFields, watched, rows_,
             loadsAsked, keysAsked, inbSaving, inbAlibi>>

\* What tells two states apart: a dialog is filled, and its history begun, when it opens.
inbShown == <<inboundsStored, nodesKnown, inbForm, rows_, loadsAsked, keysAsked, inbSaving,
              inbAlibi.dialog, inbAlibi.changes,
              IF inbForm.open THEN <<inbFields, watched, inbAlibi>> ELSE <<>>>>

NoMaster == "no inbound"
NodeEligible == Protocols \ {"tunnel"}
FlexibleNetwork == Protocols \ {"hysteria", "wireguard", "amneziawg", "tunnel"}
Fields == [protocol: Protocols, stream: Streams, strategy: {"node", "listen"}]
Bare == [network |-> "none", security |-> "none", slices |-> {}, edited |-> {},
         mask |-> FALSE, key |-> 0]
Tcp == [Bare EXCEPT !.network = "tcp", !.slices = {"tcp"}]
HysteriaStream == [Bare EXCEPT !.network = "hysteria", !.security = "tls",
                   !.slices = {"hysteria", "tls"}]
AddedFields == [protocol |-> "vless", stream |-> Tcp, strategy |-> "node"]
NoSave == [stage |-> "none"]
FieldsOf(i) == [protocol |-> inboundsStored[i].protocol, stream |-> inboundsStored[i].stream,
                strategy |-> inboundsStored[i].strategy]

IsFallbackHost(f) == /\ f.protocol \in {"vless", "trojan"}
                     /\ f.stream.network = "tcp" /\ f.stream.security \in Secured

InboundFormInit ==
  /\ inboundsStored = FirstInbounds
  /\ nodesKnown = "waiting"
  /\ inbForm = [open |-> FALSE, mode |-> "add", of |-> NoMaster]
  /\ inbFields = AddedFields
  /\ watched = FALSE
  /\ rows_ = << >>
  /\ loadsAsked = {}
  /\ keysAsked = {}
  /\ inbSaving = NoSave
  /\ inbAlibi = [dialog |-> 0, changes |-> 0, typed |-> FALSE, rowsTyped |-> FALSE, rowsOf |-> NoMaster,
                 late |-> FALSE]

(***************************************************************************)
(* The effect on the strategy.  "node" gives way to "listen" when no node  *)
(* can be offered, but only once the list of nodes has been fetched and    *)
(* the form has said what its protocol is.                                 *)
(***************************************************************************)
StrategyUnsettled(f, nodes, seen) ==
  IF nodes # "some" /\ f.strategy = "node" THEN [f EXCEPT !.strategy = "listen"] ELSE f

StrategyEffect(f, nodes, seen) ==
  IF nodes = "waiting" \/ ~seen THEN f
  ELSE IF ~(nodes = "some" /\ f.protocol \in NodeEligible) /\ f.strategy = "node"
  THEN [f EXCEPT !.strategy = "listen"]
  ELSE f

NodesArrive ==
  /\ nodesKnown = "waiting"
  /\ nodesKnown' \in {"some", "none"}
  /\ inbFields' = IF inbForm.open THEN StrategyEffect(inbFields, nodesKnown', watched) ELSE inbFields
  /\ UNCHANGED <<inboundsStored, inbForm, watched, rows_, loadsAsked, keysAsked, inbSaving, inbAlibi>>

(* The second render after the dialog opened: the watched values are there. *)
Rendered ==
  /\ inbForm.open /\ ~watched
  /\ watched' = TRUE
  /\ inbFields' = StrategyEffect(inbFields, nodesKnown, TRUE)
  /\ UNCHANGED <<inboundsStored, nodesKnown, inbForm, rows_, loadsAsked, keysAsked, inbSaving, inbAlibi>>

(***************************************************************************)
(* Opening and closing.  An edit of a VLESS or Trojan inbound asks for its *)
(* fallback rows and shows the former ones meanwhile; every other dialog   *)
(* starts without rows.                                                    *)
(***************************************************************************)
NewDialog == /\ inbAlibi.dialog < MaxOpens /\ ~inbForm.open /\ watched' = FALSE
             /\ UNCHANGED <<inboundsStored, nodesKnown, keysAsked, inbSaving>>

onAddInbound ==
  /\ NewDialog
  /\ inbForm' = [open |-> TRUE, mode |-> "add", of |-> NoMaster]
  /\ inbFields' = StrategyEffect(AddedFields, nodesKnown, FALSE)
  /\ rows_' = << >>
  /\ inbAlibi' = [inbAlibi EXCEPT !.dialog = @ + 1, !.typed = FALSE,
                  !.rowsTyped = FALSE, !.rowsOf = NoMaster, !.late = FALSE]
  /\ UNCHANGED loadsAsked

openEdit(i) ==
  /\ NewDialog
  /\ i \in DOMAIN inboundsStored
  /\ inbForm' = [open |-> TRUE, mode |-> "edit", of |-> i]
  /\ inbFields' = StrategyEffect(FieldsOf(i), nodesKnown, FALSE)
  /\ LET hasRows == FieldsOf(i).protocol \in {"vless", "trojan"} IN
     /\ loadsAsked' = IF hasRows THEN loadsAsked \cup {i} ELSE loadsAsked
     /\ rows_' = IF hasRows THEN rows_ ELSE << >>
     /\ inbAlibi' = [inbAlibi EXCEPT !.dialog = @ + 1, !.typed = FALSE,
          !.rowsTyped = FALSE, !.rowsOf = IF hasRows THEN NoMaster ELSE i, !.late = FALSE]

CloseInboundForm ==
  /\ inbForm.open
  /\ inbForm' = [inbForm EXCEPT !.open = FALSE]
  /\ UNCHANGED <<inboundsStored, nodesKnown, inbFields, watched, rows_, loadsAsked,
                 keysAsked, inbSaving, inbAlibi>>

(* loadFallbacks: whatever dialog is open when the answer comes, it fills   *)
(* the card; a failure empties it.                                         *)
loadFallbacks(i) ==
  /\ i \in loadsAsked
  /\ loadsAsked' = loadsAsked \ {i}
  /\ \/ rows_' = inboundsStored[i].rows /\ inbAlibi' = [inbAlibi EXCEPT !.rowsOf = i, !.rowsTyped = FALSE]
     \/ rows_' = << >> /\ inbAlibi' = [inbAlibi EXCEPT !.rowsOf = NoMaster]
  /\ UNCHANGED <<inboundsStored, nodesKnown, inbForm, inbFields, watched, keysAsked, inbSaving>>

(***************************************************************************)
(* Typing.  What is typed while a save runs does not travel with it; here  *)
(* nothing is typed then.                                                  *)
(***************************************************************************)
Typing == inbForm.open /\ inbSaving = NoSave /\ inbAlibi.changes < MaxTypedInbound

SetFields(f) ==
  /\ Typing
  /\ inbFields' = StrategyEffect(f, nodesKnown, watched)
  /\ UNCHANGED <<inboundsStored, nodesKnown, inbForm, watched, rows_, loadsAsked, inbSaving>>

Typed == inbAlibi' = [inbAlibi EXCEPT !.typed = TRUE, !.changes = @ + 1]

(* onNetworkChange: the slice of the new network replaces all the others,   *)
(* and mKCP brings its mask along.                                         *)
NetworkSwitched(s, n) ==
  [s EXCEPT !.network = n,
            !.slices = (@ \ Networks) \cup {n},
            !.edited = @ \ Networks,
            !.mask = n = "kcp"]

ChangeNetwork(n) ==
  /\ inbFields.protocol \in FlexibleNetwork /\ n # inbFields.stream.network
  /\ SetFields([inbFields EXCEPT !.stream = NetworkSwitched(@, n)])
  /\ Typed /\ UNCHANGED keysAsked

(* onSecurityChange: fresh slices; REALITY also asks for a key pair.        *)
onSecurityChange(s) ==
  LET was == inbFields.stream IN
  /\ inbFields.stream.security # s
  /\ inbFields.protocol \in {"vless", "trojan", "vmess", "shadowsocks"}
  /\ inbFields.stream.network # "kcp"
  /\ s = "reality" => inbFields.protocol \in {"vless", "trojan"} /\ inbFields.stream.network = "tcp"
  /\ SetFields([inbFields EXCEPT !.stream =
       [was EXCEPT !.security = s,
                   !.slices = (was.slices \ Secured) \cup ({s} \cap Secured),
                   !.edited = was.edited \ Secured,
                   !.key = 0]])
  /\ keysAsked' = IF s = "reality" THEN keysAsked \cup {inbAlibi.dialog} ELSE keysAsked
  /\ Typed

genRealityKeypair ==
  /\ inbFields.stream.security = "reality"
  /\ keysAsked' = keysAsked \cup {inbAlibi.dialog}
  /\ SetFields(inbFields) /\ Typed

(* The pair arrives and is written into whatever the form holds by then.    *)
KeyAnswered(d, ok) ==
  LET was == inbFields.stream
      fresh == was.key + 1
  IN
  /\ d \in keysAsked
  /\ keysAsked' = keysAsked \ {d}
  /\ IF ok /\ fresh <= MaxKeyPair
     THEN /\ inbFields' = [inbFields EXCEPT !.stream =
               [was EXCEPT !.key = fresh, !.slices = was.slices \cup {"reality"},
                           !.edited = was.edited \cup {"reality"}]]
          /\ inbAlibi' = [inbAlibi EXCEPT !.late = @ \/ d # inbAlibi.dialog]
     ELSE UNCHANGED <<inbFields, inbAlibi>>
  /\ UNCHANGED <<inboundsStored, nodesKnown, inbForm, watched, rows_, loadsAsked, inbSaving>>

(* The inputs of a slice that is shown: the transport's, TLS or REALITY,    *)
(* socket options (whose switch adds and removes the slice).               *)
EditSlice(part) ==
  LET was == inbFields.stream IN
  /\ part \in was.slices /\ part \notin was.edited
  /\ SetFields([inbFields EXCEPT !.stream = [was EXCEPT !.edited = was.edited \cup {part}]])
  /\ Typed /\ UNCHANGED keysAsked
EditTransport == inbFields.protocol \in FlexibleNetwork /\ EditSlice(inbFields.stream.network)
EditTls == inbFields.stream.security = "tls" /\ EditSlice("tls")
EditReality == inbFields.stream.security = "reality" /\ EditSlice("reality")
EditSockopt == EditSlice("sockopt")
toggleSockopt ==
  LET was == inbFields.stream IN
  /\ SetFields([inbFields EXCEPT !.stream =
       [was EXCEPT !.slices = (was.slices \ {"sockopt"}) \cup ({"sockopt"} \ was.slices),
                   !.edited = was.edited \ {"sockopt"}]])
  /\ Typed /\ UNCHANGED keysAsked
EditStrategy(s) ==
  /\ s # inbFields.strategy
  /\ s = "node" => nodesKnown = "some" /\ inbFields.protocol \in NodeEligible
  /\ SetFields([inbFields EXCEPT !.strategy = s])
  /\ Typed /\ UNCHANGED keysAsked

(* onValuesChange: another protocol, while adding only.  AmneziaWG merges   *)
(* its provision into the stream settings instead of replacing them.       *)
ChangeProtocol(p) ==
  /\ inbForm.mode = "add" /\ p # inbFields.protocol
  /\ SetFields([inbFields EXCEPT !.protocol = p, !.stream =
       IF p = "amneziawg" THEN [@ EXCEPT !.security = "none"]
       ELSE IF p = "hysteria" THEN HysteriaStream
       ELSE IF p \in {"wireguard", "tunnel"} THEN Bare
       ELSE IF @.network \in {"hysteria", "none"} THEN Tcp
       ELSE @])
  /\ Typed /\ UNCHANGED keysAsked

(* The card of fallback rows: add, point at a target, remove, move, add     *)
(* every inbound that has no row yet.                                      *)
SetRows(rs) ==
  /\ Typing /\ IsFallbackHost(inbFields)
  /\ rs # rows_ /\ Len(rs) <= Cardinality(Targets)
  /\ rows_' = rs
  /\ inbAlibi' = [inbAlibi EXCEPT !.typed = TRUE, !.changes = @ + 1, !.rowsTyped = TRUE]
  /\ UNCHANGED <<inboundsStored, nodesKnown, inbForm, inbFields, watched, loadsAsked,
                 keysAsked, inbSaving>>
addFallback == SetRows(Append(rows_, Nowhere))
updateFallback == \E k \in DOMAIN rows_, x \in Targets : SetRows([rows_ EXCEPT ![k] = x])
removeFallback == \E k \in DOMAIN rows_ : SetRows(RemoveAt(rows_, k))
moveFallback == \E k \in DOMAIN rows_ : k > 1 /\ SetRows([rows_ EXCEPT ![k - 1] = rows_[k], ![k] = rows_[k - 1]])
addAllFallbacks == SetRows(rows_ \o SetToSeq((Targets \ {Dest, inbForm.of}) \ ToSet(rows_)))

(***************************************************************************)
(* Saving: the inbound, then, for a fallback host, its rows; whether the   *)
(* second request succeeds is not looked at.                               *)
(***************************************************************************)
(* A row counts only when it points at an inbound. *)
InboundRowsOnly(rs) == SelectSeq(rs, LAMBDA x : x \notin {Nowhere, Dest})

(* saveFallbacks leaves out the rows that point nowhere: the j-th row sent is *)
(* the one that has j - 1 others to send before it.                        *)
RowsSent(rs) ==
  LET sent == {k \in DOMAIN rs : rs[k] # Nowhere}
      Nth(j) == CHOOSE k \in sent : Cardinality(sent \cap 1..k) = j
  IN [j \in 1..Cardinality(sent) |-> rs[Nth(j)]]

(* What the form holds is sent, whatever is chosen. *)
Unparsed(f) == f

(* InboundFormSchema: of the slices only those of the chosen network and     *)
(* security pass, with the socket options.                                 *)
Parsed(f) ==
  LET s == f.stream
      kept == s.slices \cap {s.network, s.security, "sockopt"}
  IN [f EXCEPT !.stream =
        [s EXCEPT !.slices = kept, !.edited = s.edited \cap kept,
                  !.key = IF "reality" \in kept THEN s.key ELSE 0]]

submit ==
  LET f == Parsed(inbFields)
      i == inbForm.of
      edit == inbForm.mode = "edit"
  IN
  /\ inbForm.open /\ inbSaving = NoSave
  /\ edit \/ Masters \ DOMAIN inboundsStored # {}
  /\ inbSaving' = [stage |-> "inbound", of |-> i, fields |-> f, rows |-> RowsSent(rows_),
                   host |-> IsFallbackHost(f),
                   faithful |-> /\ edit /\ ~inbAlibi.typed /\ ~inbAlibi.late
                                /\ inbAlibi.rowsOf = i /\ ~inbAlibi.rowsTyped
                                /\ FieldsOf(i).strategy = "node" =>
                                     nodesKnown # "none" /\ f.protocol \in NodeEligible]
  /\ UNCHANGED <<inboundsStored, nodesKnown, inbForm, inbFields, watched, rows_,
                 loadsAsked, keysAsked, inbAlibi>>

(* The server stores the inbound, an added one under a name of its own, or  *)
(* refuses; then the rows are sent, or the dialog closes.                  *)
InboundAnswered(ok) ==
  LET s == inbSaving
      i == IF s.of = NoMaster THEN CHOOSE x \in Masters : x \notin DOMAIN inboundsStored ELSE s.of
      before == IF s.of = NoMaster THEN << >> ELSE inboundsStored[i].rows
      record == [protocol |-> s.fields.protocol, stream |-> s.fields.stream,
                 strategy |-> s.fields.strategy, rows |-> before]
  IN
  /\ s.stage = "inbound"
  /\ IF ok
     THEN /\ inboundsStored' = [x \in DOMAIN inboundsStored \cup {i} |->
                                  IF x = i THEN record ELSE inboundsStored[x]]
          /\ inbSaving' = IF s.host THEN [s EXCEPT !.stage = "rows", !.of = i] ELSE NoSave
          /\ inbForm' = IF s.host THEN inbForm ELSE [inbForm EXCEPT !.open = FALSE]
     ELSE inbSaving' = NoSave /\ UNCHANGED <<inboundsStored, inbForm>>
  /\ UNCHANGED <<nodesKnown, inbFields, watched, rows_, loadsAsked, keysAsked, inbAlibi>>

saveFallbacks(ok) ==
  LET s == inbSaving IN
  /\ s.stage = "rows"
  /\ inboundsStored' = IF ok THEN [inboundsStored EXCEPT ![s.of].rows = s.rows] ELSE inboundsStored
  /\ inbSaving' = NoSave
  /\ inbForm' = [inbForm EXCEPT !.open = FALSE]
  /\ UNCHANGED <<nodesKnown, inbFields, watched, rows_, loadsAsked, keysAsked, inbAlibi>>

InboundFormNext ==
  \/ NodesArrive \/ Rendered \/ onAddInbound \/ CloseInboundForm
  \/ \E i \in Masters : openEdit(i) \/ loadFallbacks(i)
  \/ \E n \in Networks : ChangeNetwork(n)
  \/ \E s \in Secured \cup {"none"} : onSecurityChange(s)
  \/ \E d \in keysAsked, ok \in BOOLEAN : KeyAnswered(d, ok)
  \/ \E p \in Protocols : ChangeProtocol(p)
  \/ \E s \in {"node", "listen"} : EditStrategy(s)
  \/ genRealityKeypair \/ EditTransport \/ EditTls \/ EditReality \/ EditSockopt \/ toggleSockopt
  \/ addFallback \/ updateFallback \/ removeFallback \/ moveFallback \/ addAllFallbacks
  \/ submit
  \/ \E ok \in BOOLEAN : InboundAnswered(ok) \/ saveFallbacks(ok)

InboundFormSpec == InboundFormInit /\ [][InboundFormNext]_inbVars

-----------------------------------------------------------------------------
InboundFormTypeOK ==
  /\ \A i \in DOMAIN inboundsStored :
       /\ FieldsOf(i) \in Fields
       /\ ToSet(inboundsStored[i].rows) \subseteq Targets
  /\ inbFields \in Fields
  /\ inbFields.stream.edited \subseteq inbFields.stream.slices
  /\ inbForm.of \in Masters \cup {NoMaster}
  /\ ToSet(rows_) \subseteq Targets \cup {Nowhere}
  /\ loadsAsked \subseteq DOMAIN inboundsStored

(* Whatever was switched in the dialog, and whenever a key arrived, an      *)
(* inbound is stored with the slice of one network and of one security, the *)
(* chosen ones, and with mKCP's mask under mKCP only.                       *)
OneTransport == \A i \in DOMAIN inboundsStored : StreamOneTransport(inboundsStored[i].stream)

(* Opening an inbound and saving it without a change leaves it as it was,   *)
(* strategy, keys and fallback rows included, when its rows had been shown  *)
(* and a node can still be offered.                                        *)
InboundKept ==
  \A i \in DOMAIN inboundsStored :
    inboundsStored'[i] # inboundsStored[i] => ~inbSaving.faithful
=============================================================================
