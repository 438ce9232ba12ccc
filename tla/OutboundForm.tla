---------------------------- MODULE OutboundForm ----------------------------
(***************************************************************************)
(* The dialog that adds and edits an outbound                              *)
(* (frontend/src/pages/xray/outbounds/OutboundFormModal.tsx).  It has two  *)
(* tabs over one outbound: a form, and the JSON of what the form stands    *)
(* for, which may be typed over and pasted as a share link.  The adapter   *)
(* (lib/xray/outbound-form-adapter.ts) turns the one into the other, so an *)
(* outbound crosses it once per change of the tab and twice per edit.      *)
(*                                                                         *)
(* An outbound is its protocol, its tag, its flow, its mux, its stream and *)
(* a detail, the part of the settings in which the adapter's treatment     *)
(* depends on the protocol; "foreign" is what the form has no field for    *)
(* (a second server, proxySettings, an unknown key of the settings).       *)
(***************************************************************************)
EXTENDS Naturals

CONSTANTS
  Opened,     \* the outbounds of the list
  Pasted,     \* the outbounds that are typed as JSON or pasted as a link
  OtherTags,  \* the tags of the rest of the list
  MaxEdits    \* bound: changes made in the dialogs

\* The values that the adapter tells apart; "unset" is what is absent or empty.
Protocols_ == {"vless", "trojan", "hysteria", "wireguard", "freedom", "dns", "loopback"}
Stream == [network: {"unset", "tcp", "ws", "xhttp", "hysteria"}, security: {"none", "tls", "reality"},
           names: {"unset", "sni"}, sock: {"unset", "mark", "defaults"},
           masks: SUBSET {"tcp", "udp", "quic"},
           xmux: {"unset", "connections", "concurrency", "both"}]
Outbound == [protocol: Protocols_ \cup {"nothing", "broken", "empty", "unknown"},
             tag: {"unset", "own"} \cup OtherTags, foreign: {"unset", "proxySettings"},
             flow: {"unset", "vision"},
             detail: {"unset", "seed", "port 53", "ipsBlocked", "block rule", "sniffing off"},
             mux: BOOLEAN, stream: Stream]

ASSUME OutboundFormAssumption ==
  /\ Opened \subseteq Outbound /\ Pasted \subseteq Outbound
  /\ MaxEdits \in Nat

VARIABLES
  outDialog,   \* [open, of, tab, dirty]: outboundProp, activeKey and jsonDirty
  outForm,     \* the form's store
  outText,     \* jsonText: an outbound, or text that is none
  outLatest,   \* history: what the operator last made of the outbound, in wire form
  confirmed,   \* what onConfirm was called with, until the next dialog opens
  outEdits     \* bound: changes made so far

outboundVars == <<outDialog, outForm, outText, outLatest, confirmed, outEdits>>

Plain == [network |-> "unset", security |-> "none", names |-> "unset", sock |-> "unset",
          masks |-> {}, xmux |-> "unset"]
Blank == [protocol |-> "vless", tag |-> "unset", foreign |-> "unset", flow |-> "unset",
          detail |-> "unset", mux |-> FALSE, stream |-> Plain]
Nothing == [Blank EXCEPT !.protocol = "nothing"]
BrokenJson == [Blank EXCEPT !.protocol = "broken"]    \* text that does not parse
Empty == [Blank EXCEPT !.protocol = "empty"]      \* no text

OutboundFormInit ==
  /\ outDialog = [open |-> FALSE, of |-> Nothing, tab |-> "form", dirty |-> FALSE]
  /\ outForm = Nothing
  /\ outText = Empty
  /\ outLatest = Nothing
  /\ confirmed = Nothing
  /\ outEdits = 0

-----------------------------------------------------------------------------
(* outbound-form-adapter.ts *)

\* What the form holds of the settings: the default port of a DNS outbound is
\* filled in, a freedom outbound's old block list becomes a final rule.
DetailRead(w) ==
  CASE w.protocol = "dns" /\ w.detail = "unset" -> "port 53"
    [] w.protocol = "freedom" /\ w.detail = "ipsBlocked" -> "block rule"
    [] OTHER -> w.detail

\* What is written of them: the Vision seed only beside a flow, the sniffing
\* of a loopback outbound only when it is on.
DetailWritten(v) ==
  CASE v.protocol = "vless" /\ v.detail = "seed" /\ v.flow = "unset" -> "unset"
    [] v.protocol = "loopback" /\ v.detail = "sniffing off" -> "unset"
    [] OTHER -> v.detail

\* Every connection strategy of XHTTP that is missing gets its default, which
\* is a concurrency.
hydrateStreamForm(s) ==
  [s EXCEPT !.xmux = IF @ = "connections" THEN "both" ELSE @]

\* A protocol the adapter does not know is read as VLESS.
rawOutboundToFormValues(w) ==
  [w EXCEPT !.protocol = IF @ \in Protocols_ THEN @ ELSE "vless",
            !.foreign = "unset",
            !.flow = IF w.protocol = "vless" THEN @ ELSE "unset",
            !.detail = DetailRead(w),
            !.stream = hydrateStreamForm(@)]

muxAllowed(v) ==
  /\ v.protocol \in {"vless", "trojan"}
  /\ v.protocol = "vless" => v.flow = "unset"
  /\ v.stream.network # "xhttp"

\* Connections and concurrency exclude each other: connections win.
resolveXmuxExclusivity(x) == IF x = "both" THEN "connections" ELSE x

normalizeXhttpForWire(s) ==
  [s EXCEPT !.xmux = IF s.network = "xhttp" THEN resolveXmuxExclusivity(@) ELSE "unset"]

\* Socket options that are all the core's defaults are not written.
normalizeSockoptForWire(s) == [s EXCEPT !.sock = IF @ = "defaults" THEN "unset" ELSE @]

normalizeStreamSettingsForWire(s) == normalizeSockoptForWire(normalizeXhttpForWire(s))

\* The protocols whose whole stream is written; of the others' only the socket
\* options are.
StreamProtocols == {"vless", "trojan", "hysteria"}

formValuesToWirePayload(v) ==
  [v EXCEPT !.detail = DetailWritten(v),
            !.mux = @ /\ muxAllowed(v),
            !.stream = IF v.protocol \in StreamProtocols THEN normalizeStreamSettingsForWire(@)
                       ELSE [Plain EXCEPT !.sock = v.stream.sock]]

-----------------------------------------------------------------------------
(* The streams of the form *)

newStreamSlice(network) == [Plain EXCEPT !.network = network]
hysteriaStreamSlice == [newStreamSlice("hysteria") EXCEPT !.security = "tls"]

canEnableTls(p, n) ==
  p = "hysteria" \/ (p \in {"vless", "trojan"} /\ n \in {"tcp", "ws", "xhttp"})
canEnableReality(p, n) == p \in {"vless", "trojan"} /\ n \in {"tcp", "xhttp"}
canEnableStream(p) == p \in StreamProtocols \cup {"wireguard"}
FlowAllowed(v) ==
  v.protocol = "vless" /\ v.stream.network = "tcp" /\ v.stream.security \in {"tls", "reality"}

\* The effects that run when the protocol, the network or the security the
\* form shows has changed: a transport where there has to be one, none for
\* WireGuard, and QUIC with TLS for Hysteria.
Settled(v) ==
  CASE v.protocol = "hysteria" /\ ~(v.stream.network = "hysteria" /\ v.stream.security = "tls") ->
         [v EXCEPT !.stream = [hysteriaStreamSlice EXCEPT
            !.names = IF v.stream.network = "unset" THEN "unset" ELSE v.stream.names]]
    [] v.protocol = "wireguard" /\ v.stream.network # "unset" -> [v EXCEPT !.stream = Plain]
    [] v.protocol \in {"vless", "trojan"} /\ v.stream.network = "unset" ->
         [v EXCEPT !.stream = newStreamSlice("tcp")]
    [] OTHER -> v

\* A security that the new network supports moves with its names.
applyNetworkChange(p, s, next) ==
  IF next = "hysteria" THEN hysteriaStreamSlice
  ELSE LET keeps == \/ s.security = "tls" /\ canEnableTls(p, next)
                    \/ s.security = "reality" /\ canEnableReality(p, next)
       IN [newStreamSlice(next) EXCEPT !.security = IF keeps THEN s.security ELSE "none",
                                       !.names = IF keeps THEN s.names ELSE "unset"]

-----------------------------------------------------------------------------
(* The dialog *)

\* The form is reset to the outbound, or to an empty one, and the text to what
\* would be sent of it.
openForm(w) ==
  LET initial == rawOutboundToFormValues(w)
  IN /\ ~outDialog.open
     /\ outDialog' = [open |-> TRUE, of |-> w, tab |-> "form", dirty |-> FALSE]
     /\ outForm' = Settled(initial)
     /\ outText' = formValuesToWirePayload(initial)
     /\ outLatest' = w
     /\ confirmed' = Nothing
     /\ UNCHANGED outEdits

\* A change on the form's tab.
EditedOutbound(v) ==
  /\ outDialog.open /\ outDialog.tab = "form"
  /\ outEdits < MaxEdits
  /\ outForm' = Settled(v)
  /\ outLatest' = formValuesToWirePayload(outForm')
  /\ outEdits' = outEdits + 1
  /\ UNCHANGED <<outDialog, outText, confirmed>>

\* onValuesChange: another protocol brings fresh settings, and Hysteria its
\* stream or an ordinary one back.
onValuesChange(p) ==
  /\ p # outForm.protocol
  /\ EditedOutbound([outForm EXCEPT
       !.protocol = p, !.flow = "unset",
       !.detail = DetailRead([Blank EXCEPT !.protocol = p]),
       !.stream = CASE p = "hysteria" -> hysteriaStreamSlice
                    [] p # "hysteria" /\ @.network = "hysteria" -> newStreamSlice("tcp")
                    [] OTHER -> @])

onOutboundSecurityChange(s) ==
  LET v == outForm
  IN /\ canEnableStream(v.protocol) /\ v.stream.network # "unset"
     /\ s # v.stream.security
     /\ s \in (IF v.stream.network = "hysteria" THEN {} ELSE {"none"})
              \cup (IF canEnableTls(v.protocol, v.stream.network) THEN {"tls"} ELSE {})
              \cup (IF canEnableReality(v.protocol, v.stream.network) THEN {"reality"} ELSE {})
     /\ EditedOutbound([v EXCEPT !.stream.security = s, !.stream.names = "unset"])

onNetworkChange(n) ==
  /\ canEnableStream(outForm.protocol) /\ outForm.stream.network \notin {"unset", "hysteria", n}
  /\ EditedOutbound([outForm EXCEPT !.stream = applyNetworkChange(outForm.protocol, @, n)])

\* The fields whose value matters here, shown where the form shows them.
TypeFlow ==
  \/ \E f \in {"unset", "vision"} : FlowAllowed(outForm) /\ EditedOutbound([outForm EXCEPT !.flow = f])
  \/ /\ FlowAllowed(outForm) /\ outForm.flow # "unset"
     /\ EditedOutbound([outForm EXCEPT !.detail = "seed"])

TypeTag == \E t \in {"own"} \cup OtherTags : EditedOutbound([outForm EXCEPT !.tag = t])

TypeSniffing ==
  outForm.protocol = "loopback" /\ EditedOutbound([outForm EXCEPT !.detail = "sniffing off"])

TypeServerName ==
  outForm.stream.security # "none" /\ EditedOutbound([outForm EXCEPT !.stream.names = "sni"])

TypeSockopt ==
  \E k \in {"mark", "defaults"} : EditedOutbound([outForm EXCEPT !.stream.sock = k])

TypeXmux ==
  \E x \in {"concurrency", "both"} :
    outForm.stream.network = "xhttp" /\ EditedOutbound([outForm EXCEPT !.stream.xmux = x])

\* The masks the transport can carry: WireGuard and Hysteria run over UDP.
MasksShown(v) ==
     (IF v.protocol # "wireguard" /\ v.stream.network \in {"tcp", "ws", "xhttp"} THEN {"tcp"} ELSE {})
  \cup (IF v.protocol \in {"hysteria", "wireguard"} THEN {"udp"} ELSE {})
  \cup (IF v.protocol = "hysteria" \/ v.stream.network = "xhttp" THEN {"quic"} ELSE {})

\* The lists of masks grow and shrink, the QUIC parameters are switched.
TypeMask(kind) ==
  /\ kind \in MasksShown(outForm)
  /\ EditedOutbound([outForm EXCEPT !.stream.masks = IF kind \in @ THEN @ \ {kind} ELSE @ \cup {kind}])

TypeTcpMask == TypeMask("tcp")
TypeUdpMask == TypeMask("udp")
TypeQuic == TypeMask("quic")

ToggleMux == muxAllowed(outForm) /\ EditedOutbound([outForm EXCEPT !.mux = ~@])

\* A text that is emptied again leaves the form as it is.
TypeJson(t) ==
  /\ outDialog.open /\ outDialog.tab = "json"
  /\ outEdits < MaxEdits
  /\ outText' = t
  /\ outDialog' = [outDialog EXCEPT !.dirty = TRUE]
  /\ outLatest' = CASE t = BrokenJson -> outLatest
                    [] t = Empty -> formValuesToWirePayload(outForm)
                    [] OTHER -> t
  /\ outEdits' = outEdits + 1
  /\ UNCHANGED <<outForm, confirmed>>

\* A pasted link replaces everything; the tag stays when the link has none.
importShareLink(w) ==
  LET next == rawOutboundToFormValues([w EXCEPT !.tag = IF @ = "unset" THEN outForm.tag ELSE @])
  IN /\ outDialog.open /\ outDialog.tab = "json"
     /\ outEdits < MaxEdits
     /\ outForm' = Settled(next)
     /\ outText' = formValuesToWirePayload(next)
     /\ outLatest' = formValuesToWirePayload(outForm')
     /\ outDialog' = [outDialog EXCEPT !.dirty = FALSE, !.tab = "form"]
     /\ outEdits' = outEdits + 1
     /\ UNCHANGED confirmed

\* Leaving the JSON tab takes what was typed into the form; text that does
\* not parse keeps the tab.
applyJsonToForm ==
  IF ~outDialog.dirty \/ outText = Empty
  THEN outDialog' = [outDialog EXCEPT !.tab = "form"] /\ UNCHANGED outForm
  ELSE /\ outText # BrokenJson
       /\ outForm' = Settled(rawOutboundToFormValues(outText))
       /\ outDialog' = [outDialog EXCEPT !.tab = "form", !.dirty = FALSE]

\* Entering it writes the JSON of the form.
onTabChange ==
  /\ outDialog.open
  /\ IF outDialog.tab = "form"
     THEN /\ outText' = formValuesToWirePayload(outForm)
          /\ outDialog' = [outDialog EXCEPT !.tab = "json", !.dirty = FALSE]
          /\ UNCHANGED outForm
     ELSE applyJsonToForm /\ UNCHANGED outText
  /\ UNCHANGED <<outLatest, confirmed, outEdits>>

\* What a closed dialog holds is not read again: the next one resets it.
ClosedOutbound ==
  /\ outDialog' = [open |-> FALSE, of |-> Nothing, tab |-> "form", dirty |-> FALSE]
  /\ outForm' = Nothing /\ outText' = Empty /\ outLatest' = Nothing

\* The OK button: of the JSON tab the text, of the form its values; neither
\* without a tag nor with another outbound's.
onOk ==
  LET values == IF outDialog.tab = "json" THEN rawOutboundToFormValues(outText) ELSE outForm
  IN /\ outDialog.open
     /\ outDialog.tab = "json" => outText \notin {BrokenJson, Empty}
     /\ values.tag # "unset"
     /\ values.tag \in OtherTags => values.tag = outDialog.of.tag
     /\ confirmed' = formValuesToWirePayload(values)
     /\ ClosedOutbound
     /\ UNCHANGED outEdits

onClose ==
  /\ outDialog.open
  /\ ClosedOutbound
  /\ UNCHANGED <<confirmed, outEdits>>

OutboundFormNext ==
  \/ \E w \in Opened \cup {Blank} \cup ({confirmed} \ {Nothing}) : openForm(w)
  \/ \E p \in Protocols_ : onValuesChange(p)
  \/ \E s \in {"none", "tls", "reality"} : onOutboundSecurityChange(s)
  \/ \E n \in {"tcp", "ws", "xhttp"} : onNetworkChange(n)
  \/ TypeFlow \/ TypeTag \/ TypeSniffing
  \/ TypeServerName \/ TypeSockopt \/ TypeXmux \/ ToggleMux
  \/ TypeTcpMask \/ TypeUdpMask \/ TypeQuic
  \/ \E t \in Pasted \cup {BrokenJson, Empty} : TypeJson(t)
  \/ \E w \in Pasted : importShareLink(w)
  \/ onTabChange
  \/ onOk
  \/ onClose

OutboundFormSpec == OutboundFormInit /\ [][OutboundFormNext]_outboundVars

-----------------------------------------------------------------------------
\* What the form has a field for, and writes as it reads it.
Expressible(w) ==
  /\ w.protocol \in Protocols_ /\ w.foreign = "unset"
  /\ w.detail \notin {"ipsBlocked", "sniffing off"}
  /\ w.detail = "seed" => w.flow # "unset"
  /\ w.flow # "unset" => w.protocol = "vless"
  /\ w.protocol = "dns" => w.detail # "unset"
  /\ w.mux => muxAllowed(w)
  /\ w.stream.xmux # "unset" => w.stream.network = "xhttp"
  /\ w.stream.xmux # "both" /\ w.stream.sock # "defaults"
  /\ IF w.protocol \in StreamProtocols
     THEN w.stream.network = "unset" => w.stream = Plain
     ELSE w.stream = [Plain EXCEPT !.sock = w.stream.sock]
  /\ w.protocol = "hysteria" => w.stream.network = "hysteria" /\ w.stream.security = "tls"

\* The core's own default transport is TCP.
WithTransport(w) ==
  IF w.protocol \in StreamProtocols /\ w.stream.network = "unset"
  THEN [w EXCEPT !.stream.network = "tcp"] ELSE w

\* What is confirmed is what the operator last made of the outbound, on
\* whichever tab and after whichever changes of it, and an outbound that was
\* opened and left alone comes back as it was, unless it holds what the form
\* has no field for (rawOutboundToFormValues against
\* formValuesToWirePayload, onTabChange, onOk).
ConfirmedAsEdited ==
  onOk /\ Expressible(outLatest) => WithTransport(confirmed') = WithTransport(outLatest)
=============================================================================
