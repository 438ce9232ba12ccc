----------------------------- MODULE ShareLinks -----------------------------
(***************************************************************************)
(* The share links of the panel: lib/xray/inbound-link.ts writes a link    *)
(* for a client of an inbound, one for every external proxy when there are *)
(* any, and lib/xray/outbound-link-parser.ts reads a pasted link into the  *)
(* outbound form.  The operator copies the link of an inbound and imports  *)
(* it as an outbound of another panel, which then has to dial that inbound.*)
(*                                                                         *)
(* A link is its scheme, its userinfo, its host and a function from the    *)
(* names of its parameters (the keys of VMess's JSON) to their values.  A  *)
(* value is a short string, "" where the field is empty; "special" is a    *)
(* credential with characters that an URL escapes.                         *)
(***************************************************************************)
EXTENDS Naturals, Sequences, TLC

CONSTANTS
  LinkInbounds,   \* the inbounds somebody configured, with the client's fields
  Entries,    \* the entries of streamSettings.externalProxy
  Hosts       \* the addresses of the hosting node and of the browser

VARIABLES
  inbound,    \* the inbound whose links are copied
  externals,  \* its external proxies
  host,       \* the node's address, the browser's host, the configured public one
  links,      \* the links genAllLinks made
  imported    \* what parseOutboundLink made of the one that was pasted

linkVars == <<inbound, externals, host, links, imported>>

NoEntry == [forceTls |-> "same", dest |-> "", sni |-> "", pins |-> ""]
NotYet == "not yet"
NoLinkFields == <<>>

ShareLinksInit ==
  /\ inbound \in LinkInbounds
  /\ externals \in {<<>>} \cup Entries
  /\ host \in Hosts
  /\ links = NoLinkFields
  /\ imported = [at |-> NotYet]

-----------------------------------------------------------------------------
(* The host of the link *)

isShareable(h) == h \notin {"", "0.0.0.0", "localhost", "wg0"}

\* A panel that is reached through a tunnel shows its configured host.
preferPublicHost(h) ==
  IF h.public # "" /\ h.browser \in {"localhost", "wg0"} THEN h.public ELSE h.browser

\* The candidates of resolveShareHost in the order of the strategy; the
\* panel's host is the last resort, kept even when it fails the check
\* unless it names a WireGuard interface.
AddressCandidates(i, h) ==
  LET pick(a) == IF isShareable(a) THEN a ELSE ""
      fallback == preferPublicHost(h)
      order == CASE i.strategy = "listen" -> <<i.listen, h.node, i.shareAddr>>
                 [] i.strategy = "custom" -> <<i.shareAddr, h.node, i.listen>>
                 [] OTHER -> <<h.node, i.listen, i.shareAddr>>
  IN [k \in 1..3 |-> pick(order[k])] \o <<IF fallback = "wg0" THEN "" ELSE fallback>>

resolveShareHost(i, h) ==
  LET c == AddressCandidates(i, h)
      given == {k \in DOMAIN c : c[k] # ""}
  IN IF given = {} THEN "" ELSE c[CHOOSE k \in given : \A j \in given : k <= j]

-----------------------------------------------------------------------------
(* inbound-link.ts *)

\* A parameter that is only written when it has a value.
Opt(name, value) == IF value = "" THEN NoLinkFields ELSE name :> value

Effective(own, header) == IF own # "" THEN own ELSE header

\* Values that are the core's own defaults stay off the wire.
buildXhttpExtra(i) ==
  Opt("xPaddingBytes", i.pad) @@ Opt("scMaxEachPostBytes", IF i.knob = "1000000" THEN "" ELSE i.knob)

HttpHeader(i) == IF i.http = "http" THEN ("path" :> i.path) @@ Opt("host", i.hdr) ELSE NoLinkFields

writeNetworkParams(i) ==
  CASE i.network = "tcp" -> HttpHeader(i) @@ Opt("headerType", i.http)
    [] i.network = "kcp" -> [mtu |-> i.mtu, tti |-> i.tti]
    [] i.network \in {"ws", "httpupgrade"} ->
         [path |-> i.path, host |-> Effective(i.host, i.hdr)]
    [] i.network = "grpc" ->
         [serviceName |-> i.path, authority |-> i.host] @@ Opt("mode", i.multi)
    [] i.network = "xhttp" ->
         [path |-> i.path, host |-> Effective(i.host, i.hdr), mode |-> i.mode] @@ buildXhttpExtra(i)
    [] OTHER -> NoLinkFields

writeTlsParams(i) ==
  IF i.security = "tls"
  THEN [fp |-> i.fp, alpn |-> i.alpn] @@ Opt("sni", i.sni) @@ Opt("ech", i.ech) @@ Opt("pcs", i.pins)
  ELSE NoLinkFields

\* Mutant: the external proxy gives no server name.
ExternalWithoutName(e) == Opt("pcs", e.pins)

\* The external proxy's own name, or else its address, and its own pins.
applyExternalProxyTLSParams(e) ==
  IF e = NoEntry THEN NoLinkFields
  ELSE [sni |-> Effective(e.sni, e.dest)] @@ Opt("pcs", e.pins)

writeRealityParams(i) ==
  IF i.security = "reality"
  THEN [pbk |-> "key", fp |-> i.fp, sni |-> i.sni, sid |-> i.sid, spx |-> "derived"]
       @@ Opt("pqv", i.pqv)
  ELSE NoLinkFields

SecurityOf(i, e) == IF e.forceTls = "same" THEN i.security ELSE e.forceTls

\* What a link says of the security, in the order in which it is written:
\* the external proxy overwrites the inbound's.
SecurityParams(i, e) ==
  CASE SecurityOf(i, e) = "tls" ->
         applyExternalProxyTLSParams(e) @@ writeTlsParams(i) @@ [security |-> "tls"]
    [] SecurityOf(i, e) = "reality" -> writeRealityParams(i) @@ [security |-> "reality"]
    [] OTHER -> [security |-> "none"]

Link(scheme, user, addr, params) ==
  [scheme |-> scheme, user |-> user, addr |-> addr, params |-> params]

\* VMess: the same facts as keys of a JSON object, with names of its own.
genVmessLink(i, addr, e) ==
  LET tls == SecurityOf(i, e)
      type == CASE i.network = "tcp" -> Effective(i.http, "none")
                [] i.network = "grpc" -> i.multi
                [] i.network = "xhttp" -> i.mode
                [] OTHER -> ""
      obj == [net |-> i.network, tls |-> tls] @@ Opt("type", type) @@ Opt("fm", i.fm)
             @@ (CASE i.network = "grpc" -> [path |-> i.path, authority |-> i.host]
                   [] i.network = "tcp" -> HttpHeader(i)
                   [] OTHER -> writeNetworkParams(i))
      inner == IF i.security = "tls"
               THEN Opt("sni", i.sni) @@ Opt("fp", i.fp) @@ Opt("alpn", i.alpn)
                    @@ Opt("ech", i.ech) @@ Opt("pcs", i.pins)
               ELSE NoLinkFields
  IN Link("vmess", i.cred, addr,
          IF tls = "tls" THEN applyExternalProxyTLSParams(e) @@ inner @@ obj ELSE obj)

\* Vision rides on raw TCP over TLS or REALITY, or on XHTTP with VLESS's own
\* encryption.
canEnableTlsFlow(i) ==
  \/ i.network = "tcp" /\ i.security \in {"tls", "reality"}
  \/ i.network = "xhttp" /\ i.encryption # "none"

genVlessLink(i, addr, e) ==
  Link("vless", i.cred, addr,
       SecurityParams(i, e) @@ Opt("fm", i.fm) @@ writeNetworkParams(i)
       @@ [type |-> i.network, encryption |-> i.encryption]
       @@ Opt("flow", IF canEnableTlsFlow(i) THEN i.flow ELSE ""))

\* What an URL does to a userinfo (encodeURIComponent before it or not).
Escaped(cred) == IF cred = "special" THEN "escaped" ELSE cred

genTrojanLink(i, addr, e) ==
  Link("trojan", Escaped(i.cred), addr,
       SecurityParams(i, e) @@ Opt("fm", i.fm) @@ writeNetworkParams(i) @@ [type |-> i.network])

\* The userinfo is URL-safe base64, or for the 2022 methods percent-encoded
\* text.  A TCP header becomes the obfs-local plugin.
genShadowsocksLink(i, addr, e) ==
  LET security == IF SecurityOf(i, e) = "tls" THEN SecurityParams(i, e) ELSE NoLinkFields
      net == IF i.network = "tcp" /\ i.http = "http" THEN [plugin |-> "obfs-local"]
             ELSE [type |-> i.network] @@ writeNetworkParams(i)
  IN Link("ss", [method |-> i.method, text |-> IF i.method = "2022" THEN Escaped(i.cred)
                                               ELSE i.cred],
          addr, security @@ Opt("fm", i.fm) @@ net)

\* Only TLS; the pins are written in hex.
genHysteriaLink(i, addr, e) ==
  Link("hysteria2", Escaped(i.cred), addr,
       Opt("pinSHA256", IF Effective(e.pins, i.pins) = "" THEN "" ELSE "hex") @@ Opt("fm", i.fm)
       @@ Opt("sni", i.sni) @@ Opt("fp", i.fp) @@ Opt("alpn", i.alpn) @@ Opt("ech", i.ech))

\* The peer's key is the userinfo; its preshared key and its keepalive are
\* not written, although the .conf file has them.
genWireguardLink(i, addr) ==
  Link("wireguard", Escaped(i.cred), addr, [publickey |-> "key", address |-> "ip", mtu |-> "1420"])

genLink(i, addr, e) ==
  CASE i.protocol = "vmess" -> genVmessLink(i, addr, e)
    [] i.protocol = "vless" -> genVlessLink(i, addr, e)
    [] i.protocol = "trojan" -> genTrojanLink(i, addr, e)
    [] i.protocol = "shadowsocks" -> genShadowsocksLink(i, addr, e)
    [] i.protocol = "hysteria" -> genHysteriaLink(i, addr, e)
    [] i.protocol = "wireguard" -> genWireguardLink(i, addr)

\* WireGuard has a link per peer and no external proxies.
genAllLinks ==
  /\ links = NoLinkFields
  /\ links' = IF externals = <<>> \/ inbound.protocol = "wireguard"
              THEN <<genLink(inbound, resolveShareHost(inbound, host), NoEntry)>>
              ELSE [k \in DOMAIN externals |-> genLink(inbound, externals[k].dest, externals[k])]
  /\ UNCHANGED <<inbound, externals, host, imported>>

-----------------------------------------------------------------------------
(* outbound-link-parser.ts *)

Get(params, name, default) == IF name \in DOMAIN params THEN params[name] ELSE default

\* applyTransportParams over what buildStream starts with.  Of mKCP it reads
\* nothing: buildStream's own values stay.
applyTransportParams(p, network) ==
  LET path == Get(p, "path", "/")
      hostname == Get(p, "host", "")
  IN CASE network \in {"ws", "httpupgrade"} -> [path |-> path, host |-> hostname]
       [] network = "grpc" ->
            [path |-> Get(p, "serviceName", Get(p, "path", "")), host |-> Get(p, "authority", "")]
            @@ Opt("multi", IF Get(p, "mode", "") = "multi" THEN "multi" ELSE "")
       [] network = "xhttp" ->
            [path |-> path, host |-> hostname, mode |-> Effective(Get(p, "mode", ""), "auto"),
             pad |-> Get(p, "xPaddingBytes", "100-1000")]
            @@ Opt("knob", Get(p, "scMaxEachPostBytes", ""))
       [] network = "tcp" /\ Get(p, "headerType", "") = "http" ->
            [http |-> "http", path |-> path] @@ Opt("host", hostname)
       [] network = "kcp" -> [mtu |-> "1350", tti |-> "20"]
       [] OTHER -> NoLinkFields

applySecurityParams(p, security) ==
  CASE security = "tls" ->
         [sni |-> Get(p, "sni", ""), fp |-> Get(p, "fp", ""), alpn |-> Get(p, "alpn", ""),
          ech |-> Get(p, "ech", ""), pins |-> Get(p, "pcs", "")]
    [] security = "reality" ->
         [sni |-> Get(p, "sni", ""), fp |-> Get(p, "fp", "chrome"), pbk |-> Get(p, "pbk", ""),
          sid |-> Get(p, "sid", ""), spx |-> Get(p, "spx", ""), pqv |-> Get(p, "pqv", "")]
    [] OTHER -> NoLinkFields

\* VMess's JSON: the finalmask, the pins and ECH are not read.
parseVmessLink(l) ==
  LET p == l.params
      net == CASE p.net = "grpc" -> ("serviceName" :> p.path) @@ ("mode" :> Get(p, "type", "")) @@ p
               [] p.net = "tcp" -> ("headerType" :> Get(p, "type", "")) @@ p
               [] OTHER -> p
      security == IF p.tls = "tls" THEN "tls" ELSE "none"
      read == [f \in DOMAIN p \ {"ech", "pcs"} |-> p[f]]
  IN [cred |-> l.user, network |-> p.net, security |-> security]
     @@ applyTransportParams(net, p.net) @@ applySecurityParams(read, security)

\* parseVlessLink and parseTrojanLink take the userinfo as the URL has it.
parseUrl(l, default) ==
  LET p == l.params
      network == Get(p, "type", "tcp")
      security == Get(p, "security", default)
  IN [cred |-> l.user, network |-> network, security |-> security,
      flow |-> Get(p, "flow", ""), encryption |-> Get(p, "encryption", ""), fm |-> Get(p, "fm", "")]
     @@ applyTransportParams(p, network) @@ applySecurityParams(p, security)

\* Percent-encoded text is decoded; base64 is read by atob, which refuses the
\* URL-safe letters: then the text itself is the password of a 2022 method.
parseShadowsocksLink(l) ==
  CASE l.user.method = "2022" ->
         [method |-> "2022", cred |-> IF l.user.text = "escaped" THEN "special" ELSE l.user.text]
    [] l.user.text = "special" -> [method |-> "2022", cred |-> "base64"]
    [] OTHER -> [method |-> l.user.method, cred |-> l.user.text]

parseHysteria2Link(l) ==
  LET p == l.params
  IN [cred |-> l.user, network |-> "hysteria", security |-> "tls", sni |-> Get(p, "sni", ""),
      alpn |-> Effective(Get(p, "alpn", ""), "h3"), fp |-> Get(p, "fp", ""),
      ech |-> Get(p, "ech", ""), pins |-> Get(p, "pinSHA256", ""), fm |-> Get(p, "fm", "")]

parseWireguardLink(l) ==
  [cred |-> IF l.user = "escaped" THEN "special" ELSE l.user, pbk |-> Get(l.params, "publickey", "")]
  @@ Opt("psk", Get(l.params, "presharedkey", ""))

parseOutboundLink(l) ==
  CASE l.scheme = "vmess" -> parseVmessLink(l)
    [] l.scheme = "vless" -> parseUrl(l, "none")
    [] l.scheme = "trojan" -> parseUrl(l, "tls")
    [] l.scheme = "ss" -> parseShadowsocksLink(l)
    [] l.scheme = "hysteria2" -> parseHysteria2Link(l)
    [] l.scheme = "wireguard" -> parseWireguardLink(l)

\* importLink of the outbound form.
importLink(k) ==
  /\ imported.at = NotYet
  /\ imported' = [at |-> "form", k |-> k] @@ parseOutboundLink(links[k])
  /\ UNCHANGED <<inbound, externals, host, links>>

ShareLinksNext == genAllLinks \/ \E k \in DOMAIN links : importLink(k)

ShareLinksSpec == ShareLinksInit /\ [][ShareLinksNext]_linkVars

-----------------------------------------------------------------------------
(* What a client of the inbound has to dial with *)

Entry(k) == IF externals = <<>> \/ inbound.protocol = "wireguard" THEN NoEntry ELSE externals[k]

WantedTransport(i) ==
  CASE i.network \in {"ws", "httpupgrade"} -> [path |-> i.path, host |-> Effective(i.host, i.hdr)]
    [] i.network = "grpc" -> [path |-> i.path, host |-> i.host, multi |-> i.multi]
    [] i.network = "xhttp" ->
         [path |-> i.path, host |-> Effective(i.host, i.hdr), mode |-> i.mode,
          pad |-> Effective(i.pad, "100-1000"), knob |-> IF i.knob = "1000000" THEN "" ELSE i.knob]
    [] i.network = "tcp" /\ i.http = "http" -> [http |-> "http", path |-> i.path, host |-> i.hdr]
    [] i.network = "kcp" -> [mtu |-> i.mtu, tti |-> i.tti]
    [] OTHER -> NoLinkFields

\* TLS towards an external proxy shows the proxy's name and pins.
WantedSecurity(i, e) ==
  CASE SecurityOf(i, e) = "tls" ->
         LET own == i.security = "tls"
         IN [sni |-> IF e # NoEntry THEN Effective(e.sni, e.dest) ELSE i.sni,
             pins |-> Effective(e.pins, IF own THEN i.pins ELSE "")]
            @@ (IF own THEN [fp |-> i.fp, alpn |-> i.alpn, ech |-> i.ech] ELSE NoLinkFields)
    [] SecurityOf(i, e) = "reality" ->
         [sni |-> i.sni, fp |-> i.fp, pbk |-> "key", sid |-> i.sid, spx |-> "derived", pqv |-> i.pqv]
    [] OTHER -> NoLinkFields

WantedByVless(i) ==
  IF i.protocol = "vless"
  THEN [encryption |-> i.encryption, flow |-> IF canEnableTlsFlow(i) THEN i.flow ELSE ""]
  ELSE NoLinkFields

WantedStream(i, e) ==
  WantedTransport(i) @@ WantedSecurity(i, e) @@ WantedByVless(i)
  @@ [network |-> i.network, security |-> SecurityOf(i, e), fm |-> i.fm]

\* The client's part: what the core compares before it lets the client in.
WantedLogin(i) ==
  [cred |-> i.cred]
  @@ (CASE i.protocol = "shadowsocks" -> [method |-> i.method]
        [] i.protocol = "wireguard" -> [psk |-> i.psk]
        [] OTHER -> NoLinkFields)

Wanted(i, e) == WantedLogin(i) @@ WantedStream(i, e)

\* What of the stream the parser drops: of mKCP the two sizes, of VMess the
\* finalmask, the pins and ECH, of Shadowsocks everything, of Hysteria the name
\* of an external proxy and the form of the pins; WireGuard has no stream.
StreamLost(i, e) ==
  (IF i.network = "kcp" THEN {"mtu", "tti"} ELSE {})
  \cup (CASE i.protocol = "vmess" -> {"fm", "pins", "ech"}
          [] i.protocol \in {"shadowsocks", "wireguard"} -> DOMAIN WantedStream(i, e)
          [] i.protocol = "hysteria" ->
               {"security", "pins"} \cup (IF e # NoEntry THEN {"sni"} ELSE {})
               \cup (IF i.alpn = "" THEN {"alpn"} ELSE {})
          [] OTHER -> {})

\* What of the login does not come back: the preshared key of a WireGuard
\* peer, which the link does not carry; and, of a credential with characters
\* that an URL escapes, the password of Trojan and Hysteria, which the parser
\* takes as the URL has it, and the method and password of a Shadowsocks
\* method other than those of 2022, whose base64 the parser does not read.
LoginLost(i) ==
  CASE i.protocol = "wireguard" -> {"psk"}
    [] i.cred # "special" -> {}
    [] i.protocol \in {"trojan", "hysteria"} -> {"cred"}
    [] i.protocol = "shadowsocks" /\ i.method # "2022" -> {"cred", "method"}
    [] OTHER -> {}

\* The outbound that is imported from a link dials and logs in as the inbound,
\* or its external proxy, expects (genVlessLink and the other writers against
\* parseOutboundLink), in every field but those the parser is known to lose,
\* which StreamLost and LoginLost name one by one.
ImportKeeps ==
  imported.at = "form" =>
    LET e == Entry(imported.k)
        wanted == Wanted(inbound, e)
    IN \A f \in DOMAIN wanted \ (StreamLost(inbound, e) \cup LoginLost(inbound)) :
         IF f \in DOMAIN imported THEN imported[f] = wanted[f] ELSE wanted[f] = ""

\* A link has an address others can reach whenever the inbound, its node or
\* the panel has one (resolveShareHost, preferPublicHost).
HostReachable ==
  \A k \in DOMAIN links :
    Entry(k) = NoEntry =>
      ((\E a \in {inbound.listen, inbound.shareAddr, host.node, host.browser} : isShareable(a))
         => isShareable(links[k].addr))

=============================================================================
