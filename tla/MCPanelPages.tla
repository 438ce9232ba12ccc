--------------------------- MODULE MCPanelPages ---------------------------
(***************************************************************************)
(* Instances of the pages: for every page the servers, rows and typed      *)
(* values between which its properties have to tell.                       *)
(***************************************************************************)
EXTENDS PanelPages, TLC

CONSTANTS ann, bob, cid, vision, trojan, link

\* Two inbounds of the panel, and a node whose inbounds the list does not show.
MCGuid == [in1 |-> "panel", in2 |-> "panel"]

\* A client with a flow, a limit that is no multiple of the step, and a link; and one
\* with none of these and on no inbound.
MCFirst ==
  (ann :> [sub |-> 0, flows |-> {vision}, limit |-> 7, enable |-> TRUE, ids |-> {vision}, links |-> {link}])
  @@ (bob :> [sub |-> 0, flows |-> {}, limit |-> 0, enable |-> TRUE, ids |-> {}, links |-> {}])

MCEmails == <<ann, bob, cid>>
MCFilters == {{"active"}, {"depleted"}}

\* An inbound with Reality keys and two fallback rows, and one with TLS that shares
\* its listen address.
MCInbounds ==
  [m1 |-> [protocol |-> "vless", strategy |-> "node", rows |-> <<Dest, "c">>,
           stream |-> [Tcp EXCEPT !.security = "reality", !.key = 1, !.slices = {"tcp", "reality"}]],
   m2 |-> [protocol |-> "vless", strategy |-> "listen", rows |-> <<"c">>,
           stream |-> [Tcp EXCEPT !.security = "tls", !.slices = {"tcp", "tls", "sockopt"}]]]

MCNodeOf == [i1 |-> "n1", i2 |-> "n2"]
MCAttached == [i1 |-> {"a"}, i2 |-> {}]

Vless(tag, flow, detail, stream) ==
  [Blank EXCEPT !.tag = tag, !.flow = flow, !.detail = detail, !.stream = stream]
Tls(network) == [Plain EXCEPT !.network = network, !.security = "tls", !.names = "sni"]

\* A VLESS outbound with Vision, one with a pool of connections, one with mux,
\* and one whose stream names no network; the template's own freedom outbound
\* and one with the old block list; a DNS outbound without a port; WireGuard
\* as the WARP dialog makes it; a chain; a protocol the form does not know.
MCOpened ==
  {Vless("own", "vision", "seed", Tls("tcp")),
   Vless("own", "unset", "unset", [Tls("xhttp") EXCEPT !.xmux = "connections"]),
   [Blank EXCEPT !.protocol = "trojan", !.tag = "own", !.mux = TRUE, !.stream = Tls("ws")],
   Vless("own", "unset", "unset", Tls("unset")),
   [Blank EXCEPT !.protocol = "freedom", !.tag = "own"],
   [Blank EXCEPT !.protocol = "freedom", !.tag = "own", !.detail = "ipsBlocked"],
   [Blank EXCEPT !.protocol = "dns", !.tag = "own"],
   [Blank EXCEPT !.protocol = "wireguard", !.tag = "own", !.stream.sock = "mark"]}

MCPasted ==
  {[Blank EXCEPT !.protocol = "hysteria", !.stream = [Tls("hysteria") EXCEPT !.masks = {"udp"}]],
   [Blank EXCEPT !.protocol = "wireguard"],
   Vless("unset", "unset", "unset", [Tls("tcp") EXCEPT !.security = "reality"]),
   Vless("own", "unset", "unset", [Tls("ws") EXCEPT !.sock = "mark"]),
   [Vless("other", "unset", "unset", Plain) EXCEPT !.foreign = "proxySettings"],
   [Blank EXCEPT !.protocol = "unknown", !.tag = "own"]}

\* Inbounds to make links of: every transport with the values that its link can carry or
\* lose, every security, and the addresses that a link can name.
PlainLink ==
  [protocol |-> "vless", network |-> "tcp", path |-> "/", host |-> "", hdr |-> "", http |-> "",
   multi |-> "", mode |-> "auto", pad |-> "", knob |-> "", fm |-> "", security |-> "none",
   sni |-> "", fp |-> "", alpn |-> "", ech |-> "", pins |-> "", sid |-> "", pqv |-> "",
   encryption |-> "none", flow |-> "", method |-> "aes", cred |-> "plain", psk |-> "",
   mtu |-> "1350", tti |-> "20",
   listen |-> "", shareAddr |-> "", strategy |-> "node"]

LinkStreams ==
  {[PlainLink EXCEPT !.network = "tcp", !.http = h, !.hdr = d] : h \in {"", "http"}, d \in {"", "hd"}}
  \cup {[PlainLink EXCEPT !.network = "kcp", !.mtu = m] : m \in {"1350", "1200"}}
  \cup {[PlainLink EXCEPT !.network = n, !.path = p, !.host = h, !.hdr = d] :
          n \in {"ws", "httpupgrade"}, p \in {"/", "/p"}, h \in {"", "h"}, d \in {"", "hd"}}
  \cup {[PlainLink EXCEPT !.network = "grpc", !.path = p, !.host = h, !.multi = m] :
          p \in {"", "svc"}, h \in {"", "auth"}, m \in {"", "multi"}}
  \cup {[PlainLink EXCEPT !.network = "xhttp", !.host = h, !.hdr = "hd", !.mode = m, !.pad = p,
                      !.knob = k, !.encryption = c] :
          h \in {"", "h"}, m \in {"auto", "stream-up"}, p \in {"", "9"},
          k \in {"", "1000000", "5"}, c \in {"none", "pq"}}

Layered(i) ==
  {i} \cup {[i EXCEPT !.security = "tls", !.sni = n, !.fp = "chrome", !.alpn = "h2", !.ech = c,
                      !.pins = "pin", !.flow = "vision"] : n \in {"", "s"}, c \in {"", "ech"}}
      \cup {[i EXCEPT !.security = "tls", !.sni = "s"]}
      \cup {[i EXCEPT !.security = "reality", !.sni = "s", !.fp = "chrome", !.sid = d, !.pqv = d,
                      !.flow = "vision"] : d \in {"", "ab"}}

Shared(p) ==
  {[i EXCEPT !.protocol = p, !.fm = IF i.host = "" THEN "mask" ELSE ""] :
     i \in UNION {Layered(s) : s \in LinkStreams}}

\* vmess and shadowsocks have no REALITY, and Hysteria has TLS and QUIC only.
MCLinkInbounds ==
  Shared("vless") \cup Shared("trojan")
  \cup {i \in Shared("vmess") \cup Shared("shadowsocks") : i.security # "reality"}
  \cup {[i EXCEPT !.network = "hysteria", !.protocol = "hysteria", !.alpn = a, !.cred = c] :
          i \in {j \in Layered(PlainLink) : j.security = "tls"}, a \in {"", "h3"},
          c \in {"plain", "special"}}
  \cup {[PlainLink EXCEPT !.protocol = "trojan", !.cred = c] : c \in {"plain", "special"}}
  \cup {[PlainLink EXCEPT !.protocol = "shadowsocks", !.method = m, !.cred = c] :
          m \in {"2022", "aes"}, c \in {"plain", "special"}}
  \cup {[PlainLink EXCEPT !.listen = l, !.shareAddr = a, !.strategy = s] :
          l \in {"", "0.0.0.0", "1.2.3.4"}, a \in {"", "localhost", "share"},
          s \in {"node", "listen", "custom"}}
  \cup {[PlainLink EXCEPT !.protocol = "wireguard", !.network = "", !.cred = c, !.psk = k] :
          c \in {"plain", "special"}, k \in {"", "psk"}}

Proxy(force, name, pin) == [forceTls |-> force, dest |-> "edge", sni |-> name, pins |-> pin]
MCEntries == {<<Proxy("same", "", ""), Proxy("tls", "s2", "pin2")>>, <<Proxy("none", "", "")>>}
Host(node, browser, public) == [node |-> node, browser |-> browser, public |-> public]
MCHosts == {Host("", "panel", ""), Host("node", "localhost", ""), Host("", "wg0", "pub")}
=============================================================================
