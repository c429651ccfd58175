------------------------------ MODULE MCXrayEditor ------------------------------
(* Small configurations of the Xray page for TLC.                             *)
EXTENDS XrayEditor

Rule(criterion, o, b) == [inbound |-> NoTag, criterion |-> criterion, outbound |-> o, balancer |-> b]
Balancer(tag, strategy, selector, fallback) ==
    [tag |-> tag, strategy |-> strategy, selector |-> selector, fallback |-> fallback]

-------------------------------------------------------------------------------
(* Transports and securities, every field of which the links may carry.       *)

Server(host, user) == [NoServer EXCEPT !.host = host, !.port = 443, !.user = << user >>]

Stream(network, own) == [NewStreamSlice(network, "none") EXCEPT !.own = own]
Over(stream, security, secure) == [stream EXCEPT !.security = security, !.secure = secure]

Tcp      == Stream("tcp", [NoFields EXCEPT !.header = "none"])
TcpHttp  == Stream("tcp", [NoFields EXCEPT !.header = "http", !.path = "/p", !.host = "h"])
Kcp      == [Stream("kcp", NetworkDefaults("kcp")) EXCEPT !.mask = "mkcp-legacy"]
Ws       == Stream("ws", [NoFields EXCEPT !.path = "/p", !.host = "h"])
Upgrade  == Stream("httpupgrade", [NoFields EXCEPT !.path = "/p", !.host = "h"])
Grpc     == Stream("grpc", [NoFields EXCEPT !.service = "s", !.authority = "au", !.mode = "multi"])
Xhttp    == Stream("xhttp", [NoFields EXCEPT !.path = "/p", !.host = "h", !.mode = "packet-up", !.padding = "1-10",
                                             !.session = "cookie", !.packet = "1000000"])
XhttpUp  == [Xhttp EXCEPT !.own.mode = "stream-up", !.own.packet = "5"]
XhttpBig == [Xhttp EXCEPT !.own.padding = "", !.own.mode = "", !.own.packet = "5"]

TlsSecret     == [NoSecrets EXCEPT !.sni = "name", !.fp = "firefox", !.alpn = "h2", !.ech = "ech", !.vcn = "vcn", !.pcs = "pin64"]
PlainTls      == [NoSecrets EXCEPT !.sni = "name", !.fp = "firefox", !.alpn = "h2"]
RealitySecret == [NoSecrets EXCEPT !.sni = "name", !.fp = "firefox", !.pbk = "pbk", !.sid = "sid", !.spx = "/", !.pqv = "pqv"]
Hysteria2     == [HysteriaSlice EXCEPT !.secure = TlsSecret, !.mask = "salamander"]

-------------------------------------------------------------------------------
(* Configurations.                                                            *)

\* An outbound with all the settings of its protocol, dialled through "direct".
Reality ==
    [OutboundOf(Out("a")) EXCEPT
        !.protocol = "vless", !.server = Server("far", "id"), !.flow = "vision", !.dialer = Out("direct"),
        !.stream = [Over(Tcp, "reality", RealitySecret) EXCEPT !.mask = "quic idle 60s"]]
Trojan ==
    [OutboundOf(Out("a")) EXCEPT
        !.protocol = "trojan", !.server = Server("far", "pass"), !.mux = TRUE,
        !.stream = Over(Ws, "tls", TlsSecret)]

\* "B2" falls back to "B1" through its loopback; a rule has two destinations.
Linked ==
    [outbounds |-> << OutboundOf(Out("direct")), Reality, LoopbackOf("B1") >>,
     rules     |-> << Rule("ip", Out("direct"), ""), Rule("domain", Out("a"), "B2"),
                      [LoopbackRule("B1") EXCEPT !.balancer = "B1"] >>,
     balancers |-> << Balancer("B1", "leastPing", {Out("direct")}, NoTag),
                      Balancer("B2", "random", {Out("direct")}, Lb("B1")) >>,
     observer  |-> [kind |-> "burst", subjects |-> {Out("direct")}]]

Plain ==
    [outbounds |-> << Trojan, OutboundOf(Out("direct")), ProviderOf(Warp) >>,
     rules     |-> << Rule("ip", Out("direct"), ""), Rule("domain", Warp, "") >>,
     balancers |-> << >>, observer |-> NoObserver]

MCNames     == {"n"}
MCBalancers == {"B1", "B3"}
MCStored    == {Linked, Plain}
MCDefault   == [Plain EXCEPT !.outbounds = << OutboundOf(Out("direct")), OutboundOf(Out("blocked")) >>,
                             !.rules = << Rule("ip", Out("blocked"), "") >>]
MCServers   == { Server("typed", "typed") }

\* XHTTP in a mode that has no use for one of its fields, Hysteria with its own
\* settings, and a protocol the form does not know.
MCTexts ==
    { [Reality EXCEPT !.tag = Out("t"), !.flow = "", !.stream = Over(XhttpUp, "reality", RealitySecret)],
      [OutboundOf(Out("t")) EXCEPT !.protocol = "hysteria", !.server = [Server("far", "") EXCEPT !.user = << >>],
                                   !.stream = [Hysteria2 EXCEPT !.own.auth = "pass"], !.dialer = Out("direct")],
      [Trojan EXCEPT !.tag = NoTag, !.protocol = "tun"] }

-------------------------------------------------------------------------------
(* Inbounds with a client each.                                               *)

Client == [user |-> << "id" >>, flow |-> "", key |-> "sub", address |-> "", psk |-> ""]
Inbound(protocol, stream) ==
    [protocol |-> protocol, version |-> 2, method |-> "", password |-> "", encryption |-> "none",
     listen |-> "", strategy |-> "node", shareAddr |-> "", node |-> "", browser |-> "panel", publicHost |-> "",
     port |-> 443, stream |-> stream, remark |-> "r", client |-> Client, profiles |-> << >>]
Vision  == [Client EXCEPT !.flow = "vision"]
Odd     == [Client EXCEPT !.user = << "pass/word" >>]
Odder   == [Client EXCEPT !.user = << "pw?" >>]
Profile ==
    [enabled |-> TRUE, dest |-> "", port |-> 0, network |-> "same", own |-> NoFields, security |-> "same",
     forceTls |-> "same", secure |-> NoSecrets, sni |-> "", sniMode |-> "keep", mask |-> "inherit"]

\* A profile that takes all from the inbound, one elsewhere under the old TLS
\* fields, one with its own transport, one switched off, one with other secrets.
Profiles ==
    << Profile,
       [Profile EXCEPT !.dest = "elsewhere", !.port = 8443, !.forceTls = "tls", !.sniMode = "address"],
       [Profile EXCEPT !.network = "kcp", !.security = "none", !.port = 70000],
       [Profile EXCEPT !.enabled = FALSE, !.dest = "off"],
       [Profile EXCEPT !.network = "xhttp", !.own = XhttpUp.own, !.security = "reality", !.secure = RealitySecret,
                       !.mask = "quic idle 600s"] >>

MCShared ==
    { [Inbound("vless", Over(Tcp, "reality", RealitySecret)) EXCEPT !.client = Vision, !.remark = ""],
      [Inbound("vless", Over(Xhttp, "tls", TlsSecret)) EXCEPT
          !.client = Vision, !.encryption = "mlkem", !.listen = "v6", !.strategy = "listen"],
      [Inbound("vless", XhttpBig) EXCEPT !.client = Vision, !.node = "/run/socket", !.browser = "127.0.0.1", !.publicHost = "public"],
      [Inbound("vless", [Over(Grpc, "tls", TlsSecret) EXCEPT !.mask = "quic idle 600s"]) EXCEPT
          !.strategy = "custom", !.shareAddr = "v6", !.node = "node"],
      [Inbound("vless", [Kcp EXCEPT !.mask = "hollow"]) EXCEPT !.strategy = "custom", !.shareAddr = "under_score", !.node = "node"],
      [Inbound("trojan", Over(Ws, "tls", TlsSecret)) EXCEPT !.profiles = Profiles],
      [Inbound("trojan", TcpHttp) EXCEPT !.listen = "127.0.0.1", !.strategy = "listen"],
      [Inbound("trojan", Over(Tcp, "tls", PlainTls)) EXCEPT !.client = Odd],
      Inbound("vmess", Over(Upgrade, "tls", PlainTls)),
      Inbound("vmess", Over(Ws, "tls", TlsSecret)),
      Inbound("vmess", [Kcp EXCEPT !.mask = ""]),
      Inbound("vmess", TcpHttp),
      Inbound("vmess", Over(Grpc, "tls", PlainTls)),
      Inbound("vmess", Xhttp),
      [Inbound("shadowsocks", Tcp) EXCEPT !.method = "2022-aes", !.password = "server"],
      [Inbound("shadowsocks", Tcp) EXCEPT !.method = "2022-chacha20", !.password = "server", !.profiles = Profiles],
      [Inbound("shadowsocks", Tcp) EXCEPT !.method = "aes-256"],
      [Inbound("shadowsocks", Tcp) EXCEPT !.method = "aes-256", !.client = Odder],
      [Inbound("shadowsocks", TcpHttp) EXCEPT !.method = "aes-256"],
      [Inbound("shadowsocks", Over(Ws, "tls", TlsSecret)) EXCEPT !.method = "aes-256"],
      Inbound("hysteria", Hysteria2),
      [Inbound("hysteria", Hysteria2) EXCEPT !.version = 1],
      [Inbound("hysteria", Hysteria2) EXCEPT !.profiles = << [Profile EXCEPT !.forceTls = "none"] >>],
      [Inbound("wireguard", NoStream) EXCEPT !.password = "public", !.client.address = "10.0.0.2"],
      [Inbound("wireguard", NoStream) EXCEPT !.password = "public", !.client.address = "10.0.0.2", !.client.psk = "psk"],
      Inbound("mtproto", NoStream) }

MCBudgets   == { [edits |-> 3, saves |-> 0, refreshes |-> 0, form |-> 0],
                 [edits |-> 2, saves |-> 1, refreshes |-> 1, form |-> 0],
                 [edits |-> 1, saves |-> 0, refreshes |-> 0, form |-> 3] }

\* "B1" selects the outbound "a" alone, and "B2" falls back to "B1".
Cascading == [Linked EXCEPT !.balancers[1].selector = {Out("a")}]

CascadeStored  == {Cascading}
CascadeBudgets == { [edits |-> 1, saves |-> 1, refreshes |-> 0, form |-> 0] }
================================================================================
