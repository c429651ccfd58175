------------------------------ MODULE ProxyLinks ------------------------------
(* Share links of the panel: what the inbound pages write for a client of an  *)
(* inbound, once for each of its profiles, and what the outbound form reads   *)
(* when a link is pasted into it (lib/xray/inbound-link.ts,                   *)
(* subscription-profile.ts, spider-x.ts, outbound-link-parser.ts).            *)
(*                                                                            *)
(* An inbound is a record of what its links are made of: the stream, the      *)
(* addresses it can be shared under, one client and the profiles.  A link is  *)
(* a record of a scheme, who connects (a sequence), host, port and a function *)
(* of the parameters it carries; percent and base64 encodings that are undone *)
(* on the way in are left out, the others are modelled by what they do.       *)
EXTENDS OutboundForm

-------------------------------------------------------------------------------
(* Hosts.  One string stands for each kind: a socket and text that is no host *)
(* name, addresses nobody else can reach, an IPv6 address, other names.       *)

Malformed == {"", "under_score", "https://panel"}
Sockets   == {"/run/socket"}
Local     == {"0.0.0.0", "127.0.0.1"}

Bracketed(h) == IF h = "v6" THEN "[v6]" ELSE h      \* formatUrlHost
Bare(h)      == IF h = "[v6]" THEN "v6" ELSE h

NormalizeShareHost(h) == IF h \in Malformed \cup Sockets THEN "" ELSE Bracketed(h)
ShareableListen(h)    == IF h \in Local THEN "" ELSE NormalizeShareHost(h)

FirstHost(hosts) ==
    LET named == SelectSeq(hosts, LAMBDA h : h # "")
    IN  IF named = << >> THEN "" ELSE named[1]

\* A panel reached through a tunnel is shared under its public host.
PreferPublicHost(browser, public) ==
    IF browser = "127.0.0.1" /\ public # "" THEN public ELSE browser

\* The host a link names; the panel's own host is the last resort, as it is.
ResolveShareHost(in) ==
    LET node   == NormalizeShareHost(in.node)
        listen == ShareableListen(in.listen)
        custom == NormalizeShareHost(in.shareAddr)
        own    == PreferPublicHost(in.browser, in.publicHost)
        panel  == FirstHost(<< NormalizeShareHost(own), own >>)
    IN  FirstHost(CASE in.strategy = "listen" -> << listen, node, panel >>
                    [] in.strategy = "custom" -> << custom, node, listen, panel >>
                    [] OTHER                  -> << node, listen, panel >>)

-------------------------------------------------------------------------------
(* Profiles: other addresses, transports and securities of the same inbound.  *)

ProfileNetwork(stream, p)  == IF p.network = "same" THEN stream.network ELSE p.network
ProfileSecurity(stream, p) ==
    CASE p.security # "same" -> p.security
      [] p.security = "same" /\ p.forceTls # "same" -> p.forceTls
      [] OTHER -> stream.security

\* The network's settings are the profile's, else the inbound's for the same
\* network, else the defaults.
ProfileOwn(stream, p) ==
    LET network == ProfileNetwork(stream, p)
    IN  CASE p.own # NoFields -> IF network = "xhttp" THEN NormalizeXhttp(p.own) ELSE p.own
          [] p.own = NoFields /\ network = stream.network -> stream.own
          [] OTHER -> [NetworkDefaults(network) EXCEPT !.mode = IF network = "xhttp" THEN "auto" ELSE "",
                                                       !.mtu  = ""]

\* The same for the security; TLS takes the fields of the older profiles, and
\* its server name may be held blank or follow the address.
ProfileSecure(stream, p, address) ==
    LET security == ProfileSecurity(stream, p)
        own      == CASE p.secure # NoSecrets -> p.secure
                      [] p.secure = NoSecrets /\ security = stream.security -> stream.secure
                      [] OTHER -> [NoSecrets EXCEPT !.fp = "chrome", !.spx = IF security = "reality" THEN "/" ELSE ""]
        named    == IF p.sni = "" THEN own ELSE [own EXCEPT !.sni = p.sni]
    IN  CASE security = "none"    -> NoSecrets
          [] security = "reality" -> own
          [] OTHER -> CASE p.sniMode = "blank"   -> [named EXCEPT !.sni = ""]
                        [] p.sniMode = "address" -> [named EXCEPT !.sni = address]
                        [] OTHER -> named

\* A transport of the profile's own does not inherit the inbound's masks.
ProfileMask(stream, p) ==
    CASE p.mask # "inherit" -> p.mask
      [] p.mask = "inherit" /\ p.network = "same" -> stream.mask
      [] OTHER -> IF p.network = "kcp" THEN "mkcp-legacy" ELSE ""

EffectiveStream(stream, p, address) ==
    [network |-> ProfileNetwork(stream, p), own |-> ProfileOwn(stream, p),
     security |-> ProfileSecurity(stream, p), secure |-> ProfileSecure(stream, p, address),
     mask |-> ProfileMask(stream, p)]

\* Where a client of the inbound connects: once for each enabled profile.
\* WireGuard, MTProto and a Shadowsocks inbound without clients are shared as
\* they are.
SingleUser(in) == in.method = "2022-chacha20"
AsItIs(in)     == in.profiles = << >> \/ in.protocol \in {"mtproto", "wireguard"} \/ SingleUser(in)

ExpandEndpoints(in) ==
    LET address    == ResolveShareHost(in)
        enabled    == SelectSeq(in.profiles, LAMBDA p : p.enabled)
        At(p)      == FirstHost(<< p.dest, address >>)
        Profile(p) == [in |-> in, host |-> At(p), stream |-> EffectiveStream(in.stream, p, At(p)),
                       port |-> IF p.port \in 1..65535 THEN p.port ELSE in.port]
    IN  IF AsItIs(in)
        THEN << [in |-> in, host |-> address, stream |-> in.stream, port |-> in.port] >>
        ELSE [n \in DOMAIN enabled |-> Profile(enabled[n])]

-------------------------------------------------------------------------------
(* Writing a link.                                                            *)

None        == [p \in {} |-> ""]
Nonblank(q) == [p \in { x \in DOMAIN q : q[x] # "" } |-> q[p]]
Get(q, p, default) == IF p \in DOMAIN q THEN q[p] ELSE default

\* XHTTP's further fields, without those that equal the core's default.
XhttpExtra(own) ==
    [mode |-> own.mode, padding |-> own.padding, session |-> own.session,
     packet |-> IF own.packet = "1000000" THEN "" ELSE own.packet]

NetworkQuery(stream) ==
    LET own == stream.own
    IN  CASE stream.network = "tcp" /\ own.header = "http" ->
               [headerType |-> "http", path |-> own.path] @@ Nonblank([host |-> own.host])
          [] stream.network = "kcp" -> [mtu |-> own.mtu]
          [] stream.network \in {"ws", "httpupgrade"} -> [path |-> own.path, host |-> own.host]
          [] stream.network = "grpc" ->
               [serviceName |-> own.service, authority |-> own.authority] @@ Nonblank([mode |-> own.mode])
          [] stream.network = "xhttp" ->
               [path |-> own.path, host |-> own.host, mode |-> own.mode, extra |-> XhttpExtra(own)]
               @@ Nonblank([x_padding_bytes |-> own.padding])
          [] OTHER -> None

\* A mask that holds nothing, "hollow", is not worth a parameter.
MaskQuery(mask) == IF mask = "hollow" THEN None ELSE Nonblank([fm |-> mask])

TlsFields == {"sni", "fp", "alpn", "ech", "vcn", "pcs"}

TlsQuery(s) ==
    [security |-> "tls", fp |-> s.fp, alpn |-> s.alpn]
    @@ Nonblank([sni |-> s.sni, ech |-> s.ech, vcn |-> s.vcn, pcs |-> s.pcs])

\* The path the client's spider starts from: one per client, made of the seed.
DeriveSpiderX(seed, key) == IF seed = "" /\ key = "" THEN "" ELSE "/spider"

RealityQuery(s, key) ==
    [security |-> "reality", pbk |-> s.pbk, fp |-> s.fp]
    @@ Nonblank([sni |-> s.sni, sid |-> s.sid, spx |-> DeriveSpiderX(s.spx, key), pqv |-> s.pqv])

SecurityQuery(stream, key) ==
    CASE stream.security = "tls"     -> TlsQuery(stream.secure)
      [] stream.security = "reality" -> RealityQuery(stream.secure, key)
      [] OTHER -> [security |-> "none"]

LinkOf(scheme, user, e, q) ==
    [scheme |-> scheme, user |-> user, host |-> Bracketed(e.host), port |-> e.port, q |-> q,
     remark |-> e.in.remark]

\* VMess: one object, in which the network's type takes several meanings.
GenVmessLink(e) ==
    LET own == e.stream.own
        net == NetworkQuery(e.stream)
        q   == CASE e.stream.network = "tcp"   -> Restrict(net, DOMAIN net \ {"headerType"}) @@ [type |-> own.header]
                 [] e.stream.network = "grpc"  -> [path |-> own.service, authority |-> own.authority]
                                                  @@ Nonblank([type |-> own.mode])
                 [] e.stream.network = "xhttp" -> net @@ [type |-> own.mode]
                 [] OTHER -> net
        tls == IF e.stream.security # "tls" THEN None
               ELSE Nonblank(Restrict(e.stream.secure, TlsFields))
    IN  [LinkOf("vmess", e.in.client.user, e,
                [net |-> e.stream.network, tls |-> e.stream.security]
                @@ q @@ MaskQuery(e.stream.mask) @@ tls) EXCEPT !.host = e.host]

GenVlessLink(e) ==
    LET flow == IF CanEnableTlsFlow("vless", e.stream, e.in.encryption) THEN e.in.client.flow ELSE ""
    IN  LinkOf("vless", e.in.client.user, e,
               [type |-> e.stream.network, encryption |-> e.in.encryption]
               @@ NetworkQuery(e.stream) @@ MaskQuery(e.stream.mask)
               @@ SecurityQuery(e.stream, e.in.client.key) @@ Nonblank([flow |-> flow]))

\* A password with characters of its own is escaped, and read as it is written.
Escaped(user) == IF user = << "pass/word" >> THEN << "pass%2Fword" >> ELSE user

GenTrojanLink(e) ==
    LinkOf("trojan", Escaped(e.in.client.user), e,
           [type |-> e.stream.network] @@ NetworkQuery(e.stream) @@ MaskQuery(e.stream.mask)
           @@ SecurityQuery(e.stream, e.in.client.key))

\* Shadowsocks: the method with the server's password, the client's or both.
\* The camouflage of TCP is written for a plugin.
SSPasswords(in) ==
    (IF in.method \in {"2022-aes", "2022-chacha20"} THEN << in.password >> ELSE << >>)
    \o (IF SingleUser(in) THEN << >> ELSE in.client.user)

\* The user information, in base64 before the methods of 2022.  It is written in
\* the alphabet for URLs, which differs from the standard one for some passwords.
Userinfo(in) ==
    LET pair == << in.method >> \o SSPasswords(in)
    IN  CASE in.method \in {"2022-aes", "2022-chacha20"} -> pair
          [] in.client.user = << "pw?" >> -> << "base64url" >> \o pair
          [] OTHER -> << "base64" >> \o pair

GenShadowsocksLink(e) ==
    LET q == [type |-> e.stream.network] @@ NetworkQuery(e.stream) @@ MaskQuery(e.stream.mask)
             @@ (IF e.stream.security = "tls" THEN TlsQuery(e.stream.secure) ELSE None)
        camouflage == { "type", "headerType", "host", "path" }
    IN  LinkOf("ss", Userinfo(e.in), e,
               IF e.stream.network = "tcp" /\ e.stream.own.header = "http"
               THEN Restrict(q, DOMAIN q \ camouflage) @@ [plugin |-> Get(q, "host", "")] ELSE q)

\* Certificate pins are written in hexadecimal for Hysteria.
HysteriaPinHex(pin) == IF pin = "pin64" THEN "pinhex" ELSE pin

GenHysteriaLink(e) ==
    LET s == e.stream.secure
    IN  LinkOf(IF e.in.version = 2 THEN "hysteria2" ELSE "hysteria", e.in.client.user, e,
               [security |-> "tls"]
               @@ Nonblank([fp |-> s.fp, alpn |-> s.alpn, ech |-> s.ech, sni |-> s.sni,
                            vcn |-> s.vcn, pinSHA256 |-> HysteriaPinHex(s.pcs)])
               @@ MaskQuery(e.stream.mask))

\* WireGuard: the client's key, the server's public key, the first address; the
\* pre-shared key is not written.
GenWireguardLink(e) ==
    LinkOf("wireguard", e.in.client.user, e,
           Nonblank([publickey |-> e.in.password, address |-> e.in.client.address]))

GenMtprotoLink(e) == LinkOf("tg", e.in.client.user, e, None)

\* Hysteria has a link only over TLS.
GenLink(e) ==
    CASE e.in.protocol = "vmess"       -> << GenVmessLink(e) >>
      [] e.in.protocol = "vless"       -> << GenVlessLink(e) >>
      [] e.in.protocol = "trojan"      -> << GenTrojanLink(e) >>
      [] e.in.protocol = "shadowsocks" -> << GenShadowsocksLink(e) >>
      [] e.in.protocol = "hysteria" /\ e.stream.security = "tls" -> << GenHysteriaLink(e) >>
      [] e.in.protocol = "wireguard"   -> << GenWireguardLink(e) >>
      [] e.in.protocol = "mtproto"     -> << GenMtprotoLink(e) >>
      [] OTHER -> << >>

\* At most one link for each endpoint.
GenAllLinks(in) == LET es == ExpandEndpoints(in) IN [n \in DOMAIN es |-> GenLink(es[n])]

-------------------------------------------------------------------------------
(* Reading a link.                                                            *)

BuildStream(network, security) ==
    [NewStreamSlice(network, security) EXCEPT !.own.mode = IF network = "xhttp" THEN "auto" ELSE @]

\* XHTTP's fields from the weakest source to the strongest: the default, the
\* parameter of its own, the further fields.
ApplyXhttpParams(own, q) ==
    LET extra == Get(q, "extra", XhttpExtra(NoFields))
        padded == [own EXCEPT !.padding = Get(q, "x_padding_bytes", @)]
    IN  [f \in DOMAIN own |-> IF f \in {"padding", "session", "packet"} /\ extra[f] # ""
                              THEN extra[f] ELSE padded[f]]

ApplyTransportParams(stream, q) ==
    LET own   == stream.own
        path  == Get(q, "path", "/")
        named == [own EXCEPT !.host = Get(q, "host", ""), !.path = path]
        mode  == Get(q, "mode", "")
    IN  CASE stream.network \in {"ws", "httpupgrade"} -> named
          [] stream.network = "grpc" ->
               [own EXCEPT !.service   = Get(q, "serviceName", Get(q, "path", "")),
                           !.authority = Get(q, "authority", ""),
                           !.mode      = IF mode = "multi" THEN mode ELSE ""]
          [] stream.network = "xhttp" ->
               ApplyXhttpParams([named EXCEPT !.mode = IF mode = "" THEN @ ELSE mode], q)
          [] stream.network = "tcp" /\ Get(q, "headerType", "") = "http" -> [named EXCEPT !.header = "http"]
          [] OTHER -> own

RealityFields == {"sni", "fp", "pbk", "sid", "spx", "pqv"}

ReadSecrets(fields, q) ==
    [f \in DOMAIN NoSecrets |-> IF f \in fields THEN Get(q, f, "") ELSE ""]

MutApplySecurityParams(security, q) ==      \* REALITY's short id is left to the user
    CASE security = "tls"     -> ReadSecrets(TlsFields, q)
      [] security = "reality" -> [ReadSecrets(RealityFields \ {"sid"}, q) EXCEPT !.fp = Get(q, "fp", "chrome")]
      [] OTHER -> NoSecrets

ApplySecurityParams(security, q) ==
    CASE security = "tls"     -> ReadSecrets(TlsFields, q)
      [] security = "reality" -> [ReadSecrets(RealityFields, q) EXCEPT !.fp = Get(q, "fp", "chrome")]
      [] OTHER -> NoSecrets

\* The core refuses QUIC parameters out of their range; they are clamped.
SanitizeMask(mask) == IF mask = "quic idle 600s" THEN "quic idle 120s" ELSE mask

UrlStream(q, security) ==
    LET stream == BuildStream(Get(q, "type", "tcp"), security)
    IN  [stream EXCEPT !.own    = ApplyTransportParams(stream, q),
                       !.secure = ApplySecurityParams(security, q),
                       !.mask   = SanitizeMask(Get(q, "fm", ""))]

Imported(link, protocol, stream) ==
    [OutboundOf(IF link.remark = "" THEN NoTag ELSE Out(link.remark)) EXCEPT
        !.protocol = protocol, !.stream = stream,
        !.server = [NoServer EXCEPT !.host = link.host, !.port = link.port, !.user = link.user]]

\* VMess: of the security only three fields are read, and no masks.
ParseVmessLink(link) ==
    LET q        == link.q
        security == IF Get(q, "tls", "") = "tls" THEN "tls" ELSE "none"
        stream   == BuildStream(Get(q, "net", "tcp"), security)
        asUrl    == CASE stream.network = "tcp"  -> [headerType |-> Get(q, "type", "")] @@ q
                      [] stream.network = "grpc" -> [mode |-> Get(q, "type", "")] @@ q
                      [] OTHER -> q
    IN  Imported(link, "vmess",
               [stream EXCEPT !.own = ApplyTransportParams(stream, asUrl),
                              !.secure = IF security = "tls" THEN ReadSecrets({"sni", "fp", "alpn"}, q) ELSE @])

ParseVlessLink(link) ==
    [Imported(link, "vless", UrlStream(link.q, Get(link.q, "security", "none"))) EXCEPT
        !.flow = Get(link.q, "flow", ""), !.encryption = Get(link.q, "encryption", "none")]

ParseTrojanLink(link) == Imported(link, "trojan", UrlStream(link.q, Get(link.q, "security", "tls")))

\* Shadowsocks: the parameters are not read.  What does not decode from the
\* standard alphabet of base64 is taken for the password of the default method.
Decoded(info) ==
    CASE info[1] = "base64"    -> Tail(info)
      [] info[1] = "base64url" -> << "2022-aes", "base64url" >>
      [] OTHER -> info

ParseShadowsocksLink(link) == Imported([link EXCEPT !.user = Decoded(@)], "shadowsocks", NoStream)

ParseHysteria2Link(link) ==
    LET q == link.q
        s == [HysteriaSlice EXCEPT
                !.own.auth = link.user[1],
                !.secure   = [ReadSecrets(TlsFields \ {"pcs"}, q) EXCEPT
                                !.alpn = Get(q, "alpn", "h3"), !.pcs = Get(q, "pinSHA256", "")],
                !.mask     = SanitizeMask(Get(q, "fm", ""))]
    IN  [Imported(link, "hysteria", s) EXCEPT !.server.user = << >>]

ParseWireguardLink(link) ==
    [Imported(link, "wireguard", NoStream) EXCEPT
        !.server.peer = << Get(link.q, "publickey", ""), Get(link.q, "address", "") >>]

\* The outbound of a link, none for the schemes nobody reads.
ParseOutboundLink(link) ==
    CASE link.scheme = "vmess"     -> << ParseVmessLink(link) >>
      [] link.scheme = "vless"     -> << ParseVlessLink(link) >>
      [] link.scheme = "trojan"    -> << ParseTrojanLink(link) >>
      [] link.scheme = "ss"        -> << ParseShadowsocksLink(link) >>
      [] link.scheme = "hysteria2" -> << ParseHysteria2Link(link) >>
      [] link.scheme = "wireguard" -> << ParseWireguardLink(link) >>
      [] OTHER -> << >>

-------------------------------------------------------------------------------
(* What an imported link must lead to, from the endpoint alone.               *)

\* Two settings of a network that mean the same to the core are made equal:
\* defaults are written out, and what a peer need not share is left out.
Canonical(network, own) ==
    LET used == IF network = "xhttp" THEN NormalizeXhttp(own) ELSE own
    IN  [used EXCEPT !.mtu = "", !.auth = "",
                     !.header  = IF network = "tcp" /\ @ = "" THEN "none" ELSE @,
                     !.mode    = IF network = "xhttp" /\ @ = "" THEN "auto" ELSE @,
                     !.padding = IF network = "xhttp" /\ @ = "" THEN "100-1000" ELSE @,
                     !.packet  = IF @ = "1000000" THEN "" ELSE @]

\* The spider path is the client's, the pins of Hysteria are hexadecimal.
SecretsFor(e) ==
    [e.stream.secure EXCEPT
        !.spx = IF e.stream.security = "reality" THEN DeriveSpiderX(@, e.in.client.key) ELSE @,
        !.pcs = IF e.in.protocol = "hysteria" THEN HysteriaPinHex(@) ELSE @]

SameStream(stream, e) ==
    /\ stream.network = e.stream.network
    /\ stream.security = e.stream.security
    /\ Canonical(stream.network, stream.own) = Canonical(stream.network, e.stream.own)
    /\ stream.secure = SecretsFor(e)
    /\ stream.mask = IF e.stream.mask = "hollow" THEN "" ELSE SanitizeMask(e.stream.mask)

Credential(in) == IF in.protocol = "shadowsocks" THEN << in.method >> \o SSPasswords(in) ELSE in.client.user

\* The outbound connects to the endpoint, as the client, in the same way.
Reaches(o, e) ==
    /\ o.protocol = e.in.protocol
    /\ Bare(o.server.host) = Bare(e.host) /\ o.server.port = e.port
    /\ Credential(e.in) = IF o.protocol = "hysteria" THEN << o.stream.own.auth >> ELSE o.server.user
    /\ o.protocol = "wireguard" => o.server.peer = << e.in.password, e.in.client.address >>
    /\ o.protocol = "vless" =>
          /\ o.encryption = e.in.encryption
          /\ CanEnableTlsFlow("vless", e.stream, e.in.encryption) => o.flow = e.in.client.flow
    /\ o.protocol # "wireguard" => SameStream(o.stream, e)

\* What links do not carry, or what is not read from them.
Lossy(e) ==
    CASE e.in.protocol = "vmess" ->
           e.stream.mask # "" \/ \E f \in {"ech", "vcn", "pcs"} : e.stream.secure[f] # ""
      [] e.in.protocol = "shadowsocks" ->
           ~(/\ e.stream.network = "tcp" /\ e.stream.own.header # "http"
             /\ e.stream.security = "none" /\ e.stream.mask = "" /\ Userinfo(e.in)[1] # "base64url")
      [] e.in.protocol \in {"trojan", "hysteria"} -> e.in.client.user = << "pass/word" >>
      [] e.in.protocol = "wireguard" -> e.in.client.psk # ""
      [] OTHER -> FALSE
=============================================================================
