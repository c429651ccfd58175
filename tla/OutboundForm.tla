----------------------------- MODULE OutboundForm -----------------------------
(* The outbound form of the Xray page as functions of its values: what a      *)
(* stored outbound becomes when the form opens on it, what each control       *)
(* changes besides its own field, and what is written back                    *)
(* (outbounds/OutboundFormModal.tsx, outbounds/outbound-form-helpers.ts,      *)
(* lib/xray/outbound-form-adapter.ts, stream-wire-normalize.ts,               *)
(* protocol-capabilities.ts).                                                 *)
(*                                                                            *)
(* An outbound is a record.  server is where it connects and as whom; flow    *)
(* and encryption are VLESS's; dialer is sockopt.dialerProxy, mask is         *)
(* finalmask, and mux is whether multiplexing is on.  The settings of the     *)
(* network and of the security are functions of their fields, "" where a      *)
(* field is blank.  "socks" and "freedom" stand for the protocols without a   *)
(* transport, with a server and without.                                      *)
EXTENDS XrayConfig

Protocols == {"vmess", "vless", "trojan", "shadowsocks", "hysteria", "wireguard", "socks", "freedom"}

-------------------------------------------------------------------------------
(* What a protocol allows.                                                    *)

StreamAllowed(p) == p \in {"vmess", "vless", "trojan", "shadowsocks", "hysteria", "wireguard"}
StreamWritten(p) == p \in {"vmess", "vless", "trojan", "shadowsocks", "hysteria"}
HasServer(p)     == p \in {"vmess", "vless", "trojan", "shadowsocks", "hysteria", "socks"}

CanEnableTls(p, network) ==
    \/ p = "hysteria"
    \/ /\ p \in {"vmess", "vless", "trojan", "shadowsocks"}
       /\ network \in {"tcp", "ws", "grpc", "httpupgrade", "xhttp"}

CanEnableReality(p, network) ==
    p \in {"vless", "trojan"} /\ network \in {"tcp", "grpc", "xhttp"}

CanEnableTlsFlow(p, stream, encryption) ==
    /\ p = "vless"
    /\ \/ stream.network = "tcp" /\ stream.security \in {"tls", "reality"}
       \/ stream.network = "xhttp" /\ encryption # "none"

MuxAllowed(v) ==
    /\ v.protocol \in {"vmess", "vless", "trojan", "shadowsocks", "socks"}
    /\ v.protocol = "vless" => v.flow = ""
    /\ v.stream.network # "xhttp"

-------------------------------------------------------------------------------
(* Blank slices.                                                              *)

\* The settings a network is given when it is chosen.
NetworkDefaults(network) ==
    [NoFields EXCEPT !.path    = IF network \in {"ws", "httpupgrade", "xhttp"} THEN "/" ELSE "",
                     !.header  = IF network = "tcp" THEN "none" ELSE "",
                     !.mtu     = IF network = "kcp" THEN "1350" ELSE "",
                     !.padding = IF network = "xhttp" THEN "100-1000" ELSE ""]

SecurityDefaults(security) ==
    [NoSecrets EXCEPT !.fp = IF security = "reality" THEN "chrome" ELSE ""]

NewStreamSlice(network, security) ==
    [network |-> network, own |-> NetworkDefaults(network),
     security |-> security, secure |-> SecurityDefaults(security), mask |-> ""]

HysteriaSlice == [NewStreamSlice("hysteria", "tls") EXCEPT !.secure.alpn = "h3"]

-------------------------------------------------------------------------------
(* Effects that run after every change of the values.  Replacing the stream   *)
(* settings drops what rides on them: mask and sockopt.                       *)

WithStream(v, stream) == [v EXCEPT !.stream = stream, !.dialer = NoTag]

SeedStream(v) ==
    CASE v.protocol = "wireguard" /\ v.stream.network # "" -> WithStream(v, NoStream)
      [] v.protocol # "wireguard" /\ StreamAllowed(v.protocol) /\ v.stream.network = "" ->
           WithStream(v, NewStreamSlice("tcp", "none"))
      [] OTHER -> v

HoldHysteria(v) ==
    IF v.protocol # "hysteria" \/ (v.stream.network = "hysteria" /\ v.stream.security = "tls") THEN v
    ELSE WithStream(v, [HysteriaSlice EXCEPT
           !.own    = IF v.stream.network = "hysteria" THEN v.stream.own ELSE @,
           !.secure = IF v.stream.security = "tls" THEN v.stream.secure ELSE @])

Effects(v) == HoldHysteria(SeedStream(v))

-------------------------------------------------------------------------------
(* Reading and writing.                                                       *)

\* What a form holds of a stored outbound: an unknown protocol is taken for
\* VLESS, whose fields the other's settings do not have.
FromWire(o) ==
    IF o.protocol \in Protocols
    THEN [o EXCEPT !.flow       = IF o.protocol = "vless" THEN @ ELSE "",
                   !.encryption = IF o.protocol = "vless" THEN @ ELSE "none"]
    ELSE [o EXCEPT !.protocol = "vless", !.server = NoServer, !.flow = "", !.encryption = "none"]

\* The fields of XHTTP that its mode does not use are not written.
NormalizeXhttp(own) ==
    [own EXCEPT !.packet = IF own.mode \in {"stream-one", "stream-up"} THEN "" ELSE @]

NormalizeStream(stream) ==
    [stream EXCEPT !.own = IF stream.network = "xhttp" THEN NormalizeXhttp(@) ELSE @]

ToWire(v) ==
    [v EXCEPT !.stream = IF StreamWritten(v.protocol) THEN NormalizeStream(@) ELSE NoStream,
              !.mux    = @ /\ MuxAllowed(v)]

-------------------------------------------------------------------------------
(* The controls.                                                              *)

\* The settings start anew; the stream settings stay, except Hysteria's.
ChangeProtocol(v, p) ==
    LET blank == [v EXCEPT !.protocol = p, !.server = NoServer, !.flow = "", !.encryption = "none"]
    IN  CASE p = "hysteria" -> WithStream(blank, HysteriaSlice)
          [] p # "hysteria" /\ v.stream.network = "hysteria" ->
               WithStream(blank, NewStreamSlice("tcp", "none"))
          [] OTHER -> blank

MutApplyNetworkChange(p, stream, network) ==    \* the security is kept, its settings are not
    LET stays == \/ stream.security = "tls" /\ CanEnableTls(p, network)
                 \/ stream.security = "reality" /\ CanEnableReality(p, network)
    IN  NewStreamSlice(network, IF stays THEN stream.security ELSE "none")

\* The security stays, with its settings, where the new network supports it.
ApplyNetworkChange(p, stream, network) ==
    LET stays == \/ stream.security = "tls" /\ CanEnableTls(p, network)
                 \/ stream.security = "reality" /\ CanEnableReality(p, network)
    IN  CASE network = "hysteria" -> HysteriaSlice
          [] network # "hysteria" /\ stays ->
               [NewStreamSlice(network, stream.security) EXCEPT !.secure = stream.secure]
          [] OTHER -> NewStreamSlice(network, "none")

ChangeNetwork(v, network) == WithStream(v, ApplyNetworkChange(v.protocol, v.stream, network))

ChangeSecurity(v, security) ==
    [v EXCEPT !.stream.security = security, !.stream.secure = SecurityDefaults(security)]

\* The networks and securities the form offers.
NetworkOptions(v) ==
    CASE v.protocol = "hysteria" -> {"hysteria"}
      [] v.protocol # "hysteria" /\ StreamAllowed(v.protocol) /\ v.stream.network # "" ->
           {"tcp", "kcp", "ws", "grpc", "httpupgrade", "xhttp"}
      [] OTHER -> {}

SecurityOptions(v) ==
    IF ~StreamAllowed(v.protocol) \/ v.stream.network = "" THEN {}
    ELSE { s \in {"none", "tls", "reality"} :
             CASE s = "none"    -> v.stream.network # "hysteria"
               [] s = "tls"     -> CanEnableTls(v.protocol, v.stream.network)
               [] s = "reality" -> CanEnableReality(v.protocol, v.stream.network) }

\* The form offers the flow without regard to the encryption, although the
\* core allows it over XHTTP.
FlowShown(v) == CanEnableTlsFlow(v.protocol, v.stream, "none")
===============================================================================
