---------------------------- MODULE Configuration ----------------------------
(***************************************************************************)
(* What a server configuration of the panel becomes: its validation        *)
(* (core/validate.go), the inbound of a protocol (core/inbound), the       *)
(* outbounds and routing rules (core/outbound/build.go), and the way a     *)
(* connection then takes (core/app/dispatcher/default.go).                 *)
(*                                                                         *)
(* A protocol and an outbound are records with the fields of api/panel.    *)
(* A text that is blank after trimming is "". A rule of a list is a record *)
(* of its kind ("suffix:a" is [kind |-> "suffix", value |-> "a"]; "plain"  *)
(* has no colon). What xray itself does with the result is external.       *)
(***************************************************************************)
EXTENDS Integers, SequencesExt

Refused == [refused |-> TRUE]     \* an error instead of a result

DefaultTag == "Default"
BlockTag == "block"
DNSTag == "dns_out"

Stream == {"vless", "vmess", "trojan"}
Quic == {"tuic", "hysteria", "hysteria2"}
Supported(p) == p.type \in Stream \cup Quic \cup {"shadowsocks", "anytls"}

Transports == {"tcp", "ws", "websocket", "grpc", "httpupgrade", "splithttp", "xhttp"}
Ports == 1..65535

-----------------------------------------------------------------------------
(* Validation.                                                             *)
ValidateTLSConfig(p) ==
  \/ p.certMode \in {"", "none", "file"}
  \/ p.certMode \in {"self", "dns", "http"} /\ p.sni # ""

ValidateVlessEncryption(p) ==
  \/ p.encryption \in {"", "none"}
  \/ /\ p.encryption = "mlkem768x25519plus"
     /\ p.encryptionMode \in {"native", "xorpub", "random"}
     /\ p.ticket # "" /\ p.privateKey # ""

ValidateReality(p) ==
  p.privateKey # "" /\ p.shortId # "" /\ p.sni # "" /\ p.realityPort \in Ports

ValidateStreamProtocol(p) ==
  /\ p.transport \in Transports
  /\ p.security \in {"", "none", "tls", "reality"}
  /\ p.security = "tls" => ValidateTLSConfig(p)
  /\ p.security = "reality" => ValidateReality(p)
  /\ p.type = "vless" => ValidateVlessEncryption(p)

ValidateProtocol(p) ==
  p.enable =>
    /\ p.port \in Ports
    /\ p.type \in Stream => ValidateStreamProtocol(p)
    /\ p.type = "shadowsocks" => p.cipher \notin {"", "none", "plain"}
    /\ p.type \in Quic => ValidateTLSConfig(p)

(* Protocols this release does not know are not even looked at.            *)
ValidateServerConfig(protocols) ==
  \A i \in DOMAIN protocols :
    Supported(protocols[i]) => ValidateProtocol(protocols[i])

-----------------------------------------------------------------------------
(* The inbound of a protocol. Two functions decide on the certificate: the *)
(* controller whether it is requested, the builder whether it is used.     *)
UsesTLSCertificate(p) ==
  p.security = "tls" \/ (p.type \in Quic /\ p.certMode \notin {"", "none"})

ShouldConfigureTLS(p) ==
  p.certMode \notin {"", "none"} /\ (p.security = "tls" \/ p.type \in Quic)

BuildTransportSetting(p, settings) ==
  IF p.transport \in Transports
  THEN [protocol |-> p.type, network |-> p.transport, settings |-> settings]
  ELSE Refused

VlessDecryption(p) ==
  IF p.encryption \in {"", "none"} THEN <<"none">>
  ELSE <<p.encryption, p.encryptionMode, p.ticket, p.privateKey>>

BuildVLess(p) ==
  IF p.encryption \in {"", "none", "mlkem768x25519plus"}
  THEN BuildTransportSetting(p, VlessDecryption(p))
  ELSE Refused

(* An http disguise with a path or a host gives up udp.                    *)
BuildShadowsocks(p) ==
  [protocol |-> "shadowsocks",
   network |-> IF p.obfs = "http" /\ p.obfsPath # "" THEN "tcp" ELSE "tcp,udp",
   settings |-> <<p.cipher, p.obfs>>]

BuildHysteria2(p) ==
  [protocol |-> "hysteria", network |-> "hysteria",
   settings |-> IF p.obfs \in {"", "none"} \/ p.obfsPassword = "" THEN <<>>
                ELSE <<p.obfs>>]

BuildByType(p) ==
  CASE p.type = "vless" -> BuildVLess(p)
    [] p.type \in {"vmess", "trojan"} -> BuildTransportSetting(p, <<>>)
    [] p.type = "shadowsocks" -> BuildShadowsocks(p)
    [] p.type \in {"hysteria", "hysteria2"} -> BuildHysteria2(p)
    [] p.type = "tuic" -> [protocol |-> "tuic", network |-> "tuic", settings |-> <<>>]
    [] p.type = "anytls" -> [protocol |-> "anytls", network |-> "tcp", settings |-> <<>>]
    [] OTHER -> Refused

Security(p) ==
  IF p.security = "reality" THEN "reality"
  ELSE IF ShouldConfigureTLS(p) THEN "tls" ELSE "none"

(* xray refuses REALITY on the transports that do not carry it, and TLS    *)
(* settings whose files it cannot read.                                    *)
XrayAccepts(in, readable) ==
  /\ in.security = "reality" =>
       in.network \in {"tcp", "grpc", "splithttp", "xhttp"}
  /\ in.security = "tls" => readable

(* The inbound of p; readable: the certificate and the key it names exist. *)
BuildInbound(p, readable) ==
  LET in == BuildByType(p)
      built == [f \in DOMAIN in \cup {"security"} |->
                  IF f = "security" THEN Security(p) ELSE in[f]]
  IN IF in # Refused /\ XrayAccepts(built, readable) THEN built ELSE Refused

-----------------------------------------------------------------------------
(* Outbounds and rules.                                                    *)
Domain(rule) ==
  CASE rule.kind = "plain" -> [match |-> "full", value |-> rule.value]
    [] rule.kind = "suffix" -> [match |-> "domain", value |-> rule.value]
    [] rule.kind = "regex" -> [match |-> "regexp", value |-> rule.value]
    [] OTHER -> [match |-> "substring", value |-> rule.value]

(* Blank entries and doubles are left out.                                 *)
AddDomain(ds, rule) ==
  IF rule.value = "" \/ Contains(ds, Domain(rule)) THEN ds ELSE Append(ds, Domain(rule))

BuildRouteDomains(rules) == FoldLeft(AddDomain, <<>>, rules)

NormalizeOutboundProtocol(protocol) ==
  CASE protocol = "direct" -> "freedom"
    [] protocol \in {"reject", "block"} -> "blackhole"
    [] protocol = "hysteria2" -> "hysteria"
    [] OTHER -> protocol

Outbounds == {"freedom", "blackhole", "http", "socks", "shadowsocks", "trojan",
              "vmess", "vless", "anytls", "tuic", "hysteria"}

(* "none" where the outbound is left out, "bad" where it stops the build.  *)
BuildOutboundSettings(item) ==
  LET protocol == NormalizeOutboundProtocol(item.protocol)
  IN IF item.settings = "invalid" THEN "bad"
     ELSE IF \/ protocol \in Outbounds
             \/ item.settings = "json" /\ protocol # ""
          THEN protocol
          ELSE "none"

TransportOf(item) ==
  IF item.transport # "" THEN item.transport
  ELSE LET protocol == NormalizeOutboundProtocol(item.protocol)
       IN CASE protocol \in {"vmess", "vless", "trojan", "anytls"} -> "tcp"
            [] protocol \in {"tuic", "hysteria"} -> protocol
            [] OTHER -> ""

StreamAccepted(item) ==
  IF item.streamSettings # "" THEN item.streamSettings = "json"
  ELSE /\ item.security \in {"", "none", "tls", "reality"}
       /\ TransportOf(item) \in Transports \cup {"", "raw", "hysteria", "tuic"}

HasOutboundWithTag(outbounds, tag) ==
  \E i \in DOMAIN outbounds : outbounds[i].tag = tag

CustomOutbound_KeepsRules(result, item) ==
  LET protocol == BuildOutboundSettings(item)
      domains == BuildRouteDomains(item.rules)
      rules == IF domains = <<>> THEN result.rules
               ELSE Append(result.rules, [domains |-> ToSet(domains), tag |-> item.name])
  IN IF result = Refused THEN result
     ELSE IF protocol = "none" THEN [result EXCEPT !.rules = rules]
     ELSE IF protocol = "bad" \/ ~StreamAccepted(item) \/ ~item.builds THEN Refused
     ELSE [rules |-> rules,
           outbounds |-> IF HasOutboundWithTag(result.outbounds, item.name)
                         THEN result.outbounds
                         ELSE Append(result.outbounds,
                                     [tag |-> item.name, protocol |-> protocol])]

(* One round of the loop over the custom outbounds; xray may refuse to     *)
(* build an outbound. The rules of an outbound whose name is taken stay.   *)
CustomOutbound(result, item) ==
  LET protocol == BuildOutboundSettings(item)
      domains == BuildRouteDomains(item.rules)
  IN IF result = Refused \/ protocol = "none" THEN result
     ELSE IF protocol = "bad" \/ ~StreamAccepted(item) \/ ~item.builds THEN Refused
     ELSE [rules |-> IF domains = <<>> THEN result.rules
                     ELSE Append(result.rules,
                                 [domains |-> ToSet(domains), tag |-> item.name]),
           outbounds |-> IF HasOutboundWithTag(result.outbounds, item.name)
                         THEN result.outbounds
                         ELSE Append(result.outbounds,
                                     [tag |-> item.name, protocol |-> protocol])]

(* The rule for queries is matched by network and port, not by domain.     *)
DnsRule == [domains |-> {}, tag |-> DNSTag]

BlockRules(block) ==
  IF BuildRouteDomains(block) = <<>> THEN <<>>
  ELSE << [domains |-> ToSet(BuildRouteDomains(block)), tag |-> BlockTag] >>

(* xray refuses a rule that names no outbound.                             *)
RouterBuilds(rules) == \A i \in DOMAIN rules : rules[i].tag # ""

BuildOutbound(block, items) ==
  LET start == [outbounds |-> << [tag |-> DefaultTag, protocol |-> "freedom"],
                                 [tag |-> BlockTag, protocol |-> "blackhole"],
                                 [tag |-> DNSTag, protocol |-> "dns"] >>,
                rules |-> <<DnsRule>> \o BlockRules(block)]
      result == FoldLeft(CustomOutbound, start, items)
  IN IF result # Refused /\ RouterBuilds(result.rules) THEN result ELSE Refused

-----------------------------------------------------------------------------
(* Routing a connection. A name is a sequence of labels, the last of which *)
(* is its suffix; a substring is a label anywhere.                         *)
Matches(domain, name) ==
  CASE domain.match = "full" -> name = <<domain.value>>
    [] domain.match = "domain" -> name # <<>> /\ Last(name) = domain.value
    [] OTHER -> Contains(name, domain.value)

Hits(rule, conn, name) ==
  IF rule.tag = DNSTag /\ rule.domains = {} THEN conn.dns
  ELSE \E domain \in rule.domains : Matches(domain, name)

(* What a client asked for decides unless sniffing found a name in one of  *)
(* the protocols that may override it.                                     *)
ShouldOverride(sniffed) ==
  sniffed.name # <<>> /\ sniffed.protocol \in {"http1", "http2", "tls", "quic"}

RouteTarget(conn, sniffed) ==
  IF ShouldOverride(sniffed) THEN sniffed.name ELSE conn.name

PickRoute(rules, conn, name) ==
  LET hits == {i \in DOMAIN rules : Hits(rules[i], conn, name)}
  IN IF hits = {} THEN "" ELSE rules[CHOOSE i \in hits : \A j \in hits : i <= j].tag

(* The outbound that carries it; "" where the connection is closed.        *)
RoutedDispatch(built, conn, name) ==
  LET tag == PickRoute(built.rules, conn, name)
  IN IF tag = "" THEN built.outbounds[1].tag
     ELSE IF HasOutboundWithTag(built.outbounds, tag) THEN tag ELSE ""
=============================================================================
