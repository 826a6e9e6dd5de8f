----------------------------- MODULE MCProvision -----------------------------
(* Small servers: those that get their certificates from a CA or make them *)
(* themselves, those that route connections, and those the program refuses.*)
EXTENDS Provision

CONSTANT c1, c2

MCNodes == 1..2
MCKeys == 0..9
MCNames == {"TOKEN", "ZONE"}
MCBase == [v \in MCNames |-> IF v = "ZONE" THEN "system" ELSE Unset]
MCConns == {c1, c2}

Plain == [type |-> "trojan", enable |-> TRUE, port |-> 443, transport |-> "tcp",
          security |-> "none", certMode |-> "none", sni |-> "s", cipher |-> "",
          encryption |-> "", encryptionMode |-> "", ticket |-> "", privateKey |-> "",
          shortId |-> "", realityPort |-> 0, obfs |-> "", obfsPath |-> "",
          obfsPassword |-> "", dnsEnv |-> <<>>]
Off == [Plain EXCEPT !.enable = FALSE]

Dns1 == [Plain EXCEPT !.security = "tls", !.certMode = "dns",
                      !.dnsEnv = [v \in {"TOKEN"} |-> "a"]]
Dns2 == [Plain EXCEPT !.type = "tuic", !.certMode = "dns",
                      !.dnsEnv = [v \in MCNames |-> "b"]]
Http1 == [Plain EXCEPT !.security = "tls", !.certMode = "http"]
Http2 == [Plain EXCEPT !.type = "hysteria2", !.certMode = "http"]
Self == [Plain EXCEPT !.type = "anytls", !.security = "tls", !.certMode = "self"]
File == [Plain EXCEPT !.type = "vmess", !.security = "tls", !.certMode = "file"]

None2 == [key |-> 0, crt |-> NoCert]
Pair(k, ec, age) == [key |-> k, crt |-> [key |-> k, ec |-> ec, age |-> age]]
Mixed == [key |-> 1, crt |-> [key |-> 2, ec |-> TRUE, age |-> "fresh"]]

Bound(a, f, c, r) == [ages |-> a, fails |-> f, crashes |-> c, reloads |-> r]

Server == [protocols |-> <<Plain, Off>>, files |-> <<None2, None2>>,
           old |-> <<None2, None2>>, linked |-> TRUE, account |-> "ready",
           most |-> Bound(0, 0, 0, 0), block |-> <<>>, outbound |-> <<>>, targets |-> <<>>]

Certified ==
  { [Server EXCEPT !.protocols = <<Dns1, Dns2>>, !.most = Bound(0, 1, 0, 0),
                   !.files = <<Pair(1, TRUE, "due"), Pair(2, TRUE, "due")>>],
    [Server EXCEPT !.protocols = <<Http1, Http2>>, !.most = Bound(0, 1, 0, 0),
                   !.files = <<Pair(1, TRUE, "due"), Pair(2, TRUE, "due")>>],
    [Server EXCEPT !.protocols = <<Dns1, Off>>, !.most = Bound(1, 0, 1, 1),
                   !.account = "other", !.files = <<Pair(1, TRUE, "due"), None2>>],
    [Server EXCEPT !.protocols = <<Dns1, Off>>, !.most = Bound(1, 1, 1, 0),
                   !.account = "other", !.files = <<Pair(1, TRUE, "due"), None2>>],
    [Server EXCEPT !.protocols = <<Dns1, Off>>, !.most = Bound(2, 0, 0, 0),
                   !.account = "none"],
    [Server EXCEPT !.protocols = <<Http1, Off>>, !.most = Bound(1, 1, 1, 1),
                   !.account = "none", !.files = <<Pair(1, FALSE, "fresh"), None2>>],
    [Server EXCEPT !.protocols = <<Self, File>>, !.most = Bound(0, 1, 1, 1),
                   !.files = <<Mixed, Pair(3, FALSE, "fresh")>>],
    [Server EXCEPT !.protocols = <<Self, File>>, !.files = <<None2, Mixed>>] }

Rule(kind, value) == [kind |-> kind, value |-> value]
Item == [name |-> "A", protocol |-> "socks", settings |-> "", streamSettings |-> "",
         transport |-> "", security |-> "", builds |-> TRUE, rules |-> <<>>]
A == [Item EXCEPT !.rules = <<Rule("suffix", "com"), Rule("plain", "x"),
                              Rule("suffix", "com")>>]
Twice == [Item EXCEPT !.protocol = "direct", !.rules = <<Rule("keyword", "y")>>]
Reserved == [Item EXCEPT !.name = BlockTag, !.protocol = "vless",
                         !.rules = <<Rule("plain", "x"), Rule("plain", "z")>>]
Wire == [Item EXCEPT !.name = "W", !.protocol = "wireguard",
                     !.rules = <<Rule("regex", "w"), Rule("suffix", "net")>>]
Json == [Wire EXCEPT !.name = "J", !.settings = "json", !.rules = <<Rule("suffix", "net")>>]

Targets ==
  << [dns |-> FALSE, name |-> <<"a", "com">>,
      sniffs |-> {[protocol |-> "tls", name |-> <<"y", "com">>],
                  [protocol |-> "http1", name |-> <<"w", "net">>],
                  [protocol |-> "bittorrent", name |-> <<>>]}],
     [dns |-> TRUE, name |-> <<>>, sniffs |-> {}],
     [dns |-> FALSE, name |-> <<>>,
      sniffs |-> {[protocol |-> "quic", name |-> <<"x">>],
                  [protocol |-> "tls", name |-> <<"z">>],
                  [protocol |-> "tls", name |-> <<"w", "org">>]}] >>

Routed ==
  { [Server EXCEPT !.block = b, !.outbound = o,
                   !.targets = [c \in MCConns |-> IF c = c1 THEN Targets[1] ELSE Targets[t]]] :
    b \in {<<>>, <<Rule("plain", ""), Rule("suffix", "net"), Rule("keyword", "x")>>},
    o \in {<<A, Twice>>, <<Twice, Wire, A>>, <<Reserved, A, Json>>,
           <<Wire, Json, Reserved>>, <<[A EXCEPT !.name = ""]>>,
           <<[A EXCEPT !.builds = FALSE]>>, <<[A EXCEPT !.security = "xtls"]>>},
    t \in {2, 3} }

(* Servers that are refused, and those that only fail as they start.       *)
Refusable ==
  { [Server EXCEPT !.protocols = <<p, Off>>] :
    p \in {[Plain EXCEPT !.security = "tls"], [Self EXCEPT !.sni = ""],
           [Self EXCEPT !.certMode = "odd"],
           [Plain EXCEPT !.port = 0], [Plain EXCEPT !.transport = "quic"],
           [Plain EXCEPT !.type = "naive"],
           [Plain EXCEPT !.type = "shadowsocks", !.cipher = "none"],
           [Plain EXCEPT !.type = "vless", !.encryption = "mlkem768x25519plus"],
           [Plain EXCEPT !.security = "reality", !.privateKey = "k", !.shortId = "i",
                         !.realityPort = 443, !.transport = "ws"]} }

(* A server whose directories are two, with or without the pair of an      *)
(* earlier release in the old one.                                         *)
Legacy ==
  { [Server EXCEPT !.protocols = <<Dns1, Off>>, !.most = Bound(1, 0, 0, 0),
                   !.files = <<Pair(1, TRUE, "fresh"), None2>>, !.old = <<o, None2>>,
                   !.linked = FALSE] :
    o \in {None2, Pair(5, TRUE, "expired")} }

(* Those that come up, and a node with the same pair in both.              *)
Apart ==
  {c \in Legacy : c.old[1] # None2} \cup
  { [Server EXCEPT !.protocols = <<Self, Off>>, !.most = Bound(0, 1, 1, 1),
                   !.files = <<p, None2>>, !.old = <<Pair(1, TRUE, "fresh"), None2>>,
                   !.linked = FALSE] :
    p \in {Pair(1, TRUE, "fresh"), Mixed} }

MCConfigs == Certified \cup Routed \cup Refusable \cup Apart
=============================================================================
