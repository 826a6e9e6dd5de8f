--------------------------- MODULE MCTuicSession ----------------------------
(* Constants of TuicSession for TLC: five clients of four requests each.   *)
EXTENDS TuicSession

CONSTANTS u1, u2, r1, r2, r3, r4
MCUsers == {u1, u2}
MCIds == {r1, r2, r3, r4}
Script(a, b, c, d) == r1 :> a @@ r2 :> b @@ r3 :> c @@ r4 :> d
Request(kind, via, user, wire) ==
  [kind |-> kind, via |-> via, user |-> user, session |-> 1, wire |-> wire]
NoWire == Pack(UdpMessage(1, 0, NoDestination, "none", 0))
Auth(u) == Request("auth", "uni", u, NoWire)
Tcp == Request("stream", "stream", None, NoWire)
Dissociate == Request("dissociate", "uni", None, NoWire)
Other(kind, via) == Request(kind, via, None, NoWire)

Somewhere == [family |-> "domain", name |-> 11]
Whole1(p) == UdpMessage(1, 1, Somewhere, p, 100)
Cut(p, n) == Frag(UdpMessage(1, 1, Somewhere, p, n * 1000), 1000 + 10 + 15)
Packet(via, m) == Request("packet", via, None, Pack(m))
Short == [Packet("datagram", Whole1("p")) EXCEPT !.wire.length = 99]

MCScripts == {
  \* two authentications, a stream and a datagram that wait for them
  Script(Auth(u1), Auth(u2), Tcp, Packet("datagram", Whole1("p"))),
  \* an authentication that fails, requests that are refused
  Script(Auth(u1), Auth(None), Tcp, Other("unknown", "datagram")),
  Script(Auth(u1), Short, Other("heartbeat", "datagram"), Other("unknown", "uni")),
  \* an association that is made, removed and made again
  Script(Auth(u1), Packet("datagram", Whole1("p")), Dissociate, Packet("uni", Whole1("q"))),
  \* fragments of two packets under one number
  Script(Auth(u1), Packet("datagram", Cut("p", 2)[1]), Packet("uni", Cut("p", 2)[2]),
    Packet("datagram", Cut("q", 3)[2])) }

(* They are honest, so that what is proved of such clients is about them.  *)
MCOrigin(p, n) ==
  [message |-> UdpMessage(1, 1, Somewhere, p, IF n = 1 THEN 100 ELSE n * 1000), max |-> 1025]
MCOrigins == {MCOrigin(p, n) : p \in {"p", "q"}, n \in 1..3}
ASSUME HonestAssumption ==
  \A s \in MCScripts :
    \E origin \in [{r \in MCIds : s[r].kind = "packet"} -> MCOrigins] : Honest(s, origin)
=============================================================================
