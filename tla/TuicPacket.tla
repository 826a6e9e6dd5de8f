----------------------------- MODULE TuicPacket -----------------------------
(***************************************************************************)
(* The packets of the TUIC transport as values: what a UDP message looks   *)
(* like on the wire, how it is cut into fragments that fit a datagram, and *)
(* how fragments become a message again (packet.go, protocol.go).          *)
(*                                                                         *)
(* Bytes are not spelled out. The data of a message is a sequence of       *)
(* ranges [packet, from, to]: bytes from (included) to to (excluded) of    *)
(* what one sender wrote. Two ranges put together are whole when the       *)
(* second begins where the first ends. Lengths are the real ones.          *)
(***************************************************************************)
EXTENDS Integers, SequencesExt

Byte == 256          \* values of a uint8
Word == 65536        \* values of a uint16
MaxLength == 65535   \* 0xffff

-----------------------------------------------------------------------------
(* Destinations: an address of one of the families, or none.               *)
NoDestination == [family |-> "none", name |-> 0]
Valid(d) == d.family \in {"domain", "ipv4", "ipv6"}

(* What readDestination takes and writeDestination can write.              *)
Readable(d) == d.family \in {"none", "domain", "ipv4", "ipv6"}
Writable(d) == d.family = "domain" => d.name <= 255

DestinationLen(d) ==
  CASE d.family = "domain" -> 1 + 1 + d.name + 2
    [] d.family = "ipv4"   -> 1 + 4 + 2
    [] d.family = "ipv6"   -> 1 + 16 + 2
    [] OTHER               -> 1

-----------------------------------------------------------------------------
(* Messages. A message made by WritePacket holds one range.                *)
AddRange(n, range) == n + (range.to - range.from)
Size(data) == FoldLeft(AddRange, 0, data)

UdpMessage(session, packetID, destination, packet, size) ==
  [sessionID |-> session, packetID |-> packetID,
   fragmentTotal |-> 1, fragmentID |-> 0, destination |-> destination,
   data |-> <<[packet |-> packet, from |-> 0, to |-> size]>>]

HeaderSize(m) == 10 + DestinationLen(m.destination)

(* On the wire a message carries the length of its data as a uint16.       *)
Pack(m) == [message |-> m, length |-> Size(m.data) % Word]
PackedSize(w) == HeaderSize(w.message) + Size(w.message.data)

(* A datagram must hold exactly the data it announces; a stream at least   *)
(* that much, and the rest is never read.                                  *)
Decodes(w, via) ==
  /\ Readable(w.message.destination)
  /\ IF via = "datagram" THEN Size(w.message.data) = w.length
                         ELSE Size(w.message.data) >= w.length
Decode(w) ==
  [w.message EXCEPT !.data = <<[@[1] EXCEPT !.to = w.message.data[1].from + w.length]>>]

(* fragUDPMessage. Both numbers of a fragment are cut to eight bits. The   *)
(* room is what is left beside the full header, though only the first      *)
(* fragment carries the destination.                                       *)
Frag(m, maxPacketSize) ==
  LET udpMTU == maxPacketSize - HeaderSize(m)
      size == Size(m.data)
      n == (size + udpMTU - 1) \div udpMTU
      whole == m.data[1]
      fragment(i) ==
        [m EXCEPT !.fragmentID = (i - 1) % Byte,
                  !.fragmentTotal = n % Byte,
                  !.destination = IF i > 1 THEN NoDestination ELSE @,
                  !.data = <<[whole EXCEPT
                    !.from = whole.from + (i - 1) * udpMTU,
                    !.to = IF i < n THEN whole.from + i * udpMTU ELSE @]>>]
  IN IF udpMTU <= 0 \/ size <= udpMTU THEN <<m>>
     ELSE [i \in 1..n |-> fragment(i)]

-----------------------------------------------------------------------------
(* The defragger: for every packet number, how many fragments were         *)
(* announced and those that came. Nothing expires. The code also counts    *)
(* them; that count is the number of fragments kept.                       *)
NoItems == <<>>

Join(parts) ==
  LET first == CHOOSE m \in parts : m.fragmentID = 0
      n == Cardinality(parts)
      piece(i) == CHOOSE m \in parts : m.fragmentID = i - 1
  IN [first EXCEPT !.data = [i \in 1..n |-> piece(i).data[1]]]

(* Mutant of Kept.                                                         *)
Kept_AnyTotal(items, m) == \* of a packet cut into another number of fragments too
  IF m.packetID \in DOMAIN items THEN items[m.packetID].parts ELSE {}

(* The fragments kept that a new one completes; those of a packet cut into *)
(* another number of fragments are forgotten.                              *)
Kept(items, m) ==
  IF m.packetID \in DOMAIN items /\ items[m.packetID].total = m.fragmentTotal
  THEN items[m.packetID].parts ELSE {}

(* feed: the items it leaves, and the message it returns, if any.          *)
Feed(items, m) ==
  LET p == m.packetID
      kept == Kept(items, m)
      parts == kept \cup {m}
      item == [total |-> m.fragmentTotal, parts |-> parts]
      message == Join(parts)
  IN CASE m.fragmentTotal <= 1 -> [items |-> items, out |-> <<m>>]
       [] m.fragmentTotal > 1 /\ \/ m.fragmentID >= m.fragmentTotal
                                 \/ \E k \in kept : k.fragmentID = m.fragmentID ->
            [items |-> items, out |-> <<>>]
       [] OTHER ->
            IF Cardinality(parts) # m.fragmentTotal
            THEN [items |-> [q \in DOMAIN items \cup {p} |-> IF q = p THEN item ELSE items[q]],
                  out |-> <<>>]
            ELSE [items |-> Restrict(items, DOMAIN items \ {p}),
                  out |-> IF Size(message.data) = 0 THEN <<>> ELSE <<message>>]

-----------------------------------------------------------------------------
(* Sending. A datagram larger than limit, what the connection can take, is *)
(* refused with that limit; a packet on a stream is never too large.       *)
TooLarge(m, udpStream, limit) == ~udpStream /\ PackedSize(Pack(m)) > limit

(* writePackets: those before the first that is refused.                   *)
Accepted(ms, udpStream, limit) ==
  LET refused == {i \in DOMAIN ms : TooLarge(ms[i], udpStream, limit)}
  IN IF refused = {} THEN ms
     ELSE SubSeq(ms, 1, (CHOOSE i \in refused : \A j \in refused : i <= j) - 1)

(* writePacketOrFragments: one attempt with the size known so far, and one *)
(* with the size the refusal names, under the same packet number. Returns  *)
(* what was sent and the size to use from now on.                          *)
WritePacketOrFragments(m, udpStream, udpMTU, limit) ==
  LET size == Size(m.data)
      first == IF ~udpStream /\ size > udpMTU - HeaderSize(m)
               THEN Frag(m, udpMTU) ELSE <<m>>
      sent == Accepted(first, udpStream, limit)
      again == Accepted(Frag(m, limit - 3), udpStream, limit)
  IN IF sent = first THEN [sent |-> first, udpMTU |-> udpMTU]
     ELSE [sent |-> sent \o again, udpMTU |-> limit - 3]

(* What a peer that gets all of ms, in this order, hands on.               *)
FeedNext(s, m) == [items |-> Feed(s.items, m).items, out |-> s.out \o Feed(s.items, m).out]
Received(ms) == FoldLeft(FeedNext, [items |-> NoItems, out |-> <<>>], ms).out
=============================================================================
