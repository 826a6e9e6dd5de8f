---------------------------- MODULE TuicSession -----------------------------
(***************************************************************************)
(* One QUIC connection of the TUIC inbound (service.go, hub.go, and the    *)
(* associations of packet.go): its listener, the goroutines that wait for  *)
(* the authentication, its timeout, and the UDP associations that requests *)
(* make, use and remove at the same time.                                  *)
(*                                                                         *)
(* What the client sends is a script of requests. The network delivers     *)
(* them in any order or never; each stream is handled by a goroutine of    *)
(* its own, datagrams one after the other. An association is known by the  *)
(* request that made it. Reading a deadline, congestion control and the    *)
(* addresses of a connection are left out.                                 *)
(***************************************************************************)
EXTENDS TuicPacket

CONSTANTS
  Ids,       \* requests of the client
  Users,     \* users the authenticator knows
  Sessions,  \* numbers of associations
  Scripts,   \* what the client may send: for every id a request
  QueueSize, \* messages an association holds (64)
  Sizes,     \* sizes of the packets a relay sends back
  Limit,     \* the largest datagram the connection takes
  Answering, \* bound: requests whose association sends anything back
  MaxWrites  \* bound: packets one association sends back

Kinds == {"auth", "stream", "packet", "dissociate", "heartbeat", "unknown"}
None == "none"

ASSUME NumberAssumption ==
  /\ QueueSize \in Nat \ {0} /\ MaxWrites \in Nat /\ Limit \in Nat
  /\ Sizes \subseteq Nat
ASSUME NoneAssumption == None \notin Ids \cup Users
ASSUME ScriptAssumption ==
  \A s \in Scripts : /\ DOMAIN s = Ids
                     /\ \A r \in Ids : /\ s[r].kind \in Kinds
                                       /\ s[r].via \in {"uni", "stream", "datagram"}
                                       /\ s[r].user \in Users \cup {None}
                                       /\ s[r].session \in Sessions

VARIABLES
  script,     \* what this client sends
  listener,   \* "none", "open" or "closed"
  held,       \* what the listener holds: socket, context, transport
  conn,       \* the QUIC connection: "none", "open" or "gone" (its context is done)
  connDone,   \* connDone is closed
  authUser,   \* the user, None until authDone is closed
  timer,      \* handleAuthTimeout: "off", "running" or "over"
  loop,       \* the datagram loopMessages handles, or None
  pc,         \* where the goroutine of a request is
  found,      \* the association it looked up, or None
  udpConnMap, \* the association of each number, or None
  made,       \* associations
  cancelled,  \* those whose own context is cancelled
  started,    \* those marked as started
  owner,      \* the user an association or a stream is served as
  items,      \* fragments each holds
  data,       \* messages queued on each, from the first on
  read,       \* how many of them were read
  relay,      \* the handler of each: "none", "running", "closing", "over"
  written,    \* packets each has sent
  udpMTU,     \* the size of datagrams each uses
  sent,       \* what went out for the last of them
  evicted     \* history: associations whose number another one's removal freed

sessionVars == <<listener, held, conn, connDone, timer>>
queueVars == <<items, data>>
relayVars == <<read, relay, written, udpMTU, sent>>
assocVars == <<made, cancelled, started>>
vars == <<script, sessionVars, authUser, loop, pc, found, udpConnMap, assocVars,
          owner, queueVars, relayVars, evicted>>

Init ==
  /\ script \in Scripts
  /\ listener = "none" /\ held = {}
  /\ conn = "none" /\ connDone = FALSE /\ timer = "off"
  /\ authUser = None /\ loop = None
  /\ pc = [r \in Ids |-> "sent"]
  /\ found = [r \in Ids |-> None]
  /\ udpConnMap = [n \in Sessions |-> None]
  /\ made = {} /\ cancelled = {} /\ started = {}
  /\ owner = [r \in Ids |-> None]
  /\ items = [r \in Ids |-> NoItems]
  /\ data = [r \in Ids |-> <<>>]
  /\ read = [r \in Ids |-> 0]
  /\ relay = [r \in Ids |-> "none"]
  /\ written = [r \in Ids |-> 0]
  /\ udpMTU = [r \in Ids |-> 1200 - 3]
  /\ sent = [r \in Ids |-> <<>>]
  /\ evicted = {}

Kind(r) == script[r].kind
Session(r) == script[r].session
AuthDone == authUser # None

(* An association is done when its context is, or that of the connection.  *)
Done(a) == a \in cancelled \/ conn = "gone"

goto(r, p) == pc' = [pc EXCEPT ![r] = p]

(* loopMessages takes the next datagram once the last one is handled.      *)
EndOfLoop(r) == loop' = IF loop = r THEN None ELSE loop

(* closeWithError of the session: the first call closes connDone, and the  *)
(* connection with it.                                                     *)
CloseSession == connDone' = TRUE /\ conn' = "gone"

-----------------------------------------------------------------------------
(* The listener.                                                           *)
Stages == {"requirements", "socket", "mask", "tls", "options", "start", "ok"}

(* Mutant of ListenHolds.                                                  *)
ListenHolds_Leak(stage) == \* no listener, but the socket stays open
  CASE stage = "ok" -> {"socket", "context", "transport"}
    [] stage = "options" -> {"socket"}
    [] OTHER -> {}

(* Listen: what is held when it stops at a stage. Every failure gives back *)
(* what was taken before it.                                               *)
ListenHolds(stage) ==
  IF stage = "ok" THEN {"socket", "context", "transport"} ELSE {}

Listen ==
  /\ listener = "none"
  /\ \E stage \in Stages :
       /\ held' = ListenHolds(stage)
       /\ listener' = IF stage = "ok" THEN "open" ELSE "none"
  /\ UNCHANGED <<script, conn, connDone, timer, authUser, loop, pc, found,
                 udpConnMap, assocVars, owner, queueVars, relayVars, evicted>>

(* acceptLoop, handleConnection and session.handle: one connection.        *)
Accept ==
  /\ listener = "open" /\ conn = "none"
  /\ conn' = "open" /\ timer' = "running"
  /\ UNCHANGED <<script, listener, held, connDone, authUser, loop, pc, found,
                 udpConnMap, assocVars, owner, queueVars, relayVars, evicted>>

(* Close: the accept loop ends with its context, and closing the transport *)
(* ends the connections made on it.                                        *)
CloseListener ==
  /\ listener = "open"
  /\ listener' = "closed" /\ held' = {}
  /\ conn' = IF conn = "open" THEN "gone" ELSE conn
  /\ UNCHANGED <<script, connDone, timer, authUser, loop, pc, found,
                 udpConnMap, assocVars, owner, queueVars, relayVars, evicted>>

(* The client goes away, or the connection breaks.                         *)
PeerLeaves ==
  /\ conn = "open"
  /\ conn' = "gone"
  /\ UNCHANGED <<script, listener, held, connDone, timer, authUser, loop, pc,
                 found, udpConnMap, assocVars, owner, queueVars, relayVars, evicted>>

(* loopMessages when ReceiveDatagram fails.                                *)
ReceiveFails ==
  /\ conn = "gone" /\ loop = None /\ ~connDone
  /\ CloseSession
  /\ UNCHANGED <<script, listener, held, timer, authUser, loop, pc, found,
                 udpConnMap, assocVars, owner, queueVars, relayVars, evicted>>

(* handleAuthTimeout. When several of the things it waits for have         *)
(* happened it takes any of them.                                          *)
AuthTimeout ==
  /\ timer = "running"
  /\ timer' = "over"
  /\ \/ (connDone \/ AuthDone) /\ UNCHANGED <<conn, connDone>>
     \/ CloseSession
  /\ UNCHANGED <<script, listener, held, authUser, loop, pc, found, udpConnMap,
                 assocVars, owner, queueVars, relayVars, evicted>>

-----------------------------------------------------------------------------
(* Requests arrive. A stream reaches a goroutine of its own; a datagram    *)
(* waits for the loop.                                                     *)
Arrives(r) ==
  /\ pc[r] = "sent" /\ conn = "open"
  /\ script[r].via = "datagram" => loop = None
  /\ loop' = IF script[r].via = "datagram" THEN r ELSE loop
  /\ goto(r, CASE Kind(r) = "auth" -> "auth"
               [] Kind(r) \in {"stream", "packet", "dissociate"} -> "waiting"
               [] OTHER -> "parsed")
  /\ UNCHANGED <<script, sessionVars, authUser, found, udpConnMap, assocVars,
                 owner, queueVars, relayVars, evicted>>

(* A heartbeat changes nothing; a version or a command the transport does  *)
(* not know ends the session.                                              *)
Parsed(r) ==
  /\ pc[r] = "parsed"
  /\ goto(r, "done") /\ EndOfLoop(r)
  /\ IF Kind(r) = "heartbeat" THEN UNCHANGED <<conn, connDone>> ELSE CloseSession
  /\ UNCHANGED <<script, listener, held, timer, authUser, found, udpConnMap,
                 assocVars, owner, queueVars, relayVars, evicted>>

(* Mutant of Authenticate.                                                 *)
Authenticate_Last(r) == \* the last request wins
  /\ pc[r] = "auth"
  /\ goto(r, "done")
  /\ IF script[r].user # None
     THEN authUser' = script[r].user /\ UNCHANGED <<conn, connDone>>
     ELSE CloseSession /\ UNCHANGED authUser
  /\ UNCHANGED <<script, listener, held, timer, loop, found, udpConnMap,
                 assocVars, owner, queueVars, relayVars, evicted>>

(* handleUniStream, commandAuthenticate: a token that matches no user, and *)
(* a second request, end the session. Whether the session is still open is *)
(* not looked at.                                                          *)
Authenticate(r) ==
  /\ pc[r] = "auth"
  /\ goto(r, "done")
  /\ IF script[r].user # None /\ ~AuthDone
     THEN authUser' = script[r].user /\ UNCHANGED <<conn, connDone>>
     ELSE CloseSession /\ UNCHANGED authUser
  /\ UNCHANGED <<script, listener, held, timer, loop, found, udpConnMap,
                 assocVars, owner, queueVars, relayVars, evicted>>

-----------------------------------------------------------------------------
(* What waits for the authentication: a stream of TCP, a packet or a       *)
(* dissociate on a stream of its own, and the datagram of the loop.        *)

(* Mutant of Refused.                                                      *)
Refused_Never(r) == \* only the authentication ends the wait
  /\ pc[r] = "waiting" /\ conn = "gone" /\ AuthDone
  /\ goto(r, "failed") /\ EndOfLoop(r)
  /\ IF Kind(r) = "stream" THEN UNCHANGED <<conn, connDone>> ELSE CloseSession
  /\ UNCHANGED <<script, listener, held, timer, authUser, found, udpConnMap,
                 assocVars, owner, queueVars, relayVars, evicted>>

(* waitAuth returns: the session is authenticated. It may be closed too.   *)
Admitted(r) ==
  /\ pc[r] = "waiting"
  /\ AuthDone
  /\ Kind(r) = "packet" => Decodes(script[r].wire, script[r].via)
  /\ goto(r, CASE Kind(r) = "stream" -> "served"
               [] Kind(r) = "packet" -> "lookup"
               [] OTHER -> "find")
  /\ owner' = IF Kind(r) = "stream" THEN [owner EXCEPT ![r] = authUser] ELSE owner
  /\ UNCHANGED <<script, sessionVars, authUser, loop, found, udpConnMap,
                 assocVars, queueVars, relayVars, evicted>>

(* A packet that cannot be read ends the session.                          *)
Malformed(r) ==
  /\ pc[r] = "waiting"
  /\ AuthDone
  /\ Kind(r) = "packet" /\ ~Decodes(script[r].wire, script[r].via)
  /\ goto(r, "done") /\ EndOfLoop(r)
  /\ CloseSession
  /\ UNCHANGED <<script, listener, held, timer, authUser, found, udpConnMap,
                 assocVars, owner, queueVars, relayVars, evicted>>

(* waitAuth, or the read that follows it, fails as the session is over.    *)
Refused(r) ==
  /\ pc[r] = "waiting"
  /\ conn = "gone"
  /\ goto(r, "failed") /\ EndOfLoop(r)
  /\ IF Kind(r) = "stream" THEN UNCHANGED <<conn, connDone>> ELSE CloseSession
  /\ UNCHANGED <<script, listener, held, timer, authUser, found, udpConnMap,
                 assocVars, owner, queueVars, relayVars, evicted>>

(* The handler of a stream returns.                                        *)
StreamEnds(r) ==
  /\ pc[r] = "served"
  /\ goto(r, "done")
  /\ UNCHANGED <<script, sessionVars, authUser, loop, found, udpConnMap,
                 assocVars, owner, queueVars, relayVars, evicted>>

-----------------------------------------------------------------------------
(* handleUDPMessage.                                                       *)
Message(r) == Decode(script[r].wire)

(* The map is read under its read lock.                                    *)
Lookup(r) ==
  /\ pc[r] \in {"lookup", "find"}
  /\ LET a == udpConnMap[Session(r)] IN
       /\ found' = [found EXCEPT ![r] = a]
       /\ goto(r, CASE pc[r] = "lookup" -> "check"
                    [] pc[r] = "find" /\ a # None -> "cancel"
                    [] OTHER -> "done")
  /\ UNCHANGED <<script, sessionVars, authUser, loop, udpConnMap, assocVars,
                 owner, queueVars, relayVars, evicted>>

(* Whether the association is done is asked without the lock.              *)
Check(r) ==
  /\ pc[r] = "check"
  /\ goto(r, IF found[r] = None THEN "store"
             ELSE IF Done(found[r]) THEN "store" ELSE "mark")
  /\ UNCHANGED <<script, sessionVars, authUser, loop, found, udpConnMap,
                 assocVars, owner, queueVars, relayVars, evicted>>

Free(n) == udpConnMap[n] = None \/ Done(udpConnMap[n])

(* Mutant of Store.                                                        *)
Store_Unchecked(r) == \* what was stored meanwhile is replaced
  /\ pc[r] = "store"
  /\ made' = made \cup {r}
  /\ owner' = [owner EXCEPT ![r] = authUser]
  /\ udpConnMap' = [udpConnMap EXCEPT ![Session(r)] = r]
  /\ found' = [found EXCEPT ![r] = r]
  /\ goto(r, "mark")
  /\ UNCHANGED <<script, sessionVars, authUser, loop, cancelled, started,
                 queueVars, relayVars, evicted>>

(* A new association takes the number, unless another one took it first.   *)
Store(r) ==
  /\ pc[r] = "store"
  /\ IF Free(Session(r))
     THEN /\ made' = made \cup {r}
          /\ owner' = [owner EXCEPT ![r] = authUser]
          /\ udpConnMap' = [udpConnMap EXCEPT ![Session(r)] = r]
          /\ found' = [found EXCEPT ![r] = r]
     ELSE /\ found' = [found EXCEPT ![r] = udpConnMap[Session(r)]]
          /\ UNCHANGED <<made, owner, udpConnMap>>
  /\ goto(r, "mark")
  /\ UNCHANGED <<script, sessionVars, authUser, loop, cancelled, started,
                 queueVars, relayVars, evicted>>

(* markStarted: the first message with a destination starts the relay.     *)
Mark(r) ==
  /\ pc[r] = "mark"
  /\ LET first == Valid(Message(r).destination) /\ found[r] \notin started IN
       /\ started' = IF first THEN started \cup {found[r]} ELSE started
       /\ goto(r, IF first THEN "first" ELSE "input")
  /\ UNCHANGED <<script, sessionVars, authUser, loop, found, udpConnMap, made,
                 cancelled, owner, queueVars, relayVars, evicted>>

(* inputPacket, and the goroutine of the relay. A message that finds the   *)
(* queue full is dropped.                                                  *)
Input(r) ==
  /\ pc[r] \in {"first", "input"}
  /\ LET a == found[r]
         fed == Feed(items[a], Message(r))
         room == Len(data[a]) - read[a] < QueueSize
     IN /\ items' = [items EXCEPT ![a] = fed.items]
        /\ data' = [data EXCEPT ![a] = IF room THEN @ \o fed.out ELSE @]
        /\ relay' = IF pc[r] = "first" THEN [relay EXCEPT ![a] = "running"] ELSE relay
  /\ goto(r, "done") /\ EndOfLoop(r)
  /\ UNCHANGED <<script, sessionVars, authUser, found, udpConnMap, assocVars,
                 owner, read, written, udpMTU, sent, evicted>>

-----------------------------------------------------------------------------
(* Removal. Both delete whatever stands under the number by then.          *)
DeleteNumber(n, a) ==
  /\ udpConnMap' = [udpConnMap EXCEPT ![n] = None]
  /\ evicted' = evicted \cup ({udpConnMap[n]} \ {a, None})

(* A dissociate cancels the association it found ...                       *)
DissociateCancels(r) ==
  /\ pc[r] = "cancel"
  /\ cancelled' = cancelled \cup {found[r]}
  /\ goto(r, "delete")
  /\ UNCHANGED <<script, sessionVars, authUser, loop, found, udpConnMap, made,
                 started, owner, queueVars, relayVars, evicted>>

(* ... and then takes the lock to delete it.                               *)
DissociateDeletes(r) ==
  /\ pc[r] = "delete"
  /\ DeleteNumber(Session(r), found[r])
  /\ goto(r, "done")
  /\ UNCHANGED <<script, sessionVars, authUser, loop, found, assocVars, owner,
                 queueVars, relayVars>>

(* The relay reads a message; closing does not empty the queue.            *)
RelayReads(a) ==
  /\ relay[a] = "running"
  /\ read[a] < Len(data[a])
  /\ read' = [read EXCEPT ![a] = @ + 1]
  /\ UNCHANGED <<script, sessionVars, authUser, loop, pc, found, udpConnMap,
                 assocVars, owner, queueVars, relay, written, udpMTU, sent, evicted>>

(* WritePacket: an answer goes back, numbered modulo 65535.                *)
Answer(a, size) ==
  UdpMessage(Session(a), (written[a] + 1) % MaxLength,
             [family |-> "ipv4", name |-> 0], "answer", size)

RelayWrites(a) ==
  /\ a \in Answering /\ relay[a] = "running" /\ ~Done(a)
  /\ written[a] < MaxWrites
  /\ \E size \in Sizes :
       /\ size <= MaxLength
       /\ LET went == WritePacketOrFragments(Answer(a, size),
                        script[a].via = "uni", udpMTU[a], Limit)
          IN /\ sent' = [sent EXCEPT ![a] = went.sent]
             /\ udpMTU' = [udpMTU EXCEPT ![a] = went.udpMTU]
  /\ written' = [written EXCEPT ![a] = @ + 1]
  /\ UNCHANGED <<script, sessionVars, authUser, loop, pc, found, udpConnMap,
                 assocVars, owner, queueVars, read, relay, evicted>>

(* The relay ends, for reasons of its own or as a read failed, and closes  *)
(* its connection ...                                                      *)
RelayCloses(a) ==
  /\ relay[a] = "running"
  /\ relay' = [relay EXCEPT ![a] = "closing"]
  /\ cancelled' = cancelled \cup {a}
  /\ UNCHANGED <<script, sessionVars, authUser, loop, pc, found, udpConnMap,
                 made, started, owner, queueVars, read, written, udpMTU, sent,
                 evicted>>

(* ... and onDestroy takes the lock to delete it.                          *)
RelayDestroys(a) ==
  /\ relay[a] = "closing"
  /\ relay' = [relay EXCEPT ![a] = "over"]
  /\ DeleteNumber(Session(a), a)
  /\ UNCHANGED <<script, sessionVars, authUser, loop, pc, found, assocVars,
                 owner, queueVars, read, written, udpMTU, sent>>

-----------------------------------------------------------------------------
Handle(r) ==
  \/ Parsed(r) \/ Authenticate(r)
  \/ Admitted(r) \/ Malformed(r) \/ Refused(r)
  \/ Lookup(r) \/ Check(r) \/ Store(r) \/ Mark(r) \/ Input(r)
  \/ DissociateCancels(r) \/ DissociateDeletes(r)

Relay(a) ==
  RelayReads(a) \/ RelayWrites(a) \/ RelayCloses(a) \/ RelayDestroys(a)

Next ==
  \/ Listen \/ Accept \/ CloseListener \/ PeerLeaves \/ ReceiveFails \/ AuthTimeout
  \/ \E r \in Ids : Arrives(r) \/ Handle(r) \/ StreamEnds(r) \/ Relay(r)

Spec == Init /\ [][Next]_vars

(* While some goroutine can take a step some goroutine does, the timer of  *)
(* the authentication included. Nothing makes the network or a relay act.  *)
(* As every request takes finitely many steps, this is enough.             *)
Goroutines == AuthTimeout \/ ReceiveFails \/ \E r \in Ids : Handle(r)
FairSpec == Spec /\ WF_vars(Goroutines)

-----------------------------------------------------------------------------
TypeOK ==
  /\ script \in Scripts
  /\ listener \in {"none", "open", "closed"}
  /\ held = IF listener = "open" THEN {"socket", "context", "transport"} ELSE {}
  /\ conn \in {"none", "open", "gone"} /\ connDone \in BOOLEAN
  /\ timer \in {"off", "running", "over"}
  /\ authUser \in Users \cup {None}
  /\ loop \in Ids \cup {None}
  /\ pc \in [Ids -> {"sent", "parsed", "auth", "waiting", "failed", "served",
                     "lookup", "check", "store", "mark", "first", "input",
                     "find", "cancel", "delete", "done"}]
  /\ found \in [Ids -> made \cup {None}]
  /\ udpConnMap \in [Sessions -> made \cup {None}]
  /\ made \subseteq Ids /\ cancelled \subseteq made /\ started \subseteq made
  /\ evicted \subseteq made
  /\ owner \in [Ids -> Users \cup {None}]
  /\ \A r \in Ids : read[r] \in 0..Len(data[r])
  /\ relay \in [Ids -> {"none", "running", "closing", "over"}]
  /\ written \in [Ids -> 0..MaxWrites]

(* Nothing is handled before a valid authentication, and everything that   *)
(* is handled, whoever races, counts for the one user of the session:      *)
(* streams, associations, and what waits for either.                       *)
AuthFirst ==
  /\ \A r \in made : owner[r] = authUser
  /\ \A r \in Ids :
       /\ pc[r] \in {"served", "lookup", "check", "store", "mark", "first",
                     "input", "find", "cancel", "delete"} => AuthDone
       /\ pc[r] = "served" => owner[r] = authUser
  /\ AuthDone => \E r \in Ids : Kind(r) = "auth" /\ script[r].user = authUser

(* An association in use is the one its number names, however lookups,     *)
(* dissociates and relays that end interleave: two never serve one number, *)
(* except when the removal of an older one took the number from under it.  *)
Registered ==
  \A a \in made :
    Done(a) \/ a \in evicted \/ udpConnMap[Session(a)] = a

(* A client that cuts its packets as Frag does: origin says what each of   *)
(* its requests is a fragment of, and no fragment is sent twice.           *)
Honest(s, origin) ==
  LET packets == {r \in Ids : s[r].kind = "packet"}
      wire(r) == s[r].wire.message
      cut(r) == Frag(origin[r].message, origin[r].max)
  IN /\ \A r \in packets :
          /\ Valid(origin[r].message.destination)
          /\ origin[r].message.destination.name \in 0..255 /\ origin[r].max \in Nat
          /\ origin[r].message \in
               {UdpMessage(wire(r).sessionID, wire(r).packetID, origin[r].message.destination,
                           wire(r).data[1].packet, size) : size \in 0..MaxLength}
          /\ Len(cut(r)) < Byte
          /\ wire(r) \in ToSet(cut(r))
          /\ Decodes(s[r].wire, s[r].via) => s[r].wire = Pack(wire(r))
     /\ \A r, q \in packets :
          /\ wire(r).data[1].packet = wire(q).data[1].packet => origin[r] = origin[q]
          /\ wire(r) = wire(q) => r = q

(* A message that reaches a relay is one packet of the client, complete    *)
(* and in order, once, with its destination: whatever fragments were lost, *)
(* late, or left behind by other packets. Only a client that uses a packet *)
(* number again for as many fragments can get a mix.                       *)
Packets == {r \in Ids : Kind(r) = "packet"}
Wire(r) == script[r].wire.message
Reuses(r, q) ==
  /\ Wire(r).data[1].packet # Wire(q).data[1].packet
  /\ Session(r) = Session(q) /\ Wire(r).packetID = Wire(q).packetID
  /\ Wire(r).fragmentTotal = Wire(q).fragmentTotal /\ Wire(r).fragmentTotal > 1
Parts(m) == {r \in Packets : Wire(r).data[1].packet = m.data[1].packet}
Complete(m) ==
  /\ m.data[1].from = 0
  /\ \A i \in 2..Len(m.data) : /\ m.data[i].packet = m.data[1].packet
                               /\ m.data[i].from = m.data[i - 1].to
  /\ \A r \in Parts(m) : Wire(r).data[1].to <= m.data[Len(m.data)].to
Whole ==
  \A a \in made : \A i \in DOMAIN data[a] :
    LET m == data[a][i] IN
      \/ /\ Complete(m) /\ Valid(m.destination)
         /\ \A j \in DOMAIN data[a] : data[a][j].data[1].packet = m.data[1].packet => j = i
      \/ \E r, q \in Packets : Session(r) = Session(a) /\ Reuses(r, q)

(* And a client that gets everything that was sent for an answer gets that *)
(* answer and nothing else, though the first attempt was refused as too    *)
(* large and the packet was cut again under the same number; as long as    *)
(* the number of its fragments fits eight bits.                            *)
Answered ==
  \A a \in made : written[a] > 0 =>
    \/ Limit - 3 <= HeaderSize(Answer(a, 0))
    \/ Len(sent[a]) >= Byte
    \/ LET got == Received(sent[a]) IN
         /\ Len(got) = 1
         /\ \E size \in Sizes :
              /\ Size(got[1].data) = size
              /\ got[1].packetID = written[a] % MaxLength
              /\ \A i \in 2..Len(got[1].data) :
                   got[1].data[i].from = got[1].data[i - 1].to

Intact == Whole /\ Answered

(* No request waits forever: the authentication, its timeout or the end of *)
(* the connection releases it, and the loop is free for the next datagram: *)
(* after the last request of the client nothing waits any more.            *)
Released == <>[](loop = None /\ \A r \in Ids : pc[r] # "waiting")
=============================================================================
