-------------------------- MODULE TuicSessionProofs --------------------------
(***************************************************************************)
(* Proofs about TuicSession, for any clients, requests, users, numbers of  *)
(* associations and sizes.                                                 *)
(*                                                                         *)
(* Who is served, and as whom: nobody gets past the authentication before  *)
(* it has happened, and it happens once; an association whose number is    *)
(* about to be deleted is cancelled already (IInv).                        *)
(*                                                                         *)
(* What is served: every field has its type (TInv); what is kept of a      *)
(* packet are fragments the association was handed, and a message of its   *)
(* queue is a packet of which no fragment is to come (WInv); what went out *)
(* last is the last answer, cut for one size (AInv).                       *)
(***************************************************************************)
EXTENDS TuicSession, TLAPS, FiniteSetTheorems

(* Where a request is when the authentication is behind it.                *)
Past == {"served", "lookup", "check", "store", "mark", "first", "input",
         "find", "cancel", "delete"}

Shapes ==
  /\ script \in Scripts
  /\ DOMAIN pc = Ids /\ DOMAIN owner = Ids /\ DOMAIN found = Ids
  /\ DOMAIN relay = Ids /\ DOMAIN udpConnMap = Sessions
  /\ made \subseteq Ids

(* Only requests for it reach the authentication.                          *)
Asked == \A r \in Ids : pc[r] = "auth" => Kind(r) = "auth"

(* Associations are made after the authentication.                         *)
MadeLate == made # {} => AuthDone

(* What is about to be deleted is done with.                               *)
Doomed ==
  /\ \A r \in Ids : pc[r] = "delete" => found[r] \in cancelled
  /\ \A a \in Ids : relay[a] = "closing" => a \in cancelled

IInv == Shapes /\ Asked /\ MadeLate /\ AuthFirst /\ Doomed /\ Registered

-----------------------------------------------------------------------------

(* What a script gives a request is of the expected kind.                  *)
LEMMA SessionsAreNumbers ==
  ASSUME Shapes
  PROVE  \A r \in Ids : Session(r) \in Sessions /\ script[r].user \in Users \cup {None}
  BY ScriptAssumption DEF Shapes, Session

(* A session that nobody has opened.                                       *)
LEMMA InitIInv == Init => IInv
  BY DEF Init, IInv, Shapes, Asked, MadeLate, AuthFirst, Doomed, Registered, AuthDone

(* The listener, the connection and its end leave the requests alone; a    *)
(* connection that is gone does not come back.                             *)
LEMMA ConnectionIInv ==
  ASSUME IInv,
         Listen \/ Accept \/ CloseListener \/ PeerLeaves \/ ReceiveFails \/ AuthTimeout
  PROVE  IInv'
  <1> USE DEF IInv, Shapes, Asked, MadeLate, AuthFirst, Doomed, Registered,
              AuthDone, Done, Kind, Session, assocVars, queueVars, relayVars
  <1>1. CASE Listen         BY <1>1 DEF Listen
  <1>2. CASE Accept         BY <1>2 DEF Accept
  <1>3. CASE CloseListener  BY <1>3 DEF CloseListener
  <1>4. CASE PeerLeaves     BY <1>4 DEF PeerLeaves
  <1>5. CASE ReceiveFails   BY <1>5 DEF ReceiveFails, CloseSession
  <1>6. CASE AuthTimeout    BY <1>6 DEF AuthTimeout, CloseSession
  <1> QED BY <1>1, <1>2, <1>3, <1>4, <1>5, <1>6

(* A request up to the point where it waits for the authentication.        *)
LEMMA ArrivalIInv ==
  ASSUME IInv, NEW r \in Ids,
         Arrives(r) \/ Parsed(r) \/ Malformed(r) \/ Refused(r) \/ StreamEnds(r)
  PROVE  IInv'
  <1> USE DEF IInv, Shapes, Asked, MadeLate, AuthFirst, Doomed, Registered,
              AuthDone, Done, Kind, Session, assocVars, queueVars, relayVars,
              goto, sessionVars, CloseSession
  <1>1. CASE Arrives(r)     BY <1>1 DEF Arrives
  <1>2. CASE Parsed(r)      BY <1>2 DEF Parsed
  <1>3. CASE Malformed(r)   BY <1>3 DEF Malformed
  <1>4. CASE Refused(r)     BY <1>4 DEF Refused
  <1>5. CASE StreamEnds(r)  BY <1>5 DEF StreamEnds
  <1> QED BY <1>1, <1>2, <1>3, <1>4, <1>5

(* The authentication, which succeeds at most once.                        *)
LEMMA AuthenticateIInv ==
  ASSUME IInv, NEW r \in Ids, Authenticate(r)
  PROVE  IInv'
  <1> USE DEF IInv, Shapes, Asked, MadeLate, Doomed, Registered,
              AuthDone, Done, Kind, Session, assocVars, queueVars, relayVars,
              goto, sessionVars, CloseSession, Authenticate
  <1>1. Shapes' /\ Asked' /\ MadeLate' /\ Doomed' /\ Registered'
    OBVIOUS
  <1>2. CASE script[r].user # None /\ ~AuthDone
    <2>1. made = {} /\ \A q \in Ids : pc[q] \notin Past
      BY <1>2 DEF AuthFirst, Past
    <2>2. \A q \in Ids : pc'[q] \notin Past
      BY <2>1 DEF Past
    <2>3. authUser' = script[r].user /\ Kind(r) = "auth"
      BY <1>2
    <2> QED BY <2>1, <2>2, <2>3, <1>1 DEF AuthFirst, Past
  <1>3. CASE ~(script[r].user # None /\ ~AuthDone)
    BY <1>1, <1>3 DEF AuthFirst
  <1> QED BY <1>2, <1>3

(* Behind the authentication: lookups, new associations, their messages.   *)
LEMMA AssociationIInv ==
  ASSUME IInv, NEW r \in Ids,
         Admitted(r) \/ Lookup(r) \/ Check(r) \/ Store(r) \/ Mark(r) \/ Input(r)
  PROVE  IInv'
  <1> USE DEF IInv, Shapes, Asked, MadeLate, AuthFirst, Doomed,
              AuthDone, Done, Kind, Session, assocVars, queueVars, relayVars,
              goto, sessionVars
  <1>1. CASE Admitted(r)  BY <1>1 DEF Admitted, Registered
  <1>2. CASE Lookup(r)    BY <1>2 DEF Lookup, Registered
  <1>3. CASE Check(r)     BY <1>3 DEF Check, Registered
  <1>4. CASE Store(r)
    <2>1. CASE Free(Session(r))
      <3>1. Shapes' /\ Asked' /\ MadeLate' /\ AuthFirst' /\ Doomed'
        BY <1>4, <2>1 DEF Store
      <3>2. Registered'
        <4>1. Session(r) \in Sessions
          BY SessionsAreNumbers
        <4>2. ASSUME NEW a \in made, ~Done(a), a \notin evicted, a # r
              PROVE  Session(a) # Session(r) /\ udpConnMap[Session(a)] = a
          BY <4>2, <2>1, NoneAssumption DEF Registered, Free
        <4>3. /\ udpConnMap' = [udpConnMap EXCEPT ![Session(r)] = r]
              /\ made' = made \cup {r}
              /\ UNCHANGED <<script, cancelled, conn, evicted>>
          BY <1>4, <2>1 DEF Store
        <4>4. ASSUME NEW a \in made', ~Done(a), a \notin evicted
              PROVE  udpConnMap'[Session(a)] = a
          <5>1. CASE a = r   BY <5>1, <4>1, <4>3
          <5>2. CASE a # r   BY <5>2, <4>2, <4>3, <4>4
          <5> QED BY <5>1, <5>2
        <4> QED BY <4>3, <4>4 DEF Registered
      <3> QED BY <3>1, <3>2
    <2>2. CASE ~Free(Session(r))
      BY <1>4, <2>2 DEF Store, Registered
    <2> QED BY <2>1, <2>2
  <1>5. CASE Mark(r)      BY <1>5 DEF Mark, Registered
  <1>6. CASE Input(r)     BY <1>6 DEF Input, Registered
  <1> QED BY <1>1, <1>2, <1>3, <1>4, <1>5, <1>6

(* Freeing a number takes it from the association that was removed, or     *)
(* from one that is evicted by it.                                         *)
LEMMA DeleteNumberIInv ==
  ASSUME Shapes, Registered, NEW n \in Sessions, NEW a, a \in cancelled,
         DeleteNumber(n, a), UNCHANGED <<script, made, cancelled, conn>>
  PROVE  Registered'
  BY DEF Shapes, Registered, DeleteNumber, Done, Session

(* The removals, by a dissociate or by a relay that ends.                  *)
LEMMA RemovalIInv ==
  ASSUME IInv, NEW r \in Ids,
         DissociateCancels(r) \/ DissociateDeletes(r) \/ Relay(r)
  PROVE  IInv'
  <1> USE DEF IInv, Shapes, Asked, MadeLate, AuthFirst, Doomed,
              AuthDone, Done, Kind, Session, assocVars, queueVars, relayVars,
              goto, sessionVars
  <1>1. CASE DissociateCancels(r)  BY <1>1 DEF DissociateCancels, Registered
  <1>2. CASE DissociateDeletes(r)
    <2>1. Session(r) \in Sessions
      BY SessionsAreNumbers
    <2>2. Registered'
      BY <1>2, <2>1, DeleteNumberIInv DEF DissociateDeletes
    <2> QED BY <1>2, <2>2 DEF DissociateDeletes, DeleteNumber
  <1>3. CASE RelayReads(r)   BY <1>3 DEF RelayReads, Registered
  <1>4. CASE RelayWrites(r)  BY <1>4 DEF RelayWrites, Registered
  <1>5. CASE RelayCloses(r)  BY <1>5 DEF RelayCloses, Registered
  <1>6. CASE RelayDestroys(r)
    <2>1. Session(r) \in Sessions
      BY SessionsAreNumbers
    <2>2. Registered'
      BY <1>6, <2>1, DeleteNumberIInv DEF RelayDestroys
    <2> QED BY <1>6, <2>2 DEF RelayDestroys, DeleteNumber
  <1> QED BY <1>1, <1>2, <1>3, <1>4, <1>5, <1>6 DEF Relay

(* Every step of a session keeps the invariant.                            *)
LEMMA NextIInv == IInv /\ [Next]_vars => IInv'
  <1> SUFFICES ASSUME IInv, [Next]_vars PROVE IInv'
    OBVIOUS
  <1>1. CASE UNCHANGED vars
    BY <1>1 DEF vars, sessionVars, assocVars, queueVars, relayVars,
       IInv, Shapes, Asked, MadeLate, AuthFirst, Doomed, Registered,
       AuthDone, Done, Kind, Session
  <1>2. CASE Next
    BY <1>2, ConnectionIInv, ArrivalIInv, AuthenticateIInv, AssociationIInv,
       RemovalIInv DEF Next, Handle
  <1> QED BY <1>1, <1>2

-----------------------------------------------------------------------------
(* The inductive invariant of a session and its associations.              *)
THEOREM InductiveInvariant == Spec => []IInv
  BY InitIInv, NextIInv, PTL DEF Spec

(* waitAuth and commandAuthenticate: whatever races with the timeout,      *)
(* nothing is served before a valid authentication, and all of it for the  *)
(* one user of the session.                                                *)
THEOREM NothingBeforeAuthentication == Spec => []AuthFirst
  <1>1. IInv => AuthFirst BY DEF IInv
  <1> QED BY <1>1, InductiveInvariant, PTL

(* handleUDPMessage, dissociate and onDestroy: an association in use is    *)
(* the one its number names, unless a removal evicted it.                  *)
THEOREM AssociationsStayRegistered == Spec => []Registered
  <1>1. IInv => Registered BY DEF IInv
  <1> QED BY <1>1, InductiveInvariant, PTL

-----------------------------------------------------------------------------
(* The types of a session: what a request or a relay works with exists.    *)

(* What a request works with is there; so is what a relay serves; and what *)
(* is queued is a sequence.                                                *)
Here ==
  /\ \A r \in Ids : pc[r] \in {"mark", "first", "input", "cancel", "delete"} => found[r] \in made
  /\ \A a \in Ids : relay[a] # "none" => a \in made
  /\ \A a \in Ids : \E S : data[a] \in Seq(S)
  /\ DOMAIN data = Ids /\ DOMAIN read = Ids

TInv == TypeOK /\ Here

(* What the number of a request stands for is an association or nothing.   *)
LEMMA TypesOfRequests ==
  ASSUME TypeOK
  PROVE  /\ \A r \in Ids : /\ Session(r) \in Sessions
                           /\ script[r].user \in Users \cup {None}
                           /\ udpConnMap[Session(r)] \in made \cup {None}
         /\ None \notin made
  BY ScriptAssumption, NoneAssumption DEF TypeOK, Session

(* feed returns one message or none.                                       *)
LEMMA FeedReturnsOne ==
  ASSUME NEW its, NEW m
  PROVE  Feed(its, m).out = <<>> \/ \E x : Feed(its, m).out = <<x>>
  <1> DEFINE parts == Kept(its, m) \cup {m}
             keep == Feed(its, m).items
             message == Join(parts)
  <1>1. CASE m.fragmentTotal <= 1
    BY <1>1 DEF Feed
  <1> HIDE DEF message
  <1>2. CASE ~(m.fragmentTotal <= 1)
    BY <1>2 DEF Feed
  <1> QED BY <1>1, <1>2

(* A session that nobody has opened has all its fields.                    *)
LEMMA InitTInv == Init => TInv
  <1> SUFFICES ASSUME Init PROVE TInv
    OBVIOUS
  <1>1. \A a \in Ids : data[a] \in Seq({})
    BY DEF Init
  <1>2. Here
    BY <1>1 DEF Init, Here
  <1>3. \A r \in Ids : read[r] \in 0..Len(data[r])
    <2>1. \A r \in Ids : read[r] = 0 /\ data[r] = <<>>
      BY DEF Init
    <2>2. 0 \in 0..Len(<<>>)
      OBVIOUS
    <2> QED BY <2>1, <2>2
  <1>4. written \in [Ids -> 0..MaxWrites]
    BY NumberAssumption DEF Init
  <1>5. TypeOK
    BY <1>3, <1>4 DEF Init, TypeOK
  <1> QED BY <1>2, <1>5 DEF TInv

(* The steps of the listener and the connection keep the types.            *)
LEMMA ConnectionTInv ==
  ASSUME TInv,
         Listen \/ Accept \/ CloseListener \/ PeerLeaves \/ ReceiveFails \/ AuthTimeout
  PROVE  TInv'
  <1> USE DEF TInv, TypeOK, Here, assocVars, queueVars, relayVars
  <1>1. CASE Listen         BY <1>1 DEF Listen, Stages, ListenHolds
  <1>2. CASE Accept         BY <1>2 DEF Accept
  <1>3. CASE CloseListener  BY <1>3 DEF CloseListener
  <1>4. CASE PeerLeaves     BY <1>4 DEF PeerLeaves
  <1>5. CASE ReceiveFails   BY <1>5 DEF ReceiveFails, CloseSession
  <1>6. CASE AuthTimeout    BY <1>6 DEF AuthTimeout, CloseSession
  <1> QED BY <1>1, <1>2, <1>3, <1>4, <1>5, <1>6

(* So do the steps of a request that leave the queues alone.               *)
LEMMA RequestTInv ==
  ASSUME TInv, NEW r \in Ids,
         Arrives(r) \/ Parsed(r) \/ Authenticate(r) \/ Malformed(r) \/ Refused(r) \/ StreamEnds(r)
         \/ Admitted(r) \/ Lookup(r) \/ Check(r) \/ DissociateCancels(r)
  PROVE  TInv'
  <1>0. /\ Session(r) \in Sessions /\ script[r].user \in Users \cup {None}
        /\ udpConnMap[Session(r)] \in made \cup {None} /\ None \notin made
    BY TypesOfRequests DEF TInv
  <1> USE <1>0 DEF TInv, TypeOK, Here, assocVars, queueVars, relayVars, sessionVars,
              goto, CloseSession, EndOfLoop
  <1>1. CASE Arrives(r)            BY <1>1 DEF Arrives
  <1>2. CASE Parsed(r)             BY <1>2 DEF Parsed
  <1>3. CASE Authenticate(r)       BY <1>3 DEF Authenticate
  <1>4. CASE Malformed(r)          BY <1>4 DEF Malformed
  <1>5. CASE Refused(r)            BY <1>5 DEF Refused
  <1>6. CASE StreamEnds(r)         BY <1>6 DEF StreamEnds
  <1>7. CASE Admitted(r)           BY <1>7 DEF Admitted
  <1>8. CASE Lookup(r)             BY <1>8 DEF Lookup
  <1>9. CASE Check(r)              BY <1>9 DEF Check
  <1>10. CASE DissociateCancels(r) BY <1>10 DEF DissociateCancels
  <1> QED BY <1>1, <1>2, <1>3, <1>4, <1>5, <1>6, <1>7, <1>8, <1>9, <1>10

(* So do those that make, start, fill or delete an association.            *)
LEMMA AssociationTInv ==
  ASSUME TInv, NEW r \in Ids, Store(r) \/ Mark(r) \/ DissociateDeletes(r) \/ Input(r)
  PROVE  TInv'
  <1>0. /\ Session(r) \in Sessions
        /\ udpConnMap[Session(r)] \in made \cup {None} /\ None \notin made
    BY TypesOfRequests DEF TInv
  <1> USE <1>0 DEF TInv, TypeOK, Here, assocVars, queueVars, relayVars, sessionVars,
              goto, EndOfLoop
  <1>1. CASE Store(r)
    <2>1. CASE Free(Session(r))
      <3>1. /\ made' = made \cup {r}
            /\ owner' = [owner EXCEPT ![r] = authUser]
            /\ udpConnMap' = [udpConnMap EXCEPT ![Session(r)] = r]
            /\ found' = [found EXCEPT ![r] = r]
            /\ pc' = [pc EXCEPT ![r] = "mark"]
        BY <1>1, <2>1 DEF Store
      <3>2. UNCHANGED <<script, sessionVars, authUser, loop, cancelled, started,
                        queueVars, relayVars, evicted>>
        BY <1>1 DEF Store
      <3>3. Here'  BY <3>1, <3>2
      <3>4. /\ found' \in [Ids -> made' \cup {None}]
            /\ udpConnMap' \in [Sessions -> made' \cup {None}]
            /\ owner' \in [Ids -> Users \cup {None}]
        BY <3>1
      <3> QED BY <3>1, <3>2, <3>3, <3>4
    <2>2. CASE ~Free(Session(r))
      <3>1. /\ found' = [found EXCEPT ![r] = udpConnMap[Session(r)]]
            /\ pc' = [pc EXCEPT ![r] = "mark"]
            /\ UNCHANGED <<script, sessionVars, authUser, loop, cancelled, started, made,
                           owner, udpConnMap, queueVars, relayVars, evicted>>
        BY <1>1, <2>2 DEF Store
      <3>2. udpConnMap[Session(r)] \in made
        BY <2>2 DEF Free
      <3> QED BY <3>1, <3>2
    <2> QED BY <2>1, <2>2
  <1>2. CASE Mark(r)               BY <1>2 DEF Mark
  <1>3. CASE DissociateDeletes(r)  BY <1>3 DEF DissociateDeletes, DeleteNumber
  <1>4. CASE Input(r)
    <2> DEFINE a == found[r]
               out == Feed(items[a], Message(r)).out
    <2>1. /\ a \in made /\ a \in Ids
      BY <1>4 DEF Input
    <2>2. data' = [data EXCEPT ![a] = IF Len(@) - read[a] < QueueSize THEN @ \o out ELSE @]
      BY <1>4 DEF Input
    <2>3. out = <<>> \/ \E x : out = <<x>>
      BY FeedReturnsOne
    <2> HIDE DEF out
    <2>4. PICK S : data[a] \in Seq(S)
      BY <2>1
    <2>5. PICK T : out \in Seq(T)
      <3>1. CASE out = <<>>  BY <3>1
      <3>2. CASE out # <<>>
        <4>1. PICK x : out = <<x>>  BY <2>3, <3>2
        <4>2. out \in Seq({x})      BY <4>1
        <4> QED BY <4>2
      <3> QED BY <3>1, <3>2
    <2>6. data[a] \o out \in Seq(S \cup T) /\ Len(data[a]) <= Len(data[a] \o out)
      BY <2>4, <2>5
    <2>7. \A b \in Ids : /\ \E Q : data'[b] \in Seq(Q)
                         /\ read[b] \in 0..Len(data'[b])
      <3> TAKE b \in Ids
      <3>1. CASE b # a  BY <3>1, <2>2
      <3>2. CASE b = a
        <4>1. data'[a] \in {data[a], data[a] \o out}
          BY <2>1, <2>2
        <4>2. Len(data[a]) \in Nat /\ Len(data[a] \o out) \in Nat /\ read[a] \in 0..Len(data[a])
          BY <2>1, <2>4, <2>6
        <4>3. CASE data'[a] = data[a]
          BY <3>2, <4>2, <4>3, <2>4
        <4>4. CASE data'[a] = data[a] \o out
          <5>1. read[a] \in 0..Len(data[a] \o out)
            BY <4>2, <2>6
          <5> QED BY <3>2, <4>4, <5>1, <2>6
        <4> QED BY <4>1, <4>3, <4>4
      <3> QED BY <3>1, <3>2
    <2> QED BY <1>4, <2>1, <2>2, <2>7 DEF Input
  <1> QED BY <1>1, <1>2, <1>3, <1>4

(* So do those of a relay.                                                 *)
LEMMA RelayTInv ==
  ASSUME TInv, NEW a \in Ids, Relay(a)
  PROVE  TInv'
  <1>0. /\ Session(a) \in Sessions
        /\ udpConnMap[Session(a)] \in made \cup {None} /\ None \notin made
    BY TypesOfRequests DEF TInv
  <1> USE <1>0 DEF TInv, TypeOK, Here, assocVars, queueVars, sessionVars
  <1>1. CASE RelayReads(a)     BY <1>1 DEF RelayReads
  <1>2. CASE RelayWrites(a)    BY <1>2, NumberAssumption DEF RelayWrites
  <1>3. CASE RelayCloses(a)    BY <1>3 DEF RelayCloses
  <1>4. CASE RelayDestroys(a)  BY <1>4 DEF RelayDestroys, DeleteNumber
  <1> QED BY <1>1, <1>2, <1>3, <1>4 DEF Relay

(* Every step keeps the types.                                             *)
LEMMA NextTInv == TInv /\ [Next]_vars => TInv'
  <1> SUFFICES ASSUME TInv, [Next]_vars PROVE TInv'
    OBVIOUS
  <1>1. CASE UNCHANGED vars
    BY <1>1 DEF vars, sessionVars, assocVars, queueVars, relayVars, TInv, TypeOK, Here
  <1>2. CASE Next
    BY <1>2, ConnectionTInv, RequestTInv, AssociationTInv, RelayTInv DEF Next, Handle
  <1> QED BY <1>1, <1>2

(* Every field of a session keeps its type, whatever the goroutines do:    *)
(* found and udpConnMap name associations that were made, no relay has     *)
(* read more than was queued, the listener holds its socket exactly while  *)
(* it is open.                                                             *)
THEOREM TypeCorrect == Spec => []TypeOK
  <1>1. TInv => TypeOK BY DEF TInv
  <1> QED BY <1>1, InitTInv, NextTInv, PTL DEF Spec

-----------------------------------------------------------------------------
(* Folds over sequences of any length: what they return is reached step by *)
(* step. The folds are functions on sets of indices, so induction is over  *)
(* a set of numbers, from the least number that is missing.                *)

(* A set of numbers that is not empty has a least one: the intervals below *)
(* them are finite sets, ordered by inclusion.                             *)
LEMMA LeastNumber ==
  ASSUME NEW S \in SUBSET Nat, S # {}
  PROVE  \E m \in S : \A k \in S : m <= k
  <1> DEFINE T == {0..k : k \in S}
  <1>1. T \subseteq FiniteSubsetsOf(Nat)
    <2>1. \A k \in S : IsFiniteSet(0..k) /\ 0..k \in SUBSET Nat
      BY FS_Interval
    <2> QED BY <2>1 DEF FiniteSubsetsOf
  <1>2. T # {}
    OBVIOUS
  <1>3. \E x \in T : \A y \in T : ~(<<y, x>> \in StrictSubsetOrdering(Nat))
    <2> HIDE DEF T
    <2> QED BY <1>1, <1>2, WFMin, FS_StrictSubsetOrderingWellFounded
  <1>4. PICK m \in S : \A k \in S : ~(<<0..k, 0..m>> \in StrictSubsetOrdering(Nat))
    BY <1>3
  <1>5. ASSUME NEW k \in S, k < m PROVE FALSE
    <2>1. 0..k \subseteq 0..m /\ 0..k # 0..m /\ 0..m \subseteq Nat
      <3>1. m \in 0..m /\ m \notin 0..k
        BY <1>5
      <3> QED BY <1>5, <3>1
    <2> QED BY <2>1, <1>4 DEF StrictSubsetOrdering
  <1> QED BY <1>5

(* Induction over the numbers, for a set of them.                          *)
LEMMA Induction ==
  ASSUME NEW S \in SUBSET Nat, 0 \in S, \A n \in S : n + 1 \in S
  PROVE  S = Nat
  <1> SUFFICES ASSUME Nat \ S # {} PROVE FALSE
    OBVIOUS
  <1>1. PICK m \in Nat \ S : \A k \in Nat \ S : m <= k
    BY LeastNumber
  <1>2. m # 0 /\ m - 1 \in Nat /\ m - 1 \in S
    BY <1>1
  <1> QED BY <1>2

(* The fold of a sequence takes the greatest index first.                  *)
LEMMA MaxIsLast == ASSUME NEW n \in Nat, NEW s \in SUBSET (1..n+1), n+1 \in s PROVE Max(s) = n+1
  <1>1. \A y \in s : n+1 >= y
    OBVIOUS
  <1>2. \A x \in s : (\A y \in s : x >= y) => x = n+1
    <2> SUFFICES ASSUME NEW x \in s, \A y \in s : x >= y PROVE x = n+1
      OBVIOUS
    <2>1. x >= n+1 /\ x \in 1..n+1 OBVIOUS
    <2> QED BY <2>1
  <1> QED BY <1>1, <1>2 DEF Max

(* Size adds up one range after the other.                                 *)
LEMMA SizeSteps ==
  ASSUME NEW n \in Nat, NEW seq, DOMAIN seq = 1..n
  PROVE  \E r : /\ r[0] = 0
                /\ \A i \in 1..n : r[i] = AddRange(r[i-1], seq[i])
                /\ r[n] = Size(seq)
  <1> DEFINE op(v, e) == AddRange(v, e)
             step(f, s) == IF s = {} THEN 0 ELSE op(f[s \ {Max(s)}], seq[Max(s)])
             Iter(k, f) == f = [s \in SUBSET (1..k) |-> step(f, s)]
             P == {k \in Nat : \E f : Iter(k, f)}
  <1>1. 0 \in P
    <2>1. SUBSET (1..0) = {{}} /\ Iter(0, [s \in SUBSET (1..0) |-> 0])
      OBVIOUS
    <2> QED BY <2>1
  <1>2. ASSUME NEW k \in P PROVE k + 1 \in P
    <2>1. PICK f : Iter(k, f)
      OBVIOUS
    <2> DEFINE g == [s \in SUBSET (1..k+1) |->
                       IF k + 1 \in s THEN op(f[s \ {k + 1}], seq[k + 1]) ELSE f[s]]
    <2>2. /\ g = [s \in SUBSET (1..k+1) |-> g[s]]
          /\ \A s \in SUBSET (1..k+1) :
               g[s] = IF k + 1 \in s THEN op(f[s \ {k + 1}], seq[k + 1]) ELSE f[s]
      OBVIOUS
    <2> HIDE DEF g, op
    <2>3. ASSUME NEW s \in SUBSET (1..k+1) PROVE g[s] = step(g, s)
      <3> DEFINE m == Max(s)
      <3>1. CASE k + 1 \in s
        <4>1. m = k + 1 /\ s \ {k + 1} \in SUBSET (1..k+1) /\ k + 1 \notin s \ {k + 1}
          BY <3>1, MaxIsLast
        <4> QED BY <2>2, <3>1, <4>1
      <3>2. CASE k + 1 \notin s
        <4> HIDE DEF m
        <4>0. s \in SUBSET (1..k)
          BY <3>2
        <4>1. s \ {m} \in SUBSET (1..k+1) /\ k + 1 \notin s \ {m}
          BY <3>2
        <4>2. g[s] = f[s] /\ g[s \ {m}] = f[s \ {m}]
          BY <2>2, <3>2, <4>1
        <4>3. f[s] = step(f, s)
          BY <2>1, <4>0
        <4> QED BY <4>2, <4>3 DEF m
      <3> QED BY <3>1, <3>2
    <2>4. g = [s \in SUBSET (1..k+1) |-> step(g, s)]
      <3> HIDE DEF step
      <3> QED BY <2>2, <2>3
    <2>5. Iter(k + 1, g)
      BY <2>4
    <2>6. k + 1 \in Nat
      OBVIOUS
    <2> HIDE DEF Iter
    <2> QED BY <2>5, <2>6
  <1>3. n \in P
    BY <1>1, <1>2, Induction
  <1> DEFINE it == CHOOSE f : Iter(n, f)
  <1>4. Iter(n, it)
    BY <1>3
  <1>5. it[1..n] = Size(seq)
    BY DEF Size, FoldLeft, MapThenFoldSet
  <1> HIDE DEF it
  <1>6. it[{}] = 0
    BY <1>4
  <1>7. ASSUME NEW i \in 1..n PROVE it[1..i] = op(it[1..i-1], seq[i])
    <2>1. Max(1..i) = i /\ (1..i) \ {i} = 1..i-1 /\ 1..i # {} /\ 1..i \in SUBSET (1..n)
      BY DEF Max
    <2> QED BY <2>1, <1>4
  <1> DEFINE r == [i \in 0..n |-> it[1..i]]
  <1>8. r[0] = 0 /\ r[n] = it[1..n]
    BY <1>6
  <1>9. \A i \in 1..n : r[i] = op(r[i-1], seq[i])
    BY <1>7
  <1> HIDE DEF r
  <1> QED BY <1>5, <1>8, <1>9

NoFeed == [items |-> NoItems, out |-> <<>>]

(* Received feeds one message after the other.                             *)
LEMMA FeedSteps ==
  ASSUME NEW n \in Nat, NEW seq, DOMAIN seq = 1..n
  PROVE  \E r : /\ r[0] = NoFeed
                /\ \A i \in 1..n : r[i] = FeedNext(r[i-1], seq[i])
                /\ r[n].out = Received(seq)
  <1> DEFINE op(v, e) == FeedNext(v, e)
             step(f, s) == IF s = {} THEN NoFeed ELSE op(f[s \ {Max(s)}], seq[Max(s)])
             Iter(k, f) == f = [s \in SUBSET (1..k) |-> step(f, s)]
             P == {k \in Nat : \E f : Iter(k, f)}
  <1>1. 0 \in P
    <2>1. SUBSET (1..0) = {{}} /\ Iter(0, [s \in SUBSET (1..0) |-> NoFeed])
      OBVIOUS
    <2> QED BY <2>1
  <1>2. ASSUME NEW k \in P PROVE k + 1 \in P
    <2>1. PICK f : Iter(k, f)
      OBVIOUS
    <2> DEFINE g == [s \in SUBSET (1..k+1) |->
                       IF k + 1 \in s THEN op(f[s \ {k + 1}], seq[k + 1]) ELSE f[s]]
    <2>2. /\ g = [s \in SUBSET (1..k+1) |-> g[s]]
          /\ \A s \in SUBSET (1..k+1) :
               g[s] = IF k + 1 \in s THEN op(f[s \ {k + 1}], seq[k + 1]) ELSE f[s]
      OBVIOUS
    <2> HIDE DEF g, op
    <2>3. ASSUME NEW s \in SUBSET (1..k+1) PROVE g[s] = step(g, s)
      <3> DEFINE m == Max(s)
      <3>1. CASE k + 1 \in s
        <4>1. m = k + 1 /\ s \ {k + 1} \in SUBSET (1..k+1) /\ k + 1 \notin s \ {k + 1}
          BY <3>1, MaxIsLast
        <4> QED BY <2>2, <3>1, <4>1
      <3>2. CASE k + 1 \notin s
        <4> HIDE DEF m
        <4>0. s \in SUBSET (1..k)
          BY <3>2
        <4>1. s \ {m} \in SUBSET (1..k+1) /\ k + 1 \notin s \ {m}
          BY <3>2
        <4>2. g[s] = f[s] /\ g[s \ {m}] = f[s \ {m}]
          BY <2>2, <3>2, <4>1
        <4>3. f[s] = step(f, s)
          BY <2>1, <4>0
        <4> QED BY <4>2, <4>3 DEF m
      <3> QED BY <3>1, <3>2
    <2>4. g = [s \in SUBSET (1..k+1) |-> step(g, s)]
      <3> HIDE DEF step
      <3> QED BY <2>2, <2>3
    <2>5. Iter(k + 1, g)
      BY <2>4
    <2>6. k + 1 \in Nat
      OBVIOUS
    <2> HIDE DEF Iter
    <2> QED BY <2>5, <2>6
  <1>3. n \in P
    BY <1>1, <1>2, Induction
  <1> DEFINE it == CHOOSE f : Iter(n, f)
  <1>4. Iter(n, it)
    BY <1>3
  <1>5. it[1..n] = FoldLeft(FeedNext, NoFeed, seq)
    BY DEF FoldLeft, MapThenFoldSet
  <1> HIDE DEF it
  <1>6. it[{}] = NoFeed
    BY <1>4
  <1>7. ASSUME NEW i \in 1..n PROVE it[1..i] = op(it[1..i-1], seq[i])
    <2>1. Max(1..i) = i /\ (1..i) \ {i} = 1..i-1 /\ 1..i # {} /\ 1..i \in SUBSET (1..n)
      BY DEF Max
    <2> QED BY <2>1, <1>4
  <1> DEFINE r == [i \in 0..n |-> it[1..i]]
  <1>8. r[0] = NoFeed /\ r[n] = it[1..n]
    BY <1>6
  <1>9. \A i \in 1..n : r[i] = op(r[i-1], seq[i])
    BY <1>7
  <1> HIDE DEF r
  <1> QED BY <1>5, <1>8, <1>9 DEF Received, NoFeed

-----------------------------------------------------------------------------
(* Cutting a packet (fragUDPMessage): what the pieces are.                 *)

(* The size of a message that was not put together.                        *)
LEMMA SizeOfOne ==
  ASSUME NEW x, x.from \in Int, x.to \in Int
  PROVE  Size(<<x>>) = x.to - x.from
  <1>1. DOMAIN <<x>> = 1..1 /\ <<x>>[1] = x /\ 1 \in Nat /\ 1 \in 1..1
    OBVIOUS
  <1>2. PICK r : r[0] = 0 /\ (\A i \in 1..1 : r[i] = AddRange(r[i-1], <<x>>[i])) /\ r[1] = Size(<<x>>)
    BY ONLY <1>1, SizeSteps
  <1>3. Size(<<x>>) = AddRange(r[1-1], x)
    BY <1>1, <1>2
  <1> QED BY <1>2, <1>3 DEF AddRange

(* Division leaves less than the divisor.                                  *)
LEMMA Division ==
  ASSUME NEW a \in Nat, NEW u \in Nat, u > 0
  PROVE  a \div u \in Nat /\ (a \div u) * u <= a /\ a < (a \div u) * u + u
  OBVIOUS

(* Multiples of a room follow one another.                                 *)
LEMMA TimesMono ==
  ASSUME NEW i \in Nat, NEW j \in Nat, NEW u \in Nat, i <= j
  PROVE  i * u <= j * u /\ i * u \in Nat /\ (i + 1) * u = i * u + u
  OBVIOUS

(* What fits eight or sixteen bits is not cut.                             *)
LEMMA SmallIdentity ==
  ASSUME NEW a \in Nat
  PROVE  (a < Byte => a % Byte = a) /\ (a < Word => a % Word = a)
  BY DEF Byte, Word

Bytes(k, a, b) == [packet |-> k, from |-> a, to |-> b]
Built(s, p, n, i, d, ranges) ==
  [sessionID |-> s, packetID |-> p, fragmentTotal |-> n, fragmentID |-> i,
   destination |-> d, data |-> ranges]
Named(d, i) == IF i > 1 THEN NoDestination ELSE d
Extent(k, size, u, n, i) == <<Bytes(k, (i - 1) * u, IF i < n THEN i * u ELSE size)>>
Piece(s, p, d, k, size, u, n, i) ==
  Built(s, p, n % Byte, (i - 1) % Byte, Named(d, i), Extent(k, size, u, n, i))

(* The length of a header.                                                 *)
LEMMA HeaderIsPositive ==
  ASSUME NEW s, NEW p, NEW d, NEW k, NEW size, Valid(d), d.name \in 0..255
  PROVE  HeaderSize(UdpMessage(s, p, d, k, size)) \in 14..269
  <1>1. UdpMessage(s, p, d, k, size).destination = d
    BY DEF UdpMessage
  <1>2. DestinationLen(d) \in 4..259
    BY DEF DestinationLen, Valid
  <1> QED BY <1>1, <1>2 DEF HeaderSize

(* Changing the fields of a range, and of a message.                       *)
Moved(range, a, b) == [range EXCEPT !.from = a, !.to = b]
Changed(m, i, n, d, ranges) ==
  [m EXCEPT !.fragmentID = i, !.fragmentTotal = n, !.destination = d, !.data = ranges]

(* A range with other bounds.                                              *)
LEMMA RangeChanged ==
  ASSUME NEW k, NEW x, NEW y, NEW a, NEW b
  PROVE  Moved(Bytes(k, x, y), a, b) = Bytes(k, a, b)
  <1> DEFINE r == Moved(Bytes(k, x, y), a, b)
             q == Bytes(k, a, b)
             fields == {"packet", "from", "to"}
  <1>1. /\ r = [f \in fields |-> r[f]] /\ r.packet = k /\ r.from = a /\ r.to = b
        /\ q = [f \in fields |-> q[f]] /\ q.packet = k /\ q.from = a /\ q.to = b
    BY DEF Bytes, Moved
  <1> HIDE DEF r, q
  <1>2. \A f \in fields : r[f] = q[f]
    BY <1>1
  <1>3. r = q
    BY ONLY <1>1, <1>2
  <1> QED BY <1>3 DEF r, q

MessageFields == {"sessionID", "packetID", "fragmentTotal", "fragmentID", "destination", "data"}

(* A message with other numbers, destination and data.                     *)
LEMMA MessageChanged ==
  ASSUME NEW s, NEW p, NEW d, NEW k, NEW size, NEW i, NEW n, NEW e, NEW ranges
  PROVE  Changed(UdpMessage(s, p, d, k, size), i, n, e, ranges)
         = Built(s, p, n, i, e, ranges)
  <1> DEFINE r == Changed(UdpMessage(s, p, d, k, size), i, n, e, ranges)
             q == Built(s, p, n, i, e, ranges)
  <1>1. /\ r.sessionID = s /\ r.packetID = p /\ r.fragmentTotal = n /\ r.fragmentID = i
        /\ r.destination = e /\ r.data = ranges
    BY DEF UdpMessage, Changed
  <1>2. /\ r = [f \in MessageFields |-> r[f]]
        /\ q = [f \in MessageFields |-> q[f]]
    BY DEF UdpMessage, MessageFields, Changed, Built
  <1>3. /\ q.sessionID = s /\ q.packetID = p /\ q.fragmentTotal = n /\ q.fragmentID = i
        /\ q.destination = e /\ q.data = ranges
    BY DEF Built
  <1> HIDE DEF r, q
  <1>4. \A f \in MessageFields : r[f] = q[f]
    BY <1>1, <1>3 DEF MessageFields
  <1>5. r = q
    BY ONLY <1>2, <1>4
  <1> QED BY <1>5 DEF r, q

(* fragUDPMessage: one message, or pieces that follow one another and end  *)
(* where the packet ends.                                                  *)
IsCut(s, p, d, k, size, max) ==
  LET m == UdpMessage(s, p, d, k, size)
      u == max - HeaderSize(m)
      n == (size + u - 1) \div u
  IN \/ Frag(m, max) = <<m>> /\ (u <= 0 \/ size <= u)
     \/ /\ u \in Nat \ {0} /\ n \in Nat /\ n >= 2
        /\ (n - 1) * u < size /\ size <= n * u
        /\ Frag(m, max) = [i \in 1..n |-> Piece(s, p, d, k, size, u, n, i)]

(* fragUDPMessage returns the message or its pieces, for every size of     *)
(* message and of datagram.                                                *)
LEMMA FragIs ==
  ASSUME NEW s, NEW p, NEW d, NEW k, NEW size \in Nat, NEW max \in Int,
         Valid(d), d.name \in 0..255
  PROVE  IsCut(s, p, d, k, size, max)
  <1> DEFINE m == UdpMessage(s, p, d, k, size)
             u == max - HeaderSize(m)
             n == (size + u - 1) \div u
  <1>0. HeaderSize(m) \in 14..269 /\ u \in Int
    BY HeaderIsPositive
  <1>1. /\ m.data[1] = Bytes(k, 0, size) /\ m.data = <<Bytes(k, 0, size)>>
        /\ m.destination = d
    BY DEF UdpMessage, Bytes
  <1>2. Size(m.data) = size
    BY <1>1, SizeOfOne DEF Bytes
  <1>3. CASE u <= 0 \/ size <= u
    BY <1>3, <1>2 DEF Frag, IsCut
  <1>4. CASE ~(u <= 0 \/ size <= u)
    <2>1. u \in Nat \ {0} /\ size + u - 1 \in Nat
      BY <1>0, <1>4
    <2>2. n \in Nat /\ n * u <= size + u - 1 /\ size + u - 1 < n * u + u
      BY <2>1, Division
    <2> DEFINE whole == m.data[1]
               fragment(i) ==
                 [m EXCEPT !.fragmentID = (i - 1) % Byte,
                           !.fragmentTotal = n % Byte,
                           !.destination = IF i > 1 THEN NoDestination ELSE @,
                           !.data = <<[whole EXCEPT
                             !.from = whole.from + (i - 1) * u,
                             !.to = IF i < n THEN whole.from + i * u ELSE @]>>]
    <2>3. Frag(m, max) = [i \in 1..n |-> fragment(i)]
      BY <1>4, <1>2 DEF Frag
    <2>4. size <= n * u /\ (n - 1) * u < size /\ n >= 2
      <3> HIDE DEF n, u
      <3>1. size <= n * u
        BY <2>1, <2>2
      <3>2. n # 0 /\ n # 1
        BY <2>1, <2>2, <3>1, <1>4
      <3>3. (n - 1) * u = n * u - u
        BY <2>1, <2>2
      <3> QED BY <2>1, <2>2, <3>1, <3>2, <3>3
    <2>5. \A i \in 1..n : fragment(i) = Piece(s, p, d, k, size, u, n, i)
      <3> HIDE DEF n, u
      <3> TAKE i \in 1..n
      <3>1. PICK a \in Int, b \in Int : a = i * u /\ b = (i - 1) * u
        BY <2>1, <2>2
      <3>2. whole = Bytes(k, 0, size) /\ whole.from = 0
        BY <1>1 DEF Bytes
      <3> HIDE DEF whole
      <3> DEFINE e == IF i < n THEN whole.from + a ELSE whole.to
                 range == [whole EXCEPT !.from = whole.from + b, !.to = e]
                 other == [m EXCEPT !.fragmentID = (i - 1) % Byte,
                           !.fragmentTotal = n % Byte,
                           !.destination = IF i > 1 THEN NoDestination ELSE @,
                           !.data = <<range>>]
      <3>3. e = (IF i < n THEN a ELSE size) /\ whole.from + b = b
        BY <3>2 DEF Bytes
      <3>4. range = Bytes(k, b, IF i < n THEN a ELSE size)
        <4>1. range = Moved(Bytes(k, 0, size), b, e)
          <5> HIDE DEF e
          <5> QED BY <3>2, <3>3 DEF Moved
        <4>2. range = Bytes(k, b, e)
          <5> HIDE DEF e, range
          <5> QED BY <4>1, RangeChanged
        <4> QED BY <4>2, <3>3
      <3>5. fragment(i) = other
        <4>1. whole.from + (i - 1) * u = whole.from + b /\ whole.from + i * u = whole.from + a
          BY <3>1
        <4> QED BY <4>1
      <3> HIDE DEF range, e, fragment
      <3>6. other = Piece(s, p, d, k, size, u, n, i)
        <4>1. m.destination = d BY <1>1
        <4> HIDE DEF m
        <4>2. other = Changed(m, (i - 1) % Byte, n % Byte, IF i > 1 THEN NoDestination ELSE d, <<range>>)
          BY <4>1 DEF Changed
        <4> HIDE DEF other
        <4>3. other = Built(s, p, n % Byte, (i - 1) % Byte, Named(d, i), <<range>>)
          BY <4>2, MessageChanged DEF m, Named
        <4> QED BY <4>3, <3>1, <3>4 DEF Piece, Extent
      <3> QED BY <3>5, <3>6
    <2> HIDE DEF n, u, m, fragment
    <2> QED BY <2>1, <2>2, <2>3, <2>4, <2>5 DEF n, u, m, IsCut
  <1> QED BY <1>3, <1>4

-----------------------------------------------------------------------------
(* What an honest client sends, and what is read of it.                    *)

(* The room of a fragment and the number of them, of a packet cut as       *)
(* origin says.                                                            *)
Room(o) == o.max - HeaderSize(o.message)
Fragments(o) == Len(Frag(o.message, o.max))
PieceOf(r, o, i) ==
  Wire(r) = Built(o.message.sessionID, o.message.packetID, Fragments(o), i - 1,
                  Named(o.message.destination, i),
                  Extent(o.message.data[1].packet, o.message.data[1].to, Room(o), Fragments(o), i))

(* What an honest client sends is one of the pieces of its packet, or the  *)
(* packet.                                                                 *)
LEMMA WireIsPiece ==
  ASSUME NEW origin, Honest(script, origin), NEW r \in Packets
  PROVE  LET o == origin[r]
             n == Fragments(o)
         IN /\ o.message.data[1].packet = Wire(r).data[1].packet
            /\ Valid(o.message.destination) /\ Room(o) \in Int /\ n \in 1..255
            /\ o.message.data[1].to \in 0..MaxLength
            /\ n > 1 => Room(o) > 0
            /\ (n - 1) * Room(o) <= o.message.data[1].to
            /\ \E i \in 1..n : PieceOf(r, o, i)
  <1> DEFINE o == origin[r]
             d == o.message.destination
             w == Wire(r)
             k == w.data[1].packet
             m(size) == UdpMessage(w.sessionID, w.packetID, d, k, size)
             n == Fragments(o)
             f == Frag(o.message, o.max)
  <1>1. /\ Valid(d) /\ d.name \in 0..255 /\ o.max \in Nat
        /\ \E size \in 0..MaxLength : o.message = m(size)
        /\ Len(f) < Byte /\ w \in ToSet(f)
    <2>1. r \in Ids /\ script[r].kind = "packet"
      BY DEF Packets, Kind
    <2> QED BY <2>1 DEF Honest, Wire
  <1>0. d = o.message.destination /\ w = Wire(r) /\ k = w.data[1].packet
    OBVIOUS
  <1> HIDE DEF w, k, d
  <1>2. PICK size \in 0..MaxLength : o.message = m(size)
    BY <1>1
  <1>3. /\ o.message.data[1].packet = k /\ o.message.data[1].to = size
        /\ o.message.sessionID = w.sessionID /\ o.message.packetID = w.packetID
        /\ o.message.fragmentTotal = 1 /\ o.message.fragmentID = 0
    <2> QED BY <1>2 DEF UdpMessage
  <1>4. HeaderSize(o.message) \in 14..269 /\ Room(o) \in Int
    <2>1. Valid(d) /\ d.name \in 0..255
      BY <1>1
    <2>2. HeaderSize(m(size)) \in 14..269
      BY ONLY <2>1, HeaderIsPositive
    <2>3. HeaderSize(o.message) \in 14..269
      BY <2>2, <1>2
    <2>4. o.max \in Nat
      BY <1>1
    <2> HIDE DEF o
    <2> QED BY <2>3, <2>4 DEF Room
  <1>5. size \in Nat
    BY DEF MaxLength
  <1> DEFINE u == Room(o)
             t == (size + u - 1) \div u
  <1>6. \/ f = <<o.message>>
        \/ /\ u \in Nat \ {0} /\ t \in Nat /\ t >= 2
           /\ (t - 1) * u < size /\ size <= t * u
           /\ f = [i \in 1..t |-> Piece(w.sessionID, w.packetID, d, k, size, u, t, i)]
    <2>1. Valid(d) /\ d.name \in 0..255 /\ size \in Nat /\ o.max \in Int
      BY <1>1, <1>5
    <2>2. IsCut(w.sessionID, w.packetID, d, k, size, o.max)
      BY ONLY <2>1, FragIs
    <2> HIDE DEF o
    <2> QED BY <2>2, <1>2 DEF Room, IsCut
  <1>7. CASE f = <<o.message>>
    <2>1. n = 1 /\ w = o.message
      BY <1>7, <1>1 DEF ToSet, Fragments
    <2>2. (n - 1) * u = 0 /\ (1 - 1) * u = 0 /\ ~(1 < n) /\ ~(1 > 1)
      BY <2>1, <1>4
    <2>3. o.message = Built(w.sessionID, w.packetID, 1, 0, d, <<Bytes(k, 0, size)>>)
      <3> QED BY <1>2 DEF UdpMessage, Built, Bytes
    <2>4. PieceOf(r, o, 1)
      <3>1. Extent(k, size, u, n, 1) = <<Bytes(k, 0, size)>> /\ Named(d, 1) = d
        BY <2>2 DEF Extent, Named
      <3> HIDE DEF u
      <3>2. 1 - 1 = 0 OBVIOUS
      <3> HIDE DEF n
      <3> QED BY <3>1, <3>2, <2>1, <2>3, <1>3, <1>0 DEF PieceOf, n, u
    <2> HIDE DEF n, u
    <2> QED BY <2>1, <2>2, <2>4, <1>0, <1>1, <1>3, <1>4 DEF u, n
  <1>8. CASE /\ u \in Nat \ {0} /\ t \in Nat /\ t >= 2
             /\ (t - 1) * u < size /\ size <= t * u
             /\ f = [i \in 1..t |-> Piece(w.sessionID, w.packetID, d, k, size, u, t, i)]
    <2> HIDE DEF t, u
    <2>1. n = t /\ n \in 1..255
      <3>1. Len(f) = t
        BY <1>8
      <3> HIDE DEF f
      <3> QED BY <3>1, <1>1, <1>8 DEF Fragments, Byte, f
    <2>2. PICK i \in 1..n : w = Piece(w.sessionID, w.packetID, d, k, size, u, n, i)
      <3>1. \E i \in 1..t : w = f[i]
        BY <1>1, <1>8 DEF ToSet
      <3> HIDE DEF f, w, n
      <3> QED BY <3>1, <2>1, <1>8
    <2>3. n % Byte = n /\ (i - 1) % Byte = i - 1
      BY <2>1, SmallIdentity DEF Byte
    <2>4. PieceOf(r, o, i)
      <3> HIDE DEF n
      <3> QED BY <2>2, <2>3, <1>3, <1>0 DEF PieceOf, Piece, u, n
    <2> HIDE DEF n
    <2>5. /\ n > 1 => u > 0
          /\ (n - 1) * u <= size
      BY <2>1, <1>8
    <2> QED BY <2>1, <2>4, <2>5, <1>0, <1>1, <1>3, <1>4 DEF u, n
  <1> QED BY <1>6, <1>7, <1>8

(* A length that fits sixteen bits; the bound stays a name for the         *)
(* provers.                                                                *)
LEMMA LengthFits ==
  /\ MaxLength \in Nat
  /\ \A n \in Nat : n <= MaxLength => n \in 0..MaxLength
  /\ \A n \in 0..MaxLength : n \in Nat /\ n <= MaxLength /\ n < Word /\ n % Word = n
  <1>1. MaxLength \in Nat /\ Word \in Nat /\ MaxLength < Word
    BY DEF MaxLength, Word
  <1>2. \A n \in 0..MaxLength : n \in Nat /\ n <= MaxLength /\ n < Word
    BY <1>1
  <1>3. \A n \in 0..MaxLength : n % Word = n
    BY <1>2, SmallIdentity
  <1>4. \A n \in Nat : n <= MaxLength => n \in 0..MaxLength
    BY <1>1
  <1> QED BY ONLY <1>1, <1>2, <1>3, <1>4

(* What is sent as it was made is read as it was made.                     *)
LEMMA DecodePacked ==
  ASSUME NEW s, NEW p, NEW n, NEW i, NEW d, NEW k, NEW a \in Int, NEW b \in Int,
         b - a \in 0..MaxLength
  PROVE  LET m == Built(s, p, n, i, d, <<Bytes(k, a, b)>>) IN Decode(Pack(m)) = m
  <1> DEFINE m == Built(s, p, n, i, d, <<Bytes(k, a, b)>>)
             ranges == <<[m.data[1] EXCEPT !.to = Pack(m).message.data[1].from + Pack(m).length]>>
             q == [m EXCEPT !.data = ranges]
  <1>1. m.data = <<Bytes(k, a, b)>> /\ m.data[1] = Bytes(k, a, b)
    BY DEF Built
  <1>2. Size(m.data) = b - a
    BY <1>1, SizeOfOne DEF Bytes
  <1>3. Pack(m).message = m /\ Pack(m).length = b - a
    <2>1. (b - a) % Word = b - a
      <3>1. b - a \in 0..MaxLength
        OBVIOUS
      <3> QED BY ONLY <3>1, LengthFits
    <2> HIDE DEF m
    <2> QED BY <1>2, <2>1 DEF Pack
  <1>4. Decode(Pack(m)) = q
    <2>1. m.data[1] = Pack(m).message.data[1]
      BY <1>3
    <2> HIDE DEF m
    <2> QED BY <1>3 DEF Decode
  <1>5. ranges = <<Bytes(k, a, b)>>
    <2>1. Pack(m).message.data[1].from + Pack(m).length = b
      BY <1>1, <1>3 DEF Bytes
    <2> DEFINE e == Pack(m).message.data[1].from + Pack(m).length
               y == [m.data[1] EXCEPT !.to = e]
               fields == {"packet", "from", "to"}
    <2>2. /\ y = [f \in fields |-> y[f]] /\ y.packet = k /\ y.from = a /\ y.to = b
          /\ m.data[1] = [f \in fields |-> m.data[1][f]]
          /\ m.data[1].packet = k /\ m.data[1].from = a /\ m.data[1].to = b
      <3> HIDE DEF m, e
      <3> QED BY <1>1, <2>1 DEF Bytes, e
    <2>3. y = Bytes(k, a, b)
      <3> HIDE DEF y, m
      <3>1. \A f \in fields : y[f] = m.data[1][f]
        BY <2>2
      <3>2. y = m.data[1]
        BY ONLY <3>1, <2>2
      <3> QED BY <3>2, <1>1
    <2> QED BY <2>3 DEF y
  <1>6. q = m
    <2>1. /\ m = [f \in MessageFields |-> m[f]] /\ m.data = <<Bytes(k, a, b)>>
          /\ q = [f \in MessageFields |-> q[f]] /\ q.data = ranges
      BY DEF Built, MessageFields
    <2>2. \A f \in MessageFields \ {"data"} : q[f] = m[f]
      BY DEF Built, MessageFields
    <2> HIDE DEF q, m, ranges
    <2>3. \A f \in MessageFields : q[f] = m[f]
      BY <2>1, <2>2, <1>5
    <2> QED BY ONLY <2>1, <2>3
  <1> QED BY <1>4, <1>6

(* What is known of the fragments of an honest client.                     *)
LEMMA PieceFields ==
  ASSUME NEW r, NEW o, NEW i \in Nat, PieceOf(r, o, i)
  PROVE  LET w == Wire(r)
             n == Fragments(o)
         IN /\ w.sessionID = o.message.sessionID /\ w.packetID = o.message.packetID
            /\ w.fragmentTotal = n /\ w.fragmentID = i - 1
            /\ w.destination = Named(o.message.destination, i)
            /\ DOMAIN w = MessageFields
            /\ w.data = <<w.data[1]>> /\ Len(w.data) = 1
            /\ w.data[1] = Bytes(o.message.data[1].packet, (i - 1) * Room(o),
                                 IF i < n THEN i * Room(o) ELSE o.message.data[1].to)
  BY DEF PieceOf, Built, Extent, MessageFields

Alone ==
  \A r \in Packets :
    LET w == Wire(r) IN
      /\ w.fragmentTotal \in 1..255 /\ w.fragmentID \in 0..w.fragmentTotal - 1
      /\ DOMAIN w = MessageFields
      /\ w.data = <<w.data[1]>> /\ Len(w.data) = 1 /\ w.data[1].to \in Int
      /\ w.fragmentID = 0 => Valid(w.destination) /\ w.data[1].from = 0
      /\ Decodes(script[r].wire, script[r].via) => Message(r) = w

Together ==
  \A r, q \in Packets :
    LET w == Wire(r)
        v == Wire(q)
    IN w.data[1].packet = v.data[1].packet =>
         /\ w.packetID = v.packetID /\ w.fragmentTotal = v.fragmentTotal
         /\ w.fragmentID = v.fragmentID => r = q
         /\ v.fragmentID = w.fragmentID + 1 => v.data[1].from = w.data[1].to
         /\ w.fragmentID = w.fragmentTotal - 1 => v.data[1].to <= w.data[1].to

(* The fragments of an honest client are numbered from 0, the first one    *)
(* has the destination, the others continue it.                            *)
LEMMA HonestAlone ==
  ASSUME NEW origin, Honest(script, origin)
  PROVE  Alone
  <1> SUFFICES ASSUME NEW r \in Packets
      PROVE  LET w == Wire(r) IN
             /\ w.fragmentTotal \in 1..255 /\ w.fragmentID \in 0..w.fragmentTotal - 1
             /\ DOMAIN w = MessageFields
             /\ w.data = <<w.data[1]>> /\ Len(w.data) = 1 /\ w.data[1].to \in Int
             /\ w.fragmentID = 0 => Valid(w.destination) /\ w.data[1].from = 0
             /\ Decodes(script[r].wire, script[r].via) => Message(r) = w
    BY DEF Alone
  <1> DEFINE o == origin[r]
             n == Fragments(o)
             u == Room(o)
             size == o.message.data[1].to
             w == Wire(r)
  <1>1. /\ Valid(o.message.destination) /\ u \in Int /\ n \in 1..255
        /\ size \in 0..MaxLength
        /\ n > 1 => u > 0
        /\ (n - 1) * u <= size
        /\ \E i \in 1..n : PieceOf(r, o, i)
    BY WireIsPiece
  <1>2. PICK i \in 1..n : PieceOf(r, o, i)
    BY <1>1
  <1> DEFINE a == (i - 1) * u
             b == IF i < n THEN i * u ELSE size
  <1>3. w.fragmentTotal = n /\ w.fragmentID = i - 1
        /\ w.destination = Named(o.message.destination, i)
        /\ DOMAIN w = MessageFields /\ w.data = <<w.data[1]>> /\ Len(w.data) = 1
        /\ w.data[1] = Bytes(o.message.data[1].packet, a, b)
    <2>1. i \in Nat BY <1>1
    <2> QED BY <1>2, <2>1, PieceFields
  <1> HIDE DEF w, n, u, size, o
  <1>4. a \in Int /\ b \in Int /\ b - a \in 0..MaxLength /\ (i = 1 => a = 0)
    <2>0. size \in Nat /\ size <= MaxLength /\ MaxLength \in Nat
      <3>1. size \in 0..MaxLength BY <1>1
      <3> QED BY ONLY <3>1, LengthFits
    <2>1. CASE i < n
      <3>1. u \in Nat /\ n - 1 \in Nat /\ i \in Nat /\ i <= n - 1 /\ i - 1 \in Nat
        BY <1>1, <2>1
      <3>2. i * u <= (n - 1) * u /\ i * u \in Nat /\ (i - 1) * u \in Nat /\ i * u = (i - 1) * u + u
        <4>1. i * u <= (n - 1) * u /\ i * u \in Nat
          BY <3>1, TimesMono
        <4>2. (i - 1) * u \in Nat /\ ((i - 1) + 1) * u = (i - 1) * u + u
          BY <3>1, TimesMono
        <4> QED BY <4>1, <4>2, <3>1
      <3>3. i = 1 => (i - 1) * u = 0
        BY <3>1
      <3>4. a \in Nat /\ b \in Nat /\ b = a + u /\ b <= size
        <4>1. b = i * u
          BY <2>1
        <4> DEFINE x == i * u
                   y == (n - 1) * u
        <4>2. x <= y /\ y <= size /\ y \in Int /\ x \in Nat /\ a \in Nat /\ x = a + u
          <5>1. y \in Nat BY <3>1, TimesMono
          <5> QED BY <5>1, <3>2, <1>1
        <4> HIDE DEF x, y, a, b
        <4> QED BY <4>1, <4>2, <2>0 DEF x
      <3> HIDE DEF a, b
      <3>5. b - a \in 0..MaxLength
        <4>1. b - a \in Nat /\ b - a <= MaxLength
          <5>1. u \in Nat /\ u <= MaxLength
            BY <3>1, <3>4, <2>0
          <5> QED BY <5>1, <3>4
        <4> QED BY ONLY <4>1, LengthFits
      <3>6. i = 1 => a = 0
        BY <3>3 DEF a
      <3> QED BY <3>4, <3>5, <3>6
    <2>2. CASE i = n
      <3>1. a <= size /\ a \in Int /\ b = size
        BY <2>2, <1>1
      <3>2. a >= 0 /\ (i = 1 => a = 0)
        <4>1. CASE n = 1 BY <4>1, <2>2, <1>1
        <4>2. CASE n > 1
          <5>1. n - 1 \in Nat /\ u \in Nat BY <1>1, <4>2
          <5>2. (n - 1) * u \in Nat BY <5>1, TimesMono
          <5> QED BY <5>2, <2>2, <4>2
        <4> QED BY <4>1, <4>2, <1>1
      <3> HIDE DEF a, b
      <3>3. b - a \in Nat /\ b - a <= MaxLength /\ b \in Int
        BY <3>1, <3>2, <2>0
      <3>4. b - a \in 0..MaxLength
        BY ONLY <3>3, LengthFits
      <3> QED BY <3>1, <3>2, <3>3, <3>4
    <2> QED BY <2>1, <2>2, <1>1
  <1> HIDE DEF a, b
  <1>5. w.data[1].from = a /\ w.data[1].to = b
    BY <1>3 DEF Bytes
  <1>6. ASSUME Decodes(script[r].wire, script[r].via) PROVE Message(r) = w
    <2>1. script[r].wire = Pack(w)
      BY <1>6 DEF Packets, Kind, Honest, Wire, w
    <2>2. w = Built(o.message.sessionID, o.message.packetID, n, i - 1,
                    Named(o.message.destination, i), <<Bytes(o.message.data[1].packet, a, b)>>)
      BY <1>2 DEF PieceOf, Extent, w, n, u, size, a, b
    <2>3. Decode(Pack(w)) = w
      BY <2>2, <1>4, DecodePacked
    <2> QED BY <2>1, <2>3 DEF Message
  <1>7. w.fragmentTotal \in 1..255 /\ w.fragmentID \in 0..w.fragmentTotal - 1
    BY <1>1, <1>3
  <1>8. w.fragmentID = 0 => Valid(w.destination) /\ w.data[1].from = 0
    <2>1. w.fragmentID = 0 => i = 1
      BY <1>3
    <2> QED BY <2>1, <1>1, <1>3, <1>4, <1>5 DEF Named
  <1> QED BY <1>3, <1>4, <1>5, <1>6, <1>7, <1>8 DEF w

(* Two fragments of one packet agree on its number and on how many they    *)
(* are; one continues the other exactly when its number does.              *)
LEMMA HonestTogether ==
  ASSUME NEW origin, Honest(script, origin)
  PROVE  Together
  <1> SUFFICES ASSUME NEW r \in Packets, NEW q \in Packets,
                      Wire(r).data[1].packet = Wire(q).data[1].packet
      PROVE  LET w == Wire(r)
                 v == Wire(q)
             IN /\ w.packetID = v.packetID /\ w.fragmentTotal = v.fragmentTotal
                /\ w.fragmentID = v.fragmentID => r = q
                /\ v.fragmentID = w.fragmentID + 1 => v.data[1].from = w.data[1].to
                /\ w.fragmentID = w.fragmentTotal - 1 => v.data[1].to <= w.data[1].to
    BY DEF Together
  <1> DEFINE o == origin[r]
             n == Fragments(o)
             u == Room(o)
             size == o.message.data[1].to
             w == Wire(r)
             v == Wire(q)
  <1>0. /\ origin[q] = o
        /\ w = v => r = q
    <2>1. r \in Ids /\ q \in Ids /\ script[r].kind = "packet" /\ script[q].kind = "packet"
      BY DEF Packets, Kind
    <2> QED BY <2>1 DEF Honest, Wire
  <1>1. /\ u \in Int /\ n \in 1..255 /\ size \in 0..MaxLength
        /\ n > 1 => u > 0
        /\ (n - 1) * u <= size
        /\ \E i \in 1..n : PieceOf(r, o, i)
        /\ \E i \in 1..n : PieceOf(q, o, i)
    BY WireIsPiece, <1>0
  <1>2. PICK i \in 1..n : PieceOf(r, o, i)
    BY <1>1
  <1>3. PICK j \in 1..n : PieceOf(q, o, j)
    BY <1>1
  <1>4. /\ w.packetID = o.message.packetID /\ w.fragmentTotal = n /\ w.fragmentID = i - 1
        /\ w.data[1] = Bytes(o.message.data[1].packet, (i - 1) * u, IF i < n THEN i * u ELSE size)
    <2>1. i \in Nat BY <1>1
    <2> QED BY <1>2, <2>1, PieceFields
  <1>5. /\ v.packetID = o.message.packetID /\ v.fragmentTotal = n /\ v.fragmentID = j - 1
        /\ v.data[1] = Bytes(o.message.data[1].packet, (j - 1) * u, IF j < n THEN j * u ELSE size)
    <2>1. j \in Nat BY <1>1
    <2> QED BY <1>3, <2>1, PieceFields
  <1>6. i = j => w = v
    BY <1>2, <1>3 DEF PieceOf
  <1> HIDE DEF w, v, n, u, size, o
  <1>7. w.data[1].to = (IF i < n THEN i * u ELSE size) /\ v.data[1].from = (j - 1) * u
        /\ v.data[1].to = (IF j < n THEN j * u ELSE size)
    BY <1>4, <1>5 DEF Bytes
  <1>8. i \in Int /\ j \in Int /\ n \in Int
    BY <1>1
  <1>9. ASSUME w.fragmentID = v.fragmentID PROVE r = q
    <2>1. i - 1 = j - 1
      BY <1>9, <1>4, <1>5
    <2>2. i = j
      BY ONLY <2>1, <1>8
    <2> QED BY <2>2, <1>6, <1>0
  <1>10. ASSUME v.fragmentID = w.fragmentID + 1 PROVE v.data[1].from = w.data[1].to
    <2>1. j = i + 1 /\ i < n /\ j - 1 = i
      BY <1>10, <1>4, <1>5, <1>8, <1>1
    <2> QED BY <2>1, <1>7
  <1>11. ASSUME w.fragmentID = w.fragmentTotal - 1 PROVE v.data[1].to <= w.data[1].to
    <2>1. i = n BY <1>11, <1>4, <1>8
    <2>2. w.data[1].to = size /\ size \in Int
      BY <2>1, <1>7, <1>1, <1>8
    <2>3. CASE j < n
      <3>1. j \in Nat /\ n - 1 \in Nat /\ u \in Nat /\ j <= n - 1
        BY <2>3, <1>1
      <3>2. j * u <= (n - 1) * u /\ j * u \in Nat
        BY <3>1, TimesMono
      <3>3. (n - 1) * u \in Nat
        BY <3>1, TimesMono
      <3> DEFINE x == j * u
                 y == (n - 1) * u
      <3>4. x <= y /\ y <= size /\ x \in Nat /\ y \in Nat /\ v.data[1].to = x
        BY <3>2, <3>3, <1>1, <1>7, <2>3
      <3> HIDE DEF x, y
      <3> QED BY <3>4, <2>2
    <2>4. CASE ~(j < n)
      <3>1. v.data[1].to = size
        BY <2>4, <1>7
      <3> QED BY <3>1, <2>2
    <2> QED BY <2>3, <2>4
  <1> QED BY <1>4, <1>5, <1>9, <1>10, <1>11 DEF w, v

-----------------------------------------------------------------------------
(* Putting fragments together (feed).                                      *)

(* As many fragments of one packet as there are are all of them.           *)
LEMMA AllPieces ==
  ASSUME Alone, Together, NEW k, NEW n \in Nat \ {0}, NEW parts,
         IsFiniteSet(parts), Cardinality(parts) = n,
         \A m \in parts : \E q \in Packets :
           m = Wire(q) /\ m.data[1].packet = k /\ m.fragmentTotal = n
  PROVE  \A i \in 0..n-1 : \E m \in parts : m.fragmentID = i
  <1> DEFINE f == [m \in parts |-> m.fragmentID]
  <1>1. \A m \in parts : m.fragmentID \in 0..n-1
    BY DEF Alone
  <1>2. \A m, l \in parts : m.fragmentID = l.fragmentID => m = l
    BY DEF Together
  <1>3. f \in Injection(parts, 0..n-1)
    BY <1>1, <1>2 DEF Injection, IsInjective
  <1>4. IsFiniteSet(0..n-1) /\ Cardinality(0..n-1) = n
    <2>1. n - 1 \in Int /\ 0 \in Int /\ ~(0 > n - 1) /\ n - 1 - 0 + 1 = n
      OBVIOUS
    <2> QED BY <2>1, FS_Interval
  <1>5. f \in Surjection(parts, 0..n-1)
    <2> HIDE DEF f
    <2> QED BY <1>3, <1>4, FS_Injection
  <1> QED BY <1>5 DEF Surjection

(* Joining all the fragments of a packet gives the packet.                 *)
LEMMA JoinIsWhole ==
  ASSUME Alone, Together, NEW k, NEW n \in Nat \ {0}, NEW parts,
         IsFiniteSet(parts), Cardinality(parts) = n,
         \A m \in parts : \E q \in Packets :
           m = Wire(q) /\ m.data[1].packet = k /\ m.fragmentTotal = n
  PROVE  /\ Complete(Join(parts)) /\ Valid(Join(parts).destination)
         /\ Join(parts).data[1].packet = k
         /\ \A q \in Packets : Wire(q).data[1].packet = k => Wire(q) \in parts
  <1> DEFINE first == CHOOSE m \in parts : m.fragmentID = 0
             piece(i) == CHOOSE m \in parts : m.fragmentID = i - 1
             ranges == [i \in 1..n |-> piece(i).data[1]]
             msg == Join(parts)
  <1>1. \A i \in 0..n-1 : \E m \in parts : m.fragmentID = i
    BY AllPieces
  <1>2. first \in parts /\ first.fragmentID = 0
    <2>1. 0 \in 0..n-1 OBVIOUS
    <2> QED BY <1>1, <2>1
  <1>3. \A i \in 1..n : piece(i) \in parts /\ piece(i).fragmentID = i - 1
    <2> TAKE i \in 1..n
    <2>1. i - 1 \in 0..n-1 OBVIOUS
    <2> QED BY <1>1, <2>1
  <1>4. msg = [first EXCEPT !.data = ranges]
    BY DEF Join
  <1> HIDE DEF first, piece, msg
  <1>5. msg.data = ranges /\ msg.destination = first.destination /\ Valid(first.destination)
    <2>1. DOMAIN first = MessageFields /\ Valid(first.destination)
      BY <1>2 DEF Alone
    <2> HIDE DEF ranges
    <2> QED BY <1>4, <2>1 DEF MessageFields
  <1>6. /\ DOMAIN msg.data = 1..n /\ Len(msg.data) = n
        /\ \A i \in 1..n : msg.data[i] = piece(i).data[1]
    BY <1>5
  <1>7. \A i \in 1..n : msg.data[i].packet = k
    BY <1>3, <1>6
  <1> HIDE DEF ranges
  <1>8. 1 \in 1..n /\ n \in 1..n /\ 1 - 1 = 0
    OBVIOUS
  <1>9. msg.data[1].from = 0
    BY <1>3, <1>6, <1>8 DEF Alone
  <1>10. \A i \in 2..n : msg.data[i].from = msg.data[i - 1].to
    <2> TAKE i \in 2..n
    <2>1. i \in 1..n /\ i - 1 \in 1..n /\ i - 1 = ((i - 1) - 1) + 1
      OBVIOUS
    <2>2. PICK q \in Packets : piece(i - 1) = Wire(q) /\ Wire(q).data[1].packet = k
      BY <1>3, <2>1
    <2>3. PICK r \in Packets : piece(i) = Wire(r) /\ Wire(r).data[1].packet = k
      BY <1>3, <2>1
    <2>4. Wire(r).fragmentID = Wire(q).fragmentID + 1
      BY <1>3, <2>1, <2>2, <2>3
    <2>5. Wire(r).data[1].from = Wire(q).data[1].to
      BY <2>2, <2>3, <2>4 DEF Together
    <2> QED BY <2>1, <2>2, <2>3, <2>5, <1>6
  <1>11. \A r \in Packets : Wire(r).data[1].packet = k => Wire(r).data[1].to <= msg.data[n].to
    <2>1. PICK q \in Packets : /\ piece(n) = Wire(q) /\ Wire(q).data[1].packet = k
                               /\ Wire(q).fragmentTotal = n
      BY <1>3, <1>8
    <2>2. Wire(q).fragmentID = Wire(q).fragmentTotal - 1
      BY <1>3, <1>8, <2>1
    <2> QED BY <2>1, <2>2, <1>6, <1>8 DEF Together
  <1>12. Complete(msg)
    BY <1>6, <1>7, <1>8, <1>9, <1>10, <1>11 DEF Complete, Parts
  <1>13. ASSUME NEW q \in Packets, Wire(q).data[1].packet = k
         PROVE  Wire(q) \in parts
    <2>1. PICK r \in Packets : /\ first = Wire(r) /\ Wire(r).data[1].packet = k
                               /\ Wire(r).fragmentTotal = n
      BY <1>2
    <2>2. Wire(q).fragmentTotal = n
      BY <1>13, <2>1 DEF Together
    <2>3. Wire(q).fragmentID \in 0..n-1
      BY <2>2 DEF Alone
    <2>4. PICK m \in parts : m.fragmentID = Wire(q).fragmentID
      BY <2>3, <1>1
    <2> QED BY <1>13, <2>4 DEF Together
  <1> QED BY <1>5, <1>7, <1>8, <1>12, <1>13 DEF msg

(* What a defragger holds are fragments that were handed to it.            *)
Collected(its, handed) ==
  \A p \in DOMAIN its :
    /\ IsFiniteSet(its[p].parts) /\ its[p].total > 1
    /\ \A m \in its[p].parts : \E q \in handed :
         m = Wire(q) /\ m.packetID = p /\ m.fragmentTotal = its[p].total

(* A packet of which there is all, with the requests that brought it.      *)
Delivered(m, handed) ==
  /\ Complete(m) /\ Valid(m.destination)
  /\ \A q \in Packets : Wire(q).data[1].packet = m.data[1].packet => q \in handed

(* feed, given one more fragment.                                          *)
LEMMA KeptIs ==
  ASSUME NEW its, NEW handed, Collected(its, handed), NEW m
  PROVE  /\ IsFiniteSet(Kept(its, m))
         /\ \A l \in Kept(its, m) : \E q \in handed :
              l = Wire(q) /\ l.packetID = m.packetID /\ l.fragmentTotal = m.fragmentTotal
  <1>1. CASE m.packetID \in DOMAIN its /\ its[m.packetID].total = m.fragmentTotal
    <2>1. Kept(its, m) = its[m.packetID].parts
      BY <1>1 DEF Kept
    <2> QED BY <1>1, <2>1 DEF Collected
  <1>2. CASE ~(m.packetID \in DOMAIN its /\ its[m.packetID].total = m.fragmentTotal)
    <2>1. Kept(its, m) = {}
      BY <1>2 DEF Kept
    <2> QED BY <2>1, FS_EmptySet
  <1> QED BY <1>1, <1>2

(* feed keeps only fragments that were handed to it, under their packet    *)
(* number.                                                                 *)
LEMMA FeedCollects ==
  ASSUME Alone, NEW its, NEW handed \in SUBSET Packets, Collected(its, handed), NEW r \in Packets
  PROVE  Collected(Feed(its, Wire(r)).items, handed \cup {r})
  <1> DEFINE m == Wire(r)
             p == m.packetID
             parts == Kept(its, m) \cup {m}
             item == [total |-> m.fragmentTotal, parts |-> parts]
             kept == [e \in DOMAIN its \cup {p} |-> IF e = p THEN item ELSE its[e]]
             less == Restrict(its, DOMAIN its \ {p})
  <1>1. Feed(its, m).items \in {its, less} \/ (m.fragmentTotal > 1 /\ Feed(its, m).items = kept)
    <2> DEFINE message == Join(parts)
    <2>1. m.fragmentTotal \in 1..255
      BY DEF Alone
    <2> HIDE DEF m, message
    <2>2. CASE m.fragmentTotal <= 1  BY <2>2 DEF Feed
    <2>3. CASE m.fragmentTotal > 1   BY <2>1, <2>3 DEF Feed
    <2> QED BY <2>1, <2>2, <2>3
  <1>2. IsFiniteSet(parts)
    BY KeptIs, FS_AddElement
  <1>3. \A l \in parts : \E q \in handed \cup {r} :
           l = Wire(q) /\ l.packetID = p /\ l.fragmentTotal = m.fragmentTotal
    BY KeptIs
  <1>4. Collected(its, handed \cup {r})
    BY DEF Collected
  <1>5. Collected(less, handed \cup {r})
    <2>1. DOMAIN less \subseteq DOMAIN its /\ \A e \in DOMAIN less : less[e] = its[e]
      BY DEF Restrict
    <2> HIDE DEF less
    <2> QED BY <2>1, <1>4 DEF Collected
  <1>6. CASE m.fragmentTotal > 1 /\ Feed(its, m).items = kept
    <2>1. /\ DOMAIN kept = DOMAIN its \cup {p} /\ kept[p] = item
          /\ \A e \in DOMAIN its : e # p => kept[e] = its[e]
      <3> HIDE DEF item, p
      <3> QED OBVIOUS
    <2>2. item.parts = parts /\ item.total = m.fragmentTotal
      OBVIOUS
    <2> HIDE DEF kept, item, m, parts
    <2>3. Collected(kept, handed \cup {r})
      BY <1>2, <1>3, <1>4, <1>6, <2>1, <2>2 DEF Collected
    <2> QED BY <2>3, <1>6 DEF m
  <1> QED BY <1>1, <1>4, <1>5, <1>6

(* What was handed on before a fragment is of its number, and not of a     *)
(* packet it can be mistaken for.                                          *)
Fits(r, handed) ==
  handed \subseteq Packets /\ \A q \in handed : Session(q) = Session(r) /\ ~Reuses(r, q)

(* What feed returns is a whole packet, of which nothing is left to come.  *)
LEMMA FeedDelivers ==
  ASSUME Alone, Together, NEW its, NEW handed, Collected(its, handed),
         NEW r \in Packets, Fits(r, handed),
         NEW x, Feed(its, Wire(r)).out = <<x>>
  PROVE  Delivered(x, handed \cup {r}) /\ x.data[1].packet = Wire(r).data[1].packet
  <1> DEFINE m == Wire(r)
             k == m.data[1].packet
             n == m.fragmentTotal
             parts == Kept(its, m) \cup {m}
             message == Join(parts)
  <1>0. n \in 1..255 /\ m.fragmentID \in 0..n-1 /\ Len(m.data) = 1
    BY DEF Alone
  <1>1. CASE n = 1
    <2>1. x = m
      <3>1. Feed(its, m).out = <<m>>
        <4> HIDE DEF m
        <4> QED BY <1>1 DEF Feed
      <3> QED BY <3>1
    <2>2. m.fragmentID = 0
      BY <1>0, <1>1
    <2>3. Valid(m.destination) /\ m.data[1].from = 0
      BY <2>2 DEF Alone
    <2>4. \A q \in Packets : Wire(q).data[1].packet = k => q = r
      <3> SUFFICES ASSUME NEW q \in Packets, Wire(q).data[1].packet = k PROVE q = r
        OBVIOUS
      <3>1. Wire(q).fragmentTotal = 1
        BY <1>1 DEF Together
      <3>2. Wire(q).fragmentID \in 0..Wire(q).fragmentTotal - 1
        BY DEF Alone
      <3>3. Wire(q).fragmentID = 0
        BY <3>1, <3>2
      <3> QED BY <2>2, <3>3 DEF Together
    <2>5. \A q \in Parts(m) : Wire(q).data[1].to <= m.data[1].to
      <3>1. m.data[1].to \in Int BY DEF Alone
      <3> QED BY <2>4, <3>1 DEF Parts
    <2>6. Complete(m)
      <3> HIDE DEF m
      <3> QED BY <1>0, <2>3, <2>5 DEF Complete
    <2> QED BY <2>1, <2>3, <2>4, <2>6 DEF Delivered
  <1>2. CASE n # 1
    <2>1. n > 1 /\ n \in Nat \ {0}
      BY <1>0, <1>2
    <2>2. Cardinality(parts) = n /\ x = message
      <3> HIDE DEF m, message
      <3>1. Feed(its, m).out = IF \/ m.fragmentID >= n
                                  \/ \E e \in Kept(its, m) : e.fragmentID = m.fragmentID
                               THEN <<>>
                               ELSE IF Cardinality(parts) # n THEN <<>>
                               ELSE IF Size(message.data) = 0 THEN <<>> ELSE <<message>>
        BY <2>1 DEF Feed, message
      <3>2. <<>> # <<x>> /\ (<<message>> = <<x>> => x = message)
        OBVIOUS
      <3> HIDE DEF parts
      <3> QED BY <3>1, <3>2 DEF m
    <2>3. IsFiniteSet(parts)
      BY KeptIs, FS_AddElement
    <2>4. \A l \in parts : \E q \in handed \cup {r} :
            l = Wire(q) /\ l.packetID = m.packetID /\ l.fragmentTotal = n
      BY KeptIs
    <2>5. \A l \in parts : \E q \in handed \cup {r} :
            l = Wire(q) /\ l.data[1].packet = k /\ l.fragmentTotal = n
      <3> SUFFICES ASSUME NEW l \in parts
                   PROVE  \E q \in handed \cup {r} :
                            l = Wire(q) /\ l.data[1].packet = k /\ l.fragmentTotal = n
        OBVIOUS
      <3>1. PICK q \in handed \cup {r} :
              l = Wire(q) /\ l.packetID = m.packetID /\ l.fragmentTotal = n
        BY <2>4
      <3>2. CASE q = r  BY <3>1, <3>2
      <3>3. CASE q # r
        <4>1. q \in Packets /\ Session(q) = Session(r) /\ ~Reuses(r, q)
          BY <3>3 DEF Fits
        <4>2. Wire(q).data[1].packet = k
          BY <4>1, <3>1, <2>1 DEF Reuses
        <4> QED BY <3>1, <4>2
      <3> QED BY <3>2, <3>3
    <2> HIDE DEF parts, message, m, k, n
    <2>6. /\ Complete(Join(parts)) /\ Valid(Join(parts).destination)
          /\ Join(parts).data[1].packet = k
          /\ \A q \in Packets : Wire(q).data[1].packet = k => Wire(q) \in parts
      <3>1. \A l \in parts : \E q \in Packets :
              l = Wire(q) /\ l.data[1].packet = k /\ l.fragmentTotal = n
        BY <2>5 DEF Fits
      <3> QED BY <3>1, <2>1, <2>2, <2>3, JoinIsWhole
    <2>7. ASSUME NEW q \in Packets, Wire(q).data[1].packet = k
          PROVE  q \in handed \cup {r}
      <3>1. PICK s \in handed \cup {r} : Wire(q) = Wire(s)
        BY <2>5, <2>6, <2>7
      <3>2. s \in Packets
        BY DEF Fits
      <3>3. q = s
        BY <3>1, <3>2 DEF Together
      <3> QED BY <3>3
    <2> QED BY <2>2, <2>6, <2>7 DEF Delivered, message, m, k
  <1> QED BY <1>1, <1>2

-----------------------------------------------------------------------------
(* From the streams to the relay: what is kept of packets, and what is     *)
(* queued.                                                                 *)

(* Which requests get as far as a defragger, and which association they    *)
(* find there: one of their own number.                                    *)
Reading ==
  \A r \in Ids : pc[r] \in {"lookup", "check", "store", "mark", "first", "input"} =>
    r \in Packets /\ Decodes(script[r].wire, script[r].via)
Numbered ==
  /\ \A r \in Ids : found[r] # None => Session(found[r]) = Session(r)
  /\ \A n \in Sessions : udpConnMap[n] # None => Session(udpConnMap[n]) = n

(* The packets that were handed to an association, or cannot be any more.  *)
Handed(a) == {q \in Packets : pc[q] = "done" /\ Session(q) = Session(a)}

Gathered == DOMAIN items = Ids /\ \A a \in Ids : Collected(items[a], Handed(a))

Reused(a) == \E r, q \in Packets : Session(r) = Session(a) /\ Reuses(r, q)

(* Each message of a queue is a packet of which no fragment is to come.    *)
Once(a) ==
  \A i \in DOMAIN data[a] :
    /\ Delivered(data[a][i], Handed(a))
    /\ \A j \in DOMAIN data[a] : data[a][j].data[1].packet = data[a][i].data[1].packet => j = i

WInv == Reading /\ Numbered /\ Gathered /\ \A a \in Ids : Reused(a) \/ Once(a)

(* Nothing is read, kept or queued at first.                               *)
LEMMA InitWInv == ASSUME Init PROVE WInv
  <1> USE DEF Init
  <1>1. Reading /\ Numbered
    BY DEF Reading, Numbered
  <1>2. Gathered
    <2>1. DOMAIN NoItems = {}
      BY DEF NoItems
    <2> QED BY <2>1 DEF Gathered, Collected
  <1>3. \A a \in Ids : Once(a)
    <2>1. DOMAIN <<>> = {}
      OBVIOUS
    <2> QED BY <2>1 DEF Once
  <1> QED BY <1>1, <1>2, <1>3 DEF WInv

(* Reading and Numbered, action by action.                                 *)
LEMMA ConnectionReads ==
  ASSUME TInv, Reading, Numbered,
         \/ Listen \/ Accept \/ CloseListener \/ PeerLeaves \/ ReceiveFails \/ AuthTimeout
         \/ UNCHANGED vars
  PROVE  /\ Reading' /\ Numbered'
         /\ UNCHANGED <<script, items, data, pc>>
  <1> USE DEF Reading, Numbered, Packets, Kind, Session, queueVars, vars
  <1>1. CASE Listen         BY <1>1 DEF Listen
  <1>2. CASE Accept         BY <1>2 DEF Accept
  <1>3. CASE CloseListener  BY <1>3 DEF CloseListener
  <1>4. CASE PeerLeaves     BY <1>4 DEF PeerLeaves
  <1>5. CASE ReceiveFails   BY <1>5 DEF ReceiveFails
  <1>6. CASE AuthTimeout    BY <1>6 DEF AuthTimeout
  <1>7. CASE UNCHANGED vars BY <1>7
  <1> QED BY <1>1, <1>2, <1>3, <1>4, <1>5, <1>6, <1>7

(* Steps of a request that look nothing up and hand nothing on.            *)
LEMMA RequestReads ==
  ASSUME TInv, Reading, Numbered, NEW r \in Ids,
         Arrives(r) \/ Parsed(r) \/ Authenticate(r) \/ Malformed(r) \/ Refused(r) \/ StreamEnds(r)
         \/ Admitted(r) \/ Check(r) \/ Mark(r) \/ DissociateCancels(r)
  PROVE  /\ Reading' /\ Numbered' /\ UNCHANGED <<script, items, data>>
         /\ \A q \in Ids : pc[q] = "done" => pc'[q] = "done"
  <1>0. DOMAIN pc = Ids
    BY DEF TInv, TypeOK
  <1> USE <1>0 DEF Reading, Numbered, Packets, Kind, Session, queueVars, goto
  <1>1. CASE Arrives(r)            BY <1>1 DEF Arrives
  <1>2. CASE Parsed(r)             BY <1>2 DEF Parsed
  <1>3. CASE Authenticate(r)       BY <1>3 DEF Authenticate
  <1>4. CASE Malformed(r)          BY <1>4 DEF Malformed
  <1>5. CASE Refused(r)            BY <1>5 DEF Refused
  <1>6. CASE StreamEnds(r)         BY <1>6 DEF StreamEnds
  <1>7. CASE Admitted(r)           BY <1>7 DEF Admitted
  <1>8. CASE Check(r)              BY <1>8 DEF Check
  <1>9. CASE Mark(r)               BY <1>9 DEF Mark
  <1>10. CASE DissociateCancels(r) BY <1>10 DEF DissociateCancels
  <1> QED BY <1>1, <1>2, <1>3, <1>4, <1>5, <1>6, <1>7, <1>8, <1>9, <1>10

(* Steps that look up, register or remove an association.                  *)
LEMMA AssociationReads ==
  ASSUME TInv, Reading, Numbered, NEW r \in Ids,
         Lookup(r) \/ Store(r) \/ DissociateDeletes(r) \/ Relay(r)
  PROVE  /\ Reading' /\ Numbered' /\ UNCHANGED <<script, items, data>>
         /\ \A q \in Ids : pc[q] = "done" => pc'[q] = "done"
  <1>0. /\ DOMAIN pc = Ids /\ DOMAIN found = Ids /\ DOMAIN udpConnMap = Sessions
        /\ \A q \in Ids : Session(q) \in Sessions
    BY TypesOfRequests DEF TInv, TypeOK
  <1> USE <1>0 DEF Packets, Kind, queueVars, goto
  <1>1. CASE Lookup(r)
    <2>1. Reading' /\ UNCHANGED <<script, items, data, udpConnMap>>
          /\ \A q \in Ids : pc[q] = "done" => pc'[q] = "done"
      BY <1>1 DEF Lookup, Reading
    <2>2. found' = [found EXCEPT ![r] = udpConnMap[Session(r)]]
      BY <1>1 DEF Lookup
    <2>3. Numbered'
      BY <2>1, <2>2 DEF Numbered, Session
    <2> QED BY <2>1, <2>3
  <1>2. CASE Store(r)
    <2>1. Reading' /\ UNCHANGED <<script, items, data>>
          /\ \A q \in Ids : pc[q] = "done" => pc'[q] = "done"
      BY <1>2 DEF Store, Reading
    <2>2. CASE Free(Session(r))
      <3>1. /\ udpConnMap' = [udpConnMap EXCEPT ![Session(r)] = r]
            /\ found' = [found EXCEPT ![r] = r]
        BY <1>2, <2>2 DEF Store
      <3>2. Numbered'
        BY <2>1, <3>1 DEF Numbered, Session
      <3> QED BY <2>1, <3>2
    <2>3. CASE ~Free(Session(r))
      <3>1. /\ udpConnMap' = udpConnMap
            /\ found' = [found EXCEPT ![r] = udpConnMap[Session(r)]]
        BY <1>2, <2>3 DEF Store
      <3>2. Numbered'
        BY <2>1, <3>1 DEF Numbered, Session
      <3> QED BY <2>1, <3>2
    <2> QED BY <2>2, <2>3
  <1>3. CASE DissociateDeletes(r)
    BY <1>3 DEF DissociateDeletes, DeleteNumber, Reading, Numbered, Session
  <1>4. CASE Relay(r)
    <2> USE DEF Reading, Numbered, Session
    <2>1. CASE RelayReads(r)     BY <2>1 DEF RelayReads
    <2>2. CASE RelayWrites(r)    BY <2>2 DEF RelayWrites
    <2>3. CASE RelayCloses(r)    BY <2>3 DEF RelayCloses
    <2>4. CASE RelayDestroys(r)  BY <2>4 DEF RelayDestroys, DeleteNumber
    <2> QED BY <1>4, <2>1, <2>2, <2>3, <2>4 DEF Relay
  <1> QED BY <1>1, <1>2, <1>3, <1>4

(* Where no packet is handed on, what was holds on.                        *)
LEMMA QuietWInv ==
  ASSUME WInv, Reading', Numbered', UNCHANGED <<script, items, data>>,
         \A q \in Ids : pc[q] = "done" => pc'[q] = "done"
  PROVE  WInv'
  <1>1. \A a : Handed(a) \subseteq Handed(a)'
    BY DEF Handed, Packets, Kind, Session
  <1>2. Gathered'
    <2>1. ASSUME NEW a \in Ids PROVE Collected(items[a], Handed(a))'
      <3>1. Collected(items[a], Handed(a))
        BY DEF WInv, Gathered
      <3> QED BY <3>1, <1>1 DEF Collected, Wire
    <2> QED BY <2>1 DEF WInv, Gathered
  <1>3. ASSUME NEW a \in Ids PROVE Reused(a)' \/ Once(a)'
    <2>1. CASE Reused(a)
      BY <2>1 DEF Reused, Packets, Kind, Session, Reuses, Wire
    <2>2. CASE Once(a)
      <3>1. ASSUME NEW i \in DOMAIN data[a] PROVE Delivered(data[a][i], Handed(a))'
        <4>1. Delivered(data[a][i], Handed(a))
          BY <2>2, <3>1 DEF Once
        <4>2. Complete(data[a][i])'
          BY <4>1 DEF Delivered, Complete, Parts, Packets, Kind, Wire
        <4> QED BY <4>1, <4>2, <1>1 DEF Delivered, Packets, Kind, Wire
      <3> QED BY <2>2, <3>1 DEF Once
    <2> QED BY <2>1, <2>2 DEF WInv
  <1> QED BY <1>2, <1>3 DEF WInv

(* A packet is handed to the association its request found.                *)
LEMMA InputWInv ==
  ASSUME TInv, Alone, Together, WInv, NEW r \in Ids, Input(r)
  PROVE  WInv'
  <1>0. PICK a \in Ids : a = found[r] /\ a # None
    <2>1. found[r] \in made /\ None \notin made /\ made \subseteq Ids
      BY NoneAssumption DEF TInv, TypeOK, Here, Input
    <2> QED BY <2>1
  <1> DEFINE w == Wire(r)
             fed == Feed(items[a], w)
             handed == Handed(a)
  <1>1. /\ Session(a) = Session(r) /\ r \in Packets
        /\ Message(r) = w /\ pc[r] # "done"
    <2>1. pc[r] \in {"first", "input"}
      BY DEF Input
    <2>3. r \in Packets /\ Decodes(script[r].wire, script[r].via)
      BY <2>1 DEF WInv, Reading
    <2>4. Message(r) = w
      BY <2>3 DEF Alone
    <2> QED BY <2>1, <2>3, <2>4, <1>0 DEF WInv, Numbered
  <1>2. /\ DOMAIN pc = Ids /\ DOMAIN items = Ids /\ DOMAIN data = Ids
        /\ \E S : data[a] \in Seq(S)
    BY DEF TInv, TypeOK, Here, WInv, Gathered
  <1>3. /\ pc' = [pc EXCEPT ![r] = "done"]
        /\ items' = [items EXCEPT ![a] = fed.items]
        /\ data'[a] \in {data[a], data[a] \o fed.out}
        /\ \A b \in Ids : b # a => data'[b] = data[b]
        /\ UNCHANGED <<script, found, udpConnMap>>
    <2>1. data' = [data EXCEPT ![a] = IF Len(data[a]) - read[a] < QueueSize
                                      THEN data[a] \o fed.out ELSE data[a]]
      BY <1>0, <1>1, <1>2 DEF Input
    <2> QED BY <2>1, <1>0, <1>1, <1>2 DEF Input, goto
  <1> HIDE DEF fed, w, handed
  <1>4. Reading' /\ Numbered'
    BY <1>2, <1>3 DEF WInv, Reading, Numbered, Packets, Kind, Session
  <1>5. /\ \A b : Handed(b) \subseteq Handed(b)'
        /\ Handed(a)' = handed \cup {r}
        /\ handed \in SUBSET Packets
        /\ \A q \in handed : Session(q) = Session(r) /\ pc[q] = "done"
    BY <1>1, <1>2, <1>3 DEF Handed, Packets, Kind, Session, handed
  <1>6. Collected(items[a], handed)
    BY <1>1 DEF WInv, Gathered, handed
  <1>7. Gathered'
    <2>1. Collected(fed.items, handed \cup {r})
      BY <1>1, <1>5, <1>6, FeedCollects DEF fed, w
    <2>2. ASSUME NEW b \in Ids PROVE Collected(items[b], Handed(b))'
      <3>1. CASE b = a
        <4>1. items'[b] = fed.items
          BY <3>1, <1>1, <1>2, <1>3
        <4> QED BY <4>1, <2>1, <3>1, <1>3, <1>5 DEF Collected, Wire
      <3>2. CASE b # a
        <4>1. items'[b] = items[b] /\ Collected(items[b], Handed(b))
          BY <3>2, <1>2, <1>3 DEF WInv, Gathered
        <4> QED BY <4>1, <1>3, <1>5 DEF Collected, Wire
      <3> QED BY <3>1, <3>2
    <2>3. DOMAIN items' = Ids
      BY <1>2, <1>3
    <2> QED BY <2>2, <2>3 DEF Gathered
  <1>8. ASSUME NEW m, NEW b, NEW D, D \subseteq Handed(b)', Delivered(m, D)
        PROVE  /\ Complete(m)' /\ Valid(m.destination)
               /\ \A q \in Packets' : Wire(q)'.data[1].packet = m.data[1].packet => q \in Handed(b)'
    BY <1>3, <1>5, <1>8 DEF Delivered, Complete, Parts, Packets, Kind, Wire
  <1>9. ASSUME NEW b \in Ids, Once(b), data'[b] = data[b] PROVE Once(b)'
    <2>1. ASSUME NEW i \in DOMAIN data'[b] PROVE Delivered(data[b][i], Handed(b))'
      <3>1. Delivered(data[b][i], Handed(b)) /\ data'[b][i] = data[b][i]
        BY <1>9, <2>1 DEF Once
      <3> QED BY <3>1, <1>5, <1>8 DEF Delivered
    <2> QED BY <1>9, <2>1 DEF Once
  <1>10. ASSUME Once(a), ~Reused(a), NEW x, fed.out = <<x>>,
                data'[a] = data[a] \o <<x>>
         PROVE  Once(a)'
    <2>1. Fits(r, handed)
      BY <1>1, <1>5, <1>10 DEF Reused, Fits
    <2>2. Delivered(x, handed \cup {r}) /\ x.data[1].packet = w.data[1].packet
      <3>1. Feed(items[a], Wire(r)).out = <<x>>
        BY <1>10 DEF fed, w
      <3>2. Delivered(x, handed \cup {r}) /\ x.data[1].packet = Wire(r).data[1].packet
        BY <1>1, <1>6, <2>1, <3>1, FeedDelivers
      <3> QED BY <3>2 DEF w
    <2>3. PICK S : data[a] \in Seq(S)
      BY <1>2
    <2>0. PICK e : e = Len(data[a]) + 1
      OBVIOUS
    <2>4. /\ data'[a] = data[a] \o <<x>>
          /\ DOMAIN data'[a] = DOMAIN data[a] \cup {e} /\ e \notin DOMAIN data[a]
          /\ data'[a][e] = x /\ \A i \in DOMAIN data[a] : data'[a][i] = data[a][i]
      <3>1. data'[a] = data[a] \o <<x>>
        BY <1>10
      <3>2. LET s == data[a] \o <<x>> IN
            /\ DOMAIN s = DOMAIN data[a] \cup {e} /\ e \notin DOMAIN data[a]
            /\ s[e] = x /\ \A i \in DOMAIN data[a] : s[i] = data[a][i]
        BY <2>0, <2>3
      <3> QED BY <3>1, <3>2
    <2>5. Delivered(data[a][e], Handed(a))'
      BY <2>2, <2>4, <1>5, <1>8 DEF Delivered
    <2>6. ASSUME NEW i \in DOMAIN data[a] PROVE Delivered(data[a][i], Handed(a))'
      <3>1. Delivered(data[a][i], Handed(a))
        BY <1>10, <2>6 DEF Once
      <3> QED BY <3>1, <1>5, <1>8, <2>4, <2>6 DEF Delivered
    <2>7. ASSUME NEW i \in DOMAIN data[a]
          PROVE  data[a][i].data[1].packet # x.data[1].packet
      <3>1. Delivered(data[a][i], handed)
        BY <1>10, <2>7 DEF Once, handed
      <3> QED BY <3>1, <2>2, <1>1, <1>5 DEF Delivered, w
    <2>8. \A i, j \in DOMAIN data'[a] :
            data'[a][j].data[1].packet = data'[a][i].data[1].packet => j = i
      <3> SUFFICES ASSUME NEW i \in DOMAIN data'[a], NEW j \in DOMAIN data'[a],
                          data'[a][j].data[1].packet = data'[a][i].data[1].packet
                   PROVE  j = i
        OBVIOUS
      <3>1. CASE i = e
        <4>1. j \in DOMAIN data[a] => FALSE
          BY <2>4, <2>7, <3>1
        <4> QED BY <4>1, <2>4, <3>1
      <3>2. CASE j = e
        <4>1. i \in DOMAIN data[a] => FALSE
          BY <2>4, <2>7, <3>2
        <4> QED BY <4>1, <2>4, <3>2
      <3>3. CASE i # e /\ j # e
        BY <3>3, <2>4, <1>10 DEF Once
      <3> QED BY <3>1, <3>2, <3>3
    <2> QED BY <2>4, <2>5, <2>6, <2>8 DEF Once
  <1>11. ASSUME NEW b \in Ids PROVE Reused(b)' \/ Once(b)'
    <2>1. CASE Reused(b)
      BY <2>1, <1>3 DEF Reused, Packets, Kind, Session, Reuses, Wire
    <2>2. CASE ~Reused(b) /\ data'[b] = data[b]
      BY <2>2, <1>9 DEF WInv
    <2>3. CASE ~Reused(b) /\ data'[b] # data[b]
      <3>1. b = a /\ data'[a] = data[a] \o fed.out
        BY <2>3, <1>2, <1>3
      <3>2. fed.out # <<>>
        <4>1. \A S : \A s \in Seq(S) : s \o <<>> = s
          OBVIOUS
        <4> QED BY <4>1, <3>1, <2>3, <1>1, <1>2
      <3>3. PICK x : fed.out = <<x>>
        BY <3>2, FeedReturnsOne DEF fed
      <3>4. Once(a) /\ ~Reused(a)
        BY <3>1, <2>3, <1>1 DEF WInv
      <3> QED BY <3>1, <3>3, <3>4, <1>10
    <2> QED BY <2>1, <2>2, <2>3
  <1> QED BY <1>4, <1>7, <1>11 DEF WInv

(* Every step keeps what is known of the packets.                          *)
LEMMA NextWInv ==
  ASSUME TInv, Alone, Together, WInv, [Next]_vars
  PROVE  WInv'
  <1>0. Reading /\ Numbered
    BY DEF WInv
  <1>1. CASE \/ Listen \/ Accept \/ CloseListener \/ PeerLeaves \/ ReceiveFails \/ AuthTimeout
             \/ UNCHANGED vars
    BY <1>0, <1>1, ConnectionReads, QuietWInv
  <1>2. ASSUME NEW r \in Ids,
               Arrives(r) \/ Parsed(r) \/ Authenticate(r) \/ Malformed(r) \/ Refused(r)
               \/ StreamEnds(r) \/ Admitted(r) \/ Check(r) \/ Mark(r) \/ DissociateCancels(r)
        PROVE  WInv'
    BY <1>0, <1>2, RequestReads, QuietWInv
  <1>3. ASSUME NEW r \in Ids, Lookup(r) \/ Store(r) \/ DissociateDeletes(r) \/ Relay(r)
        PROVE  WInv'
    BY <1>0, <1>3, AssociationReads, QuietWInv
  <1>4. ASSUME NEW r \in Ids, Input(r) PROVE WInv'
    BY <1>4, InputWInv
  <1> QED BY <1>1, <1>2, <1>3, <1>4 DEF Next, Handle

AllHonest == \A s \in Scripts : \E origin : Honest(s, origin)

(* What one client of several sends.                                       *)
LEMMA HonestScript ==
  ASSUME AllHonest, TypeOK
  PROVE  Alone /\ Together
  BY HonestAlone, HonestTogether DEF TypeOK, AllHonest

(* The invariant says that the queues hold whole packets.                  *)
LEMMA WholeFromWInv == ASSUME TInv, WInv PROVE Whole
  <1> SUFFICES ASSUME NEW a \in made, NEW i \in DOMAIN data[a]
               PROVE  LET m == data[a][i] IN
      \/ /\ Complete(m) /\ Valid(m.destination)
         /\ \A j \in DOMAIN data[a] : data[a][j].data[1].packet = m.data[1].packet => j = i
      \/ \E r, q \in Packets : Session(r) = Session(a) /\ Reuses(r, q)
    BY DEF Whole
  <1>1. a \in Ids
    BY DEF TInv, TypeOK
  <1>2. Reused(a) \/ Once(a)
    BY <1>1 DEF WInv
  <1> QED BY <1>2 DEF Reused, Once, Delivered

(* inputPacket and feed: whatever order the fragments of honest clients    *)
(* arrive in, whatever is lost, cancelled or registered meanwhile, each    *)
(* message a relay reads is one packet of the client, complete, in order   *)
(* and once, unless the client used a packet number again for as many      *)
(* fragments.                                                              *)
THEOREM MessagesAreWhole == ASSUME AllHonest PROVE Spec => []Whole
  <1>1. Init => TInv /\ WInv
    BY InitTInv, InitWInv
  <1>2. TInv /\ WInv /\ [Next]_vars => TInv' /\ WInv'
    <2>1. TInv => Alone /\ Together
      BY HonestScript DEF TInv
    <2> QED BY <2>1, NextTInv, NextWInv
  <1>3. TInv /\ WInv => Whole
    BY WholeFromWInv
  <1> QED BY <1>1, <1>2, <1>3, PTL DEF Spec

-----------------------------------------------------------------------------
(* A peer that gets all that was sent for an answer.                       *)

(* Induction up to a number.                                               *)
LEMMA UpTo ==
  ASSUME NEW n \in Nat, NEW S \in SUBSET (0..n), 0 \in S, \A i \in 1..n : i - 1 \in S => i \in S
  PROVE  S = 0..n
  <1> DEFINE T == {i \in Nat : i <= n => i \in S}
  <1>1. \A i \in T : i + 1 \in T
    <2> SUFFICES ASSUME NEW i \in T, i + 1 <= n PROVE i + 1 \in S
      OBVIOUS
    <2>1. i \in S /\ i + 1 \in 1..n /\ (i + 1) - 1 = i
      OBVIOUS
    <2> QED BY <2>1
  <1>2. T = Nat
    <2> HIDE DEF T
    <2>1. 0 \in T /\ T \in SUBSET Nat BY DEF T
    <2> QED BY <2>1, <1>1, Induction
  <1>3. ASSUME NEW i \in 0..n PROVE i \in S
    <2>1. i \in T
      BY <1>2
    <2> QED BY <2>1
  <1> QED BY <1>3

(* A packet in pieces, in the order they were cut.                         *)
Sliced(ms, n, p, size) ==
  /\ n \in 2..255 /\ DOMAIN ms = 1..n /\ size \in Nat \ {0}
  /\ \A i \in 1..n :
       /\ ms[i].packetID = p /\ ms[i].fragmentTotal = n /\ ms[i].fragmentID = i - 1
       /\ DOMAIN ms[i] = MessageFields
       /\ ms[i].data[1].from \in Int /\ ms[i].data[1].to \in Int
       /\ i = 1 => ms[i].data[1].from = 0
       /\ i > 1 => ms[i].data[1].from = ms[i - 1].data[1].to
       /\ i = n => ms[i].data[1].to = size

Leading(ms, i) == {ms[j] : j \in 1..i}

(* The first pieces of a packet are one more with each.                    *)
LEMMA LeadingGrow ==
  ASSUME NEW ms, NEW n, NEW p, NEW size, Sliced(ms, n, p, size)
  PROVE  \A i \in 0..n :
           /\ IsFiniteSet(Leading(ms, i)) /\ Cardinality(Leading(ms, i)) = i
           /\ i > 0 => /\ Leading(ms, i) = Leading(ms, i - 1) \cup {ms[i]}
                       /\ \A m \in Leading(ms, i - 1) : m.fragmentID # i - 1
  <1> DEFINE Good(i) == IsFiniteSet(Leading(ms, i)) /\ Cardinality(Leading(ms, i)) = i
             S == {i \in 0..n : Good(i)}
  <1>0. n \in Nat
    <2>1. n \in 2..255 BY DEF Sliced
    <2> QED BY <2>1
  <1>1. 0 \in S
    <2>1. Leading(ms, 0) = {}
      BY DEF Leading
    <2> QED BY <2>1, <1>0, FS_EmptySet
  <1>2. ASSUME NEW i \in 1..n
        PROVE  /\ Leading(ms, i) = Leading(ms, i - 1) \cup {ms[i]}
               /\ \A m \in Leading(ms, i - 1) : m.fragmentID # i - 1
    <2>1. 1..i = (1..i-1) \cup {i}
      BY <1>0
    <2>2. Leading(ms, i) = Leading(ms, i - 1) \cup {ms[i]}
      BY <2>1 DEF Leading
    <2>3. ASSUME NEW j \in 1..i-1 PROVE ms[j].fragmentID # i - 1
      <3>1. j \in 1..n /\ j - 1 # i - 1
        BY <1>0
      <3> QED BY <3>1 DEF Sliced
    <2> QED BY <2>2, <2>3 DEF Leading
  <1>3. ASSUME NEW i \in 1..n, i - 1 \in S PROVE i \in S
    <2>1. Good(i - 1) BY <1>3
    <2>2. ms[i].fragmentID = i - 1
      BY DEF Sliced
    <2>3. ms[i] \notin Leading(ms, i - 1)
      BY <2>2, <1>2
    <2>4. IsFiniteSet(Leading(ms, i)) /\ Cardinality(Leading(ms, i)) = (i - 1) + 1
      <3> DEFINE before == Leading(ms, i - 1)
      <3>1. IsFiniteSet(before) /\ Cardinality(before) = i - 1 /\ ms[i] \notin before
        BY <2>1, <2>3
      <3>2. Leading(ms, i) = before \cup {ms[i]}
        BY <1>2
      <3> HIDE DEF before, Good, S
      <3>3. IsFiniteSet(before \cup {ms[i]}) /\ Cardinality(before \cup {ms[i]}) = Cardinality(before) + 1
        BY ONLY <3>1, FS_AddElement
      <3> QED BY ONLY <3>1, <3>2, <3>3
    <2>5. (i - 1) + 1 = i /\ i \in 0..n
      BY <1>0
    <2> QED BY <2>4, <2>5
  <1>4. S = 0..n
    <2>1. S \in SUBSET (0..n) OBVIOUS
    <2> HIDE DEF S
    <2> QED BY <2>1, <1>0, <1>1, <1>3, UpTo
  <1>5. \A i \in 0..n : i > 0 => i \in 1..n
    BY <1>0
  <1>6. \A i \in 0..n : Good(i)
    BY <1>4
  <1> HIDE DEF S
  <1> QED BY <1>2, <1>5, <1>6

(* All of the pieces joined are the packet.                                *)
Entire(m, p, size) ==
  /\ Size(m.data) = size /\ m.packetID = p
  /\ \A i \in 2..Len(m.data) : m.data[i].from = m.data[i - 1].to

(* All of the pieces joined are the packet, with its size and number.      *)
LEMMA JoinSliced ==
  ASSUME NEW ms, NEW n, NEW p, NEW size, Sliced(ms, n, p, size)
  PROVE  Entire(Join(Leading(ms, n)), p, size)
  <1> DEFINE parts == Leading(ms, n)
             first == CHOOSE m \in parts : m.fragmentID = 0
             c == Cardinality(parts)
             piece(i) == CHOOSE m \in parts : m.fragmentID = i - 1
             ranges == [i \in 1..c |-> piece(i).data[1]]
             msg == Join(parts)
  <1>0. n \in Nat /\ n >= 2 /\ 1 \in 1..n /\ n \in 0..n /\ n \in 1..n
    BY DEF Sliced
  <1>1. c = n
    BY <1>0, LeadingGrow
  <1>2. ASSUME NEW i \in 1..n, NEW m \in parts, m.fragmentID = i - 1
        PROVE  m = ms[i]
    <2>1. PICK j \in 1..n : m = ms[j]
      BY <1>2 DEF Leading
    <2>2. j - 1 = i - 1
      BY <1>2, <2>1 DEF Sliced
    <2>3. j = i
      BY <2>2, <1>0
    <2> QED BY <2>1, <2>3
  <1>3. \A i \in 1..n : ms[i] \in parts /\ ms[i].fragmentID = i - 1
    BY DEF Leading, Sliced
  <1>4. \A i \in 1..n : piece(i) = ms[i]
    <2> HIDE DEF parts
    <2> QED BY <1>2, <1>3
  <1>5. first = ms[1]
    <2>1. ms[1] \in parts /\ ms[1].fragmentID = 0 /\ \A m \in parts : m.fragmentID = 0 => m = ms[1]
      <3>1. 1 - 1 = 0 OBVIOUS
      <3> QED BY <3>1, <1>0, <1>2, <1>3
    <2> HIDE DEF parts
    <2> QED BY <2>1
  <1>6. msg = [first EXCEPT !.data = ranges]
    BY DEF Join
  <1> HIDE DEF parts, first, piece, msg, c
  <1>7. msg.data = ranges /\ msg.packetID = p
    <2>1. DOMAIN ms[1] = MessageFields /\ ms[1].packetID = p
      BY <1>0 DEF Sliced
    <2> HIDE DEF ranges
    <2> QED BY <2>1, <1>5, <1>6 DEF MessageFields
  <1>8. DOMAIN msg.data = 1..n /\ Len(msg.data) = n /\ \A i \in 1..n : msg.data[i] = ms[i].data[1]
    BY <1>0, <1>1, <1>4, <1>7
  <1> HIDE DEF ranges
  <1>9. PICK r : /\ r[0] = 0 /\ (\A i \in 1..n : r[i] = AddRange(r[i-1], msg.data[i]))
                 /\ r[n] = Size(msg.data)
    BY <1>0, <1>8, SizeSteps
  <1> DEFINE S == {i \in 0..n : i > 0 => r[i] = msg.data[i].to}
  <1>10. ASSUME NEW i \in 1..n, i - 1 \in S PROVE i \in S
    <2>1. r[i] = r[i - 1] + (msg.data[i].to - msg.data[i].from)
      BY <1>9 DEF AddRange
    <2>2. msg.data[i].to \in Int /\ msg.data[i].from \in Int
      BY <1>8 DEF Sliced
    <2>3. msg.data[i].from = r[i - 1]
      <3>1. CASE i = 1
        BY <3>1, <1>8, <1>9 DEF Sliced
      <3>2. CASE i > 1
        <4>1. i - 1 \in 1..n /\ i - 1 > 0
          BY <3>2, <1>0
        <4>2. msg.data[i].from = msg.data[i - 1].to
          BY <3>2, <4>1, <1>8 DEF Sliced
        <4> QED BY <4>1, <4>2, <1>10
      <3> QED BY <3>1, <3>2
    <2>4. r[i] = msg.data[i].to
      BY <2>1, <2>2, <2>3
    <2> QED BY <2>4, <1>0
  <1>11. S = 0..n
    <2>1. S \in SUBSET (0..n) /\ 0 \in S
      BY <1>0
    <2> HIDE DEF S
    <2> QED BY <2>1, <1>0, <1>10, UpTo
  <1>12. Size(msg.data) = size
    <2>1. n \in S /\ n > 0
      BY <1>0, <1>11
    <2>2. msg.data[n].to = size
      BY <1>0, <1>8 DEF Sliced
    <2> QED BY <2>1, <2>2, <1>9
  <1>13. \A i \in 2..n : msg.data[i].from = msg.data[i - 1].to
    <2> TAKE i \in 2..n
    <2>1. i \in 1..n /\ i - 1 \in 1..n /\ i > 1
      BY <1>0
    <2> QED BY <2>1, <1>8 DEF Sliced
  <1> QED BY <1>7, <1>8, <1>12, <1>13 DEF Entire, msg, parts

(* What a defragger holds after the first pieces of a packet.              *)
Holds(p, n, parts) == [q \in {p} |-> [total |-> n, parts |-> parts]]
After(ms, n, p, i) ==
  [items |-> IF i = 0 THEN NoItems ELSE Holds(p, n, Leading(ms, i)), out |-> <<>>]

(* feed keeps the pieces until the last, and then returns them joined.     *)
LEMMA FeedSlice ==
  ASSUME NEW ms, NEW n, NEW p, NEW size, Sliced(ms, n, p, size), NEW i \in 1..n
  PROVE  LET fed == Feed(After(ms, n, p, i - 1).items, ms[i]) IN
         /\ i < n => fed.items = After(ms, n, p, i).items /\ fed.out = <<>>
         /\ i = n => fed.out = <<Join(Leading(ms, n))>>
  <1> DEFINE its == After(ms, n, p, i - 1).items
             m == ms[i]
             kept == Kept(its, m)
             parts == kept \cup {m}
  <1>0. /\ n \in Nat /\ n > 1 /\ i \in Nat /\ i > 0 /\ i - 1 \in 0..n /\ i \in 0..n /\ n \in 0..n
        /\ size # 0
    <2>1. n \in 2..255 /\ size # 0 BY DEF Sliced
    <2> QED BY <2>1
  <1>1. m.packetID = p /\ m.fragmentTotal = n /\ m.fragmentID = i - 1
    BY DEF Sliced
  <1>2. kept = Leading(ms, i - 1) /\ DOMAIN its \cup {p} = {p}
    <2>1. CASE i = 1
      <3>1. its = <<>> /\ DOMAIN its = {}
        BY <2>1 DEF After, NoItems
      <3>2. Leading(ms, i - 1) = {}
        BY <2>1 DEF Leading
      <3> HIDE DEF its, m
      <3> QED BY <3>1, <3>2, <1>1 DEF Kept
    <2>2. CASE i # 1
      <3>1. its = Holds(p, n, Leading(ms, i - 1))
        BY <2>2, <1>0 DEF After
      <3>2. DOMAIN its = {p} /\ its[p].total = n /\ its[p].parts = Leading(ms, i - 1)
        <4> HIDE DEF its
        <4> QED BY <3>1 DEF Holds
      <3> HIDE DEF its, m
      <3> QED BY <3>2, <1>1 DEF Kept
    <2> QED BY <2>1, <2>2
  <1>3. /\ parts = Leading(ms, i) /\ Cardinality(parts) = i
        /\ \A k \in kept : k.fragmentID # i - 1
    <2>1. /\ Cardinality(Leading(ms, i)) = i /\ Leading(ms, i) = Leading(ms, i - 1) \cup {ms[i]}
          /\ \A k \in Leading(ms, i - 1) : k.fragmentID # i - 1
      BY <1>0, LeadingGrow
    <2>2. parts = kept \cup {ms[i]}
      OBVIOUS
    <2> HIDE DEF kept, parts
    <2> QED BY <2>1, <2>2, <1>2
  <1> DEFINE message == Join(parts)
             item == [total |-> n, parts |-> parts]
             more == [q \in {p} |-> item]
  <1> HIDE DEF its, m, message, parts, kept
  <1>4. CASE i < n
    <2>1. Feed(its, m) = [items |-> more, out |-> <<>>]
      <3>1. m.fragmentTotal > 1 /\ ~(m.fragmentID >= m.fragmentTotal)
            /\ ~(\E k \in kept : k.fragmentID = m.fragmentID) /\ Cardinality(parts) # n
        BY <1>0, <1>1, <1>3, <1>4
      <3> DEFINE now == [q \in DOMAIN its \cup {m.packetID} |->
                           IF q = m.packetID THEN [total |-> m.fragmentTotal, parts |-> parts] ELSE its[q]]
      <3>2. Feed(its, m) = [items |-> now, out |-> <<>>]
        BY <3>1, <1>0, <1>1 DEF Feed, parts, kept
      <3>3. now = more
        BY <1>1, <1>2
      <3> HIDE DEF now, more
      <3> QED BY <3>2, <3>3
    <2>2. After(ms, n, p, i).items = more
      BY <1>0, <1>3 DEF After, Holds
    <2> HIDE DEF more
    <2> QED BY <2>1, <2>2, <1>4 DEF its, m
  <1>5. CASE i = n
    <2>1. Size(message.data) # 0
      BY <1>0, <1>3, <1>5, JoinSliced DEF Entire, message
    <2>2. Feed(its, m).out = <<message>>
      <3>1. m.fragmentTotal > 1 /\ ~(m.fragmentID >= m.fragmentTotal)
            /\ ~(\E k \in kept : k.fragmentID = m.fragmentID) /\ Cardinality(parts) = n
        BY <1>0, <1>1, <1>3, <1>5
      <3> QED BY <3>1, <2>1, <1>0, <1>1 DEF Feed, parts, kept, message
    <2> QED BY <2>2, <1>3, <1>5 DEF message, its, m
  <1> QED BY <1>4, <1>5, <1>0

(* One message fed to a peer that has returned none.                       *)
LEMMA NextOut ==
  ASSUME NEW s, NEW m, NEW x, s.out = <<>>, Feed(s.items, m).out = <<x>>
  PROVE  FeedNext(s, m).out = <<x>>
  <1> DEFINE fed == Feed(s.items, m)
             y == s.out \o fed.out
  <1>1. y = <<x>>
    <2>1. <<x>> \in Seq({x}) OBVIOUS
    <2>2. <<>> \o <<x>> = <<x>> BY <2>1
    <2> HIDE DEF fed
    <2> QED BY <2>2 DEF fed
  <1>2. FeedNext(s, m) = [items |-> fed.items, out |-> y]
    BY DEF FeedNext
  <1> HIDE DEF fed, y
  <1> QED BY <1>1, <1>2

(* A peer that gets the pieces of a packet gets the packet.                *)
LEMMA ReceivedSlices ==
  ASSUME NEW ms, NEW n, NEW p, NEW size, Sliced(ms, n, p, size)
  PROVE  /\ Len(Received(ms)) = 1 /\ Entire(Received(ms)[1], p, size)
  <1>0. n \in Nat /\ n > 1 /\ n \in 1..n /\ n - 1 \in 0..n-1 /\ n - 1 \in Nat /\ DOMAIN ms = 1..n
    <2>1. n \in 2..255 /\ DOMAIN ms = 1..n BY DEF Sliced
    <2> QED BY <2>1
  <1>1. PICK r : /\ r[0] = NoFeed
                 /\ \A i \in 1..n : r[i] = FeedNext(r[i-1], ms[i])
                 /\ r[n].out = Received(ms)
    BY <1>0, FeedSteps
  <1>2. <<>> \o <<>> = <<>> /\ \A x : <<>> \o <<x>> = <<x>>
    <2>1. \A x : <<x>> \in Seq({x})
      OBVIOUS
    <2>2. <<>> \in Seq({}) OBVIOUS
    <2> QED BY <2>1, <2>2
  <1> DEFINE S == {i \in 0..n-1 : r[i] = After(ms, n, p, i)}
  <1>3. 0 \in S
    <2>1. r[0] = After(ms, n, p, 0)
      BY <1>1 DEF NoFeed, After
    <2> QED BY <2>1, <1>0
  <1>4. ASSUME NEW i \in 1..n-1, i - 1 \in S PROVE i \in S
    <2>1. i \in 1..n /\ i < n /\ i \in 0..n-1 /\ i - 1 \in 0..n-1
      BY <1>0
    <2>2. r[i] = FeedNext(After(ms, n, p, i - 1), ms[i])
      BY <1>1, <1>4, <2>1
    <2> DEFINE fed == Feed(After(ms, n, p, i - 1).items, ms[i])
    <2>3. fed.items = After(ms, n, p, i).items /\ fed.out = <<>>
      BY <2>1, FeedSlice
    <2>4. r[i] = [items |-> fed.items, out |-> After(ms, n, p, i - 1).out \o fed.out]
      BY <2>2 DEF FeedNext
    <2>5. After(ms, n, p, i - 1).out = <<>>
      BY DEF After
    <2> HIDE DEF fed
    <2>6. r[i] = [items |-> After(ms, n, p, i).items, out |-> <<>>]
      BY <2>3, <2>4, <2>5, <1>2
    <2>7. r[i] = After(ms, n, p, i)
      BY <2>6 DEF After
    <2> QED BY <2>7, <2>1
  <1>5. S = 0..n-1
    <2>1. S \in SUBSET (0..n-1)
      OBVIOUS
    <2> HIDE DEF S
    <2> QED BY <2>1, <1>0, <1>3, <1>4, UpTo
  <1>6. r[n - 1] = After(ms, n, p, n - 1)
    BY <1>5, <1>0
  <1>7. r[n].out = <<Join(Leading(ms, n))>>
    <2> DEFINE fed == Feed(After(ms, n, p, n - 1).items, ms[n])
    <2>1. fed.out = <<Join(Leading(ms, n))>>
      BY <1>0, FeedSlice
    <2>2. r[n] = FeedNext(After(ms, n, p, n - 1), ms[n])
      BY <1>0, <1>1, <1>6
    <2>3. After(ms, n, p, n - 1).out = <<>>
      BY DEF After
    <2> QED BY <2>1, <2>2, <2>3, NextOut
  <1>8. Received(ms) = <<Join(Leading(ms, n))>>
    BY <1>1, <1>7
  <1>9. Entire(Join(Leading(ms, n)), p, size)
    BY JoinSliced
  <1> HIDE DEF S
  <1> QED BY <1>8, <1>9

(* A peer that gets a packet in one piece gets it.                         *)
LEMMA ReceivedOne ==
  ASSUME NEW m, m.fragmentTotal = 1
  PROVE  Received(<<m>>) = <<m>>
  <1>1. DOMAIN <<m>> = 1..1 /\ <<m>>[1] = m /\ 1 \in 1..1 /\ 1 \in Nat /\ 1 - 1 = 0
    OBVIOUS
  <1>2. PICK r : /\ r[0] = NoFeed
                 /\ \A i \in 1..1 : r[i] = FeedNext(r[i-1], <<m>>[i])
                 /\ r[1].out = Received(<<m>>)
    BY ONLY <1>1, FeedSteps
  <1>3. r[1] = FeedNext(NoFeed, m)
    BY <1>1, <1>2
  <1>4. Feed(NoFeed.items, m).out = <<m>>
    BY DEF Feed
  <1>5. r[1].out = <<>> \o <<m>>
    BY <1>3, <1>4 DEF FeedNext, NoFeed
  <1>6. <<>> \o <<m>> = <<m>>
    <2>1. <<m>> \in Seq({m}) OBVIOUS
    <2> QED BY <2>1
  <1> QED BY <1>2, <1>5, <1>6

-----------------------------------------------------------------------------
(* Sending an answer (writePacketOrFragments), whole or cut, and again     *)
(* when it was too large.                                                  *)

(* A piece is as large as the room it was cut for, or smaller.             *)
LEMMA PieceSize ==
  ASSUME NEW s, NEW p, NEW d, NEW k, NEW size \in Nat, NEW u \in Nat \ {0}, NEW n \in Nat,
         n >= 2, (n - 1) * u < size, size <= n * u, Valid(d), d.name \in 0..255, NEW i \in 1..n
  PROVE  LET piece == Piece(s, p, d, k, size, u, n, i)
             h == HeaderSize(UdpMessage(s, p, d, k, size))
         IN /\ PackedSize(Pack(piece)) \in Int /\ PackedSize(Pack(piece)) <= h + u
            /\ i = 1 => PackedSize(Pack(piece)) = h + u
  <1> DEFINE piece == Piece(s, p, d, k, size, u, n, i)
             h == HeaderSize(UdpMessage(s, p, d, k, size))
             a == (i - 1) * u
             b == IF i < n THEN i * u ELSE size
  <1>1. piece.destination = Named(d, i) /\ piece.data = <<Bytes(k, a, b)>>
    BY DEF Piece, Built, Extent
  <1>2. a \in Int /\ b \in Int /\ b - a <= u /\ (i = 1 => b - a = u)
    <2>1. CASE i < n
      <3>1. i - 1 \in Nat /\ ((i - 1) + 1) * u = (i - 1) * u + u /\ (i - 1) * u \in Nat
        BY TimesMono
      <3>2. i * u = a + u /\ a \in Nat
        BY <3>1
      <3>3. b = a + u
        BY <3>2, <2>1
      <3> HIDE DEF a, b
      <3> QED BY <3>2, <3>3
    <2>2. CASE i = n
      <3>1. n - 1 \in Nat /\ ((n - 1) + 1) * u = (n - 1) * u + u /\ (n - 1) * u \in Nat
        BY TimesMono
      <3>2. n * u = a + u /\ a \in Nat /\ b = size /\ i # 1 /\ size <= n * u
        BY <3>1, <2>2
      <3> HIDE DEF a, b
      <3> QED BY <3>2
    <2> QED BY <2>1, <2>2
  <1> HIDE DEF a, b, piece
  <1>3. Size(piece.data) = b - a
    <2>1. Bytes(k, a, b).from = a /\ Bytes(k, a, b).to = b
      BY DEF Bytes
    <2> QED BY <2>1, <1>1, <1>2, SizeOfOne
  <1>4. DestinationLen(d) \in Nat /\ DestinationLen(d) >= 1 /\ h = 10 + DestinationLen(d)
    <2>1. UdpMessage(s, p, d, k, size).destination = d
      BY DEF UdpMessage
    <2>2. HeaderSize(UdpMessage(s, p, d, k, size)) \in 14..269
      BY HeaderIsPositive
    <2>3. DestinationLen(d) \in 4..259
      BY DEF DestinationLen, Valid
    <2> QED BY <2>1, <2>3 DEF HeaderSize
  <1>5. HeaderSize(piece) \in Nat /\ HeaderSize(piece) <= h /\ (i = 1 => HeaderSize(piece) = h)
    <2>1. DestinationLen(NoDestination) = 1
      BY DEF DestinationLen, NoDestination
    <2> HIDE DEF h
    <2>2. CASE i = 1 BY <2>2, <1>1, <1>4 DEF HeaderSize, Named
    <2>3. CASE i > 1 BY <2>1, <2>3, <1>1, <1>4 DEF HeaderSize, Named
    <2> QED BY <2>2, <2>3
  <1>6. PackedSize(Pack(piece)) = HeaderSize(piece) + Size(piece.data)
    BY DEF PackedSize, Pack
  <1> HIDE DEF h
  <1>7. h \in Nat BY <1>4
  <1> QED BY <1>2, <1>3, <1>5, <1>6, <1>7 DEF piece, h

(* How large a packet in one piece is.                                     *)
LEMMA WholeSize ==
  ASSUME NEW s, NEW p, NEW d, NEW k, NEW size \in Nat
  PROVE  LET m == UdpMessage(s, p, d, k, size) IN
         PackedSize(Pack(m)) = HeaderSize(m) + size
  <1> DEFINE m == UdpMessage(s, p, d, k, size)
  <1>1. m.data = <<Bytes(k, 0, size)>>
    BY DEF UdpMessage, Bytes
  <1>2. Size(m.data) = size
    BY <1>1, SizeOfOne DEF Bytes
  <1> HIDE DEF m
  <1>3. PackedSize(Pack(m)) = HeaderSize(m) + size
    BY <1>2 DEF PackedSize, Pack
  <1> QED BY <1>3 DEF m

(* Where nothing is refused everything is sent.                            *)
LEMMA AcceptedAll ==
  ASSUME NEW ms, NEW udpStream, NEW limit,
         \A i \in DOMAIN ms : ~TooLarge(ms[i], udpStream, limit)
  PROVE  Accepted(ms, udpStream, limit) = ms
  BY DEF Accepted

(* Where the first piece is refused nothing is sent.                       *)
LEMMA AcceptedNone ==
  ASSUME NEW S, NEW ms \in Seq(S), NEW udpStream, NEW limit,
         1 \in DOMAIN ms, TooLarge(ms[1], udpStream, limit)
  PROVE  Accepted(ms, udpStream, limit) = <<>>
  <1> DEFINE refused == {i \in DOMAIN ms : TooLarge(ms[i], udpStream, limit)}
             i == CHOOSE i \in refused : \A j \in refused : i <= j
  <1>1. 1 \in refused /\ \A j \in refused : j \in Nat /\ 1 <= j
    OBVIOUS
  <1>2. i = 1
    <2> HIDE DEF refused
    <2>1. \E e \in refused : \A j \in refused : e <= j
      BY <1>1
    <2>2. i \in refused /\ i <= 1
      BY <1>1, <2>1
    <2> HIDE DEF i
    <2> QED BY <1>1, <2>2
  <1>3. Accepted(ms, udpStream, limit) = SubSeq(ms, 1, i - 1)
    BY <1>1 DEF Accepted
  <1> HIDE DEF i
  <1>4. SubSeq(ms, 1, 0) = <<>>
    OBVIOUS
  <1>5. i - 1 = 0 BY <1>2
  <1> QED BY <1>3, <1>4, <1>5

(* fragUDPMessage for one size: nothing is larger than the first piece,    *)
(* and nothing larger than asked for.                                      *)
LEMMA CutFits ==
  ASSUME NEW s, NEW p, NEW d, NEW k, NEW size \in Nat, NEW max \in Int,
         Valid(d), d.name \in 0..255
  PROVE  LET m == UdpMessage(s, p, d, k, size)
             f == Frag(m, max)
         IN /\ \E S : f \in Seq(S)
            /\ 1 \in DOMAIN f
            /\ \A i \in DOMAIN f : PackedSize(Pack(f[i])) \in Int
            /\ \A i \in DOMAIN f : PackedSize(Pack(f[i])) <= PackedSize(Pack(f[1]))
            /\ max > HeaderSize(m) => PackedSize(Pack(f[1])) <= max
  <1> DEFINE m == UdpMessage(s, p, d, k, size)
             f == Frag(m, max)
             h == HeaderSize(m)
             u == max - h
             n == (size + u - 1) \div u
  <1>1. h \in 14..269 /\ u \in Int
    BY HeaderIsPositive
  <1>2. PackedSize(Pack(m)) = h + size
    BY WholeSize
  <1>3. \/ f = <<m>> /\ (u <= 0 \/ size <= u)
        \/ /\ u \in Nat \ {0} /\ n \in Nat /\ n >= 2
           /\ (n - 1) * u < size /\ size <= n * u
           /\ f = [i \in 1..n |-> Piece(s, p, d, k, size, u, n, i)]
    BY FragIs DEF IsCut
  <1>4. CASE f = <<m>> /\ (u <= 0 \/ size <= u)
    <2> HIDE DEF m, f, h
    <2>1. DOMAIN f = {1} /\ f[1] = m /\ f \in Seq({m})
      BY <1>4
    <2>2. max > h => h + size <= max
      BY <1>1, <1>4
    <2>3. h + size \in Int
      BY <1>1
    <2> QED BY <2>1, <2>2, <2>3, <1>2 DEF m, f, h
  <1>5. CASE /\ u \in Nat \ {0} /\ n \in Nat /\ n >= 2
             /\ (n - 1) * u < size /\ size <= n * u
             /\ f = [i \in 1..n |-> Piece(s, p, d, k, size, u, n, i)]
    <2> HIDE DEF n, u, f
    <2>1. \A i \in 1..n : /\ PackedSize(Pack(Piece(s, p, d, k, size, u, n, i))) \in Int
                          /\ PackedSize(Pack(Piece(s, p, d, k, size, u, n, i))) <= h + u
                          /\ i = 1 => PackedSize(Pack(Piece(s, p, d, k, size, u, n, i))) = h + u
      BY <1>5, PieceSize
    <2>2. DOMAIN f = 1..n /\ 1 \in 1..n /\ f \in Seq({f[i] : i \in 1..n})
      BY <1>5
    <2>3. \A i \in 1..n : f[i] = Piece(s, p, d, k, size, u, n, i)
      BY <1>5
    <2>4. h + u = max
      BY <1>1 DEF u
    <2> HIDE DEF h, m
    <2>5. \A i \in 1..n : /\ PackedSize(Pack(f[i])) \in Int
                          /\ PackedSize(Pack(f[i])) <= h + u
                          /\ i = 1 => PackedSize(Pack(f[i])) = h + u
      BY <2>1, <2>3
    <2>6. max <= max /\ \E S : f \in Seq(S)
      BY <2>2
    <2> QED BY <2>2, <2>4, <2>5, <2>6 DEF f, h, m
  <1> QED BY <1>3, <1>4, <1>5

(* writePacketOrFragments sends the packet, whole or cut for one size.     *)
LEMMA SentIsCut ==
  ASSUME NEW s, NEW p, NEW d, NEW k, NEW size \in Nat, NEW mtu \in Int, NEW limit \in Nat,
         NEW udpStream \in BOOLEAN, Valid(d), d.name \in 0..255,
         limit - 3 > HeaderSize(UdpMessage(s, p, d, k, size))
  PROVE  LET m == UdpMessage(s, p, d, k, size)
             went == WritePacketOrFragments(m, udpStream, mtu, limit)
         IN went.sent = <<m>> \/ \E max \in Int : went.sent = Frag(m, max)
  <1> DEFINE m == UdpMessage(s, p, d, k, size)
             first == IF ~udpStream /\ Size(m.data) > mtu - HeaderSize(m)
                      THEN Frag(m, mtu) ELSE <<m>>
             sent_ == Accepted(first, udpStream, limit)
             again == Accepted(Frag(m, limit - 3), udpStream, limit)
             went == WritePacketOrFragments(m, udpStream, mtu, limit)
  <1>1. went.sent = IF sent_ = first THEN first ELSE sent_ \o again
    <2> HIDE DEF m
    <2> QED BY DEF WritePacketOrFragments
  <1> DEFINE P(f) == /\ \E S : f \in Seq(S)
                     /\ 1 \in DOMAIN f
                     /\ \A i \in DOMAIN f : PackedSize(Pack(f[i])) \in Int
                     /\ \A i \in DOMAIN f : PackedSize(Pack(f[i])) <= PackedSize(Pack(f[1]))
  <1>2. \A max \in Int : P(Frag(m, max))
    BY CutFits
  <1>3. P(<<m>>)
    <2>1. PackedSize(Pack(m)) \in Int
      <3>1. HeaderSize(m) \in 14..269 BY HeaderIsPositive
      <3> QED BY <3>1, WholeSize
    <2> HIDE DEF m
    <2>2. <<m>> \in Seq({m}) /\ DOMAIN <<m>> = {1} /\ <<m>>[1] = m
      OBVIOUS
    <2>3. \A i \in DOMAIN <<m>> : PackedSize(Pack(<<m>>[i])) \in Int
          /\ PackedSize(Pack(<<m>>[i])) <= PackedSize(Pack(<<m>>[1]))
      <3> DEFINE z == PackedSize(Pack(m))
      <3>1. z <= z /\ z \in Int BY <2>1
      <3> QED BY <2>2, <3>1
    <2>4. \E S : <<m>> \in Seq(S)
      BY <2>2
    <2>5. 1 \in DOMAIN <<m>>
      BY <2>2
    <2> QED BY <2>3, <2>4, <2>5
  <1>4. P(first) /\ (first = <<m>> \/ first = Frag(m, mtu))
    <2> HIDE DEF P, m
    <2> QED BY <1>2, <1>3
  <1> HIDE DEF went, first
  <1>5. CASE \A i \in DOMAIN first : ~TooLarge(first[i], udpStream, limit)
    <2>1. sent_ = first
      BY <1>5, AcceptedAll
    <2> QED BY <2>1, <1>1, <1>4 DEF went
  <1>6. CASE ~(\A i \in DOMAIN first : ~TooLarge(first[i], udpStream, limit))
    <2>1. TooLarge(first[1], udpStream, limit)
      BY <1>4, <1>6 DEF TooLarge
    <2>2. sent_ = <<>>
      BY <2>1, <1>4, AcceptedNone
    <2>3. first # <<>>
      BY <1>4
    <2> DEFINE f == Frag(m, limit - 3)
    <2>4. limit - 3 \in Int /\ P(f)
      <3>1. limit - 3 \in Int OBVIOUS
      <3> HIDE DEF P
      <3> QED BY <3>1, <1>2
    <2>5. PackedSize(Pack(f[1])) <= limit - 3
      BY <2>4, CutFits
    <2> HIDE DEF f
    <2>6. \A i \in DOMAIN f : ~TooLarge(f[i], udpStream, limit)
      BY <2>4, <2>5 DEF TooLarge
    <2>7. again = f
      BY <2>6, AcceptedAll DEF f
    <2>8. <<>> \o f = f
      BY <2>4
    <2> HIDE DEF again, sent_
    <2>9. went.sent = f
      BY <1>1, <2>2, <2>3, <2>7, <2>8
    <2> QED BY <2>4, <2>9 DEF f, went
  <1> QED BY <1>5, <1>6

(* What fragUDPMessage cuts, and who gets all of it.                       *)
LEMMA FragIsSliced ==
  ASSUME NEW s, NEW p, NEW d, NEW k, NEW size \in Nat, NEW max \in Int,
         Valid(d), d.name \in 0..255, Len(Frag(UdpMessage(s, p, d, k, size), max)) < Byte
  PROVE  LET m == UdpMessage(s, p, d, k, size)
             f == Frag(m, max)
         IN f = <<m>> \/ \E n : Sliced(f, n, p, size)
  <1> DEFINE m == UdpMessage(s, p, d, k, size)
             f == Frag(m, max)
             u == max - HeaderSize(m)
             n == (size + u - 1) \div u
             g == [i \in 1..n |-> Piece(s, p, d, k, size, u, n, i)]
  <1>1. \/ f = <<m>>
        \/ /\ u \in Nat \ {0} /\ n \in Nat /\ n >= 2
           /\ (n - 1) * u < size /\ size <= n * u
           /\ f = g
    BY FragIs DEF IsCut
  <1>2. CASE /\ u \in Nat \ {0} /\ n \in Nat /\ n >= 2
             /\ (n - 1) * u < size /\ size <= n * u
             /\ f = g
    <2> HIDE DEF u, n, f, m
    <2>1. DOMAIN f = 1..n /\ n \in 2..255
      <3>1. Len(f) = n /\ DOMAIN f = 1..n
        BY <1>2
      <3>2. Len(f) < Byte
        BY DEF f, m
      <3> QED BY <3>1, <3>2, <1>2 DEF Byte
    <2>2. size \in Nat \ {0}
      <3>1. (n - 1) * u \in Nat
        BY <1>2, TimesMono
      <3> QED BY <3>1, <1>2
    <2>3. ASSUME NEW i \in 1..n
          PROVE  /\ f[i] = Piece(s, p, d, k, size, u, n, i)
                 /\ f[i].packetID = p /\ f[i].fragmentTotal = n /\ f[i].fragmentID = i - 1
                 /\ DOMAIN f[i] = MessageFields
                 /\ f[i].data[1].from = (i - 1) * u
                 /\ f[i].data[1].to = IF i < n THEN i * u ELSE size
      <3>1. f[i] = Piece(s, p, d, k, size, u, n, i)
        BY <1>2
      <3>2. n % Byte = n /\ (i - 1) % Byte = i - 1
        BY <2>1, SmallIdentity DEF Byte
      <3>3. f[i] = Built(s, p, n, i - 1, Named(d, i), Extent(k, size, u, n, i))
        BY <3>1, <3>2 DEF Piece
      <3>4. /\ f[i].packetID = p /\ f[i].fragmentTotal = n /\ f[i].fragmentID = i - 1
            /\ f[i].data = Extent(k, size, u, n, i) /\ DOMAIN f[i] = MessageFields
        <4> HIDE DEF g
        <4> QED BY <3>3 DEF Built, MessageFields
      <3>5. /\ Extent(k, size, u, n, i)[1].from = (i - 1) * u
            /\ Extent(k, size, u, n, i)[1].to = IF i < n THEN i * u ELSE size
        BY DEF Extent, Bytes
      <3> QED BY <3>1, <3>4, <3>5
    <2> HIDE DEF g
    <2>4. ASSUME NEW i \in 1..n
          PROVE  /\ f[i].data[1].from \in Int /\ f[i].data[1].to \in Int
                 /\ i = 1 => f[i].data[1].from = 0
                 /\ i > 1 => f[i].data[1].from = f[i - 1].data[1].to
                 /\ i = n => f[i].data[1].to = size
      <3>1. i - 1 \in Nat /\ i \in Nat /\ (i - 1) * u \in Nat /\ i * u \in Nat /\ 0 * u = 0
        <4>1. i - 1 \in Nat /\ i \in Nat /\ u \in Nat
          BY <1>2
        <4> QED BY <4>1, TimesMono
      <3>2. i > 1 => i - 1 \in 1..n /\ i - 1 < n
        BY <1>2
      <3>3. i = 1 => f[i].data[1].from = 0
        BY <2>3, <3>1
      <3>4. i > 1 => f[i].data[1].from = f[i - 1].data[1].to
        BY <2>3, <3>2
      <3>5. i = n => f[i].data[1].to = size
        BY <2>3
      <3> QED BY <2>3, <3>1, <3>3, <3>4, <3>5
    <2> QED BY <2>1, <2>2, <2>3, <2>4 DEF Sliced, f, m
  <1> QED BY <1>1, <1>2

(* A peer that gets what was cut, whole or in fewer than 256 pieces, gets  *)
(* one message of the right size and number.                               *)
LEMMA ReceivedEntire ==
  ASSUME NEW s, NEW p, NEW d, NEW k, NEW size \in Nat, Valid(d), d.name \in 0..255, NEW f,
         Len(f) < Byte,
         \/ f = <<UdpMessage(s, p, d, k, size)>>
         \/ \E max \in Int : f = Frag(UdpMessage(s, p, d, k, size), max)
  PROVE  Len(Received(f)) = 1 /\ Entire(Received(f)[1], p, size)
  <1> DEFINE m == UdpMessage(s, p, d, k, size)
  <1>1. CASE f = <<m>>
    <2>1. m.fragmentTotal = 1 /\ m.packetID = p /\ m.data = <<Bytes(k, 0, size)>>
      BY DEF UdpMessage, Bytes
    <2>2. Size(m.data) = size
      BY <2>1, SizeOfOne DEF Bytes
    <2>3. Len(m.data) = 1
      BY <2>1
    <2> HIDE DEF m
    <2>4. Received(f) = <<m>>
      BY <1>1, <2>1, ReceivedOne
    <2>5. Entire(m, p, size)
      BY <2>1, <2>2, <2>3 DEF Entire
    <2> QED BY <2>4, <2>5
  <1>2. CASE \E max \in Int : f = Frag(m, max)
    <2>1. f = <<m>> \/ \E n : Sliced(f, n, p, size)
      BY <1>2, FragIsSliced
    <2> HIDE DEF m
    <2> QED BY <2>1, <1>1, ReceivedSlices
  <1> QED BY <1>1, <1>2

-----------------------------------------------------------------------------
(* The answers of a session.                                               *)

Away == [family |-> "ipv4", name |-> 0]
Answers(a, n, size) == UdpMessage(Session(a), n % MaxLength, Away, "answer", size)

(* What went out last is the last answer, whole or cut for one size.       *)
Went(a) ==
  \/ Limit - 3 <= HeaderSize(Answers(a, written[a], 0))
  \/ \E size \in Sizes :
       \/ sent[a] = <<Answers(a, written[a], size)>>
       \/ \E max \in Int : sent[a] = Frag(Answers(a, written[a], size), max)

AInv ==
  /\ DOMAIN sent = Ids /\ DOMAIN udpMTU = Ids
  /\ \A a \in Ids : udpMTU[a] \in Int /\ (written[a] > 0 => Went(a))

(* The header of an answer is as long as that of another.                  *)
LEMMA AnswerHeader ==
  ASSUME NEW s, NEW p, NEW q, NEW size, NEW z
  PROVE  HeaderSize(UdpMessage(s, p, Away, "answer", size))
         = HeaderSize(UdpMessage(s, q, Away, "answer", z))
  BY DEF UdpMessage, HeaderSize

(* The size of datagrams an association uses stays a number.               *)
LEMMA WritesKeepNumber ==
  ASSUME NEW m, NEW udpStream, NEW mtu \in Int, NEW limit \in Nat
  PROVE  WritePacketOrFragments(m, udpStream, mtu, limit).udpMTU \in Int
  BY DEF WritePacketOrFragments

(* WritePacket: the answer that goes out is cut for one size, even after a *)
(* refusal.                                                                *)
LEMMA RelayWritesAInv ==
  ASSUME TInv, AInv, NEW a \in Ids, RelayWrites(a)
  PROVE  AInv'
  <1>1. PICK size \in Sizes :
          LET went == WritePacketOrFragments(Answer(a, size),
                        script[a].via = "uni", udpMTU[a], Limit)
          IN /\ sent' = [sent EXCEPT ![a] = went.sent]
             /\ udpMTU' = [udpMTU EXCEPT ![a] = went.udpMTU]
    BY DEF RelayWrites
  <1>2. /\ written' = [written EXCEPT ![a] = @ + 1] /\ script' = script
        /\ DOMAIN written = Ids /\ DOMAIN sent = Ids /\ DOMAIN udpMTU = Ids
        /\ udpMTU[a] \in Int /\ Limit \in Nat /\ size \in Nat
    BY NumberAssumption DEF RelayWrites, TInv, TypeOK, AInv
  <1>3. PICK n : n = written[a] + 1
    OBVIOUS
  <1>4. PICK m : m = Answers(a, n, size)
    OBVIOUS
  <1>5. Answer(a, size) = m
    BY <1>3, <1>4 DEF Answer, Answers, Away
  <1>6. PICK b \in BOOLEAN : b = (script[a].via = "uni")
    OBVIOUS
  <1>7. PICK went : went = WritePacketOrFragments(m, b, udpMTU[a], Limit)
    OBVIOUS
  <1>8. /\ sent' = [sent EXCEPT ![a] = went.sent]
        /\ udpMTU' = [udpMTU EXCEPT ![a] = went.udpMTU]
    BY <1>1, <1>5, <1>6, <1>7
  <1>9. written'[a] = n /\ sent'[a] = went.sent /\ went.udpMTU \in Int
    BY <1>2, <1>3, <1>7, <1>8, WritesKeepNumber
  <1>10. Went(a)'
    <2>1. HeaderSize(m) = HeaderSize(Answers(a, n, 0))
      BY <1>4, AnswerHeader DEF Answers
    <2>2. CASE Limit - 3 <= HeaderSize(m)
      <3>1. Answers(a, n, 0)' = Answers(a, n, 0)
        BY <1>2 DEF Answers, Session
      <3> QED BY <2>1, <2>2, <3>1, <1>9 DEF Went, Answers, Session
    <2>3. CASE ~(Limit - 3 <= HeaderSize(m))
      <3>1. Limit - 3 > HeaderSize(m)
        <4>1. HeaderSize(m) \in Int
          BY <1>4, HeaderIsPositive DEF Answers, Away, Valid
        <4> QED BY <4>1, <2>3, <1>2
      <3>2. went.sent = <<m>> \/ \E max \in Int : went.sent = Frag(m, max)
        <4>1. Valid(Away) /\ Away.name \in 0..255
          BY DEF Away, Valid
        <4> QED BY <4>1, <3>1, <1>2, <1>4, <1>7, SentIsCut DEF Answers
      <3>3. m = Answers(a, written[a], size)'
        BY <1>2, <1>4, <1>9 DEF Answers, Session
      <3> QED BY <3>2, <3>3, <1>9 DEF Went
    <2> QED BY <2>2, <2>3
  <1>11. ASSUME NEW c \in Ids, c # a
         PROVE  udpMTU'[c] \in Int /\ (written'[c] > 0 => Went(c)')
    <2>1. udpMTU'[c] = udpMTU[c] /\ written'[c] = written[c] /\ sent'[c] = sent[c]
      BY <1>2, <1>8, <1>11
    <2> QED BY <2>1, <1>2, <1>11 DEF AInv, Went, Answers, Session
  <1> QED BY <1>2, <1>8, <1>9, <1>10, <1>11 DEF AInv

(* Where nothing is sent, what was sent last stays.                        *)
LEMMA QuietAInv ==
  ASSUME AInv, UNCHANGED <<script, written, udpMTU, sent>>
  PROVE  AInv'
  BY DEF AInv, Went, Answers, Session

(* Every step keeps what is known of the answers.                          *)
LEMMA NextAInv ==
  ASSUME TInv, AInv, [Next]_vars
  PROVE  AInv'
  <1> DEFINE Quiet == UNCHANGED <<script, written, udpMTU, sent>>
  <1>0. Quiet => AInv'
    BY QuietAInv
  <1>1. CASE \/ Listen \/ Accept \/ CloseListener \/ PeerLeaves \/ ReceiveFails \/ AuthTimeout
             \/ UNCHANGED vars
    <2> HIDE DEF AInv
    <2>1. Quiet
      BY <1>1 DEF Listen, Accept, CloseListener, PeerLeaves, ReceiveFails, AuthTimeout,
                  relayVars, vars
    <2> QED BY <2>1, <1>0
  <1>2. ASSUME NEW r \in Ids, Arrives(r) \/ Handle(r) \/ StreamEnds(r)
        PROVE  AInv'
    <2>1. Quiet
      BY <1>2 DEF Arrives, StreamEnds, Handle, Parsed, Authenticate, Admitted, Malformed,
                  Refused, Lookup, Check, Store, Mark, Input, DissociateCancels,
                  DissociateDeletes, relayVars
    <2> QED BY <2>1, <1>0
  <1>3. ASSUME NEW a \in Ids, Relay(a) PROVE AInv'
    <2>1. CASE RelayWrites(a)
      BY <2>1, RelayWritesAInv
    <2>2. CASE RelayReads(a) \/ RelayCloses(a) \/ RelayDestroys(a)
      <3>1. Quiet
        BY <2>2 DEF RelayReads, RelayCloses, RelayDestroys
      <3> QED BY <3>1, <1>0
    <2> QED BY <1>3, <2>1, <2>2 DEF Relay
  <1> QED BY <1>1, <1>2, <1>3 DEF Next

(* An answer cut for one size arrives.                                     *)
LEMMA AnsweredFromAInv ==
  ASSUME TInv, AInv
  PROVE  Answered
  <1> SUFFICES ASSUME NEW a \in made, written[a] > 0,
                      ~(Limit - 3 <= HeaderSize(Answer(a, 0))), ~(Len(sent[a]) >= Byte)
               PROVE  LET got == Received(sent[a]) IN
         /\ Len(got) = 1
         /\ \E size \in Sizes :
              /\ Size(got[1].data) = size
              /\ got[1].packetID = written[a] % MaxLength
              /\ \A i \in 2..Len(got[1].data) :
                   got[1].data[i].from = got[1].data[i - 1].to
    BY DEF Answered
  <1>1. a \in Ids
    BY DEF TInv, TypeOK
  <1>2. ~(Limit - 3 <= HeaderSize(Answers(a, written[a], 0)))
    <2>1. HeaderSize(Answers(a, written[a], 0)) = HeaderSize(Answer(a, 0))
      BY AnswerHeader DEF Answers, Answer, Away
    <2> QED BY <2>1
  <1>3. PICK size \in Sizes :
          \/ sent[a] = <<Answers(a, written[a], size)>>
          \/ \E max \in Int : sent[a] = Frag(Answers(a, written[a], size), max)
    BY <1>1, <1>2 DEF AInv, Went
  <1>4. Valid(Away) /\ Away.name \in 0..255 /\ size \in Nat
    BY NumberAssumption DEF Away, Valid
  <1>5. PICK f : f = sent[a]
    OBVIOUS
  <1>6. Len(f) < Byte
    <2>1. Len(f) \in Int
      <3>1. CASE f = <<Answers(a, written[a], size)>>
        BY <3>1
      <3>2. CASE \E max \in Int : f = Frag(Answers(a, written[a], size), max)
        <4>1. \E S : f \in Seq(S)
          BY <3>2, <1>4, CutFits DEF Answers
        <4> QED BY <4>1
      <3> QED BY <3>1, <3>2, <1>3, <1>5
    <2> QED BY <2>1, <1>5 DEF Byte
  <1>7. Len(Received(f)) = 1 /\ Entire(Received(f)[1], written[a] % MaxLength, size)
    BY <1>3, <1>4, <1>5, <1>6, ReceivedEntire DEF Answers
  <1> QED BY <1>5, <1>7 DEF Entire

(* Nothing has been sent at first.                                         *)
LEMMA InitAInv == Init => AInv
  BY DEF Init, AInv

(* WritePacket: a peer that gets all that was sent for an answer puts      *)
(* together that answer, with its size and number, though the first        *)
(* attempt was refused as too large; for any sizes of packets and          *)
(* datagrams. The pieces refused were the first ones, so nothing of the    *)
(* first attempt is left to mix with the second.                           *)
THEOREM AnswersArrive == Spec => []Answered
  <1>1. Init => TInv /\ AInv
    BY InitTInv, InitAInv
  <1>2. TInv /\ AInv /\ [Next]_vars => TInv' /\ AInv'
    BY NextTInv, NextAInv
  <1>3. TInv /\ AInv => Answered
    BY AnsweredFromAInv
  <1> QED BY <1>1, <1>2, <1>3, PTL DEF Spec

(* Both directions together: for honest clients the packets of an          *)
(* association stay whole, for any numbers of clients, requests, users and *)
(* any sizes.                                                              *)
THEOREM PacketsAreIntact == ASSUME AllHonest PROVE Spec => []Intact
  <1>1. Spec => []Whole
    BY MessagesAreWhole
  <1>2. Spec => []Answered
    BY AnswersArrive
  <1>3. Whole /\ Answered <=> Intact
    BY DEF Intact
  <1> QED BY <1>1, <1>2, <1>3, PTL
==============================================================================
