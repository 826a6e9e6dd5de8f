------------------------------ MODULE Provision ------------------------------
(***************************************************************************)
(* A server that is provisioned from one configuration of the panel: its   *)
(* certificates (module Certificates) and the outbounds and rules its core *)
(* is started with, by which every connection is sniffed and routed        *)
(* (core/xray.go, core/custom.go, core/app/dispatcher).                    *)
(***************************************************************************)
EXTENDS Certificates

CONSTANT Conns   \* connections that are made

VARIABLES
  conn,    \* where each connection is: "new", "sniff", "route" or "gone"
  sniffed, \* what was found in its first bytes
  route    \* the outbound it was given to, "" when it was closed instead

routeVars == <<conn, sniffed, route>>
vars == <<certVars, routeVars>>

Nothing == [protocol |-> "", name |-> <<>>]
Pending == "pending"

Init ==
  /\ CertInit
  /\ conn = [c \in Conns |-> "new"]
  /\ sniffed = [c \in Conns |-> Nothing]
  /\ route = [c \in Conns |-> Pending]

-----------------------------------------------------------------------------
(* What connection c asks for and what sniffing may find in it.            *)
Target(c) == cfg.targets[c]

(* Dispatch, once a node serves.                                           *)
Accept(c) ==
  /\ life \in {"up", "reload"} /\ c \in DOMAIN cfg.targets /\ conn[c] = "new"
  /\ conn' = [conn EXCEPT ![c] = "sniff"]
  /\ UNCHANGED <<certVars, sniffed, route>>

(* sniffer: the content tells the protocol and the name it asks for, or    *)
(* the attempts or the 200 ms are used up.                                 *)
Sniff(c) ==
  /\ conn[c] = "sniff"
  /\ \E found \in {Nothing} \cup Target(c).sniffs :
       sniffed' = [sniffed EXCEPT ![c] = found]
  /\ conn' = [conn EXCEPT ![c] = "route"]
  /\ UNCHANGED <<certVars, route>>

Dispatch(c) ==
  /\ conn[c] = "route"
  /\ route' = [route EXCEPT ![c] =
                 RoutedDispatch(CustomConfig, Target(c), RouteTarget(Target(c), sniffed[c]))]
  /\ conn' = [conn EXCEPT ![c] = "gone"]
  /\ UNCHANGED <<certVars, sniffed>>

(* A process that ends takes its connections with it.                      *)
Survive ==
  /\ conn' = IF life' = "down" THEN [c \in Conns |-> IF conn[c] = "new" THEN "new" ELSE "gone"]
             ELSE conn
  /\ UNCHANGED <<sniffed, route>>

Provisions == Main /\ Survive
Renews(n) == RenewalRun(n) /\ Survive
Suffers == (Crash \/ \E n \in Nodes : GetsOlder(n)) /\ Survive

Next ==
  \/ Provisions \/ Suffers
  \/ \E n \in Nodes : Renews(n)
  \/ \E c \in Conns : Accept(c) \/ Sniff(c) \/ Dispatch(c)

Spec == Init /\ [][Next]_vars

(* The service is started again and main goes on. A renewal task goes on   *)
(* too, though it may find the mutex taken again and again: Go's mutexes   *)
(* do not starve a waiter.                                                 *)
FairSpec ==
  /\ Spec
  /\ WF_vars(Provisions)
  /\ \A n \in Nodes : SF_vars(Renews(n))

-----------------------------------------------------------------------------
TypeOK ==
  /\ CertTypeOK
  /\ conn \in [Conns -> {"new", "sniff", "route", "gone"}]
  /\ sniffed \in [Conns -> {Nothing} \cup UNION {t.sniffs : t \in Range(cfg.targets)}]
  /\ \A c \in Conns :
       route[c] \notin {Pending, ""} => HasOutboundWithTag(CustomConfig.outbounds, route[c])

(* The names of a list: blank entries and doubles do not matter.           *)
Lists(rules, name) ==
  \E i \in DOMAIN rules : rules[i].value # "" /\ Matches(Domain(rules[i]), name)

Skipped(item) == BuildOutboundSettings(item) = "none"

(* However the panel names and mixes its outbounds, every connection finds *)
(* the outbound it is routed to. What is on the block list, as asked for   *)
(* or as sniffed, leaves by the blackhole (queries excepted), and what an  *)
(* outbound that was built lists never by the default.                     *)
RoutesResolve ==
  \A c \in Conns : route[c] # Pending =>
    LET name == RouteTarget(Target(c), sniffed[c])
        listed == {i \in DOMAIN cfg.outbound :
                     ~Skipped(cfg.outbound[i]) /\ Lists(cfg.outbound[i].rules, name)}
    IN /\ route[c] # ""
       /\ Cardinality({i \in DOMAIN CustomConfig.outbounds :
                         CustomConfig.outbounds[i].tag = route[c]}) = 1
       /\ ~Target(c).dns /\ Lists(cfg.block, name) => route[c] = BlockTag
       /\ ~Target(c).dns /\ ~Lists(cfg.block, name) =>
            IF listed = {} THEN route[c] = DefaultTag
            ELSE \E i \in listed : route[c] = cfg.outbound[i].name
=============================================================================
