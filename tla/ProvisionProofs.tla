--------------------------- MODULE ProvisionProofs ---------------------------
(***************************************************************************)
(* Proofs about Provision, for any number of nodes, configurations, keys,  *)
(* failures, crashes and reloads. The environment belongs to the run that  *)
(* holds the mutex. The files of a node belong to the run that has a plan  *)
(* for them: a run that creates a pair has found none that is usable, a    *)
(* run that renews writes the key that is there.                           *)
(*                                                                         *)
(* The second half is about the configuration: what the loops over its     *)
(* lists build, for lists of any length, by induction over the folds they  *)
(* are modelled by; and what that means for every connection.              *)
(***************************************************************************)
EXTENDS Provision, TLAPS, FiniteSetTheorems

Shapes ==
  /\ DOMAIN pc = Runs /\ DOMAIN plan = Runs /\ DOMAIN pair = Runs
  /\ DOMAIN provider = Runs /\ DOMAIN previous = Runs
  /\ DOMAIN key = Nodes /\ DOMAIN crt = Nodes
  /\ DOMAIN built = Nodes /\ DOMAIN active = Nodes
  /\ lock \in Runs \cup {NoRun}
  /\ good \subseteq Nodes
  /\ at \in Nat \ {0}

(* The environment is that of the process, or of the run with the mutex.   *)
Locked ==
  \A r \in Runs :
    /\ pc[r] \in {"provide", "restore"} <=> lock = r
    /\ lock = r => previous[r] = Base /\ env = Merged(r, Base)

(* Which runs exist when.                                                  *)
Running ==
  /\ \A r \in Runs : pc[r] # "idle" =>
       /\ r[1] = Prepare => Preparing(r[2]) /\ Enabled(r[2])
       /\ r[1] = Renew => Managed(r[2])
  /\ \A r \in Runs : pc[r] \in {"check", "report"} => UsesTLSCertificate(Protocol(r[2]))
  /\ life = "switch" => at \notin Nodes
  /\ life \in {"down", "up", "refused"} => at = 1

(* When a run has a plan. Two plans for one node are a race.               *)
Ordered == {"order", "obtain", "key", "cert"}
Planned ==
  \A r \in Runs :
    /\ plan[r] \in {"none", "create", "renew"}
    /\ pc[r] \in Ordered => plan[r] # "none"
    /\ plan[r] # "none" => pc[r] \in Ordered \cup {"account", "env", "provide", "restore", "ready"}
    /\ plan[r] = "renew" => pc[r] \in Ordered
    /\ plan[r] # "none" /\ plan[Other(r)] # "none" => r[2] \in raced

(* The pair a run is about to write is a new one.                          *)
Fresh ==
  \A r \in Runs :
    pc[r] \in {"key", "cert"} \/ plan[r] = "renew" => pair[r].age = "fresh" /\ pair[r].ec

(* What a run knows of the files it has a plan for.                        *)
Claimed ==
  \A r \in Runs : r[2] \notin raced =>
    /\ plan[r] = "create" /\ pc[r] # "cert" => ~Kept(r[2])
    /\ plan[r] = "create" /\ pc[r] \in {"key", "cert"} => pair[r].key # 0
    /\ plan[r] = "renew" => Kept(r[2]) /\ pair[r].key = key[r[2]]
    /\ pc[r] = "cert" => pair[r].key = key[r[2]]

GoodKept == good \cap raced = {} /\ \A n \in good : Kept(n)

(* What a node that has come so far is built from, and what it presents.   *)
Ready ==
  \A r \in Runs : r[1] = Prepare =>
    /\ pc[r] = "build" /\ Managed(r[2]) /\ r[2] \notin raced => Kept(r[2])
    /\ pc[r] \in {"users", "build"} /\ SelfSigned(r[2]) =>
         Usable(r[2]) /\ built[r[2]].print = crt[r[2]].key

BuiltInForce == \A n \in Nodes : n < at /\ Ours(n) => Sound(built[n], n)

ActiveInForce == Serves => \A n \in Nodes : Ours(n) => Sound(active[n], n)

EInv == Shapes /\ Locked /\ OwnCredentials
FInv == Running /\ Planned /\ Fresh /\ Claimed /\ GoodKept /\ Ready /\ BuiltInForce /\ ActiveInForce

-----------------------------------------------------------------------------
(* Runs are known by their kind and their node; each node has two.         *)
LEMMA RunFacts ==
  /\ NoRun \notin Runs
  /\ \A r \in Runs :
       /\ r[1] \in {Prepare, Renew} /\ r[2] \in Nodes
       /\ Other(r) \in Runs /\ Other(r)[2] = r[2] /\ Other(r) # r /\ Other(Other(r)) = r
       /\ \A q \in Runs : q[2] = r[2] => q \in {r, Other(r)}
       /\ \A q \in Runs : q[1] = r[1] /\ q[2] = r[2] => q = r
  /\ \A n \in Nodes :
       /\ <<Prepare, n>> \in Runs /\ <<Prepare, n>>[1] = Prepare /\ <<Prepare, n>>[2] = n
       /\ <<Renew, n>> \in Runs /\ <<Renew, n>>[1] = Renew /\ <<Renew, n>>[2] = n
  /\ Prepare # Renew
  BY DEF NoRun, Runs, Prepare, Renew, Other

(* A key that is generated is one of the keys, and not the missing one.    *)
LEMMA NewKeyIsAKey == NewKey \in Keys \ {0}
  <1> DEFINE held == {key[n] : n \in Nodes} \cup {crt[n].key : n \in Nodes}
                \cup {cfg.old[n].key : n \in Nodes} \cup {pair[r].key : r \in Runs}
                \cup UNION {{built[n].crt.key, active[n].crt.key} : n \in Nodes}
  <1>1. NewKey = CHOOSE k \in Keys \ {0} : k \in held => Keys \ {0} \subseteq held
    BY DEF NewKey
  <1> HIDE DEF held
  <1>2. \E k \in Keys \ {0} : k \in held => Keys \ {0} \subseteq held
    BY KeysAssumption
  <1> QED BY <1>1, <1>2

(* Wherever the credentials of a node are of use, its builder presents a   *)
(* certificate.                                                            *)
LEMMA TLSIsBuilt ==
  ASSUME NEW p, NEW readable, UsesTLSCertificate(p), p.certMode \in {"dns", "http", "self"},
         BuildInbound(p, readable) # Refused
  PROVE  BuildInbound(p, readable).security = "tls" /\ readable
  <1> DEFINE in == BuildByType(p)
             made == [f \in DOMAIN in \cup {"security"} |->
                        IF f = "security" THEN Security(p) ELSE in[f]]
  <1>1. made.security = Security(p)
    OBVIOUS
  <1>2. BuildInbound(p, readable) = made /\ XrayAccepts(made, readable)
    BY DEF BuildInbound
  <1>3. ShouldConfigureTLS(p)
    BY DEF UsesTLSCertificate, ShouldConfigureTLS
  <1>4. CASE p.security = "reality"
    <2>1. p.type \in Quic
      BY <1>4 DEF UsesTLSCertificate
    <2>2. in.network \in {"hysteria", "tuic"} /\ "network" \in DOMAIN in
      BY <2>1 DEF BuildByType, BuildHysteria2, Quic
    <2>3. made.network = in.network
      BY <2>2
    <2>4. made.network \notin {"tcp", "grpc", "splithttp", "xhttp"}
      BY <2>2, <2>3
    <2>5. made.security = "reality"
      BY <1>1, <1>4 DEF Security
    <2> QED BY <1>2, <2>4, <2>5 DEF XrayAccepts
  <1>5. CASE p.security # "reality"
    <2>1. made.security = "tls"
      BY <1>1, <1>3, <1>5 DEF Security
    <2> QED BY <1>2, <2>1 DEF XrayAccepts
  <1> QED BY <1>4, <1>5

(* Putting the variables of the node back gives the environment of the     *)
(* process.                                                                *)
LEMMA RestoredIsBase ==
  ASSUME NEW r, previous[r] = Base, env = Merged(r, Base)
  PROVE  Restored(r) = Base
  <1>1. Restored(r) = [v \in Names |-> Base[v]]
    BY DEF Restored, Merged
  <1> QED BY <1>1, BaseAssumption

-----------------------------------------------------------------------------
(* A machine whose files an earlier release left.                          *)
LEMMA InitInv == Init => EInv /\ FInv
  <1> SUFFICES ASSUME Init PROVE EInv /\ FInv
    OBVIOUS
  <1> USE RunFacts DEF Init, CertInit
  <1>1. EInv
    BY DEF EInv, Shapes, Locked, OwnCredentials
  <1>2. Running /\ Planned /\ Fresh /\ Claimed /\ Ready
    BY DEF Running, Planned, Fresh, Claimed, Ready, Ordered
  <1>3. GoodKept
    BY DEF GoodKept
  <1>4. BuiltInForce
    BY NodesAssumption DEF BuiltInForce
  <1>5. ActiveInForce
    BY DEF ActiveInForce, Serves
  <1> QED BY <1>1, <1>2, <1>3, <1>4, <1>5 DEF FInv

(* An error: nothing of the run is left, and the files are as they were.   *)
LEMMA GivesUpInv ==
  ASSUME EInv, FInv, NEW r \in Runs, pc[r] # "idle", GivesUp(r),
         lock = r => env' = Base /\ lock' = NoRun,
         lock # r => env' = env /\ lock' = lock
  PROVE  EInv' /\ FInv'
  <1> USE RunFacts DEF EInv, FInv, GivesUp, Fallback, Ends, Goto, fileVars, Protocol
  <1>1. pc' = [pc EXCEPT ![r] = "idle"] /\ plan' = [plan EXCEPT ![r] = "none"]
    OBVIOUS
  <1>2. Shapes'
    BY DEF Shapes, Settles
  <1>3. Locked'
    BY DEF Shapes, Locked, Merged
  <1>4. OwnCredentials'
    BY DEF Shapes, OwnCredentials, Locked, Merged, Mode
  <1>5. r[1] = Prepare => Preparing(r[2])
    BY DEF Running
  <1>6. Running'
    BY <1>5, NodesAssumption DEF Shapes, Running, Preparing, Enabled, Managed, Mode
  <1>7. \A n \in Nodes : n \notin raced' => n \notin raced \/ \A q \in Runs : q[2] = n => pc'[q] = "idle"
    BY DEF Settles
  <1>8. Planned' /\ Fresh'
    BY <1>7 DEF Shapes, Planned, Fresh, Ordered
  <1>9. Claimed'
    BY <1>7 DEF Shapes, Claimed, Planned, Ordered, Kept, Usable, Matching
  <1>10. GoodKept'
    BY DEF Shapes, GoodKept, Settles, Kept, Usable, Matching
  <1>11. Ready'
    BY <1>5, <1>7 DEF Shapes, Ready, Running, Preparing, Kept, Usable, Matching, Managed, SelfSigned, Mode
  <1>12. BuiltInForce' /\ ActiveInForce'
    <2>1. \/ at' = 1 /\ life' \in {"up", "down"} /\ (life' = "up" => life = "reload")
          \/ at' = at /\ built' = built /\ life' = life
      BY <1>5 DEF Preparing
    <2>2. cfg' = cfg /\ active' = active
      OBVIOUS
    <2>3. \A n \in Nodes : Ours(n)' <=> Ours(n)
      BY <2>2 DEF Ours, Enabled, Managed, SelfSigned, Mode
    <2>4. \A n \in Nodes : /\ Sound(active[n], n)' <=> Sound(active[n], n)
                           /\ built' = built => (Sound(built[n], n)' <=> Sound(built[n], n))
      BY <2>2 DEF Sound, Presents, SelfSigned, Mode
    <2>5. BuiltInForce'
      BY <2>1, <2>3, <2>4, NodesAssumption DEF BuiltInForce
    <2>6. ActiveInForce'
      BY <2>1, <2>3, <2>4 DEF ActiveInForce, Serves
    <2> QED BY <2>5, <2>6
  <1> QED BY <1>2, <1>3, <1>4, <1>6, <1>8, <1>9, <1>10, <1>11, <1>12

(* Steps to an order: the account, the environment, the challenge. None    *)
(* touches the pair of the node or the plan of the run.                    *)
LEMMA LegoInv ==
  ASSUME EInv, FInv, NEW r \in Runs,
         \/ NewLegoUser(r) \/ ApplyDNSEnvironment(r) \/ NewDNSProvider(r)
         \/ RestoreEnvironment(r) \/ Order(r)
  PROVE  EInv' /\ FInv'
  <1> USE RunFacts DEF EInv, FInv, Goto, Protocol
  <1>1. PICK p \in {"env", "provide", "restore", "ready", "obtain"} :
          /\ pc' = [pc EXCEPT ![r] = p]
          /\ p = "obtain" => Ordering(r)
          /\ p # "obtain" => pc[r] \in {"account", "env", "provide", "restore"}
    BY DEF NewLegoUser, ApplyDNSEnvironment, NewDNSProvider, RestoreEnvironment,
           Order, AfterAccount
  <1>2. UNCHANGED <<cfg, key, crt, plan, pair, good, raced, life, at, built, active>>
    BY DEF NewLegoUser, ApplyDNSEnvironment, NewDNSProvider, RestoreEnvironment,
           Order, mainVars, fileVars, sharedVars
  <1>3. FInv'
    <2> USE <1>1, <1>2
    <2>1. pc[r] \notin {"idle", "users", "build", "report", "check", "key", "cert"}
      BY DEF Ordering
    <2>2. Running'
      BY <2>1 DEF Shapes, Running, Preparing, Enabled, Managed, Mode
    <2>3. Planned' /\ Fresh'
      BY <2>1 DEF Shapes, Planned, Fresh, Ordered, Ordering
    <2>4. Claimed'
      BY <2>1 DEF Shapes, Claimed, Kept, Usable, Matching
    <2>5. GoodKept'
      BY DEF GoodKept, Kept, Usable, Matching
    <2>6. Ready'
      BY <2>1 DEF Shapes, Ready, Kept, Usable, Matching, Managed, SelfSigned, Mode
    <2>7. BuiltInForce' /\ ActiveInForce'
      BY DEF BuiltInForce, ActiveInForce, Serves, Sound, Presents, Ours, Enabled, Managed, SelfSigned, Mode
    <2> QED BY <2>2, <2>3, <2>4, <2>5, <2>6, <2>7
  <1>4. EInv'
    <2>1. Shapes'
      BY <1>1, <1>2 DEF Shapes, NewLegoUser, ApplyDNSEnvironment, NewDNSProvider,
           RestoreEnvironment, Order, sharedVars
    <2>2. CASE NewLegoUser(r)
      BY <2>1, <2>2, <1>2 DEF NewLegoUser, AfterAccount, sharedVars, Shapes, Locked,
                   OwnCredentials, Merged, Mode
    <2>3. CASE ApplyDNSEnvironment(r)
      <3>1. env = Base
        BY <2>3 DEF ApplyDNSEnvironment, LockEnvironment, OwnCredentials
      <3>2. env' = Merged(r, Base) /\ previous' = [previous EXCEPT ![r] = Base] /\ lock' = r
        BY <2>3, <3>1 DEF ApplyDNSEnvironment
      <3>3. \A q \in Runs : pc[q] \notin {"provide", "restore"}
        BY <2>3 DEF ApplyDNSEnvironment, LockEnvironment, Locked
      <3> QED BY <2>1, <2>3, <3>2, <3>3, <1>2
             DEF ApplyDNSEnvironment, Shapes, Locked, OwnCredentials, Merged, Mode
    <2>4. CASE NewDNSProvider(r)
      BY <2>1, <2>4, <1>2 DEF NewDNSProvider, Shapes, Locked, OwnCredentials, Merged, Mode
    <2>5. CASE RestoreEnvironment(r)
      <3>1. env' = Base /\ lock' = NoRun
        BY <2>5, RestoredIsBase DEF RestoreEnvironment, Locked
      <3> QED BY <2>1, <2>5, <3>1, <1>2
             DEF RestoreEnvironment, Shapes, Locked, OwnCredentials, Merged, Mode
    <2>6. CASE Order(r)
      BY <2>1, <2>6, <1>2 DEF Order, Ordering, Shapes, Locked, OwnCredentials, Merged, Mode
    <2> QED BY <2>2, <2>3, <2>4, <2>5, <2>6
  <1> QED BY <1>3, <1>4

(* A run decides what the files call for. If the other run of the node has *)
(* a plan already it is a race; if not, what it finds stays so.            *)
LEMMA PlansInv ==
  ASSUME EInv, FInv, NEW r \in Runs, NEW what \in {"create", "renew"}, NEW p,
         Plans(r, what), plan[r] = "none",
         pc[r] \in {"check", "ready"}, pc' = [pc EXCEPT ![r] = p],
         r[1] = Prepare => p \in {"account", "key"},
         r[1] = Renew => p = "order",
         what = "create" => ~Kept(r[2]),
         what = "renew" => Kept(r[2]) /\ pair' = [pair EXCEPT ![r] = FreshPair(key[r[2]])] /\ p = "order",
         \/ pair' = pair /\ p # "key"
         \/ what = "renew"
         \/ \E k : pair' = [pair EXCEPT ![r] = FreshPair(k)] /\ k # 0,
         UNCHANGED <<cfg, fileVars, sharedVars, mainVars>>,
         p \in {"account", "order"} => UsesTLSCertificate(Protocol(r[2])) /\ Managed(r[2]),
         p = "key" => Mode(r[2]) = "self",
         r[1] = Renew => pc[r] = "ready", r[1] = Prepare => pc[r] = "check",
         Mode(r[2]) = "dns" /\ p \in Ordered => pc[r] = "ready"
  PROVE  EInv' /\ FInv'
  <1> USE RunFacts DEF EInv, FInv, fileVars, sharedVars, mainVars, Protocol, Shapes
  <1>1. plan' = [plan EXCEPT ![r] = what] /\ raced \subseteq raced' /\ raced' \subseteq raced \cup {r[2]}
    BY DEF Plans
  <1>2. plan[Other(r)] # "none" => r[2] \in raced'
    BY DEF Plans
  <1>11. /\ DOMAIN pair' = Runs
         /\ \A q \in Runs : q # r => pair'[q] = pair[q]
         /\ p = "key" \/ what = "renew" => pair'[r].age = "fresh" /\ pair'[r].ec
         /\ p = "key" /\ what = "create" => pair'[r].key # 0
         /\ what = "renew" => pair'[r].key = key[r[2]]
    <2>1. CASE what = "renew"
      BY <2>1 DEF FreshPair
    <2>2. CASE what = "create" /\ pair' = pair /\ p # "key"
      BY <2>2
    <2>3. CASE what = "create" /\ \E k : pair' = [pair EXCEPT ![r] = FreshPair(k)] /\ k # 0
      <3>1. PICK k : pair' = [pair EXCEPT ![r] = FreshPair(k)] /\ k # 0
        BY <2>3
      <3>2. FreshPair(k).key # 0 /\ FreshPair(k).age = "fresh" /\ FreshPair(k).ec
        BY <3>1 DEF FreshPair
      <3>3. pair'[r] = FreshPair(k) /\ DOMAIN pair' = Runs
        BY <3>1
      <3> QED BY <2>3, <3>1, <3>2, <3>3
    <2> QED BY <2>1, <2>2, <2>3
  <1>12. good' \subseteq Nodes
    BY DEF Plans
  <1>3. EInv'
    BY <1>1, <1>11, <1>12 DEF Locked, OwnCredentials, Merged, Mode, Ordered
  <1>4. Running'
    BY DEF Running, Preparing, Enabled, Managed, Mode
  <1>5. Planned'
    BY <1>1, <1>2 DEF Planned, Ordered
  <1>6. Fresh'
    BY <1>1, <1>11 DEF Fresh
  <1>7. Claimed'
    <2>1. \A n \in Nodes : Kept(n)' <=> Kept(n)
      BY DEF Kept, Usable, Matching
    <2>2. ASSUME NEW q \in Runs, q[2] \notin raced', q # r
          PROVE  pair'[q] = pair[q] /\ pc'[q] = pc[q] /\ plan'[q] = plan[q] /\ q[2] \notin raced
      BY <1>1, <1>11, <2>2
    <2>3. plan'[r] = what /\ pc'[r] = p /\ p # "cert"
      BY <1>1
    <2> QED BY <1>11, <2>1, <2>2, <2>3 DEF Claimed
  <1>8. GoodKept'
    BY <1>1 DEF Plans, GoodKept, Kept, Usable, Matching
  <1>9. Ready'
    BY <1>1 DEF Ready, Kept, Usable, Matching, Managed, SelfSigned, Mode
  <1>10. BuiltInForce' /\ ActiveInForce'
    BY DEF BuiltInForce, ActiveInForce, Serves, Sound, Presents, Ours, Enabled, Managed, SelfSigned, Mode
  <1> QED BY <1>3, <1>4, <1>5, <1>6, <1>7, <1>8, <1>9, <1>10

(* The CA gives a certificate for a new key, or for the key renewed.       *)
LEMMA ObtainedInv ==
  ASSUME EInv, FInv, NEW r \in Runs, Obtained(r)
  PROVE  EInv' /\ FInv'
  <1> USE RunFacts DEF EInv, FInv, fileVars, mainVars, Protocol, Shapes, Goto, Obtained
  <1>1. PICK k \in Keys \ {0} :
          /\ pc' = [pc EXCEPT ![r] = "key"] /\ plan[r] \in {"create", "renew"}
          /\ plan[r] = "create" => pair' = [pair EXCEPT ![r] = FreshPair(k)]
          /\ plan[r] = "renew" => pair' = pair
    BY NewKeyIsAKey DEF Planned, Ordered
  <1>2. UNCHANGED <<cfg, key, crt, plan, good, raced, life, at, built, active,
                    env, lock, previous, provider>>
    OBVIOUS
  <1> HIDE DEF Obtained
  <1>3. EInv'
    BY <1>1, <1>2, pc[r] = "obtain" DEF Locked, OwnCredentials, Merged, Mode, Obtained
  <1>4. pc[r] = "obtain" /\ DOMAIN pair' = Runs
    BY <1>1 DEF Obtained
  <1>5. Running' /\ Planned'
    BY <1>1, <1>2, <1>4 DEF Running, Preparing, Enabled, Managed, Mode, Planned, Ordered
  <1>11. \A q \in Runs : q # r => pair'[q] = pair[q] /\ pc'[q] = pc[q]
    BY <1>1
  <1>6. Fresh'
    <2>2. pair'[r].age = "fresh" /\ pair'[r].ec
      BY <1>1 DEF Fresh, FreshPair
    <2> QED BY <1>1, <1>2, <1>11, <2>2 DEF Fresh
  <1>7. Claimed'
    <2>1. \A n \in Nodes : Kept(n)' <=> Kept(n)
      BY <1>2 DEF Kept, Usable, Matching
    <2>2. pc'[r] = "key" /\ plan'[r] = plan[r] /\ raced' = raced /\ key' = key
      BY <1>1, <1>2
    <2>3. plan[r] = "create" => pair'[r].key # 0
      BY <1>1 DEF FreshPair
    <2>4. plan[r] = "renew" => pair'[r].key = pair[r].key
      BY <1>1
    <2>5. ASSUME NEW q \in Runs, q # r
          PROVE  pair'[q] = pair[q] /\ pc'[q] = pc[q] /\ plan'[q] = plan[q]
      BY <1>2, <1>11, <2>5
    <2> QED BY <1>1, <1>4, <2>1, <2>2, <2>3, <2>4, <2>5 DEF Claimed
  <1>8. GoodKept'
    BY <1>2 DEF GoodKept, Kept, Usable, Matching
  <1>9. Ready' /\ BuiltInForce' /\ ActiveInForce'
    BY <1>1, <1>2 DEF Ready, BuiltInForce, ActiveInForce, Serves, Sound, Presents, Ours, Enabled, Managed,
       SelfSigned, Mode, Kept, Usable, Matching
  <1> QED BY <1>3, <1>5, <1>6, <1>7, <1>8, <1>9

(* The key file: a renewal writes the key that is there, a run that makes  *)
(* a new pair has nothing usable to spoil.                                 *)
LEMMA WriteKeyInv ==
  ASSUME EInv, FInv, NEW r \in Runs, WriteKey(r)
  PROVE  EInv' /\ FInv'
  <1> USE RunFacts DEF EInv, FInv, Protocol, Shapes
  <1>1. /\ pc[r] = "key" /\ pc' = [pc EXCEPT ![r] = "cert"]
        /\ key' = [key EXCEPT ![r[2]] = pair[r].key]
        /\ UNCHANGED <<cfg, crt, plan, pair, good, raced, life, at, built, active,
                       env, lock, previous, provider>>
    BY DEF WriteKey, Goto, sharedVars, mainVars
  <1>2. plan[r] \in {"create", "renew"}
    BY <1>1 DEF Planned, Ordered
  <1>3. r[2] \notin raced /\ Kept(r[2]) => pair[r].key = key[r[2]]
    BY <1>1, <1>2 DEF Claimed
  <1>4. EInv'
    BY <1>1 DEF Locked, OwnCredentials, Merged, Mode
  <1>5. Running' /\ Planned' /\ Fresh'
    BY <1>1 DEF Running, Preparing, Enabled, Managed, Mode, Planned, Ordered, Fresh
  <1>6. Claimed'
    <2>1. ASSUME NEW q \in Runs, q[2] \notin raced
          PROVE  /\ plan'[q] = "create" /\ pc'[q] # "cert" => ~Kept(q[2])'
                 /\ plan'[q] = "create" /\ pc'[q] \in {"key", "cert"} => pair'[q].key # 0
                 /\ plan'[q] = "renew" => Kept(q[2])' /\ pair'[q].key = key'[q[2]]
                 /\ pc'[q] = "cert" => pair'[q].key = key'[q[2]]
      <3>1. CASE q = r
        BY <1>1, <1>2, <1>3, <2>1, <3>1 DEF Claimed, Kept, Usable, Matching
      <3>2. CASE q = Other(r)
        BY <1>1, <1>2, <2>1, <3>2 DEF Planned, Ordered
      <3>3. CASE q[2] # r[2]
        BY <1>1, <2>1, <3>3 DEF Claimed, Kept, Usable, Matching
      <3> QED BY <3>1, <3>2, <3>3
    <2> QED BY <1>1, <2>1 DEF Claimed
  <1>7. GoodKept'
    BY <1>1, <1>3 DEF GoodKept, Kept, Usable, Matching
  <1>8. Ready'
    <2>1. ASSUME NEW q \in Runs, q[1] = Prepare, SelfSigned(q[2]), pc'[q] \in {"users", "build"}
          PROVE  key'[q[2]] = key[q[2]]
      <3>1. q # r /\ pc[q] # "idle"
        BY <1>1, <2>1
      <3>2. CASE q[2] = r[2]
        BY <1>1, <2>1, <3>1, <3>2 DEF Running, Managed, SelfSigned
      <3> QED BY <1>1, <3>2
    <2>2. ASSUME NEW q \in Runs, pc'[q] = "build", q[2] \notin raced, Kept(q[2])
          PROVE  Kept(q[2])'
      BY <1>1, <1>3, <2>2 DEF Kept, Usable, Matching
    <2> QED BY <1>1, <2>1, <2>2 DEF Ready, Usable, Matching, Managed, SelfSigned, Mode
  <1>9. BuiltInForce' /\ ActiveInForce'
    BY <1>1 DEF BuiltInForce, ActiveInForce, Serves, Sound, Presents, Ours, Enabled, Managed, SelfSigned, Mode
  <1> QED BY <1>4, <1>5, <1>6, <1>7, <1>8, <1>9

(* The certificate goes with the key that was written.                     *)
LEMMA WriteCertInv ==
  ASSUME EInv, FInv, NEW r \in Runs, WriteCert(r)
  PROVE  EInv' /\ FInv'
  <1> USE RunFacts DEF EInv, FInv, Protocol, Shapes
  <1>1. PICK p \in {"report", "build", "idle"} :
          /\ pc[r] = "cert" /\ pc' = [pc EXCEPT ![r] = p]
          /\ r[1] = Renew => p = "idle"
          /\ r[1] = Prepare => p = IF SelfSigned(r[2]) THEN "report" ELSE "build"
    BY DEF WriteCert, Goto, Returned
  <1>2. /\ crt' = [crt EXCEPT ![r[2]] = pair[r]] /\ plan' = [plan EXCEPT ![r] = "none"]
        /\ pair' = [pair EXCEPT ![r] = NoCert]
        /\ UNCHANGED <<cfg, key, life, at, built, active, env, lock>>
        /\ previous' = [previous EXCEPT ![r] = Base]
        /\ provider' = [provider EXCEPT ![r] = Base]
        /\ Settles(r[2])
    BY DEF WriteCert, Ends
  <1>3. /\ \A n \in Nodes : n # r[2] => (n \in raced' <=> n \in raced) /\ (n \in good' <=> n \in good)
        /\ r[2] \in good' => (Kept(r[2])' /\ r[2] \notin raced') \/ r[2] \in good
        /\ \A q \in Runs : q[2] \in raced /\ q[2] \notin raced' => pc'[q] = "idle"
        /\ raced' \subseteq raced
    BY <1>2 DEF Settles, GoodKept
  <1>4. r[2] \notin raced => Kept(r[2])'
    BY <1>1, <1>2 DEF Kept, Usable, Matching, Claimed, Fresh, Planned, Ordered
  <1>5. EInv'
    BY <1>1, <1>2, <1>3 DEF Locked, OwnCredentials, Merged, Mode, Settles
  <1>6. Running'
    <2>1. p = "report" => UsesTLSCertificate(Protocol(r[2]))
      BY <1>1 DEF SelfSigned
    <2> QED BY <1>1, <1>2, <2>1 DEF Running, Preparing, Enabled, Managed, Mode
  <1>7. Planned' /\ Fresh'
    BY <1>1, <1>2, <1>3 DEF Planned, Ordered, Fresh
  <1>9. \A n \in Nodes : n # r[2] => (Kept(n)' <=> Kept(n)) /\ (Usable(n)' <=> Usable(n))
    BY <1>2 DEF Kept, Usable, Matching
  <1>10. Claimed'
    <2>1. ASSUME NEW q \in Runs, q[2] \notin raced'
          PROVE  /\ plan'[q] = "create" /\ pc'[q] # "cert" => ~Kept(q[2])'
                 /\ plan'[q] = "create" /\ pc'[q] \in {"key", "cert"} => pair'[q].key # 0
                 /\ plan'[q] = "renew" => Kept(q[2])' /\ pair'[q].key = key'[q[2]]
                 /\ pc'[q] = "cert" => pair'[q].key = key'[q[2]]
      <3>1. CASE q = r
        BY <1>1, <1>2, <3>1
      <3>2. CASE q = Other(r)
        <4>1. plan[q] = "none" \/ r[2] \in raced
          BY <1>1, <3>2 DEF Planned, Ordered
        <4>2. plan'[q] = plan[q] /\ pc'[q] = pc[q]
          BY <1>1, <1>2, <3>2
        <4> QED BY <1>3, <2>1, <3>2, <4>1, <4>2 DEF Planned, Ordered
      <3>3. CASE q[2] # r[2]
        <4>1. q[2] \notin raced
          BY <1>3, <2>1, <3>3
        <4>2. plan'[q] = plan[q] /\ pc'[q] = pc[q] /\ pair'[q] = pair[q]
          BY <1>1, <1>2, <3>3
        <4> QED BY <1>2, <1>9, <3>3, <4>1, <4>2 DEF Claimed
      <3> QED BY <3>1, <3>2, <3>3
    <2> QED BY <2>1 DEF Claimed
  <1>11. GoodKept'
    <2>1. ASSUME NEW n \in good'
          PROVE  Kept(n)' /\ n \notin raced'
      <3>1. CASE n = r[2]
        BY <1>3, <1>4, <2>1, <3>1 DEF GoodKept
      <3>2. CASE n # r[2]
        BY <1>2, <1>3, <1>9, <2>1, <3>2 DEF GoodKept, Settles
      <3> QED BY <3>1, <3>2
    <2> QED BY <2>1 DEF GoodKept
  <1>12. Ready'
    <2>1. ASSUME NEW q \in Runs, q[1] = Prepare
          PROVE  /\ pc'[q] = "build" /\ Managed(q[2]) /\ q[2] \notin raced' => Kept(q[2])'
                 /\ pc'[q] \in {"users", "build"} /\ SelfSigned(q[2]) =>
                      Usable(q[2])' /\ built[q[2]].print = crt'[q[2]].key
      <3>1. CASE q = r
        BY <1>1, <1>3, <1>4, <2>1, <3>1 DEF Managed, SelfSigned
      <3>2. CASE q = Other(r)
        <4>1. r[1] = Renew /\ Managed(r[2]) /\ ~SelfSigned(r[2])
          BY <1>1, <2>1, <3>2 DEF Running, Managed, SelfSigned
        <4> QED BY <1>1, <1>3, <1>4, <2>1, <3>2, <4>1
      <3>3. CASE q[2] # r[2]
        BY <1>1, <1>2, <1>3, <1>9, <2>1, <3>3 DEF Ready
      <3> QED BY <3>1, <3>2, <3>3
    <2> QED BY <1>2, <2>1 DEF Ready, Managed, SelfSigned, Mode
  <1>8. BuiltInForce' /\ ActiveInForce'
    BY <1>2 DEF BuiltInForce, ActiveInForce, Serves, Sound, Presents, Ours, Enabled, Managed, SelfSigned, Mode
  <1> QED BY <1>5, <1>6, <1>7, <1>8, <1>10, <1>11, <1>12

(* The errors of a run give up, with the mutex if it has it.               *)
LEMMA FailsInv ==
  ASSUME EInv, FInv, NEW r \in Runs,
         \/ NewLegoFails(r) \/ ApplyFails(r) \/ ProviderFails(r)
         \/ PortTaken(r) \/ ObtainFails(r) \/ WriteFails(r)
  PROVE  EInv' /\ FInv'
  <1>1. GivesUp(r) /\ pc[r] # "idle"
    BY DEF NewLegoFails, ApplyFails, ProviderFails, PortTaken, Ordering, ObtainFails, WriteFails
  <1>2. CASE ProviderFails(r)
    <2>1. lock = r /\ env' = Base /\ lock' = NoRun
      BY <1>2, RestoredIsBase DEF ProviderFails, EInv, Locked
    <2> QED BY <1>1, <2>1, GivesUpInv
  <1>3. CASE ~ProviderFails(r)
    <2>1. env' = env /\ lock' = lock /\ pc[r] \notin {"provide", "restore"}
      BY <1>3 DEF NewLegoFails, ApplyFails, PortTaken, Ordering, ObtainFails, WriteFails
    <2>2. lock # r
      BY <2>1 DEF EInv, Locked
    <2> QED BY <1>1, <2>1, <2>2, GivesUpInv
  <1> QED BY <1>2, <1>3

(* requestCert for the node that is prepared.                              *)
LEMMA RequestCertInv ==
  ASSUME EInv, FInv, NEW r \in Runs, RequestCert(r)
  PROVE  EInv' /\ FInv'
  <1>1. r[1] = Prepare /\ pc[r] = "check" /\ lock # r /\ UsesTLSCertificate(Protocol(r[2]))
    BY DEF RequestCert, EInv, Locked, FInv, Running
  <1>2. plan[r] = "none"
    BY <1>1 DEF FInv, Planned, Ordered
  <1> DEFINE returns == /\ UNCHANGED fileVars /\ Goto(r, Returned(r)) /\ Ends(r)
                        /\ UNCHANGED <<cfg, mainVars, env, lock, port80, spent>>
             refuses == GivesUp(r) /\ UNCHANGED <<env, lock>>
             creates == /\ Plans(r, "create")
                        /\ IF Mode(r[2]) = "self"
                           THEN pair' = [pair EXCEPT ![r] = FreshPair(NewKey)] /\ Goto(r, "key")
                           ELSE UNCHANGED pair /\ Goto(r, "account")
                        /\ UNCHANGED <<cfg, fileVars, sharedVars, mainVars, spent>>
  <1>3. \/ returns /\ Mode(r[2]) \in {"", "none"}
        \/ returns /\ Mode(r[2]) = "file"
        \/ returns /\ Mode(r[2]) \in {"dns", "http", "self"} /\ Kept(r[2])
        \/ refuses
        \/ creates /\ Mode(r[2]) \in {"dns", "http", "self"} /\ ~Kept(r[2])
    BY DEF RequestCert
  <1>4. CASE refuses
    BY <1>1, <1>4, GivesUpInv
  <1>5. CASE creates /\ Mode(r[2]) \in {"dns", "http", "self"} /\ ~Kept(r[2])
    <2>1. CASE Mode(r[2]) = "self"
      <3>1. \E k \in Keys \ {0} : pair' = [pair EXCEPT ![r] = FreshPair(k)]
        BY <1>5, <2>1, NewKeyIsAKey
      <3>2. pc' = [pc EXCEPT ![r] = "key"]
        BY <1>5, <2>1 DEF Goto
      <3> QED BY <1>1, <1>2, <1>5, <2>1, <3>1, <3>2, PlansInv DEF Prepare, Renew
    <2>2. CASE Mode(r[2]) # "self"
      <3>1. pc' = [pc EXCEPT ![r] = "account"] /\ pair' = pair
        BY <1>5, <2>2 DEF Goto
      <3>2. Managed(r[2])
        BY <1>1, <1>5, <2>2 DEF Managed
      <3> QED BY <1>1, <1>2, <1>5, <2>2, <3>1, <3>2, PlansInv DEF Prepare, Renew, Ordered
    <2> QED BY <2>1, <2>2
  <1>6. CASE returns /\ (Mode(r[2]) \in {"dns", "http", "self"} => Kept(r[2]))
    <2> USE RunFacts, <1>1, <1>2, <1>6
        DEF EInv, FInv, Shapes, fileVars, mainVars, Protocol
    <2>1. PICK p \in {"report", "build"} :
            /\ pc' = [pc EXCEPT ![r] = p]
            /\ p = "report" <=> SelfSigned(r[2])
      BY DEF Goto, Returned
    <2>2. /\ plan' = [plan EXCEPT ![r] = "none"] /\ pair' = [pair EXCEPT ![r] = NoCert]
          /\ UNCHANGED <<cfg, key, crt, life, at, built, active, env, lock>>
          /\ previous' = [previous EXCEPT ![r] = Base]
          /\ provider' = [provider EXCEPT ![r] = Base]
          /\ raced' = raced
          /\ good \subseteq good' /\ \A n \in good' : n \in good \/ n = r[2]
          /\ r[2] \in good' => r[2] \in good \/ (Kept(r[2])' /\ r[2] \notin raced)
      <3>1. raced' = raced
        <4>1. r \in Runs /\ pc'[r] # "idle"
          BY <2>1
        <4>2. ~ \A q \in Runs : q[2] = r[2] => pc'[q] = "idle"
          BY <4>1
        <4> QED BY <4>2 DEF Ends, Settles
      <3>2. good' = IF r[2] \notin raced' /\ Kept(r[2])' THEN good \cup {r[2]} ELSE good
        BY DEF Ends, Settles
      <3>3. /\ plan' = [plan EXCEPT ![r] = "none"] /\ pair' = [pair EXCEPT ![r] = NoCert]
            /\ UNCHANGED <<cfg, key, crt, life, at, built, active, env, lock>>
            /\ previous' = [previous EXCEPT ![r] = Base]
            /\ provider' = [provider EXCEPT ![r] = Base]
        BY DEF Ends
      <3>4. /\ good \subseteq good' /\ \A n \in good' : n \in good \/ n = r[2]
            /\ r[2] \in good' => r[2] \in good \/ (Kept(r[2])' /\ r[2] \notin raced)
        BY <3>1, <3>2
      <3> QED BY <3>1, <3>3, <3>4
    <2> HIDE <1>6
    <2>3. EInv'
      BY <2>1, <2>2 DEF Locked, OwnCredentials, Merged, Mode
    <2>4. Running' /\ Planned' /\ Fresh'
      BY <2>1, <2>2 DEF Running, Preparing, Enabled, Managed, SelfSigned, Mode, Planned, Ordered, Fresh
    <2>5. \A n \in Nodes : (Kept(n)' <=> Kept(n)) /\ (Usable(n)' <=> Usable(n))
      BY <2>2 DEF Kept, Usable, Matching
    <2>6. Claimed' /\ GoodKept'
      BY <2>1, <2>2, <2>5 DEF Claimed, GoodKept
    <2>7. Ready'
      BY <1>6, <2>1, <2>2, <2>5 DEF Ready, Managed, SelfSigned, Mode
    <2>8. BuiltInForce' /\ ActiveInForce'
      BY <2>2 DEF BuiltInForce, ActiveInForce, Serves, Sound, Presents, Ours, Enabled, Managed, SelfSigned, Mode
    <2> QED BY <2>3, <2>4, <2>6, <2>7, <2>8
  <1> QED BY <1>3, <1>4, <1>5, <1>6

(* RenewCert, which leaves what is not due.                                *)
LEMMA RenewCertInv ==
  ASSUME EInv, FInv, NEW r \in Runs, RenewCert(r)
  PROVE  EInv' /\ FInv'
  <1>1. r[1] = Renew /\ pc[r] = "ready" /\ lock # r /\ plan[r] = "none" /\ Managed(r[2])
    BY DEF RenewCert, EInv, Locked, FInv, Running
  <1>2. CASE GivesUp(r) /\ UNCHANGED <<env, lock>>
    BY <1>1, <1>2, GivesUpInv
  <1>3. CASE \E what \in {"create", "renew"} :
               /\ what = "create" => ~Kept(r[2]) /\ pair' = pair
               /\ what = "renew" => Kept(r[2]) /\ pair' = [pair EXCEPT ![r] = RenewedPair(r[2])]
               /\ Plans(r, what) /\ Goto(r, "order")
               /\ UNCHANGED <<cfg, fileVars, sharedVars, mainVars>>
    <2>1. PICK what \in {"create", "renew"} :
               /\ what = "create" => ~Kept(r[2]) /\ pair' = pair
               /\ what = "renew" => Kept(r[2]) /\ pair' = [pair EXCEPT ![r] = FreshPair(key[r[2]])]
               /\ Plans(r, what) /\ pc' = [pc EXCEPT ![r] = "order"]
               /\ UNCHANGED <<cfg, fileVars, sharedVars, mainVars>>
      BY <1>3 DEF RenewedPair, Goto
    <2>2. UsesTLSCertificate(Protocol(r[2]))
      BY <1>1 DEF Managed
    <2>3. pair' = pair \/ what = "renew"
      BY <2>1
    <2> QED BY <1>1, <2>1, <2>2, <2>3, PlansInv DEF Prepare, Renew
  <1> QED BY <1>2, <1>3 DEF RenewCert

-----------------------------------------------------------------------------
(* Steps of main that leave the files, the environment and the renewals    *)
(* alone, from one state of its life to another.                           *)
LEMMA LifeInv ==
  ASSUME EInv, FInv, Boots \/ ConfigRefused \/ ReloadBegins \/ StopsOld
  PROVE  EInv' /\ FInv'
  <1> USE RunFacts DEF EInv, FInv, fileVars, sharedVars, Protocol, Shapes
  <1>1. UNCHANGED <<cfg, key, crt, env, lock, previous, provider, at, built, active,
                    pc, plan, pair, good, raced>>
    BY DEF Boots, ConfigRefused, ReloadBegins, StopsOld
  <1>2. EInv'
    BY <1>1 DEF Locked, OwnCredentials, Merged, Mode
  <1>3. \A q \in Runs : q[1] = Prepare => pc[q] = "idle"
    BY NodesAssumption DEF Boots, ConfigRefused, ReloadBegins, StopsOld, Running, Preparing, Prepared
  <1>4. Running'
    BY <1>1, <1>3 DEF Boots, ConfigRefused, ReloadBegins, StopsOld, Running, Preparing,
       Prepared, Enabled, Managed, Mode
  <1>5. Planned' /\ Fresh' /\ Claimed' /\ GoodKept'
    BY <1>1 DEF Planned, Ordered, Fresh, Claimed, GoodKept, Kept, Usable, Matching
  <1>6. Ready' /\ BuiltInForce'
    BY <1>1 DEF Ready, BuiltInForce, Sound, Presents, Ours, Enabled, Managed, SelfSigned, Mode,
       Kept, Usable, Matching
  <1>7. ActiveInForce'
    BY <1>1 DEF Boots, ConfigRefused, ReloadBegins, StopsOld, ActiveInForce, Serves, Sound, Presents, Ours, Enabled, Managed,
       SelfSigned, Mode
  <1> QED BY <1>2, <1>4, <1>5, <1>6, <1>7

(* Runs begin, and nodes are passed over.                                  *)
LEMMA BeginsInv ==
  ASSUME EInv, FInv, NEW n \in Nodes, SkipNode(n) \/ PrepareNode(n) \/ RenewBegins(n)
  PROVE  EInv' /\ FInv'
  <1> USE RunFacts DEF EInv, FInv, fileVars, sharedVars, mainVars, Protocol, Shapes
  <1>1. CASE SkipNode(n)
    <2>1. /\ at' = at + 1 /\ at = n /\ ~Enabled(n)
          /\ UNCHANGED <<cfg, key, crt, env, lock, previous, provider, life, built, active,
                         pc, plan, pair, good, raced>>
      BY <1>1 DEF SkipNode, Preparing
    <2>2. Running'
      BY <1>1, <2>1 DEF Running, SkipNode, Preparing, Enabled, Managed, Mode
    <2>3. EInv' /\ Planned' /\ Fresh' /\ Claimed' /\ GoodKept'
      BY <2>1 DEF Locked, OwnCredentials, Merged, Mode, Planned, Ordered, Fresh, Claimed,
         GoodKept, Kept, Usable, Matching
    <2>4. Ready' /\ ActiveInForce'
      BY <2>1 DEF Ready, ActiveInForce, Serves, Sound, Presents, Ours, Enabled, Managed, SelfSigned, Mode, Kept, Usable, Matching
    <2>5. BuiltInForce'
      BY <2>1, NodesAssumption DEF BuiltInForce, Sound, Presents, Ours, Enabled, Managed, SelfSigned, Mode
    <2> QED BY <2>2, <2>3, <2>4, <2>5
  <1>2. CASE PrepareNode(n) \/ RenewBegins(n)
    <2>1. PICK r \in Runs, p \in {"check", "users", "account"} :
            /\ pc[r] = "idle" /\ pc' = [pc EXCEPT ![r] = p] /\ r[2] = n
            /\ r[1] = Prepare => /\ Preparing(n) /\ Enabled(n)
                                 /\ p = IF SelfSigned(n) THEN "check" ELSE "users"
            /\ r[1] = Renew => Managed(n) /\ p = "account"
            /\ r[1] = Renew => life \in {"up", "reload"}
      BY <1>2 DEF PrepareNode, RenewBegins, Goto
    <2>2. UNCHANGED <<cfg, key, crt, env, lock, previous, provider, life, at, built, active,
                      plan, pair, good, raced>>
      BY <1>2 DEF PrepareNode, RenewBegins
    <2>3. Running'
      BY <2>1, <2>2 DEF Running, Preparing, Enabled, Managed, SelfSigned, Mode
    <2>4. EInv' /\ Planned' /\ Fresh' /\ Claimed' /\ GoodKept'
      BY <2>1, <2>2 DEF Locked, OwnCredentials, Merged, Mode, Planned, Ordered, Fresh, Claimed,
         GoodKept, Kept, Usable, Matching
    <2>5. Ready' /\ ActiveInForce' /\ BuiltInForce'
      BY <2>1, <2>2 DEF Ready, ActiveInForce, Serves, BuiltInForce, Sound, Presents, Ours, Enabled, Managed,
         SelfSigned, Mode, Kept, Usable, Matching
    <2> QED BY <2>3, <2>4, <2>5
  <1> QED BY <1>1, <1>2

(* The fingerprint and the users of the node that is prepared.             *)
LEMMA PrepareInv ==
  ASSUME EInv, FInv, NEW n \in Nodes, ReportSelfCertificate(n) \/ GetUsers(n)
  PROVE  EInv' /\ FInv'
  <1> USE RunFacts
  <1>1. PICK r \in Runs : r = <<Prepare, n>> /\ r[1] = Prepare /\ r[2] = n
    OBVIOUS
  <1>2. pc[r] \in {"report", "users"} /\ lock # r
    BY <1>1 DEF ReportSelfCertificate, GetUsers, EInv, Locked
  <1>3. CASE GivesUp(r) /\ UNCHANGED <<env, lock>>
    BY <1>2, <1>3, GivesUpInv
  <1>4. CASE /\ pc[r] = "report" /\ Usable(n)
             /\ built' = [built EXCEPT ![n].print = crt[n].key]
             /\ Goto(r, "users")
             /\ UNCHANGED <<cfg, fileVars, sharedVars, life, at, active, plan, pair, good, raced>>
    <2> USE <1>1, <1>4 DEF EInv, FInv, fileVars, sharedVars, Protocol, Shapes, Goto
    <2>1. at = n
      BY DEF Running, Preparing
    <2>2. EInv' /\ Running' /\ Planned' /\ Fresh' /\ Claimed' /\ GoodKept'
      BY DEF Locked, OwnCredentials, Merged, Mode, Running, Preparing, Enabled, Managed,
         Planned, Ordered, Fresh, Claimed, GoodKept, Kept, Usable, Matching
    <2>3. \A q \in Runs : q[1] = Prepare /\ q # r => q[2] # n
      OBVIOUS
    <2>4. Ready'
      <3>1. built'[n].print = crt[n].key
        BY DEF Running
      <3>2. \A m \in Nodes : m # n => built'[m] = built[m]
        OBVIOUS
      <3> QED BY <2>3, <3>1, <3>2 DEF Ready, Managed, SelfSigned, Mode, Kept, Usable, Matching
    <2>5. /\ \A m \in Nodes : m < n => built'[m] = built[m]
          /\ UNCHANGED <<cfg, at, life, active>>
      BY NodesAssumption
    <2>6. \A m \in Nodes : /\ Ours(m)' <=> Ours(m)
                           /\ Sound(active[m], m)' <=> Sound(active[m], m)
                           /\ m < n => (Sound(built[m], m)' <=> Sound(built[m], m))
      <3> HIDE <1>1, <1>4 DEF EInv, FInv, Shapes
      <3>1. \A m \in Nodes : (Ours(m)' <=> Ours(m)) /\ (SelfSigned(m)' <=> SelfSigned(m))
        BY <2>5 DEF Ours, Enabled, Managed, SelfSigned, Mode
      <3> QED BY <2>5, <3>1 DEF Sound, Presents
    <2>7. BuiltInForce' /\ ActiveInForce'
      BY <2>1, <2>5, <2>6 DEF BuiltInForce, ActiveInForce, Serves
    <2> QED BY <2>2, <2>4, <2>7
  <1>5. CASE /\ pc[r] = "users"
             /\ Goto(r, IF UsesTLSCertificate(Protocol(n)) /\ ~SelfSigned(n)
                        THEN "check" ELSE "build")
             /\ UNCHANGED <<cfg, fileVars, sharedVars, mainVars, plan, pair, good, raced>>
    <2> USE <1>1, <1>5 DEF EInv, FInv, fileVars, sharedVars, mainVars, Protocol, Shapes
    <2>1. PICK p \in {"check", "build"} :
            /\ pc' = [pc EXCEPT ![r] = p]
            /\ p = "check" <=> UsesTLSCertificate(Protocol(n)) /\ ~SelfSigned(n)
      BY DEF Goto
    <2>2. EInv' /\ Running' /\ Planned' /\ Fresh' /\ Claimed' /\ GoodKept'
      BY <2>1 DEF Locked, OwnCredentials, Merged, Mode, Running, Preparing, Enabled, Managed,
         Planned, Ordered, Fresh, Claimed, GoodKept, Kept, Usable, Matching
    <2>3. Managed(n) => ~SelfSigned(n) /\ UsesTLSCertificate(Protocol(n))
      BY DEF Managed, SelfSigned
    <2>4. Ready' /\ BuiltInForce' /\ ActiveInForce'
      BY <2>1, <2>3 DEF Ready, BuiltInForce, ActiveInForce, Serves, Sound, Presents, Ours, Enabled, Managed,
         SelfSigned, Mode, Kept, Usable, Matching
    <2> QED BY <2>2, <2>4
  <1> QED BY <1>1, <1>2, <1>3, <1>4, <1>5 DEF ReportSelfCertificate, GetUsers

(* The inbound of a node presents what the files hold by then.             *)
LEMMA BuildNodeInv ==
  ASSUME EInv, FInv, NEW n \in Nodes, BuildNode(n)
  PROVE  EInv' /\ FInv'
  <1> USE RunFacts
  <1>1. PICK r \in Runs : r = <<Prepare, n>> /\ r[1] = Prepare /\ r[2] = n
    OBVIOUS
  <1>2. pc[r] = "build" /\ lock # r /\ at = n
    BY <1>1 DEF BuildNode, EInv, Locked, Preparing
  <1> DEFINE in == BuildInbound(Protocol(n), ReadKey(n) # 0 /\ ReadCrt(n) # NoCert)
             presented == IF in.security = "tls"
                          THEN [key |-> ReadKey(n), crt |-> ReadCrt(n),
                                print |-> built[n].print,
                                own |-> ReadKey(n) = key[n] /\ ReadCrt(n) = crt[n],
                                excused |-> n \in raced]
                          ELSE NotServing
  <1>4. CASE GivesUp(r) /\ UNCHANGED <<env, lock>>
    BY <1>2, <1>4, GivesUpInv
  <1>5. CASE /\ in # Refused
             /\ built' = [built EXCEPT ![n] = presented]
             /\ at' = at + 1
             /\ Goto(r, "idle")
             /\ UNCHANGED <<cfg, fileVars, sharedVars, life, active, plan, pair>>
             /\ Settles(n)
    <2>1. Ours(n) => in.security = "tls" /\ ReadKey(n) # 0 /\ ReadCrt(n) # NoCert
      <3> SUFFICES ASSUME Ours(n)
                   PROVE  in.security = "tls" /\ ReadKey(n) # 0 /\ ReadCrt(n) # NoCert
        OBVIOUS
      <3>1. UsesTLSCertificate(Protocol(n)) /\ Mode(n) \in {"dns", "http", "self"}
        BY DEF Ours, Managed, SelfSigned
      <3> QED BY <1>5, <3>1, TLSIsBuilt DEF Mode
    <2>2. Ours(n) /\ n \notin raced =>
            Usable(n) /\ (SelfSigned(n) => built[n].print = crt[n].key)
      BY <1>1, <1>2 DEF FInv, Ready, Ours, Kept
    <2>3. Ours(n) /\ (cfg.linked \/ presented.own) /\ ~presented.excused
            => Presents(presented, n)
      <3>1. cfg.linked => ReadKey(n) = key[n] /\ ReadCrt(n) = crt[n]
        BY DEF ReadKey, ReadCrt
      <3> QED BY <2>1, <2>2, <3>1 DEF Presents, Usable, Matching
    <2>4. Ours(n) => Sound(presented, n)
      BY <2>1, <2>3 DEF Sound
    <2> HIDE DEF presented, in
    <2> USE <1>1, <1>2 DEF EInv, FInv, Shapes, fileVars, sharedVars, Protocol
    <2>5. /\ pc' = [pc EXCEPT ![r] = "idle"] /\ built' = [built EXCEPT ![n] = presented]
          /\ at' = n + 1 /\ n \in Nat
          /\ UNCHANGED <<cfg, key, crt, env, lock, previous, provider, life, active, plan, pair>>
      BY <1>5, NodesAssumption DEF Goto
    <2>6. /\ \A q \in Runs : q[2] \in raced /\ q[2] \notin raced' => pc'[q] = "idle"
          /\ raced' \subseteq raced /\ raced \subseteq raced' \cup {n}
          /\ good' \subseteq Nodes
      BY <1>5 DEF Settles
    <2>7. EInv'
      BY <2>5, <2>6 DEF Locked, OwnCredentials, Merged, Mode
    <2>8. \A q \in Runs : q[1] = Prepare => pc'[q] = "idle"
      BY <2>5 DEF Running, Preparing
    <2>9. Running'
      BY <2>5, <2>8 DEF Running, Preparing, Enabled, Managed, Mode
    <2>10. Planned' /\ Fresh'
      BY <2>5, <2>6 DEF Planned, Ordered, Fresh
    <2>11. \A m \in Nodes : Kept(m)' <=> Kept(m)
      BY <2>5 DEF Kept, Usable, Matching
    <2>12. Claimed'
      <3>1. ASSUME NEW q \in Runs, q[2] \notin raced', q[2] \in raced
            PROVE  plan'[q] = "none" /\ pc'[q] = "idle"
        BY <2>5, <2>6, <3>1 DEF Planned, Ordered
      <3>2. ASSUME NEW q \in Runs
            PROVE  pc'[q] \in {pc[q], "idle"} /\ plan'[q] = plan[q] /\ pair'[q] = pair[q]
        BY <2>5
      <3>3. \A q \in Runs : pc'[q] = "idle" => plan'[q] = "none"
        BY <2>10 DEF Planned, Ordered
      <3>4. ASSUME NEW q \in Runs, q[2] \notin raced'
            PROVE  /\ plan'[q] = "create" /\ pc'[q] # "cert" => ~Kept(q[2])'
                   /\ plan'[q] = "create" /\ pc'[q] \in {"key", "cert"} => pair'[q].key # 0
                   /\ plan'[q] = "renew" => Kept(q[2])' /\ pair'[q].key = key'[q[2]]
                   /\ pc'[q] = "cert" => pair'[q].key = key'[q[2]]
        <4>1. CASE pc'[q] = "idle"
          BY <3>3, <4>1
        <4>2. CASE pc'[q] # "idle"
          <5>1. q[2] \notin raced /\ pc'[q] = pc[q]
            BY <3>1, <3>2, <3>4, <4>2
          <5>2. key' = key /\ (Kept(q[2])' <=> Kept(q[2]))
            BY <2>5, <2>11
          <5> QED BY <3>2, <5>1, <5>2 DEF Claimed
        <4> QED BY <4>1, <4>2
      <3> QED BY <3>4 DEF Claimed
    <2>13. GoodKept'
      BY <1>5, <2>11 DEF GoodKept, Settles
    <2>14. Ready'
      BY <2>8 DEF Ready
    <2>15. BuiltInForce'
      BY <2>4, <2>5, NodesAssumption DEF BuiltInForce, Sound, Presents, Ours, Enabled, Managed, SelfSigned, Mode
    <2>16. ActiveInForce'
      BY <2>5 DEF ActiveInForce, Serves, Sound, Presents, Ours, Enabled, Managed, SelfSigned, Mode
    <2> QED BY <2>7, <2>9, <2>10, <2>12, <2>13, <2>14, <2>15, <2>16
  <1> QED BY <1>1, <1>4, <1>5 DEF BuildNode

(* The nodes that were prepared begin to serve, or the old ones go on.     *)
LEMMA StartsInv ==
  ASSUME EInv, FInv, Starts
  PROVE  EInv' /\ FInv'
  <1> USE RunFacts DEF EInv, FInv, fileVars, sharedVars, Protocol, Shapes
  <1>1. /\ at' = 1 /\ built' = [n \in Nodes |-> NotServing]
        /\ UNCHANGED <<cfg, key, crt, env, lock, previous, provider, pc, plan, pair, good, raced>>
    BY DEF Starts
  <1>2. at \notin Nodes /\ life \in {"boot", "reload", "switch"}
    BY DEF Starts, Prepared, Running
  <1>3. \A q \in Runs : q[1] = Prepare => pc[q] = "idle"
    BY <1>2 DEF Running, Preparing
  <1>4. \/ active' = built /\ life' = "up"
        \/ active' = active /\ life' \in {"up", "down"} /\ (life' = "up" => life = "switch")
    BY DEF Starts
  <1>5. EInv'
    BY <1>1, <1>4 DEF Locked, OwnCredentials, Merged, Mode, Starts
  <1>6. Running'
    BY <1>1, <1>3, <1>4 DEF Running, Enabled, Managed, Mode
  <1>7. Planned' /\ Fresh' /\ Claimed' /\ GoodKept'
    BY <1>1 DEF Planned, Ordered, Fresh, Claimed, GoodKept, Kept, Usable, Matching
  <1>8. Ready'
    BY <1>1, <1>3 DEF Ready
  <1>9. BuiltInForce'
    BY <1>1, NodesAssumption DEF BuiltInForce
  <1>10. ActiveInForce'
    <2>1. CASE active' = built /\ life' = "up"
      <3>1. \A n \in Nodes : n < at
        BY <1>2, NodesAssumption
      <3>2. \A n \in Nodes : Ours(n) => Sound(built[n], n)
        BY <3>1 DEF BuiltInForce
      <3> QED BY <1>1, <2>1, <3>2 DEF ActiveInForce, Serves, Sound, Presents, Ours, Enabled, Managed, SelfSigned, Mode
    <2>2. CASE active' = active
      BY <1>1, <1>4, <2>1, <2>2 DEF ActiveInForce, Serves, Sound, Presents, Ours, Enabled, Managed, SelfSigned, Mode
    <2> QED BY <1>4, <2>1, <2>2
  <1> QED BY <1>5, <1>6, <1>7, <1>8, <1>9, <1>10

(* A certificate that expires is nobody's any more.                        *)
LEMMA GetsOlderInv ==
  ASSUME EInv, FInv, NEW n \in Nodes, GetsOlder(n)
  PROVE  EInv' /\ FInv'
  <1> USE RunFacts DEF EInv, FInv, Protocol, Shapes
  <1>1. /\ UNCHANGED <<cfg, key, env, lock, previous, provider, life, at, built, active,
                       pc, plan, pair>>
        /\ Managed(n) /\ DOMAIN crt' = DOMAIN crt
        /\ \A m \in Nodes : m # n => crt'[m] = crt[m]
        /\ crt'[n].key = crt[n].key /\ crt'[n].ec = crt[n].ec
    BY DEF GetsOlder, sharedVars, mainVars
  <1>2. \/ crt[n].age = "fresh" /\ crt'[n].age = "due" /\ UNCHANGED <<good, raced>>
        \/ /\ crt[n].age = "due" /\ crt'[n].age = "expired" /\ good' = good \ {n}
           /\ raced' = IF \E r \in Runs : r[2] = n /\ pc[r] # "idle" THEN raced \cup {n} ELSE raced
    BY DEF GetsOlder, Older
  <1>3. \A m \in Nodes : Kept(m)' => Kept(m)
    BY <1>1, <1>2 DEF Kept, Usable, Matching
  <1>4. \A m \in Nodes : (Kept(m) => Kept(m)') \/ m \notin good'
    BY <1>1, <1>2 DEF Kept, Usable, Matching
  <1>5. \A r \in Runs : pc[r] # "idle" => (Kept(r[2]) => Kept(r[2])') \/ r[2] \in raced'
    BY <1>1, <1>2 DEF Kept, Usable, Matching
  <1>6. good' \subseteq good /\ raced \subseteq raced' /\ good' \cap raced' = {}
    BY <1>2 DEF GoodKept
  <1>7. EInv'
    BY <1>1, <1>6 DEF Locked, OwnCredentials, Merged, Mode
  <1>8. Running' /\ Planned' /\ Fresh'
    BY <1>1, <1>6 DEF Running, Preparing, Enabled, Managed, Mode, Planned, Ordered, Fresh
  <1>9. Claimed'
    <2>1. \A r \in Runs : plan[r] # "none" => pc[r] # "idle"
      BY DEF Planned, Ordered
    <2> QED BY <1>1, <1>3, <1>5, <1>6, <2>1 DEF Claimed
  <1>10. GoodKept'
    BY <1>4, <1>6 DEF GoodKept
  <1>11. Ready'
    <2>1. ~SelfSigned(n)
      BY <1>1 DEF Managed, SelfSigned
    <2>2. \A m \in Nodes : SelfSigned(m) => (Usable(m)' <=> Usable(m)) /\ crt'[m] = crt[m]
      BY <1>1, <2>1 DEF Usable, Matching
    <2> QED BY <1>1, <1>5, <1>6, <2>2 DEF Ready, Managed, SelfSigned, Mode
  <1>12. BuiltInForce' /\ ActiveInForce'
    BY <1>1 DEF BuiltInForce, ActiveInForce, Serves, Sound, Presents, Ours, Enabled, Managed, SelfSigned, Mode
  <1> QED BY <1>7, <1>8, <1>9, <1>10, <1>11, <1>12

(* The process dies, wherever its runs are.                                *)
LEMMA CrashInv ==
  ASSUME EInv, FInv, Crash
  PROVE  EInv' /\ FInv'
  <1> USE RunFacts DEF EInv, FInv, fileVars, Protocol, Shapes, Crash
  <1>1. EInv'
    BY DEF Locked, OwnCredentials
  <1>2. Running' /\ Planned' /\ Fresh' /\ Claimed' /\ Ready'
    BY DEF Running, Planned, Ordered, Fresh, Claimed, Ready
  <1>3. GoodKept'
    BY DEF GoodKept, Kept, Usable, Matching
  <1>4. BuiltInForce' /\ ActiveInForce'
    BY NodesAssumption DEF BuiltInForce, ActiveInForce, Serves
  <1> QED BY <1>1, <1>2, <1>3, <1>4

-----------------------------------------------------------------------------
(* Connections leave all of it alone.                                      *)
LEMMA CertVarsInv ==
  ASSUME EInv, FInv, UNCHANGED certVars
  PROVE  EInv' /\ FInv'
  <1>1. UNCHANGED <<cfg, key, crt, env, lock, previous, provider, life, at, built, active,
                    pc, plan, pair, good, raced>>
    BY DEF certVars, fileVars, sharedVars, mainVars
  <1>2. EInv'
    BY <1>1 DEF EInv, Shapes, Locked, OwnCredentials, Merged, Mode, Protocol
  <1>3. Running' /\ Planned' /\ Fresh' /\ Claimed' /\ GoodKept'
    BY <1>1 DEF FInv, Running, Preparing, Enabled, Managed, Mode, Protocol, Planned, Ordered,
       Fresh, Claimed, GoodKept, Kept, Usable, Matching
  <1>4. Ready' /\ BuiltInForce' /\ ActiveInForce'
    BY <1>1 DEF FInv, Ready, BuiltInForce, ActiveInForce, Serves, Sound, Presents, Ours, Enabled, Managed,
       SelfSigned, Mode, Protocol, Kept, Usable, Matching
  <1> QED BY <1>2, <1>3, <1>4 DEF FInv

(* The account, the challenge, the order and the files of any run.         *)
LEMMA LegoStepInv ==
  ASSUME EInv, FInv, NEW r \in Runs, Lego(r)
  PROVE  EInv' /\ FInv'
  BY LegoInv, FailsInv, ObtainedInv, WriteKeyInv, WriteCertInv DEF Lego

(* Main, the renewals, time, and the end of the process.                   *)
LEMMA NextInv ==
  ASSUME EInv, FInv, [CertNext]_certVars
  PROVE  EInv' /\ FInv'
  <1>1. CASE Main
    <2>1. ASSUME NEW n \in Nodes, RequestCert(<<Prepare, n>>) \/ Lego(<<Prepare, n>>)
          PROVE  EInv' /\ FInv'
      BY <2>1, RunFacts, RequestCertInv, LegoStepInv
    <2> QED BY <1>1, <2>1, LifeInv, BeginsInv, PrepareInv, BuildNodeInv, StartsInv DEF Main
  <1>2. ASSUME NEW n \in Nodes, RenewalRun(n)
        PROVE  EInv' /\ FInv'
    BY <1>2, RunFacts, BeginsInv, RenewCertInv, LegoStepInv DEF RenewalRun
  <1> QED BY <1>1, <1>2, GetsOlderInv, CrashInv, CertVarsInv DEF CertNext

(* Connections come and go beside it: every step of a server is a step of  *)
(* its certificates or leaves them alone.                                  *)
LEMMA StepsAreCertificateSteps == [Next]_vars => [CertNext]_certVars
  BY DEF Next, vars, Provisions, Suffers, Renews, CertNext, Accept, Sniff, Dispatch

-----------------------------------------------------------------------------
(* Induction over the numbers of a set, from the library's fact that       *)
(* inclusion is well-founded on finite sets.                               *)
LEMMA LeastNumber ==
  ASSUME NEW S \in SUBSET Nat, S # {}
  PROVE  \E m \in S : \A k \in S : m <= k
  <1> DEFINE T == {0..k : k \in S}
  <1>1. T \subseteq FiniteSubsetsOf(Nat)
    <2>1. \A k \in S : IsFiniteSet(0..k) /\ 0..k \in SUBSET Nat
      BY FS_Interval
    <2> QED BY <2>1 DEF FiniteSubsetsOf
  <1>2. T # {}
    OBVIOUS
  <1>3. \E x \in T : \A y \in T : ~(<<y, x>> \in StrictSubsetOrdering(Nat))
    <2> HIDE DEF T
    <2> QED BY <1>1, <1>2, WFMin, FS_StrictSubsetOrderingWellFounded
  <1>4. PICK m \in S : \A k \in S : ~(<<0..k, 0..m>> \in StrictSubsetOrdering(Nat))
    BY <1>3
  <1>5. ASSUME NEW k \in S, k < m PROVE FALSE
    <2>1. 0..k \subseteq 0..m /\ 0..k # 0..m /\ 0..m \subseteq Nat
      <3>1. m \in 0..m /\ m \notin 0..k
        BY <1>5
      <3> QED BY <1>5, <3>1
    <2> QED BY <2>1, <1>4 DEF StrictSubsetOrdering
  <1> QED BY <1>5

(* What holds of 0 and goes from a number to the next holds of all.        *)
LEMMA Induction ==
  ASSUME NEW S \in SUBSET Nat, 0 \in S, \A n \in S : n + 1 \in S
  PROVE  S = Nat
  <1> SUFFICES ASSUME Nat \ S # {} PROVE FALSE
    OBVIOUS
  <1>1. PICK m \in Nat \ S : \A k \in Nat \ S : m <= k
    BY LeastNumber
  <1>2. m # 0 /\ m - 1 \in Nat /\ m - 1 \in S
    BY <1>1
  <1> QED BY <1>2

(* The same for the numbers up to a last one, such as those of a list.     *)
LEMMA UpTo ==
  ASSUME NEW n \in Nat, NEW S \in SUBSET (0..n), 0 \in S, \A i \in 1..n : i - 1 \in S => i \in S
  PROVE  S = 0..n
  <1> DEFINE T == {i \in Nat : i <= n => i \in S}
  <1>1. \A i \in T : i + 1 \in T
    <2> SUFFICES ASSUME NEW i \in T, i + 1 <= n PROVE i + 1 \in S
      OBVIOUS
    <2>1. i \in S /\ i + 1 \in 1..n /\ (i + 1) - 1 = i
      OBVIOUS
    <2> QED BY <2>1
  <1>2. T = Nat
    <2> HIDE DEF T
    <2>1. 0 \in T /\ T \in SUBSET Nat BY DEF T
    <2> QED BY <2>1, <1>1, Induction
  <1>3. ASSUME NEW i \in 0..n PROVE i \in S
    <2>1. i \in T
      BY <1>2
    <2> QED BY <2>1
  <1> QED BY <1>3

(* The folds take the largest index first: here, the last of a list.       *)
LEMMA MaxIsLast ==
  ASSUME NEW n \in Nat, NEW s \in SUBSET (1..n+1), n+1 \in s
  PROVE  Max(s) = n+1
  <1>1. \A y \in s : n+1 >= y
    OBVIOUS
  <1>2. \A x \in s : (\A y \in s : x >= y) => x = n+1
    <2> SUFFICES ASSUME NEW x \in s, \A y \in s : x >= y PROVE x = n+1
      OBVIOUS
    <2>1. x >= n+1 /\ x \in 1..n+1 OBVIOUS
    <2> QED BY <2>1
  <1> QED BY <1>1, <1>2 DEF Max

(* Without it the list is the one before.                                  *)
LEMMA MaxOfInterval ==
  ASSUME NEW i \in Nat, i # 0
  PROVE  Max(1..i) = i /\ (1..i) \ {i} = 1..i-1 /\ 1..i # {}
  <1>1. i - 1 \in Nat /\ (i - 1) + 1 = i /\ i \in 1..i /\ (1..i) \ {i} = 1..i-1
    OBVIOUS
  <1>2. 1..i \in SUBSET (1..(i-1)+1) /\ (i-1)+1 \in 1..i
    BY <1>1
  <1>3. Max(1..i) = (i-1)+1
    BY ONLY <1>1, <1>2, MaxIsLast
  <1> QED BY <1>1, <1>3

(* Of any indices left, the largest is one of them.                        *)
LEMMA MaxIsIn ==
  ASSUME NEW n \in Nat, NEW s \in SUBSET (1..n), s # {}
  PROVE  Max(s) \in s /\ Max(s) \in 1..n
  <1> DEFINE P == {k \in Nat : \A t \in SUBSET (1..k) : t # {} => Max(t) \in t}
  <1>1. 0 \in P
    <2>1. 1..0 = {}
      OBVIOUS
    <2> QED BY <2>1
  <1>2. ASSUME NEW k \in P PROVE k + 1 \in P
    <2>1. ASSUME NEW t \in SUBSET (1..k+1), t # {} PROVE Max(t) \in t
      <3>1. CASE k + 1 \in t
        BY <3>1, MaxIsLast
      <3>2. CASE k + 1 \notin t
        <4>1. t \in SUBSET (1..k)
          BY <3>2
        <4> QED BY <4>1, <2>1
      <3> QED BY <3>1, <3>2
    <2> QED BY <2>1
  <1>3. P = Nat
    <2> HIDE DEF P
    <2>1. P \in SUBSET Nat BY DEF P
    <2> QED BY <2>1, <1>1, <1>2, Induction
  <1>4. n \in P
    BY <1>3
  <1> QED BY <1>4

(* What the folds of the community modules look for exists, whatever is    *)
(* folded in (op[<<v, i>>] for the i-th) as long as the results are in V.  *)
Iterates(n, start, op, f) ==
  f = [s \in SUBSET (1..n) |-> IF s = {} THEN start ELSE op[<<f[s \ {Max(s)}], Max(s)>>]]

(* By induction over the length: one result for each set of indices.       *)
LEMMA IterationExists ==
  ASSUME NEW n \in Nat, NEW V, NEW start \in V, NEW op \in [V \X Nat -> V]
  PROVE  \E f \in [SUBSET (1..n) -> V] : Iterates(n, start, op, f)
  <1> DEFINE step(f, s) == IF s = {} THEN start ELSE op[<<f[s \ {Max(s)}], Max(s)>>]
             P == {k \in Nat : \E f \in [SUBSET (1..k) -> V] : Iterates(k, start, op, f)}
  <1>1. 0 \in P
    <2>1. SUBSET (1..0) = {{}} /\ Iterates(0, start, op, [s \in SUBSET (1..0) |-> start])
      BY DEF Iterates
    <2> QED BY <2>1
  <1>2. ASSUME NEW k \in P PROVE k + 1 \in P
    <2>1. PICK f \in [SUBSET (1..k) -> V] : Iterates(k, start, op, f)
      OBVIOUS
    <2> DEFINE g == [s \in SUBSET (1..k+1) |->
                       IF k + 1 \in s THEN op[<<f[s \ {k + 1}], k + 1>>] ELSE f[s]]
    <2>2. /\ g = [s \in SUBSET (1..k+1) |-> g[s]]
          /\ \A s \in SUBSET (1..k+1) :
               g[s] = IF k + 1 \in s THEN op[<<f[s \ {k + 1}], k + 1>>] ELSE f[s]
      OBVIOUS
    <2> HIDE DEF g
    <2>9. \A s \in SUBSET (1..k+1) : g[s] \in V
      <3> SUFFICES ASSUME NEW s \in SUBSET (1..k+1) PROVE g[s] \in V
        OBVIOUS
      <3>1. CASE k + 1 \in s
        <4>1. s \ {k + 1} \in SUBSET (1..k)
          OBVIOUS
        <4>2. f[s \ {k + 1}] \in V /\ k + 1 \in Nat
          BY <4>1
        <4> QED BY <4>2, <3>1, <2>2
      <3>2. CASE k + 1 \notin s
        <4>1. s \in SUBSET (1..k)
          BY <3>2
        <4> QED BY <4>1, <3>2, <2>2
      <3> QED BY <3>1, <3>2
    <2>3. ASSUME NEW s \in SUBSET (1..k+1) PROVE g[s] = step(g, s)
      <3> DEFINE m == Max(s)
      <3>1. CASE k + 1 \in s
        <4>1. m = k + 1 /\ s \ {k + 1} \in SUBSET (1..k+1) /\ k + 1 \notin s \ {k + 1}
          BY <3>1, MaxIsLast
        <4> QED BY <2>2, <3>1, <4>1
      <3>2. CASE k + 1 \notin s
        <4> HIDE DEF m
        <4>0. s \in SUBSET (1..k)
          BY <3>2
        <4>1. s \ {m} \in SUBSET (1..k+1) /\ k + 1 \notin s \ {m}
          BY <3>2
        <4>2. g[s] = f[s] /\ g[s \ {m}] = f[s \ {m}]
          BY <2>2, <3>2, <4>1
        <4>3. f[s] = step(f, s)
          BY <2>1, <4>0 DEF Iterates
        <4> QED BY <4>2, <4>3 DEF m
      <3> QED BY <3>1, <3>2
    <2>4. g = [s \in SUBSET (1..k+1) |-> step(g, s)]
      <3> HIDE DEF step
      <3> QED BY <2>2, <2>3
    <2>5. Iterates(k + 1, start, op, g)
      BY <2>4 DEF Iterates
    <2>6. g \in [SUBSET (1..k+1) -> V]
      <3>1. g = [s \in SUBSET (1..k+1) |-> g[s]]
        BY <2>2
      <3> QED BY ONLY <3>1, <2>9
    <2> QED BY <2>5, <2>6
  <1>3. P = Nat
    <2> HIDE DEF P
    <2>1. P \in SUBSET Nat BY DEF P
    <2> QED BY <2>1, <1>1, <1>2, Induction
  <1>4. n \in P
    BY <1>3
  <1> QED BY <1>4

-----------------------------------------------------------------------------
(* A list of the panel, and the domains buildRouteDomains makes of it:     *)
(* those of its entries that are not blank, each once.                     *)
IsList(s) == \E n \in Nat : DOMAIN s = 1..n

Listed(rules) == {Domain(rules[i]) : i \in {j \in DOMAIN rules : rules[j].value # ""}}

(* What is appended is in the list, next to what was there.                *)
LEMMA ToSetAppend ==
  ASSUME NEW D, NEW s \in Seq(D), NEW d \in D
  PROVE  ToSet(Append(s, d)) = ToSet(s) \cup {d}
  <1>1. DOMAIN Append(s, d) = DOMAIN s \cup {Len(s) + 1} /\ Append(s, d)[Len(s) + 1] = d
    OBVIOUS
  <1>2. \A i \in DOMAIN s : Append(s, d)[i] = s[i]
    OBVIOUS
  <1> QED BY <1>1, <1>2 DEF ToSet

(* A list of one, and of two.                                              *)
LEMMA OneOrTwo ==
  ASSUME NEW d, NEW x
  PROVE  <<d>> \o <<>> = <<d>> /\ <<d>> \o <<x>> = <<d, x>>
  <1> DEFINE D == {d, x}
  <1>1. <<d>> \in Seq(D) /\ <<x>> \in Seq(D) /\ <<>> \in Seq(D) /\ <<d, x>> \in Seq(D)
    OBVIOUS
  <1>2. <<d>> \o <<>> = <<d>>
    <2>1. <<d>> \o <<>> \in Seq(D) /\ Len(<<d>> \o <<>>) = 1 /\ (<<d>> \o <<>>)[1] = d
      BY <1>1
    <2> QED BY <2>1
  <1>3. <<d>> \o <<x>> = <<d, x>>
    <2> DEFINE s == <<d>> \o <<x>>
    <2>1. s \in Seq(D) /\ Len(s) = 2 /\ s[1] = d /\ s[2] = x
      BY <1>1
    <2> DEFINE t == <<d, x>>
    <2>2. t \in Seq(D) /\ Len(t) = 2 /\ t[1] = d /\ t[2] = x
      BY <1>1
    <2> HIDE DEF s, t
    <2>3. s = t
      <3>1. DOMAIN s = 1..2 /\ DOMAIN t = 1..2 /\ \A i \in 1..2 : s[i] = t[i]
        BY <2>1, <2>2
      <3>2. s = [i \in 1..2 |-> s[i]] /\ t = [i \in 1..2 |-> t[i]]
        BY <2>1, <2>2
      <3> QED BY <3>1, <3>2
    <2> QED BY <2>3 DEF s, t
  <1> QED BY <1>2, <1>3

(* A list is empty when nothing is in it.                                  *)
LEMMA EmptyList ==
  ASSUME NEW D, NEW s \in Seq(D)
  PROVE  s = <<>> <=> ToSet(s) = {}
  <1>1. s # <<>> => 1 \in DOMAIN s
    OBVIOUS
  <1>2. DOMAIN <<>> = {}
    OBVIOUS
  <1> QED BY <1>1, <1>2 DEF ToSet

(* BuildRouteDomains: no entry is lost, blank ones are left out.           *)
LEMMA RouteDomains ==
  ASSUME NEW rules, IsList(rules)
  PROVE  /\ BuildRouteDomains(rules) \in Seq(Listed(rules))
         /\ ToSet(BuildRouteDomains(rules)) = Listed(rules)
  <1> DEFINE D == Listed(rules)
             op == [x \in Seq(D) \X Nat |->
                      IF x[2] \in DOMAIN rules THEN AddDomain(x[1], rules[x[2]]) ELSE x[1]]
             goes(n, g) == g = [s \in SUBSET (1..n) |->
                                  IF s = {} THEN <<>>
                                  ELSE AddDomain(g[s \ {Max(s)}], rules[Max(s)])]
  <1>1. PICK n \in Nat : DOMAIN rules = 1..n
    BY DEF IsList
  <1>2. ASSUME NEW ds \in Seq(D), NEW i \in 1..n
        PROVE  /\ AddDomain(ds, rules[i]) \in Seq(D)
               /\ ToSet(AddDomain(ds, rules[i])) =
                    ToSet(ds) \cup (IF rules[i].value = "" THEN {} ELSE {Domain(rules[i])})
    <2>1. rules[i].value # "" => Domain(rules[i]) \in D
      BY <1>1 DEF Listed
    <2> HIDE DEF D
    <2>2. CASE rules[i].value = ""
      BY <2>2 DEF AddDomain
    <2>3. CASE rules[i].value # "" /\ Contains(ds, Domain(rules[i]))
      <3>3. DOMAIN ds = 1..Len(ds)
        OBVIOUS
      <3>1. PICK j \in DOMAIN ds : ds[j] = Domain(rules[i])
        BY <2>3, <3>3 DEF Contains
      <3>2. AddDomain(ds, rules[i]) = ds /\ Domain(rules[i]) \in ToSet(ds)
        BY <2>3, <3>1 DEF AddDomain, ToSet
      <3> QED BY <2>3, <3>2
    <2>4. CASE rules[i].value # "" /\ ~Contains(ds, Domain(rules[i]))
      <3> DEFINE d == Domain(rules[i])
      <3>1. AddDomain(ds, rules[i]) = Append(ds, d)
        BY <2>4 DEF AddDomain
      <3>2. d \in D
        BY <2>1, <2>4
      <3> HIDE DEF d
      <3>3. ToSet(Append(ds, d)) = ToSet(ds) \cup {d}
        BY <3>2, ToSetAppend
      <3>4. Append(ds, d) \in Seq(D)
        BY <3>2
      <3> QED BY <2>4, <3>1, <3>3, <3>4 DEF d
    <2> QED BY <2>2, <2>3, <2>4
  <1>3. PICK f \in [SUBSET (1..n) -> Seq(D)] : Iterates(n, <<>>, op, f)
    <2>1. op \in [Seq(D) \X Nat -> Seq(D)]
      <3> HIDE DEF D
      <3> QED BY <1>1, <1>2
    <2>2. <<>> \in Seq(D)
      OBVIOUS
    <2> HIDE DEF op, D
    <2> QED BY <2>1, <2>2, IterationExists
  <1>4. goes(n, f)
    <2>1. ASSUME NEW s \in SUBSET (1..n), s # {}
          PROVE  op[<<f[s \ {Max(s)}], Max(s)>>] = AddDomain(f[s \ {Max(s)}], rules[Max(s)])
      <3>1. Max(s) \in s /\ Max(s) \in 1..n
        BY <2>1, MaxIsIn
      <3>2. f[s \ {Max(s)}] \in Seq(D)
        OBVIOUS
      <3> HIDE DEF D
      <3> QED BY <3>1, <3>2, <1>1
    <2> HIDE DEF op, D
    <2> QED BY <2>1, <1>3 DEF Iterates
  <1> DEFINE it == CHOOSE g : goes(n, g)
  <1>5. goes(n, it)
    BY <1>4
  <1>6. BuildRouteDomains(rules) = it[1..n]
    BY <1>1 DEF BuildRouteDomains, FoldLeft, MapThenFoldSet
  <1> HIDE DEF it
  <1>7. it[{}] = <<>>
    BY <1>5
  <1>8. ASSUME NEW i \in 1..n PROVE it[1..i] = AddDomain(it[1..i-1], rules[i])
    <2>1. i \in Nat /\ i # 0 /\ 1..i \in SUBSET (1..n)
      OBVIOUS
    <2>2. 1..i # {} /\ Max(1..i) = i /\ (1..i) \ {i} = 1..i-1
      BY ONLY <2>1, MaxOfInterval
    <2> QED BY <2>1, <2>2, <1>5
  <1> DEFINE upto(i) == {Domain(rules[k]) : k \in {j \in 1..i : rules[j].value # ""}}
             S == {i \in 0..n : it[1..i] \in Seq(D) /\ ToSet(it[1..i]) = upto(i)}
  <1>9. 0 \in S
    <2>1. 1..0 = {} /\ upto(0) = {} /\ <<>> \in Seq(D)
      OBVIOUS
    <2>2. ToSet(<<>>) = {}
      BY DEF ToSet
    <2> HIDE DEF D, upto
    <2>3. it[1..0] \in Seq(D) /\ ToSet(it[1..0]) = upto(0)
      BY <2>1, <2>2, <1>7
    <2>4. 0 \in 0..n
      OBVIOUS
    <2> QED BY <2>3, <2>4
  <1>10. ASSUME NEW i \in 1..n, i - 1 \in S PROVE i \in S
    <2>1. it[1..i-1] \in Seq(D) /\ ToSet(it[1..i-1]) = upto(i - 1)
      BY <1>10
    <2>2. upto(i) = upto(i - 1) \cup (IF rules[i].value = "" THEN {} ELSE {Domain(rules[i])})
      <3>1. 1..i = (1..i-1) \cup {i} /\ i \notin 1..i-1
        OBVIOUS
      <3> QED BY <3>1
    <2> HIDE DEF upto, D
    <2>3. it[1..i] \in Seq(D) /\ ToSet(it[1..i]) = upto(i)
      BY <2>1, <2>2, <1>2, <1>8
    <2> QED BY <2>3
  <1>11. S = 0..n
    <2> HIDE DEF S
    <2>1. S \in SUBSET (0..n) BY DEF S
    <2> QED BY <2>1, <1>9, <1>10, UpTo
  <1>12. n \in S
    <2>1. n \in 0..n OBVIOUS
    <2> QED BY ONLY <2>1, <1>11
  <1>13. upto(n) = D
    BY <1>1 DEF Listed
  <1> QED BY <1>12, <1>13, <1>6

-----------------------------------------------------------------------------
(* What BuildCustomOutbounds makes of a block list and of the outbounds.   *)
OwnOutbounds == << [tag |-> DefaultTag, protocol |-> "freedom"],
                   [tag |-> BlockTag, protocol |-> "blackhole"],
                   [tag |-> DNSTag, protocol |-> "dns"] >>
FirstRules(block) == <<DnsRule>> \o BlockRules(block)
Start(block) == [outbounds |-> OwnOutbounds, rules |-> FirstRules(block)]

OutboundOf(item) == [tag |-> item.name, protocol |-> BuildOutboundSettings(item)]
RuleOf(item) == [domains |-> Listed(item.rules), tag |-> item.name]
Ruled(item) == ~Skipped(item) /\ Listed(item.rules) # {}

ItsOutbounds(items) == ToSet(OwnOutbounds) \cup {OutboundOf(items[j]) : j \in DOMAIN items}
ItsRules(block, items) == ToSet(FirstRules(block)) \cup {RuleOf(items[j]) : j \in DOMAIN items}
Results(block, items) ==
  {Refused} \cup [outbounds : Seq(ItsOutbounds(items)), rules : Seq(ItsRules(block, items))]

(* After the i-th outbound: tags are names of one outbound, every rule has *)
(* its outbound, and the rules are the first ones, then those of the       *)
(* outbounds that were not left out.                                       *)
TagsDistinct(r) ==
  \A a, b \in DOMAIN r.outbounds : r.outbounds[a].tag = r.outbounds[b].tag => a = b
DefaultFirst(r) == 1 \in DOMAIN r.outbounds /\ r.outbounds[1].tag = DefaultTag
RulesResolve(r) == \A k \in DOMAIN r.rules : HasOutboundWithTag(r.outbounds, r.rules[k].tag)
Later(block, r) == DOMAIN r.rules \ DOMAIN FirstRules(block)
RulesOf(block, items, i, r) ==
  /\ \A k \in DOMAIN FirstRules(block) : k \in DOMAIN r.rules /\ r.rules[k] = FirstRules(block)[k]
  /\ \A k \in Later(block, r) : \E j \in 1..i : Ruled(items[j]) /\ r.rules[k] = RuleOf(items[j])
  /\ \A j \in 1..i : Ruled(items[j]) => \E k \in Later(block, r) : r.rules[k] = RuleOf(items[j])

Complete(block, items, i, r) ==
  TagsDistinct(r) /\ DefaultFirst(r) /\ RulesResolve(r) /\ RulesOf(block, items, i, r)

(* The rules before those of the outbounds: DNS, and blocking if anything  *)
(* is blocked.                                                             *)
LEMMA FirstRulesAre ==
  ASSUME NEW block, IsList(block)
  PROVE  FirstRules(block) = IF Listed(block) = {} THEN <<DnsRule>>
                             ELSE <<DnsRule, [domains |-> Listed(block), tag |-> BlockTag]>>
  <1>1. BuildRouteDomains(block) = <<>> <=> Listed(block) = {}
    BY RouteDomains, EmptyList
  <1> DEFINE x == [domains |-> Listed(block), tag |-> BlockTag]
  <1>2. BlockRules(block) = IF Listed(block) = {} THEN <<>> ELSE <<x>>
    BY <1>1, RouteDomains DEF BlockRules
  <1> HIDE DEF x
  <1>3. <<DnsRule>> \o <<>> = <<DnsRule>> /\ <<DnsRule>> \o <<x>> = <<DnsRule, x>>
    BY OneOrTwo
  <1>4. FirstRules(block) = IF Listed(block) = {} THEN <<DnsRule>> ELSE <<DnsRule, x>>
    BY <1>2, <1>3 DEF FirstRules
  <1> QED BY <1>4 DEF x

(* One turn of the loop of BuildCustomOutbounds refuses, skips or adds.    *)
LEMMA CustomOutboundIs ==
  ASSUME NEW block, NEW items, NEW j \in DOMAIN items, IsList(items[j].rules),
         NEW r \in Results(block, items)
  PROVE  LET next == CustomOutbound(r, items[j])
         IN \/ next = Refused
            \/ next = r /\ r # Refused /\ Skipped(items[j])
            \/ /\ r # Refused /\ ~Skipped(items[j])
               /\ next = [rules |-> IF Listed(items[j].rules) = {} THEN r.rules
                                    ELSE Append(r.rules, RuleOf(items[j])),
                          outbounds |-> IF HasOutboundWithTag(r.outbounds, items[j].name)
                                        THEN r.outbounds
                                        ELSE Append(r.outbounds, OutboundOf(items[j]))]
  <1> DEFINE item == items[j]
  <1>1. /\ BuildRouteDomains(item.rules) = <<>> <=> Listed(item.rules) = {}
        /\ ToSet(BuildRouteDomains(item.rules)) = Listed(item.rules)
    BY RouteDomains, EmptyList
  <1>2. CASE r = Refused
    BY <1>2 DEF CustomOutbound
  <1>3. CASE r # Refused /\ BuildOutboundSettings(item) = "none"
    BY <1>3 DEF CustomOutbound, Skipped
  <1>4. CASE r # Refused /\ BuildOutboundSettings(item) # "none"
    BY <1>1, <1>4 DEF CustomOutbound, Skipped, RuleOf, OutboundOf
  <1> QED BY <1>2, <1>3, <1>4

(* A turn that does not refuse keeps the result complete up to its item; a *)
(* refusal stays one.                                                      *)
LEMMA CustomOutboundStep ==
  ASSUME NEW block, NEW items, IsList(items), NEW j \in DOMAIN items, IsList(items[j].rules),
         NEW r \in Results(block, items), IsList(block)
  PROVE  LET next == CustomOutbound(r, items[j])
         IN /\ next \in Results(block, items)
            /\ r # Refused /\ Complete(block, items, j - 1, r) /\ next # Refused =>
                 Complete(block, items, j, next)
            /\ r = Refused => next = Refused
  <1> DEFINE item == items[j]
             next == CustomOutbound(r, item)
             O == ItsOutbounds(items)
             R == ItsRules(block, items)
             o == IF HasOutboundWithTag(r.outbounds, item.name) THEN r.outbounds
                  ELSE Append(r.outbounds, OutboundOf(item))
             u == IF Listed(item.rules) = {} THEN r.rules ELSE Append(r.rules, RuleOf(item))
  <1>0. PICK n \in Nat : DOMAIN items = 1..n
    BY DEF IsList
  <1>1. j \in 1..n /\ j - 1 \in Nat /\ 1..j = (1..j-1) \cup {j}
    BY <1>0
  <1>2. r = Refused => next = Refused
    BY DEF CustomOutbound
  <1>3. CASE next = Refused
    BY <1>2, <1>3 DEF Results
  <1>4. CASE next = r /\ r # Refused /\ Skipped(item)
    <2>1. ASSUME Complete(block, items, j - 1, r) PROVE Complete(block, items, j, r)
      BY <1>1, <1>4, <2>1 DEF Complete, RulesOf, Ruled
    <2> QED BY <1>4, <2>1
  <1>5. CASE r # Refused /\ ~Skipped(item) /\ next = [rules |-> u, outbounds |-> o]
    <2>1. r.outbounds \in Seq(O) /\ r.rules \in Seq(R)
      BY <1>5 DEF Results
    <2>2. OutboundOf(item) \in O /\ RuleOf(item) \in R
      BY DEF ItsOutbounds, ItsRules
    <2> HIDE DEF O, R
    <2>3. o \in Seq(O) /\ u \in Seq(R)
      BY <2>1, <2>2
    <2>4. next \in Results(block, items)
      BY <1>5, <2>3 DEF Results, O, R
    <2>5. next # Refused
      BY <1>5 DEF Refused
    <2>6. ASSUME Complete(block, items, j - 1, r) PROVE Complete(block, items, j, next)
      <3> USE DEF Complete
      <3>1. /\ \A a \in DOMAIN r.outbounds : a \in DOMAIN o /\ o[a] = r.outbounds[a]
            /\ HasOutboundWithTag(o, item.name)
        <4>1. CASE HasOutboundWithTag(r.outbounds, item.name)
          BY <4>1
        <4>2. CASE ~HasOutboundWithTag(r.outbounds, item.name)
          <5>1. /\ DOMAIN o = DOMAIN r.outbounds \cup {Len(r.outbounds) + 1}
                /\ o[Len(r.outbounds) + 1] = OutboundOf(item)
                /\ \A a \in DOMAIN r.outbounds : o[a] = r.outbounds[a]
            BY <2>1, <2>2, <4>2
          <5> QED BY <5>1 DEF HasOutboundWithTag, OutboundOf
        <4> QED BY <4>1, <4>2
      <3>2. TagsDistinct(next)
        <4>1. CASE HasOutboundWithTag(r.outbounds, item.name)
          BY <1>5, <2>6, <4>1 DEF TagsDistinct
        <4>2. CASE ~HasOutboundWithTag(r.outbounds, item.name)
          <5>1. /\ DOMAIN o = DOMAIN r.outbounds \cup {Len(r.outbounds) + 1}
                /\ o[Len(r.outbounds) + 1] = OutboundOf(item)
                /\ \A a \in DOMAIN r.outbounds : o[a] = r.outbounds[a]
            BY <2>1, <2>2, <4>2
          <5>2. \A a \in DOMAIN r.outbounds : o[a].tag # item.name
            BY <5>1, <4>2 DEF HasOutboundWithTag
          <5>3. o[Len(r.outbounds) + 1].tag = item.name
            BY <5>1 DEF OutboundOf
          <5>4. \A a, b \in DOMAIN o : o[a].tag = o[b].tag => a = b
            <6> HIDE DEF o
            <6> QED BY <2>6, <5>1, <5>2, <5>3 DEF TagsDistinct
          <5> QED BY <1>5, <5>4 DEF TagsDistinct
        <4> QED BY <4>1, <4>2
      <3>3. DefaultFirst(next)
        <4> HIDE DEF o
        <4> QED BY <1>5, <2>6, <3>1 DEF DefaultFirst
      <3>4. /\ \A k \in DOMAIN r.rules : k \in DOMAIN u /\ u[k] = r.rules[k]
            /\ \A k \in DOMAIN u \ DOMAIN r.rules : Ruled(item) /\ u[k] = RuleOf(item)
            /\ Ruled(item) => \E k \in DOMAIN u \ DOMAIN r.rules : u[k] = RuleOf(item)
        <4>1. CASE Listed(item.rules) = {}
          BY <4>1 DEF Ruled
        <4>2. CASE Listed(item.rules) # {}
          <5>1. /\ DOMAIN u = DOMAIN r.rules \cup {Len(r.rules) + 1}
                /\ u[Len(r.rules) + 1] = RuleOf(item)
                /\ \A a \in DOMAIN r.rules : u[a] = r.rules[a]
                /\ Len(r.rules) + 1 \notin DOMAIN r.rules
            BY <2>1, <2>2, <4>2
          <5> QED BY <5>1, <4>2, <1>5 DEF Ruled
        <4> QED BY <4>1, <4>2
      <3> HIDE DEF u, o
      <3>5. RulesResolve(next)
        <4>1. \A tag : HasOutboundWithTag(r.outbounds, tag) => HasOutboundWithTag(o, tag)
          BY <3>1 DEF HasOutboundWithTag
        <4>2. RuleOf(item).tag = item.name
          BY DEF RuleOf
        <4> QED BY <1>5, <2>6, <3>1, <3>4, <4>1, <4>2 DEF RulesResolve
      <3>6. RulesOf(block, items, j, next)
        <4> HIDE DEF item
        <4>1. RulesOf(block, items, j - 1, r)
          BY <2>6
        <4>2. next.rules = u
          BY <1>5
        <4>3. \A k \in DOMAIN FirstRules(block) : k \in DOMAIN u /\ u[k] = FirstRules(block)[k]
          BY <4>1, <3>4 DEF RulesOf
        <4>4. ASSUME NEW k \in Later(block, next)
              PROVE  \E i \in 1..j : Ruled(items[i]) /\ u[k] = RuleOf(items[i])
          <5>1. CASE k \in DOMAIN r.rules
            <6>1. k \in Later(block, r)
              BY <5>1, <4>4, <4>2 DEF Later
            <6> QED BY <5>1, <6>1, <4>1, <3>4, <1>1 DEF RulesOf
          <5>2. CASE k \notin DOMAIN r.rules
            <6>1. k \in DOMAIN u
              BY <4>4, <4>2 DEF Later
            <6> QED BY <5>2, <6>1, <3>4, <1>1 DEF item
          <5> QED BY <5>1, <5>2
        <4>5. ASSUME NEW i \in 1..j, Ruled(items[i])
              PROVE  \E k \in Later(block, next) : u[k] = RuleOf(items[i])
          <5>1. CASE i \in 1..j-1
            <6>1. PICK k \in Later(block, r) : r.rules[k] = RuleOf(items[i])
              BY <5>1, <4>1, <4>5 DEF RulesOf
            <6>2. k \in Later(block, next) /\ u[k] = r.rules[k]
              BY <6>1, <3>4, <4>2 DEF Later
            <6> QED BY <6>1, <6>2
          <5>2. CASE i = j
            <6>1. PICK k \in DOMAIN u \ DOMAIN r.rules : u[k] = RuleOf(items[i])
              BY <5>2, <4>5, <3>4 DEF item
            <6>2. k \in Later(block, next)
              BY <6>1, <4>1, <4>2 DEF Later, RulesOf
            <6> QED BY <6>1, <6>2
          <5> QED BY <5>1, <5>2, <1>1
        <4> QED BY <4>2, <4>3, <4>4, <4>5 DEF RulesOf
      <3> QED BY <3>2, <3>3, <3>5, <3>6
    <2> QED BY <1>5, <2>4, <2>5, <2>6
  <1> HIDE DEF next, o, u
  <1>6. \/ next = Refused
        \/ next = r /\ r # Refused /\ Skipped(item)
        \/ r # Refused /\ ~Skipped(item) /\ next = [rules |-> u, outbounds |-> o]
    BY CustomOutboundIs DEF next, o, u
  <1>7. QED BY <1>3, <1>4, <1>5, <1>6 DEF next


(* BuildCustomOutbounds: what it returns is complete.                      *)
LEMMA BuiltIsComplete ==
  ASSUME NEW block, IsList(block), NEW items, IsList(items),
         \A i \in DOMAIN items : IsList(items[i].rules),
         BuildOutbound(block, items) # Refused
  PROVE  \E n \in Nat :
           /\ DOMAIN items = 1..n
           /\ BuildOutbound(block, items) \in Results(block, items)
           /\ Complete(block, items, n, BuildOutbound(block, items))
           /\ RouterBuilds(BuildOutbound(block, items).rules)
  <1> DEFINE V == Results(block, items)
             start == Start(block)
             op == [x \in V \X Nat |->
                      IF x[2] \in DOMAIN items THEN CustomOutbound(x[1], items[x[2]]) ELSE x[1]]
             goes(n, g) == g = [s \in SUBSET (1..n) |->
                                  IF s = {} THEN start
                                  ELSE CustomOutbound(g[s \ {Max(s)}], items[Max(s)])]
  <1>1. PICK n \in Nat : DOMAIN items = 1..n
    BY DEF IsList
  <1>2. start \in V
    <2>1. OwnOutbounds \in Seq(ToSet(OwnOutbounds))
      BY DEF OwnOutbounds, ToSet
    <2>2. FirstRules(block) \in Seq(ToSet(FirstRules(block)))
      BY FirstRulesAre DEF ToSet
    <2> QED BY <2>1, <2>2 DEF Results, Start, ItsOutbounds, ItsRules
  <1>3. PICK f \in [SUBSET (1..n) -> V] : Iterates(n, start, op, f)
    <2>1. op \in [V \X Nat -> V]
      <3>1. \A r \in V, j \in DOMAIN items : CustomOutbound(r, items[j]) \in V
        BY CustomOutboundStep
      <3> HIDE DEF V
      <3> QED BY <3>1
    <2> HIDE DEF op, V, start
    <2> QED BY <2>1, <1>2, IterationExists
  <1>4. goes(n, f)
    <2>1. ASSUME NEW s \in SUBSET (1..n), s # {}
          PROVE  op[<<f[s \ {Max(s)}], Max(s)>>] = CustomOutbound(f[s \ {Max(s)}], items[Max(s)])
      <3>1. Max(s) \in s /\ Max(s) \in 1..n
        BY <2>1, MaxIsIn
      <3>2. f[s \ {Max(s)}] \in V
        OBVIOUS
      <3> HIDE DEF V
      <3> QED BY <3>1, <3>2, <1>1
    <2> HIDE DEF op, V, start
    <2> QED BY <2>1, <1>3 DEF Iterates
  <1> DEFINE it == CHOOSE g : goes(n, g)
             result == it[1..n]
  <1>5. goes(n, it)
    BY <1>4
  <1>6. FoldLeft(CustomOutbound, start, items) = result
    BY <1>1 DEF FoldLeft, MapThenFoldSet
  <1>7. BuildOutbound(block, items) = IF result # Refused /\ RouterBuilds(result.rules)
                                      THEN result ELSE Refused
    <2> HIDE DEF result
    <2> QED BY <1>6 DEF BuildOutbound, Start, OwnOutbounds, FirstRules
  <1> HIDE DEF it, start
  <1>8. it[{}] = start
    BY <1>5
  <1>9. ASSUME NEW i \in 1..n PROVE it[1..i] = CustomOutbound(it[1..i-1], items[i])
    <2>1. i \in Nat /\ i # 0 /\ 1..i \in SUBSET (1..n)
      OBVIOUS
    <2>2. 1..i # {} /\ Max(1..i) = i /\ (1..i) \ {i} = 1..i-1
      BY ONLY <2>1, MaxOfInterval
    <2> QED BY <2>1, <2>2, <1>5
  <1> DEFINE sound(i) == it[1..i] \in V /\ (it[1..i] # Refused => Complete(block, items, i, it[1..i]))
             S == {i \in 0..n : sound(i)}
  <1>10. 0 \in S
    <2>1. it[1..0] = start
      <3>1. 1..0 = {} OBVIOUS
      <3> QED BY <3>1, <1>8
    <2>2. Complete(block, items, 0, start)
      <3>1. start.outbounds = OwnOutbounds /\ start.rules = FirstRules(block)
        BY DEF start, Start
      <3>2. TagsDistinct(start) /\ DefaultFirst(start)
        BY <3>1 DEF TagsDistinct, DefaultFirst, OwnOutbounds, DefaultTag, BlockTag, DNSTag
      <3>3. RulesResolve(start)
        <4>1. /\ HasOutboundWithTag(OwnOutbounds, BlockTag)
              /\ HasOutboundWithTag(OwnOutbounds, DNSTag)
          BY DEF HasOutboundWithTag, OwnOutbounds
        <4>2. \A k \in DOMAIN FirstRules(block) : FirstRules(block)[k].tag \in {BlockTag, DNSTag}
          BY FirstRulesAre DEF DnsRule
        <4> QED BY <3>1, <4>1, <4>2 DEF RulesResolve
      <3>4. RulesOf(block, items, 0, start)
        BY <3>1 DEF RulesOf, Later
      <3> QED BY <3>2, <3>3, <3>4 DEF Complete
    <2> HIDE DEF V
    <2>3. sound(0) /\ 0 \in 0..n
      BY <2>1, <2>2, <1>2
    <2> HIDE DEF sound
    <2> QED BY <2>3
  <1>11. ASSUME NEW i \in 1..n, i - 1 \in S PROVE i \in S
    <2>1. it[1..i-1] \in V /\ (it[1..i-1] # Refused => Complete(block, items, i - 1, it[1..i-1]))
      BY <1>11
    <2>2. i \in DOMAIN items
      BY <1>1
    <2>3. /\ it[1..i] \in V
          /\ it[1..i-1] = Refused => it[1..i] = Refused
          /\ it[1..i-1] # Refused /\ Complete(block, items, i - 1, it[1..i-1]) /\ it[1..i] # Refused =>
               Complete(block, items, i, it[1..i])
      BY <2>1, <2>2, <1>9, CustomOutboundStep
    <2> HIDE DEF V
    <2>4. sound(i)
      BY <2>1, <2>3
    <2> QED BY <2>4
  <1>12. S = 0..n
    <2> HIDE DEF S
    <2>1. S \in SUBSET (0..n) BY DEF S
    <2> QED BY <2>1, <1>10, <1>11, UpTo
  <1>13. sound(n)
    <2>1. n \in 0..n OBVIOUS
    <2>2. n \in S BY ONLY <2>1, <1>12
    <2> HIDE DEF sound
    <2> QED BY <2>2
  <1> HIDE DEF V
  <1> QED BY <1>1, <1>7, <1>13 DEF V


(* A list matches a name when one of its entries does.                     *)
LEMMA ListsIsListed ==
  ASSUME NEW rules, NEW name
  PROVE  Lists(rules, name) <=> \E d \in Listed(rules) : Matches(d, name)
  BY DEF Lists, Listed

(* A set of one index has one element.                                     *)
LEMMA OneIndex ==
  ASSUME NEW n \in Nat, NEW S \in SUBSET (1..n), NEW k \in S, \A i \in S : i = k
  PROVE  Cardinality(S) = 1
  <1>1. S = {k}
    OBVIOUS
  <1> QED BY <1>1, FS_Singleton

(* What routes a connection is the first rule it hits.                     *)
LEMMA FirstHit ==
  ASSUME NEW D, NEW rules \in Seq(D), NEW target, NEW name
  PROVE  \/ (\A i \in DOMAIN rules : ~Hits(rules[i], target, name)) /\ PickRoute(rules, target, name) = ""
         \/ \E i \in DOMAIN rules :
              /\ Hits(rules[i], target, name) /\ PickRoute(rules, target, name) = rules[i].tag
              /\ \A j \in DOMAIN rules : Hits(rules[j], target, name) => i <= j
  <1> DEFINE hits == {i \in DOMAIN rules : Hits(rules[i], target, name)}
  <1>1. PickRoute(rules, target, name) =
          IF hits = {} THEN "" ELSE rules[CHOOSE i \in hits : \A j \in hits : i <= j].tag
    BY DEF PickRoute
  <1>2. CASE hits = {}
    BY <1>1, <1>2
  <1>3. CASE hits # {}
    <2>1. hits \in SUBSET Nat
      OBVIOUS
    <2>2. \E i \in hits : \A j \in hits : i <= j
      <3> HIDE DEF hits
      <3> QED BY <1>3, <2>1, LeastNumber
    <2>3. PICK i \in hits : PickRoute(rules, target, name) = rules[i].tag /\ \A j \in hits : i <= j
      <3> HIDE DEF hits
      <3> QED BY <1>1, <1>3, <2>2
    <2> QED BY <2>3
  <1> QED BY <1>2, <1>3

(* initDispatcher and routedDispatch over what was built.                  *)
Named(outbounds, tag) == {i \in DOMAIN outbounds : outbounds[i].tag = tag}
ListedBy(items, name) == {i \in DOMAIN items : ~Skipped(items[i]) /\ Lists(items[i].rules, name)}

(* routedDispatch: the tag is that of exactly one outbound, the blackhole  *)
(* for blocked names, else an outbound that lists the name, else the       *)
(* default.                                                                *)
LEMMA RoutesAsListed ==
  ASSUME NEW block, IsList(block), NEW items, IsList(items),
         \A i \in DOMAIN items : IsList(items[i].rules),
         BuildOutbound(block, items) # Refused, NEW target, NEW name
  PROVE  LET own == BuildOutbound(block, items)
             tag == RoutedDispatch(own, target, name)
             listed == ListedBy(items, name)
         IN /\ tag # ""
            /\ HasOutboundWithTag(own.outbounds, tag)
            /\ Cardinality(Named(own.outbounds, tag)) = 1
            /\ ~target.dns /\ Lists(block, name) => tag = BlockTag
            /\ ~target.dns /\ ~Lists(block, name) =>
                 IF listed = {} THEN tag = DefaultTag
                 ELSE \E i \in listed : tag = items[i].name
  <1> DEFINE own == BuildOutbound(block, items)
             tag == RoutedDispatch(own, target, name)
             pick == PickRoute(own.rules, target, name)
             listed == {i \in DOMAIN items : ~Skipped(items[i]) /\ Lists(items[i].rules, name)}
             O == ItsOutbounds(items)
             R == ItsRules(block, items)
  <1>1. PICK n \in Nat : /\ DOMAIN items = 1..n
                         /\ own \in Results(block, items)
                         /\ Complete(block, items, n, own)
                         /\ RouterBuilds(own.rules)
    BY BuiltIsComplete
  <1>2. own.outbounds \in Seq(O) /\ own.rules \in Seq(R)
    BY <1>1 DEF Results
  <1> HIDE DEF own, O, R
  <1>3. tag = IF pick = "" THEN own.outbounds[1].tag
              ELSE IF HasOutboundWithTag(own.outbounds, pick) THEN pick ELSE ""
    BY DEF RoutedDispatch
  <1> HIDE DEF tag
  <1>4. \/ (\A i \in DOMAIN own.rules : ~Hits(own.rules[i], target, name)) /\ pick = ""
        \/ \E i \in DOMAIN own.rules :
             /\ Hits(own.rules[i], target, name) /\ pick = own.rules[i].tag
             /\ \A j \in DOMAIN own.rules : Hits(own.rules[j], target, name) => i <= j
    BY <1>2, FirstHit
  <1> HIDE DEF pick
  <1>5. tag # "" /\ HasOutboundWithTag(own.outbounds, tag)
    <2>1. own.outbounds[1].tag = DefaultTag /\ HasOutboundWithTag(own.outbounds, DefaultTag)
      BY <1>1 DEF Complete, DefaultFirst, HasOutboundWithTag
    <2>2. pick # "" => HasOutboundWithTag(own.outbounds, pick)
      BY <1>1, <1>4 DEF Complete, RulesResolve
    <2> QED BY <1>3, <2>1, <2>2 DEF DefaultTag
  <1>6. tag = IF pick = "" THEN DefaultTag ELSE pick
    BY <1>1, <1>3, <1>5 DEF Complete, DefaultFirst
  <1>7. Cardinality(Named(own.outbounds, tag)) = 1
    <2>1. PICK k \in DOMAIN own.outbounds : own.outbounds[k].tag = tag
      BY <1>5 DEF HasOutboundWithTag
    <2>2. \A i \in DOMAIN own.outbounds : own.outbounds[i].tag = tag => i = k
      BY <2>1, <1>1 DEF Complete, TagsDistinct
    <2>3. DOMAIN own.outbounds = 1..Len(own.outbounds) /\ Len(own.outbounds) \in Nat
      BY <1>2
    <2> DEFINE S == {i \in DOMAIN own.outbounds : own.outbounds[i].tag = tag}
    <2>4. S \in SUBSET (1..Len(own.outbounds)) /\ k \in S /\ \A i \in S : i = k
      BY <2>1, <2>2, <2>3
    <2> HIDE DEF S
    <2>5. Cardinality(S) = 1
      BY <2>3, <2>4, OneIndex
    <2> QED BY <2>5 DEF S, Named
  <1>8. RulesOf(block, items, n, own)
    BY <1>1 DEF Complete
  <1>9. ASSUME NEW item, Listed(item.rules) # {}
        PROVE  Hits(RuleOf(item), target, name) <=> Lists(item.rules, name)
    BY <1>9, ListsIsListed DEF Hits, RuleOf
  <1>10. /\ 1 \in DOMAIN FirstRules(block) /\ FirstRules(block)[1] = DnsRule
         /\ Hits(DnsRule, target, name) <=> target.dns
    BY FirstRulesAre DEF Hits, DnsRule
  <1>11. CASE ~target.dns /\ Lists(block, name)
    <2>1. Listed(block) # {}
      BY <1>11, ListsIsListed
    <2> DEFINE x == [domains |-> Listed(block), tag |-> BlockTag]
    <2>2. DOMAIN FirstRules(block) = {1, 2} /\ FirstRules(block)[2] = x
      BY <2>1, FirstRulesAre
    <2>3. Hits(x, target, name)
      BY <1>11, ListsIsListed DEF Hits, DNSTag, BlockTag
    <2>4. 2 \in DOMAIN own.rules /\ Hits(own.rules[2], target, name)
      BY <1>8, <2>2, <2>3 DEF RulesOf
    <2>5. own.rules[1] = DnsRule /\ ~Hits(own.rules[1], target, name)
      BY <1>8, <1>10, <1>11 DEF RulesOf
    <2>6. own.rules[2].tag = BlockTag
      BY <1>8, <2>2 DEF RulesOf
    <2>7. \A i \in DOMAIN own.rules : i \in Nat /\ i >= 1
      BY <1>2
    <2>8. pick = BlockTag
      <3>1. PICK i \in DOMAIN own.rules :
              /\ Hits(own.rules[i], target, name) /\ pick = own.rules[i].tag
              /\ \A j \in DOMAIN own.rules : Hits(own.rules[j], target, name) => i <= j
        BY <1>4, <2>4
      <3>2. i <= 2 /\ i # 1 /\ i \in Nat /\ i >= 1
        BY <3>1, <2>4, <2>5, <2>7
      <3>3. i = 2
        BY <3>2
      <3> QED BY <3>1, <3>3, <2>6
    <2> QED BY <1>11, <1>5, <1>6, <1>7, <2>8 DEF own, tag, BlockTag
  <1>12. CASE ~target.dns /\ ~Lists(block, name)
    <2>1. ASSUME NEW k \in DOMAIN own.rules, Hits(own.rules[k], target, name)
          PROVE  \E i \in listed : own.rules[k].tag = items[i].name
      <3>1. k \notin DOMAIN FirstRules(block)
        <4>1. CASE Listed(block) = {}
          BY <4>1, <2>1, <1>12, <1>8, <1>10, FirstRulesAre DEF RulesOf
        <4>2. CASE Listed(block) # {}
          <5> DEFINE x == [domains |-> Listed(block), tag |-> BlockTag]
          <5>1. DOMAIN FirstRules(block) = {1, 2} /\ FirstRules(block)[2] = x
            BY <4>2, FirstRulesAre
          <5>2. ~Hits(x, target, name)
            BY <1>12, ListsIsListed DEF Hits, DNSTag, BlockTag
          <5> QED BY <5>1, <5>2, <2>1, <1>12, <1>8, <1>10 DEF RulesOf
        <4> QED BY <4>1, <4>2
      <3>2. PICK i \in 1..n : Ruled(items[i]) /\ own.rules[k] = RuleOf(items[i])
        BY <3>1, <1>8 DEF RulesOf, Later
      <3>3. Lists(items[i].rules, name)
        BY <3>2, <2>1, <1>9 DEF Ruled
      <3>4. i \in listed
        BY <3>2, <3>3, <1>1 DEF Ruled
      <3>5. own.rules[k].tag = items[i].name
        BY <3>2 DEF RuleOf
      <3> QED BY <3>4, <3>5
    <2>2. ASSUME NEW i \in listed PROVE \E k \in DOMAIN own.rules : Hits(own.rules[k], target, name)
      <3>1. Listed(items[i].rules) # {} /\ i \in 1..n /\ Ruled(items[i])
        BY <1>1, ListsIsListed DEF Ruled
      <3>2. PICK k \in Later(block, own) : own.rules[k] = RuleOf(items[i])
        BY <3>1, <1>8 DEF RulesOf
      <3>3. k \in DOMAIN own.rules
        BY <3>2 DEF Later
      <3>4. Hits(own.rules[k], target, name)
        BY <3>1, <3>2, <1>9
      <3> QED BY <3>3, <3>4
    <2>3. CASE listed = {}
      <3> HIDE DEF listed
      <3>1. tag = DefaultTag
        BY <2>1, <2>3, <1>4, <1>6
      <3> QED BY <1>12, <1>5, <1>7, <2>3, <3>1 DEF own, tag, listed, ListedBy
    <2>4. CASE listed # {}
      <3> HIDE DEF listed
      <3>1. PICK k \in DOMAIN own.rules : Hits(own.rules[k], target, name) /\ pick = own.rules[k].tag
        BY <2>2, <2>4, <1>4
      <3>2. PICK i \in listed : pick = items[i].name
        BY <3>1, <2>1
      <3>3. pick # ""
        BY <3>1, <1>1 DEF RouterBuilds
      <3>4. \E j \in listed : tag = items[j].name
        BY <3>2, <3>3, <1>6
      <3> QED BY <1>12, <1>5, <1>7, <2>4, <3>4 DEF own, tag, listed, ListedBy
    <2> QED BY <2>3, <2>4
  <1>13. CASE target.dns
    BY <1>13, <1>5, <1>7 DEF own, tag
  <1> QED BY <1>11, <1>12, <1>13

-----------------------------------------------------------------------------
(* A server with its connections goes through the states of module         *)
(* Certificates only (Dispatch never waits for, or delays, a renewal).     *)
THEOREM ProvisionImplementsCertificates == Spec => CertSpec
  <1>1. Init => CertInit BY DEF Init
  <1> QED BY <1>1, StepsAreCertificateSteps, PTL DEF Spec, CertSpec

(* The inductive invariant of the certificates of a server.                *)
THEOREM InductiveInvariant == Spec => [](EInv /\ FInv)
  <1>1. Init => EInv /\ FInv
    BY InitInv
  <1>2. (EInv /\ FInv) /\ [Next]_vars => (EInv /\ FInv)'
    BY NextInv, StepsAreCertificateSteps
  <1> QED BY <1>1, <1>2, PTL DEF Spec

(* SetProvider and dnsProviderEnvMu: however the runs of all nodes         *)
(* interleave and fail, every DNS provider is made with the variables of   *)
(* its own node.                                                           *)
THEOREM CredentialsStayApart == Spec => []OwnCredentials
  <1>1. EInv /\ FInv => OwnCredentials BY DEF EInv
  <1> QED BY <1>1, InductiveInvariant, PTL

(* writeCertificatePair and loadUsableCertificate: a crash or an error     *)
(* between the two files leaves no pair unusable that was usable; and a    *)
(* node whose certificate is the program's matter never serves in the      *)
(* clear, and presents the pair it was given wherever the inbound builder  *)
(* found that pair.                                                        *)
THEOREM PairsStayUsable == Spec => []PairUsable
  <1>1. EInv /\ FInv => PairUsable BY DEF FInv, GoodKept, PairUsable, ActiveInForce
  <1> QED BY <1>1, InductiveInvariant, PTL

(* On a server where both directories are the same, every node presents    *)
(* the pair the program keeps for it.                                      *)
THEOREM OneDirectoryInForce == Spec => [](cfg.linked => InForce)
  <1>1. EInv /\ FInv => (cfg.linked => InForce)
    BY DEF FInv, ActiveInForce, Sound, InForce
  <1> QED BY <1>1, InductiveInvariant, PTL

-----------------------------------------------------------------------------
(* Connections: a server that has come up was accepted, and a connection   *)
(* that was dispatched went the way its own configuration prescribes.      *)
Alive == life \in {"boot", "reload", "switch", "up"}

ConnInv ==
  /\ cfg \in Configs
  /\ DOMAIN conn = Conns /\ DOMAIN sniffed = Conns /\ DOMAIN route = Conns
  /\ Alive => Accepted
  /\ \A c \in Conns :
       /\ conn[c] # "new" => Accepted
       /\ route[c] # Pending =>
            /\ conn[c] = "gone"
            /\ route[c] = RoutedDispatch(CustomConfig, Target(c), RouteTarget(Target(c), sniffed[c]))

(* The configuration stays, and only one that is accepted is started.      *)
LEMMA LifeStep ==
  ASSUME EInv, FInv, CertNext
  PROVE  cfg' = cfg /\ (Alive' => Alive \/ Accepted)
  <1> USE DEF Alive
  <1>1. ASSUME NEW r \in Runs, GivesUp(r), pc[r] # "idle"
        PROVE  cfg' = cfg /\ (Alive' => Alive \/ Accepted)
    BY <1>1, RunFacts DEF GivesUp, Fallback, FInv, Running, Preparing
  <1>2. ASSUME NEW r \in Runs, Lego(r)
        PROVE  cfg' = cfg /\ (Alive' => Alive \/ Accepted)
    <2>1. (GivesUp(r) /\ pc[r] # "idle") \/ UNCHANGED <<cfg, life>>
      BY <1>2 DEF Lego, NewLegoUser, NewLegoFails, ApplyDNSEnvironment, ApplyFails,
         NewDNSProvider, RestoreEnvironment, ProviderFails, Order, PortTaken, Ordering,
         Obtained, ObtainFails, WriteKey, WriteFails, WriteCert, mainVars
    <2> QED BY <2>1, <1>1
  <1>3. ASSUME NEW r \in Runs, RequestCert(r) \/ RenewCert(r)
        PROVE  cfg' = cfg /\ (Alive' => Alive \/ Accepted)
    <2>1. (GivesUp(r) /\ pc[r] # "idle") \/ UNCHANGED <<cfg, life>>
      BY <1>3 DEF RequestCert, RenewCert, mainVars
    <2> QED BY <2>1, <1>1
  <1>4. CASE Main
    <2>1. ASSUME NEW n \in Nodes, SkipNode(n) \/ PrepareNode(n) \/ ReportSelfCertificate(n)
                                  \/ GetUsers(n) \/ BuildNode(n)
          PROVE  cfg' = cfg /\ (Alive' => Alive \/ Accepted)
      <3>1. \/ GivesUp(<<Prepare, n>>) /\ pc[<<Prepare, n>>] # "idle"
            \/ cfg' = cfg /\ life' = life
        BY <2>1 DEF SkipNode, PrepareNode, ReportSelfCertificate, GetUsers, BuildNode, mainVars
      <3> QED BY <3>1, <1>1, RunFacts
    <2>2. Boots \/ ConfigRefused \/ ReloadBegins \/ StopsOld \/ Starts =>
            cfg' = cfg /\ (Alive' => Alive \/ Accepted)
      BY DEF Boots, ConfigRefused, ReloadBegins, StopsOld, Starts, Prepared
    <2> QED BY <1>2, <1>3, <1>4, <2>1, <2>2, RunFacts DEF Main
  <1>5. ASSUME NEW n \in Nodes, RenewalRun(n) \/ GetsOlder(n)
        PROVE  cfg' = cfg /\ (Alive' => Alive \/ Accepted)
    BY <1>2, <1>3, <1>5, RunFacts DEF RenewalRun, RenewBegins, GetsOlder, mainVars
  <1>6. CASE Crash
    BY <1>6 DEF Crash
  <1> QED BY <1>4, <1>5, <1>6 DEF CertNext

(* Connections live under one configuration, which only a server that was  *)
(* accepted has.                                                           *)
LEMMA ConnInvStep ==
  ASSUME EInv, FInv, ConnInv, [Next]_vars
  PROVE  ConnInv'
  <1>1. /\ cfg' = cfg
        /\ Accepted' <=> Accepted
        /\ CustomConfig' = CustomConfig
        /\ \A c \in Conns : Target(c)' = Target(c)
        /\ Alive' => Accepted
    <2>1. cfg' = cfg /\ (Alive' => Alive \/ Accepted)
      <3>1. CASE CertNext
        BY <3>1, LifeStep
      <3>2. CASE UNCHANGED certVars
        BY <3>2 DEF certVars, mainVars, Alive
      <3> QED BY <3>1, <3>2, StepsAreCertificateSteps
    <2> QED BY <2>1 DEF ConnInv, Accepted, CustomConfig, Target
  <1> DEFINE way(c) == RoutedDispatch(CustomConfig, Target(c), RouteTarget(Target(c), sniffed[c]))
  <1>2. ASSUME Survive
        PROVE  ConnInv'
    <2>1. route' = route /\ sniffed' = sniffed /\ DOMAIN conn' = Conns
      BY <1>2 DEF Survive, ConnInv
    <2>2. \A c \in Conns : /\ conn'[c] # "new" => conn[c] # "new"
                           /\ conn[c] = "gone" => conn'[c] = "gone"
      BY <1>2 DEF Survive, ConnInv
    <2> QED BY <1>1, <2>1, <2>2 DEF ConnInv
  <1>3. ASSUME NEW c \in Conns, Accept(c) PROVE ConnInv'
    BY <1>1, <1>3 DEF Accept, ConnInv, Alive
  <1>4. ASSUME NEW c \in Conns, Sniff(c) PROVE ConnInv'
    <2>1. /\ conn' = [conn EXCEPT ![c] = "route"] /\ conn[c] = "sniff" /\ route' = route
          /\ DOMAIN sniffed' = Conns /\ \A d \in Conns \ {c} : sniffed'[d] = sniffed[d]
      BY <1>4 DEF Sniff, ConnInv
    <2> QED BY <1>1, <2>1 DEF ConnInv
  <1>5. ASSUME NEW c \in Conns, Dispatch(c) PROVE ConnInv'
    <2>1. /\ conn' = [conn EXCEPT ![c] = "gone"] /\ conn[c] = "route" /\ sniffed' = sniffed
          /\ route' = [route EXCEPT ![c] = way(c)]
      BY <1>5 DEF Dispatch
    <2> QED BY <1>1, <2>1 DEF ConnInv
  <1>6. ASSUME UNCHANGED vars PROVE ConnInv'
    BY <1>1, <1>6 DEF vars, routeVars, ConnInv
  <1> QED BY <1>2, <1>3, <1>4, <1>5, <1>6 DEF Next, Provisions, Suffers, Renews

(* Hence it holds of every server.                                         *)
LEMMA ConnInvIsInvariant == Spec => []ConnInv
  <1>1. Init => ConnInv
    BY DEF Init, CertInit, ConnInv, Alive
  <1>2. (EInv /\ FInv) /\ ConnInv /\ [Next]_vars => ConnInv'
    BY ConnInvStep
  <1> QED BY <1>1, <1>2, InductiveInvariant, PTL DEF Spec

(* A connection that was dispatched left by its route.                     *)
LEMMA DispatchedIsRouted ==
  ASSUME ConnInv, NEW c \in Conns, route[c] # Pending
  PROVE  LET name == RouteTarget(Target(c), sniffed[c])
             listed == ListedBy(cfg.outbound, name)
         IN /\ route[c] # ""
            /\ HasOutboundWithTag(CustomConfig.outbounds, route[c])
            /\ Cardinality(Named(CustomConfig.outbounds, route[c])) = 1
            /\ ~Target(c).dns /\ Lists(cfg.block, name) => route[c] = BlockTag
            /\ ~Target(c).dns /\ ~Lists(cfg.block, name) =>
                 IF listed = {} THEN route[c] = DefaultTag
                 ELSE \E i \in listed : route[c] = cfg.outbound[i].name
  <1> DEFINE name == RouteTarget(Target(c), sniffed[c])
             block == cfg.block
             items == cfg.outbound
  <1>1. /\ cfg.block \in Seq(Rules) /\ cfg.outbound \in Seq(Items)
        /\ route[c] = RoutedDispatch(CustomConfig, Target(c), name)
    BY ConfigsAssumption DEF ConnInv
  <1>2. \A S, s : s \in Seq(S) => IsList(s)
    BY DEF IsList
  <1>3. \A i \in DOMAIN items : items[i].rules \in Seq(Rules)
    <2>1. \A i \in DOMAIN items : items[i] \in Items
      BY <1>1
    <2> QED BY <2>1 DEF Items
  <1>4. IsList(block) /\ IsList(items) /\ \A i \in DOMAIN items : IsList(items[i].rules)
    BY <1>1, <1>2, <1>3
  <1>5. BuildOutbound(block, items) # Refused
    BY DEF ConnInv, Accepted, CustomConfig
  <1> DEFINE tag == RoutedDispatch(BuildOutbound(block, items), Target(c), name)
             listed == ListedBy(items, name)
  <1> HIDE DEF name, block, items
  <1>6. /\ tag # "" /\ HasOutboundWithTag(BuildOutbound(block, items).outbounds, tag)
        /\ Cardinality(Named(BuildOutbound(block, items).outbounds, tag)) = 1
        /\ ~Target(c).dns /\ Lists(block, name) => tag = BlockTag
        /\ ~Target(c).dns /\ ~Lists(block, name) =>
             IF listed = {} THEN tag = DefaultTag
             ELSE \E i \in listed : tag = items[i].name
    <2> HIDE DEF tag, listed
    <2> QED BY <1>4, <1>5, RoutesAsListed DEF tag, listed
  <1> QED BY <1>1, <1>6 DEF CustomConfig, name, block, items

(* BuildCustomOutbounds and the dispatcher: whatever outbounds and lists   *)
(* the panel sends, every connection finds the one outbound it is routed   *)
(* to, blocked names leave by the blackhole and listed ones by an outbound *)
(* that lists them.                                                        *)
THEOREM ConnectionsResolve == Spec => []RoutesResolve
  <1>1. ConnInv => RoutesResolve
    BY DispatchedIsRouted DEF RoutesResolve, Named, ListedBy
  <1> QED BY <1>1, ConnInvIsInvariant, PTL

-----------------------------------------------------------------------------
(* The types, one group of variables at a time.                            *)
PcTypes == {"idle", "users", "check", "report", "account", "env", "provide",
            "restore", "ready", "order", "obtain", "key", "cert", "build"}
Typed ==
  /\ cfg \in Configs
  /\ life \in {"down", "boot", "reload", "switch", "up", "refused"}
  /\ at \in Nodes \cup {Cardinality(Nodes) + 1} /\ reloadCh \in {0, 1}
  /\ pc \in [Runs -> PcTypes]
  /\ plan \in [Runs -> {"none", "create", "renew"}]
  /\ account \in {"none", "other", "ready"}
  /\ lock \in Runs \cup {NoRun} /\ port80 \in Runs \cup {NoRun}
  /\ good \subseteq Nodes /\ raced \subseteq Nodes
TypedFiles ==
  /\ pair \in [Runs -> Pairs]
  /\ key \in [Nodes -> Keys] /\ crt \in [Nodes -> Pairs]
  /\ built \in [Nodes -> Presented] /\ active \in [Nodes -> Presented]
TypedEnvironments ==
  env \in Environments /\ previous \in [Runs -> Environments] /\ provider \in [Runs -> Environments]

Types == Typed /\ TypedFiles /\ TypedEnvironments

(* The values that steps write are of the types.                           *)
LEMMA TypesOfValues ==
  ASSUME NEW c \in Configs
  PROVE  /\ NoCert \in Pairs /\ NotServing \in Presented /\ 0 \in Keys
         /\ \A k \in Keys \ {0} : FreshPair(k) \in Pairs
         /\ \A p \in Pairs : p.key \in Keys
         /\ \A n \in Nodes : /\ c.files[n].key \in Keys /\ c.files[n].crt \in Pairs
                             /\ c.old[n].key \in Keys /\ c.old[n].crt \in Pairs
         /\ 1 \in Nodes \cup {Cardinality(Nodes) + 1}
  <1> USE KeysAssumption DEF NoCert, Pairs, Ages
  <1>1. NotServing \in Presented
    BY DEF NotServing, Presented
  <1>2. \A k \in Keys \ {0} : FreshPair(k) \in Pairs
    BY DEF FreshPair
  <1>3. \A n \in Nodes : {c.files[n], c.old[n]} \subseteq [key : Keys, crt : Pairs]
    BY ConfigsAssumption
  <1>4. 1 \in Nodes \cup {Cardinality(Nodes) + 1}
    BY NodesAssumption
  <1> QED BY <1>1, <1>2, <1>3, <1>4

(* Variables of the environment are those of the process or of a node.     *)
LEMMA ValuesOfNodes ==
  /\ \A v \in Names : Base[v] \in Values
  /\ \A p \in ToSet(cfg.protocols) : \A v \in DOMAIN p.dnsEnv : p.dnsEnv[v] \in Values
  <1>1. \A p \in ToSet(cfg.protocols) : Range(p.dnsEnv) \subseteq NodeValues
    BY DEF NodeValues
  <1>2. NodeValues \subseteq Values /\ Range(Base) \subseteq Values
    BY DEF Values
  <1>3. \A f : \A v \in DOMAIN f : f[v] \in Range(f)
    BY DEF Range
  <1> QED BY <1>1, <1>2, <1>3, BaseAssumption

(* The environment of the process is one of the environments.              *)
LEMMA BaseIsOne == Base \in Environments
  BY ValuesOfNodes, BaseAssumption DEF Environments

(* So are those a run makes and restores.                                  *)
LEMMA EnvironmentsOfRuns ==
  ASSUME cfg \in Configs, NEW r \in Runs, NEW e \in Environments, NEW f \in Environments
  PROVE  /\ Merged(r, e) \in Environments
         /\ [v \in Names |-> IF v \in DOMAIN Protocol(r[2]).dnsEnv THEN f[v] ELSE e[v]] \in Environments
  <1>1. Protocol(r[2]) \in ToSet(cfg.protocols)
    BY RunFacts, ConfigsAssumption DEF ToSet, Protocol
  <1>2. \A v \in DOMAIN Protocol(r[2]).dnsEnv : Protocol(r[2]).dnsEnv[v] \in Values
    BY <1>1, ValuesOfNodes
  <1> QED BY <1>2 DEF Environments, Merged

(* A server that was never started.                                        *)
LEMMA InitTypes == Init => Types
  <1> SUFFICES ASSUME Init PROVE Types
    OBVIOUS
  <1> USE DEF Init, CertInit
  <1>1. Typed
    BY TypesOfValues, ConfigsAssumption DEF Typed, PcTypes
  <1>2. TypedFiles
    BY TypesOfValues DEF TypedFiles
  <1>3. TypedEnvironments
    BY BaseIsOne DEF TypedEnvironments
  <1> QED BY <1>1, <1>2, <1>3 DEF Types

(* A run that gives up.                                                    *)
LEMMA GivesUpTypes ==
  ASSUME Types, NEW r \in Runs, GivesUp(r), env' \in Environments,
         lock' \in Runs \cup {NoRun}, port80' \in Runs \cup {NoRun}
  PROVE  Types'
  <1> USE RunFacts, TypesOfValues DEF Types, GivesUp, Fallback, Ends, Goto, fileVars
  <1>1. Typed'
    BY DEF Typed, PcTypes, Settles
  <1>2. TypedFiles'
    BY DEF Typed, TypedFiles, Presented
  <1>3. TypedEnvironments'
    <2>1. Base \in Environments /\ Environments' = Environments
      BY BaseIsOne DEF Environments, Values, NodeValues
    <2> QED BY <2>1 DEF TypedEnvironments
  <1> QED BY <1>1, <1>2, <1>3

(* The steps of a run that leave its node, and main, where they are.       *)
LEMMA LegoTypes ==
  ASSUME Types, FInv, EInv, NEW r \in Runs, Lego(r)
  PROVE  Types'
  <1> USE RunFacts DEF Goto
  <1>1. Environments' = Environments
    BY DEF Lego, NewLegoUser, NewLegoFails, ApplyDNSEnvironment, ApplyFails, NewDNSProvider,
       RestoreEnvironment, ProviderFails, Order, PortTaken, Obtained, ObtainFails, WriteKey,
       WriteFails, WriteCert, GivesUp, Fallback, Environments, Values, NodeValues
  <1>2. /\ cfg \in Configs /\ env \in Environments /\ previous[r] \in Environments
        /\ Base \in Environments /\ Merged(r, env) \in Environments /\ Restored(r) \in Environments
    <2>1. cfg \in Configs /\ env \in Environments /\ previous[r] \in Environments
      BY DEF Types, Typed, TypedEnvironments
    <2>2. Merged(r, env) \in Environments
      BY <2>1, EnvironmentsOfRuns
    <2>3. Restored(r) \in Environments
      BY <2>1, EnvironmentsOfRuns DEF Restored
    <2> QED BY <2>1, <2>2, <2>3, BaseIsOne
  <1>3. CASE /\ GivesUp(r) /\ (env' = env \/ env' = Restored(r))
             /\ lock' \in {lock, NoRun} /\ port80' \in {port80, NoRun}
    BY <1>1, <1>2, <1>3, GivesUpTypes DEF Types, Typed
  <1>4. CASE NewLegoUser(r)
    BY <1>1, <1>4 DEF NewLegoUser, AfterAccount, sharedVars, mainVars, Types, Typed, PcTypes,
       TypedFiles, TypedEnvironments
  <1>5. CASE ApplyDNSEnvironment(r)
    BY <1>1, <1>2, <1>5 DEF ApplyDNSEnvironment, fileVars, mainVars, Types, Typed, PcTypes,
       TypedFiles, TypedEnvironments
  <1>6. CASE NewDNSProvider(r)
    BY <1>1, <1>2, <1>6 DEF NewDNSProvider, fileVars, mainVars, Types, Typed, PcTypes,
       TypedFiles, TypedEnvironments
  <1>7. CASE RestoreEnvironment(r)
    BY <1>1, <1>2, <1>7 DEF RestoreEnvironment, fileVars, mainVars, Types, Typed, PcTypes,
       TypedFiles, TypedEnvironments
  <1>8. CASE Order(r)
    BY <1>1, <1>8 DEF Order, fileVars, mainVars, Types, Typed, PcTypes, TypedFiles, TypedEnvironments
  <1>9. CASE Obtained(r)
    <2>1. pair' \in [Runs -> Pairs]
      BY <1>2, <1>9, NewKeyIsAKey, TypesOfValues DEF Obtained, Types, TypedFiles
    <2> QED BY <1>1, <1>9, <2>1 DEF Obtained, Listening, fileVars, mainVars, Types, Typed, PcTypes,
            TypedFiles, TypedEnvironments
  <1>10. CASE WriteKey(r)
    <2>1. key' \in [Nodes -> Keys]
      BY <1>2, <1>10, TypesOfValues DEF WriteKey, Types, TypedFiles
    <2> QED BY <1>1, <1>10, <2>1 DEF WriteKey, sharedVars, mainVars, Types, Typed, PcTypes,
            TypedFiles, TypedEnvironments
  <1>11. CASE WriteCert(r)
    <2>1. crt' \in [Nodes -> Pairs] /\ pair' \in [Runs -> Pairs]
      BY <1>2, <1>11, TypesOfValues DEF WriteCert, Ends, Types, TypedFiles
    <2>2. TypedEnvironments'
      BY <1>1, <1>2, <1>11 DEF WriteCert, Ends, Types, TypedEnvironments
    <2> QED BY <1>11, <2>1, <2>2 DEF WriteCert, Ends, Settles, Returned, EnqueueReload, Types, Typed,
            PcTypes, TypedFiles
  <1>12. \/ /\ GivesUp(r) /\ (env' = env \/ env' = Restored(r))
            /\ lock' \in {lock, NoRun} /\ port80' \in {port80, NoRun}
         \/ NewLegoUser(r) \/ ApplyDNSEnvironment(r) \/ NewDNSProvider(r) \/ RestoreEnvironment(r)
         \/ Order(r) \/ Obtained(r) \/ WriteKey(r) \/ WriteCert(r)
    BY DEF Lego, NewLegoFails, ApplyFails, ProviderFails, PortTaken, ObtainFails, Listening, WriteFails
  <1> QED BY <1>3, <1>4, <1>5, <1>6, <1>7, <1>8, <1>9, <1>10, <1>11, <1>12

(* A run that looks at the files.                                          *)
LEMMA DecidesTypes ==
  ASSUME Types, FInv, EInv, NEW r \in Runs, RequestCert(r) \/ RenewCert(r)
  PROVE  Types'
  <1> USE RunFacts
  <1>1. cfg' = cfg /\ Environments' = Environments
    BY DEF RequestCert, RenewCert, GivesUp, Fallback, Environments, Values, NodeValues
  <1>2. cfg \in Configs /\ env \in Environments /\ Base \in Environments
    BY BaseIsOne DEF Types, Typed, TypedEnvironments
  <1>3. CASE GivesUp(r) /\ UNCHANGED <<env, lock, port80>>
    BY <1>1, <1>2, <1>3, GivesUpTypes DEF Types, Typed
  <1>4. CASE /\ UNCHANGED fileVars /\ Goto(r, Returned(r)) /\ Ends(r)
             /\ UNCHANGED <<cfg, mainVars, env, lock, port80, spent>>
    <2>1. TypedFiles'
      BY <1>2, <1>4, TypesOfValues DEF Ends, fileVars, mainVars, Types, TypedFiles
    <2>2. TypedEnvironments'
      BY <1>1, <1>2, <1>4 DEF Ends, Types, TypedEnvironments
    <2>3. Typed'
      BY <1>4 DEF Ends, Settles, Goto, Returned, fileVars, mainVars, Types, Typed, PcTypes
    <2> QED BY <2>1, <2>2, <2>3 DEF Types
  <1>5. CASE /\ \E what \in {"create", "renew"} : Plans(r, what)
             /\ \E p \in PcTypes : Goto(r, p)
             /\ \/ UNCHANGED pair
                \/ \E k \in Keys \ {0} : pair' = [pair EXCEPT ![r] = FreshPair(k)]
             /\ UNCHANGED <<cfg, fileVars, sharedVars, mainVars, spent>>
    <2>1. TypedFiles'
      BY <1>2, <1>5, TypesOfValues DEF fileVars, mainVars, Types, TypedFiles
    <2>2. TypedEnvironments'
      BY <1>1, <1>5 DEF sharedVars, Types, TypedEnvironments
    <2>3. Typed'
      BY <1>5 DEF Plans, Goto, fileVars, sharedVars, mainVars, Types, Typed
    <2> QED BY <2>1, <2>2, <2>3 DEF Types
  <1>6. CASE RequestCert(r)
    BY <1>3, <1>4, <1>5, <1>6, NewKeyIsAKey DEF RequestCert, PcTypes
  <1>7. CASE RenewCert(r)
    <2>1. Kept(r[2]) => key[r[2]] \in Keys \ {0}
      BY DEF Kept, Usable, Matching, Types, TypedFiles
    <2>2. RenewedPair(r[2]) = FreshPair(key[r[2]])
      BY DEF RenewedPair
    <2> QED BY <1>3, <1>5, <1>7, <2>1, <2>2 DEF RenewCert, PcTypes
  <1> QED BY <1>6, <1>7

(* The steps of main at one node.                                          *)
LEMMA MainTypes ==
  ASSUME Types, FInv, EInv, NEW n \in Nodes,
         SkipNode(n) \/ PrepareNode(n) \/ ReportSelfCertificate(n) \/ GetUsers(n) \/ BuildNode(n)
  PROVE  Types'
  <1> DEFINE r == <<Prepare, n>>
  <1>1. r \in Runs /\ r[2] = n /\ r[1] = Prepare
    BY RunFacts
  <1> HIDE DEF r
  <1>2. Environments' = Environments
    BY DEF SkipNode, PrepareNode, ReportSelfCertificate, GetUsers, BuildNode, GivesUp, Fallback, Environments, Values, NodeValues
  <1>3. CASE GivesUp(r) /\ UNCHANGED <<env, lock, port80>>
    BY <1>1, <1>2, <1>3, GivesUpTypes DEF Types, Typed, TypedEnvironments
  <1>4. at = n => at + 1 \in Nodes \cup {Cardinality(Nodes) + 1}
    BY NodesAssumption
  <1>5. CASE SkipNode(n)
    BY <1>2, <1>4, <1>5 DEF SkipNode, Preparing, fileVars, sharedVars, Types, Typed, TypedFiles, TypedEnvironments
  <1>6. CASE PrepareNode(n)
    BY <1>1, <1>2, <1>6 DEF PrepareNode, r, Goto, fileVars, sharedVars, mainVars, Types, Typed, PcTypes,
       TypedFiles, TypedEnvironments
  <1>7. CASE ReportSelfCertificate(n)
    <2>1. CASE /\ Usable(n) /\ built' = [built EXCEPT ![n].print = crt[n].key] /\ Goto(r, "users")
               /\ UNCHANGED <<cfg, fileVars, sharedVars, life, at, active, reloadCh, plan,
                       pair, spent, good, raced>>
      <3>1. built' \in [Nodes -> Presented]
        BY <2>1, TypesOfValues DEF Types, Typed, TypedFiles, Presented
      <3> QED BY <1>1, <1>2, <2>1, <3>1 DEF Goto, fileVars, sharedVars, Types, Typed, PcTypes,
                 TypedFiles, TypedEnvironments
    <2> QED BY <1>3, <1>7, <2>1 DEF ReportSelfCertificate, r
  <1>8. CASE GetUsers(n)
    <2>1. CASE \E p \in PcTypes : Goto(r, p) /\ UNCHANGED <<cfg, fileVars, sharedVars, mainVars, plan, pair, spent, good, raced>>
      BY <1>1, <1>2, <2>1 DEF Goto, fileVars, sharedVars, mainVars, Types, Typed,
         TypedFiles, TypedEnvironments
    <2> QED BY <1>3, <1>8, <2>1 DEF GetUsers, r, PcTypes
  <1>9. CASE BuildNode(n)
    <2> DEFINE in == BuildInbound(Protocol(n), ReadKey(n) # 0 /\ ReadCrt(n) # NoCert)
               presented == IF in.security = "tls"
                   THEN [key |-> ReadKey(n), crt |-> ReadCrt(n),
                         print |-> built[n].print,
                                own |-> ReadKey(n) = key[n] /\ ReadCrt(n) = crt[n],
                                excused |-> n \in raced]
                   ELSE NotServing
    <2>1. presented \in Presented
      BY TypesOfValues DEF Types, Typed, TypedFiles, Presented, ReadKey, ReadCrt
    <2> HIDE DEF in, presented
    <2>2. CASE /\ Preparing(n) /\ built' = [built EXCEPT ![n] = presented]
               /\ at' = at + 1
               /\ Goto(r, "idle")
               /\ UNCHANGED <<cfg, fileVars, sharedVars, life, active, reloadCh, plan, pair, spent>>
               /\ Settles(n)
      <3>1. TypedFiles'
        BY <2>1, <2>2 DEF fileVars, Types, TypedFiles
      <3> QED BY <1>1, <1>2, <1>4, <2>2, <3>1 DEF Preparing, Goto, Settles, fileVars, sharedVars, Types,
                 Typed, PcTypes, TypedEnvironments
    <2> QED BY <1>3, <1>9, <2>2 DEF BuildNode, r, in, presented
  <1> QED BY <1>5, <1>6, <1>7, <1>8, <1>9

(* What begins and ends, and time.                                         *)
LEMMA OtherTypes ==
  ASSUME Types, FInv, EInv,
         \/ Boots \/ ConfigRefused \/ ReloadBegins \/ StopsOld \/ Starts \/ Crash
         \/ \E n \in Nodes : RenewBegins(n) \/ GetsOlder(n)
         \/ UNCHANGED certVars
  PROVE  Types'
  <1> USE RunFacts
  <1>1. Environments' = Environments /\ Base \in Environments /\ cfg \in Configs /\ cfg' = cfg
    BY BaseIsOne DEF Boots, ConfigRefused, ReloadBegins, StopsOld, Starts, Crash, RenewBegins, GetsOlder,
       certVars, Environments, Values, NodeValues, Types, Typed
  <1>2. CASE Boots \/ ConfigRefused \/ ReloadBegins \/ StopsOld
    BY <1>1, <1>2 DEF Boots, ConfigRefused, ReloadBegins, StopsOld, fileVars, sharedVars, Types, Typed,
       TypedFiles, TypedEnvironments
  <1>3. CASE Starts
    <2>1. TypedFiles'
      BY <1>1, <1>3, TypesOfValues DEF Starts, fileVars, Types, TypedFiles
    <2> QED BY <1>1, <1>3, <2>1, TypesOfValues DEF Starts, fileVars, sharedVars, Types, Typed, TypedEnvironments
  <1>4. CASE Crash
    <2>1. TypedFiles'
      BY <1>1, <1>4, TypesOfValues DEF Crash, fileVars, Types, TypedFiles
    <2> QED BY <1>1, <1>4, <2>1, TypesOfValues DEF Crash, fileVars, Types, Typed, PcTypes, TypedEnvironments
  <1>5. ASSUME NEW n \in Nodes, RenewBegins(n) PROVE Types'
    BY <1>1, <1>5 DEF RenewBegins, Goto, fileVars, sharedVars, mainVars, Types, Typed, PcTypes, TypedFiles,
       TypedEnvironments
  <1>6. ASSUME NEW n \in Nodes, GetsOlder(n) PROVE Types'
    <2>1. crt' \in [Nodes -> Pairs]
      <3>1. crt[n] \in Pairs /\ crt[n].age \in {"fresh", "due"}
        BY <1>6 DEF GetsOlder, Older, Types, TypedFiles
      <3>2. Older[crt[n].age] \in {"due", "expired"}
        BY <3>1 DEF Older
      <3>3. [crt[n] EXCEPT !.age = Older[@]] \in Pairs
        BY <3>1, <3>2 DEF Pairs, NoCert, Ages
      <3>4. crt' = [crt EXCEPT ![n] = [crt[n] EXCEPT !.age = Older[@]]]
        BY <1>6 DEF GetsOlder, Types, TypedFiles
      <3> QED BY <3>3, <3>4 DEF Types, TypedFiles
    <2> QED BY <1>1, <1>6, <2>1 DEF GetsOlder, sharedVars, mainVars, Types, Typed, TypedFiles, TypedEnvironments
  <1>7. CASE UNCHANGED certVars
    BY <1>1, <1>7 DEF certVars, fileVars, sharedVars, mainVars, Types, Typed, TypedFiles, TypedEnvironments
  <1> QED BY <1>2, <1>3, <1>4, <1>5, <1>6, <1>7

(* All of them together.                                                   *)
LEMMA TypesStep ==
  ASSUME Types, EInv, FInv, [CertNext]_certVars
  PROVE  Types'
  <1>1. CASE Main
    BY <1>1, RunFacts, MainTypes, OtherTypes, DecidesTypes, LegoTypes DEF Main
  <1>2. ASSUME NEW n \in Nodes, RenewalRun(n) PROVE Types'
    BY <1>2, RunFacts, OtherTypes, DecidesTypes, LegoTypes DEF RenewalRun
  <1> QED BY <1>1, <1>2, OtherTypes DEF CertNext

(* What was sniffed, and the tag a connection is given to.                 *)
ConnTypes ==
  /\ conn \in [Conns -> {"new", "sniff", "route", "gone"}]
  /\ sniffed \in [Conns -> {Nothing} \cup UNION {t.sniffs : t \in Range(cfg.targets)}]
  /\ \A c \in Conns : conn[c] # "new" => c \in DOMAIN cfg.targets

(* Connections beside it.                                                  *)
LEMMA ConnTypesStep ==
  ASSUME Types, EInv, FInv, ConnInv, ConnTypes, [Next]_vars
  PROVE  ConnTypes'
  <1> DEFINE S == UNION {t.sniffs : t \in Range(cfg.targets)}
  <1>1. cfg' = cfg /\ S' = S
    <2>1. CASE CertNext
      BY <2>1, LifeStep
    <2>2. CASE UNCHANGED certVars
      BY <2>2 DEF certVars
    <2> QED BY <2>1, <2>2, StepsAreCertificateSteps
  <1>2. \A c \in DOMAIN cfg.targets : Target(c).sniffs \subseteq S
    BY DEF Target, Range
  <1>3. ConnTypes <=> /\ conn \in [Conns -> {"new", "sniff", "route", "gone"}]
                      /\ sniffed \in [Conns -> {Nothing} \cup S]
                      /\ \A c \in Conns : conn[c] # "new" => c \in DOMAIN cfg.targets
    BY DEF ConnTypes
  <1>4. ConnTypes' <=> /\ conn' \in [Conns -> {"new", "sniff", "route", "gone"}]
                       /\ sniffed' \in [Conns -> {Nothing} \cup S]
                       /\ \A c \in Conns : conn'[c] # "new" => c \in DOMAIN cfg.targets
    BY <1>1 DEF ConnTypes
  <1> HIDE DEF S
  <1>5. CASE Survive
    BY <1>3, <1>4, <1>5 DEF Survive
  <1>6. ASSUME NEW c \in Conns, Accept(c) \/ Sniff(c) \/ Dispatch(c) PROVE ConnTypes'
    BY <1>2, <1>3, <1>4, <1>6 DEF Accept, Sniff, Dispatch
  <1>7. CASE UNCHANGED vars
    BY <1>3, <1>4, <1>7 DEF vars, routeVars
  <1> QED BY <1>5, <1>6, <1>7 DEF Next, Provisions, Suffers, Renews

(* Hence the types hold of every server with its connections.              *)
LEMMA TypesInvariant == Spec => [](Types /\ ConnTypes)
  <1>1. Init => Types /\ ConnTypes
    BY InitTypes DEF Init, ConnTypes
  <1>2. (EInv /\ FInv) /\ ConnInv /\ (Types /\ ConnTypes) /\ [Next]_vars => (Types /\ ConnTypes)'
    BY TypesStep, ConnTypesStep, StepsAreCertificateSteps
  <1> QED BY <1>1, <1>2, InductiveInvariant, ConnInvIsInvariant, PTL DEF Spec

(* The types of everything a server keeps, its files, the environment and  *)
(* what its inbounds present; a node is prepared only while its turn has   *)
(* come, and a connection is given to an outbound there is.                *)
THEOREM TypeCorrect == Spec => []TypeOK
  <1>1. ASSUME Types, ConnTypes, FInv, ConnInv, RoutesResolve PROVE TypeOK
    <2>1. CertTypeOK
      <3>1. ASSUME NEW n \in Nodes, pc[<<Prepare, n>>] # "idle" PROVE Preparing(n)
        <4> DEFINE r == <<Prepare, n>>
        <4>1. r \in Runs /\ r[1] = Prepare /\ r[2] = n
          BY RunFacts
        <4>2. Running
          BY <1>1 DEF FInv
        <4> HIDE DEF r
        <4>3. pc[r] # "idle"
          BY <3>1 DEF r
        <4> QED BY <4>1, <4>2, <4>3 DEF Running
      <3> QED BY <1>1, <3>1 DEF CertTypeOK, Types, Typed, TypedFiles, TypedEnvironments, PcTypes
    <2>2. ASSUME NEW c \in Conns, route[c] # Pending
          PROVE  HasOutboundWithTag(CustomConfig.outbounds, route[c])
      BY <1>1, <2>2, DispatchedIsRouted
    <2> QED BY <1>1, <2>1, <2>2 DEF TypeOK, ConnTypes
  <1> QED BY <1>1, TypesInvariant, InductiveInvariant, ConnInvIsInvariant, ConnectionsResolve, PTL
=============================================================================
