---------------------------- MODULE Certificates ----------------------------
(***************************************************************************)
(* The certificates of a server: how the controllers of an instance get    *)
(* theirs before they start (node/controller.go, node/cert.go), how the    *)
(* daily task renews them (node/lego.go), and what a reload, a failure or  *)
(* a crash between two writes leaves.                                      *)
(*                                                                         *)
(* The main goroutine prepares the enabled protocols one after the other,  *)
(* at boot or beside the instance that serves; every instance that serves  *)
(* renews concurrently. Both kinds of run share one ACME account file, the *)
(* environment of the process, port 80 and the files of their node, and    *)
(* each has its own pc. A pair of files is a key and a certificate for it; *)
(* keys are numbers, and the numbers of keys that are gone are used again. *)
(*                                                                         *)
(* cert.go writes to /etc/ppanel-node, the inbound builder reads from      *)
(* /etc/PPanel-node. Nothing in the program makes one lead to the other;   *)
(* whether it does (a link), and what else is there, is a fact of the      *)
(* server, like the files it has when it is first started.                 *)
(***************************************************************************)
EXTENDS Configuration, FiniteSets

CONSTANTS
  Nodes,      \* positions in the list of protocols: 1..n
  Configs,    \* configurations the panel may have for this server
  Keys,       \* private keys, 0 for none
  Names,      \* variables of the environment
  Base        \* the environment the process was started with

ASSUME NodesAssumption == Cardinality(Nodes) \in Nat /\ Nodes = 1..Cardinality(Nodes)
ASSUME KeysAssumption == 0 \in Keys /\ Keys # {0}
ASSUME BaseAssumption == Base = [v \in Names |-> Base[v]]

Unset == "unset"
NoCert == [key |-> 0, ec |-> FALSE, age |-> "none"]
Ages == {"none", "fresh", "due", "expired"}
Pairs == {NoCert} \cup [key : Keys \ {0}, ec : BOOLEAN, age : Ages \ {"none"}]

(* The bounds of a configuration, most.ages, most.fails, most.crashes and  *)
(* most.reloads: how often a certificate falls due or expires, something   *)
(* fails (the panel, the CA, the disk, xray), the process dies, and the    *)
(* server is reloaded for another reason than a certificate.               *)
Bounds == [ages : Nat, fails : Nat, crashes : Nat, reloads : Nat]

(* A configuration has the shape of the panel's answer: a protocol for     *)
(* every position and lists of rules. Besides it says what is on the disk  *)
(* when the service is first started: the files, those in the directory    *)
(* the inbound builder reads, and whether that is the same one (linked).   *)
Rules == [kind : STRING, value : STRING]
Items == [name : STRING, protocol : STRING, settings : STRING, streamSettings : STRING,
          transport : STRING, security : STRING, builds : BOOLEAN, rules : Seq(Rules)]

ASSUME ConfigsAssumption ==
  \A c \in Configs :
    /\ c.most \in Bounds
    /\ DOMAIN c.protocols = Nodes
    /\ c.block \in Seq(Rules) /\ c.outbound \in Seq(Items)
    /\ \A n \in Nodes : {c.files[n], c.old[n]} \subseteq [key : Keys, crt : Pairs]
    /\ c.account \in {"none", "other", "ready"} /\ c.linked \in BOOLEAN

Prepare == "prepare"     \* the controller that is being prepared
Renew == "renew"         \* the renewal task of the one that serves
Runs == {Prepare, Renew} \X Nodes
Other(r) == IF r[1] = Prepare THEN <<Renew, r[2]>> ELSE <<Prepare, r[2]>>
NoRun == <<"none", 0>>

VARIABLES
  cfg,      \* the configuration, one of Configs
  life,     \* main: "down", "boot", "reload", "switch", "up" or "refused"
  at,       \* the node main prepares, or the first it has not come to
  pc,       \* where each run is
  plan,     \* what it has decided to do: "none", "create" or "renew"
  pair,     \* the pair it was given and writes
  key,      \* the key file of each node
  crt,      \* its certificate file
  account,  \* the account file: "none", "other" (another address) or "ready"
  env,      \* the environment of the process
  lock,     \* the run that holds dnsProviderEnvMu
  previous, \* what a run has to restore
  provider, \* the environment a run's DNS provider was built in
  port80,   \* the run whose challenge server listens
  built,    \* what the inbound that was prepared presents
  active,   \* what the inbound that serves presents
  reloadCh, \* signals in ReloadCh, capacity 1
  spent,    \* how much of each bound is used up
  good,     \* history: nodes whose files have been usable, until they expire
  raced     \* history: nodes whose files two runs write, or time ran out on

fileVars == <<key, crt, account>>
sharedVars == <<env, lock, previous, provider, port80>>
mainVars == <<life, at, built, active, reloadCh>>
certVars == <<cfg, fileVars, sharedVars, mainVars, pc, plan, pair, spent, good, raced>>

Protocol(n) == cfg.protocols[n]
Enabled(n) == Supported(Protocol(n)) /\ Protocol(n).enable
Mode(n) == Protocol(n).certMode
Managed(n) == UsesTLSCertificate(Protocol(n)) /\ Mode(n) \in {"dns", "http"}
SelfSigned(n) == UsesTLSCertificate(Protocol(n)) /\ Mode(n) = "self"

(* loadUsableCertificate: the files match and the certificate is valid.    *)
Matching(n) == key[n] # 0 /\ crt[n].key = key[n]
Usable(n) == Matching(n) /\ crt[n].age \in {"fresh", "due"}
Kept(n) == Usable(n) /\ crt[n].ec

NotServing == [key |-> 0, crt |-> NoCert, print |-> 0, own |-> FALSE, excused |-> FALSE]

(* Keys are random: a new one is none of those that are still somewhere,   *)
(* as long as there are others.                                            *)
NewKey ==
  LET held == {key[n] : n \in Nodes} \cup {crt[n].key : n \in Nodes}
                \cup {cfg.old[n].key : n \in Nodes} \cup {pair[r].key : r \in Runs}
                \cup UNION {{built[n].crt.key, active[n].crt.key} : n \in Nodes}
  IN CHOOSE k \in Keys \ {0} : k \in held => Keys \ {0} \subseteq held

FreshPair(k) == [key |-> k, ec |-> TRUE, age |-> "fresh"]

Fails == spent.fails < cfg.most.fails /\ spent' = [spent EXCEPT !.fails = @ + 1]

CertInit ==
  /\ cfg \in Configs
  /\ life = "down" /\ at = 1
  /\ pc = [r \in Runs |-> "idle"]
  /\ plan = [r \in Runs |-> "none"]
  /\ pair = [r \in Runs |-> NoCert]
  /\ key = [n \in Nodes |-> cfg.files[n].key]
  /\ crt = [n \in Nodes |-> cfg.files[n].crt]
  /\ account = cfg.account
  /\ env = Base /\ lock = NoRun /\ port80 = NoRun
  /\ previous = [r \in Runs |-> Base]
  /\ provider = [r \in Runs |-> Base]
  /\ built = [n \in Nodes |-> NotServing]
  /\ active = [n \in Nodes |-> NotServing]
  /\ reloadCh = 0
  /\ spent = [ages |-> 0, fails |-> 0, crashes |-> 0, reloads |-> 0]
  /\ good = {n \in Nodes : Kept(n)}
  /\ raced = {}

-----------------------------------------------------------------------------
(* The life of a run. Two plans for the same files at once make a race,    *)
(* which lasts until both have ended.                                      *)
Goto(r, where) == pc' = [pc EXCEPT ![r] = where]

Plans(r, what) ==
  /\ plan' = [plan EXCEPT ![r] = what]
  /\ IF plan[Other(r)] = "none" THEN UNCHANGED <<raced, good>>
     ELSE raced' = raced \cup {r[2]} /\ good' = good \ {r[2]}

(* The race, and what the files are worth, where the action leaves them.   *)
Settles(n) ==
  /\ raced' = IF \A r \in Runs : r[2] = n => pc'[r] = "idle" THEN raced \ {n} ELSE raced
  /\ good' = IF n \notin raced' /\ Kept(n)' THEN good \cup {n} ELSE good

(* Nothing of the run is left.                                             *)
Ends(r) ==
  /\ plan' = [plan EXCEPT ![r] = "none"]
  /\ pair' = [pair EXCEPT ![r] = NoCert]
  /\ previous' = [previous EXCEPT ![r] = Base]
  /\ provider' = [provider EXCEPT ![r] = Base]
  /\ Settles(r[2])

(* An error: a failed boot ends the process, a failed reload keeps the     *)
(* instance that serves, a failed renewal waits for the next day.          *)
Fallback(r) ==
  /\ Goto(r, "idle")
  /\ IF r[1] = Prepare
     THEN /\ life' = IF life = "boot" THEN "down" ELSE "up"
          /\ at' = 1 /\ built' = [n \in Nodes |-> NotServing]
     ELSE UNCHANGED <<life, at, built>>
  /\ UNCHANGED <<cfg, active, reloadCh>>

GivesUp(r) == UNCHANGED fileVars /\ Fallback(r) /\ Ends(r)

-----------------------------------------------------------------------------
(* requestCert in the controller that is prepared. What is kept has its    *)
(* key file made private, which may fail.                                  *)
Returned(r) == IF SelfSigned(r[2]) THEN "report" ELSE "build"

RequestCert(r) ==
  LET n == r[2]
      returns == /\ UNCHANGED fileVars /\ Goto(r, Returned(r)) /\ Ends(r)
                 /\ UNCHANGED <<cfg, mainVars, env, lock, port80, spent>>
      refuses == GivesUp(r) /\ UNCHANGED <<env, lock, port80, spent>>
      secures == returns \/ (Fails /\ GivesUp(r) /\ UNCHANGED <<env, lock, port80>>)
  IN /\ r[1] = Prepare /\ pc[r] = "check"
     /\ CASE Mode(n) \in {"", "none"} -> returns
          [] Mode(n) = "file" -> IF Usable(n) THEN secures ELSE refuses
          [] Mode(n) \in {"dns", "http", "self"} ->
               IF Kept(n) THEN secures
               ELSE IF Mode(n) = "self" /\ Protocol(n).sni = "" THEN refuses
               ELSE /\ Plans(r, "create")
                    /\ IF Mode(n) = "self"
                       THEN pair' = [pair EXCEPT ![r] = FreshPair(NewKey)] /\ Goto(r, "key")
                       ELSE UNCHANGED pair /\ Goto(r, "account")
                    /\ UNCHANGED <<cfg, fileVars, sharedVars, mainVars, spent>>
          [] OTHER -> refuses

-----------------------------------------------------------------------------
(* NewLego: the ACME account, then the challenge provider. A missing       *)
(* account, or one of another address, is registered and saved at once.    *)
AfterAccount(r) == IF Mode(r[2]) = "dns" THEN "env" ELSE "ready"

NewLegoUser(r) ==
  /\ pc[r] = "account"
  /\ \/ account = "ready" /\ UNCHANGED <<account, spent>>
     \/ account # "ready" /\ account' = "ready" /\ UNCHANGED spent
  /\ Goto(r, AfterAccount(r))
  /\ UNCHANGED <<cfg, key, crt, sharedVars, mainVars, plan, pair, good, raced>>

(* newLegoUser or lego.NewClient fails. A client that cannot be made after *)
(* the account was saved leaves what a later failure of the run leaves.    *)
NewLegoFails(r) ==
  /\ pc[r] = "account"
  /\ Fails /\ GivesUp(r)
  /\ UNCHANGED <<env, lock, port80>>

(* The variables of a run's node over those of the process.                *)
Merged(r, e) == [v \in Names |-> IF v \in DOMAIN Protocol(r[2]).dnsEnv
                                 THEN Protocol(r[2]).dnsEnv[v] ELSE e[v]]

LockEnvironment_Never == TRUE
LockEnvironment == lock = NoRun

(* SetProvider under dnsProviderEnvMu. The variables of the node replace   *)
(* those of the process while the provider is made.                        *)
ApplyDNSEnvironment(r) ==
  /\ pc[r] = "env" /\ LockEnvironment
  /\ lock' = r
  /\ previous' = [previous EXCEPT ![r] = env]
  /\ env' = Merged(r, env)
  /\ Goto(r, "provide")
  /\ UNCHANGED <<cfg, fileVars, mainVars, provider, port80, plan, pair, spent, good, raced>>

(* A variable cannot be set: those that were are put back.                 *)
ApplyFails(r) ==
  /\ pc[r] = "env" /\ LockEnvironment
  /\ Fails /\ GivesUp(r)
  /\ UNCHANGED <<env, lock, port80>>

NewDNSProvider(r) ==
  /\ pc[r] = "provide"
  /\ provider' = [provider EXCEPT ![r] = env]
  /\ Goto(r, "restore")
  /\ UNCHANGED <<cfg, fileVars, mainVars, env, lock, previous, port80, plan, pair, spent, good, raced>>

Restored(r) == [v \in Names |-> IF v \in DOMAIN Protocol(r[2]).dnsEnv
                                THEN previous[r][v] ELSE env[v]]

(* The deferred calls: restore, then unlock. When the provider could not   *)
(* be made they run as well.                                               *)
RestoreEnvironment(r) ==
  /\ pc[r] = "restore"
  /\ env' = Restored(r) /\ lock' = NoRun
  /\ previous' = [previous EXCEPT ![r] = Base]
  /\ Goto(r, "ready")
  /\ UNCHANGED <<cfg, fileVars, mainVars, provider, port80, plan, pair, spent, good, raced>>

ProviderFails_KeepsLock(r) ==
  /\ pc[r] = "provide"
  /\ Fails /\ GivesUp(r)
  /\ env' = Restored(r)
  /\ UNCHANGED <<lock, port80>>

ProviderFails(r) ==
  /\ pc[r] = "provide"
  /\ Fails /\ GivesUp(r)
  /\ env' = Restored(r) /\ lock' = NoRun
  /\ UNCHANGED port80

-----------------------------------------------------------------------------
(* Renewal asks for a certificate for the key it has.                      *)
RenewedPair_NewKey(n) == FreshPair(NewKey)
RenewedPair(n) == FreshPair(key[n])

(* RenewCert: what the files call for. A pair that cannot be renewed is    *)
(* replaced; one that is not due is left. The key that is kept is made     *)
(* private first, which may fail.                                          *)
RenewCert(r) ==
  LET n == r[2]
      what == IF ~Kept(n) THEN "create" ELSE IF crt[n].age = "due" THEN "renew" ELSE "none"
  IN /\ r[1] = Renew /\ pc[r] = "ready" /\ plan[r] = "none"
     /\ \/ /\ what # "none"
           /\ Plans(r, what)
           /\ pair' = IF what = "renew" THEN [pair EXCEPT ![r] = RenewedPair(n)]
                      ELSE pair
           /\ Goto(r, "order")
           /\ UNCHANGED <<cfg, fileVars, sharedVars, mainVars, spent>>
        \/ /\ what = "none"
           /\ GivesUp(r)
           /\ UNCHANGED <<env, lock, port80, spent>>
        \/ /\ Kept(n) /\ Fails
           /\ GivesUp(r)
           /\ UNCHANGED <<env, lock, port80>>

(* CreateCert goes on where NewLego returns.                               *)
Ordering(r) ==
  \/ pc[r] = "order"
  \/ pc[r] = "ready" /\ plan[r] = "create"

(* An order at the CA. The http challenge is answered on port 80, which    *)
(* one run can listen on at a time.                                        *)
Order(r) ==
  /\ Ordering(r)
  /\ Mode(r[2]) = "http" => port80 = NoRun
  /\ port80' = IF Mode(r[2]) = "http" THEN r ELSE port80
  /\ Goto(r, "obtain")
  /\ UNCHANGED <<cfg, fileVars, mainVars, env, lock, previous, provider, plan, pair, spent, good, raced>>

PortTaken(r) ==
  /\ Ordering(r) /\ Mode(r[2]) = "http" /\ port80 # NoRun
  /\ GivesUp(r)
  /\ UNCHANGED <<env, lock, port80, spent>>

Listening(r) == IF port80 = r THEN NoRun ELSE port80

(* Obtain makes a new key, Renew keeps the one it read.                    *)
Obtained(r) ==
  /\ pc[r] = "obtain"
  /\ pair' = IF plan[r] = "renew" THEN pair ELSE [pair EXCEPT ![r] = FreshPair(NewKey)]
  /\ port80' = Listening(r)
  /\ Goto(r, "key")
  /\ UNCHANGED <<cfg, fileVars, mainVars, env, lock, previous, provider, plan, spent, good, raced>>

ObtainFails(r) ==
  /\ pc[r] = "obtain"
  /\ Fails /\ GivesUp(r)
  /\ port80' = Listening(r)
  /\ UNCHANGED <<env, lock>>

-----------------------------------------------------------------------------
(* A signal fits, or there is one already.                                 *)
EnqueueReload_Queues == reloadCh' = reloadCh + 1
EnqueueReload == reloadCh' = 1

(* writeCertificatePair: two files, each replaced by a rename. A write     *)
(* that fails leaves the file as it was.                                   *)
WriteKey(r) ==
  /\ pc[r] = "key"
  /\ key' = [key EXCEPT ![r[2]] = pair[r].key]
  /\ Goto(r, "cert")
  /\ UNCHANGED <<cfg, crt, account, sharedVars, mainVars, plan, pair, spent, good, raced>>

WriteFails(r) ==
  /\ pc[r] \in {"key", "cert"}
  /\ Fails /\ GivesUp(r)
  /\ UNCHANGED <<env, lock, port80>>

WriteCert(r) ==
  /\ pc[r] = "cert"
  /\ crt' = [crt EXCEPT ![r[2]] = pair[r]]
  /\ UNCHANGED <<key, account>>
  /\ IF r[1] = Prepare THEN Goto(r, Returned(r)) /\ UNCHANGED reloadCh
     ELSE Goto(r, "idle") /\ EnqueueReload
  /\ Ends(r)
  /\ UNCHANGED <<cfg, life, at, built, active, env, lock, port80, spent>>

-----------------------------------------------------------------------------
(* The main goroutine. It prepares the nodes in the order of the list:     *)
(* a self-signed certificate before the users are asked for, so that the   *)
(* panel learns its fingerprint, any other after.                          *)
(* The core starts with the outbounds and rules, before any node.          *)
CustomConfig == BuildOutbound(cfg.block, cfg.outbound)

Accepted == ValidateServerConfig(cfg.protocols) /\ CustomConfig # Refused

Boots ==
  /\ life = "down" /\ Accepted
  /\ life' = "boot"
  /\ UNCHANGED <<cfg, fileVars, sharedVars, at, built, active, reloadCh, pc, plan,
                 pair, spent, good, raced>>

ConfigRefused ==
  /\ life = "down" /\ ~Accepted
  /\ life' = "refused"
  /\ UNCHANGED <<cfg, fileVars, sharedVars, at, built, active, reloadCh, pc, plan,
                 pair, spent, good, raced>>

(* A signal of the renewal, or another reason.                             *)
ReloadBegins ==
  /\ life = "up"
  /\ \/ reloadCh = 1 /\ UNCHANGED spent
     \/ /\ reloadCh = 0 /\ spent.reloads < cfg.most.reloads
        /\ spent' = [spent EXCEPT !.reloads = @ + 1]
  /\ reloadCh' = 0 /\ life' = "reload"
  /\ UNCHANGED <<cfg, fileVars, sharedVars, at, built, active, pc, plan, pair, good, raced>>

Preparing(n) == life \in {"boot", "reload"} /\ at = n

SkipNode(n) ==
  /\ Preparing(n) /\ ~Enabled(n)
  /\ at' = at + 1
  /\ UNCHANGED <<cfg, fileVars, sharedVars, life, built, active, reloadCh, pc, plan,
                 pair, spent, good, raced>>

PrepareNode(n) ==
  /\ Preparing(n) /\ Enabled(n) /\ pc[<<Prepare, n>>] = "idle"
  /\ Goto(<<Prepare, n>>, IF SelfSigned(n) THEN "check" ELSE "users")
  /\ UNCHANGED <<cfg, fileVars, sharedVars, mainVars, plan, pair, spent, good, raced>>

(* The fingerprint of what is in the files now.                            *)
ReportSelfCertificate(n) ==
  /\ Preparing(n) /\ pc[<<Prepare, n>>] = "report"
  /\ \/ /\ Usable(n)
        /\ built' = [built EXCEPT ![n].print = crt[n].key]
        /\ Goto(<<Prepare, n>>, "users")
        /\ UNCHANGED <<cfg, fileVars, sharedVars, life, at, active, reloadCh, plan,
                       pair, spent, good, raced>>
     \/ /\ Fails \/ (~Usable(n) /\ UNCHANGED spent)
        /\ GivesUp(<<Prepare, n>>) /\ UNCHANGED <<env, lock, port80>>

GetUsers(n) ==
  /\ Preparing(n) /\ pc[<<Prepare, n>>] = "users"
  /\ \/ /\ Goto(<<Prepare, n>>, IF UsesTLSCertificate(Protocol(n)) /\ ~SelfSigned(n)
                      THEN "check" ELSE "build")
        /\ UNCHANGED <<cfg, fileVars, sharedVars, mainVars, plan, pair, spent, good, raced>>
     \/ Fails /\ GivesUp(<<Prepare, n>>) /\ UNCHANGED <<env, lock, port80>>

(* The pair the inbound builder reads.                                     *)
ReadKey(n) == IF cfg.linked THEN key[n] ELSE cfg.old[n].key
ReadCrt(n) == IF cfg.linked THEN crt[n] ELSE cfg.old[n].crt

BuildNode(n) ==
  LET in == BuildInbound(Protocol(n), ReadKey(n) # 0 /\ ReadCrt(n) # NoCert)
      presented == IF in.security = "tls"
                   THEN [key |-> ReadKey(n), crt |-> ReadCrt(n),
                         print |-> built[n].print,
                         own |-> ReadKey(n) = key[n] /\ ReadCrt(n) = crt[n],
                         excused |-> n \in raced]
                   ELSE NotServing
  IN /\ Preparing(n) /\ pc[<<Prepare, n>>] = "build"
     /\ \/ /\ in # Refused
           /\ built' = [built EXCEPT ![n] = presented]
           /\ at' = at + 1
           /\ Goto(<<Prepare, n>>, "idle")
           /\ UNCHANGED <<cfg, fileVars, sharedVars, life, active, reloadCh, plan, pair, spent>>
           /\ Settles(n)
        \/ /\ in = Refused
           /\ GivesUp(<<Prepare, n>>) /\ UNCHANGED <<env, lock, port80, spent>>

(* All are prepared. A reload stops the node that serves, which waits for  *)
(* its renewals, and starts the new one; if that fails the old one starts  *)
(* again with what it had.                                                 *)
Prepared == life \in {"boot", "reload"} /\ at \notin Nodes

StopsOld ==
  /\ Prepared /\ life = "reload"
  /\ life' = "switch"
  /\ UNCHANGED <<cfg, fileVars, sharedVars, at, built, active, reloadCh, pc, plan,
                 pair, spent, good, raced>>

Starts ==
  /\ \/ Prepared /\ life = "boot"
     \/ life = "switch" /\ \A n \in Nodes : pc[<<Renew, n>>] = "idle"
  /\ at' = 1
  /\ built' = [n \in Nodes |-> NotServing]
  /\ \/ life' = "up" /\ active' = built /\ UNCHANGED spent
     \/ life' = (IF life = "boot" THEN "down" ELSE "up") /\ Fails /\ UNCHANGED active
  /\ UNCHANGED <<cfg, fileVars, sharedVars, reloadCh, pc, plan, pair, good, raced>>

-----------------------------------------------------------------------------
(* The renewal task runs when it is started and every day, while its       *)
(* controller is not being stopped.                                        *)
RenewBegins(n) ==
  /\ life \in {"up", "reload"} /\ Enabled(n) /\ Managed(n)
  /\ pc[<<Renew, n>>] = "idle"
  /\ Goto(<<Renew, n>>, "account")
  /\ UNCHANGED <<cfg, fileVars, sharedVars, mainVars, plan, pair, spent, good, raced>>

(* Time. A pair that expires while a run works on it is out of its hands.  *)
Older == [fresh |-> "due", due |-> "expired"]

GetsOlder(n) ==
  /\ Managed(n) /\ crt[n].age \in DOMAIN Older /\ spent.ages < cfg.most.ages
  /\ spent' = [spent EXCEPT !.ages = @ + 1]
  /\ crt' = [crt EXCEPT ![n].age = Older[@]]
  /\ good' = IF crt[n].age = "due" THEN good \ {n} ELSE good
  /\ raced' = IF crt[n].age = "due" /\ \E r \in Runs : r[2] = n /\ pc[r] # "idle"
              THEN raced \cup {n} ELSE raced
  /\ UNCHANGED <<cfg, key, account, sharedVars, mainVars, pc, plan, pair>>

(* The process dies. Files stay as they are, between any two writes.       *)
Crash ==
  /\ life \notin {"down", "refused"} /\ spent.crashes < cfg.most.crashes
  /\ spent' = [spent EXCEPT !.crashes = @ + 1]
  /\ life' = "down" /\ at' = 1 /\ reloadCh' = 0
  /\ pc' = [r \in Runs |-> "idle"]
  /\ plan' = [r \in Runs |-> "none"]
  /\ pair' = [r \in Runs |-> NoCert]
  /\ env' = Base /\ lock' = NoRun /\ port80' = NoRun
  /\ previous' = [r \in Runs |-> Base]
  /\ provider' = [r \in Runs |-> Base]
  /\ built' = [n \in Nodes |-> NotServing]
  /\ active' = [n \in Nodes |-> NotServing]
  /\ raced' = {}
  /\ good' = good \ raced
  /\ UNCHANGED <<cfg, fileVars>>

-----------------------------------------------------------------------------
Lego(r) ==
  \/ NewLegoUser(r) \/ NewLegoFails(r)
  \/ ApplyDNSEnvironment(r) \/ ApplyFails(r)
  \/ NewDNSProvider(r) \/ RestoreEnvironment(r) \/ ProviderFails(r)
  \/ Order(r) \/ PortTaken(r) \/ Obtained(r) \/ ObtainFails(r)
  \/ WriteKey(r) \/ WriteFails(r) \/ WriteCert(r)

RenewalRun(n) ==
  RenewBegins(n) \/ RenewCert(<<Renew, n>>) \/ Lego(<<Renew, n>>)

Main ==
  \/ Boots \/ ConfigRefused \/ ReloadBegins
  \/ \E n \in Nodes :
       \/ SkipNode(n) \/ PrepareNode(n) \/ ReportSelfCertificate(n)
       \/ GetUsers(n) \/ BuildNode(n)
       \/ RequestCert(<<Prepare, n>>) \/ Lego(<<Prepare, n>>)
  \/ StopsOld \/ Starts

CertNext ==
  \/ Main
  \/ \E n \in Nodes : RenewalRun(n) \/ GetsOlder(n)
  \/ Crash

CertSpec == CertInit /\ [][CertNext]_certVars

-----------------------------------------------------------------------------
Presented == [key : Keys, crt : Pairs, print : Keys, own : BOOLEAN,
              excused : BOOLEAN]
NodeValues == UNION {Range(p.dnsEnv) : p \in ToSet(cfg.protocols)}
Values == {Unset} \cup NodeValues \cup Range(Base)
Environments == [Names -> Values]

CertTypeOK ==
  /\ life \in {"down", "boot", "reload", "switch", "up", "refused"}
  /\ at \in Nodes \cup {Cardinality(Nodes) + 1} /\ reloadCh \in {0, 1}
  /\ pc \in [Runs -> {"idle", "users", "check", "report", "account", "env", "provide",
                      "restore", "ready", "order", "obtain", "key", "cert", "build"}]
  /\ plan \in [Runs -> {"none", "create", "renew"}]
  /\ pair \in [Runs -> Pairs]
  /\ key \in [Nodes -> Keys] /\ crt \in [Nodes -> Pairs]
  /\ account \in {"none", "other", "ready"}
  /\ env \in Environments /\ lock \in Runs \cup {NoRun} /\ port80 \in Runs \cup {NoRun}
  /\ previous \in [Runs -> Environments] /\ provider \in [Runs -> Environments]
  /\ built \in [Nodes -> Presented] /\ active \in [Nodes -> Presented]
  /\ good \subseteq Nodes /\ raced \subseteq Nodes
  /\ \A n \in Nodes : pc[<<Prepare, n>>] # "idle" => Preparing(n)

(* A node whose certificate the program gets for it, and what its inbound  *)
(* presents: certificate and key match, the certificate had not expired    *)
(* when it was read, and a self-signed one is the one the panel was told.  *)
Ours(n) == Enabled(n) /\ (Managed(n) \/ SelfSigned(n))
Serves == life \in {"up", "reload", "switch"}

Presents(b, n) ==
  /\ b.key # 0 /\ b.crt.key = b.key
  /\ b.crt.age \in {"fresh", "due"}
  /\ SelfSigned(n) => b.print = b.crt.key

(* A node that serves with a certificate the program got for it presents   *)
(* the pair it got. Excused are a node whose pair two runs wrote at once   *)
(* and one whose certificate ran out meanwhile.                            *)
InForce ==
  Serves => \A n \in Nodes :
    Ours(n) /\ ~active[n].excused => Presents(active[n], n)

(* It never serves in the clear, and presents that pair if the files that  *)
(* were read are those the program keeps.                                  *)
Sound(b, n) ==
  /\ b.key # 0 /\ b.crt # NoCert
  /\ (cfg.linked \/ b.own) /\ ~b.excused => Presents(b, n)

(* Files that are a usable P-256 pair stay one until the certificate       *)
(* expires, whatever fails and wherever the process dies: the key file is  *)
(* replaced before the certificate, but a renewal keeps the key. And a     *)
(* node that the program gets a certificate for serves with one, the one   *)
(* it was given where the directories are the same or hold the same pair.  *)
PairUsable ==
  /\ \A n \in good \ raced : Kept(n)
  /\ Serves => \A n \in Nodes : Ours(n) => Sound(active[n], n)

(* Every DNS provider is made with the variables of its own node over the  *)
(* environment of the process, and the process has it back afterwards.     *)
OwnCredentials ==
  /\ lock = NoRun => env = Base
  /\ \A r \in Runs :
       pc[r] \in {"restore", "ready", "order", "obtain", "key", "cert"} /\ Mode(r[2]) = "dns" =>
         provider[r] = Merged(r, Base)

(* Where inbounds find files to present, the certificate of a managed node *)
(* that is not fresh becomes so again, however its renewals fail, collide  *)
(* on port 80, race with a reload or are cut off by a crash.               *)
Renewed ==
  \A n \in Nodes :
    Enabled(n) /\ Managed(n) /\ ~(Kept(n) /\ crt[n].age = "fresh") ~>
      \/ Kept(n) /\ crt[n].age = "fresh"
      \/ life = "refused"
=============================================================================
