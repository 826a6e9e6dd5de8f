# A verification of ppanel-node in TLA+

`ppanel-node` is a proxy node: it runs xray-core with the inbounds, users and
limits that a panel prescribes, meters the traffic of every user, and reports
it back. This directory holds a model of its own logic in TLA+, the TLC
configurations that check it on small instances, and proofs that hold for every
size, checked by TLAPS. Paths like `node/task.go` are relative to the root of
the repository.

- [The system](#the-system) and its components
- [Modules](#modules) and how they correspond to the code
- [Runs](#runs), their bounds and what they show
- [Fairness](#fairness)
- [Proofs](#proofs)
- [Findings](#findings) and other things the models made visible
- [What is not modelled](#what-is-not-modelled)
- [Plan](#plan)

## The system

One process. Its main goroutine (`cmd/server.go`) boots, waits for signals and
reloads. Everything else runs in periodic tasks, in the goroutines of xray's
connections, and in the panel.

```
 panel  <----HTTP----  ServerClient (per core)   NodeClient (per controller)
                            |                          |
 main loop --owns--> XrayCore --monitor task--> ReloadCh (capacity 1) --> main loop
                        ^                              ^
                        |                       file watcher, timed-out tasks
                      Node --report task--> trafficQueue --> panel
                        |
                   Controllers --user list task--> users of the inbound, uidMap,
                        |                          limiter, counters, links
                        +-----certificate task---> files, ReloadCh

 connections (xray goroutines) --> dispatcher --> limiter, link managers, counters
```

| Component | Code | State | Operations | What is hard |
|---|---|---|---|---|
| Periodic task | `common/task` | the cancel function and done channel, the loop and its timer, the call under way | Start, Close, the loop, execute | overlap of runs, Close against Start and against a run, full reload channel |
| Server and reload | `cmd/server.go`, `conf` | installed node and core, ReloadCh, pending signal | boot, reload, rollback, exit | failure at each step with two instances alive; signals that race with a reload |
| Node, controller | `node/node.go`, `node/controller.go` | tasks, `started`, `prepared`, cached users and inbound | Prepare, Start, Stop, Close | order of tasks, listeners and cores; restart from the cache |
| User list monitor | `node/task.go`, `core/user.go` | last list applied, users of xray, `uidMap` | fetch, compare, delete, add | partial failure; differences against a stale list |
| Traffic | `node/traffic.go`, `common/counter`, `core/user.go` | counters, slices being built, queue of batches | count, collect, add, report, flush | two collectors, lost responses, revocation, exit |
| Limiter | `limiter`, `common/rate` | limits, online addresses, buckets | Add, UpdateUser, CheckLimit, GetOnlineDevice | check against update, read and reset |
| Dispatcher | `core/app/dispatcher` | link managers, counters | getLink, DispatchLink, CloseAll | registration of a link against the revocation of its user |
| Xray core | `core/xray.go`, `core/node.go`, `core/inbound.go` | the xray instance, monitor | Start, Close, AddNodeConfig, DelNode | what is left after a failure |
| Panel client | `api/panel` | ETags, body hash, encoding | the requests | 304 against empty against failed |
| Self update | `internal/selfupdate`, `cmd/upgrade.go` | binary, backup, memory of attempts | ApplyTargetVersion, upgrade, ReplaceVerified | crash between renames, two updaters, retries |
| TUIC transport | `core/transport/tuic` | sessions, UDP associations, fragments, deadlines | authenticate, relay, dissociate, reassemble | authentication against its timeout, number reuse |
| Certificates | `node/cert.go`, `node/lego.go` | key pair, ACME account, environment | request, renew, report | crash between two files, shared environment |
| Configuration | `core/custom.go`, `core/validate.go`, `core/inbound`, `core/outbound` | none | validate, build | which of many combinations are accepted |

What makes each correct, in a sentence:

- *Task*: runs of a task never overlap; Close is a barrier and returns; a task
  that is not closed keeps running.
- *Reload*: however it ends, one whole configuration is served and nothing of
  the other is left; no task works on what is closed; the last configuration
  wins; a signal ends the process.
- *Users*: inbound, id table and limiter describe the same list; a list that is
  published is applied.
- *Traffic*: a byte leaves the node's memory only when the panel acknowledged
  it or its user was revoked; the exit sends what is left.
- *Limiter and dispatcher*: a connection that is let through is metered under
  the limits in force, and a revoked user's connections end.
- *Self update*: only a binary that was tried is installed, and the machine can
  always come back.
- *TUIC*: nothing is relayed before authentication, and a datagram reaches the
  association it was sent to, whole.
- *Certificates*: xray loads the pair the node wrote.

## Modules

| Module | Models | Extends / uses |
|---|---|---|
| `PeriodicTask` | `common/task/task.go` | instance of `TaskContract` |
| `TaskContract` | what the users of a task rely on (abstract specification) | |
| `PeriodicTaskProofs` | theorems about it, and the refinement | `PeriodicTask`, `TLAPS` |
| `Reload` | boot, main loop, reload, exit; life of core, node and controllers | composes the tasks of an instance with the main goroutine |
| `ReloadProofs` | theorems about it | `Reload`, `TLAPS`, instances of `TaskContract` |
| `Traffic` | counters, collectors, queue, reports, flush | instance of `TrafficLedger` |
| `TrafficLedger` | the promise of the accounting (abstract specification) | |
| `TrafficProofs` | theorems about it, and the refinement | `Traffic`, `TLAPS` |
| `UserSync` | the user list monitor of one controller over restarts | |
| `UserSyncProofs` | theorems about it | `UserSync`, `TLAPS` |
| `SelfUpdate` | replacement of the binary by two updaters, power losses | |
| `SelfUpdateProofs` | theorems about it | `SelfUpdate`, `TLAPS` |
| `Links` | a connection from admission to its end, limiter tables, link managers; against the user list monitor and the report of online users | |
| `LinksProofs` | theorems about it | `Links`, `TLAPS` |
| `TuicPacket` | messages of the TUIC transport, their fragments, how they are cut and joined | |
| `TuicSession` | one connection of the TUIC inbound: authentication, streams, UDP associations, relays | extends `TuicPacket` |
| `TuicSessionProofs` | theorems about it | `TuicSession`, `TLAPS` |
| `Configuration` | validation, builders of inbounds and outbounds, rules, the choice of a route | |
| `Certificates` | the pairs of a server: requests, renewals, reloads, crashes | extends `Configuration` |
| `Provision` | a server made of one configuration: its certificates, and its connections routed | composes `Certificates` with the dispatcher |
| `ProvisionProofs` | theorems about it | `Provision`, `TLAPS` |
| `MC*` | constants for TLC | the module they are named after |

`PROJECT.json` maps every definition to the lines it stands for. Every module
has, before the actions, a few operators whose names are `Action_Mistake`: the action
with one plausible bug. No specification uses them. Putting one in the place of
its action makes one of the properties fail, which shows that the property can
tell.

**PeriodicTask.** `t.cancel` and `t.done` are set and cleared together under
`t.mu`, so a single variable `cur` names the *generation* they belong to, 0
being nil. Each generation has a loop goroutine with a timer; inside `execute`
it has one call of `t.Execute`, a result channel of capacity one and a context
that may expire. Close is four steps: read both fields, cancel, wait for done,
clear if the fields are unchanged. Several goroutines may be in Close, and the
task may be started again between their steps. `TaskContract` knows only
whether the task is off, idle or busy (`Phase`), how often it was started, and
which start each Close is about.

**Reload.** Two *slots*, as two instances at most are alive: `cur` is what
`*nodes` and `*xcore` point to. Every call of `reload` that can fail is a step with
a successful and a failing outcome, and the early returns and the `restore`
closure lead to the steps the code has there. `Node.Start` and `Node.Stop`
visit the controllers one by one. The two tasks of an instance and one task
per controller go on in between, as `off`, `idle` or `busy`; a step that closes one
waits until its run is over, which is what `PeriodicTask` shows of Close. Boot is a reload that finds
no instance. Each protocol has one port.

**Traffic.** One number stands for uploaded and downloaded bytes. The load and
the swap of `GetUserTrafficSlice` are separate steps, for both collectors hold
only a read lock; deletion needs the write lock and waits until no `Range` is
under way. The mutex of the queue is held from the first to the last request
of a report. A connection that keeps the storage it once loaded counts into an
*orphan* after the counter map has forgotten it. The exit goes over the controllers
one by one, as `Node.Stop` does: the tasks of one are closed while the monitors of those
after it still run; then `DelNode` removes its inbound and the counters are collected
once more, or it fails, `Controller.Stop` returns (`node/controller.go:129`), and nothing is
collected. `Node.Close` stops those that are still started a second time, and the
queue is flushed whatever came of it. The stop of a reload, after which the counters
stay where they are for the restored controllers, is in `Reload`. `TrafficLedger` knows only of
what is owed, what was billed and who was revoked.

**UserSync.** One controller. The list is compared, deleted users are visited
one by one and then added ones, and xray may refuse each: a user it has
already, one it does not have, one whose account is malformed. A refusal ends
the run where it stands. Stop and Start of a rollback keep limiter and cached
list; a replacement begins with everything new. A failed request changes
nothing, and has no action.

**SelfUpdate.** The monitor and the command of an administrator run the same
steps: download, verify, rename the old binary to `.bak`, rename the new one,
undo, restart. A file is known by the version it reports. The machine may lose
power between any two steps; temporary files may stay on the disk then, but
nothing looks at them again.

**Links.** `getLink` and `DispatchLink` up to the open link: one step per access
to a table that others use, as `sync.Map` makes each access atomic but not two
of them. `limits`, `bucket`, `online` and `mgr` are `UserLimitInfo`,
`SpeedLimiter`, `UserOnlineIP` and `LinkManagers`. Managers and buckets are
objects, named after the connection that made them, so that a connection can
hold one the table has forgotten; `detached` tells who holds such a map of
addresses. The monitor changes one user per run, in the order of `DelUsers`,
`AddUsers` and `UpdateUser`; `CloseAll` takes the links under its lock and
closes them after it. Whether a connection is tracked is a choice, since it is
a matter of its transport. Traffic counters are in `Traffic`, users xray
refuses to add or to remove in `UserSync`.

**TuicPacket, TuicSession.** The client sends a script of requests, which the
network delivers in any order or not at all. A stream is handled by a goroutine
of its own; datagrams are handled one after the other by `loopMessages`
(`loop`). The map of associations is read and written under its lock, but
looking an association up, asking whether it is done, storing a new one and
marking it as started are separate steps (`Lookup`, `Check`, `Store`, `Mark`),
as are the two steps of a dissociate and of a relay that ends. Bytes are ranges
`[packet, from, to]` of what a sender wrote, so that reassembly can be compared
with the packet; lengths and their widths are the real ones. A relay answers
with `WritePacket`, whose first attempt may be refused as too large. Joining
the fragments of that answer is the reference (`Received`).

**Configuration.** Pure operators. A protocol and an outbound are records of
the fields of `api/panel`; a text that is blank is `""`. `UsesTLSCertificate`
(the controller: is a certificate requested?) and `ShouldConfigureTLS` (the
builder: is it used?) are two functions in the code, and here. The matchers and
the router of xray are external and modelled by what the dispatcher relies on.

**Certificates.** Each node has two *runs* that may touch its pair: the main
goroutine that prepares it, at boot or for a reload beside the instance that
serves, and the daily renewal of that instance. A run goes through the ACME
account, the environment of its DNS provider under `dnsProviderEnvMu`, the order
at the CA (port 80 for the http challenge), the key file and the certificate
file, and may fail or die between any two. Only certificates the program manages
grow older. Two histories bound the claims: `good` are the nodes whose pair has
been usable since, `raced` those whose files two runs were about to write at
once, or whose certificate expired under a run.

**Provision.** `Certificates` next to connections, each of which is accepted,
sniffed and dispatched by the outbounds and rules its configuration gave.

## Runs

All of them are exhaustive within their bounds.

| Run | Configuration | Instance | States | Shows |
|---|---|---|---|---|
| `task` | `MCPeriodicTask.cfg` | 2 closers, 2 generations, with a reload channel | 10 600 | `NoOverlap`, `NoOrphan`, `ContractSpec` (which includes that a Close that returns was a barrier), `CloseReturns`, `KeepsRunning` |
| `reload` | `MCReload.cfg` | versions {p1,p2} and {p2}, 2 failures | 246 000 | `WorkersOnLiveCore`, `NoLeak`, `AllOrNothing` (one queue included), `ShutsDown`, `Converges` |
| `traffic` | `MCTraffic.cfg` | 2 controllers with an account each, 3 bytes, threshold 1, 2 failures | 161 000 | `Accounted` (every byte once), `ExitFlushes`, `Delivered`, `LedgerSpec` |
| `users` | `MCUserSync.cfg` | 6 lists over 3 users, one refused by xray; 4 publications, 3 starts | 26 000 | `LimiterMatches`, `InStep`, `Attributed`, `Converges` |
| `links` | `MCLinks.cfg` | 2 connections of a user from 2 addresses, one by `DispatchLink`; 2 speeds, 2 changes | 1 131 000 | `Reachable`, `SpeedInForce`, `Seen`, `RevocationEnds` |
| `tuic` | `MCTuicSession.cfg` | five clients of 4 requests each, datagrams of 1000 bytes, queues of 1 message | 84 000 | `AuthFirst`, `Registered`, `Intact`, `Released` |
| `provision` | `MCProvision.cfg` | 48 servers of 2 protocols: 8 that need certificates, 28 that route 2 connections, 9 that are refused, 3 with two directories | 75 000 | `PairUsable`, `OwnCredentials`, `RoutesResolve`, `Renewed` |
| `cert_dir` | `MCProvisionDirectories.cfg` | 2 servers with pairs of an earlier release | | finding 4 |
| `users_empty` | `MCUserSyncEmpty.cfg` | same | | finding 1 |
| `update` | `MCSelfUpdate.cfg` | 2 releases, 2 publications | 42 000 | `OnlyVerified`, `Recoverable` |
| `update_retry` | `MCSelfUpdateRetried.cfg` | same | | finding 2 |
| `update_atomic` | `MCSelfUpdateReplaceIsAtomic.cfg` | same | | finding 3 |

Why the bounds are enough:

- *task*: the race `t.done == done` guards against needs two closers and two
  generations, the second started between two steps of the slower closer. The
  proofs cover every other size.
- *reload*: the second version keeps one protocol, whose port the new instance
  can only have after the old one has given it up, and drops the other, which
  must come back in a rollback. Two failures are needed to fail a reload and
  then its rollback. Reloads are not bounded: signals may come again and again.
- *traffic*: one account that moves two bytes crosses the threshold, one that
  moves one byte never does, so that the final flush matters. Two collectors
  meet on an account; two destinations make one fail and the other go on. Two
  failures allow a lost response and a lost repetition of the same batch. Of the two
  controllers the exit stops one while the monitor of the other runs, and `DelNode`, which may
  always fail, is tried twice for each.
- *users*: the lists include a changed speed, a changed device limit, an empty
  one and one with a user xray refuses; four publications pass through any
  three of them and come back.
- *update*: two releases allow upgrade and downgrade, two publications allow a
  target to be changed and repeated. Power losses, restarts and commands of the
  administrator are not bounded.
- *links*: every race in this module is between one connection, or two that
  share a bucket, a manager or a map of addresses, and one run of the monitor
  or one report; tables are keyed by user. Two changes revoke a user and let
  him return, or change his speed and then revoke him. Reports are not bounded.

- *tuic*: the scripts are two authentications with a stream and a datagram that
  wait; an authentication that fails; requests that end the session; an
  association that is made, removed and made again; and fragments of two packets
  under one number, cut into two and into three. The network may deliver any
  subset in any order, the timeout may fire at any time and both ends may leave.
  A relay answers with a packet that fits one datagram or with one that does
  not. The proofs cover any script.
- *provision*: two nodes meet in the environment and on port 80; one node with a
  reload, a failure, a crash and an expiry meets itself. The outbounds include
  doubles, reserved names, one that is skipped, one that is refused and rules of
  every kind. Servers whose two directories are two have in the old one an expired pair of an
  earlier release, or the very pair they have in the new one until a self-signed one is made
  anew. Ten keys are more than two nodes can hold at a time. The proofs cover
  any number of nodes and of each of these events.

`CHECK_DEADLOCK FALSE` is set where the modelled system may stop for good: a
closed task, an exited process, a list that stays as it is, connections that
are all closed, a machine without a binary that nobody touches.

## Fairness

- *Goroutines are scheduled, timers fire, deadlines expire* (`PeriodicTask`):
  weak fairness of each loop and closer. A call of `t.Execute` must return only
  after its context is done; the functions that are given to tasks pass the context to
  their requests, or use a client that has a timeout. The `select` of the loop chooses at
  random among ready cases, so leaving through `ctx.Done()` is strongly fair.
- *Main* (`Reload`): strong fairness of the steps of a reload, because a step
  that closes a task is enabled only between two of its runs; that it gets its
  turn is `CloseReturns` of `PeriodicTask`. Strong fairness of both branches of
  the main `select`, again because Go chooses at random. `Converges` assumes
  nothing of the frequency of signals.
- *Requests end* (`Traffic`): the HTTP client has a timeout, so a request is
  acknowledged unless it fails, and failures are bounded by `MaxFails`:
  `Delivered` says that bytes arrive once requests succeed again. Weak fairness carries the
  exit too: it waits for one run of a monitor, and a closed one begins no other.
- *The monitor finishes what it began* (`Links`): weak fairness of its steps,
  none of which waits. Connections may stay open for ever.
- *Goroutines of a session run* (`TuicSession`): weak fairness of all their steps
  together and of the timer, which is enough as a request takes finitely many steps.
  Nothing is assumed of the network, the client, the relay or the listener.
- *The service is started again, main goes on, and a renewal does* (`Provision`):
  weak fairness of main; strong fairness of each node's renewals, since the mutex of
  the environment is free again and again while others renew, and a Go mutex
  does not starve a waiter. Failures and crashes are bounded, so `Renewed` says what
  comes of them in the end. It includes nodes that collide on port 80: one of
  them succeeds, and then no longer needs it.
- *The monitor runs on its period* (`UserSync`, `SelfUpdate`), which
  `KeepsRunning` of `PeriodicTask` supports. Nothing is assumed of
  publications, of administrators or of power.

## Proofs

The proofs hold for any constants that satisfy the assumptions of the modules;
the bounds of the runs are constants among them.

**PeriodicTaskProofs.** `NoOverlap` is not inductive: to know that two
generations do not run at once one has to know that a generation is started only
after all others have ended. The invariant says that every generation
but the current one has a loop that exited (`OthersOver`), that a call is under way
or its result waits exactly while the loop is inside `execute` (`OneCall`), and that
a closer about to clear has seen its generation end (`CloserKnows`). The last
is why the comparison in Close matters. From it follow `TypeCorrect`,
`RunsNeverOverlap`, `CloseIsABarrier` (`QuietAfterClose`: no run of a loop is going
on, or can begin, once a Close that was about it has returned) and `EveryLoopIsReachable`.
The refinement of `TaskContract` (`ImplementsContract`) needs two things more: a
loop under way is of the last start (`Latest`), and as long as a cancelled loop goes on
somebody waits for its end (`Awaited`), so that a task that goes off was asked to.
`PhasesOfATask` takes from the contract what a caller sees that makes each call in one
step: the ways a task goes from a phase to another.

**UserSyncProofs.** The invariant follows a list through a run: while users are
deleted, the inbound has the users that stay and those not yet visited; while
users are added it lacks those not yet visited; and whoever is still to be
added has an id. Two lemmas carry the step that ends a run: the difference of
two lists is complete (`DifferenceIsComplete`), and `UpdateUser` applied to a
limiter that matched the old list gives one that matches the new
(`UpdateUserFollows`). Theorems: `LimiterFollowsTheList`, `EveryUserHasAnId`,
`InboundFollowsTheList`, and `TypeCorrect`, which needs that the update of a list
is a list (`UpdatesAreLists`).

**SelfUpdateProofs.** `Recoverable` needs to know that what an updater renames
into place is a release, although another one may have renamed the path away
meanwhile: `HoldsRelease` says so of every updater from the trial run to the end
of the replacement. Theorems: `TypeCorrect`, `OnlyTriedFilesAreInstalled`,
`PowerLossIsRecoverable`.

**TuicSessionProofs.** For any scripts, users, numbers of associations and sizes that
are natural numbers (`NumberAssumption`). Four invariants, from the connection to the bytes.

- `IInv`: `AuthFirst` needs that associations are made only once the
  authentication is over (`MadeLate`), so that the one step that sets the user finds
  none. `Registered` needs that whoever is about to delete a number has cancelled its own
  association before (`Doomed`): whatever else stands under the number is
  then counted as evicted.
- `TInv`, for `TypeCorrect`: what requests and the map name are associations
  that were made (`Here`), and no relay has read more than was queued.
- `WInv`, for `MessagesAreWhole`: what is kept under a packet number are fragments
  the association was handed, of that number and of as many (`Gathered`); a message of the
  queue is a packet of which no fragment is left to come, and no other message is of it
  (`Once`). So neither a late fragment nor one that was left behind by another
  packet is part of a message. It rests on two lemmas about the operators: cutting
  gives consecutive ranges of the packet, as many as announced if there are at most 255
  (`FragIsSliced`), and joining all of them gives the packet (`JoinIsWhole`).
- `AInv`, for `AnswersArrive`: what went out last was cut for one size, even after a
  refusal, because the pieces of the first attempt that were refused are the first ones. It
  needs nothing of the peer.

`MessagesAreWhole` and `PacketsAreIntact` assume that clients cut their packets as
`fragUDPMessage` does, into at most 255 fragments, and send each once (`AllHonest`). Nothing can
be said of a client that announces something else, as its fragments are all
the session sees of a packet. `HonestAssumption` in `MCTuicSession` has TLC check that
the scripts of the run satisfy it, so that the hypothesis is not empty.
Theorems: `NothingBeforeAuthentication`, `AssociationsStayRegistered`, `TypeCorrect`,
`MessagesAreWhole`, `AnswersArrive`, `PacketsAreIntact`.

**ProvisionProofs.** For any number of nodes, any configurations, and any bounds
on failures, crashes and reloads. `ConfigsAssumption` says what a
configuration is: a protocol for each node, lists of rules and of outbounds of any
length, and files that are keys and certificates.
`OwnCredentials` follows from `Locked`: a run is
between making and restoring its environment exactly while it holds the mutex.
`PairUsable` is the harder one. `Claimed` says what a run knows of the files it has a
plan for, unless it is a race: a run that creates a pair has found none that is
usable, and it stays so until it has written its key; a run that renews has the key that
is there. `Ready` and `BuiltInForce` carry the pair from the files to the
inbound that presents it. They need that the builder presents a certificate wherever
the controller asked for one (`TLSIsBuilt`, about all protocols). `PairsStayUsable` assumes
nothing of the two directories: the files stay usable, no node that gets a certificate from
the program serves in the clear, and one presents the pair it was given if the directories
are one or hold the same pair. `OneDirectoryInForce` says that finding 4 has no other
cause: where one directory leads to the other, `InForce`, which `cert_dir` refutes, holds.

`RoutesResolve` is about what loops over lists build. They are folds of the
community modules, whose recursive function is defined over the subsets of the indices;
its existence is proved by induction over the length (`IterationExists`), which
comes from the library's fact that inclusion is well-founded on finite sets
(`LeastNumber`, `Induction`). Then `Complete` goes through the loop of
`BuildCustomOutbounds`: tags stay distinct, the default comes first, every rule leads to an
outbound, and an item that was not skipped has its rule (`CustomOutboundStep`). The dispatcher
looks up what the router picked (`RoutesAsListed`), and a connection keeps its configuration
to the end. Theorems: `ProvisionImplementsCertificates`,
`CredentialsStayApart`, `PairsStayUsable`, `OneDirectoryInForce`, `ConnectionsResolve`,
`TypeCorrect`.

**ReloadProofs.** For any protocols, versions and failures. Where main is says which
of the two cores run (`Places`) and whether the old node was touched (`Touched`).
`Visited` says what Node.Stop and Node.Start have done so far: a stop has ended
the tasks of every controller it has visited, which is what XrayCore.Close
needs, and a start has started every one, which is what `AllOrNothing` says of it
when it ends. `Controllers` accounts for a started controller without a task: a
stop is under way, or its inbound could not be removed. `Serves` carries the
promise through a reload that gives up. Each task of an instance, seen through
`TaskContract`, goes only from a phase to another as a periodic task does
(`TasksKeepTheContract`): what main relies on is what `PhasesOfATask` grants, so the
two modules fit. Theorems: `TypeCorrect`, `WorkersStayOnLiveCores`,
`NothingLeaks`, `WholeConfigurations`, `TasksKeepTheContract`.

**TrafficProofs.** For any accounts, controllers, thresholds and failures. `Accounted`
needs to know who may hold bytes of an account (`Roles`: a collector has some
only of the controller it collects, between its Range and its Add) and that the queue
does not move under a request (`Locked`: one is under way only while the reporter has
the mutex, and it carries what its batch holds). `Forgiven` says that only revoked
users users lose bytes. `Ending` is about the exit: a monitor works for no controller the stop
has done with (`Resting`), what the final collection has passed by has only the bytes that
came later, and no byte of a controller that is still started counts as late. what the final collection has passed by
has only the bytes that came later. The refinement takes one lemma per kind of
step: a byte moved is a new debt, an acknowledged batch settles one, a lost
response repeats a bill, a forgotten storage is forgiven, and everything
else moves bytes within the node. Theorems: `TypeCorrect`, `NoByteAstray`,
`ExitLosesNothing`, `ImplementsLedger`.

**LinksProofs.** For any users, connections, addresses and limits. `Reachable` needs
`Made`: xray admits nobody for the user while CloseAll works on him, so every
connection still being made then began before and is counted as raced.
`SpeedInForce` needs `Buckets`: between the deletion of the limits and the storing of
new ones a user without overlapping CheckLimits has no bucket, and a bucket kept
twice is the one in the table. `Seen` needs `Read`: whatever was stored before a
report began is in what it read. Theorems: `TypeCorrect`, `LinksStayReachable`,
`SpeedStaysInForce`, `AddressesAreSeen`.

Checked by TLC only: the liveness properties, as fairness and ENABLED are out of the
reach of the prover. These are `CloseReturns`, `KeepsRunning`, `ShutsDown`, `Converges`
of `Reload` and of `UserSync`, `Delivered`, `RevocationEnds`, `Released` and
`Renewed`. Every invariant and every refinement that a run checks is proved.

## Findings

Each is a run that is expected to find a violation.

1. **An empty list does not revoke everybody after a run that failed**
   (`users_empty`). `README.md:73` says that it does. A list deletes one user
   and adds another one that xray refuses; `userListMonitor` returns without
   updating `c.userList` (`node/task.go:99-102`). The next list is compared with the
   old one, the user that is already gone is deleted again, xray refuses, and
   the run ends before it comes to the others (`node/task.go:86-90`). The ETag has advanced, so the
   list is not fetched again; and if it were, the same would happen.
2. **A failed update is not tried again** (`update_retry`).
   `internal/selfupdate/apply_target.go:12` and
   `internal/selfupdate/selfupdate_test.go:119-121` describe a backoff.
   `ServerConfigMonitor` calls `ApplyTargetVersion` only for a configuration it
   has not seen (`core/xray.go:188`), so the backoff never comes to its second attempt
   while the configuration stays as it is.
3. **The replacement of the binary is not atomic** (`update_atomic`).
   `internal/selfupdate/selfupdate.go:1-2` says it is. `ReplaceVerified`
   renames the old binary away first (`apply.go:142`); `Recoverable`, which
   holds, says that the backup is there for a human.

4. **The inbound reads another directory than the one certificates are written
   to** (`cert_dir`). `README.md:31-34` names `/etc/PPanel-node` as the place of
   a pair and says that a renewed one is put to use. The builder of the
   inbound reads there (`core/inbound/build.go:159`), but `node/cert.go:27` looks for
   pairs, and writes them, in `/etc/ppanel-node`. On a file system
   that tells them apart the node does not start, or presents what an earlier release
   left there, here a pair that has expired. Whether one leads to the other is a fact of
   each modelled server (`linked`): nothing in the repository makes it so. `PairUsable` holds
   of either kind.

Behaviour the models contain that no document speaks about:

- A reload that failed is not repeated by itself, as the ETag and the hash of
  its configuration have been stored before it was tried.
- When xray does not remove an inbound, the rollback leaves that controller
  listening but without its periodic tasks: `Controller.Stop` has closed them,
  and `Controller.Start` returns early on a started controller. `Reload` keeps
  such controllers in the history variable `stuck`, and `AllOrNothing` makes an
  exception for them.
- A controller whose inbound xray refuses to remove in both stops of an exit is never
  collected for the last time: the bytes in its counters go with the process, although
  `node/node.go:173` has the flush come after Stop "has collected the last batch".
  `ExitFlushes` says that these are the only ones.
- After a rollback that fails as well, the process stays up without service
  until the next reload that succeeds.
- A changed device limit, or a changed id of the same uuid, does not reach the
  limiter and the id table: `compareUserList` compares uuid and speed.
- A target version that arrives with the configuration of a boot or a reload,
  and not through the monitor, is not applied.
- Bytes that a revoked user's connections move between the last collection and
  the deletion of the counter are not reported; `Accounted` and the ledger
  allow it for revoked users only.

- Links of protocols that call `DispatchLink` are not added to a manager
  (`core/app/dispatcher/default.go:365-371`): a revocation does not end them.
  `Reachable` and `RevocationEnds` are stated for the others, and except those
  that were being made while `CloseAll` took the links.
- `CheckLimit` stores a bucket it has just stored once more
  (`limiter/limiter.go:180`). If the limits change in between, the old speed
  comes back for every connection that follows; `SpeedInForce` holds from one
  change no `CheckLimit` overlapped to the next.
- An address stored while a report of its user is between reading and deleting
  is in no report until its connection is made anew; `Seen` excepts it.
- Between the deletion and the storing of a changed limit (`limiter/limiter.go:93`
  and `:111`), xray accepts the user and `CheckLimit` refuses his connections.
- The device limit refuses nobody. `CheckLimit` compares it with `AliveList`,
  which `GetUserAlive` returns without entries (`api/panel/user.go:139-160`, the request
  is commented out). Hence `AliveCount` is 0 in `Links`.

- TUIC: the removal of an old association may take the number from a new one
  (`service.go:260`, the same in its `onDestroy`), which then goes on unregistered
  until the session ends; `Registered` excepts it. An association whose first message
  has no destination is never started and stays until then, too. A valid
  authentication is accepted though its timeout has already closed the session.
- A peer that uses a packet number again, for as many fragments, while fragments
  of the earlier packet are kept gets a mix of both (`packet.go:373`), and a packet of
  more than 255 fragments is announced with a wrong total (`packet.go:91`); `Intact`
  excepts both. It assumes that the size of datagrams does not shrink between
  the two attempts of a packet.
- When a key of another kind is replaced, or a pair that is not usable, the new key is
  written before the certificate: a crash in between leaves what was no usable
  P-256 pair before either. Two runs that write one pair at once (a renewal
  of the node that serves and the new one of a reload) may mix them until the
  next renewal finds out; `PairUsable` excepts these (`raced`).
- A reload that fails has consumed the signal of the renewal, and the next
  renewal finds nothing due: the new pair is loaded by a later reload only,
  unless xray looks at the files by itself.
- Two protocols of one type share their tag and their files.
- An outbound of an unknown protocol without settings of its own is skipped with
  its rules. Of two with one tag the second is dropped and its rules are
  kept, so that they lead to the first. An outbound without a name whose rules are not empty makes
  xray refuse the whole configuration.
- `security` "tls" with a `certMode` of "" or "none" is accepted and builds an
  inbound without TLS; the server name and the mode of anytls and shadowsocks are
  not validated; REALITY over websocket passes validation and fails in the builder.

## What is not modelled

- Inside xray: proxies, the router, the sniffers of each protocol. Its user managers and inbounds
  appear as calls that succeed or fail.
- Time: periods, backoffs and timeouts elapse at some time. The debounce of
  the file watcher is left out, so a change of the file may signal at any time.
- A restart of the process by `ApplyTargetVersion` in the middle of a run of
  the monitor is part of `SelfUpdate`, not of `Reload`.
- The requests that report online users and the system's status: they change
  nothing that another component reads. That the report of online users
  deletes the addresses is in `Links`.
- Logging, system status, generated protobuf code, build and install scripts.
- TUIC: congestion control, source addresses, the certificates of its own TLS, and the
  deadline of a read. Setting one replaces a channel, and a reader that waits on
  the old one is not woken (`packet.go:487`); only the relay of xray sets it.
- Configuration: fields that are copied as they are, outbound DNS and IP strategies,
  the check of the REALITY destination, which only logs, the cached reader and
  fake DNS of the dispatcher. An outbound tag forced on a connection
  (`core/app/dispatcher/default.go:493-504`), which nothing in the repository sets. The
  host and the path of an obfuscated shadowsocks are one field.
- Certificates: encodings, file modes, the CA itself. Files an administrator
  provides (`certMode` "file") are only looked at.
- That `VerifyBinary` looks for the version in the output of the trial run, and is content
  with one that contains it (`apply.go:220`): in `SelfUpdate` a file reports one version.
- The decoding of the panel's responses and the version order of the self update: no state
  depends on them but through what the modules take as input.

## Plan

Done, in the order of importance:

1. `PeriodicTask` and its proofs: everything else rests on Close.
2. `Reload`, which composes the tasks with the main goroutine.
3. `Traffic` and its abstract specification `TrafficLedger`.
4. `UserSync` and its proofs.
5. `SelfUpdate` and its proofs.
6. `Links`: CheckLimit, getLink, DispatchLink, link managers and buckets
   against UpdateUser, DelUsers and GetOnlineDevice.
7. `TuicPacket`, `TuicSession` and the proofs about sessions.
8. `Configuration`, `Certificates`, `Provision` and the proofs about certificates.
9. Proofs about `Reload`, `Traffic` (with the refinement of the ledger) and `Links`.
10. `TaskContract`, which a task implements and main keeps; proofs about the packets of
    `TuicSession`, the routes of `Provision`, and their types.

Left:

11. `PanelCodec`: what a response means (304, empty, error envelope), the version
    order and the checksum file of the self update, as pure operators.
