----------------------------- MODULE SelfUpdate -----------------------------
(***************************************************************************)
(* How a node changes its own binary (internal/selfupdate): the monitor of *)
(* the server configuration does it when the panel names a target version, *)
(* `ppanel-node upgrade` when an administrator asks for it, and the two    *)
(* know nothing of each other. The machine may lose power at any step.     *)
(*                                                                         *)
(* A file is known by the version it reports. Time is not modelled: the    *)
(* backoff of a failed attempt, whatever its length, is open until it      *)
(* elapses.                                                                *)
(***************************************************************************)
EXTENDS Naturals

CONSTANTS
  Versions,  \* releases
  First,     \* the release installed at first
  MaxPublish \* bound: configurations the panel publishes

ASSUME FirstAssumption == First \in Versions /\ MaxPublish \in Nat

Absent == "absent"          \* no such file
Broken == "broken"          \* a file that does not run
None == "none"              \* no target version, no attempt
ASSUME NameAssumption == {Absent, Broken, None} \cap Versions = {}

Monitor == "monitor"
Cli == "upgrade"
Updaters == {Monitor, Cli}

VARIABLES
  target,  \* the version the panel's configuration names, or None
  rev,     \* the rest of that configuration, a revision
  seen,    \* the configuration the client has decoded last
  up,      \* whether the process runs
  version, \* the version that runs or ran last
  path,    \* the binary systemd starts
  bak,     \* path + ".bak"
  pc,      \* where an updater is
  want,    \* the version it installs
  tmp,     \* its temporary file
  attempt, \* attemptTarget
  failed,  \* whether attemptFails > 0
  waiting  \* whether attemptNext lies ahead

panelVars == <<target, rev>>
procVars == <<seen, up, version>>
diskVars == <<path, bak>>
memVars == <<attempt, failed, waiting>>
vars == <<panelVars, procVars, diskVars, pc, want, tmp, memVars>>

config == <<target, rev>>

Init ==
  /\ target \in Versions \cup {None} /\ rev = 0 /\ seen = <<target, rev>>
  /\ up = TRUE /\ version = First
  /\ path = First /\ bak = Absent
  /\ pc = [u \in Updaters |-> "idle"]
  /\ want = [u \in Updaters |-> First]
  /\ tmp = [u \in Updaters |-> Absent]
  /\ attempt = None /\ failed = FALSE /\ waiting = FALSE

-----------------------------------------------------------------------------
(* Mutants of the definitions below, each with a plausible bug.            *)

(* The file is installed without a trial run.                              *)
Verified_Trusts(u) == TRUE

(* The old binary is deleted to make room.                                 *)
Backup_Removes(u) ==
  /\ pc[u] = "backup"
  /\ pc' = [pc EXCEPT ![u] = "swap"]
  /\ path' = Absent
  /\ UNCHANGED <<panelVars, procVars, bak, want, tmp, memVars>>

(* A process is taken for started without its binary.                      *)
Boot_Anyway ==
  /\ ~up
  /\ up' = TRUE /\ version' = path
  /\ seen' = config
  /\ UNCHANGED <<panelVars, diskVars, pc, want, tmp, memVars>>

-----------------------------------------------------------------------------
ShouldSwitchVersion(t) == t \notin {None, version}

(* A target that is not the one remembered starts afresh.                  *)
shouldAttempt(t) == t # attempt \/ ~waiting

(* noteFailure, for the attempts of the monitor.                           *)
NoteFailure(u) ==
  IF u = Monitor THEN failed' = TRUE /\ waiting' = TRUE /\ UNCHANGED attempt
  ELSE UNCHANGED memVars

BackoffElapses ==
  /\ waiting
  /\ waiting' = FALSE
  /\ UNCHANGED <<panelVars, procVars, diskVars, pc, want, tmp, attempt, failed>>

Publish ==
  /\ rev < MaxPublish /\ rev' = rev + 1
  /\ target' \in Versions \cup {None}
  /\ UNCHANGED <<procVars, diskVars, pc, want, tmp, memVars>>

(* ServerConfigMonitor: nothing happens on 304; a new configuration is     *)
(* handed to ApplyTargetVersion.                                           *)
MonitorPulls ==
  /\ up /\ pc[Monitor] = "idle"
  /\ seen # config
  /\ seen' = config
  /\ IF ShouldSwitchVersion(target) /\ shouldAttempt(target)
     THEN /\ pc' = [pc EXCEPT ![Monitor] = "download"]
          /\ want' = [want EXCEPT ![Monitor] = target]
          /\ attempt' = target
          /\ failed' = (target = attempt /\ failed)
          /\ waiting' = FALSE
     ELSE UNCHANGED <<pc, want, memVars>>
  /\ UNCHANGED <<panelVars, up, version, diskVars, tmp>>

(* A reload pulls the configuration with a client of its own, which the    *)
(* next monitor uses.                                                      *)
ReloadPulls ==
  /\ up /\ pc[Monitor] = "idle"
  /\ seen' = config
  /\ UNCHANGED <<panelVars, up, version, diskVars, pc, want, tmp, memVars>>

(* The command takes a version of the administrator's, or the latest.      *)
UpgradeBegins(v) ==
  /\ pc[Cli] = "idle"
  /\ pc' = [pc EXCEPT ![Cli] = "download"]
  /\ want' = [want EXCEPT ![Cli] = v]
  /\ UNCHANGED <<panelVars, procVars, diskVars, tmp, memVars>>

(* FetchRelease to DownloadBinary: the checksum says that the file is what *)
(* was released, not that it runs here or is what its tag says.            *)
Download(u) ==
  /\ pc[u] = "download"
  /\ pc' = [pc EXCEPT ![u] = "verify"]
  /\ \E file \in Versions \cup {Broken} : tmp' = [tmp EXCEPT ![u] = file]
  /\ UNCHANGED <<panelVars, procVars, diskVars, want, memVars>>

(* Any step before the replacement may fail: no network, no release, no    *)
(* space. The temporary file is removed.                                   *)
Fails(u) ==
  /\ pc[u] \in {"download", "verify"}
  /\ pc' = [pc EXCEPT ![u] = "idle"]
  /\ tmp' = [tmp EXCEPT ![u] = Absent]
  /\ NoteFailure(u)
  /\ UNCHANGED <<panelVars, procVars, diskVars, want>>

(* VerifyBinary: it runs and reports the version that is wanted.           *)
Verified(u) == tmp[u] = want[u]

Verify(u) ==
  /\ pc[u] = "verify"
  /\ Verified(u)
  /\ pc' = [pc EXCEPT ![u] = "backup"]
  /\ UNCHANGED <<panelVars, procVars, diskVars, want, tmp, memVars>>

(* ReplaceVerified renames the old binary away; an error is ignored.       *)
Backup(u) ==
  /\ pc[u] = "backup"
  /\ pc' = [pc EXCEPT ![u] = "swap"]
  /\ \/ path # Absent /\ bak' = path /\ path' = Absent
     \/ UNCHANGED diskVars
  /\ UNCHANGED <<panelVars, procVars, want, tmp, memVars>>

(* Then it renames the new one to its place.                               *)
Swap(u) ==
  /\ pc[u] = "swap"
  /\ \/ /\ path' = tmp[u]
        /\ tmp' = [tmp EXCEPT ![u] = Absent]
        /\ pc' = [pc EXCEPT ![u] = "restart"]
     \/ /\ pc' = [pc EXCEPT ![u] = "undo"]
        /\ UNCHANGED <<path, tmp>>
  /\ UNCHANGED <<panelVars, procVars, bak, want, memVars>>

Undo(u) ==
  /\ pc[u] = "undo"
  /\ pc' = [pc EXCEPT ![u] = "idle"]
  /\ tmp' = [tmp EXCEPT ![u] = Absent]
  /\ \/ bak # Absent /\ path' = bak /\ bak' = Absent
     \/ UNCHANGED diskVars
  /\ NoteFailure(u)
  /\ UNCHANGED <<panelVars, procVars, want>>

(* What the process forgets when it ends.                                  *)
Forget ==
  /\ up' = FALSE
  /\ attempt' = None /\ failed' = FALSE /\ waiting' = FALSE

(* systemctl restart, which may fail; the command may also leave it out.   *)
Restart(u) ==
  /\ pc[u] = "restart"
  /\ \/ /\ Forget
        /\ pc' = [pc EXCEPT ![u] = "idle", ![Monitor] = "idle"]
        /\ tmp' = [tmp EXCEPT ![Monitor] = Absent]
     \/ /\ pc' = [pc EXCEPT ![u] = "idle"]
        /\ UNCHANGED <<up, tmp, memVars>>
  /\ UNCHANGED <<panelVars, seen, version, diskVars, want>>

(* The machine loses power: files stay, everything in memory goes.         *)
PowerLoss ==
  /\ Forget
  /\ pc' = [u \in Updaters |-> "idle"]
  /\ tmp' = [u \in Updaters |-> Absent]
  /\ UNCHANGED <<panelVars, seen, version, diskVars, want>>

(* systemd starts what is at the path. The first configuration is pulled   *)
(* without a look at its target version.                                   *)
Boot ==
  /\ ~up /\ path # Absent
  /\ up' = TRUE /\ version' = path
  /\ seen' = config
  /\ UNCHANGED <<panelVars, diskVars, pc, want, tmp, memVars>>

Update(u) ==
  \/ Download(u) \/ Fails(u) \/ Verify(u) \/ Backup(u) \/ Swap(u) \/ Undo(u)
  \/ Restart(u)

Next ==
  \/ Publish \/ BackoffElapses \/ MonitorPulls \/ ReloadPulls
  \/ \E v \in Versions : UpgradeBegins(v)
  \/ \E u \in Updaters : Update(u)
  \/ PowerLoss \/ Boot

(* The monitor runs on its period, an update ends, time passes, systemd    *)
(* starts what can be started.                                             *)
Fairness ==
  /\ WF_vars(MonitorPulls) /\ WF_vars(Update(Monitor))
  /\ WF_vars(BackoffElapses) /\ WF_vars(Boot)

Spec == Init /\ [][Next]_vars
FairSpec == Spec /\ Fairness

-----------------------------------------------------------------------------
Files == Versions \cup {Absent}

TypeOK ==
  /\ target \in Versions \cup {None} /\ rev \in 0..MaxPublish
  /\ seen \in (Versions \cup {None}) \X (0..MaxPublish)
  /\ up \in BOOLEAN /\ version \in Versions
  /\ pc \in [Updaters -> {"idle", "download", "verify", "backup", "swap",
                          "undo", "restart"}]
  /\ want \in [Updaters -> Versions]
  /\ tmp \in [Updaters -> Files \cup {Broken}]
  /\ attempt \in Versions \cup {None}
  /\ failed \in BOOLEAN /\ waiting \in BOOLEAN
  /\ path \in Files \cup {Broken} /\ bak \in Files \cup {Broken}

(* Neither the binary nor its backup is ever a file that was not tried     *)
(* out before: a node that does not start cannot be told to go back.       *)
OnlyVerified == path \in Files /\ bak \in Files

(* At every instant, with two updaters at work, the machine keeps a binary *)
(* that runs, at the path or as its backup.                                *)
Recoverable == {path, bak} \cap Versions # {}

(* "Atomic replacement" (internal/selfupdate/selfupdate.go:1-2): there is  *)
(* always a binary for systemd to start.                                   *)
ReplaceIsAtomic == path # Absent

(* "Back off after a failure instead of trying only once"                  *)
(* (internal/selfupdate/apply_target.go:12): a failed attempt is repeated, *)
(* unless the panel wants another version or the process ends.             *)
Retried ==
  \A t \in Versions :
    attempt = t /\ failed /\ pc[Monitor] = "idle" ~>
      pc[Monitor] = "download" \/ target # t \/ version = t \/ ~up
=============================================================================
