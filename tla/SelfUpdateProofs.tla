-------------------------- MODULE SelfUpdateProofs --------------------------
(***************************************************************************)
(* Proofs about SelfUpdate, for any set of releases and any number of      *)
(* publications. What is installed is what an updater holds once it has    *)
(* verified it, so the invariant says of an updater between the trial run  *)
(* and the end of the replacement that its file is a release.              *)
(***************************************************************************)
EXTENDS SelfUpdate, TLAPS

Replacing == {"backup", "swap", "undo"}
HoldsRelease == \A u \in Updaters : pc[u] \in Replacing => tmp[u] \in Versions

IInv == TypeOK /\ OnlyVerified /\ Recoverable /\ HoldsRelease

(* A fresh installation has the invariant.                                 *)
LEMMA InitIInv == Init => IInv
  <1> SUFFICES ASSUME Init PROVE IInv
    OBVIOUS
  <1>1. TypeOK
    <2>1. 0 \in 0..MaxPublish
      BY FirstAssumption
    <2> QED BY <2>1, FirstAssumption DEF Init, TypeOK, Files
  <1>2. OnlyVerified /\ Recoverable
    BY FirstAssumption DEF Init, OnlyVerified, Recoverable, Files
  <1>3. HoldsRelease
    BY DEF Init, HoldsRelease, Replacing
  <1> QED BY <1>1, <1>2, <1>3 DEF IInv

(* What the panel, the clock and the pulls of configurations do leaves the *)
(* disk and the temporary files alone (ServerConfigMonitor, reload).       *)
LEMMA QuietIInv ==
  ASSUME IInv, Publish \/ BackoffElapses \/ MonitorPulls \/ ReloadPulls
  PROVE  IInv'
  <1>1. CASE Publish
    BY <1>1, FirstAssumption
       DEF IInv, Publish, TypeOK, OnlyVerified, Recoverable, HoldsRelease,
           Replacing, procVars, diskVars, memVars
  <1>2. CASE BackoffElapses
    BY <1>2 DEF IInv, BackoffElapses, TypeOK, OnlyVerified, Recoverable,
                HoldsRelease, panelVars, procVars, diskVars
  <1>3. CASE MonitorPulls
    <2>1. TypeOK'
      BY <1>3 DEF IInv, MonitorPulls, TypeOK, config, ShouldSwitchVersion,
                  panelVars, diskVars, memVars, Updaters
    <2>2. OnlyVerified' /\ Recoverable'
      BY <1>3 DEF IInv, MonitorPulls, OnlyVerified, Recoverable, diskVars
    <2>3. HoldsRelease'
      BY <1>3 DEF IInv, MonitorPulls, TypeOK, HoldsRelease, Replacing, Updaters
    <2> QED BY <2>1, <2>2, <2>3 DEF IInv
  <1>4. CASE ReloadPulls
    BY <1>4 DEF IInv, ReloadPulls, TypeOK, OnlyVerified, Recoverable,
                HoldsRelease, config, panelVars, diskVars, memVars
  <1> QED BY <1>1, <1>2, <1>3, <1>4

(* No step of ReplaceVerified, of the monitor or of the command, breaks    *)
(* the invariant: the backup is made of a release and the new binary is    *)
(* one.                                                                    *)
LEMMA UpdateIInv ==
  ASSUME IInv, NEW u \in Updaters, Update(u)
  PROVE  IInv'
  <1> USE DEF panelVars, procVars, diskVars, memVars
  <1> USE NameAssumption
  <1>1. CASE Download(u)
    <2>1. TypeOK'
      BY <1>1 DEF IInv, Download, TypeOK, Files
    <2>2. OnlyVerified' /\ Recoverable'
      BY <1>1 DEF IInv, Download, OnlyVerified, Recoverable
    <2>3. HoldsRelease'
      BY <1>1 DEF IInv, Download, TypeOK, HoldsRelease, Replacing
    <2> QED BY <2>1, <2>2, <2>3 DEF IInv
  <1>2. CASE Fails(u)
    <2>1. TypeOK'
      BY <1>2 DEF IInv, Fails, NoteFailure, TypeOK, Files
    <2>2. OnlyVerified' /\ Recoverable'
      BY <1>2 DEF IInv, Fails, OnlyVerified, Recoverable
    <2>3. HoldsRelease'
      BY <1>2 DEF IInv, Fails, TypeOK, HoldsRelease, Replacing
    <2> QED BY <2>1, <2>2, <2>3 DEF IInv
  <1>3. CASE Verify(u)
    <2>1. TypeOK'
      BY <1>3 DEF IInv, Verify, TypeOK
    <2>2. OnlyVerified' /\ Recoverable'
      BY <1>3 DEF IInv, Verify, OnlyVerified, Recoverable
    <2>3. HoldsRelease'
      BY <1>3 DEF IInv, Verify, Verified, TypeOK, HoldsRelease, Replacing
    <2> QED BY <2>1, <2>2, <2>3 DEF IInv
  <1>4. CASE Backup(u)
    <2>1. TypeOK'
      BY <1>4 DEF IInv, Backup, TypeOK, Files
    <2>2. OnlyVerified' /\ Recoverable'
      BY <1>4 DEF IInv, Backup, OnlyVerified, Recoverable, Files
    <2>3. HoldsRelease'
      BY <1>4 DEF IInv, Backup, TypeOK, HoldsRelease, Replacing
    <2> QED BY <2>1, <2>2, <2>3 DEF IInv
  <1>5. CASE Swap(u)
    <2>1. tmp[u] \in Versions
      BY <1>5 DEF IInv, Swap, HoldsRelease, Replacing
    <2>2. TypeOK'
      BY <1>5, <2>1 DEF IInv, Swap, TypeOK, Files
    <2>3. OnlyVerified' /\ Recoverable'
      BY <1>5, <2>1 DEF IInv, Swap, OnlyVerified, Recoverable, Files
    <2>4. HoldsRelease'
      BY <1>5 DEF IInv, Swap, TypeOK, HoldsRelease, Replacing
    <2> QED BY <2>2, <2>3, <2>4 DEF IInv
  <1>6. CASE Undo(u)
    <2>1. TypeOK'
      BY <1>6 DEF IInv, Undo, NoteFailure, TypeOK, Files
    <2>2. OnlyVerified' /\ Recoverable'
      BY <1>6 DEF IInv, Undo, OnlyVerified, Recoverable, Files
    <2>3. HoldsRelease'
      BY <1>6 DEF IInv, Undo, TypeOK, HoldsRelease, Replacing
    <2> QED BY <2>1, <2>2, <2>3 DEF IInv
  <1>7. CASE Restart(u)
    <2>1. TypeOK'
      BY <1>7 DEF IInv, Restart, Forget, TypeOK, Files, Updaters
    <2>2. OnlyVerified' /\ Recoverable'
      BY <1>7 DEF IInv, Restart, OnlyVerified, Recoverable
    <2>3. HoldsRelease'
      BY <1>7 DEF IInv, Restart, TypeOK, HoldsRelease, Replacing, Updaters
    <2> QED BY <2>1, <2>2, <2>3 DEF IInv
  <1> QED
    BY <1>1, <1>2, <1>3, <1>4, <1>5, <1>6, <1>7 DEF Update

(* A power loss keeps what is on the disk, and systemd starts a release    *)
(* or nothing.                                                             *)
LEMMA MachineIInv ==
  ASSUME IInv, PowerLoss \/ Boot
  PROVE  IInv'
  <1>1. CASE PowerLoss
    BY <1>1 DEF IInv, PowerLoss, Forget, TypeOK, OnlyVerified, Recoverable,
                HoldsRelease, Replacing, Files, panelVars, diskVars
  <1>2. CASE Boot
    BY <1>2 DEF IInv, Boot, TypeOK, OnlyVerified, Recoverable, HoldsRelease,
                Files, config, panelVars, diskVars, memVars
  <1> QED BY <1>1, <1>2

(* The administrator's command only chooses the version it wants.          *)
LEMMA UpgradeIInv ==
  ASSUME IInv, NEW v \in Versions, UpgradeBegins(v)
  PROVE  IInv'
  <1>1. TypeOK'
    BY DEF IInv, UpgradeBegins, TypeOK, Updaters, panelVars, procVars, diskVars,
           memVars
  <1>2. OnlyVerified' /\ Recoverable'
    BY DEF IInv, UpgradeBegins, OnlyVerified, Recoverable, diskVars
  <1>3. HoldsRelease'
    BY DEF IInv, UpgradeBegins, TypeOK, HoldsRelease, Replacing, Updaters
  <1> QED BY <1>1, <1>2, <1>3 DEF IInv

(* Every step of the whole system keeps the invariant.                     *)
LEMMA NextIInv == IInv /\ [Next]_vars => IInv'
  <1> SUFFICES ASSUME IInv, [Next]_vars PROVE IInv'
    OBVIOUS
  <1>1. CASE UNCHANGED vars
    BY <1>1 DEF IInv, TypeOK, OnlyVerified, Recoverable, HoldsRelease, vars,
                panelVars, procVars, diskVars, memVars
  <1>2. CASE Next
    BY <1>2, QuietIInv, UpdateIInv, MachineIInv, UpgradeIInv DEF Next
  <1> QED BY <1>1, <1>2

-----------------------------------------------------------------------------
(* The inductive invariant of self update (apply.go, apply_target.go).     *)
THEOREM InductiveInvariant == Spec => []IInv
  BY InitIInv, NextIInv, PTL DEF Spec

(* The memory of attempts, the positions of the updaters and the versions  *)
(* on the disk have their types.                                           *)
THEOREM TypeCorrect == Spec => []TypeOK
  <1>1. IInv => TypeOK BY DEF IInv
  <1> QED BY <1>1, InductiveInvariant, PTL

(* VerifyBinary comes before both renames: nothing untried is ever at the  *)
(* path or its backup, whatever fails and whoever else updates.            *)
THEOREM OnlyTriedFilesAreInstalled == Spec => []OnlyVerified
  <1>1. IInv => OnlyVerified BY DEF IInv
  <1> QED BY <1>1, InductiveInvariant, PTL

(* A power loss at any instant of ReplaceVerified leaves a release at the  *)
(* path or beside it.                                                      *)
THEOREM PowerLossIsRecoverable == Spec => []Recoverable
  <1>1. IInv => Recoverable BY DEF IInv
  <1> QED BY <1>1, InductiveInvariant, PTL
=============================================================================
