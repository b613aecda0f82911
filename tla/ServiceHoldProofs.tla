-------------------------- MODULE ServiceHoldProofs --------------------------
(***************************************************************************)
(* Theorems about ServiceHold: its types, the exclusion of mutations, that *)
(* it implements StackLock, that a hold ends by the guard's release only,  *)
(* that what is stopped is on record, and that nothing undoes a stop of an *)
(* administrator.                                                          *)
(***************************************************************************)
EXTENDS ServiceHold, TLAPS

-----------------------------------------------------------------------------
(* Types *)

\* Facts about the constants the provers use.
LEMMA ServicesFacts == Downloader \in Services /\ Arrs \subseteq Services
BY DEF Services

LEMMA TypeInit == Init => TypeOK
<1> SUFFICES ASSUME Init PROVE TypeOK OBVIOUS
<1>1. Flags BY DEF Init, Flags
<1> QED BY <1>1 DEF Init, TypeOK, Services, Phases, GuardStates, VpnStates, Holders

LEMMA FlagsNext == Flags /\ Next => Flags'
<1> SUFFICES ASSUME Flags, Next PROVE Flags' OBVIOUS
<1> USE DEF Flags, world, jobvars, guardvars, vpnvars, bounds
<1>1. CASE JobStep
  BY <1>1 DEF JobStep, DispatchJob, TryLock, Probe, EndJob, OrphanEnds
<1>2. CASE GuardStep
  BY <1>2 DEF GuardStep, ReportFailure, ReportMountChanged, ReportReady, LockToStop,
     Visit, StopHeld, VisitedAll, ConfirmStopped, LockToStart, StartHeld, StartedAll,
     Attention
<1>3. CASE CommandFails \/ NotDownInTime BY <1>3 DEF CommandFails, NotDownInTime
<1>4. CASE CrashController BY <1>4 DEF CrashController
<1>5. CASE VpnStep
  BY <1>5 DEF VpnStep, StartRecovery, RecoveryLocks, CheckWanted, StopDownloader,
     AwaitDown, RestartDownloader, ObserveRestart, RecordFailure
<1>6. CASE RecoveryRaises \/ RecoveryDies BY <1>6 DEF RecoveryRaises, RecoveryDies
<1>7. CASE GateStep \/ RequestLocks \/ RequestEnds
  BY <1>7 DEF GateStep, GateLocks, GateOpens, GateRetries, RequestLocks, RequestEnds
<1>8. CASE External
  BY <1>8 DEF External, Starts, Stops, Fails, AdminChanges, StorageChanges,
     ReplaceInterface
<1> QED BY <1>1, <1>2, <1>3, <1>4, <1>5, <1>6, <1>7, <1>8 DEF Next

LEMMA TypeJob ==
  ASSUME TypeOK, Flags', JobStep \/ CrashController
  PROVE  TypeOK'
<1> USE DEF TypeOK, Take, Release, Holders, GuardStates, world, jobvars, guardvars,
            vpnvars, bounds
<1>1. CASE DispatchJob BY <1>1 DEF DispatchJob
<1>2. CASE TryLock BY <1>2 DEF TryLock
<1>3. CASE Probe BY <1>3 DEF Probe
<1>4. CASE EndJob BY <1>4 DEF EndJob
<1>5. CASE OrphanEnds BY <1>5 DEF OrphanEnds
<1>6. CASE CrashController BY <1>6 DEF CrashController
<1> QED BY <1>1, <1>2, <1>3, <1>4, <1>5, <1>6 DEF JobStep

LEMMA TypeGuard ==
  ASSUME TypeOK, Flags', GuardStep \/ CommandFails \/ NotDownInTime
  PROVE  TypeOK'
<1> USE DEF TypeOK, Take, Release, Holders, GuardStates, Phases, world, jobvars,
            guardvars, vpnvars, bounds
<1>1. CASE ReportFailure BY <1>1 DEF ReportFailure
<1>2. CASE ReportMountChanged BY <1>2 DEF ReportMountChanged
<1>3. CASE ReportReady BY <1>3 DEF ReportReady
<1>4. CASE LockToStop BY <1>4 DEF LockToStop
<1>5. ASSUME NEW s \in Services, Visit(s) PROVE TypeOK' BY <1>5 DEF Visit
<1>6. CASE StopHeld BY <1>6 DEF StopHeld
<1>7. CASE VisitedAll BY <1>7 DEF VisitedAll
<1>8. CASE ConfirmStopped BY <1>8 DEF ConfirmStopped
<1>9. CASE LockToStart BY <1>9 DEF LockToStart
<1>10. ASSUME NEW s \in Services, StartHeld(s) PROVE TypeOK' BY <1>10 DEF StartHeld
<1>11. CASE StartedAll BY <1>11 DEF StartedAll
<1>12. CASE Attention BY <1>12 DEF Attention
<1>13. CASE CommandFails BY <1>13 DEF CommandFails
<1>14. CASE NotDownInTime BY <1>14 DEF NotDownInTime
<1> QED BY <1>1, <1>2, <1>3, <1>4, <1>5, <1>6, <1>7, <1>8, <1>9, <1>10, <1>11, <1>12,
           <1>13, <1>14 DEF GuardStep

LEMMA TypeVpn ==
  ASSUME TypeOK, Flags', VpnStep \/ RecoveryRaises \/ RecoveryDies
  PROVE  TypeOK'
<1> USE ServicesFacts DEF TypeOK, Take, Release, Holders, VpnStates, world, jobvars,
            guardvars, vpnvars, bounds
<1>1. CASE StartRecovery BY <1>1 DEF StartRecovery
<1>2. CASE RecoveryLocks BY <1>2 DEF RecoveryLocks
<1>3. CASE CheckWanted BY <1>3 DEF CheckWanted
<1>4. CASE StopDownloader BY <1>4 DEF StopDownloader
<1>5. CASE AwaitDown BY <1>5 DEF AwaitDown
<1>6. CASE RestartDownloader BY <1>6 DEF RestartDownloader
<1>7. CASE ObserveRestart BY <1>7 DEF ObserveRestart
<1>8. CASE RecordFailure BY <1>8 DEF RecordFailure
<1>9. CASE RecoveryRaises BY <1>9 DEF RecoveryRaises
<1>10. CASE RecoveryDies BY <1>10 DEF RecoveryDies
<1> QED BY <1>1, <1>2, <1>3, <1>4, <1>5, <1>6, <1>7, <1>8, <1>9, <1>10 DEF VpnStep

LEMMA TypeOthers ==
  ASSUME TypeOK, Flags', GateStep \/ RequestLocks \/ RequestEnds \/ External
  PROVE  TypeOK'
<1> USE ServicesFacts DEF TypeOK, Take, Release, Holders, world, jobvars, guardvars,
            vpnvars, bounds
<1>1. CASE GateLocks BY <1>1 DEF GateLocks
<1>2. CASE GateOpens BY <1>2 DEF GateOpens
<1>3. CASE GateRetries BY <1>3 DEF GateRetries
<1>4. CASE RequestLocks BY <1>4 DEF RequestLocks
<1>5. CASE RequestEnds BY <1>5 DEF RequestEnds
<1>6. ASSUME NEW s \in Services, Starts(s) PROVE TypeOK' BY <1>6 DEF Starts
<1>7. ASSUME NEW s \in Services, Stops(s) PROVE TypeOK' BY <1>7 DEF Stops
<1>8. ASSUME NEW s \in Services, Fails(s) PROVE TypeOK' BY <1>8 DEF Fails
<1>9. ASSUME NEW s \in Services, AdminChanges(s) PROVE TypeOK' BY <1>9 DEF AdminChanges
<1>10. CASE StorageChanges BY <1>10 DEF StorageChanges
<1>11. CASE ReplaceInterface BY <1>11 DEF ReplaceInterface
<1> QED BY <1>1, <1>2, <1>3, <1>4, <1>5, <1>6, <1>7, <1>8, <1>9, <1>10, <1>11
        DEF GateStep, External

LEMMA TypeNext == TypeOK /\ [Next]_vars => TypeOK'
<1> SUFFICES ASSUME TypeOK, [Next]_vars PROVE TypeOK' OBVIOUS
<1>1. CASE UNCHANGED vars BY <1>1 DEF vars, TypeOK, Flags
<1>2. CASE Next
  <2>1. Flags' BY <1>2, FlagsNext DEF TypeOK
  <2> QED BY <1>2, <2>1, TypeJob, TypeGuard, TypeVpn, TypeOthers DEF Next
<1> QED BY <1>1, <1>2

\* Every variable keeps its type: what storage.json and vpn-recovery.json record
\* is always one of the phases the dashboard knows.
THEOREM TypesHold == Spec => []TypeOK
BY TypeInit, TypeNext, PTL DEF Spec

-----------------------------------------------------------------------------
(* Exclusion *)

\* Each process inside a section of its own that needs the lock owns it.
OwnsLock ==
  /\ job \in {"probe", "running"} => lock = "job"
  /\ child => job = "running"
  /\ guard \in {"visit", "down", "await", "start"} => lock = "guard"
  /\ vpn \in {"check", "down", "await", "restart", "restore"} => lock = "vpn"

NoOrphan == crashes \in Nat /\ (crashes = 0 => ~orphan)

LEMMA OwnsInit == Init => OwnsLock /\ NoOrphan
BY DEF Init, OwnsLock, NoOrphan

LEMMA OwnsNext == OwnsLock /\ [Next]_vars => OwnsLock'
<1> SUFFICES ASSUME OwnsLock, [Next]_vars PROVE OwnsLock' OBVIOUS
<1> USE DEF OwnsLock, Take, Release, world, jobvars, guardvars, vpnvars, bounds
<1>1. CASE UNCHANGED vars BY <1>1 DEF vars
<1>2. CASE JobStep
  BY <1>2 DEF JobStep, DispatchJob, TryLock, Probe, EndJob, OrphanEnds
<1>3. CASE GuardStep
  BY <1>3 DEF GuardStep, ReportFailure, ReportMountChanged, ReportReady, LockToStop,
     Visit, StopHeld, VisitedAll, ConfirmStopped, LockToStart, StartHeld, StartedAll,
     Attention
<1>4. CASE CommandFails \/ NotDownInTime BY <1>4 DEF CommandFails, NotDownInTime
<1>5. CASE CrashController BY <1>5 DEF CrashController
<1>6. CASE VpnStep
  BY <1>6 DEF VpnStep, StartRecovery, RecoveryLocks, CheckWanted, StopDownloader,
     AwaitDown, RestartDownloader, ObserveRestart, RecordFailure
<1>7. CASE RecoveryRaises \/ RecoveryDies BY <1>7 DEF RecoveryRaises, RecoveryDies
<1>8. CASE GateStep \/ RequestLocks \/ RequestEnds
  BY <1>8 DEF GateStep, GateLocks, GateOpens, GateRetries, RequestLocks, RequestEnds
<1>9. CASE External
  BY <1>9 DEF External, Starts, Stops, Fails, AdminChanges, StorageChanges,
     ReplaceInterface
<1> QED BY <1>1, <1>2, <1>3, <1>4, <1>5, <1>6, <1>7, <1>8, <1>9 DEF Next

LEMMA OrphanNext == NoOrphan /\ [Next]_vars => NoOrphan'
<1> SUFFICES ASSUME NoOrphan, [Next]_vars PROVE NoOrphan' OBVIOUS
<1> USE DEF NoOrphan, world, jobvars, guardvars, vpnvars, bounds
<1>1. CASE UNCHANGED vars BY <1>1 DEF vars
<1>2. CASE JobStep
  BY <1>2 DEF JobStep, DispatchJob, TryLock, Probe, EndJob, OrphanEnds
<1>3. CASE GuardStep
  BY <1>3 DEF GuardStep, ReportFailure, ReportMountChanged, ReportReady, LockToStop,
     Visit, StopHeld, VisitedAll, ConfirmStopped, LockToStart, StartHeld, StartedAll,
     Attention
<1>4. CASE CommandFails \/ NotDownInTime BY <1>4 DEF CommandFails, NotDownInTime
<1>5. CASE CrashController BY <1>5 DEF CrashController
<1>6. CASE VpnStep
  BY <1>6 DEF VpnStep, StartRecovery, RecoveryLocks, CheckWanted, StopDownloader,
     AwaitDown, RestartDownloader, ObserveRestart, RecordFailure
<1>7. CASE RecoveryRaises \/ RecoveryDies BY <1>7 DEF RecoveryRaises, RecoveryDies
<1>8. CASE GateStep \/ RequestLocks \/ RequestEnds
  BY <1>8 DEF GateStep, GateLocks, GateOpens, GateRetries, RequestLocks, RequestEnds
<1>9. CASE External
  BY <1>9 DEF External, Starts, Stops, Fails, AdminChanges, StorageChanges,
     ReplaceInterface
<1> QED BY <1>1, <1>2, <1>3, <1>4, <1>5, <1>6, <1>7, <1>8, <1>9 DEF Next

LEMMA OwnersExclude == OwnsLock /\ NoOrphan => MutationsAreExclusive
<1> SUFFICES ASSUME OwnsLock, NoOrphan,
                    NEW m \in Mutators, NEW n \in Mutators, m # n
             PROVE  crashes > 0 /\ "orphan" \in {m, n}
  BY DEF MutationsAreExclusive
<1>1. \A p \in Mutators : p # "orphan" => lock = p
  BY DEF OwnsLock, Mutators
<1>2. "orphan" \in {m, n}
  BY <1>1
<1>3. orphan
  BY <1>2 DEF Mutators
<1> QED BY <1>2, <1>3 DEF NoOrphan

\* At most one process changes the applications, and after a death of the
\* controller the process it left besides: the job's process ends before the lock
\* is released, and the guard, the recovery, the gate and the requests keep the
\* lock to their end.
THEOREM MutationsExclude == Spec => []MutationsAreExclusive
<1>1. Init => OwnsLock /\ NoOrphan BY OwnsInit
<1>2. OwnsLock /\ NoOrphan /\ [Next]_vars => (OwnsLock /\ NoOrphan)'
  BY OwnsNext, OrphanNext
<1>3. OwnsLock /\ NoOrphan => MutationsAreExclusive BY OwnersExclude
<1> QED BY <1>1, <1>2, <1>3, PTL DEF Spec

-----------------------------------------------------------------------------
(* Every step is a step of StackLock *)

\* Who changes the applications owns the lock, strays aside.
LEMMA ChangingOwns ==
  ASSUME OwnsLock
  PROVE  Mutators \ {"orphan"} \subseteq {lock} \ {"free"}
BY DEF OwnsLock, Mutators

LEMMA ChangingOwnsNext ==
  ASSUME OwnsLock'
  PROVE  (Mutators \ {"orphan"})' \subseteq {lock'} \ {"free"}
BY DEF OwnsLock, Mutators

\* How a step other than a death or a stray's end deals with the lock.
Passes ==
  /\ lock' = lock \/ lock = "free" \/ lock' = "free"
  /\ UNCHANGED <<orphan, crashes>>

LEMMA PassesLock ==
  ASSUME TypeOK, TypeOK', OwnsLock, OwnsLock', Passes
  PROVE  [Lock!Next]_(Lock!vars)
<1> DEFINE Owners == Holders \ {"free"}
           Strays == IF orphan THEN {"job"} ELSE {}
           Changing == Mutators \ {"orphan"}
<1>1. lock \in Holders /\ lock' \in Holders BY DEF TypeOK, Holders
<1>2. Changing \subseteq {lock} \ {"free"} BY ChangingOwns
<1>3. Changing' \subseteq {lock'} \ {"free"} BY ChangingOwnsNext
<1>4. Strays' = Strays /\ crashes' = crashes BY DEF Passes
<1> USE DEF Lock!Next, Lock!vars
<1>5. CASE lock' = lock /\ lock = "free"
  <2>1. Changing' = Changing BY <1>2, <1>3, <1>5
  <2> QED BY <1>4, <1>5, <2>1
<1>6. CASE lock' = lock /\ lock # "free"
  <2>1. lock \in Owners BY <1>1, <1>6
  <2>2. Changing' \in SUBSET {lock} BY <1>3, <1>6
  <2>3. Lock!Work(lock) BY <1>4, <1>6, <2>2 DEF Lock!Work
  <2> QED BY <2>1, <2>3
<1>7. CASE lock' # lock /\ lock = "free"
  <2>1. lock' \in Owners BY <1>1, <1>7
  <2>2. Changing' \in SUBSET {lock'} BY <1>3
  <2>3. Lock!Take(lock') BY <1>4, <1>7, <2>2 DEF Lock!Take
  <2> QED BY <2>1, <2>3
<1>8. CASE lock' # lock /\ lock' = "free"
  <2>1. lock \in Owners BY <1>1, <1>8
  <2>2. Changing' = {} BY <1>3, <1>8
  <2>3. Lock!Release(lock) BY <1>4, <1>8, <2>2 DEF Lock!Release
  <2> QED BY <2>1, <2>3
<1> QED BY <1>5, <1>6, <1>7, <1>8 DEF Passes

LEMMA CrashLock ==
  ASSUME OwnsLock, OwnsLock', CrashController
  PROVE  [Lock!Next]_(Lock!vars)
<1> DEFINE Strays == IF orphan THEN {"job"} ELSE {}
           Changing == Mutators \ {"orphan"}
<1> USE DEF CrashController, world, vpnvars
<1>1. crashes' = crashes + 1 OBVIOUS
<1>2. CASE lock \in {"job", "guard"}
  <2>1. lock' = "free" /\ Changing' = {} BY <1>2, ChangingOwnsNext
  <2>2. child => "job" \in Changing BY DEF Mutators
  <2>3. ~child => Strays' = Strays OBVIOUS
  <2>4. child => Changing = {"job"} BY <2>2, ChangingOwns
  <2>5. child => Strays' = Strays \cup Changing BY <2>4
  <2>6. Lock!Die BY <1>1, <2>1, <2>3, <2>5 DEF Lock!Die
  <2> QED BY <2>6 DEF Lock!Next
<1>3. CASE lock \notin {"job", "guard"}
  <2>1. ~child /\ guard \notin {"visit", "down", "await", "start"}
    BY <1>3 DEF OwnsLock
  <2>2. Strays' = Strays /\ lock' = lock BY <1>3, <2>1
  <2>3. Changing' = Changing BY <2>1, <2>2 DEF Mutators
  <2>4. Lock!Die BY <1>1, <2>2, <2>3 DEF Lock!Die
  <2> QED BY <2>4 DEF Lock!Next
<1> QED BY <1>2, <1>3

LEMMA OrphanLock ==
  ASSUME OrphanEnds
  PROVE  [Lock!Next]_(Lock!vars)
<1>1. (Mutators \ {"orphan"})' = Mutators \ {"orphan"}
  BY DEF OrphanEnds, Mutators, guardvars, vpnvars
<1>2. Lock!Fade
  BY <1>1 DEF OrphanEnds, Lock!Fade, bounds
<1> QED BY <1>2 DEF Lock!Next

LEMMA StepPasses ==
  ASSUME OwnsLock, [Next]_vars, ~CrashController, ~OrphanEnds
  PROVE  Passes
<1> USE DEF OwnsLock, Passes, Take, Release, world, jobvars, guardvars, vpnvars, bounds
<1>1. CASE UNCHANGED vars BY <1>1 DEF vars
<1>2. CASE JobStep BY <1>2 DEF JobStep, DispatchJob, TryLock, Probe, EndJob
<1>3. CASE GuardStep
  BY <1>3 DEF GuardStep, ReportFailure, ReportMountChanged, ReportReady, LockToStop,
     Visit, StopHeld, VisitedAll, ConfirmStopped, LockToStart, StartHeld, StartedAll,
     Attention
<1>4. CASE CommandFails \/ NotDownInTime BY <1>4 DEF CommandFails, NotDownInTime
<1>5. CASE VpnStep
  BY <1>5 DEF VpnStep, StartRecovery, RecoveryLocks, CheckWanted, StopDownloader,
     AwaitDown, RestartDownloader, ObserveRestart, RecordFailure
<1>6. CASE RecoveryRaises \/ RecoveryDies BY <1>6 DEF RecoveryRaises, RecoveryDies
<1>7. CASE GateStep \/ RequestLocks \/ RequestEnds
  BY <1>7 DEF GateStep, GateLocks, GateOpens, GateRetries, RequestLocks, RequestEnds
<1>8. CASE External
  BY <1>8 DEF External, Starts, Stops, Fails, AdminChanges, StorageChanges,
     ReplaceInterface
<1> QED BY <1>1, <1>2, <1>3, <1>4, <1>5, <1>6, <1>7, <1>8 DEF Next

\* The processes keep to StackLock: every step of theirs is a step of it or a
\* stutter, and so is a death of the controller, wherever it falls.
THEOREM HoldersKeepTheLock == Spec => LockIsKept
<1> DEFINE I == TypeOK /\ OwnsLock
<1>1. Init => I BY TypeInit, OwnsInit
<1>2. I /\ [Next]_vars => I' BY TypeNext, OwnsNext
<1>3. Init => Lock!Init BY DEF Init, Lock!Init, Mutators
<1>4. I /\ I' /\ [Next]_vars => [Lock!Next]_(Lock!vars)
  BY PassesLock, CrashLock, OrphanLock, StepPasses
<1> QED BY <1>1, <1>2, <1>3, <1>4, PTL DEF Spec, LockIsKept, Lock!Spec

-----------------------------------------------------------------------------
(* Holds *)

\* Outside the release of a hold, the only held service that may be wanted is
\* the one the guard is about to stop; and the recovery of the downloader, once
\* it has seen it wanted, owns the lock, so that no hold begins under it.
HoldInv ==
  /\ guard # "start" => held \cap wanted \subseteq gcur
  /\ gcur # {} => guard = "down"
  /\ guard \in {"lockStop", "visit", "down"} => phase = "stopping"
  /\ vpn \in {"down", "await", "restart", "restore"} => Downloader \notin held
  /\ vpn = "down" => Downloader \in wanted

LEMMA HoldInit == Init => HoldInv
BY DEF Init, HoldInv

\* What was undisturbed after a step was so before it.
LEMMA UndisturbedNext ==
  ASSUME TypeOK, [Next]_vars, Undisturbed'
  PROVE  Undisturbed
<1>0. failures \in Nat /\ crashes \in Nat /\ adminChanges \in Nat BY DEF TypeOK
<1> USE <1>0 DEF Undisturbed, world, jobvars, guardvars, vpnvars, bounds
<1>1. CASE UNCHANGED vars BY <1>1 DEF vars
<1>2. CASE JobStep
  BY <1>2 DEF JobStep, DispatchJob, TryLock, Probe, EndJob, OrphanEnds
<1>3. CASE GuardStep
  BY <1>3 DEF GuardStep, ReportFailure, ReportMountChanged, ReportReady, LockToStop,
     Visit, StopHeld, VisitedAll, ConfirmStopped, LockToStart, StartHeld, StartedAll,
     Attention
<1>4. CASE CommandFails \/ NotDownInTime BY <1>4 DEF CommandFails, NotDownInTime
<1>5. CASE CrashController BY <1>5 DEF CrashController
<1>6. CASE VpnStep
  BY <1>6 DEF VpnStep, StartRecovery, RecoveryLocks, CheckWanted, StopDownloader,
     AwaitDown, RestartDownloader, ObserveRestart, RecordFailure
<1>7. CASE RecoveryRaises \/ RecoveryDies BY <1>7 DEF RecoveryRaises, RecoveryDies
<1>8. CASE GateStep \/ RequestLocks \/ RequestEnds
  BY <1>8 DEF GateStep, GateLocks, GateOpens, GateRetries, RequestLocks, RequestEnds
<1>9. CASE External
  BY <1>9 DEF External, Starts, Stops, Fails, AdminChanges, StorageChanges,
     ReplaceInterface
<1> QED BY <1>1, <1>2, <1>3, <1>4, <1>5, <1>6, <1>7, <1>8, <1>9 DEF Next

\* One step, undisturbed, keeps the invariant.
LEMMA HoldStep ==
  ASSUME TypeOK, OwnsLock, HoldInv, Undisturbed', [Next]_vars
  PROVE  HoldInv'
<1>0. /\ Undisturbed /\ failures \in Nat /\ crashes \in Nat /\ adminChanges \in Nat
  BY UndisturbedNext DEF TypeOK
<1> USE <1>0 DEF HoldInv, OwnsLock, Undisturbed, Take, Release, world, jobvars,
        guardvars, vpnvars, bounds
<1>1. CASE UNCHANGED vars BY <1>1 DEF vars
<1>2. CASE JobStep
  BY <1>2 DEF JobStep, DispatchJob, TryLock, Probe, EndJob, OrphanEnds
<1>3. CASE GuardStep
  <2>1. CASE ReportFailure BY <2>1 DEF ReportFailure
  <2>2. CASE ReportMountChanged BY <2>2 DEF ReportMountChanged
  <2>3. CASE ReportReady BY <2>3 DEF ReportReady
  <2>4. CASE LockToStop BY <2>4 DEF LockToStop
  <2>5. ASSUME NEW s \in Services, Visit(s) PROVE HoldInv' BY <2>5 DEF Visit
  <2>6. CASE StopHeld BY <2>6 DEF StopHeld
  <2>7. CASE VisitedAll BY <2>7 DEF VisitedAll
  <2>8. CASE ConfirmStopped BY <2>8 DEF ConfirmStopped
  <2>9. CASE LockToStart BY <2>9 DEF LockToStart
  <2>10. ASSUME NEW s \in Services, StartHeld(s) PROVE HoldInv' BY <2>10 DEF StartHeld
  <2>11. CASE StartedAll BY <2>11 DEF StartedAll
  <2>12. CASE Attention BY <2>12 DEF Attention
  <2> QED BY <1>3, <2>1, <2>2, <2>3, <2>4, <2>5, <2>6, <2>7, <2>8, <2>9, <2>10, <2>11,
             <2>12 DEF GuardStep
<1>4. CASE NotDownInTime BY <1>4 DEF NotDownInTime
<1>5. CASE CommandFails \/ CrashController BY <1>5 DEF CommandFails, CrashController
<1>6. CASE VpnStep
  BY <1>6 DEF VpnStep, StartRecovery, RecoveryLocks, CheckWanted, StopDownloader,
     AwaitDown, RestartDownloader, ObserveRestart, RecordFailure
<1>7. CASE RecoveryRaises \/ RecoveryDies BY <1>7 DEF RecoveryRaises, RecoveryDies
<1>8. CASE GateStep \/ RequestLocks \/ RequestEnds
  BY <1>8 DEF GateStep, GateLocks, GateOpens, GateRetries, RequestLocks, RequestEnds
<1>9. CASE External
  BY <1>9 DEF External, Starts, Stops, Fails, AdminChanges, StorageChanges,
     ReplaceInterface
<1> QED BY <1>1, <1>2, <1>3, <1>4, <1>5, <1>6, <1>7, <1>8, <1>9 DEF Next

\* While no s6 command has failed, the controller has not died and no
\* administrator has interfered, a paused record is true.
THEOREM PausesAreKept == Spec => []PauseIsKept
<1> DEFINE I == TypeOK /\ OwnsLock /\ (Undisturbed => HoldInv)
<1>1. Init => I BY TypeInit, OwnsInit, HoldInit
<1>2. I /\ [Next]_vars => I' BY TypeNext, OwnsNext, HoldStep, UndisturbedNext
<1>3. I => PauseIsKept
  <2>1. ASSUME I, Undisturbed, phase = "paused", guard \notin {"start", "raised"}
        PROVE  held \cap wanted = {}
    BY <2>1 DEF HoldInv
  <2> QED BY <2>1 DEF PauseIsKept, PausedMeansStopped
<1> QED BY <1>1, <1>2, <1>3, PTL DEF Spec

\* Whatever fails, dies or is changed, what the guard stopped is not wanted until
\* the guard or an administrator starts it; the recovery of the downloader, once it
\* has seen it wanted, owns the lock, so that no hold stops it underneath.
StoppedInv ==
  /\ stopped \cap wanted = {}
  /\ vpn \in {"down", "await", "restart", "restore"} => Downloader \notin stopped

\* Who may start what the guard stopped.
OnlyGuardStarts ==
  stopped \cap wanted' # {} => guard = "start" \/ adminChanges' > adminChanges

LEMMA StoppedStep ==
  ASSUME TypeOK, OwnsLock, StoppedInv, [Next]_vars
  PROVE  StoppedInv' /\ OnlyGuardStarts
<1> DEFINE Goal == StoppedInv' /\ OnlyGuardStarts
<1> SUFFICES Goal OBVIOUS
<1>0. adminChanges \in Nat BY DEF TypeOK
<1> USE <1>0 DEF StoppedInv, OnlyGuardStarts, OwnsLock, world, jobvars, guardvars,
        vpnvars, bounds
<1>1. CASE UNCHANGED vars BY <1>1 DEF vars
<1>2. CASE JobStep
  BY <1>2 DEF JobStep, DispatchJob, TryLock, Probe, EndJob, OrphanEnds
<1>3. CASE GuardStep
  <2>1. CASE ReportFailure \/ ReportMountChanged \/ ReportReady \/ LockToStop
    BY <2>1 DEF ReportFailure, ReportMountChanged, ReportReady, LockToStop
  <2>2. ASSUME NEW s \in Services, Visit(s) PROVE Goal BY <2>2 DEF Visit
  <2>3. CASE StopHeld BY <2>3 DEF StopHeld
  <2>4. CASE VisitedAll \/ ConfirmStopped \/ LockToStart
    BY <2>4 DEF VisitedAll, ConfirmStopped, LockToStart
  <2>5. ASSUME NEW s \in Services, StartHeld(s) PROVE Goal BY <2>5 DEF StartHeld
  <2>6. CASE StartedAll \/ Attention BY <2>6 DEF StartedAll, Attention
  <2> QED BY <1>3, <2>1, <2>2, <2>3, <2>4, <2>5, <2>6 DEF GuardStep
<1>4. CASE CommandFails BY <1>4 DEF CommandFails
<1>5. CASE NotDownInTime \/ CrashController BY <1>5 DEF NotDownInTime, CrashController
<1>6. CASE VpnStep
  <2>1. CASE StartRecovery \/ RecoveryLocks BY <2>1 DEF StartRecovery, RecoveryLocks
  <2>2. CASE CheckWanted BY <2>2 DEF CheckWanted
  <2>3. CASE StopDownloader BY <2>3 DEF StopDownloader
  <2>4. CASE AwaitDown BY <2>4 DEF AwaitDown
  <2>5. CASE RestartDownloader BY <2>5 DEF RestartDownloader
  <2>6. CASE ObserveRestart \/ RecordFailure BY <2>6 DEF ObserveRestart, RecordFailure
  <2> QED BY <1>6, <2>1, <2>2, <2>3, <2>4, <2>5, <2>6 DEF VpnStep
<1>7. CASE RecoveryRaises \/ RecoveryDies BY <1>7 DEF RecoveryRaises, RecoveryDies
<1>8. CASE GateStep \/ RequestLocks \/ RequestEnds
  BY <1>8 DEF GateStep, GateLocks, GateOpens, GateRetries, RequestLocks, RequestEnds
<1>9. CASE External
  <2>1. ASSUME NEW s \in Services, Starts(s) \/ Stops(s) \/ Fails(s) PROVE Goal
    BY <2>1 DEF Starts, Stops, Fails
  <2>2. ASSUME NEW s \in Services, AdminChanges(s) PROVE Goal BY <2>2 DEF AdminChanges
  <2>3. CASE StorageChanges \/ ReplaceInterface
    BY <2>3 DEF StorageChanges, ReplaceInterface
  <2> QED BY <1>9, <2>1, <2>2, <2>3 DEF External
<1> QED BY <1>1, <1>2, <1>3, <1>4, <1>5, <1>6, <1>7, <1>8, <1>9 DEF Next

\* A hold is ended by the guard's release or an administrator, and never by the
\* recovery of the downloader, whatever command failed and whoever died.
THEOREM NothingUndoesAHold == Spec => HoldsStand
<1> DEFINE I == TypeOK /\ OwnsLock /\ StoppedInv
<1>1. Init => I
  <2>1. Init => StoppedInv BY DEF Init, StoppedInv
  <2> QED BY <2>1, TypeInit, OwnsInit
<1>2. I /\ [Next]_vars => I' BY TypeNext, OwnsNext, StoppedStep
<1>3. I /\ [Next]_vars => [OnlyGuardStarts]_vars BY StoppedStep
<1> QED BY <1>1, <1>2, <1>3, PTL DEF Spec, HoldsStand, OnlyGuardStarts

-----------------------------------------------------------------------------
(* What is stopped is on record *)

\* As long as no administrator interfered: what is being stopped is on record, a
\* release has started what it no longer has to visit, the recovery's record says
\* that it reconnects until it has, and while it observes the downloader it started,
\* only the guard may have stopped it again.
RecordInv ==
  /\ StoppedIsOnRecord
  /\ adminChanges = 0 /\ guard = "start" => held \ gtodo \subseteq wanted
  /\ gcur \subseteq held /\ (gcur # {} => guard = "down")
  /\ vpn \in {"down", "await", "restart", "restore", "observe"} =>
       recovery.phase = "reconnecting"
  /\ adminChanges = 0 /\ vpn = "observe" => Downloader \in wanted \cup held

LEMMA RecordInit == Init => RecordInv
BY DEF Init, RecordInv, StoppedIsOnRecord

LEMMA RecordStep ==
  ASSUME TypeOK, OwnsLock, RecordInv, [Next]_vars
  PROVE  RecordInv'
<1>0. adminChanges \in Nat BY DEF TypeOK
<1> USE <1>0 DEF RecordInv, StoppedIsOnRecord, OwnsLock, world, jobvars, guardvars,
        vpnvars, bounds
<1>1. CASE UNCHANGED vars BY <1>1 DEF vars
<1>2. CASE JobStep
  BY <1>2 DEF JobStep, DispatchJob, TryLock, Probe, EndJob, OrphanEnds
<1>3. CASE GuardStep
  <2>1. CASE ReportFailure \/ ReportMountChanged \/ ReportReady \/ LockToStop
    BY <2>1 DEF ReportFailure, ReportMountChanged, ReportReady, LockToStop
  <2>2. ASSUME NEW s \in Services, Visit(s) PROVE RecordInv' BY <2>2 DEF Visit
  <2>3. CASE StopHeld \/ VisitedAll \/ ConfirmStopped
    BY <2>3 DEF StopHeld, VisitedAll, ConfirmStopped
  <2>4. CASE LockToStart BY <2>4 DEF LockToStart
  <2>5. ASSUME NEW s \in Services, StartHeld(s) PROVE RecordInv' BY <2>5 DEF StartHeld
  <2>6. CASE StartedAll \/ Attention BY <2>6 DEF StartedAll, Attention
  <2> QED BY <1>3, <2>1, <2>2, <2>3, <2>4, <2>5, <2>6 DEF GuardStep
<1>4. CASE CommandFails BY <1>4 DEF CommandFails
<1>5. CASE NotDownInTime \/ CrashController BY <1>5 DEF NotDownInTime, CrashController
<1>6. CASE VpnStep
  <2> USE DEF TypeOK
  <2>1. CASE StartRecovery \/ RecoveryLocks BY <2>1 DEF StartRecovery, RecoveryLocks
  <2>2. CASE CheckWanted BY <2>2 DEF CheckWanted
  <2>3. CASE StopDownloader BY <2>3 DEF StopDownloader
  <2>4. CASE AwaitDown BY <2>4 DEF AwaitDown
  <2>5. CASE RestartDownloader BY <2>5 DEF RestartDownloader
  <2>6. CASE ObserveRestart \/ RecordFailure BY <2>6 DEF ObserveRestart, RecordFailure
  <2> QED BY <1>6, <2>1, <2>2, <2>3, <2>4, <2>5, <2>6 DEF VpnStep
<1>7. CASE RecoveryRaises \/ RecoveryDies BY <1>7 DEF RecoveryRaises, RecoveryDies, TypeOK
<1>8. CASE GateStep \/ RequestLocks \/ RequestEnds
  BY <1>8 DEF GateStep, GateLocks, GateOpens, GateRetries, RequestLocks, RequestEnds
<1>9. CASE External
  <2>1. ASSUME NEW s \in Services, Starts(s) \/ Stops(s) \/ Fails(s) PROVE RecordInv'
    BY <2>1 DEF Starts, Stops, Fails
  <2>2. ASSUME NEW s \in Services, AdminChanges(s) PROVE RecordInv'
    BY <2>2 DEF AdminChanges
  <2>3. CASE StorageChanges \/ ReplaceInterface
    BY <2>3 DEF StorageChanges, ReplaceInterface
  <2> QED BY <1>9, <2>1, <2>2, <2>3 DEF External
<1> QED BY <1>1, <1>2, <1>3, <1>4, <1>5, <1>6, <1>7, <1>8, <1>9 DEF Next

\* Whatever command fails and whenever the controller or the recovery dies, nothing
\* is kept down that no record owns up to, unless an administrator interfered.
THEOREM StopsAreOnRecord == Spec => []StoppedIsOnRecord
<1> DEFINE I == TypeOK /\ OwnsLock /\ RecordInv
<1>1. Init => I BY TypeInit, OwnsInit, RecordInit
<1>2. I /\ [Next]_vars => I' BY TypeNext, OwnsNext, RecordStep
<1>3. I => StoppedIsOnRecord BY DEF RecordInv
<1> QED BY <1>1, <1>2, <1>3, PTL DEF Spec

-----------------------------------------------------------------------------
(* The administrator's stops *)

\* What an administrator stopped while it was not held is neither wanted nor held,
\* and the guard starts what is on record only.
AdminInv ==
  /\ adminDown \cap (wanted \cup held) = {}
  /\ guard = "start" => gtodo \subseteq held

LEMMA AdminInit == Init => AdminInv
BY DEF Init, AdminInv

\* Who may start what an administrator stopped.
OnlyAdministratorsStart ==
  \A s \in adminDown \cap (wanted' \ wanted) :
    \/ adminChanges' > adminChanges
    \/ s = Downloader /\ vpn \in {"down", "await", "restart", "restore"}

LEMMA AdminStep ==
  ASSUME TypeOK, AdminInv, [Next]_vars
  PROVE  AdminInv' /\ OnlyAdministratorsStart
<1> DEFINE Goal == AdminInv' /\ OnlyAdministratorsStart
<1> SUFFICES Goal OBVIOUS
<1>0. adminChanges \in Nat BY DEF TypeOK
<1> USE <1>0 DEF AdminInv, OnlyAdministratorsStart, world, jobvars, guardvars,
        vpnvars, bounds
<1>1. CASE UNCHANGED vars BY <1>1 DEF vars
<1>2. CASE JobStep
  BY <1>2 DEF JobStep, DispatchJob, TryLock, Probe, EndJob, OrphanEnds
<1>3. CASE GuardStep
  <2>1. CASE ReportFailure \/ ReportMountChanged \/ ReportReady \/ LockToStop
    BY <2>1 DEF ReportFailure, ReportMountChanged, ReportReady, LockToStop
  <2>2. ASSUME NEW s \in Services, Visit(s) PROVE Goal BY <2>2 DEF Visit
  <2>3. CASE StopHeld \/ VisitedAll \/ ConfirmStopped
    BY <2>3 DEF StopHeld, VisitedAll, ConfirmStopped
  <2>4. CASE LockToStart BY <2>4 DEF LockToStart
  <2>5. ASSUME NEW s \in Services, StartHeld(s) PROVE Goal BY <2>5 DEF StartHeld
  <2>6. CASE StartedAll \/ Attention BY <2>6 DEF StartedAll, Attention
  <2> QED BY <1>3, <2>1, <2>2, <2>3, <2>4, <2>5, <2>6 DEF GuardStep
<1>4. CASE CommandFails BY <1>4 DEF CommandFails
<1>5. CASE NotDownInTime \/ CrashController BY <1>5 DEF NotDownInTime, CrashController
<1>6. CASE VpnStep
  BY <1>6 DEF VpnStep, StartRecovery, RecoveryLocks, CheckWanted, StopDownloader,
     AwaitDown, RestartDownloader, ObserveRestart, RecordFailure
<1>7. CASE RecoveryRaises \/ RecoveryDies BY <1>7 DEF RecoveryRaises, RecoveryDies
<1>8. CASE GateStep \/ RequestLocks \/ RequestEnds
  BY <1>8 DEF GateStep, GateLocks, GateOpens, GateRetries, RequestLocks, RequestEnds
<1>9. CASE External
  <2>1. ASSUME NEW s \in Services, Starts(s) \/ Stops(s) \/ Fails(s) PROVE Goal
    BY <2>1 DEF Starts, Stops, Fails
  <2>2. ASSUME NEW s \in Services, AdminChanges(s) PROVE Goal BY <2>2 DEF AdminChanges
  <2>3. CASE StorageChanges \/ ReplaceInterface
    BY <2>3 DEF StorageChanges, ReplaceInterface
  <2> QED BY <1>9, <2>1, <2>2, <2>3 DEF External
<1> QED BY <1>1, <1>2, <1>3, <1>4, <1>5, <1>6, <1>7, <1>8, <1>9 DEF Next

\* "Restored storage releases only the applications Pompey held": whatever fails or
\* dies, what an administrator stopped while it was not held is started by an
\* administrator only, but for a downloader the recovery is in the middle of
\* restarting.
THEOREM AdministratorsStopsStand == Spec => AdminStopsStand
<1> DEFINE I == TypeOK /\ AdminInv
<1>1. Init => I BY TypeInit, AdminInit
<1>2. I /\ [Next]_vars => I' BY TypeNext, AdminStep
<1>3. I /\ [Next]_vars => [OnlyAdministratorsStart]_vars BY AdminStep
<1>4. OnlyAdministratorsStart <=>
        \A s \in adminDown \cap (wanted' \ wanted) :
          \/ adminChanges' > adminChanges
          \/ s = Downloader /\ vpn \in {"down", "await", "restart", "restore"}
  BY DEF OnlyAdministratorsStart
<1> QED BY <1>1, <1>2, <1>3, <1>4, PTL
        DEF Spec, AdminStopsStand, OnlyAdministratorsStart
=============================================================================
