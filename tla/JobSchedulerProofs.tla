------------------------- MODULE JobSchedulerProofs -------------------------
(***************************************************************************)
(* Theorems about JobScheduler and Preferences: never two exclusive jobs in*)
(* the pool, no routine job in the pool without its marker, jobs that keep *)
(* to StackLock, and preferences that are in effect unless pending.        *)
(***************************************************************************)
EXTENDS Preferences, TLAPS

\* Neither property is inductive alone: "busy" sees a routine job only while its
\* marker exists, and a marker goes only while configuration runs, which is then
\* the only job in flight.
IInv ==
  /\ future \in [Jobs -> FutureStates]
  /\ wired \in SUBSET Routine
  /\ OneInFlight
  /\ WiredWhileInFlight
  /\ wiring # "none" => future[Config] = "running"

\* What a job in flight is.
LEMMA Flying ==
  ASSUME NEW j \in Jobs
  PROVE  j \in InFlight <=> future[j] # "none"
BY DEF InFlight

LEMMA JobsFacts == Config \in Jobs /\ Config \notin Routine /\ Routine \subseteq Jobs
BY DEF Jobs, Routine, Config

\* Nothing changes the pool, or only the state of a job that stays in it.
LEMMA SameFlight ==
  ASSUME IInv, NEW j \in Jobs, future[j] # "none", NEW s \in FutureStates,
         future' = [future EXCEPT ![j] = s], wired' = wired
  PROVE  /\ future' \in [Jobs -> FutureStates] /\ wired' \in SUBSET Routine
         /\ OneInFlight' /\ WiredWhileInFlight'
BY DEF IInv, OneInFlight, WiredWhileInFlight, InFlight

LEMMA InitIInv == Init => IInv
BY DEF Init, IInv, OneInFlight, WiredWhileInFlight, InFlight, FutureStates

LEMMA DispatchIInv == IInv /\ Dispatch => IInv'
<1> SUFFICES ASSUME IInv, Dispatch PROVE IInv' OBVIOUS
<1>1. PICK j \in Candidates \ InFlight : future' = [future EXCEPT ![j] = "queued"]
  BY DEF Dispatch
<1>2. InFlight = {}
  BY JobsFacts DEF Dispatch, Busy, Candidates, IInv, WiredWhileInFlight, InFlight, Jobs
<1>3. j \in Jobs /\ wired' = wired /\ wiring' = wiring
  BY <1>1, JobsFacts DEF Candidates, IInv, Dispatch
<1>4. future' \in [Jobs -> FutureStates]
  BY <1>1, <1>3 DEF IInv, FutureStates
<1>5. InFlight' = {j}
  BY <1>1, <1>2, <1>3, <1>4 DEF InFlight, IInv
<1>6. wiring' = "none"
  BY <1>2, <1>3, JobsFacts DEF IInv, InFlight
<1>7. j \in Routine => j \in wired'
  BY <1>1, <1>3, JobsFacts DEF Candidates
<1> QED BY <1>3, <1>4, <1>5, <1>6, <1>7 DEF IInv, OneInFlight, WiredWhileInFlight

LEMMA JobIInv ==
  ASSUME IInv, NEW j \in Jobs, Reap(j) \/ BecomeDue(j) \/ ThreadStep(j) \/ Fail(j)
  PROVE  IInv'
<1> USE JobsFacts DEF FutureStates
<1>1. CASE Reap(j)
  <2>1. future[j] \in {"succeeded", "raised", "waits"} /\ wired' = wired /\ wiring' = wiring
        /\ future' = [future EXCEPT ![j] = "none"]
    BY <1>1 DEF Reap
  <2>2. wiring # "none" => j # Config BY <2>1 DEF IInv
  <2> QED BY <2>1, <2>2, SameFlight DEF IInv
<1>2. CASE BecomeDue(j)
  BY <1>2 DEF BecomeDue, IInv, OneInFlight, WiredWhileInFlight, InFlight
<1>3. CASE LockBusy(j) \/ ProbeFails(j)
  <2>1. future[j] = "queued" /\ wired' = wired /\ wiring' = wiring
        /\ future' = [future EXCEPT ![j] = "waits"]
    BY <1>3 DEF LockBusy, ProbeFails, Answer
  <2> QED BY <2>1, SameFlight DEF IInv
<1>4. CASE Start(j)
  <2>1. future[j] = "queued" /\ wired' = wired
        /\ future' = [future EXCEPT ![j] = "running"]
        /\ (wiring' # "none" => j = Config \/ wiring # "none")
    BY <1>4 DEF Start, Answer
  <2> QED BY <2>1, SameFlight DEF IInv
<1>5. CASE Succeed(j) \/ Fail(j)
  <2>1. PICK s \in {"succeeded", "raised"} : End(j, s)
    BY <1>5 DEF Succeed, Fail
  <2>2. future[j] = "running" /\ wired' = wired
        /\ future' = [future EXCEPT ![j] = s]
        /\ (wiring' # "none" => j # Config /\ wiring # "none")
    BY <2>1 DEF End, Answer
  <2> QED BY <2>2, SameFlight DEF IInv
<1> QED BY <1>1, <1>2, <1>3, <1>4, <1>5 DEF ThreadStep

LEMMA ConfigIInv == IInv /\ (ConfigStep \/ RequestsNotReady) => IInv'
<1> SUFFICES ASSUME IInv, ConfigStep \/ RequestsNotReady PROVE IInv' OBVIOUS
<1> USE JobsFacts
<1>1. CASE Unreached
  <2>1. future[Config] = "running" /\ wired' = wired /\ wiring' = "none"
        /\ future' = [future EXCEPT ![Config] = "raised"]
    BY <1>1 DEF Unreached, End, Answer
  <2> QED BY <2>1, SameFlight DEF IInv, FutureStates
<1>2. CASE ~Unreached
  <2>1. /\ future[Config] = "running" /\ future' = future
        /\ wired' \in SUBSET Routine
    BY <1>2 DEF ConfigStep, RequestsNotReady, Unwire, ReachDownloader, WireDownloads,
       WireRoots, WireRequests, Wired, Wires, IInv, Routine
  <2>2. InFlight = {Config} /\ InFlight' = {Config}
    BY <2>1 DEF IInv, OneInFlight, InFlight
  <2> QED BY <2>1, <2>2 DEF IInv, OneInFlight, WiredWhileInFlight
<1> QED BY <1>1, <1>2

LEMMA NextIInv == IInv /\ [Next]_vars => IInv'
<1> SUFFICES ASSUME IInv, [Next]_vars PROVE IInv' OBVIOUS
<1>1. CASE UNCHANGED <<future, wired, wiring>>
  BY <1>1 DEF IInv, OneInFlight, WiredWhileInFlight, InFlight
<1>2. CASE Dispatch BY <1>2, DispatchIInv
<1>3. ASSUME NEW j \in Jobs, Reap(j) \/ BecomeDue(j) \/ ThreadStep(j) \/ Fail(j)
      PROVE  IInv'
  BY <1>3, JobIInv
<1>4. CASE ConfigStep \/ RequestsNotReady BY <1>4, ConfigIInv
<1> QED BY <1>1, <1>2, <1>3, <1>4 DEF Next, vars, ServiceAppears, GuardBlocks,
        GuardReleases, OtherLocks, OtherUnlocks, DownloaderStops, DownloaderReturns

\* At most one exclusive job is ever in the pool, although "busy" counts only
\* jobs whose marker exists (pompey_controller.dispatch).
THEOREM OneJobInFlight == Spec => []OneInFlight
<1>1. IInv => OneInFlight BY DEF IInv
<1> QED BY <1>1, InitIInv, NextIInv, PTL DEF Spec

\* A routine job in the pool keeps its marker: the wiring it relies on is not
\* taken down under it.
THEOREM MarkersOutliveJobs == Spec => []WiredWhileInFlight
<1>1. IInv => WiredWhileInFlight BY DEF IInv
<1> QED BY <1>1, InitIInv, NextIInv, PTL DEF Spec

-----------------------------------------------------------------------------
(* Preferences *)

\* The process of a running job has the lock, until it has ended.
Locked == \A j \in Jobs : future[j] = "running" => lock = j

LEMMA JobLocked ==
  ASSUME IInv, Locked, NEW j \in Jobs, Reap(j) \/ BecomeDue(j) \/ ThreadStep(j) \/ Fail(j)
  PROVE  Locked'
<1> USE DEF Locked, IInv
<1>0. j # "free" BY DEF Jobs, Routine, Config
<1>1. CASE Reap(j) BY <1>1 DEF Reap
<1>2. CASE BecomeDue(j) BY <1>2 DEF BecomeDue
<1>3. CASE LockBusy(j) \/ ProbeFails(j) BY <1>3 DEF LockBusy, ProbeFails, Answer
<1>4. CASE Start(j)
  <2>1. \A k \in Jobs : future[k] # "running"
    BY <1>4 DEF Start, Jobs, Routine, Config
  <2> QED BY <1>4, <2>1 DEF Start, Answer
<1>5. CASE Succeed(j) \/ Fail(j)
  <2>1. PICK s \in {"succeeded", "raised"} : End(j, s)
    BY <1>5 DEF Succeed, Fail
  <2>2. \A k \in Jobs : future[k] = "running" => k = j
    BY <2>1 DEF End
  <2> QED BY <2>1, <2>2 DEF End, Answer
<1> QED BY <1>1, <1>2, <1>3, <1>4, <1>5 DEF ThreadStep

LEMMA NextLocked == IInv /\ Locked /\ [Next]_vars => Locked'
<1> SUFFICES ASSUME IInv, Locked, [Next]_vars PROVE Locked' OBVIOUS
<1>1. CASE UNCHANGED <<future, lock>> BY <1>1 DEF Locked
<1>2. CASE Dispatch
  <2>1. PICK k \in Candidates \ InFlight : future' = [future EXCEPT ![k] = "queued"]
    BY <1>2 DEF Dispatch
  <2> QED BY <1>2, <2>1 DEF Dispatch, Locked, IInv
<1>3. ASSUME NEW j \in Jobs, Reap(j) \/ BecomeDue(j) \/ ThreadStep(j) \/ Fail(j)
      PROVE  Locked'
  BY <1>3, JobLocked
<1>4. CASE Unreached
  <2>1. \A k \in Jobs : future[k] = "running" => k = Config
    BY <1>4, JobsFacts DEF Unreached, End, Locked
  <2> QED BY <1>4, <2>1 DEF Unreached, End, Answer, Locked, IInv
<1>5. CASE OtherLocks \/ OtherUnlocks
  BY <1>5 DEF OtherLocks, OtherUnlocks, Locked, Jobs, Routine, Config
<1>6. CASE (ConfigStep /\ ~Unreached) \/ RequestsNotReady
  BY <1>1, <1>6 DEF ConfigStep, RequestsNotReady, Unwire, ReachDownloader, WireDownloads,
     WireRoots, WireRequests, Wired, Wires
<1> QED BY <1>1, <1>2, <1>3, <1>4, <1>5, <1>6 DEF Next, vars, ServiceAppears,
        GuardBlocks, GuardReleases, DownloaderStops, DownloaderReturns

\* Nobody else owns the lock, and its owner is a job or a process outside.
LockTyped == lock \in Jobs \cup {"free", "other"}

LEMMA NextLockTyped == LockTyped /\ [Next]_vars => LockTyped'
<1> SUFFICES ASSUME LockTyped, [Next]_vars PROVE LockTyped' OBVIOUS
<1> USE JobsFacts DEF LockTyped
<1>1. ASSUME NEW j \in Jobs, Reap(j) \/ BecomeDue(j) \/ ThreadStep(j) \/ Fail(j)
      PROVE  LockTyped'
  BY <1>1 DEF Reap, BecomeDue, ThreadStep, LockBusy, ProbeFails, Start, Succeed, Fail, End
<1>2. CASE ConfigStep \/ RequestsNotReady
  BY <1>2 DEF ConfigStep, RequestsNotReady, Unwire, ReachDownloader, Unreached,
     WireDownloads, WireRoots, WireRequests, Wired, Wires, End
<1> QED BY <1>1, <1>2 DEF Next, vars, Dispatch, ServiceAppears, GuardBlocks,
        GuardReleases, OtherLocks, OtherUnlocks, DownloaderStops, DownloaderReturns

\* A step that keeps the lock, takes a free one or frees it is one of StackLock's.
LEMMA PassesLock ==
  ASSUME Locked, Locked', LockTyped, LockTyped',
         lock' = lock \/ lock = "free" \/ lock' = "free"
  PROVE  [Lock!Next]_(Lock!vars)
<1> DEFINE Running == {j \in Jobs : future[j] = "running"}
<1>1. "free" \notin Jobs BY DEF Jobs, Routine, Config
<1>2. Running \subseteq {lock} \ {"free"} BY <1>1 DEF Locked
<1>3. Running' \subseteq {lock'} \ {"free"} BY <1>1 DEF Locked
<1>4. CASE lock' = lock /\ lock = "free"
  <2>1. Running' = Running BY <1>2, <1>3, <1>4
  <2> QED BY <1>4, <2>1 DEF Lock!vars
<1>5. CASE lock' = lock /\ lock # "free"
  <2>1. Running' \in SUBSET {lock} BY <1>3, <1>5
  <2>2. lock \in Jobs \cup {"other"} BY <1>5 DEF LockTyped
  <2> QED BY <1>5, <2>1, <2>2 DEF Lock!Next, Lock!Work
<1>6. CASE lock' # lock /\ lock = "free"
  <2>1. Running' \in SUBSET {lock'} BY <1>3
  <2>2. lock' \in Jobs \cup {"other"} BY <1>6 DEF LockTyped
  <2> QED BY <1>6, <2>1, <2>2 DEF Lock!Next, Lock!Take
<1>7. CASE lock' # lock /\ lock' = "free"
  <2>1. Running' = {} BY <1>3, <1>7
  <2>2. lock \in Jobs \cup {"other"} BY <1>7 DEF LockTyped
  <2> QED BY <1>7, <2>1, <2>2 DEF Lock!Next, Lock!Release
<1> QED BY <1>4, <1>5, <1>6, <1>7

LEMMA StepPasses ==
  ASSUME [Next]_vars
  PROVE  lock' = lock \/ lock = "free" \/ lock' = "free"
<1>1. ASSUME NEW j \in Jobs, Reap(j) \/ BecomeDue(j) \/ ThreadStep(j) \/ Fail(j)
      PROVE  lock' = lock \/ lock = "free" \/ lock' = "free"
  BY <1>1 DEF Reap, BecomeDue, ThreadStep, LockBusy, ProbeFails, Start, Succeed, Fail, End
<1>2. CASE ConfigStep \/ RequestsNotReady
  BY <1>2 DEF ConfigStep, RequestsNotReady, Unwire, ReachDownloader, Unreached,
     WireDownloads, WireRoots, WireRequests, Wired, Wires, End
<1> QED BY <1>1, <1>2 DEF Next, vars, Dispatch, ServiceAppears, GuardBlocks,
        GuardReleases, OtherLocks, OtherUnlocks, DownloaderStops, DownloaderReturns

\* The invariant of the scheduler that includes the lock.
LockInv == IInv /\ Locked /\ LockTyped

LEMMA LockInvInit == Init => LockInv
<1>1. Init => Locked /\ LockTyped BY DEF Init, Locked, LockTyped
<1> QED BY <1>1, InitIInv DEF LockInv

LEMMA LockInvNext == LockInv /\ [Next]_vars => LockInv'
BY NextIInv, NextLocked, NextLockTyped DEF LockInv

LEMMA LockInitially == Init => Lock!Init
BY DEF Init, Lock!Init

\* The controller's jobs keep to StackLock.
THEOREM JobsKeepTheLock == Spec => LockIsKept
<1>1. LockInv /\ LockInv' /\ [Next]_vars => [Lock!Next]_(Lock!vars)
  BY PassesLock, StepPasses DEF LockInv
<1> QED BY <1>1, LockInvInit, LockInvNext, LockInitially, PTL
        DEF Spec, LockIsKept, Lock!Spec

\* A configuration that ends has succeeded or raised.
LEMMA EndOfWiring ==
  ASSUME IInv, Next, wiring # "none", wiring' = "none"
  PROVE  future[Config] = "running" /\ future'[Config] \in {"succeeded", "raised"}
<1> USE JobsFacts DEF IInv
<1>1. CASE UNCHANGED wiring BY <1>1
<1>2. ASSUME NEW j \in Jobs, ThreadStep(j) \/ Fail(j), wiring' # wiring
      PROVE  future'[Config] \in {"succeeded", "raised"}
  <2>1. ~Start(j) BY DEF Start
  <2>2. PICK s \in {"succeeded", "raised"} : End(j, s)
    BY <1>2, <2>1 DEF ThreadStep, Succeed, Fail, LockBusy, ProbeFails
  <2> QED BY <1>2, <2>2 DEF End, Answer
<1>3. CASE Unreached BY <1>3 DEF Unreached, End, Answer
<1>4. ~((ConfigStep /\ ~Unreached) \/ RequestsNotReady)
  BY DEF ConfigStep, RequestsNotReady, Unwire, ReachDownloader, WireDownloads,
     WireRoots, WireRequests, Wired, Wires
<1> QED BY <1>1, <1>2, <1>3, <1>4 DEF Next, Dispatch, ServiceAppears, Reap, BecomeDue,
        GuardBlocks, GuardReleases, OtherLocks, OtherUnlocks, DownloaderStops,
        DownloaderReturns

\* What the running configuration has brought about so far, and what the last
\* one left, as long as none has failed.
Honest ==
  /\ applied # Unset /\ stage = "push" => limit = applied.limit
  /\ applied # Unset /\ stage \in {"push", "check", "sync"} =>
       \A a \in Apps : profiles[a] = applied.dual \/ (stage = "sync" /\ profiles[a] = rendered)
  /\ stage # "push" => limit = preferences.limit
  /\ stage = "sync" => /\ rendered = preferences.dual
                       /\ \A a \in Apps \ unsynced : profiles[a] = rendered
  /\ stage \in {"synced", "applied"} => \A a \in Apps : profiles[a] = preferences.dual
  /\ record # Unset /\ stage # "sync" => \A a \in Apps : profiles[a] = record
  /\ stage = "applied" => applied = preferences

\* Only a running configuration is past its first step.
SettingsInv ==
  /\ SettingsTypeOK
  /\ wiring = "none" => stage = "push"
  /\ clean => Honest

LEMMA DualAudio == ASSUME NEW v \in Choices PROVE v.dual \in BOOLEAN /\ v.dual # Unset
BY PreferencesAssumption

LEMMA SaveInv ==
  ASSUME IInv, Locked, SettingsInv, NEW v \in Choices, Save(v)
  PROVE  SettingsInv'
<1>1. future[Config] # "running"
  BY JobsFacts DEF Locked, Save, Config
<1>2. stage = "push" BY <1>1 DEF IInv, SettingsInv
<1>3. SettingsTypeOK'
  BY DEF SettingsInv, SettingsTypeOK, Save, native
<1> QED BY <1>2, <1>3 DEF SettingsInv, Honest, Save, vars, native

LEMMA SchedulerInv ==
  ASSUME IInv, SettingsInv, SchedulerStep
  PROVE  SettingsInv'
<1>1. SettingsTypeOK'
  BY DEF SettingsInv, SettingsTypeOK, SchedulerStep, Beside, stored, native, Stages
<1>2. wiring' = "none" => stage' = "push"
  BY DEF SchedulerStep, Beside
<1>3. ASSUME clean' PROVE Honest'
  <2>1. clean /\ future'[Config] # "raised" /\ Honest
    BY <1>3 DEF SchedulerStep, Beside, SettingsInv
  <2>2. UNCHANGED <<stored, native, rendered, unsynced>>
    BY DEF SchedulerStep, Beside
  <2>3. CASE stage' = stage
    BY <2>1, <2>2, <2>3 DEF Honest, stored, native
  <2>4. CASE stage' # stage
    <3>1. wiring' = "none" /\ stage' = "push" /\ wiring # "none"
      BY <2>4 DEF SchedulerStep, Beside, SettingsInv
    <3>2. stage = "applied"
      BY <2>1, <3>1, EndOfWiring DEF SchedulerStep, Beside
    <3> QED BY <2>1, <2>2, <3>1, <3>2 DEF Honest, stored, native
  <2> QED BY <2>3, <2>4
<1> QED BY <1>1, <1>2, <1>3 DEF SettingsInv

LEMMA StepInv ==
  ASSUME IInv, SettingsInv, SettingsStep
  PROVE  SettingsInv'
<1> USE DualAudio DEF SettingsInv, SettingsTypeOK, Configuring, stored, native, vars, Stages
<1>1. CASE PushQueue
  <2>1. preferences.limit \in Limits BY DEF Limits
  <2> QED BY <1>1, <2>1 DEF PushQueue, Honest
<1>2. CASE SkipSync BY <1>2 DEF SkipSync, Fresh, Honest
<1>3. CASE StartSync BY <1>3 DEF StartSync, Honest
<1>4. ASSUME NEW a \in Apps, Sync(a) PROVE SettingsInv'
  <2>1. SettingsTypeOK' BY <1>4 DEF Sync
  <2>2. clean /\ Honest => Honest' BY <1>4 DEF Sync, Honest
  <2> QED BY <1>4, <2>1, <2>2 DEF Sync
<1>5. CASE RecordSync BY <1>5 DEF RecordSync, Honest
<1>6. CASE SaveApplied BY <1>6 DEF SaveApplied, Honest
<1> QED BY <1>1, <1>2, <1>3, <1>4, <1>5, <1>6 DEF SettingsStep

LEMMA EditInv ==
  ASSUME SettingsInv, NativeEdit,
         \/ \E n \in Limits : SetLimit(n)
         \/ \E a \in Apps : DeleteProfile(a)
  PROVE  SettingsInv'
BY DEF SettingsInv, SettingsTypeOK, NativeEdit, SetLimit, DeleteProfile, stored

PInv == IInv /\ Locked /\ SettingsInv

LEMMA InitPInv == SettingsInit => PInv
<1> SUFFICES ASSUME SettingsInit PROVE PInv OBVIOUS
<1> USE DEF SettingsInit
<1>1. Locked BY DEF Init, Locked
<1>2. SettingsInv
  BY DEF Init, SettingsInit, SettingsInv, SettingsTypeOK, Stages, Honest
<1> QED BY <1>1, <1>2, InitIInv DEF PInv

LEMMA NextPInv == PInv /\ [PreferencesNext]_all => PInv'
<1> SUFFICES ASSUME PInv, [PreferencesNext]_all PROVE PInv' OBVIOUS
<1> USE DEF PInv
<1>1. CASE SchedulerStep
  BY <1>1, NextIInv, NextLocked, SchedulerInv DEF SchedulerStep
<1>2. ASSUME UNCHANGED <<future, lock, wired, wiring>> PROVE IInv' /\ Locked'
  BY <1>2 DEF IInv, OneInFlight, WiredWhileInFlight, InFlight, Locked
<1>3. CASE SettingsStep
  BY <1>2, <1>3, StepInv DEF SettingsStep, PushQueue, SkipSync, StartSync, RecordSync,
     SaveApplied, Sync, Configuring, vars
<1>4. ASSUME NEW v \in Choices, Save(v) PROVE PInv'
  BY <1>2, <1>4, SaveInv DEF Save, vars
<1>5. CASE (\E n \in Limits : SetLimit(n)) \/ (\E a \in Apps : DeleteProfile(a))
  <2>1. NativeEdit BY <1>5 DEF SetLimit, DeleteProfile
  <2> QED BY <1>2, <1>5, <2>1, EditInv DEF NativeEdit
<1>6. CASE UNCHANGED all
  BY <1>2, <1>6 DEF all, vars, settings, stored, native, SettingsInv, SettingsTypeOK, Honest
<1> QED BY <1>1, <1>3, <1>4, <1>5, <1>6 DEF PreferencesNext

\* Preferences that are not pending are in effect (pompey_preferences.status), for
\* any preferences and however saves, passes and other jobs interleave, as long as
\* no configuration failed and nobody edited natively.
THEOREM NotPendingIsInEffect == PreferencesSpec => []AppliedIsInEffect
<1>1. ASSUME PInv, clean, applied = preferences
      PROVE  limit = preferences.limit /\ profiles = [a \in Apps |-> preferences.dual]
  <2>1. applied # Unset /\ stage \in Stages /\ profiles \in [Apps -> BOOLEAN \cup {Unset}]
    BY <1>1, PreferencesAssumption DEF PInv, SettingsInv, SettingsTypeOK
  <2>2. Honest BY <1>1 DEF PInv, SettingsInv
  <2>3. \A a \in Apps : profiles[a] = preferences.dual
    BY <1>1, <2>1, <2>2 DEF Honest, Stages
  <2> QED BY <1>1, <2>1, <2>2, <2>3 DEF Honest
<1>2. PInv => AppliedIsInEffect BY <1>1 DEF AppliedIsInEffect
<1> QED BY <1>2, InitPInv, NextPInv, PTL DEF PreferencesSpec

\* What the preferences add leaves the lock and the pool alone.
LEMMA BesideTheLock ==
  ASSUME [PreferencesNext]_all, ~SchedulerStep
  PROVE  UNCHANGED <<lock, future>>
<1>1. ASSUME SettingsStep PROVE UNCHANGED <<lock, future>>
  BY <1>1 DEF SettingsStep, PushQueue, SkipSync, StartSync, RecordSync, SaveApplied, Sync,
     Configuring, vars
<1> QED BY <1>1 DEF PreferencesNext, Save, SetLimit, DeleteProfile, NativeEdit, all, vars

\* And they still keep to StackLock.
THEOREM LockBesidePreferences == PreferencesSpec => LockIsKept
<1> DEFINE I == PInv /\ LockTyped
<1>1. SettingsInit => I BY InitPInv, LockInvInit DEF SettingsInit, LockInv
<1>2. I /\ [PreferencesNext]_all => I'
  <2>1. SchedulerStep => [Next]_vars BY DEF SchedulerStep
  <2>2. LockTyped /\ UNCHANGED lock => LockTyped' BY DEF LockTyped
  <2> QED BY <2>1, <2>2, NextPInv, NextLockTyped, BesideTheLock
<1>3. SettingsInit => Lock!Init BY LockInitially DEF SettingsInit
<1>4. ASSUME I, I', [PreferencesNext]_all PROVE [Lock!Next]_(Lock!vars)
  <2>1. CASE SchedulerStep
    BY <1>4, <2>1, PassesLock, StepPasses DEF SchedulerStep, PInv
  <2>2. CASE ~SchedulerStep
    BY <1>4, <2>2, BesideTheLock DEF Lock!vars
  <2> QED BY <2>1, <2>2
<1> QED BY <1>1, <1>2, <1>3, <1>4, PTL DEF PreferencesSpec, LockIsKept, Lock!Spec

\* With the preferences' part of the configuration there is still at most one
\* exclusive job in the pool.
THEOREM OneJobBesidePreferences == PreferencesSpec => []OneInFlight
<1>1. PInv => OneInFlight BY DEF PInv, IInv
<1> QED BY <1>1, InitPInv, NextPInv, PTL DEF PreferencesSpec
=============================================================================
