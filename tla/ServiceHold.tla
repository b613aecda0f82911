---------------------------- MODULE ServiceHold ----------------------------
(***************************************************************************)
(* Who may stop, start and mutate the applications: the stack lock         *)
(* (pompey_runtime.stack_lock), the maintenance jobs that run under it     *)
(* (pompey_controller.execute, pompey_runtime.run_process), the storage    *)
(* guard (storage_guard.StorageGuard), the recovery of the downloader      *)
(* after a VPN interface replacement (vpn_recovery.main), and the          *)
(* downloader's startup gate (pompey_imports.before_downloader).           *)
(*                                                                         *)
(* s6 keeps each service in the wanted state; "wanted" is what s6-svstat   *)
(* reports as wantedup.  The lock is an flock: it is free as soon as its   *)
(* holder's file is closed, by leaving the block or by dying.              *)
(***************************************************************************)
EXTENDS Naturals, FiniteSets

CONSTANTS
  Arrs,            \* the other services the guard holds: radarr, sonarr
  MaxReplacements, \* bound: replacements of the VPN interface
  MaxStorage,      \* bound: changes of the storage's state
  MaxDisturbances  \* bound: s6 commands that fail or time out, services that
                   \* fail, deaths of the recovery and of the controller, and
                   \* service changes by an administrator

Downloader == "qbittorrent"
Services == {Downloader} \cup Arrs

ASSUME ServiceAssumption ==
  /\ Downloader \notin Arrs
  /\ IsFiniteSet(Arrs)
  /\ MaxReplacements \in Nat /\ MaxStorage \in Nat /\ MaxDisturbances \in Nat

VARIABLES
  lock,       \* which process owns stack.lock, or "free"
  \* s6 and the world
  wanted,     \* services s6 keeps up
  up,         \* "down", "starting" (the run script before exec) or "up"
  mount,      \* what a storage report would find
  interface,  \* generation of the VPN interface (ifindex)
  adminDown,  \* history: services an administrator stopped while they were not
              \* held, and nobody has started since
  stopped,    \* history: services the guard stopped, and nobody has started since
  \* the controller
  job,        \* the exclusive job's thread
  child,      \* is its mutation process running?
  orphan,     \* is a mutation process of a dead controller running?
  blocked,    \* StorageGuard.blocked
  guard,      \* control state of the guard's check thread
  gtodo,      \* services the check still has to visit
  gcur,       \* services held in this check and not yet told to stop
  \* storage.json and vpn-recovery.json
  ok, phase, held, recovery,
  \* vpn_recovery.py
  vpn,        \* its control state
  generation, \* the interface it was started for
  \* bounds
  failures, crashes, storageChanges, adminChanges

world == <<wanted, up, mount, interface, adminDown, stopped>>
jobvars == <<job, child, orphan>>
guardvars == <<blocked, guard, gtodo, gcur, ok, phase, held>>
vpnvars == <<recovery, vpn, generation>>
bounds == <<failures, crashes, storageChanges, adminChanges>>
vars == <<lock, wanted, up, mount, interface, adminDown, stopped, job, child,
          orphan, blocked, guard, gtodo, gcur, ok, phase, held, recovery, vpn,
          generation, failures, crashes, storageChanges, adminChanges>>

-----------------------------------------------------------------------------
Holders == {"free", "job", "guard", "vpn", "gate", "request"}
Phases == {"checking", "ready", "degraded", "stopping", "paused", "restarting",
           "attention"}
GuardStates == {"idle", "lockStop", "visit", "down", "await", "lockStart",
                "start", "raised"}
VpnStates == {"idle", "lock", "check", "down", "await", "restart", "restore",
              "observe", "raised"}

Flags ==
  child \in BOOLEAN /\ orphan \in BOOLEAN /\ blocked \in BOOLEAN /\ ok \in BOOLEAN

TypeOK ==
  /\ Flags
  /\ lock \in Holders
  /\ wanted \in SUBSET Services
  /\ up \in [Services -> {"down", "starting", "up"}]
  /\ mount \in {"ok", "io", "changed"}
  /\ interface \in Nat
  /\ adminDown \in SUBSET Services /\ stopped \in SUBSET Services
  /\ job \in {"idle", "queued", "probe", "running"}
  /\ guard \in GuardStates
  /\ gtodo \in SUBSET Services /\ gcur \in SUBSET Services
  /\ phase \in Phases /\ held \in SUBSET Services
  /\ recovery \in [interface : Nat,
                   phase : {"none", "initial", "reconnecting", "reconnected", "failed"}]
  /\ vpn \in VpnStates /\ generation \in Nat
  /\ failures \in Nat /\ crashes \in Nat
  /\ storageChanges \in Nat /\ adminChanges \in Nat

\* The container has started its services; nothing has been recorded yet.
Init ==
  /\ lock = "free"
  /\ wanted = Services /\ up = [s \in Services |-> "down"]
  /\ mount = "ok" /\ interface = 1
  /\ adminDown = {} /\ stopped = {}
  /\ job = "idle" /\ child = FALSE /\ orphan = FALSE
  /\ blocked = TRUE /\ guard = "idle" /\ gtodo = {} /\ gcur = {}
  /\ ok = FALSE /\ phase = "checking" /\ held = {}
  /\ recovery = [interface |-> 0, phase |-> "none"]
  /\ vpn = "idle" /\ generation = 0
  /\ failures = 0 /\ crashes = 0 /\ storageChanges = 0 /\ adminChanges = 0

Disturbances == failures + crashes + adminChanges

Take(p) == lock = "free" /\ lock' = p
Release(p) == lock' = IF lock = p THEN "free" ELSE lock

-----------------------------------------------------------------------------
(* The exclusive maintenance job: dispatch, execute, run_process *)

DispatchJob ==
  /\ job = "idle" /\ ~blocked
  /\ job' = "queued"
  /\ UNCHANGED <<lock, world, child, orphan, guardvars, vpnvars, bounds>>

\* The lock is tried once.  Configuration and downloads then probe the
\* downloader; requests and routing run at once.
TryLock ==
  /\ job = "queued"
  /\ \/ /\ Take("job") /\ job' = "probe" /\ UNCHANGED child
     \/ /\ Take("job") /\ job' = "running" /\ child' = TRUE
     \/ /\ lock # "free" /\ job' = "idle" /\ UNCHANGED <<lock, child>>
  /\ UNCHANGED <<world, orphan, guardvars, vpnvars, bounds>>

Probe ==
  /\ job = "probe"
  /\ \/ /\ up[Downloader] = "up"
        /\ job' = "running" /\ child' = TRUE /\ UNCHANGED lock
     \/ /\ up[Downloader] # "up"
        /\ job' = "idle" /\ Release("job") /\ UNCHANGED child
  /\ UNCHANGED <<world, orphan, guardvars, vpnvars, bounds>>

\* Fault: the lock is released at the job's timeout, before its process ended.
EndJobEarly ==
  /\ job = "running"
  /\ \/ job' = "idle" /\ child' = FALSE /\ Release("job") /\ UNCHANGED orphan
     \/ job' = "idle" /\ child' = FALSE /\ Release("job") /\ orphan' = TRUE
  /\ UNCHANGED <<world, guardvars, vpnvars, bounds>>

\* The process has ended, by itself or killed at its timeout, before the lock is.
EndJob ==
  /\ job = "running"
  /\ job' = "idle" /\ child' = FALSE /\ Release("job")
  /\ UNCHANGED <<world, orphan, guardvars, vpnvars, bounds>>

\* A mutation process in its own session outlives its controller.
OrphanEnds ==
  /\ orphan /\ orphan' = FALSE
  /\ UNCHANGED <<lock, world, job, child, guardvars, vpnvars, bounds>>

\* The controller dies and s6 starts it again: its threads and locks are gone,
\* the guard's state is what storage.json says.
CrashController ==
  /\ Disturbances < MaxDisturbances
  /\ crashes' = crashes + 1
  /\ lock' = IF lock \in {"job", "guard"} THEN "free" ELSE lock
  /\ job' = "idle" /\ child' = FALSE
  /\ orphan' = (orphan \/ child)
  /\ guard' = "idle" /\ gtodo' = {} /\ gcur' = {} /\ blocked' = ~ok
  /\ UNCHANGED <<world, ok, phase, held, vpnvars, failures, storageChanges,
                 adminChanges>>

-----------------------------------------------------------------------------
(* The storage guard: poll and check *)

\* A report that is not a confirmed mount change suspends maintenance only.
ReportFailure ==
  /\ guard = "idle" /\ mount = "io"
  /\ blocked' = TRUE /\ ok' = FALSE
  /\ phase' = IF held # {} THEN "paused" ELSE "degraded"
  /\ UNCHANGED <<lock, world, jobvars, guard, gtodo, gcur, held, vpnvars, bounds>>

ReportMountChanged ==
  /\ guard = "idle" /\ mount = "changed"
  /\ blocked' = TRUE /\ ok' = FALSE /\ phase' = "stopping"
  /\ guard' = "lockStop"
  /\ UNCHANGED <<lock, world, jobvars, gtodo, gcur, held, vpnvars, bounds>>

ReportReady ==
  /\ guard = "idle" /\ mount = "ok"
  /\ \/ /\ blocked
        /\ guard' = "lockStart" /\ UNCHANGED <<ok, phase>>
     \/ /\ ~blocked
        /\ ok' = TRUE /\ phase' = "ready" /\ UNCHANGED guard
  /\ UNCHANGED <<lock, world, jobvars, blocked, gtodo, gcur, held, vpnvars, bounds>>

LockToStop ==
  /\ guard = "lockStop" /\ Take("guard")
  /\ guard' = "visit" /\ gtodo' = Services
  /\ UNCHANGED <<world, jobvars, blocked, gcur, ok, phase, held, vpnvars, bounds>>

\* Fault: every service is held, wanted or not.
VisitUnwanted(s) ==
  /\ guard = "visit" /\ s \in gtodo
  /\ gtodo' = gtodo \ {s}
  /\ \/ s \notin held /\ held' = held \cup {s} /\ gcur' = {s} /\ guard' = "down"
     \/ s \in held /\ UNCHANGED <<held, gcur, guard>>
  /\ UNCHANGED <<lock, world, jobvars, blocked, ok, phase, vpnvars, bounds>>
\* Fault: what is held is not on record until all of it is down.
VisitUnrecorded(s) ==
  /\ guard = "visit" /\ s \in gtodo
  /\ gtodo' = gtodo \ {s}
  /\ \/ s \notin held /\ s \in wanted /\ gcur' = {s} /\ guard' = "down"
     \/ (s \in held \/ s \notin wanted) /\ UNCHANGED <<gcur, guard>>
  /\ UNCHANGED <<lock, world, jobvars, blocked, ok, phase, held, vpnvars, bounds>>
\* Fault: the command to stop is missed.
StopHeldMissed ==
  /\ guard = "down" /\ gcur' = {} /\ guard' = "visit"
  /\ UNCHANGED <<lock, world, jobvars, blocked, gtodo, ok, phase, held, vpnvars,
                 bounds>>

\* A wanted service that is not held is recorded as held, then told to stop.
Visit(s) ==
  /\ guard = "visit" /\ s \in gtodo
  /\ gtodo' = gtodo \ {s}
  /\ \/ /\ s \notin held /\ s \in wanted
        /\ held' = held \cup {s} /\ gcur' = {s} /\ guard' = "down"
     \/ /\ s \in held \/ s \notin wanted
        /\ UNCHANGED <<held, gcur, guard>>
  /\ UNCHANGED <<lock, world, jobvars, blocked, ok, phase, vpnvars, bounds>>

StopHeld ==
  /\ guard = "down"
  /\ wanted' = wanted \ gcur /\ stopped' = stopped \cup gcur
  /\ gcur' = {} /\ guard' = "visit"
  /\ UNCHANGED <<lock, up, mount, interface, adminDown, jobvars, blocked, gtodo, ok,
                 phase, held, vpnvars, bounds>>

\* s6-svwait for each held service, then the hold is confirmed.
VisitedAll ==
  /\ guard = "visit" /\ gtodo = {}
  /\ guard' = "await"
  /\ UNCHANGED <<lock, world, jobvars, blocked, gtodo, gcur, ok, phase, held,
                 vpnvars, bounds>>

ConfirmStopped ==
  /\ guard = "await" /\ \A s \in held : up[s] = "down"
  /\ phase' = "paused" /\ guard' = "idle" /\ Release("guard")
  /\ UNCHANGED <<world, jobvars, blocked, gtodo, gcur, ok, held, vpnvars, bounds>>

LockToStart ==
  /\ guard = "lockStart" /\ Take("guard")
  /\ guard' = "start" /\ gtodo' = held
  /\ UNCHANGED <<world, jobvars, blocked, gcur, ok, phase, held, vpnvars, bounds>>

StartHeld(s) ==
  /\ guard = "start" /\ s \in gtodo
  /\ wanted' = wanted \cup {s} /\ stopped' = stopped \ {s}
  /\ gtodo' = gtodo \ {s}
  /\ UNCHANGED <<lock, up, mount, interface, adminDown, jobvars, blocked, guard,
                 gcur, ok, phase, held, vpnvars, bounds>>

\* Fault: the released services stay on record.
StartedAllRecorded ==
  /\ guard = "start" /\ gtodo = {}
  /\ ok' = TRUE /\ phase' = "restarting" /\ blocked' = FALSE
  /\ guard' = "idle" /\ Release("guard")
  /\ UNCHANGED <<world, jobvars, gtodo, gcur, held, vpnvars, bounds>>

StartedAll ==
  /\ guard = "start" /\ gtodo = {}
  /\ ok' = TRUE /\ phase' = "restarting" /\ held' = {} /\ blocked' = FALSE
  /\ guard' = "idle" /\ Release("guard")
  /\ UNCHANGED <<world, jobvars, gtodo, gcur, vpnvars, bounds>>

\* A command of the check fails or times out, with or without its effect.
CommandFails ==
  /\ guard \in {"visit", "down", "start"} /\ Disturbances < MaxDisturbances
  /\ failures' = failures + 1
  /\ \/ guard = "down" /\ wanted' = wanted \ gcur /\ stopped' = stopped \cup gcur
     \/ \E s \in gtodo :
          guard = "start" /\ wanted' = wanted \cup {s} /\ stopped' = stopped \ {s}
     \/ UNCHANGED <<wanted, stopped>>
  /\ guard' = "raised" /\ gtodo' = {} /\ gcur' = {} /\ Release("guard")
  /\ UNCHANGED <<up, mount, interface, adminDown, jobvars, blocked, ok, phase,
                 held, vpnvars, crashes, storageChanges, adminChanges>>

\* A held service is not down within its twenty seconds.
NotDownInTime ==
  /\ guard = "await" /\ \E s \in held : up[s] # "down"
  /\ guard' = "raised" /\ gtodo' = {} /\ gcur' = {} /\ Release("guard")
  /\ UNCHANGED <<world, jobvars, blocked, ok, phase, held, vpnvars, bounds>>

\* poll meets the exception of the check.
Attention ==
  /\ guard = "raised"
  /\ guard' = "idle" /\ blocked' = TRUE /\ ok' = FALSE /\ phase' = "attention"
  /\ UNCHANGED <<lock, world, jobvars, gtodo, gcur, held, vpnvars, bounds>>

-----------------------------------------------------------------------------
(* vpn_recovery.py, run once for every tunnel the WireGuard service brings up *)

StartRecovery ==
  /\ vpn = "idle" /\ generation # interface
  /\ generation' = interface
  /\ \/ /\ recovery.interface = interface /\ UNCHANGED <<vpn, recovery>>
     \/ /\ recovery.phase = "none" /\ UNCHANGED vpn
        /\ recovery' = [interface |-> interface, phase |-> "initial"]
     \/ /\ recovery.phase # "none" /\ recovery.interface # interface
        /\ vpn' = "lock" /\ UNCHANGED recovery
  /\ UNCHANGED <<lock, world, jobvars, guardvars, bounds>>

RecoveryLocks ==
  /\ vpn = "lock" /\ Take("vpn")
  /\ vpn' = "check"
  /\ UNCHANGED <<world, jobvars, guardvars, recovery, generation, bounds>>

\* Fault: the downloader is restarted whatever its wanted state.
CheckWantedNever ==
  /\ vpn = "check" /\ vpn' = "down"
  /\ recovery' = [interface |-> generation, phase |-> "reconnecting"]
  /\ UNCHANGED <<lock, world, jobvars, guardvars, generation, bounds>>

\* A downloader that is not wanted up was stopped by somebody else.
CheckWanted ==
  /\ vpn = "check"
  /\ \/ /\ Downloader \notin wanted
        /\ vpn' = "idle" /\ Release("vpn") /\ UNCHANGED recovery
     \/ /\ Downloader \in wanted
        /\ vpn' = "down" /\ UNCHANGED lock
        /\ recovery' = [interface |-> generation, phase |-> "reconnecting"]
  /\ UNCHANGED <<world, jobvars, guardvars, generation, bounds>>

StopDownloader ==
  /\ vpn = "down"
  /\ wanted' = wanted \ {Downloader} /\ vpn' = "await"
  /\ UNCHANGED <<lock, up, mount, interface, adminDown, stopped, jobvars, guardvars,
                 recovery, generation, bounds>>

\* Fault: a downloader that was not down in time is not started again.
AwaitDownOnly ==
  /\ vpn = "await"
  /\ \/ up[Downloader] = "down" /\ vpn' = "restart" /\ UNCHANGED lock
     \/ up[Downloader] # "down" /\ vpn' = "raised" /\ Release("vpn")
  /\ UNCHANGED <<world, jobvars, guardvars, recovery, generation, bounds>>

\* Down; or not within twenty seconds, and s6-svwait raises.
AwaitDown ==
  /\ vpn = "await"
  /\ vpn' = IF up[Downloader] = "down" THEN "restart" ELSE "restore"
  /\ UNCHANGED <<lock, world, jobvars, guardvars, recovery, generation, bounds>>

\* The finally: started again either way, and the lock is left.  An exception of
\* s6-svwait goes on from there.
RestartDownloader ==
  /\ vpn \in {"restart", "restore"}
  /\ wanted' = wanted \cup {Downloader}
  /\ adminDown' = adminDown \ {Downloader} /\ stopped' = stopped \ {Downloader}
  /\ vpn' = IF vpn = "restart" THEN "observe" ELSE "raised"
  /\ Release("vpn")
  /\ UNCHANGED <<up, mount, interface, jobvars, guardvars, recovery, generation,
                 bounds>>

\* A command fails or times out, with or without its effect; a stop that did not
\* return is not followed by a start.  The lock is left before the record says so.
RecoveryRaises ==
  /\ vpn \in {"check", "down", "restart", "restore"}
  /\ Disturbances < MaxDisturbances /\ failures' = failures + 1
  /\ \/ vpn = "down" /\ wanted' = wanted \ {Downloader}
     \/ vpn \in {"restart", "restore"} /\ wanted' = wanted \cup {Downloader}
     \/ UNCHANGED wanted
  /\ adminDown' = adminDown \ wanted' /\ stopped' = stopped \ wanted'
  /\ vpn' = "raised" /\ Release("vpn")
  /\ UNCHANGED <<up, mount, interface, jobvars, guardvars, recovery, generation,
                 crashes, storageChanges, adminChanges>>

RecordFailure ==
  /\ vpn = "raised" /\ vpn' = "idle"
  /\ recovery' = [interface |-> generation, phase |-> "failed"]
  /\ UNCHANGED <<lock, world, jobvars, guardvars, generation, bounds>>

\* The script dies between two of its steps; the record stays as it is.
RecoveryDies ==
  /\ vpn # "idle" /\ Disturbances < MaxDisturbances
  /\ failures' = failures + 1
  /\ vpn' = "idle" /\ Release("vpn")
  /\ UNCHANGED <<world, jobvars, guardvars, recovery, generation, crashes,
                 storageChanges, adminChanges>>

\* The downloader answers, or has not within twenty seconds.
ObserveRestart ==
  /\ vpn = "observe"
  /\ vpn' = "idle"
  /\ recovery' = [recovery EXCEPT !.phase =
                    IF up[Downloader] = "up" THEN "reconnected" ELSE "failed"]
  /\ UNCHANGED <<lock, world, jobvars, guardvars, generation, bounds>>

-----------------------------------------------------------------------------
(* The downloader's startup gate, and the requests of the setup server *)

GateLocks ==
  /\ up[Downloader] = "starting" /\ Take("gate")
  /\ UNCHANGED <<world, jobvars, guardvars, vpnvars, bounds>>

\* Automatic importing verified off in every application: exec the downloader.
GateOpens ==
  /\ lock = "gate" /\ \A s \in Arrs : up[s] = "up"
  /\ up' = [up EXCEPT ![Downloader] = "up"] /\ Release("gate")
  /\ UNCHANGED <<wanted, mount, interface, adminDown, stopped, jobvars, guardvars,
                 vpnvars, bounds>>

\* An application did not answer: try again in a second.
GateRetries ==
  /\ lock = "gate" /\ \E s \in Arrs : up[s] # "up"
  /\ Release("gate")
  /\ UNCHANGED <<world, jobvars, guardvars, vpnvars, bounds>>

RequestLocks ==
  /\ Take("request")
  /\ UNCHANGED <<world, jobvars, guardvars, vpnvars, bounds>>

RequestEnds ==
  /\ lock = "request" /\ Release("request")
  /\ UNCHANGED <<world, jobvars, guardvars, vpnvars, bounds>>

-----------------------------------------------------------------------------
(* s6, the storage, the tunnel and administrators (external) *)

Starts(s) ==
  /\ s \in wanted /\ up[s] = "down"
  /\ up' = [up EXCEPT ![s] = IF s = Downloader THEN "starting" ELSE "up"]
  /\ UNCHANGED <<lock, wanted, mount, interface, adminDown, stopped, jobvars, guardvars,
                 vpnvars, bounds>>

\* A service stops: told to, or (while it is wanted) by failing.
Stops(s) ==
  /\ s \notin wanted /\ up[s] # "down"
  /\ up' = [up EXCEPT ![s] = "down"]
  /\ IF s = Downloader THEN Release("gate") ELSE UNCHANGED lock
  /\ UNCHANGED <<wanted, mount, interface, adminDown, stopped, jobvars, guardvars,
                 vpnvars, bounds>>

Fails(s) ==
  /\ s \in wanted /\ up[s] # "down" /\ Disturbances < MaxDisturbances
  /\ failures' = failures + 1
  /\ up' = [up EXCEPT ![s] = "down"]
  /\ IF s = Downloader THEN Release("gate") ELSE UNCHANGED lock
  /\ UNCHANGED <<wanted, mount, interface, adminDown, stopped, jobvars, guardvars,
                 vpnvars, crashes, storageChanges, adminChanges>>

StorageChanges ==
  /\ storageChanges < MaxStorage
  /\ storageChanges' = storageChanges + 1
  /\ mount' \in {"ok", "io", "changed"} \ {mount}
  /\ UNCHANGED <<lock, wanted, up, interface, adminDown, stopped, jobvars, guardvars,
                 vpnvars, failures, crashes, adminChanges>>

ReplaceInterface ==
  /\ interface <= MaxReplacements /\ vpn = "idle"
  /\ interface' = interface + 1
  /\ UNCHANGED <<lock, wanted, up, mount, adminDown, stopped, jobvars, guardvars,
                 vpnvars, bounds>>

AdminChanges(s) ==
  /\ Disturbances < MaxDisturbances
  /\ adminChanges' = adminChanges + 1
  /\ \/ /\ s \in wanted
        /\ wanted' = wanted \ {s} /\ adminDown' = adminDown \cup ({s} \ held)
     \/ /\ wanted' = wanted \cup {s} /\ adminDown' = adminDown \ {s}
  /\ stopped' = stopped \ wanted'
  /\ UNCHANGED <<lock, up, mount, interface, jobvars, guardvars, vpnvars, failures,
                 crashes, storageChanges>>

-----------------------------------------------------------------------------
JobStep == DispatchJob \/ TryLock \/ Probe \/ EndJob \/ OrphanEnds

GuardStep ==
  \/ ReportFailure \/ ReportMountChanged \/ ReportReady
  \/ LockToStop \/ StopHeld \/ VisitedAll \/ ConfirmStopped
  \/ LockToStart \/ StartedAll \/ Attention
  \/ \E s \in Services : Visit(s) \/ StartHeld(s)

VpnStep ==
  \/ StartRecovery \/ RecoveryLocks \/ CheckWanted \/ StopDownloader \/ AwaitDown
  \/ RestartDownloader \/ ObserveRestart \/ RecordFailure

GateStep == GateLocks \/ GateOpens \/ GateRetries

External ==
  \/ \E s \in Services : Starts(s) \/ Stops(s) \/ Fails(s) \/ AdminChanges(s)
  \/ StorageChanges \/ ReplaceInterface

Next ==
  \/ JobStep \/ GuardStep \/ CommandFails \/ NotDownInTime \/ CrashController
  \/ VpnStep \/ RecoveryRaises \/ RecoveryDies \/ GateStep
  \/ RequestLocks \/ RequestEnds \/ External

\* Every process goes on; a lock that is free again and again is got by whoever
\* waits for it (blocking flock) or keeps asking (the gate, every second).
Fairness ==
  /\ WF_vars(JobStep) /\ WF_vars(RequestEnds)
  /\ WF_vars(GuardStep) /\ SF_vars(LockToStop) /\ SF_vars(LockToStart)
  /\ WF_vars(NotDownInTime)
  /\ WF_vars(VpnStep) /\ SF_vars(RecoveryLocks)
  /\ SF_vars(GateLocks) /\ WF_vars(GateOpens) /\ WF_vars(GateRetries)
  /\ \A s \in Services : WF_vars(Starts(s)) /\ WF_vars(Stops(s))

Spec == Init /\ [][Next]_vars
FairSpec == Spec /\ Fairness

-----------------------------------------------------------------------------
(* Properties *)

\* Who is changing the applications right now, a job's process that outlived
\* its controller included.
Mutators ==
  {m \in {"job", "orphan", "guard", "vpn", "gate", "request"} :
     \/ m = "job" /\ child
     \/ m = "orphan" /\ orphan
     \/ m = "guard" /\ guard \in {"visit", "down", "await", "start"}
     \/ m = "vpn" /\ vpn \in {"check", "down", "await", "restart", "restore"}
     \/ m \in {"gate", "request"} /\ lock = m}

Undisturbed == failures = 0 /\ crashes = 0 /\ adminChanges = 0

\* At most one process changes the applications: the whole mutation job finishes
\* or is stopped before its caller releases the lock (pompey_runtime.run_process),
\* and every other holder keeps it to its end.  A controller that dies leaves at
\* most its job's process beside the next holder, never two holders.
MutationsAreExclusive ==
  \A m, n \in Mutators : m = n \/ (crashes > 0 /\ "orphan" \in {m, n})

\* What StackLock sees of the holders of the lock.
Lock == INSTANCE StackLock
  WITH Processes <- Holders \ {"free"}, owner <- lock,
       changing <- Mutators \ {"orphan"},
       strays <- (IF orphan THEN {"job"} ELSE {}), deaths <- crashes

\* The lock is used as StackLock promises: jobs, guard, recovery, gate and requests
\* change applications only while they own it, each is done with them when it lets
\* go, by whichever early return or exception, and only a death of the controller
\* leaves a stray.
LockIsKept == Lock!Spec

\* Nobody but the guard or an administrator starts a service that the guard has
\* stopped for a replaced mount, whatever command failed and whoever died: the
\* recovery of the downloader looks at the wanted state under the lock and keeps it
\* until it has started the downloader again (vpn_recovery.main), so it never undoes
\* a hold, whenever it or the hold began.
HoldsStand ==
  [][stopped \cap wanted' # {} => guard = "start" \/ adminChanges' > adminChanges]_vars

\* "Previously held applications remain stopped": whenever storage.json says
\* paused, s6 keeps every held service down, unless an administrator started it.
PausedMeansStopped ==
  phase = "paused" /\ adminChanges = 0 /\ guard \notin {"start", "raised"}
     => held \cap wanted = {}

\* The same, as long as no command failed and the controller did not die either.
PauseIsKept == Undisturbed => PausedMeansStopped

\* Whatever fails or dies, the recovery and the controller included, a service
\* that s6 is told to keep down is on the guard's record, which starts it again, or
\* it is the downloader and the recovery's record says "reconnecting" or "failed",
\* and not that it has come back; unless an administrator interfered.  Each record is
\* on disk before the stop it answers for (storage_guard.py:64-66,
\* vpn_recovery.py:31-34) and goes only after the start.  Who reads "failed" is told
\* (pompey_controller.py:231-232); "reconnecting" may stay for good when the recovery
\* dies between the stop and the start, and then nothing but an administrator starts
\* the downloader: every later recovery finds it unwanted (lines 28-30).
StoppedIsOnRecord ==
  adminChanges = 0 =>
    \A s \in Services \ wanted :
      \/ s \in held
      \/ s = Downloader /\ recovery.phase \in {"reconnecting", "failed"}

\* "Restored storage releases only the applications Pompey held", and "Do not
\* change a service that another administrator/policy deliberately stopped": a
\* service that an administrator stopped while it was not held is started by an
\* administrator only, unless the stop fell between the recovery's check of the
\* downloader and its restart (vpn_recovery.py:28, 39), which undoes it.
AdminStopsStand ==
  [][\A s \in adminDown \cap (wanted' \ wanted) :
       \/ adminChanges' > adminChanges
       \/ s = Downloader /\ vpn \in {"down", "await", "restart", "restore"}]_vars

\* Once the storage stays sound, the hold ends: maintenance resumes and every
\* held service has been released (StorageGuard.check, after every failure and
\* restart of the controller).
HoldsEnd == <>[](mount = "ok") => <>[](~blocked /\ held = {})

\* Once the storage stays sound, the downloader keeps coming back, through every
\* hold, interface replacement, death of the controller and startup gate that
\* needs the same lock, unless a command fails, the recovery dies, or an
\* administrator interferes.
DownloaderReturns ==
  <>[](mount = "ok") /\ [](failures = 0 /\ adminChanges = 0)
     => []<>(up[Downloader] = "up")
=============================================================================
