---------------------------- MODULE JobScheduler ----------------------------
(***************************************************************************)
(* The controller's maintenance jobs (pompey_controller): which due job is *)
(* dispatched, the thread that executes it under the stack lock, and the   *)
(* readiness markers that the configuration job (wire_stack.main) removes  *)
(* and sets again while it wires the applications.                         *)
(*                                                                         *)
(* All four jobs are exclusive.  Due times are floats and only their order *)
(* matters: "order" lists the due jobs, the one due longest first.  An     *)
(* interval or a retry delay is a job that rests until BecomeDue.          *)
(***************************************************************************)
EXTENDS Naturals, Sequences

CONSTANTS
  OutagesEnd,       \* does the downloader come back from every outage?
  MaxDisturbances   \* bound: failures, outages, health samples, other lock holders

ASSUME SchedulerAssumption == OutagesEnd \in BOOLEAN /\ MaxDisturbances \in Nat

Config == "configuration"
Routine == {"downloads", "requests", "routing"}
Jobs == {Config} \cup Routine
Probing == {Config, "downloads"}

VARIABLES
  order,    \* the due jobs, the one due longest first
  future,   \* state of a job's future in the thread pool
  lock,     \* owner of stack.lock: a job, another process or nobody
  wired,    \* routine jobs whose readiness marker exists
  wiring,   \* what the running configuration does next
  blocked,  \* StorageGuard.blocked
  online,   \* does the downloader answer?
  disturbances

vars == <<order, future, lock, wired, wiring, blocked, online, disturbances>>

FutureStates == {"none", "queued", "running", "succeeded", "waits", "raised"}
WiringSteps == {"none", "unwire", "reach", "downloads", "routing", "requests", "finish"}

Due == {order[i] : i \in 1..Len(order)}
InFlight == {j \in Jobs : future[j] # "none"}

TypeOK ==
  /\ order \in Seq(Jobs) /\ \A i, k \in 1..Len(order) : order[i] = order[k] => i = k
  /\ future \in [Jobs -> FutureStates]
  /\ lock \in Jobs \cup {"free", "other"}
  /\ wired \in SUBSET Routine
  /\ wiring \in WiringSteps
  /\ blocked \in BOOLEAN /\ online \in BOOLEAN /\ disturbances \in Nat

\* The controller has started: everything is due, configuration first.
Init ==
  /\ order \in {<<Config, a, b, c>> : a, b, c \in Routine}
  /\ \A i, k \in 1..4 : order[i] = order[k] => i = k
  /\ future = [j \in Jobs |-> "none"]
  /\ lock = "free" /\ wired = {} /\ wiring = "none"
  /\ blocked = FALSE /\ online = FALSE /\ disturbances = 0

Disturb == disturbances < MaxDisturbances /\ disturbances' = disturbances + 1

-----------------------------------------------------------------------------
(* The controller's loop *)

Candidates == {Config} \cup wired
Busy == InFlight \cap Candidates # {}

\* Fault: only a job that has the lock counts as busy.
DispatchWhileQueued ==
  /\ ~blocked /\ \A j \in Candidates : future[j] # "running"
  /\ \E j \in Due \cap Candidates :
       future[j] = "none" /\ future' = [future EXCEPT ![j] = "queued"]
  /\ UNCHANGED <<order, lock, wired, wiring, blocked, online, disturbances>>

\* One exclusive job at a time: the candidate that is due longest.
Dispatch ==
  /\ ~blocked /\ ~Busy
  /\ \E i \in 1..Len(order) :
       /\ order[i] \in Candidates \ InFlight
       /\ \A k \in 1..(i - 1) : order[k] \notin Candidates \ InFlight
       /\ future' = [future EXCEPT ![order[i]] = "queued"]
  /\ UNCHANGED <<order, lock, wired, wiring, blocked, online, disturbances>>

Without(j) == SelectSeq(order, LAMBDA k : k # j)

\* Fault: a completed job keeps its due time.
ReapUndated(j) ==
  /\ future[j] \in {"succeeded", "waits", "raised"}
  /\ future' = [future EXCEPT ![j] = "none"]
  /\ UNCHANGED <<order, lock, wired, wiring, blocked, online, disturbances>>

\* Completed or failed: due again later.  Waiting is not a failed operation: a
\* job that did not get the lock or its downloader stays due.
Reap(j) ==
  /\ \/ /\ future[j] \in {"succeeded", "raised"}
        /\ order' = Without(j)
     \/ future[j] = "waits" /\ UNCHANGED order
  /\ future' = [future EXCEPT ![j] = "none"]
  /\ UNCHANGED <<lock, wired, wiring, blocked, online, disturbances>>

\* A rest is an interval or a retry delay, so any resting job may be next.
BecomeDue(j) ==
  /\ j \notin Due
  /\ order' = Append(order, j)
  /\ UNCHANGED <<future, lock, wired, wiring, blocked, online, disturbances>>

\* A health sample sees a service appear: configuration is due at once.
ServiceAppears ==
  /\ Disturb
  /\ order' = <<Config>> \o Without(Config)
  /\ UNCHANGED <<future, lock, wired, wiring, blocked, online>>

-----------------------------------------------------------------------------
(* execute: a thread of the pool *)

Answer(j, state) == future' = [future EXCEPT ![j] = state]

\* The lock is tried once; configuration and downloads probe the downloader once.
LockBusy(j) ==
  /\ future[j] = "queued" /\ lock # "free"
  /\ Answer(j, "waits")
  /\ UNCHANGED <<order, lock, wired, wiring, blocked, online, disturbances>>

ProbeFails(j) ==
  /\ future[j] = "queued" /\ lock = "free" /\ j \in Probing /\ ~online
  /\ Answer(j, "waits")
  /\ UNCHANGED <<order, lock, wired, wiring, blocked, online, disturbances>>

Start(j) ==
  /\ future[j] = "queued" /\ lock = "free" /\ (j \in Probing => online)
  /\ lock' = j
  /\ wiring' = IF j = Config THEN "unwire" ELSE wiring
  /\ Answer(j, "running")
  /\ UNCHANGED <<order, wired, blocked, online, disturbances>>

\* The process has ended; the lock is released before the future is done.
End(j, state) ==
  /\ future[j] = "running"
  /\ lock' = "free" /\ wiring' = IF j = Config THEN "none" ELSE wiring
  /\ Answer(j, state)
  /\ UNCHANGED <<order, wired, blocked, online>>

Succeed(j) ==
  (j = Config => wiring = "finish") /\ End(j, "succeeded") /\ UNCHANGED disturbances

\* A job that raises, or is stopped at its timeout.
Fail(j) == Disturb /\ End(j, "raised")

\* Configuration gives up on a downloader that went away after the probe.
Unreached == wiring = "reach" /\ ~online /\ End(Config, "raised") /\ UNCHANGED disturbances

-----------------------------------------------------------------------------
(* wire_stack.main: all markers are removed, then set one by one *)

Wires(step, next, markers) ==
  /\ future[Config] = "running" /\ wiring = step
  /\ wiring' = next /\ wired' = markers
  /\ UNCHANGED <<order, future, lock, blocked, online>>

Wired(step, next, markers) == Wires(step, next, markers) /\ UNCHANGED disturbances

Unwire == Wired("unwire", "reach", {})
ReachDownloader == online /\ Wired("reach", "downloads", wired)
WireDownloads == Wired("downloads", "routing", wired \cup {"downloads"})
WireRoots == Wired("routing", "requests", wired \cup {"routing"})
WireRequests == Wired("requests", "finish", wired \cup {"requests"})

\* The request service is not set up yet: no marker, and no error.
RequestsNotReady == Disturb /\ Wires("requests", "finish", wired)

-----------------------------------------------------------------------------
(* The storage guard, the other users of the lock, the downloader (external) *)

GuardBlocks ==
  /\ Disturb /\ ~blocked /\ blocked' = TRUE
  /\ UNCHANGED <<order, future, lock, wired, wiring, online>>

GuardReleases ==
  /\ blocked /\ blocked' = FALSE
  /\ UNCHANGED <<order, future, lock, wired, wiring, online, disturbances>>

OtherLocks ==
  /\ Disturb /\ lock = "free" /\ lock' = "other"
  /\ UNCHANGED <<order, future, wired, wiring, blocked, online>>

OtherUnlocks ==
  /\ lock = "other" /\ lock' = "free"
  /\ UNCHANGED <<order, future, wired, wiring, blocked, online, disturbances>>

DownloaderStops ==
  /\ Disturb /\ online /\ online' = FALSE
  /\ UNCHANGED <<order, future, lock, wired, wiring, blocked>>

DownloaderReturns ==
  /\ ~online /\ online' = TRUE
  /\ UNCHANGED <<order, future, lock, wired, wiring, blocked, disturbances>>

-----------------------------------------------------------------------------
ConfigStep ==
  \/ Unwire \/ ReachDownloader \/ Unreached \/ WireDownloads \/ WireRoots
  \/ WireRequests

ThreadStep(j) == LockBusy(j) \/ ProbeFails(j) \/ Start(j) \/ Succeed(j)

Next ==
  \/ Dispatch \/ ServiceAppears
  \/ \E j \in Jobs : Reap(j) \/ BecomeDue(j) \/ ThreadStep(j) \/ Fail(j)
  \/ ConfigStep \/ RequestsNotReady
  \/ GuardBlocks \/ GuardReleases \/ OtherLocks \/ OtherUnlocks
  \/ DownloaderStops \/ DownloaderReturns

\* The loop runs every second, intervals and retry delays pass, threads and
\* their processes go on, other holders let the lock go, the storage is sound in the
\* end, and so is the downloader if its outages end.
Fairness ==
  /\ \A j \in Jobs : WF_vars(Reap(j)) /\ WF_vars(BecomeDue(j)) /\ WF_vars(ThreadStep(j))
  /\ WF_vars(Dispatch) /\ WF_vars(ConfigStep) /\ WF_vars(OtherUnlocks)
  /\ WF_vars(GuardReleases) /\ WF_vars(OutagesEnd /\ DownloaderReturns)

Spec == Init /\ [][Next]_vars
FairSpec == Spec /\ Fairness

-----------------------------------------------------------------------------
(* Properties *)

\* Two exclusive jobs are never in the pool at once.  "busy" looks only at the
\* candidates, and a job that lost its marker is none: this rests on
\* configuration, the one job that removes markers, being in flight itself.
OneInFlight == \A j, k \in InFlight : j = k

\* A routine job never runs on applications whose wiring has been taken down:
\* its marker stays while it is in the pool, queued or running.
WiredWhileInFlight == InFlight \cap Routine \subseteq wired

\* What StackLock sees of the controller's jobs and the other users of the lock.
Lock == INSTANCE StackLock
  WITH Processes <- Jobs \cup {"other"}, owner <- lock,
       changing <- {j \in Jobs : future[j] = "running"},
       strays <- {}, deaths <- 0

\* The lock is used as StackLock promises: a job runs only while it owns the lock,
\* although it asks just once and the pool may hold another one.
LockIsKept == Lock!Spec

\* Every job runs again and again, however often another one is due first.
JobsKeepRunning == \A j \in Jobs : []<>(future[j] = "running")

\* "They continue retrying after an outage" as separate jobs: once wired,
\* requests and routing, which do not need the downloader, run again and again
\* while it is down.
RoutineJobsRun ==
  \A j \in Routine \ Probing : <>[](j \in wired) => []<>(future[j] = "running")
=============================================================================
