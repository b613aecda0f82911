# Verification of Pompey

Pompey is a Home Assistant app that runs qBittorrent, Prowlarr, Radarr, Sonarr,
Seerr and a WireGuard tunnel in one container under s6, and automates what lies
between them: configuring the applications, handing finished downloads over for
import, moving titles to the library of their rating, recording deliveries,
replacing rejected releases, stopping monitoring when requests go, and stopping
everything that writes when storage is replaced under it.

None of that is a database transaction. Every operation reads an application over
HTTP, decides, asks for a change, and records what it asked in a JSON journal;
the application changes by its own commands in between, the operator changes it
in its native UI, and the job may be killed at any line. The promises of the
README (`src/README.md`) are about exactly this: "Uncertain submissions require
review and are never automatically resubmitted", "Held services restart only
after all checks pass", "Successful delivery is durable", "Interrupted operations
retain their completed steps for review and are never automatically replayed".
The modules here state those promises and check them.

File names below are relative to `src/pompey/rootfs/usr/local/bin/` unless they
begin with `src/` or `services.d/` (`src/pompey/rootfs/etc/services.d/`).

## 1. Inventory

### Components

| Component | Source | State it keeps | Operations |
|---|---|---|---|
| Import hand-over | `pompey_imports.py`, `media_policy.maintain_downloads` | journal `download-imports`: a receipt per torrent (submitting, submitted, review, complete) and its native command | the pass every 30 s: stop finished torrents, close automatic importing, poll, submit, prune, save |
| Stack lock, storage guard, recovery, gate | `pompey_runtime.py`, `storage_guard.py`, `pompey_storage.py`, `vpn_recovery.py`, `pompey_imports.before_downloader` | `stack.lock` (flock), `storage.json` (ok, phase, held), `vpn-recovery.json`, s6's wanted state | run a job under the lock, check storage, hold and release services, restart the downloader, gate its start |
| Controller | `pompey_controller.py`, `wire_stack.main` | due times, futures, health samples, readiness markers | dispatch, execute, reap, wake |
| WireGuard service | `services.d/wireguard/{run,finish}`, `apply-vpn-config`, `vpn_*.py` | saved file, rendered file, kill switch, `wg0`, marker `vpn-up` | apply, bring up, wait for a handshake, watch, restart |
| Release recovery and delivery | `pompey_recovery.py`, `pompey_delivery.py` | release sequences with their attempts, `deliveries.json` | preview, reject, observe the outcome, record deliveries, stop monitoring |
| Library routing | `route_rating.py` | `routing-<label>.json`: owned titles, their paths, a pending move | list, inspect, save intents, ask for moves, observe them |
| Manual imports and notices | `media_policy.py` | `manual-imports`: a receipt per hash and file list, `blocked-imports` | submit once, poll, conclude, observe blocked imports, notify |
| Request closeout | `request_policy.py` | `requests.json`: owned titles, seasons, the Seerr instance | two snapshots, guards, unmonitor, cancel queued searches |
| NAT-PMP port | `services.d/natpmp/run`, `apply-qbit-port` | the leased and the published port, the client's port | renew, publish, tell, withdraw |
| Wiring | `wire_stack.py`, `pompey_common.py` | none of its own but the markers | GET, compare, PUT over five applications |
| Preferences and profiles | `pompey_preferences.py`, `recyclarr_sync.py`, `wire_stack.run_recyclarr` | `preferences`, `preferences-applied`, `profiles` | save, push the queue limit, render, run Recyclarr, record |
| Setup server | `pompey_setup.py`, `pompey_config.py` | the saved WireGuard file | validate and save, start confirmations |
| Diagnostics | `pompey_diagnostics.py`, `pompey_observations.py`, `pompey_report.py`, `pompey_status.py` | observations | read only |
| Generated configuration | `write_engine_configs.py`, `write_debug_ingress.py`, `pompey_hosts.py` | files written before services start | render |
| Dashboard, build tools | `src/pompey/rootfs/usr/share/pompey/`, `src/tools/` | - | outside the running core |

### How they interact

* **The stack lock.** Every process that changes an application holds
  `stack.lock`: the child process of a job, the storage guard, the recovery of the
  downloader, the downloader's own startup gate, and the setup server's requests.
  The downloads pass, the routing pass, the request pass and a rejection therefore
  exclude one another. Nothing excludes the applications themselves.
* **s6.** The guard, the recovery and an administrator set a service's wanted
  state; the service reaches it later. A run script may wait (the gate) before it
  becomes the service.
* **Readiness markers.** Configuration removes the markers of the routine jobs and
  sets each again when what that job needs is wired; `vpn-up` stands for a tunnel
  with a recent handshake.
* **Journals on disk.** Saved whole, by replacing a file; what a pass changes in
  memory is lost if it dies before the save.
* **Native commands.** Imports, moves, refreshes and searches run in the
  application, on objects it read earlier, and end when they like. A POST that
  raised may have been accepted.

### What is hard

1. *Intent, request, acknowledgement*: three separate steps, and a death or a lost
   answer between any two (imports, manual imports, routing, rejections).
2. *Reads that are old when used*: torrent lists, previews, titles as listed, the
   wanted state of a service, the signature of a file.
3. *Evidence before effect*: a receipt saved before monitoring stops, intent saved
   before deletion.
4. *Holds that two parties may undo*: the guard's stop against the recovery's
   restart, the gate that needs the lock its holders wait for.
5. *Progress*: finished downloads are handed over in the end, the guard's hold ends,
   jobs do not starve each other, a title in staging is routed or reported.

`PROJECT.json` lists each of these hazards at its line, with the properties that
catch it or the reason why none does.

### What makes each component correct

* Hand-over: one import per download at a time, one submission per grab, no
  settled receipt over a running import, and every addition of a download that
  finishes submitted, or kept from it by a receipt that waits for review.
* Hold: mutations exclude one another, nobody but the guard or an administrator undoes
  a hold, paused means stopped, what is stopped is on a record that starts it again
  or, of the downloader, says that its reconnection is unfinished; the hold ends, the
  downloader returns.
* Controller: one exclusive job in flight, on applications still wired for it;
  no job starves.
* WireGuard: the marker stands for one tunnel of one configuration; a saved
  configuration is applied.
* NAT-PMP: only a port mapped for both protocols is published, and in the end the
  client listens on a port of the present gateway.
* Preferences: what is called applied is in effect; what is saved arrives.
* Recovery and delivery: only confirmed files deleted, a record that never says more
  than was done and is never taken up again, rejections never forgotten, evidence
  before monitoring stops, retries monitored, confirmations used once.
* Routing: ownership neither lost nor claimed, no move given up half-way, every
  automatic title in its library or reported.
* Manual imports: one submission per hash for all time; every submission ends or is
  in front of the operator; every acceptable download is submitted.
* Closeout: the list acted on misses no standing request and is of the history that
  the titles are owned by; only owned and withdrawn titles are switched off, and those
  are, and the searches of them alone leave the queue.

## 2. Modules

Each component has its module, named below, a module of proofs that extends it
(`<Module>Proofs`; those of Preferences are in JobSchedulerProofs, those of
PortForwarding in VpnServiceProofs), and an `MC<Module>` with the constants of its runs. State
variables are named after the code's state where there is one; a variable that only
a property reads is marked *history* where it is declared. Each module abstracts what its
neighbours do to the part it touches: the hand-over assumes the exclusion that
ServiceHold checks (one pass at a time), ReleaseRecovery models the lock itself
because its two holders are both inside it, JobScheduler sees the guard as `blocked`
and other holders as an owner `other` of the lock. All three that have the lock
implement one abstract lock, so what each assumes of the others is what they keep.

```
SubmitOnce   <-refines- ImportHandoff, ManualImports
StackLock    <-refines- ServiceHold, JobScheduler, ReleaseRecovery
Undertaking  <-refines- ReleaseRecovery
JobScheduler <-extends- Preferences        VpnService <-extends- PortForwarding
LibraryRouting and RequestCloseout stand alone
```

**SubmitOnce** is the abstract promise of both import journals (the comments at
`pompey_imports.py:108-112` and `media_policy.py:168-173`): a request leaves once,
after its intent is on record; no second one leaves while that record stands; no
record completes or goes while a request may be at work. ImportHandoff and
ManualImports each instantiate it with a refinement mapping (`Recorded`,
`Permitted`, `AtWork`: the phases on disk, the intent a pass has just saved, the
commands that live) and have `SubmitsOnce` as a property.

**StackLock** is the abstract promise of `pompey_runtime.stack_lock` and
`run_process` (35-63): only the owner of the lock changes the applications, its whole
mutation is over when it lets go, and the lock passes from owner to owner by being free;
a death frees it at once and may leave a stray behind. ServiceHold maps its five holders
and the orphan of a dead controller to it, JobScheduler the threads of its jobs,
ReleaseRecovery a rejection and a downloads pass (`Lock`, `LockIsKept`).

**Undertaking** is the abstract promise of a rejection to the user who confirmed it
(`pompey_recovery.reject`; `src/README.md:72`): a confirmation begins one operation; the
confirmed files go, then the release is barred from coming back, then a search asks for
another; the record says at each moment no more than what was brought about; the
operation may end anywhere, and once it has ended its record never moves again. In
ReleaseRecovery `Removal` maps the stage on record, the confirmations used, the confirmed
files still in the library, the blocklist and the running rejection to it, and
`RejectsAsConfirmed` is the property.

**ImportHandoff** (`pompey_imports.handoff`, and the part of
`media_policy.maintain_downloads` before it). The pass is a program counter:
`StopAtGoal` (stop finished torrents), `FetchAgain` (the second list), `CloseGate`
(automatic importing off), `PollReceipt`, `Inspect` (queue rows and native
commands), the scan (`ScanKnown`, `ScanSkip`, `ScanFull`), then `SaveIntent`, `Post`,
`SaveAcknowledgement` or `SubmissionFails`, `EndApplication`. `Abort` is any exception
or death: memory is lost, the journal stays. `journal` is the file, `mem` the pass's
copy. qBittorrent, the applications and the operator act between any two steps: a
torrent is grabbed, finishes, stops late, is resumed or removed, and with
`PartialLists` is left out of a list; a command is accepted late, never answered
(`Lose`), imports, fails, or is forgotten (`Expire`). Abstracted: list and queue rows
to what the pass decides on, the history lookup to how many titles it names, paths to
whether the payload exists.

**ManualImports** (`media_policy.manual_imports`, `check_receipts`,
`observe_blocked_imports`, `attention`). The rest of the same pass, with its own
journal: `PollReceipt` or `PollFails` for each command, `Consider` a stopped
download, `Ask` Radarr and then Sonarr which files they accept (`AskNext`), save the
intent and `Post`, `SaveAcknowledgement` or `SaveWithoutCommand`, and `Observe` each
queue. Commands may say completed with files left (`Finish`), vanish (`Expire`), or
never answer; the operator takes files by hand, resumes, removes and adds again; a day
and five minutes pass. Abstracted: the matching of rows to movies and episodes, to the
files an application accepts.

**ServiceHold** (`pompey_runtime.stack_lock` and `run_process`,
`pompey_controller.execute`, `storage_guard.StorageGuard.check`,
`vpn_recovery.main`, `pompey_imports.before_downloader`). One program counter per
process and the lock's owner. The guard's check is `Report*`, `LockToStop`,
`Visit`, `StopHeld`, `ConfirmStopped`, `LockToStart`, `StartHeld`, `StartedAll`,
with every way it raises. `CrashController` frees the lock while the job's process
lives on as `orphan`. The recovery records "reconnecting" before it stops the
downloader, under the lock, and its outcome after it has let the lock go: a command that
fails (`RecoveryRaises`) is on record one step later (`RecordFailure`), and the script may
die at any of its steps (`RecoveryDies`). Two history variables say who stopped a service: `stopped` by the
guard, `adminDown` by an administrator. A storage report has three outcomes: sound, inconclusive,
replaced mount.

**JobScheduler** (`pompey_controller.main`, `execute`, completion;
`wire_stack.main`'s markers). Due times are floats of which only the order counts,
so the due jobs are a sequence; an interval or retry delay is the time before
`BecomeDue`. `Answer` gives what `execute` returned: done, only waited (False), or raised.

**Preferences** composes JobScheduler with what one of its jobs does for the saved
preferences: `Save` (the setup server, under the lock, tried once), `PushQueue`
(`apply_qbit_queue`), `SkipSync` when the record of the profiles is `Fresh`, or
`StartSync`, `Sync(a)` for each application and `RecordSync`, and `SaveApplied` at the
end. The preferences are read anew in each of these. `Beside` ties a step of the
scheduler to the preferences' part: the wiring waits for it, and a configuration that
ends, whichever way, forgets what it was doing. The operator edits the limit or deletes
a profile natively. A preference is a limit and dual audio; a profile is its dual-audio
score, or gone.

**VpnService** (`services.d/wireguard/run`, `finish`, `apply-vpn-config`,
`pompey_setup.save_wg`). The script's steps over five places where a configuration
may be: saved, rendered, admitted by the kill switch, on the interface, signed.
Rendering, routes and nft rules are abstracted to the configuration they were made
from.

**PortForwarding** (`services.d/natpmp/run`, `apply-qbit-port`) composes VpnService
with the script that leases a port: `Gate`, `Top` (marker there or not), `MapUdp`,
`MapTcp`, `Publish`, `Tell`, `Withdraw`, with lost and refused answers, lapsed leases
and killed scripts. The leases belong to the gateway of one interface: a step of
VpnService that replaces it (`VpnStep`) loses them. What a gateway `Grants` is any
choice of ports per configuration.

**ReleaseRecovery** (`pompey_recovery.reject` and `reconcile`,
`pompey_delivery.reconcile`, `reopen`). A rejection and a downloads pass, each with
its steps, over one title, its episodes, its import history, its files and its
torrents; the user previews, confirms (the same confirmation again, too), adds
monitoring and removes files; the application grabs, imports, and concludes. Every
import has a number, which stands for time. Abstracted: the upgrade from 0.6.0, the
limits on events (200), sequences (50) and days (30), several titles, and `at`,
which the code truncates to whole seconds and the model compares by event order.

**LibraryRouting** (`route_rating.route_library`). The pass lists titles
(`LookForCommands`, `List`), inspects each (`Relinquish`, `TooEarly`, `StillMoving`,
`Report`, `Ignore`, `Stay`, `Intend` are the branches of the loop), saves
intents (`SaveIntent`), and asks once per destination (`Ask`, `AskUnheard`). Native moves,
refreshes and imports run on the title they read; the operator places titles; a
restored database reuses a number. Paths are abstracted to roots, times to ages.

**RequestCloseout** (`request_policy.reconcile_requests`,
`pompey_diagnostics.rebaseline`). The pass reads Seerr's list page by page
(`ReadPage`, `EndFirst`, `EndSecond`; `ReadUnstable` when the two snapshots differ or
a page does not fit), reads Seerr's identity, `Guard`s against a replaced history and
a mass disappearance, lists the titles of each application, and for each owned title
nobody requests `Put`s it with monitoring off and `Cancel`s the queued commands that
search it alone; only `Save` keeps what it owns. `searches` is the queue: a command that
also names other titles, or episodes by their own numbers, is not `alone`, and stays
(`request_policy.py:205-213`). `Recorded` says which instance may be on record at first,
none before the first pass; `origin` and `source`, both history, say whose list the
owned titles come from and whose is in hand. Requests are made, withdrawn, declined, and Seerr is set up
anew between any two pages; the user edits titles; a restored database gives a number
to another title. `NewestFirst` is the order of the list, which the code leaves to
Seerr. Abstracted: the external ids that name a title to one identity, and rows that
fail a payload check to one failed call.

## 3. Runs

Run any of them with `tlc -workers 2 -config <cfg> <module>`. The runs that check a
liveness property use `FairSpec`, the others may use `Spec`. Deadlock is checked
everywhere but in `routing_rating`, where the bounds on changes and the fairness on
the clock leave a state in which everything has settled and nothing is left to do.

| Run | Instance | States | What it shows |
|---|---|---|---|
| `handoff_pair` | two downloads of one application, room for one receipt, one disturbance, lists that may omit torrents, symmetry | 892 k | `NoConcurrentImports`, `SettledMeansEnded`, and the refinement `SubmitsOnce` |
| `handoff_grab` | one hash added twice, two aborts, resumes, moves or setting changes | 1.04 M | `AtMostOncePerGrab`, `FinishedIsHandedOver`, `AutomaticImportsEndOff` |
| `handoff_full` | two applications, a journal of one | 59 k | **violated**: a full journal never drains (`SettledReceiptsLeave`) |
| `hold_guard` | downloader and one application, one interface replacement, two storage changes, one failed command, death of the controller or of the recovery, or change by an administrator | 269 k | the refinement `LockIsKept`, `PauseIsKept`, `StoppedIsOnRecord`, `HoldsStand`, `AdminStopsStand`, `HoldsEnd`, `DownloaderReturns` |
| `jobs_preferences` | all four jobs and two preferences, two failures, outages, samples, other holders or native edits | 375 k | `OneInFlight`, `AppliedIsInEffect`, `JobsKeepRunning`, `SavedArrives` |
| `jobs_outage` | the downloader stays down | 22 k | **violated**: the routine jobs starve (`RoutineJobsRun`) |
| `vpn_port` | three configurations, one unreachable, two ports, two faults | 616 k | `MarkerMeansTunnel`, `PortComesBack` |
| `vpn_rotate` | two configurations, no fault | 150 | **violated**: a configuration saved while the script connects is never applied (`SavedIsApplied`) |
| `recovery_movie` | one title, two releases of which one is staged, two imports, two attempts, one preview, one disturbance | 889 k | `RejectionsAreKept`, `RetriesAreMonitored`, `ImportedMeansReplaced`, `OnlyConfirmedFilesAreRemoved`, the refinement `RejectsAsConfirmed`, `OutcomeIsSeen`, `DeliveryStopsMonitoring` |
| `routing_rating` | one title, two faults, two changes | 314 k | `RoutedStaysOwned`, `HandPlacedStays`, `NothingLeftBehind`, `RoutedOrReported` |
| `closeout_requests` | a movie and a show of two seasons, three requests, pages of one row, one disturbance, an instance on record | 193 k | `SnapshotIsComplete`, `OneHistory`, `CancelsOnlyWithdrawn`, `WithdrawnIsCancelled`, `WithdrawnSearchesEnd` |
| `manual_imports` | one download of two files, two commands, two disturbances | 306 k | `AtMostOnceEver`, the refinement `SubmitsOnce`, `SubmissionsEndOrAreNoticed`, `FinishedIsSubmitted`, `BlockedIsNoticed` |

### Bounds, and why they are enough

Every bound is a constant with its name in a guard: `MaxGrabs`, `MaxDisturbances`,
`MaxReplacements`, `MaxStorage`, `MaxFaults`, `MaxChanges`, `MaxImports`,
`MaxAttempts`, `MaxPreviews`, `MaxRequests`. They bound only what disturbs the
program; passes, scheduling and saves of preferences are never bounded.

* Receipts of different torrents meet only in the journal's limit and in one pass's
  order, so two torrents and a limit of one show both. A hash added a second time
  shows what a receipt of the first addition does to it.
* The guard's services are handled alike; one beside the downloader, which the
  recovery and the gate treat apart, is every kind of service there is.
* A configuration is new, the current one, or unreachable: three of them. A gateway
  gives the port asked for or another: two ports.
* A pass over requests goes wrong when rows slide over a page's edge, so pages of one
  row and three requests (one that stands, one that goes, one that comes) have every
  edge; a movie and a show of two seasons are both kinds of title, and one season is
  still asked for while the other is not. The one disturbance may be a search that is
  queued at any time, alone or not, or one that begins. `MassFloor` and `MassLimit` are small so that
  the mass guard is met on both sides.
* A manual download of two files is refused by Radarr, by Sonarr, accepted in part, or
  by both; a second command is the one that must not be sent. The blocked item is in
  Radarr's queue; the queues are handled alike.
* A preference is one of two that differ in the limit and in dual audio, so that a
  configuration can be overtaken by a save, and go back.
* A rejection and the pass interact through a receipt and an import; a second release
  shows a replacement, its late event and its own rejection. One preview means one attempt
  in `recovery_movie`: attempts that follow or overlap one another are covered by the
  theorems and by the larger instances below. `MaxAttempts` is the code's limit of 20 as a
  constant.
* A routing failure needs a fault, a change that makes the journal stale, and one
  pass more; two of each cover every pair of them.

Larger instances were checked while the models were built and hold; they take longer
than a regular run: routing with three changes and liveness (1.75 M states), with two
titles, one fault and one change, safety (2.6 M); the closeout from
its first pass on, all but `OneHistory` (243 k); recovery with two previews and
liveness (2.5 M), two previews and a disturbance, safety (16 M), and two episodes with a
pack, safety (7.9 M).

Some properties are implied by the refinement a run checks, and have a theorem but no
run of their own: `MutationsAreExclusive` by `LockIsKept`, `NeverReplayed` and
`SearchFollowsRejection` by `RejectsAsConfirmed`. `LockIsKept` of JobScheduler and
ReleaseRecovery was checked on the instances of `jobs_preferences` and `recovery_movie`
before it was proved. The inductive invariant of every proof was checked by TLC as well,
on the instance of a regular run.

### Fairness

Fairness is stated only of what the code or its surroundings keep doing:

* passes and job threads (`WF`): the controller's loop runs every second, starts
  every due job, and kills a job at its timeout; a pass with no fault goes on;
* those who wait for the lock (`SF`): `flock` blocks until it is granted, and the
  gate asks every second; the lock is free again and again, but not continuously;
* native commands that have been accepted (`WF`): the application works them off.
  One that is lost or expires does not, and nothing is assumed of an answer;
* the scripts under s6 (`WF`): s6 restarts them; handshakes of a reachable server;
* the clock of receipts and of blocked imports (`WF`): a day and five minutes pass;
* an outage's end and the storage guard's release, in `jobs_preferences` only, and the
  first only where `OutagesEnd` says so (`jobs_outage` is about the other case);
* the routing clock (`SF`): ages grow between passes only, because a pass reads the
  clock once.

Never assumed: that the operator or administrator does anything, that
preferences are saved or requests withdrawn, that a download finishes, that an aborted
pass would not abort again within its bound, that a rejection is ever confirmed. The liveness properties state their own premises
(`<>[]` the storage is sound, the file stays saved, the download waits).

### Findings

* **A full journal never drains** (`handoff_full`, `pompey_imports.py:190`). At the
  limit the exception leaves `handoff` before the pruned and polled receipts are
  saved (208-210), so every later pass meets the same full journal.
* **An outage starves the other jobs** (`jobs_outage`, `pompey_controller.py:91`).
  Jobs that only waited keep the oldest due time and are dispatched first each second,
  so requests and routing, which do not need the downloader, wait for the outage's end,
  against "unrelated maintenance jobs continue independently" (`src/docs/foundation.md:9`).
* **A rotation in the wrong minute is lost** (`vpn_rotate`,
  `services.d/wireguard/run:78`). The signature is taken after the tunnel is up, of
  a file that may be newer than the one applied.

More behaviours were met. They are described here and not made runs of their own; where
they bite, the properties are stated with the premise that excludes them.

* *Going back after a failed synchronization.* Recyclarr does Radarr, fails at Sonarr,
  and nothing is recorded. If the preference is then set back to the recorded value,
  the next configuration finds its record fresh (`wire_stack.py:383`) and succeeds
  without synchronizing; the dashboard says applied (`pompey_preferences.py:54`), and
  Radarr keeps the other score. TLC refutes
  `<>[](preferences = v) => <>[](profiles = [a \in Apps |-> v.dual])` in this way on the
  instance of `jobs_preferences`; `src/README.md:80` says that the controller "applies
  saved preferences on its next successful configuration pass". `AppliedIsInEffect` has
  the premise that no configuration failed, `SavedArrives` speaks of a score other than
  the recorded one.
* *Held, recorded, never stopped.* A service is saved as held before `s6-svc -d` runs
  (`storage_guard.py:65`); when that fails and the next probe is inconclusive, the phase
  is "paused" and the service runs. `PauseIsKept` is `PausedMeansStopped` without a
  failed command, crash or administrator; TLC refutes it with one failed command.
* *The first pass over requests may mix two histories.* The list is read first
  (`request_policy.py:100-101`) and Seerr's identity afterwards (118); while none is on
  record there is nothing to compare it with (87). When Seerr is set up anew in between,
  titles requested from the old history are saved as the new one's (224), and the next
  pass, which finds the new list empty and the identity unchanged, stops their monitoring:
  against "A changed Seerr instance ... pauses monitoring changes until the request
  history is reviewed in diagnostics" (`src/README.md:55`). TLC refutes `OneHistory` in
  this way on the instance of `closeout_requests` with `Recorded = {None}`; once an
  instance is on record it holds, by the theorem `HistoriesAgree`.
* *A reconnection that is never finished.* When the recovery dies between its stop of the
  downloader and its start or its last record (`vpn_recovery.py:34`, `39`, `58`), the record
  says "reconnecting" for good: the next run returns at line 18, or at line 30 because the
  downloader is not wanted, and the notice of `pompey_controller.py:231` is for "failed"
  only. An administrator has to start it. `StoppedIsOnRecord` says that nothing worse is
  left, and `DownloaderReturns` has the premise that nothing failed.
* *A receipt of an earlier addition.* A hash that is added again while its old receipt is
  in the journal, in review or about to be, is never submitted (`pompey_imports.py:179`);
  neither is one whose intent was saved by a pass that died. `FinishedIsHandedOver`
  names both, by the history `leftover` and the phase `submitting`, and promises the
  submission of every other addition.
* *Searches that name more than one title*, or episodes of a show by their own numbers,
  stay in the queue when the title is closed (`request_policy.py:205-213`), and may still
  download it once. `WithdrawnSearchesEnd` is about those that name the title alone.
* *An administrator's stop undone*, between the recovery's check and its restart
  (`vpn_recovery.py:28`, `39`). `AdminStopsStand` names this window, and is proved of
  everything outside it.
* *A mutation process outlives a controller that was killed*, and its lock is free at
  once (`pompey_runtime.py:46`). `MutationsAreExclusive` and `StackLock` say what is left
  then: one orphan beside the next holder, which ends by itself, and never two holders.
* *The user's edit undone by the closeout*, which puts back the row it listed
  (`request_policy.py:195`). `CancelsOnlyWithdrawn` speaks of titles nobody edited since.
* *Receipts of manual imports are never pruned* (`media_policy.py:188`), so a hash that
  is grabbed by hand again is never submitted again: that is `AtMostOnceEver`.

## 4. Proofs

`tlapm <Module>Proofs.tla` checks them. They hold for every value of the constants
under the named assumptions each module declares (`HandoffAssumption`,
`ManualAssumption`, `ServiceAssumption`, `SchedulerAssumption`,
`PreferencesAssumption`, `VpnAssumption`, `PortAssumption`, `RecoveryAssumption`,
`RoutingAssumption`, `NoneAssumption`, `CloseoutAssumption`), which say only that bounds
are naturals, that a page is not empty, that there are finitely many numbers of titles,
that "nothing" is not a thing, that no instance but the present one is on record at first, and, for a recovery, that the releases of one sequence share an
episode, which is how the code groups them.

| Module | Theorems | The inductive invariant, and why it takes one |
|---|---|---|
| ImportHandoffProofs | `TypeCorrect`, `ImportsAreExclusive`, `SettledReceiptsAreOver`, `GrabsAreSubmittedOnce`, `HandoffSubmitsOnce` (the refinement of SubmitOnce) | A live command must be covered by a receipt in the journal *and* in the memory of the running pass, because the memory replaces the journal; a submitted receipt names the one live command; between intent and acknowledgement the current torrent has none or exactly the one posted; a listed queue row that says imported, and an import already made, exclude a live command. Without the memory's half a save could drop a receipt. For the refinement, `Drift` says how far memory may be ahead of the disk, so that every save is a set of moves the abstract protocol allows. For one submission per addition of a hash (lists that omit nothing), `GrabInv`: an addition that was submitted and is on the list keeps its receipt, on disk and in memory, and what the list misses was added since. |
| ManualImportsProofs | `SubmittedOnceEver`, `ManualSubmitsOnce` (the refinement) | The torrent of every used command has a record and records are never dropped; an intent is saved only where there is none, so the request after it is the first for its torrent; the command a receipt names is the only one at work on it. |
| ServiceHoldProofs | `TypesHold`, `MutationsExclude`, `HoldersKeepTheLock` (the refinement of StackLock), `PausesAreKept`, `StopsAreOnRecord`, `NothingUndoesAHold`, `AdministratorsStopsStand` | Each process inside its section owns the lock, whoever died, but for the orphan. `StoppedInv`: what the guard stopped is unwanted, and a recovery past its check has a downloader that the guard has not stopped, because it owns the lock the guard would need; so a hold stands whatever fails. `RecordInv`: each record is on disk before the stop it answers for and changes after the start, so even a death between them leaves it; the recovery's says "reconnecting" from its stop to its last observation, and only what came back is recorded as "reconnected". Undisturbed, what is held and not about to be stopped is unwanted; this one has its premise in the property, because a failed command leaves a recorded service running. What an administrator stopped is neither wanted nor held, outside the window of the recovery, whatever fails or dies. |
| JobSchedulerProofs | `OneJobInFlight`, `MarkersOutliveJobs`, `JobsKeepTheLock` (the refinement of StackLock), `NotPendingIsInEffect`, and with Preferences beside it `OneJobBesidePreferences`, `LockBesidePreferences` | The first two support each other: `busy` looks only at jobs whose marker exists, so exclusion rests on markers that stay, and they stay because configuration, which removes them, is itself in flight. For the preferences, `Locked` says that a running configuration holds the lock, so nothing is saved under it, and `Honest` what each of its stages has already brought about and what the last one left. |
| VpnServiceProofs | `TypesAreKept`, `MarkersStandForTunnels`, and of PortForwarding `MarkersStandBesidePorts`, `WholePortsArePublished` | The script between bring-up and marker has interface, rendered file and kill switch alike, and a script that starts again starts without a marker; the UDP lease is of the port the script remembers or gone, and a port it goes on to publish is that of both leases or one of them is gone. |
| ReleaseRecoveryProofs | `RejectionsStay`, `DeliveriesAreNotRejected`, `SearchComesLast`, `RetriesStayMonitored`, `ConfirmationsAreUsedOnce`, `ImportsAreReplacements`, `EvidencePrecedesMonitoring`, `DeletionsAreConfirmed`, `BothKeepTheLock` and `RejectionsAreUndertakings` (the refinements of StackLock and Undertaking), and `TypeIsCorrect` | `ReceiptInv` (who holds the lock, and that the copy a pass works on and will save whole contains every exclusion), `RemovalInv` (what has been deleted and blocklisted at each step), `MonitorInv` (what will be unmonitored has evidence), `SequenceInv` (attempts are ordered in time and confirmations are used once). For the refinement of Undertaking, `OperationInv`: what the record of the running attempt says at each of the rejection's steps; with `RemovalInv` a stage is true when it is saved, and because a file that went never comes back it stays true. |
| LibraryRoutingProofs | `TypesHold`, `OwnershipIsKept`, `PlacedTitlesStay`, `MovesAreCompleted` | `PassInv`: because no native command was there when the pass began, what it read stays true of every title the operator has not touched; `OwnedInv` and `LeftInv`: the journal to be saved keeps what the saved one owes; `EntriesInv`: what a pending move says of where the title may be. |
| RequestCloseoutProofs | `TypeCorrect`, `SnapshotsAreComplete`, `HistoriesAgree` (for `None \notin Recorded`), `OnlyWithdrawnIsCancelled` | `Tracked`, about the second read, for any page size and either order of the list: newest first, every insertion pushes a later row back, so the counts keep it from slipping; oldest first a row may slip, but then an equal count means a newer row at the end, which the first read cannot have seen. `HistoryInv`: client identities are not used again, so the instance on record, from whose list the owned titles come, is never newer than the list in hand, which is never newer than the identity the guard compares: if the two ends are equal, all three are. `WorkInv`: what a pass has decided so far. |

Only model-checked: all liveness properties (the prover has no rules for fairness
or ENABLED). Every invariant, action property and refinement that a passing run checks
has its theorem. `AtMostOncePerGrab` is proved of complete lists: with `PartialLists` it
is false, which is why the hand-over's safety is stated by SubmitOnce as well. There are
no recursive definitions and so no inductions over data.

## 5. Not modelled

* *Wiring*: its order of markers, its failures and its part for the preferences are in
  JobScheduler and Preferences. The connections between the applications are a long
  idempotent sequence of GET, compare and PUT that keeps no state of its own:
  configuration, not protocol.
* *Diagnostics* read only, but for the acceptance of a new request history, which is an
  action of RequestCloseout. *Generated configuration* is pure rendering before any
  service runs. *The dashboard* posts what the setup server's actions take as input.
* *Build and release tools* run in continuous integration.
* *Quality profiles*: the templates and what Recyclarr makes of them; only the score a
  preference decides is modelled.
* *Setup server*: saving the WireGuard file (VpnService) and the preferences
  (Preferences), previews and confirmations (ReleaseRecovery), the acceptance of a
  request history (RequestCloseout) and requests under the lock (ServiceHold) are
  modelled; the validation of forms is not.
* Parsing and rendering (`vpn_config.py`, `vpn_firewall.py`, `vpn_routes.py`) are
  abstracted to the configuration they were made from.
* Within the modelled components: the spelling of download identities, limits on
  events and sequences, path normalisation below a root, a second title in a recovery
  or a routing pass, the first hundred rows of an application's queue, a process that
  ignores SIGTERM for a while (`EndJob` kills and lets the lock go in one step), and a
  title that the operator moves while a native move of it runs.

## 6. What is left

The order was by what would be worst to get wrong: the hand-over of downloads, the
holds, the scheduler that runs both, the tunnel, the policies that delete or move files,
then the two journals that resemble the first, the port that depends on the tunnel and
the preferences that depend on the scheduler. What would be next:

1. *Two titles* in LibraryRouting (safety was checked once, at 2.6 M states) and in
   ReleaseRecovery, with the limits of its journal.
2. *The lock under the hand-over*: ImportHandoff assumes that one pass runs at a time,
   and does not yet instantiate StackLock to say so.
3. *An abstract move* for LibraryRouting, as Undertaking is for a rejection: intent,
   request, observation, and what may be relinquished.
4. *The spelling of download identities*, and the upgrade from 0.6.0 of recovery and
   delivery journals.
