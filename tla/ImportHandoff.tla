--------------------------- MODULE ImportHandoff ---------------------------
(***************************************************************************)
(* The hand-over of finished downloads to Radarr and Sonarr                *)
(* (pompey_imports.handoff, called from media_policy.maintain_downloads).  *)
(*                                                                         *)
(* One maintenance pass runs at a time (it is the "downloads" job and owns *)
(* the stack lock).  A pass reads the torrent list, stops finished         *)
(* torrents, reads the list again, turns automatic importing off, loads    *)
(* the receipts of the journal "download-imports", polls the native        *)
(* commands of submitted receipts, and submits one native scan per ready   *)
(* torrent: intent saved, POST, acknowledgement saved.  Between any two    *)
(* of its HTTP calls qBittorrent, the Arr applications and the operator    *)
(* act, and the pass may die (an API error, the job's timeout, a crash),   *)
(* which loses its memory and keeps the journal.                           *)
(***************************************************************************)
EXTENDS Naturals, FiniteSets

CONSTANTS
  Torrents,          \* info hashes qBittorrent may list
  Commands,          \* identities the Arr applications give to commands
  NoTorrent,         \* cur when no torrent is being submitted
  NoCommand,         \* the command of a receipt that has none
  AppOf,             \* category of a torrent: the application that grabbed it
  OwnerChoices,      \* how many titles native history may name for a grab
  JournalLimit,      \* len(receipts) >= 256 in the code
  MaxGrabs,          \* bound: times one hash may be added to qBittorrent
  MaxDisturbances,   \* bound: aborted passes, resumes, moves and CDH changes
  PartialLists       \* may torrents/info omit a torrent that exists?

Apps == {"radarr", "sonarr"}

ASSUME HandoffAssumption ==
  /\ NoTorrent \notin Torrents
  /\ NoCommand \notin Commands
  /\ AppOf \in [Torrents -> Apps]
  /\ OwnerChoices \subseteq {"none", "one", "many"}
  /\ JournalLimit \in Nat /\ MaxGrabs \in Nat /\ MaxDisturbances \in Nat
  /\ PartialLists \in BOOLEAN

VARIABLES
  \* qBittorrent and the Arr applications (external)
  torrent,      \* state of each hash in qBittorrent
  incarnation,  \* how often the hash was added (history)
  owner,        \* titles its native grab history names
  files,        \* does its completed payload exist?
  imported,     \* incarnation Arr last imported, 0 when none
  leftover,     \* hashes added while a receipt of an earlier addition was on
                \* record (history)
  cdh,          \* is automatic importing enabled in the application?
  moving,       \* is a native move or refresh queued or running?
  status,       \* native state of each command
  target,       \* torrent a command was submitted for
  born,         \* incarnation of the torrent when the command was submitted
  \* Pompey
  journal,      \* receipts on disk: state/download-imports.json
  pc, app, todo,\* control state of the running pass
  seen,         \* the torrent list the pass works from
  mem,          \* the receipts in the memory of the pass
  busy,         \* "moving" as the pass read it
  listed,       \* torrents whose queue row the pass read as imported
  cur, cid,     \* the torrent and the command being submitted
  disturbances

arr == <<cdh, moving, status, target, born>>
qbit == <<torrent, incarnation, owner, files, imported, leftover>>
pass == <<pc, app, todo, seen, mem, busy, listed, cur, cid>>
vars == <<torrent, incarnation, owner, files, imported, leftover, cdh, moving,
          status, target, born, journal, pc, app, todo, seen, mem, busy, listed,
          cur, cid, disturbances>>

-----------------------------------------------------------------------------
Phases == {"none", "submitting", "submitted", "review", "complete"}
Receipt == [phase : Phases, command : Commands \cup {NoCommand}]
NoReceipt == [phase |-> "none", command |-> NoCommand]
NoReceipts == [t \in Torrents |-> NoReceipt]

TorrentStates == {"absent", "downloading", "seeding", "stopping", "stopped"}
Finished == {"seeding", "stopping", "stopped"}
Statuses == {"unused", "sent", "lost", "running", "completed", "failed", "expired"}
PassStates == {"idle", "list", "gate", "poll", "scan", "post", "await"}

TypeOK ==
  /\ torrent \in [Torrents -> TorrentStates]
  /\ incarnation \in [Torrents -> Nat]
  /\ owner \in [Torrents -> {"none", "one", "many"}]
  /\ files \in [Torrents -> BOOLEAN] /\ imported \in [Torrents -> Nat]
  /\ leftover \in SUBSET Torrents
  /\ cdh \in [Apps -> BOOLEAN] /\ moving \in [Apps -> BOOLEAN]
  /\ status \in [Commands -> Statuses]
  /\ target \in [Commands -> Torrents \cup {NoTorrent}]
  /\ born \in [Commands -> Nat]
  /\ journal \in [Torrents -> Receipt] /\ mem \in [Torrents -> Receipt]
  /\ pc \in PassStates /\ app \in Apps /\ todo \in SUBSET Torrents
  /\ seen \in [Torrents -> {"absent", "other", "stopped"}]
  /\ busy \in BOOLEAN /\ listed \in SUBSET Torrents
  /\ cur \in Torrents \cup {NoTorrent} /\ cid \in Commands \cup {NoCommand}
  /\ disturbances \in Nat

Init ==
  /\ torrent = [t \in Torrents |-> "absent"]
  /\ incarnation = [t \in Torrents |-> 0]
  /\ owner = [t \in Torrents |-> "none"]
  /\ files = [t \in Torrents |-> FALSE]
  /\ imported = [t \in Torrents |-> 0] /\ leftover = {}
  /\ cdh = [a \in Apps |-> FALSE]
  /\ moving = [a \in Apps |-> FALSE]
  /\ status = [c \in Commands |-> "unused"]
  /\ target = [c \in Commands |-> NoTorrent]
  /\ born = [c \in Commands |-> 0]
  /\ journal = NoReceipts
  /\ pc = "idle" /\ app = "radarr" /\ todo = {}
  /\ seen = [t \in Torrents |-> "absent"]
  /\ mem = NoReceipts
  /\ busy = FALSE /\ listed = {}
  /\ cur = NoTorrent /\ cid = NoCommand
  /\ disturbances = 0

-----------------------------------------------------------------------------
(* Helpers of the pass *)

\* Arr tracks the present download of the hash as imported.
Imported(t) == imported[t] > 0 /\ imported[t] = incarnation[t]

Live(c) == status[c] \in {"sent", "running"}
Ended(c) == status[c] \in {"completed", "failed", "expired"}

\* Faults the properties must tell from Pruned: settled receipts dropped while
\* their torrent is there, and unsettled ones dropped with their torrent.
PrunedWithTorrent(receipts, list) ==
  [t \in Torrents |->
     IF receipts[t].phase \notin {"complete", "review"} THEN receipts[t] ELSE NoReceipt]
PrunedUnsettled(receipts, list) ==
  [t \in Torrents |-> IF list[t] # "absent" THEN receipts[t] ELSE NoReceipt]

\* Receipts outlive their torrent until they are settled.
Pruned(receipts, list) ==
  [t \in Torrents |->
     IF list[t] # "absent" \/ receipts[t].phase \notin {"complete", "review"}
     THEN receipts[t] ELSE NoReceipt]

Receipts(receipts) == {t \in Torrents : receipts[t].phase # "none"}

\* The pass leaves handoff, by its end or by an exception; its memory is gone.
Leave ==
  /\ pc' = "idle" /\ app' = "radarr" /\ todo' = {}
  /\ seen' = [t \in Torrents |-> "absent"] /\ mem' = NoReceipts
  /\ busy' = FALSE /\ listed' = {} /\ cur' = NoTorrent /\ cid' = NoCommand

\* Start on application a with the receipts m: first the submitted ones.
Enter(a, m) ==
  /\ pc' = "poll" /\ app' = a /\ mem' = m
  /\ todo' = {t \in Torrents : AppOf[t] = a /\ m[t].phase = "submitted"}
  /\ busy' = FALSE /\ listed' = {}
  /\ UNCHANGED <<seen, cur, cid>>

\* The next application, or the final prune and save.
Advance ==
  \/ /\ app = "radarr"
     /\ Enter("sonarr", mem)
     /\ UNCHANGED journal
  \/ /\ app = "sonarr"
     /\ journal' = Pruned(mem, seen)
     /\ Leave

-----------------------------------------------------------------------------
(* The steps of a pass, one per HTTP call that reads or changes shared state *)

\* Fault: finished torrents are left seeding.
StopAtGoalNever ==
  /\ pc = "idle" /\ pc' = "list"
  /\ UNCHANGED <<qbit, arr, journal, app, todo, seen, mem, busy, listed, cur, cid,
                 disturbances>>

\* First list: managed torrents that are finished and not stopped are stopped.
StopAtGoal ==
  /\ pc = "idle"
  /\ pc' = "list"
  /\ torrent' = [t \in Torrents |->
                   IF torrent[t] = "seeding" THEN "stopping" ELSE torrent[t]]
  /\ UNCHANGED <<incarnation, owner, files, imported, leftover, arr, journal, app,
                 todo, seen, mem, busy, listed, cur, cid, disturbances>>

\* Second list: the one the rest of the pass believes.
FetchAgain ==
  /\ pc = "list"
  /\ pc' = "gate"
  /\ LET present == {t \in Torrents : torrent[t] # "absent"} IN
     \E visible \in IF PartialLists THEN SUBSET present ELSE {present} :
       seen' = [t \in Torrents |->
                  IF t \notin visible THEN "absent"
                  ELSE IF torrent[t] = "stopped" THEN "stopped" ELSE "other"]
  /\ UNCHANGED <<qbit, arr, journal, app, todo, mem, busy, listed, cur, cid,
                 disturbances>>

\* Fault: automatic importing is left as it is found.
CloseGateNever ==
  /\ pc = "gate"
  /\ Enter("radarr", Pruned(journal, seen))
  /\ UNCHANGED <<qbit, arr, journal, disturbances>>

\* Automatic importing is switched off and verified; the journal is loaded.
CloseGate ==
  /\ pc = "gate"
  /\ cdh' = [a \in Apps |-> FALSE]
  /\ Enter("radarr", Pruned(journal, seen))
  /\ UNCHANGED <<qbit, moving, status, target, born, journal, disturbances>>

\* Fault: review whatever the command's state.
PollReceiptAnyStatus(t) ==
  /\ pc = "poll" /\ t \in todo /\ todo' = todo \ {t}
  /\ mem' = [mem EXCEPT ![t].phase = "review"]
  /\ UNCHANGED <<qbit, arr, journal, pc, app, seen, busy, listed, cur, cid,
                 disturbances>>

\* A submitted receipt: an ended or forgotten command goes to review.
PollReceipt(t) ==
  /\ pc = "poll" /\ t \in todo
  /\ todo' = todo \ {t}
  /\ mem' = IF Ended(mem[t].command)
            THEN [mem EXCEPT ![t].phase = "review"] ELSE mem
  /\ UNCHANGED <<qbit, arr, journal, pc, app, seen, busy, listed, cur, cid,
                 disturbances>>

\* Native commands and queue rows are read once per application.  With CDH off
\* the queue may hide a completed item, so any part of the imported ones shows.
Inspect ==
  LET relevant == {t \in Torrents : AppOf[t] = app /\ seen[t] # "absent"} IN
  /\ pc = "poll" /\ todo = {}
  /\ \/ /\ relevant = {}
        /\ Advance
     \/ /\ relevant # {}
        /\ pc' = "scan" /\ todo' = relevant
        /\ busy' = moving[app]
        /\ listed' \in SUBSET {t \in relevant : Imported(t)}
        /\ UNCHANGED <<app, seen, mem, cur, cid, journal>>
  /\ UNCHANGED <<qbit, arr, disturbances>>

\* Bound: a submission needs an identity the applications have not used.
IdentityLeft == \E c \in Commands : status[c] = "unused"

\* What the pass requires before it considers submitting.
Eligible(t) ==
  /\ IdentityLeft
  /\ mem[t].phase = "none"
  /\ seen[t] = "stopped"
  /\ ~busy
  /\ owner[t] # "none"
  /\ t \notin listed
  /\ files[t]

HasRoom == Cardinality(Receipts(mem)) < JournalLimit

Scanning(t) == pc = "scan" /\ t \in todo

\* A torrent with a receipt is never submitted again; it may become complete.
ScanKnown(t) ==
  /\ Scanning(t) /\ mem[t].phase # "none"
  /\ mem' = IF t \in listed THEN [mem EXCEPT ![t].phase = "complete"] ELSE mem
  /\ todo' = todo \ {t}
  /\ UNCHANGED <<qbit, arr, journal, pc, app, seen, busy, listed, cur, cid,
                 disturbances>>

\* Not ready, not owned, or owned by several titles.
ScanSkip(t) ==
  /\ Scanning(t) /\ mem[t].phase = "none"
  /\ Eligible(t) => HasRoom /\ owner[t] = "many"
  /\ todo' = todo \ {t}
  /\ UNCHANGED <<qbit, arr, journal, pc, app, seen, mem, busy, listed, cur, cid,
                 disturbances>>

\* "Import handoff journal is full": the exception ends the pass unsaved.
ScanFull(t) ==
  /\ Scanning(t) /\ Eligible(t) /\ ~HasRoom
  /\ Leave
  /\ UNCHANGED <<qbit, arr, journal, disturbances>>

\* Fault: the intent is only in memory when the request leaves.
SaveIntentInMemory(t) ==
  /\ Scanning(t) /\ Eligible(t) /\ HasRoom /\ owner[t] = "one"
  /\ mem' = [mem EXCEPT ![t] = [phase |-> "submitting", command |-> NoCommand]]
  /\ cur' = t /\ pc' = "post" /\ todo' = todo \ {t}
  /\ UNCHANGED <<qbit, arr, journal, app, seen, busy, listed, cid, disturbances>>

\* Commit intent before POST.
SaveIntent(t) ==
  /\ Scanning(t) /\ Eligible(t) /\ HasRoom /\ owner[t] = "one"
  /\ mem' = [mem EXCEPT ![t] = [phase |-> "submitting", command |-> NoCommand]]
  /\ journal' = mem'
  /\ cur' = t /\ pc' = "post" /\ todo' = todo \ {t}
  /\ UNCHANGED <<qbit, arr, app, seen, busy, listed, cid, disturbances>>

Post(c) ==
  /\ pc = "post" /\ status[c] = "unused"
  /\ status' = [status EXCEPT ![c] = "sent"]
  /\ target' = [target EXCEPT ![c] = cur]
  /\ born' = [born EXCEPT ![c] = incarnation[cur]]
  /\ cid' = c /\ pc' = "await"
  /\ UNCHANGED <<qbit, cdh, moving, journal, app, todo, seen, mem, busy, listed,
                 cur, disturbances>>

\* The response names the command; the receipt is saved with it.
SaveAcknowledgement ==
  /\ pc = "await" /\ status[cid] \notin {"sent", "lost"}
  /\ mem' = [mem EXCEPT ![cur] = [phase |-> "submitted", command |-> cid]]
  /\ journal' = mem'
  /\ cur' = NoTorrent /\ cid' = NoCommand /\ pc' = "scan"
  /\ UNCHANGED <<qbit, arr, app, todo, seen, busy, listed, disturbances>>

\* A request that got nowhere times out: the exception ends the pass.
SubmissionFails ==
  /\ pc = "await" /\ status[cid] = "lost"
  /\ Leave
  /\ UNCHANGED <<qbit, arr, journal, disturbances>>

EndApplication ==
  /\ pc = "scan" /\ todo = {}
  /\ Advance
  /\ UNCHANGED <<qbit, arr, disturbances>>

\* An API error, an answer without an identity, the job's timeout or a crash.
Abort ==
  /\ pc # "idle" /\ disturbances < MaxDisturbances
  /\ Leave
  /\ disturbances' = disturbances + 1
  /\ UNCHANGED <<qbit, arr, journal>>

-----------------------------------------------------------------------------
(* qBittorrent, the Arr applications and the operator (external) *)

Grab(t) ==
  /\ torrent[t] = "absent" /\ incarnation[t] < MaxGrabs
  /\ torrent' = [torrent EXCEPT ![t] = "downloading"]
  /\ incarnation' = [incarnation EXCEPT ![t] = @ + 1]
  /\ \E o \in OwnerChoices : owner' = [owner EXCEPT ![t] = o]
  /\ files' = [files EXCEPT ![t] = FALSE]
  /\ leftover' = IF journal[t].phase = "none" THEN leftover \ {t} ELSE leftover \cup {t}
  /\ UNCHANGED <<imported, arr, journal, pass, disturbances>>

FinishDownload(t) ==
  /\ torrent[t] = "downloading"
  /\ torrent' = [torrent EXCEPT ![t] = "seeding"]
  /\ files' = [files EXCEPT ![t] = TRUE]
  /\ UNCHANGED <<incarnation, owner, imported, leftover, arr, journal, pass,
                 disturbances>>

\* A stop request takes effect after it was acknowledged.
StopSettles(t) ==
  /\ torrent[t] = "stopping"
  /\ torrent' = [torrent EXCEPT ![t] = "stopped"]
  /\ UNCHANGED <<incarnation, owner, files, imported, leftover, arr, journal, pass,
                 disturbances>>

Resume(t) ==
  /\ torrent[t] = "stopped" /\ disturbances < MaxDisturbances
  /\ torrent' = [torrent EXCEPT ![t] = "seeding"]
  /\ disturbances' = disturbances + 1
  /\ UNCHANGED <<incarnation, owner, files, imported, leftover, arr, journal, pass>>

\* Arr removes an imported torrent; the operator removes any, with its files or not.
Remove(t) ==
  /\ torrent[t] # "absent"
  /\ torrent' = [torrent EXCEPT ![t] = "absent"]
  /\ \E keep \in {files[t], FALSE} : files' = [files EXCEPT ![t] = keep]
  /\ UNCHANGED <<incarnation, owner, imported, leftover, arr, journal, pass,
                 disturbances>>

\* The operator imports by hand what no command is working on.
OperatorImport(t) ==
  /\ journal[t].phase \in {"submitting", "review"} /\ files[t]
  /\ \A c \in Commands : target[c] = t => ~Live(c)
  /\ ~(pc \in {"post", "await"} /\ cur = t)
  /\ files' = [files EXCEPT ![t] = FALSE]
  /\ imported' = [imported EXCEPT ![t] = incarnation[t]]
  /\ UNCHANGED <<torrent, incarnation, owner, leftover, arr, journal, pass,
                 disturbances>>

SetStatus(c, s) ==
  /\ status' = [status EXCEPT ![c] = s]
  /\ UNCHANGED <<cdh, moving, target, born, journal, pass, disturbances>>

\* The request reaches the application, or never does.
Accept(c) == status[c] = "sent" /\ SetStatus(c, "running") /\ UNCHANGED qbit
Lose(c) == status[c] = "sent" /\ SetStatus(c, "lost") /\ UNCHANGED qbit

\* The scan moves the payload into the library and completes...
Import(c) ==
  /\ status[c] = "running" /\ files[target[c]]
  /\ SetStatus(c, "completed")
  /\ files' = [files EXCEPT ![target[c]] = FALSE]
  /\ imported' = [imported EXCEPT ![target[c]] = incarnation[target[c]]]
  /\ UNCHANGED <<torrent, incarnation, owner, leftover>>

\* ...or ends, completed or not, without importing.
Reject(c) ==
  /\ status[c] = "running"
  /\ \E s \in {"completed", "failed"} : SetStatus(c, s)
  /\ UNCHANGED qbit

Expire(c) ==
  /\ status[c] \in {"completed", "failed"} /\ SetStatus(c, "expired")
  /\ UNCHANGED qbit

BeginMove(a) ==
  /\ ~moving[a] /\ disturbances < MaxDisturbances
  /\ moving' = [moving EXCEPT ![a] = TRUE]
  /\ disturbances' = disturbances + 1
  /\ UNCHANGED <<qbit, cdh, status, target, born, journal, pass>>

EndMove(a) ==
  /\ moving[a]
  /\ moving' = [moving EXCEPT ![a] = FALSE]
  /\ UNCHANGED <<qbit, cdh, status, target, born, journal, pass, disturbances>>

EnableAutomaticImport(a) ==
  /\ ~cdh[a] /\ disturbances < MaxDisturbances
  /\ cdh' = [cdh EXCEPT ![a] = TRUE]
  /\ disturbances' = disturbances + 1
  /\ UNCHANGED <<qbit, moving, status, target, born, journal, pass>>

-----------------------------------------------------------------------------
PassStep ==
  \/ StopAtGoal \/ FetchAgain \/ CloseGate \/ Inspect
  \/ \E t \in Torrents :
       \/ PollReceipt(t) \/ ScanKnown(t) \/ ScanSkip(t) \/ ScanFull(t)
       \/ SaveIntent(t)
  \/ \E c \in Commands : Post(c)
  \/ SaveAcknowledgement \/ SubmissionFails \/ EndApplication

ArrStep(c) == Accept(c) \/ Import(c) \/ Reject(c)

Environment ==
  \/ \E t \in Torrents :
       \/ Grab(t) \/ FinishDownload(t) \/ StopSettles(t) \/ Resume(t)
       \/ Remove(t) \/ OperatorImport(t)
  \/ \E c \in Commands : ArrStep(c) \/ Lose(c) \/ Expire(c)
  \/ \E a \in Apps : BeginMove(a) \/ EndMove(a) \/ EnableAutomaticImport(a)

Next == PassStep \/ Abort \/ Environment

\* The controller starts a pass every interval; a pass that meets no fault
\* goes on; qBittorrent stops what it was told to; Arr works its commands off.
Fairness ==
  /\ WF_vars(PassStep)
  /\ \A t \in Torrents : WF_vars(StopSettles(t))
  /\ \A c \in Commands : WF_vars(ArrStep(c))

Spec == Init /\ [][Next]_vars
FairSpec == Spec /\ Fairness

-----------------------------------------------------------------------------
(* Properties *)

\* Whatever dies or is delayed between intent, POST and acknowledgement, the
\* applications never work on two import commands for one download at a time
\* (two Move scans of one folder race each other's files).
NoConcurrentImports ==
  \A c, d \in Commands :
    Live(c) /\ Live(d) /\ target[c] = target[d] => c = d

\* A receipt that is gone, in review or complete has no import running behind
\* it.  pompey_recovery.inspect_target deletes the download of a receipt in
\* "review", and a receipt that is gone lets the torrent be submitted.
SettledMeansEnded ==
  \A c \in Commands :
    Live(c) => journal[target[c]].phase \in {"submitting", "submitted"}

\* One addition of a torrent to qBittorrent is submitted at most once, across
\* failed imports, lost acknowledgements, restarts and pruned receipts,
\* provided the torrent list names every torrent.
AtMostOncePerGrab ==
  \A c, d \in Commands :
    /\ status[c] # "unused" /\ status[d] # "unused"
    /\ target[c] = target[d] /\ born[c] = born[d]
    => c = d

\* What SubmitOnce sees of the hand-over.
Recorded == [t \in Torrents |-> journal[t].phase]
Permitted == {t \in Torrents : pc = "post" /\ cur = t}
AtWork == {t \in Torrents : \E c \in Commands : Live(c) /\ target[c] = t}

Once == INSTANCE SubmitOnce
  WITH Items <- Torrents, record <- Recorded, permit <- Permitted, live <- AtWork

\* The pass, with its reloaded and half-polled memory, its aborts and the lists
\* that miss torrents, is one that submits once: an uncertain submission is
\* never dropped or started over, and a receipt settles or goes only when no
\* request is at work.
SubmitsOnce == Once!Spec

\* A finished download with one native owner, whose payload stays in place and
\* whose application is not moving files, is stopped, seen stopped and submitted, in
\* spite of aborted passes: this addition of it, and not an earlier one.  Two things
\* keep it from that, and both stay in the journal for review (pompey_imports.py:
\* 179-182 submit no torrent that has a receipt): a pass died between the saved
\* intent and its acknowledgement, or the hash was added again while a receipt of an
\* earlier addition was on record.
Waiting(t) ==
  /\ torrent[t] \in Finished /\ owner[t] = "one"
  /\ files[t] /\ ~Imported(t) /\ ~moving[AppOf[t]]

Submitted(t) == \E c \in Commands : target[c] = t /\ born[c] = incarnation[t]

ForReview(t) ==
  \/ journal[t].phase = "submitting"
  \/ t \in leftover /\ journal[t].phase # "none"

FinishedIsHandedOver ==
  \A t \in Torrents : <>[]Waiting(t) => <>[](Submitted(t) \/ ForReview(t))

\* A submitted import is settled and its receipt leaves the journal once the
\* torrent is gone for good: the journal is bounded, so it must drain.
SettledReceiptsLeave ==
  \A t \in Torrents :
    <>[](torrent[t] = "absent") =>
      <>[](journal[t].phase \in {"none", "submitting"})

\* Automatic importing that somebody turned on is turned off again.
AutomaticImportsEndOff == \A a \in Apps : cdh[a] ~> ~cdh[a]
=============================================================================
