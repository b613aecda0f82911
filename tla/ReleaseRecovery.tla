--------------------------- MODULE ReleaseRecovery ---------------------------
(***************************************************************************)
(* Try another: the rejection of a release (pompey_recovery.reject), the   *)
(* delivery receipts that stop automatic monitoring (pompey_delivery) and  *)
(* the observation of the outcome (pompey_recovery.reconcile), over one    *)
(* title and the native application that owns its files.                   *)
(*                                                                         *)
(* A title has episodes; a movie is a title with one.  A release was       *)
(* grabbed for some of them.  Every import makes a new native file, whose  *)
(* number is its place in the import history.                              *)
(*                                                                         *)
(* The rejection runs in the setup server and the downloads pass in the    *)
(* controller's job; both hold stack.lock from their first read to their   *)
(* last save, and either may die at any step.                              *)
(***************************************************************************)
EXTENDS Naturals, Sequences, FiniteSets

CONSTANTS
  Episodes,    \* the title's episodes
  Releases,
  Covers,      \* the episodes each release was grabbed for
  Staged,      \* releases whose imports land in staging before their library
  MaxImports,  \* bound: native imports
  MaxAttempts, \* the safety limit of a release sequence (20 in the code)
  MaxPreviews, \* bound: previews the user asks for
  MaxDisturbances \* bound: failed calls, deaths, changes the user makes

\* Rejections of one title share an episode: they make one release sequence.
ASSUME RecoveryAssumption ==
  /\ Covers \in [Releases -> SUBSET Episodes]
  /\ \E e \in Episodes : \A r \in Releases : e \in Covers[r]
  /\ Staged \subseteq Releases
  /\ MaxImports \in Nat /\ MaxAttempts \in Nat /\ MaxPreviews \in Nat
  /\ MaxDisturbances \in Nat

VARIABLES
  lock,        \* stack.lock: "free", "reject" or "pass"
  \* the native application and the download client
  imports,     \* the import history
  library,     \* native files present
  placed,      \* imported files whose path lies in a final library
  torrent,     \* the torrent of each release
  blocklist,   \* releases the application will not grab again
  monitored,   \* episodes it searches for by itself
  \* release-sequence.json and deliveries.json
  attempts, status, receipts,
  \* the user
  preview,     \* the target the user looks at and its confirmation, or none
  \* reject
  rstep, todo,
  \* the downloads pass
  pstep, working, listed, watched,
  \* bounds
  previews, disturbances

native == <<imports, library, placed, torrent, blocklist, monitored>>
durable == <<attempts, status, receipts>>
rejectvars == <<rstep, todo>>
passvars == <<pstep, working, listed, watched>>
bounds == <<previews, disturbances>>
vars == <<lock, imports, library, placed, torrent, blocklist, monitored, attempts,
          status, receipts, preview, rstep, todo, pstep, working, listed, watched,
          previews, disturbances>>

-----------------------------------------------------------------------------
Files == 1..MaxImports
None == 0
\* "never": not grabbed.  "queued": in the application's queue.  "unsettled":
\* complete, hidden from the queue, its import not concluded.  "hidden": complete,
\* the import concluded.  "gone": grabbed once and no longer in the client.
TorrentStates == {"never", "queued", "unsettled", "hidden", "gone"}
Target == [release : Releases, files : SUBSET Files,
           torrent : {"gone", "queued", "hidden"}]
Stages == {"prepared", "removing", "blocked", "retry-requested", "needs-review"}
Attempt == [target : Target, confirmation : Nat, at : Nat, stage : Stages]
Receipt == [status : {"none", "delivered", "retrying"}, file : Files \cup {None},
            rejectedFiles : SUBSET Files]
NoReceipt == [status |-> "none", file |-> None, rejectedFiles |-> {}]
RejectSteps == {"idle", "reopen", "inspect", "delete", "removed", "block", "torrent",
                "blocked", "monitor", "search", "searched"}
PassSteps == {"idle", "files", "history", "record", "evidence", "unmonitor", "save",
              "observe"}

TypeOK ==
  /\ lock \in {"free", "reject", "pass"}
  /\ imports \in Seq([release : Releases, episode : Episodes])
  /\ Len(imports) <= MaxImports
  /\ library \in SUBSET Files /\ placed \in SUBSET Files
  /\ torrent \in [Releases -> TorrentStates]
  /\ blocklist \in SUBSET Releases /\ monitored \in SUBSET Episodes
  /\ attempts \in Seq(Attempt)
  /\ status \in {"none", "Retrying", "Needs attention", "Waiting for a release", "Imported"}
  /\ receipts \in [Episodes -> Receipt]
  /\ preview \in [target : Target \cup {[release |-> "none"]}, confirmation : Nat]
  /\ rstep \in RejectSteps /\ todo \in SUBSET Files
  /\ pstep \in PassSteps
  /\ working \in [Episodes -> Receipt]
  /\ listed \in [Episodes -> Files \cup {None}]
  /\ watched \in SUBSET Episodes
  /\ previews \in Nat /\ disturbances \in Nat

NoTarget == [release |-> "none"]

\* A title just added: nothing grabbed, nothing imported.
Init ==
  /\ lock = "free"
  /\ imports = <<>> /\ library = {} /\ placed = {}
  /\ torrent = [r \in Releases |-> "never"] /\ blocklist = {} /\ monitored = Episodes
  /\ attempts = <<>> /\ status = "none"
  /\ receipts = [e \in Episodes |-> NoReceipt]
  /\ preview = [target |-> NoTarget, confirmation |-> 0]
  /\ rstep = "idle" /\ todo = {}
  /\ pstep = "idle" /\ working = receipts /\ listed = [e \in Episodes |-> None]
  /\ watched = {}
  /\ previews = 0 /\ disturbances = 0

FilesOf(r) == {f \in library : imports[f].release = r}
FileOf(e) == {f \in library : imports[f].episode = e}
-----------------------------------------------------------------------------
(* inspect_target and preview *)

\* Exact native identities: what the user sees and what reject compares.
Inspected(r) == [release |-> r, files |-> FilesOf(r), torrent |-> torrent[r]]

\* A complete download whose import is not concluded is refused; a release
\* without grab history too.
Inspectable(r) == torrent[r] \notin {"unsettled", "never"}

Preview(r) ==
  /\ previews < MaxPreviews /\ Inspectable(r)
  /\ previews' = previews + 1
  /\ preview' = [target |-> Inspected(r), confirmation |-> previews + 1]
  /\ UNCHANGED <<lock, native, durable, rejectvars, passvars, disturbances>>

-----------------------------------------------------------------------------
(* reject, step by step *)

Last == Len(attempts)
Rejecting == attempts[Last].target
SetStage(s) == attempts' = [attempts EXCEPT ![Last].stage = s]
Step(s) == rstep = s
KeepReject == UNCHANGED <<passvars, preview, bounds>>

\* The lock is tried once.  The confirmed token must still describe the files,
\* and a confirmation is good for one attempt, saved before any destructive call.
StartReject ==
  /\ Step("idle") /\ lock = "free" /\ preview.target # NoTarget
  /\ Inspectable(preview.target.release)
  /\ Inspected(preview.target.release) = preview.target
  /\ \A k \in 1..Last : attempts[k].confirmation # preview.confirmation
  /\ Last < MaxAttempts
  /\ attempts' = Append(attempts, [target |-> preview.target, at |-> Len(imports),
                                   confirmation |-> preview.confirmation,
                                   stage |-> "prepared"])
  /\ status' = "Retrying" /\ lock' = "reject" /\ rstep' = "reopen"
  /\ UNCHANGED <<native, receipts, todo>> /\ KeepReject

\* pompey_delivery.reopen: the receipts of the release's episodes are reopened
\* and exclude its files and the file that was delivered.
Reopened(e) ==
  [receipts[e] EXCEPT !.status = "retrying",
     !.rejectedFiles = @ \cup Rejecting.files
                         \cup (IF receipts[e].file = None THEN {} ELSE {receipts[e].file})]

Reopen ==
  /\ Step("reopen")
  /\ receipts' = [e \in Episodes |-> IF e \in Covers[Rejecting.release] THEN Reopened(e)
                                     ELSE receipts[e]]
  /\ rstep' = "inspect"
  /\ UNCHANGED <<lock, native, attempts, status, todo>> /\ KeepReject

Unchanged == Inspectable(Rejecting.release) /\ Inspected(Rejecting.release) = Rejecting

\* Fault: whatever the release owns by now is removed.
InspectFresh ==
  /\ Step("inspect")
  /\ todo' = FilesOf(Rejecting.release)
  /\ rstep' = IF FilesOf(Rejecting.release) = {} THEN "block" ELSE "delete"
  /\ UNCHANGED <<lock, native, durable>> /\ KeepReject

\* Fault: the release is blocklisted while its files are still there.
InspectToBlock ==
  /\ Step("inspect") /\ Unchanged
  /\ todo' = Rejecting.files /\ rstep' = "block"
  /\ UNCHANGED <<lock, native, durable>> /\ KeepReject

\* The policy, the profile and the candidates are read, then the target again.
InspectAgain ==
  /\ Step("inspect") /\ Unchanged
  /\ todo' = Rejecting.files
  /\ rstep' = IF Rejecting.files = {} THEN "block" ELSE "delete"
  /\ UNCHANGED <<lock, native, durable>> /\ KeepReject

\* The application deletes one previewed file, unchanged since the preview.
FirstOf(f) == f \in todo /\ \A g \in todo : f <= g

DeleteFile(f) ==
  /\ Step("delete") /\ FirstOf(f) /\ f \in library
  /\ library' = library \ {f} /\ todo' = todo \ {f} /\ rstep' = "removed"
  /\ UNCHANGED <<lock, imports, placed, torrent, blocklist, monitored, durable>>
  /\ KeepReject

SaveRemoved ==
  /\ Step("removed") /\ SetStage("removing")
  /\ rstep' = IF todo = {} THEN "block" ELSE "delete"
  /\ UNCHANGED <<lock, native, status, receipts, todo>> /\ KeepReject

\* The queue entry is removed with its download, or the grab marked failed.
Block ==
  /\ Step("block")
  /\ blocklist' = blocklist \cup {Rejecting.release}
  /\ \/ /\ Rejecting.torrent = "queued" /\ torrent[Rejecting.release] = "queued"
        /\ torrent' = [torrent EXCEPT ![Rejecting.release] = "gone"]
        /\ rstep' = "blocked"
     \/ /\ Rejecting.torrent # "queued" /\ UNCHANGED torrent
        /\ rstep' = IF Rejecting.torrent = "hidden" THEN "torrent" ELSE "blocked"
  /\ UNCHANGED <<lock, imports, library, placed, monitored, durable, todo>>
  /\ KeepReject

DeleteTorrent ==
  /\ Step("torrent")
  /\ torrent' = [torrent EXCEPT ![Rejecting.release] = "gone"] /\ rstep' = "blocked"
  /\ UNCHANGED <<lock, imports, library, placed, blocklist, monitored, durable, todo>>
  /\ KeepReject

SaveBlocked ==
  /\ Step("blocked") /\ SetStage("blocked") /\ rstep' = "monitor"
  /\ UNCHANGED <<lock, native, status, receipts, todo>> /\ KeepReject

\* Fault: monitoring, off since the delivery, is left off.
MonitorNothing ==
  /\ Step("monitor") /\ rstep' = "search"
  /\ UNCHANGED <<lock, native, durable, todo>> /\ KeepReject

Monitor ==
  /\ Step("monitor")
  /\ monitored' = monitored \cup Covers[Rejecting.release] /\ rstep' = "search"
  /\ UNCHANGED <<lock, imports, library, placed, torrent, blocklist, durable, todo>>
  /\ KeepReject

\* Unless an import of the release raced with the deletion, the native search is
\* submitted.
Search ==
  /\ Step("search") /\ FilesOf(Rejecting.release) = {}
  /\ rstep' = "searched"
  /\ UNCHANGED <<lock, native, durable, todo>> /\ KeepReject

Ended == rstep' = "idle" /\ todo' = {} /\ lock' = "free"

SaveSearch ==
  /\ Step("searched") /\ SetStage("retry-requested") /\ Ended
  /\ UNCHANGED <<native, status, receipts>> /\ KeepReject

\* What the application holds is no longer what was confirmed.
Changed ==
  \/ Step("inspect") /\ ~Unchanged
  \/ Step("delete") /\ \E f \in todo \ library : FirstOf(f)
  \/ Step("block") /\ Rejecting.torrent = "queued" /\ torrent[Rejecting.release] # "queued"
  \/ Step("search") /\ FilesOf(Rejecting.release) # {}

NeedsReview ==
  /\ Changed
  /\ SetStage("needs-review") /\ status' = "Needs attention" /\ Ended
  /\ UNCHANGED <<native, receipts>> /\ KeepReject

\* A call fails, before or after its effect.
CallFails ==
  /\ disturbances < MaxDisturbances /\ rstep \notin {"idle", "reopen"}
  /\ disturbances' = disturbances + 1
  /\ SetStage("needs-review") /\ status' = "Needs attention" /\ Ended
  /\ UNCHANGED <<native, receipts, passvars, preview, previews>>

\* The setup server dies, or the receipts cannot be saved: nothing more is
\* recorded.
RejectDies ==
  /\ disturbances < MaxDisturbances /\ rstep # "idle"
  /\ disturbances' = disturbances + 1 /\ Ended
  /\ UNCHANGED <<native, durable, passvars, preview, previews>>

-----------------------------------------------------------------------------
(* The downloads pass: pompey_delivery.reconcile, pompey_recovery.reconcile *)

At(s) == pstep = s
KeepPass == UNCHANGED <<rejectvars, preview, bounds>>
NoFiles == [e \in Episodes |-> None]
NoReceipts == [e \in Episodes |-> NoReceipt]

\* Fault: the pass does not wait for a rejection.
StartPassBeside ==
  /\ At("idle")
  /\ pstep' = "files" /\ working' = receipts
  /\ listed' = [e \in Episodes |-> IF FileOf(e) = {} THEN None
                                   ELSE CHOOSE f \in FileOf(e) : TRUE]
  /\ watched' = monitored
  /\ UNCHANGED <<lock, native, durable>> /\ KeepPass

\* The receipts are loaded, the title and its episodes are read.
StartPass ==
  /\ At("idle") /\ lock = "free"
  /\ lock' = "pass" /\ pstep' = "files" /\ working' = receipts
  /\ listed' = [e \in Episodes |-> IF FileOf(e) = {} THEN None
                                   ELSE CHOOSE f \in FileOf(e) : TRUE]
  /\ watched' = monitored
  /\ UNCHANGED <<native, durable>> /\ KeepPass

\* The files are read: an episode's file that has meanwhile been replaced is not
\* among them.  The history is read only for an episode without file and receipt.
ReadFiles ==
  /\ At("files")
  /\ listed' = [e \in Episodes |-> IF listed[e] \in library THEN listed[e] ELSE None]
  /\ \/ pstep' = "record"
     \/ pstep' = "history" /\ \E e \in Episodes : listed[e] = None /\ working[e] = NoReceipt
  /\ UNCHANGED <<lock, native, durable, working, watched>> /\ KeepPass

\* Positive evidence of an earlier import into a final library, for an episode
\* that has no receipt yet: the newest.
Evidence(e) == {f \in 1..Len(imports) :
                  imports[f].episode = e /\ imports[f].release \notin Staged}
Newest(e) == {f \in Evidence(e) : \A g \in Evidence(e) : g <= f}

Backfill ==
  /\ At("history") /\ pstep' = "record"
  /\ working' = [e \in Episodes |->
       IF working[e] # NoReceipt \/ Newest(e) = {} THEN working[e]
       ELSE [NoReceipt EXCEPT !.status = "delivered", !.file = CHOOSE f \in Newest(e) : TRUE]]
  /\ UNCHANGED <<lock, native, durable, listed, watched>> /\ KeepPass

\* record_file: a rejected file is no evidence; a delivered receipt stays.
RecordFile(receipt, f) ==
  IF f \in receipt.rejectedFiles \/ receipt.status = "delivered" THEN receipt
  ELSE [receipt EXCEPT !.status = "delivered", !.file = f]

\* A listed file counts when it lies in a final library and is on the disk.
Counts(f) == f \in library \cap placed

DeliveredIn(w) == {e \in watched : w[e].status = "delivered"}

\* Fault: only new deliveries count.
RecordFilesNew ==
  LET updated == [e \in Episodes |-> IF Counts(listed[e]) THEN RecordFile(working[e], listed[e])
                                     ELSE working[e]]
      new == {e \in DeliveredIn(updated) : updated[e] # working[e]}
  IN
  /\ At("record")
  /\ working' = updated /\ watched' = new /\ listed' = NoFiles
  /\ pstep' = IF new # {} THEN "evidence" ELSE "save"
  /\ UNCHANGED <<lock, native, durable>> /\ KeepPass

RecordFiles ==
  LET updated == [e \in Episodes |-> IF Counts(listed[e]) THEN RecordFile(working[e], listed[e])
                                     ELSE working[e]]
  IN
  /\ At("record")
  /\ working' = updated /\ watched' = DeliveredIn(updated) /\ listed' = NoFiles
  /\ pstep' = IF DeliveredIn(updated) # {} THEN "evidence" ELSE "save"
  /\ UNCHANGED <<lock, native, durable>> /\ KeepPass

\* Evidence precedes the monitoring change.
SaveEvidence ==
  /\ At("evidence") /\ receipts' = working /\ pstep' = "unmonitor"
  /\ UNCHANGED <<lock, native, attempts, status, working, listed, watched>>
  /\ KeepPass

Unmonitor ==
  /\ At("unmonitor")
  /\ monitored' = monitored \ watched /\ watched' = {} /\ pstep' = "save"
  /\ UNCHANGED <<lock, imports, library, placed, torrent, blocklist, durable, working,
                 listed>>
  /\ KeepPass

SaveReceipts ==
  /\ At("save") /\ receipts' = working /\ working' = NoReceipts /\ pstep' = "observe"
  /\ UNCHANGED <<lock, native, attempts, status, listed, watched>>
  /\ KeepPass

EndPass ==
  /\ pstep' = "idle" /\ lock' = "free" /\ working' = NoReceipts
  /\ listed' = NoFiles /\ watched' = {}

\* merge_history: every episode of the sequence was imported since the last
\* attempt, from a release nobody has rejected.
Rejected == {attempts[k].target.release : k \in 1..Last}

Replaced ==
  /\ Last > 0
  /\ \A e \in Covers[attempts[1].target.release] : \E f \in 1..Len(imports) :
       /\ imports[f].episode = e /\ imports[f].release \notin Rejected
       /\ f > attempts[Last].at

\* Faults: any import since the first attempt counts; a sequence that needs
\* attention is not looked at again.
ObserveAnyImport ==
  /\ At("observe") /\ EndPass
  /\ \/ Last = 0 /\ UNCHANGED status
     \/ /\ Last > 0
        /\ status' = IF \A e \in Covers[attempts[1].target.release] : Evidence(e) # {}
                     THEN "Imported" ELSE status
  /\ UNCHANGED <<native, attempts, receipts>> /\ KeepPass
ObserveRetrying ==
  /\ At("observe") /\ EndPass
  /\ \/ (Last = 0 \/ status \in {"Imported", "Needs attention"}) /\ UNCHANGED status
     \/ status \notin {"Imported", "Needs attention"} /\ Replaced /\ status' = "Imported"
     \/ /\ Last > 0 /\ status \notin {"Imported", "Needs attention"} /\ ~Replaced
        /\ \/ UNCHANGED status
           \/ /\ attempts[Last].stage = "retry-requested"
              /\ status' \in {"Needs attention", "Waiting for a release"}
  /\ UNCHANGED <<native, attempts, receipts>> /\ KeepPass

\* The native search may also have failed, or ended without a grab.
Observe ==
  /\ At("observe") /\ EndPass
  /\ \/ Last = 0 /\ UNCHANGED status
     \/ status = "Imported" /\ UNCHANGED status
     \/ status # "Imported" /\ Replaced /\ status' = "Imported"
     \/ /\ Last > 0 /\ status # "Imported" /\ ~Replaced
        /\ \/ UNCHANGED status
           \/ /\ attempts[Last].stage = "retry-requested"
              /\ status' \in {"Needs attention", "Waiting for a release"}
  /\ UNCHANGED <<native, attempts, receipts>> /\ KeepPass

\* A read or a save of the pass fails, or the pass is killed.
PassFails ==
  /\ disturbances < MaxDisturbances /\ pstep # "idle"
  /\ disturbances' = disturbances + 1 /\ EndPass
  /\ UNCHANGED <<native, durable, rejectvars, preview, previews>>

-----------------------------------------------------------------------------
(* The application, the download client and the user (external) *)

Outside == UNCHANGED <<lock, durable, rejectvars, passvars, previews>>

Grab(r) ==
  /\ torrent[r] \in {"never", "gone"} /\ r \notin blocklist
  /\ Covers[r] \cap monitored # {}
  /\ torrent' = [torrent EXCEPT ![r] = "queued"]
  /\ UNCHANGED <<imports, library, placed, blocklist, monitored, preview, disturbances>> /\ Outside

Completes(r) ==
  /\ torrent[r] = "queued"
  /\ torrent' = [torrent EXCEPT ![r] = "unsettled"]
  /\ UNCHANGED <<imports, library, placed, blocklist, monitored, preview, disturbances>> /\ Outside

\* An import into an episode replaces its file.
Import(r, e) ==
  /\ torrent[r] = "unsettled" /\ e \in Covers[r] /\ Len(imports) < MaxImports
  /\ imports' = Append(imports, [release |-> r, episode |-> e])
  /\ library' = (library \ FileOf(e)) \cup {Len(imports) + 1}
  /\ placed' = IF r \in Staged THEN placed ELSE placed \cup {Len(imports) + 1}
  /\ UNCHANGED <<torrent, blocklist, monitored, preview, disturbances>> /\ Outside

\* A file imported into staging is routed to its library.
Routed(f) ==
  /\ f \in library \ placed /\ placed' = placed \cup {f}
  /\ UNCHANGED <<imports, library, torrent, blocklist, monitored, preview, disturbances>>
  /\ Outside

Concludes(r) ==
  /\ torrent[r] = "unsettled"
  /\ \E s \in {"hidden", "gone"} : torrent' = [torrent EXCEPT ![r] = s]
  /\ UNCHANGED <<imports, library, placed, blocklist, monitored, preview, disturbances>> /\ Outside

UserRemoves(f) ==
  /\ disturbances < MaxDisturbances /\ disturbances' = disturbances + 1 /\ f \in library
  /\ library' = library \ {f}
  /\ UNCHANGED <<imports, placed, torrent, blocklist, monitored, preview>> /\ Outside

UserMonitors(e) ==
  /\ disturbances < MaxDisturbances /\ disturbances' = disturbances + 1 /\ e \notin monitored
  /\ monitored' = monitored \cup {e}
  /\ UNCHANGED <<imports, library, placed, torrent, blocklist, preview>> /\ Outside
-----------------------------------------------------------------------------
RejectStep ==
  \/ StartReject \/ Reopen \/ InspectAgain \/ SaveRemoved \/ Block \/ DeleteTorrent
  \/ SaveBlocked \/ Monitor \/ Search \/ SaveSearch \/ NeedsReview \/ \E f \in Files : DeleteFile(f)

PassStep ==
  \/ StartPass \/ ReadFiles \/ Backfill \/ RecordFiles
  \/ SaveEvidence \/ Unmonitor \/ SaveReceipts \/ Observe

External ==
  \/ \E r \in Releases : Grab(r) \/ Completes(r) \/ Concludes(r)
  \/ \E r \in Releases, e \in Episodes : Import(r, e)
  \/ \E f \in Files : Routed(f) \/ UserRemoves(f)
  \/ \E e \in Episodes : UserMonitors(e)

Next ==
  \/ \E r \in Releases : Preview(r)
  \/ RejectStep \/ CallFails \/ RejectDies
  \/ PassStep \/ PassFails
  \/ External

\* The downloads job is dispatched again and again and gets the lock again and
\* again; a rejection that has begun goes on: every call of it has a timeout.
Fairness ==
  /\ WF_vars(PassStep) /\ SF_vars(StartPass)
  /\ WF_vars(RejectStep /\ rstep # "idle")

Spec == Init /\ [][Next]_vars
FairSpec == Spec /\ Fairness

-----------------------------------------------------------------------------
(* Properties *)

\* "Persist user intent before any destructive call": every file a rejection has
\* deleted so far is named, with its confirmation, by the last durable attempt,
\* which was previewed when the user confirmed it.
OnlyConfirmedFilesAreRemoved ==
  [][\A f \in library \ library' : rstep = "delete" /\ rstep' = "removed" =>
       Last > 0 /\ f \in attempts[Last].target.files]_vars

\* An attempt that got past "prepared" has reopened the receipts, and no later
\* pass, crash or failure forgets it: every file it names stays excluded from
\* satisfying a retry of the episodes it covers (pompey_delivery.reopen under
\* the lock of the pass that rewrites the whole file).
RejectionsAreKept ==
  \A k \in 1..Last : attempts[k].stage # "prepared" =>
    \A e \in Covers[attempts[k].target.release] :
      attempts[k].target.files \subseteq receipts[e].rejectedFiles

\* What StackLock sees of a rejection and a downloads pass.
Lock == INSTANCE StackLock
  WITH Processes <- {"reject", "pass"}, owner <- lock,
       changing <- {p \in {"reject", "pass"} :
                      \/ p = "reject" /\ rstep # "idle"
                      \/ p = "pass" /\ pstep # "idle"},
       strays <- {}, deaths <- 0

\* The lock is used as StackLock promises: a rejection and a pass each have it from
\* their first read to their last save, whatever call of theirs fails.
LockIsKept == Lock!Spec

\* What Undertaking sees of the attempts.
Removal == INSTANCE Undertaking
  WITH Operations <- 1..MaxAttempts, Confirmations <- 1..MaxPreviews, Things <- Files,
       stage <- [k \in 1..MaxAttempts |-> IF k <= Last THEN attempts[k].stage ELSE "none"],
       used <- {attempts[k].confirmation : k \in 1..Last},
       left <- [k \in 1..MaxAttempts |->
                  IF k <= Last THEN attempts[k].target.files \cap library ELSE {}],
       barred <- {k \in 1..Last : attempts[k].target.release \in blocklist},
       active <- (IF rstep = "idle" THEN {} ELSE {Last})

\* "Interrupted operations retain their completed steps for review and are never
\* automatically replayed" (src/README.md:72): an attempt goes from its confirmation
\* through removal and blocklisting to the search, in this order; wherever a call
\* fails, an import races or the setup server dies, its record says no more than what
\* was done, and no record moves after its operation ended.
RejectsAsConfirmed == Removal!Spec

\* "Excludes the rejected file from satisfying that retry": no delivery rests on
\* a file that was rejected for its episode.
DeliveryIsNotRejected ==
  \A e \in Episodes : receipts[e].status = "delivered" =>
    receipts[e].file \notin receipts[e].rejectedFiles

\* "Records evidence before disabling monitoring": the pass takes an episode off
\* monitoring only when deliveries.json already says it was delivered.
EvidenceComesFirst ==
  [][\A e \in monitored \ monitored' : receipts[e].status = "delivered"]_vars

\* An episode whose replacement was searched for and has not been delivered is
\* monitored, so that the application goes on looking.
RetriesAreMonitored ==
  \A k \in 1..Last : \A e \in Covers[attempts[k].target.release] :
    /\ attempts[k].stage = "retry-requested"
    /\ \A j \in 1..Last : j > k => e \notin Covers[attempts[j].target.release]
    /\ receipts[e].status = "retrying"
    => e \in monitored

\* "Never automatically replayed": a confirmation makes at most one attempt.
NeverReplayed ==
  \A j, k \in 1..Last : attempts[j].confirmation = attempts[k].confirmation => j = k

\* A search for a replacement is requested only after the rejected release was
\* blocklisted and every file of it that the user confirmed is gone.
SearchFollowsRejection ==
  \A k \in 1..Last : attempts[k].stage = "retry-requested" =>
    /\ attempts[k].target.release \in blocklist
    /\ attempts[k].target.files \cap library = {}

\* "Imported" is never said of a release the user rejected: since the last
\* attempt every episode of the sequence was imported from another one.
ImportedMeansReplaced ==
  status = "Imported" =>
    \A e \in Covers[attempts[1].target.release] : \E f \in 1..Len(imports) :
      /\ imports[f].episode = e /\ f > attempts[Last].at
      /\ \A k \in 1..Last : attempts[k].target.release # imports[f].release

\* Once every episode was replaced, the sequence says so, after whatever review
\* it needed, unless another release is rejected.
OutcomeIsSeen == Replaced ~> (status = "Imported" \/ ~Replaced)

\* "Records delivery and stops its automatic monitoring": while a file that was
\* not rejected lies in its final library, monitoring ends for good.
DeliveryStopsMonitoring ==
  \A e \in Episodes :
    <>[](\E f \in FileOf(e) \cap placed : f \notin receipts[e].rejectedFiles)
      => <>[](e \notin monitored)
=============================================================================
