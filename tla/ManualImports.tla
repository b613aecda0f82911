---------------------------- MODULE ManualImports ----------------------------
(***************************************************************************)
(* Downloads the operator grabbed by hand in Prowlarr                      *)
(* (media_policy.manual_imports and check_receipts), the queue items Radarr*)
(* and Sonarr cannot import (observe_blocked_imports), and the notices     *)
(* about both (attention).                                                 *)
(*                                                                         *)
(* It is the last part of the maintenance pass of ImportHandoff.  A pass   *)
(* polls the commands of earlier submissions; asks Radarr and then Sonarr  *)
(* which files of a stopped download they accept, and submits those once:  *)
(* intent saved, POST, acknowledgement saved; and observes the queues.     *)
(* Every change of a receipt is saved at once, so its memory is the disk.  *)
(***************************************************************************)
EXTENDS Naturals, FiniteSets

CONSTANTS
  Torrents,         \* info hashes of the category "prowlarr"
  Files,            \* the parts of a payload
  Commands,         \* identities the Arr applications give to commands
  NoTorrent,        \* cur when no torrent is considered
  NoCommand,        \* the command of a receipt that has none
  Matches,          \* which files each application may accept of a payload
  Queues,           \* the applications whose queue has an item that may block
  MaxDisturbances   \* bound: aborted passes, resumes, removals, silent answers

Apps == {"radarr", "sonarr"}

ASSUME ManualAssumption ==
  /\ NoTorrent \notin Torrents /\ NoCommand \notin Commands
  /\ Matches \subseteq [Apps -> SUBSET Files] /\ Queues \subseteq Apps
  /\ MaxDisturbances \in Nat

VARIABLES
  \* qBittorrent, the applications and the clock (external)
  torrent,   \* state of each hash in qBittorrent
  files,     \* parts of its payload still in the download directory
  accepts,   \* parts each application would import
  status,    \* native state of each command
  target,    \* torrent a command was submitted for
  old,       \* receipts submitted more than a day ago
  blocked,   \* applications whose queue shows a blocked import
  \* Pompey
  journal,   \* receipts on disk: state/manual-imports.json
  noted,     \* state/blocked-imports.json: age of each first sight
  pc, app, todo, seen, cur, cid, \* control state of the running pass
  disturbances

client == <<torrent, files, accepts>>
arr == <<status, target, old>>
queue == <<blocked, noted>>
vars == <<torrent, files, accepts, status, target, old, blocked, journal, noted,
          pc, app, todo, seen, cur, cid, disturbances>>

-----------------------------------------------------------------------------
Phases == {"none", "submitting", "submitted", "review", "complete"}
Receipt == [phase : Phases, command : Commands \cup {NoCommand},
            files : SUBSET Files, error : BOOLEAN]
NoReceipt == [phase |-> "none", command |-> NoCommand, files |-> {}, error |-> FALSE]
Statuses == {"unused", "sent", "lost", "running", "completed", "failed", "expired"}

TypeOK ==
  /\ torrent \in [Torrents -> {"absent", "seeding", "stopped"}]
  /\ files \in [Torrents -> SUBSET Files]
  /\ accepts \in [Torrents -> [Apps -> SUBSET Files]]
  /\ status \in [Commands -> Statuses]
  /\ target \in [Commands -> Torrents \cup {NoTorrent}]
  /\ old \in SUBSET Torrents /\ blocked \in SUBSET Queues
  /\ journal \in [Torrents -> Receipt]
  /\ noted \in [Queues -> {"none", "new", "old"}]
  /\ pc \in {"idle", "poll", "scan", "ask", "post", "await", "observe"}
  /\ app \in Apps /\ todo \in SUBSET Torrents /\ seen \in SUBSET Torrents
  /\ cur \in Torrents \cup {NoTorrent} /\ cid \in Commands \cup {NoCommand}
  /\ disturbances \in Nat

Init ==
  /\ torrent = [t \in Torrents |-> "seeding"]
  /\ files = [t \in Torrents |-> Files]
  /\ accepts \in [Torrents -> Matches]
  /\ status = [c \in Commands |-> "unused"]
  /\ target = [c \in Commands |-> NoTorrent]
  /\ old = {} /\ blocked = {}
  /\ journal = [t \in Torrents |-> NoReceipt]
  /\ noted = [q \in Queues |-> "none"]
  /\ pc = "idle" /\ app = "radarr" /\ todo = {} /\ seen = {}
  /\ cur = NoTorrent /\ cid = NoCommand
  /\ disturbances = 0

-----------------------------------------------------------------------------
(* Helpers of the pass *)

Live(c) == status[c] \in {"sent", "running"}

Disturb == disturbances < MaxDisturbances /\ disturbances' = disturbances + 1

\* The receipts whose command is polled.
Polled == {t \in Torrents : /\ journal[t].phase = "submitted"
                            /\ journal[t].command # NoCommand}

\* What the pass requires before it asks the applications.
Ready(t) == t \in seen /\ journal[t].phase = "none" /\ files[t] # {}

\* The pass ends or dies; what it read is gone.
Leave ==
  /\ pc' = "idle" /\ app' = "radarr" /\ todo' = {} /\ seen' = {}
  /\ cur' = NoTorrent /\ cid' = NoCommand

-----------------------------------------------------------------------------
(* The steps of a pass *)

\* The list the pass works from names the stopped downloads.
FetchAgain ==
  /\ pc = "idle" /\ pc' = "poll"
  /\ seen' = {t \in Torrents : torrent[t] = "stopped"}
  /\ todo' = Polled
  /\ UNCHANGED <<client, arr, queue, journal, app, cur, cid, disturbances>>

\* The command cannot be read: an error on the receipt, which stays submitted.
PollFails(t) ==
  /\ pc = "poll" /\ t \in todo /\ todo' = todo \ {t}
  /\ journal' = [journal EXCEPT ![t].error = TRUE]
  /\ UNCHANGED <<client, arr, queue, pc, app, seen, cur, cid, disturbances>>

\* Faults: a command that never ends is waited for; any command completes.
SettledInTime(t, receipt) ==
  CASE status[receipt.command] = "completed" /\ files[t] \cap receipt.files = {} ->
         [receipt EXCEPT !.phase = "complete", !.error = FALSE]
    [] status[receipt.command] = "completed" ->
         [receipt EXCEPT !.phase = "review", !.error = FALSE]
    [] status[receipt.command] \in {"failed", "expired"} ->
         [receipt EXCEPT !.phase = "review", !.error = TRUE]
    [] OTHER -> [receipt EXCEPT !.error = FALSE]
SettledAnyway(t, receipt) ==
  [receipt EXCEPT !.phase = "complete", !.error = FALSE]

\* What a native command's state makes of its receipt: complete only when it is
\* completed and every file is gone; failed, forgotten (404) or unfinished after
\* a day goes to review, with the error.
Settled(t, receipt) ==
  CASE status[receipt.command] = "completed" /\ files[t] \cap receipt.files = {} ->
         [receipt EXCEPT !.phase = "complete", !.error = FALSE]
    [] status[receipt.command] = "completed" ->
         [receipt EXCEPT !.phase = "review", !.error = FALSE]
    [] status[receipt.command] \in {"failed", "expired"} \/ t \in old ->
         [receipt EXCEPT !.phase = "review", !.error = TRUE]
    [] OTHER -> [receipt EXCEPT !.error = FALSE]

PollReceipt(t) ==
  /\ pc = "poll" /\ t \in todo /\ todo' = todo \ {t}
  /\ journal' = [journal EXCEPT ![t] = Settled(t, journal[t])]
  /\ UNCHANGED <<client, arr, queue, pc, app, seen, cur, cid, disturbances>>

EndPolls ==
  /\ pc = "poll" /\ todo = {} /\ pc' = "scan" /\ todo' = seen
  /\ UNCHANGED <<client, arr, queue, journal, app, seen, cur, cid, disturbances>>

Consider(t) ==
  /\ pc = "scan" /\ t \in todo /\ todo' = todo \ {t}
  /\ IF Ready(t) THEN pc' = "ask" /\ cur' = t ELSE UNCHANGED <<pc, cur>>
  /\ app' = "radarr"
  /\ UNCHANGED <<client, arr, queue, journal, seen, cid, disturbances>>

\* Fault: the request leaves before the intent is saved.
AskUnsaved ==
  /\ pc = "ask" /\ accepts[cur][app] \cap files[cur] # {} /\ pc' = "post"
  /\ UNCHANGED <<client, arr, queue, journal, app, todo, seen, cur, cid, disturbances>>

\* The application accepts files: the intent to import those is saved.
Ask ==
  /\ pc = "ask" /\ accepts[cur][app] \cap files[cur] # {}
  /\ journal' = [journal EXCEPT ![cur] =
                   [phase |-> "submitting", command |-> NoCommand,
                    files |-> accepts[cur][app] \cap files[cur], error |-> FALSE]]
  /\ pc' = "post"
  /\ UNCHANGED <<client, arr, queue, app, todo, seen, cur, cid, disturbances>>

\* Fault: what Radarr does not accept is not offered to Sonarr.
AskNobodyElse ==
  /\ pc = "ask" /\ accepts[cur][app] \cap files[cur] = {}
  /\ pc' = "scan" /\ cur' = NoTorrent
  /\ UNCHANGED <<client, arr, queue, journal, app, todo, seen, cid, disturbances>>

\* It accepts none: Sonarr is asked after Radarr, then the next download.
AskNext ==
  /\ pc = "ask" /\ accepts[cur][app] \cap files[cur] = {}
  /\ IF app = "radarr" THEN app' = "sonarr" /\ UNCHANGED <<pc, cur>>
                       ELSE pc' = "scan" /\ cur' = NoTorrent /\ UNCHANGED app
  /\ UNCHANGED <<client, arr, queue, journal, todo, seen, cid, disturbances>>

Post(c) ==
  /\ pc = "post" /\ status[c] = "unused" /\ pc' = "await" /\ cid' = c
  /\ status' = [status EXCEPT ![c] = "sent"]
  /\ target' = [target EXCEPT ![c] = cur]
  /\ UNCHANGED <<client, old, queue, journal, app, todo, seen, cur, disturbances>>

Acknowledged(command) ==
  /\ pc = "await" /\ status[cid] \notin {"sent", "lost"}
  /\ journal' = [journal EXCEPT
                   ![cur] = [@ EXCEPT !.phase = "submitted", !.command = command]]
  /\ pc' = "scan" /\ cur' = NoTorrent /\ cid' = NoCommand
  /\ UNCHANGED <<client, arr, queue, app, todo, seen>>

SaveAcknowledgement == Acknowledged(cid) /\ UNCHANGED disturbances

\* The answer names no command: nobody will ever poll this receipt.
SaveWithoutCommand == Acknowledged(NoCommand) /\ Disturb

\* A request that got nowhere times out: the exception ends the pass.
SubmissionFails ==
  /\ pc = "await" /\ status[cid] = "lost"
  /\ Leave
  /\ UNCHANGED <<client, arr, queue, journal, disturbances>>

EndScan ==
  /\ pc = "scan" /\ todo = {} /\ pc' = "observe"
  /\ UNCHANGED <<client, arr, queue, journal, app, todo, seen, cur, cid, disturbances>>

\* Fault: the queue is noted as if it had never been seen.
SightAnew(q) == IF q \in blocked THEN "new" ELSE "none"

\* The first sight of a blocked item is kept as long as it stays blocked.
Sight(q) ==
  CASE q \notin blocked -> "none"
    [] noted[q] = "none" -> "new"
    [] OTHER -> noted[q]

\* A queue that cannot be read keeps what was noted about it.
Observe ==
  /\ pc = "observe"
  /\ \E unread \in SUBSET Queues :
       /\ noted' = [q \in Queues |-> IF q \in unread THEN noted[q] ELSE Sight(q)]
       /\ IF unread = {} THEN UNCHANGED disturbances ELSE Disturb
  /\ Leave
  /\ UNCHANGED <<client, arr, blocked, journal>>

\* An error of any other call (the hand-over's, a preview's, the request's), the
\* job's timeout or a crash.
Abort ==
  /\ pc # "idle" /\ Leave /\ Disturb
  /\ UNCHANGED <<client, arr, queue, journal>>

-----------------------------------------------------------------------------
(* qBittorrent, the applications, the operator and the clock (external) *)

\* A download that was removed is added again and finished.
Arrive(t) ==
  /\ torrent[t] = "absent" /\ torrent' = [torrent EXCEPT ![t] = "seeding"]
  /\ files' = [files EXCEPT ![t] = Files]
  /\ \E match \in Matches : accepts' = [accepts EXCEPT ![t] = match]
  /\ UNCHANGED <<arr, queue, journal, pc, app, todo, seen, cur, cid, disturbances>>

\* The maintenance pass had it stopped (ImportHandoff.StopAtGoal) and it has.
StopSettles(t) ==
  /\ torrent[t] = "seeding" /\ torrent' = [torrent EXCEPT ![t] = "stopped"]
  /\ UNCHANGED <<files, accepts, arr, queue, journal, pc, app, todo, seen, cur, cid,
                 disturbances>>

Resume(t) ==
  /\ torrent[t] = "stopped" /\ torrent' = [torrent EXCEPT ![t] = "seeding"]
  /\ Disturb
  /\ UNCHANGED <<files, accepts, arr, queue, journal, pc, app, todo, seen, cur, cid>>

\* The operator removes a torrent, with what it left or not, or takes a file.
Remove(t) ==
  /\ torrent[t] # "absent" /\ torrent' = [torrent EXCEPT ![t] = "absent"]
  /\ \E left \in {files[t], {}} : files' = [files EXCEPT ![t] = left]
  /\ Disturb
  /\ UNCHANGED <<accepts, arr, queue, journal, pc, app, todo, seen, cur, cid>>

TakeByHand(t, f) ==
  /\ f \in files[t] /\ files' = [files EXCEPT ![t] = @ \ {f}]
  /\ Disturb
  /\ UNCHANGED <<torrent, accepts, arr, queue, journal, pc, app, todo, seen, cur, cid>>

SetStatus(c, s) ==
  /\ status' = [status EXCEPT ![c] = s]
  /\ UNCHANGED <<client, target, old, queue, journal, pc, app, todo, seen, cur, cid,
                 disturbances>>

\* The request reaches the application, or never does.
Accept(c) == status[c] = "sent" /\ SetStatus(c, "running")
Lose(c) == status[c] = "sent" /\ SetStatus(c, "lost")

\* The native import moves its files one by one and ends, with or without all.
Import(c, f) ==
  /\ status[c] = "running" /\ f \in files[target[c]] \cap journal[target[c]].files
  /\ files' = [files EXCEPT ![target[c]] = @ \ {f}]
  /\ UNCHANGED <<torrent, accepts, arr, queue, journal, pc, app, todo, seen, cur, cid,
                 disturbances>>

Finish(c) == status[c] = "running" /\ \E s \in {"completed", "failed"} : SetStatus(c, s)
Expire(c) == status[c] \in {"completed", "failed"} /\ SetStatus(c, "expired")

\* A day after the submission; five minutes after the first sight.
DayPasses(t) ==
  /\ journal[t].phase = "submitted" /\ t \notin old /\ old' = old \cup {t}
  /\ UNCHANGED <<client, status, target, queue, journal, pc, app, todo, seen, cur, cid,
                 disturbances>>

MinutesPass(q) ==
  /\ noted[q] = "new" /\ noted' = [noted EXCEPT ![q] = "old"]
  /\ UNCHANGED <<client, arr, blocked, journal, pc, app, todo, seen, cur, cid,
                 disturbances>>

Block(q) ==
  /\ q \notin blocked /\ blocked' = blocked \cup {q}
  /\ UNCHANGED <<client, arr, noted, journal, pc, app, todo, seen, cur, cid,
                 disturbances>>

Unblock(q) ==
  /\ q \in blocked /\ blocked' = blocked \ {q} /\ Disturb
  /\ UNCHANGED <<client, arr, noted, journal, pc, app, todo, seen, cur, cid>>

-----------------------------------------------------------------------------
PassStep ==
  \/ FetchAgain \/ EndPolls \/ Ask \/ AskNext
  \/ \E t \in Torrents : PollReceipt(t) \/ PollFails(t) \/ Consider(t)
  \/ \E c \in Commands : Post(c)
  \/ SaveAcknowledgement \/ SubmissionFails \/ EndScan \/ Observe

Answer(c) == Accept(c) \/ Lose(c)

Environment ==
  \/ \E t \in Torrents :
       \/ Arrive(t) \/ StopSettles(t) \/ Resume(t) \/ Remove(t) \/ DayPasses(t)
       \/ \E f \in Files : TakeByHand(t, f)
  \/ \E c \in Commands :
       \/ Answer(c) \/ Finish(c) \/ Expire(c)
       \/ \E f \in Files : Import(c, f)
  \/ \E q \in Queues : MinutesPass(q) \/ Block(q) \/ Unblock(q)

Next == PassStep \/ SaveWithoutCommand \/ Abort \/ Environment

\* The controller starts a pass every interval, a request is answered or times
\* out, qBittorrent stops what it was told to, and time passes.  A native command
\* need not ever end.
Fairness ==
  /\ WF_vars(PassStep)
  /\ \A t \in Torrents : WF_vars(StopSettles(t)) /\ WF_vars(DayPasses(t))
  /\ \A c \in Commands : WF_vars(Answer(c))
  /\ \A q \in Queues : WF_vars(MinutesPass(q))

Spec == Init /\ [][Next]_vars
FairSpec == Spec /\ Fairness

-----------------------------------------------------------------------------
(* Properties *)

\* What SubmitOnce sees of the manual imports.
Recorded == [t \in Torrents |-> journal[t].phase]
Permitted == {t \in Torrents : pc = "post" /\ cur = t}
AtWork == {t \in Torrents : \E c \in Commands : Live(c) /\ target[c] = t}

Once == INSTANCE SubmitOnce
  WITH Items <- Torrents, record <- Recorded, permit <- Permitted, live <- AtWork

\* Whatever dies between intent, POST and acknowledgement, and whatever the
\* polls make of a command, no download is submitted on a stale or missing
\* record, and no record is completed over an import at work.
SubmitsOnce == Once!Spec

\* A hash is submitted once for all time, to one application only, even when
\* its torrent is removed and added again.
AtMostOnceEver ==
  \A c, d \in Commands :
    status[c] # "unused" /\ status[d] # "unused" /\ target[c] = target[d] => c = d

\* attention(): what the operator is told about.
Noticed(t) ==
  \/ journal[t].error \/ journal[t].phase \in {"submitting", "review"}
  \/ journal[t].phase = "submitted" /\ journal[t].command = NoCommand

\* Every submission ends complete or in front of the operator and stays there,
\* though commands hang, vanish or cannot be read and passes die.
SubmissionsEndOrAreNoticed ==
  \A t \in Torrents :
    journal[t].phase # "none" ~> [](journal[t].phase = "complete" \/ Noticed(t))

\* A download that stays where it is with files an application accepts is
\* submitted in the end, by Sonarr when Radarr wants none of it.
FinishedIsSubmitted ==
  \A t \in Torrents :
    <>[](torrent[t] # "absent" /\ \E a \in Apps : accepts[t][a] \cap files[t] # {})
      => <>(journal[t].phase # "none")

\* An import that stays blocked is shown to the operator for good, five minutes
\* after its first sight, through passes that die and queues that are not read.
BlockedIsNoticed == \A q \in Queues : <>[](q \in blocked) => <>[](noted[q] = "old")
=============================================================================
