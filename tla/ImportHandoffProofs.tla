------------------------ MODULE ImportHandoffProofs ------------------------
(***************************************************************************)
(* Proofs about ImportHandoff: types, that no download ever has two native *)
(* imports at work, nor one behind a settled receipt, that it implements   *)
(* SubmitOnce, and that complete lists make every addition's import single.*)
(*                                                                         *)
(* The argument: a command that may still run is covered by a receipt      *)
(* "submitting" or "submitted" on disk and in the memory of every pass     *)
(* that loaded it; a "submitted" receipt names the only such command; and  *)
(* evidence of an import (a queue row) excludes such a command.            *)
(***************************************************************************)
EXTENDS ImportHandoff, TLAPS

NoLive(t) == \A c \in Commands : target[c] = t => ~Live(c)

\* Receipts r cover every command that may still run.
Covers(r) ==
  \A t \in Torrents :
    /\ r[t].phase \notin {"submitting", "submitted"} => NoLive(t)
    /\ r[t].phase = "submitted" =>
         /\ r[t].command \in Commands
         /\ \A c \in Commands : Live(c) /\ target[c] = t => c = r[t].command

Working == {"poll", "scan", "post", "await"}

UsedHasTorrent ==
  \A c \in Commands : status[c] # "unused" => target[c] \in Torrents

Submitting ==
  pc \in {"post", "await"} =>
    /\ cur \in Torrents /\ cur \notin listed
    /\ mem[cur].phase = "submitting" /\ journal[cur].phase = "submitting"

BeforePost == pc = "post" => NoLive(cur) /\ ~Imported(cur)

AfterPost ==
  pc = "await" =>
    /\ cid \in Commands /\ target[cid] = cur /\ status[cid] # "unused"
    /\ \A c \in Commands : Live(c) /\ target[c] = cur => c = cid

ImportedIsOver ==
  \A t \in Torrents :
    /\ imported[t] <= incarnation[t]
    /\ torrent[t] = "downloading" => ~files[t]
    /\ Imported(t) => ~files[t] /\ torrent[t] # "downloading" /\ NoLive(t)

ListedIsOver ==
  /\ \A t \in listed : NoLive(t)
  /\ pc \in {"idle", "list", "gate", "poll"} => listed = {}

PollsSubmitted == pc = "poll" => \A t \in todo : mem[t].phase = "submitted"

\* How far the memory of a pass may be ahead of the disk: an intent is forgotten
\* by neither, and what the memory alone completed or dropped, the list showed.
Ahead(t, disk, memory) ==
  \/ memory = disk
  \/ disk \in {"submitting", "submitted", "review"} /\ memory = "complete"
       /\ (disk = "submitting" => seen[t] # "absent")
  \/ disk = "submitted" /\ memory = "review"
  \/ disk \in {"review", "complete"} /\ memory = "none" /\ seen[t] = "absent"

Drift ==
  /\ pc \in Working => \A t \in Torrents : Ahead(t, journal[t].phase, mem[t].phase)
  /\ \A t \in listed : seen[t] # "absent"

IInv ==
  /\ TypeOK
  /\ UsedHasTorrent
  /\ NoConcurrentImports
  /\ Covers(journal)
  /\ pc \in Working => Covers(mem)
  /\ Submitting
  /\ BeforePost
  /\ AfterPost
  /\ ImportedIsOver
  /\ ListedIsOver
  /\ PollsSubmitted

-----------------------------------------------------------------------------
(* Type correctness *)

LEMMA PrunedType ==
  ASSUME NEW r \in [Torrents -> Receipt],
         NEW list \in [Torrents -> {"absent", "other", "stopped"}]
  PROVE  Pruned(r, list) \in [Torrents -> Receipt]
  BY DEF Pruned, NoReceipt, Receipt, Phases

LEMMA InitType == Init => TypeOK
  <1>1. NoReceipts \in [Torrents -> Receipt]
    BY DEF NoReceipts, NoReceipt, Receipt, Phases
  <1>2. ASSUME Init
        PROVE  /\ torrent \in [Torrents -> TorrentStates]
               /\ status \in [Commands -> Statuses]
               /\ target \in [Commands -> Torrents \cup {NoTorrent}]
               /\ seen \in [Torrents -> {"absent", "other", "stopped"}]
               /\ cdh \in [Apps -> BOOLEAN] /\ moving \in [Apps -> BOOLEAN]
    BY <1>2 DEF Init, TorrentStates, Statuses
  <1>3. ASSUME Init
        PROVE  /\ incarnation \in [Torrents -> Nat] /\ imported \in [Torrents -> Nat]
               /\ owner \in [Torrents -> {"none", "one", "many"}]
               /\ files \in [Torrents -> BOOLEAN] /\ born \in [Commands -> Nat]
               /\ leftover \in SUBSET Torrents
    BY <1>3 DEF Init
  <1>4. ASSUME Init
        PROVE  /\ pc \in PassStates /\ app \in Apps /\ todo \in SUBSET Torrents
               /\ busy \in BOOLEAN /\ listed \in SUBSET Torrents
               /\ cur \in Torrents \cup {NoTorrent}
               /\ cid \in Commands \cup {NoCommand} /\ disturbances \in Nat
    BY <1>4 DEF Init, PassStates, Apps
  <1>5. ASSUME Init
        PROVE  journal \in [Torrents -> Receipt] /\ mem \in [Torrents -> Receipt]
    BY <1>1, <1>5 DEF Init
  <1>6. QED
    BY <1>2, <1>3, <1>4, <1>5 DEF TypeOK

LEMMA LeaveType ==
  ASSUME Leave
  PROVE  /\ pc' \in PassStates /\ app' \in Apps /\ todo' \in SUBSET Torrents
         /\ seen' \in [Torrents -> {"absent", "other", "stopped"}]
         /\ mem' \in [Torrents -> Receipt] /\ busy' \in BOOLEAN
         /\ listed' \in SUBSET Torrents
         /\ cur' \in Torrents \cup {NoTorrent} /\ cid' \in Commands \cup {NoCommand}
  BY DEF Leave, PassStates, Apps, NoReceipts, NoReceipt, Receipt, Phases

LEMMA AdvanceType ==
  ASSUME TypeOK, Advance
  PROVE  /\ pc' \in PassStates /\ app' \in Apps /\ todo' \in SUBSET Torrents
         /\ seen' \in [Torrents -> {"absent", "other", "stopped"}]
         /\ mem' \in [Torrents -> Receipt] /\ busy' \in BOOLEAN
         /\ listed' \in SUBSET Torrents
         /\ cur' \in Torrents \cup {NoTorrent} /\ cid' \in Commands \cup {NoCommand}
         /\ journal' \in [Torrents -> Receipt]
  <1>1. CASE Enter("sonarr", mem) /\ UNCHANGED journal
    BY <1>1 DEF Enter, TypeOK, PassStates, Apps
  <1>2. CASE journal' = Pruned(mem, seen) /\ Leave
    BY <1>2, LeaveType, PrunedType DEF TypeOK
  <1>3. QED
    BY <1>1, <1>2 DEF Advance

LEMMA PassStepType ==
  ASSUME TypeOK, Submitting, PassStep
  PROVE  TypeOK'
  <1>1. CASE StopAtGoal
    BY <1>1 DEF StopAtGoal, TypeOK, TorrentStates, PassStates, arr
  <1>2. CASE FetchAgain
    BY <1>2 DEF FetchAgain, TypeOK, PassStates, arr, qbit
  <1>3. CASE CloseGate
    BY <1>3, PrunedType DEF CloseGate, Enter, TypeOK, PassStates, Apps, qbit
  <1>4. CASE Inspect
    <2>1. CASE Advance
      BY <1>4, <2>1, AdvanceType DEF Inspect, TypeOK, qbit, arr
    <2>2. CASE pc' = "scan"
      BY <1>4, <2>2 DEF Inspect, Advance, Enter, Leave, TypeOK, PassStates, qbit, arr
    <2>3. QED
      BY <1>4, <2>1, <2>2 DEF Inspect
  <1>5. ASSUME NEW t \in Torrents, PollReceipt(t)
        PROVE  TypeOK'
    BY <1>5 DEF PollReceipt, TypeOK, Receipt, Phases, qbit, arr
  <1>6. ASSUME NEW t \in Torrents, ScanKnown(t)
        PROVE  TypeOK'
    BY <1>6 DEF ScanKnown, Scanning, TypeOK, Receipt, Phases, qbit, arr
  <1>7. ASSUME NEW t \in Torrents, ScanSkip(t)
        PROVE  TypeOK'
    BY <1>7 DEF ScanSkip, Scanning, TypeOK, qbit, arr
  <1>8. ASSUME NEW t \in Torrents, ScanFull(t)
        PROVE  TypeOK'
    BY <1>8, LeaveType DEF ScanFull, TypeOK, qbit, arr
  <1>9. ASSUME NEW t \in Torrents, SaveIntent(t)
        PROVE  TypeOK'
    BY <1>9 DEF SaveIntent, Scanning, TypeOK, Receipt, Phases, PassStates, qbit, arr
  <1>10. ASSUME NEW c \in Commands, Post(c)
         PROVE  TypeOK'
    BY <1>10 DEF Post, Submitting, TypeOK, Statuses, PassStates, qbit
  <1>11. CASE SaveAcknowledgement
    BY <1>11 DEF SaveAcknowledgement, TypeOK, Receipt, Phases, PassStates, qbit, arr
  <1>12. CASE SubmissionFails
    BY <1>12, LeaveType DEF SubmissionFails, TypeOK, qbit, arr
  <1>13. CASE EndApplication
    BY <1>13, AdvanceType DEF EndApplication, TypeOK, qbit, arr
  <1>14. QED
    BY <1>1, <1>2, <1>3, <1>4, <1>5, <1>6, <1>7, <1>8, <1>9, <1>10, <1>11,
       <1>12, <1>13 DEF PassStep

LEMMA SetStatusType ==
  ASSUME TypeOK, NEW c \in Commands, NEW s \in Statuses, SetStatus(c, s),
         files' \in [Torrents -> BOOLEAN], imported' \in [Torrents -> Nat],
         UNCHANGED <<torrent, incarnation, owner, leftover>>
  PROVE  TypeOK'
  BY DEF SetStatus, TypeOK, pass

LEMMA EnvironmentType ==
  ASSUME TypeOK, UsedHasTorrent, Environment
  PROVE  TypeOK'
  <1>1. ASSUME NEW t \in Torrents, Grab(t)
        PROVE  TypeOK'
    <2>1. owner' \in [Torrents -> {"none", "one", "many"}]
      BY <1>1, HandoffAssumption DEF Grab, TypeOK
    <2>2. QED
      BY <1>1, <2>1 DEF Grab, TypeOK, TorrentStates, arr, pass
  <1>2. ASSUME NEW t \in Torrents,
               FinishDownload(t) \/ StopSettles(t) \/ Resume(t)
        PROVE  TypeOK'
    <2>1. CASE FinishDownload(t)
      BY <2>1 DEF FinishDownload, TypeOK, TorrentStates, arr, pass
    <2>2. CASE StopSettles(t)
      BY <2>2 DEF StopSettles, TypeOK, TorrentStates, arr, pass
    <2>3. CASE Resume(t)
      BY <2>3 DEF Resume, TypeOK, TorrentStates, arr, pass
    <2>4. QED
      BY <1>2, <2>1, <2>2, <2>3
  <1>3. ASSUME NEW t \in Torrents, Remove(t)
        PROVE  TypeOK'
    BY <1>3 DEF Remove, TypeOK, TorrentStates, arr, pass
  <1>4. ASSUME NEW t \in Torrents, OperatorImport(t)
        PROVE  TypeOK'
    BY <1>4 DEF OperatorImport, TypeOK, arr, pass
  <1>5. ASSUME NEW c \in Commands, Import(c)
        PROVE  TypeOK'
    <2>1. target[c] \in Torrents
      BY <1>5 DEF Import, UsedHasTorrent
    <2>2. /\ files' \in [Torrents -> BOOLEAN] /\ imported' \in [Torrents -> Nat]
          /\ "completed" \in Statuses
      BY <1>5, <2>1 DEF Import, TypeOK, Statuses
    <2>3. QED
      BY <1>5, <2>2, SetStatusType DEF Import
  <1>6. ASSUME NEW c \in Commands,
               Accept(c) \/ Lose(c) \/ Expire(c) \/ Reject(c)
        PROVE  TypeOK'
    <2>1. PICK s \in Statuses : SetStatus(c, s)
      BY <1>6 DEF Accept, Lose, Expire, Reject, Statuses
    <2>2. UNCHANGED qbit
      BY <1>6 DEF Accept, Lose, Expire, Reject
    <2>3. QED
      BY <2>1, <2>2, SetStatusType DEF qbit, TypeOK
  <1>7. ASSUME NEW a \in Apps,
               BeginMove(a) \/ EndMove(a) \/ EnableAutomaticImport(a)
        PROVE  TypeOK'
    <2>1. CASE BeginMove(a)
      BY <2>1 DEF BeginMove, TypeOK, qbit, pass
    <2>2. CASE EndMove(a)
      BY <2>2 DEF EndMove, TypeOK, qbit, pass
    <2>3. CASE EnableAutomaticImport(a)
      BY <2>3 DEF EnableAutomaticImport, TypeOK, qbit, pass
    <2>4. QED
      BY <1>7, <2>1, <2>2, <2>3
  <1>8. QED
    BY <1>1, <1>2, <1>3, <1>4, <1>5, <1>6, <1>7 DEF Environment, ArrStep

LEMMA StepType ==
  ASSUME TypeOK, Submitting, UsedHasTorrent, [Next]_vars
  PROVE  TypeOK'
  <1>1. CASE Abort
    BY <1>1, LeaveType DEF Abort, TypeOK, qbit, arr
  <1>2. CASE UNCHANGED vars
    BY <1>2 DEF vars, TypeOK
  <1>3. QED
    BY <1>1, <1>2, PassStepType, EnvironmentType DEF Next

-----------------------------------------------------------------------------
(* The inductive invariant *)

LEMMA InitIInv == Init => IInv
  <1> SUFFICES ASSUME Init
               PROVE  IInv
    OBVIOUS
  <1>1. TypeOK
    BY InitType
  <1>2. \A c \in Commands : status[c] = "unused" /\ ~Live(c)
    BY DEF Init, Live
  <1>3. \A t \in Torrents : NoLive(t)
    BY <1>2 DEF NoLive
  <1>4. Covers(journal)
    BY <1>3 DEF Init, Covers, NoReceipts, NoReceipt
  <1>5. ImportedIsOver
    BY <1>3 DEF Init, ImportedIsOver, Imported
  <1>6. QED
    BY <1>1, <1>2, <1>4, <1>5
       DEF Init, IInv, UsedHasTorrent, NoConcurrentImports, Working, Submitting,
           BeforePost, AfterPost, ListedIsOver, PollsSubmitted

\* Steps in which no command starts and the pass does not move.
LEMMA Frame ==
  ASSUME IInv, TypeOK', ImportedIsOver',
         UNCHANGED <<target, journal, mem, pc, cur, cid, listed, todo>>,
         \A c \in Commands : Live(c)' => Live(c),
         \A c \in Commands : status'[c] # "unused" <=> status[c] # "unused",
         pc = "post" => ~Imported(cur)'
  PROVE  IInv'
  <1>1. \A t : NoLive(t) => NoLive(t)'
    BY DEF NoLive
  <1>2. UsedHasTorrent' /\ NoConcurrentImports'
    BY DEF IInv, UsedHasTorrent, NoConcurrentImports
  <1>3. Covers(journal)' /\ (pc \in Working => Covers(mem))'
    BY <1>1 DEF IInv, Covers
  <1>4. Submitting' /\ PollsSubmitted'
    BY DEF IInv, Submitting, PollsSubmitted
  <1>5. BeforePost' /\ AfterPost' /\ ListedIsOver'
    BY <1>1 DEF IInv, BeforePost, AfterPost, ListedIsOver
  <1>6. QED
    BY <1>2, <1>3, <1>4, <1>5 DEF IInv

\* Steps that change neither commands nor what Arr knows.
LEMMA SameArr ==
  ASSUME IInv, UNCHANGED <<status, target, torrent, incarnation, files, imported>>
  PROVE  /\ UsedHasTorrent' /\ NoConcurrentImports' /\ ImportedIsOver'
         /\ \A c : Live(c)' <=> Live(c)
         /\ \A t : (NoLive(t)' <=> NoLive(t)) /\ (Imported(t)' <=> Imported(t))
  <1>1. \A c : Live(c)' <=> Live(c)
    BY DEF Live
  <1>2. \A t : (NoLive(t)' <=> NoLive(t)) /\ (Imported(t)' <=> Imported(t))
    BY <1>1 DEF NoLive, Imported
  <1>3. UsedHasTorrent' /\ NoConcurrentImports'
    BY <1>1 DEF IInv, UsedHasTorrent, NoConcurrentImports
  <1>4. ImportedIsOver'
    BY <1>2 DEF IInv, ImportedIsOver
  <1>5. QED
    BY <1>1, <1>2, <1>3, <1>4

\* Leaving handoff keeps the invariant when what is saved covers the commands.
LEMMA LeaveIInv ==
  ASSUME IInv, TypeOK', Leave, Covers(journal)',
         UNCHANGED <<status, target, torrent, incarnation, files, imported>>
  PROVE  IInv'
  <1>1. UsedHasTorrent' /\ NoConcurrentImports' /\ ImportedIsOver'
    BY SameArr
  <1>2. pc' = "idle" /\ listed' = {}
    BY DEF Leave
  <1>3. QED
    BY <1>1, <1>2 DEF IInv, Working, Submitting, BeforePost, AfterPost,
                      ListedIsOver, PollsSubmitted

LEMMA JournalKept ==
  ASSUME IInv, UNCHANGED <<status, target, journal>>
  PROVE  Covers(journal)'
  BY DEF IInv, Covers, NoLive, Live

\* Starting on an application with receipts that cover the commands.
LEMMA EnterIInv ==
  ASSUME IInv, TypeOK', NEW a, NEW m, Enter(a, m), Covers(m),
         UNCHANGED <<status, target, torrent, incarnation, files, imported, journal>>
  PROVE  IInv'
  <1>1. /\ UsedHasTorrent' /\ NoConcurrentImports' /\ ImportedIsOver'
        /\ Covers(journal)'
    BY SameArr, JournalKept
  <1>2. mem' = m /\ pc' = "poll" /\ listed' = {}
    BY DEF Enter
  <1>3. Covers(mem)'
    BY <1>2 DEF Covers, NoLive, Live
  <1>4. PollsSubmitted'
    BY DEF Enter, PollsSubmitted
  <1>5. QED
    BY <1>1, <1>2, <1>3, <1>4 DEF IInv, Submitting, BeforePost, AfterPost, ListedIsOver

\* Pruning drops settled receipts only.
LEMMA PrunedCovers ==
  ASSUME NEW r \in [Torrents -> Receipt], NEW list, Covers(r)
  PROVE  Covers(Pruned(r, list))
  BY DEF Covers, Pruned, NoReceipt

LEMMA AdvanceIInv ==
  ASSUME IInv, TypeOK', Advance, pc \in Working,
         UNCHANGED <<status, target, torrent, incarnation, files, imported>>
  PROVE  IInv'
  <1>1. Covers(mem) /\ mem \in [Torrents -> Receipt]
    BY DEF IInv, TypeOK
  <1>2. CASE Enter("sonarr", mem) /\ UNCHANGED journal
    BY <1>1, <1>2, EnterIInv
  <1>3. CASE journal' = Pruned(mem, seen) /\ Leave
    <2>1. Covers(Pruned(mem, seen))
      BY <1>1, PrunedCovers
    <2>2. Covers(journal)'
      BY <1>3, <2>1 DEF Covers, NoLive, Live
    <2>3. QED
      BY <1>3, <2>2, LeaveIInv
  <1>4. QED
    BY <1>2, <1>3 DEF Advance

-----------------------------------------------------------------------------
(* Every step preserves it *)

LEMMA PollIInv ==
  ASSUME IInv, TypeOK', NEW t \in Torrents, PollReceipt(t)
  PROVE  IInv'
  <1>1. UNCHANGED <<status, target, torrent, incarnation, files, imported, journal>>
    BY DEF PollReceipt, qbit, arr
  <1>2. /\ UsedHasTorrent' /\ NoConcurrentImports' /\ ImportedIsOver'
        /\ Covers(journal)'
    BY <1>1, SameArr, JournalKept
  <1>3. Covers(mem) /\ mem[t].phase = "submitted" /\ mem \in [Torrents -> Receipt]
    BY DEF PollReceipt, IInv, Working, PollsSubmitted, TypeOK
  <1>4. Covers(mem)'
    <2>1. CASE ~Ended(mem[t].command)
      BY <1>1, <1>3, <2>1 DEF PollReceipt, Covers, NoLive, Live
    <2>2. CASE Ended(mem[t].command)
      <3>1. NoLive(t)
        BY <1>3, <2>2 DEF Covers, NoLive, Live, Ended
      <3>2. mem' = [mem EXCEPT ![t].phase = "review"]
        BY <2>2 DEF PollReceipt
      <3>3. /\ mem'[t].phase = "review"
            /\ \A u \in Torrents : u # t => mem'[u] = mem[u]
        BY <1>3, <3>2 DEF Receipt
      <3>4. QED
        BY <1>1, <1>3, <3>1, <3>3 DEF Covers, NoLive, Live
    <2>3. QED
      BY <2>1, <2>2
  <1>5. PollsSubmitted'
    BY <1>3 DEF PollReceipt, IInv, PollsSubmitted, TypeOK, Receipt
  <1>6. ListedIsOver'
    BY DEF PollReceipt, IInv, ListedIsOver
  <1>7. QED
    BY <1>2, <1>4, <1>5, <1>6
       DEF PollReceipt, IInv, Submitting, BeforePost, AfterPost

LEMMA InspectIInv ==
  ASSUME IInv, TypeOK', Inspect
  PROVE  IInv'
  <1>1. UNCHANGED <<status, target, torrent, incarnation, files, imported>>
    BY DEF Inspect, qbit, arr
  <1>2. CASE Advance
    BY <1>1, <1>2, AdvanceIInv DEF Inspect, Working
  <1>3. CASE /\ pc' = "scan" /\ UNCHANGED <<mem, cur, cid, journal>>
             /\ \A t \in listed' : t \in Torrents /\ Imported(t)
    <2>1. /\ UsedHasTorrent' /\ NoConcurrentImports' /\ ImportedIsOver'
          /\ Covers(journal)'
      BY <1>1, <1>3, SameArr, JournalKept
    <2>2. Covers(mem)'
      BY <1>1, <1>3 DEF Inspect, IInv, Working, Covers, NoLive, Live
    <2>3. \A t \in listed' : NoLive(t)'
      BY <1>1, <1>3 DEF IInv, ImportedIsOver, NoLive, Live
    <2>4. QED
      BY <1>3, <2>1, <2>2, <2>3
         DEF IInv, Submitting, BeforePost, AfterPost, ListedIsOver, PollsSubmitted
  <1>4. QED
    BY <1>2, <1>3 DEF Inspect

LEMMA ScanIInv ==
  ASSUME IInv, TypeOK', NEW t \in Torrents, ScanKnown(t) \/ ScanSkip(t)
  PROVE  IInv'
  <1>1. /\ UNCHANGED <<status, target, torrent, incarnation, files, imported,
                       journal, pc, listed, cur, cid>>
        /\ pc = "scan"
    BY DEF ScanKnown, ScanSkip, Scanning, qbit, arr
  <1>2. /\ UsedHasTorrent' /\ NoConcurrentImports' /\ ImportedIsOver'
        /\ Covers(journal)'
    BY <1>1, SameArr, JournalKept
  <1>3. Covers(mem) /\ mem \in [Torrents -> Receipt]
    BY <1>1 DEF IInv, Working, TypeOK
  <1>4. Covers(mem)'
    <2>1. CASE mem' = mem
      BY <1>1, <1>3, <2>1 DEF Covers, NoLive, Live
    <2>2. CASE t \in listed /\ mem' = [mem EXCEPT ![t].phase = "complete"]
      <3>1. NoLive(t)
        BY <2>2 DEF IInv, ListedIsOver
      <3>2. /\ mem'[t].phase = "complete"
            /\ \A u \in Torrents : u # t => mem'[u] = mem[u]
        BY <1>3, <2>2 DEF Receipt
      <3>3. QED
        BY <1>1, <1>3, <3>1, <3>2 DEF Covers, NoLive, Live
    <2>3. QED
      BY <2>1, <2>2 DEF ScanKnown, ScanSkip
  <1>5. ListedIsOver'
    BY <1>1 DEF IInv, ListedIsOver, NoLive, Live
  <1>6. QED
    BY <1>1, <1>2, <1>4, <1>5
       DEF IInv, Submitting, BeforePost, AfterPost, PollsSubmitted

LEMMA SaveIntentIInv ==
  ASSUME IInv, TypeOK', NEW t \in Torrents, SaveIntent(t)
  PROVE  IInv'
  <1>1. /\ UNCHANGED <<status, target, torrent, incarnation, files, imported,
                       listed, cid>>
        /\ pc = "scan" /\ pc' = "post" /\ cur' = t /\ journal' = mem'
    BY DEF SaveIntent, Scanning, qbit, arr
  <1>2. UsedHasTorrent' /\ NoConcurrentImports' /\ ImportedIsOver'
    BY <1>1, SameArr
  <1>3. Covers(mem) /\ mem \in [Torrents -> Receipt]
    BY <1>1 DEF IInv, Working, TypeOK
  <1>4. NoLive(t) /\ t \notin listed /\ ~Imported(t)
    BY <1>3 DEF SaveIntent, Eligible, IInv, ImportedIsOver, Covers
  <1>5. /\ mem'[t].phase = "submitting"
        /\ \A u \in Torrents : u # t => mem'[u] = mem[u]
    BY <1>3 DEF SaveIntent
  <1>6. Covers(mem)' /\ Covers(journal)'
    BY <1>1, <1>3, <1>5 DEF Covers, NoLive, Live
  <1>7. Submitting' /\ BeforePost'
    BY <1>1, <1>4, <1>5 DEF Submitting, BeforePost, NoLive, Live, Imported
  <1>8. ListedIsOver'
    BY <1>1 DEF IInv, ListedIsOver, NoLive, Live
  <1>9. QED
    BY <1>1, <1>2, <1>6, <1>7, <1>8 DEF IInv, AfterPost, PollsSubmitted

LEMMA PostIInv ==
  ASSUME IInv, TypeOK', NEW c \in Commands, Post(c)
  PROVE  IInv'
  <1>1. /\ UNCHANGED <<torrent, incarnation, files, imported, journal, mem, listed,
                       cur, todo>>
        /\ pc = "post" /\ pc' = "await" /\ cid' = c
        /\ status[c] = "unused" /\ cur \in Torrents /\ cur \notin listed
        /\ mem[cur].phase = "submitting" /\ journal[cur].phase = "submitting"
        /\ NoLive(cur) /\ ~Imported(cur)
    BY DEF Post, qbit, IInv, Submitting, BeforePost
  <1>2. /\ status'[c] = "sent" /\ target'[c] = cur
        /\ \A d \in Commands : d # c => status'[d] = status[d] /\ target'[d] = target[d]
    BY DEF Post, IInv, TypeOK
  <1>3. \A d \in Commands : d # c => (Live(d)' <=> Live(d))
    BY <1>2 DEF Live
  <1>4. \A t \in Torrents : t # cur /\ NoLive(t) => NoLive(t)'
    BY <1>2, <1>3 DEF NoLive
  <1>5. UsedHasTorrent'
    BY <1>1, <1>2 DEF IInv, UsedHasTorrent
  <1>6. NoConcurrentImports'
    BY <1>1, <1>2, <1>3 DEF IInv, NoConcurrentImports, NoLive
  <1>7. Covers(journal)' /\ Covers(mem)'
    BY <1>1, <1>2, <1>3, <1>4 DEF IInv, Working, Covers
  <1>8. AfterPost'
    BY <1>1, <1>2, <1>3 DEF AfterPost, NoLive
  <1>9. ImportedIsOver'
    BY <1>1, <1>4 DEF IInv, ImportedIsOver, Imported
  <1>10. ListedIsOver'
    BY <1>1, <1>4 DEF IInv, TypeOK, ListedIsOver
  <1>11. QED
    BY <1>1, <1>5, <1>6, <1>7, <1>8, <1>9, <1>10
       DEF IInv, Submitting, BeforePost, PollsSubmitted

LEMMA AcknowledgedIInv ==
  ASSUME IInv, TypeOK', SaveAcknowledgement
  PROVE  IInv'
  <1>1. /\ UNCHANGED <<status, target, torrent, incarnation, files, imported, listed>>
        /\ pc = "await" /\ pc' = "scan" /\ journal' = mem'
    BY DEF SaveAcknowledgement, qbit, arr
  <1>2. UsedHasTorrent' /\ NoConcurrentImports' /\ ImportedIsOver'
    BY <1>1, SameArr
  <1>3. /\ Covers(mem) /\ mem \in [Torrents -> Receipt] /\ cur \in Torrents
        /\ cid \in Commands
        /\ \A c \in Commands : Live(c) /\ target[c] = cur => c = cid
    BY <1>1 DEF IInv, Working, TypeOK, Submitting, AfterPost
  <1>4. /\ mem'[cur] = [phase |-> "submitted", command |-> cid]
        /\ \A u \in Torrents : u # cur => mem'[u] = mem[u]
    BY <1>3 DEF SaveAcknowledgement
  <1>5. Covers(mem)' /\ Covers(journal)'
    BY <1>1, <1>3, <1>4 DEF Covers, NoLive, Live
  <1>6. ListedIsOver'
    BY <1>1 DEF IInv, ListedIsOver, NoLive, Live
  <1>7. QED
    BY <1>1, <1>2, <1>5, <1>6
       DEF IInv, Submitting, BeforePost, AfterPost, PollsSubmitted

LEMMA PassStepIInv ==
  ASSUME IInv, TypeOK', PassStep
  PROVE  IInv'
  <1>1. CASE StopAtGoal
    <2>1. /\ UNCHANGED <<status, target, journal, mem, cur, cid, listed, todo,
                         incarnation, files, imported>>
          /\ pc = "idle" /\ pc' = "list"
          /\ \A t \in Torrents : torrent'[t] = "downloading" => torrent[t] = "downloading"
      BY <1>1 DEF StopAtGoal, arr, IInv, TypeOK
    <2>2. ImportedIsOver'
      BY <2>1 DEF IInv, ImportedIsOver, Imported, NoLive, Live
    <2>3. UsedHasTorrent' /\ NoConcurrentImports' /\ Covers(journal)' /\ ListedIsOver'
      BY <2>1 DEF IInv, UsedHasTorrent, NoConcurrentImports, Covers, ListedIsOver,
                  NoLive, Live
    <2>4. QED
      BY <2>1, <2>2, <2>3 DEF IInv, Working, Submitting, BeforePost, AfterPost,
                              PollsSubmitted
  <1>2. CASE FetchAgain
    <2>1. /\ UNCHANGED <<status, target, torrent, incarnation, files, imported, journal,
                         listed>>
          /\ pc = "list" /\ pc' = "gate"
      BY <1>2 DEF FetchAgain, arr, qbit
    <2>2. /\ UsedHasTorrent' /\ NoConcurrentImports' /\ ImportedIsOver'
          /\ Covers(journal)'
      BY <2>1, SameArr, JournalKept
    <2>3. QED
      BY <2>1, <2>2 DEF IInv, Working, Submitting, BeforePost, AfterPost,
                        ListedIsOver, PollsSubmitted
  <1>3. CASE CloseGate
    <2>1. Covers(Pruned(journal, seen))
      BY PrunedCovers DEF IInv, TypeOK
    <2>2. QED
      BY <1>3, <2>1, EnterIInv DEF CloseGate, qbit
  <1>4. CASE \E t \in Torrents : ScanFull(t)
    BY <1>4, LeaveIInv, JournalKept DEF ScanFull, qbit, arr
  <1>5. CASE SubmissionFails
    BY <1>5, LeaveIInv, JournalKept DEF SubmissionFails, qbit, arr
  <1>6. CASE EndApplication
    BY <1>6, AdvanceIInv DEF EndApplication, Working, qbit, arr
  <1>7. QED
    BY <1>1, <1>2, <1>3, <1>4, <1>5, <1>6, PollIInv, InspectIInv, ScanIInv,
       SaveIntentIInv, PostIInv, AcknowledgedIInv DEF PassStep

LEMMA EnvironmentIInv ==
  ASSUME IInv, TypeOK', Environment
  PROVE  IInv'
  <1>1. ASSUME NEW t \in Torrents, Grab(t)
        PROVE  IInv'
    <2>1. /\ UNCHANGED <<status, target, journal, mem, pc, cur, cid, listed, todo,
                         imported>>
          /\ incarnation' = [incarnation EXCEPT ![t] = @ + 1]
          /\ files' = [files EXCEPT ![t] = FALSE]
          /\ torrent' = [torrent EXCEPT ![t] = "downloading"]
      BY <1>1 DEF Grab, arr, pass
    <2>2. \A u \in Torrents : imported[u] <= incarnation[u]
      BY DEF IInv, ImportedIsOver
    <2>3. /\ ~Imported(t)'
          /\ \A u \in Torrents : imported'[u] <= incarnation'[u]
          /\ \A u \in Torrents : Imported(u)' => Imported(u)
      BY <2>1, <2>2 DEF IInv, TypeOK, Imported
    <2>4. ImportedIsOver'
      BY <2>1, <2>3 DEF IInv, TypeOK, ImportedIsOver, NoLive, Live
    <2>5. QED
      BY <2>1, <2>3, <2>4, Frame DEF Live, IInv, Submitting, BeforePost
  <1>2. ASSUME NEW t \in Torrents, FinishDownload(t)
        PROVE  IInv'
    <2>1. /\ UNCHANGED <<status, target, journal, mem, pc, cur, cid, listed, todo,
                         imported, incarnation>>
          /\ files' = [files EXCEPT ![t] = TRUE] /\ torrent[t] = "downloading"
          /\ torrent' = [torrent EXCEPT ![t] = "seeding"]
      BY <1>2 DEF FinishDownload, arr, pass
    <2>2. ImportedIsOver'
      BY <2>1 DEF IInv, TypeOK, ImportedIsOver, Imported, NoLive, Live
    <2>3. QED
      BY <2>1, <2>2, Frame DEF Live, Imported, IInv, Submitting, BeforePost
  <1>3. ASSUME NEW t \in Torrents, StopSettles(t) \/ Resume(t) \/ Remove(t)
        PROVE  IInv'
    <2>1. /\ UNCHANGED <<status, target, journal, mem, pc, cur, cid, listed, todo,
                         imported, incarnation>>
          /\ \A u \in Torrents : files'[u] => files[u]
          /\ \A u \in Torrents : torrent'[u] = "downloading" => torrent[u] = "downloading"
      BY <1>3 DEF StopSettles, Resume, Remove, arr, pass, IInv, TypeOK
    <2>2. ImportedIsOver'
      BY <2>1 DEF IInv, ImportedIsOver, Imported, NoLive, Live
    <2>3. QED
      BY <2>1, <2>2, Frame DEF Live, Imported, IInv, Submitting, BeforePost
  <1>4. ASSUME NEW t \in Torrents, OperatorImport(t)
        PROVE  IInv'
    <2>1. /\ UNCHANGED <<status, target, journal, mem, pc, cur, cid, listed, todo,
                         torrent, incarnation>>
          /\ files[t] /\ NoLive(t) /\ ~(pc \in {"post", "await"} /\ cur = t)
          /\ files' = [files EXCEPT ![t] = FALSE]
          /\ imported' = [imported EXCEPT ![t] = incarnation[t]]
      BY <1>4 DEF OperatorImport, arr, pass, NoLive
    <2>2. \A u \in Torrents : u # t => (Imported(u)' <=> Imported(u))
      BY <2>1 DEF IInv, TypeOK, Imported
    <2>3. ImportedIsOver'
      BY <2>1, <2>2 DEF IInv, TypeOK, ImportedIsOver, NoLive, Live
    <2>4. QED
      BY <2>1, <2>2, <2>3, Frame DEF Live, IInv, Submitting, BeforePost
  <1>5. ASSUME NEW c \in Commands, Import(c)
        PROVE  IInv'
    <2>1. /\ UNCHANGED <<target, journal, mem, pc, cur, cid, listed, todo,
                         torrent, incarnation>>
          /\ target[c] \in Torrents /\ status[c] = "running" /\ files[target[c]]
          /\ files' = [files EXCEPT ![target[c]] = FALSE]
          /\ imported' = [imported EXCEPT ![target[c]] = incarnation[target[c]]]
          /\ status' = [status EXCEPT ![c] = "completed"]
      BY <1>5 DEF Import, SetStatus, pass, IInv, UsedHasTorrent
    <2>2. /\ ~Live(c)' /\ \A d \in Commands : Live(d)' => Live(d)
          /\ \A d \in Commands : status'[d] # "unused" <=> status[d] # "unused"
      BY <2>1 DEF IInv, TypeOK, Live
    <2>3. NoLive(target[c])'
      BY <2>1, <2>2 DEF IInv, NoConcurrentImports, NoLive, Live
    <2>4. \A u \in Torrents : u # target[c] =>
            /\ Imported(u)' <=> Imported(u)
            /\ NoLive(u) => NoLive(u)'
      BY <2>1, <2>2 DEF IInv, TypeOK, Imported, NoLive
    <2>5. ImportedIsOver'
      BY <2>1, <2>3, <2>4 DEF IInv, TypeOK, ImportedIsOver
    <2>6. pc = "post" => cur # target[c]
      BY <2>1 DEF IInv, BeforePost, NoLive, Live
    <2>7. pc = "post" => ~Imported(cur)'
      BY <2>1, <2>4, <2>6 DEF IInv, Submitting, BeforePost
    <2>8. QED
      BY <2>1, <2>2, <2>5, <2>7, Frame
  <1>6. ASSUME NEW c \in Commands,
               Accept(c) \/ Lose(c) \/ Expire(c) \/ Reject(c)
        PROVE  IInv'
    <2>1. /\ UNCHANGED <<target, journal, mem, pc, cur, cid, listed, todo,
                         torrent, incarnation, files, imported>>
          /\ \A d \in Commands : Live(d)' => Live(d)
          /\ \A d \in Commands : status'[d] # "unused" <=> status[d] # "unused"
      BY <1>6 DEF Accept, Lose, Expire, Reject, SetStatus, pass, qbit, IInv, TypeOK, Live
    <2>2. ImportedIsOver'
      BY <2>1 DEF IInv, ImportedIsOver, Imported, NoLive
    <2>3. QED
      BY <2>1, <2>2, Frame DEF Imported, IInv, BeforePost
  <1>7. ASSUME NEW a \in Apps,
               BeginMove(a) \/ EndMove(a) \/ EnableAutomaticImport(a)
        PROVE  IInv'
    <2>1. UNCHANGED <<status, target, journal, mem, pc, cur, cid, listed, todo,
                      torrent, incarnation, files, imported>>
      BY <1>7 DEF BeginMove, EndMove, EnableAutomaticImport, pass, qbit
    <2>2. QED
      BY <2>1, SameArr, Frame DEF Live, Imported, IInv, BeforePost
  <1>8. QED
    BY <1>1, <1>2, <1>3, <1>4, <1>5, <1>6, <1>7 DEF Environment, ArrStep

LEMMA StepIInv == IInv /\ [Next]_vars => IInv'
  <1> SUFFICES ASSUME IInv, [Next]_vars
               PROVE  IInv'
    OBVIOUS
  <1>1. TypeOK'
    BY StepType DEF IInv
  <1>2. CASE Abort
    BY <1>1, <1>2, LeaveIInv, JournalKept DEF Abort, qbit, arr
  <1>3. CASE UNCHANGED vars
    BY <1>1, <1>3, SameArr, Frame DEF vars, Live, Imported, IInv, BeforePost
  <1>4. QED
    BY <1>1, <1>2, <1>3, PassStepIInv, EnvironmentIInv DEF Next

-----------------------------------------------------------------------------
(* The memory of a pass and the disk *)

LEMMA AdvanceDrift ==
  ASSUME IInv, Drift, Advance, pc \in Working
  PROVE  Drift'
  <1>1. CASE Enter("sonarr", mem) /\ UNCHANGED journal
    BY <1>1 DEF Enter, Drift, Ahead
  <1>2. CASE Leave
    BY <1>2 DEF Leave, Drift, Working
  <1>3. QED
    BY <1>1, <1>2 DEF Advance

LEMMA ScanDrift ==
  ASSUME IInv, Drift, NEW t \in Torrents,
         PollReceipt(t) \/ ScanKnown(t) \/ ScanSkip(t) \/ SaveIntent(t)
  PROVE  Drift'
  <1>1. mem \in [Torrents -> Receipt]
    BY DEF IInv, TypeOK
  <1>2. CASE PollReceipt(t)
    <2>1. /\ UNCHANGED <<journal, pc, seen, listed>> /\ pc \in Working
          /\ mem[t].phase = "submitted"
      BY <1>2 DEF PollReceipt, Working, IInv, PollsSubmitted
    <2>2. /\ mem'[t].phase \in {"submitted", "review"}
          /\ \A u \in Torrents : u # t => mem'[u] = mem[u]
      BY <1>1, <1>2, <2>1 DEF PollReceipt, Receipt
    <2>3. QED
      BY <2>1, <2>2 DEF Drift, Ahead
  <1>3. CASE ScanKnown(t) \/ ScanSkip(t)
    <2>1. UNCHANGED <<journal, pc, seen, listed>> /\ pc \in Working
      BY <1>3 DEF ScanKnown, ScanSkip, Scanning, Working
    <2>2. /\ \/ mem'[t].phase = mem[t].phase
             \/ t \in listed /\ mem[t].phase # "none" /\ mem'[t].phase = "complete"
          /\ \A u \in Torrents : u # t => mem'[u] = mem[u]
      BY <1>1, <1>3 DEF ScanKnown, ScanSkip, Receipt
    <2>3. QED
      BY <1>1, <2>1, <2>2 DEF Drift, Ahead, IInv, TypeOK, Receipt, Phases
  <1>4. CASE SaveIntent(t)
    BY <1>4 DEF SaveIntent, Drift, Ahead
  <1>5. QED
    BY <1>2, <1>3, <1>4

LEMMA StepDrift == IInv /\ Drift /\ [Next]_vars => Drift'
  <1> SUFFICES ASSUME IInv, Drift, [Next]_vars
               PROVE  Drift'
    OBVIOUS
  <1>1. CASE StopAtGoal \/ FetchAgain
    BY <1>1 DEF StopAtGoal, FetchAgain, IInv, ListedIsOver, Drift, Working
  <1>2. CASE CloseGate
    <2>1. /\ UNCHANGED <<journal, seen>> /\ mem' = Pruned(journal, seen) /\ listed' = {}
      BY <1>2 DEF CloseGate, Enter
    <2>2. \A t \in Torrents : Pruned(journal, seen)[t] \in {journal[t], NoReceipt}
                              /\ (Pruned(journal, seen)[t] # journal[t] =>
                                   /\ journal[t].phase \in {"complete", "review"}
                                   /\ seen[t] = "absent")
      BY DEF Pruned
    <2>3. QED
      BY <2>1, <2>2 DEF Drift, Ahead, NoReceipt
  <1>3. CASE Inspect
    <2>1. CASE Advance
      BY <1>3, <2>1, AdvanceDrift DEF Inspect, Working
    <2>2. CASE pc' = "scan" /\ UNCHANGED <<seen, mem, journal>>
               /\ \A t \in listed' : seen[t] # "absent"
      BY <1>3, <2>2 DEF Inspect, Drift, Ahead, Working
    <2>3. QED
      BY <1>3, <2>1, <2>2 DEF Inspect
  <1>4. CASE EndApplication
    BY <1>4, AdvanceDrift DEF EndApplication, Working
  <1>5. CASE Abort \/ SubmissionFails \/ \E t \in Torrents : ScanFull(t)
    BY <1>5 DEF Abort, SubmissionFails, ScanFull, Leave, Drift, Working
  <1>6. CASE \E c \in Commands : Post(c)
    BY <1>6 DEF Post, Drift, Ahead, Working
  <1>7. CASE SaveAcknowledgement
    BY <1>7 DEF SaveAcknowledgement, Drift, Ahead
  <1>8. CASE Environment \/ UNCHANGED vars
    <2>1. UNCHANGED <<journal, mem, pc, seen, listed>>
      BY <1>8 DEF Environment, Grab, FinishDownload, StopSettles, Resume, Remove,
                  OperatorImport, ArrStep, Accept, Import, Reject, Lose, Expire,
                  SetStatus, BeginMove, EndMove, EnableAutomaticImport, pass, vars
    <2>2. QED
      BY <2>1 DEF Drift, Ahead
  <1>9. QED
    BY <1>1, <1>2, <1>3, <1>4, <1>5, <1>6, <1>7, <1>8, ScanDrift DEF Next, PassStep

-----------------------------------------------------------------------------
(* Every step is a step of SubmitOnce *)

\* Steps that change neither the commands nor the saved receipts.
LEMMA QuietOnce ==
  ASSUME UNCHANGED <<status, target, journal>>, Permitted' \in {Permitted, {}}
  PROVE  [Once!Next]_(Once!vars)
  <1>1. Recorded' = Recorded /\ AtWork' = AtWork
    BY DEF Recorded, AtWork, Live
  <1>2. QED
    BY <1>1 DEF Once!Next, Once!Die, Once!vars

\* Steps of a pass that save its memory.
LEMMA SaveOnce ==
  ASSUME IInv, IInv', UNCHANGED <<status, target>>, Permitted = {},
         \A t \in Torrents :
           /\ Recorded'[t] # Recorded[t] =>
                \/ Recorded[t] = "none" /\ Recorded'[t] = "submitting"
                     /\ t \notin AtWork
                \/ Recorded[t] = "submitting" /\ Recorded'[t] \in {"submitted", "complete"}
                \/ Recorded[t] = "submitted" /\ Recorded'[t] \in {"review", "complete", "none"}
                \/ Recorded[t] = "review" /\ Recorded'[t] \in {"complete", "none"}
                \/ Recorded[t] = "complete" /\ Recorded'[t] = "none"
           /\ t \in Permitted' <=>
                Recorded[t] = "none" /\ Recorded'[t] = "submitting"
  PROVE  Once!Save
  <1>1. AtWork' = AtWork
    BY DEF AtWork, Live
  <1>2. Recorded' \in [Torrents -> Once!Phases]
    BY DEF IInv, TypeOK, Recorded, Receipt, Phases, Once!Phases
  <1>3. \A t \in Torrents : Recorded'[t] \in {"complete", "none"} => t \notin AtWork
    BY <1>1 DEF IInv, Covers, NoLive, AtWork, Recorded
  <1>4. Permitted' = Permitted \cup
          {t \in Torrents : Recorded[t] = "none" /\ Recorded'[t] = "submitting"}
    BY DEF Permitted
  <1>5. QED
    BY <1>1, <1>2, <1>3, <1>4 DEF Once!Save, Once!Move, Once!Quiet

\* The end of a pass, or of its first application.
LEMMA AdvanceOnce ==
  ASSUME IInv, IInv', Drift, Advance, pc \in {"poll", "scan"}, UNCHANGED <<status, target>>
  PROVE  [Once!Next]_(Once!vars)
  <1>1. Permitted = {} /\ Permitted' = {}
    BY DEF Permitted, Advance, Enter, Leave
  <1>2. CASE UNCHANGED journal
    BY <1>1, <1>2, QuietOnce
  <1>3. CASE journal' = Pruned(mem, seen)
    <2>1. ASSUME NEW t \in Torrents
          PROVE  /\ \/ Recorded'[t] = mem[t].phase
                    \/ /\ Recorded'[t] = "none" /\ seen[t] = "absent"
                       /\ mem[t].phase \in {"complete", "review"}
                 /\ Recorded[t] = journal[t].phase
                 /\ Ahead(t, journal[t].phase, mem[t].phase)
      BY <1>3 DEF Recorded, Pruned, NoReceipt, Drift, Working
    <2>2. ASSUME NEW t \in Torrents, Recorded'[t] # Recorded[t]
          PROVE  \/ Recorded[t] = "submitting" /\ Recorded'[t] = "complete"
                 \/ Recorded[t] = "submitted" /\ Recorded'[t] \in {"review", "complete", "none"}
                 \/ Recorded[t] = "review" /\ Recorded'[t] \in {"complete", "none"}
                 \/ Recorded[t] = "complete" /\ Recorded'[t] = "none"
      BY <2>1, <2>2 DEF Ahead
    <2>3. Once!Save
      BY <1>1, <2>2, SaveOnce
    <2>4. QED
      BY <2>3 DEF Once!Next
  <1>4. QED
    BY <1>2, <1>3 DEF Advance

LEMMA SaveIntentOnce ==
  ASSUME IInv, IInv', Drift, NEW t \in Torrents, SaveIntent(t)
  PROVE  Once!Save
  <1>1. /\ UNCHANGED <<status, target, seen>> /\ pc = "scan" /\ pc' = "post" /\ cur' = t
        /\ journal' = mem' /\ mem[t].phase = "none" /\ seen[t] = "stopped"
    BY DEF SaveIntent, Scanning, Eligible, arr
  <1>2. /\ mem'[t].phase = "submitting"
        /\ \A u \in Torrents : u # t => mem'[u] = mem[u]
    BY DEF SaveIntent, IInv, TypeOK
  <1>3. \A u \in Torrents : Ahead(u, journal[u].phase, mem[u].phase)
    BY <1>1 DEF Drift, Working
  <1>4. journal[t].phase = "none" /\ t \notin AtWork
    <2>1. journal[t].phase = "none"
      BY <1>1, <1>3 DEF Ahead
    <2>2. QED
      BY <2>1 DEF IInv, Covers, NoLive, AtWork
  <1>5. /\ Recorded[t] = "none" /\ Recorded'[t] = "submitting"
        /\ \A u \in Torrents : Recorded[u] = journal[u].phase
        /\ \A u \in Torrents : u # t => Recorded'[u] = mem[u].phase
    BY <1>1, <1>2, <1>4 DEF Recorded
  <1>6. Permitted = {} /\ Permitted' = {t}
    BY <1>1 DEF Permitted
  <1>7. ASSUME NEW u \in Torrents, u # t, Recorded'[u] # Recorded[u]
        PROVE  \/ Recorded[u] = "submitting" /\ Recorded'[u] = "complete"
               \/ Recorded[u] = "submitted" /\ Recorded'[u] \in {"review", "complete"}
               \/ Recorded[u] = "review" /\ Recorded'[u] \in {"complete", "none"}
               \/ Recorded[u] = "complete" /\ Recorded'[u] = "none"
    BY <1>3, <1>5, <1>7 DEF Ahead
  <1>8. \A u \in Torrents : u # t => ~(Recorded[u] = "none" /\ Recorded'[u] = "submitting")
    BY <1>3, <1>5 DEF Ahead
  <1>9. QED
    BY <1>1, <1>4, <1>5, <1>6, <1>7, <1>8, SaveOnce

LEMMA AcknowledgeOnce ==
  ASSUME IInv, IInv', Drift, SaveAcknowledgement
  PROVE  Once!Save
  <1>1. /\ UNCHANGED <<status, target>> /\ pc = "await" /\ pc' = "scan" /\ journal' = mem'
        /\ cur \in Torrents /\ journal[cur].phase = "submitting"
    BY DEF SaveAcknowledgement, arr, IInv, Submitting
  <1>2. /\ mem'[cur].phase = "submitted"
        /\ \A u \in Torrents : u # cur => mem'[u] = mem[u]
    BY <1>1 DEF SaveAcknowledgement, IInv, TypeOK
  <1>3. \A u \in Torrents : Ahead(u, journal[u].phase, mem[u].phase)
    BY <1>1 DEF Drift, Working
  <1>4. /\ Recorded[cur] = "submitting" /\ Recorded'[cur] = "submitted"
        /\ \A u \in Torrents : Recorded[u] = journal[u].phase
        /\ \A u \in Torrents : u # cur => Recorded'[u] = mem[u].phase
    BY <1>1, <1>2 DEF Recorded
  <1>5. Permitted = {} /\ Permitted' = {}
    BY <1>1 DEF Permitted
  <1>6. ASSUME NEW u \in Torrents, Recorded'[u] # Recorded[u]
        PROVE  \/ Recorded[u] = "submitting" /\ Recorded'[u] \in {"submitted", "complete"}
               \/ Recorded[u] = "submitted" /\ Recorded'[u] \in {"review", "complete"}
               \/ Recorded[u] = "review" /\ Recorded'[u] \in {"complete", "none"}
               \/ Recorded[u] = "complete" /\ Recorded'[u] = "none"
    BY <1>3, <1>4, <1>6 DEF Ahead
  <1>7. \A u \in Torrents : ~(Recorded[u] = "none" /\ Recorded'[u] = "submitting")
    BY <1>3, <1>4 DEF Ahead
  <1>8. QED
    BY <1>1, <1>5, <1>6, <1>7, SaveOnce

LEMMA PostOnce ==
  ASSUME IInv, NEW c \in Commands, Post(c)
  PROVE  Once!Next
  <1>1. /\ UNCHANGED journal /\ pc = "post" /\ pc' = "await"
        /\ status[c] = "unused" /\ cur \in Torrents
    BY DEF Post, IInv, Submitting
  <1>2. /\ status'[c] = "sent" /\ target'[c] = cur
        /\ \A d \in Commands : d # c => status'[d] = status[d] /\ target'[d] = target[d]
    BY DEF Post, IInv, TypeOK
  <1>3. AtWork' = AtWork \cup {cur}
    BY <1>1, <1>2 DEF AtWork, Live
  <1>4. Permitted = {cur} /\ Permitted' = {} /\ Recorded' = Recorded
    BY <1>1 DEF Permitted, Recorded
  <1>5. Once!Send(cur)
    BY <1>3, <1>4 DEF Once!Send
  <1>6. QED
    BY <1>1, <1>5 DEF Once!Next

\* A native command that ends was the only one at work on its torrent.
LEMMA CommandOnce ==
  ASSUME IInv, NEW c \in Commands, NEW s \in Statuses, SetStatus(c, s),
         status[c] # "unused",
         s \in {"completed", "failed", "lost", "expired"} \/ Live(c)
  PROVE  [Once!Next]_(Once!vars)
  <1>1. /\ UNCHANGED <<target, journal, pc, cur>> /\ target[c] \in Torrents
        /\ status'[c] = s /\ \A d \in Commands : d # c => status'[d] = status[d]
    BY DEF SetStatus, pass, IInv, UsedHasTorrent, TypeOK
  <1>2. Permitted' = Permitted /\ Recorded' = Recorded
    BY <1>1 DEF Permitted, Recorded
  <1>3. CASE Live(c) <=> s \in {"sent", "running"}
    <2>1. AtWork' = AtWork
      BY <1>1, <1>3 DEF AtWork, Live
    <2>2. QED
      BY <1>2, <2>1 DEF Once!vars
  <1>4. CASE Live(c) /\ s \notin {"sent", "running"}
    <2>1. \A d \in Commands : d # c /\ Live(d) => target[d] # target[c]
      BY <1>4 DEF IInv, NoConcurrentImports
    <2>2. \A d \in Commands : Live(d)' <=> Live(d) /\ d # c
      BY <1>1, <1>4 DEF Live
    <2>3. AtWork' = AtWork \ {target[c]}
      BY <1>1, <2>1, <2>2 DEF AtWork
    <2>4. Once!End(target[c])
      BY <1>2, <2>3 DEF Once!End
    <2>5. QED
      BY <1>1, <2>4 DEF Once!Next
  <1>5. QED
    BY <1>3, <1>4

LEMMA StepOnce ==
  ASSUME IInv, IInv', Drift, [Next]_vars
  PROVE  [Once!Next]_(Once!vars)
  <1>1. CASE StopAtGoal \/ FetchAgain \/ CloseGate
    <2>1. UNCHANGED <<status, target, journal>> /\ Permitted' = {}
      BY <1>1 DEF StopAtGoal, FetchAgain, CloseGate, Enter, arr, Permitted
    <2>2. QED
      BY <2>1, QuietOnce
  <1>2. CASE \E t \in Torrents : PollReceipt(t) \/ ScanKnown(t) \/ ScanSkip(t)
    <2>1. UNCHANGED <<status, target, journal>> /\ Permitted' = Permitted
      BY <1>2 DEF PollReceipt, ScanKnown, ScanSkip, arr, Permitted
    <2>2. QED
      BY <2>1, QuietOnce
  <1>3. CASE Abort \/ SubmissionFails \/ \E t \in Torrents : ScanFull(t)
    <2>1. UNCHANGED <<status, target, journal>> /\ Permitted' = {}
      BY <1>3 DEF Abort, SubmissionFails, ScanFull, Leave, arr, Permitted
    <2>2. QED
      BY <2>1, QuietOnce
  <1>4. CASE Inspect
    <2>1. CASE Advance
      BY <1>4, <2>1, AdvanceOnce DEF Inspect, arr
    <2>2. CASE pc' = "scan" /\ UNCHANGED journal
      BY <1>4, <2>2, QuietOnce DEF Inspect, arr, Permitted
    <2>3. QED
      BY <1>4, <2>1, <2>2 DEF Inspect
  <1>5. CASE EndApplication
    BY <1>5, AdvanceOnce DEF EndApplication, arr
  <1>6. CASE \E t \in Torrents : SaveIntent(t)
    BY <1>6, SaveIntentOnce DEF Once!Next
  <1>7. CASE SaveAcknowledgement
    BY <1>7, AcknowledgeOnce DEF Once!Next
  <1>8. ASSUME NEW c \in Commands, ArrStep(c) \/ Lose(c) \/ Expire(c)
        PROVE  [Once!Next]_(Once!vars)
    <2>1. PICK s \in Statuses :
            /\ SetStatus(c, s) /\ status[c] # "unused"
            /\ s \in {"completed", "failed", "lost", "expired"} \/ Live(c)
      BY <1>8 DEF ArrStep, Accept, Import, Reject, Lose, Expire, Statuses, Live
    <2>2. QED
      BY <2>1, CommandOnce
  <1>9. CASE (\E t \in Torrents :
                \/ Grab(t) \/ FinishDownload(t) \/ StopSettles(t) \/ Resume(t)
                \/ Remove(t) \/ OperatorImport(t))
             \/ (\E a \in Apps : BeginMove(a) \/ EndMove(a) \/ EnableAutomaticImport(a))
             \/ UNCHANGED vars
    <2>1. UNCHANGED <<status, target, journal, pc, cur>>
      BY <1>9 DEF Grab, FinishDownload, StopSettles, Resume, Remove, OperatorImport,
                  BeginMove, EndMove, EnableAutomaticImport, arr, pass, vars
    <2>2. QED
      BY <2>1, QuietOnce DEF Permitted
  <1>10. QED
    BY <1>1, <1>2, <1>3, <1>4, <1>5, <1>6, <1>7, <1>8, <1>9, PostOnce
       DEF Next, PassStep, Environment

-----------------------------------------------------------------------------
(* Complete lists: one submission for each addition of a torrent *)

\* The present addition of t to qBittorrent has been submitted.
Spent(t) ==
  \E c \in Commands :
    status[c] # "unused" /\ target[c] = t /\ born[c] = incarnation[t]

BornBefore ==
  \A c \in Commands : status[c] # "unused" => born[c] <= incarnation[target[c]]

\* A torrent that is there and was submitted has a receipt on disk; so has, for
\* as long as the pass lasts, one that the pass saw and that is gone since.
SpentIsKnown ==
  \A t \in Torrents : Spent(t) =>
    /\ torrent[t] # "absent" => journal[t].phase # "none"
    /\ pc \in {"gate"} \cup Working /\ seen[t] # "absent" => journal[t].phase # "none"
    /\ pc \in Working /\ seen[t] # "absent" => mem[t].phase # "none"

\* What the list did not name has been added since, or is not there.
UnseenIsNew ==
  \A t \in Torrents :
    pc \in {"gate"} \cup Working /\ seen[t] = "absent" /\ torrent[t] # "absent"
      => ~Spent(t)

AboutToPost ==
  pc \in {"post", "await"} =>
    seen[cur] # "absent" /\ (pc = "post" => ~Spent(cur))

GrabInv ==
  BornBefore /\ SpentIsKnown /\ UnseenIsNew /\ AboutToPost /\ AtMostOncePerGrab

\* Steps in which no command is sent and nothing is added to qBittorrent.
LEMMA SameGrabs ==
  ASSUME GrabInv, UNCHANGED <<target, born, incarnation>>,
         \A c \in Commands : status'[c] # "unused" <=> status[c] # "unused"
  PROVE  /\ BornBefore' /\ AtMostOncePerGrab'
         /\ \A t : Spent(t)' <=> Spent(t)
  <1>1. \A t : Spent(t)' <=> Spent(t)
    BY DEF Spent
  <1>2. BornBefore' /\ AtMostOncePerGrab'
    BY DEF GrabInv, BornBefore, AtMostOncePerGrab
  <1>3. QED
    BY <1>1, <1>2

\* The pass does not move either.
LEMMA QuietGrab ==
  ASSUME GrabInv, UNCHANGED <<target, born, incarnation, journal, mem, pc, seen, cur>>,
         \A c \in Commands : status'[c] # "unused" <=> status[c] # "unused",
         \A t \in Torrents : torrent'[t] # "absent" => torrent[t] # "absent"
  PROVE  GrabInv'
  <1>1. /\ BornBefore' /\ AtMostOncePerGrab'
        /\ \A t : Spent(t)' <=> Spent(t)
    BY SameGrabs
  <1>2. SpentIsKnown'
    BY <1>1 DEF GrabInv, SpentIsKnown
  <1>3. UnseenIsNew' /\ AboutToPost'
    BY <1>1 DEF GrabInv, UnseenIsNew, AboutToPost
  <1>4. QED
    BY <1>1, <1>2, <1>3 DEF GrabInv

\* The pass ends: what it saved keeps a receipt of every torrent that is there.
LEMMA LeaveGrab ==
  ASSUME GrabInv, Leave, UNCHANGED <<status, target, born, incarnation, torrent>>,
         \A t \in Torrents :
           Spent(t) /\ torrent[t] # "absent" => journal'[t].phase # "none"
  PROVE  GrabInv'
  <1>1. /\ BornBefore' /\ AtMostOncePerGrab'
        /\ \A t : Spent(t)' <=> Spent(t)
    BY SameGrabs
  <1>2. pc' = "idle"
    BY DEF Leave
  <1>3. QED
    BY <1>1, <1>2 DEF GrabInv, SpentIsKnown, UnseenIsNew, AboutToPost, Working

\* The pass goes on, with the list it has, and forgets no receipt of a torrent on it.
LEMMA GoOnGrab ==
  ASSUME GrabInv, UNCHANGED <<status, target, born, incarnation, torrent, seen>>,
         pc \in {"gate"} \cup Working, pc' \in Working, AboutToPost',
         \A t \in Torrents :
           Spent(t) /\ seen[t] # "absent" =>
             journal'[t].phase # "none" /\ mem'[t].phase # "none"
  PROVE  GrabInv'
  <1>1. /\ BornBefore' /\ AtMostOncePerGrab'
        /\ \A t : Spent(t)' <=> Spent(t)
    BY SameGrabs
  <1>2. UnseenIsNew'
    BY <1>1 DEF GrabInv, UnseenIsNew
  <1>3. SpentIsKnown'
    BY <1>1 DEF GrabInv, SpentIsKnown, UnseenIsNew
  <1>4. QED
    BY <1>1, <1>2, <1>3 DEF GrabInv

\* Pruning spares the torrents of the list.
LEMMA PrunedSpares ==
  ASSUME NEW r, NEW list, NEW t \in Torrents, list[t] # "absent"
  PROVE  Pruned(r, list)[t] = r[t]
  BY DEF Pruned

LEMMA AdvanceGrab ==
  ASSUME GrabInv, Advance, pc \in Working,
         UNCHANGED <<status, target, born, incarnation, torrent>>
  PROVE  GrabInv'
  <1>1. CASE Enter("sonarr", mem) /\ UNCHANGED journal
    <2>1. mem' = mem /\ pc' = "poll" /\ UNCHANGED seen
      BY <1>1 DEF Enter
    <2>2. AboutToPost'
      BY <2>1 DEF AboutToPost
    <2>3. QED
      BY <1>1, <2>1, <2>2, GoOnGrab DEF GrabInv, SpentIsKnown, Working
  <1>2. CASE journal' = Pruned(mem, seen) /\ Leave
    <2>1. ASSUME NEW t \in Torrents, Spent(t), torrent[t] # "absent"
          PROVE  journal'[t].phase # "none"
      <3>1. seen[t] # "absent"
        BY <2>1 DEF GrabInv, UnseenIsNew
      <3>2. QED
        BY <1>2, <2>1, <3>1, PrunedSpares DEF GrabInv, SpentIsKnown
    <2>2. QED
      BY <1>2, <2>1, LeaveGrab
  <1>3. QED
    BY <1>1, <1>2 DEF Advance

LEMMA ScanGrab ==
  ASSUME IInv, GrabInv, NEW t \in Torrents,
         PollReceipt(t) \/ ScanKnown(t) \/ ScanSkip(t)
  PROVE  GrabInv'
  <1>1. /\ UNCHANGED <<status, target, born, incarnation, torrent, seen, journal, cur, pc>>
        /\ pc \in {"poll", "scan"}
    BY DEF PollReceipt, ScanKnown, ScanSkip, Scanning, qbit, arr
  <1>2. \A u \in Torrents : mem[u].phase # "none" => mem'[u].phase # "none"
    BY DEF PollReceipt, ScanKnown, ScanSkip, IInv, TypeOK, Receipt
  <1>3. AboutToPost'
    BY <1>1 DEF AboutToPost
  <1>4. QED
    BY <1>1, <1>2, <1>3, GoOnGrab DEF GrabInv, SpentIsKnown, Working

LEMMA SaveIntentGrab ==
  ASSUME IInv, GrabInv, NEW t \in Torrents, SaveIntent(t)
  PROVE  GrabInv'
  <1>1. /\ UNCHANGED <<status, target, born, incarnation, torrent, seen>>
        /\ pc = "scan" /\ pc' = "post" /\ cur' = t /\ journal' = mem'
        /\ seen[t] = "stopped" /\ mem[t].phase = "none"
    BY DEF SaveIntent, Scanning, Eligible, qbit, arr
  <1>2. \A u \in Torrents : mem[u].phase # "none" => mem'[u].phase # "none"
    BY DEF SaveIntent, IInv, TypeOK
  <1>3. ~Spent(t)
    BY <1>1 DEF GrabInv, SpentIsKnown, Working
  <1>4. AboutToPost'
    BY <1>1, <1>3 DEF AboutToPost, Spent
  <1>5. QED
    BY <1>1, <1>2, <1>4, GoOnGrab DEF GrabInv, SpentIsKnown, Working

LEMMA AcknowledgeGrab ==
  ASSUME IInv, GrabInv, SaveAcknowledgement
  PROVE  GrabInv'
  <1>1. /\ UNCHANGED <<status, target, born, incarnation, torrent, seen>>
        /\ pc = "await" /\ pc' = "scan" /\ journal' = mem'
    BY DEF SaveAcknowledgement, qbit, arr
  <1>2. \A u \in Torrents : mem[u].phase # "none" => mem'[u].phase # "none"
    BY DEF SaveAcknowledgement, IInv, TypeOK
  <1>3. AboutToPost'
    BY <1>1 DEF AboutToPost
  <1>4. QED
    BY <1>1, <1>2, <1>3, GoOnGrab DEF GrabInv, SpentIsKnown, Working

\* The one step that spends an addition.
LEMMA PostGrab ==
  ASSUME IInv, GrabInv, NEW c \in Commands, Post(c)
  PROVE  GrabInv'
  <1>1. /\ UNCHANGED <<torrent, incarnation, journal, mem, seen, cur>>
        /\ pc = "post" /\ pc' = "await" /\ status[c] = "unused"
        /\ cur \in Torrents /\ seen[cur] # "absent" /\ ~Spent(cur)
        /\ mem[cur].phase = "submitting" /\ journal[cur].phase = "submitting"
    BY DEF Post, qbit, IInv, Submitting, GrabInv, AboutToPost
  <1>2. /\ status'[c] = "sent" /\ target'[c] = cur /\ born'[c] = incarnation[cur]
        /\ \A d \in Commands : d # c =>
             status'[d] = status[d] /\ target'[d] = target[d] /\ born'[d] = born[d]
    BY DEF Post, IInv, TypeOK
  <1>3. /\ incarnation[cur] \in Nat
        /\ \A t \in Torrents : Spent(t)' => Spent(t) \/ t = cur
    BY <1>1, <1>2 DEF Spent, IInv, TypeOK
  <1>4. BornBefore'
    BY <1>1, <1>2, <1>3 DEF GrabInv, BornBefore
  <1>5. AtMostOncePerGrab'
    BY <1>1, <1>2 DEF GrabInv, AtMostOncePerGrab, Spent
  <1>6. SpentIsKnown'
    BY <1>1, <1>3 DEF GrabInv, SpentIsKnown, Working
  <1>7. UnseenIsNew' /\ AboutToPost'
    BY <1>1, <1>3 DEF GrabInv, UnseenIsNew, AboutToPost, Working
  <1>8. QED
    BY <1>4, <1>5, <1>6, <1>7 DEF GrabInv

\* An addition nothing has been submitted for.
LEMMA AddedGrab ==
  ASSUME IInv, GrabInv, NEW t \in Torrents, Grab(t)
  PROVE  GrabInv'
  <1>1. /\ UNCHANGED <<status, target, born, journal, mem, seen, cur, pc>>
        /\ incarnation'[t] = incarnation[t] + 1 /\ incarnation[t] \in Nat
        /\ \A u \in Torrents : u # t =>
             incarnation'[u] = incarnation[u] /\ torrent'[u] = torrent[u]
    BY DEF Grab, arr, pass, IInv, TypeOK
  <1>2. \A c \in Commands : status[c] # "unused" =>
          target[c] \in Torrents /\ born[c] \in Nat /\ born[c] <= incarnation[target[c]]
    BY DEF IInv, UsedHasTorrent, TypeOK, GrabInv, BornBefore
  <1>3. ~Spent(t)'
    BY <1>1, <1>2 DEF Spent
  <1>4. \A u \in Torrents : u # t => (Spent(u)' <=> Spent(u))
    BY <1>1 DEF Spent
  <1>5. BornBefore'
    <2>1. ASSUME NEW c \in Commands, status'[c] # "unused"
          PROVE  born'[c] <= incarnation'[target'[c]]
      <3>1. /\ target'[c] = target[c] /\ born'[c] = born[c] /\ target[c] \in Torrents
            /\ born[c] \in Nat /\ born[c] <= incarnation[target[c]]
        BY <1>1, <1>2, <2>1
      <3>2. CASE target[c] = t
        BY <1>1, <3>1, <3>2
      <3>3. CASE target[c] # t
        BY <1>1, <3>1, <3>3
      <3>4. QED
        BY <3>2, <3>3
    <2>2. QED
      BY <2>1 DEF BornBefore
  <1>6. AtMostOncePerGrab'
    BY <1>1 DEF GrabInv, AtMostOncePerGrab
  <1>7. SpentIsKnown' /\ UnseenIsNew'
    BY <1>1, <1>3, <1>4 DEF GrabInv, SpentIsKnown, UnseenIsNew
  <1>8. AboutToPost'
    <2>1. pc = "post" => cur \in Torrents
      BY DEF IInv, Submitting
    <2>2. QED
      BY <1>1, <1>3, <1>4, <2>1 DEF GrabInv, AboutToPost
  <1>9. QED
    BY <1>5, <1>6, <1>7, <1>8 DEF GrabInv

LEMMA PassStepGrab ==
  ASSUME ~PartialLists, IInv, GrabInv, PassStep
  PROVE  GrabInv'
  <1>1. CASE StopAtGoal
    <2>1. /\ UNCHANGED <<status, target, born, incarnation, journal, mem, seen, cur>>
          /\ pc = "idle" /\ pc' = "list"
          /\ \A t \in Torrents : torrent'[t] # "absent" => torrent[t] # "absent"
      BY <1>1 DEF StopAtGoal, arr
    <2>2. /\ BornBefore' /\ AtMostOncePerGrab'
          /\ \A t : Spent(t)' <=> Spent(t)
      BY <2>1, SameGrabs
    <2>3. QED
      BY <2>1, <2>2 DEF GrabInv, SpentIsKnown, UnseenIsNew, AboutToPost, Working
  <1>2. CASE FetchAgain
    <2>1. /\ UNCHANGED <<status, target, born, incarnation, torrent, journal, mem, cur>>
          /\ pc' = "gate"
          /\ \A t \in Torrents : seen'[t] = "absent" <=> torrent[t] = "absent"
      BY <1>2 DEF FetchAgain, arr, qbit
    <2>2. /\ BornBefore' /\ AtMostOncePerGrab'
          /\ \A t : Spent(t)' <=> Spent(t)
      BY <2>1, SameGrabs
    <2>3. QED
      BY <2>1, <2>2 DEF GrabInv, SpentIsKnown, UnseenIsNew, AboutToPost, Working
  <1>3. CASE CloseGate
    <2>1. /\ UNCHANGED <<status, target, born, incarnation, torrent, seen, journal>>
          /\ pc = "gate" /\ pc' = "poll" /\ mem' = Pruned(journal, seen)
      BY <1>3 DEF CloseGate, Enter, qbit
    <2>2. AboutToPost'
      BY <2>1 DEF AboutToPost
    <2>3. QED
      BY <2>1, <2>2, PrunedSpares, GoOnGrab DEF GrabInv, SpentIsKnown, Working
  <1>4. CASE Inspect
    <2>1. UNCHANGED <<status, target, born, incarnation, torrent>> /\ pc = "poll"
      BY <1>4 DEF Inspect, arr, qbit
    <2>2. CASE Advance
      BY <2>1, <2>2, AdvanceGrab DEF Working
    <2>3. CASE pc' = "scan" /\ UNCHANGED <<seen, mem, journal>>
      <3>1. AboutToPost'
        BY <2>3 DEF AboutToPost
      <3>2. QED
        BY <2>1, <2>3, <3>1, GoOnGrab DEF GrabInv, SpentIsKnown, Working
    <2>4. QED
      BY <1>4, <2>2, <2>3 DEF Inspect
  <1>5. CASE EndApplication
    BY <1>5, AdvanceGrab DEF EndApplication, Working, arr, qbit
  <1>6. CASE SubmissionFails \/ \E t \in Torrents : ScanFull(t)
    BY <1>6, LeaveGrab DEF SubmissionFails, ScanFull, arr, qbit, GrabInv, SpentIsKnown
  <1>7. QED
    BY <1>1, <1>2, <1>3, <1>4, <1>5, <1>6, ScanGrab, SaveIntentGrab, PostGrab,
       AcknowledgeGrab DEF PassStep

LEMMA StepGrab ==
  ASSUME ~PartialLists, IInv, GrabInv, [Next]_vars
  PROVE  GrabInv'
  <1>1. CASE Abort
    BY <1>1, LeaveGrab DEF Abort, arr, qbit, GrabInv, SpentIsKnown
  <1>2. CASE Environment
    <2>1. ASSUME NEW t \in Torrents,
                 \/ FinishDownload(t) \/ StopSettles(t) \/ Resume(t)
                 \/ Remove(t) \/ OperatorImport(t)
          PROVE  GrabInv'
      <3>1. /\ UNCHANGED <<status, target, born, incarnation, journal, mem, pc, seen, cur>>
            /\ \A u \in Torrents : torrent'[u] # "absent" => torrent[u] # "absent"
        BY <2>1 DEF FinishDownload, StopSettles, Resume, Remove, OperatorImport, arr, pass,
                    IInv, TypeOK
      <3>2. QED
        BY <3>1, QuietGrab
    <2>2. ASSUME NEW c \in Commands, ArrStep(c) \/ Lose(c) \/ Expire(c)
          PROVE  GrabInv'
      <3>1. /\ UNCHANGED <<target, born, incarnation, torrent, journal, mem, pc, seen, cur>>
            /\ \A d \in Commands : status'[d] # "unused" <=> status[d] # "unused"
        BY <2>2 DEF ArrStep, Accept, Import, Reject, Lose, Expire, SetStatus, pass, qbit,
                    IInv, TypeOK
      <3>2. QED
        BY <3>1, QuietGrab
    <2>3. ASSUME NEW a \in Apps, BeginMove(a) \/ EndMove(a) \/ EnableAutomaticImport(a)
          PROVE  GrabInv'
      BY <2>3, QuietGrab DEF BeginMove, EndMove, EnableAutomaticImport, qbit, pass
    <2>4. QED
      BY <1>2, <2>1, <2>2, <2>3, AddedGrab DEF Environment
  <1>3. CASE UNCHANGED vars
    BY <1>3, QuietGrab DEF vars
  <1>4. QED
    BY <1>1, <1>2, <1>3, PassStepGrab DEF Next

-----------------------------------------------------------------------------
(* The theorems *)

LEMMA Invariance == Spec => []IInv
  BY InitIInv, StepIInv, PTL DEF Spec

\* Every variable of the hand-over keeps its type, for any torrents, commands
\* and bounds.
THEOREM TypeCorrect == Spec => []TypeOK
  <1>1. IInv => TypeOK
    BY DEF IInv
  <1>2. QED
    BY <1>1, Invariance, PTL

\* The applications never work on two import commands for one download.
THEOREM ImportsAreExclusive == Spec => []NoConcurrentImports
  <1>1. IInv => NoConcurrentImports
    BY DEF IInv
  <1>2. QED
    BY <1>1, Invariance, PTL

\* No import is at work behind a receipt that is settled or gone, even when the
\* torrent list is incomplete: the recovery may delete what "review" names.
THEOREM SettledReceiptsAreOver == Spec => []SettledMeansEnded
  <1>1. IInv => SettledMeansEnded
    <2> SUFFICES ASSUME IInv, NEW c \in Commands, Live(c)
                 PROVE  journal[target[c]].phase \in {"submitting", "submitted"}
      BY DEF SettledMeansEnded
    <2>1. target[c] \in Torrents
      BY DEF IInv, UsedHasTorrent, Live
    <2>2. QED
      BY <2>1 DEF IInv, Covers, NoLive
  <1>2. QED
    BY <1>1, Invariance, PTL

\* The hand-over implements SubmitOnce: with any torrents, commands, aborted
\* passes and incomplete lists it never repeats, forgets or hastily settles a
\* submission.
THEOREM HandoffSubmitsOnce == Spec => SubmitsOnce
  <1>1. Init => Once!Init
    <2> SUFFICES ASSUME Init
                 PROVE  Once!Init
      OBVIOUS
    <2>1. Recorded = [t \in Torrents |-> "none"]
      BY DEF Init, Recorded, NoReceipts, NoReceipt
    <2>2. Permitted = {} /\ AtWork = {}
      BY DEF Init, Permitted, AtWork, Live
    <2>3. QED
      BY <2>1, <2>2 DEF Once!Init
  <1>2. Init => Drift
    BY DEF Init, Drift, Working
  <1>3. IInv /\ IInv' /\ Drift /\ [Next]_vars => [Once!Next]_(Once!vars)
    BY StepOnce
  <1>4. QED
    BY <1>1, <1>2, <1>3, StepDrift, Invariance, PTL DEF Spec, SubmitsOnce, Once!Spec

\* With torrent lists that name every torrent, one addition of a torrent to
\* qBittorrent is submitted at most once, whatever fails, restarts or is pruned,
\* for any number of torrents, additions and aborted passes.
THEOREM GrabsAreSubmittedOnce == ~PartialLists /\ Spec => []AtMostOncePerGrab
  <1> SUFFICES ASSUME ~PartialLists
               PROVE  Spec => []AtMostOncePerGrab
    OBVIOUS
  <1>1. Init => GrabInv
    <2> SUFFICES ASSUME Init
                 PROVE  GrabInv
      OBVIOUS
    <2>1. \A c \in Commands : status[c] = "unused"
      BY DEF Init
    <2>2. pc = "idle"
      BY DEF Init
    <2>3. QED
      BY <2>1, <2>2 DEF GrabInv, BornBefore, Spent, SpentIsKnown, UnseenIsNew,
                        AboutToPost, AtMostOncePerGrab, Working
  <1>2. IInv /\ GrabInv /\ [Next]_vars => GrabInv'
    BY StepGrab
  <1>3. GrabInv => AtMostOncePerGrab
    BY DEF GrabInv
  <1>4. QED
    BY <1>1, <1>2, <1>3, Invariance, PTL DEF Spec
=============================================================================
