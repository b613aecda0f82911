------------------------ MODULE ManualImportsProofs ------------------------
(***************************************************************************)
(* Proofs about ManualImports: one submission per hash for all time, and   *)
(* the refinement of SubmitOnce.                                           *)
(*                                                                         *)
(* The argument: a used command's torrent has a record, records are never  *)
(* dropped, and an intent is saved only where there is none; so the request*)
(* that follows the intent is the first for its torrent, and the command a *)
(* receipt names is the only one that can be at work on it.                *)
(***************************************************************************)
EXTENDS ManualImports, TLAPS

Used(c) == status[c] # "unused"

UsedHasRecord ==
  \A c \in Commands :
    Used(c) => target[c] \in Torrents /\ journal[target[c]].phase # "none"

Asking == pc = "ask" => cur \in Torrents /\ journal[cur].phase = "none"

Unsent ==
  pc = "post" =>
    /\ cur \in Torrents /\ journal[cur].phase = "submitting"
    /\ \A c \in Commands : Used(c) => target[c] # cur

Sent ==
  pc = "await" =>
    /\ cur \in Torrents /\ journal[cur].phase = "submitting"
    /\ cid \in Commands /\ target[cid] = cur /\ Used(cid)

NamesItsOwn ==
  \A t \in Polled : Used(journal[t].command) /\ target[journal[t].command] = t

PollsSubmitted == pc = "poll" => todo \subseteq Polled

CompleteIsOver ==
  \A c \in Commands : Live(c) => journal[target[c]].phase # "complete"

MInv ==
  /\ TypeOK /\ AtMostOnceEver /\ UsedHasRecord
  /\ Asking /\ Unsent /\ Sent
  /\ NamesItsOwn /\ PollsSubmitted /\ CompleteIsOver

-----------------------------------------------------------------------------
(* Type correctness *)

LEMMA InitType == Init => TypeOK
  BY ManualAssumption DEF Init, TypeOK, NoReceipt, Receipt, Phases, Statuses, Apps

LEMMA LeaveType ==
  ASSUME TypeOK, Leave
  PROVE  /\ pc' = "idle" /\ app' \in Apps /\ todo' \in SUBSET Torrents
         /\ seen' \in SUBSET Torrents
         /\ cur' \in Torrents \cup {NoTorrent} /\ cid' \in Commands \cup {NoCommand}
  BY DEF Leave, Apps

LEMMA DisturbType == ASSUME TypeOK, Disturb PROVE disturbances' \in Nat
  BY DEF Disturb, TypeOK

LEMMA SettledType ==
  ASSUME NEW t, NEW receipt \in Receipt
  PROVE  /\ Settled(t, receipt) \in Receipt
         /\ Settled(t, receipt).command = receipt.command
         /\ Settled(t, receipt).phase \in {receipt.phase, "review", "complete"}
         /\ Settled(t, receipt).phase = "complete" /\ receipt.phase # "complete" =>
              status[receipt.command] = "completed"
  BY DEF Settled, Receipt, Phases

LEMMA SightType ==
  ASSUME TypeOK, NEW q \in Queues PROVE Sight(q) \in {"none", "new", "old"}
  BY DEF Sight, TypeOK

LEMMA SetStatusType ==
  ASSUME TypeOK, NEW c \in Commands, NEW s \in Statuses, SetStatus(c, s)
  PROVE  TypeOK'
  BY DEF SetStatus, TypeOK, client, queue

LEMMA PassType ==
  ASSUME MInv, PassStep \/ SaveWithoutCommand \/ Abort
  PROVE  TypeOK'
  <1> USE DEF MInv
  <1>1. CASE FetchAgain
    BY <1>1 DEF FetchAgain, Polled, TypeOK, client, arr, queue
  <1>2. CASE EndPolls \/ EndScan
    BY <1>2 DEF EndPolls, EndScan, TypeOK, client, arr, queue
  <1>3. CASE Ask
    <2>1. accepts[cur][app] \cap files[cur] \in SUBSET Files
      BY <1>3 DEF Ask, Asking, TypeOK
    <2>2. [phase |-> "submitting", command |-> NoCommand,
           files |-> accepts[cur][app] \cap files[cur], error |-> FALSE] \in Receipt
      BY <2>1 DEF Receipt, Phases
    <2>3. journal' \in [Torrents -> Receipt]
      BY <1>3, <2>2 DEF Ask, TypeOK
    <2>4. QED
      BY <1>3, <2>3 DEF Ask, TypeOK, client, arr, queue
  <1>4. CASE AskNext
    BY <1>4 DEF AskNext, TypeOK, Apps, client, arr, queue
  <1>5. ASSUME NEW t \in Torrents, PollReceipt(t)
        PROVE  TypeOK'
    <2>1. Settled(t, journal[t]) \in Receipt
      BY SettledType DEF TypeOK
    <2>2. QED
      BY <1>5, <2>1 DEF PollReceipt, TypeOK, client, arr, queue
  <1>6. ASSUME NEW t \in Torrents, PollFails(t)
        PROVE  TypeOK'
    BY <1>6 DEF PollFails, TypeOK, Receipt, client, arr, queue
  <1>7. ASSUME NEW t \in Torrents, Consider(t)
        PROVE  TypeOK'
    BY <1>7 DEF Consider, TypeOK, Apps, client, arr, queue
  <1>8. ASSUME NEW c \in Commands, Post(c)
        PROVE  TypeOK'
    BY <1>8 DEF Post, TypeOK, Statuses, client, queue
  <1>9. CASE SaveAcknowledgement \/ SaveWithoutCommand
    <2>1. PICK command \in Commands \cup {NoCommand} : Acknowledged(command)
      BY <1>9 DEF SaveAcknowledgement, SaveWithoutCommand, Acknowledged, Sent
    <2>2. disturbances' \in Nat
      BY <1>9, DisturbType DEF SaveAcknowledgement, SaveWithoutCommand, TypeOK
    <2>3. journal' \in [Torrents -> Receipt]
      <3>1. \A receipt \in Receipt :
              [receipt EXCEPT !.phase = "submitted", !.command = command] \in Receipt
        BY DEF Receipt, Phases
      <3>2. QED
        BY <2>1, <3>1 DEF Acknowledged, TypeOK
    <2>4. QED
      BY <2>1, <2>2, <2>3 DEF Acknowledged, TypeOK, client, arr, queue
  <1>10. CASE SubmissionFails
    BY <1>10, LeaveType DEF SubmissionFails, TypeOK, client, arr, queue
  <1>11. CASE Observe
    <2>1. noted' \in [Queues -> {"none", "new", "old"}] /\ disturbances' \in Nat
      BY <1>11, SightType, DisturbType DEF Observe, TypeOK
    <2>2. QED
      BY <1>11, <2>1, LeaveType DEF Observe, TypeOK, client, arr
  <1>12. CASE Abort
    BY <1>12, LeaveType, DisturbType DEF Abort, TypeOK, client, arr, queue
  <1>13. QED
    BY <1>1, <1>2, <1>3, <1>4, <1>5, <1>6, <1>7, <1>8, <1>9, <1>10, <1>11, <1>12
       DEF PassStep

\* What the environment leaves to Pompey alone, and the types of the rest.
LEMMA ClientSteps ==
  ASSUME MInv, NEW t \in Torrents,
         \/ Arrive(t) \/ StopSettles(t) \/ Resume(t) \/ Remove(t) \/ DayPasses(t)
         \/ \E f \in Files : TakeByHand(t, f)
  PROVE  /\ TypeOK'
         /\ UNCHANGED <<status, target, journal, pc, todo, cur, cid>>
  <1> USE DEF MInv
  <1>1. CASE Arrive(t)
    <2>1. accepts' \in [Torrents -> [Apps -> SUBSET Files]]
      BY <1>1, ManualAssumption DEF Arrive, TypeOK
    <2>2. QED
      BY <1>1, <2>1 DEF Arrive, TypeOK, arr, queue
  <1>2. CASE StopSettles(t) \/ Resume(t)
    <2>1. disturbances' \in Nat
      BY <1>2, DisturbType DEF StopSettles, Resume, TypeOK
    <2>2. torrent' \in [Torrents -> {"absent", "seeding", "stopped"}]
      BY <1>2 DEF StopSettles, Resume, TypeOK
    <2>3. QED
      BY <1>2, <2>1, <2>2 DEF StopSettles, Resume, TypeOK, arr, queue
  <1>3. CASE Remove(t)
    BY <1>3, DisturbType DEF Remove, TypeOK, arr, queue
  <1>4. CASE DayPasses(t)
    BY <1>4 DEF DayPasses, TypeOK, client, queue
  <1>5. ASSUME NEW f \in Files, TakeByHand(t, f)
        PROVE  TypeOK' /\ UNCHANGED <<status, target, journal, pc, todo, cur, cid>>
    BY <1>5, DisturbType DEF TakeByHand, TypeOK, arr, queue
  <1>6. QED
    BY <1>1, <1>2, <1>3, <1>4, <1>5

LEMMA QueueSteps ==
  ASSUME MInv, NEW q \in Queues, MinutesPass(q) \/ Block(q) \/ Unblock(q)
  PROVE  TypeOK' /\ UNCHANGED <<status, target, journal, pc, todo, cur, cid>>
  <1>1. disturbances' \in Nat
    BY DisturbType DEF MinutesPass, Block, Unblock, MInv, TypeOK
  <1>2. QED
    BY <1>1 DEF MinutesPass, Block, Unblock, MInv, TypeOK, client, arr

LEMMA ImportSteps ==
  ASSUME MInv, NEW c \in Commands, NEW f \in Files, Import(c, f)
  PROVE  TypeOK' /\ UNCHANGED <<status, target, journal, pc, todo, cur, cid>>
  <1>1. target[c] \in Torrents
    BY DEF Import, MInv, UsedHasRecord, Used
  <1>2. QED
    BY <1>1 DEF Import, MInv, TypeOK, arr, queue

-----------------------------------------------------------------------------
(* The inductive invariant *)

LEMMA InitMInv == Init => MInv
  <1> SUFFICES ASSUME Init PROVE MInv
    OBVIOUS
  <1>1. /\ \A c \in Commands : ~Used(c) /\ ~Live(c)
        /\ Polled = {}
    BY DEF Init, Used, Live, Polled, NoReceipt
  <1>2. QED
    BY <1>1, InitType
       DEF Init, MInv, AtMostOnceEver, Used, UsedHasRecord, Asking, Unsent, Sent,
           NamesItsOwn, PollsSubmitted, CompleteIsOver

\* Steps that change neither commands nor receipts.
LEMMA SameRecords ==
  ASSUME MInv, UNCHANGED <<status, target, journal>>
  PROVE  /\ AtMostOnceEver' /\ UsedHasRecord' /\ NamesItsOwn' /\ CompleteIsOver'
         /\ Polled' = Polled /\ \A c : Used(c)' <=> Used(c)
  BY DEF MInv, AtMostOnceEver, UsedHasRecord, NamesItsOwn, CompleteIsOver, Polled,
         Used, Live

LEMMA LeaveMInv ==
  ASSUME MInv, TypeOK', Leave, UNCHANGED <<status, target, journal>>
  PROVE  MInv'
  BY SameRecords DEF MInv, Leave, Asking, Unsent, Sent, PollsSubmitted

LEMMA OutsideMInv ==
  ASSUME MInv, TypeOK', UNCHANGED <<status, target, journal, pc, todo, cur, cid>>
  PROVE  MInv'
  BY SameRecords DEF MInv, Asking, Unsent, Sent, PollsSubmitted, Used

\* Steps of the poll: the receipts that are polled keep their command.
LEMMA PollMInv ==
  ASSUME MInv, TypeOK', NEW t \in Torrents, PollReceipt(t) \/ PollFails(t)
  PROVE  MInv'
  <1>1. /\ UNCHANGED <<status, target, pc, cur, cid>> /\ pc = "poll" /\ t \in todo
        /\ todo' = todo \ {t} /\ \A u \in Torrents : u # t => journal'[u] = journal[u]
    BY DEF PollReceipt, PollFails, arr, MInv, TypeOK
  <1>2. /\ t \in Polled /\ journal[t] \in Receipt /\ journal[t].phase = "submitted"
        /\ Used(journal[t].command) /\ target[journal[t].command] = t
        /\ journal[t].command \in Commands
    BY <1>1 DEF MInv, PollsSubmitted, NamesItsOwn, TypeOK, Polled, Receipt
  <1>3. /\ journal'[t].command = journal[t].command
        /\ journal'[t].phase \in {"submitted", "review", "complete"}
        /\ journal'[t].phase = "complete" => status[journal[t].command] = "completed"
    <2>1. CASE PollReceipt(t)
      BY <1>2, <2>1, SettledType DEF PollReceipt, MInv, TypeOK
    <2>2. CASE PollFails(t)
      BY <1>2, <2>2 DEF PollFails, MInv, TypeOK, Receipt
    <2>3. QED
      BY <2>1, <2>2
  <1>4. /\ \A c \in Commands : (Used(c)' <=> Used(c)) /\ (Live(c)' <=> Live(c))
        /\ \A u \in Torrents : u # t => (u \in Polled' <=> u \in Polled)
    BY <1>1 DEF Used, Live, Polled
  <1>5. UsedHasRecord'
    BY <1>1, <1>3, <1>4 DEF MInv, UsedHasRecord
  <1>6. AtMostOnceEver'
    BY <1>1 DEF MInv, AtMostOnceEver
  <1>7. NamesItsOwn'
    <2>1. ASSUME NEW u \in Torrents, u \in Polled'
          PROVE  u \in Polled /\ journal'[u].command = journal[u].command
      BY <1>1, <1>2, <1>3, <1>4, <2>1
    <2>2. QED
      BY <1>1, <2>1 DEF MInv, NamesItsOwn, Polled, Used
  <1>8. PollsSubmitted'
    <2>1. todo \subseteq Polled /\ todo \subseteq Torrents
      BY <1>1 DEF MInv, PollsSubmitted, TypeOK
    <2>2. QED
      BY <1>1, <1>4, <2>1 DEF PollsSubmitted
  <1>9. CompleteIsOver'
    <2>1. ASSUME NEW c \in Commands, Live(c), target[c] = t
          PROVE  journal'[t].phase # "complete"
      BY <1>2, <1>3, <2>1 DEF MInv, AtMostOnceEver, Live, Used
    <2>2. \A c \in Commands : Live(c) => target[c] \in Torrents
      BY DEF MInv, UsedHasRecord, Used, Live
    <2>3. QED
      BY <1>1, <1>4, <2>1, <2>2 DEF MInv, CompleteIsOver
  <1>10. QED
    BY <1>1, <1>5, <1>6, <1>7, <1>8, <1>9 DEF MInv, Asking, Unsent, Sent

LEMMA AskMInv ==
  ASSUME MInv, TypeOK', Ask
  PROVE  MInv'
  <1>1. /\ UNCHANGED <<status, target, cur, cid, todo>> /\ pc = "ask" /\ pc' = "post"
        /\ cur \in Torrents /\ journal[cur].phase = "none"
        /\ journal'[cur].phase = "submitting" /\ journal'[cur].command = NoCommand
        /\ \A u \in Torrents : u # cur => journal'[u] = journal[u]
    BY DEF Ask, MInv, Asking, TypeOK, arr
  <1>2. \A c \in Commands : Used(c) => target[c] \in Torrents /\ target[c] # cur
    BY <1>1 DEF MInv, UsedHasRecord
  <1>3. \A c \in Commands : (Used(c)' <=> Used(c)) /\ (Live(c)' <=> Live(c))
    BY <1>1 DEF Used, Live
  <1>4. AtMostOnceEver' /\ UsedHasRecord' /\ Unsent'
    BY <1>1, <1>2, <1>3 DEF MInv, AtMostOnceEver, UsedHasRecord, Unsent
  <1>5. NamesItsOwn'
    BY <1>1, <1>3 DEF MInv, NamesItsOwn, Polled, Used
  <1>6. CompleteIsOver'
    BY <1>1, <1>2, <1>3 DEF MInv, CompleteIsOver, Live, Used
  <1>7. QED
    BY <1>1, <1>4, <1>5, <1>6 DEF MInv, Asking, Sent, PollsSubmitted

LEMMA PostMInv ==
  ASSUME MInv, TypeOK', NEW c \in Commands, Post(c)
  PROVE  MInv'
  <1>1. /\ UNCHANGED <<journal, cur, todo>> /\ pc = "post" /\ pc' = "await" /\ cid' = c
        /\ ~Used(c) /\ cur \in Torrents /\ journal[cur].phase = "submitting"
        /\ \A d \in Commands : Used(d) => target[d] # cur
    BY DEF Post, MInv, Unsent, Used
  <1>2. /\ status'[c] = "sent" /\ target'[c] = cur
        /\ \A d \in Commands : d # c => status'[d] = status[d] /\ target'[d] = target[d]
    BY DEF Post, MInv, TypeOK
  <1>3. \A d \in Commands : d # c => (Used(d)' <=> Used(d)) /\ (Live(d)' <=> Live(d))
    BY <1>2 DEF Used, Live
  <1>4. AtMostOnceEver'
    BY <1>1, <1>2 DEF MInv, AtMostOnceEver, Used
  <1>5. UsedHasRecord' /\ Sent'
    BY <1>1, <1>2, <1>3 DEF MInv, UsedHasRecord, Sent, Used
  <1>6. NamesItsOwn'
    BY <1>1, <1>2, <1>3 DEF MInv, NamesItsOwn, Polled, TypeOK, Receipt
  <1>7. CompleteIsOver'
    BY <1>1, <1>2, <1>3 DEF MInv, CompleteIsOver
  <1>8. QED
    BY <1>1, <1>4, <1>5, <1>6, <1>7 DEF MInv, Asking, Unsent, PollsSubmitted

LEMMA AcknowledgedMInv ==
  ASSUME MInv, TypeOK', NEW command \in {cid, NoCommand}, Acknowledged(command)
  PROVE  MInv'
  <1>1. /\ UNCHANGED <<status, target, todo>> /\ pc = "await" /\ pc' = "scan"
        /\ cur \in Torrents /\ cid \in Commands /\ target[cid] = cur /\ Used(cid)
        /\ journal'[cur].phase = "submitted" /\ journal'[cur].command = command
        /\ \A u \in Torrents : u # cur => journal'[u] = journal[u]
    BY DEF Acknowledged, MInv, Sent, TypeOK, Receipt, arr
  <1>2. \A c \in Commands : (Used(c)' <=> Used(c)) /\ (Live(c)' <=> Live(c))
    BY <1>1 DEF Used, Live
  <1>3. AtMostOnceEver' /\ UsedHasRecord' /\ CompleteIsOver'
    BY <1>1, <1>2 DEF MInv, AtMostOnceEver, UsedHasRecord, CompleteIsOver, Live, Used
  <1>4. NamesItsOwn'
    BY <1>1, <1>2 DEF MInv, NamesItsOwn, Polled, Used
  <1>5. QED
    BY <1>1, <1>3, <1>4 DEF MInv, Asking, Unsent, Sent, PollsSubmitted

LEMMA StatusMInv ==
  ASSUME MInv, NEW c \in Commands, Answer(c) \/ Finish(c) \/ Expire(c)
  PROVE  MInv'
  <1>1. PICK s \in Statuses \ {"unused"} :
          SetStatus(c, s) /\ Used(c) /\ (s \in {"sent", "running"} => Live(c))
    BY DEF Answer, Accept, Lose, Finish, Expire, Statuses, Used, Live
  <1>2. TypeOK'
    BY <1>1, SetStatusType DEF MInv
  <1>3. /\ UNCHANGED <<target, journal, pc, todo, cur, cid>> /\ status'[c] = s
        /\ \A d \in Commands : d # c => status'[d] = status[d]
    BY <1>1 DEF SetStatus, MInv, TypeOK
  <1>4. \A d \in Commands : (Used(d)' <=> Used(d)) /\ (Live(d)' => Live(d))
    BY <1>1, <1>3 DEF Used, Live
  <1>5. AtMostOnceEver' /\ UsedHasRecord' /\ CompleteIsOver'
    BY <1>3, <1>4 DEF MInv, AtMostOnceEver, UsedHasRecord, CompleteIsOver, Used
  <1>6. NamesItsOwn'
    BY <1>3, <1>4 DEF MInv, NamesItsOwn, Polled, TypeOK, Receipt
  <1>7. QED
    BY <1>2, <1>3, <1>4, <1>5, <1>6
       DEF MInv, Asking, Unsent, Sent, PollsSubmitted, Polled

LEMMA StepMInv == MInv /\ [Next]_vars => MInv'
  <1> SUFFICES ASSUME MInv, [Next]_vars PROVE MInv'
    OBVIOUS
  <1>1. CASE PassStep \/ SaveWithoutCommand \/ Abort
    <2>1. TypeOK'
      BY <1>1, PassType
    <2>2. CASE FetchAgain \/ EndPolls \/ EndScan
      <3>1. UNCHANGED <<status, target, journal>>
            /\ pc' \in {"poll", "scan", "observe"} /\ (pc' = "poll" => todo' = Polled)
        BY <2>2 DEF FetchAgain, EndPolls, EndScan, arr
      <3>2. QED
        BY <2>1, <3>1, SameRecords DEF MInv, Asking, Unsent, Sent, PollsSubmitted
    <2>3. CASE AskNext
      <3>1. UNCHANGED <<status, target, journal>> /\ pc = "ask" /\ pc' \in {"ask", "scan"}
            /\ (pc' = "ask" => cur' = cur)
        BY <2>3 DEF AskNext, arr
      <3>2. QED
        BY <2>1, <3>1, SameRecords DEF MInv, Asking, Unsent, Sent, PollsSubmitted
    <2>4. ASSUME NEW t \in Torrents, Consider(t)
          PROVE  MInv'
      <3>1. UNCHANGED <<status, target, journal>> /\ pc = "scan" /\ pc' \in {"ask", "scan"}
            /\ (pc' = "ask" => cur' = t /\ journal[t].phase = "none")
        BY <2>4 DEF Consider, Ready, arr
      <3>2. QED
        BY <2>1, <3>1, SameRecords DEF MInv, Asking, Unsent, Sent, PollsSubmitted
    <2>5. CASE SaveAcknowledgement \/ SaveWithoutCommand
      BY <2>1, <2>5, AcknowledgedMInv DEF SaveAcknowledgement, SaveWithoutCommand
    <2>6. CASE SubmissionFails \/ Observe \/ Abort
      BY <2>1, <2>6, LeaveMInv DEF SubmissionFails, Observe, Abort, arr
    <2>7. QED
      BY <1>1, <2>1, <2>2, <2>3, <2>4, <2>5, <2>6, PollMInv, AskMInv, PostMInv DEF PassStep
  <1>2. CASE Environment
    BY <1>2, ClientSteps, QueueSteps, ImportSteps, OutsideMInv, StatusMInv DEF Environment
  <1>3. CASE UNCHANGED vars
    <2>1. TypeOK'
      BY <1>3 DEF vars, MInv, TypeOK
    <2>2. QED
      BY <1>3, <2>1, OutsideMInv DEF vars
  <1>4. QED
    BY <1>1, <1>2, <1>3 DEF Next

-----------------------------------------------------------------------------
(* Every step is a step of SubmitOnce *)

LEMMA QuietOnce ==
  ASSUME UNCHANGED <<status, target, journal>>, Permitted' \in {Permitted, {}}
  PROVE  [Once!Next]_(Once!vars)
  <1>1. Recorded' = Recorded /\ AtWork' = AtWork
    BY DEF Recorded, AtWork, Live
  <1>2. QED
    BY <1>1 DEF Once!Next, Once!Die, Once!vars

\* One receipt is saved.
LEMMA SaveOnce ==
  ASSUME MInv, MInv', NEW t \in Torrents, UNCHANGED <<status, target>>,
         \A u \in Torrents : u # t => journal'[u] = journal[u],
         Permitted = {}, Permitted' = {u \in {t} : journal[t].phase = "none"},
         \/ journal[t].phase = "none" /\ journal'[t].phase = "submitting"
         \/ journal[t].phase = "submitting" /\ journal'[t].phase = "submitted"
         \/ journal[t].phase = "submitted"
              /\ journal'[t].phase \in {"submitted", "review", "complete"}
  PROVE  Once!Save
  <1>1. AtWork' = AtWork
    BY DEF AtWork, Live
  <1>2. Recorded' \in [Torrents -> Once!Phases]
    BY DEF MInv, TypeOK, Recorded, Receipt, Phases, Once!Phases
  <1>3. /\ Recorded[t] = journal[t].phase /\ Recorded'[t] = journal'[t].phase
        /\ \A u \in Torrents : u # t => Recorded'[u] = Recorded[u]
    BY DEF Recorded
  <1>4. journal'[t].phase = "complete" => t \notin AtWork
    BY <1>1 DEF MInv, CompleteIsOver, AtWork
  <1>5. journal[t].phase = "none" => t \notin AtWork
    BY DEF MInv, UsedHasRecord, AtWork, Live, Used
  <1>6. Permitted' = Permitted \cup
          {u \in Torrents : Recorded[u] = "none" /\ Recorded'[u] = "submitting"}
    BY <1>3
  <1>7. QED
    BY <1>1, <1>2, <1>3, <1>4, <1>5, <1>6 DEF Once!Save, Once!Move, Once!Quiet

LEMMA PassOnce ==
  ASSUME MInv, MInv', PassStep \/ SaveWithoutCommand \/ Abort
  PROVE  [Once!Next]_(Once!vars)
  <1>1. CASE \/ FetchAgain \/ EndPolls \/ EndScan \/ AskNext \/ SubmissionFails
             \/ Observe \/ Abort \/ \E t \in Torrents : Consider(t)
    <2>1. UNCHANGED <<status, target, journal>> /\ Permitted' = {}
      BY <1>1 DEF FetchAgain, EndPolls, EndScan, AskNext, SubmissionFails, Observe, Abort,
                  Consider, Leave, arr, Permitted
    <2>2. QED
      BY <2>1, QuietOnce
  <1>2. ASSUME NEW t \in Torrents, PollReceipt(t) \/ PollFails(t)
        PROVE  Once!Save
    <2>1. /\ UNCHANGED <<status, target, pc>> /\ pc = "poll" /\ t \in Polled
          /\ \A u \in Torrents : u # t => journal'[u] = journal[u]
          /\ journal[t] \in Receipt
      BY <1>2 DEF PollReceipt, PollFails, arr, MInv, TypeOK, PollsSubmitted
    <2>2. /\ journal[t].phase = "submitted"
          /\ journal'[t].phase \in {"submitted", "review", "complete"}
      BY <1>2, <2>1, SettledType DEF PollReceipt, PollFails, Polled, MInv, TypeOK, Receipt
    <2>3. Permitted = {} /\ Permitted' = {}
      BY <2>1 DEF Permitted
    <2>4. QED
      BY <2>1, <2>2, <2>3, SaveOnce
  <1>3. ASSUME Ask
        PROVE  Once!Save
    <2>1. /\ UNCHANGED <<status, target>> /\ pc = "ask" /\ pc' = "post" /\ cur' = cur
          /\ cur \in Torrents /\ journal[cur].phase = "none"
          /\ journal'[cur].phase = "submitting"
          /\ \A u \in Torrents : u # cur => journal'[u] = journal[u]
      BY <1>3 DEF Ask, arr, MInv, Asking, TypeOK
    <2>2. Permitted = {} /\ Permitted' = {cur}
      BY <2>1 DEF Permitted
    <2>3. QED
      BY <2>1, <2>2, SaveOnce
  <1>4. ASSUME NEW command, Acknowledged(command)
        PROVE  Once!Save
    <2>1. /\ UNCHANGED <<status, target>> /\ pc = "await" /\ pc' = "scan"
          /\ cur \in Torrents /\ journal[cur].phase = "submitting"
          /\ journal'[cur].phase = "submitted"
          /\ \A u \in Torrents : u # cur => journal'[u] = journal[u]
      BY <1>4 DEF Acknowledged, arr, MInv, Sent, TypeOK, Receipt
    <2>2. Permitted = {} /\ Permitted' = {}
      BY <2>1 DEF Permitted
    <2>3. QED
      BY <2>1, <2>2, SaveOnce
  <1>5. ASSUME NEW c \in Commands, Post(c)
        PROVE  Once!Send(cur) /\ cur \in Torrents
    <2>1. /\ UNCHANGED journal /\ pc = "post" /\ pc' = "await" /\ cur \in Torrents
          /\ status[c] = "unused" /\ status'[c] = "sent" /\ target'[c] = cur
          /\ \A d \in Commands : d # c => status'[d] = status[d] /\ target'[d] = target[d]
      BY <1>5 DEF Post, MInv, Unsent, TypeOK
    <2>2. AtWork' = AtWork \cup {cur}
      BY <2>1 DEF AtWork, Live
    <2>3. Permitted = {cur} /\ Permitted' = {} /\ Recorded' = Recorded
      BY <2>1 DEF Permitted, Recorded
    <2>4. QED
      BY <2>1, <2>2, <2>3 DEF Once!Send
  <1>6. QED
    BY <1>1, <1>2, <1>3, <1>4, <1>5
       DEF PassStep, SaveAcknowledgement, SaveWithoutCommand, Once!Next

\* A native command that ends was the only one at work on its torrent.
LEMMA CommandOnce ==
  ASSUME MInv, NEW c \in Commands, Answer(c) \/ Finish(c) \/ Expire(c)
  PROVE  [Once!Next]_(Once!vars)
  <1>1. PICK s \in Statuses :
          SetStatus(c, s) /\ Used(c) /\ (s \in {"sent", "running"} => Live(c))
    BY DEF Answer, Accept, Lose, Finish, Expire, Statuses, Used, Live
  <1>2. /\ UNCHANGED <<target, journal, pc, cur>> /\ target[c] \in Torrents
        /\ status'[c] = s /\ \A d \in Commands : d # c => status'[d] = status[d]
    BY <1>1 DEF SetStatus, MInv, UsedHasRecord, TypeOK
  <1>3. Permitted' = Permitted /\ Recorded' = Recorded
    BY <1>2 DEF Permitted, Recorded
  <1>4. CASE Live(c) <=> s \in {"sent", "running"}
    <2>1. AtWork' = AtWork
      BY <1>2, <1>4 DEF AtWork, Live
    <2>2. QED
      BY <1>3, <2>1 DEF Once!vars
  <1>5. CASE Live(c) /\ s \notin {"sent", "running"}
    <2>1. \A d \in Commands : d # c /\ Live(d) => target[d] # target[c]
      BY <1>5 DEF MInv, AtMostOnceEver, Live
    <2>2. \A d \in Commands : Live(d)' <=> Live(d) /\ d # c
      BY <1>2, <1>5 DEF Live
    <2>3. AtWork' = AtWork \ {target[c]}
      BY <1>2, <2>1, <2>2 DEF AtWork
    <2>4. Once!End(target[c])
      BY <1>3, <2>3 DEF Once!End
    <2>5. QED
      BY <1>2, <2>4 DEF Once!Next
  <1>6. QED
    BY <1>1, <1>4, <1>5

LEMMA StepOnce ==
  ASSUME MInv, MInv', [Next]_vars
  PROVE  [Once!Next]_(Once!vars)
  <1>1. CASE Environment
    <2>1. ASSUME UNCHANGED <<status, target, journal, pc, todo, cur, cid>>
          PROVE  [Once!Next]_(Once!vars)
      BY <2>1, QuietOnce DEF Permitted
    <2>2. QED
      BY <1>1, <2>1, ClientSteps, QueueSteps, ImportSteps, CommandOnce DEF Environment
  <1>2. CASE UNCHANGED vars
    BY <1>2, QuietOnce DEF vars, Permitted
  <1>3. QED
    BY <1>1, <1>2, PassOnce DEF Next

-----------------------------------------------------------------------------
(* The theorems *)

LEMMA Invariance == Spec => []MInv
  BY InitMInv, StepMInv, PTL DEF Spec

\* A hash is submitted at most once for all time, for any torrents, files,
\* commands, re-added downloads and aborted passes.
THEOREM SubmittedOnceEver == Spec => []AtMostOnceEver
  <1>1. MInv => AtMostOnceEver
    BY DEF MInv
  <1>2. QED
    BY <1>1, Invariance, PTL

\* The manual imports implement the same promise as the hand-over does.
THEOREM ManualSubmitsOnce == Spec => SubmitsOnce
  <1>1. Init => Once!Init
    <2> SUFFICES ASSUME Init PROVE Once!Init
      OBVIOUS
    <2>1. Recorded = [t \in Torrents |-> "none"]
      BY DEF Init, Recorded, NoReceipt
    <2>2. Permitted = {} /\ AtWork = {}
      BY DEF Init, Permitted, AtWork, Live
    <2>3. QED
      BY <2>1, <2>2 DEF Once!Init
  <1>2. MInv /\ MInv' /\ [Next]_vars => [Once!Next]_(Once!vars)
    BY StepOnce
  <1>3. QED
    BY <1>1, <1>2, Invariance, PTL DEF Spec, SubmitsOnce, Once!Spec
=============================================================================
