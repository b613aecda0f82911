------------------------ MODULE ReleaseRecoveryProofs ------------------------
(***************************************************************************)
(* Theorems about ReleaseRecovery, for any releases, episodes and bounds.  *)
(*                                                                         *)
(* The argument: stack.lock separates the rejection from the pass, so the  *)
(* receipts a pass works on carry every rejection that is on disk; an      *)
(* attempt leaves "prepared" only after its receipts were reopened; what a *)
(* rejection still has to remove is part of what its attempt names.  Both  *)
(* abstract promises follow: the lock is kept (StackLock), and a rejection *)
(* goes through its steps as recorded, once (Undertaking).                 *)
(***************************************************************************)
EXTENDS ReleaseRecovery, TLAPS

-----------------------------------------------------------------------------
(* Changing the stage of the last attempt *)

LEMMA StageChange ==
  ASSUME NEW s \in Seq(Attempt), NEW i \in 1..Len(s), NEW x \in Stages,
         NEW t, t = [s EXCEPT ![i].stage = x]
  PROVE  /\ t \in Seq(Attempt) /\ Len(t) = Len(s)
         /\ \A k \in 1..Len(s) : /\ t[k].target = s[k].target
                                 /\ t[k].confirmation = s[k].confirmation
                                 /\ t[k].at = s[k].at
                                 /\ k # i => t[k].stage = s[k].stage
         /\ t[i].stage = x
<1>1. \A k \in 1..Len(s) : s[k] \in Attempt OBVIOUS
<1>2. \A k \in 1..Len(s) : t[k] = IF k = i THEN [s[k] EXCEPT !.stage = x] ELSE s[k]
  OBVIOUS
<1>3. \A k \in 1..Len(s) : t[k] \in Attempt BY <1>1, <1>2 DEF Attempt
<1>4. Len(t) = Len(s) /\ DOMAIN t = 1..Len(s) OBVIOUS
<1>5. t \in Seq(Attempt) BY <1>3, <1>4
<1> QED BY <1>1, <1>2, <1>4, <1>5 DEF Attempt

-----------------------------------------------------------------------------
(* Type correctness *)

LEMMA HistoryType ==
  ASSUME TypeOK
  PROVE  /\ imports \in Seq([release : Releases, episode : Episodes])
         /\ Len(imports) \in Nat
         /\ attempts \in Seq(Attempt)
         /\ Last \in Nat
         /\ \A k \in 1..Last : attempts[k] \in Attempt
  <1>1. /\ imports \in Seq([release : Releases, episode : Episodes])
        /\ attempts \in Seq(Attempt)
    BY DEF TypeOK
  <1> QED BY <1>1 DEF Last

LEMMA RejectingType ==
  ASSUME TypeOK, Last > 0
  PROVE  /\ Rejecting \in Target
         /\ Rejecting.release \in Releases
         /\ Rejecting.files \in SUBSET Files
         /\ Covers[Rejecting.release] \in SUBSET Episodes
  <1>1. attempts[Last] \in Attempt BY HistoryType
  <1> QED BY <1>1, RecoveryAssumption DEF Rejecting, Attempt, Target

LEMMA StageType ==
  ASSUME TypeOK, Last > 0, NEW x \in Stages, SetStage(x)
  PROVE  attempts' \in Seq(Attempt)
  <1>1. attempts \in Seq(Attempt) /\ Last \in 1..Len(attempts) BY HistoryType DEF Last
  <1>2. attempts' = [attempts EXCEPT ![Last].stage = x] BY DEF SetStage
  <1> QED BY <1>1, <1>2, StageChange

LEMMA CountersType ==
  ASSUME TypeOK
  PROVE  previews + 1 \in Nat /\ disturbances + 1 \in Nat
  <1>1. previews \in Nat /\ disturbances \in Nat BY DEF TypeOK
  <1> QED BY <1>1

LEMMA InspectedType ==
  ASSUME TypeOK, NEW r \in Releases, Inspectable(r)
  PROVE  Inspected(r) \in Target
  BY DEF Inspected, Inspectable, Target, TypeOK, TorrentStates, FilesOf

LEMMA InitType == Init => TypeOK
  <1> SUFFICES ASSUME Init PROVE TypeOK OBVIOUS
  <1>1. NoReceipt \in Receipt BY DEF NoReceipt, Receipt
  <1>2. receipts \in [Episodes -> Receipt] /\ working \in [Episodes -> Receipt]
    BY <1>1 DEF Init
  <1>3. /\ imports \in Seq([release : Releases, episode : Episodes])
        /\ attempts \in Seq(Attempt) /\ Len(imports) <= MaxImports
    BY RecoveryAssumption DEF Init
  <1> QED
    BY <1>2, <1>3 DEF Init, TypeOK, TorrentStates, RejectSteps, PassSteps, NoTarget, None

LEMMA RejectType ==
  ASSUME TypeOK, RejectStep \/ CallFails \/ RejectDies, rstep # "idle" => Last > 0
  PROVE  TypeOK'
  <1>1. CASE StartReject
    <2>1. preview.target \in Target BY <1>1 DEF StartReject, TypeOK, NoTarget
    <2>2. Len(imports) \in Nat BY HistoryType
    <2>3. [target |-> preview.target, at |-> Len(imports),
           confirmation |-> preview.confirmation, stage |-> "prepared"] \in Attempt
      BY <2>1, <2>2 DEF Attempt, Stages, TypeOK
    <2>4. attempts' \in Seq(Attempt)
      <3>1. attempts' = Append(attempts, [target |-> preview.target, at |-> Len(imports),
                                          confirmation |-> preview.confirmation,
                                          stage |-> "prepared"])
        BY <1>1 DEF StartReject
      <3> QED BY <2>3, <3>1, HistoryType
    <2> QED BY <1>1, <2>4 DEF StartReject, TypeOK, native, KeepReject, passvars, bounds,
                              RejectSteps
  <1>2. CASE Reopen
    <2>1. Rejecting.files \in SUBSET Files BY <1>2, RejectingType DEF Reopen, Step
    <2>2. ASSUME NEW e \in Episodes PROVE Reopened(e) \in Receipt
      <3>1. receipts[e] \in Receipt BY DEF TypeOK
      <3> QED BY <2>1, <3>1 DEF Reopened, Receipt, None
    <2>3. receipts' \in [Episodes -> Receipt]
      BY <1>2, <2>2 DEF Reopen, TypeOK
    <2> QED BY <1>2, <2>3 DEF Reopen, TypeOK, native, KeepReject, passvars, bounds,
                              RejectSteps
  <1>3. ASSUME NEW x \in Stages, SetStage(x), rstep # "idle"
        PROVE  attempts' \in Seq(Attempt)
    BY <1>3, StageType
  <1>4. CASE InspectAgain
    <2>1. Rejecting.files \in SUBSET Files
      BY <1>4, RejectingType DEF InspectAgain, Step
    <2> QED BY <1>4, <2>1 DEF InspectAgain, TypeOK, native, durable, KeepReject, passvars,
                              bounds, RejectSteps
  <1>5. ASSUME NEW f \in Files, DeleteFile(f) PROVE TypeOK'
    BY <1>5 DEF DeleteFile, TypeOK, durable, KeepReject, passvars, bounds, RejectSteps
  <1>6. CASE SaveRemoved
    BY <1>3, <1>6 DEF SaveRemoved, Step, Stages, TypeOK, native, KeepReject, passvars, bounds,
                      RejectSteps
  <1>7. CASE Block
    <2>1. Rejecting.release \in Releases
      BY <1>7, RejectingType DEF Block, Step
    <2> QED BY <1>7, <2>1 DEF Block, TypeOK, durable, KeepReject, passvars, bounds,
                              RejectSteps, TorrentStates
  <1>8. CASE DeleteTorrent
    BY <1>8 DEF DeleteTorrent, TypeOK, durable, KeepReject, passvars, bounds, RejectSteps,
                TorrentStates
  <1>9. CASE SaveBlocked
    BY <1>3, <1>9 DEF SaveBlocked, Step, Stages, TypeOK, native, KeepReject, passvars, bounds,
                      RejectSteps
  <1>10. CASE Monitor
    <2>1. Covers[Rejecting.release] \in SUBSET Episodes
      BY <1>10, RejectingType DEF Monitor, Step
    <2> QED BY <1>10, <2>1 DEF Monitor, TypeOK, durable, KeepReject, passvars, bounds,
                               RejectSteps
  <1>11. CASE Search
    BY <1>11 DEF Search, TypeOK, native, durable, KeepReject, passvars, bounds, RejectSteps
  <1>12. CASE SaveSearch
    BY <1>3, <1>12 DEF SaveSearch, Ended, Step, Stages, TypeOK, native, KeepReject, passvars,
                       bounds, RejectSteps
  <1>13. CASE NeedsReview
    <2>1. rstep # "idle" BY <1>13 DEF NeedsReview, Changed, Step
    <2> QED BY <1>3, <1>13, <2>1 DEF NeedsReview, Ended, Stages, TypeOK, native,
                                     KeepReject, passvars, bounds, RejectSteps
  <1>14. CASE CallFails
    <2>1. attempts' \in Seq(Attempt) BY <1>3, <1>14 DEF CallFails, Stages
    <2>2. disturbances' \in Nat BY <1>14, CountersType DEF CallFails
    <2> QED BY <1>14, <2>1, <2>2 DEF CallFails, Ended, TypeOK, native, passvars, RejectSteps
  <1>15. CASE RejectDies
    <2>1. disturbances' \in Nat BY <1>15, CountersType DEF RejectDies
    <2> QED BY <1>15, <2>1 DEF RejectDies, Ended, TypeOK, native, durable, passvars,
                               RejectSteps
  <1> QED
    BY <1>1, <1>2, <1>4, <1>5, <1>6, <1>7, <1>8, <1>9, <1>10, <1>11, <1>12, <1>13, <1>14,
       <1>15 DEF RejectStep

LEMMA NoReceiptsType == NoReceipts \in [Episodes -> Receipt]
  BY DEF NoReceipts, NoReceipt, Receipt

LEMMA NoFilesType == NoFiles \in [Episodes -> Files \cup {None}]
  BY DEF NoFiles

LEMMA PassType ==
  ASSUME TypeOK, PassStep \/ PassFails
  PROVE  TypeOK'
  <1>1. CASE StartPass
    <2>1. listed' \in [Episodes -> Files \cup {None}]
      <3>1. ASSUME NEW e \in Episodes
            PROVE  (IF FileOf(e) = {} THEN None ELSE CHOOSE f \in FileOf(e) : TRUE)
                     \in Files \cup {None}
        <4>1. FileOf(e) \subseteq Files BY DEF FileOf, TypeOK
        <4> QED BY <4>1
      <3> QED BY <1>1, <3>1 DEF StartPass
    <2> QED BY <1>1, <2>1 DEF StartPass, TypeOK, native, durable, KeepPass, rejectvars,
                              bounds, PassSteps
  <1>2. CASE ReadFiles
    <2>1. listed' \in [Episodes -> Files \cup {None}] BY <1>2 DEF ReadFiles, TypeOK
    <2> QED BY <1>2, <2>1 DEF ReadFiles, TypeOK, native, durable, KeepPass, rejectvars,
                              bounds, PassSteps
  <1>3. CASE Backfill
    <2>1. ASSUME NEW e \in Episodes, Newest(e) # {}
          PROVE  [NoReceipt EXCEPT !.status = "delivered",
                    !.file = CHOOSE f \in Newest(e) : TRUE] \in Receipt
      <3>1. Newest(e) \subseteq 1..Len(imports) BY DEF Newest, Evidence
      <3>2. 1..Len(imports) \subseteq Files
        <4>1. Len(imports) <= MaxImports BY DEF TypeOK
        <4> QED BY <4>1, HistoryType, RecoveryAssumption DEF Files
      <3>3. (CHOOSE f \in Newest(e) : TRUE) \in Files BY <2>1, <3>1, <3>2
      <3> QED BY <3>3 DEF NoReceipt, Receipt
    <2>2. working' \in [Episodes -> Receipt] BY <1>3, <2>1 DEF Backfill, TypeOK
    <2> QED BY <1>3, <2>2 DEF Backfill, TypeOK, native, durable, KeepPass, rejectvars,
                              bounds, PassSteps
  <1>4. CASE RecordFiles
    <2>1. ASSUME NEW e \in Episodes
          PROVE  (IF Counts(listed[e]) THEN RecordFile(working[e], listed[e])
                  ELSE working[e]) \in Receipt
      <3>1. working[e] \in Receipt BY DEF TypeOK
      <3>2. Counts(listed[e]) => listed[e] \in Files BY DEF Counts, TypeOK
      <3> QED BY <3>1, <3>2 DEF RecordFile, Receipt
    <2>2. working' \in [Episodes -> Receipt] BY <1>4, <2>1 DEF RecordFiles
    <2>3. watched' \in SUBSET Episodes BY <1>4 DEF RecordFiles, DeliveredIn, TypeOK
    <2> QED BY <1>4, <2>2, <2>3, NoFilesType DEF RecordFiles, TypeOK, native, durable,
                              KeepPass, rejectvars, bounds, PassSteps
  <1>5. CASE SaveEvidence
    BY <1>5 DEF SaveEvidence, TypeOK, native, KeepPass, rejectvars, bounds, PassSteps
  <1>6. CASE Unmonitor
    BY <1>6 DEF Unmonitor, TypeOK, durable, KeepPass, rejectvars, bounds, PassSteps
  <1>7. CASE SaveReceipts
    BY <1>7, NoReceiptsType DEF SaveReceipts, TypeOK, native, KeepPass, rejectvars, bounds,
                                PassSteps
  <1>8. CASE Observe
    BY <1>8, NoReceiptsType, NoFilesType DEF Observe, EndPass, TypeOK, native, KeepPass,
                                             rejectvars, bounds, PassSteps
  <1>9. CASE PassFails
    <2>1. disturbances' \in Nat BY <1>9, CountersType DEF PassFails
    <2> QED BY <1>9, <2>1, NoReceiptsType, NoFilesType
            DEF PassFails, EndPass, TypeOK, native, durable, rejectvars, PassSteps
  <1> QED
    BY <1>1, <1>2, <1>3, <1>4, <1>5, <1>6, <1>7, <1>8, <1>9 DEF PassStep

LEMMA ExternalType ==
  ASSUME TypeOK, External \/ \E r \in Releases : Preview(r)
  PROVE  TypeOK'
  <1>1. ASSUME NEW r \in Releases, Preview(r) PROVE TypeOK'
    <2>1. Inspected(r) \in Target BY <1>1, InspectedType DEF Preview
    <2>2. previews + 1 \in Nat BY CountersType
    <2> QED BY <1>1, <2>1, <2>2 DEF Preview, TypeOK, native, durable, rejectvars, passvars
  <1>2. ASSUME NEW r \in Releases, Grab(r) PROVE TypeOK'
    BY <1>2 DEF Grab, Outside, TypeOK, durable, rejectvars, passvars, TorrentStates
  <1>3. ASSUME NEW r \in Releases, Completes(r) PROVE TypeOK'
    BY <1>3 DEF Completes, Outside, TypeOK, durable, rejectvars, passvars, TorrentStates
  <1>4. ASSUME NEW r \in Releases, Concludes(r) PROVE TypeOK'
    BY <1>4 DEF Concludes, Outside, TypeOK, durable, rejectvars, passvars, TorrentStates
  <1>5. ASSUME NEW r \in Releases, NEW e \in Episodes, Import(r, e) PROVE TypeOK'
    <2>1. imports' = Append(imports, [release |-> r, episode |-> e])
          /\ Len(imports) < MaxImports
      BY <1>5 DEF Import
    <2>2. /\ imports' \in Seq([release : Releases, episode : Episodes])
          /\ Len(imports') = Len(imports) + 1
      BY <2>1, HistoryType
    <2>3. Len(imports') <= MaxImports /\ Len(imports) + 1 \in Files
      BY <2>1, <2>2, HistoryType, RecoveryAssumption DEF Files
    <2> QED BY <1>5, <2>2, <2>3 DEF Import, Outside, TypeOK, durable, rejectvars, passvars
  <1>6. ASSUME NEW f \in Files, Routed(f) PROVE TypeOK'
    BY <1>6 DEF Routed, Outside, TypeOK, durable, rejectvars, passvars
  <1>7. ASSUME NEW f \in Files, UserRemoves(f) PROVE TypeOK'
    <2>1. disturbances' \in Nat BY <1>7, CountersType DEF UserRemoves
    <2> QED BY <1>7, <2>1 DEF UserRemoves, Outside, TypeOK, durable, rejectvars, passvars
  <1>8. ASSUME NEW e \in Episodes, UserMonitors(e) PROVE TypeOK'
    <2>1. disturbances' \in Nat BY <1>8, CountersType DEF UserMonitors
    <2> QED BY <1>8, <2>1 DEF UserMonitors, Outside, TypeOK, durable, rejectvars, passvars
  <1> QED BY <1>1, <1>2, <1>3, <1>4, <1>5, <1>6, <1>7, <1>8 DEF External

-----------------------------------------------------------------------------
(* The inductive invariant *)

Locks ==
  /\ rstep # "idle" => lock = "reject" /\ Last > 0
  /\ pstep # "idle" => lock = "pass"

\* A rejection past "reopen" has its files excluded from the receipts.
Excluded ==
  rstep \notin {"idle", "reopen"} =>
    \A e \in Covers[Rejecting.release] : Rejecting.files \subseteq receipts[e].rejectedFiles

\* A pass works on what is on disk, and changes nothing but new deliveries.
Carried ==
  pstep \notin {"idle", "observe"} =>
    \A e \in Episodes : /\ working[e].rejectedFiles = receipts[e].rejectedFiles
                        /\ working[e] = receipts[e] \/ working[e].status = "delivered"

WorkingIsNotRejected ==
  \A e \in Episodes : working[e].status = "delivered" =>
    working[e].file \notin working[e].rejectedFiles

ReceiptInv ==
  /\ Locks /\ Excluded /\ Carried /\ WorkingIsNotRejected
  /\ RejectionsAreKept /\ DeliveryIsNotRejected

-----------------------------------------------------------------------------
(* How the steps of a rejection change the attempts *)

\* Nothing of the attempts changes but the stage of the last one.
OnlyStageChanges ==
  /\ Last' = Last /\ Rejecting' = Rejecting
  /\ \A k \in 1..Last : attempts'[k].target = attempts[k].target
  /\ \A k \in 1..Last : attempts'[k].confirmation = attempts[k].confirmation
  /\ \A k \in 1..Last : attempts'[k].at = attempts[k].at
  /\ \A k \in 1..Last : k # Last => attempts'[k].stage = attempts[k].stage

LEMMA StageFacts ==
  ASSUME TypeOK, Last > 0, NEW x \in Stages, SetStage(x)
  PROVE  OnlyStageChanges /\ attempts'[Last].stage = x
  <1>1. attempts \in Seq(Attempt) /\ Last \in 1..Len(attempts) BY HistoryType DEF Last
  <1>2. attempts' = [attempts EXCEPT ![Last].stage = x] BY DEF SetStage
  <1>3. /\ Len(attempts') = Len(attempts)
        /\ \A k \in 1..Len(attempts) : /\ attempts'[k].target = attempts[k].target
                                       /\ attempts'[k].confirmation = attempts[k].confirmation
                                       /\ attempts'[k].at = attempts[k].at
                                       /\ k # Last => attempts'[k].stage = attempts[k].stage
        /\ attempts'[Last].stage = x
    BY <1>1, <1>2, StageChange
  <1> QED BY <1>1, <1>3 DEF Last, Rejecting, OnlyStageChanges

LEMMA StartFacts ==
  ASSUME TypeOK, StartReject
  PROVE  /\ Last' = Last + 1
         /\ \A k \in 1..Last : attempts'[k] = attempts[k]
         /\ attempts'[Last'] = [target |-> preview.target, at |-> Len(imports),
                               confirmation |-> preview.confirmation, stage |-> "prepared"]
         /\ preview.target \in Target
  <1>1. attempts' = Append(attempts, [target |-> preview.target, at |-> Len(imports),
                                      confirmation |-> preview.confirmation,
                                      stage |-> "prepared"])
    BY DEF StartReject
  <1>2. preview.target \in Target BY DEF StartReject, TypeOK, NoTarget
  <1> QED BY <1>1, <1>2, HistoryType DEF Last

\* The steps that change neither attempts nor receipts.
LEMMA OnwardFacts ==
  ASSUME \/ InspectAgain \/ \E f \in Files : DeleteFile(f)
         \/ Block \/ DeleteTorrent \/ Monitor \/ Search
  PROVE  /\ rstep \notin {"idle", "reopen"} /\ rstep' \notin {"idle", "reopen"}
         /\ UNCHANGED <<lock, attempts, status, receipts, pstep, working, watched>>
  BY DEF InspectAgain, DeleteFile, Block, DeleteTorrent, Monitor, Search, Step, durable,
         KeepReject, passvars

\* The steps that record a stage.
LEMMA SaveFacts ==
  ASSUME SaveRemoved \/ SaveBlocked \/ SaveSearch \/ NeedsReview \/ CallFails
  PROVE  /\ rstep \notin {"idle", "reopen"}
         /\ \E x \in Stages \ {"prepared"} : SetStage(x)
         /\ UNCHANGED <<receipts, pstep, working, watched, monitored, imports>>
         /\ \/ rstep' \notin {"idle", "reopen"} /\ lock' = lock
            \/ rstep' = "idle" /\ lock' = "free"
  BY DEF SaveRemoved, SaveBlocked, SaveSearch, NeedsReview, CallFails, Changed, Step, Ended,
         Stages, KeepReject, passvars, native

-----------------------------------------------------------------------------
(* ReceiptInv is inductive *)

LEMMA ReceiptInvInit == Init => ReceiptInv
  <1> SUFFICES ASSUME Init PROVE ReceiptInv OBVIOUS
  <1>1. Last = 0 BY DEF Init, Last
  <1>2. \A e \in Episodes : receipts[e] = NoReceipt /\ working[e] = NoReceipt BY DEF Init
  <1> QED BY <1>1, <1>2 DEF Init, ReceiptInv, Locks, Excluded, Carried, WorkingIsNotRejected,
                            RejectionsAreKept, DeliveryIsNotRejected, NoReceipt

LEMMA ReceiptInvReject ==
  ASSUME TypeOK, ReceiptInv, RejectStep \/ CallFails \/ RejectDies
  PROVE  ReceiptInv'
  <1> USE DEF ReceiptInv
  <1>1. CASE StartReject
    <2>1. UNCHANGED <<receipts, pstep, working>> /\ lock = "free" /\ lock' = "reject"
          /\ rstep' = "reopen"
      BY <1>1 DEF StartReject, KeepReject, passvars
    <2>2. Last \in Nat /\ Last' = Last + 1 BY <1>1, StartFacts, HistoryType
    <2>3. Locks' BY <2>1, <2>2 DEF Locks
    <2>4. Carried' BY <2>1 DEF Carried, Locks
    <2>5. RejectionsAreKept'
      <3> SUFFICES ASSUME NEW k \in 1..Last', (attempts[k].stage)' # "prepared"
                   PROVE  \A e \in Covers[(attempts[k].target)'.release] :
                            (attempts[k].target)'.files \subseteq receipts'[e].rejectedFiles
        BY DEF RejectionsAreKept
      <3>1. k # Last' BY <1>1, StartFacts
      <3>2. k \in 1..Last BY <2>2, <3>1
      <3>3. attempts'[k] = attempts[k] BY <1>1, <3>2, StartFacts
      <3> QED BY <2>1, <3>2, <3>3 DEF RejectionsAreKept
    <2> QED BY <2>1, <2>3, <2>4, <2>5 DEF Excluded, WorkingIsNotRejected,
                                          DeliveryIsNotRejected
  <1>2. CASE Reopen
    <2>1. /\ UNCHANGED <<lock, attempts, pstep, working>> /\ rstep = "reopen"
          /\ rstep' = "inspect" /\ Last > 0 /\ pstep = "idle"
      BY <1>2 DEF Reopen, Step, KeepReject, passvars, Locks
    <2>2. /\ Last' = Last /\ Rejecting' = Rejecting
          /\ Covers[Rejecting.release] \subseteq Episodes
      BY <2>1, RejectingType DEF Last, Rejecting
    <2>3. ASSUME NEW e \in Episodes
          PROVE  /\ receipts[e].rejectedFiles \subseteq receipts'[e].rejectedFiles
                 /\ e \in Covers[Rejecting.release] =>
                      /\ Rejecting.files \subseteq receipts'[e].rejectedFiles
                      /\ receipts'[e].status = "retrying"
                 /\ e \notin Covers[Rejecting.release] => receipts'[e] = receipts[e]
      <3>1. receipts[e] \in Receipt BY DEF TypeOK
      <3>2. receipts'[e] = IF e \in Covers[Rejecting.release] THEN Reopened(e)
                           ELSE receipts[e]
        BY <1>2 DEF Reopen
      <3> QED BY <3>1, <3>2 DEF Reopened, Receipt
    <2>4. Locks' BY <2>1, <2>2 DEF Locks
    <2>5. Excluded' BY <2>2, <2>3 DEF Excluded
    <2>6. RejectionsAreKept'
      <3> SUFFICES ASSUME NEW k \in 1..Last, attempts[k].stage # "prepared",
                          NEW e \in Covers[attempts[k].target.release]
                   PROVE  attempts[k].target.files \subseteq receipts'[e].rejectedFiles
        BY <2>1, <2>2 DEF RejectionsAreKept
      <3>1. attempts[k] \in Attempt BY HistoryType
      <3>2. e \in Episodes BY <3>1, RecoveryAssumption DEF Attempt, Target
      <3>3. attempts[k].target.files \subseteq receipts[e].rejectedFiles
        BY DEF RejectionsAreKept
      <3> QED BY <2>3, <3>2, <3>3
    <2>7. DeliveryIsNotRejected'
      BY <2>3 DEF DeliveryIsNotRejected
    <2> QED BY <2>1, <2>4, <2>5, <2>6, <2>7 DEF Carried, WorkingIsNotRejected
  <1>3. CASE \/ InspectAgain \/ \E f \in Files : DeleteFile(f)
             \/ Block \/ DeleteTorrent \/ Monitor \/ Search
    BY <1>3, OnwardFacts DEF Last, Rejecting, Locks, Excluded, Carried, WorkingIsNotRejected,
                             RejectionsAreKept, DeliveryIsNotRejected
  <1>4. CASE SaveRemoved \/ SaveBlocked \/ SaveSearch \/ NeedsReview \/ CallFails
    <2>1. /\ rstep \notin {"idle", "reopen"} /\ UNCHANGED <<receipts, pstep, working>>
          /\ \/ rstep' \notin {"idle", "reopen"} /\ lock' = lock
             \/ rstep' = "idle" /\ lock' = "free"
      BY <1>4, SaveFacts
    <2>2. PICK x \in Stages \ {"prepared"} : SetStage(x) BY <1>4, SaveFacts
    <2>3. Last > 0 /\ lock = "reject" /\ pstep = "idle" BY <2>1 DEF Locks
    <2>4. OnlyStageChanges BY <2>2, <2>3, StageFacts
    <2>5. RejectionsAreKept'
      <3> SUFFICES ASSUME NEW k \in 1..Last, attempts'[k].stage # "prepared",
                          NEW e \in Covers[attempts'[k].target.release]
                   PROVE  attempts'[k].target.files \subseteq receipts'[e].rejectedFiles
        BY <2>4 DEF RejectionsAreKept, OnlyStageChanges
      <3>1. attempts'[k].target = attempts[k].target
            /\ (k # Last => attempts'[k].stage = attempts[k].stage)
        BY <2>4 DEF OnlyStageChanges
      <3>2. CASE k = Last
        <4>1. attempts[k].target = Rejecting BY <3>2 DEF Rejecting
        <4> QED BY <2>1, <3>1, <4>1 DEF Excluded
      <3>3. CASE k # Last BY <2>1, <3>1, <3>3 DEF RejectionsAreKept
      <3> QED BY <3>2, <3>3
    <2> QED BY <2>1, <2>3, <2>4, <2>5 DEF Locks, Excluded, Carried, WorkingIsNotRejected,
                                          DeliveryIsNotRejected, OnlyStageChanges
  <1>5. CASE RejectDies
    BY <1>5 DEF RejectDies, Ended, durable, passvars, Last, Locks, Excluded, Carried,
                WorkingIsNotRejected, RejectionsAreKept, DeliveryIsNotRejected
  <1> QED BY <1>1, <1>2, <1>3, <1>4, <1>5 DEF RejectStep

LEMMA ReceiptInvPass ==
  ASSUME TypeOK, ReceiptInv, PassStep \/ PassFails
  PROVE  ReceiptInv'
  <1> USE DEF ReceiptInv
  <1>1. CASE StartPass
    <2>1. /\ UNCHANGED <<receipts, attempts, rstep>> /\ working' = receipts
          /\ lock = "free" /\ lock' = "pass" /\ pstep' = "files"
      BY <1>1 DEF StartPass, KeepPass, rejectvars, durable
    <2>2. Last' = Last /\ Rejecting' = Rejecting BY <2>1 DEF Last, Rejecting
    <2> QED BY <2>1, <2>2 DEF Locks, Excluded, Carried, WorkingIsNotRejected,
                              RejectionsAreKept, DeliveryIsNotRejected
  <1>2. CASE ReadFiles \/ Unmonitor
    <2>1. /\ UNCHANGED <<receipts, attempts, rstep, lock, working>>
          /\ pstep \notin {"idle", "observe"} /\ pstep' # "idle"
      BY <1>2 DEF ReadFiles, Unmonitor, KeepPass, rejectvars, durable, At
    <2> QED BY <2>1 DEF Last, Rejecting, Locks, Excluded, Carried, WorkingIsNotRejected,
                        RejectionsAreKept, DeliveryIsNotRejected
  <1>3. CASE Backfill
    <2>1. /\ UNCHANGED <<receipts, attempts, rstep, lock>>
          /\ pstep \notin {"idle", "observe"} /\ pstep' # "idle"
      BY <1>3 DEF Backfill, KeepPass, rejectvars, durable, At
    <2>2. ASSUME NEW e \in Episodes
          PROVE  \/ working'[e] = working[e]
                 \/ /\ working[e] = NoReceipt
                    /\ working'[e].status = "delivered" /\ working'[e].rejectedFiles = {}
      <3>1. working'[e] = IF working[e] # NoReceipt \/ Newest(e) = {} THEN working[e]
                          ELSE [NoReceipt EXCEPT !.status = "delivered",
                                  !.file = CHOOSE f \in Newest(e) : TRUE]
        BY <1>3 DEF Backfill
      <3> QED BY <3>1 DEF NoReceipt
    <2>3. Carried'
      <3> SUFFICES ASSUME NEW e \in Episodes
                   PROVE  /\ working'[e].rejectedFiles = receipts'[e].rejectedFiles
                          /\ working'[e] = receipts'[e] \/ working'[e].status = "delivered"
        BY <2>1 DEF Carried
      <3>1. /\ working[e].rejectedFiles = receipts[e].rejectedFiles
            /\ working[e] = receipts[e] \/ working[e].status = "delivered"
        BY <2>1 DEF Carried
      <3>2. NoReceipt.rejectedFiles = {} BY DEF NoReceipt
      <3> QED BY <2>1, <2>2, <3>1, <3>2
    <2>4. WorkingIsNotRejected' BY <2>1, <2>2 DEF WorkingIsNotRejected
    <2> QED BY <2>1, <2>3, <2>4 DEF Last, Rejecting, Locks, Excluded, RejectionsAreKept,
                                    DeliveryIsNotRejected
  <1>4. CASE RecordFiles
    <2>1. /\ UNCHANGED <<receipts, attempts, rstep, lock>>
          /\ pstep \notin {"idle", "observe"} /\ pstep' # "idle"
      BY <1>4 DEF RecordFiles, KeepPass, rejectvars, durable, At
    <2>2. ASSUME NEW e \in Episodes
          PROVE  \/ working'[e] = working[e]
                 \/ /\ working'[e].status = "delivered"
                    /\ working'[e].rejectedFiles = working[e].rejectedFiles
                    /\ working'[e].file \notin working[e].rejectedFiles
      <3>1. working[e] \in Receipt BY DEF TypeOK
      <3>2. working'[e] = IF Counts(listed[e]) THEN RecordFile(working[e], listed[e])
                          ELSE working[e]
        BY <1>4 DEF RecordFiles
      <3> QED BY <3>1, <3>2 DEF RecordFile, Receipt
    <2>3. Carried' BY <2>1, <2>2 DEF Carried
    <2>4. WorkingIsNotRejected' BY <2>1, <2>2 DEF WorkingIsNotRejected
    <2> QED BY <2>1, <2>3, <2>4 DEF Last, Rejecting, Locks, Excluded, RejectionsAreKept,
                                    DeliveryIsNotRejected
  <1>5. CASE SaveEvidence \/ SaveReceipts
    <2>1. /\ UNCHANGED <<attempts, rstep, lock>> /\ receipts' = working
          /\ pstep \notin {"idle", "observe"} /\ pstep' # "idle" /\ rstep = "idle"
          /\ (working' = working \/ (working' = NoReceipts /\ pstep' = "observe"))
      BY <1>5 DEF SaveEvidence, SaveReceipts, KeepPass, rejectvars, At, Locks
    <2>2. \A e \in Episodes : receipts'[e].rejectedFiles = receipts[e].rejectedFiles
      BY <2>1 DEF Carried
    <2>3. RejectionsAreKept'
      <3> SUFFICES ASSUME NEW k \in 1..Last, attempts[k].stage # "prepared",
                          NEW e \in Covers[attempts[k].target.release]
                   PROVE  attempts[k].target.files \subseteq receipts'[e].rejectedFiles
        BY <2>1 DEF RejectionsAreKept, Last
      <3>1. e \in Episodes
        BY HistoryType, RecoveryAssumption DEF Attempt, Target
      <3> QED BY <2>2, <3>1 DEF RejectionsAreKept
    <2>4. DeliveryIsNotRejected' BY <2>1 DEF WorkingIsNotRejected, DeliveryIsNotRejected
    <2>5. WorkingIsNotRejected'
      BY <2>1 DEF WorkingIsNotRejected, NoReceipts, NoReceipt
    <2> QED BY <2>1, <2>3, <2>4, <2>5 DEF Last, Locks, Excluded, Carried
  <1>6. CASE Observe \/ PassFails
    <2>1. /\ UNCHANGED <<receipts, attempts, rstep>>
          /\ lock' = "free" /\ pstep # "idle" /\ pstep' = "idle" /\ working' = NoReceipts
      BY <1>6 DEF Observe, PassFails, EndPass, KeepPass, rejectvars, durable, At
    <2>2. rstep = "idle" BY <2>1 DEF Locks
    <2>3. WorkingIsNotRejected'
      BY <2>1 DEF WorkingIsNotRejected, NoReceipts, NoReceipt
    <2> QED BY <2>1, <2>2, <2>3 DEF Last, Rejecting, Locks, Excluded, Carried,
                                    RejectionsAreKept, DeliveryIsNotRejected
  <1> QED BY <1>1, <1>2, <1>3, <1>4, <1>5, <1>6 DEF PassStep

\* What the application, the client and the user do touches none of it.
LEMMA OutsideFacts ==
  ASSUME External \/ \E r \in Releases : Preview(r)
  PROVE  UNCHANGED <<lock, attempts, status, receipts, rstep, todo, pstep, working, watched>>
  BY DEF External, Grab, Completes, Concludes, Import, Routed, UserRemoves, UserMonitors,
         Preview, Outside, durable, rejectvars, passvars

LEMMA ReceiptInvOutside ==
  ASSUME ReceiptInv,
         UNCHANGED <<lock, attempts, receipts, rstep, pstep, working>>
  PROVE  ReceiptInv'
  BY DEF ReceiptInv, Last, Rejecting, Locks, Excluded, Carried, WorkingIsNotRejected,
         RejectionsAreKept, DeliveryIsNotRejected

-----------------------------------------------------------------------------
(* What a rejection removes *)

\* Native files are numbered by the history; a target names files that exist.
FilesAreKnown ==
  /\ library \subseteq 1..Len(imports)
  /\ \A k \in 1..Last : attempts[k].target.files \subseteq 1..Len(imports)
  /\ preview.target # NoTarget => preview.target.files \subseteq 1..Len(imports)

Deleting ==
  rstep \in {"delete", "removed"} =>
    todo \subseteq Rejecting.files /\ Rejecting.files \cap library \subseteq todo

Deleted ==
  rstep \in {"block", "torrent", "blocked", "monitor", "search", "searched"} =>
    Rejecting.files \cap library = {}

Blocked ==
  rstep \in {"torrent", "blocked", "monitor", "search", "searched"} =>
    Rejecting.release \in blocklist

RemovalInv ==
  FilesAreKnown /\ Deleting /\ Deleted /\ Blocked /\ SearchFollowsRejection

LEMMA RemovalInvInit == Init => RemovalInv
  <1> SUFFICES ASSUME Init PROVE RemovalInv OBVIOUS
  <1>1. Last = 0 BY DEF Init, Last
  <1> QED BY <1>1 DEF Init, RemovalInv, FilesAreKnown, Deleting, Deleted, Blocked,
                      SearchFollowsRejection

\* What the application imports later has a new number.
LEMMA RemovalInvShrink ==
  ASSUME TypeOK, Locks, RemovalInv, UNCHANGED <<attempts, rstep, todo>>,
         blocklist \subseteq blocklist',
         1..Len(imports) \subseteq 1..Len(imports'), library' \subseteq 1..Len(imports'),
         library' \cap (1..Len(imports)) \subseteq library,
         \/ preview' = preview
         \/ preview'.target.files \subseteq 1..Len(imports')
  PROVE  RemovalInv'
  <1>1. Last' = Last /\ Rejecting' = Rejecting BY DEF Last, Rejecting
  <1>2. FilesAreKnown' BY <1>1 DEF RemovalInv, FilesAreKnown
  <1>3. Deleting' /\ Deleted' /\ Blocked'
    <2>1. rstep # "idle" => Rejecting.files \subseteq 1..Len(imports)
      BY HistoryType DEF RemovalInv, FilesAreKnown, Rejecting, Locks
    <2> QED BY <1>1, <2>1 DEF RemovalInv, Deleting, Deleted, Blocked
  <1>4. SearchFollowsRejection'
    BY <1>1 DEF RemovalInv, FilesAreKnown, SearchFollowsRejection
  <1> QED BY <1>2, <1>3, <1>4 DEF RemovalInv

LEMMA RemovalInvOutside ==
  ASSUME TypeOK, Locks, RemovalInv,
         External \/ (\E r \in Releases : Preview(r)) \/ PassStep \/ PassFails
  PROVE  RemovalInv'
  <1>1. CASE PassStep \/ PassFails
    <2>1. UNCHANGED <<attempts, rstep, todo, blocklist, imports, library, preview>>
      BY <1>1 DEF PassStep, PassFails, StartPass, ReadFiles, Backfill, RecordFiles, SaveEvidence,
                  Unmonitor, SaveReceipts, Observe, KeepPass, native, durable, rejectvars
    <2> QED BY <2>1, RemovalInvShrink DEF RemovalInv, FilesAreKnown
  <1>2. ASSUME NEW r \in Releases, Preview(r) PROVE RemovalInv'
    <2>1. /\ UNCHANGED <<attempts, rstep, todo, blocklist, imports, library>>
          /\ preview'.target = Inspected(r)
      BY <1>2 DEF Preview, native, durable, rejectvars
    <2>2. preview'.target.files \subseteq 1..Len(imports)
      <3>1. Inspected(r).files = FilesOf(r) BY DEF Inspected
      <3>2. FilesOf(r) \subseteq library BY DEF FilesOf
      <3> QED BY <2>1, <3>1, <3>2 DEF RemovalInv, FilesAreKnown
    <2> QED BY <2>1, <2>2, RemovalInvShrink DEF RemovalInv, FilesAreKnown
  <1>3. ASSUME NEW r \in Releases, NEW e \in Episodes, Import(r, e) PROVE RemovalInv'
    <2>1. /\ UNCHANGED <<attempts, rstep, todo, blocklist, preview>>
          /\ imports' = Append(imports, [release |-> r, episode |-> e])
          /\ library' = (library \ FileOf(e)) \cup {Len(imports) + 1}
      BY <1>3 DEF Import, Outside, durable, rejectvars
    <2>2. Len(imports) \in Nat /\ Len(imports') = Len(imports) + 1 BY <2>1, HistoryType
    <2>3. library \subseteq 1..Len(imports) BY DEF RemovalInv, FilesAreKnown
    <2>4. 1..Len(imports) \subseteq 1..Len(imports') BY <2>2
    <2>5. library' \subseteq 1..Len(imports')
      <3>1. Len(imports) + 1 \in 1..Len(imports') BY <2>2
      <3> QED BY <2>1, <2>3, <2>4, <3>1
    <2>6. library' \cap (1..Len(imports)) \subseteq library BY <2>1, <2>2
    <2> QED BY <2>1, <2>4, <2>5, <2>6, RemovalInvShrink
  <1>4. ASSUME NEW f \in Files, Routed(f) \/ UserRemoves(f) PROVE RemovalInv'
    <2>1. /\ UNCHANGED <<attempts, rstep, todo, blocklist, imports, preview>>
          /\ library' \subseteq library
      BY <1>4 DEF Routed, UserRemoves, Outside, durable, rejectvars
    <2> QED BY <2>1, RemovalInvShrink DEF RemovalInv, FilesAreKnown
  <1>5. ASSUME \/ \E r \in Releases : Grab(r) \/ Completes(r) \/ Concludes(r)
               \/ \E e \in Episodes : UserMonitors(e)
        PROVE  RemovalInv'
    <2>1. UNCHANGED <<attempts, rstep, todo, blocklist, imports, library, preview>>
      BY <1>5 DEF Grab, Completes, Concludes, UserMonitors, Outside, durable, rejectvars
    <2> QED BY <2>1, RemovalInvShrink DEF RemovalInv, FilesAreKnown
  <1> QED BY <1>1, <1>2, <1>3, <1>4, <1>5 DEF External

LEMMA RemovalInvReject ==
  ASSUME TypeOK, Locks, RemovalInv, RejectStep \/ CallFails \/ RejectDies
  PROVE  RemovalInv'
  <1> USE DEF RemovalInv
  <1>1. CASE StartReject
    <2>1. /\ UNCHANGED <<blocklist, imports, library, preview>> /\ rstep' = "reopen"
          /\ preview.target # NoTarget
      BY <1>1 DEF StartReject, native, KeepReject
    <2>2. /\ Last' = Last + 1 /\ Last \in Nat
          /\ \A k \in 1..Last : attempts'[k] = attempts[k]
          /\ attempts'[Last'].target = preview.target
          /\ attempts'[Last'].stage = "prepared"
      BY <1>1, StartFacts, HistoryType
    <2>3. ASSUME NEW k \in 1..Last', k # Last'
          PROVE  k \in 1..Last /\ attempts'[k] = attempts[k]
      <3>1. k \in 1..Last BY <2>2, <2>3
      <3> QED BY <2>2, <3>1
    <2>4. FilesAreKnown' BY <2>1, <2>2, <2>3 DEF FilesAreKnown
    <2>5. SearchFollowsRejection' BY <2>1, <2>2, <2>3 DEF SearchFollowsRejection
    <2> QED BY <2>1, <2>4, <2>5 DEF Deleting, Deleted, Blocked
  <1>2. CASE Reopen \/ RejectDies
    <2>1. /\ UNCHANGED <<attempts, blocklist, imports, library, preview>>
          /\ rstep' \in {"idle", "inspect"}
      BY <1>2 DEF Reopen, RejectDies, Ended, native, durable, KeepReject
    <2> QED BY <2>1 DEF Last, FilesAreKnown, SearchFollowsRejection, Deleting, Deleted, Blocked
  <1>3. CASE InspectAgain
    <2>1. /\ UNCHANGED <<attempts, blocklist, imports, library, preview>>
          /\ todo' = Rejecting.files
          /\ \/ rstep' = "block" /\ Rejecting.files = {}
             \/ rstep' = "delete"
      BY <1>3 DEF InspectAgain, native, durable, KeepReject
    <2> QED BY <2>1 DEF Last, Rejecting, FilesAreKnown, SearchFollowsRejection, Deleting,
                        Deleted, Blocked
  <1>4. ASSUME NEW f \in Files, DeleteFile(f) PROVE RemovalInv'
    <2>1. /\ UNCHANGED <<attempts, blocklist, imports, preview>>
          /\ rstep = "delete" /\ rstep' = "removed"
          /\ library' = library \ {f} /\ todo' = todo \ {f}
      BY <1>4 DEF DeleteFile, durable, KeepReject, Step
    <2> QED BY <2>1 DEF Last, Rejecting, FilesAreKnown, SearchFollowsRejection, Deleting,
                        Deleted, Blocked
  <1>5. CASE Block
    <2>1. /\ UNCHANGED <<attempts, imports, library, preview>>
          /\ rstep = "block" /\ rstep' \in {"blocked", "torrent"}
          /\ blocklist' = blocklist \cup {Rejecting.release}
      BY <1>5 DEF Block, durable, KeepReject, Step
    <2> QED BY <2>1 DEF Last, Rejecting, FilesAreKnown, SearchFollowsRejection, Deleting,
                        Deleted, Blocked
  <1>6. CASE DeleteTorrent \/ Monitor \/ Search
    <2>1. /\ UNCHANGED <<attempts, imports, library, preview, blocklist>>
          /\ rstep \in {"torrent", "monitor", "search"}
          /\ rstep' \in {"blocked", "search", "searched"}
      BY <1>6 DEF DeleteTorrent, Monitor, Search, native, durable, KeepReject, Step
    <2> QED BY <2>1 DEF Last, Rejecting, FilesAreKnown, SearchFollowsRejection, Deleting,
                        Deleted, Blocked
  <1>7. CASE SaveRemoved \/ SaveBlocked \/ SaveSearch \/ NeedsReview \/ CallFails
    <2>1. /\ UNCHANGED <<imports, library, preview, blocklist>>
          /\ \/ rstep = "removed" /\ rstep' = "block" /\ todo = {} /\ todo' = todo
             \/ rstep = "removed" /\ rstep' = "delete" /\ todo' = todo
             \/ rstep = "blocked" /\ rstep' = "monitor"
             \/ rstep' = "idle"
      BY <1>7 DEF SaveRemoved, SaveBlocked, SaveSearch, NeedsReview, CallFails, Ended, native,
                  KeepReject, Step
    <2>2. rstep # "idle"
      BY <1>7 DEF SaveRemoved, SaveBlocked, SaveSearch, NeedsReview, CallFails, Changed, Step
    <2>3. Last > 0 BY <2>2 DEF Locks
    <2>4. PICK x \in Stages : SetStage(x) /\ (x = "retry-requested" => rstep = "searched")
      BY <1>7 DEF SaveRemoved, SaveBlocked, SaveSearch, NeedsReview, CallFails, Stages, Step
    <2>5. OnlyStageChanges /\ attempts'[Last].stage = x BY <2>3, <2>4, StageFacts
    <2>6. FilesAreKnown' BY <2>1, <2>5 DEF FilesAreKnown, OnlyStageChanges
    <2>7. SearchFollowsRejection'
      <3> SUFFICES ASSUME NEW k \in 1..Last, attempts'[k].stage = "retry-requested"
                   PROVE  /\ attempts'[k].target.release \in blocklist
                          /\ attempts'[k].target.files \cap library = {}
        BY <2>1, <2>5 DEF SearchFollowsRejection, OnlyStageChanges
      <3>1. attempts'[k].target = attempts[k].target BY <2>5 DEF OnlyStageChanges
      <3>2. CASE k = Last
        <4>1. rstep = "searched" /\ attempts[k].target = Rejecting
          BY <2>4, <2>5, <3>2 DEF Rejecting
        <4> QED BY <3>1, <4>1 DEF Deleted, Blocked
      <3>3. CASE k # Last
        BY <2>5, <3>1, <3>3 DEF OnlyStageChanges, SearchFollowsRejection
      <3> QED BY <3>2, <3>3
    <2>8. Rejecting' = Rejecting BY <2>5 DEF OnlyStageChanges
    <2> QED BY <2>1, <2>6, <2>7, <2>8 DEF Deleting, Deleted, Blocked
  <1> QED BY <1>1, <1>2, <1>3, <1>4, <1>5, <1>6, <1>7 DEF RejectStep

-----------------------------------------------------------------------------
(* Monitoring *)

\* The episodes a pass is about to take off monitoring are delivered, from
\* SaveEvidence on by what is on disk.
Watching ==
  /\ pstep = "evidence" => \A e \in watched : working[e].status = "delivered"
  /\ pstep = "unmonitor" => \A e \in watched : receipts[e].status = "delivered"

Prepared == rstep = "reopen" => attempts[Last].stage = "prepared"

Requested ==
  rstep \in {"search", "searched"} => Covers[Rejecting.release] \subseteq monitored

MonitorInv == Watching /\ Prepared /\ Requested /\ RetriesAreMonitored

LEMMA MonitorInvInit == Init => MonitorInv
  <1> SUFFICES ASSUME Init PROVE MonitorInv OBVIOUS
  <1>1. Last = 0 BY DEF Init, Last
  <1> QED BY <1>1 DEF Init, MonitorInv, Watching, Prepared, Requested, RetriesAreMonitored

LEMMA MonitorInvOutside ==
  ASSUME MonitorInv, monitored \subseteq monitored',
         UNCHANGED <<attempts, receipts, rstep, pstep, working, watched>>
  PROVE  MonitorInv'
  BY DEF MonitorInv, Watching, Prepared, Requested, RetriesAreMonitored, Last, Rejecting

LEMMA MonitorInvPass ==
  ASSUME TypeOK, ReceiptInv, MonitorInv, PassStep \/ PassFails
  PROVE  MonitorInv'
  <1> USE DEF MonitorInv
  <1>1. /\ UNCHANGED <<attempts, rstep>> /\ Last' = Last /\ Rejecting' = Rejecting
        /\ rstep' = "idle"
    BY DEF PassStep, PassFails, StartPass, ReadFiles, Backfill, RecordFiles, SaveEvidence,
           Unmonitor, SaveReceipts, Observe, KeepPass, native, durable, rejectvars, At,
           Last, Rejecting, ReceiptInv, Locks
  <1>2. Prepared' /\ Requested' BY <1>1 DEF Prepared, Requested
  <1>3. CASE StartPass \/ ReadFiles \/ Backfill \/ Observe \/ PassFails
    <2>1. UNCHANGED <<receipts, monitored>> /\ pstep' \notin {"evidence", "unmonitor"}
      BY <1>3 DEF StartPass, ReadFiles, Backfill, Observe, PassFails, EndPass, native, durable
    <2> QED BY <1>1, <1>2, <2>1 DEF Watching, RetriesAreMonitored
  <1>4. CASE RecordFiles
    <2>1. /\ UNCHANGED <<receipts, monitored>> /\ pstep' # "unmonitor"
          /\ \A e \in watched' : working'[e].status = "delivered"
      BY <1>4 DEF RecordFiles, DeliveredIn, native, durable
    <2> QED BY <1>1, <1>2, <2>1 DEF Watching, RetriesAreMonitored
  <1>5. CASE SaveEvidence \/ SaveReceipts
    <2>1. /\ UNCHANGED <<monitored, watched>> /\ receipts' = working
          /\ pstep \notin {"idle", "observe"} /\ pstep' # "evidence"
          /\ pstep' = "unmonitor" => pstep = "evidence"
      BY <1>5 DEF SaveEvidence, SaveReceipts, native, At
    <2>2. Watching' BY <2>1 DEF Watching
    <2>3. ASSUME NEW e \in Episodes, receipts'[e].status = "retrying"
          PROVE  receipts[e].status = "retrying"
      BY <2>1, <2>3 DEF ReceiptInv, Carried
    <2>4. \A k \in 1..Last : Covers[attempts[k].target.release] \subseteq Episodes
      BY HistoryType, RecoveryAssumption DEF Attempt, Target
    <2>5. RetriesAreMonitored' BY <1>1, <2>1, <2>3, <2>4 DEF RetriesAreMonitored
    <2> QED BY <1>2, <2>2, <2>5
  <1>6. CASE Unmonitor
    <2>1. /\ UNCHANGED receipts /\ monitored' = monitored \ watched
          /\ pstep = "unmonitor" /\ pstep' = "save"
      BY <1>6 DEF Unmonitor, durable, At
    <2>2. \A e \in watched : receipts[e].status # "retrying" BY <2>1 DEF Watching
    <2> QED BY <1>1, <1>2, <2>1, <2>2 DEF Watching, RetriesAreMonitored
  <1> QED BY <1>3, <1>4, <1>5, <1>6 DEF PassStep

LEMMA MonitorInvReject ==
  ASSUME TypeOK, Locks, MonitorInv, RejectStep \/ CallFails \/ RejectDies
  PROVE  MonitorInv'
  <1> USE DEF MonitorInv
  <1>1. CASE StartReject
    <2>1. /\ UNCHANGED <<receipts, monitored, pstep, working, watched>> /\ rstep' = "reopen"
      BY <1>1 DEF StartReject, native, KeepReject, passvars
    <2>2. /\ Last' = Last + 1 /\ Last \in Nat
          /\ \A k \in 1..Last : attempts'[k] = attempts[k]
          /\ attempts'[Last'].stage = "prepared"
      BY <1>1, StartFacts, HistoryType
    <2>3. RetriesAreMonitored'
      <3> SUFFICES ASSUME NEW k \in 1..Last', NEW e \in Covers[attempts'[k].target.release],
                          attempts'[k].stage = "retry-requested",
                          \A j \in 1..Last' :
                             j > k => e \notin Covers[attempts'[j].target.release],
                          receipts[e].status = "retrying"
                   PROVE  e \in monitored
        BY <2>1 DEF RetriesAreMonitored
      <3>1. k \in 1..Last BY <2>2
      <3>2. attempts'[k] = attempts[k] BY <2>2, <3>1
      <3>3. \A j \in 1..Last : j \in 1..Last' /\ attempts'[j] = attempts[j] BY <2>2
      <3> QED BY <3>1, <3>2, <3>3 DEF RetriesAreMonitored
    <2> QED BY <2>1, <2>2, <2>3 DEF Watching, Prepared, Requested
  <1>2. CASE Reopen
    <2>1. /\ UNCHANGED <<attempts, monitored, pstep, working, watched>> /\ rstep = "reopen"
          /\ rstep' = "inspect" /\ pstep = "idle"
          /\ Last' = Last /\ Rejecting' = Rejecting
      BY <1>2 DEF Reopen, native, KeepReject, passvars, Step, Last, Rejecting, Locks
    <2>2. \A e \in Episodes : e \notin Covers[Rejecting.release] => receipts'[e] = receipts[e]
      BY <1>2 DEF Reopen
    <2>3. RetriesAreMonitored'
      <3> SUFFICES ASSUME NEW k \in 1..Last, NEW e \in Covers[attempts[k].target.release],
                          attempts[k].stage = "retry-requested",
                          \A j \in 1..Last : j > k => e \notin Covers[attempts[j].target.release],
                          receipts'[e].status = "retrying"
                   PROVE  e \in monitored
        BY <2>1 DEF RetriesAreMonitored
      <3>1. Last \in Nat /\ Last > 0 BY <2>1, HistoryType DEF Locks
      <3>2. k # Last BY <2>1 DEF Prepared
      <3>3. e \notin Covers[Rejecting.release] BY <3>1, <3>2 DEF Rejecting
      <3>4. e \in Episodes BY HistoryType, RecoveryAssumption DEF Attempt, Target
      <3> QED BY <2>2, <3>3, <3>4 DEF RetriesAreMonitored
    <2> QED BY <2>1, <2>3 DEF Watching, Prepared, Requested
  <1>3. CASE \/ InspectAgain \/ \E f \in Files : DeleteFile(f)
             \/ Block \/ DeleteTorrent \/ Monitor \/ Search
    <2>1. /\ rstep' # "reopen" /\ UNCHANGED <<attempts, receipts, pstep, working, watched>>
          /\ Last' = Last /\ Rejecting' = Rejecting
      BY <1>3, OnwardFacts DEF Last, Rejecting
    <2>2. /\ monitored \subseteq monitored'
          /\ rstep' \in {"search", "searched"} =>
               \/ rstep = "search"
               \/ Covers[Rejecting.release] \subseteq monitored'
      BY <1>3 DEF InspectAgain, DeleteFile, Block, DeleteTorrent, Monitor, Search, native, Step
    <2> QED BY <2>1, <2>2 DEF Watching, Prepared, Requested, RetriesAreMonitored
  <1>4. CASE SaveRemoved \/ SaveBlocked \/ SaveSearch \/ NeedsReview \/ CallFails
    <2>1. /\ UNCHANGED <<receipts, pstep, working, watched, monitored>>
          /\ rstep # "idle" /\ rstep' \notin {"reopen", "search", "searched"}
      BY <1>4, SaveFacts
         DEF SaveRemoved, SaveBlocked, SaveSearch, NeedsReview, CallFails, Ended
    <2>2. PICK x \in Stages : SetStage(x) /\ (x = "retry-requested" => rstep = "searched")
      BY <1>4 DEF SaveRemoved, SaveBlocked, SaveSearch, NeedsReview, CallFails, Stages, Step
    <2>3. OnlyStageChanges /\ attempts'[Last].stage = x
      BY <2>1, <2>2, StageFacts DEF Locks
    <2>4. RetriesAreMonitored'
      <3> SUFFICES ASSUME NEW k \in 1..Last, NEW e \in Covers[attempts'[k].target.release],
                          attempts'[k].stage = "retry-requested",
                          \A j \in 1..Last :
                             j > k => e \notin Covers[attempts'[j].target.release],
                          receipts[e].status = "retrying"
                   PROVE  e \in monitored
        BY <2>1, <2>3 DEF RetriesAreMonitored, OnlyStageChanges
      <3>1. \A j \in 1..Last : attempts'[j].target = attempts[j].target
        BY <2>3 DEF OnlyStageChanges
      <3>2. CASE k = Last
        <4>1. rstep = "searched" /\ attempts'[k].target = Rejecting
          BY <2>2, <2>3, <3>1, <3>2 DEF Rejecting
        <4> QED BY <4>1 DEF Requested
      <3>3. CASE k # Last
        <4>1. attempts[k].stage = "retry-requested"
          BY <2>3, <3>3 DEF OnlyStageChanges
        <4> QED BY <3>1, <4>1 DEF RetriesAreMonitored
      <3> QED BY <3>2, <3>3
    <2> QED BY <2>1, <2>4 DEF Watching, Prepared, Requested
  <1>5. CASE RejectDies
    BY <1>5 DEF RejectDies, Ended, native, durable, passvars, Last, Watching, Prepared,
                Requested, RetriesAreMonitored
  <1> QED BY <1>1, <1>2, <1>3, <1>4, <1>5 DEF RejectStep

-----------------------------------------------------------------------------
(* The sequence of attempts and its outcome *)

SequenceInv == NeverReplayed /\ ImportedMeansReplaced

LEMMA SequenceInvInit == Init => SequenceInv
  <1> SUFFICES ASSUME Init PROVE SequenceInv OBVIOUS
  <1>1. Last = 0 BY DEF Init, Last
  <1> QED BY <1>1 DEF Init, SequenceInv, NeverReplayed, ImportedMeansReplaced

LEMMA SequenceInvReject ==
  ASSUME TypeOK, Locks, SequenceInv, RejectStep \/ CallFails \/ RejectDies
  PROVE  SequenceInv'
  <1> USE DEF SequenceInv
  <1>1. CASE StartReject
    <2>1. /\ Last' = Last + 1 /\ Last \in Nat
          /\ \A k \in 1..Last : attempts'[k] = attempts[k]
          /\ attempts'[Last'].confirmation = preview.confirmation
          /\ \A k \in 1..Last : attempts[k].confirmation # preview.confirmation
          /\ status' = "Retrying"
      BY <1>1, StartFacts, HistoryType DEF StartReject
    <2>2. \A k \in 1..Last' : k # Last' =>
            /\ k \in 1..Last
            /\ attempts'[k] = attempts[k]
            /\ attempts'[k].confirmation # attempts'[Last'].confirmation
      BY <2>1
    <2>3. NeverReplayed' BY <2>2 DEF NeverReplayed
    <2> QED BY <2>1, <2>3 DEF ImportedMeansReplaced
  <1>2. CASE Reopen \/ RejectDies
    BY <1>2 DEF Reopen, RejectDies, native, durable, Last, NeverReplayed,
                ImportedMeansReplaced
  <1>3. CASE \/ InspectAgain \/ \E f \in Files : DeleteFile(f)
             \/ Block \/ DeleteTorrent \/ Monitor \/ Search
    <2>1. UNCHANGED <<attempts, status>> BY <1>3, OnwardFacts
    <2>2. UNCHANGED imports
      BY <1>3 DEF InspectAgain, DeleteFile, Block, DeleteTorrent, Monitor, Search, native
    <2> QED BY <2>1, <2>2 DEF Last, NeverReplayed, ImportedMeansReplaced
  <1>4. CASE SaveRemoved \/ SaveBlocked \/ SaveSearch \/ NeedsReview \/ CallFails
    <2>1. /\ UNCHANGED imports /\ rstep # "idle"
          /\ status' = status \/ status' = "Needs attention"
      BY <1>4, SaveFacts DEF SaveRemoved, SaveBlocked, SaveSearch, NeedsReview, CallFails
    <2>2. Last > 0 /\ Last \in Nat BY <2>1, HistoryType DEF Locks
    <2>3. PICK x \in Stages : SetStage(x) BY <1>4, SaveFacts
    <2>4. OnlyStageChanges BY <2>2, <2>3, StageFacts
    <2>5. NeverReplayed' BY <2>4 DEF OnlyStageChanges, NeverReplayed
    <2>6. ImportedMeansReplaced'
      <3> SUFFICES ASSUME status = "Imported", NEW e \in Covers[attempts'[1].target.release]
                   PROVE  \E f \in 1..Len(imports) :
                            /\ imports[f].episode = e /\ f > attempts'[Last].at
                            /\ \A k \in 1..Last : attempts'[k].target.release
                                                    # imports[f].release
        BY <2>1, <2>4 DEF ImportedMeansReplaced, OnlyStageChanges
      <3>1. /\ attempts'[1].target = attempts[1].target
            /\ attempts'[Last].at = attempts[Last].at
            /\ \A k \in 1..Last : attempts'[k].target = attempts[k].target
        BY <2>2, <2>4 DEF OnlyStageChanges
      <3>2. PICK f \in 1..Len(imports) :
              /\ imports[f].episode = e /\ f > attempts[Last].at
              /\ \A k \in 1..Last : attempts[k].target.release # imports[f].release
        BY <3>1 DEF ImportedMeansReplaced
      <3> QED BY <3>1, <3>2
    <2> QED BY <2>5, <2>6
  <1> QED BY <1>1, <1>2, <1>3, <1>4 DEF RejectStep

LEMMA SequenceInvOutside ==
  ASSUME TypeOK, SequenceInv,
         PassStep \/ PassFails \/ External \/ (\E r \in Releases : Preview(r))
  PROVE  SequenceInv'
  <1> USE DEF SequenceInv
  <1>1. UNCHANGED attempts
    BY OutsideFacts DEF PassStep, PassFails, StartPass, ReadFiles, Backfill, RecordFiles,
           SaveEvidence, Unmonitor, SaveReceipts, Observe, durable
  <1>2. Last' = Last /\ NeverReplayed' BY <1>1 DEF NeverReplayed, Last
  <1>3. CASE Observe
    <2>1. UNCHANGED imports /\ (status' = "Imported" => status = "Imported" \/ Replaced)
      BY <1>3 DEF Observe, native
    <2>2. SUFFICES ASSUME status' = "Imported",
                          NEW e \in Covers[attempts[1].target.release]
                   PROVE  \E f \in 1..Len(imports) :
                            /\ imports[f].episode = e /\ f > attempts[Last].at
                            /\ \A k \in 1..Last : attempts[k].target.release
                                                    # imports[f].release
      BY <1>1, <1>2, <2>1 DEF ImportedMeansReplaced
    <2>3. CASE status = "Imported" BY <2>3 DEF ImportedMeansReplaced
    <2>4. CASE Replaced
      <3>1. PICK f \in 1..Len(imports) : /\ imports[f].episode = e
                                         /\ imports[f].release \notin Rejected
                                         /\ f > attempts[Last].at
        BY <2>4 DEF Replaced
      <3> QED BY <3>1 DEF Rejected
    <2> QED BY <2>1, <2>2, <2>3, <2>4
  <1>4. ASSUME NEW r \in Releases, NEW e \in Episodes, Import(r, e)
        PROVE  ImportedMeansReplaced'
    <2>1. imports' = Append(imports, [release |-> r, episode |-> e]) /\ UNCHANGED status
      BY <1>4 DEF Import, Outside, durable
    <2>2. \A f \in 1..Len(imports) : f \in 1..Len(imports') /\ imports'[f] = imports[f]
      BY <2>1, HistoryType
    <2> QED BY <1>1, <2>1, <2>2 DEF ImportedMeansReplaced, Last
  <1>5. CASE UNCHANGED <<status, imports>>
    BY <1>1, <1>2, <1>5 DEF ImportedMeansReplaced
  <1>6. \/ Observe \/ \E r \in Releases, e \in Episodes : Import(r, e)
        \/ UNCHANGED <<status, imports>>
    BY DEF PassStep, PassFails, StartPass, ReadFiles, Backfill, RecordFiles,
           SaveEvidence, Unmonitor, SaveReceipts, External, Grab, Completes, Concludes,
           Routed, UserRemoves, UserMonitors, Preview, Outside, native, durable
  <1> QED BY <1>2, <1>3, <1>4, <1>5, <1>6

-----------------------------------------------------------------------------
(* Theorems *)

IInv == TypeOK /\ ReceiptInv /\ RemovalInv /\ MonitorInv /\ SequenceInv

LEMMA Inductive == IInv /\ [Next]_vars => IInv'
  <1> SUFFICES ASSUME IInv, [Next]_vars PROVE IInv' OBVIOUS
  <1>1. Locks /\ (rstep # "idle" => Last > 0) BY DEF IInv, ReceiptInv, Locks
  <1>2. CASE RejectStep \/ CallFails \/ RejectDies
    BY <1>1, <1>2, RejectType, ReceiptInvReject, RemovalInvReject, MonitorInvReject,
       SequenceInvReject DEF IInv
  <1>3. CASE PassStep \/ PassFails
    BY <1>1, <1>3, PassType, ReceiptInvPass, RemovalInvOutside, MonitorInvPass,
       SequenceInvOutside DEF IInv
  <1>4. CASE External \/ \E r \in Releases : Preview(r)
    <2>1. UNCHANGED <<lock, attempts, status, receipts, rstep, todo, pstep, working, watched>>
      BY <1>4, OutsideFacts
    <2>2. monitored \subseteq monitored'
      BY <1>4 DEF External, Grab, Completes, Concludes, Import, Routed, UserRemoves,
                  UserMonitors, Preview, native
    <2> QED BY <1>1, <1>4, <2>1, <2>2, ExternalType, ReceiptInvOutside, RemovalInvOutside,
               MonitorInvOutside, SequenceInvOutside DEF IInv
  <1>5. CASE UNCHANGED vars
    <2>1. TypeOK' BY <1>5 DEF IInv, TypeOK, vars
    <2>2. ReceiptInv' BY <1>5, ReceiptInvOutside DEF IInv, vars
    <2>3. MonitorInv' BY <1>5, MonitorInvOutside DEF IInv, vars
    <2>4. RemovalInv' BY <1>5 DEF IInv, vars, RemovalInv, FilesAreKnown, Deleting, Deleted,
                                  Blocked, SearchFollowsRejection, Last, Rejecting
    <2>5. SequenceInv'
      BY <1>5 DEF IInv, vars, SequenceInv, NeverReplayed, ImportedMeansReplaced, Last
    <2> QED BY <2>1, <2>2, <2>3, <2>4, <2>5 DEF IInv
  <1> QED BY <1>2, <1>3, <1>4, <1>5 DEF Next

LEMMA Invariance == Spec => []IInv
  <1>1. Init => IInv
    BY InitType, ReceiptInvInit, RemovalInvInit, MonitorInvInit, SequenceInvInit DEF IInv
  <1> QED BY <1>1, Inductive, PTL DEF Spec

\* Every variable keeps its type, whatever fails or dies (the state of
\* pompey_recovery and pompey_delivery).
THEOREM TypeIsCorrect == Spec => []TypeOK
  <1>1. IInv => TypeOK BY DEF IInv
  <1> QED BY <1>1, Invariance, PTL

\* A rejection that got past its intent is never forgotten by the receipts
\* (pompey_delivery.reopen against the whole-file saves of reconcile).
THEOREM RejectionsStay == Spec => []RejectionsAreKept
  <1>1. IInv => RejectionsAreKept BY DEF IInv, ReceiptInv
  <1> QED BY <1>1, Invariance, PTL

\* No receipt says "delivered" of a file that is rejected for its episode
\* (pompey_delivery.record_file).
THEOREM DeliveriesAreNotRejected == Spec => []DeliveryIsNotRejected
  <1>1. IInv => DeliveryIsNotRejected BY DEF IInv, ReceiptInv
  <1> QED BY <1>1, Invariance, PTL

\* A replacement is searched for only when the rejected release is blocklisted and
\* no confirmed file of it is left (the order of the calls in reject).
THEOREM SearchComesLast == Spec => []SearchFollowsRejection
  <1>1. IInv => SearchFollowsRejection BY DEF IInv, RemovalInv
  <1> QED BY <1>1, Invariance, PTL

\* An undelivered episode whose replacement was searched for stays monitored
\* (reject monitors it, and the pass stops only what is delivered).
THEOREM RetriesStayMonitored == Spec => []RetriesAreMonitored
  <1>1. IInv => RetriesAreMonitored BY DEF IInv, MonitorInv
  <1> QED BY <1>1, Invariance, PTL

\* One confirmation of the user makes at most one attempt (the check in reject
\* under stack.lock).
THEOREM ConfirmationsAreUsedOnce == Spec => []NeverReplayed
  <1>1. IInv => NeverReplayed BY DEF IInv, SequenceInv
  <1> QED BY <1>1, Invariance, PTL

\* A sequence that says "Imported" got, for every episode, a file of a release
\* that was not rejected (merge_history).
THEOREM ImportsAreReplacements == Spec => []ImportedMeansReplaced
  <1>1. IInv => ImportedMeansReplaced BY DEF IInv, SequenceInv
  <1> QED BY <1>1, Invariance, PTL

\* The pass takes an episode off monitoring only after deliveries.json says that
\* it was delivered (reconcile saves the receipts before the PUT).
THEOREM EvidencePrecedesMonitoring == Spec => EvidenceComesFirst
  <1>1. IInv /\ [Next]_vars => [\A e \in monitored \ monitored' :
                                  receipts[e].status = "delivered"]_vars
    <2> SUFFICES ASSUME IInv, Next, NEW e \in monitored \ monitored'
                 PROVE  receipts[e].status = "delivered"
      OBVIOUS
    <2>1. CASE Unmonitor
      <3>1. e \in watched /\ pstep = "unmonitor" BY <2>1 DEF Unmonitor, At
      <3> QED BY <3>1 DEF IInv, MonitorInv, Watching
    <2>2. CASE RejectStep \/ CallFails \/ RejectDies
      <3>1. monitored \subseteq monitored'
        BY <2>2, SaveFacts DEF RejectStep, StartReject, Reopen, InspectAgain, DeleteFile, Block,
                    DeleteTorrent, Monitor, Search, RejectDies, native
      <3> QED BY <3>1
    <2>3. CASE (PassStep /\ ~Unmonitor) \/ PassFails
      <3>1. monitored' = monitored
        BY <2>3 DEF PassStep, PassFails, StartPass, ReadFiles, Backfill, RecordFiles,
                    SaveEvidence, SaveReceipts, Observe, native
      <3> QED BY <3>1
    <2>4. CASE External \/ \E r \in Releases : Preview(r)
      <3>1. monitored \subseteq monitored'
        BY <2>4 DEF External, Grab, Completes, Concludes, Import, Routed, UserRemoves,
                    UserMonitors, Preview, native
      <3> QED BY <3>1
    <2> QED BY <2>1, <2>2, <2>3, <2>4 DEF Next
  <1> QED BY <1>1, Invariance, PTL DEF Spec, EvidenceComesFirst

\* A rejection deletes only files that its recorded attempt, and so the user's
\* confirmation, names (the intent of reject is saved first).
THEOREM DeletionsAreConfirmed == Spec => OnlyConfirmedFilesAreRemoved
  <1>1. IInv /\ [Next]_vars =>
          [\A f \in library \ library' : rstep = "delete" /\ rstep' = "removed" =>
             Last > 0 /\ f \in attempts[Last].target.files]_vars
    <2> SUFFICES ASSUME IInv, Next, NEW f \in library \ library',
                        rstep = "delete", rstep' = "removed"
                 PROVE  Last > 0 /\ f \in attempts[Last].target.files
      OBVIOUS
    <2>1. PICK g \in Files : DeleteFile(g)
      BY DEF Next, RejectStep, StartReject, Reopen, InspectAgain, Block, DeleteTorrent,
             Monitor, Search, SaveRemoved, SaveBlocked, SaveSearch, NeedsReview, CallFails,
             RejectDies, Ended, Step, PassStep, PassFails, StartPass, ReadFiles, Backfill,
             RecordFiles, SaveEvidence, Unmonitor, SaveReceipts, Observe, KeepPass, rejectvars,
             External, Grab, Completes, Concludes, Import, Routed, UserRemoves, UserMonitors,
             Outside, Preview
    <2>2. f = g /\ g \in todo BY <2>1 DEF DeleteFile, FirstOf
    <2> QED BY <2>2 DEF IInv, ReceiptInv, Locks, RemovalInv, Deleting, Rejecting
  <1> QED BY <1>1, Invariance, PTL DEF Spec, OnlyConfirmedFilesAreRemoved

-----------------------------------------------------------------------------
(* Every step is a step of StackLock *)

\* Who of the two is at work.
AtWork == {p \in {"reject", "pass"} :
             \/ p = "reject" /\ rstep # "idle"
             \/ p = "pass" /\ pstep # "idle"}

LEMMA PassesLock ==
  ASSUME Locks, Locks', lock \in {"free", "reject", "pass"},
         lock' \in {"free", "reject", "pass"},
         lock' = lock \/ lock = "free" \/ lock' = "free"
  PROVE  [Lock!Next]_(Lock!vars)
  <1>1. AtWork \subseteq {lock} \ {"free"} BY DEF Locks, AtWork
  <1>2. AtWork' \subseteq {lock'} \ {"free"} BY DEF Locks, AtWork
  <1>3. CASE lock' = lock /\ lock = "free"
    <2>1. AtWork' = AtWork BY <1>1, <1>2, <1>3
    <2> QED BY <1>3, <2>1 DEF Lock!vars, AtWork
  <1>4. CASE lock' = lock /\ lock # "free"
    <2>1. AtWork' \in SUBSET {lock} BY <1>2, <1>4
    <2> QED BY <1>4, <2>1 DEF Lock!Next, Lock!Work, AtWork
  <1>5. CASE lock' # lock /\ lock = "free"
    <2>1. AtWork' \in SUBSET {lock'} BY <1>2
    <2> QED BY <1>5, <2>1 DEF Lock!Next, Lock!Take, AtWork
  <1>6. CASE lock' # lock /\ lock' = "free"
    <2>1. AtWork' = {} BY <1>2, <1>6
    <2> QED BY <1>6, <2>1 DEF Lock!Next, Lock!Release, AtWork
  <1> QED BY <1>3, <1>4, <1>5, <1>6

LEMMA StepPasses ==
  ASSUME [Next]_vars
  PROVE  lock' = lock \/ lock = "free" \/ lock' = "free"
  <1>1. CASE RejectStep \/ CallFails \/ RejectDies
    BY <1>1 DEF RejectStep, StartReject, Reopen, InspectAgain, DeleteFile, SaveRemoved,
       Block, DeleteTorrent, SaveBlocked, Monitor, Search, SaveSearch, NeedsReview,
       CallFails, RejectDies, Ended
  <1>2. CASE PassStep \/ PassFails
    BY <1>2 DEF PassStep, StartPass, ReadFiles, Backfill, RecordFiles,
       SaveEvidence, Unmonitor, SaveReceipts, Observe, PassFails, EndPass
  <1>3. CASE External \/ \E r \in Releases : Preview(r)
    BY <1>3, OutsideFacts
  <1> QED BY <1>1, <1>2, <1>3 DEF Next, vars

\* The rejection and the downloads pass keep to StackLock, whatever call of theirs
\* fails and wherever they die.
THEOREM BothKeepTheLock == Spec => LockIsKept
  <1>1. Init => Lock!Init BY DEF Init, Lock!Init
  <1>2. ASSUME IInv, IInv', [Next]_vars PROVE [Lock!Next]_(Lock!vars)
    <2>1. Locks /\ Locks' BY <1>2 DEF IInv, ReceiptInv
    <2>2. /\ lock \in {"free", "reject", "pass"}
          /\ lock' \in {"free", "reject", "pass"}
      BY <1>2 DEF IInv, TypeOK
    <2> QED BY <1>2, <2>1, <2>2, StepPasses, PassesLock
  <1> QED BY <1>1, <1>2, Invariance, PTL DEF Spec, LockIsKept, Lock!Spec

-----------------------------------------------------------------------------
(* Every step is a step of Undertaking *)

\* What the record of the attempt under way says at each step of the rejection.
OperationInv ==
  /\ Last <= MaxAttempts
  /\ preview.target # NoTarget => preview.confirmation \in 1..MaxPreviews
  /\ rstep \in {"reopen", "inspect"} => attempts[Last].stage = "prepared"
  /\ rstep \in {"delete", "removed", "block", "torrent", "blocked"} =>
       attempts[Last].stage \in {"prepared", "removing"}
  /\ rstep \in {"monitor", "search", "searched"} => attempts[Last].stage = "blocked"

LEMMA OperationInit == Init => OperationInv
  <1> SUFFICES ASSUME Init PROVE OperationInv OBVIOUS
  <1>1. Last = 0 BY DEF Init, Last
  <1> QED BY <1>1, RecoveryAssumption DEF Init, OperationInv

LEMMA OperationKept ==
  ASSUME OperationInv, UNCHANGED <<attempts, rstep, preview>>
  PROVE  OperationInv'
  BY DEF OperationInv, Last

LEMMA OperationReject ==
  ASSUME TypeOK, Locks, OperationInv, RejectStep \/ CallFails \/ RejectDies
  PROVE  OperationInv'
  <1> USE DEF OperationInv
  <1>1. CASE StartReject
    <2>1. /\ UNCHANGED preview /\ rstep' = "reopen" /\ Last < MaxAttempts
      BY <1>1 DEF StartReject, KeepReject
    <2>2. Last' = Last + 1 /\ Last \in Nat /\ attempts'[Last'].stage = "prepared"
      BY <1>1, StartFacts, HistoryType
    <2>3. Last' <= MaxAttempts BY <2>1, <2>2, RecoveryAssumption
    <2> QED BY <2>1, <2>2, <2>3
  <1>2. CASE Reopen \/ RejectDies
    BY <1>2 DEF Reopen, RejectDies, Ended, durable, KeepReject, Step, Last
  <1>3. CASE InspectAgain
    BY <1>3 DEF InspectAgain, durable, KeepReject, Step, Last
  <1>4. ASSUME NEW f \in Files, DeleteFile(f) PROVE OperationInv'
    BY <1>4 DEF DeleteFile, durable, KeepReject, Step, Last
  <1>5. CASE Block \/ DeleteTorrent \/ Monitor \/ Search
    BY <1>5 DEF Block, DeleteTorrent, Monitor, Search, native, durable, KeepReject, Step,
       Last
  <1>6. CASE SaveRemoved \/ SaveBlocked \/ SaveSearch \/ NeedsReview \/ CallFails
    <2>1. /\ UNCHANGED preview
          /\ \/ rstep = "removed" /\ rstep' \in {"block", "delete"} /\ SetStage("removing")
             \/ rstep = "blocked" /\ rstep' = "monitor" /\ SetStage("blocked")
             \/ rstep' = "idle"
      BY <1>6 DEF SaveRemoved, SaveBlocked, SaveSearch, NeedsReview, CallFails, Ended,
         KeepReject, Step
    <2>2. Last > 0
      BY <1>6 DEF SaveRemoved, SaveBlocked, SaveSearch, NeedsReview, CallFails, Changed,
         Step, Locks
    <2>3. PICK x \in Stages : SetStage(x)
      BY <1>6 DEF SaveRemoved, SaveBlocked, SaveSearch, NeedsReview, CallFails, Stages
    <2>4. Last' = Last BY <2>2, <2>3, StageFacts DEF OnlyStageChanges
    <2>5. /\ SetStage("removing") => attempts'[Last].stage = "removing"
          /\ SetStage("blocked") => attempts'[Last].stage = "blocked"
      BY <2>2, StageFacts DEF Stages
    <2> QED BY <2>1, <2>4, <2>5
  <1> QED BY <1>1, <1>2, <1>3, <1>4, <1>5, <1>6 DEF RejectStep

LEMMA OperationNext ==
  ASSUME TypeOK, Locks, OperationInv, [Next]_vars
  PROVE  OperationInv'
  <1>1. CASE RejectStep \/ CallFails \/ RejectDies BY <1>1, OperationReject
  <1>2. CASE PassStep \/ PassFails
    BY <1>2, OperationKept DEF PassStep, PassFails, StartPass, ReadFiles, Backfill,
       RecordFiles, SaveEvidence, Unmonitor, SaveReceipts, Observe, KeepPass, durable,
       rejectvars
  <1>3. ASSUME NEW r \in Releases, Preview(r) PROVE OperationInv'
    <2>1. /\ UNCHANGED <<attempts, rstep>> /\ preview'.confirmation = previews + 1
          /\ previews < MaxPreviews
      BY <1>3 DEF Preview, durable, rejectvars
    <2>2. previews \in Nat BY DEF TypeOK
    <2>3. previews + 1 \in 1..MaxPreviews BY <2>1, <2>2, RecoveryAssumption
    <2> QED BY <2>1, <2>3 DEF OperationInv, Last
  <1>4. CASE External
    BY <1>4, OperationKept DEF External, Grab, Completes, Concludes, Import, Routed,
       UserRemoves, UserMonitors, Outside, durable, rejectvars
  <1>5. CASE UNCHANGED vars BY <1>5, OperationKept DEF vars
  <1> QED BY <1>1, <1>2, <1>3, <1>4, <1>5 DEF Next

\* What Undertaking sees.
StageOf == [k \in 1..MaxAttempts |-> IF k <= Last THEN attempts[k].stage ELSE "none"]
Used == {attempts[k].confirmation : k \in 1..Last}
LeftOf == [k \in 1..MaxAttempts |-> IF k <= Last THEN attempts[k].target.files \cap library
                                   ELSE {}]
Barred == {k \in 1..Last : attempts[k].target.release \in blocklist}
Active == IF rstep = "idle" THEN {} ELSE {Last}

LEMMA RemovalStep ==
  ASSUME \/ UNCHANGED <<StageOf, Used, LeftOf, Barred, Active>>
         \/ /\ LeftOf' \in [1..MaxAttempts -> SUBSET Files]
            /\ \A k \in 1..MaxAttempts : LeftOf'[k] \subseteq LeftOf[k]
            /\ UNCHANGED <<StageOf, Used, Barred, Active>>
  PROVE  [Removal!Next]_(Removal!vars)
  BY DEF Removal!Next, Removal!Go, Removal!vars, StageOf, Used, LeftOf, Barred, Active

\* Files go and new ones come, none of which an attempt names.
LEMMA RemovalGo ==
  ASSUME IInv, OperationInv, UNCHANGED <<attempts, blocklist>>,
         (rstep = "idle") <=> (rstep' = "idle"),
         library' \cap (1..Len(imports)) \subseteq library
  PROVE  [Removal!Next]_(Removal!vars)
  <1>1. Last' = Last /\ Last \in Nat BY HistoryType DEF Last, IInv
  <1>2. UNCHANGED <<StageOf, Used, Barred, Active>>
    BY <1>1 DEF StageOf, Used, Barred, Active
  <1>3. ASSUME NEW k \in 1..MaxAttempts
        PROVE  LeftOf'[k] \subseteq LeftOf[k] /\ LeftOf'[k] \in SUBSET Files
    <2>1. CASE k <= Last
      <3>1. k \in 1..Last BY <1>1, <2>1
      <3>2. attempts[k].target.files \subseteq 1..Len(imports)
        BY <3>1 DEF IInv, RemovalInv, FilesAreKnown
      <3>3. attempts[k].target.files \subseteq Files
        BY <3>1, HistoryType DEF IInv, Attempt, Target
      <3>4. /\ LeftOf[k] = attempts[k].target.files \cap library
            /\ LeftOf'[k] = attempts[k].target.files \cap library'
        BY <1>1, <2>1 DEF LeftOf
      <3> QED BY <3>2, <3>3, <3>4
    <2>2. CASE ~(k <= Last) BY <1>1, <2>2 DEF LeftOf
    <2> QED BY <2>1, <2>2
  <1>4. LeftOf' \in [1..MaxAttempts -> SUBSET Files] BY <1>3 DEF LeftOf
  <1> QED BY <1>2, <1>3, <1>4, RemovalStep

\* A stage that is saved is the only change of the record.
LEMMA RemovalSave ==
  ASSUME IInv, OperationInv, rstep # "idle", NEW x \in Stages, SetStage(x),
         UNCHANGED <<library, blocklist>>
  PROVE  /\ Last \in 1..MaxAttempts /\ Last' = Last
         /\ StageOf[Last] = attempts[Last].stage
         /\ StageOf' = [StageOf EXCEPT ![Last] = x]
         /\ UNCHANGED <<Used, LeftOf, Barred>>
  <1>1. Last > 0 /\ TypeOK BY DEF IInv, ReceiptInv, Locks
  <1>2. Last \in 1..MaxAttempts BY <1>1, HistoryType, RecoveryAssumption DEF OperationInv
  <1>3. OnlyStageChanges /\ attempts'[Last].stage = x BY <1>1, StageFacts
  <1>4. Last' = Last BY <1>3 DEF OnlyStageChanges
  <1>5. ASSUME NEW k \in 1..MaxAttempts
        PROVE  /\ StageOf'[k] = IF k = Last THEN x ELSE StageOf[k]
               /\ LeftOf'[k] = LeftOf[k]
    <2>1. CASE k <= Last
      <3>1. k \in 1..Last BY <1>2, <2>1
      <3>2. /\ attempts'[k].target = attempts[k].target
            /\ k # Last => attempts'[k].stage = attempts[k].stage
        BY <1>3, <3>1 DEF OnlyStageChanges
      <3>3. StageOf'[k] = attempts'[k].stage /\ StageOf[k] = attempts[k].stage
        BY <1>4, <2>1 DEF StageOf
      <3>4. LeftOf'[k] = LeftOf[k] BY <1>4, <2>1, <3>2 DEF LeftOf
      <3> QED BY <1>3, <3>2, <3>3, <3>4
    <2>2. CASE ~(k <= Last)
      <3>1. StageOf'[k] = StageOf[k] /\ LeftOf'[k] = LeftOf[k]
        BY <1>4, <2>2 DEF StageOf, LeftOf
      <3> QED BY <1>2, <2>2, <3>1
    <2> QED BY <2>1, <2>2
  <1>6. StageOf' = [StageOf EXCEPT ![Last] = x] /\ LeftOf' = LeftOf
    BY <1>5 DEF StageOf, LeftOf
  <1>7. Used' = Used /\ Barred' = Barred
    BY <1>3, <1>4 DEF Used, Barred, OnlyStageChanges
  <1> QED BY <1>2, <1>4, <1>6, <1>7 DEF StageOf

LEMMA RemovalActs ==
  ASSUME NEW o \in 1..MaxAttempts,
         \/ \E c \in 1..MaxPreviews : Removal!Begin(o, c)
         \/ Removal!Bar(o) \/ Removal!End(o)
         \/ \E x \in {"removing", "blocked"} : Removal!Advance(o, x)
  PROVE  [Removal!Next]_(Removal!vars)
  BY DEF Removal!Next

\* A fresh confirmation begins an attempt, on record before its first step.
LEMMA RemovalBegins ==
  ASSUME IInv, OperationInv, StartReject
  PROVE  [Removal!Next]_(Removal!vars)
  <1>o. PICK o \in Nat : o = Last + 1 BY HistoryType DEF IInv
  <1>c. PICK c \in 1..MaxPreviews : c = preview.confirmation
    BY DEF OperationInv, StartReject
  <1> DEFINE T == preview.target.files \cap library
  <1>1. /\ Last \in Nat /\ MaxAttempts \in Nat /\ Last < MaxAttempts
        /\ TypeOK /\ Last' = o /\ o \in 1..MaxAttempts
    <2>1. TypeOK /\ Last < MaxAttempts BY DEF IInv, StartReject
    <2> QED BY <1>o, <2>1, HistoryType, StartFacts, RecoveryAssumption
  <1>2. /\ \A k \in 1..Last : attempts'[k] = attempts[k]
        /\ attempts'[o].target = preview.target /\ attempts'[o].confirmation = c
        /\ attempts'[o].stage = "prepared"
        /\ preview.target \in Target
    BY <1>1, <1>c, StartFacts
  <1>3. /\ UNCHANGED <<library, blocklist>> /\ rstep = "idle" /\ rstep' = "reopen"
        /\ preview.target # NoTarget /\ \A k \in 1..Last : attempts[k].confirmation # c
    BY <1>c DEF StartReject, Step, native
  <1>4. ASSUME NEW k \in 1..MaxAttempts
        PROVE  /\ StageOf'[k] = IF k = o THEN "prepared" ELSE StageOf[k]
               /\ LeftOf'[k] = IF k = o THEN T ELSE LeftOf[k]
    <2>1. CASE k = o
      <3>1. StageOf'[k] = attempts'[o].stage BY <1>1, <2>1 DEF StageOf
      <3>2. LeftOf'[k] = attempts'[o].target.files \cap library'
        BY <1>1, <2>1 DEF LeftOf
      <3> QED BY <1>2, <1>3, <2>1, <3>1, <3>2
    <2>2. CASE k <= Last
      <3>1. attempts'[k] = attempts[k] BY <1>o, <1>1, <1>2, <2>2
      <3>2. k <= Last' /\ k # o BY <1>o, <1>1, <2>2
      <3> QED BY <1>3, <2>2, <3>1, <3>2 DEF StageOf, LeftOf
    <2>3. CASE k > o
      <3>1. ~(k <= Last) /\ ~(k <= Last') BY <1>o, <1>1, <2>3
      <3> QED BY <1>1, <2>3, <3>1 DEF StageOf, LeftOf
    <2> QED BY <1>o, <1>1, <2>1, <2>2, <2>3
  <1>5. StageOf' = [StageOf EXCEPT ![o] = "prepared"] BY <1>4 DEF StageOf
  <1>6. LeftOf' = [LeftOf EXCEPT ![o] = T] /\ T \in SUBSET Files
    BY <1>2, <1>4 DEF LeftOf, Target
  <1>7. StageOf[o] = "none" BY <1>o, <1>1 DEF StageOf
  <1>8. 1..Last' = 1..Last \cup {o} BY <1>o, <1>1
  <1>9. Used' = Used \cup {c} /\ c \notin Used
    BY <1>2, <1>3, <1>8 DEF Used
  <1>10. Barred' \in {Barred, Barred \cup {o}}
    BY <1>2, <1>3, <1>8 DEF Barred
  <1>11. Active = {} /\ Active' = {o} BY <1>1, <1>3 DEF Active
  <1>12. Removal!Begin(o, c)
    BY <1>5, <1>6, <1>7, <1>9, <1>10, <1>11
       DEF Removal!Begin, StageOf, LeftOf, Used, Barred, Active
  <1> QED BY <1>1, <1>12, RemovalActs

\* The release is blocklisted when the confirmed files are gone.
LEMMA RemovalBars ==
  ASSUME IInv, OperationInv, Block
  PROVE  [Removal!Next]_(Removal!vars)
  <1>1. /\ UNCHANGED <<attempts, library>> /\ rstep = "block" /\ rstep' # "idle"
        /\ blocklist' = blocklist \cup {Rejecting.release}
    BY DEF Block, durable, Step
  <1>2. Last > 0 /\ TypeOK BY <1>1 DEF IInv, ReceiptInv, Locks
  <1>3. Last \in 1..MaxAttempts /\ Last' = Last
    BY <1>1, <1>2, HistoryType, RecoveryAssumption DEF OperationInv, Last
  <1>4. UNCHANGED <<StageOf, Used, LeftOf, Active>>
    BY <1>1, <1>3 DEF StageOf, Used, LeftOf, Active
  <1>5. StageOf[Last] \in {"prepared", "removing"}
    BY <1>1, <1>3 DEF OperationInv, StageOf
  <1>6. LeftOf[Last] = {}
    BY <1>1, <1>3 DEF IInv, RemovalInv, Deleted, Rejecting, LeftOf
  <1>7. Barred \cup {Last} \subseteq Barred'
    BY <1>1, <1>2, <1>3, HistoryType DEF Barred, Rejecting
  <1>8. Barred' \in SUBSET {k \in 1..MaxAttempts : StageOf[k] # "none"}
    <2> SUFFICES ASSUME NEW k \in Barred'
                 PROVE  k \in 1..MaxAttempts /\ StageOf[k] # "none"
      OBVIOUS
    <2>1. k \in 1..Last BY <1>3 DEF Barred
    <2>2. k \in 1..MaxAttempts /\ k <= Last
      BY <1>2, <1>3, <2>1, HistoryType, RecoveryAssumption
    <2>3. attempts[k].stage \in Stages BY <1>2, <2>1, HistoryType DEF Attempt
    <2> QED BY <2>2, <2>3 DEF StageOf, Stages
  <1>9. Active = {Last} BY <1>1 DEF Active
  <1>10. PICK o \in 1..MaxAttempts : o = Last BY <1>3
  <1>11. Removal!Bar(o)
    BY <1>4, <1>5, <1>6, <1>7, <1>8, <1>9, <1>10
       DEF Removal!Bar, Removal!Begun, StageOf, LeftOf, Used, Barred, Active
  <1> QED BY <1>11, RemovalActs

\* What is saved on the way has been done.
LEMMA RemovalAdvances ==
  ASSUME IInv, OperationInv, SaveRemoved \/ SaveBlocked
  PROVE  [Removal!Next]_(Removal!vars)
  <1>1. PICK x \in {"removing", "blocked"} :
          SetStage(x) /\ (x = "blocked" => rstep = "blocked")
    BY DEF SaveRemoved, SaveBlocked, Step
  <1>2. /\ UNCHANGED <<library, blocklist>>
        /\ rstep \in {"removed", "blocked"} /\ rstep' # "idle"
    BY DEF SaveRemoved, SaveBlocked, native, Step
  <1>3. x \in Stages /\ rstep # "idle" BY <1>2 DEF Stages
  <1>4. /\ Last \in 1..MaxAttempts /\ Last' = Last
        /\ StageOf[Last] = attempts[Last].stage
        /\ StageOf' = [StageOf EXCEPT ![Last] = x]
        /\ UNCHANGED <<Used, LeftOf, Barred>>
    BY <1>1, <1>2, <1>3, RemovalSave
  <1>5. StageOf[Last] \in {"prepared", "removing"} BY <1>2, <1>4 DEF OperationInv
  <1>6. x = "blocked" => LeftOf[Last] = {} /\ Last \in Barred
    BY <1>1, <1>4 DEF IInv, RemovalInv, Deleted, Blocked, Rejecting, LeftOf, Barred
  <1>7. Active = {Last} /\ Active' = Active BY <1>2, <1>4 DEF Active
  <1>8. PICK o \in 1..MaxAttempts : o = Last BY <1>4
  <1>9. Removal!Advance(o, x)
    BY <1>4, <1>5, <1>6, <1>7, <1>8
       DEF Removal!Advance, StageOf, LeftOf, Used, Barred, Active
  <1> QED BY <1>9, RemovalActs

\* Wherever a rejection ends, it leaves the stage it reached, or says what it needs.
LEMMA RemovalEnds ==
  ASSUME IInv, OperationInv, SaveSearch \/ NeedsReview \/ CallFails \/ RejectDies
  PROVE  [Removal!Next]_(Removal!vars)
  <1>1. /\ UNCHANGED <<library, blocklist>> /\ rstep # "idle" /\ rstep' = "idle"
    BY DEF SaveSearch, NeedsReview, CallFails, RejectDies, Changed, Ended, native, Step
  <1>2. Active = {Last} /\ Active' = {} BY <1>1 DEF Active
  <1>3. CASE RejectDies
    <2>1. UNCHANGED attempts BY <1>3 DEF RejectDies, durable
    <2>2. Last' = Last BY <2>1 DEF Last
    <2>3. UNCHANGED <<StageOf, Used, LeftOf, Barred>>
      BY <1>1, <2>1, <2>2 DEF StageOf, Used, LeftOf, Barred
    <2>4. Last \in 1..MaxAttempts
      <3>1. Last > 0 /\ TypeOK BY <1>1 DEF IInv, ReceiptInv, Locks
      <3> QED BY <3>1, HistoryType, RecoveryAssumption DEF OperationInv
    <2>5. PICK o \in 1..MaxAttempts : o = Last BY <2>4
    <2>6. Removal!End(o)
      BY <1>2, <2>3, <2>5 DEF Removal!End, StageOf, LeftOf, Used, Barred, Active
    <2> QED BY <2>6, RemovalActs
  <1>4. CASE SaveSearch \/ NeedsReview \/ CallFails
    <2>1. PICK x \in {"needs-review", "retry-requested"} :
            SetStage(x) /\ (x = "retry-requested" => rstep = "searched")
      BY <1>4 DEF SaveSearch, NeedsReview, CallFails, Step
    <2>2. x \in Stages BY DEF Stages
    <2>3. /\ Last \in 1..MaxAttempts
          /\ StageOf[Last] = attempts[Last].stage
          /\ StageOf' = [StageOf EXCEPT ![Last] = x]
          /\ UNCHANGED <<Used, LeftOf, Barred>>
      BY <1>1, <2>1, <2>2, RemovalSave
    <2>4. x = "retry-requested" => StageOf[Last] = "blocked"
      BY <2>1, <2>3 DEF OperationInv
    <2>5. PICK o \in 1..MaxAttempts : o = Last BY <2>3
    <2>6. Removal!End(o)
      BY <1>2, <2>3, <2>4, <2>5 DEF Removal!End, StageOf, LeftOf, Used, Barred, Active
    <2> QED BY <2>6, RemovalActs
  <1> QED BY <1>3, <1>4

LEMMA RemovalNext ==
  ASSUME IInv, OperationInv, [Next]_vars
  PROVE  [Removal!Next]_(Removal!vars)
  <1>0. library \subseteq 1..Len(imports) BY DEF IInv, RemovalInv, FilesAreKnown
  <1>1. CASE StartReject BY <1>1, RemovalBegins
  <1>2. CASE Block BY <1>2, RemovalBars
  <1>3. CASE SaveRemoved \/ SaveBlocked BY <1>3, RemovalAdvances
  <1>4. CASE SaveSearch \/ NeedsReview \/ CallFails \/ RejectDies BY <1>4, RemovalEnds
  <1>5. CASE \/ Reopen \/ InspectAgain \/ DeleteTorrent \/ Monitor \/ Search
             \/ \E f \in Files : DeleteFile(f)
    <2>1. /\ UNCHANGED <<attempts, blocklist>> /\ library' \subseteq library
          /\ rstep # "idle" /\ rstep' # "idle"
      BY <1>5 DEF Reopen, InspectAgain, DeleteTorrent, Monitor, Search, DeleteFile, Step,
         native, durable
    <2> QED BY <2>1, RemovalGo
  <1>6. CASE \/ PassStep \/ PassFails \/ UNCHANGED vars
             \/ \E r \in Releases : Preview(r) \/ Grab(r) \/ Completes(r) \/ Concludes(r)
             \/ \E f \in Files : Routed(f) \/ UserRemoves(f)
             \/ \E e \in Episodes : UserMonitors(e)
    <2>1. /\ UNCHANGED <<attempts, blocklist, rstep>> /\ library' \subseteq library
      BY <1>6 DEF PassStep, PassFails, StartPass, ReadFiles, Backfill, RecordFiles,
         SaveEvidence, Unmonitor, SaveReceipts, Observe, KeepPass, vars, Preview, Grab,
         Completes, Concludes, Routed, UserRemoves, UserMonitors, Outside, native, durable,
         rejectvars
    <2> QED BY <2>1, RemovalGo
  <1>7. ASSUME NEW r \in Releases, NEW e \in Episodes, Import(r, e)
        PROVE  [Removal!Next]_(Removal!vars)
    <2>1. /\ UNCHANGED <<attempts, blocklist, rstep>>
          /\ library' = (library \ FileOf(e)) \cup {Len(imports) + 1}
      BY <1>7 DEF Import, Outside, durable, rejectvars
    <2>2. Len(imports) + 1 \notin 1..Len(imports)
      <3>1. Len(imports) \in Nat BY HistoryType DEF IInv
      <3> QED BY <3>1
    <2>3. library' \cap (1..Len(imports)) \subseteq library BY <2>1, <2>2
    <2> QED BY <2>1, <2>3, RemovalGo
  <1> QED BY <1>1, <1>2, <1>3, <1>4, <1>5, <1>6, <1>7 DEF Next, RejectStep, External

\* A rejection keeps to Undertaking, for any releases, attempts and confirmations:
\* each attempt is confirmed once, goes through its steps in order with a record that
\* says no more than was done, and is never taken up again once it ended.
THEOREM RejectionsAreUndertakings == Spec => RejectsAsConfirmed
  <1>1. Init => OperationInv BY OperationInit
  <1>2. IInv /\ OperationInv /\ [Next]_vars => OperationInv'
    BY OperationNext DEF IInv, ReceiptInv
  <1>3. Init => Removal!Init
    <2> SUFFICES ASSUME Init PROVE Removal!Init OBVIOUS
    <2>1. Last = 0 /\ 1..Last = {} BY DEF Init, Last
    <2>2. \A k \in 1..MaxAttempts : ~(k <= Last) BY <2>1
    <2>3. rstep = "idle" BY DEF Init
    <2> QED BY <2>1, <2>2, <2>3 DEF Removal!Init
  <1>4. IInv /\ OperationInv /\ [Next]_vars => [Removal!Next]_(Removal!vars)
    BY RemovalNext
  <1> QED BY <1>1, <1>2, <1>3, <1>4, Invariance, PTL
          DEF Spec, RejectsAsConfirmed, Removal!Spec
=============================================================================
