------------------------- MODULE LibraryRoutingProofs -------------------------
(***************************************************************************)
(* Proofs about LibraryRouting, for any set of titles and any number of    *)
(* faults and changes: its type invariant, and that the journal neither    *)
(* loses a title the job moved, nor claims one the operator placed, nor    *)
(* gives up a move whose files are not where they belong.                  *)
(*                                                                         *)
(* What a pass read stays true while it runs for every title the operator  *)
(* leaves alone, because nothing native was running when it began: that is *)
(* PassInv, and the journal's part follows from it.                        *)
(***************************************************************************)
EXTENDS LibraryRouting, TLAPS

\* A pending move leads from one of the entry's paths to another.
Proper(e) ==
  e # None /\ e.pending # None =>
    /\ e.pending.source # e.pending.destination
    /\ e.pending.source \in e.paths /\ e.pending.destination \in e.paths
EntriesInv == \A t \in Titles : Proper(saved[t]) /\ Proper(owned[t])

\* What the pass holds in each of its phases.
PhaseInv ==
  /\ pc \in {"idle", "list"} => rows = Nothing /\ owned = Nothing /\ asked = Nothing
  /\ pc = "inspect" => \A t \in left : asked[t] = None /\ owned[t] = None
  /\ pc = "ask" => saved = owned /\ left = {}
  /\ pc \in {"inspect", "ask"} => \A t \in Titles : rows[t] # None
  /\ \A t \in Titles : asked[t] # None =>
       owned[t] # None /\ owned[t].who = rows[t].who
       /\ rows[t].path \in owned[t].paths /\ asked[t] \in owned[t].paths

\* The pass still has a decision or a request to make about the title.
Concerns(t) == pc \in {"list", "inspect"} \/ (pc = "ask" /\ asked[t] # None)

Calm(t) ==
  /\ moving[t] = None /\ worker[t] \in {None, path[t]}
  /\ pc # "list" => rows[t].path = path[t] /\ rows[t].who = who[t]
PassInv == \A t \in Titles : Concerns(t) /\ ~touched[t] => Calm(t)

\* Every path that may become the title's again is one the journal knows.
Backed(t) ==
  /\ worker[t] \in {None} \cup saved[t].paths
  /\ moving[t] # None => moving[t].from \in saved[t].paths
Kept(t) == owned[t] # None /\ owned[t].who = who[t] /\ path[t] \in owned[t].paths
OwnedInv ==
  \A t \in Titles : routed[t] =>
    /\ ~touched[t] /\ Backed(t)
    /\ pc = "inspect" /\ t \notin left => Kept(t)

\* A title the operator placed on their own.
HomeInv ==
  \A t \in Titles : home[t] # None =>
    /\ path[t] = home[t] /\ home[t] # Staging
    /\ saved[t] # None /\ saved[t].who = who[t] => home[t] \notin saved[t].paths
    /\ pc \in {"inspect", "ask"} =>
         /\ rows[t].path = home[t] /\ rows[t].who = who[t]
         /\ owned[t] = None /\ asked[t] = None

\* A move given up in memory is complete and stays so until the journal is saved.
GivenUp(t, p) ==
  /\ pc = "inspect" /\ t \notin left /\ routed[t]
  /\ path[t] = p.destination /\ owned[t] # None
  /\ owned[t].pending = None \/ owned[t].pending.source = p.destination
LeftInv ==
  \A t \in Titles : saved[t] # None /\ saved[t].pending # None
      /\ GivenUp(t, saved[t].pending) => Complete(t, saved[t].pending)

IInv ==
  /\ TypeOK /\ EntriesInv /\ PhaseInv /\ PassInv
  /\ RoutedStaysOwned /\ OwnedInv /\ HomeInv /\ LeftInv
-----------------------------------------------------------------------------
(* Types *)

LEMMA EntryTypes ==
  ASSUME TypeOK, NEW t \in Titles, t \in left
  PROVE  /\ rows[t] \in Rows \cup {None} /\ saved[t] \in Entries \cup {None}
         /\ Previous(t) \in Entries \cup {None}
         /\ \A e \in BOOLEAN : Pending(t) # None => WithError(t, e) \in Entries
<1>1. rows[t] \in Rows \cup {None} /\ saved[t] \in Entries \cup {None}
  BY DEF TypeOK, PassType, Journals
<1>2. Previous(t) \in Entries \cup {None}
  BY <1>1 DEF Previous
<1>3. ASSUME NEW e \in BOOLEAN, Pending(t) # None PROVE WithError(t, e) \in Entries
  <2>1. Previous(t) \in Entries /\ Previous(t).pending \in Intents
    BY <1>2, <1>3, NoneAssumption DEF Pending, Entries
  <2> QED BY <2>1, <1>3 DEF WithError, Entries, Intents
<1> QED BY <1>1, <1>2, <1>3

\* What every inspection of a title may put into the journal.
LEMMA ExamineEntries ==
  ASSUME TypeOK, PhaseInv, NEW t \in Titles, Examine(t)
  PROVE  /\ t \in left /\ pc = "inspect" /\ rows[t] \in Rows
         /\ \E e \in Entries \cup {None} : Inspect(t, e)
         /\ asked' \in [Titles -> Libraries \cup {None}]
<1>1. t \in left /\ pc = "inspect"
  BY DEF Examine, Relinquish, TooEarly, StillMoving, Report, Ignore, Stay, Intend, Inspect
<1>2. rows[t] \in Rows
  BY <1>1, EntryTypes DEF PhaseInv
<1>3. rows[t].path \in Roots /\ rows[t].cert \in Libraries /\ rows[t].who \in BOOLEAN
      /\ rows[t].has \in BOOLEAN
  BY <1>2 DEF Rows
<1>4. Intent(t) \in Intents
  BY <1>3 DEF Intent, Intents, Ages, Roots, Libraries
<1>5. asked \in [Titles -> Libraries \cup {None}]
  BY DEF TypeOK, PassType
<1>6. CASE Relinquish(t) \/ Ignore(t)
  BY <1>1, <1>2, <1>5, <1>6 DEF Relinquish, Ignore
<1>7. CASE TooEarly(t)
  BY <1>1, <1>2, <1>5, <1>7, EntryTypes DEF TooEarly
<1>8. CASE StillMoving(t)
  <2>1. PICK e \in {TRUE, Pending(t).error} : Inspect(t, WithError(t, e))
    BY <1>8 DEF StillMoving
  <2>2. Pending(t) # None /\ Previous(t) # None
    BY <1>8 DEF StillMoving, Unfinished, Pending
  <2>3. Pending(t).error \in BOOLEAN
    <3>1. Previous(t) \in Entries
      BY <2>2, <1>1, EntryTypes
    <3>2. Previous(t).pending \in Intents
      BY <3>1, <2>2 DEF Pending, Entries
    <3> QED BY <3>2, <2>2 DEF Pending, Intents
  <2>4. WithError(t, e) \in Entries
    BY <1>1, <2>1, <2>2, <2>3, EntryTypes
  <2>5. asked' = asked
    BY <1>8 DEF StillMoving
  <2> QED BY <1>1, <1>2, <1>5, <2>1, <2>4, <2>5
<1>9. CASE Report(t)
  BY <1>1, <1>2, <1>5, <1>9, EntryTypes DEF Report, Late, Unfinished
<1>10. CASE Stay(t)
  <2>1. [who |-> rows[t].who, paths |-> {rows[t].path}, pending |-> None] \in Entries
    BY <1>3 DEF Entries
  <2> QED BY <1>1, <1>2, <1>5, <1>10, <2>1 DEF Stay
<1>11. CASE Intend(t)
  <2>1. [who |-> rows[t].who, paths |-> {rows[t].path, rows[t].cert},
         pending |-> Intent(t)] \in Entries
    BY <1>3, <1>4 DEF Entries, Roots
  <2>2. asked' \in [Titles -> Libraries \cup {None}]
    BY <1>3, <1>5, <1>11 DEF Intend
  <2> QED BY <1>1, <1>2, <1>11, <2>1, <2>2 DEF Intend
<1> QED BY <1>6, <1>7, <1>8, <1>9, <1>10, <1>11 DEF Examine

LEMMA EndPassType == ASSUME EndPass PROVE PassType'
BY DEF EndPass, PassType, Nothing, Journals

LEMMA NativeTypeFacts ==
  ASSUME NativeType, NEW t \in Titles
  PROVE  /\ path[t] \in Roots /\ files[t] \subseteq Roots
         /\ worker[t] \in Roots \cup {None}
         /\ moving[t] # None => moving[t].from \in Roots /\ moving[t].to \in Roots
BY DEF NativeType, Moves

LEMMA TypeStep == ASSUME TypeOK, PhaseInv, [Next]_vars PROVE TypeOK'
<1> USE DEF TypeOK
<1>1. CASE LookForCommands
  BY <1>1 DEF LookForCommands, native, NativeType, PassType, HistoryType, CountersType
<1>2. CASE List
  <2>1. rows' \in [Titles -> Rows \cup {None}]
    <3>1. \A t \in Titles : path[t] \in Roots /\ cert[t] \in Libraries /\ who[t] \in BOOLEAN
      BY DEF NativeType
    <3> QED BY <1>2, <3>1 DEF List, Rows
  <2> QED BY <1>2, <2>1 DEF List, native, history, NativeType, PassType, HistoryType, CountersType
<1>3. CASE SaveIntent
  <2>1. PassType'
    BY <1>3, EndPassType DEF SaveIntent, PassType
  <2> QED BY <1>3, <2>1 DEF SaveIntent, native, history, NativeType, PassType, HistoryType, CountersType
<1>4. ASSUME NEW t \in Titles, Examine(t) PROVE TypeOK'
  <2>1. PICK e \in Entries \cup {None} : Inspect(t, e)
    BY <1>4, ExamineEntries
  <2>2. asked' \in [Titles -> Libraries \cup {None}]
    BY <1>4, ExamineEntries
  <2>3. owned' \in Journals
    BY <2>1 DEF Inspect, PassType, Journals
  <2> QED BY <2>1, <2>2, <2>3
        DEF Inspect, native, history, NativeType, PassType, HistoryType, CountersType
<1>5. ASSUME NEW d \in Libraries, Edited(d) PROVE NativeType' /\ saved' \in Journals /\ HistoryType'
  <2>1. path' \in [Titles -> Roots]
    BY <1>5 DEF Edited, NativeType, Roots
  <2>2. moving' \in [Titles -> Moves \cup {None}]
    BY <1>5, NativeTypeFacts DEF Edited, NativeType, Moves, Roots
  <2>3. HistoryType'
    BY <1>5 DEF Edited, HistoryType
  <2> QED BY <1>5, <2>1, <2>2, <2>3 DEF Edited, NativeType
<1>6. ASSUME NEW d \in Libraries, Ask(d) PROVE TypeOK'
  <2>1. PassType'
    BY <1>6, EndPassType DEF Ask, PassType
  <2> QED BY <1>5, <1>6, <2>1 DEF Ask, Edited, CountersType
<1>7. ASSUME NEW d \in Libraries, AskUnheard(d) PROVE TypeOK'
  BY <1>5, <1>7, EndPassType, RoutingAssumption DEF AskUnheard, Edited, Fault, CountersType
<1>8. CASE PassDies
  BY <1>8, EndPassType, RoutingAssumption
     DEF PassDies, Fault, native, history, NativeType, HistoryType, CountersType
<1>9. ASSUME NEW t \in Titles PROVE
        /\ MoveFiles(t) => TypeOK'
        /\ MoveFails(t) => TypeOK'
        /\ StartWorker(t) => TypeOK'
        /\ EndRefresh(t) => TypeOK'
        /\ EndImport(t) => TypeOK'
  <2> USE NativeTypeFacts
  <2>1. CASE MoveFiles(t)
    BY <2>1 DEF MoveFiles, pass, history, NativeType, PassType, HistoryType, CountersType
  <2>2. CASE MoveFails(t)
    <3>1. files' \in [Titles -> SUBSET Roots] /\ path' \in [Titles -> Roots]
      BY <2>2 DEF MoveFails, NativeType
    <3>2. home' \in [Titles -> Roots \cup {None}]
      BY <2>2 DEF MoveFails, HistoryType
    <3> QED BY <2>2, <3>1, <3>2, RoutingAssumption
         DEF MoveFails, Fault, pass, NativeType, PassType, HistoryType, CountersType
  <2>3. CASE StartWorker(t)
    BY <2>3, RoutingAssumption
       DEF StartWorker, Change, pass, history, NativeType, PassType, HistoryType, CountersType
  <2>4. CASE EndRefresh(t)
    <3>1. path' \in [Titles -> Roots] /\ home' \in [Titles -> Roots \cup {None}]
      BY <2>4 DEF EndRefresh, NativeType, HistoryType
    <3> QED BY <2>4, <3>1 DEF EndRefresh, pass, NativeType, PassType, HistoryType, CountersType
  <2>5. CASE EndImport(t)
    <3>1. files' \in [Titles -> SUBSET Roots]
      BY <2>5 DEF EndImport, NativeType
    <3> QED BY <2>5, <3>1 DEF EndImport, pass, history, NativeType, PassType, HistoryType, CountersType
  <2> QED BY <2>1, <2>2, <2>3, <2>4, <2>5
<1>10. ASSUME NEW t \in Titles, Recertify(t) PROVE TypeOK'
  BY <1>10, RoutingAssumption
     DEF Recertify, Change, pass, history, NativeType, PassType, HistoryType, CountersType, Libraries
<1>11. ASSUME NEW t \in Titles, Tick(t) PROVE TypeOK'
  <2>1. saved[t] \in Entries /\ saved[t].pending \in Intents
    BY <1>11 DEF Tick, Journals, Entries
  <2>2. [saved[t] EXCEPT !.pending.age = Older(saved[t].pending.age)] \in Entries
    BY <2>1 DEF Entries, Intents, Older, Ages
  <2>3. saved' \in Journals
    BY <1>11, <2>2 DEF Tick, Journals
  <2> QED BY <1>11, <2>3
        DEF Tick, native, pass, history, NativeType, PassType, HistoryType, CountersType
<1>12. ASSUME NEW t \in Titles, NEW r \in Roots, NEW id, Settles(t, r, id)
       PROVE path' \in [Titles -> Roots] /\ HistoryType'
  BY <1>12 DEF Settles, NativeType, HistoryType
<1>13. ASSUME NEW t \in Titles, NEW r \in Roots, Place(t, r) PROVE TypeOK'
  <2>1. moving' \in [Titles -> Moves \cup {None}]
    BY <1>13, NativeTypeFacts DEF Place, NativeType, Moves
  <2>2. who[t] \in BOOLEAN
    BY DEF NativeType
  <2> QED BY <1>12, <1>13, <2>1, <2>2, RoutingAssumption
        DEF Place, Change, pass, NativeType, PassType, CountersType
<1>14. ASSUME NEW t \in Titles, NEW r \in Roots, Replace(t, r) PROVE TypeOK'
  <2>1. files' \in [Titles -> SUBSET Roots] /\ who' \in [Titles -> BOOLEAN]
    BY <1>14 DEF Replace, NativeType
  <2>2. path' \in [Titles -> Roots] /\ HistoryType'
    <3>1. Settles(t, r, ~who[t])
      BY <1>14 DEF Replace
    <3> QED BY <3>1, <1>12
  <2>3. CountersType'
    BY <1>14, RoutingAssumption DEF Replace, Change, CountersType
  <2>4. PassType' /\ cert' = cert /\ worker' = worker /\ moving' = moving /\ saved' = saved
    BY <1>14, EndPassType DEF Replace
  <2> QED BY <2>1, <2>2, <2>3, <2>4 DEF NativeType
<1>15. CASE UNCHANGED vars
  BY <1>15 DEF vars, native, pass, history, NativeType, PassType, HistoryType, CountersType
<1> QED BY <1>1, <1>2, <1>3, <1>4, <1>6, <1>7, <1>8, <1>9, <1>10, <1>11, <1>13, <1>14, <1>15
      DEF Next, Pass, Native
-----------------------------------------------------------------------------
(* One inspection *)

\* What the journal and the requests gain by the inspection of a title: an
\* entry for a path it knows, none for a path it does not, and no end of a
\* move but an arrival.
Inspected(t, e) ==
  /\ Proper(e)
  /\ asked'[t] # None =>
       /\ e # None /\ e.who = rows[t].who
       /\ rows[t].path \in e.paths /\ asked'[t] \in e.paths
  /\ Previous(t) # None /\ Known(t) =>
       e # None /\ e.who = rows[t].who /\ rows[t].path \in e.paths
  /\ rows[t].path # Staging /\ (Previous(t) # None => ~Known(t)) =>
       e = None /\ asked'[t] = None
  /\ Pending(t) # None /\ e # None /\ AtDestination(t)
       /\ (e.pending = None \/ e.pending.source = rows[t].path) => Arrived(t)

LEMMA PreviousFacts ==
  ASSUME EntriesInv, NEW t \in Titles
  PROVE  /\ Proper(Previous(t))
         /\ Previous(t) # None => Previous(t) = saved[t] /\ Previous(t).who = rows[t].who
         /\ Pending(t) # None => Previous(t) # None /\ Pending(t) = Previous(t).pending
         /\ Pending(t) # None /\ AtDestination(t) => Known(t)
<1>1. Proper(saved[t])
  BY DEF EntriesInv
<1>2. Previous(t) = saved[t] \/ Previous(t) = None
  BY DEF Previous
<1>3. Proper(Previous(t))
  BY <1>1, <1>2 DEF Proper
<1> QED BY <1>3 DEF Previous, Pending, AtDestination, Known, Proper

LEMMA ExamineFacts ==
  ASSUME TypeOK, EntriesInv, PhaseInv, NEW t \in Titles, Examine(t)
  PROVE  /\ \E e : Inspect(t, e) /\ Inspected(t, e)
         /\ \A u \in Titles \ {t} : asked'[u] = asked[u]
<1>1. t \in left /\ pc = "inspect" /\ rows[t] \in Rows /\ asked[t] = None
  BY ExamineEntries DEF PhaseInv
<1>2. asked \in [Titles -> Libraries \cup {None}]
  BY DEF TypeOK, PassType
<1>3. rows[t].path \in Roots /\ rows[t].cert \in Libraries
  BY <1>1 DEF Rows
<1> USE PreviousFacts
\* The job keeps what it had of a title it knows.
<1>4. ASSUME NEW e, Unfinished(t), Inspect(t, e), UNCHANGED asked,
             e = Previous(t) \/ \E b \in BOOLEAN : e = WithError(t, b)
      PROVE Inspected(t, e)
  <2>1. Previous(t) # None /\ Known(t) /\ ~Arrived(t) /\ asked'[t] = None
    BY <1>1, <1>4 DEF Unfinished
  <2>2. Previous(t) \in Entries /\ Pending(t) \in Intents
    BY <1>1, <2>1, <1>4, EntryTypes, NoneAssumption DEF Entries, Pending, Unfinished
  <2>3. /\ e # None /\ e.who = Previous(t).who /\ e.paths = Previous(t).paths
        /\ e.pending # None /\ e.pending.source = Pending(t).source
        /\ e.pending.destination = Pending(t).destination
    <3>1. CASE e = Previous(t)
      BY <3>1, <2>1, <1>4 DEF Unfinished, Pending
    <3>2. ASSUME NEW b \in BOOLEAN, e = WithError(t, b)
          PROVE /\ e # None /\ e.who = Previous(t).who /\ e.paths = Previous(t).paths
                /\ e.pending # None /\ e.pending.source = Pending(t).source
                /\ e.pending.destination = Pending(t).destination
      <4>1. e.who = Previous(t).who /\ e.paths = Previous(t).paths
            /\ e.pending = [Pending(t) EXCEPT !.error = b]
        BY <3>2, <2>1, <2>2 DEF WithError, Pending, Entries
      <4>2. [Pending(t) EXCEPT !.error = b] \in Intents
        BY <2>2 DEF Intents
      <4>3. e.pending # None /\ e.pending.source = Pending(t).source
            /\ e.pending.destination = Pending(t).destination
        BY <4>1, <4>2, <2>2, NoneAssumption DEF Intents
      <4>4. e # None
        BY <3>2, <1>1, <1>4, EntryTypes, NoneAssumption DEF Unfinished
      <4> QED BY <4>1, <4>3, <4>4
    <3> QED BY <1>4, <3>1, <3>2
  <2>4. Proper(Previous(t)) /\ Previous(t).pending # None /\ Pending(t) = Previous(t).pending
    BY <1>4 DEF Unfinished
  <2>5. Proper(e) /\ e.who = rows[t].who /\ rows[t].path \in e.paths
    BY <2>1, <2>3, <2>4 DEF Proper, Known
  <2>6. AtDestination(t) => e.pending # None /\ e.pending.source # rows[t].path
    BY <2>1, <2>3, <2>4 DEF AtDestination, Proper
  <2> QED BY <2>1, <2>5, <2>6, <2>3 DEF Inspected
<1>5. CASE TooEarly(t)
  BY <1>4, <1>5 DEF TooEarly
<1>6. CASE StillMoving(t)
  <2>1. Unfinished(t) /\ Previous(t) \in Entries /\ Pending(t) \in Intents
    BY <1>1, <1>6, EntryTypes, NoneAssumption DEF StillMoving, Unfinished, Pending, Entries
  <2>2. Pending(t).error \in BOOLEAN
    BY <2>1 DEF Intents
  <2> QED BY <1>4, <1>6, <2>1, <2>2 DEF StillMoving
<1>7. CASE Report(t)
  BY <1>4, <1>7 DEF Report, Late
\* It has no claim to a title it does not know.
<1>8. CASE Relinquish(t) \/ Ignore(t)
  <2>1. Inspect(t, None) /\ UNCHANGED asked
    BY <1>8 DEF Relinquish, Ignore
  <2>2. ~(Previous(t) # None /\ Known(t))
    BY <1>8 DEF Relinquish, Ignore, Ours
  <2>3. Inspected(t, None)
    BY <1>1, <2>1, <2>2 DEF Inspected, Proper
  <2> QED BY <2>1, <2>3
\* A judged title has arrived or is not where its move leads.
<1>9. ASSUME Judged(t), Ours(t), Pending(t) # None, AtDestination(t) PROVE Arrived(t)
  BY <1>9 DEF Judged, Free, MayRetry
<1>10. ASSUME Judged(t), Ours(t), rows[t].path # Staging PROVE Previous(t) # None /\ Known(t)
  BY <1>10 DEF Ours, Arrived
<1>11. CASE Stay(t)
  <2> DEFINE e == [who |-> rows[t].who, paths |-> {rows[t].path}, pending |-> None]
  <2>1. Inspect(t, e) /\ UNCHANGED asked
    BY <1>11 DEF Stay
  <2>2. Judged(t) /\ Ours(t)
    BY <1>11 DEF Stay
  <2>3. e # None
    <3>1. e \in Entries
      BY <1>1, <1>3 DEF Entries, Rows
    <3> QED BY <3>1, NoneAssumption
  <2>4. Inspected(t, e)
    BY <1>1, <1>9, <1>10, <2>1, <2>2, <2>3 DEF Inspected, Proper
  <2> QED BY <2>1, <2>4
<1>12. CASE Intend(t)
  <2> DEFINE e == [who |-> rows[t].who, paths |-> {rows[t].path, rows[t].cert},
                   pending |-> Intent(t)]
  <2>1. Inspect(t, e) /\ asked' = [asked EXCEPT ![t] = rows[t].cert]
    BY <1>12 DEF Intend
  <2>2. Judged(t) /\ Ours(t) /\ rows[t].path # rows[t].cert
    BY <1>12 DEF Intend
  <2>3. e # None
    <3>1. Intent(t) \in Intents
      BY <1>1, <1>3 DEF Intent, Intents, Rows, Ages, Roots
    <3>2. e \in Entries
      BY <1>1, <1>3, <3>1 DEF Entries, Rows, Roots
    <3> QED BY <3>2, NoneAssumption
  <2>4. Intent(t).source = rows[t].path /\ Intent(t).destination = rows[t].cert
    BY DEF Intent
  <2>5. asked'[t] = rows[t].cert
    BY <1>2, <2>1
  <2>6. Inspected(t, e)
    BY <1>1, <1>9, <1>10, <2>2, <2>3, <2>4, <2>5 DEF Inspected, Proper
  <2>7. \A u \in Titles \ {t} : asked'[u] = asked[u]
    BY <1>2, <2>1
  <2> QED BY <2>1, <2>6, <2>7
<1> QED BY <1>5, <1>6, <1>7, <1>8, <1>11, <1>12 DEF Examine
-----------------------------------------------------------------------------
(* The journal's entries and the phases of a pass *)

LEMMA EndPassFacts ==
  ASSUME EndPass
  PROVE  /\ pc' = "idle" /\ left' = {} /\ rows' = Nothing
         /\ \A t \in Titles : rows'[t] = None /\ owned'[t] = None /\ asked'[t] = None
         /\ PhaseInv'
BY DEF EndPass, Nothing, PhaseInv

\* The clock changes nothing of an entry but the age of its move.
LEMMA TickFacts ==
  ASSUME TypeOK, NEW t \in Titles, Tick(t)
  PROVE  /\ saved[t] # None /\ saved[t].pending # None /\ pc = "idle"
         /\ UNCHANGED <<native, pass, history>>
         /\ saved'[t] # None /\ saved'[t].who = saved[t].who
         /\ saved'[t].paths = saved[t].paths /\ saved'[t].pending # None
         /\ saved'[t].pending.source = saved[t].pending.source
         /\ saved'[t].pending.destination = saved[t].pending.destination
         /\ \A u \in Titles \ {t} : saved'[u] = saved[u]
<1>1. saved[t] \in Entries /\ saved[t].pending \in Intents
  BY DEF Tick, TypeOK, Journals, Entries
<1> DEFINE p == [saved[t].pending EXCEPT !.age = Older(saved[t].pending.age)]
           e == [saved[t] EXCEPT !.pending = p]
<1>2. p \in Intents /\ p.source = saved[t].pending.source
      /\ p.destination = saved[t].pending.destination
  BY <1>1 DEF Intents, Older, Ages
<1>3. e \in Entries /\ e.who = saved[t].who /\ e.paths = saved[t].paths /\ e.pending = p
  BY <1>1, <1>2 DEF Entries
<1>4. saved'[t] = e /\ \A u \in Titles \ {t} : saved'[u] = saved[u]
  BY <1>1 DEF Tick, TypeOK, Journals, Entries, Intents
<1>5. e # None /\ p # None
  BY <1>2, <1>3, NoneAssumption
<1> HIDE DEF p, e
<1> QED BY <1>2, <1>3, <1>4, <1>5 DEF Tick

LEMMA JournalStep ==
  ASSUME TypeOK, EntriesInv, PhaseInv, [Next]_vars PROVE EntriesInv' /\ PhaseInv'
<1>1. CASE LookForCommands \/ UNCHANGED vars
  BY <1>1 DEF LookForCommands, vars, pass, EntriesInv, PhaseInv
<1>2. CASE List
  <2>1. \A t \in Titles : rows'[t] \in Rows
    BY <1>2 DEF List, Rows, TypeOK, NativeType
  <2>2. /\ pc' = "inspect" /\ left' = Titles /\ saved' = saved
        /\ \A t \in Titles : owned[t] = None /\ asked[t] = None
        /\ owned' = owned /\ asked' = asked
    BY <1>2 DEF List, PhaseInv, Nothing
  <2> QED BY <2>1, <2>2, NoneAssumption DEF EntriesInv, PhaseInv, Proper
<1>3. CASE SaveIntent
  <2>1. CASE EndPass
    <3>1. EntriesInv'
      BY <1>3, <2>1, EndPassFacts DEF SaveIntent, EntriesInv, Proper
    <3> QED BY <3>1, <2>1, EndPassFacts
  <2>2. CASE pc' = "ask" /\ UNCHANGED <<rows, left, owned, asked>>
    BY <1>3, <2>2 DEF SaveIntent, EntriesInv, PhaseInv
  <2> QED BY <1>3, <2>1, <2>2 DEF SaveIntent
<1>4. ASSUME NEW t \in Titles, Examine(t) PROVE EntriesInv' /\ PhaseInv'
  <2>1. PICK e : Inspect(t, e) /\ Inspected(t, e)
    BY <1>4, ExamineFacts
  <2>2. \A u \in Titles \ {t} : asked'[u] = asked[u]
    BY <1>4, ExamineFacts
  <2>3. t \in left /\ pc = "inspect"
    BY <2>1 DEF Inspect
  <2>4. owned'[t] = e /\ \A u \in Titles \ {t} : owned'[u] = owned[u]
    BY <2>1 DEF Inspect, TypeOK, PassType, Journals
  <2>5. pc' = pc /\ left' = left \ {t} /\ rows' = rows /\ saved' = saved
    BY <2>1 DEF Inspect
  <2>6. EntriesInv'
    BY <2>1, <2>4, <2>5 DEF EntriesInv, Inspected, Proper
  <2>7. PhaseInv'
    <3>1. \A u \in left' : asked'[u] = None /\ owned'[u] = None
      BY <2>2, <2>3, <2>4, <2>5 DEF PhaseInv, TypeOK, PassType
    <3>2. \A u \in Titles : rows'[u] # None
      BY <2>3, <2>5 DEF PhaseInv
    <3>3. \A u \in Titles : asked'[u] # None =>
            /\ owned'[u] # None /\ owned'[u].who = rows'[u].who
            /\ rows'[u].path \in owned'[u].paths /\ asked'[u] \in owned'[u].paths
      BY <2>1, <2>2, <2>4, <2>5 DEF PhaseInv, Inspected
    <3> QED BY <2>3, <2>5, <3>1, <3>2, <3>3 DEF PhaseInv
  <2> QED BY <2>6, <2>7
<1>5. ASSUME NEW d \in Libraries, Ask(d) PROVE EntriesInv' /\ PhaseInv'
  <2>1. saved' = saved
    BY <1>5 DEF Ask, Edited
  <2>2. CASE EndPass
    BY <2>1, <2>2, EndPassFacts DEF EntriesInv, Proper
  <2>3. CASE /\ asked' = [t \in Titles |-> IF asked[t] = d THEN None ELSE asked[t]]
             /\ UNCHANGED <<pc, rows, left, owned>>
    BY <1>5, <2>1, <2>3 DEF Ask, EntriesInv, PhaseInv
  <2> QED BY <1>5, <2>2, <2>3 DEF Ask
<1>6. ASSUME EndPass, saved' = saved PROVE EntriesInv' /\ PhaseInv'
  BY <1>6, EndPassFacts DEF EntriesInv, Proper
<1>7. CASE PassDies \/ \E d \in Libraries : AskUnheard(d)
  BY <1>6, <1>7 DEF PassDies, AskUnheard, Edited
<1>8. ASSUME NEW t \in Titles, NEW r \in Roots, Replace(t, r) PROVE EntriesInv' /\ PhaseInv'
  BY <1>6, <1>8 DEF Replace
<1>9. ASSUME NEW t \in Titles, Tick(t) PROVE EntriesInv' /\ PhaseInv'
  <2>1. EntriesInv'
    BY <1>9, TickFacts DEF EntriesInv, Proper, pass
  <2>2. PhaseInv'
    BY <1>9, TickFacts DEF PhaseInv, pass
  <2> QED BY <2>1, <2>2
<1>10. ASSUME UNCHANGED <<saved, pass>> PROVE EntriesInv' /\ PhaseInv'
  BY <1>10 DEF pass, EntriesInv, PhaseInv
<1>11. ASSUME NEW t \in Titles,
              \/ MoveFiles(t) \/ MoveFails(t) \/ StartWorker(t) \/ EndRefresh(t)
              \/ EndImport(t) \/ Recertify(t) \/ \E r \in Roots : Place(t, r)
       PROVE EntriesInv' /\ PhaseInv'
  BY <1>10, <1>11
     DEF MoveFiles, MoveFails, StartWorker, EndRefresh, EndImport, Recertify, Place
<1> QED BY <1>1, <1>2, <1>3, <1>4, <1>5, <1>7, <1>8, <1>9, <1>11 DEF Next, Pass, Native

-----------------------------------------------------------------------------
(* What the pass read *)

LEMMA PassStep ==
  ASSUME TypeOK, PhaseInv, PassInv, [Next]_vars PROVE PassInv'
<1> USE NoneAssumption
<1>1. CASE LookForCommands
  BY <1>1 DEF LookForCommands, Quiet, PassInv, Concerns, Calm, native
<1>2. CASE List
  BY <1>2 DEF List, PassInv, Concerns, Calm, native, history
<1>3. CASE SaveIntent
  BY <1>3, EndPassFacts DEF SaveIntent, PassInv, Concerns, Calm, native, history
<1>4. ASSUME NEW t \in Titles, Examine(t) PROVE PassInv'
  <2>1. \E e : Inspect(t, e)
    BY <1>4, ExamineEntries
  <2> QED BY <2>1 DEF Inspect, PassInv, Concerns, Calm, native, history
<1>5. ASSUME NEW d \in Libraries, Ask(d) PROVE PassInv'
  <2>1. CASE EndPass
    BY <2>1, EndPassFacts DEF PassInv, Concerns
  <2>2. CASE /\ asked' = [t \in Titles |-> IF asked[t] = d THEN None ELSE asked[t]]
             /\ UNCHANGED <<pc, rows, left, owned>>
    BY <1>5, <2>2 DEF Ask, Edited, PassInv, Concerns, Calm
  <2> QED BY <1>5, <2>1, <2>2 DEF Ask
<1>6. ASSUME EndPass PROVE PassInv'
  BY <1>6, EndPassFacts DEF PassInv, Concerns
<1>7. CASE PassDies \/ \E d \in Libraries : AskUnheard(d)
  BY <1>6, <1>7 DEF PassDies, AskUnheard
<1>8. ASSUME NEW t \in Titles, NEW r \in Roots, Replace(t, r) PROVE PassInv'
  BY <1>6, <1>8 DEF Replace
<1>9. ASSUME NEW t \in Titles, NEW r \in Roots, Place(t, r) PROVE PassInv'
  BY <1>9 DEF Place, Settles, PassInv, Concerns, Calm, pass, TypeOK, NativeType, HistoryType
<1>10. ASSUME NEW t \in Titles, MoveFiles(t) \/ MoveFails(t) PROVE PassInv'
  <2>1. ~(Concerns(t) /\ ~touched[t]) /\ UNCHANGED <<pass, touched, who, worker>>
    BY <1>10 DEF MoveFiles, MoveFails, PassInv, Calm, history
  <2>2. \A u \in Titles \ {t} : moving'[u] = moving[u] /\ path'[u] = path[u]
    BY <1>10 DEF MoveFiles, MoveFails, TypeOK, NativeType
  <2> QED BY <2>1, <2>2 DEF PassInv, Concerns, Calm, pass
<1>11. ASSUME NEW t \in Titles, StartWorker(t) PROVE PassInv'
  BY <1>11 DEF StartWorker, PassInv, Concerns, Calm, pass, history, TypeOK, NativeType
<1>12. ASSUME NEW t \in Titles, EndRefresh(t) \/ EndImport(t) PROVE PassInv'
  BY <1>12 DEF EndRefresh, EndImport, PassInv, Concerns, Calm, pass, history, TypeOK, NativeType
<1>13. ASSUME NEW t \in Titles, Recertify(t) \/ Tick(t) PROVE PassInv'
  BY <1>13 DEF Recertify, Tick, PassInv, Concerns, Calm, pass, history, native
<1>14. CASE UNCHANGED vars
  BY <1>14 DEF vars, pass, history, native, PassInv, Concerns, Calm
<1> QED BY <1>1, <1>2, <1>3, <1>4, <1>5, <1>7, <1>8, <1>9, <1>10, <1>11, <1>12, <1>13, <1>14
      DEF Next, Pass, Native
-----------------------------------------------------------------------------
(* A title the job moved stays in the journal *)

Held(t) ==
  /\ ~touched[t]
  /\ saved[t] # None /\ saved[t].who = who[t] /\ path[t] \in saved[t].paths
  /\ Backed(t)
  /\ pc = "inspect" /\ t \notin left => Kept(t)

LEMMA HeldMeansOwned ==
  (RoutedStaysOwned /\ OwnedInv) <=> \A t \in Titles : routed[t] => Held(t)
BY DEF RoutedStaysOwned, OwnedInv, Held

LEMMA HeldMeansOwnedNext ==
  (RoutedStaysOwned /\ OwnedInv)' <=> \A t \in Titles : routed'[t] => Held(t)'
BY DEF RoutedStaysOwned, OwnedInv, Held

LEMMA OwnedStep ==
  ASSUME TypeOK, EntriesInv, PhaseInv, PassInv, RoutedStaysOwned, OwnedInv, [Next]_vars
  PROVE  RoutedStaysOwned' /\ OwnedInv'
<1> SUFFICES ASSUME NEW u \in Titles, routed'[u] PROVE Held(u)'
  BY HeldMeansOwnedNext
<1>a. routed[u] => Held(u)
  BY HeldMeansOwned
<1>b. Concerns(u) /\ ~touched[u] => Calm(u)
  BY DEF PassInv
<1> USE NoneAssumption
<1>1. CASE LookForCommands \/ List \/ UNCHANGED vars
  BY <1>1, <1>a DEF LookForCommands, List, vars, native, pass, history, Held, Backed, Kept
<1>2. ASSUME NEW t \in Titles, Examine(t) PROVE Held(u)'
  <2>1. PICK e : Inspect(t, e) /\ Inspected(t, e)
    BY <1>2, ExamineFacts
  <2>2. routed[u] /\ Held(u) /\ Calm(u) /\ pc = "inspect" /\ t \in left
    BY <1>a, <1>b, <2>1 DEF Inspect, history, Held, Concerns
  <2>3. owned'[t] = e /\ \A v \in Titles \ {t} : owned'[v] = owned[v]
    BY <2>1 DEF Inspect, TypeOK, PassType, Journals
  <2>4. CASE u = t
    <3>1. Previous(u) = saved[u] /\ rows[u].path = path[u] /\ rows[u].who = who[u]
      BY <2>2 DEF Held, Calm, Previous
    <3>2. Kept(u)'
      BY <2>1, <2>2, <2>3, <2>4, <3>1 DEF Inspected, Known, Held, Kept, Inspect, native
    <3> QED BY <2>1, <2>2, <3>2 DEF Inspect, native, history, Held, Backed
  <2>5. CASE u # t
    BY <2>1, <2>2, <2>3, <2>5 DEF Inspect, native, history, Held, Backed, Kept
  <2> QED BY <2>4, <2>5
<1>3. CASE SaveIntent
  <2>1. routed[u] /\ Held(u) /\ Calm(u) /\ Kept(u) /\ pc' # "inspect"
    BY <1>3, <1>a, <1>b, EndPassFacts DEF SaveIntent, history, Held, Concerns
  <2> QED BY <1>3, <2>1 DEF SaveIntent, native, history, Held, Backed, Kept, Calm
<1>4. ASSUME NEW d \in Libraries, pc = "ask", Edited(d), pc' # "inspect" PROVE Held(u)'
  <2>1. CASE asked[u] = d
    <3>1. ~touched[u] /\ asked[u] # None /\ Calm(u) /\ saved = owned
      BY <1>4, <1>b, <2>1 DEF Edited, Roots, Concerns, PhaseInv
    <3>2. /\ saved[u] # None /\ saved[u].who = who[u]
          /\ path[u] \in saved[u].paths /\ d \in saved[u].paths
      BY <1>4, <2>1, <3>1 DEF PhaseInv, Calm
    <3>3. path'[u] = d /\ saved' = saved /\ who' = who /\ worker' = worker /\ touched' = touched
      BY <1>4, <2>1 DEF Edited
    <3>4. moving'[u] # None => moving'[u].from = path[u]
      BY <1>4, <2>1, <3>1 DEF Edited, Calm
    <3> QED BY <1>4, <3>1, <3>2, <3>3, <3>4 DEF Held, Backed, Calm
  <2>2. CASE asked[u] # d
    BY <1>4, <1>a, <2>2 DEF Edited, Held, Backed
  <2> QED BY <2>1, <2>2
<1>5. ASSUME NEW d \in Libraries, Ask(d) \/ AskUnheard(d) PROVE Held(u)'
  BY <1>4, <1>5, EndPassFacts DEF Ask, AskUnheard
<1>6. CASE PassDies
  BY <1>6, <1>a, EndPassFacts DEF PassDies, native, history, Held, Backed
<1>7. ASSUME NEW t \in Titles, NEW r \in Roots, NEW id, Settles(t, r, id)
      PROVE u # t /\ routed[u] /\ Held(u) /\ path'[u] = path[u] /\ touched'[u] = touched[u]
  BY <1>7, <1>a DEF Settles, TypeOK, NativeType, HistoryType
<1>8. ASSUME NEW t \in Titles, NEW r \in Roots, Place(t, r) PROVE Held(u)'
  <2>1. u # t /\ Held(u) /\ path'[u] = path[u] /\ touched'[u] = touched[u]
    BY <1>7, <1>8 DEF Place
  <2>2. moving'[u] = moving[u] /\ UNCHANGED <<who, worker, saved, pass>>
    BY <1>8, <2>1 DEF Place, TypeOK, NativeType
  <2> QED BY <2>1, <2>2 DEF Held, Backed, Kept, pass
<1>9. ASSUME NEW t \in Titles, NEW r \in Roots, Replace(t, r) PROVE Held(u)'
  <2>1. Settles(t, r, ~who[t])
    BY <1>9 DEF Replace
  <2>2. u # t /\ Held(u) /\ path'[u] = path[u] /\ touched'[u] = touched[u]
    BY <2>1, <1>7
  <2>3. who'[u] = who[u] /\ pc' = "idle" /\ UNCHANGED <<worker, moving, saved>>
    BY <1>9, <2>2, EndPassFacts DEF Replace, TypeOK, NativeType
  <2> QED BY <2>2, <2>3 DEF Held, Backed
<1>10. ASSUME NEW t \in Titles, MoveFiles(t) \/ MoveFails(t) PROVE Held(u)'
  <2>1. routed[u] /\ Held(u)
    BY <1>10, <1>a DEF MoveFiles, MoveFails, history
  <2>2. moving[t] # None /\ UNCHANGED <<who, worker, saved, pass, touched>>
    BY <1>10 DEF MoveFiles, MoveFails, history
  <2>3. CASE u = t
    <3>1. pc # "inspect" /\ moving'[u] = None
      BY <1>10, <1>b, <2>1, <2>2, <2>3
         DEF Held, Calm, Concerns, MoveFiles, MoveFails, TypeOK, NativeType
    <3>2. path'[u] = path[u] \/ path'[u] = moving[u].from
      BY <1>10, <2>3 DEF MoveFiles, MoveFails, TypeOK, NativeType
    <3> QED BY <2>1, <2>2, <2>3, <3>1, <3>2 DEF Held, Backed, pass
  <2>4. CASE u # t
    <3>1. path'[u] = path[u] /\ moving'[u] = moving[u]
      BY <1>10, <2>4 DEF MoveFiles, MoveFails, TypeOK, NativeType
    <3> QED BY <2>1, <2>2, <3>1 DEF Held, Backed, Kept, pass
  <2> QED BY <2>3, <2>4
<1>11. ASSUME NEW t \in Titles, StartWorker(t) PROVE Held(u)'
  BY <1>11, <1>a DEF StartWorker, Held, Backed, Kept, pass, history, TypeOK, NativeType
<1>12. ASSUME NEW t \in Titles, EndRefresh(t) \/ EndImport(t) PROVE Held(u)'
  <2>1. routed[u] /\ Held(u) /\ UNCHANGED <<who, moving, saved, pass, touched>>
    BY <1>12, <1>a DEF EndRefresh, EndImport, history
  <2>2. path'[u] = path[u] \/ (u = t /\ path'[u] = worker[u] /\ worker[u] # None)
    BY <1>12 DEF EndRefresh, EndImport, TypeOK, NativeType
  <2>3. worker'[u] = worker[u] \/ worker'[u] = None
    BY <1>12 DEF EndRefresh, EndImport, TypeOK, NativeType
  <2>4. pc = "inspect" => path'[u] = path[u]
    BY <1>b, <2>1, <2>2 DEF Held, Calm, Concerns
  <2>5. path'[u] \in saved[u].paths
    BY <2>1, <2>2 DEF Held, Backed
  <2> QED BY <2>1, <2>3, <2>4, <2>5 DEF Held, Backed, Kept, pass
<1>13. ASSUME NEW t \in Titles, Recertify(t) PROVE Held(u)'
  BY <1>13, <1>a DEF Recertify, Held, Backed, Kept, pass, history
<1>14. ASSUME NEW t \in Titles, Tick(t) PROVE Held(u)'
  BY <1>14, <1>a, TickFacts DEF Held, Backed, native, pass, history
<1> QED BY <1>1, <1>2, <1>3, <1>5, <1>6, <1>8, <1>9, <1>10, <1>11, <1>12, <1>13, <1>14
      DEF Next, Pass, Native
-----------------------------------------------------------------------------
(* Titles the operator placed *)

Apart(t) ==
  /\ path[t] = home[t] /\ home[t] # Staging
  /\ saved[t] # None /\ saved[t].who = who[t] => home[t] \notin saved[t].paths
  /\ pc \in {"inspect", "ask"} =>
       /\ rows[t].path = home[t] /\ rows[t].who = who[t]
       /\ owned[t] = None /\ asked[t] = None

LEMMA HomeStep ==
  ASSUME TypeOK, EntriesInv, PhaseInv, HomeInv, [Next]_vars PROVE HomeInv'
<1> SUFFICES ASSUME NEW u \in Titles, home'[u] # None PROVE Apart(u)'
  BY DEF HomeInv, Apart
<1>a. home[u] # None => Apart(u)
  BY DEF HomeInv, Apart
<1>1. CASE LookForCommands \/ List \/ UNCHANGED vars
  BY <1>1, <1>a DEF LookForCommands, List, vars, native, pass, history, Apart, PhaseInv, Nothing
<1>2. ASSUME NEW t \in Titles, Examine(t) PROVE Apart(u)'
  <2>1. PICK e : Inspect(t, e) /\ Inspected(t, e)
    BY <1>2, ExamineFacts
  <2>2. \A v \in Titles \ {t} : asked'[v] = asked[v]
    BY <1>2, ExamineFacts
  <2>3. owned'[t] = e /\ \A v \in Titles \ {t} : owned'[v] = owned[v]
    BY <2>1 DEF Inspect, TypeOK, PassType, Journals
  <2>4. Apart(u) /\ pc = "inspect" /\ UNCHANGED <<native, saved, pc, rows, home>>
    BY <1>a, <2>1 DEF Inspect, history
  <2>5. CASE u = t
    <3>1. rows[u].path # Staging /\ (Previous(u) # None => ~Known(u))
      BY <2>4 DEF Apart, Previous, Known
    <3>2. owned'[u] = None /\ asked'[u] = None
      BY <2>1, <2>3, <2>5, <3>1 DEF Inspected
    <3> QED BY <2>4, <3>2 DEF Apart, native
  <2>6. CASE u # t
    BY <2>2, <2>3, <2>4, <2>6 DEF Apart, native
  <2> QED BY <2>5, <2>6
<1>3. CASE SaveIntent
  BY <1>3, <1>a, EndPassFacts DEF SaveIntent, native, history, Apart
<1>4. ASSUME NEW d \in Libraries, Edited(d)
      PROVE /\ Apart(u) /\ UNCHANGED <<who, saved>>
            /\ path'[u] = path[u] /\ home'[u] = home[u]
  BY <1>4, <1>a DEF Edited
<1>5. ASSUME NEW d \in Libraries, Ask(d) \/ AskUnheard(d) PROVE Apart(u)'
  <2>1. Edited(d) /\ pc = "ask"
    BY <1>5 DEF Ask, AskUnheard
  <2>2. CASE EndPass
    BY <1>4, <2>1, <2>2, EndPassFacts DEF Apart
  <2>3. CASE /\ asked' = [t \in Titles |-> IF asked[t] = d THEN None ELSE asked[t]]
             /\ UNCHANGED <<pc, rows, left, owned>>
    BY <1>4, <2>1, <2>3 DEF Apart
  <2> QED BY <1>5, <2>2, <2>3 DEF Ask, AskUnheard
<1>6. CASE PassDies
  BY <1>6, <1>a, EndPassFacts DEF PassDies, native, history, Apart
<1>7. ASSUME NEW t \in Titles, MoveFails(t) \/ EndRefresh(t) PROVE Apart(u)'
  <2>1. home'[u] = home[u] /\ (path'[u] = path[u] \/ path'[u] = home[u])
    BY <1>7, <1>a DEF MoveFails, EndRefresh, Apart, TypeOK, NativeType, HistoryType
  <2>2. UNCHANGED <<who, saved, pass>>
    BY <1>7 DEF MoveFails, EndRefresh
  <2> QED BY <1>a, <2>1, <2>2 DEF Apart, pass
<1>8. ASSUME NEW t \in Titles, MoveFiles(t) \/ StartWorker(t) \/ EndImport(t) \/ Recertify(t)
      PROVE Apart(u)'
  BY <1>8, <1>a DEF MoveFiles, StartWorker, EndImport, Recertify, pass, history, Apart
<1>9. ASSUME NEW t \in Titles, Tick(t) PROVE Apart(u)'
  BY <1>9, <1>a, TickFacts DEF native, pass, history, Apart
<1>10. ASSUME NEW t \in Titles, NEW r \in Roots, NEW id, Settles(t, r, id)
       PROVE /\ u = t => OnTheirOwn(t, r, id) /\ path'[u] = r /\ home'[u] = r
             /\ u # t => Apart(u) /\ path'[u] = path[u] /\ home'[u] = home[u]
  BY <1>10, <1>a DEF Settles, TypeOK, NativeType, HistoryType
<1>11. ASSUME NEW t \in Titles, NEW r \in Roots, Place(t, r) PROVE Apart(u)'
  <2>1. /\ u = t => OnTheirOwn(t, r, who[t]) /\ path'[u] = r /\ home'[u] = r
        /\ u # t => Apart(u) /\ path'[u] = path[u] /\ home'[u] = home[u]
    BY <1>10, <1>11 DEF Place
  <2>2. UNCHANGED <<who, saved, pass>>
    BY <1>11 DEF Place
  <2> QED BY <2>1, <2>2 DEF OnTheirOwn, Apart, pass
<1>12. ASSUME NEW t \in Titles, NEW r \in Roots, Replace(t, r) PROVE Apart(u)'
  <2>1. Settles(t, r, ~who[t])
    BY <1>12 DEF Replace
  <2>2. /\ u = t => OnTheirOwn(t, r, ~who[t]) /\ path'[u] = r /\ home'[u] = r
        /\ u # t => Apart(u) /\ path'[u] = path[u] /\ home'[u] = home[u]
    BY <1>10, <2>1
  <2>3. saved' = saved /\ pc' = "idle"
    BY <1>12, EndPassFacts DEF Replace
  <2>4. who'[t] = ~who[t] /\ (u # t => who'[u] = who[u])
    BY <1>12 DEF Replace, TypeOK, NativeType
  <2>5. CASE u = t
    BY <2>2, <2>3, <2>4, <2>5 DEF OnTheirOwn, Apart
  <2>6. CASE u # t
    BY <2>2, <2>3, <2>4, <2>6 DEF Apart
  <2> QED BY <2>5, <2>6
<1> QED BY <1>1, <1>2, <1>3, <1>5, <1>6, <1>7, <1>8, <1>9, <1>11, <1>12 DEF Next, Pass, Native

-----------------------------------------------------------------------------
(* Moves given up *)

Over(t) == saved[t] # None /\ saved[t].pending # None /\ GivenUp(t, saved[t].pending)
Whole(t) == Complete(t, saved[t].pending)

LEMMA LeftStep ==
  ASSUME TypeOK, EntriesInv, PhaseInv, PassInv, RoutedStaysOwned, OwnedInv, LeftInv, [Next]_vars
  PROVE  LeftInv'
<1> SUFFICES ASSUME NEW u \in Titles, Over(u)' PROVE Whole(u)'
  BY DEF LeftInv, Over, Whole
<1>a. pc' = "inspect" /\ u \notin left' /\ routed'[u]
  BY DEF Over, GivenUp
<1>b. Over(u) => Whole(u)
  BY DEF LeftInv, Over, Whole
<1>1. CASE LookForCommands \/ List
  BY <1>1, <1>a DEF LookForCommands, List
<1>2. CASE SaveIntent \/ PassDies
  BY <1>2, <1>a, EndPassFacts DEF SaveIntent, PassDies
<1>3. ASSUME NEW d \in Libraries, Ask(d) \/ AskUnheard(d) PROVE FALSE
  BY <1>3, <1>a, EndPassFacts DEF Ask, AskUnheard
<1>4. ASSUME NEW t \in Titles, Tick(t) PROVE FALSE
  BY <1>4, <1>a, TickFacts DEF pass
<1>5. ASSUME NEW t \in Titles, NEW r \in Roots, Replace(t, r) PROVE FALSE
  BY <1>5, <1>a, EndPassFacts DEF Replace
<1>6. ASSUME NEW t \in Titles, Examine(t) PROVE Whole(u)'
  <2>1. PICK e : Inspect(t, e) /\ Inspected(t, e)
    BY <1>6, ExamineFacts
  <2>2. owned'[t] = e /\ \A v \in Titles \ {t} : owned'[v] = owned[v]
    BY <2>1 DEF Inspect, TypeOK, PassType, Journals
  <2>3. pc = "inspect" /\ UNCHANGED <<native, saved, pc, rows, history>> /\ left' = left \ {t}
    BY <2>1 DEF Inspect
  <2>4. CASE u = t
    <3>1. ~touched[u] /\ saved[u] # None /\ saved[u].who = who[u] /\ Calm(u)
      BY <1>a, <2>3 DEF history, OwnedInv, RoutedStaysOwned, PassInv, Concerns
    <3>2. Previous(u) = saved[u] /\ Pending(u) = saved[u].pending
      BY <2>3, <3>1 DEF Previous, Pending, Calm
    <3>3. Arrived(u)
      BY <2>1, <2>2, <2>3, <2>4, <3>1, <3>2
         DEF Inspected, Over, GivenUp, AtDestination, Calm, native
    <3> QED BY <2>3, <3>1, <3>2, <3>3 DEF Arrived, LeftBehind, AtDestination, Whole, Complete, native
  <2>5. CASE u # t
    BY <1>b, <2>2, <2>3, <2>5 DEF Over, Whole, GivenUp, Complete, native, history
  <2> QED BY <2>4, <2>5
\* Nothing native that still runs knows another path than the title's own.
<1>7. ASSUME pc = "inspect", routed[u] PROVE Calm(u)
  BY <1>7 DEF OwnedInv, PassInv, Concerns
<1>8. ASSUME NEW t \in Titles, MoveFiles(t) \/ MoveFails(t) PROVE Whole(u)'
  <2>1. pc = "inspect" /\ routed[u] /\ UNCHANGED <<saved, pass>>
    BY <1>8, <1>a DEF MoveFiles, MoveFails, history, pass
  <2>2. u # t
    BY <1>7, <1>8, <2>1 DEF Calm, MoveFiles, MoveFails
  <2>3. files'[u] = files[u] /\ path'[u] = path[u] /\ UNCHANGED routed
    BY <1>8, <2>2 DEF MoveFiles, MoveFails, history, TypeOK, NativeType
  <2> QED BY <1>b, <2>1, <2>3 DEF Over, Whole, GivenUp, Complete, pass
<1>9. ASSUME NEW t \in Titles, EndRefresh(t) \/ EndImport(t) PROVE Whole(u)'
  <2>1. pc = "inspect" /\ routed[u] /\ UNCHANGED <<saved, pass, routed>>
    BY <1>9, <1>a DEF EndRefresh, EndImport, history, pass
  <2>2. Calm(u)
    BY <1>7, <2>1
  <2>3. path'[u] = path[u] /\ files'[u] \in {files[u], files[u] \cup {path[u]}}
    BY <1>9, <2>2 DEF EndRefresh, EndImport, Calm, TypeOK, NativeType
  <2>4. Over(u) /\ path[u] = saved[u].pending.destination
    BY <2>1, <2>3 DEF Over, GivenUp, pass
  <2>5. saved[u].pending.source # saved[u].pending.destination
    BY <2>4 DEF EntriesInv, Proper, Over
  <2> QED BY <1>b, <2>1, <2>3, <2>4, <2>5 DEF Whole, Complete
<1>10. ASSUME NEW t \in Titles, StartWorker(t) \/ Recertify(t) PROVE Whole(u)'
  BY <1>10, <1>b DEF StartWorker, Recertify, Over, Whole, GivenUp, Complete, pass, history
<1>11. ASSUME NEW t \in Titles, NEW r \in Roots, Place(t, r) PROVE Whole(u)'
  <2>1. u # t /\ path'[u] = path[u] /\ routed'[u] = routed[u]
    BY <1>11, <1>a DEF Place, Settles, TypeOK, NativeType, HistoryType
  <2> QED BY <1>11, <1>b, <2>1 DEF Place, Over, Whole, GivenUp, Complete, pass
<1>12. CASE UNCHANGED vars
  BY <1>12, <1>b DEF vars, native, pass, history, Over, Whole, GivenUp, Complete
<1> QED BY <1>1, <1>2, <1>3, <1>4, <1>5, <1>6, <1>8, <1>9, <1>10, <1>11, <1>12
      DEF Next, Pass, Native
-----------------------------------------------------------------------------
(* The inductive invariant *)

LEMMA InitHolds == ASSUME Init PROVE IInv
<1> USE DEF Init
<1>1. NativeType
  <2>1. files \in [Titles -> SUBSET Roots]
    BY DEF Roots
  <2> QED BY <2>1 DEF NativeType, Nothing
<1>2. PassType /\ saved \in Journals
  BY DEF PassType, Nothing, Journals
<1>3. HistoryType
  BY DEF HistoryType
<1>4. CountersType
  BY RoutingAssumption DEF CountersType
<1>5. EntriesInv /\ PhaseInv /\ PassInv
  BY DEF EntriesInv, Proper, PhaseInv, PassInv, Concerns, Nothing
<1>6. RoutedStaysOwned /\ OwnedInv /\ LeftInv
  BY DEF RoutedStaysOwned, OwnedInv, LeftInv, Nothing
<1>7. HomeInv
  BY DEF HomeInv, Nothing
<1> QED BY <1>1, <1>2, <1>3, <1>4, <1>5, <1>6, <1>7 DEF IInv, TypeOK

LEMMA StepHolds == ASSUME IInv, [Next]_vars PROVE IInv'
BY TypeStep, JournalStep, PassStep, OwnedStep, HomeStep, LeftStep DEF IInv

LEMMA Inductive == Spec => []IInv
BY InitHolds, StepHolds, PTL DEF Spec

\* Every reachable state of the routing job is well typed.
THEOREM TypesHold == Spec => []TypeOK
<1>1. IInv => TypeOK
  BY DEF IInv
<1> QED BY <1>1, Inductive, PTL

\* A title the job moved stays the job's own until the operator moves it: no
\* death, failed request, failed move or stale refresh makes the journal lose it.
THEOREM OwnershipIsKept == Spec => []RoutedStaysOwned
<1>1. IInv => RoutedStaysOwned
  BY DEF IInv
<1> QED BY <1>1, Inductive, PTL

\* The job never asks for a title where the operator put it on their own.
THEOREM PlacedTitlesStay == Spec => []HandPlacedStays
<1>1. IInv => HandPlacedStays
  <2> SUFFICES ASSUME IInv, NEW t \in Titles, home[t] # None, rows[t] # None
               PROVE  asked[t] = None
    BY DEF HandPlacedStays
  <2>1. pc \in {"inspect", "ask"}
    BY DEF IInv, TypeOK, PassType, PhaseInv, Nothing
  <2> QED BY <2>1 DEF IInv, HomeInv
<1> QED BY <1>1, Inductive, PTL

\* The journal gives up a move at its destination only when the files are there
\* and none stayed behind.
THEOREM MovesAreCompleted == Spec => NothingLeftBehind
<1>1. ASSUME IInv, [Next]_vars
      PROVE  [\A t \in Titles : saved[t] # None /\ saved[t].pending # None
                /\ GivesUp(t, saved[t].pending) => Complete(t, saved[t].pending)]_vars
  <2> SUFFICES ASSUME NEW t \in Titles, saved[t] # None, saved[t].pending # None,
                      GivesUp(t, saved[t].pending)
               PROVE  Complete(t, saved[t].pending)
    OBVIOUS
  <2>1. saved[t].pending.source # saved[t].pending.destination
    BY <1>1 DEF IInv, EntriesInv, Proper
  <2>2. saved' # saved
    BY <2>1 DEF GivesUp
  <2>3. CASE SaveIntent
    BY <1>1, <2>3 DEF SaveIntent, GivesUp, GivenUp, IInv, LeftInv
  <2>4. ASSUME NEW u \in Titles, Tick(u) PROVE FALSE
    <3>1. saved'[t].pending # None
          /\ saved'[t].pending.source = saved[t].pending.source
      BY <1>1, <2>4, TickFacts DEF IInv
    <3> QED BY <2>1, <3>1 DEF GivesUp
  <2>5. ASSUME NEW u \in Titles, Examine(u) PROVE FALSE
    BY <1>1, <2>2, <2>5, ExamineEntries DEF IInv, Inspect
  <2>6. ~(LookForCommands \/ List \/ PassDies \/ \E d \in Libraries : Ask(d) \/ AskUnheard(d))
    BY <2>2 DEF LookForCommands, List, PassDies, Ask, AskUnheard, Edited
  <2>7. ASSUME NEW u \in Titles,
               \/ MoveFiles(u) \/ MoveFails(u) \/ StartWorker(u) \/ EndRefresh(u)
               \/ EndImport(u) \/ Recertify(u) \/ \E r \in Roots : Place(u, r) \/ Replace(u, r)
        PROVE  FALSE
    BY <2>2, <2>7
       DEF MoveFiles, MoveFails, StartWorker, EndRefresh, EndImport, Recertify, Place, Replace
  <2>8. ~UNCHANGED vars
    BY <2>2 DEF vars
  <2> QED BY <1>1, <2>3, <2>4, <2>5, <2>6, <2>7, <2>8 DEF Next, Pass, Native
<1> QED BY <1>1, Inductive, PTL DEF Spec, NothingLeftBehind
=============================================================================
