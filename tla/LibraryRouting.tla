---------------------------- MODULE LibraryRouting ----------------------------
(***************************************************************************)
(* The routing job (route_rating.route_library): titles that Radarr or     *)
(* Sonarr keep in the staging root are moved to the library of their       *)
(* certificate, and titles moved that way follow a certificate that        *)
(* changes.  The job remembers in its journal (routing-<label>.json) which *)
(* titles it moved, because outside the staging root nothing else tells    *)
(* them from the titles the operator placed by hand.                       *)
(*                                                                         *)
(* The application owns the path and moves the files by a command of its   *)
(* own; its refreshes and imports work on a title object read earlier.     *)
(***************************************************************************)
EXTENDS Naturals, FiniteSets

CONSTANTS
  Titles,      \* the rows of the application's library
  None,        \* no move, no entry, no request
  MaxFaults,   \* bound: passes that die, requests and moves that fail
  MaxChanges   \* bound: what operator, metadata and native workers do

ASSUME RoutingAssumption == MaxFaults \in Nat /\ MaxChanges \in Nat

VARIABLES
  path,     \* the root the application records for a title
  files,    \* the roots that hold files of it
  cert,     \* the library its certificate asks for
  who,      \* its external id
  worker,   \* the path a running refresh or import read, or None
  moving,   \* the native move command, or None
  saved,    \* the journal
  pc,       \* where the pass is
  rows,     \* the titles as the pass listed them
  left,     \* those it has not inspected yet
  owned,    \* the journal it is going to save
  asked,    \* where it wants a title moved, or None
  routed,   \* history: was it the job that moved the title where it is?
  touched,  \* history: did the operator move it since the pass looked for commands?
  home,     \* history: where the operator put a title the job does not own, or None
  faults, changes

native == <<path, files, cert, who, worker, moving>>
pass == <<pc, rows, left, owned, asked>>
history == <<routed, touched, home>>
vars == <<native, saved, pass, history, faults, changes>>

Staging == "auto"
Libraries == {"kid", "gen"}
Roots == Libraries \cup {Staging, "elsewhere"}
Ages == {"fresh", "waiting", "due"}   \* under 120 s, before and after retryAt

Moves == [from : Roots, to : Roots]
Intents == [source : Roots, destination : Roots, hadFiles : BOOLEAN,
            age : Ages, error : BOOLEAN]
Entries == [who : BOOLEAN, paths : SUBSET Roots, pending : Intents \cup {None}]
Journals == [Titles -> Entries \cup {None}]
Rows == [path : Roots, cert : Libraries, who : BOOLEAN, has : BOOLEAN]

ASSUME NoneAssumption == None \notin Roots \cup Moves \cup Intents \cup Entries \cup Rows

NativeType ==
  /\ path \in [Titles -> Roots] /\ files \in [Titles -> SUBSET Roots]
  /\ cert \in [Titles -> Libraries] /\ who \in [Titles -> BOOLEAN]
  /\ worker \in [Titles -> Roots \cup {None}] /\ moving \in [Titles -> Moves \cup {None}]
PassType ==
  /\ pc \in {"idle", "list", "inspect", "ask"}
  /\ rows \in [Titles -> Rows \cup {None}] /\ left \subseteq Titles
  /\ owned \in Journals /\ asked \in [Titles -> Libraries \cup {None}]
HistoryType ==
  /\ routed \in [Titles -> BOOLEAN] /\ touched \in [Titles -> BOOLEAN]
  /\ home \in [Titles -> Roots \cup {None}]
CountersType == faults \in 0..MaxFaults /\ changes \in 0..MaxChanges

TypeOK == NativeType /\ saved \in Journals /\ PassType /\ HistoryType /\ CountersType

Nothing == [t \in Titles |-> None]

\* Titles in any root, some of them with files there, and an empty journal.
Init ==
  /\ path \in [Titles -> Roots]
  /\ files \in {[t \in Titles |-> IF t \in h THEN {path[t]} ELSE {}] : h \in SUBSET Titles}
  /\ cert \in [Titles -> Libraries] /\ who = [t \in Titles |-> TRUE]
  /\ worker = Nothing /\ moving = Nothing /\ saved = Nothing
  /\ pc = "idle" /\ rows = Nothing /\ left = {} /\ owned = Nothing /\ asked = Nothing
  /\ routed = [t \in Titles |-> FALSE] /\ touched = [t \in Titles |-> FALSE]
  /\ home = [t \in Titles |-> IF path[t] = Staging THEN None ELSE path[t]]
  /\ faults = 0 /\ changes = 0

Fault == faults < MaxFaults /\ faults' = faults + 1
Change == changes < MaxChanges /\ changes' = changes + 1

\* Leaving route_library: nothing of the pass is kept but the journal.
EndPass ==
  pc' = "idle" /\ rows' = Nothing /\ left' = {} /\ owned' = Nothing /\ asked' = Nothing

-----------------------------------------------------------------------------
(* The pass *)

\* A refresh, import or move queued or started: the pass returns at once.
Quiet == \A t \in Titles : worker[t] = None /\ moving[t] = None

\* Fault: running refreshes and imports are not waited for.
LookForNothing ==
  /\ pc = "idle"
  /\ pc' = "list" /\ touched' = [t \in Titles |-> FALSE]
  /\ UNCHANGED <<native, saved, rows, left, owned, asked, routed, home, faults, changes>>

LookForCommands ==
  /\ pc = "idle" /\ Quiet
  /\ pc' = "list" /\ touched' = [t \in Titles |-> FALSE]
  /\ UNCHANGED <<native, saved, rows, left, owned, asked, routed, home, faults, changes>>

List ==
  /\ pc = "list" /\ pc' = "inspect" /\ left' = Titles
  /\ rows' = [t \in Titles |-> [path |-> path[t], cert |-> cert[t], who |-> who[t],
                                has |-> files[t] # {}]]
  /\ UNCHANGED <<native, saved, owned, asked, history, faults, changes>>

\* Fault: the number alone identifies a title.
PreviousByNumber(t) == saved[t]

\* The journal's entry, unless the number now stands for another title.
Previous(t) == IF saved[t] # None /\ saved[t].who = rows[t].who THEN saved[t] ELSE None
Pending(t) == IF Previous(t) = None THEN None ELSE Previous(t).pending

AtDestination(t) == rows[t].path = Pending(t).destination
LeftBehind(t) == Pending(t).source \in files[t]
Arrived(t) ==
  /\ AtDestination(t) /\ ~LeftBehind(t)
  /\ Pending(t).hadFiles => rows[t].path \in files[t]
Known(t) == rows[t].path \in Previous(t).paths

Inspect(t, entry) ==
  /\ pc = "inspect" /\ t \in left /\ left' = left \ {t}
  /\ owned' = [owned EXCEPT ![t] = entry]
  /\ UNCHANGED <<native, saved, pc, rows, history, faults, changes>>

\* A manual move relinquishes automatic ownership.
Relinquish(t) ==
  /\ t \in left /\ Pending(t) # None /\ ~Arrived(t) /\ ~Known(t) /\ ~AtDestination(t)
  /\ Inspect(t, None) /\ UNCHANGED asked

Unfinished(t) ==
  /\ t \in left /\ Pending(t) # None /\ ~Arrived(t) /\ (Known(t) \/ AtDestination(t))

TooEarly(t) ==
  /\ Unfinished(t) /\ Pending(t).age = "fresh"
  /\ Inspect(t, Previous(t)) /\ UNCHANGED asked

\* Fault: the report is made on a copy.
WithoutError(t, e) == Previous(t)

WithError(t, e) == [Previous(t) EXCEPT !.pending.error = e]

\* A move that began since the pass looked for commands; past 900 s it is reported.
StillMoving(t) ==
  /\ Unfinished(t) /\ Pending(t).age # "fresh" /\ moving[t] # None
  /\ \E e \in {TRUE, Pending(t).error} : Inspect(t, WithError(t, e))
  /\ UNCHANGED asked

\* Never submit a move from a new path while the old payload remains.
Late(t) == Unfinished(t) /\ Pending(t).age # "fresh" /\ moving[t] = None
\* Fault: a due move is asked for again from wherever the title is.
MayRetryAnywhere(t) == Pending(t).age = "due"

MayRetry(t) == ~AtDestination(t) /\ Pending(t).age = "due"

Report(t) ==
  /\ Late(t) /\ ~MayRetry(t)
  /\ Inspect(t, WithError(t, TRUE)) /\ UNCHANGED asked

-----------------------------------------------------------------------------
(* What is left of the inspection once no move is pending, or one is due *)

Free(t) == Pending(t) # None => Arrived(t)
\* An arrived title is known by its new path alone.
Ours(t) ==
  \/ rows[t].path = Staging
  \/ Pending(t) # None /\ Arrived(t)
  \/ Previous(t) # None /\ Known(t)
Judged(t) == t \in left /\ (Free(t) \/ (Late(t) /\ MayRetry(t)))

Ignore(t) == Judged(t) /\ ~Ours(t) /\ Inspect(t, None) /\ UNCHANGED asked

Stay(t) ==
  /\ Judged(t) /\ Ours(t) /\ rows[t].path = rows[t].cert
  /\ Inspect(t, [who |-> rows[t].who, paths |-> {rows[t].path}, pending |-> None])
  /\ UNCHANGED asked

Intent(t) ==
  [source |-> rows[t].path, destination |-> rows[t].cert,
   hadFiles |-> rows[t].has \/ rows[t].path \in files[t],
   age |-> "fresh", error |-> ~Free(t)]

Intend(t) ==
  /\ Judged(t) /\ Ours(t) /\ rows[t].path # rows[t].cert
  /\ Inspect(t, [who |-> rows[t].who, paths |-> {rows[t].path, rows[t].cert},
                 pending |-> Intent(t)])
  /\ asked' = [asked EXCEPT ![t] = rows[t].cert]

Wanted == {asked[t] : t \in Titles} \ {None}

\* Intent is saved before moving.
SaveIntent ==
  /\ pc = "inspect" /\ left = {} /\ saved' = owned
  /\ IF Wanted = {} THEN EndPass
     ELSE pc' = "ask" /\ UNCHANGED <<rows, left, owned, asked>>
  /\ UNCHANGED <<native, history, faults, changes>>

-----------------------------------------------------------------------------
(* The editor request of one destination *)

\* The application changes the paths and queues a command that moves the files.
Edited(d) ==
  LET sent == {t \in Titles : asked[t] = d} IN
  /\ path' = [t \in Titles |-> IF t \in sent THEN d ELSE path[t]]
  /\ moving' = [t \in Titles |-> IF t \in sent /\ path[t] # d
                                 THEN [from |-> path[t], to |-> d] ELSE moving[t]]
  /\ routed' = [t \in Titles |-> IF t \in sent THEN ~touched[t] ELSE routed[t]]
  /\ home' = [t \in Titles |-> IF t \in sent THEN None ELSE home[t]]
  /\ UNCHANGED <<files, cert, who, worker, saved, touched, changes>>

Ask(d) ==
  /\ pc = "ask" /\ d \in Wanted /\ Edited(d)
  /\ IF Wanted = {d} THEN EndPass
     ELSE /\ asked' = [t \in Titles |-> IF asked[t] = d THEN None ELSE asked[t]]
          /\ UNCHANGED <<pc, rows, left, owned>>
  /\ UNCHANGED faults

\* The request is carried out, but the answer is lost: the pass raises.
AskUnheard(d) == pc = "ask" /\ d \in Wanted /\ Fault /\ Edited(d) /\ EndPass

\* A request that fails, a job past its deadline, a container that stops.
PassDies ==
  /\ pc # "idle" /\ Fault /\ EndPass
  /\ UNCHANGED <<native, saved, history, changes>>

\* The clock; a pass reads it once.
Older(a) == IF a = "fresh" THEN "waiting" ELSE "due"
Tick(t) ==
  /\ pc = "idle" /\ saved[t] # None /\ saved[t].pending # None
  /\ saved[t].pending.age # "due"
  /\ saved' = [saved EXCEPT ![t].pending.age = Older(@)]
  /\ UNCHANGED <<native, pass, history, faults, changes>>

-----------------------------------------------------------------------------
(* The application *)

MoveFiles(t) ==
  /\ moving[t] # None /\ moving' = [moving EXCEPT ![t] = None]
  /\ files' = [files EXCEPT ![t] =
       IF moving[t].from \in @ THEN (@ \ {moving[t].from}) \cup {moving[t].to} ELSE @]
  /\ UNCHANGED <<path, cert, who, worker, saved, pass, history, faults, changes>>

\* The files stay, perhaps with a part of them copied; the path may be put back.
MoveFails(t) ==
  /\ moving[t] # None /\ Fault /\ moving' = [moving EXCEPT ![t] = None]
  /\ \E part \in {{}, {moving[t].to}} :
       files' = [files EXCEPT ![t] = IF moving[t].from \in @ THEN @ \cup part ELSE @]
  /\ \/ UNCHANGED <<path, home>>
     \/ path' = [path EXCEPT ![t] = moving[t].from] /\ home' = [home EXCEPT ![t] = None]
  /\ UNCHANGED <<cert, who, worker, saved, pass, routed, touched, changes>>

StartWorker(t) ==
  /\ worker[t] = None /\ Change /\ worker' = [worker EXCEPT ![t] = path[t]]
  /\ UNCHANGED <<path, files, cert, who, moving, saved, pass, history, faults>>

\* A refresh writes the whole title back, with the path it read.
EndRefresh(t) ==
  /\ worker[t] # None /\ worker' = [worker EXCEPT ![t] = None]
  /\ path' = [path EXCEPT ![t] = worker[t]]
  /\ home' = [home EXCEPT ![t] = IF @ = worker[t] THEN @ ELSE None]
  /\ UNCHANGED <<files, cert, who, moving, saved, pass, routed, touched, faults, changes>>

EndImport(t) ==
  /\ worker[t] # None /\ worker' = [worker EXCEPT ![t] = None]
  /\ files' = [files EXCEPT ![t] = @ \cup {worker[t]}]
  /\ UNCHANGED <<path, cert, who, moving, saved, pass, history, faults, changes>>

\* Metadata arrives late or is corrected; an empty certificate asks for "gen".
Recertify(t) ==
  /\ Change /\ cert' = [cert EXCEPT ![t] = IF @ = "kid" THEN "gen" ELSE "kid"]
  /\ UNCHANGED <<path, files, who, worker, moving, saved, pass, history, faults>>

-----------------------------------------------------------------------------
(* The operator *)

\* A root the journal does not connect the title with, chosen while no pass
\* is between its listing and its last request.
OnTheirOwn(t, r, id) ==
  /\ r # Staging /\ pc \in {"idle", "list"}
  /\ saved[t] # None /\ saved[t].who = id => r \notin saved[t].paths

Settles(t, r, id) ==
  /\ path' = [path EXCEPT ![t] = r]
  /\ routed' = [routed EXCEPT ![t] = FALSE] /\ touched' = [touched EXCEPT ![t] = TRUE]
  /\ home' = [home EXCEPT ![t] = IF OnTheirOwn(t, r, id) THEN r ELSE None]

\* The application's own editor: it moves the files, or the operator does later.
Place(t, r) ==
  /\ r # path[t] /\ moving[t] = None /\ Change /\ Settles(t, r, who[t])
  /\ moving' \in {moving, [moving EXCEPT ![t] = [from |-> path[t], to |-> r]]}
  /\ UNCHANGED <<files, cert, who, worker, saved, pass, faults>>

\* A restored database: the same number, another title.  Requests of the
\* running pass fail.
Replace(t, r) ==
  /\ worker[t] = None /\ moving[t] = None /\ Change /\ Settles(t, r, ~who[t])
  /\ who' = [who EXCEPT ![t] = ~@]
  /\ files' \in {[files EXCEPT ![t] = h] : h \in {{}, {r}}}
  /\ EndPass /\ UNCHANGED <<cert, worker, moving, saved, faults>>

-----------------------------------------------------------------------------
Examine(t) ==
  Relinquish(t) \/ TooEarly(t) \/ StillMoving(t) \/ Report(t) \/ Ignore(t) \/ Stay(t) \/ Intend(t)
Pass ==
  \/ LookForCommands \/ List \/ SaveIntent
  \/ \E t \in Titles : Examine(t)
  \/ \E d \in Libraries : Ask(d)
Native(t) == MoveFiles(t) \/ EndRefresh(t) \/ EndImport(t)

Next ==
  \/ Pass \/ PassDies
  \/ \E d \in Libraries : AskUnheard(d)
  \/ \E t \in Titles :
       \/ Native(t) \/ Tick(t) \/ MoveFails(t) \/ StartWorker(t) \/ Recertify(t)
       \/ \E r \in Roots : Place(t, r) \/ Replace(t, r)

Spec == Init /\ [][Next]_vars
-----------------------------------------------------------------------------
(* Safety *)

\* A title stays the job's own from the request that moved it until the operator
\* moves it: neither a death between intent, request and observation nor a
\* refresh that writes an old path back makes the journal lose it (source 246).
RoutedStaysOwned ==
  \A t \in Titles : routed[t] =>
    saved[t] # None /\ saved[t].who = who[t] /\ path[t] \in saved[t].paths

\* "A manual move relinquishes automatic ownership" (source 178): where the
\* operator put a title on their own, no pass asks for it to be moved, whatever
\* the journal held of it before and whatever its certificate becomes.
HandPlacedStays ==
  \A t \in Titles :
    home[t] # None /\ rows[t] # None /\ rows[t].path = home[t] => asked[t] = None

\* "Never submit a move from a new path while old payload remains" (source 219),
\* nor take such a move for finished: when the journal gives up a move of a
\* title that is at its destination, its files are there and none stayed behind.
GivesUp(t, p) ==
  /\ routed[t] /\ path[t] = p.destination /\ saved'[t] # None
  /\ saved'[t].pending = None \/ saved'[t].pending.source = p.destination
Complete(t, p) ==
  p.source \notin files[t] /\ (p.hadFiles => p.destination \in files[t])
NothingLeftBehind ==
  [][\A t \in Titles : saved[t] # None /\ saved[t].pending # None /\ GivesUp(t, saved[t].pending)
       => Complete(t, saved[t].pending)]_vars

-----------------------------------------------------------------------------
(* Liveness *)

\* The controller runs the job again and again, the clock goes on between
\* passes, and native commands end.
Fairness ==
  /\ WF_vars(Pass)
  /\ \A t \in Titles : WF_vars(Native(t)) /\ SF_vars(Tick(t))
FairSpec == Spec /\ Fairness

\* Once the disturbances end, every title that is the job's own is in the
\* library of its certificate with no move pending, or its move is reported as
\* one that needs attention.
Settled(t) == saved[t] # None /\ saved[t].pending = None /\ path[t] = cert[t]
Reported(t) == saved[t] # None /\ saved[t].pending # None /\ saved[t].pending.error
Automatic(t) == path[t] = Staging \/ routed[t]
RoutedOrReported == \A t \in Titles : <>[](Automatic(t) => Settled(t) \/ Reported(t))
=============================================================================
