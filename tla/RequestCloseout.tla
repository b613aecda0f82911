--------------------------- MODULE RequestCloseout ---------------------------
(***************************************************************************)
(* Closing out withdrawn requests (request_policy.reconcile_requests): the *)
(* requests job reads Seerr's paginated request list twice, compares it    *)
(* with the titles it once saw requested, and stops the monitoring and the *)
(* queued searches of what nobody requests any more.                       *)
(*                                                                         *)
(* Seerr, the two applications and their user change while the job reads,  *)
(* page by page and title by title; the job may die or meet a failed call  *)
(* at every step, and only its last step saves what it owns.  It runs      *)
(* under stack.lock, as does the user's acceptance of a new history.       *)
(*                                                                         *)
(* A title is one external identity and a slot one number of an            *)
(* application, which a restored database may give to another title.       *)
(***************************************************************************)
EXTENDS Naturals, FiniteSets

CONSTANTS
  Titles, Series,  \* external identities; those of Sonarr, the others movies
  Slots, Shows,    \* native numbers; those of Sonarr
  Seasons,
  Requestable,     \* what users may ask for with each request
  PageSize,        \* rows of a page (50 in the code)
  NewestFirst,     \* the order of the list, which the code leaves to Seerr
  MassFloor, MassLimit, \* titles missing together (3 and 20 in the code)
  Recorded,        \* instances that may be on record at first, or none
  MaxRequests,     \* bound: requests ever made
  MaxDisturbances, \* bound: deaths, failed calls, edits, replaced databases
  None, Unknown, Whole \* no value; no season list; a search of the whole title

Ids == 1 .. MaxRequests
Wanted == {Unknown} \cup SUBSET Seasons
Content == [title : {None} \cup Titles, seasons : Wanted,
            state : {"open", "declined", "odd"}]
Row == [title : Titles, on : BOOLEAN, future : BOOLEAN, seasons : SUBSET Seasons]
Claim == [title : Titles, seasons : Wanted]
\* A queued command that searches a title, or a season of a show: "alone" if it
\* names that title's number and no other, and not episodes by their own.
Search == [slot : Slots, target : Seasons \cup {Whole}, alone : BOOLEAN]

ASSUME CloseoutAssumption ==
  /\ Series \subseteq Titles /\ Shows \subseteq Slots
  /\ IsFiniteSet(Slots)
  /\ Requestable \in [Ids -> SUBSET Content]
  /\ PageSize \in Nat \ {0} /\ NewestFirst \in BOOLEAN
  /\ MassFloor \in Nat /\ MassLimit \in Nat /\ Recorded \subseteq {None, 1}
  /\ MaxRequests \in Nat /\ MaxDisturbances \in Nat
  /\ None \notin Titles \cup Slots \cup Nat /\ Whole \notin Seasons
  /\ \A v \in Content \cup Row \cup Claim : v # None
  /\ \A S \in SUBSET Seasons : S # Unknown

VARIABLES
  \* Seerr
  created,   \* requests made so far
  request,   \* the request of each identity, or none
  instance,  \* the clientId of its settings
  \* the applications
  library,   \* the row of each slot, or none
  searches,  \* the search commands in the queue
  \* requests.json
  ledger,    \* the titles owned, the instance, and whether a review is due
  origin,    \* the instance whose list the titles owned come from (history)
  \* the pass
  pc,
  rows,      \* what the snapshot being read holds so far
  before,    \* the first snapshot
  total,     \* the count its first page named
  floor,     \* requests made when the present snapshot was begun
  client,    \* the instance read from the settings
  kind,      \* the application at work
  view,      \* its title list as the pass read it
  todo, kept, closing, \* slots to do, what will be owned, the slot being closed
  source,    \* the instance whose list the pass agreed on (history)
  disturbances

seerr == <<created, request, instance>>
arr == <<library, searches>>
record == <<ledger, origin>>
evidence == <<rows, before, total, floor>>
work == <<client, kind, view, todo, kept, closing, source>>
vars == <<created, request, instance, library, searches, ledger, origin, pc,
          rows, before, total, floor, client, kind, view, todo, kept, closing,
          source, disturbances>>

-----------------------------------------------------------------------------
NoRequests == [i \in Ids |-> None]
Nothing == [s \in Slots |-> None]
KindOf(s) == IF s \in Shows THEN "series" ELSE "movie"
Acting == {"list", "title", "cancel"}
Targets == Seasons \cup {Whole}

\* The world, and what a pass holds and forgets when it leaves.
WorldType ==
  /\ created \in 0 .. MaxRequests
  /\ request \in [Ids -> {None} \cup Content] /\ instance \in Nat
  /\ library \in [Slots -> {None} \cup Row]
  /\ searches \in SUBSET Search
  /\ ledger \in [owned : [Slots -> {None} \cup Claim],
                 instance : {None} \cup Nat, review : BOOLEAN]
  /\ origin \in {None} \cup Nat /\ disturbances \in Nat
PassType ==
  /\ pc \in {"idle", "first", "second", "guard"} \cup Acting
  /\ rows \in [Ids -> {None} \cup Content]
  /\ before \in [Ids -> {None} \cup Content]
  /\ total \in {None} \cup Nat /\ floor \in 0 .. MaxRequests
  /\ client \in {None} \cup Nat /\ kind \in {"movie", "series"}
  /\ view \in [Slots -> {None} \cup Row] /\ todo \in SUBSET Slots
  /\ kept \in [Slots -> {None} \cup Claim] /\ closing \in {None} \cup Slots
  /\ source \in {None} \cup Nat
TypeOK == PassType /\ WorldType

Init ==
  /\ created = 0 /\ request = NoRequests /\ instance = 1
  /\ library = Nothing /\ searches = {}
  /\ \E recorded \in Recorded :
       ledger = [owned |-> Nothing, instance |-> recorded, review |-> FALSE]
  /\ origin = ledger.instance
  /\ pc = "idle" /\ rows = NoRequests /\ before = NoRequests
  /\ total = None /\ floor = 0
  /\ client = None /\ kind = "movie" /\ view = Nothing /\ todo = {}
  /\ kept = Nothing /\ closing = None /\ source = None
  /\ disturbances = 0

-----------------------------------------------------------------------------
(* Reading the list *)

Present == {i \in Ids : request[i] # None}
Read == {i \in Ids : rows[i] # None}
Least(m, n) == IF m < n THEN m ELSE n
Precedes(I, J) ==
  \A i \in I, j \in J : IF NewestFirst THEN i > j ELSE i < j

\* The rows from position skip on: those before them, and those after.
IsPage(batch, skip) ==
  \E earlier \in SUBSET Present :
    LET later == Present \ (earlier \cup batch)
        count == Cardinality(Present) IN
    /\ Cardinality(earlier) = Least(skip, count)
    /\ Cardinality(batch) = Least(PageSize, count - Cardinality(earlier))
    /\ earlier \cap batch = {}
    /\ Precedes(earlier, batch) /\ Precedes(earlier \cup batch, later)

\* The pass ends, by its end or by an exception; its memory is gone.
Leave ==
  /\ pc' = "idle" /\ rows' = NoRequests /\ before' = NoRequests
  /\ total' = None /\ floor' = 0
  /\ client' = None /\ kind' = "movie" /\ view' = Nothing /\ todo' = {}
  /\ kept' = Nothing /\ closing' = None /\ source' = None

Start ==
  /\ pc = "idle" /\ pc' = "first" /\ floor' = created
  /\ UNCHANGED <<seerr, arr, record, rows, before, total, work, disturbances>>

\* A first page, or one whose count and rows fit those already read.
Fits(batch) == total \in {None, Cardinality(Present)} /\ batch \cap Read = {}

Page(batch) == IsPage(batch, Cardinality(Read)) /\ Fits(batch)
WithPage(batch) == [i \in Ids |-> IF i \in batch THEN request[i] ELSE rows[i]]

\* A page that is not full ends the list, of which every row must be read.
Last(batch) ==
  /\ Cardinality(batch) < PageSize
  /\ Cardinality(Present) = Cardinality(Read) + Cardinality(batch)

ReadPage ==
  /\ pc \in {"first", "second"}
  /\ \E batch \in SUBSET Present :
       Page(batch) /\ Cardinality(batch) = PageSize /\ rows' = WithPage(batch)
  /\ total' = Cardinality(Present)
  /\ UNCHANGED <<seerr, arr, record, pc, before, floor, work, disturbances>>

\* "Invalid or unstable pagination", "list changed", "truncated".
ReadUnstable ==
  /\ pc \in {"first", "second"}
  /\ \A batch \in SUBSET Present :
       Page(batch) => Cardinality(batch) < PageSize /\ ~Last(batch)
  /\ Leave
  /\ UNCHANGED <<seerr, arr, record, disturbances>>

\* Fault: one snapshot is believed.
EndFirstAlone ==
  /\ pc = "first"
  /\ \E batch \in SUBSET Present :
       Page(batch) /\ Last(batch) /\ rows' = WithPage(batch)
  /\ pc' = "guard" /\ source' = instance
  /\ UNCHANGED <<seerr, arr, record, before, total, floor, client, kind, view,
                 todo, kept, closing, disturbances>>

EndFirst ==
  /\ pc = "first"
  /\ \E batch \in SUBSET Present :
       Page(batch) /\ Last(batch) /\ before' = WithPage(batch)
  /\ pc' = "second" /\ rows' = NoRequests /\ total' = None /\ floor' = created
  /\ UNCHANGED <<seerr, arr, record, work, disturbances>>

\* The two snapshots agree row by row, or the pass waits for the next turn.
EndSecond ==
  /\ pc = "second"
  /\ \E batch \in SUBSET Present :
       /\ Page(batch) /\ Last(batch)
       /\ \/ /\ WithPage(batch) = before
             /\ rows' = before /\ pc' = "guard" /\ source' = instance
             /\ UNCHANGED <<before, total, floor, client, kind, view, todo,
                            kept, closing>>
          \/ WithPage(batch) # before /\ Leave
  /\ UNCHANGED <<seerr, arr, record, disturbances>>

-----------------------------------------------------------------------------
(* What the agreed list says *)

Listed == {rows[i] : i \in Read}
Active == {r.title : r \in {r \in Listed : r.state = "open"}} \ {None}
Uncertain ==
  LET odd == {r \in Listed : r.state = "odd" \/ r.title = None} IN
  {k \in {"movie", "series"} :
     \E r \in odd : r.title = None \/ (r.title \in Series <=> k = "series")}

\* Fault: one request of a show speaks for the others.
RequestedSeasonsOfOne(t) ==
  LET wanted == {r.seasons : r \in {r \in Listed : r.title = t /\ r.state = "open"}} IN
  IF wanted = {} THEN {} ELSE CHOOSE seasons \in wanted : TRUE

\* The union of the seasons of a show's requests, if all of them name some.
RequestedSeasons(t) ==
  LET wanted == {r.seasons : r \in {r \in Listed : r.title = t /\ r.state = "open"}} IN
  IF Unknown \in wanted THEN Unknown ELSE UNION wanted

\* Fault: a replaced history is taken for many withdrawals.
CloseoutGuardOfMass(now) ==
  LET owned == {s \in Slots : ledger.owned[s] # None}
      missing == {s \in owned : ledger.owned[s].title \notin Active} IN
  Cardinality(missing) >= MassLimit

\* Another instance, or a large disappearance: uncertain evidence.
CloseoutGuard(now) ==
  LET owned == {s \in Slots : ledger.owned[s] # None}
      missing == {s \in owned : ledger.owned[s].title \notin Active} IN
  \/ ledger.instance \notin {None, now}
  \/ Cardinality(missing) >= MassLimit
  \/ /\ Cardinality(missing) >= MassFloor
     /\ 2 * Cardinality(missing) >= Cardinality(owned)

Guard ==
  /\ pc = "guard"
  /\ IF ledger.review \/ CloseoutGuard(instance)
     THEN ledger' = [ledger EXCEPT !.review = TRUE] /\ Leave
     ELSE /\ pc' = "list" /\ client' = instance
          /\ UNCHANGED <<ledger, evidence, kind, view, todo, kept, closing, source>>
  /\ UNCHANGED <<seerr, arr, origin, disturbances>>

-----------------------------------------------------------------------------
(* Title by title *)

\* The title list of an application.
ListTitles(k) ==
  /\ pc' = "title" /\ kind' = k
  /\ view' = [s \in Slots |-> IF KindOf(s) = k THEN library[s] ELSE None]
  /\ todo' = {s \in Slots : KindOf(s) = k /\ library[s] # None}
  /\ UNCHANGED <<seerr, arr, record, evidence, client, kept, closing, source,
                 disturbances>>

List == pc = "list" /\ ListTitles("movie")

Covered(s) == view[s].title \in Active

\* What was seen requested under this number, unless another title has it now.
Prior(s) ==
  LET claim == ledger.owned[s] IN
  IF claim # None /\ claim.title = view[s].title THEN claim ELSE None
PriorSeasons(s) == IF Prior(s) = None THEN Unknown ELSE Prior(s).seasons

\* The claim of a title requested now.
Claimed(s) ==
  LET seasons == IF kind = "series" THEN RequestedSeasons(view[s].title) ELSE Unknown IN
  [title |-> view[s].title,
   seasons |-> IF seasons # Unknown THEN seasons ELSE PriorSeasons(s)]

\* Fault: a title that is still requested keeps all its seasons.
RemovedUncovered(s) ==
  IF Prior(s) = None \/ kind \in Uncertain \/ Covered(s) THEN {}
  ELSE IF kind = "movie" THEN {Whole}
  ELSE IF PriorSeasons(s) = Unknown THEN {} ELSE PriorSeasons(s)

\* What must no longer be monitored: nothing while the evidence is uncertain,
\* the whole of a movie, the seasons a show has lost.
Removed(s) ==
  IF Prior(s) = None \/ kind \in Uncertain THEN {}
  ELSE IF kind = "movie" THEN IF Covered(s) THEN {} ELSE {Whole}
  ELSE IF Unknown \in {PriorSeasons(s), RequestedSeasons(view[s].title)} THEN {}
  ELSE PriorSeasons(s) \ RequestedSeasons(view[s].title)

\* No decision: uncertain evidence, or a claim whose seasons were never known.
Undecided(s) ==
  LET known == Unknown \notin {PriorSeasons(s), RequestedSeasons(view[s].title)} IN
  IF Covered(s) THEN kind = "series" /\ known /\ kind \in Uncertain
  ELSE kind \in Uncertain \/ (kind = "series" /\ PriorSeasons(s) = Unknown)

\* What the pass will own.
Kept(s) ==
  IF Prior(s) # None /\ Undecided(s) THEN Prior(s)
  ELSE IF Covered(s) THEN Claimed(s) ELSE None

\* The row as the pass writes it: a show nobody requests, with no season left,
\* is switched off and takes no new seasons.
Updated(s) ==
  LET left == view[s].seasons \ Removed(s) IN
  IF kind = "movie" THEN [view[s] EXCEPT !.on = FALSE]
  ELSE IF ~Covered(s) /\ left = {}
  THEN [view[s] EXCEPT !.seasons = left, !.on = FALSE, !.future = FALSE]
  ELSE [view[s] EXCEPT !.seasons = left]

Skip(s) ==
  /\ pc = "title" /\ s \in todo /\ Removed(s) = {}
  /\ kept' = [kept EXCEPT ![s] = Kept(s)] /\ todo' = todo \ {s}
  /\ UNCHANGED <<seerr, arr, record, pc, evidence, client, kind, view, closing,
                 source, disturbances>>

\* The whole row is put back with what was removed switched off.
Put(s) ==
  /\ pc = "title" /\ s \in todo /\ Removed(s) # {}
  /\ library' = IF Updated(s) = view[s] THEN library
                ELSE [library EXCEPT ![s] = Updated(s)]
  /\ kept' = [kept EXCEPT ![s] = Kept(s)] /\ todo' = todo \ {s}
  /\ pc' = "cancel" /\ closing' = s
  /\ UNCHANGED <<seerr, searches, record, evidence, client, kind, view, source,
                 disturbances>>

\* Searches of what was removed, or all of a title that is switched off.
Doomed(s) == IF Updated(s).on THEN Removed(s) ELSE Targets

\* Fault: a row that is switched off already is passed over.
CancelledIfChanged(s) ==
  IF Updated(s) = view[s] THEN {}
  ELSE {c \in searches : c.alone /\ c.slot = s /\ c.target \in Doomed(s)}

\* What is cancelled for a title: the commands that name it and nothing else.
Cancelled(s) == {c \in searches : c.alone /\ c.slot = s /\ c.target \in Doomed(s)}

\* The queued commands are read and those of the title deleted.
Cancel ==
  /\ pc = "cancel" /\ pc' = "title"
  /\ searches' = searches \ Cancelled(closing)
  /\ closing' = None
  /\ UNCHANGED <<seerr, library, record, evidence, client, kind, view, todo,
                 kept, source, disturbances>>

NextKind ==
  pc = "title" /\ todo = {} /\ kind = "movie" /\ ListTitles("series")

\* Only now is ownership saved: a pass that died closes the same titles again.
Save ==
  /\ pc = "title" /\ todo = {} /\ kind = "series"
  /\ ledger' = [owned |-> kept, instance |-> client, review |-> FALSE]
  /\ origin' = source /\ Leave
  /\ UNCHANGED <<seerr, arr, disturbances>>

\* The job dies, or a call fails; what was put stays, and so do some deletions.
Abort ==
  /\ pc # "idle" /\ disturbances < MaxDisturbances
  /\ \E gone \in SUBSET searches :
       /\ IF pc = "cancel" THEN gone \subseteq Cancelled(closing) ELSE gone = {}
       /\ searches' = searches \ gone
  /\ Leave /\ disturbances' = disturbances + 1
  /\ UNCHANGED <<seerr, library, record>>

\* The user accepts the present history for the review (pompey_diagnostics).
Rebaseline ==
  /\ pc = "idle" /\ ledger.review
  /\ ledger' = [owned |-> Nothing, instance |-> instance, review |-> FALSE]
  /\ origin' = instance
  /\ UNCHANGED <<seerr, arr, pc, evidence, work, disturbances>>

-----------------------------------------------------------------------------
(* Seerr, the applications and their user (external) *)

passmemory == <<pc, evidence, client, kind, view, todo, kept, closing, source>>

\* A request is made and approved: its title is added, monitored and searched.
Request(c) ==
  /\ created < MaxRequests /\ created' = created + 1
  /\ c \in Requestable[created + 1]
  /\ request' = [request EXCEPT ![created + 1] = c]
  /\ \/ /\ c.state # "open" \/ c.title = None
        /\ UNCHANGED arr
     \/ /\ c.state = "open" /\ c.title # None
        /\ \E s \in Slots :
             LET wanted == IF c.seasons = Unknown THEN {} ELSE c.seasons
                 had == IF library[s] = None THEN {} ELSE library[s].seasons IN
             /\ (s \in Shows) = (c.title \in Series)
             /\ \/ library[s] # None /\ library[s].title = c.title
                \/ /\ library[s] = None
                   /\ \A r \in Slots : library[r] # None => library[r].title # c.title
             /\ library' = [library EXCEPT ![s] =
                  [title |-> c.title, on |-> TRUE, future |-> TRUE,
                   seasons |-> had \cup wanted]]
             /\ searches' = searches \cup
                  [slot : {s}, target : IF wanted = {} THEN {Whole} ELSE wanted,
                   alone : {TRUE}]
  /\ UNCHANGED <<instance, record, passmemory, disturbances>>

Withdraw(i) ==
  /\ request[i] # None /\ request' = [request EXCEPT ![i] = None]
  /\ UNCHANGED <<created, instance, arr, record, passmemory, disturbances>>

Decline(i) ==
  /\ request[i] # None /\ request[i].state = "open"
  /\ disturbances < MaxDisturbances /\ disturbances' = disturbances + 1
  /\ request' = [request EXCEPT ![i].state = "declined"]
  /\ UNCHANGED <<created, instance, arr, record, passmemory>>

\* Seerr is set up anew: another client identity, an empty history.
Reinstall ==
  /\ disturbances < MaxDisturbances /\ disturbances' = disturbances + 1
  /\ instance' = instance + 1 /\ request' = NoRequests
  /\ UNCHANGED <<created, arr, record, passmemory>>

\* The user changes what is monitored.
Edit(s) ==
  /\ library[s] # None /\ disturbances < MaxDisturbances
  /\ \/ library' = [library EXCEPT ![s].on = ~@]
     \/ s \in Shows /\ \E n \in Seasons :
          library' = [library EXCEPT ![s].seasons =
                        IF n \in @ THEN @ \ {n} ELSE @ \cup {n}]
  /\ disturbances' = disturbances + 1
  /\ UNCHANGED <<seerr, searches, record, passmemory>>

\* The application, or its user, queues a search, and begins one.
QueueSearch(c) ==
  /\ library[c.slot] # None /\ disturbances < MaxDisturbances
  /\ c.target = Whole \/ c.slot \in Shows
  /\ c \notin searches /\ searches' = searches \cup {c}
  /\ disturbances' = disturbances + 1
  /\ UNCHANGED <<seerr, library, record, passmemory>>

BeginSearch(c) ==
  /\ c \in searches /\ searches' = searches \ {c}
  /\ disturbances < MaxDisturbances /\ disturbances' = disturbances + 1
  /\ UNCHANGED <<seerr, library, record, passmemory>>

\* An older database: the number is another title's or nobody's.  The
\* application restarts, and a pass that needs it fails.
Restore(s) ==
  /\ disturbances < MaxDisturbances /\ disturbances' = disturbances + 1
  /\ \E t \in {None} \cup {t \in Titles : t \in Series <=> s \in Shows} :
       library' = [library EXCEPT ![s] =
         IF t = None THEN None
         ELSE [title |-> t, on |-> TRUE, future |-> TRUE, seasons |-> {}]]
  /\ \A r, u \in Slots :
       library'[r] # None /\ library'[u] # None /\ r # u
         => library'[r].title # library'[u].title
  /\ searches' = {c \in searches : c.slot # s}
  /\ Leave
  /\ UNCHANGED <<seerr, record>>

-----------------------------------------------------------------------------
PassStep ==
  \/ Start \/ ReadPage \/ ReadUnstable \/ EndFirst \/ EndSecond
  \/ Guard \/ List \/ Cancel \/ NextKind \/ Save
  \/ \E s \in Slots : Skip(s) \/ Put(s)

Environment ==
  \/ \E c \in Content : Request(c)
  \/ \E i \in Ids : Withdraw(i) \/ Decline(i)
  \/ Reinstall \/ Rebaseline
  \/ \E s \in Slots : Edit(s) \/ Restore(s)
  \/ \E c \in Search : QueueSearch(c) \/ BeginSearch(c)

Next == PassStep \/ Abort \/ Environment

\* The controller starts the job every interval, and a pass that meets no
\* fault goes on.
Fairness == WF_vars(PassStep)

Spec == Init /\ [][Next]_vars
FairSpec == Spec /\ Fairness

-----------------------------------------------------------------------------
(* Properties *)

\* Once a pass acts, no request that stands since its second snapshot began is
\* missing from the list it works from, however pages shifted under it.
SnapshotIsComplete ==
  pc \in {"guard"} \cup Acting =>
    \A i \in 1 .. floor : request[i] # None => rows[i] # None

\* A pass acts on the list of the Seerr history whose requests it owns titles
\* by (reconcile_requests lines 99-130): the list of a Seerr set up anew is no
\* evidence against titles of the old one.  It holds once an instance is on record
\* (None \notin Recorded): on the first pass the identity, read after the list (line
\* 118), is compared with nothing, and may be that of the next history.
OneHistory == pc \in Acting /\ ledger.owned # Nothing => origin = source

\* Request i stands and asks for target x of title t.
Asks(i, t, x) ==
  /\ request[i] # None /\ request[i].state = "open" /\ request[i].title = t
  /\ x = Whole \/ request[i].seasons = Unknown \/ x \in request[i].seasons

Owns(s, x) ==
  /\ ledger.owned[s] # None /\ library[s] # None
  /\ ledger.owned[s].title = library[s].title
  /\ \/ x = Whole /\ s \notin Shows
     \/ ledger.owned[s].seasons # Unknown /\ x \in ledger.owned[s].seasons

On(row, x) == IF x = Whole THEN row.on ELSE x \in row.seasons

\* A pass switches off nothing that it did not own, and nothing that a request
\* made before its second snapshot still asks for: in titles that nobody has
\* edited since it listed them.
CancelsOnlyWithdrawn ==
  [][pc = "title" /\ pc' = "cancel" /\ library[closing'] = view[closing'] =>
       \A x \in Targets :
         On(library[closing'], x) /\ ~On(library'[closing'], x) =>
           /\ IF x = Whole THEN ledger.owned[closing'] # None ELSE Owns(closing', x)
           /\ \A i \in 1 .. floor : ~Asks(i, library[closing'].title, x)]_vars

Undecidable(s) ==
  \E i \in Ids : request[i] # None /\
    \/ request[i].title = None
    \/ request[i].state = "odd" /\ (request[i].title \in Series <=> s \in Shows)

Holds(s, t) == library[s] # None /\ library[s].title = t
Asked(t, x) == \E i \in Ids : Asks(i, t, x)
Owed(s, t, x) == pc = "idle" /\ Owns(s, x) /\ Holds(s, t) /\ ~Asked(t, x)
Excused(s, t, x) ==
  ~Holds(s, t) \/ Asked(t, x) \/ ledger.review \/ Undecidable(s)

TitlesOf(s) == {t \in Titles : (t \in Series) = (s \in Shows)}
ClaimsOf(s) == IF s \in Shows THEN Seasons ELSE {Whole}

\* What is owned and no longer asked for is switched off in the end, though
\* passes die between the change and the save, unless the evidence is odd or
\* a review is asked for.
WithdrawnIsCancelled ==
  \A s \in Slots : \A t \in TitlesOf(s), x \in ClaimsOf(s) :
    Owed(s, t, x) ~> Excused(s, t, x) \/ ~On(library[s], x)

\* A queued search of it does not wait on either, if it names nothing else,
\* though passes die after the change and before the deletion (lines 201-221):
\* the next pass finds the title off and must still cancel its search.
WithdrawnSearchesEnd ==
  \A s \in Slots : \A t \in TitlesOf(s), x \in ClaimsOf(s) :
    LET c == [slot |-> s, target |-> x, alone |-> TRUE] IN
    Owed(s, t, x) /\ c \in searches ~> Excused(s, t, x) \/ c \notin searches
=============================================================================
