------------------------ MODULE RequestCloseoutProofs ------------------------
(***************************************************************************)
(* Proofs about RequestCloseout, for any requests, titles, page size, list *)
(* order and number of faults: two paginated reads that agree miss no      *)
(* request that stood throughout, once an instance is on record no pass    *)
(* acts on the list of another, and only withdrawn claims are switched off.*)
(*                                                                         *)
(* The heart is Tracked, about the second read.  Newest first, every later *)
(* row is pushed back by an insertion, so the counts alone keep a row from *)
(* slipping before the next page.  Oldest first, a row may slip, but then  *)
(* an equal count means a newer row at the end, which the first read       *)
(* cannot have seen.                                                       *)
(***************************************************************************)
EXTENDS RequestCloseout, FiniteSetTheorems, TLAPS

Before(j, i) == IF NewestFirst THEN j > i ELSE j < i
Ahead(i) == {j \in Present : Before(j, i)}
Rank(i) == Cardinality(Ahead(i))
Old == {i \in Present : i <= floor}
Newer == \E i \in Read : i > floor

Slipped(i) == Cardinality(Old) < total /\ Cardinality(Read) < total
Tracked ==
  pc = "second" /\ total # None =>
    IF NewestFirst
    THEN \A i \in Old \ Read :
           Cardinality(Read) + Cardinality(Present) <= Rank(i) + total
    ELSE /\ Cardinality(Old) <= total
         /\ Newer \/ \A i \in Old \ Read : Cardinality(Read) <= Rank(i) \/ Slipped(i)

\* Identities are given out in order, and rows hold what was read of them.
Numbered ==
  /\ floor <= created
  /\ \A i \in Ids :
       /\ request[i] # None => i <= created
       /\ rows[i] # None => i <= created
       /\ pc = "second" /\ before[i] # None => i <= floor
       /\ rows[i] # None /\ request[i] # None =>
            request[i] \in {rows[i], [rows[i] EXCEPT !.state = "declined"]}

Blank ==
  /\ pc \in {"first", "second"} /\ total = None => Read = {}
  /\ pc = "idle" => Read = {} /\ total = None

ReadInv == TypeOK /\ Numbered /\ Blank /\ Tracked /\ SnapshotIsComplete

-----------------------------------------------------------------------------
(* Counting rows *)

LEMMA Finite ==
  ASSUME TypeOK
  PROVE  /\ IsFiniteSet(Ids) /\ Ids \subseteq Nat
         /\ \A S \in SUBSET Ids : IsFiniteSet(S) /\ Cardinality(S) \in Nat
         /\ Present \subseteq Ids /\ Read \subseteq Ids /\ Old \subseteq Present
         /\ \A i : Ahead(i) \subseteq Present
<1>1. IsFiniteSet(Ids) /\ Ids \subseteq Nat
  BY FS_Interval, CloseoutAssumption DEF Ids
<1>2. ASSUME NEW S \in SUBSET Ids PROVE IsFiniteSet(S) /\ Cardinality(S) \in Nat
  BY <1>1, FS_Subset, FS_CardinalityType
<1> QED BY <1>1, <1>2 DEF Present, Read, Old, Ahead

\* A page takes a row that is not ahead of it by its own length nearer.
LEMMA PageAdvances ==
  ASSUME TypeOK, NEW batch \in SUBSET Present,
         IsPage(batch, Cardinality(Read)), batch \cap Read = {},
         NEW i \in Present \ batch, Cardinality(Read) <= Rank(i)
  PROVE  Cardinality(Read) + Cardinality(batch) <= Rank(i)
<1>1. PICK earlier \in SUBSET Present :
        /\ Cardinality(earlier) = Least(Cardinality(Read), Cardinality(Present))
        /\ earlier \cap batch = {}
        /\ Precedes(earlier, batch)
        /\ Precedes(earlier \cup batch, Present \ (earlier \cup batch))
  BY DEF IsPage
<1>2. /\ IsFiniteSet(earlier) /\ IsFiniteSet(batch) /\ IsFiniteSet(Present)
      /\ Cardinality(earlier) \in Nat /\ Cardinality(batch) \in Nat
      /\ Cardinality(Read) \in Nat /\ Cardinality(Present) \in Nat
      /\ IsFiniteSet(Ahead(i)) /\ Rank(i) \in Nat /\ i \in Nat
  BY Finite DEF Rank
<1>3. i \notin earlier
  <2>1. SUFFICES ASSUME i \in earlier PROVE FALSE
    OBVIOUS
  <2>2. Ahead(i) \subseteq earlier \ {i}
    <3>1. ASSUME NEW j \in Present, Before(j, i), j \notin earlier PROVE FALSE
      <4>1. Before(i, j)
        BY <1>1, <2>1, <3>1 DEF Precedes, Before
      <4>2. j \in Nat
        BY Finite
      <4> QED BY <3>1, <4>1, <4>2, <1>2 DEF Before
    <3>2. ~Before(i, i)
      BY <1>2 DEF Before
    <3> QED BY <3>1, <3>2 DEF Ahead
  <2>3. Rank(i) <= Cardinality(earlier \ {i})
    BY <2>2, <1>2, FS_Subset, FS_RemoveElement DEF Rank
  <2>4. Cardinality(earlier \ {i}) = Cardinality(earlier) - 1
    BY <2>1, <1>2, FS_RemoveElement
  <2> QED BY <2>3, <2>4, <1>1, <1>2 DEF Least
<1>4. Cardinality(earlier) = Cardinality(Read)
  <2>1. Cardinality(earlier) # Cardinality(Present)
    BY <1>2, <1>3, FS_Subset
  <2> QED BY <2>1, <1>1 DEF Least
<1>5. earlier \cup batch \subseteq Ahead(i)
  BY <1>1, <1>3 DEF Precedes, Ahead, Before
<1>6. Cardinality(earlier \cup batch) = Cardinality(earlier) + Cardinality(batch)
  <2>1. Cardinality(earlier \cap batch) = 0
    BY <1>1, FS_EmptySet
  <2>2. Cardinality(earlier \cup batch)
          = Cardinality(earlier) + Cardinality(batch) - Cardinality(earlier \cap batch)
    BY <1>2, FS_Union
  <2> QED BY <2>1, <2>2, <1>2
<1>7. Cardinality(earlier \cup batch) <= Rank(i)
  BY <1>5, <1>2, FS_Subset DEF Rank
<1> QED BY <1>4, <1>6, <1>7

\* Oldest first, a page that meets newer rows reads one, or stops before them.
LEMMA PageMeetsNewer ==
  ASSUME TypeOK, ~NewestFirst, NEW batch \in SUBSET Present,
         IsPage(batch, Cardinality(Read)), Cardinality(Read) < Cardinality(Present),
         NEW m \in Present, m > floor, \A i \in batch : i <= floor
  PROVE  Cardinality(Read) + Cardinality(batch) < Cardinality(Present)
<1>1. PICK earlier \in SUBSET Present :
        /\ Cardinality(earlier) = Least(Cardinality(Read), Cardinality(Present))
        /\ Cardinality(batch) =
             Least(PageSize, Cardinality(Present) - Cardinality(earlier))
        /\ earlier \cap batch = {}
        /\ Precedes(earlier, batch)
  BY DEF IsPage
<1>2. /\ IsFiniteSet(earlier) /\ IsFiniteSet(batch) /\ IsFiniteSet(Present)
      /\ Cardinality(earlier) \in Nat /\ Cardinality(batch) \in Nat
      /\ Cardinality(Read) \in Nat /\ Cardinality(Present) \in Nat
      /\ Present \subseteq Nat /\ floor \in Nat
  BY Finite DEF TypeOK, PassType
<1>3. Cardinality(earlier) = Cardinality(Read)
  BY <1>1, <1>2 DEF Least
<1>4. batch # {}
  <2>1. Cardinality(batch) >= 1
    BY <1>1, <1>2, <1>3, CloseoutAssumption DEF Least
  <2> QED BY <2>1, FS_EmptySet
<1>5. m \notin earlier
  <2>1. PICK j \in batch : TRUE
    BY <1>4
  <2>2. m \in earlier => m < j
    BY <1>1, <2>1 DEF Precedes
  <2>3. j <= floor /\ j \in Nat /\ m \in Nat
    BY <1>2
  <2> QED BY <2>2, <2>3, <1>2
<1>6. Cardinality(earlier \cup batch) = Cardinality(earlier) + Cardinality(batch)
  <2>1. Cardinality(earlier \cap batch) = 0
    BY <1>1, FS_EmptySet
  <2>2. Cardinality(earlier \cup batch)
          = Cardinality(earlier) + Cardinality(batch) - Cardinality(earlier \cap batch)
    BY <1>2, FS_Union
  <2> QED BY <2>1, <2>2, <1>2
<1>7. m \notin earlier \cup batch
  BY <1>5, <1>2
<1>8. Cardinality(earlier \cup batch) < Cardinality(Present)
  <2>1. /\ Cardinality(earlier \cup batch) <= Cardinality(Present)
        /\ Cardinality(earlier \cup batch) # Cardinality(Present)
    BY <1>2, <1>7, FS_Subset
  <2>2. Cardinality(earlier \cup batch) \in Nat
    BY <1>2, <1>6
  <2> QED BY <2>1, <2>2, <1>2
<1> QED BY <1>3, <1>6, <1>8

-----------------------------------------------------------------------------
(* Types *)

WorkInv ==
  /\ \A s \in todo : view[s] # None
  /\ pc = "cancel" => closing # None /\ view[closing] # None

LEMMA LeaveType == ASSUME Leave PROVE PassType' /\ WorkInv'
BY CloseoutAssumption DEF Leave, PassType, WorkInv, NoRequests, Nothing, Acting

LEMMA PageType ==
  ASSUME TypeOK, NEW batch \in SUBSET Present
  PROVE  WithPage(batch) \in [Ids -> {None} \cup Content] /\ Cardinality(Present) \in Nat
BY Finite DEF TypeOK, WorldType, PassType, WithPage, Present

\* What the agreed list says of a show is a set of its seasons, or unknown.
LEMMA SeasonTypes ==
  ASSUME TypeOK, NEW t
  PROVE  RequestedSeasons(t) \in Wanted
<1>1. Listed \subseteq Content
  BY DEF TypeOK, PassType, WorldType, Listed, Read
<1>2. \A r \in Listed : r.seasons \in Wanted
  BY <1>1 DEF Content
<1> DEFINE wanted == {r.seasons : r \in {r \in Listed : r.title = t /\ r.state = "open"}}
<1>3. wanted \subseteq Wanted
  BY <1>2
<1>4. Unknown \notin wanted => UNION wanted \subseteq Seasons
  BY <1>3 DEF Wanted
<1> QED BY <1>4 DEF RequestedSeasons, Wanted

LEMMA TitleTypes ==
  ASSUME TypeOK, NEW s \in Slots, view[s] # None
  PROVE  /\ view[s] \in Row
         /\ Prior(s) \in {None} \cup Claim /\ PriorSeasons(s) \in Wanted
         /\ Kept(s) \in {None} \cup Claim
         /\ Removed(s) \subseteq Targets
         /\ Updated(s) \in Row
<1>1. view[s] \in Row /\ kind \in {"movie", "series"}
  BY DEF TypeOK, PassType, WorldType
<1>2. Prior(s) \in {None} \cup Claim
  BY DEF TypeOK, PassType, WorldType, Prior
<1>3. PriorSeasons(s) \in Wanted
  BY <1>2 DEF PriorSeasons, Claim, Wanted
<1>4. RequestedSeasons(view[s].title) \in Wanted
  BY SeasonTypes
<1>5. Unknown \in Wanted
  BY DEF Wanted
<1>6. Claimed(s) \in Claim
  BY <1>1, <1>3, <1>4, <1>5 DEF Claimed, Claim, Row
<1>7. Kept(s) \in {None} \cup Claim
  BY <1>2, <1>6 DEF Kept
<1>8. Removed(s) \subseteq Targets
  <2>1. PriorSeasons(s) # Unknown => PriorSeasons(s) \subseteq Seasons
    BY <1>3 DEF Wanted
  <2> QED BY <2>1 DEF Removed, Targets
<1>9. Updated(s) \in Row
  BY <1>1 DEF Updated, Row
<1> QED BY <1>1, <1>2, <1>3, <1>7, <1>8, <1>9

LEMMA TypeInit == Init => TypeOK /\ WorkInv
BY CloseoutAssumption
   DEF Init, TypeOK, PassType, WorldType, WorkInv, NoRequests, Nothing, Acting, Targets

LEMMA TypeStep ==
  TypeOK /\ WorkInv /\ [Next]_vars => TypeOK' /\ WorkInv'
<1> SUFFICES ASSUME TypeOK, WorkInv, [Next]_vars PROVE TypeOK' /\ WorkInv'
  OBVIOUS
<1> USE DEF Acting
<1>0. PassType /\ WorldType
  BY DEF TypeOK
<1>1. CASE Start
  BY <1>0, <1>1
     DEF TypeOK, Start, PassType, WorldType, WorkInv, seerr, arr, record, work
<1>2. CASE ReadPage
  <2>1. rows' \in [Ids -> {None} \cup Content] /\ total' \in Nat
    BY <1>2, PageType DEF ReadPage
  <2> QED
    BY <1>0, <1>2, <2>1
       DEF TypeOK, ReadPage, PassType, WorldType, WorkInv, seerr, arr, record, work
<1>3. CASE ReadUnstable
  BY <1>0, <1>3, LeaveType DEF TypeOK, ReadUnstable, WorldType, seerr, arr, record
<1>4. CASE EndFirst
  <2>1. before' \in [Ids -> {None} \cup Content]
    BY <1>4, PageType DEF EndFirst
  <2> QED
    BY <1>0, <1>4, <2>1
       DEF TypeOK, EndFirst, PassType, WorldType, WorkInv, seerr, arr, record, work, NoRequests
<1>5. CASE EndSecond
  <2>1. WorldType'
    BY <1>0, <1>5 DEF EndSecond, WorldType, seerr, arr, record
  <2>2. PICK batch \in SUBSET Present :
          \/ /\ WithPage(batch) = before
             /\ rows' = before /\ pc' = "guard" /\ source' = instance
             /\ UNCHANGED <<before, total, floor, client, kind, view, todo,
                            kept, closing>>
          \/ WithPage(batch) # before /\ Leave
    BY <1>5 DEF EndSecond
  <2>3. CASE Leave
    BY <2>1, <2>3, LeaveType DEF TypeOK
  <2>4. CASE /\ rows' = before /\ pc' = "guard" /\ source' = instance
             /\ UNCHANGED <<before, total, floor, client, kind, view, todo,
                            kept, closing>>
    <3>1. PassType' /\ WorkInv'
      BY <1>0, <2>4 DEF PassType, WorldType, WorkInv
    <3> QED BY <2>1, <3>1 DEF TypeOK
  <2> QED BY <2>2, <2>3, <2>4
<1>6. CASE Guard
  <2>1. ledger' \in [owned : [Slots -> {None} \cup Claim],
                     instance : {None} \cup Nat, review : BOOLEAN]
    BY <1>0, <1>6 DEF Guard, WorldType
  <2>2. WorldType'
    BY <1>0, <1>6, <2>1 DEF Guard, WorldType, seerr, arr, record
  <2>3. CASE Leave
    BY <2>2, <2>3, LeaveType DEF TypeOK
  <2>4. CASE /\ pc' = "list" /\ client' = instance
             /\ UNCHANGED <<ledger, evidence, kind, view, todo, kept, closing, source>>
    <3>1. PassType' /\ WorkInv'
      BY <1>0, <2>4 DEF PassType, WorldType, WorkInv, evidence
    <3> QED BY <2>2, <3>1 DEF TypeOK
  <2> QED BY <1>6, <2>3, <2>4 DEF Guard
<1>7. ASSUME NEW k \in {"movie", "series"}, ListTitles(k) PROVE TypeOK' /\ WorkInv'
  <2>1. /\ view' \in [Slots -> {None} \cup Row] /\ todo' \in SUBSET Slots
        /\ \A s \in todo' : view'[s] # None
    BY <1>0, <1>7 DEF ListTitles, WorldType
  <2> QED
    BY <1>0, <1>7, <2>1
       DEF TypeOK, ListTitles, PassType, WorldType, WorkInv, seerr, arr, record, evidence
<1>8. CASE List \/ NextKind
  BY <1>7, <1>8 DEF List, NextKind
<1>9. ASSUME NEW s \in Slots, Skip(s) PROVE TypeOK' /\ WorkInv'
  <2>1. Kept(s) \in {None} \cup Claim
    BY <1>9, TitleTypes DEF Skip, WorkInv
  <2> QED
    BY <1>0, <1>9, <2>1
       DEF TypeOK, Skip, PassType, WorldType, WorkInv, seerr, arr, record, evidence
<1>10. ASSUME NEW s \in Slots, Put(s) PROVE TypeOK' /\ WorkInv'
  <2>1. Kept(s) \in {None} \cup Claim /\ Updated(s) \in Row /\ view[s] # None
    BY <1>10, TitleTypes DEF Put, WorkInv
  <2>2. library' \in [Slots -> {None} \cup Row]
    BY <1>0, <1>10, <2>1 DEF Put, WorldType
  <2> QED
    BY <1>0, <1>10, <2>1, <2>2, CloseoutAssumption
       DEF TypeOK, Put, PassType, WorldType, WorkInv, seerr, evidence, record
<1>11. CASE Cancel
  <2>1. searches' \in SUBSET Search
    BY <1>0, <1>11 DEF Cancel, WorldType
  <2> QED
    BY <1>0, <1>11, <2>1
       DEF TypeOK, Cancel, PassType, WorldType, WorkInv, seerr, evidence, record
<1>12. CASE Save
  <2>1. /\ ledger' \in [owned : [Slots -> {None} \cup Claim],
                        instance : {None} \cup Nat, review : BOOLEAN]
        /\ origin' \in {None} \cup Nat
    BY <1>0, <1>12 DEF Save, PassType
  <2> QED BY <1>0, <1>12, <2>1, LeaveType DEF TypeOK, Save, WorldType, seerr, arr
<1>13. CASE Abort
  <2>1. \E gone \in SUBSET searches : searches' = searches \ gone
    BY <1>13 DEF Abort
  <2>2. searches' \in SUBSET Search
    BY <1>0, <2>1 DEF WorldType
  <2> QED
    BY <1>0, <1>13, <2>2, LeaveType DEF TypeOK, Abort, WorldType, seerr, record
<1>14. CASE Rebaseline
  <2>1. ledger' \in [owned : [Slots -> {None} \cup Claim],
                     instance : {None} \cup Nat, review : BOOLEAN]
    BY <1>0, <1>14 DEF Rebaseline, WorldType, Nothing
  <2> QED
    BY <1>0, <1>14, <2>1
       DEF TypeOK, Rebaseline, PassType, WorldType, WorkInv, seerr, arr, record, evidence, work
<1>15. ASSUME NEW c \in Content, Request(c) PROVE TypeOK' /\ WorkInv'
  <2>1. created' \in 0 .. MaxRequests /\ request' \in [Ids -> {None} \cup Content]
    BY <1>0, <1>15, CloseoutAssumption DEF Request, WorldType, Ids
  <2>2. /\ library' \in [Slots -> {None} \cup Row]
        /\ searches' \in SUBSET Search
    <3>1. CASE UNCHANGED arr
      BY <1>0, <3>1 DEF arr, WorldType, PassType
    <3>2. CASE ~UNCHANGED arr
      <4> DEFINE wanted == IF c.seasons = Unknown THEN {} ELSE c.seasons
                 had(s) == IF library[s] = None THEN {} ELSE library[s].seasons
      <4>1. PICK s \in Slots :
              /\ \/ library[s] # None /\ library[s].title = c.title
                 \/ library[s] = None
              /\ library' = [library EXCEPT ![s] =
                   [title |-> c.title, on |-> TRUE, future |-> TRUE,
                    seasons |-> had(s) \cup wanted]]
              /\ searches' = searches \cup
                   [slot : {s}, target : IF wanted = {} THEN {Whole} ELSE wanted,
                    alone : {TRUE}]
        BY <1>15, <3>2 DEF Request
      <4>2. c.title # None
        BY <1>15, <3>2 DEF Request
      <4>3. c.title \in Titles /\ wanted \subseteq Seasons
        BY <4>2 DEF Content, Wanted
      <4>4. had(s) \subseteq Seasons
        BY <1>0 DEF WorldType, Row
      <4> HIDE DEF wanted, had
      <4>5. [title |-> c.title, on |-> TRUE, future |-> TRUE,
             seasons |-> had(s) \cup wanted] \in Row
        BY <4>3, <4>4 DEF Row
      <4>6. library' \in [Slots -> {None} \cup Row]
        BY <1>0, <4>1, <4>5 DEF WorldType
      <4>7. searches' \in SUBSET Search
        BY <1>0, <4>1, <4>3 DEF WorldType, Search
      <4> QED BY <4>6, <4>7
    <3> QED BY <3>1, <3>2
  <2> QED
    BY <1>0, <1>15, <2>1, <2>2
       DEF TypeOK, Request, PassType, WorldType, WorkInv, passmemory, evidence, record
<1>16. ASSUME NEW i \in Ids, Withdraw(i) \/ Decline(i) PROVE TypeOK' /\ WorkInv'
  <2>1. request' \in [Ids -> {None} \cup Content] /\ disturbances' \in Nat
    <3>1. CASE Withdraw(i)
      BY <1>0, <3>1 DEF Withdraw, WorldType
    <3>2. CASE Decline(i)
      BY <1>0, <3>2 DEF Decline, WorldType, Content
    <3> QED BY <1>16, <3>1, <3>2
  <2> QED
    BY <1>0, <1>16, <2>1
       DEF TypeOK, Withdraw, Decline, PassType, WorldType, WorkInv, passmemory, evidence, record, arr
<1>17. CASE Reinstall
  BY <1>0, <1>17
     DEF TypeOK, Reinstall, PassType, WorldType, WorkInv, passmemory, evidence, record, arr, NoRequests
<1>18. ASSUME NEW s \in Slots, Edit(s) PROVE TypeOK' /\ WorkInv'
  <2>1. library' \in [Slots -> {None} \cup Row]
    <3>1. library[s] \in Row
      BY <1>0, <1>18 DEF Edit, WorldType
    <3>2. [library[s] EXCEPT !.on = ~@] \in Row
      BY <3>1 DEF Row
    <3>3. \A n \in Seasons : [library[s] EXCEPT !.seasons =
             IF n \in @ THEN @ \ {n} ELSE @ \cup {n}] \in Row
      BY <3>1 DEF Row
    <3> QED BY <1>0, <1>18, <3>2, <3>3 DEF Edit, WorldType
  <2> QED
    BY <1>0, <1>18, <2>1
       DEF TypeOK, Edit, PassType, WorldType, WorkInv, passmemory, evidence, record, seerr
<1>19. ASSUME NEW c \in Search, QueueSearch(c) \/ BeginSearch(c)
       PROVE  TypeOK' /\ WorkInv'
  BY <1>0, <1>19
     DEF TypeOK, QueueSearch, BeginSearch, PassType, WorldType, WorkInv, passmemory, evidence, record, seerr
<1>20. ASSUME NEW s \in Slots, Restore(s) PROVE TypeOK' /\ WorkInv'
  <2>1. library' \in [Slots -> {None} \cup Row]
    BY <1>0, <1>20 DEF Restore, WorldType, Row
  <2> QED
    BY <1>0, <1>20, <2>1, LeaveType DEF TypeOK, Restore, WorldType, seerr, record
<1>21. CASE UNCHANGED vars
  BY <1>0, <1>21 DEF TypeOK, vars, PassType, WorldType, WorkInv
<1> QED
  BY <1>1, <1>2, <1>3, <1>4, <1>5, <1>6, <1>8, <1>9, <1>10, <1>11, <1>12, <1>13,
     <1>14, <1>15, <1>16, <1>17, <1>18, <1>19, <1>20, <1>21
     DEF Next, PassStep, Environment

-----------------------------------------------------------------------------
(* The second read misses nothing that stands *)

\* What a page read in order establishes and keeps, whatever the order.
LEMMA PageTracks ==
  ASSUME TypeOK, Numbered, Blank, Tracked, pc = "second",
         NEW batch \in SUBSET Present,
         IsPage(batch, Cardinality(Read)), Fits(batch),
         ~NewestFirst => \A i \in Read \cup batch : i <= floor,
         NEW i \in Old \ (Read \cup batch)
  PROVE  \/ Cardinality(Read) + Cardinality(batch) <= Rank(i)
         \/ /\ ~NewestFirst
            /\ Cardinality(Old) < Cardinality(Present)
            /\ Cardinality(Read) + Cardinality(batch) < Cardinality(Present)
<1>1. /\ Cardinality(Read) \in Nat /\ Cardinality(Present) \in Nat
      /\ Cardinality(Old) \in Nat /\ Rank(i) \in Nat /\ Cardinality(batch) \in Nat
      /\ i \in Present \ batch /\ batch \cap Read = {} /\ i \in Old \ Read
      /\ IsFiniteSet(Present) /\ Old \subseteq Present
  BY Finite DEF Rank, Old, Fits
<1>2. ASSUME Cardinality(Read) <= Rank(i)
      PROVE  Cardinality(Read) + Cardinality(batch) <= Rank(i)
  BY <1>1, <1>2, PageAdvances
<1>3. CASE total = None
  <2>1. Cardinality(Read) = 0
    BY <1>3, FS_EmptySet DEF Blank
  <2> QED BY <1>1, <1>2, <2>1
<1>4. CASE total = Cardinality(Present) /\ total # None /\ NewestFirst
  <2>1. Cardinality(Read) + Cardinality(Present) <= Rank(i) + Cardinality(Present)
    BY <1>1, <1>4 DEF Tracked
  <2> QED BY <1>1, <1>2, <2>1
<1>5. CASE total = Cardinality(Present) /\ total # None /\ ~NewestFirst
  <2>1. ~Newer
    <3>1. Read \subseteq Nat /\ floor \in Nat
      BY Finite DEF TypeOK, PassType
    <3> QED BY <1>5, <3>1 DEF Newer
  <2>2. Cardinality(Read) <= Rank(i) \/ Slipped(i)
    BY <1>1, <1>5, <2>1 DEF Tracked
  <2>3. CASE Slipped(i)
    <3>1. Cardinality(Old) < Cardinality(Present) /\ Cardinality(Read) < Cardinality(Present)
      BY <1>5, <2>3 DEF Slipped
    <3>2. PICK m \in Present : m \notin Old
      BY <1>1, <3>1
    <3>3. m > floor
      BY <3>2, Finite DEF Old, TypeOK, PassType
    <3> QED BY <1>5, <3>1, <3>2, <3>3, PageMeetsNewer
  <2> QED BY <1>2, <2>2, <2>3
<1> QED BY <1>3, <1>4, <1>5 DEF Fits

LEMMA PageCounts ==
  ASSUME TypeOK, NEW batch \in SUBSET Present, batch \cap Read = {}
  PROVE  /\ {i \in Ids : WithPage(batch)[i] # None} = Read \cup batch
         /\ Cardinality(Read \cup batch) = Cardinality(Read) + Cardinality(batch)
<1>1. \A i \in batch : i \in Ids /\ request[i] # None
  BY DEF Present
<1>2. {i \in Ids : WithPage(batch)[i] # None} = Read \cup batch
  BY <1>1 DEF WithPage, Read
<1>3. /\ IsFiniteSet(Read) /\ IsFiniteSet(batch)
      /\ Cardinality(Read) \in Nat /\ Cardinality(batch) \in Nat
  BY Finite
<1>4. Cardinality(Read \cap batch) = 0
  <2>1. Read \cap batch = {}
    OBVIOUS
  <2> QED BY <2>1, FS_EmptySet
<1>5. Cardinality(Read \cup batch)
        = Cardinality(Read) + Cardinality(batch) - Cardinality(Read \cap batch)
  BY <1>3, FS_Union
<1> QED BY <1>2, <1>3, <1>4, <1>5

LEMMA ReadPageTracks ==
  ASSUME ReadInv, ReadPage PROVE Tracked'
<1>1. PICK batch \in SUBSET Present :
        IsPage(batch, Cardinality(Read)) /\ Fits(batch) /\ rows' = WithPage(batch)
  BY DEF ReadPage, Page
<1>2. /\ Present' = Present /\ total' = Cardinality(Present)
      /\ floor' = floor /\ pc' = pc
  BY DEF ReadPage, seerr, Present
<1>3. /\ Read' = Read \cup batch
      /\ Cardinality(Read') = Cardinality(Read) + Cardinality(batch)
  BY <1>1, PageCounts DEF ReadInv, Fits, Read
<1>4. Old' = Old /\ \A i : Rank(i)' = Rank(i)
  BY <1>2 DEF Old, Rank, Ahead
<1>5. /\ Cardinality(Old) <= Cardinality(Present)
      /\ Cardinality(Old) \in Nat /\ Cardinality(Present) \in Nat
      /\ Cardinality(Read') \in Nat /\ \A i : Rank(i) \in Nat
  <2>1. IsFiniteSet(Present) /\ Old \in SUBSET Present
        /\ IsFiniteSet(Read) /\ IsFiniteSet(batch)
    BY Finite DEF ReadInv
  <2>2. Cardinality(Read) \in Nat /\ Cardinality(batch) \in Nat
    BY <2>1, FS_CardinalityType
  <2>3. \A i : Rank(i) \in Nat
    BY Finite DEF ReadInv, Rank
  <2> QED BY <1>3, <2>1, <2>2, <2>3, FS_Subset, FS_CardinalityType
<1>6. ASSUME pc = "second", ~NewestFirst => \A i \in Read \cup batch : i <= floor,
             NEW i \in Old \ Read'
      PROVE  \/ Cardinality(Read') <= Rank(i)
             \/ /\ ~NewestFirst /\ Cardinality(Old) < Cardinality(Present)
                /\ Cardinality(Read') < Cardinality(Present)
  BY <1>1, <1>3, <1>6, PageTracks DEF ReadInv
<1>7. CASE pc = "second" /\ NewestFirst
  <2>1. \A i \in Old \ Read' :
          Cardinality(Read') + Cardinality(Present) <= Rank(i) + Cardinality(Present)
    BY <1>5, <1>6, <1>7
  <2> QED BY <1>2, <1>4, <1>7, <2>1 DEF Tracked
<1>8. CASE pc = "second" /\ ~NewestFirst
  <2>1. CASE \E i \in Read \cup batch : ~(i <= floor)
    <3>1. Read \cup batch \subseteq Nat /\ floor \in Nat
      BY Finite DEF ReadInv, TypeOK, PassType
    <3>2. Newer'
      BY <1>2, <1>3, <2>1, <3>1 DEF Newer
    <3> QED BY <1>2, <1>4, <1>5, <1>8, <3>2 DEF Tracked
  <2>2. CASE \A i \in Read \cup batch : i <= floor
    <3>1. \A i \in Old \ Read' : Cardinality(Read') <= Rank(i) \/ Slipped(i)'
      BY <1>2, <1>4, <1>6, <1>8, <2>2 DEF Slipped
    <3> QED BY <1>2, <1>4, <1>5, <1>8, <3>1 DEF Tracked
  <2> QED BY <2>1, <2>2
<1>9. CASE pc # "second"
  BY <1>2, <1>9 DEF Tracked
<1> QED BY <1>7, <1>8, <1>9, CloseoutAssumption

\* The last page of a second read that agrees with the first: nothing old is left.
LEMMA AgreementIsComplete ==
  ASSUME ReadInv, pc = "second", NEW batch \in SUBSET Present,
         Page(batch), Last(batch), WithPage(batch) = before,
         NEW i \in Old
  PROVE  before[i] # None
<1>1. /\ {j \in Ids : WithPage(batch)[j] # None} = Read \cup batch
      /\ \A j \in Read \cup batch : j <= floor
  <2>1. {j \in Ids : WithPage(batch)[j] # None} = Read \cup batch
    BY PageCounts DEF ReadInv, Page, Fits
  <2> QED BY <2>1 DEF ReadInv, Numbered
<1>2. SUFFICES ASSUME i \notin Read \cup batch PROVE FALSE
  BY <1>1 DEF Old, Present
<1>3. \/ Cardinality(Read) + Cardinality(batch) <= Rank(i)
      \/ Cardinality(Read) + Cardinality(batch) < Cardinality(Present)
  BY <1>1, <1>2, PageTracks DEF ReadInv, Page
<1>4. Cardinality(Present) = Cardinality(Read) + Cardinality(batch)
      /\ Cardinality(Present) \in Nat
  BY Finite DEF Last, ReadInv
<1>5. Rank(i) < Cardinality(Present)
  <2>1. Ahead(i) \subseteq Present \ {i} /\ i \in Present /\ i \in Nat
    BY Finite DEF Ahead, Before, Old, ReadInv
  <2>2. IsFiniteSet(Present) /\ IsFiniteSet(Present \ {i})
    BY Finite, FS_RemoveElement DEF ReadInv
  <2>3. Cardinality(Present \ {i}) = Cardinality(Present) - 1
    BY <2>1, <2>2, FS_RemoveElement
  <2>4. Rank(i) <= Cardinality(Present \ {i}) /\ Rank(i) \in Nat
    BY <2>1, <2>2, FS_Subset, FS_CardinalityType DEF Rank
  <2> QED BY <2>3, <2>4, <1>4
<1> QED BY <1>3, <1>4, <1>5, Finite DEF ReadInv, Rank

\* A request goes away: a row that comes nearer for it slips, and the count shows it.
LEMMA WithdrawTracks ==
  ASSUME ReadInv, NEW i \in Ids, Withdraw(i) PROVE Tracked'
<1>1. /\ Present' = Present \ {i} /\ i \in Present /\ Read' = Read
      /\ total' = total /\ floor' = floor /\ pc' = pc
  BY DEF Withdraw, passmemory, evidence, Present, Read, ReadInv, TypeOK, WorldType
<1>2. Old' = Old \ {i}
  BY <1>1 DEF Old
<1>3. ASSUME NEW j \in Ids
      PROVE  /\ Rank(j) \in Nat /\ Rank(j)' \in Nat
             /\ Rank(j)' = IF Before(i, j) THEN Rank(j) - 1 ELSE Rank(j)
  <2>1. Ahead(j)' = Ahead(j) \ {i} /\ (i \in Ahead(j) <=> Before(i, j))
    BY <1>1 DEF Ahead, Before
  <2>2. IsFiniteSet(Ahead(j))
    BY Finite DEF ReadInv
  <2>3. IsFiniteSet(Ahead(j)')
    BY <2>1, <2>2, FS_RemoveElement
  <2> QED BY <2>1, <2>2, <2>3, FS_RemoveElement, FS_CardinalityType DEF Rank
<1>4. /\ Cardinality(Present') = Cardinality(Present) - 1
      /\ Cardinality(Old') = IF i \in Old THEN Cardinality(Old) - 1 ELSE Cardinality(Old)
      /\ Cardinality(Present) \in Nat /\ Cardinality(Old) \in Nat
      /\ Cardinality(Read) \in Nat
  BY <1>1, <1>2, Finite, FS_RemoveElement DEF ReadInv
<1>5. /\ Old \subseteq Ids /\ Ids \subseteq Nat /\ floor \in Nat
      /\ total # None => total \in Nat
  BY Finite DEF ReadInv, TypeOK, PassType
<1>6. CASE pc = "second" /\ total # None /\ NewestFirst
  <2>1. ASSUME NEW j \in Old' \ Read'
        PROVE  Cardinality(Read') + Cardinality(Present') <= Rank(j)' + total'
    <3>1. j \in Old \ Read /\ j \in Ids
      BY <1>1, <1>2, <1>5, <2>1
    <3>2. Cardinality(Read) + Cardinality(Present) <= Rank(j) + total
      BY <1>6, <3>1 DEF ReadInv, Tracked
    <3> QED BY <1>1, <1>3, <1>4, <1>5, <1>6, <3>1, <3>2
  <2> QED BY <1>6, <2>1 DEF Tracked
<1>7. CASE pc = "second" /\ total # None /\ ~NewestFirst
  <2>1. Cardinality(Old) <= total
    BY <1>7 DEF ReadInv, Tracked
  <2>2. Cardinality(Old') <= total'
    BY <1>1, <1>4, <1>5, <1>7, <2>1
  <2>3. Newer => Newer'
    BY <1>1 DEF Newer
  <2>4. ASSUME ~Newer, NEW j \in Old' \ Read'
        PROVE  Cardinality(Read') <= Rank(j)' \/ Slipped(j)'
    <3>1. j \in Old \ Read /\ j \in Ids /\ j # i
      BY <1>1, <1>2, <1>5, <2>4
    <3>2. Cardinality(Read) <= Rank(j) \/ Slipped(j)
      BY <1>7, <2>4, <3>1 DEF ReadInv, Tracked
    <3>3. CASE Slipped(j)
      BY <1>1, <1>4, <1>5, <1>7, <3>3 DEF Slipped
    <3>4. CASE Cardinality(Read) <= Rank(j) /\ ~Before(i, j)
      BY <1>1, <1>3, <3>1, <3>4
    <3>5. CASE Cardinality(Read) <= Rank(j) /\ Before(i, j)
      <4>1. i < j /\ j <= floor /\ i \in Nat /\ j \in Nat
        BY <1>5, <1>7, <3>1, <3>5 DEF Before, Old
      <4>2. i \in Old
        BY <1>1, <1>5, <4>1 DEF Old
      <4>3. Ahead(j) \subseteq Old \ {j}
        <5>1. ASSUME NEW k \in Ahead(j) PROVE k \in Old \ {j}
          <6>1. k \in Present /\ k < j /\ k \in Nat
            BY <1>7, Finite DEF Ahead, Before, ReadInv
          <6> QED BY <1>5, <4>1, <6>1 DEF Old
        <5> QED BY <5>1
      <4>4. Rank(j) <= Cardinality(Old) - 1
        <5>1. IsFiniteSet(Old) /\ IsFiniteSet(Old \ {j})
          BY Finite, FS_RemoveElement DEF ReadInv
        <5>2. Cardinality(Old \ {j}) = Cardinality(Old) - 1
          BY <3>1, <5>1, FS_RemoveElement
        <5>3. Rank(j) <= Cardinality(Old \ {j})
          BY <4>3, <5>1, FS_Subset DEF Rank
        <5> QED BY <5>2, <5>3
      <4>5. Cardinality(Old') < total /\ Cardinality(Read) < total
        BY <1>3, <1>4, <1>5, <1>7, <2>1, <3>1, <3>5, <4>2, <4>4
      <4> QED BY <1>1, <4>5 DEF Slipped
    <3> QED BY <3>2, <3>3, <3>4, <3>5
  <2> QED BY <1>7, <2>2, <2>3, <2>4 DEF Tracked
<1> QED BY <1>1, <1>6, <1>7, CloseoutAssumption DEF Tracked

\* A new request has the highest number: newest first it pushes all others back.
LEMMA RequestTracks ==
  ASSUME ReadInv, NEW c \in Content, Request(c) PROVE Tracked'
<1> DEFINE new == created + 1
<1>1. /\ new \in Ids /\ c # None /\ request[new] = None
      /\ created \in Nat /\ floor \in Nat /\ floor <= created
  BY CloseoutAssumption DEF Request, ReadInv, TypeOK, PassType, WorldType, Numbered, Ids
<1>2. /\ Present' = Present \cup {new} /\ new \notin Present /\ Read' = Read
      /\ total' = total /\ floor' = floor /\ pc' = pc
  BY <1>1 DEF Request, passmemory, evidence, Present, Read, ReadInv, TypeOK, WorldType
<1>3. Old' = Old
  BY <1>1, <1>2 DEF Old
<1>4. ASSUME NEW j \in Ids, j <= floor
      PROVE  /\ Rank(j) \in Nat /\ Rank(j)' \in Nat
             /\ Rank(j)' = IF NewestFirst THEN Rank(j) + 1 ELSE Rank(j)
  <2>1. j \in Nat /\ IsFiniteSet(Ahead(j))
    BY Finite DEF ReadInv
  <2>2. Before(new, j) <=> NewestFirst
    BY <1>1, <1>4, <2>1, CloseoutAssumption DEF Before
  <2>3. Ahead(j)' = IF NewestFirst THEN Ahead(j) \cup {new} ELSE Ahead(j)
    BY <1>2, <2>2 DEF Ahead, Before
  <2>4. new \notin Ahead(j)
    BY <1>2 DEF Ahead
  <2> QED BY <2>1, <2>3, <2>4, FS_AddElement, FS_CardinalityType DEF Rank
<1>5. /\ Cardinality(Present') = Cardinality(Present) + 1
      /\ Cardinality(Present) \in Nat /\ Cardinality(Read) \in Nat
      /\ total # None => total \in Nat
  BY <1>2, Finite, FS_AddElement DEF ReadInv, TypeOK, PassType
<1>6. \A j \in Old : j \in Ids /\ j <= floor
  BY Finite DEF Old, ReadInv
<1> HIDE DEF new
<1>7. CASE pc = "second" /\ total # None /\ NewestFirst
  <2>1. ASSUME NEW j \in Old' \ Read'
        PROVE  Cardinality(Read') + Cardinality(Present') <= Rank(j)' + total'
    <3>1. Cardinality(Read) + Cardinality(Present) <= Rank(j) + total
      BY <1>2, <1>3, <1>7, <2>1 DEF ReadInv, Tracked
    <3>2. Rank(j)' = Rank(j) + 1 /\ Rank(j) \in Nat
      BY <1>3, <1>4, <1>6, <1>7, <2>1
    <3> QED BY <1>2, <1>5, <1>7, <3>1, <3>2
  <2> QED BY <1>7, <2>1 DEF Tracked
<1>8. CASE pc = "second" /\ total # None /\ ~NewestFirst
  <2>1. Newer => Newer'
    BY <1>2 DEF Newer
  <2>2. \A j \in Old : Rank(j)' = Rank(j) /\ (Slipped(j) => Slipped(j)')
    BY <1>2, <1>3, <1>4, <1>6, <1>8 DEF Slipped
  <2> QED BY <1>2, <1>3, <1>8, <2>1, <2>2 DEF Tracked, ReadInv
<1> QED BY <1>2, <1>7, <1>8, CloseoutAssumption DEF Tracked

LEMMA ReinstallTracks ==
  ASSUME ReadInv, Reinstall PROVE Tracked'
<1>1. /\ Present' = {} /\ Old' = {} /\ total' = total
  BY DEF Reinstall, passmemory, evidence, Present, Old, NoRequests
<1>2. Cardinality(Old') = 0
  BY <1>1, FS_EmptySet
<1>3. total # None => total \in Nat
  BY DEF ReadInv, TypeOK, PassType
<1> QED BY <1>1, <1>2, <1>3 DEF Tracked

\* Steps that leave the list, the reading and the numbers alone.
LEMMA QuietTracks ==
  ASSUME ReadInv, UNCHANGED <<rows, total, floor, pc>>, Present' = Present PROVE Tracked'
<1>1. Read' = Read /\ Old' = Old /\ \A i : Rank(i)' = Rank(i)
  BY DEF Read, Old, Rank, Ahead
<1> QED BY <1>1 DEF ReadInv, Tracked, Newer, Slipped

\* Steps by which a pass neither reads the list nor leaves.
Working == pc = pc' \/ {pc, pc'} \subseteq {"guard"} \cup Acting

LEMMA QuietReads ==
  ASSUME ReadInv, UNCHANGED <<created, request, evidence>>, Working
  PROVE  Numbered' /\ Blank' /\ Tracked' /\ SnapshotIsComplete'
<1>1. Present' = Present /\ Read' = Read /\ UNCHANGED <<rows, before, total, floor>>
  BY DEF Present, Read, evidence
<1>2. Tracked'
  <2>1. CASE pc' = pc
    BY <1>1, <2>1, QuietTracks
  <2>2. CASE pc' # pc
    BY <2>2 DEF Working, Tracked, Acting
  <2> QED BY <2>1, <2>2
<1> QED
  BY <1>1, <1>2
     DEF ReadInv, Numbered, Blank, SnapshotIsComplete, Working, Acting

LEMMA LeaveReads ==
  ASSUME ReadInv, Leave, UNCHANGED <<created, request>>
  PROVE  Numbered' /\ Blank' /\ Tracked' /\ SnapshotIsComplete'
<1>1. pc' = "idle" /\ floor' = 0 /\ total' = None /\ \A i \in Ids : rows'[i] = None
  BY DEF Leave, NoRequests
<1> QED
  BY <1>1 DEF ReadInv, TypeOK, WorldType, Numbered, Blank, Tracked,
              SnapshotIsComplete, Read, Acting

LEMMA ReadStep ==
  ASSUME ReadInv, [Next]_vars
  PROVE  Numbered' /\ Blank' /\ Tracked' /\ SnapshotIsComplete'
<1> USE DEF Acting
<1>1. CASE Start
  <2>1. /\ pc' = "first" /\ floor' = created
        /\ UNCHANGED <<created, request, rows, before, total>>
    BY <1>1 DEF Start, seerr
  <2>2. Numbered'
    BY <2>1 DEF ReadInv, TypeOK, WorldType, Numbered
  <2> QED
    BY <1>1, <2>1, <2>2 DEF Start, ReadInv, Blank, Tracked, SnapshotIsComplete, Read
<1>2. CASE ReadPage
  <2>1. PICK batch \in SUBSET Present :
          batch \cap Read = {} /\ rows' = WithPage(batch)
    BY <1>2 DEF ReadPage, Page, Fits
  <2>2. /\ UNCHANGED <<created, request, pc, before, floor>>
        /\ total' = Cardinality(Present) /\ pc \in {"first", "second"}
    BY <1>2 DEF ReadPage, seerr
  <2>3. Numbered'
    BY <2>1, <2>2 DEF ReadInv, Numbered, WithPage
  <2>4. Blank'
    <3>1. total' \in 0 .. MaxRequests
      <4>1. Present \in SUBSET (1 .. MaxRequests) /\ Cardinality(Present) \in Nat
        BY Finite DEF ReadInv, Ids
      <4>2. Cardinality(Present) <= Cardinality(1 .. MaxRequests)
        <5>1. IsFiniteSet(1 .. MaxRequests)
          BY Finite DEF ReadInv, Ids
        <5> QED BY <4>1, <5>1, FS_Subset
      <4>3. Cardinality(1 .. MaxRequests) = MaxRequests
        <5>1. MaxRequests \in Nat
          BY CloseoutAssumption
        <5> QED BY <5>1, FS_Interval
      <4> QED BY <2>2, <4>1, <4>2, <4>3, CloseoutAssumption
    <3>2. total' # None
      BY <3>1, CloseoutAssumption
    <3> QED BY <2>2, <3>1, <3>2 DEF Blank
  <2> QED
    BY <1>2, <2>2, <2>3, <2>4, ReadPageTracks DEF SnapshotIsComplete
<1>3. CASE ReadUnstable
  BY <1>3, LeaveReads DEF ReadUnstable, seerr
<1>4. CASE EndFirst
  <2>1. PICK batch \in SUBSET Present : before' = WithPage(batch)
    BY <1>4 DEF EndFirst
  <2>2. /\ UNCHANGED <<created, request>> /\ pc' = "second"
        /\ floor' = created /\ total' = None /\ \A i \in Ids : rows'[i] = None
    BY <1>4 DEF EndFirst, seerr, NoRequests
  <2>3. Numbered'
    BY <2>1, <2>2 DEF ReadInv, TypeOK, WorldType, Numbered, WithPage
  <2> QED
    BY <2>2, <2>3 DEF Blank, Tracked, SnapshotIsComplete, Read
<1>5. CASE EndSecond
  <2>1. PICK batch \in SUBSET Present :
          /\ Page(batch) /\ Last(batch)
          /\ \/ /\ WithPage(batch) = before
                /\ rows' = before /\ pc' = "guard"
                /\ UNCHANGED <<before, total, floor>>
             \/ Leave
    BY <1>5 DEF EndSecond
  <2>2. UNCHANGED <<created, request>> /\ pc = "second"
    BY <1>5 DEF EndSecond, seerr
  <2>3. CASE Leave
    BY <2>2, <2>3, LeaveReads
  <2>4. CASE /\ WithPage(batch) = before /\ rows' = before /\ pc' = "guard"
             /\ UNCHANGED <<before, total, floor>>
    <3>1. \A i \in Old : before[i] # None
      BY <2>1, <2>2, <2>4, AgreementIsComplete
    <3>2. 1 .. floor \subseteq Ids /\ floor \in Nat
      BY CloseoutAssumption DEF ReadInv, TypeOK, PassType, Ids
    <3>3. SnapshotIsComplete'
      BY <2>2, <2>4, <3>1, <3>2 DEF SnapshotIsComplete, Old, Present
    <3>4. Numbered'
      BY <2>2, <2>4 DEF ReadInv, Numbered, WithPage
    <3> QED BY <2>4, <3>3, <3>4 DEF Blank, Tracked
  <2> QED BY <2>1, <2>3, <2>4
<1>6. CASE Guard
  <2>1. CASE Leave
    BY <1>6, <2>1, LeaveReads DEF Guard, seerr
  <2>2. CASE pc' = "list" /\ UNCHANGED evidence
    BY <1>6, <2>2, QuietReads DEF Guard, seerr, Working
  <2> QED BY <1>6, <2>1, <2>2 DEF Guard
<1>7. CASE List \/ NextKind \/ Cancel
  BY <1>7, QuietReads DEF List, NextKind, ListTitles, Cancel, seerr, Working
<1>8. ASSUME NEW s \in Slots, Skip(s) \/ Put(s)
      PROVE  Numbered' /\ Blank' /\ Tracked' /\ SnapshotIsComplete'
  BY <1>8, QuietReads DEF Skip, Put, seerr, Working
<1>9. CASE Save \/ Abort
  BY <1>9, LeaveReads DEF Save, Abort, seerr
<1>10. CASE Rebaseline
  BY <1>10, QuietReads DEF Rebaseline, seerr, Working
<1>11. ASSUME NEW c \in Content, Request(c)
       PROVE  Numbered' /\ Blank' /\ Tracked' /\ SnapshotIsComplete'
  <2>1. /\ created + 1 \in Ids /\ created \in Nat /\ floor \in Nat /\ floor <= created
        /\ rows[created + 1] = None
    BY <1>11, CloseoutAssumption
       DEF Request, ReadInv, TypeOK, PassType, WorldType, Numbered, Ids
  <2>2. /\ request' = [request EXCEPT ![created + 1] = c]
        /\ created' = created + 1 /\ UNCHANGED <<evidence, pc>>
    BY <1>11 DEF Request, passmemory
  <2>3. Numbered'
    BY <2>1, <2>2, Finite
       DEF ReadInv, TypeOK, PassType, WorldType, Numbered, evidence
  <2>4. Blank'
    BY <2>2 DEF ReadInv, Blank, Read, evidence
  <2>5. SnapshotIsComplete'
    BY <2>1, <2>2 DEF ReadInv, TypeOK, WorldType, SnapshotIsComplete, evidence
  <2> QED BY <1>11, <2>3, <2>4, <2>5, RequestTracks
<1>12. ASSUME NEW i \in Ids, Withdraw(i)
       PROVE  Numbered' /\ Blank' /\ Tracked' /\ SnapshotIsComplete'
  <2>1. /\ request' = [request EXCEPT ![i] = None]
        /\ UNCHANGED <<created, evidence, pc>>
    BY <1>12 DEF Withdraw, passmemory
  <2>2. Numbered' /\ Blank' /\ SnapshotIsComplete'
    BY <2>1 DEF ReadInv, TypeOK, WorldType, Numbered, Blank, Read, evidence,
                SnapshotIsComplete
  <2> QED BY <1>12, <2>2, WithdrawTracks
<1>13. ASSUME NEW i \in Ids, Decline(i)
       PROVE  Numbered' /\ Blank' /\ Tracked' /\ SnapshotIsComplete'
  <2>1. /\ request' = [request EXCEPT ![i].state = "declined"]
        /\ request[i] \in Content /\ UNCHANGED <<created, evidence, pc>>
    BY <1>13 DEF Decline, passmemory, ReadInv, TypeOK, WorldType
  <2>2. request' = [request EXCEPT ![i] = [request[i] EXCEPT !.state = "declined"]]
    BY <2>1
  <2>3. [request[i] EXCEPT !.state = "declined"] \in Content
    BY <2>1 DEF Content
  <2>4. [request[i] EXCEPT !.state = "declined"] # None /\ request[i] # None
    BY <2>1, <2>3, CloseoutAssumption
  <2>5. Present' = Present
    BY <2>2, <2>4 DEF Present, ReadInv, TypeOK, WorldType
  <2>6. Tracked'
    BY <2>1, <2>5, QuietTracks DEF evidence
  <2>7. Numbered'
    <3>1. rows[i] # None =>
            [request[i] EXCEPT !.state = "declined"] = [rows[i] EXCEPT !.state = "declined"]
      <4>1. rows[i] # None => rows[i] \in Content
        BY DEF ReadInv, TypeOK, PassType
      <4>2. rows[i] # None =>
              request[i] \in {rows[i], [rows[i] EXCEPT !.state = "declined"]}
        BY <2>4 DEF ReadInv, Numbered
      <4> QED BY <4>1, <4>2 DEF Content
    <3> QED
      BY <2>1, <2>2, <2>4, <3>1 DEF ReadInv, TypeOK, WorldType, Numbered, evidence
  <2>8. Blank' /\ SnapshotIsComplete'
    BY <2>1, <2>2, <2>4
       DEF ReadInv, TypeOK, WorldType, Blank, Read, evidence, SnapshotIsComplete
  <2> QED BY <2>6, <2>7, <2>8
<1>14. CASE Reinstall
  <2>1. \A i \in Ids : request'[i] = None
    BY <1>14 DEF Reinstall, NoRequests
  <2>2. UNCHANGED <<created, evidence, pc>>
    BY <1>14 DEF Reinstall, passmemory
  <2>3. Numbered' /\ Blank' /\ SnapshotIsComplete'
    <3>1. 1 .. floor \subseteq Ids /\ floor \in Nat
      BY CloseoutAssumption DEF ReadInv, TypeOK, PassType, Ids
    <3> QED
      BY <2>1, <2>2, <3>1
         DEF ReadInv, Numbered, Blank, Read, evidence, SnapshotIsComplete
  <2> QED BY <1>14, <2>3, ReinstallTracks
<1>15. CASE \/ \E s \in Slots : Edit(s)
            \/ \E c \in Search : QueueSearch(c) \/ BeginSearch(c)
  BY <1>15, QuietReads DEF Edit, QueueSearch, BeginSearch, seerr, passmemory, Working
<1>16. ASSUME NEW s \in Slots, Restore(s)
       PROVE  Numbered' /\ Blank' /\ Tracked' /\ SnapshotIsComplete'
  BY <1>16, LeaveReads DEF Restore, seerr
<1>17. CASE UNCHANGED vars
  BY <1>17, QuietReads DEF vars, evidence, Working
<1> QED
  BY <1>1, <1>2, <1>3, <1>4, <1>5, <1>6, <1>7, <1>8, <1>9, <1>10, <1>11, <1>12,
     <1>13, <1>14, <1>15, <1>16, <1>17 DEF Next, PassStep, Environment

-----------------------------------------------------------------------------
(* One history *)

\* Client identities are never used again, so the instance on record, which is
\* the one its titles come from, cannot be newer than the list in hand, and the
\* guard lets nothing older pass.
HistoryInv ==
  /\ ledger.instance \in Nat /\ ledger.instance <= instance
  /\ origin = ledger.instance
  /\ pc \in {"guard"} \cup Acting =>
       source \in Nat /\ source <= instance /\ ledger.instance <= source
  /\ pc \in Acting => client = source /\ ledger.instance = source

LEMMA HistoryStep ==
  ASSUME TypeOK, HistoryInv, [Next]_vars
  PROVE  HistoryInv'
<1>0. /\ instance \in Nat /\ source \in {None} \cup Nat
  BY DEF TypeOK, PassType, WorldType
<1> USE DEF Acting
<1>1. ASSUME UNCHANGED <<instance, record, client, source>>,
             \/ pc' = pc
             \/ {pc, pc'} \subseteq Acting
             \/ pc' \notin {"guard"} \cup Acting
      PROVE  HistoryInv'
  BY <1>1 DEF HistoryInv, record
<1>2. ASSUME UNCHANGED <<instance, record>>, Leave PROVE HistoryInv'
  BY <1>0, <1>2 DEF HistoryInv, Leave, record
<1>3. CASE EndSecond
  <2>1. Leave \/ (pc' = "guard" /\ source' = instance /\ client' = client)
    BY <1>3 DEF EndSecond
  <2>2. UNCHANGED <<instance, record>>
    BY <1>3 DEF EndSecond, seerr
  <2> QED BY <1>0, <1>2, <2>1, <2>2 DEF HistoryInv, record
<1>4. CASE Guard
  <2>1. UNCHANGED <<instance, origin>> /\ pc = "guard"
    BY <1>4 DEF Guard, seerr
  <2>2. CASE ledger' = [ledger EXCEPT !.review = TRUE] /\ Leave
    <3>1. ledger'.instance = ledger.instance
      BY <2>2 DEF TypeOK, WorldType
    <3> QED BY <1>0, <2>1, <2>2, <3>1 DEF HistoryInv, Leave
  <2>3. CASE /\ ~CloseoutGuard(instance) /\ pc' = "list" /\ client' = instance
             /\ UNCHANGED <<ledger, source>>
    <3>1. ledger.instance = instance
      BY <2>3, <1>0, CloseoutAssumption DEF CloseoutGuard, HistoryInv
    <3> QED BY <1>0, <2>1, <2>3, <3>1 DEF HistoryInv
  <2> QED BY <1>4, <2>2, <2>3 DEF Guard
<1>5. CASE Save
  <2>1. /\ ledger'.instance = client /\ origin' = source
        /\ UNCHANGED instance /\ Leave /\ pc = "title"
    BY <1>5 DEF Save, seerr
  <2> QED BY <1>0, <2>1 DEF HistoryInv, Leave
<1>6. CASE Rebaseline
  <2>1. /\ ledger'.instance = instance /\ origin' = instance /\ pc = "idle"
        /\ UNCHANGED <<instance, client, pc>>
    BY <1>6 DEF Rebaseline, seerr, work
  <2> QED BY <1>0, <2>1 DEF HistoryInv
<1>7. CASE Reinstall
  <2>1. instance' = instance + 1 /\ UNCHANGED <<record, client, source, pc>>
    BY <1>7 DEF Reinstall, passmemory
  <2> QED BY <1>0, <2>1 DEF HistoryInv, record
<1>8. CASE Start \/ ReadPage \/ EndFirst
  BY <1>1, <1>8 DEF Start, ReadPage, EndFirst, seerr, work
<1>9. CASE ReadUnstable \/ Abort
  BY <1>2, <1>9 DEF ReadUnstable, Abort, seerr
<1>10. CASE List \/ NextKind \/ Cancel
  BY <1>1, <1>10 DEF List, NextKind, ListTitles, Cancel, seerr
<1>11. ASSUME NEW s \in Slots, Skip(s) \/ Put(s) PROVE HistoryInv'
  BY <1>1, <1>11 DEF Skip, Put, seerr
<1>12. CASE \/ \E s \in Slots : Edit(s)
            \/ \E c \in Search : QueueSearch(c) \/ BeginSearch(c)
  BY <1>1, <1>12 DEF Edit, QueueSearch, BeginSearch, seerr, passmemory
<1>13. ASSUME NEW s \in Slots, Restore(s) PROVE HistoryInv'
  BY <1>2, <1>13 DEF Restore, seerr
<1>14. ASSUME NEW c \in Content, Request(c) PROVE HistoryInv'
  BY <1>1, <1>14 DEF Request, passmemory
<1>15. ASSUME NEW i \in Ids, Withdraw(i) \/ Decline(i) PROVE HistoryInv'
  BY <1>1, <1>15 DEF Withdraw, Decline, passmemory
<1>16. CASE UNCHANGED vars
  BY <1>1, <1>16 DEF vars, record
<1> QED
  BY <1>3, <1>4, <1>5, <1>6, <1>7, <1>8, <1>9, <1>10, <1>11, <1>12, <1>13, <1>14,
     <1>15, <1>16 DEF Next, PassStep, Environment

-----------------------------------------------------------------------------
(* What a pass switches off *)

\* A standing request that the list should hold covers its title, and its
\* seasons count.
LEMMA StandingCounts ==
  ASSUME ReadInv, pc = "title", NEW i \in Ids, i <= floor,
         NEW t \in Titles, NEW x \in Targets, Asks(i, t, x)
  PROVE  /\ t \in Active
         /\ x # Whole => \/ RequestedSeasons(t) = Unknown
                         \/ x \in RequestedSeasons(t)
<1>1. rows[i] # None
  BY DEF ReadInv, SnapshotIsComplete, Acting, Asks, Ids
<1>2. rows[i] \in Content /\ request[i] \in Content
  BY <1>1 DEF ReadInv, TypeOK, PassType, WorldType, Asks
<1>3. request[i] = rows[i]
  BY <1>1, <1>2 DEF ReadInv, Numbered, Asks, Content
<1>4. rows[i] \in Listed /\ rows[i].state = "open" /\ rows[i].title = t
  BY <1>1, <1>3 DEF Listed, Read, Asks
<1>5. t \in Active
  BY <1>4, CloseoutAssumption DEF Active
<1>6. ASSUME x # Whole, RequestedSeasons(t) # Unknown
      PROVE  x \in RequestedSeasons(t)
  <2> DEFINE wanted == {r.seasons : r \in {r \in Listed : r.title = t /\ r.state = "open"}}
  <2>1. rows[i].seasons \in wanted
    BY <1>4
  <2>2. Unknown \notin wanted /\ RequestedSeasons(t) = UNION wanted
    BY <1>6 DEF RequestedSeasons
  <2>3. x \in rows[i].seasons
    BY <1>3, <1>6, <2>1, <2>2 DEF Asks
  <2> QED BY <2>1, <2>2, <2>3
<1> QED BY <1>5, <1>6

LEMMA PutCancelsOnlyWithdrawn ==
  ASSUME ReadInv, WorkInv, NEW s \in Slots, Put(s), library[s] = view[s],
         NEW x \in Targets, On(library[s], x), ~On(library'[s], x)
  PROVE  /\ IF x = Whole THEN ledger.owned[s] # None ELSE Owns(s, x)
         /\ \A i \in 1 .. floor : ~Asks(i, library[s].title, x)
<1>1. /\ pc = "title" /\ view[s] # None /\ Removed(s) # {}
      /\ library'[s] = Updated(s) /\ floor \in 0 .. MaxRequests
  BY DEF Put, WorkInv, ReadInv, TypeOK, WorldType, PassType
<1>2. view[s] \in Row /\ Updated(s) \in Row
  BY <1>1, TitleTypes DEF ReadInv
<1>3. Prior(s) # None /\ ledger.owned[s] # None /\ ledger.owned[s].title = view[s].title
  BY <1>1 DEF Removed, Prior
<1>4. kind = "movie" \/ kind = "series"
  BY DEF ReadInv, TypeOK, PassType
<1>5. ASSUME NEW i \in 1 .. floor, Asks(i, library[s].title, x)
      PROVE  /\ Covered(s)
             /\ x # Whole => \/ RequestedSeasons(view[s].title) = Unknown
                             \/ x \in RequestedSeasons(view[s].title)
  <2>1. i \in Ids /\ i <= floor /\ view[s].title \in Titles
    BY <1>1, <1>2, CloseoutAssumption DEF Ids, Row
  <2> QED BY <1>1, <1>5, <2>1, StandingCounts DEF Covered
<1>6. CASE x = Whole
  <2>1. view[s].on /\ ~Updated(s).on
    BY <1>1, <1>6 DEF On
  <2>2. ~Covered(s)
    <3>1. CASE kind = "movie"
      BY <1>1, <3>1 DEF Removed
    <3>2. CASE kind = "series"
      BY <1>2, <2>1, <3>2 DEF Updated, Row
    <3> QED BY <1>4, <3>1, <3>2
  <2> QED BY <1>3, <1>5, <1>6, <2>2
<1>7. CASE x # Whole
  <2>1. x \in view[s].seasons /\ x \notin Updated(s).seasons
    BY <1>1, <1>7 DEF On
  <2>2. kind = "series" /\ x \in Removed(s)
    BY <1>2, <1>4, <2>1 DEF Updated, Row
  <2>3. /\ PriorSeasons(s) # Unknown /\ x \in PriorSeasons(s)
        /\ RequestedSeasons(view[s].title) # Unknown
        /\ x \notin RequestedSeasons(view[s].title)
    BY <2>2 DEF Removed
  <2>4. Owns(s, x)
    BY <1>1, <1>3, <2>3 DEF Owns, PriorSeasons, Prior
  <2> QED BY <1>5, <1>7, <2>3, <2>4
<1> QED BY <1>6, <1>7

LEMMA PassCancelsOnlyWithdrawn ==
  ASSUME ReadInv, WorkInv, [Next]_vars,
         pc = "title", pc' = "cancel", library[closing'] = view[closing'],
         NEW x \in Targets, On(library[closing'], x), ~On(library'[closing'], x)
  PROVE  /\ IF x = Whole THEN ledger.owned[closing'] # None ELSE Owns(closing', x)
         /\ \A i \in 1 .. floor : ~Asks(i, library[closing'].title, x)
<1>1. ASSUME NEW s \in Slots, Put(s)
      PROVE  /\ IF x = Whole THEN ledger.owned[closing'] # None ELSE Owns(closing', x)
             /\ \A i \in 1 .. floor : ~Asks(i, library[closing'].title, x)
  <2>1. closing' = s
    BY <1>1 DEF Put
  <2> QED BY <1>1, <2>1, PutCancelsOnlyWithdrawn
<1>2. \E s \in Slots : Put(s)
  <2>1. ~(Start \/ ReadPage \/ ReadUnstable \/ EndFirst \/ EndSecond \/ Guard)
    BY DEF Start, ReadPage, ReadUnstable, EndFirst, EndSecond, Guard
  <2>2. ~(List \/ Cancel \/ NextKind \/ Save \/ Abort \/ \E s \in Slots : Skip(s) \/ Restore(s))
    BY DEF List, Cancel, NextKind, ListTitles, Save, Abort, Skip, Restore, Leave
  <2>3. ~(UNCHANGED vars \/ Reinstall \/ Rebaseline)
    BY DEF vars, Reinstall, Rebaseline, passmemory
  <2>4. ~((\E c \in Content : Request(c)) \/ \E i \in Ids : Withdraw(i) \/ Decline(i))
    BY DEF Request, Withdraw, Decline, passmemory
  <2>5. ~((\E s \in Slots : Edit(s)) \/ \E c \in Search : QueueSearch(c) \/ BeginSearch(c))
    BY DEF Edit, QueueSearch, BeginSearch, passmemory
  <2> QED BY <2>1, <2>2, <2>3, <2>4, <2>5 DEF Next, PassStep, Environment
<1> QED BY <1>1, <1>2

-----------------------------------------------------------------------------
(* Theorems *)

LEMMA Begins == Init => ReadInv
<1> SUFFICES ASSUME Init PROVE ReadInv
  OBVIOUS
<1>1. TypeOK
  BY TypeInit
<1>2. Read = {} /\ pc = "idle" /\ total = None /\ floor = 0 /\ created = 0
  BY DEF Init, Read, NoRequests
<1>3. \A i \in Ids : request[i] = None /\ rows[i] = None /\ before[i] = None
  BY DEF Init, NoRequests
<1>4. Numbered /\ Blank /\ Tracked /\ SnapshotIsComplete
  BY <1>2, <1>3 DEF Numbered, Blank, Tracked, SnapshotIsComplete, Acting
<1> QED BY <1>1, <1>4 DEF ReadInv

\* Every state is well typed, for any titles, requests, page size and bounds.
THEOREM TypeCorrect == Spec => []TypeOK
<1>1. Spec => [](TypeOK /\ WorkInv)
  BY TypeInit, TypeStep, PTL DEF Spec
<1> QED BY <1>1, PTL

LEMMA Reads == Spec => [](ReadInv /\ WorkInv)
<1>1. Init => ReadInv /\ WorkInv
  BY Begins, TypeInit
<1>2. ReadInv /\ WorkInv /\ [Next]_vars => (ReadInv /\ WorkInv)'
  BY ReadStep, TypeStep DEF ReadInv
<1> QED BY <1>1, <1>2, PTL DEF Spec

\* Two agreeing snapshots miss no request that stood throughout the second,
\* in either order of the list and for any page size (request_policy lines
\* 9-40 and 99-106).
THEOREM SnapshotsAreComplete == Spec => []SnapshotIsComplete
<1>1. ReadInv => SnapshotIsComplete
  BY DEF ReadInv
<1> QED BY <1>1, Reads, PTL

\* Once an instance is on record, as it is after the first pass, no pass acts
\* on the list of one Seerr history and the titles owned by another, however
\* often Seerr is set up anew, between passes or within one.
THEOREM HistoriesAgree == None \notin Recorded => (Spec => []OneHistory)
<1> SUFFICES ASSUME None \notin Recorded PROVE Spec => []OneHistory
  OBVIOUS
<1>1. Init => HistoryInv
  BY CloseoutAssumption DEF Init, HistoryInv, Acting
<1>2. TypeOK /\ HistoryInv /\ [Next]_vars => HistoryInv'
  BY HistoryStep
<1>3. HistoryInv => OneHistory
  BY DEF HistoryInv, OneHistory
<1> QED BY <1>1, <1>2, <1>3, TypeCorrect, PTL DEF Spec

\* A pass switches off only what it owned and nobody it could see asks for.
THEOREM OnlyWithdrawnIsCancelled == Spec => CancelsOnlyWithdrawn
<1>1. ReadInv /\ WorkInv /\ [Next]_vars =>
        [pc = "title" /\ pc' = "cancel" /\ library[closing'] = view[closing'] =>
           \A x \in Targets :
             On(library[closing'], x) /\ ~On(library'[closing'], x) =>
               /\ IF x = Whole THEN ledger.owned[closing'] # None ELSE Owns(closing', x)
               /\ \A i \in 1 .. floor : ~Asks(i, library[closing'].title, x)]_vars
  BY PassCancelsOnlyWithdrawn
<1> QED BY <1>1, Reads, PTL DEF Spec, CancelsOnlyWithdrawn
=============================================================================
