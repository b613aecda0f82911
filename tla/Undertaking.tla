----------------------------- MODULE Undertaking -----------------------------
(***************************************************************************)
(* What a destructive operation of several steps promises the user who     *)
(* confirmed it (pompey_recovery.reject): a confirmation is good for one   *)
(* operation, recorded before its first step; its record says at each      *)
(* moment no more than what has been brought about; it may end at any      *)
(* step, and what has ended is never taken up again.                       *)
(* What makes the things go, what bars their source, who else may do       *)
(* either, and why an operation ends early is left to the module that      *)
(* implements this one.                                                    *)
(***************************************************************************)

CONSTANTS Operations, Confirmations, Things

VARIABLES
  stage,   \* what the record says of each operation, "none" if not begun
  used,    \* confirmations on record
  left,    \* the things confirmed for removal that are still there
  barred,  \* operations whose things cannot come back
  active   \* the operation under way, if there is one

vars == <<stage, used, left, barred, active>>

Begun == {o \in Operations : stage[o] # "none"}

Init ==
  /\ stage = [o \in Operations |-> "none"] /\ used = {}
  /\ left = [o \in Operations |-> {}] /\ barred = {}
  /\ active = {}

Begin(o, c) ==
  /\ active = {} /\ stage[o] = "none" /\ c \notin used
  /\ stage' = [stage EXCEPT ![o] = "prepared"]
  /\ used' = used \cup {c}
  /\ \E T \in SUBSET Things : left' = [left EXCEPT ![o] = T]
  /\ barred' \in {barred, barred \cup {o}}
  /\ active' = {o}

\* Things go, one of an operation under way or any other; none comes back.
Go ==
  /\ left' \in [Operations -> SUBSET Things]
  /\ \A o \in Operations : left'[o] \subseteq left[o]
  /\ UNCHANGED <<stage, used, barred, active>>

\* Only when all of its things are gone does an operation bar their source.
Bar(o) ==
  /\ active = {o} /\ stage[o] \in {"prepared", "removing"} /\ left[o] = {}
  /\ barred' \in SUBSET Begun /\ barred \cup {o} \subseteq barred'
  /\ UNCHANGED <<stage, used, left, active>>

Advance(o, s) ==
  /\ active = {o} /\ stage[o] \in {"prepared", "removing"}
  /\ s = "blocked" => left[o] = {} /\ o \in barred
  /\ stage' = [stage EXCEPT ![o] = s]
  /\ UNCHANGED <<used, left, barred, active>>

\* It has asked for a replacement, needs a review, or was cut off.
End(o) ==
  /\ active = {o} /\ active' = {}
  /\ \/ stage' = stage
     \/ stage' = [stage EXCEPT ![o] = "needs-review"]
     \/ stage[o] = "blocked" /\ stage' = [stage EXCEPT ![o] = "retry-requested"]
  /\ UNCHANGED <<used, left, barred>>

Next ==
  \/ Go
  \/ \E o \in Operations :
       \/ \E c \in Confirmations : Begin(o, c)
       \/ Bar(o) \/ End(o)
       \/ \E s \in {"removing", "blocked"} : Advance(o, s)

Spec == Init /\ [][Next]_vars
=============================================================================
