------------------------------ MODULE StackLock ------------------------------
(***************************************************************************)
(* What the stack lock promises whoever changes the applications           *)
(* (pompey_runtime.stack_lock and run_process): only the owner of the lock *)
(* changes them, an owner's whole mutation is over before the lock passes  *)
(* on, and the lock passes from one owner to another only by being free.   *)
(* The one exception is a death: the lock of a dead owner is free at once, *)
(* and what it had begun may go on as a stray until it ends by itself.     *)
(* Who the processes are, what they do while they own the lock and how     *)
(* long they wait for it is left to the modules that implement this one.   *)
(***************************************************************************)
EXTENDS Naturals

CONSTANT Processes

VARIABLES
  owner,     \* the process that owns the lock, or "free"
  changing,  \* processes that are changing the applications
  strays,    \* dead processes whose mutation still runs
  deaths     \* how often an owner may have died

vars == <<owner, changing, strays, deaths>>

Init ==
  /\ owner = "free" /\ changing = {}
  /\ strays = {} /\ deaths = 0

\* An owner may look around before it changes anything.
Take(p) ==
  /\ owner = "free" /\ owner' = p
  /\ changing' \in SUBSET {p}
  /\ UNCHANGED <<strays, deaths>>

Work(p) ==
  /\ owner = p /\ changing' \in SUBSET {p}
  /\ UNCHANGED <<owner, strays, deaths>>

\* The owner has finished or stopped all that it began.
Release(p) ==
  /\ owner = p /\ owner' = "free" /\ changing' = {}
  /\ UNCHANGED <<strays, deaths>>

\* A death takes the lock along only when it meets the owner.
Die ==
  /\ deaths' = deaths + 1
  /\ \/ UNCHANGED <<owner, changing, strays>>
     \/ /\ owner' = "free" /\ changing' = {}
        /\ strays' \in {strays, strays \cup changing}

Fade ==
  /\ strays' \in SUBSET strays
  /\ UNCHANGED <<owner, changing, deaths>>

Next == Die \/ Fade \/ \E p \in Processes : Take(p) \/ Work(p) \/ Release(p)

Spec == Init /\ [][Next]_vars
=============================================================================
