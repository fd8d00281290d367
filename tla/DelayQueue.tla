----------------------------- MODULE DelayQueue -----------------------------
(***************************************************************************)
(* What a user of GTD may rely on, with no priority, no polling and no     *)
(* rounding: a submitted task waits until the clock has passed its due     *)
(* time and is then handed out once.  A task is [id, due]; due is 0 for a  *)
(* task that asked for no delay, and an id is free again when its task is  *)
(* done.                                                                   *)
(***************************************************************************)
EXTENDS Integers

CONSTANT Id  \* what tells tasks under way apart

VARIABLES
  pending,    \* tasks submitted and not handed out
  delivered,  \* tasks handed out and not done
  clock       \* the clock the due times refer to

dqVars == <<pending, delivered, clock>>

DQInit ==
  /\ pending = {}
  /\ delivered = {}
  /\ clock \in Nat

(* A new task enters, under an id of its own. *)
Submit(t) ==
  /\ \A u \in pending \cup delivered : u.id # t.id
  /\ pending' = pending \cup {t}
  /\ UNCHANGED <<delivered, clock>>

(* A task leaves only after its due time. *)
Deliver(t) ==
  /\ t \in pending
  /\ t.due < clock
  /\ pending' = pending \ {t}
  /\ delivered' = delivered \cup {t}
  /\ UNCHANGED clock

(* Its receiver is done with a task. *)
Done(t) ==
  /\ t \in delivered
  /\ delivered' = delivered \ {t}
  /\ UNCHANGED <<pending, clock>>

(* The clock is the system's wall clock: it may also be set back. *)
ClockMoves ==
  /\ clock' \in Nat
  /\ UNCHANGED <<pending, delivered>>

DQNext ==
  \/ \E t \in pending' \ pending : t \in [id : Id, due : Nat] /\ Submit(t)
  \/ \E t \in pending : Deliver(t)
  \/ \E t \in delivered : Done(t)
  \/ ClockMoves

DQSpec == DQInit /\ [][DQNext]_dqVars
=============================================================================
