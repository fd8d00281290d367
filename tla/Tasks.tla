------------------------------- MODULE Tasks -------------------------------
(***************************************************************************)
(* The task vocabulary of inc/gtd.h: the TaskType enumeration, whose       *)
(* numbers are the priorities, and the order operator>(Task, Task) that    *)
(* std::greater hands to the priority queue.  The queue's top is an        *)
(* element that no other element precedes in this order; the heap is not   *)
(* stable, so among equal elements any of them may be the top.             *)
(***************************************************************************)
EXTENDS Integers

SENDPRIORITY       == 0
SEND               == 1
HELLO              == 2
SYNC_UTXO          == 3
EXPAND_CONNECTION  == 4
REQ_IPS            == 5
REQ_HASHSET_FILTER == 6
REQ_HASHSET        == 7
SYNC_HASHSET       == 8

TaskType == SENDPRIORITY..SYNC_HASHSET

(* Mutant: the type decides before the time does. *)
TypeFirst(l, r) ==
  \/ l.type < r.type
  \/ l.type = r.type /\ l.time < r.time

(* operator<(Task, Task): earlier time first, then the smaller type. *)
Before(l, r) ==
  \/ l.time < r.time
  \/ l.time = r.time /\ l.type < r.type

(* What q.top() may return for a queue holding the tasks in set Q. *)
IsTop(t, Q) == t \in Q /\ \A u \in Q : ~Before(u, t)
=============================================================================
