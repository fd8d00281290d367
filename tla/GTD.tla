-------------------------------- MODULE GTD --------------------------------
(***************************************************************************)
(* struct GTD of inc/gtd.h: one queue of tasks, filled by several threads  *)
(* and emptied by the one thread that owns it (the manager, or the thread  *)
(* of a connection).  The clock is std::chrono::system_clock in ticks,     *)
(* TPS of them to a second; task times are std::time_t, whole seconds.     *)
(* The mutex m makes each push and each inspection of the top one step,    *)
(* but the delayed add reads the clock BEFORE it takes the mutex, so that  *)
(* add is two steps.                                                       *)
(***************************************************************************)
EXTENDS Tasks, FiniteSets

CONSTANTS
  Producer,   \* threads that call add
  Types,      \* the task types they use
  Delay,      \* the delays they ask for, in ticks
  TPS,        \* ticks per second
  Id,         \* names of tasks; bound: as many are under way at once
  MaxNow,     \* bound: last tick of the clock
  MaxAdjust,  \* bound: times the wall clock is set back
  None        \* no task

ASSUME GTDAssumption ==
  /\ Types \subseteq TaskType
  /\ Delay \subseteq Nat
  /\ TPS \in Nat \ {0}
  /\ MaxNow \in Nat
  /\ MaxAdjust \in Nat

VARIABLES
  q,         \* contents of the priority queue
  timed,     \* per producer: task whose time is computed but not yet pushed
  cpc,       \* the owner: "poll", "sleep" (between two polls) or "run"
  now,       \* the system clock
  running,   \* the task operator()() returned and its owner is carrying out
  adjusts    \* history: number of times the clock was set back

vars == <<q, timed, cpc, now, running, adjusts>>

(* A task; id and due are bookkeeping, the code has type and time. *)
Task == [id : Id, type : TaskType, time : Nat, due : Nat]

ASSUME NoneAssumption == None \notin Task

(* system_clock::to_time_t: ticks truncated to seconds. *)
to_time_t(t) == t \div TPS

(* The tasks added and not returned, some of them on their way to the queue. *)
InFlight == q \cup {timed[p] : p \in {r \in Producer : timed[r] # None}}

FreeIds == Id \ {t.id : t \in InFlight \cup running}

(* A name for the next task, taken again once its task is done. *)
freeId == CHOOSE i \in FreeIds : TRUE

(* The program starts at least a second after the epoch. *)
Init ==
  /\ q = {}
  /\ timed = [p \in Producer |-> None]
  /\ cpc = "poll"
  /\ now = TPS
  /\ running = {}
  /\ adjusts = 0

(* add(Task): time 0, push under the mutex. *)
Add(p, ty) ==
  /\ FreeIds # {}
  /\ timed[p] = None
  /\ q' = q \cup {[id |-> freeId, type |-> ty, time |-> 0, due |-> 0]}
  /\ UNCHANGED <<timed, cpc, now, running, adjusts>>

(* Mutant: the delay is counted backwards. *)
AddStampsBack(p, ty, dur) ==
  /\ FreeIds # {}
  /\ timed[p] = None
  /\ to_time_t(now + dur) < to_time_t(MaxNow)
  /\ timed' = [timed EXCEPT ![p] =
       [id |-> freeId, type |-> ty, time |-> to_time_t(dur) - to_time_t(now), due |-> now + dur]]
  /\ UNCHANGED <<q, cpc, now, running, adjusts>>

(* add(Task, dur), first half: the clock is read and the time computed. *)
AddStamp(p, ty, dur) ==
  /\ FreeIds # {}
  /\ timed[p] = None
  /\ to_time_t(now + dur) < to_time_t(MaxNow)
  /\ timed' = [timed EXCEPT ![p] =
       [id |-> freeId, type |-> ty, time |-> to_time_t(now + dur), due |-> now + dur]]
  /\ UNCHANGED <<q, cpc, now, running, adjusts>>

(* add(Task, dur), second half: the push under the mutex. *)
AddPush(p) ==
  /\ timed[p] # None
  /\ q' = q \cup {timed[p]}
  /\ timed' = [timed EXCEPT ![p] = None]
  /\ UNCHANGED <<cpc, now, running, adjusts>>

(* Mutant: <= in place of <. *)
ReadyAtSameSecond(t) == t.time <= to_time_t(now)

(* task.time < to_time_t(now()): the comparison is between whole seconds. *)
Ready(t) == t.time < to_time_t(now)

(* operator()(): one inspection of the top, which pops it when it is ready. *)
PollReturns(t) ==
  /\ cpc = "poll"
  /\ IsTop(t, q)
  /\ Ready(t)
  /\ q' = q \ {t}
  /\ running' = {t}
  /\ cpc' = "run"
  /\ UNCHANGED <<timed, now, adjusts>>

(* Mutant: the top is popped before its time is looked at. *)
PollDrops ==
  /\ cpc = "poll"
  /\ \A t \in q : IsTop(t, q) => ~Ready(t)
  /\ cpc' = "sleep"
  /\ q' = {t \in q : ~IsTop(t, q)}
  /\ UNCHANGED <<timed, now, running, adjusts>>

(* operator()(): nothing ready, sleep 100 ms with the mutex released. *)
PollSleeps ==
  /\ cpc = "poll"
  /\ \A t \in q : IsTop(t, q) => ~Ready(t)
  /\ cpc' = "sleep"
  /\ UNCHANGED <<q, timed, now, running, adjusts>>

(* The sleep is over. *)
Wake ==
  /\ cpc = "sleep"
  /\ cpc' = "poll"
  /\ UNCHANGED <<q, timed, now, running, adjusts>>

(* The owner is done with the task and calls operator()() again. *)
Finish ==
  /\ cpc = "run"
  /\ cpc' = "poll"
  /\ running' = {}
  /\ UNCHANGED <<q, timed, now, adjusts>>

(* The wall clock advances ... *)
Tick ==
  /\ now < MaxNow
  /\ now' = now + 1
  /\ UNCHANGED <<q, timed, cpc, running, adjusts>>

(* ... and is sometimes set back: system_clock is not a steady clock. *)
SetBack ==
  /\ adjusts < MaxAdjust
  /\ now' \in TPS..(now - 1)
  /\ adjusts' = adjusts + 1
  /\ UNCHANGED <<q, timed, cpc, running>>

Next ==
  \/ \E p \in Producer, ty \in Types : Add(p, ty)
  \/ \E p \in Producer, ty \in Types, dur \in Delay : AddStamp(p, ty, dur)
  \/ \E p \in Producer : AddPush(p)
  \/ \E t \in q : PollReturns(t)
  \/ PollSleeps
  \/ Wake
  \/ Finish
  \/ Tick
  \/ SetBack

Spec == Init /\ [][Next]_vars

(* The producers finish the add they began, the owner's sleep of 100 ms     *)
(* ends and time passes.  Nothing is assumed of Finish: what the owner does *)
(* with a task may hold it for ever (recv in a connection's thread).        *)
FairSpec ==
  /\ Spec
  /\ \A p \in Producer : WF_vars(AddPush(p))
  /\ WF_vars(\E t \in q : PollReturns(t))
  /\ WF_vars(PollSleeps)
  /\ WF_vars(Wake)
  /\ WF_vars(Tick)
-----------------------------------------------------------------------------
(* Every variable keeps its type. *)
TypeOK ==
  /\ q \subseteq Task
  /\ timed \in [Producer -> Task \cup {None}]
  /\ cpc \in {"poll", "sleep", "run"}
  /\ now \in Nat
  /\ running \subseteq Task
  /\ adjusts \in Nat

Outline(S) == {[id |-> t.id, due |-> t.due] : t \in S}

DQ == INSTANCE DelayQueue WITH
        pending <- Outline(InFlight), delivered <- Outline(running), clock <- now

(* GTD implements the delay queue: whatever the seconds are rounded to and  *)
(* whenever the mutex is won, no task is returned before its delay is over, *)
(* none is returned twice and none appears from nowhere                     *)
(* (GTD::operator() compares whole seconds with <, GTD::add truncates).     *)
ImplementsDelayQueue == DQ!DQSpec

(* Rounding to seconds costs less than a second of order: a task returned   *)
(* by operator()() has no task left in the queue whose deadline is a second *)
(* or more before its own.                                                  *)
DeadlineOrder ==
  [][\A t \in running' \ running : \A u \in q' : t.due < u.due + TPS]_vars

(* Immediate tasks of these types are added without end. *)
EndlessAdds(types) == []<><<\E p \in Producer, ty \in types : Add(p, ty)>>_vars

(* A task handed to add, named i, of one of these types and times, waits. *)
Waits(i, types, times) ==
  \E t \in InFlight : t.id = i /\ t.type \in types /\ t.time \in times

Returned(i) == \E t \in running : t.id = i

(* Unless its owner is held by a task for ever, operator()() returns every  *)
(* task that was added, also when the wall clock is set back a few times on *)
(* the way; only immediate tasks added without end keep it from a task, and *)
(* from an immediate one only those that are as urgent (operator<(Task,     *)
(* Task) puts time 0 before all times, and then the smaller type).          *)
EveryTaskReturned ==
  \/ <>[](cpc = "run")
  \/ /\ \/ EndlessAdds(Types)
        \/ \A i \in Id : Waits(i, Types, 0..MaxNow) ~> Returned(i)
     /\ \A ty \in Types :
          \/ EndlessAdds({u \in Types : u <= ty})
          \/ \A i \in Id : Waits(i, {ty}, {0}) ~> Returned(i)
=============================================================================
