----------------------------- MODULE GTD_proofs -----------------------------
(***************************************************************************)
(* Proofs about GTD, for every set of producers, every delay and every     *)
(* length of a second.                                                     *)
(***************************************************************************)
EXTENDS GTD, TLAPS

(* Truncating to seconds gives a natural number. *)
LEMMA SecondsNat == \A x \in Nat : to_time_t(x) \in Nat
  BY GTDAssumption, Z3 DEF to_time_t

(* A strictly earlier second is an earlier tick. *)
LEMMA EarlierSecond ==
  \A x, y \in Nat : to_time_t(x) < to_time_t(y) => x < y
  BY GTDAssumption, Z3 DEF to_time_t

(* A second that is not later is less than a second later in ticks. *)
LEMMA NotLaterSecond ==
  \A x, y \in Nat : to_time_t(x) <= to_time_t(y) => x < y + TPS
  BY GTDAssumption, Z3 DEF to_time_t

(* Zero ticks are zero seconds. *)
LEMMA ZeroSeconds == to_time_t(0) = 0
  BY GTDAssumption, Z3 DEF to_time_t

(* A task that is added gets a name no task under way has. *)
LEMMA FreshName == FreeIds # {} => freeId \in FreeIds /\ freeId \in Id
  BY DEF freeId, FreeIds
-----------------------------------------------------------------------------
(* The empty queue is well typed.                                          *)
LEMMA TypeInit == Init => TypeOK
  BY GTDAssumption DEF Init, TypeOK

(* Every operation of GTD, and the clock, keeps the types.                 *)
LEMMA TypeStep == TypeOK /\ [Next]_vars => TypeOK'
<1> SUFFICES ASSUME TypeOK, [Next]_vars PROVE TypeOK'
  OBVIOUS
<1> USE DEF TypeOK
<1>1. ASSUME NEW p \in Producer, NEW ty \in Types, Add(p, ty) PROVE TypeOK'
  <2>1. [id |-> freeId, type |-> ty, time |-> 0, due |-> 0] \in Task
    BY <1>1, FreshName, GTDAssumption DEF Task, Add
  <2> QED BY <1>1, <2>1 DEF Add
<1>2. ASSUME NEW p \in Producer, NEW ty \in Types, NEW dur \in Delay, AddStamp(p, ty, dur)
      PROVE TypeOK'
  <2>1. now + dur \in Nat
    BY GTDAssumption
  <2>2. [id |-> freeId, type |-> ty, time |-> to_time_t(now + dur), due |-> now + dur] \in Task
    BY <1>2, <2>1, FreshName, SecondsNat, GTDAssumption DEF Task, AddStamp
  <2> QED BY <1>2, <2>2 DEF AddStamp
<1>3. ASSUME NEW p \in Producer, AddPush(p) PROVE TypeOK'
  BY <1>3 DEF AddPush
<1>4. ASSUME NEW t \in q, PollReturns(t) PROVE TypeOK'
  BY <1>4 DEF PollReturns
<1>5. CASE PollSleeps
  BY <1>5 DEF PollSleeps
<1>6. CASE Wake
  BY <1>6 DEF Wake
<1>10. CASE Finish
  BY <1>10 DEF Finish
<1>7. CASE Tick
  BY <1>7 DEF Tick
<1>8. CASE SetBack
  <2>1. now' \in Nat
    BY <1>8, GTDAssumption DEF SetBack
  <2> QED BY <1>8, <2>1 DEF SetBack
<1>9. CASE UNCHANGED vars
  BY <1>9 DEF vars
<1> QED BY <1>1, <1>2, <1>3, <1>4, <1>5, <1>6, <1>7, <1>8, <1>9, <1>10 DEF Next

(* GTD's variables keep their types: in particular the times computed by    *)
(* GTD::add are never negative, whatever delay is asked for.                *)
THEOREM TypeCorrect == Spec => []TypeOK
  BY TypeInit, TypeStep, PTL DEF Spec
-----------------------------------------------------------------------------
(* Every task in the queue, on its way to it or being carried out. *)
Known == InFlight \cup running

(* A task's time is its deadline in seconds. *)
Stamped == \A t \in Known : t.time = to_time_t(t.due)

(* Ids tell tasks apart, and no task is in two places. *)
Identified ==
  /\ \A t, u \in Known : t.id = u.id => t = u
  /\ InFlight \cap running = {}
  /\ \A p \in Producer : timed[p] # None => timed[p] \notin q
  /\ \A p, r \in Producer : timed[p] = timed[r] /\ timed[p] # None => p = r

(* The owner has one task in hand while it runs, and else none. *)
Idle ==
  /\ cpc # "run" => running = {}
  /\ cpc = "run" => \E t \in running : running = {t}

Inv == TypeOK /\ Stamped /\ Identified /\ Idle

(* The invariant holds of a queue nothing was added to.                    *)
LEMMA InvInit == Init => Inv
<1> SUFFICES ASSUME Init PROVE Inv
  OBVIOUS
<1>1. TypeOK
  BY TypeInit
<1>2. Known = {}
  BY DEF Init, Known, InFlight
<1> QED BY <1>1, <1>2 DEF Init, Inv, Stamped, Identified, Idle, Known

(* What the steps that submit a task have in common. *)
LEMMA NewTask ==
  ASSUME Inv, NEW t \in Task, t.id \in FreeIds, t.time = to_time_t(t.due),
         running' = running, InFlight' = InFlight \cup {t},
         TypeOK', Idle',
         \A p \in Producer : timed'[p] # None => timed'[p] \notin q',
         \A p, r \in Producer : timed'[p] = timed'[r] /\ timed'[p] # None => p = r
  PROVE  Inv'
<1>1. Known' = Known \cup {t}
  BY DEF Known
<1>2. Known \subseteq Task
  BY DEF Inv, TypeOK, Known, InFlight
<1>3. Stamped'
  BY <1>1 DEF Inv, Stamped, to_time_t
<1>4. \A u \in Known : u.id # t.id
  BY DEF FreeIds, Known
<1>6. \A u, v \in Known' : u.id = v.id => u = v
  BY <1>1, <1>4 DEF Inv, Identified
<1>7. InFlight' \cap running' = {}
  BY <1>4 DEF Inv, Identified, Known
<1> QED BY <1>3, <1>6, <1>7 DEF Inv, Identified

(* Only the owner takes a task in hand, one at a time.                     *)
LEMMA IdleStep == Inv /\ [Next]_vars => Idle'
<1> SUFFICES ASSUME Inv, [Next]_vars PROVE Idle'
  OBVIOUS
<1>1. ASSUME NEW t \in q, PollReturns(t) PROVE Idle'
  BY <1>1 DEF PollReturns, Idle
<1>2. CASE Finish
  BY <1>2 DEF Finish, Idle
<1>3. CASE PollSleeps \/ Wake
  BY <1>3 DEF PollSleeps, Wake, Inv, Idle
<1>4. ASSUME UNCHANGED <<cpc, running>> PROVE Idle'
  BY <1>4 DEF Inv, Idle
<1> QED BY <1>1, <1>2, <1>3, <1>4 DEF Next, vars, Add, AddStamp, AddPush, Tick, SetBack

(* add, the poll of operator()() and the clock keep the invariant.         *)
LEMMA InvStep == Inv /\ [Next]_vars => Inv'
<1> SUFFICES ASSUME Inv, [Next]_vars PROVE Inv'
  OBVIOUS
<1>0. TypeOK /\ TypeOK' /\ Idle'
  BY TypeStep, IdleStep DEF Inv
<1>k. Known \subseteq Task
  BY DEF Inv, TypeOK, Known, InFlight
<1>1. ASSUME NEW p \in Producer, NEW ty \in Types, Add(p, ty) PROVE Inv'
  <2> DEFINE t == [id |-> freeId, type |-> ty, time |-> 0, due |-> 0]
  <2>1. t \in Task
    BY <1>1, FreshName, GTDAssumption DEF Task, Add
  <2>2. InFlight' = InFlight \cup {t}
    BY <1>1 DEF Add, InFlight
  <2>f. freeId \in FreeIds
    BY <1>1, FreshName DEF Add
  <2>0. t \notin Known
    BY <2>f DEF Known, FreeIds
  <2>3. \A r \in Producer : timed[r] # None => timed[r] # t
    BY <2>0 DEF Known, InFlight
  <2>4. t.id \in FreeIds /\ t.time = to_time_t(t.due)
    BY <2>f, ZeroSeconds
  <2>5. q' = q \cup {t} /\ UNCHANGED <<timed, running>>
    BY <1>1 DEF Add
  <2> HIDE DEF t
  <2>6. \A r \in Producer : timed'[r] # None => timed'[r] \notin q'
    BY <2>3, <2>5 DEF Inv, Identified
  <2>7. \A r, s \in Producer : timed'[r] = timed'[s] /\ timed'[r] # None => r = s
    BY <2>5 DEF Inv, Identified
  <2> QED BY <1>0, <2>1, <2>2, <2>4, <2>5, <2>6, <2>7, NewTask
<1>2. ASSUME NEW p \in Producer, NEW ty \in Types, NEW dur \in Delay, AddStamp(p, ty, dur)
      PROVE Inv'
  <2> DEFINE t == [id |-> freeId, type |-> ty, time |-> to_time_t(now + dur), due |-> now + dur]
  <2>1. now + dur \in Nat
    BY <1>0, GTDAssumption DEF TypeOK
  <2>2. t \in Task
    BY <1>2, <2>1, FreshName, SecondsNat, GTDAssumption DEF Task, AddStamp
  <2>f. freeId \in FreeIds
    BY <1>2, FreshName DEF AddStamp
  <2>3. t.id \in FreeIds /\ t.time = to_time_t(t.due)
    BY <2>f
  <2>4. timed[p] = None /\ timed' = [timed EXCEPT ![p] = t]
        /\ UNCHANGED <<q, running>>
    BY <1>2 DEF AddStamp
  <2>5. t \notin Known
    BY <2>f DEF Known, FreeIds
  <2> HIDE DEF t
  <2>7. t # None
    BY <2>2, NoneAssumption
  <2>8. InFlight' = InFlight \cup {t}
    BY <2>4, <2>7, <1>0 DEF InFlight, TypeOK
  <2>9. \A r \in Producer : timed'[r] # None => timed'[r] \notin q'
    BY <2>4, <2>5, <1>0 DEF Inv, Identified, TypeOK, Known, InFlight
  <2>10. \A r \in Producer : timed[r] # None => timed[r] # t
    BY <2>5 DEF Known, InFlight
  <2>11. \A r, s \in Producer : timed'[r] = timed'[s] /\ timed'[r] # None => r = s
    BY <2>4, <2>10, <1>0 DEF Inv, Identified, TypeOK
  <2> QED BY <1>0, <2>2, <2>3, <2>4, <2>8, <2>9, <2>11, NewTask
<1>3. ASSUME NEW p \in Producer, AddPush(p) PROVE Inv'
  <2>1. InFlight' = InFlight
    BY <1>3, <1>0 DEF AddPush, InFlight, TypeOK
  <2>2. Known' = Known /\ UNCHANGED running
    BY <1>3, <2>1 DEF AddPush, Known
  <2>3. \A r \in Producer : timed'[r] # None => timed'[r] \notin q'
    BY <1>3, <1>0 DEF AddPush, Inv, Identified, TypeOK
  <2>4. \A r, s \in Producer : timed'[r] = timed'[s] /\ timed'[r] # None => r = s
    BY <1>3, <1>0 DEF AddPush, Inv, Identified, TypeOK
  <2> QED BY <1>0, <2>1, <2>2, <2>3, <2>4 DEF Inv, Stamped, Identified, to_time_t
<1>4. ASSUME NEW t \in q, PollReturns(t) PROVE Inv'
  <2>1. InFlight' = InFlight \ {t} /\ running' = {t} /\ t \in InFlight
    BY <1>4 DEF PollReturns, InFlight, Inv, Identified
  <2>2. Known' \subseteq Known
    BY <2>1 DEF Known
  <2>3. InFlight' \cap running' = {}
    BY <2>1
  <2>4. \A r \in Producer : timed'[r] # None => timed'[r] \notin q'
    BY <1>4 DEF PollReturns, Inv, Identified
  <2>5. timed' = timed
    BY <1>4 DEF PollReturns
  <2> QED BY <1>0, <2>2, <2>3, <2>4, <2>5 DEF Inv, Stamped, Identified, to_time_t
<1>6. CASE Finish
  <2>1. InFlight' = InFlight /\ running' = {} /\ UNCHANGED <<q, timed>>
    BY <1>6 DEF Finish, InFlight
  <2>2. Known' \subseteq Known
    BY <2>1 DEF Known
  <2> QED BY <1>0, <2>1, <2>2 DEF Inv, Stamped, Identified, to_time_t
<1>5. ASSUME UNCHANGED <<q, timed, running>> PROVE Inv'
  BY <1>0, <1>5 DEF Inv, Stamped, Identified, Known, InFlight, to_time_t
<1> QED BY <1>1, <1>2, <1>3, <1>4, <1>5, <1>6
        DEF Next, vars, PollSleeps, Wake, Tick, SetBack

(* The invariant holds throughout: ids identify tasks, and a task's stored *)
(* time is its deadline cut to seconds (gtd.h, add and operator()()).      *)
THEOREM Invariance == Spec => []Inv
  BY InvInit, InvStep, PTL DEF Spec
-----------------------------------------------------------------------------
(* The top of the queue is never the later of two deadlines by a second or  *)
(* more: the order of operator>(Task, Task) and the truncation of GTD::add  *)
(* cost less than a second of order.                                        *)
THEOREM DeadlineOrderHolds == Spec => DeadlineOrder
<1>1. Inv /\ [Next]_vars => [\A t \in running' \ running : \A u \in q' : t.due < u.due + TPS]_vars
  <2> SUFFICES ASSUME Inv, Next, NEW t \in running' \ running, NEW u \in q'
               PROVE  t.due < u.due + TPS
    BY DEF vars
  <2>1. PICK r \in q : PollReturns(r)
    BY DEF Next, Add, AddStamp, AddPush, PollSleeps, Wake, Finish, Tick, SetBack
  <2>2. t = r /\ u \in q /\ ~Before(u, t)
    BY <2>1 DEF PollReturns, IsTop
  <2>3. t \in Task /\ u \in Task
    BY <2>1, <2>2 DEF Inv, TypeOK
  <2>4. t.time = to_time_t(t.due) /\ u.time = to_time_t(u.due)
    BY <2>1, <2>2 DEF Inv, Stamped, Known, InFlight
  <2>5. t.time <= u.time
    BY <2>2, <2>3 DEF Before, Task
  <2> QED BY <2>3, <2>4, <2>5, NotLaterSecond DEF Task
<1> QED BY <1>1, Invariance, PTL DEF Spec, DeadlineOrder
-----------------------------------------------------------------------------
(* Submitting a task that was not known is a Submit of the delay queue. *)
LEMMA SubmitStep ==
  ASSUME Inv, NEW t \in Task, t.id \in FreeIds,
         InFlight' = InFlight \cup {t}, running' = running, now' = now
  PROVE  DQ!DQNext
<1> DEFINE o == [id |-> t.id, due |-> t.due]
<1>2. o \in [id : Id, due : Nat]
  BY DEF Task
<1>3. Outline(InFlight)' = Outline(InFlight) \cup {o}
  BY DEF Outline
<1>4. \A u \in Outline(InFlight) \cup Outline(running) : u.id # o.id
  BY DEF FreeIds, Outline
<1>5. o \notin Outline(InFlight)
  BY <1>4
<1>6. Outline(running)' = Outline(running)
  BY DEF Outline
<1> HIDE DEF o
<1>7. DQ!Submit(o)
  BY <1>3, <1>4, <1>6 DEF DQ!Submit
<1>8. o \in Outline(InFlight)' \ Outline(InFlight)
  BY <1>3, <1>5
<1> QED BY <1>2, <1>7, <1>8 DEF DQ!DQNext

(* Every step of the queue is a step of the delay queue or changes nothing *)
(* it sees.                                                                *)
LEMMA RefinementStep == Inv /\ [Next]_vars => [DQ!DQNext]_(DQ!dqVars)
<1> SUFFICES ASSUME Inv, [Next]_vars PROVE [DQ!DQNext]_(DQ!dqVars)
  OBVIOUS
<1>0. TypeOK /\ TypeOK'
  BY TypeStep DEF Inv
<1>1. ASSUME NEW p \in Producer, NEW ty \in Types, Add(p, ty) PROVE DQ!DQNext
  <2> DEFINE t == [id |-> freeId, type |-> ty, time |-> 0, due |-> 0]
  <2>1. t \in Task /\ t.id \in FreeIds
    BY <1>1, FreshName, GTDAssumption DEF Task, Add
  <2>2. InFlight' = InFlight \cup {t} /\ running' = running /\ now' = now
    BY <1>1 DEF Add, InFlight
  <2> HIDE DEF t
  <2> QED BY <2>1, <2>2, SubmitStep
<1>2. ASSUME NEW p \in Producer, NEW ty \in Types, NEW dur \in Delay, AddStamp(p, ty, dur)
      PROVE DQ!DQNext
  <2> DEFINE t == [id |-> freeId, type |-> ty, time |-> to_time_t(now + dur), due |-> now + dur]
  <2>1. now + dur \in Nat
    BY <1>0, GTDAssumption DEF TypeOK
  <2>2. t \in Task /\ t.id \in FreeIds
    BY <1>2, <2>1, FreshName, SecondsNat, GTDAssumption DEF Task, AddStamp
  <2>3. timed[p] = None /\ timed' = [timed EXCEPT ![p] = t] /\ UNCHANGED <<q, running, now>>
    BY <1>2 DEF AddStamp
  <2> HIDE DEF t
  <2>4. InFlight' = InFlight \cup {t}
    BY <2>2, <2>3, <1>0, NoneAssumption DEF InFlight, TypeOK
  <2> QED BY <2>2, <2>3, <2>4, SubmitStep
<1>3. ASSUME NEW p \in Producer, AddPush(p) PROVE UNCHANGED DQ!dqVars
  <2>1. InFlight' = InFlight
    BY <1>3, <1>0 DEF AddPush, InFlight, TypeOK
  <2> QED BY <1>3, <2>1 DEF AddPush, DQ!dqVars, Outline
<1>4. ASSUME NEW t \in q, PollReturns(t) PROVE DQ!DQNext
  <2> DEFINE o == [id |-> t.id, due |-> t.due]
  <2>1. t \in InFlight /\ t \in Task /\ InFlight \subseteq Task
    BY <1>0 DEF InFlight, TypeOK
  <2>2. InFlight' = InFlight \ {t} /\ running = {} /\ running' = {t} /\ now' = now
    BY <1>4 DEF PollReturns, InFlight, Inv, Identified, Idle
  <2>3. \A u \in InFlight : u.id = t.id => u = t
    BY <2>1 DEF Inv, Identified, Known
  <2>4. Outline(InFlight)' = Outline(InFlight) \ {o}
    BY <2>1, <2>2, <2>3 DEF Outline
  <2>5. Outline(running)' = Outline(running) \cup {o}
    BY <2>2 DEF Outline
  <2>6. o \in Outline(InFlight)
    BY <2>1 DEF Outline
  <2>7. o.due < now
    <3>1. t.time = to_time_t(t.due)
      BY <2>1 DEF Inv, Stamped, Known
    <3>2. t.time < to_time_t(now)
      BY <1>4 DEF PollReturns, Ready
    <3>3. t.due \in Nat /\ now \in Nat
      BY <2>1, <1>0 DEF Task, TypeOK
    <3> QED BY <3>1, <3>2, <3>3, EarlierSecond
  <2> HIDE DEF o
  <2>8. DQ!Deliver(o)
    BY <2>2, <2>4, <2>5, <2>6, <2>7 DEF DQ!Deliver
  <2> QED BY <2>6, <2>8 DEF DQ!DQNext
<1>6. CASE Finish
  <2>1. InFlight' = InFlight /\ running' = {} /\ now' = now
    BY <1>6 DEF Finish, InFlight
  <2>2. PICK t \in Task : running = {t}
    BY <1>6, <1>0 DEF Finish, Inv, Idle, TypeOK
  <2> DEFINE o == [id |-> t.id, due |-> t.due]
  <2>3. Outline(running) = {o} /\ Outline(running)' = {} /\ Outline(InFlight)' = Outline(InFlight)
    BY <2>1, <2>2 DEF Outline
  <2> HIDE DEF o
  <2>4. DQ!Done(o)
    BY <2>1, <2>3 DEF DQ!Done
  <2> QED BY <2>3, <2>4 DEF DQ!DQNext
<1>5. ASSUME UNCHANGED <<q, timed, running>> PROVE DQ!DQNext
  BY <1>5, <1>0 DEF DQ!DQNext, DQ!ClockMoves, TypeOK, InFlight, Outline
<1> QED BY <1>1, <1>2, <1>3, <1>4, <1>5, <1>6
        DEF Next, vars, PollSleeps, Wake, Tick, SetBack

(* GTD implements the delay queue: GTD::operator() hands out no task before *)
(* its delay is over, none twice and none that was not submitted, for every *)
(* interleaving of the producers and every movement of the clock.           *)
THEOREM Refinement == Spec => ImplementsDelayQueue
<1>1. Init => DQ!DQInit
  BY GTDAssumption DEF Init, DQ!DQInit, InFlight, Outline
<1> QED BY <1>1, RefinementStep, Invariance, PTL DEF Spec, ImplementsDelayQueue, DQ!DQSpec
=============================================================================
