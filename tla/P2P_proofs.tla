----------------------------- MODULE P2P_proofs -----------------------------
(***************************************************************************)
(* Proofs about P2P, for every set of processes, addresses and texts and   *)
(* every N_CONN.                                                           *)
(***************************************************************************)
EXTENDS P2P, FiniteSetTheorems, TLAPS

(* Sets of addresses are finite and have a size. *)
LEMMA AddrSize == \A S \in SUBSET Addr : IsFiniteSet(S) /\ Cardinality(S) \in Nat
  BY P2PAssumption, FS_Subset, FS_CardinalityType

(* A set of addresses that grows does not get smaller. *)
LEMMA AddrGrows ==
  \A S, T \in SUBSET Addr : S \subseteq T => Cardinality(S) <= Cardinality(T)
  BY AddrSize, FS_Subset

(* The idle values of the threads' locals are well typed.                  *)
LEMMA Idle == MgrIdle \in MgrLocals /\ NoReply \in Replies /\ ServeIdle \in Serving /\ NoLoop \in Loops
  BY DEF MgrIdle, MgrLocals, NoReply, Reply, Replies, ServeIdle, Serving, NoLoop, Loops

(* A thread in the middle of an exchange has a task in hand. *)
InHand == \A c \in Conn : InExchange(c) => cur[c] \in ConnTask

(* The state main() starts its threads in is well typed.                   *)
LEMMA TypeInit == Init => TypeOK
  BY Idle, P2PAssumption DEF Init, TypeOK, Fate, ConnPc

(* Clearing the locals of EXPAND_CONNECTION after its last round keeps     *)
(* their type.                                                             *)
LEMMA RoundType ==
  ASSUME NEW x \in MgrLocals
  PROVE  /\ Round(x) \in MgrLocals
         /\ Round(x).n_new = x.n_new
         /\ Round(x).pc \in {x.pc, "pick"}
<1>1. CASE x.n_new = 0
  <2>1. Round(x) = [pc |-> "pick", n_new |-> 0, old |-> {}, ips_tmp |-> <<>>,
                    ip_idx |-> 1, current_ips |-> {}]
    BY <1>1 DEF Round, MgrIdle
  <2> QED BY <1>1, <2>1 DEF MgrLocals
<1>2. CASE x.n_new # 0
  BY <1>2 DEF Round
<1> QED BY <1>1, <1>2

(* The tasks the manager's queue is indexed by.                            *)
LEMMA MgrTasks == {EXPAND_CONNECTION, REQ_IPS, SYNC_HASHSET} \subseteq MgrTask
  BY DEF MgrTask

(* Counting one more task in one of a family of queues keeps their type.   *)
LEMMA Bump ==
  ASSUME NEW A, NEW B, NEW f \in [A -> [B -> Nat]], NEW x, NEW y
  PROVE  [f EXCEPT ![x][y] = @ + 1] \in [A -> [B -> Nat]]
<1>1. CASE x \in A
  <2>0. f[x] \in [B -> Nat]
    BY <1>1
  <2>1. [f[x] EXCEPT ![y] = @ + 1] \in [B -> Nat]
    <3>1. CASE y \in B
      <4>1. f[x][y] + 1 \in Nat
        BY <2>0, <3>1
      <4> QED BY <2>0, <4>1
    <3>2. CASE y \notin B
      BY <2>0, <3>2
    <3> QED BY <3>1, <3>2
  <2> QED BY <1>1, <2>1
<1>2. CASE x \notin A
  BY <1>2
<1> QED BY <1>1, <1>2

(* Another count of one of the manager's tasks keeps the type of its queue. *)
LEMMA QueueType ==
  ASSUME TypeOK, NEW n \in Node, NEW k \in MgrTask
  PROVE  /\ manager_gtd[n][k] \in Nat
         /\ \A d \in Nat : [manager_gtd EXCEPT ![n][k] = d] \in [Node -> [MgrTask -> Nat]]
  BY DEF TypeOK

(* The tasks that manage, manage_connection and the loops over connections *)
(* add are tasks a connection's queue can hold.                            *)
LEMMA JobTypes ==
  /\ Job(HELLO) \in ConnTask /\ Job(REQ_IPS) \in ConnTask /\ Job(REQ_HASHSET_FILTER) \in ConnTask
  /\ \A t \in Text : SendJob(t) \in ConnTask
  BY DEF ConnTask

(* A shuffled list of addresses is a sequence of addresses.                *)
LEMMA ShuffleType == \A S \in SUBSET Addr : Shuffles(S) \subseteq Seq(Addr)
  BY AddrSize DEF Shuffles

(* What the scan of EXPAND_CONNECTION ends with is an address or the empty *)
(* string.                                                                 *)
LEMMA FoundType ==
  ASSUME NEW s \in Seq(Addr), NEW i \in Nat, NEW cc,
         NEW j \in ScanStops(s, i, cc), i >= 1
  PROVE  j \in Nat /\ j >= i /\ Found(s, i, j) \in Addr \cup {None}
  BY DEF ScanStops, Found

(* Adding a task to every connection's queue keeps the type of the queues. *)
LEMMA BroadcastType ==
  ASSUME TypeOK, NEW n \in Node, NEW k \in ConnTask, Broadcast(n, k)
  PROVE  gtd' \in [Conn -> [ConnTask -> Nat]]
  BY DEF Broadcast, TypeOK

(* n_new is at most what is missing to N_CONN and to the addresses known.  *)
LEMMA ShortfallBound ==
  ASSUME TypeOK, NEW n \in Node
  PROVE  /\ Shortfall(n) \in Nat
         /\ Shortfall(n) > 0 => /\ Len(connections[n]) + Shortfall(n) <= N_CONN
                                /\ Len(connections[n]) + Shortfall(n) <= Cardinality(ip_list[n])
<1>1. Cardinality(ip_list[n]) \in Nat /\ Len(connections[n]) \in Nat
  BY AddrSize DEF TypeOK
<1> QED BY <1>1, P2PAssumption DEF Shortfall

(* The copy of ip_list leaves the number of connections to open alone. *)
LEMMA CopyEffect ==
  ASSUME TypeOK, NEW n \in Node, MgrCopy(n)
  PROVE  /\ mgr' \in [Node -> MgrLocals]
         /\ mgr'[n].n_new = mgr[n].n_new
         /\ mgr'[n].pc # "poll"
<1>1. CASE UNCHANGED mgr
  BY <1>1 DEF TypeOK, MgrCopy
<1>2. CASE ~UNCHANGED mgr
  <2>1. PICK s \in Shuffles(mgr[n].old) \cup Shuffles(ip_list[n]) :
          mgr' = [mgr EXCEPT ![n] = Round([@ EXCEPT
                   !.pc = "pick", !.old = {}, !.ips_tmp = s,
                   !.current_ips = Elems(connections[n]) \cup {n}])]
    BY <1>2 DEF MgrCopy
  <2> DEFINE x == [mgr[n] EXCEPT !.pc = "pick", !.old = {}, !.ips_tmp = s,
                     !.current_ips = Elems(connections[n]) \cup {n}]
  <2>2. mgr[n] \in MgrLocals /\ ip_list[n] \in SUBSET Addr /\ connections[n] \in Seq(Addr)
    BY DEF TypeOK
  <2>3. s \in Seq(Addr)
    BY <2>2, ShuffleType DEF MgrLocals
  <2>4. Elems(connections[n]) \cup {n} \in SUBSET Addr
    BY <2>2, P2PAssumption DEF Elems
  <2>5. x \in MgrLocals
    BY <2>2, <2>3, <2>4 DEF MgrLocals
  <2>6. x.n_new = mgr[n].n_new /\ x.pc = "pick"
    BY <2>2 DEF MgrLocals
  <2>7. mgr' = [mgr EXCEPT ![n] = Round(x)]
    BY <2>1
  <2> HIDE DEF x
  <2> QED BY <2>5, <2>6, <2>7, RoundType DEF TypeOK
<1> QED BY <1>1, <1>2

(* A round of the loop uses one of them up, and opens at most one. *)
LEMMA PickEffect ==
  ASSUME TypeOK, NEW n \in Node, MgrPick(n)
  PROVE  /\ mgr' \in [Node -> MgrLocals]
         /\ mgr[n].n_new > 0
         /\ mgr'[n].n_new = mgr[n].n_new - 1
         /\ mgr'[n].pc # "poll"
         /\ \A o \in Node : o # n => mgr'[o] = mgr[o]
         /\ \/ UNCHANGED <<connections, cpc>>
            \/ \E a \in Addr :
                 /\ connections' = [connections EXCEPT ![n] = Append(@, a)]
                 /\ cpc' = [cpc EXCEPT ![<<n, Len(connections[n]) + 1>>] = "start"]
<1> DEFINE ips == mgr[n].ips_tmp
           i == mgr[n].ip_idx
<1>1. mgr[n] \in MgrLocals /\ mgr[n].pc = "pick"
  BY DEF TypeOK, MgrPick
<1>2. PICK j \in ScanStops(ips, i, mgr[n].current_ips) :
        /\ mgr' = [mgr EXCEPT ![n] = Round([mgr[n] EXCEPT !.n_new = mgr[n].n_new - 1, !.ip_idx = j])]
        /\ \/ UNCHANGED <<connections, cpc>>
           \/ /\ Found(ips, i, j) # None
              /\ connections' = [connections EXCEPT ![n] = Append(@, Found(ips, i, j))]
              /\ cpc' = [cpc EXCEPT ![<<n, Len(connections[n]) + 1>>] = "start"]
  BY DEF MgrPick
<1>3. j \in Nat \ {0} /\ Found(ips, i, j) \in Addr \cup {None}
  BY <1>1, FoundType DEF MgrLocals
<1>4. mgr[n].n_new > 0 /\ mgr[n].n_new - 1 \in Nat
  BY <1>1 DEF MgrPick, MgrLocals
<1> DEFINE x == [mgr[n] EXCEPT !.n_new = mgr[n].n_new - 1, !.ip_idx = j]
<1>5. x \in MgrLocals /\ x.n_new = mgr[n].n_new - 1 /\ x.pc = "pick"
  BY <1>1, <1>3, <1>4 DEF MgrLocals
<1>6. mgr' = [mgr EXCEPT ![n] = Round(x)]
  BY <1>2
<1> HIDE DEF x
<1>7. /\ mgr' \in [Node -> MgrLocals]
      /\ mgr'[n].n_new = mgr[n].n_new - 1
      /\ mgr'[n].pc # "poll"
      /\ \A o \in Node : o # n => mgr'[o] = mgr[o]
  BY <1>5, <1>6, RoundType DEF TypeOK
<1> QED BY <1>2, <1>3, <1>4, <1>7

(* Every step of manage() keeps the types.                                 *)
LEMMA TypeManage ==
  ASSUME TypeOK, NEW n \in Node, Manage(n) PROVE TypeOK'
<1>1. CASE MgrReqIps(n)
  BY <1>1, JobTypes, BroadcastType DEF MgrReqIps, TypeOK
<1>2. CASE MgrSync(n)
  <2>1. gtd' \in [Conn -> [ConnTask -> Nat]]
    BY <1>2, JobTypes, BroadcastType DEF MgrSync, TypeOK
  <2>0. manager_gtd[n][SYNC_HASHSET] \in Nat /\ manager_gtd[n][SYNC_HASHSET] > 0
    BY <1>2, MgrTasks, QueueType DEF MgrSync
  <2>2. manager_gtd' \in [Node -> [MgrTask -> Nat]]
    <3>1. CASE manager_gtd' = [manager_gtd EXCEPT ![n][SYNC_HASHSET] = @ - 1]
      <4>1. manager_gtd[n][SYNC_HASHSET] - 1 \in Nat
        BY <2>0
      <4>2. [manager_gtd EXCEPT ![n][SYNC_HASHSET] = manager_gtd[n][SYNC_HASHSET] - 1]
              \in [Node -> [MgrTask -> Nat]]
        BY <4>1, MgrTasks, QueueType
      <4> QED BY <3>1, <4>2 DEF TypeOK
    <3>2. CASE UNCHANGED manager_gtd
      BY <3>2 DEF TypeOK
    <3> QED BY <1>2, <3>1, <3>2 DEF MgrSync
  <2>3. fate' \in [Node -> Fate]
    BY <1>2 DEF MgrSync, Dies, Fate, TypeOK
  <2> QED BY <1>2, <2>1, <2>2, <2>3 DEF MgrSync, TypeOK
<1>3. CASE MgrExpand(n)
  <2>1. manager_gtd' \in [Node -> [MgrTask -> Nat]]
    BY <1>3, MgrTasks, QueueType DEF MgrExpand
  <2>2. mgr[n] \in MgrLocals /\ ip_list[n] \in SUBSET Addr /\ Shortfall(n) \in Nat
    BY ShortfallBound DEF TypeOK
  <2>3. [mgr[n] EXCEPT !.pc = "copy", !.old = ip_list[n], !.n_new = Shortfall(n)] \in MgrLocals
    BY <2>2 DEF MgrLocals
  <2>4. mgr' \in [Node -> MgrLocals]
    BY <1>3, <2>3 DEF MgrExpand, TypeOK
  <2> QED BY <1>3, <2>1, <2>4 DEF MgrExpand, TypeOK
<1>4. CASE MgrCopy(n)
  <2>1. fate' \in [Node -> Fate]
    BY <1>4 DEF MgrCopy, Dies, TypeOK, Fate
  <2>2. mgr' \in [Node -> MgrLocals]
    BY <1>4, CopyEffect
  <2> QED BY <1>4, <2>1, <2>2 DEF MgrCopy, TypeOK
<1>5. CASE MgrPick(n)
  <2>1. mgr' \in [Node -> MgrLocals]
    BY <1>5, PickEffect
  <2>2. connections' \in [Node -> Seq(Addr)]
    <3>1. CASE UNCHANGED connections
      BY <3>1 DEF TypeOK
    <3>2. ASSUME NEW a \in Addr, connections' = [connections EXCEPT ![n] = Append(@, a)]
          PROVE  connections' \in [Node -> Seq(Addr)]
      <4>1. Append(connections[n], a) \in Seq(Addr)
        BY DEF TypeOK
      <4> QED BY <3>2, <4>1 DEF TypeOK
    <3> QED BY <1>5, <3>1, <3>2, PickEffect
  <2>3. cpc' \in [Conn -> ConnPc] /\ fate' \in [Node -> Fate]
    BY <1>5 DEF MgrPick, TypeOK, ConnPc, Fate, Dies
  <2> QED BY <1>5, <2>1, <2>2, <2>3 DEF MgrPick, TypeOK
<1>6. CASE MgrExpandDone(n)
  <2>1. manager_gtd' \in [Node -> [MgrTask -> Nat]]
    BY <1>6, MgrTasks, QueueType DEF MgrExpandDone
  <2> QED BY <1>6, <2>1, Idle DEF MgrExpandDone, TypeOK
<1> QED BY <1>1, <1>2, <1>3, <1>4, <1>5, <1>6 DEF Manage

(* Every step of manage_connection keeps the types.                        *)
LEMMA TypeConn ==
  ASSUME TypeOK, NEW c \in Conn, ManageConnection(c) PROVE TypeOK'
<1> USE DEF TypeOK
<1>1. CASE ConnStart(c)
  BY <1>1, JobTypes DEF ConnStart, ConnPc
<1>2. ASSUME NEW k \in ConnTask, ConnSend(c, k) PROVE TypeOK'
  BY <1>2 DEF ConnSend, IsTop, ConnPc
<1>3. CASE ConnRecv(c)
  BY <1>3, Idle DEF ConnRecv, Learned, Replies, Fate, Conn, ConnPc
<1> QED BY <1>1, <1>2, <1>3 DEF ManageConnection

(* The loops over connections are well typed when they start.              *)
LEMMA LoopType ==
  ASSUME TypeOK, NEW n \in Node, NEW w \in Looper, NEW t \in Text, StartLoop(n, w, t)
  PROVE  loop' \in [Node -> [Looper -> Loops]]
<1>1. [text |-> t, next |-> 1, end |-> Len(connections[n])] \in Loops
  BY DEF Loops, TypeOK
<1> QED BY <1>1, Idle DEF StartLoop, TypeOK

(* A round of a loop over connections keeps the types.                     *)
LEMMA TypeFlood ==
  ASSUME TypeOK, NEW n \in Node, NEW w \in Looper, FloodStep(n, w) PROVE TypeOK'
<1> DEFINE l == loop[n][w]
<1>1. l \in Loops
  BY DEF TypeOK
<1>2. [l EXCEPT !.next = @ + 1] \in Loops
  BY <1>1 DEF Loops
<1>3. CASE /\ gtd' = [gtd EXCEPT ![<<n, l.next>>][SendJob(l.text)] = @ + 1]
           /\ loop' = [loop EXCEPT ![n][w] =
                 IF l.next = l.end THEN NoLoop ELSE [l EXCEPT !.next = @ + 1]]
           /\ UNCHANGED fate
  <2>1. gtd' \in [Conn -> [ConnTask -> Nat]]
    BY <1>3, Bump DEF TypeOK
  <2>2. loop' \in [Node -> [Looper -> Loops]]
    BY <1>2, <1>3, Idle DEF TypeOK
  <2> QED BY <1>3, <2>1, <2>2 DEF FloodStep, TypeOK
<1>4. CASE Dies(n, "race") /\ UNCHANGED <<gtd, loop>>
  BY <1>4 DEF FloodStep, TypeOK, Dies, Fate
<1> QED BY <1>3, <1>4 DEF FloodStep

(* Every step of serve() keeps the types.                                  *)
LEMMA TypeServe ==
  ASSUME TypeOK, InHand, NEW m \in Node, Serve(m) PROVE TypeOK'
<1>1. ASSUME NEW c \in Conn, ServeHello(m, c) PROVE TypeOK'
  <2>1. c[1] \in Addr
    BY P2PAssumption DEF Conn
  <2>2. Reply("welcome", {}) \in Replies
    BY DEF Reply, Replies
  <2> QED BY <1>1, <2>1, <2>2 DEF ServeHello, Answers, TypeOK, ConnPc
<1>2. ASSUME NEW c \in Conn, ServePeersSize(m, c) PROVE TypeOK'
  <2>1. [pc |-> "peers", req |-> c, slots |-> Cardinality(ip_list[m])] \in Serving
    BY AddrSize DEF Serving, TypeOK
  <2> QED BY <1>2, <2>1 DEF ServePeersSize, TypeOK, ConnPc
<1>3. ASSUME NEW c \in Conn, ServeText(m, c) PROVE TypeOK'
  <2>1. Reply("ok", {}) \in Replies
    BY DEF Reply, Replies
  <2>2. [pc |-> "text", req |-> c, slots |-> 0] \in Serving
    BY DEF Serving
  <2>3. cur[c].data \in Text
    <3>1. cur[c] \in ConnTask /\ cur[c].type = SEND
      BY <1>3 DEF ServeText, Unseen, Remember, Receives, InHand, InExchange
    <3> QED BY <3>1 DEF ConnTask, Job, SendJob, SEND, HELLO, REQ_IPS, REQ_HASHSET_FILTER
  <2>4. CASE cur[c].data \in seen[m]
    BY <1>3, <2>1, <2>4 DEF ServeText, Unseen, Remember, Receives, Answers, TypeOK, ConnPc
  <2>5. CASE cur[c].data \notin seen[m]
    <3>0. /\ seen' = [seen EXCEPT ![m] = @ \cup {cur[c].data}]
          /\ serving' = [serving EXCEPT ![m] = [pc |-> "text", req |-> c, slots |-> 0]]
          /\ cpc' = [cpc EXCEPT ![c] = "served"]
          /\ StartLoop(m, "serve", cur[c].data)
          /\ UNCHANGED reply
      BY <1>3, <2>5 DEF ServeText, Unseen, Remember
    <3>1. loop' \in [Node -> [Looper -> Loops]]
      BY <2>3, <3>0, LoopType DEF Looper
    <3>2. seen' \in [Node -> SUBSET Text]
      BY <2>3, <3>0 DEF TypeOK
    <3>3. serving' \in [Node -> Serving] /\ cpc' \in [Conn -> ConnPc]
      BY <2>2, <3>0 DEF TypeOK, ConnPc
    <3> QED BY <1>3, <3>0, <3>1, <3>2, <3>3 DEF ServeText, Unseen, Remember, TypeOK
  <2> QED BY <2>4, <2>5
<1>4. ASSUME NEW c \in Conn, ServeFilter(m, c) PROVE TypeOK'
  <2>1. Reply("setFilter", {}) \in Replies
    BY DEF Reply, Replies
  <2> QED BY <1>4, <2>1 DEF ServeFilter, Answers, TypeOK, ConnPc
<1>5. CASE ServePeersFill(m)
  <2> DEFINE c == serving[m].req
  <2>1. \A R \in SUBSET Addr : Reply("ipList", R) \in Replies
    BY DEF Reply, Replies
  <2>2. Overrun(serving[m].slots, ip_list[m]) \subseteq SUBSET Addr /\ ip_list[m] \in SUBSET Addr
    BY P2PAssumption DEF Overrun, TypeOK
  <2>3. cpc' \in [Conn -> ConnPc] /\ reply' \in [Conn -> Replies]
    <3>1. ASSUME NEW R \in SUBSET Addr, Answers(c, Reply("ipList", R))
          PROVE  cpc' \in [Conn -> ConnPc] /\ reply' \in [Conn -> Replies]
      BY <3>1, <2>1 DEF Answers, TypeOK, ConnPc
    <3>2. CASE UNCHANGED <<cpc, reply>>
      BY <3>2 DEF TypeOK
    <3> QED BY <1>5, <2>2, <3>1, <3>2 DEF ServePeersFill
  <2>4. serving' \in [Node -> Serving] /\ fate' \in [Node -> Fate]
    BY <1>5, Idle DEF ServePeersFill, Dies, TypeOK, Fate
  <2> QED BY <1>5, <2>3, <2>4 DEF ServePeersFill, TypeOK
<1>6. CASE ServeTextDone(m)
  <2>1. Reply("ok", {}) \in Replies
    BY DEF Reply, Replies
  <2> QED BY <1>6, <2>1, Idle DEF ServeTextDone, Answers, TypeOK, ConnPc
<1>7. CASE FloodStep(m, "serve")
  BY <1>7, TypeFlood DEF Looper
<1> QED BY <1>1, <1>2, <1>3, <1>4, <1>5, <1>6, <1>7 DEF Serve, ServeRequest

(* Every step of read_lines keeps the types.                               *)
LEMMA TypeReader ==
  ASSUME TypeOK, NEW n \in Node, ReadLines(n) PROVE TypeOK'
<1>1. ASSUME NEW t \in Says[n], ReadLine(n, t) PROVE TypeOK'
  <2>1. t \in Text
    BY P2PAssumption
  <2>2. loop' \in [Node -> [Looper -> Loops]]
    <3>1. ToSend(t) \in Loops
      BY <2>1 DEF ToSend, NoLoop, Loops
    <3> QED BY <1>1, <3>1 DEF ReadLine, Looper, TypeOK
  <2>3. typed' \in [Node -> [Text -> Nat]] /\ asked' \in [Node -> Nat]
    BY <1>1, <2>1 DEF ReadLine, TypeOK
  <2>4. manager_gtd' \in [Node -> [MgrTask -> Nat]]
    BY <1>1, MgrTasks, QueueType DEF ReadLine
  <2> QED BY <1>1, <2>2, <2>3, <2>4 DEF ReadLine, TypeOK
<1>2. CASE FloodStep(n, "read")
  BY <1>2, TypeFlood DEF Looper
<1>3. ASSUME NEW t \in Says[n], SendLine(n, t) PROVE TypeOK'
  <2>1. t \in Text
    BY P2PAssumption
  <2>2. loop' \in [Node -> [Looper -> Loops]]
    BY <1>3, <2>1, LoopType DEF SendLine, Looper
  <2>3. typed' \in [Node -> [Text -> Nat]]
    BY <1>3, <2>1 DEF SendLine, TypeOK
  <2> QED BY <1>3, <2>2, <2>3 DEF SendLine, TypeOK
<1> QED BY <1>1, <1>2, <1>3 DEF ReadLines

(* A torn loop leaves all but its process's fate as it was. *)
LEMMA TornEnds ==
  ASSUME TypeOK, NEW n \in Node, TornLoop(n)
  PROVE  /\ UNCHANGED <<ip_list, connections, seen, manager_gtd, mgr, gtd, cpc, cur, reply,
                        serving, loop, typed, asked>>
         /\ fate' \in [Node -> Fate]
         /\ \A m \in Node : fate'[m] \in {fate[m], "race"}
  BY DEF TornLoop, Dies, Fate, TypeOK

(* Every step of every thread keeps the types.                             *)
LEMMA TypeStep == TypeOK /\ InHand /\ [Next]_vars => TypeOK'
<1>1. TypeOK /\ UNCHANGED vars => TypeOK'
  BY DEF TypeOK, vars
<1>2. ASSUME TypeOK, NEW n \in Node, TornLoop(n) PROVE TypeOK'
  BY <1>2, TornEnds DEF TypeOK
<1> QED BY <1>1, <1>2, TypeManage, TypeConn, TypeServe, TypeReader DEF Next
-----------------------------------------------------------------------------
(* No thread removes an address from an ip_list.                           *)
LEMMA ListsGrow ==
  ASSUME TypeOK, [Next]_vars, NEW n \in Node
  PROVE  ip_list[n] \subseteq ip_list'[n]
<1>1. ASSUME NEW m \in Node, Manage(m) \/ ReadLines(m) \/ TornLoop(m) PROVE UNCHANGED ip_list
  BY <1>1 DEF Manage, MgrReqIps, MgrSync, MgrExpand, MgrCopy, MgrPick, MgrExpandDone,
              ReadLines, ReadLine, SendLine, FloodStep, TornLoop
<1>2. ASSUME NEW c \in Conn, ManageConnection(c) PROVE ip_list[n] \subseteq ip_list'[n]
  <2>1. CASE ConnRecv(c)
    BY <2>1 DEF ConnRecv, Learned, TypeOK
  <2> QED BY <1>2, <2>1 DEF ManageConnection, ConnStart, ConnSend
<1>3. ASSUME NEW m \in Node, Serve(m) PROVE ip_list[n] \subseteq ip_list'[n]
  <2>1. ASSUME NEW c \in Conn, ServeHello(m, c) PROVE ip_list[n] \subseteq ip_list'[n]
    BY <2>1 DEF ServeHello, TypeOK
  <2> QED BY <1>3, <2>1 DEF Serve, ServeRequest, ServePeersSize, ServeText, Unseen, Remember, ServeFilter,
             ServePeersFill, ServeTextDone, FloodStep
<1> QED BY <1>1, <1>2, <1>3 DEF Next, vars

(* The connections a process has and those it is about to open. *)
Bound ==
  \A n \in Node :
    /\ Len(connections[n]) + mgr[n].n_new <= N_CONN
    /\ Len(connections[n]) + mgr[n].n_new <= Cardinality(ip_list[n])

(* A process starts without connections.                                   *)
LEMMA BoundInit == Init => Bound
  BY AddrSize, P2PAssumption DEF Init, Bound, MgrIdle

(* The arithmetic of one round: at most one connection more, n_new one less. *)
LEMMA OneRound ==
  ASSUME NEW len \in Nat, NEW len2 \in Nat, NEW n \in Nat, NEW n2,
         n2 = n - 1, n > 0, len2 <= len + 1
  PROVE  len2 + n2 <= len + n /\ len2 + n2 \in Nat
  OBVIOUS

(* What is no larger stays within N_CONN and within a list that grows. *)
LEMMA NoLarger ==
  ASSUME NEW a \in Nat, NEW b \in Nat, NEW c \in Nat, NEW d \in Nat, NEW e \in Nat,
         a <= b, b <= c, b <= d, d <= e
  PROVE  a <= c /\ a <= e
  OBVIOUS

(* No thread opens more connections than EXPAND_CONNECTION found missing.  *)
LEMMA BoundStep == TypeOK /\ TypeOK' /\ Bound /\ [Next]_vars => Bound'
<1> DEFINE Goal(n) == /\ Len(connections'[n]) + mgr'[n].n_new <= N_CONN
                      /\ Len(connections'[n]) + mgr'[n].n_new <= Cardinality(ip_list'[n])
<1> SUFFICES ASSUME TypeOK, TypeOK', Bound, [Next]_vars, NEW n \in Node PROVE Goal(n)
  BY DEF Bound
<1>0. /\ Cardinality(ip_list[n]) \in Nat /\ Cardinality(ip_list'[n]) \in Nat
      /\ Cardinality(ip_list[n]) <= Cardinality(ip_list'[n])
  BY ListsGrow, AddrSize, AddrGrows DEF TypeOK
<1>1. /\ connections[n] \in Seq(Addr) /\ Len(connections[n]) \in Nat
      /\ mgr[n] \in MgrLocals /\ mgr[n].n_new \in Nat /\ N_CONN \in Nat
      /\ Len(connections[n]) + mgr[n].n_new <= N_CONN
      /\ Len(connections[n]) + mgr[n].n_new <= Cardinality(ip_list[n])
  BY P2PAssumption DEF TypeOK, Bound, MgrLocals
<1>2. ASSUME connections'[n] = connections[n], mgr'[n].n_new = mgr[n].n_new \/ mgr'[n].n_new = 0
      PROVE  Goal(n)
  BY <1>0, <1>1, <1>2
<1>3. ASSUME NEW m \in Node, Manage(m) PROVE Goal(n)
  <2>1. CASE m # n
    <3>1. connections'[n] = connections[n] /\ mgr'[n] = mgr[n]
      BY <1>3, <2>1 DEF Manage, MgrReqIps, MgrSync, MgrExpand, MgrCopy, MgrPick, MgrExpandDone, TypeOK
    <3> QED BY <3>1, <1>2
  <2>2. CASE m = n
    <3>1. CASE MgrReqIps(n) \/ MgrSync(n)
      BY <3>1, <1>2 DEF MgrReqIps, MgrSync
    <3>2. CASE MgrExpand(n)
      <4>1. mgr'[n].n_new = Shortfall(n) /\ connections'[n] = connections[n]
        BY <3>2, <1>1 DEF MgrExpand, TypeOK, MgrLocals
      <4> QED BY <4>1, <1>0, <1>1, <1>2, ShortfallBound
    <3>3. CASE MgrCopy(n)
      BY <3>3, <1>2, CopyEffect DEF MgrCopy
    <3>4. CASE MgrPick(n)
      <4>1. mgr'[n].n_new = mgr[n].n_new - 1 /\ mgr[n].n_new > 0
        BY <3>4, PickEffect
      <4>2. Len(connections'[n]) <= Len(connections[n]) + 1 /\ Len(connections'[n]) \in Nat
        <5>1. CASE UNCHANGED connections
          BY <5>1, <1>1
        <5>2. CASE \E a \in Addr : connections' = [connections EXCEPT ![n] = Append(@, a)]
          BY <5>2, <1>1 DEF TypeOK
        <5> QED BY <3>4, <5>1, <5>2, PickEffect
      <4>3. Len(connections'[n]) + mgr'[n].n_new <= Len(connections[n]) + mgr[n].n_new
        BY <4>1, <4>2, <1>1, OneRound
      <4>4. Len(connections'[n]) + mgr'[n].n_new \in Nat
        BY <4>1, <4>2, <1>1, OneRound
      <4> QED BY <4>3, <4>4, <1>0, <1>1, NoLarger
    <3>5. CASE MgrExpandDone(n)
      <4>1. mgr'[n].n_new = 0
        BY <3>5 DEF MgrExpandDone, TypeOK, MgrIdle
      <4> QED BY <4>1, <3>5, <1>2 DEF MgrExpandDone
    <3> QED BY <1>3, <2>2, <3>1, <3>2, <3>3, <3>4, <3>5 DEF Manage
  <2> QED BY <2>1, <2>2
<1>4. CASE UNCHANGED <<connections, mgr>>
  BY <1>4, <1>2
<1> QED
  <2>1. ASSUME NEW m \in Node, Serve(m) \/ ReadLines(m) \/ TornLoop(m)
        PROVE  UNCHANGED <<connections, mgr>>
    BY <2>1 DEF Serve, ServeRequest, ServeHello, ServePeersSize, ServeText, Unseen, Remember, ServeFilter,
       ServePeersFill, ServeTextDone, FloodStep, ReadLines, ReadLine, SendLine, TornLoop
  <2>2. ASSUME NEW c \in Conn, ManageConnection(c) PROVE UNCHANGED <<connections, mgr>>
    BY <2>2 DEF ManageConnection, ConnStart, ConnSend, ConnRecv, Learned
  <2> QED BY <1>3, <1>4, <2>1, <2>2 DEF Next, vars
-----------------------------------------------------------------------------
(* Both periodic tasks are queued once at the start, SYNC_HASHSET is not.  *)
LEMMA ManagerTasksInit == Init => ManagerTasks
  BY DEF Init, ManagerTasks, MgrTask, MgrIdle, REQ_IPS, EXPAND_CONNECTION, SYNC_HASHSET

(* Every put-back of manage() matches a task taken, every SYNC_HASHSET a   *)
(* go line.                                                                *)
LEMMA ManagerTasksStep == TypeOK /\ ManagerTasks /\ [Next]_vars => ManagerTasks'
<1> USE DEF REQ_IPS, EXPAND_CONNECTION, SYNC_HASHSET
<1> DEFINE Goal(n) == /\ manager_gtd'[n][REQ_IPS] = 1
                      /\ manager_gtd'[n][EXPAND_CONNECTION] = (IF mgr'[n].pc = "poll" THEN 1 ELSE 0)
                      /\ manager_gtd'[n][SYNC_HASHSET] <= asked'[n]
<1> SUFFICES ASSUME TypeOK, ManagerTasks, [Next]_vars, NEW n \in Node PROVE Goal(n)
  BY DEF ManagerTasks
<1>1. /\ manager_gtd \in [Node -> [MgrTask -> Nat]] /\ asked \in [Node -> Nat]
      /\ MgrTask = {4, 5, 8}
  BY DEF TypeOK, MgrTask
<1>2. /\ manager_gtd[n][REQ_IPS] = 1
      /\ manager_gtd[n][EXPAND_CONNECTION] = (IF mgr[n].pc = "poll" THEN 1 ELSE 0)
      /\ manager_gtd[n][SYNC_HASHSET] <= asked[n]
  BY DEF ManagerTasks
<1>3. CASE manager_gtd'[n] = manager_gtd[n] /\ mgr'[n] = mgr[n] /\ asked'[n] = asked[n]
  BY <1>2, <1>3
<1>4. ASSUME NEW m \in Node, Manage(m) PROVE Goal(n)
  <2>1. CASE m # n
    <3>1. manager_gtd'[n] = manager_gtd[n] /\ mgr'[n] = mgr[n] /\ asked'[n] = asked[n]
      BY <1>4, <2>1, <1>1
         DEF Manage, MgrReqIps, MgrSync, MgrExpand, MgrCopy, MgrPick, MgrExpandDone, TypeOK
    <3> QED BY <3>1, <1>3
  <2>2. CASE MgrReqIps(n)
    BY <2>2, <1>3 DEF MgrReqIps
  <2>3. CASE MgrSync(n)
    BY <2>3, <1>1, <1>2 DEF MgrSync
  <2>4. CASE MgrExpand(n)
    <3>1. mgr'[n].pc = "copy"
      BY <2>4 DEF MgrExpand, TypeOK, MgrLocals
    <3> QED BY <2>4, <3>1, <1>1, <1>2 DEF MgrExpand
  <2>5. CASE MgrCopy(n)
    <3>1. mgr[n].pc # "poll" /\ UNCHANGED <<manager_gtd, asked>>
      BY <2>5 DEF MgrCopy
    <3> QED BY <2>5, <3>1, <1>2, CopyEffect
  <2>6. CASE MgrPick(n)
    <3>1. mgr[n].pc # "poll" /\ UNCHANGED <<manager_gtd, asked>>
      BY <2>6 DEF MgrPick
    <3> QED BY <2>6, <3>1, <1>2, PickEffect
  <2>7. CASE MgrExpandDone(n)
    <3>1. mgr'[n].pc = "poll" /\ mgr[n].pc # "poll"
      BY <2>7 DEF MgrExpandDone, TypeOK, MgrIdle
    <3> QED BY <2>7, <3>1, <1>1, <1>2 DEF MgrExpandDone
  <2> QED BY <1>4, <2>1, <2>2, <2>3, <2>4, <2>5, <2>6, <2>7 DEF Manage
<1>5. ASSUME NEW m \in Node, NEW t \in Says[m], ReadLine(m, t) PROVE Goal(n)
  <2>1. CASE m # n
    BY <1>5, <2>1, <1>1, <1>3 DEF ReadLine
  <2>2. CASE m = n
    BY <1>5, <2>2, <1>1, <1>2 DEF ReadLine
  <2> QED BY <2>1, <2>2
<1>6. CASE UNCHANGED <<manager_gtd, mgr, asked>>
  BY <1>6, <1>3
<1>8. ASSUME NEW m \in Node,
             Serve(m) \/ FloodStep(m, "read") \/ (\E t \in Says[m] : SendLine(m, t)) \/ TornLoop(m)
      PROVE  UNCHANGED <<manager_gtd, mgr, asked>>
  BY <1>8 DEF Serve, ServeRequest, ServeHello, ServePeersSize, ServeText, Unseen, Remember, ServeFilter,
     ServePeersFill, ServeTextDone, FloodStep, SendLine, TornLoop
<1>9. ASSUME NEW c \in Conn, ManageConnection(c)
      PROVE  UNCHANGED <<manager_gtd, mgr, asked>>
  BY <1>9 DEF ManageConnection, ConnStart, ConnSend, ConnRecv, Learned
<1> QED BY <1>4, <1>5, <1>6, <1>8, <1>9 DEF Next, ReadLines, vars
-----------------------------------------------------------------------------
Peer(c) == connections[c[1]][c[2]]

(* content.which() of the reply to a task's request. *)
Expected(k) == CASE k.type = HELLO -> "welcome"
                 [] k.type = REQ_IPS -> "ipList"
                 [] k.type = SEND -> "ok"
                 [] OTHER -> "setFilter"

(* The threads that exist are those of the connections that were opened. *)
Opened == \A c \in Conn : cpc[c] # "off" <=> c[2] \in DOMAIN connections[c[1]]

(* A reply is there exactly for the thread it was sent to, and matches. *)
Replied ==
  \A c \in Conn : /\ cpc[c] # "replied" => reply[c] = NoReply
                  /\ cpc[c] = "replied" => reply[c].which = Expected(cur[c])

(* The request serve works on is one that was sent to it. *)
Working ==
  \A m \in Node : serving[m].pc # "recv" =>
    /\ serving[m].req \in Conn
    /\ cpc[serving[m].req] = "served"
    /\ Peer(serving[m].req) = m
    /\ cur[serving[m].req].type = (IF serving[m].pc = "peers" THEN REQ_IPS ELSE SEND)

NoAssert == \A n \in Node : fate[n] # "assert"

Exchange == Opened /\ InHand /\ Replied /\ Working /\ NoAssert

(* Nothing is asked or served at the start.                                *)
LEMMA ExchangeInit == Init => Exchange
<1> SUFFICES ASSUME Init PROVE Exchange
  OBVIOUS
<1>1. Opened
  BY DEF Init, Opened, Conn
<1>2. InHand /\ Replied
  BY DEF Init, InHand, InExchange, Replied
<1>3. Working /\ NoAssert
  BY DEF Init, Working, NoAssert, ServeIdle
<1> QED BY <1>1, <1>2, <1>3 DEF Exchange

(* A step that touches no exchange. *)
LEMMA ExchangeIdle ==
  ASSUME Exchange, UNCHANGED <<connections, cpc, cur, reply, serving>>, NoAssert'
  PROVE  Exchange'
  BY DEF Exchange, Opened, InHand, InExchange, Replied, Working, Peer, Expected

(* manage() does not disturb a request under way.                          *)
LEMMA ExchangeManage ==
  ASSUME TypeOK, Exchange, NEW n \in Node, Manage(n) PROVE Exchange'
<1>1. NoAssert'
  BY DEF Exchange, NoAssert, Manage, MgrReqIps, MgrSync, MgrExpand, MgrCopy, MgrPick,
         MgrExpandDone, Dies, TypeOK
<1>2. CASE UNCHANGED <<connections, cpc>>
  <2>1. UNCHANGED <<cur, reply, serving>>
    BY DEF Manage, MgrReqIps, MgrSync, MgrExpand, MgrCopy, MgrPick, MgrExpandDone
  <2> QED BY <1>1, <1>2, <2>1, ExchangeIdle
<1>3. ASSUME NEW a \in Addr, MgrPick(n),
             connections' = [connections EXCEPT ![n] = Append(@, a)],
             cpc' = [cpc EXCEPT ![<<n, Len(connections[n]) + 1>>] = "start"]
      PROVE  Exchange'
  <2> DEFINE d == <<n, Len(connections[n]) + 1>>
  <2>1. UNCHANGED <<cur, reply, serving>>
    BY <1>3 DEF MgrPick
  <2>2. connections[n] \in Seq(Addr) /\ Len(connections[n]) \in Nat
    BY DEF TypeOK
  <2>3. \A c \in Conn : c # d => /\ cpc'[c] = cpc[c]
                                 /\ c[2] \in DOMAIN connections'[c[1]] <=> c[2] \in DOMAIN connections[c[1]]
    BY <1>3, <2>2 DEF TypeOK, Conn
  <2>4. \A c \in Conn : c[2] \in DOMAIN connections[c[1]] => Peer(c)' = Peer(c)
    BY <1>3, <2>2 DEF TypeOK, Conn, Peer
  <2>5. d \in Conn => cpc[d] = "off" /\ cpc'[d] = "start" /\ d[2] \in DOMAIN connections'[d[1]]
    BY <1>3, <2>2 DEF TypeOK, Exchange, Opened
  <2>6. Opened'
    BY <2>3, <2>5 DEF Exchange, Opened
  <2>7. InHand'
    BY <2>1, <2>3, <2>5 DEF Exchange, InHand, InExchange
  <2>8. Replied'
    BY <2>1, <2>3, <2>5 DEF Exchange, Replied, Expected
  <2>9. Working'
    <3> SUFFICES ASSUME NEW m \in Node, serving'[m].pc # "recv"
                 PROVE  /\ serving'[m].req \in Conn
                        /\ cpc'[serving'[m].req] = "served"
                        /\ Peer(serving[m].req)' = m
                        /\ cur'[serving'[m].req].type = (IF serving'[m].pc = "peers" THEN REQ_IPS ELSE SEND)
      BY DEF Working
    <3>1. /\ serving[m].req \in Conn
          /\ cpc[serving[m].req] = "served"
          /\ Peer(serving[m].req) = m
          /\ cur[serving[m].req].type = (IF serving[m].pc = "peers" THEN REQ_IPS ELSE SEND)
      BY <2>1 DEF Exchange, Working
    <3>2. serving[m].req # d /\ serving[m].req[2] \in DOMAIN connections[serving[m].req[1]]
      BY <3>1, <2>5 DEF Exchange, Opened
    <3> QED BY <3>1, <3>2, <2>1, <2>3, <2>4
  <2> QED BY <1>1, <2>6, <2>7, <2>8, <2>9 DEF Exchange
<1>4. CASE MgrPick(n)
  BY <1>4, <1>2, <1>3, PickEffect
<1>5. CASE ~MgrPick(n)
  <2>1. UNCHANGED <<connections, cpc>>
    BY <1>5 DEF Manage, MgrReqIps, MgrSync, MgrExpand, MgrCopy, MgrExpandDone
  <2> QED BY <2>1, <1>2
<1> QED BY <1>4, <1>5

(* What the steps of a thread and of serve in an exchange of c have in common: *)
(* nothing changes for the others.                                            *)
LEMMA ExchangeOf ==
  ASSUME TypeOK, Exchange, NEW c \in Conn, UNCHANGED connections, NoAssert', Working',
         cpc[c] # "off", cpc'[c] # "off",
         \A d \in Conn : d # c => cpc'[d] = cpc[d] /\ cur'[d] = cur[d] /\ reply'[d] = reply[d],
         cpc'[c] \in {"sent", "served", "replied"} => cur'[c] \in ConnTask,
         cpc'[c] # "replied" => reply'[c] = NoReply,
         cpc'[c] = "replied" => reply'[c].which = Expected(cur[c]) /\ cur'[c] = cur[c]
  PROVE  Exchange'
<1>1. Opened'
  BY DEF Exchange, Opened
<1>2. InHand'
  BY DEF Exchange, InHand, InExchange
<1>3. Replied'
  BY DEF Exchange, Replied, Expected
<1> QED BY <1>1, <1>2, <1>3 DEF Exchange

(* A step of the thread of c does not disturb what serve works on, as long  *)
(* as c's own request is not in serve's hands.                              *)
LEMMA WorkingKept ==
  ASSUME Exchange, NEW c \in Conn, cpc[c] # "served", UNCHANGED <<connections, serving>>,
         \A d \in Conn : d # c => cpc'[d] = cpc[d] /\ cur'[d] = cur[d]
  PROVE  Working'
  BY DEF Exchange, Working, Peer

(* A connection asks one thing at a time and reads the reply to it.        *)
LEMMA ExchangeConn ==
  ASSUME TypeOK, Exchange, NEW c \in Conn, ManageConnection(c) PROVE Exchange'
<1>1. CASE ConnStart(c)
  <2>1. /\ UNCHANGED <<connections, serving, cur, reply, fate>>
        /\ cpc[c] = "start" /\ cpc' = [cpc EXCEPT ![c] = "poll"]
    BY <1>1 DEF ConnStart
  <2>2. /\ cpc'[c] = "poll" /\ reply'[c] = NoReply
        /\ \A d \in Conn : d # c => cpc'[d] = cpc[d] /\ cur'[d] = cur[d] /\ reply'[d] = reply[d]
    BY <2>1 DEF TypeOK, Exchange, Replied
  <2>3. Working'
    BY <2>1, <2>2, WorkingKept
  <2>4. NoAssert'
    BY <2>1 DEF Exchange, NoAssert
  <2> QED BY <2>1, <2>2, <2>3, <2>4, ExchangeOf
<1>2. ASSUME NEW k \in ConnTask, ConnSend(c, k) PROVE Exchange'
  <2>1. /\ UNCHANGED <<connections, serving, reply, fate>>
        /\ cpc[c] = "poll" /\ cpc' = [cpc EXCEPT ![c] = "sent"] /\ cur' = [cur EXCEPT ![c] = k]
    BY <1>2 DEF ConnSend
  <2>2. /\ cpc'[c] = "sent" /\ reply'[c] = NoReply /\ cur'[c] = k
        /\ \A d \in Conn : d # c => cpc'[d] = cpc[d] /\ cur'[d] = cur[d] /\ reply'[d] = reply[d]
    BY <2>1 DEF TypeOK, Exchange, Replied
  <2>3. Working'
    BY <2>1, <2>2, WorkingKept
  <2>4. NoAssert'
    BY <2>1 DEF Exchange, NoAssert
  <2> QED BY <2>1, <2>2, <2>3, <2>4, ExchangeOf
<1>3. CASE ConnRecv(c)
  <2>1. /\ UNCHANGED <<connections, serving>>
        /\ cpc[c] = "replied" /\ cpc' = [cpc EXCEPT ![c] = "poll"]
        /\ cur' = [cur EXCEPT ![c] = None] /\ reply' = [reply EXCEPT ![c] = NoReply]
    BY <1>3 DEF ConnRecv, Learned
  <2>2. /\ cpc'[c] = "poll" /\ reply'[c] = NoReply
        /\ \A d \in Conn : d # c => cpc'[d] = cpc[d] /\ cur'[d] = cur[d] /\ reply'[d] = reply[d]
    BY <2>1 DEF TypeOK
  <2>3. Working'
    BY <2>1, <2>2, WorkingKept
  <2>4. cur[c].type = REQ_IPS => reply[c].which = "ipList"
    <3>1. reply[c].which = Expected(cur[c])
      BY <2>1 DEF Exchange, Replied
    <3>2. cur[c].type = REQ_IPS => Expected(cur[c]) = "ipList"
      BY DEF Expected, REQ_IPS, HELLO, SEND
    <3> QED BY <3>1, <3>2
  <2>5. NoAssert'
    BY <1>3, <2>4 DEF ConnRecv, Learned, Exchange, NoAssert, TypeOK
  <2> QED BY <2>1, <2>2, <2>3, <2>5, ExchangeOf
<1> QED BY <1>1, <1>2, <1>3 DEF ManageConnection

(* A request taken by serve() is answered at once or held as the one being *)
(* served.                                                                 *)
LEMMA ExchangeRequest ==
  ASSUME TypeOK, Exchange, NEW m \in Node, NEW c \in Conn, ServeRequest(m, c) PROVE Exchange'
<1> USE DEF HELLO, REQ_IPS, SEND, REQ_HASHSET_FILTER
<1>1. /\ cpc[c] = "sent" /\ Peer(c) = m /\ serving[m].pc = "recv" /\ cur[c] \in ConnTask
      /\ UNCHANGED <<connections, cur, fate>> /\ reply[c] = NoReply
  BY DEF ServeRequest, ServeHello, ServePeersSize, ServeText, Unseen, Remember, ServeFilter, Receives, Peer,
         Exchange, InHand, InExchange, Replied
<1>2. NoAssert'
  BY <1>1 DEF Exchange, NoAssert
<1>3. ASSUME NEW r, Answers(c, r), UNCHANGED serving, r.which = Expected(cur[c]) PROVE Exchange'
  <2>1. /\ cpc'[c] = "replied" /\ reply'[c] = r
        /\ \A d \in Conn : d # c => cpc'[d] = cpc[d] /\ cur'[d] = cur[d] /\ reply'[d] = reply[d]
    BY <1>1, <1>3 DEF Answers, TypeOK
  <2>2. Working'
    BY <1>1, <1>3, <2>1, WorkingKept
  <2> QED BY <1>1, <1>2, <1>3, <2>1, <2>2, ExchangeOf
<1>4. ASSUME NEW pc \in {"peers", "text"}, NEW slots,
             serving' = [serving EXCEPT ![m] = [pc |-> pc, req |-> c, slots |-> slots]],
             cpc' = [cpc EXCEPT ![c] = "served"], UNCHANGED reply,
             cur[c].type = (IF pc = "peers" THEN REQ_IPS ELSE SEND)
      PROVE  Exchange'
  <2>1. /\ cpc'[c] = "served" /\ reply'[c] = NoReply
        /\ \A d \in Conn : d # c => cpc'[d] = cpc[d] /\ cur'[d] = cur[d] /\ reply'[d] = reply[d]
    BY <1>1, <1>4 DEF TypeOK
  <2>2. Working'
    BY <1>1, <1>4, <2>1 DEF Exchange, Working, TypeOK, Peer
  <2> QED BY <1>1, <1>2, <2>1, <2>2, ExchangeOf
<1>5. CASE ServeHello(m, c)
  BY <1>5, <1>3 DEF ServeHello, Receives, Reply, Expected
<1>6. CASE ServePeersSize(m, c)
  BY <1>6, <1>4 DEF ServePeersSize, Receives
<1>7. CASE ServeText(m, c)
  BY <1>7, <1>3, <1>4 DEF ServeText, Unseen, Remember, Receives, Reply, Expected
<1>8. CASE ServeFilter(m, c)
  BY <1>8, <1>3 DEF ServeFilter, Receives, Reply, Expected
<1> QED BY <1>5, <1>6, <1>7, <1>8 DEF ServeRequest

(* serve() answers the request it holds, with a reply of its kind.         *)
LEMMA ExchangeServe ==
  ASSUME TypeOK, Exchange, NEW m \in Node, Serve(m) PROVE Exchange'
<1> USE DEF HELLO, REQ_IPS, SEND, REQ_HASHSET_FILTER
<1> DEFINE c == serving[m].req
<1>1. ASSUME NEW r, serving[m].pc # "recv", Answers(c, r), UNCHANGED <<connections, cur, fate>>,
             serving' = [serving EXCEPT ![m] = ServeIdle],
             r.which = (IF serving[m].pc = "peers" THEN "ipList" ELSE "ok")
      PROVE  Exchange'
  <2>1. /\ c \in Conn /\ cpc[c] = "served" /\ Peer(c) = m
        /\ cur[c].type = (IF serving[m].pc = "peers" THEN REQ_IPS ELSE SEND)
        /\ cur[c] \in ConnTask
    BY <1>1 DEF Exchange, Working, InHand, InExchange
  <2>2. r.which = Expected(cur[c])
    BY <1>1, <2>1 DEF Expected
  <2>3. /\ cpc'[c] = "replied" /\ reply'[c] = r
        /\ \A d \in Conn : d # c => cpc'[d] = cpc[d] /\ cur'[d] = cur[d] /\ reply'[d] = reply[d]
    BY <1>1, <2>1 DEF Answers, TypeOK
  <2>4. Working'
    <3> SUFFICES ASSUME NEW o \in Node, serving'[o].pc # "recv"
                 PROVE  /\ serving'[o].req \in Conn
                        /\ cpc'[serving'[o].req] = "served"
                        /\ Peer(serving[o].req)' = o
                        /\ serving'[o] = serving[o]
                        /\ cur'[serving'[o].req].type = (IF serving'[o].pc = "peers" THEN REQ_IPS ELSE SEND)
      BY DEF Working, Peer
    <3>1. o # m /\ serving'[o] = serving[o]
      BY <1>1 DEF TypeOK, ServeIdle
    <3>2. /\ serving[o].req \in Conn /\ cpc[serving[o].req] = "served" /\ Peer(serving[o].req) = o
          /\ cur[serving[o].req].type = (IF serving[o].pc = "peers" THEN REQ_IPS ELSE SEND)
      BY <3>1 DEF Exchange, Working
    <3>3. serving[o].req # c
      BY <2>1, <3>1, <3>2
    <3> QED BY <1>1, <2>3, <3>1, <3>2, <3>3 DEF Peer
  <2>5. NoAssert'
    BY <1>1 DEF Exchange, NoAssert
  <2> QED BY <1>1, <2>1, <2>2, <2>3, <2>4, <2>5, ExchangeOf
<1>2. CASE ServePeersFill(m)
  <2>1. CASE Dies(m, "race") /\ UNCHANGED <<cpc, reply, serving>>
    BY <1>2, <2>1, ExchangeIdle DEF ServePeersFill, Dies, Exchange, NoAssert, TypeOK
  <2>2. ASSUME NEW R, Answers(c, Reply("ipList", R)), UNCHANGED fate,
               serving' = [serving EXCEPT ![m] = ServeIdle]
        PROVE  Exchange'
    BY <1>1, <1>2, <2>2 DEF ServePeersFill, Reply
  <2> QED BY <1>2, <2>1, <2>2 DEF ServePeersFill
<1>3. CASE ServeTextDone(m)
  BY <1>3, <1>1 DEF ServeTextDone, Reply
<1>4. CASE FloodStep(m, "serve")
  BY <1>4, ExchangeIdle DEF FloodStep, Dies, Exchange, NoAssert, TypeOK
<1> QED BY <1>2, <1>3, <1>4, ExchangeRequest DEF Serve

(* Every step of every thread keeps requests and replies matched.          *)
LEMMA ExchangeStep == TypeOK /\ Exchange /\ [Next]_vars => Exchange'
<1> SUFFICES ASSUME TypeOK, Exchange, [Next]_vars PROVE Exchange'
  OBVIOUS
<1>1. ASSUME NEW n \in Node, ReadLines(n) PROVE Exchange'
  BY <1>1, ExchangeIdle DEF ReadLines, ReadLine, SendLine, FloodStep, Dies, Exchange, NoAssert, TypeOK
<1>2. CASE UNCHANGED vars
  BY <1>2, ExchangeIdle DEF vars, Exchange, NoAssert
<1>3. ASSUME NEW n \in Node, TornLoop(n) PROVE Exchange'
  BY <1>3, TornEnds, ExchangeIdle DEF Exchange, NoAssert
<1> QED BY <1>1, <1>2, <1>3, ExchangeManage, ExchangeConn, ExchangeServe DEF Next
-----------------------------------------------------------------------------
(* The inductive invariant.  The types need InHand of Exchange, as serve    *)
(* takes a text out of the task in the asking thread's hands.               *)
IInv == TypeOK /\ Exchange /\ Bound /\ ManagerTasks

(* The inductive invariant holds at the start.                             *)
LEMMA Inductive == Init => IInv
  BY TypeInit, ExchangeInit, BoundInit, ManagerTasksInit DEF IInv

(* Every step of every thread keeps the inductive invariant.               *)
LEMMA InductiveStep == IInv /\ [Next]_vars => IInv'
<1> SUFFICES ASSUME IInv, [Next]_vars PROVE IInv'
  OBVIOUS
<1>1. TypeOK'
  BY TypeStep DEF IInv, Exchange
<1> QED BY <1>1, ExchangeStep, BoundStep, ManagerTasksStep DEF IInv

(* The invariant holds in every state of every network of processes. *)
THEOREM Invariance == Spec => []IInv
  BY Inductive, InductiveStep, PTL DEF Spec

(* Every variable of every process keeps its type. *)
THEOREM TypeCorrect == Spec => []TypeOK
<1>1. IInv => TypeOK
  BY DEF IInv
<1> QED BY <1>1, Invariance, PTL

(* EXPAND_CONNECTION never opens more connections than N_CONN or than there *)
(* are addresses, although it measures ip_list without the mutex.           *)
THEOREM ConnectionsBounded == Spec => []ConnBound
<1>1. IInv => ConnBound
  <2> SUFFICES ASSUME IInv, NEW n \in Node
               PROVE  Len(connections[n]) <= N_CONN /\ Len(connections[n]) <= Cardinality(ip_list[n])
    BY DEF ConnBound
  <2>1. Len(connections[n]) \in Nat /\ mgr[n].n_new \in Nat /\ Cardinality(ip_list[n]) \in Nat
    BY AddrSize DEF IInv, TypeOK, MgrLocals
  <2> QED BY <2>1, P2PAssumption DEF IInv, Bound
<1> QED BY <1>1, Invariance, PTL

(* The put-backs of manage() neither lose nor double a periodic task. *)
THEOREM TasksKept == Spec => []ManagerTasks
<1>1. IInv => ManagerTasks
  BY DEF IInv
<1> QED BY <1>1, Invariance, PTL

(* Every reply is of the kind its request asked for, and the assertion in   *)
(* manage_connection never fires.                                           *)
THEOREM RepliesCorrect == Spec => []RepliesMatch
<1>1. IInv => RepliesMatch
  BY DEF IInv, Exchange, Replied, NoAssert, RepliesMatch, Expected
<1> QED BY <1>1, Invariance, PTL
=============================================================================
