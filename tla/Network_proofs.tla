--------------------------- MODULE Network_proofs ---------------------------
(***************************************************************************)
(* Proofs about P2P that relate several processes: the network implements  *)
(* Overlay, a peer that is asked knows who asks, and floods do not         *)
(* amplify.  All of them build on the invariant of P2P_proofs.             *)
(***************************************************************************)
EXTENDS P2P_proofs

(* Only the manager opens connections and uses its locals. *)
LEMMA OnlyManage ==
  ASSUME [Next]_vars
  PROVE  (\E n \in Node : Manage(n)) \/ UNCHANGED <<connections, mgr>>
<1>1. ASSUME NEW m \in Node, Serve(m) \/ ReadLines(m) \/ TornLoop(m)
      PROVE  UNCHANGED <<connections, mgr>>
  BY <1>1 DEF Serve, ServeRequest, ServeHello, ServePeersSize, ServeText, ServeFilter,
     ServePeersFill, ServeTextDone, FloodStep, ReadLines, ReadLine, SendLine, TornLoop
<1>2. ASSUME NEW c \in Conn, ManageConnection(c) PROVE UNCHANGED <<connections, mgr>>
  BY <1>2 DEF ManageConnection, ConnStart, ConnSend, ConnRecv
<1> QED BY <1>1, <1>2 DEF Next, vars

(* Of what others see, the manager changes connections, queues and the     *)
(* state of a thread that it starts.                                       *)
LEMMA ManageKeeps ==
  ASSUME NEW n \in Node, Manage(n)
  PROVE  UNCHANGED <<ip_list, seen, cur, reply, serving, loop, typed, asked>>
  BY DEF Manage, MgrReqIps, MgrSync, MgrExpand, MgrCopy, MgrPick, MgrExpandDone

(* The manager of one process leaves the connections of the others alone. *)
LEMMA ManageOwn ==
  ASSUME TypeOK, NEW n \in Node, NEW m \in Node, Manage(n), m # n
  PROVE  connections'[m] = connections[m] /\ mgr'[m] = mgr[m]
  BY DEF Manage, MgrReqIps, MgrSync, MgrExpand, MgrCopy, MgrPick, MgrExpandDone, TypeOK

(* A connection that was opened keeps its place and its peer. *)
LEMMA PeerKept ==
  ASSUME TypeOK, Exchange, [Next]_vars, NEW c \in Conn, cpc[c] # "off"
  PROVE  Peer(c)' = Peer(c)
<1>1. c[2] \in DOMAIN connections[c[1]] /\ c[1] \in Node
  BY DEF Exchange, Opened, Conn
<1>2. ASSUME NEW n \in Node, Manage(n) PROVE Peer(c)' = Peer(c)
  <2>1. CASE UNCHANGED connections
    BY <2>1 DEF Peer
  <2>2. ASSUME NEW a \in Addr, connections' = [connections EXCEPT ![n] = Append(@, a)]
        PROVE  Peer(c)' = Peer(c)
    BY <1>1, <2>2 DEF Peer, TypeOK
  <2>3. CASE MgrPick(n)
    BY <2>1, <2>2, <2>3, PickEffect
  <2> QED BY <1>2, <2>1, <2>3 DEF Manage, MgrReqIps, MgrSync, MgrExpand, MgrCopy, MgrExpandDone
<1> QED BY <1>2, OnlyManage DEF Peer
-----------------------------------------------------------------------------
(* Where EXPAND_CONNECTION connects to, and what it has copied on the way,  *)
(* is in the process's ip_list.                                            *)
Reached ==
  \A n \in Node :
    /\ Elems(connections[n]) \subseteq ip_list[n]
    /\ mgr[n].old \subseteq ip_list[n]
    /\ Elems(mgr[n].ips_tmp) \subseteq ip_list[n]

(* Clearing the locals after the last round leaves no address behind.      *)
LEMMA RoundKeeps ==
  ASSUME NEW x \in MgrLocals
  PROVE  Round(x).old \subseteq x.old /\ Elems(Round(x).ips_tmp) \subseteq Elems(x.ips_tmp)
<1>1. CASE x.n_new = 0
  <2>1. Round(x).old = {} /\ Round(x).ips_tmp = <<>>
    BY <1>1 DEF Round, MgrIdle
  <2> QED BY <2>1 DEF Elems
<1>2. CASE x.n_new # 0
  BY <1>2 DEF Round
<1> QED BY <1>1, <1>2

(* What the scan finds is in the list it scans.                            *)
LEMMA FoundIn ==
  ASSUME NEW s \in Seq(Addr), NEW i \in Nat \ {0}, NEW cc, NEW j \in ScanStops(s, i, cc)
  PROVE  Found(s, i, j) \in Elems(s) \cup {None}
<1>1. j \in i..(Len(s) + 1) /\ Len(s) \in Nat /\ DOMAIN s = 1..Len(s)
  BY DEF ScanStops
<1> QED BY <1>1 DEF Found, Elems

(* An address more in a sequence is one more among its elements.           *)
LEMMA ElemsAppend ==
  ASSUME NEW s \in Seq(Addr), NEW a \in Addr
  PROVE  Elems(Append(s, a)) \subseteq Elems(s) \cup {a}
  BY DEF Elems

(* No connection is made and no list is copied yet. *)
LEMMA ReachedInit == Init => Reached
  BY DEF Init, Reached, MgrIdle, Elems

(* The copy of ip_list holds addresses the process knows. *)
LEMMA ReachedCopy ==
  ASSUME TypeOK, Reached, NEW n \in Node, MgrCopy(n)
  PROVE  mgr'[n].old \subseteq ip_list[n] /\ Elems(mgr'[n].ips_tmp) \subseteq ip_list[n]
<1>1. CASE UNCHANGED mgr
  BY <1>1 DEF Reached
<1>2. ASSUME NEW S \in {mgr[n].old, ip_list[n]}, NEW s \in Shuffles(S),
             mgr' = [mgr EXCEPT ![n] = Round([@ EXCEPT
                       !.pc = "pick", !.old = {}, !.ips_tmp = s,
                       !.current_ips = Elems(connections[n]) \cup {n}])]
      PROVE  mgr'[n].old \subseteq ip_list[n] /\ Elems(mgr'[n].ips_tmp) \subseteq ip_list[n]
  <2> DEFINE x == [mgr[n] EXCEPT !.pc = "pick", !.old = {}, !.ips_tmp = s,
                     !.current_ips = Elems(connections[n]) \cup {n}]
  <2>1. mgr[n] \in MgrLocals /\ ip_list[n] \in SUBSET Addr /\ connections[n] \in Seq(Addr)
    BY DEF TypeOK
  <2>2. S \in SUBSET Addr /\ S \subseteq ip_list[n]
    BY <2>1 DEF Reached, MgrLocals
  <2>3. s \in Seq(Addr) /\ Elems(s) \subseteq ip_list[n]
    BY <2>2, ShuffleType DEF Shuffles, Elems
  <2>4. Elems(connections[n]) \cup {n} \in SUBSET Addr
    BY <2>1, P2PAssumption DEF Elems
  <2>5. x \in MgrLocals /\ x.old = {} /\ x.ips_tmp = s
    BY <2>1, <2>3, <2>4 DEF MgrLocals
  <2>6. mgr'[n] = Round(x)
    BY <1>2 DEF TypeOK
  <2> HIDE DEF x
  <2> QED BY <2>3, <2>5, <2>6, RoundKeeps
<1> QED BY <1>1, <1>2 DEF MgrCopy

(* A round connects to an address of the copy.                             *)
LEMMA ReachedPick ==
  ASSUME TypeOK, Reached, NEW n \in Node, MgrPick(n)
  PROVE  /\ Elems(connections'[n]) \subseteq ip_list[n]
         /\ mgr'[n].old \subseteq ip_list[n]
         /\ Elems(mgr'[n].ips_tmp) \subseteq ip_list[n]
<1> DEFINE ips == mgr[n].ips_tmp
           i == mgr[n].ip_idx
<1>1. mgr[n] \in MgrLocals /\ connections[n] \in Seq(Addr)
  BY DEF TypeOK
<1>2. PICK j \in ScanStops(ips, i, mgr[n].current_ips) :
        /\ mgr' = [mgr EXCEPT ![n] = Round([mgr[n] EXCEPT !.n_new = mgr[n].n_new - 1, !.ip_idx = j])]
        /\ \/ UNCHANGED connections
           \/ /\ Found(ips, i, j) # None
              /\ connections' = [connections EXCEPT ![n] = Append(@, Found(ips, i, j))]
  BY DEF MgrPick
<1>3. /\ j \in Nat \ {0} /\ Found(ips, i, j) \in Addr \cup {None}
      /\ Found(ips, i, j) \in Elems(ips) \cup {None}
  BY <1>1, FoundType, FoundIn DEF MgrLocals
<1> DEFINE x == [mgr[n] EXCEPT !.n_new = mgr[n].n_new - 1, !.ip_idx = j]
<1>4. mgr[n].n_new - 1 \in Nat
  BY <1>1 DEF MgrPick, MgrLocals
<1>5. x \in MgrLocals /\ x.old = mgr[n].old /\ x.ips_tmp = ips
  BY <1>1, <1>3, <1>4 DEF MgrLocals
<1>6. mgr'[n] = Round(x)
  BY <1>2 DEF TypeOK
<1> HIDE DEF x
<1>7. mgr'[n].old \subseteq mgr[n].old /\ Elems(mgr'[n].ips_tmp) \subseteq Elems(ips)
  BY <1>5, <1>6, RoundKeeps
<1>8. Elems(connections'[n]) \subseteq Elems(connections[n]) \cup Elems(ips)
  <2>1. CASE UNCHANGED connections
    BY <2>1
  <2>2. CASE Found(ips, i, j) # None /\ connections' = [connections EXCEPT ![n] = Append(@, Found(ips, i, j))]
    <3>1. connections'[n] = Append(connections[n], Found(ips, i, j))
      BY <2>2 DEF TypeOK
    <3> QED BY <1>1, <1>3, <2>2, <3>1, ElemsAppend
  <2> QED BY <1>2, <2>1, <2>2
<1> QED BY <1>7, <1>8 DEF Reached

(* Whatever the manager copies or connects to stays in a list that grows. *)
LEMMA ReachedStep == TypeOK /\ Reached /\ [Next]_vars => Reached'
<1> SUFFICES ASSUME TypeOK, Reached, [Next]_vars, NEW n \in Node
             PROVE  /\ Elems(connections'[n]) \subseteq ip_list'[n]
                    /\ mgr'[n].old \subseteq ip_list'[n]
                    /\ Elems(mgr'[n].ips_tmp) \subseteq ip_list'[n]
  BY DEF Reached, Elems
<1>1. ip_list[n] \subseteq ip_list'[n]
  BY ListsGrow
<1>2. CASE connections'[n] = connections[n] /\ mgr'[n] = mgr[n]
  BY <1>1, <1>2 DEF Reached
<1>3. ASSUME NEW m \in Node, Manage(m)
      PROVE  /\ Elems(connections'[n]) \subseteq ip_list[n]
             /\ mgr'[n].old \subseteq ip_list[n]
             /\ Elems(mgr'[n].ips_tmp) \subseteq ip_list[n]
  <2>1. CASE m # n
    BY <1>3, <2>1, ManageOwn DEF Reached
  <2>2. CASE MgrReqIps(n) \/ MgrSync(n)
    BY <2>2 DEF MgrReqIps, MgrSync, Reached
  <2>3. CASE MgrExpand(n)
    <3>1. mgr'[n].old = ip_list[n] /\ mgr'[n].ips_tmp = mgr[n].ips_tmp
      BY <2>3 DEF MgrExpand, TypeOK, MgrLocals
    <3> QED BY <2>3, <3>1 DEF MgrExpand, Reached
  <2>4. CASE MgrCopy(n)
    BY <2>4, ReachedCopy DEF MgrCopy, Reached
  <2>5. CASE MgrPick(n)
    BY <2>5, ReachedPick
  <2>6. CASE MgrExpandDone(n)
    <3>1. mgr'[n].old = {} /\ mgr'[n].ips_tmp = <<>>
      BY <2>6 DEF MgrExpandDone, TypeOK, MgrIdle
    <3> QED BY <2>6, <3>1 DEF MgrExpandDone, Reached, Elems
  <2> QED BY <1>3, <2>1, <2>2, <2>3, <2>4, <2>5, <2>6 DEF Manage
<1> QED BY <1>1, <1>2, <1>3, OnlyManage
-----------------------------------------------------------------------------
(* Only the loop of ServePeersFill hands out addresses: those in ip_list at  *)
(* that moment, or a list that overran its slots.                            *)
LEMMA ListFrom ==
  ASSUME TypeOK, Exchange, [Next]_vars, NEW c \in Conn, reply'[c].which = "ipList"
  PROVE  \/ reply'[c] = reply[c] /\ cpc[c] = "replied" /\ cpc'[c] = "replied"
         \/ \E m \in Node :
              /\ Peer(c) = m /\ serving[m].pc = "peers" /\ serving[m].req = c
              /\ \/ Cardinality(ip_list[m]) = serving[m].slots /\ reply'[c].ips = ip_list[m]
                 \/ reply'[c].ips \in Overrun(serving[m].slots, ip_list[m])
              /\ UNCHANGED <<ip_list, connections, cur>>
<1>0. Exchange' /\ reply \in [Conn -> Replies]
  BY ExchangeStep DEF TypeOK
<1>1. cpc'[c] = "replied"
  BY <1>0 DEF Exchange, Replied, NoReply, Reply
<1>2. CASE reply'[c] = reply[c]
  <2>1. cpc[c] = "replied"
    BY <1>2 DEF Exchange, Replied, NoReply, Reply
  <2> QED BY <1>1, <1>2, <2>1
<1>3. CASE reply'[c] # reply[c]
  <2>1. ASSUME NEW n \in Node, Manage(n) \/ ReadLines(n) \/ TornLoop(n) PROVE FALSE
    BY <1>0, <1>3, <2>1, ManageKeeps DEF ReadLines, ReadLine, SendLine, FloodStep, TornLoop
  <2>2. ASSUME NEW d \in Conn, ManageConnection(d) PROVE FALSE
    <3>1. CASE ConnRecv(d)
      <4>1. reply' = [reply EXCEPT ![d] = NoReply]
        BY <3>1 DEF ConnRecv
      <4> QED BY <1>0, <1>3, <4>1 DEF NoReply, Reply
    <3> QED BY <1>3, <2>2, <3>1 DEF ManageConnection, ConnStart, ConnSend
  <2>3. ASSUME NEW m \in Node, NEW d \in Conn, ServeRequest(m, d) PROVE FALSE
    BY <1>0, <1>3, <2>3 DEF ServeRequest, ServeHello, ServePeersSize, ServeText, ServeFilter, Answers, Reply
  <2>4. ASSUME NEW m \in Node, ServeTextDone(m) \/ FloodStep(m, "serve") PROVE FALSE
    BY <1>0, <1>3, <2>4 DEF ServeTextDone, FloodStep, Answers, Reply
  <2>5. PICK m \in Node : ServePeersFill(m)
    BY <1>0, <1>3, <2>1, <2>2, <2>3, <2>4 DEF Next, vars, Serve
  <2>6. serving[m].pc = "peers" /\ UNCHANGED <<ip_list, connections, cur>>
    BY <2>5 DEF ServePeersFill
  <2>7. serving[m].req \in Conn /\ Peer(serving[m].req) = m
    BY <2>6 DEF Exchange, Working
  <2>8. PICK R : /\ Answers(serving[m].req, Reply("ipList", R))
                 /\ \/ Cardinality(ip_list[m]) = serving[m].slots /\ R = ip_list[m]
                    \/ R \in Overrun(serving[m].slots, ip_list[m])
    BY <1>0, <1>3, <2>5 DEF ServePeersFill
  <2>9. serving[m].req = c /\ reply'[c].ips = R
    BY <1>0, <1>3, <2>7, <2>8 DEF Answers, Reply
  <2> QED BY <2>6, <2>7, <2>8, <2>9
<1> QED BY <1>2, <1>3

(* A list on its way holds what its sender knows, but for a garbled entry. *)
Justified ==
  \A c \in Conn : reply[c].which = "ipList" =>
    Peer(c) \in Node /\ reply[c].ips \subseteq ip_list[Peer(c)] \cup {Bad}

(* No reply is on its way yet. *)
LEMMA JustifiedInit == Init => Justified
  BY DEF Init, Justified, NoReply, Reply

(* The sender's ip_list grows while the list is on its way.                *)
LEMMA JustifiedStep == TypeOK /\ Exchange /\ Justified /\ [Next]_vars => Justified'
<1> SUFFICES ASSUME TypeOK, Exchange, Justified, [Next]_vars,
                    NEW c \in Conn, reply'[c].which = "ipList"
             PROVE  Peer(c)' \in Node /\ reply'[c].ips \subseteq ip_list'[Peer(c)'] \cup {Bad}
  BY DEF Justified, Peer
<1>1. CASE reply'[c] = reply[c] /\ cpc[c] = "replied"
  <2>1. Peer(c)' = Peer(c) /\ Peer(c) \in Node /\ reply[c].ips \subseteq ip_list[Peer(c)] \cup {Bad}
    BY <1>1, PeerKept DEF Justified
  <2> QED BY <1>1, <2>1, ListsGrow
<1>2. ASSUME NEW m \in Node, Peer(c) = m,
             \/ reply'[c].ips = ip_list[m]
             \/ reply'[c].ips \in Overrun(serving[m].slots, ip_list[m]),
             UNCHANGED <<ip_list, connections>>
      PROVE  Peer(c)' \in Node /\ reply'[c].ips \subseteq ip_list'[Peer(c)'] \cup {Bad}
  <2>1. Peer(c)' = m
    BY <1>2 DEF Peer
  <2>2. \A R \in Overrun(serving[m].slots, ip_list[m]) : R \subseteq ip_list[m] \cup {Bad}
    BY DEF Overrun
  <2> QED BY <1>2, <2>1, <2>2
<1> QED BY <1>1, <1>2, ListFrom
-----------------------------------------------------------------------------
(* The tasks that carry lines differ from the others and from each other.  *)
LEMMA SendJobs ==
  /\ \A t \in Text : SendJob(t) \in ConnTask /\ SendJob(t).type = SEND /\ SendJob(t).data = t
  /\ \A t \in Text : \A u : SendJob(t) = SendJob(u) => t = u
  /\ \A t \in Text : \A ty : SendJob(t) # Job(ty)
  /\ \A k \in ConnTask : k.type = SEND => k.data \in Text /\ k = SendJob(k.data)
<1>1. \A t : SendJob(t).type = SEND /\ SendJob(t).data = t
  BY DEF SendJob
<1>2. \A t, ty : SendJob(t) = Job(ty) => t = None
  <2>1. \A ty : Job(ty).data = None
    BY DEF Job
  <2> QED BY <1>1, <2>1
<1>3. \A k \in ConnTask : k.type = SEND => \E t \in Text : k = SendJob(t)
  BY DEF ConnTask, Job, SEND, HELLO, REQ_IPS, REQ_HASHSET_FILTER
<1>4. \A t \in Text : SendJob(t) \in ConnTask /\ t # None
  BY P2PAssumption DEF ConnTask
<1>5. \A t, u : SendJob(t) = SendJob(u) => t = u
  BY <1>1
<1>6. \A k \in ConnTask : k.type = SEND => k.data \in Text /\ k = SendJob(k.data)
  BY <1>1, <1>3
<1> QED BY <1>1, <1>2, <1>4, <1>5, <1>6

(* The number of copies of a text is a number.                             *)
LEMMA CopiesType ==
  ASSUME TypeOK, NEW c \in Conn, NEW t \in Text
  PROVE  Copies(c, t) \in Nat /\ gtd[c][SendJob(t)] \in Nat
<1>1. gtd[c][SendJob(t)] \in Nat
  BY SendJobs DEF TypeOK
<1> QED BY <1>1 DEF Copies

(* The copies of a text after a step are a natural number. *)
LEMMA CopiesNext ==
  ASSUME TypeOK', NEW c \in Conn, NEW t \in Text PROVE Copies(c, t)' \in Nat
<1>1. gtd'[c][SendJob(t)] \in Nat
  BY SendJobs DEF TypeOK
<1> QED BY <1>1 DEF Copies

(* A step that leaves queues of lines and requests alone copies no text.   *)
LEMMA CopiesSame ==
  ASSUME TypeOK, NEW c \in Conn, NEW t \in Text,
         gtd'[c][SendJob(t)] = gtd[c][SendJob(t)],
         InExchange(c)' => InExchange(c) /\ cur'[c] = cur[c]
  PROVE  Copies(c, t)' <= Copies(c, t)
  BY CopiesType DEF Copies

(* manage() queues no text.                                                *)
LEMMA CopiesManage ==
  ASSUME TypeOK, Exchange, NEW n \in Node, Manage(n), NEW c \in Conn, NEW t \in Text
  PROVE  Copies(c, t)' <= Copies(c, t)
<1>1. ASSUME NEW ty, Broadcast(n, Job(ty)) PROVE gtd'[c][SendJob(t)] = gtd[c][SendJob(t)]
  <2>1. gtd[c] \in [ConnTask -> Nat]
    BY DEF TypeOK
  <2>2. SendJob(t) # Job(ty) /\ SendJob(t) \in ConnTask
    BY SendJobs
  <2> QED BY <1>1, <2>1, <2>2 DEF Broadcast
<1>2. gtd'[c][SendJob(t)] = gtd[c][SendJob(t)]
  BY <1>1 DEF Manage, MgrReqIps, MgrSync, MgrExpand, MgrCopy, MgrPick, MgrExpandDone
<1>3. cpc'[c] = cpc[c] \/ cpc'[c] = "start"
  <2>1. CASE MgrPick(n)
    BY <2>1, PickEffect DEF TypeOK
  <2> QED BY <2>1 DEF Manage, MgrReqIps, MgrSync, MgrExpand, MgrCopy, MgrExpandDone
<1>4. UNCHANGED cur
  BY ManageKeeps
<1> QED BY <1>2, <1>3, <1>4, CopiesSame DEF InExchange

(* A text moves from the queue of a connection to the request it sends.    *)
LEMMA CopiesConn ==
  ASSUME TypeOK, Exchange, NEW d \in Conn, ManageConnection(d), NEW c \in Conn, NEW t \in Text
  PROVE  Copies(c, t)' <= Copies(c, t)
<1>0. gtd \in [Conn -> [ConnTask -> Nat]] /\ gtd[c] \in [ConnTask -> Nat] /\ cpc \in [Conn -> ConnPc]
      /\ cur \in [Conn -> ConnTask \cup {None}] /\ SendJob(t) \in ConnTask
  BY SendJobs DEF TypeOK
<1>1. CASE ConnStart(d)
  <2>1. gtd'[c][SendJob(t)] = gtd[c][SendJob(t)]
    BY <1>0, <1>1, SendJobs DEF ConnStart
  <2>2. InExchange(c)' => InExchange(c) /\ cur'[c] = cur[c]
    BY <1>0, <1>1 DEF ConnStart, InExchange
  <2> QED BY <2>1, <2>2, CopiesSame
<1>2. ASSUME NEW k \in ConnTask, ConnSend(d, k) PROVE Copies(c, t)' <= Copies(c, t)
  <2>1. CASE c # d
    <3>1. gtd'[c] = gtd[c] /\ cpc'[c] = cpc[c] /\ cur'[c] = cur[c]
      BY <1>0, <1>2, <2>1 DEF ConnSend
    <3> QED BY <3>1, CopiesSame DEF InExchange
  <2>2. CASE c = d
    <3>1. /\ cpc[c] = "poll" /\ cpc'[c] = "sent" /\ cur'[c] = k
          /\ gtd' = [gtd EXCEPT ![c][k] = @ - 1]
      BY <1>0, <1>2, <2>2 DEF ConnSend
    <3>2. k = SendJob(t) => gtd'[c][SendJob(t)] = gtd[c][SendJob(t)] - 1
      BY <1>0, <3>1
    <3>3. k # SendJob(t) => gtd'[c][SendJob(t)] = gtd[c][SendJob(t)]
      BY <1>0, <3>1
    <3>4. gtd[c][SendJob(t)] \in Nat /\ ~InExchange(c) /\ InExchange(c)'
      BY <3>1, CopiesType DEF InExchange
    <3> QED BY <3>1, <3>2, <3>3, <3>4 DEF Copies
  <2> QED BY <2>1, <2>2
<1>3. CASE ConnRecv(d)
  <2>1. UNCHANGED gtd /\ cpc' = [cpc EXCEPT ![d] = "poll"] /\ cur' = [cur EXCEPT ![d] = None]
    BY <1>3 DEF ConnRecv
  <2>2. InExchange(c)' => InExchange(c) /\ cur'[c] = cur[c]
    BY <1>0, <2>1 DEF InExchange
  <2> QED BY <2>1, <2>2, CopiesSame
<1> QED BY <1>1, <1>2, <1>3 DEF ManageConnection

(* serve() and read_lines queue texts in their loops over connections only. *)
LEMMA CopiesServe ==
  ASSUME TypeOK, Exchange, NEW m \in Node, NEW c \in Conn, NEW t \in Text,
         \/ \E d \in Conn : ServeRequest(m, d)
         \/ ServePeersFill(m) \/ ServeTextDone(m)
         \/ \E u \in Text : ReadLine(m, u) \/ SendLine(m, u)
         \/ TornLoop(m)
  PROVE  Copies(c, t)' <= Copies(c, t)
<1>0. cpc \in [Conn -> ConnPc]
  BY DEF TypeOK
<1>1. UNCHANGED <<gtd, cur>>
  BY DEF ServeRequest, ServeHello, ServePeersSize, ServeText, Unseen, Remember, ServeFilter,
     ServePeersFill, ServeTextDone, ReadLine, SendLine, TornLoop
<1>2. InExchange(c)' => InExchange(c)
  <2>1. ASSUME NEW d \in Conn, ServeRequest(m, d) PROVE InExchange(c)' => InExchange(c)
    <3>1. cpc[d] = "sent"
      BY <2>1 DEF ServeRequest, ServeHello, ServePeersSize, ServeText, ServeFilter, Receives
    <3>2. \A e \in Conn : e # d => cpc'[e] = cpc[e]
      BY <1>0, <2>1 DEF ServeRequest, ServeHello, ServePeersSize, ServeText, ServeFilter, Answers
    <3> QED BY <3>1, <3>2 DEF InExchange
  <2>2. CASE ServePeersFill(m) \/ ServeTextDone(m)
    <3>1. serving[m].req \in Conn /\ cpc[serving[m].req] = "served"
      BY <2>2 DEF ServePeersFill, ServeTextDone, Exchange, Working
    <3>2. \A e \in Conn : e # serving[m].req => cpc'[e] = cpc[e]
      BY <1>0, <2>2 DEF ServePeersFill, ServeTextDone, Answers
    <3> QED BY <3>1, <3>2 DEF InExchange
  <2>3. ASSUME NEW u \in Text, ReadLine(m, u) \/ SendLine(m, u) \/ TornLoop(m)
        PROVE  InExchange(c)' => InExchange(c)
    BY <2>3 DEF ReadLine, SendLine, TornLoop, InExchange
  <2>4. CASE TornLoop(m)
    BY <2>4 DEF TornLoop, InExchange
  <2> QED BY <2>1, <2>2, <2>3, <2>4
<1> QED BY <1>1, <1>2, CopiesSame
-----------------------------------------------------------------------------
(* A loop with a connection still to come to. *)
Going(l) == l.next <= l.end

(* No loop is set going, or goes on with something else. *)
Resting ==
  \A n \in Node, w \in Looper : loop'[n][w] = loop[n][w] \/ ~Going(loop'[n][w])

(* A loop is at rest when it has ended, and while its line is to be sent.  *)
LEMMA AtRest == ~Going(NoLoop) /\ \A t : ~Going(ToSend(t))
  BY DEF Going, NoLoop, ToSend

(* Whose lines a step may touch: those of a loop over connections, of a    *)
(* line sent or of a text received; every other step leaves them alone.    *)
LEMMA Talking ==
  ASSUME TypeOK, Exchange, [Next]_vars
  PROVE  \/ \E n \in Node, w \in Looper : FloodStep(n, w)
         \/ \E n \in Node, t \in Text : SendLine(n, t)
         \/ \E m \in Node, d \in Conn : ServeText(m, d)
         \/ /\ Resting /\ UNCHANGED <<typed, seen>>
            /\ \A c \in Conn, t \in Text : Copies(c, t)' <= Copies(c, t)
<1>1. ASSUME NEW n \in Node, Manage(n)
      PROVE  /\ Resting /\ UNCHANGED <<typed, seen>>
             /\ \A c \in Conn, t \in Text : Copies(c, t)' <= Copies(c, t)
  BY <1>1, ManageKeeps, CopiesManage DEF Resting
<1>2. ASSUME NEW d \in Conn, ManageConnection(d)
      PROVE  /\ Resting /\ UNCHANGED <<typed, seen>>
             /\ \A c \in Conn, t \in Text : Copies(c, t)' <= Copies(c, t)
  BY <1>2, CopiesConn DEF ManageConnection, ConnStart, ConnSend, ConnRecv, Resting
<1>3. ASSUME NEW m \in Node, NEW d \in Conn, ServeRequest(m, d), ~ServeText(m, d)
      PROVE  /\ Resting /\ UNCHANGED <<typed, seen>>
             /\ \A c \in Conn, t \in Text : Copies(c, t)' <= Copies(c, t)
  BY <1>3, CopiesServe DEF ServeRequest, ServeHello, ServePeersSize, ServeFilter, Resting
<1>4. ASSUME NEW m \in Node, ServePeersFill(m) \/ ServeTextDone(m)
      PROVE  /\ Resting /\ UNCHANGED <<typed, seen>>
             /\ \A c \in Conn, t \in Text : Copies(c, t)' <= Copies(c, t)
  BY <1>4, CopiesServe DEF ServePeersFill, ServeTextDone, Resting
<1>5. CASE UNCHANGED vars
  <2>1. UNCHANGED <<loop, typed, seen, gtd, cpc, cur>>
    BY <1>5 DEF vars
  <2> QED BY <2>1, CopiesSame DEF InExchange, Resting
<1>6. ASSUME NEW m \in Node, Serve(m)
      PROVE  \/ \E n \in Node, w \in Looper : FloodStep(n, w)
             \/ \E d \in Conn : ServeText(m, d)
             \/ /\ Resting /\ UNCHANGED <<typed, seen>>
                /\ \A c \in Conn, t \in Text : Copies(c, t)' <= Copies(c, t)
  BY <1>3, <1>4, <1>6 DEF Serve, Looper
<1>7. ASSUME NEW n \in Node, NEW t \in Text, ReadLine(n, t)
      PROVE  /\ Resting /\ UNCHANGED <<typed, seen>>
             /\ \A c \in Conn, u \in Text : Copies(c, u)' <= Copies(c, u)
  <2>1. loop' = [loop EXCEPT ![n]["read"] = ToSend(t)] /\ UNCHANGED <<typed, seen>>
    BY <1>7 DEF ReadLine
  <2>2. loop \in [Node -> [Looper -> Loops]]
    BY DEF TypeOK
  <2>3. Resting
    BY <2>1, <2>2, AtRest DEF Resting
  <2> QED BY <1>7, <2>1, <2>3, CopiesServe
<1>8. ASSUME NEW n \in Node, TornLoop(n)
      PROVE  /\ Resting /\ UNCHANGED <<typed, seen>>
             /\ \A c \in Conn, t \in Text : Copies(c, t)' <= Copies(c, t)
  BY <1>8, CopiesServe DEF TornLoop, Resting
<1>9. ASSUME NEW n \in Node, ReadLines(n)
      PROVE  \/ \E w \in Looper : FloodStep(n, w)
             \/ \E t \in Text : SendLine(n, t)
             \/ \E t \in Text : ReadLine(n, t)
  BY <1>9, P2PAssumption DEF ReadLines, Looper
<1> QED BY <1>1, <1>2, <1>5, <1>6, <1>7, <1>8, <1>9 DEF Next

(* One round of a loop: nothing if the thread dies, else one text queued.  *)
LEMMA FloodEffect ==
  ASSUME TypeOK, NEW n \in Node, NEW w \in Looper, FloodStep(n, w)
  PROVE  /\ Going(loop[n][w])
         /\ UNCHANGED <<connections, seen, typed, serving, cpc, cur>>
         /\ \/ UNCHANGED <<gtd, loop>>
            \/ /\ gtd' = [gtd EXCEPT ![<<n, loop[n][w].next>>][SendJob(loop[n][w].text)] = @ + 1]
               /\ loop'[n][w] = (IF loop[n][w].next = loop[n][w].end THEN NoLoop
                                 ELSE [loop[n][w] EXCEPT !.next = @ + 1])
               /\ \A o \in Node, v \in Looper : o # n \/ v # w => loop'[o][v] = loop[o][v]
<1>0. loop \in [Node -> [Looper -> Loops]]
  BY DEF TypeOK
<1>1. Going(loop[n][w]) /\ UNCHANGED <<connections, seen, typed, serving, cpc, cur>>
  BY DEF FloodStep, Going
<1>2. CASE UNCHANGED <<gtd, loop>>
  BY <1>1, <1>2
<1>3. CASE ~UNCHANGED <<gtd, loop>>
  <2>1. /\ gtd' = [gtd EXCEPT ![<<n, loop[n][w].next>>][SendJob(loop[n][w].text)] = @ + 1]
        /\ loop' = [loop EXCEPT ![n][w] =
              IF loop[n][w].next = loop[n][w].end THEN NoLoop ELSE [loop[n][w] EXCEPT !.next = @ + 1]]
    BY <1>3 DEF FloodStep
  <2> QED BY <1>0, <1>1, <2>1
<1> QED BY <1>2, <1>3

(* A loop that starts has all connections of the moment before it.         *)
LEMMA StartEffect ==
  ASSUME TypeOK, NEW n \in Node, NEW w \in Looper, NEW t \in Text, StartLoop(n, w, t)
  PROVE  /\ \/ loop'[n][w] = NoLoop
            \/ /\ Len(connections[n]) \in Nat \ {0}
               /\ loop'[n][w] = [text |-> t, next |-> 1, end |-> Len(connections[n])]
         /\ \A o \in Node, v \in Looper : o # n \/ v # w => loop'[o][v] = loop[o][v]
<1>1. connections[n] \in Seq(Addr) /\ loop \in [Node -> [Looper -> Loops]]
  BY DEF TypeOK
<1>2. connections[n] # <<>> => Len(connections[n]) \in Nat \ {0}
  BY <1>1
<1> QED BY <1>1, <1>2 DEF StartLoop

(* What ServeText and SendLine do to the history of texts.                 *)
LEMMA HearEffect ==
  ASSUME TypeOK, Exchange, NEW m \in Node, NEW d \in Conn, ServeText(m, d)
  PROVE  /\ cur[d].data \in Text /\ cur[d] = SendJob(cur[d].data) /\ cpc[d] = "sent"
         /\ Peer(d) = m /\ serving[m].pc = "recv"
         /\ UNCHANGED <<connections, typed, ip_list>>
         /\ \/ UNCHANGED <<seen, serving, loop>>
            \/ /\ cur[d].data \notin seen[m]
               /\ seen' = [seen EXCEPT ![m] = @ \cup {cur[d].data}]
               /\ serving'[m].pc = "text"
               /\ \A o \in Node : o # m => serving'[o] = serving[o]
               /\ StartLoop(m, "serve", cur[d].data)
<1>1. cpc[d] = "sent" /\ cur[d].type = SEND /\ Peer(d) = m /\ serving[m].pc = "recv"
  BY DEF ServeText, Receives, Unseen, Remember, Peer
<1>2. cur[d].data \in Text /\ cur[d] = SendJob(cur[d].data)
  BY <1>1, SendJobs DEF Exchange, InHand, InExchange
<1> QED BY <1>1, <1>2 DEF ServeText, Unseen, Remember, TypeOK

(* What read_lines does with a line, with its conditions. *)
LEMMA SayEffect ==
  ASSUME TypeOK, NEW n \in Node, NEW t \in Text, SendLine(n, t)
  PROVE  /\ ~Going(loop[n]["read"])
         /\ typed[n][t] \in Nat
         /\ typed' = [typed EXCEPT ![n][t] = @ + 1]
         /\ StartLoop(n, "read", t)
         /\ UNCHANGED <<connections, seen, serving, ip_list, gtd, cpc, cur>>
  BY AtRest DEF SendLine, TypeOK
-----------------------------------------------------------------------------
(* What the user of a process typed or the process received. *)
Voiced(n) == {t \in Text : typed[n][t] > 0} \cup seen[n]

(* A text on its way from a process is one it typed or received. *)
Texts ==
  /\ \A c \in Conn, t \in Text : Copies(c, t) > 0 => t \in Voiced(c[1])
  /\ \A n \in Node, w \in Looper : Going(loop[n][w]) => loop[n][w].text \in Voiced(n)

(* Nothing was typed and nothing is queued yet. *)
LEMMA TextsInit == Init => Texts
<1>1. Init => \A c \in Conn, t \in Text : Copies(c, t) = 0
  BY SendJobs DEF Init, Copies, InExchange
<1> QED BY <1>1, AtRest DEF Init, Texts

(* What was said or heard stays so.                                        *)
LEMMA VoicesGrow ==
  ASSUME TypeOK, Exchange, [Next]_vars, NEW n \in Node
  PROVE  /\ Voiced(n) \subseteq Voiced(n)'
         /\ seen[n] \subseteq seen'[n]
         /\ \A t \in Text : typed[n][t] \in Nat /\ typed[n][t] <= typed'[n][t]
<1>0. typed \in [Node -> [Text -> Nat]] /\ seen \in [Node -> SUBSET Text]
  BY DEF TypeOK
<1>1. seen[n] \subseteq seen'[n] /\ \A t \in Text : typed[n][t] \in Nat /\ typed[n][t] <= typed'[n][t]
  <2>1. CASE UNCHANGED <<typed, seen>>
    BY <1>0, <2>1
  <2>2. ASSUME NEW m \in Node, NEW w \in Looper, FloodStep(m, w) PROVE UNCHANGED <<typed, seen>>
    BY <2>2, FloodEffect
  <2>3. ASSUME NEW m \in Node, NEW u \in Text, SendLine(m, u)
        PROVE  seen[n] \subseteq seen'[n] /\ \A t \in Text : typed[n][t] \in Nat /\ typed[n][t] <= typed'[n][t]
    BY <1>0, <2>3, SayEffect
  <2>4. ASSUME NEW m \in Node, NEW d \in Conn, ServeText(m, d)
        PROVE  UNCHANGED typed /\ seen[n] \subseteq seen'[n]
    BY <1>0, <2>4, HearEffect
  <2> QED BY <1>0, <2>1, <2>2, <2>3, <2>4, Talking
<1>2. \A t \in Text : typed'[n][t] \in Nat
  BY TypeStep DEF Exchange, TypeOK
<1>3. \A t \in Text : typed[n][t] > 0 => typed'[n][t] > 0
  BY <1>1, <1>2
<1> QED BY <1>1, <1>3 DEF Voiced

(* Receiving and typing are the only sources of what a process sends.      *)
LEMMA TextsStep == TypeOK /\ Exchange /\ Texts /\ [Next]_vars => Texts'
<1> SUFFICES ASSUME TypeOK, Exchange, Texts, [Next]_vars PROVE Texts'
  OBVIOUS
<1>0. \A n \in Node : Voiced(n) \subseteq Voiced(n)'
  BY VoicesGrow
<1>a. \A c \in Conn : c[1] \in Node
  BY DEF Conn
<1>b. ASSUME NEW c \in Conn, NEW t \in Text, Copies(c, t)' <= Copies(c, t), Copies(c, t)' > 0
      PROVE  t \in Voiced(c[1])'
  <2>1. Copies(c, t) > 0
    BY <1>b, CopiesType, CopiesNext, TypeStep DEF Exchange
  <2> QED BY <2>1, <1>0, <1>a DEF Texts
<1>c. ASSUME NEW m \in Node, NEW u \in Text, NEW v \in Looper, StartLoop(m, v, u), u \in Voiced(m)',
             NEW n \in Node, NEW w \in Looper, Going(loop'[n][w])
      PROVE  loop'[n][w].text \in Voiced(n)'
  <2>0. /\ loop'[m][v] = NoLoop \/ loop'[m][v].text = u
        /\ \A o \in Node, x \in Looper : o # m \/ x # v => loop'[o][x] = loop[o][x]
    <3>1. /\ \/ loop'[m][v] = NoLoop
             \/ loop'[m][v] = [text |-> u, next |-> 1, end |-> Len(connections[m])]
          /\ \A o \in Node, x \in Looper : o # m \/ x # v => loop'[o][x] = loop[o][x]
      BY <1>c, StartEffect
    <3> QED BY <3>1
  <2>1. CASE n = m /\ w = v
    BY <1>c, <2>0, <2>1, AtRest DEF Voiced
  <2>2. CASE n # m \/ w # v
    <3>1. loop'[n][w] = loop[n][w]
      BY <2>0, <2>2
    <3> QED BY <1>c, <3>1, <1>0 DEF Texts
  <2> QED BY <2>1, <2>2
<1>1. ASSUME Resting, UNCHANGED <<typed, seen>>,
             \A c \in Conn, t \in Text : Copies(c, t)' <= Copies(c, t)
      PROVE  Texts'
  <2>1. \A n \in Node, w \in Looper : Going(loop'[n][w]) => loop'[n][w].text \in Voiced(n)'
    BY <1>0, <1>1 DEF Texts, Resting
  <2> QED BY <1>1, <1>b, <2>1 DEF Texts
<1>2. ASSUME NEW m \in Node, NEW u \in Text, SendLine(m, u) PROVE Texts'
  <2>1. u \in Voiced(m)'
    BY <1>2, SayEffect DEF Voiced, TypeOK
  <2>2. \A n \in Node, w \in Looper : Going(loop'[n][w]) => loop'[n][w].text \in Voiced(n)'
    BY <1>2, <1>c, <2>1, SayEffect DEF Looper
  <2>3. \A c \in Conn, t \in Text : Copies(c, t)' <= Copies(c, t)
    BY <1>2, CopiesServe
  <2> QED BY <1>b, <2>2, <2>3 DEF Texts
<1>3. ASSUME NEW m \in Node, NEW d \in Conn, ServeText(m, d) PROVE Texts'
  <2> DEFINE u == cur[d].data
  <2>1. CASE UNCHANGED <<seen, loop>>
    BY <1>1, <1>3, <2>1, HearEffect, CopiesServe DEF ServeRequest, Resting
  <2>2. CASE seen' = [seen EXCEPT ![m] = @ \cup {u}] /\ StartLoop(m, "serve", u)
    <3>1. u \in Voiced(m)' /\ u \in Text
      BY <1>3, <2>2, HearEffect DEF Voiced, TypeOK
    <3>2. \A n \in Node, w \in Looper : Going(loop'[n][w]) => loop'[n][w].text \in Voiced(n)'
      BY <1>c, <2>2, <3>1 DEF Looper
    <3>3. \A c \in Conn, t \in Text : Copies(c, t)' <= Copies(c, t)
      BY <1>3, CopiesServe DEF ServeRequest
    <3> QED BY <1>b, <3>2, <3>3 DEF Texts
  <2> QED BY <1>3, <2>1, <2>2, HearEffect
<1>4. ASSUME NEW m \in Node, NEW v \in Looper, FloodStep(m, v) PROVE Texts'
  <2> DEFINE l == loop[m][v]
             d == <<m, l.next>>
  <2>0. /\ Going(l) /\ UNCHANGED <<seen, typed, cpc, cur>>
        /\ l \in Loops /\ gtd \in [Conn -> [ConnTask -> Nat]]
    <3>1. Going(l) /\ UNCHANGED <<seen, typed, cpc, cur>>
      BY <1>4, FloodEffect
    <3> QED BY <3>1 DEF TypeOK
  <2>1. CASE UNCHANGED <<gtd, loop>>
    BY <1>1, <2>0, <2>1, CopiesSame DEF InExchange, Resting
  <2>2. CASE /\ gtd' = [gtd EXCEPT ![d][SendJob(l.text)] = @ + 1]
             /\ loop'[m][v] = (IF l.next = l.end THEN NoLoop ELSE [l EXCEPT !.next = @ + 1])
             /\ \A o \in Node, x \in Looper : o # m \/ x # v => loop'[o][x] = loop[o][x]
    <3>1. l.text \in Voiced(m) /\ l.text \in Voiced(m)'
      BY <2>0, <1>0 DEF Texts
    <3>2. ASSUME NEW c \in Conn, NEW t \in Text, Copies(c, t)' > 0 PROVE t \in Voiced(c[1])'
      <4>1. CASE c = d /\ t = l.text
        BY <3>1, <4>1
      <4>2. CASE c # d \/ t # l.text
        <5>1. gtd'[c][SendJob(t)] = gtd[c][SendJob(t)]
          BY <2>0, <2>2, <4>2, SendJobs
        <5>2. Copies(c, t)' <= Copies(c, t)
          BY <2>0, <5>1, CopiesSame DEF InExchange
        <5> QED BY <1>b, <3>2, <5>2
      <4> QED BY <4>1, <4>2
    <3>3. ASSUME NEW n \in Node, NEW w \in Looper, Going(loop'[n][w])
          PROVE  loop'[n][w].text \in Voiced(n)'
      <4>1. CASE n = m /\ w = v
        <5>1. loop'[n][w].text = l.text
          BY <2>0, <2>2, <3>3, <4>1, AtRest DEF Loops
        <5> QED BY <3>1, <4>1, <5>1
      <4>2. CASE n # m \/ w # v
        <5>1. loop'[n][w] = loop[n][w]
          BY <2>2, <4>2
        <5> QED BY <3>3, <5>1, <1>0 DEF Texts
      <4> QED BY <4>1, <4>2
    <3> QED BY <3>2, <3>3 DEF Texts
  <2> QED BY <1>4, <2>1, <2>2, FloodEffect
<1> QED BY <1>1, <1>2, <1>3, <1>4, Talking
-----------------------------------------------------------------------------
(* The steps of the network that are steps of Overlay.                     *)
LEMMA OverlaySteps ==
  ASSUME [Next]_vars
  PROVE  \/ \E m \in Node, c \in Conn : ServeHello(m, c) \/ ServeText(m, c)
         \/ \E c \in Conn : ConnRecv(c)
         \/ \E n \in Node, t \in Text : SendLine(n, t)
         \/ UNCHANGED <<ip_list, typed, seen>>
<1>1. ASSUME NEW n \in Node, Manage(n) PROVE UNCHANGED <<ip_list, typed, seen>>
  BY <1>1, ManageKeeps
<1>2. ASSUME NEW c \in Conn, ManageConnection(c) PROVE ConnRecv(c) \/ UNCHANGED <<ip_list, typed, seen>>
  BY <1>2 DEF ManageConnection, ConnStart, ConnSend
<1>3. ASSUME NEW m \in Node, NEW c \in Conn, ServeRequest(m, c)
      PROVE  ServeHello(m, c) \/ ServeText(m, c) \/ UNCHANGED <<ip_list, typed, seen>>
  BY <1>3 DEF ServeRequest, ServePeersSize, ServeFilter
<1>4. ASSUME NEW m \in Node, NEW w \in Looper, ServePeersFill(m) \/ ServeTextDone(m) \/ FloodStep(m, w)
      PROVE  UNCHANGED <<ip_list, typed, seen>>
  BY <1>4 DEF ServePeersFill, ServeTextDone, FloodStep
<1>5. ASSUME NEW n \in Node, ReadLines(n) \/ TornLoop(n)
      PROVE  (\E t \in Text : SendLine(n, t)) \/ UNCHANGED <<ip_list, typed, seen>>
  BY <1>4, <1>5, P2PAssumption DEF ReadLines, ReadLine, TornLoop, Looper
<1>6. ASSUME NEW m \in Node, Serve(m)
      PROVE  \/ \E c \in Conn : ServeHello(m, c) \/ ServeText(m, c)
             \/ UNCHANGED <<ip_list, typed, seen>>
  BY <1>3, <1>4, <1>6 DEF Serve, Looper
<1>7. CASE UNCHANGED vars
  BY <1>7 DEF vars
<1> QED BY <1>1, <1>2, <1>5, <1>6, <1>7 DEF Next

(* A connection with a request under way goes to an address its process knows. *)
LEMMA PeerKnown ==
  ASSUME TypeOK, Exchange, Reached, NEW c \in Conn, cpc[c] # "off"
  PROVE  c[1] \in Node /\ Peer(c) \in ip_list[c[1]]
<1>1. c[1] \in Node /\ c[2] \in DOMAIN connections[c[1]]
  BY DEF Exchange, Opened, Conn
<1> QED BY <1>1 DEF Reached, Elems, Peer

(* serve's HELLO is a Greet.                                               *)
LEMMA HelloGreets ==
  ASSUME TypeOK, Exchange, Reached, NEW m \in Node, NEW c \in Conn, ServeHello(m, c)
  PROVE  O!Next
<1>1. /\ cpc[c] = "sent" /\ Peer(c) = m
      /\ ip_list' = [ip_list EXCEPT ![m] = @ \cup {c[1]}]
      /\ UNCHANGED <<typed, seen>>
  BY DEF ServeHello, Receives, Peer
<1>2. c[1] \in Node /\ m \in ip_list[c[1]]
  BY <1>1, PeerKnown
<1>3. O!Greet(c[1], m)
  BY <1>1, <1>2 DEF O!Greet
<1> QED BY <1>2, <1>3 DEF O!Next

(* Reading the reply to REQ_IPS is a Learn.                                *)
LEMMA RecvLearns ==
  ASSUME TypeOK, Exchange, Reached, Justified, NEW c \in Conn, ConnRecv(c)
  PROVE  O!Next \/ UNCHANGED O!vars
<1>1. /\ cpc[c] = "replied" /\ UNCHANGED <<typed, seen>>
      /\ ip_list' = [ip_list EXCEPT ![c[1]] =
           IF cur[c].type = REQ_IPS /\ reply[c].which = "ipList" THEN @ \cup reply[c].ips ELSE @]
  BY DEF ConnRecv, Learned
<1>2. CASE reply[c].which = "ipList" /\ cur[c].type = REQ_IPS
  <2>1. Peer(c) \in Node /\ reply[c].ips \in SUBSET (ip_list[Peer(c)] \cup {Bad})
    BY <1>2 DEF Justified
  <2>2. c[1] \in Node /\ Peer(c) \in ip_list[c[1]]
    BY <1>1, PeerKnown
  <2>3. ip_list' = [ip_list EXCEPT ![c[1]] = @ \cup reply[c].ips]
    BY <1>1, <1>2
  <2>4. O!Learn(c[1], Peer(c))
    BY <1>1, <2>1, <2>2, <2>3 DEF O!Learn
  <2> QED BY <2>1, <2>2, <2>4 DEF O!Next
<1>3. CASE ~(reply[c].which = "ipList" /\ cur[c].type = REQ_IPS)
  <2>1. ip_list' = ip_list
    BY <1>1, <1>3 DEF TypeOK
  <2> QED BY <1>1, <2>1 DEF O!vars
<1> QED BY <1>2, <1>3

(* serve's TEXT is a Hear, unless the text is known already.               *)
LEMMA TextHears ==
  ASSUME TypeOK, Exchange, Reached, Texts, NEW m \in Node, NEW c \in Conn, ServeText(m, c)
  PROVE  O!Next \/ UNCHANGED O!vars
<1> DEFINE t == cur[c].data
<1>1. /\ t \in Text /\ cur[c] = SendJob(t) /\ cpc[c] = "sent" /\ Peer(c) = m
      /\ UNCHANGED <<ip_list, typed>>
      /\ UNCHANGED seen \/ seen' = [seen EXCEPT ![m] = @ \cup {t}]
  BY HearEffect
<1>2. c[1] \in Node /\ m \in ip_list[c[1]]
  BY <1>1, PeerKnown
<1> HIDE DEF t
<1>3. Copies(c, t) > 0
  <2>1. gtd[c][SendJob(t)] \in Nat /\ InExchange(c)
    BY <1>1, CopiesType DEF InExchange
  <2> QED BY <1>1, <2>1 DEF Copies
<1>4. t \in Voiced(c[1])
  BY <1>1, <1>3 DEF Texts
<1>5. CASE UNCHANGED seen
  BY <1>1, <1>5 DEF O!vars
<1>6. CASE seen' = [seen EXCEPT ![m] = @ \cup {t}]
  <2>1. O!Hear(m, c[1])
    BY <1>1, <1>2, <1>4, <1>6 DEF O!Hear, Voiced
  <2> QED BY <1>2, <2>1 DEF O!Next
<1> QED BY <1>1, <1>5, <1>6

(* A line sent is a Say.                                                   *)
LEMMA LineSays ==
  ASSUME TypeOK, NEW n \in Node, NEW t \in Text, SendLine(n, t)
  PROVE  O!Next
<1>1. typed' = [typed EXCEPT ![n][t] = @ + 1] /\ UNCHANGED <<ip_list, seen>>
      /\ typed \in [Node -> [Text -> Nat]]
  BY SayEffect DEF TypeOK
<1>2. \A o \in Node : {u \in Text : typed'[o][u] > 0} =
        IF o = n THEN {u \in Text : typed[o][u] > 0} \cup {t} ELSE {u \in Text : typed[o][u] > 0}
  BY <1>1
<1>3. O!Say(n, t)
  BY <1>1, <1>2 DEF O!Say
<1> QED BY <1>3 DEF O!Next

(* A network starts with what the command lines say and without texts.     *)
LEMMA OverlayInit == Init => O!Init
  BY DEF Init, O!Init

(* What the steps are about. *)
Sources == Reached /\ Justified /\ Texts

(* Every step of a process is a step of the overlay or a stutter. *)
LEMMA OverlayStep ==
  TypeOK /\ Exchange /\ Sources /\ [Next]_vars => [O!Next]_(O!vars)
<1>1. UNCHANGED <<ip_list, typed, seen>> => UNCHANGED O!vars
  BY DEF O!vars
<1> QED BY <1>1, OverlaySteps, HelloGreets, RecvLearns, TextHears, LineSays DEF Sources

(* Addresses and texts come from somewhere: in every state of every network. *)
LEMMA SourcesInvariant == Spec => []Sources
<1>1. Init => Sources
  BY ReachedInit, JustifiedInit, TextsInit DEF Sources
<1>2. IInv /\ Sources /\ [Next]_vars => Sources'
  BY ReachedStep, JustifiedStep, TextsStep DEF Sources, IInv
<1> QED BY <1>1, <1>2, Invariance, PTL DEF Spec

(* The network of manage, manage_connection, serve and read_lines threads   *)
(* implements Overlay: addresses and texts travel along "knows" only.       *)
THEOREM NetworkImplementsOverlay == Spec => ImplementsOverlay
<1>1. IInv /\ Sources /\ [Next]_vars => [O!Next]_(O!vars)
  BY OverlayStep DEF IInv
<1> QED BY <1>1, OverlayInit, Invariance, SourcesInvariant, PTL DEF Spec, ImplementsOverlay, O!Spec
-----------------------------------------------------------------------------
(* The thread of a connection and its HELLO: what can happen to them.      *)
Untouched(c) ==
  /\ cpc'[c] = cpc[c] \/ cpc'[c] = "start"
  /\ cur'[c] = cur[c]
  /\ gtd'[c][Job(HELLO)] = gtd[c][Job(HELLO)]

(* What a step can do to one connection: its thread goes on, serve takes or *)
(* answers its request, or nothing.                                         *)
LEMMA Threads ==
  ASSUME TypeOK, Exchange, [Next]_vars, NEW c \in Conn
  PROVE  \/ ManageConnection(c)
         \/ \E m \in Node : ServeRequest(m, c)
         \/ /\ cpc[c] = "served" /\ cpc'[c] = "replied"
            /\ cur'[c] = cur[c] /\ gtd'[c] = gtd[c]
         \/ Untouched(c)
<1>0. /\ gtd \in [Conn -> [ConnTask -> Nat]] /\ cpc \in [Conn -> ConnPc]
      /\ cur \in [Conn -> ConnTask \cup {None}] /\ gtd[c] \in [ConnTask -> Nat]
      /\ Job(HELLO) \in ConnTask
  BY JobTypes DEF TypeOK
<1>1. ASSUME NEW n \in Node, Manage(n) PROVE Untouched(c)
  <2>1. ASSUME NEW ty, ty # HELLO, Broadcast(n, Job(ty)) PROVE gtd'[c][Job(HELLO)] = gtd[c][Job(HELLO)]
    <3>1. Job(ty) # Job(HELLO)
      BY <2>1 DEF Job
    <3> QED BY <1>0, <2>1, <3>1 DEF Broadcast
  <2>2. gtd'[c][Job(HELLO)] = gtd[c][Job(HELLO)]
    <3>1. REQ_IPS # HELLO /\ REQ_HASHSET_FILTER # HELLO
      BY DEF REQ_IPS, REQ_HASHSET_FILTER, HELLO
    <3> QED BY <1>1, <2>1, <3>1
           DEF Manage, MgrReqIps, MgrSync, MgrExpand, MgrCopy, MgrPick, MgrExpandDone
  <2>3. cpc'[c] = cpc[c] \/ cpc'[c] = "start"
    <3>1. CASE MgrPick(n)
      BY <1>0, <3>1, PickEffect
    <3> QED BY <1>1, <3>1 DEF Manage, MgrReqIps, MgrSync, MgrExpand, MgrCopy, MgrExpandDone
  <2> QED BY <1>1, <2>2, <2>3, ManageKeeps DEF Untouched
<1>2. ASSUME NEW d \in Conn, ManageConnection(d), d # c PROVE Untouched(c)
  BY <1>0, <1>2 DEF ManageConnection, ConnStart, ConnSend, ConnRecv, Untouched
<1>3. ASSUME NEW m \in Node, NEW d \in Conn, ServeRequest(m, d), d # c PROVE Untouched(c)
  BY <1>0, <1>3 DEF ServeRequest, ServeHello, ServePeersSize, ServeText, Unseen, Remember, ServeFilter,
     Answers, Untouched
<1>4. ASSUME NEW m \in Node, ServePeersFill(m) \/ ServeTextDone(m)
      PROVE  \/ /\ cpc[c] = "served" /\ cpc'[c] = "replied"
                /\ cur'[c] = cur[c] /\ gtd'[c] = gtd[c]
             \/ Untouched(c)
  <2>1. serving[m].req \in Conn /\ cpc[serving[m].req] = "served"
    BY <1>4 DEF ServePeersFill, ServeTextDone, Exchange, Working
  <2>2. UNCHANGED <<gtd, cur>> /\ (UNCHANGED cpc \/ cpc' = [cpc EXCEPT ![serving[m].req] = "replied"])
    BY <1>4 DEF ServePeersFill, ServeTextDone, Answers
  <2> QED BY <1>0, <2>1, <2>2 DEF Untouched
<1>5. ASSUME NEW n \in Node, NEW w \in Looper, FloodStep(n, w) PROVE Untouched(c)
  <2>1. UNCHANGED <<cpc, cur>>
    BY <1>5 DEF FloodStep
  <2>2. gtd'[c][Job(HELLO)] = gtd[c][Job(HELLO)]
    <3>1. CASE UNCHANGED gtd
      BY <3>1
    <3>2. CASE gtd' = [gtd EXCEPT ![<<n, loop[n][w].next>>][SendJob(loop[n][w].text)] = @ + 1]
      <4>1. SendJob(loop[n][w].text) # Job(HELLO)
        BY DEF SendJob, Job, SEND, HELLO
      <4> QED BY <1>0, <3>2, <4>1
    <3> QED BY <1>5, <3>1, <3>2 DEF FloodStep
  <2> QED BY <2>1, <2>2 DEF Untouched
<1>6. ASSUME NEW n \in Node, ReadLines(n) \/ TornLoop(n) PROVE Untouched(c)
  BY <1>5, <1>6 DEF ReadLines, ReadLine, SendLine, TornLoop, Untouched, Looper
<1>7. CASE UNCHANGED vars
  BY <1>7 DEF vars, Untouched
<1>8. ASSUME NEW m \in Node, Serve(m)
      PROVE  \/ ServeRequest(m, c)
             \/ /\ cpc[c] = "served" /\ cpc'[c] = "replied"
                /\ cur'[c] = cur[c] /\ gtd'[c] = gtd[c]
             \/ Untouched(c)
  BY <1>3, <1>4, <1>5, <1>8 DEF Serve, Looper
<1> QED BY <1>1, <1>2, <1>6, <1>7, <1>8 DEF Next

(* A peer is yet to be sent the HELLO, is about to take it, or knows the   *)
(* process.                                                                *)
Greeted ==
  \A c \in Conn : cpc[c] \in {"poll", "sent", "served", "replied"} /\ Peer(c) \in Node =>
    gtd[c][Job(HELLO)] > 0 \/ (cpc[c] = "sent" /\ cur[c] = Job(HELLO)) \/ c[1] \in ip_list[Peer(c)]

(* While one of the manager's requests is under way no HELLO is waiting.   *)
HelloBefore ==
  \A c \in Conn : InExchange(c) /\ cur[c].type \in {REQ_IPS, REQ_HASHSET_FILTER} =>
    gtd[c][Job(HELLO)] = 0

(* No thread has started. *)
LEMMA GreetedInit == Init => Greeted /\ HelloBefore
  BY DEF Init, Greeted, HelloBefore, InExchange

(* HELLO, once queued, is sent, and the peer that takes it stores who sent it. *)
LEMMA GreetedStep == TypeOK /\ Exchange /\ Greeted /\ [Next]_vars => Greeted'
<1> SUFFICES ASSUME TypeOK, Exchange, Greeted, [Next]_vars, NEW c \in Conn, NEW p \in Node,
                    cpc'[c] \in {"poll", "sent", "served", "replied"}, Peer(c)' = p
             PROVE  \/ gtd'[c][Job(HELLO)] > 0
                    \/ cpc'[c] = "sent" /\ cur'[c] = Job(HELLO)
                    \/ c[1] \in ip_list'[p]
  BY DEF Greeted, Peer
<1>0. /\ gtd \in [Conn -> [ConnTask -> Nat]] /\ gtd[c] \in [ConnTask -> Nat]
      /\ cpc \in [Conn -> ConnPc] /\ cur \in [Conn -> ConnTask \cup {None}]
      /\ Job(HELLO) \in ConnTask
  BY JobTypes DEF TypeOK
<1>1. CASE ConnStart(c)
  BY <1>0, <1>1 DEF ConnStart
<1>2. ASSUME cpc[c] \in {"poll", "sent", "served", "replied"},
             gtd'[c][Job(HELLO)] = gtd[c][Job(HELLO)] \/ (cpc'[c] = "sent" /\ cur'[c] = Job(HELLO)),
             \/ ~(cpc[c] = "sent" /\ cur[c] = Job(HELLO))
             \/ cpc'[c] = "sent" /\ cur'[c] = cur[c]
             \/ c[1] \in ip_list'[p]
      PROVE  \/ gtd'[c][Job(HELLO)] > 0
             \/ cpc'[c] = "sent" /\ cur'[c] = Job(HELLO)
             \/ c[1] \in ip_list'[p]
  <2>1. Peer(c) = p
    BY <1>2, PeerKept
  <2>2. ip_list[p] \subseteq ip_list'[p]
    BY ListsGrow
  <2> QED BY <1>2, <2>1, <2>2 DEF Greeted
<1>3. ASSUME NEW k \in ConnTask, ConnSend(c, k) PROVE
             \/ gtd'[c][Job(HELLO)] > 0
             \/ cpc'[c] = "sent" /\ cur'[c] = Job(HELLO)
             \/ c[1] \in ip_list'[p]
  <2>1. /\ cpc[c] = "poll" /\ cpc'[c] = "sent" /\ cur'[c] = k /\ gtd' = [gtd EXCEPT ![c][k] = @ - 1]
    BY <1>0, <1>3 DEF ConnSend
  <2>2. k # Job(HELLO) => gtd'[c][Job(HELLO)] = gtd[c][Job(HELLO)]
    BY <1>0, <2>1
  <2> QED BY <1>2, <2>1, <2>2
<1>4. CASE ConnRecv(c)
  BY <1>2, <1>4 DEF ConnRecv
<1>5. ASSUME NEW m \in Node, ServeRequest(m, c) PROVE
             \/ gtd'[c][Job(HELLO)] > 0
             \/ cpc'[c] = "sent" /\ cur'[c] = Job(HELLO)
             \/ c[1] \in ip_list'[p]
  <2>1. cpc[c] = "sent" /\ Peer(c) = m /\ UNCHANGED gtd
    BY <1>5 DEF ServeRequest, ServeHello, ServePeersSize, ServeText, ServeFilter, Receives, Peer
  <2>0. m = p
    BY <2>1, PeerKept
  <2>2. cur[c] = Job(HELLO) => c[1] \in ip_list'[p]
    <3>1. cur[c] = Job(HELLO) => ServeHello(m, c)
      BY <1>5 DEF ServeRequest, ServePeersSize, ServeText, ServeFilter, Receives, Job,
         HELLO, REQ_IPS, SEND, REQ_HASHSET_FILTER
    <3> QED BY <2>0, <3>1 DEF ServeHello, TypeOK
  <2> QED BY <1>2, <2>1, <2>2
<1>6. CASE cpc[c] = "served" /\ gtd'[c] = gtd[c]
  BY <1>2, <1>6
<1>7. CASE Untouched(c)
  BY <1>2, <1>7 DEF Untouched
<1> QED BY <1>1, <1>3, <1>4, <1>5, <1>6, <1>7, Threads DEF ManageConnection

(* No request of the manager's is taken from a queue that holds a HELLO.   *)
LEMMA HelloBeforeStep == TypeOK /\ Exchange /\ HelloBefore /\ [Next]_vars => HelloBefore'
<1> SUFFICES ASSUME TypeOK, Exchange, HelloBefore, [Next]_vars, NEW c \in Conn,
                    cpc'[c] \in {"sent", "served", "replied"},
                    cur'[c].type \in {REQ_IPS, REQ_HASHSET_FILTER}
             PROVE  gtd'[c][Job(HELLO)] = 0
  BY DEF HelloBefore, InExchange
<1>0. /\ gtd \in [Conn -> [ConnTask -> Nat]] /\ gtd[c] \in [ConnTask -> Nat]
      /\ cpc \in [Conn -> ConnPc] /\ cur \in [Conn -> ConnTask \cup {None}]
      /\ Job(HELLO) \in ConnTask
  BY JobTypes DEF TypeOK
<1>1. ASSUME cpc[c] \in {"sent", "served", "replied"}, cur'[c] = cur[c],
             gtd'[c][Job(HELLO)] = gtd[c][Job(HELLO)]
      PROVE  gtd'[c][Job(HELLO)] = 0
  BY <1>1 DEF HelloBefore, InExchange
<1>2. CASE ConnStart(c) \/ ConnRecv(c)
  BY <1>0, <1>2 DEF ConnStart, ConnRecv
<1>3. ASSUME NEW k \in ConnTask, ConnSend(c, k) PROVE gtd'[c][Job(HELLO)] = 0
  <2>1. /\ cur'[c] = k /\ gtd' = [gtd EXCEPT ![c][k] = @ - 1]
        /\ IsTop(k, {j \in ConnTask : gtd[c][j] > 0})
    BY <1>0, <1>3 DEF ConnSend
  <2>2. Before(Job(HELLO), k) /\ k # Job(HELLO)
    <3>1. k.type \in {5, 6} /\ k.time = 0
      BY <2>1 DEF ConnTask, Job, SendJob, REQ_IPS, REQ_HASHSET_FILTER
    <3> QED BY <3>1 DEF Before, Job, HELLO
  <2>3. ~(gtd[c][Job(HELLO)] > 0)
    BY <1>0, <2>1, <2>2 DEF IsTop
  <2>4. gtd'[c][Job(HELLO)] = gtd[c][Job(HELLO)] /\ gtd[c][Job(HELLO)] \in Nat
    BY <1>0, <2>1, <2>2
  <2> QED BY <2>3, <2>4
<1>4. ASSUME NEW m \in Node, ServeRequest(m, c) PROVE gtd'[c][Job(HELLO)] = 0
  <2>1. cpc[c] = "sent" /\ UNCHANGED <<gtd, cur>>
    BY <1>4 DEF ServeRequest, ServeHello, ServePeersSize, ServeText, ServeFilter, Receives
  <2> QED BY <1>1, <2>1
<1>5. CASE cpc[c] = "served" /\ cur'[c] = cur[c] /\ gtd'[c] = gtd[c]
  BY <1>1, <1>5
<1>6. CASE Untouched(c)
  BY <1>1, <1>6 DEF Untouched
<1> QED BY <1>2, <1>3, <1>4, <1>5, <1>6, Threads DEF ManageConnection
-----------------------------------------------------------------------------
(* A list that is being filled has room for at least one address. *)
Slots == \A m \in Node : serving[m].pc = "peers" => serving[m].slots > 0

(* An intact list on its way names the process that asked for it. *)
ListNames ==
  \A c \in Conn : reply[c].which = "ipList" /\ Bad \notin reply[c].ips => c[1] \in reply[c].ips

(* No list of addresses is on its way. *)
LEMMA NamesInit == Init => Slots /\ ListNames
  BY DEF Init, Slots, ListNames, ServeIdle, NoReply, Reply

(* Who asks for addresses is known to the peer by then.                    *)
LEMMA AskerKnown ==
  ASSUME Exchange, Greeted, HelloBefore, NEW c \in Conn, InExchange(c), Peer(c) \in Node,
         cur[c].type \in {REQ_IPS, REQ_HASHSET_FILTER}
  PROVE  c[1] \in ip_list[Peer(c)]
<1>1. cur[c] # Job(HELLO)
  BY DEF Job, HELLO, REQ_IPS, REQ_HASHSET_FILTER
<1>2. ~(gtd[c][Job(HELLO)] > 0)
  BY DEF HelloBefore
<1> QED BY <1>1, <1>2 DEF Greeted, InExchange

(* serve measures a list that holds at least the process that asks for it. *)
LEMMA SlotsStep ==
  TypeOK /\ Exchange /\ Greeted /\ HelloBefore /\ Slots /\ [Next]_vars => Slots'
<1> SUFFICES ASSUME TypeOK, Exchange, Greeted, HelloBefore, Slots, [Next]_vars, NEW m \in Node,
                    serving'[m].pc = "peers"
             PROVE  serving'[m].slots > 0
  BY DEF Slots
<1>0. serving \in [Node -> Serving]
  BY DEF TypeOK
<1>1. CASE serving'[m] = serving[m]
  BY <1>1 DEF Slots
<1>2. ASSUME NEW o \in Node, NEW c \in Conn, ServePeersSize(o, c) PROVE serving'[m].slots > 0
  <2>1. CASE o # m
    BY <1>0, <1>1, <1>2, <2>1 DEF ServePeersSize
  <2>2. CASE o = m
    <3>1. /\ InExchange(c) /\ Peer(c) = m /\ cur[c].type = REQ_IPS
          /\ serving'[m].slots = Cardinality(ip_list[m])
      BY <1>0, <1>2, <2>2 DEF ServePeersSize, Receives, InExchange, Peer
    <3>2. ip_list[m] # {}
      BY <3>1, AskerKnown
    <3>3. Cardinality(ip_list[m]) \in Nat /\ Cardinality(ip_list[m]) # 0
      BY <3>2, AddrSize, FS_EmptySet DEF TypeOK
    <3> QED BY <3>1, <3>3
  <2> QED BY <2>1, <2>2
<1>3. ASSUME NEW o \in Node, NEW c \in Conn, ServeRequest(o, c), ~ServePeersSize(o, c)
      PROVE  serving'[m].slots > 0
  <2>1. serving'[m] = serving[m] \/ serving'[m].pc = "text"
    BY <1>0, <1>3 DEF ServeRequest, ServeHello, ServeText, Unseen, Remember, ServeFilter
  <2> QED BY <1>1, <2>1
<1>4. ASSUME NEW o \in Node, ServePeersFill(o) \/ ServeTextDone(o) PROVE serving'[m].slots > 0
  <2>1. serving'[m] = serving[m] \/ serving'[m].pc = "recv"
    BY <1>0, <1>4 DEF ServePeersFill, ServeTextDone, ServeIdle
  <2> QED BY <1>1, <2>1
<1>5. ASSUME NEW n \in Node, Manage(n) \/ ReadLines(n) \/ FloodStep(n, "serve") \/ TornLoop(n)
      PROVE  UNCHANGED serving
  BY <1>5, ManageKeeps DEF ReadLines, ReadLine, SendLine, FloodStep, TornLoop
<1>6. ASSUME NEW c \in Conn, ManageConnection(c) PROVE UNCHANGED serving
  BY <1>6 DEF ManageConnection, ConnStart, ConnSend, ConnRecv
<1> QED BY <1>1, <1>2, <1>3, <1>4, <1>5, <1>6 DEF Next, vars, Serve

(* The list was filled from one that holds the asking process, or is garbled. *)
LEMMA ListNamesStep ==
  TypeOK /\ Exchange /\ Greeted /\ HelloBefore /\ Slots /\ ListNames /\ [Next]_vars => ListNames'
<1> SUFFICES ASSUME TypeOK, Exchange, Greeted, HelloBefore, Slots, ListNames, [Next]_vars,
                    NEW c \in Conn, reply'[c].which = "ipList", Bad \notin reply'[c].ips
             PROVE  c[1] \in reply'[c].ips
  BY DEF ListNames
<1>1. CASE reply'[c] = reply[c]
  BY <1>1 DEF ListNames
<1>2. ASSUME NEW m \in Node, Peer(c) = m, serving[m].pc = "peers", serving[m].req = c,
             reply'[c].ips = ip_list[m] \/ reply'[c].ips \in Overrun(serving[m].slots, ip_list[m])
      PROVE  c[1] \in reply'[c].ips
  <2>1. InExchange(c) /\ cur[c].type = REQ_IPS
    BY <1>2 DEF Exchange, Working, InExchange
  <2>2. c[1] \in ip_list[m]
    BY <1>2, <2>1, AskerKnown
  <2>3. \A R \in Overrun(serving[m].slots, ip_list[m]) : Bad \in R
    BY <1>2 DEF Slots, Overrun
  <2> QED BY <1>2, <2>2, <2>3
<1> QED BY <1>1, <1>2, ListFrom

(* Introductions, as they stand in every state. *)
Introductions == Greeted /\ HelloBefore /\ Slots /\ ListNames

(* HELLO goes before the requests, and is remembered, in every state of     *)
(* every network.                                                           *)
LEMMA IntroductionsInvariant == Spec => []Introductions
<1>1. Init => Introductions
  BY GreetedInit, NamesInit DEF Introductions
<1>2. IInv /\ Introductions /\ [Next]_vars => Introductions'
  BY GreetedStep, HelloBeforeStep, SlotsStep, ListNamesStep DEF Introductions, IInv
<1> QED BY <1>1, <1>2, Invariance, PTL DEF Spec

(* A peer that is asked for its addresses or its filter has the asking     *)
(* process in its ip_list, as HELLO goes before the manager's requests, and *)
(* an intact list that it returns names that process.                      *)
THEOREM PeersKnowWhoAsks == Spec => []GreetedPeersKnowMe
<1>1. IInv /\ Introductions => GreetedPeersKnowMe
  <2> SUFFICES ASSUME IInv, Introductions, NEW c \in Conn, InExchange(c),
                      cur[c].type \in {REQ_IPS, REQ_HASHSET_FILTER}, Peer(c) \in Node
               PROVE  /\ c[1] \in ip_list[Peer(c)]
                      /\ reply[c].which = "ipList" /\ Bad \notin reply[c].ips => c[1] \in reply[c].ips
    BY DEF GreetedPeersKnowMe, Peer
  <2>1. c[1] \in ip_list[Peer(c)]
    BY AskerKnown DEF IInv, Introductions
  <2> QED BY <2>1 DEF Introductions, ListNames
<1> QED BY <1>1, Invariance, IntroductionsInvariant, PTL
-----------------------------------------------------------------------------
(* A loop over connections carries a text, and serve's runs while it works *)
(* on one.                                                                 *)
InLoop ==
  \A n \in Node :
    /\ \A w \in Looper : Going(loop[n][w]) => loop[n][w].text \in Text
    /\ Going(loop[n]["serve"]) => serving[n].pc = "text"

(* Whether the loop of thread w will still queue t for c. *)
ToCome(c, w, t) ==
  IF /\ Going(loop[c[1]][w])
     /\ loop[c[1]][w].text = t /\ loop[c[1]][w].next <= c[2] /\ c[2] <= loop[c[1]][w].end
  THEN 1 ELSE 0

Allowed(c, t) == typed[c[1]][t] + (IF t \in seen[c[1]] THEN 1 ELSE 0)

(* With the copies still to be queued, no more than was typed and received. *)
SendCount ==
  \A c \in Conn, t \in Text :
    Copies(c, t) + ToCome(c, "serve", t) + ToCome(c, "read", t) <= Allowed(c, t)

(* No loop runs, and no text is queued. *)
LEMMA SendCountInit == Init => InLoop /\ SendCount
<1>1. Init => \A c \in Conn, t \in Text : Copies(c, t) = 0 /\ Allowed(c, t) = 0
  BY SendJobs DEF Init, Copies, Allowed, InExchange, Conn
<1>2. Init => \A c \in Conn, t \in Text, w \in Looper : ToCome(c, w, t) = 0
  BY AtRest DEF Init, ToCome, Conn
<1> QED BY <1>1, <1>2, AtRest DEF Init, InLoop, SendCount, Looper

(* serve does not turn to another request before its loop is done.         *)
LEMMA ServingText ==
  ASSUME TypeOK, [Next]_vars, NEW n \in Node, serving[n].pc = "text", serving'[n].pc # "text"
  PROVE  loop[n]["serve"] = NoLoop /\ UNCHANGED loop
<1>0. serving \in [Node -> Serving] /\ ~UNCHANGED serving
  BY DEF TypeOK
<1>1. ASSUME NEW m \in Node, Manage(m) \/ ReadLines(m) \/ TornLoop(m) PROVE UNCHANGED serving
  BY <1>1, ManageKeeps DEF ReadLines, ReadLine, SendLine, FloodStep, TornLoop
<1>2. ASSUME NEW c \in Conn, ManageConnection(c) PROVE UNCHANGED serving
  BY <1>2 DEF ManageConnection, ConnStart, ConnSend, ConnRecv
<1>3. ASSUME NEW m \in Node, NEW c \in Conn, ServeRequest(m, c) PROVE serving'[n] = serving[n]
  BY <1>0, <1>3 DEF ServeRequest, ServeHello, ServePeersSize, ServeText, ServeFilter, Unseen, Remember, Receives
<1>4. ASSUME NEW m \in Node, ServePeersFill(m) PROVE serving'[n] = serving[n]
  BY <1>0, <1>4 DEF ServePeersFill
<1>5. ASSUME NEW m \in Node, ServeTextDone(m) PROVE loop[n]["serve"] = NoLoop /\ UNCHANGED loop
  BY <1>0, <1>5 DEF ServeTextDone
<1>6. ASSUME NEW m \in Node, FloodStep(m, "serve") PROVE UNCHANGED serving
  BY <1>6 DEF FloodStep
<1> QED BY <1>0, <1>1, <1>2, <1>3, <1>4, <1>5, <1>6 DEF Next, vars, Serve

(* Loops stay within their range.                                          *)
LEMMA InLoopStep == TypeOK /\ Exchange /\ InLoop /\ [Next]_vars => InLoop'
<1> SUFFICES ASSUME TypeOK, Exchange, InLoop, [Next]_vars, NEW n \in Node
             PROVE  /\ \A w \in Looper : Going(loop'[n][w]) => loop'[n][w].text \in Text
                    /\ Going(loop'[n]["serve"]) => serving'[n].pc = "text"
  BY DEF InLoop
<1> DEFINE Fits(l) == Going(l) => l.text \in Text
<1>0. \A m \in Node, w \in Looper : Fits(loop[m][w])
  BY DEF InLoop
<1>a. "serve" \in Looper /\ "read" \in Looper
  BY DEF Looper
<1>b. ASSUME NEW m \in Node, NEW v \in Looper, NEW u \in Text, StartLoop(m, v, u)
      PROVE  /\ \A w \in Looper : Fits(loop'[n][w])
             /\ \A o \in Node, x \in Looper : o # m \/ x # v => loop'[o][x] = loop[o][x]
  <2>1. /\ \/ loop'[m][v] = NoLoop
           \/ /\ Len(connections[m]) \in Nat \ {0}
              /\ loop'[m][v] = [text |-> u, next |-> 1, end |-> Len(connections[m])]
        /\ \A o \in Node, x \in Looper : o # m \/ x # v => loop'[o][x] = loop[o][x]
    BY <1>b, StartEffect
  <2>2. Fits(loop'[m][v])
    BY <2>1, AtRest
  <2> QED BY <1>0, <2>1, <2>2
<1>c. loop'[n]["serve"] = loop[n]["serve"] /\ Going(loop[n]["serve"]) => serving'[n].pc = "text"
  BY ServingText, AtRest DEF InLoop
<1>1. CASE Resting
  BY <1>0, <1>1, <1>a, <1>c DEF Resting
<1>2. ASSUME NEW m \in Node, NEW u \in Text, SendLine(m, u)
      PROVE  /\ \A w \in Looper : Fits(loop'[n][w])
             /\ Going(loop'[n]["serve"]) => serving'[n].pc = "text"
  <2>1. StartLoop(m, "read", u)
    BY <1>2, SayEffect
  <2>2. loop'[n]["serve"] = loop[n]["serve"]
    BY <1>a, <1>b, <2>1
  <2> QED BY <1>a, <1>b, <1>c, <2>1, <2>2
<1>3. ASSUME NEW m \in Node, NEW d \in Conn, ServeText(m, d)
      PROVE  /\ \A w \in Looper : Fits(loop'[n][w])
             /\ Going(loop'[n]["serve"]) => serving'[n].pc = "text"
  <2>1. CASE UNCHANGED loop
    BY <1>0, <1>c, <2>1
  <2>2. CASE StartLoop(m, "serve", cur[d].data) /\ cur[d].data \in Text /\ serving'[m].pc = "text"
    <3>1. n # m => loop'[n]["serve"] = loop[n]["serve"]
      BY <1>a, <1>b, <2>2
    <3> QED BY <1>a, <1>b, <1>c, <2>2, <3>1
  <2> QED BY <1>3, <2>1, <2>2, HearEffect
<1>4. ASSUME NEW m \in Node, NEW v \in Looper, FloodStep(m, v)
      PROVE  /\ \A w \in Looper : Fits(loop'[n][w])
             /\ Going(loop'[n]["serve"]) => serving'[n].pc = "text"
  <2>1. CASE UNCHANGED loop
    BY <1>0, <1>c, <2>1
  <2> DEFINE l == loop[m][v]
  <2>2. CASE /\ loop'[m][v] = (IF l.next = l.end THEN NoLoop ELSE [l EXCEPT !.next = @ + 1])
             /\ \A o \in Node, x \in Looper : o # m \/ x # v => loop'[o][x] = loop[o][x]
    <3>1. Going(l) /\ UNCHANGED serving
      BY <1>4, FloodEffect
    <3>2. l \in Loops /\ Fits(l)
      BY <1>0 DEF TypeOK
    <3>3. Fits(loop'[m][v])
      BY <2>2, <3>1, <3>2, AtRest DEF Loops
    <3>4. \A w \in Looper : Fits(loop'[n][w])
      BY <1>0, <2>2, <3>3
    <3>5. Going(loop'[n]["serve"]) => Going(loop[n]["serve"])
      BY <1>a, <2>2, <3>1, AtRest
    <3> QED BY <3>1, <3>4, <3>5 DEF InLoop
  <2> QED BY <1>4, <2>1, <2>2, FloodEffect
<1> QED BY <1>1, <1>2, <1>3, <1>4, Talking

(* What is still to come is one copy or none; none from a loop at rest, at *)
(* most one from a loop that carries the text.                             *)
LEMMA ComeType ==
  ASSUME NEW c \in Conn, NEW w, NEW t \in Text
  PROVE  /\ ToCome(c, w, t) \in {0, 1} /\ ToCome(c, w, t)' \in {0, 1}
         /\ ~Going(loop[c[1]][w]) => ToCome(c, w, t) = 0
         /\ ~Going(loop'[c[1]][w]) => ToCome(c, w, t)' = 0
         /\ loop'[c[1]][w].text # t => ToCome(c, w, t)' = 0
         /\ loop'[c[1]][w] = loop[c[1]][w] => ToCome(c, w, t)' = ToCome(c, w, t)
  BY DEF ToCome, Going

(* What is allowed is a number.                                            *)
LEMMA AllowedType ==
  ASSUME TypeOK, NEW c \in Conn, NEW t \in Text
  PROVE  typed[c[1]][t] \in Nat /\ Allowed(c, t) \in Nat
<1>1. typed[c[1]][t] \in Nat
  BY DEF TypeOK, Conn
<1> QED BY <1>1 DEF Allowed

(* A loop that starts owes each connection one copy of its text, and was   *)
(* at rest before.                                                         *)
LEMMA ComeStart ==
  ASSUME TypeOK, NEW n \in Node, NEW v \in Looper, NEW u \in Text, StartLoop(n, v, u),
         ~Going(loop[n][v]), NEW c \in Conn, NEW t \in Text
  PROVE  ToCome(c, "serve", t)' + ToCome(c, "read", t)' <=
           ToCome(c, "serve", t) + ToCome(c, "read", t) + (IF c[1] = n /\ t = u THEN 1 ELSE 0)
<1>1. /\ loop'[n][v] = NoLoop \/ loop'[n][v].text = u
      /\ \A o \in Node, x \in Looper : o # n \/ x # v => loop'[o][x] = loop[o][x]
  <2>1. /\ \/ loop'[n][v] = NoLoop
           \/ loop'[n][v] = [text |-> u, next |-> 1, end |-> Len(connections[n])]
        /\ \A o \in Node, x \in Looper : o # n \/ x # v => loop'[o][x] = loop[o][x]
    BY StartEffect
  <2> QED BY <2>1
<1>2. c[1] \in Node /\ Looper = {"serve", "read"}
  BY DEF Conn, Looper
<1>3. \A w \in Looper : c[1] # n \/ w # v => ToCome(c, w, t)' = ToCome(c, w, t)
  BY <1>1, <1>2, ComeType
<1>4. c[1] = n => ToCome(c, v, t) = 0
  BY ComeType
<1>5. c[1] = n => ToCome(c, v, t)' <= (IF t = u THEN 1 ELSE 0)
  BY <1>1, ComeType, AtRest
<1>6. \A w \in Looper : ToCome(c, w, t) \in {0, 1} /\ ToCome(c, w, t)' \in {0, 1}
  BY ComeType
<1>7. CASE c[1] # n
  BY <1>2, <1>3, <1>6, <1>7
<1>8. CASE c[1] = n /\ v = "serve"
  BY <1>2, <1>3, <1>4, <1>5, <1>6, <1>8
<1>9. CASE c[1] = n /\ v = "read"
  BY <1>2, <1>3, <1>4, <1>5, <1>6, <1>9
<1> QED BY <1>2, <1>7, <1>8, <1>9

(* A round of a loop turns a copy to come into a copy queued.              *)
LEMMA ComeFlood ==
  ASSUME TypeOK, InLoop, NEW n \in Node, NEW v \in Looper, FloodStep(n, v),
         NEW c \in Conn, NEW t \in Text
  PROVE  Copies(c, t)' + ToCome(c, "serve", t)' + ToCome(c, "read", t)' <=
           Copies(c, t) + ToCome(c, "serve", t) + ToCome(c, "read", t)
<1> DEFINE l == loop[n][v]
           d == <<n, l.next>>
<1>0. /\ Copies(c, t) \in Nat /\ c[1] \in Node /\ c = <<c[1], c[2]>> /\ c[2] \in Nat
      /\ gtd \in [Conn -> [ConnTask -> Nat]] /\ gtd[c] \in [ConnTask -> Nat]
      /\ SendJob(t) \in ConnTask /\ Looper = {"serve", "read"}
  BY CopiesType, SendJobs, P2PAssumption DEF Conn, TypeOK, Looper
<1>a. \A w \in Looper : ToCome(c, w, t) \in {0, 1} /\ ToCome(c, w, t)' \in {0, 1}
  BY ComeType
<1>1. Going(l) /\ UNCHANGED <<cpc, cur>>
  BY FloodEffect
<1>2. l \in Loops /\ l.text \in Text /\ l.next <= l.end
  BY <1>1 DEF TypeOK, InLoop, Going
<1>3. CASE UNCHANGED <<gtd, loop>>
  <2>1. Copies(c, t)' = Copies(c, t)
    BY <1>1, <1>3 DEF Copies, InExchange
  <2>2. \A w \in Looper : ToCome(c, w, t)' = ToCome(c, w, t)
    BY <1>3, ComeType
  <2> QED BY <1>0, <1>a, <2>1, <2>2
<1>4. CASE /\ gtd' = [gtd EXCEPT ![d][SendJob(l.text)] = @ + 1]
           /\ loop'[n][v] = (IF l.next = l.end THEN NoLoop ELSE [l EXCEPT !.next = @ + 1])
           /\ \A o \in Node, x \in Looper : o # n \/ x # v => loop'[o][x] = loop[o][x]
  <2>1. \A w \in Looper : c[1] # n \/ w # v => ToCome(c, w, t)' = ToCome(c, w, t)
    BY <1>0, <1>4, ComeType
  <2>2. CASE c = d /\ t = l.text
    <3>1. gtd'[c][SendJob(t)] = gtd[c][SendJob(t)] + 1 /\ gtd[c][SendJob(t)] \in Nat
      BY <1>0, <1>4, <2>2
    <3>2. Copies(c, t)' = Copies(c, t) + 1
      BY <1>1, <3>1 DEF Copies, InExchange
    <3>3. c[1] = n /\ c[2] = l.next
      BY <2>2
    <3>4. ToCome(c, v, t) = 1
      BY <1>1, <1>2, <2>2, <3>3 DEF ToCome, Loops
    <3>5. ToCome(c, v, t)' = 0
      <4>1. CASE l.next = l.end
        BY <1>4, <3>3, <4>1, ComeType, AtRest
      <4>2. CASE l.next # l.end
        <5>1. loop'[n][v].next = l.next + 1 /\ l.next \in Nat
          BY <1>2, <1>4, <4>2 DEF Loops
        <5> QED BY <3>3, <5>1 DEF ToCome
      <4> QED BY <4>1, <4>2
    <3>6. CASE v = "serve"
      BY <1>0, <1>a, <2>1, <3>2, <3>4, <3>5, <3>6
    <3>7. CASE v = "read"
      BY <1>0, <1>a, <2>1, <3>2, <3>4, <3>5, <3>7
    <3> QED BY <1>0, <3>6, <3>7
  <2>3. CASE c # d \/ t # l.text
    <3>1. Copies(c, t)' = Copies(c, t)
      <4>1. gtd'[c][SendJob(t)] = gtd[c][SendJob(t)]
        <5>1. t # l.text => SendJob(t) # SendJob(l.text)
          BY SendJobs
        <5>2. gtd' = [gtd EXCEPT ![d][SendJob(l.text)] = @ + 1]
          BY <1>4
        <5> HIDE DEF d, l
        <5>3. CASE c # d
          BY <1>0, <5>2, <5>3
        <5>4. CASE SendJob(t) # SendJob(l.text)
          BY <1>0, <5>2, <5>4
        <5> QED BY <2>3, <5>1, <5>3, <5>4
      <4> QED BY <1>1, <4>1 DEF Copies, InExchange
    <3>2. c[1] = n => ToCome(c, v, t)' <= ToCome(c, v, t)
      <4>1. CASE l.next = l.end
        BY <1>a, <1>4, <4>1, ComeType, AtRest
      <4>2. CASE l.next # l.end
        <5>1. /\ loop'[n][v].next = l.next + 1 /\ loop'[n][v].text = l.text /\ loop'[n][v].end = l.end
              /\ l.next \in Nat /\ l.end \in Nat
          BY <1>2, <1>4, <4>2 DEF Loops
        <5> QED BY <1>0, <1>1, <5>1 DEF ToCome
      <4> QED BY <4>1, <4>2
    <3>3. \A w \in Looper : ToCome(c, w, t)' <= ToCome(c, w, t)
      BY <1>0, <1>a, <2>1, <3>2
    <3> QED BY <1>0, <1>a, <3>1, <3>3
  <2> QED BY <2>2, <2>3
<1> QED BY <1>3, <1>4, FloodEffect

(* A text is queued only by the loops, whose copies were allowed before.   *)
LEMMA SendCountStep == TypeOK /\ Exchange /\ InLoop /\ SendCount /\ [Next]_vars => SendCount'
<1> SUFFICES ASSUME TypeOK, Exchange, InLoop, SendCount, [Next]_vars, NEW c \in Conn, NEW t \in Text
             PROVE  Copies(c, t)' + ToCome(c, "serve", t)' + ToCome(c, "read", t)' <= Allowed(c, t)'
  BY DEF SendCount
<1>0. /\ Copies(c, t) \in Nat /\ Copies(c, t)' \in Nat
      /\ Allowed(c, t) \in Nat /\ c[1] \in Node
      /\ Copies(c, t) + ToCome(c, "serve", t) + ToCome(c, "read", t) <= Allowed(c, t)
  BY CopiesType, CopiesNext, TypeStep, AllowedType DEF SendCount, Exchange, Conn
<1>a. \A w \in {"serve", "read"} : ToCome(c, w, t) \in {0, 1} /\ ToCome(c, w, t)' \in {0, 1}
  BY ComeType
<1>b. "serve" \in Looper /\ "read" \in Looper
  BY DEF Looper
<1>1. CASE Resting /\ UNCHANGED <<typed, seen>> /\ Copies(c, t)' <= Copies(c, t)
  <2>1. \A w \in {"serve", "read"} : ToCome(c, w, t)' <= ToCome(c, w, t)
    BY <1>0, <1>1, <1>a, <1>b, ComeType DEF Resting
  <2>2. Allowed(c, t)' = Allowed(c, t)
    BY <1>1 DEF Allowed
  <2> QED BY <1>0, <1>a, <1>1, <2>1, <2>2
<1>c. ASSUME NEW n \in Node, NEW v \in Looper, NEW u \in Text, StartLoop(n, v, u),
             ~Going(loop[n][v]), Copies(c, t)' <= Copies(c, t),
             Allowed(c, t)' = Allowed(c, t) + (IF c[1] = n /\ t = u THEN 1 ELSE 0)
      PROVE  Copies(c, t)' + ToCome(c, "serve", t)' + ToCome(c, "read", t)' <= Allowed(c, t)'
  <2>1. ToCome(c, "serve", t)' + ToCome(c, "read", t)' <=
           ToCome(c, "serve", t) + ToCome(c, "read", t) + (IF c[1] = n /\ t = u THEN 1 ELSE 0)
    BY <1>c, ComeStart
  <2> QED BY <1>0, <1>a, <1>c, <2>1
<1>2. ASSUME NEW n \in Node, NEW u \in Text, SendLine(n, u)
      PROVE  Copies(c, t)' + ToCome(c, "serve", t)' + ToCome(c, "read", t)' <= Allowed(c, t)'
  <2>1. /\ ~Going(loop[n]["read"]) /\ StartLoop(n, "read", u)
        /\ typed' = [typed EXCEPT ![n][u] = @ + 1] /\ UNCHANGED seen
    BY <1>2, SayEffect
  <2>2. Copies(c, t)' <= Copies(c, t)
    BY <1>2, CopiesServe
  <2>3. typed'[c[1]][t] = typed[c[1]][t] + (IF c[1] = n /\ t = u THEN 1 ELSE 0)
    <3>1. typed \in [Node -> [Text -> Nat]]
      BY DEF TypeOK
    <3> QED BY <1>0, <2>1, <3>1
  <2>4. Allowed(c, t)' = Allowed(c, t) + (IF c[1] = n /\ t = u THEN 1 ELSE 0)
    BY <2>1, <2>3, AllowedType DEF Allowed
  <2> QED BY <1>b, <1>c, <2>1, <2>2, <2>4
<1>3. ASSUME NEW m \in Node, NEW d \in Conn, ServeText(m, d)
      PROVE  Copies(c, t)' + ToCome(c, "serve", t)' + ToCome(c, "read", t)' <= Allowed(c, t)'
  <2> DEFINE u == cur[d].data
  <2>1. Copies(c, t)' <= Copies(c, t)
    BY <1>3, CopiesServe DEF ServeRequest
  <2>2. UNCHANGED typed /\ serving[m].pc = "recv" /\ u \in Text
    BY <1>3, HearEffect
  <2>3. CASE UNCHANGED <<seen, loop>>
    BY <1>1, <2>1, <2>2, <2>3 DEF Resting
  <2>4. CASE u \notin seen[m] /\ seen' = [seen EXCEPT ![m] = @ \cup {u}] /\ StartLoop(m, "serve", u)
    <3>1. ~Going(loop[m]["serve"])
      BY <2>2 DEF InLoop
    <3>2. seen \in [Node -> SUBSET Text]
      BY DEF TypeOK
    <3> HIDE DEF u
    <3>3. (t \in seen'[c[1]]) <=> (t \in seen[c[1]] \/ (c[1] = m /\ t = u))
      BY <1>0, <2>4, <3>2
    <3>4. Allowed(c, t)' = Allowed(c, t) + (IF c[1] = m /\ t = u THEN 1 ELSE 0)
      BY <2>2, <2>4, <3>3, AllowedType DEF Allowed
    <3> QED BY <1>b, <1>c, <2>1, <2>2, <2>4, <3>1, <3>4
  <2> QED BY <1>3, <2>3, <2>4, HearEffect
<1>4. ASSUME NEW n \in Node, NEW v \in Looper, FloodStep(n, v)
      PROVE  Copies(c, t)' + ToCome(c, "serve", t)' + ToCome(c, "read", t)' <= Allowed(c, t)'
  <2>1. Copies(c, t)' + ToCome(c, "serve", t)' + ToCome(c, "read", t)' <=
           Copies(c, t) + ToCome(c, "serve", t) + ToCome(c, "read", t)
    BY <1>4, ComeFlood
  <2>2. Allowed(c, t)' = Allowed(c, t)
    BY <1>4, FloodEffect DEF Allowed
  <2> QED BY <1>0, <1>a, <2>1, <2>2
<1> QED BY <1>1, <1>2, <1>3, <1>4, Talking

(* How many copies there are and will be: in every state of every network. *)
LEMMA CountInvariant == Spec => [](InLoop /\ SendCount)
<1>1. IInv /\ InLoop /\ SendCount /\ [Next]_vars => InLoop' /\ SendCount'
  BY InLoopStep, SendCountStep DEF IInv
<1> QED BY <1>1, SendCountInit, Invariance, PTL DEF Spec

(* Flooding does not amplify: no connection has more copies of a text to   *)
(* send than the user typed it, plus one for receiving it, in every network *)
(* of processes (serve TEXT, seen, read_lines).                            *)
THEOREM FloodsDoNotAmplify == Spec => []SendBound
<1>1. IInv /\ SendCount => SendBound
  <2> SUFFICES ASSUME IInv, SendCount, NEW c \in Conn, NEW t \in Text
               PROVE  Copies(c, t) <= Allowed(c, t)
    BY DEF SendBound, Allowed
  <2>1. Copies(c, t) \in Nat /\ Allowed(c, t) \in Nat
    BY CopiesType, AllowedType DEF IInv
  <2>2. ToCome(c, "serve", t) \in {0, 1} /\ ToCome(c, "read", t) \in {0, 1}
    BY ComeType
  <2> QED BY <2>1, <2>2 DEF SendCount
<1> QED BY <1>1, Invariance, CountInvariant, PTL
=============================================================================
