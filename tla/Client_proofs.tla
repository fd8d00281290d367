---------------------------- MODULE Client_proofs ----------------------------
(***************************************************************************)
(* The client of bin/node.cc gets a peer to print from every network of    *)
(* processes.  serve() holds a client's request in a state that P2P alone  *)
(* does not have, so the invariant is one of its own.                      *)
(***************************************************************************)
EXTENDS Client, FiniteSetTheorems, TLAPS

Serves == [pc : {"recv", "peers", "text", "client"}, req : Conn \cup {None}, slots : Nat]

(* The replies a client gets: a process's, or "reject" for a transaction. *)
ClientReplies == Replies \cup [which : {"reject"}, ips : SUBSET Addr]

(* What the lists, the replies and the states of serve look like. *)
Shape ==
  /\ ip_list \in [Node -> SUBSET Addr]
  /\ reply \in [Conn -> Replies]
  /\ serving \in [Node -> Serves]

(* Once its hello was taken the client is in the target's list. *)
Met ==
  /\ client \in [step : 1..4, pc : {"ready", "sent", "served", "replied"}, reply : ClientReplies]
  /\ client.pc # "ready" => client.step <= 3
  /\ client.step > 1 \/ client.pc = "replied" => Bad \in ip_list[Target]

(* A list for the client, which waits, is filled from one that holds it. *)
Room ==
  serving[Target].pc = "client" =>
    serving[Target].slots # 0 /\ Bad \in ip_list[Target] /\ client.pc = "served"

ClientInv == Shape /\ Met /\ Room /\ FirstPeerExists

(* A set of addresses has a size, which is 0 for the empty one only.       *)
LEMMA Size == \A S \in SUBSET Addr : Cardinality(S) \in Nat /\ (S # {} => Cardinality(S) # 0)
  BY P2PAssumption, FS_Subset, FS_CardinalityType, FS_EmptySet

(* The lists that ServePeersFill sends hold addresses.                     *)
LEMMA OverrunType ==
  ASSUME NEW S \in SUBSET Addr, NEW n PROVE Overrun(n, S) \subseteq SUBSET Addr
  BY P2PAssumption DEF Overrun

(* Nothing was asked yet.                                                  *)
LEMMA ClientStart == CInit => ClientInv
<1> SUFFICES ASSUME CInit PROVE ClientInv
  OBVIOUS
<1>1. Shape
  BY P2PAssumption DEF CInit, Init, Shape, NoReply, Reply, Replies, ServeIdle, Serves
<1>2. Met
  BY DEF CInit, Met, NoReply, Reply, Replies, ClientReplies
<1>3. Room
  BY ClientAssumption DEF CInit, Init, Room, ServeIdle
<1>4. FirstPeerExists
  BY DEF CInit, FirstPeerExists
<1> QED BY <1>1, <1>2, <1>3, <1>4 DEF ClientInv

(* The network's own steps: no address is lost, and serve does not touch   *)
(* what it holds for the client.                                           *)
LEMMA NetworkStep ==
  ASSUME Shape, Next
  PROVE  /\ Shape'
         /\ ip_list[Target] \subseteq ip_list'[Target]
         /\ serving'[Target].pc = "client" => serving'[Target] = serving[Target]
<1> DEFINE Goal == /\ Shape'
                   /\ ip_list[Target] \subseteq ip_list'[Target]
                   /\ serving'[Target].pc = "client" => serving'[Target] = serving[Target]
<1>0. Target \in Node /\ Node \subseteq Addr
  BY ClientAssumption, P2PAssumption
<1>1. ASSUME NEW n \in Node, Manage(n) \/ ReadLines(n) \/ FloodStep(n, "serve") \/ TornLoop(n) PROVE Goal
  <2>1. UNCHANGED <<ip_list, reply, serving>>
    BY <1>1 DEF Manage, MgrReqIps, MgrSync, MgrExpand, MgrCopy, MgrPick, MgrExpandDone,
       ReadLines, ReadLine, SendLine, FloodStep, TornLoop
  <2> QED BY <2>1 DEF Shape
<1>2. ASSUME NEW c \in Conn, ManageConnection(c) PROVE Goal
  <2>1. CASE ConnRecv(c)
    <3>1. /\ ip_list' = [ip_list EXCEPT ![c[1]] =
               IF cur[c].type = REQ_IPS /\ reply[c].which = "ipList" THEN @ \cup reply[c].ips ELSE @]
          /\ reply' = [reply EXCEPT ![c] = NoReply] /\ UNCHANGED serving
      BY <2>1 DEF ConnRecv, Learned
    <3>2. NoReply \in Replies /\ reply[c].ips \in SUBSET Addr /\ c[1] \in Node
      BY DEF Shape, NoReply, Reply, Replies, Conn
    <3>3. Shape'
      BY <3>1, <3>2 DEF Shape
    <3>4. ip_list[Target] \subseteq ip_list'[Target]
      BY <1>0, <3>1 DEF Shape
    <3> QED BY <3>1, <3>3, <3>4
  <2>2. CASE UNCHANGED <<ip_list, reply, serving>>
    BY <2>2 DEF Shape
  <2> QED BY <1>2, <2>1, <2>2 DEF ManageConnection, ConnStart, ConnSend
<1>3. ASSUME NEW m \in Node, NEW c \in Conn, ServeRequest(m, c) PROVE Goal
  <2>1. /\ \/ UNCHANGED reply
           \/ \E r \in Replies : reply' = [reply EXCEPT ![c] = r]
        /\ \/ UNCHANGED ip_list
           \/ ip_list' = [ip_list EXCEPT ![m] = @ \cup {c[1]}]
        /\ \/ UNCHANGED serving
           \/ \E x \in Serves : x.pc # "client" /\ serving' = [serving EXCEPT ![m] = x]
    <3>1. CASE ServeHello(m, c)
      <4>1. Reply("welcome", {}) \in Replies
        BY DEF Reply, Replies
      <4> QED BY <3>1, <4>1 DEF ServeHello, Answers
    <3>2. CASE ServePeersSize(m, c)
      <4>1. [pc |-> "peers", req |-> c, slots |-> Cardinality(ip_list[m])] \in Serves
        BY Size DEF Shape, Serves
      <4> QED BY <3>2, <4>1 DEF ServePeersSize
    <3>3. CASE ServeText(m, c)
      <4>1. Reply("ok", {}) \in Replies /\ [pc |-> "text", req |-> c, slots |-> 0] \in Serves
        BY DEF Reply, Replies, Serves
      <4> QED BY <3>3, <4>1 DEF ServeText, Answers
    <3>4. CASE ServeFilter(m, c)
      <4>1. Reply("setFilter", {}) \in Replies
        BY DEF Reply, Replies
      <4> QED BY <3>4, <4>1 DEF ServeFilter, Answers
    <3> QED BY <1>3, <3>1, <3>2, <3>3, <3>4 DEF ServeRequest
  <2>2. c[1] \in Addr
    BY <1>0 DEF Conn
  <2>3. Shape'
    BY <2>1, <2>2 DEF Shape
  <2>4. ip_list[Target] \subseteq ip_list'[Target]
    BY <1>0, <2>1 DEF Shape
  <2>5. serving'[Target] = serving[Target] \/ serving'[Target].pc # "client"
    BY <1>0, <2>1 DEF Shape
  <2> QED BY <2>3, <2>4, <2>5
<1>4. ASSUME NEW m \in Node, ServePeersFill(m) \/ ServeTextDone(m) PROVE Goal
  <2>1. ServeIdle \in Serves /\ ServeIdle.pc = "recv"
    BY DEF ServeIdle, Serves
  <2>2. \A R \in SUBSET Addr : Reply("ipList", R) \in Replies /\ Reply("ok", R) \in Replies
    BY DEF Reply, Replies
  <2>3. Overrun(serving[m].slots, ip_list[m]) \subseteq SUBSET Addr /\ ip_list[m] \in SUBSET Addr
    BY OverrunType DEF Shape
  <2>4. UNCHANGED reply \/ \E r \in Replies : reply' = [reply EXCEPT ![serving[m].req] = r]
    BY <1>4, <2>2, <2>3 DEF ServePeersFill, ServeTextDone, Answers
  <2>5. UNCHANGED ip_list /\ (UNCHANGED serving \/ serving' = [serving EXCEPT ![m] = ServeIdle])
    BY <1>4 DEF ServePeersFill, ServeTextDone
  <2>6. Shape'
    BY <2>1, <2>4, <2>5 DEF Shape
  <2>7. serving'[Target] = serving[Target] \/ serving'[Target].pc # "client"
    BY <1>0, <2>1, <2>5 DEF Shape
  <2> QED BY <2>5, <2>6, <2>7
<1> QED BY <1>1, <1>2, <1>3, <1>4 DEF Next, Serve

(* Every step, of the network, of the client or of serve for the client.   *)
LEMMA ClientStep == ClientInv /\ [CNext]_cvars => ClientInv'
<1> SUFFICES ASSUME ClientInv, [CNext]_cvars PROVE ClientInv'
  OBVIOUS
<1> USE DEF ClientInv
<1>0. Target \in Node /\ Bad \in Addr
  BY ClientAssumption, P2PAssumption
<1>1. CASE Next /\ UNCHANGED client
  <2>1. Shape'
    BY <1>1, NetworkStep
  <2>2. Met'
    BY <1>1, NetworkStep DEF Met
  <2>3. Room'
    BY <1>1, NetworkStep DEF Room
  <2>4. FirstPeerExists'
    BY <1>1 DEF FirstPeerExists, Asks
  <2> QED BY <2>1, <2>2, <2>3, <2>4
<1>2. CASE ClientSend
  <2>1. /\ client.step <= 3 /\ client' = [client EXCEPT !.pc = "sent"] /\ client.pc = "ready"
        /\ UNCHANGED <<ip_list, reply, serving>>
    BY <1>2 DEF ClientSend, vars
  <2>2. client'.pc = "sent" /\ Met'
    BY <2>1 DEF Met
  <2> QED BY <2>1, <2>2 DEF Shape, Room, FirstPeerExists
<1>2a. CASE ClientRecv
  <2>1. /\ client' = [step |-> client.step + 1, pc |-> "ready", reply |-> NoReply]
        /\ client.pc = "replied" /\ UNCHANGED <<ip_list, reply, serving>>
    BY <1>2a DEF ClientRecv, vars
  <2>2. NoReply \in ClientReplies /\ client.step + 1 \in 1..4
    BY <2>1 DEF NoReply, Reply, Replies, ClientReplies, Met
  <2>3. client'.pc = "ready" /\ Met'
    BY <2>1, <2>2 DEF Met
  <2> QED BY <2>1, <2>3 DEF Shape, Room, FirstPeerExists
<1>3. CASE ServeClientHello
  <2>1. client.step = 1 /\ client'.step = 1 /\ client'.pc = "replied" /\ serving[Target].pc = "recv"
    BY <1>3 DEF ServeClientHello, Takes, Asks, Returns, Requests, Met
  <2>2. Shape' /\ Bad \in ip_list'[Target] /\ UNCHANGED serving
    BY <1>0, <1>3 DEF ServeClientHello, Shape
  <2>3. Reply("welcome", {}) \in ClientReplies /\ client' = [client EXCEPT !.pc = "replied", !.reply = Reply("welcome", {})]
    BY <1>3 DEF ServeClientHello, Returns, Reply, Replies, ClientReplies
  <2>4. client' \in [step : 1..4, pc : {"ready", "sent", "served", "replied"}, reply : ClientReplies]
    BY <2>3 DEF Met
  <2>5. Met'
    BY <2>1, <2>2, <2>4 DEF Met
  <2> QED BY <2>1, <2>2, <2>5 DEF Room, FirstPeerExists, Asks, Requests
<1>4. CASE ServeClientTransaction
  <2>1. /\ client.step = 2 /\ client'.step = 2 /\ serving[Target].pc = "recv"
        /\ UNCHANGED <<ip_list, reply, serving>>
    BY <1>4 DEF ServeClientTransaction, Takes, Asks, Returns, Requests, Met, vars
  <2>2. PICK which \in {"ok", "reject"} :
          /\ Reply(which, {}) \in ClientReplies
          /\ client' = [client EXCEPT !.pc = "replied", !.reply = Reply(which, {})]
    BY <1>4 DEF ServeClientTransaction, Returns, Reply, Replies, ClientReplies
  <2>3. client' \in [step : 1..4, pc : {"ready", "sent", "served", "replied"}, reply : ClientReplies]
    BY <2>2 DEF Met
  <2>4. Met'
    BY <2>1, <2>3 DEF Met
  <2> QED BY <2>1, <2>4 DEF Shape, Room, FirstPeerExists, Asks, Requests
<1>5. CASE ServeClientPeersSize
  <2>1. /\ client.step = 3 /\ client'.step = 3 /\ client' = [client EXCEPT !.pc = "served"] /\ UNCHANGED <<ip_list, reply>>
        /\ serving' = [serving EXCEPT ![Target] =
             [pc |-> "client", req |-> None, slots |-> Cardinality(ip_list[Target])]]
    BY <1>5 DEF ServeClientPeersSize, Takes, Asks, Requests, Met
  <2>2. Bad \in ip_list[Target] /\ ip_list[Target] \in SUBSET Addr
    BY <1>0, <2>1 DEF Met, Shape
  <2>3. Cardinality(ip_list[Target]) \in Nat \ {0}
    BY <2>2, Size
  <2>4. [pc |-> "client", req |-> None, slots |-> Cardinality(ip_list[Target])] \in Serves
    BY <2>3 DEF Serves
  <2>5. Shape'
    BY <2>1, <2>4 DEF Shape
  <2>6. Room'
    BY <1>0, <2>1, <2>2, <2>3 DEF Room, Shape
  <2> QED BY <2>1, <2>2, <2>5, <2>6 DEF Met, FirstPeerExists
<1>6. CASE ServeClientPeersFill
  <2>1. ServeIdle \in Serves /\ ServeIdle.pc = "recv"
    BY DEF ServeIdle, Serves
  <2>2. /\ UNCHANGED <<ip_list, reply>> /\ serving[Target].pc = "client"
        /\ UNCHANGED <<serving, client>> \/ serving' = [serving EXCEPT ![Target] = ServeIdle]
    BY <1>6 DEF ServeClientPeersFill
  <2>3. Shape' /\ Room'
    BY <1>0, <2>1, <2>2 DEF Shape, Room
  <2>4. CASE UNCHANGED client
    BY <2>2, <2>3, <2>4 DEF Met, FirstPeerExists, Asks
  <2>5. ASSUME NEW R, Returns(Reply("ipList", R)),
               R = ip_list[Target] \/ R \in Overrun(serving[Target].slots, ip_list[Target])
        PROVE  Met' /\ FirstPeerExists'
    <3>1. Bad \in R
      BY <2>2, <2>5 DEF Room, Overrun
    <3>2. Reply("ipList", R) \in ClientReplies
      <4>1. ip_list[Target] \in SUBSET Addr
        BY <1>0 DEF Shape
      <4>2. R \in SUBSET Addr
        BY <2>5, <4>1, OverrunType
      <4> QED BY <4>2 DEF Reply, Replies, ClientReplies
    <3>3. client' = [client EXCEPT !.pc = "replied", !.reply = Reply("ipList", R)]
      BY <2>5 DEF Returns
    <3>4. client'.step = client.step /\ client'.reply.ips = R
      BY <3>3 DEF Met, Reply
    <3>5. client' \in [step : 1..4, pc : {"ready", "sent", "served", "replied"}, reply : ClientReplies]
      BY <3>2, <3>3 DEF Met
    <3>6. client.step <= 3 /\ Bad \in ip_list'[Target]
      BY <1>6, <2>2 DEF ServeClientPeersFill, Room, Met
    <3>7. Met'
      BY <3>4, <3>5, <3>6 DEF Met
    <3> QED BY <3>1, <3>4, <3>7 DEF FirstPeerExists
  <2> QED BY <1>6, <2>3, <2>4, <2>5 DEF ServeClientPeersFill
<1>7. CASE UNCHANGED cvars
  BY <1>7 DEF cvars, vars, Shape, Met, Room, FirstPeerExists, Asks
<1> QED BY <1>1, <1>2, <1>2a, <1>3, <1>4, <1>5, <1>6, <1>7 DEF CNext, ServeClient

(* The list the client prints the first of is never empty, whatever serve  *)
(* and the network do between its hello and its last request.              *)
THEOREM ClientFindsPeer == CSpec => []FirstPeerExists
<1>1. ClientInv => FirstPeerExists
  BY DEF ClientInv
<1> QED BY <1>1, ClientStart, ClientStep, PTL DEF CSpec
=============================================================================
