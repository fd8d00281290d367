-------------------------------- MODULE P2P --------------------------------
(***************************************************************************)
(* bin/p2p.cc: a network of processes, each with the threads manage, serve *)
(* and read_lines and one manage_connection thread per outgoing            *)
(* connection.  Node is the set of running processes, named by their       *)
(* my_ip; Addr has further endpoints at which nobody answers, and Bad, a   *)
(* text zmq_connect refuses.                                               *)
(*                                                                         *)
(* A connection c = <<n, i>> is connections[i] of process n.  Its queue    *)
(* holds only tasks added without delay, so the clock plays no role in it  *)
(* and the top is a task of least type.  The manager's tasks are delayed   *)
(* by seconds; here any of them may be the next to become due.             *)
(*                                                                         *)
(* A REQ socket and the ROUTER it talks to exchange one request and one    *)
(* reply at a time; a request to an address where no process answers is    *)
(* never answered, as recv() has no timeout.                               *)
(***************************************************************************)
EXTENDS Tasks, Sequences, FiniteSets

CONSTANTS
  Node,         \* running processes, named by the address they bind
  Addr,         \* every text that can occur in an ip_list
  Bad,          \* a text that is not an endpoint
  Seeds,        \* addresses on each command line
  N_CONN,       \* connections a process wants (8 in the code)
  Text,         \* lines users may type
  Says,         \* which of them each process's user types
  GoText,       \* those that contain "go"
  FullSetSize,  \* elements of full_set (3000 in the code)
  MaxLines,     \* bound: times a user types the same line
  MaxQueue,     \* bound: manager's tasks of each type in one connection's queue
  None          \* no data, no task, the empty string

ASSUME P2PAssumption ==
  /\ IsFiniteSet(Addr)
  /\ Node \subseteq Addr
  /\ Bad \in Addr \ Node
  /\ None \notin Addr \cup Text
  /\ Seeds \in [Node -> SUBSET Addr]
  /\ N_CONN \in Nat
  /\ GoText \subseteq Text
  /\ Says \in [Node -> SUBSET Text]
  /\ FullSetSize \in Nat
  /\ MaxLines \in Nat
  /\ MaxQueue \in [{REQ_IPS, REQ_HASHSET_FILTER} -> Nat]

VARIABLES
  fate,         \* "up", or how the process was terminated
  ip_list,      \* known addresses
  connections,  \* addresses of the outgoing connections, in order
  seen,         \* texts already flooded
  manager_gtd,  \* the manager's queue: how many of each task
  mgr,          \* locals of the EXPAND_CONNECTION case
  gtd,          \* each connection's queue: how many of each task
  cpc,          \* where each connection's thread is
  cur,          \* the task it is carrying out
  reply,        \* the reply on its way to it
  serving,      \* the serve thread: the request it is working on
  loop,         \* the for loops over connections in serve and read_lines
  typed,        \* history: how often each line was typed and sent on
  asked         \* history: how many of the lines were "go" lines

vars == <<fate, ip_list, connections, seen, manager_gtd, mgr, gtd, cpc, cur,
          reply, serving, loop, typed, asked>>

Conn == Node \X (1..N_CONN)

(* The tasks a connection's queue can hold. *)
Job(ty) == [type |-> ty, data |-> None, time |-> 0]
SendJob(t) == [type |-> SEND, data |-> t, time |-> 0]
ConnTask == {Job(ty) : ty \in {HELLO, REQ_IPS, REQ_HASHSET_FILTER}}
              \cup {SendJob(t) : t \in Text}

MgrTask == {EXPAND_CONNECTION, REQ_IPS, SYNC_HASHSET}

(* content.which() of a reply, the addresses of an ipList. *)
Reply(which, ips) == [which |-> which, ips |-> ips]
NoReply == Reply("none", {})

MgrIdle ==
  [pc |-> "poll", n_new |-> 0, old |-> {}, ips_tmp |-> <<>>, ip_idx |-> 1, current_ips |-> {}]

ServeIdle == [pc |-> "recv", req |-> None, slots |-> 0]

NoLoop == [text |-> None, next |-> 1, end |-> 0]

Looper == {"serve", "read"}

(* main: the command line fills ip_list, then the three threads start; the *)
(* manager's two periodic tasks are queued before it looks at its queue.   *)
Init ==
  /\ fate = [n \in Node |-> "up"]
  /\ ip_list = Seeds
  /\ connections = [n \in Node |-> <<>>]
  /\ seen = [n \in Node |-> {}]
  /\ manager_gtd = [n \in Node |-> [k \in MgrTask |-> IF k = SYNC_HASHSET THEN 0 ELSE 1]]
  /\ mgr = [n \in Node |-> MgrIdle]
  /\ gtd = [c \in Conn |-> [k \in ConnTask |-> 0]]
  /\ cpc = [c \in Conn |-> "off"]
  /\ cur = [c \in Conn |-> None]
  /\ reply = [c \in Conn |-> NoReply]
  /\ serving = [n \in Node |-> ServeIdle]
  /\ loop = [n \in Node |-> [w \in Looper |-> NoLoop]]
  /\ typed = [n \in Node |-> [t \in Text |-> 0]]
  /\ asked = [n \in Node |-> 0]

Up(n) == fate[n] = "up"

Dies(n, how) == fate' = [fate EXCEPT ![n] = how]

(* for (con : connections) con->gtd.add(k), by the manager.  The adds to   *)
(* different queues commute, and nobody else grows connections.            *)
Broadcast(n, k) ==
  /\ \A i \in DOMAIN connections[n] : gtd[<<n, i>>][k] < MaxQueue[k.type]
  /\ gtd' = [c \in Conn |->
       IF c[1] = n /\ c[2] \in DOMAIN connections[n]
         THEN [gtd[c] EXCEPT ![k] = @ + 1] ELSE gtd[c]]
-----------------------------------------------------------------------------
(* Mutant: the task is not put back. *)
ReqIpsOnce(n) ==
  /\ Up(n)
  /\ mgr[n].pc = "poll"
  /\ manager_gtd[n][REQ_IPS] > 0
  /\ Broadcast(n, Job(REQ_IPS))
  /\ manager_gtd' = [manager_gtd EXCEPT ![n][REQ_IPS] = @ - 1]
  /\ UNCHANGED <<fate, ip_list, connections, seen, mgr, cpc, cur, reply, serving, loop, typed, asked>>

(* manage(), case REQ_IPS; the task is put back for 10 seconds later. *)
MgrReqIps(n) ==
  /\ Up(n)
  /\ mgr[n].pc = "poll"
  /\ manager_gtd[n][REQ_IPS] > 0
  /\ Broadcast(n, Job(REQ_IPS))
  /\ UNCHANGED <<fate, ip_list, connections, seen, manager_gtd, mgr, cpc, cur, reply,
                 serving, loop, typed, asked>>

(* Mutant: the task is put back once too often. *)
SyncPutBackTwice(n) ==
  /\ Up(n)
  /\ mgr[n].pc = "poll"
  /\ manager_gtd[n][SYNC_HASHSET] > 0
  /\ Broadcast(n, Job(REQ_HASHSET_FILTER))
  /\ manager_gtd' = [manager_gtd EXCEPT ![n][SYNC_HASHSET] = @ + 1]
  /\ UNCHANGED <<fate, ip_list, connections, seen, mgr, cpc, cur, reply, serving, loop, typed, asked>>

(* manage(), case SYNC_HASHSET.  BlockChainReconsiler::check returns no     *)
(* value, so it may be "DONE" or not.  If not, get_set_or_filter asks for   *)
(* the size of a vector that filters, without a return, hands out as any    *)
(* reference: that ends the process, or the answer is false, as current_set *)
(* and N of a SetReconsiler never change, and the task is put back for a    *)
(* second later.                                                            *)
MgrSync(n) ==
  /\ Up(n)
  /\ mgr[n].pc = "poll"
  /\ manager_gtd[n][SYNC_HASHSET] > 0
  /\ \/ /\ manager_gtd' = [manager_gtd EXCEPT ![n][SYNC_HASHSET] = @ - 1]
        /\ \/ UNCHANGED fate
           \/ Dies(n, "filters")
        /\ UNCHANGED gtd
     \/ /\ Broadcast(n, Job(REQ_HASHSET_FILTER))
        /\ UNCHANGED <<fate, manager_gtd>>
  /\ UNCHANGED <<ip_list, connections, seen, mgr, cpc, cur, reply, serving, loop, typed, asked>>

(* Mutant: the open connections are not subtracted. *)
ShortfallIgnoresOpen(n) ==
  IF N_CONN < Cardinality(ip_list[n]) THEN N_CONN ELSE Cardinality(ip_list[n])

(* n_new: how many connections are missing. *)
Shortfall(n) ==
  LET n_ips   == Cardinality(ip_list[n])
      desired == IF N_CONN < n_ips THEN N_CONN ELSE n_ips
      n_con   == Len(connections[n])
  IN  IF desired > n_con THEN desired - n_con ELSE 0

(* manage(), case EXPAND_CONNECTION: ip_list is measured, without its mutex, *)
(* for n_new and again by the constructor of ips_tmp.                       *)
MgrExpand(n) ==
  /\ Up(n)
  /\ mgr[n].pc = "poll"
  /\ manager_gtd[n][EXPAND_CONNECTION] > 0
  /\ manager_gtd' = [manager_gtd EXCEPT ![n][EXPAND_CONNECTION] = @ - 1]
  /\ mgr' = [mgr EXCEPT ![n] =
       [@ EXCEPT !.pc = "copy", !.old = ip_list[n], !.n_new = Shortfall(n)]]
  /\ UNCHANGED <<fate, ip_list, connections, seen, gtd, cpc, cur, reply, serving, loop, typed, asked>>

(* random_shuffle: the elements of S in any order. *)
Shuffles(S) ==
  {s \in [1..Cardinality(S) -> S] : \A i, j \in 1..Cardinality(S) : s[i] = s[j] => i = j}

Elems(s) == {s[i] : i \in DOMAIN s}

(* The locals of the case are dead once no round of its for loop is left. *)
Round(x) == IF x.n_new = 0 THEN [MgrIdle EXCEPT !.pc = "pick"] ELSE x

(* The copy of ip_list into ips_tmp, still without the mutex.  A list that  *)
(* grew since it was measured is seen as it was, as it is, or overruns the  *)
(* vector.                                                                  *)
MgrCopy(n) ==
  /\ Up(n)
  /\ mgr[n].pc = "copy"
  /\ \/ /\ \E S \in {mgr[n].old, ip_list[n]} : \E s \in Shuffles(S) :
             mgr' = [mgr EXCEPT ![n] = Round([@ EXCEPT
                       !.pc = "pick", !.old = {}, !.ips_tmp = s,
                       !.current_ips = Elems(connections[n]) \cup {n}])]
        /\ UNCHANGED fate
     \/ /\ mgr[n].old # ip_list[n]
        /\ Dies(n, "race")
        /\ UNCHANGED mgr
  /\ UNCHANGED <<ip_list, connections, seen, manager_gtd, gtd, cpc, cur, reply, serving, loop, typed, asked>>

(* Where the inner while stops from index i on: at the first address that is *)
(* not in current_ips, or one past the end.                                  *)
ScanStops(s, i, current_ips) ==
  {j \in i..(Len(s) + 1) :
    /\ \A k \in i..(j - 1) : s[k] \in current_ips
    /\ j <= Len(s) => s[j] \notin current_ips}

(* new_ip after a scan from i that stopped at j: past the end it is still    *)
(* the last address looked at, or the empty string if there was none.        *)
Found(s, i, j) ==
  IF i > Len(s) THEN None ELSE IF j > Len(s) THEN s[Len(s)] ELSE s[j]

(* One round of the for loop: scan, then connect and start a thread.  The    *)
(* index stays on the address that was chosen and current_ips is not updated. *)
MgrPick(n) ==
  LET x == mgr[n]
  IN  /\ Up(n)
      /\ x.pc = "pick"
      /\ x.n_new > 0
      /\ \E j \in ScanStops(x.ips_tmp, x.ip_idx, x.current_ips) :
           LET new_ip == Found(x.ips_tmp, x.ip_idx, j)
           IN  /\ mgr' = [mgr EXCEPT ![n] = Round([x EXCEPT !.n_new = x.n_new - 1, !.ip_idx = j])]
               /\ \/ /\ new_ip = None
                     /\ UNCHANGED <<fate, connections, cpc>>
                  \/ /\ new_ip = Bad
                     /\ Dies(n, "connect")
                     /\ UNCHANGED <<connections, cpc>>
                  \/ /\ new_ip \notin {None, Bad}
                     /\ connections' = [connections EXCEPT ![n] = Append(@, new_ip)]
                     /\ cpc' = [cpc EXCEPT ![<<n, Len(connections[n]) + 1>>] = "start"]
                     /\ UNCHANGED fate
      /\ UNCHANGED <<ip_list, seen, manager_gtd, gtd, cur, reply, serving, loop, typed, asked>>

(* Mutant: the task is not put back. *)
ExpandForgotten(n) ==
  /\ Up(n)
  /\ mgr[n].pc = "pick"
  /\ mgr[n].n_new = 0
  /\ mgr' = [mgr EXCEPT ![n] = MgrIdle]
  /\ UNCHANGED <<fate, ip_list, connections, seen, manager_gtd, gtd, cpc, cur, reply, serving, loop, typed, asked>>

(* After the loop the task is put back for 20 seconds later. *)
MgrExpandDone(n) ==
  /\ Up(n)
  /\ mgr[n].pc = "pick"
  /\ mgr[n].n_new = 0
  /\ mgr' = [mgr EXCEPT ![n] = MgrIdle]
  /\ manager_gtd' = [manager_gtd EXCEPT ![n][EXPAND_CONNECTION] = @ + 1]
  /\ UNCHANGED <<fate, ip_list, connections, seen, gtd, cpc, cur, reply, serving, loop, typed, asked>>
-----------------------------------------------------------------------------
(* Mutant: no HELLO is queued. *)
StartWithoutHello(c) ==
  /\ Up(c[1])
  /\ cpc[c] = "start"
  /\ cpc' = [cpc EXCEPT ![c] = "poll"]
  /\ UNCHANGED <<fate, ip_list, connections, seen, manager_gtd, mgr, gtd, cur, reply, serving, loop, typed, asked>>

(* manage_connection: the thread starts by queueing its HELLO. *)
ConnStart(c) ==
  /\ Up(c[1])
  /\ cpc[c] = "start"
  /\ gtd' = [gtd EXCEPT ![c][Job(HELLO)] = @ + 1]
  /\ cpc' = [cpc EXCEPT ![c] = "poll"]
  /\ UNCHANGED <<fate, ip_list, connections, seen, manager_gtd, mgr, cur, reply, serving, loop, typed, asked>>

(* Mutant: the queue is not checked for being empty. *)
SendFromEmpty(c, k) ==
  /\ Up(c[1])
  /\ cpc[c] = "poll"
  /\ gtd' = [gtd EXCEPT ![c][k] = @ - 1]
  /\ cur' = [cur EXCEPT ![c] = k]
  /\ cpc' = [cpc EXCEPT ![c] = "sent"]
  /\ UNCHANGED <<fate, ip_list, connections, seen, manager_gtd, mgr, reply, serving, loop, typed, asked>>

(* It takes the top of its queue and sends the request the task asks for. *)
ConnSend(c, k) ==
  /\ Up(c[1])
  /\ cpc[c] = "poll"
  /\ IsTop(k, {j \in ConnTask : gtd[c][j] > 0})
  /\ gtd' = [gtd EXCEPT ![c][k] = @ - 1]
  /\ cur' = [cur EXCEPT ![c] = k]
  /\ cpc' = [cpc EXCEPT ![c] = "sent"]
  /\ UNCHANGED <<fate, ip_list, connections, seen, manager_gtd, mgr, reply, serving, loop, typed, asked>>

(* REQ_HASHSET_FILTER reads the reply, a Message, as if it were a SetFilter: *)
(* where p of the bloom is expected it finds n of the filter, and behind a   *)
(* p that is not 0 a pointer of the wrong kind, which throws.                *)
FilterThrows(k) == k.type = REQ_HASHSET_FILTER /\ FullSetSize > 0

(* Mutant: the list replaces the known addresses. *)
Replaced(c) == reply[c].ips

(* The addresses in the reply are inserted, under the mutex. *)
Learned(c) == ip_list[c[1]] \cup reply[c].ips

(* It reads the reply.  REQ_IPS asserts that it is an ipList before it      *)
(* inserts the addresses; the others ignore what they received.             *)
ConnRecv(c) ==
  LET n == c[1]
  IN  /\ Up(n)
      /\ cpc[c] = "replied"
      /\ fate' = [fate EXCEPT ![n] =
           IF cur[c].type = REQ_IPS /\ reply[c].which # "ipList" THEN "assert"
           ELSE IF FilterThrows(cur[c]) THEN "decode"
           ELSE @]
      /\ ip_list' = [ip_list EXCEPT ![n] =
           IF cur[c].type = REQ_IPS /\ reply[c].which = "ipList" THEN Learned(c) ELSE @]
      /\ cpc' = [cpc EXCEPT ![c] = "poll"]
      /\ cur' = [cur EXCEPT ![c] = None]
      /\ reply' = [reply EXCEPT ![c] = NoReply]
      /\ UNCHANGED <<connections, seen, manager_gtd, mgr, gtd, serving, loop, typed, asked>>
-----------------------------------------------------------------------------
(* serve(): recv_multi returns a request of connection c. *)
Receives(m, c, ty) ==
  /\ Up(m)
  /\ serving[m].pc = "recv"
  /\ cpc[c] = "sent"
  /\ connections[c[1]][c[2]] = m
  /\ cur[c].type = ty

(* send_multi: the envelope brings the reply back to the asking socket. *)
Answers(c, r) ==
  /\ cpc' = [cpc EXCEPT ![c] = "replied"]
  /\ reply' = [reply EXCEPT ![c] = r]

(* Mutant: the address it was called at is stored. *)
HelloStoresOwn(m, c) ==
  /\ Receives(m, c, HELLO)
  /\ ip_list' = [ip_list EXCEPT ![m] = @ \cup {m}]
  /\ Answers(c, Reply("welcome", {}))
  /\ UNCHANGED <<fate, connections, seen, manager_gtd, mgr, gtd, cur, serving, loop, typed, asked>>

(* case HELLO. *)
ServeHello(m, c) ==
  /\ Receives(m, c, HELLO)
  /\ ip_list' = [ip_list EXCEPT ![m] = @ \cup {c[1]}]
  /\ Answers(c, Reply("welcome", {}))
  /\ UNCHANGED <<fate, connections, seen, manager_gtd, mgr, gtd, cur, serving, loop, typed, asked>>

(* case GET_PEERS: initIps(ip_list.size()), before the mutex is taken ... *)
ServePeersSize(m, c) ==
  /\ Receives(m, c, REQ_IPS)
  /\ serving' = [serving EXCEPT ![m] =
       [pc |-> "peers", req |-> c, slots |-> Cardinality(ip_list[m])]]
  /\ cpc' = [cpc EXCEPT ![c] = "served"]
  /\ UNCHANGED <<fate, ip_list, connections, seen, manager_gtd, mgr, gtd, cur, reply, loop, typed, asked>>

(* What a list of n slots holds once more addresses than that were set: the *)
(* pointers past its end overwrite the text of an earlier entry.            *)
Overrun(n, S) ==
  IF n = 0 THEN {{}} ELSE {R \cup {Bad} : R \in {Q \in SUBSET S : Cardinality(Q) = n - 1}}

(* Mutant: a list that grew meanwhile is not sent. *)
FillGivesUp(m) ==
  /\ Up(m)
  /\ serving[m].pc = "peers"
  /\ Answers(serving[m].req,
       IF Cardinality(ip_list[m]) > serving[m].slots THEN NoReply ELSE Reply("ipList", ip_list[m]))
  /\ serving' = [serving EXCEPT ![m] = ServeIdle]
  /\ UNCHANGED <<fate, ip_list, connections, seen, manager_gtd, mgr, gtd, cur, loop, typed, asked>>

(* ... and the loop that fills the slots, under the mutex. *)
ServePeersFill(m) ==
  LET c == serving[m].req
  IN  /\ Up(m)
      /\ serving[m].pc = "peers"
      /\ \/ /\ \/ /\ Cardinality(ip_list[m]) = serving[m].slots
                  /\ Answers(c, Reply("ipList", ip_list[m]))
               \/ /\ Cardinality(ip_list[m]) > serving[m].slots
                  /\ \E R \in Overrun(serving[m].slots, ip_list[m]) : Answers(c, Reply("ipList", R))
            /\ serving' = [serving EXCEPT ![m] = ServeIdle]
            /\ UNCHANGED fate
         \/ /\ Cardinality(ip_list[m]) > serving[m].slots
            /\ Dies(m, "race")
            /\ UNCHANGED <<cpc, reply, serving>>
      /\ UNCHANGED <<ip_list, connections, seen, manager_gtd, mgr, gtd, cur, loop, typed, asked>>

(* for (auto con : connections): begin and end are taken once, here in one  *)
(* step (TornLoop has the case that the manager comes between them).        *)
StartLoop(n, w, t) ==
  loop' = [loop EXCEPT ![n][w] =
    IF connections[n] = <<>> THEN NoLoop
    ELSE [text |-> t, next |-> 1, end |-> Len(connections[n])]]

(* Mutants: every text passes for a new one; a text is not remembered; ...  *)
AlwaysUnseen(m, t) == TRUE
Forget(m, t) == UNCHANGED seen

(* seen.count and seen.insert. *)
Unseen(m, t) == t \notin seen[m]
Remember(m, t) == seen' = [seen EXCEPT ![m] = @ \cup {t}]

(* ... a text seen before is not answered. *)
ServeTextSilent(m, c) ==
  /\ Receives(m, c, SEND)
  /\ Remember(m, cur[c].data)
  /\ cpc' = [cpc EXCEPT ![c] = "served"]
  /\ IF cur[c].data \in seen[m] THEN UNCHANGED <<serving, loop>>
     ELSE /\ serving' = [serving EXCEPT ![m] = [pc |-> "text", req |-> c, slots |-> 0]]
          /\ StartLoop(m, "serve", cur[c].data)
  /\ UNCHANGED <<fate, ip_list, connections, manager_gtd, mgr, gtd, cur, reply, typed, asked>>

(* case TEXT: a text not seen before is flooded before the reply. *)
ServeText(m, c) ==
  /\ Receives(m, c, SEND)
  /\ \/ /\ ~Unseen(m, cur[c].data)
        /\ Answers(c, Reply("ok", {}))
        /\ UNCHANGED <<seen, serving, loop>>
     \/ /\ Unseen(m, cur[c].data)
        /\ Remember(m, cur[c].data)
        /\ serving' = [serving EXCEPT ![m] = [pc |-> "text", req |-> c, slots |-> 0]]
        /\ cpc' = [cpc EXCEPT ![c] = "served"]
        /\ StartLoop(m, "serve", cur[c].data)
        /\ UNCHANGED reply
  /\ UNCHANGED <<fate, ip_list, connections, manager_gtd, mgr, gtd, cur, typed, asked>>

ServeTextDone(m) ==
  /\ Up(m)
  /\ serving[m].pc = "text"
  /\ loop[m]["serve"] = NoLoop
  /\ Answers(serving[m].req, Reply("ok", {}))
  /\ serving' = [serving EXCEPT ![m] = ServeIdle]
  /\ UNCHANGED <<fate, ip_list, connections, seen, manager_gtd, mgr, gtd, cur, loop, typed, asked>>

(* case REQ_SET_FILTER. *)
ServeFilter(m, c) ==
  /\ Receives(m, c, REQ_HASHSET_FILTER)
  /\ Answers(c, Reply("setFilter", {}))
  /\ UNCHANGED <<fate, ip_list, connections, seen, manager_gtd, mgr, gtd, cur, serving, loop, typed, asked>>
-----------------------------------------------------------------------------
(* The buffer of a vector moves when it grows past a power of two. *)
Moved(old, new) == \E k \in old..(new - 1), e \in 0..new : k = 2^e

(* One round of a loop over connections.  The loops do not synchronise with *)
(* the manager's push_back: once the buffer has moved, the loop reads freed *)
(* memory, which may still hold the old pointers or not.                    *)
FloodStep(n, w) ==
  LET l == loop[n][w]
  IN  /\ Up(n)
      /\ l.next <= l.end
      /\ \/ /\ gtd' = [gtd EXCEPT ![<<n, l.next>>][SendJob(l.text)] = @ + 1]
            /\ loop' = [loop EXCEPT ![n][w] =
                 IF l.next = l.end THEN NoLoop ELSE [l EXCEPT !.next = @ + 1]]
            /\ UNCHANGED fate
         \/ /\ Moved(l.end, Len(connections[n]))
            /\ Dies(n, "race")
            /\ UNCHANGED <<gtd, loop>>
      /\ UNCHANGED <<ip_list, connections, seen, manager_gtd, mgr, cpc, cur, reply, serving, typed, asked>>

(* A line that read_lines has looked at and not yet sent. *)
ToSend(t) == [NoLoop EXCEPT !.text = t]

(* read_lines: a line is read and looked at for "go" ... *)
ReadLine(n, t) ==
  /\ Up(n)
  /\ loop[n]["read"] = NoLoop
  /\ typed[n][t] < MaxLines
  /\ LET more == IF t \in GoText THEN 1 ELSE 0
     IN  /\ manager_gtd' = [manager_gtd EXCEPT ![n][SYNC_HASHSET] = @ + more]
         /\ asked' = [asked EXCEPT ![n] = @ + more]
  /\ loop' = [loop EXCEPT ![n]["read"] = ToSend(t)]
  /\ UNCHANGED <<fate, ip_list, connections, seen, mgr, gtd, cpc, cur, reply, serving, typed>>

(* ... and then sent to all connections. *)
SendLine(n, t) ==
  /\ Up(n)
  /\ loop[n]["read"] = ToSend(t)
  /\ typed' = [typed EXCEPT ![n][t] = @ + 1]
  /\ StartLoop(n, "read", t)
  /\ UNCHANGED <<fate, ip_list, connections, seen, manager_gtd, mgr, gtd, cpc, cur, reply,
                 serving, asked>>

(* A thread takes begin and end of connections while a push_back moves the  *)
(* buffer: they may belong to different buffers, and the loop does not end  *)
(* where the memory does.                                                   *)
TornLoop(n) ==
  /\ Up(n)
  /\ mgr[n].pc = "pick"
  /\ mgr[n].n_new > 0
  /\ connections[n] = <<>> \/ Moved(Len(connections[n]), Len(connections[n]) + 1)
  /\ \/ \E c \in Conn : Receives(n, c, SEND) /\ Unseen(n, cur[c].data)
     \/ \E t \in Says[n] : loop[n]["read"] = ToSend(t)
  /\ Dies(n, "race")
  /\ UNCHANGED <<ip_list, connections, seen, manager_gtd, mgr, gtd, cpc, cur, reply, serving,
                 loop, typed, asked>>
-----------------------------------------------------------------------------
Manage(n) ==
  MgrReqIps(n) \/ MgrSync(n) \/ MgrExpand(n) \/ MgrCopy(n) \/ MgrPick(n) \/ MgrExpandDone(n)

ManageConnection(c) ==
  ConnStart(c) \/ (\E k \in ConnTask : ConnSend(c, k)) \/ ConnRecv(c)

ServeRequest(m, c) ==
  ServeHello(m, c) \/ ServePeersSize(m, c) \/ ServeText(m, c) \/ ServeFilter(m, c)

Serve(m) ==
  \/ \E c \in Conn : ServeRequest(m, c)
  \/ ServePeersFill(m) \/ ServeTextDone(m) \/ FloodStep(m, "serve")

ReadLines(n) ==
  (\E t \in Says[n] : ReadLine(n, t) \/ SendLine(n, t)) \/ FloodStep(n, "read")

Next ==
  \/ \E n \in Node : Manage(n) \/ Serve(n) \/ ReadLines(n) \/ TornLoop(n)
  \/ \E c \in Conn : ManageConnection(c)

Spec == Init /\ [][Next]_vars

(* Every thread that can go on goes on.  A ROUTER socket takes requests     *)
(* from its peers in turn, and the manager's queue returns a periodic task  *)
(* once it is due (GTD, EveryTaskReturned: users type "go" less often than  *)
(* the manager polls): both are strong fairness, as the thread is busy with *)
(* something else in between.                                               *)
FairSpec ==
  /\ Spec
  /\ \A c \in Conn : WF_vars(ManageConnection(c))
  /\ \A n \in Node :
       /\ \A c \in Conn : SF_vars(ServeRequest(n, c))
       /\ WF_vars(ServePeersFill(n) \/ ServeTextDone(n) \/ FloodStep(n, "serve"))
       /\ WF_vars((\E t \in Says[n] : SendLine(n, t)) \/ FloodStep(n, "read"))
       /\ SF_vars(MgrReqIps(n))
       /\ SF_vars(MgrExpand(n))
       /\ WF_vars(MgrCopy(n) \/ MgrPick(n) \/ MgrExpandDone(n))
-----------------------------------------------------------------------------
InExchange(c) == cpc[c] \in {"sent", "served", "replied"}

(* What became of a process; what the manager's locals, a reply, the state  *)
(* of serve and a loop over connections look like.                          *)
Fate == {"up", "race", "connect", "assert", "decode", "filters"}
MgrLocals == [pc : {"poll", "copy", "pick"}, n_new : Nat, old : SUBSET Addr,
              ips_tmp : Seq(Addr), ip_idx : Nat \ {0}, current_ips : SUBSET Addr]
ConnPc == {"off", "start", "poll", "sent", "served", "replied"}
Replies == [which : {"none", "welcome", "ipList", "ok", "setFilter"}, ips : SUBSET Addr]
Serving == [pc : {"recv", "peers", "text"}, req : Conn \cup {None}, slots : Nat]
Loops == [text : Text \cup {None}, next : Nat, end : Nat]

(* Every variable keeps its type. *)
TypeOK ==
  /\ fate \in [Node -> Fate]
  /\ ip_list \in [Node -> SUBSET Addr]
  /\ connections \in [Node -> Seq(Addr)]
  /\ seen \in [Node -> SUBSET Text]
  /\ manager_gtd \in [Node -> [MgrTask -> Nat]]
  /\ mgr \in [Node -> MgrLocals]
  /\ gtd \in [Conn -> [ConnTask -> Nat]]
  /\ cpc \in [Conn -> ConnPc]
  /\ cur \in [Conn -> ConnTask \cup {None}]
  /\ reply \in [Conn -> Replies]
  /\ serving \in [Node -> Serving]
  /\ loop \in [Node -> [Looper -> Loops]]
  /\ typed \in [Node -> [Text -> Nat]]
  /\ asked \in [Node -> Nat]

(* A process never holds more connections than N_CONN, nor more than it has  *)
(* addresses, although n_new is computed from sizes read without the mutex   *)
(* while serve and the connections insert addresses (manage,                 *)
(* EXPAND_CONNECTION).                                                       *)
ConnBound ==
  \A n \in Node :
    /\ Len(connections[n]) <= N_CONN
    /\ Len(connections[n]) <= Cardinality(ip_list[n])

(* Neither periodic task of manage() is lost or doubled over its put-backs, *)
(* and SYNC_HASHSET never multiplies beyond the "go" lines that asked for it. *)
ManagerTasks ==
  \A n \in Node :
    /\ manager_gtd[n][REQ_IPS] = 1
    /\ manager_gtd[n][EXPAND_CONNECTION] = (IF mgr[n].pc = "poll" THEN 1 ELSE 0)
    /\ manager_gtd[n][SYNC_HASHSET] <= asked[n]

(* By the priority of HELLO over the manager's requests, a peer that is     *)
(* asked for its addresses or its filter has the asking process in its own  *)
(* ip_list, and an intact list it returns names that process                *)
(* (manage_connection, serve HELLO and GET_PEERS).                          *)
GreetedPeersKnowMe ==
  \A c \in Conn :
    InExchange(c) /\ cur[c].type \in {REQ_IPS, REQ_HASHSET_FILTER}
        /\ connections[c[1]][c[2]] \in Node =>
      /\ c[1] \in ip_list[connections[c[1]][c[2]]]
      /\ reply[c].which = "ipList" /\ Bad \notin reply[c].ips => c[1] \in reply[c].ips

(* A reply is of the kind its request asked for, whatever else serve did in *)
(* between; the assertion in manage_connection's REQ_IPS never fires.       *)
RepliesMatch ==
  /\ \A c \in Conn : cpc[c] = "replied" =>
       reply[c].which = CASE cur[c].type = HELLO -> "welcome"
                          [] cur[c].type = REQ_IPS -> "ipList"
                          [] cur[c].type = SEND -> "ok"
                          [] OTHER -> "setFilter"
  /\ \A n \in Node : fate[n] # "assert"

Copies(c, t) == gtd[c][SendJob(t)] + (IF InExchange(c) /\ cur[c] = SendJob(t) THEN 1 ELSE 0)

(* Flooding does not amplify: a connection never has more copies of a text  *)
(* to send than the process's user typed it, plus one for having received   *)
(* it (serve TEXT and its set seen, read_lines).                            *)
SendBound ==
  \A c \in Conn, t \in Text :
    Copies(c, t) <= typed[c[1]][t] + (IF t \in seen[c[1]] THEN 1 ELSE 0)

O == INSTANCE Overlay WITH
       known <- ip_list,
       said <- [n \in Node |-> {t \in Text : typed[n][t] > 0}],
       heard <- seen

(* Addresses and texts travel along "knows" only: nobody forgets an address *)
(* or learns one its peer does not know, but for a garbled list, and nobody  *)
(* hears a text that no process which knows it has typed or heard, although *)
(* lists and texts wait in replies, queues and loops while the state they   *)
(* came from moves on (manage_connection, serve, read_lines).               *)
ImplementsOverlay == O!Spec

AllUp == \A n \in Node : Up(n)

(* A text queued for a connection to a running process is seen there,       *)
(* unless some process dies.                                                *)
TextDelivered ==
  \A c \in Conn, t \in Text, m \in Node :
    (gtd[c][SendJob(t)] > 0 /\ connections[c[1]][c[2]] = m) ~> (t \in seen[m] \/ ~AllUp)

(* The flood ends: from some time on no text is on its way to a running     *)
(* process, although every process sends what it receives to all its peers, *)
(* the one it came from included (serve TEXT).                              *)
FloodEnds ==
  <>[](AllUp => \A c \in Conn, t \in Text :
        c[2] \in DOMAIN connections[c[1]] /\ connections[c[1]][c[2]] \in Node => Copies(c, t) = 0)

(* A request to a running process is answered and the connection's thread   *)
(* gets back to its queue; the lock-step REQ sockets and the single serve    *)
(* thread of each process cannot end up waiting for one another.            *)
RequestAnswered ==
  \A c \in Conn :
    (InExchange(c) /\ connections[c[1]][c[2]] \in Node) ~> (cpc[c] = "poll" \/ ~AllUp)

(* The ip_lists converge: from some time on, unless a process dies, every   *)
(* process knows all that its peers know and its peers know it, although a  *)
(* list may grow while it is copied into a reply (manage REQ_IPS,           *)
(* manage_connection HELLO and REQ_IPS, serve HELLO and GET_PEERS).         *)
AddressesSpread ==
  <>[](AllUp => \A n, m \in Node : m \in Elems(connections[n]) =>
                  n \in ip_list[m] /\ ip_list[m] \subseteq ip_list[n])

(* EXPAND_CONNECTION compares against a set of the addresses in use, its    *)
(* own included ("make a set to compare against"): no two connections of a  *)
(* process go to one address and none goes to the process itself.           *)
DistinctPeers ==
  \A n \in Node :
    /\ \A i, j \in DOMAIN connections[n] : connections[n][i] = connections[n][j] => i = j
    /\ n \notin Elems(connections[n])

(* cap/README.txt: a node that is being opened is sent Hello and awaits     *)
(* Welcome; nothing else is sent to it before.                              *)
HelloFirst ==
  \A c \in Conn : InExchange(c) /\ cur[c].type # HELLO => gtd[c][Job(HELLO)] = 0

(* cap/messages.capnp: the content of the reply to reqSetFilter is a        *)
(* setFilter, and manage_connection reads it ("read filter").               *)
FilterRead == \A n \in Node : fate[n] # "decode"
=============================================================================
