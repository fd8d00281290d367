------------------------------- MODULE Client -------------------------------
(***************************************************************************)
(* bin/node.cc: a client that asks one p2p process three things over one   *)
(* REQ socket: it says hello as "sdfasdf", which is no endpoint, hands in  *)
(* a transaction it made itself, and asks for the peers, of which it       *)
(* prints the first.                                                       *)
(* The network of processes is P2P.                                        *)
(***************************************************************************)
EXTENDS P2P

CONSTANT Target  \* the process on the client's command line

ASSUME ClientAssumption == Target \in Node

VARIABLE client  \* its next or current request, where that is, the reply

cvars == <<vars, client>>

Requests == <<"hello", "transaction", "getPeers">>

CInit ==
  /\ Init
  /\ client = [step |-> 1, pc |-> "ready", reply |-> NoReply]

Asks(what) == client.step <= 3 /\ Requests[client.step] = what

ClientSend ==
  /\ client.step <= 3
  /\ client.pc = "ready"
  /\ client' = [client EXCEPT !.pc = "sent"]
  /\ UNCHANGED vars

(* recv(); the first two replies are not looked at. *)
ClientRecv ==
  /\ client.pc = "replied"
  /\ client' = [step |-> client.step + 1, pc |-> "ready", reply |-> NoReply]
  /\ UNCHANGED vars

(* serve() of the target receives the client's request. *)
Takes(what) ==
  /\ Up(Target)
  /\ serving[Target].pc = "recv"
  /\ client.pc = "sent"
  /\ Asks(what)

Returns(r) == client' = [client EXCEPT !.pc = "replied", !.reply = r]

(* Mutant: the address is not remembered. *)
HelloForgotten ==
  /\ Takes("hello")
  /\ Returns(Reply("welcome", {}))
  /\ UNCHANGED vars

ServeClientHello ==
  /\ Takes("hello")
  /\ ip_list' = [ip_list EXCEPT ![Target] = @ \cup {Bad}]
  /\ Returns(Reply("welcome", {}))
  /\ UNCHANGED <<fate, connections, seen, manager_gtd, mgr, gtd, cpc, cur, reply, serving, loop, typed, asked>>

(* What process_transaction says is Transactions' matter; the accounts and *)
(* amounts it fills are dropped.                                           *)
ServeClientTransaction ==
  /\ Takes("transaction")
  /\ \E which \in {"ok", "reject"} : Returns(Reply(which, {}))
  /\ UNCHANGED vars

ServeClientPeersSize ==
  /\ Takes("getPeers")
  /\ serving' = [serving EXCEPT ![Target] =
       [pc |-> "client", req |-> None, slots |-> Cardinality(ip_list[Target])]]
  /\ client' = [client EXCEPT !.pc = "served"]
  /\ UNCHANGED <<fate, ip_list, connections, seen, manager_gtd, mgr, gtd, cpc, cur, reply, loop, typed, asked>>

(* As ServePeersFill, for the client. *)
ServeClientPeersFill ==
  LET slots == serving[Target].slots
  IN  /\ Up(Target)
      /\ serving[Target].pc = "client"
      /\ \/ /\ \E R \in IF Cardinality(ip_list[Target]) = slots THEN {ip_list[Target]}
                        ELSE Overrun(slots, ip_list[Target]) : Returns(Reply("ipList", R))
            /\ serving' = [serving EXCEPT ![Target] = ServeIdle]
            /\ UNCHANGED fate
         \/ /\ Cardinality(ip_list[Target]) > slots
            /\ Dies(Target, "race")
            /\ UNCHANGED <<client, serving>>
      /\ UNCHANGED <<ip_list, connections, seen, manager_gtd, mgr, gtd, cpc, cur, reply, loop, typed, asked>>

ServeClient == ServeClientHello \/ ServeClientTransaction \/ ServeClientPeersSize

CNext ==
  \/ Next /\ UNCHANGED client
  \/ ClientSend \/ ClientRecv \/ ServeClient \/ ServeClientPeersFill

CSpec == CInit /\ [][CNext]_cvars
-----------------------------------------------------------------------------
(* node.cc prints ips[0] without looking at the size: there is one, since   *)
(* the client's own hello came first and addresses are never removed, also  *)
(* when the list grew while serve filled it (serve HELLO and GET_PEERS).    *)
FirstPeerExists ==
  client.pc = "replied" /\ Asks("getPeers") => client.reply.ips # {}
=============================================================================
