------------------------------- MODULE Routes -------------------------------
(***************************************************************************)
(* estimate_outside_ip of inc/estimate_outside_ip.h, which main calls      *)
(* before anything else: the kernel's routes are dumped into one buffer,   *)
(* the interface of the default route is found in it and then an address   *)
(* of that interface.  The kernel is external: it answers with datagrams   *)
(* of route messages and a last one that holds only DONE, or with an       *)
(* error.  All its messages carry the request's sequence number 0, the     *)
(* multi-part flag and this process's id.                                  *)
(***************************************************************************)
EXTENDS Integers, Sequences, SequencesExt

CONSTANTS
  BUFSIZE,   \* units in the buffer (8192 bytes in the code)
  HDR,       \* units of a message header
  Messages,  \* route messages: main table or not, default or not, interface, length
  Dumps,     \* what the kernel answers, datagram by datagram
  Addresses, \* lists that getifaddrs may return
  None       \* the empty string

RoutesAssumption ==
  /\ BUFSIZE \in Nat /\ HDR \in Nat \ {0}
  /\ \A m \in Messages :
       /\ m.type = "route" /\ m.main \in BOOLEAN /\ m.default \in BOOLEAN
       /\ m.len \in Nat /\ m.len >= HDR
  /\ Dumps \subseteq Seq(Seq(Messages) \ {<<>>})
  /\ \A a \in Addresses : a \in Seq({ifa \in ToSet(a) : ifa.inet \in BOOLEAN /\ ifa.host # None})

(* DONE and ERROR have a header and an error code. *)
Control(type) == [type |-> type, len |-> HDR + 1]

VARIABLES
  dump,       \* the route messages of the kernel's answer
  socket,     \* datagrams not yet received
  msgBuf,     \* messages that are whole in the buffer
  msgLen,     \* units received
  interface,  \* default route found so far
  ifaddr,     \* addresses not yet looked at
  ip,         \* the result so far
  all,        \* history: the list of addresses
  pc

vars == <<dump, socket, msgBuf, msgLen, interface, ifaddr, ip, all, pc>>

(* The socket is made and the request sent, or one of them failed. *)
Init ==
  /\ dump \in Dumps
  /\ socket \in {Append(dump, <<Control(last)>>) : last \in {"DONE", "ERROR"}}
  /\ msgBuf = <<>>
  /\ msgLen = 0
  /\ interface = None
  /\ ifaddr = <<>>
  /\ ip = None
  /\ all = <<>>
  /\ pc \in {"read", "return"}

(* Mutant: the sequence number of the request is expected. *)
SeqOfRequest == 0

(* msgSeq++ gives the request 0 and readNlSock 1. *)
seqNum == 1
nlmsg_seq == 0

Size(d) ==
  LET size[k \in 0..Len(d)] == IF k = 0 THEN 0 ELSE size[k - 1] + d[k].len
  IN  size[Len(d)]

(* recv cuts a datagram to the room that is left; the messages that are     *)
(* whole in what it copied.                                                 *)
Room == BUFSIZE - msgLen
ReadLen(d) == IF Size(d) <= Room THEN Size(d) ELSE Room
Whole(d) ==
  SubSeq(d, 1, CHOOSE k \in 0..Len(d) :
    /\ Size(SubSeq(d, 1, k)) <= Room
    /\ k < Len(d) => Size(SubSeq(d, 1, k + 1)) > Room)

NLMSG_OK(d) == ReadLen(d) >= HDR /\ d[1].len <= ReadLen(d)

(* One round of readNlSock. *)
readNlSock ==
  LET d == Head(socket)
  IN  /\ pc = "read"
      /\ socket' = Tail(socket)
      /\ \/ /\ ~NLMSG_OK(d) \/ d[1].type = "ERROR"
            /\ pc' = "return"
            /\ UNCHANGED <<msgBuf, msgLen>>
         \/ /\ NLMSG_OK(d)
            /\ d[1].type = "DONE"
            /\ pc' = "parse"
            /\ UNCHANGED <<msgBuf, msgLen>>
         \/ /\ NLMSG_OK(d)
            /\ d[1].type = "route"
            /\ msgBuf' = msgBuf \o Whole(d)
            /\ msgLen' = msgLen + ReadLen(d)
            /\ pc' = IF nlmsg_seq # seqNum THEN "read" ELSE "parse"
      /\ UNCHANGED <<dump, interface, ifaddr, ip, all>>

(* What parseRoutes leaves in the cleared rtInfo; a route of another family *)
(* or table leaves it as it is.                                             *)
parseRoutes(m) ==
  IF m.main THEN [dst0 |-> m.default, ifName |-> m.oif] ELSE [dst0 |-> TRUE, ifName |-> None]

(* Mutant: an empty name is taken as well. *)
InterfaceAnyName ==
  /\ pc = "parse"
  /\ msgBuf # <<>>
  /\ msgBuf' = Tail(msgBuf)
  /\ interface' = IF parseRoutes(Head(msgBuf)).dst0 THEN parseRoutes(Head(msgBuf)).ifName ELSE interface
  /\ UNCHANGED <<dump, socket, msgLen, ifaddr, ip, all, pc>>

(* One round of the loop over the messages in get_interface. *)
get_interface ==
  LET rtInfo == parseRoutes(Head(msgBuf))
  IN  /\ pc = "parse"
      /\ msgBuf # <<>>
      /\ msgBuf' = Tail(msgBuf)
      /\ interface' = IF rtInfo.dst0 /\ rtInfo.ifName # None THEN rtInfo.ifName ELSE interface
      /\ UNCHANGED <<dump, socket, msgLen, ifaddr, ip, all, pc>>

(* estimate_outside_ip: without an interface no address is looked for; the  *)
(* call of getifaddrs may fail.                                             *)
estimate_outside_ip ==
  /\ pc = "parse"
  /\ msgBuf = <<>>
  /\ \/ /\ interface = None
        /\ pc' = "return"
        /\ UNCHANGED <<ifaddr, all>>
     \/ /\ interface # None
        /\ \/ ifaddr' \in Addresses /\ all' = ifaddr' /\ pc' = "addrs"
           \/ UNCHANGED <<ifaddr, all>> /\ pc' = "return"
  /\ UNCHANGED <<dump, socket, msgBuf, msgLen, interface, ip>>

(* What counts as an outside address: one of the interface whose text does  *)
(* not contain "192.168.".  Addresses of other private ranges count.        *)
Outside(ifa, name) == ifa.inet /\ ifa.name = name /\ ~ifa.is192168

(* One round of the loop of get_ip_from_interface; getnameinfo may fail.    *)
get_ip_from_interface ==
  LET ifa == Head(ifaddr)
  IN  /\ pc = "addrs"
      /\ ifaddr # <<>>
      /\ ifaddr' = Tail(ifaddr)
      /\ \/ /\ ip' = IF Outside(ifa, interface) THEN ifa.host ELSE ip
            /\ UNCHANGED pc
         \/ /\ ifa.inet
            /\ pc' = "return"
            /\ UNCHANGED ip
      /\ UNCHANGED <<dump, socket, msgBuf, msgLen, interface, all>>

Return ==
  /\ pc = "addrs"
  /\ ifaddr = <<>>
  /\ pc' = "return"
  /\ UNCHANGED <<dump, socket, msgBuf, msgLen, interface, ifaddr, ip, all>>

Next == readNlSock \/ get_interface \/ estimate_outside_ip \/ get_ip_from_interface \/ Return

Spec == Init /\ [][Next]_vars
-----------------------------------------------------------------------------
(* readNlSock never reads past its buffer, and a result other than -1 is    *)
(* the length of the kernel's whole answer: an answer in several datagrams  *)
(* is not ended early by the sequence number, and one that does not fit is  *)
(* never taken for a shorter one.                                           *)
DumpWhole ==
  /\ msgLen <= BUFSIZE
  /\ pc \in {"parse", "addrs"} => msgLen = Size(FlattenSeq(dump))

(* The interface of the main table's last default route that has one. *)
Default ==
  LET routes == FlattenSeq(dump)
      named == {k \in DOMAIN routes : routes[k].main /\ routes[k].default /\ routes[k].oif # None}
  IN  IF named = {} THEN None ELSE routes[Max(named)].oif

(* The interface that is looked up is that of the main table's last default *)
(* route with one, whatever other routes follow it and in whatever          *)
(* datagrams; the address that is returned is one of its addresses without  *)
(* "192.168.", and a list that was looked through without finding one has   *)
(* none (get_interface, get_ip_from_interface).                             *)
OutsideAddress ==
  /\ pc = "parse" /\ socket = <<>> /\ msgBuf = <<>> => interface = Default
  /\ ip # None => \E k \in DOMAIN all :
                   all[k].host = ip /\ Outside(all[k], Default)
  /\ pc = "addrs" /\ ifaddr = <<>> /\ ip = None =>
       \A k \in DOMAIN all : ~Outside(all[k], Default)
=============================================================================
