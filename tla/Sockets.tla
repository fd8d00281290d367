------------------------------ MODULE Sockets ------------------------------
(***************************************************************************)
(* Socket::connect and Context::inst of src/socket.cc: serve makes its     *)
(* ROUTER while manage makes the first of its REQ sockets, and the context *)
(* they share is made by the first to ask, without a mutex.  The store to  *)
(* Context::s follows the constructor, whose calls the compiler cannot see *)
(* into, and threads see stores in order (x86).  What a call into ZeroMQ   *)
(* refuses is thrown, not caught, and ends the process.                    *)
(***************************************************************************)
EXTENDS Integers, Sequences, FiniteSets

CONSTANTS
  Thread,
  MaxSockets,  \* bound: sockets each thread makes
  None         \* no context

SocketsAssumption ==
  /\ IsFiniteSet(Thread)
  /\ MaxSockets \in [Thread -> Nat]
  /\ None \notin Nat

VARIABLES
  s,        \* Context::s, contexts are numbered
  ctx,      \* contexts whose ctx is set
  pc,       \* where each thread is in Socket::connect
  mine,     \* the context a thread is making
  sockets   \* the context of each thread's sockets, in order

vars == <<s, ctx, pc, mine, sockets>>

Init ==
  /\ s = None
  /\ ctx = {}
  /\ pc = [t \in Thread |-> "inst"]
  /\ mine = [t \in Thread |-> None]
  /\ sockets = [t \in Thread |-> <<>>]

Throws == pc' = [t \in Thread |-> "ended"]

(* Mutant: a context is made for every socket. *)
LookAway(t) ==
  /\ pc[t] = "inst"
  /\ Len(sockets[t]) < MaxSockets[t]
  /\ pc' = [pc EXCEPT ![t] = "new"]
  /\ UNCHANGED <<s, ctx, mine, sockets>>

(* if (!Context::s). *)
Look(t) ==
  /\ pc[t] = "inst"
  /\ Len(sockets[t]) < MaxSockets[t]
  /\ pc' = [pc EXCEPT ![t] = IF s = None THEN "new" ELSE "socket"]
  /\ UNCHANGED <<s, ctx, mine, sockets>>

Fresh == Cardinality(ctx) + 1

(* new Context(): init() calls zmq_ctx_new. *)
Make(t) ==
  /\ pc[t] = "new"
  /\ \/ /\ mine' = [mine EXCEPT ![t] = Fresh]
        /\ ctx' = ctx \cup {Fresh}
        /\ pc' = [pc EXCEPT ![t] = "store"]
     \/ /\ Throws
        /\ UNCHANGED <<ctx, mine>>
  /\ UNCHANGED <<s, sockets>>

(* Context::s = ... *)
Store(t) ==
  /\ pc[t] = "store"
  /\ s' = mine[t]
  /\ pc' = [pc EXCEPT ![t] = "socket"]
  /\ UNCHANGED <<ctx, mine, sockets>>

(* return *Context::s, which is read again, and zmq_socket with its ctx,    *)
(* then zmq_bind or zmq_connect.                                            *)
Open(t) ==
  /\ pc[t] = "socket"
  /\ \/ /\ sockets' = [sockets EXCEPT ![t] = Append(@, s)]
        /\ pc' = [pc EXCEPT ![t] = "inst"]
     \/ /\ Throws
        /\ UNCHANGED sockets
  /\ UNCHANGED <<s, ctx, mine>>

Next == \E t \in Thread : Look(t) \/ Make(t) \/ Store(t) \/ Open(t)

Spec == Init /\ [][Next]_vars
-----------------------------------------------------------------------------
(* The race for the first context is harmless: no socket is made before its *)
(* context is ready, there are no more contexts than threads that could     *)
(* race, and a thread whose sockets moved on to another's context never     *)
(* returns to the one before (Context::inst, Socket::connect).              *)
ContextSettles ==
  /\ Cardinality(ctx) <= Cardinality(Thread)
  /\ \A t \in Thread :
       /\ \A k \in DOMAIN sockets[t] : sockets[t][k] \in ctx
       /\ \A i, j, k \in DOMAIN sockets[t] :
            i < j /\ j < k /\ sockets[t][i] = sockets[t][k] => sockets[t][j] = sockets[t][k]
=============================================================================
