------------------------------ MODULE Overlay ------------------------------
(***************************************************************************)
(* What the network of bin/p2p.cc promises, without threads, queues and    *)
(* messages: processes know addresses and hear texts, and both travel      *)
(* along the relation "knows" only.                                        *)
(***************************************************************************)
CONSTANTS
  Node,   \* running processes
  Text,   \* lines users may type
  Bad,    \* a text that is not an address
  Seeds   \* what each process knows from its command line

VARIABLES
  known,  \* the addresses each process knows
  said,   \* the texts each process's user has typed
  heard   \* the texts each process has received

vars == <<known, said, heard>>

Init ==
  /\ known = Seeds
  /\ said = [n \in Node |-> {}]
  /\ heard = [n \in Node |-> {}]

(* n introduces itself to m, which n knows. *)
Greet(n, m) ==
  /\ m \in known[n]
  /\ known' = [known EXCEPT ![m] = @ \cup {n}]
  /\ UNCHANGED <<said, heard>>

(* n learns from m, which n knows: nothing m does not know, except that the *)
(* answer may be garbled, and nothing is forgotten.                         *)
Learn(n, m) ==
  /\ m \in known[n]
  /\ \E S \in SUBSET (known[m] \cup {Bad}) : known' = [known EXCEPT ![n] = @ \cup S]
  /\ UNCHANGED <<said, heard>>

Say(n, t) ==
  /\ said' = [said EXCEPT ![n] = @ \cup {t}]
  /\ UNCHANGED <<known, heard>>

(* n hears a text from m, which knows n and has said or heard it. *)
Hear(n, m) ==
  /\ n \in known[m]
  /\ \E t \in said[m] \cup heard[m] : heard' = [heard EXCEPT ![n] = @ \cup {t}]
  /\ UNCHANGED <<known, said>>

Next ==
  \/ \E n, m \in Node : Greet(n, m) \/ Learn(n, m) \/ Hear(n, m)
  \/ \E n \in Node, t \in Text : Say(n, t)

Spec == Init /\ [][Next]_vars
=============================================================================
