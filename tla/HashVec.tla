------------------------------ MODULE HashVec ------------------------------
(***************************************************************************)
(* hash_vec of inc/curve.h, by which get_latest and SetReconsiler::check   *)
(* identify a set of hashes: pairs are hashed level by level, the last     *)
(* element of an odd level with itself.  The callers hand it the elements  *)
(* of a set in increasing order, all of them strings of a hash's length.   *)
(* hash_twin is the hash of two of them one after the other, taken to be   *)
(* free of collisions, so its value is the pair.  Nothing tells a hash it  *)
(* made from an element: raw may give an element such a pair for a string. *)
(* Two calls run side by side, for their results to be compared.           *)
(***************************************************************************)
EXTENDS Integers, Sequences, FiniteSets, SequencesExt

CONSTANTS
  Element,  \* the hashes, in the order of Bytes ...
  raw       \* ... and the string that each of them is

HashVecAssumption ==
  /\ Element \subseteq Nat /\ IsFiniteSet(Element)
  /\ \A e, f \in Element : raw[e] = raw[f] => e = f

Call == {1, 2}

VARIABLES
  hash_set,  \* the argument of each call
  hashes,    \* its current level
  inner,     \* history: the hashes it has made
  pc

vars == <<hash_set, hashes, inner, pc>>

(* The elements of a set in increasing order. *)
Sorted ==
  {s \in UNION {[1..n -> Element] : n \in 1..Cardinality(Element)} :
     \A j, k \in DOMAIN s : j < k => s[j] < s[k]}

hash_twin(l, r) == <<l, r>>

(* Mutant: the last element of an odd level is left out, unless it is the   *)
(* only one.                                                                *)
PairsDropLast(s) ==
  IF Len(s) = 1 THEN <<hash_twin(s[1], s[1])>>
                ELSE [k \in 1..(Len(s) \div 2) |-> hash_twin(s[2 * k - 1], s[2 * k])]

(* One level: every second element with the next one, or with itself. *)
Pairs(s) ==
  [k \in 1..((Len(s) + 1) \div 2) |->
    hash_twin(s[2 * k - 1], IF 2 * k <= Len(s) THEN s[2 * k] ELSE s[2 * k - 1])]

Init ==
  /\ hash_set \in [Call -> Sorted]
  /\ hashes = [c \in Call |-> <<>>]
  /\ inner = [c \in Call |-> {}]
  /\ pc = [c \in Call |-> "start"]

(* The level of a call and what it has made are now these. *)
Level(c, s) ==
  /\ hashes' = [hashes EXCEPT ![c] = s]
  /\ inner' = [inner EXCEPT ![c] = @ \cup ToSet(s)]

(* The strings behind the pointers that were passed. *)
StringsOf(s) == [k \in DOMAIN s |-> raw[s[k]]]

(* The first loop, over the pointers. *)
FirstLevel(c) ==
  /\ pc[c] = "start"
  /\ Level(c, Pairs(StringsOf(hash_set[c])))
  /\ pc' = [pc EXCEPT ![c] = "loop"]
  /\ UNCHANGED hash_set

(* while (hashes.size() > 1). *)
NextLevel(c) ==
  /\ pc[c] = "loop"
  /\ Len(hashes[c]) > 1
  /\ Level(c, Pairs(hashes[c]))
  /\ UNCHANGED <<hash_set, pc>>

Return(c) ==
  /\ pc[c] = "loop"
  /\ Len(hashes[c]) <= 1
  /\ pc' = [pc EXCEPT ![c] = "done"]
  /\ UNCHANGED <<hash_set, hashes, inner>>

Next == \E c \in Call : FirstLevel(c) \/ NextLevel(c) \/ Return(c)

Spec == Init /\ [][Next]_vars
-----------------------------------------------------------------------------
(* The elements of a set are hashes made while the other set was hashed. *)
MadeBy(c, d) == \A e \in ToSet(hash_set[c]) : raw[e] \in inner[d]

(* Two sets with the same hash are the same set, although an odd element is *)
(* hashed with itself and whatever their sizes, with one exception: the one *)
(* consists of hashes that hash_vec makes of the other, which get_latest    *)
(* and SetReconsiler::check cannot tell, as nothing in hash_twin marks a    *)
(* level.                                                                   *)
HashTells ==
  (\A c \in Call : pc[c] = "done") =>
    (hashes[1] = hashes[2] => hash_set[1] = hash_set[2] \/ MadeBy(1, 2) \/ MadeBy(2, 1))
=============================================================================
