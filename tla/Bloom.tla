------------------------------- MODULE Bloom -------------------------------
(***************************************************************************)
(* struct Bloom of inc/bloom_filter.h, with its way over the wire: serve   *)
(* sends bytes(), P and the key, and the receiver builds its copy from     *)
(* them.  A byte is the set of its bits that are on.  The slot of an       *)
(* element under the filter's key is arbitrary (ShortHash, to_uint).       *)
(***************************************************************************)
EXTENDS Integers

CONSTANTS
  Element,  \* strings that are put into the filter or looked up
  Sizes,    \* values of P
  None      \* no copy

(* The program uses P = 4999, which is no multiple of 8. *)
BloomAssumption == Sizes \subseteq {p \in Nat : p % 8 # 0}

VARIABLES
  P,
  slot,   \* hash(b), for the key of this filter
  hits,   \* indices that are on
  n_on,   \* how many
  added,  \* history: elements added since the last reset
  sent,   \* history: those of the filter that was sent
  copy    \* hits of the filter the receiver built

vars == <<P, slot, hits, n_on, added, sent, copy>>

Init ==
  /\ P \in Sizes
  /\ slot \in [Element -> 0..(P - 1)]
  /\ hits = {}
  /\ n_on = 0
  /\ added = {}
  /\ sent = {}
  /\ copy = None

(* set(b), and has_set(b) for its effect. *)
Set(b) ==
  /\ hits' = hits \cup {slot[b]}
  /\ n_on' = n_on + (IF slot[b] \in hits THEN 0 ELSE 1)
  /\ added' = added \cup {b}
  /\ UNCHANGED <<P, slot, sent, copy>>

reset ==
  /\ hits' = {}
  /\ n_on' = 0
  /\ added' = {}
  /\ UNCHANGED <<P, slot, sent, copy>>

(* bytes(): bits go in from the right as the others move left; the last     *)
(* byte is then moved by 8 - n, n the number of bits in it, which empties   *)
(* it when that is 0.                                                       *)
bytes ==
  LET size == (P + 7) \div 8
      n    == P % 8
      in(k) == IF k < P \div 8 THEN 8 ELSE n
  IN  [k \in 0..(size - 1) |->
        {bit \in 0..7 :
          \E i \in hits :
            /\ i \div 8 = k
            /\ bit = (in(k) - 1) - (i % 8) + (IF k = size - 1 THEN 8 - n ELSE 0)}]

(* Mutant: bits are looked up from the right. *)
FromBytesReversed(data) == {i \in 0..(P - 1) : (i % 8) \in data[i \div 8]}

(* Bloom(data, p, key). *)
FromBytes(data) == {i \in 0..(P - 1) : 7 - (i % 8) \in data[i \div 8]}

Send ==
  /\ copy' = FromBytes(bytes)
  /\ sent' = added
  /\ UNCHANGED <<P, slot, hits, n_on, added>>

Next == (\E b \in Element : Set(b)) \/ reset \/ Send

Spec == Init /\ [][Next]_vars
-----------------------------------------------------------------------------
(* has() on a copy that came over the wire never denies an element that was *)
(* added before it was sent, and affirms another only if it collides with   *)
(* one that was (bytes and the constructor from data).                      *)
CopyAgrees ==
  copy # None =>
    \A b \in Element : slot[b] \in copy <=> \E c \in sent : slot[c] = slot[b]
=============================================================================
