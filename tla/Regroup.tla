------------------------------ MODULE Regroup ------------------------------
(***************************************************************************)
(* bytes_to_bech32 of inc/convert.h: the loop that regroups bytes into     *)
(* values of 5 bits, lowest bits first, before bech32_encode (vendored)    *)
(* turns them into characters and adds the checksum.                       *)
(***************************************************************************)
EXTENDS Powers, Integers, Sequences

CONSTANT Strings  \* the arguments b

RegroupAssumption == Strings \subseteq Seq(0..255)

VARIABLES
  pc,
  b,
  l, r,  \* bits taken, and bits taken after the current value
  n,     \* bits that are loaded and not taken
  last,  \* index of the last byte that is loaded
  enc5

vars == <<pc, b, l, r, n, last, enc5>>

Init ==
  /\ pc = "loop"
  /\ b \in Strings
  /\ l = 0
  /\ r = 5
  /\ n = IF b = <<>> THEN 0 ELSE b[1]
  /\ last = 0
  /\ enc5 = <<>>

(* Mutant: a byte is loaded more than once. *)
LoadsAgain == r \div 8 < Len(b)

(* A byte is loaded when the value reaches into it. *)
Loads == r \div 8 # last /\ r \div 8 < Len(b)

(* The shift of a loaded byte.  size_t wraps: 5 - r % 8 must not go below 0. *)
Shift == 5 - (r % 8)

Take ==
  /\ pc = "loop"
  /\ l \div 8 < Len(b)
  /\ LET n5 == IF Loads THEN n + b[(r \div 8) + 1] * Power(Shift) ELSE n
     IN  /\ enc5' = Append(enc5, n5 % 32)
         /\ n' = n5 \div 32
  /\ last' = IF Loads THEN r \div 8 ELSE last
  /\ l' = l + 5
  /\ r' = r + 5
  /\ UNCHANGED <<pc, b>>

(* Mutant: a value that ends past the last byte is not made. *)
StopEarly ==
  /\ pc = "loop"
  /\ r \div 8 >= Len(b)
  /\ pc' = "done"
  /\ UNCHANGED <<b, l, r, n, last, enc5>>

(* An empty b returns before the loop, with the same empty enc5. *)
Stop ==
  /\ pc = "loop"
  /\ l \div 8 >= Len(b)
  /\ pc' = "done"
  /\ UNCHANGED <<b, l, r, n, last, enc5>>

Next == Take \/ Stop

Spec == Init /\ [][Next]_vars
-----------------------------------------------------------------------------
(* A byte is never loaded with a negative shift, which size_t would wrap,   *)
(* and none is passed over (bytes_to_bech32).                               *)
LoadsInOrder ==
  Loads /\ l \div 8 < Len(b) => Shift >= 0 /\ r \div 8 = last + 1

(* Bit q of a sequence of numbers of w bits each. *)
Bit(s, w, q) == (s[(q \div w) + 1] \div Power(q % w)) % 2

(* The values have 5 bits, as bech32_encode demands, and hold the bits of b *)
(* in order, the last one filled up with zeros (bytes_to_bech32).           *)
BitsKept ==
  pc = "done" =>
    /\ Len(enc5) = (8 * Len(b) + 4) \div 5
    /\ \A q \in 0..(5 * Len(enc5) - 1) :
         Bit(enc5, 5, q) = IF q < 8 * Len(b) THEN Bit(b, 8, q) ELSE 0
    /\ \A i \in DOMAIN enc5 : enc5[i] \in 0..31
=============================================================================
