----------------------------- MODULE Parts_proofs -----------------------------
(***************************************************************************)
(* The smaller parts: how the regrouping for bech32 loads its bytes and    *)
(* keeps their bits, the Bloom filter on its way over the wire, the        *)
(* password tools, the race for the ZeroMQ context, the hash of a set, the *)
(* reconciliation of two sets by such hashes, the outside address read     *)
(* from the kernel's answers and the words that stand for a key.  Each has *)
(* its own invariant, over the state variables in the order in which Parts *)
(* lists that part's.                                                      *)
(***************************************************************************)
EXTENDS Pool_proofs, Integers, FiniteSetTheorems, SequenceTheorems, TLAPS

-----------------------------------------------------------------------------
(* bytes_to_bech32: pc, b, l, r, n, last and enc5 are s1 to s7. *)

(* While there is a value to take, the last byte loaded is the one that the *)
(* value begins in.                                                         *)
RegroupInv ==
  /\ s3 \in Nat
  /\ s4 = s3 + 5
  /\ Len(s2) \in Nat
  /\ s3 \div 8 < Len(s2) => s6 = s3 \div 8

(* A byte is loaded when the next value ends behind it, and not earlier.   *)
LEMMA RegroupStep == RegroupInv /\ (R!Next \/ UNCHANGED <<s1, s2, s3, s4, s5, s6, s7>>) => RegroupInv'
<1> SUFFICES ASSUME RegroupInv, R!Next \/ UNCHANGED <<s1, s2, s3, s4, s5, s6, s7>> PROVE RegroupInv'
  OBVIOUS
<1>1. CASE R!Take
  <2>1. /\ s3 \div 8 < Len(s2) /\ s3' = s3 + 5 /\ s4' = s4 + 5 /\ s2' = s2
        /\ s6' = IF s4 \div 8 # s6 /\ s4 \div 8 < Len(s2) THEN s4 \div 8 ELSE s6
    BY <1>1 DEF R!Take, R!Loads
  <2> QED BY <2>1 DEF RegroupInv
<1>2. CASE R!Stop \/ UNCHANGED <<s1, s2, s3, s4, s5, s6, s7>>
  <2>1. UNCHANGED <<s2, s3, s4, s6>>
    BY <1>2 DEF R!Stop
  <2> QED BY <2>1 DEF RegroupInv
<1> QED BY <1>1, <1>2 DEF R!Next

(* bytes_to_bech32 loads every byte in order and once, and never shifts by *)
(* a negative number, for any bytes.                                       *)
THEOREM BytesLoadInOrder == Spec => []LoadsInOrder
<1>1. Init => (part = "bech32" => RegroupInv)
  <2> SUFFICES ASSUME Init, part = "bech32" PROVE RegroupInv
    OBVIOUS
  <2>1. R!Init
    BY DEF Init
  <2>2. s2 \in Seq(0..255) /\ s3 = 0 /\ s4 = 5 /\ s6 = 0
    BY <2>1, PartsAssumption DEF R!Init, R!RegroupAssumption
  <2> QED BY <2>2 DEF RegroupInv
<1>2. (part = "bech32" => RegroupInv) /\ [Next]_vars => (part = "bech32" => RegroupInv)'
  <2>1. [Next]_vars => UNCHANGED part
    BY DEF Next, vars
  <2>2. part = "bech32" /\ [Next]_vars => R!Next \/ UNCHANGED <<s1, s2, s3, s4, s5, s6, s7>>
    BY DEF Next, vars
  <2> QED BY <2>1, <2>2, RegroupStep
<1>3. (part = "bech32" => RegroupInv) => LoadsInOrder
  BY DEF RegroupInv, LoadsInOrder, R!LoadsInOrder, R!Loads, R!Shift
<1> QED BY <1>1, <1>2, <1>3, PTL DEF Spec

-----------------------------------------------------------------------------
(* The Bloom filter: P, slot, hits, n_on, added, sent and copy are s1 to s7. *)

(* What is on are the slots of what was added. *)
Slots(X) == {s2[b] : b \in X}

BloomInv ==
  /\ s1 \in Nat /\ s1 % 8 # 0
  /\ s2 \in [BloomElement -> 0..(s1 - 1)]
  /\ s5 \subseteq BloomElement
  /\ s3 = Slots(s5)
  /\ s6 \subseteq BloomElement
  /\ s7 # None => s7 = Slots(s6)

(* Every bit comes out at the index where it went in: bytes() shifts the   *)
(* last byte up by what it lacks, and P has a last byte that lacks some.   *)
LEMMA WireKeepsBits == BloomInv => B!FromBytes(B!bytes) = s3
<1> SUFFICES ASSUME BloomInv PROVE B!FromBytes(B!bytes) = s3
  OBVIOUS
<1> DEFINE size == (s1 + 7) \div 8
           n == s1 % 8
           in(k) == IF k < s1 \div 8 THEN 8 ELSE n
           put(i, k) == (in(k) - 1) - (i % 8) + (IF k = size - 1 THEN 8 - n ELSE 0)
<1>0. s1 \in Nat /\ n # 0 /\ n \in 0..7 /\ s3 \subseteq 0..(s1 - 1)
  BY DEF BloomInv, Slots
<1>1. size = s1 \div 8 + 1 /\ s1 = 8 * (s1 \div 8) + n
  BY <1>0
<1>2. ASSUME NEW i \in 0..(s1 - 1), NEW j \in 0..(s1 - 1)
      PROVE  /\ i \div 8 \in 0..(size - 1) /\ 7 - (i % 8) \in 0..7
             /\ j \div 8 = i \div 8 /\ 7 - (i % 8) = put(j, i \div 8) <=> i = j
  <2>1. /\ i = 8 * (i \div 8) + (i % 8) /\ i % 8 \in 0..7 /\ i \div 8 \in Nat
        /\ j = 8 * (j \div 8) + (j % 8) /\ j % 8 \in 0..7 /\ j \div 8 \in Nat
    BY <1>0
  <2>2. i \div 8 <= s1 \div 8
    BY <1>0, <1>1, <2>1
  <2>3. put(j, i \div 8) = 7 - (j % 8)
    BY <1>0, <1>1, <2>1, <2>2
  <2>4. i \div 8 \in 0..(size - 1)
    BY <1>0, <1>1, <2>1, <2>2
  <2>5. 7 - (i % 8) \in 0..7
    BY <2>1
  <2>6. j \div 8 = i \div 8 /\ 7 - (i % 8) = 7 - (j % 8) <=> i = j
    BY <2>1
  <2> QED BY <2>3, <2>4, <2>5, <2>6
<1>3. B!bytes = [k \in 0..(size - 1) |-> {bit \in 0..7 : \E i \in s3 : i \div 8 = k /\ bit = put(i, k)}]
  BY DEF B!bytes
<1>4. \A i \in 0..(s1 - 1) : 7 - (i % 8) \in B!bytes[i \div 8] <=> i \in s3
  BY <1>0, <1>2, <1>3
<1> QED BY <1>0, <1>4 DEF B!FromBytes

(* Elements are added, all are removed, or the filter is sent. *)
LEMMA BloomStep == BloomInv /\ (B!Next \/ UNCHANGED <<s1, s2, s3, s4, s5, s6, s7>>) => BloomInv'
<1> SUFFICES ASSUME BloomInv, B!Next \/ UNCHANGED <<s1, s2, s3, s4, s5, s6, s7>> PROVE BloomInv'
  OBVIOUS
<1>1. ASSUME NEW b \in BloomElement, B!Set(b) PROVE BloomInv'
  <2>1. s3' = s3 \cup {s2[b]} /\ s5' = s5 \cup {b} /\ UNCHANGED <<s1, s2, s6, s7>>
    BY <1>1 DEF B!Set
  <2>2. Slots(s5 \cup {b}) = Slots(s5) \cup {s2[b]}
    BY DEF Slots
  <2>3. \A X : Slots(X)' = Slots(X)
    BY <2>1 DEF Slots
  <2> QED BY <2>1, <2>2, <2>3 DEF BloomInv, Slots
<1>2. CASE B!reset
  BY <1>2 DEF B!reset, BloomInv, Slots
<1>3. CASE B!Send
  <2>1. s7' = s3 /\ s6' = s5 /\ UNCHANGED <<s1, s2, s3, s5>>
    BY <1>3, WireKeepsBits DEF B!Send
  <2> QED BY <2>1 DEF BloomInv, Slots
<1>4. CASE UNCHANGED <<s1, s2, s3, s4, s5, s6, s7>>
  BY <1>4 DEF BloomInv, Slots
<1> QED BY <1>1, <1>2, <1>3, <1>4 DEF B!Next

(* A filter that came over the wire affirms what was added before it was   *)
(* sent and what collides with that, and nothing else.                     *)
THEOREM CopiesAgree == Spec => []CopyAgrees
<1>1. Init => (part = "bloom" => BloomInv)
  <2> SUFFICES ASSUME Init, part = "bloom" PROVE BloomInv
    OBVIOUS
  <2>1. B!Init
    BY DEF Init
  <2> QED BY <2>1, PartsAssumption DEF B!Init, B!BloomAssumption, BloomInv, Slots
<1>2. (part = "bloom" => BloomInv) /\ [Next]_vars => (part = "bloom" => BloomInv)'
  <2>1. [Next]_vars => UNCHANGED part
    BY DEF Next, vars
  <2>2. part = "bloom" /\ [Next]_vars => B!Next \/ UNCHANGED <<s1, s2, s3, s4, s5, s6, s7>>
    BY DEF Next, vars
  <2> QED BY <2>1, <2>2, BloomStep
<1>3. (part = "bloom" => BloomInv) => CopyAgrees
  BY DEF BloomInv, Slots, CopyAgrees, B!CopyAgrees
<1> QED BY <1>1, <1>2, <1>3, PTL DEF Spec

-----------------------------------------------------------------------------
(* The password tools: note, given and shown are s1 to s3. *)

(* A list of n bytes. *)
IsBytes(x, n) == n \in Nat /\ x \in [1..n -> S!Byte]

(* A function of the first numbers is a sequence.                          *)
LEMMA LenIs == ASSUME NEW n \in Nat, NEW V, NEW f \in [1..n -> V] PROVE f \in Seq(V) /\ Len(f) = n
<1>1. f \in UNION {[1..m -> V] : m \in Nat}
  OBVIOUS
<1>2. Seq(V) = UNION {[1..m -> V] : m \in Nat}
  BY SeqDef
<1>3. f \in Seq(V)
  BY <1>1, <1>2, Zenon
<1>4. Len(f) \in Nat /\ DOMAIN f = 1..Len(f) /\ DOMAIN f = 1..n
  BY <1>3, LenProperties
<1> QED BY <1>3, <1>4

(* What was masked with a pad comes out when it is masked again.           *)
LEMMA XorTwice ==
  ASSUME NEW n, NEW b, NEW c, IsBytes(b, n), IsBytes(c, n)
  PROVE  IsBytes(S!x_or(b, c), n) /\ S!x_or(S!x_or(b, c), c) = b
<1>1. n \in Nat /\ b \in [1..n -> S!Byte] /\ c \in [1..n -> S!Byte]
  BY DEF IsBytes
<1>2. S!x_or(b, c) \in [1..n -> S!Byte]
  BY <1>1 DEF S!x_or, S!Byte
<1>3. \A i \in 1..n : S!x_or(b, c)[i] = (b[i] \ c[i]) \cup (c[i] \ b[i])
  BY <1>1 DEF S!x_or
<1>4. S!x_or(S!x_or(b, c), c) =
        [i \in 1..n |-> (S!x_or(b, c)[i] \ c[i]) \cup (c[i] \ S!x_or(b, c)[i])]
  BY <1>1, <1>2 DEF S!x_or
<1>5. \A i \in 1..n : (S!x_or(b, c)[i] \ c[i]) \cup (c[i] \ S!x_or(b, c)[i]) = b[i]
  BY <1>3
<1>6. S!x_or(S!x_or(b, c), c) = b
  BY <1>1, <1>4, <1>5
<1> QED BY <1>1, <1>2, <1>6 DEF IsBytes

(* Each byte is read back from its two digits. *)
LEMMA HexBack ==
  ASSUME NEW n, NEW b, IsBytes(b, n)
  PROVE  /\ S!ToHex(b) \in [1..(2 * n) -> S!Digit] /\ Len(S!ToHex(b)) = 2 * n
         /\ S!from_hex(S!ToHex(b)) = b
<1>1. n \in Nat /\ b \in [1..n -> S!Byte] /\ Len(b) = n
  BY LenIs DEF IsBytes
<1>2. S!ToHex(b) = [i \in 1..(2 * n) |->
        IF i % 2 = 1 THEN {x - 4 : x \in b[(i + 1) \div 2] \cap (4..7)} ELSE b[(i + 1) \div 2] \cap (0..3)]
  BY <1>1 DEF S!ToHex
<1>3. \A i \in 1..(2 * n) :
        (IF i % 2 = 1 THEN {x - 4 : x \in b[(i + 1) \div 2] \cap (4..7)} ELSE b[(i + 1) \div 2] \cap (0..3))
          \in S!Digit
  <2> TAKE i \in 1..(2 * n)
  <2>1. {x - 4 : x \in b[(i + 1) \div 2] \cap (4..7)} \subseteq 0..3
    OBVIOUS
  <2> QED BY <2>1 DEF S!Digit
<1>4. S!ToHex(b) \in [1..(2 * n) -> S!Digit]
  BY <1>2, <1>3
<1>5. Len(S!ToHex(b)) = 2 * n
  BY <1>1, <1>4, LenIs
<1>6. ASSUME NEW i \in 1..n
      PROVE  {x + 4 : x \in S!ToHex(b)[2 * i - 1]} \cup S!ToHex(b)[2 * i] = b[i]
  <2>1. /\ 2 * i - 1 \in 1..(2 * n) /\ 2 * i \in 1..(2 * n) /\ (2 * i - 1) % 2 = 1 /\ (2 * i) % 2 # 1
        /\ ((2 * i - 1) + 1) \div 2 = i /\ (2 * i + 1) \div 2 = i
    BY <1>1
  <2>2. S!ToHex(b)[2 * i - 1] = {x - 4 : x \in b[i] \cap (4..7)} /\ S!ToHex(b)[2 * i] = b[i] \cap (0..3)
    BY <1>2, <2>1
  <2>3. b[i] \subseteq 0..7
    BY <1>1 DEF S!Byte
  <2>4. {x + 4 : x \in {y - 4 : y \in b[i] \cap (4..7)}} = b[i] \cap (4..7)
    <3>1. \A y \in b[i] \cap (4..7) : (y - 4) + 4 = y
      BY <2>3
    <3> QED BY <3>1
  <2> QED BY <2>2, <2>3, <2>4
<1>7. S!from_hex(S!ToHex(b)) = [i \in 1..n |-> {x + 4 : x \in S!ToHex(b)[2 * i - 1]} \cup S!ToHex(b)[2 * i]]
  <2>1. (2 * n) \div 2 = n
    BY <1>1
  <2> QED BY <1>5, <2>1 DEF S!from_hex
<1> QED BY <1>1, <1>4, <1>5, <1>6, <1>7

(* What enc and dec do to the bytes m: masked, written, read and masked     *)
(* again they are as many, and with the same password and salt the same.    *)
LEMMA MaskedBack ==
  ASSUME NEW n, NEW m, IsBytes(m, n), NEW pad, IsBytes(pad, n), NEW other, IsBytes(other, n)
  PROVE  LET c == S!from_hex(S!ToHex(S!x_or(m, pad)))
         IN  /\ Len(c) = n
             /\ IsBytes(S!x_or(c, other), n)
             /\ S!x_or(c, pad) = m
<1>1. IsBytes(S!x_or(m, pad), n) /\ S!x_or(S!x_or(m, pad), pad) = m
  BY XorTwice
<1>2. S!from_hex(S!ToHex(S!x_or(m, pad))) = S!x_or(m, pad)
  BY <1>1, HexBack
<1>3. IsBytes(S!x_or(S!x_or(m, pad), other), n)
  BY <1>1, XorTwice
<1>4. Len(S!x_or(m, pad)) = n
  BY <1>1, LenIs DEF IsBytes
<1> QED BY <1>1, <1>2, <1>3, <1>4

(* A sequence of sets is a function of its indices. *)
LEMMA SeqIs == ASSUME NEW V, NEW x \in Seq(V) PROVE Len(x) \in Nat /\ x \in [1..Len(x) -> V]
  BY LenProperties

(* The digits d are read as bytes, an odd last one is lost, and printed.   *)
LEMMA DigitsBack ==
  ASSUME NEW d \in Seq(S!Digit)
  PROVE  LET n == Len(d) \div 2
         IN  /\ IsBytes(S!from_hex(d), n) /\ Len(S!from_hex(d)) = n
             /\ S!ToHex(S!from_hex(d)) = SubSeq(d, 1, 2 * n)
<1> DEFINE n == Len(d) \div 2
           b == S!from_hex(d)
<1>1. Len(d) \in Nat /\ d \in [1..Len(d) -> S!Digit] /\ n \in Nat /\ 2 * n <= Len(d)
  BY SeqIs
<1>2. b = [i \in 1..n |-> {x + 4 : x \in d[2 * i - 1]} \cup d[2 * i]]
  BY DEF S!from_hex
<1>3. ASSUME NEW i \in 1..n
      PROVE  /\ {x + 4 : x \in d[2 * i - 1]} \cup d[2 * i] \in S!Byte
             /\ {x - 4 : x \in b[i] \cap (4..7)} = d[2 * i - 1]
             /\ b[i] \cap (0..3) = d[2 * i]
  <2>1. 2 * i - 1 \in 1..Len(d) /\ 2 * i \in 1..Len(d)
    BY <1>1
  <2>2. d[2 * i - 1] \subseteq 0..3 /\ d[2 * i] \subseteq 0..3
    BY <1>1, <2>1 DEF S!Digit
  <2>3. b[i] = {x + 4 : x \in d[2 * i - 1]} \cup d[2 * i]
    BY <1>2
  <2> HIDE DEF b, n
  <2>4. {x + 4 : x \in d[2 * i - 1]} \subseteq 4..7
    BY <2>2
  <2>5. {x + 4 : x \in d[2 * i - 1]} \cup d[2 * i] \subseteq 0..7
    BY <2>2, <2>4
  <2>6. b[i] \cap (4..7) = {x + 4 : x \in d[2 * i - 1]} /\ b[i] \cap (0..3) = d[2 * i]
    BY <2>2, <2>3, <2>4
  <2>7. {x - 4 : x \in {y + 4 : y \in d[2 * i - 1]}} = d[2 * i - 1]
    <3>1. \A y \in d[2 * i - 1] : (y + 4) - 4 = y
      BY <2>2
    <3> QED BY <3>1
  <2> QED BY <2>5, <2>6, <2>7 DEF S!Byte
<1>4. b \in [1..n -> S!Byte]
  BY <1>2, <1>3
<1>5. Len(b) = n
  BY <1>1, <1>4, LenIs
<1> HIDE DEF b
<1>6. S!ToHex(b) = [i \in 1..(2 * n) |->
        IF i % 2 = 1 THEN {x - 4 : x \in b[(i + 1) \div 2] \cap (4..7)} ELSE b[(i + 1) \div 2] \cap (0..3)]
  BY <1>5 DEF S!ToHex
<1>7. SubSeq(d, 1, 2 * n) = [i \in 1..(2 * n) |-> d[i]]
  BY <1>1, SubSeqProperties
<1>8. ASSUME NEW i \in 1..(2 * n)
      PROVE  (IF i % 2 = 1 THEN {x - 4 : x \in b[(i + 1) \div 2] \cap (4..7)} ELSE b[(i + 1) \div 2] \cap (0..3))
                = d[i]
  <2> DEFINE j == (i + 1) \div 2
  <2>1. j \in 1..n /\ (i % 2 = 1 => i = 2 * j - 1) /\ (i % 2 # 1 => i = 2 * j)
    BY <1>1
  <2> HIDE DEF j
  <2>2. {x - 4 : x \in b[j] \cap (4..7)} = d[2 * j - 1] /\ b[j] \cap (0..3) = d[2 * j]
    BY <1>3, <2>1
  <2> QED BY <2>1, <2>2 DEF j
<1>9. S!ToHex(b) = SubSeq(d, 1, 2 * n)
  BY <1>6, <1>7, <1>8
<1> QED BY <1>1, <1>4, <1>5, <1>9 DEF IsBytes, b

(* The notes that the three encoding tools print, of whom. *)
EncNote(m, p, s) ==
  /\ s1 = [key |-> <<>>, text |-> S!ToHex(S!x_or(m, PadOf(p, s, Len(m)))), salt |-> s]
  /\ s2 = [tool |-> "enc", msg |-> m, pass |-> p]

HexNote(d, p, s) ==
  LET m == S!from_hex(d)
  IN  /\ s1 = [key |-> <<>>, text |-> S!ToHex(S!x_or(m, PadOf(p, s, Len(m)))), salt |-> s]
      /\ s2 = [tool |-> "hexenc", msg |-> d, pass |-> p]

FullNote(m, p, s) ==
  /\ s1 = [key |-> <<p, s>>, text |-> m, salt |-> s]
  /\ s2 = [tool |-> "fullenc", msg |-> m, pass |-> p]

SecretsInv ==
  /\ s1 # None =>
       \E p \in Pass, s \in Salt :
         \/ \E m \in Text : EncNote(m, p, s) \/ FullNote(m, p, s)
         \/ \E d \in HexText : HexNote(d, p, s)
  /\ s3 # None => s1 # None
  /\ S!Recovered

(* A text and the pads for it are bytes. *)
LEMMA TextIs ==
  ASSUME NEW m \in Text
  PROVE  /\ m \in Seq(S!Byte) /\ IsBytes(m, Len(m)) /\ SubSeq(m, 1, Len(m)) = m
         /\ \A p \in Pass, s \in Salt : IsBytes(PadOf(p, s, Len(m)), Len(m))
<1>1. m \in Seq(S!Byte) /\ \A p \in Pass, s \in Salt : PadOf(p, s, Len(m)) \in [1..Len(m) -> S!Byte]
  BY PartsAssumption DEF S!SecretsAssumption
<1>2. Len(m) \in Nat /\ m \in [1..Len(m) -> S!Byte]
  BY <1>1, SeqIs
<1>3. SubSeq(m, 1, Len(m)) = m
  BY <1>1
<1> QED BY <1>1, <1>2, <1>3 DEF IsBytes

(* What the pads of a message of digits look like. *)
LEMMA HexTextIs ==
  ASSUME NEW d \in HexText
  PROVE  /\ d \in Seq(S!Digit) /\ Len(d) \div 2 \in Nat
         /\ \A p \in Pass, s \in Salt : IsBytes(PadOf(p, s, Len(d) \div 2), Len(d) \div 2)
<1>1. /\ d \in Seq(S!Digit)
      /\ \A p \in Pass, s \in Salt : PadOf(p, s, Len(d) \div 2) \in [1..(Len(d) \div 2) -> S!Byte]
  BY PartsAssumption DEF S!SecretsAssumption
<1>2. Len(d) \div 2 \in Nat
  BY <1>1
<1> QED BY <1>1, <1>2 DEF IsBytes

(* A tool that encodes prints a note, once. *)
LEMMA NotePrinted ==
  ASSUME SecretsInv, NEW p \in Pass, NEW s \in Salt,
         \/ \E m \in Text : S!Enc(m, p, s) \/ S!FullEnc(m, p, s)
         \/ \E d \in HexText : S!HexEnc(d, p, s)
  PROVE  SecretsInv'
<1>1. s1 = None /\ s3' = s3
  BY DEF S!Enc, S!FullEnc, S!HexEnc, S!Prints
<1>2. s3' = None
  BY <1>1 DEF SecretsInv
<1>3. \/ \E m \in Text : EncNote(m, p, s)' \/ FullNote(m, p, s)'
      \/ \E d \in HexText : HexNote(d, p, s)'
  BY DEF S!Enc, S!FullEnc, S!HexEnc, S!Prints, EncNote, FullNote, HexNote
<1>4. S!Recovered'
  BY <1>2 DEF S!Recovered
<1> QED BY <1>2, <1>3, <1>4 DEF SecretsInv

(* What a decoding tool shows of a note, with password q and salt t. *)
LEMMA NoteShown ==
  ASSUME SecretsInv, NEW q \in Pass, NEW t \in Salt,
         S!Dec(q, t) \/ S!HexDec(q, t) \/ S!FullDec(q, t)
  PROVE  SecretsInv'
<1>1. s1 # None /\ s1' = s1 /\ s2' = s2 /\ s3' = [out |-> s3'.out, pass |-> q, salt |-> t]
  BY DEF S!Dec, S!HexDec, S!FullDec, S!Shows
<1>2. PICK p \in Pass, s \in Salt :
         \/ \E m \in Text : EncNote(m, p, s) \/ FullNote(m, p, s)
         \/ \E d \in HexText : HexNote(d, p, s)
  BY <1>1 DEF SecretsInv
<1> DEFINE n == IF s2.tool = "hexenc" THEN 2 * (Len(s2.msg) \div 2) ELSE Len(s2.msg)
           Good == Len(s3'.out) = n /\ (q = s2.pass /\ t = s1.salt => s3'.out = SubSeq(s2.msg, 1, n))
<1>3. ASSUME NEW m \in Text, EncNote(m, p, s) PROVE Good
  <2>1. /\ s2.tool = "enc" /\ s2.msg = m /\ s2.pass = p /\ s1.salt = s
        /\ s1.text = S!ToHex(S!x_or(m, PadOf(p, s, Len(m))))
    BY <1>3 DEF EncNote
  <2>2. s3'.out = S!Plain(q, t)
    BY <2>1 DEF S!Dec, S!HexDec, S!FullDec, S!Shows
  <2>3. /\ IsBytes(m, Len(m)) /\ SubSeq(m, 1, Len(m)) = m
        /\ IsBytes(PadOf(p, s, Len(m)), Len(m)) /\ IsBytes(PadOf(q, t, Len(m)), Len(m))
    BY TextIs
  <2> DEFINE c == S!from_hex(S!ToHex(S!x_or(m, PadOf(p, s, Len(m)))))
  <2>4. /\ Len(c) = Len(m) /\ IsBytes(S!x_or(c, PadOf(q, t, Len(m))), Len(m))
        /\ S!x_or(c, PadOf(p, s, Len(m))) = m
    BY <2>3, MaskedBack
  <2>5. s3'.out = S!x_or(c, PadOf(q, t, Len(m)))
    BY <2>1, <2>2, <2>4 DEF S!Plain
  <2> HIDE DEF c
  <2>6. Len(s3'.out) = Len(m)
    BY <2>4, <2>5, LenIs DEF IsBytes
  <2> QED BY <2>1, <2>3, <2>4, <2>5, <2>6
<1>4. ASSUME NEW d \in HexText, HexNote(d, p, s) PROVE Good
  <2> DEFINE h == Len(d) \div 2
             m == S!from_hex(d)
             c == S!from_hex(S!ToHex(S!x_or(m, PadOf(p, s, h))))
  <2>1. /\ IsBytes(m, h) /\ Len(m) = h /\ S!ToHex(m) = SubSeq(d, 1, 2 * h)
        /\ IsBytes(PadOf(p, s, h), h) /\ IsBytes(PadOf(q, t, h), h)
    BY HexTextIs, DigitsBack
  <2>2. /\ s2.tool = "hexenc" /\ s2.msg = d /\ s2.pass = p /\ s1.salt = s
        /\ s1.text = S!ToHex(S!x_or(m, PadOf(p, s, h)))
    BY <1>4, <2>1 DEF HexNote
  <2>3. s3'.out = S!ToHex(S!Plain(q, t))
    BY <2>2 DEF S!Dec, S!HexDec, S!FullDec, S!Shows
  <2>4. /\ Len(c) = h /\ IsBytes(S!x_or(c, PadOf(q, t, h)), h)
        /\ S!x_or(c, PadOf(p, s, h)) = m
    BY <2>1, MaskedBack
  <2>5. S!Plain(q, t) = S!x_or(c, PadOf(q, t, h))
    BY <2>2, <2>4 DEF S!Plain
  <2> HIDE DEF c, m
  <2>6. Len(s3'.out) = 2 * h
    BY <2>3, <2>4, <2>5, HexBack
  <2> QED BY <2>1, <2>2, <2>3, <2>4, <2>5, <2>6
<1>5. ASSUME NEW m \in Text, FullNote(m, p, s) PROVE Good
  <2>1. s2.tool = "fullenc" /\ s2.msg = m /\ s2.pass = p /\ s1.salt = s /\ s1.text = m /\ s1.key = <<p, s>>
    BY <1>5 DEF FullNote
  <2>2. s3'.out = IF s1.key = <<q, t>> THEN s1.text ELSE [i \in DOMAIN s1.text |-> {}]
    BY <2>1 DEF S!Dec, S!HexDec, S!FullDec, S!Shows
  <2>3. IsBytes(m, Len(m)) /\ SubSeq(m, 1, Len(m)) = m
    BY TextIs
  <2>4. s3'.out \in [1..Len(m) -> S!Byte]
    BY <2>1, <2>2, <2>3 DEF IsBytes, S!Byte
  <2>5. Len(s3'.out) = Len(m)
    BY <2>3, <2>4, LenIs DEF IsBytes
  <2> QED BY <2>1, <2>2, <2>3, <2>5
<1>6. S!Recovered'
  <2>1. Good
    BY <1>2, <1>3, <1>4, <1>5
  <2>2. s3'.pass = q /\ s3'.salt = t
    BY <1>1
  <2> QED BY <1>1, <2>1, <2>2 DEF S!Recovered
<1> QED BY <1>1, <1>2, <1>6 DEF SecretsInv, EncNote, FullNote, HexNote

(* The decoding tools recover what was encoded, for every message,         *)
(* password, salt and pad, whatever the length.                            *)
THEOREM SecretsRecovered == Spec => []Recovered
<1>1. Init => (part = "secrets" => SecretsInv)
  BY DEF Init, S!Init, SecretsInv, S!Recovered
<1>2. (part = "secrets" => SecretsInv) /\ [Next]_vars => (part = "secrets" => SecretsInv)'
  <2>1. [Next]_vars => UNCHANGED part
    BY DEF Next, vars
  <2>2. part = "secrets" /\ [Next]_vars => S!Next \/ UNCHANGED <<s1, s2, s3>>
    BY DEF Next, vars
  <2>3. SecretsInv /\ UNCHANGED <<s1, s2, s3>> => SecretsInv'
    BY DEF SecretsInv, EncNote, FullNote, HexNote, S!Recovered
  <2>4. SecretsInv /\ S!Next => SecretsInv'
    BY NotePrinted, NoteShown DEF S!Next
  <2> QED BY <2>1, <2>2, <2>3, <2>4
<1>3. (part = "secrets" => SecretsInv) => Recovered
  BY DEF SecretsInv, Recovered
<1> QED BY <1>1, <1>2, <1>3, PTL DEF Spec
-----------------------------------------------------------------------------
(* The race for the context: Context::s, the contexts that are ready, where *)
(* each thread is, the context it makes and its sockets' are s1 to s5.      *)

Places == {"inst", "new", "store", "socket", "ended"}

(* Contexts are numbered in the order they are made. *)
CtxTypes ==
  /\ IsFiniteSet(s2) /\ s2 = 1..Cardinality(s2)
  /\ s1 = None \/ s1 \in s2
  /\ s3 \in [Thread -> Places]
  /\ s4 \in [Thread -> s2 \cup {None}]
  /\ s5 \in [Thread -> Seq(s2)]

(* Each context was made by one thread, and a thread makes one only.       *)
CtxMakers ==
  /\ s2 \subseteq {s4[t] : t \in Thread}
  /\ \A t, u \in Thread : s4[t] = s4[u] /\ s4[t] # None => t = u
  /\ \A t \in Thread :
       /\ s3[t] = "new" => s4[t] = None
       /\ s3[t] = "store" => s4[t] # None
       /\ s3[t] = "socket" => s1 # None
       /\ s3[t] = "inst" /\ s4[t] # None => s1 # None

(* A context that is not stored yet has no sockets. *)
CtxPending ==
  \A t \in Thread : s3[t] = "store" =>
    /\ s4[t] # s1
    /\ \A u \in Thread : \A k \in DOMAIN s5[u] : s5[u][k] # s4[t]

(* From a thread's first socket of the current context on, all are of it.  *)
CtxSuffix ==
  \A t \in Thread : \A j, k \in DOMAIN s5[t] : j < k /\ s5[t][j] = s1 => s5[t][k] = s1

CtxBlocks ==
  \A t \in Thread : \A i, j, k \in DOMAIN s5[t] :
    i < j /\ j < k /\ s5[t][i] = s5[t][k] => s5[t][j] = s5[t][k]

CtxInv == CtxTypes /\ CtxMakers /\ CtxPending /\ CtxSuffix /\ CtxBlocks

(* The instance counts as the module does. *)
LEMMA CtxCounts == \A X : K!Cardinality(X) = Cardinality(X)
BY DEF K!Cardinality, Cardinality

(* if (!Context::s): a thread that made a context saw it stored.           *)
LEMMA CtxLook == ASSUME CtxInv, NEW t \in Thread, K!Look(t) PROVE CtxInv'
<1>1. /\ s3' = [s3 EXCEPT ![t] = IF s1 = None THEN "new" ELSE "socket"] /\ s3[t] = "inst"
      /\ s1' = s1 /\ s2' = s2 /\ s4' = s4 /\ s5' = s5
  BY DEF K!Look
<1>2. CtxTypes'
  BY <1>1 DEF CtxInv, CtxTypes, Places
<1>3. CtxMakers'
  BY <1>1 DEF CtxInv, CtxTypes, CtxMakers
<1>4. CtxPending' /\ CtxSuffix' /\ CtxBlocks'
  BY <1>1 DEF CtxInv, CtxTypes, CtxPending, CtxSuffix, CtxBlocks
<1> QED BY <1>2, <1>3, <1>4 DEF CtxInv

(* zmq_ctx_new: the context is a new one. *)
LEMMA CtxMake == ASSUME CtxInv, NEW t \in Thread, K!Make(t) PROVE CtxInv'
<1>0. CtxTypes /\ CtxMakers /\ CtxPending /\ CtxSuffix /\ CtxBlocks
  BY DEF CtxInv
<1>1. CASE K!Throws /\ UNCHANGED <<s1, s2, s4, s5>>
  <2>1. s3' = [u \in Thread |-> "ended"] /\ s1' = s1 /\ s2' = s2 /\ s4' = s4 /\ s5' = s5
    BY <1>1 DEF K!Throws
  <2>2. CtxTypes'
    BY <1>0, <2>1 DEF CtxTypes, Places
  <2>3. CtxMakers'
    BY <1>0, <2>1 DEF CtxTypes, CtxMakers
  <2>4. CtxPending' /\ CtxSuffix' /\ CtxBlocks'
    BY <1>0, <2>1 DEF CtxPending, CtxSuffix, CtxBlocks
  <2> QED BY <2>2, <2>3, <2>4 DEF CtxInv
<1>2. CASE /\ s4' = [s4 EXCEPT ![t] = K!Fresh] /\ s2' = s2 \cup {K!Fresh}
           /\ s3' = [s3 EXCEPT ![t] = "store"] /\ UNCHANGED <<s1, s5>>
  <2> DEFINE c == Cardinality(s2) + 1
  <2>1. /\ s3[t] = "new" /\ s4' = [s4 EXCEPT ![t] = c] /\ s2' = s2 \cup {c}
        /\ s3' = [s3 EXCEPT ![t] = "store"] /\ s1' = s1 /\ s5' = s5
    BY <1>2, CtxCounts DEF K!Make, K!Fresh
  <2>2. Cardinality(s2) \in Nat
    BY <1>0, FS_CardinalityType DEF CtxTypes
  <2>3. c \notin s2 /\ s2' = 1..c /\ c \in Nat /\ c # None
    BY <1>0, <2>1, <2>2, PartsAssumption DEF CtxTypes, K!SocketsAssumption
  <2>4. IsFiniteSet(s2') /\ Cardinality(s2') = c
    BY <2>2, <2>3, FS_Interval
  <2> HIDE DEF c
  <2>5. s5' \in [Thread -> Seq(s2')]
    <3>1. \A v \in Seq(s2) : v \in Seq(s2')
      BY <2>1
    <3> QED BY <1>0, <2>1, <3>1 DEF CtxTypes
  <2>6. s3' \in [Thread -> Places] /\ s4' \in [Thread -> s2' \cup {None}]
    BY <1>0, <2>1 DEF CtxTypes, Places
  <2>7. CtxTypes'
    BY <1>0, <2>1, <2>3, <2>4, <2>5, <2>6 DEF CtxTypes
  <2>8. s4[t] = None /\ \A u \in Thread : s4[u] # c
    BY <1>0, <2>1, <2>3 DEF CtxTypes, CtxMakers
  <2>9. CtxMakers'
    <3>1. s2' \subseteq {s4'[u] : u \in Thread}
      <4> SUFFICES ASSUME NEW x \in s2' PROVE \E u \in Thread : s4'[u] = x
        OBVIOUS
      <4>1. CASE x = c
        BY <1>0, <2>1, <4>1 DEF CtxTypes
      <4>2. CASE x \in s2
        <5>0. None \notin s2
          BY <1>0, <2>2, PartsAssumption DEF CtxTypes, K!SocketsAssumption
        <5>1. PICK u \in Thread : s4[u] = x
          BY <1>0, <4>2 DEF CtxMakers
        <5>2. u # t
          BY <2>8, <4>2, <5>1, <5>0
        <5> QED BY <1>0, <2>1, <5>1, <5>2 DEF CtxTypes
      <4> QED BY <2>1, <4>1, <4>2
    <3>2. \A u, v \in Thread : s4'[u] = s4'[v] /\ s4'[u] # None => u = v
      BY <1>0, <2>1, <2>8 DEF CtxTypes, CtxMakers
    <3>3. \A u \in Thread :
            /\ s3'[u] = "new" => s4'[u] = None
            /\ s3'[u] = "store" => s4'[u] # None
            /\ s3'[u] = "socket" => s1' # None
            /\ s3'[u] = "inst" /\ s4'[u] # None => s1' # None
      BY <1>0, <2>1, <2>3 DEF CtxTypes, CtxMakers
    <3> QED BY <3>1, <3>2, <3>3 DEF CtxMakers
  <2>10. CtxPending'
    <3>1. s1 # c
      BY <1>0, <2>3 DEF CtxTypes
    <3>2. \A u \in Thread : \A k \in DOMAIN s5[u] : s5[u][k] \in s2
      BY <1>0, ElementOfSeq DEF CtxTypes
    <3>3. \A u \in Thread : s4'[u] = IF u = t THEN c ELSE s4[u]
      BY <1>0, <2>1 DEF CtxTypes
    <3>4. \A u \in Thread : u # t => s3'[u] = s3[u]
      BY <1>0, <2>1 DEF CtxTypes
    <3> QED BY <1>0, <2>1, <2>3, <3>1, <3>2, <3>3, <3>4 DEF CtxPending
  <2>11. CtxSuffix' /\ CtxBlocks'
    BY <1>0, <2>1 DEF CtxSuffix, CtxBlocks
  <2> QED BY <2>7, <2>9, <2>10, <2>11 DEF CtxInv
<1> QED BY <1>1, <1>2 DEF K!Make

(* Context::s = ...: no socket is of this context yet. *)
LEMMA CtxStore == ASSUME CtxInv, NEW t \in Thread, K!Store(t) PROVE CtxInv'
<1>0. CtxTypes /\ CtxMakers /\ CtxPending /\ CtxSuffix /\ CtxBlocks
  BY DEF CtxInv
<1>1. /\ s3[t] = "store" /\ s1' = s4[t] /\ s3' = [s3 EXCEPT ![t] = "socket"]
      /\ s2' = s2 /\ s4' = s4 /\ s5' = s5
  BY DEF K!Store
<1>2. s4[t] # None /\ s4[t] \in s2
  BY <1>0, <1>1 DEF CtxTypes, CtxMakers
<1>3. CtxTypes'
  BY <1>0, <1>1, <1>2 DEF CtxTypes, Places
<1>4. CtxMakers'
  BY <1>0, <1>1, <1>2 DEF CtxTypes, CtxMakers
<1>5. CtxPending'
  BY <1>0, <1>1, <1>2 DEF CtxTypes, CtxMakers, CtxPending
<1>6. CtxSuffix' /\ CtxBlocks'
  BY <1>0, <1>1 DEF CtxPending, CtxSuffix, CtxBlocks
<1> QED BY <1>3, <1>4, <1>5, <1>6 DEF CtxInv

(* zmq_socket: the new socket is of the current context. *)
LEMMA CtxOpen == ASSUME CtxInv, NEW t \in Thread, K!Open(t) PROVE CtxInv'
<1>0. CtxTypes /\ CtxMakers /\ CtxPending /\ CtxSuffix /\ CtxBlocks
  BY DEF CtxInv
<1>1. CASE K!Throws /\ UNCHANGED <<s1, s2, s4, s5>>
  <2>1. s3' = [u \in Thread |-> "ended"] /\ s1' = s1 /\ s2' = s2 /\ s4' = s4 /\ s5' = s5
    BY <1>1 DEF K!Throws
  <2>2. CtxTypes'
    BY <1>0, <2>1 DEF CtxTypes, Places
  <2>3. CtxMakers'
    BY <1>0, <2>1 DEF CtxTypes, CtxMakers
  <2>4. CtxPending' /\ CtxSuffix' /\ CtxBlocks'
    BY <1>0, <2>1 DEF CtxPending, CtxSuffix, CtxBlocks
  <2> QED BY <2>2, <2>3, <2>4 DEF CtxInv
<1>2. CASE /\ s5' = [s5 EXCEPT ![t] = Append(s5[t], s1)]
           /\ s3' = [s3 EXCEPT ![t] = "inst"] /\ UNCHANGED <<s1, s2, s4>>
  <2>1. /\ s3[t] = "socket" /\ s5' = [s5 EXCEPT ![t] = Append(s5[t], s1)]
        /\ s3' = [s3 EXCEPT ![t] = "inst"] /\ s1' = s1 /\ s2' = s2 /\ s4' = s4
    BY <1>2 DEF K!Open
  <2>2. s1 # None /\ s1 \in s2
    BY <1>0, <2>1 DEF CtxTypes, CtxMakers
  <2> DEFINE q == s5[t]
  <2>3. q \in Seq(s2) /\ Len(q) \in Nat /\ DOMAIN q = 1..Len(q)
    BY <1>0 DEF CtxTypes
  <2> HIDE DEF q
  <2>4. /\ Append(q, s1) \in Seq(s2) /\ DOMAIN Append(q, s1) = 1..(Len(q) + 1)
        /\ Append(q, s1)[Len(q) + 1] = s1
        /\ \A k \in 1..Len(q) : Append(q, s1)[k] = q[k]
    BY <2>2, <2>3
  <2>5. s5'[t] = Append(q, s1) /\ \A u \in Thread : u # t => s5'[u] = s5[u]
    BY <1>0, <2>1 DEF CtxTypes, q
  <2>6. CtxTypes'
    BY <1>0, <2>1, <2>4 DEF CtxTypes, Places, q
  <2>7. CtxMakers'
    BY <1>0, <2>1, <2>2 DEF CtxTypes, CtxMakers
  <2>8. CtxPending'
    <3>1. \A u \in Thread : s3'[u] = "store" => u # t /\ s3[u] = "store" /\ s4'[u] = s4[u]
      BY <1>0, <2>1 DEF CtxTypes
    <3>2. ASSUME NEW u \in Thread, s3[u] = "store", NEW v \in Thread, NEW k \in DOMAIN s5'[v]
          PROVE s5'[v][k] # s4[u]
      <4>1. s4[u] # s1 /\ \A w \in Thread : \A i \in DOMAIN s5[w] : s5[w][i] # s4[u]
        BY <1>0, <3>2 DEF CtxPending
      <4>2. CASE v = t
        <5>1. k \in 1..Len(q) \/ k = Len(q) + 1
          BY <2>3, <2>4, <2>5, <4>2
        <5> QED BY <2>3, <2>4, <2>5, <4>1, <4>2, <5>1 DEF q
      <4> QED BY <2>5, <4>1, <4>2
    <3> QED BY <1>0, <2>1, <3>1, <3>2 DEF CtxPending
  <2>9. CtxSuffix'
    <3>1. ASSUME NEW j \in 1..(Len(q) + 1), NEW k \in 1..(Len(q) + 1), j < k, Append(q, s1)[j] = s1
          PROVE Append(q, s1)[k] = s1
      <4>1. j \in 1..Len(q) /\ (k \in 1..Len(q) \/ k = Len(q) + 1)
        BY <2>3, <3>1
      <4> QED BY <1>0, <2>3, <2>4, <3>1, <4>1 DEF CtxSuffix, q
    <3> QED BY <1>0, <2>1, <2>4, <2>5, <3>1 DEF CtxSuffix
  <2>10. CtxBlocks'
    <3>1. ASSUME NEW i \in 1..(Len(q) + 1), NEW j \in 1..(Len(q) + 1), NEW k \in 1..(Len(q) + 1),
                 i < j, j < k, Append(q, s1)[i] = Append(q, s1)[k]
          PROVE Append(q, s1)[j] = Append(q, s1)[k]
      <4>1. i \in 1..Len(q) /\ j \in 1..Len(q) /\ (k \in 1..Len(q) \/ k = Len(q) + 1)
        BY <2>3, <3>1
      <4>2. CASE k \in 1..Len(q)
        BY <1>0, <2>3, <2>4, <3>1, <4>1, <4>2 DEF CtxBlocks, q
      <4>3. CASE k = Len(q) + 1
        BY <1>0, <2>3, <2>4, <3>1, <4>1, <4>3 DEF CtxSuffix, q
      <4> QED BY <4>1, <4>2, <4>3
    <3>2. \A i, j, k \in DOMAIN s5'[t] : i < j /\ j < k /\ s5'[t][i] = s5'[t][k] => s5'[t][j] = s5'[t][k]
      BY <2>4, <2>5, <3>1
    <3> QED BY <1>0, <2>5, <3>2 DEF CtxBlocks
  <2> QED BY <2>6, <2>7, <2>8, <2>9, <2>10 DEF CtxInv
<1> QED BY <1>1, <1>2 DEF K!Open

(* There are no more contexts than threads. *)
LEMMA CtxFew == CtxInv => Cardinality(s2) <= Cardinality(Thread)
<1> SUFFICES ASSUME CtxInv PROVE Cardinality(s2) <= Cardinality(Thread)
  OBVIOUS
<1> DEFINE f == [t \in Thread |-> s4[t]]
           made == {s4[t] : t \in Thread}
<1>1. IsFiniteSet(Thread)
  BY PartsAssumption DEF K!SocketsAssumption, K!IsFiniteSet, IsFiniteSet
<1>2. IsFiniteSet(made) /\ Cardinality(made) <= Cardinality(Thread)
  <2>1. f \in Surjection(Thread, made)
    BY DEF Surjection
  <2> QED BY <1>1, <2>1, FS_Surjection
<1>3. s2 \subseteq made
  BY DEF CtxInv, CtxMakers
<1> HIDE DEF made
<1>4. Cardinality(s2) <= Cardinality(made)
  BY <1>2, <1>3, FS_Subset
<1>5. Cardinality(s2) \in Nat /\ Cardinality(made) \in Nat /\ Cardinality(Thread) \in Nat
  BY <1>1, <1>2, FS_CardinalityType DEF CtxInv, CtxTypes
<1> QED BY <1>2, <1>4, <1>5

(* However many threads ask for the context at the same time, every socket *)
(* gets one that is ready and no thread returns to an earlier context.     *)
THEOREM ContextRaceHarmless == Spec => []ContextSettles
<1>1. Init => (part = "sockets" => CtxInv)
  <2> SUFFICES ASSUME Init, part = "sockets" PROVE CtxInv
    OBVIOUS
  <2>1. /\ s1 = None /\ s2 = {} /\ s3 = [t \in Thread |-> "inst"]
        /\ s4 = [t \in Thread |-> None] /\ s5 = [t \in Thread |-> <<>>]
    BY DEF Init, K!Init
  <2>2. IsFiniteSet(s2) /\ s2 = 1..Cardinality(s2)
    BY <2>1, FS_EmptySet
  <2>3. CtxTypes
    BY <2>1, <2>2 DEF CtxTypes, Places
  <2> QED BY <2>1, <2>3 DEF CtxInv, CtxMakers, CtxPending, CtxSuffix, CtxBlocks
<1>2. (part = "sockets" => CtxInv) /\ [Next]_vars => (part = "sockets" => CtxInv)'
  <2>1. [Next]_vars => UNCHANGED part
    BY DEF Next, vars
  <2>2. part = "sockets" /\ [Next]_vars => K!Next \/ UNCHANGED <<s1, s2, s3, s4, s5>>
    BY DEF Next, vars
  <2>3. CtxInv /\ UNCHANGED <<s1, s2, s3, s4, s5>> => CtxInv'
    BY DEF CtxInv, CtxTypes, CtxMakers, CtxPending, CtxSuffix, CtxBlocks
  <2>4. CtxInv /\ K!Next => CtxInv'
    BY CtxLook, CtxMake, CtxStore, CtxOpen DEF K!Next
  <2> QED BY <2>1, <2>2, <2>3, <2>4
<1>3. (part = "sockets" => CtxInv) => ContextSettles
  <2> SUFFICES ASSUME part = "sockets", CtxInv PROVE K!ContextSettles
    BY DEF ContextSettles
  <2>1. K!Cardinality(s2) <= K!Cardinality(Thread)
    BY CtxFew, CtxCounts
  <2>2. \A t \in Thread : \A k \in DOMAIN s5[t] : s5[t][k] \in s2
    BY ElementOfSeq DEF CtxInv, CtxTypes
  <2> QED BY <2>1, <2>2 DEF K!ContextSettles, CtxInv, CtxBlocks
<1> QED BY <1>1, <1>2, <1>3, PTL DEF Spec
-----------------------------------------------------------------------------
(* hash_vec: the arguments of the two calls, their levels, where they are   *)
(* and the hashes they have made are s1 to s4.                              *)

IsList(s) == Len(s) \in Nat \ {0} /\ s = [k \in 1..Len(s) |-> s[k]]

Distinct(s) == \A j, k \in 1..Len(s) : s[j] = s[k] => j = k

Held(s) == {s[k] : k \in 1..Len(s)}

(* The elements of h are strings of their own. *)
Told(h) == \A j, k \in 1..Len(h) : Raw[h[j]] = Raw[h[k]] => h[j] = h[k]

ToldApart(g, h) == \A j \in 1..Len(g) : \A k \in 1..Len(h) : Raw[g[j]] = Raw[h[k]] => g[j] = h[k]

(* lv holds the levels of hash_vec(h) up to the one of depth d, the hashes  *)
(* made are in I.                                                           *)
Levels(h, lv, d, I) ==
  /\ lv[0] = H!StringsOf(h)
  /\ \A i \in 0..d : IsList(lv[i]) /\ Distinct(lv[i])
  /\ \A i \in 0..d : i < d => lv[i + 1] = H!Pairs(lv[i])
  /\ \A i \in 0..d : 0 < i => Held(lv[i]) \subseteq I

(* What a call holds was computed from its argument, and no level has an   *)
(* element twice.                                                          *)
HashInv ==
  /\ s1 \in [H!Call -> H!Sorted]
  /\ \E W1 : s2 \in [H!Call -> W1]
  /\ s3 \in [H!Call -> {"start", "loop", "done"}]
  /\ \E W2 : s4 \in [H!Call -> W2]
  /\ \A c \in H!Call : s3[c] # "start" =>
       \E d \in Nat : \E lv : Levels(s1[c], lv, d, s4[c]) /\ s2[c] = lv[d]

(* A list is known by its length and its elements. *)
LEMMA ListIs ==
  ASSUME NEW n \in Nat \ {0}, NEW s, s = [k \in 1..n |-> s[k]]
  PROVE  Len(s) = n /\ IsList(s)
<1> DEFINE V == {s[k] : k \in 1..n}
<1>1. s \in [1..n -> V]
  OBVIOUS
<1> HIDE DEF V
<1>2. Len(s) = n
  BY <1>1, LenIs
<1> QED BY <1>2 DEF IsList

(* One level: half as many pairs, the last element of an odd level twice.  *)
LEMMA PairsAre ==
  ASSUME NEW s, IsList(s)
  PROVE  /\ IsList(H!Pairs(s)) /\ Len(H!Pairs(s)) = (Len(s) + 1) \div 2
         /\ \A k \in 1..((Len(s) + 1) \div 2) :
              /\ 2 * k - 1 \in 1..Len(s)
              /\ H!Pairs(s)[k] = <<s[2 * k - 1], IF 2 * k <= Len(s) THEN s[2 * k] ELSE s[2 * k - 1]>>
<1> DEFINE n == (Len(s) + 1) \div 2
<1>1. Len(s) \in Nat \ {0} /\ n \in Nat \ {0}
  BY DEF IsList
<1>2. H!Pairs(s) = [k \in 1..n |-> <<s[2 * k - 1], IF 2 * k <= Len(s) THEN s[2 * k] ELSE s[2 * k - 1]>>]
  BY DEF H!Pairs, H!hash_twin
<1>3. \A k \in 1..n : 2 * k - 1 \in 1..Len(s)
  BY <1>1
<1>4. H!Pairs(s) = [k \in 1..n |-> H!Pairs(s)[k]]
  BY <1>2
<1>5. Len(H!Pairs(s)) = n /\ IsList(H!Pairs(s))
  BY <1>1, <1>4, ListIs
<1> QED BY <1>2, <1>3, <1>5

(* No pair occurs twice, as its left side does not. *)
LEMMA PairsDistinct == ASSUME NEW s, IsList(s), Distinct(s) PROVE Distinct(H!Pairs(s))
<1>1. SUFFICES ASSUME NEW j \in 1..((Len(s) + 1) \div 2), NEW k \in 1..((Len(s) + 1) \div 2),
                      H!Pairs(s)[j] = H!Pairs(s)[k]
               PROVE  j = k
  BY PairsAre DEF Distinct
<1>2. s[2 * j - 1] = s[2 * k - 1] /\ 2 * j - 1 \in 1..Len(s) /\ 2 * k - 1 \in 1..Len(s)
  BY <1>1, PairsAre
<1>3. 2 * j - 1 = 2 * k - 1
  BY <1>2 DEF Distinct
<1> QED BY <1>3

(* An even level is not taken for an odd one that is one element shorter.  *)
LEMMA NotShorter ==
  ASSUME NEW s, NEW t, IsList(s), IsList(t), Distinct(s), H!Pairs(s) = H!Pairs(t)
  PROVE  Len(s) <= Len(t)
<1>1. Len(s) \in Nat \ {0} /\ Len(t) \in Nat \ {0}
  BY DEF IsList
<1>2. (Len(s) + 1) \div 2 = (Len(t) + 1) \div 2
  <2>1. Len(H!Pairs(s)) = (Len(s) + 1) \div 2
    BY PairsAre
  <2>2. Len(H!Pairs(t)) = (Len(t) + 1) \div 2
    BY PairsAre
  <2> QED BY <2>1, <2>2
<1>3. SUFFICES ASSUME Len(t) < Len(s) PROVE FALSE
  BY <1>1
<1> DEFINE k == (Len(s) + 1) \div 2
<1>4. k \in 1..((Len(s) + 1) \div 2) /\ Len(s) = 2 * k /\ Len(t) = 2 * k - 1
  BY <1>1, <1>2, <1>3
<1> HIDE DEF k
<1>5. H!Pairs(s)[k] = <<s[2 * k - 1], s[2 * k]>>
  BY <1>4, PairsAre
<1>6. H!Pairs(t)[k] = <<t[2 * k - 1], t[2 * k - 1]>>
  <2>1. k \in 1..((Len(t) + 1) \div 2) /\ ~ (2 * k <= Len(t))
    BY <1>1, <1>2, <1>4
  <2> QED BY <2>1, PairsAre
<1>7. s[2 * k - 1] = s[2 * k] /\ 2 * k - 1 \in 1..Len(s) /\ 2 * k \in 1..Len(s)
  BY <1>4, <1>5, <1>6
<1>8. 2 * k - 1 = 2 * k
  BY <1>7 DEF Distinct
<1> QED BY <1>4, <1>8

(* A level without repetition is known by its pairs. *)
LEMMA PairsTell ==
  ASSUME NEW s, NEW t, IsList(s), IsList(t), Distinct(s), Distinct(t), H!Pairs(s) = H!Pairs(t)
  PROVE  s = t
<1>1. Len(s) = Len(t) /\ Len(s) \in Nat \ {0}
  <2>1. Len(s) <= Len(t)
    BY NotShorter
  <2>2. Len(t) <= Len(s)
    BY NotShorter
  <2>3. Len(s) \in Nat \ {0} /\ Len(t) \in Nat \ {0}
    BY DEF IsList
  <2> QED BY <2>1, <2>2, <2>3
<1> DEFINE n == Len(s)
<1>2. \A k \in 1..((n + 1) \div 2) :
        H!Pairs(s)[k] = <<s[2 * k - 1], IF 2 * k <= n THEN s[2 * k] ELSE s[2 * k - 1]>>
  BY PairsAre
<1>3. \A k \in 1..((n + 1) \div 2) :
        H!Pairs(t)[k] = <<t[2 * k - 1], IF 2 * k <= n THEN t[2 * k] ELSE t[2 * k - 1]>>
  BY <1>1, PairsAre
<1>4. ASSUME NEW i \in 1..n PROVE s[i] = t[i]
  <2> DEFINE k == (i + 1) \div 2
  <2>1. k \in 1..((n + 1) \div 2) /\ (i = 2 * k - 1 \/ (i = 2 * k /\ 2 * k <= n))
    BY <1>1
  <2> HIDE DEF k
  <2>2. /\ s[2 * k - 1] = t[2 * k - 1]
        /\ 2 * k <= n => s[2 * k] = t[2 * k]
    BY <1>2, <1>3, <2>1
  <2> QED BY <2>1, <2>2
<1>5. s = [i \in 1..n |-> s[i]] /\ t = [i \in 1..n |-> t[i]]
  BY <1>1 DEF IsList
<1> HIDE DEF n
<1>6. [i \in 1..n |-> s[i]] = [i \in 1..n |-> t[i]]
  BY <1>4
<1> QED BY <1>5, <1>6

(* Two calls with a level in common have their levels in common all the way *)
(* down, so the argument of the one is the other's, or a level of it.       *)
LEMMA LevelsTell ==
  ASSUME NEW g, NEW h, IsList(g), IsList(h),
         ToldApart(g, h),
         NEW d \in Nat, NEW e \in Nat, d <= e,
         NEW lv, NEW mv, NEW I, NEW J, Levels(g, lv, d, I), Levels(h, mv, e, J), lv[d] = mv[e]
  PROVE  g = h \/ \A j \in 1..Len(g) : Raw[g[j]] \in J
<1> DEFINE N == {j \in Nat : j <= d => lv[d - j] = mv[e - j]}
<1>1. 0 \in N
  OBVIOUS
<1>2. ASSUME NEW j \in Nat, j \in N PROVE j + 1 \in N
  <2> SUFFICES ASSUME j + 1 <= d PROVE lv[d - (j + 1)] = mv[e - (j + 1)]
    OBVIOUS
  <2> DEFINE a == d - (j + 1)
             b == e - (j + 1)
  <2>1. a \in 0..d /\ a < d /\ a + 1 = d - j /\ b \in 0..e /\ b < e /\ b + 1 = e - j
    OBVIOUS
  <2>2. lv[a + 1] = mv[b + 1]
    BY <1>2, <2>1
  <2> HIDE DEF a, b
  <2>3. IsList(lv[a]) /\ Distinct(lv[a]) /\ lv[a + 1] = H!Pairs(lv[a])
    BY <2>1 DEF Levels
  <2>4. IsList(mv[b]) /\ Distinct(mv[b]) /\ mv[b + 1] = H!Pairs(mv[b])
    BY <2>1 DEF Levels
  <2>5. lv[a] = mv[b]
    BY <2>2, <2>3, <2>4, PairsTell
  <2> QED BY <2>5 DEF a, b
<1> HIDE DEF N
<1>3. \A j \in Nat : j \in N
  BY <1>1, <1>2, Induction
<1>4. lv[0] = mv[e - d]
  BY <1>3 DEF N
<1>5. lv[0] = [k \in DOMAIN g |-> Raw[g[k]]] /\ mv[0] = [k \in DOMAIN h |-> Raw[h[k]]]
  BY DEF Levels, H!StringsOf
<1>6. Len(g) \in Nat \ {0} /\ DOMAIN g = 1..Len(g) /\ Len(h) \in Nat \ {0} /\ DOMAIN h = 1..Len(h)
  BY DEF IsList
<1>7. CASE e = d
  <2>0. e - d = 0
    BY <1>7
  <2>1. [k \in DOMAIN g |-> Raw[g[k]]] = [k \in DOMAIN h |-> Raw[h[k]]]
    BY <1>4, <1>5, <2>0
  <2>2. DOMAIN g = DOMAIN h
    BY <2>1
  <2>3. ASSUME NEW k \in DOMAIN g PROVE g[k] = h[k]
    <3>1. Raw[g[k]] = Raw[h[k]]
      BY <2>1, <2>2
    <3> QED BY <1>6, <2>2, <3>1 DEF ToldApart
  <2>4. Len(g) = Len(h)
    <3> DEFINE m == Len(g)
               n == Len(h)
    <3>0. DOMAIN g = 1..m /\ DOMAIN h = 1..n
      BY <1>6
    <3>1. m \in Nat \ {0} /\ n \in Nat \ {0} /\ 1..m = 1..n
      <4>1. m \in Nat \ {0} /\ n \in Nat \ {0}
        BY <1>6
      <4> HIDE DEF m, n
      <4> QED BY <2>2, <3>0, <4>1, Zenon
    <3> HIDE DEF m, n
    <3>2. m \in 1..n /\ n \in 1..m
      BY <3>1
    <3>3. m = n
      BY <3>1, <3>2
    <3> QED BY <3>3 DEF m, n
  <2>5. g = [k \in 1..Len(g) |-> g[k]] /\ h = [k \in 1..Len(g) |-> h[k]]
    BY <2>4 DEF IsList
  <2>6. \A k \in 1..Len(g) : g[k] = h[k]
    BY <1>6, <2>3
  <2>7. [k \in 1..Len(g) |-> g[k]] = [k \in 1..Len(g) |-> h[k]]
    BY <2>6
  <2> QED BY <2>5, <2>7
<1>8. CASE d < e
  <2> DEFINE b == e - d
  <2>1. b \in 0..e /\ 0 < b
    BY <1>8
  <2>2. lv[0] = mv[b]
    BY <1>4
  <2> HIDE DEF b
  <2>3. Held(mv[b]) \subseteq J
    BY <2>1 DEF Levels
  <2>4. ASSUME NEW j \in 1..Len(g) PROVE Raw[g[j]] \in J
    <3>1. lv[0][j] = Raw[g[j]]
      BY <1>5, <1>6
    <3>2. Len(lv[0]) = Len(g)
      <4>1. lv[0] = [k \in 1..Len(g) |-> lv[0][k]]
        BY <1>5, <1>6
      <4> QED BY <1>6, <4>1, ListIs
    <3>3. mv[b][j] \in Held(mv[b])
      BY <2>2, <3>2 DEF Held
    <3> QED BY <2>2, <2>3, <3>1, <3>3
  <2> QED BY <2>4
<1> QED BY <1>7, <1>8

(* The argument of a call is a list without repetition. *)
LEMMA SortedIs ==
  ASSUME NEW h \in H!Sorted
  PROVE  IsList(h) /\ Distinct(h) /\ \A k \in 1..Len(h) : h[k] \in HashElement
<1>1. Cardinality(HashElement) \in Nat /\ H!Cardinality(HashElement) = Cardinality(HashElement)
  <2>1. IsFiniteSet(HashElement)
    BY PartsAssumption DEF H!HashVecAssumption, H!IsFiniteSet, IsFiniteSet
  <2> QED BY <2>1, FS_CardinalityType DEF H!Cardinality, Cardinality
<1>2. PICK n \in 1..Cardinality(HashElement) : h \in [1..n -> HashElement]
  BY <1>1 DEF H!Sorted
<1>3. n \in Nat \ {0} /\ HashElement \subseteq Nat
  BY <1>1, PartsAssumption DEF H!HashVecAssumption
<1>4. Len(h) = n /\ IsList(h)
  BY <1>2, <1>3, ListIs
<1>5. \A j, k \in 1..n : j < k => h[j] < h[k]
  BY <1>2 DEF H!Sorted
<1>6. \A k \in 1..n : h[k] \in Nat
  BY <1>2, <1>3
<1>7. ASSUME NEW j \in 1..n, NEW k \in 1..n, h[j] = h[k] PROVE j = k
  <2>1. ~ (j < k) /\ ~ (k < j)
    BY <1>5, <1>6, <1>7
  <2> QED BY <1>3, <2>1
<1>8. \A k \in 1..n : h[k] \in HashElement
  BY <1>2
<1> QED BY <1>4, <1>7, <1>8 DEF Distinct

(* So two of them are known by their strings. *)
LEMMA SortedTold == ASSUME NEW g \in H!Sorted, NEW h \in H!Sorted PROVE Told(g) /\ ToldApart(g, h)
<1>1. \A e, f \in HashElement : Raw[e] = Raw[f] => e = f
  BY PartsAssumption DEF H!HashVecAssumption
<1>2. /\ \A k \in 1..Len(g) : g[k] \in HashElement
      /\ \A k \in 1..Len(h) : h[k] \in HashElement
  BY SortedIs
<1> QED BY <1>1, <1>2 DEF Told, ToldApart

(* The strings of such a list are one as well. *)
LEMMA StringsAre ==
  ASSUME NEW h, IsList(h), Distinct(h), Told(h)
  PROVE  IsList(H!StringsOf(h)) /\ Distinct(H!StringsOf(h)) /\ Len(H!StringsOf(h)) = Len(h)
<1>1. Len(h) \in Nat \ {0} /\ DOMAIN h = 1..Len(h)
  BY DEF IsList
<1> DEFINE n == Len(h)
<1>2. H!StringsOf(h) = [k \in 1..n |-> Raw[h[k]]]
  BY <1>1 DEF H!StringsOf
<1>3. H!StringsOf(h) = [k \in 1..n |-> H!StringsOf(h)[k]]
  BY <1>2
<1>4. Len(H!StringsOf(h)) = n /\ IsList(H!StringsOf(h))
  BY <1>1, <1>3, ListIs
<1>5. \A j, k \in 1..n : H!StringsOf(h)[j] = H!StringsOf(h)[k] => h[j] = h[k]
  BY <1>2 DEF Told
<1> QED BY <1>4, <1>5 DEF Distinct

(* One level more, and more hashes made. *)
LEMMA LevelsGrow ==
  ASSUME NEW h, NEW d \in Nat, NEW lv, NEW I, NEW J, Levels(h, lv, d, I),
         I \subseteq J, Held(H!Pairs(lv[d])) \subseteq J
  PROVE  \E mv : Levels(h, mv, d + 1, J) /\ mv[d + 1] = H!Pairs(lv[d])
<1> DEFINE mv == [i \in 0..(d + 1) |-> IF i <= d THEN lv[i] ELSE H!Pairs(lv[d])]
<1>1. /\ \A i \in 0..d : mv[i] = lv[i]
      /\ mv[d + 1] = H!Pairs(lv[d])
  OBVIOUS
<1> HIDE DEF mv
<1>2. IsList(H!Pairs(lv[d])) /\ Distinct(H!Pairs(lv[d]))
  <2>1. IsList(lv[d]) /\ Distinct(lv[d])
    BY DEF Levels
  <2>2. IsList(H!Pairs(lv[d]))
    BY <2>1, PairsAre
  <2> QED BY <2>1, <2>2, PairsDistinct
<1>3. mv[0] = H!StringsOf(h)
  BY <1>1 DEF Levels
<1>4. \A i \in 0..(d + 1) : i \in 0..d \/ i = d + 1
  OBVIOUS
<1>5. \A i \in 0..(d + 1) : IsList(mv[i]) /\ Distinct(mv[i])
  BY <1>1, <1>2, <1>4 DEF Levels
<1>6. ASSUME NEW i \in 0..(d + 1), i < d + 1 PROVE mv[i + 1] = H!Pairs(mv[i])
  <2>1. CASE i = d
    BY <1>1, <2>1
  <2>2. CASE i < d
    <3>1. i \in 0..d /\ i + 1 \in 0..d
      BY <2>2
    <3> QED BY <1>1, <2>2, <3>1 DEF Levels
  <2> QED BY <1>6, <2>1, <2>2
<1>7. ASSUME NEW i \in 0..(d + 1), 0 < i PROVE Held(mv[i]) \subseteq J
  <2>1. CASE i = d + 1
    BY <1>1, <2>1
  <2>2. CASE i \in 0..d
    <3>1. Held(lv[i]) \subseteq I
      BY <1>7, <2>2 DEF Levels
    <3> QED BY <1>1, <2>2, <3>1
  <2> QED BY <1>4, <2>1, <2>2
<1> QED BY <1>1, <1>3, <1>5, <1>6, <1>7 DEF Levels

(* The first level of all. *)
LEMMA LevelsStart ==
  ASSUME NEW h, IsList(h), Distinct(h), Told(h), NEW I, Held(H!Pairs(H!StringsOf(h))) \subseteq I
  PROVE  \E mv : Levels(h, mv, 1, I) /\ H!Pairs(H!StringsOf(h)) = mv[1]
<1> DEFINE lv == [i \in 0..0 |-> H!StringsOf(h)]
<1>1. IsList(H!StringsOf(h)) /\ Distinct(H!StringsOf(h))
  BY StringsAre
<1>2. Levels(h, lv, 0, I) /\ lv[0] = H!StringsOf(h)
  BY <1>1 DEF Levels
<1> HIDE DEF lv
<1>3. PICK mv : Levels(h, mv, 0 + 1, I) /\ mv[0 + 1] = H!Pairs(lv[0])
  BY <1>2, LevelsGrow
<1> QED BY <1>2, <1>3

(* Each step computes one level of one call or none. *)
LEMMA HashStep == HashInv /\ H!Next => HashInv'
<1> SUFFICES ASSUME HashInv, NEW c \in H!Call, H!FirstLevel(c) \/ H!NextLevel(c) \/ H!Return(c)
             PROVE  HashInv'
  BY DEF H!Next
<1>1. s1' = s1 /\ s1 \in [H!Call -> H!Sorted] /\ s3 \in [H!Call -> {"start", "loop", "done"}]
  BY DEF HashInv, H!FirstLevel, H!NextLevel, H!Return
<1>2. PICK W1 : s2 \in [H!Call -> W1]
  BY DEF HashInv
<1>20. PICK W2 : s4 \in [H!Call -> W2]
  BY DEF HashInv
<1> DEFINE Kept(lists, made, q) == \E d \in Nat : \E lv : Levels(s1[q], lv, d, made[q]) /\ lists[q] = lv[d]
<1>3. \A q \in H!Call : s3[q] # "start" => Kept(s2, s4, q)
  BY DEF HashInv
<1>4. ASSUME NEW x, NEW y, s2' = [s2 EXCEPT ![c] = x], s4' = [s4 EXCEPT ![c] = y],
             s3' \in [H!Call -> {"start", "loop", "done"}],
             \A q \in H!Call : q # c => s3'[q] = s3[q],
             \E d \in Nat : \E lv : Levels(s1[c], lv, d, y) /\ x = lv[d]
      PROVE  HashInv'
  <2>1. s2' \in [H!Call -> W1 \cup {x}] /\ s4' \in [H!Call -> W2 \cup {y}]
    BY <1>2, <1>20, <1>4
  <2>2. /\ s2'[c] = x /\ \A q \in H!Call : q # c => s2'[q] = s2[q]
        /\ s4'[c] = y /\ \A q \in H!Call : q # c => s4'[q] = s4[q]
    BY <1>2, <1>20, <1>4
  <2>3. \A q \in H!Call : s3'[q] # "start" => Kept(s2', s4', q)
    BY <1>3, <1>4, <2>2
  <2> HIDE DEF Kept
  <2>4. s1' \in [H!Call -> H!Sorted]
    BY <1>1
  <2>5. \A q \in H!Call : s3'[q] # "start" =>
          \E d \in Nat : \E lv : Levels(s1'[q], lv, d, s4'[q]) /\ s2'[q] = lv[d]
    BY <1>1, <2>3 DEF Kept
  <2>6. (\E V : s2' \in [H!Call -> V]) /\ \E V : s4' \in [H!Call -> V]
    BY <2>1
  <2> QED BY <1>4, <2>4, <2>5, <2>6 DEF HashInv, Levels, Held, IsList, Distinct
<1>6. ASSUME NEW u, IsList(u), NEW w PROVE Held(u) \subseteq w \cup H!ToSet(u)
  <2>1. DOMAIN u = 1..Len(u)
    BY <1>6 DEF IsList
  <2> QED BY <2>1 DEF Held, H!ToSet
<1>7. CASE H!FirstLevel(c)
  <2> DEFINE h == s1[c]
             p == H!Pairs(H!StringsOf(h))
  <2>1. IsList(h) /\ Distinct(h) /\ Told(h)
    BY <1>1, SortedIs, SortedTold
  <2>2. /\ s2' = [s2 EXCEPT ![c] = p]
        /\ s4' = [s4 EXCEPT ![c] = s4[c] \cup H!ToSet(p)]
        /\ s3' = [s3 EXCEPT ![c] = "loop"]
    BY <1>7 DEF H!FirstLevel, H!Level
  <2> HIDE DEF h
  <2>3. IsList(p)
    <3>1. IsList(H!StringsOf(h))
      BY <2>1, StringsAre
    <3> QED BY <3>1, PairsAre
  <2>4. Held(p) \subseteq s4[c] \cup H!ToSet(p)
    BY <1>6, <2>3
  <2>5. PICK mv : Levels(h, mv, 1, s4[c] \cup H!ToSet(p)) /\ p = mv[1]
    BY <2>1, <2>4, LevelsStart
  <2> HIDE DEF p
  <2> QED BY <1>1, <1>4, <2>2, <2>5 DEF h
<1>8. CASE H!NextLevel(c)
  <2> DEFINE p == H!Pairs(s2[c])
  <2>1. /\ s3[c] = "loop" /\ s2' = [s2 EXCEPT ![c] = p] /\ s3' = s3
        /\ s4' = [s4 EXCEPT ![c] = s4[c] \cup H!ToSet(p)]
    BY <1>8 DEF H!NextLevel, H!Level
  <2> PICK d \in Nat : \E lv : Levels(s1[c], lv, d, s4[c]) /\ s2[c] = lv[d]
    BY <1>3, <2>1
  <2>2. PICK lv : Levels(s1[c], lv, d, s4[c]) /\ s2[c] = lv[d]
    OBVIOUS
  <2>3. IsList(p)
    <3>1. IsList(s2[c])
      BY <2>2 DEF Levels
    <3> QED BY <3>1, PairsAre
  <2>4. Held(p) \subseteq s4[c] \cup H!ToSet(p)
    BY <1>6, <2>3
  <2> DEFINE J == s4[c] \cup H!ToSet(p)
  <2>40. s4[c] \subseteq J /\ Held(H!Pairs(lv[d])) \subseteq J
    BY <2>2, <2>4
  <2> HIDE DEF J
  <2>5. PICK mv : Levels(s1[c], mv, d + 1, J) /\ mv[d + 1] = H!Pairs(lv[d])
    <3> DEFINE h == s1[c]
               I == s4[c]
    <3>1. Levels(h, lv, d, I) /\ I \subseteq J
      BY <2>2, <2>40
    <3> HIDE DEF h, I
    <3>2. \E mv : Levels(h, mv, d + 1, J) /\ mv[d + 1] = H!Pairs(lv[d])
      BY <2>40, <3>1, LevelsGrow
    <3> QED BY <3>2 DEF h
  <2>6. d + 1 \in Nat /\ p = mv[d + 1]
    BY <2>2, <2>5
  <2> HIDE DEF p
  <2> QED BY <1>1, <1>4, <2>1, <2>5, <2>6 DEF J
<1>9. CASE H!Return(c)
  <2>1. s3[c] = "loop" /\ s2' = s2 /\ s4' = s4 /\ s3' = [s3 EXCEPT ![c] = "done"]
    BY <1>9 DEF H!Return
  <2>2. s2' = [s2 EXCEPT ![c] = s2[c]] /\ s4' = [s4 EXCEPT ![c] = s4[c]]
    BY <1>2, <1>20, <2>1
  <2> QED BY <1>1, <1>3, <1>4, <2>1, <2>2
<1> QED BY <1>7, <1>8, <1>9

(* hash_vec of two sets is the same only for the same set, or if the one set *)
(* consists of hashes made of the other: the last element of an odd level   *)
(* being hashed with itself never makes two sets look the same.             *)
THEOREM HashTellsSets == Spec => []HashTells
<1>1. Init => (part = "hash_vec" => HashInv)
  <2> SUFFICES ASSUME Init, part = "hash_vec" PROVE HashInv
    OBVIOUS
  <2>1. /\ s1 \in [H!Call -> H!Sorted] /\ s2 = [c \in H!Call |-> <<>>]
        /\ s3 = [c \in H!Call |-> "start"] /\ s4 = [c \in H!Call |-> {}]
    BY DEF Init, H!Init
  <2>2. s2 \in [H!Call -> {<<>>}] /\ s4 \in [H!Call -> {{}}]
    BY <2>1
  <2> QED BY <2>1, <2>2 DEF HashInv
<1>2. (part = "hash_vec" => HashInv) /\ [Next]_vars => (part = "hash_vec" => HashInv)'
  <2>1. [Next]_vars => UNCHANGED part
    BY DEF Next, vars
  <2>2. part = "hash_vec" /\ [Next]_vars => H!Next \/ UNCHANGED <<s1, s2, s3, s4>>
    BY DEF Next, vars
  <2>3. HashInv /\ UNCHANGED <<s1, s2, s3, s4>> => HashInv'
    <3> SUFFICES ASSUME HashInv, UNCHANGED <<s1, s2, s3, s4>> PROVE HashInv'
      OBVIOUS
    <3>1. \A c \in H!Call : s3'[c] # "start" =>
            \E d \in Nat : \E lv : Levels(s1'[c], lv, d, s4'[c]) /\ s2'[c] = lv[d]
      BY DEF HashInv
    <3>2. s1' \in [H!Call -> H!Sorted] /\ (\E W1 : s2' \in [H!Call -> W1]) /\ \E W2 : s4' \in [H!Call -> W2]
      BY DEF HashInv
    <3>3. s3' \in [H!Call -> {"start", "loop", "done"}]
      BY DEF HashInv
    <3> QED BY <3>1, <3>2, <3>3 DEF HashInv, Levels, Held, IsList, Distinct
  <2> QED BY <2>1, <2>2, <2>3, HashStep
<1>3. (part = "hash_vec" => HashInv) => HashTells
  <2> SUFFICES ASSUME HashInv, \A c \in H!Call : s3[c] = "done", s2[1] = s2[2]
               PROVE  s1[1] = s1[2] \/ H!MadeBy(1, 2) \/ H!MadeBy(2, 1)
    BY DEF HashTells, H!HashTells
  <2>1. 1 \in H!Call /\ 2 \in H!Call
    BY DEF H!Call
  <2>2. s1[1] \in H!Sorted /\ s1[2] \in H!Sorted
    BY <2>1 DEF HashInv
  <2>3. /\ IsList(s1[1]) /\ IsList(s1[2])
        /\ ToldApart(s1[1], s1[2]) /\ ToldApart(s1[2], s1[1])
    BY <2>2, SortedIs, SortedTold
  <2> PICK d \in Nat : \E lv : Levels(s1[1], lv, d, s4[1]) /\ s2[1] = lv[d]
    BY <2>1 DEF HashInv
  <2> PICK e \in Nat : \E mv : Levels(s1[2], mv, e, s4[2]) /\ s2[2] = mv[e]
    BY <2>1 DEF HashInv
  <2>4. PICK lv : Levels(s1[1], lv, d, s4[1]) /\ s2[1] = lv[d]
    OBVIOUS
  <2>5. PICK mv : Levels(s1[2], mv, e, s4[2]) /\ s2[2] = mv[e]
    OBVIOUS
  <2>6. lv[d] = mv[e]
    BY <2>4, <2>5
  <2>7. ASSUME NEW c \in H!Call, NEW b \in H!Call, IsList(s1[c]),
               \A j \in 1..Len(s1[c]) : Raw[s1[c][j]] \in s4[b]
        PROVE  H!MadeBy(c, b)
    <3>1. DOMAIN s1[c] = 1..Len(s1[c])
      BY <2>7 DEF IsList
    <3> QED BY <2>7, <3>1 DEF H!MadeBy, H!ToSet
  <2>8. CASE d <= e
    <3>1. s1[1] = s1[2] \/ \A j \in 1..Len(s1[1]) : Raw[s1[1][j]] \in s4[2]
      BY <2>3, <2>4, <2>5, <2>6, <2>8, LevelsTell
    <3> QED BY <2>1, <2>3, <2>7, <3>1
  <2>9. CASE e <= d
    <3>1. s1[2] = s1[1] \/ \A j \in 1..Len(s1[2]) : Raw[s1[2][j]] \in s4[1]
      BY <2>3, <2>4, <2>5, <2>6, <2>9, LevelsTell
    <3> QED BY <2>1, <2>3, <2>7, <3>1
  <2> QED BY <2>8, <2>9
<1> QED BY <1>1, <1>2, <1>3, PTL DEF Spec

-----------------------------------------------------------------------------
(* SetReconsiler: target, filters, given, current_set and result are s1 to  *)
(* s5.                                                                      *)

Rank(U, e) == Cardinality({f \in U : f <= e})

(* a holds each member of U at the place of its rank. *)
Ascending(a, U) ==
  /\ a = [k \in 1..Cardinality(U) |-> a[k]]
  /\ \A k \in 1..Cardinality(U) : a[k] \in U /\ Rank(U, a[k]) = k

(* What filter() was given, and what it kept of it. *)
ReconInv ==
  /\ s1 \subseteq SetElement /\ s1 # {}
  /\ \A f \in s2 : s1 \subseteq f
  /\ s3 \in Seq(SetElement) /\ s4 \in Seq(SetElement)
  /\ Distinct(s4)
  /\ Held(s4) = {e \in Held(s3) : C!Passes(e)}
  /\ C!CheckTells

(* The sets are finite. *)
LEMMA Elements ==
  /\ SetElement \subseteq Nat
  /\ \A U \in SUBSET SetElement : IsFiniteSet(U) /\ Cardinality(U) \in Nat
  /\ \A X : C!Cardinality(X) = Cardinality(X)
<1>1. SetElement \subseteq Nat /\ IsFiniteSet(SetElement)
  BY PartsAssumption DEF C!ReconcileAssumption, C!H!HashVecAssumption, C!H!IsFiniteSet, IsFiniteSet
<1>2. ASSUME NEW U \in SUBSET SetElement PROVE IsFiniteSet(U) /\ Cardinality(U) \in Nat
  <2>1. IsFiniteSet(U)
    BY <1>1, FS_Subset
  <2> QED BY <2>1, FS_CardinalityType
<1>3. \A X : C!Cardinality(X) = Cardinality(X)
  BY DEF C!Cardinality, Cardinality
<1> QED BY <1>1, <1>2, <1>3

(* One more than those below. *)
LEMMA RankIs ==
  ASSUME NEW U \in SUBSET SetElement, NEW e \in U
  PROVE  /\ Rank(U, e) \in 1..Cardinality(U)
         /\ Cardinality({f \in U : f < e}) = Rank(U, e) - 1
<1> DEFINE A == {f \in U : f < e}
           B0 == {f \in U : f <= e}
<1>1. U \subseteq Nat /\ e \in Nat
  BY Elements
<1>2. A \in SUBSET SetElement /\ B0 \in SUBSET U /\ B0 = A \cup {e} /\ e \notin A
  <2>1. \A f \in U : f <= e <=> f < e \/ f = e
    BY <1>1
  <2>2. B0 = A \cup {e}
    BY <2>1
  <2>3. e \notin A
    BY <1>1
  <2> QED BY <2>2, <2>3
<1>3. IsFiniteSet(U) /\ Cardinality(U) \in Nat /\ IsFiniteSet(A) /\ Cardinality(A) \in Nat
  BY <1>2, Elements
<1> HIDE DEF A
<1>4. Cardinality(B0) = Cardinality(A) + 1
  <2>1. Cardinality(A \cup {e}) = Cardinality(A) + 1
    BY <1>2, <1>3, FS_AddElement
  <2> QED BY <1>2, <2>1
<1>5. Rank(U, e) = Cardinality(B0)
  BY DEF Rank
<1> HIDE DEF B0
<1>6. Cardinality(B0) <= Cardinality(U)
  BY <1>2, <1>3, FS_Subset
<1>7. Cardinality(A) = Rank(U, e) - 1 /\ Rank(U, e) \in 1..Cardinality(U)
  BY <1>3, <1>4, <1>5, <1>6
<1> QED BY <1>7 DEF A

(* No two members have the same rank. *)
LEMMA RankTells ==
  ASSUME NEW U \in SUBSET SetElement, NEW e \in U, NEW f \in U, Rank(U, e) = Rank(U, f)
  PROVE  ~ (e < f)
<1> SUFFICES ASSUME e < f PROVE FALSE
  OBVIOUS
<1> DEFINE A == {g \in U : g <= e}
           B0 == {g \in U : g < f}
<1>1. A \in SUBSET B0 /\ B0 \in SUBSET SetElement
  <2>1. U \subseteq Nat /\ e \in Nat /\ f \in Nat
    BY Elements
  <2>2. \A g \in U : g <= e => g < f
    BY <2>1
  <2> QED BY <2>2
<1>2. IsFiniteSet(B0)
  BY <1>1, Elements
<1>3. Cardinality(A) = Rank(U, e) /\ Cardinality(B0) = Rank(U, f) - 1
  BY RankIs DEF Rank
<1>4. Rank(U, e) \in Int /\ Rank(U, f) \in Int
  <2>1. Rank(U, e) \in 1..Cardinality(U)
    BY RankIs
  <2> QED BY <2>1
<1> HIDE DEF A, B0
<1>5. Cardinality(A) <= Cardinality(B0)
  BY <1>1, <1>2, FS_Subset
<1> QED BY <1>3, <1>4, <1>5

(* Every rank up to the size of the set is some member's, and one only's.  *)
LEMMA Ranks ==
  ASSUME NEW U \in SUBSET SetElement
  PROVE  /\ \A e, f \in U : Rank(U, e) = Rank(U, f) => e = f
         /\ \A k \in 1..Cardinality(U) : \E e \in U : Rank(U, e) = k
<1>1. \A e, f \in U : Rank(U, e) = Rank(U, f) => e = f
  <2> SUFFICES ASSUME NEW e \in U, NEW f \in U, Rank(U, e) = Rank(U, f) PROVE e = f
    OBVIOUS
  <2>1. e \in Nat /\ f \in Nat
    BY Elements
  <2>2. ~ (e < f)
    BY RankTells
  <2>3. ~ (f < e)
    BY RankTells
  <2> QED BY <2>1, <2>2, <2>3
<1> DEFINE n == Cardinality(U)
           r == [e \in U |-> Rank(U, e)]
<1>2. IsFiniteSet(U) /\ n \in Nat
  BY Elements
<1>3. IsFiniteSet(1..n) /\ Cardinality(1..n) = n
  <2>1. Cardinality(1..n) = IF 1 > n THEN 0 ELSE n - 1 + 1
    BY <1>2, FS_Interval
  <2> QED BY <1>2, <2>1, FS_Interval
<1>4. r \in Injection(U, 1..n)
  <2>1. r \in [U -> 1..n]
    BY RankIs
  <2>2. \A e, f \in U : r[e] = r[f] => e = f
    BY <1>1
  <2> HIDE DEF r
  <2> QED BY <2>1, <2>2 DEF Injection, IsInjective
<1> HIDE DEF r
<1>5. r \in Surjection(U, 1..n)
  BY <1>3, <1>4, FS_Injection
<1>6. \A k \in 1..n : \E e \in U : r[e] = k
  BY <1>5 DEF Surjection
<1> QED BY <1>1, <1>6 DEF r

(* A list in order of rank has every member once. *)
LEMMA AscendingIs ==
  ASSUME NEW U \in SUBSET SetElement, U # {}, NEW a, Ascending(a, U)
  PROVE  IsList(a) /\ Distinct(a) /\ Held(a) = U
<1>1. Cardinality(U) \in Nat \ {0}
  <2>1. IsFiniteSet(U) /\ Cardinality(U) \in Nat
    BY Elements
  <2> QED BY <2>1, FS_EmptySet
<1>2. /\ a = [k \in 1..Cardinality(U) |-> a[k]]
      /\ \A k \in 1..Cardinality(U) : a[k] \in U /\ Rank(U, a[k]) = k
  BY DEF Ascending
<1>3. Len(a) = Cardinality(U) /\ IsList(a)
  BY <1>1, <1>2, ListIs
<1>4. \A j, k \in 1..Cardinality(U) : a[j] = a[k] => j = k
  BY <1>2
<1>5. ASSUME NEW e \in U PROVE \E k \in 1..Cardinality(U) : a[k] = e
  <2> DEFINE k == Rank(U, e)
  <2>1. k \in 1..Cardinality(U)
    BY RankIs
  <2>2. a[k] = e
    BY <1>2, <2>1, Ranks
  <2> QED BY <2>1, <2>2
<1>6. Held(a) = U
  BY <1>2, <1>3, <1>5 DEF Held
<1>7. Distinct(a)
  BY <1>3, <1>4 DEF Distinct
<1> QED BY <1>3, <1>6, <1>7

(* There is one such list only. *)
LEMMA AscendingTells ==
  ASSUME NEW U \in SUBSET SetElement, NEW a, NEW b, Ascending(a, U), Ascending(b, U)
  PROVE  a = b
<1> DEFINE D == 1..Cardinality(U)
<1>1. a = [k \in D |-> a[k]] /\ b = [k \in D |-> b[k]]
  BY DEF Ascending
<1>2. ASSUME NEW k \in D PROVE a[k] = b[k]
  <2>1. a[k] \in U /\ Rank(U, a[k]) = k /\ b[k] \in U /\ Rank(U, b[k]) = k
    BY DEF Ascending
  <2> QED BY <2>1, Ranks
<1> HIDE DEF D
<1>3. [k \in D |-> a[k]] = [k \in D |-> b[k]]
  BY <1>2
<1> QED BY <1>1, <1>3

(* In a list without repetition there are as many places as members.       *)
LEMMA Counted ==
  ASSUME NEW s \in Seq(SetElement), Distinct(s), NEW X
  PROVE  Cardinality({j \in 1..Len(s) : s[j] \in X}) = Cardinality(Held(s) \cap X)
<1> DEFINE A == {j \in 1..Len(s) : s[j] \in X}
           B0 == Held(s) \cap X
           f == [j \in A |-> s[j]]
<1>1. Len(s) \in Nat /\ \A j \in 1..Len(s) : s[j] \in SetElement
  BY ElementOfSeq
<1>2. IsFiniteSet(A)
  <2>1. IsFiniteSet(1..Len(s)) /\ A \in SUBSET (1..Len(s))
    BY <1>1, FS_Interval
  <2> HIDE DEF A
  <2> QED BY <2>1, FS_Subset
<1>3. f \in [A -> B0] /\ (\A j, k \in A : f[j] = f[k] => j = k) /\ \A e \in B0 : \E j \in A : f[j] = e
  BY DEF Held, Distinct
<1> HIDE DEF f, A, B0
<1>4. f \in Bijection(A, B0)
  <2>1. f \in Injection(A, B0)
    BY <1>3 DEF Injection, IsInjective
  <2>2. f \in Surjection(A, B0)
    BY <1>3 DEF Surjection
  <2> QED BY <2>1, <2>2 DEF Bijection
<1>5. Cardinality(B0) = Cardinality(A)
  BY <1>2, <1>4, FS_Bijection DEF ExistsBijection
<1> QED BY <1>5 DEF A, B0

(* std::sort puts a list without repetition in the order of ranks. *)
LEMMA SortIs ==
  ASSUME NEW s \in Seq(SetElement), Distinct(s)
  PROVE  Ascending(C!sort(s), Held(s)) /\ Held(s) \in SUBSET SetElement
<1> DEFINE U == Held(s)
           n == Cardinality(U)
<1>1. /\ Len(s) \in Nat /\ DOMAIN s = 1..Len(s) /\ C!ToSet(s) = U
      /\ \A j \in 1..Len(s) : s[j] \in SetElement
  <2>1. Len(s) \in Nat /\ DOMAIN s = 1..Len(s)
    BY LenProperties
  <2> QED BY <2>1, ElementOfSeq DEF C!ToSet, Held
<1>2. U \in SUBSET SetElement
  BY <1>1 DEF Held
<1>3. Len(s) = n
  <2>1. {j \in 1..Len(s) : s[j] \in U} = 1..Len(s)
    BY DEF Held
  <2>2. Cardinality(1..Len(s)) = Len(s)
    <3>1. Cardinality(1..Len(s)) = IF 1 > Len(s) THEN 0 ELSE Len(s) - 1 + 1
      BY <1>1, FS_Interval
    <3> QED BY <1>1, <3>1
  <2>3. Cardinality({j \in 1..Len(s) : s[j] \in U}) = Cardinality(U \cap U)
    BY Counted
  <2>4. U \cap U = U
    OBVIOUS
  <2> QED BY <2>1, <2>2, <2>3, <2>4
<1>4. ASSUME NEW e \in U
      PROVE  /\ C!Cardinality({j \in DOMAIN s : s[j] < e}) = Rank(U, e) - 1
             /\ C!Cardinality({j \in DOMAIN s : s[j] <= e}) = Rank(U, e)
  <2> DEFINE A == {f \in U : f < e}
             B0 == {f \in U : f <= e}
  <2>1. {j \in DOMAIN s : s[j] < e} = {j \in 1..Len(s) : s[j] \in A}
    BY <1>1 DEF Held
  <2>2. {j \in DOMAIN s : s[j] <= e} = {j \in 1..Len(s) : s[j] \in B0}
    BY <1>1 DEF Held
  <2>3. Held(s) \cap A = A /\ Held(s) \cap B0 = B0
    OBVIOUS
  <2>4. Cardinality(A) = Rank(U, e) - 1 /\ Cardinality(B0) = Rank(U, e)
    BY <1>2, RankIs DEF Rank
  <2> HIDE DEF A, B0
  <2>5. Cardinality({j \in 1..Len(s) : s[j] \in A}) = Cardinality(A)
    BY <2>3, Counted
  <2>6. Cardinality({j \in 1..Len(s) : s[j] \in B0}) = Cardinality(B0)
    BY <2>3, Counted
  <2> QED BY <2>1, <2>2, <2>4, <2>5, <2>6, Elements
<1> DEFINE Place(e, k) == /\ C!Cardinality({j \in DOMAIN s : s[j] < e}) < k
                          /\ k <= C!Cardinality({j \in DOMAIN s : s[j] <= e})
<1>5. C!sort(s) = [k \in 1..n |-> CHOOSE e \in U : Place(e, k)]
  BY <1>1, <1>3 DEF C!sort
<1>6. ASSUME NEW e \in U, NEW k \in 1..n PROVE Place(e, k) <=> Rank(U, e) = k
  <2>1. Rank(U, e) \in 1..n
    BY <1>2, RankIs
  <2>2. Rank(U, e) \in Int /\ k \in Int
    BY <2>1
  <2> DEFINE a == C!Cardinality({j \in DOMAIN s : s[j] < e})
             c == C!Cardinality({j \in DOMAIN s : s[j] <= e})
             q == Rank(U, e)
  <2>3. a = q - 1 /\ c = q
    BY <1>4
  <2> HIDE DEF a, c, q
  <2>4. (a < k /\ k <= c) <=> q = k
    BY <2>2, <2>3 DEF q
  <2> QED BY <2>4 DEF a, c, q
<1> HIDE DEF Place, U, n
<1>7. ASSUME NEW k \in 1..n PROVE C!sort(s)[k] \in U /\ Rank(U, C!sort(s)[k]) = k
  <2>1. \E e \in U : Place(e, k)
    <3>1. \E e \in U : Rank(U, e) = k
      BY <1>2, <1>7, Ranks DEF n
    <3> QED BY <1>6, <3>1
  <2>2. C!sort(s)[k] \in U /\ Place(C!sort(s)[k], k)
    BY <1>5, <2>1
  <2> QED BY <1>6, <2>2
<1>8. C!sort(s) = [k \in 1..n |-> C!sort(s)[k]]
  BY <1>5
<1>9. Ascending(C!sort(s), U)
  BY <1>7, <1>8 DEF Ascending, n
<1> QED BY <1>2, <1>9 DEF U

(* The loop of a filter() keeps what passes, in the order of the list.     *)
LEMMA PassingIs ==
  ASSUME NEW s \in Seq(SetElement), Distinct(s)
  PROVE  /\ C!Passing(s) \in Seq(SetElement) /\ Distinct(C!Passing(s))
         /\ Held(C!Passing(s)) = {e \in Held(s) : C!Passes(e)}
<1> DEFINE step(f, n) == IF n = 0 THEN <<>>
                         ELSE IF C!Passes(s[n]) THEN Append(f[n - 1], s[n]) ELSE f[n - 1]
           Kept(m, f) == f = [n \in 0..m |-> step(f, n)]
           kept == CHOOSE f : Kept(Len(s), f)
<1>1. Len(s) \in Nat /\ \A j \in 1..Len(s) : s[j] \in SetElement
  BY ElementOfSeq
<1>2. C!Passing(s) = kept[Len(s)]
  BY DEF C!Passing
<1>3. \A m \in Nat : \E f : Kept(m, f)
  <2> DEFINE N == {m \in Nat : \E f : Kept(m, f)}
  <2>1. 0 \in N
    <3>1. Kept(0, [n \in 0..0 |-> <<>>])
      OBVIOUS
    <3> QED BY <3>1
  <2>2. ASSUME NEW m \in Nat, m \in N PROVE m + 1 \in N
    <3>1. PICK f : Kept(m, f)
      BY <2>2
    <3> DEFINE g == [n \in 0..(m + 1) |-> IF n = m + 1 THEN step(f, m + 1) ELSE f[n]]
    <3>2. ASSUME NEW n \in 0..(m + 1) PROVE g[n] = step(g, n)
      <4>1. CASE n = m + 1
        <5>1. n # 0 /\ n - 1 \in 0..(m + 1) /\ g[n - 1] = f[n - 1] /\ g[n] = step(f, n)
          BY <4>1
        <5> HIDE DEF g
        <5> QED BY <5>1
      <4>2. CASE n # m + 1
        <5>1. n \in 0..m /\ g[n] = f[n] /\ (n # 0 => g[n - 1] = f[n - 1])
          BY <4>2
        <5>2. f[n] = step(f, n)
          BY <3>1, <5>1
        <5> HIDE DEF g
        <5> QED BY <5>1, <5>2
      <4> QED BY <4>1, <4>2
    <3>3. g = [n \in 0..(m + 1) |-> g[n]]
      OBVIOUS
    <3> HIDE DEF g, step
    <3>4. Kept(m + 1, g)
      BY <3>2, <3>3
    <3> QED BY <3>4
  <2> HIDE DEF N, Kept
  <2>3. \A m \in Nat : m \in N
    BY <2>1, <2>2, Induction
  <2> QED BY <2>3 DEF N
<1>4. Kept(Len(s), kept)
  <2> HIDE DEF Kept
  <2> QED BY <1>1, <1>3
<1>5. \A n \in 0..Len(s) : kept[n] = step(kept, n)
  <2> HIDE DEF kept, step
  <2> QED BY <1>4
<1> HIDE DEF kept
<1> DEFINE Good(n) == /\ kept[n] \in Seq(SetElement) /\ Distinct(kept[n])
                      /\ Held(kept[n]) = {e \in {s[j] : j \in 1..n} : C!Passes(e)}
           N == {n \in Nat : n <= Len(s) => Good(n)}
<1>6. 0 \in N
  <2>1. kept[0] = <<>>
    BY <1>1, <1>5
  <2>2. <<>> \in Seq(SetElement) /\ Len(<<>>) = 0
    OBVIOUS
  <2>3. Held(<<>>) = {} /\ Distinct(<<>>)
    BY <2>2 DEF Held, Distinct
  <2>4. {s[j] : j \in 1..0} = {}
    OBVIOUS
  <2>5. {e \in {s[j] : j \in 1..0} : C!Passes(e)} = {}
    BY <2>4
  <2> QED BY <2>1, <2>2, <2>3, <2>5
<1>7. ASSUME NEW n \in Nat, n \in N PROVE n + 1 \in N
  <2> SUFFICES ASSUME n + 1 <= Len(s) PROVE Good(n + 1)
    OBVIOUS
  <2>1. Good(n) /\ n + 1 \in 0..Len(s) /\ n + 1 \in 1..Len(s)
    BY <1>1, <1>7
  <2> DEFINE q == kept[n]
             e == s[n + 1]
             Y == {s[j] : j \in 1..n}
  <2>2. q \in Seq(SetElement) /\ Distinct(q) /\ Held(q) = {x \in Y : C!Passes(x)}
    BY <2>1
  <2>3. kept[n + 1] = IF C!Passes(e) THEN Append(q, e) ELSE q
    BY <1>5, <2>1
  <2>4. e \in SetElement /\ e \notin Y /\ {s[j] : j \in 1..(n + 1)} = Y \cup {e}
    BY <1>1, <2>1 DEF Distinct
  <2> HIDE DEF q, e, Y, N
  <2>5. CASE C!Passes(e)
    <3>1. /\ Append(q, e) \in Seq(SetElement) /\ Len(Append(q, e)) = Len(q) + 1 /\ Len(q) \in Nat
          /\ \A i \in 1..Len(q) : Append(q, e)[i] = q[i]
          /\ Append(q, e)[Len(q) + 1] = e
      BY <2>2, <2>4, AppendProperties
    <3>2. Held(Append(q, e)) = Held(q) \cup {e}
      BY <3>1 DEF Held
    <3>3. e \notin Held(q)
      BY <2>2, <2>4
    <3>4. Distinct(Append(q, e))
      <4> SUFFICES ASSUME NEW j \in 1..(Len(q) + 1), NEW k \in 1..(Len(q) + 1),
                          Append(q, e)[j] = Append(q, e)[k]
                   PROVE  j = k
        BY <3>1 DEF Distinct
      <4>1. /\ j \in 1..Len(q) \/ j = Len(q) + 1
            /\ k \in 1..Len(q) \/ k = Len(q) + 1
        BY <3>1
      <4> QED BY <2>2, <3>1, <3>3, <4>1 DEF Distinct, Held
    <3> QED BY <2>2, <2>3, <2>4, <2>5, <3>1, <3>2, <3>4
  <2>6. CASE ~ C!Passes(e)
    BY <2>2, <2>3, <2>4, <2>6
  <2> QED BY <2>5, <2>6
<1> HIDE DEF N
<1>8. \A n \in Nat : n \in N
  BY <1>6, <1>7, Induction
<1>9. Good(Len(s))
  <2> HIDE DEF Good
  <2> QED BY <1>1, <1>8 DEF N
<1>10. {s[j] : j \in 1..Len(s)} = Held(s)
  BY DEF Held
<1> QED BY <1>2, <1>9, <1>10

(* The root that hash_vec computes is the only element of a level.         *)
LEMMA RootIs ==
  ASSUME NEW s, IsList(s), Distinct(s), Told(s)
  PROVE  \E d \in Nat : \E lv : /\ Levels(s, lv, d, C!Inner(s)) /\ Len(lv[d]) = 1
                                /\ C!hash_vec(s) = lv[d][1]
<1> DEFINE n == Len(s)
           step(f, k) == IF k = 1 THEN H!Pairs(H!StringsOf(s))
                         ELSE IF Len(f[k - 1]) > 1 THEN H!Pairs(f[k - 1]) ELSE f[k - 1]
           Made(m, f) == f = [k \in 1..m |-> step(f, k)]
           level == CHOOSE f : Made(n, f)
<1>1. n \in Nat \ {0}
  BY DEF IsList
<1>2. C!levels(s) = level
  <2>1. \A x : C!H!Pairs(x) = H!Pairs(x)
    BY DEF C!H!Pairs, C!H!hash_twin, H!Pairs, H!hash_twin
  <2>2. C!H!StringsOf(s) = H!StringsOf(s)
    BY DEF C!H!StringsOf, H!StringsOf
  <2> QED BY <2>1, <2>2 DEF C!levels
<1>3. \A m \in Nat : \E f : Made(m, f)
  <2> DEFINE N == {m \in Nat : \E f : Made(m, f)}
  <2>1. 0 \in N
    <3>1. Made(0, [k \in 1..0 |-> <<>>])
      OBVIOUS
    <3> QED BY <3>1
  <2>2. ASSUME NEW m \in Nat, m \in N PROVE m + 1 \in N
    <3>1. PICK f : Made(m, f)
      BY <2>2
    <3> DEFINE g == [k \in 1..(m + 1) |-> IF k = m + 1 THEN step(f, m + 1) ELSE f[k]]
    <3>2. ASSUME NEW k \in 1..(m + 1) PROVE g[k] = step(g, k)
      <4>1. CASE k = m + 1
        <5>1. (k # 1 => g[k - 1] = f[k - 1]) /\ g[k] = step(f, k)
          BY <4>1
        <5> HIDE DEF g
        <5> QED BY <5>1
      <4>2. CASE k # m + 1
        <5>1. k \in 1..m /\ g[k] = f[k] /\ (k # 1 => g[k - 1] = f[k - 1])
          BY <4>2
        <5>2. f[k] = step(f, k)
          BY <3>1, <5>1
        <5> HIDE DEF g
        <5> QED BY <5>1, <5>2
      <4> QED BY <4>1, <4>2
    <3>3. g = [k \in 1..(m + 1) |-> g[k]]
      OBVIOUS
    <3> HIDE DEF g, step
    <3>4. Made(m + 1, g)
      BY <3>2, <3>3
    <3> QED BY <3>4
  <2> HIDE DEF N, Made
  <2>3. \A m \in Nat : m \in N
    BY <2>1, <2>2, Induction
  <2> QED BY <2>3 DEF N
<1>4. Made(n, level)
  <2> HIDE DEF Made, n
  <2> QED BY <1>1, <1>3
<1>5. \A k \in 1..n : level[k] = step(level, k)
  <2> HIDE DEF level, step, n
  <2> QED BY <1>4
<1> HIDE DEF level
<1> DEFINE I == C!Inner(s)
<1>20. ASSUME NEW k \in 1..n, IsList(level[k]) PROVE Held(level[k]) \subseteq I
  <2>1. DOMAIN level[k] = 1..Len(level[k])
    BY <1>20 DEF IsList
  <2> HIDE DEF n
  <2>2. C!ToSet(level[k]) \subseteq I
    BY <1>2 DEF C!Inner, n
  <2> QED BY <2>1, <2>2 DEF Held, C!ToSet
<1> HIDE DEF I
<1> DEFINE Good(k) == /\ \E d \in Nat : \E lv : Levels(s, lv, d, I) /\ level[k] = lv[d]
                      /\ IsList(level[k]) /\ Len(level[k]) <= (n - k) + 1
           N == {m \in Nat : m + 1 <= n => Good(m + 1)}
<1>6. 0 \in N
  <2>1. level[1] = H!Pairs(H!StringsOf(s))
    BY <1>1, <1>5
  <2>2. IsList(H!StringsOf(s)) /\ Len(H!StringsOf(s)) = n
    BY StringsAre
  <2>3. IsList(level[1]) /\ Len(level[1]) = (n + 1) \div 2
    BY <2>1, <2>2, PairsAre
  <2>4. 1 \in 1..n
    BY <1>1
  <2>40. Held(H!Pairs(H!StringsOf(s))) \subseteq I
    BY <1>20, <2>1, <2>3, <2>4
  <2>5. PICK mv : Levels(s, mv, 1, I) /\ level[1] = mv[1]
    BY <2>1, <2>40, LevelsStart
  <2> HIDE DEF n
  <2>7. Len(level[1]) <= (n - 1) + 1
    BY <1>1, <2>3
  <2> QED BY <2>3, <2>5, <2>7
<1>7. ASSUME NEW m \in Nat, m \in N PROVE m + 1 \in N
  <2> SUFFICES ASSUME (m + 1) + 1 <= n PROVE Good((m + 1) + 1)
    OBVIOUS
  <2> DEFINE k == m + 1
  <2>1. k \in 1..n /\ k + 1 \in 1..n /\ k + 1 # 1 /\ (k + 1) - 1 = k /\ Good(k)
    <3>1. m \in N /\ m + 1 <= n
      BY <1>1, <1>7
    <3>2. Good(m + 1)
      BY <3>1
    <3> HIDE DEF Good, n
    <3> QED BY <1>1, <3>2
  <2>2. level[k + 1] = IF Len(level[k]) > 1 THEN H!Pairs(level[k]) ELSE level[k]
    BY <1>5, <2>1
  <2>3. PICK d \in Nat : \E lv : Levels(s, lv, d, I) /\ level[k] = lv[d]
    BY <2>1
  <2>4. PICK lv : Levels(s, lv, d, I) /\ level[k] = lv[d]
    BY <2>3
  <2>5. IsList(level[k]) /\ Len(level[k]) <= (n - k) + 1 /\ Len(level[k]) \in Nat \ {0}
    BY <2>1 DEF IsList
  <2> HIDE DEF n, k, N
  <2>6. CASE Len(level[k]) > 1
    <3>1. level[k + 1] = H!Pairs(level[k])
      BY <2>2, <2>6
    <3>20. IsList(level[k + 1])
      BY <2>5, <3>1, PairsAre
    <3>21. Held(H!Pairs(lv[d])) \subseteq I
      BY <1>20, <2>1, <2>4, <3>1, <3>20
    <3>2. PICK mv : Levels(s, mv, d + 1, I) /\ mv[d + 1] = H!Pairs(lv[d])
      BY <2>4, <3>21, LevelsGrow
    <3>3. IsList(level[k + 1]) /\ Len(level[k + 1]) = (Len(level[k]) + 1) \div 2
      BY <2>5, <3>1, PairsAre
    <3>4. Len(level[k + 1]) <= (n - (k + 1)) + 1
      <4> DEFINE l == Len(level[k])
                 h == Len(level[k + 1])
      <4>1. l \in Nat /\ l > 1 /\ l <= (n - k) + 1 /\ h = (l + 1) \div 2
        BY <2>5, <2>6, <3>3
      <4> HIDE DEF l, h
      <4>2. h <= l - 1 /\ h \in Int
        BY <4>1
      <4>3. n \in Int /\ k \in Int
        BY <1>1, <2>1
      <4>4. h <= (n - (k + 1)) + 1
        BY <4>1, <4>2, <4>3
      <4> QED BY <4>4 DEF h
    <3>5. d + 1 \in Nat /\ level[k + 1] = mv[d + 1]
      BY <2>4, <3>1, <3>2
    <3>6. Good(k + 1)
      BY <3>2, <3>3, <3>4, <3>5
    <3> QED BY <3>6 DEF k
  <2>7. CASE ~ (Len(level[k]) > 1)
    <3>1. level[k + 1] = level[k]
      BY <2>2, <2>7
    <3>2. Len(level[k]) <= (n - (k + 1)) + 1
      <4>1. Len(level[k]) = 1
        <5> DEFINE l == Len(level[k])
        <5>1. l \in Nat \ {0} /\ ~ (l > 1)
          BY <2>5, <2>7
        <5> HIDE DEF l
        <5>2. l = 1
          BY <5>1
        <5> QED BY <5>2 DEF l
      <4>2. n \in Int /\ k \in Int /\ k + 1 <= n
        BY <1>1, <2>1
      <4> QED BY <4>1, <4>2
    <3>3. Good(k + 1)
      BY <2>3, <2>5, <3>1, <3>2
    <3> QED BY <3>3 DEF k
  <2> QED BY <2>6, <2>7
<1> HIDE DEF N
<1>8. \A m \in Nat : m \in N
  BY <1>6, <1>7, Induction
<1>9. Good(n)
  <2>1. n - 1 \in Nat /\ (n - 1) + 1 = n /\ n - 1 \in N
    BY <1>1, <1>8
  <2> HIDE DEF Good, n
  <2> QED BY <2>1 DEF N
<1>10. Len(level[n]) = 1
  <2>1. Len(level[n]) \in Nat \ {0} /\ Len(level[n]) <= (n - n) + 1
    BY <1>9 DEF IsList
  <2> DEFINE l == Len(level[n])
  <2>2. l \in Nat \ {0} /\ l <= (n - n) + 1
    BY <2>1
  <2> HIDE DEF n, l
  <2>3. n - n = 0
    BY <1>1
  <2>4. l = 1
    BY <2>2, <2>3
  <2> QED BY <2>4 DEF l
<1>11. C!hash_vec(s) = level[n][1]
  BY <1>2 DEF C!hash_vec
<1> QED BY <1>9, <1>10, <1>11 DEF I

(* Lists with the same root are the same, or the one is a level of the       *)
(* other.                                                                   *)
LEMMA RootTells ==
  ASSUME NEW s, NEW t, IsList(s), IsList(t), Distinct(s), Distinct(t), Told(s), Told(t),
         ToldApart(s, t), ToldApart(t, s), C!hash_vec(s) = C!hash_vec(t)
  PROVE  \/ s = t
         \/ \A k \in 1..Len(s) : Raw[s[k]] \in C!Inner(t)
         \/ \A k \in 1..Len(t) : Raw[t[k]] \in C!Inner(s)
<1>1. PICK d \in Nat : \E lv : Levels(s, lv, d, C!Inner(s)) /\ Len(lv[d]) = 1 /\ C!hash_vec(s) = lv[d][1]
  BY RootIs
<1>2. PICK lv : Levels(s, lv, d, C!Inner(s)) /\ Len(lv[d]) = 1 /\ C!hash_vec(s) = lv[d][1]
  BY <1>1
<1>3. PICK e \in Nat : \E mv : Levels(t, mv, e, C!Inner(t)) /\ Len(mv[e]) = 1 /\ C!hash_vec(t) = mv[e][1]
  BY RootIs
<1>4. PICK mv : Levels(t, mv, e, C!Inner(t)) /\ Len(mv[e]) = 1 /\ C!hash_vec(t) = mv[e][1]
  BY <1>3
<1>5. lv[d] = mv[e]
  <2> DEFINE x == lv[d]
             y == mv[e]
  <2>1. IsList(x) /\ Len(x) = 1 /\ IsList(y) /\ Len(y) = 1 /\ x[1] = y[1]
    <3>1. IsList(x)
      BY <1>2 DEF Levels
    <3>2. IsList(y)
      BY <1>4 DEF Levels
    <3> QED BY <1>2, <1>4, <3>1, <3>2
  <2> HIDE DEF x, y
  <2>2. x = [k \in 1..1 |-> x[k]] /\ y = [k \in 1..1 |-> y[k]]
    BY <2>1 DEF IsList
  <2>3. \A k \in 1..1 : x[k] = y[k]
    BY <2>1
  <2>4. [k \in 1..1 |-> x[k]] = [k \in 1..1 |-> y[k]]
    BY <2>3
  <2>5. x = y
    BY <2>2, <2>4
  <2> QED BY <2>5 DEF x, y
<1>6. CASE d <= e
  BY <1>2, <1>4, <1>5, <1>6, LevelsTell
<1>7. CASE e <= d
  BY <1>2, <1>4, <1>5, <1>7, LevelsTell
<1> QED BY <1>6, <1>7

(* Lists of members of U, in whatever order, none twice. *)
LEMMA Orders ==
  ASSUME NEW U \in SUBSET SetElement, NEW f \in [1..Cardinality(U) -> U],
         \A j, k \in 1..Cardinality(U) : f[j] = f[k] => j = k
  PROVE  f \in Seq(SetElement) /\ Distinct(f) /\ Held(f) = U
<1> DEFINE n == Cardinality(U)
<1>1. IsFiniteSet(U) /\ n \in Nat
  BY Elements
<1>2. f \in [1..n -> SetElement]
  OBVIOUS
<1>3. IsFiniteSet(1..n) /\ Cardinality(1..n) = n
  <2>1. Cardinality(1..n) = IF 1 > n THEN 0 ELSE n - 1 + 1
    BY <1>1, FS_Interval
  <2> QED BY <1>1, <2>1, FS_Interval
<1>4. f \in Injection(1..n, U)
  BY DEF Injection, IsInjective
<1>5. f \in Surjection(1..n, U)
  BY <1>1, <1>3, <1>4, FS_Injection
<1>6. f \in Seq(SetElement) /\ Len(f) = n
  <2> HIDE DEF n
  <2> QED BY <1>1, <1>2, LenIs
<1>7. \A e \in U : \E k \in 1..n : f[k] = e
  BY <1>5 DEF Surjection
<1> QED BY <1>6, <1>7 DEF Distinct, Held

(* The set the hash stands for, sorted. *)
LEMMA TargetIs ==
  ASSUME NEW U \in SUBSET SetElement
  PROVE  Ascending(C!Ordered(U), U)
<1> DEFINE n == Cardinality(U)
           f == C!SetToSeq(U)
<1>1. IsFiniteSet(U) /\ C!Cardinality(U) = n
  BY Elements
<1>2. PICK g : g \in Bijection(1..n, U)
  BY <1>1, FS_CardinalityType DEF ExistsBijection
<1>3. g \in [1..n -> U] /\ \A j, k \in 1..n : g[j] = g[k] => j = k
  BY <1>2 DEF Bijection, Injection, IsInjective
<1>4. C!IsInjective(g)
  BY <1>3 DEF C!IsInjective
<1>5. f \in [1..n -> U] /\ C!IsInjective(f)
  BY <1>1, <1>3, <1>4 DEF C!SetToSeq
<1>6. \A j, k \in 1..n : f[j] = f[k] => j = k
  BY <1>5 DEF C!IsInjective
<1> HIDE DEF f
<1>7. f \in Seq(SetElement) /\ Distinct(f) /\ Held(f) = U
  BY <1>5, <1>6, Orders
<1>8. Ascending(C!sort(f), U)
  BY <1>7, SortIs
<1> QED BY <1>8 DEF f, C!Ordered

(* filter() forgets what the last call left. *)
LEMMA FilterStep == ASSUME ReconInv, NEW set \in C!Lists, C!filter(set) PROVE ReconInv'
<1>1. s1' = s1 /\ s2' = s2 /\ s3' = set /\ s4' = C!Passing(set) /\ s5' = None
  BY DEF C!filter
<1>2. PICK U \in SUBSET SetElement : set \in C!SetToSeqs(U)
  BY DEF C!Lists
<1>3. /\ set \in [1..Cardinality(U) -> U]
      /\ \A j, k \in 1..Cardinality(U) : set[j] = set[k] => j = k
  BY <1>2, Elements DEF C!SetToSeqs
<1>4. set \in Seq(SetElement) /\ Distinct(set) /\ Held(set) = U
  BY <1>3, Orders
<1>5. /\ C!Passing(set) \in Seq(SetElement) /\ Distinct(C!Passing(set))
      /\ Held(C!Passing(set)) = {e \in Held(set) : C!Passes(e)}
  BY <1>4, PassingIs
<1>6. s3' \in Seq(SetElement) /\ s4' \in Seq(SetElement)
  BY <1>1, <1>4, <1>5
<1>7. Distinct(s4)' /\ (Held(s4) = {e \in Held(s3) : C!Passes(e)})'
  <2>1. Distinct(s4)'
    BY <1>1, <1>5 DEF Distinct
  <2>2. \A e : C!Passes(e)' <=> C!Passes(e)
    BY <1>1 DEF C!Passes
  <2>3. Held(s3)' = Held(set)
    BY <1>1 DEF Held
  <2>4. Held(s4)' = Held(C!Passing(set))
    BY <1>1 DEF Held
  <2> QED BY <1>5, <2>1, <2>2, <2>3, <2>4
<1>8. C!CheckTells'
  BY <1>1 DEF C!CheckTells
<1> QED BY <1>1, <1>6, <1>7, <1>8 DEF ReconInv

(* What passed, as the property has it. *)
LEMMA GotIs == ASSUME s3 \in Seq(SetElement) PROVE C!Got = {e \in Held(s3) : C!Passes(e)}
<1>1. DOMAIN s3 = 1..Len(s3)
  BY LenProperties
<1>2. C!ToSet(s3) = Held(s3)
  BY <1>1 DEF Held, C!ToSet
<1> QED BY <1>2 DEF C!Got

(* Two sets in order, for the root to tell them. *)
LEMMA OrderedTold ==
  ASSUME NEW U \in SUBSET SetElement, NEW V \in SUBSET SetElement, U # {}, V # {},
         NEW a, NEW b, Ascending(a, U), Ascending(b, V)
  PROVE  /\ IsList(a) /\ Distinct(a) /\ Held(a) = U /\ Told(a)
         /\ IsList(b) /\ Distinct(b) /\ Held(b) = V /\ Told(b)
         /\ ToldApart(a, b) /\ ToldApart(b, a)
<1>1. \A e, f \in SetElement : Raw[e] = Raw[f] => e = f
  BY PartsAssumption DEF C!ReconcileAssumption, C!H!HashVecAssumption
<1>2. IsList(a) /\ Distinct(a) /\ Held(a) = U
  BY AscendingIs
<1>3. IsList(b) /\ Distinct(b) /\ Held(b) = V
  BY AscendingIs
<1>4. (\A k \in 1..Len(a) : a[k] \in SetElement) /\ \A k \in 1..Len(b) : b[k] \in SetElement
  BY <1>2, <1>3 DEF Held
<1> QED BY <1>1, <1>2, <1>3, <1>4 DEF Told, ToldApart

(* check() compares the root of what is left with the set's. *)
LEMMA CheckStep == ASSUME ReconInv, C!check PROVE ReconInv'
<1>1. /\ s1' = s1 /\ s2' = s2 /\ s3' = s3 /\ s4' = s4
      /\ s5' = (s4 # <<>> /\ C!hash_vec(C!sort(s4)) = C!hash_vec(C!Ordered(s1)))
  BY DEF C!check, C!hash
<1> DEFINE a == C!sort(s4)
           b == C!Ordered(s1)
           G == Held(s4)
<1>2. /\ s1 \in SUBSET SetElement /\ s1 # {} /\ s3 \in Seq(SetElement) /\ s4 \in Seq(SetElement)
      /\ Distinct(s4) /\ G = {e \in Held(s3) : C!Passes(e)}
  BY DEF ReconInv
<1>3. Ascending(a, G) /\ G \in SUBSET SetElement /\ Ascending(b, s1) /\ Ascending(C!Ordered(G), G)
  <2>1. Ascending(a, G) /\ G \in SUBSET SetElement
    BY <1>2, SortIs
  <2> HIDE DEF G
  <2> QED BY <1>2, <2>1, TargetIs
<1>4. s4 = <<>> <=> G = {}
  <2>1. Len(s4) \in Nat /\ (Len(s4) = 0 <=> s4 = <<>>)
    BY <1>2, EmptySeq, LenProperties
  <2>2. s4 # <<>> => 1 \in 1..Len(s4)
    BY <2>1
  <2> QED BY <2>1, <2>2 DEF Held
<1>5. s5' <=> G # {} /\ C!hash_vec(a) = C!hash_vec(b)
  BY <1>1, <1>4
<1>6. C!Got = G
  BY <1>2, GotIs
<1> HIDE DEF a, b, G
<1>7. a = C!Ordered(G) /\ (G = s1 => a = b)
  BY <1>2, <1>3, AscendingTells
<1>8. G # {} /\ C!hash_vec(a) = C!hash_vec(b) => G = s1 \/ C!MadeOf(G, s1) \/ C!MadeOf(s1, G)
  <2> SUFFICES ASSUME G # {}, C!hash_vec(a) = C!hash_vec(b)
               PROVE  G = s1 \/ C!MadeOf(G, s1) \/ C!MadeOf(s1, G)
    OBVIOUS
  <2>1. /\ IsList(a) /\ Distinct(a) /\ Held(a) = G /\ Told(a)
        /\ IsList(b) /\ Distinct(b) /\ Held(b) = s1 /\ Told(b)
        /\ ToldApart(a, b) /\ ToldApart(b, a)
    BY <1>2, <1>3, OrderedTold
  <2>2. \/ a = b
        \/ \A k \in 1..Len(a) : Raw[a[k]] \in C!Inner(b)
        \/ \A k \in 1..Len(b) : Raw[b[k]] \in C!Inner(a)
    BY <2>1, RootTells
  <2>3. (\A k \in 1..Len(a) : Raw[a[k]] \in C!Inner(b)) => C!MadeOf(G, s1)
    BY <2>1 DEF b, C!MadeOf, Held
  <2>4. (\A k \in 1..Len(b) : Raw[b[k]] \in C!Inner(a)) => C!MadeOf(s1, G)
    BY <1>7, <2>1 DEF C!MadeOf, Held
  <2>5. a = b => G = s1
    BY <2>1
  <2> QED BY <2>2, <2>3, <2>4, <2>5
<1>9. \A e : C!Passes(e)' <=> C!Passes(e)
  BY <1>1 DEF C!Passes
<1>10. C!CheckTells'
  <2>1. (G = s1 => s5') /\ (s5' => G # {} /\ (G = s1 \/ C!MadeOf(G, s1) \/ C!MadeOf(s1, G)))
    BY <1>2, <1>5, <1>7, <1>8
  <2>2. C!Got' = G
    BY <1>1, <1>6, <1>9 DEF C!Got, C!ToSet
  <2>3. C!MadeOf(C!Got, s1)' <=> C!MadeOf(G, s1)
    BY <1>1, <2>2 DEF C!MadeOf
  <2>4. C!MadeOf(s1, C!Got)' <=> C!MadeOf(s1, G)
    BY <1>1, <2>2 DEF C!MadeOf
  <2> QED BY <1>1, <2>1, <2>2, <2>3, <2>4 DEF C!CheckTells
<1>11. Distinct(s4)' /\ (Held(s4) = {e \in Held(s3) : C!Passes(e)})'
  <2>1. Distinct(s4)'
    BY <1>1, <1>2 DEF Distinct
  <2>2. Held(s3)' = Held(s3) /\ Held(s4)' = Held(s4)
    BY <1>1 DEF Held
  <2> QED BY <1>2, <1>9, <2>1, <2>2 DEF G
<1>12. \A f \in s2' : s1' \subseteq f
  BY <1>1 DEF ReconInv
<1> QED BY <1>1, <1>2, <1>10, <1>11, <1>12 DEF ReconInv

(* For every set, list and filters check() is true if what the filters let *)
(* through is the set, and true of nothing else but a set of hashes that    *)
(* hash_vec makes of it, or of which it is one.                            *)
THEOREM CheckSaysSame == Spec => []CheckTells
<1>1. Init => (part = "reconcile" => ReconInv)
  <2> SUFFICES ASSUME Init, part = "reconcile" PROVE ReconInv
    OBVIOUS
  <2>1. C!Init
    BY DEF Init
  <2>2. /\ s1 \subseteq SetElement /\ s1 # {} /\ \A f \in s2 : s1 \subseteq f
        /\ s3 = <<>> /\ s4 = <<>> /\ s5 = None
    <3>1. /\ s1 \in (SUBSET SetElement) \ {{}} /\ s2 \subseteq {f \in SUBSET SetElement : s1 \subseteq f}
          /\ s3 = <<>> /\ s4 = <<>> /\ s5 = None
      BY <2>1 DEF C!Init
    <3>2. s1 \subseteq SetElement /\ s1 # {}
      BY <3>1
    <3>3. \A f \in s2 : s1 \subseteq f
      <4> DEFINE F == {f \in SUBSET SetElement : s1 \subseteq f}
      <4>1. \A f \in F : s1 \subseteq f
        OBVIOUS
      <4>2. s2 \subseteq F
        BY <3>1
      <4> HIDE DEF F
      <4> QED BY <4>1, <4>2
    <3> QED BY <3>1, <3>2, <3>3
  <2>3. <<>> \in Seq(SetElement) /\ Len(<<>>) = 0
    OBVIOUS
  <2>4. Held(<<>>) = {} /\ Distinct(<<>>)
    BY <2>3 DEF Held, Distinct
  <2> QED BY <2>2, <2>3, <2>4 DEF ReconInv, C!CheckTells
<1>2. (part = "reconcile" => ReconInv) /\ [Next]_vars => (part = "reconcile" => ReconInv)'
  <2>1. [Next]_vars => UNCHANGED part
    BY DEF Next, vars
  <2>2. part = "reconcile" /\ [Next]_vars => C!Next \/ UNCHANGED <<s1, s2, s3, s4, s5>>
    BY DEF Next, vars
  <2>3. ReconInv /\ UNCHANGED <<s1, s2, s3, s4, s5>> => ReconInv'
    <3> SUFFICES ASSUME ReconInv, UNCHANGED <<s1, s2, s3, s4, s5>> PROVE ReconInv'
      OBVIOUS
    <3>1. \A e : C!Passes(e)' <=> C!Passes(e)
      BY DEF C!Passes
    <3>2. Held(s3)' = Held(s3) /\ Held(s4)' = Held(s4) /\ C!ToSet(s3)' = C!ToSet(s3)
      BY DEF Held, C!ToSet
    <3>3. Distinct(s4)' <=> Distinct(s4)
      BY DEF Distinct
    <3>4. C!CheckTells'
      <4>1. C!Got' = C!Got
        BY <3>1, <3>2 DEF C!Got
      <4>2. C!MadeOf(C!Got, s1)' <=> C!MadeOf(C!Got, s1)
        BY <4>1 DEF C!MadeOf
      <4>3. C!MadeOf(s1, C!Got)' <=> C!MadeOf(s1, C!Got)
        BY <4>1 DEF C!MadeOf
      <4> QED BY <4>1, <4>2, <4>3 DEF ReconInv, C!CheckTells
    <3> QED BY <3>1, <3>2, <3>3, <3>4 DEF ReconInv
  <2>4. ReconInv /\ C!Next => ReconInv'
    BY FilterStep, CheckStep DEF C!Next
  <2> QED BY <2>1, <2>2, <2>3, <2>4
<1>3. (part = "reconcile" => ReconInv) => CheckTells
  BY DEF ReconInv, CheckTells
<1> QED BY <1>1, <1>2, <1>3, PTL DEF Spec

-----------------------------------------------------------------------------
(* estimate_outside_ip: dump, socket, msgBuf, msgLen, interface, ifaddr,    *)
(* ip, all and pc are s1 to s9.                                             *)

Lens(d) == [k \in Nat |-> d[k].len]

(* fl holds what the first datagrams of D are together. *)
Joined(fl, D) ==
  /\ fl[0] = <<>>
  /\ \A i \in 0..Len(D) : fl[i] \in Seq(Messages)
  /\ \A i \in 1..Len(D) : fl[i] = fl[i - 1] \o D[i]
  /\ O!FlattenSeq(D) = fl[Len(D)]

(* s is what follows the first i elements of x. *)
Rest(s, x, i) == Len(s) = Len(x) - i /\ s = [k \in 1..Len(s) |-> x[i + k]]

Routes == O!FlattenSeq(s1)

Named(k) == Routes[k].main /\ Routes[k].default /\ Routes[k].oif # None

(* The interface found in the first i routes. *)
Found(i) ==
  \/ s5 = None /\ \A k \in 1..i : ~ Named(k)
  \/ \E k \in 1..i : Named(k) /\ s5 = Routes[k].oif /\ \A m \in 1..i : m > k => ~ Named(m)

(* What was received is what was sent so far, or the buffer is full. *)
Reading(j) ==
  /\ \E last \in {"DONE", "ERROR"} : Rest(s2, Append(s1, <<O!Control(last)>>), j)
  /\ \A fl : Joined(fl, s1) => s4 = BUFSIZE \/ (s3 = fl[j] /\ s4 = O!Size(fl[j]))

RoutesInv ==
  /\ s1 \in Dumps
  /\ s4 \in Nat /\ s4 <= BUFSIZE
  /\ s9 = "read" => s5 = None /\ \E j \in 0..Len(s1) : Reading(j)
  /\ s9 \in {"parse", "addrs"} => s4 = O!Size(Routes)
  /\ s9 \in {"read", "parse"} => s7 = None
  /\ s9 = "parse" => \E i \in 0..Len(Routes) : Rest(s3, Routes, i) /\ Found(i)
  /\ s9 = "addrs" =>
       /\ s5 = O!Default /\ s8 \in Addresses
       /\ \E i \in 0..Len(s8) :
            Rest(s6, s8, i) /\ (s7 = None => \A k \in 1..i : ~ O!Outside(s8[k], O!Default))
  /\ s7 # None => \E k \in DOMAIN s8 : s8[k].host = s7 /\ O!Outside(s8[k], O!Default)

(* What the kernel's answers are made of. *)
LEMMA Kernel ==
  /\ BUFSIZE \in Nat /\ HDR \in Nat \ {0}
  /\ \A m \in Messages : m.type = "route" /\ m.main \in BOOLEAN /\ m.default \in BOOLEAN /\ m.len \in Nat
  /\ \A D \in Dumps :
       /\ D \in Seq(Seq(Messages)) /\ Len(D) \in Nat
       /\ \A i \in 1..Len(D) : D[i] \in Seq(Messages) /\ D[i] # <<>>
<1>1. /\ BUFSIZE \in Nat /\ HDR \in Nat \ {0}
      /\ \A m \in Messages : m.type = "route" /\ m.main \in BOOLEAN /\ m.default \in BOOLEAN /\ m.len \in Nat
      /\ Dumps \subseteq Seq(Seq(Messages) \ {<<>>})
  BY PartsAssumption DEF O!RoutesAssumption
<1>2. ASSUME NEW D \in Dumps
      PROVE  /\ D \in Seq(Seq(Messages)) /\ Len(D) \in Nat
             /\ \A i \in 1..Len(D) : D[i] \in Seq(Messages) /\ D[i] # <<>>
  <2> DEFINE V == Seq(Messages) \ {<<>>}
  <2>1. D \in Seq(V)
    BY <1>1
  <2> HIDE DEF V
  <2>2. Len(D) \in Nat /\ D \in [1..Len(D) -> V]
    BY <2>1, SeqIs
  <2>3. D \in [1..Len(D) -> Seq(Messages)]
    BY <2>2 DEF V
  <2>4. D \in Seq(Seq(Messages))
    BY <2>2, <2>3, LenIs
  <2>5. \A i \in 1..Len(D) : D[i] \in V
    BY <2>2
  <2> QED BY <2>2, <2>4, <2>5 DEF V
<1> QED BY <1>1, <1>2

(* The size of a datagram is a sum, and there is a function of its partial *)
(* sums.                                                                   *)
LEMMA SizeSum ==
  ASSUME NEW d, Len(d) \in Nat
  PROVE  \E f : SumOf(Lens(d), Len(d), f) /\ O!Size(d) = f[Len(d)]
<1> DEFINE g == Lens(d)
           n == Len(d)
           f == CHOOSE f : f = [k \in 0..n |-> IF k = 0 THEN 0 ELSE f[k - 1] + d[k].len]
<1>1. \E e : e = [k \in 0..n |-> IF k = 0 THEN 0 ELSE e[k - 1] + d[k].len]
  <2>1. PICK e : SumOf(g, n, e)
    BY SumExists
  <2>2. \A k \in 0..n : e[k] = IF k = 0 THEN 0 ELSE e[k - 1] + d[k].len
    BY <2>1 DEF SumOf, Lens
  <2>3. e = [k \in 0..n |-> e[k]]
    BY <2>1 DEF SumOf
  <2> QED BY <2>2, <2>3
<1>2. f = [k \in 0..n |-> IF k = 0 THEN 0 ELSE f[k - 1] + d[k].len]
  BY <1>1
<1>3. O!Size(d) = f[n]
  BY DEF O!Size
<1> HIDE DEF f
<1>4. SumOf(g, n, f)
  BY <1>2 DEF SumOf, Lens
<1> QED BY <1>3, <1>4

(* Sizes are natural numbers and add up. *)
LEMMA SizeNat ==
  ASSUME NEW V, \A m \in V : m.len \in Nat, NEW d \in Seq(V)
  PROVE  O!Size(d) \in Nat
<1>1. Len(d) \in Nat /\ \A k \in 1..Len(d) : d[k].len \in Nat
  BY ElementOfSeq
<1>2. PICK f : SumOf(Lens(d), Len(d), f) /\ O!Size(d) = f[Len(d)]
  BY <1>1, SizeSum
<1> DEFINE N == {k \in Nat : k <= Len(d) => f[k] \in Nat}
<1>3. 0 \in N
  BY <1>1, <1>2 DEF SumOf
<1>4. ASSUME NEW k \in Nat, k \in N PROVE k + 1 \in N
  <2> SUFFICES ASSUME k + 1 <= Len(d) PROVE f[k + 1] \in Nat
    OBVIOUS
  <2>1. k + 1 \in 1..Len(d) /\ f[k] \in Nat
    BY <1>1, <1>4
  <2>2. f[k + 1] = f[k] + Lens(d)[k + 1]
    BY <1>2, <2>1 DEF SumOf
  <2>3. Lens(d)[k + 1] \in Nat
    BY <1>1, <2>1 DEF Lens
  <2> QED BY <2>1, <2>2, <2>3
<1> HIDE DEF N
<1>5. \A k \in Nat : k \in N
  BY <1>3, <1>4, Induction
<1> QED BY <1>1, <1>2, <1>5 DEF N

(* What is appended adds its size. *)
LEMMA SizeConcat ==
  ASSUME NEW V, \A m \in V : m.len \in Nat, NEW s \in Seq(V), NEW t \in Seq(V)
  PROVE  O!Size(s \o t) = O!Size(s) + O!Size(t)
<1> DEFINE q == s \o t
<1>1. /\ Len(s) \in Nat /\ Len(t) \in Nat /\ Len(q) = Len(s) + Len(t)
      /\ \A k \in 1..Len(s) : q[k] = s[k]
      /\ \A k \in 1..Len(t) : q[Len(s) + k] = t[k]
  BY LenProperties
<1> HIDE DEF q
<1>2. PICK f : SumOf(Lens(s), Len(s), f) /\ O!Size(s) = f[Len(s)]
  BY <1>1, SizeSum
<1>3. PICK e : SumOf(Lens(t), Len(t), e) /\ O!Size(t) = e[Len(t)]
  BY <1>1, SizeSum
<1>4. PICK h : SumOf(Lens(q), Len(q), h) /\ O!Size(q) = h[Len(q)]
  <2>1. Len(q) \in Nat
    BY <1>1
  <2> QED BY <2>1, SizeSum
<1>5. h[Len(s)] = f[Len(s)]
  <2>1. Len(q) \in Nat /\ Len(s) <= Len(q)
    BY <1>1
  <2>2. \A k \in 1..Len(s) : Lens(s)[k] = Lens(q)[k]
    BY <1>1 DEF Lens
  <2> DEFINE N == {k \in Nat : k <= Len(s) => f[k] = h[k]}
  <2>3. 0 \in N
    BY <1>1, <1>2, <1>4 DEF SumOf
  <2>4. ASSUME NEW k \in Nat, k \in N PROVE k + 1 \in N
    <3> SUFFICES ASSUME k + 1 <= Len(s) PROVE f[k + 1] = h[k + 1]
      OBVIOUS
    <3>1. k + 1 \in 1..Len(s) /\ k + 1 \in 0..Len(q) /\ f[k] = h[k]
      BY <1>1, <2>1, <2>4
    <3>2. f[k + 1] = f[k] + Lens(s)[k + 1]
      BY <1>1, <1>2, <3>1 DEF SumOf
    <3>3. h[k + 1] = h[k] + Lens(q)[k + 1]
      BY <1>1, <1>4, <2>1, <3>1 DEF SumOf
    <3> QED BY <2>2, <3>1, <3>2, <3>3
  <2> HIDE DEF N
  <2>5. \A k \in Nat : k \in N
    BY <2>3, <2>4, Induction
  <2> QED BY <1>1, <2>5 DEF N
<1>6. O!Size(s) \in Nat
  BY SizeNat
<1> DEFINE N == {k \in Nat : k <= Len(t) => h[Len(s) + k] = f[Len(s)] + e[k] /\ e[k] \in Nat}
<1>7. 0 \in N
  <2>1. e[0] = 0
    BY <1>1, <1>3 DEF SumOf
  <2> QED BY <1>1, <1>2, <1>5, <1>6, <2>1
<1>8. ASSUME NEW k \in Nat, k \in N PROVE k + 1 \in N
  <2> SUFFICES ASSUME k + 1 <= Len(t) PROVE h[Len(s) + (k + 1)] = f[Len(s)] + e[k + 1] /\ e[k + 1] \in Nat
    OBVIOUS
  <2>1. k + 1 \in 1..Len(t) /\ h[Len(s) + k] = f[Len(s)] + e[k] /\ e[k] \in Nat
    BY <1>1, <1>8
  <2>2. e[k + 1] = e[k] + Lens(t)[k + 1]
    BY <1>1, <1>3, <2>1 DEF SumOf
  <2> DEFINE c == Len(s) + (k + 1)
  <2>3. c \in 0..Len(q) /\ c # 0 /\ c - 1 = Len(s) + k
    BY <1>1, <2>1
  <2>4. h[c] = h[c - 1] + Lens(q)[c]
    BY <1>4, <2>3 DEF SumOf
  <2>5. Lens(q)[c] = Lens(t)[k + 1] /\ Lens(t)[k + 1] \in Nat
    <3>1. t[k + 1] \in V /\ c \in Nat
      BY <1>1, <2>1, ElementOfSeq
    <3> QED BY <1>1, <2>1, <3>1 DEF Lens
  <2> HIDE DEF c, N
  <2>6. h[c] = f[Len(s)] + e[k + 1] /\ e[k + 1] \in Nat
    BY <1>2, <1>6, <2>1, <2>2, <2>3, <2>4, <2>5
  <2> QED BY <2>6 DEF c
<1> HIDE DEF N
<1>9. \A k \in Nat : k \in N
  BY <1>7, <1>8, Induction
<1>10. h[Len(s) + Len(t)] = f[Len(s)] + e[Len(t)]
  BY <1>1, <1>9 DEF N
<1> QED BY <1>1, <1>2, <1>3, <1>4, <1>10 DEF q

(* The beginning of a datagram is not larger. *)
LEMMA SizePrefix ==
  ASSUME NEW V, \A m \in V : m.len \in Nat, NEW d \in Seq(V), NEW k \in 0..Len(d)
  PROVE  O!Size(SubSeq(d, 1, k)) <= O!Size(d)
<1>1. Len(d) \in Nat /\ k \in Nat /\ k <= Len(d)
  OBVIOUS
<1> DEFINE a == SubSeq(d, 1, k)
           c == SubSeq(d, k + 1, Len(d))
<1>2. a \in Seq(V) /\ c \in Seq(V)
  BY <1>1
<1>3. d = a \o c
  <2>1. 1 \in 1..(Len(d) + 1) /\ k \in (1 - 1)..Len(d) /\ Len(d) \in k..Len(d)
    BY <1>1
  <2>2. a \o c = SubSeq(d, 1, Len(d))
    BY <2>1, ConcatAdjacentSubSeq
  <2> QED BY <2>2, SubSeqFull
<1> HIDE DEF a, c
<1>4. O!Size(a) \in Nat
  BY <1>2, SizeNat
<1>5. O!Size(c) \in Nat
  BY <1>2, SizeNat
<1>6. O!Size(d) = O!Size(a) + O!Size(c)
  BY <1>2, <1>3, SizeConcat
<1>7. O!Size(a) <= O!Size(d)
  BY <1>4, <1>5, <1>6
<1> QED BY <1>7 DEF a

(* A datagram that fits is copied whole. *)
LEMMA WholeIs ==
  ASSUME NEW V, \A m \in V : m.len \in Nat, NEW d \in Seq(V), O!Room \in Nat, O!Size(d) <= O!Room
  PROVE  O!Whole(d) = d
<1> DEFINE Fits0(k) == /\ O!Size(SubSeq(d, 1, k)) <= O!Room
                       /\ k < Len(d) => O!Size(SubSeq(d, 1, k + 1)) > O!Room
<1>1. Len(d) \in Nat /\ SubSeq(d, 1, Len(d)) = d
  OBVIOUS
<1>2. Fits0(Len(d))
  <2>1. O!Size(SubSeq(d, 1, Len(d))) <= O!Room
    <3> HIDE DEF Fits0
    <3> QED BY <1>1
  <2>2. ~ (Len(d) < Len(d))
    BY <1>1
  <2> QED BY <2>1, <2>2
<1>3. ASSUME NEW k \in 0..Len(d), k < Len(d) PROVE ~ Fits0(k)
  <2>1. k + 1 \in 0..Len(d)
    BY <1>1, <1>3
  <2>2. O!Size(SubSeq(d, 1, k + 1)) <= O!Size(d)
    BY <2>1, SizePrefix
  <2>3. O!Size(d) \in Nat
    BY SizeNat
  <2>4. O!Size(SubSeq(d, 1, k + 1)) \in Nat
    <3>1. SubSeq(d, 1, k + 1) \in Seq(V)
      BY <1>1, <2>1
    <3> HIDE DEF Fits0
    <3> QED BY <3>1, SizeNat
  <2> QED BY <1>3, <2>2, <2>3, <2>4
<1>4. O!Whole(d) = SubSeq(d, 1, CHOOSE k \in 0..Len(d) : Fits0(k))
  BY DEF O!Whole
<1> HIDE DEF Fits0
<1>5. (CHOOSE k \in 0..Len(d) : Fits0(k)) = Len(d)
  BY <1>1, <1>2, <1>3
<1> QED BY <1>1, <1>4, <1>5
(* The datagrams one after another: what FlattenSeq makes of the first ones. *)
LEMMA Flattened ==
  ASSUME NEW D \in Seq(Seq(Messages)), Len(D) \in Nat
  PROVE  \E fl : Joined(fl, D)
<1> DEFINE step(f, i) == IF i = 1 THEN D[i] ELSE f[i - 1] \o D[i]
           Kept(m, f) == f = [i \in 1..m |-> step(f, i)]
           kept == CHOOSE f : Kept(Len(D), f)
           fl == [i \in 0..Len(D) |-> IF i = 0 THEN <<>> ELSE kept[i]]
<1>1. \A i \in 1..Len(D) : D[i] \in Seq(Messages)
  BY ElementOfSeq
<1>2. O!FlattenSeq(D) = IF Len(D) = 0 THEN D ELSE kept[Len(D)]
  BY DEF O!FlattenSeq
<1>3. \A m \in Nat : \E f : Kept(m, f)
  <2> DEFINE N == {m \in Nat : \E f : Kept(m, f)}
  <2>1. 0 \in N
    <3>1. Kept(0, [i \in 1..0 |-> <<>>])
      OBVIOUS
    <3> QED BY <3>1
  <2>2. ASSUME NEW m \in Nat, m \in N PROVE m + 1 \in N
    <3>1. PICK f : Kept(m, f)
      BY <2>2
    <3> DEFINE g == [i \in 1..(m + 1) |-> IF i = m + 1 THEN step(f, m + 1) ELSE f[i]]
    <3>2. ASSUME NEW i \in 1..(m + 1) PROVE g[i] = step(g, i)
      <4>1. CASE i = m + 1
        <5>1. g[i] = step(f, i) /\ (i # 1 => g[i - 1] = f[i - 1])
          BY <4>1
        <5> HIDE DEF g
        <5> QED BY <5>1
      <4>2. CASE i # m + 1
        <5>1. i \in 1..m /\ g[i] = f[i] /\ (i # 1 => g[i - 1] = f[i - 1])
          BY <4>2
        <5>2. f[i] = step(f, i)
          BY <3>1, <5>1
        <5> HIDE DEF g
        <5> QED BY <5>1, <5>2
      <4> QED BY <4>1, <4>2
    <3>3. g = [i \in 1..(m + 1) |-> g[i]]
      OBVIOUS
    <3> HIDE DEF g, step
    <3>4. Kept(m + 1, g)
      BY <3>2, <3>3
    <3> QED BY <3>4
  <2> HIDE DEF N, Kept
  <2>3. \A m \in Nat : m \in N
    BY <2>1, <2>2, Induction
  <2> QED BY <2>3 DEF N
<1>4. Kept(Len(D), kept)
  <2> HIDE DEF Kept
  <2> QED BY <1>3
<1>5. \A i \in 1..Len(D) : kept[i] = step(kept, i)
  <2> HIDE DEF kept, step
  <2> QED BY <1>4
<1> HIDE DEF kept
<1>6. fl[0] = <<>> /\ \A i \in 1..Len(D) : fl[i] = kept[i]
  OBVIOUS
<1> HIDE DEF fl
<1>7. ASSUME NEW i \in 1..Len(D) PROVE fl[i] = fl[i - 1] \o D[i]
  <2>1. kept[i] = IF i = 1 THEN D[i] ELSE kept[i - 1] \o D[i]
    BY <1>5
  <2>2. CASE i = 1
    <3>1. <<>> \o D[1] = D[1]
      BY <1>1, <2>2, ConcatEmptySeq
    <3>2. fl[1] = kept[1] /\ kept[1] = D[1] /\ fl[0] = <<>>
      BY <1>6, <2>1, <2>2
    <3>3. i - 1 = 0
      BY <2>2
    <3> QED BY <2>2, <3>1, <3>2, <3>3
  <2>3. CASE i # 1
    <3>1. i - 1 \in 1..Len(D)
      BY <2>3
    <3> QED BY <1>6, <2>1, <2>3, <3>1
  <2> QED BY <2>2, <2>3
<1> DEFINE N == {i \in Nat : i <= Len(D) => fl[i] \in Seq(Messages)}
<1>8. 0 \in N
  BY <1>6, EmptySeq
<1>9. ASSUME NEW i \in Nat, i \in N PROVE i + 1 \in N
  <2> SUFFICES ASSUME i + 1 <= Len(D) PROVE fl[i + 1] \in Seq(Messages)
    OBVIOUS
  <2>1. i + 1 \in 1..Len(D) /\ fl[i] \in Seq(Messages)
    BY <1>9
  <2>2. fl[i + 1] = fl[i] \o D[i + 1]
    <3>1. fl[i + 1] = fl[(i + 1) - 1] \o D[i + 1]
      BY <1>7, <2>1
    <3>2. (i + 1) - 1 = i
      OBVIOUS
    <3> QED BY <3>1, <3>2
  <2> QED BY <1>1, <2>1, <2>2, ConcatProperties
<1> HIDE DEF N
<1>10. \A i \in Nat : i \in N
  BY <1>8, <1>9, Induction
<1>11. \A i \in 0..Len(D) : fl[i] \in Seq(Messages)
  BY <1>10 DEF N
<1>12. O!FlattenSeq(D) = fl[Len(D)]
  <2>1. Len(D) = 0 => D = <<>>
    OBVIOUS
  <2> QED BY <1>2, <1>6, <2>1
<1>13. Joined(fl, D)
  BY <1>6, <1>7, <1>11, <1>12 DEF Joined
<1> QED BY <1>13

(* What is left of a list, from its beginning to its end. *)
LEMMA RestStep ==
  ASSUME NEW V, NEW x \in Seq(V), NEW i \in 0..Len(x), NEW s, Rest(s, x, i)
  PROVE  /\ s \in Seq(V)
         /\ s = <<>> <=> i = Len(x)
         /\ s # <<>> => /\ i + 1 \in 0..Len(x) /\ i + 1 \in 1..Len(x)
                        /\ Head(s) = x[i + 1] /\ Rest(Tail(s), x, i + 1)
<1> DEFINE n == Len(x) - i
<1>1. Len(x) \in Nat /\ i \in Nat /\ n \in Nat /\ \A k \in 1..n : i + k \in 1..Len(x)
  BY SeqIs
<1>2. Len(s) = n /\ s = [k \in 1..n |-> x[i + k]]
  BY DEF Rest
<1>3. s \in [1..n -> V]
  BY <1>1, <1>2, SeqIs
<1>4. s \in Seq(V)
  <2> HIDE DEF n
  <2> QED BY <1>1, <1>3, LenIs
<1>5. s = <<>> <=> i = Len(x)
  <2>1. s = <<>> <=> Len(s) = 0
    BY <1>4, EmptySeq
  <2>2. n = 0 <=> i = Len(x)
    BY <1>1
  <2>3. Len(s) = n
    BY <1>2
  <2> HIDE DEF n
  <2> QED BY <2>1, <2>2, <2>3
<1>6. ASSUME s # <<>>
      PROVE  /\ i + 1 \in 0..Len(x) /\ i + 1 \in 1..Len(x)
             /\ Head(s) = x[i + 1] /\ Rest(Tail(s), x, i + 1)
  <2>1. i + 1 \in 0..Len(x) /\ i + 1 \in 1..Len(x) /\ n - 1 \in Nat /\ n - 1 = Len(x) - (i + 1)
    BY <1>1, <1>5, <1>6
  <2>2. Head(s) = s[1] /\ s[1] = x[i + 1]
    BY <1>2, <2>1
  <2> DEFINE t == Tail(s)
  <2>3. /\ t \in Seq(V) /\ Len(t) = n - 1
        /\ \A k \in 1..Len(t) : t[k] = s[k + 1]
    <3> HIDE DEF n
    <3> QED BY <1>2, <1>4, <1>6, HeadTailProperties
  <2> HIDE DEF t
  <2>4. \A k \in 1..Len(t) : t[k] = x[(i + 1) + k]
    <3> SUFFICES ASSUME NEW k \in 1..Len(t) PROVE t[k] = x[(i + 1) + k]
      OBVIOUS
    <3>1. k + 1 \in 1..n /\ i + (k + 1) = (i + 1) + k
      BY <1>1, <2>1, <2>3
    <3>2. t[k] = s[k + 1] /\ s[k + 1] = x[i + (k + 1)]
      BY <1>2, <2>3, <3>1
    <3> QED BY <3>1, <3>2
  <2>5. t = [k \in 1..Len(t) |-> t[k]]
    BY <2>3, SeqIs
  <2>6. t = [k \in 1..Len(t) |-> x[(i + 1) + k]]
    BY <2>4, <2>5
  <2>7. Rest(t, x, i + 1)
    BY <2>1, <2>3, <2>6 DEF Rest
  <2> QED BY <2>1, <2>2, <2>7 DEF t
<1> QED BY <1>4, <1>5, <1>6

(* At first the whole list is left. *)
LEMMA RestAll == ASSUME NEW V, NEW x \in Seq(V) PROVE Rest(x, x, 0)
<1>1. Len(x) \in Nat /\ x = [k \in 1..Len(x) |-> x[k]]
  BY SeqIs
<1>2. \A k \in 1..Len(x) : x[0 + k] = x[k]
  BY <1>1
<1>3. x = [k \in 1..Len(x) |-> x[0 + k]]
  BY <1>1, <1>2
<1> QED BY <1>1, <1>3 DEF Rest

(* The answer with its last datagram. *)
LEMMA SentIs ==
  ASSUME NEW D \in Seq(Seq(Messages)), NEW last \in {"DONE", "ERROR"}
  PROVE  \E V : /\ Append(D, <<O!Control(last)>>) \in Seq(V)
                /\ Len(Append(D, <<O!Control(last)>>)) = Len(D) + 1
                /\ \A i \in 1..Len(D) : Append(D, <<O!Control(last)>>)[i] = D[i]
                /\ Append(D, <<O!Control(last)>>)[Len(D) + 1] = <<O!Control(last)>>
<1> DEFINE c == <<O!Control(last)>>
           V == Seq(Messages) \cup {c}
<1>1. Len(D) \in Nat /\ D \in [1..Len(D) -> Seq(Messages)]
  BY SeqIs
<1>2. D \in [1..Len(D) -> V]
  BY <1>1
<1>3. c \in V
  OBVIOUS
<1> HIDE DEF c, V
<1>4. D \in Seq(V)
  BY <1>1, <1>2, LenIs
<1>5. /\ Append(D, c) \in Seq(V) /\ Len(Append(D, c)) = Len(D) + 1
      /\ \A i \in 1..Len(D) : Append(D, c)[i] = D[i]
      /\ Append(D, c)[Len(D) + 1] = c
  BY <1>3, <1>4, AppendProperties
<1> QED BY <1>5 DEF c

(* What a step leaves the same while it does not touch the answer. *)
LEMMA AnswerStays ==
  ASSUME s1' = s1
  PROVE  /\ Routes' = Routes /\ O!Default' = O!Default /\ O!Size(Routes)' = O!Size(Routes)
         /\ \A d : O!Size(d)' = O!Size(d)
         /\ \A a, b : O!Outside(a, b)' <=> O!Outside(a, b)
         /\ \A k : Named(k)' <=> Named(k)
         /\ \A fl : Joined(fl, s1)' <=> Joined(fl, s1)
<1>1. Routes' = Routes
  BY DEF Routes, O!FlattenSeq
<1>2. O!FlattenSeq(s1)' = O!FlattenSeq(s1)
  BY DEF O!FlattenSeq
<1>3. O!Default' = O!Default
  BY <1>2 DEF O!Default, O!Max
<1>4. O!Size(Routes)' = O!Size(Routes)
  BY <1>1 DEF O!Size
<1>5. /\ \A d : O!Size(d)' = O!Size(d)
      /\ \A a, b : O!Outside(a, b)' <=> O!Outside(a, b)
  BY DEF O!Size, O!Outside
<1>6. \A k : Named(k)' <=> Named(k)
  BY <1>1 DEF Named
<1>7. \A fl : Joined(fl, s1)' <=> Joined(fl, s1)
  BY <1>2 DEF Joined
<1> QED BY <1>1, <1>3, <1>4, <1>5, <1>6, <1>7

(* What the buffer can take. *)
LEMMA ReadIs ==
  ASSUME RoutesInv, NEW d
  PROVE  /\ O!Room \in Nat /\ O!Room = BUFSIZE - s4 /\ O!ReadLen(d) <= O!Room
         /\ O!Size(d) \in Nat => /\ O!ReadLen(d) \in Nat
                                 /\ O!ReadLen(d) = O!Size(d) \/ O!ReadLen(d) = O!Room
                                 /\ O!Size(d) <= O!Room => O!ReadLen(d) = O!Size(d)
<1>1. BUFSIZE \in Nat /\ s4 \in Nat /\ s4 <= BUFSIZE
  BY Kernel DEF RoutesInv
<1>2. O!Room \in Nat /\ O!Room = BUFSIZE - s4
  BY <1>1 DEF O!Room
<1> QED BY <1>2 DEF O!ReadLen

(* A datagram of routes is read. *)
LEMMA ReadRoutes ==
  ASSUME RoutesInv, NEW j \in 0..Len(s1), Reading(j), j < Len(s1), O!readNlSock
  PROVE  RoutesInv'
<1>1. /\ s1 \in Seq(Seq(Messages)) /\ Len(s1) \in Nat /\ s1 \in Dumps
      /\ \A i \in 1..Len(s1) : s1[i] \in Seq(Messages) /\ s1[i] # <<>>
  BY Kernel DEF RoutesInv
<1>2. PICK last \in {"DONE", "ERROR"} : Rest(s2, Append(s1, <<O!Control(last)>>), j)
  BY DEF Reading
<1> DEFINE X == Append(s1, <<O!Control(last)>>)
           d == s1[j + 1]
<1>3. PICK V : X \in Seq(V) /\ Len(X) = Len(s1) + 1 /\ \A i \in 1..Len(s1) : X[i] = s1[i]
  BY <1>1, SentIs
<1> HIDE DEF X
<1>4. Head(s2) = d /\ Rest(Tail(s2), X, j + 1) /\ j + 1 \in 1..Len(s1) /\ j + 1 \in 0..Len(s1)
  <2>1. Rest(s2, X, j) /\ j \in 0..Len(X) /\ j # Len(X) /\ j + 1 \in 1..Len(s1) /\ j + 1 \in 0..Len(s1)
    BY <1>1, <1>2, <1>3 DEF X
  <2>2. s2 # <<>> /\ Head(s2) = X[j + 1] /\ Rest(Tail(s2), X, j + 1)
    BY <1>3, <2>1, RestStep
  <2> QED BY <1>3, <2>1, <2>2
<1>5. d \in Seq(Messages) /\ d # <<>> /\ d[1].type = "route" /\ O!Size(d) \in Nat
  <2>1. d \in Seq(Messages) /\ d # <<>>
    BY <1>1, <1>4
  <2> HIDE DEF d
  <2>2. d[1] \in Messages
    BY <2>1, EmptySeq, ElementOfSeq
  <2>3. \A m \in Messages : m.len \in Nat
    BY Kernel
  <2>4. O!Size(d) \in Nat
    BY <2>1, <2>3, SizeNat
  <2> QED BY <2>1, <2>2, <2>4, Kernel
<1> HIDE DEF d
<1>6. /\ s1' = s1 /\ s2' = Tail(s2) /\ s5' = s5 /\ s7' = s7 /\ s8' = s8
      /\ \/ s9' = "return" /\ s4' = s4
         \/ s9' = "read" /\ s3' = s3 \o O!Whole(d) /\ s4' = s4 + O!ReadLen(d)
  <2>1. s1' = s1 /\ s2' = Tail(s2) /\ s5' = s5 /\ s7' = s7 /\ s8' = s8
    BY DEF O!readNlSock
  <2>2. \/ s9' = "return" /\ s4' = s4
        \/ Head(s2)[1].type = "DONE"
        \/ /\ s3' = s3 \o O!Whole(Head(s2)) /\ s4' = s4 + O!ReadLen(Head(s2))
           /\ s9' = IF 0 # 1 THEN "read" ELSE "parse"
    BY DEF O!readNlSock, O!nlmsg_seq, O!seqNum
  <2>3. Head(s2) = d
    BY <1>4
  <2>4. Head(s2)[1].type # "DONE"
    BY <1>5, <2>3
  <2>5. \/ s9' = "return" /\ s4' = s4
        \/ s9' = "read" /\ s3' = s3 \o O!Whole(Head(s2)) /\ s4' = s4 + O!ReadLen(Head(s2))
    BY <2>2, <2>4
  <2>6. O!Whole(Head(s2)) = O!Whole(d) /\ O!ReadLen(Head(s2)) = O!ReadLen(d)
    BY <2>3
  <2> QED BY <1>4, <2>1, <2>5, <2>6
<1>7. s9 = "read"
  BY DEF O!readNlSock
<1>8. /\ s4 \in Nat /\ s4 <= BUFSIZE /\ BUFSIZE \in Nat /\ s7 = None /\ s5 = None
  BY <1>7, Kernel DEF RoutesInv
<1>9. /\ O!Room \in Nat /\ O!Room = BUFSIZE - s4 /\ O!ReadLen(d) \in Nat /\ O!ReadLen(d) <= O!Room
      /\ O!ReadLen(d) = O!Size(d) \/ O!ReadLen(d) = O!Room
      /\ O!Size(d) <= O!Room => O!ReadLen(d) = O!Size(d)
  BY <1>5, ReadIs
<1>10. s4' \in Nat /\ s4' <= BUFSIZE
  BY <1>6, <1>8, <1>9
<1>11. ASSUME s9' = "read" PROVE Reading(j + 1)'
  <2>1. s3' = s3 \o O!Whole(d) /\ s4' = s4 + O!ReadLen(d)
    BY <1>6, <1>11
  <2>2. ASSUME NEW fl, Joined(fl, s1)
        PROVE  s4' = BUFSIZE \/ (s3' = fl[j + 1] /\ s4' = O!Size(fl[j + 1]))
    <3>1. s4 = BUFSIZE \/ (s3 = fl[j] /\ s4 = O!Size(fl[j]))
      BY <2>2 DEF Reading
    <3>2. CASE s4 = BUFSIZE \/ ~ (O!Size(d) <= O!Room)
      <4> DEFINE a == O!ReadLen(d)
                 z == O!Size(d)
                 m == O!Room
      <4>1. /\ z \in Nat /\ a \in Nat /\ m \in Nat /\ m = BUFSIZE - s4 /\ a <= m
            /\ a = z \/ a = m
            /\ s4 = BUFSIZE \/ ~ (z <= m)
        BY <1>5, <1>9, <3>2
      <4>2. s4' = s4 + a
        BY <2>1
      <4> HIDE DEF a, z, m
      <4> QED BY <1>8, <4>1, <4>2
    <3>3. CASE s3 = fl[j] /\ s4 = O!Size(fl[j]) /\ O!Size(d) <= O!Room
      <4>1. \A m \in Messages : m.len \in Nat
        BY Kernel
      <4>2. O!Whole(d) = d
        BY <1>5, <1>9, <3>3, <4>1, WholeIs
      <4>3. fl[j] \in Seq(Messages) /\ fl[j + 1] = fl[j] \o d
        <5>1. fl[j + 1] = fl[(j + 1) - 1] \o s1[j + 1] /\ (j + 1) - 1 = j
          <6>1. \A i \in 1..Len(s1) : fl[i] = fl[i - 1] \o s1[i]
            BY <2>2 DEF Joined
          <6>2. (j + 1) - 1 = j
            OBVIOUS
          <6> QED BY <1>4, <6>1, <6>2
        <5> QED BY <2>2, <5>1 DEF Joined, d
      <4>4. O!Size(fl[j] \o d) = O!Size(fl[j]) + O!Size(d)
        BY <1>5, <4>1, <4>3, SizeConcat
      <4> QED BY <1>9, <2>1, <3>3, <4>2, <4>3, <4>4
    <3> QED BY <3>1, <3>2, <3>3
  <2>3. \A fl : Joined(fl, s1)' => s4' = BUFSIZE \/ (s3' = fl[j + 1] /\ s4' = O!Size(fl[j + 1])')
    BY <1>6, <2>2, AnswerStays
  <2>4. Rest(s2, X, j + 1)'
    BY <1>4, <1>6 DEF Rest, X, O!Control
  <2> QED BY <2>3, <2>4 DEF Reading, X
<1>12. s9' \in {"return", "read"}
  BY <1>6
<1> QED BY <1>1, <1>4, <1>6, <1>8, <1>10, <1>11, <1>12 DEF RoutesInv

(* The answer is a list of route messages. *)
LEMMA RoutesAre == ASSUME s1 \in Dumps PROVE Routes \in Seq(Messages) /\ Len(Routes) \in Nat
<1>1. s1 \in Seq(Seq(Messages)) /\ Len(s1) \in Nat
  BY Kernel
<1>2. PICK fl : Joined(fl, s1)
  BY <1>1, Flattened
<1>3. Routes = fl[Len(s1)] /\ fl[Len(s1)] \in Seq(Messages)
  BY <1>1, <1>2 DEF Joined, Routes
<1> QED BY <1>3, SeqIs

(* The last datagram is read: with DONE, all that was sent has arrived. *)
LEMMA ReadLast ==
  ASSUME RoutesInv, Reading(Len(s1)), O!readNlSock
  PROVE  RoutesInv'
<1>1. /\ s1 \in Seq(Seq(Messages)) /\ Len(s1) \in Nat /\ s1 \in Dumps
  BY Kernel DEF RoutesInv
<1>2. PICK last \in {"DONE", "ERROR"} : Rest(s2, Append(s1, <<O!Control(last)>>), Len(s1))
  BY DEF Reading
<1> DEFINE X == Append(s1, <<O!Control(last)>>)
           d == <<O!Control(last)>>
<1>3. PICK V : X \in Seq(V) /\ Len(X) = Len(s1) + 1 /\ X[Len(s1) + 1] = d
  BY <1>1, SentIs
<1> HIDE DEF X
<1>4. Head(s2) = d
  <2>1. Rest(s2, X, Len(s1)) /\ Len(s1) \in 0..Len(X) /\ Len(s1) # Len(X)
    BY <1>1, <1>2, <1>3 DEF X
  <2>2. s2 # <<>> /\ Head(s2) = X[Len(s1) + 1]
    BY <1>3, <2>1, RestStep
  <2> QED BY <1>3, <2>2
<1>5. HDR \in Nat /\ d[1].type = last /\ d[1].len = HDR + 1
  BY Kernel DEF O!Control
<1>6. O!Size(d) \in Nat
  <2> DEFINE U == {O!Control(last)}
  <2>1. d \in Seq(U)
    OBVIOUS
  <2>2. \A m \in U : m.len \in Nat
    BY <1>5
  <2> HIDE DEF U, d
  <2> QED BY <2>1, <2>2, SizeNat
<1> HIDE DEF d
<1>7. /\ s1' = s1 /\ s5' = s5 /\ s7' = s7 /\ s8' = s8 /\ s9 = "read"
      /\ \/ s9' = "return" /\ s4' = s4
         \/ O!NLMSG_OK(d) /\ s9' = "parse" /\ s3' = s3 /\ s4' = s4
  <2>1. s1' = s1 /\ s5' = s5 /\ s7' = s7 /\ s8' = s8 /\ s9 = "read"
    BY DEF O!readNlSock
  <2>2. \/ s9' = "return" /\ s4' = s4
        \/ O!NLMSG_OK(Head(s2)) /\ s9' = "parse" /\ s3' = s3 /\ s4' = s4
        \/ Head(s2)[1].type = "route"
    BY DEF O!readNlSock
  <2>3. Head(s2)[1].type # "route"
    BY <1>4, <1>5
  <2>4. O!NLMSG_OK(Head(s2)) <=> O!NLMSG_OK(d)
    BY <1>4
  <2> QED BY <2>1, <2>2, <2>3, <2>4
<1>8. /\ s4 \in Nat /\ s4 <= BUFSIZE /\ BUFSIZE \in Nat /\ s7 = None /\ s5 = None
  BY <1>7, Kernel DEF RoutesInv
<1>9. ASSUME s9' = "parse"
      PROVE  s3' = Routes /\ s4' = O!Size(Routes)
  <2>1. O!NLMSG_OK(d) /\ s3' = s3 /\ s4' = s4
    BY <1>7, <1>9
  <2>2. O!Room \in Nat /\ O!Room = BUFSIZE - s4 /\ O!ReadLen(d) \in Nat /\ O!ReadLen(d) <= O!Room
    BY <1>6, ReadIs
  <2>3. HDR + 1 <= O!ReadLen(d)
    BY <1>5, <2>1 DEF O!NLMSG_OK
  <2>4. s4 # BUFSIZE
    BY <1>5, <1>8, <2>2, <2>3
  <2>5. PICK fl : Joined(fl, s1)
    BY <1>1, Flattened
  <2>6. s3 = fl[Len(s1)] /\ s4 = O!Size(fl[Len(s1)])
    BY <2>4, <2>5 DEF Reading
  <2>7. fl[Len(s1)] = Routes
    BY <2>5 DEF Joined, Routes
  <2> QED BY <2>1, <2>6, <2>7
<1>10. Routes' = Routes /\ O!Size(Routes)' = O!Size(Routes)
  BY <1>7, AnswerStays
<1>11. ASSUME s9' = "parse" PROVE \E i \in 0..Len(Routes') : Rest(s3, Routes, i)' /\ Found(i)'
  <2>1. Rest(Routes, Routes, 0) /\ 0 \in 0..Len(Routes)
    BY <1>1, RoutesAre, RestAll
  <2>2. Rest(s3, Routes, 0)'
    BY <1>9, <1>10, <1>11, <2>1 DEF Rest
  <2>3. s5' = None /\ \A k \in 1..0 : ~ Named(k)'
    BY <1>7, <1>8
  <2>4. Found(0)'
    BY <2>3 DEF Found
  <2> QED BY <1>10, <2>1, <2>2, <2>4
<1>12. s9' \in {"return", "parse"}
  BY <1>7
<1> QED BY <1>1, <1>7, <1>8, <1>9, <1>10, <1>11, <1>12 DEF RoutesInv

(* One route is looked at. *)
LEMMA InterfaceStep == ASSUME RoutesInv, O!get_interface PROVE RoutesInv'
<1>1. /\ s9 = "parse" /\ s9' = s9 /\ s3 # <<>> /\ s3' = Tail(s3)
      /\ s1' = s1 /\ s4' = s4 /\ s7' = s7 /\ s8' = s8
  BY DEF O!get_interface
<1>2. PICK i \in 0..Len(Routes) : Rest(s3, Routes, i) /\ Found(i)
  BY <1>1 DEF RoutesInv
<1>3. s1 \in Dumps /\ Routes \in Seq(Messages) /\ Len(Routes) \in Nat
  BY RoutesAre DEF RoutesInv
<1>4. /\ i + 1 \in 0..Len(Routes) /\ i + 1 \in 1..Len(Routes)
      /\ Head(s3) = Routes[i + 1] /\ Rest(Tail(s3), Routes, i + 1)
  BY <1>1, <1>2, <1>3, RestStep
<1>5. Routes[i + 1].main \in BOOLEAN /\ Routes[i + 1].default \in BOOLEAN
  <2>1. Routes[i + 1] \in Messages
    BY <1>3, <1>4, ElementOfSeq
  <2> QED BY <2>1, Kernel
<1>6. s5' = IF Named(i + 1) THEN Routes[i + 1].oif ELSE s5
  <2> DEFINE m == Routes[i + 1]
  <2>1. s5' = IF O!parseRoutes(m).dst0 /\ O!parseRoutes(m).ifName # None
              THEN O!parseRoutes(m).ifName ELSE s5
    BY <1>4 DEF O!get_interface
  <2>2. O!parseRoutes(m) = IF m.main THEN [dst0 |-> m.default, ifName |-> m.oif]
                           ELSE [dst0 |-> TRUE, ifName |-> None]
    BY DEF O!parseRoutes
  <2>3. CASE m.main
    <3>1. O!parseRoutes(m).dst0 = m.default /\ O!parseRoutes(m).ifName = m.oif
      BY <2>2, <2>3
    <3>2. Named(i + 1) <=> m.default /\ m.oif # None
      BY <2>3 DEF Named
    <3> QED BY <2>1, <3>1, <3>2
  <2>4. CASE ~ m.main
    <3>1. O!parseRoutes(m).ifName = None
      BY <2>2, <2>4
    <3>2. ~ Named(i + 1)
      BY <2>4 DEF Named
    <3> QED BY <2>1, <3>1, <3>2
  <2> QED BY <2>3, <2>4
<1>7. /\ Routes' = Routes /\ O!Size(Routes)' = O!Size(Routes)
      /\ \A k : Named(k)' <=> Named(k)
  BY <1>1, AnswerStays
<1>8. Found(i + 1)'
  <2>1. CASE Named(i + 1)
    <3>1. s5' = Routes'[i + 1].oif /\ Named(i + 1)' /\ i + 1 \in 1..(i + 1)
      BY <1>4, <1>6, <1>7, <2>1
    <3>2. \A m \in 1..(i + 1) : ~ (m > i + 1)
      BY <1>4
    <3> QED BY <3>1, <3>2 DEF Found
  <2>2. CASE ~ Named(i + 1)
    <3>1. s5' = s5
      BY <1>6, <2>2
    <3>2. \A k \in 1..(i + 1) : k \in 1..i \/ k = i + 1
      BY <1>4
    <3>3. CASE s5 = None /\ \A k \in 1..i : ~ Named(k)
      <4>1. s5' = None /\ \A k \in 1..(i + 1) : ~ Named(k)'
        BY <1>7, <2>2, <3>1, <3>2, <3>3
      <4> QED BY <4>1 DEF Found
    <3>4. ASSUME NEW k \in 1..i, Named(k), s5 = Routes[k].oif, \A m \in 1..i : m > k => ~ Named(m)
          PROVE  Found(i + 1)'
      <4>1. k \in 1..(i + 1) /\ Named(k)' /\ s5' = Routes'[k].oif
        BY <1>4, <1>7, <3>1, <3>4
      <4>2. \A m \in 1..(i + 1) : m > k => ~ Named(m)'
        BY <1>7, <2>2, <3>2, <3>4
      <4> QED BY <4>1, <4>2 DEF Found
    <3> QED BY <1>2, <3>3, <3>4 DEF Found
  <2> QED BY <2>1, <2>2
<1>9. Rest(s3, Routes, i + 1)'
  BY <1>1, <1>4, <1>7 DEF Rest
<1>10. \E n \in 0..Len(Routes') : Rest(s3, Routes, n)' /\ Found(n)'
  BY <1>4, <1>7, <1>8, <1>9
<1>11. s4 \in Nat /\ s4 <= BUFSIZE /\ s4 = O!Size(Routes) /\ s7 = None
  BY <1>1 DEF RoutesInv
<1> QED BY <1>1, <1>3, <1>7, <1>10, <1>11 DEF RoutesInv

(* When all routes were looked at, the interface is the default one. *)
LEMMA DefaultFound == ASSUME RoutesInv, s9 = "parse", s3 = <<>> PROVE s5 = O!Default
<1>1. s1 \in Dumps /\ Routes \in Seq(Messages) /\ Len(Routes) \in Nat /\ DOMAIN Routes = 1..Len(Routes)
  BY RoutesAre, SeqIs DEF RoutesInv
<1>2. PICK i \in 0..Len(Routes) : Rest(s3, Routes, i) /\ Found(i)
  BY DEF RoutesInv
<1>3. i = Len(Routes)
  <2>1. Routes \in Seq(Messages) /\ Rest(s3, Routes, i)
    BY <1>1, <1>2
  <2>2. s3 = <<>> <=> i = Len(Routes)
    BY <2>1, RestStep
  <2> QED BY <2>2
<1> DEFINE named == {k \in 1..Len(Routes) : Named(k)}
<1>4. O!Default = IF named = {} THEN None ELSE Routes[O!Max(named)].oif
  BY <1>1 DEF O!Default, Routes, Named
<1>5. CASE s5 = None /\ \A k \in 1..i : ~ Named(k)
  <2>1. named = {}
    BY <1>3, <1>5
  <2> HIDE DEF named
  <2> QED BY <1>4, <1>5, <2>1
<1>6. ASSUME NEW k \in 1..i, Named(k), s5 = Routes[k].oif, \A m \in 1..i : m > k => ~ Named(m)
      PROVE  s5 = O!Default
  <2>1. k \in named /\ named \subseteq Nat /\ \A m \in named : k >= m
    BY <1>1, <1>3, <1>6
  <2> HIDE DEF named
  <2>2. \A x \in named : (\A m \in named : x >= m) => x = k
    BY <2>1
  <2>3. O!Max(named) = k
    BY <2>1, <2>2 DEF O!Max
  <2> QED BY <1>4, <1>6, <2>1, <2>3
<1> QED BY <1>2, <1>5, <1>6 DEF Found

(* Every address has a host. *)
LEMMA HostIs ==
  ASSUME NEW a \in Addresses
  PROVE  \E V : /\ a \in Seq(V) /\ Len(a) \in Nat /\ DOMAIN a = 1..Len(a)
                /\ \A k \in 1..Len(a) : a[k].host # None
<1> DEFINE V == {ifa \in O!ToSet(a) : ifa.inet \in BOOLEAN /\ ifa.host # None}
<1>1. a \in Seq(V)
  BY PartsAssumption DEF O!RoutesAssumption
<1>2. \A x \in V : x.host # None
  OBVIOUS
<1> HIDE DEF V
<1>3. \A k \in 1..Len(a) : a[k] \in V
  BY <1>1, ElementOfSeq
<1> QED BY <1>1, <1>2, <1>3, SeqIs

(* getifaddrs gives a list, or nothing is looked for. *)
LEMMA AddressesStep == ASSUME RoutesInv, O!estimate_outside_ip PROVE RoutesInv'
<1>1. /\ s9 = "parse" /\ s3 = <<>> /\ s1' = s1 /\ s4' = s4 /\ s5' = s5 /\ s7' = s7
      /\ \/ s9' = "return"
         \/ s9' = "addrs" /\ s6' \in Addresses /\ s8' = s6'
  BY DEF O!estimate_outside_ip
<1>2. /\ s1 \in Dumps /\ s4 \in Nat /\ s4 <= BUFSIZE /\ s4 = O!Size(Routes) /\ s7 = None
  BY <1>1 DEF RoutesInv
<1>3. s5 = O!Default
  BY <1>1, DefaultFound
<1>4. O!Default' = O!Default /\ O!Size(Routes)' = O!Size(Routes)
  BY <1>1, AnswerStays
<1>5. ASSUME s9' = "addrs"
      PROVE  s8' \in Addresses /\ \E i \in 0..Len(s8') : Rest(s6, s8, i)' /\ i = 0
  <2>1. s8' \in Addresses /\ s6' = s8'
    BY <1>1, <1>5
  <2>2. PICK V : s8' \in Seq(V) /\ Len(s8') \in Nat
    BY <2>1, HostIs
  <2>3. Rest(s8', s8', 0)
    BY <2>2, RestAll
  <2>4. Rest(s6, s8, 0)'
    BY <2>1, <2>3 DEF Rest
  <2> QED BY <2>1, <2>2, <2>4
<1>6. ASSUME s9' = "addrs"
      PROVE  \E i \in 0..Len(s8') : Rest(s6, s8, i)' /\ \A k \in 1..i : ~ O!Outside(s8[k], O!Default)'
  <2>1. \A k \in 1..0 : ~ O!Outside(s8[k], O!Default)'
    OBVIOUS
  <2> QED BY <1>5, <1>6, <2>1
<1>7. s9' \in {"return", "addrs"}
  BY <1>1
<1> QED BY <1>1, <1>2, <1>3, <1>4, <1>5, <1>6, <1>7 DEF RoutesInv

(* One address is looked at. *)
LEMMA AddressStep == ASSUME RoutesInv, O!get_ip_from_interface PROVE RoutesInv'
<1>1. /\ s9 = "addrs" /\ s6 # <<>> /\ s6' = Tail(s6)
      /\ s1' = s1 /\ s4' = s4 /\ s5' = s5 /\ s8' = s8
      /\ \/ s9' = s9 /\ s7' = IF O!Outside(Head(s6), s5) THEN Head(s6).host ELSE s7
         \/ s9' = "return" /\ s7' = s7
  BY DEF O!get_ip_from_interface
<1>2. /\ s1 \in Dumps /\ s4 \in Nat /\ s4 <= BUFSIZE /\ s4 = O!Size(Routes)
      /\ s5 = O!Default /\ s8 \in Addresses
      /\ s7 # None => \E k \in DOMAIN s8 : s8[k].host = s7 /\ O!Outside(s8[k], O!Default)
  BY <1>1 DEF RoutesInv
<1>3. PICK i \in 0..Len(s8) : /\ Rest(s6, s8, i)
                              /\ s7 = None => \A k \in 1..i : ~ O!Outside(s8[k], O!Default)
  BY <1>1 DEF RoutesInv
<1>4. PICK V : /\ s8 \in Seq(V) /\ Len(s8) \in Nat /\ DOMAIN s8 = 1..Len(s8)
               /\ \A k \in 1..Len(s8) : s8[k].host # None
  BY <1>2, HostIs
<1>5. /\ i + 1 \in 0..Len(s8) /\ i + 1 \in 1..Len(s8)
      /\ Head(s6) = s8[i + 1] /\ Rest(Tail(s6), s8, i + 1)
  BY <1>1, <1>3, <1>4, RestStep
<1>6. /\ O!Default' = O!Default /\ O!Size(Routes)' = O!Size(Routes)
      /\ \A a, b : O!Outside(a, b)' <=> O!Outside(a, b)
  BY <1>1, AnswerStays
<1>7. s9' = "addrs" => s7' = IF O!Outside(s8[i + 1], O!Default) THEN s8[i + 1].host ELSE s7
  BY <1>1, <1>2, <1>5
<1>8. ASSUME s9' = "addrs"
      PROVE  s7' = None => \A k \in 1..(i + 1) : ~ O!Outside(s8[k], O!Default)
  <2> SUFFICES ASSUME s7' = None PROVE \A k \in 1..(i + 1) : ~ O!Outside(s8[k], O!Default)
    OBVIOUS
  <2>1. ~ O!Outside(s8[i + 1], O!Default) /\ s7 = None
    BY <1>4, <1>5, <1>7, <1>8
  <2>2. \A k \in 1..(i + 1) : k \in 1..i \/ k = i + 1
    BY <1>5
  <2> QED BY <1>3, <2>1, <2>2
<1>9. s7' # None => \E k \in DOMAIN s8 : s8[k].host = s7' /\ O!Outside(s8[k], O!Default)
  <2>1. CASE s7' = s7
    BY <1>2, <2>1
  <2>2. CASE s7' # s7
    <3>1. s9' = "addrs" /\ O!Outside(s8[i + 1], O!Default) /\ s7' = s8[i + 1].host
      BY <1>1, <1>7, <2>2
    <3> QED BY <1>4, <1>5, <3>1
  <2> QED BY <2>1, <2>2
<1>10. Rest(s6, s8, i + 1)'
  BY <1>1, <1>5 DEF Rest
<1>11. \A k : O!Outside(s8[k], O!Default)' <=> O!Outside(s8[k], O!Default)
  BY <1>1, <1>6 DEF O!Outside
<1>12. s9' \in {"return", "addrs"}
  BY <1>1
<1>13. ASSUME s9' = "addrs"
       PROVE  \E n \in 0..Len(s8') :
                /\ Rest(s6, s8, n)'
                /\ s7' = None => \A k \in 1..n : ~ O!Outside(s8[k], O!Default)'
  BY <1>1, <1>5, <1>8, <1>10, <1>11, <1>13
<1>14. s7' # None => \E k \in DOMAIN s8' : s8'[k].host = s7' /\ O!Outside(s8[k], O!Default)'
  BY <1>1, <1>9, <1>11
<1> QED BY <1>1, <1>2, <1>6, <1>12, <1>13, <1>14 DEF RoutesInv

(* Each step keeps RoutesInv. *)
LEMMA RoutesStep == RoutesInv /\ O!Next => RoutesInv'
<1>1. ASSUME RoutesInv, O!readNlSock PROVE RoutesInv'
  <2>1. s9 = "read" /\ Len(s1) \in Nat
    BY <1>1, Kernel DEF RoutesInv, O!readNlSock
  <2>2. PICK j \in 0..Len(s1) : Reading(j)
    BY <1>1, <2>1 DEF RoutesInv
  <2>3. CASE j < Len(s1)
    BY <1>1, <2>2, <2>3, ReadRoutes
  <2>4. CASE j = Len(s1)
    BY <1>1, <2>2, <2>4, ReadLast
  <2> QED BY <2>1, <2>3, <2>4
<1>2. ASSUME RoutesInv, O!Return PROVE RoutesInv'
  <2>1. /\ s1' = s1 /\ s4' = s4 /\ s7' = s7 /\ s8' = s8 /\ s9' = "return"
    BY <1>2 DEF O!Return
  <2>2. /\ s1 \in Dumps /\ s4 \in Nat /\ s4 <= BUFSIZE
        /\ s7 # None => \E k \in DOMAIN s8 : s8[k].host = s7 /\ O!Outside(s8[k], O!Default)
    BY <1>2 DEF RoutesInv
  <2>3. O!Default' = O!Default
    BY <2>1, AnswerStays
  <2>4. \A k : O!Outside(s8[k], O!Default)' <=> O!Outside(s8[k], O!Default)
    BY <2>1, <2>3 DEF O!Outside
  <2>5. s7' # None => \E k \in DOMAIN s8' : s8'[k].host = s7' /\ O!Outside(s8[k], O!Default)'
    BY <2>1, <2>2, <2>4
  <2> QED BY <2>1, <2>2, <2>5 DEF RoutesInv
<1> QED BY <1>1, <1>2, InterfaceStep, AddressesStep, AddressStep DEF O!Next

(* RoutesInv says what the two properties do. *)
LEMMA RoutesInvMeans == RoutesInv => O!DumpWhole /\ O!OutsideAddress
<1> SUFFICES ASSUME RoutesInv PROVE O!DumpWhole /\ O!OutsideAddress
  OBVIOUS
<1>1. O!DumpWhole
  BY DEF RoutesInv, Routes, O!DumpWhole
<1>2. s9 = "parse" /\ s3 = <<>> => s5 = O!Default
  BY DefaultFound
<1>3. ASSUME s9 = "addrs", s6 = <<>>, s7 = None
      PROVE  \A k \in DOMAIN s8 : ~ O!Outside(s8[k], O!Default)
  <2>1. s8 \in Addresses
    BY <1>3 DEF RoutesInv
  <2>2. PICK i \in 0..Len(s8) : Rest(s6, s8, i) /\ \A k \in 1..i : ~ O!Outside(s8[k], O!Default)
    BY <1>3 DEF RoutesInv
  <2>3. PICK V : s8 \in Seq(V) /\ DOMAIN s8 = 1..Len(s8)
    BY <2>1, HostIs
  <2>4. i = Len(s8)
    <3>1. s8 \in Seq(V) /\ Rest(s6, s8, i)
      BY <2>2, <2>3
    <3>2. s6 = <<>> <=> i = Len(s8)
      BY <3>1, RestStep
    <3> QED BY <1>3, <3>2
  <2> QED BY <2>2, <2>3, <2>4
<1>4. s7 # None => \E k \in DOMAIN s8 : s8[k].host = s7 /\ O!Outside(s8[k], O!Default)
  BY DEF RoutesInv
<1>5. O!OutsideAddress
  BY <1>2, <1>3, <1>4 DEF O!OutsideAddress
<1> QED BY <1>1, <1>5

(* RoutesInv in every state of the estimate. *)
LEMMA RoutesAlways == Spec => [](part = "routes" => RoutesInv)
<1>1. Init => (part = "routes" => RoutesInv)
  <2> SUFFICES ASSUME Init, part = "routes" PROVE RoutesInv
    OBVIOUS
  <2>1. O!Init
    BY DEF Init
  <2>2. /\ s1 \in Dumps /\ s3 = <<>> /\ s4 = 0 /\ s5 = None /\ s7 = None /\ s9 \in {"read", "return"}
        /\ \E last \in {"DONE", "ERROR"} : s2 = Append(s1, <<O!Control(last)>>)
    BY <2>1 DEF O!Init
  <2>3. s1 \in Seq(Seq(Messages)) /\ Len(s1) \in Nat /\ BUFSIZE \in Nat
    BY <2>2, Kernel
  <2>4. Reading(0)
    <3>1. PICK last \in {"DONE", "ERROR"} : s2 = Append(s1, <<O!Control(last)>>)
      BY <2>2
    <3>2. PICK V : s2 \in Seq(V)
      BY <2>3, <3>1, SentIs
    <3>3. Rest(s2, s2, 0)
      BY <3>2, RestAll
    <3>4. O!Size(<<>>) = 0
      <4>1. Len(<<>>) \in Nat /\ Len(<<>>) = 0
        OBVIOUS
      <4>2. PICK f : SumOf(Lens(<<>>), 0, f) /\ O!Size(<<>>) = f[0]
        BY <4>1, SizeSum
      <4> QED BY <4>2 DEF SumOf
    <3>5. \A fl : Joined(fl, s1) => s3 = fl[0] /\ s4 = O!Size(fl[0])
      BY <2>2, <3>4 DEF Joined
    <3> QED BY <3>1, <3>3, <3>5 DEF Reading
  <2>5. \E j \in 0..Len(s1) : Reading(j)
    BY <2>3, <2>4
  <2> QED BY <2>2, <2>3, <2>5 DEF RoutesInv
<1>2. (part = "routes" => RoutesInv) /\ [Next]_vars => (part = "routes" => RoutesInv)'
  <2>1. [Next]_vars => UNCHANGED part
    BY DEF Next, vars
  <2>2. part = "routes" /\ [Next]_vars => O!Next \/ UNCHANGED <<s1, s2, s3, s4, s5, s6, s7, s8, s9>>
    BY DEF Next, vars
  <2>3. RoutesInv /\ UNCHANGED <<s1, s2, s3, s4, s5, s6, s7, s8, s9>> => RoutesInv'
    <3> SUFFICES ASSUME RoutesInv, UNCHANGED <<s1, s2, s3, s4, s5, s6, s7, s8, s9>> PROVE RoutesInv'
      OBVIOUS
    <3>1. /\ Routes' = Routes /\ O!Default' = O!Default /\ O!Size(Routes)' = O!Size(Routes)
          /\ \A d : O!Size(d)' = O!Size(d)
          /\ \A a, b : O!Outside(a, b)' <=> O!Outside(a, b)
          /\ \A k : Named(k)' <=> Named(k)
          /\ \A fl : Joined(fl, s1)' <=> Joined(fl, s1)
      BY AnswerStays
    <3>2. \A j : Reading(j)' <=> Reading(j)
      BY <3>1 DEF Reading, Rest, O!Control
    <3>3. \A i : /\ Found(i)' <=> Found(i)
                 /\ Rest(s3, Routes, i)' <=> Rest(s3, Routes, i)
                 /\ Rest(s6, s8, i)' <=> Rest(s6, s8, i)
      BY <3>1 DEF Found, Rest
    <3>4. \A k : O!Outside(s8[k], O!Default)' <=> O!Outside(s8[k], O!Default)
      BY <3>1 DEF O!Outside
    <3> QED BY <3>1, <3>2, <3>3, <3>4 DEF RoutesInv
  <2> QED BY <2>1, <2>2, <2>3, RoutesStep
<1> QED BY <1>1, <1>2, PTL DEF Spec

(* readNlSock gives the kernel's whole answer or none, however it is cut   *)
(* into datagrams and whatever the buffer's size is.                       *)
THEOREM AnswerIsWhole == Spec => []DumpWhole
<1>1. (part = "routes" => RoutesInv) => DumpWhole
  BY RoutesInvMeans DEF DumpWhole
<1> QED BY <1>1, RoutesAlways, PTL

(* estimate_outside_ip looks up the last default route's interface and     *)
(* gives one of its addresses without "192.168."; a list that was looked    *)
(* through without a result has none.                                       *)
THEOREM AddressIsOutside == Spec => []OutsideAddress
<1>1. (part = "routes" => RoutesInv) => OutsideAddress
  BY RoutesInvMeans DEF OutsideAddress
<1> QED BY <1>1, RoutesAlways, PTL

-----------------------------------------------------------------------------
(* wordenc and worddec: pc, phrase, pad, k, bits, msg and out are s1 to s7. *)

(* What h makes of a, time after time. *)
Iterated(a, h, n, f) == f = [k \in 0..n |-> IF k = 0 THEN a ELSE h[f[k - 1]]]

(* There is such a function of any length. *)
LEMMA Iterates ==
  ASSUME NEW a \in Int, NEW h \in [Int -> Int]
  PROVE  \A n \in Nat : \E f \in [0..n -> Int] : Iterated(a, h, n, f)
<1> DEFINE N == {n \in Nat : \E f \in [0..n -> Int] : Iterated(a, h, n, f)}
<1>1. 0 \in N
  <2> DEFINE f == [k \in 0..0 |-> a]
  <2>1. f \in [0..0 -> Int] /\ Iterated(a, h, 0, f)
    BY DEF Iterated
  <2> QED BY <2>1
<1>2. ASSUME NEW n \in Nat, n \in N PROVE n + 1 \in N
  <2>1. PICK f \in [0..n -> Int] : Iterated(a, h, n, f)
    BY <1>2
  <2> DEFINE g == [k \in 0..(n + 1) |-> IF k = n + 1 THEN h[f[n]] ELSE f[k]]
  <2>2. g \in [0..(n + 1) -> Int]
    OBVIOUS
  <2>3. ASSUME NEW k \in 0..(n + 1) PROVE g[k] = IF k = 0 THEN a ELSE h[g[k - 1]]
    <3>1. CASE k = n + 1
      <4>1. k # 0 /\ k - 1 = n /\ g[k] = h[f[n]] /\ g[n] = f[n]
        BY <3>1
      <4> HIDE DEF g
      <4> QED BY <4>1
    <3>2. CASE k # n + 1
      <4>1. k \in 0..n /\ g[k] = f[k] /\ (k # 0 => g[k - 1] = f[k - 1])
        BY <3>2
      <4>2. f[k] = IF k = 0 THEN a ELSE h[f[k - 1]]
        BY <2>1, <4>1 DEF Iterated
      <4> HIDE DEF g
      <4> QED BY <4>1, <4>2
    <3> QED BY <3>1, <3>2
  <2>4. Iterated(a, h, n + 1, g)
    <3>1. g = [k \in 0..(n + 1) |-> g[k]]
      OBVIOUS
    <3> HIDE DEF g
    <3> QED BY <2>3, <3>1 DEF Iterated
  <2> HIDE DEF g
  <2> QED BY <2>2, <2>4
<1> HIDE DEF N
<1>3. \A n \in Nat : n \in N
  BY <1>1, <1>2, Induction
<1> QED BY <1>3 DEF N

(* Two of them begin alike. *)
LEMMA IteratesAgree ==
  ASSUME NEW a, NEW h, NEW m \in Nat, NEW n \in Nat, m <= n, NEW e, NEW f,
         Iterated(a, h, m, e), Iterated(a, h, n, f)
  PROVE  \A k \in 0..m : e[k] = f[k]
<1> DEFINE N == {k \in Nat : k <= m => e[k] = f[k]}
<1>1. 0 \in N
  BY DEF Iterated
<1>2. ASSUME NEW k \in Nat, k \in N PROVE k + 1 \in N
  BY <1>2 DEF Iterated
<1> HIDE DEF N
<1>3. \A k \in Nat : k \in N
  BY <1>1, <1>2, Induction
<1> QED BY <1>3 DEF N

Twice == [x \in Int |-> 2 * x]

(* A power is one of the doubled ones. *)
LEMMA PowerIs ==
  ASSUME NEW n \in Nat
  PROVE  \E f \in [0..n -> Int] : Iterated(1, Twice, n, f) /\ W!Power(n) = f[n]
<1> DEFINE f == CHOOSE f : f = [k \in 0..n |-> IF k = 0 THEN 1 ELSE 2 * f[k - 1]]
<1>1. PICK e \in [0..n -> Int] : Iterated(1, Twice, n, e)
  <2>1. Twice \in [Int -> Int]
    BY DEF Twice
  <2> QED BY <2>1, Iterates
<1>2. \A g : (g = [k \in 0..n |-> IF k = 0 THEN 1 ELSE 2 * g[k - 1]]) => \A k \in 0..n : g[k] = e[k]
  <2> SUFFICES ASSUME NEW g, g = [k \in 0..n |-> IF k = 0 THEN 1 ELSE 2 * g[k - 1]]
               PROVE  \A k \in 0..n : g[k] = e[k]
    OBVIOUS
  <2> DEFINE N == {k \in Nat : k <= n => g[k] = e[k]}
  <2>1. 0 \in N
    BY <1>1 DEF Iterated
  <2>2. ASSUME NEW k \in Nat, k \in N PROVE k + 1 \in N
    <3> SUFFICES ASSUME k + 1 <= n PROVE g[k + 1] = e[k + 1]
      OBVIOUS
    <3>1. k + 1 \in 0..n /\ k \in 0..n /\ g[k] = e[k] /\ e[k] \in Int /\ (k + 1) - 1 = k /\ k + 1 # 0
      BY <1>1, <2>2
    <3>2. g[k + 1] = 2 * g[k]
      BY <3>1
    <3>3. e[k + 1] = Twice[e[k]]
      BY <1>1, <3>1 DEF Iterated
    <3> QED BY <3>1, <3>2, <3>3 DEF Twice
  <2> HIDE DEF N
  <2>3. \A k \in Nat : k \in N
    BY <2>1, <2>2, Induction
  <2>4. \A k \in Nat : k <= n => g[k] = e[k]
    BY <2>3 DEF N
  <2> QED BY <2>4
<1>3. e = [k \in 0..n |-> IF k = 0 THEN 1 ELSE 2 * e[k - 1]]
  <2>1. ASSUME NEW k \in 0..n PROVE e[k] = IF k = 0 THEN 1 ELSE 2 * e[k - 1]
    <3>1. e[k] = IF k = 0 THEN 1 ELSE Twice[e[k - 1]]
      BY <1>1 DEF Iterated
    <3>2. k # 0 => k - 1 \in 0..n /\ e[k - 1] \in Int
      BY <1>1
    <3> QED BY <3>1, <3>2 DEF Twice
  <2>2. e = [k \in 0..n |-> e[k]]
    BY <1>1
  <2> QED BY <2>1, <2>2
<1>4. f = [k \in 0..n |-> IF k = 0 THEN 1 ELSE 2 * f[k - 1]]
  BY <1>3
<1>5. W!Power(n) = f[n]
  BY DEF W!Power
<1> HIDE DEF f
<1>6. f[n] = e[n]
  BY <1>2, <1>4
<1> QED BY <1>1, <1>5, <1>6

(* Powers of two double. *)
LEMMA PowerStep ==
  /\ W!Power(0) = 1
  /\ \A k \in Nat : W!Power(k) \in Nat /\ W!Power(k) >= 1 /\ W!Power(k + 1) = 2 * W!Power(k)
<1>1. W!Power(0) = 1
  <2>1. PICK f \in [0..0 -> Int] : Iterated(1, Twice, 0, f) /\ W!Power(0) = f[0]
    BY PowerIs
  <2> QED BY <2>1 DEF Iterated
<1>2. ASSUME NEW k \in Nat PROVE W!Power(k) \in Int /\ W!Power(k + 1) = 2 * W!Power(k)
  <2>1. PICK e \in [0..k -> Int] : Iterated(1, Twice, k, e) /\ W!Power(k) = e[k]
    BY PowerIs
  <2> DEFINE n == k + 1
  <2>2. n \in Nat /\ k <= n /\ k \in 0..k /\ k \in 0..n
    OBVIOUS
  <2>3. PICK f \in [0..n -> Int] : Iterated(1, Twice, n, f) /\ W!Power(n) = f[n]
    <3> HIDE DEF n
    <3> QED BY <2>2, PowerIs
  <2>4. e[k] = f[k]
    <3> HIDE DEF n
    <3> QED BY <2>1, <2>2, <2>3, IteratesAgree
  <2>5. f[k] \in Int
    BY <2>2, <2>3
  <2>6. f[k + 1] = Twice[f[k]]
    <3>1. k + 1 \in 0..(k + 1) /\ k + 1 # 0 /\ (k + 1) - 1 = k
      OBVIOUS
    <3> QED BY <2>3, <3>1 DEF Iterated
  <2> QED BY <2>1, <2>3, <2>4, <2>5, <2>6 DEF Twice
<1> DEFINE N == {k \in Nat : W!Power(k) \in Nat /\ W!Power(k) >= 1}
<1>3. 0 \in N
  BY <1>1
<1>4. ASSUME NEW k \in Nat, k \in N PROVE k + 1 \in N
  BY <1>2, <1>4
<1> HIDE DEF N
<1>5. \A k \in Nat : k \in N
  BY <1>3, <1>4, Induction
<1> QED BY <1>1, <1>2, <1>5 DEF N

(* A word's halves, as wordenc makes them. *)
LEMMA HalvesAre ==
  ASSUME NEW word \in Nat
  PROVE  \E n : /\ n[0] = word
                /\ \A j \in 0..WordBits : n[j] \in Nat
                /\ \A j \in 0..(WordBits - 1) : n[j + 1] = n[j] \div 2
                /\ W!Digits(word) = {j \in 0..(WordBits - 1) : n[j] % 2 = 1}
<1> DEFINE h == [x \in Int |-> x \div 2]
           n == CHOOSE n : n = [j \in 0..WordBits |-> IF j = 0 THEN word ELSE n[j - 1] \div 2]
<1>1. WordBits \in Nat
  BY PartsAssumption DEF W!WordsAssumption
<1>2. PICK e \in [0..WordBits -> Int] : Iterated(word, h, WordBits, e)
  <2>1. h \in [Int -> Int] /\ word \in Int
    OBVIOUS
  <2> HIDE DEF h
  <2> QED BY <1>1, <2>1, Iterates
<1>3. e = [j \in 0..WordBits |-> IF j = 0 THEN word ELSE e[j - 1] \div 2]
  <2>1. ASSUME NEW j \in 0..WordBits PROVE e[j] = IF j = 0 THEN word ELSE e[j - 1] \div 2
    <3>1. e[j] = IF j = 0 THEN word ELSE h[e[j - 1]]
      BY <1>2 DEF Iterated
    <3>2. j # 0 => j - 1 \in 0..WordBits /\ e[j - 1] \in Int
      BY <1>1, <1>2
    <3> QED BY <3>1, <3>2
  <2>2. e = [j \in 0..WordBits |-> e[j]]
    BY <1>2
  <2> QED BY <2>1, <2>2
<1>4. n = [j \in 0..WordBits |-> IF j = 0 THEN word ELSE n[j - 1] \div 2]
  BY <1>3
<1>5. W!Digits(word) = {j \in 0..(WordBits - 1) : n[j] % 2 = 1}
  BY DEF W!Digits
<1> HIDE DEF n
<1>6. n[0] = word
  BY <1>1, <1>4
<1>7. ASSUME NEW j \in 0..(WordBits - 1) PROVE n[j + 1] = n[j] \div 2
  <2>1. j + 1 \in 0..WordBits /\ j + 1 # 0 /\ (j + 1) - 1 = j
    BY <1>1
  <2> QED BY <1>4, <2>1
<1> DEFINE N == {j \in Nat : j <= WordBits => n[j] \in Nat}
<1>8. 0 \in N
  BY <1>6
<1>9. ASSUME NEW j \in Nat, j \in N PROVE j + 1 \in N
  <2> SUFFICES ASSUME j + 1 <= WordBits PROVE n[j + 1] \in Nat
    OBVIOUS
  <2>1. j \in 0..(WordBits - 1) /\ n[j] \in Nat
    BY <1>1, <1>9
  <2> QED BY <1>7, <2>1
<1> HIDE DEF N
<1>10. \A j \in Nat : j \in N
  BY <1>8, <1>9, Induction
<1>11. \A j \in 0..WordBits : n[j] \in Nat
  BY <1>1, <1>10 DEF N
<1> QED BY <1>5, <1>6, <1>7, <1>11

(* The sums of its bits' values, as worddec makes them. *)
LEMMA SumsAre ==
  ASSUME NEW digits
  PROVE  \E m : /\ m[0] = 0
                /\ \A j \in 0..(WordBits - 1) : m[j + 1] = m[j] + (IF j \in digits THEN W!Power(j) ELSE 0)
                /\ W!WordOf(digits) = m[WordBits]
<1> DEFINE g == [n \in Nat |-> IF n - 1 \in digits THEN W!Power(n - 1) ELSE 0]
           m == CHOOSE m : m = [n \in 0..WordBits |->
                                  IF n = 0 THEN 0
                                  ELSE m[n - 1] + (IF n - 1 \in digits THEN W!Power(n - 1) ELSE 0)]
<1>1. WordBits \in Nat
  BY PartsAssumption DEF W!WordsAssumption
<1>2. PICK e : SumOf(g, WordBits, e)
  BY <1>1, SumExists
<1>3. e = [n \in 0..WordBits |-> IF n = 0 THEN 0
                                 ELSE e[n - 1] + (IF n - 1 \in digits THEN W!Power(n - 1) ELSE 0)]
  <2>1. ASSUME NEW n \in 0..WordBits
        PROVE  e[n] = IF n = 0 THEN 0 ELSE e[n - 1] + (IF n - 1 \in digits THEN W!Power(n - 1) ELSE 0)
    <3>1. e[n] = IF n = 0 THEN 0 ELSE e[n - 1] + g[n]
      BY <1>2 DEF SumOf
    <3>2. g[n] = IF n - 1 \in digits THEN W!Power(n - 1) ELSE 0
      BY <1>1
    <3> HIDE DEF g
    <3> QED BY <3>1, <3>2
  <2>2. e = [n \in 0..WordBits |-> e[n]]
    BY <1>2 DEF SumOf
  <2> QED BY <2>1, <2>2
<1>4. m = [n \in 0..WordBits |-> IF n = 0 THEN 0
                                 ELSE m[n - 1] + (IF n - 1 \in digits THEN W!Power(n - 1) ELSE 0)]
  BY <1>3
<1>5. W!WordOf(digits) = m[WordBits]
  BY DEF W!WordOf
<1> HIDE DEF m
<1>6. m[0] = 0
  BY <1>1, <1>4
<1>7. ASSUME NEW j \in 0..(WordBits - 1)
      PROVE  m[j + 1] = m[j] + (IF j \in digits THEN W!Power(j) ELSE 0)
  <2>1. j + 1 \in 0..WordBits /\ j + 1 # 0 /\ (j + 1) - 1 = j
    BY <1>1
  <2> QED BY <1>4, <2>1
<1> QED BY <1>5, <1>6, <1>7

(* The bits of a word make that word. *)
LEMMA WordBack == ASSUME NEW word \in 0..(W!Words - 1) PROVE W!WordOf(W!Digits(word)) = word
<1> DEFINE D == W!Digits(word)
<1>1. WordBits \in Nat /\ W!Words = W!Power(WordBits) /\ W!Words \in Nat
  BY PowerStep, PartsAssumption DEF W!WordsAssumption, W!Words
<1>2. word \in Nat /\ word < W!Words
  BY <1>1
<1>3. PICK n : /\ n[0] = word
               /\ \A j \in 0..WordBits : n[j] \in Nat
               /\ \A j \in 0..(WordBits - 1) : n[j + 1] = n[j] \div 2
               /\ D = {j \in 0..(WordBits - 1) : n[j] % 2 = 1}
  BY <1>2, HalvesAre
<1> HIDE DEF D
<1>4. PICK m : /\ m[0] = 0
               /\ \A j \in 0..(WordBits - 1) : m[j + 1] = m[j] + (IF j \in D THEN W!Power(j) ELSE 0)
               /\ W!WordOf(D) = m[WordBits]
  BY SumsAre
<1> DEFINE N == {j \in Nat : j <= WordBits => m[j] \in Nat /\ word = m[j] + W!Power(j) * n[j]}
<1>5. 0 \in N
  BY <1>2, <1>3, <1>4, PowerStep
<1>6. ASSUME NEW j \in Nat, j \in N PROVE j + 1 \in N
  <2> SUFFICES ASSUME j + 1 <= WordBits
               PROVE  m[j + 1] \in Nat /\ word = m[j + 1] + W!Power(j + 1) * n[j + 1]
    OBVIOUS
  <2> DEFINE x == n[j]
             y == n[j + 1]
             p == W!Power(j)
             q == W!Power(j + 1)
             a == m[j]
             c == m[j + 1]
  <2>1. /\ j \in 0..(WordBits - 1) /\ j + 1 \in 0..WordBits
        /\ a \in Nat /\ word = a + p * x
    BY <1>1, <1>6
  <2>2. x \in Nat /\ y \in Nat /\ p \in Nat /\ q = 2 * p
    <3>1. j \in 0..WordBits
      BY <1>1, <2>1
    <3> QED BY <1>3, <2>1, <3>1, PowerStep
  <2>3. y = x \div 2
    BY <1>3, <2>1
  <2>4. c = a + (IF x % 2 = 1 THEN p ELSE 0)
    BY <1>3, <1>4, <2>1
  <2> HIDE DEF x, y, p, q, a, c
  <2>5. CASE x % 2 = 1
    <3>1. x = 2 * y + 1 /\ c = a + p
      BY <2>2, <2>3, <2>4, <2>5
    <3>2. p * (2 * y + 1) = p + (2 * p) * y
      BY <2>2
    <3>3. c \in Nat /\ word = c + q * y
      BY <2>1, <2>2, <3>1, <3>2
    <3> QED BY <3>3 DEF c, q, y
  <2>6. CASE x % 2 = 0
    <3>1. x = 2 * y /\ c = a
      BY <2>1, <2>2, <2>3, <2>4, <2>6
    <3>2. p * (2 * y) = (2 * p) * y
      BY <2>2
    <3>3. c \in Nat /\ word = c + q * y
      BY <2>1, <2>2, <3>1, <3>2
    <3> QED BY <3>3 DEF c, q, y
  <2>7. x % 2 = 1 \/ x % 2 = 0
    BY <2>2
  <2> QED BY <2>5, <2>6, <2>7
<1> HIDE DEF N
<1>7. \A j \in Nat : j \in N
  BY <1>5, <1>6, Induction
<1>8. m[WordBits] \in Nat /\ word = m[WordBits] + W!Words * n[WordBits] /\ n[WordBits] \in Nat
  <2>1. WordBits \in 0..WordBits
    BY <1>1
  <2> QED BY <1>1, <1>3, <1>7, <2>1 DEF N
<1>9. n[WordBits] = 0
  <2> DEFINE x == n[WordBits]
             p == W!Words
             a == m[WordBits]
  <2>1. x \in Nat /\ p \in Nat /\ a \in Nat /\ word = a + p * x /\ word < p
    BY <1>1, <1>2, <1>8
  <2> HIDE DEF x, p, a
  <2>2. x >= 1 => p * x >= p
    BY <2>1
  <2>3. x = 0
    BY <1>2, <2>1, <2>2
  <2> QED BY <2>3 DEF x
<1>10. word = m[WordBits]
  BY <1>1, <1>8, <1>9
<1> QED BY <1>4, <1>10 DEF D

(* No bits make the first word. *)
LEMMA NoWord == W!WordOf({}) = 0
<1>1. WordBits \in Nat
  BY PartsAssumption DEF W!WordsAssumption
<1>2. PICK m : /\ m[0] = 0
               /\ \A j \in 0..(WordBits - 1) : m[j + 1] = m[j] + (IF j \in {} THEN W!Power(j) ELSE 0)
               /\ W!WordOf({}) = m[WordBits]
  BY SumsAre
<1> DEFINE N == {j \in Nat : j <= WordBits => m[j] = 0}
<1>3. 0 \in N
  BY <1>2
<1>4. ASSUME NEW j \in Nat, j \in N PROVE j + 1 \in N
  <2> SUFFICES ASSUME j + 1 <= WordBits PROVE m[j + 1] = 0
    OBVIOUS
  <2>1. j \in 0..(WordBits - 1) /\ m[j] = 0
    BY <1>1, <1>4
  <2>2. m[j + 1] = m[j] + 0
    BY <1>2, <2>1
  <2> QED BY <2>1, <2>2
<1> HIDE DEF N
<1>5. \A j \in Nat : j \in N
  BY <1>3, <1>4, Induction
<1> QED BY <1>1, <1>2, <1>5 DEF N

(* Before another word there is room for this one's bits. *)
LEMMA Product ==
  ASSUME NEW u \in Nat, NEW v \in Nat, NEW n \in Nat, u < v
  PROVE  u * n + n <= v * n /\ u * n \in Nat /\ v * n \in Nat
<1>1. PICK c \in Nat : v = u + 1 + c
  <2>1. v - u - 1 \in Nat /\ v = u + 1 + (v - u - 1)
    OBVIOUS
  <2> QED BY <2>1
<1>2. v * n = u * n + n + c * n
  BY <1>1
<1>3. c * n >= 0 /\ u * n >= 0
  OBVIOUS
<1> QED BY <1>2, <1>3

(* A bit is one of one word. *)
LEMMA OneWord ==
  ASSUME NEW u \in Nat, NEW v \in Nat, NEW i \in 0..(WordBits - 1), NEW j \in 0..(WordBits - 1),
         u * WordBits + i = v * WordBits + j
  PROVE  u = v /\ i = j
<1>1. WordBits \in Nat
  BY PartsAssumption DEF W!WordsAssumption
<1>2. u * WordBits \in Nat /\ v * WordBits \in Nat
  BY <1>1
<1>3. ~ (u < v)
  <2> SUFFICES ASSUME u < v PROVE FALSE
    OBVIOUS
  <2>1. u * WordBits + WordBits <= v * WordBits
    BY <1>1, Product
  <2> QED BY <1>1, <1>2, <2>1
<1>4. ~ (v < u)
  <2> SUFFICES ASSUME v < u PROVE FALSE
    OBVIOUS
  <2>1. v * WordBits + WordBits <= u * WordBits
    BY <1>1, Product
  <2> QED BY <1>1, <1>2, <2>1
<1>5. u = v
  BY <1>3, <1>4
<1> QED BY <1>1, <1>2, <1>5

(* The bits of the first n words of phrase p. *)
PhraseBits(p, n) ==
  {i \in Nat : \E w \in 0..(n - 1) : \E j \in W!Digits(p[w + 1]) : i = w * WordBits + j}

(* The bits of word w among them. *)
LEMMA BitsOf ==
  ASSUME NEW p, NEW n \in Nat, NEW w \in Nat
  PROVE  {j \in 0..(WordBits - 1) : w * WordBits + j \in PhraseBits(p, n)}
           = IF w < n THEN W!Digits(p[w + 1]) ELSE {}
<1>1. \A u : W!Digits(u) \subseteq 0..(WordBits - 1)
  BY DEF W!Digits
<1>2. WordBits \in Nat
  BY PartsAssumption DEF W!WordsAssumption
<1>3. ASSUME NEW j \in 0..(WordBits - 1)
      PROVE  w * WordBits + j \in PhraseBits(p, n) <=> w < n /\ j \in W!Digits(p[w + 1])
  <2>1. ASSUME w * WordBits + j \in PhraseBits(p, n) PROVE w < n /\ j \in W!Digits(p[w + 1])
    <3>1. PICK v \in 0..(n - 1) : \E i \in W!Digits(p[v + 1]) : w * WordBits + j = v * WordBits + i
      BY <2>1 DEF PhraseBits
    <3>2. PICK i \in W!Digits(p[v + 1]) : w * WordBits + j = v * WordBits + i
      BY <3>1
    <3>3. w = v /\ j = i
      BY <1>1, <3>2, OneWord
    <3> QED BY <3>2, <3>3
  <2>2. ASSUME w < n, j \in W!Digits(p[w + 1]) PROVE w * WordBits + j \in PhraseBits(p, n)
    <3>1. w * WordBits + j \in Nat /\ w \in 0..(n - 1)
      BY <1>2, <2>2
    <3> QED BY <2>2, <3>1 DEF PhraseBits
  <2> QED BY <2>1, <2>2
<1> DEFINE D == W!Digits(p[w + 1])
           P == PhraseBits(p, n)
<1>4. D \subseteq 0..(WordBits - 1)
  BY <1>1
<1>5. \A j \in 0..(WordBits - 1) : w * WordBits + j \in P <=> w < n /\ j \in D
  BY <1>3
<1> HIDE DEF D, P
<1>6. {j \in 0..(WordBits - 1) : w * WordBits + j \in P} = IF w < n THEN D ELSE {}
  BY <1>4, <1>5
<1> QED BY <1>6 DEF D, P

(* The next word's bits come after them. *)
LEMMA BitsAdded ==
  ASSUME NEW p, NEW n \in Nat
  PROVE  PhraseBits(p, n + 1) = PhraseBits(p, n) \cup {n * WordBits + j : j \in W!Digits(p[n + 1])}
<1>1. \A u : W!Digits(u) \subseteq 0..(WordBits - 1)
  BY DEF W!Digits
<1>2. WordBits \in Nat
  BY PartsAssumption DEF W!WordsAssumption
<1>3. \A j \in W!Digits(p[n + 1]) : n * WordBits + j \in Nat
  BY <1>1, <1>2
<1>4. \A w : w \in 0..((n + 1) - 1) <=> w \in 0..(n - 1) \/ w = n
  OBVIOUS
<1>5. ASSUME NEW i
      PROVE  i \in PhraseBits(p, n + 1)
               <=> i \in PhraseBits(p, n) \/ \E j \in W!Digits(p[n + 1]) : i = n * WordBits + j
  BY <1>3, <1>4 DEF PhraseBits
<1> QED BY <1>5

(* The bits of a phrase fit the bitset. *)
LEMMA BitsFit ==
  ASSUME NEW p, NEW n \in Nat, n <= MaxWords
  PROVE  PhraseBits(p, n) \subseteq 0..(W!N - 1)
<1> SUFFICES ASSUME NEW i \in PhraseBits(p, n) PROVE i \in 0..(W!N - 1)
  OBVIOUS
<1>1. WordBits \in Nat /\ MaxWords \in Nat
  BY PartsAssumption DEF W!WordsAssumption
<1>2. PICK w \in 0..(n - 1) : \E j \in W!Digits(p[w + 1]) : i = w * WordBits + j
  BY DEF PhraseBits
<1>3. PICK j \in W!Digits(p[w + 1]) : i = w * WordBits + j
  BY <1>2
<1>4. j \in 0..(WordBits - 1)
  BY DEF W!Digits
<1>5. w \in Nat /\ w < MaxWords
  BY <1>1
<1>6. w * WordBits + WordBits <= MaxWords * WordBits /\ w * WordBits \in Nat
  BY <1>1, <1>5, Product
<1>7. W!N = MaxWords * WordBits
  BY <1>1 DEF W!N
<1> HIDE DEF W!N
<1>8. MaxWords * WordBits \in Nat
  BY <1>1
<1> QED BY <1>1, <1>3, <1>4, <1>6, <1>7, <1>8

(* Packed into bytes, encrypted, decrypted and unpacked they are the same. *)
LEMMA Packed ==
  ASSUME NEW bits, bits \subseteq 0..(W!N - 1), NEW pad \in Pads
  PROVE  W!FromBytes(W!x_or(W!x_or(W!ToBytes(bits), pad), pad)) = bits
<1> DEFINE b == W!ToBytes(bits)
           n == W!N
           size == W!Size
<1>1. n \in Nat /\ n % 8 \in {0, 7}
  <2>1. WordBits \in Nat /\ MaxWords \in Nat
    BY PartsAssumption DEF W!WordsAssumption
  <2>2. n \in Nat
    BY <2>1 DEF W!N
  <2> QED BY <2>2, PartsAssumption DEF W!WordsAssumption
<1>2. size = (n + 1) \div 8 /\ pad \in [0..(size - 1) -> SUBSET (0..7)]
  BY PartsAssumption DEF W!WordsAssumption, W!Size, W!Byte
<1>3. b = [i \in 0..(size - 1) |-> {p \in 0..7 : \E j \in bits : j \div 8 = i /\ p = W!Base(j) - 1 - (j % 8)}]
  BY DEF W!ToBytes
<1>4. W!x_or(W!x_or(b, pad), pad) = b
  <2>1. DOMAIN b = 0..(size - 1)
    BY <1>3
  <2>2. b = [i \in 0..(size - 1) |-> b[i]]
    BY <1>3
  <2> HIDE DEF b, size
  <2> DEFINE c == W!x_or(b, pad)
  <2>3. c = [i \in 0..(size - 1) |-> (b[i] \ pad[i]) \cup (pad[i] \ b[i])]
    BY <2>1 DEF W!x_or
  <2>4. DOMAIN c = 0..(size - 1)
    BY <2>3
  <2>5. W!x_or(c, pad) = [i \in 0..(size - 1) |-> (c[i] \ pad[i]) \cup (pad[i] \ c[i])]
    BY <2>4 DEF W!x_or
  <2>6. ASSUME NEW i \in 0..(size - 1) PROVE (c[i] \ pad[i]) \cup (pad[i] \ c[i]) = b[i]
    <3>1. c[i] = (b[i] \ pad[i]) \cup (pad[i] \ b[i])
      BY <2>3
    <3> HIDE DEF c
    <3> QED BY <3>1
  <2> HIDE DEF c
  <2>7. W!x_or(c, pad) = b
    BY <2>2, <2>5, <2>6
  <2> QED BY <2>7 DEF c
<1>5. ASSUME NEW i \in 0..(n - 1)
      PROVE  W!Base(i) - 1 - (i % 8) \in b[i \div 8] <=> i \in bits
  <2>1. W!Base(i) = IF i \div 8 = n \div 8 THEN n % 8 ELSE 8
    BY DEF W!Base
  <2> DEFINE p == W!Base(i) - 1 - (i % 8)
  <2>2. i \div 8 \in 0..(size - 1)
    <3> HIDE DEF n, size
    <3> QED BY <1>1, <1>2
  <2>3. p \in 0..7
    <3>1. i \in Nat /\ n \in Nat /\ i < n
      BY <1>1
    <3> HIDE DEF n
    <3> QED BY <2>1, <3>1
  <2>4. b[i \div 8] = {q \in 0..7 : \E j \in bits : j \div 8 = i \div 8 /\ q = W!Base(j) - 1 - (j % 8)}
    <3> HIDE DEF b
    <3> QED BY <1>3, <2>2
  <2>5. ASSUME NEW j \in bits, j \div 8 = i \div 8, p = W!Base(j) - 1 - (j % 8)
        PROVE  j = i
    <3>1. W!Base(j) = W!Base(i)
      BY <2>5 DEF W!Base
    <3>2. j \in Nat /\ i \in Nat /\ W!Base(i) \in Nat
      <4>1. j \in 0..(n - 1) /\ i \in 0..(n - 1)
        OBVIOUS
      <4> HIDE DEF n
      <4> QED BY <1>1, <2>1, <4>1
    <3>3. j % 8 = i % 8
      BY <2>5, <3>1, <3>2
    <3> QED BY <2>5, <3>2, <3>3
  <2> HIDE DEF b, n
  <2> QED BY <2>3, <2>4, <2>5
<1>6. W!FromBytes(b) = {i \in 0..(n - 1) : W!Base(i) - 1 - (i % 8) \in b[i \div 8]}
  BY DEF W!FromBytes
<1> HIDE DEF b
<1>7. W!FromBytes(b) = bits
  BY <1>5, <1>6
<1> QED BY <1>4, <1>7 DEF b

(* The bits are those of the words so far; once all are packed they stay,   *)
(* and the words that come out are those that went in.                      *)
WordsInv ==
  /\ s2 \in Phrases /\ s3 \in Pads
  /\ s1 = "words" => s4 \in 0..Len(s2) /\ s5 = PhraseBits(s2, s4) /\ \A i \in 1..s4 : s2[i] < W!Words
  /\ s1 \in {"printed", "unpacked"} => s5 = PhraseBits(s2, Len(s2)) /\ \A i \in 1..Len(s2) : s2[i] < W!Words
  /\ s1 = "printed" => s6 = W!x_or(W!ToBytes(s5), s3)
  /\ s1 \in {"words", "printed"} => s7 = <<>>
  /\ s1 = "unpacked" =>
       /\ s4 \in Nat /\ s7 \in Seq(Nat) /\ Len(s7) = s4
       /\ \A i \in 1..s4 : s7[i] = IF i <= Len(s2) THEN s2[i] ELSE 0

(* What wordenc is given. *)
LEMMA PhraseIs ==
  ASSUME NEW p \in Phrases
  PROVE  Len(p) \in Nat /\ Len(p) <= MaxWords /\ \A i \in 1..Len(p) : p[i] \in 0..W!Words
<1> DEFINE V == 0..W!Words
<1>1. p \in Seq(V) /\ Len(p) \in 1..MaxWords /\ MaxWords \in Nat
  BY PartsAssumption DEF W!WordsAssumption
<1> HIDE DEF V
<1>2. Len(p) \in Nat /\ Len(p) <= MaxWords
  BY <1>1
<1>3. \A i \in 1..Len(p) : p[i] \in V
  BY <1>1, ElementOfSeq
<1> QED BY <1>2, <1>3 DEF V

(* One word of wordenc. *)
LEMMA EncStep == ASSUME WordsInv, W!EncWord PROVE WordsInv'
<1>1. /\ s1 = "words" /\ s1' = s1 /\ s2' = s2 /\ s3' = s3 /\ s7' = s7 /\ s4' = s4 + 1
      /\ s4 < Len(s2) /\ s2[s4 + 1] < W!Words
      /\ s5' = s5 \cup {s4 * WordBits + j : j \in W!Digits(s2[s4 + 1])}
  BY DEF W!EncWord
<1>2. /\ s2 \in Phrases /\ s3 \in Pads /\ s7 = <<>> /\ s5 = PhraseBits(s2, s4)
      /\ s4 \in 0..Len(s2) /\ \A i \in 1..s4 : s2[i] < W!Words
  BY <1>1 DEF WordsInv
<1>3. Len(s2) \in Nat
  BY <1>2, PhraseIs
<1>4. s4 \in Nat /\ s4 + 1 \in 0..Len(s2)
  BY <1>1, <1>2, <1>3
<1>5. s5' = PhraseBits(s2, s4 + 1)
  BY <1>1, <1>2, <1>4, BitsAdded
<1>6. PhraseBits(s2, s4)' = PhraseBits(s2, s4 + 1)
  BY <1>1 DEF PhraseBits, W!Digits
<1>7. \A i \in 1..(s4 + 1) : s2[i] < W!Words
  <2>1. \A i \in 1..(s4 + 1) : i \in 1..s4 \/ i = s4 + 1
    BY <1>4
  <2> QED BY <1>1, <1>2, <2>1
<1>8. W!Words' = W!Words
  BY DEF W!Words, W!Power
<1> QED BY <1>1, <1>2, <1>4, <1>5, <1>6, <1>7, <1>8 DEF WordsInv

(* The bits are packed, encrypted and printed. *)
LEMMA PrintStep == ASSUME WordsInv, W!EncPrint PROVE WordsInv'
<1>1. /\ s1 = "words" /\ s1' = "printed" /\ s2' = s2 /\ s3' = s3 /\ s5' = s5 /\ s7' = s7
      /\ s4 = Len(s2) /\ s6' = W!x_or(W!ToBytes(s5), s3)
  BY DEF W!EncPrint
<1>2. /\ s2 \in Phrases /\ s3 \in Pads /\ s7 = <<>> /\ s5 = PhraseBits(s2, Len(s2))
      /\ \A i \in 1..Len(s2) : s2[i] < W!Words
  BY <1>1 DEF WordsInv
<1>3. W!x_or(W!ToBytes(s5), s3)' = W!x_or(W!ToBytes(s5), s3)
  BY <1>1 DEF W!x_or, W!ToBytes, W!Base
<1>4. PhraseBits(s2, Len(s2))' = PhraseBits(s2, Len(s2)) /\ W!Words' = W!Words
  BY <1>1 DEF PhraseBits, W!Digits, W!Words, W!Power
<1> QED BY <1>1, <1>2, <1>3, <1>4 DEF WordsInv

(* worddec has the bits that wordenc had. *)
LEMMA BitsStep == ASSUME WordsInv, W!DecBits PROVE WordsInv'
<1>1. /\ s1 = "printed" /\ s1' = "unpacked" /\ s2' = s2 /\ s3' = s3 /\ s7' = s7 /\ s4' = 0
      /\ s5' = W!FromBytes(W!x_or(s6, s3))
  BY DEF W!DecBits
<1>2. /\ s2 \in Phrases /\ s3 \in Pads /\ s7 = <<>> /\ s5 = PhraseBits(s2, Len(s2))
      /\ \A i \in 1..Len(s2) : s2[i] < W!Words
      /\ s6 = W!x_or(W!ToBytes(s5), s3)
  BY <1>1 DEF WordsInv
<1>3. s5 \subseteq 0..(W!N - 1)
  BY <1>2, PhraseIs, BitsFit
<1>4. s5' = s5
  BY <1>1, <1>2, <1>3, Packed
<1>5. PhraseBits(s2, Len(s2))' = PhraseBits(s2, Len(s2)) /\ W!Words' = W!Words
  BY <1>1 DEF PhraseBits, W!Digits, W!Words, W!Power
<1>6. <<>> \in Seq(Nat) /\ Len(<<>>) = 0
  OBVIOUS
<1>7. \A i \in 1..0 : s7'[i] = IF i <= Len(s2') THEN s2'[i] ELSE 0
  OBVIOUS
<1> QED BY <1>1, <1>2, <1>4, <1>5, <1>6, <1>7 DEF WordsInv

(* One word of worddec. *)
LEMMA DecStep == ASSUME WordsInv, W!DecWord PROVE WordsInv'
<1> DEFINE digits == {j \in 0..(WordBits - 1) : s4 * WordBits + j \in s5}
<1>1. /\ s1 = "unpacked" /\ s1' = s1 /\ s2' = s2 /\ s3' = s3 /\ s5' = s5 /\ s4' = s4 + 1
      /\ s7' = Append(s7, W!WordOf(digits))
  BY DEF W!DecWord
<1>2. /\ s2 \in Phrases /\ s3 \in Pads /\ s5 = PhraseBits(s2, Len(s2))
      /\ \A i \in 1..Len(s2) : s2[i] < W!Words
      /\ s4 \in Nat /\ s7 \in Seq(Nat) /\ Len(s7) = s4
      /\ \A i \in 1..s4 : s7[i] = IF i <= Len(s2) THEN s2[i] ELSE 0
  BY <1>1 DEF WordsInv
<1>3. Len(s2) \in Nat /\ \A i \in 1..Len(s2) : s2[i] \in 0..W!Words
  BY <1>2, PhraseIs
<1>4. digits = IF s4 < Len(s2) THEN W!Digits(s2[s4 + 1]) ELSE {}
  BY <1>2, <1>3, BitsOf
<1> HIDE DEF digits
<1> DEFINE word == IF s4 + 1 <= Len(s2) THEN s2[s4 + 1] ELSE 0
<1>5. W!WordOf(digits) = word /\ word \in Nat
  <2>1. CASE s4 < Len(s2)
    <3>1. s4 + 1 \in 1..Len(s2) /\ s4 + 1 <= Len(s2)
      BY <1>2, <1>3, <2>1
    <3>2. W!Words \in Nat
      BY PowerStep, PartsAssumption DEF W!Words, W!WordsAssumption
    <3>3. s2[s4 + 1] \in 0..(W!Words - 1)
      BY <1>2, <1>3, <3>1, <3>2
    <3>4. W!WordOf(W!Digits(s2[s4 + 1])) = s2[s4 + 1]
      BY <3>3, WordBack
    <3>5. s2[s4 + 1] \in Nat
      BY <3>2, <3>3
    <3> QED BY <1>4, <2>1, <3>1, <3>4, <3>5
  <2>2. CASE ~ (s4 < Len(s2))
    <3>1. ~ (s4 + 1 <= Len(s2))
      BY <1>2, <1>3, <2>2
    <3>2. digits = {}
      BY <1>4, <2>2
    <3> QED BY <3>1, <3>2, NoWord
  <2> QED BY <2>1, <2>2
<1> HIDE DEF word
<1>6. /\ s7' \in Seq(Nat) /\ Len(s7') = s4 + 1
      /\ \A i \in 1..s4 : s7'[i] = s7[i]
      /\ s7'[s4 + 1] = word
  BY <1>1, <1>2, <1>5, AppendProperties
<1>7. \A i \in 1..(s4 + 1) : s7'[i] = IF i <= Len(s2) THEN s2[i] ELSE 0
  <2>1. \A i \in 1..(s4 + 1) : i \in 1..s4 \/ i = s4 + 1
    BY <1>2
  <2> QED BY <1>2, <1>6, <2>1 DEF word
<1>8. PhraseBits(s2, Len(s2))' = PhraseBits(s2, Len(s2)) /\ W!Words' = W!Words
  BY <1>1 DEF PhraseBits, W!Digits, W!Words, W!Power
<1>9. s4 + 1 \in Nat
  BY <1>2
<1> QED BY <1>1, <1>2, <1>6, <1>7, <1>8, <1>9 DEF WordsInv

(* worddec prints the phrase that wordenc was given, for any pad, word     *)
(* size and number of words for which no bit is without a byte.            *)
THEOREM PhraseComesBack == Spec => []PhraseKept
<1>1. Init => (part = "words" => WordsInv)
  <2> SUFFICES ASSUME Init, part = "words" PROVE WordsInv
    OBVIOUS
  <2>1. W!Init
    BY DEF Init
  <2>2. s1 = "words" /\ s2 \in Phrases /\ s3 \in Pads /\ s4 = 0 /\ s5 = {} /\ s7 = <<>>
    BY <2>1 DEF W!Init
  <2>3. Len(s2) \in Nat
    BY <2>2, PhraseIs
  <2>4. PhraseBits(s2, 0) = {}
    BY DEF PhraseBits
  <2> QED BY <2>2, <2>3, <2>4 DEF WordsInv
<1>2. (part = "words" => WordsInv) /\ [Next]_vars => (part = "words" => WordsInv)'
  <2>1. [Next]_vars => UNCHANGED part
    BY DEF Next, vars
  <2>2. part = "words" /\ [Next]_vars => W!Next \/ UNCHANGED <<s1, s2, s3, s4, s5, s6, s7>>
    BY DEF Next, vars
  <2>3. ASSUME WordsInv, W!EncUnknown PROVE WordsInv'
    <3>1. s1' = "refused" /\ s2' = s2 /\ s3' = s3 /\ s2 \in Phrases /\ s3 \in Pads
      BY <2>3 DEF WordsInv, W!EncUnknown
    <3> QED BY <3>1 DEF WordsInv
  <2>4. ASSUME WordsInv, UNCHANGED <<s1, s2, s3, s4, s5, s6, s7>> PROVE WordsInv'
    <3>1. /\ \A n : PhraseBits(s2, n)' = PhraseBits(s2, n)
          /\ PhraseBits(s2, s4)' = PhraseBits(s2, s4)
          /\ PhraseBits(s2, Len(s2))' = PhraseBits(s2, Len(s2))
          /\ W!Words' = W!Words
      BY <2>4 DEF PhraseBits, W!Digits, W!Words, W!Power
    <3>2. W!x_or(W!ToBytes(s5), s3)' = W!x_or(W!ToBytes(s5), s3)
      BY <2>4 DEF W!x_or, W!ToBytes, W!Base
    <3> QED BY <2>4, <3>1, <3>2 DEF WordsInv
  <2> QED BY <2>1, <2>2, <2>3, <2>4, EncStep, PrintStep, BitsStep, DecStep DEF W!Next
<1>3. (part = "words" => WordsInv) => PhraseKept
  <2> SUFFICES ASSUME WordsInv, s1 = "unpacked"
               PROVE  \A i \in DOMAIN s7 : s7[i] = IF i <= Len(s2) THEN s2[i] ELSE 0
    BY DEF PhraseKept, W!PhraseKept
  <2>1. DOMAIN s7 = 1..s4
    BY LenProperties DEF WordsInv
  <2> QED BY <2>1 DEF WordsInv
<1> QED BY <1>1, <1>2, <1>3, PTL DEF Spec

-----------------------------------------------------------------------------
(* bytes_to_bech32 again: the bits it regroups. *)

(* The powers of two within a byte. *)
LEMMA PowersAre ==
  /\ \A k \in Nat : /\ R!Power(k) \in Nat /\ R!Power(k) >= 1
                    /\ R!Power(k + 1) = 2 * R!Power(k)
  /\ R!Power(0) = 1 /\ R!Power(1) = 2 /\ R!Power(2) = 4 /\ R!Power(3) = 8
  /\ R!Power(4) = 16 /\ R!Power(5) = 32 /\ R!Power(6) = 64 /\ R!Power(7) = 128
<1>1. \A k : R!Power(k) = W!Power(k)
  BY DEF R!Power, W!Power
<1>2. \A k \in Nat : W!Power(k) \in Nat /\ W!Power(k) >= 1 /\ W!Power(k + 1) = 2 * W!Power(k)
  BY PowerStep
<1>3. W!Power(0) = 1
  BY PowerStep
<1>4. W!Power(1) = 2
  BY <1>2, <1>3
<1>5. W!Power(2) = 4
  BY <1>2, <1>4
<1>6. W!Power(3) = 8
  BY <1>2, <1>5
<1>7. W!Power(4) = 16
  BY <1>2, <1>6
<1>8. W!Power(5) = 32
  BY <1>2, <1>7
<1>9. W!Power(6) = 64
  BY <1>2, <1>8
<1>10. W!Power(7) = 128
  BY <1>2, <1>9
<1>11. \A k \in Nat : R!Power(k) \in Nat /\ R!Power(k) >= 1 /\ R!Power(k + 1) = 2 * R!Power(k)
  BY <1>1, <1>2
<1> QED BY <1>1, <1>11, <1>3, <1>4, <1>5, <1>6, <1>7, <1>8, <1>9, <1>10

(* The quotient is the only number that leaves less than d.                 *)
LEMMA DivIs ==
  ASSUME NEW d \in Nat, d >= 1, NEW q \in Nat, NEW r \in Nat, r < d
  PROVE  (d * q + r) \div d = q
<1> DEFINE m == d * q + r
           e == m \div d
           f == m % d
<1>1. m \in Nat /\ e \in Nat /\ f \in Nat /\ f < d /\ m = d * e + f
  <2>1. m \in Nat /\ d > 0
    OBVIOUS
  <2> HIDE DEF m
  <2> QED BY <2>1
<1>2. m = d * q + r
  OBVIOUS
<1> HIDE DEF m, e, f
<1>3. ~ (e < q)
  <2> SUFFICES ASSUME e < q PROVE FALSE
    OBVIOUS
  <2>1. d * (e + 1) <= d * q
    BY <1>1
  <2>2. d * (e + 1) = d * e + d
    BY <1>1
  <2> QED BY <1>1, <1>2, <2>1, <2>2
<1>4. ~ (q < e)
  <2> SUFFICES ASSUME q < e PROVE FALSE
    OBVIOUS
  <2>1. d * (q + 1) <= d * e
    BY <1>1
  <2>2. d * (q + 1) = d * q + d
    BY <1>1
  <2> QED BY <1>1, <1>2, <2>1, <2>2
<1>5. e = q
  BY <1>1, <1>3, <1>4
<1> QED BY <1>5 DEF e, m

(* To divide by twice p is to divide by 2 first.                            *)
LEMMA HalfFirst ==
  ASSUME NEW z \in Nat, NEW p \in Nat, p >= 1
  PROVE  z \div (2 * p) = (z \div 2) \div p
<1> DEFINE a == z \div 2
           b == z % 2
           q == a \div p
           r == a % p
<1>1. a \in Nat /\ b \in {0, 1} /\ z = 2 * a + b
  OBVIOUS
<1>2. q \in Nat /\ r \in Nat /\ r < p /\ a = p * q + r
  <2> HIDE DEF a
  <2>1. p > 0
    OBVIOUS
  <2> QED BY <1>1, <2>1
<1> HIDE DEF a, b, q, r
<1>3. z = (2 * p) * q + (2 * r + b)
  BY <1>1, <1>2
<1>4. 2 * p \in Nat /\ 2 * p >= 1 /\ 2 * r + b \in Nat /\ 2 * r + b < 2 * p
  BY <1>1, <1>2
<1>5. z \div (2 * p) = q
  BY <1>2, <1>3, <1>4, DivIs
<1> QED BY <1>5 DEF q, a

(* The bit of z whose power is p. *)
Digit(z, p) == (z \div p) % 2

(* The bits of a number are its last one and those of its half. *)
LEMMA DigitHalf ==
  ASSUME NEW z \in Nat
  PROVE  /\ Digit(z, R!Power(0)) = z % 2
         /\ \A t \in Nat : Digit(z, R!Power(t + 1)) = Digit(z \div 2, R!Power(t))
<1>1. Digit(z, R!Power(0)) = z % 2
  BY PowersAre DEF Digit
<1>2. ASSUME NEW t \in Nat PROVE Digit(z, R!Power(t + 1)) = Digit(z \div 2, R!Power(t))
  <2> DEFINE p == R!Power(t)
  <2>1. p \in Nat /\ p >= 1 /\ R!Power(t + 1) = 2 * p
    BY PowersAre
  <2> HIDE DEF p
  <2>2. z \div (2 * p) = (z \div 2) \div p
    BY <2>1, HalfFirst
  <2>3. Digit(z, 2 * p) = Digit(z \div 2, p)
    BY <2>2 DEF Digit
  <2> QED BY <2>1, <2>3 DEF p
<1> QED BY <1>1, <1>2

(* The bits of a number shifted to the right. *)
LEMMA DigitShift ==
  \A c \in Nat : \A z \in Nat, t \in Nat :
    z \div R!Power(c) \in Nat /\ Digit(z \div R!Power(c), R!Power(t)) = Digit(z, R!Power(c + t))
<1> DEFINE Shifts(c) == \A z \in Nat, t \in Nat :
             z \div R!Power(c) \in Nat /\ Digit(z \div R!Power(c), R!Power(t)) = Digit(z, R!Power(c + t))
           N == {c \in Nat : Shifts(c)}
<1>1. 0 \in N
  <2> SUFFICES ASSUME NEW z \in Nat, NEW t \in Nat
               PROVE  z \div R!Power(0) \in Nat /\ Digit(z \div R!Power(0), R!Power(t)) = Digit(z, R!Power(0 + t))
    OBVIOUS
  <2>1. z \div R!Power(0) = z /\ 0 + t = t
    BY PowersAre
  <2> QED BY <2>1
<1>2. ASSUME NEW c \in Nat, c \in N PROVE c + 1 \in N
  <2> SUFFICES ASSUME NEW z \in Nat, NEW t \in Nat
               PROVE  /\ z \div R!Power(c + 1) \in Nat
                      /\ Digit(z \div R!Power(c + 1), R!Power(t)) = Digit(z, R!Power((c + 1) + t))
    OBVIOUS
  <2> DEFINE p == R!Power(c)
             a == z \div 2
  <2>1. p \in Nat /\ p >= 1 /\ R!Power(c + 1) = 2 * p
    BY PowersAre
  <2>2. a \in Nat
    OBVIOUS
  <2>3. a \div p \in Nat /\ Digit(a \div p, R!Power(t)) = Digit(a, R!Power(c + t))
    BY <1>2, <2>2
  <2> HIDE DEF p
  <2>4. z \div (2 * p) = a \div p
    BY <2>1, HalfFirst
  <2>5. c + t \in Nat /\ (c + 1) + t = (c + t) + 1
    OBVIOUS
  <2>6. Digit(z, R!Power((c + t) + 1)) = Digit(a, R!Power(c + t))
    BY <2>5, DigitHalf
  <2> HIDE DEF a
  <2> QED BY <2>1, <2>3, <2>4, <2>5, <2>6
<1> HIDE DEF N
<1>3. \A c \in Nat : c \in N
  BY <1>1, <1>2, Induction
<1> QED BY <1>3 DEF N

(* The bits of u with those of y behind its k bits. *)
LEMMA DigitsJoin ==
  \A k \in Nat : \A u \in Nat, y \in Nat, t \in Nat : u < R!Power(k) =>
    Digit(u + y * R!Power(k), R!Power(t)) = IF t < k THEN Digit(u, R!Power(t)) ELSE Digit(y, R!Power(t - k))
<1> DEFINE Joins(k) == \A u \in Nat, y \in Nat, t \in Nat : u < R!Power(k) =>
             Digit(u + y * R!Power(k), R!Power(t))
               = IF t < k THEN Digit(u, R!Power(t)) ELSE Digit(y, R!Power(t - k))
           N == {k \in Nat : Joins(k)}
<1>1. 0 \in N
  <2> SUFFICES ASSUME NEW u \in Nat, NEW y \in Nat, NEW t \in Nat, u < R!Power(0)
               PROVE  Digit(u + y * R!Power(0), R!Power(t)) = Digit(y, R!Power(t - 0))
    OBVIOUS
  <2>1. R!Power(0) = 1 /\ t - 0 = t
    BY PowersAre
  <2>2. u + y * R!Power(0) = y
    BY <2>1
  <2> QED BY <2>1, <2>2
<1>2. ASSUME NEW k \in Nat, k \in N PROVE k + 1 \in N
  <2> SUFFICES ASSUME NEW u \in Nat, NEW y \in Nat, NEW t \in Nat, u < R!Power(k + 1)
               PROVE  Digit(u + y * R!Power(k + 1), R!Power(t))
                        = IF t < k + 1 THEN Digit(u, R!Power(t)) ELSE Digit(y, R!Power(t - (k + 1)))
    OBVIOUS
  <2> DEFINE p == R!Power(k)
             m == u + y * R!Power(k + 1)
             v == u \div 2
  <2>1. p \in Nat /\ R!Power(k + 1) = 2 * p
    BY PowersAre
  <2>2. \A w \in Nat, s \in Nat : w < p =>
          Digit(w + y * p, R!Power(s)) = IF s < k THEN Digit(w, R!Power(s)) ELSE Digit(y, R!Power(s - k))
    BY <1>2
  <2>3. v \in Nat /\ m \in Nat /\ m \div 2 = v + y * p /\ m % 2 = u % 2 /\ v < p
    <3> DEFINE a == y * p
    <3>1. a \in Nat /\ y * (2 * p) = 2 * a
      BY <2>1
    <3>2. m = u + 2 * a /\ u < 2 * p
      BY <2>1, <3>1
    <3> HIDE DEF p, m, a
    <3>3. v \in Nat /\ m \in Nat /\ m \div 2 = v + a /\ m % 2 = u % 2 /\ v < p
      BY <2>1, <3>1, <3>2
    <3> QED BY <3>3 DEF a
  <2> HIDE DEF p, m, v
  <2>4. CASE t = 0
    <3>1. Digit(m, R!Power(0)) = m % 2 /\ Digit(u, R!Power(0)) = u % 2
      BY <2>3, DigitHalf
    <3>2. 0 < k + 1
      OBVIOUS
    <3> QED BY <2>3, <2>4, <3>1, <3>2 DEF m
  <2>5. CASE t # 0
    <3> DEFINE s == t - 1
    <3>1. s \in Nat /\ t = s + 1
      BY <2>5
    <3> HIDE DEF s
    <3>2. Digit(m, R!Power(s + 1)) = Digit(v + y * p, R!Power(s))
      BY <2>3, <3>1, DigitHalf
    <3>3. Digit(u, R!Power(s + 1)) = Digit(v, R!Power(s))
      BY <3>1, DigitHalf DEF v
    <3>4. Digit(v + y * p, R!Power(s)) = IF s < k THEN Digit(v, R!Power(s)) ELSE Digit(y, R!Power(s - k))
      BY <2>2, <2>3, <3>1
    <3>5. (t < k + 1 <=> s < k) /\ t - (k + 1) = s - k
      BY <3>1
    <3> QED BY <3>1, <3>2, <3>3, <3>4, <3>5 DEF m
  <2> QED BY <2>4, <2>5
<1> HIDE DEF N
<1>3. \A k \in Nat : k \in N
  BY <1>1, <1>2, Induction
<1> QED BY <1>3 DEF N

(* What a value is taken from that begins at bit c of byte x; y is the next *)
(* byte.                                                                    *)
Joint(c, x, y) == (x \div R!Power(c)) + (IF c >= 3 THEN y * R!Power(8 - c) ELSE 0)

(* The value has the bits of x from c on and then those of y ...            *)
Value(c, x, y) ==
  \A t \in 0..4 : Digit(Joint(c, x, y) % 32, R!Power(t))
                    = IF c + t < 8 THEN Digit(x, R!Power(c + t)) ELSE Digit(y, R!Power(c + t - 8))

(* ... and the bits behind these five are left.                             *)
Left(c, x, y) ==
  /\ Joint(c, x, y) \in Nat
  /\ Joint(c, x, y) \div 32 = IF c >= 3 THEN y \div R!Power(c - 3) ELSE x \div R!Power(c + 5)

(* The bits that are left are right. *)
LEMMA LeftIs == ASSUME NEW x \in 0..255, NEW y \in 0..255, NEW c \in 0..7 PROVE Left(c, x, y)
<1>1. CASE c = 0
  <2> DEFINE n == Joint(c, x, y)
  <2>1. ~ (c >= 3) /\ c + 5 = 5 /\ x \div 1 \in Nat
    BY <1>1
  <2>2. n = x \div 1
    BY <1>1, <2>1, PowersAre DEF Joint
  <2> HIDE DEF n
  <2>3. n \in Nat /\ n \div 32 = x \div 32
    BY <2>2
  <2> QED BY <1>1, <2>1, <2>3, PowersAre DEF Left, n
<1>2. CASE c = 1
  <2> DEFINE n == Joint(c, x, y)
  <2>1. ~ (c >= 3) /\ c + 5 = 6 /\ x \div 2 \in Nat
    BY <1>2
  <2>2. n = x \div 2
    BY <1>2, <2>1, PowersAre DEF Joint
  <2> HIDE DEF n
  <2>3. n \in Nat /\ n \div 32 = x \div 64
    BY <2>2
  <2> QED BY <1>2, <2>1, <2>3, PowersAre DEF Left, n
<1>3. CASE c = 2
  <2> DEFINE n == Joint(c, x, y)
  <2>1. ~ (c >= 3) /\ c + 5 = 7 /\ x \div 4 \in Nat
    BY <1>3
  <2>2. n = x \div 4
    BY <1>3, <2>1, PowersAre DEF Joint
  <2> HIDE DEF n
  <2>3. n \in Nat /\ n \div 32 = x \div 128
    BY <2>2
  <2> QED BY <1>3, <2>1, <2>3, PowersAre DEF Left, n
<1>4. CASE c = 3
  <2> DEFINE n == Joint(c, x, y)
  <2>1. c >= 3 /\ 8 - c = 5 /\ c - 3 = 0
    BY <1>4
  <2>2. n = (x \div 8) + y * 32
    BY <1>4, <2>1, PowersAre DEF Joint
  <2> HIDE DEF n
  <2>3. n \in Nat /\ n \div 32 = y \div 1
    BY <2>2
  <2> QED BY <1>4, <2>1, <2>3, PowersAre DEF Left, n
<1>5. CASE c = 4
  <2> DEFINE n == Joint(c, x, y)
  <2>1. c >= 3 /\ 8 - c = 4 /\ c - 3 = 1
    BY <1>5
  <2>2. n = (x \div 16) + y * 16
    BY <1>5, <2>1, PowersAre DEF Joint
  <2> HIDE DEF n
  <2>3. n \in Nat /\ n \div 32 = y \div 2
    BY <2>2
  <2> QED BY <1>5, <2>1, <2>3, PowersAre DEF Left, n
<1>6. CASE c = 5
  <2> DEFINE n == Joint(c, x, y)
  <2>1. c >= 3 /\ 8 - c = 3 /\ c - 3 = 2
    BY <1>6
  <2>2. n = (x \div 32) + y * 8
    BY <1>6, <2>1, PowersAre DEF Joint
  <2> HIDE DEF n
  <2>3. n \in Nat /\ n \div 32 = y \div 4
    BY <2>2
  <2> QED BY <1>6, <2>1, <2>3, PowersAre DEF Left, n
<1>7. CASE c = 6
  <2> DEFINE n == Joint(c, x, y)
  <2>1. c >= 3 /\ 8 - c = 2 /\ c - 3 = 3
    BY <1>7
  <2>2. n = (x \div 64) + y * 4
    BY <1>7, <2>1, PowersAre DEF Joint
  <2> HIDE DEF n
  <2>3. n \in Nat /\ n \div 32 = y \div 8
    BY <2>2
  <2> QED BY <1>7, <2>1, <2>3, PowersAre DEF Left, n
<1>8. CASE c = 7
  <2> DEFINE n == Joint(c, x, y)
  <2>1. c >= 3 /\ 8 - c = 1 /\ c - 3 = 4
    BY <1>8
  <2>2. n = (x \div 128) + y * 2
    BY <1>8, <2>1, PowersAre DEF Joint
  <2> HIDE DEF n
  <2>3. n \in Nat /\ n \div 32 = y \div 16
    BY <2>2
  <2> QED BY <1>8, <2>1, <2>3, PowersAre DEF Left, n
<1> QED BY <1>1, <1>2, <1>3, <1>4, <1>5, <1>6, <1>7, <1>8

(* So is the value. *)
LEMMA ValueIs == ASSUME NEW x \in 0..255, NEW y \in 0..255, NEW c \in 0..7 PROVE Value(c, x, y)
<1> SUFFICES ASSUME NEW t \in 0..4
             PROVE  Digit(Joint(c, x, y) % 32, R!Power(t))
                      = IF c + t < 8 THEN Digit(x, R!Power(c + t)) ELSE Digit(y, R!Power(c + t - 8))
  BY DEF Value
<1> DEFINE n == Joint(c, x, y)
           e == n % 32
           u == x \div R!Power(c)
<1>1. n \in Nat
  <2>1. Left(c, x, y)
    BY LeftIs, Zenon
  <2> QED BY <2>1 DEF Left
<1>2. Digit(n, R!Power(t)) = Digit(e, R!Power(t))
  <2> DEFINE h == n \div 32
  <2>1. e \in Nat /\ h \in Nat /\ e < 32 /\ n = e + h * 32
    <3> HIDE DEF n
    <3> QED BY <1>1
  <2> HIDE DEF n, e, h
  <2>2. R!Power(5) = 32 /\ 5 \in Nat /\ t \in Nat /\ t < 5
    <3>1. R!Power(5) = 32
      BY PowersAre
    <3> QED BY <3>1
  <2>3. Digit(e + h * R!Power(5), R!Power(t)) = Digit(e, R!Power(t))
    BY <2>1, <2>2, DigitsJoin
  <2> QED BY <2>1, <2>2, <2>3
<1>3. c \in Nat /\ t \in Nat /\ x \in Nat /\ y \in Nat
  OBVIOUS
<1>4. u \in Nat /\ Digit(u, R!Power(t)) = Digit(x, R!Power(c + t))
  BY <1>3, DigitShift
<1>5. CASE c >= 3
  <2> DEFINE k == 8 - c
  <2>1. k \in Nat /\ n = u + y * R!Power(k)
    BY <1>5 DEF Joint
  <2>2. u < R!Power(k)
    <3>1. c = 3 \/ c = 4 \/ c = 5 \/ c = 6 \/ c = 7
      BY <1>5
    <3>2. CASE c = 3
      <4>1. k = 5 /\ R!Power(c) = 8
        BY <3>2, PowersAre
      <4> HIDE DEF k
      <4> QED BY <4>1, PowersAre
    <3>3. CASE c = 4
      <4>1. k = 4 /\ R!Power(c) = 16
        BY <3>3, PowersAre
      <4> HIDE DEF k
      <4> QED BY <4>1, PowersAre
    <3>4. CASE c = 5
      <4>1. k = 3 /\ R!Power(c) = 32
        BY <3>4, PowersAre
      <4> HIDE DEF k
      <4> QED BY <4>1, PowersAre
    <3>5. CASE c = 6
      <4>1. k = 2 /\ R!Power(c) = 64
        BY <3>5, PowersAre
      <4> HIDE DEF k
      <4> QED BY <4>1, PowersAre
    <3>6. CASE c = 7
      <4>1. k = 1 /\ R!Power(c) = 128
        BY <3>6, PowersAre
      <4> HIDE DEF k
      <4> QED BY <4>1, PowersAre
    <3> QED BY <3>1, <3>2, <3>3, <3>4, <3>5, <3>6
  <2>3. (t < k <=> c + t < 8) /\ t - k = c + t - 8
    BY <1>3
  <2> HIDE DEF n, e, u, k
  <2>4. Digit(u + y * R!Power(k), R!Power(t))
          = IF t < k THEN Digit(u, R!Power(t)) ELSE Digit(y, R!Power(t - k))
    BY <1>3, <1>4, <2>1, <2>2, DigitsJoin
  <2> QED BY <1>2, <1>4, <2>1, <2>3, <2>4 DEF n, e
<1>6. CASE ~ (c >= 3)
  <2>1. n = u /\ c + t < 8
    BY <1>4, <1>6 DEF Joint
  <2> HIDE DEF n, e, u
  <2> QED BY <1>2, <1>4, <2>1 DEF n, e
<1> QED BY <1>5, <1>6

(* Nothing is in zero. *)
LEMMA NoDigit == \A t \in Nat : Digit(0, R!Power(t)) = 0
<1> SUFFICES ASSUME NEW t \in Nat PROVE Digit(0, R!Power(t)) = 0
  OBVIOUS
<1> DEFINE p == R!Power(t)
<1>1. p \in Nat /\ p >= 1
  BY PowersAre
<1> HIDE DEF p
<1>2. 0 \in Nat /\ 0 < p /\ p * 0 + 0 = 0
  BY <1>1
<1>3. (p * 0 + 0) \div p = 0
  BY <1>1, <1>2, DivIs
<1> QED BY <1>2, <1>3 DEF Digit, p

(* The values hold the first bits of b, zeros behind its last; what is left *)
(* of the byte last loaded is what the next value begins with.              *)
RegroupBits ==
  /\ s2 \in Seq(0..255)
  /\ s7 \in Seq(0..31)
  /\ s3 = 5 * Len(s7)
  /\ s3 \div 8 < Len(s2) => s5 = s2[(s3 \div 8) + 1] \div R!Power(s3 % 8)
  /\ s3 = 0 \/ (s3 - 5) \div 8 < Len(s2)
  /\ \A q \in 0..(s3 - 1) : R!Bit(s7, 5, q) = IF q < 8 * Len(s2) THEN R!Bit(s2, 8, q) ELSE 0
  /\ s1 = "done" => ~ (s3 \div 8 < Len(s2))

(* The byte that comes after the one at i, and nothing after the last.      *)
Following(i) == IF i + 1 < Len(s2) THEN s2[i + 2] ELSE 0

(* A value is taken from the byte it begins in and the one after that.      *)
LEMMA TakeIs ==
  ASSUME RegroupInv, RegroupBits, R!Take
  PROVE  LET i == s3 \div 8
             c == s3 % 8
             n == Joint(c, s2[i + 1], Following(i))
         IN  /\ i \in Nat /\ c \in 0..7 /\ i < Len(s2) /\ s3 = 8 * i + c
             /\ s2[i + 1] \in 0..255 /\ Following(i) \in 0..255
             /\ s7' = Append(s7, n % 32) /\ s5' = n \div 32
             /\ UNCHANGED <<s1, s2>> /\ s3' = s3 + 5
<1> DEFINE i == s3 \div 8
           c == s3 % 8
           x == s2[i + 1]
           y == Following(i)
           n == Joint(c, x, y)
<1>1. s3 \in Nat /\ i \in Nat /\ c \in 0..7 /\ s3 = 8 * i + c
  BY DEF RegroupInv
<1>2. i < Len(s2) /\ Len(s2) \in Nat
  BY DEF RegroupInv, R!Take
<1>3. s6 = i /\ s5 = x \div R!Power(c) /\ s4 = s3 + 5
  BY <1>2 DEF RegroupInv, RegroupBits
<1>4. /\ s4 \div 8 = IF c >= 3 THEN i + 1 ELSE i
      /\ c >= 3 => s4 % 8 = c - 3
  BY <1>1, <1>3
<1>5. s2 \in [1..Len(s2) -> 0..255]
  BY SeqIs DEF RegroupBits
<1>6. x \in 0..255 /\ y \in 0..255
  <2>1. i + 1 \in 1..Len(s2) /\ (i + 1 < Len(s2) => i + 2 \in 1..Len(s2))
    BY <1>1, <1>2
  <2> HIDE DEF i
  <2> QED BY <1>5, <2>1 DEF Following
<1>7. R!Loads <=> c >= 3 /\ i + 1 < Len(s2)
  BY <1>1, <1>2, <1>3, <1>4 DEF R!Loads
<1>8. R!Loads => R!Shift = 8 - c /\ s2[(s4 \div 8) + 1] = y
  BY <1>1, <1>2, <1>4, <1>7 DEF R!Shift, Following
<1>9. n = IF R!Loads THEN s5 + s2[(s4 \div 8) + 1] * R!Power(R!Shift) ELSE s5
  <2>1. x \div R!Power(c) \in Nat
    <3>1. x \in Nat /\ c \in Nat
      BY <1>1, <1>6
    <3> HIDE DEF x, c
    <3> QED BY <3>1, DigitShift
  <2>2. CASE R!Loads
    BY <1>3, <1>7, <1>8, <2>2 DEF Joint
  <2>3. CASE ~ R!Loads
    <3>1. CASE c >= 3
      <4>1. y = 0
        BY <1>7, <2>3, <3>1 DEF Following
      <4>2. 8 - c \in Nat
        BY <1>1
      <4>3. R!Power(8 - c) \in Nat
        BY <4>2, PowersAre
      <4>4. y * R!Power(8 - c) = 0
        BY <4>1, <4>3
      <4> HIDE DEF c, y, x
      <4> QED BY <1>3, <2>1, <2>3, <3>1, <4>4 DEF Joint
    <3>2. CASE ~ (c >= 3)
      <4> HIDE DEF c, y, x
      <4> QED BY <1>3, <2>1, <2>3, <3>2 DEF Joint
    <3> QED BY <3>1, <3>2
  <2> QED BY <2>2, <2>3
<1>10. s7' = Append(s7, n % 32) /\ s5' = n \div 32 /\ s3' = s3 + 5 /\ UNCHANGED <<s1, s2>>
  <2> HIDE DEF n
  <2> QED BY <1>9 DEF R!Take
<1> QED BY <1>1, <1>2, <1>6, <1>10

(* The bits of a value that is taken are the next five of b. *)
LEMMA TakeBits ==
  ASSUME RegroupInv, RegroupBits, R!Take, NEW t \in 0..4
  PROVE  LET i == s3 \div 8
             c == s3 % 8
         IN  Digit(Joint(c, s2[i + 1], Following(i)) % 32, R!Power(t))
               = IF s3 + t < 8 * Len(s2) THEN R!Bit(s2, 8, s3 + t) ELSE 0
<1> DEFINE i == s3 \div 8
           c == s3 % 8
           x == s2[i + 1]
           y == Following(i)
           q == s3 + t
<1>1. i \in Nat /\ c \in 0..7 /\ i < Len(s2) /\ s3 = 8 * i + c /\ x \in 0..255 /\ y \in 0..255
  BY TakeIs
<1>2. Len(s2) \in Nat
  BY DEF RegroupBits
<1>3. Digit(Joint(c, x, y) % 32, R!Power(t))
        = IF c + t < 8 THEN Digit(x, R!Power(c + t)) ELSE Digit(y, R!Power(c + t - 8))
  <2>1. Value(c, x, y)
    BY <1>1, ValueIs, Zenon
  <2> QED BY <2>1 DEF Value
<1> HIDE DEF i, c, x, y
<1>4. CASE c + t < 8
  <2>1. q \div 8 = i /\ q % 8 = c + t /\ q < 8 * Len(s2)
    BY <1>1, <1>2, <1>4
  <2>2. R!Bit(s2, 8, q) = Digit(x, R!Power(c + t))
    BY <2>1 DEF R!Bit, Digit, x
  <2> QED BY <1>3, <1>4, <2>1, <2>2 DEF x, y, i, c
<1>5. CASE ~ (c + t < 8)
  <2>1. q \div 8 = i + 1 /\ q % 8 = c + t - 8 /\ c + t - 8 \in Nat
    BY <1>1, <1>5
  <2>2. q < 8 * Len(s2) <=> i + 1 < Len(s2)
    BY <1>1, <1>2, <1>5
  <2>3. CASE i + 1 < Len(s2)
    <3>1. y = s2[(i + 1) + 1]
      BY <1>1, <2>3 DEF y, Following
    <3>2. R!Bit(s2, 8, q) = Digit(y, R!Power(c + t - 8))
      BY <2>1, <3>1 DEF R!Bit, Digit
    <3> QED BY <1>3, <1>5, <2>2, <2>3, <3>2 DEF x, y, i, c
  <2>4. CASE ~ (i + 1 < Len(s2))
    <3>1. y = 0
      BY <2>4 DEF y, Following
    <3>2. Digit(y, R!Power(c + t - 8)) = 0
      BY <2>1, <3>1, NoDigit
    <3> QED BY <1>3, <1>5, <2>2, <2>4, <3>2 DEF x, y, i, c
  <2> QED BY <2>3, <2>4
<1> QED BY <1>4, <1>5

(* The regrouping keeps the bits. *)
LEMMA BitsTaken ==
  RegroupInv /\ RegroupBits /\ (R!Next \/ UNCHANGED <<s1, s2, s3, s4, s5, s6, s7>>) => RegroupBits'
<1> SUFFICES ASSUME RegroupInv, RegroupBits, R!Next \/ UNCHANGED <<s1, s2, s3, s4, s5, s6, s7>>
             PROVE  RegroupBits'
  OBVIOUS
<1>1. CASE R!Take
  <2> DEFINE i == s3 \div 8
             c == s3 % 8
             x == s2[i + 1]
             y == Following(i)
             n == Joint(c, x, y)
             e == n % 32
             m == Len(s7)
  <2>1. /\ i \in Nat /\ c \in 0..7 /\ i < Len(s2) /\ s3 = 8 * i + c
        /\ x \in 0..255 /\ y \in 0..255
        /\ s7' = Append(s7, e) /\ s5' = n \div 32
        /\ UNCHANGED <<s1, s2>> /\ s3' = s3 + 5
    BY <1>1, TakeIs
  <2>2. n \in Nat /\ n \div 32 = IF c >= 3 THEN y \div R!Power(c - 3) ELSE x \div R!Power(c + 5)
    <3>1. Left(c, x, y)
      BY <2>1, LeftIs, Zenon
    <3> QED BY <3>1 DEF Left
  <2>3. \A t \in 0..4 : Digit(e, R!Power(t)) = IF s3 + t < 8 * Len(s2) THEN R!Bit(s2, 8, s3 + t) ELSE 0
    BY <1>1, TakeBits
  <2>4. m \in Nat /\ s3 = 5 * m /\ s7 \in Seq(0..31) /\ s2 \in Seq(0..255) /\ Len(s2) \in Nat
    BY DEF RegroupBits
  <2>5. e \in 0..31
    <3> HIDE DEF n
    <3> QED BY <2>2
  <2> HIDE DEF i, c, x, y, n, e, m
  <2>6. s7' \in Seq(0..31) /\ Len(s7') = m + 1 /\ s3' = 5 * Len(s7')
    BY <2>1, <2>4, <2>5 DEF m
  <2>7. s3' \div 8 < Len(s2') => s5' = s2'[(s3' \div 8) + 1] \div R!Power(s3' % 8)
    <3>1. CASE c >= 3
      <4>1. s3' \div 8 = i + 1 /\ s3' % 8 = c - 3
        BY <2>1, <3>1
      <4>2. i + 1 < Len(s2) => y = s2[(i + 1) + 1]
        BY <2>1 DEF y, Following
      <4> QED BY <2>1, <2>2, <3>1, <4>1, <4>2
    <3>2. CASE ~ (c >= 3)
      <4>1. s3' \div 8 = i /\ s3' % 8 = c + 5
        BY <2>1, <3>2
      <4> QED BY <2>1, <2>2, <3>2, <4>1 DEF x
    <3> QED BY <3>1, <3>2
  <2>8. (s3' - 5) \div 8 < Len(s2')
    <3>1. s3' - 5 = s3
      BY <2>1
    <3> QED BY <2>1, <3>1 DEF i
  <2>9. ASSUME NEW q \in 0..(s3' - 1)
        PROVE  R!Bit(s7', 5, q) = IF q < 8 * Len(s2') THEN R!Bit(s2', 8, q) ELSE 0
    <3>1. CASE q < s3
      <4>1. q \in 0..(s3 - 1) /\ q \div 5 + 1 \in 1..m
        BY <2>1, <2>4, <3>1
      <4>2. s7'[q \div 5 + 1] = s7[q \div 5 + 1]
        BY <2>1, <2>4, <4>1 DEF m
      <4>3. R!Bit(s7', 5, q) = R!Bit(s7, 5, q)
        BY <4>2 DEF R!Bit
      <4>4. R!Bit(s7, 5, q) = IF q < 8 * Len(s2) THEN R!Bit(s2, 8, q) ELSE 0
        BY <4>1 DEF RegroupBits
      <4> QED BY <2>1, <4>3, <4>4
    <3>2. CASE ~ (q < s3)
      <4> DEFINE t == q - s3
      <4>1. t \in 0..4 /\ q = s3 + t /\ q \div 5 = m /\ q % 5 = t
        BY <2>1, <2>4, <3>2
      <4>2. s7'[m + 1] = e
        BY <2>1, <2>4 DEF m
      <4>3. R!Bit(s7', 5, q) = Digit(e, R!Power(t))
        BY <4>1, <4>2 DEF R!Bit, Digit
      <4> HIDE DEF t
      <4> QED BY <2>1, <2>3, <4>1, <4>3
    <3> QED BY <3>1, <3>2
  <2>10. s1' # "done"
    BY <1>1 DEF R!Take
  <2>11. s2' \in Seq(0..255)
    BY <2>1, <2>4
  <2> QED BY <2>6, <2>7, <2>8, <2>9, <2>10, <2>11 DEF RegroupBits
<1>2. CASE R!Stop
  <2>1. UNCHANGED <<s2, s3, s5, s7>> /\ ~ (s3 \div 8 < Len(s2))
    <3>1. UNCHANGED <<s2, s3, s5, s7>> /\ s3 \div 8 >= Len(s2)
      BY <1>2 DEF R!Stop
    <3>2. s3 \in Nat /\ Len(s2) \in Nat
      BY DEF RegroupInv
    <3> QED BY <3>1, <3>2
  <2>2. \A q : R!Bit(s7', 5, q) = R!Bit(s7, 5, q) /\ R!Bit(s2', 8, q) = R!Bit(s2, 8, q)
    BY <2>1 DEF R!Bit
  <2> QED BY <2>1, <2>2 DEF RegroupBits
<1>3. CASE UNCHANGED <<s1, s2, s3, s4, s5, s6, s7>>
  <2>1. UNCHANGED <<s1, s2, s3, s5, s7>>
    BY <1>3
  <2>2. \A q : R!Bit(s7', 5, q) = R!Bit(s7, 5, q) /\ R!Bit(s2', 8, q) = R!Bit(s2, 8, q)
    BY <2>1 DEF R!Bit
  <2> QED BY <2>1, <2>2 DEF RegroupBits
<1> QED BY <1>1, <1>2, <1>3 DEF R!Next

(* bytes_to_bech32 returns the bits of any bytes, in their order and in as  *)
(* many values of 5 bits as they need, with zeros behind the last bit.      *)
THEOREM BitsStayInOrder == Spec => []BitsKept
<1>1. Init => (part = "bech32" => RegroupInv /\ RegroupBits)
  <2> SUFFICES ASSUME Init, part = "bech32" PROVE RegroupInv /\ RegroupBits
    OBVIOUS
  <2>1. R!Init
    BY DEF Init
  <2>2. /\ s2 \in Seq(0..255) /\ s3 = 0 /\ s4 = 5 /\ s6 = 0 /\ s7 = <<>> /\ s1 = "loop"
        /\ s5 = IF s2 = <<>> THEN 0 ELSE s2[1]
    BY <2>1, PartsAssumption DEF R!Init, R!RegroupAssumption
  <2>3. RegroupInv
    BY <2>2 DEF RegroupInv
  <2>4. 0 < Len(s2) => s5 = s2[0 + 1] \div R!Power(0)
    <3> SUFFICES ASSUME 0 < Len(s2) PROVE s5 = s2[0 + 1] \div R!Power(0)
      OBVIOUS
    <3>1. s5 = s2[1]
      BY <2>2
    <3>2. s2 \in [1..Len(s2) -> 0..255] /\ Len(s2) \in Nat
      BY <2>2, SeqIs
    <3>3. s2[1] \in 0..255
      <4>1. 1 \in 1..Len(s2)
        BY <3>2
      <4> QED BY <3>2, <4>1, Zenon
    <3>4. \A z \in 0..255 : z \div 1 = z
      OBVIOUS
    <3>5. 0 + 1 = 1 /\ R!Power(0) = 1 /\ s2[1] \div 1 = s2[1]
      <4>1. R!Power(0) = 1
        BY PowersAre
      <4>2. s2[1] \div 1 = s2[1]
        BY <3>3, <3>4, Zenon
      <4> QED BY <4>1, <4>2
    <3> QED BY <3>1, <3>5, Zenon
  <2>5. RegroupBits
    <3>1. s3 \div 8 = 0 /\ s3 % 8 = 0
      BY <2>2
    <3> QED BY <2>2, <2>4, <3>1 DEF RegroupBits
  <2> QED BY <2>3, <2>5
<1>2. (part = "bech32" => RegroupInv /\ RegroupBits) /\ [Next]_vars
        => (part = "bech32" => RegroupInv /\ RegroupBits)'
  <2>1. [Next]_vars => UNCHANGED part
    BY DEF Next, vars
  <2>2. part = "bech32" /\ [Next]_vars => R!Next \/ UNCHANGED <<s1, s2, s3, s4, s5, s6, s7>>
    BY DEF Next, vars
  <2> QED BY <2>1, <2>2, RegroupStep, BitsTaken
<1>3. (part = "bech32" => RegroupInv /\ RegroupBits) => BitsKept
  <2> SUFFICES ASSUME RegroupInv, RegroupBits, s1 = "done"
               PROVE  /\ Len(s7) = (8 * Len(s2) + 4) \div 5
                      /\ \A q \in 0..(5 * Len(s7) - 1) :
                           R!Bit(s7, 5, q) = IF q < 8 * Len(s2) THEN R!Bit(s2, 8, q) ELSE 0
                      /\ \A i \in DOMAIN s7 : s7[i] \in 0..31
    BY DEF BitsKept, R!BitsKept
  <2>1. /\ s3 = 5 * Len(s7) /\ Len(s7) \in Nat /\ Len(s2) \in Nat /\ ~ (s3 \div 8 < Len(s2))
        /\ s3 = 0 \/ (s3 - 5) \div 8 < Len(s2)
    BY DEF RegroupBits
  <2>2. Len(s7) = (8 * Len(s2) + 4) \div 5
    <3> DEFINE m == Len(s7)
               k == Len(s2)
    <3>1. s3 = 5 * m /\ m \in Nat /\ k \in Nat /\ 8 * k <= s3 /\ (s3 = 0 \/ s3 - 5 < 8 * k)
      BY <2>1
    <3> HIDE DEF m, k
    <3>2. m = (8 * k + 4) \div 5
      BY <3>1
    <3> QED BY <3>2 DEF m, k
  <2>3. \A i \in DOMAIN s7 : s7[i] \in 0..31
    <3>1. s7 \in [1..Len(s7) -> 0..31]
      BY SeqIs DEF RegroupBits
    <3> QED BY <3>1
  <2> QED BY <2>1, <2>2, <2>3 DEF RegroupBits
<1> QED BY <1>1, <1>2, <1>3, PTL DEF Spec
===============================================================================
