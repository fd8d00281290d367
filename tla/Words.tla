------------------------------- MODULE Words -------------------------------
(***************************************************************************)
(* bin/wordenc.cc and bin/worddec.cc with the conversions between          *)
(* bitset<N> and Bytes of inc/type.h: a phrase of words is packed into     *)
(* bytes and encrypted, and decrypted and unpacked again.                  *)
(*                                                                         *)
(* A word is its position in the word list, Words if it is not listed.  A  *)
(* byte is the set of its bits that are on, so ^= is the symmetric         *)
(* difference.  Both programs compute the same pad from the password and   *)
(* the salt (Secrets); which bytes it has does not matter.                 *)
(***************************************************************************)
EXTENDS Powers, Integers, Sequences

CONSTANTS
  WordBits,  \* bits of a word (11 in the code)
  MaxWords,  \* words of a phrase (24 in the code)
  Phrases,   \* phrases on the command line of wordenc
  Pads       \* values of Hash(h, size)

N == WordBits * MaxWords

Words == Power(WordBits)

Byte == SUBSET (0..7)

(* The size of Bytes(bits). *)
Size == (N + 1) \div 8

(* wordenc takes any number of words; one past MaxWords is written behind  *)
(* the bitset, so longer phrases are left out.  For other N the last bits  *)
(* have no byte.                                                           *)
WordsAssumption ==
  /\ WordBits \in Nat \ {0}
  /\ MaxWords \in Nat \ {0}
  /\ N % 8 \in {0, 7}
  /\ \A p \in Phrases : p \in Seq(0..Words) /\ Len(p) \in 1..MaxWords
  /\ Pads \subseteq [0..(Size - 1) -> Byte]

VARIABLES
  pc,
  phrase,  \* enc_words
  pad,     \* hh
  k,       \* words done
  bits,    \* the indices that are on
  msg,     \* msg_b
  out      \* words that worddec prints

vars == <<pc, phrase, pad, k, bits, msg, out>>

Init ==
  /\ pc = "words"
  /\ phrase \in Phrases
  /\ pad \in Pads
  /\ k = 0
  /\ bits = {}
  /\ msg = [i \in 0..(Size - 1) |-> {}]
  /\ out = <<>>

x_or(b, c) == [i \in DOMAIN b |-> (b[i] \ c[i]) \cup (c[i] \ b[i])]

(* wordenc: a word that is not in the list ends the program with -1. *)
EncUnknown ==
  /\ pc = "words"
  /\ k < Len(phrase)
  /\ phrase[k + 1] = Words
  /\ pc' = "refused"
  /\ UNCHANGED <<phrase, pad, k, bits, msg, out>>

(* A word is halved for each of its bits, the lowest first. *)
Digits(word) ==
  LET n[j \in 0..WordBits] == IF j = 0 THEN word ELSE n[j - 1] \div 2
  IN  {j \in 0..(WordBits - 1) : n[j] % 2 = 1}

EncWord ==
  /\ pc = "words"
  /\ k < Len(phrase)
  /\ phrase[k + 1] < Words
  /\ bits' = bits \cup {k * WordBits + j : j \in Digits(phrase[k + 1])}
  /\ k' = k + 1
  /\ UNCHANGED <<pc, phrase, pad, msg, out>>

(* Mutant: in a byte the first bit is the lowest. *)
ToBytesReversed(b) ==
  [i \in 0..(Size - 1) |-> {p \in 0..7 : (i * 8 + p) \in b}]

(* How many bits share the byte of bit i. *)
Base(i) == IF i \div 8 = N \div 8 THEN N % 8 ELSE 8

(* Bytes(bitset): bits enter at the right. *)
ToBytes(b) ==
  [i \in 0..(Size - 1) |->
    {p \in 0..7 : \E j \in b : j \div 8 = i /\ p = Base(j) - 1 - (j % 8)}]

(* Bytes::bitset. *)
FromBytes(b) == {i \in 0..(N - 1) : Base(i) - 1 - (i % 8) \in b[i \div 8]}

(* After the last word the bits are packed, encrypted and printed. *)
EncPrint ==
  /\ pc = "words"
  /\ k = Len(phrase)
  /\ msg' = x_or(ToBytes(bits), pad)
  /\ pc' = "printed"
  /\ UNCHANGED <<phrase, pad, k, bits, out>>

(* worddec decrypts and unpacks them ... *)
DecBits ==
  /\ pc = "printed"
  /\ msg' = x_or(msg, pad)
  /\ bits' = FromBytes(x_or(msg, pad))
  /\ k' = 0
  /\ pc' = "unpacked"
  /\ UNCHANGED <<phrase, pad, out>>

(* The word of the bits that are on. *)
WordOf(digits) ==
  LET m[n \in 0..WordBits] ==
        IF n = 0 THEN 0 ELSE m[n - 1] + (IF n - 1 \in digits THEN Power(n - 1) ELSE 0)
  IN  m[WordBits]

(* ... and always prints MaxWords words. *)
DecWord ==
  /\ pc = "unpacked"
  /\ k < MaxWords
  /\ out' = Append(out, WordOf({j \in 0..(WordBits - 1) : k * WordBits + j \in bits}))
  /\ k' = k + 1
  /\ UNCHANGED <<pc, phrase, pad, bits, msg>>

Next == EncUnknown \/ EncWord \/ EncPrint \/ DecBits \/ DecWord

Spec == Init /\ [][Next]_vars
-----------------------------------------------------------------------------
(* worddec prints the words wordenc was given, in order, then the first     *)
(* word of the list for each word the phrase is short of MaxWords, although *)
(* a word's bits cross byte boundaries                                      *)
(* (wordenc, Bytes(bitset), Bytes::bitset, worddec).                        *)
PhraseKept ==
  pc = "unpacked" =>
    \A i \in DOMAIN out : out[i] = IF i <= Len(phrase) THEN phrase[i] ELSE 0
=============================================================================
