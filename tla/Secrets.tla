------------------------------ MODULE Secrets ------------------------------
(***************************************************************************)
(* The password tools: enc and dec, hexenc and hexdec, fullenc and         *)
(* fulldec.  One of the first kind prints a note, a hexadecimal text and a *)
(* salt; one of the second kind is given these two and a password.         *)
(*                                                                         *)
(* A byte is the set of its bits that are on, a hexadecimal digit a set of *)
(* four bits.  What libsodium computes is external: PadOf stands for       *)
(* Hash(HardestHash(pass, Hash(salt, 16)), size), and a sealed message     *)
(* opens with the key pair of the same password and salt.                  *)
(***************************************************************************)
EXTENDS Integers, Sequences

CONSTANTS
  Pass, Salt,
  Text,            \* messages for enc and fullenc: sequences of bytes
  HexText,         \* messages for hexenc: sequences of digits
  PadOf(_, _, _),  \* password, salt and size to a pad
  None

Byte == SUBSET (0..7)
Digit == SUBSET (0..3)

SecretsAssumption ==
  /\ Text \subseteq Seq(Byte)
  /\ HexText \subseteq Seq(Digit)
  /\ \A t \in Text : \A p \in Pass, s \in Salt : PadOf(p, s, Len(t)) \in [1..Len(t) -> Byte]
  /\ \A d \in HexText : \A p \in Pass, s \in Salt :
       PadOf(p, s, Len(d) \div 2) \in [1..(Len(d) \div 2) -> Byte]

VARIABLES
  note,   \* what was printed: text and salt, the key of a sealed message
  given,  \* history: the tool, its message and its password
  shown   \* what a decoding tool printed, and the password and salt it used

vars == <<note, given, shown>>

Init ==
  /\ note = None
  /\ given = None
  /\ shown = None

x_or(b, c) == [i \in DOMAIN b |-> (b[i] \ c[i]) \cup (c[i] \ b[i])]

(* operator<<: two digits for each byte, the high one first. *)
ToHex(b) ==
  [i \in 1..(2 * Len(b)) |->
    LET byte == b[(i + 1) \div 2]
    IN  IF i % 2 = 1 THEN {x - 4 : x \in byte \cap (4..7)} ELSE byte \cap (0..3)]

(* Mutant: the size is rounded up, and the last digit of an odd number has  *)
(* a byte of its own.                                                       *)
FromHexRoundsUp(h) ==
  [i \in 1..((Len(h) + 1) \div 2) |->
    {x + 4 : x \in h[2 * i - 1]} \cup (IF 2 * i <= Len(h) THEN h[2 * i] ELSE {})]

(* Bytes::from_hex: the last digit of an odd number has no room. *)
from_hex(h) ==
  [i \in 1..(Len(h) \div 2) |-> {x + 4 : x \in h[2 * i - 1]} \cup h[2 * i]]

Prints(tool, m, p, key, text, s) ==
  /\ note = None
  /\ note' = [key |-> key, text |-> text, salt |-> s]
  /\ given' = [tool |-> tool, msg |-> m, pass |-> p]
  /\ UNCHANGED shown

Enc(m, p, s) == Prints("enc", m, p, <<>>, ToHex(x_or(m, PadOf(p, s, Len(m)))), s)

HexEnc(d, p, s) ==
  LET m == from_hex(d)
  IN  Prints("hexenc", d, p, <<>>, ToHex(x_or(m, PadOf(p, s, Len(m)))), s)

(* The sealed message, of which only the key and the message matter. *)
FullEnc(m, p, s) == Prints("fullenc", m, p, <<p, s>>, m, s)

Shows(out, p, s) ==
  /\ shown' = [out |-> out, pass |-> p, salt |-> s]
  /\ UNCHANGED <<note, given>>

Plain(p, s) ==
  LET m == from_hex(note.text)
  IN  x_or(m, PadOf(p, s, Len(m)))

(* dec and hexdec read each other's notes; here each reads its own.  The    *)
(* first prints characters, the second digits.                              *)
Dec(p, s) ==
  /\ note # None
  /\ given.tool = "enc"
  /\ Shows(Plain(p, s), p, s)

HexDec(p, s) ==
  /\ note # None
  /\ given.tool = "hexenc"
  /\ Shows(ToHex(Plain(p, s)), p, s)

(* decrypt resizes the message and leaves it zero if the seal does not      *)
(* open; fulldec prints it without looking at the result.                   *)
FullDec(p, s) ==
  /\ note # None
  /\ given.tool = "fullenc"
  /\ Shows(IF note.key = <<p, s>> THEN note.text ELSE [i \in DOMAIN note.text |-> {}], p, s)

Next ==
  \E p \in Pass, s \in Salt :
    \/ \E m \in Text : Enc(m, p, s) \/ FullEnc(m, p, s)
    \/ \E d \in HexText : HexEnc(d, p, s)
    \/ Dec(p, s) \/ HexDec(p, s) \/ FullDec(p, s)

Spec == Init /\ [][Next]_vars
-----------------------------------------------------------------------------
(* With the password and the salt of the note a decoding tool prints the    *)
(* message, of which hexenc lost an odd last digit; with others it prints   *)
(* something of the same length (enc to fulldec, from_hex).                 *)
Recovered ==
  shown # None =>
    LET n == IF given.tool = "hexenc" THEN 2 * (Len(given.msg) \div 2) ELSE Len(given.msg)
    IN  /\ Len(shown.out) = n
        /\ shown.pass = given.pass /\ shown.salt = note.salt =>
             shown.out = SubSeq(given.msg, 1, n)
=============================================================================
