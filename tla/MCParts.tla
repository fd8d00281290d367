------------------------------ MODULE MCParts ------------------------------
EXTENDS Parts, Integers, Sequences

(* All block graphs over five hashes: chains, forks, lost predecessors. *)
MCBlockHash == 1..5

(* Amounts within an int of three bits (-4..3), one beyond it that reads    *)
(* negative and a negative one that reads as 2.                             *)
MCWireAmount == {-1, 2, 7, -6}

(* Three transactions of up to two credits, over two accounts. *)
MCTxHash == 1..3
MCAmount == {-1, 1}

(* All pairs of sets of up to six elements: odd levels at every height. *)
MCHashElement == 1..6

(* The first two are hashes themselves, of others: {1, 2} and {2, 3, 4} have *)
(* the same root.                                                            *)
MCRaw ==
  LET atom(e) == <<e>>
      second == <<atom(4), atom(4)>>
  IN  [e \in 1..6 |-> CASE e = 1 -> <<second, atom(3)>>
                        [] e = 2 -> second
                        [] OTHER -> atom(e)]

(* Filters shorter than a byte, just over one and just over two bytes. *)
MCSizes == {3, 7, 9, 15, 17}

(* One thread binds a socket, the other connects four. *)
MCMaxSockets == [t \in Thread |-> IF t = "serve" THEN 1 ELSE 4]

(* Up to two datagrams of up to two routes: default or not, with an         *)
(* interface or not, in the main table or not; what they and DONE add up to *)
(* stays below the buffer's ten units, just fits or does not.               *)
RouteMsg(main, default, oif, len) ==
  [type |-> "route", main |-> main, default |-> default, oif |-> oif, len |-> len]
MCMessages ==
  {RouteMsg(TRUE, TRUE, "eth", 3), RouteMsg(TRUE, TRUE, "wlan", 2), RouteMsg(TRUE, TRUE, None, 2),
   RouteMsg(TRUE, FALSE, "wlan", 3), RouteMsg(FALSE, TRUE, "eth", 2)}
UpTo(len, V) == UNION {[1..k -> V] : k \in 0..len}
MCDumps == UpTo(2, UpTo(2, MCMessages) \ {<<>>})
IfAddr(name, inet, is192168, host) ==
  [name |-> name, inet |-> inet, is192168 |-> is192168, host |-> host]
MCAddresses ==
  UpTo(2, {IfAddr("eth", TRUE, FALSE, 1), IfAddr("wlan", TRUE, FALSE, 2),
           IfAddr("eth", TRUE, TRUE, 3), IfAddr("eth", FALSE, FALSE, 4)})

(* The program's own sizes.  Phrases full and short, with words whose bits  *)
(* are all on, all off and alternating, and one that is not in the list.    *)

MCWord == {0, 1, 682, 1365, 1024, 2047}

MCPhrases ==
  {[i \in 1..l |-> IF i % 2 = 0 THEN v ELSE w] : l \in {1, 3, 23, 24}, v, w \in MCWord}
    \cup {<<2048>>, <<5, 2048, 7>>}

MCPads ==
  {[i \in 0..32 |-> {}], [i \in 0..32 |-> IF i % 3 = 0 THEN {0, 5, 7} ELSE {i % 8}]}

(* Messages of up to two bytes, and of up to three digits.                  *)

MCText == UNION {[1..len -> {{5}, {0, 4}, {1, 3, 7}}] : len \in 0..2}

MCHexText == UNION {[1..len -> {{}, {0}, {1, 3}}] : len \in 0..3}

(* A pad for each password and salt; for single bytes it is zero, as it is  *)
(* when the library refuses the size.                                       *)
MCPadOf(p, s, n) ==
  [i \in 1..n |-> IF n = 1 THEN {} ELSE {p, s + 4, i}]

(* Up to six bytes: every alignment of a value with a byte occurs.          *)

MCStrings == UNION {[1..len -> {0, 1, 170, 255}] : len \in 0..6}
=============================================================================
