--------------------------- MODULE MCTransactions ---------------------------
(* Two accounts, a few credits and signatures, an int of three bits         *)
(* (-4..3) and wire amounts within it and beyond it.                        *)
EXTENDS Transactions

MCWireAmount == {-1, 2, 7, -6}
=============================================================================
