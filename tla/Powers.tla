------------------------------- MODULE Powers -------------------------------
(***************************************************************************)
(* What 1 << k is in worddec and in bytes_to_bech32.                       *)
(***************************************************************************)
EXTENDS Integers

Power(k) ==
  LET p[i \in 0..k] == IF i = 0 THEN 1 ELSE 2 * p[i - 1]
  IN  p[k]
=============================================================================
