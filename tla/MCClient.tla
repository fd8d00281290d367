------------------------------ MODULE MCClient ------------------------------
(* A client of process b, to which process a may be connected.              *)
EXTENDS Client

CONSTANTS a, b, bad

(* a was started with b's address, b with nobody's. *)
OneKnows == [n \in Node |-> IF n = a THEN {b} ELSE {}]

Silence == [n \in Node |-> {}]

IpRequests == [ty \in {REQ_IPS, REQ_HASHSET_FILTER} |-> IF ty = REQ_IPS THEN 1 ELSE 0]
=============================================================================
