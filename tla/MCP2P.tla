------------------------------- MODULE MCP2P -------------------------------
(* Small networks of bin/p2p.cc processes.                                  *)
EXTENDS P2P

CONSTANTS a, b, ghost, bad, hi, go

(* a was started with b's address, b with nobody's. *)
OneKnows == [n \in Node |-> IF n = a THEN {b} ELSE {}]

(* a was started with b's address and with one where nobody answers. *)
OneKnowsTwo == [n \in Node |-> IF n = a THEN {b, ghost} ELSE {}]

(* Each was started with the other's address. *)
BothKnow == [n \in Node |-> Node \ {n}]

(* Who types: nobody, a alone, or both. *)
Silence == [n \in Node |-> {}]
OneSays == [n \in Node |-> IF n = a THEN Text ELSE {}]
BothSay == [n \in Node |-> Text]

(* Which of the manager's tasks may be queued, one at a time, with a peer.  *)
NoRequests == [ty \in {REQ_IPS, REQ_HASHSET_FILTER} |-> 0]
IpRequests == [NoRequests EXCEPT ![REQ_IPS] = 1]
FilterRequests == [NoRequests EXCEPT ![REQ_HASHSET_FILTER] = 1]
AllRequests == [ty \in {REQ_IPS, REQ_HASHSET_FILTER} |-> 1]
=============================================================================
