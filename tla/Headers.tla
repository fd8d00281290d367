------------------------------ MODULE Headers ------------------------------
(***************************************************************************)
(* pttp::BlockHeader of bin/p2p.cc: a header is written by one process and *)
(* read by another, which writes it again to pass it on or to calculate    *)
(* its hash, a HardHash of the written message that is taken to be free of *)
(* collisions.  On the wire it is a Block of cap/messages.capnp.           *)
(***************************************************************************)
CONSTANTS
  Data,  \* values of the fields
  None   \* the empty Bytes of a new header

VARIABLES
  origin,  \* the header as it was made
  header,  \* the object a process reads it into
  wire,    \* the message on its way
  pc

vars == <<origin, header, wire, pc>>

Header == [prev_hash : Data, tx_hash : Data, utxo_hash : Data, nonce : Data, T : Data]

NewHeader == [hash |-> None, prev_hash |-> None, tx_hash |-> None, utxo_hash |-> None,
              nonce |-> None, T |-> None]

(* bytes(): a Block. *)
bytes(h) ==
  [prevHash |-> h.prev_hash, transactionHash |-> h.tx_hash, utxoHash |-> h.utxo_hash,
   nonce |-> h.nonce, time |-> h.T]

Init ==
  /\ origin \in Header
  /\ header = NewHeader
  /\ wire = bytes(origin)
  /\ pc = "sent"

(* from_bytes assigns the prevHash of the message to hash. *)
from_bytes ==
  /\ pc = "sent"
  /\ header' = [NewHeader EXCEPT !.hash = wire.prevHash, !.tx_hash = wire.transactionHash,
                                 !.utxo_hash = wire.utxoHash, !.nonce = wire.nonce, !.T = wire.time]
  /\ pc' = "read"
  /\ UNCHANGED <<origin, wire>>

(* bytes(), to pass the header on. *)
PassOn ==
  /\ pc = "read"
  /\ wire' = bytes(header)
  /\ pc' = "sent"
  /\ UNCHANGED <<origin, header>>

Next == from_bytes \/ PassOn

Spec == Init /\ [][Next]_vars
-----------------------------------------------------------------------------
(* calculate_hash() of a header that was read is the hash of the header     *)
(* that was made, so that whoever reads it finds the same predecessor and   *)
(* the same proof of work (from_bytes, bytes, calculate_hash).              *)
HashKept == pc = "read" => bytes(header) = bytes(origin)
=============================================================================
