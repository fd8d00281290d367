------------------------------- MODULE Ledger -------------------------------
(***************************************************************************)
(* pttp::BlockChain of bin/p2p.cc as a pool of transactions: add and       *)
(* get_latest, which picks from the mempool the transactions that can be   *)
(* carried out one after the other.  The mempool is a set of hashes and is *)
(* gone through in their order; a hash is a number here, tx its            *)
(* transaction.  Nothing in the program writes balance, so it is empty.    *)
(***************************************************************************)
EXTENDS Integers, Sequences, FiniteSets

CONSTANTS
  Hash,       \* hashes of transactions, in the order of Bytes
  Account,    \* account keys
  Amount,     \* amounts, of an int's range
  MaxCredits  \* bound: credits of a transaction

LedgerAssumption ==
  /\ Hash \subseteq Nat
  /\ Amount \subseteq Int
  /\ MaxCredits \in Nat

VARIABLES
  tx,           \* the credits of the transaction with each hash
  txs,          \* hashes of the transactions known
  mempool,      \* those waiting
  balance_cpy,  \* get_latest: what each account would have
  todo,         \* get_latest: the part of the mempool it has not come to
  latest_set,   \* get_latest: the transactions picked
  latest_hash,  \* hash_vec of the last latest_set: the list it identifies
  pc            \* "idle", "latest", or "abort" after a failed assertion

vars == <<tx, txs, mempool, balance_cpy, todo, latest_set, latest_hash, pc>>

CreditList ==
  UNION {[1..k -> [pub : Account, amount : Amount]] : k \in 0..MaxCredits}

Init ==
  /\ tx \in [Hash -> CreditList]
  /\ txs = {}
  /\ mempool = {}
  /\ balance_cpy = <<>>
  /\ todo = {}
  /\ latest_set = <<>>
  /\ latest_hash = <<>>
  /\ pc = "idle"

(* add(Transaction): a transaction whose hash is known is not added again. *)
add(h) ==
  /\ pc = "idle"
  /\ txs' = txs \cup {h}
  /\ mempool' = IF h \in txs THEN mempool ELSE mempool \cup {h}
  /\ UNCHANGED <<tx, balance_cpy, todo, latest_set, latest_hash, pc>>

(* get_latest(): the balances are copied and latest_set is cleared. *)
get_latest ==
  /\ pc = "idle"
  /\ balance_cpy' = <<>>
  /\ latest_set' = <<>>
  /\ todo' = mempool
  /\ pc' = "latest"
  /\ UNCHANGED <<tx, txs, mempool, latest_hash>>

(* Mutants: an account may occur twice; ... *)
ValidTwice(c) ==
  \A k \in DOMAIN c : c[k].amount < 0 =>
    c[k].pub \in DOMAIN balance_cpy /\ balance_cpy[c[k].pub] >= -c[k].amount

(* ... a transaction that leaves nothing is refused. *)
ValidStrict(c) ==
  /\ \A j, k \in DOMAIN c : c[j].pub = c[k].pub => j = k
  /\ \A k \in DOMAIN c : c[k].amount < 0 =>
       c[k].pub \in DOMAIN balance_cpy /\ balance_cpy[c[k].pub] > -c[k].amount

(* Every account occurs once, and those that pay have what they pay. *)
Valid(c) ==
  /\ \A j, k \in DOMAIN c : c[j].pub = c[k].pub => j = k
  /\ \A k \in DOMAIN c : c[k].amount < 0 =>
       c[k].pub \in DOMAIN balance_cpy /\ balance_cpy[c[k].pub] >= -c[k].amount

Pubs(c) == {c[k].pub : k \in DOMAIN c}

(* The balances after a valid transaction. *)
Carried(c) ==
  [p \in DOMAIN balance_cpy \cup Pubs(c) |->
    (IF p \in DOMAIN balance_cpy THEN balance_cpy[p] ELSE 0)
      + (IF p \in Pubs(c) THEN c[CHOOSE k \in DOMAIN c : c[k].pub = p].amount ELSE 0)]

(* One round of the loop over the mempool: picked, ... *)
Pick(h) ==
  /\ pc = "latest"
  /\ h \in todo
  /\ \A g \in todo : h <= g
  /\ Valid(tx[h])
  /\ latest_set' = Append(latest_set, h)
  /\ balance_cpy' = Carried(tx[h])
  /\ todo' = todo \ {h}
  /\ UNCHANGED <<tx, txs, mempool, latest_hash, pc>>

(* ... or passed over. *)
PassOver(h) ==
  /\ pc = "latest"
  /\ h \in todo
  /\ \A g \in todo : h <= g
  /\ ~Valid(tx[h])
  /\ todo' = todo \ {h}
  /\ UNCHANGED <<tx, txs, mempool, balance_cpy, latest_set, latest_hash, pc>>

(* hash_vec of the picked hashes; it asserts that there are some. *)
Return ==
  /\ pc = "latest"
  /\ todo = {}
  /\ IF latest_set = <<>>
       THEN pc' = "abort" /\ UNCHANGED latest_hash
       ELSE pc' = "idle" /\ latest_hash' = latest_set
  /\ balance_cpy' = <<>>
  /\ UNCHANGED <<tx, txs, mempool, todo, latest_set>>

Next ==
  \/ \E h \in Hash : add(h) \/ Pick(h) \/ PassOver(h)
  \/ get_latest
  \/ Return

Spec == Init /\ [][Next]_vars
-----------------------------------------------------------------------------
(* What account p has gained from the first n transactions picked. *)
Gained(p, n) ==
  LET amount(h) == IF p \in Pubs(tx[h]) THEN tx[h][CHOOSE k \in DOMAIN tx[h] : tx[h][k].pub = p].amount ELSE 0
      sum[k \in 0..n] == IF k = 0 THEN 0 ELSE sum[k - 1] + amount(latest_set[k])
  IN  sum[n]

(* Carried out in the order picked, from the empty balance the program has, *)
(* latest_set never overdraws an account, and no transaction in it names an *)
(* account twice (get_latest).                                              *)
LatestSound ==
  \A n \in 1..Len(latest_set) :
    /\ \A p \in Account : Gained(p, n) >= 0
    /\ Cardinality(Pubs(tx[latest_set[n]])) = Len(tx[latest_set[n]])

(* A transaction that was passed over could not have been carried out when  *)
(* its turn came, with what the transactions picked before it had left:     *)
(* the pick is greedy in the order of the hashes (get_latest).              *)
LatestGreedy ==
  pc = "latest" =>
    \A h \in mempool \ todo :
      LET before == Cardinality({k \in DOMAIN latest_set : latest_set[k] < h})
          c == tx[h]
      IN  (\A j, k \in DOMAIN c : c[j].pub = c[k].pub => j = k)
            /\ (\A k \in DOMAIN c : Gained(c[k].pub, before) + c[k].amount >= 0)
          => \E k \in DOMAIN latest_set : latest_set[k] = h
=============================================================================
