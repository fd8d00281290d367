---------------------------- MODULE Transactions ----------------------------
(***************************************************************************)
(* Transactions on the wire and in memory: create_transaction and          *)
(* process_transaction of src/process.cc, and the constructor and bytes()  *)
(* of pttp::Transaction in bin/p2p.cc.  A transaction is a list of credits *)
(* and a list of signatures, one for each negative credit in order; a      *)
(* signature is made with an account's key over the bytes of the           *)
(* serialised credits.  The same credits have several serialisations: the  *)
(* one that create_transaction and bytes() write, and those of other       *)
(* writers.  Amounts are Int64 on the wire and int in both readers.        *)
(***************************************************************************)
EXTENDS Integers, Sequences, FiniteSets

CONSTANTS
  Account,     \* accounts, each with its key pair
  WireAmount,  \* amounts that occur in a message
  IntHalf,     \* half as many numbers as an int has (2^31 in the code)
  MaxCredits,  \* bound: credits of a transaction
  MaxRewrites, \* bound: times it is written again
  None         \* the empty Bytes

TransactionsAssumption ==
  /\ None \notin Account
  /\ WireAmount \subseteq Int
  /\ IntHalf \in Nat \ {0}
  /\ MaxCredits \in Nat
  /\ MaxRewrites \in Nat

VARIABLES
  tx,         \* the message: its credits, how they are written, signatures
  made,       \* whether create_transaction made it
  first,      \* history: the first message
  op,         \* which reader: process_transaction or the constructor
  i,          \* the reader's index of the credit ...
  n_neg,      \* ... and count of negative credits
  credits,    \* accounts and amounts read so far
  witnesses,  \* signatures kept by the constructor
  result,     \* "running", "true", "false" (also for a throw) or "crash"
  rewrites    \* history: times the message was written again by bytes()

vars == <<tx, made, first, op, i, n_neg, credits, witnesses, result, rewrites>>

(* Conversion of an Int64 to int. *)
ToInt(a) == ((a + IntHalf) % (2 * IntHalf)) - IntHalf

Ints == {a \in WireAmount : ToInt(a) = a}

Credit(acc, amt) == [account |-> acc, amount |-> amt]

Lists(S, n) == UNION {[1..k -> S] : k \in 0..n}

CreditLists(A) == Lists({Credit(acc, amt) : acc \in Account, amt \in A}, MaxCredits)

(* How the credits are serialised: as WriteMessage does, or otherwise. *)
Form == {"canonical", "foreign"}

(* The bytes of creditSet. *)
Data(cs, form) == <<cs, form>>
DataOf(t) == Data(t.credits, t.form)

(* Signature(credit_data, priv), and a witness without data. *)
Signature(acc, data) == [by |-> acc, over |-> data]
NoSignature == Signature(None, <<>>)

(* Mutant: the key is not compared. *)
VerifiesAnyKey(s, data, acc) == s.by # None /\ s.over = data

(* Signature::verify; the bytes are compared, not the credits. *)
Verifies(s, data, acc) == s.by = acc /\ s.over = data

Negatives(cs) == {k \in DOMAIN cs : cs[k].amount < 0}

(* Mutant: every credit is signed. *)
CreateSignsAll(cs) ==
  [credits |-> cs, form |-> "canonical",
   signatures |-> [k \in DOMAIN cs |-> Signature(cs[k].account, Data(cs, "canonical"))]]

(* create_transaction: the c-th signature is by the c-th negative account.  *)
Create(cs) ==
  [credits |-> cs, form |-> "canonical",
   signatures |-> [c \in 1..Cardinality(Negatives(cs)) |->
     LET k == CHOOSE k \in Negatives(cs) : Cardinality({j \in Negatives(cs) : j <= k}) = c
     IN  Signature(cs[k].account, Data(cs, "canonical"))]]

(* A message from elsewhere: any credits, serialised in either way, with    *)
(* signatures over these bytes or over others, as many as there may be.     *)
FromWire(cs) ==
  {[credits |-> cs, form |-> form, signatures |-> sigs] :
     form \in Form,
     sigs \in Lists({Signature(acc, Data(cs, other)) : acc \in Account, other \in Form}
                      \cup {NoSignature}, MaxCredits)}

(* A message is created, or comes from elsewhere, and a reader starts. *)
Init ==
  /\ made \in BOOLEAN
  /\ \/ made /\ tx \in {Create(cs) : cs \in CreditLists(Ints)}
     \/ ~made /\ \E cs \in CreditLists(WireAmount) : tx \in FromWire(cs)
  /\ first = tx
  /\ op \in {"process", "construct"}
  /\ i = 1
  /\ n_neg = 0
  /\ credits = <<>>
  /\ witnesses = [k \in DOMAIN tx.credits |-> NoSignature]
  /\ result = "running"
  /\ rewrites = 0

Read == Credit(tx.credits[i].account, ToInt(tx.credits[i].amount))

(* A credit that is not negative. *)
ReadCredit ==
  /\ result = "running"
  /\ i <= Len(tx.credits)
  /\ ~ (Read.amount < 0)
  /\ credits' = Append(credits, Read)
  /\ i' = i + 1
  /\ UNCHANGED <<tx, made, first, op, n_neg, witnesses, result, rewrites>>

(* A negative credit and its signature: one is left and verifies, ... *)
ReadSigned ==
  /\ result = "running"
  /\ i <= Len(tx.credits)
  /\ Read.amount < 0
  /\ n_neg < Len(tx.signatures)
  /\ Verifies(tx.signatures[n_neg + 1], DataOf(tx), Read.account)
  /\ credits' = Append(credits, Read)
  /\ witnesses' = [witnesses EXCEPT ![n_neg + 1] = tx.signatures[n_neg + 1]]
  /\ n_neg' = n_neg + 1
  /\ i' = i + 1
  /\ UNCHANGED <<tx, made, first, op, result, rewrites>>

(* ... or none is left or it does not verify: process_transaction returns   *)
(* false and the constructor throws.  (The constructor compares n_neg with   *)
(* the size of its own, resized, vector; the reader's bounds check throws.) *)
Refuse ==
  /\ result = "running"
  /\ i <= Len(tx.credits)
  /\ Read.amount < 0
  /\ n_neg < Len(tx.signatures) => ~Verifies(tx.signatures[n_neg + 1], DataOf(tx), Read.account)
  /\ result' = "false"
  /\ UNCHANGED <<tx, made, first, op, i, n_neg, credits, witnesses, rewrites>>

(* A witness without data is read at a null pointer, or, if that is         *)
(* survived, does not verify.                                               *)
Crash ==
  /\ result = "running"
  /\ i <= Len(tx.credits)
  /\ Read.amount < 0
  /\ n_neg < Len(tx.signatures)
  /\ tx.signatures[n_neg + 1] = NoSignature
  /\ result' = "crash"
  /\ UNCHANGED <<tx, made, first, op, i, n_neg, credits, witnesses, rewrites>>

Accept ==
  /\ result = "running"
  /\ i > Len(tx.credits)
  /\ result' = "true"
  /\ UNCHANGED <<tx, made, first, op, i, n_neg, credits, witnesses, rewrites>>

(* Mutant: one witness too few. *)
WriteDropsOne ==
  [credits |-> credits, form |-> "canonical",
   signatures |-> [k \in 1..(Len(witnesses) - 1) |-> witnesses[k]]]

(* bytes(): the credits serialised anew, and as many signatures as credits, *)
(* the last ones without data.                                              *)
Written == [credits |-> credits, form |-> "canonical", signatures |-> witnesses]

(* The transaction that was read is written again and read back. *)
Rewrite ==
  /\ op = "construct"
  /\ result = "true"
  /\ rewrites < MaxRewrites
  /\ tx' = Written
  /\ rewrites' = rewrites + 1
  /\ i' = 1
  /\ n_neg' = 0
  /\ credits' = <<>>
  /\ witnesses' = [k \in DOMAIN credits |-> NoSignature]
  /\ result' = "running"
  /\ UNCHANGED <<made, first, op>>

Next == ReadCredit \/ ReadSigned \/ Refuse \/ Crash \/ Accept \/ Rewrite

Spec == Init /\ [][Next]_vars
-----------------------------------------------------------------------------
(* What create_transaction makes is accepted by both readers, which find    *)
(* the accounts and amounts it was made from, and so it is after bytes().   *)
CreatedAccepted ==
  made => result \in {"running", "true"} /\ (result = "true" => credits = first.credits)

(* An accepted transaction has, for every credit that reads negative, a     *)
(* signature by that account over the bytes of these credits                *)
(* (process_transaction and the constructor, which count signatures and     *)
(* credits separately).                                                     *)
AcceptedSigned ==
  result = "true" =>
    \A k \in Negatives(credits) :
      \E j \in DOMAIN tx.signatures : tx.signatures[j] = Signature(credits[k].account, DataOf(tx))

(* The credits the constructor finds in the first message, and whether      *)
(* bytes() serialises them into the bytes that came.                        *)
FirstRead == [k \in DOMAIN first.credits |->
               Credit(first.credits[k].account, ToInt(first.credits[k].amount))]
SameBytes == Data(FirstRead, "canonical") = DataOf(first)

(* A transaction that was accepted is accepted again after bytes() exactly  *)
(* if nothing in it has to be signed or its credits are serialised into the *)
(* bytes that were signed; one in another encoding, or with an amount that  *)
(* does not fit an int, comes back unsigned.  Signatures it had in excess   *)
(* do not matter, and writing it once more gives the same message, so that  *)
(* its key in BlockChain::txs is well defined.                              *)
RewriteStable ==
  rewrites > 0 =>
    /\ result = "true" => Written = tx
    /\ result \in {"false", "crash"} => Negatives(FirstRead) # {} /\ ~SameBytes
    /\ result = "true" => Negatives(FirstRead) = {} \/ SameBytes

(* cap/messages.capnp: "amount @1 :Int64;".  The amount that is read is the *)
(* amount in the message.                                                   *)
AmountKept == \A k \in DOMAIN credits : credits[k].amount = tx.credits[k].amount
=============================================================================
