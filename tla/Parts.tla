------------------------------- MODULE Parts -------------------------------
(***************************************************************************)
(* The parts of the program that run by themselves: the ledger's data      *)
(* structures, which the peer-to-peer node does not yet call, what a node  *)
(* does before its threads talk to each other, and the command-line tools. *)
(* part says which of them a behaviour is of, and the state variables are  *)
(* that part's.                                                            *)
(***************************************************************************)
CONSTANTS
  BlockHash, zero_block,                           \* mark_blocks
  Account, WireAmount, IntHalf, MaxTxCredits, MaxRewrites, \* transactions
  TxHash, Amount, MaxPoolCredits,                  \* the pool
  HashElement, Raw,                                \* hash_vec
  BloomElement, Sizes,                             \* the bloom filter
  SetElement, MaxFilters,                          \* SetReconsiler
  Thread, MaxSockets,                              \* Context and Socket
  BUFSIZE, HDR, Messages, Dumps, Addresses,        \* estimate_outside_ip
  WordBits, MaxWords, Phrases, Pads,               \* wordenc, worddec
  Pass, Salt, Text, HexText, PadOf(_, _, _),       \* enc, dec and the like
  Strings,                                         \* bytes_to_bech32
  None

VARIABLES part, s1, s2, s3, s4, s5, s6, s7, s8, s9, s10

vars == <<part, s1, s2, s3, s4, s5, s6, s7, s8, s9, s10>>

M == INSTANCE MarkBlocks WITH
       Hash <- BlockHash,
       blocks <- s1, heights <- s2, todo <- s3, list <- s4, pc <- s5

T == INSTANCE Transactions WITH
       MaxCredits <- MaxTxCredits,
       tx <- s1, made <- s2, first <- s3, op <- s4, i <- s5, n_neg <- s6,
       credits <- s7, witnesses <- s8, result <- s9, rewrites <- s10

L == INSTANCE Ledger WITH
       Hash <- TxHash, MaxCredits <- MaxPoolCredits,
       tx <- s1, txs <- s2, mempool <- s3, balance_cpy <- s4, todo <- s5,
       latest_set <- s6, latest_hash <- s7, pc <- s8

H == INSTANCE HashVec WITH
       Element <- HashElement, raw <- Raw,
       hash_set <- s1, hashes <- s2, pc <- s3, inner <- s4

B == INSTANCE Bloom WITH
       Element <- BloomElement,
       P <- s1, slot <- s2, hits <- s3, n_on <- s4, added <- s5, sent <- s6, copy <- s7

C == INSTANCE Reconcile WITH
       Element <- SetElement, raw <- Raw,
       target <- s1, filters <- s2, given <- s3, current_set <- s4, result <- s5

K == INSTANCE Sockets WITH
       s <- s1, ctx <- s2, pc <- s3, mine <- s4, sockets <- s5

O == INSTANCE Routes WITH
       dump <- s1, socket <- s2, msgBuf <- s3, msgLen <- s4, interface <- s5,
       ifaddr <- s6, ip <- s7, all <- s8, pc <- s9

W == INSTANCE Words WITH
       pc <- s1, phrase <- s2, pad <- s3, k <- s4, bits <- s5, msg <- s6, out <- s7

S == INSTANCE Secrets WITH note <- s1, given <- s2, shown <- s3

R == INSTANCE Regroup WITH
       pc <- s1, b <- s2, l <- s3, r <- s4, n <- s5, last <- s6, enc5 <- s7

ASSUME PartsAssumption ==
  /\ M!MarkAssumption /\ T!TransactionsAssumption /\ L!LedgerAssumption
  /\ H!HashVecAssumption /\ B!BloomAssumption /\ C!ReconcileAssumption
  /\ K!SocketsAssumption /\ O!RoutesAssumption
  /\ W!WordsAssumption /\ S!SecretsAssumption /\ R!RegroupAssumption

(* The variables a part of fewer does not use. *)
From10 == s10 = None
From9 == s9 = None /\ From10
From8 == s8 = None /\ From9
From6 == s6 = None /\ s7 = None /\ From8
From5 == s5 = None /\ From6
From4 == s4 = None /\ From5

Init ==
  \/ part = "mark_blocks" /\ M!Init /\ From6
  \/ part = "transaction" /\ T!Init
  \/ part = "pool" /\ L!Init /\ From9
  \/ part = "hash_vec" /\ H!Init /\ From5
  \/ part = "bloom" /\ B!Init /\ From8
  \/ part = "reconcile" /\ C!Init /\ From6
  \/ part = "sockets" /\ K!Init /\ From6
  \/ part = "routes" /\ O!Init /\ From10
  \/ part = "words" /\ W!Init /\ From8
  \/ part = "secrets" /\ S!Init /\ From4
  \/ part = "bech32" /\ R!Init /\ From8

Next ==
  /\ UNCHANGED part
  /\ \/ part = "mark_blocks" /\ M!Next /\ UNCHANGED <<s6, s7, s8, s9, s10>>
     \/ part = "transaction" /\ T!Next
     \/ part = "pool" /\ L!Next /\ UNCHANGED <<s9, s10>>
     \/ part = "hash_vec" /\ H!Next /\ UNCHANGED <<s5, s6, s7, s8, s9, s10>>
     \/ part = "bloom" /\ B!Next /\ UNCHANGED <<s8, s9, s10>>
     \/ part = "reconcile" /\ C!Next /\ UNCHANGED <<s6, s7, s8, s9, s10>>
     \/ part = "sockets" /\ K!Next /\ UNCHANGED <<s6, s7, s8, s9, s10>>
     \/ part = "routes" /\ O!Next /\ UNCHANGED s10
     \/ part = "words" /\ W!Next /\ UNCHANGED <<s8, s9, s10>>
     \/ part = "secrets" /\ S!Next /\ UNCHANGED <<s4, s5, s6, s7, s8, s9, s10>>
     \/ part = "bech32" /\ R!Next /\ UNCHANGED <<s8, s9, s10>>

Spec == Init /\ [][Next]_vars

(* mark_blocks is a loop of one thread that waits for nothing. *)
FairSpec == Spec /\ WF_vars(part = "mark_blocks" /\ Next)
-----------------------------------------------------------------------------
(* The variables of mark_blocks keep their types; a walk passes known       *)
(* blocks only (MarkBlocks).                                                *)
TypeOK == part = "mark_blocks" => M!TypeOK

(* The heights that mark_blocks has set fit together at every moment        *)
(* (MarkBlocks).                                                            *)
HeightsFit == part = "mark_blocks" => M!HeightsFit

(* mark_blocks gives every block a height when no predecessor is missing    *)
(* (MarkBlocks).                                                            *)
RootedMarked == part = "mark_blocks" => M!RootedMarked

(* mark_blocks returns, from both of its nested loops (MarkBlocks). *)
Terminates == <>(part = "mark_blocks" => M!Done)

(* What create_transaction makes is accepted by both readers as it was made *)
(* (Transactions).                                                          *)
CreatedAccepted == part = "transaction" => T!CreatedAccepted

(* An accepted transaction has, for every credit that reads negative, that  *)
(* account's signature over these credits (Transactions).                   *)
AcceptedSigned == part = "transaction" => T!AcceptedSigned

(* A transaction whose amounts fit an int is accepted again after bytes(),  *)
(* and from then on bytes() gives the same message (Transactions).          *)
RewriteStable == part = "transaction" => T!RewriteStable

(* What get_latest picks never overdraws an account (Ledger). *)
LatestSound == part = "pool" => L!LatestSound

(* get_latest passes over only what could not be carried out at its turn    *)
(* (Ledger).                                                                *)
LatestGreedy == part = "pool" => L!LatestGreedy

(* hash_vec tells two sets apart unless the one consists of hashes it makes *)
(* of the other (HashVec).                                                  *)
HashTells == part = "hash_vec" => H!HashTells

(* A filter that came over the wire answers as the one that was sent        *)
(* (Bloom).                                                                 *)
CopyAgrees == part = "bloom" => B!CopyAgrees

(* check() of a SetReconsiler is true if filter() was given the set its    *)
(* hash stands for and nothing else that passes, and otherwise only of a    *)
(* set that hash_vec does not tell from it (Reconcile).                     *)
CheckTells == part = "reconcile" => C!CheckTells

(* The unsynchronised creation of the ZeroMQ context leaves every socket    *)
(* with a context that is ready (Sockets).                                  *)
ContextSettles == part = "sockets" => K!ContextSettles

(* What readNlSock accepts is the kernel's whole answer (Routes). *)
DumpWhole == part = "routes" => O!DumpWhole

(* The interface looked up is the last default route's, and the address     *)
(* estimate_outside_ip returns is one of it without "192.168." (Routes).    *)
OutsideAddress == part = "routes" => O!OutsideAddress

(* worddec prints the phrase that wordenc was given (Words). *)
PhraseKept == part = "words" => W!PhraseKept

(* Each decoding tool prints the message its counterpart was given, for the *)
(* same password and salt (Secrets).                                        *)
Recovered == part = "secrets" => S!Recovered

(* bytes_to_bech32 loads the bytes in order, each once, and its unsigned    *)
(* shift does not wrap (Regroup).                                           *)
LoadsInOrder == part = "bech32" => R!LoadsInOrder

(* bytes_to_bech32 keeps every bit in order (Regroup). *)
BitsKept == part = "bech32" => R!BitsKept
=============================================================================
