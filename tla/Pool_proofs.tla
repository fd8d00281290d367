----------------------------- MODULE Pool_proofs -----------------------------
(***************************************************************************)
(* get_latest (Ledger), for every number of accounts, credits and          *)
(* transactions: what it picks overdraws no account, and it passes over    *)
(* only what cannot be carried out at its turn.  As a part, the pool's tx, *)
(* txs, mempool, balance_cpy, todo, latest_set, latest_hash and pc are s1  *)
(* to s8.                                                                  *)
(***************************************************************************)
EXTENDS Parts, Integers, FiniteSetTheorems, SequenceTheorems, TLAPS

(* A set of numbers that is not empty has a least element: the intervals up *)
(* to its elements are finite sets, which strict inclusion orders well.    *)
LEMMA Least ==
  ASSUME NEW N, N \subseteq Nat, N # {}
  PROVE  \E x \in N : \A y \in N : x <= y
<1> DEFINE U == {0..n : n \in N}
<1>1. \A n \in Nat : IsFiniteSet(0..n) /\ 0..n \subseteq Nat
  BY FS_Interval
<1>2. U \subseteq FiniteSubsetsOf(Nat)
  BY <1>1 DEF FiniteSubsetsOf
<1>3. PICK n \in N : TRUE
  OBVIOUS
<1>4. 0..n \in U
  BY <1>3
<1>5. IsWellFoundedOn(StrictSubsetOrdering(Nat), FiniteSubsetsOf(Nat))
  BY FS_StrictSubsetOrderingWellFounded
<1>6. \E u \in U : \A v \in U : <<v, u>> \notin StrictSubsetOrdering(Nat)
  <2> HIDE DEF U
  <2> QED BY <1>2, <1>4, <1>5, WFMin
<1>7. PICK x \in N : \A v \in U : <<v, 0..x>> \notin StrictSubsetOrdering(Nat)
  BY <1>6
<1>8. ASSUME NEW y \in N, y < x PROVE FALSE
  <2>1. 0..y \subseteq 0..x /\ x \in 0..x /\ x \notin 0..y /\ 0..y \in U /\ 0..y \in SUBSET Nat /\ 0..x \in SUBSET Nat
    BY <1>8
  <2> QED BY <1>7, <2>1 DEF StrictSubsetOrdering
<1> QED BY <1>8

(* Induction, for a set of numbers. *)
LEMMA Induction ==
  ASSUME NEW N, 0 \in N, \A n \in Nat : n \in N => n + 1 \in N
  PROVE  \A n \in Nat : n \in N
<1> SUFFICES ASSUME Nat \ N # {} PROVE FALSE
  OBVIOUS
<1>1. PICK n \in Nat \ N : \A m \in Nat \ N : n <= m
  BY Least
<1>2. n - 1 \in Nat /\ n - 1 \in N
  BY <1>1
<1>3. (n - 1) + 1 \in N
  BY <1>2
<1> QED BY <1>1, <1>3

(* The sums of a sequence of numbers, as Gained has them. *)
SumOf(g, n, f) == f = [k \in 0..n |-> IF k = 0 THEN 0 ELSE f[k - 1] + g[k]]

(* There is one function of sums for every length. *)
LEMMA SumExists == ASSUME NEW g PROVE \A n \in Nat : \E f : SumOf(g, n, f)
<1> DEFINE N == {n \in Nat : \E f : SumOf(g, n, f)}
<1>1. 0 \in N
  <2>1. SumOf(g, 0, [k \in 0..0 |-> 0])
    BY DEF SumOf
  <2> QED BY <2>1
<1>2. ASSUME NEW n \in Nat, n \in N PROVE n + 1 \in N
  <2>1. PICK f : SumOf(g, n, f)
    BY <1>2
  <2> DEFINE h == [k \in 0..(n + 1) |-> IF k = n + 1 THEN f[n] + g[n + 1] ELSE f[k]]
  <2>2. ASSUME NEW k \in 0..(n + 1)
        PROVE  h[k] = IF k = 0 THEN 0 ELSE h[k - 1] + g[k]
    BY <2>1 DEF SumOf
  <2>3. SumOf(g, n + 1, h)
    <3>1. h = [k \in 0..(n + 1) |-> h[k]]
      OBVIOUS
    <3> HIDE DEF h
    <3> QED BY <2>2, <3>1 DEF SumOf
  <2> QED BY <2>3
<1> HIDE DEF N
<1>3. \A n \in Nat : n \in N
  BY <1>1, <1>2, Induction
<1> QED BY <1>3 DEF N

(* Shorter sums are the same. *)
LEMMA SumAgrees ==
  ASSUME NEW g, NEW h, NEW m \in Nat, NEW n \in Nat, NEW e, NEW f, SumOf(g, m, e), SumOf(h, n, f), m <= n,
         \A k \in 1..m : g[k] = h[k]
  PROVE  \A k \in 0..m : e[k] = f[k]
<1> DEFINE N == {k \in Nat : k <= m => e[k] = f[k]}
<1>1. 0 \in N
  BY DEF SumOf
<1>2. ASSUME NEW k \in Nat, k \in N PROVE k + 1 \in N
  BY <1>2 DEF SumOf
<1> HIDE DEF N
<1>3. \A k \in Nat : k \in N
  BY <1>1, <1>2, Induction
<1> QED BY <1>3 DEF N

(* What account p gains from transaction c. *)
Change(p, c) == IF p \in L!Pubs(c) THEN c[CHOOSE k \in DOMAIN c : c[k].pub = p].amount ELSE 0

(* Gained, of a list of hashes and their transactions. *)
Gains(t, list, p, n) ==
  LET amount(h) == Change(p, t[h])
      sum[k \in 0..n] == IF k = 0 THEN 0 ELSE sum[k - 1] + amount(list[k])
  IN  sum[n]

(* Gained of the transactions and the picks, before and after a step. *)
LEMMA GainedIs == \A p, n : L!Gained(p, n) = Gains(s1, s6, p, n) /\ L!Gained(p, n)' = Gains(s1', s6', p, n)
  BY DEF L!Gained, Gains, Change, L!Pubs

(* A gain is a sum of changes, and there is a function of its partial sums. *)
LEMMA GainsSum ==
  ASSUME NEW t, NEW list, NEW p, NEW n \in Nat
  PROVE  \E f : SumOf([k \in Nat |-> Change(p, t[list[k]])], n, f) /\ Gains(t, list, p, n) = f[n]
<1> DEFINE g == [k \in Nat |-> Change(p, t[list[k]])]
           f == CHOOSE f : f = [k \in 0..n |-> IF k = 0 THEN 0 ELSE f[k - 1] + Change(p, t[list[k]])]
<1>1. \E e : e = [k \in 0..n |-> IF k = 0 THEN 0 ELSE e[k - 1] + Change(p, t[list[k]])]
  <2>1. PICK e : SumOf(g, n, e)
    BY SumExists
  <2>2. \A k \in 0..n : e[k] = IF k = 0 THEN 0 ELSE e[k - 1] + Change(p, t[list[k]])
    BY <2>1 DEF SumOf
  <2>3. e = [k \in 0..n |-> e[k]]
    BY <2>1 DEF SumOf
  <2> QED BY <2>2, <2>3
<1>2. f = [k \in 0..n |-> IF k = 0 THEN 0 ELSE f[k - 1] + Change(p, t[list[k]])]
  BY <1>1
<1>3. Gains(t, list, p, n) = f[n]
  BY DEF Gains
<1> HIDE DEF f
<1>4. SumOf(g, n, f)
  BY <1>2 DEF SumOf
<1> QED BY <1>3, <1>4

(* The gain of a list goes up by that of one transaction at a time.        *)
LEMMA GainsSteps ==
  ASSUME NEW t, NEW list, NEW p
  PROVE  /\ Gains(t, list, p, 0) = 0
         /\ \A n \in Nat : Gains(t, list, p, n + 1) = Gains(t, list, p, n) + Change(p, t[list[n + 1]])
<1> DEFINE g == [k \in Nat |-> Change(p, t[list[k]])]
<1>1. Gains(t, list, p, 0) = 0
  BY GainsSum DEF SumOf
<1>2. ASSUME NEW n \in Nat
      PROVE  Gains(t, list, p, n + 1) = Gains(t, list, p, n) + Change(p, t[list[n + 1]])
  <2>1. PICK e : SumOf(g, n, e) /\ Gains(t, list, p, n) = e[n]
    BY GainsSum
  <2>2. PICK f : SumOf(g, n + 1, f) /\ Gains(t, list, p, n + 1) = f[n + 1]
    BY GainsSum
  <2>3. g[n + 1] = Change(p, t[list[n + 1]])
    OBVIOUS
  <2> HIDE DEF g
  <2>4. e[n] = f[n]
    BY <2>1, <2>2, SumAgrees
  <2>5. f[n + 1] = f[n] + g[n + 1]
    BY <2>2 DEF SumOf
  <2> QED BY <2>1, <2>2, <2>3, <2>4, <2>5
<1> QED BY <1>1, <1>2

(* The gain of a list's beginning is that of any list that begins so.      *)
LEMMA GainsAgree ==
  ASSUME NEW t, NEW list, NEW more, NEW p, NEW n \in Nat
  PROVE  (\A k \in 1..n : list[k] = more[k]) => Gains(t, list, p, n) = Gains(t, more, p, n)
<1>1. /\ Gains(t, list, p, 0) = 0
      /\ \A m \in Nat : Gains(t, list, p, m + 1) = Gains(t, list, p, m) + Change(p, t[list[m + 1]])
  BY GainsSteps
<1>2. /\ Gains(t, more, p, 0) = 0
      /\ \A m \in Nat : Gains(t, more, p, m + 1) = Gains(t, more, p, m) + Change(p, t[more[m + 1]])
  BY GainsSteps
<1> HAVE \A k \in 1..n : list[k] = more[k]
<1> DEFINE N == {m \in Nat : m <= n => Gains(t, list, p, m) = Gains(t, more, p, m)}
<1>3. 0 \in N
  BY <1>1, <1>2
<1>4. ASSUME NEW m \in Nat, m \in N PROVE m + 1 \in N
  <2>1. m + 1 <= n => m <= n /\ list[m + 1] = more[m + 1]
    OBVIOUS
  <2> QED BY <1>1, <1>2, <1>4, <2>1
<1> HIDE DEF N
<1>5. \A m \in Nat : m \in N
  BY <1>3, <1>4, Induction
<1> QED BY <1>5 DEF N

(* The credits of a transaction in the pool. *)
LEMMA CreditsType ==
  ASSUME NEW c \in L!CreditList
  PROVE  /\ Len(c) \in Nat /\ DOMAIN c = 1..Len(c)
         /\ \A k \in DOMAIN c : c[k].pub \in Account /\ c[k].amount \in Int
         /\ \A p : Change(p, c) \in Int
<1>1. PICK n \in 0..MaxPoolCredits : c \in [1..n -> [pub : Account, amount : Amount]]
  BY DEF L!CreditList
<1>2. Amount \subseteq Int /\ n \in Nat
  BY PartsAssumption DEF L!LedgerAssumption
<1>3. /\ Len(c) \in Nat /\ DOMAIN c = 1..Len(c)
      /\ \A k \in DOMAIN c : c[k].pub \in Account /\ c[k].amount \in Int
  <2> DEFINE Rec == [pub : Account, amount : Amount]
  <2>1. c \in UNION {[1..m -> Rec] : m \in Nat}
    BY <1>1, <1>2
  <2>2. Seq(Rec) = UNION {[1..m -> Rec] : m \in Nat}
    BY SeqDef
  <2>3. c \in Seq(Rec)
    <3> HIDE DEF Rec
    <3> QED BY <2>1, <2>2, Zenon
  <2>4. Len(c) \in Nat /\ DOMAIN c = 1..Len(c) /\ c \in [1..Len(c) -> Rec]
    BY <2>3, LenProperties
  <2> QED BY <1>2, <2>4
<1>4. ASSUME NEW p, p \in L!Pubs(c) PROVE \E k \in DOMAIN c : c[k].pub = p
  BY <1>4 DEF L!Pubs
<1> QED BY <1>3, <1>4 DEF Change

(* Parts has its own name for the size of a set in a pool. *)
LEMMA PoolCardinality == \A X : L!Cardinality(X) = Cardinality(X)
  BY DEF L!Cardinality, Cardinality

(* No account occurs twice in c. *)
Apart(c) == \A j, k \in DOMAIN c : c[j].pub = c[k].pub => j = k

(* What a credit of a transaction without a repetition changes. *)
LEMMA ChangeIs ==
  ASSUME NEW c, Apart(c), NEW k \in DOMAIN c
  PROVE  Change(c[k].pub, c) = c[k].amount
<1>1. (CHOOSE j \in DOMAIN c : c[j].pub = c[k].pub) = k
  BY DEF Apart
<1>2. c[k].pub \in L!Pubs(c)
  BY DEF L!Pubs
<1> QED BY <1>1, <1>2 DEF Change

(* Without a repetition there are as many accounts as credits. *)
LEMMA PubsSize ==
  ASSUME NEW c \in L!CreditList, Apart(c)
  PROVE  Cardinality(L!Pubs(c)) = Len(c)
<1> DEFINE f == [k \in 1..Len(c) |-> c[k].pub]
<1>1. DOMAIN c = 1..Len(c) /\ Len(c) \in Nat
  BY CreditsType
<1>2. f \in Bijection(1..Len(c), L!Pubs(c))
  <2>1. f \in [1..Len(c) -> L!Pubs(c)]
    BY <1>1 DEF L!Pubs
  <2>2. \A j, k \in 1..Len(c) : f[j] = f[k] => j = k
    BY <1>1 DEF Apart
  <2>3. \A p \in L!Pubs(c) : \E k \in 1..Len(c) : f[k] = p
    BY <1>1 DEF L!Pubs
  <2> HIDE DEF f
  <2>4. f \in Injection(1..Len(c), L!Pubs(c))
    BY <2>1, <2>2 DEF Injection, IsInjective
  <2>5. f \in Surjection(1..Len(c), L!Pubs(c))
    BY <2>1, <2>3 DEF Surjection
  <2> QED BY <2>4, <2>5 DEF Bijection
<1>3. IsFiniteSet(1..Len(c)) /\ Cardinality(1..Len(c)) = Len(c)
  <2>1. Cardinality(1..Len(c)) = IF 1 > Len(c) THEN 0 ELSE Len(c) - 1 + 1
    BY <1>1, FS_Interval
  <2> QED BY <1>1, <2>1, FS_Interval
<1> HIDE DEF f
<1> QED BY <1>2, <1>3, FS_Bijection DEF ExistsBijection

(* The pool's hashes and transactions. *)
PoolShape ==
  /\ s1 \in [TxHash -> L!CreditList]
  /\ s3 \subseteq TxHash
  /\ s6 \in Seq(TxHash)
  /\ s8 = "latest" => s5 \subseteq s3

(* While get_latest runs, its balances are what was gained from the picked. *)
BalancesKept ==
  s8 = "latest" =>
    /\ \A p \in DOMAIN s4 : p \in Account /\ s4[p] \in Int
    /\ \A p \in Account :
         Gains(s1, s6, p, Len(s6)) = IF p \in DOMAIN s4 THEN s4[p] ELSE 0

(* The mempool is gone through in the order of the hashes. *)
InOrder ==
  s8 = "latest" =>
    /\ \A g \in s3 \ s5, h \in s5 : g < h
    /\ \A j, k \in DOMAIN s6 : j < k => s6[j] < s6[k]
    /\ \A k \in DOMAIN s6, h \in s5 : s6[k] < h

(* c could be carried out after the first n transactions picked. *)
Feasible(c, n) ==
  Apart(c) /\ \A k \in DOMAIN c : Gains(s1, s6, c[k].pub, n) + c[k].amount >= 0

(* What is not picked could not be carried out after those before it. *)
PassedOver ==
  s8 = "latest" =>
    \A h \in s3 \ s5 :
      \/ \E k \in DOMAIN s6 : s6[k] = h
      \/ \E n \in 0..Len(s6) :
           /\ \A k \in 1..n : s6[k] < h
           /\ \A k \in (n + 1)..Len(s6) : h < s6[k]
           /\ ~ Feasible(s1[h], n)

(* The picked are sound, in the terms of Gains. *)
PickedSound ==
  \A n \in 1..Len(s6) :
    /\ \A p \in Account : Gains(s1, s6, p, n) >= 0
    /\ Apart(s1[s6[n]])

PoolInv == PoolShape /\ BalancesKept /\ InOrder /\ PassedOver /\ PickedSound

(* What a step of all parts is for this one.                               *)
LEMMA PoolPart ==
  part = "pool" /\ [Next]_vars =>
    part' = part /\ (L!Next \/ UNCHANGED <<s1, s2, s3, s4, s5, s6, s7, s8>>)
  BY DEF Next, vars

(* Nothing is in the pool at first.                                        *)
LEMMA PoolInit == Init /\ part = "pool" => PoolInv
<1> SUFFICES ASSUME Init, part = "pool" PROVE PoolInv
  OBVIOUS
<1>1. L!Init
  BY DEF Init
<1>2. s1 \in [TxHash -> L!CreditList] /\ s3 = {} /\ s6 = <<>> /\ s8 = "idle"
  BY <1>1 DEF L!Init
<1> QED BY <1>2 DEF PoolInv, PoolShape, BalancesKept, InOrder, PassedOver, PickedSound

(* The gains of numbers are numbers. *)
LEMMA GainsType ==
  ASSUME PoolShape, NEW p, NEW n \in Nat, n <= Len(s6)
  PROVE  Gains(s1, s6, p, n) \in Int
<1> DEFINE N == {m \in Nat : m <= Len(s6) => Gains(s1, s6, p, m) \in Int}
<1>1. 0 \in N
  BY GainsSteps
<1>2. ASSUME NEW m \in Nat, m \in N PROVE m + 1 \in N
  <2>1. Gains(s1, s6, p, m + 1) = Gains(s1, s6, p, m) + Change(p, s1[s6[m + 1]])
    BY GainsSteps
  <2>2. m + 1 <= Len(s6) => s6[m + 1] \in TxHash
    BY DEF PoolShape
  <2>3. m + 1 <= Len(s6) => Change(p, s1[s6[m + 1]]) \in Int
    BY <2>2, CreditsType DEF PoolShape
  <2>4. m + 1 <= Len(s6) => m <= Len(s6)
    BY DEF PoolShape
  <2> QED BY <1>2, <2>1, <2>3, <2>4
<1> HIDE DEF N
<1>3. \A m \in Nat : m \in N
  BY <1>1, <1>2, Induction
<1> QED BY <1>3 DEF N

(* Valid is what Feasible says, after all that were picked so far. *)
LEMMA ValidIs ==
  ASSUME PoolShape, BalancesKept, PickedSound, s8 = "latest", NEW c \in L!CreditList
  PROVE  L!Valid(c) <=> Feasible(c, Len(s6))
<1> DEFINE G(p) == Gains(s1, s6, p, Len(s6))
           has(p) == IF p \in DOMAIN s4 THEN s4[p] ELSE 0
<1>1. Len(s6) \in Nat
  BY DEF PoolShape
<1>2. \A k \in DOMAIN c : c[k].pub \in Account /\ c[k].amount \in Int
  BY CreditsType
<1>3. \A p \in Account : G(p) = has(p) /\ G(p) \in Int /\ G(p) >= 0
  <2> TAKE p \in Account
  <2>1. G(p) = has(p)
    BY DEF BalancesKept
  <2>2. G(p) \in Int
    BY <1>1, GainsType
  <2>3. G(p) >= 0
    <3>1. CASE Len(s6) = 0
      BY <3>1, GainsSteps
    <3>2. CASE Len(s6) # 0
      BY <1>1, <3>2 DEF PickedSound
    <3> QED BY <3>1, <3>2
  <2> QED BY <2>1, <2>2, <2>3
<1> HIDE DEF G
<1>4. ASSUME NEW k \in DOMAIN c
      PROVE  (c[k].amount < 0 => c[k].pub \in DOMAIN s4 /\ s4[c[k].pub] >= -c[k].amount)
               <=> G(c[k].pub) + c[k].amount >= 0
  <2>1. c[k].pub \in Account /\ c[k].amount \in Int
    BY <1>2
  <2>2. G(c[k].pub) = has(c[k].pub) /\ G(c[k].pub) \in Int /\ G(c[k].pub) >= 0
    BY <1>3, <2>1
  <2>3. c[k].pub \in DOMAIN s4 => G(c[k].pub) = s4[c[k].pub]
    BY <2>2
  <2>4. c[k].pub \notin DOMAIN s4 => G(c[k].pub) = 0
    BY <2>2
  <2> HIDE DEF has
  <2> QED BY <2>1, <2>2, <2>3, <2>4
<1> QED BY <1>4 DEF L!Valid, Feasible, Apart, G

(* After a pick the balances are what was gained, and none is overdrawn.   *)
LEMMA CarriedIs ==
  ASSUME PoolShape, BalancesKept, PickedSound, s8 = "latest", NEW h \in TxHash, L!Valid(s1[h])
  PROVE  LET more == Append(s6, h)
             bal  == L!Carried(s1[h])
         IN  /\ \A p \in DOMAIN bal : p \in Account /\ bal[p] \in Int
             /\ \A p \in Account :
                  /\ Gains(s1, more, p, Len(s6) + 1) = IF p \in DOMAIN bal THEN bal[p] ELSE 0
                  /\ Gains(s1, more, p, Len(s6) + 1) >= 0
<1> DEFINE more == Append(s6, h)
           bal == L!Carried(s1[h])
           c == s1[h]
           n == Len(s6)
<1>1. n \in Nat /\ c \in L!CreditList /\ \A k \in 1..n : s6[k] = more[k]
  BY DEF PoolShape
<1>2. more[n + 1] = h
  BY DEF PoolShape
<1>3. /\ \A k \in DOMAIN c : c[k].pub \in Account /\ c[k].amount \in Int
      /\ \A p : Change(p, c) \in Int
  BY <1>1, CreditsType
<1>4. /\ DOMAIN bal = DOMAIN s4 \cup L!Pubs(c)
      /\ \A p \in DOMAIN bal : bal[p] = (IF p \in DOMAIN s4 THEN s4[p] ELSE 0) + Change(p, c)
  BY DEF L!Carried, Change
<1>5. \A p \in L!Pubs(c) : \E k \in DOMAIN c : p = c[k].pub
  BY DEF L!Pubs
<1>6. Feasible(c, n)
  BY <1>1, ValidIs
<1> HIDE DEF bal, c
<1>7. \A p \in DOMAIN bal : p \in Account /\ bal[p] \in Int
  BY <1>3, <1>4, <1>5 DEF BalancesKept
<1>8. ASSUME NEW p \in Account
      PROVE  /\ Gains(s1, more, p, n + 1) = IF p \in DOMAIN bal THEN bal[p] ELSE 0
             /\ Gains(s1, more, p, n + 1) >= 0
  <2>1. Gains(s1, more, p, n + 1) = Gains(s1, more, p, n) + Change(p, s1[more[n + 1]])
    <3> HIDE DEF more, n
    <3>1. \A k \in Nat : Gains(s1, more, p, k + 1) = Gains(s1, more, p, k) + Change(p, s1[more[k + 1]])
      BY GainsSteps
    <3> QED BY <1>1, <3>1
  <2>2. Gains(s1, s6, p, n) = Gains(s1, more, p, n)
    BY <1>1, GainsAgree
  <2>3. Gains(s1, more, p, n + 1) = Gains(s1, s6, p, n) + Change(p, c)
    BY <1>2, <2>1, <2>2 DEF c
  <2>4. Gains(s1, s6, p, n) = IF p \in DOMAIN s4 THEN s4[p] ELSE 0
    BY DEF BalancesKept
  <2>5. p \notin L!Pubs(c) => Change(p, c) = 0
    BY DEF Change
  <2>6. Gains(s1, s6, p, n) \in Int
    BY <1>1, GainsType
  <2>7. Gains(s1, s6, p, n) >= 0
    <3>1. CASE n = 0
      BY <3>1, GainsSteps
    <3>2. CASE n # 0
      BY <1>1, <3>2 DEF PickedSound
    <3> QED BY <3>1, <3>2
  <2>8. Gains(s1, s6, p, n) + Change(p, c) >= 0
    <3>1. CASE p \in L!Pubs(c)
      <4>1. PICK k \in DOMAIN c : p = c[k].pub
        BY <1>5, <3>1
      <4>2. Change(p, c) = c[k].amount
        BY <1>6, <4>1, ChangeIs DEF Feasible
      <4>3. Gains(s1, s6, p, n) + c[k].amount >= 0
        BY <1>6, <4>1 DEF Feasible
      <4> QED BY <4>2, <4>3
    <3>2. CASE p \notin L!Pubs(c)
      BY <2>5, <2>6, <2>7, <3>2
    <3> QED BY <3>1, <3>2
  <2> QED BY <1>4, <2>3, <2>4, <2>5, <2>6, <2>8
<1> QED BY <1>7, <1>8 DEF bal, c

(* A transaction is picked. *)
LEMMA PoolPick ==
  ASSUME PoolInv, NEW h \in TxHash, L!Pick(h)
  PROVE  PoolInv'
<1> DEFINE n == Len(s6)
<1>0. PoolShape /\ BalancesKept /\ InOrder /\ PassedOver /\ PickedSound
  BY DEF PoolInv
<1>1. /\ s8 = "latest" /\ h \in s5 /\ \A g \in s5 : h <= g
      /\ s6' = Append(s6, h) /\ s4' = L!Carried(s1[h]) /\ s5' = s5 \ {h}
      /\ s1' = s1 /\ s3' = s3 /\ s8' = "latest"
  BY DEF L!Pick
<1>2. n \in Nat /\ s6 \in Seq(TxHash) /\ s5 \subseteq s3 /\ s3 \subseteq TxHash /\ TxHash \subseteq Nat
  BY <1>0, <1>1, PartsAssumption DEF PoolShape, L!LedgerAssumption
<1>3. /\ s6' \in Seq(TxHash) /\ Len(s6') = n + 1 /\ s6'[n + 1] = h /\ \A k \in 1..n : s6'[k] = s6[k]
      /\ DOMAIN s6 = 1..n /\ DOMAIN s6' = 1..(n + 1)
  BY <1>1, <1>2
<1>4. PoolShape'
  BY <1>0, <1>1, <1>2, <1>3 DEF PoolShape
<1>5. /\ \A p \in DOMAIN s4' : p \in Account /\ s4'[p] \in Int
      /\ \A p \in Account :
           /\ Gains(s1', s6', p, n + 1) = IF p \in DOMAIN s4' THEN s4'[p] ELSE 0
           /\ Gains(s1', s6', p, n + 1) >= 0
  BY <1>0, <1>1, CarriedIs DEF L!Pick
<1>6. \A p : \A m \in 0..n : Gains(s1, s6, p, m) = Gains(s1', s6', p, m)
  <2> TAKE p
  <2> TAKE m \in 0..n
  <2>1. m \in Nat /\ \A k \in 1..m : s6[k] = s6'[k]
    BY <1>2, <1>3
  <2> QED BY <1>1, <2>1, GainsAgree
<1>7. BalancesKept'
  BY <1>3, <1>5 DEF BalancesKept
<1>8. InOrder'
  <2>1. \A j, k \in 1..n : j < k => s6[j] < s6[k]
    BY <1>0, <1>1, <1>3 DEF InOrder
  <2>2. \A k \in 1..n, g \in s5 : s6[k] < g
    BY <1>0, <1>1, <1>3 DEF InOrder
  <2>3. \A k \in 1..(n + 1), g \in s5' : s6'[k] < g
    BY <1>1, <1>2, <1>3, <2>2
  <2>4. \A j, k \in 1..(n + 1) : j < k => s6'[j] < s6'[k]
    BY <1>1, <1>2, <1>3, <2>1, <2>2
  <2>5. \A g \in s3' \ s5', k \in s5' : g < k
    BY <1>0, <1>1, <1>2 DEF InOrder
  <2> QED BY <1>3, <2>3, <2>4, <2>5 DEF InOrder
<1>9. PickedSound'
  <2> SUFFICES ASSUME NEW m \in 1..(n + 1)
               PROVE  (\A p \in Account : Gains(s1', s6', p, m) >= 0) /\ Apart(s1'[s6'[m]])
    BY <1>3 DEF PickedSound
  <2>1. CASE m = n + 1
    BY <1>1, <1>3, <1>5, <2>1 DEF L!Pick, L!Valid, Apart
  <2>2. CASE m \in 1..n
    <3>1. (\A p \in Account : Gains(s1, s6, p, m) >= 0) /\ Apart(s1[s6[m]])
      BY <1>0, <2>2 DEF PickedSound
    <3> QED BY <1>1, <1>3, <1>6, <2>2, <3>1
  <2> QED BY <1>2, <2>1, <2>2
<1>10. PassedOver'
  <2> SUFFICES ASSUME NEW g \in s3 \ s5', ~ (\E k \in 1..(n + 1) : s6'[k] = g)
               PROVE  \E m \in 0..(n + 1) :
                        /\ \A k \in 1..m : s6'[k] < g
                        /\ \A k \in (m + 1)..(n + 1) : g < s6'[k]
                        /\ ~ Feasible(s1[g], m)'
    BY <1>1, <1>3 DEF PassedOver
  <2>1. g # h /\ g \notin s5 /\ ~ (\E k \in 1..n : s6[k] = g)
    BY <1>1, <1>2, <1>3
  <2>2. PICK m \in 0..n : /\ \A k \in 1..m : s6[k] < g
                          /\ \A k \in (m + 1)..n : g < s6[k]
                          /\ ~ Feasible(s1[g], m)
    BY <1>0, <1>1, <1>3, <2>1 DEF PassedOver
  <2>3. g < h
    BY <1>0, <1>1, <2>1 DEF InOrder
  <2>4. m \in 0..(n + 1) /\ \A k \in 1..m : s6'[k] < g
    BY <1>2, <1>3, <2>2
  <2>5. \A k \in (m + 1)..(n + 1) : g < s6'[k]
    BY <1>2, <1>3, <2>2, <2>3
  <2>6. ~ Feasible(s1[g], m)'
    BY <1>1, <1>6, <2>2 DEF Feasible
  <2> QED BY <2>4, <2>5, <2>6
<1> QED BY <1>4, <1>7, <1>8, <1>9, <1>10 DEF PoolInv

(* A transaction that could not be carried out is passed over. *)
LEMMA PoolPass ==
  ASSUME PoolInv, NEW h \in TxHash, L!PassOver(h)
  PROVE  PoolInv'
<1>0. PoolShape /\ BalancesKept /\ InOrder /\ PassedOver /\ PickedSound
  BY DEF PoolInv
<1>1. /\ s8 = "latest" /\ h \in s5 /\ \A g \in s5 : h <= g
      /\ ~L!Valid(s1[h]) /\ s5' = s5 \ {h}
      /\ s1' = s1 /\ s3' = s3 /\ s4' = s4 /\ s6' = s6 /\ s8' = s8
  BY DEF L!PassOver
<1>2. s6 \in Seq(TxHash) /\ s5 \subseteq s3 /\ s3 \subseteq TxHash /\ TxHash \subseteq Nat /\ s1[h] \in L!CreditList
  BY <1>0, <1>1, PartsAssumption DEF PoolShape, L!LedgerAssumption
<1>3. PoolShape' /\ BalancesKept' /\ PickedSound'
  BY <1>0, <1>1 DEF PoolShape, BalancesKept, PickedSound
<1>4. InOrder'
  BY <1>0, <1>1, <1>2 DEF InOrder
<1>5. ~ Feasible(s1[h], Len(s6))
  BY <1>0, <1>1, <1>2, ValidIs
<1>6. /\ Len(s6) \in Nat /\ Len(s6) \in 0..Len(s6) /\ (Len(s6) + 1)..Len(s6) = {}
      /\ \A k \in 1..Len(s6) : s6[k] < h
  BY <1>0, <1>1, <1>2 DEF InOrder
<1>7. \A c : \A m : Feasible(c, m)' <=> Feasible(c, m)
  BY <1>1 DEF Feasible
<1>8. PassedOver'
  <2> SUFFICES ASSUME NEW g \in s3 \ s5', ~ (\E k \in DOMAIN s6 : s6[k] = g)
               PROVE  \E m \in 0..Len(s6) :
                        /\ \A k \in 1..m : s6[k] < g
                        /\ \A k \in (m + 1)..Len(s6) : g < s6[k]
                        /\ ~ Feasible(s1[g], m)
    BY <1>1, <1>7 DEF PassedOver
  <2>1. CASE g = h
    BY <1>5, <1>6, <2>1
  <2>2. CASE g # h
    BY <1>0, <1>1, <2>2 DEF PassedOver
  <2> QED BY <2>1, <2>2
<1> QED BY <1>3, <1>4, <1>8 DEF PoolInv

(* Every step of the pool. *)
LEMMA PoolStep == PoolInv /\ (L!Next \/ UNCHANGED <<s1, s2, s3, s4, s5, s6, s7, s8>>) => PoolInv'
<1> SUFFICES ASSUME PoolInv, L!Next \/ UNCHANGED <<s1, s2, s3, s4, s5, s6, s7, s8>> PROVE PoolInv'
  OBVIOUS
<1>0. PoolShape /\ BalancesKept /\ InOrder /\ PassedOver /\ PickedSound
  BY DEF PoolInv
<1>1. ASSUME NEW h \in TxHash, L!add(h) PROVE PoolInv'
  <2>1. s8' = "idle" /\ s3' \subseteq TxHash /\ s1' = s1 /\ s6' = s6
    BY <1>0, <1>1 DEF L!add, PoolShape
  <2> QED BY <1>0, <2>1 DEF PoolInv, PoolShape, BalancesKept, InOrder, PassedOver, PickedSound
<1>2. CASE L!get_latest
  <2>1. s4' = <<>> /\ s6' = <<>> /\ s5' = s3' /\ s3' = s3 /\ s1' = s1
    BY <1>2 DEF L!get_latest
  <2>2. Len(s6') = 0 /\ DOMAIN s6' = {} /\ DOMAIN s4' = {}
    BY <2>1
  <2>3. PoolShape'
    BY <1>0, <2>1 DEF PoolShape
  <2>4. BalancesKept'
    BY <2>2, GainsSteps DEF BalancesKept
  <2>5. InOrder' /\ PassedOver'
    BY <2>1, <2>2 DEF InOrder, PassedOver
  <2>6. PickedSound'
    BY <2>2 DEF PickedSound
  <2> QED BY <2>3, <2>4, <2>5, <2>6 DEF PoolInv
<1>3. CASE L!Return
  <2>1. s8' # "latest" /\ UNCHANGED <<s1, s3, s6>>
    BY <1>3 DEF L!Return
  <2> QED BY <1>0, <2>1 DEF PoolInv, PoolShape, BalancesKept, InOrder, PassedOver, PickedSound
<1>4. CASE UNCHANGED <<s1, s2, s3, s4, s5, s6, s7, s8>>
  <2>1. s1' = s1 /\ s3' = s3 /\ s4' = s4 /\ s5' = s5 /\ s6' = s6 /\ s8' = s8
    BY <1>4
  <2>2. \A c : \A m : Feasible(c, m)' <=> Feasible(c, m)
    BY <2>1 DEF Feasible
  <2>3. PassedOver'
    BY <1>0, <2>1, <2>2 DEF PassedOver
  <2> QED BY <1>0, <2>1, <2>3 DEF PoolInv, PoolShape, BalancesKept, InOrder, PickedSound
<1> QED BY <1>1, <1>2, <1>3, <1>4, PoolPick, PoolPass DEF L!Next

(* The invariant holds throughout. *)
LEMMA PoolAlways == Spec => [](part = "pool" => PoolInv)
<1>1. Init => (part = "pool" => PoolInv)
  BY PoolInit
<1>2. (part = "pool" => PoolInv) /\ [Next]_vars => (part = "pool" => PoolInv)'
  <2>1. [Next]_vars => UNCHANGED part
    BY DEF Next, vars
  <2> QED BY <2>1, PoolPart, PoolStep
<1> QED BY <1>1, <1>2, PTL DEF Spec

(* get_latest: carried out in the order picked, starting from no balances  *)
(* as the program does (nothing writes balance), the transactions overdraw *)
(* no account, whatever amounts, accounts and transactions there are.      *)
THEOREM PickedNeverOverdraws == Spec => []LatestSound
<1>1. (part = "pool" => PoolInv) => LatestSound
  <2> SUFFICES ASSUME part = "pool", PoolInv, NEW n \in 1..Len(s6)
               PROVE  /\ \A p \in Account : L!Gained(p, n) >= 0
                      /\ Cardinality(L!Pubs(s1[s6[n]])) = Len(s1[s6[n]])
    BY PoolCardinality DEF LatestSound, L!LatestSound
  <2>1. \A p \in Account : L!Gained(p, n) >= 0
    BY GainedIs DEF PoolInv, PickedSound
  <2>2. s1[s6[n]] \in L!CreditList /\ Apart(s1[s6[n]])
    BY DEF PoolInv, PoolShape, PickedSound
  <2> QED BY <2>1, <2>2, PubsSize
<1> QED BY <1>1, PoolAlways, PTL

(* get_latest: it passes over only what could not be carried out after the *)
(* transactions picked before it.                                          *)
THEOREM PickIsGreedy == Spec => []LatestGreedy
<1>1. (part = "pool" => PoolInv) => LatestGreedy
  <2> DEFINE before(h) == {k \in DOMAIN s6 : s6[k] < h}
  <2> SUFFICES ASSUME part = "pool", PoolInv, s8 = "latest", NEW h \in s3 \ s5,
                      Apart(s1[h]),
                      \A k \in DOMAIN s1[h] :
                        L!Gained(s1[h][k].pub, Cardinality(before(h))) + s1[h][k].amount >= 0,
                      ~ (\E k \in DOMAIN s6 : s6[k] = h)
               PROVE  FALSE
    BY PoolCardinality DEF LatestGreedy, L!LatestGreedy, Apart
  <2>1. PICK n \in 0..Len(s6) : /\ \A k \in 1..n : s6[k] < h
                                /\ \A k \in (n + 1)..Len(s6) : h < s6[k]
                                /\ ~ Feasible(s1[h], n)
    BY DEF PoolInv, PassedOver
  <2>2. /\ DOMAIN s6 = 1..Len(s6) /\ Len(s6) \in Nat
        /\ \A k \in DOMAIN s6 : s6[k] \in Nat /\ h \in Nat
    <3>1. s6 \in Seq(TxHash) /\ s3 \subseteq TxHash /\ TxHash \subseteq Nat
      BY PartsAssumption DEF PoolInv, PoolShape, L!LedgerAssumption
    <3>2. DOMAIN s6 = 1..Len(s6) /\ Len(s6) \in Nat
      BY <3>1
    <3>3. \A k \in 1..Len(s6) : s6[k] \in TxHash
      BY <3>1
    <3> QED BY <3>1, <3>2, <3>3
  <2>3. before(h) = 1..n
    BY <2>1, <2>2
  <2>4. Cardinality(1..n) = n
    BY <2>1, <2>2, FS_Interval
  <2> HIDE DEF before
  <2>5. Feasible(s1[h], n)
    BY <2>3, <2>4, GainedIs DEF Feasible
  <2> QED BY <2>1, <2>5
<1> QED BY <1>1, PoolAlways, PTL
=============================================================================
