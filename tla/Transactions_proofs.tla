------------------------- MODULE Transactions_proofs -------------------------
(***************************************************************************)
(* Transactions, for every number of accounts, width of an int and length  *)
(* of a transaction: both readers accept what create_transaction makes and *)
(* nothing that is not signed, and a transaction may be written again and  *)
(* again.  As a part, its tx, made, first, op, i, n_neg, credits,          *)
(* witnesses, result and rewrites are s1 to s10.                           *)
(***************************************************************************)
EXTENDS Parts, Integers, FiniteSetTheorems, SequenceTheorems, TLAPS

(* A credit as it is read is negative. *)
Pays(cr) == T!ToInt(cr.amount) < 0

(* The first m credits that read negative, and how many there are. *)
Paying(cs, m) == {k \in 1..m : Pays(cs[k])}
Rank(cs, m) == Cardinality(Paying(cs, m))

(* A function of the first numbers is a sequence.                          *)
LEMMA Listed ==
  ASSUME NEW n \in Nat, NEW f, f = [k \in 1..n |-> f[k]], NEW x
  PROVE  Len(f) = n /\ Append(f, x) = [k \in 1..(n + 1) |-> IF k = n + 1 THEN x ELSE f[k]]
<1> DEFINE V == {f[k] : k \in 1..n} \cup {x}
<1>1. f \in [1..n -> V]
  OBVIOUS
<1>2. f \in UNION {[1..m -> V] : m \in Nat} /\ x \in V
  BY <1>1
<1>3. Seq(V) = UNION {[1..m -> V] : m \in Nat}
  BY SeqDef
<1> HIDE DEF V
<1>4. f \in Seq(V)
  BY <1>2, <1>3, Zenon
<1>5. Len(f) \in Nat /\ DOMAIN f = 1..Len(f) /\ DOMAIN f = 1..n
  BY <1>1, <1>4, LenProperties
<1>6. Len(f) = n
  BY <1>5
<1>7. Append(f, x) = [k \in 1..(n + 1) |-> IF k = n + 1 THEN x ELSE f[k]]
  BY <1>2, <1>4, <1>6
<1> QED BY <1>6, <1>7

(* The negative credits are finitely many.                                 *)
LEMMA RankType ==
  ASSUME NEW cs, NEW m \in Nat
  PROVE  IsFiniteSet(Paying(cs, m)) /\ Rank(cs, m) \in Nat
<1>1. IsFiniteSet(1..m) /\ Paying(cs, m) \subseteq 1..m
  BY FS_Interval DEF Paying
<1> QED BY <1>1, FS_Subset, FS_CardinalityType DEF Rank

(* A negative credit has one more at or before it than the one before it.  *)
LEMMA RankSteps ==
  ASSUME NEW cs, NEW m \in Nat
  PROVE  /\ Rank(cs, 0) = 0
         /\ Rank(cs, m + 1) = Rank(cs, m) + IF Pays(cs[m + 1]) THEN 1 ELSE 0
<1>1. Paying(cs, 0) = {}
  BY DEF Paying
<1>2. Rank(cs, 0) = 0
  BY <1>1, FS_EmptySet DEF Rank
<1>3. CASE Pays(cs[m + 1])
  <2>1. Paying(cs, m + 1) = Paying(cs, m) \cup {m + 1} /\ m + 1 \notin Paying(cs, m)
    BY <1>3 DEF Paying
  <2>2. IsFiniteSet(Paying(cs, m))
    BY RankType
  <2>3. Cardinality(Paying(cs, m) \cup {m + 1}) = Cardinality(Paying(cs, m)) + 1
    BY <2>1, <2>2, FS_AddElement
  <2> QED BY <1>2, <1>3, <2>1, <2>3 DEF Rank
<1>4. CASE ~ Pays(cs[m + 1])
  <2>1. Paying(cs, m + 1) = Paying(cs, m)
    BY <1>4 DEF Paying
  <2> QED BY <1>2, <1>4, <2>1, RankType DEF Rank
<1> QED BY <1>3, <1>4

(* The rank goes up with every negative credit.                            *)
LEMMA RankGrows ==
  ASSUME NEW cs, NEW j \in Nat, NEW k \in Nat, j <= k
  PROVE  /\ Rank(cs, j) <= Rank(cs, k)
         /\ j < k /\ Pays(cs[k]) => Rank(cs, j) < Rank(cs, k)
<1>1. /\ IsFiniteSet(Paying(cs, k)) /\ Paying(cs, j) \subseteq Paying(cs, k)
      /\ Rank(cs, j) \in Nat /\ Rank(cs, k) \in Nat
  <2>1. IsFiniteSet(Paying(cs, k)) /\ Rank(cs, j) \in Nat /\ Rank(cs, k) \in Nat
    BY RankType
  <2>2. Paying(cs, j) \subseteq Paying(cs, k)
    BY DEF Paying
  <2> QED BY <2>1, <2>2
<1>2. Rank(cs, j) <= Rank(cs, k) /\ (Rank(cs, j) = Rank(cs, k) => Paying(cs, j) = Paying(cs, k))
  BY <1>1, FS_Subset DEF Rank
<1>3. j < k /\ Pays(cs[k]) => k \in Paying(cs, k) /\ k \notin Paying(cs, j)
  BY DEF Paying
<1> QED BY <1>1, <1>2, <1>3

(* Every negative credit has its signature: the c-th has the c-th.         *)
Signed(t, m) ==
  \A k \in 1..m : Pays(t.credits[k]) =>
    /\ Rank(t.credits, k) \in DOMAIN t.signatures
    /\ t.signatures[Rank(t.credits, k)] = T!Signature(t.credits[k].account, T!DataOf(t))

(* A credit as it is read, and all of them.                                *)
Taken(cr) == T!Credit(cr.account, T!ToInt(cr.amount))
AllTaken(cs) == [k \in DOMAIN cs |-> Taken(cs[k])]

(* What a message looks like.                                              *)
Message(t) ==
  /\ t = [credits |-> t.credits, form |-> t.form, signatures |-> t.signatures]
  /\ Len(t.credits) \in Nat /\ DOMAIN t.credits = 1..Len(t.credits)
  /\ t.credits = [k \in 1..Len(t.credits) |-> T!Credit(t.credits[k].account, t.credits[k].amount)]
  /\ \A k \in 1..Len(t.credits) : t.credits[k].amount \in Int
  /\ Len(t.signatures) \in Nat /\ DOMAIN t.signatures = 1..Len(t.signatures)
  /\ t.signatures = [k \in DOMAIN t.signatures |-> T!Signature(t.signatures[k].by, t.signatures[k].over)]

(* How far the reader is, and what it has. *)
Reading ==
  /\ s5 \in 1..(Len(s1.credits) + 1)
  /\ s6 = Rank(s1.credits, s5 - 1)
  /\ s6 <= s5 - 1
  /\ s7 = [k \in 1..(s5 - 1) |-> Taken(s1.credits[k])]
  /\ s9 \in {"running", "true", "false", "crash"}
  /\ s9 = "true" => s5 = Len(s1.credits) + 1

(* The signatures kept are those of the negative credits that were read.   *)
Kept ==
  /\ s8 = [k \in 1..Len(s1.credits) |->
       IF k <= s6 THEN s1.signatures[k] ELSE T!NoSignature]
  /\ s6 <= Len(s1.signatures)
  /\ \A k \in 1..s6 : s1.signatures[k].over = T!DataOf(s1)

(* What create_transaction made, or a reader accepted before, unless bytes()*)
(* has changed the bytes of something that is signed.                       *)
Calm == T!Negatives(T!FirstRead) = {}
Trusted == s2 \/ (s10 > 0 /\ (T!SameBytes \/ Calm))

(* What the reader went past is signed; a trusted message is throughout.    *)
AllSigned ==
  /\ Signed(s1, s5 - 1)
  /\ Trusted => Signed(s1, Len(s1.credits)) /\ s9 \notin {"false", "crash"}

(* A message of the constructor's own has no signature in excess, and none  *)
(* over its bytes if those have changed.                                    *)
NoExcess ==
  s10 > 0 =>
    /\ Len(s1.signatures) = Len(s1.credits)
    /\ \A k \in DOMAIN s1.signatures :
         Rank(s1.credits, Len(s1.credits)) < k => s1.signatures[k] = T!NoSignature
    /\ ~T!SameBytes => \A k \in DOMAIN s1.signatures : s1.signatures[k].over # T!DataOf(s1)

(* The credits are those of the first message, once they were read. *)
Same ==
  /\ s10 \in Nat
  /\ Message(s3)
  /\ s2 => T!SameBytes
  /\ s10 = 0 => s1 = s3
  /\ s10 > 0 => s1.credits = AllTaken(s3.credits) /\ s1.form = "canonical"

TxInv == Message(s1) /\ Reading /\ Kept /\ AllSigned /\ NoExcess /\ Same

(* Reading an amount twice is reading it once. *)
LEMMA IntOnce == ASSUME NEW a \in Int PROVE T!ToInt(a) \in Int /\ T!ToInt(T!ToInt(a)) = T!ToInt(a)
<1> DEFINE p == 2 * IntHalf
           x == (a + IntHalf) % p
<1>1. IntHalf \in Nat \ {0} /\ p \in Nat \ {0} /\ a + IntHalf \in Int
  BY PartsAssumption DEF T!TransactionsAssumption
<1>2. T!ToInt(a) = x - IntHalf /\ T!ToInt(x - IntHalf) = (((x - IntHalf) + IntHalf) % p) - IntHalf
  BY DEF T!ToInt
<1> HIDE DEF p
<1>3. x \in 0..(p - 1)
  BY <1>1
<1> HIDE DEF x
<1>4. (x - IntHalf) + IntHalf = x /\ x % p = x
  BY <1>1, <1>3
<1> QED BY <1>1, <1>2, <1>3, <1>4

(* What is read of a message is a list of credits that is read as it is.   *)
LEMMA TakenOnce ==
  ASSUME NEW t, Message(t)
  PROVE  /\ Len(AllTaken(t.credits)) = Len(t.credits)
         /\ DOMAIN AllTaken(t.credits) = 1..Len(t.credits)
         /\ AllTaken(t.credits) = [k \in 1..Len(t.credits) |-> Taken(t.credits[k])]
         /\ AllTaken(AllTaken(t.credits)) = AllTaken(t.credits)
         /\ \A k \in 1..Len(t.credits) :
              /\ AllTaken(t.credits)[k].account = t.credits[k].account
              /\ AllTaken(t.credits)[k].amount = T!ToInt(t.credits[k].amount)
              /\ AllTaken(t.credits)[k] = T!Credit(AllTaken(t.credits)[k].account, AllTaken(t.credits)[k].amount)
              /\ AllTaken(t.credits)[k].amount \in Int
              /\ Pays(AllTaken(t.credits)[k]) <=> Pays(t.credits[k])
<1> DEFINE n == Len(t.credits)
           cs == t.credits
           rs == AllTaken(cs)
<1>1. n \in Nat /\ DOMAIN cs = 1..n /\ \A k \in 1..n : cs[k].amount \in Int
  BY DEF Message
<1>2. rs = [k \in 1..n |-> Taken(cs[k])]
  BY <1>1 DEF AllTaken
<1>3. DOMAIN rs = 1..n /\ rs = [k \in 1..n |-> rs[k]]
  BY <1>2
<1>4. Len(rs) = n
  BY <1>1, <1>3, Listed
<1>5. ASSUME NEW k \in 1..n
      PROVE  /\ rs[k].account = cs[k].account /\ rs[k].amount = T!ToInt(cs[k].amount)
             /\ rs[k] = T!Credit(rs[k].account, rs[k].amount)
             /\ rs[k].amount \in Int
             /\ Pays(rs[k]) <=> Pays(cs[k])
             /\ Taken(rs[k]) = rs[k]
  <2>1. T!ToInt(cs[k].amount) \in Int /\ T!ToInt(T!ToInt(cs[k].amount)) = T!ToInt(cs[k].amount)
    BY <1>1, IntOnce
  <2>2. rs[k] = T!Credit(cs[k].account, T!ToInt(cs[k].amount))
    BY <1>2 DEF Taken
  <2> HIDE DEF rs, cs
  <2>3. rs[k].account = cs[k].account /\ rs[k].amount = T!ToInt(cs[k].amount)
    BY <2>2 DEF T!Credit
  <2> QED BY <2>1, <2>2, <2>3 DEF Pays, Taken
<1>6. AllTaken(rs) = rs
  <2> HIDE DEF rs
  <2>1. AllTaken(rs) = [k \in 1..n |-> Taken(rs[k])]
    BY <1>3 DEF AllTaken
  <2>2. [k \in 1..n |-> Taken(rs[k])] = [k \in 1..n |-> rs[k]]
    BY <1>5
  <2> QED BY <1>3, <2>1, <2>2
<1> QED BY <1>2, <1>3, <1>4, <1>5, <1>6

(* The same credits pay before and after. *)
LEMMA TakenRank ==
  ASSUME NEW t, Message(t), NEW m \in 0..Len(t.credits)
  PROVE  Rank(AllTaken(t.credits), m) = Rank(t.credits, m)
<1>1. \A k \in 1..m : Pays(AllTaken(t.credits)[k]) <=> Pays(t.credits[k])
  <2>1. \A k \in 1..m : k \in 1..Len(t.credits)
    BY DEF Message
  <2> QED BY <2>1, TakenOnce
<1> QED BY <1>1 DEF Rank, Paying

(* No bytes are none. *)
LEMMA Something == \A t : T!DataOf(t) # <<>>
<1> TAKE t
<1>1. Len(T!DataOf(t)) = 2 /\ Len(<<>>) = 0
  BY DEF T!DataOf, T!Data
<1> QED BY <1>1

(* The first message as it is read. *)
LEMMA FirstIs == T!FirstRead = AllTaken(s3.credits)
  BY DEF T!FirstRead, AllTaken, Taken

(* What a step of all parts is for this one.                               *)
LEMMA TxPart ==
  part = "transaction" /\ [Next]_vars =>
    part' = part /\ (T!Next \/ UNCHANGED <<s1, s2, s3, s4, s5, s6, s7, s8, s9, s10>>)
  BY DEF Next, vars

(* A credit that reads negative has, when it is reached, the next rank.    *)
LEMMA Reached ==
  ASSUME Message(s1), Reading, s5 <= Len(s1.credits)
  PROVE  /\ s5 \in Nat \ {0} /\ s6 \in Nat /\ s5 \in DOMAIN s1.credits /\ (s5 - 1) + 1 = s5
         /\ Rank(s1.credits, s5) = s6 + IF T!Read.amount < 0 THEN 1 ELSE 0
         /\ T!Read = Taken(s1.credits[s5])
         /\ T!Read.account = s1.credits[s5].account
         /\ Pays(s1.credits[s5]) <=> T!Read.amount < 0
<1>1. s5 \in Nat \ {0} /\ (s5 - 1) + 1 = s5 /\ s5 \in 1..Len(s1.credits) /\ s5 - 1 \in Nat
  BY DEF Reading, Message
<1>2. /\ T!Read = Taken(s1.credits[s5])
      /\ T!Read.account = s1.credits[s5].account
      /\ Pays(s1.credits[s5]) <=> T!Read.amount < 0
  BY DEF T!Read, T!Credit, Pays, Taken
<1>3. s6 \in Nat /\ s6 = Rank(s1.credits, s5 - 1)
  BY <1>1, RankType DEF Reading
<1>4. Rank(s1.credits, (s5 - 1) + 1) = Rank(s1.credits, s5 - 1) + IF Pays(s1.credits[(s5 - 1) + 1]) THEN 1 ELSE 0
  BY <1>1, RankSteps
<1> QED BY <1>1, <1>2, <1>3, <1>4 DEF Message

(* The list of accounts and amounts grows by what is read.                 *)
LEMMA ReadMore ==
  ASSUME Message(s1), Reading, s5 <= Len(s1.credits), s7' = Append(s7, T!Read)
  PROVE  s7' = [k \in 1..s5 |-> Taken(s1.credits[k])]
<1>1. s5 - 1 \in Nat /\ (s5 - 1) + 1 = s5
  BY Reached
<1>2. s7 = [k \in 1..(s5 - 1) |-> s7[k]]
  BY DEF Reading
<1>3. Append(s7, T!Read) = [k \in 1..((s5 - 1) + 1) |-> IF k = (s5 - 1) + 1 THEN T!Read ELSE s7[k]]
  BY <1>1, <1>2, Listed
<1>4. T!Read = Taken(s1.credits[s5])
  BY Reached
<1>5. \A k \in 1..(s5 - 1) : s7[k] = Taken(s1.credits[k])
  BY DEF Reading
<1>6. \A k \in 1..s5 : (IF k = s5 THEN T!Read ELSE s7[k]) = Taken(s1.credits[k])
  BY <1>1, <1>4, <1>5
<1> QED BY <1>1, <1>3, <1>6

(* A credit is read. *)
LEMMA TxRead ==
  ASSUME TxInv, T!ReadCredit \/ T!ReadSigned
  PROVE  TxInv'
<1> DEFINE L1 == Len(s1.credits)
<1>0. Message(s1) /\ Reading /\ Kept /\ AllSigned /\ NoExcess /\ Same
  BY DEF TxInv
<1>1. /\ s9 = "running" /\ s5 <= L1 /\ s7' = Append(s7, T!Read) /\ s5' = s5 + 1
      /\ s1' = s1 /\ s2' = s2 /\ s3' = s3 /\ s9' = s9 /\ s10' = s10
  BY DEF T!ReadCredit, T!ReadSigned
<1>2. /\ s5 \in Nat \ {0} /\ s6 \in Nat /\ s5 \in DOMAIN s1.credits /\ (s5 - 1) + 1 = s5
      /\ Rank(s1.credits, s5) = s6 + IF T!Read.amount < 0 THEN 1 ELSE 0
      /\ T!Read.account = s1.credits[s5].account
      /\ Pays(s1.credits[s5]) <=> T!Read.amount < 0
      /\ L1 \in Nat /\ s5' - 1 = s5 /\ s6 <= s5 - 1
  BY <1>0, <1>1, Reached DEF Message, Reading
<1>3. /\ s6' = s6 + IF T!Read.amount < 0 THEN 1 ELSE 0
      /\ s6' <= Len(s1.signatures)
      /\ s8' = [k \in 1..L1 |-> IF k <= s6' THEN s1.signatures[k] ELSE T!NoSignature]
      /\ T!Read.amount < 0 =>
           /\ s6' \in DOMAIN s1.signatures
           /\ s1.signatures[s6'] = T!Signature(T!Read.account, T!DataOf(s1))
      /\ \A k \in 1..s6' : s1.signatures[k].over = T!DataOf(s1)
  <2>1. CASE T!ReadCredit
    <3>1. ~ (T!Read.amount < 0) /\ s6' = s6 /\ s8' = s8
      BY <2>1 DEF T!ReadCredit
    <3> QED BY <1>0, <1>2, <3>1 DEF Kept
  <2>2. CASE T!ReadSigned
    <3>1. /\ T!Read.amount < 0 /\ s6 < Len(s1.signatures) /\ s6' = s6 + 1
          /\ s1.signatures[s6 + 1].by = T!Read.account /\ s1.signatures[s6 + 1].over = T!DataOf(s1)
          /\ s8' = [s8 EXCEPT ![s6 + 1] = s1.signatures[s6 + 1]]
      BY <2>2 DEF T!ReadSigned, T!Verifies
    <3>2. Len(s1.signatures) \in Nat /\ DOMAIN s1.signatures = 1..Len(s1.signatures)
      BY <1>0 DEF Message
    <3>3. s6 + 1 \in DOMAIN s1.signatures /\ s6' <= Len(s1.signatures)
      BY <1>2, <3>1, <3>2
    <3>4. s1.signatures[s6 + 1] = T!Signature(T!Read.account, T!DataOf(s1))
      BY <1>0, <3>1, <3>3 DEF Message
    <3>5. s8 = [k \in 1..L1 |-> IF k <= s6 THEN s1.signatures[k] ELSE T!NoSignature] /\ s6 + 1 \in 1..L1
      BY <1>0, <1>1, <1>2 DEF Kept
    <3>6. s8' = [k \in 1..L1 |-> IF k <= s6 + 1 THEN s1.signatures[k] ELSE T!NoSignature]
      <4> DEFINE g == [k \in 1..L1 |-> IF k <= s6 + 1 THEN s1.signatures[k] ELSE T!NoSignature]
      <4>1. \A k \in 1..L1 : s8'[k] = g[k]
        BY <1>2, <3>1, <3>5
      <4>2. s8' = [k \in 1..L1 |-> s8'[k]]
        BY <3>1, <3>5
      <4>3. g = [k \in 1..L1 |-> g[k]]
        OBVIOUS
      <4> HIDE DEF g
      <4>4. s8' = g
        BY <4>1, <4>2, <4>3
      <4> QED BY <4>4 DEF g
    <3>7. ASSUME NEW k \in 1..s6' PROVE s1.signatures[k].over = T!DataOf(s1)
      <4>1. k = s6 + 1 \/ k \in 1..s6
        BY <1>2, <3>1
      <4> QED BY <1>0, <3>1, <4>1 DEF Kept
    <3> QED BY <3>1, <3>3, <3>4, <3>6, <3>7
  <2> QED BY <2>1, <2>2
<1>4. Message(s1)' /\ Same' /\ NoExcess'
  <2>1. T!SameBytes' <=> T!SameBytes
    BY <1>1 DEF T!SameBytes, T!FirstRead
  <2>2. Message(s1)' /\ Message(s3)'
    BY <1>0, <1>1 DEF Message, Same
  <2>3. NoExcess'
    BY <1>0, <1>1, <2>1 DEF NoExcess, T!DataOf
  <2> QED BY <1>0, <1>1, <2>1, <2>2, <2>3 DEF Same, AllTaken
<1>5. Reading'
  <2>1. s7' = [k \in 1..s5 |-> Taken(s1.credits[k])]
    BY <1>0, <1>1, ReadMore
  <2>2. s5' \in 1..(L1 + 1) /\ s6' <= s5
    BY <1>1, <1>2, <1>3
  <2>3. s6' = Rank(s1.credits, s5)
    BY <1>2, <1>3
  <2> QED BY <1>1, <1>2, <2>1, <2>2, <2>3 DEF Reading
<1>6. Kept'
  BY <1>1, <1>3 DEF Kept, T!DataOf
<1>7. AllSigned'
  <2>1. Signed(s1, s5)
    <3> SUFFICES ASSUME NEW k \in 1..s5, Pays(s1.credits[k])
                 PROVE  /\ Rank(s1.credits, k) \in DOMAIN s1.signatures
                        /\ s1.signatures[Rank(s1.credits, k)] = T!Signature(s1.credits[k].account, T!DataOf(s1))
      BY DEF Signed
    <3>1. CASE k = s5
      BY <1>2, <1>3, <3>1
    <3>2. CASE k # s5
      <4>1. k \in 1..(s5 - 1)
        BY <1>2, <3>2
      <4> QED BY <1>0, <4>1 DEF AllSigned, Signed
    <3> QED BY <3>1, <3>2
  <2>2. (Trusted' <=> Trusted) /\ (Signed(s1, Len(s1.credits))' <=> Signed(s1, Len(s1.credits)))
    BY <1>1 DEF Trusted, Calm, T!SameBytes, T!FirstRead, Signed, T!DataOf
  <2>3. Signed(s1, s5 - 1)'
    BY <1>1, <1>2, <2>1 DEF Signed, T!DataOf
  <2> QED BY <1>0, <1>1, <2>2, <2>3 DEF AllSigned
<1> QED BY <1>4, <1>5, <1>6, <1>7 DEF TxInv

(* A credit without its signature is refused, and none that is trusted.    *)
LEMMA TxEnds ==
  ASSUME TxInv, T!Refuse \/ T!Crash \/ T!Accept
  PROVE  TxInv'
<1>0. Message(s1) /\ Reading /\ Kept /\ AllSigned /\ NoExcess /\ Same
  BY DEF TxInv
<1>1. UNCHANGED <<s1, s2, s3, s5, s6, s7, s8, s10>>
  BY DEF T!Refuse, T!Crash, T!Accept
<1>2. Message(s1)' /\ Kept' /\ NoExcess' /\ Same'
  <2>1. T!SameBytes' <=> T!SameBytes
    BY <1>1 DEF T!SameBytes, T!FirstRead
  <2>2. Message(s1)' /\ Message(s3)'
    BY <1>0, <1>1 DEF Message, Same
  <2>3. NoExcess' /\ Kept'
    BY <1>0, <1>1, <2>1 DEF NoExcess, Kept, T!DataOf
  <2> QED BY <1>0, <1>1, <2>1, <2>2, <2>3 DEF Same, AllTaken
<1>3. /\ Trusted' <=> Trusted
      /\ Signed(s1, s5 - 1)' <=> Signed(s1, s5 - 1)
      /\ Signed(s1, Len(s1.credits))' <=> Signed(s1, Len(s1.credits))
  BY <1>1 DEF Trusted, Calm, T!SameBytes, T!FirstRead, Signed, T!DataOf
<1>4. CASE T!Accept
  <2>1. s9' = "true" /\ s5 > Len(s1.credits)
    BY <1>4 DEF T!Accept
  <2>2. s5 = Len(s1.credits) + 1
    BY <1>0, <2>1 DEF Reading, Message
  <2>3. Reading'
    BY <1>0, <1>1, <2>1, <2>2 DEF Reading
  <2>4. AllSigned'
    BY <1>0, <1>3, <2>1 DEF AllSigned
  <2> QED BY <1>2, <2>3, <2>4 DEF TxInv
<1>5. CASE T!Refuse \/ T!Crash
  <2>1. /\ s9' \in {"false", "crash"} /\ s5 <= Len(s1.credits) /\ T!Read.amount < 0
        /\ s6 < Len(s1.signatures) => \/ ~T!Verifies(s1.signatures[s6 + 1], T!DataOf(s1), T!Read.account)
                                      \/ s1.signatures[s6 + 1] = T!NoSignature
    BY <1>5 DEF T!Refuse, T!Crash
  <2>2. ~ Trusted
    <3> SUFFICES ASSUME Trusted PROVE FALSE
      OBVIOUS
    <3>1. /\ s6 \in Nat /\ s5 \in 1..Len(s1.credits) /\ Rank(s1.credits, s5) = s6 + 1
          /\ Pays(s1.credits[s5]) /\ T!Read.account = s1.credits[s5].account
      BY <1>0, <2>1, Reached DEF Message
    <3>2. /\ s6 + 1 \in DOMAIN s1.signatures
          /\ s1.signatures[s6 + 1] = T!Signature(T!Read.account, T!DataOf(s1))
      BY <1>0, <3>1 DEF AllSigned, Signed
    <3>3. s6 < Len(s1.signatures)
      BY <1>0, <3>1, <3>2 DEF Message
    <3>4. T!Verifies(s1.signatures[s6 + 1], T!DataOf(s1), T!Read.account)
      BY <3>2 DEF T!Verifies, T!Signature
    <3>5. s1.signatures[s6 + 1] # T!NoSignature
      <4>1. s1.signatures[s6 + 1].over # <<>>
        BY <3>2, Something DEF T!Signature
      <4>2. T!NoSignature.over = <<>>
        BY DEF T!NoSignature, T!Signature
      <4> QED BY <4>1, <4>2
    <3> QED BY <2>1, <3>3, <3>4, <3>5
  <2>3. Reading'
    BY <1>0, <1>1, <2>1 DEF Reading
  <2>4. AllSigned'
    BY <1>0, <1>3, <2>2 DEF AllSigned
  <2> QED BY <1>2, <2>3, <2>4 DEF TxInv
<1> QED BY <1>4, <1>5

(* At the end all credits have been taken.                                 *)
LEMMA ReadAll ==
  ASSUME Message(s1), Reading, s5 = Len(s1.credits) + 1
  PROVE  s7 = AllTaken(s1.credits)
<1> DEFINE n == Len(s1.credits)
<1>1. n \in Nat /\ s5 - 1 = n
  BY DEF Message
<1>2. s7 = [k \in 1..n |-> Taken(s1.credits[k])]
  BY <1>1 DEF Reading
<1> QED BY <1>2, TakenOnce

(* They are those of the first message.                                    *)
LEMMA ReadFirst ==
  ASSUME Message(s1), Reading, Same, s5 = Len(s1.credits) + 1
  PROVE  s7 = AllTaken(s3.credits) /\ (s10 > 0 => s7 = s1.credits)
<1>1. s7 = AllTaken(s1.credits)
  BY ReadAll
<1>2. CASE s10 = 0
  BY <1>1, <1>2 DEF Same
<1>3. CASE s10 > 0
  <2>1. s1.credits = AllTaken(s3.credits) /\ Message(s3)
    BY <1>3 DEF Same
  <2>2. AllTaken(AllTaken(s3.credits)) = AllTaken(s3.credits)
    BY <2>1, TakenOnce
  <2> QED BY <1>1, <2>1, <2>2
<1> QED BY <1>2, <1>3 DEF Same

(* A transaction is written again. *)
LEMMA TxRewrite ==
  ASSUME TxInv, T!Rewrite
  PROVE  TxInv'
<1> DEFINE n == Len(s1.credits)
<1>0. Message(s1) /\ Reading /\ Kept /\ AllSigned /\ NoExcess /\ Same
  BY DEF TxInv
<1>1. /\ s9 = "true" /\ s1' = [credits |-> s7, form |-> "canonical", signatures |-> s8]
      /\ s10' = s10 + 1 /\ s5' = 1 /\ s6' = 0 /\ s7' = <<>> /\ s9' = "running"
      /\ s8' = [k \in DOMAIN s7 |-> T!NoSignature] /\ s2' = s2 /\ s3' = s3
  BY DEF T!Rewrite, T!Written
<1>2. n \in Nat /\ s5 = n + 1 /\ s5 - 1 = n /\ s6 = Rank(s1.credits, n) /\ s6 \in Nat /\ s6 <= n
  BY <1>0, <1>1, RankType DEF Reading, Message
<1>3. s7 = AllTaken(s1.credits) /\ s7 = AllTaken(s3.credits) /\ (s10 > 0 => s7 = s1.credits)
  BY <1>0, <1>2, ReadAll, ReadFirst
<1>4. /\ Len(s7) = n /\ DOMAIN s7 = 1..n /\ s7 = [k \in 1..n |-> Taken(s1.credits[k])]
      /\ \A k \in 1..n : /\ s7[k].account = s1.credits[k].account
                         /\ s7[k] = T!Credit(s7[k].account, s7[k].amount)
                         /\ s7[k].amount \in Int
                         /\ Pays(s7[k]) <=> Pays(s1.credits[k])
  BY <1>0, <1>3, TakenOnce
<1>5. /\ s8 = [k \in 1..n |-> IF k <= s6 THEN s1.signatures[k] ELSE T!NoSignature]
      /\ Len(s8) = n /\ DOMAIN s8 = 1..n /\ s6 <= Len(s1.signatures)
  <2>1. s8 = [k \in 1..n |-> IF k <= s6 THEN s1.signatures[k] ELSE T!NoSignature] /\ s6 <= Len(s1.signatures)
    BY <1>0 DEF Kept
  <2>2. s8 = [k \in 1..n |-> s8[k]] /\ DOMAIN s8 = 1..n
    BY <2>1
  <2> QED BY <1>2, <2>1, <2>2, Listed
<1>6. s1'.credits = s7 /\ s1'.signatures = s8 /\ s1'.form = "canonical"
  BY <1>1
<1>7. T!DataOf(s1') = T!Data(T!FirstRead, "canonical")
  BY <1>3, <1>6, FirstIs DEF T!DataOf
<1>8. Message(s1')
  <2>1. s7 = [k \in 1..n |-> T!Credit(s7[k].account, s7[k].amount)]
    BY <1>4
  <2>2. ASSUME NEW k \in 1..n PROVE s8[k] = T!Signature(s8[k].by, s8[k].over)
    <3>1. CASE k <= s6
      <4>1. k \in DOMAIN s1.signatures
        BY <1>0, <1>2, <1>5, <3>1 DEF Message
      <4> QED BY <1>0, <1>5, <3>1, <4>1 DEF Message
    <3>2. CASE ~ (k <= s6)
      BY <1>5, <3>2 DEF T!NoSignature, T!Signature
    <3> QED BY <3>1, <3>2
  <2> QED BY <1>1, <1>2, <1>4, <1>5, <1>6, <2>1, <2>2 DEF Message
<1>9. Same'
  <2>1. T!SameBytes' <=> T!SameBytes
    BY <1>1 DEF T!SameBytes, T!FirstRead
  <2>2. Message(s3)'
    BY <1>0, <1>1 DEF Message, Same
  <2> QED BY <1>0, <1>1, <1>3, <1>6, <2>1, <2>2 DEF Same, AllTaken
<1>10. Reading'
  <2>1. Rank(s7, 0) = 0
    BY RankSteps
  <2> QED BY <1>1, <1>2, <1>4, <1>6, <2>1 DEF Reading
<1>11. Kept'
  <2>1. Len(s8) \in Nat
    BY <1>2, <1>5
  <2>2. s8' = [k \in 1..n |-> IF k <= 0 THEN s8[k] ELSE T!NoSignature]
    BY <1>1, <1>2, <1>4
  <2> QED BY <1>1, <1>2, <1>4, <1>5, <1>6, <2>1, <2>2 DEF Kept, T!NoSignature, T!Signature
<1>12. T!SameBytes => T!DataOf(s1') = T!DataOf(s1)
  <2> SUFFICES ASSUME T!SameBytes PROVE T!DataOf(s1') = T!DataOf(s1)
    OBVIOUS
  <2>1. CASE s10 = 0
    BY <1>0, <1>7, <2>1 DEF Same, T!SameBytes
  <2>2. CASE s10 > 0
    BY <1>0, <1>3, <1>6, <2>2 DEF Same, T!DataOf
  <2> QED BY <1>0, <2>1, <2>2 DEF Same
<1>13. ASSUME T!SameBytes PROVE Signed(s1', n)
  <2> SUFFICES ASSUME NEW k \in 1..n, Pays(s7[k])
               PROVE  /\ Rank(s7, k) \in DOMAIN s8
                      /\ s8[Rank(s7, k)] = T!Signature(s7[k].account, T!DataOf(s1))
    BY <1>6, <1>12, <1>13 DEF Signed
  <2>1. Pays(s1.credits[k]) /\ s7[k].account = s1.credits[k].account /\ Rank(s7, k) = Rank(s1.credits, k)
    <3>1. k \in 0..n
      BY <1>2
    <3>2. Rank(AllTaken(s1.credits), k) = Rank(s1.credits, k)
      BY <1>0, <3>1, TakenRank
    <3> QED BY <1>3, <1>4, <3>2
  <2>2. /\ Rank(s1.credits, k) \in DOMAIN s1.signatures
        /\ s1.signatures[Rank(s1.credits, k)] = T!Signature(s1.credits[k].account, T!DataOf(s1))
    BY <1>0, <1>2, <2>1 DEF AllSigned, Signed
  <2>3. Rank(s1.credits, k) <= s6 /\ Rank(s1.credits, k) \in Nat
    BY <1>2, RankGrows, RankType
  <2>4. Rank(s1.credits, k) # 0
    BY <1>0, <2>2 DEF Message
  <2>5. Rank(s1.credits, k) \in 1..n
    BY <1>2, <2>3, <2>4
  <2> QED BY <1>5, <2>1, <2>2, <2>3, <2>5
<1>14. ASSUME Calm PROVE Signed(s1', n)
  <2>1. \A k \in 1..n : ~ (s7[k].amount < 0)
    BY <1>3, <1>4, <1>14, FirstIs DEF Calm, T!Negatives
  <2>2. \A k \in 1..n : T!ToInt(s7[k].amount) = s7[k].amount
    <3>1. AllTaken(s7) = s7
      BY <1>0, <1>3, TakenOnce
    <3>2. \A k \in 1..n : Taken(s7[k]) = s7[k]
      BY <1>4, <3>1 DEF AllTaken
    <3>3. \A c : Taken(c).amount = T!ToInt(c.amount)
      BY DEF Taken, T!Credit
    <3> QED BY <3>2, <3>3
  <2> QED BY <1>6, <2>1, <2>2 DEF Signed, Pays
<1>15. AllSigned'
  <2>1. Signed(s1', 0)
    BY DEF Signed
  <2>2. Trusted' => T!SameBytes \/ Calm
    BY <1>0, <1>1 DEF Trusted, Same, Calm, T!SameBytes, T!FirstRead
  <2>3. Len(s1'.credits) = n
    BY <1>4, <1>6
  <2>4. Trusted' => Signed(s1', n)
    BY <1>13, <1>14, <2>2
  <2> QED BY <1>1, <2>1, <2>3, <2>4 DEF AllSigned
<1>16. NoExcess'
  <2>1. Rank(s7, n) = s6
    <3>1. n \in 0..n
      BY <1>2
    <3>2. Rank(AllTaken(s1.credits), n) = Rank(s1.credits, n)
      BY <1>0, <3>1, TakenRank
    <3> QED BY <1>2, <1>3, <3>2
  <2>2. \A k \in 1..n : s6 < k => s8[k] = T!NoSignature
    BY <1>2, <1>5
  <2>3. ASSUME ~T!SameBytes, NEW k \in 1..n PROVE s8[k].over # T!DataOf(s1')
    <3>1. CASE k <= s6
      <4>1. k \in 1..s6 /\ k \in DOMAIN s1.signatures /\ s8[k] = s1.signatures[k]
        BY <1>0, <1>2, <1>5, <3>1 DEF Message
      <4>2. s1.signatures[k].over = T!DataOf(s1)
        BY <1>0, <4>1 DEF Kept
      <4>3. s10 = 0
        BY <1>0, <2>3, <4>1, <4>2 DEF NoExcess, Same
      <4>4. T!DataOf(s1) = T!DataOf(s3)
        BY <1>0, <4>3 DEF Same
      <4> QED BY <1>7, <2>3, <4>1, <4>2, <4>4 DEF T!SameBytes
    <3>2. CASE ~ (k <= s6)
      BY <1>5, <3>2, Something DEF T!NoSignature, T!Signature
    <3> QED BY <3>1, <3>2
  <2>4. T!SameBytes' <=> T!SameBytes
    BY <1>1 DEF T!SameBytes, T!FirstRead
  <2>5. \A k \in DOMAIN s1'.signatures : ~T!SameBytes => s1'.signatures[k].over # T!DataOf(s1')
    BY <1>5, <1>6, <2>3
  <2> QED BY <1>4, <1>5, <1>6, <2>1, <2>2, <2>4, <2>5 DEF NoExcess, T!NoSignature, T!Signature
<1> QED BY <1>8, <1>9, <1>10, <1>11, <1>15, <1>16 DEF TxInv

(* Every step of a reader. *)
LEMMA TxStep ==
  TxInv /\ (T!Next \/ UNCHANGED <<s1, s2, s3, s4, s5, s6, s7, s8, s9, s10>>) => TxInv'
<1>1. TxInv /\ UNCHANGED <<s1, s2, s3, s4, s5, s6, s7, s8, s9, s10>> => TxInv'
  <2> SUFFICES ASSUME TxInv, UNCHANGED <<s1, s2, s3, s4, s5, s6, s7, s8, s9, s10>> PROVE TxInv'
    OBVIOUS
  <2>1. /\ s1' = s1 /\ s2' = s2 /\ s3' = s3 /\ s5' = s5 /\ s6' = s6 /\ s7' = s7 /\ s8' = s8
        /\ s9' = s9 /\ s10' = s10
    OBVIOUS
  <2>2. Reading' /\ Kept' /\ Message(s1)' /\ Message(s3)'
    <3>1. Message(s1)' /\ Message(s3)'
      BY <2>1 DEF TxInv, Message, Same
    <3>2. Reading'
      BY <2>1 DEF TxInv, Reading
    <3>3. Kept'
      BY <2>1 DEF TxInv, Kept, T!DataOf
    <3> QED BY <3>1, <3>2, <3>3
  <2>3. T!SameBytes' <=> T!SameBytes
    BY <2>1 DEF T!SameBytes, T!FirstRead
  <2>4. Calm' <=> Calm
    BY <2>1 DEF Calm, T!FirstRead
  <2>5. AllSigned'
    BY <2>1, <2>3, <2>4 DEF TxInv, AllSigned, Trusted, Signed, T!DataOf
  <2>6. NoExcess'
    BY <2>1, <2>3 DEF TxInv, NoExcess, T!DataOf
  <2>7. Same'
    BY <2>1, <2>2, <2>3 DEF TxInv, Same, AllTaken
  <2> QED BY <2>2, <2>5, <2>6, <2>7 DEF TxInv
<1> QED BY <1>1, TxRead, TxEnds, TxRewrite DEF T!Next

(* What the lists of a message are.                                        *)
LEMMA ListsType ==
  ASSUME NEW V, NEW m \in Nat, NEW x \in T!Lists(V, m)
  PROVE  /\ Len(x) \in Nat /\ DOMAIN x = 1..Len(x) /\ x = [k \in 1..Len(x) |-> x[k]]
         /\ \A k \in DOMAIN x : x[k] \in V
<1>1. PICK n \in 0..m : x \in [1..n -> V]
  BY DEF T!Lists
<1>2. n \in Nat /\ x = [k \in 1..n |-> x[k]]
  BY <1>1
<1>3. Len(x) = n
  BY <1>2, Listed
<1> QED BY <1>1, <1>2, <1>3

(* The messages of both kinds, before they are read. *)
LEMMA CreditListsType ==
  ASSUME NEW A, A \subseteq Int, NEW cs \in T!CreditLists(A)
  PROVE  /\ Len(cs) \in Nat /\ DOMAIN cs = 1..Len(cs)
         /\ cs = [k \in 1..Len(cs) |-> T!Credit(cs[k].account, cs[k].amount)]
         /\ \A k \in DOMAIN cs : cs[k].amount \in A /\ cs[k].amount \in Int
<1> DEFINE V == {T!Credit(acc, amt) : acc \in Account, amt \in A}
<1>1. MaxTxCredits \in Nat
  BY PartsAssumption DEF T!TransactionsAssumption
<1>2. cs \in T!Lists(V, MaxTxCredits)
  BY DEF T!CreditLists
<1>3. \A v \in V : v = T!Credit(v.account, v.amount) /\ v.amount \in A
  BY DEF T!Credit
<1> HIDE DEF V
<1>4. /\ Len(cs) \in Nat /\ DOMAIN cs = 1..Len(cs) /\ cs = [k \in 1..Len(cs) |-> cs[k]]
      /\ \A k \in DOMAIN cs : cs[k] \in V
  BY <1>1, <1>2, ListsType
<1> QED BY <1>3, <1>4

(* Parts has its own name for the size of a set in a transaction. *)
LEMMA TxCardinality == \A X : T!Cardinality(X) = Cardinality(X)
  BY DEF T!Cardinality, Cardinality

(* create_transaction: the c-th negative credit has the c-th signature.    *)
LEMMA CreateSigns ==
  ASSUME NEW cs \in T!CreditLists(T!Ints)
  PROVE  /\ Message(T!Create(cs)) /\ Signed(T!Create(cs), Len(cs))
         /\ AllTaken(cs) = cs /\ T!Create(cs).credits = cs /\ T!Create(cs).form = "canonical"
<1> DEFINE n == Len(cs)
           t == T!Create(cs)
           N == T!Negatives(cs)
           data == T!Data(cs, "canonical")
           signer(c) == CHOOSE k \in N : T!Cardinality({j \in N : j <= k}) = c
<1>0. T!Ints \subseteq Int
  BY PartsAssumption DEF T!Ints, T!TransactionsAssumption
<1>1. /\ n \in Nat /\ DOMAIN cs = 1..n
      /\ cs = [k \in 1..n |-> T!Credit(cs[k].account, cs[k].amount)]
      /\ \A k \in DOMAIN cs : cs[k].amount \in T!Ints /\ cs[k].amount \in Int
  BY <1>0, CreditListsType
<1>2. \A k \in 1..n : T!ToInt(cs[k].amount) = cs[k].amount
  BY <1>1 DEF T!Ints
<1>20. AllTaken(cs) = cs
  <2>1. AllTaken(cs) = [k \in 1..n |-> T!Credit(cs[k].account, T!ToInt(cs[k].amount))]
    BY <1>1 DEF AllTaken, Taken
  <2> QED BY <1>1, <1>2, <2>1
<1>3. \A k \in 1..n : Pays(cs[k]) <=> k \in N
  BY <1>1, <1>2 DEF Pays, T!Negatives
<1>4. N = Paying(cs, n)
  BY <1>1, <1>3 DEF Paying, T!Negatives
<1>5. \A k \in 1..n : {j \in N : j <= k} = Paying(cs, k)
  BY <1>1, <1>4 DEF Paying
<1>6. /\ t = [credits |-> cs, form |-> "canonical", signatures |-> t.signatures]
      /\ t.credits = cs /\ t.form = "canonical"
      /\ t.signatures = [c \in 1..Rank(cs, n) |-> T!Signature(cs[signer(c)].account, data)]
  <2>1. t = [credits |-> cs, form |-> "canonical",
             signatures |-> [c \in 1..T!Cardinality(N) |-> T!Signature(cs[signer(c)].account, data)]]
    BY DEF T!Create
  <2>2. T!Cardinality(N) = Rank(cs, n)
    BY TxCardinality, <1>4 DEF Rank
  <2> HIDE DEF t, data, signer
  <2> QED BY <2>1, <2>2
<1>60. T!DataOf(t) = data
  BY <1>6 DEF T!DataOf
<1>7. Rank(cs, n) \in Nat
  BY <1>1, RankType
<1>8. Message(t)
  <2>1. /\ t.credits = cs /\ DOMAIN t.signatures = 1..Rank(cs, n)
        /\ t.signatures = [c \in 1..Rank(cs, n) |-> t.signatures[c]]
    BY <1>6
  <2>2. Len(t.signatures) = Rank(cs, n)
    BY <1>7, <2>1, Listed
  <2>3. \A c \in 1..Rank(cs, n) : t.signatures[c] = T!Signature(t.signatures[c].by, t.signatures[c].over)
    BY <1>6 DEF T!Signature
  <2> QED BY <1>1, <1>6, <1>7, <2>1, <2>2, <2>3 DEF Message
<1>9. Signed(t, n)
  <2> SUFFICES ASSUME NEW k \in 1..n, Pays(cs[k])
               PROVE  /\ Rank(cs, k) \in 1..Rank(cs, n)
                      /\ signer(Rank(cs, k)) = k
    <3> HIDE DEF t, signer, data
    <3> QED BY <1>6, <1>60 DEF Signed
  <2>1. k \in N /\ T!Cardinality({j \in N : j <= k}) = Rank(cs, k)
    BY TxCardinality, <1>3, <1>5 DEF Rank
  <2>2. ASSUME NEW m \in N, T!Cardinality({j \in N : j <= m}) = Rank(cs, k) PROVE m = k
    <3>1. m \in 1..n /\ Rank(cs, m) = Rank(cs, k) /\ Pays(cs[m])
      BY TxCardinality, <1>3, <1>4, <1>5, <2>2 DEF Rank, Paying
    <3>2. Rank(cs, m) \in Nat /\ Rank(cs, k) \in Nat /\ m \in Nat /\ k \in Nat
      BY <1>1, <3>1, RankType
    <3>3. ~ (m < k) /\ ~ (k < m)
      <4>1. m < k => Rank(cs, m) < Rank(cs, k)
        BY <3>2, RankGrows
      <4>2. k < m => Rank(cs, k) < Rank(cs, m)
        BY <3>1, <3>2, RankGrows
      <4> QED BY <3>1, <3>2, <4>1, <4>2
    <3> QED BY <3>2, <3>3
  <2>3. signer(Rank(cs, k)) = k
    BY <2>1, <2>2
  <2>4. Rank(cs, k) <= Rank(cs, n) /\ Rank(cs, 0) < Rank(cs, k) /\ Rank(cs, 0) = 0
    <3>1. k \in Nat /\ 0 < k /\ k <= n /\ 0 \in Nat
      BY <1>1
    <3>2. Rank(cs, k) <= Rank(cs, n)
      BY <1>1, <3>1, RankGrows
    <3>3. Rank(cs, 0) < Rank(cs, k)
      BY <3>1, RankGrows
    <3>4. Rank(cs, 0) = 0
      BY RankSteps
    <3> QED BY <3>2, <3>3, <3>4
  <2>5. Rank(cs, k) \in Nat
    BY <1>1, RankType
  <2>6. Rank(cs, k) \in 1..Rank(cs, n)
    <3> HIDE DEF n
    <3> QED BY <1>7, <2>4, <2>5
  <2> QED BY <2>3, <2>6
<1> QED BY <1>6, <1>8, <1>9, <1>20

(* A reader has read nothing at first. *)
LEMMA TxInit == Init /\ part = "transaction" => TxInv
<1> SUFFICES ASSUME Init, part = "transaction" PROVE TxInv
  OBVIOUS
<1>1. T!Init
  BY DEF Init
<1>2. /\ s3 = s1 /\ s5 = 1 /\ s6 = 0 /\ s7 = <<>>
      /\ s8 = [k \in DOMAIN s1.credits |-> T!NoSignature] /\ s9 = "running" /\ s10 = 0 /\ s2 \in BOOLEAN
  BY <1>1 DEF T!Init
<1>3. Message(s1) /\ (s2 => T!SameBytes /\ Signed(s1, Len(s1.credits)))
  <2>1. CASE s2 /\ s1 \in {T!Create(cs) : cs \in T!CreditLists(T!Ints)}
    <3>1. PICK cs \in T!CreditLists(T!Ints) : s1 = T!Create(cs)
      BY <2>1
    <3>2. /\ Message(s1) /\ Signed(s1, Len(cs))
          /\ AllTaken(cs) = cs /\ s1.credits = cs /\ s1.form = "canonical"
      BY <3>1, CreateSigns
    <3>3. T!SameBytes
      BY <1>2, <3>2, FirstIs DEF T!SameBytes, T!DataOf
    <3> QED BY <3>2, <3>3
  <2>2. CASE ~s2 /\ \E cs \in T!CreditLists(WireAmount) : s1 \in T!FromWire(cs)
    <3>1. PICK cs \in T!CreditLists(WireAmount) : s1 \in T!FromWire(cs)
      BY <2>2
    <3> DEFINE V == {T!Signature(acc, T!Data(cs, other)) : acc \in Account, other \in T!Form}
                      \cup {T!NoSignature}
    <3>2. /\ s1.signatures \in T!Lists(V, MaxTxCredits)
          /\ s1 = [credits |-> cs, form |-> s1.form, signatures |-> s1.signatures]
      BY <3>1 DEF T!FromWire
    <3>3. \A v \in V : v = T!Signature(v.by, v.over)
      BY DEF T!Signature, T!NoSignature
    <3> HIDE DEF V
    <3>4. MaxTxCredits \in Nat
      BY PartsAssumption DEF T!TransactionsAssumption
    <3>5. /\ Len(s1.signatures) \in Nat /\ DOMAIN s1.signatures = 1..Len(s1.signatures)
          /\ s1.signatures = [k \in 1..Len(s1.signatures) |-> s1.signatures[k]]
          /\ \A k \in DOMAIN s1.signatures : s1.signatures[k] \in V
      BY <3>2, <3>4, ListsType
    <3>6. /\ Len(cs) \in Nat /\ DOMAIN cs = 1..Len(cs)
          /\ cs = [k \in 1..Len(cs) |-> T!Credit(cs[k].account, cs[k].amount)]
          /\ \A k \in 1..Len(cs) : cs[k].amount \in Int
      <4>1. WireAmount \subseteq Int
        BY PartsAssumption DEF T!TransactionsAssumption
      <4> QED BY <4>1, CreditListsType
    <3> QED BY <2>2, <3>2, <3>3, <3>5, <3>6 DEF Message
  <2> QED BY <1>1, <2>1, <2>2 DEF T!Init
<1>4. Rank(s1.credits, 0) = 0
  BY RankSteps
<1>5. Reading
  BY <1>2, <1>3, <1>4 DEF Reading, Message
<1>6. Kept
  BY <1>2, <1>3 DEF Kept, Message
<1>7. AllSigned /\ NoExcess /\ Same
  BY <1>2, <1>3 DEF AllSigned, Trusted, Signed, NoExcess, Same
<1> QED BY <1>3, <1>5, <1>6, <1>7 DEF TxInv

(* The invariant holds throughout. *)
LEMMA TxAlways == Spec => [](part = "transaction" => TxInv)
<1>1. Init => (part = "transaction" => TxInv)
  BY TxInit
<1>2. (part = "transaction" => TxInv) /\ [Next]_vars => (part = "transaction" => TxInv)'
  <2>1. [Next]_vars => UNCHANGED part
    BY DEF Next, vars
  <2> QED BY <2>1, TxPart, TxStep
<1> QED BY <1>1, <1>2, PTL DEF Spec

(* Both readers accept what create_transaction makes, and find in it the   *)
(* accounts and amounts it was made from.                                  *)
THEOREM CreatedIsAccepted == Spec => []CreatedAccepted
<1>1. (part = "transaction" => TxInv) => CreatedAccepted
  <2> SUFFICES ASSUME TxInv, s2 PROVE s9 \in {"running", "true"} /\ (s9 = "true" => s7 = s3.credits)
    BY DEF CreatedAccepted, T!CreatedAccepted
  <2>0. Message(s1) /\ Reading /\ AllSigned /\ Same
    BY DEF TxInv
  <2>1. s9 \notin {"false", "crash"} /\ T!SameBytes
    BY <2>0 DEF AllSigned, Trusted, Same
  <2>2. AllTaken(s3.credits) = s3.credits
    BY <2>1, FirstIs DEF T!SameBytes, T!DataOf, T!Data
  <2>3. s9 = "true" => s7 = AllTaken(s3.credits)
    BY <2>0, ReadFirst DEF Reading
  <2>4. s9 \in {"running", "true", "false", "crash"}
    BY <2>0 DEF Reading
  <2> QED BY <2>1, <2>2, <2>3, <2>4
<1> QED BY <1>1, TxAlways, PTL

(* No reader accepts a transaction with a credit that reads negative and   *)
(* has no signature of that account over the bytes of these credits.       *)
THEOREM AcceptedIsSigned == Spec => []AcceptedSigned
<1>1. (part = "transaction" => TxInv) => AcceptedSigned
  <2> SUFFICES ASSUME TxInv, s9 = "true", NEW k \in T!Negatives(s7)
               PROVE  \E j \in DOMAIN s1.signatures :
                        s1.signatures[j] = T!Signature(s7[k].account, T!DataOf(s1))
    BY DEF AcceptedSigned, T!AcceptedSigned
  <2>1. /\ k \in 1..(s5 - 1) /\ Pays(s1.credits[k])
        /\ s7[k].account = s1.credits[k].account
    BY DEF TxInv, Reading, T!Negatives, T!Credit, Pays, Taken
  <2> QED BY <2>1 DEF TxInv, AllSigned, Signed
<1> QED BY <1>1, TxAlways, PTL

(* What comes of a transaction that was accepted and is written again by   *)
(* bytes(): it is accepted exactly if it needs no signature or its credits *)
(* were serialised into the bytes that came, and is then written the same. *)
THEOREM RewritesAreStable == Spec => []RewriteStable
<1>1. (part = "transaction" => TxInv) => RewriteStable
  <2> SUFFICES ASSUME TxInv, s10 > 0
               PROVE  /\ s9 = "true" => T!Written = s1
                      /\ s9 \in {"false", "crash"} => ~Calm /\ ~T!SameBytes
                      /\ s9 = "true" => Calm \/ T!SameBytes
    BY DEF RewriteStable, T!RewriteStable, Calm
  <2> DEFINE n == Len(s1.credits)
  <2>0. Message(s1) /\ Reading /\ Kept /\ AllSigned /\ NoExcess /\ Same
    BY DEF TxInv
  <2>1. s9 \in {"false", "crash"} => ~Calm /\ ~T!SameBytes
    BY <2>0 DEF AllSigned, Trusted
  <2>2. ASSUME s9 = "true" PROVE T!Written = s1 /\ (Calm \/ T!SameBytes)
    <3>1. s5 = n + 1 /\ n \in Nat /\ s5 - 1 = n
      BY <2>0, <2>2 DEF Reading, Message
    <3>2. s7 = s1.credits /\ s1.credits = AllTaken(s3.credits) /\ s1.form = "canonical"
      BY <2>0, <3>1, ReadFirst DEF Same
    <3>3. s6 = Rank(s1.credits, n) /\ s6 \in Nat
      BY <2>0, <3>1, RankType DEF Reading
    <3>4. /\ s1.signatures = [k \in 1..n |-> s1.signatures[k]]
          /\ \A k \in 1..n : ~ (k <= s6) => s1.signatures[k] = T!NoSignature
          /\ DOMAIN s1.signatures = 1..n
      BY <2>0, <3>1, <3>3 DEF NoExcess, Message
    <3>5. s8 = [k \in 1..n |-> IF k <= s6 THEN s1.signatures[k] ELSE T!NoSignature]
      BY <2>0 DEF Kept
    <3>6. \A k \in 1..n : (IF k <= s6 THEN s1.signatures[k] ELSE T!NoSignature) = s1.signatures[k]
      BY <3>4
    <3>7. s8 = s1.signatures
      BY <3>4, <3>5, <3>6
    <3>8. ASSUME ~T!SameBytes PROVE Calm
      <4>1. s6 = 0
        <5> SUFFICES ASSUME s6 # 0 PROVE FALSE
          OBVIOUS
        <5>1. 1 \in 1..s6 /\ 1 \in DOMAIN s1.signatures
          BY <2>0, <3>3 DEF Kept, Message
        <5> QED BY <2>0, <3>8, <5>1 DEF Kept, NoExcess
      <4>2. Paying(s1.credits, n) = {}
        BY <3>1, <3>3, <4>1, RankType, FS_EmptySet DEF Rank
      <4>3. \A k \in 1..n : ~ (T!ToInt(s1.credits[k].amount) < 0)
        BY <4>2 DEF Paying, Pays
      <4>4. AllTaken(s1.credits) = s1.credits
        BY <2>0, <3>1, <3>2, ReadAll
      <4>5. DOMAIN s1.credits = 1..n /\ \A k \in 1..n : s1.credits[k].amount = T!ToInt(s1.credits[k].amount)
        <5>1. \A k \in 1..n : AllTaken(s1.credits)[k].amount = T!ToInt(s1.credits[k].amount)
          BY <2>0, TakenOnce
        <5>2. DOMAIN s1.credits = 1..n
          BY <2>0 DEF Message
        <5> QED BY <4>4, <5>1, <5>2
      <4> QED BY <3>2, <4>3, <4>5, FirstIs DEF Calm, T!Negatives
    <3> QED BY <2>0, <3>2, <3>7, <3>8 DEF T!Written, Message
  <2> QED BY <2>1, <2>2
<1> QED BY <1>1, TxAlways, PTL
===============================================================================
