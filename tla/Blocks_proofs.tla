---------------------------- MODULE Blocks_proofs ----------------------------
(***************************************************************************)
(* mark_blocks (MarkBlocks), for every set of hashes and every graph of    *)
(* blocks without a cycle: at every moment the heights that are set fit    *)
(* together, and it leaves no block out when no predecessor is missing.    *)
(* As a part, its blocks, heights, todo, list and pc are s1 to s5.         *)
(***************************************************************************)
EXTENDS Parts, Integers, Sequences, TLAPS

(* The headers, which do not change. *)
Links ==
  /\ DOMAIN s1 \subseteq BlockHash
  /\ s1 \in [DOMAIN s1 -> BlockHash \cup {zero_block}]
  /\ M!Acyclic(s1)

(* The walk follows the links over blocks without a height.  Only where it  *)
(* starts may there be one already: it then goes no further.                *)
Walked ==
  /\ \A k \in 1..(Len(s4) - 1) : s1[s4[k]] = s4[k + 1]
  /\ \A k \in 2..Len(s4) : s2[s4[k]] = 0
  /\ s4 # <<>> => s2[s4[1]] # -1
  /\ Len(s4) > 1 => s2[s4[1]] = 0

(* A block the outer loop has come to has its height or is being walked.   *)
Visited == \A b \in DOMAIN s1 \ s3 : s2[b] # 0 \/ b \in M!On(s4)

(* When no predecessor is missing nothing is marked -1, and the outer loop *)
(* ends only when it has come to every block.                              *)
Whole ==
  (\A b \in DOMAIN s1 : s1[b] \in DOMAIN s1 \cup {zero_block}) =>
    /\ \A b \in DOMAIN s1 : s2[b] # -1
    /\ s5 = "done" => s3 = {}

MarkInv == Links /\ M!TypeOK /\ Walked /\ M!HeightsFit /\ Visited /\ Whole

(* What a step of all parts is for this one.                               *)
LEMMA MarkPart ==
  part = "mark_blocks" /\ [Next]_vars =>
    part' = part /\ (M!Next \/ UNCHANGED <<s1, s2, s3, s4, s5>>)
  BY DEF Next, vars

(* Nothing is marked at first.                                             *)
LEMMA MarkInit == Init /\ part = "mark_blocks" => MarkInv
<1> SUFFICES ASSUME Init, part = "mark_blocks" PROVE MarkInv
  OBVIOUS
<1>1. M!Init
  BY DEF Init
<1>2. Links
  BY <1>1 DEF M!Init, Links
<1>3. s2 = [b \in DOMAIN s1 |-> 0] /\ s3 = DOMAIN s1 /\ s4 = <<>> /\ s5 = "outer"
  BY <1>1 DEF M!Init, M!Known
<1>4. M!TypeOK
  BY <1>3 DEF M!TypeOK, M!Known
<1>5. Walked /\ Visited /\ Whole
  BY <1>3 DEF Walked, Visited, Whole
<1>6. M!HeightsFit
  BY <1>3 DEF M!HeightsFit, M!Known
<1> QED BY <1>2, <1>4, <1>5, <1>6 DEF MarkInv

(* No block is twice on a walk: that would be a cycle.                     *)
LEMMA NoTurn ==
  ASSUME Links, M!TypeOK, Walked
  PROVE  \A j, k \in DOMAIN s4 : s4[j] = s4[k] => j = k
<1> SUFFICES ASSUME NEW j \in DOMAIN s4, NEW k \in DOMAIN s4, s4[j] = s4[k], j < k PROVE FALSE
  BY DEF M!TypeOK
<1> DEFINE Turn == {s4[m] : m \in j..(k - 1)}
<1>0. s4 \in Seq(DOMAIN s1)
  BY DEF M!TypeOK, M!Known
<1>1. Turn \in SUBSET DOMAIN s1 /\ s4[j] \in Turn
  BY <1>0
<1>2. PICK b \in Turn : s1[b] \notin Turn
  BY <1>1 DEF Links, M!Acyclic
<1>3. PICK m \in j..(k - 1) : b = s4[m]
  BY <1>2
<1>4. s1[b] = s4[m + 1] /\ m + 1 \in j..k
  BY <1>0, <1>3 DEF Walked
<1> QED BY <1>0, <1>1, <1>2, <1>4

(* The marks of a walk, from its end on, are consecutive.                  *)
LEMMA MarksConsecutive ==
  ASSUME Links, M!TypeOK, Walked, NEW h \in Nat
  PROVE  /\ M!MarkAbove(h) \in [DOMAIN s1 -> Nat \cup {-1}]
         /\ \A b \in DOMAIN s1 : b \notin M!On(s4) => M!MarkAbove(h)[b] = s2[b]
         /\ \A k \in DOMAIN s4 : M!MarkAbove(h)[s4[k]] = h + Len(s4) + 1 - k
<1>0. s4 \in Seq(DOMAIN s1) /\ s2 \in [DOMAIN s1 -> Nat \cup {-1}]
  BY DEF M!TypeOK, M!Known
<1>1. \A b \in DOMAIN s1 : b \notin M!On(s4) => M!MarkAbove(h)[b] = s2[b]
  BY DEF M!MarkAbove, M!Known
<1>2. ASSUME NEW k \in DOMAIN s4 PROVE M!MarkAbove(h)[s4[k]] = h + Len(s4) + 1 - k
  <2>1. s4[k] \in DOMAIN s1 /\ s4[k] \in M!On(s4)
    BY <1>0 DEF M!On
  <2>2. (CHOOSE m \in DOMAIN s4 : s4[m] = s4[k]) = k
    BY NoTurn
  <2> QED BY <2>1, <2>2 DEF M!MarkAbove, M!Known
<1>3. ASSUME NEW b \in DOMAIN s1 PROVE M!MarkAbove(h)[b] \in Nat \cup {-1}
  <2>1. CASE b \in M!On(s4)
    <3>1. PICK k \in DOMAIN s4 : b = s4[k]
      BY <2>1 DEF M!On
    <3> QED BY <1>0, <1>2, <3>1
  <2> QED BY <1>0, <1>1, <2>1
<1>4. M!MarkAbove(h) = [b \in DOMAIN s1 |-> M!MarkAbove(h)[b]]
  BY DEF M!MarkAbove, M!Known
<1> QED BY <1>1, <1>2, <1>3, <1>4

(* What the walk ends with when it reaches a height h, or the zero block    *)
(* with h = 0.                                                             *)
LEMMA CloseAbove ==
  ASSUME MarkInv, s5 = "inner", NEW h \in Nat,
         \/ M!prev_hash = zero_block /\ h = 0
         \/ M!prev_hash \in DOMAIN s1 /\ s2[M!prev_hash] = h /\ h > 0,
         M!Close(M!MarkAbove(h))
  PROVE  MarkInv'
<1> DEFINE m == M!MarkAbove(h)
           z == Len(s4)
<1> USE PartsAssumption DEF M!MarkAssumption
<1>0. /\ s4 \in Seq(DOMAIN s1) /\ s2 \in [DOMAIN s1 -> Nat \cup {-1}] /\ z \in Nat \ {0}
      /\ M!prev_hash = s1[s4[z]] /\ zero_block \notin DOMAIN s1
      /\ Links /\ M!TypeOK /\ Walked /\ Visited /\ Whole
  BY DEF MarkInv, M!TypeOK, M!Known, M!prev_hash, M!cur, Links
<1>w. /\ \A k \in 1..(z - 1) : s1[s4[k]] = s4[k + 1]
      /\ \A k \in 2..z : s2[s4[k]] = 0
      /\ s2[s4[1]] # -1
      /\ z > 1 => s2[s4[1]] = 0
  BY <1>0 DEF Walked
<1>1. /\ m \in [DOMAIN s1 -> Nat \cup {-1}]
      /\ \A b \in DOMAIN s1 : b \notin M!On(s4) => m[b] = s2[b]
      /\ \A k \in DOMAIN s4 : m[s4[k]] = h + z + 1 - k
  BY <1>0, MarksConsecutive
<1>2. s2' = m /\ s4' = <<>> /\ s5' = "outer" /\ UNCHANGED <<s1, s3>>
  BY DEF M!Close
<1> HIDE DEF m
<1>3. \A b \in M!On(s4) : \E k \in DOMAIN s4 : b = s4[k]
  BY DEF M!On
<1>4. \A b \in M!On(s4) : b \in DOMAIN s1 /\ s2[b] \in Nat /\ m[b] > 0
  <2> SUFFICES ASSUME NEW k \in DOMAIN s4
               PROVE  s4[k] \in DOMAIN s1 /\ s2[s4[k]] \in Nat /\ m[s4[k]] > 0
    BY <1>3
  <2>1. k \in 1..z /\ s4[k] \in DOMAIN s1
    BY <1>0
  <2>2. s2[s4[k]] # -1
    BY <1>w, <2>1
  <2>3. m[s4[k]] = h + z + 1 - k
    BY <1>1
  <2> QED BY <1>0, <2>1, <2>2, <2>3
<1>5. \A b \in DOMAIN s1 : s2[b] > 0 => m[b] = s2[b]
  <2> SUFFICES ASSUME NEW b \in DOMAIN s1, s2[b] > 0, b \in M!On(s4) PROVE m[b] = s2[b]
    BY <1>1
  <2>1. PICK k \in DOMAIN s4 : b = s4[k]
    BY <1>3
  <2>2. k = 1 /\ z = 1
    <3>1. k \in 1..z /\ s2[s4[k]] # 0
      BY <1>0, <2>1
    <3>2. k \notin 2..z
      BY <1>w, <3>1
    <3>3. k = 1
      BY <1>0, <3>1, <3>2
    <3>4. z \in Nat \ {0} /\ ~ (z > 1)
      BY <1>0, <1>w, <3>1, <3>3
    <3>5. z = 1
      <4> HIDE DEF z
      <4> QED BY <3>4
    <3> QED BY <3>3, <3>5
  <2>3. \/ s1[b] = zero_block /\ s2[b] = 1
        \/ s1[b] \in DOMAIN s1 /\ s2[s1[b]] > 0 /\ s2[b] = s2[s1[b]] + 1
    BY DEF MarkInv, M!HeightsFit, M!Known
  <2> QED BY <1>0, <1>1, <2>1, <2>2, <2>3
<1>6. \A b \in DOMAIN s1 : (s2[b] = -1 <=> m[b] = -1) /\ (s2[b] > 0 => m[b] > 0)
  BY <1>0, <1>1, <1>4, <1>5
<1>7. M!TypeOK'
  BY <1>0, <1>1, <1>2 DEF M!TypeOK, M!Known
<1>8. Links' /\ Walked'
  <2>1. Links'
    BY <1>0, <1>2 DEF Links, M!Acyclic
  <2>2. Walked'
    BY <1>2 DEF Walked
  <2> QED BY <2>1, <2>2
<1>9. Visited'
  BY <1>0, <1>2, <1>4, <1>6 DEF Visited, M!On
<1>10. Whole'
  BY <1>0, <1>2, <1>6 DEF Whole
<1>11. ASSUME NEW b \in DOMAIN s1, m[b] > 0
       PROVE  \/ s1[b] = zero_block /\ m[b] = 1
              \/ s1[b] \in DOMAIN s1 /\ m[s1[b]] > 0 /\ m[b] = m[s1[b]] + 1
  <2>1. CASE b \in M!On(s4)
    <3>1. PICK k \in DOMAIN s4 : b = s4[k]
      BY <1>3, <2>1
    <3>2. CASE k < z
      <4>1. s1[b] = s4[k + 1] /\ k + 1 \in DOMAIN s4 /\ k \in Nat
        BY <1>0, <1>w, <3>1, <3>2
      <4>2. m[b] = h + z + 1 - k /\ m[s1[b]] = h + z + 1 - (k + 1) /\ s1[b] \in DOMAIN s1
        BY <1>0, <1>1, <3>1, <4>1
      <4> QED BY <1>0, <3>2, <4>1, <4>2
    <3>3. CASE k = z
      <4>1. s1[b] = M!prev_hash /\ m[b] = h + 1
        BY <1>0, <1>1, <3>1, <3>3
      <4> QED BY <1>5, <4>1
    <3> QED BY <1>0, <3>1, <3>2, <3>3
  <2>2. CASE b \notin M!On(s4)
    <3>1. m[b] = s2[b]
      BY <1>1, <2>2
    <3>2. \/ s1[b] = zero_block /\ s2[b] = 1
          \/ s1[b] \in DOMAIN s1 /\ s2[s1[b]] > 0 /\ s2[b] = s2[s1[b]] + 1
      BY <1>11, <3>1 DEF MarkInv, M!HeightsFit, M!Known
    <3> QED BY <1>5, <3>1, <3>2
  <2> QED BY <2>1, <2>2
<1>12. ASSUME NEW b \in DOMAIN s1, m[b] = -1
       PROVE  \/ s1[b] \notin DOMAIN s1 \cup {zero_block}
              \/ s1[b] \in DOMAIN s1 /\ m[s1[b]] = -1
  BY <1>6, <1>12 DEF MarkInv, M!HeightsFit, M!Known
<1>13. M!HeightsFit'
  BY <1>2, <1>11, <1>12 DEF M!HeightsFit, M!Known
<1> QED BY <1>7, <1>8, <1>9, <1>10, <1>13 DEF MarkInv

(* What the walk ends with when it comes to nothing that is connected.     *)
LEMMA CloseUnconnected ==
  ASSUME MarkInv, s5 = "inner",
         \/ M!prev_hash \notin DOMAIN s1 \cup {zero_block}
         \/ M!prev_hash \in DOMAIN s1 /\ s2[M!prev_hash] = -1,
         M!Close(M!MarkUnconnected)
  PROVE  MarkInv'
<1> DEFINE m == M!MarkUnconnected
           z == Len(s4)
<1> USE PartsAssumption DEF M!MarkAssumption
<1>0. /\ s4 \in Seq(DOMAIN s1) /\ s2 \in [DOMAIN s1 -> Nat \cup {-1}] /\ z \in Nat \ {0}
      /\ M!prev_hash = s1[s4[z]] /\ zero_block \notin DOMAIN s1
      /\ Links /\ M!TypeOK /\ Walked /\ Visited /\ Whole
  BY DEF MarkInv, M!TypeOK, M!Known, M!prev_hash, M!cur, Links
<1>w. /\ \A k \in 1..(z - 1) : s1[s4[k]] = s4[k + 1]
      /\ \A k \in 2..z : s2[s4[k]] = 0
      /\ s2[s4[1]] # -1
      /\ z > 1 => s2[s4[1]] = 0
  BY <1>0 DEF Walked
<1>1. /\ m \in [DOMAIN s1 -> Nat \cup {-1}]
      /\ \A b \in DOMAIN s1 : m[b] = IF b \in M!On(s4) THEN -1 ELSE s2[b]
  BY <1>0 DEF M!MarkUnconnected, M!Known
<1>2. s2' = m /\ s4' = <<>> /\ s5' = "outer" /\ UNCHANGED <<s1, s3>>
  BY DEF M!Close
<1> HIDE DEF m
<1>3. \A b \in M!On(s4) : \E k \in DOMAIN s4 : b = s4[k]
  BY DEF M!On
<1>4. \A b \in M!On(s4) : b \in DOMAIN s1 /\ s2[b] = 0
  <2> SUFFICES ASSUME NEW k \in DOMAIN s4 PROVE s4[k] \in DOMAIN s1 /\ s2[s4[k]] = 0
    BY <1>3
  <2>1. k \in 1..z /\ s4[k] \in DOMAIN s1
    BY <1>0
  <2>2. CASE k = 1 /\ z = 1
    <3>1. s2[s4[1]] > 0 => s1[s4[1]] = zero_block \/ s2[s1[s4[1]]] > 0
      BY <2>1, <2>2 DEF MarkInv, M!HeightsFit, M!Known
    <3>2. M!prev_hash = s1[s4[1]] /\ s2[s4[1]] # -1
      BY <1>0, <2>2 DEF Walked
    <3>3. ~ (s2[s4[1]] > 0)
      BY <1>0, <2>1, <2>2, <3>1, <3>2 DEF MarkInv, M!HeightsFit, M!Known
    <3> QED BY <1>0, <2>1, <2>2, <3>2, <3>3
  <2>3. CASE k # 1
    <3>1. k \in 2..z
      BY <1>0, <2>1, <2>3
    <3> QED BY <1>w, <2>1, <3>1
  <2>4. CASE z # 1
    <3>1. z > 1
      <4>1. z \in Nat \ {0}
        BY <1>0
      <4> HIDE DEF z
      <4> QED BY <2>4, <4>1
    <3> QED BY <1>w, <2>1, <2>3, <3>1
  <2> QED BY <2>2, <2>3, <2>4
<1>5. M!TypeOK'
  BY <1>0, <1>1, <1>2 DEF M!TypeOK, M!Known
<1>6. Links' /\ Walked'
  <2>1. Links'
    BY <1>0, <1>2 DEF Links, M!Acyclic
  <2>2. Walked'
    BY <1>2 DEF Walked
  <2> QED BY <2>1, <2>2
<1>7. Visited'
  BY <1>0, <1>1, <1>2 DEF Visited, M!On
<1>8. Whole'
  BY <1>0, <1>2 DEF Whole, Links
<1>9. ASSUME NEW b \in DOMAIN s1, m[b] > 0
      PROVE  \/ s1[b] = zero_block /\ m[b] = 1
             \/ s1[b] \in DOMAIN s1 /\ m[s1[b]] > 0 /\ m[b] = m[s1[b]] + 1
  <2>1. m[b] = s2[b]
    BY <1>1, <1>9
  <2>2. \/ s1[b] = zero_block /\ s2[b] = 1
        \/ s1[b] \in DOMAIN s1 /\ s2[s1[b]] > 0 /\ s2[b] = s2[s1[b]] + 1
    BY <1>9, <2>1 DEF MarkInv, M!HeightsFit, M!Known
  <2> QED BY <1>1, <1>4, <2>1, <2>2
<1>10. ASSUME NEW b \in DOMAIN s1, m[b] = -1
       PROVE  \/ s1[b] \notin DOMAIN s1 \cup {zero_block}
              \/ s1[b] \in DOMAIN s1 /\ m[s1[b]] = -1
  <2>1. CASE b \in M!On(s4)
    <3>1. PICK k \in DOMAIN s4 : b = s4[k]
      BY <1>3, <2>1
    <3>2. CASE k < z
      <4>1. s1[b] = s4[k + 1] /\ k + 1 \in DOMAIN s4
        BY <1>0, <1>w, <3>1, <3>2
      <4> QED BY <1>1, <1>4, <4>1 DEF M!On
    <3>3. CASE k = z
      BY <1>0, <1>1, <3>1, <3>3
    <3> QED BY <1>0, <3>1, <3>2, <3>3
  <2>2. CASE b \notin M!On(s4)
    <3>1. s2[b] = -1
      BY <1>1, <1>10, <2>2
    <3> QED BY <1>1, <3>1 DEF MarkInv, M!HeightsFit, M!Known
  <2> QED BY <2>1, <2>2
<1>11. M!HeightsFit'
  BY <1>2, <1>9, <1>10 DEF M!HeightsFit, M!Known
<1> QED BY <1>5, <1>6, <1>7, <1>8, <1>11 DEF MarkInv

(* Every step of mark_blocks.                                              *)
LEMMA MarkStep == MarkInv /\ (M!Next \/ UNCHANGED <<s1, s2, s3, s4, s5>>) => MarkInv'
<1> SUFFICES ASSUME MarkInv, M!Next \/ UNCHANGED <<s1, s2, s3, s4, s5>> PROVE MarkInv'
  OBVIOUS
<1> USE PartsAssumption DEF M!MarkAssumption
<1>0. /\ s4 \in Seq(DOMAIN s1) /\ s2 \in [DOMAIN s1 -> Nat \cup {-1}] /\ s3 \subseteq DOMAIN s1
      /\ zero_block \notin DOMAIN s1
      /\ s5 = "inner" <=> s4 # <<>>
      /\ Links /\ M!TypeOK /\ Walked /\ Visited /\ Whole
  BY DEF MarkInv, M!TypeOK, M!Known, Links
<1>1. ASSUME NEW b \in BlockHash, M!Visit(b) PROVE MarkInv'
  <2>1. /\ s5 = "outer" /\ b \in s3 /\ UNCHANGED <<s1, s2>>
        /\ \/ s2[b] = -1 /\ s5' = "done" /\ UNCHANGED <<s3, s4>>
           \/ s2[b] # -1 /\ s5' = "inner" /\ s4' = <<b>> /\ s3' = s3 \ {b}
    BY <1>1 DEF M!Visit
  <2>2. M!TypeOK'
    <3>1. <<b>> \in Seq(DOMAIN s1) /\ <<b>> # <<>> /\ s4 = <<>> /\ s3' \subseteq DOMAIN s1
      BY <1>0, <2>1
    <3>3. s4' \in Seq(DOMAIN s1) /\ (s5' = "inner" <=> s4' # <<>>)
      BY <1>0, <2>1, <3>1
    <3>2. s5' \in {"outer", "inner", "done"}
      BY <2>1
    <3> QED BY <1>0, <2>1, <3>1, <3>2, <3>3 DEF M!TypeOK, M!Known
  <2>3. Links' /\ M!HeightsFit'
    BY <2>1 DEF MarkInv, Links, M!Acyclic, M!HeightsFit, M!Known
  <2>4. Walked'
    <3>1. CASE s4' = <<>>
      BY <3>1 DEF Walked
    <3>2. CASE s4' = <<b>> /\ s2[b] # -1
      <4>1. Len(s4') = 1 /\ s4'[1] = b /\ UNCHANGED s2
        BY <2>1, <3>2
      <4> QED BY <3>2, <4>1 DEF Walked
    <3>3. s4 = <<>>
      BY <1>0, <2>1
    <3> QED BY <2>1, <3>1, <3>2, <3>3
  <2>5. Visited'
    BY <1>0, <2>1 DEF Visited, M!On
  <2>6. Whole'
    BY <1>0, <2>1 DEF Whole
  <2> QED BY <2>2, <2>3, <2>4, <2>5, <2>6 DEF MarkInv
<1>2. CASE M!Finish
  <2>1. s5 = "outer" /\ s3 = {} /\ s5' = "done" /\ UNCHANGED <<s1, s2, s3, s4>>
    BY <1>2 DEF M!Finish
  <2>2. M!TypeOK' /\ M!HeightsFit' /\ Links'
    BY <2>1 DEF MarkInv, M!TypeOK, M!HeightsFit, M!Known, Links, M!Acyclic
  <2>3. Walked' /\ Visited' /\ Whole'
    BY <1>0, <2>1 DEF Walked, Visited, M!On, Whole
  <2> QED BY <2>2, <2>3 DEF MarkInv
<1>3. CASE M!ReachZero
  BY <1>3, CloseAbove DEF M!ReachZero
<1>4. CASE M!ReachLost \/ M!ReachUnconnected
  BY <1>4, CloseUnconnected DEF M!ReachLost, M!ReachUnconnected, M!Known
<1>5. CASE M!ReachMarked
  <2>1. /\ s5 = "inner" /\ M!prev_hash \in DOMAIN s1 /\ s2[M!prev_hash] > 0
        /\ M!Close(M!MarkAbove(s2[M!prev_hash])) /\ s2[M!prev_hash] \in Nat
    BY <1>0, <1>5 DEF M!ReachMarked, M!Known
  <2> QED BY <2>1, CloseAbove
<1>6. CASE M!Walk
  <2> DEFINE z == Len(s4)
             p == M!prev_hash
  <2>1. /\ s5 = "inner" /\ p \in DOMAIN s1 /\ s2[p] = 0
        /\ s4' = Append(s4, p) /\ UNCHANGED <<s1, s2, s3, s5>> /\ p = s1[s4[z]]
    BY <1>6 DEF M!Walk, M!Known, M!prev_hash, M!cur
  <2> HIDE DEF p
  <2>2. z \in Nat \ {0} /\ s4[1] \in DOMAIN s1
    BY <1>0, <2>1
  <2>3. s2[s4[1]] = 0
    BY <1>0, <2>1, <2>2 DEF Walked, MarkInv, M!HeightsFit, M!Known
  <2>4. M!TypeOK'
    BY <1>0, <2>1 DEF M!TypeOK, M!Known
  <2>5. Links' /\ M!HeightsFit'
    BY <2>1 DEF MarkInv, Links, M!Acyclic, M!HeightsFit, M!Known
  <2>6. Walked'
    BY <1>0, <2>1, <2>2, <2>3 DEF Walked
  <2>7. Visited'
    BY <1>0, <2>1, <2>2 DEF Visited, M!On
  <2>8. Whole'
    BY <1>0, <2>1 DEF Whole
  <2> QED BY <2>4, <2>5, <2>6, <2>7, <2>8 DEF MarkInv
<1>7. CASE UNCHANGED <<s1, s2, s3, s4, s5>>
  <2>1. Links' /\ M!TypeOK' /\ M!HeightsFit'
    BY <1>7 DEF MarkInv, Links, M!Acyclic, M!TypeOK, M!Known, M!HeightsFit
  <2>2. Walked' /\ Visited' /\ Whole'
    BY <1>0, <1>7 DEF Walked, Visited, M!On, Whole
  <2> QED BY <2>1, <2>2 DEF MarkInv
<1> QED BY <1>1, <1>2, <1>3, <1>4, <1>5, <1>6, <1>7 DEF M!Next

(* When mark_blocks is done and none is missing, each block has a height.  *)
LEMMA MarkInvRooted == MarkInv => M!RootedMarked
<1> SUFFICES ASSUME MarkInv, s5 = "done",
                    \A b \in DOMAIN s1 : s1[b] \in DOMAIN s1 \cup {zero_block},
                    NEW b \in DOMAIN s1
             PROVE  s2[b] > 0
  BY DEF M!RootedMarked, M!Known
<1>1. s4 = <<>> /\ s2[b] \in Nat \cup {-1} /\ s3 = {} /\ s2[b] # -1
  BY DEF MarkInv, M!TypeOK, M!Known, Whole
<1> QED BY <1>1 DEF MarkInv, Visited, M!On

(* The invariant holds throughout, and with it its parts.                  *)
LEMMA MarkAlways == Spec => [](part = "mark_blocks" => MarkInv)
<1>1. Init => (part = "mark_blocks" => MarkInv)
  BY MarkInit
<1>2. (part = "mark_blocks" => MarkInv) /\ [Next]_vars => (part = "mark_blocks" => MarkInv)'
  <2>1. [Next]_vars => UNCHANGED part
    BY DEF Next, vars
  <2> QED BY <2>1, MarkPart, MarkStep
<1> QED BY <1>1, <1>2, PTL DEF Spec

(* mark_blocks: every variable keeps its type, for any graph of blocks.    *)
THEOREM MarkTypes == Spec => []TypeOK
<1>1. (part = "mark_blocks" => MarkInv) => TypeOK
  BY DEF MarkInv, TypeOK
<1> QED BY <1>1, MarkAlways, PTL

(* mark_blocks: at every moment each height that is set is one more than   *)
(* that of the predecessor, and -1 stands only where nothing connects.     *)
THEOREM MarkedHeightsFit == Spec => []HeightsFit
<1>1. (part = "mark_blocks" => MarkInv) => HeightsFit
  BY DEF MarkInv, HeightsFit
<1> QED BY <1>1, MarkAlways, PTL

(* mark_blocks: if no predecessor is missing it returns with a height for  *)
(* every block.                                                            *)
THEOREM MarkedWhole == Spec => []RootedMarked
<1>1. (part = "mark_blocks" => MarkInv) => RootedMarked
  BY MarkInvRooted DEF RootedMarked
<1> QED BY <1>1, MarkAlways, PTL
=============================================================================
