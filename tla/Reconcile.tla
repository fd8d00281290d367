----------------------------- MODULE Reconcile -----------------------------
(***************************************************************************)
(* SetReconsiler of bin/p2p.cc: its user puts filters that peers sent into *)
(* filters, lets the hashes it has pass through them and checks whether    *)
(* the result is the set that hash stands for.  A filter is the set of     *)
(* hashes its has() affirms: at least those it was made of, and by         *)
(* collisions others (Bloom, CopyAgrees).  Here the filters are of peers   *)
(* that have the set.                                                      *)
(***************************************************************************)
EXTENDS Integers, Sequences, FiniteSets, SequencesExt

CONSTANTS
  Element,     \* the hashes, in the order of Bytes
  raw,         \* the string that each of them is
  MaxFilters,  \* bound: filters in use
  None         \* no call of check yet

(* The pairing of hash_vec. *)
H == INSTANCE HashVec WITH hash_set <- None, hashes <- None, inner <- None, pc <- None

ReconcileAssumption == H!HashVecAssumption /\ MaxFilters \in Nat

VARIABLES
  target,       \* the set the hash was made of
  filters,
  given,        \* history: the argument of the last filter()
  current_set,
  result        \* what check() returned since

vars == <<target, filters, given, current_set, result>>

(* The levels of hash_vec: one for certain, then as long as there are       *)
(* several hashes.                                                          *)
levels(s) ==
  LET level[k \in 1..Len(s)] ==
        IF k = 1 THEN H!Pairs(H!StringsOf(s))
        ELSE IF Len(level[k - 1]) > 1 THEN H!Pairs(level[k - 1]) ELSE level[k - 1]
  IN  level

hash_vec(s) == levels(s)[Len(s)][1]

(* The hashes it makes. *)
Inner(s) == UNION {ToSet(levels(s)[k]) : k \in 1..Len(s)}

(* std::sort: the k-th element has less than k below it. *)
sort(s) ==
  [k \in DOMAIN s |->
    CHOOSE e \in ToSet(s) : /\ Cardinality({j \in DOMAIN s : s[j] < e}) < k
                            /\ k <= Cardinality({j \in DOMAIN s : s[j] <= e})]

(* A hash is made of a set in the order of its elements (get_latest). *)
Ordered(S) == sort(SetToSeq(S))

hash == hash_vec(Ordered(target))

Init ==
  /\ target \in (SUBSET Element) \ {{}}
  /\ filters \in {F \in SUBSET {f \in SUBSET Element : target \subseteq f} :
                    Cardinality(F) <= MaxFilters}
  /\ given = <<>>
  /\ current_set = <<>>
  /\ result = None

Passes(e) == \A f \in filters : e \in f

(* The hashes of a list that pass, in its order. *)
Passing(set) ==
  LET kept[n \in 0..Len(set)] ==
        IF n = 0 THEN <<>>
        ELSE IF Passes(set[n]) THEN Append(kept[n - 1], set[n]) ELSE kept[n - 1]
  IN  kept[Len(set)]

(* Mutant: what the last call left is kept. *)
FilterKeeps(set) ==
  /\ given' = set
  /\ current_set' = current_set \o Passing(set)
  /\ result' = None
  /\ UNCHANGED <<target, filters>>

filter(set) ==
  /\ given' = set
  /\ current_set' = Passing(set)
  /\ result' = None
  /\ UNCHANGED <<target, filters>>

check ==
  /\ result = None
  /\ result' = /\ current_set # <<>>
               /\ hash_vec(sort(current_set)) = hash
  /\ UNCHANGED <<target, filters, given, current_set>>

(* Hashes in any order, none twice, as they come from maps and sets. *)
Lists == UNION {SetToSeqs(S) : S \in SUBSET Element}

Next == (\E set \in Lists : filter(set)) \/ check

Spec == Init /\ [][Next]_vars
-----------------------------------------------------------------------------
(* What the filters let through of the hashes given. *)
Got == {e \in ToSet(given) : Passes(e)}

(* S consists of hashes that hash_vec makes of U. *)
MadeOf(S, U) == \A e \in S : raw[e] \in Inner(Ordered(U))

(* check() is true if the hashes given to the last filter(), in whatever    *)
(* order, held the whole set and nothing else that the filters let through: *)
(* no filter drops a member, calls do not add up.  And it is true of no     *)
(* other list, an empty one included, on which hash_vec would assert,       *)
(* except of one where either set consists of hashes that hash_vec makes of *)
(* the other.                                                               *)
CheckTells ==
  result # None =>
    /\ Got = target => result
    /\ result => Got # {} /\ (Got = target \/ MadeOf(Got, target) \/ MadeOf(target, Got))
=============================================================================
