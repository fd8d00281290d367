----------------------------- MODULE MarkBlocks -----------------------------
(***************************************************************************)
(* BlockChain::mark_blocks of bin/p2p.cc: the height of every known block, *)
(* by walking from each block towards the zero block.  blocks gives the    *)
(* prev_hash of every known header; the map iterates in the order of its   *)
(* keys, which are numbers here.  A block is named by a hash over its      *)
(* prev_hash, so the links have no cycle.                                  *)
(***************************************************************************)
EXTENDS Integers, Sequences

CONSTANTS
  Hash,        \* hashes that occur, in the order of Bytes
  zero_block   \* the prev_hash of a first block

MarkAssumption == Hash \subseteq Nat /\ zero_block \notin Hash

VARIABLES
  blocks,   \* prev_hash of each known block
  heights,  \* the result: 0 unknown, -1 not connected, else the height
  todo,     \* blocks the outer loop has not come to
  list,     \* the walk of the inner loop
  pc

vars == <<blocks, heights, todo, list, pc>>

Known == DOMAIN blocks

(* No set of blocks has all its links inside itself. *)
Acyclic(f) == \A S \in SUBSET DOMAIN f : S # {} => \E b \in S : f[b] \notin S

Init ==
  /\ blocks \in {f \in UNION {[K -> Hash \cup {zero_block}] : K \in SUBSET Hash} : Acyclic(f)}
  /\ heights = [b \in Known |-> 0]
  /\ todo = Known
  /\ list = <<>>
  /\ pc = "outer"

(* Mutant: any block with a height ends the loop. *)
VisitBreaks(b) ==
  /\ pc = "outer"
  /\ b \in todo
  /\ \A c \in todo : b <= c
  /\ IF heights[b] # 0
       THEN pc' = "done" /\ UNCHANGED <<todo, list>>
       ELSE pc' = "inner" /\ list' = <<b>> /\ todo' = todo \ {b}
  /\ UNCHANGED <<blocks, heights>>

(* The outer loop comes to the next block; one that is marked -1 ends it. *)
Visit(b) ==
  /\ pc = "outer"
  /\ b \in todo
  /\ \A c \in todo : b <= c
  /\ IF heights[b] = -1
       THEN pc' = "done" /\ UNCHANGED <<todo, list>>
       ELSE pc' = "inner" /\ list' = <<b>> /\ todo' = todo \ {b}
  /\ UNCHANGED <<blocks, heights>>

Finish ==
  /\ pc = "outer"
  /\ todo = {}
  /\ pc' = "done"
  /\ UNCHANGED <<blocks, heights, todo, list>>

On(l) == {l[k] : k \in DOMAIN l}

(* Mutant: the walk is numbered from its start. *)
MarkForward(h) ==
  [b \in Known |-> IF b \in On(list) THEN h + (CHOOSE k \in DOMAIN list : list[k] = b) ELSE heights[b]]

(* The blocks of the walk, from its end on, get the heights above h. *)
MarkAbove(h) ==
  [b \in Known |->
    IF b \in On(list) THEN h + Len(list) + 1 - (CHOOSE k \in DOMAIN list : list[k] = b) ELSE heights[b]]

(* The blocks of the walk are not connected to the zero block. *)
MarkUnconnected == [b \in Known |-> IF b \in On(list) THEN -1 ELSE heights[b]]

cur == list[Len(list)]
prev_hash == blocks[cur]

Close(h) ==
  /\ heights' = h
  /\ list' = <<>>
  /\ pc' = "outer"
  /\ UNCHANGED <<blocks, todo>>

(* Mutant: no break after the marks. *)
LostNoBreak ==
  /\ pc = "inner"
  /\ prev_hash \notin Known \cup {zero_block}
  /\ heights' = MarkUnconnected
  /\ UNCHANGED <<blocks, todo, list, pc>>

(* One round of while (true): the walk ends at the zero block, ... *)
ReachZero ==
  /\ pc = "inner"
  /\ prev_hash = zero_block
  /\ Close(MarkAbove(0))

(* ... at a block that is not known or not connected, ... *)
ReachLost ==
  /\ pc = "inner"
  /\ prev_hash \notin Known \cup {zero_block}
  /\ Close(MarkUnconnected)

ReachUnconnected ==
  /\ pc = "inner"
  /\ prev_hash \in Known
  /\ heights[prev_hash] = -1
  /\ Close(MarkUnconnected)

(* ... at one that has its height, ... *)
ReachMarked ==
  /\ pc = "inner"
  /\ prev_hash \in Known
  /\ heights[prev_hash] > 0
  /\ Close(MarkAbove(heights[prev_hash]))

(* Mutant: blocks.count is not asked. *)
WalkOff ==
  /\ pc = "inner"
  /\ prev_hash # zero_block
  /\ prev_hash \in Known => heights[prev_hash] = 0
  /\ list' = Append(list, prev_hash)
  /\ UNCHANGED <<blocks, heights, todo, pc>>

(* ... or goes on. *)
Walk ==
  /\ pc = "inner"
  /\ prev_hash \in Known
  /\ heights[prev_hash] = 0
  /\ list' = Append(list, prev_hash)
  /\ UNCHANGED <<blocks, heights, todo, pc>>

Next ==
  \/ \E b \in Hash : Visit(b)
  \/ Finish
  \/ ReachZero \/ ReachLost \/ ReachUnconnected \/ ReachMarked
  \/ Walk

Spec == Init /\ [][Next]_vars

(* mark_blocks has returned. *)
Done == pc = "done"
-----------------------------------------------------------------------------
(* Every variable keeps its type; a walk passes known blocks only. *)
TypeOK ==
  /\ heights \in [Known -> Nat \cup {-1}]
  /\ todo \subseteq Known
  /\ list \in Seq(Known)
  /\ pc \in {"outer", "inner", "done"}
  /\ pc = "inner" <=> list # <<>>

(* At every moment the heights that are set fit together: 1 above the zero  *)
(* block, one more than the predecessor elsewhere, -1 only where the        *)
(* predecessor is unknown or -1 itself.  With links that have no cycle they *)
(* are the true heights (mark_blocks, both loops).                          *)
HeightsFit ==
  \A b \in Known :
    /\ heights[b] > 0 =>
         \/ blocks[b] = zero_block /\ heights[b] = 1
         \/ blocks[b] \in Known /\ heights[blocks[b]] > 0 /\ heights[b] = heights[blocks[b]] + 1
    /\ heights[b] = -1 =>
         \/ blocks[b] \notin Known \cup {zero_block}
         \/ blocks[b] \in Known /\ heights[blocks[b]] = -1

(* When no known block has an unknown predecessor, mark_blocks gives every  *)
(* block a height.                                                          *)
RootedMarked ==
  pc = "done" /\ (\A b \in Known : blocks[b] \in Known \cup {zero_block}) =>
    \A b \in Known : heights[b] > 0
=============================================================================
