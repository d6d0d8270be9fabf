------------------------------ MODULE BlockTree ------------------------------
(***************************************************************************)
(* The blocks a NEAR node may ever serve, as the adapter sees them through *)
(* GetBlockByHeight: a block has a height and the hash of its predecessor, *)
(* and which blocks are canonical depends on the node's current tip.       *)
(*                                                                         *)
(* A block stands for its hash.  Two blocks of the same height are two     *)
(* forks; a height between a block and its parent is a height NEAR         *)
(* skipped, for which the "block" RPC answers with an error.               *)
(***************************************************************************)
EXTENDS Integers

CONSTANTS
  Block,     \* every block that some fork contains
  NoBlock,   \* "no block": no local record, or the parent of the first block
  Height,    \* Height[b]: the "height" of b's header
  Parent,    \* Parent[b]: the block whose hash is b's "prev_hash"
  Chain      \* Chain[b]: b and all its ancestors

ASSUME BlockAssumption ==
  /\ NoBlock \notin Block
  /\ Height \in [Block -> Nat]
  /\ Parent \in [Block -> Block \cup {NoBlock}]
  /\ Chain \in [Block -> SUBSET Block]
  /\ \A b \in Block :
       Chain[b] = {b} \cup IF Parent[b] = NoBlock THEN {} ELSE Chain[Parent[b]]
  /\ \A b \in Block : Parent[b] # NoBlock => Height[Parent[b]] < Height[b]

(***************************************************************************)
(* What the "block" RPC returns for height h when the node's tip is t: the *)
(* canonical block of that height, nothing for a height that is skipped or *)
(* beyond the tip.                                                         *)
(***************************************************************************)
Canonical(t, h) == {b \in Chain[t] : Height[b] = h}
=============================================================================
