------------------------------ MODULE BlockPaths ------------------------------
(***************************************************************************)
(* Blocks as paths from genesis: a sequence of labels, one per block above *)
(* genesis.  The path is the hash of the block; its parent is the path     *)
(* without the last label, and its number is the length.                   *)
(***************************************************************************)
EXTENDS Integers, Sequences

Genesis == << >>

(* Is block p the block q or one of its ancestors? *)
IsPrefix(p, q) == Len(p) <= Len(q) /\ p = SubSeq(q, 1, Len(p))

(* The block with a number on the chain of a block (sc_client_db maps        *)
(* numbers to the hashes of the canonical chain), and the parent of a block. *)
BlockAt_head(chain, n) == chain
BlockAt(chain, n) == SubSeq(chain, 1, n)
Parent(block) == SubSeq(block, 1, Len(block) - 1)
===============================================================================
