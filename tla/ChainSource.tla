----------------------------- MODULE ChainSource -----------------------------
(***************************************************************************)
(* What the archive relies on of a node's database: a tree of blocks that  *)
(* only grows, each block on a stored parent, and a best block whose       *)
(* ancestors are the canonical chain.  The best block moves with an import *)
(* or with finality, and in any direction: the weight of a chain (BABE) or *)
(* finality may prefer a block that is no higher than the old one.         *)
(*                                                                         *)
(* ArchivePipeline and ReadonlyBackend use the actions as their            *)
(* environment; ClientImport is shown to implement the specification.      *)
(***************************************************************************)
EXTENDS BlockPaths

CONSTANT Blocks     \* the blocks that exist

VARIABLES
    imported,       \* the blocks stored, with their state
    main            \* the best block: head of the canonical chain

Init == imported = {Genesis} /\ main = Genesis

(* A block is stored; fork choice may make it the best one. *)
Import(block) ==
    /\ block \notin imported /\ Parent(block) \in imported
    /\ imported' = imported \cup {block}
    /\ main' \in {main, block}

(* A stored block off the canonical chain becomes the best one. *)
SetHead(block) ==
    /\ block \in imported /\ ~IsPrefix(block, main)
    /\ main' = block
    /\ UNCHANGED imported

Next == \E block \in Blocks : Import(block) \/ SetHead(block)

Spec == Init /\ [][Next]_<<imported, main>>
==============================================================================
