--------------------------- MODULE MCClientImport ---------------------------
(***************************************************************************)
(* Instances of ClientImport for TLC: two callers, the children of a block *)
(* labelled "a" and "b".  The block rules shape the tree of blocks that    *)
(* can be imported.                                                        *)
(***************************************************************************)
EXTENDS ClientImport, TLC

CONSTANTS queue, voter    \* the callers

(* The callers are interchangeable. *)
CallerSymmetry == Permutations({queue, voter})

(* Two branches, one of which is three blocks long and one of which ends at  *)
(* a bad block ...                                                           *)
MCBadBlocks == {<<"b", "a">>, <<"b", "b">>, <<"a", "b">>, <<"a", "a", "b">>}
NoForkBlocks == [n \in {} |-> Genesis]

(* ... or one good block number one, with a good and a bad child. *)
MCForkBlocks == 1 :> <<"a">>
MCBadChild == {<<"a", "b">>}
=============================================================================
