-------------------------- MODULE MCArchivePipeline --------------------------
(***************************************************************************)
(* Instances of ArchivePipeline for TLC.  The label of a block is its      *)
(* runtime version; a fork is a block whose version differs from that of   *)
(* the network's block.                                                    *)
(***************************************************************************)
EXTENDS ArchivePipeline

MCVersionOf == [l \in Labels |-> IF l = "v2" THEN 2 ELSE 1]

(* Three blocks above genesis, the last two on an upgraded runtime. *)
MCNetChain == <<"v1", "v2", "v2">>

(* Two blocks, the second one upgrades. *)
MCShortChain == <<"v1", "v2">>
===============================================================================
