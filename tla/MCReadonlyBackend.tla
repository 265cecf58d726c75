-------------------------- MODULE MCReadonlyBackend --------------------------
(***************************************************************************)
(* Instance of ReadonlyBackend for TLC: two runtimes, "c1" and "c2", the   *)
(* first one of genesis.                                                   *)
(***************************************************************************)
EXTENDS ReadonlyBackend

(* Two branches at number one, each with a child. *)
MCBlocks == {Genesis, <<"c1">>, <<"c2">>, <<"c1", "c2">>, <<"c2", "c2">>}
MCJustifiable == {<<"c1">>}

MCSpecOf == [c \in Labels |-> IF c = "c2" THEN 2 ELSE 1]
===============================================================================
