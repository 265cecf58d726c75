---------------------------- MODULE MCRuntimeApi ----------------------------
(***************************************************************************)
(* Instances of RuntimeApi for TLC: a task of each kind.  Blocks of label  *)
(* "b" carry runtime 2, and the directory may hold two blobs of that       *)
(* version, one of version 1, one that states no version, and a file of    *)
(* another kind.                                                           *)
(***************************************************************************)
EXTENDS RuntimeApi, TLC

CONSTANTS worker, notifier,       \* the tasks
          f1, f2, f3, bad, text   \* the files

MCVersionOf == "a" :> 1 @@ "b" :> 2
MCFiles == {f1, f2, f3, bad, text}
MCWasm == {f1, f2, f3, bad}
MCSpecOf == f1 :> 2 @@ f2 :> 2 @@ f3 :> 1
=============================================================================
