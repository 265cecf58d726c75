-------------------------- MODULE ClientImportProofs --------------------------
(***************************************************************************)
(* Finality is safe: proofs about ClientImport, for any callers, labels,   *)
(* block rules, origins and bounds.                                        *)
(***************************************************************************)
EXTENDS ClientImport, TLAPS

(* A block is a finite sequence. *)
LEMMA BlocksAreSeqs == Blocks \subseteq Seq(Labels) /\ Genesis \in Blocks
  <1>1. ASSUME NEW b \in Blocks PROVE b \in Seq(Labels)
    <2>1. PICK n \in 0..MaxHeight : b \in [1..n -> Labels]
      BY DEF Blocks
    <2> QED BY <2>1, ClientAssumption
  <1>2. Genesis \in [1..0 -> Labels]
    BY DEF Genesis
  <1>3. 0 \in 0..MaxHeight
    BY ClientAssumption
  <1> QED BY <1>1, <1>2, <1>3 DEF Blocks

LEMMA PrefixRefl == \A p \in Seq(Labels) : IsPrefix(p, p)
  BY DEF IsPrefix

LEMMA PrefixTrans ==
    ASSUME NEW p \in Seq(Labels), NEW q \in Seq(Labels), NEW r \in Seq(Labels),
           IsPrefix(p, q), IsPrefix(q, r)
    PROVE  IsPrefix(p, r)
  BY DEF IsPrefix

-----------------------------------------------------------------------------
(* What the proofs need of the types. *)
ChainTypes ==
    /\ stored \subseteq Blocks /\ best \in Blocks /\ finalized \in Blocks
    /\ DOMAIN caller = Callers

(* What a caller with an executed block relies on: the parent that it saw    *)
(* before the lock is stored, and stays stored until the commit.             *)
CallersReady ==
    \A c \in Callers :
       /\ caller[c].stage \in {"prepare", "apply", "import"} => caller[c].block \in Blocks
       /\ caller[c].stage \in {"apply", "import"} => Parent(caller[c].block) \in stored

ClientInv == ChainTypes /\ CallersReady /\ FinalizedOnBest /\ ParentStored

(* One caller moves on to a state that keeps it ready. *)
LEMMA BecomeReady ==
    ASSUME ChainTypes, CallersReady, NEW c \in Callers, NEW state, Become(c, state),
           state.stage \in {"prepare", "apply", "import"} => state.block \in Blocks,
           state.stage \in {"apply", "import"} => Parent(state.block) \in stored',
           stored \subseteq stored'
    PROVE  DOMAIN caller' = Callers /\ CallersReady'
  <1>1. /\ DOMAIN caller' = Callers
        /\ \A d \in Callers : caller'[d] = IF d = c THEN state ELSE caller[d]
    BY DEF Become, ChainTypes
  <1> QED BY <1>1 DEF CallersReady

(* A step that leaves the backend and the callers alone. *)
LEMMA ClientFrame == ClientInv /\ UNCHANGED <<backendVars, caller>> => ClientInv'
  BY DEF ClientInv, ChainTypes, CallersReady, FinalizedOnBest, ParentStored, backendVars

(* A caller's step that leaves the backend alone and prepares no block. *)
LEMMA ClientTaskStep ==
    ASSUME ClientInv, UNCHANGED backendVars, NEW c \in Callers, NEW state,
           Become(c, state), state.stage \notin {"prepare", "apply", "import"}
    PROVE  ClientInv'
  <1>1. stored' = stored /\ best' = best /\ finalized' = finalized
    BY DEF backendVars
  <1>2. DOMAIN caller' = Callers /\ CallersReady'
    BY <1>1, BecomeReady DEF ClientInv
  <1> QED BY <1>1, <1>2 DEF ClientInv, ChainTypes, FinalizedOnBest, ParentStored

LEMMA ClientImportStep ==
    ASSUME ClientInv, NEW c \in Callers, Import(c)
    PROVE  ClientInv'
  <1>0. ChainTypes /\ CallersReady
    BY DEF ClientInv
  <1>1. CASE CheckBlock(c)
    <2>1. PICK block \in Blocks \ {Genesis}, origin \in Origins :
             Become(c, [stage |-> "prepare", block |-> block, origin |-> origin])
      BY <1>1 DEF CheckBlock
    <2>2. UNCHANGED backendVars
      BY <1>1 DEF CheckBlock
    <2>3. stored' = stored /\ best' = best /\ finalized' = finalized
      BY <2>2 DEF backendVars
    <2>4. DOMAIN caller' = Callers /\ CallersReady'
      BY <1>0, <2>1, <2>3, BecomeReady
    <2> QED BY <2>3, <2>4 DEF ClientInv, ChainTypes, FinalizedOnBest, ParentStored
  <1>2. CASE PrepareBlock(c) \/ ApplyBlock(c)
    <2> DEFINE to == IF caller[c].stage = "prepare" THEN "apply" ELSE "import"
               state == [caller[c] EXCEPT !.stage = to]
    <2>1. /\ UNCHANGED backendVars
          /\ caller[c].stage \in {"prepare", "apply"}
          /\ Become(c, state)
      BY <1>2 DEF PrepareBlock, ApplyBlock
    <2>2. stored' = stored /\ best' = best /\ finalized' = finalized
      BY <2>1 DEF backendVars
    <2>3. caller[c].block \in Blocks /\ Parent(caller[c].block) \in stored
      BY <1>0, <1>2, <2>1 DEF CallersReady, PrepareBlock, CanExecute, ApplyBlock
    <2>4. state.block = caller[c].block
      OBVIOUS
    <2> HIDE DEF state
    <2>5. DOMAIN caller' = Callers /\ CallersReady'
      BY <1>0, <2>1, <2>2, <2>3, <2>4, BecomeReady
    <2> QED BY <2>2, <2>5 DEF ClientInv, ChainTypes, FinalizedOnBest, ParentStored
  <1>3. CASE PrepareFails(c)
    BY <1>3, ClientTaskStep DEF PrepareFails, Idle
  <1>4. CASE ExecuteAndImportBlock(c)
    <2> DEFINE block == caller[c].block
    <2>1. block \in Blocks /\ Parent(block) \in stored
      BY <1>0, <1>4 DEF CallersReady, ExecuteAndImportBlock
    <2>2. /\ stored' = stored \cup {block} /\ finalized' = finalized
          /\ best' = best \/ (best' = block /\ HeadAllowed(block))
      BY <1>4 DEF ExecuteAndImportBlock
    <2>3. PICK imports : Committed(c, imports, << >>)
      BY <1>4 DEF ExecuteAndImportBlock
    <2>4. DOMAIN caller' = Callers /\ CallersReady'
      BY <1>0, <2>2, <2>3, BecomeReady DEF Committed
    <2>5. FinalizedOnBest'
      BY <2>2 DEF ClientInv, FinalizedOnBest, HeadAllowed
    <2>6. ParentStored'
      BY <2>1, <2>2 DEF ClientInv, ParentStored
    <2>7. ChainTypes'
      BY <2>1, <2>2, <2>4 DEF ClientInv, ChainTypes
    <2> QED BY <2>4, <2>5, <2>6, <2>7 DEF ClientInv
  <1>5. CASE ImportFails(c)
    BY <1>5, ClientTaskStep DEF ImportFails, Released
  <1> QED BY <1>1, <1>2, <1>3, <1>4, <1>5 DEF Import

(* The finalized block moves to a descendant, and the head with it if need   *)
(* be.                                                                       *)
LEMMA ClientFinalizeStep ==
    ASSUME ClientInv, NEW c \in Callers, Finalize(c)
    PROVE  ClientInv'
  <1>1. CASE FinalizeBlock(c)
    <2>1. PICK block \in Blocks :
             /\ CanFinalize(block) /\ best' = MarkHead(block) /\ finalized' = block
             /\ Committed(c, << >>, LastToNotify(Enacted(block)))
      BY <1>1 DEF FinalizeBlock
    <2>2. stored' = stored
      BY <1>1 DEF FinalizeBlock
    <2>3. FinalizedOnBest'
      BY <2>1, BlocksAreSeqs, PrefixRefl DEF FinalizedOnBest, MarkHead
    <2>4. DOMAIN caller' = Callers /\ CallersReady'
      BY <2>1, <2>2, BecomeReady DEF Committed, ClientInv
    <2>5. ChainTypes'
      BY <2>1, <2>2, <2>4 DEF ClientInv, ChainTypes, MarkHead
    <2> QED BY <2>2, <2>3, <2>4, <2>5 DEF ClientInv, ParentStored
  <1>2. CASE FinalizeFails(c)
    BY <1>2, ClientTaskStep DEF FinalizeFails, Released
  <1> QED BY <1>1, <1>2 DEF Finalize

LEMMA ClientFinishStep ==
    ASSUME ClientInv, NEW c \in Callers, InsertAux(c) \/ Finish(c)
    PROVE  ClientInv'
  BY ClientTaskStep DEF InsertAux, Committed, Finish, Notify, NotifyFails, ClearImporting,
     Idle

LEMMA ClientNext == ClientInv /\ [Next]_vars => ClientInv'
  <1> SUFFICES ASSUME ClientInv, [Next]_vars PROVE ClientInv'
    OBVIOUS
  <1>1. CASE \E c \in Callers : Import(c) \/ Finalize(c) \/ InsertAux(c) \/ Finish(c)
    BY <1>1, ClientImportStep, ClientFinalizeStep, ClientFinishStep
  <1>2. CASE Network \/ UNCHANGED vars
    BY <1>2, ClientFrame DEF Network, NetworkImported, NetworkFinalized, vars
  <1> QED BY <1>1, <1>2 DEF Next

LEMMA ClientCorrect == Spec => []ClientInv
  <1>1. Init => ClientInv
    <2> SUFFICES ASSUME Init PROVE ClientInv
      OBVIOUS
    <2>1. \A c \in Callers : caller[c].stage = "idle"
      BY DEF Init, Idle
    <2>2. FinalizedOnBest
      BY BlocksAreSeqs, PrefixRefl DEF Init, FinalizedOnBest
    <2> QED BY <2>1, <2>2, BlocksAreSeqs
            DEF Init, ClientInv, ChainTypes, CallersReady, ParentStored
  <1> QED BY <1>1, ClientNext, PTL DEF Spec

(* The finalized block is always on the best chain.                          *)
THEOREM FinalizedIsCanonical == Spec => []FinalizedOnBest
  <1>1. ClientInv => FinalizedOnBest
    BY DEF ClientInv
  <1> QED BY <1>1, ClientCorrect, PTL

(* The backend never holds a block without its parent.                       *)
THEOREM ParentsStored == Spec => []ParentStored
  <1>1. ClientInv => ParentStored
    BY DEF ClientInv
  <1> QED BY <1>1, ClientCorrect, PTL

-----------------------------------------------------------------------------
(* A commit of the client is a step of the chain the archive follows; every  *)
(* other step leaves that chain alone.                                       *)
LEMMA ImportsToNode ==
    ASSUME ClientInv, NEW c \in Callers, ExecuteAndImportBlock(c)
    PROVE  \E block \in Blocks : Node!Import(block)
  <1> DEFINE block == caller[c].block
  <1>1. block \in Blocks /\ Parent(block) \in stored
    BY DEF ClientInv, CallersReady, ExecuteAndImportBlock
  <1>2. /\ block \notin stored /\ stored' = stored \cup {block}
        /\ best' \in {best, block}
    BY DEF ExecuteAndImportBlock, Importable
  <1> QED BY <1>1, <1>2 DEF Node!Import, Node!Parent, Parent

LEMMA FinalizesToNode ==
    ASSUME ClientInv, NEW c \in Callers, FinalizeBlock(c)
    PROVE  \/ \E block \in Blocks : Node!SetHead(block)
           \/ UNCHANGED <<stored, best>>
  <1>1. PICK block \in Blocks : CanFinalize(block) /\ best' = MarkHead(block)
    BY DEF FinalizeBlock
  <1>2. stored' = stored /\ block \in stored
    BY <1>1 DEF FinalizeBlock, CanFinalize
  <1> QED BY <1>1, <1>2 DEF MarkHead, Node!SetHead, Node!IsPrefix, IsPrefix

(* The client implements the specification of the chain under the archive:   *)
(* its tree of blocks only grows, on stored parents, and its best block      *)
(* moves by an import or to a stored block off the old chain.                *)
THEOREM ClientIsChainSource == Spec => ImplementsChainSource
  <1>1. Init => Node!Init
    BY DEF Init, Node!Init, Node!Genesis, Genesis
  <1>2. ClientInv /\ [Next]_vars => [Node!Next]_<<stored, best>>
    <2> SUFFICES ASSUME ClientInv, [Next]_vars
                 PROVE  Node!Next \/ UNCHANGED <<stored, best>>
      OBVIOUS
    <2>1. ASSUME NEW c \in Callers, ExecuteAndImportBlock(c) PROVE Node!Next
      BY <2>1, ImportsToNode DEF Node!Next
    <2>2. ASSUME NEW c \in Callers, FinalizeBlock(c)
          PROVE  Node!Next \/ UNCHANGED <<stored, best>>
      BY <2>2, FinalizesToNode DEF Node!Next
    <2> QED
      BY <2>1, <2>2
      DEF Next, Import, CheckBlock, PrepareBlock, PrepareFails, ApplyBlock,
          ImportFails, Released, Finalize, FinalizeFails, InsertAux, Finish,
          Notify, NotifyFails, ClearImporting, Network, NetworkImported, NetworkFinalized,
          backendVars, vars
  <1> QED BY <1>1, <1>2, ClientCorrect, PTL
          DEF Spec, ImplementsChainSource, Node!Spec
===============================================================================
