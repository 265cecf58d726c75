---------------------------- MODULE ClientImport ----------------------------
(***************************************************************************)
(* Block import and finality in the client (client/service): the callers   *)
(* of Client::import_block and Client::finalize_block, the import lock,    *)
(* the marker importing_block, the notifications, and the network task     *)
(* that consumes them.                                                     *)
(*                                                                         *)
(* A caller is the import queue or the GRANDPA voter.  It checks and       *)
(* executes a block without the lock (check_block,                         *)
(* prepare_block_storage_changes), then takes the lock for apply_block,    *)
(* the commit and the notifications (lock_import_and_run), and clears      *)
(* importing_block after the lock is gone.                                 *)
(*                                                                         *)
(* No caller here imports a block as already final, with storage changes   *)
(* or without a body, and all states are kept (PruningMode::ArchiveAll).   *)
(* A call that is refused before the lock changes nothing.                 *)
(*                                                                         *)
(* Definitions D_x are variants of D with a mistake in them; nothing uses  *)
(* them but the mutation tests of the properties.                          *)
(***************************************************************************)
EXTENDS BlockPaths, FiniteSets

CONSTANTS
    Callers,      \* threads that call the client
    Labels,       \* what tells the children of a block apart
    MaxHeight,    \* bound on the number of a block
    BadBlocks,    \* BlockRules: known bad blocks
    ForkBlocks,   \* BlockRules: partial map from a number to the only good block
    Origins,      \* origins of imported blocks: "broadcast", "sync"
    MaxToNotify   \* MAX_TO_NOTIFY (256)

ASSUME ClientAssumption ==
    /\ MaxHeight \in Nat /\ MaxToNotify \in Nat \ {0}
    /\ DOMAIN ForkBlocks \subseteq Nat
    /\ Origins \subseteq {"broadcast", "sync"}

VARIABLES
    stored,      \* the blocks in the backend
    best,        \* info().best_hash
    finalized,   \* info().finalized_hash
    importing,   \* importing_block, an Option
    lock,        \* the holder of the import lock, if any
    caller,      \* what each caller is doing
    importQ,     \* the network's import notification stream
    finalQ,      \* the network's finality notification stream
    unsent,      \* history: blocks whose finality notice an error dropped
    net          \* what the network service has been told

backendVars == <<stored, best, finalized>>
queueVars == <<importQ, finalQ, unsent>>
vars == <<backendVars, importing, lock, caller, queueVars, net>>

Blocks == UNION {[1..n -> Labels] : n \in 0..MaxHeight}
Idle == [stage |-> "idle"]

Init ==
    /\ stored = {Genesis} /\ best = Genesis /\ finalized = Genesis
    /\ importing = {} /\ lock = {}
    /\ caller = [c \in Callers |-> Idle]
    /\ importQ = << >> /\ finalQ = << >> /\ unsent = {}
    /\ net = [announced |-> {}, best |-> Genesis, finalized |-> Genesis]

Become(c, state) == caller' = [caller EXCEPT ![c] = state]

-----------------------------------------------------------------------------
(* Before the lock. *)

(* BlockRules::lookup *)
NotSpecial_noForks(block) == block \notin BadBlocks
NotSpecial(block) ==
    /\ Len(block) \in DOMAIN ForkBlocks => ForkBlocks[Len(block)] = block
    /\ block \notin BadBlocks

(* Client::block_status of a hash *)
BlockStatus(block) ==
    IF block \in importing THEN "Queued"
    ELSE IF block \in stored THEN "InChainWithState" ELSE "Unknown"

(* Client::check_block, called by the import queue before the import *)
CheckBlock(c) ==
    /\ caller[c] = Idle
    /\ \E block \in Blocks \ {Genesis}, origin \in Origins :
          /\ NotSpecial(block)
          /\ BlockStatus(block) = "Unknown"
          /\ BlockStatus(Parent(block)) # "Unknown"
          /\ Become(c, [stage |-> "prepare", block |-> block, origin |-> origin])
    /\ UNCHANGED <<backendVars, importing, lock, queueVars, net>>

(* prepare_block_storage_changes: the block is executed on its parent, which *)
(* fails when the parent is only queued. *)
CanExecute_queued(block) == BlockStatus(Parent(block)) # "Unknown"
CanExecute(block) ==
    /\ BlockStatus(Parent(block)) # "Unknown"
    /\ Parent(block) \in stored

PrepareBlock(c) ==
    /\ caller[c].stage = "prepare"
    /\ CanExecute(caller[c].block)
    /\ Become(c, [caller[c] EXCEPT !.stage = "apply"])
    /\ UNCHANGED <<backendVars, importing, lock, queueVars, net>>

(* UnknownParent, an execution error or a wrong state root *)
PrepareFails(c) ==
    /\ caller[c].stage = "prepare"
    /\ Become(c, Idle)
    /\ UNCHANGED <<backendVars, importing, lock, queueVars, net>>

-----------------------------------------------------------------------------
(* Under the lock. *)

(* apply_block: the lock is taken and the block marked as being imported. *)
ApplyBlock(c) ==
    /\ caller[c].stage = "apply" /\ lock = {}
    /\ lock' = {c}
    /\ importing' = {caller[c].block}
    /\ Become(c, [caller[c] EXCEPT !.stage = "import"])
    /\ UNCHANGED <<backendVars, queueVars, net>>

(* The backend refuses a new head whose chain leaves the finalized block. *)
HeadAllowed(block) == IsPrefix(finalized, block)

(* ForkChoiceStrategy: the longest chain, or the verdict of BABE. *)
IsNewBest(block, choice) ==
    \/ choice = "best"
    \/ choice = "longest" /\ Len(block) > Len(best)

(* What lock_import_and_run does at its end: commit, then the notifications  *)
(* that the operation has gathered.                                          *)
Committed_silent(c, imports, finals) ==
    Become(c, [stage |-> "notify", imports |-> << >>, finals |-> finals])
Committed(c, imports, finals) ==
    Become(c, [stage |-> "notify", imports |-> imports, finals |-> finals])

(* The lock is released on a result without a commit. *)
Released_notCleared(c) ==
    /\ lock' = {}
    /\ Become(c, Idle)
    /\ UNCHANGED <<backendVars, importing, queueVars, net>>
Released(c) ==
    /\ lock' = {}
    /\ Become(c, [stage |-> "clear"])
    /\ UNCHANGED <<backendVars, importing, queueVars, net>>

(* execute_and_import_block and the commit *)
Importable_again(block) == Len(block) > Len(finalized)
Importable(block) == block \notin stored /\ Len(block) > Len(finalized)

ExecuteAndImportBlock(c) ==
    /\ caller[c].stage = "import"
    /\ LET block == caller[c].block IN
       /\ Importable(block)
       /\ \E choice \in {"longest", "best", "not_best"} :
             LET isNewBest == IsNewBest(block, choice)
                 reorg == isNewBest /\ best # Parent(block)
             IN  /\ isNewBest => HeadAllowed(block)
                 /\ stored' = stored \cup {block}
                 /\ best' = IF isNewBest THEN block ELSE best
                 /\ Committed(c, IF caller[c].origin = "broadcast" \/ reorg
                                 THEN <<[hash |-> block, isNewBest |-> isNewBest]>>
                                 ELSE << >>, << >>)
    /\ UNCHANGED <<finalized, importing, lock, queueVars, net>>

(* AlreadyInChain, NotInFinalizedChain, or an error of the backend *)
ImportFails(c) ==
    /\ caller[c].stage = "import"
    /\ Released(c)

(* apply_finality_with_block_hash: the blocks from the last finalized one to *)
(* the given one are finalized, the last MAX_TO_NOTIFY of them announced.    *)
CanFinalize_unknown(block) == IsPrefix(finalized, block) /\ block # finalized
CanFinalize(block) ==
    /\ block \in stored
    /\ IsPrefix(finalized, block) /\ block # finalized

(* The head moves to a finalized block that is not on the best chain. *)
MarkHead_keep(block) == best
MarkHead(block) == IF IsPrefix(block, best) THEN best ELSE block

Enacted(block) ==
    [i \in 1..(Len(block) - Len(finalized)) |-> BlockAt(block, Len(finalized) + i)]
LastToNotify_first(enacted) ==
    SubSeq(enacted, 1, IF Len(enacted) > MaxToNotify THEN MaxToNotify ELSE Len(enacted))
LastToNotify(enacted) ==
    SubSeq(enacted, IF Len(enacted) > MaxToNotify
                    THEN Len(enacted) - MaxToNotify + 1 ELSE 1, Len(enacted))

FinalizeBlock(c) ==
    /\ caller[c] = Idle /\ lock = {}
    /\ lock' = {c}
    /\ \E block \in Blocks :
          /\ CanFinalize(block)
          /\ best' = MarkHead(block)
          /\ finalized' = block
          /\ Committed(c, << >>, LastToNotify(Enacted(block)))
    /\ UNCHANGED <<stored, importing, queueVars, net>>

(* An unknown block, one that is final already or would revert finality, or  *)
(* an error of the backend: the lock is taken and released.                  *)
FinalizeFails(c) ==
    /\ caller[c] = Idle /\ lock = {}
    /\ Released(c)

(* AuxStore::insert_aux commits auxiliary data (BABE's and GRANDPA's) in an   *)
(* import operation of its own, with nothing to notify.                      *)
InsertAux(c) ==
    /\ caller[c] = Idle /\ lock = {}
    /\ lock' = {c}
    /\ Committed(c, << >>, << >>)
    /\ UNCHANGED <<backendVars, importing, queueVars, net>>

(* notify_finalized and notify_imported; the lock is released. *)
Notify(c) ==
    /\ caller[c].stage = "notify"
    /\ finalQ' = finalQ \o caller[c].finals
    /\ importQ' = importQ \o caller[c].imports
    /\ lock' = {}
    /\ Become(c, [stage |-> "clear"])
    /\ UNCHANGED <<backendVars, importing, unsent, net>>

(* notify_finalized reads the header of each block it tells of.  When a read *)
(* fails, the notices from there on are dropped, notify_imported is not      *)
(* called, and the caller gets an error although the commit stands.          *)
SentBefore(finals, failed) == SubSeq(finals, 1, failed - 1)
DroppedFrom(finals, failed) == {finals[i] : i \in failed..Len(finals)}

NotifyFails(c) ==
    /\ caller[c].stage = "notify"
    /\ LET finals == caller[c].finals IN
       \E failed \in 1..Len(finals) :
          /\ finalQ' = finalQ \o SentBefore(finals, failed)
          /\ unsent' = unsent \cup DroppedFrom(finals, failed)
    /\ lock' = {}
    /\ Become(c, [stage |-> "clear"])
    /\ UNCHANGED <<backendVars, importing, importQ, net>>

-----------------------------------------------------------------------------
(* After the lock: importing_block = None, whoever set it. *)
ClearImporting(c) ==
    /\ caller[c].stage = "clear"
    /\ importing' = {}
    /\ Become(c, Idle)
    /\ UNCHANGED <<backendVars, lock, queueVars, net>>

-----------------------------------------------------------------------------
(* build_network_future *)

NetworkImported ==
    /\ importQ # << >>
    /\ importQ' = Tail(importQ)
    /\ LET notice == Head(importQ) IN
       net' = [announced |-> net.announced \cup {notice.hash},
               best |-> IF notice.isNewBest THEN notice.hash ELSE net.best,
               finalized |-> net.finalized]
    /\ UNCHANGED <<backendVars, importing, lock, caller, finalQ, unsent>>

(* All finality notifications that are ready are merged into the last. *)
Merged_first(ready) == ready[1]
Merged(ready) == ready[Len(ready)]

NetworkFinalized ==
    /\ finalQ # << >>
    /\ finalQ' = << >>
    /\ net' = [net EXCEPT !.finalized = Merged(finalQ)]
    /\ UNCHANGED <<backendVars, importing, lock, caller, importQ, unsent>>

-----------------------------------------------------------------------------
Import(c) ==
    CheckBlock(c) \/ PrepareBlock(c) \/ PrepareFails(c) \/ ApplyBlock(c)
        \/ ExecuteAndImportBlock(c) \/ ImportFails(c)
Finalize(c) == FinalizeBlock(c) \/ FinalizeFails(c)
Finish(c) == Notify(c) \/ NotifyFails(c) \/ ClearImporting(c)
Network == NetworkImported \/ NetworkFinalized

Next ==
    \/ \E c \in Callers : Import(c) \/ Finalize(c) \/ InsertAux(c) \/ Finish(c)
    \/ Network

Spec == Init /\ [][Next]_vars

(* The closure under the lock and what follows it is plain code that runs   *)
(* to its end, and the network task is polled.  Nothing is assumed of the    *)
(* lock: a caller may wait for it for ever.                                  *)
Fairness ==
    /\ \A c \in Callers : WF_vars(ExecuteAndImportBlock(c) \/ ImportFails(c) \/ Finish(c))
    /\ WF_vars(NetworkImported) /\ WF_vars(NetworkFinalized)

FairSpec == Spec /\ Fairness

-----------------------------------------------------------------------------
(* Properties. *)

Notice == [hash : Blocks, isNewBest : BOOLEAN]
CallerState == {Idle, [stage |-> "clear"]}
    \cup [stage : {"prepare", "apply", "import"}, block : Blocks, origin : Origins]
    \cup [stage : {"notify"}, imports : Seq(Notice), finals : Seq(Blocks)]

(* Every variable has its shape, and the lock has one holder at most. *)
TypeOK ==
    /\ stored \subseteq Blocks /\ best \in stored /\ finalized \in stored
    /\ importing \subseteq Blocks /\ Cardinality(importing) <= 1
    /\ lock \subseteq Callers /\ Cardinality(lock) <= 1
    /\ caller \in [Callers -> CallerState]
    /\ importQ \in Seq(Notice) /\ finalQ \in Seq(Blocks) /\ unsent \subseteq Blocks
    /\ net \in [announced : SUBSET Blocks, best : Blocks, finalized : Blocks]

(* The finalized block lies on the best chain, although fork choice may pick *)
(* any imported block and finality may come for another branch.              *)
FinalizedOnBest == IsPrefix(finalized, best)

(* Every stored block has its parent stored, though the parent was checked   *)
(* before the lock and may have been only queued then.                       *)
ParentStored == \A b \in stored : b # Genesis => Parent(b) \in stored

(* No stored block is excluded by the block rules, nor is one of its         *)
(* ancestors.                                                                *)
NoBadAncestor ==
    \A b \in stored : \A n \in 1..Len(b) :
        /\ BlockAt(b, n) \notin BadBlocks
        /\ n \in DOMAIN ForkBlocks => ForkBlocks[n] = BlockAt(b, n)

(* The finality notifications, read after what the network got, are one      *)
(* ascending chain, over failed calls too, and the cut-off of MAX_TO_NOTIFY  *)
(* keeps the newest of a call.  When nobody has the lock the chain ends at   *)
(* the finalized block, unless notify_finalized failed on it: a failure      *)
(* is made up for by the next call that succeeds, and what a failure dropped *)
(* is never told late.                                                       *)
FinalityNoticesInOrder ==
    LET all == <<net.finalized>> \o finalQ IN
    /\ \A i \in 1..Len(finalQ) : all[i] # all[i + 1] /\ IsPrefix(all[i], all[i + 1])
    /\ \A i \in 1..Len(all) : all[i] \notin unsent
    /\ lock = {} => all[Len(all)] = finalized \/ finalized \in unsent

(* No block is announced to the network twice, even when two callers import  *)
(* the same block.                                                           *)
AnnouncedOnce ==
    /\ \A i, j \in 1..Len(importQ) : importQ[i].hash = importQ[j].hash => i = j
    /\ \A i \in 1..Len(importQ) : importQ[i].hash \notin net.announced

(* While nobody has the lock, the last best block announced is the best      *)
(* block, or finality has moved the head to the finalized block.  (Blocks    *)
(* of origin "broadcast".)                                                   *)
NoNewBest(i) == \A j \in i..Len(importQ) : ~importQ[j].isNewBest
AnnouncedBest(block) ==
    \/ net.best = block /\ NoNewBest(1)
    \/ \E i \in 1..Len(importQ) :
          importQ[i].isNewBest /\ importQ[i].hash = block /\ NoNewBest(i + 1)
BestAnnounced == lock = {} => AnnouncedBest(best) \/ best = finalized

(* "holds the block hash currently being imported".                          *)
ImportingIsCurrent ==
    \A c \in Callers : caller[c].stage = "import" => importing = {caller[c].block}

(* The marker does not outlive the import it stands for, whether that        *)
(* succeeds or fails: else its block would count as queued for ever and      *)
(* could never be imported again.                                            *)
ImportingCleared == \A b \in Blocks : b \in importing ~> b \notin importing

(* The network learns of every block that becomes the finalized one, from    *)
(* its notice or from a later one, unless an error dropped that notice.      *)
NetworkLearnsFinality ==
    \A b \in Blocks : finalized = b ~> IsPrefix(b, net.finalized) \/ b \in unsent

(* The client is the kind of node the archive follows: under concurrent      *)
(* imports, finality and fork choice its database is a growing tree with a   *)
(* head that moves only by an import or to a stored block off its chain.     *)
Node == INSTANCE ChainSource WITH imported <- stored, main <- best
ImplementsChainSource == Node!Spec
=============================================================================
