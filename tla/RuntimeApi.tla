----------------------------- MODULE RuntimeApi -----------------------------
(***************************************************************************)
(* Calls into the runtime: the objects that MockRuntimeApi constructs, with *)
(* their overlay of uncommitted changes, and LocalCallExecutor, which finds *)
(* the state and the code for a call, while the chain grows and is         *)
(* re-organised.                                                           *)
(*                                                                         *)
(* The import queue (Client::prepare_block_storage_changes) and the        *)
(* BlockExecutor execute a block on its parent, named by hash, and take the *)
(* storage changes out of the same object.  The Notifier asks for the      *)
(* metadata at a block number.  All wait until the client is built, which  *)
(* includes the scan for local runtimes (WasmOverride).                    *)
(*                                                                         *)
(* A call that must be initialized first makes a nested call on the same   *)
(* object.  Each call runs in a transaction of the overlay; layers[1] is   *)
(* what is committed, each further layer an open transaction.              *)
(*                                                                         *)
(* Definitions D_x are variants of D with a mistake in them; nothing uses  *)
(* them but the mutation tests of the properties.                          *)
(***************************************************************************)
EXTENDS BlockPaths, WasmOverride

CONSTANTS
    Workers,        \* tasks that execute blocks: the import queue, BlockExecutor
    Notifiers,      \* tasks that ask for metadata
    Labels,         \* what tells the children of a block apart
    VersionOf,      \* spec_version of the runtime after a block, by its label
    GenesisVersion, \* spec_version of the genesis runtime
    MaxHeight,      \* bound on the number of a block
    MaxBlocks,      \* bound on the stored blocks
    WithOverrides   \* is a directory of local runtimes configured?

Tasks == Workers \cup Notifiers

ASSUME RuntimeAssumption ==
    /\ VersionOf \in [Labels -> Nat] /\ GenesisVersion \in Nat
    /\ MaxHeight \in Nat /\ MaxBlocks \in Nat
    /\ WithOverrides \in BOOLEAN
    /\ Workers \cap Notifiers = {}

VARIABLES
    stored,   \* blocks with their state in the backend
    main,     \* the best block
    task      \* what each task does, with the API object it holds

chainVars == <<stored, main>>
vars == <<chainVars, task, scrapeVars>>

SpecVersion(block) ==
    IF block = Genesis THEN GenesisVersion ELSE VersionOf[block[Len(block)]]

(* A BlockId is a hash or a number; the backend resolves it when asked. *)
ByHash(block) == [by |-> "hash", block |-> block]
ByNumber(n) == [by |-> "number", num |-> n]
Resolve(id) ==
    IF id.by = "hash" THEN stored \cap {id.block}
    ELSE {BlockAt(main, n) : n \in {id.num} \cap 0..Len(main)}

Blocks == UNION {[1..n -> Labels] : n \in 0..MaxHeight}
Idle == [stage |-> "idle"]

Init ==
    /\ ScrapeInit
    /\ stored = {Genesis} /\ main = Genesis
    /\ task = [t \in Tasks |-> Idle]

Become(t, state) ==
    task' = [task EXCEPT ![t] = state] /\ UNCHANGED <<chainVars, scrapeVars>>

-----------------------------------------------------------------------------
(* The overlay: start_transaction, commit_transaction, rollback_transaction. *)

StartTransaction(layers) == Append(layers, {})
CommitTransaction(layers) ==
    LET n == Len(layers) IN
    [i \in 1..(n - 1) |-> IF i = n - 1 THEN layers[i] \cup layers[n] ELSE layers[i]]
RollbackTransaction(layers) == SubSeq(layers, 1, Len(layers) - 1)

-----------------------------------------------------------------------------
(* runtime_api() constructs an object with an empty overlay, and             *)
(* _call_api_at opens the transaction of the call.  A call goes through the  *)
(* stages "init", "state", "code" and "run"; frames are the calls under way, *)
(* the outer one first.                                                      *)
Frame(name, stage, state, version) ==
    [name |-> name, stage |-> stage, state |-> state, version |-> version]
Calling(job, at, frames, initialized, layers) ==
    [stage |-> "call", job |-> job, at |-> at, frames |-> frames,
     initialized |-> initialized, layers |-> layers]

Construct(job, at, name, stage) ==
    Calling(job, at, <<Frame(name, stage, Genesis, 0)>>, {}, StartTransaction(<<{}>>))

(* prepare_block_storage_changes and execute_block_and_into_storage_changes: *)
(* execute_block at the hash of the parent, not initialized.                 *)
CallExecuteBlock(t) ==
    /\ t \in Workers /\ task[t] = Idle
    /\ \E block \in Blocks \ {Genesis} :
          Become(t, Construct(block, ByHash(Parent(block)), "execute_block", "state"))

(* Notifier::archive: metadata at the number, initialized. *)
CallMetadata(t) ==
    /\ t \in Notifiers /\ task[t] = Idle
    /\ \E n \in 0..MaxHeight :
          Become(t, Construct(Genesis, ByNumber(n), "metadata", "init"))

-----------------------------------------------------------------------------
(* LocalCallExecutor::contextual_call, for the innermost call of a task. *)

Innermost(t) == task[t].frames[Len(task[t].frames)]
InCall(t, stage) == task[t].stage = "call" /\ Innermost(t).stage = stage
Proceed(t, frames, initialized, layers) ==
    Become(t, Calling(task[t].job, task[t].at, frames, initialized, layers))
MoveCall(t, stage, state, version) ==
    LET frame == Frame(Innermost(t).name, stage, state, version) IN
    Proceed(t, [task[t].frames EXCEPT ![Len(task[t].frames)] = frame],
            task[t].initialized, task[t].layers)

(* The call returns an error and _call_api_at rolls its transaction back.    *)
(* With the nested initialize_block, the call around it fails too, but       *)
(* initialize_block marks the object as initialized all the same.            *)
Undone_committed(layers, frames) == <<UNION {layers[i] : i \in 1..Len(layers)}>>
Undone_innerOnly(layers, frames) == RollbackTransaction(layers)
Undone(layers, frames) ==
    IF Len(frames) = 2 THEN RollbackTransaction(RollbackTransaction(layers))
    ELSE RollbackTransaction(layers)

Fail(t, layers) ==
    Become(t, [stage |-> "returned", job |-> task[t].job, ok |-> FALSE,
               layers |-> Undone(layers, task[t].frames),
               initialized |-> IF Len(task[t].frames) = 2
                               THEN {task[t].at} ELSE task[t].initialized])

(* InitializeBlock::Do: unless the object is initialized at the block, the   *)
(* closure of call_api_at calls initialize_block, which asks for the header  *)
(* and the version of the block and then opens a transaction of its own.     *)
(* (No task makes two such calls on one object.)                             *)
InitializeBlock_skipped(t) ==
    /\ InCall(t, "init") /\ Resolve(task[t].at) # {}
    /\ MoveCall(t, "state", Genesis, 0)
InitializeBlock(t) ==
    /\ InCall(t, "init") /\ task[t].initialized # {task[t].at}
    /\ Resolve(task[t].at) # {}
    /\ Proceed(t, Append(task[t].frames, Frame("initialize_block", "state", Genesis, 0)),
               task[t].initialized, StartTransaction(task[t].layers))

(* backend.state_at *)
LoadState(t) ==
    /\ InCall(t, "state")
    /\ \E state \in Resolve(task[t].at) :
          MoveCall(t, "code", state, Innermost(t).version)

(* The code of the state, and check_override: the local runtime for the      *)
(* version at the block, which is looked up once more.                       *)
CheckOverride(state, block) ==
    IF WithOverrides /\ SpecVersion(block) \in DOMAIN overrides
    THEN SpecOf[overrides[SpecVersion(block)]] ELSE SpecVersion(state)

LoadCode(t) ==
    /\ InCall(t, "code")
    /\ LET state == Innermost(t).state IN
       \E block \in IF WithOverrides THEN Resolve(task[t].at) ELSE {state} :
          MoveCall(t, "run", state, CheckOverride(state, block))

(* A look-up finds nothing. *)
LookupFails(t) ==
    /\ \/ InCall(t, "init")
       \/ InCall(t, "state")
       \/ InCall(t, "code") /\ WithOverrides
    /\ Resolve(task[t].at) = {}
    /\ Fail(t, task[t].layers)

(* StateMachine::execute: execute_block and initialize_block write to the     *)
(* overlay.  A failed execution may have written before it failed.            *)
Written(t) ==
    LET frame == Innermost(t) IN
    IF frame.name = "metadata" THEN {}
    ELSE {[name |-> frame.name, block |-> task[t].job,
           state |-> frame.state, version |-> frame.version]}
Write(t) == [task[t].layers EXCEPT ![Len(task[t].layers)] = @ \cup Written(t)]

(* The call succeeds and its transaction is committed.  Only then is the     *)
(* result decoded: metadata may come back as an error with the changes kept, *)
(* while the () of the other calls always decodes.                           *)
Decodes(name) == IF name = "metadata" THEN BOOLEAN ELSE {TRUE}

Run(t) ==
    /\ InCall(t, "run")
    /\ IF Len(task[t].frames) = 2
       THEN Proceed(t, <<Frame(task[t].frames[1].name, "state", Genesis, 0)>>,
                    {task[t].at}, CommitTransaction(Write(t)))
       ELSE \E ok \in Decodes(Innermost(t).name) :
            Become(t, [stage |-> "returned", job |-> task[t].job, ok |-> ok,
                       layers |-> CommitTransaction(Write(t)),
                       initialized |-> task[t].initialized])

RunFails(t) == InCall(t, "run") /\ Fail(t, Write(t))

-----------------------------------------------------------------------------
(* into_storage_changes drains the object.  After an error of execute_block  *)
(* the BlockExecutor goes on to it, the import queue gives up.  The overlay  *)
(* yields the main storage changes.  The storage transaction cache, which a  *)
(* rollback does not touch, yields the backend's transaction, of which only  *)
(* the import queue makes use, after a success: the cache is left out.       *)
IntoStorageChanges(t) ==
    /\ t \in Workers /\ task[t].stage = "returned"
    /\ Become(t, [stage |-> "changes", job |-> task[t].job, ok |-> task[t].ok,
                  changes |-> task[t].layers[1]])

(* The object is dropped. *)
Drop(t) ==
    /\ \/ task[t].stage = "returned" /\ (t \in Notifiers \/ ~task[t].ok)
       \/ task[t].stage = "changes"
    /\ Become(t, Idle)

-----------------------------------------------------------------------------
(* The chain: an import, with any fork choice, and finality on a branch. *)
ImportBlock ==
    /\ Cardinality(stored) < MaxBlocks
    /\ \E parent \in stored, l \in Labels :
          LET block == Append(parent, l) IN
          /\ Len(block) <= MaxHeight /\ block \notin stored
          /\ stored' = stored \cup {block}
          /\ main' \in {main, block}
    /\ UNCHANGED <<task, scrapeVars>>

SetHead_unknown ==
    /\ \E block \in Blocks : ~IsPrefix(block, main) /\ main' = block
    /\ UNCHANGED <<stored, task, scrapeVars>>
SetHead ==
    /\ \E block \in stored : ~IsPrefix(block, main) /\ main' = block
    /\ UNCHANGED <<stored, task, scrapeVars>>

Step(t) ==
    \/ CallExecuteBlock(t) \/ CallMetadata(t)
    \/ InitializeBlock(t) \/ LoadState(t) \/ LoadCode(t) \/ LookupFails(t)
    \/ Run(t) \/ RunFails(t)
    \/ IntoStorageChanges(t) \/ Drop(t)

(* The client exists when the scan is over, or at once without a directory. *)
Built == WithOverrides => scan = "ok"

Next ==
    \/ WithOverrides /\ Scrape /\ UNCHANGED <<chainVars, task>>
    \/ Built /\ ((\E t \in Tasks : Step(t)) \/ ImportBlock \/ SetHead)

Spec == Init /\ [][Next]_vars

-----------------------------------------------------------------------------
(* Properties. *)

Change == [name : {"execute_block", "initialize_block"}, block : Blocks,
           state : Blocks, version : Nat]
Frames == [name : {"execute_block", "initialize_block", "metadata"},
           stage : {"init", "state", "code", "run"}, state : Blocks, version : Nat]
Ids == {ByHash(b) : b \in Blocks} \cup {ByNumber(n) : n \in 0..MaxHeight}
TaskState == {Idle}
    \cup [stage : {"call"}, job : Blocks, at : Ids, frames : Seq(Frames),
          initialized : SUBSET Ids, layers : Seq(SUBSET Change)]
    \cup [stage : {"returned"}, job : Blocks, ok : BOOLEAN,
          initialized : SUBSET Ids, layers : Seq(SUBSET Change)]
    \cup [stage : {"changes"}, job : Blocks, ok : BOOLEAN, changes : SUBSET Change]

(* Every variable has its shape. *)
TypeOK ==
    /\ stored \subseteq Blocks /\ main \in stored
    /\ task \in [Tasks -> TaskState]

(* Every call closes the transactions it opened, the nested ones and those   *)
(* of failed calls too: into_storage_changes finds none open.                *)
TransactionsBalanced ==
    \A t \in Tasks :
        /\ task[t].stage = "call" => Len(task[t].layers) = Len(task[t].frames) + 1
        /\ task[t].stage = "returned" => Len(task[t].layers) = 1

(* The storage changes taken from an API object are those of one execution   *)
(* of the block, on the state and with the runtime of its parent, or none if *)
(* the execution failed, whatever the chain did meanwhile: nothing of a      *)
(* failed execution gets into the archive or into the backend.               *)
BlockChanges(block) ==
    {[name |-> "execute_block", block |-> block, state |-> Parent(block),
      version |-> SpecVersion(Parent(block))]}
ChangesAreTheBlocks ==
    \A t \in Tasks : task[t].stage = "changes" =>
        task[t].changes = IF task[t].ok THEN BlockChanges(task[t].job) ELSE {}

(* The metadata are computed on an object that is initialized, with the      *)
(* changes of initialize_block in the overlay.                               *)
MetadataInitialized ==
    \A t \in Notifiers :
        task[t].stage = "call" /\ Len(task[t].frames) = 1
            /\ task[t].frames[1].stage # "init" =>
            /\ task[t].initialized = {task[t].at}
            /\ \E c \in task[t].layers[2] : c.name = "initialize_block"

(* "A custom WASM blob will override on-chain WASM if the spec version       *)
(* matches": the code of a call is of the version of the state it runs on.   *)
CodeMatches(t) ==
    InCall(t, "run") => Innermost(t).version = SpecVersion(Innermost(t).state)
OverrideMatches == \A t \in Tasks : CodeMatches(t)
=============================================================================
