--------------------------- MODULE ArchivePipeline ---------------------------
(***************************************************************************)
(* The archive pipeline: the Initializer, the BlockExecutor, the Comparer  *)
(* and the Notifier, four tasks joined by three unbounded channels, between *)
(* a chain that grows under them and the two stores they write, Postgres   *)
(* and Kafka.                                                              *)
(*                                                                         *)
(*   Initializer --> executor queue --> BlockExecutor --> archiver queue   *)
(*                        ^                   |               |            *)
(*                        |                   v               v            *)
(*                     Comparer <----- comparer queue      Notifier        *)
(*                                                       (db, then mq)     *)
(*                                                                         *)
(* A block is named by its path from genesis (BlockPaths).  A label tells   *)
(* the blocks with one parent apart, and the runtime that the state after  *)
(* the block holds.                                                        *)
(*                                                                         *)
(* A panic in any task ends the process (sp_panic_handler), so a panic and *)
(* a crash have the same effect: the channels and the tasks are lost, the  *)
(* backends, Postgres and Kafka stay.                                      *)
(*                                                                         *)
(* Definitions D_x are variants of D with a mistake in them; nothing uses  *)
(* them but the mutation tests of the properties.                          *)
(***************************************************************************)
EXTENDS Integers, Sequences, ArchiveDb, BlockPaths

CONSTANTS
    Labels,         \* what a block may contain, as far as we tell blocks apart
    VersionOf,      \* spec_version of the runtime after a block, by its label
    GenesisVersion, \* spec_version of the genesis runtime
    NetChain,       \* the chain the network agrees on, up to the height bound
    Readonly,       \* TRUE for Strategy::ReadonlyBackend
    ResetBlocks,    \* block_num settings used with reset_force = true
    MaxBacklog,     \* bound on the archiver queue
    MaxCrashes,     \* bound on crashes that no panic causes
    MaxStoreErrors, \* bound on failed calls of Postgres and Kafka
    MaxStateErrors, \* bound on failed reads of a block's state
    MaxForks,       \* bound on imported blocks off the network's chain
    MaxWipes        \* bound on restarts with a new, empty data directory

ASSUME ChainAssumption ==
    /\ VersionOf \in [Labels -> Nat] /\ GenesisVersion \in Nat
    /\ NetChain \in Seq(Labels)

ASSUME BoundAssumption ==
    /\ Readonly \in BOOLEAN
    /\ ResetBlocks \subseteq Nat
    /\ MaxBacklog \in Nat /\ MaxCrashes \in Nat
    /\ MaxStoreErrors \in Nat /\ MaxStateErrors \in Nat
    /\ MaxForks \in Nat /\ MaxWipes \in Nat

VARIABLES
    main,       \* canonical chain of the main backend (path of its best block)
    imported,   \* the blocks stored, with their state, in the main backend
    ro,         \* canonical chain the read-only backend shows
    roGenesis,  \* does the read-only backend show a genesis block?
    up,         \* is the process running?
    init,       \* is the Initializer's query still to come?
    execQ,      \* channel "executor": block numbers
    exec,       \* the BlockExecutor task
    compQ,      \* channel "comparer": block numbers
    comp,       \* the Comparer task: the number whose 3s timer runs, if any
    archQ,      \* channel "archiver": blocks with their storage changes
    arch,       \* the Notifier task
    db,         \* Postgres
    mq,         \* Kafka: the messages of the topics block and metadata
    left        \* what remains of the bounds on faults

chainVars == <<main, imported, ro, roGenesis>>
taskVars == <<up, init, execQ, exec, compQ, comp, archQ, arch>>
storeVars == <<db, mq>>
vars == <<chainVars, taskVars, storeVars, left>>

-----------------------------------------------------------------------------
(* Blocks. *)

MaxHeight == Len(NetChain)
Paths == {p \in Seq(Labels) : Len(p) <= MaxHeight}

(* The spec_version of the runtime in the state after a block. *)
SpecVersion(block) ==
    IF block = Genesis THEN GenesisVersion ELSE VersionOf[block[Len(block)]]

-----------------------------------------------------------------------------
(* The backend the executor reads: LocalBackendCore and RuntimeVersionCache *)
(* are built on readonly_backend, which is the main backend unless the      *)
(* strategy is ReadonlyBackend.                                             *)
source == IF Readonly THEN ro ELSE main
SourceHas(n) == n <= Len(source) /\ (Readonly => roGenesis)

(* RuntimeVersionCache::get_by_id: the version of the state after the block. *)
VersionAt_ofParent(n) == SpecVersion(BlockAt(source, n - 1))
VersionAt(n) == SpecVersion(BlockAt(source, n))

(* The tasks at rest. *)
IdleExec == [stage |-> "idle"]
IdleComp == [stage |-> "idle"]
IdleArch == [stage |-> "idle"]

Init ==
    /\ main = Genesis
    /\ imported = {Genesis}
    /\ ro = Genesis
    /\ roGenesis = ~Readonly
    /\ up = FALSE
    /\ init = FALSE
    /\ execQ = << >> /\ compQ = << >> /\ archQ = << >>
    /\ exec = IdleExec /\ comp = IdleComp /\ arch = IdleArch
    /\ db = EmptyDb
    /\ mq = [blocks |-> {}, metas |-> {}]
    /\ left = [crashes |-> MaxCrashes, stores |-> MaxStoreErrors,
               states |-> MaxStateErrors, forks |-> MaxForks, wipes |-> MaxWipes]

(* The process ends: the channels and the tasks are gone. *)
Exit ==
    /\ up' = FALSE
    /\ init' = FALSE
    /\ execQ' = << >> /\ compQ' = << >> /\ archQ' = << >>
    /\ exec' = IdleExec /\ comp' = IdleComp /\ arch' = IdleArch

Panic ==
    /\ Exit
    /\ UNCHANGED <<chainVars, storeVars, left>>

Fails(kind) == left[kind] > 0 /\ left' = [left EXCEPT ![kind] = @ - 1]

-----------------------------------------------------------------------------
(* Start of the process (new_full_base): the first block number comes from  *)
(* the configuration when reset_force is set, else from the Initializer.    *)

Start ==
    /\ ~up
    /\ up' = TRUE
    /\ \/ init' = TRUE /\ UNCHANGED execQ
       \/ \E n \in ResetBlocks : execQ' = <<n>> /\ UNCHANGED init
    /\ UNCHANGED <<ro, roGenesis, exec, compQ, comp, archQ, arch, storeVars>>

(* ... on the data directory of the last run, *)
StartNode ==
    /\ Start
    /\ UNCHANGED <<main, imported, left>>

(* ... or on a new one. *)
StartInNewFolder ==
    /\ Start
    /\ Fails("wipes")
    /\ main' = Genesis
    /\ imported' = {Genesis}

(* Initializer::run: MAX(block_num), or 0 for an empty table. *)
ResumeFrom_afterNewest ==
    IF MaxBlockNum(db) = {} THEN {0} ELSE {n + 1 : n \in MaxBlockNum(db)}
ResumeFrom_zero == {0}
ResumeFrom_one == IF MaxBlockNum(db) = {} THEN {1} ELSE MaxBlockNum(db)
ResumeFrom == IF MaxBlockNum(db) = {} THEN {0} ELSE MaxBlockNum(db)

InitializerRun ==
    /\ up /\ init
    /\ init' = FALSE
    /\ \E n \in ResumeFrom : execQ' = Append(execQ, n)
    /\ UNCHANGED <<chainVars, up, exec, compQ, comp, archQ, arch, storeVars, left>>

(* ... which panics when the query fails. *)
InitializerPanic ==
    /\ up /\ init
    /\ Fails("stores")
    /\ Exit
    /\ UNCHANGED <<chainVars, storeVars>>

(* The process is killed. *)
Crash ==
    /\ up
    /\ Fails("crashes")
    /\ Exit
    /\ UNCHANGED <<chainVars, storeVars>>

-----------------------------------------------------------------------------
(* BlockExecutor::run and archive.                                          *)
(* get_block looks the header up by number, then the body, again by number. *)

(* execute_block_and_into_storage_changes returned None: the genesis block  *)
(* is skipped, any other number panics.                                     *)
NoStorages_noCompare(n, queue) ==
    IF n # 0 THEN Exit
    ELSE /\ execQ' = queue
         /\ exec' = IdleExec
         /\ UNCHANGED <<up, init, compQ, comp, archQ, arch>>
NoStorages(n, queue) ==
    IF n # 0 THEN Exit
    ELSE /\ execQ' = queue
         /\ compQ' = Append(compQ, n)
         /\ exec' = IdleExec
         /\ UNCHANGED <<up, init, comp, archQ, arch>>

ExecutorRecv ==
    /\ up /\ exec = IdleExec /\ execQ # << >>
    /\ LET n == Head(execQ) IN
          IF SourceHas(n)
          THEN /\ exec' = [stage |-> "execute", num |-> n,
                           header |-> BlockAt(source, n)]
               /\ execQ' = Tail(execQ)
               /\ UNCHANGED <<up, init, compQ, comp, archQ, arch>>
          ELSE NoStorages(n, Tail(execQ))
    /\ UNCHANGED <<chainVars, storeVars, left>>

(* Are the storage changes those of the block?  The result of execute_block, *)
(* on the main backend, is dropped: if that backend lacks the parent, or the *)
(* body is of another block than the header (wrong extrinsics root), the     *)
(* changes are empty.  Genesis has the changes of genesis_storage.           *)
HasChanges_atBest(n, header, body) == n = 0 \/ (body = header /\ Parent(header) = main)
HasChanges(n, header, body) ==
    n = 0 \/ (body = header /\ Parent(header) \in imported)

(* The body, the state of the parent, the execution and the changes. *)
ExecuteBlock ==
    /\ up /\ exec.stage = "execute"
    /\ IF SourceHas(exec.num)
       THEN LET body == BlockAt(source, exec.num) IN
                /\ exec' = [stage |-> "version", num |-> exec.num,
                            header |-> exec.header, body |-> body,
                            full |-> HasChanges(exec.num, exec.header, body)]
                /\ UNCHANGED <<up, init, execQ, compQ, comp, archQ, arch>>
       ELSE NoStorages(exec.num, execQ)
    /\ UNCHANGED <<chainVars, storeVars, left>>

(* get_state or into_storage_changes fails. *)
ExecuteBlockFails ==
    /\ up /\ exec.stage = "execute"
    /\ Fails("states")
    /\ NoStorages(exec.num, execQ)
    /\ UNCHANGED <<chainVars, storeVars>>

(* RuntimeVersionCache::get_by_id, a third look-up by number, then the block *)
(* goes to the archiver and the number to the comparer.  A failed look-up of *)
(* the version panics.                                                       *)
SendBlock ==
    /\ up /\ exec.stage = "version" /\ Len(archQ) < MaxBacklog
    /\ IF SourceHas(exec.num)
       THEN /\ archQ' = Append(archQ,
                          [num |-> exec.num, hash |-> exec.header,
                           body |-> exec.body, full |-> exec.full,
                           spec |-> VersionAt(exec.num)])
            /\ compQ' = Append(compQ, exec.num)
            /\ exec' = IdleExec
            /\ UNCHANGED <<up, init, execQ, comp, arch>>
       ELSE Exit
    /\ UNCHANGED <<chainVars, storeVars, left>>

-----------------------------------------------------------------------------
(* Comparer::compare reads the best number of the main backend once.        *)

NextNumber_best(n) == Len(main)
NextNumber(n) == n + 1

CompareNext ==
    /\ up /\ comp = IdleComp /\ compQ # << >>
    /\ Head(compQ) < Len(main)
    /\ compQ' = Tail(compQ)
    /\ execQ' = Append(execQ, NextNumber(Head(compQ)))
    /\ UNCHANGED <<chainVars, up, init, exec, comp, archQ, arch, storeVars, left>>

(* At the head it blocks on a timer of three seconds ... *)
CompareWait ==
    /\ up /\ comp = IdleComp /\ compQ # << >>
    /\ Head(compQ) >= Len(main)
    /\ compQ' = Tail(compQ)
    /\ comp' = [stage |-> "wait", num |-> Head(compQ)]
    /\ UNCHANGED <<chainVars, up, init, execQ, exec, archQ, arch, storeVars, left>>

(* ... and sends the same number again, whatever was imported meanwhile. *)
CompareTimer_noResend ==
    /\ up /\ comp.stage = "wait"
    /\ comp' = IdleComp
    /\ UNCHANGED <<chainVars, up, init, execQ, exec, compQ, archQ, arch, storeVars, left>>
CompareTimer ==
    /\ up /\ comp.stage = "wait"
    /\ comp' = IdleComp
    /\ execQ' = Append(execQ, comp.num)
    /\ UNCHANGED <<chainVars, up, init, exec, compQ, archQ, arch, storeVars, left>>

-----------------------------------------------------------------------------
(* Notifier::archive.  An error of any call returns early, and run drops    *)
(* the error and takes the next message.                                    *)

(* The first call: metadata comes before the block unless it exists. *)
FirstStage_genesisOnly(msg) == IF msg.num > 0 THEN "block" ELSE "metadata"
FirstStage_sendFirst(msg) ==
    IF CheckIfMetadataExists(db, msg.spec) THEN "send_block" ELSE "metadata"
FirstStage(msg) == IF CheckIfMetadataExists(db, msg.spec) THEN "block" ELSE "metadata"

NotifierCheck ==
    /\ up /\ arch = IdleArch /\ archQ # << >>
    /\ arch' = [stage |-> FirstStage(Head(archQ)), msg |-> Head(archQ)]
    /\ archQ' = Tail(archQ)
    /\ UNCHANGED <<chainVars, up, init, execQ, exec, compQ, comp, storeVars, left>>

NotifierCheckFails ==
    /\ up /\ arch = IdleArch /\ archQ # << >>
    /\ Fails("stores")
    /\ archQ' = Tail(archQ)
    /\ UNCHANGED <<chainVars, up, init, execQ, exec, compQ, comp, arch, storeVars>>

(* The metadata comes from the main backend, at the block's number. *)
MetadataModel_atBest(msg) ==
    [spec |-> msg.spec, num |-> msg.num, hash |-> msg.hash,
     meta |-> SpecVersion(main)]
MetadataModel(msg) ==
    [spec |-> msg.spec, num |-> msg.num, hash |-> msg.hash,
     meta |-> SpecVersion(BlockAt(main, msg.num))]

(* The effect of the call a stage stands for, on the store it goes to. *)
WriteMetadata ==
    /\ arch.stage = "metadata" /\ arch.msg.num <= Len(main)
    /\ db' = InsertMetadata(db, arch.msg.spec, MetadataModel(arch.msg))
    /\ UNCHANGED mq

PublishMetadata ==
    /\ arch.stage = "send_metadata"
    /\ mq' = [mq EXCEPT !.metas = @ \cup {arch.meta}]
    /\ UNCHANGED db

WriteBlock ==
    /\ arch.stage = "block" /\ BlockAccepted(db, arch.msg)
    /\ db' = InsertBlock(db, arch.msg)
    /\ UNCHANGED mq

PublishBlock ==
    /\ arch.stage = "send_block"
    /\ mq' = [mq EXCEPT !.blocks = @ \cup {arch.msg}]
    /\ UNCHANGED db

NotifierVarsButArch == <<chainVars, up, init, execQ, exec, compQ, comp, archQ>>

ArchiveMetadata ==
    /\ up /\ WriteMetadata
    /\ arch' = [stage |-> "send_metadata", msg |-> arch.msg,
                meta |-> MetadataModel(arch.msg)]
    /\ UNCHANGED <<NotifierVarsButArch, left>>

(* runtime_api().metadata fails: the main backend has no such block. *)
MetadataPanic ==
    /\ up /\ arch.stage = "metadata" /\ arch.msg.num > Len(main)
    /\ Panic

SendMetadata ==
    /\ up /\ PublishMetadata
    /\ arch' = [stage |-> "block", msg |-> arch.msg]
    /\ UNCHANGED <<NotifierVarsButArch, left>>

ArchiveBlock ==
    /\ up /\ WriteBlock
    /\ arch' = [stage |-> "send_block", msg |-> arch.msg]
    /\ UNCHANGED <<NotifierVarsButArch, left>>

(* A constraint of the table refuses the row. *)
BlockRefused_sent ==
    /\ up /\ arch.stage = "block" /\ ~BlockAccepted(db, arch.msg)
    /\ arch' = [stage |-> "send_block", msg |-> arch.msg]
    /\ UNCHANGED <<NotifierVarsButArch, storeVars, left>>
BlockRefused ==
    /\ up /\ arch.stage = "block" /\ ~BlockAccepted(db, arch.msg)
    /\ arch' = IdleArch
    /\ UNCHANGED <<NotifierVarsButArch, storeVars, left>>

SendMqBlock ==
    /\ up /\ PublishBlock
    /\ arch' = IdleArch
    /\ UNCHANGED <<NotifierVarsButArch, left>>

(* A write or a send reports an error, with or without having taken effect   *)
(* (the answer may be what was lost).                                        *)
NotifierWriteFails ==
    /\ up /\ arch # IdleArch
    /\ Fails("stores")
    /\ \/ WriteMetadata \/ PublishMetadata \/ WriteBlock \/ PublishBlock
       \/ UNCHANGED storeVars
    /\ arch' = IdleArch
    /\ UNCHANGED NotifierVarsButArch

-----------------------------------------------------------------------------
(* The chain under the pipeline.  The node imports a block on a stored      *)
(* parent and may take it as its best one (ChainSource).  Blocks off the    *)
(* network's chain are counted.                                             *)

Node == INSTANCE ChainSource WITH Blocks <- Paths

OnNet(block) ==
    IF IsPrefix(block, NetChain) THEN UNCHANGED left ELSE Fails("forks")

ImportBlock ==
    /\ up
    /\ \E parent \in imported, l \in Labels :
          LET block == Append(parent, l) IN
          /\ Len(block) <= MaxHeight
          /\ Node!Import(block)
          /\ OnNet(block)
    /\ UNCHANGED <<ro, roGenesis, taskVars, storeVars>>

(* Finality on a block off the best chain makes that block the best one, at  *)
(* whatever height it is (apply_finality_with_block_hash, mark_head).        *)
FinalityReorg ==
    /\ up
    /\ \E block \in imported : IsPrefix(block, NetChain) /\ Node!SetHead(block)
    /\ UNCHANGED <<ro, roGenesis, taskVars, storeVars, left>>

(* The read-only backend follows the database of another node: it shows more *)
(* blocks after SecondaryRocksDb caught up with its primary.                 *)
CatchUp ==
    /\ Readonly
    /\ IF roGenesis
       THEN /\ \E l \in Labels :
                  /\ Len(ro) < MaxHeight /\ OnNet(Append(ro, l))
                  /\ ro' = Append(ro, l)
            /\ UNCHANGED roGenesis
       ELSE roGenesis' = TRUE /\ UNCHANGED <<ro, left>>
    /\ UNCHANGED <<main, imported, taskVars, storeVars>>

CatchUpReorg ==
    /\ Readonly /\ ~IsPrefix(ro, NetChain)
    /\ \E n \in 0..MaxHeight : ro' = BlockAt(NetChain, n)
    /\ UNCHANGED <<main, imported, roGenesis, taskVars, storeVars, left>>

-----------------------------------------------------------------------------
Startup == StartNode \/ StartInNewFolder \/ InitializerRun \/ InitializerPanic
Executor == ExecutorRecv \/ ExecuteBlock \/ ExecuteBlockFails \/ SendBlock
Comparer == CompareNext \/ CompareWait \/ CompareTimer
Notifier ==
    \/ NotifierCheck \/ NotifierCheckFails
    \/ ArchiveMetadata \/ MetadataPanic \/ SendMetadata
    \/ ArchiveBlock \/ BlockRefused \/ SendMqBlock
    \/ NotifierWriteFails
Chain == ImportBlock \/ FinalityReorg \/ CatchUp \/ CatchUpReorg

Next == Startup \/ Crash \/ Executor \/ Comparer \/ Notifier \/ Chain

Spec == Init /\ [][Next]_vars

(* The tasks run on the node's executor and are polled while they can make  *)
(* progress; the operator restarts a node that stopped.                     *)
Fairness ==
    /\ WF_vars(StartNode) /\ WF_vars(InitializerRun)
    /\ WF_vars(Executor) /\ WF_vars(Comparer) /\ WF_vars(Notifier)

FairSpec == Spec /\ Fairness

-----------------------------------------------------------------------------
(* Properties. *)

Message == [num : Nat, hash : Paths, body : Paths, full : BOOLEAN, spec : Nat]
Metadata == [spec : Nat, num : Nat, hash : Paths, meta : Nat]

ExecTask == {IdleExec}
    \cup [stage : {"execute"}, num : Nat, header : Paths]
    \cup [stage : {"version"}, num : Nat, header : Paths, body : Paths,
          full : BOOLEAN]
CompTask == {IdleComp} \cup [stage : {"wait"}, num : Nat]
ArchTask == {IdleArch}
    \cup [stage : {"metadata", "block", "send_block"}, msg : Message]
    \cup [stage : {"send_metadata"}, msg : Message, meta : Metadata]

(* Tables are finite maps with rows of the right shape. *)
DbOK ==
    /\ db = [blocks |-> db.blocks, metas |-> db.metas]
    /\ DOMAIN db.blocks \subseteq Nat /\ DOMAIN db.metas \subseteq Nat
    /\ \A n \in DOMAIN db.blocks : db.blocks[n] \in Message /\ db.blocks[n].num = n
    /\ \A v \in DOMAIN db.metas : db.metas[v] \in Metadata /\ db.metas[v].spec = v

ChainOK ==
    /\ main \in Paths /\ imported \subseteq Paths /\ ro \in Paths
    /\ roGenesis \in BOOLEAN
TasksOK ==
    /\ up \in BOOLEAN /\ init \in BOOLEAN
    /\ execQ \in Seq(Nat) /\ compQ \in Seq(Nat) /\ archQ \in Seq(Message)
    /\ exec \in ExecTask /\ comp \in CompTask /\ arch \in ArchTask
StoresOK == DbOK /\ mq \in [blocks : SUBSET Message, metas : SUBSET Metadata]
LeftOK == left \in [{"crashes", "stores", "states", "forks", "wipes"} -> Nat]

(* Every variable has the shape its Rust counterpart has, and a row is       *)
(* stored under its own key (BlockModel, MetadataModel).                     *)
TypeOK == ChainOK /\ TasksOK /\ StoresOK /\ LeftOK

Count(b) == IF b THEN 1 ELSE 0
Tokens ==
    Count(init) + Len(execQ) + Count(exec # IdleExec)
        + Len(compQ) + Count(comp # IdleComp)

(* One block number circulates while the node runs: through the Initializer, *)
(* the executor queue, the executor, the comparer queue or the Comparer.     *)
(* With two, blocks would be archived twice and out of order; with none, the *)
(* archive would stop for good.                                              *)
OneToken == Tokens = Count(up)

(* Notifier::archive never runs into the foreign key: when it inserts a      *)
(* block, the metadata of the block's version is in the database, whatever   *)
(* crashed or failed before.                                                 *)
NoForeignKeyError ==
    arch.stage = "block" => CheckIfMetadataExists(db, arch.msg.spec)

(* Kafka never announces what Postgres does not hold: inserts come before    *)
(* sends in Notifier::archive, and a failed insert skips the send.           *)
MqAfterDb ==
    /\ \A m \in mq.blocks : m.num \in DOMAIN db.blocks
    /\ \A m \in mq.metas : m.spec \in DOMAIN db.metas

(* The same for the calls in flight, inductively: the row behind a pending   *)
(* send is written, and so is the metadata behind a pending insert.          *)
StageOK ==
    /\ arch.stage = "block" => arch.msg.spec \in DOMAIN db.metas
    /\ arch.stage = "send_metadata" =>
          arch.msg.spec \in DOMAIN db.metas /\ arch.meta.spec = arch.msg.spec
    /\ arch.stage = "send_block" => arch.msg.num \in DOMAIN db.blocks

Published == {m.num : m \in mq.blocks}

(* The numbers on their way through the executor and the comparer, and those *)
(* the archiver has still to write.                                          *)
Elements(q) == {q[i] : i \in 1..Len(q)}
Circulating ==
    Elements(execQ) \cup Elements(compQ)
        \cup {e.num : e \in {exec} \ {IdleExec}}
        \cup {c.num : c \in {comp} \ {IdleComp}}
ToArchive ==
    {m.num : m \in Elements(archQ)} \cup {a.msg.num : a \in {arch} \ {IdleArch}}

(* No gap: a row is in the table only with all rows below it, although a     *)
(* crash loses the archiver queue and the Initializer resumes from           *)
(* MAX(block_num).  (No failed call, no reset_force.)                        *)
RowsContiguous ==
    \A n \in DOMAIN db.blocks : 0..n \subseteq DOMAIN db.blocks

(* A row that Kafka has not seen is the newest one, the one the Initializer  *)
(* resumes from: a crash between the insert and the send loses no message.   *)
UnpublishedIsNewest ==
    \A n \in DOMAIN db.blocks : n \in Published \/ n \in MaxBlockNum(db)

(* The archiver works at the newest row or above it.  The head is archived   *)
(* again every three seconds and after each restart, so rows are overwritten *)
(* and messages repeated, also with a block of another branch; but never     *)
(* those of a number below the newest row, which a reader may take as final. *)
(* (No reset_force.)                                                         *)
OnlyNewestRewritten ==
    arch # IdleArch => \A n \in DOMAIN db.blocks : n <= arch.msg.num

(* The executor skips genesis, and only genesis, when its backend does not   *)
(* have the block or its state: above genesis the table has no gap and no    *)
(* unpublished row but the newest, also with a read-only backend, failed     *)
(* reads of states and a re-set to genesis.  (Until a store call fails.)     *)
OnlyGenesisSkipped ==
    left.stores = MaxStoreErrors => \A n \in DOMAIN db.blocks :
        /\ 1..n \subseteq DOMAIN db.blocks
        /\ n = 0 \/ n \in Published \/ n \in MaxBlockNum(db)

(* No block off the network's chain has been imported or seen so far, and so *)
(* no chain has been re-organised.                                           *)
NoForkYet == left.forks = MaxForks

(* A row is one block: header, body and spec_version come from separate      *)
(* look-ups by number but belong to the same block, and with one backend the *)
(* storage changes are those of the block.  (Until a fork.)                  *)
RowSound ==
    NoForkYet => \A n \in DOMAIN db.blocks : LET row == db.blocks[n] IN
        /\ Len(row.hash) = n /\ row.body = row.hash
        /\ row.spec = SpecVersion(row.hash)
        /\ Readonly \/ row.full

(* The rows form one chain of hashes, over restarts and new data folders.    *)
(* (Until a fork.)                                                           *)
ChainLinked ==
    NoForkYet => \A n \in DOMAIN db.blocks :
        n - 1 \in DOMAIN db.blocks =>
            db.blocks[n - 1].hash = Parent(db.blocks[n].hash)

(* The metadata stored for a version is the metadata of that version, though *)
(* the version is read from the executor's backend and the metadata, later,  *)
(* from the main backend.  (Until a fork.)                                   *)
MetadataSound ==
    NoForkYet => \A v \in DOMAIN db.metas : db.metas[v].meta = v

(* The metadata row names the first archived block of its version, so no row *)
(* of the version lies before it.  (No failed call, no reset_force, until a  *)
(* fork.)                                                                    *)
MetadataAtFirstBlock ==
    NoForkYet => \A n \in DOMAIN db.blocks : db.metas[db.blocks[n].spec].num <= n

(* Step 4 of the architecture: "Archiver write data to db and mq".  The       *)
(* number that circulates has left no block behind: every smaller number     *)
(* waits for the archiver, or is in Postgres and in Kafka.                   *)
NothingSkipped ==
    \A t \in Circulating : \A k \in 0..(t - 1) :
        \/ k \in ToArchive
        \/ k \in DOMAIN db.blocks /\ k \in Published
        \/ k >= DbLimit

(* The same step for metadata: the archiver writes its data "to db and mq".  *)
(* A consumer of the block topic finds the metadata of every block in the    *)
(* metadata topic.                                                           *)
BlockMessageHasMetadata ==
    \A m \in mq.blocks : \E d \in mq.metas : d.spec = m.spec

(* "if not genesis, the main storage should not be empty": every row above   *)
(* genesis holds the changes its block made.                                 *)
MainStorageNotEmpty ==
    \A n \in DOMAIN db.blocks : n # 0 => db.blocks[n].full

(* Every block the main backend has imported is written to Postgres and sent *)
(* to Kafka, in spite of crashes.  (Fair tasks, no failed call, no fork.)    *)
EveryBlockArchived ==
    \A n \in 0..MaxHeight :
        n <= Len(main) ~> n \in DOMAIN db.blocks /\ n \in Published

(* Why nothing is skipped, as an inductive invariant.  Settled numbers need   *)
(* no more work.  What lies below a number that a task holds is settled or   *)
(* lies before it in the archiver queue; a row that is not published is what *)
(* the archiver works on next, or else the number that the executor holds.   *)
Settled(k) == k \in Published \/ k >= DbLimit
Archiving(k) == arch # IdleArch /\ arch.msg.num = k
Waiting(k, i) == \E j \in 1..i : archQ[j].num = k
Covered(k) == Settled(k) \/ Archiving(k) \/ Waiting(k, Len(archQ))

RowsSettled ==
    \A n \in DOMAIN db.blocks : n < DbLimit /\ \A k \in 0..(n - 1) : k \in Published
QueueCovered ==
    /\ arch # IdleArch => \A k \in 0..(arch.msg.num - 1) : Settled(k)
    /\ \A i \in 1..Len(archQ) : \A k \in 0..(archQ[i].num - 1) :
          Settled(k) \/ Archiving(k) \/ Waiting(k, i - 1)
TokenCovered ==
    /\ \A i \in 1..Len(execQ) : \A k \in 0..(execQ[i] - 1) : Covered(k)
    /\ exec # IdleExec => \A k \in 0..(exec.num - 1) : Covered(k)
    /\ \A i \in 1..Len(compQ) : \A k \in 0..compQ[i] : Covered(k)
    /\ comp # IdleComp => \A k \in 0..comp.num : Covered(k)
UnpublishedIsNext ==
    \A n \in DOMAIN db.blocks \ Published :
        /\ arch # IdleArch => arch.msg.num = n
        /\ arch = IdleArch /\ archQ # << >> => archQ[1].num = n
        /\ arch = IdleArch /\ archQ = << >> =>
              /\ compQ = << >> /\ comp = IdleComp
              /\ \A i \in 1..Len(execQ) : execQ[i] = n
              /\ exec # IdleExec => exec.num = n

(* The numbers in flight, the rows and the messages fit together so that no  *)
(* crash can open a gap, whatever the three queues hold.                     *)
NoGapInv == RowsSettled /\ QueueCovered /\ TokenCovered /\ UnpublishedIsNext

(* The pipeline implements the abstract archive. *)
Log == INSTANCE ArchiveLog WITH archived <- DOMAIN db.blocks, published <- Published
ImplementsArchiveLog == Log!Spec
=============================================================================
