------------------------ MODULE ArchivePipelineProofs ------------------------
(***************************************************************************)
(* Proofs about ArchivePipeline, for every chain, every label set and      *)
(* every bound.                                                            *)
(***************************************************************************)
EXTENDS ArchivePipeline, TLAPS

-----------------------------------------------------------------------------
(* Paths. *)

(* The canonical block with a number is a path of that length. *)
LEMMA BlockAtPath ==
    ASSUME NEW p \in Paths, NEW n \in Nat, n <= Len(p)
    PROVE  BlockAt(p, n) \in Paths /\ Len(BlockAt(p, n)) = n
  BY ChainAssumption DEF BlockAt, Paths, MaxHeight

(* The runtime after a block has a version. *)
LEMMA VersionIsNat ==
    ASSUME NEW p \in Paths
    PROVE  SpecVersion(p) \in Nat
  BY ChainAssumption DEF SpecVersion, Paths, Genesis

(* What the executor's backend shows is a path, and so is each block in it. *)
LEMMA SourceIsPath ==
    ASSUME ChainOK
    PROVE  /\ source \in Paths
           /\ \A n \in Nat : SourceHas(n) => BlockAt(source, n) \in Paths
  <1>1. source \in Paths
    BY DEF ChainOK, source
  <1> QED BY <1>1, BlockAtPath DEF SourceHas

-----------------------------------------------------------------------------
(* Type correctness: one lemma per part of TypeOK that a step may change.   *)

LEMMA ChainUnchanged == ChainOK /\ UNCHANGED chainVars => ChainOK'
  BY Zenon DEF ChainOK, chainVars

LEMMA StoresUnchanged == StoresOK /\ UNCHANGED storeVars => StoresOK'
  BY DEF StoresOK, DbOK, storeVars

LEMMA LeftUnchanged == LeftOK /\ UNCHANGED left => LeftOK'
  BY DEF LeftOK

LEMMA TasksUnchanged == TasksOK /\ UNCHANGED taskVars => TasksOK'
  BY Zenon DEF TasksOK, taskVars

(* A fault uses up its bound and leaves the others. *)
LEMMA FailsLeft ==
    ASSUME LeftOK,
           NEW kind \in {"crashes", "stores", "states", "forks", "wipes"},
           Fails(kind)
    PROVE  LeftOK'
  BY DEF LeftOK, Fails

(* The end of the process leaves typed tasks and queues. *)
LEMMA ExitTasks == Exit => TasksOK'
  <1> SUFFICES ASSUME Exit PROVE TasksOK'
    OBVIOUS
  <1>1. up' \in BOOLEAN /\ init' \in BOOLEAN
    BY Zenon DEF Exit
  <1>2. execQ' \in Seq(Nat) /\ compQ' \in Seq(Nat) /\ archQ' \in Seq(Message)
    BY DEF Exit
  <1>3. exec' \in ExecTask /\ comp' \in CompTask /\ arch' \in ArchTask
    BY Zenon DEF Exit, ExecTask, CompTask, ArchTask
  <1> QED BY <1>1, <1>2, <1>3, Zenon DEF TasksOK

(* Without storages the executor panics or skips genesis. *)
LEMMA NoStoragesTasks ==
    ASSUME TasksOK, NEW n \in Nat, NEW q \in Seq(Nat), NoStorages(n, q)
    PROVE  TasksOK'
  <1>1. CASE n # 0
    BY <1>1, ExitTasks DEF NoStorages
  <1>2. CASE n = 0
    <2>1. /\ execQ' = q /\ compQ' = Append(compQ, n) /\ exec' = IdleExec
          /\ UNCHANGED <<up, init, comp, archQ, arch>>
      BY <1>2 DEF NoStorages
    <2>2. execQ' \in Seq(Nat) /\ compQ' \in Seq(Nat)
      BY <2>1 DEF TasksOK
    <2>3. exec' \in ExecTask
      BY <2>1, Zenon DEF ExecTask
    <2> QED BY <2>1, <2>2, <2>3, Zenon DEF TasksOK
  <1> QED BY <1>1, <1>2

LEMMA InitTypeOK == Init => TypeOK
  <1> SUFFICES ASSUME Init PROVE TypeOK
    OBVIOUS
  <1>1. Genesis \in Paths
    BY ChainAssumption DEF Genesis, Paths, MaxHeight
  <1>2. ChainOK
    BY <1>1, Zenon DEF Init, ChainOK
  <1>3. StoresOK
    BY DEF Init, EmptyDb, DbOK, StoresOK
  <1>4. LeftOK
    BY BoundAssumption DEF Init, LeftOK
  <1>5. exec \in ExecTask /\ comp \in CompTask /\ arch \in ArchTask
    BY DEF Init, ExecTask, CompTask, ArchTask
  <1>6. up \in BOOLEAN /\ init \in BOOLEAN
    BY Zenon DEF Init
  <1>7. execQ \in Seq(Nat) /\ compQ \in Seq(Nat) /\ archQ \in Seq(Message)
    BY DEF Init
  <1> QED BY <1>2, <1>3, <1>4, <1>5, <1>6, <1>7 DEF TypeOK, TasksOK

(* The stages of the tasks tell which fields they have. *)
LEMMA ExecFields ==
    ASSUME exec \in ExecTask
    PROVE  /\ exec.stage = "execute" =>
                exec \in [stage : {"execute"}, num : Nat, header : Paths]
           /\ exec.stage = "version" =>
                exec \in [stage : {"version"}, num : Nat, header : Paths,
                          body : Paths, full : BOOLEAN]
  BY DEF ExecTask, IdleExec

LEMMA CompFields ==
    ASSUME comp \in CompTask, comp.stage = "wait"
    PROVE  comp \in [stage : {"wait"}, num : Nat]
  BY DEF CompTask, IdleComp

LEMMA ArchFields ==
    ASSUME arch \in ArchTask
    PROVE  /\ arch.stage \in {"metadata", "block", "send_block"} =>
                arch \in [stage : {"metadata", "block", "send_block"}, msg : Message]
           /\ arch.stage = "send_metadata" =>
                arch \in [stage : {"send_metadata"}, msg : Message, meta : Metadata]
  BY DEF ArchTask, IdleArch

(* Startup and crashes. *)
LEMMA StartupType == TypeOK /\ (Startup \/ Crash) => TypeOK'
  <1> SUFFICES ASSUME TypeOK, Startup \/ Crash PROVE TypeOK'
    OBVIOUS
  <1> USE DEF TypeOK
  <1>1. ASSUME Start PROVE TasksOK' /\ StoresOK'
    <2>b. up' = TRUE /\ (init' = TRUE \/ init' = init)
      BY <1>1, Zenon DEF Start
    <2>1. up' \in BOOLEAN /\ init' \in BOOLEAN
      <3>1. TRUE \in BOOLEAN /\ init \in BOOLEAN
        BY Zenon DEF TasksOK
      <3>2. up' \in BOOLEAN
        BY <2>b, <3>1, Zenon
      <3>3. CASE init' = TRUE
        BY <3>1, <3>2, <3>3, Zenon
      <3>4. CASE init' = init
        BY <3>1, <3>2, <3>4, Zenon
      <3> QED BY <2>b, <3>3, <3>4
    <2>2. execQ' \in Seq(Nat)
      <3>1. execQ' = execQ \/ \E n \in ResetBlocks : execQ' = <<n>>
        BY <1>1, Zenon DEF Start
      <3>2. \A n \in ResetBlocks : n \in Nat /\ <<n>> \in Seq(Nat)
        BY BoundAssumption
      <3>3. execQ \in Seq(Nat)
        BY DEF TasksOK
      <3> QED BY <3>1, <3>2, <3>3, Zenon
    <2>a. UNCHANGED <<exec, compQ, comp, archQ, arch>>
      BY <1>1 DEF Start
    <2>3. TasksOK'
      BY <2>1, <2>2, <2>a, Zenon DEF TasksOK
    <2> QED BY <1>1, <2>3, StoresUnchanged DEF Start
  <1>2. CASE StartNode
    <2>1. ChainOK'
      BY <1>2, Zenon DEF StartNode, Start, ChainOK
    <2> QED BY <1>1, <1>2, <2>1, LeftUnchanged DEF StartNode
  <1>3. CASE StartInNewFolder
    <2>1. Genesis \in Paths
      BY ChainAssumption DEF Genesis, Paths, MaxHeight
    <2>2. ChainOK'
      BY <1>3, <2>1, Zenon DEF StartInNewFolder, Start, ChainOK
    <2> QED BY <1>1, <1>3, <2>2, FailsLeft DEF StartInNewFolder
  <1>4. CASE InitializerRun
    <2>1. PICK n \in ResumeFrom :
             execQ' = Append(execQ, n)
      BY <1>4 DEF InitializerRun
    <2>2. n \in Nat
      BY <2>1 DEF ResumeFrom, MaxBlockNum, StoresOK, DbOK
    <2>3. execQ' \in Seq(Nat)
      BY <2>1, <2>2 DEF TasksOK
    <2>4. TasksOK'
      BY <1>4, <2>3, Zenon DEF InitializerRun, TasksOK
    <2> QED BY <1>4, <2>4, ChainUnchanged, StoresUnchanged, LeftUnchanged
            DEF InitializerRun
  <1>5. CASE InitializerPanic
    BY <1>5, ExitTasks, ChainUnchanged, StoresUnchanged, FailsLeft
    DEF InitializerPanic
  <1>6. CASE Crash
    BY <1>6, ExitTasks, ChainUnchanged, StoresUnchanged, FailsLeft DEF Crash
  <1> QED BY <1>2, <1>3, <1>4, <1>5, <1>6 DEF Startup

(* The executor. *)
LEMMA ExecutorType == TypeOK /\ Executor => TypeOK'
  <1> SUFFICES ASSUME TypeOK, Executor PROVE TypeOK'
    OBVIOUS
  <1> USE DEF TypeOK
  <1>0. exec \in ExecTask /\ execQ \in Seq(Nat)
    BY DEF TasksOK
  <1>1. CASE ExecutorRecv
    <2> DEFINE n == Head(execQ)
    <2>1. n \in Nat /\ Tail(execQ) \in Seq(Nat)
      BY <1>0, <1>1 DEF ExecutorRecv
    <2>2. ASSUME SourceHas(n) PROVE TasksOK'
      <3>1. /\ exec' = [stage |-> "execute", num |-> n, header |-> BlockAt(source, n)]
            /\ execQ' = Tail(execQ)
            /\ UNCHANGED <<up, init, compQ, comp, archQ, arch>>
        BY <1>1, <2>2 DEF ExecutorRecv
      <3>2. exec' \in ExecTask
        BY <2>1, <2>2, <3>1, SourceIsPath DEF ExecTask
      <3> QED BY <2>1, <3>1, <3>2, Zenon DEF TasksOK
    <2>3. ASSUME ~SourceHas(n) PROVE TasksOK'
      BY <1>1, <2>1, <2>3, NoStoragesTasks DEF ExecutorRecv
    <2> QED BY <1>1, <2>2, <2>3, ChainUnchanged, StoresUnchanged, LeftUnchanged
            DEF ExecutorRecv
  <1>2. CASE ExecuteBlock
    <2>1. exec \in [stage : {"execute"}, num : Nat, header : Paths]
      BY <1>0, <1>2, ExecFields DEF ExecuteBlock
    <2>2. ASSUME SourceHas(exec.num) PROVE TasksOK'
      <3> DEFINE body == BlockAt(source, exec.num)
                 full == HasChanges(exec.num, exec.header, body)
      <3>1. /\ exec' = [stage |-> "version", num |-> exec.num,
                        header |-> exec.header, body |-> body, full |-> full]
            /\ UNCHANGED <<up, init, execQ, compQ, comp, archQ, arch>>
        BY <1>2, <2>2 DEF ExecuteBlock
      <3>2. body \in Paths /\ full \in BOOLEAN
        BY <2>1, <2>2, SourceIsPath DEF HasChanges
      <3> HIDE DEF body, full
      <3>3. exec' \in ExecTask
        BY <2>1, <3>1, <3>2 DEF ExecTask
      <3> QED BY <3>1, <3>3, Zenon DEF TasksOK
    <2>3. ASSUME ~SourceHas(exec.num) PROVE TasksOK'
      BY <1>0, <1>2, <2>1, <2>3, NoStoragesTasks DEF ExecuteBlock
    <2> QED BY <1>2, <2>2, <2>3, ChainUnchanged, StoresUnchanged, LeftUnchanged
            DEF ExecuteBlock
  <1>3. CASE ExecuteBlockFails
    <2>1. exec.num \in Nat
      BY <1>0, <1>3, ExecFields DEF ExecuteBlockFails
    <2> QED BY <1>0, <1>3, <2>1, NoStoragesTasks, ChainUnchanged, StoresUnchanged,
               FailsLeft DEF ExecuteBlockFails
  <1>4. CASE SendBlock
    <2>1. exec \in [stage : {"version"}, num : Nat, header : Paths,
                    body : Paths, full : BOOLEAN]
      BY <1>0, <1>4, ExecFields DEF SendBlock
    <2>2. ASSUME SourceHas(exec.num) PROVE TasksOK'
      <3> DEFINE spec == VersionAt(exec.num)
                 msg == [num |-> exec.num, hash |-> exec.header,
                         body |-> exec.body, full |-> exec.full, spec |-> spec]
      <3>1. /\ archQ' = Append(archQ, msg) /\ compQ' = Append(compQ, exec.num)
            /\ exec' = IdleExec
            /\ UNCHANGED <<up, init, execQ, comp, arch>>
        BY <1>4, <2>2 DEF SendBlock
      <3>2. spec \in Nat
        BY <2>1, <2>2, SourceIsPath, VersionIsNat DEF VersionAt
      <3> HIDE DEF spec
      <3>3. msg \in Message
        BY <2>1, <3>2 DEF Message
      <3> HIDE DEF msg
      <3>4. archQ' \in Seq(Message) /\ compQ' \in Seq(Nat)
        BY <2>1, <3>1, <3>3 DEF TasksOK
      <3>5. exec' \in ExecTask
        BY <3>1, Zenon DEF ExecTask
      <3> QED BY <3>1, <3>4, <3>5, Zenon DEF TasksOK
    <2>3. ASSUME ~SourceHas(exec.num) PROVE TasksOK'
      BY <1>4, <2>3, ExitTasks DEF SendBlock
    <2> QED BY <1>4, <2>2, <2>3, ChainUnchanged, StoresUnchanged, LeftUnchanged
            DEF SendBlock
  <1> QED BY <1>1, <1>2, <1>3, <1>4 DEF Executor

(* The comparer. *)
LEMMA ComparerType == TypeOK /\ Comparer => TypeOK'
  <1> SUFFICES ASSUME TypeOK, Comparer PROVE TypeOK'
    OBVIOUS
  <1> USE DEF TypeOK
  <1>1. compQ # << >> => Head(compQ) \in Nat /\ Tail(compQ) \in Seq(Nat)
    BY DEF TasksOK
  <1>2. CASE CompareNext
    <2>1. execQ' \in Seq(Nat) /\ compQ' \in Seq(Nat)
      BY <1>1, <1>2 DEF CompareNext, NextNumber, TasksOK
    <2>2. TasksOK'
      BY <1>2, <2>1, Zenon DEF CompareNext, TasksOK
    <2> QED BY <1>2, <2>2, ChainUnchanged, StoresUnchanged, LeftUnchanged
            DEF CompareNext
  <1>3. CASE CompareWait
    <2>1. compQ' \in Seq(Nat) /\ comp' \in CompTask
      BY <1>1, <1>3 DEF CompareWait, CompTask
    <2>2. TasksOK'
      BY <1>3, <2>1, Zenon DEF CompareWait, TasksOK
    <2> QED BY <1>3, <2>2, ChainUnchanged, StoresUnchanged, LeftUnchanged
            DEF CompareWait
  <1>4. CASE CompareTimer
    <2>1. comp.num \in Nat
      BY <1>4, CompFields DEF CompareTimer, TasksOK
    <2>2. execQ' \in Seq(Nat) /\ comp' \in CompTask
      BY <1>4, <2>1 DEF CompareTimer, CompTask, TasksOK
    <2>3. TasksOK'
      BY <1>4, <2>2, Zenon DEF CompareTimer, TasksOK
    <2> QED BY <1>4, <2>3, ChainUnchanged, StoresUnchanged, LeftUnchanged
            DEF CompareTimer
  <1> QED BY <1>2, <1>3, <1>4 DEF Comparer

(* The notifier: first what its writes leave in the stores. *)
LEMMA MetadataModelType ==
    ASSUME ChainOK, NEW msg \in Message, msg.num <= Len(main)
    PROVE  MetadataModel(msg) \in Metadata /\ MetadataModel(msg).spec = msg.spec
  <1>1. BlockAt(main, msg.num) \in Paths
    BY BlockAtPath DEF ChainOK, Message
  <1>2. SpecVersion(BlockAt(main, msg.num)) \in Nat
    BY <1>1, VersionIsNat
  <1> QED BY <1>2 DEF MetadataModel, Metadata, Message

LEMMA InsertMetadataType ==
    ASSUME DbOK, NEW v \in Nat, NEW row \in Metadata, row.spec = v,
           db' = InsertMetadata(db, v, row)
    PROVE  DbOK' /\ DOMAIN db'.metas = DOMAIN db.metas \cup {v}
                 /\ db'.blocks = db.blocks
  <1> DEFINE t == Upsert(db.metas, v, row)
  <1>1. db' = [db EXCEPT !.metas = t]
    BY DEF InsertMetadata
  <1>2. /\ DOMAIN t = DOMAIN db.metas \cup {v} /\ t[v] = row
        /\ \A k \in DOMAIN db.metas : k # v => t[k] = db.metas[k]
    BY DEF Upsert
  <1> HIDE DEF t
  <1>3. db' = [blocks |-> db.blocks, metas |-> t]
    BY <1>1 DEF DbOK
  <1> QED BY <1>2, <1>3 DEF DbOK

LEMMA InsertBlockType ==
    ASSUME DbOK, NEW row \in Message, db' = InsertBlock(db, row)
    PROVE  DbOK' /\ DOMAIN db'.blocks = DOMAIN db.blocks \cup {row.num}
                 /\ db'.metas = db.metas
  <1> DEFINE t == Upsert(db.blocks, row.num, row)
  <1>1. db' = [db EXCEPT !.blocks = t]
    BY DEF InsertBlock
  <1>2. /\ DOMAIN t = DOMAIN db.blocks \cup {row.num} /\ t[row.num] = row
        /\ \A k \in DOMAIN db.blocks : k # row.num => t[k] = db.blocks[k]
    BY DEF Upsert
  <1> HIDE DEF t
  <1>3. db' = [blocks |-> t, metas |-> db.metas]
    BY <1>1 DEF DbOK
  <1>4. row.num \in Nat
    BY DEF Message
  <1> QED BY <1>2, <1>3, <1>4 DEF DbOK

(* Each write leaves the stores typed. *)
LEMMA WritesType ==
    ASSUME TypeOK,
           \/ WriteMetadata \/ PublishMetadata \/ WriteBlock \/ PublishBlock
           \/ UNCHANGED storeVars
    PROVE  StoresOK'
  <1> USE DEF TypeOK
  <1>0. arch \in ArchTask /\ DbOK
        /\ mq \in [blocks : SUBSET Message, metas : SUBSET Metadata]
    BY DEF TasksOK, StoresOK
  <1>1. CASE WriteMetadata
    <2>1. arch.msg \in Message /\ arch.msg.spec \in Nat
      BY <1>0, <1>1, ArchFields DEF WriteMetadata, Message
    <2>2. DbOK'
      BY <1>0, <1>1, <2>1, MetadataModelType, InsertMetadataType DEF WriteMetadata
    <2> QED BY <1>0, <1>1, <2>2 DEF WriteMetadata, StoresOK
  <1>2. CASE PublishMetadata
    <2>1. arch.meta \in Metadata
      BY <1>0, <1>2, ArchFields DEF PublishMetadata
    <2>2. mq' \in [blocks : SUBSET Message, metas : SUBSET Metadata]
      BY <1>0, <1>2, <2>1 DEF PublishMetadata
    <2> QED BY <1>0, <1>2, <2>2 DEF PublishMetadata, StoresOK, DbOK
  <1>3. CASE WriteBlock
    <2>1. arch.msg \in Message
      BY <1>0, <1>3, ArchFields DEF WriteBlock
    <2>2. DbOK'
      BY <1>0, <1>3, <2>1, InsertBlockType DEF WriteBlock
    <2> QED BY <1>0, <1>3, <2>2 DEF WriteBlock, StoresOK
  <1>4. CASE PublishBlock
    <2>1. arch.msg \in Message
      BY <1>0, <1>4, ArchFields DEF PublishBlock
    <2>2. mq' \in [blocks : SUBSET Message, metas : SUBSET Metadata]
      BY <1>0, <1>4, <2>1 DEF PublishBlock
    <2> QED BY <1>0, <1>4, <2>2 DEF PublishBlock, StoresOK, DbOK
  <1>5. CASE UNCHANGED storeVars
    BY <1>5, StoresUnchanged
  <1> QED BY <1>1, <1>2, <1>3, <1>4, <1>5

(* A step of the notifier inside one message changes only its own stage. *)
LEMMA NotifierTasks ==
    ASSUME TypeOK, arch' \in ArchTask, UNCHANGED NotifierVarsButArch
    PROVE  ChainOK' /\ TasksOK'
  <1>1. UNCHANGED chainVars /\ UNCHANGED <<up, init, execQ, exec, compQ, comp, archQ>>
    BY DEF NotifierVarsButArch
  <1>2. TasksOK'
    BY <1>1, Zenon DEF TypeOK, TasksOK
  <1> QED BY <1>1, <1>2, ChainUnchanged DEF TypeOK

LEMMA NotifierType == TypeOK /\ Notifier => TypeOK'
  <1> SUFFICES ASSUME TypeOK, Notifier PROVE TypeOK'
    OBVIOUS
  <1>0. /\ arch \in ArchTask /\ LeftOK /\ ChainOK /\ StoresOK
        /\ archQ # << >> => Head(archQ) \in Message /\ Tail(archQ) \in Seq(Message)
    BY DEF TypeOK, TasksOK
  <1>i. IdleArch \in ArchTask
    BY Zenon DEF ArchTask
  <1>1. CASE NotifierCheck
    <2>1. arch' \in ArchTask /\ archQ' \in Seq(Message)
      BY <1>0, <1>1 DEF NotifierCheck, FirstStage, ArchTask
    <2>2. TasksOK'
      BY <1>1, <2>1, Zenon DEF NotifierCheck, TypeOK, TasksOK
    <2> QED BY <1>0, <1>1, <2>2, ChainUnchanged, StoresUnchanged, LeftUnchanged
            DEF NotifierCheck, TypeOK
  <1>2. CASE NotifierCheckFails
    <2>1. archQ' \in Seq(Message)
      BY <1>0, <1>2 DEF NotifierCheckFails
    <2>2. TasksOK'
      BY <1>2, <2>1, Zenon DEF NotifierCheckFails, TypeOK, TasksOK
    <2> QED BY <1>0, <1>2, <2>2, ChainUnchanged, StoresUnchanged, FailsLeft
            DEF NotifierCheckFails, TypeOK
  <1>3. CASE ArchiveMetadata
    <2>1. arch.msg \in Message /\ arch.msg.num <= Len(main)
      BY <1>0, <1>3, ArchFields DEF ArchiveMetadata, WriteMetadata
    <2>2. MetadataModel(arch.msg) \in Metadata
      BY <1>0, <2>1, MetadataModelType
    <2>3. arch' \in ArchTask
      BY <1>3, <2>1, <2>2 DEF ArchiveMetadata, ArchTask
    <2> QED BY <1>0, <1>3, <2>3, NotifierTasks, WritesType, LeftUnchanged
            DEF ArchiveMetadata, TypeOK
  <1>4. CASE MetadataPanic
    BY <1>0, <1>4, ExitTasks, ChainUnchanged, StoresUnchanged, LeftUnchanged
    DEF MetadataPanic, Panic, TypeOK
  <1>5. CASE SendMetadata
    <2>1. arch' \in ArchTask
      BY <1>0, <1>5, ArchFields DEF SendMetadata, PublishMetadata, ArchTask
    <2> QED BY <1>0, <1>5, <2>1, NotifierTasks, WritesType, LeftUnchanged
            DEF SendMetadata, TypeOK
  <1>6. CASE ArchiveBlock
    <2>1. arch' \in ArchTask
      BY <1>0, <1>6, ArchFields DEF ArchiveBlock, WriteBlock, ArchTask
    <2> QED BY <1>0, <1>6, <2>1, NotifierTasks, WritesType, LeftUnchanged
            DEF ArchiveBlock, TypeOK
  <1>7. CASE BlockRefused
    BY <1>0, <1>i, <1>7, NotifierTasks, StoresUnchanged, LeftUnchanged
    DEF BlockRefused, TypeOK
  <1>8. CASE SendMqBlock
    BY <1>0, <1>i, <1>8, NotifierTasks, WritesType, LeftUnchanged
    DEF SendMqBlock, TypeOK
  <1>9. CASE NotifierWriteFails
    BY <1>0, <1>i, <1>9, NotifierTasks, WritesType, FailsLeft
    DEF NotifierWriteFails, TypeOK
  <1> QED BY <1>1, <1>2, <1>3, <1>4, <1>5, <1>6, <1>7, <1>8, <1>9 DEF Notifier

(* The chain under the pipeline. *)
LEMMA ChainType == TypeOK /\ Chain => TypeOK'
  <1> SUFFICES ASSUME TypeOK, Chain PROVE TypeOK'
    OBVIOUS
  <1>0. ChainOK /\ TasksOK /\ StoresOK /\ LeftOK
    BY DEF TypeOK
  <1>1. \A p \in Paths, l \in Labels :
           Len(Append(p, l)) <= MaxHeight => Append(p, l) \in Paths
    BY ChainAssumption DEF Paths
  <1>2. ASSUME NEW b, OnNet(b) PROVE LeftOK'
    BY <1>0, <1>2, FailsLeft, LeftUnchanged DEF OnNet
  <1>3. CASE ImportBlock
    <2>1. PICK parent \in imported, l \in Labels :
            /\ Len(Append(parent, l)) <= MaxHeight
            /\ OnNet(Append(parent, l))
            /\ imported' = imported \cup {Append(parent, l)}
            /\ main' \in {main, Append(parent, l)}
      BY <1>3 DEF ImportBlock, Node!Import
    <2>2. Append(parent, l) \in Paths
      BY <1>0, <1>1, <2>1 DEF ChainOK
    <2>3. main' \in Paths /\ imported' \subseteq Paths
      BY <1>0, <2>1, <2>2, Zenon DEF ChainOK
    <2>4. ChainOK'
      BY <1>0, <1>3, <2>3, Zenon DEF ImportBlock, ChainOK
    <2>5. LeftOK'
      BY <1>2, <2>1
    <2> QED BY <1>0, <1>3, <2>4, <2>5, TasksUnchanged, StoresUnchanged
            DEF ImportBlock, TypeOK
  <1>4. CASE FinalityReorg
    <2>1. main' \in Paths
      BY <1>0, <1>4 DEF FinalityReorg, Node!SetHead, ChainOK
    <2>2. ChainOK'
      BY <1>0, <1>4, <2>1, Zenon DEF FinalityReorg, Node!SetHead, ChainOK
    <2> QED BY <1>0, <1>4, <2>2, TasksUnchanged, StoresUnchanged, LeftUnchanged
            DEF FinalityReorg, TypeOK
  <1>5. CASE CatchUp
    <2>1. CASE roGenesis
      <3>1. PICK l \in Labels : /\ Len(ro) < MaxHeight /\ OnNet(Append(ro, l))
                                /\ ro' = Append(ro, l)
        BY <1>5, <2>1 DEF CatchUp
      <3>2. ro' \in Paths
        BY <1>0, <1>1, <3>1, ChainAssumption DEF ChainOK, Paths, MaxHeight
      <3>3. ChainOK'
        BY <1>0, <1>5, <2>1, <3>2, Zenon DEF CatchUp, ChainOK
      <3> QED BY <1>0, <1>2, <1>5, <3>1, <3>3, TasksUnchanged, StoresUnchanged
              DEF CatchUp, TypeOK
    <2>2. CASE ~roGenesis
      <3>1. ChainOK'
        BY <1>0, <1>5, <2>2, Zenon DEF CatchUp, ChainOK
      <3> QED BY <1>0, <1>5, <2>2, <3>1, TasksUnchanged, StoresUnchanged,
                 LeftUnchanged DEF CatchUp, TypeOK
    <2> QED BY <2>1, <2>2
  <1>6. CASE CatchUpReorg
    <2>1. PICK n \in 0..MaxHeight : ro' = BlockAt(NetChain, n)
      BY <1>6 DEF CatchUpReorg
    <2>2. ro' \in Paths
      BY <2>1, ChainAssumption, BlockAtPath DEF Paths, MaxHeight
    <2>3. ChainOK'
      BY <1>0, <1>6, <2>2, Zenon DEF CatchUpReorg, ChainOK
    <2> QED BY <1>0, <1>6, <2>3, TasksUnchanged, StoresUnchanged, LeftUnchanged
            DEF CatchUpReorg, TypeOK
  <1> QED BY <1>3, <1>4, <1>5, <1>6 DEF Chain

LEMMA StutterType == TypeOK /\ UNCHANGED vars => TypeOK'
  BY ChainUnchanged, TasksUnchanged, StoresUnchanged, LeftUnchanged
  DEF vars, TypeOK

LEMMA NextType == TypeOK /\ [Next]_vars => TypeOK'
  BY StartupType, ExecutorType, ComparerType, NotifierType, ChainType, StutterType
  DEF Next

(* Every variable keeps its shape, and every row stays under its own key.    *)
THEOREM TypeCorrect == Spec => []TypeOK
  <1>1. Init => TypeOK
    BY InitTypeOK
  <1>2. TypeOK /\ [Next]_vars => TypeOK'
    BY NextType
  <1> QED BY <1>1, <1>2, PTL DEF Spec

-----------------------------------------------------------------------------
(* One block number circulates.                                             *)

tokenVars == <<up, init, execQ, exec, compQ, comp>>

LEMMA TokenUnchanged == OneToken /\ UNCHANGED tokenVars => OneToken'
  BY Zenon DEF OneToken, Tokens, tokenVars

LEMMA TokenExit == Exit => OneToken'
  <1> SUFFICES ASSUME Exit PROVE OneToken'
    OBVIOUS
  <1>1. Count(FALSE) = 0
    BY DEF Count
  <1>2. Count(init') = 0 /\ Count(up') = 0
    BY <1>1, Zenon DEF Exit
  <1>3. Count(exec' # IdleExec) = 0 /\ Count(comp' # IdleComp) = 0
    BY DEF Exit, Count
  <1>4. Len(execQ') = 0 /\ Len(compQ') = 0
    BY DEF Exit
  <1> QED BY <1>2, <1>3, <1>4 DEF OneToken, Tokens

(* Skipping genesis hands the executor's number to the comparer. *)
LEMMA TokenNoStorages ==
    ASSUME TasksOK, OneToken, NEW n \in Nat, NEW q \in Seq(Nat), NoStorages(n, q),
           \/ exec # IdleExec /\ Len(q) = Len(execQ)
           \/ exec = IdleExec /\ Len(q) = Len(execQ) - 1
    PROVE  OneToken'
  <1>1. CASE n # 0
    BY <1>1, TokenExit DEF NoStorages
  <1>2. CASE n = 0
    <2>1. /\ Len(execQ') = Len(q) /\ Len(compQ') = Len(compQ) + 1
          /\ Len(execQ) \in Nat /\ Len(compQ) \in Nat
      BY <1>2 DEF NoStorages, TasksOK
    <2>2. /\ Count(exec' # IdleExec) = 0
          /\ Count(exec # IdleExec) = IF exec = IdleExec THEN 0 ELSE 1
      BY <1>2 DEF NoStorages, Count
    <2>3. Count(up') = Count(up) /\ Count(init') = Count(init)
          /\ Count(comp' # IdleComp) = Count(comp # IdleComp)
      BY <1>2, Zenon DEF NoStorages
    <2>4. Count(init) \in Nat /\ Count(comp # IdleComp) \in Nat
      BY DEF Count
    <2> QED BY SMTT(60), <2>1, <2>2, <2>3, <2>4 DEF OneToken, Tokens
  <1> QED BY <1>1, <1>2

LEMMA TokenNext == TypeOK /\ OneToken /\ [Next]_vars => OneToken'
  <1> SUFFICES ASSUME TypeOK, OneToken, [Next]_vars PROVE OneToken'
    OBVIOUS
  <1>0. /\ TasksOK /\ execQ \in Seq(Nat) /\ compQ \in Seq(Nat)
        /\ Len(execQ) \in Nat /\ Len(compQ) \in Nat
        /\ exec \in ExecTask /\ comp \in CompTask
    BY DEF TypeOK, TasksOK
  <1>c. /\ Count(init) \in Nat /\ Count(up) \in Nat
        /\ Count(exec # IdleExec) \in Nat /\ Count(comp # IdleComp) \in Nat
        /\ Count(TRUE) = 1 /\ Count(FALSE) = 0
    BY DEF Count
  <1>n. Len(execQ) \in Nat /\ Len(compQ) \in Nat
    BY <1>0
  <1>d. IdleExec.stage = "idle" /\ IdleComp.stage = "idle"
    BY DEF IdleExec, IdleComp
  <1>1. ASSUME Start PROVE OneToken'
    <2>1. /\ Count(up) = 0 /\ Count(up') = 1
      BY <1>1 DEF Start, Count
    <2>2. Count(init) = 0 /\ Len(execQ) = 0 /\ Count(exec # IdleExec) = 0
          /\ Len(compQ) = 0 /\ Count(comp # IdleComp) = 0
      BY <1>0, <1>c, <2>1 DEF OneToken, Tokens
    <2>3. Count(exec' # IdleExec) = 0 /\ Count(comp' # IdleComp) = 0 /\ Len(compQ') = 0
      BY <1>1, <2>2 DEF Start
    <2>4. \/ init' = TRUE /\ execQ' = execQ
          \/ init' = init /\ \E n \in ResetBlocks : execQ' = <<n>>
      BY <1>1, Zenon DEF Start
    <2>5. Count(init') + Len(execQ') = 1
      <3>1. CASE init' = TRUE /\ execQ' = execQ
        <4>1. Count(init') = 1
          BY <1>c, <3>1, Zenon
        <4> QED BY <2>2, <3>1, <4>1
      <3>2. CASE init' = init /\ \E n \in ResetBlocks : execQ' = <<n>>
        <4>1. Count(init') = 0
          BY <2>2, <3>2, Zenon
        <4>2. Len(execQ') = 1
          BY <3>2
        <4> QED BY <4>1, <4>2
      <3> QED BY <2>4, <3>1, <3>2
    <2>6. Count(init') \in Nat
      BY DEF Count
    <2>7. Len(execQ') \in Nat
      BY <1>0, <2>4, BoundAssumption
    <2> QED BY <2>1, <2>3, <2>5, <2>6, <2>7 DEF OneToken, Tokens
  <1>2. CASE StartNode \/ StartInNewFolder
    BY <1>1, <1>2 DEF StartNode, StartInNewFolder
  <1>3. CASE InitializerRun
    <2>1. Count(init) = 1 /\ Count(init') = 0
      BY <1>3 DEF InitializerRun, Count
    <2>2. Len(execQ') = Len(execQ) + 1
      BY <1>0, <1>3 DEF InitializerRun
    <2>3. UNCHANGED <<up, exec, compQ, comp>>
      BY <1>3 DEF InitializerRun
    <2>4. Count(up') = Count(up) /\ Len(compQ') = Len(compQ)
          /\ Count(exec' # IdleExec) = Count(exec # IdleExec)
          /\ Count(comp' # IdleComp) = Count(comp # IdleComp)
      BY <2>3, Zenon
    <2> QED BY <1>n, <1>c, <2>1, <2>2, <2>4 DEF OneToken, Tokens
  <1>4. CASE InitializerPanic \/ Crash \/ MetadataPanic
    BY <1>4, TokenExit DEF InitializerPanic, Crash, MetadataPanic, Panic
  <1>5. CASE ExecutorRecv
    <2>1. exec = IdleExec /\ execQ # << >> /\ Head(execQ) \in Nat
          /\ Tail(execQ) \in Seq(Nat) /\ Len(Tail(execQ)) = Len(execQ) - 1
      BY <1>0, <1>5 DEF ExecutorRecv
    <2>2. CASE SourceHas(Head(execQ))
      <3>1. exec'.stage = "execute" /\ execQ' = Tail(execQ)
            /\ UNCHANGED <<up, init, compQ, comp>>
        BY <1>5, <2>2 DEF ExecutorRecv
      <3>2. Count(exec' # IdleExec) = 1 /\ Count(exec # IdleExec) = 0
        BY <1>d, <2>1, <3>1 DEF Count
      <3>3. Count(up') = Count(up) /\ Count(init') = Count(init)
            /\ Len(compQ') = Len(compQ)
            /\ Count(comp' # IdleComp) = Count(comp # IdleComp)
        BY <3>1, Zenon
      <3> QED BY <1>n, <1>c, <2>1, <3>1, <3>2, <3>3 DEF OneToken, Tokens
    <2>3. CASE ~SourceHas(Head(execQ))
      BY <1>0, <1>5, <2>1, <2>3, TokenNoStorages DEF ExecutorRecv
    <2> QED BY <2>2, <2>3
  <1>6. CASE ExecuteBlock
    <2>1. exec # IdleExec /\ exec.num \in Nat
      BY <1>0, <1>6, <1>d, ExecFields DEF ExecuteBlock
    <2>2. CASE SourceHas(exec.num)
      <3>1. exec'.stage = "version" /\ UNCHANGED <<up, init, execQ, compQ, comp>>
        BY <1>6, <2>2 DEF ExecuteBlock
      <3>2. Count(exec' # IdleExec) = 1 /\ Count(exec # IdleExec) = 1
        BY <1>d, <2>1, <3>1 DEF Count
      <3>3. Count(up') = Count(up) /\ Count(init') = Count(init)
            /\ Len(compQ') = Len(compQ) /\ Len(execQ') = Len(execQ)
            /\ Count(comp' # IdleComp) = Count(comp # IdleComp)
        BY <3>1, Zenon
      <3> QED BY <3>2, <3>3 DEF OneToken, Tokens
    <2>3. CASE ~SourceHas(exec.num)
      BY <1>0, <1>6, <2>1, <2>3, TokenNoStorages DEF ExecuteBlock
    <2> QED BY <2>2, <2>3
  <1>7. CASE ExecuteBlockFails
    <2>1. exec # IdleExec /\ exec.num \in Nat
      BY <1>0, <1>7, <1>d, ExecFields DEF ExecuteBlockFails
    <2> QED BY <1>0, <1>7, <2>1, TokenNoStorages DEF ExecuteBlockFails
  <1>8. CASE SendBlock
    <2>1. CASE SourceHas(exec.num)
      <3>1. exec.stage = "version" /\ compQ' = Append(compQ, exec.num)
            /\ exec' = IdleExec /\ UNCHANGED <<up, init, execQ, comp>>
        BY <1>8, <2>1 DEF SendBlock
      <3>2. Count(exec' # IdleExec) = 0 /\ Count(exec # IdleExec) = 1
        BY <1>d, <3>1 DEF Count
      <3>3. Len(compQ') = Len(compQ) + 1
        BY <1>0, <3>1
      <3>4. Count(up') = Count(up) /\ Count(init') = Count(init)
            /\ Len(execQ') = Len(execQ)
            /\ Count(comp' # IdleComp) = Count(comp # IdleComp)
        BY <3>1, Zenon
      <3>5. Tokens' = Count(init) + Len(execQ) + 0 + (Len(compQ) + 1)
                          + Count(comp # IdleComp)
        BY <3>2, <3>3, <3>4, Zenon DEF Tokens
      <3>6. Tokens = Count(init) + Len(execQ) + 1 + Len(compQ) + Count(comp # IdleComp)
        BY <3>2, Zenon DEF Tokens
      <3>7. Tokens' = Tokens
        BY <1>n, <1>c, <3>5, <3>6
      <3> QED BY <3>4, <3>7 DEF OneToken
    <2>2. CASE ~SourceHas(exec.num)
      BY <1>8, <2>2, TokenExit DEF SendBlock
    <2> QED BY <2>1, <2>2
  <1>9. CASE CompareNext
    <2>1. Len(compQ') = Len(compQ) - 1 /\ Len(execQ') = Len(execQ) + 1
      BY <1>0, <1>9 DEF CompareNext
    <2>2. Count(up') = Count(up) /\ Count(init') = Count(init)
          /\ Count(exec' # IdleExec) = Count(exec # IdleExec)
          /\ Count(comp' # IdleComp) = Count(comp # IdleComp)
      BY <1>9, Zenon DEF CompareNext
    <2> QED BY <1>n, <1>c, <2>1, <2>2 DEF OneToken, Tokens
  <1>10. CASE CompareWait
    <2>1. Len(compQ') = Len(compQ) - 1
      BY <1>0, <1>10 DEF CompareWait
    <2>2. Count(comp # IdleComp) = 0 /\ Count(comp' # IdleComp) = 1
      BY <1>10, <1>d DEF CompareWait, Count
    <2>3. Count(up') = Count(up) /\ Count(init') = Count(init)
          /\ Count(exec' # IdleExec) = Count(exec # IdleExec)
          /\ Len(execQ') = Len(execQ)
      BY <1>10, Zenon DEF CompareWait
    <2> QED BY <1>n, <1>c, <2>1, <2>2, <2>3 DEF OneToken, Tokens
  <1>11. CASE CompareTimer
    <2>1. Len(execQ') = Len(execQ) + 1
      BY <1>0, <1>11 DEF CompareTimer
    <2>2. Count(comp # IdleComp) = 1 /\ Count(comp' # IdleComp) = 0
      BY <1>11, <1>d DEF CompareTimer, Count
    <2>3. Count(up') = Count(up) /\ Count(init') = Count(init)
          /\ Count(exec' # IdleExec) = Count(exec # IdleExec)
          /\ Len(compQ') = Len(compQ)
      BY <1>11, Zenon DEF CompareTimer
    <2> QED BY <1>n, <1>c, <2>1, <2>2, <2>3 DEF OneToken, Tokens
  <1>12. CASE Notifier \/ Chain \/ UNCHANGED vars
    <2>1. CASE MetadataPanic
      BY <1>4, <2>1
    <2>2. CASE UNCHANGED tokenVars
      BY <2>2, TokenUnchanged
    <2> QED BY <1>12, <2>1, <2>2
            DEF Notifier, NotifierCheck, NotifierCheckFails, ArchiveMetadata,
                SendMetadata, ArchiveBlock, BlockRefused, SendMqBlock,
                NotifierWriteFails, NotifierVarsButArch, Chain, ImportBlock,
                FinalityReorg, CatchUp, CatchUpReorg, vars, taskVars, tokenVars
  <1> QED BY <1>2, <1>3, <1>4, <1>5, <1>6, <1>7, <1>8, <1>9, <1>10, <1>11, <1>12
          DEF Next, Startup, Executor, Comparer

(* While the node runs exactly one block number circulates, and none when it *)
(* is down: no restart, panic, skipped genesis or expired timer adds or      *)
(* loses one.                                                                *)
THEOREM TokenUnique == Spec => []OneToken
  <1>1. Init => OneToken
    <2> SUFFICES ASSUME Init PROVE OneToken
      OBVIOUS
    <2>1. Count(up) = 0 /\ Count(init) = 0
      BY DEF Init, Count
    <2>2. Count(exec # IdleExec) = 0 /\ Count(comp # IdleComp) = 0
          /\ Len(execQ) = 0 /\ Len(compQ) = 0
      BY DEF Init, Count
    <2> QED BY <2>1, <2>2 DEF OneToken, Tokens
  <1>2. TypeOK /\ OneToken /\ [Next]_vars => OneToken'
    BY TokenNext
  <1> QED BY <1>1, <1>2, TypeCorrect, PTL DEF Spec

-----------------------------------------------------------------------------
(* Postgres before Kafka, metadata before blocks.                           *)

(* What a write changes: the keys it adds, and nothing else. *)
LEMMA WriteMetadataEffect ==
    ASSUME TypeOK, WriteMetadata
    PROVE  /\ arch.stage = "metadata" /\ arch.msg \in Message
           /\ MetadataModel(arch.msg).spec = arch.msg.spec
           /\ DOMAIN db'.metas = DOMAIN db.metas \cup {arch.msg.spec}
           /\ db'.blocks = db.blocks /\ mq' = mq
  <1>1. arch \in ArchTask /\ DbOK /\ ChainOK
    BY DEF TypeOK, TasksOK, StoresOK
  <1>2. arch.stage = "metadata" /\ arch.msg \in Message /\ arch.msg.spec \in Nat
    BY <1>1, ArchFields DEF WriteMetadata, Message
  <1>3. /\ MetadataModel(arch.msg) \in Metadata
        /\ MetadataModel(arch.msg).spec = arch.msg.spec
    BY <1>1, <1>2, MetadataModelType DEF WriteMetadata
  <1> QED BY <1>1, <1>2, <1>3, InsertMetadataType DEF WriteMetadata

LEMMA WriteBlockEffect ==
    ASSUME TypeOK, WriteBlock
    PROVE  /\ arch.stage = "block" /\ arch.msg \in Message
           /\ arch.msg.num < DbLimit
           /\ DOMAIN db'.blocks = DOMAIN db.blocks \cup {arch.msg.num}
           /\ db'.metas = db.metas /\ mq' = mq
  <1>1. arch \in ArchTask /\ DbOK
    BY DEF TypeOK, TasksOK, StoresOK
  <1>2. arch.stage = "block" /\ arch.msg \in Message /\ arch.msg.num < DbLimit
    BY <1>1, ArchFields DEF WriteBlock, BlockAccepted
  <1> QED BY <1>1, <1>2, InsertBlockType DEF WriteBlock

LEMMA PublishMetadataEffect ==
    ASSUME TypeOK, PublishMetadata
    PROVE  /\ arch.stage = "send_metadata" /\ db' = db
           /\ mq'.metas = mq.metas \cup {arch.meta} /\ mq'.blocks = mq.blocks
  BY DEF PublishMetadata, TypeOK, StoresOK

LEMMA PublishBlockEffect ==
    ASSUME TypeOK, PublishBlock
    PROVE  /\ arch.stage = "send_block" /\ arch.msg \in Message /\ db' = db
           /\ mq'.blocks = mq.blocks \cup {arch.msg} /\ mq'.metas = mq.metas
  <1>1. arch.msg \in Message
    BY ArchFields DEF PublishBlock, TypeOK, TasksOK
  <1> QED BY <1>1 DEF PublishBlock, TypeOK, StoresOK

(* The calls in flight and the messages sent stay backed by rows. *)
LEMMA WritesKeepOrder ==
    ASSUME TypeOK, StageOK, MqAfterDb,
           \/ WriteMetadata \/ PublishMetadata \/ WriteBlock \/ PublishBlock
           \/ UNCHANGED storeVars
    PROVE  MqAfterDb'
  <1>1. CASE WriteMetadata
    BY <1>1, WriteMetadataEffect DEF MqAfterDb
  <1>2. CASE PublishMetadata
    BY <1>2, PublishMetadataEffect DEF MqAfterDb, StageOK
  <1>3. CASE WriteBlock
    BY <1>3, WriteBlockEffect DEF MqAfterDb
  <1>4. CASE PublishBlock
    BY <1>4, PublishBlockEffect DEF MqAfterDb, StageOK
  <1>5. CASE UNCHANGED storeVars
    BY <1>5 DEF MqAfterDb, storeVars
  <1> QED BY <1>1, <1>2, <1>3, <1>4, <1>5

OrderInv == StageOK /\ MqAfterDb

(* An idle notifier has nothing in flight. *)
LEMMA IdleStage == ASSUME arch' = IdleArch PROVE StageOK'
  BY DEF StageOK, IdleArch

LEMMA OrderNext == TypeOK /\ OrderInv /\ [Next]_vars => OrderInv'
  <1> SUFFICES ASSUME TypeOK, StageOK, MqAfterDb, [Next]_vars
               PROVE  StageOK' /\ MqAfterDb'
    BY DEF OrderInv
  <1>1. CASE UNCHANGED storeVars /\ UNCHANGED arch
    BY <1>1 DEF StageOK, MqAfterDb, storeVars
  <1>2. CASE UNCHANGED storeVars /\ arch' = IdleArch
    BY <1>2, IdleStage DEF MqAfterDb, storeVars
  <1>3. CASE NotifierCheck
    <2>1. UNCHANGED storeVars
      BY <1>3 DEF NotifierCheck
    <2>2. StageOK'
      BY <1>3, <2>1 DEF NotifierCheck, FirstStage, StageOK, CheckIfMetadataExists, storeVars
    <2> QED BY <2>1, <2>2 DEF MqAfterDb, storeVars
  <1>4. CASE ArchiveMetadata
    <2>1. WriteMetadata
      BY <1>4 DEF ArchiveMetadata
    <2>2. StageOK'
      BY <1>4, <2>1, WriteMetadataEffect DEF ArchiveMetadata, StageOK
    <2> QED BY <2>1, <2>2, WritesKeepOrder
  <1>5. CASE SendMetadata
    <2>1. PublishMetadata
      BY <1>5 DEF SendMetadata
    <2>2. StageOK'
      BY <1>5, <2>1, PublishMetadataEffect DEF SendMetadata, StageOK
    <2> QED BY <2>1, <2>2, WritesKeepOrder
  <1>6. CASE ArchiveBlock
    <2>1. WriteBlock
      BY <1>6 DEF ArchiveBlock
    <2>2. StageOK'
      BY <1>6, <2>1, WriteBlockEffect DEF ArchiveBlock, StageOK
    <2> QED BY <2>1, <2>2, WritesKeepOrder
  <1>7. CASE SendMqBlock
    BY <1>7, IdleStage, WritesKeepOrder DEF SendMqBlock
  <1>8. CASE NotifierWriteFails
    BY <1>8, IdleStage, WritesKeepOrder DEF NotifierWriteFails
  <1>9. CASE NotifierCheckFails \/ BlockRefused \/ MetadataPanic
    BY <1>1, <1>2, <1>9 DEF NotifierCheckFails, BlockRefused, MetadataPanic, Panic, Exit
  <1>10. CASE Startup \/ Crash
    BY <1>1, <1>2, <1>10
    DEF Startup, StartNode, StartInNewFolder, Start, InitializerRun,
        InitializerPanic, Crash, Exit
  <1>11. CASE Executor
    BY <1>1, <1>2, <1>11
    DEF Executor, ExecutorRecv, ExecuteBlock, ExecuteBlockFails, SendBlock,
        NoStorages, Exit
  <1>12. CASE Comparer \/ Chain \/ UNCHANGED vars
    BY <1>1, <1>12
    DEF Comparer, CompareNext, CompareWait, CompareTimer, Chain, ImportBlock,
        FinalityReorg, CatchUp, CatchUpReorg, taskVars, vars
  <1> QED BY <1>3, <1>4, <1>5, <1>6, <1>7, <1>8, <1>9, <1>10, <1>11, <1>12
          DEF Next, Notifier

LEMMA OrderCorrect == Spec => []OrderInv
  <1>1. Init => OrderInv
    BY DEF Init, OrderInv, StageOK, MqAfterDb, IdleArch
  <1>2. TypeOK /\ OrderInv /\ [Next]_vars => OrderInv'
    BY OrderNext
  <1> QED BY <1>1, <1>2, TypeCorrect, PTL DEF Spec

(* Kafka announces only what Postgres holds, under any crashes, failed calls, *)
(* forks and resets.                                                         *)
THEOREM MqBacked == Spec => []MqAfterDb
  <1>1. OrderInv => MqAfterDb
    BY DEF OrderInv
  <1> QED BY <1>1, OrderCorrect, PTL

(* The insert of a block never fails on the foreign key. *)
THEOREM ForeignKeySafe == Spec => []NoForeignKeyError
  <1>1. OrderInv => NoForeignKeyError
    BY DEF OrderInv, StageOK, NoForeignKeyError, CheckIfMetadataExists
  <1> QED BY <1>1, OrderCorrect, PTL
==============================================================================
