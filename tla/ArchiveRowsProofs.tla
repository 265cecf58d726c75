-------------------------- MODULE ArchiveRowsProofs --------------------------
(***************************************************************************)
(* The contents of the archive: proofs about ArchivePipeline.  Until a fork *)
(* is imported or seen, the rows are blocks of the network's chain; until a *)
(* store call fails, nothing above genesis is skipped.  Which backend the   *)
(* executor reads, crashes, failed reads, panics and new data folders are   *)
(* arbitrary, unless a theorem says otherwise.                              *)
(***************************************************************************)
EXTENDS ArchiveGapProofs

(* The block of the network with a number. *)
Net(n) == BlockAt(NetChain, n)

LEMMA NetBlock ==
    ASSUME NEW n \in Nat, n <= MaxHeight
    PROVE  Net(n) \in Paths /\ Len(Net(n)) = n /\ IsPrefix(Net(n), NetChain)
  BY ChainAssumption DEF Net, BlockAt, Paths, MaxHeight, IsPrefix

LEMMA NetParent ==
    ASSUME NEW n \in Nat, n # 0, n <= MaxHeight
    PROVE  Parent(Net(n)) = Net(n - 1)
  BY ChainAssumption DEF Net, BlockAt, Parent, MaxHeight

(* The ancestors of a block on the network's chain. *)
LEMMA NetAncestor ==
    ASSUME NEW p \in Paths, IsPrefix(p, NetChain), NEW n \in Nat, n <= Len(p)
    PROVE  BlockAt(p, n) = Net(n) /\ n <= MaxHeight
  BY ChainAssumption DEF Net, BlockAt, Paths, MaxHeight, IsPrefix

LEMMA GenesisOnNet == Genesis \in Paths /\ IsPrefix(Genesis, NetChain)
  BY ChainAssumption DEF Genesis, Paths, IsPrefix, MaxHeight

-----------------------------------------------------------------------------
(* The inductive invariant. *)

(* A message about a block of the network, whole. *)
Genuine(m) ==
    /\ m.num <= MaxHeight /\ m.hash = Net(m.num) /\ m.body = m.hash
    /\ m.spec = SpecVersion(m.hash) /\ (Readonly \/ m.full)

(* A stored block has its ancestors stored, and the best block is stored. *)
PrefixClosed ==
    /\ main \in imported
    /\ \A b \in imported : \A k \in 0..Len(b) : BlockAt(b, k) \in imported

ChainsOnNet ==
    /\ IsPrefix(main, NetChain) /\ IsPrefix(ro, NetChain)
    /\ \A b \in imported : IsPrefix(b, NetChain)

ExecOnNet ==
    /\ exec.stage \in {"execute", "version"} =>
          exec.num <= MaxHeight /\ exec.header = Net(exec.num)
    /\ exec.stage = "version" => exec.body = exec.header /\ (Readonly \/ exec.full)
ArchOnNet ==
    /\ \A i \in 1..Len(archQ) : Genuine(archQ[i])
    /\ arch # IdleArch => Genuine(arch.msg)
StoresOnNet ==
    /\ \A n \in DOMAIN db.blocks : Genuine(db.blocks[n])
    /\ \A v \in DOMAIN db.metas : db.metas[v].meta = v

NetInv == ChainsOnNet /\ ExecOnNet /\ ArchOnNet /\ StoresOnNet

RowsInv == left.forks <= MaxForks /\ PrefixClosed /\ (NoForkYet => NetInv)

(* Forks are counted and never forgotten. *)
LEMMA ForksCounted ==
    ASSUME TypeOK, left.forks <= MaxForks, [Next]_vars
    PROVE  left'.forks <= MaxForks /\ (NoForkYet' => NoForkYet)
  <1>0. left.forks \in Nat /\ MaxForks \in Nat
    BY BoundAssumption DEF TypeOK, LeftOK
  <1>1. left' = left \/ \E kind \in {"crashes", "stores", "states", "forks", "wipes"} :
                           Fails(kind)
    BY Zenon
    DEF Next, Startup, StartNode, StartInNewFolder, InitializerRun,
        InitializerPanic, Crash, Executor, ExecutorRecv, ExecuteBlock,
        ExecuteBlockFails, SendBlock, Comparer, CompareNext, CompareWait,
        CompareTimer, Notifier, NotifierCheck, NotifierCheckFails,
        ArchiveMetadata, MetadataPanic, Panic, SendMetadata, ArchiveBlock,
        BlockRefused, SendMqBlock, NotifierWriteFails, Chain, ImportBlock,
        OnNet, FinalityReorg, CatchUp, CatchUpReorg, vars
  <1>2. left'.forks <= left.forks /\ left'.forks \in Int
    <2>1. CASE left' = left
      BY <1>0, <2>1
    <2>2. ASSUME NEW kind \in {"crashes", "stores", "states", "forks", "wipes"},
                 Fails(kind)
          PROVE  left'.forks <= left.forks /\ left'.forks \in Int
      BY <1>0, <2>2 DEF Fails, TypeOK, LeftOK
    <2> QED BY <1>1, <2>1, <2>2
  <1> QED BY <1>0, <1>2 DEF NoForkYet

LEMMA ForkCounts ==
    ASSUME TypeOK, left.forks <= MaxForks, Fails("forks")
    PROVE  ~NoForkYet'
  BY BoundAssumption DEF Fails, TypeOK, LeftOK, NoForkYet

-----------------------------------------------------------------------------
(* The chains. *)

(* The node's database keeps the ancestors of what it stores. *)
LEMMA ClosedNext == TypeOK /\ PrefixClosed /\ [Next]_vars => PrefixClosed'
  <1> SUFFICES ASSUME TypeOK, PrefixClosed, [Next]_vars PROVE PrefixClosed'
    OBVIOUS
  <1>1. CASE UNCHANGED <<main, imported>>
    BY <1>1 DEF PrefixClosed
  <1>2. CASE StartInNewFolder
    <2>1. main' = Genesis /\ imported' = {Genesis}
      BY <1>2 DEF StartInNewFolder
    <2>2. Len(Genesis) = 0 /\ BlockAt(Genesis, 0) = Genesis
      BY DEF Genesis, BlockAt
    <2> QED BY <2>1, <2>2 DEF PrefixClosed
  <1>3. CASE ImportBlock
    <2>1. PICK parent \in imported, l \in Labels :
             Node!Import(Append(parent, l))
      BY <1>3 DEF ImportBlock
    <2> DEFINE block == Append(parent, l)
    <2>2. imported' = imported \cup {block} /\ main' \in {main, block}
      BY <2>1 DEF Node!Import
    <2>3. parent \in Seq(Labels)
      BY DEF TypeOK, ChainOK, Paths
    <2>4. /\ Len(block) = Len(parent) + 1 /\ BlockAt(block, Len(block)) = block
          /\ \A k \in 0..Len(parent) : BlockAt(block, k) = BlockAt(parent, k)
      BY <2>3 DEF BlockAt
    <2> HIDE DEF block
    <2>5. Len(parent) \in Nat
      BY <2>3
    <2>6. \A k \in 0..Len(block) : BlockAt(block, k) \in imported'
      <3> SUFFICES ASSUME NEW k \in 0..Len(block) PROVE BlockAt(block, k) \in imported'
        OBVIOUS
      <3>1. k = Len(block) \/ k \in 0..Len(parent)
        BY <2>4, <2>5
      <3> QED BY <2>2, <2>4, <3>1 DEF PrefixClosed
    <2> QED BY <2>2, <2>6 DEF PrefixClosed
  <1>4. CASE FinalityReorg
    <2>1. main' \in imported /\ imported' = imported
      BY <1>4 DEF FinalityReorg, Node!SetHead
    <2> QED BY <2>1 DEF PrefixClosed
  <1> QED
    BY <1>1, <1>2, <1>3, <1>4
    DEF Next, Startup, StartNode, InitializerRun, InitializerPanic, Crash, Executor,
        ExecutorRecv, ExecuteBlock, ExecuteBlockFails, SendBlock, Comparer, CompareNext,
        CompareWait, CompareTimer, Notifier, NotifierCheck, NotifierCheckFails,
        ArchiveMetadata, MetadataPanic, Panic, SendMetadata, ArchiveBlock, BlockRefused,
        SendMqBlock, NotifierWriteFails, NotifierVarsButArch, Chain, CatchUp, CatchUpReorg,
        chainVars, vars

(* Without a fork both backends show the network's chain. *)
LEMMA ChainsNext ==
    ASSUME TypeOK, left.forks <= MaxForks, PrefixClosed, ChainsOnNet, NoForkYet',
           [Next]_vars
    PROVE  ChainsOnNet'
  <1>0. ~Fails("forks")
    BY ForkCounts
  <1>1. CASE UNCHANGED <<main, imported, ro>>
    BY <1>1 DEF ChainsOnNet
  <1>2. CASE StartInNewFolder
    BY <1>2, GenesisOnNet DEF StartInNewFolder, Start, ChainsOnNet
  <1>3. CASE ImportBlock
    <2>1. PICK parent \in imported, l \in Labels :
             Node!Import(Append(parent, l)) /\ OnNet(Append(parent, l))
      BY <1>3 DEF ImportBlock
    <2>2. IsPrefix(Append(parent, l), NetChain)
      BY <1>0, <2>1 DEF OnNet
    <2>3. ro' = ro
      BY <1>3 DEF ImportBlock
    <2> QED BY <2>1, <2>2, <2>3 DEF Node!Import, ChainsOnNet
  <1>4. CASE FinalityReorg
    BY <1>4 DEF FinalityReorg, Node!SetHead, ChainsOnNet
  <1>5. CASE CatchUp
    <2>1. UNCHANGED <<main, imported>>
      BY <1>5 DEF CatchUp
    <2>2. ro' = ro \/ IsPrefix(ro', NetChain)
      BY <1>0, <1>5 DEF CatchUp, OnNet
    <2> QED BY <2>1, <2>2 DEF ChainsOnNet
  <1>6. CASE CatchUpReorg
    BY <1>6 DEF CatchUpReorg, ChainsOnNet
  <1> QED
    BY <1>1, <1>2, <1>3, <1>4, <1>5, <1>6
    DEF Next, Startup, StartNode, Start, InitializerRun, InitializerPanic, Crash, Executor,
        ExecutorRecv, ExecuteBlock, ExecuteBlockFails, SendBlock, Comparer, CompareNext,
        CompareWait, CompareTimer, Notifier, NotifierCheck, NotifierCheckFails,
        ArchiveMetadata, MetadataPanic, Panic, SendMetadata, ArchiveBlock, BlockRefused,
        SendMqBlock, NotifierWriteFails, NotifierVarsButArch, Chain, chainVars, vars

-----------------------------------------------------------------------------
(* The executor. *)

(* Each of its look-ups by number finds the network's block. *)
LEMMA SourceOnNet ==
    ASSUME TypeOK, ChainsOnNet, NEW n \in Nat, SourceHas(n)
    PROVE  /\ BlockAt(source, n) = Net(n) /\ n <= MaxHeight
           /\ VersionAt(n) = SpecVersion(Net(n))
  <1>1. source \in Paths /\ IsPrefix(source, NetChain)
    BY SourceIsPath DEF TypeOK, source, ChainsOnNet
  <1>2. n <= Len(source)
    BY DEF SourceHas
  <1> QED BY <1>1, <1>2, NetAncestor DEF VersionAt

(* With one backend the parent of a block it has is stored in it. *)
LEMMA MainHasParent ==
    ASSUME TypeOK, PrefixClosed, ChainsOnNet, Readonly = FALSE,
           NEW n \in Nat, SourceHas(n)
    PROVE  HasChanges(n, Net(n), Net(n))
  <1>1. main \in Paths /\ n <= Len(main) /\ Len(main) \in Nat
    BY DEF TypeOK, ChainOK, SourceHas, source, Paths
  <1>2. n <= MaxHeight
    BY SourceOnNet
  <1>3. CASE n # 0
    <2>1. n - 1 \in Nat /\ n - 1 <= Len(main) /\ n - 1 \in 0..Len(main)
      BY <1>1, <1>3
    <2>2. BlockAt(main, n - 1) \in imported
      BY <2>1 DEF PrefixClosed
    <2>3. BlockAt(main, n - 1) = Net(n - 1)
      BY <1>1, <2>1, NetAncestor DEF ChainsOnNet
    <2>4. Parent(Net(n)) = Net(n - 1)
      BY <1>2, <1>3, NetParent
    <2> QED BY <2>2, <2>3, <2>4 DEF HasChanges
  <1> QED BY <1>3 DEF HasChanges

execVars == <<exec, archQ, arch>>

LEMMA ExecExit == Exit => ExecOnNet' /\ ArchOnNet'
  BY DEF Exit, ExecOnNet, ArchOnNet, IdleExec, IdleArch

LEMMA ExecSkips ==
    ASSUME ExecOnNet, ArchOnNet, NEW n, NEW q, NoStorages(n, q)
    PROVE  ExecOnNet' /\ ArchOnNet'
  <1>1. CASE n # 0
    BY <1>1, ExecExit DEF NoStorages
  <1>2. CASE n = 0
    BY <1>2 DEF NoStorages, ExecOnNet, ArchOnNet, IdleExec
  <1> QED BY <1>1, <1>2

LEMMA ExecutorOnNet ==
    ASSUME TypeOK, PrefixClosed, NetInv, Executor
    PROVE  ExecOnNet' /\ ArchOnNet'
  <1>0. /\ ChainsOnNet /\ ExecOnNet /\ ArchOnNet
        /\ exec \in ExecTask /\ execQ \in Seq(Nat) /\ archQ \in Seq(Message)
    BY DEF NetInv, TypeOK, TasksOK
  <1>1. CASE ExecutorRecv
    <2>1. Head(execQ) \in Nat
      BY <1>0, <1>1 DEF ExecutorRecv
    <2>2. CASE SourceHas(Head(execQ))
      <3>1. /\ exec' = [stage |-> "execute", num |-> Head(execQ),
                        header |-> BlockAt(source, Head(execQ))]
            /\ UNCHANGED <<archQ, arch>>
        BY <1>1, <2>2 DEF ExecutorRecv
      <3>2. BlockAt(source, Head(execQ)) = Net(Head(execQ)) /\ Head(execQ) <= MaxHeight
        BY <1>0, <2>1, <2>2, SourceOnNet
      <3>3. ExecOnNet'
        BY <3>1, <3>2 DEF ExecOnNet
      <3> QED BY <1>0, <3>1, <3>3 DEF ArchOnNet
    <2>3. CASE ~SourceHas(Head(execQ))
      BY <1>0, <1>1, <2>3, ExecSkips DEF ExecutorRecv
    <2> QED BY <2>2, <2>3
  <1>2. CASE ExecuteBlock
    <2>1. exec \in [stage : {"execute"}, num : Nat, header : Paths]
      BY <1>0, <1>2, ExecFields DEF ExecuteBlock
    <2>2. CASE SourceHas(exec.num)
      <3> DEFINE body == BlockAt(source, exec.num)
                 full == HasChanges(exec.num, exec.header, body)
      <3>1. /\ exec' = [stage |-> "version", num |-> exec.num,
                        header |-> exec.header, body |-> body, full |-> full]
            /\ UNCHANGED <<archQ, arch>>
        BY <1>2, <2>2 DEF ExecuteBlock
      <3>2. body = Net(exec.num) /\ exec.header = Net(exec.num) /\ exec.num <= MaxHeight
        BY <1>0, <2>1, <2>2, SourceOnNet DEF ExecOnNet
      <3>3. Readonly \/ full
        <4>1. CASE Readonly = FALSE
          <5>1. HasChanges(exec.num, Net(exec.num), Net(exec.num))
            BY <1>0, <2>1, <2>2, <4>1, MainHasParent
          <5> QED BY <3>2, <5>1
        <4> QED BY <4>1, BoundAssumption
      <3> HIDE DEF body, full
      <3>4. ExecOnNet'
        BY <3>1, <3>2, <3>3 DEF ExecOnNet
      <3> QED BY <1>0, <3>1, <3>4 DEF ArchOnNet
    <2>3. CASE ~SourceHas(exec.num)
      BY <1>0, <1>2, <2>3, ExecSkips DEF ExecuteBlock
    <2> QED BY <2>2, <2>3
  <1>3. CASE ExecuteBlockFails
    BY <1>0, <1>3, ExecSkips DEF ExecuteBlockFails
  <1>4. CASE SendBlock
    <2>1. exec \in [stage : {"version"}, num : Nat, header : Paths,
                    body : Paths, full : BOOLEAN]
      BY <1>0, <1>4, ExecFields DEF SendBlock
    <2>2. CASE SourceHas(exec.num)
      <3> DEFINE spec == VersionAt(exec.num)
                 msg == [num |-> exec.num, hash |-> exec.header,
                         body |-> exec.body, full |-> exec.full, spec |-> spec]
      <3>1. archQ' = Append(archQ, msg) /\ exec' = IdleExec /\ arch' = arch
        BY <1>4, <2>2 DEF SendBlock
      <3>2. spec = SpecVersion(Net(exec.num))
        BY <1>0, <2>1, <2>2, SourceOnNet
      <3> HIDE DEF spec
      <3>3. Genuine(msg)
        BY <1>0, <2>1, <3>2 DEF Genuine, ExecOnNet
      <3> HIDE DEF msg
      <3>4. \A i \in 1..Len(archQ') : archQ'[i] = msg
                                       \/ (i \in 1..Len(archQ) /\ archQ'[i] = archQ[i])
        BY <1>0, <3>1
      <3>5. ExecOnNet'
        BY <3>1 DEF ExecOnNet, IdleExec
      <3> QED BY <1>0, <3>1, <3>3, <3>4, <3>5 DEF ArchOnNet
    <2>3. CASE ~SourceHas(exec.num)
      BY <1>4, <2>3, ExecExit DEF SendBlock
    <2> QED BY <2>2, <2>3
  <1> QED BY <1>1, <1>2, <1>3, <1>4 DEF Executor

-----------------------------------------------------------------------------
(* The archiver and its stores. *)

(* A write puts the message or its metadata into the table. *)
LEMMA BlockRow ==
    ASSUME DbOK, NEW row \in Message, db' = InsertBlock(db, row)
    PROVE  /\ db'.blocks[row.num] = row
           /\ \A k \in DOMAIN db.blocks : k # row.num => db'.blocks[k] = db.blocks[k]
  <1> DEFINE t == Upsert(db.blocks, row.num, row)
  <1>1. db' = [db EXCEPT !.blocks = t]
    BY DEF InsertBlock
  <1>2. t[row.num] = row /\ \A k \in DOMAIN db.blocks : k # row.num => t[k] = db.blocks[k]
    BY DEF Upsert
  <1> HIDE DEF t
  <1>3. db'.blocks = t
    BY <1>1 DEF DbOK
  <1> QED BY <1>2, <1>3

LEMMA MetadataRow ==
    ASSUME DbOK, NEW v, NEW row, db' = InsertMetadata(db, v, row)
    PROVE  /\ db'.metas[v] = row
           /\ \A k \in DOMAIN db.metas : k # v => db'.metas[k] = db.metas[k]
  <1> DEFINE t == Upsert(db.metas, v, row)
  <1>1. db' = [db EXCEPT !.metas = t]
    BY DEF InsertMetadata
  <1>2. t[v] = row /\ \A k \in DOMAIN db.metas : k # v => t[k] = db.metas[k]
    BY DEF Upsert
  <1> HIDE DEF t
  <1>3. db'.metas = t
    BY <1>1 DEF DbOK
  <1> QED BY <1>2, <1>3

LEMMA WritesOnNet ==
    ASSUME TypeOK, NetInv,
           \/ WriteMetadata \/ PublishMetadata \/ WriteBlock \/ PublishBlock
           \/ UNCHANGED storeVars
    PROVE  StoresOnNet'
  <1>0. ChainsOnNet /\ ArchOnNet /\ StoresOnNet /\ DbOK /\ main \in Paths
    BY DEF NetInv, TypeOK, StoresOK, ChainOK
  <1>1. CASE WriteMetadata
    <2>1. /\ arch.stage = "metadata" /\ arch.msg \in Message
          /\ DOMAIN db'.metas = DOMAIN db.metas \cup {arch.msg.spec}
          /\ db'.blocks = db.blocks
      BY <1>1, WriteMetadataEffect
    <2>2. Genuine(arch.msg) /\ arch.msg.num \in Nat
      BY <1>0, <2>1 DEF ArchOnNet, IdleArch, Message
    <2>3. BlockAt(main, arch.msg.num) = arch.msg.hash
      BY <1>0, <1>1, <2>2, NetAncestor DEF WriteMetadata, Genuine, ChainsOnNet
    <2>4. MetadataModel(arch.msg).meta = arch.msg.spec
      BY <2>2, <2>3 DEF MetadataModel, Genuine
    <2>5. /\ db'.metas[arch.msg.spec] = MetadataModel(arch.msg)
          /\ \A k \in DOMAIN db.metas : k # arch.msg.spec => db'.metas[k] = db.metas[k]
      BY <1>0, <1>1, MetadataRow DEF WriteMetadata
    <2> QED BY <1>0, <2>1, <2>4, <2>5 DEF StoresOnNet
  <1>2. CASE WriteBlock
    <2>1. /\ arch.stage = "block" /\ arch.msg \in Message
          /\ DOMAIN db'.blocks = DOMAIN db.blocks \cup {arch.msg.num}
          /\ db'.metas = db.metas
      BY <1>2, WriteBlockEffect
    <2>2. Genuine(arch.msg)
      BY <1>0, <2>1 DEF ArchOnNet, IdleArch
    <2>3. /\ db'.blocks[arch.msg.num] = arch.msg
          /\ \A k \in DOMAIN db.blocks : k # arch.msg.num => db'.blocks[k] = db.blocks[k]
      BY <1>0, <1>2, <2>1, BlockRow DEF WriteBlock
    <2> QED BY <1>0, <2>1, <2>2, <2>3 DEF StoresOnNet
  <1>3. CASE PublishMetadata \/ PublishBlock \/ UNCHANGED storeVars
    BY <1>0, <1>3 DEF PublishMetadata, PublishBlock, storeVars, StoresOnNet
  <1> QED BY <1>1, <1>2, <1>3

LEMMA NotifierOnNet ==
    ASSUME TypeOK, NetInv, Notifier
    PROVE  ExecOnNet' /\ ArchOnNet' /\ StoresOnNet'
  <1>0. /\ ExecOnNet /\ ArchOnNet /\ StoresOnNet /\ archQ \in Seq(Message)
    BY DEF NetInv, TypeOK, TasksOK
  <1>t. archQ # << >> => /\ Genuine(Head(archQ))
                         /\ \A i \in 1..Len(Tail(archQ)) : Genuine(Tail(archQ)[i])
    BY <1>0 DEF ArchOnNet
  <1>1. CASE NotifierCheck
    <2>1. /\ archQ # << >> /\ arch'.msg = Head(archQ) /\ archQ' = Tail(archQ)
          /\ exec' = exec /\ UNCHANGED storeVars
      BY <1>1 DEF NotifierCheck
    <2> QED BY <1>0, <1>t, <2>1 DEF ExecOnNet, ArchOnNet, StoresOnNet, storeVars
  <1>2. CASE NotifierCheckFails
    <2>1. /\ archQ # << >> /\ arch' = arch /\ archQ' = Tail(archQ)
          /\ exec' = exec /\ UNCHANGED storeVars
      BY <1>2 DEF NotifierCheckFails
    <2> QED BY <1>0, <1>t, <2>1 DEF ExecOnNet, ArchOnNet, StoresOnNet, storeVars
  <1>3. CASE ArchiveMetadata \/ SendMetadata \/ ArchiveBlock
    <2>1. arch # IdleArch /\ arch'.msg = arch.msg /\ UNCHANGED <<archQ, exec>>
      BY <1>3 DEF ArchiveMetadata, SendMetadata, ArchiveBlock, WriteMetadata,
         PublishMetadata, WriteBlock, IdleArch, NotifierVarsButArch
    <2>2. StoresOnNet'
      BY <1>3, WritesOnNet DEF ArchiveMetadata, SendMetadata, ArchiveBlock
    <2> QED BY <1>0, <2>1, <2>2 DEF ExecOnNet, ArchOnNet
  <1>4. CASE BlockRefused \/ SendMqBlock \/ NotifierWriteFails
    <2>1. arch' = IdleArch /\ UNCHANGED <<archQ, exec>>
      BY <1>4 DEF BlockRefused, SendMqBlock, NotifierWriteFails, NotifierVarsButArch
    <2>2. StoresOnNet'
      BY <1>4, WritesOnNet DEF BlockRefused, SendMqBlock, NotifierWriteFails
    <2> QED BY <1>0, <2>1, <2>2 DEF ExecOnNet, ArchOnNet
  <1>5. CASE MetadataPanic
    <2>1. Exit /\ UNCHANGED storeVars
      BY <1>5 DEF MetadataPanic, Panic
    <2> QED BY <1>0, <2>1, ExecExit DEF StoresOnNet, storeVars
  <1> QED BY <1>1, <1>2, <1>3, <1>4, <1>5 DEF Notifier

-----------------------------------------------------------------------------
LEMMA RowsNext == TypeOK /\ RowsInv /\ [Next]_vars => RowsInv'
  <1> SUFFICES ASSUME TypeOK, RowsInv, [Next]_vars PROVE RowsInv'
    OBVIOUS
  <1>1. PrefixClosed' /\ left'.forks <= MaxForks
    BY ClosedNext, ForksCounted DEF RowsInv
  <1>2. ASSUME NoForkYet' PROVE NetInv'
    <2>1. NetInv /\ PrefixClosed /\ ChainsOnNet'
      BY <1>2, ForksCounted, ChainsNext DEF RowsInv, NetInv
    <2>2. CASE Executor
      <3>1. UNCHANGED storeVars
        BY <2>2 DEF Executor, ExecutorRecv, ExecuteBlock, ExecuteBlockFails, SendBlock
      <3>2. StoresOnNet'
        BY <2>1, <3>1, WritesOnNet
      <3> QED BY <2>1, <2>2, <3>2, ExecutorOnNet DEF NetInv
    <2>3. CASE Notifier
      BY <2>1, <2>3, NotifierOnNet DEF NetInv
    <2>4. CASE Exit /\ UNCHANGED storeVars
      BY <2>1, <2>4, ExecExit, WritesOnNet DEF NetInv
    <2>5. CASE UNCHANGED execVars /\ UNCHANGED storeVars
      <3>1. StoresOnNet'
        BY <2>1, <2>5, WritesOnNet
      <3>2. ExecOnNet' /\ ArchOnNet'
        BY <2>1, <2>5 DEF NetInv, ExecOnNet, ArchOnNet, execVars
      <3> QED BY <2>1, <3>1, <3>2 DEF NetInv
    <2> QED
      BY <2>2, <2>3, <2>4, <2>5
      DEF Next, Startup, StartNode, StartInNewFolder, Start, InitializerRun,
          InitializerPanic, Crash, Comparer, CompareNext, CompareWait, CompareTimer,
          Chain, ImportBlock, FinalityReorg, CatchUp, CatchUpReorg, execVars, taskVars, vars
  <1> QED BY <1>1, <1>2 DEF RowsInv

LEMMA RowsCorrect == Spec => []RowsInv
  <1>1. Init => RowsInv
    <2> SUFFICES ASSUME Init PROVE RowsInv
      OBVIOUS
    <2>1. left.forks = MaxForks
      BY DEF Init
    <2>2. PrefixClosed
      <3>1. Len(Genesis) = 0 /\ BlockAt(Genesis, 0) = Genesis
        BY DEF Genesis, BlockAt
      <3> QED BY <3>1 DEF Init, PrefixClosed
    <2>3. NetInv
      BY GenesisOnNet DEF Init, NetInv, ChainsOnNet, ExecOnNet, ArchOnNet, StoresOnNet,
         EmptyDb, IdleExec
    <2> QED BY <2>1, <2>2, <2>3, BoundAssumption DEF RowsInv
  <1>2. TypeOK /\ RowsInv /\ [Next]_vars => RowsInv'
    BY RowsNext
  <1> QED BY <1>1, <1>2, TypeCorrect, PTL DEF Spec

(* A row of the table names the network's block with its number. *)
LEMMA GenuineRow ==
    ASSUME TypeOK, RowsInv, NoForkYet, NEW n \in DOMAIN db.blocks
    PROVE  /\ n \in Nat /\ n <= MaxHeight /\ db.blocks[n].hash = Net(n)
           /\ db.blocks[n].num = n /\ Genuine(db.blocks[n])
  <1>1. n \in Nat /\ db.blocks[n].num = n
    BY DEF TypeOK, StoresOK, DbOK
  <1>2. Genuine(db.blocks[n])
    BY DEF RowsInv, NetInv, StoresOnNet
  <1> QED BY <1>1, <1>2 DEF Genuine

(* Header, body and spec_version of a row come from separate look-ups by     *)
(* number (get_block, get_by_id), with imports, catch-ups, crashes and new   *)
(* data folders between them, and still belong to one block; with the main   *)
(* backend the storage changes are that block's too.                         *)
THEOREM RowsSound == Spec => []RowSound
  <1>1. TypeOK /\ RowsInv => RowSound
    <2> SUFFICES ASSUME TypeOK, RowsInv, NoForkYet, NEW n \in DOMAIN db.blocks
                 PROVE  /\ Len(db.blocks[n].hash) = n
                        /\ db.blocks[n].body = db.blocks[n].hash
                        /\ db.blocks[n].spec = SpecVersion(db.blocks[n].hash)
                        /\ Readonly \/ db.blocks[n].full
      BY DEF RowSound
    <2>1. Len(db.blocks[n].hash) = n
      BY GenuineRow, NetBlock
    <2> QED BY <2>1, GenuineRow DEF Genuine
  <1> QED BY <1>1, TypeCorrect, RowsCorrect, PTL

(* The parent hash of a row is the hash of the row below it, although each   *)
(* row is read on its own, from whichever backend, in whichever run.         *)
THEOREM RowsLinked == Spec => []ChainLinked
  <1>1. TypeOK /\ RowsInv => ChainLinked
    <2> SUFFICES ASSUME TypeOK, RowsInv, NoForkYet, NEW n \in DOMAIN db.blocks,
                        n - 1 \in DOMAIN db.blocks
                 PROVE  db.blocks[n - 1].hash = Parent(db.blocks[n].hash)
      BY DEF ChainLinked
    <2>1. /\ n \in Nat /\ n <= MaxHeight /\ db.blocks[n].hash = Net(n)
          /\ n - 1 \in Nat /\ db.blocks[n - 1].hash = Net(n - 1)
      BY GenuineRow
    <2>2. n # 0
      BY <2>1
    <2> QED BY <2>1, <2>2, NetParent
  <1> QED BY <1>1, TypeCorrect, RowsCorrect, PTL

(* The metadata under a spec_version is of that version, although the two    *)
(* are read at different times and maybe from different backends.            *)
THEOREM MetadataOfVersion == Spec => []MetadataSound
  <1>1. RowsInv => MetadataSound
    BY DEF RowsInv, NetInv, StoresOnNet, MetadataSound
  <1> QED BY <1>1, RowsCorrect, PTL

-----------------------------------------------------------------------------
(* The metadata row of a version and the first block of the version. *)

(* A row's version has metadata, and metadata is written for a new version   *)
(* only.                                                                     *)
RowsBacked ==
    /\ \A n \in DOMAIN db.blocks : db.blocks[n].spec \in DOMAIN db.metas
    /\ arch.stage = "metadata" => arch.msg.spec \notin DOMAIN db.metas

(* The rows' half of it survives every call of the archiver, failed or not. *)
LEMMA WritesBacked ==
    ASSUME TypeOK, RowsBacked,
           \/ WriteMetadata \/ PublishMetadata \/ WriteBlock \/ PublishBlock
           \/ UNCHANGED storeVars
    PROVE  \A n \in DOMAIN db'.blocks : db'.blocks[n].spec \in DOMAIN db'.metas
  <1>1. CASE WriteMetadata
    BY <1>1, WriteMetadataEffect DEF RowsBacked
  <1>2. CASE WriteBlock
    <2>1. /\ arch.msg \in Message /\ arch.msg.spec \in DOMAIN db.metas
          /\ DOMAIN db'.blocks = DOMAIN db.blocks \cup {arch.msg.num}
          /\ db'.metas = db.metas
      BY <1>2, WriteBlockEffect DEF WriteBlock, BlockAccepted
    <2>2. /\ db'.blocks[arch.msg.num] = arch.msg
          /\ \A k \in DOMAIN db.blocks : k # arch.msg.num => db'.blocks[k] = db.blocks[k]
      BY <1>2, <2>1, BlockRow DEF WriteBlock, TypeOK, StoresOK
    <2> QED BY <2>1, <2>2 DEF RowsBacked
  <1>3. CASE PublishMetadata \/ PublishBlock \/ UNCHANGED storeVars
    BY <1>3 DEF PublishMetadata, PublishBlock, storeVars, RowsBacked
  <1> QED BY <1>1, <1>2, <1>3

LEMMA BackedNext == TypeOK /\ RowsBacked /\ [Next]_vars => RowsBacked'
  <1> SUFFICES ASSUME TypeOK, RowsBacked, [Next]_vars PROVE RowsBacked'
    OBVIOUS
  <1>1. CASE UNCHANGED <<db, arch>>
    BY <1>1 DEF RowsBacked
  <1>2. CASE Exit /\ UNCHANGED storeVars
    BY <1>2 DEF Exit, RowsBacked, IdleArch, storeVars
  <1>3. CASE NotifierCheck
    <2>1. /\ arch'.stage = FirstStage(Head(archQ)) /\ arch'.msg = Head(archQ)
          /\ db' = db
      BY <1>3 DEF NotifierCheck, storeVars
    <2> QED BY <2>1 DEF RowsBacked, FirstStage, CheckIfMetadataExists
  <1>4. CASE ArchiveMetadata \/ SendMetadata \/ ArchiveBlock \/ BlockRefused
             \/ SendMqBlock \/ NotifierWriteFails
    <2>1. arch'.stage # "metadata"
      BY <1>4 DEF ArchiveMetadata, SendMetadata, ArchiveBlock, BlockRefused,
         SendMqBlock, NotifierWriteFails, IdleArch
    <2>2. \/ WriteMetadata \/ PublishMetadata \/ WriteBlock \/ PublishBlock
          \/ UNCHANGED storeVars
      BY <1>4 DEF ArchiveMetadata, SendMetadata, ArchiveBlock, BlockRefused,
         SendMqBlock, NotifierWriteFails
    <2> QED BY <2>1, <2>2, WritesBacked DEF RowsBacked
  <1> QED
    BY <1>1, <1>2, <1>3, <1>4
    DEF Next, Startup, StartNode, StartInNewFolder, Start, InitializerRun,
        InitializerPanic, Crash, Executor, ExecutorRecv, ExecuteBlock,
        ExecuteBlockFails, NoStorages, SendBlock, Comparer, CompareNext, CompareWait,
        CompareTimer, Notifier, NotifierCheckFails, MetadataPanic, Panic, Chain,
        ImportBlock, FinalityReorg, CatchUp, CatchUpReorg, storeVars, taskVars, vars

LEMMA BackedCorrect == Spec => []RowsBacked
  <1>1. Init => RowsBacked
    BY DEF Init, RowsBacked, EmptyDb, IdleArch
  <1>2. TypeOK /\ RowsBacked /\ [Next]_vars => RowsBacked'
    BY BackedNext
  <1> QED BY <1>1, <1>2, TypeCorrect, PTL DEF Spec

(* No block below the one a metadata row names has the row's version. *)
FirstOfVersion ==
    NoForkYet => \A v \in DOMAIN db.metas : \A k \in 0..(db.metas[v].num - 1) :
        k < DbLimit => SpecVersion(Net(k)) # v

(* All lower blocks are archived when a version is new, and none has it. *)
LEMMA NewVersion ==
    ASSUME TypeOK, OrderInv, NoGapInv, RowsInv, RowsBacked, NoForkYet,
           arch.stage = "metadata", NEW k \in 0..(arch.msg.num - 1), k < DbLimit
    PROVE  SpecVersion(Net(k)) # arch.msg.spec
  <1>1. k \in Published
    <2>1. arch # IdleArch
      BY DEF IdleArch
    <2>2. arch.msg.num \in Nat /\ DbLimit \in Nat
      BY <2>1, GapTypes
    <2> QED BY <2>1, <2>2 DEF NoGapInv, QueueCovered, Settled
  <1>2. k \in DOMAIN db.blocks
    BY <1>1, PublishedInDb DEF OrderInv
  <1>3. db.blocks[k].spec = SpecVersion(Net(k))
    BY <1>2, GenuineRow DEF Genuine
  <1> QED BY <1>2, <1>3 DEF RowsBacked

LEMMA FirstNext ==
    ASSUME NoLoss, TypeOK, OrderInv, LeftZero, NoGapInv, RowsInv, RowsBacked,
           FirstOfVersion, [Next]_vars
    PROVE  FirstOfVersion'
  <1>0. /\ ~Fails("stores") /\ (NoForkYet' => NoForkYet) /\ StageOK
    BY NoFault, ForksCounted DEF RowsInv, OrderInv
  <1>1. CASE ArchiveMetadata
    <2> SUFFICES ASSUME NoForkYet', NEW v \in DOMAIN db'.metas,
                        NEW k \in 0..(db'.metas[v].num - 1), k < DbLimit
                 PROVE  SpecVersion(Net(k)) # v
      BY DEF FirstOfVersion
    <2>1. /\ arch.stage = "metadata" /\ arch.msg \in Message
          /\ DOMAIN db'.metas = DOMAIN db.metas \cup {arch.msg.spec}
      BY <1>1, WriteMetadataEffect DEF ArchiveMetadata
    <2>2. /\ db'.metas[arch.msg.spec] = MetadataModel(arch.msg)
          /\ \A j \in DOMAIN db.metas : j # arch.msg.spec => db'.metas[j] = db.metas[j]
      BY <1>1, MetadataRow DEF ArchiveMetadata, WriteMetadata, TypeOK, StoresOK
    <2>3. MetadataModel(arch.msg).num = arch.msg.num
      BY DEF MetadataModel
    <2>4. CASE v = arch.msg.spec
      BY <1>0, <2>1, <2>2, <2>3, <2>4, NewVersion
    <2>5. CASE v # arch.msg.spec
      BY <1>0, <2>1, <2>2, <2>5 DEF FirstOfVersion
    <2> QED BY <2>4, <2>5
  <1>2. CASE ArchiveBlock
    <2>1. db'.metas = db.metas
      BY <1>2, WriteBlockEffect DEF ArchiveBlock
    <2> QED BY <1>0, <2>1 DEF FirstOfVersion
  <1>3. CASE db' = db
    BY <1>0, <1>3 DEF FirstOfVersion
  <1> QED
    BY <1>0, <1>1, <1>2, <1>3
    DEF Next, Startup, StartNode, StartInNewFolder, Start, InitializerRun,
        InitializerPanic, Crash, Executor, ExecutorRecv, ExecuteBlock,
        ExecuteBlockFails, SendBlock, Comparer, CompareNext, CompareWait,
        CompareTimer, Notifier, NotifierCheck, NotifierCheckFails, SendMetadata,
        PublishMetadata, BlockRefused, SendMqBlock, PublishBlock, NotifierWriteFails,
        MetadataPanic, Panic, Chain, ImportBlock, FinalityReorg, CatchUp, CatchUpReorg,
        storeVars, vars

(* The metadata row of a version names the first archived block that has it: *)
(* Notifier::archive inserts it with the first block it meets of the version *)
(* and no block is archived out of order.                                    *)
THEOREM MetadataFirst == ASSUME NoLoss PROVE Spec => []MetadataAtFirstBlock
  <1>1. Init => LeftZero /\ FirstOfVersion
    BY DEF Init, LeftZero, NoLoss, FirstOfVersion, EmptyDb
  <1>2. TypeOK /\ OrderInv /\ NoGapInv /\ RowsInv /\ RowsBacked /\ LeftZero
           /\ FirstOfVersion /\ [Next]_vars => LeftZero' /\ FirstOfVersion'
    BY LeftZeroNext, FirstNext
  <1>3. TypeOK /\ NoGapInv /\ RowsInv /\ RowsBacked /\ FirstOfVersion
           => MetadataAtFirstBlock
    <2> SUFFICES ASSUME TypeOK, NoGapInv, RowsInv, RowsBacked, FirstOfVersion,
                        NoForkYet, NEW n \in DOMAIN db.blocks
                 PROVE  db.metas[db.blocks[n].spec].num <= n
      BY DEF MetadataAtFirstBlock
    <2> DEFINE v == db.blocks[n].spec
    <2>1. v \in DOMAIN db.metas /\ n < DbLimit
      BY DEF RowsBacked, NoGapInv, RowsSettled
    <2>2. n \in Nat /\ v = SpecVersion(Net(n))
      BY GenuineRow DEF Genuine
    <2>3. db.metas[v].num \in Nat
      BY <2>1 DEF TypeOK, StoresOK, DbOK, Metadata
    <2>4. n \notin 0..(db.metas[v].num - 1)
      BY <2>1, <2>2 DEF FirstOfVersion
    <2> QED BY <2>2, <2>3, <2>4
  <1> QED
    BY <1>1, <1>2, <1>3, TypeCorrect, OrderCorrect, NoGap, RowsCorrect, BackedCorrect,
       PTL DEF Spec

-----------------------------------------------------------------------------
(* Above genesis nothing is skipped until a store call fails, whichever       *)
(* backend the executor reads.  The argument is that of NoGapInv, from block *)
(* 1 on: the executor may give up on genesis and still pass it on.           *)

AboveRows ==
    \A n \in DOMAIN db.blocks : n < DbLimit /\ \A k \in 1..(n - 1) : k \in Published
AboveQueue ==
    /\ arch # IdleArch => \A k \in 1..(arch.msg.num - 1) : Settled(k)
    /\ \A i \in 1..Len(archQ) : \A k \in 1..(archQ[i].num - 1) :
          Settled(k) \/ Archiving(k) \/ Waiting(k, i - 1)
AboveToken ==
    /\ \A i \in 1..Len(execQ) : \A k \in 1..(execQ[i] - 1) : Covered(k)
    /\ exec # IdleExec => \A k \in 1..(exec.num - 1) : Covered(k)
    /\ \A i \in 1..Len(compQ) : \A k \in 1..compQ[i] : Covered(k)
    /\ comp # IdleComp => \A k \in 1..comp.num : Covered(k)
Above == AboveRows /\ AboveQueue /\ AboveToken

(* A step that leaves the archiver and its stores alone. *)
LEMMA AboveFrame ==
    ASSUME UNCHANGED archVars
    PROVE  /\ AboveRows => AboveRows'
           /\ AboveQueue => AboveQueue'
           /\ \A k : Covered(k)' = Covered(k)
  BY DEF Covered, Settled, Archiving, Waiting, Published, AboveRows, AboveQueue, archVars

LEMMA AboveExit == Above /\ Exit /\ UNCHANGED storeVars => Above'
  <1> SUFFICES ASSUME Above, Exit, UNCHANGED storeVars PROVE Above'
    OBVIOUS
  <1>1. AboveRows'
    BY DEF Above, AboveRows, Published, storeVars
  <1>2. AboveQueue' /\ AboveToken'
    BY DEF Exit, AboveQueue, AboveToken
  <1> QED BY <1>1, <1>2 DEF Above

(* A start takes up the number the configuration names, or asks for one. *)
LEMMA AboveStart ==
    ASSUME ResetBlocks \subseteq {0, 1}, Above, Start
    PROVE  Above'
  <1>1. UNCHANGED archVars /\ UNCHANGED <<exec, compQ, comp>>
    BY DEF Start, archVars, storeVars
  <1>2. CASE execQ' = execQ
    BY <1>1, <1>2, AboveFrame DEF Above, AboveToken
  <1>3. ASSUME NEW n \in ResetBlocks, execQ' = <<n>> PROVE Above'
    <2>1. \A i \in 1..Len(execQ') : execQ'[i] \in {0, 1}
      BY <1>3
    <2>2. \A i \in 1..Len(execQ') : \A k \in 1..(execQ'[i] - 1) : Covered(k)'
      BY <2>1
    <2> QED BY <1>1, <2>2, AboveFrame DEF Above, AboveToken
  <1> QED BY <1>2, <1>3 DEF Start

LEMMA AboveInitializer ==
    ASSUME TypeOK, Above, InitializerRun
    PROVE  Above'
  <1>0. /\ execQ \in Seq(Nat) /\ DOMAIN db.blocks \subseteq Nat
        /\ UNCHANGED archVars /\ UNCHANGED <<exec, compQ, comp>>
    BY GapTypes DEF InitializerRun, archVars, storeVars
  <1>1. PICK t \in ResumeFrom : execQ' = Append(execQ, t)
    BY DEF InitializerRun
  <1>2. t \in Nat /\ \A k \in 1..(t - 1) : Covered(k)
    BY <1>0, <1>1 DEF ResumeFrom, MaxBlockNum, Above, AboveRows, Covered, Settled
  <1>3. \A i \in 1..Len(execQ') : \/ i \in 1..Len(execQ) /\ execQ'[i] = execQ[i]
                                  \/ execQ'[i] = t
    BY <1>0, <1>1, <1>2
  <1>4. \A i \in 1..Len(execQ') : \A k \in 1..(execQ'[i] - 1) : Covered(k)
    BY <1>2, <1>3 DEF Above, AboveToken
  <1> QED BY <1>0, <1>4, AboveFrame DEF Above, AboveToken

(* The executor gives up on a number: genesis is passed on as it is. *)
LEMMA AboveNoStorages ==
    ASSUME TypeOK, Above, NEW n \in Nat, NEW q, NoStorages(n, q), UNCHANGED storeVars,
           \A i \in 1..Len(q) : \E j \in 1..Len(execQ) : q[i] = execQ[j]
    PROVE  Above'
  <1>1. CASE n # 0
    BY <1>1, AboveExit DEF NoStorages
  <1>2. CASE n = 0
    <2>1. /\ execQ' = q /\ compQ' = Append(compQ, 0) /\ exec' = IdleExec
          /\ comp' = comp /\ UNCHANGED archVars /\ compQ \in Seq(Nat)
      BY <1>2, GapTypes DEF NoStorages, archVars, storeVars
    <2>2. \A i \in 1..Len(compQ') : \/ i \in 1..Len(compQ) /\ compQ'[i] = compQ[i]
                                    \/ compQ'[i] = 0
      BY <2>1
    <2>3. \A i \in 1..Len(compQ') : \A k \in 1..compQ'[i] : Covered(k)
      BY <2>2 DEF Above, AboveToken
    <2>4. \A i \in 1..Len(execQ') : \A k \in 1..(execQ'[i] - 1) : Covered(k)
      BY <2>1 DEF Above, AboveToken
    <2> QED BY <2>1, <2>3, <2>4, AboveFrame DEF Above, AboveToken
  <1> QED BY <1>1, <1>2

LEMMA AboveExecutorRecv ==
    ASSUME TypeOK, Above, ExecutorRecv
    PROVE  Above'
  <1>0. /\ execQ \in Seq(Nat) /\ execQ # << >> /\ UNCHANGED storeVars
    BY GapTypes DEF ExecutorRecv
  <1> DEFINE n == Head(execQ)
  <1>1. n = execQ[1] /\ n \in Nat /\ 1 \in 1..Len(execQ)
    BY <1>0
  <1>2. \A i \in 1..Len(Tail(execQ)) :
           i + 1 \in 1..Len(execQ) /\ Tail(execQ)[i] = execQ[i + 1]
    BY <1>0
  <1>3. CASE SourceHas(n)
    <2>1. /\ exec'.num = n /\ execQ' = Tail(execQ)
          /\ UNCHANGED archVars /\ UNCHANGED <<compQ, comp>>
      BY <1>0, <1>3 DEF ExecutorRecv, storeVars, archVars
    <2>2. AboveToken'
      BY <1>1, <1>2, <2>1, AboveFrame DEF Above, AboveToken
    <2> QED BY <2>1, <2>2, AboveFrame DEF Above
  <1>4. CASE ~SourceHas(n)
    <2>1. NoStorages(n, Tail(execQ))
      BY <1>4 DEF ExecutorRecv
    <2> QED BY <1>0, <1>1, <1>2, <2>1, AboveNoStorages
  <1> QED BY <1>3, <1>4

LEMMA AboveExecute ==
    ASSUME TypeOK, Above, ExecuteBlock \/ ExecuteBlockFails
    PROVE  Above'
  <1>0. /\ exec # IdleExec /\ exec.num \in Nat /\ UNCHANGED storeVars
        /\ execQ \in Seq(Nat)
    BY GapTypes DEF ExecuteBlock, ExecuteBlockFails, IdleExec
  <1>1. CASE NoStorages(exec.num, execQ)
    BY <1>0, <1>1, AboveNoStorages
  <1>2. CASE ExecuteBlock /\ SourceHas(exec.num)
    <2>1. /\ exec'.num = exec.num
          /\ UNCHANGED archVars /\ UNCHANGED <<execQ, compQ, comp>>
      BY <1>0, <1>2 DEF ExecuteBlock, storeVars, archVars
    <2>2. AboveToken'
      BY <1>0, <2>1, AboveFrame DEF Above, AboveToken
    <2> QED BY <2>1, <2>2, AboveFrame DEF Above
  <1> QED BY <1>1, <1>2 DEF ExecuteBlock, ExecuteBlockFails

LEMMA AboveSendBlock ==
    ASSUME TypeOK, Above, SendBlock
    PROVE  Above'
  <1>0. /\ exec # IdleExec /\ exec.num \in Nat
        /\ archQ \in Seq(Message) /\ compQ \in Seq(Nat) /\ UNCHANGED storeVars
    BY GapTypes DEF SendBlock, IdleExec
  <1>1. CASE SourceHas(exec.num)
    <2> DEFINE msg == [num |-> exec.num, hash |-> exec.header,
                       body |-> exec.body, full |-> exec.full,
                       spec |-> VersionAt(exec.num)]
    <2>1. /\ archQ' = Append(archQ, msg) /\ compQ' = Append(compQ, exec.num)
          /\ exec' = IdleExec /\ UNCHANGED <<execQ, comp, arch, db, mq>>
      BY <1>0, <1>1 DEF SendBlock, storeVars
    <2>a. PICK t \in Nat : t = exec.num
      BY <1>0
    <2>b. PICK len \in Nat : len = Len(archQ)
      BY <1>0
    <2>2. msg.num = t
      BY <2>a
    <2> HIDE DEF msg
    <2>3. /\ Len(archQ) = len /\ Len(archQ') = len + 1
          /\ archQ'[len + 1] = msg
          /\ \A i \in 1..len : archQ'[i] = archQ[i]
      BY <1>0, <2>1, <2>b
    <2>4. \A i \in 1..Len(compQ') : \/ i \in 1..Len(compQ) /\ compQ'[i] = compQ[i]
                                    \/ compQ'[i] = t
      BY <1>0, <2>1, <2>a
    <2>5. Published' = Published
      BY <2>1 DEF Published
    <2>6. \A k : Settled(k)' = Settled(k) /\ Archiving(k)' = Archiving(k)
      BY <2>1, <2>5 DEF Settled, Archiving
    <2>7. \A k : \A i \in 0..len : Waiting(k, i)' = Waiting(k, i)
      BY <2>3 DEF Waiting
    <2>8. \A k : Waiting(k, len) => Waiting(k, len + 1)'
      BY <2>3 DEF Waiting
    <2>9. \A k : Covered(k) => Covered(k)'
      BY <2>3, <2>6, <2>8 DEF Covered
    <2>10. Covered(t)'
      BY <2>2, <2>3 DEF Covered, Waiting
    <2>11. \A k \in 1..(t - 1) : Covered(k)
      BY <1>0, <2>a DEF Above, AboveToken
    <2>12. AboveRows'
      BY <2>1, <2>5 DEF Above, AboveRows
    <2>13. AboveQueue'
      <3>1. arch' # IdleArch => \A k \in 1..(arch'.msg.num - 1) : Settled(k)'
        BY <2>1, <2>6 DEF Above, AboveQueue
      <3>2. ASSUME NEW i \in 1..len, NEW k \in 1..(archQ'[i].num - 1)
            PROVE  (Settled(k) \/ Archiving(k) \/ Waiting(k, i - 1))'
        BY <2>3, <2>6, <2>7, <3>2 DEF Above, AboveQueue
      <3>3. \A k \in 1..(archQ'[len + 1].num - 1) :
               (Settled(k) \/ Archiving(k) \/ Waiting(k, len))'
        BY <2>2, <2>3, <2>6, <2>7, <2>11 DEF Covered
      <3>4. ASSUME NEW i \in 1..Len(archQ'), NEW k \in 1..(archQ'[i].num - 1)
            PROVE  (Settled(k) \/ Archiving(k) \/ Waiting(k, i - 1))'
        <4>1. CASE i = len + 1
          <5>1. i - 1 = len
            BY <2>3, <4>1
          <5> QED BY <3>3, <3>4, <4>1, <5>1
        <4>2. CASE i # len + 1
          <5>1. i \in 1..len
            BY <2>3, <4>2
          <5> QED BY <3>2, <5>1
        <4> QED BY <4>1, <4>2
      <3> QED BY <3>1, <3>4 DEF AboveQueue
    <2>14. AboveToken'
      <3>1. ASSUME NEW i \in 1..Len(compQ'), NEW k \in 1..compQ'[i]
            PROVE  Covered(k)'
        <4>1. CASE i \in 1..Len(compQ) /\ compQ'[i] = compQ[i]
          BY <2>9, <4>1 DEF Above, AboveToken
        <4>2. CASE compQ'[i] = t
          <5>1. k = t \/ k \in 1..(t - 1)
            BY <4>2
          <5> QED BY <2>9, <2>10, <2>11, <5>1
        <4> QED BY <2>4, <4>1, <4>2
      <3> QED BY <2>1, <2>9, <3>1 DEF Above, AboveToken
    <2> QED BY <2>12, <2>13, <2>14 DEF Above
  <1>2. CASE ~SourceHas(exec.num)
    BY <1>0, <1>2, AboveExit DEF SendBlock
  <1> QED BY <1>1, <1>2

LEMMA AboveComparer ==
    ASSUME TypeOK, Above, Comparer
    PROVE  Above'
  <1>0. /\ execQ \in Seq(Nat) /\ compQ \in Seq(Nat)
        /\ comp # IdleComp => comp.num \in Nat
        /\ UNCHANGED archVars /\ exec' = exec
    BY GapTypes DEF Comparer, CompareNext, CompareWait, CompareTimer, archVars, storeVars
  <1>1. compQ # << >> =>
           /\ Head(compQ) = compQ[1] /\ compQ[1] \in Nat /\ 1 \in 1..Len(compQ)
           /\ \A i \in 1..Len(Tail(compQ)) :
                 i + 1 \in 1..Len(compQ) /\ Tail(compQ)[i] = compQ[i + 1]
    BY <1>0
  <1>2. \A t \in Nat : \A i \in 1..Len(Append(execQ, t)) :
           \/ i \in 1..Len(execQ) /\ Append(execQ, t)[i] = execQ[i]
           \/ Append(execQ, t)[i] = t
    BY <1>0
  <1>3. CASE CompareNext
    <2>1. /\ compQ # << >> /\ compQ' = Tail(compQ) /\ comp' = comp
          /\ execQ' = Append(execQ, compQ[1] + 1)
      BY <1>1, <1>3 DEF CompareNext, NextNumber
    <2>2. \A k \in 1..compQ[1] : Covered(k)
      BY <1>1, <2>1 DEF Above, AboveToken
    <2>3. ASSUME NEW i \in 1..Len(execQ'), NEW k \in 1..(execQ'[i] - 1)
          PROVE  Covered(k)
      <3>1. CASE i \in 1..Len(execQ) /\ execQ'[i] = execQ[i]
        BY <3>1 DEF Above, AboveToken
      <3>2. CASE execQ'[i] = compQ[1] + 1
        <4>1. k \in 1..compQ[1]
          BY <1>1, <2>1, <3>2
        <4> QED BY <2>2, <4>1
      <3>3. compQ[1] + 1 \in Nat
        BY <1>1, <2>1
      <3> QED BY <1>2, <2>1, <3>1, <3>2, <3>3
    <2>4. AboveToken'
      BY <1>0, <1>1, <2>1, <2>3, AboveFrame DEF Above, AboveToken
    <2> QED BY <1>0, <2>4, AboveFrame DEF Above
  <1>4. CASE CompareWait
    <2>1. /\ compQ # << >> /\ compQ' = Tail(compQ) /\ comp'.num = compQ[1]
          /\ execQ' = execQ
      BY <1>1, <1>4 DEF CompareWait
    <2>2. AboveToken'
      BY <1>0, <1>1, <2>1, AboveFrame DEF Above, AboveToken
    <2> QED BY <1>0, <2>2, AboveFrame DEF Above
  <1>5. CASE CompareTimer
    <2>1. /\ comp # IdleComp /\ comp.num \in Nat /\ comp' = IdleComp
          /\ execQ' = Append(execQ, comp.num) /\ compQ' = compQ
      BY <1>0, <1>5 DEF CompareTimer, IdleComp
    <2>2. \A k \in 1..comp.num : Covered(k)
      BY <2>1 DEF Above, AboveToken
    <2>3. ASSUME NEW i \in 1..Len(execQ'), NEW k \in 1..(execQ'[i] - 1)
          PROVE  Covered(k)
      BY <1>2, <2>1, <2>2 DEF Above, AboveToken
    <2>4. AboveToken'
      BY <1>0, <2>1, <2>3, AboveFrame DEF Above, AboveToken
    <2> QED BY <1>0, <2>4, AboveFrame DEF Above
  <1> QED BY <1>3, <1>4, <1>5 DEF Comparer

LEMMA AboveNotifierCheck ==
    ASSUME TypeOK, Above, NotifierCheck
    PROVE  Above'
  <1>0. /\ archQ \in Seq(Message) /\ archQ # << >> /\ arch = IdleArch
        /\ archQ' = Tail(archQ) /\ arch'.msg = Head(archQ) /\ arch' # IdleArch
        /\ UNCHANGED <<db, mq, execQ, exec, compQ, comp>>
    BY GapTypes DEF NotifierCheck, storeVars, IdleArch
  <1>1. /\ Head(archQ) = archQ[1] /\ 1 \in 1..Len(archQ)
        /\ archQ[1].num \in Nat
    BY <1>0, GapTypes
  <1>a. PICK len \in Nat : len + 1 = Len(archQ)
    BY <1>0
  <1>2. /\ Len(archQ') = len
        /\ \A i \in 1..len : archQ'[i] = archQ[i + 1]
    BY <1>0, <1>a
  <1>3. Published' = Published
    BY <1>0 DEF Published
  <1>4. \A k : Settled(k)' = Settled(k) /\ ~Archiving(k)
               /\ Archiving(k)' = (archQ[1].num = k)
    BY <1>0, <1>1, <1>3 DEF Settled, Archiving
  <1>5. ASSUME NEW k, NEW i \in 0..len, Waiting(k, i + 1)
        PROVE  Archiving(k)' \/ Waiting(k, i)'
    <2>1. PICK j \in 1..(i + 1) : archQ[j].num = k
      BY <1>5 DEF Waiting
    <2>2. CASE j = 1
      BY <1>4, <2>1, <2>2
    <2>3. CASE j # 1
      <3>1. j - 1 \in 1..i /\ j - 1 \in 1..len /\ (j - 1) + 1 = j
        BY <2>3
      <3>2. archQ'[j - 1].num = k
        BY <1>2, <2>1, <3>1
      <3> QED BY <3>1, <3>2 DEF Waiting
    <2> QED BY <2>2, <2>3
  <1>6. ASSUME NEW k, Covered(k) PROVE Covered(k)'
    <2>1. Settled(k)' \/ Archiving(k)' \/ Waiting(k, len)'
      BY <1>4, <1>5, <1>6, <1>a DEF Covered
    <2> QED BY <1>2, <2>1 DEF Covered
  <1>7. AboveRows'
    BY <1>0, <1>3 DEF Above, AboveRows
  <1>8. AboveQueue'
    <2>1. \A k \in 1..(archQ[1].num - 1) : Settled(k)
      BY <1>1, <1>4 DEF Above, AboveQueue, Waiting
    <2>2. \A k \in 1..(arch'.msg.num - 1) : Settled(k)'
      BY <1>0, <1>1, <1>4, <2>1
    <2>3. ASSUME NEW i \in 1..Len(archQ'), NEW k \in 1..(archQ'[i].num - 1)
          PROVE  (Settled(k) \/ Archiving(k) \/ Waiting(k, i - 1))'
      <3>1. i \in 1..len /\ i - 1 \in 0..len /\ (i - 1) + 1 = i
            /\ i + 1 \in 1..Len(archQ) /\ (i + 1) - 1 = i
        BY <1>2, <1>a
      <3>2. archQ'[i] = archQ[i + 1]
        BY <1>2, <3>1
      <3>3. Settled(k) \/ Archiving(k) \/ Waiting(k, i)
        BY <3>1, <3>2 DEF Above, AboveQueue
      <3>4. Settled(k)' \/ Archiving(k)' \/ Waiting(k, i - 1)'
        BY <1>4, <1>5, <3>1, <3>3
      <3> QED BY <3>4
    <2> QED BY <2>2, <2>3 DEF AboveQueue
  <1>9. AboveToken'
    BY <1>0, <1>6 DEF Above, AboveToken
  <1> QED BY <1>7, <1>8, <1>9 DEF Above

(* The archiver's calls: a row is written on settled ones, and its number is *)
(* settled once it is sent, or refused by the partition limit.               *)
LEMMA AboveWrites ==
    ASSUME TypeOK, StageOK, Above,
           ArchiveMetadata \/ SendMetadata \/ ArchiveBlock \/ BlockRefused \/ SendMqBlock
    PROVE  Above'
  <1>0. /\ arch # IdleArch /\ arch.msg \in Message /\ arch.msg.num \in Nat
        /\ UNCHANGED <<archQ, execQ, exec, compQ, comp>>
        /\ DbLimit \in Nat /\ DOMAIN db.blocks \subseteq Nat
    BY GapTypes DEF ArchiveMetadata, SendMetadata, ArchiveBlock, BlockRefused, SendMqBlock,
       WriteMetadata, PublishMetadata, WriteBlock, PublishBlock, IdleArch,
       NotifierVarsButArch
  <1>1. /\ Published \subseteq Published'
        /\ \A k : Archiving(k) => Archiving(k)' \/ Settled(k)'
        /\ arch' # IdleArch => arch'.msg = arch.msg
    <2>1. CASE ArchiveMetadata \/ ArchiveBlock
      <3>1. arch' # IdleArch /\ arch'.msg = arch.msg /\ mq' = mq
        BY <2>1 DEF ArchiveMetadata, ArchiveBlock, WriteMetadata, WriteBlock, IdleArch
      <3> QED BY <3>1 DEF Archiving, Published
    <2>2. CASE SendMetadata
      <3>1. arch' # IdleArch /\ arch'.msg = arch.msg /\ mq'.blocks = mq.blocks
        BY <2>2, PublishMetadataEffect DEF SendMetadata, IdleArch
      <3> QED BY <3>1 DEF Archiving, Published
    <2>3. CASE BlockRefused
      <3>1. arch' = IdleArch /\ mq' = mq
        BY <2>3 DEF BlockRefused, storeVars
      <3>2. arch.msg.num >= DbLimit
        BY <1>0, <2>3 DEF BlockRefused, BlockAccepted, StageOK
      <3> QED BY <3>1, <3>2 DEF Archiving, Published, Settled
    <2>4. CASE SendMqBlock
      <3>1. arch' = IdleArch /\ mq'.blocks = mq.blocks \cup {arch.msg}
        BY <2>4, PublishBlockEffect DEF SendMqBlock
      <3>2. Published' = Published \cup {arch.msg.num}
        BY <3>1 DEF Published
      <3> QED BY <3>1, <3>2 DEF Archiving, Settled
    <2> QED BY <2>1, <2>2, <2>3, <2>4
  <1>2. \A k : Settled(k) => Settled(k)'
    BY <1>1 DEF Settled
  <1>3. \A k : \A i : Waiting(k, i)' = Waiting(k, i)
    BY <1>0 DEF Waiting
  <1>4. \A k : Covered(k) => Covered(k)'
    BY <1>0, <1>1, <1>2, <1>3 DEF Covered
  <1>5. AboveRows'
    <2>1. CASE ArchiveBlock
      <3>1. arch.msg.num < DbLimit /\ DOMAIN db'.blocks = DOMAIN db.blocks \cup {arch.msg.num}
        BY <2>1, WriteBlockEffect DEF ArchiveBlock
      <3>2. \A k \in 1..(arch.msg.num - 1) : k \in Published
        BY <1>0, <3>1 DEF Above, AboveQueue, Settled
      <3> QED BY <1>0, <1>1, <3>1, <3>2 DEF Above, AboveRows
    <2>2. CASE ArchiveMetadata \/ SendMetadata \/ BlockRefused \/ SendMqBlock
      <3>1. db'.blocks = db.blocks
        BY <2>2, WriteMetadataEffect, PublishMetadataEffect, PublishBlockEffect
        DEF ArchiveMetadata, SendMetadata, BlockRefused, SendMqBlock, storeVars
      <3> QED BY <1>1, <3>1 DEF Above, AboveRows
    <2> QED BY <2>1, <2>2
  <1>6. AboveQueue'
    <2>1. arch' # IdleArch => \A k \in 1..(arch'.msg.num - 1) : Settled(k)'
      BY <1>0, <1>1, <1>2 DEF Above, AboveQueue
    <2>2. ASSUME NEW i \in 1..Len(archQ'), NEW k \in 1..(archQ'[i].num - 1)
          PROVE  Settled(k)' \/ Archiving(k)' \/ Waiting(k, i - 1)'
      <3>1. Settled(k) \/ Archiving(k) \/ Waiting(k, i - 1)
        BY <1>0 DEF Above, AboveQueue
      <3> QED BY <1>1, <1>2, <1>3, <3>1
    <2> QED BY <2>1, <2>2 DEF AboveQueue
  <1>7. AboveToken'
    BY <1>0, <1>4 DEF Above, AboveToken
  <1> QED BY <1>5, <1>6, <1>7 DEF Above

LEMMA AboveNext ==
    ASSUME ResetBlocks \subseteq {0, 1}, TypeOK, OrderInv, Above, ~Fails("stores"),
           [Next]_vars
    PROVE  Above'
  <1>0. StageOK
    BY DEF OrderInv
  <1>1. CASE StartNode \/ StartInNewFolder
    BY <1>1, AboveStart DEF StartNode, StartInNewFolder
  <1>2. CASE InitializerRun
    BY <1>2, AboveInitializer
  <1>3. CASE InitializerPanic \/ NotifierCheckFails \/ NotifierWriteFails
    BY <1>3 DEF InitializerPanic, NotifierCheckFails, NotifierWriteFails
  <1>4. CASE Crash \/ MetadataPanic
    BY <1>4, AboveExit DEF Crash, MetadataPanic, Panic
  <1>5. CASE Executor
    BY <1>5, AboveExecutorRecv, AboveExecute, AboveSendBlock DEF Executor
  <1>6. CASE Comparer
    BY <1>6, AboveComparer
  <1>7. CASE NotifierCheck
    BY <1>7, AboveNotifierCheck
  <1>8. CASE ArchiveMetadata \/ SendMetadata \/ ArchiveBlock \/ BlockRefused \/ SendMqBlock
    BY <1>0, <1>8, AboveWrites
  <1>9. CASE Chain \/ UNCHANGED vars
    <2>1. UNCHANGED archVars /\ UNCHANGED <<execQ, exec, compQ, comp>>
      BY <1>9, Zenon DEF Chain, ImportBlock, FinalityReorg, CatchUp, CatchUpReorg,
         archVars, storeVars, taskVars, vars
    <2> QED BY <2>1, AboveFrame DEF Above, AboveToken
  <1> QED
    BY <1>1, <1>2, <1>3, <1>4, <1>5, <1>6, <1>7, <1>8, <1>9
    DEF Next, Startup, Notifier

(* Store errors are counted and never forgotten. *)
LEMMA StoresCounted ==
    ASSUME TypeOK, left.stores <= MaxStoreErrors, [Next]_vars
    PROVE  /\ left'.stores <= MaxStoreErrors
           /\ left'.stores = MaxStoreErrors =>
                left.stores = MaxStoreErrors /\ ~Fails("stores")
  <1>0. left.stores \in Nat /\ MaxStoreErrors \in Nat
    BY BoundAssumption DEF TypeOK, LeftOK
  <1>1. left' = left \/ \E kind \in {"crashes", "stores", "states", "forks", "wipes"} :
                           Fails(kind)
    BY Zenon
    DEF Next, Startup, StartNode, StartInNewFolder, InitializerRun,
        InitializerPanic, Crash, Executor, ExecutorRecv, ExecuteBlock,
        ExecuteBlockFails, SendBlock, Comparer, CompareNext, CompareWait,
        CompareTimer, Notifier, NotifierCheck, NotifierCheckFails,
        ArchiveMetadata, MetadataPanic, Panic, SendMetadata, ArchiveBlock,
        BlockRefused, SendMqBlock, NotifierWriteFails, Chain, ImportBlock,
        OnNet, FinalityReorg, CatchUp, CatchUpReorg, vars
  <1>2. left'.stores <= left.stores /\ left'.stores \in Int
    <2>1. CASE left' = left
      BY <1>0, <2>1
    <2>2. ASSUME NEW kind \in {"crashes", "stores", "states", "forks", "wipes"},
                 Fails(kind)
          PROVE  left'.stores <= left.stores /\ left'.stores \in Int
      BY <1>0, <2>2 DEF Fails, TypeOK, LeftOK
    <2> QED BY <1>1, <2>1, <2>2
  <1>3. Fails("stores") => left'.stores < left.stores
    BY <1>0 DEF Fails, TypeOK, LeftOK
  <1> QED BY <1>0, <1>2, <1>3

AboveInv ==
    /\ left.stores <= MaxStoreErrors
    /\ left.stores = MaxStoreErrors => Above

(* The executor skips genesis and only genesis: until a call of a store      *)
(* fails, the table has no gap above genesis and no unpublished row but the  *)
(* newest, on either backend, with failed reads of states, crashes, forks,   *)
(* new data folders and re-sets to genesis or its child.                     *)
THEOREM GenesisOnly ==
    ASSUME ResetBlocks \subseteq {0, 1} PROVE Spec => []OnlyGenesisSkipped
  <1>1. Init => AboveInv
    <2> SUFFICES ASSUME Init PROVE left.stores <= MaxStoreErrors /\ Above
      BY DEF AboveInv
    <2>1. left.stores = MaxStoreErrors /\ MaxStoreErrors \in Nat
      BY BoundAssumption DEF Init
    <2>2. DOMAIN db.blocks = {}
      BY DEF Init, EmptyDb
    <2>3. Above
      BY <2>2 DEF Init, Above, AboveRows, AboveQueue, AboveToken
    <2> QED BY <2>1, <2>3
  <1>2. TypeOK /\ OrderInv /\ AboveInv /\ [Next]_vars => AboveInv'
    BY StoresCounted, AboveNext DEF AboveInv
  <1>3. TypeOK /\ OrderInv /\ AboveInv => OnlyGenesisSkipped
    <2> SUFFICES ASSUME TypeOK, OrderInv, Above, NEW n \in DOMAIN db.blocks
                 PROVE  /\ 1..n \subseteq DOMAIN db.blocks
                        /\ n = 0 \/ n \in Published \/ n \in MaxBlockNum(db)
      BY DEF OnlyGenesisSkipped, AboveInv
    <2>0. n \in Nat /\ DOMAIN db.blocks \subseteq Nat
      BY GapTypes
    <2>1. ASSUME NEW k \in 1..n PROVE k \in DOMAIN db.blocks
      <3>1. k = n \/ k \in 1..(n - 1)
        BY <2>0
      <3> QED BY <3>1, PublishedInDb DEF OrderInv, Above, AboveRows
    <2>2. ASSUME n # 0, n \notin Published PROVE n \in MaxBlockNum(db)
      <3>1. \A m \in DOMAIN db.blocks : m <= n
        BY <2>0, <2>2 DEF Above, AboveRows
      <3> QED BY <3>1 DEF MaxBlockNum
    <2> QED BY <2>1, <2>2
  <1> QED BY <1>1, <1>2, <1>3, TypeCorrect, OrderCorrect, PTL DEF Spec

-----------------------------------------------------------------------------
(* Without reset_force, numbers never go back: the rows, the archiver's       *)
(* block, its queue and the circulating number come in ascending order.      *)

(* No row, and nothing of the archiver's block and the first i of its queue, *)
(* is above t.                                                               *)
Reached(t, i) ==
    /\ \A n \in DOMAIN db.blocks : n <= t
    /\ arch # IdleArch => arch.msg.num <= t
    /\ \A j \in 1..i : archQ[j].num <= t

(* MAX(block_num) of a table with rows is one of them. *)
HasNewest == DOMAIN db.blocks = {} \/ MaxBlockNum(db) # {}

LineArch ==
    /\ OnlyNewestRewritten
    /\ \A i \in 1..Len(archQ) : Reached(archQ[i].num, i - 1)
LineToken ==
    /\ \A i \in 1..Len(execQ) : Reached(execQ[i], Len(archQ))
    /\ exec # IdleExec => Reached(exec.num, Len(archQ))
    /\ \A i \in 1..Len(compQ) : Reached(compQ[i], Len(archQ))
    /\ comp # IdleComp => Reached(comp.num, Len(archQ))
NothingPending == init \/ ~up => archQ = << >> /\ arch = IdleArch
InLine == HasNewest /\ LineArch /\ LineToken /\ NothingPending

(* A step that leaves the archiver and its stores alone. *)
LEMMA LineFrame ==
    ASSUME UNCHANGED archVars
    PROVE  /\ HasNewest => HasNewest'
           /\ LineArch => LineArch'
           /\ \A t, i : Reached(t, i)' = Reached(t, i)
  BY DEF HasNewest, MaxBlockNum, LineArch, OnlyNewestRewritten, Reached, archVars

LEMMA LineExit ==
    ASSUME InLine, Exit, UNCHANGED storeVars
    PROVE  InLine'
  <1>1. HasNewest'
    BY DEF InLine, HasNewest, MaxBlockNum, storeVars
  <1>2. LineArch' /\ LineToken' /\ NothingPending'
    BY DEF Exit, LineArch, OnlyNewestRewritten, LineToken, NothingPending
  <1> QED BY <1>1, <1>2 DEF InLine

(* The number in circulation is where it is, and nowhere else. *)
LEMMA OnlyToken ==
    ASSUME TypeOK, OneToken
    PROVE  /\ exec # IdleExec => ~init /\ up /\ execQ = << >> /\ compQ = << >>
                                 /\ comp = IdleComp
           /\ init => up
  <1>1. /\ Len(execQ) \in Nat /\ Len(compQ) \in Nat
        /\ Len(execQ) = 0 => execQ = << >>
        /\ Len(compQ) = 0 => compQ = << >>
    BY GapTypes
  <1>2. \A b \in BOOLEAN : Count(b) \in 0..1 /\ (Count(b) = 1 <=> b)
    BY DEF Count
  <1>3. /\ Count(up) \in 0..1 /\ (Count(up) = 1 <=> up)
        /\ Count(init) \in 0..1 /\ (Count(init) = 1 <=> init)
        /\ Count(exec # IdleExec) \in 0..1 /\ (Count(exec # IdleExec) = 1 <=> exec # IdleExec)
        /\ Count(comp # IdleComp) \in 0..1 /\ (Count(comp # IdleComp) = 1 <=> comp # IdleComp)
    BY <1>2 DEF TypeOK, TasksOK
  <1>4. Count(init) + Len(execQ) + Count(exec # IdleExec)
           + Len(compQ) + Count(comp # IdleComp) = Count(up)
    BY DEF OneToken, Tokens
  <1> HIDE DEF Count
  <1> QED BY <1>1, <1>3, <1>4

LEMMA LineStart ==
    ASSUME ResetBlocks = {}, InLine, Start
    PROVE  InLine'
  <1>1. /\ UNCHANGED archVars /\ UNCHANGED <<execQ, exec, compQ, comp>> /\ ~up
    BY DEF Start, archVars, storeVars
  <1>2. LineToken' /\ NothingPending'
    BY <1>1, LineFrame DEF InLine, LineToken, NothingPending, archVars
  <1> QED BY <1>1, <1>2, LineFrame DEF InLine

(* The Initializer takes the newest row up again. *)
LEMMA LineInitializer ==
    ASSUME TypeOK, OneToken, InLine, InitializerRun
    PROVE  InLine'
  <1>0. /\ execQ \in Seq(Nat) /\ DOMAIN db.blocks \subseteq Nat
        /\ UNCHANGED archVars /\ UNCHANGED <<up, exec, compQ, comp>> /\ up
        /\ archQ = << >> /\ arch = IdleArch
    BY GapTypes DEF InitializerRun, archVars, storeVars, InLine, NothingPending
  <1>1. PICK t \in ResumeFrom : execQ' = Append(execQ, t)
    BY DEF InitializerRun
  <1>2. t \in Nat /\ \A n \in DOMAIN db.blocks : n <= t
    BY <1>0, <1>1 DEF ResumeFrom, MaxBlockNum, InLine, HasNewest
  <1>3. Reached(t, Len(archQ))
    BY <1>0, <1>2 DEF Reached
  <1>4. \A i \in 1..Len(execQ') : \/ i \in 1..Len(execQ) /\ execQ'[i] = execQ[i]
                                  \/ execQ'[i] = t
    BY <1>0, <1>1, <1>2
  <1>5. \A i \in 1..Len(execQ') : Reached(execQ'[i], Len(archQ))
    BY <1>3, <1>4 DEF InLine, LineToken
  <1>6. LineToken'
    BY <1>0, <1>5, LineFrame DEF InLine, LineToken, archVars
  <1>7. NothingPending'
    BY <1>0 DEF NothingPending, archVars
  <1> QED BY <1>0, <1>6, <1>7, LineFrame DEF InLine

(* The executor passes genesis on as it is. *)
LEMMA LineNoStorages ==
    ASSUME TypeOK, InLine, NEW n \in Nat, NEW q, NoStorages(n, q), UNCHANGED storeVars,
           Reached(n, Len(archQ)),
           \A i \in 1..Len(q) : \E j \in 1..Len(execQ) : q[i] = execQ[j]
    PROVE  InLine'
  <1>1. CASE n # 0
    BY <1>1, LineExit DEF NoStorages
  <1>2. CASE n = 0
    <2>1. /\ execQ' = q /\ compQ' = Append(compQ, n) /\ exec' = IdleExec
          /\ UNCHANGED <<up, init, comp>> /\ UNCHANGED archVars /\ compQ \in Seq(Nat)
      BY <1>2, GapTypes DEF NoStorages, archVars, storeVars
    <2>2. \A i \in 1..Len(compQ') : \/ i \in 1..Len(compQ) /\ compQ'[i] = compQ[i]
                                    \/ compQ'[i] = n
      BY <2>1
    <2>3. /\ \A i \in 1..Len(compQ') : Reached(compQ'[i], Len(archQ))
          /\ \A i \in 1..Len(execQ') : Reached(execQ'[i], Len(archQ))
      BY <2>1, <2>2 DEF InLine, LineToken
    <2>4. LineToken' /\ NothingPending'
      BY <2>1, <2>3, LineFrame DEF InLine, LineToken, NothingPending, archVars
    <2> QED BY <2>1, <2>4, LineFrame DEF InLine
  <1> QED BY <1>1, <1>2

LEMMA LineExecutorRecv ==
    ASSUME TypeOK, InLine, ExecutorRecv
    PROVE  InLine'
  <1>0. /\ execQ \in Seq(Nat) /\ execQ # << >> /\ UNCHANGED storeVars
    BY GapTypes DEF ExecutorRecv
  <1> DEFINE n == Head(execQ)
  <1>1. n = execQ[1] /\ n \in Nat /\ 1 \in 1..Len(execQ)
    BY <1>0
  <1>2. \A i \in 1..Len(Tail(execQ)) :
           i + 1 \in 1..Len(execQ) /\ Tail(execQ)[i] = execQ[i + 1]
    BY <1>0
  <1>3. Reached(n, Len(archQ))
    BY <1>1 DEF InLine, LineToken
  <1>4. CASE SourceHas(n)
    <2>1. /\ exec'.num = n /\ execQ' = Tail(execQ)
          /\ UNCHANGED archVars /\ UNCHANGED <<up, init, compQ, comp>>
      BY <1>0, <1>4 DEF ExecutorRecv, storeVars, archVars
    <2>2. LineToken' /\ NothingPending'
      BY <1>2, <1>3, <2>1, LineFrame DEF InLine, LineToken, NothingPending, archVars
    <2> QED BY <2>1, <2>2, LineFrame DEF InLine
  <1>5. CASE ~SourceHas(n)
    <2>1. NoStorages(n, Tail(execQ))
      BY <1>5 DEF ExecutorRecv
    <2> QED BY <1>0, <1>1, <1>2, <1>3, <2>1, LineNoStorages
  <1> QED BY <1>4, <1>5

LEMMA LineExecute ==
    ASSUME TypeOK, InLine, ExecuteBlock \/ ExecuteBlockFails
    PROVE  InLine'
  <1>0. /\ exec # IdleExec /\ exec.num \in Nat /\ UNCHANGED storeVars
        /\ execQ \in Seq(Nat) /\ Reached(exec.num, Len(archQ))
    BY GapTypes DEF ExecuteBlock, ExecuteBlockFails, IdleExec, InLine, LineToken
  <1>1. CASE NoStorages(exec.num, execQ)
    BY <1>0, <1>1, LineNoStorages
  <1>2. CASE ExecuteBlock /\ SourceHas(exec.num)
    <2>1. /\ exec'.num = exec.num
          /\ UNCHANGED archVars /\ UNCHANGED <<up, init, execQ, compQ, comp>>
      BY <1>0, <1>2 DEF ExecuteBlock, storeVars, archVars
    <2>2. LineToken' /\ NothingPending'
      BY <1>0, <2>1, LineFrame DEF InLine, LineToken, NothingPending, archVars
    <2> QED BY <2>1, <2>2, LineFrame DEF InLine
  <1> QED BY <1>1, <1>2 DEF ExecuteBlock, ExecuteBlockFails

(* The executed block joins the end of the archiver's queue. *)
LEMMA LineSendBlock ==
    ASSUME TypeOK, OneToken, InLine, SendBlock
    PROVE  InLine'
  <1>0. /\ exec # IdleExec /\ exec.num \in Nat /\ archQ \in Seq(Message)
        /\ UNCHANGED storeVars /\ Reached(exec.num, Len(archQ))
        /\ ~init /\ up /\ execQ = << >> /\ compQ = << >> /\ comp = IdleComp
    BY GapTypes, OnlyToken DEF SendBlock, IdleExec, InLine, LineToken
  <1>1. CASE SourceHas(exec.num)
    <2> DEFINE msg == [num |-> exec.num, hash |-> exec.header,
                       body |-> exec.body, full |-> exec.full,
                       spec |-> VersionAt(exec.num)]
    <2>1. /\ archQ' = Append(archQ, msg) /\ compQ' = <<exec.num>>
          /\ exec' = IdleExec /\ UNCHANGED <<up, init, execQ, comp, arch, db, mq>>
      BY <1>0, <1>1 DEF SendBlock, storeVars
    <2>2. PICK t \in Nat : t = exec.num
      BY <1>0
    <2>3. PICK len \in Nat : len = Len(archQ)
      BY <1>0
    <2>4. msg.num = t
      BY <2>2
    <2> HIDE DEF msg
    <2>5. /\ Len(archQ') = len + 1 /\ archQ'[len + 1] = msg
          /\ \A i \in 1..len : archQ'[i] = archQ[i]
      BY <1>0, <2>1, <2>3
    <2>6. \A k : \A i \in 0..len : Reached(k, i)' = Reached(k, i)
      BY <2>1, <2>5 DEF Reached
    <2>7. Reached(t, len)' /\ Reached(t, len + 1)'
      <3>1. Reached(t, len)'
        BY <1>0, <2>2, <2>3, <2>6
      <3>2. ASSUME NEW j \in 1..(len + 1) PROVE archQ'[j].num <= t
        <4>1. CASE j = len + 1
          BY <2>4, <2>5, <4>1
        <4>2. CASE j # len + 1
          <5>1. j \in 1..len
            BY <4>2
          <5> QED BY <3>1, <5>1 DEF Reached
        <4> QED BY <4>1, <4>2
      <3> QED BY <3>1, <3>2 DEF Reached
    <2>8. HasNewest' /\ NothingPending'
      BY <1>0, <2>1 DEF InLine, HasNewest, MaxBlockNum, NothingPending
    <2>9. LineArch'
      <3>1. OnlyNewestRewritten'
        BY <2>1 DEF InLine, LineArch, OnlyNewestRewritten
      <3>2. ASSUME NEW i \in 1..Len(archQ') PROVE Reached(archQ[i].num, i - 1)'
        <4>1. CASE i = len + 1
          <5>1. i - 1 = len /\ archQ'[i].num = t
            BY <2>4, <2>5, <4>1
          <5> QED BY <2>7, <5>1
        <4>2. CASE i # len + 1
          <5>1. i \in 1..len /\ i - 1 \in 0..len
            BY <2>5, <4>2
          <5>2. Reached(archQ[i].num, i - 1)
            BY <2>3, <5>1 DEF InLine, LineArch
          <5> QED BY <2>5, <2>6, <5>1, <5>2
        <4> QED BY <4>1, <4>2
      <3> QED BY <3>1, <3>2 DEF LineArch
    <2>10. LineToken'
      <3>1. Len(execQ') = 0 /\ Len(compQ') = 1 /\ compQ'[1] = t
        BY <1>0, <2>1, <2>2
      <3> QED BY <1>0, <2>1, <2>5, <2>7, <3>1 DEF LineToken
    <2> QED BY <2>8, <2>9, <2>10 DEF InLine
  <1>2. CASE ~SourceHas(exec.num)
    BY <1>0, <1>2, LineExit DEF SendBlock
  <1> QED BY <1>1, <1>2

(* The comparer goes on with the same number or the next. *)
LEMMA LineComparer ==
    ASSUME TypeOK, InLine, Comparer
    PROVE  InLine'
  <1>0. /\ execQ \in Seq(Nat) /\ compQ \in Seq(Nat)
        /\ comp # IdleComp => comp.num \in Nat
        /\ UNCHANGED archVars /\ UNCHANGED <<up, init, exec>>
    BY GapTypes DEF Comparer, CompareNext, CompareWait, CompareTimer, archVars, storeVars
  <1>1. compQ # << >> =>
           /\ Head(compQ) = compQ[1] /\ compQ[1] \in Nat /\ 1 \in 1..Len(compQ)
           /\ \A i \in 1..Len(Tail(compQ)) :
                 i + 1 \in 1..Len(compQ) /\ Tail(compQ)[i] = compQ[i + 1]
    BY <1>0
  <1>2. \A t \in Nat : \A i \in 1..Len(Append(execQ, t)) :
           \/ i \in 1..Len(execQ) /\ Append(execQ, t)[i] = execQ[i]
           \/ Append(execQ, t)[i] = t
    BY <1>0
  <1>3. NothingPending'
    BY <1>0 DEF InLine, NothingPending, archVars
  <1>4. CASE CompareNext
    <2>1. /\ compQ # << >> /\ compQ' = Tail(compQ) /\ comp' = comp
          /\ execQ' = Append(execQ, compQ[1] + 1)
      BY <1>1, <1>4 DEF CompareNext, NextNumber
    <2>2. Reached(compQ[1], Len(archQ))
      BY <1>1, <2>1 DEF InLine, LineToken
    <2>3. Reached(compQ[1] + 1, Len(archQ))
      BY <1>1, <2>1, <2>2, GapTypes DEF Reached
    <2>4. compQ[1] + 1 \in Nat
      BY <1>1, <2>1
    <2>5. \A i \in 1..Len(execQ') : Reached(execQ'[i], Len(archQ))
      BY <1>2, <2>1, <2>3, <2>4 DEF InLine, LineToken
    <2>6. LineToken'
      BY <1>0, <1>1, <2>1, <2>5, LineFrame DEF InLine, LineToken, archVars
    <2> QED BY <1>0, <1>3, <2>6, LineFrame DEF InLine
  <1>5. CASE CompareWait
    <2>1. /\ compQ # << >> /\ compQ' = Tail(compQ) /\ comp'.num = compQ[1]
          /\ execQ' = execQ
      BY <1>1, <1>5 DEF CompareWait
    <2>2. LineToken'
      BY <1>0, <1>1, <2>1, LineFrame DEF InLine, LineToken, archVars
    <2> QED BY <1>0, <1>3, <2>2, LineFrame DEF InLine
  <1>6. CASE CompareTimer
    <2>1. /\ comp # IdleComp /\ comp.num \in Nat /\ comp' = IdleComp
          /\ execQ' = Append(execQ, comp.num) /\ compQ' = compQ
      BY <1>0, <1>6 DEF CompareTimer, IdleComp
    <2>2. \A i \in 1..Len(execQ') : Reached(execQ'[i], Len(archQ))
      BY <1>2, <2>1 DEF InLine, LineToken
    <2>3. LineToken'
      BY <1>0, <2>1, <2>2, LineFrame DEF InLine, LineToken, archVars
    <2> QED BY <1>0, <1>3, <2>3, LineFrame DEF InLine
  <1> QED BY <1>4, <1>5, <1>6 DEF Comparer

(* The archiver takes the front of its queue, or drops it. *)
LEMMA LineNotifierCheck ==
    ASSUME TypeOK, InLine, NotifierCheck \/ NotifierCheckFails
    PROVE  InLine'
  <1>0. /\ archQ \in Seq(Message) /\ archQ # << >> /\ arch = IdleArch
        /\ archQ' = Tail(archQ)
        /\ arch' # IdleArch => arch'.msg = Head(archQ)
        /\ UNCHANGED <<db, mq, up, init, execQ, exec, compQ, comp>>
    BY GapTypes DEF NotifierCheck, NotifierCheckFails, storeVars
  <1>1. Head(archQ) = archQ[1] /\ 1 \in 1..Len(archQ)
    BY <1>0
  <1>2. PICK len \in Nat : len + 1 = Len(archQ)
    BY <1>0
  <1>3. /\ Len(archQ') = len
        /\ \A i \in 1..len : archQ'[i] = archQ[i + 1]
    BY <1>0, <1>2
  <1>4. ASSUME NEW t, NEW i \in 0..len, Reached(t, i + 1)
        PROVE  Reached(t, i)'
    <2>1. \A n \in DOMAIN db'.blocks : n <= t
      BY <1>0, <1>4 DEF Reached
    <2>2. \A j \in 1..(i + 1) : archQ[j].num <= t
      BY <1>4 DEF Reached
    <2>3. arch' # IdleArch => arch'.msg.num <= t
      BY <1>0, <1>1, <2>2
    <2>4. ASSUME NEW j \in 1..i PROVE archQ'[j].num <= t
      <3>1. j \in 1..len /\ j + 1 \in 1..(i + 1)
        OBVIOUS
      <3> QED BY <1>3, <2>2, <3>1
    <2> QED BY <2>1, <2>3, <2>4 DEF Reached
  <1>5. \A t : Reached(t, Len(archQ)) => Reached(t, Len(archQ))'
    BY <1>2, <1>3, <1>4
  <1>6. HasNewest' /\ NothingPending'
    BY <1>0 DEF InLine, HasNewest, MaxBlockNum, NothingPending
  <1>7. LineArch'
    <2>1. Reached(archQ[1].num, 0)
      BY <1>1 DEF InLine, LineArch
    <2>2. OnlyNewestRewritten'
      BY <1>0, <1>1, <2>1 DEF OnlyNewestRewritten, Reached
    <2>3. ASSUME NEW i \in 1..Len(archQ') PROVE Reached(archQ[i].num, i - 1)'
      <3>1. /\ i \in 1..len /\ i - 1 \in 0..len /\ (i - 1) + 1 = i
            /\ i + 1 \in 1..Len(archQ) /\ (i + 1) - 1 = i
        BY <1>2, <1>3
      <3>2. archQ'[i] = archQ[i + 1]
        BY <1>3, <3>1
      <3>3. Reached(archQ[i + 1].num, i)
        BY <3>1 DEF InLine, LineArch
      <3> QED BY <1>4, <3>1, <3>2, <3>3
    <2> QED BY <2>2, <2>3 DEF LineArch
  <1>8. LineToken'
    BY <1>0, <1>5 DEF InLine, LineToken
  <1> QED BY <1>6, <1>7, <1>8 DEF InLine

(* A row is written at or above the newest one, and nothing behind it is     *)
(* below; a call that fails may have written it.                             *)
LEMMA LineWrites ==
    ASSUME TypeOK, InLine,
           \/ ArchiveMetadata \/ SendMetadata \/ ArchiveBlock \/ BlockRefused
           \/ SendMqBlock \/ NotifierWriteFails
    PROVE  InLine'
  <1>0. /\ arch # IdleArch /\ arch.msg.num \in Nat /\ DOMAIN db.blocks \subseteq Nat
        /\ UNCHANGED <<up, init, archQ, execQ, exec, compQ, comp>>
    BY GapTypes DEF ArchiveMetadata, SendMetadata, ArchiveBlock, BlockRefused, SendMqBlock,
       NotifierWriteFails, WriteMetadata, PublishMetadata, WriteBlock, PublishBlock,
       IdleArch, NotifierVarsButArch
  <1>1. arch' # IdleArch => arch'.msg = arch.msg
    BY DEF ArchiveMetadata, SendMetadata, ArchiveBlock, BlockRefused, SendMqBlock,
       NotifierWriteFails
  <1>2. \/ DOMAIN db'.blocks = DOMAIN db.blocks
        \/ DOMAIN db'.blocks = DOMAIN db.blocks \cup {arch.msg.num}
    <2>1. CASE WriteBlock
      BY <2>1, WriteBlockEffect
    <2>2. CASE WriteMetadata
      BY <2>2, WriteMetadataEffect
    <2>3. CASE db' = db
      BY <2>3
    <2> QED
      BY <2>1, <2>2, <2>3
      DEF ArchiveMetadata, SendMetadata, ArchiveBlock, BlockRefused, SendMqBlock,
          NotifierWriteFails, PublishMetadata, PublishBlock, storeVars
  <1>3. \A n \in DOMAIN db.blocks : n <= arch.msg.num
    BY <1>0 DEF InLine, LineArch, OnlyNewestRewritten
  <1>4. \A n \in DOMAIN db'.blocks : n <= arch.msg.num
    BY <1>0, <1>2, <1>3
  <1>5. \A t, i : Reached(t, i) => Reached(t, i)'
    BY <1>0, <1>1, <1>2 DEF Reached
  <1>6. HasNewest'
    <2>1. CASE DOMAIN db'.blocks = DOMAIN db.blocks
      BY <2>1 DEF InLine, HasNewest, MaxBlockNum
    <2>2. CASE DOMAIN db'.blocks = DOMAIN db.blocks \cup {arch.msg.num}
      BY <1>4, <2>2 DEF HasNewest, MaxBlockNum
    <2> QED BY <1>2, <2>1, <2>2
  <1>7. LineArch'
    BY <1>0, <1>1, <1>4, <1>5 DEF InLine, LineArch, OnlyNewestRewritten
  <1>8. LineToken'
    BY <1>0, <1>5 DEF InLine, LineToken
  <1>9. NothingPending'
    BY <1>0 DEF InLine, NothingPending
  <1> QED BY <1>6, <1>7, <1>8, <1>9 DEF InLine

LEMMA LineNext ==
    ASSUME ResetBlocks = {}, TypeOK, OneToken, InLine, [Next]_vars
    PROVE  InLine'
  <1>1. CASE StartNode \/ StartInNewFolder
    BY <1>1, LineStart DEF StartNode, StartInNewFolder
  <1>2. CASE InitializerRun
    BY <1>2, LineInitializer
  <1>3. CASE InitializerPanic \/ Crash \/ MetadataPanic
    BY <1>3, LineExit DEF InitializerPanic, Crash, MetadataPanic, Panic
  <1>4. CASE Executor
    BY <1>4, LineExecutorRecv, LineExecute, LineSendBlock DEF Executor
  <1>5. CASE Comparer
    BY <1>5, LineComparer
  <1>6. CASE NotifierCheck \/ NotifierCheckFails
    BY <1>6, LineNotifierCheck
  <1>7. CASE \/ ArchiveMetadata \/ SendMetadata \/ ArchiveBlock \/ BlockRefused
             \/ SendMqBlock \/ NotifierWriteFails
    BY <1>7, LineWrites
  <1>8. CASE Chain \/ UNCHANGED vars
    <2>1. UNCHANGED archVars /\ UNCHANGED <<up, init, execQ, exec, compQ, comp>>
      BY <1>8, Zenon DEF Chain, ImportBlock, FinalityReorg, CatchUp, CatchUpReorg,
         archVars, storeVars, taskVars, vars
    <2> QED BY <2>1, LineFrame DEF InLine, LineToken, NothingPending, archVars
  <1> QED
    BY <1>1, <1>2, <1>3, <1>4, <1>5, <1>6, <1>7, <1>8 DEF Next, Startup, Notifier

(* Without reset_force, the archiver rewrites no row but the newest, on      *)
(* either backend and under any crashes, failed calls, forks and new data    *)
(* folders: the Initializer resumes at MAX(block_num), the comparer never    *)
(* goes back, and the archiver's queue keeps the order.                      *)
THEOREM RewritesNewest == ASSUME ResetBlocks = {} PROVE Spec => []OnlyNewestRewritten
  <1>1. Init => InLine
    BY DEF Init, EmptyDb, InLine, HasNewest, LineArch, OnlyNewestRewritten, LineToken,
       NothingPending
  <1>2. TypeOK /\ OneToken /\ InLine /\ [Next]_vars => InLine'
    BY LineNext
  <1>3. InLine => OnlyNewestRewritten
    BY DEF InLine, LineArch
  <1> QED BY <1>1, <1>2, <1>3, TypeCorrect, TokenUnique, PTL DEF Spec
==============================================================================
