--------------------------- MODULE ArchiveGapProofs ---------------------------
(***************************************************************************)
(* The archive has no gap: proofs about ArchivePipeline when no call of a  *)
(* store and no read of a state fails, reset_force is off and the executor *)
(* reads the main backend.  Crashes, panics, forks, new data folders and   *)
(* the partition limit are arbitrary.                                      *)
(***************************************************************************)
EXTENDS ArchivePipelineProofs

(* The assumptions on the environment, on the constants. *)
NoLoss ==
    /\ MaxStoreErrors = 0 /\ MaxStateErrors = 0
    /\ ResetBlocks = {} /\ Readonly = FALSE

LeftZero == left.stores = 0 /\ left.states = 0

gapVars == <<db, mq, archQ, arch, execQ, exec, compQ, comp>>

-----------------------------------------------------------------------------
(* A step that leaves the queues, the tasks and the stores alone. *)
LEMMA GapFrame == NoGapInv /\ UNCHANGED gapVars => NoGapInv'
  BY DEF NoGapInv, RowsSettled, QueueCovered, TokenCovered, UnpublishedIsNext,
         Covered, Settled, Archiving, Waiting, Published, gapVars

(* The end of the process: nothing is in flight, the rows stay settled. *)
LEMMA GapExit == NoGapInv /\ Exit /\ UNCHANGED storeVars => NoGapInv'
  <1> SUFFICES ASSUME NoGapInv, Exit, UNCHANGED storeVars PROVE NoGapInv'
    OBVIOUS
  <1>1. RowsSettled'
    BY DEF NoGapInv, RowsSettled, Published, storeVars
  <1>2. QueueCovered' /\ TokenCovered' /\ UnpublishedIsNext'
    BY DEF Exit, QueueCovered, TokenCovered, UnpublishedIsNext
  <1> QED BY <1>1, <1>2 DEF NoGapInv

(* The bounds on faults stay used up. *)
LEMMA LeftZeroNext == TypeOK /\ LeftZero /\ [Next]_vars => LeftZero'
  <1> SUFFICES ASSUME TypeOK, LeftZero, [Next]_vars PROVE LeftZero'
    OBVIOUS
  <1>1. ASSUME NEW kind \in {"crashes", "stores", "states", "forks", "wipes"},
               Fails(kind)
        PROVE  LeftZero'
    BY <1>1 DEF Fails, LeftZero, TypeOK, LeftOK
  <1>2. CASE UNCHANGED left
    BY <1>2 DEF LeftZero
  <1> QED
    BY <1>1, <1>2
    DEF Next, Startup, StartNode, StartInNewFolder, InitializerRun,
        InitializerPanic, Crash, Executor, ExecutorRecv, ExecuteBlock,
        ExecuteBlockFails, SendBlock, Comparer, CompareNext, CompareWait,
        CompareTimer, Notifier, NotifierCheck, NotifierCheckFails,
        ArchiveMetadata, MetadataPanic, Panic, SendMetadata, ArchiveBlock,
        BlockRefused, SendMqBlock, NotifierWriteFails, Chain, ImportBlock,
        OnNet, FinalityReorg, CatchUp, CatchUpReorg, vars

LEMMA NoFault ==
    ASSUME TypeOK, LeftZero
    PROVE  ~Fails("stores") /\ ~Fails("states")
  BY DEF LeftZero, Fails

(* The sequences and numbers the arguments below are about. *)
LEMMA GapTypes ==
    ASSUME TypeOK
    PROVE  /\ execQ \in Seq(Nat) /\ compQ \in Seq(Nat) /\ archQ \in Seq(Message)
           /\ DOMAIN db.blocks \subseteq Nat /\ DbLimit \in Nat
           /\ exec # IdleExec => exec.num \in Nat
           /\ comp # IdleComp => comp.num \in Nat
           /\ arch # IdleArch => arch.msg \in Message /\ arch.msg.num \in Nat
           /\ \A i \in 1..Len(archQ) : archQ[i] \in Message /\ archQ[i].num \in Nat
  <1>1. /\ execQ \in Seq(Nat) /\ compQ \in Seq(Nat) /\ archQ \in Seq(Message)
        /\ DOMAIN db.blocks \subseteq Nat /\ DbLimit \in Nat
    BY DbLimitAssumption DEF TypeOK, TasksOK, StoresOK, DbOK
  <1>2. exec # IdleExec => exec.num \in Nat
    BY DEF TypeOK, TasksOK, ExecTask
  <1>3. comp # IdleComp => comp.num \in Nat
    BY DEF TypeOK, TasksOK, CompTask
  <1>4. arch # IdleArch => arch.msg \in Message /\ arch.msg.num \in Nat
    BY DEF TypeOK, TasksOK, ArchTask, Message
  <1>5. \A i \in 1..Len(archQ) : archQ[i] \in Message /\ archQ[i].num \in Nat
    <2>1. \A i \in 1..Len(archQ) : archQ[i] \in Message
      BY <1>1
    <2>2. \A m \in Message : m.num \in Nat
      BY DEF Message
    <2> QED BY <2>1, <2>2
  <1> QED BY <1>1, <1>2, <1>3, <1>4, <1>5

-----------------------------------------------------------------------------
(* The Initializer resumes from the newest row: everything below it is       *)
(* published, and if a row is not, it is this one.                           *)
LEMMA GapInitializer == TypeOK /\ NoGapInv /\ InitializerRun => NoGapInv'
  <1> SUFFICES ASSUME TypeOK, NoGapInv, InitializerRun PROVE NoGapInv'
    OBVIOUS
  <1>0. /\ execQ \in Seq(Nat) /\ DOMAIN db.blocks \subseteq Nat
    BY GapTypes
  <1>1. PICK t \in ResumeFrom :
           execQ' = Append(execQ, t)
    BY DEF InitializerRun
  <1>2. UNCHANGED <<db, mq, archQ, arch, exec, compQ, comp>>
    BY DEF InitializerRun, storeVars
  <1>3. t \in Nat /\ \A k \in 0..(t - 1) : k \in Published
    BY <1>0, <1>1 DEF ResumeFrom, MaxBlockNum, NoGapInv, RowsSettled
  <1>4. \A n \in DOMAIN db.blocks \ Published : t = n
    <2> SUFFICES ASSUME NEW n \in DOMAIN db.blocks, n \notin Published
                 PROVE  t = n
      OBVIOUS
    <2>1. \A m \in DOMAIN db.blocks : m <= n
      BY <1>0 DEF NoGapInv, RowsSettled
    <2>2. n \in MaxBlockNum(db)
      BY <2>1 DEF MaxBlockNum
    <2>3. t \in DOMAIN db.blocks /\ n <= t
      BY <1>1, <2>2 DEF ResumeFrom, MaxBlockNum
    <2> QED BY <1>0, <2>1, <2>3
  <1>5. /\ Len(execQ') = Len(execQ) + 1
        /\ \A i \in 1..Len(execQ') : IF i = Len(execQ) + 1 THEN execQ'[i] = t
                                     ELSE i \in 1..Len(execQ) /\ execQ'[i] = execQ[i]
    BY <1>0, <1>1, <1>3
  <1>6. \A k : Covered(k)' = Covered(k)
    BY <1>2 DEF Covered, Settled, Archiving, Waiting, Published
  <1>7. \A k \in 0..(t - 1) : Covered(k)
    BY <1>3 DEF Covered, Settled
  <1>8. RowsSettled' /\ QueueCovered'
    BY <1>2 DEF NoGapInv, RowsSettled, QueueCovered, Settled, Archiving, Waiting,
                Published
  <1>9. TokenCovered'
    BY <1>2, <1>5, <1>6, <1>7 DEF NoGapInv, TokenCovered
  <1>10. UnpublishedIsNext'
    BY <1>2, <1>4, <1>5 DEF NoGapInv, UnpublishedIsNext, Published
  <1> QED BY <1>8, <1>9, <1>10 DEF NoGapInv

(* The token moves through the executor and the comparer. *)

(* The stores and the archiver's work stay, so what is covered stays. *)
archVars == <<db, mq, archQ, arch>>

LEMMA CoveredFrame ==
    ASSUME UNCHANGED archVars
    PROVE  /\ \A k : Covered(k)' = Covered(k)
           /\ RowsSettled => RowsSettled'
           /\ QueueCovered => QueueCovered'
           /\ Published' = Published
  BY DEF Covered, Settled, Archiving, Waiting, Published, RowsSettled,
         QueueCovered, archVars

LEMMA GapExecutorRecv ==
    ASSUME NoLoss, TypeOK, NoGapInv, ExecutorRecv
    PROVE  NoGapInv'
  <1>0. /\ execQ \in Seq(Nat) /\ execQ # << >> /\ exec = IdleExec
        /\ Len(main) \in Nat /\ UNCHANGED storeVars
    BY GapTypes DEF ExecutorRecv, TypeOK, ChainOK, Paths
  <1> DEFINE n == Head(execQ)
  <1>1. n = execQ[1] /\ n \in Nat /\ 1 \in 1..Len(execQ)
    BY <1>0
  <1>2. CASE SourceHas(n)
    <2>1. /\ exec'.num = n /\ exec'.stage = "execute" /\ execQ' = Tail(execQ)
          /\ UNCHANGED archVars /\ UNCHANGED <<compQ, comp>>
      BY <1>0, <1>2 DEF ExecutorRecv, storeVars, archVars
    <2>2. \A i \in 1..Len(execQ') : i + 1 \in 1..Len(execQ) /\ execQ'[i] = execQ[i + 1]
      BY <1>0, <2>1
    <2>3. TokenCovered'
      BY <1>1, <2>1, <2>2, CoveredFrame DEF NoGapInv, TokenCovered
    <2>4. UnpublishedIsNext'
      BY <1>1, <2>1, <2>2, CoveredFrame DEF NoGapInv, UnpublishedIsNext, archVars
    <2> QED BY <2>1, <2>3, <2>4, CoveredFrame DEF NoGapInv
  <1>3. CASE ~SourceHas(n)
    <2>1. n # 0
      BY <1>0, <1>3 DEF SourceHas, source, NoLoss
    <2>2. Exit
      BY <1>3, <2>1 DEF ExecutorRecv, NoStorages
    <2> QED BY <1>0, <2>2, GapExit
  <1> QED BY <1>2, <1>3

LEMMA GapExecuteBlock ==
    ASSUME NoLoss, TypeOK, NoGapInv, ExecuteBlock
    PROVE  NoGapInv'
  <1>0. /\ exec.stage = "execute" /\ exec # IdleExec /\ exec.num \in Nat
        /\ Len(main) \in Nat /\ UNCHANGED storeVars
    BY GapTypes DEF ExecuteBlock, IdleExec, TypeOK, ChainOK, Paths
  <1>1. CASE SourceHas(exec.num)
    <2>1. /\ exec'.num = exec.num
          /\ UNCHANGED archVars /\ UNCHANGED <<execQ, compQ, comp>>
      BY <1>0, <1>1 DEF ExecuteBlock, storeVars, archVars
    <2>2. TokenCovered'
      BY <1>0, <2>1, CoveredFrame DEF NoGapInv, TokenCovered
    <2>3. UnpublishedIsNext'
      BY <1>0, <2>1, CoveredFrame DEF NoGapInv, UnpublishedIsNext, archVars
    <2> QED BY <2>1, <2>2, <2>3, CoveredFrame DEF NoGapInv
  <1>2. CASE ~SourceHas(exec.num)
    <2>1. exec.num # 0
      BY <1>0, <1>2 DEF SourceHas, source, NoLoss
    <2>2. Exit
      BY <1>2, <2>1 DEF ExecuteBlock, NoStorages
    <2> QED BY <1>0, <2>2, GapExit
  <1> QED BY <1>1, <1>2

(* The executor hands its number to both queues: for the comparer it is      *)
(* covered because it waits for the archiver.                                *)
LEMMA GapSendBlock ==
    ASSUME TypeOK, NoGapInv, SendBlock
    PROVE  NoGapInv'
  <1>0. /\ exec.stage = "version" /\ exec # IdleExec /\ exec.num \in Nat
        /\ archQ \in Seq(Message) /\ compQ \in Seq(Nat) /\ UNCHANGED storeVars
    BY GapTypes DEF SendBlock, IdleExec
  <1>1. CASE SourceHas(exec.num)
    <2> DEFINE msg == [num |-> exec.num, hash |-> exec.header,
                       body |-> exec.body, full |-> exec.full,
                       spec |-> VersionAt(exec.num)]
    <2>1. /\ archQ' = Append(archQ, msg) /\ compQ' = Append(compQ, exec.num)
          /\ exec' = IdleExec /\ UNCHANGED <<execQ, comp, arch, db, mq>>
      BY <1>0, <1>1 DEF SendBlock, storeVars
    <2>a. PICK t \in Nat : t = exec.num
      BY <1>0
    <2>b. PICK len \in Nat : len = Len(archQ)
      BY <1>0
    <2>2. msg.num = t
      BY <2>a
    <2> HIDE DEF msg
    <2>3. /\ Len(archQ) = len /\ Len(archQ') = len + 1
          /\ archQ'[len + 1] = msg
          /\ \A i \in 1..len : archQ'[i] = archQ[i]
      BY <1>0, <2>1, <2>b
    <2>4. /\ Len(compQ) \in Nat /\ Len(compQ') = Len(compQ) + 1
          /\ compQ'[Len(compQ) + 1] = t
          /\ \A i \in 1..Len(compQ) : compQ'[i] = compQ[i]
      BY <1>0, <2>1, <2>a
    <2>5. Published' = Published
      BY <2>1 DEF Published
    <2>6. \A k : Settled(k)' = Settled(k) /\ Archiving(k)' = Archiving(k)
      BY <2>1, <2>5 DEF Settled, Archiving
    <2>7. \A k : \A i \in 0..len : Waiting(k, i)' = Waiting(k, i)
      BY <2>3 DEF Waiting
    <2>8. \A k : Waiting(k, len) => Waiting(k, len + 1)'
      BY <2>3 DEF Waiting
    <2>9. \A k : Covered(k) => Covered(k)'
      BY <2>3, <2>6, <2>8 DEF Covered
    <2>10. Covered(t)'
      BY <2>2, <2>3 DEF Covered, Waiting
    <2>11. \A k \in 0..(t - 1) : Covered(k)
      BY <1>0, <2>a DEF NoGapInv, TokenCovered
    <2>12. RowsSettled'
      BY <2>1, <2>5 DEF NoGapInv, RowsSettled
    <2>13. QueueCovered'
      <3>1. arch' # IdleArch => \A k \in 0..(arch'.msg.num - 1) : Settled(k)'
        BY <2>1, <2>6 DEF NoGapInv, QueueCovered
      <3>2. ASSUME NEW i \in 1..len, NEW k \in 0..(archQ'[i].num - 1)
            PROVE  (Settled(k) \/ Archiving(k) \/ Waiting(k, i - 1))'
        BY <2>3, <2>6, <2>7, <3>2 DEF NoGapInv, QueueCovered
      <3>3. \A k \in 0..(archQ'[len + 1].num - 1) :
               (Settled(k) \/ Archiving(k) \/ Waiting(k, len))'
        BY <2>2, <2>3, <2>6, <2>7, <2>11 DEF Covered
      <3>4. ASSUME NEW i \in 1..Len(archQ'), NEW k \in 0..(archQ'[i].num - 1)
            PROVE  (Settled(k) \/ Archiving(k) \/ Waiting(k, i - 1))'
        <4>1. CASE i = len + 1
          <5>1. i - 1 = len
            BY <2>3, <4>1
          <5> QED BY <3>3, <3>4, <4>1, <5>1
        <4>2. CASE i # len + 1
          <5>1. i \in 1..len
            BY <2>3, <4>2
          <5> QED BY <3>2, <5>1
        <4> QED BY <4>1, <4>2
      <3> QED BY <3>1, <3>4 DEF QueueCovered
    <2>14. TokenCovered'
      <3>1. \A i \in 1..Len(compQ') : \A k \in 0..compQ'[i] : Covered(k)'
        <4> SUFFICES ASSUME NEW i \in 1..Len(compQ'), NEW k \in 0..compQ'[i]
                     PROVE  Covered(k)'
          OBVIOUS
        <4>1. CASE i = Len(compQ) + 1
          <5>1. k = t \/ k \in 0..(t - 1)
            BY <2>4, <4>1
          <5> QED BY <2>9, <2>10, <2>11, <5>1
        <4>2. CASE i # Len(compQ) + 1
          <5>1. i \in 1..Len(compQ) /\ compQ'[i] = compQ[i]
            BY <2>4, <4>2
          <5> QED BY <2>9, <5>1 DEF NoGapInv, TokenCovered
        <4> QED BY <4>1, <4>2
      <3> QED BY <2>1, <2>9, <3>1 DEF NoGapInv, TokenCovered
    <2>15. UnpublishedIsNext'
      <3>1. archQ' # << >>
        BY <2>3
      <3>2. archQ # << >> => archQ'[1] = archQ[1]
        BY <1>0, <2>3
      <3>3. archQ = << >> => archQ'[1] = msg
        BY <2>3
      <3> QED BY <1>0, <2>1, <2>2, <2>a, <2>5, <3>1, <3>2, <3>3
              DEF NoGapInv, UnpublishedIsNext
    <2> QED BY <2>12, <2>13, <2>14, <2>15 DEF NoGapInv
  <1>2. CASE ~SourceHas(exec.num)
    BY <1>0, <1>2, GapExit DEF SendBlock
  <1> QED BY <1>1, <1>2

(* The comparer passes the next number on: its own is covered, and so is     *)
(* everything below the next one.                                            *)
LEMMA GapCompareNext ==
    ASSUME TypeOK, NoGapInv, CompareNext
    PROVE  NoGapInv'
  <1>0. /\ execQ \in Seq(Nat) /\ compQ \in Seq(Nat) /\ compQ # << >>
        /\ UNCHANGED archVars /\ UNCHANGED <<exec, comp>>
        /\ compQ' = Tail(compQ) /\ execQ' = Append(execQ, Head(compQ) + 1)
    BY GapTypes DEF CompareNext, NextNumber, archVars, storeVars
  <1>1. PICK n \in Nat : n = Head(compQ) /\ n = compQ[1] /\ 1 \in 1..Len(compQ)
    BY <1>0
  <1>2. \A k \in 0..n : Covered(k)
    BY <1>1 DEF NoGapInv, TokenCovered
  <1>3. \A i \in 1..Len(compQ') : i + 1 \in 1..Len(compQ) /\ compQ'[i] = compQ[i + 1]
    BY <1>0
  <1>4. \A i \in 1..Len(execQ') : \/ i \in 1..Len(execQ) /\ execQ'[i] = execQ[i]
                                  \/ execQ'[i] = n + 1
    BY <1>0, <1>1
  <1>5. \A i \in 1..Len(execQ') : \A k \in 0..(execQ'[i] - 1) : Covered(k)
    <2> SUFFICES ASSUME NEW i \in 1..Len(execQ'), NEW k \in 0..(execQ'[i] - 1)
                 PROVE  Covered(k)
      OBVIOUS
    <2>1. CASE i \in 1..Len(execQ) /\ execQ'[i] = execQ[i]
      BY <2>1 DEF NoGapInv, TokenCovered
    <2>2. CASE execQ'[i] = n + 1
      <3>1. k \in 0..n
        BY <1>1, <2>2
      <3> QED BY <1>2, <3>1
    <2> QED BY <1>4, <2>1, <2>2
  <1>6. TokenCovered'
    BY <1>0, <1>3, <1>5, CoveredFrame DEF NoGapInv, TokenCovered
  <1>7. UnpublishedIsNext'
    BY <1>0, CoveredFrame DEF NoGapInv, UnpublishedIsNext, archVars
  <1> QED BY <1>0, <1>6, <1>7, CoveredFrame DEF NoGapInv

(* At the head the comparer keeps its number, then gives it back. *)
LEMMA GapCompareWait ==
    ASSUME TypeOK, NoGapInv, CompareWait
    PROVE  NoGapInv'
  <1>0. /\ compQ \in Seq(Nat) /\ compQ # << >>
        /\ UNCHANGED archVars /\ UNCHANGED <<exec, execQ>>
        /\ compQ' = Tail(compQ) /\ comp'.num = Head(compQ)
    BY GapTypes DEF CompareWait, archVars, storeVars
  <1>1. Head(compQ) = compQ[1] /\ 1 \in 1..Len(compQ)
    BY <1>0
  <1>2. \A i \in 1..Len(compQ') : i + 1 \in 1..Len(compQ) /\ compQ'[i] = compQ[i + 1]
    BY <1>0
  <1>3. TokenCovered'
    BY <1>0, <1>1, <1>2, CoveredFrame DEF NoGapInv, TokenCovered
  <1>4. UnpublishedIsNext'
    BY <1>0, CoveredFrame DEF NoGapInv, UnpublishedIsNext, archVars
  <1> QED BY <1>0, <1>3, <1>4, CoveredFrame DEF NoGapInv

LEMMA GapCompareTimer ==
    ASSUME TypeOK, NoGapInv, CompareTimer
    PROVE  NoGapInv'
  <1>0. /\ execQ \in Seq(Nat) /\ comp # IdleComp /\ comp.num \in Nat
        /\ UNCHANGED archVars /\ UNCHANGED <<exec, compQ>>
        /\ comp' = IdleComp /\ execQ' = Append(execQ, comp.num)
    BY GapTypes DEF CompareTimer, archVars, storeVars, IdleComp
  <1>1. \A i \in 1..Len(execQ') : \/ i \in 1..Len(execQ) /\ execQ'[i] = execQ[i]
                                  \/ execQ'[i] = comp.num
    BY <1>0
  <1>2. \A k \in 0..comp.num : Covered(k)
    BY <1>0 DEF NoGapInv, TokenCovered
  <1>3. \A i \in 1..Len(execQ') : \A k \in 0..(execQ'[i] - 1) : Covered(k)
    BY <1>0, <1>1, <1>2 DEF NoGapInv, TokenCovered
  <1>4. TokenCovered'
    BY <1>0, <1>3, CoveredFrame DEF NoGapInv, TokenCovered
  <1>5. UnpublishedIsNext'
    BY <1>0, CoveredFrame DEF NoGapInv, UnpublishedIsNext, archVars
  <1> QED BY <1>0, <1>4, <1>5, CoveredFrame DEF NoGapInv

-----------------------------------------------------------------------------
(* The archiver takes the head of its queue: what waited behind it now waits *)
(* one place nearer, what waited for it is being archived.                   *)
LEMMA GapNotifierCheck ==
    ASSUME TypeOK, NoGapInv, NotifierCheck
    PROVE  NoGapInv'
  <1>0. /\ archQ \in Seq(Message) /\ archQ # << >> /\ arch = IdleArch
        /\ archQ' = Tail(archQ) /\ arch'.msg = Head(archQ) /\ arch' # IdleArch
        /\ UNCHANGED <<db, mq, execQ, exec, compQ, comp>>
    BY GapTypes DEF NotifierCheck, storeVars, IdleArch
  <1>1. /\ Head(archQ) = archQ[1] /\ 1 \in 1..Len(archQ)
        /\ archQ[1].num \in Nat
    BY <1>0, GapTypes
  <1>a. PICK len \in Nat : len + 1 = Len(archQ)
    BY <1>0
  <1>2. /\ Len(archQ') = len
        /\ \A i \in 1..len : archQ'[i] = archQ[i + 1]
    BY <1>0, <1>a
  <1>3. Published' = Published
    BY <1>0 DEF Published
  <1>4. \A k : Settled(k)' = Settled(k) /\ ~Archiving(k)
               /\ Archiving(k)' = (archQ[1].num = k)
    BY <1>0, <1>1, <1>3 DEF Settled, Archiving
  <1>5. \A k : \A i \in 0..len :
           Waiting(k, i + 1) => Archiving(k)' \/ Waiting(k, i)'
    <2> SUFFICES ASSUME NEW k, NEW i \in 0..len, Waiting(k, i + 1)
                 PROVE  Archiving(k)' \/ Waiting(k, i)'
      OBVIOUS
    <2>1. PICK j \in 1..(i + 1) : archQ[j].num = k
      BY DEF Waiting
    <2>2. CASE j = 1
      BY <1>4, <2>1, <2>2
    <2>3. CASE j # 1
      <3>1. j - 1 \in 1..i /\ j - 1 \in 1..len /\ (j - 1) + 1 = j
        BY <2>3
      <3>2. archQ'[j - 1].num = k
        BY <1>2, <2>1, <3>1
      <3> QED BY <3>1, <3>2 DEF Waiting
    <2> QED BY <2>2, <2>3
  <1>6. \A k : Covered(k) => Covered(k)'
    <2> SUFFICES ASSUME NEW k, Covered(k) PROVE Covered(k)'
      OBVIOUS
    <2>1. Settled(k)' \/ Archiving(k)' \/ Waiting(k, len)'
      BY <1>4, <1>5, <1>a DEF Covered
    <2> QED BY <1>2, <2>1 DEF Covered
  <1>7. RowsSettled'
    BY <1>0, <1>3 DEF NoGapInv, RowsSettled
  <1>8. QueueCovered'
    <2>1. \A k \in 0..(archQ[1].num - 1) : Settled(k)
      BY <1>1, <1>4 DEF NoGapInv, QueueCovered, Waiting
    <2>2. \A k \in 0..(arch'.msg.num - 1) : Settled(k)'
      BY <1>0, <1>1, <1>4, <2>1
    <2>3. ASSUME NEW i \in 1..Len(archQ'), NEW k \in 0..(archQ'[i].num - 1)
          PROVE  (Settled(k) \/ Archiving(k) \/ Waiting(k, i - 1))'
      <3>1. i \in 1..len /\ i - 1 \in 0..len /\ (i - 1) + 1 = i
            /\ i + 1 \in 1..Len(archQ) /\ (i + 1) - 1 = i
        BY <1>2, <1>a
      <3>2. archQ'[i] = archQ[i + 1]
        BY <1>2, <3>1
      <3>3. Settled(k) \/ Archiving(k) \/ Waiting(k, i)
        BY <3>1, <3>2 DEF NoGapInv, QueueCovered
      <3>4. Settled(k)' \/ Archiving(k)' \/ Waiting(k, i - 1)'
        BY <1>4, <1>5, <3>1, <3>3
      <3> QED BY <3>4
    <2> QED BY <2>2, <2>3 DEF QueueCovered
  <1>9. TokenCovered'
    BY <1>0, <1>6 DEF NoGapInv, TokenCovered
  <1>10. UnpublishedIsNext'
    BY <1>0, <1>1, <1>3 DEF NoGapInv, UnpublishedIsNext
  <1> QED BY <1>7, <1>8, <1>9, <1>10 DEF NoGapInv

(* The metadata of a block leaves the block's own write to come. *)
LEMMA GapMetadata ==
    ASSUME TypeOK, NoGapInv, ArchiveMetadata \/ SendMetadata
    PROVE  NoGapInv'
  <1>1. CASE ArchiveMetadata
    <2>1. /\ arch # IdleArch /\ arch' # IdleArch /\ arch'.msg = arch.msg
          /\ UNCHANGED <<mq, archQ, execQ, exec, compQ, comp>>
      BY <1>1 DEF ArchiveMetadata, WriteMetadata, IdleArch, NotifierVarsButArch
    <2>2. db'.blocks = db.blocks
      BY <1>1 DEF ArchiveMetadata, WriteMetadata, InsertMetadata, TypeOK, StoresOK, DbOK
    <2> QED
      BY <2>1, <2>2 DEF NoGapInv, RowsSettled, QueueCovered, TokenCovered,
         UnpublishedIsNext, Covered, Settled, Archiving, Waiting, Published
  <1>2. CASE SendMetadata
    <2>1. /\ arch # IdleArch /\ arch' # IdleArch /\ arch'.msg = arch.msg
          /\ UNCHANGED <<db, archQ, execQ, exec, compQ, comp>>
      BY <1>2 DEF SendMetadata, PublishMetadata, IdleArch, NotifierVarsButArch
    <2>2. mq'.blocks = mq.blocks
      BY <1>2 DEF SendMetadata, PublishMetadata, TypeOK, StoresOK
    <2> QED
      BY <2>1, <2>2 DEF NoGapInv, RowsSettled, QueueCovered, TokenCovered,
         UnpublishedIsNext, Covered, Settled, Archiving, Waiting, Published
  <1> QED BY <1>1, <1>2

(* The row is written: all lower numbers are published, and the new row is   *)
(* the only one that is not.                                                 *)
LEMMA GapArchiveBlock ==
    ASSUME TypeOK, NoGapInv, ArchiveBlock
    PROVE  NoGapInv'
  <1>0. /\ arch # IdleArch /\ arch' # IdleArch /\ arch'.msg = arch.msg
        /\ UNCHANGED <<mq, archQ, execQ, exec, compQ, comp>>
        /\ arch.msg.num \in Nat /\ arch.msg.num < DbLimit
        /\ DbLimit \in Nat /\ DOMAIN db.blocks \subseteq Nat
    BY GapTypes DEF ArchiveBlock, WriteBlock, BlockAccepted, IdleArch, NotifierVarsButArch
  <1>1. DOMAIN db'.blocks = DOMAIN db.blocks \cup {arch.msg.num}
    BY WriteBlockEffect DEF ArchiveBlock
  <1>2. Published' = Published
    BY <1>0 DEF Published
  <1>3. \A k : /\ Settled(k)' = Settled(k) /\ Archiving(k)' = Archiving(k)
               /\ Covered(k)' = Covered(k)
    BY <1>0, <1>2 DEF Settled, Archiving, Covered, Waiting
  <1>4. \A k \in 0..(arch.msg.num - 1) : k \in Published
    BY <1>0 DEF NoGapInv, QueueCovered, Settled
  <1>5. RowsSettled'
    BY <1>0, <1>1, <1>2, <1>4 DEF NoGapInv, RowsSettled
  <1>6. QueueCovered' /\ TokenCovered'
    <2>1. QueueCovered'
      BY <1>0, <1>3 DEF NoGapInv, QueueCovered, Waiting
    <2>2. TokenCovered'
      BY <1>0, <1>3 DEF NoGapInv, TokenCovered
    <2> QED BY <2>1, <2>2
  <1>7. UnpublishedIsNext'
    BY <1>0, <1>1, <1>2 DEF NoGapInv, UnpublishedIsNext
  <1> QED BY <1>5, <1>6, <1>7 DEF NoGapInv

(* Only the partition limit refuses a row, so the number is settled. *)
LEMMA GapBlockRefused ==
    ASSUME TypeOK, StageOK, NoGapInv, BlockRefused
    PROVE  NoGapInv'
  <1>0. /\ arch # IdleArch /\ arch' = IdleArch
        /\ UNCHANGED <<db, mq, archQ, execQ, exec, compQ, comp>>
        /\ arch.msg.num \in Nat
        /\ DbLimit \in Nat /\ DOMAIN db.blocks \subseteq Nat
    BY GapTypes DEF BlockRefused, IdleArch, NotifierVarsButArch, storeVars
  <1>1. arch.msg.num >= DbLimit
    BY <1>0 DEF BlockRefused, BlockAccepted, StageOK
  <1>2. Published' = Published
    BY <1>0 DEF Published
  <1>3. \A k : /\ Settled(k)' = Settled(k)
               /\ Archiving(k) => Settled(k)
    BY <1>0, <1>1, <1>2 DEF Settled, Archiving
  <1>4. \A k : /\ Covered(k) => Covered(k)'
               /\ \A i \in Int : Waiting(k, i)' = Waiting(k, i)
    BY <1>0, <1>3 DEF Covered, Waiting
  <1>5. RowsSettled'
    BY <1>0, <1>2 DEF NoGapInv, RowsSettled
  <1>6. QueueCovered'
    BY <1>0, <1>3 DEF NoGapInv, QueueCovered, Waiting
  <1>7. TokenCovered'
    BY <1>0, <1>4 DEF NoGapInv, TokenCovered
  <1>8. DOMAIN db.blocks \subseteq Published
    BY <1>0, <1>1 DEF NoGapInv, UnpublishedIsNext, RowsSettled
  <1>9. UnpublishedIsNext'
    BY <1>0, <1>2, <1>8 DEF UnpublishedIsNext
  <1> QED BY <1>5, <1>6, <1>7, <1>9 DEF NoGapInv

(* The row is published, and with it every row. *)
LEMMA GapSendMqBlock ==
    ASSUME TypeOK, NoGapInv, SendMqBlock
    PROVE  NoGapInv'
  <1>0. /\ arch # IdleArch /\ arch' = IdleArch
        /\ UNCHANGED <<db, archQ, execQ, exec, compQ, comp>>
        /\ arch.msg.num \in Nat
        /\ DbLimit \in Nat /\ DOMAIN db.blocks \subseteq Nat
    BY GapTypes DEF SendMqBlock, PublishBlock, IdleArch, NotifierVarsButArch
  <1>1. mq'.blocks = mq.blocks \cup {arch.msg}
    BY DEF SendMqBlock, PublishBlock, TypeOK, StoresOK
  <1>2. Published' = Published \cup {arch.msg.num}
    BY <1>1 DEF Published
  <1>3. \A k : /\ Settled(k) => Settled(k)'
               /\ Archiving(k) => Settled(k)'
    BY <1>0, <1>2 DEF Settled, Archiving
  <1>4. \A k : Covered(k) => Covered(k)'
    BY <1>0, <1>3 DEF Covered, Waiting
  <1>5. RowsSettled'
    BY <1>0, <1>2 DEF NoGapInv, RowsSettled
  <1>6. QueueCovered'
    BY <1>0, <1>3 DEF NoGapInv, QueueCovered, Waiting
  <1>7. TokenCovered'
    BY <1>0, <1>4 DEF NoGapInv, TokenCovered
  <1>8. DOMAIN db.blocks \subseteq Published'
    BY <1>0, <1>2 DEF NoGapInv, UnpublishedIsNext
  <1>9. UnpublishedIsNext'
    BY <1>0, <1>8 DEF UnpublishedIsNext
  <1> QED BY <1>5, <1>6, <1>7, <1>9 DEF NoGapInv

-----------------------------------------------------------------------------
LEMMA GapNext ==
    ASSUME NoLoss, TypeOK, OrderInv, LeftZero, NoGapInv, [Next]_vars
    PROVE  NoGapInv'
  <1>0. ~Fails("stores") /\ ~Fails("states") /\ StageOK
    BY NoFault DEF OrderInv
  <1>1. CASE StartNode \/ StartInNewFolder
    <2>1. UNCHANGED gapVars
      BY <1>1, Zenon DEF StartNode, StartInNewFolder, Start, NoLoss, gapVars, storeVars
    <2> QED BY <2>1, GapFrame
  <1>2. CASE InitializerRun
    BY <1>2, GapInitializer
  <1>3. CASE InitializerPanic \/ ExecuteBlockFails \/ NotifierCheckFails
             \/ NotifierWriteFails
    BY <1>0, <1>3 DEF InitializerPanic, ExecuteBlockFails, NotifierCheckFails,
       NotifierWriteFails
  <1>4. CASE Crash \/ MetadataPanic
    BY <1>4, GapExit DEF Crash, MetadataPanic, Panic
  <1>5. CASE ExecutorRecv \/ ExecuteBlock \/ SendBlock
    BY <1>5, GapExecutorRecv, GapExecuteBlock, GapSendBlock
  <1>6. CASE Comparer
    BY <1>6, GapCompareNext, GapCompareWait, GapCompareTimer DEF Comparer
  <1>7. CASE NotifierCheck \/ ArchiveMetadata \/ SendMetadata
    BY <1>7, GapNotifierCheck, GapMetadata
  <1>8. CASE ArchiveBlock \/ BlockRefused \/ SendMqBlock
    BY <1>0, <1>8, GapArchiveBlock, GapBlockRefused, GapSendMqBlock
  <1>9. CASE Chain \/ UNCHANGED vars
    <2>1. UNCHANGED gapVars
      BY <1>9, Zenon DEF Chain, ImportBlock, FinalityReorg, CatchUp, CatchUpReorg,
         gapVars, storeVars, taskVars, vars
    <2> QED BY <2>1, GapFrame
  <1> QED
    BY <1>1, <1>2, <1>3, <1>4, <1>5, <1>6, <1>7, <1>8, <1>9
    DEF Next, Startup, Executor, Notifier

(* No crash, panic, re-organisation or new data folder opens a gap: the      *)
(* numbers in flight, the rows and the messages always fit together.         *)
THEOREM NoGap == ASSUME NoLoss PROVE Spec => []NoGapInv
  <1>1. Init => LeftZero /\ NoGapInv
    <2> SUFFICES ASSUME Init PROVE LeftZero /\ NoGapInv
      OBVIOUS
    <2>1. LeftZero
      BY DEF Init, LeftZero, NoLoss
    <2>2. DOMAIN db.blocks = {}
      BY DEF Init, EmptyDb
    <2>3. NoGapInv
      BY <2>2 DEF Init, NoGapInv, RowsSettled, QueueCovered, TokenCovered,
         UnpublishedIsNext
    <2> QED BY <2>1, <2>3
  <1>2. TypeOK /\ OrderInv /\ LeftZero /\ NoGapInv /\ [Next]_vars
           => LeftZero' /\ NoGapInv'
    BY LeftZeroNext, GapNext
  <1> QED BY <1>1, <1>2, TypeCorrect, OrderCorrect, PTL DEF Spec

(* A published number has a row. *)
LEMMA PublishedInDb == MqAfterDb => Published \subseteq DOMAIN db.blocks
  BY DEF MqAfterDb, Published

(* The block numbers in the table have no gap. *)
THEOREM Contiguous == ASSUME NoLoss PROVE Spec => []RowsContiguous
  <1>1. TypeOK /\ OrderInv /\ NoGapInv => RowsContiguous
    <2> SUFFICES ASSUME TypeOK, OrderInv, NoGapInv,
                        NEW n \in DOMAIN db.blocks, NEW k \in 0..n
                 PROVE  k \in DOMAIN db.blocks
      BY DEF RowsContiguous
    <2>1. n \in Nat
      BY GapTypes
    <2>2. k = n \/ k \in 0..(n - 1)
      BY <2>1
    <2> QED BY <2>2, PublishedInDb DEF OrderInv, NoGapInv, RowsSettled
  <1> QED BY <1>1, TypeCorrect, OrderCorrect, NoGap, PTL

(* A row Kafka has not seen is the one a restart resumes from. *)
THEOREM UnpublishedNewest == ASSUME NoLoss PROVE Spec => []UnpublishedIsNewest
  <1>1. TypeOK /\ NoGapInv => UnpublishedIsNewest
    <2> SUFFICES ASSUME TypeOK, NoGapInv,
                        NEW n \in DOMAIN db.blocks, n \notin Published
                 PROVE  n \in MaxBlockNum(db)
      BY DEF UnpublishedIsNewest
    <2>1. \A m \in DOMAIN db.blocks : m <= n
      BY GapTypes DEF NoGapInv, RowsSettled
    <2> QED BY <2>1 DEF MaxBlockNum
  <1> QED BY <1>1, TypeCorrect, NoGap, PTL

(* The number that circulates has left no block behind. *)
THEOREM NoneSkipped == ASSUME NoLoss PROVE Spec => []NothingSkipped
  <1>1. TypeOK /\ OrderInv /\ NoGapInv => NothingSkipped
    <2> SUFFICES ASSUME TypeOK, OrderInv, NoGapInv,
                        NEW t \in Circulating, NEW k \in 0..(t - 1)
                 PROVE  \/ k \in ToArchive
                        \/ k \in DOMAIN db.blocks /\ k \in Published
                        \/ k >= DbLimit
      BY DEF NothingSkipped
    <2>0. /\ execQ \in Seq(Nat) /\ compQ \in Seq(Nat)
          /\ exec # IdleExec => exec.num \in Nat
          /\ comp # IdleComp => comp.num \in Nat
      BY GapTypes
    <2>1. Covered(k)
      <3>1. CASE t \in Elements(execQ)
        BY <3>1 DEF Elements, NoGapInv, TokenCovered
      <3>2. CASE t \in Elements(compQ)
        <4>1. PICK i \in 1..Len(compQ) : t = compQ[i]
          BY <3>2 DEF Elements
        <4>2. k \in 0..compQ[i]
          BY <2>0, <4>1
        <4> QED BY <4>2 DEF NoGapInv, TokenCovered
      <3>3. CASE t \in {e.num : e \in {exec} \ {IdleExec}}
        BY <3>3 DEF NoGapInv, TokenCovered
      <3>4. CASE t \in {c.num : c \in {comp} \ {IdleComp}}
        <4>1. comp # IdleComp /\ t = comp.num
          BY <3>4
        <4>2. k \in 0..comp.num
          BY <2>0, <4>1
        <4> QED BY <4>1, <4>2 DEF NoGapInv, TokenCovered
      <3> QED BY <3>1, <3>2, <3>3, <3>4 DEF Circulating
    <2>2. CASE Settled(k)
      BY <2>2, PublishedInDb DEF Settled, OrderInv
    <2>3. CASE Archiving(k)
      BY <2>3 DEF Archiving, ToArchive
    <2>4. CASE Waiting(k, Len(archQ))
      BY <2>4 DEF Waiting, ToArchive, Elements
    <2> QED BY <2>1, <2>2, <2>3, <2>4 DEF Covered
  <1> QED BY <1>1, TypeCorrect, OrderCorrect, NoGap, PTL

-----------------------------------------------------------------------------
(* The pipeline implements ArchiveLog. *)

(* The first write of a row finds all lower rows, no higher one, and every   *)
(* row published.                                                            *)
LEMMA ArchiveBlockRefines ==
    ASSUME TypeOK, OrderInv, NoGapInv, ArchiveBlock
    PROVE  Log!Archive \/ UNCHANGED <<DOMAIN db.blocks, Published>>
  <1> DEFINE num == arch.msg.num
  <1>0. /\ arch # IdleArch /\ num \in Nat /\ num < DbLimit
        /\ DbLimit \in Nat /\ DOMAIN db.blocks \subseteq Nat
        /\ DOMAIN db'.blocks = DOMAIN db.blocks \cup {num} /\ mq' = mq
    BY GapTypes, WriteBlockEffect DEF ArchiveBlock, WriteBlock, IdleArch
  <1>1. Published' = Published /\ Published \subseteq DOMAIN db.blocks
    BY <1>0, PublishedInDb DEF Published, OrderInv
  <1>2. CASE num \in DOMAIN db.blocks
    BY <1>0, <1>1, <1>2
  <1>3. CASE num \notin DOMAIN db.blocks
    <2>1. Published = DOMAIN db.blocks
      <3>1. \A n \in DOMAIN db.blocks \ Published : n = num
        BY <1>0 DEF NoGapInv, UnpublishedIsNext
      <3>2. DOMAIN db.blocks \subseteq Published
        BY <1>3, <3>1
      <3> QED BY <1>1, <3>2
    <2>2. 0..(num - 1) \subseteq DOMAIN db.blocks
      BY <1>0, <1>1 DEF NoGapInv, QueueCovered, Settled
    <2>3. ASSUME NEW n \in DOMAIN db.blocks PROVE n \in 0..(num - 1)
      <3>1. n \in Nat /\ n # num
        BY <1>0, <1>3
      <3>2. ~(num < n)
        <4> SUFFICES ASSUME num < n PROVE FALSE
          OBVIOUS
        <4>1. num \in 0..(n - 1)
          BY <1>0, <3>1
        <4> QED BY <1>1, <1>3, <4>1 DEF NoGapInv, RowsSettled
      <3> QED BY <1>0, <3>1, <3>2
    <2>4. DOMAIN db.blocks = 0..(num - 1)
      BY <2>2, <2>3
    <2> QED BY <1>0, <1>1, <2>1, <2>4 DEF Log!Archive
  <1> QED BY <1>2, <1>3

(* The first message of a row makes the topic equal to the table. *)
LEMMA SendMqBlockRefines ==
    ASSUME TypeOK, OrderInv, NoGapInv, SendMqBlock
    PROVE  Log!Publish \/ UNCHANGED <<DOMAIN db.blocks, Published>>
  <1> DEFINE num == arch.msg.num
  <1>0. /\ arch # IdleArch /\ arch.stage = "send_block" /\ db' = db
        /\ mq'.blocks = mq.blocks \cup {arch.msg}
    BY PublishBlockEffect DEF SendMqBlock, PublishBlock, IdleArch
  <1>1. Published' = Published \cup {num}
    BY <1>0 DEF Published
  <1>2. num \in DOMAIN db.blocks /\ Published \subseteq DOMAIN db.blocks
    BY <1>0, PublishedInDb DEF OrderInv, StageOK
  <1>3. CASE num \in Published
    BY <1>0, <1>1, <1>3
  <1>4. CASE num \notin Published
    <2>1. DOMAIN db.blocks = Published \cup {num}
      BY <1>0, <1>2 DEF NoGapInv, UnpublishedIsNext
    <2> QED BY <1>0, <1>1, <1>2, <1>4, <2>1 DEF Log!Publish
  <1> QED BY <1>3, <1>4

(* The archive's readers see the log of ArchiveLog and nothing else. *)
THEOREM Refinement == ASSUME NoLoss PROVE Spec => ImplementsArchiveLog
  <1>1. Init => Log!Init
    BY DEF Init, EmptyDb, Log!Init, Published
  <1>2. TypeOK /\ OrderInv /\ LeftZero /\ NoGapInv /\ [Next]_vars
           => [Log!Next]_<<DOMAIN db.blocks, Published>>
    <2> SUFFICES ASSUME TypeOK, OrderInv, LeftZero, NoGapInv, [Next]_vars
                 PROVE  Log!Next \/ UNCHANGED <<DOMAIN db.blocks, Published>>
      OBVIOUS
    <2>0. ~Fails("stores") /\ ~Fails("states")
      BY NoFault
    <2>1. CASE ArchiveBlock
      BY <2>1, ArchiveBlockRefines DEF Log!Next
    <2>2. CASE SendMqBlock
      BY <2>2, SendMqBlockRefines DEF Log!Next
    <2>3. CASE ArchiveMetadata
      BY <2>3, WriteMetadataEffect DEF ArchiveMetadata, Published
    <2>4. CASE SendMetadata
      BY <2>4, PublishMetadataEffect DEF SendMetadata, Published
    <2>5. CASE UNCHANGED storeVars
      BY <2>5 DEF storeVars, Published
    <2> QED
      BY <2>0, <2>1, <2>2, <2>3, <2>4, <2>5
      DEF Next, Startup, StartNode, StartInNewFolder, Start, InitializerRun,
          InitializerPanic, Crash, Executor, ExecutorRecv, ExecuteBlock,
          ExecuteBlockFails, SendBlock, Comparer, CompareNext, CompareWait,
          CompareTimer, Notifier, NotifierCheck, NotifierCheckFails,
          MetadataPanic, Panic, BlockRefused, NotifierWriteFails, Chain,
          ImportBlock, FinalityReorg, CatchUp, CatchUpReorg, vars
  <1>3. Init => LeftZero
    BY DEF Init, LeftZero, NoLoss
  <1>4. TypeOK /\ LeftZero /\ [Next]_vars => LeftZero'
    BY LeftZeroNext
  <1> QED
    BY <1>1, <1>2, <1>3, <1>4, TypeCorrect, OrderCorrect, NoGap, PTL
    DEF Spec, ImplementsArchiveLog, Log!Spec
===============================================================================
