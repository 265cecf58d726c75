-------------------------- MODULE RuntimeApiProofs --------------------------
(***************************************************************************)
(* Calls into the runtime keep their transactions and their changes apart: *)
(* proofs about RuntimeApi, for any tasks, labels, versions, local         *)
(* runtimes and bounds.                                                    *)
(*                                                                         *)
(* The inductive invariant lists what an API object can look like in the   *)
(* hands of a worker and of a notifier.                                    *)
(***************************************************************************)
EXTENDS RuntimeApi, WasmOverrideProofs

(* Blocks are finite sequences of labels, and their parts are blocks. *)
LEMMA BlocksAreSeqs == Blocks \subseteq Seq(Labels) /\ Genesis \in Blocks
  <1>1. ASSUME NEW b \in Blocks PROVE b \in Seq(Labels)
    <2>1. PICK n \in 0..MaxHeight : b \in [1..n -> Labels]
      BY DEF Blocks
    <2> QED BY <2>1, RuntimeAssumption
  <1>2. Genesis \in [1..0 -> Labels]
    BY DEF Genesis
  <1>3. 0 \in 0..MaxHeight
    BY RuntimeAssumption
  <1> QED BY <1>1, <1>2, <1>3 DEF Blocks

LEMMA BlockLength ==
    ASSUME NEW b \in Seq(Labels), Len(b) <= MaxHeight
    PROVE  b \in Blocks
  <1>1. b \in [1..Len(b) -> Labels] /\ Len(b) \in 0..MaxHeight
    BY RuntimeAssumption
  <1> QED BY <1>1 DEF Blocks

LEMMA BlockBounded == \A b \in Blocks : Len(b) \in 0..MaxHeight
  BY RuntimeAssumption DEF Blocks

LEMMA AncestorIsBlock ==
    ASSUME NEW b \in Blocks, NEW n \in Nat, n <= Len(b)
    PROVE  BlockAt(b, n) \in Blocks
  <1>1. b \in Seq(Labels) /\ Len(b) \in Nat /\ Len(b) <= MaxHeight
    BY BlocksAreSeqs, BlockBounded, RuntimeAssumption
  <1>2. BlockAt(b, n) \in Seq(Labels) /\ Len(BlockAt(b, n)) = n
    BY <1>1 DEF BlockAt
  <1> QED BY <1>1, <1>2, BlockLength, RuntimeAssumption

LEMMA ParentIsBlock ==
    ASSUME NEW b \in Blocks, b # Genesis
    PROVE  Parent(b) \in Blocks
  <1>1. b \in Seq(Labels) /\ Len(b) \in Nat /\ Len(b) # 0
    BY BlocksAreSeqs DEF Genesis
  <1>2. Parent(b) = BlockAt(b, Len(b) - 1)
    BY DEF Parent, BlockAt
  <1> QED BY <1>1, <1>2, AncestorIsBlock

LEMMA VersionIsNat ==
    ASSUME NEW b \in Blocks
    PROVE  SpecVersion(b) \in Nat
  <1>1. CASE b = Genesis
    BY <1>1, RuntimeAssumption DEF SpecVersion
  <1>2. CASE b # Genesis
    <2>1. b[Len(b)] \in Labels
      BY <1>2, BlocksAreSeqs DEF Genesis
    <2> QED BY <1>2, <2>1, RuntimeAssumption DEF SpecVersion
  <1> QED BY <1>1, <1>2

-----------------------------------------------------------------------------
(* The best block is stored, and all stored are blocks. *)
ChainOK == stored \subseteq Blocks /\ main \in stored

(* A hash names its block only; any id names blocks. *)
LEMMA ResolveHash == \A b : Resolve(ByHash(b)) \subseteq {b}
  BY DEF Resolve, ByHash

LEMMA ResolveNumber ==
    ASSUME ChainOK, NEW n \in Nat
    PROVE  Resolve(ByNumber(n)) \subseteq Blocks
  <1>1. main \in Blocks /\ Len(main) \in Nat
    BY BlocksAreSeqs DEF ChainOK
  <1>2. Resolve(ByNumber(n)) = {BlockAt(main, k) : k \in {n} \cap 0..Len(main)}
    BY DEF Resolve, ByNumber
  <1>3. ASSUME NEW k \in {n} \cap 0..Len(main) PROVE BlockAt(main, k) \in Blocks
    BY <1>1, AncestorIsBlock
  <1> QED BY <1>2, <1>3

(* Every step of the chain keeps it. *)
LEMMA ImportChain == ChainOK /\ ImportBlock => ChainOK'
  <1> SUFFICES ASSUME ChainOK, ImportBlock PROVE ChainOK'
    OBVIOUS
  <1>1. PICK parent \in stored, l \in Labels :
           /\ Len(Append(parent, l)) <= MaxHeight
           /\ stored' = stored \cup {Append(parent, l)}
           /\ main' \in {main, Append(parent, l)}
    BY DEF ImportBlock
  <1>2. Append(parent, l) \in Blocks
    <2>1. parent \in Seq(Labels)
      BY BlocksAreSeqs DEF ChainOK
    <2>2. Append(parent, l) \in Seq(Labels)
      BY <2>1
    <2> QED BY <1>1, <2>2, BlockLength
  <1> QED BY <1>1, <1>2 DEF ChainOK

-----------------------------------------------------------------------------
(* A second and a third element. *)
LEMMA AppendTuple ==
    /\ \A a, x : Append(<<a>>, x) = <<a, x>>
    /\ \A a, b, x : Append(<<a, b>>, x) = <<a, b, x>>
  <1>1. ASSUME NEW a, NEW x, NEW s, s = <<a>> PROVE Append(s, x) = <<a, x>>
    <2>1. Append(s, x) = [i \in 1..2 |-> IF i = 1 THEN a ELSE x]
      BY <1>1
    <2>2. [i \in 1..2 |-> IF i = 1 THEN a ELSE x] = <<a, x>>
      OBVIOUS
    <2> QED BY <2>1, <2>2
  <1>2. ASSUME NEW a, NEW b, NEW x, NEW s, s = <<a, b>> PROVE Append(s, x) = <<a, b, x>>
    <2>1. Append(s, x) = [i \in 1..3 |-> IF i = 1 THEN a ELSE IF i = 2 THEN b ELSE x]
      BY <1>2
    <2>2. [i \in 1..3 |-> IF i = 1 THEN a ELSE IF i = 2 THEN b ELSE x] = <<a, b, x>>
      OBVIOUS
    <2> QED BY <2>1, <2>2
  <1> QED BY <1>1, <1>2

(* Transactions: what opening, committing and rolling back does. *)
LEMMA Opened ==
    /\ \A a : StartTransaction(<<a>>) = <<a, {}>>
    /\ \A a, b : StartTransaction(<<a, b>>) = <<a, b, {}>>
  BY AppendTuple, Zenon DEF StartTransaction

LEMMA Committed ==
    /\ \A a, b : CommitTransaction(<<a, b>>) = <<a \cup b>>
    /\ \A a, b, c : CommitTransaction(<<a, b, c>>) = <<a, b \cup c>>
  <1>1. ASSUME NEW a, NEW b PROVE CommitTransaction(<<a, b>>) = <<a \cup b>>
    BY DEF CommitTransaction
  <1>2. ASSUME NEW a, NEW b, NEW c
        PROVE  CommitTransaction(<<a, b, c>>) = <<a, b \cup c>>
    BY DEF CommitTransaction
  <1> QED BY <1>1, <1>2

LEMMA RolledBack ==
    /\ \A a, b : RollbackTransaction(<<a, b>>) = <<a>>
    /\ \A a, b, c : RollbackTransaction(<<a, b, c>>) = <<a, b>>
  <1>1. ASSUME NEW a, NEW b, NEW s, s = <<a, b>> PROVE RollbackTransaction(s) = <<a>>
    <2>1. Len(s) - 1 = 1 /\ SubSeq(s, 1, 1) = [i \in 1..1 |-> s[i]]
      BY <1>1
    <2>2. [i \in 1..1 |-> s[i]] = <<a>>
      BY <1>1
    <2> QED BY <2>1, <2>2 DEF RollbackTransaction
  <1>2. ASSUME NEW a, NEW b, NEW c, NEW s, s = <<a, b, c>>
        PROVE  RollbackTransaction(s) = <<a, b>>
    <2>1. Len(s) - 1 = 2 /\ SubSeq(s, 1, 2) = [i \in 1..2 |-> s[i]]
      BY <1>2
    <2>2. [i \in 1..2 |-> s[i]] = <<a, b>>
      BY <1>2
    <2> QED BY <2>1, <2>2 DEF RollbackTransaction
  <1> QED BY <1>1, <1>2

-----------------------------------------------------------------------------
(* What the step of a task does to the object it holds, for an object with   *)
(* one call under way and for one with a nested call.                        *)
LEMMA Becomes ==
    ASSUME DOMAIN task = Tasks, NEW t \in Tasks, NEW state, Become(t, state)
    PROVE  /\ DOMAIN task' = Tasks /\ task'[t] = state
           /\ task' = [u \in Tasks |-> task'[u]]
           /\ \A u \in Tasks \ {t} : task'[u] = task[u]
  BY DEF Become

LEMMA InnerCall ==
    ASSUME NEW t, NEW job, NEW at, NEW f, NEW initialized, NEW layers,
           task[t] = Calling(job, at, <<f>>, initialized, layers)
    PROVE  /\ Len(task[t].frames) = 1 /\ Innermost(t) = f
           /\ task[t].stage = "call" /\ task[t].job = job /\ task[t].at = at
           /\ task[t].frames = <<f>>
           /\ task[t].initialized = initialized /\ task[t].layers = layers
  BY DEF Calling, Innermost

LEMMA NestedCall ==
    ASSUME NEW t, NEW job, NEW at, NEW e, NEW f, NEW initialized, NEW layers,
           task[t] = Calling(job, at, <<e, f>>, initialized, layers)
    PROVE  /\ Len(task[t].frames) = 2 /\ Innermost(t) = f
           /\ task[t].stage = "call" /\ task[t].job = job /\ task[t].at = at
           /\ task[t].frames = <<e, f>>
           /\ task[t].initialized = initialized /\ task[t].layers = layers
  BY DEF Calling, Innermost

LEMMA MoveInner ==
    ASSUME DOMAIN task = Tasks, NEW t \in Tasks,
           NEW job, NEW at, NEW f, NEW initialized, NEW layers,
           task[t] = Calling(job, at, <<f>>, initialized, layers),
           NEW stage, NEW state, NEW version, MoveCall(t, stage, state, version)
    PROVE  task'[t] = Calling(job, at, <<Frame(f.name, stage, state, version)>>,
                              initialized, layers)
  <1> DEFINE g == Frame(f.name, stage, state, version)
             s == task[t].frames
             move == [s EXCEPT ![Len(s)] = g]
  <1>1. /\ s = <<f>> /\ Len(s) = 1 /\ Innermost(t) = f
        /\ task[t].job = job /\ task[t].at = at
        /\ task[t].initialized = initialized /\ task[t].layers = layers
    BY InnerCall
  <1>2. task' = [task EXCEPT ![t] = Calling(job, at, move, initialized, layers)]
    BY <1>1, Zenon DEF MoveCall, Proceed, Become
  <1>3. move = <<g>>
    <2> HIDE DEF g, s
    <2> QED BY <1>1
  <1> HIDE DEF g, move
  <1>4. task'[t] = Calling(job, at, move, initialized, layers)
    BY <1>2
  <1> QED BY <1>3, <1>4 DEF g

LEMMA MoveNested ==
    ASSUME DOMAIN task = Tasks, NEW t \in Tasks,
           NEW job, NEW at, NEW e, NEW f, NEW initialized, NEW layers,
           task[t] = Calling(job, at, <<e, f>>, initialized, layers),
           NEW stage, NEW state, NEW version, MoveCall(t, stage, state, version)
    PROVE  task'[t] = Calling(job, at, <<e, Frame(f.name, stage, state, version)>>,
                              initialized, layers)
  <1> DEFINE g == Frame(f.name, stage, state, version)
             s == task[t].frames
             move == [s EXCEPT ![Len(s)] = g]
  <1>1. /\ s = <<e, f>> /\ Len(s) = 2 /\ Innermost(t) = f
        /\ task[t].job = job /\ task[t].at = at
        /\ task[t].initialized = initialized /\ task[t].layers = layers
    BY NestedCall
  <1>2. task' = [task EXCEPT ![t] = Calling(job, at, move, initialized, layers)]
    BY <1>1, Zenon DEF MoveCall, Proceed, Become
  <1>3. move = <<e, g>>
    <2> HIDE DEF g, s
    <2> QED BY <1>1
  <1> HIDE DEF g, move
  <1>4. task'[t] = Calling(job, at, move, initialized, layers)
    BY <1>2
  <1> QED BY <1>3, <1>4 DEF g

(* What a call leaves in the overlay: two layers for a single call, three    *)
(* with a nested one.                                                        *)
LEMMA WriteInner ==
    ASSUME NEW t, NEW a, NEW b, task[t].layers = <<a, b>>
    PROVE  Write(t) = <<a, b \cup Written(t)>>
  <1> DEFINE s == task[t].layers
             w == Written(t)
  <1>1. s = <<a, b>> /\ Len(s) = 2
    OBVIOUS
  <1>2. Write(t) = [s EXCEPT ![Len(s)] = @ \cup w]
    BY DEF Write
  <1> HIDE DEF s, w
  <1>3. [s EXCEPT ![Len(s)] = @ \cup w] = <<a, b \cup w>>
    BY <1>1
  <1> QED BY <1>2, <1>3 DEF w

LEMMA WriteNested ==
    ASSUME NEW t, NEW a, NEW b, NEW c, task[t].layers = <<a, b, c>>
    PROVE  Write(t) = <<a, b, c \cup Written(t)>>
  <1> DEFINE s == task[t].layers
             w == Written(t)
  <1>1. s = <<a, b, c>> /\ Len(s) = 3
    OBVIOUS
  <1>2. Write(t) = [s EXCEPT ![Len(s)] = @ \cup w]
    BY DEF Write
  <1> HIDE DEF s, w
  <1>3. [s EXCEPT ![Len(s)] = @ \cup w] = <<a, b, c \cup w>>
    BY <1>1
  <1> QED BY <1>2, <1>3 DEF w

(* The code that a call by hash gets is of the version of the block. *)
LEMMA OverrideExact ==
    ASSUME Built, OverridesExact, NEW block, WithOverrides,
           SpecVersion(block) \in DOMAIN overrides
    PROVE  SpecOf[overrides[SpecVersion(block)]] = SpecVersion(block)
  BY DEF Built, OverridesExact

LEMMA CodeOfBlock ==
    ASSUME Built, OverridesExact, NEW state, NEW block
    PROVE  CheckOverride(state, block) \in {SpecVersion(block), SpecVersion(state)}
  BY OverrideExact DEF CheckOverride

-----------------------------------------------------------------------------
(* What a worker holds: nothing; an object in the call of execute_block on   *)
(* the parent, with one empty transaction; an object whose call returned,    *)
(* with the changes of the block or none; those changes.                     *)
Outcome(job, ok) == IF ok THEN BlockChanges(job) ELSE {}
WorkerCall(job, stage, state, version) ==
    Calling(job, ByHash(Parent(job)), <<Frame("execute_block", stage, state, version)>>,
            {}, <<{}, {}>>)
Returned(job, ok, layer, initialized) ==
    [stage |-> "returned", job |-> job, ok |-> ok, layers |-> <<layer>>,
     initialized |-> initialized]
Taken(job, ok) ==
    [stage |-> "changes", job |-> job, ok |-> ok, changes |-> Outcome(job, ok)]

Calls(stage, state, version) ==
    stage \in {"state", "code", "run"} /\ state \in Blocks /\ version \in Nat

WorkerState(x) ==
    \/ x = Idle
    \/ \E job \in Blocks \ {Genesis} :
          \/ \E stage, state, version :
                /\ Calls(stage, state, version)
                /\ stage # "state" => state = Parent(job)
                /\ stage = "run" => version = SpecVersion(Parent(job))
                /\ x = WorkerCall(job, stage, state, version)
          \/ \E ok \in BOOLEAN : x = Returned(job, ok, Outcome(job, ok), {})
          \/ \E ok \in BOOLEAN : x = Taken(job, ok)

(* What a notifier holds: nothing; an object at a number that is to be       *)
(* initialized, that is being initialized by the nested call, or that is     *)
(* initialized, with the changes of initialize_block in the transaction; an  *)
(* object whose call returned.                                               *)
Uninitialized(n) ==
    Calling(Genesis, ByNumber(n), <<Frame("metadata", "init", Genesis, 0)>>, {}, <<{}, {}>>)
Initializing(n, stage, state, version) ==
    Calling(Genesis, ByNumber(n),
            <<Frame("metadata", "init", Genesis, 0),
              Frame("initialize_block", stage, state, version)>>, {}, <<{}, {}, {}>>)
Initialized(n, stage, state, version, change) ==
    Calling(Genesis, ByNumber(n), <<Frame("metadata", stage, state, version)>>,
            {ByNumber(n)}, <<{}, {change}>>)

NotifierState(x) ==
    \/ x = Idle
    \/ \E n \in 0..MaxHeight :
          \/ x = Uninitialized(n)
          \/ \E stage, state, version :
                Calls(stage, state, version) /\ x = Initializing(n, stage, state, version)
          \/ \E stage, state, version, change :
                /\ Calls(stage, state, version)
                /\ change \in Change /\ change.name = "initialize_block"
                /\ x = Initialized(n, stage, state, version, change)
          \/ \E ok \in BOOLEAN, layer \in SUBSET Change :
                x = Returned(Genesis, ok, layer, {ByNumber(n)})
          \/ x = Returned(Genesis, FALSE, {}, {})

TasksInv ==
    /\ DOMAIN task = Tasks /\ task = [t \in Tasks |-> task[t]]
    /\ \A t \in Workers : WorkerState(task[t])
    /\ \A t \in Notifiers : NotifierState(task[t])

ApiInv == ChainOK /\ IInv /\ TasksInv

-----------------------------------------------------------------------------
(* The steps of a worker. *)

(* The outermost call returns. *)
LEMMA RunOutermost ==
    ASSUME NEW t, NEW name, Run(t), Len(task[t].frames) = 1, Innermost(t).name = name
    PROVE  \E ok \in Decodes(name) :
              Become(t, [stage |-> "returned", job |-> task[t].job, ok |-> ok,
                         layers |-> CommitTransaction(Write(t)),
                         initialized |-> task[t].initialized])
  <1>1. Len(task[t].frames) # 2
    OBVIOUS
  <1> QED BY <1>1, Zenon DEF Run

(* While the call of execute_block is under way. *)
LEMMA WorkerCalling ==
    ASSUME ApiInv, Built, NEW t \in Workers, NEW job \in Blocks \ {Genesis},
           NEW stage, NEW state, NEW version, Calls(stage, state, version),
           stage # "state" => state = Parent(job),
           stage = "run" => version = SpecVersion(Parent(job)),
           task[t] = WorkerCall(job, stage, state, version),
           Step(t)
    PROVE  WorkerState(task'[t])
  <1> DEFINE f == Frame("execute_block", stage, state, version)
             at == ByHash(Parent(job))
  <1>1. task[t] = Calling(job, at, <<f>>, {}, <<{}, {}>>)
    BY DEF WorkerCall
  <1> HIDE DEF f, at
  <1>2. /\ Len(task[t].frames) = 1 /\ Innermost(t) = f
        /\ task[t].stage = "call" /\ task[t].job = job /\ task[t].at = at
        /\ task[t].frames = <<f>> /\ task[t].initialized = {}
        /\ task[t].layers = <<{}, {}>>
    BY <1>1, InnerCall
  <1>3. /\ f.name = "execute_block" /\ f.stage = stage /\ f.state = state
        /\ f.version = version
    BY DEF f, Frame
  <1>4. Parent(job) \in Blocks /\ SpecVersion(Parent(job)) \in Nat
    BY ParentIsBlock, VersionIsNat
  <1>5. t \in Tasks /\ DOMAIN task = Tasks /\ t \notin Notifiers
    BY RuntimeAssumption DEF Tasks, ApiInv, TasksInv
  <1>6. task[t] # Idle
    BY <1>2 DEF Idle
  <1>7. InCall(t, "init") = FALSE
    BY <1>2, <1>3 DEF InCall, Calls
  <1>8. Undone(<<{}, {}>>, task[t].frames) = <<{}>>
        /\ \A w : Undone(<<{}, w>>, task[t].frames) = <<{}>>
    BY <1>2, RolledBack DEF Undone
  <1>9. ASSUME NEW layers, Fail(t, layers), Undone(layers, task[t].frames) = <<{}>>
        PROVE  WorkerState(task'[t])
    <2>1. Become(t, Returned(job, FALSE, {}, {}))
      <3>1. (IF Len(task[t].frames) = 2 THEN {task[t].at} ELSE task[t].initialized) = {}
        BY <1>2
      <3> QED BY <1>2, <1>9, <3>1, Zenon DEF Fail, Returned
    <2>2. task'[t] = Returned(job, FALSE, Outcome(job, FALSE), {})
      BY <1>5, <2>1, Becomes DEF Outcome
    <2> QED BY <2>2 DEF WorkerState
  <1>10. CASE LoadState(t)
    <2>1. PICK s \in Resolve(at) : MoveCall(t, "code", s, version)
      BY <1>2, <1>3, <1>10 DEF LoadState
    <2>2. s = Parent(job)
      BY ResolveHash DEF at
    <2>3. task'[t] = Calling(job, at, <<Frame("execute_block", "code", s, version)>>,
                             {}, <<{}, {}>>)
      BY <1>1, <1>3, <1>5, <2>1, MoveInner
    <2>4. task'[t] = WorkerCall(job, "code", s, version)
      BY <2>3 DEF WorkerCall, at
    <2>5. Calls("code", s, version)
      BY <1>4, <2>2 DEF Calls
    <2> QED BY <2>2, <2>4, <2>5 DEF WorkerState
  <1>11. CASE LoadCode(t)
    <2>1. stage = "code" /\ state = Parent(job)
      BY <1>2, <1>3, <1>11 DEF LoadCode, InCall
    <2>2. PICK block \in (IF WithOverrides THEN Resolve(at) ELSE {state}) :
             MoveCall(t, "run", state, CheckOverride(state, block))
      BY <1>2, <1>3, <1>11 DEF LoadCode
    <2>3. block = Parent(job)
      BY <2>1, ResolveHash DEF at
    <2> DEFINE v == CheckOverride(state, block)
    <2>4. v = SpecVersion(Parent(job))
      BY <2>1, <2>3, CodeOfBlock DEF ApiInv, IInv
    <2> HIDE DEF v
    <2>5. task'[t] = Calling(job, at, <<Frame("execute_block", "run", state, v)>>,
                             {}, <<{}, {}>>)
      BY <1>1, <1>3, <1>5, <2>2, MoveInner DEF v
    <2>6. task'[t] = WorkerCall(job, "run", state, v)
      BY <2>5 DEF WorkerCall, at
    <2>7. Calls("run", state, v)
      BY <1>4, <2>1, <2>4 DEF Calls
    <2> QED BY <2>1, <2>4, <2>6, <2>7 DEF WorkerState
  <1>12. CASE LookupFails(t)
    BY <1>2, <1>8, <1>9, <1>12 DEF LookupFails
  <1>13. Write(t) = <<{}, Written(t)>> /\ (stage = "run" => Written(t) = BlockChanges(job))
    <2>1. Write(t) = <<{}, {} \cup Written(t)>>
      BY <1>2, WriteInner
    <2>2. Written(t) = {[name |-> "execute_block", block |-> job, state |-> state,
                         version |-> version]}
      BY <1>2, <1>3 DEF Written
    <2> QED BY <2>1, <2>2 DEF BlockChanges
  <1>14. CASE RunFails(t)
    BY <1>8, <1>9, <1>13, <1>14 DEF RunFails
  <1>15. CASE Run(t)
    <2>1. stage = "run"
      BY <1>2, <1>3, <1>15 DEF Run, InCall
    <2>2. CommitTransaction(Write(t)) = <<{} \cup Written(t)>>
      BY <1>13, Committed
    <2>3. CommitTransaction(Write(t)) = <<Outcome(job, TRUE)>>
      BY <1>13, <2>1, <2>2 DEF Outcome
    <2>4. Become(t, Returned(job, TRUE, Outcome(job, TRUE), {}))
      <3>1. PICK ok \in Decodes("execute_block") :
               Become(t, [stage |-> "returned", job |-> task[t].job, ok |-> ok,
                          layers |-> CommitTransaction(Write(t)),
                          initialized |-> task[t].initialized])
        BY <1>2, <1>3, <1>15, RunOutermost
      <3>2. ok = TRUE
        BY <3>1 DEF Decodes
      <3> QED BY <1>2, <2>3, <3>1, <3>2 DEF Returned
    <2>5. task'[t] = Returned(job, TRUE, Outcome(job, TRUE), {})
      BY <1>5, <2>4, Becomes
    <2> QED BY <2>5 DEF WorkerState
  <1> QED
    BY <1>2, <1>5, <1>6, <1>7, <1>10, <1>11, <1>12, <1>14, <1>15
       DEF Step, CallExecuteBlock, CallMetadata, InitializeBlock,
           IntoStorageChanges, Drop

(* Before and after that call. *)
LEMMA WorkerStep ==
    ASSUME ApiInv, Built, NEW t \in Workers, Step(t)
    PROVE  WorkerState(task'[t])
  <1>1. WorkerState(task[t]) /\ t \in Tasks /\ t \notin Notifiers /\ DOMAIN task = Tasks
    BY RuntimeAssumption DEF ApiInv, TasksInv, Tasks
  <1>2. CASE task[t] = Idle
    <2>1. CallExecuteBlock(t)
      BY <1>1, <1>2 DEF Idle, Step, CallMetadata, InitializeBlock, LoadState, LoadCode,
                        LookupFails, Run, RunFails, InCall, IntoStorageChanges, Drop
    <2>2. PICK job \in Blocks \ {Genesis} :
             Become(t, Construct(job, ByHash(Parent(job)), "execute_block", "state"))
      BY <2>1 DEF CallExecuteBlock
    <2>3. Construct(job, ByHash(Parent(job)), "execute_block", "state")
            = WorkerCall(job, "state", Genesis, 0)
      BY Opened, Zenon DEF Construct, WorkerCall
    <2>4. task'[t] = WorkerCall(job, "state", Genesis, 0)
      BY <1>1, <2>2, <2>3, Becomes
    <2>5. Calls("state", Genesis, 0)
      BY BlocksAreSeqs DEF Calls
    <2> QED BY <2>4, <2>5 DEF WorkerState
  <1>3. ASSUME NEW job \in Blocks \ {Genesis}, NEW ok \in BOOLEAN,
               task[t] = Returned(job, ok, Outcome(job, ok), {})
        PROVE  WorkerState(task'[t])
    <2>1. /\ task[t].stage = "returned" /\ task[t].job = job /\ task[t].ok = ok
          /\ task[t].layers = <<Outcome(job, ok)>>
      BY <1>3 DEF Returned
    <2>2. task[t].layers[1] = Outcome(job, ok)
      BY <2>1
    <2>3. CASE IntoStorageChanges(t)
      <3>1. Become(t, Taken(job, ok))
        BY <2>1, <2>2, <2>3 DEF IntoStorageChanges, Taken
      <3>2. task'[t] = Taken(job, ok)
        BY <1>1, <3>1, Becomes
      <3> QED BY <3>2 DEF WorkerState
    <2>4. CASE Drop(t)
      <3>1. task'[t] = Idle
        BY <1>1, <2>4, Becomes DEF Drop
      <3> QED BY <3>1 DEF WorkerState
    <2> QED
      BY <2>1, <2>3, <2>4 DEF Idle, Step, CallExecuteBlock, CallMetadata, InitializeBlock,
         LoadState, LoadCode, LookupFails, Run, RunFails, InCall
  <1>4. ASSUME NEW job \in Blocks \ {Genesis}, NEW ok \in BOOLEAN, task[t] = Taken(job, ok)
        PROVE  WorkerState(task'[t])
    <2>1. task[t].stage = "changes"
      BY <1>4 DEF Taken
    <2>2. Drop(t)
      BY <2>1 DEF Idle, Step, CallExecuteBlock, CallMetadata, InitializeBlock,
         LoadState, LoadCode, LookupFails, Run, RunFails, InCall, IntoStorageChanges
    <2>3. task'[t] = Idle
      BY <1>1, <2>2, Becomes DEF Drop
    <2> QED BY <2>3 DEF WorkerState
  <1> QED BY <1>1, <1>2, <1>3, <1>4, WorkerCalling DEF WorkerState

-----------------------------------------------------------------------------
(* The steps of a notifier. *)

(* Any of its calls may fail, and leaves an empty overlay then. *)
LEMMA NotifierFails ==
    ASSUME DOMAIN task = Tasks, NEW t \in Tasks, NEW n \in 0..MaxHeight,
           NEW layers, Fail(t, layers),
           task[t].job = Genesis, task[t].at = ByNumber(n),
           Undone(layers, task[t].frames) = <<{}>>,
           Len(task[t].frames) = 2 \/ task[t].initialized \in {{}, {ByNumber(n)}}
    PROVE  NotifierState(task'[t])
  <1>1. PICK i \in {{}, {ByNumber(n)}} : Become(t, Returned(Genesis, FALSE, {}, i))
    BY DEF Fail, Returned
  <1>2. task'[t] = Returned(Genesis, FALSE, {}, i)
    BY <1>1, Becomes
  <1>3. {} \in SUBSET Change /\ FALSE \in BOOLEAN
    OBVIOUS
  <1> QED BY <1>2, <1>3 DEF NotifierState

(* The object is to be initialized. *)
LEMMA NotifierStarts ==
    ASSUME ApiInv, Built, NEW t \in Notifiers, NEW n \in 0..MaxHeight,
           task[t] = Uninitialized(n), Step(t)
    PROVE  NotifierState(task'[t])
  <1> DEFINE e == Frame("metadata", "init", Genesis, 0)
             g == Frame("initialize_block", "state", Genesis, 0)
  <1>1. task[t] = Calling(Genesis, ByNumber(n), <<e>>, {}, <<{}, {}>>)
    BY DEF Uninitialized
  <1>2. e.stage = "init"
    BY DEF Frame
  <1> HIDE DEF e, g
  <1>3. /\ Len(task[t].frames) = 1 /\ Innermost(t) = e
        /\ task[t].stage = "call" /\ task[t].job = Genesis /\ task[t].at = ByNumber(n)
        /\ task[t].frames = <<e>> /\ task[t].initialized = {}
        /\ task[t].layers = <<{}, {}>>
    BY <1>1, InnerCall
  <1>4. t \in Tasks /\ DOMAIN task = Tasks /\ t \notin Workers
    BY RuntimeAssumption DEF Tasks, ApiInv, TasksInv
  <1>5. CASE InitializeBlock(t)
    <2>1. Proceed(t, Append(<<e>>, g), {}, StartTransaction(<<{}, {}>>))
      BY <1>3, <1>5 DEF InitializeBlock, g
    <2>2. Become(t, Calling(Genesis, ByNumber(n), <<e, g>>, {}, <<{}, {}, {}>>))
      BY <1>3, <2>1, AppendTuple, Opened, Zenon DEF Proceed
    <2>3. task'[t] = Calling(Genesis, ByNumber(n), <<e, g>>, {}, <<{}, {}, {}>>)
      BY <1>4, <2>2, Becomes
    <2>4. task'[t] = Initializing(n, "state", Genesis, 0)
      BY <2>3 DEF Initializing, e, g
    <2>5. Calls("state", Genesis, 0)
      BY BlocksAreSeqs DEF Calls
    <2> QED BY <2>4, <2>5 DEF NotifierState
  <1>6. CASE LookupFails(t)
    <2>1. Undone(<<{}, {}>>, task[t].frames) = <<{}>>
      BY <1>3, RolledBack DEF Undone
    <2>2. Fail(t, <<{}, {}>>)
      BY <1>3, <1>6 DEF LookupFails
    <2> QED BY <1>3, <1>4, <2>1, <2>2, NotifierFails
  <1> QED
    BY <1>2, <1>3, <1>4, <1>5, <1>6
       DEF Idle, Step, CallExecuteBlock, CallMetadata, LoadState, LoadCode, Run, RunFails,
           InCall, IntoStorageChanges, Drop

(* initialize_block is under way. *)
LEMMA NotifierInitializes ==
    ASSUME ApiInv, Built, NEW t \in Notifiers, NEW n \in 0..MaxHeight,
           NEW stage, NEW state, NEW version, Calls(stage, state, version),
           task[t] = Initializing(n, stage, state, version), Step(t)
    PROVE  NotifierState(task'[t])
  <1> DEFINE e == Frame("metadata", "init", Genesis, 0)
             f == Frame("initialize_block", stage, state, version)
             at == ByNumber(n)
  <1>1. task[t] = Calling(Genesis, at, <<e, f>>, {}, <<{}, {}, {}>>)
    BY DEF Initializing
  <1>2. /\ e.name = "metadata" /\ f.name = "initialize_block" /\ f.stage = stage
        /\ f.state = state /\ f.version = version
    BY DEF Frame
  <1> HIDE DEF e, f, at
  <1>3. /\ Len(task[t].frames) = 2 /\ Innermost(t) = f
        /\ task[t].stage = "call" /\ task[t].job = Genesis /\ task[t].at = at
        /\ task[t].frames = <<e, f>> /\ task[t].initialized = {}
        /\ task[t].layers = <<{}, {}, {}>>
    BY <1>1, NestedCall
  <1>4. t \in Tasks /\ DOMAIN task = Tasks /\ t \notin Workers
    BY RuntimeAssumption DEF Tasks, ApiInv, TasksInv
  <1>5. Resolve(at) \subseteq Blocks
    BY ResolveNumber DEF at, ApiInv
  <1>6. \A w : Undone(<<{}, {}, w>>, task[t].frames) = <<{}>>
    BY <1>3, RolledBack DEF Undone
  <1>7. ASSUME NEW w, Fail(t, <<{}, {}, w>>) PROVE NotifierState(task'[t])
    BY <1>3, <1>4, <1>6, <1>7, NotifierFails DEF at
  <1>8. CASE LoadState(t)
    <2>1. PICK s \in Resolve(at) : MoveCall(t, "code", s, version)
      BY <1>2, <1>3, <1>8 DEF LoadState
    <2>2. task'[t] = Calling(Genesis, at, <<e, Frame("initialize_block", "code", s, version)>>,
                             {}, <<{}, {}, {}>>)
      BY <1>1, <1>2, <1>4, <2>1, MoveNested
    <2>3. task'[t] = Initializing(n, "code", s, version) /\ Calls("code", s, version)
      BY <1>5, <2>2 DEF Initializing, e, at, Calls
    <2> QED BY <2>3 DEF NotifierState
  <1>9. CASE LoadCode(t)
    <2>1. PICK block \in (IF WithOverrides THEN Resolve(at) ELSE {state}) :
             MoveCall(t, "run", state, CheckOverride(state, block))
      BY <1>2, <1>3, <1>9 DEF LoadCode
    <2> DEFINE v == CheckOverride(state, block)
    <2>2. v \in Nat
      <3>1. block \in Blocks /\ state \in Blocks
        BY <1>5 DEF Calls
      <3> QED BY <3>1, VersionIsNat, CodeOfBlock DEF ApiInv, IInv
    <2> HIDE DEF v
    <2>3. task'[t] = Calling(Genesis, at, <<e, Frame("initialize_block", "run", state, v)>>,
                             {}, <<{}, {}, {}>>)
      BY <1>1, <1>2, <1>4, <2>1, MoveNested DEF v
    <2>4. task'[t] = Initializing(n, "run", state, v) /\ Calls("run", state, v)
      BY <2>2, <2>3 DEF Initializing, e, at, Calls
    <2> QED BY <2>4 DEF NotifierState
  <1>10. CASE LookupFails(t)
    BY <1>3, <1>7, <1>10 DEF LookupFails
  <1> DEFINE change == [name |-> "initialize_block", block |-> Genesis,
                        state |-> state, version |-> version]
  <1>11. Write(t) = <<{}, {}, {change}>>
    <2>1. Write(t) = <<{}, {}, {} \cup Written(t)>>
      BY <1>3, WriteNested
    <2>2. Written(t) = {change}
      BY <1>2, <1>3 DEF Written
    <2> QED BY <2>1, <2>2
  <1>12. change \in Change /\ change.name = "initialize_block"
    BY BlocksAreSeqs DEF Change, Calls
  <1> HIDE DEF change
  <1>13. CASE RunFails(t)
    BY <1>7, <1>11, <1>13 DEF RunFails
  <1>14. CASE Run(t)
    <2>1. CommitTransaction(Write(t)) = <<{}, {change}>>
      <3>1. CommitTransaction(Write(t)) = <<{}, {} \cup {change}>>
        BY <1>11, Committed
      <3> QED BY <3>1
    <2>2. Proceed(t, <<Frame("metadata", "state", Genesis, 0)>>, {at}, <<{}, {change}>>)
      <3>1. task[t].frames[1] = e
        BY <1>3
      <3> QED BY <1>2, <1>3, <1>14, <2>1, <3>1 DEF Run
    <2>3. Become(t, Initialized(n, "state", Genesis, 0, change))
      BY <1>3, <2>2, Zenon DEF Proceed, Initialized, at
    <2>4. task'[t] = Initialized(n, "state", Genesis, 0, change)
      BY <1>4, <2>3, Becomes
    <2>5. Calls("state", Genesis, 0)
      BY BlocksAreSeqs DEF Calls
    <2> QED BY <1>12, <2>4, <2>5 DEF NotifierState
  <1> QED
    BY <1>2, <1>3, <1>4, <1>8, <1>9, <1>10, <1>13, <1>14
       DEF Idle, Step, CallExecuteBlock, CallMetadata, InitializeBlock, InCall, Calls,
           IntoStorageChanges, Drop

(* metadata is under way on the initialized object. *)
LEMMA NotifierCalls ==
    ASSUME ApiInv, Built, NEW t \in Notifiers, NEW n \in 0..MaxHeight,
           NEW stage, NEW state, NEW version, Calls(stage, state, version),
           NEW change \in Change, change.name = "initialize_block",
           task[t] = Initialized(n, stage, state, version, change), Step(t)
    PROVE  NotifierState(task'[t])
  <1> DEFINE f == Frame("metadata", stage, state, version)
             at == ByNumber(n)
  <1>1. task[t] = Calling(Genesis, at, <<f>>, {at}, <<{}, {change}>>)
    BY DEF Initialized
  <1>2. /\ f.name = "metadata" /\ f.stage = stage
        /\ f.state = state /\ f.version = version
    BY DEF Frame
  <1> HIDE DEF f, at
  <1>3. /\ Len(task[t].frames) = 1 /\ Innermost(t) = f
        /\ task[t].stage = "call" /\ task[t].job = Genesis /\ task[t].at = at
        /\ task[t].frames = <<f>> /\ task[t].initialized = {at}
        /\ task[t].layers = <<{}, {change}>>
    BY <1>1 DEF Calling, Innermost
  <1>4. t \in Tasks /\ DOMAIN task = Tasks /\ t \notin Workers
    BY RuntimeAssumption DEF Tasks, ApiInv, TasksInv
  <1>5. Resolve(at) \subseteq Blocks
    BY ResolveNumber DEF at, ApiInv
  <1>6. \A w : Undone(<<{}, w>>, task[t].frames) = <<{}>>
    BY <1>3, RolledBack DEF Undone
  <1>7. ASSUME NEW w, Fail(t, <<{}, w>>) PROVE NotifierState(task'[t])
    <2>1. /\ task[t].at = ByNumber(n) /\ Undone(<<{}, w>>, task[t].frames) = <<{}>>
          /\ task[t].initialized \in {{}, {ByNumber(n)}}
      BY <1>3, <1>6 DEF at
    <2> QED BY <1>3, <1>4, <1>7, <2>1, NotifierFails
  <1>8. CASE LoadState(t)
    <2>1. PICK s \in Resolve(at) : MoveCall(t, "code", s, version)
      BY <1>2, <1>3, <1>8 DEF LoadState
    <2>2. task'[t] = Calling(Genesis, at, <<Frame("metadata", "code", s, version)>>,
                             {at}, <<{}, {change}>>)
      BY <1>1, <1>2, <1>4, <2>1, MoveInner
    <2>3. /\ task'[t] = Initialized(n, "code", s, version, change)
          /\ Calls("code", s, version)
      BY <1>5, <2>2 DEF Initialized, at, Calls
    <2> QED BY <2>3 DEF NotifierState
  <1>9. CASE LoadCode(t)
    <2>1. PICK block \in (IF WithOverrides THEN Resolve(at) ELSE {state}) :
             MoveCall(t, "run", state, CheckOverride(state, block))
      BY <1>2, <1>3, <1>9 DEF LoadCode
    <2> DEFINE v == CheckOverride(state, block)
    <2>2. v \in Nat
      <3>1. block \in Blocks /\ state \in Blocks
        BY <1>5 DEF Calls
      <3> QED BY <3>1, VersionIsNat, CodeOfBlock DEF ApiInv, IInv
    <2> HIDE DEF v
    <2>3. task'[t] = Calling(Genesis, at, <<Frame("metadata", "run", state, v)>>,
                             {at}, <<{}, {change}>>)
      BY <1>1, <1>2, <1>4, <2>1, MoveInner DEF v
    <2>4. task'[t] = Initialized(n, "run", state, v, change) /\ Calls("run", state, v)
      BY <2>2, <2>3 DEF Initialized, at, Calls
    <2> QED BY <2>4 DEF NotifierState
  <1>10. CASE LookupFails(t)
    BY <1>3, <1>7, <1>10 DEF LookupFails
  <1>11. Write(t) = <<{}, {change}>>
    <2>1. Write(t) = <<{}, {change} \cup Written(t)>>
      BY <1>3, WriteInner
    <2>2. Written(t) = {}
      BY <1>2, <1>3 DEF Written
    <2> QED BY <2>1, <2>2
  <1>12. CASE RunFails(t)
    BY <1>7, <1>11, <1>12 DEF RunFails
  <1>13. CASE Run(t)
    <2>1. CommitTransaction(Write(t)) = <<{change}>>
      <3>1. CommitTransaction(Write(t)) = <<{} \cup {change}>>
        BY <1>11, Committed
      <3> QED BY <3>1
    <2>2. PICK ok \in BOOLEAN : Become(t, Returned(Genesis, ok, {change}, {at}))
      <3>1. PICK ok \in Decodes("metadata") :
               Become(t, [stage |-> "returned", job |-> task[t].job, ok |-> ok,
                          layers |-> CommitTransaction(Write(t)),
                          initialized |-> task[t].initialized])
        BY <1>2, <1>3, <1>13, RunOutermost
      <3>2. ok \in BOOLEAN
        BY <3>1 DEF Decodes
      <3> QED BY <1>3, <2>1, <3>1, <3>2 DEF Returned
    <2>3. task'[t] = Returned(Genesis, ok, {change}, {ByNumber(n)})
      BY <1>4, <2>2, Becomes DEF at
    <2>4. {change} \in SUBSET Change /\ ok \in BOOLEAN
      OBVIOUS
    <2> QED BY <2>3, <2>4 DEF NotifierState
  <1> QED
    BY <1>2, <1>3, <1>4, <1>8, <1>9, <1>10, <1>12, <1>13
       DEF Idle, Step, CallExecuteBlock, CallMetadata, InitializeBlock, InCall, Calls,
           IntoStorageChanges, Drop

(* Before and after its calls. *)
LEMMA NotifierStep ==
    ASSUME ApiInv, Built, NEW t \in Notifiers, Step(t)
    PROVE  NotifierState(task'[t])
  <1>1. NotifierState(task[t]) /\ t \in Tasks /\ t \notin Workers /\ DOMAIN task = Tasks
    BY RuntimeAssumption DEF ApiInv, TasksInv, Tasks
  <1>2. CASE task[t] = Idle
    <2>1. CallMetadata(t)
      BY <1>1, <1>2 DEF Idle, Step, CallExecuteBlock, InitializeBlock, LoadState, LoadCode,
                        LookupFails, Run, RunFails, InCall, IntoStorageChanges, Drop
    <2>2. PICK n \in 0..MaxHeight :
             Become(t, Construct(Genesis, ByNumber(n), "metadata", "init"))
      BY <2>1 DEF CallMetadata
    <2>3. Construct(Genesis, ByNumber(n), "metadata", "init") = Uninitialized(n)
      BY Opened, Zenon DEF Construct, Uninitialized
    <2>4. task'[t] = Uninitialized(n)
      BY <1>1, <2>2, <2>3, Becomes
    <2> QED BY <2>4 DEF NotifierState
  <1>3. ASSUME NEW ok, NEW layer, NEW i, task[t] = Returned(Genesis, ok, layer, i)
        PROVE  NotifierState(task'[t])
    <2>1. task[t].stage = "returned"
      BY <1>3 DEF Returned
    <2>2. Drop(t)
      BY <1>1, <2>1 DEF Idle, Step, CallExecuteBlock, CallMetadata, InitializeBlock,
         LoadState, LoadCode, LookupFails, Run, RunFails, InCall, IntoStorageChanges
    <2>3. task'[t] = Idle
      BY <1>1, <2>2, Becomes DEF Drop
    <2> QED BY <2>3 DEF NotifierState
  <1> QED
    BY <1>1, <1>2, <1>3, NotifierStarts, NotifierInitializes, NotifierCalls DEF NotifierState

-----------------------------------------------------------------------------
(* The system. *)

(* The step of a task leaves the other tasks, the chain and the map alone. *)
LEMMA StepIsOne ==
    ASSUME NEW t, Step(t)
    PROVE  UNCHANGED <<chainVars, scrapeVars>> /\ \E state : Become(t, state)
  <1>1. ASSUME NEW state, Become(t, state)
        PROVE  UNCHANGED <<chainVars, scrapeVars>> /\ \E s : Become(t, s)
    <2>1. UNCHANGED <<chainVars, scrapeVars>>
      BY <1>1 DEF Become
    <2> QED BY <1>1, <2>1
  <1>2. PICK state : Become(t, state)
    BY Zenon DEF Step, CallExecuteBlock, CallMetadata, InitializeBlock, LoadState, LoadCode,
       LookupFails, Run, RunFails, Fail, IntoStorageChanges, Drop, Proceed, MoveCall
  <1> QED BY <1>1, <1>2

LEMMA ApiStep ==
    ASSUME ApiInv, Built, NEW t \in Tasks, Step(t)
    PROVE  ApiInv'
  <1>1. PICK state : Become(t, state)
    BY StepIsOne
  <1>2. UNCHANGED <<chainVars, scrapeVars>>
    BY StepIsOne
  <1>3. ChainOK'
    BY <1>2 DEF ApiInv, ChainOK, chainVars
  <1>4. IInv'
    BY <1>2, NextScrape DEF ApiInv
  <1>5. /\ DOMAIN task' = Tasks /\ task' = [u \in Tasks |-> task'[u]]
        /\ \A u \in Tasks \ {t} : task'[u] = task[u]
    BY <1>1, Becomes DEF ApiInv, TasksInv
  <1>6. ASSUME NEW u \in Workers PROVE WorkerState(task'[u])
    <2>1. CASE u = t
      BY <2>1, WorkerStep
    <2>2. CASE u # t
      BY <1>5, <2>2 DEF ApiInv, TasksInv, Tasks
    <2> QED BY <2>1, <2>2
  <1>7. ASSUME NEW u \in Notifiers PROVE NotifierState(task'[u])
    <2>1. CASE u = t
      BY <2>1, NotifierStep
    <2>2. CASE u # t
      BY <1>5, <2>2 DEF ApiInv, TasksInv, Tasks
    <2> QED BY <2>1, <2>2
  <1>8. TasksInv'
    BY <1>5, <1>6, <1>7, Zenon DEF TasksInv, WorkerState, NotifierState
  <1> QED BY <1>3, <1>4, <1>8 DEF ApiInv

LEMMA ApiInit == Init => ApiInv
  <1> SUFFICES ASSUME Init PROVE ApiInv
    OBVIOUS
  <1>1. IInv
    BY InitScrape DEF Init
  <1>2. ChainOK
    BY BlocksAreSeqs DEF Init, ChainOK
  <1>3. TasksInv
    <2>1. task = [t \in Tasks |-> Idle]
      BY DEF Init
    <2>2. DOMAIN task = Tasks /\ task = [t \in Tasks |-> task[t]]
          /\ \A t \in Tasks : task[t] = Idle
      BY <2>1
    <2> QED BY <2>2, Zenon DEF TasksInv, Tasks, WorkerState, NotifierState
  <1> QED BY <1>1, <1>2, <1>3 DEF ApiInv

LEMMA ApiNext == ApiInv /\ [Next]_vars => ApiInv'
  <1> SUFFICES ASSUME ApiInv, [Next]_vars PROVE ApiInv'
    OBVIOUS
  <1>0. ASSUME UNCHANGED task PROVE TasksInv'
    <2>1. DOMAIN task' = Tasks /\ task' = [t \in Tasks |-> task'[t]]
      BY <1>0 DEF ApiInv, TasksInv
    <2>2. /\ \A t \in Workers : WorkerState(task'[t])
          /\ \A t \in Notifiers : NotifierState(task'[t])
      BY <1>0 DEF ApiInv, TasksInv
    <2> QED BY <2>1, <2>2, Zenon DEF TasksInv, WorkerState, NotifierState
  <1>1. CASE WithOverrides /\ Scrape /\ UNCHANGED <<chainVars, task>>
    <2>1. IInv'
      BY <1>1, NextScrape DEF ApiInv
    <2>2. ChainOK' /\ TasksInv'
      BY <1>0, <1>1 DEF ApiInv, ChainOK, chainVars
    <2> QED BY <2>1, <2>2 DEF ApiInv
  <1>2. CASE Built /\ \E t \in Tasks : Step(t)
    BY <1>2, ApiStep
  <1>3. CASE ImportBlock
    <2>1. ChainOK' /\ UNCHANGED <<task, scrapeVars>>
      BY <1>3, ImportChain DEF ApiInv, ImportBlock
    <2>2. IInv' /\ TasksInv'
      BY <1>0, <2>1, NextScrape DEF ApiInv
    <2> QED BY <2>1, <2>2 DEF ApiInv
  <1>4. CASE SetHead
    <2>1. ChainOK' /\ UNCHANGED <<task, scrapeVars>>
      BY <1>4 DEF SetHead, ApiInv, ChainOK
    <2>2. IInv' /\ TasksInv'
      BY <1>0, <2>1, NextScrape DEF ApiInv
    <2> QED BY <2>1, <2>2 DEF ApiInv
  <1>5. CASE UNCHANGED vars
    <2>1. UNCHANGED scrapeVars /\ UNCHANGED <<chainVars, task>>
      BY <1>5 DEF vars
    <2>2. IInv' /\ TasksInv' /\ ChainOK'
      BY <1>0, <2>1, NextScrape DEF ApiInv, ChainOK, chainVars
    <2> QED BY <2>2 DEF ApiInv
  <1> QED BY <1>1, <1>2, <1>3, <1>4, <1>5 DEF Next

LEMMA ApiCorrect == Spec => []ApiInv
  BY ApiInit, ApiNext, PTL DEF Spec

-----------------------------------------------------------------------------
(* What the invariant says of one task. *)

(* The tuples of the objects. *)
LEMMA WorkerShape ==
    ASSUME NEW x, WorkerState(x)
    PROVE  /\ x \in TaskState
           /\ x.stage = "call" => Len(x.layers) = Len(x.frames) + 1
           /\ x.stage = "returned" => Len(x.layers) = 1
           /\ x.stage = "changes" => x.changes = Outcome(x.job, x.ok)
  <1>1. CASE x = Idle
    BY <1>1 DEF Idle, TaskState
  <1>2. ASSUME NEW job \in Blocks \ {Genesis}, NEW stage, NEW state, NEW version,
               Calls(stage, state, version), x = WorkerCall(job, stage, state, version)
        PROVE  x \in TaskState /\ x.stage = "call" /\ Len(x.layers) = Len(x.frames) + 1
    <2> DEFINE f == Frame("execute_block", stage, state, version)
               at == ByHash(Parent(job))
    <2>1. f \in Frames
      BY <1>2 DEF Frame, Frames, Calls
    <2>2. at \in Ids
      BY ParentIsBlock DEF Ids
    <2> HIDE DEF f, at
    <2>3. <<f>> \in Seq(Frames) /\ <<{}, {}>> \in Seq(SUBSET Change)
          /\ Len(<<f>>) = 1 /\ Len(<<{}, {}>>) = 2
      BY <2>1
    <2>4. x = [stage |-> "call", job |-> job, at |-> at, frames |-> <<f>>,
               initialized |-> {}, layers |-> <<{}, {}>>]
      BY <1>2 DEF WorkerCall, Calling, f, at
    <2> QED BY <2>2, <2>3, <2>4 DEF TaskState
  <1>3. ASSUME NEW job \in Blocks, job # Genesis
        PROVE  BlockChanges(job) \in SUBSET Change
    BY <1>3, ParentIsBlock, VersionIsNat DEF BlockChanges, Change
  <1>4. ASSUME NEW job \in Blocks \ {Genesis}, NEW ok \in BOOLEAN,
               x = Returned(job, ok, Outcome(job, ok), {})
        PROVE  x \in TaskState /\ x.stage = "returned" /\ Len(x.layers) = 1
    <2> DEFINE layer == Outcome(job, ok)
    <2>1. layer \in SUBSET Change
      BY <1>3 DEF Outcome
    <2> HIDE DEF layer
    <2>2. <<layer>> \in Seq(SUBSET Change) /\ Len(<<layer>>) = 1
      BY <2>1
    <2>3. x = [stage |-> "returned", job |-> job, ok |-> ok, layers |-> <<layer>>,
               initialized |-> {}]
      BY <1>4, Zenon DEF Returned, layer
    <2> QED BY <2>2, <2>3 DEF TaskState
  <1>5. ASSUME NEW job \in Blocks \ {Genesis}, NEW ok \in BOOLEAN, x = Taken(job, ok)
        PROVE  x \in TaskState /\ x.stage = "changes" /\ x.changes = Outcome(x.job, x.ok)
    <2> DEFINE layer == Outcome(job, ok)
    <2>1. layer \in SUBSET Change
      BY <1>3 DEF Outcome
    <2>2. x = [stage |-> "changes", job |-> job, ok |-> ok, changes |-> layer]
      BY <1>5, Zenon DEF Taken
    <2> HIDE DEF layer
    <2>3. x \in TaskState /\ x.stage = "changes" /\ x.changes = layer
          /\ x.job = job /\ x.ok = ok
      BY <2>1, <2>2 DEF TaskState
    <2> QED BY <2>3 DEF layer
  <1> QED BY <1>1, <1>2, <1>4, <1>5 DEF WorkerState, Idle

NotifierGood(x) ==
    /\ x \in TaskState
    /\ x.stage = "call" => Len(x.layers) = Len(x.frames) + 1
    /\ x.stage = "returned" => Len(x.layers) = 1
    /\ x.stage # "changes"
    /\ x.stage = "call" /\ Len(x.frames) = 1 /\ x.frames[1].stage # "init" =>
          /\ x.initialized = {x.at}
          /\ \E c \in x.layers[2] : c.name = "initialize_block"

LEMMA NotifierShape ==
    ASSUME NEW x, NotifierState(x)
    PROVE  NotifierGood(x)
  <1>1. CASE x = Idle
    BY <1>1 DEF Idle, TaskState, NotifierGood
  <1>2. ASSUME NEW n \in 0..MaxHeight, NEW f \in Frames, f.stage = "init",
               x = Calling(Genesis, ByNumber(n), <<f>>, {}, <<{}, {}>>)
        PROVE  /\ x \in TaskState /\ x.stage = "call" /\ Len(x.frames) = 1
               /\ x.frames[1].stage = "init" /\ Len(x.layers) = 2
    <2>1. <<f>> \in Seq(Frames) /\ <<{}, {}>> \in Seq(SUBSET Change)
      OBVIOUS
    <2>2. ByNumber(n) \in Ids /\ Genesis \in Blocks
      BY BlocksAreSeqs DEF Ids
    <2>3. x.stage = "call" /\ x.frames = <<f>> /\ x.layers = <<{}, {}>>
      BY <1>2 DEF Calling
    <2>4. x \in TaskState
      BY <1>2, <2>1, <2>2 DEF Calling, TaskState
    <2> QED BY <1>2, <2>3, <2>4
  <1>3. ASSUME NEW n \in 0..MaxHeight, NEW e \in Frames, NEW f \in Frames,
               x = Calling(Genesis, ByNumber(n), <<e, f>>, {}, <<{}, {}, {}>>)
        PROVE  /\ x \in TaskState /\ x.stage = "call" /\ Len(x.frames) = 2
               /\ Len(x.layers) = 3
    <2>1. <<e, f>> \in Seq(Frames) /\ <<{}, {}, {}>> \in Seq(SUBSET Change)
      OBVIOUS
    <2>2. ByNumber(n) \in Ids /\ Genesis \in Blocks
      BY BlocksAreSeqs DEF Ids
    <2>3. x.stage = "call" /\ x.frames = <<e, f>> /\ x.layers = <<{}, {}, {}>>
      BY <1>3 DEF Calling
    <2>4. x \in TaskState
      BY <1>3, <2>1, <2>2 DEF Calling, TaskState
    <2> QED BY <2>3, <2>4
  <1>4. ASSUME NEW n \in 0..MaxHeight, NEW f \in Frames,
               NEW change \in Change, change.name = "initialize_block",
               x = Calling(Genesis, ByNumber(n), <<f>>, {ByNumber(n)}, <<{}, {change}>>)
        PROVE  /\ x \in TaskState /\ x.stage = "call" /\ Len(x.frames) = 1
               /\ Len(x.layers) = 2 /\ x.initialized = {x.at} /\ x.layers[2] = {change}
    <2>1. <<f>> \in Seq(Frames) /\ <<{}, {change}>> \in Seq(SUBSET Change)
      OBVIOUS
    <2>2. ByNumber(n) \in Ids /\ Genesis \in Blocks
      BY BlocksAreSeqs DEF Ids
    <2>3. /\ x.stage = "call" /\ x.frames = <<f>> /\ x.layers = <<{}, {change}>>
          /\ x.at = ByNumber(n) /\ x.initialized = {ByNumber(n)}
      BY <1>4 DEF Calling
    <2>4. x \in TaskState
      BY <1>4, <2>1, <2>2 DEF Calling, TaskState
    <2> QED BY <2>3, <2>4
  <1>5. ASSUME NEW ok \in BOOLEAN, NEW layer \in SUBSET Change, NEW i \in SUBSET Ids,
               x = Returned(Genesis, ok, layer, i)
        PROVE  x \in TaskState /\ x.stage = "returned" /\ Len(x.layers) = 1
    <2>1. <<layer>> \in Seq(SUBSET Change) /\ Len(<<layer>>) = 1 /\ Genesis \in Blocks
      BY BlocksAreSeqs
    <2>2. x = [stage |-> "returned", job |-> Genesis, ok |-> ok, layers |-> <<layer>>,
               initialized |-> i]
      BY <1>5, Zenon DEF Returned
    <2> QED BY <2>1, <2>2 DEF TaskState
  <1>6. ASSUME NEW name \in {"execute_block", "initialize_block", "metadata"},
               NEW stage \in {"init", "state", "code", "run"},
               NEW state \in Blocks, NEW version \in Nat
        PROVE  Frame(name, stage, state, version) \in Frames
    BY DEF Frame, Frames
  <1>7. Frame("metadata", "init", Genesis, 0) \in Frames
        /\ Frame("metadata", "init", Genesis, 0).stage = "init"
    BY <1>6, BlocksAreSeqs DEF Frame
  <1>8. ASSUME NEW n \in 0..MaxHeight PROVE {ByNumber(n)} \in SUBSET Ids
    BY DEF Ids
  <1>9. ASSUME NEW n \in 0..MaxHeight, x = Uninitialized(n) PROVE NotifierGood(x)
    <2>1. /\ x \in TaskState /\ x.stage = "call" /\ Len(x.frames) = 1
          /\ x.frames[1].stage = "init" /\ Len(x.layers) = 2
      BY <1>2, <1>7, <1>9 DEF Uninitialized
    <2> QED BY <2>1 DEF NotifierGood
  <1>10. ASSUME NEW n \in 0..MaxHeight, NEW stage, NEW state, NEW version,
                Calls(stage, state, version), x = Initializing(n, stage, state, version)
         PROVE  NotifierGood(x)
    <2>1. /\ x \in TaskState /\ x.stage = "call" /\ Len(x.frames) = 2
          /\ Len(x.layers) = 3
      BY <1>3, <1>6, <1>7, <1>10 DEF Initializing, Calls
    <2> QED BY <2>1 DEF NotifierGood
  <1>11. ASSUME NEW n \in 0..MaxHeight, NEW stage, NEW state, NEW version, NEW change,
                Calls(stage, state, version),
                change \in Change, change.name = "initialize_block",
                x = Initialized(n, stage, state, version, change)
         PROVE  NotifierGood(x)
    <2>1. Frame("metadata", stage, state, version) \in Frames
      BY <1>6, <1>11 DEF Calls
    <2>2. /\ x \in TaskState /\ x.stage = "call" /\ Len(x.frames) = 1
          /\ Len(x.layers) = 2 /\ x.initialized = {x.at} /\ x.layers[2] = {change}
      BY <1>4, <1>11, <2>1 DEF Initialized
    <2> QED BY <1>11, <2>2 DEF NotifierGood
  <1>12. ASSUME NEW ok \in BOOLEAN, NEW layer \in SUBSET Change, NEW i \in SUBSET Ids,
                x = Returned(Genesis, ok, layer, i)
         PROVE  NotifierGood(x)
    <2>1. x \in TaskState /\ x.stage = "returned" /\ Len(x.layers) = 1
      BY <1>5, <1>12
    <2> QED BY <2>1 DEF NotifierGood
  <1>13. FALSE \in BOOLEAN /\ {} \in SUBSET Change /\ {} \in SUBSET Ids
    OBVIOUS
  <1> QED BY <1>1, <1>8, <1>9, <1>10, <1>11, <1>12, <1>13, Zenon DEF NotifierState

(* Every object of a task has the shape its calls give it: the tasks,        *)
(* objects and overlays of RuntimeApi are of the declared types.             *)
THEOREM ApiTypes == Spec => []TypeOK
  <1>1. ASSUME ApiInv PROVE TypeOK
    <2>1. task \in [Tasks -> TaskState]
      <3>1. \A t \in Tasks : task[t] \in TaskState
        BY <1>1, WorkerShape, NotifierShape DEF ApiInv, TasksInv, Tasks, NotifierGood
      <3>2. task = [t \in Tasks |-> task[t]]
        BY <1>1 DEF ApiInv, TasksInv
      <3> QED BY <3>1, <3>2
    <2> QED BY <1>1, <2>1 DEF TypeOK, ApiInv, ChainOK
  <1> QED BY <1>1, ApiCorrect, PTL

(* However calls are nested and fail, and whatever the chain does meanwhile, *)
(* the transactions of an object are those of its calls under way            *)
(* (MockRuntimeApi::_call_api_at commits or rolls back what it opened).      *)
THEOREM Balanced == Spec => []TransactionsBalanced
  <1>1. ASSUME ApiInv PROVE TransactionsBalanced
    BY <1>1, WorkerShape, NotifierShape DEF ApiInv, TasksInv, Tasks, TransactionsBalanced,
       NotifierGood
  <1> QED BY <1>1, ApiCorrect, PTL

(* What into_storage_changes hands out is the effect of one execution of the *)
(* block on the state of its parent with the parent's runtime, local or not, *)
(* or nothing if that failed.                                                *)
THEOREM ChangesOfTheBlock == Spec => []ChangesAreTheBlocks
  <1>1. ASSUME ApiInv PROVE ChangesAreTheBlocks
    BY <1>1, WorkerShape, NotifierShape
       DEF ApiInv, TasksInv, Tasks, ChangesAreTheBlocks, Outcome, NotifierGood
  <1> QED BY <1>1, ApiCorrect, PTL

(* The metadata call of Notifier::archive runs on an initialized object with *)
(* the changes of initialize_block in its overlay (InitializeBlock::Do).     *)
THEOREM InitializedFirst == Spec => []MetadataInitialized
  <1>1. ASSUME ApiInv PROVE MetadataInitialized
    BY <1>1, NotifierShape DEF ApiInv, TasksInv, MetadataInitialized, NotifierGood
  <1> QED BY <1>1, ApiCorrect, PTL

(* The tasks that execute blocks name the parent by hash, so check_override  *)
(* finds the version of the very state the call runs on: the race of         *)
(* OverrideMatches is one of calls by number alone.                          *)
THEOREM WorkersMatch == Spec => [](\A t \in Workers : CodeMatches(t))
  <1>1. ASSUME ApiInv, NEW t \in Workers, InCall(t, "run")
        PROVE  Innermost(t).version = SpecVersion(Innermost(t).state)
    <2>1. task[t].stage = "call" /\ Innermost(t).stage = "run" /\ WorkerState(task[t])
      BY <1>1 DEF InCall, ApiInv, TasksInv
    <2>2. PICK job, stage, state, version :
             /\ stage # "state" => state = Parent(job)
             /\ stage = "run" => version = SpecVersion(Parent(job))
             /\ task[t] = WorkerCall(job, stage, state, version)
      <3>1. Idle.stage # "call"
        BY DEF Idle
      <3>2. /\ \A job, ok, layer, set : Returned(job, ok, layer, set).stage # "call"
            /\ \A job, ok : Taken(job, ok).stage # "call"
        BY DEF Returned, Taken
      <3> QED BY <2>1, <3>1, <3>2, Zenon DEF WorkerState
    <2> DEFINE f == Frame("execute_block", stage, state, version)
    <2>3. task[t].frames = <<f>>
      BY <2>2 DEF WorkerCall, Calling
    <2>4. Innermost(t) = f
      BY <2>3 DEF Innermost
    <2>5. f.stage = stage /\ f.state = state /\ f.version = version
      BY DEF Frame
    <2> QED BY <2>1, <2>2, <2>4, <2>5
  <1>2. ApiInv => \A t \in Workers : CodeMatches(t)
    BY <1>1 DEF CodeMatches
  <1> QED BY <1>2, ApiCorrect, PTL

(* In the client that makes these calls the map of local runtimes is exact   *)
(* too, and stays so: the scan is over before the client exists, and none of *)
(* its calls touches the map (WasmOverride::new, LocalCallExecutor::new).    *)
THEOREM ClientOverridesExactly == Spec => [](OverridesExact /\ RefusedForCause)
  BY ApiCorrect, PTL DEF ApiInv, IInv
=============================================================================
