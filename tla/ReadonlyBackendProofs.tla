------------------------ MODULE ReadonlyBackendProofs ------------------------
(***************************************************************************)
(* What the executor may rely on of the read-only backend: proofs about    *)
(* ReadonlyBackend, for any tree of blocks, codes and bounds.              *)
(***************************************************************************)
EXTENDS ReadonlyBackend, TLAPS

-----------------------------------------------------------------------------
(* Look-ups in a snapshot, which is a whole tree of blocks of the primary:   *)
(* RocksDB is assumed to show one (CatchUp).                                 *)

WholeTree(v) ==
    /\ v.imported # {} => v.main \in v.imported
    /\ \A b \in v.imported : \A n \in 0..Len(b) : BlockAt(b, n) \in v.imported
ViewIsSnapshot == WholeTree(view) /\ view.imported \subseteq imported

LEMMA BlockAtPrefix ==
    ASSUME NEW p \in Seq(Labels), NEW q \in Seq(Labels), IsPrefix(p, q),
           NEW n \in Nat, n <= Len(p)
    PROVE  BlockAt(p, n) = BlockAt(q, n) /\ n <= Len(q)
  BY DEF IsPrefix, BlockAt

(* The block with a number is stored with the head of the chain. *)
LEMMA NumberedStored ==
    ASSUME NEW v, WholeTree(v), v.main \in Seq(Labels), NEW n \in Nat,
           NEW b \in Numbered(v, n)
    PROVE  b \in v.imported
  <1>1. v.imported # {} /\ n <= Len(v.main) /\ b = BlockAt(v.main, n)
    BY DEF Numbered
  <1> QED BY <1>1 DEF WholeTree

(* While the primary only extends its chain, a block found by number is      *)
(* found again after a catch-up.                                             *)
LEMMA NumberedStable ==
    ASSUME view.main \in Seq(Labels), main \in Seq(Labels),
           IsPrefix(view.main, main), view.imported \subseteq imported,
           NEW n \in Nat, Numbered(view, n) # {}
    PROVE  Numbered(Snapshot, n) = Numbered(view, n)
  <1>1. view.imported # {} /\ n <= Len(view.main)
    BY DEF Numbered
  <1>2. BlockAt(view.main, n) = BlockAt(main, n) /\ n <= Len(main)
    BY <1>1, BlockAtPrefix
  <1>3. Snapshot.imported = imported /\ Snapshot.main = main
    BY DEF Snapshot
  <1> QED BY <1>1, <1>2, <1>3 DEF Numbered

(* The outcomes of the look-ups, read off SecondaryRocksDb::get: the block   *)
(* that a look-up by number answers with, and the snapshot after it.         *)
Answered(b) ==
    \/ b \in Numbered(view, reader.num) /\ view' = view /\ left' = left
    \/ /\ Fails("faults") /\ view' = Snapshot
       /\ b \in Numbered(view, reader.num) \cup Numbered(Snapshot, reader.num)
Moved ==
    /\ view' \in {view, Snapshot}
    /\ left' = left \/ Fails("faults")
    /\ UNCHANGED <<imported, main, justified, newest, known>>
GaveUp ==
    /\ reader' \in {Down, [stage |-> "asked", num |-> 0]}
    /\ versions' \in {versions, Empty}

LEMMA HeaderOutcome ==
    ASSUME ReadHeader
    PROVE  /\ Moved
           /\ \/ GaveUp
              \/ /\ versions' = versions
                 /\ \E h : /\ Answered(h)
                           /\ reader' = [stage |-> "body", num |-> reader.num, header |-> h]
  BY DEF ReadHeader, Answers, LookUp, GetByNumber, Get, Found, CatchUp, CatchUpFails, NoStorages,
         Panic, Down, ReaderFrame, primaryVars, Moved, GaveUp, Answered, Fails

LEMMA BodyOutcome ==
    ASSUME ReadBody
    PROVE  /\ Moved
           /\ \/ GaveUp
              \/ /\ versions' = versions
                 /\ \E b : /\ Answered(b)
                           /\ reader' = [stage |-> "justifications", num |-> reader.num,
                                         header |-> reader.header, body |-> b]
  BY DEF ReadBody, Answers, LookUp, GetByNumber, Get, Found, CatchUp, CatchUpFails, NoStorages,
         Panic, Down, ReaderFrame, primaryVars, Moved, GaveUp, Answered, Fails

LEMMA JustificationsOutcome ==
    ASSUME ReadJustifications
    PROVE  Moved /\ reader' = At("state") /\ versions' = versions
  BY DEF ReadJustifications, GetByNumber, Get, Found, CatchUp, CatchUpFails,
         ReaderFrame, primaryVars, Moved, Fails

LEMMA StateOutcome ==
    ASSUME ReadState
    PROVE  Moved /\ (GaveUp \/ (reader' = At("version") /\ versions' = versions))
  BY DEF ReadState, Get, Found, CatchUp, CatchUpFails, NoStorages, Panic, Down,
         ReaderFrame, primaryVars, Moved, GaveUp, Fails

LEMMA VersionOutcome ==
    ASSUME ReadVersion
    PROVE  /\ Moved
           /\ \/ GaveUp
              \/ \E b : /\ Answered(b)
                        /\ reader' = [stage |-> "read", num |-> reader.num,
                                      header |-> reader.header, body |-> reader.body,
                                      spec |-> VersionOf(Code(b))]
                        /\ versions' = Cached(Code(b))
  BY DEF ReadVersion, Answers, LookUp, GetByNumber, Get, Found, CatchUp, CatchUpFails,
         Panic, Down, ReaderFrame, primaryVars, Moved, GaveUp, Answered, Fails

-----------------------------------------------------------------------------
(* The inductive invariant.  The primary and the snapshot are whole trees,   *)
(* and until a re-organisation the snapshot is behind on the same chain.     *)
(* What the executor holds was found in the snapshot and is still there.     *)

LeftInv ==
    /\ left = [faults |-> left.faults, reorgs |-> left.reorgs]
    /\ left.faults \in 0..MaxFaults /\ left.reorgs \in 0..MaxReorgs
PrimaryInv ==
    /\ imported \subseteq Blocks /\ main \in Blocks /\ WholeTree(Snapshot)
    /\ imported = {} => main = Genesis
ViewInv ==
    /\ ViewIsSnapshot /\ view.main \in Blocks
    /\ NoReorgYet => IsPrefix(view.main, main)
VersionsInv == \A c \in DOMAIN versions : versions[c] = SpecOf[c]

Holding == {"body", "justifications", "state", "version", "read"}
WithBody == {"justifications", "state", "version", "read"}
ReaderInv ==
    /\ reader.stage \in Holding \cup {"header", "asked"} => reader.num \in Nat
    /\ reader.stage \in Holding => reader.header \in view.imported
    /\ reader.stage = "body" /\ NoFaultYet =>
          Numbered(view, reader.num) = {reader.header}
    /\ reader.stage \in Holding \ {"read"} /\ NoReorgYet =>
          Numbered(view, reader.num) = {reader.header}
    /\ reader.stage \in WithBody /\ (NoFaultYet \/ NoReorgYet) =>
          reader.body = reader.header
    /\ reader.stage = "read" /\ NoReorgYet =>
          reader.spec = SpecOf[Code(reader.header)]

BackendInv == LeftInv /\ PrimaryInv /\ ViewInv /\ VersionsInv /\ ReaderInv
           /\ newest \subseteq Nat /\ known \in Nat

LEMMA MovedKeeps ==
    ASSUME BackendInv, Moved
    PROVE  /\ LeftInv' /\ PrimaryInv' /\ ViewInv'
           /\ newest' \subseteq Nat /\ known' \in Nat
           /\ view.imported \subseteq view'.imported
           /\ NoReorgYet' = NoReorgYet
           /\ NoFaultYet' => NoFaultYet /\ left' = left
  <1>1. /\ LeftInv' /\ NoReorgYet' = NoReorgYet
        /\ NoFaultYet' => NoFaultYet /\ left' = left
    BY ReadonlyAssumption
       DEF BackendInv, LeftInv, Moved, Fails, NoReorgYet, NoFaultYet
  <1>2. /\ imported' = imported /\ main' = main /\ justified' = justified
        /\ newest' = newest /\ known' = known
    BY DEF Moved
  <1>3. Snapshot' = Snapshot
    BY <1>2 DEF Snapshot
  <1>4. PrimaryInv'
    BY <1>2, <1>3 DEF BackendInv, PrimaryInv, WholeTree
  <1>5. Snapshot.imported = imported /\ Snapshot.main = main
    BY DEF Snapshot
  <1>6. IsPrefix(main, main)
    BY ReadonlyAssumption DEF BackendInv, PrimaryInv, IsPrefix
  <1>7. ViewInv' /\ view.imported \subseteq view'.imported
    <2>1. CASE view' = view
      BY <1>1, <1>2, <2>1 DEF BackendInv, ViewInv, ViewIsSnapshot, WholeTree
    <2>2. CASE view' = Snapshot
      BY <1>1, <1>2, <1>5, <1>6, <2>2
         DEF BackendInv, PrimaryInv, ViewInv, ViewIsSnapshot, WholeTree
    <2> QED BY <2>1, <2>2 DEF Moved
  <1> QED BY <1>1, <1>2, <1>4, <1>7 DEF BackendInv

(* A step after which the executor holds no block. *)
LEMMA LetsGo ==
    ASSUME BackendInv, Moved, versions' \in {versions, Empty},
           reader'.stage \notin Holding,
           reader'.stage \in {"header", "asked"} => reader'.num \in Nat
    PROVE  BackendInv'
  <1>1. VersionsInv'
    BY DEF BackendInv, VersionsInv, Empty
  <1>2. ReaderInv'
    BY DEF ReaderInv, Holding, WithBody
  <1> QED BY <1>1, <1>2, MovedKeeps DEF BackendInv

(* The executor goes on with the block it holds. *)
LEMMA GoesOn ==
    ASSUME BackendInv, Moved, NEW to \in {"state", "version"}, reader' = At(to),
           reader.stage \in {"justifications", "state"}, versions' = versions
    PROVE  BackendInv'
  <1>1. /\ reader'.stage = to /\ reader'.num = reader.num
        /\ reader'.header = reader.header /\ reader'.body = reader.body
    BY DEF At
  <1>2. /\ reader.num \in Nat /\ reader.header \in view.imported
        /\ NoReorgYet => Numbered(view, reader.num) = {reader.header}
        /\ NoFaultYet \/ NoReorgYet => reader.body = reader.header
    BY DEF BackendInv, ReaderInv, Holding, WithBody
  <1>3. NoReorgYet => Numbered(view', reader.num) = {reader.header}
    <2> SUFFICES ASSUME NoReorgYet PROVE Numbered(view', reader.num) = {reader.header}
      OBVIOUS
    <2>1. Numbered(Snapshot, reader.num) = Numbered(view, reader.num)
      BY <1>2, NumberedStable, ReadonlyAssumption
         DEF BackendInv, ViewInv, ViewIsSnapshot, PrimaryInv
    <2> QED BY <1>2, <2>1 DEF Moved
  <1>4. ReaderInv'
    BY <1>1, <1>2, <1>3, MovedKeeps DEF ReaderInv, Holding, WithBody
  <1>5. VersionsInv'
    BY DEF BackendInv, VersionsInv
  <1> QED BY <1>4, <1>5, MovedKeeps DEF BackendInv

(* What a look-up by number answers with, while the executor holds a block   *)
(* with that number or none.                                                 *)
LEMMA AnswerFits ==
    ASSUME BackendInv, Moved, reader.num \in Nat, NEW b, Answered(b)
    PROVE  /\ b \in view'.imported
           /\ NoFaultYet' => Numbered(view', reader.num) = {b} /\ view' = view
           /\ NoReorgYet => Numbered(view', reader.num) = {b}
           /\ NoReorgYet /\ Numbered(view, reader.num) # {} =>
                 b \in Numbered(view, reader.num)
  <1>1. /\ view.main \in Seq(Labels) /\ main \in Seq(Labels)
        /\ view.imported \subseteq imported
        /\ WholeTree(view) /\ WholeTree(Snapshot)
        /\ Snapshot.imported = imported /\ Snapshot.main = main
    BY ReadonlyAssumption
       DEF BackendInv, ViewInv, ViewIsSnapshot, PrimaryInv, Snapshot
  <1>2. NoReorgYet /\ Numbered(view, reader.num) # {} =>
           Numbered(Snapshot, reader.num) = Numbered(view, reader.num)
    BY <1>1, NumberedStable DEF BackendInv, ViewInv
  <1>3. \A v : \A c \in Numbered(v, reader.num) : Numbered(v, reader.num) = {c}
    BY DEF Numbered
  <1>4. \/ b \in Numbered(view, reader.num) /\ b \in view.imported
        \/ b \in Numbered(Snapshot, reader.num) /\ b \in Snapshot.imported
    BY <1>1, NumberedStored DEF Answered
  <1>5. CASE view' = view /\ left' = left /\ b \in Numbered(view, reader.num)
    BY <1>1, <1>3, <1>5, NumberedStored
  <1>6. CASE Fails("faults") /\ view' = Snapshot
    <2>1. ~NoFaultYet'
      BY <1>6, ReadonlyAssumption DEF BackendInv, LeftInv, Fails, NoFaultYet
    <2>2. b \in view'.imported
      BY <1>1, <1>4, <1>6
    <2>3. NoReorgYet => b \in Numbered(Snapshot, reader.num)
      BY <1>2, <1>4
    <2> QED BY <1>2, <1>3, <1>6, <2>1, <2>2, <2>3
  <1> QED BY <1>5, <1>6 DEF Answered

-----------------------------------------------------------------------------
(* One lemma per step of the executor. *)

LEMMA GaveUpKeeps ==
    ASSUME BackendInv, Moved, GaveUp
    PROVE  BackendInv'
  <1>1. reader'.stage \notin Holding /\ reader'.stage # "header"
    BY DEF GaveUp, Down, Holding
  <1>2. reader'.stage \in {"header", "asked"} => reader'.num \in Nat
    BY <1>1 DEF GaveUp, Down
  <1> QED BY <1>1, <1>2, LetsGo DEF GaveUp

LEMMA ReadHeaderKeeps ==
    ASSUME BackendInv, ReadHeader
    PROVE  BackendInv'
  <1>1. Moved
    BY HeaderOutcome
  <1>2. CASE GaveUp
    BY <1>1, <1>2, GaveUpKeeps
  <1>3. ASSUME NEW h, Answered(h), versions' = versions,
               reader' = [stage |-> "body", num |-> reader.num, header |-> h]
        PROVE  BackendInv'
    <2>1. reader.num \in Nat
      BY DEF ReadHeader, BackendInv, ReaderInv
    <2>2. reader'.stage = "body" /\ reader'.num = reader.num /\ reader'.header = h
      BY <1>3
    <2>3. /\ h \in view'.imported
          /\ NoFaultYet' => Numbered(view', reader.num) = {h}
          /\ NoReorgYet => Numbered(view', reader.num) = {h}
      BY <1>1, <1>3, <2>1, AnswerFits
    <2>4. ReaderInv'
      BY <1>1, <2>1, <2>2, <2>3, MovedKeeps DEF ReaderInv, Holding, WithBody
    <2>5. VersionsInv'
      BY <1>3 DEF BackendInv, VersionsInv
    <2> QED BY <1>1, <2>4, <2>5, MovedKeeps DEF BackendInv
  <1> QED BY <1>2, <1>3, HeaderOutcome

LEMMA ReadBodyKeeps ==
    ASSUME BackendInv, ReadBody
    PROVE  BackendInv'
  <1>1. Moved
    BY BodyOutcome
  <1>2. CASE GaveUp
    BY <1>1, <1>2, GaveUpKeeps
  <1>3. ASSUME NEW b, Answered(b), versions' = versions,
               reader' = [stage |-> "justifications", num |-> reader.num,
                          header |-> reader.header, body |-> b]
        PROVE  BackendInv'
    <2>1. /\ reader.num \in Nat /\ reader.header \in view.imported
          /\ NoFaultYet \/ NoReorgYet => Numbered(view, reader.num) = {reader.header}
      BY DEF ReadBody, BackendInv, ReaderInv, Holding
    <2>2. /\ reader'.stage = "justifications" /\ reader'.num = reader.num
          /\ reader'.header = reader.header /\ reader'.body = b
      BY <1>3
    <2>3. /\ NoFaultYet' => Numbered(view', reader.num) = {b} /\ view' = view
          /\ NoReorgYet => Numbered(view', reader.num) = {b}
          /\ NoReorgYet /\ Numbered(view, reader.num) # {} =>
                b \in Numbered(view, reader.num)
      BY <1>1, <1>3, <2>1, AnswerFits
    <2>4. NoFaultYet' \/ NoReorgYet => b = reader.header
      BY <1>1, <2>1, <2>3, MovedKeeps
    <2>5. ReaderInv'
      BY <1>1, <2>1, <2>2, <2>3, <2>4, MovedKeeps DEF ReaderInv, Holding, WithBody
    <2>6. VersionsInv'
      BY <1>3 DEF BackendInv, VersionsInv
    <2> QED BY <1>1, <2>5, <2>6, MovedKeeps DEF BackendInv
  <1> QED BY <1>2, <1>3, BodyOutcome

LEMMA ReadJustificationsKeeps ==
    ASSUME BackendInv, ReadJustifications
    PROVE  BackendInv'
  <1>1. reader.stage = "justifications"
    BY DEF ReadJustifications
  <1> QED BY <1>1, JustificationsOutcome, GoesOn

LEMMA ReadStateKeeps ==
    ASSUME BackendInv, ReadState
    PROVE  BackendInv'
  <1>1. reader.stage = "state"
    BY DEF ReadState
  <1> QED BY <1>1, StateOutcome, GaveUpKeeps, GoesOn

(* The version in the cache for a code is the one runtime_version computes. *)
LEMMA VersionIsOfCode ==
    ASSUME VersionsInv, NEW c
    PROVE  /\ VersionOf(c) = SpecOf[c]
           /\ \A d \in DOMAIN Cached(c) : Cached(c)[d] = SpecOf[d]
  BY DEF VersionsInv, VersionOf, Cached

LEMMA ReadVersionKeeps ==
    ASSUME BackendInv, ReadVersion
    PROVE  BackendInv'
  <1>1. Moved
    BY VersionOutcome
  <1>2. CASE GaveUp
    BY <1>1, <1>2, GaveUpKeeps
  <1>3. ASSUME NEW b, Answered(b), versions' = Cached(Code(b)),
               reader' = [stage |-> "read", num |-> reader.num,
                          header |-> reader.header, body |-> reader.body,
                          spec |-> VersionOf(Code(b))]
        PROVE  BackendInv'
    <2>1. /\ reader.num \in Nat /\ reader.header \in view.imported
          /\ NoReorgYet => Numbered(view, reader.num) = {reader.header}
          /\ NoFaultYet \/ NoReorgYet => reader.body = reader.header
      BY DEF ReadVersion, BackendInv, ReaderInv, Holding, WithBody
    <2>2. /\ reader'.stage = "read" /\ reader'.num = reader.num
          /\ reader'.header = reader.header /\ reader'.body = reader.body
          /\ reader'.spec = VersionOf(Code(b))
      BY <1>3
    <2>3. NoReorgYet => b = reader.header
      BY <1>1, <1>3, <2>1, AnswerFits
    <2>4. VersionOf(Code(b)) = SpecOf[Code(b)] /\ VersionsInv'
      BY <1>3, VersionIsOfCode DEF BackendInv, VersionsInv
    <2>5. ReaderInv'
      BY <1>1, <2>1, <2>2, <2>3, <2>4, MovedKeeps DEF ReaderInv, Holding, WithBody
    <2> QED BY <1>1, <2>4, <2>5, MovedKeeps DEF BackendInv
  <1> QED BY <1>2, <1>3, VersionOutcome

LEMMA SendBlockKeeps ==
    ASSUME BackendInv, SendBlock
    PROVE  BackendInv'
  <1>1. /\ reader'.stage = "asked" /\ reader'.num = reader.num
        /\ reader.num \in Nat /\ newest' \subseteq Nat
    BY DEF SendBlock, BackendInv, ReaderInv, Holding
  <1>2. ReaderInv'
    BY <1>1 DEF ReaderInv, Holding, WithBody
  <1>3. LeftInv' /\ PrimaryInv' /\ ViewInv' /\ VersionsInv' /\ known' \in Nat
    BY DEF SendBlock, BackendInv, primaryVars, LeftInv, PrimaryInv, ViewInv,
           VersionsInv, ViewIsSnapshot, WholeTree, Snapshot, NoReorgYet
  <1> QED BY <1>1, <1>2, <1>3 DEF BackendInv

LEMMA CompareKeeps ==
    ASSUME BackendInv, Compare
    PROVE  BackendInv'
  <1>1. Moved /\ versions' = versions
    BY DEF Compare, Moved, primaryVars
  <1>2. reader'.stage = "header" /\ reader'.num \in Nat
    BY DEF Compare, NextNumber, BackendInv, ReaderInv
  <1> QED BY <1>1, <1>2, LetsGo DEF Holding

LEMMA OpenKeeps ==
    ASSUME BackendInv, Open
    PROVE  BackendInv'
  <1>1. Moved /\ versions' = versions
    BY DEF Open, CatchUp, Moved, primaryVars
  <1>2. reader'.stage = "header" /\ reader'.num \in Nat
    BY DEF Open, BackendInv
  <1> QED BY <1>1, <1>2, LetsGo DEF Holding

-----------------------------------------------------------------------------
(* The primary and the main backend.  A step of theirs leaves the executor   *)
(* and its snapshot alone.                                                   *)

LEMMA EnvironmentKeeps ==
    ASSUME BackendInv, UNCHANGED <<view, reader, versions, newest>>,
           LeftInv', PrimaryInv', view.imported \subseteq imported', known' \in Nat,
           left'.faults = left.faults,
           NoReorgYet' => NoReorgYet /\ IsPrefix(view.main, main')
    PROVE  BackendInv'
  <1>1. ViewInv'
    BY DEF BackendInv, ViewInv, ViewIsSnapshot, WholeTree
  <1>2. NoFaultYet' = NoFaultYet
    BY DEF NoFaultYet
  <1>3. ReaderInv'
    BY <1>2 DEF BackendInv, ReaderInv
  <1>4. VersionsInv'
    BY DEF BackendInv, VersionsInv
  <1> QED BY <1>1, <1>3, <1>4 DEF BackendInv

LEMMA IsPrefixTransitive ==
    ASSUME NEW p \in Seq(Labels), NEW q \in Seq(Labels), NEW r \in Seq(Labels),
           IsPrefix(p, q), IsPrefix(q, r)
    PROVE  IsPrefix(p, r)
  BY DEF IsPrefix

(* An ancestor of a block is the block, or an ancestor of its parent. *)
LEMMA AncestorOfParent ==
    ASSUME NEW b \in Seq(Labels), NEW n \in 0..Len(b)
    PROVE  BlockAt(b, n) = b \/ (n \in 0..Len(Parent(b))
                                   /\ BlockAt(b, n) = BlockAt(Parent(b), n))
  <1>1. CASE n = Len(b)
    BY <1>1 DEF BlockAt
  <1>2. CASE n <= Len(b) - 1
    BY <1>2 DEF BlockAt, Parent
  <1> QED BY <1>1, <1>2

(* A block that is stored on a stored parent keeps the tree whole. *)
LEMMA TreeGrows ==
    ASSUME BackendInv, NEW b \in Blocks, Parent(b) \in imported,
           imported' = imported \cup {b}, main' \in {main, b}
    PROVE  PrimaryInv'
  <1>1. /\ Snapshot.imported = imported /\ Snapshot.main = main
        /\ Snapshot'.imported = imported' /\ Snapshot'.main = main'
    BY DEF Snapshot
  <1>2. imported' \subseteq Blocks /\ main' \in Blocks /\ main' \in imported'
    BY <1>1 DEF BackendInv, PrimaryInv, WholeTree
  <1>3. ASSUME NEW c \in imported', NEW n \in 0..Len(c)
        PROVE  BlockAt(c, n) \in imported'
    <2>1. CASE c \in imported
      BY <1>1, <2>1 DEF BackendInv, PrimaryInv, WholeTree
    <2>2. CASE c = b
      <3>1. BlockAt(b, n) = b \/ (n \in 0..Len(Parent(b))
                                    /\ BlockAt(b, n) = BlockAt(Parent(b), n))
        BY <2>2, AncestorOfParent, ReadonlyAssumption
      <3> QED BY <1>1, <2>2, <3>1 DEF BackendInv, PrimaryInv, WholeTree
    <2> QED BY <2>1, <2>2
  <1> QED BY <1>1, <1>2, <1>3 DEF PrimaryInv, WholeTree

LEMMA PrimaryGrowsWhole ==
    ASSUME BackendInv, PrimaryMoves
    PROVE  PrimaryInv' /\ imported \subseteq imported'
  <1>1. CASE WriteGenesis
    <2>1. imported' = {Genesis} /\ imported = {} /\ main' = main
      BY <1>1 DEF WriteGenesis
    <2>2. main' = Genesis /\ Genesis \in Blocks
      BY <2>1, ReadonlyAssumption DEF BackendInv, PrimaryInv
    <2>3. \A n \in 0..Len(Genesis) : BlockAt(Genesis, n) = Genesis
      BY DEF BlockAt, Genesis
    <2>4. Snapshot'.imported = imported' /\ Snapshot'.main = main'
      BY DEF Snapshot
    <2> QED BY <2>1, <2>2, <2>3, <2>4 DEF PrimaryInv, WholeTree
  <1>2. ASSUME NEW b \in Blocks, Primary!Import(b)
        PROVE  PrimaryInv' /\ imported \subseteq imported'
    BY <1>2, TreeGrows DEF Primary!Import, Primary!Parent, Parent
  <1>3. ASSUME NEW b \in Blocks, Primary!SetHead(b)
        PROVE  PrimaryInv' /\ imported \subseteq imported'
    BY <1>3 DEF Primary!SetHead, BackendInv, PrimaryInv, WholeTree, Snapshot
  <1> QED BY <1>1, <1>2, <1>3 DEF PrimaryMoves

LEMMA PrimaryMovesKeeps ==
    ASSUME BackendInv, PrimaryMoves
    PROVE  BackendInv'
  <1>1. PrimaryInv' /\ imported \subseteq imported'
    BY PrimaryGrowsWhole
  <1>2. UNCHANGED <<view, reader, versions, newest>> /\ known' \in Nat
    BY DEF PrimaryMoves, BackendInv
  <1>3. /\ LeftInv' /\ left'.faults = left.faults
        /\ NoReorgYet' => NoReorgYet /\ IsPrefix(main, main')
    <2>1. CASE IsPrefix(main, main') /\ left' = left
      BY <2>1 DEF BackendInv, LeftInv, NoReorgYet
    <2>2. CASE Fails("reorgs")
      <3>1. /\ left = [faults |-> left.faults, reorgs |-> left.reorgs]
            /\ left.faults \in 0..MaxFaults /\ left.reorgs \in 0..MaxReorgs
        BY DEF BackendInv, LeftInv
      <3>2. left.reorgs > 0
            /\ left' = [faults |-> left.faults, reorgs |-> left.reorgs - 1]
        BY <2>2, <3>1 DEF Fails
      <3>3. /\ left'.faults = left.faults /\ left'.reorgs = left.reorgs - 1
            /\ left' = [faults |-> left'.faults, reorgs |-> left'.reorgs]
        BY <3>2
      <3>4. left'.reorgs \in 0..MaxReorgs /\ left'.reorgs # MaxReorgs
        BY <3>1, <3>2, <3>3, ReadonlyAssumption
      <3> QED BY <3>1, <3>3, <3>4 DEF LeftInv, NoReorgYet
    <2> QED BY <2>1, <2>2 DEF PrimaryMoves
  <1>4. /\ view.main \in Seq(Labels) /\ main \in Seq(Labels) /\ main' \in Seq(Labels)
        /\ view.imported \subseteq imported
        /\ NoReorgYet => IsPrefix(view.main, main)
    BY <1>1, ReadonlyAssumption DEF BackendInv, ViewInv, ViewIsSnapshot, PrimaryInv
  <1>5. NoReorgYet' => NoReorgYet /\ IsPrefix(view.main, main')
    BY <1>3, <1>4, IsPrefixTransitive
  <1> QED BY <1>1, <1>2, <1>3, <1>4, <1>5, EnvironmentKeeps

LEMMA PrimaryJustifiesKeeps ==
    ASSUME BackendInv, PrimaryJustifies
    PROVE  BackendInv'
  <1>1. UNCHANGED <<imported, main, view, reader, versions, newest, known, left>>
    BY DEF PrimaryJustifies
  <1>2. LeftInv' /\ PrimaryInv' /\ view.imported \subseteq imported' /\ known' \in Nat
    BY <1>1 DEF BackendInv, LeftInv, PrimaryInv, WholeTree, Snapshot, ViewInv,
                ViewIsSnapshot
  <1>3. NoReorgYet' => NoReorgYet /\ IsPrefix(view.main, main')
    BY <1>1 DEF BackendInv, ViewInv, NoReorgYet
  <1> QED BY <1>1, <1>2, <1>3, EnvironmentKeeps

LEMMA MainBackendGrowsKeeps ==
    ASSUME BackendInv, MainBackendGrows
    PROVE  BackendInv'
  <1>1. UNCHANGED <<imported, main, justified, view, reader, versions, newest, left>>
    BY DEF MainBackendGrows, primaryVars
  <1>2. LeftInv' /\ PrimaryInv' /\ view.imported \subseteq imported' /\ known' \in Nat
    BY <1>1 DEF MainBackendGrows, BackendInv, LeftInv, PrimaryInv, WholeTree, Snapshot,
                ViewInv, ViewIsSnapshot
  <1>3. NoReorgYet' => NoReorgYet /\ IsPrefix(view.main, main')
    BY <1>1 DEF BackendInv, ViewInv, NoReorgYet
  <1> QED BY <1>1, <1>2, <1>3, EnvironmentKeeps

-----------------------------------------------------------------------------
LEMMA InitHolds ==
    ASSUME Init
    PROVE  BackendInv
  <1>1. LeftInv /\ VersionsInv /\ newest \subseteq Nat /\ known \in Nat
    BY ReadonlyAssumption DEF Init, LeftInv, VersionsInv, Empty
  <1>2. PrimaryInv
    BY ReadonlyAssumption DEF Init, PrimaryInv, WholeTree, Snapshot
  <1>3. ViewInv
    <2>1. view.imported = {} /\ view.main = Genesis /\ main = Genesis
      BY DEF Init, Snapshot
    <2>2. IsPrefix(Genesis, Genesis)
      BY DEF IsPrefix, Genesis
    <2> QED BY <2>1, <2>2, ReadonlyAssumption DEF ViewInv, ViewIsSnapshot, WholeTree
  <1>4. ReaderInv
    BY DEF Init, Down, ReaderInv, Holding, WithBody
  <1> QED BY <1>1, <1>2, <1>3, <1>4 DEF BackendInv

(* BackendInv is inductive: one lemma above per action. *)
LEMMA BackendInvariant == Spec => []BackendInv
  <1>1. ASSUME BackendInv, [Next]_vars
        PROVE  BackendInv'
    <2>1. CASE UNCHANGED vars
      BY <1>1, <2>1 DEF vars, primaryVars, BackendInv, LeftInv, PrimaryInv, ViewInv,
         VersionsInv, ReaderInv, WholeTree, Snapshot, ViewIsSnapshot, NoReorgYet,
         NoFaultYet, Numbered
    <2>2. CASE Reader
      BY <1>1, <2>2, ReadHeaderKeeps, ReadBodyKeeps, ReadJustificationsKeeps,
         ReadStateKeeps, ReadVersionKeeps, SendBlockKeeps, CompareKeeps, OpenKeeps
         DEF Reader
    <2>3. CASE Environment
      BY <1>1, <2>3, PrimaryMovesKeeps, PrimaryJustifiesKeeps, MainBackendGrowsKeeps
         DEF Environment
    <2> QED BY <1>1, <2>1, <2>2, <2>3 DEF Next
  <1> QED BY <1>1, InitHolds, PTL DEF Spec

(* The two look-ups of get_block that answer with a block answer with one    *)
(* block unless a read fails, and the state of its parent is in the snapshot *)
(* (src/archive/traits/src/local_db.rs, get_block and get_state).            *)
THEOREM BlocksAreWhole == Spec => []BlockIsWhole
  <1>1. ASSUME BackendInv
        PROVE  BlockIsWhole
    <2>1. NoFaultYet /\ reader.stage \in WithBody => reader.body = reader.header
      BY <1>1 DEF BackendInv, ReaderInv
    <2>2. ASSUME NEW b \in view.imported
          PROVE  StateOf(view, b) # {}
      <3>1. CASE b = Genesis
        BY <3>1 DEF StateOf
      <3>2. CASE b # Genesis
        <4>1. b \in Seq(Labels) /\ WholeTree(view)
          BY <1>1, ReadonlyAssumption
             DEF BackendInv, ViewInv, ViewIsSnapshot, PrimaryInv
        <4>2. Len(b) - 1 \in 0..Len(b)
          BY <3>2, <4>1 DEF Genesis
        <4>3. BlockAt(b, Len(b) - 1) = Parent(b)
          BY DEF BlockAt, Parent
        <4>4. Parent(b) \in view.imported
          BY <2>2, <4>1, <4>2, <4>3 DEF WholeTree
        <4> QED BY <3>2, <4>4 DEF StateOf
      <3> QED BY <3>1, <3>2
    <2>3. reader.stage \in {"body", "justifications", "state"} =>
             reader.header \in view.imported
      BY <1>1 DEF BackendInv, ReaderInv, Holding
    <2> QED BY <2>1, <2>2, <2>3 DEF BlockIsWhole, WithBody
  <1> QED BY <1>1, BackendInvariant, PTL

(* A block that get_block has found stays the block with its number, over    *)
(* failed reads and catch-ups, while the primary does not re-organise; the   *)
(* version read last is that of the block (get_by_id, with its cache).       *)
THEOREM ReadsAreStable == Spec => []ReadIsStable
  <1>1. BackendInv => ReadIsStable
    BY DEF BackendInv, ReaderInv, ReadIsStable, Holding, WithBody
  <1> QED BY <1>1, BackendInvariant, PTL

-----------------------------------------------------------------------------
(* Types.  TypeOK is preserved where BackendInv holds: what a look-up        *)
(* answers with is a block of a snapshot, and its code a label.              *)

LEMMA CodeIsLabel ==
    ASSUME NEW b \in Blocks
    PROVE  Code(b) \in Labels
  <1>1. b \in Seq(Labels) /\ GenesisCode \in Labels
    BY ReadonlyAssumption
  <1>2. CASE b = Genesis
    BY <1>1, <1>2 DEF Code
  <1>3. CASE b # Genesis
    <2>1. Len(b) \in 1..Len(b)
      BY <1>1, <1>3 DEF Genesis
    <2> QED BY <1>1, <1>3, <2>1 DEF Code
  <1> QED BY <1>2, <1>3

LEMMA LeftTyped ==
    ASSUME LeftInv
    PROVE  left \in [{"faults", "reorgs"} -> Nat]
  BY ReadonlyAssumption DEF LeftInv

LEMMA MovedTyped ==
    ASSUME BackendInv, TypeOK, Moved
    PROVE  /\ ViewOK(Snapshot)' /\ ViewOK(view)'
           /\ newest' \subseteq Nat /\ known' \in 0..MaxHeight
  <1>1. Snapshot' = Snapshot /\ view' \in {view, Snapshot}
    BY DEF Moved, Snapshot
  <1>2. ViewOK(Snapshot)' /\ ViewOK(view)'
    BY <1>1 DEF TypeOK, ViewOK
  <1> QED BY <1>2 DEF Moved, TypeOK

(* The type of the executor's state and of its cache is all that a look-up   *)
(* has to establish.                                                         *)
CacheTyped ==
    /\ DOMAIN versions \subseteq Labels
    /\ \A c \in DOMAIN versions : versions[c] \in Nat

LEMMA LookUpTyped ==
    ASSUME BackendInv, BackendInv', TypeOK, Moved, reader' \in ReaderState, CacheTyped'
    PROVE  TypeOK'
  <1>1. (left \in [{"faults", "reorgs"} -> Nat])'
    BY LeftTyped, ReadonlyAssumption DEF BackendInv, LeftInv
  <1> QED BY <1>1, MovedTyped DEF TypeOK, CacheTyped

LEMMA CacheKept ==
    ASSUME TypeOK, versions' \in {versions, Empty}
    PROVE  CacheTyped'
  BY DEF TypeOK, CacheTyped, Empty

LEMMA GaveUpTyped ==
    ASSUME BackendInv, BackendInv', TypeOK, Moved, GaveUp
    PROVE  TypeOK'
  <1>1. reader' \in ReaderState
    BY DEF GaveUp, ReaderState
  <1> QED BY <1>1, CacheKept, LookUpTyped DEF GaveUp

LEMMA AnswerIsBlock ==
    ASSUME BackendInv, BackendInv', Moved, reader.num \in Nat, NEW b, Answered(b)
    PROVE  b \in Blocks
  <1>1. b \in view'.imported
    BY AnswerFits
  <1> QED BY <1>1 DEF BackendInv, ViewInv, ViewIsSnapshot, PrimaryInv

LEMMA HeaderTyped ==
    ASSUME BackendInv, BackendInv', TypeOK, ReadHeader
    PROVE  TypeOK'
  <1>1. Moved
    BY HeaderOutcome
  <1>2. ASSUME NEW h, Answered(h), versions' = versions,
               reader' = [stage |-> "body", num |-> reader.num, header |-> h]
        PROVE  TypeOK'
    <2>1. reader.num \in Nat
      BY DEF ReadHeader, BackendInv, ReaderInv
    <2>2. h \in Blocks
      BY <1>1, <1>2, <2>1, AnswerIsBlock
    <2>3. reader' \in ReaderState
      BY <1>2, <2>1, <2>2 DEF ReaderState
    <2> QED BY <1>1, <1>2, <2>3, CacheKept, LookUpTyped
  <1> QED BY <1>1, <1>2, HeaderOutcome, GaveUpTyped

(* The fields of a block that is being read. *)
LEMMA HeldBlock ==
    ASSUME TypeOK
    PROVE  /\ reader.stage = "body" => reader.num \in Nat /\ reader.header \in Blocks
           /\ reader.stage \in {"justifications", "state", "version"} =>
                 reader.num \in Nat /\ reader.header \in Blocks /\ reader.body \in Blocks
  BY DEF TypeOK, ReaderState, Down

LEMMA BodyTyped ==
    ASSUME BackendInv, BackendInv', TypeOK, ReadBody
    PROVE  TypeOK'
  <1>1. Moved /\ reader.stage = "body"
    BY BodyOutcome DEF ReadBody
  <1>2. ASSUME NEW b, Answered(b), versions' = versions,
               reader' = [stage |-> "justifications", num |-> reader.num,
                          header |-> reader.header, body |-> b]
        PROVE  TypeOK'
    <2>1. reader.num \in Nat /\ reader.header \in Blocks
      BY <1>1, HeldBlock
    <2>2. b \in Blocks
      BY <1>1, <1>2, <2>1, AnswerIsBlock
    <2>3. reader' \in ReaderState
      BY <1>2, <2>1, <2>2 DEF ReaderState
    <2> QED BY <1>1, <1>2, <2>3, CacheKept, LookUpTyped
  <1> QED BY <1>1, <1>2, BodyOutcome, GaveUpTyped

LEMMA GoesOnTyped ==
    ASSUME BackendInv, BackendInv', TypeOK, Moved, NEW to \in {"state", "version"},
           reader' = At(to), reader.stage \in {"justifications", "state"},
           versions' = versions
    PROVE  TypeOK'
  <1>1. reader' \in ReaderState
    BY HeldBlock DEF At, ReaderState
  <1> QED BY <1>1, CacheKept, LookUpTyped

LEMMA VersionTyped ==
    ASSUME BackendInv, BackendInv', TypeOK, ReadVersion
    PROVE  TypeOK'
  <1>1. Moved /\ reader.stage = "version"
    BY VersionOutcome DEF ReadVersion
  <1>2. ASSUME NEW b, Answered(b), versions' = Cached(Code(b)),
               reader' = [stage |-> "read", num |-> reader.num,
                          header |-> reader.header, body |-> reader.body,
                          spec |-> VersionOf(Code(b))]
        PROVE  TypeOK'
    <2>1. reader.num \in Nat /\ reader.header \in Blocks /\ reader.body \in Blocks
      BY <1>1, HeldBlock
    <2>2. Code(b) \in Labels
      BY <1>1, <1>2, <2>1, AnswerIsBlock, CodeIsLabel
    <2>3. VersionOf(Code(b)) \in Nat
      BY <2>2, ReadonlyAssumption DEF VersionOf, TypeOK
    <2>4. reader' \in ReaderState
      BY <1>2, <2>1, <2>3 DEF ReaderState
    <2>5. CacheTyped'
      BY <1>2, <2>2, <2>3 DEF CacheTyped, Cached, TypeOK
    <2> QED BY <1>1, <2>4, <2>5, LookUpTyped
  <1> QED BY <1>1, <1>2, VersionOutcome, GaveUpTyped

LEMMA ReaderTyped ==
    ASSUME BackendInv, BackendInv', TypeOK, Reader
    PROVE  TypeOK'
  <1>1. CASE ReadJustifications
    BY <1>1, JustificationsOutcome, GoesOnTyped DEF ReadJustifications
  <1>2. CASE ReadState
    BY <1>2, StateOutcome, GaveUpTyped, GoesOnTyped DEF ReadState
  <1>3. CASE SendBlock
    <2>1. reader.num \in Nat
      BY <1>3 DEF SendBlock, BackendInv, ReaderInv, Holding
    <2>2. reader' \in ReaderState /\ newest' \subseteq Nat
      BY <1>3, <2>1 DEF SendBlock, ReaderState, TypeOK
    <2>3. UNCHANGED <<imported, main, justified, view, versions, known, left>>
      BY <1>3 DEF SendBlock, primaryVars
    <2> QED BY <2>2, <2>3 DEF TypeOK, ViewOK, Snapshot
  <1>4. CASE Compare
    <2>1. Moved /\ versions' = versions
      BY <1>4 DEF Compare, Moved, primaryVars
    <2>2. reader' \in ReaderState
      BY <1>4 DEF Compare, NextNumber, BackendInv, ReaderInv, ReaderState
    <2> QED BY <2>1, <2>2, CacheKept, LookUpTyped
  <1>5. CASE Open
    <2>1. Moved /\ versions' = versions
      BY <1>5 DEF Open, CatchUp, Moved, primaryVars
    <2>2. reader' \in ReaderState
      BY <1>5 DEF Open, BackendInv, ReaderState
    <2> QED BY <2>1, <2>2, CacheKept, LookUpTyped
  <1> QED BY <1>1, <1>2, <1>3, <1>4, <1>5, HeaderTyped, BodyTyped, VersionTyped
          DEF Reader

LEMMA EnvironmentTyped ==
    ASSUME BackendInv, BackendInv', TypeOK, Environment
    PROVE  TypeOK'
  <1>1. UNCHANGED <<view, reader, versions, newest>>
    BY DEF Environment, PrimaryMoves, PrimaryJustifies, MainBackendGrows
  <1>2. known' \in 0..MaxHeight
    BY ReadonlyAssumption
       DEF Environment, PrimaryMoves, PrimaryJustifies, MainBackendGrows, TypeOK
  <1>3. justified' \subseteq imported'
    <2>1. justified \subseteq imported
      BY DEF TypeOK, ViewOK, Snapshot
    <2>2. CASE PrimaryMoves
      BY <2>1, <2>2, PrimaryGrowsWhole DEF PrimaryMoves
    <2>3. CASE PrimaryJustifies
      BY <2>1, <2>3 DEF PrimaryJustifies
    <2>4. CASE MainBackendGrows
      BY <2>1, <2>4 DEF MainBackendGrows, primaryVars
    <2> QED BY <2>2, <2>3, <2>4 DEF Environment
  <1>4. ViewOK(Snapshot)'
    BY <1>3 DEF BackendInv, PrimaryInv, ViewOK, Snapshot
  <1>5. (left \in [{"faults", "reorgs"} -> Nat])'
    BY ReadonlyAssumption DEF BackendInv, LeftInv
  <1> QED BY <1>1, <1>2, <1>4, <1>5 DEF TypeOK, ViewOK

(* The read-only backend's state has its shape in every reachable state: the *)
(* snapshot holds justifications only of blocks it has, the executor holds   *)
(* what the look-ups of get_block so far answered, and the cache of          *)
(* RuntimeVersionCache maps codes to versions.                               *)
THEOREM BackendTypes == Spec => []TypeOK
  <1>1. Init => TypeOK
    BY ReadonlyAssumption
       DEF Init, TypeOK, ViewOK, Snapshot, ReaderState, Empty, BackendInv
  <1>2. ASSUME BackendInv, BackendInv', TypeOK, [Next]_vars
        PROVE  TypeOK'
    <2>1. CASE UNCHANGED vars
      BY <1>2, <2>1 DEF vars, primaryVars, TypeOK, ViewOK, Snapshot
    <2> QED BY <1>2, <2>1, ReaderTyped, EnvironmentTyped DEF Next
  <1> QED BY <1>1, <1>2, BackendInvariant, PTL DEF Spec
===============================================================================
