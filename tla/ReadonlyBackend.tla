--------------------------- MODULE ReadonlyBackend ---------------------------
(***************************************************************************)
(* Strategy::ReadonlyBackend in detail: SecondaryRocksDb shows a snapshot  *)
(* of a primary database, that of another node, while the BlockExecutor    *)
(* reads a block from it in five look-ups (LocalBackendCore::get_block,    *)
(* get_state, RuntimeVersionCache::get_by_id).                             *)
(*                                                                         *)
(* The snapshot moves only inside look-ups and when the node starts: a     *)
(* look-up that finds nothing, or fails because the primary has compacted  *)
(* the files under it, catches up with the primary.  A look-up that finds  *)
(* nothing reports so even if the block is there after the catch-up.       *)
(*                                                                         *)
(* The primary is a node as in ChainSource.  The main backend and Postgres *)
(* are here only as the numbers the Comparer and the Initializer take from *)
(* them.  An Option is a set of at most one element.                       *)
(*                                                                         *)
(* Definitions D_x are variants of D with a mistake in them; nothing uses  *)
(* them but the mutation tests of the properties.                          *)
(***************************************************************************)
EXTENDS BlockPaths

CONSTANTS
    Labels,      \* a label tells siblings apart and is the code after the block
    GenesisCode, \* the code in the genesis state
    SpecOf,      \* spec_version of a code
    Blocks,      \* the blocks the primary may get
    Justifiable, \* those of them that get a justification
    MaxHeight,   \* bound on the number of a block
    MaxFaults,   \* bound on failed look-ups and failed catch-ups
    MaxReorgs    \* bound on re-organisations of the primary

ASSUME ReadonlyAssumption ==
    /\ GenesisCode \in Labels /\ SpecOf \in [Labels -> Nat]
    /\ Blocks \subseteq Seq(Labels) /\ Genesis \in Blocks
    /\ \A b \in Blocks : Parent(b) \in Blocks /\ Len(b) <= MaxHeight
    /\ MaxHeight \in Nat /\ MaxFaults \in Nat /\ MaxReorgs \in Nat

VARIABLES
    imported,    \* the primary: blocks stored, none before it wrote genesis
    main,        \* the primary: head of its canonical chain
    justified,   \* the primary: blocks stored with a justification
    view,        \* what the secondary shows of the primary
    reader,      \* the BlockExecutor
    versions,    \* RuntimeVersionCache::versions
    newest,      \* MAX(block_num) of the archive, an Option
    known,       \* best number of the main backend
    left         \* what remains of the bounds

primaryVars == <<imported, main, justified>>
vars == <<primaryVars, view, reader, versions, newest, known, left>>

Code(block) == IF block = Genesis THEN GenesisCode ELSE block[Len(block)]

Snapshot == [imported |-> imported, main |-> main, justified |-> justified]
Empty == [c \in {} |-> c]
Down == [stage |-> "down"]

Init ==
    /\ imported = {} /\ main = Genesis /\ justified = {}
    /\ view = Snapshot
    /\ reader = Down
    /\ versions = Empty
    /\ newest = {} /\ known = 0
    /\ left = [faults |-> MaxFaults, reorgs |-> MaxReorgs]

Fails(kind) == left[kind] > 0 /\ left' = [left EXCEPT ![kind] = @ - 1]

-----------------------------------------------------------------------------
(* SecondaryRocksDb. *)

(* try_catch_up_with_primary, and its failure.  That a catch-up shows all    *)
(* that the primary holds, and nothing else, is assumed of RocksDB.          *)
CatchUp == view' = Snapshot
CatchUpFails == UNCHANGED view

(* A value that is found leaves the snapshot as it is. *)
Found_eager == CatchUp /\ UNCHANGED left
Found == UNCHANGED <<view, left>>

(* SecondaryRocksDb::get answers got for a key that has the value here in    *)
(* the snapshot and there in the primary.                                    *)
Get(here, there, got) ==
    \/ here # {} /\ got = here /\ Found                 \* Ok(Some(value))
    \/ /\ here = {} /\ got = {}                         \* Ok(None)
       /\ \/ CatchUp /\ UNCHANGED left
          \/ CatchUpFails /\ Fails("faults")
    \/ /\ Fails("faults")                               \* Err(err)
       /\ \/ CatchUp /\ got \in {there, {}}
          \/ CatchUpFails /\ got = {}

(* A look-up by number reads the hash first and the value by that hash: a    *)
(* failure of the second read catches up but answers for the old hash.       *)
GetByNumber(here, there, got) ==
    \/ Get(here, there, got)
    \/ Fails("faults") /\ CatchUp /\ here # {} /\ got = here

(* The block with a number in a snapshot. *)
Numbered(v, n) ==
    IF v.imported # {} /\ n <= Len(v.main) THEN {BlockAt(v.main, n)} ELSE {}

(* The look-up of the block the executor is at, by number. *)
LookUp(got) ==
    GetByNumber(Numbered(view, reader.num), Numbered(Snapshot, reader.num), got)
Answers == {{}} \cup {Numbered(v, reader.num) : v \in {view, Snapshot}}

-----------------------------------------------------------------------------
(* The BlockExecutor on this backend. *)

(* The process ends, with the cache of versions. *)
Panic == reader' = Down /\ versions' = Empty

(* No block or no state: genesis is skipped, any other number panics. *)
NoStorages(n) ==
    IF n # 0 THEN Panic
    ELSE reader' = [stage |-> "asked", num |-> n] /\ UNCHANGED versions

ReaderFrame == UNCHANGED <<primaryVars, newest, known>>

(* The same block, one look-up later. *)
At(stage) == [stage |-> stage, num |-> reader.num,
              header |-> reader.header, body |-> reader.body]

(* get_block: the header.  After a miss the other two look-ups of get_block  *)
(* follow, and their answers are dropped: all they may do is catch up once   *)
(* more, as if the first one had come later.                                 *)
ReadHeader ==
    /\ reader.stage = "header"
    /\ \E got \in Answers :
          /\ LookUp(got)
          /\ \/ got = {} /\ NoStorages(reader.num)
             \/ \E h \in got :
                  /\ reader' = [stage |-> "body", num |-> reader.num, header |-> h]
                  /\ UNCHANGED versions
    /\ ReaderFrame

(* The body, by number again. *)
ReadBody ==
    /\ reader.stage = "body"
    /\ \E got \in Answers :
          /\ LookUp(got)
          /\ \/ got = {} /\ NoStorages(reader.num)
             \/ \E b \in got :
                  /\ reader' = [stage |-> "justifications", num |-> reader.num,
                                header |-> reader.header, body |-> b]
                  /\ UNCHANGED versions
    /\ ReaderFrame

(* The justifications, which most blocks do not have. *)
ReadJustifications ==
    /\ reader.stage = "justifications"
    /\ LET justification(v) == Numbered(v, reader.num) \cap v.justified
       IN \E got \in {{}, justification(view), justification(Snapshot)} :
             GetByNumber(justification(view), justification(Snapshot), got)
    /\ reader' = At("state")
    /\ UNCHANGED versions
    /\ ReaderFrame

(* get_state: the state of the parent, by hash.  Genesis is executed on the  *)
(* empty state.                                                              *)
StateOf(v, block) ==
    IF block = Genesis THEN {block} ELSE {Parent(block)} \cap v.imported

ReadState ==
    /\ reader.stage = "state"
    /\ LET state(v) == StateOf(v, reader.header)
       IN \E got \in {{}, state(view), state(Snapshot)} :
             /\ Get(state(view), state(Snapshot), got)
             /\ \/ got = {} /\ NoStorages(reader.num)
                \/ got # {} /\ reader' = At("version") /\ UNCHANGED versions
    /\ ReaderFrame

(* RuntimeVersionCache::get_by_id: the code in the state of the block, found *)
(* by number; runtime_version is called once per code.                       *)
VersionOf_cached(code) ==
    IF DOMAIN versions # {} THEN versions[CHOOSE c \in DOMAIN versions : TRUE]
    ELSE SpecOf[code]
VersionOf(code) == IF code \in DOMAIN versions THEN versions[code] ELSE SpecOf[code]

Cached(code) ==
    [c \in DOMAIN versions \cup {code} |-> IF c = code THEN VersionOf(c) ELSE versions[c]]

ReadVersion ==
    /\ reader.stage = "version"
    /\ \E got \in Answers :
          /\ LookUp(got)
          /\ \/ got = {} /\ Panic
             \/ \E b \in got :
                  /\ reader' = [stage |-> "read", num |-> reader.num,
                                header |-> reader.header, body |-> reader.body,
                                spec |-> VersionOf(Code(b))]
                  /\ versions' = Cached(Code(b))
    /\ ReaderFrame

(* The block goes to the archiver, which stores it (ArchivePipeline). *)
SendBlock ==
    /\ reader.stage = "read"
    /\ reader' = [stage |-> "asked", num |-> reader.num]
    /\ newest' = {n \in newest \cup {reader.num} : \A k \in newest : n >= k}
    /\ UNCHANGED <<primaryVars, view, versions, known, left>>

(* The Comparer sends the next number if the main backend has it, else the   *)
(* same number again, after its timer.                                       *)
NextNumber_back(n) == IF n < known THEN n + 1 ELSE n - 1
NextNumber_short(n) == IF n + 1 < known THEN n + 1 ELSE n
NextNumber(n) == IF n < known THEN n + 1 ELSE n

Compare ==
    /\ reader.stage = "asked"
    /\ reader' = [stage |-> "header", num |-> NextNumber(reader.num)]
    /\ UNCHANGED <<primaryVars, view, versions, newest, known, left>>

(* The node starts: SecondaryRocksDb::open catches up, and the Initializer   *)
(* resumes from the newest row.                                              *)
Open ==
    /\ reader = Down
    /\ CatchUp
    /\ \E n \in (IF newest = {} THEN {0} ELSE newest) :
          reader' = [stage |-> "header", num |-> n]
    /\ UNCHANGED <<primaryVars, versions, newest, known, left>>

-----------------------------------------------------------------------------
(* The primary and the main backend. *)

Primary == INSTANCE ChainSource

WriteGenesis ==
    /\ imported = {}
    /\ imported' = {Genesis}
    /\ UNCHANGED main

(* A new head that is no descendant of the old one counts as a               *)
(* re-organisation.                                                          *)
PrimaryMoves ==
    /\ \/ WriteGenesis
       \/ \E block \in Blocks : Primary!Import(block) \/ Primary!SetHead(block)
    /\ IF IsPrefix(main, main') THEN UNCHANGED left ELSE Fails("reorgs")
    /\ UNCHANGED <<justified, view, reader, versions, newest, known>>

(* A block gets its justification when it is finalized, after its import. *)
PrimaryJustifies ==
    /\ \E block \in (imported \cap Justifiable) \ justified :
          IsPrefix(block, main) /\ justified' = justified \cup {block}
    /\ UNCHANGED <<imported, main, view, reader, versions, newest, known, left>>

MainBackendGrows ==
    /\ known < MaxHeight
    /\ known' = known + 1
    /\ UNCHANGED <<primaryVars, view, reader, versions, newest, left>>

-----------------------------------------------------------------------------
Reader ==
    \/ ReadHeader \/ ReadBody \/ ReadJustifications \/ ReadState \/ ReadVersion
    \/ SendBlock \/ Compare \/ Open
Environment == PrimaryMoves \/ PrimaryJustifies \/ MainBackendGrows

Next == Reader \/ Environment

Spec == Init /\ [][Next]_vars

(* The executor's loop runs on, and the operator restarts a node that        *)
(* stopped.  Nothing is assumed of the primary.                              *)
FairSpec == Spec /\ WF_vars(Reader)

-----------------------------------------------------------------------------
(* Properties. *)

ViewOK(v) ==
    /\ v = [imported |-> v.imported, main |-> v.main, justified |-> v.justified]
    /\ v.imported \subseteq Blocks /\ v.main \in Blocks
    /\ v.justified \subseteq v.imported
ReaderState == {Down}
    \cup [stage : {"header", "asked"}, num : Nat]
    \cup [stage : {"body"}, num : Nat, header : Blocks]
    \cup [stage : {"justifications", "state", "version"}, num : Nat,
          header : Blocks, body : Blocks]
    \cup [stage : {"read"}, num : Nat, header : Blocks, body : Blocks, spec : Nat]

(* Every variable has its shape, and the cache maps codes to versions. *)
TypeOK ==
    /\ ViewOK(Snapshot) /\ ViewOK(view)
    /\ reader \in ReaderState
    /\ DOMAIN versions \subseteq Labels
    /\ \A c \in DOMAIN versions : versions[c] \in Nat
    /\ newest \subseteq Nat /\ known \in 0..MaxHeight
    /\ left \in [{"faults", "reorgs"} -> Nat]

NoFaultYet == left.faults = MaxFaults
NoReorgYet == left.reorgs = MaxReorgs

(* get_block is atomic although it looks the number up twice: as long as no  *)
(* read fails, header and body are of one block, whatever the primary        *)
(* re-organises meanwhile.  The state the block is executed on is there even *)
(* then.                                                                     *)
BlockIsWhole ==
    /\ NoFaultYet /\ reader.stage \in {"justifications", "state", "version", "read"} =>
          reader.body = reader.header
    /\ reader.stage \in {"body", "justifications", "state"} =>
          StateOf(view, reader.header) # {}

(* A number that was found stays found, and stays the same block, for the    *)
(* rest of its look-ups and over all failed reads and catch-ups: the version *)
(* is that of the block.  (While the primary does not re-organise.)          *)
ReadIsStable ==
    NoReorgYet =>
        /\ reader.stage \in {"body", "justifications", "state", "version"} =>
              Numbered(view, reader.num) = {reader.header}
        /\ reader.stage = "read" =>
              reader.body = reader.header /\ reader.spec = SpecOf[Code(reader.header)]

(* A block that the primary keeps on its chain and the main backend knows is *)
(* read in the end, although the look-up that first asks for it may miss it  *)
(* and panic: the snapshot cannot stay behind for ever.                      *)
EveryBlockRead ==
    \A n \in 1..MaxHeight :
        <>[](n <= Len(main) /\ n <= known) => <>(\E k \in newest : k >= n)
=============================================================================
