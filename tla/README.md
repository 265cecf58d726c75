# Verification of sub-archive

sub-archive is a Substrate node that executes every block of its chain once more and
writes the blocks, with the storage changes they cause, to Postgres and to Kafka.
This directory holds TLA+ models of its core, the TLC configurations that check them
on small instances, and TLAPS proofs of the theorems that hold for every value of
the parameters. `PROJECT.json` lists runs, hazards, theorems and the source lines
that each definition stands for.

## The system

| part | state | operations | talks to |
|---|---|---|---|
| Initializer (`archive/notifier/src/initializer.rs`) | none | one query, one send | Postgres, executor queue |
| BlockExecutor (`archive/executor/src/lib.rs`) | none but its queue | take a number, look up the block, execute it, send the result | executor's backend, client, archiver queue, comparer queue |
| Comparer (`archive/notifier/src/comparer.rs`) | none but its queue | next number if the chain has it, else the same after 3 s | main backend, executor queue |
| Notifier, "archiver" (`archive/notifier/src/notifier.rs`) | none but its queue | metadata if new: insert, send; block: insert, send | main backend, Postgres, Kafka |
| PostgresDb (`archive/postgres`) | tables `metadatas`, `blocks` | upserts, `MAX(block_num)`, existence of a version | |
| KafkaProducer (`archive/kafka`) | topics `metadata`, `block` | send | |
| local backend core, version cache (`archive/traits`, `version_cache.rs`) | cache of runtime versions | block, state and version by number | RocksDB |
| read-only backend (`archive/traits/src/readonly`) | secondary RocksDB instance | get, catch up with the primary | the database of another node |
| client (`client/service/src/client/client.rs`, `block_rules.rs`) | chain, import lock, `importing_block`, notification sinks | check, import, finalize, notify | backend, import queue, GRANDPA voter |
| network future (`client/service/src/lib.rs`, `builder.rs`) | two notification streams | announce, report finality | client |
| call executor, local runtimes (`call_executor.rs`, `wasm_override.rs`) | map of local runtimes | call a runtime function on a state | backend |
| mock runtime API (`archive/runtime/src/mock.rs`) | overlay of changes per object | execute_block, metadata, into_storage_changes | call executor |
| start-up (`cli/src/service.rs`, `command.rs`, `archive/src/config.rs`) | configuration | builds the above | |

The pipeline is a ring. A single block number goes from the Initializer (or from the
configuration, with `reset_force`) to the executor, from there to the comparer and
back, one larger each time; the executed blocks leave the ring at the archiver queue.
All three channels are unbounded and in memory. A panic in any task ends the process.

What is hard about it, and what the properties are for:

- the ring and the archiver run concurrently, and the archiver may lag: a crash loses
  the archiver queue and the restart resumes from `MAX(block_num)`;
- four writes to two stores, in a fixed order without a transaction around them, each
  of which may fail, with the error dropped;
- the block is read by number several times (header, body, version, metadata), from up
  to two backends, while the chain grows and is re-organised;
- the read-only backend is a snapshot of another node's database that moves in the
  middle of reads: when a key is missing, and when a read fails;
- importers and the finality voter share the client; some checks and the reset of
  `importing_block` are outside the lock;
- an API object is used for several calls, some of them nested, and its overlay is
  drained whether or not they succeeded.

Correct means: no block is skipped and no gap is left in the table, Kafka never
announces what Postgres lacks and eventually gets all of it, a row is one block and rows
form one chain, finality stays on the best chain and is reported in order, no block is
stored without its parent or against the block rules, and what is archived as the
changes of a block are the changes of that block.

## Modules

| module | models |
|---|---|
| `BlockPaths` | blocks as paths from genesis: hash = path, number = length |
| `ChainSource` | what the archive relies on of a node's database: a tree that only grows, and a best block that moves in any direction |
| `ArchiveDb` | the two tables and the queries of `PostgresDb` as operators |
| `ArchivePipeline` | Initializer, BlockExecutor, Comparer, Notifier, the stores, the chains under them |
| `ArchiveLog` | the abstract archive: numbers without a gap, Kafka at most one row behind |
| `ReadonlyBackend` | the look-ups of one block on a secondary RocksDB, and the runtime version cache |
| `ClientImport` | import, finality, auxiliary data, block rules, notifications, network future |
| `RuntimeApi` | API objects and their overlay, choice of state and code for a call |
| `WasmOverride` | the scan of the directory of local runtimes |
| `MC*` | instances for TLC |
| `*Proofs` | theorems and their proofs; `ArchivePipeline` has three such modules and `ClientImport` two |

`ArchivePipeline` uses `ArchiveDb` and `BlockPaths` and instantiates `ArchiveLog` under
the mapping `archived <- DOMAIN db.blocks`, `published <- {m.num : m \in mq.blocks}`.
`ChainSource` ties the components together: `ArchivePipeline` and `ReadonlyBackend` take
their chain's steps from it (`Node!Import`, `Primary!SetHead`), and `ClientImport`
is shown to implement it under `imported <- stored`, `main <- best`. So the chain under
the archive does what the client lets it do: fork choice is BABE's, and it or finality
may move the best block to a lower or an equal number.

A definition named `D_x` is `D` with a mistake; the specifications do not use it, it is
there for the mutation tests in `PROJECT.json`.

### ArchivePipeline

`execQ`, `compQ`, `archQ` are the channels; `exec`, `comp`, `arch` the tasks between
two of their awaits or look-ups. `main` is the path of the best block of the main
backend and `imported` all its blocks; `ro` is the canonical chain in the read-only
backend, used as `source` when `Readonly` (Strategy::ReadonlyBackend). `db` and `mq`
are the two stores. A message carries the block number, its hash, the block its body
is from, whether the storage changes are those of the block (`full`) and its
spec_version.

- `ExecutorRecv`, `ExecuteBlock`, `SendBlock` are the three moments at which
  `BlockExecutor::archive` resolves the number: header; body, state and execution;
  version. A block that is missing panics, except number 0, which is skipped.
  `execute_block` is run on the main backend and its result is dropped: `HasChanges`.
- `CompareNext`, `CompareWait`, `CompareTimer` are `Comparer::compare`.
- `NotifierCheck`, `ArchiveMetadata`, `SendMetadata`, `ArchiveBlock`, `SendMqBlock` are
  the awaits of `Notifier::archive`, `NotifierCheckFails`, `NotifierWriteFails` and
  `BlockRefused` its errors, which `run` drops. A failed write may have taken effect.
- `Crash`, the panics, `StartNode` and `StartInNewFolder` keep the stores and lose the
  queues. A new data folder empties the main backend but not Postgres.
- `ImportBlock`, `FinalityReorg`, `CatchUp`, `CatchUpReorg` move the chains. The
  read-only chain moves at any time here; `ReadonlyBackend` says when it really does.

### ReadonlyBackend

`imported`, `main` and `justified` are the primary, the database of the other node;
`view` is the part of its history that the secondary shows. `Get` is
`SecondaryRocksDb::get`: a value found, a miss (which catches up and still reports the
miss), a failed read (which catches up and tries once more), and catch-ups that fail. That a
catch-up brings the view to the primary's contents of the moment (`CatchUp`) is an
assumption on RocksDB; what the repository's code does is when it asks for one, and what
it does with the answer.
`GetByNumber` is such a look-up through the number's hash. `ReadHeader`, `ReadBody`,
`ReadJustifications`, `ReadState` and `ReadVersion` are the five look-ups for a block, in
the executor's order; `versions` is the cache of `RuntimeVersionCache`, keyed by code.
After a missing header `get_block` makes its other look-ups and drops them; the model
leaves them out, as they only catch up once more. `Compare`, `SendBlock` and `Open` keep
of the ring, the archiver and the Initializer the numbers alone: execution and the stores
are in `ArchivePipeline`.

### ClientImport

Each caller is the import queue or the GRANDPA voter. Before the lock: `CheckBlock`,
`PrepareBlock`. Under it: `ApplyBlock`, `ExecuteAndImportBlock`, `FinalizeBlock`,
`Notify`. `InsertAux` takes the lock and imports nothing. After it: `ClearImporting`,
which resets `importing_block` whoever set it. `notify_finalized` reads the header of each
block after the commit, and `NotifyFails` is the failure of such a read: the notices
before it are sent, the others are lost, the caller gets an error, and the block is final
all the same. The history variable `unsent` remembers the blocks whose notice was lost;
no action reads it, the properties on finality notices do.
`NetworkImported` and `NetworkFinalized` are the two arms of `build_network_future`.
No caller in the program imports a block as already final, with ready storage changes or
without a body, and the node keeps all states (`PruningMode::ArchiveAll`), so those
branches are left out.

### RuntimeApi and WasmOverride

`task[t]` is an API object in use: `frames` are the calls under way (the second one is
the nested `initialize_block`), `layers` the overlay with one layer per open
transaction. `LoadState` and `LoadCode` resolve the BlockId separately, as
`contextual_call` and `check_override` do. A call by number sees the chain of the moment,
a call by hash does not depend on it. The result of a call is decoded after its
transaction is committed, so a metadata call may fail and leave its changes in the
overlay (`Decodes`); the unit result of the other calls always decodes. The storage
transaction cache, which a rollback does not touch, is left out: it feeds the backend's
transaction, and the archive takes the main storage changes. `RuntimeApi` extends `WasmOverride`: the scan runs
first, and the tasks start when it has succeeded.

## Runs

| run | shows | bounds |
|---|---|---|
| `forks` | no gap, nothing skipped, no row but the newest rewritten, refinement of `ArchiveLog`; until the fork, rows are one chain with their changes and the first block of each version | 3 blocks, runtime upgrade at 2, 1 fork, 1 crash, 1 new folder, partitions end at 3 |
| `readonly` | two backends: one number in the ring, Postgres before Kafka, no foreign-key error; sound rows and metadata until a fork; until a store call fails, nothing is skipped but genesis | 2 blocks, 1 store error, 1 state error, 1 fork in either backend, `reset_force` at 0 |
| `readonly_backend` | a block read from a secondary is one block with its state and version; every block of the primary is read in the end | 5 blocks on two branches, two runtimes, 1 failed read or catch-up, 1 re-organisation |
| `live` | every imported block reaches both stores | 2 crashes, fair tasks |
| `client` | chain and notifications under all interleavings of two callers, with notices that fail after the commit; the client implements `ChainSource` | a branch of three blocks and one of a single block, `MaxToNotify` 2 |
| `client_live` | block rules; the marker is cleared; the network learns finality, unless the notice failed | one good block, a good and a bad child, both origins, `MaxToNotify` 1 |
| `runtime_api` | local runtimes are scanned exactly or refused for cause; an API object yields the changes of its block or none | directories of 5 entries in every order; a worker and a notifier, 4 blocks, height 2, two runtimes |

Runs that end in a violation, one for each statement that the code does not keep:

- `metadata_lost`: a crash between the insert of metadata and its message; the version
  is then in Postgres, so its metadata never reaches Kafka ("Archiver write data to db
  and mq", `README.md:19`).
- `insert_fails`: one failed call of the archiver (in the shortest trace the query whether
  the metadata exist); the error is dropped and the comparer moves on, so
  the block is in neither store and no restart goes back for it (same line; the question
  is asked in `comparer.rs:63`).
- `empty_changes`: with a read-only backend ahead of the main one, execution fails for
  want of the parent and the block is archived without changes ("if not genesis, the main
  storage should not be empty", `executor/src/lib.rs:115`; the code only warns).
- `importing_marker`: a caller that finishes clears the marker of another that is
  importing ("holds the block hash currently being imported", `client.rs:93`).
- `override_race`: metadata by number, a re-organisation between the look-up of the state
  and that of the version, and the local runtime of another version runs ("A custom WASM
  blob will override on-chain WASM if the spec version matches", `wasm_override.rs:35`).

Why the bounds are enough. The ring holds one number, so two queued messages
(`MaxBacklog`) already separate the executor from the archiver; three blocks give a row
that is published, one in flight and one queued. Two runtime versions are needed for
metadata; every panic is a crash of its own, so a restart can be interrupted again. A fork of one block is
enough for any two look-ups to disagree. For the properties that are proved, the bounds
do not matter.

Fairness. `Executor`, `Comparer` and `Notifier` are weakly fair: they are tasks of the
node's runtime that are polled while they can go on. `StartNode` is weakly fair: an
operator restarts a node that stopped. Nothing is assumed of crashes (they are bounded),
imports or forks. In `ReadonlyBackend` the reader alone is weakly fair, with the same
restart; nothing is assumed of the primary. In `ClientImport` the code from the taking of the lock to the reset
of the marker, and the network task, are weakly fair; nothing is assumed of the lock,
of verification, or of new blocks.

## Proofs

- `ArchivePipelineProofs`: `TypeCorrect`; `TokenUnique` (one number in the ring);
  `MqBacked` (Kafka after Postgres) and `ForeignKeySafe`. They hold for any chain, any
  number of crashes, failures and forks, both strategies and any `reset_force`. The last
  two need `StageOK`, what the archiver's position says of the database: a send is
  pending only for a row that exists, a block insert only for a version that exists.
- `ArchiveGapProofs`, for nodes without store or state errors, `reset_force` and
  read-only backend (`NoLoss`): `NoGap`, `Contiguous`, `UnpublishedNewest`, `NoneSkipped`
  and the refinement `Refinement`. That `MAX(block_num)` is a safe place to resume is not
  inductive: it depends on what the queues hold. `NoGapInv` says that everything below
  a row is published, everything below a number in a queue is published or ahead of it in
  the archiver queue, and a row that is not published is the archiver's current or next
  block or, when the archiver has none, the very number that the ring holds. Each
  assumption of `NoLoss` is needed: dropping one gives a gap (`insert_fails`; a
  `reset_force` above the newest row; the skipped genesis of an empty read-only backend).
- `ArchiveRowsProofs`: what the rows hold. `RowsSound`, `RowsLinked` and
  `MetadataOfVersion` are properties until the first fork and have no other assumption:
  either backend, any crashes, failures and resets. Their invariant `RowsInv` says that
  until a fork everything in sight (the chains, the messages, what the tasks hold between
  two look-ups, the rows) is a block of the one chain of the network, so look-ups of
  one number at different times agree. `MetadataFirst` needs `NoLoss`: when a version is
  new to the archiver, `NoGapInv` says that all lower blocks are archived, and
  `RowsBacked` that none of them has it. `GenesisOnly` holds for both backends with
  failed reads, as long as `reset_force` goes no higher than block 1
  (`ResetBlocks \subseteq {0, 1}`; a higher one skips what is below it by intent):
  `Above` is the argument of `NoGapInv` from block 1 on, kept until a store call fails.
  `RewritesNewest` needs nothing but `ResetBlocks = {}`, and holds with forks: rows are
  overwritten by blocks of another branch, but only at the newest number. Its invariant
  `InLine` says that the rows, the archiver's block, its queue and the number in
  circulation come in ascending order, and that nothing is pending while the Initializer
  asks for the newest row; that only one number circulates (`TokenUnique`) is what keeps
  a second one from falling behind.
- `ClientImportProofs`: `FinalizedIsCanonical` and `ParentsStored` from
  `ClientInv`, which adds that the chain's heads are stored and that the parent of a block
  past `PrepareBlock` is stored; and `ClientIsChainSource`, the refinement of
  `ChainSource`: an import is `Import`, finality is `SetHead` or a stutter, and all else
  is a stutter.
- `ClientNoticesProofs`, for any number of callers: `ClientTypes`; `RulesKept`, since a
  block past `CheckBlock` was admitted and its ancestors are stored; and three theorems
  on the two streams. `ClientSteps` sorts the steps of the client into those that
  commit, that notify and that do neither. A commit and its notification are two steps
  under one lock, so each invariant speaks of the queue, what the network has got and
  what the lock's holder is about to send: `OnceInv` (`AnnouncedAtMostOnce`: a
  notification about to be sent is of a block not announced yet), `FinalInv`
  (`FinalityInOrder`: what the network got, the queue and the pending finals ascend, none
  of them was dropped by a failed notice, and the last one is the finalized block unless
  that one was dropped) and `BestInv`
  (`BestIsAnnounced`). The last one assumes `Origins \subseteq {"broadcast"}`: a block of
  the initial sync that extends the best chain is not announced, by design.
- `ReadonlyBackendProofs`: `BlocksAreWhole`, `ReadsAreStable` and `BackendTypes`, for any tree of blocks and any number of failures.
  `BackendInv` says
  that the primary and the snapshot are closed under parents, that until a
  re-organisation the snapshot's chain is a prefix of the primary's, that the cache is
  right, and that what the executor holds was found in the snapshot and is still there.
  The snapshot moves only to the primary of the moment, so a block found by number is
  found again (`NumberedStable`).
- `WasmOverrideProofs`: `ScrapedExactly` and `RefusedWithCause` from `ScrapeInv`: what was
  read is in the map, and a blob that is not in it was overwritten by a duplicate.
- `RuntimeApiProofs`: `ApiTypes`, `Balanced`, `ChangesOfTheBlock`, `InitializedFirst` and
  `ClientOverridesExactly`, for any tasks, versions and directories. `ApiInv` lists the
  objects that a worker and a notifier can hold, with their exact frames and layers.
  `ChangesOfTheBlock` rests on the scan: the map of local runtimes is exact, so an
  override of the parent's version is code of that version. `WorkersMatch` bounds the
  finding of `override_race`: a call by hash never meets it.

Only model-checked: liveness under fairness, which is out of the prover's reach
(`EveryBlockArchived`, `EveryBlockRead`, `ImportingCleared`, `NetworkLearnsFinality`).
Every invariant, action property and refinement that a passing run checks is a theorem,
some of them under the assumptions on constants named above.

With forks, rows can mix two blocks and old rows stay on the abandoned branch; the code
has no rollback, and no property claims otherwise.

## Not modelled

- The runtime itself, consensus (BABE, GRANDPA), libp2p, RocksDB: libraries, present as
  nondeterminism.
- `revert`, `unsafe_revert`, import of final blocks, pruning: no caller.
- Table `finalized_block`, `update_spec`: no caller.
- Read-only queries of the client (storage, proofs, changes tries, uncles), and the RPC
  and light-client side of the call executor: they change no state, and nothing in the
  program calls them.
- The order in which start-up builds the parts (`builder.rs`, `service.rs`): straight-line
  code, in which a failure ends the process before any task runs. What it decides (which
  backend each task gets, the first number) is in `ArchivePipeline`.
- A refinement between the two models of the read-only strategy. `ArchivePipeline` lets
  the read-only chain move at any time, `ReadonlyBackend` only inside look-ups; that the
  first allows what the second does is argued here and not checked.
- Repeated Kafka messages: topics are sets, and a message that is sent again cannot be
  told from the first. That only the newest number is sent again is `OnlyNewestRewritten`.
- Parsing of configuration, chain specs, formatting and logging.
- Collisions of the 64-bit hash that keys the runtime version cache.

## Plan

Done: pipeline with stores and abstract archive; client, and its refinement of the chain
the pipeline assumes; read-only backend and version cache; runtime calls; proofs of every
safety property the runs check. Next, in this order:

1. Weaken assumptions of theorems where the code allows it: `NoLoss` in
   `ArchiveGapProofs` to "until a store call fails", as `GenesisOnly` has it.
2. A refinement between the two models of the read-only strategy, and topics as
   sequences, so that the repetition of messages can be bounded.
