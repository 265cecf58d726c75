------------------------------ MODULE ArchiveDb ------------------------------
(***************************************************************************)
(* The Postgres side of the archive (archive/postgres): the tables         *)
(* metadatas and blocks as partial functions from their primary key to a   *)
(* row, and the queries of PostgresDb as operators on them.  A database is *)
(* a record [blocks, metas].  An Option is a set of at most one element.   *)
(*                                                                         *)
(* The two INSERTs are upserts.  An insert of a block is refused by the    *)
(* foreign key blocks.spec_version -> metadatas, and for a block number    *)
(* with no child partition; the limit of the partitions is a parameter.    *)
(***************************************************************************)
EXTENDS Naturals

CONSTANT
    DbLimit        \* first block number without a partition (10,000,000)

ASSUME DbLimitAssumption == DbLimit \in Nat

(* The migrations create both tables empty. *)
EmptyDb == [blocks |-> [n \in {} |-> n], metas |-> [v \in {} |-> v]]

(* INSERT ... ON CONFLICT (key) DO UPDATE: every column is overwritten. *)
Upsert(table, key, row) ==
    [k \in DOMAIN table \cup {key} |-> IF k = key THEN row ELSE table[k]]

(* PostgresDb::check_if_metadata_exists *)
CheckIfMetadataExists_never(d, spec) == FALSE
CheckIfMetadataExists(d, spec) == spec \in DOMAIN d.metas

(* PostgresDb::max_block_num: SELECT MAX(block_num), None on an empty table. *)
MaxBlockNum(d) == {n \in DOMAIN d.blocks : \A k \in DOMAIN d.blocks : k <= n}

(* PostgresDb::insert of a MetadataModel *)
InsertMetadata_byNumber(d, spec, row) ==
    [d EXCEPT !.metas = Upsert(d.metas, row.num, row)]
InsertMetadata(d, spec, row) == [d EXCEPT !.metas = Upsert(d.metas, spec, row)]

(* The constraints of table blocks that an insert can run into: the foreign *)
(* key on the specification version, and the missing partition.             *)
BlockAccepted(d, row) ==
    /\ row.spec \in DOMAIN d.metas
    /\ row.num < DbLimit

(* PostgresDb::insert of a BlockModel *)
InsertBlock(d, row) == [d EXCEPT !.blocks = Upsert(d.blocks, row.num, row)]
==============================================================================
