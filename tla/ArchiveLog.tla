------------------------------ MODULE ArchiveLog ------------------------------
(***************************************************************************)
(* What the archive promises its readers when no store fails: the blocks   *)
(* table holds the numbers 0, 1, ..., n without a gap, and the topic       *)
(* follows it one block behind at most.  A number appears in the table     *)
(* only when all before it have been published.                            *)
(***************************************************************************)
EXTENDS Integers

VARIABLES
    archived,    \* block numbers with a row in Postgres
    published    \* block numbers with a message in Kafka

Init == archived = {} /\ published = {}

(* The row of the next number is written. *)
Archive ==
    /\ published = archived
    /\ \E n \in archived' : /\ archived = 0..(n - 1)
                            /\ archived' = archived \cup {n}
    /\ UNCHANGED published

(* The newest row is published. *)
Publish ==
    /\ published # archived
    /\ published' = archived
    /\ UNCHANGED archived

Next == Archive \/ Publish

Spec == Init /\ [][Next]_<<archived, published>>
===============================================================================
