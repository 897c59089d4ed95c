---------------------------- MODULE MCIngestion ----------------------------
(***************************************************************************)
(* Small instances of Ingestion for TLC.                                   *)
(***************************************************************************)
EXTENDS Ingestion, TLC

\* every document has its own bytes
OwnContent == [d \in Docs |-> d]

\* slots and requests are interchangeable
Slots == Permutations(Workers) \union Permutations(Reqs)
=============================================================================
