------------------------------- MODULE MCChat -------------------------------
(***************************************************************************)
(* Small instances of ChatTurn for TLC.                                    *)
(***************************************************************************)
EXTENDS ChatTurn, TLC

\* questions, and readers, are interchangeable
Same == Permutations(Runs) \union Permutations(Tails)
=============================================================================
