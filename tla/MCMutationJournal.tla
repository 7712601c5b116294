--------------------------- MODULE MCMutationJournal ---------------------------
(***************************************************************************)
(* MutationJournal for TLC: the texts the Agent writes are                 *)
(* interchangeable.                                                        *)
(***************************************************************************)
EXTENDS MutationJournal, TLC

TextSymmetry == Permutations(Text)
=============================================================================
