----------------------------- MODULE MCRowPages -----------------------------
(* Every page, with two rows; a second visit finds calls of the first. *)
EXTENDS RowPages, TLC

Symmetry == Permutations(Rows) \cup Permutations(Slots)
=============================================================================
