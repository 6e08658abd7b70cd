-------------------------- MODULE MCValueOwnership --------------------------
(* Small instances of ValueOwnership for TLC. *)
EXTENDS ValueOwnership, TLC

\* Addresses are interchangeable.
Symmetry == Permutations(Cells)
=============================================================================
