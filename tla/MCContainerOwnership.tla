------------------------- MODULE MCContainerOwnership -------------------------
(* Small instances of ContainerOwnership for TLC. *)
EXTENDS ContainerOwnership, TLC

\* Addresses are interchangeable, and so are the lists and the structs.
Symmetry == Permutations(Cells) \cup Permutations(Tables)
              \cup Permutations(Lists) \cup Permutations(Structs)
=============================================================================
