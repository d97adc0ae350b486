------------------------- MODULE MCMemoryAllocations -------------------------
(* Small instances of MemoryAllocations, and of the OrtHandles in it.       *)
(* Pointers are interchangeable, and so are slots, blocks and variables: no *)
(* property names one of them.                                              *)
EXTENDS MemoryAllocations, TLC

Symmetry == Permutations(Ptr) \cup Permutations(Slot)
              \cup Permutations(Block) \cup Permutations(Var)
=============================================================================
