---------------------------- MODULE MCCustomOps ----------------------------
(* Levels and lengths for model checking CustomOps: the longest message for *)
(* the buffer on the stack, the shortest that takes a buffer from the heap, *)
(* and one that does even if its NUL were forgotten.                        *)
EXTENDS CustomOps, TLC

Levels == 0..1
Lengths == {FormattingError, kStackBufferSize - 2, kStackBufferSize - 1, kStackBufferSize}

Symmetry == Permutations(Thread) \cup Permutations(Node)
=============================================================================
