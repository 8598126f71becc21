--------------------------- MODULE MCAllocRuntime ---------------------------
(* AllocRuntime with interchangeable threads and addresses. *)
EXTENDS AllocRuntime, TLC

Symmetry == Permutations(Threads) \cup Permutations(Ptrs)
=============================================================================
