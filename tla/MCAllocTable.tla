---------------------------- MODULE MCAllocTable ----------------------------
(* AllocTable with addresses that collide and whose paths wrap around. *)
EXTENDS AllocTable, TLC

MCPtrs == 0..2
\* Two addresses start at the last slot, so that their paths wrap around.
MCHash(p, n) == IF p < 2 THEN n - 1 ELSE p % n
InfoSymmetry == Permutations(Infos)
=============================================================================
