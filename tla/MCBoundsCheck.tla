--------------------------- MODULE MCBoundsCheck ---------------------------
\* Instances of BoundsCheck for TLC.
EXTENDS BoundsCheck, TLC

ThreadSymmetry == Permutations(Threads)
Choices == {{}, {"SHADOW", "AGGR"}}
OneOrTheOther == {{"malloc", "mmap"}, {"sbrk"}}
=============================================================================
