CONSTANTS
  Ptrs = {p1, p2, p3}
  Infos = {i1}
  None = None
  MinCapacity = 3
  Threads = {t1, t2, t3}
  Calls = {"alloc", "alloc_unused", "free", "autofree", "realloc", "realloc_in_place"}
  Serial = {"alloc_unused", "realloc"}
SYMMETRY Symmetry
SPECIFICATION Spec
INVARIANTS TypeOK OwnedAllocated OwnedUnpoisoned NoFalseDoubleFree LeakReportExact ReleasedPoisoned
