CONSTANTS
  Ptrs = {p1, p2}
  Infos = {i1}
  None = None
  MinCapacity = 1
  Threads = {t1, t2}
  Calls = {"alloc", "free", "autofree", "realloc_in_place"}
  Serial = {}
SPECIFICATION FairSpec
INVARIANT NoFalseDoubleFree
PROPERTY FreeReleases
