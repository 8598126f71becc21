CONSTANTS
  Ptrs = {p1, p2}
  Infos = {i1}
  None = None
  MinCapacity = 2
  Threads = {t1, t2}
  Calls = {"alloc", "free", "realloc"}
  Serial = {}
SPECIFICATION Spec
INVARIANT NoFalseDoubleFree
