\* At -O0 a pointer reaches the return through a second variable.
CONSTANTS
  c1 = c1  c2 = c2
  Sites <- MCSites  Derived = {}  Ints = {}  Slots = {a1, a2}  Nothing = nothing
  MaxUses = 3
  Copies = TRUE
  Calls <- OneCall
SPECIFICATION Spec
INVARIANT ReleasesOnlyLocal
CHECK_DEADLOCK FALSE
