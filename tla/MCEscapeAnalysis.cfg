CONSTANTS
  c1 = c1  c2 = c2
  Sites <- MCSites  Derived = {d1}  Ints = {i1}  Slots = {a1, a2}  Nothing = nothing
  MaxUses = 3
  Copies = FALSE
  Calls <- ManyCalls
SPECIFICATION Spec
INVARIANTS TypeOK ReleasesOnlyLocal ReleasesLocal ReleaseMatches
PROPERTY Decides
CHECK_DEADLOCK FALSE
