------------------------------- MODULE Shadow -------------------------------
(***************************************************************************)
(* The shadow memory of src/runtime/ct_runtime_shadow.cpp: a byte for each *)
(* granule of 8 addresses, that says how many of them, from the first on,  *)
(* may be accessed.  It is kept in pages that are made when first written; *)
(* the table of pages (open addressing, no removal, growth up to a limit)  *)
(* is the set of the pages that exist.                                     *)
(***************************************************************************)
EXTENDS Integers, FiniteSets

CONSTANTS
  Granule,   \* 1 << CT_SHADOW_SHIFT
  PageSize,  \* CT_SHADOW_PAGE_SIZE
  MaxPages   \* 1 << CT_SHADOW_TABLE_MAX_BITS

ASSUME GranuleAssumption == Granule \in Nat \ {0}
ASSUME PageAssumption == PageSize \in Nat \ {0} /\ MaxPages \in Nat

\* The values of a byte: 0, all; 1 and more, so many; 0xFF, none.
Poisoned == Granule
Bytes == 0..Granule

Index(a) == a \div Granule
Page(i) == i \div PageSize
RoundUp(a) == ((a + Granule - 1) \div Granule) * Granule

\* A shadow maps the indexes of the pages that exist to their bytes.
EmptyShadow == [i \in {} |-> Poisoned]
PagesOf(S) == {Page(i) : i \in S}
IndexesOf(P) == UNION {p * PageSize .. (p + 1) * PageSize - 1 : p \in P}

\* ct_shadow_get_byte_locked: no page, no access.
Byte(sh, i) == IF i \in DOMAIN sh THEN sh[i] ELSE Poisoned

\* The pages that a write to the indexes S finds or makes.  A write to a page for
\* which there is no room is dropped.
PagesFor(sh, S) ==
  LET old == PagesOf(DOMAIN sh)
      new == PagesOf(S) \ old
  IN IF Cardinality(old \cup new) <= MaxPages THEN {old \cup new}
     ELSE {old \cup made : made \in {m \in SUBSET new : Cardinality(old \cup m) = MaxPages}}

\* The shadows that writing the bytes f may lead to.
Written(sh, f) ==
  {[i \in IndexesOf(P) |-> IF i \in DOMAIN f THEN f[i] ELSE Byte(sh, i)] : P \in PagesFor(sh, DOMAIN f)}

\* ct_shadow_poison_range: every granule that the range touches.
PoisonBytes(start, size) ==
  [i \in IF size = 0 THEN {} ELSE Index(start)..Index(start + size - 1) |-> Poisoned]

\* (a faulty UnpoisonBytes: the rest of the last granule is accessible as well)
UnpoisonBytesWhole(start, size) ==
  [i \in Index(start)..(Index(start) + (size + Granule - 1) \div Granule - 1) |-> 0]

\* (a faulty UnpoisonBytes: the last granule is given the whole size)
UnpoisonBytesTail(start, size) ==
  LET first == Index(start)
      full == size \div Granule
      tail == size % Granule
  IN [i \in first..(first + full - (IF tail = 0 THEN 1 ELSE 0)) |->
        IF i < first + full THEN 0 ELSE size]

\* ct_shadow_unpoison_range counts granules from the one of start.
UnpoisonBytes(start, size) ==
  LET first == Index(start)
      full == size \div Granule
      tail == size % Granule
  IN [i \in first..(first + full - (IF tail = 0 THEN 1 ELSE 0)) |->
        IF i < first + full THEN 0 ELSE tail]

\* ct_shadow_track_alloc: the bytes asked for may be accessed, whole granules after
\* them up to the real size may not.
TrackBytes(start, req, real) ==
  LET un == UnpoisonBytes(start, req)
      rest == RoundUp(start + req)
      po == PoisonBytes(rest, IF rest < start + real THEN start + real - rest ELSE 0)
  IN [i \in DOMAIN un \cup DOMAIN po |-> IF i \in DOMAIN po THEN po[i] ELSE un[i]]

\* ct_shadow_check_access compares, in each granule, the end of the access with
\* the end of what may be accessed.
OutOfBounds(sh, ptr, size) ==
  \E i \in Index(ptr)..Index(ptr + size - 1) :
    LET block == i * Granule
        end == IF ptr + size < block + Granule THEN ptr + size ELSE block + Granule
    IN Byte(sh, i) # 0 /\ (Byte(sh, i) = Poisoned \/ end > block + Byte(sh, i))

\* What the byte of a's granule says of a.
Accessible(sh, a) ==
  LET v == Byte(sh, Index(a)) IN v = 0 \/ (v # Poisoned /\ a % Granule < v)
=============================================================================
