-------------------------- MODULE AllocTableProofs --------------------------
(***************************************************************************)
(* Proofs about AllocTable, for every set of addresses and records, every  *)
(* hash function and every initial and largest size.                       *)
(***************************************************************************)
EXTENDS AllocTable, FiniteSetTheorems, WellFoundedInduction, TLAPS

-----------------------------------------------------------------------------
(* Arithmetic of the probing sequence                                      *)

\* Every nonempty set of naturals has a least element.
LEMMA LeastNatural ==
  ASSUME NEW T \in SUBSET Nat, T # {}
  PROVE  \E m \in T : \A k \in T : m <= k
<1> DEFINE R == OpToRel(<, Nat)
<1>1. IsWellFoundedOn(R, Nat)
  BY NatLessThanWellFounded
<1>2. \E x \in T : \A y \in T : <<y, x>> \notin R
  <2> HIDE DEF R
  <2> QED BY <1>1, WFMin
<1>3. PICK m \in T : \A y \in T : <<y, m>> \notin R
  BY <1>2
<1>4. ASSUME NEW k \in T PROVE m <= k
  <2>1. ~ (k < m)
    BY <1>3 DEF OpToRel
  <2> QED BY <2>1
<1> QED BY <1>3, <1>4

LEMMA SizesPositive == Sizes \subseteq Nat \ {0}
BY SizeAssumption DEF Sizes

\* A growth starts below MaxSize, so it ends at one of the sizes.
LEMMA DoubledSize ==
  ASSUME NEW n \in Sizes, n < MaxSize
  PROVE  2 * n \in Sizes
BY SizeAssumption, SizesPositive DEF Sizes

\* The probing sequence of a pointer stays in the table.
LEMMA ProbeInTable ==
  ASSUME NEW p \in Ptrs, NEW n \in Sizes, NEW k \in 0..n-1
  PROVE  Probe(p, k, n) \in 0..n-1
<1>1. Hash(p, n) \in 0..n-1
  BY HashAssumption
<1> QED BY <1>1, SizesPositive DEF Probe

\* Distance says at which turn of the loop a slot is probed...
LEMMA ProbeOfDistance ==
  ASSUME NEW p \in Ptrs, NEW n \in Sizes, NEW s \in 0..n-1
  PROVE  Distance(p, s, n) \in 0..n-1 /\ Probe(p, Distance(p, s, n), n) = s
<1>1. Hash(p, n) \in 0..n-1
  BY HashAssumption
<1> QED BY <1>1, SizesPositive DEF Probe, Distance

\* ... and each slot is probed at one turn only.
LEMMA DistanceOfProbe ==
  ASSUME NEW p \in Ptrs, NEW n \in Sizes, NEW k \in 0..n-1
  PROVE  Distance(p, Probe(p, k, n), n) = k
<1>1. Hash(p, n) \in 0..n-1
  BY HashAssumption
<1> QED BY <1>1, SizesPositive DEF Probe, Distance

-----------------------------------------------------------------------------
(* What the three searches of the code return                              *)

\* Where an insertion writes: every slot probed before is in use.
LEMMA FreeSlot ==
  ASSUME NEW t, NEW n \in Sizes, NEW p \in Ptrs, NEW s \in FirstFree(t, n, p)
  PROVE  /\ s \in 0..n-1
         /\ t[s].state # "USED"
         /\ \A j \in 0..Distance(p, s, n)-1 : t[Probe(p, j, n)].state = "USED"
<1>1. PICK k \in 0..n-1 : /\ s = Probe(p, k, n)
                          /\ t[Probe(p, k, n)].state # "USED"
                          /\ \A j \in 0..k-1 : t[Probe(p, j, n)].state = "USED"
  BY DEF FirstFree
<1>2. Distance(p, s, n) = k
  BY <1>1, DistanceOfProbe
<1> QED BY <1>1, <1>2, ProbeInTable

\* Where the copying loop writes.
LEMMA EmptySlot ==
  ASSUME NEW t, NEW n \in Sizes, NEW p \in Ptrs, NEW s \in FirstEmpty(t, n, p)
  PROVE  /\ s \in 0..n-1
         /\ t[s].state = "EMPTY"
         /\ Reaches(t, n, p, Distance(p, s, n))
<1>1. PICK k \in 0..n-1 : /\ s = Probe(p, k, n)
                          /\ t[Probe(p, k, n)].state = "EMPTY"
                          /\ Reaches(t, n, p, k)
  BY DEF FirstEmpty
<1>2. Distance(p, s, n) = k
  BY <1>1, DistanceOfProbe
<1> QED BY <1>1, <1>2, ProbeInTable

\* What a lookup or a release finds holds the pointer it was called with.
LEMMA MatchedSlot ==
  ASSUME NEW t, NEW n \in Sizes, NEW p \in Ptrs, NEW states,
         NEW s \in FirstMatch(t, n, p, states)
  PROVE  s \in 0..n-1 /\ Holds(t[s], p, states)
<1>1. PICK k \in 0..n-1 : s = Probe(p, k, n) /\ Holds(t[Probe(p, k, n)], p, states)
  BY DEF FirstMatch
<1> QED BY <1>1, ProbeInTable

\* An insertion that finds no reusable slot has seen only slots in use.
LEMMA NoFreeSlot ==
  ASSUME NEW t, NEW n \in Sizes, NEW p \in Ptrs, FirstFree(t, n, p) = {}
  PROVE  \A s \in 0..n-1 : t[s].state = "USED"
<1> SUFFICES ASSUME NEW s \in 0..n-1, t[s].state # "USED"
             PROVE  FALSE
  OBVIOUS
<1> DEFINE T == {k \in 0..n-1 : t[Probe(p, k, n)].state # "USED"}
<1>1. Distance(p, s, n) \in T
  BY ProbeOfDistance
<1>2. T \in SUBSET Nat /\ T # {}
  BY <1>1, SizesPositive
<1>3. PICK m \in T : \A k \in T : m <= k
  <2> HIDE DEF T
  <2> QED BY <1>2, LeastNatural
<1>4. \A j \in 0..m-1 : t[Probe(p, j, n)].state = "USED"
  <2> SUFFICES ASSUME NEW j \in 0..m-1, j \notin T
               PROVE  t[Probe(p, j, n)].state = "USED"
    BY <1>3, SizesPositive
  <2> QED BY SizesPositive
<1>5. Probe(p, m, n) \in FirstFree(t, n, p)
  BY <1>3, <1>4 DEF FirstFree
<1> QED BY <1>5

\* A table with an EMPTY slot has room for a copied record.
LEMMA EmptyReachable ==
  ASSUME NEW t, NEW n \in Sizes, NEW p \in Ptrs, NEW s \in 0..n-1, t[s].state = "EMPTY"
  PROVE  FirstEmpty(t, n, p) # {}
<1> DEFINE T == {k \in 0..n-1 : t[Probe(p, k, n)].state = "EMPTY"}
<1>1. Distance(p, s, n) \in T
  BY ProbeOfDistance
<1>2. T \in SUBSET Nat /\ T # {}
  BY <1>1, SizesPositive
<1>3. PICK m \in T : \A k \in T : m <= k
  <2> HIDE DEF T
  <2> QED BY <1>2, LeastNatural
<1>4. Reaches(t, n, p, m)
  <2> SUFFICES ASSUME NEW j \in 0..m-1, j \notin T
               PROVE  t[Probe(p, j, n)].state # "EMPTY"
    BY <1>3, SizesPositive DEF Reaches
  <2> QED BY SizesPositive
<1>5. Probe(p, m, n) \in FirstEmpty(t, n, p)
  BY <1>3, <1>4 DEF FirstEmpty
<1> QED BY <1>5

\* A search that fails to find p in one of these states proves there is no
\* such record: the paths are unbroken, so it cannot have stopped too early.
LEMMA NotMatched ==
  ASSUME NEW t, NEW n \in Sizes, NEW p \in Ptrs, NEW states,
         "EMPTY" \notin states,
         PathsUnbroken(t, n), FirstMatch(t, n, p, states) = {}
  PROVE  \A s \in 0..n-1 : ~ Holds(t[s], p, states)
<1> SUFFICES ASSUME NEW s \in 0..n-1, Holds(t[s], p, states)
             PROVE  FALSE
  OBVIOUS
<1> DEFINE T == {k \in 0..n-1 : Holds(t[Probe(p, k, n)], p, states)}
<1>1. Distance(p, s, n) \in T
  BY ProbeOfDistance
<1>2. T \in SUBSET Nat /\ T # {}
  BY <1>1, SizesPositive
<1>3. PICK m \in T : \A k \in T : m <= k
  <2> HIDE DEF T
  <2> QED BY <1>2, LeastNatural
<1>4. \A j \in 0..m-1 : ~ Holds(t[Probe(p, j, n)], p, states)
  <2> SUFFICES ASSUME NEW j \in 0..m-1, j \notin T
               PROVE  ~ Holds(t[Probe(p, j, n)], p, states)
    BY <1>3, SizesPositive
  <2> QED BY SizesPositive
<1>5. Reaches(t, n, p, m)
  <2>1. Probe(p, m, n) \in 0..n-1 /\ Distance(p, Probe(p, m, n), n) = m
    BY ProbeInTable, DistanceOfProbe
  <2>2. t[Probe(p, m, n)].ptr = p /\ t[Probe(p, m, n)].state # "EMPTY"
    BY DEF Holds
  <2> QED BY <2>1, <2>2 DEF PathsUnbroken
<1>6. Probe(p, m, n) \in FirstMatch(t, n, p, states)
  BY <1>3, <1>4, <1>5 DEF FirstMatch
<1> QED BY <1>6

-----------------------------------------------------------------------------
(* What keeps the paths unbroken and the live records first                *)

\* Releasing records, without moving any, does.
LEMMA ReleaseKeepsPaths ==
  ASSUME NEW n \in Sizes, NEW t, NEW u,
         PathsUnbroken(t, n), LiveFirst(t, n),
         \A s \in 0..n-1 :
           /\ u[s].ptr = t[s].ptr
           /\ \/ u[s].state = t[s].state
              \/ t[s].state = "USED" /\ u[s].state \in {"FREED", "AUTOFREED"}
  PROVE  PathsUnbroken(u, n) /\ LiveFirst(u, n)
<1>1. \A s \in 0..n-1 : (u[s].state = "EMPTY") <=> (t[s].state = "EMPTY")
  OBVIOUS
<1>2. PathsUnbroken(u, n)
  <2> SUFFICES ASSUME NEW s \in 0..n-1, u[s].state # "EMPTY"
               PROVE  u[s].ptr \in Ptrs /\ Reaches(u, n, u[s].ptr, Distance(u[s].ptr, s, n))
    BY DEF PathsUnbroken
  <2>1. t[s].ptr \in Ptrs /\ Reaches(t, n, t[s].ptr, Distance(t[s].ptr, s, n))
    BY <1>1 DEF PathsUnbroken
  <2>2. Distance(t[s].ptr, s, n) \in 0..n-1
    BY <2>1, ProbeOfDistance
  <2>3. \A j \in 0..Distance(t[s].ptr, s, n)-1 : Probe(t[s].ptr, j, n) \in 0..n-1
    BY <2>1, <2>2, ProbeInTable, SizesPositive
  <2> QED BY <1>1, <2>1, <2>3 DEF Reaches
<1>3. LiveFirst(u, n)
  <2> SUFFICES ASSUME NEW s \in 0..n-1, NEW r \in 0..n-1, s # r,
                      u[s].state = "USED", u[r].state \in Tracked, u[r].ptr = u[s].ptr
               PROVE  u[r].state # "USED" /\ Distance(u[r].ptr, s, n) < Distance(u[r].ptr, r, n)
    BY DEF LiveFirst
  <2>1. t[s].state = "USED" /\ t[r].state \in Tracked /\ t[r].ptr = t[s].ptr
    BY DEF Tracked
  <2>2. t[r].state # "USED" /\ Distance(t[r].ptr, s, n) < Distance(t[r].ptr, r, n)
    BY <2>1 DEF LiveFirst
  <2> QED BY <2>2
<1> QED BY <1>2, <1>3

\* Writing a live record in a slot its path reaches does, when every other
\* record of the same pointer is a stale one, further on the path.
LEMMA PlacingKeepsPaths ==
  ASSUME NEW n \in Sizes, NEW t, TableOf(t, n),
         PathsUnbroken(t, n), LiveFirst(t, n),
         NEW e \in Entry, e.state = "USED", e.ptr \in Ptrs,
         NEW s \in 0..n-1, Reaches(t, n, e.ptr, Distance(e.ptr, s, n)),
         \A r \in 0..n-1 : r # s /\ Holds(t[r], e.ptr, Tracked) =>
           t[r].state # "USED" /\ Distance(e.ptr, s, n) < Distance(e.ptr, r, n)
  PROVE  LET u == [t EXCEPT ![s] = e]
         IN  PathsUnbroken(u, n) /\ LiveFirst(u, n)
<1> DEFINE u == [t EXCEPT ![s] = e]
<1>1. u[s] = e /\ \A r \in 0..n-1 : r # s => u[r] = t[r]
  BY DEF TableOf
<1>2. \A p \in Ptrs, k \in 0..n-1 : Reaches(t, n, p, k) => Reaches(u, n, p, k)
  <2> SUFFICES ASSUME NEW p \in Ptrs, NEW k \in 0..n-1, Reaches(t, n, p, k),
                      NEW j \in 0..k-1
               PROVE  u[Probe(p, j, n)].state # "EMPTY"
    BY DEF Reaches
  <2>1. Probe(p, j, n) \in 0..n-1
    BY ProbeInTable, SizesPositive
  <2>2. t[Probe(p, j, n)].state # "EMPTY"
    BY DEF Reaches
  <2> QED BY <1>1, <2>1, <2>2
<1>3. PathsUnbroken(u, n)
  <2> SUFFICES ASSUME NEW r \in 0..n-1, u[r].state # "EMPTY"
               PROVE  u[r].ptr \in Ptrs /\ Reaches(u, n, u[r].ptr, Distance(u[r].ptr, r, n))
    BY DEF PathsUnbroken
  <2>1. u[r].ptr \in Ptrs /\ Reaches(t, n, u[r].ptr, Distance(u[r].ptr, r, n))
    BY <1>1 DEF PathsUnbroken
  <2> HIDE DEF u
  <2> QED BY <1>2, <2>1, ProbeOfDistance
<1>4. LiveFirst(u, n)
  <2> SUFFICES ASSUME NEW x \in 0..n-1, NEW r \in 0..n-1, x # r,
                      u[x].state = "USED", u[r].state \in Tracked, u[r].ptr = u[x].ptr
               PROVE  u[r].state # "USED" /\ Distance(u[r].ptr, x, n) < Distance(u[r].ptr, r, n)
    BY DEF LiveFirst
  <2>1. CASE x = s
    BY <1>1, <2>1 DEF Holds
  <2>2. CASE r = s
    <3>1. t[x].state = "USED" /\ t[x].ptr = e.ptr
      BY <1>1, <2>2
    <3> QED BY <2>2, <3>1 DEF Holds, Tracked
  <2>3. CASE x # s /\ r # s
    BY <1>1, <2>3 DEF LiveFirst
  <2> QED BY <2>1, <2>2, <2>3
<1> QED BY <1>3, <1>4

-----------------------------------------------------------------------------
(* The type invariant                                                      *)

LEMMA UsedSlotsFinite ==
  ASSUME NEW n \in Sizes, NEW t, TableOf(t, n)
  PROVE  /\ UsedSlots(t) \subseteq 0..n-1
         /\ IsFiniteSet(UsedSlots(t))
         /\ Cardinality(UsedSlots(t)) \in Nat
<1>1. UsedSlots(t) \subseteq 0..n-1
  BY DEF UsedSlots, TableOf
<1>2. IsFiniteSet(0..n-1)
  BY FS_Interval, SizesPositive
<1> QED BY <1>1, <1>2, FS_Subset, FS_CardinalityType

LEMMA InitTypeOK == Init => TypeOK
<1> SUFFICES ASSUME Init PROVE TypeOK
  OBVIOUS
<1>1. size \in Sizes /\ cursor \in 0..size
  BY SizeAssumption DEF Init, Sizes
<1>2. TableOf(table, size)
  BY DEF Init, TableOf, EmptyTable, Entry, EmptyEntry, States
<1> QED BY <1>1, <1>2 DEF Init, TypeOK, Reply, TableCalls, States

\* What an insertion leaves when it writes the record of p at slot s.
LEMMA UsedEntryType ==
  ASSUME NEW p \in Ptrs, NEW i \in Infos
  PROVE  UsedEntry(p, i) \in Entry /\ UsedEntry(p, i).ptr = p
         /\ UsedEntry(p, i).state = "USED" /\ UsedEntry(p, i).info = i
BY DEF UsedEntry, Entry, States

LEMMA NextTypeOK == TypeOK /\ [Next]_vars => TypeOK'
<1> SUFFICES ASSUME TypeOK, [Next]_vars PROVE TypeOK'
  OBVIOUS
<1> USE DEF TypeOK
<1>a. 2 * size \in Nat /\ size \in Nat
  BY SizesPositive
<1>b. ASSUME NEW p \in Ptrs, NEW i \in Infos, NEW s,
             table' = [table EXCEPT ![s] = UsedEntry(p, i)], count' \in Nat, FinishInsert(1)
      PROVE  TypeOK'
  <2>1. TableOf(table', size)
    BY <1>b, UsedEntryType DEF TableOf
  <2>2. reply' \in [call : TableCalls, res : {-2, -1, 0, 1}, state : States, info : Infos \cup {None}]
    BY <1>b DEF FinishInsert, Reply, TableCalls, States
  <2> QED BY <1>b, <2>1, <2>2 DEF FinishInsert, growthVars
<1>1. ASSUME NEW p \in Ptrs, NEW i \in Infos, InsertUpdate(p, i)
      PROVE  TypeOK'
  BY <1>1, <1>b DEF InsertUpdate
<1>2. ASSUME NEW p \in Ptrs, NEW i \in Infos, InsertPlace(p, i)
      PROVE  TypeOK'
  <2>1. count' \in Nat /\ FinishInsert(1)
    BY <1>2 DEF InsertPlace
  <2>2. \E s : table' = [table EXCEPT ![s] = UsedEntry(p, i)]
    BY <1>2 DEF InsertPlace
  <2> QED BY <2>1, <2>2, <1>b
<1>3. ASSUME NEW p \in Ptrs, InsertRefuse(p)
      PROVE  TypeOK'
  BY <1>3 DEF InsertRefuse, FinishInsert, growthVars, Reply, TableCalls, States, TableOf
<1>4. ASSUME NEW p \in Ptrs, NEW i \in Infos, GrowStart(p, i)
      PROVE  TypeOK'
  <2>1. TableOf(EmptyTable(2 * size), 2 * size)
    BY DEF TableOf, EmptyTable, Entry, EmptyEntry, States
  <2> QED BY <1>4, <1>a, <2>1 DEF GrowStart
<1>5. ASSUME RehashEntry
      PROVE  TypeOK'
  <2>1. table[cursor] \in Entry
    BY <1>5, <1>a DEF RehashEntry, TableOf
  <2>2. TableOf(newTable', 2 * size)
    <3>1. TableOf(newTable, 2 * size)
      BY <1>5 DEF RehashEntry
    <3>2. newTable' = newTable \/ \E s : newTable' = [newTable EXCEPT ![s] = table[cursor]]
      BY <1>5 DEF RehashEntry
    <3> QED BY <2>1, <3>1, <3>2 DEF TableOf
  <2>3. cursor' \in 0..size /\ newCount' \in Nat
    BY <1>5, <1>a DEF RehashEntry
  <2> QED BY <1>5, <2>2, <2>3 DEF RehashEntry
<1>6. ASSUME GrowSwap
      PROVE  TypeOK'
  <2>1. 2 * size \in Sizes /\ TableOf(newTable, 2 * size)
    BY <1>6, DoubledSize DEF GrowSwap, SwapTables
  <2> QED BY <1>6, <1>a, <2>1 DEF GrowSwap, SwapTables
<1>7. ASSUME NEW call \in TableCalls, NEW p \in Ptrs, NEW released \in {"FREED", "AUTOFREED"},
             NEW autoReply \in {-2, -1}, RemoveAs(call, p, released, autoReply)
      PROVE  TypeOK'
  <2>1. \A s \in FirstMatch(table, size, p, Tracked) : s \in 0..size-1 /\ table[s] \in Entry
    BY MatchedSlot DEF TableOf
  <2>2. TableOf(table', size)
    BY <1>7, <2>1 DEF RemoveAs, TableOf, Entry, States
  <2>3. count' \in Nat
    BY <1>7 DEF RemoveAs, Decremented
  <2>4. reply' \in [call : TableCalls, res : {-2, -1, 0, 1}, state : States, info : Infos \cup {None}]
    BY <1>7, <2>1 DEF RemoveAs, Reply, TableCalls, States, Entry
  <2> QED BY <1>7, <2>2, <2>3, <2>4 DEF RemoveAs, growthVars
<1>8. ASSUME NEW p \in Ptrs, Lookup(p)
      PROVE  TypeOK'
  <2>1. \A s \in FirstMatch(table, size, p, Tracked) : table[s] \in Entry
    BY MatchedSlot DEF TableOf
  <2>2. reply' \in [call : TableCalls, res : {-2, -1, 0, 1}, state : States, info : Infos \cup {None}]
    BY <1>8, <2>1 DEF Lookup, Reply, TableCalls, States, Entry
  <2> QED BY <1>8, <2>2 DEF Lookup, growthVars
<1>9. ASSUME NEW S \in SUBSET UsedSlots(table), CollectUnmarked(S)
      PROVE  TypeOK'
  <2>1. TableOf(table', size)
    BY <1>9 DEF CollectUnmarked, TableOf, Entry, States
  <2>2. Cardinality(S) \in Nat
    BY UsedSlotsFinite, FS_Subset, FS_CardinalityType
  <2>3. count' \in Nat
    BY <1>9, <2>2 DEF CollectUnmarked
  <2> QED BY <1>9, <2>1, <2>3 DEF CollectUnmarked, growthVars
<1>10. CASE UNCHANGED vars
  BY <1>10 DEF vars, TableOf
<1> QED
  BY <1>1, <1>2, <1>3, <1>4, <1>5, <1>6, <1>7, <1>8, <1>9, <1>10
  DEF Next, Growth, Remove, RemoveAutofree, TableCalls

\* Whatever the program and the runtime call, slots hold records of one shape,
\* the table has one of the sizes that doubling gives, and a growth is always
\* of a table that may still grow (ct_alloc_grow_locked).
THEOREM TypeCorrect == Spec => []TypeOK
<1>1. Init => TypeOK
  BY InitTypeOK
<1>2. TypeOK /\ [Next]_vars => TypeOK'
  BY NextTypeOK
<1> QED BY <1>1, <1>2, PTL DEF Spec

-----------------------------------------------------------------------------
(* The inductive invariant.  PathsOK is not inductive alone: what keeps it *)
(* through a growth is that the copied table has no stale record, and that *)
(* its copy, half made, satisfies it too.                                  *)

IInv == TypeOK /\ PathsOK /\ GrowsOnlyWhenFull /\ CopyOK /\ CountExact

LEMMA EmptyTableOK ==
  ASSUME NEW n \in Sizes
  PROVE  /\ PathsUnbroken(EmptyTable(n), n)
         /\ LiveFirst(EmptyTable(n), n)
         /\ UsedSlots(EmptyTable(n)) = {}
         /\ Cardinality(UsedSlots(EmptyTable(n))) = 0
<1>1. \A s \in 0..n-1 : EmptyTable(n)[s].state = "EMPTY"
  BY DEF EmptyTable, EmptyEntry
<1>2. DOMAIN EmptyTable(n) = 0..n-1
  BY DEF EmptyTable
<1>3. UsedSlots(EmptyTable(n)) = {}
  BY <1>1, <1>2 DEF UsedSlots
<1> QED BY <1>1, <1>3, FS_EmptySet DEF PathsUnbroken, LiveFirst

LEMMA InitIInv == Init => IInv
<1> SUFFICES ASSUME Init PROVE IInv
  OBVIOUS
<1>1. InitSize \in Sizes
  BY DEF Sizes
<1>2. PathsOK /\ CountExact
  BY <1>1, EmptyTableOK DEF Init, PathsOK, CountExact
<1> QED BY <1>2, InitTypeOK DEF IInv, Init, GrowsOnlyWhenFull, CopyOK

\* The two ways an insertion writes a record.
LEMMA InsertSlot ==
  ASSUME TypeOK, PathsOK, NEW p \in Ptrs, NEW i \in Infos,
         InsertUpdate(p, i) \/ InsertPlace(p, i)
  PROVE  \E s \in 0..size-1 :
           /\ table' = [table EXCEPT ![s] = UsedEntry(p, i)]
           /\ table[s].state = "USED" <=> InsertUpdate(p, i)
           /\ table[s].state = "USED" => table[s].ptr = p
           /\ Reaches(table, size, p, Distance(p, s, size))
           /\ \A r \in 0..size-1 : r # s /\ Holds(table[r], p, Tracked) =>
                table[r].state # "USED" /\ Distance(p, s, size) < Distance(p, r, size)
<1> USE DEF TypeOK, PathsOK
<1>1. CASE InsertUpdate(p, i)
  <2>1. PICK s \in FirstMatch(table, size, p, {"USED"}) :
               table' = [table EXCEPT ![s] = UsedEntry(p, i)]
    BY <1>1 DEF InsertUpdate
  <2>2. s \in 0..size-1 /\ table[s].ptr = p /\ table[s].state = "USED"
    BY <2>1, MatchedSlot DEF Holds
  <2>3. Reaches(table, size, p, Distance(p, s, size))
    BY <2>2 DEF PathsUnbroken
  <2>4. \A r \in 0..size-1 : r # s /\ Holds(table[r], p, Tracked) =>
          table[r].state # "USED" /\ Distance(p, s, size) < Distance(p, r, size)
    BY <2>2 DEF LiveFirst, Holds
  <2> QED BY <1>1, <2>1, <2>2, <2>3, <2>4
<1>2. CASE InsertPlace(p, i)
  <2>1. PICK s \in FirstFree(table, size, p) :
               table' = [table EXCEPT ![s] = UsedEntry(p, i)]
    BY <1>2 DEF InsertPlace
  <2>2. /\ s \in 0..size-1
        /\ table[s].state # "USED"
        /\ \A j \in 0..Distance(p, s, size)-1 : table[Probe(p, j, size)].state = "USED"
    BY <2>1, FreeSlot
  <2>3. Reaches(table, size, p, Distance(p, s, size))
    BY <2>2 DEF Reaches
  <2>4. \A r \in 0..size-1 : ~ Holds(table[r], p, {"USED"})
    BY <1>2, NotMatched DEF InsertPlace
  <2>5. ASSUME NEW r \in 0..size-1, r # s, Holds(table[r], p, Tracked)
        PROVE  table[r].state # "USED" /\ Distance(p, s, size) < Distance(p, r, size)
    <3>1. table[r].state # "USED"
      BY <2>4, <2>5 DEF Holds
    <3>2. /\ Distance(p, r, size) \in 0..size-1 /\ Probe(p, Distance(p, r, size), size) = r
          /\ Distance(p, s, size) \in 0..size-1 /\ Probe(p, Distance(p, s, size), size) = s
      BY <2>2, ProbeOfDistance
    <3>3. Distance(p, r, size) # Distance(p, s, size)
      BY <2>5, <3>2
    <3>4. ~ (Distance(p, r, size) < Distance(p, s, size))
      <4> SUFFICES ASSUME Distance(p, r, size) < Distance(p, s, size)
                   PROVE  table[Probe(p, Distance(p, r, size), size)].state = "USED"
        BY <3>1, <3>2
      <4>1. Distance(p, r, size) \in 0..Distance(p, s, size)-1
        BY <3>2, SizesPositive
      <4> QED BY <4>1, <2>2
    <3> QED BY <3>1, <3>2, <3>3, <3>4, SizesPositive
  <2>6. ~ InsertUpdate(p, i)
    BY <1>2 DEF InsertPlace, InsertUpdate
  <2> QED BY <2>1, <2>2, <2>3, <2>5, <2>6
<1> QED BY <1>1, <1>2

\* A release or a collection: slots only go from USED to a released state.
LEMMA OnlyReleases ==
  ASSUME TypeOK,
         \/ \E p \in Ptrs : Remove(p) \/ RemoveAutofree(p)
         \/ \E S \in SUBSET UsedSlots(table) : CollectUnmarked(S)
  PROVE  /\ size' = size /\ pc' = pc /\ pc = "idle"
         /\ \A s \in 0..size-1 :
              /\ table'[s].ptr = table[s].ptr
              /\ \/ table'[s].state = table[s].state
                 \/ table[s].state = "USED" /\ table'[s].state \in {"FREED", "AUTOFREED"}
<1> USE DEF TypeOK
<1>1. ASSUME NEW call \in TableCalls, NEW p \in Ptrs, NEW released \in {"FREED", "AUTOFREED"},
             NEW autoReply, RemoveAs(call, p, released, autoReply), NEW s \in 0..size-1
      PROVE  /\ table'[s].ptr = table[s].ptr
             /\ \/ table'[s].state = table[s].state
                \/ table[s].state = "USED" /\ table'[s].state \in {"FREED", "AUTOFREED"}
  <2>1. \A r \in FirstMatch(table, size, p, Tracked) : r \in 0..size-1
    BY MatchedSlot
  <2>2. \/ table' = table
        \/ \E r \in 0..size-1 : table[r].state = "USED" /\ table' = [table EXCEPT ![r].state = released]
    BY <1>1, <2>1 DEF RemoveAs
  <2>3. CASE table' = table
    BY <2>3
  <2>4. ASSUME NEW r \in 0..size-1, table[r].state = "USED",
               table' = [table EXCEPT ![r].state = released]
        PROVE  /\ table'[s].ptr = table[s].ptr
               /\ s # r => table'[s] = table[s]
               /\ s = r => table'[s].state = released
    <3>1. table'[s] = IF s = r THEN [table[r] EXCEPT !.state = released] ELSE table[s]
      BY <2>4 DEF TableOf
    <3>2. table[r] \in Entry
      BY DEF TableOf
    <3> QED BY <3>1, <3>2 DEF Entry
  <2> QED BY <2>2, <2>3, <2>4
<1>2. ASSUME NEW S \in SUBSET UsedSlots(table), CollectUnmarked(S), NEW s \in 0..size-1
      PROVE  /\ table'[s].ptr = table[s].ptr
             /\ \/ table'[s].state = table[s].state
                \/ table[s].state = "USED" /\ table'[s].state \in {"FREED", "AUTOFREED"}
  BY <1>2 DEF CollectUnmarked, UsedSlots, TableOf, Entry
<1>3. size' = size /\ pc' = pc /\ pc = "idle"
  BY DEF Remove, RemoveAutofree, RemoveAs, CollectUnmarked
<1> QED BY <1>1, <1>2, <1>3 DEF Remove, RemoveAutofree, TableCalls

LEMMA NextPathsOK == IInv /\ [Next]_vars => PathsOK'
<1> SUFFICES ASSUME IInv, [Next]_vars PROVE PathsOK'
  OBVIOUS
<1> USE DEF IInv, PathsOK
<1>0. size \in Sizes /\ TableOf(table, size)
  BY DEF TypeOK
<1>1. ASSUME NEW p \in Ptrs, NEW i \in Infos, InsertUpdate(p, i) \/ InsertPlace(p, i)
      PROVE  PathsOK'
  <2>1. PICK s \in 0..size-1 :
           /\ table' = [table EXCEPT ![s] = UsedEntry(p, i)]
           /\ Reaches(table, size, p, Distance(p, s, size))
           /\ \A r \in 0..size-1 : r # s /\ Holds(table[r], p, Tracked) =>
                table[r].state # "USED" /\ Distance(p, s, size) < Distance(p, r, size)
    BY <1>1, InsertSlot
  <2>2. size' = size
    BY <1>1 DEF InsertUpdate, InsertPlace, FinishInsert
  <2> DEFINE e == UsedEntry(p, i)
  <2>3. e \in Entry /\ e.state = "USED" /\ e.ptr = p
    BY UsedEntryType
  <2> HIDE DEF e
  <2>4. PathsUnbroken([table EXCEPT ![s] = e], size) /\ LiveFirst([table EXCEPT ![s] = e], size)
    BY <1>0, <2>1, <2>3, PlacingKeepsPaths
  <2> QED BY <2>1, <2>2, <2>4 DEF e
<1>2. ASSUME \/ \E p \in Ptrs : Remove(p) \/ RemoveAutofree(p)
             \/ \E S \in SUBSET UsedSlots(table) : CollectUnmarked(S)
      PROVE  PathsOK'
  BY <1>0, <1>2, OnlyReleases, ReleaseKeepsPaths
<1>3. ASSUME GrowSwap
      PROVE  PathsOK'
  BY <1>3 DEF GrowSwap, SwapTables, CopyOK
<1>4. ASSUME UNCHANGED <<table, size>>
      PROVE  PathsOK'
  BY <1>4
<1>5. ASSUME \/ \E p \in Ptrs : InsertRefuse(p) \/ Lookup(p) \/ \E i \in Infos : GrowStart(p, i)
             \/ RehashEntry
             \/ UNCHANGED vars
      PROVE  UNCHANGED <<table, size>>
  BY <1>5 DEF InsertRefuse, FinishInsert, Lookup, GrowStart, RehashEntry, vars
<1> QED BY <1>1, <1>2, <1>3, <1>4, <1>5 DEF Next, Growth

LEMMA NextGrowsOnlyWhenFull ==
  TypeOK /\ GrowsOnlyWhenFull /\ [Next]_vars => GrowsOnlyWhenFull'
<1> SUFFICES ASSUME TypeOK, GrowsOnlyWhenFull, [Next]_vars, pc' = "rehash"
             PROVE  \A s \in 0..size'-1 : table'[s].state = "USED"
  BY DEF GrowsOnlyWhenFull
<1>1. ASSUME NEW p \in Ptrs, NEW i \in Infos, GrowStart(p, i)
      PROVE  \A s \in 0..size'-1 : table'[s].state = "USED"
  BY <1>1, NoFreeSlot DEF GrowStart, NoRoom, TypeOK
<1>2. CASE RehashEntry \/ UNCHANGED vars
  BY <1>2 DEF RehashEntry, vars, GrowsOnlyWhenFull
<1>3. ~ GrowSwap
  BY DEF GrowSwap, SwapTables
<1>4. ~ \E p \in Ptrs : \/ \E i \in Infos : InsertUpdate(p, i) \/ InsertPlace(p, i)
                        \/ InsertRefuse(p) \/ Lookup(p) \/ Remove(p) \/ RemoveAutofree(p)
  BY DEF InsertUpdate, InsertPlace, InsertRefuse, FinishInsert, Lookup, Remove,
         RemoveAutofree, RemoveAs
<1>5. ~ \E S \in SUBSET UsedSlots(table) : CollectUnmarked(S)
  BY DEF CollectUnmarked
<1> QED BY <1>1, <1>2, <1>3, <1>4, <1>5 DEF Next, Growth

LEMMA NextCountExact == IInv /\ [Next]_vars => CountExact'
<1> SUFFICES ASSUME IInv, [Next]_vars, pc' # "rehash"
             PROVE  count' = Cardinality(UsedSlots(table'))
  BY DEF CountExact
<1> USE DEF IInv
<1> DEFINE Used == UsedSlots(table)
<1>0. /\ size \in Sizes /\ TableOf(table, size) /\ DOMAIN table = 0..size-1
      /\ IsFiniteSet(Used) /\ Cardinality(Used) \in Nat
  BY UsedSlotsFinite DEF TypeOK, TableOf
<1>1. ASSUME NEW p \in Ptrs, NEW i \in Infos, InsertUpdate(p, i) \/ InsertPlace(p, i)
      PROVE  count' = Cardinality(UsedSlots(table'))
  <2>1. PICK s \in 0..size-1 :
           /\ table' = [table EXCEPT ![s] = UsedEntry(p, i)]
           /\ table[s].state = "USED" <=> InsertUpdate(p, i)
    BY <1>1, InsertSlot
  <2>2. UsedSlots(table') = Used \cup {s}
    <3>1. DOMAIN table' = DOMAIN table
      BY <2>1
    <3>2. table'[s].state = "USED" /\ \A r \in DOMAIN table : r # s => table'[r] = table[r]
      BY <1>0, <2>1, UsedEntryType
    <3> QED BY <1>0, <3>1, <3>2 DEF UsedSlots
  <2>3. s \in Used <=> InsertUpdate(p, i)
    BY <1>0, <2>1 DEF UsedSlots
  <2>4. count = Cardinality(Used)
    BY <1>1 DEF CountExact, InsertUpdate, InsertPlace, Attempts
  <2>5. Cardinality(Used \cup {s}) = IF s \in Used THEN Cardinality(Used) ELSE Cardinality(Used) + 1
    BY <1>0, FS_AddElement
  <2>6. CASE InsertUpdate(p, i)
    <3>1. count' = count
      BY <2>6 DEF InsertUpdate
    <3> QED BY <2>2, <2>3, <2>4, <2>5, <2>6, <3>1
  <2>7. CASE ~ InsertUpdate(p, i)
    <3>1. count' = count + 1
      BY <1>1, <2>7 DEF InsertPlace
    <3> QED BY <2>2, <2>3, <2>4, <2>5, <2>7, <3>1
  <2> QED BY <2>6, <2>7
<1>2. ASSUME NEW call \in TableCalls, NEW p \in Ptrs, NEW released \in {"FREED", "AUTOFREED"},
             NEW autoReply, RemoveAs(call, p, released, autoReply)
      PROVE  count' = Cardinality(UsedSlots(table'))
  <2>1. count = Cardinality(Used)
    BY <1>2 DEF CountExact, RemoveAs
  <2>2. CASE UNCHANGED <<table, count>>
    BY <2>1, <2>2
  <2>3. ASSUME NEW s \in FirstMatch(table, size, p, Tracked), table[s].state = "USED",
               table' = [table EXCEPT ![s].state = released], count' = Decremented
        PROVE  count' = Cardinality(UsedSlots(table'))
    <3>1. s \in Used
      BY <1>0, <2>3, MatchedSlot DEF UsedSlots
    <3>2. UsedSlots(table') = Used \ {s}
      <4>1. DOMAIN table' = DOMAIN table /\ s \in DOMAIN table
        BY <1>0, <2>3, <3>1 DEF UsedSlots
      <4>2. \A r \in DOMAIN table : table'[r] = IF r = s THEN [table[s] EXCEPT !.state = released]
                                                ELSE table[r]
        BY <2>3
      <4>3. table'[s].state = released
        BY <1>0, <4>1, <4>2 DEF TableOf, Entry
      <4> QED BY <4>1, <4>2, <4>3 DEF UsedSlots
    <3>3. Cardinality(Used \ {s}) = Cardinality(Used) - 1
      BY <1>0, <3>1, FS_RemoveElement
    <3>4. Cardinality(Used \ {s}) \in Nat
      BY <1>0, FS_RemoveElement, FS_CardinalityType
    <3>5. count' = count - 1
      BY <1>0, <2>1, <2>3, <3>3, <3>4 DEF Decremented
    <3> QED BY <2>1, <3>2, <3>3, <3>5
  <2> QED BY <1>2, <2>2, <2>3 DEF RemoveAs
<1>3. ASSUME NEW S \in SUBSET UsedSlots(table), CollectUnmarked(S)
      PROVE  count' = Cardinality(UsedSlots(table'))
  <2>1. count = Cardinality(Used)
    BY <1>3 DEF CountExact, CollectUnmarked
  <2>2. UsedSlots(table') = Used \ S
    <3>1. DOMAIN table' = 0..size-1
      BY <1>3 DEF CollectUnmarked
    <3>2. \A s \in S : table'[s].state = "AUTOFREED"
      BY <1>0, <1>3 DEF CollectUnmarked, UsedSlots, TableOf, Entry
    <3>3. \A s \in (0..size-1) \ S : table'[s] = table[s]
      BY <1>3 DEF CollectUnmarked
    <3> QED BY <1>0, <3>1, <3>2, <3>3 DEF UsedSlots
  <2>3. /\ IsFiniteSet(S) /\ Cardinality(S) \in Nat /\ Cardinality(S) <= Cardinality(Used)
        /\ IsFiniteSet(Used \ S) /\ Cardinality(Used \ S) \in Nat
    BY <1>0, FS_Subset, FS_CardinalityType
  <2>4. Cardinality(Used \ S) = Cardinality(Used) - Cardinality(S)
    <3>1. S \cup (Used \ S) = Used /\ S \cap (Used \ S) = {}
      OBVIOUS
    <3>2. Cardinality(S \cup (Used \ S)) =
            Cardinality(S) + Cardinality(Used \ S) - Cardinality(S \cap (Used \ S))
      BY <2>3, FS_Union
    <3>3. Cardinality(S \cup (Used \ S)) = Cardinality(Used)
      BY <3>1
    <3>4. Cardinality(S \cap (Used \ S)) = 0
      BY <3>1, FS_EmptySet
    <3> HIDE DEF Used
    <3> QED BY <1>0, <2>3, <3>2, <3>3, <3>4
  <2>5. count' = IF count > Cardinality(S) THEN count - Cardinality(S) ELSE 0
    BY <1>3 DEF CollectUnmarked
  <2> QED BY <1>0, <2>1, <2>2, <2>3, <2>4, <2>5
<1>4. ASSUME GrowSwap
      PROVE  count' = Cardinality(UsedSlots(table'))
  BY <1>4 DEF GrowSwap, SwapTables, CopyOK
<1>5. ASSUME UNCHANGED <<table, count>>, pc # "rehash"
      PROVE  count' = Cardinality(UsedSlots(table'))
  BY <1>5 DEF CountExact
<1>6. ASSUME \/ \E p \in Ptrs : InsertRefuse(p) \/ Lookup(p) \/ \E i \in Infos : GrowStart(p, i)
             \/ RehashEntry
             \/ UNCHANGED vars
      PROVE  UNCHANGED <<table, count>> /\ pc # "rehash"
  BY <1>6 DEF InsertRefuse, Attempts, FinishInsert, Lookup, GrowStart, RehashEntry, vars
<1> QED BY <1>1, <1>2, <1>3, <1>4, <1>5, <1>6 DEF Next, Growth, Remove, RemoveAutofree, TableCalls

\* While the table grows, its copy has room for one more record.
LEMMA CopyHasRoom ==
  ASSUME IInv, pc = "rehash"
  PROVE  \E y \in 0..2*size-1 : newTable[y].state = "EMPTY"
<1> SUFFICES ASSUME \A y \in 0..2*size-1 : newTable[y].state # "EMPTY"
             PROVE  FALSE
  OBVIOUS
<1> USE DEF IInv
<1>1. size \in Nat \ {0} /\ cursor \in 0..size /\ TableOf(table, size)
  BY SizesPositive DEF TypeOK
<1> DEFINE S == 0..2*size-1
           T == 0..size-1
           f == [y \in S |-> CHOOSE c \in 0..cursor-1 : newTable[y] = table[c]]
<1>2. \A y \in S : f[y] \in 0..cursor-1 /\ newTable[y] = table[f[y]]
  BY DEF CopyOK
<1>3. f \in [S -> T]
  BY <1>1, <1>2
<1>4. IsFiniteSet(S) /\ IsFiniteSet(T) /\ Cardinality(T) < Cardinality(S)
  BY <1>1, FS_Interval
<1>5. PICK x \in S, y \in S : x # y /\ f[x] = f[y]
  <2> HIDE DEF S, T, f
  <2> QED BY <1>3, <1>4, FS_PigeonHole
<1>6. newTable[x] = newTable[y] /\ newTable[x].state = "USED"
  BY <1>1, <1>2, <1>5 DEF GrowsOnlyWhenFull
<1>7. LiveFirst(newTable, 2 * size)
  BY DEF CopyOK
<1> QED BY <1>5, <1>6, <1>7 DEF LiveFirst, Tracked

LEMMA NextCopyOK == IInv /\ [Next]_vars => CopyOK'
<1> SUFFICES ASSUME IInv, [Next]_vars, pc' = "rehash" PROVE CopyOK'
  BY DEF CopyOK
<1> USE DEF IInv
<1>0. /\ size \in Nat \ {0} /\ size \in Sizes /\ cursor \in 0..size /\ TableOf(table, size)
  BY SizesPositive DEF TypeOK
<1>1. ASSUME NEW p \in Ptrs, NEW i \in Infos, GrowStart(p, i)
      PROVE  CopyOK'
  <2>1. /\ newTable' = EmptyTable(2 * size) /\ cursor' = 0 /\ newCount' = 0
        /\ size' = size /\ size < MaxSize
    BY <1>1 DEF GrowStart
  <2>2. 2 * size \in Sizes
    BY <1>0, <2>1, DoubledSize
  <2>3. \A x \in 0..2*size-1 : newTable'[x].state = "EMPTY"
    BY <2>1 DEF EmptyTable, EmptyEntry
  <2> QED BY <2>1, <2>2, <2>3, EmptyTableOK DEF CopyOK
<1>2. ASSUME RehashEntry
      PROVE  CopyOK'
  <2> DEFINE m == 2 * size
             e == table[cursor]
  <2>1. /\ pc = "rehash" /\ cursor \in 0..size-1 /\ cursor' = cursor + 1
        /\ UNCHANGED <<table, size>> /\ m \in Sizes /\ TableOf(newTable, m) /\ m \in Nat
    BY <1>0, <1>2, DoubledSize DEF RehashEntry, TypeOK
  <2>2. /\ \A c \in 0..size-1 : table[c].state = "USED"
        /\ \A c \in 0..size-1, d \in 0..size-1 : c # d => table[c].ptr # table[d].ptr
    BY <2>1 DEF GrowsOnlyWhenFull, PathsOK, LiveFirst, Tracked
  <2>3. e \in Entry /\ e.state = "USED" /\ e.ptr \in Ptrs
    BY <1>0, <2>1, <2>2 DEF TableOf, PathsOK, PathsUnbroken
  <2>4. /\ \A x \in 0..m-1 : newTable[x].state # "EMPTY" =>
             \E c \in 0..cursor-1 : newTable[x] = table[c]
        /\ \A c \in 0..cursor-1 : \E x \in 0..m-1 : newTable[x] = table[c]
        /\ PathsUnbroken(newTable, m) /\ LiveFirst(newTable, m)
        /\ newCount = cursor /\ newCount = Cardinality(UsedSlots(newTable))
    BY <2>1 DEF CopyOK
  <2> HIDE DEF m
  <2>5. FirstEmpty(newTable, m, e.ptr) # {}
    BY <2>1, <2>3, CopyHasRoom, EmptyReachable DEF m
  <2>6. /\ \E s \in FirstEmpty(newTable, m, e.ptr) : newTable' = [newTable EXCEPT ![s] = e]
        /\ newCount' = newCount + 1
    BY <1>2, <2>3, <2>5 DEF RehashEntry, Tracked, m
  <2>7. PICK s \in FirstEmpty(newTable, m, e.ptr) : newTable' = [newTable EXCEPT ![s] = e]
    BY <2>6
  <2>8. /\ s \in 0..m-1 /\ newTable[s].state = "EMPTY"
        /\ Reaches(newTable, m, e.ptr, Distance(e.ptr, s, m))
    BY <2>1, <2>3, EmptySlot
  <2> HIDE DEF e
  <2>9. newTable'[s] = e /\ \A x \in 0..m-1 : x # s => newTable'[x] = newTable[x]
    BY <2>1, <2>7, <2>8 DEF TableOf
  <2>10. \A r \in 0..m-1 : ~ Holds(newTable[r], e.ptr, Tracked)
    <3> SUFFICES ASSUME NEW r \in 0..m-1, Holds(newTable[r], e.ptr, Tracked)
                 PROVE  FALSE
      OBVIOUS
    <3>1. newTable[r].state # "EMPTY" /\ newTable[r].ptr = e.ptr
      BY DEF Holds, Tracked
    <3>2. PICK c \in 0..cursor-1 : newTable[r] = table[c]
      BY <2>4, <3>1
    <3>3. c \in 0..size-1 /\ c # cursor
      BY <1>0, <2>1
    <3> QED BY <2>1, <2>2, <3>1, <3>2, <3>3 DEF e
  <2>11. PathsUnbroken(newTable', m) /\ LiveFirst(newTable', m)
    BY <2>1, <2>3, <2>4, <2>7, <2>8, <2>10, PlacingKeepsPaths
  <2>12. \A x \in 0..m-1 : newTable'[x].state # "EMPTY" =>
           \E c \in 0..cursor'-1 : newTable'[x] = table[c]
    <3> SUFFICES ASSUME NEW x \in 0..m-1, newTable'[x].state # "EMPTY"
                 PROVE  \E c \in 0..cursor'-1 : newTable'[x] = table[c]
      OBVIOUS
    <3>1. CASE x = s
      BY <2>1, <2>9, <3>1 DEF e
    <3>2. CASE x # s
      <4>1. PICK c \in 0..cursor-1 : newTable[x] = table[c]
        BY <2>4, <2>9, <3>2
      <4> QED BY <2>1, <2>9, <3>2, <4>1
    <3> QED BY <3>1, <3>2
  <2>13. \A c \in 0..cursor'-1 : \E x \in 0..m-1 : newTable'[x] = table[c]
    <3> SUFFICES ASSUME NEW c \in 0..cursor'-1
                 PROVE  \E x \in 0..m-1 : newTable'[x] = table[c]
      OBVIOUS
    <3>1. CASE c = cursor
      BY <2>8, <2>9, <3>1 DEF e
    <3>2. CASE c # cursor
      <4>1. c \in 0..cursor-1 /\ c \in 0..size-1
        BY <1>0, <2>1, <3>2
      <4>2. PICK x \in 0..m-1 : newTable[x] = table[c]
        BY <2>4, <4>1
      <4>3. x # s
        BY <2>2, <2>8, <4>1, <4>2
      <4> QED BY <2>9, <4>2, <4>3
    <3> QED BY <3>1, <3>2
  <2>14. newCount' = Cardinality(UsedSlots(newTable'))
    <3>1. UsedSlots(newTable') = UsedSlots(newTable) \cup {s} /\ s \notin UsedSlots(newTable)
      <4>1. DOMAIN newTable' = 0..m-1 /\ DOMAIN newTable = 0..m-1
        BY <2>1, <2>7 DEF TableOf
      <4> QED BY <2>3, <2>8, <2>9, <4>1 DEF UsedSlots
    <3>2. IsFiniteSet(UsedSlots(newTable))
      BY <2>1, UsedSlotsFinite
    <3> QED BY <2>4, <2>6, <3>1, <3>2, FS_AddElement
  <2> QED BY <2>1, <2>4, <2>6, <2>11, <2>12, <2>13, <2>14 DEF CopyOK, m
<1>3. CASE UNCHANGED vars
  BY <1>3 DEF vars, CopyOK
<1>4. ~ GrowSwap
  BY DEF GrowSwap, SwapTables
<1>5. ~ \E p \in Ptrs : \/ \E i \in Infos : InsertUpdate(p, i) \/ InsertPlace(p, i)
                        \/ InsertRefuse(p) \/ Lookup(p) \/ Remove(p) \/ RemoveAutofree(p)
  BY DEF InsertUpdate, InsertPlace, InsertRefuse, FinishInsert, Lookup, Remove,
         RemoveAutofree, RemoveAs
<1>6. ~ \E S \in SUBSET UsedSlots(table) : CollectUnmarked(S)
  BY DEF CollectUnmarked
<1> QED BY <1>1, <1>2, <1>3, <1>4, <1>5, <1>6 DEF Next, Growth

LEMMA InductiveInvariant == Spec => []IInv
<1>1. Init => IInv
  BY InitIInv
<1>2. IInv /\ [Next]_vars => IInv'
  BY NextTypeOK, NextPathsOK, NextGrowsOnlyWhenFull, NextCopyOK, NextCountExact DEF IInv
<1> QED BY <1>1, <1>2, PTL DEF Spec

\* No search of ct_table_lookup, ct_table_remove or ct_table_insert stops short
\* of a record, and none meets a stale record before the live one.
THEOREM PathsAlwaysOK == Spec => []PathsOK
<1>1. IInv => PathsOK
  BY DEF IInv
<1> QED BY <1>1, InductiveInvariant, PTL

\* The number __ct_report_leaks prints is the number of live records.
THEOREM CountAlwaysExact == Spec => []CountExact
<1>1. IInv => CountExact
  BY DEF IInv
<1> QED BY <1>1, InductiveInvariant, PTL

\* A growth copies a table without stale records, whose order it may ignore.
THEOREM GrowthAlwaysOK == Spec => []GrowsOnlyWhenFull
<1>1. IInv => GrowsOnlyWhenFull
  BY DEF IInv
<1> QED BY <1>1, InductiveInvariant, PTL

\* At every turn of the loop of ct_alloc_grow_locked the copy is one the searches could
\* use: it holds the records copied so far, each once and where it is found.
THEOREM CopyAlwaysOK == Spec => []CopyOK
<1>1. IInv => CopyOK
  BY DEF IInv
<1> QED BY <1>1, InductiveInvariant, PTL

\* The end of a growth publishes the records the table had, no more, no less.
LEMMA SwapKeepsRecords ==
  ASSUME IInv, GrowSwap
  PROVE  /\ LiveRecords(table') = LiveRecords(table)
         /\ Cardinality(UsedSlots(table')) = Cardinality(UsedSlots(table))
<1> USE DEF IInv
<1>1. /\ pc = "rehash" /\ cursor = size /\ table' = newTable
      /\ size \in Nat \ {0} /\ size \in Sizes
      /\ DOMAIN table = 0..size-1 /\ DOMAIN newTable = 0..2*size-1
  BY SizesPositive DEF GrowSwap, SwapTables, TypeOK, TableOf
<1>2. UsedSlots(table) = 0..size-1
  BY <1>1 DEF GrowsOnlyWhenFull, UsedSlots
<1>3. /\ \A x \in UsedSlots(newTable) : \E c \in UsedSlots(table) : newTable[x] = table[c]
      /\ \A c \in UsedSlots(table) : \E x \in UsedSlots(newTable) : newTable[x] = table[c]
  <2>1. ASSUME NEW x \in UsedSlots(newTable)
        PROVE  \E c \in UsedSlots(table) : newTable[x] = table[c]
    BY <1>1, <1>2 DEF CopyOK, UsedSlots
  <2>2. ASSUME NEW c \in UsedSlots(table)
        PROVE  \E x \in UsedSlots(newTable) : newTable[x] = table[c]
    <3>1. PICK x \in 0..2*size-1 : newTable[x] = table[c]
      BY <1>1, <1>2 DEF CopyOK
    <3> QED BY <1>1, <3>1 DEF UsedSlots
  <2> QED BY <2>1, <2>2
<1>4. LiveRecords(newTable) = LiveRecords(table)
  BY <1>3 DEF LiveRecords
<1>5. Cardinality(UsedSlots(newTable)) = size
  BY <1>1 DEF CopyOK
<1>6. Cardinality(UsedSlots(table)) = size
  BY <1>1, <1>2, FS_Interval
<1> QED BY <1>1, <1>4, <1>5, <1>6

\* ct_alloc_grow_locked loses, duplicates and alters no live record.
THEOREM GrowthAlwaysKeepsRecords == Spec => GrowthKeepsRecords
<1> DEFINE Kept == size' # size =>
             /\ LiveRecords(table') = LiveRecords(table)
             /\ Cardinality(UsedSlots(table')) = Cardinality(UsedSlots(table))
<1>1. IInv /\ [Next]_vars => [Kept]_vars
  <2> SUFFICES ASSUME IInv, Next, size' # size PROVE Kept
    BY DEF vars
  <2>1. GrowSwap
    BY DEF Next, Growth, InsertUpdate, InsertPlace, InsertRefuse, FinishInsert, GrowStart,
           RehashEntry, Remove, RemoveAutofree, RemoveAs, Lookup, CollectUnmarked
  <2> QED BY <2>1, SwapKeepsRecords
<1> QED BY <1>1, InductiveInvariant, PTL DEF Spec, GrowthKeepsRecords

-----------------------------------------------------------------------------
(* AllocTable implements AllocLedger: the refinement mapping, of a given   *)
(* table                                                                   *)

InfoIn(t, p) ==
  LET used == {s \in UsedSlots(t) : t[s].ptr = p}
  IN IF used = {} THEN None ELSE t[CHOOSE x \in used : TRUE].info

LiveIn(t) == [p \in Ptrs |-> InfoIn(t, p)]

RememberedIn(t, n, state) ==
  {p \in Ptrs : \E s \in 0..n-1 : Holds(t[s], p, {state})}

LEMMA MappedState ==
  /\ [p \in Ptrs |-> LiveInfo(p)] = LiveIn(table)
  /\ \A p \in Ptrs : LiveInfo(p) = LiveIn(table)[p]
  /\ \A st : Remembered(st) = RememberedIn(table, size, st)
  /\ [p \in Ptrs |-> LiveInfo(p)]' = LiveIn(table')
  /\ Remembered("FREED")' = RememberedIn(table', size', "FREED")
  /\ Remembered("AUTOFREED")' = RememberedIn(table', size', "AUTOFREED")
<1>1. [p \in Ptrs |-> LiveInfo(p)] = LiveIn(table)
  BY DEF LiveIn, InfoIn, LiveInfo
<1>2. [p \in Ptrs |-> LiveInfo(p)]' = LiveIn(table')
  BY DEF LiveIn, InfoIn, LiveInfo
<1>3. \A p \in Ptrs : LiveInfo(p) = LiveIn(table)[p]
  BY DEF LiveIn, InfoIn, LiveInfo
<1> QED BY <1>1, <1>2, <1>3 DEF Remembered, RememberedIn

\* A table in which no record precedes the live one maps a pointer to the
\* record in its only live slot, or to None.
LEMMA InfoOfUsed ==
  ASSUME NEW n \in Sizes, NEW t, TableOf(t, n), LiveFirst(t, n), NEW p \in Ptrs,
         NEW s \in 0..n-1, Holds(t[s], p, {"USED"})
  PROVE  InfoIn(t, p) = t[s].info
<1> DEFINE used == {x \in UsedSlots(t) : t[x].ptr = p}
<1>1. s \in used
  BY DEF UsedSlots, TableOf, Holds
<1>2. \A x \in used : x = s
  BY DEF UsedSlots, TableOf, Holds, LiveFirst, Tracked
<1>3. (CHOOSE x \in used : TRUE) = s
  BY <1>1, <1>2
<1> QED BY <1>1, <1>3 DEF InfoIn

LEMMA InfoOfUnused ==
  ASSUME NEW n \in Sizes, NEW t, TableOf(t, n), NEW p \in Ptrs,
         \A s \in 0..n-1 : ~ Holds(t[s], p, {"USED"})
  PROVE  InfoIn(t, p) = None
<1>1. {x \in UsedSlots(t) : t[x].ptr = p} = {}
  BY DEF UsedSlots, TableOf, Holds
<1> QED BY <1>1 DEF InfoIn

-----------------------------------------------------------------------------
(* The invariant the refinement needs beside IInv                          *)

\* Every slot that was ever used holds the record of a block.
InfoOK == \A s \in 0..size-1 : table[s].state # "EMPTY" => table[s].info \in Infos

RInv == IInv /\ InfoOK /\ size >= InitSize

LEMMA NextRInv == RInv /\ [Next]_vars => InfoOK' /\ size' >= InitSize
<1> SUFFICES ASSUME RInv, [Next]_vars
             PROVE  InfoOK' /\ size' >= InitSize
  OBVIOUS
<1>0. /\ size \in Sizes /\ size \in Nat \ {0} /\ size >= InitSize /\ TableOf(table, size)
      /\ TypeOK /\ PathsOK
  BY SizesPositive DEF RInv, IInv, TypeOK
<1>1. ASSUME NEW p \in Ptrs, NEW i \in Infos, InsertUpdate(p, i) \/ InsertPlace(p, i)
      PROVE  InfoOK' /\ size' >= InitSize
  <2>1. PICK s \in 0..size-1 : table' = [table EXCEPT ![s] = UsedEntry(p, i)]
    BY <1>0, <1>1, InsertSlot
  <2>2. size' = size
    BY <1>1 DEF InsertUpdate, InsertPlace, FinishInsert
  <2>3. \A r \in 0..size-1 : table'[r] = IF r = s THEN UsedEntry(p, i) ELSE table[r]
    BY <1>0, <2>1 DEF TableOf
  <2> QED BY <1>0, <2>2, <2>3, UsedEntryType DEF InfoOK, RInv
<1>2. ASSUME NEW call \in TableCalls, NEW p \in Ptrs, NEW released \in {"FREED", "AUTOFREED"},
             NEW autoReply, RemoveAs(call, p, released, autoReply)
      PROVE  InfoOK' /\ size' >= InitSize
  <2>1. \A r \in FirstMatch(table, size, p, Tracked) : r \in 0..size-1
    BY <1>0, MatchedSlot
  <2>2. \/ table' = table
        \/ \E r \in 0..size-1 : table[r].state = "USED" /\ table' = [table EXCEPT ![r].state = released]
    BY <1>2, <2>1 DEF RemoveAs
  <2>3. ASSUME NEW r \in 0..size-1, table[r].state = "USED",
               table' = [table EXCEPT ![r].state = released], NEW s \in 0..size-1
        PROVE  table'[s].info = table[s].info /\ (s # r => table'[s] = table[s])
    <3>1. table'[s] = IF s = r THEN [table[r] EXCEPT !.state = released] ELSE table[s]
      BY <1>0, <2>3 DEF TableOf
    <3>2. table[r] \in Entry
      BY <1>0 DEF TableOf
    <3> QED BY <3>1, <3>2 DEF Entry
  <2>4. size' = size
    BY <1>2 DEF RemoveAs
  <2>5. CASE table' = table
    BY <1>0, <2>4, <2>5 DEF InfoOK, RInv
  <2>6. ASSUME NEW r \in 0..size-1, table[r].state = "USED",
               table' = [table EXCEPT ![r].state = released]
        PROVE  InfoOK'
    BY <1>0, <2>3, <2>4, <2>6 DEF InfoOK, RInv
  <2> QED BY <1>0, <2>2, <2>4, <2>5, <2>6
<1>3. ASSUME NEW S \in SUBSET UsedSlots(table), CollectUnmarked(S)
      PROVE  InfoOK' /\ size' >= InitSize
  <2>1. size' = size
    BY <1>3 DEF CollectUnmarked
  <2>2. \A s \in 0..size-1 : table'[s].info = table[s].info
                             /\ (table'[s].state # "EMPTY" => table[s].state # "EMPTY")
    BY <1>0, <1>3 DEF CollectUnmarked, TableOf, Entry, UsedSlots
  <2> QED BY <1>0, <2>1, <2>2 DEF InfoOK, RInv
<1>4. ASSUME GrowSwap
      PROVE  InfoOK' /\ size' >= InitSize
  <2>1. table' = newTable /\ size' = 2 * size /\ pc = "rehash" /\ cursor = size
    BY <1>4 DEF GrowSwap, SwapTables
  <2>2. \A x \in 0..2*size-1 : newTable[x].state # "EMPTY" =>
          \E c \in 0..cursor-1 : newTable[x] = table[c]
    BY <2>1 DEF RInv, IInv, CopyOK
  <2>3. InitSize \in Nat
    BY SizeAssumption
  <2> QED BY <1>0, <2>1, <2>2, <2>3 DEF InfoOK, RInv
<1>5. ASSUME UNCHANGED <<table, size>>
      PROVE  InfoOK' /\ size' >= InitSize
  BY <1>0, <1>5 DEF InfoOK, RInv
<1>6. ASSUME \/ \E p \in Ptrs : InsertRefuse(p) \/ Lookup(p) \/ \E i \in Infos : GrowStart(p, i)
             \/ RehashEntry
             \/ UNCHANGED vars
      PROVE  UNCHANGED <<table, size>>
  BY <1>6 DEF InsertRefuse, FinishInsert, Lookup, GrowStart, RehashEntry, vars
<1> QED BY <1>1, <1>2, <1>3, <1>4, <1>5, <1>6 DEF Next, Growth, Remove, RemoveAutofree, TableCalls

LEMMA RefinementInvariant == Spec => []RInv
<1>1. Init => RInv
  <2>1. Init => InfoOK /\ size >= InitSize
    BY SizeAssumption DEF Init, InfoOK, EmptyTable, EmptyEntry
  <2> QED BY <2>1, InitIInv DEF RInv
<1>2. RInv /\ [Next]_vars => RInv'
  <2>1. RInv /\ [Next]_vars => IInv'
    BY NextTypeOK, NextPathsOK, NextGrowsOnlyWhenFull, NextCopyOK, NextCountExact DEF IInv, RInv
  <2> QED BY <2>1, NextRInv DEF RInv
<1> QED BY <1>1, <1>2, PTL DEF Spec

-----------------------------------------------------------------------------
(* Each step of the table is a step of the ledger, or changes nothing there *)

\* Writing the record of p forgets at most the released pointer whose slot it
\* takes.
LEMMA InsertMaps ==
  ASSUME RInv, PathsOK', NEW p \in Ptrs, NEW i \in Infos,
         InsertUpdate(p, i) \/ InsertPlace(p, i)
  PROVE  Ledger!Record(p, i)
<1>0. /\ size \in Sizes /\ TableOf(table, size) /\ LiveFirst(table, size)
      /\ TypeOK /\ PathsOK
  BY DEF RInv, IInv, TypeOK, PathsOK
<1>1. PICK s \in 0..size-1 :
         /\ table' = [table EXCEPT ![s] = UsedEntry(p, i)]
         /\ table[s].state = "USED" => table[s].ptr = p
  BY <1>0, InsertSlot
<1>2. size' = size /\ reply' = Reply("insert", 1, "EMPTY", None)
  BY DEF InsertUpdate, InsertPlace, FinishInsert
<1> DEFINE e == UsedEntry(p, i)
<1>3. e \in Entry /\ e.ptr = p /\ e.state = "USED" /\ e.info = i
  BY UsedEntryType
<1> HIDE DEF e
<1>4. /\ TableOf(table', size)
      /\ \A r \in 0..size-1 : table'[r] = IF r = s THEN e ELSE table[r]
  BY <1>0, <1>1, <1>3 DEF TableOf, e
<1>5. LiveFirst(table', size)
  BY <1>2 DEF PathsOK
<1>6. InfoIn(table', p) = i
  <2>1. Holds(table'[s], p, {"USED"})
    BY <1>3, <1>4 DEF Holds
  <2> QED BY <1>0, <1>3, <1>4, <1>5, <2>1, InfoOfUsed
<1>7. ASSUME NEW q \in Ptrs, q # p
      PROVE  InfoIn(table', q) = InfoIn(table, q)
  <2>1. CASE \E r \in 0..size-1 : Holds(table[r], q, {"USED"})
    <3>1. PICK r \in 0..size-1 : Holds(table[r], q, {"USED"})
      BY <2>1
    <3>2. table'[r] = table[r]
      BY <1>1, <1>4, <1>7, <3>1 DEF Holds
    <3> QED BY <1>0, <1>4, <1>5, <3>1, <3>2, InfoOfUsed
  <2>2. CASE \A r \in 0..size-1 : ~ Holds(table[r], q, {"USED"})
    <3>1. \A r \in 0..size-1 : ~ Holds(table'[r], q, {"USED"})
      BY <1>3, <1>4, <1>7, <2>2 DEF Holds
    <3> QED BY <1>0, <1>4, <2>2, <3>1, InfoOfUnused
  <2> QED BY <2>1, <2>2
<1>8. LiveIn(table') = [LiveIn(table) EXCEPT ![p] = i]
  BY <1>6, <1>7 DEF LiveIn
<1>9. \A st \in {"FREED", "AUTOFREED"} :
        RememberedIn(table', size', st) \subseteq RememberedIn(table, size, st)
  BY <1>2, <1>3, <1>4 DEF RememberedIn, Holds
<1>10. /\ Remembered("FREED")' \in SUBSET Remembered("FREED")
       /\ Remembered("AUTOFREED")' \in SUBSET Remembered("AUTOFREED")
  BY <1>9, MappedState
<1> QED BY <1>2, <1>8, <1>10, MappedState DEF Ledger!Record, Ledger!Reply, Reply

\* A block goes untracked only when every slot is in use, by as many pointers.
LEMMA RefuseMaps ==
  ASSUME RInv, NEW p \in Ptrs, InsertRefuse(p)
  PROVE  Ledger!RefuseRecord(p)
<1>0. /\ size \in Sizes /\ size \in Nat \ {0} /\ TableOf(table, size)
      /\ PathsUnbroken(table, size) /\ LiveFirst(table, size) /\ size >= InitSize
  BY SizesPositive DEF RInv, IInv, TypeOK, PathsOK
<1>1. /\ FirstMatch(table, size, p, {"USED"}) = {} /\ FirstFree(table, size, p) = {}
      /\ UNCHANGED <<table, size>> /\ reply' = Reply("insert", 0, "EMPTY", None)
  BY DEF InsertRefuse, NoRoom, FinishInsert
<1>2. \A s \in 0..size-1 : table[s].state = "USED"
  BY <1>0, <1>1, NoFreeSlot
<1>3. LiveIn(table)[p] = None
  <2>1. \A s \in 0..size-1 : ~ Holds(table[s], p, {"USED"})
    BY <1>0, <1>1, NotMatched
  <2> QED BY <1>0, <2>1, InfoOfUnused DEF LiveIn
<1>4. RememberedIn(table, size, "FREED") = {} /\ RememberedIn(table, size, "AUTOFREED") = {}
  BY <1>2 DEF RememberedIn, Holds
<1> DEFINE Slots == 0..size-1
           Lives == {q \in Ptrs : LiveIn(table)[q] # None}
           f == [s \in Slots |-> table[s].ptr]
<1>5. Cardinality(Lives) >= InitSize
  <2>1. \A s \in Slots : f[s] \in Ptrs
    BY <1>0, <1>2 DEF PathsUnbroken
  <2>2. \A s \in Slots : f[s] \in Lives
    <3> SUFFICES ASSUME NEW s \in Slots PROVE LiveIn(table)[table[s].ptr] # None
      BY <2>1
    <3>1. Holds(table[s], table[s].ptr, {"USED"})
      BY <1>2 DEF Holds
    <3>2. InfoIn(table, table[s].ptr) = table[s].info
      BY <1>0, <2>1, <3>1, InfoOfUsed
    <3>3. table[s].info \in Infos
      BY <1>2 DEF RInv, InfoOK
    <3> QED BY <2>1, <3>2, <3>3, NoneAssumption DEF LiveIn
  <2>3. \A q \in Lives : \E s \in Slots : f[s] = q
    <3> SUFFICES ASSUME NEW q \in Ptrs, \A s \in Slots : f[s] # q
                 PROVE  LiveIn(table)[q] = None
      OBVIOUS
    <3>1. \A s \in 0..size-1 : ~ Holds(table[s], q, {"USED"})
      BY DEF Holds
    <3> QED BY <1>0, <3>1, InfoOfUnused DEF LiveIn
  <2>4. \A s, r \in Slots : f[s] = f[r] => s = r
    BY <1>0, <1>2 DEF LiveFirst, Tracked
  <2>5. f \in Bijection(Slots, Lives)
    <3> HIDE DEF f, Lives, Slots
    <3>1. f \in [Slots -> Lives]
      BY <2>2 DEF f
    <3> QED BY <2>3, <2>4, <3>1 DEF Bijection, Injection, Surjection, IsInjective
  <2>6. IsFiniteSet(Slots) /\ Cardinality(Slots) = size
    BY <1>0, FS_Interval
  <2>7. Cardinality(Lives) = Cardinality(Slots)
    <3> HIDE DEF f, Lives, Slots
    <3> QED BY <2>5, <2>6, FS_Bijection DEF ExistsBijection
  <2> QED BY <1>0, <2>6, <2>7
<1>6. Ledger!LivePtrs = Lives
  BY MappedState DEF Ledger!LivePtrs
<1>7. /\ LiveIn(table') = LiveIn(table)
      /\ RememberedIn(table', size', "FREED") = RememberedIn(table, size, "FREED")
      /\ RememberedIn(table', size', "AUTOFREED") = RememberedIn(table, size, "AUTOFREED")
  BY <1>1
<1> HIDE DEF Lives
<1>8. LiveInfo(p) = None
  BY <1>3, MappedState
<1>9. Ledger!Cardinality(Ledger!LivePtrs) >= InitSize
  <2>1. \A S : Ledger!Cardinality(S) = Cardinality(S)
    BY DEF Ledger!Cardinality, Cardinality
  <2> QED BY <1>5, <1>6, <2>1
<1>10. Remembered("FREED") = {} /\ Remembered("AUTOFREED") = {}
  BY <1>4, MappedState
<1>11. UNCHANGED <<[q \in Ptrs |-> LiveInfo(q)], Remembered("FREED"), Remembered("AUTOFREED")>>
  BY <1>7, MappedState
<1> QED BY <1>1, <1>8, <1>9, <1>10, <1>11
        DEF Ledger!RefuseRecord, Ledger!Reply, Reply

\* A search stops at the first record of the pointer there is.
LEMMA FirstMatched ==
  ASSUME NEW t, NEW n \in Sizes, NEW p \in Ptrs, NEW states,
         NEW s \in FirstMatch(t, n, p, states),
         NEW r \in 0..n-1, Holds(t[r], p, states)
  PROVE  Distance(p, s, n) <= Distance(p, r, n)
<1>1. PICK k \in 0..n-1 : /\ s = Probe(p, k, n)
                          /\ \A j \in 0..k-1 : ~ Holds(t[Probe(p, j, n)], p, states)
  BY DEF FirstMatch
<1>2. Distance(p, s, n) = k
  BY <1>1, DistanceOfProbe
<1>3. Distance(p, r, n) \in 0..n-1 /\ Probe(p, Distance(p, r, n), n) = r
  BY ProbeOfDistance
<1>4. ~ (Distance(p, r, n) < k)
  <2> SUFFICES ASSUME Distance(p, r, n) < k PROVE FALSE
    OBVIOUS
  <2>1. Distance(p, r, n) \in 0..k-1
    BY <1>3, SizesPositive
  <2> QED BY <1>1, <1>3, <2>1
<1> QED BY <1>2, <1>3, <1>4, SizesPositive

\* So what it finds is what the ledger knows of the pointer: nothing, the live
\* block, or a release that is still remembered.
LEMMA FoundMaps ==
  ASSUME RInv, NEW p \in Ptrs
  PROVE  /\ FirstMatch(table, size, p, Tracked) = {} =>
              LiveInfo(p) = None /\ p \notin Remembered("FREED") \cup Remembered("AUTOFREED")
         /\ \A s \in FirstMatch(table, size, p, Tracked) :
              /\ s \in 0..size-1 /\ table[s].ptr = p /\ table[s].info \in Infos
              /\ table[s].state \in Tracked
              /\ table[s].state = "USED" => LiveInfo(p) = table[s].info
              /\ table[s].state # "USED" => LiveInfo(p) = None /\ p \in Remembered(table[s].state)
<1>0. /\ size \in Sizes /\ TableOf(table, size)
      /\ PathsUnbroken(table, size) /\ LiveFirst(table, size)
  BY DEF RInv, IInv, TypeOK, PathsOK
<1>1. LiveInfo(p) = InfoIn(table, p)
  BY MappedState DEF LiveIn
<1>2. ASSUME FirstMatch(table, size, p, Tracked) = {}
      PROVE  LiveInfo(p) = None /\ p \notin Remembered("FREED") \cup Remembered("AUTOFREED")
  <2>1. \A s \in 0..size-1 : ~ Holds(table[s], p, Tracked)
    BY <1>0, <1>2, NotMatched DEF Tracked
  <2>2. \A s \in 0..size-1 : ~ Holds(table[s], p, {"USED"})
    BY <2>1 DEF Holds, Tracked
  <2>3. InfoIn(table, p) = None
    BY <1>0, <2>2, InfoOfUnused
  <2> QED BY <1>1, <2>1, <2>3 DEF Remembered, Holds, Tracked
<1>3. ASSUME NEW s \in FirstMatch(table, size, p, Tracked)
      PROVE  /\ s \in 0..size-1 /\ table[s].ptr = p /\ table[s].info \in Infos
             /\ table[s].state \in Tracked
             /\ table[s].state = "USED" => LiveInfo(p) = table[s].info
             /\ table[s].state # "USED" => LiveInfo(p) = None /\ p \in Remembered(table[s].state)
  <2>1. s \in 0..size-1 /\ Holds(table[s], p, Tracked)
    BY <1>0, MatchedSlot
  <2>2. table[s].info \in Infos /\ table[s].ptr = p /\ table[s].state \in Tracked
    BY <2>1 DEF RInv, InfoOK, Holds, Tracked
  <2>3. ASSUME table[s].state = "USED"
        PROVE  LiveInfo(p) = table[s].info
    <3>1. Holds(table[s], p, {"USED"})
      BY <2>2, <2>3 DEF Holds
    <3> QED BY <1>0, <1>1, <2>1, <3>1, InfoOfUsed
  <2>4. ASSUME table[s].state # "USED"
        PROVE  LiveInfo(p) = None /\ p \in Remembered(table[s].state)
    <3>1. ASSUME NEW r \in 0..size-1, Holds(table[r], p, {"USED"})
          PROVE  FALSE
      <4>1. r # s /\ table[r].state = "USED" /\ table[r].ptr = table[s].ptr
        BY <2>2, <2>4, <3>1 DEF Holds
      <4>2. Distance(p, r, size) < Distance(p, s, size)
        BY <1>0, <2>1, <2>2, <4>1 DEF LiveFirst
      <4>3. Distance(p, s, size) <= Distance(p, r, size)
        <5>1. Holds(table[r], p, Tracked)
          BY <3>1 DEF Holds, Tracked
        <5> QED BY <1>0, <5>1, FirstMatched
      <4>4. Distance(p, r, size) \in 0..size-1 /\ Distance(p, s, size) \in 0..size-1
        BY <1>0, <2>1, ProbeOfDistance
      <4> QED BY <1>0, <4>2, <4>3, <4>4, SizesPositive
    <3>2. InfoIn(table, p) = None
      BY <1>0, <3>1, InfoOfUnused
    <3> QED BY <1>1, <2>1, <2>2, <3>2 DEF Remembered, Holds
  <2> QED BY <2>1, <2>2, <2>3, <2>4
<1> QED BY <1>2, <1>3

\* The slots S, which hold the live records of the pointers P, become released.
Turned(S, P, released) ==
  /\ S \in SUBSET UsedSlots(table)
  /\ P = {table[s].ptr : s \in S}
  /\ \A s \in S : table'[s].ptr = table[s].ptr /\ table'[s].state = released
  /\ \A s \in (0..size-1) \ S : table'[s] = table[s]

\* That releases these pointers, and forgets nothing.
LEMMA ReleasedMaps ==
  ASSUME RInv, PathsOK', TableOf(table', size), size' = size,
         NEW S, NEW P, NEW released \in {"FREED", "AUTOFREED"}, Turned(S, P, released)
  PROVE  /\ LiveIn(table') = [p \in Ptrs |-> IF p \in P THEN None ELSE LiveIn(table)[p]]
         /\ \A st \in {"FREED", "AUTOFREED"} :
              RememberedIn(table', size', st) =
                IF st = released THEN RememberedIn(table, size, st) \cup P
                ELSE RememberedIn(table, size, st)
         /\ P \subseteq {p \in Ptrs : LiveIn(table)[p] # None}
<1>0. /\ size \in Sizes /\ TableOf(table, size)
      /\ PathsUnbroken(table, size) /\ LiveFirst(table, size) /\ LiveFirst(table', size)
  BY DEF RInv, IInv, TypeOK, PathsOK
<1> USE DEF Turned
<1>1. \A s \in S : s \in 0..size-1 /\ table[s].state = "USED" /\ table[s].ptr \in Ptrs
                   /\ table[s].info \in Infos
  BY <1>0 DEF UsedSlots, TableOf, PathsUnbroken, RInv, InfoOK
<1>2. ASSUME NEW p \in P
      PROVE  p \in Ptrs /\ InfoIn(table, p) # None /\ InfoIn(table', p) = None
  <2>1. PICK s \in S : p = table[s].ptr
    OBVIOUS
  <2>2. Holds(table[s], p, {"USED"})
    BY <1>1, <2>1 DEF Holds
  <2>3. InfoIn(table, p) = table[s].info
    BY <1>0, <1>1, <2>1, <2>2, InfoOfUsed
  <2>4. ASSUME NEW r \in 0..size-1, Holds(table'[r], p, {"USED"})
        PROVE  FALSE
    <3>1. r \notin S /\ table[r].state = "USED" /\ table[r].ptr = p
      BY <2>4 DEF Holds
    <3> QED BY <1>0, <1>1, <2>1, <3>1 DEF LiveFirst, Tracked
  <2>5. InfoIn(table', p) = None
    BY <1>0, <1>1, <2>1, <2>4, InfoOfUnused
  <2> QED BY <1>1, <2>1, <2>3, <2>5, NoneAssumption
<1>3. ASSUME NEW p \in Ptrs, p \notin P
      PROVE  InfoIn(table', p) = InfoIn(table, p)
  <2>1. \A r \in 0..size-1 : Holds(table'[r], p, {"USED"}) <=> Holds(table[r], p, {"USED"})
    BY <1>1, <1>3 DEF Holds
  <2>2. \A r \in 0..size-1 : Holds(table[r], p, {"USED"}) => table'[r] = table[r]
    BY <1>3 DEF Holds
  <2>3. CASE \E r \in 0..size-1 : Holds(table[r], p, {"USED"})
    <3>1. PICK r \in 0..size-1 : Holds(table[r], p, {"USED"})
      BY <2>3
    <3> QED BY <1>0, <2>1, <2>2, <3>1, InfoOfUsed
  <2>4. CASE \A r \in 0..size-1 : ~ Holds(table[r], p, {"USED"})
    BY <1>0, <2>1, <2>4, InfoOfUnused
  <2> QED BY <2>3, <2>4
<1>4. LiveIn(table') = [p \in Ptrs |-> IF p \in P THEN None ELSE LiveIn(table)[p]]
  BY <1>2, <1>3 DEF LiveIn
<1>5. ASSUME NEW st \in {"FREED", "AUTOFREED"}, NEW p \in Ptrs
      PROVE  (\E s \in 0..size-1 : Holds(table'[s], p, {st})) <=>
             \/ \E s \in 0..size-1 : Holds(table[s], p, {st})
             \/ st = released /\ p \in P
  <2>1. ASSUME NEW s \in 0..size-1, Holds(table'[s], p, {st})
        PROVE  \/ Holds(table[s], p, {st})
               \/ st = released /\ p \in P
    BY <2>1 DEF Holds
  <2>2. ASSUME NEW s \in 0..size-1, Holds(table[s], p, {st})
        PROVE  Holds(table'[s], p, {st})
    BY <1>1, <2>2 DEF Holds
  <2>3. ASSUME st = released, p \in P
        PROVE  \E s \in 0..size-1 : Holds(table'[s], p, {st})
    BY <1>1, <2>3 DEF Holds
  <2> QED BY <2>1, <2>2, <2>3
<1>6. \A st \in {"FREED", "AUTOFREED"} :
        RememberedIn(table', size', st) =
          IF st = released THEN RememberedIn(table, size, st) \cup P
          ELSE RememberedIn(table, size, st)
  <2> SUFFICES ASSUME NEW st \in {"FREED", "AUTOFREED"}
               PROVE  RememberedIn(table', size', st) =
                        IF st = released THEN RememberedIn(table, size, st) \cup P
                        ELSE RememberedIn(table, size, st)
    OBVIOUS
  <2>1. RememberedIn(table', size', st) =
          {p \in Ptrs : \/ \E s \in 0..size-1 : Holds(table[s], p, {st})
                        \/ st = released /\ p \in P}
    BY <1>5 DEF RememberedIn
  <2> QED BY <1>2, <2>1 DEF RememberedIn
<1> QED BY <1>2, <1>4, <1>6 DEF LiveIn

\* The two releases: what they do to the slot they find, as a change of live,
\* freed and autofreed.
LEMMA RemoveMaps ==
  ASSUME RInv, PathsOK', TypeOK', NEW p \in Ptrs,
         NEW call \in TableCalls, NEW released \in {"FREED", "AUTOFREED"}, NEW autoReply,
         RemoveAs(call, p, released, autoReply)
  PROVE  \/ /\ LiveInfo(p) # None
            /\ LiveIn(table') = [LiveIn(table) EXCEPT ![p] = None]
            /\ \A st \in {"FREED", "AUTOFREED"} :
                 RememberedIn(table', size', st) =
                   IF st = released THEN Remembered(st) \cup {p} ELSE Remembered(st)
            /\ reply' = Reply(call, 1, "EMPTY", LiveInfo(p))
         \/ /\ LiveInfo(p) = None
            /\ UNCHANGED <<table, size>>
            /\ \E i \in Infos \cup {None} :
                 \/ p \in Remembered("FREED") /\ reply' = Reply(call, -1, "EMPTY", i)
                 \/ p \in Remembered("AUTOFREED") /\ reply' = Reply(call, autoReply, "EMPTY", i)
                 \/ /\ p \notin Remembered("FREED") \cup Remembered("AUTOFREED")
                    /\ reply' = Reply(call, 0, "EMPTY", i)
<1>0. /\ size \in Sizes /\ TableOf(table, size) /\ DOMAIN table = 0..size-1
      /\ PathsUnbroken(table, size) /\ LiveFirst(table, size)
      /\ size' = size /\ TableOf(table', size)
  BY DEF RInv, IInv, TypeOK, PathsOK, RemoveAs, TableOf
<1> DEFINE found == FirstMatch(table, size, p, Tracked)
<1>1. CASE found = {} /\ reply' = Reply(call, 0, "EMPTY", None) /\ UNCHANGED <<table, count>>
  BY <1>0, <1>1, FoundMaps
<1>2. ASSUME NEW s \in found, table[s].state = "USED",
             table' = [table EXCEPT ![s].state = released],
             reply' = Reply(call, 1, "EMPTY", table[s].info)
      PROVE  /\ LiveInfo(p) # None
             /\ LiveIn(table') = [LiveIn(table) EXCEPT ![p] = None]
             /\ \A st \in {"FREED", "AUTOFREED"} :
                  RememberedIn(table', size', st) =
                    IF st = released THEN Remembered(st) \cup {p} ELSE Remembered(st)
             /\ reply' = Reply(call, 1, "EMPTY", LiveInfo(p))
  <2>1. /\ s \in 0..size-1 /\ table[s].ptr = p /\ table[s].info \in Infos
        /\ LiveInfo(p) = table[s].info
    BY <1>2, FoundMaps
  <2>2. table[s] \in Entry
    BY <1>0, <2>1 DEF TableOf
  <2>3. /\ table'[s] = [table[s] EXCEPT !.state = released]
        /\ \A r \in (0..size-1) \ {s} : table'[r] = table[r]
    BY <1>0, <1>2, <2>1
  <2>4. table'[s].ptr = table[s].ptr /\ table'[s].state = released
    BY <2>2, <2>3 DEF Entry
  <2> DEFINE S == {s}
             P == {p}
  <2>5. S \in SUBSET UsedSlots(table)
    BY <1>0, <1>2, <2>1 DEF UsedSlots
  <2>6. Turned(S, P, released)
    <3>1. P = {table[r].ptr : r \in S}
      BY <2>1
    <3>2. \A r \in S : table'[r].ptr = table[r].ptr /\ table'[r].state = released
      BY <2>4
    <3>3. \A r \in (0..size-1) \ S : table'[r] = table[r]
      BY <2>3
    <3> HIDE DEF S, P
    <3> QED BY <2>5, <3>1, <3>2, <3>3 DEF Turned
  <2> HIDE DEF S, P
  <2>7. /\ LiveIn(table') = [q \in Ptrs |-> IF q \in P THEN None ELSE LiveIn(table)[q]]
        /\ \A st \in {"FREED", "AUTOFREED"} :
             RememberedIn(table', size', st) =
               IF st = released THEN RememberedIn(table, size, st) \cup P
               ELSE RememberedIn(table, size, st)
    BY <1>0, <2>6, ReleasedMaps
  <2> USE DEF P
  <2>8. LiveIn(table') = [LiveIn(table) EXCEPT ![p] = None]
    BY <2>7 DEF LiveIn
  <2> QED BY <1>2, <2>1, <2>7, <2>8, MappedState, NoneAssumption
<1>3. ASSUME NEW s \in found, table[s].state # "USED",
             reply' = Reply(call, IF table[s].state = "AUTOFREED" THEN autoReply ELSE -1,
                            "EMPTY", table[s].info),
             UNCHANGED <<table, count>>
      PROVE  /\ LiveInfo(p) = None
             /\ \E i \in Infos \cup {None} :
                  \/ p \in Remembered("FREED") /\ reply' = Reply(call, -1, "EMPTY", i)
                  \/ p \in Remembered("AUTOFREED") /\ reply' = Reply(call, autoReply, "EMPTY", i)
                  \/ /\ p \notin Remembered("FREED") \cup Remembered("AUTOFREED")
                     /\ reply' = Reply(call, 0, "EMPTY", i)
  BY <1>3, FoundMaps DEF Tracked
<1> QED BY <1>0, <1>1, <1>2, <1>3 DEF RemoveAs

LEMMA ReleaseMaps ==
  ASSUME RInv, PathsOK', TypeOK', NEW p \in Ptrs
  PROVE  /\ Remove(p) => Ledger!Release(p)
         /\ RemoveAutofree(p) => Ledger!AutoRelease(p)
<1>1. UNCHANGED <<table, size>> =>
        UNCHANGED <<[q \in Ptrs |-> LiveInfo(q)], Remembered("FREED"), Remembered("AUTOFREED")>>
  BY MappedState
<1>2. ASSUME Remove(p)
      PROVE  Ledger!Release(p)
  BY <1>1, <1>2, RemoveMaps, MappedState
  DEF Remove, TableCalls, Ledger!Release, Ledger!Reply, Reply
<1>3. ASSUME RemoveAutofree(p)
      PROVE  Ledger!AutoRelease(p)
  BY <1>1, <1>3, RemoveMaps, MappedState
  DEF RemoveAutofree, TableCalls, Ledger!AutoRelease, Ledger!Reply, Reply
<1> QED BY <1>2, <1>3

LEMMA LookupMaps ==
  ASSUME RInv, NEW p \in Ptrs, Lookup(p)
  PROVE  Ledger!Query(p)
<1>1. UNCHANGED <<[q \in Ptrs |-> LiveInfo(q)], Remembered("FREED"), Remembered("AUTOFREED")>>
  BY MappedState DEF Lookup
<1> DEFINE found == FirstMatch(table, size, p, Tracked)
<1>2. CASE found = {} /\ reply' = Reply("lookup", 0, "EMPTY", None)
  BY <1>1, <1>2, FoundMaps DEF Ledger!Query, Ledger!Reply, Reply
<1>3. ASSUME NEW s \in found, reply' = Reply("lookup", 1, table[s].state, table[s].info)
      PROVE  Ledger!Query(p)
  BY <1>1, <1>3, FoundMaps, NoneAssumption DEF Ledger!Query, Ledger!Reply, Reply, Tracked
<1> QED BY <1>2, <1>3 DEF Lookup

LEMMA CollectMaps ==
  ASSUME RInv, PathsOK', TypeOK', NEW S \in SUBSET UsedSlots(table), CollectUnmarked(S)
  PROVE  \E P \in SUBSET Ledger!LivePtrs : Ledger!Collect(P)
<1> DEFINE P == {table[s].ptr : s \in S}
<1>0. /\ size \in Sizes /\ TableOf(table, size)
      /\ size' = size /\ reply' = reply /\ TableOf(table', size)
  BY DEF RInv, IInv, TypeOK, CollectUnmarked
<1>1. Turned(S, P, "AUTOFREED")
  BY <1>0 DEF CollectUnmarked, UsedSlots, TableOf, Entry, Turned
<1> HIDE DEF P
<1>2. /\ LiveIn(table') = [p \in Ptrs |-> IF p \in P THEN None ELSE LiveIn(table)[p]]
      /\ \A st \in {"FREED", "AUTOFREED"} :
           RememberedIn(table', size', st) =
             IF st = "AUTOFREED" THEN RememberedIn(table, size, st) \cup P
             ELSE RememberedIn(table, size, st)
      /\ P \subseteq {p \in Ptrs : LiveIn(table)[p] # None}
  BY <1>0, <1>1, ReleasedMaps
<1>3. P \in SUBSET Ledger!LivePtrs
  BY <1>2, MappedState DEF Ledger!LivePtrs
<1>4. Ledger!Collect(P)
  BY <1>0, <1>2, MappedState DEF Ledger!Collect
<1> QED BY <1>3, <1>4

\* The ledger knows nothing of a growth.
LEMMA SwapMaps ==
  ASSUME RInv, PathsOK', TypeOK', GrowSwap
  PROVE  UNCHANGED Ledger!ledgerVars
<1>0. /\ size \in Sizes /\ size \in Nat \ {0} /\ TableOf(table, size)
      /\ PathsUnbroken(table, size) /\ LiveFirst(table, size)
      /\ pc = "rehash" /\ cursor = size /\ table' = newTable /\ size' = 2 * size
      /\ size' \in Sizes /\ TableOf(table', size') /\ LiveFirst(table', size') /\ reply' = reply
      /\ \A s \in 0..size-1 : table[s].state = "USED"
  BY SizesPositive
  DEF RInv, IInv, TypeOK, PathsOK, GrowSwap, SwapTables, GrowsOnlyWhenFull
<1>1. /\ \A x \in 0..size'-1 : table'[x].state # "EMPTY" =>
           \E c \in 0..size-1 : table'[x] = table[c]
      /\ \A c \in 0..size-1 : \E x \in 0..size'-1 : table'[x] = table[c]
  BY <1>0 DEF RInv, IInv, CopyOK
<1>2. ASSUME NEW p \in Ptrs
      PROVE  InfoIn(table', p) = InfoIn(table, p)
  <2>1. CASE \E s \in 0..size-1 : Holds(table[s], p, {"USED"})
    <3>1. PICK s \in 0..size-1 : Holds(table[s], p, {"USED"})
      BY <2>1
    <3>2. PICK x \in 0..size'-1 : table'[x] = table[s]
      BY <1>1
    <3>3. InfoIn(table, p) = table[s].info
      BY <1>0, <3>1, InfoOfUsed
    <3>4. InfoIn(table', p) = table'[x].info
      BY <1>0, <3>1, <3>2, InfoOfUsed
    <3> QED BY <3>2, <3>3, <3>4
  <2>2. CASE \A s \in 0..size-1 : ~ Holds(table[s], p, {"USED"})
    <3>1. \A x \in 0..size'-1 : ~ Holds(table'[x], p, {"USED"})
      BY <1>1, <2>2 DEF Holds
    <3>2. InfoIn(table, p) = None
      BY <1>0, <2>2, InfoOfUnused
    <3>3. InfoIn(table', p) = None
      BY <1>0, <3>1, InfoOfUnused
    <3> QED BY <3>2, <3>3
  <2> QED BY <2>1, <2>2
<1>3. LiveIn(table') = LiveIn(table)
  BY <1>2 DEF LiveIn
<1>4. \A st \in {"FREED", "AUTOFREED"} :
        RememberedIn(table, size, st) = {} /\ RememberedIn(table', size', st) = {}
  BY <1>0, <1>1 DEF RememberedIn, Holds
<1> QED BY <1>0, <1>3, <1>4, MappedState DEF Ledger!ledgerVars

LEMMA InitMaps == Init => Ledger!LedgerInit
<1> SUFFICES ASSUME Init PROVE Ledger!LedgerInit
  OBVIOUS
<1>1. /\ size \in Sizes /\ TableOf(table, size) /\ reply = Reply("none", 0, "EMPTY", None)
      /\ \A s \in 0..size-1 : table[s].state = "EMPTY"
  BY InitTypeOK DEF Init, TypeOK, EmptyTable, EmptyEntry
<1>2. \A s \in 0..size-1, p \in Ptrs, states \in SUBSET Tracked : ~ Holds(table[s], p, states)
  BY <1>1 DEF Holds, Tracked
<1>3. \A p \in Ptrs : InfoIn(table, p) = None
  BY <1>1, <1>2, InfoOfUnused DEF Tracked
<1>4. LiveIn(table) = [p \in Ptrs |-> None]
  BY <1>3 DEF LiveIn
<1>5. Remembered("FREED") = {} /\ Remembered("AUTOFREED") = {}
  BY <1>2 DEF Remembered, Tracked
<1> QED BY <1>1, <1>4, <1>5, MappedState DEF Ledger!LedgerInit, Ledger!Reply, Reply

LEMMA NextMaps == RInv /\ [Next]_vars /\ RInv' => [Ledger!LedgerNext]_(Ledger!ledgerVars)
<1> SUFFICES ASSUME RInv, [Next]_vars, RInv'
             PROVE  Ledger!LedgerNext \/ UNCHANGED Ledger!ledgerVars
  OBVIOUS
<1>0. PathsOK' /\ TypeOK'
  BY DEF RInv, IInv
<1>1. ASSUME NEW p \in Ptrs, NEW i \in Infos, InsertUpdate(p, i) \/ InsertPlace(p, i)
      PROVE  Ledger!LedgerNext
  BY <1>0, <1>1, InsertMaps DEF Ledger!LedgerNext
<1>2. ASSUME NEW p \in Ptrs, InsertRefuse(p)
      PROVE  Ledger!LedgerNext
  BY <1>2, RefuseMaps DEF Ledger!LedgerNext
<1>3. ASSUME NEW p \in Ptrs, Remove(p) \/ RemoveAutofree(p)
      PROVE  Ledger!LedgerNext
  BY <1>0, <1>3, ReleaseMaps DEF Ledger!LedgerNext
<1>4. ASSUME NEW p \in Ptrs, Lookup(p)
      PROVE  Ledger!LedgerNext
  BY <1>4, LookupMaps DEF Ledger!LedgerNext
<1>5. ASSUME NEW S \in SUBSET UsedSlots(table), CollectUnmarked(S)
      PROVE  Ledger!LedgerNext
  BY <1>0, <1>5, CollectMaps DEF Ledger!LedgerNext
<1>6. ASSUME GrowSwap
      PROVE  UNCHANGED Ledger!ledgerVars
  BY <1>0, <1>6, SwapMaps
<1>7. ASSUME \/ \E p \in Ptrs, i \in Infos : GrowStart(p, i)
             \/ RehashEntry
             \/ UNCHANGED vars
      PROVE  UNCHANGED Ledger!ledgerVars
  <2>1. UNCHANGED <<table, size, reply>>
    BY <1>7 DEF GrowStart, RehashEntry, vars
  <2> QED BY <2>1, MappedState DEF Ledger!ledgerVars
<1> QED BY <1>1, <1>2, <1>3, <1>4, <1>5, <1>6, <1>7 DEF Next, Growth

\* The whole of ct_table_insert, ct_table_remove, ct_table_remove_autofree,
\* ct_table_lookup, ct_alloc_grow_locked and the collector's release, with any
\* hash function and any size of table, behaves as the ledger says: a live
\* block is found with its own record and released exactly once, a pointer is
\* called released only if it was, and a block goes untracked only with
\* InitSize others live.
THEOREM TableImplementsLedger == Spec => ImplementsLedger
<1>1. Init => Ledger!LedgerInit
  BY InitMaps
<1>2. RInv /\ [Next]_vars /\ RInv' => [Ledger!LedgerNext]_(Ledger!ledgerVars)
  BY NextMaps
<1> QED BY <1>1, <1>2, RefinementInvariant, PTL DEF Spec, ImplementsLedger, Ledger!LedgerSpec

\* What growth leaves to the second attempt: a slot that is not in use.
RetryOK == pc = "retry" => \E s \in 0..size-1 : table[s].state # "USED"

LEMMA RetryHasRoom == Spec => [](IInv /\ RetryOK)
<1>1. Init => RetryOK
  BY DEF Init, RetryOK
<1>2. IInv /\ RetryOK /\ [Next]_vars => RetryOK'
  <2> SUFFICES ASSUME IInv, RetryOK, [Next]_vars, pc' = "retry"
               PROVE  \E s \in 0..size'-1 : table'[s].state # "USED"
    BY DEF RetryOK
  <2>1. CASE GrowSwap
    <3>1. pc = "rehash" /\ table' = newTable /\ size' = 2 * size
      BY <2>1 DEF GrowSwap, SwapTables
    <3> QED BY <3>1, CopyHasRoom
  <2>2. CASE UNCHANGED <<pc, table, size>>
    BY <2>2 DEF RetryOK
  <2>3. ASSUME NEW p \in Ptrs, NEW i \in Infos, InsertUpdate(p, i) \/ InsertPlace(p, i) \/ InsertRefuse(p) \/ GrowStart(p, i)
        PROVE  pc' # "retry"
    BY <2>3 DEF InsertUpdate, InsertPlace, InsertRefuse, FinishInsert, GrowStart
  <2>4. ASSUME NEW p \in Ptrs, InsertRefuse(p)
        PROVE  pc' # "retry"
    BY <2>4 DEF InsertRefuse, FinishInsert
  <2>5. ASSUME NEW p \in Ptrs, Remove(p) \/ RemoveAutofree(p) \/ Lookup(p)
        PROVE  pc' # "retry"
    BY <2>5 DEF Remove, RemoveAutofree, RemoveAs, Lookup
  <2>6. ASSUME NEW S \in SUBSET UsedSlots(table), CollectUnmarked(S)
        PROVE  pc' # "retry"
    BY <2>6 DEF CollectUnmarked
  <2>7. CASE RehashEntry \/ UNCHANGED vars
    BY <2>2, <2>7 DEF RehashEntry, vars
  <2> QED BY <2>1, <2>3, <2>4, <2>5, <2>6, <2>7 DEF Next, Growth
<1> QED BY <1>1, <1>2, InductiveInvariant, PTL DEF Spec

\* The second attempt of ct_table_insert, after a growth, is never the one that
\* answers 0: it finds a slot, and the block is tracked.
THEOREM GrowthAlwaysTracks == Spec => GrowthTracks
<1> DEFINE Placed == pc # "idle" /\ pc' = "idle" =>
             \E s \in UsedSlots(table') : table'[s].ptr = pending.ptr
<1>1. IInv /\ RetryOK /\ [Next]_vars => [Placed]_vars
  <2> SUFFICES ASSUME IInv, RetryOK, Next, pc # "idle", pc' = "idle"
               PROVE  \E s \in UsedSlots(table') : table'[s].ptr = pending.ptr
    BY DEF vars
  <2>3. TypeOK /\ PathsOK /\ TableOf(table, size)
    BY DEF IInv, TypeOK
  <2>a. ASSUME NEW q \in Ptrs, InsertRefuse(q) PROVE FALSE
    <3>1. pc = "retry" /\ FirstFree(table, size, q) = {} /\ size \in Sizes
      BY <2>a, <2>3 DEF InsertRefuse, Attempts, NoRoom, TypeOK
    <3>2. \A s \in 0..size-1 : table[s].state = "USED"
      BY <3>1, NoFreeSlot
    <3> QED BY <3>1, <3>2 DEF RetryOK
  <2>1. PICK p \in Ptrs, i \in Infos : InsertUpdate(p, i) \/ InsertPlace(p, i)
    BY <2>a DEF Next, Growth, GrowStart, RehashEntry, GrowSwap, SwapTables,
           Remove, RemoveAutofree, RemoveAs, Lookup, CollectUnmarked
  <2>2. pending.ptr = p
    BY <2>1 DEF InsertUpdate, InsertPlace, Attempts
  <2>4. PICK s \in 0..size-1 : table' = [table EXCEPT ![s] = UsedEntry(p, i)]
    BY <2>1, <2>3, InsertSlot
  <2>5. s \in DOMAIN table' /\ table'[s] = UsedEntry(p, i)
    BY <2>3, <2>4 DEF TableOf
  <2> QED BY <2>2, <2>5, UsedEntryType DEF UsedSlots
<1> QED BY <1>1, RetryHasRoom, PTL DEF Spec, GrowthTracks
=============================================================================
