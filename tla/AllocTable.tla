----------------------------- MODULE AllocTable -----------------------------
(***************************************************************************)
(* The allocation table of src/runtime/ct_runtime_alloc.cpp: an array of   *)
(* slots with open addressing and linear probing, that doubles when no     *)
(* slot can be reused.  Every call below runs under ct_alloc_lock, so each *)
(* is one step; the copying loop of the growth is one step per old slot.   *)
(* A pointer and what is recorded of its block (size, requested size,      *)
(* site, kind) are values; a slot keeps the record of a released block     *)
(* until another block takes the slot.                                     *)
(***************************************************************************)
EXTENDS Integers, FiniteSets

CONSTANTS
  Ptrs,       \* addresses the allocators may return
  Infos,      \* what is recorded of a block
  None,       \* no pointer, no record
  Hash(_, _), \* Hash(p, n): first slot probed for p in a table of n slots
  InitSize,   \* CT_ALLOC_TABLE_SIZE
  MaxSize     \* 1 << CT_ALLOC_TABLE_MAX_BITS

ASSUME SizeAssumption ==
  /\ InitSize \in Nat \ {0}
  /\ MaxSize \in Nat

\* Sizes the table may take: it doubles while smaller than MaxSize.
Sizes == {InitSize} \cup 1..2*MaxSize
ASSUME HashAssumption ==
  \A p \in Ptrs : \A n \in Sizes : Hash(p, n) \in 0..n-1
ASSUME NoneAssumption == None \notin Ptrs /\ None \notin Infos

VARIABLES
  table,      \* ct_alloc_table
  size,       \* ct_alloc_table_size
  count,      \* ct_alloc_count, the number behind the leak report
  reply,      \* which call came last, its result and out parameters
  pc,         \* "idle", or where a ct_table_insert that grows the table is
  newTable,   \* new_table of ct_alloc_grow_locked
  cursor,     \* its loop index i
  newCount,   \* its new_count
  pending     \* pointer and record the growing insert must still place

vars == <<table, size, count, reply, pc, newTable, cursor, newCount, pending>>

-----------------------------------------------------------------------------
(* Slots and probing                                                       *)

States == {"EMPTY", "USED", "FREED", "AUTOFREED"}
Tracked == {"USED", "FREED", "AUTOFREED"}

Entry == [ptr : Ptrs \cup {None}, state : States, info : Infos \cup {None}]
EmptyEntry == [ptr |-> None, state |-> "EMPTY", info |-> None]
UsedEntry(p, i) == [ptr |-> p, state |-> "USED", info |-> i]
EmptyTable(n) == [s \in 0..n-1 |-> EmptyEntry]

\* (idx + i) & mask
Probe(p, k, n) == IF Hash(p, n) + k < n THEN Hash(p, n) + k ELSE Hash(p, n) + k - n

\* The loop gets to its step k only past slots that are not EMPTY.
Reaches(t, n, p, k) == \A j \in 0..k-1 : t[Probe(p, j, n)].state # "EMPTY"

Holds(entry, p, states) == entry.ptr = p /\ entry.state \in states

\* At most one slot: the first on p's path that holds p in one of these states.
FirstMatch(t, n, p, states) ==
  {Probe(p, k, n) : k \in
    {k \in 0..n-1 :
      /\ Reaches(t, n, p, k)
      /\ Holds(t[Probe(p, k, n)], p, states)
      /\ \A j \in 0..k-1 : ~ Holds(t[Probe(p, j, n)], p, states)}}

\* (a faulty FirstFree: no probing when the first slot is taken)
FirstFreeAtHash(t, n, p) == {s \in {Probe(p, 0, n)} : t[s].state # "USED"}

\* At most one slot: the first on p's path that is not in use.  Insertion keeps
\* the first released slot it meets, and takes the EMPTY one only without it.
FirstFree(t, n, p) ==
  {Probe(p, k, n) : k \in
    {k \in 0..n-1 :
      /\ t[Probe(p, k, n)].state # "USED"
      /\ \A j \in 0..k-1 : t[Probe(p, j, n)].state = "USED"}}

\* (a faulty FirstEmpty: no probing when the first slot is taken)
HashSlot(t, n, p) == {Probe(p, 0, n)}

\* Rehashing looks for an EMPTY slot only.
FirstEmpty(t, n, p) ==
  {Probe(p, k, n) : k \in
    {k \in 0..n-1 :
      /\ t[Probe(p, k, n)].state = "EMPTY"
      /\ Reaches(t, n, p, k)}}

Reply(call, res, state, info) ==
  [call |-> call, res |-> res, state |-> state, info |-> info]

Init ==
  /\ table = EmptyTable(InitSize)
  /\ size = InitSize
  /\ count = 0
  /\ reply = Reply("none", 0, "EMPTY", None)
  /\ pc = "idle"
  /\ newTable = EmptyTable(0)
  /\ cursor = 0
  /\ newCount = 0
  /\ pending = [ptr |-> None, info |-> None]

growthVars == <<newTable, cursor, newCount>>

-----------------------------------------------------------------------------
(* ct_table_insert.  The first attempt runs from "idle"; the second, after *)
(* a growth, from "retry" for the pointer that asked for it.               *)

Attempts(p, i) ==
  \/ pc = "idle"
  \/ pc = "retry" /\ pending = [ptr |-> p, info |-> i]

FinishInsert(res) ==
  /\ reply' = Reply("insert", res, "EMPTY", None)
  /\ pc' = "idle"
  /\ pending' = [ptr |-> None, info |-> None]
  /\ UNCHANGED <<size, growthVars>>

\* (a faulty InsertUpdate: counts the block twice)
InsertUpdateCounts(p, i) ==
  /\ Attempts(p, i)
  /\ \E s \in FirstMatch(table, size, p, {"USED"}) :
       table' = [table EXCEPT ![s] = UsedEntry(p, i)]
  /\ FinishInsert(1)
  /\ count' = count + 1

\* The pointer is tracked as live already: its record is overwritten.
InsertUpdate(p, i) ==
  /\ Attempts(p, i)
  /\ \E s \in FirstMatch(table, size, p, {"USED"}) :
       table' = [table EXCEPT ![s] = UsedEntry(p, i)]
  /\ FinishInsert(1)
  /\ UNCHANGED count

InsertPlace(p, i) ==
  /\ Attempts(p, i)
  /\ FirstMatch(table, size, p, {"USED"}) = {}
  /\ \E s \in FirstFree(table, size, p) :
       table' = [table EXCEPT ![s] = UsedEntry(p, i)]
  /\ count' = count + 1
  /\ FinishInsert(1)

\* (a faulty NoRoom: released slots are not reused)
NoEmptySlot(p) ==
  /\ FirstMatch(table, size, p, {"USED"}) = {}
  /\ FirstEmpty(table, size, p) = {}

NoRoom(p) ==
  /\ FirstMatch(table, size, p, {"USED"}) = {}
  /\ FirstFree(table, size, p) = {}

\* ct_alloc_grow_locked says no: the table has its largest size, or malloc
\* returns null; or the second attempt has found no room either.  The block stays
\* untracked.
InsertRefuse(p) ==
  /\ \E i \in Infos : Attempts(p, i)
  /\ NoRoom(p)
  /\ FinishInsert(0)
  /\ UNCHANGED <<table, count>>

GrowStart(p, i) ==
  /\ pc = "idle"
  /\ NoRoom(p)
  /\ size < MaxSize
  /\ pc' = "rehash"
  /\ newTable' = EmptyTable(2 * size)
  /\ cursor' = 0
  /\ newCount' = 0
  /\ pending' = [ptr |-> p, info |-> i]
  /\ UNCHANGED <<table, size, count, reply>>

\* One turn of the copying loop; ct_alloc_rehash_entry is the placement.
RehashEntry ==
  /\ pc = "rehash"
  /\ cursor < size
  /\ LET entry == table[cursor]
         slots == FirstEmpty(newTable, 2 * size, entry.ptr)
     IN IF entry.state \in Tracked /\ slots # {}
        THEN /\ \E s \in slots : newTable' = [newTable EXCEPT ![s] = entry]
             /\ newCount' = IF entry.state = "USED" THEN newCount + 1 ELSE newCount
        ELSE UNCHANGED <<newTable, newCount>>
  /\ cursor' = cursor + 1
  /\ UNCHANGED <<table, size, count, reply, pc, pending>>

\* (a faulty SwapTables: the table keeps its size)
SwapTablesOnly ==
  /\ pc = "rehash"
  /\ table' = newTable
  /\ count' = newCount
  /\ pc' = "retry"
  /\ newTable' = EmptyTable(0)
  /\ cursor' = 0
  /\ newCount' = 0
  /\ UNCHANGED <<size, reply, pending>>

SwapTables ==
  /\ pc = "rehash"
  /\ table' = newTable
  /\ size' = 2 * size
  /\ count' = newCount
  /\ pc' = "retry"
  /\ newTable' = EmptyTable(0)
  /\ cursor' = 0
  /\ newCount' = 0
  /\ UNCHANGED <<reply, pending>>

\* (a faulty GrowSwap: the loop stops one slot early)
GrowSwapEarly == cursor = size - 1 /\ SwapTables

GrowSwap == cursor = size /\ SwapTables

-----------------------------------------------------------------------------
(* The other calls run from "idle": the growing insert holds the lock.     *)

Decremented == IF count > 0 THEN count - 1 ELSE count

\* ct_table_remove and ct_table_remove_autofree stop at the first slot that
\* holds the pointer in any state but EMPTY; they differ in the state they
\* leave behind and in what they say of a block released automatically.
RemoveAs(call, p, released, autoReply) ==
  /\ pc = "idle"
  /\ LET found == FirstMatch(table, size, p, Tracked)
     IN \/ /\ found = {}
           /\ reply' = Reply(call, 0, "EMPTY", None)
           /\ UNCHANGED <<table, count>>
        \/ \E s \in found :
             IF table[s].state = "USED"
             THEN /\ table' = [table EXCEPT ![s].state = released]
                  /\ count' = Decremented
                  /\ reply' = Reply(call, 1, "EMPTY", table[s].info)
             ELSE /\ reply' = Reply(call, IF table[s].state = "AUTOFREED" THEN autoReply ELSE -1,
                                    "EMPTY", table[s].info)
                  /\ UNCHANGED <<table, count>>
  /\ UNCHANGED <<size, pc, growthVars, pending>>

\* (two faulty releases: a slot that stops searches, the state of the other release)
RemoveEmpties(p) == RemoveAs("remove", p, "EMPTY", -1)
RemoveAutofreeAsFreed(p) == RemoveAs("remove_autofree", p, "FREED", -2)

Remove(p) == RemoveAs("remove", p, "FREED", -1)
RemoveAutofree(p) == RemoveAs("remove_autofree", p, "AUTOFREED", -2)

Lookup(p) ==
  /\ pc = "idle"
  /\ LET found == FirstMatch(table, size, p, Tracked)
     IN \/ found = {} /\ reply' = Reply("lookup", 0, "EMPTY", None)
        \/ \E s \in found : reply' = Reply("lookup", 1, table[s].state, table[s].info)
  /\ UNCHANGED <<table, size, count, pc, growthVars, pending>>

UsedSlots(t) == {s \in DOMAIN t : t[s].state = "USED"}

\* The second pass of ct_autofree_gc_scan turns the unmarked live slots into
\* AUTOFREED ones; the marks are AutofreeGc's, here S is any set of live slots.
CollectUnmarked(S) ==
  /\ pc = "idle"
  /\ S \subseteq UsedSlots(table) /\ S # {}
  /\ table' = [s \in 0..size-1 |->
                 IF s \in S THEN [table[s] EXCEPT !.state = "AUTOFREED"] ELSE table[s]]
  /\ count' = IF count > Cardinality(S) THEN count - Cardinality(S) ELSE 0
  /\ UNCHANGED <<size, reply, pc, growthVars, pending>>

Growth == RehashEntry \/ GrowSwap

Next ==
  \/ \E p \in Ptrs, i \in Infos :
       InsertUpdate(p, i) \/ InsertPlace(p, i) \/ GrowStart(p, i)
  \/ \E p \in Ptrs :
       InsertRefuse(p) \/ Remove(p) \/ RemoveAutofree(p) \/ Lookup(p)
  \/ Growth
  \/ \E S \in SUBSET UsedSlots(table) : CollectUnmarked(S)

Spec == Init /\ [][Next]_vars

-----------------------------------------------------------------------------
(* Properties                                                              *)

TableOf(t, n) == t \in [0..n-1 -> Entry]

TableCalls == {"none", "insert", "remove", "remove_autofree", "lookup"}

\* The type invariant.
TypeOK ==
  /\ size \in Sizes
  /\ TableOf(table, size)
  /\ count \in Nat
  /\ reply \in [call : TableCalls, res : {-2, -1, 0, 1}, state : States, info : Infos \cup {None}]
  /\ pc \in {"idle", "rehash", "retry"}
  /\ cursor \in 0..size
  /\ newCount \in Nat
  /\ pending \in [ptr : Ptrs \cup {None}, info : Infos \cup {None}]
  /\ pc # "idle" => pending \in [ptr : Ptrs, info : Infos]
  /\ pc = "rehash" => TableOf(newTable, 2 * size) /\ size < MaxSize

\* How far from the start of its own path slot s lies for pointer p.
Distance(p, s, n) == IF s >= Hash(p, n) THEN s - Hash(p, n) ELSE s - Hash(p, n) + n

\* Nothing on the way to a record is EMPTY: no search stops short of it,
\* whatever was inserted, released, overwritten and moved before
\* (src/runtime/ct_runtime_alloc.cpp:1371, the early exit on EMPTY).
PathsUnbroken(t, n) ==
  \A s \in 0..n-1 : t[s].state # "EMPTY" =>
    /\ t[s].ptr \in Ptrs
    /\ Reaches(t, n, t[s].ptr, Distance(t[s].ptr, s, n))

\* A live record comes before every other record of the same pointer on its
\* path, stale ones included: so free never meets a stale record first and
\* calls the first free of a block a double free (line 1396).
LiveFirst(t, n) ==
  \A s, r \in 0..n-1 :
    /\ s # r
    /\ t[s].state = "USED"
    /\ t[r].state \in Tracked
    /\ t[r].ptr = t[s].ptr
    => t[r].state # "USED" /\ Distance(t[r].ptr, s, n) < Distance(t[r].ptr, r, n)

\* Both, of the table in use: what every lookup and release relies on.
PathsOK == PathsUnbroken(table, size) /\ LiveFirst(table, size)

\* The counter the leak report reads at exit (line 2937) is the number of
\* blocks tracked as live, through refusals, growth and collection.
CountExact == pc # "rehash" => count = Cardinality(UsedSlots(table))

\* Growth copies records in slot order, not in path order, so it would put a
\* stale record ahead of a live one; it only ever starts when every slot is
\* in use, and then no stale record is left to copy (line 1257).
GrowsOnlyWhenFull == pc = "rehash" => \A s \in 0..size-1 : table[s].state = "USED"

\* Half way through, the new table holds what the loop has passed, once each,
\* and every search of it would succeed (line 1257).
CopyOK ==
  pc = "rehash" =>
    /\ \A x \in 0..2*size-1 : newTable[x].state # "EMPTY" =>
         \E c \in 0..cursor-1 : newTable[x] = table[c]
    /\ \A c \in 0..cursor-1 : \E x \in 0..2*size-1 : newTable[x] = table[c]
    /\ PathsUnbroken(newTable, 2 * size)
    /\ LiveFirst(newTable, 2 * size)
    /\ newCount = cursor
    /\ newCount = Cardinality(UsedSlots(newTable))

LiveRecords(t) == {<<t[s].ptr, t[s].info>> : s \in UsedSlots(t)}

\* Growth neither loses, duplicates nor alters a live record (line 1265).
GrowthKeepsRecords ==
  [][size' # size =>
       /\ LiveRecords(table') = LiveRecords(table)
       /\ Cardinality(UsedSlots(table')) = Cardinality(UsedSlots(table))]_vars

\* An insertion that had to grow the table ends with its block tracked: the
\* second attempt of ct_table_insert, the last one (line 1288), is never the one
\* that finds no room and returns 0, which it would as the first one does.
GrowthTracks ==
  [][pc # "idle" /\ pc' = "idle" =>
       \E s \in UsedSlots(table') : table'[s].ptr = pending.ptr]_vars

-----------------------------------------------------------------------------
(* The table implements the ledger                                         *)

LiveInfo(p) ==
  LET s == {s \in UsedSlots(table) : table[s].ptr = p}
  IN IF s = {} THEN None ELSE table[CHOOSE x \in s : TRUE].info

Remembered(state) ==
  {p \in Ptrs : \E s \in 0..size-1 : Holds(table[s], p, {state})}

\* What callers rely on (AllocLedger): a live block is found, with its own
\* record, and released exactly once; only a pointer released before is
\* called so; nothing goes untracked while fewer than InitSize are live.
Ledger == INSTANCE AllocLedger WITH
  MinCapacity <- InitSize,
  live <- [p \in Ptrs |-> LiveInfo(p)],
  freed <- Remembered("FREED"),
  autofreed <- Remembered("AUTOFREED")

ImplementsLedger == Ledger!LedgerSpec
=============================================================================
