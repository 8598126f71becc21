--------------------------- MODULE WindowsRuntime ---------------------------
(***************************************************************************)
(* The allocation calls of src/runtime/windows/ct_runtime_alloc.cpp, with  *)
(* the features they depend on (FeatureFlags).  Windows has a function of  *)
(* its own to release each family of memory.  The table is a map, so no    *)
(* record is lost; one mutex makes its operations atomic.                  *)
(***************************************************************************)
EXTENDS FeatureFlags

CONSTANTS
  Ptrs,
  Calls,   \* the calls the program makes
  Moves    \* may realloc move a block?

Kinds == {"malloc", "new", "new_array", "mmap", "aligned"}
Records == [state : {"used", "freed", "autofreed"}, kind : Kinds]

ASSUME WindowsAssumption == None \notin Ptrs \cup Kinds \cup Records /\ Moves \in BOOLEAN

VARIABLES
  heap,      \* heap[p]: the family of memory at p
  owner,     \* owner[p]: the thread that uses p
  table,     \* ct_alloc_table: a record of Records, or None
  poisoned,  \* blocks the shadow has as not accessible
  op         \* op[t]: the call t is in

vars == <<flagVars, traceVars, heap, owner, table, poisoned, op>>
heapVars == <<heap, owner, table, poisoned>>

\* op[t].call is the call, then the function that releases; for realloc the old block.
Idle == [step |-> "idle", ptr |-> None, call |-> "none", kind |-> "malloc"]
Step(step, ptr, call, kind) == [step |-> step, ptr |-> ptr, call |-> call, kind |-> kind]

\* The call with which a program releases what it has.
ReleaseApi(kind) ==
  CASE kind \in {"malloc", "aligned"} -> "free"
    [] kind = "new" -> "delete" [] kind = "new_array" -> "delete_array" [] kind = "mmap" -> "munmap"

DefaultKind(api) ==
  CASE api = "free" -> "malloc" [] api = "delete" -> "new" [] api = "delete_array" -> "new_array" [] api = "munmap" -> "mmap"

\* (a faulty ByCalledApi: free is free)
ByCalledApiFree(api, kind) == api

\* ct_release_by_called_api, and VirtualFree for munmap.
ByCalledApi(api, kind) == IF api = "free" /\ kind = "aligned" THEN "_aligned_free" ELSE api

\* ct_release_autofree_memory
ByKind(kind) == IF kind = "aligned" THEN "_aligned_free" ELSE ReleaseApi(kind)

Init ==
  /\ FlagsInit
  /\ heap = [p \in Ptrs |-> None] /\ owner = [p \in Ptrs |-> None]
  /\ table = [p \in Ptrs |-> None] /\ poisoned = {}
  /\ op = [t \in Threads |-> Idle]

To(t, o) == op' = [op EXCEPT ![t] = o]
Running(t, step) == op[t].step = step /\ Applied(t)
On_(f) == f \in flags

\* Every call sets up the features first.
Call(t) ==
  /\ op[t] = Idle
  /\ InitEnvOnce(t)
  /\ \/ \E k \in Kinds \cap Calls : To(t, Step("allocate", None, "alloc", k)) /\ UNCHANGED owner
     \/ /\ \E p \in Ptrs : /\ owner[p] = t
                           /\ \/ LET c == ReleaseApi(heap[p]) IN To(t, Step("release_call", p, c, DefaultKind(c)))
                              \/ "autofree" \in Calls /\ To(t, Step("autofree_call", p, "autofree", "malloc"))
                              \/ "realloc" \in Calls /\ heap[p] = "malloc" /\ To(t, Step("realloc", p, "realloc", "malloc"))
                           /\ owner' = [owner EXCEPT ![p] = None]
  /\ UNCHANGED <<command, env, flags, legacy, constructed, seen, traceVars, heap, table, poisoned>>

\* The system allocates; the block is recorded when blocks are tracked.
Allocate(t) ==
  /\ Running(t, "allocate")
  /\ \E p \in {q \in Ptrs : heap[q] = None} :
       /\ heap' = [heap EXCEPT ![p] = op[t].kind]
       /\ IF On_("ALLOC")
          THEN To(t, Step("record", p, "alloc", op[t].kind)) /\ UNCHANGED owner
          ELSE To(t, Idle) /\ owner' = [owner EXCEPT ![p] = t]
  /\ UNCHANGED <<flagVars, traceVars, table, poisoned>>

AllocateFails(t) ==
  /\ Running(t, "allocate") /\ To(t, Idle)
  /\ UNCHANGED <<flagVars, traceVars, heapVars>>

Used(kind) == [state |-> "used", kind |-> kind]

\* ct_table_insert; a map that has no memory for a new record leaves the block untracked.
Record(t) ==
  /\ Running(t, "record")
  /\ LET p == op[t].ptr
     IN \/ table' = [table EXCEPT ![p] = Used(op[t].kind)]
        \/ table[p] = None /\ UNCHANGED table
  /\ To(t, [op[t] EXCEPT !.step = "unpoison"])
  /\ UNCHANGED <<flagVars, traceVars, heap, owner, poisoned>>

\* ct_track_shadow_alloc; the program has the block.
Unpoison(t) ==
  /\ Running(t, "unpoison")
  /\ poisoned' = IF On_("SHADOW") THEN poisoned \ {op[t].ptr} ELSE poisoned
  /\ owner' = [owner EXCEPT ![op[t].ptr] = t]
  /\ To(t, Idle)
  /\ UNCHANGED <<flagVars, traceVars, heap, table>>

\* The system reallocates in place, or elsewhere and releases the old block.
Realloc(t) ==
  /\ Running(t, "realloc")
  /\ LET p == op[t].ptr
         next(q) == IF On_("ALLOC")
                    THEN To(t, Step("rerecord", q, p, "malloc")) /\ UNCHANGED owner
                    ELSE To(t, Idle) /\ owner' = [owner EXCEPT ![q] = t]
     IN \/ next(p) /\ UNCHANGED heap
        \/ Moves /\ \E q \in {r \in Ptrs : heap[r] = None} :
             heap' = [heap EXCEPT ![p] = None, ![q] = "malloc"] /\ next(q)
        \/ To(t, Idle) /\ owner' = [owner EXCEPT ![p] = t] /\ UNCHANGED heap
  /\ UNCHANGED <<flagVars, traceVars, table, poisoned>>

\* (a faulty Marked: only what was released by the program changes)
MarkedNot(p, state) == IF table[p] = None \/ state = "autofreed" THEN table
                       ELSE [table EXCEPT ![p].state = state]

\* ct_table_remove_with_state
Marked(p, state) == IF table[p] = None \/ table[p].state # "used" THEN table
                    ELSE [table EXCEPT ![p].state = state]

\* ct_record_realloc: the old record is removed, and the new one written.
Rerecord(t) ==
  /\ Running(t, "rerecord")
  /\ LET p == op[t].call  q == op[t].ptr
     IN table' = [(IF p = q THEN table ELSE Marked(p, "freed")) EXCEPT ![q] = Used("malloc")]
  /\ To(t, Step("unpoison", op[t].ptr, "realloc", "malloc"))
  /\ UNCHANGED <<flagVars, traceVars, heap, owner, poisoned>>

\* ct_release_tracked_pointer and munmap: an untracked block is released as the call
\* says, one that was released before is skipped, but not by munmap.
ReleaseCall(t) ==
  /\ Running(t, "release_call")
  /\ LET p == op[t].ptr  api == op[t].call
         release(kind) == To(t, Step("release", p, ByCalledApi(api, kind), kind))
     IN IF ~ On_("ALLOC") \/ table[p] = None THEN release(op[t].kind) /\ UNCHANGED table
        ELSE IF table[p].state # "used" /\ api # "munmap" THEN To(t, Idle) /\ UNCHANGED table
        ELSE /\ table' = Marked(p, "freed")
             /\ To(t, Step("poison", p, ByCalledApi(api, table[p].kind), table[p].kind))
  /\ UNCHANGED <<flagVars, traceVars, heap, owner, poisoned>>

\* ct_autofree_impl: nothing unless it is on, and only what is tracked.
AutofreeCall(t) ==
  /\ Running(t, "autofree_call")
  /\ LET p == op[t].ptr
     IN IF {"ALLOC", "AUTOFREE"} \subseteq flags /\ table[p] # None /\ table[p].state = "used"
        THEN /\ table' = Marked(p, "autofreed")
             /\ To(t, Step("poison", p, ByKind(table[p].kind), table[p].kind)) /\ UNCHANGED owner
        ELSE To(t, Idle) /\ owner' = [owner EXCEPT ![p] = t] /\ UNCHANGED table
  /\ UNCHANGED <<flagVars, traceVars, heap, poisoned>>

\* ct_track_shadow_free
Poison(t) ==
  /\ Running(t, "poison")
  /\ poisoned' = IF On_("SHADOW") THEN poisoned \cup {op[t].ptr} ELSE poisoned
  /\ To(t, [op[t] EXCEPT !.step = "release"])
  /\ UNCHANGED <<flagVars, traceVars, heap, owner, table>>

Release(t) ==
  /\ Running(t, "release")
  /\ heap' = [heap EXCEPT ![op[t].ptr] = None]
  /\ To(t, Idle)
  /\ UNCHANGED <<flagVars, traceVars, owner, table, poisoned>>

Next ==
  \/ FlagSteps /\ UNCHANGED <<heapVars, op>>
  \/ \E t \in Threads :
       \/ Call(t) \/ Allocate(t) \/ AllocateFails(t) \/ Record(t) \/ Unpoison(t) \/ Realloc(t) \/ Rerecord(t)
       \/ ReleaseCall(t) \/ AutofreeCall(t) \/ Poison(t) \/ Release(t)
Spec == Init /\ [][Next]_vars

-----------------------------------------------------------------------------
\* Types, and the counters of the early trace: no line too many.
TypeOK ==
  /\ FlagsTypeOK
  /\ heap \in [Ptrs -> Kinds \cup {None}] /\ owner \in [Ptrs -> Threads \cup {None}]
  /\ table \in [Ptrs -> Records \cup {None}]
  /\ poisoned \subseteq Ptrs

\* The CtLeakReporter lists what the program holds, and nothing else, if blocks are
\* tracked: also after realloc, releases of every kind and automatic ones.  A block that
\* could not be recorded is missing.  A block in use is accessible.  If blocks are not
\* tracked it lists nothing, unless a thread called before the features were set.
LeakReportExact ==
  (\A t \in Threads : op[t] = Idle /\ Applied(t)) /\ constructed =>
    LET used == {p \in Ptrs : table[p] # None /\ table[p].state = "used"}
        held == {p \in Ptrs : owner[p] # None}
    IN /\ held = {p \in Ptrs : heap[p] # None}
       /\ IF On_("ALLOC") THEN used = {p \in held : table[p] # None} /\ held \cap poisoned = {}
          ELSE used \cup poisoned = {} \/ EarlyThreads

\* Memory is released by the function of its family.  Aligned memory that has no record,
\* as none has when tracking is disabled, is not: free is all that is known of it.
Family(function) == IF function = "_aligned_free" THEN "aligned" ELSE DefaultKind(function)
FamilyMatches ==
  \A t \in Threads : op[t].step = "release" =>
    LET p == op[t].ptr
    IN \/ Family(op[t].call) = heap[p]
       \/ heap[p] = "aligned" /\ (table[p] = None \/ ~ On_("ALLOC"))
=============================================================================
