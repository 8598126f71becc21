---------------------------- MODULE AllocRuntime ----------------------------
(***************************************************************************)
(* The calls of src/runtime/ct_runtime_alloc.cpp that an instrumented      *)
(* program makes instead of malloc, new, free, delete and realloc, by      *)
(* several threads.  A call is a sequence of steps: one per critical       *)
(* section of ct_alloc_lock, one per change of the shadow memory, one per  *)
(* call of the real allocator, which hands out any address that is free,   *)
(* so that an address released by one thread may be another's next block.  *)
(* The allocation table is AllocLedger, which AllocTable implements.       *)
(* The program itself makes no error: it releases blocks it owns, once,    *)
(* with the function that matches.  Features ALLOC and AUTOFREE are on and *)
(* CT_AUTOFREE_SCAN is off, the defaults; SHADOW is on (--ct-shadow).  A   *)
(* block is one unit for the shadow, and what Infos records of it is used  *)
(* by no step.                                                             *)
(***************************************************************************)
EXTENDS AllocLedger

CONSTANTS
  Threads,
  Calls,  \* which calls the program makes
  Serial  \* which of them it keeps apart from all other calls

ASSUME CallsAssumption ==
  /\ Calls \subseteq {"alloc", "alloc_unused", "free", "autofree", "realloc", "realloc_in_place"}
  /\ Serial \subseteq Calls
ASSUME NobodyAssumption == None \notin Ptrs \cup Infos \cup Threads

VARIABLES
  heap,      \* the real allocator: addresses of the blocks that exist
  poisoned,  \* blocks whose shadow says that no byte may be accessed
  owner,     \* the thread whose program code may use the block at p, or None
  holder,    \* the thread inside ct_alloc_lock between two steps, or None
  th         \* th[t]: where thread t is in a call, and the call's variables

vars == <<live, freed, autofreed, reply, heap, poisoned, owner, holder, th>>
tableVars == <<live, freed, autofreed, reply>>

\* ptr: the block the call is about; to: new_ptr of realloc; had: its
\* had_entry; again: a second __ct_autofree of ptr follows (see AutofreeDone);
\* alone: no other call is made meanwhile.
Idle == [pc |-> "idle", ptr |-> None, to |-> None, had |-> 0, again |-> FALSE, alone |-> FALSE]

Init ==
  /\ LedgerInit
  /\ heap = {}
  /\ poisoned = Ptrs                 \* pages of the shadow start as 0xFF
  /\ owner = [p \in Ptrs |-> None]
  /\ holder = None
  /\ th = [t \in Threads |-> Idle]

At(t, pc) == th[t].pc = pc
Goto(t, pc) == th' = [th EXCEPT ![t].pc = pc]
Return(t) == th' = [th EXCEPT ![t] = Idle]

\* The program makes no call while a serial one is under way, as a lock of its
\* own or being single-threaded ensures.
MayCall(t, call) ==
  /\ call \in Calls
  /\ \A u \in Threads \ {t} : ~ th[u].alone /\ (call \in Serial => At(u, "idle"))

\* ct_lock_acquire: a critical section starts when no other is in progress.
Locked(t) == holder \in {None, t}

-----------------------------------------------------------------------------
(* malloc, calloc, new, new[], their nothrow forms, posix_memalign and     *)
(* aligned_alloc.  A failed allocation changes nothing and is left out.    *)

\* The real allocator returns p.  The compiler turns an allocation whose result
\* is not used into the __ct_*_unreachable form and a __ct_autofree after it.
Allocate(t, p) ==
  /\ At(t, "idle")
  /\ p \notin heap
  /\ heap' = heap \cup {p}
  /\ \E call \in {"alloc", "alloc_unused"} :
       /\ MayCall(t, call)
       /\ th' = [th EXCEPT ![t] = [Idle EXCEPT !.pc = "insert", !.ptr = p,
                                   !.again = (call = "alloc_unused"), !.alone = (call \in Serial)]]
  /\ UNCHANGED <<tableVars, poisoned, owner, holder>>

\* (a faulty InsertBlock: some allocation function does not record its block)
InsertBlockNone(t) ==
  /\ At(t, "insert") /\ Locked(t)
  /\ Goto(t, "unpoison")
  /\ UNCHANGED <<tableVars, heap, poisoned, owner, holder>>

\* A full table is logged, and the block handed out all the same.
InsertBlock(t) ==
  /\ At(t, "insert") /\ Locked(t)
  /\ (\E i \in Infos : Record(th[t].ptr, i)) \/ RefuseRecord(th[t].ptr)
  /\ Goto(t, "unpoison")
  /\ UNCHANGED <<heap, poisoned, owner, holder>>

\* (a faulty Hand: the program may use a block the call is about to release)
HandKeeps(t) ==
  /\ IF th[t].again THEN Goto(t, "autoremove") ELSE Return(t)
  /\ owner' = [owner EXCEPT ![th[t].ptr] = t]

\* The __ct_*_unreachable forms go on with __ct_autofree, whatever the kind of
\* the block; the others return the block to the program.
Hand(t) ==
  IF th[t].again
  THEN Goto(t, "autoremove") /\ UNCHANGED owner
  ELSE Return(t) /\ owner' = [owner EXCEPT ![th[t].ptr] = t]

\* (a faulty TrackShadow: the shadow of an earlier block at p is left as it was)
TrackShadowNone(t) ==
  /\ At(t, "unpoison")
  /\ Hand(t)
  /\ UNCHANGED <<tableVars, heap, poisoned, holder>>

TrackShadow(t) ==
  /\ At(t, "unpoison")
  /\ poisoned' = poisoned \ {th[t].ptr}
  /\ Hand(t)
  /\ UNCHANGED <<tableVars, heap, holder>>

-----------------------------------------------------------------------------
(* __ct_free, the delete functions, and __ct_autofree and its variants     *)

\* The program gives p up.
Call(t, p, call, pc) ==
  /\ At(t, "idle")
  /\ MayCall(t, call)
  /\ owner[p] = t
  /\ owner' = [owner EXCEPT ![p] = None]
  /\ th' = [th EXCEPT ![t] = [Idle EXCEPT !.pc = pc, !.ptr = p, !.alone = (call \in Serial)]]
  /\ UNCHANGED <<tableVars, heap, poisoned, holder>>

Free(t, p) == Call(t, p, "free", "remove")

\* The call the compiler adds before the returns of a function for a block that
\* does not outlive it.
Autofree(t, p) == Call(t, p, "autofree", "autoremove")

\* (two faulty AfterRemove: a block the table does not know is never released;
\* the shadow of a released block is not poisoned)
AfterRemoveKnownOnly(t, res) ==
  IF res = 1 THEN Goto(t, "poison") ELSE IF res = 0 THEN Return(t) ELSE Goto(t, "double_free")
AfterRemoveUnpoisoned(t, res) ==
  IF res = -1 THEN Goto(t, "double_free") ELSE Goto(t, "release")

\* 1: poison, then release; 0, unknown: release; -1: report a double free.
AfterRemove(t, res) ==
  Goto(t, CASE res = 1 -> "poison" [] res = 0 -> "release" [] res = -1 -> "double_free")

RemoveBlock(t) ==
  /\ At(t, "remove") /\ Locked(t)
  /\ Release(th[t].ptr)
  /\ AfterRemove(t, reply'.res)
  /\ UNCHANGED <<heap, poisoned, owner, holder>>

\* An unused allocation has been released by the call itself; the call of
\* __ct_autofree that wrapAllocCalls adds after it comes next, without the lock
\* having been held in between.
AutofreeDone(t) ==
  IF th[t].again
  THEN th' = [th EXCEPT ![t].pc = "autoremove", ![t].again = FALSE]
  ELSE Return(t)

\* (a faulty AutoRemoveBlock: the record stays when the block goes)
AutoRemoveBlockKeeps(t) ==
  /\ At(t, "autoremove") /\ Locked(t)
  /\ Query(th[t].ptr)
  /\ IF reply'.state = "USED" THEN Goto(t, "poison") ELSE AutofreeDone(t)
  /\ UNCHANGED <<heap, poisoned, owner, holder>>

\* What is not tracked as live is left alone.
AutoRemoveBlock(t) ==
  /\ At(t, "autoremove") /\ Locked(t)
  /\ AutoRelease(th[t].ptr)
  /\ IF reply'.res = 1 THEN Goto(t, "poison") ELSE AutofreeDone(t)
  /\ UNCHANGED <<heap, poisoned, owner, holder>>

PoisonBlock(t) ==
  /\ At(t, "poison")
  /\ poisoned' = poisoned \cup {th[t].ptr}
  /\ Goto(t, "release")
  /\ UNCHANGED <<tableVars, heap, owner, holder>>

\* free or operator delete of the system; a block that is reported as freed twice
\* is not released.
ReleaseBlock(t) ==
  /\ \/ At(t, "release") /\ heap' = heap \ {th[t].ptr} /\ AutofreeDone(t)
     \/ At(t, "double_free") /\ Return(t) /\ UNCHANGED heap
  /\ UNCHANGED <<tableVars, poisoned, owner, holder>>

-----------------------------------------------------------------------------
(* __ct_realloc                                                            *)

Realloc(t, p) == \E call \in {"realloc", "realloc_in_place"} : Call(t, p, call, "relookup")

ReallocLookup(t) ==
  /\ At(t, "relookup") /\ Locked(t)
  /\ Query(th[t].ptr)
  /\ th' = [th EXCEPT ![t].pc = "resize", ![t].had = reply'.res]
  /\ UNCHANGED <<heap, poisoned, owner, holder>>

\* The real realloc fails, and the program keeps its block, or resizes it where
\* it is ...
ResizeInPlace(t) ==
  /\ At(t, "resize")
  /\ \/ Return(t) /\ owner' = [owner EXCEPT ![th[t].ptr] = t]
     \/ th' = [th EXCEPT ![t].pc = "reinsert", ![t].to = th[t].ptr] /\ UNCHANGED owner
  /\ UNCHANGED <<tableVars, heap, poisoned, holder>>

\* ... or releases it, for a block elsewhere or, asked for no byte, for none.
ResizeMove(t) ==
  /\ At(t, "resize")
  /\ "realloc" \in Calls /\ ("realloc" \in Serial => th[t].alone)
  /\ \E q \in (Ptrs \ heap) \cup {None} :
       /\ heap' = (heap \ {th[t].ptr}) \cup ({q} \ {None})
       /\ th' = [th EXCEPT ![t].pc = "reremove", ![t].to = q]
  /\ UNCHANGED <<tableVars, poisoned, owner, holder>>

\* The old pointer is removed and the new one inserted in one critical section.
ReallocRemove(t) ==
  /\ At(t, "reremove") /\ Locked(t)
  /\ Release(th[t].ptr)
  /\ IF th[t].to = None
     THEN Goto(t, "repoison") /\ UNCHANGED holder
     ELSE Goto(t, "reinsert") /\ holder' = t
  /\ UNCHANGED <<heap, poisoned, owner>>

ReallocInsert(t) ==
  /\ At(t, "reinsert") /\ Locked(t)
  /\ (\E i \in Infos : Record(th[t].to, i)) \/ RefuseRecord(th[t].to)
  /\ holder' = None
  /\ Goto(t, "repoison")
  /\ UNCHANGED <<heap, poisoned, owner>>

\* TrackShadow follows for the new block.
ReallocTrack(t) ==
  th' = [th EXCEPT ![t] = [Idle EXCEPT !.pc = "unpoison", !.ptr = th[t].to, !.alone = th[t].alone]]

\* (a faulty ReallocPoison: realloc to no byte is taken for a move)
ReallocPoisonAnyway(t) ==
  /\ At(t, "repoison")
  /\ poisoned' = IF th[t].had = 1 /\ th[t].to # th[t].ptr
                 THEN poisoned \cup {th[t].ptr} ELSE poisoned
  /\ ReallocTrack(t)
  /\ UNCHANGED <<tableVars, heap, owner, holder>>

ReallocPoison(t) ==
  /\ At(t, "repoison")
  /\ poisoned' = IF th[t].had = 1 /\ th[t].to # th[t].ptr
                 THEN poisoned \cup {th[t].ptr} ELSE poisoned
  /\ IF th[t].to = None THEN Return(t) ELSE ReallocTrack(t)
  /\ UNCHANGED <<tableVars, heap, owner, holder>>

-----------------------------------------------------------------------------
\* A thread inside a call goes on.
Step(t) ==
  \/ InsertBlock(t) \/ TrackShadow(t)
  \/ RemoveBlock(t) \/ AutoRemoveBlock(t)
  \/ PoisonBlock(t) \/ ReleaseBlock(t)
  \/ ReallocLookup(t) \/ ResizeInPlace(t) \/ ResizeMove(t)
  \/ ReallocRemove(t) \/ ReallocInsert(t) \/ ReallocPoison(t)

Next ==
  \E t \in Threads :
    \/ \E p \in Ptrs : Allocate(t, p) \/ Free(t, p) \/ Autofree(t, p) \/ Realloc(t, p)
    \/ Step(t)

Spec == Init /\ [][Next]_vars

\* The system schedules every thread, and no thread waits for ct_alloc_lock
\* forever while others take and release it.
FairSpec == Spec /\ \A t \in Threads : WF_vars(Step(t))

-----------------------------------------------------------------------------
(* Properties                                                              *)

TableCalls == {"none", "insert", "remove", "remove_autofree", "lookup"}

\* The type invariant.
TypeOK ==
  /\ live \in [Ptrs -> Infos \cup {None}]
  /\ freed \subseteq Ptrs /\ autofreed \subseteq Ptrs
  /\ reply \in [call : TableCalls, res : {-2, -1, 0, 1}, state : States, info : Infos \cup {None}]
  /\ heap \subseteq Ptrs /\ poisoned \subseteq Ptrs
  /\ owner \in [Ptrs -> Threads \cup {None}]
  /\ holder \in Threads \cup {None}
  /\ th \in [Threads ->
              [pc : {"idle", "insert", "unpoison", "remove", "double_free", "autoremove",
                     "poison", "release", "relookup", "resize", "reremove", "reinsert",
                     "repoison"},
               ptr : Ptrs \cup {None}, to : Ptrs \cup {None}, had : {0, 1},
               again : BOOLEAN, alone : BOOLEAN]]
  /\ \A t \in Threads :
       /\ ~ At(t, "idle") => th[t].ptr \in Ptrs
       /\ At(t, "reinsert") => th[t].to \in Ptrs
       /\ holder = t => At(t, "reinsert")

\* The program never uses a block that is gone: the runtime releases nothing on
\* its own that the program may still use.  This is what automatic release of
\* unreachable allocations means (README.md:88).
OwnedAllocated == \A p \in Ptrs : owner[p] # None => p \in heap

\* Nor is an access to a block it owns reported: the shadow of an earlier block
\* at the same address, and the poisoning of that block on its release, do not
\* reach into the new one (src/runtime/ct_runtime_alloc.cpp:1595, 2885).
OwnedUnpoisoned == \A p \in Ptrs : owner[p] # None => p \notin poisoned

\* A program that frees each block once is never told that it freed one twice,
\* whatever address its blocks get (line 2872); reporting one also leaks it.
NoFalseDoubleFree == \A t \in Threads : ~ At(t, "double_free")

AllIdle == \A t \in Threads : At(t, "idle")

\* When no call is under way the leak report names no block that the program
\* has given up.  While the table has room, it names every other one, and what
\* was given up was really released (line 2937).
LeakReportExact ==
  AllIdle => \A p \in Ptrs :
    /\ live[p] # None => owner[p] # None
    /\ Cardinality(Ptrs) <= MinCapacity =>
         (owner[p] # None <=> live[p] # None) /\ (owner[p] # None <=> p \in heap)

\* While the table has room, no access to a released block goes unreported: its
\* shadow is poisoned when it goes, and stays so until the address is handed out
\* again.
ReleasedPoisoned ==
  Cardinality(Ptrs) <= MinCapacity =>
    \A p \in Ptrs : p \notin heap /\ (\A t \in Threads : th[t].ptr # p) => p \in poisoned

\* A block the program frees is released, tracked or not; so is a tracked one
\* the runtime frees for it.
FreeReleases ==
  \A t \in Threads, p \in Ptrs :
    /\ th[t].ptr = p
    /\ At(t, "remove") \/ (At(t, "autoremove") /\ live[p] # None)
    ~> p \notin heap
=============================================================================
