-------------------------- MODULE AutofreeGcProofs --------------------------
(***************************************************************************)
(* Proofs about AutofreeGc, for every number of threads and blocks, every  *)
(* setting of the collector, and whatever fails.                           *)
(***************************************************************************)
EXTENDS AutofreeGc, Integers, FiniteSetTheorems, TLAPS

-----------------------------------------------------------------------------
(* Types                                                                   *)

Pcs == {"idle", "enter", "sleep", "malloc", "record", "snapshot", "lock", "suspend", "kernel", "mark",
        "count", "items", "collect", "free", "clear", "ptr_snapshot", "ptr_found", "ptr_clear",
        "remove", "release"}
Calls == [pc : Pcs, ptr : Blocks \cup {None}, snap : SUBSET Threads, todo : SUBSET Threads,
          late : BOOLEAN, n : 0..Cardinality(Blocks), items : SUBSET Blocks, checked : BOOLEAN]

\* Types, but for that susp[t] is not negative, which needs Counted.
Typed ==
  /\ used \subseteq Blocks /\ marked \subseteq Blocks /\ heap \subseteq Blocks
  /\ roots \in [Threads \cup {Globals} -> SUBSET Blocks]
  /\ maker \in [Blocks -> Threads \cup {None}]
  /\ links \subseteq Blocks \X Blocks
  /\ alive \subseteq Threads
  /\ susp \in [Threads -> Int]
  /\ {lock, mlock} \subseteq Threads \cup {None}
  /\ inProgress \in BOOLEAN /\ due \in BOOLEAN
  /\ th \in [Threads -> Calls]

LEMMA CardBlocks ==
  /\ Cardinality(Blocks) \in Nat
  /\ \A S \in SUBSET Blocks : Cardinality(S) \in 0..Cardinality(Blocks)
<1>1. IsFiniteSet(Blocks)
  BY GcAssumption
<1>2. ASSUME NEW S \in SUBSET Blocks PROVE IsFiniteSet(S) /\ Cardinality(S) <= Cardinality(Blocks)
  BY <1>1, FS_Subset
<1> QED BY <1>1, <1>2, FS_CardinalityType

LEMMA LocalTyped == ASSUME NEW pc \in Pcs PROVE Local(pc) \in Calls
BY CardBlocks DEF Local, Calls

\* The steps that change more than the place where a thread is.
LEMMA CallTyped ==
  ASSUME NEW f \in Calls, NEW pc \in Pcs
  PROVE  /\ \A b \in Blocks : [f EXCEPT !.pc = pc, !.ptr = b] \in Calls
         /\ \A X, Y \in SUBSET Threads : [f EXCEPT !.pc = pc, !.snap = X, !.todo = Y] \in Calls
         /\ \A X \in SUBSET Threads : /\ [f EXCEPT !.pc = pc, !.snap = X] \in Calls
                                      /\ [f EXCEPT !.pc = pc, !.todo = X] \in Calls
                                      /\ [f EXCEPT !.pc = pc, !.snap = X, !.checked = TRUE] \in Calls
         /\ \A n \in 0..Cardinality(Blocks) : [f EXCEPT !.pc = pc, !.n = n] \in Calls
         /\ \A S \in SUBSET Blocks : [f EXCEPT !.pc = pc, !.items = S] \in Calls
BY CardBlocks DEF Calls

LEMMA InitTyped == Init => Typed
<1> SUFFICES ASSUME Init PROVE Typed
  OBVIOUS
<1>1. \A t \in Threads : Local(Start(t)) \in Calls
  BY LocalTyped DEF Start, Pcs
<1>2. th \in [Threads -> Calls]
  BY <1>1 DEF Init
<1>3. alive \subseteq Threads /\ due \in BOOLEAN
  BY GcAssumption DEF Init
<1>4. /\ roots \in [Threads \cup {Globals} -> SUBSET Blocks]
      /\ maker \in [Blocks -> Threads \cup {None}]
      /\ susp \in [Threads -> Int]
  BY DEF Init
<1> QED BY <1>2, <1>3, <1>4 DEF Init, Typed

LEMMA TypedStep == 
  ASSUME Typed, Next, \A t \in Threads : th[t].pc = "record" => th[t].ptr \in Blocks
  PROVE  Typed'
<1> USE DEF table, program
<1>0. th \in [Threads -> Calls]
  BY DEF Typed
<1>t. \A t \in Threads : th[t] \in Calls
  BY <1>0
<1>l. ASSUME NEW t \in Threads, Leave(t) PROVE th' \in [Threads -> Calls]
  BY <1>0, <1>l, LocalTyped DEF Leave, Pcs
<1>g. ASSUME NEW t \in Threads, NEW pc \in Pcs, Goto(t, pc) PROVE th' \in [Threads -> Calls]
  BY <1>0, <1>g DEF Goto, Calls
<1>c. ASSUME NEW t \in Threads, NEW f \in Calls, th' = [th EXCEPT ![t] = f]
      PROVE  th' \in [Threads -> Calls]
  BY <1>0, <1>c
<1>1. CASE Sleep
  BY <1>1, <1>g, GcAssumption DEF Sleep, Typed, Pcs
<1>2. ASSUME NEW t \in Threads, EnterMalloc(t) PROVE Typed'
  BY <1>2, <1>g DEF EnterMalloc, Typed, Pcs
<1>3. ASSUME NEW t \in Threads, NEW b \in Blocks, Mutate(t, b) PROVE Typed'
  BY <1>3 DEF Mutate, Copy, Link, Spawn, SetRoots, Typed
<1>4. ASSUME NEW t \in Threads, NEW b \in Blocks, Autofree(t, b) PROVE Typed'
  <2>1. PICK pc \in {"ptr_snapshot", "remove"} : th' = [th EXCEPT ![t].pc = pc, ![t].ptr = b]
    BY <1>4 DEF Autofree
  <2>2. th' = [th EXCEPT ![t] = [th[t] EXCEPT !.pc = pc, !.ptr = b]]
    BY <1>0, <2>1 DEF Calls
  <2>9. [th[t] EXCEPT !.pc = pc, !.ptr = b] \in Calls
    BY <1>t, CallTyped, CardBlocks DEF Pcs, Typed
  <2>3. th' \in [Threads -> Calls]
    BY <1>c, <2>2, <2>9
  <2> QED BY <1>4, <2>3 DEF Autofree, Typed
<1>5. ASSUME NEW t \in Threads, LeaveMalloc(t) PROVE Typed'
  <2>1. th' \in [Threads -> Calls]
    <3>1. CASE Leave(t)
      BY <3>1, <1>l
    <3>2. ASSUME NEW b \in Blocks, th' = [th EXCEPT ![t].pc = "record", ![t].ptr = b]
          PROVE  th' \in [Threads -> Calls]
      <4>1. th' = [th EXCEPT ![t] = [th[t] EXCEPT !.pc = "record", !.ptr = b]]
        BY <1>0, <3>2 DEF Calls
      <4>2. [th[t] EXCEPT !.pc = "record", !.ptr = b] \in Calls
        BY <1>t, CallTyped, CardBlocks DEF Pcs, Typed
      <4> QED BY <1>c, <4>1, <4>2
    <3> QED BY <1>5, <3>1, <3>2 DEF LeaveMalloc
  <2> QED BY <1>5, <2>1 DEF LeaveMalloc, Typed
<1>6. ASSUME NEW t \in Threads, RecordBlock(t) PROVE Typed'
  <2>1. th[t].ptr \in Blocks
    BY <1>6 DEF RecordBlock, At
  <2> QED BY <1>6, <1>l, <2>1 DEF RecordBlock, Typed
<1>7. ASSUME NEW t \in Threads, CallSuspend(t) PROVE Typed'
  BY <1>7, <1>g DEF CallSuspend, Typed, Pcs
<1>8. ASSUME NEW t \in Threads, Suspend(t) PROVE Typed'
  BY <1>8 DEF Suspend, Typed, Calls, Pcs
<1>9. ASSUME NEW t \in Threads, EnterScan(t) PROVE Typed'
  BY <1>9, <1>l, <1>g DEF EnterScan, Typed, Pcs
<1>10. ASSUME NEW t \in Threads, Snapshot(t) PROVE Typed'
  <2>1. th' \in [Threads -> Calls]
    <3>1. CASE Leave(t)
      BY <3>1, <1>l
    <3>2. CASE th' = [th EXCEPT ![t].pc = "lock", ![t].snap = alive]
      <4>1. th' = [th EXCEPT ![t] = [th[t] EXCEPT !.pc = "lock", !.snap = alive]]
        BY <1>0, <3>2 DEF Calls
      <4>9. [th[t] EXCEPT !.pc = "lock", !.snap = alive] \in Calls
        BY <1>t, CallTyped, CardBlocks DEF Pcs, Typed
      <4> QED BY <1>c, <4>1, <4>9
    <3> QED BY <1>10, <3>1, <3>2 DEF Snapshot
  <2> QED BY <1>10, <2>1 DEF Snapshot, Typed
<1>11. ASSUME NEW t \in Threads, LockTable(t) PROVE Typed'
  <2>1. th' = [th EXCEPT ![t] = [th[t] EXCEPT !.pc = "suspend", !.todo = th[t].snap \ {t}]]
    BY <1>0, <1>11 DEF LockTable, Calls
  <2>2. th[t].snap \ {t} \subseteq Threads
    BY <1>0 DEF Calls
  <2>9. [th[t] EXCEPT !.pc = "suspend", !.todo = th[t].snap \ {t}] \in Calls
    BY <1>t, <2>2, CallTyped, CardBlocks DEF Pcs, Typed
  <2>3. th' \in [Threads -> Calls]
    BY <1>c, <2>1, <2>9
  <2> QED BY <1>11, <2>3 DEF LockTable, Typed
<1>12. ASSUME NEW t \in Threads, ClearMarks(t) PROVE Typed'
  <2>1. th' = [th EXCEPT ![t] = [th[t] EXCEPT !.pc = "mark", !.todo = th[t].snap]]
    BY <1>0, <1>12 DEF ClearMarks, Calls
  <2>2. th[t].snap \subseteq Threads
    BY <1>0 DEF Calls
  <2>9. [th[t] EXCEPT !.pc = "mark", !.todo = th[t].snap] \in Calls
    BY <1>t, <2>2, CallTyped, CardBlocks DEF Pcs, Typed
  <2>3. th' \in [Threads -> Calls]
    BY <1>c, <2>1, <2>9
  <2> QED BY <1>12, <2>3 DEF ClearMarks, Typed
<1>13. ASSUME NEW t \in Threads, MarkThread(t) PROVE Typed'
  <2>1. marked' \subseteq Blocks
    BY <1>13 DEF MarkThread, MarkRoots, PointedTo, Typed
  <2>2. th' \in [Threads -> Calls]
    BY <1>0, <1>13 DEF MarkThread, MarkRoots, Calls, Pcs
  <2> QED BY <1>13, <2>1, <2>2 DEF MarkThread, Typed
<1>14. ASSUME NEW t \in Threads, MarkGlobals(t) PROVE Typed'
  <2>1. marked' \subseteq Blocks
    BY <1>14 DEF MarkGlobals, MarkRoots, PointedTo, Typed
  <2>2. th' \in [Threads -> Calls]
    BY <1>0, <1>14 DEF MarkGlobals, MarkRoots, Calls, Pcs
  <2> QED BY <1>14, <2>1, <2>2 DEF MarkGlobals, Typed
<1>15. ASSUME NEW t \in Threads, CountUnmarked(t) PROVE Typed'
  <2>1. PICK n \in {0, Cardinality(used \ marked)}, pc \in {"collect", "items"} :
          th' = [th EXCEPT ![t].pc = pc, ![t].n = n]
    BY <1>15 DEF CountUnmarked
  <2>2. th' = [th EXCEPT ![t] = [th[t] EXCEPT !.pc = pc, !.n = n]]
    BY <1>0, <2>1 DEF Calls
  <2>3. n \in 0..Cardinality(Blocks)
    BY CardBlocks DEF Typed
  <2>9. [th[t] EXCEPT !.pc = pc, !.n = n] \in Calls
    BY <1>t, <2>3, CallTyped, CardBlocks DEF Pcs, Typed
  <2>4. th' \in [Threads -> Calls]
    BY <1>c, <2>2, <2>9
  <2> QED BY <1>15, <2>4 DEF CountUnmarked, Typed
<1>16. ASSUME NEW t \in Threads, AllocItems(t) PROVE Typed'
  <2>1. th' \in [Threads -> Calls]
    <3>1. CASE Goto(t, "collect")
      BY <3>1, <1>g DEF Pcs
    <3>2. CASE th' = [th EXCEPT ![t].pc = "collect", ![t].n = 0]
      <4>1. th' = [th EXCEPT ![t] = [th[t] EXCEPT !.pc = "collect", !.n = 0]]
        BY <1>0, <3>2 DEF Calls
      <4>9. [th[t] EXCEPT !.pc = "collect", !.n = 0] \in Calls
        <5>1. 0 \in 0..Cardinality(Blocks)
          BY CardBlocks
        <5> QED BY <5>1, <1>t, CallTyped DEF Pcs
      <4> QED BY <1>c, <4>1, <4>9
    <3> QED BY <1>16, <3>1, <3>2 DEF AllocItems
  <2> QED BY <1>16, <2>1 DEF AllocItems, Typed
<1>17. ASSUME NEW t \in Threads, Collect(t) PROVE Typed'
  <2>1. PICK S \in SUBSET Blocks :
          used' = used \ S /\ th' = [th EXCEPT ![t].pc = "free", ![t].items = S]
    BY <1>17 DEF Collect, FirstUnmarked, Typed
  <2>2. th' = [th EXCEPT ![t] = [th[t] EXCEPT !.pc = "free", !.items = S]]
    BY <1>0, <2>1 DEF Calls
  <2>9. [th[t] EXCEPT !.pc = "free", !.items = S] \in Calls
    BY <1>t, CallTyped, CardBlocks DEF Pcs, Typed
  <2>3. th' \in [Threads -> Calls]
    BY <1>c, <2>2, <2>9
  <2> QED BY <1>17, <2>1, <2>3 DEF Collect, Typed
<1>18. ASSUME NEW t \in Threads, FreeItem(t) PROVE Typed'
  BY SMTT(30), <1>18 DEF FreeItem, Typed, Calls
<1>19. ASSUME NEW t \in Threads, Resume(t) PROVE Typed'
  <2>1. th' = [th EXCEPT ![t] = [th[t] EXCEPT !.pc = "clear", !.snap = {}]]
    BY <1>0, <1>19 DEF Resume, Calls
  <2>9. [th[t] EXCEPT !.pc = "clear", !.snap = {}] \in Calls
    BY <1>t, CallTyped, CardBlocks DEF Pcs, Typed
  <2>2. th' \in [Threads -> Calls]
    BY <1>c, <2>1, <2>9
  <2> QED BY <1>19, <2>2 DEF Resume, ResumeAll, Typed
<1>20. ASSUME NEW t \in Threads, ClearFlag(t) PROVE Typed'
  BY <1>20, <1>l DEF ClearFlag, Typed
<1>21. ASSUME NEW t \in Threads, PtrSnapshot(t) PROVE Typed'
  <2>1. th' \in [Threads -> Calls]
    <3>1. CASE Goto(t, "remove")
      BY <3>1, <1>g DEF Pcs
    <3>2. CASE th' = [th EXCEPT ![t].pc = "suspend", ![t].snap = alive, ![t].todo = alive \ {t}]
      <4>1. th' = [th EXCEPT ![t] = [th[t] EXCEPT !.pc = "suspend", !.snap = alive, !.todo = alive \ {t}]]
        BY <1>0, <3>2 DEF Calls
      <4>2. alive \in SUBSET Threads /\ alive \ {t} \in SUBSET Threads
        BY DEF Typed
      <4>3. [th[t] EXCEPT !.pc = "suspend", !.snap = alive, !.todo = alive \ {t}] \in Calls
        BY <1>t, <4>2, CallTyped DEF Pcs
      <4> QED BY <1>c, <4>1, <4>3
    <3> QED BY <1>21, <3>1, <3>2 DEF PtrSnapshot
  <2> QED BY <1>21, <2>1 DEF PtrSnapshot, Typed
<1>22. ASSUME NEW t \in Threads, PtrScan(t) PROVE Typed'
  BY <1>22, <1>g DEF PtrScan, Typed, Pcs
<1>23. ASSUME NEW t \in Threads, PtrResume(t) PROVE Typed'
  <2>1. th' \in [Threads -> Calls]
    <3>1. CASE Leave(t)
      BY <3>1, <1>l
    <3>2. CASE th' = [th EXCEPT ![t].pc = "remove", ![t].snap = {}, ![t].checked = TRUE]
      <4>1. th' = [th EXCEPT ![t] = [th[t] EXCEPT !.pc = "remove", !.snap = {}, !.checked = TRUE]]
        BY <1>0, <3>2 DEF Calls
      <4>9. [th[t] EXCEPT !.pc = "remove", !.snap = {}, !.checked = TRUE] \in Calls
        BY <1>t, CallTyped, CardBlocks DEF Pcs, Typed
      <4> QED BY <1>c, <4>1, <4>9
    <3> QED BY <1>23, <3>1, <3>2 DEF PtrResume
  <2> QED BY <1>23, <2>1 DEF PtrResume, ResumeAll, SetRoots, Typed
<1>24. ASSUME NEW t \in Threads, Remove(t) PROVE Typed'
  BY <1>24, <1>l, <1>g DEF Remove, SetRoots, Typed, Pcs
<1>25. ASSUME NEW t \in Threads, ReleasePtr(t) PROVE Typed'
  BY <1>25, <1>l DEF ReleasePtr, SetRoots, Typed
<1> QED
  BY <1>1, <1>2, <1>3, <1>4, <1>5, <1>6, <1>7, <1>8, <1>9, <1>10, <1>11, <1>12, <1>13, <1>14, <1>15,
     <1>16, <1>17, <1>18, <1>19, <1>20, <1>21, <1>22, <1>23, <1>24, <1>25 DEF Next, RuntimeStep

-----------------------------------------------------------------------------
(* Snapshots                                                               *)

\* Where a scan has suspended every other thread of its snapshot.
Suspended == {"mark", "count", "items", "collect", "free", "ptr_found", "ptr_clear"}

Snapshots ==
  \A t \in Threads :
    /\ th[t].pc \notin Suspended \cup {"lock", "suspend", "kernel"} => th[t].snap = {}
    /\ th[t].pc \in {"suspend", "kernel"} => th[t].todo \subseteq th[t].snap \ {t}

LEMMA InitSnapshots == Init => Snapshots
BY DEF Init, Snapshots, Local, Start, Suspended

LEMMA SnapshotsStep == ASSUME Typed, Snapshots, Next PROVE Snapshots'
<1> USE DEF Snapshots, Suspended
<1>0. th \in [Threads -> Calls]
  BY DEF Typed
<1>1. CASE Sleep
  BY <1>0, <1>1 DEF Sleep, Goto, table, At, Calls
<1>2. ASSUME NEW t \in Threads, EnterMalloc(t) PROVE Snapshots'
  BY <1>0, <1>2 DEF EnterMalloc, Goto, Program, At, Calls
<1>3. ASSUME NEW t \in Threads, NEW b \in Blocks, Mutate(t, b) PROVE Snapshots'
  BY <1>0, <1>3 DEF Mutate, Program, At, Calls
<1>4. ASSUME NEW t \in Threads, NEW b \in Blocks, Autofree(t, b) PROVE Snapshots'
  BY <1>0, <1>4 DEF Autofree, Program, At, Calls
<1>5. ASSUME NEW t \in Threads, LeaveMalloc(t) PROVE Snapshots'
  BY <1>0, <1>5 DEF LeaveMalloc, Leave, Local, At, Calls
<1>6. ASSUME NEW t \in Threads, RecordBlock(t) PROVE Snapshots'
  BY <1>0, <1>6 DEF RecordBlock, Leave, Local, At, Calls
<1>7. ASSUME NEW t \in Threads, CallSuspend(t) PROVE Snapshots'
  BY <1>0, <1>7 DEF CallSuspend, Goto, At, Calls
<1>8. ASSUME NEW t \in Threads, Suspend(t) PROVE Snapshots'
  BY <1>0, <1>8 DEF Suspend, At, Calls
<1>9. ASSUME NEW t \in Threads, EnterScan(t) PROVE Snapshots'
  BY <1>0, <1>9 DEF EnterScan, Leave, Local, Goto, At, Calls
<1>10. ASSUME NEW t \in Threads, Snapshot(t) PROVE Snapshots'
  BY <1>0, <1>10 DEF Snapshot, Leave, Local, At, Calls
<1>11. ASSUME NEW t \in Threads, LockTable(t) PROVE Snapshots'
  BY <1>0, <1>11 DEF LockTable, At, Calls
<1>12. ASSUME NEW t \in Threads, ClearMarks(t) PROVE Snapshots'
  BY <1>0, <1>12 DEF ClearMarks, At, Calls
<1>13. ASSUME NEW t \in Threads, MarkThread(t) PROVE Snapshots'
  BY <1>0, <1>13 DEF MarkThread, MarkRoots, At, Calls
<1>14. ASSUME NEW t \in Threads, MarkGlobals(t) PROVE Snapshots'
  BY <1>0, <1>14 DEF MarkGlobals, MarkRoots, At, Calls
<1>15. ASSUME NEW t \in Threads, CountUnmarked(t) PROVE Snapshots'
  BY <1>0, <1>15 DEF CountUnmarked, At, Calls
<1>16. ASSUME NEW t \in Threads, AllocItems(t) PROVE Snapshots'
  BY <1>0, <1>16 DEF AllocItems, Goto, At, Calls
<1>17. ASSUME NEW t \in Threads, Collect(t) PROVE Snapshots'
  BY <1>0, <1>17 DEF Collect, At, Calls
<1>18. ASSUME NEW t \in Threads, FreeItem(t) PROVE Snapshots'
  BY <1>0, <1>18 DEF FreeItem, At, Calls
<1>19. ASSUME NEW t \in Threads, Resume(t) PROVE Snapshots'
  BY <1>0, <1>19 DEF Resume, At, Calls
<1>20. ASSUME NEW t \in Threads, ClearFlag(t) PROVE Snapshots'
  BY <1>0, <1>20 DEF ClearFlag, Leave, Local, At, Calls
<1>21. ASSUME NEW t \in Threads, PtrSnapshot(t) PROVE Snapshots'
  BY <1>0, <1>21 DEF PtrSnapshot, Goto, At, Calls
<1>22. ASSUME NEW t \in Threads, PtrScan(t) PROVE Snapshots'
  BY <1>0, <1>22 DEF PtrScan, Goto, At, Calls
<1>23. ASSUME NEW t \in Threads, PtrResume(t) PROVE Snapshots'
  BY <1>0, <1>23 DEF PtrResume, Leave, Local, At, Calls
<1>24. ASSUME NEW t \in Threads, Remove(t) PROVE Snapshots'
  BY <1>0, <1>24 DEF Remove, Leave, Local, Goto, At, Calls
<1>25. ASSUME NEW t \in Threads, ReleasePtr(t) PROVE Snapshots'
  BY <1>0, <1>25 DEF ReleasePtr, Leave, Local, At, Calls
<1> QED   BY <1>1, <1>2, <1>3, <1>4, <1>5, <1>6, <1>7, <1>8, <1>9, <1>10, <1>11, <1>12, <1>13,
     <1>14, <1>15, <1>16, <1>17, <1>18, <1>19, <1>20, <1>21, <1>22, <1>23, <1>24, <1>25 DEF Next,
     RuntimeStep

-----------------------------------------------------------------------------
(* Suspensions                                                             *)

\* t has suspended u and not resumed it yet.
Holds(t, u) ==
  /\ u \in th[t].snap /\ th[t].pc # "lock"
  /\ th[t].pc \in {"suspend", "kernel"} => u \notin th[t].todo
Holders(u) == {t \in Threads \ {u} : Holds(t, u)}
Counted == \A u \in Threads : susp[u] = Cardinality(Holders(u))

LEMMA InitCounted == Init => Counted
<1> SUFFICES ASSUME Init, NEW u \in Threads PROVE susp[u] = Cardinality(Holders(u))
  BY DEF Counted
<1>1. Holders(u) = {}
  BY DEF Init, Holders, Holds, Local
<1> QED BY <1>1, FS_EmptySet DEF Init

LEMMA CountedStep == ASSUME Typed, Snapshots, Counted, Next PROVE Counted'
<1> USE DEF table, program
<1>0. th \in [Threads -> Calls]
  BY DEF Typed
<1>f. \A u \in Threads : IsFiniteSet(Holders(u))
  BY GcAssumption, FS_Subset DEF Holders
<1>s. ASSUME susp' = susp, \A v, u \in Threads : v # u => (Holds(v, u)' <=> Holds(v, u))
      PROVE  Counted'
  <2>1. \A u \in Threads : Holders(u)' = Holders(u)
    BY <1>s DEF Holders
  <2> QED BY <1>s, <2>1 DEF Counted
\* All threads that t has suspended are resumed.
<1>r. ASSUME NEW t \in Threads, th[t].pc \in Suspended, ResumeAll(t),
             th'[t].snap = {}, \A u \in Threads \ {t} : th'[u] = th[u]
      PROVE  Counted'
  <2> SUFFICES ASSUME NEW u \in Threads PROVE susp'[u] = Cardinality(Holders(u)')
    BY DEF Counted
  <2>1. \A v \in Threads \ {u} : Holds(v, u)' <=> Holds(v, u) /\ v # t
    BY <1>r DEF Holds
  <2>2. Holders(u)' = Holders(u) \ {t}
    BY <2>1 DEF Holders
  <2>3. t \in Holders(u) <=> u \in th[t].snap \ {t}
    BY <1>r DEF Holders, Holds, Suspended
  <2>4. Cardinality(Holders(u)') = IF t \in Holders(u) THEN Cardinality(Holders(u)) - 1
                                  ELSE Cardinality(Holders(u))
    BY <1>f, <2>2, FS_RemoveElement
  <2>5. susp'[u] = IF u \in th[t].snap \ {t} THEN susp[u] - 1 ELSE susp[u]
    BY <1>r DEF ResumeAll
  <2> QED BY <2>3, <2>4, <2>5 DEF Counted
<1>1. CASE Sleep
  <2>1. susp' = susp /\ \A v, u \in Threads : v # u => (Holds(v, u)' <=> Holds(v, u))
    BY <1>0, <1>1 DEF Sleep, Goto, Holds, At, Calls
  <2> QED BY <1>s, <2>1
<1>2. ASSUME NEW t \in Threads, EnterMalloc(t) PROVE Counted'
  <2>1. susp' = susp /\ \A v, u \in Threads : v # u => (Holds(v, u)' <=> Holds(v, u))
    BY <1>0, <1>2 DEF EnterMalloc, Goto, Program, Holds, At, Calls
  <2> QED BY <1>s, <2>1
<1>3. ASSUME NEW t \in Threads, NEW b \in Blocks, Mutate(t, b) PROVE Counted'
  <2>1. susp' = susp /\ \A v, u \in Threads : v # u => (Holds(v, u)' <=> Holds(v, u))
    BY <1>0, <1>3 DEF Mutate, Program, Holds, At, Calls
  <2> QED BY <1>s, <2>1
<1>4. ASSUME NEW t \in Threads, NEW b \in Blocks, Autofree(t, b) PROVE Counted'
  <2>1. susp' = susp /\ \A v, u \in Threads : v # u => (Holds(v, u)' <=> Holds(v, u))
    BY <1>0, <1>4 DEF Autofree, Program, Holds, At, Calls
  <2> QED BY <1>s, <2>1
<1>5. ASSUME NEW t \in Threads, LeaveMalloc(t) PROVE Counted'
  <2>1. susp' = susp /\ \A v, u \in Threads : v # u => (Holds(v, u)' <=> Holds(v, u))
    BY <1>0, <1>5 DEF LeaveMalloc, Leave, Local, Holds, Snapshots, Suspended, At, Calls
  <2> QED BY <1>s, <2>1
<1>6. ASSUME NEW t \in Threads, RecordBlock(t) PROVE Counted'
  <2>1. susp' = susp /\ \A v, u \in Threads : v # u => (Holds(v, u)' <=> Holds(v, u))
    BY <1>0, <1>6 DEF RecordBlock, Leave, Local, Holds, Snapshots, Suspended, At, Calls
  <2> QED BY <1>s, <2>1
<1>7. ASSUME NEW t \in Threads, CallSuspend(t) PROVE Counted'
  <2>1. susp' = susp /\ \A v, u \in Threads : v # u => (Holds(v, u)' <=> Holds(v, u))
    BY <1>0, <1>7 DEF CallSuspend, Goto, Holds, At, Calls
  <2> QED BY <1>s, <2>1
<1>8. ASSUME NEW t \in Threads, Suspend(t) PROVE Counted'
  <2>1. PICK v \in th[t].todo : /\ susp' = [susp EXCEPT ![v] = @ + 1]
                              /\ th' = [th EXCEPT ![t].pc = "suspend", ![t].todo = @ \ {v}]
    BY <1>8 DEF Suspend
  <2>2. th[t].pc = "kernel" /\ v \in Threads \ {t} /\ v \in th[t].snap
    BY <1>0, <1>8 DEF Suspend, Snapshots, Calls
  <2>3. \A w, u \in Threads : w # u => (Holds(w, u)' <=> Holds(w, u) \/ (w = t /\ u = v))
    BY <1>0, <2>1, <2>2 DEF Holds, Calls
  <2>4. ~ Holds(t, v)
    BY <2>2 DEF Holds
  <2>5. Holders(v)' = Holders(v) \cup {t} /\ t \notin Holders(v)
    BY <2>2, <2>3, <2>4 DEF Holders
  <2>6. susp[v]' = Cardinality(Holders(v)')
    <3>1. Cardinality(Holders(v)') = Cardinality(Holders(v)) + 1
      BY <1>f, <2>2, <2>5, FS_AddElement
    <3>2. susp[v]' = susp[v] + 1
      BY <2>1, <2>2 DEF Typed
    <3> QED BY <2>2, <3>1, <3>2 DEF Counted
  <2>7. ASSUME NEW u \in Threads, u # v PROVE susp[u]' = Cardinality(Holders(u)')
    <3>1. Holders(u)' = Holders(u)
      BY <2>3, <2>7 DEF Holders
    <3> QED BY <2>1, <2>2, <2>7, <3>1 DEF Counted, Typed
  <2> QED BY <2>6, <2>7 DEF Counted
<1>9. ASSUME NEW t \in Threads, EnterScan(t) PROVE Counted'
  <2>1. susp' = susp /\ \A v, u \in Threads : v # u => (Holds(v, u)' <=> Holds(v, u))
    BY <1>0, <1>9 DEF EnterScan, Leave, Local, Goto, Holds, Snapshots, Suspended, At, Calls
  <2> QED BY <1>s, <2>1
<1>10. ASSUME NEW t \in Threads, Snapshot(t) PROVE Counted'
  <2>1. susp' = susp /\ \A v, u \in Threads : v # u => (Holds(v, u)' <=> Holds(v, u))
    BY <1>0, <1>10 DEF Snapshot, Leave, Local, Holds, Snapshots, Suspended, At, Calls
  <2> QED BY <1>s, <2>1
<1>11. ASSUME NEW t \in Threads, LockTable(t) PROVE Counted'
  <2>1. susp' = susp /\ \A v, u \in Threads : v # u => (Holds(v, u)' <=> Holds(v, u))
    BY <1>0, <1>11 DEF LockTable, Holds, At, Calls
  <2> QED BY <1>s, <2>1
<1>12. ASSUME NEW t \in Threads, ClearMarks(t) PROVE Counted'
  <2>1. susp' = susp /\ \A v, u \in Threads : v # u => (Holds(v, u)' <=> Holds(v, u))
    BY <1>0, <1>12 DEF ClearMarks, Holds, At, Calls
  <2> QED BY <1>s, <2>1
<1>13. ASSUME NEW t \in Threads, MarkThread(t) PROVE Counted'
  <2>1. susp' = susp /\ \A v, u \in Threads : v # u => (Holds(v, u)' <=> Holds(v, u))
    BY <1>0, <1>13 DEF MarkThread, MarkRoots, Holds, At, Calls
  <2> QED BY <1>s, <2>1
<1>14. ASSUME NEW t \in Threads, MarkGlobals(t) PROVE Counted'
  <2>1. susp' = susp /\ \A v, u \in Threads : v # u => (Holds(v, u)' <=> Holds(v, u))
    BY <1>0, <1>14 DEF MarkGlobals, MarkRoots, Holds, At, Calls
  <2> QED BY <1>s, <2>1
<1>15. ASSUME NEW t \in Threads, CountUnmarked(t) PROVE Counted'
  <2>1. susp' = susp /\ \A v, u \in Threads : v # u => (Holds(v, u)' <=> Holds(v, u))
    BY <1>0, <1>15 DEF CountUnmarked, Holds, At, Calls
  <2> QED BY <1>s, <2>1
<1>16. ASSUME NEW t \in Threads, AllocItems(t) PROVE Counted'
  <2>1. susp' = susp /\ \A v, u \in Threads : v # u => (Holds(v, u)' <=> Holds(v, u))
    BY <1>0, <1>16 DEF AllocItems, Goto, Holds, At, Calls
  <2> QED BY <1>s, <2>1
<1>17. ASSUME NEW t \in Threads, Collect(t) PROVE Counted'
  <2>1. susp' = susp /\ \A v, u \in Threads : v # u => (Holds(v, u)' <=> Holds(v, u))
    BY <1>0, <1>17 DEF Collect, Holds, At, Calls
  <2> QED BY <1>s, <2>1
<1>18. ASSUME NEW t \in Threads, FreeItem(t) PROVE Counted'
  <2>1. susp' = susp /\ \A v, u \in Threads : v # u => (Holds(v, u)' <=> Holds(v, u))
    BY <1>0, <1>18 DEF FreeItem, Holds, At, Calls
  <2> QED BY <1>s, <2>1
<1>19. ASSUME NEW t \in Threads, Resume(t) PROVE Counted'
  <2>1. /\ th[t].pc = "free" /\ ResumeAll(t)
        /\ th'[t].snap = {} /\ \A u \in Threads \ {t} : th'[u] = th[u]
    BY <1>0, <1>19 DEF Resume, At, Calls
  <2> QED BY <1>r, <2>1 DEF Suspended
<1>20. ASSUME NEW t \in Threads, ClearFlag(t) PROVE Counted'
  <2>1. susp' = susp /\ \A v, u \in Threads : v # u => (Holds(v, u)' <=> Holds(v, u))
    BY <1>0, <1>20 DEF ClearFlag, Leave, Local, Holds, Snapshots, Suspended, At, Calls
  <2> QED BY <1>s, <2>1
<1>21. ASSUME NEW t \in Threads, PtrSnapshot(t) PROVE Counted'
  <2>1. susp' = susp /\ \A v, u \in Threads : v # u => (Holds(v, u)' <=> Holds(v, u))
    BY <1>0, <1>21 DEF PtrSnapshot, Goto, Holds, Snapshots, Suspended, At, Calls
  <2> QED BY <1>s, <2>1
<1>22. ASSUME NEW t \in Threads, PtrScan(t) PROVE Counted'
  <2>1. susp' = susp /\ \A v, u \in Threads : v # u => (Holds(v, u)' <=> Holds(v, u))
    BY <1>0, <1>22 DEF PtrScan, Goto, Holds, At, Calls
  <2> QED BY <1>s, <2>1
<1>23. ASSUME NEW t \in Threads, PtrResume(t) PROVE Counted'
  <2>1. /\ th[t].pc \in {"ptr_found", "ptr_clear"} /\ ResumeAll(t)
        /\ th'[t].snap = {} /\ \A u \in Threads \ {t} : th'[u] = th[u]
    BY <1>0, <1>23 DEF PtrResume, Leave, Local, At, Calls
  <2> QED BY <1>r, <2>1 DEF Suspended
<1>24. ASSUME NEW t \in Threads, Remove(t) PROVE Counted'
  <2>1. susp' = susp /\ \A v, u \in Threads : v # u => (Holds(v, u)' <=> Holds(v, u))
    BY <1>0, <1>24 DEF Remove, Leave, Local, Goto, Holds, Snapshots, Suspended, At, Calls
  <2> QED BY <1>s, <2>1
<1>25. ASSUME NEW t \in Threads, ReleasePtr(t) PROVE Counted'
  <2>1. susp' = susp /\ \A v, u \in Threads : v # u => (Holds(v, u)' <=> Holds(v, u))
    BY <1>0, <1>25 DEF ReleasePtr, Leave, Local, Holds, Snapshots, Suspended, At, Calls
  <2> QED BY <1>s, <2>1
<1> QED
  BY <1>1, <1>2, <1>3, <1>4, <1>5, <1>6, <1>7, <1>8, <1>9, <1>10, <1>11, <1>12, <1>13, <1>14, <1>15,
     <1>16, <1>17, <1>18, <1>19, <1>20, <1>21, <1>22, <1>23, <1>24, <1>25 DEF Next, RuntimeStep

-----------------------------------------------------------------------------
(* Lists of blocks to release                                              *)

\* A block that malloc has returned and that has no record yet, or no record any more.
Between(t) == th[t].pc \in {"record", "release"}
ItemsInv ==
  /\ used \subseteq heap
  /\ \A t \in Threads : th[t].pc # "free" => th[t].items = {}
  /\ \A t \in Threads : th[t].items \subseteq heap \ used
  /\ \A t, u \in Threads : t # u => th[t].items \cap th[u].items = {}
  /\ \A t \in Threads : Between(t) => th[t].ptr \in heap \ used
  /\ \A t, u \in Threads : Between(t) => th[t].ptr \notin th[u].items
  /\ \A t, u \in Threads : Between(t) /\ Between(u) /\ t # u => th[t].ptr # th[u].ptr

LEMMA InitItems == Init => ItemsInv
BY DEF Init, ItemsInv, Between, Local, Start

LEMMA ItemsStep == ASSUME Typed, ItemsInv, Next PROVE ItemsInv'
<1> USE DEF ItemsInv, Between, table, program
<1>0. th \in [Threads -> Calls]
  BY DEF Typed
<1>1. CASE Sleep
  BY <1>0, <1>1 DEF Sleep, Goto, At, Calls
<1>2. ASSUME NEW t \in Threads, EnterMalloc(t) PROVE ItemsInv'
  BY <1>0, <1>2 DEF EnterMalloc, Goto, Program, At, Calls
<1>3. ASSUME NEW t \in Threads, NEW b \in Blocks, Mutate(t, b) PROVE ItemsInv'
  BY <1>0, <1>3 DEF Mutate, Program, At, Calls
<1>4. ASSUME NEW t \in Threads, NEW b \in Blocks, Autofree(t, b) PROVE ItemsInv'
  BY <1>0, <1>4 DEF Autofree, Program, At, Calls
<1>5. ASSUME NEW t \in Threads, LeaveMalloc(t) PROVE ItemsInv'
  BY <1>0, <1>5 DEF LeaveMalloc, Leave, Local, At, Calls
<1>6. ASSUME NEW t \in Threads, RecordBlock(t) PROVE ItemsInv'
  BY <1>0, <1>6 DEF RecordBlock, Leave, Local, At, Calls
<1>7. ASSUME NEW t \in Threads, CallSuspend(t) PROVE ItemsInv'
  BY <1>0, <1>7 DEF CallSuspend, Goto, At, Calls
<1>8. ASSUME NEW t \in Threads, Suspend(t) PROVE ItemsInv'
  BY <1>0, <1>8 DEF Suspend, At, Calls
<1>9. ASSUME NEW t \in Threads, EnterScan(t) PROVE ItemsInv'
  BY <1>0, <1>9 DEF EnterScan, Leave, Local, Goto, At, Calls
<1>10. ASSUME NEW t \in Threads, Snapshot(t) PROVE ItemsInv'
  BY SMTT(30), <1>0, <1>10 DEF Snapshot, Leave, Local, At, Calls
<1>11. ASSUME NEW t \in Threads, LockTable(t) PROVE ItemsInv'
  BY <1>0, <1>11 DEF LockTable, At, Calls
<1>12. ASSUME NEW t \in Threads, ClearMarks(t) PROVE ItemsInv'
  BY <1>0, <1>12 DEF ClearMarks, At, Calls
<1>13. ASSUME NEW t \in Threads, MarkThread(t) PROVE ItemsInv'
  BY <1>0, <1>13 DEF MarkThread, MarkRoots, At, Calls
<1>14. ASSUME NEW t \in Threads, MarkGlobals(t) PROVE ItemsInv'
  BY <1>0, <1>14 DEF MarkGlobals, MarkRoots, At, Calls
<1>15. ASSUME NEW t \in Threads, CountUnmarked(t) PROVE ItemsInv'
  BY <1>0, <1>15 DEF CountUnmarked, At, Calls
<1>16. ASSUME NEW t \in Threads, AllocItems(t) PROVE ItemsInv'
  BY <1>0, <1>16 DEF AllocItems, Goto, At, Calls
<1>17. ASSUME NEW t \in Threads, Collect(t) PROVE ItemsInv'
  BY <1>0, <1>17 DEF Collect, At, Calls
<1>18. ASSUME NEW t \in Threads, FreeItem(t) PROVE ItemsInv'
  BY <1>0, <1>18 DEF FreeItem, At, Calls
<1>19. ASSUME NEW t \in Threads, Resume(t) PROVE ItemsInv'
  BY <1>0, <1>19 DEF Resume, At, Calls
<1>20. ASSUME NEW t \in Threads, ClearFlag(t) PROVE ItemsInv'
  BY <1>0, <1>20 DEF ClearFlag, Leave, Local, At, Calls
<1>21. ASSUME NEW t \in Threads, PtrSnapshot(t) PROVE ItemsInv'
  BY <1>0, <1>21 DEF PtrSnapshot, Goto, At, Calls
<1>22. ASSUME NEW t \in Threads, PtrScan(t) PROVE ItemsInv'
  BY <1>0, <1>22 DEF PtrScan, Goto, At, Calls
<1>23. ASSUME NEW t \in Threads, PtrResume(t) PROVE ItemsInv'
  BY <1>0, <1>23 DEF PtrResume, Leave, Local, At, Calls
<1>24. ASSUME NEW t \in Threads, Remove(t) PROVE ItemsInv'
  BY <1>0, <1>24 DEF Remove, Leave, Local, Goto, At, Calls
<1>25. ASSUME NEW t \in Threads, ReleasePtr(t) PROVE ItemsInv'
  BY <1>0, <1>25 DEF ReleasePtr, Leave, Local, At, Calls
<1> QED
  BY <1>1, <1>2, <1>3, <1>4, <1>5, <1>6, <1>7, <1>8, <1>9, <1>10, <1>11, <1>12, <1>13, <1>14, <1>15,
     <1>16, <1>17, <1>18, <1>19, <1>20, <1>21, <1>22, <1>23, <1>24, <1>25 DEF Next, RuntimeStep

SafeInv == Typed /\ Snapshots /\ Counted /\ ItemsInv

LEMMA InitSafe == Init => SafeInv
BY InitTyped, InitSnapshots, InitCounted, InitItems DEF SafeInv

LEMMA SafeStep == SafeInv /\ [Next]_vars => SafeInv'
<1> SUFFICES ASSUME SafeInv, [Next]_vars PROVE SafeInv'
  OBVIOUS
<1>1. CASE Next
  <2>1. \A t \in Threads : th[t].pc = "record" => th[t].ptr \in Blocks
    BY DEF SafeInv, Typed, ItemsInv, Between
  <2> QED BY <1>1, <2>1, TypedStep, SnapshotsStep, CountedStep, ItemsStep DEF SafeInv
<1>2. CASE UNCHANGED vars
  BY <1>2 DEF vars, SafeInv, Typed, Snapshots, Counted, Holders, Holds, ItemsInv, Between
<1> QED BY <1>1, <1>2

THEOREM SafeAlways == Spec => []SafeInv
BY InitSafe, SafeStep, PTL DEF Spec

LEMMA HoldersFinite == ASSUME NEW u \in Threads PROVE IsFiniteSet(Holders(u))
BY GcAssumption, FS_Subset DEF Holders

\* The type invariant: no thread is resumed more often than it was suspended
\* (ct_autofree_resume_threads).
THEOREM TypeCorrect == Spec => []TypeOK
<1>1. ASSUME SafeInv PROVE TypeOK
  <2>1. \A u \in Threads : susp[u] \in Nat
    BY <1>1, HoldersFinite, FS_CardinalityType DEF SafeInv, Counted
  <2>2. susp \in [Threads -> Nat]
    BY <1>1, <2>1 DEF SafeInv, Typed
  <2> QED BY <1>1, <2>2 DEF SafeInv, Typed, Calls, TypeOK
<1> QED BY <1>1, SafeAlways, PTL

\* Every suspension of a thread is that of one scan in progress, which will undo it:
\* also when scans overlap, fail, or suspend each other.
THEOREM SuspensionsExact == Spec => []SuspendedByScans
<1>1. SafeInv => SuspendedByScans
  BY DEF SafeInv, Counted, Holders, Holds, SuspendedByScans
<1> QED BY <1>1, SafeAlways, PTL

\* Each block is on one list of blocks to release, or is released by one thread, and
\* until then it exists (ct_autofree_gc_scan, ct_table_remove_autofree).
THEOREM ReleasedOnce == Spec => []ItemsOnce
<1>1. SafeInv => ItemsOnce
  BY DEF SafeInv, ItemsInv, Between, ItemsOnce
<1> QED BY <1>1, SafeAlways, PTL

-----------------------------------------------------------------------------
(* What is collected                                                       *)

\* When no thread is created, each snapshot has all threads.
Complete ==
  /\ alive = Threads
  /\ \A t \in Threads : th[t].pc \in Suspended \cup {"lock", "suspend", "kernel"} => th[t].snap = Threads

LEMMA InitComplete == ASSUME "spawn" \notin Features PROVE Init => Complete
BY DEF Init, Complete, Suspended, Local, Start

LEMMA CompleteStep == ASSUME Typed, Complete, Next, "spawn" \notin Features PROVE Complete'
<1> USE DEF Complete, Suspended, table, program
<1>0. th \in [Threads -> Calls]
  BY DEF Typed
<1>1. CASE Sleep
  BY <1>0, <1>1 DEF Sleep, Goto, At, Calls
<1>2. ASSUME NEW t \in Threads, EnterMalloc(t) PROVE Complete'
  BY <1>0, <1>2 DEF EnterMalloc, Goto, Program, At, Calls
<1>3. ASSUME NEW t \in Threads, NEW b \in Blocks, Mutate(t, b) PROVE Complete'
  BY <1>0, <1>3 DEF Mutate, Program, Copy, Link, Spawn, At, Calls
<1>4. ASSUME NEW t \in Threads, NEW b \in Blocks, Autofree(t, b) PROVE Complete'
  BY <1>0, <1>4 DEF Autofree, Program, At, Calls
<1>5. ASSUME NEW t \in Threads, LeaveMalloc(t) PROVE Complete'
  BY <1>0, <1>5 DEF LeaveMalloc, Leave, Local, At, Calls
<1>6. ASSUME NEW t \in Threads, RecordBlock(t) PROVE Complete'
  BY <1>0, <1>6 DEF RecordBlock, Leave, Local, At, Calls
<1>7. ASSUME NEW t \in Threads, CallSuspend(t) PROVE Complete'
  BY <1>0, <1>7 DEF CallSuspend, Goto, At, Calls
<1>8. ASSUME NEW t \in Threads, Suspend(t) PROVE Complete'
  BY <1>0, <1>8 DEF Suspend, At, Calls
<1>9. ASSUME NEW t \in Threads, EnterScan(t) PROVE Complete'
  BY <1>0, <1>9 DEF EnterScan, Leave, Local, Goto, At, Calls
<1>10. ASSUME NEW t \in Threads, Snapshot(t) PROVE Complete'
  BY <1>0, <1>10 DEF Snapshot, Leave, Local, At, Calls
<1>11. ASSUME NEW t \in Threads, LockTable(t) PROVE Complete'
  BY <1>0, <1>11 DEF LockTable, At, Calls
<1>12. ASSUME NEW t \in Threads, ClearMarks(t) PROVE Complete'
  BY <1>0, <1>12 DEF ClearMarks, At, Calls
<1>13. ASSUME NEW t \in Threads, MarkThread(t) PROVE Complete'
  BY <1>0, <1>13 DEF MarkThread, MarkRoots, At, Calls
<1>14. ASSUME NEW t \in Threads, MarkGlobals(t) PROVE Complete'
  BY <1>0, <1>14 DEF MarkGlobals, MarkRoots, At, Calls
<1>15. ASSUME NEW t \in Threads, CountUnmarked(t) PROVE Complete'
  BY <1>0, <1>15 DEF CountUnmarked, At, Calls
<1>16. ASSUME NEW t \in Threads, AllocItems(t) PROVE Complete'
  BY <1>0, <1>16 DEF AllocItems, Goto, At, Calls
<1>17. ASSUME NEW t \in Threads, Collect(t) PROVE Complete'
  BY <1>0, <1>17 DEF Collect, At, Calls
<1>18. ASSUME NEW t \in Threads, FreeItem(t) PROVE Complete'
  BY <1>0, <1>18 DEF FreeItem, At, Calls
<1>19. ASSUME NEW t \in Threads, Resume(t) PROVE Complete'
  BY <1>0, <1>19 DEF Resume, At, Calls
<1>20. ASSUME NEW t \in Threads, ClearFlag(t) PROVE Complete'
  BY <1>0, <1>20 DEF ClearFlag, Leave, Local, At, Calls
<1>21. ASSUME NEW t \in Threads, PtrSnapshot(t) PROVE Complete'
  BY <1>0, <1>21 DEF PtrSnapshot, Goto, At, Calls
<1>22. ASSUME NEW t \in Threads, PtrScan(t) PROVE Complete'
  BY <1>0, <1>22 DEF PtrScan, Goto, At, Calls
<1>23. ASSUME NEW t \in Threads, PtrResume(t) PROVE Complete'
  BY <1>0, <1>23 DEF PtrResume, Leave, Local, At, Calls
<1>24. ASSUME NEW t \in Threads, Remove(t) PROVE Complete'
  BY <1>0, <1>24 DEF Remove, Leave, Local, Goto, At, Calls
<1>25. ASSUME NEW t \in Threads, ReleasePtr(t) PROVE Complete'
  BY <1>0, <1>25 DEF ReleasePtr, Leave, Local, At, Calls
<1> QED
  BY <1>1, <1>2, <1>3, <1>4, <1>5, <1>6, <1>7, <1>8, <1>9, <1>10, <1>11, <1>12, <1>13, <1>14, <1>15,
     <1>16, <1>17, <1>18, <1>19, <1>20, <1>21, <1>22, <1>23, <1>24, <1>25 DEF Next, RuntimeStep

\* While a scan goes on that has suspended all others, they do nothing.
LEMMA Exclusive ==
  ASSUME SafeInv, Complete, NEW t \in Threads, th[t].pc \in Suspended, NEW u \in Threads, Running(u)
  PROVE  u = t
<1> SUFFICES ASSUME u # t PROVE FALSE
  OBVIOUS
<1>1. t \in Holders(u)
  BY DEF Complete, Holders, Holds, Suspended
<1>2. Cardinality(Holders(u)) # 0
  BY <1>1, HoldersFinite, FS_EmptySet
<1> QED BY <1>2 DEF SafeInv, Counted, Running

Unreferenced(S, H) == \A h \in H : S \cap roots[h] = {}
ScanPhase(t) ==
  /\ th[t].pc = "mark" => Unreferenced(used \ marked, Threads \ th[t].todo)
  /\ th[t].pc = "count" /\ ~ th[t].late => Unreferenced(used \ marked, Threads \cup {Globals})
  /\ th[t].pc \in {"items", "collect"} /\ th[t].n # 0 => Unreferenced(used \ marked, Threads \cup {Globals})
  /\ th[t].pc = "free" => Unreferenced(th[t].items, Threads \cup {Globals})
ScanInv == Complete /\ \A t \in Threads : ScanPhase(t)

LEMMA PhaseStep ==
  ASSUME SafeInv, ScanInv, Next, "spawn" \notin Features
  PROVE  \A v \in Threads : ScanPhase(v)'
<1> USE DEF table, program
<1>0. th \in [Threads -> Calls] /\ Complete /\ \A v \in Threads : ScanPhase(v)
  BY DEF SafeInv, Typed, ScanInv
<1>x. ASSUME NEW t \in Threads, Running(t), \A u \in Threads \ {t} : th'[u] = th[u], ScanPhase(t)'
      PROVE  \A v \in Threads : ScanPhase(v)'
  <2> SUFFICES ASSUME NEW v \in Threads, v # t PROVE ScanPhase(v)'
    BY <1>x
  <2>1. th[v].pc \notin Suspended
    BY <1>0, <1>x, Exclusive
  <2> QED BY <1>x, <2>1 DEF ScanPhase, Suspended
<1>1. CASE Sleep
  <2>1. Running(Collector) /\ \A u \in Threads \ {Collector} : th'[u] = th[u]
    BY <1>0, <1>1 DEF Sleep, Goto, At
  <2>2. ScanPhase(Collector)'
    BY <1>0, <1>1 DEF Sleep, Goto, At, Calls, ScanPhase
  <2> QED BY <1>x, <2>1, <2>2, GcAssumption
<1>2. ASSUME NEW t \in Threads, EnterMalloc(t) PROVE \A v \in Threads : ScanPhase(v)'
  <2>1. Running(t) /\ \A u \in Threads \ {t} : th'[u] = th[u]
    BY <1>0, <1>2 DEF EnterMalloc, Goto, Program, At
  <2>2. ScanPhase(t)'
    BY <1>0, <1>2 DEF EnterMalloc, Goto, Program, At, Calls, ScanPhase
  <2> QED BY <1>x, <2>1, <2>2
<1>3. ASSUME NEW t \in Threads, NEW b \in Blocks, Mutate(t, b) PROVE \A v \in Threads : ScanPhase(v)'
  <2>1. Running(t) /\ th' = th /\ th[t].pc = "idle"
    BY <1>3 DEF Mutate, Program, At
  <2>2. ScanPhase(t)'
    BY <2>1 DEF ScanPhase
  <2> QED BY <1>x, <2>1, <2>2
<1>4. ASSUME NEW t \in Threads, NEW b \in Blocks, Autofree(t, b) PROVE \A v \in Threads : ScanPhase(v)'
  <2>1. Running(t) /\ \A u \in Threads \ {t} : th'[u] = th[u]
    BY <1>0, <1>4 DEF Autofree, Program, At
  <2>2. ScanPhase(t)'
    BY <1>0, <1>4 DEF Autofree, Program, At, Calls, ScanPhase
  <2> QED BY <1>x, <2>1, <2>2
<1>5. ASSUME NEW t \in Threads, LeaveMalloc(t) PROVE \A v \in Threads : ScanPhase(v)'
  <2>1. Running(t) /\ \A u \in Threads \ {t} : th'[u] = th[u]
    BY <1>0, <1>5 DEF LeaveMalloc, Leave, Local, At
  <2>2. ScanPhase(t)'
    BY <1>0, <1>5 DEF LeaveMalloc, Leave, Local, At, Calls, ScanPhase
  <2> QED BY <1>x, <2>1, <2>2
<1>6. ASSUME NEW t \in Threads, RecordBlock(t) PROVE \A v \in Threads : ScanPhase(v)'
  <2>1. Running(t) /\ \A u \in Threads \ {t} : th'[u] = th[u]
    BY <1>0, <1>6 DEF RecordBlock, Leave, Local, At
  <2>2. ScanPhase(t)'
    BY <1>0, <1>6 DEF RecordBlock, Leave, Local, At, Calls, ScanPhase
  <2> QED BY <1>x, <2>1, <2>2
<1>7. ASSUME NEW t \in Threads, CallSuspend(t) PROVE \A v \in Threads : ScanPhase(v)'
  <2>1. Running(t) /\ \A u \in Threads \ {t} : th'[u] = th[u]
    BY <1>0, <1>7 DEF CallSuspend, Goto, At
  <2>2. ScanPhase(t)'
    BY <1>0, <1>7 DEF CallSuspend, Goto, At, Calls, ScanPhase
  <2> QED BY <1>x, <2>1, <2>2
<1>8. ASSUME NEW t \in Threads, Suspend(t) PROVE \A v \in Threads : ScanPhase(v)'
  <2>1. /\ UNCHANGED <<used, marked, roots>> /\ th'[t].pc = "suspend"
        /\ \A u \in Threads \ {t} : th'[u] = th[u]
    BY <1>0, <1>8 DEF Suspend, Calls
  <2>2. ScanPhase(t)'
    BY <2>1 DEF ScanPhase
  <2>3. ASSUME NEW v \in Threads, v # t PROVE ScanPhase(v)'
    BY <1>0, <2>1, <2>3 DEF ScanPhase, Unreferenced
  <2> QED BY <2>2, <2>3
<1>9. ASSUME NEW t \in Threads, EnterScan(t) PROVE \A v \in Threads : ScanPhase(v)'
  <2>1. Running(t) /\ \A u \in Threads \ {t} : th'[u] = th[u]
    BY <1>0, <1>9 DEF EnterScan, Leave, Local, Goto, At
  <2>2. ScanPhase(t)'
    BY <1>0, <1>9 DEF EnterScan, Leave, Local, Goto, At, Calls, ScanPhase
  <2> QED BY <1>x, <2>1, <2>2
<1>10. ASSUME NEW t \in Threads, Snapshot(t) PROVE \A v \in Threads : ScanPhase(v)'
  <2>1. Running(t) /\ \A u \in Threads \ {t} : th'[u] = th[u]
    BY <1>0, <1>10 DEF Snapshot, Leave, Local, At
  <2>2. ScanPhase(t)'
    BY <1>0, <1>10 DEF Snapshot, Leave, Local, At, Calls, ScanPhase
  <2> QED BY <1>x, <2>1, <2>2
<1>11. ASSUME NEW t \in Threads, LockTable(t) PROVE \A v \in Threads : ScanPhase(v)'
  <2>1. Running(t) /\ \A u \in Threads \ {t} : th'[u] = th[u]
    BY <1>0, <1>11 DEF LockTable, At
  <2>2. ScanPhase(t)'
    BY <1>0, <1>11 DEF LockTable, At, Calls, ScanPhase
  <2> QED BY <1>x, <2>1, <2>2
<1>12. ASSUME NEW t \in Threads, ClearMarks(t) PROVE \A v \in Threads : ScanPhase(v)'
  <2>1. Running(t) /\ \A u \in Threads \ {t} : th'[u] = th[u]
    BY <1>0, <1>12 DEF ClearMarks, At
  <2>2. ScanPhase(t)'
    BY <1>0, <1>12 DEF ClearMarks, At, Calls, ScanPhase, Complete, Unreferenced
  <2> QED BY <1>x, <2>1, <2>2
<1>13. ASSUME NEW t \in Threads, MarkThread(t) PROVE \A v \in Threads : ScanPhase(v)'
  <2>1. Running(t) /\ \A u \in Threads \ {t} : th'[u] = th[u]
    BY <1>0, <1>13 DEF MarkThread, MarkRoots, At
  <2>2. ScanPhase(t)'
    BY <1>0, <1>13 DEF MarkThread, MarkRoots, At, Calls, ScanPhase, Unreferenced, PointedTo
  <2> QED BY <1>x, <2>1, <2>2
<1>14. ASSUME NEW t \in Threads, MarkGlobals(t) PROVE \A v \in Threads : ScanPhase(v)'
  <2>1. Running(t) /\ \A u \in Threads \ {t} : th'[u] = th[u]
    BY <1>0, <1>14 DEF MarkGlobals, MarkRoots, At
  <2>2. ScanPhase(t)'
    BY <1>0, <1>14 DEF MarkGlobals, MarkRoots, At, Calls, ScanPhase, Unreferenced, PointedTo
  <2> QED BY <1>x, <2>1, <2>2
<1>15. ASSUME NEW t \in Threads, CountUnmarked(t) PROVE \A v \in Threads : ScanPhase(v)'
  <2>1. Running(t) /\ \A u \in Threads \ {t} : th'[u] = th[u]
    BY <1>0, <1>15 DEF CountUnmarked, At
  <2>2. ScanPhase(t)'
    BY <1>0, <1>15 DEF CountUnmarked, At, Calls, ScanPhase, Unreferenced
  <2> QED BY <1>x, <2>1, <2>2
<1>16. ASSUME NEW t \in Threads, AllocItems(t) PROVE \A v \in Threads : ScanPhase(v)'
  <2>1. Running(t) /\ \A u \in Threads \ {t} : th'[u] = th[u]
    BY <1>0, <1>16 DEF AllocItems, Goto, At
  <2>2. ScanPhase(t)'
    BY <1>0, <1>16 DEF AllocItems, Goto, At, Calls, ScanPhase, Unreferenced
  <2> QED BY <1>x, <2>1, <2>2
<1>17. ASSUME NEW t \in Threads, Collect(t) PROVE \A v \in Threads : ScanPhase(v)'
  <2>1. Running(t) /\ th[t].pc = "collect" /\ \A u \in Threads \ {t} : th'[u] = th[u]
    BY <1>0, <1>17 DEF Collect, At
  <2>2. PICK S \in FirstUnmarked(th[t].n) : th' = [th EXCEPT ![t].pc = "free", ![t].items = S]
    BY <1>17 DEF Collect
  <2>3. S \subseteq used \ marked /\ S \subseteq Blocks
    BY <2>2 DEF FirstUnmarked, SafeInv, Typed
  <2>4. Unreferenced(S, Threads \cup {Globals})
    <3>1. CASE th[t].n = 0
      <4>1. IsFiniteSet(S) /\ Cardinality(S) \in Nat
        BY <2>3, GcAssumption, FS_Subset, FS_CardinalityType
      <4>2. S = {}
        BY <2>2, <3>1, <4>1, FS_EmptySet DEF FirstUnmarked
      <4> QED BY <4>2 DEF Unreferenced
    <3>2. CASE th[t].n # 0
      BY <1>0, <2>1, <2>3, <3>2 DEF ScanPhase, Unreferenced
    <3> QED BY <3>1, <3>2
  <2>5. roots' = roots /\ th'[t].pc = "free" /\ th'[t].items = S
    BY <1>0, <1>17, <2>2 DEF Collect, Calls
  <2>6. ScanPhase(t)'
    BY <2>4, <2>5 DEF ScanPhase, Unreferenced
  <2> QED BY <1>x, <2>1, <2>6
<1>18. ASSUME NEW t \in Threads, FreeItem(t) PROVE \A v \in Threads : ScanPhase(v)'
  <2>1. Running(t) /\ \A u \in Threads \ {t} : th'[u] = th[u]
    BY <1>0, <1>18 DEF FreeItem, At
  <2>2. ScanPhase(t)'
    BY <1>0, <1>18 DEF FreeItem, At, Calls, ScanPhase, Unreferenced
  <2> QED BY <1>x, <2>1, <2>2
<1>19. ASSUME NEW t \in Threads, Resume(t) PROVE \A v \in Threads : ScanPhase(v)'
  <2>1. Running(t) /\ \A u \in Threads \ {t} : th'[u] = th[u]
    BY <1>0, <1>19 DEF Resume, At
  <2>2. ScanPhase(t)'
    BY <1>0, <1>19 DEF Resume, At, Calls, ScanPhase
  <2> QED BY <1>x, <2>1, <2>2
<1>20. ASSUME NEW t \in Threads, ClearFlag(t) PROVE \A v \in Threads : ScanPhase(v)'
  <2>1. Running(t) /\ \A u \in Threads \ {t} : th'[u] = th[u]
    BY <1>0, <1>20 DEF ClearFlag, Leave, Local, At
  <2>2. ScanPhase(t)'
    BY <1>0, <1>20 DEF ClearFlag, Leave, Local, At, Calls, ScanPhase
  <2> QED BY <1>x, <2>1, <2>2
<1>21. ASSUME NEW t \in Threads, PtrSnapshot(t) PROVE \A v \in Threads : ScanPhase(v)'
  <2>1. Running(t) /\ \A u \in Threads \ {t} : th'[u] = th[u]
    BY <1>0, <1>21 DEF PtrSnapshot, Goto, At
  <2>2. ScanPhase(t)'
    BY <1>0, <1>21 DEF PtrSnapshot, Goto, At, Calls, ScanPhase
  <2> QED BY <1>x, <2>1, <2>2
<1>22. ASSUME NEW t \in Threads, PtrScan(t) PROVE \A v \in Threads : ScanPhase(v)'
  <2>1. Running(t) /\ \A u \in Threads \ {t} : th'[u] = th[u]
    BY <1>0, <1>22 DEF PtrScan, Goto, At
  <2>2. ScanPhase(t)'
    BY <1>0, <1>22 DEF PtrScan, Goto, At, Calls, ScanPhase
  <2> QED BY <1>x, <2>1, <2>2
<1>23. ASSUME NEW t \in Threads, PtrResume(t) PROVE \A v \in Threads : ScanPhase(v)'
  <2>1. Running(t) /\ \A u \in Threads \ {t} : th'[u] = th[u]
    BY <1>0, <1>23 DEF PtrResume, Leave, Local, At
  <2>2. ScanPhase(t)'
    BY <1>0, <1>23 DEF PtrResume, Leave, Local, At, Calls, ScanPhase
  <2> QED BY <1>x, <2>1, <2>2
<1>24. ASSUME NEW t \in Threads, Remove(t) PROVE \A v \in Threads : ScanPhase(v)'
  <2>1. Running(t) /\ \A u \in Threads \ {t} : th'[u] = th[u]
    BY <1>0, <1>24 DEF Remove, Leave, Local, Goto, At
  <2>2. ScanPhase(t)'
    BY <1>0, <1>24 DEF Remove, Leave, Local, Goto, At, Calls, ScanPhase
  <2> QED BY <1>x, <2>1, <2>2
<1>25. ASSUME NEW t \in Threads, ReleasePtr(t) PROVE \A v \in Threads : ScanPhase(v)'
  <2>1. Running(t) /\ \A u \in Threads \ {t} : th'[u] = th[u]
    BY <1>0, <1>25 DEF ReleasePtr, Leave, Local, At
  <2>2. ScanPhase(t)'
    BY <1>0, <1>25 DEF ReleasePtr, Leave, Local, At, Calls, ScanPhase
  <2> QED BY <1>x, <2>1, <2>2
<1> QED
  BY <1>1, <1>2, <1>3, <1>4, <1>5, <1>6, <1>7, <1>8, <1>9, <1>10, <1>11, <1>12, <1>13, <1>14, <1>15,
     <1>16, <1>17, <1>18, <1>19, <1>20, <1>21, <1>22, <1>23, <1>24, <1>25 DEF Next, RuntimeStep

LEMMA ScanStep == ASSUME "spawn" \notin Features PROVE SafeInv /\ ScanInv /\ [Next]_vars => ScanInv'
<1> SUFFICES ASSUME SafeInv, ScanInv, [Next]_vars PROVE ScanInv'
  OBVIOUS
<1>1. CASE Next
  BY <1>1, CompleteStep, PhaseStep DEF SafeInv, ScanInv
<1>2. CASE UNCHANGED vars
  BY <1>2 DEF vars, ScanInv, Complete, ScanPhase, Unreferenced
<1> QED BY <1>1, <1>2

THEOREM ScanAlways == ASSUME "spawn" \notin Features PROVE Spec => []ScanInv
<1>1. Init => ScanInv
  <2> SUFFICES ASSUME Init PROVE ScanInv
    OBVIOUS
  <2>1. \A t \in Threads : th[t].pc \in {"idle", "enter"}
    BY DEF Init, Local, Start
  <2> QED BY <2>1, InitComplete DEF ScanInv, ScanPhase
<1> QED BY <1>1, ScanStep, SafeAlways, PTL DEF Spec

\* ct_autofree_gc_scan, while no thread is created: what is on the list of blocks to
\* release is referred to by no stack, no register and no global until it is released.
THEOREM CollectsSafely == ASSUME "spawn" \notin Features PROVE Spec => []CollectsUnreferenced
<1>1. SafeInv /\ ScanInv => CollectsUnreferenced
  <2> SUFFICES ASSUME SafeInv, ScanInv, NEW t \in Threads, NEW b \in th[t].items,
                      NEW h \in Threads \cup {Globals}
               PROVE  b \notin roots[h]
    BY DEF ScanInv, Complete, CollectsUnreferenced
  <2>1. th[t].pc = "free"
    BY DEF SafeInv, ItemsInv
  <2> QED BY <2>1 DEF ScanInv, ScanPhase, Unreferenced
<1> QED BY <1>1, SafeAlways, ScanAlways, PTL

-----------------------------------------------------------------------------
(* Releases by __ct_autofree                                               *)

\* A thread that is in __ct_autofree for a block.
InAutofree(t) ==
  \/ th[t].pc \in {"ptr_snapshot", "ptr_found", "ptr_clear", "remove", "release"}
  \/ th[t].pc \in {"suspend", "kernel"} /\ th[t].ptr # None
Recording(b) == \E t \in Threads : maker[b] = t /\ th[t].pc = "record" /\ th[t].ptr = b
Made ==
  \A b \in Blocks : maker[b] # None =>
    b \in used \/ Recording(b) \/ Unreferenced({b}, Threads \cup {Globals})
Releasing(t) ==
  /\ th[t].ptr \in Blocks /\ maker[th[t].ptr] = None
  /\ th[t].ptr \in roots[t] /\ th[t].ptr \in heap
  /\ th[t].pc # "release" => th[t].ptr \in used
NoBlock(t) == th[t].pc \in {"idle", "malloc", "enter", "sleep", "snapshot", "lock"} => th[t].ptr = None
Checked(t) ==
  /\ th[t].checked => th[t].pc \in {"remove", "release"}
  /\ th[t].pc = "ptr_clear" \/ th[t].checked =>
       Unreferenced({th[t].ptr}, (Threads \cup {Globals}) \ {t})
ReleasingInv ==
  /\ \A t \in Threads : InAutofree(t) => Releasing(t)
  /\ \A t, u \in Threads : InAutofree(t) /\ InAutofree(u) /\ t # u => th[t].ptr # th[u].ptr
AutofreeInv ==
  /\ links = {} /\ Made /\ ReleasingInv
  /\ \A t \in Threads : NoBlock(t) /\ Checked(t)

LEMMA CheckedStep ==
  ASSUME SafeInv, ScanInv, AutofreeInv, Next, \A v \in Threads : ScanPhase(v)',
         "spawn" \notin Features, "link" \notin Features
  PROVE  \A v \in Threads : NoBlock(v)' /\ Checked(v)'
<1> USE DEF table, program
<1>t. th \in [Threads -> Calls] /\ \A v \in Threads : ScanPhase(v) /\ ScanPhase(v)'
  BY DEF SafeInv, Typed, ScanInv
<1>p. Typed /\ ItemsInv /\ Complete /\ links = {} /\ Made /\ ReleasingInv
  BY DEF SafeInv, ScanInv, AutofreeInv
<1>q. \A t \in Threads : NoBlock(t) /\ Checked(t)
  BY DEF AutofreeInv
<1>1. CASE Sleep
  BY SMTT(30), <1>t, <1>p, <1>q, GcAssumption, <1>1 DEF Sleep, Goto, At, Calls, NoBlock, Checked,
     Unreferenced, Typed, InAutofree, ReleasingInv, Releasing
<1>2. ASSUME NEW t \in Threads, EnterMalloc(t) PROVE \A v \in Threads : NoBlock(v)' /\ Checked(v)'
  BY SMTT(30), <1>t, <1>p, <1>q, GcAssumption, <1>2 DEF EnterMalloc, Goto, Program, At, Calls,
     NoBlock, Checked, Unreferenced, Typed, InAutofree, ReleasingInv, Releasing
<1>3. ASSUME NEW t \in Threads, NEW b \in Blocks, Mutate(t, b) PROVE \A v \in Threads : NoBlock(v)' /\ Checked(v)'
  BY SMTT(30), <1>t, <1>p, <1>q, GcAssumption, <1>3 DEF Mutate, Program, Copy, Link, Spawn,
     SetRoots, At, Calls, NoBlock, Checked, Unreferenced, Typed, InAutofree, ReleasingInv, Releasing
<1>4. ASSUME NEW t \in Threads, NEW b \in Blocks, Autofree(t, b) PROVE \A v \in Threads : NoBlock(v)' /\ Checked(v)'
  BY SMTT(30), <1>t, <1>p, <1>q, GcAssumption, <1>4 DEF Autofree, Program, At, Calls, NoBlock,
     Checked, Unreferenced, Typed, InAutofree, ReleasingInv, Releasing
<1>5. ASSUME NEW t \in Threads, LeaveMalloc(t) PROVE \A v \in Threads : NoBlock(v)' /\ Checked(v)'
  BY SMTT(30), <1>t, <1>p, <1>q, GcAssumption, <1>5 DEF LeaveMalloc, Leave, Local, At, Calls,
     NoBlock, Checked, Unreferenced, Typed, InAutofree, ReleasingInv, Releasing
<1>6. ASSUME NEW t \in Threads, RecordBlock(t) PROVE \A v \in Threads : NoBlock(v)' /\ Checked(v)'
  BY SMTT(30), <1>t, <1>p, <1>q, GcAssumption, <1>6 DEF RecordBlock, Leave, Local, At, Calls,
     NoBlock, Checked, Unreferenced, Typed, InAutofree, ReleasingInv, Releasing
<1>7. ASSUME NEW t \in Threads, CallSuspend(t) PROVE \A v \in Threads : NoBlock(v)' /\ Checked(v)'
  BY SMTT(30), <1>t, <1>p, <1>q, GcAssumption, <1>7 DEF CallSuspend, Goto, At, Calls, NoBlock,
     Checked, Unreferenced, Typed, InAutofree, ReleasingInv, Releasing
<1>8. ASSUME NEW t \in Threads, Suspend(t) PROVE \A v \in Threads : NoBlock(v)' /\ Checked(v)'
  BY SMTT(30), <1>t, <1>p, <1>q, GcAssumption, <1>8 DEF Suspend, At, Calls, NoBlock, Checked,
     Unreferenced, Typed, InAutofree, ReleasingInv, Releasing
<1>9. ASSUME NEW t \in Threads, EnterScan(t) PROVE \A v \in Threads : NoBlock(v)' /\ Checked(v)'
  BY SMTT(30), <1>t, <1>p, <1>q, GcAssumption, <1>9 DEF EnterScan, Leave, Local, Goto, At, Calls,
     NoBlock, Checked, Unreferenced, Typed, InAutofree, ReleasingInv, Releasing
<1>10. ASSUME NEW t \in Threads, Snapshot(t) PROVE \A v \in Threads : NoBlock(v)' /\ Checked(v)'
  BY SMTT(30), ZenonT(30), <1>t, <1>p, <1>q, GcAssumption, <1>10 DEF Snapshot, Leave, Local, At,
     Calls, NoBlock, Checked, Unreferenced, Typed, InAutofree, ReleasingInv, Releasing
<1>11. ASSUME NEW t \in Threads, LockTable(t) PROVE \A v \in Threads : NoBlock(v)' /\ Checked(v)'
  BY SMTT(30), <1>t, <1>p, <1>q, GcAssumption, <1>11 DEF LockTable, At, Calls, NoBlock, Checked,
     Unreferenced, Typed, InAutofree, ReleasingInv, Releasing
<1>12. ASSUME NEW t \in Threads, ClearMarks(t) PROVE \A v \in Threads : NoBlock(v)' /\ Checked(v)'
  BY SMTT(30), <1>t, <1>p, <1>q, GcAssumption, <1>12 DEF ClearMarks, At, Calls, NoBlock, Checked,
     Unreferenced, Typed, InAutofree, ReleasingInv, Releasing
<1>13. ASSUME NEW t \in Threads, MarkThread(t) PROVE \A v \in Threads : NoBlock(v)' /\ Checked(v)'
  BY SMTT(30), <1>t, <1>p, <1>q, GcAssumption, <1>13 DEF MarkThread, MarkRoots, At, Calls, NoBlock,
     Checked, Unreferenced, Typed, InAutofree, ReleasingInv, Releasing
<1>14. ASSUME NEW t \in Threads, MarkGlobals(t) PROVE \A v \in Threads : NoBlock(v)' /\ Checked(v)'
  BY SMTT(30), <1>t, <1>p, <1>q, GcAssumption, <1>14 DEF MarkGlobals, MarkRoots, At, Calls,
     NoBlock, Checked, Unreferenced, Typed, InAutofree, ReleasingInv, Releasing
<1>15. ASSUME NEW t \in Threads, CountUnmarked(t) PROVE \A v \in Threads : NoBlock(v)' /\ Checked(v)'
  BY SMTT(30), <1>t, <1>p, <1>q, GcAssumption, <1>15 DEF CountUnmarked, At, Calls, NoBlock, Checked,
     Unreferenced, Typed, InAutofree, ReleasingInv, Releasing
<1>16. ASSUME NEW t \in Threads, AllocItems(t) PROVE \A v \in Threads : NoBlock(v)' /\ Checked(v)'
  BY SMTT(30), <1>t, <1>p, <1>q, GcAssumption, <1>16 DEF AllocItems, Goto, At, Calls, NoBlock,
     Checked, Unreferenced, Typed, InAutofree, ReleasingInv, Releasing
<1>17. ASSUME NEW t \in Threads, Collect(t) PROVE \A v \in Threads : NoBlock(v)' /\ Checked(v)'
  BY SMTT(30), <1>t, <1>p, <1>q, GcAssumption, <1>17 DEF Collect, At, Calls, NoBlock, Checked,
     Unreferenced, Typed, InAutofree, ReleasingInv, Releasing
<1>18. ASSUME NEW t \in Threads, FreeItem(t) PROVE \A v \in Threads : NoBlock(v)' /\ Checked(v)'
  BY SMTT(30), <1>t, <1>p, <1>q, GcAssumption, <1>18 DEF FreeItem, At, Calls, NoBlock, Checked,
     Unreferenced, Typed, InAutofree, ReleasingInv, Releasing
<1>19. ASSUME NEW t \in Threads, Resume(t) PROVE \A v \in Threads : NoBlock(v)' /\ Checked(v)'
  BY SMTT(30), <1>t, <1>p, <1>q, GcAssumption, <1>19 DEF Resume, At, Calls, NoBlock, Checked,
     Unreferenced, Typed, InAutofree, ReleasingInv, Releasing
<1>20. ASSUME NEW t \in Threads, ClearFlag(t) PROVE \A v \in Threads : NoBlock(v)' /\ Checked(v)'
  BY SMTT(30), <1>t, <1>p, <1>q, GcAssumption, <1>20 DEF ClearFlag, Leave, Local, At, Calls,
     NoBlock, Checked, Unreferenced, Typed, InAutofree, ReleasingInv, Releasing
<1>21. ASSUME NEW t \in Threads, PtrSnapshot(t) PROVE \A v \in Threads : NoBlock(v)' /\ Checked(v)'
  BY SMTT(30), <1>t, <1>p, <1>q, GcAssumption, <1>21 DEF PtrSnapshot, Goto, At, Calls, NoBlock,
     Checked, Unreferenced, Typed, InAutofree, ReleasingInv, Releasing
<1>22. ASSUME NEW t \in Threads, PtrScan(t) PROVE \A v \in Threads : NoBlock(v)' /\ Checked(v)'
  BY SMTT(30), <1>t, <1>p, <1>q, GcAssumption, <1>22 DEF PtrScan, Goto, Found, InThreads,
     InGlobals, Complete, Suspended, At, Calls, NoBlock, Checked, Unreferenced, Typed, InAutofree,
     ReleasingInv,
     Releasing
<1>23. ASSUME NEW t \in Threads, PtrResume(t) PROVE \A v \in Threads : NoBlock(v)' /\ Checked(v)'
  <2>1. CASE th[t].pc = "ptr_found"
    <3>1. /\ \A h \in Threads \cup {Globals} : roots'[h] \subseteq roots[h]
          /\ \A u \in Threads \ {t} : th'[u] = th[u]
      BY <1>t, <1>p, <2>1, <1>23 DEF PtrResume, Leave, SetRoots, At, Typed
    <3>2. th'[t].pc \in {"idle", "sleep"} /\ th'[t].ptr = None /\ th'[t].checked = FALSE
      BY <1>t, <2>1, <1>23 DEF PtrResume, Leave, Local, At
    <3> QED BY <1>q, <3>1, <3>2 DEF NoBlock, Checked, Unreferenced
  <2>2. CASE th[t].pc = "ptr_clear"
    <3>1. UNCHANGED roots /\ \A u \in Threads \ {t} : th'[u] = th[u]
      BY <1>t, <2>2, <1>23 DEF PtrResume, At, Calls
    <3>2. th'[t].pc = "remove" /\ th'[t].ptr = th[t].ptr
      BY <1>t, <2>2, <1>23 DEF PtrResume, At, Calls
    <3> QED BY <1>q, <2>2, <3>1, <3>2 DEF NoBlock, Checked, Unreferenced
  <2> QED BY <2>1, <2>2, <1>23 DEF PtrResume, At
<1>24. ASSUME NEW t \in Threads, Remove(t) PROVE \A v \in Threads : NoBlock(v)' /\ Checked(v)'
  BY SMTT(30), <1>t, <1>p, <1>q, GcAssumption, <1>24 DEF Remove, Leave, Local, Goto, SetRoots, At,
     Calls, NoBlock, Checked, Unreferenced, Typed, InAutofree, ReleasingInv, Releasing
<1>25. ASSUME NEW t \in Threads, ReleasePtr(t) PROVE \A v \in Threads : NoBlock(v)' /\ Checked(v)'
  BY SMTT(30), <1>t, <1>p, <1>q, GcAssumption, <1>25 DEF ReleasePtr, Leave, Local, SetRoots, At,
     Calls, NoBlock, Checked, Unreferenced, Typed, InAutofree, ReleasingInv, Releasing
<1> QED
  BY <1>1, <1>2, <1>3, <1>4, <1>5, <1>6, <1>7, <1>8, <1>9, <1>10, <1>11, <1>12, <1>13, <1>14, <1>15,
     <1>16, <1>17, <1>18, <1>19, <1>20, <1>21, <1>22, <1>23, <1>24, <1>25 DEF Next, RuntimeStep

LEMMA ReleasingStep ==
  ASSUME SafeInv, ScanInv, AutofreeInv, Next, \A v \in Threads : ScanPhase(v)',
         "spawn" \notin Features, "link" \notin Features
  PROVE  ReleasingInv'
<1> USE DEF table, program
<1>t. th \in [Threads -> Calls] /\ \A v \in Threads : ScanPhase(v) /\ ScanPhase(v)'
  BY DEF SafeInv, Typed, ScanInv
<1>p. Typed /\ ItemsInv /\ Complete /\ links = {} /\ Made /\ ReleasingInv
  BY DEF SafeInv, ScanInv, AutofreeInv
<1>q. \A t \in Threads : NoBlock(t) /\ Checked(t)
  BY DEF AutofreeInv
<1>o. ASSUME NEW t \in Threads, \A u \in Threads \ {t} : th'[u] = th[u], ~ InAutofree(t)',
             \A u \in Threads : u # t /\ InAutofree(u) => Releasing(u)'
      PROVE  ReleasingInv'
  <2>1. \A u \in Threads : InAutofree(u)' => u # t /\ InAutofree(u) /\ th'[u] = th[u]
    BY <1>o DEF InAutofree
  <2> QED BY <1>o, <1>p, <2>1 DEF ReleasingInv
<1>u. ASSUME NEW t \in Threads, \A u \in Threads \ {t} : th'[u] = th[u], ~ InAutofree(t)',
             UNCHANGED <<used, heap, maker, roots>>
      PROVE  ReleasingInv'
  BY <1>o, <1>u, <1>p DEF ReleasingInv, Releasing
<1>1. CASE Sleep
  BY SMTT(30), <1>t, <1>p, <1>q, GcAssumption, <1>1 DEF Sleep, Goto, At, Calls, NoBlock,
     Unreferenced, Typed, InAutofree, ReleasingInv, Releasing, ScanPhase, ItemsInv
<1>2. ASSUME NEW t \in Threads, EnterMalloc(t) PROVE ReleasingInv'
  BY SMTT(30), <1>t, <1>p, <1>q, GcAssumption, <1>2 DEF EnterMalloc, Goto, Program, At, Calls,
     NoBlock, Unreferenced, Typed, InAutofree, ReleasingInv, Releasing, ScanPhase, ItemsInv
<1>3. ASSUME NEW t \in Threads, NEW b \in Blocks, Mutate(t, b) PROVE ReleasingInv'
  BY SMTT(30), <1>t, <1>p, <1>q, GcAssumption, <1>3 DEF Mutate, Program, Copy, Link, Spawn,
     SetRoots, At, Calls, NoBlock, Unreferenced, Typed, InAutofree, ReleasingInv, Releasing,
     ScanPhase, ItemsInv
<1>4. ASSUME NEW t \in Threads, NEW b \in Blocks, Autofree(t, b) PROVE ReleasingInv'
  BY SMTT(30), <1>t, <1>p, <1>q, GcAssumption, <1>4 DEF Autofree, Program, Made, Recording, At,
     Calls, NoBlock, Unreferenced, Typed, InAutofree, ReleasingInv, Releasing, ScanPhase, ItemsInv
<1>5. ASSUME NEW t \in Threads, LeaveMalloc(t) PROVE ReleasingInv'
  <2>1. /\ UNCHANGED used /\ heap \subseteq heap' /\ \A u \in Threads \ {t} : th'[u] = th[u]
        /\ ~ InAutofree(t)'
    BY <1>t, <1>5 DEF LeaveMalloc, Leave, Local, At, Calls, InAutofree
  <2>2. \A c \in heap : maker'[c] = maker[c]
    BY <1>p, <1>5 DEF LeaveMalloc, Typed
  <2>3. \A u \in Threads \ {t} : roots'[u] = roots[u]
    BY <1>p, <1>5 DEF LeaveMalloc, Typed
  <2>4. ASSUME NEW u \in Threads, u # t, InAutofree(u) PROVE Releasing(u)'
    BY <1>p, <2>1, <2>2, <2>3, <2>4 DEF ReleasingInv, Releasing
  <2> QED BY <1>o, <2>1, <2>4
<1>6. ASSUME NEW t \in Threads, RecordBlock(t) PROVE ReleasingInv'
  BY SMTT(30), <1>t, <1>p, <1>q, GcAssumption, <1>6 DEF RecordBlock, Leave, Local, At, Calls,
     NoBlock, Unreferenced, Typed, InAutofree, ReleasingInv, Releasing, ScanPhase, ItemsInv
<1>7. ASSUME NEW t \in Threads, CallSuspend(t) PROVE ReleasingInv'
  BY SMTT(30), <1>t, <1>p, <1>q, GcAssumption, <1>7 DEF CallSuspend, Goto, At, Calls, NoBlock,
     Unreferenced, Typed, InAutofree, ReleasingInv, Releasing, ScanPhase, ItemsInv
<1>8. ASSUME NEW t \in Threads, Suspend(t) PROVE ReleasingInv'
  BY SMTT(30), <1>t, <1>p, <1>q, GcAssumption, <1>8 DEF Suspend, At, Calls, NoBlock, Unreferenced,
     Typed, InAutofree, ReleasingInv, Releasing, ScanPhase, ItemsInv
<1>9. ASSUME NEW t \in Threads, EnterScan(t) PROVE ReleasingInv'
  <2>1. /\ UNCHANGED <<used, heap, maker, roots>>
        /\ \A u \in Threads \ {t} : th'[u] = th[u]
        /\ ~ InAutofree(t)'
    BY SMTT(30), <1>t, <1>p, <1>q, <1>9 DEF EnterScan, Leave, Local, Goto, At, Calls, InAutofree,
       NoBlock
  <2> QED BY <1>u, <2>1
<1>10. ASSUME NEW t \in Threads, Snapshot(t) PROVE ReleasingInv'
  <2>1. /\ UNCHANGED <<used, heap, maker, roots>>
        /\ \A u \in Threads \ {t} : th'[u] = th[u]
        /\ ~ InAutofree(t)'
    BY SMTT(30), <1>t, <1>p, <1>q, <1>10 DEF Snapshot, Leave, Local, At, Calls, InAutofree, NoBlock
  <2> QED BY <1>u, <2>1
<1>11. ASSUME NEW t \in Threads, LockTable(t) PROVE ReleasingInv'
  BY SMTT(30), <1>t, <1>p, <1>q, GcAssumption, <1>11 DEF LockTable, At, Calls, NoBlock,
     Unreferenced, Typed, InAutofree, ReleasingInv, Releasing, ScanPhase, ItemsInv
<1>12. ASSUME NEW t \in Threads, ClearMarks(t) PROVE ReleasingInv'
  BY SMTT(30), <1>t, <1>p, <1>q, GcAssumption, <1>12 DEF ClearMarks, At, Calls, NoBlock,
     Unreferenced, Typed, InAutofree, ReleasingInv, Releasing, ScanPhase, ItemsInv
<1>13. ASSUME NEW t \in Threads, MarkThread(t) PROVE ReleasingInv'
  <2>1. /\ UNCHANGED <<used, heap, maker, roots>>
        /\ \A u \in Threads \ {t} : th'[u] = th[u]
        /\ ~ InAutofree(t)'
    BY SMTT(30), <1>t, <1>p, <1>q, <1>13 DEF MarkThread, MarkRoots, At, Calls, InAutofree, NoBlock
  <2> QED BY <1>u, <2>1
<1>14. ASSUME NEW t \in Threads, MarkGlobals(t) PROVE ReleasingInv'
  <2>1. /\ UNCHANGED <<used, heap, maker, roots>>
        /\ \A u \in Threads \ {t} : th'[u] = th[u]
        /\ ~ InAutofree(t)'
    BY SMTT(30), <1>t, <1>p, <1>q, <1>14 DEF MarkGlobals, MarkRoots, At, Calls, InAutofree, NoBlock
  <2> QED BY <1>u, <2>1
<1>15. ASSUME NEW t \in Threads, CountUnmarked(t) PROVE ReleasingInv'
  BY SMTT(30), ZenonT(30), <1>t, <1>p, <1>q, GcAssumption, <1>15 DEF CountUnmarked, At, Calls,
     NoBlock, Unreferenced, Typed, InAutofree, ReleasingInv, Releasing, ScanPhase, ItemsInv
<1>16. ASSUME NEW t \in Threads, AllocItems(t) PROVE ReleasingInv'
  <2>1. /\ UNCHANGED <<used, heap, maker, roots>>
        /\ \A u \in Threads \ {t} : th'[u] = th[u]
        /\ ~ InAutofree(t)'
    BY SMTT(30), <1>t, <1>p, <1>q, <1>16 DEF AllocItems, Goto, At, Calls, InAutofree, NoBlock
  <2> QED BY <1>u, <2>1
<1>17. ASSUME NEW t \in Threads, Collect(t) PROVE ReleasingInv'
  BY SMTT(30), <1>t, <1>p, <1>q, GcAssumption, <1>17 DEF Collect, FirstUnmarked, At, Calls, NoBlock,
     Unreferenced, Typed, InAutofree, ReleasingInv, Releasing, ScanPhase, ItemsInv
<1>18. ASSUME NEW t \in Threads, FreeItem(t) PROVE ReleasingInv'
  BY SMTT(30), <1>t, <1>p, <1>q, GcAssumption, <1>18 DEF FreeItem, At, Calls, NoBlock,
     Unreferenced, Typed, InAutofree, ReleasingInv, Releasing, ScanPhase, ItemsInv
<1>19. ASSUME NEW t \in Threads, Resume(t) PROVE ReleasingInv'
  BY SMTT(30), <1>t, <1>p, <1>q, GcAssumption, <1>19 DEF Resume, At, Calls, NoBlock, Unreferenced,
     Typed, InAutofree, ReleasingInv, Releasing, ScanPhase, ItemsInv
<1>20. ASSUME NEW t \in Threads, ClearFlag(t) PROVE ReleasingInv'
  BY SMTT(30), <1>t, <1>p, <1>q, GcAssumption, <1>20 DEF ClearFlag, Leave, Local, At, Calls,
     NoBlock, Unreferenced, Typed, InAutofree, ReleasingInv, Releasing, ScanPhase, ItemsInv
<1>21. ASSUME NEW t \in Threads, PtrSnapshot(t) PROVE ReleasingInv'
  BY SMTT(30), <1>t, <1>p, <1>q, GcAssumption, <1>21 DEF PtrSnapshot, Goto, At, Calls, NoBlock,
     Unreferenced, Typed, InAutofree, ReleasingInv, Releasing, ScanPhase, ItemsInv
<1>22. ASSUME NEW t \in Threads, PtrScan(t) PROVE ReleasingInv'
  BY SMTT(30), <1>t, <1>p, <1>q, GcAssumption, <1>22 DEF PtrScan, Goto, At, Calls, NoBlock,
     Unreferenced, Typed, InAutofree, ReleasingInv, Releasing, ScanPhase, ItemsInv
<1>23. ASSUME NEW t \in Threads, PtrResume(t) PROVE ReleasingInv'
  <2>1. CASE th[t].pc = "ptr_found"
    <3>1. /\ UNCHANGED <<used, heap, maker>> /\ \A u \in Threads \ {t} : th'[u] = th[u] /\ roots'[u] = roots[u]
          /\ ~ InAutofree(t)'
      BY <1>t, <1>p, <2>1, <1>23 DEF PtrResume, Leave, Local, SetRoots, At, Calls, Typed, InAutofree
    <3>2. ASSUME NEW u \in Threads, u # t, InAutofree(u) PROVE Releasing(u)'
      BY <1>p, <3>1, <3>2 DEF ReleasingInv, Releasing
    <3> QED BY <1>o, <3>1, <3>2
  <2>2. CASE th[t].pc = "ptr_clear"
    <3>1. UNCHANGED <<used, heap, maker, roots>> /\ \A u \in Threads \ {t} : th'[u] = th[u]
      BY <1>t, <2>2, <1>23 DEF PtrResume, At, Calls
    <3>2. th'[t].pc = "remove" /\ th'[t].ptr = th[t].ptr
      BY <1>t, <2>2, <1>23 DEF PtrResume, At, Calls
    <3>3. \A u \in Threads : th'[u].ptr = th[u].ptr /\ (InAutofree(u)' => InAutofree(u))
      BY <2>2, <3>1, <3>2 DEF InAutofree
    <3> QED BY <1>p, <2>2, <3>1, <3>2, <3>3 DEF ReleasingInv, Releasing
  <2> QED BY <2>1, <2>2, <1>23 DEF PtrResume, At
<1>24. ASSUME NEW t \in Threads, Remove(t) PROVE ReleasingInv'
  <2>1. InAutofree(t) /\ th[t].ptr \in used
    BY <1>p, <1>24 DEF Remove, At, InAutofree, ReleasingInv, Releasing
  <2>2. /\ used' = used \ {th[t].ptr} /\ UNCHANGED <<heap, maker, roots>>
        /\ th'[t].pc = "release" /\ th'[t].ptr = th[t].ptr /\ \A u \in Threads \ {t} : th'[u] = th[u]
    BY <1>t, <2>1, <1>24 DEF Remove, Goto, Calls
  <2>3. \A u \in Threads : th'[u].ptr = th[u].ptr /\ (InAutofree(u)' => InAutofree(u))
    BY <2>1, <2>2 DEF InAutofree
  <2> QED BY <1>p, <2>1, <2>2, <2>3 DEF ReleasingInv, Releasing
<1>25. ASSUME NEW t \in Threads, ReleasePtr(t) PROVE ReleasingInv'
  BY SMTT(30), <1>t, <1>p, <1>q, GcAssumption, <1>25 DEF ReleasePtr, Leave, Local, SetRoots, At,
     Calls, NoBlock, Unreferenced, Typed, InAutofree, ReleasingInv, Releasing, ScanPhase, ItemsInv
<1> QED
  BY <1>1, <1>2, <1>3, <1>4, <1>5, <1>6, <1>7, <1>8, <1>9, <1>10, <1>11, <1>12, <1>13, <1>14, <1>15,
     <1>16, <1>17, <1>18, <1>19, <1>20, <1>21, <1>22, <1>23, <1>24, <1>25 DEF Next, RuntimeStep

LEMMA MadeStep ==
  ASSUME SafeInv, ScanInv, AutofreeInv, Next, \A v \in Threads : ScanPhase(v)',
         "spawn" \notin Features, "link" \notin Features
  PROVE  Made'
<1> USE DEF table, program
<1>t. th \in [Threads -> Calls] /\ \A v \in Threads : ScanPhase(v) /\ ScanPhase(v)'
  BY DEF SafeInv, Typed, ScanInv
<1>p. Typed /\ ItemsInv /\ Complete /\ links = {} /\ Made /\ ReleasingInv
  BY DEF SafeInv, ScanInv, AutofreeInv
<1>q. \A t \in Threads : NoBlock(t) /\ Checked(t)
  BY DEF AutofreeInv
<1>1. CASE Sleep
  BY SMTT(30), <1>t, <1>p, <1>q, GcAssumption, <1>1 DEF Sleep, Goto, At, Calls, Made, Recording,
     Unreferenced, Typed, InAutofree, ReleasingInv, Releasing, ScanPhase, ItemsInv, Between
<1>2. ASSUME NEW t \in Threads, EnterMalloc(t) PROVE Made'
  BY SMTT(30), <1>t, <1>p, <1>q, GcAssumption, <1>2 DEF EnterMalloc, Goto, Program, At, Calls, Made,
     Recording, Unreferenced, Typed, InAutofree, ReleasingInv, Releasing, ScanPhase, ItemsInv,
     Between
<1>3. ASSUME NEW t \in Threads, NEW b \in Blocks, Mutate(t, b) PROVE Made'
  BY SMTT(30), <1>t, <1>p, <1>q, GcAssumption, <1>3 DEF Mutate, Program, Copy, Link, Spawn,
     SetRoots, At, Calls, Made, Recording, Unreferenced, Typed, InAutofree, ReleasingInv,
     Releasing, ScanPhase,
     ItemsInv, Between
<1>4. ASSUME NEW t \in Threads, NEW b \in Blocks, Autofree(t, b) PROVE Made'
  BY SMTT(30), <1>t, <1>p, <1>q, GcAssumption, <1>4 DEF Autofree, Program, At, Calls, Made,
     Recording, Unreferenced, Typed, InAutofree, ReleasingInv, Releasing, ScanPhase, ItemsInv,
     Between
<1>5. ASSUME NEW t \in Threads, LeaveMalloc(t) PROVE Made'
  <2>1. UNCHANGED used /\ th[t].pc = "malloc"
    BY <1>5 DEF LeaveMalloc, At
  <2>2. CASE UNCHANGED <<maker, roots>> /\ Leave(t)
    <3>1. \A b \in Blocks : Recording(b) => Recording(b)'
      BY <1>t, <2>1, <2>2 DEF Leave, Recording
    <3> QED BY <1>p, <2>1, <2>2, <3>1 DEF Made, Unreferenced
  <2>3. ASSUME NEW b \in Blocks \ heap, roots' = [roots EXCEPT ![t] = @ \cup {b}],
               maker' = [maker EXCEPT ![b] = t], th' = [th EXCEPT ![t].pc = "record", ![t].ptr = b]
        PROVE  Made'
    <3>1. Recording(b)'
      BY <1>t, <1>p, <2>3 DEF Recording, Typed, Calls
    <3>2. ASSUME NEW c \in Blocks, c # b, maker'[c] # None
          PROVE  c \in used \/ Recording(c)' \/ Unreferenced({c}, Threads \cup {Globals})'
      <4>1. maker[c] # None
        BY <1>p, <2>3, <3>2 DEF Typed
      <4>2. Recording(c) => Recording(c)'
        BY <1>t, <1>p, <2>1, <2>3, <3>2 DEF Recording, Typed, Calls
      <4>3. \A h \in Threads \cup {Globals} : roots'[h] \subseteq roots[h] \cup {b}
        BY <1>p, <2>3 DEF Typed
      <4>4. Unreferenced({c}, Threads \cup {Globals}) => Unreferenced({c}, Threads \cup {Globals})'
        BY <3>2, <4>3 DEF Unreferenced
      <4> QED BY <1>p, <4>1, <4>2, <4>4 DEF Made
    <3> QED BY <2>1, <3>1, <3>2 DEF Made
  <2> QED BY <2>2, <2>3, <1>5 DEF LeaveMalloc
<1>6. ASSUME NEW t \in Threads, RecordBlock(t) PROVE Made'
  BY SMTT(30), <1>t, <1>p, <1>q, GcAssumption, <1>6 DEF RecordBlock, Leave, Local, At, Calls, Made,
     Recording, Unreferenced, Typed, InAutofree, ReleasingInv, Releasing, ScanPhase, ItemsInv,
     Between
<1>7. ASSUME NEW t \in Threads, CallSuspend(t) PROVE Made'
  BY SMTT(30), <1>t, <1>p, <1>q, GcAssumption, <1>7 DEF CallSuspend, Goto, At, Calls, Made,
     Recording, Unreferenced, Typed, InAutofree, ReleasingInv, Releasing, ScanPhase, ItemsInv,
     Between
<1>8. ASSUME NEW t \in Threads, Suspend(t) PROVE Made'
  BY SMTT(30), <1>t, <1>p, <1>q, GcAssumption, <1>8 DEF Suspend, At, Calls, Made, Recording,
     Unreferenced, Typed, InAutofree, ReleasingInv, Releasing, ScanPhase, ItemsInv, Between
<1>9. ASSUME NEW t \in Threads, EnterScan(t) PROVE Made'
  BY SMTT(30), <1>t, <1>p, <1>q, GcAssumption, <1>9 DEF EnterScan, Leave, Local, Goto, At, Calls,
     Made, Recording, Unreferenced, Typed, InAutofree, ReleasingInv, Releasing, ScanPhase, ItemsInv,
     Between
<1>10. ASSUME NEW t \in Threads, Snapshot(t) PROVE Made'
  BY SMTT(30), <1>t, <1>p, <1>q, GcAssumption, <1>10 DEF Snapshot, Leave, Local, At, Calls, Made,
     Recording, Unreferenced, Typed, InAutofree, ReleasingInv, Releasing, ScanPhase, ItemsInv,
     Between
<1>11. ASSUME NEW t \in Threads, LockTable(t) PROVE Made'
  BY SMTT(30), <1>t, <1>p, <1>q, GcAssumption, <1>11 DEF LockTable, At, Calls, Made, Recording,
     Unreferenced, Typed, InAutofree, ReleasingInv, Releasing, ScanPhase, ItemsInv, Between
<1>12. ASSUME NEW t \in Threads, ClearMarks(t) PROVE Made'
  BY SMTT(30), <1>t, <1>p, <1>q, GcAssumption, <1>12 DEF ClearMarks, At, Calls, Made, Recording,
     Unreferenced, Typed, InAutofree, ReleasingInv, Releasing, ScanPhase, ItemsInv, Between
<1>13. ASSUME NEW t \in Threads, MarkThread(t) PROVE Made'
  BY SMTT(30), ZenonT(30), <1>t, <1>p, <1>q, GcAssumption, <1>13 DEF MarkThread, MarkRoots, At,
     Calls, Made, Recording, Unreferenced, Typed, InAutofree, ReleasingInv, Releasing, ScanPhase,
     ItemsInv, Between
<1>14. ASSUME NEW t \in Threads, MarkGlobals(t) PROVE Made'
  BY SMTT(30), <1>t, <1>p, <1>q, GcAssumption, <1>14 DEF MarkGlobals, MarkRoots, At, Calls, Made,
     Recording, Unreferenced, Typed, InAutofree, ReleasingInv, Releasing, ScanPhase, ItemsInv,
     Between
<1>15. ASSUME NEW t \in Threads, CountUnmarked(t) PROVE Made'
  BY SMTT(30), <1>t, <1>p, <1>q, GcAssumption, <1>15 DEF CountUnmarked, At, Calls, Made, Recording,
     Unreferenced, Typed, InAutofree, ReleasingInv, Releasing, ScanPhase, ItemsInv, Between
<1>16. ASSUME NEW t \in Threads, AllocItems(t) PROVE Made'
  BY SMTT(30), <1>t, <1>p, <1>q, GcAssumption, <1>16 DEF AllocItems, Goto, At, Calls, Made,
     Recording, Unreferenced, Typed, InAutofree, ReleasingInv, Releasing, ScanPhase, ItemsInv,
     Between
<1>17. ASSUME NEW t \in Threads, Collect(t) PROVE Made'
  BY SMTT(30), <1>t, <1>p, <1>q, GcAssumption, <1>17 DEF Collect, FirstUnmarked, At, Calls, Made,
     Recording, Unreferenced, Typed, InAutofree, ReleasingInv, Releasing, ScanPhase, ItemsInv,
     Between
<1>18. ASSUME NEW t \in Threads, FreeItem(t) PROVE Made'
  BY SMTT(30), <1>t, <1>p, <1>q, GcAssumption, <1>18 DEF FreeItem, At, Calls, Made, Recording,
     Unreferenced, Typed, InAutofree, ReleasingInv, Releasing, ScanPhase, ItemsInv, Between
<1>19. ASSUME NEW t \in Threads, Resume(t) PROVE Made'
  BY SMTT(30), <1>t, <1>p, <1>q, GcAssumption, <1>19 DEF Resume, At, Calls, Made, Recording,
     Unreferenced, Typed, InAutofree, ReleasingInv, Releasing, ScanPhase, ItemsInv, Between
<1>20. ASSUME NEW t \in Threads, ClearFlag(t) PROVE Made'
  BY SMTT(30), <1>t, <1>p, <1>q, GcAssumption, <1>20 DEF ClearFlag, Leave, Local, At, Calls, Made,
     Recording, Unreferenced, Typed, InAutofree, ReleasingInv, Releasing, ScanPhase, ItemsInv,
     Between
<1>21. ASSUME NEW t \in Threads, PtrSnapshot(t) PROVE Made'
  BY SMTT(30), <1>t, <1>p, <1>q, GcAssumption, <1>21 DEF PtrSnapshot, Goto, At, Calls, Made,
     Recording, Unreferenced, Typed, InAutofree, ReleasingInv, Releasing, ScanPhase, ItemsInv,
     Between
<1>22. ASSUME NEW t \in Threads, PtrScan(t) PROVE Made'
  BY SMTT(30), <1>t, <1>p, <1>q, GcAssumption, <1>22 DEF PtrScan, Goto, At, Calls, Made, Recording,
     Unreferenced, Typed, InAutofree, ReleasingInv, Releasing, ScanPhase, ItemsInv, Between
<1>23. ASSUME NEW t \in Threads, PtrResume(t) PROVE Made'
  <2>1. UNCHANGED <<used, maker>> /\ \A h \in Threads \cup {Globals} : roots'[h] \subseteq roots[h]
    BY <1>p, <1>23 DEF PtrResume, SetRoots, Typed
  <2>2. \A b \in Blocks : Recording(b) => Recording(b)'
    BY <1>t, <2>1, <1>23 DEF PtrResume, Leave, Local, At, Calls, Recording
  <2> QED BY <1>p, <2>1, <2>2 DEF Made, Unreferenced
<1>24. ASSUME NEW t \in Threads, Remove(t) PROVE Made'
  BY SMTT(30), <1>t, <1>p, <1>q, GcAssumption, <1>24 DEF Remove, Leave, Local, Goto, SetRoots, At,
     Calls, Made, Recording, Unreferenced, Typed, InAutofree, ReleasingInv, Releasing, ScanPhase,
     ItemsInv,
     Between
<1>25. ASSUME NEW t \in Threads, ReleasePtr(t) PROVE Made'
  BY SMTT(30), <1>t, <1>p, <1>q, GcAssumption, <1>25 DEF ReleasePtr, Leave, Local, SetRoots, At,
     Calls, Made, Recording, Unreferenced, Typed, InAutofree, ReleasingInv, Releasing, ScanPhase,
     ItemsInv,
     Between
<1> QED
  BY <1>1, <1>2, <1>3, <1>4, <1>5, <1>6, <1>7, <1>8, <1>9, <1>10, <1>11, <1>12, <1>13, <1>14, <1>15,
     <1>16, <1>17, <1>18, <1>19, <1>20, <1>21, <1>22, <1>23, <1>24, <1>25 DEF Next, RuntimeStep

LEMMA AutofreeStep ==
  ASSUME "spawn" \notin Features, "link" \notin Features
  PROVE  SafeInv /\ ScanInv /\ AutofreeInv /\ [Next]_vars => AutofreeInv'
<1> SUFFICES ASSUME SafeInv, ScanInv, AutofreeInv, [Next]_vars PROVE AutofreeInv'
  OBVIOUS
<1>1. CASE Next
  <2>1. \A v \in Threads : ScanPhase(v)'
    BY <1>1, PhaseStep
  <2>2. links' = {}
    <3>1. \A t \in Threads, b \in Blocks : Mutate(t, b) => links' = links
      BY DEF Mutate, Copy, Link, Spawn
    <3> QED BY ZenonT(30), <1>1, <3>1 DEF AutofreeInv, Next, RuntimeStep, program, Sleep,
               EnterMalloc, Autofree, LeaveMalloc, RecordBlock, CallSuspend, Suspend, EnterScan,
               Snapshot, LockTable, ClearMarks,
         MarkThread, MarkGlobals, CountUnmarked, AllocItems, Collect, FreeItem, Resume, ClearFlag,
         PtrSnapshot, PtrScan, PtrResume, Remove, ReleasePtr
  <2> QED BY <1>1, <2>1, <2>2, CheckedStep, ReleasingStep, MadeStep DEF AutofreeInv
<1>2. CASE UNCHANGED vars
  BY <1>2 DEF vars, AutofreeInv, Made, Recording, ReleasingInv, Releasing, InAutofree, NoBlock, Checked,
     Unreferenced
<1> QED BY <1>1, <1>2

LEMMA InitAutofree == Init => AutofreeInv
<1> SUFFICES ASSUME Init PROVE AutofreeInv
  OBVIOUS
<1>1. \A t \in Threads : th[t].pc \in {"idle", "enter"} /\ th[t].ptr = None /\ ~ th[t].checked
  BY DEF Init, Local, Start
<1>2. links = {} /\ \A b \in Blocks : maker[b] = None
  BY DEF Init
<1> QED BY <1>1, <1>2 DEF AutofreeInv, Made, ReleasingInv, InAutofree, NoBlock, Checked

\* __ct_autofree, while no thread is created and no block refers to another: when its
\* scan has found nothing, no other thread and no global gets to refer to the block
\* before it is released, and nobody else releases it.
THEOREM AutofreeSafely ==
  ASSUME "spawn" \notin Features, "link" \notin Features
  PROVE  Spec => []AutofreeUnreferenced
<1>1. SafeInv /\ ScanInv /\ AutofreeInv => AutofreeUnreferenced
  BY DEF ScanInv, Complete, AutofreeInv, Checked, Unreferenced, AutofreeUnreferenced, SafeInv, ItemsInv, Between,
     Typed
<1> QED BY <1>1, InitAutofree, AutofreeStep, SafeAlways, ScanAlways, PTL DEF Spec
-----------------------------------------------------------------------------
(* Nothing stands in the way of a scan                                     *)

\* A scan for leaks, at startup or of the periodic thread.
GcScan(t) ==
  \/ th[t].pc \in {"snapshot", "lock", "mark", "count", "items", "collect", "free", "clear"}
  \/ th[t].pc \in {"suspend", "kernel"} /\ th[t].ptr = None

\* There is one of them at a time, and only it keeps the lock of the table.
PlaceOK(t) ==
  /\ th[t].pc # "idle" => t \in alive
  /\ th[t].pc = "enter" => t \in {Main, Collector}
  /\ th[t].pc = "sleep" => t = Collector
  /\ th[t].pc \in {"sleep", "enter", "snapshot", "lock", "mark", "count", "items", "collect", "free", "clear"} =>
       th[t].ptr = None
  /\ th[t].pc \in {"ptr_snapshot", "ptr_found", "ptr_clear"} => th[t].ptr # None
  /\ GcScan(t) => inProgress
  /\ lock = t => th[t].ptr = None /\ th[t].pc \in {"suspend", "kernel", "mark", "count"}
OneScan ==
  /\ \A t \in Threads : PlaceOK(t)
  /\ \A t, u \in Threads : GcScan(t) /\ GcScan(u) => t = u
  /\ ~ SharedLocks => mlock = None

LEMMA InitOneScan == Init => OneScan
BY GcAssumption DEF Init, OneScan, PlaceOK, GcScan, Local, Start

LEMMA OneScanStep == ASSUME Typed, OneScan, Next PROVE OneScan'
<1> USE GcAssumption DEF OneScan, PlaceOK, GcScan, table, program
<1>0. th \in [Threads -> Calls] /\ alive \subseteq Threads /\ {lock, mlock} \subseteq Threads \cup {None}
  BY DEF Typed
<1>1. CASE Sleep
  BY <1>0, <1>1 DEF Sleep, Goto, At, Running, Calls
<1>2. ASSUME NEW t \in Threads, EnterMalloc(t) PROVE OneScan'
  BY <1>0, <1>2 DEF EnterMalloc, Goto, Program, At, Running, Calls
<1>3. ASSUME NEW t \in Threads, NEW b \in Blocks, Mutate(t, b) PROVE OneScan'
  BY <1>0, <1>3 DEF Mutate, Program, Copy, Link, Spawn, SetRoots, At, Running, Calls
<1>4. ASSUME NEW t \in Threads, NEW b \in Blocks, Autofree(t, b) PROVE OneScan'
  BY <1>0, <1>4 DEF Autofree, Program, At, Running, Calls
<1>5. ASSUME NEW t \in Threads, LeaveMalloc(t) PROVE OneScan'
  BY <1>0, <1>5 DEF LeaveMalloc, Leave, Local, At, Running, Calls
<1>6. ASSUME NEW t \in Threads, RecordBlock(t) PROVE OneScan'
  BY <1>0, <1>6 DEF RecordBlock, Leave, Local, At, Running, Calls
<1>7. ASSUME NEW t \in Threads, CallSuspend(t) PROVE OneScan'
  BY <1>0, <1>7 DEF CallSuspend, Goto, At, Running, Calls
<1>8. ASSUME NEW t \in Threads, Suspend(t) PROVE OneScan'
  BY <1>0, <1>8 DEF Suspend, At, Running, Calls
<1>9. ASSUME NEW t \in Threads, EnterScan(t) PROVE OneScan'
  BY <1>0, <1>9 DEF EnterScan, Leave, Local, Goto, At, Running, Calls
<1>10. ASSUME NEW t \in Threads, Snapshot(t) PROVE OneScan'
  BY <1>0, <1>10 DEF Snapshot, Leave, Local, At, Running, Calls
<1>11. ASSUME NEW t \in Threads, LockTable(t) PROVE OneScan'
  BY <1>0, <1>11 DEF LockTable, At, Running, Calls
<1>12. ASSUME NEW t \in Threads, ClearMarks(t) PROVE OneScan'
  BY <1>0, <1>12 DEF ClearMarks, At, Running, Calls
<1>13. ASSUME NEW t \in Threads, MarkThread(t) PROVE OneScan'
  BY <1>0, <1>13 DEF MarkThread, MarkRoots, At, Running, Calls
<1>14. ASSUME NEW t \in Threads, MarkGlobals(t) PROVE OneScan'
  BY <1>0, <1>14 DEF MarkGlobals, MarkRoots, At, Running, Calls
<1>15. ASSUME NEW t \in Threads, CountUnmarked(t) PROVE OneScan'
  BY <1>0, <1>15 DEF CountUnmarked, At, Running, Calls
<1>16. ASSUME NEW t \in Threads, AllocItems(t) PROVE OneScan'
  BY <1>0, <1>16 DEF AllocItems, Goto, At, Running, Calls
<1>17. ASSUME NEW t \in Threads, Collect(t) PROVE OneScan'
  BY <1>0, <1>17 DEF Collect, At, Running, Calls
<1>18. ASSUME NEW t \in Threads, FreeItem(t) PROVE OneScan'
  BY <1>0, <1>18 DEF FreeItem, At, Running, Calls
<1>19. ASSUME NEW t \in Threads, Resume(t) PROVE OneScan'
  BY <1>0, <1>19 DEF Resume, At, Running, Calls
<1>20. ASSUME NEW t \in Threads, ClearFlag(t) PROVE OneScan'
  BY <1>0, <1>20 DEF ClearFlag, Leave, Local, At, Running, Calls
<1>21. ASSUME NEW t \in Threads, PtrSnapshot(t) PROVE OneScan'
  BY <1>0, <1>21 DEF PtrSnapshot, Goto, At, Running, Calls
<1>22. ASSUME NEW t \in Threads, PtrScan(t) PROVE OneScan'
  BY <1>0, <1>22 DEF PtrScan, Goto, At, Running, Calls
<1>23. ASSUME NEW t \in Threads, PtrResume(t) PROVE OneScan'
  BY <1>0, <1>23 DEF PtrResume, Leave, Local, At, Running, Calls
<1>24. ASSUME NEW t \in Threads, Remove(t) PROVE OneScan'
  BY <1>0, <1>24 DEF Remove, Leave, Local, Goto, At, Running, Calls
<1>25. ASSUME NEW t \in Threads, ReleasePtr(t) PROVE OneScan'
  BY <1>0, <1>25 DEF ReleasePtr, Leave, Local, At, Running, Calls
<1> QED
  BY <1>1, <1>2, <1>3, <1>4, <1>5, <1>6, <1>7, <1>8, <1>9, <1>10, <1>11, <1>12, <1>13, <1>14, <1>15,
     <1>16, <1>17, <1>18, <1>19, <1>20, <1>21, <1>22, <1>23, <1>24, <1>25 DEF Next, RuntimeStep

LEMMA OneScanAlwaysStep == Typed /\ OneScan /\ [Next]_vars => OneScan'
<1>1. ASSUME UNCHANGED vars, OneScan PROVE OneScan'
  BY <1>1 DEF vars, OneScan, PlaceOK, GcScan
<1> QED BY <1>1, OneScanStep

\* One thread at a time looks for leaks, while ct_autofree_scan_in_progress is set, and
\* nobody else keeps the lock of the table from one step to the next.
THEOREM ScansAlone == Spec => [](SafeInv /\ OneScan)
BY InitSafe, SafeStep, InitOneScan, OneScanAlwaysStep, PTL DEF Spec, SafeInv

\* Without __ct_autofree no thread looks for a single pointer.
NoPtrScan ==
  \A t \in Threads :
    th[t].pc \notin {"ptr_snapshot", "ptr_found", "ptr_clear"} /\ (th[t].pc \in {"suspend", "kernel"} => th[t].ptr = None)

LEMMA NoPtrScanStep ==
  ASSUME Typed, OneScan, NoPtrScan, Next, "autofree" \notin Features
  PROVE  NoPtrScan'
<1> USE DEF NoPtrScan, OneScan, PlaceOK, table, program
<1>0. th \in [Threads -> Calls]
  BY DEF Typed
<1>1. CASE Sleep
  BY <1>0, <1>1 DEF Sleep, Goto, At, Running, Calls
<1>2. ASSUME NEW t \in Threads, EnterMalloc(t) PROVE NoPtrScan'
  BY <1>0, <1>2 DEF EnterMalloc, Goto, Program, At, Running, Calls
<1>3. ASSUME NEW t \in Threads, NEW b \in Blocks, Mutate(t, b) PROVE NoPtrScan'
  BY <1>0, <1>3 DEF Mutate, Program, Copy, Link, Spawn, SetRoots, At, Running, Calls
<1>4. ASSUME NEW t \in Threads, NEW b \in Blocks, Autofree(t, b) PROVE NoPtrScan'
  BY <1>0, <1>4 DEF Autofree, Program, At, Running, Calls
<1>5. ASSUME NEW t \in Threads, LeaveMalloc(t) PROVE NoPtrScan'
  BY <1>0, <1>5 DEF LeaveMalloc, Leave, Local, At, Running, Calls
<1>6. ASSUME NEW t \in Threads, RecordBlock(t) PROVE NoPtrScan'
  BY <1>0, <1>6 DEF RecordBlock, Leave, Local, At, Running, Calls
<1>7. ASSUME NEW t \in Threads, CallSuspend(t) PROVE NoPtrScan'
  BY <1>0, <1>7 DEF CallSuspend, Goto, At, Running, Calls
<1>8. ASSUME NEW t \in Threads, Suspend(t) PROVE NoPtrScan'
  BY <1>0, <1>8 DEF Suspend, At, Running, Calls
<1>9. ASSUME NEW t \in Threads, EnterScan(t) PROVE NoPtrScan'
  BY <1>0, <1>9 DEF EnterScan, Leave, Local, Goto, At, Running, Calls
<1>10. ASSUME NEW t \in Threads, Snapshot(t) PROVE NoPtrScan'
  BY <1>0, <1>10 DEF Snapshot, Leave, Local, At, Running, Calls
<1>11. ASSUME NEW t \in Threads, LockTable(t) PROVE NoPtrScan'
  BY <1>0, <1>11 DEF LockTable, At, Running, Calls
<1>12. ASSUME NEW t \in Threads, ClearMarks(t) PROVE NoPtrScan'
  BY <1>0, <1>12 DEF ClearMarks, At, Running, Calls
<1>13. ASSUME NEW t \in Threads, MarkThread(t) PROVE NoPtrScan'
  BY <1>0, <1>13 DEF MarkThread, MarkRoots, At, Running, Calls
<1>14. ASSUME NEW t \in Threads, MarkGlobals(t) PROVE NoPtrScan'
  BY <1>0, <1>14 DEF MarkGlobals, MarkRoots, At, Running, Calls
<1>15. ASSUME NEW t \in Threads, CountUnmarked(t) PROVE NoPtrScan'
  BY <1>0, <1>15 DEF CountUnmarked, At, Running, Calls
<1>16. ASSUME NEW t \in Threads, AllocItems(t) PROVE NoPtrScan'
  BY <1>0, <1>16 DEF AllocItems, Goto, At, Running, Calls
<1>17. ASSUME NEW t \in Threads, Collect(t) PROVE NoPtrScan'
  BY <1>0, <1>17 DEF Collect, At, Running, Calls
<1>18. ASSUME NEW t \in Threads, FreeItem(t) PROVE NoPtrScan'
  BY <1>0, <1>18 DEF FreeItem, At, Running, Calls
<1>19. ASSUME NEW t \in Threads, Resume(t) PROVE NoPtrScan'
  BY <1>0, <1>19 DEF Resume, At, Running, Calls
<1>20. ASSUME NEW t \in Threads, ClearFlag(t) PROVE NoPtrScan'
  BY <1>0, <1>20 DEF ClearFlag, Leave, Local, At, Running, Calls
<1>21. ASSUME NEW t \in Threads, PtrSnapshot(t) PROVE NoPtrScan'
  BY <1>0, <1>21 DEF PtrSnapshot, Goto, At, Running, Calls
<1>22. ASSUME NEW t \in Threads, PtrScan(t) PROVE NoPtrScan'
  BY <1>0, <1>22 DEF PtrScan, Goto, At, Running, Calls
<1>23. ASSUME NEW t \in Threads, PtrResume(t) PROVE NoPtrScan'
  BY <1>0, <1>23 DEF PtrResume, Leave, Local, At, Running, Calls
<1>24. ASSUME NEW t \in Threads, Remove(t) PROVE NoPtrScan'
  BY <1>0, <1>24 DEF Remove, Leave, Local, Goto, At, Running, Calls
<1>25. ASSUME NEW t \in Threads, ReleasePtr(t) PROVE NoPtrScan'
  BY <1>0, <1>25 DEF ReleasePtr, Leave, Local, At, Running, Calls
<1> QED
  BY <1>1, <1>2, <1>3, <1>4, <1>5, <1>6, <1>7, <1>8, <1>9, <1>10, <1>11, <1>12, <1>13, <1>14, <1>15,
     <1>16, <1>17, <1>18, <1>19, <1>20, <1>21, <1>22, <1>23, <1>24, <1>25 DEF Next, RuntimeStep

\* When the locks of malloc and the logger are not shared, and no thread looks for a
\* single pointer, nothing keeps a scan for leaks from its next step: it is not
\* suspended, and each lock it needs is free.  Without these two conditions scans may
\* stand still for ever (ct_autofree_gc_scan; the first is the one of finding 2).
NeverBlocked ==
  \A t \in Threads : InScan(t) =>
    /\ Running(t) /\ mlock = None
    /\ th[t].pc \in {"lock", "collect"} => lock = None

\* A scan for leaks can always take its next step, if __ct_autofree never looks for a
\* pointer and no lock of malloc or the logger is kept by a thread that is stopped.
THEOREM ScansNeverBlocked ==
  ASSUME "autofree" \notin Features, ~ SharedLocks
  PROVE  Spec => []NeverBlocked
<1>1. Init => NoPtrScan
  BY DEF Init, NoPtrScan, Local, Start
<1>2. SafeInv /\ OneScan /\ NoPtrScan /\ [Next]_vars => NoPtrScan'
  <2>1. ASSUME UNCHANGED vars, NoPtrScan PROVE NoPtrScan'
    BY <2>1 DEF vars, NoPtrScan
  <2> QED BY <2>1, NoPtrScanStep DEF SafeInv
<1>3. SafeInv /\ OneScan /\ NoPtrScan => NeverBlocked
  <2> SUFFICES ASSUME SafeInv, OneScan, NoPtrScan, NEW t \in Threads, InScan(t)
               PROVE  Running(t) /\ mlock = None /\ (th[t].pc \in {"lock", "collect"} => lock = None)
    BY DEF NeverBlocked
  <2>1. GcScan(t)
    BY DEF InScan, NoPtrScan, GcScan
  <2>2. Holders(t) = {}
    <3> SUFFICES ASSUME NEW u \in Holders(t) PROVE FALSE
      OBVIOUS
    <3>1. u \in Threads \ {t} /\ th[u].snap # {} /\ th[u].pc # "lock"
      BY DEF Holders, Holds
    <3>2. th[u].pc \in Suspended \cup {"suspend", "kernel"}
      BY <3>1 DEF SafeInv, Snapshots
    <3>3. GcScan(u)
      BY <3>1, <3>2 DEF NoPtrScan, GcScan, Suspended
    <3> QED BY <2>1, <3>1, <3>3 DEF OneScan
  <2>3. susp[t] = 0
    BY <2>2, FS_EmptySet DEF SafeInv, Counted
  <2>4. Running(t)
    BY <2>1, <2>3 DEF OneScan, PlaceOK, GcScan, Running
  <2>5. ASSUME th[t].pc \in {"lock", "collect"}, lock # None PROVE FALSE
    <3>1. lock \in Threads /\ GcScan(lock)
      BY <2>5 DEF SafeInv, Typed, OneScan, PlaceOK, GcScan
    <3>2. lock = t
      BY <2>1, <3>1 DEF OneScan
    <3> QED BY <2>5, <3>2 DEF OneScan, PlaceOK
  <2> QED BY <2>4, <2>5 DEF OneScan
<1> QED BY <1>1, <1>2, <1>3, ScansAlone, PTL DEF Spec

\* The flag is set only while a scan is made, if the first periodic scan is due: none
\* is kept from starting by a flag that was left behind (ct_autofree_gc_scan).
FlagTrue ==
  /\ inProgress => \E t \in Threads : GcScan(t)
  /\ th[Collector].pc = "enter" => due
FlagMeansScan == inProgress => \E t \in Threads : GcScan(t)

\* A scan that is due is made.
LEMMA EnterScanIs ==
  ASSUME NEW t \in Threads, EnterScan(t), Due(t)
  PROVE  /\ th[t].pc = "enter"
         /\ \/ Leave(t) /\ inProgress' = inProgress
            \/ Goto(t, "snapshot") /\ ~ inProgress
         /\ due' = due \/ due' = (due /\ t = Main)
<1>1. th[t].pc = "enter"
  BY DEF EnterScan, At
<1>2. CASE Leave(t) /\ UNCHANGED <<inProgress, due>>
  BY <1>1, <1>2
<1>3. CASE ~ inProgress /\ Goto(t, "snapshot") /\ due' = (due /\ t = Main)
  BY <1>1, <1>3
<1> QED BY <1>2, <1>3 DEF EnterScan

LEMMA FlagStep == ASSUME Typed, OneScan, FlagTrue, Next PROVE FlagTrue'
<1> USE GcAssumption DEF FlagTrue, OneScan, PlaceOK, GcScan, table, program
<1>0. th \in [Threads -> Calls] /\ inProgress \in BOOLEAN
  BY DEF Typed
<1>1. CASE Sleep
  BY <1>0, <1>1 DEF Sleep, Goto, At, Running, Calls
<1>2. ASSUME NEW t \in Threads, EnterMalloc(t) PROVE FlagTrue'
  BY <1>0, <1>2 DEF EnterMalloc, Goto, Program, At, Running, Calls
<1>3. ASSUME NEW t \in Threads, NEW b \in Blocks, Mutate(t, b) PROVE FlagTrue'
  BY <1>0, <1>3 DEF Mutate, Program, Copy, Link, Spawn, SetRoots, At, Running, Calls
<1>4. ASSUME NEW t \in Threads, NEW b \in Blocks, Autofree(t, b) PROVE FlagTrue'
  BY <1>0, <1>4 DEF Autofree, Program, At, Running, Calls
<1>5. ASSUME NEW t \in Threads, LeaveMalloc(t) PROVE FlagTrue'
  BY <1>0, <1>5 DEF LeaveMalloc, Leave, Local, At, Running, Calls
<1>6. ASSUME NEW t \in Threads, RecordBlock(t) PROVE FlagTrue'
  BY <1>0, <1>6 DEF RecordBlock, Leave, Local, At, Running, Calls
<1>7. ASSUME NEW t \in Threads, CallSuspend(t) PROVE FlagTrue'
  BY <1>0, <1>7 DEF CallSuspend, Goto, At, Running, Calls
<1>8. ASSUME NEW t \in Threads, Suspend(t) PROVE FlagTrue'
  BY <1>0, <1>8 DEF Suspend, At, Running, Calls
<1>9. ASSUME NEW t \in Threads, EnterScan(t) PROVE FlagTrue'
  <2>1. Due(t) /\ due \in BOOLEAN
    BY <1>0, <1>9 DEF EnterScan, Due, At, Typed
  <2>2. /\ th[t].pc = "enter"
        /\ \/ Leave(t) /\ inProgress' = inProgress
           \/ Goto(t, "snapshot") /\ ~ inProgress
        /\ due' = due \/ due' = (due /\ t = Main)
    BY <1>9, <2>1, EnterScanIs
  <2>3. \A u \in Threads \ {t} : th'[u] = th[u]
    BY <1>0, <2>2 DEF Leave, Goto
  <2>4. th'[t].pc # "enter"
    <3>1. CASE Leave(t)
      BY <1>0, <3>1 DEF Leave, Local
    <3>2. CASE Goto(t, "snapshot")
      BY <1>0, <3>2 DEF Goto, Calls
    <3> QED BY <2>2, <3>1, <3>2
  <2>5. ASSUME th'[Collector].pc = "enter" PROVE due'
    <3>1. Collector # t /\ th[Collector].pc = "enter"
      BY <2>3, <2>4, <2>5
    <3>2. due
      BY <3>1
    <3>3. t = Main
      BY <2>2, <3>1
    <3> QED BY <2>2, <3>2, <3>3
  <2>6. ASSUME inProgress' PROVE \E u \in Threads : GcScan(u)'
    <3>1. CASE Leave(t) /\ inProgress' = inProgress
      <4>1. PICK u \in Threads : GcScan(u)
        BY <2>6, <3>1
      <4>2. u # t
        BY <2>2, <4>1
      <4> QED BY <2>3, <4>1, <4>2
    <3>2. CASE Goto(t, "snapshot")
      BY <1>0, <3>2 DEF Goto, Calls
    <3> QED BY <2>2, <3>1, <3>2
  <2> QED BY <2>5, <2>6
<1>10. ASSUME NEW t \in Threads, Snapshot(t) PROVE FlagTrue'
  BY <1>0, <1>10 DEF Snapshot, Leave, Local, At, Running, Calls
<1>11. ASSUME NEW t \in Threads, LockTable(t) PROVE FlagTrue'
  BY <1>0, <1>11 DEF LockTable, At, Running, Calls
<1>12. ASSUME NEW t \in Threads, ClearMarks(t) PROVE FlagTrue'
  BY <1>0, <1>12 DEF ClearMarks, At, Running, Calls
<1>13. ASSUME NEW t \in Threads, MarkThread(t) PROVE FlagTrue'
  BY <1>0, <1>13 DEF MarkThread, MarkRoots, At, Running, Calls
<1>14. ASSUME NEW t \in Threads, MarkGlobals(t) PROVE FlagTrue'
  BY <1>0, <1>14 DEF MarkGlobals, MarkRoots, At, Running, Calls
<1>15. ASSUME NEW t \in Threads, CountUnmarked(t) PROVE FlagTrue'
  BY <1>0, <1>15 DEF CountUnmarked, At, Running, Calls
<1>16. ASSUME NEW t \in Threads, AllocItems(t) PROVE FlagTrue'
  BY <1>0, <1>16 DEF AllocItems, Goto, At, Running, Calls
<1>17. ASSUME NEW t \in Threads, Collect(t) PROVE FlagTrue'
  BY <1>0, <1>17 DEF Collect, At, Running, Calls
<1>18. ASSUME NEW t \in Threads, FreeItem(t) PROVE FlagTrue'
  BY <1>0, <1>18 DEF FreeItem, At, Running, Calls
<1>19. ASSUME NEW t \in Threads, Resume(t) PROVE FlagTrue'
  BY <1>0, <1>19 DEF Resume, At, Running, Calls
<1>20. ASSUME NEW t \in Threads, ClearFlag(t) PROVE FlagTrue'
  BY <1>0, <1>20 DEF ClearFlag, Leave, Local, At, Running, Calls
<1>21. ASSUME NEW t \in Threads, PtrSnapshot(t) PROVE FlagTrue'
  BY <1>0, <1>21 DEF PtrSnapshot, Goto, At, Running, Calls
<1>22. ASSUME NEW t \in Threads, PtrScan(t) PROVE FlagTrue'
  BY <1>0, <1>22 DEF PtrScan, Goto, At, Running, Calls
<1>23. ASSUME NEW t \in Threads, PtrResume(t) PROVE FlagTrue'
  BY <1>0, <1>23 DEF PtrResume, Leave, Local, At, Running, Calls
<1>24. ASSUME NEW t \in Threads, Remove(t) PROVE FlagTrue'
  BY <1>0, <1>24 DEF Remove, Leave, Local, Goto, At, Running, Calls
<1>25. ASSUME NEW t \in Threads, ReleasePtr(t) PROVE FlagTrue'
  BY <1>0, <1>25 DEF ReleasePtr, Leave, Local, At, Running, Calls
<1> QED
  BY <1>1, <1>2, <1>3, <1>4, <1>5, <1>6, <1>7, <1>8, <1>9, <1>10, <1>11, <1>12, <1>13, <1>14, <1>15,
     <1>16, <1>17, <1>18, <1>19, <1>20, <1>21, <1>22, <1>23, <1>24, <1>25 DEF Next, RuntimeStep

\* Where the start-up sets the time of the first scan, the scanning flag is set only
\* while a thread makes the scan it announces: the flag never stays behind to stop
\* all later scans (ct_autofree_gc_scan sets and clears it around its work).
THEOREM FlagAlwaysTrue == ASSUME DueAtStart PROVE Spec => []FlagMeansScan
<1>1. Init => FlagTrue
  BY GcAssumption DEF Init, FlagTrue
<1>2. SafeInv /\ OneScan /\ FlagTrue /\ [Next]_vars => FlagTrue'
  <2>1. ASSUME UNCHANGED vars, FlagTrue PROVE FlagTrue'
    BY <2>1 DEF vars, FlagTrue, GcScan
  <2> QED BY <2>1, FlagStep DEF SafeInv
<1>3. FlagTrue => FlagMeansScan
  BY DEF FlagTrue, FlagMeansScan
<1> QED BY <1>1, <1>2, <1>3, ScansAlone, PTL DEF Spec

-----------------------------------------------------------------------------
(* A scan gets shorter with each of its steps                              *)

\* What is left of a scan: the phases to come, and what is to do in this one.  The
\* threads to suspend count twice, for the call and its effect.
PhasesLeft(pc) ==
  CASE pc \in {"snapshot", "ptr_snapshot"} -> 8
    [] pc = "lock" -> 7
    [] pc \in {"suspend", "kernel"} -> 6
    [] pc = "mark" -> 5
    [] pc = "count" -> 4
    [] pc = "items" -> 3
    [] pc = "collect" -> 2
    [] pc = "free" -> 1
    [] OTHER -> 0
LeftIn(f) ==
  CASE f.pc = "suspend" -> 2 * Cardinality(f.todo) + 1
    [] f.pc = "kernel" -> 2 * Cardinality(f.todo)
    [] f.pc = "mark" -> Cardinality(f.todo)
    [] f.pc = "free" -> Cardinality(f.items)
    [] OTHER -> 0
Shorter(f, g) ==
  \/ PhasesLeft(f.pc) < PhasesLeft(g.pc)
  \/ PhasesLeft(f.pc) = PhasesLeft(g.pc) /\ LeftIn(f) < LeftIn(g)

\* Each step of a thread that scans ends the scan or leaves less of it, and no step of
\* another thread changes what is left: a scan whose steps are made ends.
EachShrinks ==
  \A t \in Threads : InScan(t) =>
    IF RuntimeStep(t) THEN ~ InScan(t)' \/ Shorter(th'[t], th[t]) ELSE th'[t] = th[t]
ScanShrinks == [][EachShrinks]_vars

LEMMA LeftInNat == ASSUME NEW f \in Calls PROVE LeftIn(f) \in Nat
<1>1. /\ IsFiniteSet(f.todo) /\ IsFiniteSet(f.items)
  BY GcAssumption, FS_Subset DEF Calls
<1>2. Cardinality(f.todo) \in Nat /\ Cardinality(f.items) \in Nat
  BY <1>1, FS_CardinalityType
<1> QED BY <1>2 DEF LeftIn

LEMMA Fewer ==
  ASSUME NEW S, IsFiniteSet(S), NEW x \in S
  PROVE  Cardinality(S \ {x}) \in Nat /\ Cardinality(S) = Cardinality(S \ {x}) + 1
<1> DEFINE R == S \ {x}
           k == Cardinality(S)
           n == Cardinality(R)
<1>1. k \in Nat /\ IsFiniteSet(R) /\ n = k - 1
  BY FS_RemoveElement, FS_CardinalityType
<1>2. n \in Nat
  BY <1>1, FS_CardinalityType
<1> HIDE DEF k, n
<1>3. n \in Nat /\ k = n + 1
  BY <1>1, <1>2
<1> QED BY <1>3 DEF k, n

LEMMA StepShrinks ==
  ASSUME Typed, NEW t \in Threads, InScan(t), RuntimeStep(t)
  PROVE  ~ InScan(t)' \/ Shorter(th'[t], th[t])
<1> USE DEF InScan, Shorter, PhasesLeft, table, program
<1>0. th \in [Threads -> Calls]
  BY DEF Typed
<1>1. CASE LeaveMalloc(t)
  BY <1>0, <1>1 DEF LeaveMalloc, Leave, Local, At, Calls
<1>2. CASE RecordBlock(t)
  BY <1>0, <1>2 DEF RecordBlock, Leave, Local, At, Calls
<1>3. CASE CallSuspend(t)
  <2>1. /\ th[t].pc = "suspend" /\ th'[t].pc = "kernel" /\ th'[t].todo = th[t].todo
    BY <1>0, <1>3 DEF CallSuspend, Goto, At, Calls
  <2>2. Cardinality(th[t].todo) \in Nat
    BY <1>0, GcAssumption, FS_Subset, FS_CardinalityType DEF Calls
  <2> QED BY <2>1, <2>2 DEF LeftIn
<1>4. CASE Suspend(t)
  <2>1. PICK u \in th[t].todo :
          th[t].pc = "kernel" /\ th'[t].pc = "suspend" /\ th'[t].todo = th[t].todo \ {u}
    BY <1>0, <1>4 DEF Suspend, Calls
  <2>2. IsFiniteSet(th[t].todo)
    BY <1>0, GcAssumption, FS_Subset DEF Calls
  <2>3. /\ Cardinality(th'[t].todo) \in Nat
        /\ Cardinality(th[t].todo) = Cardinality(th'[t].todo) + 1
    BY <2>1, <2>2, Fewer
  <2> QED BY <2>1, <2>3 DEF LeftIn
<1>5. CASE EnterScan(t)
  BY <1>0, <1>5 DEF EnterScan, Leave, Local, Goto, At, Calls
<1>6. CASE Snapshot(t)
  BY <1>0, <1>6 DEF Snapshot, Leave, Local, At, Calls
<1>7. CASE LockTable(t)
  BY <1>0, <1>7 DEF LockTable, At, Calls
<1>8. CASE ClearMarks(t)
  BY <1>0, <1>8 DEF ClearMarks, At, Calls
<1>9. CASE MarkThread(t)
  <2>1. PICK u \in th[t].todo : MarkRoots(t, u, "mark", th[t].todo \ {u})
    BY <1>9 DEF MarkThread
  <2>2. th[t].pc = "mark"
    BY <1>9 DEF MarkThread, At
  <2>3. \/ th'[t].pc = "count"
        \/ th'[t].pc = "mark" /\ th'[t].todo = th[t].todo \ {u}
    BY <1>0, <2>1 DEF MarkRoots, Calls
  <2>4. IsFiniteSet(th[t].todo)
    BY <1>0, GcAssumption, FS_Subset DEF Calls
  <2>5. CASE th'[t].todo = th[t].todo \ {u}
    <3>1. /\ Cardinality(th'[t].todo) \in Nat
          /\ Cardinality(th[t].todo) = Cardinality(th'[t].todo) + 1
      BY <2>4, <2>5, Fewer
    <3> QED BY <2>2, <2>3, <3>1 DEF LeftIn
  <2> QED BY <2>2, <2>3, <2>5
<1>10. CASE MarkGlobals(t)
  BY <1>0, <1>10 DEF MarkGlobals, MarkRoots, At, Calls
<1>11. CASE CountUnmarked(t)
  BY <1>0, <1>11 DEF CountUnmarked, At, Calls
<1>12. CASE AllocItems(t)
  BY <1>0, <1>12 DEF AllocItems, Goto, At, Calls
<1>13. CASE Collect(t)
  BY <1>0, <1>13 DEF Collect, At, Calls
<1>14. CASE FreeItem(t)
  <2>1. PICK b \in th[t].items :
          th[t].pc = "free" /\ th'[t].pc = "free" /\ th'[t].items = th[t].items \ {b}
    BY <1>0, <1>14 DEF FreeItem, At, Calls
  <2>2. IsFiniteSet(th[t].items)
    BY <1>0, GcAssumption, FS_Subset DEF Calls
  <2>3. /\ Cardinality(th'[t].items) \in Nat
        /\ Cardinality(th[t].items) = Cardinality(th'[t].items) + 1
    BY <2>1, <2>2, Fewer
  <2> QED BY <2>1, <2>3 DEF LeftIn
<1>15. CASE Resume(t)
  BY <1>0, <1>15 DEF Resume, At, Calls
<1>16. CASE ClearFlag(t)
  BY <1>0, <1>16 DEF ClearFlag, Leave, Local, At, Calls
<1>17. CASE PtrSnapshot(t)
  BY <1>0, <1>17 DEF PtrSnapshot, Goto, At, Calls
<1>18. CASE PtrScan(t)
  BY <1>0, <1>18 DEF PtrScan, Goto, At, Calls
<1>19. CASE PtrResume(t)
  BY <1>0, <1>19 DEF PtrResume, Leave, Local, At, Calls
<1>20. CASE Remove(t)
  BY <1>0, <1>20 DEF Remove, Leave, Local, Goto, At, Calls
<1>21. CASE ReleasePtr(t)
  BY <1>0, <1>21 DEF ReleasePtr, Leave, Local, At, Calls
<1> QED
  BY <1>1, <1>2, <1>3, <1>4, <1>5, <1>6, <1>7, <1>8, <1>9, <1>10, <1>11,
     <1>12, <1>13, <1>14, <1>15, <1>16, <1>17, <1>18, <1>19, <1>20, <1>21 DEF RuntimeStep

LEMMA OthersKeepScan ==
  ASSUME Typed, NEW t \in Threads, InScan(t), Next, ~ RuntimeStep(t)
  PROVE  th'[t] = th[t]
<1> USE DEF InScan, table, program
<1>0. th \in [Threads -> Calls]
  BY DEF Typed
<1>1. CASE Sleep
  BY <1>0, <1>1 DEF Sleep, Goto, At, Calls
<1>2. ASSUME NEW u \in Threads, EnterMalloc(u) PROVE th'[t] = th[t]
  BY <1>0, <1>2 DEF EnterMalloc, Goto, Program, At, Calls
<1>3. ASSUME NEW u \in Threads, NEW b \in Blocks, Mutate(u, b) PROVE th'[t] = th[t]
  BY <1>3 DEF Mutate
<1>4. ASSUME NEW u \in Threads, NEW b \in Blocks, Autofree(u, b) PROVE th'[t] = th[t]
  BY <1>0, <1>4 DEF Autofree, Program, At, Calls
<1>5. ASSUME NEW u \in Threads \ {t}, RuntimeStep(u) PROVE th'[t] = th[t]
  <2>1. CASE LeaveMalloc(u)
    BY <1>0, <1>5, <2>1 DEF LeaveMalloc, Leave
  <2>2. CASE RecordBlock(u)
    BY <1>0, <1>5, <2>2 DEF RecordBlock, Leave
  <2>3. CASE CallSuspend(u)
    BY <1>0, <1>5, <2>3 DEF CallSuspend, Goto
  <2>4. CASE Suspend(u)
    BY <1>0, <1>5, <2>4 DEF Suspend
  <2>5. CASE EnterScan(u)
    BY <1>0, <1>5, <2>5 DEF EnterScan, Leave, Goto
  <2>6. CASE Snapshot(u)
    BY <1>0, <1>5, <2>6 DEF Snapshot, Leave
  <2>7. CASE LockTable(u)
    BY <1>0, <1>5, <2>7 DEF LockTable
  <2>8. CASE ClearMarks(u)
    BY <1>0, <1>5, <2>8 DEF ClearMarks
  <2>9. CASE MarkThread(u)
    BY <1>0, <1>5, <2>9 DEF MarkThread, MarkRoots
  <2>10. CASE MarkGlobals(u)
    BY <1>0, <1>5, <2>10 DEF MarkGlobals, MarkRoots
  <2>11. CASE CountUnmarked(u)
    BY <1>0, <1>5, <2>11 DEF CountUnmarked
  <2>12. CASE AllocItems(u)
    BY <1>0, <1>5, <2>12 DEF AllocItems, Goto
  <2>13. CASE Collect(u)
    BY <1>0, <1>5, <2>13 DEF Collect
  <2>14. CASE FreeItem(u)
    BY <1>0, <1>5, <2>14 DEF FreeItem
  <2>15. CASE Resume(u)
    BY <1>0, <1>5, <2>15 DEF Resume
  <2>16. CASE ClearFlag(u)
    BY <1>0, <1>5, <2>16 DEF ClearFlag, Leave
  <2>17. CASE PtrSnapshot(u)
    BY <1>0, <1>5, <2>17 DEF PtrSnapshot, Goto
  <2>18. CASE PtrScan(u)
    BY <1>0, <1>5, <2>18 DEF PtrScan, Goto
  <2>19. CASE PtrResume(u)
    BY <1>0, <1>5, <2>19 DEF PtrResume, Leave
  <2>20. CASE Remove(u)
    BY <1>0, <1>5, <2>20 DEF Remove, Leave, Goto
  <2>21. CASE ReleasePtr(u)
    BY <1>0, <1>5, <2>21 DEF ReleasePtr, Leave
  <2> QED
    BY <1>5, <2>1, <2>2, <2>3, <2>4, <2>5, <2>6, <2>7, <2>8, <2>9, <2>10, <2>11,
       <2>12, <2>13, <2>14, <2>15, <2>16, <2>17, <2>18, <2>19, <2>20, <2>21 DEF RuntimeStep
<1> QED BY <1>1, <1>2, <1>3, <1>4, <1>5 DEF Next

\* Every scan that goes on comes to its end, in at most as many steps as its phases, the
\* threads of its snapshot and the blocks of its list give (ct_autofree_gc_scan and
\* ct_autofree_scan_for_ptr): what ScanEnds says but for the scheduling.
THEOREM ScanAlwaysShrinks == Spec => ScanShrinks
<1>1. SafeInv /\ [Next]_vars => [EachShrinks]_vars
  BY StepShrinks, OthersKeepScan DEF SafeInv, EachShrinks
<1> QED BY <1>1, SafeAlways, PTL DEF Spec, ScanShrinks
=============================================================================
