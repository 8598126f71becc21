------------------------- MODULE AllocRuntimeProofs -------------------------
(***************************************************************************)
(* Proofs about AllocRuntime, for every set of threads, addresses, calls   *)
(* and records and every capacity of the table.                            *)
(***************************************************************************)
EXTENDS AllocRuntime, FiniteSetTheorems, TLAPS

-----------------------------------------------------------------------------
(* Types                                                                   *)

Replies == [call : TableCalls, res : {-2, -1, 0, 1}, state : States, info : Infos \cup {None}]

LedgerOK ==
  /\ live \in [Ptrs -> Infos \cup {None}]
  /\ freed \subseteq Ptrs /\ autofreed \subseteq Ptrs
  /\ reply \in Replies

\* Every call of the table keeps the types, and res says what it has done.
LEMMA LedgerTypes ==
  ASSUME LedgerOK, NEW p \in Ptrs,
         \/ (\E i \in Infos : Record(p, i)) \/ RefuseRecord(p)
         \/ Release(p) \/ AutoRelease(p) \/ Query(p)
  PROVE  LedgerOK'
<1> USE DEF LedgerOK, Replies, Reply, TableCalls, States
<1>1. CASE \E i \in Infos : Record(p, i)
  BY <1>1 DEF Record
<1>2. CASE RefuseRecord(p)
  BY <1>2 DEF RefuseRecord
<1>3. CASE Release(p)
  BY <1>3 DEF Release
<1>4. CASE AutoRelease(p)
  BY <1>4 DEF AutoRelease
<1>5. CASE Query(p)
  BY <1>5 DEF Query
<1> QED BY <1>1, <1>2, <1>3, <1>4, <1>5

Pcs == {"idle", "insert", "unpoison", "remove", "double_free", "autoremove", "poison",
        "release", "relookup", "resize", "reremove", "reinsert", "repoison"}

Frames == [pc : Pcs, ptr : Ptrs \cup {None}, to : Ptrs \cup {None}, had : {0, 1},
           again : BOOLEAN, alone : BOOLEAN]

FrameOK(f) ==
  /\ f \in Frames
  /\ f.pc # "idle" => f.ptr \in Ptrs
  /\ f.pc = "reinsert" => f.to \in Ptrs

ThreadsOK == th \in [Threads -> Frames] /\ \A t \in Threads : FrameOK(th[t])

HolderOK ==
  /\ holder \in Threads \cup {None}
  /\ \A t \in Threads : holder = t => At(t, "reinsert")

MemoryOK == heap \subseteq Ptrs /\ poisoned \subseteq Ptrs /\ owner \in [Ptrs -> Threads \cup {None}]

LEMMA TypeParts == TypeOK <=> LedgerOK /\ ThreadsOK /\ HolderOK /\ MemoryOK
BY DEF TypeOK, LedgerOK, Replies, ThreadsOK, Frames, Pcs, FrameOK, HolderOK, MemoryOK, At

LEMMA IdleFrame == FrameOK(Idle)
BY DEF FrameOK, Frames, Pcs, Idle

LEMMA CallFrame ==
  ASSUME NEW pc \in Pcs \ {"reinsert"}, NEW p \in Ptrs, NEW again \in BOOLEAN, NEW alone \in BOOLEAN
  PROVE  /\ FrameOK([Idle EXCEPT !.pc = pc, !.ptr = p, !.alone = alone])
         /\ FrameOK([Idle EXCEPT !.pc = pc, !.ptr = p, !.again = again, !.alone = alone])
BY DEF FrameOK, Frames, Idle

LEMMA NextFrame ==
  ASSUME NEW f, FrameOK(f), f.pc # "idle", NEW pc \in Pcs, pc = "reinsert" => f.to \in Ptrs,
         NEW had \in {0, 1}, NEW to \in Ptrs \cup {None}
  PROVE  /\ FrameOK([f EXCEPT !.pc = pc])
         /\ FrameOK([f EXCEPT !.pc = "resize", !.had = had])
         /\ FrameOK([f EXCEPT !.pc = "autoremove", !.again = FALSE])
         /\ FrameOK([f EXCEPT !.pc = "reremove", !.to = to])
         /\ FrameOK([f EXCEPT !.pc = "reinsert", !.to = f.ptr])
<1>1. FrameOK([f EXCEPT !.pc = pc])
  BY DEF FrameOK, Frames
<1>2. FrameOK([f EXCEPT !.pc = "resize", !.had = had])
  BY DEF FrameOK, Frames, Pcs
<1>3. FrameOK([f EXCEPT !.pc = "autoremove", !.again = FALSE])
  BY DEF FrameOK, Frames, Pcs
<1>4. FrameOK([f EXCEPT !.pc = "reremove", !.to = to])
  BY DEF FrameOK, Frames, Pcs
<1>5. FrameOK([f EXCEPT !.pc = "reinsert", !.to = f.ptr])
  BY DEF FrameOK, Frames, Pcs
<1> QED BY <1>1, <1>2, <1>3, <1>4, <1>5

\* One thread goes on; it takes the lock only on the way to "reinsert".
LEMMA ThreadStep ==
  ASSUME ThreadsOK, HolderOK, NEW t \in Threads, NEW f, FrameOK(f), th' = [th EXCEPT ![t] = f],
         \/ holder' = holder /\ ~ At(t, "reinsert")
         \/ holder' = None
         \/ holder' = t /\ f.pc = "reinsert"
  PROVE  ThreadsOK' /\ HolderOK'
<1>1. f \in Frames
  BY DEF FrameOK
<1>2. ThreadsOK'
  BY <1>1 DEF ThreadsOK
<1>3. HolderOK'
  BY NobodyAssumption DEF ThreadsOK, HolderOK, At
<1> QED BY <1>2, <1>3

LEMMA InitTypeOK == Init => TypeOK
<1> SUFFICES ASSUME Init PROVE TypeOK
  OBVIOUS
<1>1. ThreadsOK
  BY IdleFrame DEF Init, ThreadsOK, FrameOK
<1>2. LedgerOK
  BY DEF Init, LedgerInit, LedgerOK, Replies, Reply, TableCalls, States
<1>3. HolderOK /\ MemoryOK
  BY NobodyAssumption DEF Init, HolderOK, MemoryOK
<1> QED BY <1>1, <1>2, <1>3, TypeParts

LEMMA NextTypeOK == TypeOK /\ [Next]_vars => TypeOK'
<1> SUFFICES ASSUME TypeOK, [Next]_vars PROVE TypeOK'
  OBVIOUS
<1>a. LedgerOK /\ ThreadsOK /\ HolderOK /\ MemoryOK
  BY TypeParts
<1>b. ASSUME UNCHANGED tableVars PROVE LedgerOK'
  BY <1>a, <1>b DEF tableVars, LedgerOK
<1>c. ASSUME LedgerOK', ThreadsOK', HolderOK', MemoryOK' PROVE TypeOK'
  BY <1>c DEF TypeOK, LedgerOK, Replies, ThreadsOK, Frames, Pcs, FrameOK, HolderOK, MemoryOK, At
<1>d. \A t \in Threads : FrameOK(th[t]) /\ th[t].ptr \in Ptrs \cup {None} /\ th[t].again \in BOOLEAN
                         /\ th[t].alone \in BOOLEAN
  BY <1>a DEF ThreadsOK, Frames
<1>e. \A t \in Threads : th[t].pc # "idle" => th[t].ptr \in Ptrs
  BY <1>a DEF ThreadsOK, FrameOK
<1>f. "idle" \in Pcs
  BY DEF Pcs
<1>1. ASSUME NEW t \in Threads, NEW p \in Ptrs, Allocate(t, p) PROVE TypeOK'
  <2>1. PICK call : th' = [th EXCEPT ![t] = [Idle EXCEPT !.pc = "insert", !.ptr = p,
                                             !.again = (call = "alloc_unused"), !.alone = (call \in Serial)]]
    BY <1>1 DEF Allocate
  <2>2. FrameOK([Idle EXCEPT !.pc = "insert", !.ptr = p, !.again = (call = "alloc_unused"),
                             !.alone = (call \in Serial)])
    <3>1. "insert" \in Pcs \ {"reinsert"} /\ (call = "alloc_unused") \in BOOLEAN /\ (call \in Serial) \in BOOLEAN
      BY DEF Pcs
    <3> QED BY <3>1, CallFrame, Zenon
  <2>3. ThreadsOK' /\ HolderOK'
    BY <1>1, <1>a, <2>1, <2>2, ThreadStep DEF Allocate, At
  <2>4. MemoryOK'
    BY <1>1, <1>a DEF Allocate, MemoryOK
  <2> QED BY <1>1, <1>b, <1>c, <2>3, <2>4 DEF Allocate
<1>2. ASSUME NEW t \in Threads, NEW p \in Ptrs, NEW call, NEW pc \in {"remove", "autoremove", "relookup"},
             Call(t, p, call, pc)
      PROVE TypeOK'
  <2>1. FrameOK([Idle EXCEPT !.pc = pc, !.ptr = p, !.alone = (call \in Serial)])
    <3>1. pc \in Pcs \ {"reinsert"} /\ (call \in Serial) \in BOOLEAN
      BY DEF Pcs
    <3>2. FALSE \in BOOLEAN
      OBVIOUS
    <3> QED BY <3>1, <3>2, CallFrame, Zenon
  <2>2. ThreadsOK' /\ HolderOK'
    BY <1>2, <1>a, <2>1, ThreadStep DEF Call, At
  <2>3. MemoryOK'
    BY <1>2, <1>a DEF Call, MemoryOK
  <2> QED BY <1>2, <1>b, <1>c, <2>2, <2>3 DEF Call
<1>3. ASSUME NEW t \in Threads, InsertBlock(t) PROVE TypeOK'
  <2>1. LedgerOK'
    BY <1>3, <1>a, <1>e, LedgerTypes DEF InsertBlock, At
  <2>2. ThreadsOK' /\ HolderOK'
    <3>1. FrameOK([th[t] EXCEPT !.pc = "unpoison"])
      BY <1>3, <1>d, NextFrame DEF InsertBlock, At, Pcs
    <3> QED BY <1>3, <1>a, <3>1, ThreadStep DEF InsertBlock, Goto, At
  <2> QED BY <1>3, <1>a, <1>c, <2>1, <2>2 DEF InsertBlock, MemoryOK
<1>4. ASSUME NEW t \in Threads, TrackShadow(t) PROVE TypeOK'
  <2>1. th[t].ptr \in Ptrs
    BY <1>4, <1>e DEF TrackShadow, At
  <2>2. FrameOK([th[t] EXCEPT !.pc = "autoremove"])
    BY <1>4, <1>d, NextFrame DEF TrackShadow, At, Pcs
  <2>3. ThreadsOK' /\ HolderOK'
    BY <1>4, <1>a, <2>2, IdleFrame, ThreadStep DEF TrackShadow, Hand, Goto, Return, At
  <2>4. MemoryOK'
    BY <1>4, <1>a, <2>1 DEF TrackShadow, Hand, MemoryOK
  <2> QED BY <1>4, <1>b, <1>c, <2>3, <2>4 DEF TrackShadow
<1>5. ASSUME NEW t \in Threads, RemoveBlock(t) PROVE TypeOK'
  <2>1. LedgerOK'
    BY <1>5, <1>a, <1>e, LedgerTypes DEF RemoveBlock, At
  <2>2. PICK pc \in {"poison", "release", "double_free"} : Goto(t, pc)
    BY <1>5 DEF RemoveBlock, AfterRemove, Release, Reply
  <2>3. FrameOK([th[t] EXCEPT !.pc = pc])
    BY <1>5, <1>d, NextFrame DEF RemoveBlock, At, Pcs
  <2>4. ThreadsOK' /\ HolderOK'
    BY <1>5, <1>a, <2>2, <2>3, ThreadStep DEF RemoveBlock, Goto, At
  <2> QED BY <1>5, <1>a, <1>c, <2>1, <2>4 DEF RemoveBlock, MemoryOK
<1>6. ASSUME NEW t \in Threads, AutoRemoveBlock(t) PROVE TypeOK'
  <2>1. LedgerOK'
    BY <1>6, <1>a, <1>e, LedgerTypes DEF AutoRemoveBlock, At
  <2>2. FrameOK([th[t] EXCEPT !.pc = "poison"]) /\ FrameOK([th[t] EXCEPT !.pc = "autoremove", !.again = FALSE])
    BY <1>6, <1>d, NextFrame DEF AutoRemoveBlock, At, Pcs
  <2>3. \E f : FrameOK(f) /\ th' = [th EXCEPT ![t] = f]
    BY ZenonT(30), <1>6, <2>2, IdleFrame DEF AutoRemoveBlock, AutofreeDone, Goto, Return
  <2>4. ThreadsOK' /\ HolderOK'
    BY <1>6, <1>a, <2>3, ThreadStep DEF AutoRemoveBlock, At
  <2> QED BY <1>6, <1>a, <1>c, <2>1, <2>4 DEF AutoRemoveBlock, MemoryOK
<1>7. ASSUME NEW t \in Threads, PoisonBlock(t) PROVE TypeOK'
  <2>1. FrameOK([th[t] EXCEPT !.pc = "release"])
    BY <1>7, <1>d, NextFrame DEF PoisonBlock, At, Pcs
  <2>2. ThreadsOK' /\ HolderOK'
    BY <1>7, <1>a, <2>1, ThreadStep DEF PoisonBlock, Goto, At
  <2> QED BY <1>7, <1>a, <1>b, <1>c, <1>e, <2>2 DEF PoisonBlock, MemoryOK, At
<1>8. ASSUME NEW t \in Threads, ReleaseBlock(t) PROVE TypeOK'
  <2>1. FrameOK([th[t] EXCEPT !.pc = "autoremove", !.again = FALSE])
    BY <1>8, <1>d, NextFrame DEF ReleaseBlock, At, Pcs
  <2>2. \E f : FrameOK(f) /\ th' = [th EXCEPT ![t] = f]
    BY ZenonT(30), <1>8, <2>1, IdleFrame DEF ReleaseBlock, AutofreeDone, Return
  <2>3. ThreadsOK' /\ HolderOK'
    BY <1>8, <1>a, <2>2, ThreadStep DEF ReleaseBlock, At
  <2> QED BY <1>8, <1>a, <1>b, <1>c, <2>3 DEF ReleaseBlock, MemoryOK
<1>9. ASSUME NEW t \in Threads, ReallocLookup(t) PROVE TypeOK'
  <2>1. LedgerOK'
    BY <1>9, <1>a, <1>e, LedgerTypes DEF ReallocLookup, At
  <2>2. reply'.res \in {0, 1}
    BY <1>9 DEF ReallocLookup, Query, Reply
  <2>3. FrameOK([th[t] EXCEPT !.pc = "resize", !.had = reply'.res])
    BY <1>9, <1>d, <1>f, <2>2, NextFrame DEF ReallocLookup, At
  <2>4. th' = [th EXCEPT ![t] = [th[t] EXCEPT !.pc = "resize", !.had = reply'.res]]
    BY <1>9 DEF ReallocLookup
  <2>5. ThreadsOK' /\ HolderOK'
    BY <1>9, <1>a, <2>3, <2>4, ThreadStep DEF ReallocLookup, At
  <2> QED BY <1>9, <1>a, <1>c, <2>1, <2>5 DEF ReallocLookup, MemoryOK
<1>10. ASSUME NEW t \in Threads, ResizeInPlace(t) PROVE TypeOK'
  <2>1. FrameOK([th[t] EXCEPT !.pc = "reinsert", !.to = th[t].ptr])
    BY <1>10, <1>d, <1>f, NextFrame DEF ResizeInPlace, At
  <2>2. th' = [th EXCEPT ![t] = Idle] \/ th' = [th EXCEPT ![t] = [th[t] EXCEPT !.pc = "reinsert", !.to = th[t].ptr]]
    BY <1>10 DEF ResizeInPlace, Return
  <2>3. ThreadsOK' /\ HolderOK'
    BY <1>10, <1>a, <2>1, <2>2, IdleFrame, ThreadStep DEF ResizeInPlace, At
  <2> QED BY <1>10, <1>a, <1>b, <1>c, <1>e, <2>3 DEF ResizeInPlace, MemoryOK, At
<1>11. ASSUME NEW t \in Threads, ResizeMove(t) PROVE TypeOK'
  <2>1. PICK q \in (Ptrs \ heap) \cup {None} :
          /\ heap' = (heap \ {th[t].ptr}) \cup ({q} \ {None})
          /\ th' = [th EXCEPT ![t] = [th[t] EXCEPT !.pc = "reremove", !.to = q]]
    BY SMTT(30), ZenonT(30), <1>11 DEF ResizeMove
  <2>2. FrameOK([th[t] EXCEPT !.pc = "reremove", !.to = q])
    <3>1. th[t].pc # "idle" /\ FrameOK(th[t]) /\ q \in Ptrs \cup {None}
      BY <1>11, <1>d DEF ResizeMove, At
    <3>2. "poison" \in Pcs
      BY DEF Pcs
    <3> QED BY <3>1, <3>2, NextFrame
  <2>3. ThreadsOK' /\ HolderOK'
    BY <1>11, <1>a, <2>1, <2>2, ThreadStep DEF ResizeMove, At
  <2> QED BY <1>11, <1>a, <1>b, <1>c, <2>1, <2>3 DEF ResizeMove, MemoryOK
<1>12. ASSUME NEW t \in Threads, ReallocRemove(t) PROVE TypeOK'
  <2>1. LedgerOK'
    BY <1>12, <1>a, <1>e, LedgerTypes DEF ReallocRemove, At
  <2>2. FrameOK([th[t] EXCEPT !.pc = "repoison"])
    BY <1>12, <1>d, NextFrame DEF ReallocRemove, At, Pcs
  <2>3. th[t].to # None => FrameOK([th[t] EXCEPT !.pc = "reinsert"])
    <3>1. th[t].to \in Ptrs \cup {None}
      BY <1>a DEF ThreadsOK, Frames
    <3> QED BY <1>12, <1>d, <3>1, NextFrame DEF ReallocRemove, At, Pcs
  <2>4. CASE th[t].to = None
    <3>1. ThreadsOK' /\ HolderOK'
      BY <1>12, <1>a, <2>2, <2>4, ThreadStep DEF ReallocRemove, Goto, At
    <3> QED BY <1>12, <1>a, <1>c, <2>1, <3>1 DEF ReallocRemove, MemoryOK
  <2>5. CASE th[t].to # None
    <3>1. th' = [th EXCEPT ![t] = [th[t] EXCEPT !.pc = "reinsert"]] /\ holder' = t
      BY <1>12, <2>5 DEF ReallocRemove, Goto
    <3>2. [th[t] EXCEPT !.pc = "reinsert"].pc = "reinsert"
      BY <1>a DEF ThreadsOK, Frames
    <3>3. ThreadsOK' /\ HolderOK'
      BY <1>a, <2>3, <2>5, <3>1, <3>2, ThreadStep
    <3> QED BY <1>12, <1>a, <1>c, <2>1, <3>3 DEF ReallocRemove, MemoryOK
  <2> QED BY <2>4, <2>5
<1>13. ASSUME NEW t \in Threads, ReallocInsert(t) PROVE TypeOK'
  <2>1. th[t].to \in Ptrs
    BY <1>13, <1>a DEF ReallocInsert, At, ThreadsOK, FrameOK
  <2>2. LedgerOK'
    BY <1>13, <1>a, <2>1, LedgerTypes DEF ReallocInsert
  <2>3. FrameOK([th[t] EXCEPT !.pc = "repoison"])
    BY <1>13, <1>d, NextFrame DEF ReallocInsert, At, Pcs
  <2>4. ThreadsOK' /\ HolderOK'
    BY <1>13, <1>a, <2>3, ThreadStep DEF ReallocInsert, Goto
  <2> QED BY <1>13, <1>a, <1>c, <2>2, <2>4 DEF ReallocInsert, MemoryOK
<1>14. ASSUME NEW t \in Threads, ReallocPoison(t) PROVE TypeOK'
  <2>1. th[t].to # None => FrameOK([Idle EXCEPT !.pc = "unpoison", !.ptr = th[t].to, !.alone = th[t].alone])
    <3>1. th[t].to \in Ptrs \cup {None}
      BY <1>a DEF ThreadsOK, Frames
    <3> QED BY <1>d, <3>1, CallFrame DEF Pcs
  <2>2. \/ th' = [th EXCEPT ![t] = Idle]
        \/ /\ th[t].to # None
           /\ th' = [th EXCEPT ![t] = [Idle EXCEPT !.pc = "unpoison", !.ptr = th[t].to,
                                                   !.alone = th[t].alone]]
    <3>1. CASE th[t].to = None
      BY <1>14, <3>1 DEF ReallocPoison, Return
    <3>2. CASE th[t].to # None
      <4>1. ReallocTrack(t)
        BY <1>14, <3>2 DEF ReallocPoison
      <4> QED BY <3>2, <4>1 DEF ReallocTrack
    <3> QED BY <3>1, <3>2
  <2>3. ThreadsOK' /\ HolderOK'
    BY <1>14, <1>a, <2>1, <2>2, IdleFrame, ThreadStep DEF ReallocPoison, At
  <2> QED BY <1>14, <1>a, <1>b, <1>c, <1>e, <2>3 DEF ReallocPoison, MemoryOK, At
<1>15. CASE UNCHANGED vars
  BY <1>15, <1>a, <1>b, <1>c DEF vars, tableVars, ThreadsOK, HolderOK, MemoryOK, At
<1> QED
  BY <1>1, <1>2, <1>3, <1>4, <1>5, <1>6, <1>7, <1>8, <1>9, <1>10, <1>11, <1>12, <1>13, <1>14, <1>15
  DEF Next, Step, Free, Autofree, Realloc

\* A call is always about a block, realloc goes back to the table only with a block to
\* record, and the lock of the table is held between two steps only by realloc.
THEOREM TypeCorrect == Spec => []TypeOK
<1>1. Init => TypeOK
  BY InitTypeOK
<1>2. TypeOK /\ [Next]_vars => TypeOK'
  BY NextTypeOK
<1> QED BY <1>1, <1>2, PTL DEF Spec

-----------------------------------------------------------------------------
(* The program's blocks.  None of the three properties is inductive: what  *)
(* a call knows of its block, and that no two calls are about one block,   *)
(* have to be added, and for the calls kept apart that nothing else runs.  *)

\* The table takes a free of p for the first one.
Known(p) == live[p] # None \/ p \notin freed \cup autofreed

BlocksOK == \A p \in Ptrs : owner[p] # None => p \in heap /\ p \notin poisoned /\ Known(p)

CallsApart ==
  \A t, u \in Threads : t # u /\ ~ At(t, "idle") /\ ~ At(u, "idle") =>
    ~ th[t].alone /\ ~ th[u].alone /\ th[t].ptr # th[u].ptr

\* A block is given up before the call is about it.  Only a call kept apart goes on
\* about a block that was released already.
CallOK(f) ==
  /\ f.again => f.alone
  /\ f.pc # "idle" =>
       /\ f.pc # "double_free"
       /\ owner[f.ptr] = None
       /\ ~ f.alone => f.ptr \in heap
       /\ f.pc \in {"insert", "unpoison", "relookup", "resize"} => f.ptr \in heap
       /\ f.pc \in {"unpoison", "remove", "relookup", "resize"} => Known(f.ptr)
       /\ f.pc \in {"relookup", "resize"} => f.ptr \notin poisoned
       /\ f.pc = "reremove" => f.alone
       /\ f.pc \in {"reremove", "reinsert", "repoison"} =>
            /\ f.to # f.ptr => f.alone
            /\ f.to # None => f.to \in heap /\ owner[f.to] = None
       /\ f.pc = "repoison" /\ f.to # None => Known(f.to)

IInv == TypeOK /\ BlocksOK /\ CallsApart /\ \A t \in Threads : CallOK(th[t])

\* What the theorems assume: an allocation that is released by the runtime at once, and
\* a realloc that may move its block, are kept apart from other calls.
SerialAssumed == Calls \cap {"alloc_unused", "realloc"} \subseteq Serial

LEMMA RecordKnown ==
  ASSUME LedgerOK, NEW q \in Ptrs, (\E i \in Infos : Record(q, i)) \/ RefuseRecord(q)
  PROVE  /\ Known(q)'
         /\ \A p \in Ptrs : Known(p) => Known(p)'
<1>1. CASE \E i \in Infos : Record(q, i)
  <2>1. PICK i \in Infos : Record(q, i)
    BY <1>1
  <2>2. i # None
    BY NobodyAssumption
  <2> QED BY <2>1, <2>2 DEF Record, LedgerOK, Known
<1>2. CASE RefuseRecord(q)
  BY <1>2 DEF RefuseRecord, Known
<1> QED BY <1>1, <1>2

LEMMA ReleaseKnown ==
  ASSUME LedgerOK, NEW q \in Ptrs, Release(q) \/ AutoRelease(q)
  PROVE  /\ \A p \in Ptrs \ {q} : Known(p) => Known(p)'
         /\ Release(q) /\ Known(q) => reply'.res # -1
BY DEF Release, AutoRelease, LedgerOK, Known, Reply

LEMMA QueryKnown ==
  ASSUME NEW q \in Ptrs, Query(q)
  PROVE  \A p \in Ptrs : Known(p) => Known(p)'
BY DEF Query, Known

LEMMA GotoFields ==
  ASSUME TypeOK, NEW t \in Threads, NEW pc, Goto(t, pc)
  PROVE  /\ \A u \in Threads \ {t} : th'[u] = th[u]
         /\ th'[t].pc = pc /\ th'[t].ptr = th[t].ptr /\ th'[t].to = th[t].to
         /\ th'[t].alone = th[t].alone /\ th'[t].again = th[t].again
BY DEF TypeOK, Goto

LEMMA ReturnFields ==
  ASSUME TypeOK, NEW t \in Threads, Return(t)
  PROVE  /\ \A u \in Threads \ {t} : th'[u] = th[u]
         /\ th'[t].pc = "idle" /\ ~ th'[t].alone /\ ~ th'[t].again
BY DEF TypeOK, Return, Idle

\* What a step may do to a block of another thread.
Steady(p) ==
  /\ owner[p] = None => owner'[p] = None
  /\ p \in heap => p \in heap'
  /\ Known(p) => Known(p)'
  /\ p \notin poisoned => p \notin poisoned'

\* The other calls are not disturbed by a step that leaves their blocks alone.
LEMMA OthersKept ==
  ASSUME IInv, TypeOK', NEW t \in Threads,
         \A u \in Threads \ {t} : th'[u] = th[u],
         \A p \in Ptrs : Steady(p) \/ (~ At(t, "idle") /\ (p = th[t].ptr \/ th[t].alone)),
         \/ ~ At(t, "idle") /\ At(t, "idle")'
         \/ /\ At(t, "idle")
            /\ \A u \in Threads \ {t} :
                 ~ At(u, "idle") => ~ th[u].alone /\ ~ th'[t].alone /\ th'[t].ptr # th[u].ptr
         \/ /\ ~ At(t, "idle") /\ (~ th[t].alone => ~ th'[t].alone /\ th'[t].ptr = th[t].ptr)
  PROVE  CallsApart' /\ \A u \in Threads \ {t} : CallOK(th[u])'
<1>1. CallsApart'
  BY DEF IInv, CallsApart, At
<1>2. ASSUME NEW u \in Threads \ {t}, th[u].pc # "idle" PROVE CallOK(th[u])'
  <2>1. CallOK(th[u]) /\ th'[u] = th[u] /\ th[u].ptr \in Ptrs
    BY <1>2 DEF IInv, TypeOK, At
  <2>2. At(t, "idle") \/ (~ th[t].alone /\ ~ th[u].alone /\ th[t].ptr # th[u].ptr)
    BY <1>2 DEF IInv, CallsApart, At
  <2>3. Steady(th[u].ptr)
    BY <2>1, <2>2
  <2>4. CASE ~ th[u].alone
    BY <2>1, <2>3, <2>4, <1>2 DEF CallOK, Steady, Known
  <2>5. CASE th[u].alone
    BY <2>1, <2>2, <2>5, <1>2 DEF At
  <2> QED BY <2>4, <2>5
<1>3. ASSUME NEW u \in Threads \ {t}, th[u].pc = "idle" PROVE CallOK(th[u])'
  BY <1>3 DEF IInv, CallOK
<1> QED BY <1>1, <1>2, <1>3

LEMMA InitIInv == Init => IInv
<1> SUFFICES ASSUME Init PROVE IInv
  OBVIOUS
<1>1. \A p \in Ptrs : owner[p] = None
  BY DEF Init
<1>2. \A t \in Threads : th[t].pc = "idle" /\ ~ th[t].again /\ ~ th[t].alone
  BY DEF Init, Idle
<1> QED BY <1>1, <1>2, InitTypeOK DEF IInv, BlocksOK, CallsApart, CallOK, At

LEMMA NextIInv == SerialAssumed /\ IInv /\ [Next]_vars => IInv'
<1> SUFFICES ASSUME SerialAssumed, IInv, [Next]_vars PROVE IInv'
  OBVIOUS
<1>a. TypeOK /\ TypeOK'
  BY NextTypeOK DEF IInv
<1>b. LedgerOK /\ ThreadsOK /\ MemoryOK
  BY <1>a, TypeParts
<1>c. ASSUME UNCHANGED tableVars PROVE \A p : Known(p) => Known(p)'
  BY <1>c DEF tableVars, Known
<1>d. \A t \in Threads : th[t].pc # "idle" => th[t].ptr \in Ptrs /\ CallOK(th[t])
  BY <1>a DEF IInv, TypeOK, At
<1>e. \A t \in Threads : th[t].pc = "reinsert" => th[t].to \in Ptrs
  BY <1>a DEF TypeOK, At
<1>f. ASSUME NEW t \in Threads, CallsApart' /\ \A u \in Threads \ {t} : CallOK(th[u])',
             CallOK(th[t])', BlocksOK'
      PROVE IInv'
  BY <1>a, <1>f DEF IInv
<1>1. ASSUME NEW t \in Threads, NEW p \in Ptrs, Allocate(t, p) PROVE IInv'
  <2>1. PICK call \in {"alloc", "alloc_unused"} :
          /\ MayCall(t, call)
          /\ th' = [th EXCEPT ![t] = [Idle EXCEPT !.pc = "insert", !.ptr = p,
                                   !.again = (call = "alloc_unused"), !.alone = (call \in Serial)]]
    BY <1>1 DEF Allocate
  <2>2. /\ \A u \in Threads \ {t} : th'[u] = th[u]
        /\ th'[t].pc = "insert" /\ th'[t].ptr = p
        /\ th'[t].again <=> call = "alloc_unused"
        /\ th'[t].alone <=> call \in Serial
    BY ZenonT(30), <2>1, <1>a DEF TypeOK, Idle
  <2>3. owner[p] = None
    BY <1>1 DEF Allocate, IInv, BlocksOK
  <2>4. \A q \in Ptrs : Steady(q)
    BY <1>1, <1>c DEF Allocate, Steady
  <2>5. \A u \in Threads \ {t} : ~ At(u, "idle") => ~ th[u].alone /\ ~ th'[t].alone /\ th'[t].ptr # th[u].ptr
    BY <1>1, <1>d, <2>1, <2>2 DEF MayCall, At, CallOK, Allocate
  <2>6. CallOK(th[t])'
    BY <1>1, <2>1, <2>2, <2>3 DEF CallOK, Allocate, SerialAssumed, MayCall
  <2>7. BlocksOK'
    BY <1>1, <1>c DEF IInv, BlocksOK, Allocate
  <2>8. CallsApart' /\ \A u \in Threads \ {t} : CallOK(th[u])'
    BY <1>1, <1>a, <2>2, <2>4, <2>5, OthersKept DEF Allocate
  <2> QED BY <1>f, <2>6, <2>7, <2>8
<1>2. ASSUME NEW t \in Threads, NEW p \in Ptrs, NEW call, NEW pc \in {"remove", "autoremove", "relookup"},
             Call(t, p, call, pc)
      PROVE IInv'
  <2>1. /\ \A u \in Threads \ {t} : th'[u] = th[u]
        /\ th'[t].pc = pc /\ th'[t].ptr = p /\ ~ th'[t].again
        /\ th'[t].alone <=> call \in Serial
    BY ZenonT(30), <1>2, <1>a DEF Call, TypeOK, Idle
  <2>2. p \in heap /\ p \notin poisoned /\ Known(p) /\ owner[p] # None
    BY <1>2, NobodyAssumption DEF Call, IInv, BlocksOK
  <2>3. \A q \in Ptrs : Steady(q) /\ Known(q)' = Known(q)
    BY <1>2, <1>b DEF Call, Steady, MemoryOK, tableVars, Known
  <2>4. \A u \in Threads \ {t} : ~ At(u, "idle") => ~ th[u].alone /\ ~ th'[t].alone /\ th'[t].ptr # th[u].ptr
    BY <1>2, <1>d, <2>1, <2>2 DEF MayCall, At, CallOK, Call
  <2>5. CallOK(th[t])'
    BY <1>2, <1>b, <2>1, <2>2, <2>3 DEF CallOK, Call, MemoryOK
  <2>6. BlocksOK'
    BY <1>2, <1>b, <2>3 DEF IInv, BlocksOK, Call, MemoryOK
  <2>7. CallsApart' /\ \A u \in Threads \ {t} : CallOK(th[u])'
    BY <1>2, <1>a, <2>1, <2>3, <2>4, OthersKept DEF Call
  <2> QED BY <1>f, <2>5, <2>6, <2>7
<1>3. ASSUME NEW t \in Threads, InsertBlock(t) PROVE IInv'
  <2>1. th[t].pc = "insert" /\ th[t].ptr \in Ptrs /\ CallOK(th[t])
    BY <1>3, <1>d DEF InsertBlock, At
  <2>2. \A p \in Ptrs : (p = th[t].ptr => Known(p)') /\ (Known(p) => Known(p)')
    BY <1>3, <1>b, <2>1, RecordKnown DEF InsertBlock
  <2>3. /\ \A u \in Threads \ {t} : th'[u] = th[u]
        /\ th'[t].pc = "unpoison" /\ th'[t].ptr = th[t].ptr
        /\ th'[t].alone = th[t].alone /\ th'[t].again = th[t].again
    BY <1>3, <1>a, GotoFields DEF InsertBlock
  <2>4. \A p \in Ptrs : Steady(p)
    BY <1>3, <2>2 DEF InsertBlock, Steady
  <2>5. CallOK(th[t])'
    BY <1>3, <2>1, <2>2, <2>3 DEF CallOK, InsertBlock
  <2>6. BlocksOK'
    BY <1>3, <2>2 DEF IInv, BlocksOK, InsertBlock
  <2>7. CallsApart' /\ \A u \in Threads \ {t} : CallOK(th[u])'
    BY <1>a, <2>1, <2>3, <2>4, OthersKept DEF At
  <2> QED BY <1>f, <2>5, <2>6, <2>7
<1>4. ASSUME NEW t \in Threads, TrackShadow(t) PROVE IInv'
  <2>1. th[t].pc = "unpoison" /\ th[t].ptr \in Ptrs /\ CallOK(th[t])
    BY <1>4, <1>d DEF TrackShadow, At
  <2>2. \A p \in Ptrs : Known(p)' = Known(p)
    BY <1>4 DEF TrackShadow, tableVars, Known
  <2>3. \A p \in Ptrs \ {th[t].ptr} : Steady(p)
    BY <1>4, <1>b, <2>1, <2>2 DEF TrackShadow, Hand, Steady, MemoryOK
  <2>4. CASE th[t].again
    <3>1. /\ \A u \in Threads \ {t} : th'[u] = th[u]
          /\ th'[t].pc = "autoremove" /\ th'[t].ptr = th[t].ptr
          /\ th'[t].alone = th[t].alone /\ th'[t].again = th[t].again /\ owner' = owner
      BY <1>4, <1>a, <2>4, GotoFields DEF TrackShadow, Hand
    <3>2. CallOK(th[t])'
      BY <1>4, <2>1, <3>1 DEF CallOK, TrackShadow
    <3>3. BlocksOK'
      BY <1>4, <2>2, <3>1 DEF IInv, BlocksOK, TrackShadow
    <3>4. CallsApart' /\ \A u \in Threads \ {t} : CallOK(th[u])'
      BY <1>a, <2>1, <2>3, <3>1, OthersKept DEF At
    <3> QED BY <1>f, <3>2, <3>3, <3>4
  <2>5. CASE ~ th[t].again
    <3>1. /\ \A u \in Threads \ {t} : th'[u] = th[u]
          /\ th'[t].pc = "idle" /\ ~ th'[t].alone /\ ~ th'[t].again
          /\ owner' = [owner EXCEPT ![th[t].ptr] = t]
      BY <1>4, <1>a, <2>5, ReturnFields DEF TrackShadow, Hand
    <3>2. CallOK(th[t])'
      BY <3>1 DEF CallOK
    <3>3. BlocksOK'
      BY <1>4, <1>b, <2>1, <2>2, <3>1 DEF IInv, BlocksOK, TrackShadow, CallOK, MemoryOK
    <3>4. CallsApart' /\ \A u \in Threads \ {t} : CallOK(th[u])'
      BY <1>a, <2>1, <2>3, <3>1, OthersKept DEF At
    <3> QED BY <1>f, <3>2, <3>3, <3>4
  <2> QED BY <2>4, <2>5
<1>5. ASSUME NEW t \in Threads, RemoveBlock(t) PROVE IInv'
  <2>1. th[t].pc = "remove" /\ th[t].ptr \in Ptrs /\ CallOK(th[t])
    BY <1>5, <1>d DEF RemoveBlock, At
  <2>2. reply'.res # -1 /\ \A p \in Ptrs \ {th[t].ptr} : Known(p) => Known(p)'
    BY <1>5, <1>b, <2>1, ReleaseKnown DEF RemoveBlock, CallOK
  <2>3. PICK pc \in {"poison", "release"} : Goto(t, pc)
    BY <1>5, <2>2 DEF RemoveBlock, AfterRemove, Release, Reply
  <2>4. /\ \A u \in Threads \ {t} : th'[u] = th[u]
        /\ th'[t].pc = pc /\ th'[t].ptr = th[t].ptr
        /\ th'[t].alone = th[t].alone /\ th'[t].again = th[t].again
    BY <1>a, <2>3, GotoFields
  <2>5. \A p \in Ptrs \ {th[t].ptr} : Steady(p)
    BY <1>5, <2>2 DEF RemoveBlock, Steady
  <2>6. CallOK(th[t])'
    BY <1>5, <2>1, <2>4 DEF CallOK, RemoveBlock
  <2>7. BlocksOK'
    BY <1>5, <2>1, <2>2 DEF IInv, BlocksOK, RemoveBlock, CallOK
  <2>8. CallsApart' /\ \A u \in Threads \ {t} : CallOK(th[u])'
    BY <1>a, <2>1, <2>4, <2>5, OthersKept DEF At
  <2> QED BY <1>f, <2>6, <2>7, <2>8
<1>g. ASSUME NEW t \in Threads, AutofreeDone(t), CallOK(th[t]), th[t].pc # "idle", UNCHANGED owner
      PROVE  /\ CallOK(th[t])'
             /\ \A u \in Threads \ {t} : th'[u] = th[u]
             /\ \/ th'[t].pc = "idle"
                \/ th'[t].pc = "autoremove" /\ th'[t].ptr = th[t].ptr /\ th[t].alone
  <2>1. CASE th[t].again
    <3>1. /\ \A u \in Threads \ {t} : th'[u] = th[u]
          /\ th'[t].pc = "autoremove" /\ th'[t].ptr = th[t].ptr
          /\ th'[t].alone = th[t].alone /\ ~ th'[t].again
      BY <1>a, <1>g, <2>1 DEF AutofreeDone, TypeOK
    <3> QED BY <1>g, <2>1, <3>1 DEF CallOK
  <2>2. CASE ~ th[t].again
    BY <1>a, <1>g, <2>2, ReturnFields DEF AutofreeDone, CallOK
  <2> QED BY <2>1, <2>2
<1>6. ASSUME NEW t \in Threads, AutoRemoveBlock(t) PROVE IInv'
  <2>1. th[t].pc = "autoremove" /\ th[t].ptr \in Ptrs /\ CallOK(th[t])
    BY <1>6, <1>d DEF AutoRemoveBlock, At
  <2>2. \A p \in Ptrs \ {th[t].ptr} : Known(p) => Known(p)'
    BY <1>6, <1>b, <2>1, ReleaseKnown DEF AutoRemoveBlock
  <2>3. \A p \in Ptrs \ {th[t].ptr} : Steady(p)
    BY <1>6, <2>2 DEF AutoRemoveBlock, Steady
  <2>4. BlocksOK'
    BY <1>6, <2>1, <2>2 DEF IInv, BlocksOK, AutoRemoveBlock, CallOK
  <2>5. CASE Goto(t, "poison")
    <3>1. /\ \A u \in Threads \ {t} : th'[u] = th[u]
          /\ th'[t].pc = "poison" /\ th'[t].ptr = th[t].ptr
          /\ th'[t].alone = th[t].alone /\ th'[t].again = th[t].again
      BY <1>a, <2>5, GotoFields
    <3>2. CallOK(th[t])'
      BY <1>6, <2>1, <3>1 DEF CallOK, AutoRemoveBlock
    <3>3. CallsApart' /\ \A u \in Threads \ {t} : CallOK(th[u])'
      BY <1>a, <2>1, <2>3, <3>1, OthersKept DEF At
    <3> QED BY <1>f, <2>4, <3>2, <3>3
  <2>6. CASE AutofreeDone(t)
    <3>1. /\ CallOK(th[t])'
          /\ \A u \in Threads \ {t} : th'[u] = th[u]
          /\ \/ th'[t].pc = "idle"
             \/ th'[t].pc = "autoremove" /\ th'[t].ptr = th[t].ptr /\ th[t].alone
      BY <1>6, <1>g, <2>1, <2>6 DEF AutoRemoveBlock
    <3>2. CallsApart' /\ \A u \in Threads \ {t} : CallOK(th[u])'
      BY <1>a, <2>1, <2>3, <3>1, OthersKept DEF At
    <3> QED BY <1>f, <2>4, <3>1, <3>2
  <2> QED BY <1>6, <2>5, <2>6 DEF AutoRemoveBlock
<1>7. ASSUME NEW t \in Threads, PoisonBlock(t) PROVE IInv'
  <2>1. th[t].pc = "poison" /\ th[t].ptr \in Ptrs /\ CallOK(th[t])
    BY <1>7, <1>d DEF PoisonBlock, At
  <2>2. \A p \in Ptrs : Known(p)' = Known(p)
    BY <1>7 DEF PoisonBlock, tableVars, Known
  <2>3. /\ \A u \in Threads \ {t} : th'[u] = th[u]
        /\ th'[t].pc = "release" /\ th'[t].ptr = th[t].ptr
        /\ th'[t].alone = th[t].alone /\ th'[t].again = th[t].again
    BY <1>7, <1>a, GotoFields DEF PoisonBlock
  <2>4. \A p \in Ptrs \ {th[t].ptr} : Steady(p)
    BY <1>7, <2>2 DEF PoisonBlock, Steady
  <2>5. CallOK(th[t])'
    BY <1>7, <2>1, <2>3 DEF CallOK, PoisonBlock
  <2>6. BlocksOK'
    BY <1>7, <2>1, <2>2 DEF IInv, BlocksOK, PoisonBlock, CallOK
  <2>7. CallsApart' /\ \A u \in Threads \ {t} : CallOK(th[u])'
    BY <1>a, <2>1, <2>3, <2>4, OthersKept DEF At
  <2> QED BY <1>f, <2>5, <2>6, <2>7
<1>8. ASSUME NEW t \in Threads, ReleaseBlock(t) PROVE IInv'
  <2>1. th[t].pc = "release" /\ th[t].ptr \in Ptrs /\ CallOK(th[t])
    BY <1>8, <1>d DEF ReleaseBlock, At, CallOK
  <2>2. heap' = heap \ {th[t].ptr} /\ AutofreeDone(t)
    BY <1>8, <2>1 DEF ReleaseBlock, At
  <2>3. \A p \in Ptrs : Known(p)' = Known(p)
    BY <1>8 DEF ReleaseBlock, tableVars, Known
  <2>4. /\ CallOK(th[t])'
        /\ \A u \in Threads \ {t} : th'[u] = th[u]
        /\ \/ th'[t].pc = "idle"
           \/ th'[t].pc = "autoremove" /\ th'[t].ptr = th[t].ptr /\ th[t].alone
    BY <1>8, <1>g, <2>1, <2>2 DEF ReleaseBlock
  <2>5. \A p \in Ptrs \ {th[t].ptr} : Steady(p)
    BY <1>8, <2>2, <2>3 DEF ReleaseBlock, Steady
  <2>6. BlocksOK'
    BY <1>8, <2>1, <2>2, <2>3 DEF IInv, BlocksOK, ReleaseBlock, CallOK
  <2>7. CallsApart' /\ \A u \in Threads \ {t} : CallOK(th[u])'
    BY <1>a, <2>1, <2>4, <2>5, OthersKept DEF At
  <2> QED BY <1>f, <2>4, <2>6, <2>7
<1>9. ASSUME NEW t \in Threads, ReallocLookup(t) PROVE IInv'
  <2>1. th[t].pc = "relookup" /\ th[t].ptr \in Ptrs /\ CallOK(th[t])
    BY <1>9, <1>d DEF ReallocLookup, At
  <2>2. \A p \in Ptrs : Known(p) => Known(p)'
    BY <1>9, <2>1, QueryKnown DEF ReallocLookup
  <2>3. /\ \A u \in Threads \ {t} : th'[u] = th[u]
        /\ th'[t].pc = "resize" /\ th'[t].ptr = th[t].ptr
        /\ th'[t].alone = th[t].alone /\ th'[t].again = th[t].again
    BY <1>9, <1>a DEF ReallocLookup, TypeOK
  <2>4. \A p \in Ptrs : Steady(p)
    BY <1>9, <2>2 DEF ReallocLookup, Steady
  <2>5. CallOK(th[t])'
    BY <1>9, <2>1, <2>2, <2>3 DEF CallOK, ReallocLookup
  <2>6. BlocksOK'
    BY <1>9, <2>2 DEF IInv, BlocksOK, ReallocLookup
  <2>7. CallsApart' /\ \A u \in Threads \ {t} : CallOK(th[u])'
    BY <1>a, <2>1, <2>3, <2>4, OthersKept DEF At
  <2> QED BY <1>f, <2>5, <2>6, <2>7
<1>10. ASSUME NEW t \in Threads, ResizeInPlace(t) PROVE IInv'
  <2>1. th[t].pc = "resize" /\ th[t].ptr \in Ptrs /\ CallOK(th[t])
    BY <1>10, <1>d DEF ResizeInPlace, At
  <2>2. \A p \in Ptrs : Known(p)' = Known(p)
    BY <1>10 DEF ResizeInPlace, tableVars, Known
  <2>3. \A p \in Ptrs \ {th[t].ptr} : Steady(p)
    BY <1>10, <1>b, <2>1, <2>2 DEF ResizeInPlace, Steady, MemoryOK
  <2>4. CASE Return(t) /\ owner' = [owner EXCEPT ![th[t].ptr] = t]
    <3>1. /\ \A u \in Threads \ {t} : th'[u] = th[u]
          /\ th'[t].pc = "idle" /\ ~ th'[t].alone /\ ~ th'[t].again
      BY <1>a, <2>4, ReturnFields
    <3>2. CallOK(th[t])'
      BY <3>1 DEF CallOK
    <3>3. BlocksOK'
      BY <1>10, <1>b, <2>1, <2>2, <2>4 DEF IInv, BlocksOK, ResizeInPlace, CallOK, MemoryOK
    <3>4. CallsApart' /\ \A u \in Threads \ {t} : CallOK(th[u])'
      BY <1>a, <2>1, <2>3, <3>1, OthersKept DEF At
    <3> QED BY <1>f, <3>2, <3>3, <3>4
  <2>5. CASE th' = [th EXCEPT ![t].pc = "reinsert", ![t].to = th[t].ptr] /\ UNCHANGED owner
    <3>1. /\ \A u \in Threads \ {t} : th'[u] = th[u]
          /\ th'[t].pc = "reinsert" /\ th'[t].ptr = th[t].ptr /\ th'[t].to = th[t].ptr
          /\ th'[t].alone = th[t].alone /\ th'[t].again = th[t].again
      BY <1>a, <2>5 DEF TypeOK
    <3>2. CallOK(th[t])'
      BY <1>10, <2>1, <2>5, <3>1 DEF CallOK, ResizeInPlace
    <3>3. BlocksOK'
      BY <1>10, <2>2, <2>5 DEF IInv, BlocksOK, ResizeInPlace
    <3>4. CallsApart' /\ \A u \in Threads \ {t} : CallOK(th[u])'
      BY <1>a, <2>1, <2>3, <3>1, OthersKept DEF At
    <3> QED BY <1>f, <3>2, <3>3, <3>4
  <2> QED BY <1>10, <2>4, <2>5 DEF ResizeInPlace
<1>11. ASSUME NEW t \in Threads, ResizeMove(t) PROVE IInv'
  <2>1. th[t].pc = "resize" /\ th[t].ptr \in Ptrs /\ CallOK(th[t]) /\ th[t].alone
    BY <1>11, <1>d DEF ResizeMove, At, SerialAssumed
  <2>2. \A p \in Ptrs : Known(p)' = Known(p)
    BY <1>11 DEF ResizeMove, tableVars, Known
  <2>3. PICK q \in (Ptrs \ heap) \cup {None} :
          /\ heap' = (heap \ {th[t].ptr}) \cup ({q} \ {None})
          /\ th' = [th EXCEPT ![t].pc = "reremove", ![t].to = q]
    BY <1>11 DEF ResizeMove
  <2>4. /\ \A u \in Threads \ {t} : th'[u] = th[u]
        /\ th'[t].pc = "reremove" /\ th'[t].ptr = th[t].ptr /\ th'[t].to = q
        /\ th'[t].alone = th[t].alone /\ th'[t].again = th[t].again
    BY <1>a, <2>3 DEF TypeOK
  <2>5. q # None => owner[q] = None
    BY <2>3 DEF IInv, BlocksOK
  <2>6. CallOK(th[t])'
    BY <1>11, <2>1, <2>3, <2>4, <2>5 DEF CallOK, ResizeMove
  <2>7. BlocksOK'
    BY <1>11, <2>1, <2>2, <2>3 DEF IInv, BlocksOK, ResizeMove, CallOK
  <2>8. CallsApart' /\ \A u \in Threads \ {t} : CallOK(th[u])'
    BY <1>a, <2>1, <2>4, OthersKept DEF At
  <2> QED BY <1>f, <2>6, <2>7, <2>8
<1>12. ASSUME NEW t \in Threads, ReallocRemove(t) PROVE IInv'
  <2>1. th[t].pc = "reremove" /\ th[t].ptr \in Ptrs /\ CallOK(th[t]) /\ th[t].alone
    BY <1>12, <1>d DEF ReallocRemove, At, CallOK
  <2>2. \A p \in Ptrs \ {th[t].ptr} : Known(p) => Known(p)'
    BY <1>12, <1>b, <2>1, ReleaseKnown DEF ReallocRemove
  <2>3. PICK pc \in {"repoison", "reinsert"} : Goto(t, pc) /\ (pc = "repoison" => th[t].to = None)
    BY <1>12 DEF ReallocRemove
  <2>4. /\ \A u \in Threads \ {t} : th'[u] = th[u]
        /\ th'[t].pc = pc /\ th'[t].ptr = th[t].ptr /\ th'[t].to = th[t].to
        /\ th'[t].alone = th[t].alone /\ th'[t].again = th[t].again
    BY <1>a, <2>3, GotoFields
  <2>5. CallOK(th[t])'
    BY <1>12, <2>1, <2>3, <2>4 DEF CallOK, ReallocRemove
  <2>6. BlocksOK'
    BY <1>12, <2>1, <2>2 DEF IInv, BlocksOK, ReallocRemove, CallOK
  <2>7. CallsApart' /\ \A u \in Threads \ {t} : CallOK(th[u])'
    BY <1>a, <2>1, <2>4, OthersKept DEF At
  <2> QED BY <1>f, <2>5, <2>6, <2>7
<1>13. ASSUME NEW t \in Threads, ReallocInsert(t) PROVE IInv'
  <2>1. th[t].pc = "reinsert" /\ th[t].ptr \in Ptrs /\ th[t].to \in Ptrs /\ CallOK(th[t])
    BY <1>13, <1>d, <1>e DEF ReallocInsert, At
  <2>2. \A p \in Ptrs : (p = th[t].to => Known(p)') /\ (Known(p) => Known(p)')
    BY <1>13, <1>b, <2>1, RecordKnown DEF ReallocInsert
  <2>3. /\ \A u \in Threads \ {t} : th'[u] = th[u]
        /\ th'[t].pc = "repoison" /\ th'[t].ptr = th[t].ptr /\ th'[t].to = th[t].to
        /\ th'[t].alone = th[t].alone /\ th'[t].again = th[t].again
    BY <1>13, <1>a, GotoFields DEF ReallocInsert
  <2>4. \A p \in Ptrs : Steady(p)
    BY <1>13, <2>2 DEF ReallocInsert, Steady
  <2>5. CallOK(th[t])'
    BY <1>13, <2>1, <2>2, <2>3 DEF CallOK, ReallocInsert
  <2>6. BlocksOK'
    BY <1>13, <2>2 DEF IInv, BlocksOK, ReallocInsert
  <2>7. CallsApart' /\ \A u \in Threads \ {t} : CallOK(th[u])'
    BY <1>a, <2>1, <2>3, <2>4, OthersKept DEF At
  <2> QED BY <1>f, <2>5, <2>6, <2>7
<1>14. ASSUME NEW t \in Threads, ReallocPoison(t) PROVE IInv'
  <2>1. th[t].pc = "repoison" /\ th[t].ptr \in Ptrs /\ CallOK(th[t])
    BY <1>14, <1>d DEF ReallocPoison, At
  <2>2. \A p \in Ptrs : Known(p)' = Known(p)
    BY <1>14 DEF ReallocPoison, tableVars, Known
  <2>3. poisoned' \subseteq poisoned \cup {th[t].ptr}
    BY <1>14 DEF ReallocPoison
  <2>4. \A p \in Ptrs \ {th[t].ptr} : Steady(p)
    BY <1>14, <2>2, <2>3 DEF ReallocPoison, Steady
  <2>5. BlocksOK'
    BY <1>14, <2>1, <2>2, <2>3 DEF IInv, BlocksOK, ReallocPoison, CallOK
  <2>6. CASE th[t].to = None
    <3>1. /\ \A u \in Threads \ {t} : th'[u] = th[u]
          /\ th'[t].pc = "idle" /\ ~ th'[t].alone /\ ~ th'[t].again
      BY <1>14, <1>a, <2>6, ReturnFields DEF ReallocPoison
    <3>2. CallOK(th[t])'
      BY <3>1 DEF CallOK
    <3>3. CallsApart' /\ \A u \in Threads \ {t} : CallOK(th[u])'
      BY <1>a, <2>1, <2>4, <3>1, OthersKept DEF At
    <3> QED BY <1>f, <2>5, <3>2, <3>3
  <2>7. CASE th[t].to # None
    <3>1. ReallocTrack(t)
      BY <1>14, <2>7 DEF ReallocPoison
    <3>2. /\ \A u \in Threads \ {t} : th'[u] = th[u]
          /\ th'[t].pc = "unpoison" /\ th'[t].ptr = th[t].to
          /\ th'[t].alone = th[t].alone /\ ~ th'[t].again
      BY <1>a, <3>1 DEF ReallocTrack, TypeOK, Idle
    <3>3. th[t].to \in Ptrs
      BY <1>a, <2>7 DEF TypeOK
    <3>4. CallOK(th[t])'
      BY <1>14, <2>1, <2>2, <2>7, <3>2, <3>3 DEF CallOK, ReallocPoison
    <3>5. CallsApart' /\ \A u \in Threads \ {t} : CallOK(th[u])'
      BY <1>a, <2>1, <2>4, <3>2, OthersKept DEF At, CallOK
    <3> QED BY <1>f, <2>5, <3>4, <3>5
  <2> QED BY <2>6, <2>7
<1>15. CASE UNCHANGED vars
  BY <1>15, <1>a, <1>c DEF vars, tableVars, IInv, BlocksOK, CallsApart, CallOK, At, Known
<1> QED
  BY <1>1, <1>2, <1>3, <1>4, <1>5, <1>6, <1>7, <1>8, <1>9, <1>10, <1>11, <1>12, <1>13, <1>14, <1>15
  DEF Next, Step, Free, Autofree, Realloc

LEMMA InductiveInvariant == SerialAssumed => (Spec => []IInv)
<1> SUFFICES ASSUME SerialAssumed PROVE Spec => []IInv
  OBVIOUS
<1>1. Init => IInv
  BY InitIInv
<1>2. IInv /\ [Next]_vars => IInv'
  BY NextIInv
<1> QED BY <1>1, <1>2, PTL DEF Spec

\* Whatever the threads and the addresses, the runtime releases no block that the program
\* may still use.
THEOREM OwnedAlwaysAllocated == SerialAssumed => (Spec => []OwnedAllocated)
<1>1. IInv => OwnedAllocated
  BY DEF IInv, BlocksOK, OwnedAllocated
<1> QED BY <1>1, InductiveInvariant, PTL

\* No access to a block the program owns meets a poisoned shadow.
THEOREM OwnedNeverPoisoned == SerialAssumed => (Spec => []OwnedUnpoisoned)
<1>1. IInv => OwnedUnpoisoned
  BY DEF IInv, BlocksOK, OwnedUnpoisoned
<1> QED BY <1>1, InductiveInvariant, PTL

\* The only free of a block is never reported as a second one, however small the table.
THEOREM NeverFalseDoubleFree == SerialAssumed => (Spec => []NoFalseDoubleFree)
<1>1. IInv => NoFalseDoubleFree
  BY DEF IInv, CallOK, NoFalseDoubleFree, At
<1> QED BY <1>1, InductiveInvariant, PTL

-----------------------------------------------------------------------------
(* What is left behind: the leak report names no block that was given up,  *)
(* and a block that is gone is poisoned.  A pointer that no call is about  *)
(* is Settled; PhaseOK is how far a call has come with the pointers it is  *)
(* about.                                                                  *)

Moving == {"reremove", "reinsert", "repoison"}

\* The call f is about p, as the block it was given or the one it makes of it.
About(f, p) == f.pc # "idle" /\ (p = f.ptr \/ (f.pc \in Moving /\ p = f.to))

\* The table has a slot for every address.
Room == Cardinality(Ptrs) <= MinCapacity

\* What holds of a block that no call is about.
Settled(p) ==
  /\ live[p] # None => owner[p] # None
  /\ Room => /\ owner[p] # None => live[p] # None
             /\ p \in heap => owner[p] # None
             /\ p \notin heap => p \in poisoned

\* What a call in progress knows of the block it is about.
PhaseOK(f) ==
  /\ f.pc \in {"poison", "release"} => live[f.ptr] = None
  /\ f.pc \in Moving /\ f.to # f.ptr =>
       f.ptr \notin heap /\ (f.pc # "reremove" => live[f.ptr] = None)
  /\ Room =>
       /\ f.pc \in {"unpoison", "remove", "relookup", "resize"} => live[f.ptr] # None
       /\ f.pc = "autoremove" =>
            \/ live[f.ptr] # None
            \/ f.ptr \notin heap /\ f.ptr \in poisoned
       /\ f.pc = "release" => f.ptr \in poisoned
       /\ f.pc \in Moving \cup {"resize"} => f.had = 1
       /\ f.pc = "repoison" /\ f.to # None => live[f.to] # None

\* The inductive invariant, beside IInv.
LInv ==
  /\ \A t \in Threads : PhaseOK(th[t])
  /\ \A p \in Ptrs : (\A t \in Threads : ~ About(th[t], p)) => Settled(p)

\* Sizes are numbers, and there are only so many addresses.
RoomAssumed == IsFiniteSet(Ptrs) /\ MinCapacity \in Nat

-----------------------------------------------------------------------------
(* The table has room                                                      *)

LEMMA NoRefusal ==
  ASSUME RoomAssumed, Room, NEW p \in Ptrs, RefuseRecord(p)
  PROVE  FALSE
<1>1. LivePtrs \in SUBSET (Ptrs \ {p})
  BY DEF RefuseRecord, LivePtrs
<1>2. /\ IsFiniteSet(Ptrs \ {p}) /\ Cardinality(Ptrs \ {p}) = Cardinality(Ptrs) - 1
      /\ Cardinality(Ptrs) \in Nat
  BY FS_RemoveElement, FS_CardinalityType DEF RoomAssumed
<1>3. IsFiniteSet(LivePtrs) /\ Cardinality(LivePtrs) <= Cardinality(Ptrs \ {p})
  BY <1>1, <1>2, FS_Subset
<1>4. Cardinality(LivePtrs) \in Nat
  BY <1>3, FS_CardinalityType
<1> QED BY <1>2, <1>3, <1>4 DEF RefuseRecord, Room, RoomAssumed

\* So a block is tracked when it has been recorded; no other record is touched.
LEMMA RecordLive ==
  ASSUME RoomAssumed, LedgerOK, NEW q \in Ptrs, (\E i \in Infos : Record(q, i)) \/ RefuseRecord(q)
  PROVE  /\ Room => live'[q] # None
         /\ \A p \in Ptrs \ {q} : live'[p] = live[p]
<1>1. CASE \E i \in Infos : Record(q, i)
  <2>1. PICK i \in Infos : Record(q, i)
    BY <1>1
  <2>2. i # None
    BY NobodyAssumption
  <2> QED BY <2>1, <2>2 DEF Record, LedgerOK
<1>2. CASE RefuseRecord(q)
  BY <1>2, NoRefusal DEF RefuseRecord
<1> QED BY <1>1, <1>2

LEMMA ReleaseLive ==
  ASSUME LedgerOK, NEW q \in Ptrs, Release(q) \/ AutoRelease(q)
  PROVE  /\ live'[q] = None
         /\ \A p \in Ptrs \ {q} : live'[p] = live[p]
         /\ reply'.res = 1 <=> live[q] # None
BY DEF Release, AutoRelease, LedgerOK, Reply

LEMMA QueryLive ==
  ASSUME NEW q \in Ptrs, Query(q)
  PROVE  live' = live /\ (live[q] # None => reply'.res = 1)
BY DEF Query, Reply

-----------------------------------------------------------------------------
(* Calls are about different pointers, so a step disturbs no other call    *)

LEMMA AboutApart ==
  ASSUME NEW p \in Ptrs, NEW f, NEW g,
         f.pc # "idle" /\ g.pc # "idle" => ~ f.alone /\ ~ g.alone /\ f.ptr # g.ptr,
         f.pc \in Moving /\ f.to # f.ptr => f.alone,
         g.pc \in Moving /\ g.to # g.ptr => g.alone
  PROVE  ~ (About(f, p) /\ About(g, p))
BY DEF About

Same(p) ==
  /\ live'[p] = live[p]
  /\ owner'[p] = owner[p]
  /\ p \in heap' <=> p \in heap
  /\ p \in poisoned' <=> p \in poisoned

LEMMA OthersUndisturbed ==
  ASSUME IInv, IInv', LInv, NEW t \in Threads,
         \A u \in Threads \ {t} : th'[u] = th[u],
         \A p \in Ptrs : Same(p) \/ About(th[t], p) \/ About(th'[t], p),
         PhaseOK(th[t])',
         \A p \in Ptrs : About(th[t], p) /\ ~ About(th'[t], p) => Settled(p)'
  PROVE  LInv'
<1>1. ASSUME NEW u \in Threads \ {t}, NEW p \in Ptrs, About(th[u], p)
      PROVE  Same(p)
  <2>1. ~ About(th[t], p)
    <3>1. th[t].pc # "idle" /\ th[u].pc # "idle" => ~ th[t].alone /\ ~ th[u].alone /\ th[t].ptr # th[u].ptr
      BY DEF IInv, CallsApart, At
    <3>2. \A v \in Threads : th[v].pc \in Moving /\ th[v].to # th[v].ptr => th[v].alone
      BY DEF IInv, CallOK, Moving
    <3> QED BY <1>1, <3>1, <3>2, AboutApart
  <2>2. ~ About(th'[t], p)
    <3>1. th'[t].pc # "idle" /\ th'[u].pc # "idle" => ~ th'[t].alone /\ ~ th'[u].alone /\ th'[t].ptr # th'[u].ptr
      BY DEF IInv, CallsApart, At
    <3>2. \A v \in Threads : th'[v].pc \in Moving /\ th'[v].to # th'[v].ptr => th'[v].alone
      BY DEF IInv, CallOK, Moving
    <3>3. About(th'[u], p)
      BY <1>1
    <3> QED BY <3>1, <3>2, <3>3, AboutApart
  <2> QED BY <2>1, <2>2
<1>2. ASSUME NEW u \in Threads \ {t}
      PROVE  PhaseOK(th[u])'
  <2>1. PhaseOK(th[u]) /\ th'[u] = th[u] /\ th[u].to \in Ptrs \cup {None}
    BY DEF LInv, IInv, TypeOK
  <2>2. CASE th[u].pc = "idle"
    BY <2>1, <2>2 DEF PhaseOK, Moving
  <2>3. CASE th[u].pc # "idle"
    <3>1. th[u].ptr \in Ptrs
      BY <2>3 DEF IInv, TypeOK, At
    <3>2. Same(th[u].ptr)
      BY <1>1, <2>3, <3>1 DEF About
    <3>3. th[u].pc \in Moving /\ th[u].to # None => Same(th[u].to)
      BY <1>1, <2>1, <2>3 DEF About
    <3> QED BY <2>1, <3>2, <3>3 DEF PhaseOK, Same, Moving, Room
  <2> QED BY <2>2, <2>3
<1>3. ASSUME NEW p \in Ptrs, \A u \in Threads : ~ About(th'[u], p)
      PROVE  Settled(p)'
  <2>1. CASE About(th[t], p)
    BY <1>3, <2>1
  <2>2. CASE ~ About(th[t], p)
    <3>1. Same(p)
      BY <1>3, <2>2
    <3>2. Settled(p)
      BY <1>3, <2>2 DEF LInv
    <3> QED BY <3>1, <3>2 DEF Settled, Same, Room
  <2> QED BY <2>1, <2>2
<1>4. \A u \in Threads : PhaseOK(th[u])'
  BY <1>2
<1> QED BY <1>3, <1>4 DEF LInv

LEMMA InitLInv == Init => LInv
<1> SUFFICES ASSUME Init PROVE LInv
  OBVIOUS
<1>1. \A t \in Threads : th[t].pc = "idle"
  BY DEF Init, Idle
<1> QED BY <1>1 DEF Init, LedgerInit, LInv, PhaseOK, Settled, Moving

LEMMA NextLInv ==
  ASSUME SerialAssumed, RoomAssumed, IInv, LInv, [Next]_vars
  PROVE  LInv'
<1>a. IInv' /\ TypeOK
  BY NextIInv DEF IInv
<1>b. LedgerOK /\ ThreadsOK /\ MemoryOK
  BY <1>a, TypeParts
<1>d. \A t \in Threads : th[t].pc # "idle" => th[t].ptr \in Ptrs /\ CallOK(th[t]) /\ PhaseOK(th[t])
  BY <1>a DEF IInv, LInv, TypeOK, At
<1>e. \A t \in Threads : th[t].pc = "reinsert" => th[t].to \in Ptrs
  BY <1>a DEF TypeOK, At
<1>f. ASSUME NEW t \in Threads,
             \A u \in Threads \ {t} : th'[u] = th[u],
             \A p \in Ptrs : Same(p) \/ About(th[t], p) \/ About(th'[t], p),
             PhaseOK(th[t])',
             \A p \in Ptrs : About(th[t], p) /\ ~ About(th'[t], p) => Settled(p)'
      PROVE  LInv'
  BY <1>a, <1>f, OthersUndisturbed
<1>1. ASSUME NEW t \in Threads, NEW p \in Ptrs, Allocate(t, p) PROVE LInv'
  <2>1. /\ \A u \in Threads \ {t} : th'[u] = th[u]
        /\ th'[t].pc = "insert" /\ th'[t].ptr = p /\ th[t].pc = "idle"
    BY <1>1, <1>a DEF Allocate, TypeOK, Idle, At
  <2>2. \A q \in Ptrs : Same(q) \/ q = p
    BY <1>1 DEF Allocate, Same, tableVars
  <2>3. PhaseOK(th[t])'
    BY <2>1 DEF PhaseOK, Moving
  <2> QED BY <1>f, <2>1, <2>2, <2>3 DEF About
<1>2. ASSUME NEW t \in Threads, NEW p \in Ptrs, NEW call, NEW pc \in {"remove", "autoremove", "relookup"},
             Call(t, p, call, pc)
      PROVE LInv'
  <2>1. /\ \A u \in Threads \ {t} : th'[u] = th[u]
        /\ th'[t].pc = pc /\ th'[t].ptr = p /\ th[t].pc = "idle" /\ owner[p] = t
    BY <1>2, <1>a DEF Call, TypeOK, Idle, At
  <2>2. \A q \in Ptrs : Same(q) \/ q = p
    BY <1>2, <1>b DEF Call, Same, tableVars, MemoryOK
  <2>3. \A u \in Threads : ~ About(th[u], p)
    BY <1>d, <2>1, NobodyAssumption DEF About, CallOK, Moving
  <2>4. Room => live[p] # None
    BY <2>1, <2>3, NobodyAssumption DEF LInv, Settled
  <2>5. PhaseOK(th[t])'
    BY <1>2, <2>1, <2>4 DEF PhaseOK, Moving, Call, tableVars, Room
  <2> QED BY <1>f, <2>1, <2>2, <2>5 DEF About
<1>3. ASSUME NEW t \in Threads, InsertBlock(t) PROVE LInv'
  <2>1. th[t].pc = "insert" /\ th[t].ptr \in Ptrs
    BY <1>3, <1>d DEF InsertBlock, At
  <2>2. /\ Room => live'[th[t].ptr] # None
        /\ \A p \in Ptrs \ {th[t].ptr} : live'[p] = live[p]
    BY <1>3, <1>b, <2>1, RecordLive DEF InsertBlock
  <2>3. /\ \A u \in Threads \ {t} : th'[u] = th[u]
        /\ th'[t].pc = "unpoison" /\ th'[t].ptr = th[t].ptr
    BY <1>3, <1>a, GotoFields DEF InsertBlock
  <2>4. \A p \in Ptrs : Same(p) \/ p = th[t].ptr
    BY <1>3, <2>2 DEF InsertBlock, Same
  <2>5. PhaseOK(th[t])'
    BY <2>2, <2>3 DEF PhaseOK, Moving, Room
  <2> QED BY <1>f, <2>1, <2>3, <2>4, <2>5 DEF About, Moving
<1>4. ASSUME NEW t \in Threads, TrackShadow(t) PROVE LInv'
  <2>1. th[t].pc = "unpoison" /\ th[t].ptr \in Ptrs /\ CallOK(th[t]) /\ PhaseOK(th[t])
    BY <1>4, <1>d DEF TrackShadow, At
  <2>2. \A p \in Ptrs : Same(p) \/ p = th[t].ptr
    BY <1>4, <1>b, <2>1 DEF TrackShadow, Hand, Same, tableVars, MemoryOK
  <2>3. CASE th[t].again
    <3>1. /\ \A u \in Threads \ {t} : th'[u] = th[u]
          /\ th'[t].pc = "autoremove" /\ th'[t].ptr = th[t].ptr
      BY <1>4, <1>a, <2>3, GotoFields DEF TrackShadow, Hand
    <3>2. PhaseOK(th[t])'
      BY <1>4, <2>1, <3>1 DEF PhaseOK, Moving, Room, TrackShadow, tableVars
    <3> QED BY <1>f, <2>1, <2>2, <3>1, <3>2 DEF About, Moving
  <2>4. CASE ~ th[t].again
    <3>1. /\ \A u \in Threads \ {t} : th'[u] = th[u]
          /\ th'[t].pc = "idle" /\ owner' = [owner EXCEPT ![th[t].ptr] = t]
      BY <1>4, <1>a, <2>4, ReturnFields DEF TrackShadow, Hand
    <3>2. PhaseOK(th[t])'
      BY <3>1 DEF PhaseOK, Moving
    <3>3. \A p \in Ptrs : About(th[t], p) => Settled(p)'
      BY <1>4, <1>b, <2>1, <3>1, NobodyAssumption
      DEF About, Moving, Settled, Room, TrackShadow, MemoryOK, CallOK, PhaseOK, tableVars
    <3> QED BY <1>f, <2>1, <2>2, <3>1, <3>2, <3>3 DEF About, Moving
  <2> QED BY <2>3, <2>4
<1>5. ASSUME NEW t \in Threads, RemoveBlock(t) PROVE LInv'
  <2>1. th[t].pc = "remove" /\ th[t].ptr \in Ptrs /\ PhaseOK(th[t])
    BY <1>5, <1>d DEF RemoveBlock, At
  <2>2. /\ live'[th[t].ptr] = None
        /\ \A p \in Ptrs \ {th[t].ptr} : live'[p] = live[p]
        /\ reply'.res = 1 <=> live[th[t].ptr] # None
    BY <1>5, <1>b, <2>1, ReleaseLive DEF RemoveBlock
  <2>3. PICK pc \in {"poison", "release", "double_free"} : Goto(t, pc) /\ (pc # "poison" => reply'.res # 1)
    BY <1>5 DEF RemoveBlock, AfterRemove, Release, Reply
  <2>4. /\ \A u \in Threads \ {t} : th'[u] = th[u]
        /\ th'[t].pc = pc /\ th'[t].ptr = th[t].ptr
    BY <1>a, <2>3, GotoFields
  <2>5. \A p \in Ptrs : Same(p) \/ p = th[t].ptr
    BY <1>5, <2>2 DEF RemoveBlock, Same
  <2>6. Room => pc = "poison"
    BY <2>1, <2>2, <2>3 DEF PhaseOK
  <2>7. PhaseOK(th[t])'
    BY <2>2, <2>4, <2>6 DEF PhaseOK, Moving, Room
  <2> QED BY <1>f, <2>1, <2>3, <2>4, <2>5, <2>7 DEF About, Moving
<1>g. ASSUME NEW t \in Threads, AutofreeDone(t), th[t].ptr \in Ptrs, UNCHANGED poisoned,
             th[t].pc \in {"autoremove", "release"},
             \A p \in Ptrs : Same(p) \/ p = th[t].ptr,
             live'[th[t].ptr] = None, owner'[th[t].ptr] = None,
             Room => th[t].ptr \notin heap' /\ th[t].ptr \in poisoned'
      PROVE  LInv'
  <2>1. \A p \in Ptrs : About(th[t], p) => p = th[t].ptr
    BY <1>g DEF About, Moving
  <2>2. \A p \in Ptrs : Same(p) \/ About(th[t], p)
    BY <1>g DEF About
  <2>3. CASE th[t].again
    <3>1. /\ \A u \in Threads \ {t} : th'[u] = th[u]
          /\ th'[t].pc = "autoremove" /\ th'[t].ptr = th[t].ptr
      BY <1>a, <1>g, <2>3 DEF AutofreeDone, TypeOK
    <3>2. PhaseOK(th[t])'
      BY <1>g, <3>1 DEF PhaseOK, Moving, Room
    <3>3. \A p : About(th[t], p) => About(th'[t], p)
      BY <1>g, <3>1 DEF About, Moving
    <3> QED BY <1>f, <2>2, <3>1, <3>2, <3>3
  <2>4. CASE ~ th[t].again
    <3>1. /\ \A u \in Threads \ {t} : th'[u] = th[u]
          /\ th'[t].pc = "idle"
      BY <1>a, <1>g, <2>4, ReturnFields DEF AutofreeDone
    <3>2. PhaseOK(th[t])'
      BY <3>1 DEF PhaseOK, Moving
    <3>3. \A p \in Ptrs : p = th[t].ptr => Settled(p)'
      BY <1>g DEF Settled, Room
    <3> QED BY <1>f, <2>1, <2>2, <3>1, <3>2, <3>3
  <2> QED BY <2>3, <2>4
<1>6. ASSUME NEW t \in Threads, AutoRemoveBlock(t) PROVE LInv'
  <2>1. th[t].pc = "autoremove" /\ th[t].ptr \in Ptrs /\ PhaseOK(th[t]) /\ owner[th[t].ptr] = None
    BY <1>6, <1>d DEF AutoRemoveBlock, At, CallOK
  <2>2. /\ live'[th[t].ptr] = None
        /\ \A p \in Ptrs \ {th[t].ptr} : live'[p] = live[p]
        /\ reply'.res = 1 <=> live[th[t].ptr] # None
    BY <1>6, <1>b, <2>1, ReleaseLive DEF AutoRemoveBlock
  <2>3. \A p \in Ptrs : Same(p) \/ p = th[t].ptr
    BY <1>6, <2>2 DEF AutoRemoveBlock, Same
  <2>4. CASE Goto(t, "poison")
    <3>1. /\ \A u \in Threads \ {t} : th'[u] = th[u]
          /\ th'[t].pc = "poison" /\ th'[t].ptr = th[t].ptr
      BY <1>a, <2>4, GotoFields
    <3>2. PhaseOK(th[t])'
      BY <2>2, <3>1 DEF PhaseOK, Moving
    <3> QED BY <1>f, <2>1, <2>3, <3>1, <3>2 DEF About, Moving
  <2>5. CASE AutofreeDone(t) /\ reply'.res # 1
    <3>1. Room => th[t].ptr \notin heap' /\ th[t].ptr \in poisoned'
      BY <1>6, <2>1, <2>2, <2>5 DEF PhaseOK, AutoRemoveBlock
    <3> QED BY <1>6, <1>g, <2>1, <2>2, <2>3, <2>5, <3>1 DEF AutoRemoveBlock
  <2> QED BY <1>6, <2>4, <2>5 DEF AutoRemoveBlock
<1>7. ASSUME NEW t \in Threads, PoisonBlock(t) PROVE LInv'
  <2>1. th[t].pc = "poison" /\ th[t].ptr \in Ptrs /\ PhaseOK(th[t])
    BY <1>7, <1>d DEF PoisonBlock, At
  <2>2. /\ \A u \in Threads \ {t} : th'[u] = th[u]
        /\ th'[t].pc = "release" /\ th'[t].ptr = th[t].ptr
    BY <1>7, <1>a, GotoFields DEF PoisonBlock
  <2>3. \A p \in Ptrs : Same(p) \/ p = th[t].ptr
    BY <1>7 DEF PoisonBlock, Same, tableVars
  <2>4. PhaseOK(th[t])'
    BY <1>7, <2>1, <2>2 DEF PhaseOK, Moving, PoisonBlock, tableVars
  <2> QED BY <1>f, <2>1, <2>2, <2>3, <2>4 DEF About, Moving
<1>8. ASSUME NEW t \in Threads, ReleaseBlock(t) PROVE LInv'
  <2>1. th[t].pc = "release" /\ th[t].ptr \in Ptrs /\ PhaseOK(th[t]) /\ owner[th[t].ptr] = None
    BY <1>8, <1>d DEF ReleaseBlock, At, CallOK
  <2>2. heap' = heap \ {th[t].ptr} /\ AutofreeDone(t) /\ UNCHANGED <<tableVars, poisoned, owner>>
    BY <1>8, <2>1 DEF ReleaseBlock, At
  <2>3. \A p \in Ptrs : Same(p) \/ p = th[t].ptr
    BY <2>2 DEF Same, tableVars
  <2>4. live'[th[t].ptr] = None /\ (Room => th[t].ptr \notin heap' /\ th[t].ptr \in poisoned')
    BY <2>1, <2>2 DEF PhaseOK, tableVars
  <2> QED BY <1>g, <2>1, <2>2, <2>3, <2>4
<1>9. ASSUME NEW t \in Threads, ReallocLookup(t) PROVE LInv'
  <2>1. th[t].pc = "relookup" /\ th[t].ptr \in Ptrs /\ PhaseOK(th[t])
    BY <1>9, <1>d DEF ReallocLookup, At
  <2>2. live' = live /\ (live[th[t].ptr] # None => reply'.res = 1)
    BY <1>9, <2>1, QueryLive DEF ReallocLookup
  <2>3. /\ \A u \in Threads \ {t} : th'[u] = th[u]
        /\ th'[t].pc = "resize" /\ th'[t].ptr = th[t].ptr /\ th'[t].had = reply'.res
    BY <1>9, <1>a DEF ReallocLookup, TypeOK
  <2>4. \A p \in Ptrs : Same(p)
    BY <1>9, <2>2 DEF ReallocLookup, Same
  <2>5. PhaseOK(th[t])'
    BY <2>1, <2>2, <2>3 DEF PhaseOK, Moving, Room
  <2> QED BY <1>f, <2>1, <2>3, <2>4, <2>5 DEF About, Moving
<1>10. ASSUME NEW t \in Threads, ResizeInPlace(t) PROVE LInv'
  <2>1. th[t].pc = "resize" /\ th[t].ptr \in Ptrs /\ CallOK(th[t]) /\ PhaseOK(th[t])
    BY <1>10, <1>d DEF ResizeInPlace, At
  <2>2. \A p \in Ptrs : Same(p) \/ p = th[t].ptr
    BY <1>10, <1>b, <2>1 DEF ResizeInPlace, Same, tableVars, MemoryOK
  <2>3. CASE Return(t) /\ owner' = [owner EXCEPT ![th[t].ptr] = t]
    <3>1. /\ \A u \in Threads \ {t} : th'[u] = th[u]
          /\ th'[t].pc = "idle"
      BY <1>a, <2>3, ReturnFields
    <3>2. PhaseOK(th[t])'
      BY <3>1 DEF PhaseOK, Moving
    <3>3. \A p \in Ptrs : About(th[t], p) => Settled(p)'
      BY <1>10, <1>b, <2>1, <2>3, NobodyAssumption
      DEF About, Moving, Settled, Room, ResizeInPlace, MemoryOK, CallOK, PhaseOK, tableVars
    <3> QED BY <1>f, <2>1, <2>2, <3>1, <3>2, <3>3 DEF About, Moving
  <2>4. CASE th' = [th EXCEPT ![t].pc = "reinsert", ![t].to = th[t].ptr]
    <3>1. /\ \A u \in Threads \ {t} : th'[u] = th[u]
          /\ th'[t].pc = "reinsert" /\ th'[t].ptr = th[t].ptr /\ th'[t].to = th[t].ptr
          /\ th'[t].had = th[t].had
      BY <1>a, <2>4 DEF TypeOK
    <3>2. PhaseOK(th[t])'
      BY <2>1, <3>1 DEF PhaseOK, Moving, Room
    <3> QED BY <1>f, <2>1, <2>2, <3>1, <3>2 DEF About, Moving
  <2> QED BY <1>10, <2>3, <2>4 DEF ResizeInPlace
<1>11. ASSUME NEW t \in Threads, ResizeMove(t) PROVE LInv'
  <2>1. th[t].pc = "resize" /\ th[t].ptr \in Ptrs /\ CallOK(th[t]) /\ PhaseOK(th[t])
    BY <1>11, <1>d DEF ResizeMove, At
  <2>2. PICK q \in (Ptrs \ heap) \cup {None} :
          /\ heap' = (heap \ {th[t].ptr}) \cup ({q} \ {None})
          /\ th' = [th EXCEPT ![t].pc = "reremove", ![t].to = q]
    BY <1>11 DEF ResizeMove
  <2>3. /\ \A u \in Threads \ {t} : th'[u] = th[u]
        /\ th'[t].pc = "reremove" /\ th'[t].ptr = th[t].ptr /\ th'[t].to = q
        /\ th'[t].had = th[t].had
    BY <1>a, <2>2 DEF TypeOK
  <2>4. \A p \in Ptrs : Same(p) \/ p = th[t].ptr \/ p = q
    BY <1>11, <2>2 DEF ResizeMove, Same, tableVars
  <2>5. q # th[t].ptr
    BY <2>1, NobodyAssumption DEF CallOK
  <2>6. PhaseOK(th[t])'
    BY <2>1, <2>2, <2>3, <2>5 DEF PhaseOK, Moving, Room
  <2> QED BY <1>f, <2>1, <2>3, <2>4, <2>6 DEF About, Moving
<1>12. ASSUME NEW t \in Threads, ReallocRemove(t) PROVE LInv'
  <2>1. th[t].pc = "reremove" /\ th[t].ptr \in Ptrs /\ PhaseOK(th[t])
    BY <1>12, <1>d DEF ReallocRemove, At
  <2>2. /\ live'[th[t].ptr] = None
        /\ \A p \in Ptrs \ {th[t].ptr} : live'[p] = live[p]
    BY <1>12, <1>b, <2>1, ReleaseLive DEF ReallocRemove
  <2>3. PICK pc \in {"repoison", "reinsert"} : Goto(t, pc) /\ (pc = "repoison" => th[t].to = None)
    BY <1>12 DEF ReallocRemove
  <2>4. /\ \A u \in Threads \ {t} : th'[u] = th[u]
        /\ th'[t].pc = pc /\ th'[t].ptr = th[t].ptr /\ th'[t].to = th[t].to
        /\ th'[t].had = th[t].had
    BY <1>a, <2>3 DEF Goto, TypeOK
  <2>5. \A p \in Ptrs : Same(p) \/ p = th[t].ptr
    BY <1>12, <2>2 DEF ReallocRemove, Same
  <2>6. PhaseOK(th[t])'
    BY <1>12, <2>1, <2>2, <2>3, <2>4 DEF PhaseOK, Moving, Room, ReallocRemove
  <2> QED BY <1>f, <2>1, <2>3, <2>4, <2>5, <2>6 DEF About, Moving
<1>13. ASSUME NEW t \in Threads, ReallocInsert(t) PROVE LInv'
  <2>1. th[t].pc = "reinsert" /\ th[t].ptr \in Ptrs /\ th[t].to \in Ptrs /\ PhaseOK(th[t])
    BY <1>13, <1>d, <1>e DEF ReallocInsert, At
  <2>2. /\ Room => live'[th[t].to] # None
        /\ \A p \in Ptrs \ {th[t].to} : live'[p] = live[p]
    BY <1>13, <1>b, <2>1, RecordLive DEF ReallocInsert
  <2>3. /\ \A u \in Threads \ {t} : th'[u] = th[u]
        /\ th'[t].pc = "repoison" /\ th'[t].ptr = th[t].ptr /\ th'[t].to = th[t].to
        /\ th'[t].had = th[t].had
    BY <1>13, <1>a DEF ReallocInsert, Goto, TypeOK
  <2>4. \A p \in Ptrs : Same(p) \/ p = th[t].to
    BY <1>13, <2>2 DEF ReallocInsert, Same
  <2>5. PhaseOK(th[t])'
    BY <1>13, <2>1, <2>2, <2>3 DEF PhaseOK, Moving, Room, ReallocInsert
  <2> QED BY <1>f, <2>1, <2>3, <2>4, <2>5 DEF About, Moving
<1>14. ASSUME NEW t \in Threads, ReallocPoison(t) PROVE LInv'
  <2>1. th[t].pc = "repoison" /\ th[t].ptr \in Ptrs /\ PhaseOK(th[t]) /\ CallOK(th[t])
    BY <1>14, <1>d DEF ReallocPoison, At
  <2>2. \A p \in Ptrs : Same(p) \/ p = th[t].ptr
    BY <1>14 DEF ReallocPoison, Same, tableVars
  <2>3. th[t].to # th[t].ptr => \A p \in Ptrs : p = th[t].ptr => Settled(p)'
    BY <1>14, <2>1 DEF ReallocPoison, Settled, PhaseOK, Room, Moving, tableVars, CallOK
  <2>4. CASE th[t].to = None
    <3>1. /\ \A u \in Threads \ {t} : th'[u] = th[u]
          /\ th'[t].pc = "idle"
      BY <1>14, <1>a, <2>4, ReturnFields DEF ReallocPoison
    <3>2. PhaseOK(th[t])'
      BY <3>1 DEF PhaseOK, Moving
    <3>3. \A p \in Ptrs : About(th[t], p) => p = th[t].ptr /\ th[t].to # th[t].ptr
      BY <2>1, <2>4, NobodyAssumption DEF About
    <3> QED BY <1>f, <2>1, <2>2, <2>3, <3>1, <3>2, <3>3 DEF About, Moving
  <2>5. CASE th[t].to # None
    <3>1. /\ \A u \in Threads \ {t} : th'[u] = th[u]
          /\ th'[t].pc = "unpoison" /\ th'[t].ptr = th[t].to
      <4>1. ReallocTrack(t)
        BY <1>14, <2>5 DEF ReallocPoison
      <4> QED BY <1>a, <4>1 DEF ReallocTrack, TypeOK, Idle
    <3>2. PhaseOK(th[t])'
      BY <1>14, <2>1, <2>5, <3>1 DEF PhaseOK, Moving, Room, ReallocPoison, tableVars
    <3>3. \A p \in Ptrs : About(th[t], p) => About(th'[t], p) \/ (p = th[t].ptr /\ th[t].to # th[t].ptr)
      BY <3>1 DEF About
    <3>4. \A p \in Ptrs : Same(p) \/ About(th[t], p)
      BY <2>1, <2>2 DEF About
    <3> QED BY <1>f, <2>3, <3>1, <3>2, <3>3, <3>4
  <2> QED BY <2>4, <2>5
<1>15. CASE UNCHANGED vars
  BY <1>15 DEF vars, LInv, PhaseOK, Settled, About, Room
<1> QED
  BY <1>1, <1>2, <1>3, <1>4, <1>5, <1>6, <1>7, <1>8, <1>9, <1>10, <1>11, <1>12, <1>13, <1>14, <1>15
  DEF Next, Step, Free, Autofree, Realloc

LEMMA LeakInvariant == SerialAssumed /\ RoomAssumed => (Spec => [](IInv /\ LInv))
<1> SUFFICES ASSUME SerialAssumed, RoomAssumed PROVE Spec => [](IInv /\ LInv)
  OBVIOUS
<1>1. Init => IInv /\ LInv
  BY InitIInv, InitLInv
<1>2. IInv /\ LInv /\ [Next]_vars => (IInv /\ LInv)'
  BY NextIInv, NextLInv
<1> QED BY <1>1, <1>2, PTL DEF Spec

\* What __ct_report_leaks prints when no call is under way is a block the
\* program still owns; if the table has a slot for every address it prints all
\* of them, and no other block exists.
THEOREM LeakReportAlwaysExact == SerialAssumed /\ RoomAssumed => (Spec => []LeakReportExact)
<1>1. IInv /\ LInv => LeakReportExact
  <2> SUFFICES ASSUME IInv, LInv, AllIdle, NEW p \in Ptrs
               PROVE  /\ live[p] # None => owner[p] # None
                      /\ Cardinality(Ptrs) <= MinCapacity =>
                           (owner[p] # None <=> live[p] # None) /\ (owner[p] # None <=> p \in heap)
    BY DEF LeakReportExact
  <2>1. Settled(p)
    BY DEF LInv, AllIdle, At, About
  <2>2. owner[p] # None => p \in heap
    BY DEF IInv, BlocksOK
  <2> QED BY <2>1, <2>2 DEF Settled, Room
<1> QED BY <1>1, LeakInvariant, PTL

\* A block that is gone stays poisoned until its address is handed out again,
\* so that every access to it is reported.
THEOREM ReleasedAlwaysPoisoned == SerialAssumed /\ RoomAssumed => (Spec => []ReleasedPoisoned)
<1>1. IInv /\ LInv => ReleasedPoisoned
  <2> SUFFICES ASSUME IInv, LInv, Room, NEW p \in Ptrs, p \notin heap, \A t \in Threads : th[t].ptr # p
               PROVE  p \in poisoned
    BY DEF ReleasedPoisoned, Room
  <2>1. \A t \in Threads : ~ About(th[t], p)
    BY NobodyAssumption DEF About, IInv, CallOK, Moving
  <2>2. Settled(p)
    BY <2>1 DEF LInv
  <2> QED BY <2>2 DEF Settled
<1> QED BY <1>1, LeakInvariant, PTL

-----------------------------------------------------------------------------
(* Calls come to an end                                                    *)

\* How many steps of its own a call has before it at most, a second release of an
\* unused allocation included.
StepsLeft(pc) ==
  CASE pc = "idle" -> 0
    [] pc \in {"release", "double_free"} -> 1
    [] pc = "poison" -> 2
    [] pc \in {"remove", "autoremove"} -> 3
    [] pc = "unpoison" -> 4
    [] pc \in {"insert", "repoison"} -> 5
    [] pc = "reinsert" -> 6
    [] pc = "reremove" -> 7
    [] pc = "resize" -> 8
    [] pc = "relookup" -> 9
CallLeft(f) == StepsLeft(f.pc) + IF f.again THEN 3 ELSE 0

\* No call goes round in circles, and none is set back by another thread.
EachShrinks ==
  \A t \in Threads : ~ At(t, "idle") =>
    IF Step(t) THEN CallLeft(th'[t]) < CallLeft(th[t]) ELSE th'[t] = th[t]
CallShrinks == [][EachShrinks]_vars

LEMMA PcShrinks ==
  ASSUME NEW f, NEW g, f.again = g.again, f.pc \in Pcs, g.pc \in Pcs, StepsLeft(f.pc) < StepsLeft(g.pc)
  PROVE  CallLeft(f) < CallLeft(g)
<1>1. StepsLeft(f.pc) \in 0..9 /\ StepsLeft(g.pc) \in 0..9
  BY DEF StepsLeft, Pcs
<1>2. PICK k \in {0, 3} : CallLeft(f) = StepsLeft(f.pc) + k /\ CallLeft(g) = StepsLeft(g.pc) + k
  <2>1. CASE f.again
    BY <2>1 DEF CallLeft
  <2>2. CASE ~ f.again
    BY <2>2 DEF CallLeft
  <2> QED BY <2>1, <2>2
<1> QED BY <1>1, <1>2

LEMMA StepShrinks ==
  ASSUME TypeOK, TypeOK', NEW t \in Threads, Step(t)
  PROVE  CallLeft(th'[t]) < CallLeft(th[t])
<1>0. th \in [Threads -> Frames] /\ th[t] \in Frames /\ th'[t] \in Frames
  BY TypeParts DEF ThreadsOK, TypeOK, Frames, Pcs
<1>1p. th[t].pc \in Pcs /\ th'[t].pc \in Pcs
  BY <1>0 DEF Frames
<1>s. /\ th[t].pc # "idle" => CallLeft(th[t]) > 0
      /\ th[t].again => CallLeft(th[t]) = StepsLeft(th[t].pc) + 3
  BY <1>1p DEF CallLeft, StepsLeft, Pcs
<1>i. ASSUME Return(t), th[t].pc # "idle" PROVE CallLeft(th'[t]) < CallLeft(th[t])
  <2>1. CallLeft(th'[t]) = 0
    BY <1>0, <1>i DEF Return, Idle, CallLeft, StepsLeft
  <2> QED BY <1>s, <1>i, <2>1
<1>p. ASSUME th'[t].again = th[t].again, StepsLeft(th'[t].pc) < StepsLeft(th[t].pc)
      PROVE  CallLeft(th'[t]) < CallLeft(th[t])
  BY <1>1p, <1>p, PcShrinks
<1>g. ASSUME NEW pc, Goto(t, pc), StepsLeft(pc) < StepsLeft(th[t].pc)
      PROVE  CallLeft(th'[t]) < CallLeft(th[t])
  BY <1>g, <1>p, GotoFields
<1>a. ASSUME AutofreeDone(t), th[t].pc \in {"autoremove", "release", "double_free"}
      PROVE  CallLeft(th'[t]) < CallLeft(th[t])
  <2>1. CASE th[t].again
    <3>1. th'[t].pc = "autoremove" /\ th'[t].again = FALSE
      BY <1>0, <1>a, <2>1 DEF AutofreeDone, Frames
    <3>2. CallLeft(th'[t]) = 3
      BY <3>1 DEF CallLeft, StepsLeft
    <3>3. CallLeft(th[t]) > 3
      BY <1>a, <1>s, <2>1 DEF StepsLeft
    <3> QED BY <3>2, <3>3
  <2>2. CASE ~ th[t].again
    BY <1>a, <1>i, <2>2 DEF AutofreeDone
  <2> QED BY <2>1, <2>2
<1>1. CASE InsertBlock(t)
  <2>1. th[t].pc = "insert" /\ Goto(t, "unpoison")
    BY <1>1 DEF InsertBlock, At
  <2> QED BY <1>g, <2>1 DEF StepsLeft
<1>2. CASE TrackShadow(t)
  <2>1. th[t].pc = "unpoison" /\ (Goto(t, "autoremove") \/ Return(t))
    BY <1>2 DEF TrackShadow, Hand, At
  <2> QED BY <1>g, <1>i, <2>1 DEF StepsLeft
<1>3. CASE RemoveBlock(t)
  <2>1. th[t].pc = "remove" /\ \E pc \in {"poison", "release", "double_free"} : Goto(t, pc)
    BY <1>3 DEF RemoveBlock, AfterRemove, Release, Reply, At
  <2> QED BY <1>g, <2>1 DEF StepsLeft
<1>4. CASE AutoRemoveBlock(t)
  <2>1. th[t].pc = "autoremove" /\ (Goto(t, "poison") \/ AutofreeDone(t))
    BY <1>4 DEF AutoRemoveBlock, At
  <2> QED BY <1>g, <1>a, <2>1 DEF StepsLeft
<1>5. CASE PoisonBlock(t)
  <2>1. th[t].pc = "poison" /\ Goto(t, "release")
    BY <1>5 DEF PoisonBlock, At
  <2> QED BY <1>g, <2>1 DEF StepsLeft
<1>6. CASE ReleaseBlock(t)
  <2>1. th[t].pc \in {"release", "double_free"} /\ (AutofreeDone(t) \/ Return(t))
    BY <1>6 DEF ReleaseBlock, At
  <2> QED BY <1>a, <1>i, <2>1 DEF StepsLeft
<1>7. CASE ReallocLookup(t)
  <2>1. th[t].pc = "relookup" /\ th'[t].pc = "resize" /\ th'[t].again = th[t].again
    BY <1>0, <1>7 DEF ReallocLookup, At, Frames
  <2> QED BY <1>p, <2>1 DEF StepsLeft
<1>8. CASE ResizeInPlace(t)
  <2>1. th[t].pc = "resize" /\ (Return(t) \/ (th'[t].pc = "reinsert" /\ th'[t].again = th[t].again))
    BY <1>0, <1>8 DEF ResizeInPlace, At, Frames
  <2> QED BY <1>i, <1>p, <2>1 DEF StepsLeft
<1>9. CASE ResizeMove(t)
  <2>1. th[t].pc = "resize" /\ th'[t].pc = "reremove" /\ th'[t].again = th[t].again
    BY <1>0, <1>9 DEF ResizeMove, At, Frames
  <2> QED BY <1>p, <2>1 DEF StepsLeft
<1>10. CASE ReallocRemove(t)
  <2>1. th[t].pc = "reremove" /\ (Goto(t, "repoison") \/ Goto(t, "reinsert"))
    BY <1>10 DEF ReallocRemove, At
  <2> QED BY <1>g, <2>1 DEF StepsLeft
<1>11. CASE ReallocInsert(t)
  <2>1. th[t].pc = "reinsert" /\ Goto(t, "repoison")
    BY <1>11 DEF ReallocInsert, At
  <2> QED BY <1>g, <2>1 DEF StepsLeft
<1>12. CASE ReallocPoison(t)
  <2>1. th[t].pc = "repoison" /\ (Return(t) \/ ReallocTrack(t))
    BY <1>12 DEF ReallocPoison, At
  <2>2. ASSUME ReallocTrack(t) PROVE CallLeft(th'[t]) < CallLeft(th[t])
    <3>1. th'[t].pc = "unpoison" /\ th'[t].again = FALSE
      BY <1>0, <2>2 DEF ReallocTrack, Idle
    <3>2. CallLeft(th'[t]) = 4
      BY <3>1 DEF CallLeft, StepsLeft
    <3>3. CallLeft(th[t]) > 4
      BY <2>1 DEF CallLeft, StepsLeft
    <3> QED BY <3>2, <3>3
  <2> QED BY <1>i, <2>1, <2>2
<1> QED BY <1>1, <1>2, <1>3, <1>4, <1>5, <1>6, <1>7, <1>8, <1>9, <1>10, <1>11, <1>12 DEF Step

LEMMA OthersKeepCall ==
  ASSUME TypeOK, NEW t \in Threads, ~ At(t, "idle"), Next, ~ Step(t)
  PROVE  th'[t] = th[t]
<1>0. th \in [Threads -> Frames]
  BY TypeParts DEF ThreadsOK
<1>1. PICK u \in Threads :
        \/ \E p \in Ptrs : Allocate(u, p) \/ Free(u, p) \/ Autofree(u, p) \/ Realloc(u, p)
        \/ Step(u)
  BY DEF Next
<1>2. CASE \E p \in Ptrs : Allocate(u, p) \/ Free(u, p) \/ Autofree(u, p) \/ Realloc(u, p)
  <2>1. At(u, "idle") /\ \E f : th' = [th EXCEPT ![u] = f]
    BY <1>2 DEF Allocate, Free, Autofree, Realloc, Call
  <2> QED BY <1>0, <2>1
<1>3. CASE Step(u)
  <2>1. u # t
    BY <1>3
  <2>2. \A v \in Threads \ {u} : th'[v] = th[v]
    BY <1>0, <1>3
    DEF Step, InsertBlock, TrackShadow, RemoveBlock, AutoRemoveBlock, PoisonBlock, ReleaseBlock,
        ReallocLookup, ResizeInPlace, ResizeMove, ReallocRemove, ReallocInsert, ReallocPoison,
        ReallocTrack, AfterRemove, AutofreeDone, Hand, Goto, Return
  <2> QED BY <2>1, <2>2
<1> QED BY <1>1, <1>2, <1>3

\* Every call that goes on ends, after no more steps of its own than CallLeft says,
\* whatever other threads do: of FreeReleases, what does not depend on scheduling.
THEOREM CallAlwaysShrinks == Spec => CallShrinks
<1>1. TypeOK /\ TypeOK' /\ [Next]_vars => [EachShrinks]_vars
  BY StepShrinks, OthersKeepCall DEF EachShrinks
<1> QED BY <1>1, TypeCorrect, PTL DEF Spec, CallShrinks

-----------------------------------------------------------------------------
(* A free leads to the release of its block                                *)

\* t is about to release p: by __ct_free or a delete, or by autofree of a block that
\* has a record.
Releasing(t, p) ==
  /\ th[t].ptr = p
  /\ At(t, "remove") \/ At(t, "poison") \/ At(t, "release") \/ (At(t, "autoremove") /\ live[p] # None)

\* The call does not end, and the table does not forget the block, before it is released.
EachReleases ==
  \A t \in Threads, p \in Ptrs : Releasing(t, p) => Releasing(t, p)' \/ p \notin heap'
ReleasingGoesOn == [][EachReleases]_vars

LEMMA LiveKept ==
  ASSUME LedgerOK, NEW q \in Ptrs, NEW p \in Ptrs, live[p] # None,
         \/ (\E i \in Infos : Record(q, i)) \/ RefuseRecord(q) \/ Query(q)
         \/ p # q /\ (Release(q) \/ AutoRelease(q))
  PROVE  live'[p] # None
BY NobodyAssumption DEF LedgerOK, Record, RefuseRecord, Query, Release, AutoRelease

LEMMA OthersKeepLive ==
  ASSUME TypeOK, NEW u \in Threads, NEW p \in Ptrs, live[p] # None, Step(u), p # th[u].ptr
  PROVE  live'[p] # None
<1>0. LedgerOK
  BY TypeParts
<1>1. ~ At(u, "idle") /\ th[u].ptr \in Ptrs /\ (At(u, "reinsert") => th[u].to \in Ptrs)
  BY TypeParts
  DEF ThreadsOK, FrameOK, At, Step, InsertBlock, TrackShadow, RemoveBlock, AutoRemoveBlock, PoisonBlock,
      ReleaseBlock, ReallocLookup, ResizeInPlace, ResizeMove, ReallocRemove, ReallocInsert, ReallocPoison
<1>2. CASE InsertBlock(u) \/ RemoveBlock(u) \/ AutoRemoveBlock(u) \/ ReallocLookup(u) \/ ReallocRemove(u)
  BY <1>0, <1>1, <1>2, LiveKept DEF InsertBlock, RemoveBlock, AutoRemoveBlock, ReallocLookup, ReallocRemove
<1>3. CASE ReallocInsert(u)
  BY <1>0, <1>1, <1>3, LiveKept DEF ReallocInsert
<1>4. CASE \/ TrackShadow(u) \/ PoisonBlock(u) \/ ReleaseBlock(u)
           \/ ResizeInPlace(u) \/ ResizeMove(u) \/ ReallocPoison(u)
  BY <1>4 DEF TrackShadow, PoisonBlock, ReleaseBlock, ResizeInPlace, ResizeMove, ReallocPoison, tableVars
<1> QED BY <1>2, <1>3, <1>4 DEF Step

LEMMA OwnStepReleases ==
  ASSUME IInv, IInv', NEW t \in Threads, NEW p \in Ptrs, Releasing(t, p), Step(t)
  PROVE  Releasing(t, p)' \/ p \notin heap'
<1>0. TypeOK /\ th[t].ptr = p /\ ~ At(t, "double_free")'
  BY DEF IInv, Releasing, CallOK, At
<1>1. CASE At(t, "remove")
  <2>1. RemoveBlock(t)
    BY <1>1
    DEF At, Step, InsertBlock, TrackShadow, RemoveBlock, AutoRemoveBlock, PoisonBlock, ReleaseBlock,
        ReallocLookup, ResizeInPlace, ResizeMove, ReallocRemove, ReallocInsert, ReallocPoison
  <2>2. PICK pc \in {"poison", "release", "double_free"} : Goto(t, pc)
    BY <2>1 DEF RemoveBlock, AfterRemove, Release, Reply
  <2> QED BY <1>0, <2>2, GotoFields DEF Releasing, At
<1>2. CASE At(t, "poison")
  <2>1. PoisonBlock(t)
    BY <1>2
    DEF At, Step, InsertBlock, TrackShadow, RemoveBlock, AutoRemoveBlock, PoisonBlock, ReleaseBlock,
        ReallocLookup, ResizeInPlace, ResizeMove, ReallocRemove, ReallocInsert, ReallocPoison
  <2> QED BY <1>0, <2>1, GotoFields DEF PoisonBlock, Releasing, At
<1>3. CASE At(t, "release")
  <2>1. ReleaseBlock(t)
    BY <1>3
    DEF At, Step, InsertBlock, TrackShadow, RemoveBlock, AutoRemoveBlock, PoisonBlock, ReleaseBlock,
        ReallocLookup, ResizeInPlace, ResizeMove, ReallocRemove, ReallocInsert, ReallocPoison
  <2> QED BY <1>0, <1>3, <2>1 DEF ReleaseBlock, At
<1>4. CASE At(t, "autoremove") /\ live[p] # None
  <2>1. AutoRemoveBlock(t)
    BY <1>4
    DEF At, Step, InsertBlock, TrackShadow, RemoveBlock, AutoRemoveBlock, PoisonBlock, ReleaseBlock,
        ReallocLookup, ResizeInPlace, ResizeMove, ReallocRemove, ReallocInsert, ReallocPoison
  <2>2. Goto(t, "poison")
    BY <1>0, <1>4, <2>1 DEF AutoRemoveBlock, AutoRelease, Reply
  <2> QED BY <1>0, <2>2, GotoFields DEF Releasing, At
<1> QED BY <1>1, <1>2, <1>3, <1>4 DEF Releasing

\* The program's only free of a block, by whichever function, ends in its release, tracked
\* or not; so does autofree of a tracked one (__ct_free, __ct_autofree).  With
\* CallAlwaysShrinks this is FreeReleases but for the scheduling.
THEOREM FreeAlwaysReleases == SerialAssumed => (Spec => ReleasingGoesOn)
<1>1. IInv /\ IInv' /\ [Next]_vars => [EachReleases]_vars
  <2> SUFFICES ASSUME IInv, IInv', Next, NEW t \in Threads, NEW p \in Ptrs, Releasing(t, p)
               PROVE  Releasing(t, p)' \/ p \notin heap'
    BY DEF EachReleases
  <2>0. TypeOK /\ ~ At(t, "idle") /\ th[t].ptr = p
    BY DEF IInv, Releasing, At
  <2>1. CASE Step(t)
    BY <2>1, OwnStepReleases
  <2>2. CASE ~ Step(t)
    <3>1. th'[t] = th[t]
      BY <2>0, <2>2, OthersKeepCall
    <3>2. ASSUME live[p] # None PROVE live'[p] # None
      <4>1. PICK u \in Threads :
              \/ \E q \in Ptrs : Allocate(u, q) \/ Free(u, q) \/ Autofree(u, q) \/ Realloc(u, q)
              \/ Step(u)
        BY DEF Next
      <4>2. CASE \E q \in Ptrs : Allocate(u, q) \/ Free(u, q) \/ Autofree(u, q) \/ Realloc(u, q)
        BY <3>2, <4>2 DEF Allocate, Free, Autofree, Realloc, Call, tableVars
      <4>3. CASE Step(u)
        <5>1. u # t /\ ~ At(u, "idle")
          BY <2>2, <4>3
          DEF At, Step, InsertBlock, TrackShadow, RemoveBlock, AutoRemoveBlock, PoisonBlock, ReleaseBlock,
              ReallocLookup, ResizeInPlace, ResizeMove, ReallocRemove, ReallocInsert, ReallocPoison
        <5>2. p # th[u].ptr
          BY <2>0, <5>1 DEF IInv, CallsApart
        <5> QED BY <2>0, <3>2, <4>3, <5>2, OthersKeepLive
      <4> QED BY <4>1, <4>2, <4>3
    <3> QED BY <3>1, <3>2 DEF Releasing, At
  <2> QED BY <2>1, <2>2
<1> QED BY <1>1, InductiveInvariant, PTL DEF Spec, ReleasingGoesOn
=============================================================================
