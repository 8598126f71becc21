----------------------------- MODULE BoundsCheck -----------------------------
(***************************************************************************)
(* The check of an access, src/runtime/ct_runtime_bounds.cpp, against the  *)
(* records and the shadow that allocations leave: by malloc, and by mmap,  *)
(* munmap, sbrk, brk and their automatic releases, which are here address  *)
(* by address.  Threads release what they own, mappings and memory of the  *)
(* break also in part, and access any address from any base.  Blocks of    *)
(* malloc and mmap lie below SbrkBase, the break moves above it; the       *)
(* allocation table has room (see AllocRuntime for the other case).        *)
(***************************************************************************)
EXTENDS Shadow

CONSTANTS
  Threads,
  MemSize, SbrkBase,  \* addresses are 0..MemSize-1
  Sizes, Accesses,    \* sizes of blocks of malloc and mappings, and of accesses
  Increments,         \* by which sbrk and brk move the break, up and down
  BreakApart,         \* threads keep their uses of the break apart
  FeatureSets,        \* the choices of SHADOW and SHADOW_AGGR
  Programs            \* what programs call: each is a set of ways to get memory

ASSUME BoundsAssumption ==
  /\ MemSize \in Nat /\ SbrkBase \in 0..MemSize /\ SbrkBase % Granule = 0
  /\ Sizes \subseteq Nat /\ Accesses \cup Increments \subseteq Nat \ {0}
  /\ BreakApart \in BOOLEAN /\ FeatureSets \subseteq SUBSET {"SHADOW", "AGGR"}
  /\ Programs \subseteq SUBSET {"malloc", "mmap", "sbrk"}

VARIABLES
  features,  \* the features that are on, besides BOUNDS, ALLOC and AUTOFREE
  calls,     \* what the program calls
  table,     \* the records, by address
  shadow,
  blocks,    \* what exists, by its first address; it ends before hi
  brk,       \* the program break
  th,        \* th[t]: where t is, and the block or the access it is about
  lost       \* (history) bytes the program gave back in a way that leaves their record

vars == <<features, calls, table, shadow, blocks, brk, th, lost>>

Addr == 0..MemSize - 1
On(f) == f \in features

\* What a thread is about to do, of a block or of part of one.
Call(pc, p, kind, size, len) == [pc |-> pc, p |-> p, kind |-> kind, size |-> size, ptr |-> 0, len |-> len]
Idle == Call("idle", 0, "malloc", 0, 0)

Init ==
  /\ features \in FeatureSets /\ calls \in Programs
  /\ table = << >> /\ blocks = << >>
  /\ shadow = EmptyShadow
  /\ brk = SbrkBase
  /\ th = [t \in Threads |-> Idle]
  /\ lost = {}

At(t, pc) == th[t].pc = pc
Goto(t, pc) == th' = [th EXCEPT ![t].pc = pc]
Return(t) == th' = [th EXCEPT ![t] = Idle]
Become(t, call) == th' = [th EXCEPT ![t] = call]
Without(f, p) == [q \in DOMAIN f \ {p} |-> f[q]]
With(f, p, v) == [q \in {p} \cup DOMAIN f |-> IF q = p THEN v ELSE f[q]]
Owns(t, p, kinds) == p \in DOMAIN blocks /\ blocks[p].owner = t /\ blocks[p].kind \in kinds
Requested(p) == p..p + blocks[p].req - 1

\* The break is one place for all: sbrk and brk, and the automatic releases that the
\* pass adds, read it in one call and move it in another.
UsesBreak(t) == ~ At(t, "idle") /\ th[t].kind = "sbrk"
MayUseBreak(t) == BreakApart => \A u \in Threads : ~ UsesBreak(u)

Piece(b, hi, req, part) == [hi |-> hi, req |-> req, kind |-> b.kind, owner |-> b.owner, part |-> part]

\* What remains when [lo, hi) is unmapped or lies above the break: of a block that
\* begins before it the front, of one that ends after it the rest, as a block.
Cut(lo, hi) ==
  LET Ends(p) == p < hi /\ hi < blocks[p].hi
      Rest == {q \in {hi} : \E p \in DOMAIN blocks : Ends(p)}
      Front(b, p) == Piece(b, lo, IF b.req < lo - p THEN b.req ELSE lo - p,
                           IF b.part = "rest" THEN "rest" ELSE "front")
  IN [q \in {p \in DOMAIN blocks : p < lo \/ hi <= p} \cup Rest |->
        IF q \in Rest THEN LET b == blocks[CHOOSE p \in DOMAIN blocks : Ends(p)]
                           IN Piece(b, b.hi, b.hi - hi, "rest")
        ELSE IF hi <= q \/ blocks[q].hi <= lo THEN blocks[q]
        ELSE Front(blocks[q], q)]

\* What is left at p has no record of its own.
Spoil(p) == [q \in DOMAIN blocks |-> IF q = p THEN Piece(blocks[q], blocks[q].hi, blocks[q].req, "rest")
                                     ELSE blocks[q]]

\* What has a record of its own is told to the runtime when it is given back from its
\* first address on; all else that [lo, hi) takes, and what follows it, is not.
Told(p) == IF p \in DOMAIN blocks /\ blocks[p].part # "rest" THEN Requested(p) ELSE {}
Untold(lo, hi, told) ==
  {a \in lo..MemSize - 1 :
     \E q \in DOMAIN blocks : q < hi /\ lo < blocks[q].hi /\ a \in Requested(q)} \ told

-----------------------------------------------------------------------------
(* Allocation: the system, the record, the shadow                          *)

Unused(lo, hi) == \A q \in DOMAIN blocks : hi <= q \/ blocks[q].hi <= lo

\* The system makes [p, p + real).
Make(t, p, kind, req, real) ==
  /\ blocks' = With(blocks, p, [hi |-> p + real, req |-> req, kind |-> kind,
                                owner |-> t, part |-> "whole"])
  /\ Become(t, Call("insert", p, kind, IF kind = "malloc" THEN real ELSE req, req))

\* malloc and mmap return addresses aligned to a granule at least; malloc_usable_size
\* is what malloc took.
Malloc(t) ==
  /\ At(t, "idle")
  /\ \E p \in 0..SbrkBase - 1, n \in Sizes, kind \in calls \ {"sbrk"} :
       LET real == RoundUp(IF n = 0 THEN 1 ELSE n)
       IN /\ p % Granule = 0 /\ p + real <= SbrkBase /\ Unused(p, p + real)
          /\ kind = "mmap" => n > 0
          /\ Make(t, p, kind, n, real)
  /\ UNCHANGED <<features, calls, table, shadow, brk, lost>>

\* sbrk with a positive increment.
Sbrk(t) ==
  /\ At(t, "idle") /\ "sbrk" \in calls /\ MayUseBreak(t)
  /\ \E n \in Increments :
       /\ brk + n <= MemSize
       /\ Make(t, brk, "sbrk", n, n)
       /\ brk' = brk + n
  /\ UNCHANGED <<features, calls, table, shadow, lost>>

Insert(t) ==
  /\ At(t, "insert")
  /\ table' = With(table, th[t].p, [state |-> "USED", size |-> th[t].size, req |-> th[t].len])
  /\ Goto(t, "track")
  /\ UNCHANGED <<features, calls, shadow, blocks, brk, lost>>

Track(t) ==
  /\ At(t, "track")
  /\ IF On("SHADOW")
     THEN shadow' \in Written(shadow, TrackBytes(th[t].p, th[t].len, th[t].size))
     ELSE UNCHANGED shadow
  /\ Return(t)
  /\ UNCHANGED <<features, calls, table, blocks, brk, lost>>

-----------------------------------------------------------------------------
(* Release                                                                 *)

\* __ct_free of a block.
Release(t) ==
  /\ At(t, "idle")
  /\ \E p \in Addr : Owns(t, p, {"malloc"}) /\ Become(t, Call("remove", p, "malloc", 0, 0))
  /\ UNCHANGED <<features, calls, table, shadow, blocks, brk, lost>>

\* __ct_munmap of whole pages, of one mapping or several, from any address.
Munmap(t) ==
  /\ At(t, "idle")
  /\ \E lo, hi \in 0..SbrkBase :
       /\ lo < hi /\ lo % Granule = 0 /\ hi % Granule = 0
       /\ \A a \in lo..hi - 1 : \E q \in 0..a : Owns(t, q, {"mmap"}) /\ a < blocks[q].hi
       /\ Become(t, Call("remove", lo, "mmap", 0, hi - lo))
  /\ UNCHANGED <<features, calls, table, shadow, blocks, brk, lost>>

\* __ct_autofree, __ct_autofree_munmap, __ct_autofree_sbrk of what malloc, mmap or sbrk
\* returned.  The pass adds no release of a mapping whose address the function passes
\* to a call, munmap included.
Autofree(t) ==
  /\ At(t, "idle")
  /\ \E p \in Addr :
       /\ Owns(t, p, {"malloc", "mmap", "sbrk"})
       /\ blocks[p].part = "whole" \/ (blocks[p].part = "front" /\ blocks[p].kind = "sbrk")
       /\ blocks[p].kind = "sbrk" => MayUseBreak(t)
       /\ Become(t, Call("autoremove", p, blocks[p].kind, 0, 0))
  /\ UNCHANGED <<features, calls, table, shadow, blocks, brk, lost>>

\* The program moves the break down over what the thread owns, or what an automatic
\* release left there.
MovesDown(t, n) ==
  /\ SbrkBase + n <= brk
  /\ \A q \in DOMAIN blocks : brk - n < blocks[q].hi => blocks[q].owner = t \/ blocks[q].part = "rest"
  /\ brk' = brk - n
  /\ blocks' = Cut(brk - n, brk)

\* sbrk with a negative increment: the break moves first.
Shrink(t) ==
  /\ At(t, "idle") /\ "sbrk" \in calls /\ MayUseBreak(t)
  /\ \E n \in Increments :
       /\ MovesDown(t, n)
       /\ lost' = lost \cup Untold(brk - n, brk, Told(brk - n))
       /\ Become(t, Call("remove", brk - n, "sbrk", 0, 0))
  /\ UNCHANGED <<features, calls, table, shadow>>

\* __ct_brk records nothing.
Brk(t) ==
  /\ At(t, "idle") /\ "sbrk" \in calls /\ MayUseBreak(t)
  /\ \E n \in Increments :
       \/ brk + n <= MemSize /\ brk' = brk + n /\ UNCHANGED <<blocks, lost>>
       \/ MovesDown(t, n) /\ lost' = lost \cup Untold(brk - n, brk, {})
  /\ UNCHANGED <<features, calls, table, shadow, th>>

Recorded(a) == a \in DOMAIN table /\ table[a].state = "USED"
SetState(a, state) == table' = [table EXCEPT ![a].state = state]

\* ct_table_remove, whose size the poisoning uses: sbrk does so too when the record is
\* of what was released before.  At any other address than that of a record nothing is
\* removed, nor poisoned.
Remove(t) ==
  /\ At(t, "remove")
  /\ LET p == th[t].p
     IN /\ IF Recorded(p) THEN SetState(p, "FREED") ELSE UNCHANGED table
        /\ IF Recorded(p) \/ (p \in DOMAIN table /\ th[t].kind = "sbrk")
           THEN Become(t, Call("poison", p, th[t].kind, table[p].size, th[t].len))
           ELSE Goto(t, "release")
  /\ UNCHANGED <<features, calls, shadow, blocks, brk, lost>>

\* ct_table_remove_autofree: what is not recorded is left alone.
Autoremove(t) ==
  /\ At(t, "autoremove")
  /\ LET p == th[t].p
     IN IF Recorded(p)
        THEN /\ SetState(p, "AUTOFREED")
             /\ Become(t, Call(IF th[t].kind = "sbrk" THEN "top" ELSE "poison", p, th[t].kind,
                               table[p].size, RoundUp(table[p].size)))
        ELSE Return(t) /\ UNCHANGED table
  /\ UNCHANGED <<features, calls, shadow, blocks, brk, lost>>

\* sbrk(0): memory of sbrk is released if it is on top, and is lost otherwise.
AutofreeTop(t) ==
  /\ At(t, "top")
  /\ IF th[t].p + th[t].size = brk
     THEN Goto(t, "give") /\ UNCHANGED blocks
     ELSE Return(t) /\ blocks' = Spoil(th[t].p)
  /\ UNCHANGED <<features, calls, table, shadow, brk, lost>>

\* sbrk(-size), by the size of the record, which the system may refuse.
AutofreeGive(t) ==
  /\ At(t, "give")
  /\ LET low == brk - th[t].size
     IN IF SbrkBase <= low
        THEN /\ brk' = low /\ blocks' = Cut(low, brk)
             /\ lost' = lost \cup Untold(low, brk, Told(th[t].p))
        ELSE UNCHANGED <<brk, blocks, lost>>
  /\ Goto(t, "poison")
  /\ UNCHANGED <<features, calls, table, shadow>>

\* (a faulty Poison: a granule too many)
PoisonPast(t) ==
  /\ At(t, "poison")
  /\ IF On("SHADOW")
     THEN shadow' \in Written(shadow, PoisonBytes(th[t].p, th[t].size + Granule))
     ELSE UNCHANGED shadow
  /\ Goto(t, "release")
  /\ UNCHANGED <<features, calls, table, blocks, brk, lost>>

Poison(t) ==
  /\ At(t, "poison")
  /\ IF On("SHADOW")
     THEN shadow' \in Written(shadow, PoisonBytes(th[t].p, th[t].size))
     ELSE UNCHANGED shadow
  /\ Goto(t, "release")
  /\ UNCHANGED <<features, calls, table, blocks, brk, lost>>

\* free, or munmap, of the system; memory of sbrk was released before.  When munmap
\* fails, what had a record has it no more.
SystemRelease(t) ==
  /\ At(t, "release")
  /\ LET p == th[t].p  hi == p + th[t].len
     IN \/ th[t].kind = "sbrk" /\ UNCHANGED <<blocks, lost>>
        \/ th[t].kind = "malloc" /\ blocks' = Without(blocks, p) /\ UNCHANGED lost
        \/ th[t].kind = "mmap" /\ blocks' = Cut(p, hi) /\ lost' = lost \cup Untold(p, hi, Told(p))
        \/ th[t].kind = "mmap" /\ blocks' = Spoil(p) /\ UNCHANGED lost
  /\ Return(t)
  /\ UNCHANGED <<features, calls, table, shadow, brk>>

-----------------------------------------------------------------------------
(* __ct_check_bounds                                                       *)

\* ct_table_lookup_containing: the first record in the order of the table.
Containing(a) == {q \in DOMAIN table : q <= a /\ a - q < table[q].size}

\* The records the lookup may find.
Found(base, ptr) ==
  IF base \in DOMAIN table THEN {base}
  ELSE IF {"SHADOW", "AGGR"} \subseteq features THEN Containing(ptr) ELSE {}

InRecord(base, ptr, len, bound) == base <= ptr /\ ptr - base <= bound /\ len <= bound - (ptr - base)

\* The lookup under the lock, and what is decided without the shadow, which alone
\* needs the base.  One access at a time: an access changes nothing that another one
\* reads.
Access(t) ==
  /\ At(t, "idle") /\ \A u \in Threads : th[u].pc \notin {"check", "report", "clean"}
  /\ \E base, ptr \in Addr, len \in Accesses :
       /\ ptr + len <= MemSize
       /\ \E b \in Found(base, ptr) :
            LET rec == table[b]
                bound == IF rec.req # 0 THEN rec.req ELSE rec.size
                pc == IF On("SHADOW") THEN "check"
                      ELSE IF rec.state = "FREED" \/ ~ InRecord(b, ptr, len, bound) THEN "report"
                      ELSE "clean"
            IN Become(t, [pc |-> pc, p |-> IF On("SHADOW") THEN 0 ELSE base, kind |-> "malloc",
                          size |-> 0, ptr |-> ptr, len |-> len])
  /\ UNCHANGED <<features, calls, table, shadow, blocks, brk, lost>>

\* The lock is not held any more.
CheckShadow(t) ==
  /\ At(t, "check")
  /\ Goto(t, IF OutOfBounds(shadow, th[t].ptr, th[t].len) THEN "report" ELSE "clean")
  /\ UNCHANGED <<features, calls, table, shadow, blocks, brk, lost>>

\* The access is reported or not.
EndAccess(t) ==
  /\ At(t, "report") \/ At(t, "clean")
  /\ Return(t)
  /\ UNCHANGED <<features, calls, table, shadow, blocks, brk, lost>>

Next ==
  \E t \in Threads :
    \/ Malloc(t) \/ Sbrk(t) \/ Brk(t) \/ Insert(t) \/ Track(t)
    \/ Release(t) \/ Munmap(t) \/ Autofree(t) \/ Shrink(t) \/ Remove(t) \/ Autoremove(t)
    \/ AutofreeTop(t) \/ AutofreeGive(t) \/ Poison(t) \/ SystemRelease(t)
    \/ Access(t) \/ CheckShadow(t) \/ EndAccess(t)

Spec == Init /\ [][Next]_vars

-----------------------------------------------------------------------------
\* The type invariant: pages of the shadow are whole and no more than there is room
\* for, blocks do not overlap, and those of sbrk lie below the break.
TypeOK ==
  /\ features \in FeatureSets /\ calls \in Programs
  /\ DOMAIN table \subseteq Addr
  /\ \A p \in DOMAIN table :
       table[p] \in [state : {"USED", "FREED", "AUTOFREED"}, size : Nat, req : Nat]
  /\ DOMAIN shadow = IndexesOf(PagesOf(DOMAIN shadow)) /\ \A i \in DOMAIN shadow : shadow[i] \in Bytes
  /\ Cardinality(PagesOf(DOMAIN shadow)) <= MaxPages
  /\ \A p \in DOMAIN blocks : blocks[p].owner \in Threads /\ p < blocks[p].hi
  /\ \A p, q \in DOMAIN blocks : p # q => blocks[p].hi <= q \/ blocks[q].hi <= p
  /\ brk \in SbrkBase..MemSize /\ \A p \in DOMAIN blocks : p >= SbrkBase => blocks[p].hi <= brk
  /\ lost \subseteq Addr

AccessOf(t) == th[t].ptr..th[t].ptr + th[t].len - 1

\* A thread that stays inside a block it owns is not reported, whatever others
\* allocate and release between the lookup and the check of the shadow
\* (ct_runtime_bounds.cpp:85-101), and whatever is left of earlier blocks at these
\* addresses.  Not so, with the shadow, for granules of memory that was once given back
\* in a way that leaves its record: when that one is released, they are poisoned.  Nor
\* for memory of brk, and for what is left behind in a mapping.
NoFalseReport ==
  \A t \in Threads : At(t, "report") =>
    ~ \E p \in DOMAIN blocks :
        /\ blocks[p].owner = t /\ blocks[p].part # "rest"
        /\ IF On("SHADOW") THEN \A a \in AccessOf(t) : Index(a) * Granule \notin lost ELSE th[t].p = p
        /\ AccessOf(t) \subseteq Requested(p)

\* What a call of sbrk has just given back and is about to poison.
Leaving(u) ==
  IF th[u].kind # "sbrk" THEN {}
  ELSE IF At(u, "poison") THEN th[u].p..th[u].p + th[u].size - 1
  ELSE IF At(u, "remove") /\ Recorded(th[u].p) THEN th[u].p..th[u].p + table[th[u].p].size - 1
  ELSE {}

\* What may be accessed without a report: the blocks that exist; the bytes malloc
\* gives in excess to a block of no byte, when there is no shadow; what a call of sbrk
\* is about to poison; and what was given back in a way that leaves its record.
Covered ==
  (UNION {IF blocks[p].req = 0 /\ ~ On("SHADOW") THEN p..blocks[p].hi - 1 ELSE Requested(p) :
          p \in DOMAIN blocks})
  \cup (UNION {Leaving(u) : u \in Threads}) \cup lost

\* Without the shadow the check reports accesses from a block that was freed, but lets
\* those pass that are from a block released automatically (ct_runtime_bounds.cpp:92).
FromAutofreed(a) == ~ On("SHADOW") /\ a \in DOMAIN table /\ table[a].state = "AUTOFREED"

\* An access that is checked and not reported touches no byte outside of the blocks
\* that exist, as far as they were asked for: use after free and overflow are
\* found, also of memory that another thread is about to release.
ReportsInvalid ==
  [][\A t \in Threads : ~ At(t, "clean") /\ At(t, "clean")' =>
        AccessOf(t)' \subseteq Covered \/ FromAutofreed(th'[t].p)]_vars
=============================================================================
