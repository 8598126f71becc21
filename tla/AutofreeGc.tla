----------------------------- MODULE AutofreeGc -----------------------------
(***************************************************************************)
(* The collector of src/runtime/ct_runtime_alloc.cpp (macOS): the scan at  *)
(* startup, the scan of the periodic thread, and the scan that             *)
(* __ct_autofree makes for the one block it is about to release.           *)
(* The program is what the collector looks at: its threads hold references *)
(* to blocks in their stacks and registers, in globals and inside blocks.  *)
(* Every kind of root is scanned (the defaults), and a stale value is a    *)
(* reference that the program has not dropped yet.                         *)
(***************************************************************************)
EXTENDS Naturals, FiniteSets

CONSTANTS
  Threads, Blocks,
  Main, Collector,  \* the thread of the constructor, the periodic thread
  Globals, None,
  SharedLocks,      \* malloc, the logger and the shadow lock across threads
  DueAtStart,       \* is the first periodic scan due (uptime >= the period)?
  Env,              \* the CT_AUTOFREE_SCAN variables: see ScanConfig
  Features          \* what the program and the system do in this instance

ASSUME GcAssumption ==
  /\ IsFiniteSet(Threads) /\ IsFiniteSet(Blocks)
  /\ {Main, Collector} \subseteq Threads
  /\ Globals \notin Threads /\ None \notin Threads \cup Blocks
  /\ SharedLocks \in BOOLEAN /\ DueAtStart \in BOOLEAN
  /\ Features \subseteq {"alloc", "link", "spawn", "autofree", "fail"}

VARIABLES
  used,        \* blocks recorded as USED
  marked,      \* those of them whose mark is 1
  heap,        \* blocks that exist for the real allocator
  roots,       \* roots[h]: what the stack and registers of h, or the globals, refer to
  maker,       \* maker[b]: the thread whose function allocated b and may autofree it
  links,       \* <<b, c>>: block b contains a reference to block c
  alive,       \* threads that exist
  susp,        \* susp[t]: how often t is suspended; it runs when 0
  lock,        \* who holds ct_alloc_lock
  mlock,       \* who holds a lock of malloc, of the logger or of the shadow
  inProgress,  \* ct_autofree_scan_in_progress
  due,         \* a periodic scan is due: now - last_gc >= period
  th           \* th[t]: where t is, and the locals of its call

vars == <<used, marked, heap, roots, maker, links, alive, susp, lock, mlock, inProgress, due, th>>
program == <<heap, roots, maker, links, alive>>
table == <<used, marked>>

\* START implies scanning, and a period of one second unless one is given.
ScanConfig(env) ==
  [enabled |-> env.scan \/ env.start, start |-> env.start, ptr |-> env.ptr,
   period |-> IF env.start /\ env.period = 0 THEN 1 ELSE env.period,
   budget |-> env.budget, interval |-> env.interval]

cfg == ScanConfig(Env)

Start(t) == IF cfg.start /\ t \in {Main, Collector} THEN "enter" ELSE "idle"
Local(pc) == [pc |-> pc, ptr |-> None, snap |-> {}, todo |-> {}, late |-> FALSE,
              n |-> 0, items |-> {}, checked |-> FALSE]

\* The constructor starts the periodic thread, then scans.
Init ==
  /\ used = {} /\ marked = {} /\ heap = {} /\ links = {}
  /\ roots = [h \in Threads \cup {Globals} |-> {}]
  /\ maker = [b \in Blocks |-> None]
  /\ alive = IF "spawn" \in Features THEN {Main, Collector} ELSE Threads
  /\ susp = [t \in Threads |-> 0]
  /\ lock = None /\ mlock = None
  /\ inProgress = FALSE
  /\ due = DueAtStart
  /\ th = [t \in Threads |-> Local(Start(t))]

Running(t) == t \in alive /\ susp[t] = 0
At(t, pc) == th[t].pc = pc /\ Running(t)
Goto(t, pc) == th' = [th EXCEPT ![t].pc = pc]
\* The periodic thread sleeps between scans, others go on with the program.
Leave(t) == th' = [th EXCEPT ![t] = Local(IF t = Collector THEN "sleep" ELSE "idle")]
Program(t) == At(t, "idle") /\ t # Collector
MayTimeOut == cfg.budget # 0

-----------------------------------------------------------------------------
(* The program                                                             *)

\* The real malloc, inside of which a thread may be suspended.
EnterMalloc(t) ==
  /\ Program(t) /\ "alloc" \in Features /\ mlock = None
  /\ mlock' = IF SharedLocks THEN t ELSE None
  /\ Goto(t, "malloc")
  /\ UNCHANGED <<table, program, susp, lock, inProgress, due>>

LeaveMalloc(t) ==
  /\ At(t, "malloc")
  /\ mlock' = None
  /\ \/ heap = Blocks /\ Leave(t) /\ UNCHANGED <<heap, roots, maker>>  \* out of memory
     \/ \E b \in Blocks \ heap :
          /\ heap' = heap \cup {b}
          /\ roots' = [roots EXCEPT ![t] = @ \cup {b}]
          /\ maker' = [maker EXCEPT ![b] = t]
          /\ th' = [th EXCEPT ![t].pc = "record", ![t].ptr = b]
  /\ UNCHANGED <<table, links, alive, susp, lock, inProgress, due>>

\* ct_table_insert: a new entry has mark 0.
RecordBlock(t) ==
  /\ At(t, "record") /\ lock = None
  /\ used' = used \cup {th[t].ptr}
  /\ marked' = marked \ {th[t].ptr}
  /\ Leave(t)
  /\ UNCHANGED <<program, susp, lock, mlock, inProgress, due>>

\* References are copied to and from globals and blocks, dropped, and handed to
\* a new thread.
SetRoots(h, S) == roots' = [roots EXCEPT ![h] = S]

Copy(t, b) ==
  /\ \/ b \in roots[t] /\ SetRoots(Globals, roots[Globals] \cup {b})
     \/ b \in roots[Globals] /\ SetRoots(t, roots[t] \cup {b})
     \/ (\E a \in roots[t] : <<a, b>> \in links) /\ SetRoots(t, roots[t] \cup {b})
     \/ \E h \in {t, Globals} : b \in roots[h] /\ SetRoots(h, roots[h] \ {b})
  /\ UNCHANGED <<links, alive>>

Link(t, b) ==
  /\ "link" \in Features /\ b \in roots[t]
  /\ \E a \in roots[t] \ {b} : links' = links \cup {<<a, b>>}
  /\ UNCHANGED <<roots, alive>>

Spawn(t, b) ==
  /\ "spawn" \in Features /\ b \in roots[t]
  /\ \E u \in Threads \ alive :
       /\ alive' = alive \cup {u}
       /\ SetRoots(u, {b})
  /\ UNCHANGED links

Mutate(t, b) ==
  /\ Program(t)
  /\ Copy(t, b) \/ Link(t, b) \/ Spawn(t, b)
  /\ UNCHANGED <<table, heap, maker, susp, lock, mlock, inProgress, due, th>>

-----------------------------------------------------------------------------
(* Suspending and resuming the threads of a snapshot                       *)

CallSuspend(t) ==
  /\ At(t, "suspend") /\ th[t].todo # {}
  /\ Goto(t, "kernel")
  /\ UNCHANGED <<table, program, susp, lock, mlock, inProgress, due>>

\* thread_suspend: a call already made takes effect even when its caller has
\* been suspended meanwhile.
Suspend(t) ==
  /\ th[t].pc = "kernel"
  /\ \E u \in th[t].todo :
       /\ susp' = [susp EXCEPT ![u] = @ + 1]
       /\ th' = [th EXCEPT ![t].pc = "suspend", ![t].todo = @ \ {u}]
  /\ UNCHANGED <<table, program, lock, mlock, inProgress, due>>

\* (two faulty ResumeAll: the caller is resumed too; one thread stays suspended)
ResumeAllAndSelf(t) ==
  susp' = [u \in Threads |-> IF u \in th[t].snap THEN susp[u] - 1 ELSE susp[u]]
ResumeAllButOne(t) ==
  LET last == IF th[t].snap = {t} THEN t ELSE CHOOSE u \in th[t].snap \ {t} : TRUE
  IN susp' = [u \in Threads |-> IF u \in th[t].snap \ {t, last} THEN susp[u] - 1 ELSE susp[u]]

ResumeAll(t) ==
  susp' = [u \in Threads |-> IF u \in th[t].snap \ {t} THEN susp[u] - 1 ELSE susp[u]]

-----------------------------------------------------------------------------
(* ct_autofree_gc_scan                                                     *)

\* Is the scan of thread t made?  The one at startup is forced.
Due(t) == t = Main \/ due

\* in_progress.exchange(1), then ct_autofree_gc_should_run, which sets last_gc.
\* A scan that is not due returns with the flag set.
EnterScan(t) ==
  /\ At(t, "enter")
  /\ \/ /\ inProgress \/ ~cfg.enabled
        /\ Leave(t) /\ UNCHANGED <<inProgress, due>>
     \/ /\ ~inProgress /\ cfg.enabled
        /\ inProgress' = TRUE
        /\ IF Due(t) THEN Goto(t, "snapshot") ELSE Leave(t)
        /\ due' = (due /\ t = Main)
  /\ UNCHANGED <<table, program, susp, lock, mlock>>

\* (a faulty Snapshot: a failing task_threads leaves the flag set)
SnapshotFlag(t) ==
  /\ At(t, "snapshot")
  /\ \/ "fail" \in Features /\ Leave(t)
     \/ th' = [th EXCEPT ![t].pc = "lock", ![t].snap = alive]
  /\ UNCHANGED <<table, program, susp, lock, mlock, inProgress, due>>

\* task_threads, before the lock is taken.
Snapshot(t) ==
  /\ At(t, "snapshot")
  /\ \/ "fail" \in Features /\ Leave(t) /\ inProgress' = FALSE
     \/ th' = [th EXCEPT ![t].pc = "lock", ![t].snap = alive] /\ UNCHANGED inProgress
  /\ UNCHANGED <<table, program, susp, lock, mlock, due>>

LockTable(t) ==
  /\ At(t, "lock") /\ lock = None
  /\ lock' = t
  /\ th' = [th EXCEPT ![t].pc = "suspend", ![t].todo = th[t].snap \ {t}]
  /\ UNCHANGED <<table, program, susp, mlock, inProgress, due>>

ClearMarks(t) ==
  /\ At(t, "suspend") /\ th[t].ptr = None /\ th[t].todo = {}
  /\ marked' = marked \ used
  /\ th' = [th EXCEPT ![t].pc = "mark", ![t].todo = th[t].snap]
  /\ UNCHANGED <<used, program, susp, lock, mlock, inProgress, due>>

\* ct_autofree_mark_value, of every value in h: the blocks it points to or into.
PointedTo(h) == roots[h] \cap used

\* Marks what the roots of h refer to.  A scan that exceeds its budget has marked
\* some of it, and marks nothing more.
MarkRoots(t, h, pc, todo) ==
  \/ /\ marked' = marked \cup PointedTo(h)
     /\ th' = [th EXCEPT ![t].pc = pc, ![t].todo = todo]
  \/ /\ MayTimeOut
     /\ \E S \in SUBSET PointedTo(h) : marked' = marked \cup S
     /\ th' = [th EXCEPT ![t].pc = "count", ![t].todo = {}, ![t].late = TRUE]

\* Registers and stack of one thread of the snapshot, the scanning one included.
MarkThread(t) ==
  /\ At(t, "mark")
  /\ \E u \in th[t].todo : MarkRoots(t, u, "mark", th[t].todo \ {u})
  /\ UNCHANGED <<used, program, susp, lock, mlock, inProgress, due>>

MarkGlobals(t) ==
  /\ At(t, "mark") /\ th[t].todo = {}
  /\ MarkRoots(t, Globals, "count", {})
  /\ UNCHANGED <<used, program, susp, lock, mlock, inProgress, due>>

\* (a faulty CountUnmarked: a scan out of time goes on with the marks it has)
CountUnmarkedLate(t) ==
  /\ At(t, "count")
  /\ th' = [th EXCEPT ![t].pc = "items", ![t].n = Cardinality(used \ marked)]
  /\ lock' = None
  /\ UNCHANGED <<table, program, susp, mlock, inProgress, due>>

CountUnmarked(t) ==
  /\ At(t, "count")
  /\ LET n == IF th[t].late THEN 0 ELSE Cardinality(used \ marked)
     IN th' = [th EXCEPT ![t].pc = IF n = 0 THEN "collect" ELSE "items", ![t].n = n]
  /\ lock' = None
  /\ UNCHANGED <<table, program, susp, mlock, inProgress, due>>

\* std::malloc for the list, while the others are suspended.  It may fail.
AllocItems(t) ==
  /\ At(t, "items") /\ mlock = None
  /\ \/ Goto(t, "collect")
     \/ "fail" \in Features /\ th' = [th EXCEPT ![t].pc = "collect", ![t].n = 0]
  /\ UNCHANGED <<table, program, susp, lock, mlock, inProgress, due>>

\* The first n unmarked entries of the table, in any order; all if there are fewer.
FirstUnmarked(n) ==
  {S \in SUBSET (used \ marked) : Cardinality(S) = n \/ (S = used \ marked /\ Cardinality(S) < n)}

\* (a faulty Collect: the entries are listed, but stay USED)
CollectKeep(t) ==
  /\ At(t, "collect") /\ lock = None
  /\ \E S \in FirstUnmarked(th[t].n) :
       /\ th' = [th EXCEPT ![t].pc = "free", ![t].items = S]
  /\ UNCHANGED <<table, program, susp, lock, mlock, inProgress, due>>

\* They become AUTOFREED.
Collect(t) ==
  /\ At(t, "collect") /\ lock = None
  /\ \E S \in FirstUnmarked(th[t].n) :
       /\ used' = used \ S
       /\ th' = [th EXCEPT ![t].pc = "free", ![t].items = S]
  /\ UNCHANGED <<marked, program, susp, lock, mlock, inProgress, due>>

\* (a faulty FreeItem: the loop does not advance)
FreeItemAgain(t) ==
  /\ At(t, "free") /\ mlock = None
  /\ \E b \in th[t].items : heap' = heap \ {b} /\ links' = {l \in links : l[1] # b}
  /\ UNCHANGED <<table, roots, maker, alive, susp, lock, mlock, inProgress, due, th>>

\* ct_autofree_do_free: poison, log and release.
FreeItem(t) ==
  /\ At(t, "free") /\ mlock = None
  /\ \E b \in th[t].items :
       /\ heap' = heap \ {b}
       /\ links' = {l \in links : l[1] # b}
       /\ th' = [th EXCEPT ![t].items = @ \ {b}]
  /\ UNCHANGED <<table, roots, maker, alive, susp, lock, mlock, inProgress, due>>

Resume(t) ==
  /\ At(t, "free") /\ th[t].items = {}
  /\ ResumeAll(t)
  /\ th' = [th EXCEPT ![t].pc = "clear", ![t].snap = {}]
  /\ UNCHANGED <<table, program, lock, mlock, inProgress, due>>

ClearFlag(t) ==
  /\ At(t, "clear")
  /\ inProgress' = FALSE
  /\ Leave(t)
  /\ UNCHANGED <<table, program, susp, lock, mlock, due>>

\* ct_autofree_scan_sleep: one period, so that the next scan is due.
Sleep ==
  /\ At(Collector, "sleep")
  /\ due' = TRUE
  /\ Goto(Collector, "enter")
  /\ UNCHANGED <<table, program, susp, lock, mlock, inProgress>>

-----------------------------------------------------------------------------
(* __ct_autofree, and the scan it makes first                              *)

\* The lookup, and ct_autofree_scan_should_run: a scan in progress or an interval
\* not elapsed means no scan.
ScanForPtr == cfg.enabled /\ cfg.ptr /\ ~inProgress
Autofree(t, b) ==
  /\ Program(t) /\ "autofree" \in Features /\ lock = None
  /\ b \in roots[t] /\ maker[b] = t
  /\ maker' = [maker EXCEPT ![b] = None]
  /\ \E scan \in BOOLEAN :
       /\ scan => ScanForPtr /\ b \in used
       /\ ScanForPtr /\ b \in used /\ cfg.interval = 0 => scan
       /\ th' = [th EXCEPT ![t].pc = IF scan THEN "ptr_snapshot" ELSE "remove", ![t].ptr = b]
  /\ UNCHANGED <<table, heap, roots, links, alive, susp, lock, mlock, inProgress, due>>

\* A scan that cannot list the threads answers "no reference".
PtrSnapshot(t) ==
  /\ At(t, "ptr_snapshot")
  /\ \/ "fail" \in Features /\ Goto(t, "remove")
     \/ th' = [th EXCEPT ![t].pc = "suspend", ![t].snap = alive, ![t].todo = alive \ {t}]
  /\ UNCHANGED <<table, program, susp, lock, mlock, inProgress, due>>

InThreads(t, b) == \E u \in th[t].snap \ {t} : b \in roots[u]
InGlobals(b) == b \in roots[Globals]

\* (a faulty Found: globals are not scanned)
FoundStacks(t, b) == InThreads(t, b)

Found(t, b) == InThreads(t, b) \/ InGlobals(b)

\* Whether the caller's own stack still shows the pointer depends on its code.
\* Out of time counts as found.
PtrScan(t) ==
  /\ At(t, "suspend") /\ th[t].ptr # None /\ th[t].todo = {}
  /\ \E own, late \in BOOLEAN :
       /\ late => MayTimeOut
       /\ Goto(t, IF own \/ late \/ Found(t, th[t].ptr) THEN "ptr_found" ELSE "ptr_clear")
  /\ UNCHANGED <<table, program, susp, lock, mlock, inProgress, due>>

PtrResume(t) ==
  /\ At(t, "ptr_found") \/ At(t, "ptr_clear")
  /\ ResumeAll(t)
  /\ IF At(t, "ptr_found")
     THEN Leave(t) /\ SetRoots(t, roots[t] \ {th[t].ptr})
     ELSE /\ th' = [th EXCEPT ![t].pc = "remove", ![t].snap = {}, ![t].checked = TRUE]
          /\ UNCHANGED roots
  /\ UNCHANGED <<table, heap, maker, links, alive, lock, mlock, inProgress, due>>

\* ct_table_remove_autofree: a block that is not USED is left alone.
Remove(t) ==
  /\ At(t, "remove") /\ lock = None
  /\ IF th[t].ptr \in used
     THEN used' = used \ {th[t].ptr} /\ Goto(t, "release") /\ UNCHANGED roots
     ELSE UNCHANGED used /\ Leave(t) /\ SetRoots(t, roots[t] \ {th[t].ptr})
  /\ UNCHANGED <<marked, heap, maker, links, alive, susp, lock, mlock, inProgress, due>>

ReleasePtr(t) ==
  /\ At(t, "release") /\ mlock = None
  /\ heap' = heap \ {th[t].ptr}
  /\ links' = {l \in links : l[1] # th[t].ptr}
  /\ SetRoots(t, roots[t] \ {th[t].ptr})
  /\ Leave(t)
  /\ UNCHANGED <<table, maker, alive, susp, lock, mlock, inProgress, due>>

-----------------------------------------------------------------------------
RuntimeStep(t) ==
  \/ LeaveMalloc(t) \/ RecordBlock(t)
  \/ CallSuspend(t) \/ Suspend(t)
  \/ EnterScan(t) \/ Snapshot(t) \/ LockTable(t) \/ ClearMarks(t) \/ MarkThread(t)
  \/ MarkGlobals(t) \/ CountUnmarked(t) \/ AllocItems(t) \/ Collect(t) \/ FreeItem(t)
  \/ Resume(t) \/ ClearFlag(t)
  \/ PtrSnapshot(t) \/ PtrScan(t) \/ PtrResume(t) \/ Remove(t) \/ ReleasePtr(t)

Next ==
  \/ Sleep
  \/ \E t \in Threads :
       RuntimeStep(t) \/ EnterMalloc(t) \/ \E b \in Blocks : Mutate(t, b) \/ Autofree(t, b)

Spec == Init /\ [][Next]_vars

\* The system schedules every thread that can run, and sleeping ends.  What the
\* program does is up to the program.
Fairness == WF_vars(Sleep) /\ \A t \in Threads : WF_vars(RuntimeStep(t))
LiveSpec == Spec /\ Fairness

-----------------------------------------------------------------------------
\* The type invariant: a thread is never resumed more often than it was suspended, and
\* no scan counts more blocks than there are.
TypeOK ==
  /\ used \subseteq Blocks /\ marked \subseteq Blocks /\ heap \subseteq Blocks
  /\ roots \in [Threads \cup {Globals} -> SUBSET Blocks]
  /\ maker \in [Blocks -> Threads \cup {None}]
  /\ links \subseteq Blocks \X Blocks
  /\ alive \subseteq Threads
  /\ susp \in [Threads -> Nat]
  /\ {lock, mlock} \subseteq Threads \cup {None}
  /\ inProgress \in BOOLEAN /\ due \in BOOLEAN
  /\ \A t \in Threads :
       /\ th[t].ptr \in Blocks \cup {None}
       /\ th[t].snap \subseteq Threads /\ th[t].todo \subseteq Threads
       /\ th[t].late \in BOOLEAN /\ th[t].checked \in BOOLEAN /\ th[t].n \in 0..Cardinality(Blocks)
       /\ th[t].items \subseteq Blocks

\* ct_autofree_gc_scan: no block on the list of what will be released is
\* referred to by a stack, a register or a global, whoever scanned and when.
CollectsUnreferenced ==
  \A t \in Threads : \A b \in th[t].items :
    \A h \in alive \cup {Globals} : b \notin roots[h]

\* A listed block is no longer recorded, exists, and is on one list only: it is
\* released once.
ItemsOnce ==
  \A t \in Threads :
    /\ th[t].items \subseteq heap \ used
    /\ \A u \in Threads \ {t} : th[u].items \cap th[t].items = {}
    /\ \A u \in Threads : th[u].pc = "release" => th[u].ptr \in heap \ (used \cup th[t].items)

\* A thread is suspended exactly as often as scans in progress have suspended it,
\* so that none stays suspended after them.
SuspendedByScans ==
  \A u \in Threads :
    susp[u] = Cardinality({t \in Threads \ {u} :
      /\ u \in th[t].snap /\ th[t].pc # "lock"
      /\ th[t].pc \in {"suspend", "kernel"} => u \notin th[t].todo})

\* __ct_autofree: the scan before a release is "a conservative safety check": when
\* it was made, no other thread and no global refers to the block that is released.
AutofreeUnreferenced ==
  \A t \in Threads : th[t].pc = "release" /\ th[t].checked =>
    \A h \in (alive \cup {Globals}) \ {t} : th[t].ptr \notin roots[h]

InScan(t) == th[t].pc \in {"snapshot", "lock", "suspend", "kernel", "mark", "count", "items",
                           "collect", "free", "clear", "ptr_snapshot", "ptr_found", "ptr_clear"}

\* A scan has a time budget: each scan ends, and the thread goes on.
ScanEnds == \A t \in Threads : InScan(t) ~> ~InScan(t)

\* CT_AUTOFREE_SCAN_START: the periodic thread goes on scanning.
PeriodicScans == []<>(th[Collector].pc \in {"snapshot", "clear"})
=============================================================================
