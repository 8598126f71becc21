# A TLA+ model of coretrace-compiler

`coretrace-compiler` is a Clang driver that instruments C and C++ programs, and
the runtime library those programs are linked with: it records every
allocation, reports double frees, leaks and accesses out of bounds, and releases
blocks that the program can no longer reach ("auto-free").  This directory holds
TLA+ modules that model it, configurations that check them with TLC, and
theorems checked by TLAPS.  Paths below are relative to the repository root.

## 1. Inventory of the system

### The runtime (`src/runtime`)

| component | state | operations | called by | hard part |
|---|---|---|---|---|
| **Allocation table** (`ct_runtime_alloc.cpp` 23-109, 1222-1579) | array of entries with open addressing, its size, the live counter, one spin lock | insert, remove, remove for autofree, lookup, lookup by containing address, growth | every allocation call, the bounds check, the collector, the leak report | released entries stay; slots are reused; growth; a full table |
| **Allocation calls** (1595-2895) | none of their own: table, shadow and real heap | `__ct_malloc`, `calloc`, `new`, `realloc`, `free`, `delete`, `mmap`, `munmap`, `sbrk`, `brk`, and the `__ct_autofree*` family | the instrumented program, any thread | each call is several critical sections with the real allocator between them |
| **Autofree collector** (168-1220, macOS) | configuration atomics, `in_progress`, last run times, marks in the entries | scan before one release, periodic scan, scan at startup | autofree, a thread of its own | suspended threads, time budget, a lock released between counting and collecting |
| **Shadow memory** (`ct_runtime_shadow.cpp`) | hash table of pages of shadow bytes, own lock | poison, unpoison, check an access | allocation calls, bounds check | granules of 8 bytes, partial tails, a full page table |
| **Bounds check** (`ct_runtime_bounds.cpp`) | none | `__ct_check_bounds` | instrumented accesses | lookup under one lock, shadow check later under another |
| **Feature flags, environment** (`ct_runtime_state.cpp`, `ct_runtime_env.cpp`) | atomic flags, a plain mirror of them, early-trace counter | set a feature, apply compiled configuration and environment | constructor and every call | configuration applied twice, flag set before it is applied |
| **Tracing, logging, backtrace** | thread-local current site | enter/exit messages | instrumented functions | output only |
| **Vtable diagnostics** (`ct_runtime_vtable.cpp`) | cached path | check and print a virtual call | instrumented virtual calls | reads loader data |
| **Windows runtime** (`windows/`) | as above, separately written | as above | as above | a function of its own releases each family of memory |

### The compiler (`src/compilerlib`, `src/cli`)

| component | state | operations | hard part |
|---|---|---|---|
| **Compile driver** (`compiler.cpp`) | compile context, diagnostics | build arguments, plan jobs, run cc1 and link jobs | which of five ways a job is run; diagnostics of partial failures |
| **Configuration** (`instrumentation/config.cpp`, `cli/`) | runtime configuration | parse `--ct-*` options | order and combination of options |
| **Allocation pass** (`instrumentation/alloc.cpp`) | call lists, escape states | escape analysis, rewriting of calls, insertion of autofree | a missed use releases a live block |
| **Other passes** | none | bounds, trace, vtable | order of the passes |
| **Toolchain, frontend action, emission** | none | find tools, add `optnone`, write files | mostly I/O |

Components meet in four places: the pass decides which runtime calls a program
makes; the options become globals of the instrumented module, which the runtime
reads when it sets its features; all runtime components share the allocation
table under `ct_alloc_lock`; allocation calls change the shadow after they have
left that lock.

What makes each component correct, in one line:

* table: a map from pointers to records; a search finds what was recorded, the
  counter is the number of live blocks, growth changes neither;
* allocation calls: a correct program sees no wrong report, loses no block and
  keeps every block it owns, whatever the threads interleave;
* collector: it collects nothing that is referred to, and goes on running;
* shadow and bounds: an access is reported exactly if it is outside a live block;
* flags: what the environment and the options say is what holds, at every moment;
* driver: every job runs once, in order, and every diagnostic is reported;
* pass: a block is released by the compiler only if it cannot be reached later.

`PROJECT.json` lists the hazards of this code one by one, each at its line, with
the properties that cover it or the reason why none does.

## 2. Plan

Done: the table and its ledger; the allocation calls; the collector; shadow,
bounds check, mmap, munmap and sbrk; options and feature flags; the compile
driver; the escape analysis; the Windows allocation calls.  Proved: the refinement
of the ledger by the table; the invariants and action properties of `AllocTable`,
`AllocRuntime`, `AutofreeGc`, `BoundsCheck`, `EscapeAnalysis`, `WindowsRuntime` and
`CompileDriver`; and what the liveness properties rest on beside scheduling.

Left: the vtable diagnostics' cached path, as a small module.

## 3. The modules

`AllocRuntime` extends `AllocLedger`, which `AllocTable` refines; `BoundsCheck`
extends `Shadow`; `WindowsRuntime` extends `FeatureFlags`, which with
`CompileDriver` extends `CtOptions`.  `MC*` modules instantiate the others for TLC.

### AllocTable

One module for `ct_alloc_table`.  All calls run under `ct_alloc_lock`, so each is
one action; the copying loop of `ct_alloc_grow_locked` is one action per old slot,
so that its intermediate states can be stated and proved about.

| TLA+ | code |
|---|---|
| `table`, `size`, `count` | `ct_alloc_table`, `ct_alloc_table_size`, `ct_alloc_count` |
| `Hash(p, n)` (constant) | `ct_hash_ptr`; any function into the table will do |
| `FirstMatch`, `FirstFree`, `FirstEmpty` | the probing loops, as the slot at which they stop |
| `InsertUpdate`, `InsertPlace`, `InsertRefuse`, `GrowStart` | the ways through `ct_table_insert` |
| `RehashEntry`, `GrowSwap` | `ct_alloc_grow_locked`, `ct_alloc_rehash_entry` |
| `Remove`, `RemoveAutofree`, `Lookup` | `ct_table_remove`, `ct_table_remove_autofree`, `ct_table_lookup` |
| `CollectUnmarked` | the second pass of `ct_autofree_gc_scan`, for any choice of marks |

`pc`, `newTable`, `cursor`, `newCount` and `pending` are the locals of a growing
insertion.  What is recorded of a block (two sizes, site, kind) is one value.  The
state `TOMB` is never written by the code, and so not reachable here.  The table has
room once it has grown, but that is a result (`GrowthTracks`) and not in the model:
`InsertRefuse` is also the return of 0 by a second attempt (which would grow the table
once more before it).

### AllocLedger

The abstract table: `live` maps a pointer to its record, `freed` and `autofreed`
hold the released pointers that are still remembered.  Recording a block may
forget released pointers, never a live one; a block is refused only when
`MinCapacity` others are live and no released pointer is remembered.  That last
clause matters to the callers: a refused block whose address was remembered as
released would have its first free called a double free.

### AllocRuntime

The allocation calls of several threads over `AllocLedger`.  `heap` is the real
allocator, which may return any free address; `poisoned` the shadow, per block;
`owner[p]` the thread whose program code may use the block at `p`; `th[t]` the
place and the locals of a thread inside a call; `holder` the thread between the
two table operations that `ct_realloc_impl` makes in one critical section.

| TLA+ | code |
|---|---|
| `Allocate`, `InsertBlock`, `TrackShadow` | the allocation functions: real call, table, shadow |
| `Hand` | end of an allocation function; `__ct_*_unreachable` continues with `__ct_autofree` |
| `Free`, `RemoveBlock`, `AfterRemove`, `PoisonBlock`, `ReleaseBlock` | `__ct_free` and the delete functions |
| `Autofree`, `AutoRemoveBlock`, `AutofreeDone` | `__ct_autofree*`, and the calls of them that `wrapAllocCalls` inserts |
| `Realloc*`, `ResizeInPlace`, `ResizeMove` | `ct_realloc_impl` |

The members of a family (`malloc`, `calloc`, `new`, ...; `free`, `delete`, ...) take
the same steps, so one action stands for that step in all of them; `map` points each
action at one or two of them.  Assumed: features ALLOC and AUTOFREE on (default),
SHADOW on, `CT_AUTOFREE_SCAN` off (default).  The program is correct: it frees what
it owns, once.  `realloc(NULL, n)` is `Allocate`; a failed allocation changes nothing
and is left out.  `Serial` names calls that the program keeps apart from all others.
Memory orders are not modelled: all shared state is reached through the spin lock.

### AutofreeGc

The collector and the program it looks at.  `roots[h]` is what the stack and
registers of thread `h`, or the globals, refer to; `links` are references inside
blocks; `susp[t]` counts suspensions; `mlock` is any lock of malloc, of the logger
or of the shadow.

| TLA+ | code |
|---|---|
| `ScanConfig` | how the `CT_AUTOFREE_SCAN*` variables are combined |
| `EnterScan` | `in_progress.exchange` and `ct_autofree_gc_should_run`, the early return of a scan not due included |
| `Snapshot`, `LockTable`, `CallSuspend`, `Suspend` | `task_threads`, the lock, `thread_suspend` |
| `ClearMarks`, `MarkThread`, `MarkGlobals`, `MarkRoots` | the marking, with its budget |
| `CountUnmarked`, `AllocItems`, `Collect`, `FreeItem` | the two passes over the table, with the lock released between them |
| `Resume`, `ClearFlag`, `Sleep` | the end of a scan, the periodic thread |
| `Autofree`, `PtrSnapshot`, `PtrScan`, `PtrResume`, `Remove`, `ReleasePtr` | `__ct_autofree` and `ct_autofree_scan_for_ptr` |

Every kind of root is scanned; the variables that switch kinds off are left out.
A suspended caller's own `thread_suspend` still takes effect, as in the kernel.

### Shadow and BoundsCheck

`Shadow` has the arithmetic of `ct_runtime_shadow.cpp` as operators on a map from
granules to bytes: poisoning, unpoisoning, what an allocation leaves, what a check
finds, pages made on demand and their limit.  `BoundsCheck` puts it under the
calls, address by address.  `table` is a map here; that the real table is one is
`ImplementsLedger`.

| TLA+ | code |
|---|---|
| `Malloc`, `Sbrk`, `Insert`, `Track` | `ct_malloc_impl`, `__ct_mmap`, `__ct_sbrk` with a positive increment: the system's call, the record, the shadow |
| `Release`, `Munmap`, `Remove`, `Poison`, `SystemRelease` | `__ct_free`; `__ct_munmap` of any pages of one mapping or several, which may fail |
| `Shrink`, `Remove`, `Poison` | `__ct_sbrk` with a negative increment: the break moves first, and the record at exactly the new break is removed, if there is one |
| `Brk` | `__ct_brk`, which moves the break up or down and records nothing |
| `Autofree`, `Autoremove`, `AutofreeTop`, `AutofreeGive` | `__ct_autofree`, `__ct_autofree_munmap`, `__ct_autofree_sbrk`; the last reads the break in one call and moves it in another, by the size of the record |
| `Access`, `CheckShadow`, `EndAccess` | `__ct_check_bounds`: the lookup under the lock of the table, the shadow later without it |

`blocks` is what exists, with what was asked for: `Cut` is what a release of a part
leaves of it.  The first part of a cut mapping keeps its address, and its record; the
rest (`part = "rest"`) has none, and neither has what brk takes.  `lost` is a history
variable: the bytes that were given back while the record that covers them stayed in
use, because the release began at another address or reached past it, or made no
call that knows of records.  `BreakApart` is an hypothesis about programs: their threads
do not use the break at once, the automatic releases of it included.  `Programs` chooses
the calls of a program.  Left out: MAP_FIXED over what exists, and releases of addresses
where there is no block, such as the unused result of `sbrk` with a negative increment.

### EscapeAnalysis

`wrapAllocCalls` on one function.  A function is the set of `uses` of its values;
paths through it are left out, as in the analysis itself, which looks at uses only.
`stack` has a frame for each call of `classifyPointerEscape`,
`classifyScalarEscape` and `classifyAllocaEscape` in progress, `cache` is
`valueCache` and `allocaCache`.  `Begin` decides what is unused, `Visit` takes one
use, `Finish` ends a classification, `Rewrite` places the releases and chooses the
replacements.  The uses of a value are visited in any order, which covers every
order LLVM may keep them in.

### CtOptions, FeatureFlags, WindowsRuntime

`CtOptions` is `extractRuntimeConfig`: an option turns features off and then on, and
a command line is a fold of its options.  `Globals` is `emitRuntimeConfigGlobals`.
`FeatureFlags` is the runtime's end of it: the constructor and the first call of any
thread each apply all settings, one `ct_set_enabled` after the other, each in two
steps (the atomic flags, then their mirror); `ShouldLog` and `Log` are the two halves
of the compare-and-exchange loop of the early trace.  `WindowsRuntime` adds the
allocation calls of `windows/ct_runtime_alloc.cpp`, which look at the features as
they are at that moment, and release each family of memory by a function of its own.

### CompileDriver

`compile`: `BuildArgs`, `BuildCompilation` (clang's plan, external), `Compile` (the way
that runs clang itself), `Validate`, then the cc1 jobs one by one in `RunInstrumented`
or `RunSingle`, and `Link`.  A diagnostic is who raised it and its level; `dc`,
`driver` and `cc1` are the three places the code keeps them in, `raised` is a history
of all of them.

## 4. The runs

| run | bounds | what it shows |
|---|---|---|
| `table` | 3 addresses, 2 of which start at the last slot and wrap around; 2 records; a table of 2 slots that may become 4 | searches, counter and growth; every reply is one the ledger allows; growth ends with the block tracked |
| `threads` | 3 threads, 3 addresses, all calls; a moving realloc and an unused allocation run apart | blocks in use are never released, poisoned or reported; the leak report is exact |
| `releases` | 2 threads, 2 addresses, capacity 1, with fairness | untracked blocks: every free releases, none is called a second one |
| `move_race` (violated) | 2 threads, 2 addresses, moving realloc | finding 1 |
| `gc_scan` | startup, periodic and per-pointer scans; 3 threads, 2 blocks; failing system calls and budgets | what is collected is referred to by no root; each block is released once; nobody stays suspended |
| `gc_live` | 2 threads, 2 blocks, references inside blocks, failures; locks are per thread | each scan ends, the periodic thread goes on scanning |
| `gc_locks` (violated) | 2 threads, 1 block, shared locks | finding 2 |
| `access` | 10 addresses, granules of 2, pages of 2 granules; 2 threads; malloc and mmap of up to 3 bytes, or a break that moves by 2 and 4; without and with the shadow | no false report and no missed one, but for memory given back in a way that leaves its record |
| `escape` | 2 allocations, of which one of 6 kinds called in 3 ways; a derived pointer, an integer, 2 variables; every set of 3 uses | what is released is out of reach; what stays is released; by the right function; the analysis ends |
| `escape_copy` (violated) | 2 mallocs, 2 variables, copies between them | finding 3 |
| `compile` | 0 to 2 sources and an assembly file, 9 ways to say what is made, 2 of 7 options | what is instrumented, run, reported and called a success |
| `windows` | 2 command lines, 3 environments, 2 threads, one address, 3 families of memory | features are as asked; the leak report is exact; families match |

Why the bounds are enough to meet the interesting cases.

* `table`: 2 slots are full with two blocks, so reuse, growth and refusal need few
  steps; with 3 addresses, two of which collide in the last slot, paths of three slots
  wrap around, with live, released and reused slots in every arrangement.  A fourth
  address adds no kind of step, and the theorems of section 6 are about any number.
* `threads`, `releases`: each race of `AllocRuntime` known to us needs two threads and
  one address that both get; the third thread is a bystander whose block must survive.
* `gc_scan`: a scan by the periodic thread, one by the constructor and one before a
  release may overlap only in three threads.  Two blocks suffice for marks to differ,
  and for lists of two scans to be compared.  `gc_live` has two threads: with a third
  that scans before a release, two scans may suspend each other, see below.
* `access`: a block of 3 bytes has a whole granule, a partial one, and neighbours after
  it; a mapping of two granules can be unmapped by its first half, its second half, or
  with a neighbour.  The break has three granules to move in, enough for a shrink to end
  in the middle of a block, at the start of one, or below two, and for blocks over
  records that others left.  An access of 2 crosses each border; 4 pages hold all there
  is.  A program uses malloc and mmap, or the break: the two lie in different places, and
  share only the table, where records of different addresses do not meet.  Every exemption
  that the two properties make is needed: without any one of them TLC finds the property
  violated.
* `escape`: three uses make every chain of two steps and its end, every loop of two
  values, and two sites meeting in one value in either order of analysis.
* `compile`: two sources are the least with a "middle"; two options, one that overrides
  the other.  `InstrumentsAll` judges the outputs of cc1 jobs; an assembly file is
  assembled and linked as it is, no pass sees it.
* `windows`: two threads apply the settings at once; with one address each block meets
  the record that the one before it left.  Moving reallocs are off (see finding 1).
  `FlagsAsAsked` judges the features once all settings asked for have been applied; until
  then they may be on although the environment turns them off.

Deadlock checking is off where the model really stops: in `compile`, `escape` and
`escape_copy` when the work is done, in `gc_scan` and `gc_locks` when threads have
suspended each other, or one that holds a lock.  Symmetry is used for threads, blocks,
addresses and records that a module treats alike, and never with a liveness property.

Every property has a mutant, a small wrong version of one definition, defined next to it
and marked "(a faulty ...)", with which its run fails.

### Fairness

* `AllocRuntime!FairSpec`: a thread inside a call goes on.  This assumes that the
  system schedules every thread, and that no thread spins on `ct_alloc_lock`
  forever while others take and release it; the spin lock itself promises no such
  thing.  Nothing is assumed of the program: it need not make another call.
* `AutofreeGc!LiveSpec`: a thread that can run does, and sleeping for a period ends.
  A suspended thread is not scheduled.
* `EscapeAnalysis!Spec`: the compiler, which is one thread, goes on.

## 5. Findings

1. **realloc releases before it forgets** (run `move_race`).  The real `realloc` has
   released the old address before its record is removed
   (`src/runtime/ct_runtime_alloc.cpp` 1870, 1887); a second thread that gets the
   address loses its record, and its only `free` is reported as a double free and
   skipped.  In the same window the shadow of its block may be poisoned (line 1912):
   under the constants of `move_race` TLC finds `OwnedUnpoisoned` violated as well.  The
   Windows runtime has the same order in `ct_record_realloc`.
2. **A scan needs what the threads it suspended may hold** (run `gc_locks`).
   `ct_autofree_gc_scan` suspends the other threads wherever they are, and then calls
   `std::malloc`, the logger and `free`.  A thread suspended inside malloc holds its lock
   for ever, and so does the scan, although README.md:146 promises a time budget per
   scan.
3. **A pointer copied from variable to variable counts as local** (run `escape_copy`).
   `classifyAllocaEscape` does not follow a loaded pointer into another variable
   (`src/compilerlib/instrumentation/alloc.cpp` 648), so `p = malloc(n); q = p; return q`
   at `-O0` with `--ct-autofree` releases the block before it is returned.

Observed while modelling, without a run of their own:

* An unused allocation is released by its `__ct_*_unreachable` call and once more by the
  `__ct_autofree` after it (`alloc.cpp` 1923).  With `alloc_unused` not in `Serial`, TLC
  finds `OwnedAllocated` violated: the address may be another thread's block by then.
* Two threads that scan before a release, or one of them and the periodic scan, may
  suspend each other: with `autofree` among the features of `gc_live`, TLC finds
  `ScanEnds` violated.  `CollectsUnreferenced` needs `spawn` off (a thread made after the
  snapshot is not scanned), `AutofreeUnreferenced` also `link` off (blocks are not
  scanned).  A first periodic scan that is not due (`DueAtStart = FALSE`, an uptime below
  the period) leaves `ct_autofree_scan_in_progress` set, after which no scan is made.
* A page table of the shadow with no room (`MaxPages = 1`) drops writes, and an access to
  a block in use is reported.  sbrk by an unaligned increment lets two blocks share a
  granule: with `Increments = {1, 2}` TLC finds `NoFalseReport` and `ReportsInvalid`
  violated.
* A munmap of a part of a mapping, or one that fails, leaves memory in use poisoned.  A
  munmap of a later part finds no record at its address and poisons nothing: what is gone
  may be accessed without a report, and when the first part is released, the whole size
  of the record is poisoned, with whatever block has the addresses by then.  The same
  holds of a shrink of the break that does not end at the start of a block, and of every
  one by brk; `__ct_autofree_sbrk` then gives back the size of the record, and with it what
  another block has above.  `lost` keeps these apart in the two properties.
* `__ct_autofree_sbrk` reads the break and moves it in two calls, and sbrk moves it before
  the record is made or removed.  With `BreakApart = FALSE` TLC finds `NoFalseReport` and
  `ReportsInvalid` violated: another thread's block is given back, or loses its record.
  The compiler adds these calls, so that a program may use the break from two threads
  without saying so.  `sbrk(0)` counts as an allocation as well (`alloc.cpp` 1645): the
  block that a later sbrk makes at that address is released with it.
* Without the shadow an access from a block that was released automatically passes
  (`ct_runtime_bounds.cpp` 92 reports `FREED` only), unlike one from a freed block.
* An unused result of an `invoke` is released before the `invoke`; the variable that
  `posix_memalign` sets always counts as escaped.
* An error of the driver, such as an unknown argument, does not stop the jobs with
  `--instrument`, `--ct-optnone` or in memory.  The one consumer of diagnostics goes on
  counting it, so that every cc1 job runs and then fails; a plan without one is linked,
  and `compile` reports success with the error among the diagnostics.  Diagnostics of a
  cc1 job's arguments are cleared before it runs: an error among them makes the job fail
  with an empty report in memory, or with "compilation failed" and nothing else.
  Instrumenting into a file, such a failure reports only what earlier jobs said.  The
  warnings of a job whose output cannot be written are lost as well.  In memory only LLVM IR is instrumented, and
  `-emit-llvm` without `-S` or `-c` plans a link and fails.
* On Windows, aligned memory without a record is released by `free`; `_aligned_free` is
  what it needs.

## 6. What is proved

All for every value of the constants that their ASSUMEs allow (any number of threads,
addresses, blocks, values, sources, options), and without a bound on the length of a
behaviour.

| theorem | states | assumes |
|---|---|---|
| `AllocTableProofs!TypeCorrect`, `PathsAlwaysOK`, `CountAlwaysExact`, `GrowthAlwaysOK`, `CopyAlwaysOK` | `TypeOK`, `PathsOK`, `CountExact`, `GrowsOnlyWhenFull`, `CopyOK` | the ASSUMEs of `AllocTable`: any hash function, sizes need not be powers of two |
| `AllocTableProofs!GrowthAlwaysKeepsRecords` | `GrowthKeepsRecords` | the same |
| `AllocTableProofs!TableImplementsLedger`, `GrowthAlwaysTracks` | `ImplementsLedger`, `GrowthTracks` | the same |
| `AllocRuntimeProofs!TypeCorrect` | `TypeOK` | the ASSUMEs of `AllocRuntime` |
| `AllocRuntimeProofs!OwnedAlwaysAllocated`, `OwnedNeverPoisoned`, `NeverFalseDoubleFree` | `OwnedAllocated`, `OwnedUnpoisoned`, `NoFalseDoubleFree` | `SerialAssumed` |
| `AllocRuntimeProofs!LeakReportAlwaysExact`, `ReleasedAlwaysPoisoned` | `LeakReportExact`, `ReleasedPoisoned` | `SerialAssumed`, `RoomAssumed` |
| `AutofreeGcProofs!TypeCorrect`, `SuspensionsExact`, `ReleasedOnce` | `TypeOK`, `SuspendedByScans`, `ItemsOnce` | the ASSUME of `AutofreeGc` |
| `AutofreeGcProofs!CollectsSafely` | `CollectsUnreferenced` | no `spawn` |
| `AutofreeGcProofs!AutofreeSafely` | `AutofreeUnreferenced` | no `spawn`, no `link` |
| `AutofreeGcProofs!FlagAlwaysTrue` | the scanning flag is set only while a thread makes a scan | `DueAtStart` |
| `AutofreeGcProofs!ScansAlone` | one thread at a time looks for leaks; only it keeps the lock of the table | the ASSUME of `AutofreeGc` |
| `AutofreeGcProofs!ScansNeverBlocked` | a thread that scans is not suspended, and the lock it needs next is free | no `autofree`, `~ SharedLocks` |
| `AutofreeGcProofs!ScanAlwaysShrinks` | each step of a scan ends it or leaves less of it, and no other thread changes that | the ASSUME of `AutofreeGc` |
| `AllocRuntimeProofs!CallAlwaysShrinks` | each step of a call leaves fewer steps of it, and no other thread changes that | the ASSUMEs of `AllocRuntime` |
| `AllocRuntimeProofs!FreeAlwaysReleases` | a call that frees a block goes on until it has released it | `SerialAssumed` |
| `BoundsCheckProofs!TypeCorrect` | `TypeOK` | the ASSUMEs of `Shadow` and `BoundsCheck` |
| `BoundsCheckProofs!Soundness`, `InvalidReported` | what the shadow lets pass is asked for of a block, about to be poisoned, or `lost`; `ReportsInvalid` | `BreakApart`, `IncrementsAligned` |
| `BoundsCheckProofs!ReportsTrue` | `NoFalseReport` | `BreakApart`, `IncrementsAligned`, `RoomAssumed` |
| `EscapeAnalysisProofs!AnalysisAlwaysShrinks` | each step of a classification lessens a bounded measure of what is left of it | the ASSUME of `EscapeAnalysis` |
| `EscapeAnalysisProofs!TypeCorrect`, `LocalReleased`, `ReleaseAlwaysMatches` | `TypeOK`, `ReleasesLocal`, `ReleaseMatches` | the ASSUME of `EscapeAnalysis` |
| `EscapeAnalysisProofs!OnlyLocalReleased` | `ReleasesOnlyLocal` | `~ Copies` |
| `CtOptionsProofs!ExtractIsLastSays` | what an option list of any length amounts to | the options are `CtOptions` |
| `WindowsRuntimeProofs!TypeCorrect`, `FlagsAlwaysAsAsked`, `FamilyAlwaysMatches` | `TypeOK`, `FlagsAsAsked`, `FamilyMatches` | the ASSUMEs of `FeatureFlags` and `WindowsRuntime` |
| `WindowsRuntimeProofs!LeakReportAlwaysExact` | `LeakReportExact` | `~ Moves`, or one thread |
| `CompileDriverProofs!TypeCorrect`, `OptnoneAlwaysForced`, `InstrumentsAlways`, `SuccessAlwaysComplete`, `ReportsAlways` | `TypeOK`, `OptnoneForced`, `InstrumentsAll`, `SuccessComplete`, `ReportsAll` | the ASSUME of `CompileDriver` |

But for the `RoomAssumed` of `AllocRuntime`, no hypothesis can be dropped; TLC has a
counterexample to the property without it.
`SerialAssumed` says that a moving realloc and an unused allocation are among the calls
kept apart from others: see finding 1 and the first observation after the findings.  The
Windows runtime has the same order in realloc, hence `~ Moves` or one thread.  `spawn` and
`link` are the observation about scans, `~ Copies` is finding 3.  `~ SharedLocks` is
finding 2; two scans for a pointer may suspend each other, hence no `autofree`; and a
first scan that finds it is not due leaves the flag set, hence `DueAtStart`.  `RoomAssumed`
of `AllocRuntime` says that there are finitely many addresses, so that their number can be
compared to the capacity.  `BreakApart`: threads do not use the break at once.
`IncrementsAligned`: an sbrk by a part of a granule lets two
blocks share one, and the shadow cannot tell them apart, so a bad access passes and a good
one is reported.  `RoomAssumed` of `BoundsCheck`: the page table has room for all of the
memory; without it an unpoisoning may be dropped (with one page, a run of `access` reports
an access inside a block).

**AllocTable.**  The inductive invariant is the conjunction of `TypeOK`, `PathsOK`,
`GrowsOnlyWhenFull`, `CopyOK` and `CountExact`; each part needs the others.  `PathsOK`
alone is not inductive: the swap at the end of a growth replaces the table by the
copy, whose paths are `CopyOK`'s.  `CopyOK` in turn is kept by a step of the loop only
because the slot copied next is live and its pointer is not in the copy yet, which
follows from `GrowsOnlyWhenFull` and `PathsOK` (no two live records of one pointer).
That an insertion keeps `LiveFirst` is the main lemma: a new record goes into the
first slot of its path that is not live, and so before every stale record of the
same pointer.  `GrowthTracks` rests on one more invariant: a table that has just grown has
a slot that is not in use, as it has twice the slots of the one it was copied from.

**The refinement.**  `RInv` adds that every slot in use has a record and that the table
never shrinks below `InitSize`.  Each operation maps to the ledger's action of the same
name: an insertion may overwrite a released record, which is why `Record` may forget
some; it refuses only when every slot is live, which by pigeonhole over the slots gives
`MinCapacity` live pointers; the loop of a growth stutters, and `CopyOK` makes the swap
stutter too.

**AllocRuntime.**  The inductive invariant `IInv` is `TypeOK`, `BlocksOK` (a block somebody
owns is allocated, accessible, and either live in the ledger or not remembered as
released), `CallsApart` (two calls are about different blocks, and a call kept apart is
alone) and `CallOK` of every call in progress (among others, nobody owns the block it is
about).  `CallsApart` is the heart: it
is what a release that precedes the removal of the record breaks, and `SerialAssumed`
rescues.

**What is left behind.**  `LeakReportExact` and `ReleasedPoisoned` speak of pointers no call
is about, so `LInv` says of those that they are `Settled`, and of a call in progress
(`PhaseOK`) what will make its block settled when it ends.

**AutofreeGc.**  Everything rests on who stands still.  `SuspensionsExact`: a thread is
suspended as often as scans in progress hold it, so a thread that is in a scan and runs
is held by none, and all others of its snapshot stand still.  From there, phase by phase,
what has been scanned and is not marked is referred to by no root and by no marked block
whose links were followed; at the end of the marking that is `CollectsUnreferenced` for
the list of the scan.  With `spawn`, a thread made after the snapshot runs and carries
references past the scan.  `ItemsOnce` holds because a record is taken out of the table
under the lock in the step that puts the block on a list.

**BoundsCheck.**  What there is comes first.  `TypeInv` says that blocks do not overlap and
that those of the break lie below it; with whatever munmap, sbrk or brk cut off, it is
inductive by itself.  `CallsInv` says what a call relies on from its first step to its
last: every byte it takes belongs to its thread, or it has just moved the break and no
other thread uses it (here `BreakApart` enters).  `RecordsInv` relates the table to the
blocks: `Known`, a block that begins where it was made has its record, which is no smaller
than what is left of it; `Explained`, every byte that a record in use covers is of the
block at that address, or `lost`, or the break has just left it and the record is about to
be removed.  So a release poisons its own block and what was lost, and nothing else: that
is the step at which a stale record would do harm, and `lost` is exactly what has to be
taken out.  `Aligned` says that blocks start and end with a granule.

Then the shadow.  A granule's byte says how many of its bytes may be accessed, so each of
`PoisonBytes` and `TrackBytes` is first described byte by byte (which addresses are
accessible after it, in terms of those before it), by cases on whole and partial granules
and on pages that exist and that do not.  `SoundInv` says that what is accessible is a
requested byte of a block, or lost, or about to be poisoned by the call of sbrk that gave
it back, and (`Quiet`) that a release has made its block inaccessible before the system
has it.  `CompleteInv` says that the requested bytes of what has a record are accessible,
between the end of the allocation and the start of the release, but in lost granules.  An
access is compared with the shadow if there is one and else with the record, so
`InvalidReported` needs `SoundInv` and `Explained`, and `ReportsTrue` `CompleteInv` and
`Known`.  A hypothesis about the room in the page table is needed for the second only: a
page with no room is not accessible.

**What liveness rests on.**  A liveness property needs that something can be done, that it
leads on, and that it is done; only the last is scheduling, and is left to the runs.  For
a scan, `OneScan` (one thread at a time looks for leaks, with the flag set, and nobody else
keeps the lock of the table) gives `ScansNeverBlocked`; the phases to come and, within one,
the threads or blocks left are a measure that `ScanAlwaysShrinks`.  For a call of the
runtime the measure is its place in the code, and `FreeAlwaysReleases` says that it does
not end, nor is its record taken away by others, before the block is released.  For the
escape analysis it is, from the bottom of the stack, the number of uses that each frame has
still to look at or may still meet: at most `2 * |Values \ Slots|` numbers of at most
`MaxUses + 1`, of which a step lessens one and may change only those above it.

**EscapeAnalysis.**  A frame on the stack stands for a question, and the cache for its
answers.  `Framed` is the shape of the frames: the uses a frame has pending are uses of
values it met, and only variables are in progress more than once, never right after one
another, which gives the bound on the depth of the recursion in `TypeOK`.  `LocalInv`
says why an answer is right although the analysis was interrupted by others: every value
found local lies in a set that is closed under uses and in which nothing escapes, and
each use of a value of a frame is pending, or stays among the values met, or is local,
or is what the next frame is about.  Such a set holds all that `Spread` (the
specification's idea of where a pointer may go, a recursive function) reaches, by an
induction on the number of its steps.  A copy from variable to variable leaves the set
without being seen, hence `~ Copies`.

**Options.**  `Extract` is a fold, which the library defines by recursion over the set of
the indexes.  `CtOptionsProofs` gives it a closed form, "on by default or turned on, and
not turned off later", by induction on the number of options.  The library's induction
theorems cannot be cited, as they take an operator; the induction here is over a set of
numbers, from the fact that < is well founded.

**WindowsRuntime.**  `FlagsAsAsked` rests on `Progress`: each setting that was asked for is
still on the list of a thread, or shows; none undoes another, so it does not matter that
late and early threads apply them twice.  `FamilyMatches` rests on `KindInv`: the kind of
a record is that of its block, and so is what a call in progress knows of it.
`LeakReportExact` rests on `ReportInv`: a block that nobody owns is held by a call, and a
free block has no used record.  A realloc that moved drops its old record when the block
may already be another's, which is where the last part breaks.

**CompileDriver.**  `Inv` says for each phase what exists already: no output before the jobs,
one per cc1 job done, no other job before the last of them, and in which of the three
lists the diagnostics are.  `MadeInv` and `LinkInv` relate the outputs and the plan to the
configuration, which `ExtractIsLastSays` relates to the options.  `AccountInv` says that
`driver` followed by `cc1` accounts for all that was raised: the kept diagnostics, each at
its rank.  It is kept piece by piece, a lost one leaving every rank as it is and a kept
one taking the next.

The proofs are of the same definitions the runs use.  Every property in the second column
that has a name is checked by a run as well.  What is only described there is stated in
the proof modules; like each inductive invariant, it was checked by TLC before it was
proved.

## 7. Only model-checked

* Liveness: `FreeReleases`, `ScanEnds`, `PeriodicScans`, `Decides`.  Fairness and ENABLED
  are out of the prover's reach here.  What the four rest on beside scheduling is proved
  (section 6): that steps make progress, and for scans that nothing blocks them.  That a
  step is possible wherever something is left to do is what the runs add.

## 8. Not modelled

* The vtable diagnostics: they read loader tables and type information of a foreign
  ABI and print; their only state is a cached path and a set of warnings given.
* The text of messages, the logger, backtraces and demangling.
* The passes for traces, bounds and virtual calls: each inserts one call per place and
  keeps no state; which run, and in which order, is in `CompileDriver`.
* Discovery of tools and files (`toolchain.cpp`), code emission, LLVM's own passes.
* Of the allocation pass, the translation of arguments and the replacement of releases
  one for one; control flow inside the analysed function.
* Of the collector, the red zone and vector registers, which depend on generated code;
  the switches for single kinds of roots.
* Programs that free twice: what they are told depends on whether the slot was reused.
* The command line front end, build files, CI and test scripts.
