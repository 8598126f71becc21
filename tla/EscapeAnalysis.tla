--------------------------- MODULE EscapeAnalysis ---------------------------
(***************************************************************************)
(* wrapAllocCalls of src/compilerlib/instrumentation/alloc.cpp, for the    *)
(* allocations of one function: which of them are not used, which do not   *)
(* outlive the function, and what calls the pass puts in.                  *)
(* A function is the uses of its values: the results of allocations        *)
(* (Sites), pointers computed from pointers, by casts, GEPs, phi, select   *)
(* (Derived), integers, and local variables (Slots, alloca).  A use of a   *)
(* slot is a use of what is loaded from it, but for "leak", that of its    *)
(* address.  Uses that tell nothing (comparisons, branches, debug and      *)
(* lifetime markers, calls that do not capture) are left out.  The uses of *)
(* a value are examined in any order.                                      *)
(***************************************************************************)
EXTENDS Naturals, Sequences, FiniteSets

CONSTANTS
  Sites, Derived, Ints, Slots, Nothing,
  MaxUses,  \* of all values together
  Copies,   \* may the function copy a pointer from a slot into a slot?
  Calls     \* Calls[c]: what may allocate c, and how it may be called

Values == Sites \cup Derived \cup Ints \cup Slots
Pointers == Sites \cup Derived
States == {"ReachableLocal", "ReachableGlobal", "EscapedReturn", "EscapedCall", "EscapedStore"}
AllocKinds == {"malloc", "calloc", "realloc", "aligned_alloc", "posix_memalign", "mmap", "sbrk",
               "new", "new_array", "new_nothrow", "new_array_nothrow"}
\* A wrapper is a function that does nothing but return an allocation.
Forms == {"call", "invoke", "wrapped"}

ASSUME EscapeAssumption ==
  /\ Copies \in BOOLEAN /\ MaxUses \in Nat
  /\ IsFiniteSet(Values)
  /\ Sites \cap Derived = {} /\ Ints \cap Pointers = {} /\ Slots \cap (Pointers \cup Ints) = {}
  /\ Calls \in [Sites -> SUBSET [kind : AllocKinds, form : Forms]]
  /\ Nothing \notin Values \cup States \cup {"Unreachable"}

VARIABLES
  uses,     \* the function: records of AllUses
  calls,    \* calls[c]: what allocates c, and how it is called
  stack,    \* the frames of classifyPointerEscape, -ScalarEscape, -AllocaEscape
  cache,    \* valueCache and allocaCache
  verdict,  \* what was found of each site
  release   \* the automatic release put in for each site

vars == <<uses, calls, stack, cache, verdict, release>>

Use(of, kinds, to) == [of : of, kind : kinds, to : to]
AllUses ==
  Use(Pointers \cup Slots, {"flow"}, Derived) \cup Use(Pointers \cup Slots, {"int"}, Ints)
  \cup Use(Pointers \cup Ints, {"put"}, Slots) \cup Use(Ints, {"ptr"}, Derived)
  \cup (IF Copies THEN Use(Slots, {"put"}, Slots) ELSE {})
  \cup Use(Pointers \cup Slots \cup Ints, {"return", "call", "global", "memory"}, {Nothing})
  \cup Use(Pointers \cup Slots, {"free", "read", "write"}, {Nothing})
  \cup Use(Slots, {"leak"}, {Nothing})

Init ==
  /\ uses = {}
  /\ calls = [c \in Sites |-> Nothing]
  /\ stack = << >>
  /\ cache = [v \in Values |-> Nothing]
  /\ verdict = [c \in Sites |-> Nothing]
  /\ release = [c \in Sites |-> Nothing]

\* The function is written before it is compiled.
Known == Sites \cup {u.to : u \in uses}
Write(u) ==
  /\ Cardinality(uses) < MaxUses /\ stack = << >> /\ \A c \in Sites : verdict[c] = Nothing
  /\ u \notin uses /\ u.of \in Known
  /\ uses' = uses \cup {u}
  /\ UNCHANGED <<calls, stack, cache, verdict, release>>

UsesOf(v) == {u \in uses : u.of = v}

-----------------------------------------------------------------------------
(* Which allocations are not used                                          *)

\* isAllocaDead: only stored to.
Dead(a) == UsesOf(a) = {}

\* isEffectivelyUnused: only stored to dead slots.
EffectivelyUnused(c) == \A u \in UsesOf(c) : u.kind = "put" /\ Dead(u.to)

\* The result of realloc is not asked after, posix_memalign has none; nor does
\* classifyReturnAllocKind know them as what a wrapper returns.
Instant(c) == calls'[c].kind \notin {"realloc", "posix_memalign"}

Decide(c, v) == verdict' = [verdict EXCEPT ![c] = v]

\* The collection of the calls, and of the unused ones among them.  The variable
\* that posix_memalign sets is used by the call itself, so its address escapes;
\* the call of a wrapper is no allocation of this function.
Begin(c) ==
  /\ verdict[c] = Nothing /\ stack = << >>
  /\ \E call \in Calls[c] : calls' = [calls EXCEPT ![c] = call]
  /\ IF Instant(c) /\ EffectivelyUnused(c)
     THEN Decide(c, "Unreachable") /\ UNCHANGED stack
     ELSE IF calls'[c].form = "wrapped" \/ calls'[c].kind = "posix_memalign"
     THEN Decide(c, "EscapedCall") /\ UNCHANGED stack
     ELSE stack' = <<[val |-> c, pending |-> UsesOf(c), seen |-> {c}]>> /\ UNCHANGED verdict
  /\ UNCHANGED <<uses, cache, release>>

-----------------------------------------------------------------------------
(* The classification of a use                                             *)

\* A frame ends a non-local classification for all frames: promoteState ranks each
\* escape above ReachableLocal.
Escape(e) ==
  /\ cache' = [v \in Values |->
       IF \E i \in DOMAIN stack : stack[i].val = v THEN e ELSE cache[v]]
  /\ Decide(stack[1].val, e)
  /\ stack' = << >>

Rest(u) == [stack EXCEPT ![Len(stack)].pending = @ \ {u}]
Skip(u) == stack' = Rest(u) /\ UNCHANGED <<cache, verdict>>

\* (a faulty Follow: a value met again is examined again)
FollowAgain(u) ==
  /\ stack' = [stack EXCEPT ![Len(stack)].pending = (@ \ {u}) \cup UsesOf(u.to),
                             ![Len(stack)].seen = @ \cup {u.to}]
  /\ UNCHANGED <<cache, verdict>>

\* The worklist of a frame.
Follow(u) ==
  /\ stack' = [stack EXCEPT
       ![Len(stack)].pending = (@ \ {u}) \cup IF u.to \in stack[Len(stack)].seen THEN {} ELSE UsesOf(u.to),
       ![Len(stack)].seen = @ \cup {u.to}]
  /\ UNCHANGED <<cache, verdict>>

\* (a faulty Descend: a local value that was classified before counts as in progress)
DescendOnce(u) ==
  LET v == u.to
  IN IF cache[v] # Nothing THEN Escape("EscapedCall")
     ELSE IF v \notin Slots /\ \E i \in DOMAIN stack : stack[i].val = v THEN Escape("EscapedCall")
     ELSE /\ stack' = Append(Rest(u), [val |-> v, pending |-> UsesOf(v), seen |-> {v}])
          /\ UNCHANGED <<cache, verdict>>

\* (a faulty Descend: nothing is noted of the values in progress)
DescendForever(u) ==
  IF cache[u.to] = "ReachableLocal" THEN Skip(u)
  ELSE IF cache[u.to] # Nothing THEN Escape(cache[u.to])
  ELSE /\ stack' = Append(Rest(u), [val |-> u.to, pending |-> UsesOf(u.to), seen |-> {u.to}])
       /\ UNCHANGED <<cache, verdict>>

\* The call of a classification for u.to.  A value in progress counts as escaped; no
\* such guard is kept for slots.
Descend(u) ==
  LET v == u.to
  IN IF cache[v] = "ReachableLocal" THEN Skip(u)
     ELSE IF cache[v] # Nothing THEN Escape(cache[v])
     ELSE IF v \notin Slots /\ \E i \in DOMAIN stack : stack[i].val = v THEN Escape("EscapedCall")
     ELSE /\ stack' = Append(Rest(u), [val |-> v, pending |-> UsesOf(v), seen |-> {v}])
          /\ UNCHANGED <<cache, verdict>>

EscapeBy(u) == Escape(CASE u.kind = "return" -> "EscapedReturn"
                        [] u.kind \in {"call", "free", "read", "leak"} -> "EscapedCall"
                        [] u.kind \in {"memory", "write", "put"} -> "EscapedStore"
                        [] u.kind = "global" -> "ReachableGlobal")

\* (a faulty PointerUse: memory that is not a global is taken for local)
PointerUseMemory(u) ==
  CASE u.kind = "flow" -> Follow(u)
    [] u.kind \in {"int", "put"} -> Descend(u)
    [] u.kind \in {"write", "memory"} -> Skip(u)
    [] OTHER -> EscapeBy(u)

\* classifyPointerEscape: storing into the block is harmless, reading it is unknown.
PointerUse(u) ==
  CASE u.kind = "flow" -> Follow(u)
    [] u.kind \in {"int", "put"} -> Descend(u)
    [] u.kind = "write" -> Skip(u)
    [] OTHER -> EscapeBy(u)

\* classifyAllocaEscape: a loaded pointer that is stored into a slot has no more uses
\* to look at; stores elsewhere, through it too, escape.
SlotUse(u) ==
  CASE u.kind \in {"flow", "int"} -> Descend(u)
    [] u.kind \in {"put", "read"} -> Skip(u)
    [] u.kind = "global" -> Escape("EscapedStore")
    [] OTHER -> EscapeBy(u)

\* classifyScalarEscape: only a dead slot may take an integer.
IntUse(u) ==
  CASE u.kind = "ptr" -> Descend(u)
    [] u.kind = "put" /\ Dead(u.to) -> Skip(u)
    [] OTHER -> EscapeBy(u)

\* One more use of the value that is being classified.
Visit ==
  /\ stack # << >>
  /\ LET frame == stack[Len(stack)]
     IN \E u \in frame.pending :
          IF frame.val \in Slots THEN SlotUse(u)
          ELSE IF frame.val \in Ints THEN IntUse(u) ELSE PointerUse(u)
  /\ UNCHANGED <<uses, calls, release>>

\* No use is left: the value stays in the function.
Finish ==
  /\ stack # << >> /\ stack[Len(stack)].pending = {}
  /\ LET v == stack[Len(stack)].val
     IN /\ cache' = [cache EXCEPT ![v] = "ReachableLocal"]
        /\ IF Len(stack) = 1 THEN Decide(v, "ReachableLocal") ELSE UNCHANGED verdict
  /\ stack' = SubSeq(stack, 1, Len(stack) - 1)
  /\ UNCHANGED <<uses, calls, release>>

-----------------------------------------------------------------------------
(* The calls the pass puts in                                              *)

\* (a faulty ReleaseOf: what new[] made is released by delete)
ReleaseOfScalar(kind) ==
  CASE kind \in {"new_array", "new_array_nothrow", "new", "new_nothrow"} -> "__ct_autofree_delete"
    [] kind = "mmap" -> "__ct_autofree_munmap"
    [] kind = "sbrk" -> "__ct_autofree_sbrk"
    [] OTHER -> "__ct_autofree"

ReleaseOf(kind) ==
  CASE kind \in {"new_array", "new_array_nothrow"} -> "__ct_autofree_delete_array"
    [] kind \in {"new", "new_nothrow"} -> "__ct_autofree_delete"
    [] kind = "mmap" -> "__ct_autofree_munmap"
    [] kind = "sbrk" -> "__ct_autofree_sbrk"
    [] OTHER -> "__ct_autofree"

\* Unused: next to the call, which for an invoke, a terminator, is before it, and
\* which is left out for an invoke of a wrapper.  Local: at every return.
Place(c) ==
  CASE verdict[c] = "ReachableLocal" -> "returns"
    [] verdict[c] = "Unreachable" -> IF calls[c].form = "invoke" THEN "before" ELSE "after"
    [] OTHER -> "nowhere"

\* A call that is not used and has an _unreachable form becomes that one.
HasUnreachableForm == AllocKinds \ {"realloc", "aligned_alloc", "posix_memalign", "mmap", "sbrk"}
Target(c) ==
  IF verdict[c] = "Unreachable" /\ calls[c].form # "wrapped" /\ calls[c].kind \in HasUnreachableForm
  THEN "__ct_unreachable" ELSE "__ct"

\* The loops over the calls of each kind, and the returns.
Rewrite ==
  /\ \A c \in Sites : verdict[c] # Nothing /\ release[c] = Nothing
  /\ release' = [c \in Sites |->
       [place |-> Place(c), call |-> ReleaseOf(calls[c].kind), target |-> Target(c)]]
  /\ UNCHANGED <<uses, calls, stack, cache, verdict>>

Compile == Visit \/ Finish \/ Rewrite \/ \E c \in Sites : Begin(c)
Next == (\E u \in AllUses : Write(u)) \/ Compile

\* The compiler goes on until the function is rewritten.
Spec == Init /\ [][Next]_vars /\ WF_vars(Compile)

-----------------------------------------------------------------------------
\* The type invariant: a frame has only uses of values it has met, and the recursion
\* of the three classifications is no deeper than twice the values other than slots:
\* those are in it once each, and a slot only between two of them.
TypeOK ==
  /\ uses \subseteq AllUses /\ Cardinality(uses) <= MaxUses
  /\ cache \in [Values -> States \cup {Nothing}]
  /\ verdict \in [Sites -> States \cup {"Unreachable", Nothing}]
  /\ \A i \in DOMAIN stack : \A u \in stack[i].pending : u \in uses /\ u.of \in stack[i].seen
  /\ Len(stack) <= 2 * Cardinality(Values \ Slots)

\* Where the pointer of site c may be, n steps on.
Spread(c) ==
  LET at[n \in 0..Cardinality(Values)] ==
        IF n = 0 THEN {c} ELSE LET before == at[n-1] IN before \cup {u.to : u \in {w \in uses : w.of \in before}}
  IN at[Cardinality(Values)] \ {Nothing}

Leaves(c) == \E u \in uses : u.of \in Spread(c) /\ u.kind \in {"return", "call", "global", "memory", "leak"}
Freed(c) == \E u \in uses : u.of \in Spread(c) /\ u.kind = "free"

\* A block that is released for the program is one the program can no longer reach
\* when the function has returned, however the pointer travels through casts,
\* integers and local variables, and which the program does not release itself:
\* "auto-free on unreachable allocations" (README.md:88).
ReleasesOnlyLocal ==
  \A c \in Sites : verdict[c] \in {"Unreachable", "ReachableLocal"} => ~ Leaves(c) /\ ~ Freed(c)

\* What the analysis gives up on: the uses it does not know, integers in variables,
\* and a value that depends on itself.
GivesUp(c) ==
  \/ calls[c].form = "wrapped" \/ calls[c].kind = "posix_memalign"
  \/ \E u \in uses : u.of \in Spread(c) /\
       \/ u.kind = "read" /\ u.of \notin Slots
       \/ u.kind = "write" /\ u.of \notin Sites \cup Derived
       \/ u.kind = "put" /\ u.of \in Ints
       \/ u.to \in Values /\ u.of \in Spread(u.to)

\* Otherwise a block that stays in the function is released, also when its pointer
\* meets values that were classified before, for another site.
ReleasesLocal ==
  \A c \in Sites : verdict[c] \in States \ {"ReachableLocal"} => Leaves(c) \/ Freed(c) \/ GivesUp(c)

\* The release that the runtime expects for the kind of block.
Matching(kind) ==
  IF kind \in {"new", "new_nothrow"} THEN {"__ct_autofree_delete"}
  ELSE IF kind \in {"new_array", "new_array_nothrow"} THEN {"__ct_autofree_delete_array"}
  ELSE IF kind \in {"mmap", "sbrk"} THEN {"__ct_autofree_munmap", "__ct_autofree_sbrk"}
  ELSE {"__ct_autofree"}

\* A block is released by the function that belongs to what made it, and after it
\* was made, whatever the call; not so for an unused result of an invoke.
ReleaseMatches ==
  \A c \in Sites : release[c] # Nothing /\ release[c].place # "nowhere" =>
    /\ release[c].call \in Matching(calls[c].kind)
    /\ release[c].place = "before" => calls[c].form = "invoke"
    /\ release[c].target = "__ct_unreachable" => release[c].place # "returns"

\* The analysis ends, on loops of phis and variables as well.
Decides == \A c \in Sites : (stack # << >> /\ stack[1].val = c) ~> verdict[c] # Nothing
=============================================================================
