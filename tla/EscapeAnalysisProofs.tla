------------------------ MODULE EscapeAnalysisProofs ------------------------
(***************************************************************************)
(* Proofs about EscapeAnalysis, for every set of values, every function of *)
(* those values and every way its allocations may be called.               *)
(***************************************************************************)
EXTENDS EscapeAnalysis, FiniteSetTheorems, WellFoundedInduction, TLAPS

-----------------------------------------------------------------------------
(* The frames                                                              *)

Frames == [val : Values, pending : SUBSET AllUses, seen : SUBSET Values]
Typed ==
  /\ uses \subseteq AllUses /\ IsFiniteSet(uses) /\ Cardinality(uses) <= MaxUses
  /\ calls \in [Sites -> [kind : AllocKinds, form : Forms] \cup {Nothing}]
  /\ stack \in Seq(Frames)
  /\ cache \in [Values -> States \cup {Nothing}]
  /\ verdict \in [Sites -> States \cup {"Unreachable", Nothing}]

\* Only casts of pointers are followed within a frame.
FrameIn(f, some) ==
  /\ f.val \in f.seen
  /\ f.pending \subseteq {u \in some : u.of \in f.seen}
  /\ f.val \in Pointers => f.seen \subseteq Pointers
  /\ f.val \notin Pointers => f.seen = {f.val}
FrameOK(f) == FrameIn(f, uses)

\* Only slots are in progress more than once, and never one right after the other.
Framed ==
  /\ \A i \in 1..Len(stack) : FrameOK(stack[i])
  /\ stack # << >> => stack[1].val \in Sites /\ verdict[stack[1].val] = Nothing
  /\ \A i, j \in 1..Len(stack) : i # j /\ stack[i].val = stack[j].val => stack[i].val \in Slots
  /\ \A i \in 1..Len(stack) : stack[i].val \in Slots => i > 1 /\ stack[i-1].val \notin Slots

Top == stack[Len(stack)]
NonLocal == States \ {"ReachableLocal"}
Escaping == {"return", "call", "global", "memory", "leak", "free"}
Fresh(v) == [val |-> v, pending |-> UsesOf(v), seen |-> {v}]

\* A use the classification may forget.
Harmless(u) ==
  /\ u.kind \notin Escaping
  /\ \/ u.to = Nothing
     \/ u.to \in Values /\ (cache[u.to] = "ReachableLocal" \/ Dead(u.to))
     \/ u.kind = "put" /\ u.of \in Slots

Push(u) ==
  /\ u.to \in Values /\ u.kind \notin Escaping
  /\ u.to \in Slots => Top.val \notin Slots
  /\ u.to \notin Slots => \A i \in 1..Len(stack) : stack[i].val # u.to
  /\ stack' = Append(Rest(u), Fresh(u.to))
  /\ UNCHANGED <<cache, verdict>>

\* The uses that GivesUp and Leaves name.
Problem(u) ==
  \/ u.kind \in Escaping
  \/ u.kind = "read" /\ u.of \notin Slots
  \/ u.kind = "write" /\ u.of \notin Pointers
  \/ u.kind = "put" /\ u.of \in Ints
  \/ u.to \in Values /\ u.of \in Spread(u.to)
InProgress(v) == \E i \in 1..Len(stack) : stack[i].val = v
Reason(u) ==
  \/ Problem(u)
  \/ u.to \in Values /\ (cache[u.to] \in NonLocal \/ InProgress(u.to))

LEMMA UseTypes ==
  ASSUME NEW u \in AllUses
  PROVE  /\ u.of \in Values /\ u.to \in Values \cup {Nothing}
         /\ u.kind \in {"flow", "int", "put", "ptr", "read", "write"} \cup Escaping
         /\ u.kind = "flow" => u.of \in Pointers \cup Slots /\ u.to \in Derived
         /\ u.kind = "int" => u.of \in Pointers \cup Slots /\ u.to \in Ints
         /\ u.kind = "put" => u.to \in Slots /\ (u.of \in Slots => Copies)
         /\ u.kind = "ptr" => u.of \in Ints /\ u.to \in Derived
         /\ u.kind \in {"read", "write"} \cup Escaping => u.to = Nothing
         /\ u.kind \in {"read", "write", "free", "leak"} => u.of \notin Ints
BY EscapeAssumption DEF AllUses, Use, Values, Pointers, Escaping

LEMMA Disjoint ==
  /\ Derived \subseteq Pointers /\ Sites \subseteq Pointers
  /\ Pointers \subseteq Values /\ Ints \subseteq Values /\ Slots \subseteq Values
  /\ Pointers \cap Ints = {} /\ Pointers \cap Slots = {} /\ Ints \cap Slots = {}
  /\ Values = Pointers \cup Ints \cup Slots
  /\ Nothing \notin Values
BY EscapeAssumption DEF Values, Pointers

LEMMA DescendSteps ==
  ASSUME Typed, NEW u \in AllUses, u.to \in Values, u.kind \notin Escaping, Descend(u),
         u.to \in Slots => Top.val \notin Slots
  PROVE  \/ Skip(u) /\ Harmless(u)
         \/ Push(u)
         \/ \E e \in NonLocal : Escape(e) /\ Reason(u)
<1>1. DOMAIN stack = 1..Len(stack)
  BY DEF Typed
<1>2. CASE cache[u.to] = "ReachableLocal"
  BY <1>2 DEF Descend, Harmless
<1>3. CASE cache[u.to] # "ReachableLocal" /\ cache[u.to] # Nothing
  <2>1. cache[u.to] \in NonLocal
    BY <1>3 DEF Typed, NonLocal
  <2>2. Escape(cache[u.to])
    BY <1>3 DEF Descend
  <2> QED BY <2>1, <2>2 DEF Reason
<1>4. CASE cache[u.to] = Nothing /\ u.to \notin Slots /\ InProgress(u.to)
  <2>1. Nothing # "ReachableLocal"
    BY EscapeAssumption DEF States
  <2>2. Escape("EscapedCall")
    BY <1>1, <1>4, <2>1 DEF Descend, InProgress
  <2> QED BY <1>4, <2>2 DEF Reason, NonLocal, States
<1>5. CASE cache[u.to] = Nothing /\ ~ (u.to \notin Slots /\ InProgress(u.to))
  <2>1. Nothing # "ReachableLocal"
    BY EscapeAssumption DEF States
  <2>2. Push(u)
    BY <1>1, <1>5, <2>1 DEF Descend, InProgress, Push, Fresh
  <2> QED BY <2>2
<1> QED BY <1>2, <1>3, <1>4, <1>5

LEMMA EscapeBySteps ==
  ASSUME NEW u, EscapeBy(u), Problem(u), u.kind \in Escaping \cup {"read", "write", "put"}
  PROVE  \E e \in NonLocal : Escape(e) /\ Reason(u)
<1>1. CASE u.kind = "return"
  BY <1>1 DEF EscapeBy, NonLocal, States, Reason
<1>2. CASE u.kind \in {"call", "free", "read", "leak"}
  BY <1>2 DEF EscapeBy, NonLocal, States, Reason
<1>3. CASE u.kind \in {"memory", "write", "put"}
  BY <1>3 DEF EscapeBy, NonLocal, States, Reason
<1>4. CASE u.kind = "global"
  BY <1>4 DEF EscapeBy, NonLocal, States, Reason
<1> QED BY <1>1, <1>2, <1>3, <1>4 DEF Escaping

\* What the analysis does with a use, and why.
LEMMA VisitSteps ==
  ASSUME Typed, Framed, Visit
  PROVE  \E u \in Top.pending :
           \/ Skip(u) /\ Harmless(u)
           \/ Follow(u) /\ u.kind = "flow" /\ Top.val \in Pointers
           \/ Push(u)
           \/ \E e \in NonLocal : Escape(e) /\ Reason(u)
<1>1. Len(stack) \in Nat \ {0} /\ Top \in Frames /\ FrameOK(Top)
  BY DEF Typed, Framed, Visit, Top
<1>2. PICK u \in Top.pending :
        IF Top.val \in Slots THEN SlotUse(u) ELSE IF Top.val \in Ints THEN IntUse(u) ELSE PointerUse(u)
  BY DEF Visit, Top
<1>3. u \in AllUses /\ u \in uses /\ u.of \in Top.seen /\ Top.val \in Values
  BY <1>1 DEF FrameOK, FrameIn, Typed, Frames
<1> HIDE DEF Top
<1> SUFFICES \/ Skip(u) /\ Harmless(u)
             \/ Follow(u) /\ u.kind = "flow" /\ Top.val \in Pointers
             \/ Push(u)
             \/ \E e \in NonLocal : Escape(e) /\ Reason(u)
  OBVIOUS
<1>4. CASE Top.val \in Slots
  <2>1. u.of \in Slots /\ u.of \notin Pointers /\ SlotUse(u)
    BY <1>1, <1>2, <1>3, <1>4, Disjoint DEF FrameOK, FrameIn
  <2>2. CASE u.kind \in {"flow", "int"}
    <3>1. u.to \in Values /\ u.to \notin Slots /\ u.kind \notin Escaping
      BY <1>3, <2>2, UseTypes, Disjoint DEF Escaping
    <3> QED BY <1>3, <2>1, <2>2, <3>1, DescendSteps DEF SlotUse
  <2>3. CASE u.kind \in {"put", "read"}
    BY <1>3, <2>1, <2>3, UseTypes DEF SlotUse, Harmless, Escaping
  <2>4. CASE u.kind = "global"
    BY <2>1, <2>4 DEF SlotUse, NonLocal, States, Reason, Problem, Escaping
  <2>5. CASE u.kind \in {"write"} \cup Escaping /\ u.kind # "global"
    <3>1. EscapeBy(u)
      BY <2>1, <2>5 DEF SlotUse, Escaping
    <3>2. Problem(u)
      BY <2>1, <2>5 DEF Problem
    <3> QED BY <2>5, <3>1, <3>2, EscapeBySteps
  <2>6. u.kind # "ptr"
    BY <1>3, <2>1, UseTypes, Disjoint
  <2> QED BY <1>3, <2>2, <2>3, <2>4, <2>5, <2>6, UseTypes
<1>5. CASE Top.val \in Ints
  <2>1. u.of \in Ints /\ u.of \notin Pointers \cup Slots /\ IntUse(u) /\ Top.val \notin Slots
    BY <1>1, <1>2, <1>3, <1>5, Disjoint DEF FrameOK, FrameIn
  <2>2. CASE u.kind = "ptr"
    <3>1. u.to \in Values /\ u.kind \notin Escaping
      BY <1>3, <2>2, UseTypes, Disjoint DEF Escaping
    <3> QED BY <1>3, <2>1, <2>2, <3>1, DescendSteps DEF IntUse
  <2>3. CASE u.kind = "put" /\ Dead(u.to)
    BY <1>3, <2>1, <2>3, UseTypes, Disjoint DEF IntUse, Harmless, Escaping
  <2>4. CASE u.kind \in {"put"} \cup Escaping /\ ~ (u.kind = "put" /\ Dead(u.to))
    <3>1. EscapeBy(u)
      BY <2>1, <2>4 DEF IntUse, Escaping
    <3>2. Problem(u)
      BY <2>1, <2>4 DEF Problem
    <3> QED BY <2>4, <3>1, <3>2, EscapeBySteps
  <2>5. u.kind \notin {"flow", "int", "read", "write"}
    BY <1>3, <2>1, UseTypes
  <2> QED BY <1>3, <2>2, <2>3, <2>4, <2>5, UseTypes
<1>6. CASE Top.val \in Pointers
  <2>1. u.of \in Pointers /\ u.of \notin Ints \cup Slots /\ PointerUse(u) /\ Top.val \notin Slots
    BY <1>1, <1>2, <1>3, <1>6, Disjoint DEF FrameOK, FrameIn
  <2>2. CASE u.kind = "flow"
    BY <1>6, <2>1, <2>2 DEF PointerUse
  <2>3. CASE u.kind \in {"int", "put"}
    <3>1. u.to \in Values /\ u.kind \notin Escaping
      BY <1>3, <2>3, UseTypes, Disjoint DEF Escaping
    <3> QED BY <1>3, <2>1, <2>3, <3>1, DescendSteps DEF PointerUse
  <2>4. CASE u.kind = "write"
    BY <1>3, <2>1, <2>4, UseTypes DEF PointerUse, Harmless, Escaping
  <2>5. CASE u.kind \in {"read"} \cup Escaping
    <3>1. EscapeBy(u)
      BY <2>1, <2>5 DEF PointerUse, Escaping
    <3>2. Problem(u)
      BY <2>1, <2>5 DEF Problem
    <3> QED BY <2>5, <3>1, <3>2, EscapeBySteps
  <2>6. u.kind # "ptr"
    BY <1>3, <2>1, UseTypes
  <2> QED BY <1>3, <2>2, <2>3, <2>4, <2>5, <2>6, UseTypes
<1> QED BY <1>3, <1>4, <1>5, <1>6, Disjoint

-----------------------------------------------------------------------------
(* The stack after a step                                                  *)

LEMMA TopFrame ==
  ASSUME Typed, Framed, stack # << >>
  PROVE  /\ Len(stack) \in Nat \ {0} /\ Top \in Frames /\ FrameOK(Top)
         /\ Top.val \in Values /\ Top.seen \subseteq Values /\ Top.pending \subseteq AllUses
         /\ DOMAIN stack = 1..Len(stack) /\ \A i \in 1..Len(stack) : stack[i] \in Frames
<1>1. Len(stack) \in Nat \ {0} /\ stack \in Seq(Frames)
  BY DEF Typed
<1>2. DOMAIN stack = 1..Len(stack) /\ \A i \in 1..Len(stack) : stack[i] \in Frames
  BY <1>1
<1>3. Top \in Frames /\ FrameOK(Top)
  BY <1>1, <1>2 DEF Top, Framed
<1> HIDE DEF Top
<1>4. Top.val \in Values /\ Top.seen \subseteq Values /\ Top.pending \subseteq AllUses
  BY <1>3 DEF Frames
<1> QED BY <1>1, <1>2, <1>3, <1>4

LEMMA FrameFields ==
  ASSUME NEW f \in Frames, NEW p
  PROVE  [f EXCEPT !.pending = p] = [val |-> f.val, pending |-> p, seen |-> f.seen]
BY DEF Frames

LEMMA RestStack ==
  ASSUME Typed, Framed, stack # << >>, NEW u
  PROVE  /\ Rest(u) \in Seq(Frames) /\ Len(Rest(u)) = Len(stack)
         /\ \A i \in 1..Len(stack) : i # Len(stack) => Rest(u)[i] = stack[i]
         /\ Rest(u)[Len(stack)] = [val |-> Top.val, pending |-> Top.pending \ {u}, seen |-> Top.seen]
<1> DEFINE f == [val |-> Top.val, pending |-> Top.pending \ {u}, seen |-> Top.seen]
           n == Len(stack)
<1>1. f \in Frames /\ n \in 1..n /\ stack \in Seq(Frames)
  BY TopFrame DEF Frames, Typed
<1>2. Rest(u) = [stack EXCEPT ![n] = f]
  <2>1. Rest(u) = [stack EXCEPT ![n] = [Top EXCEPT !.pending = Top.pending \ {u}]]
    BY Zenon DEF Rest, Top
  <2> HIDE DEF Top
  <2>2. [Top EXCEPT !.pending = Top.pending \ {u}] = f
    BY TopFrame, FrameFields
  <2> QED BY <2>1, <2>2, Zenon
<1> HIDE DEF f
<1> QED BY <1>1, <1>2 DEF f

LEMMA SkipStack ==
  ASSUME Typed, Framed, stack # << >>, NEW u, Skip(u)
  PROVE  /\ stack' \in Seq(Frames) /\ Len(stack') = Len(stack)
         /\ \A i \in 1..Len(stack) : i # Len(stack) => stack'[i] = stack[i]
         /\ stack'[Len(stack)] = [val |-> Top.val, pending |-> Top.pending \ {u}, seen |-> Top.seen]
BY RestStack DEF Skip

LEMMA FollowStack ==
  ASSUME Typed, Framed, stack # << >>, NEW u, Follow(u), u.to \in Values
  PROVE  /\ stack' \in Seq(Frames) /\ Len(stack') = Len(stack)
         /\ \A i \in 1..Len(stack) : i # Len(stack) => stack'[i] = stack[i]
         /\ stack'[Len(stack)] =
              [val |-> Top.val,
               pending |-> (Top.pending \ {u}) \cup IF u.to \in Top.seen THEN {} ELSE UsesOf(u.to),
               seen |-> Top.seen \cup {u.to}]
<1> DEFINE new == IF u.to \in Top.seen THEN {} ELSE UsesOf(u.to)
           f == [val |-> Top.val, pending |-> (Top.pending \ {u}) \cup new, seen |-> Top.seen \cup {u.to}]
           n == Len(stack)
<1>1. new \subseteq AllUses
  BY DEF Typed, UsesOf
<1>2. f \in Frames /\ n \in 1..n /\ stack \in Seq(Frames)
  BY <1>1, TopFrame DEF Frames, Typed
<1>3. stack' = [stack EXCEPT ![n] = f]
  <2>1. PICK fr \in Frames : fr = Top
    BY TopFrame
  <2>2. PICK p, v : p = (Top.pending \ {u}) \cup new /\ v = Top.seen \cup {u.to}
    OBVIOUS
  <2>3. stack' = [stack EXCEPT ![n] = [[fr EXCEPT !.pending = p] EXCEPT !.seen = v]]
    BY <2>1, <2>2, TopFrame DEF Follow, Top, Typed
  <2>4. [[fr EXCEPT !.pending = p] EXCEPT !.seen = v] = [val |-> fr.val, pending |-> p, seen |-> v]
    <3> DEFINE g == [val |-> fr.val, pending |-> p, seen |-> fr.seen]
    <3>1. fr \in Frames
      BY <2>1
    <3>2. [fr EXCEPT !.pending = p] = g
      BY <3>1, FrameFields
    <3>3. [g EXCEPT !.seen = v] = [val |-> fr.val, pending |-> p, seen |-> v]
      OBVIOUS
    <3> HIDE DEF g
    <3> QED BY <3>2, <3>3, Zenon
  <2> QED BY <2>1, <2>2, <2>3, <2>4, Zenon
<1> HIDE DEF f
<1>4. /\ stack' \in Seq(Frames) /\ Len(stack') = Len(stack)
      /\ \A i \in 1..Len(stack) : i # Len(stack) => stack'[i] = stack[i]
      /\ stack'[Len(stack)] = f
  BY <1>2, <1>3
<1> QED BY <1>4 DEF f

LEMMA PushStack ==
  ASSUME Typed, Framed, stack # << >>, NEW u, Push(u)
  PROVE  /\ stack' \in Seq(Frames) /\ Len(stack') = Len(stack) + 1
         /\ \A i \in 1..Len(stack) : i # Len(stack) => stack'[i] = stack[i]
         /\ stack'[Len(stack)] = [val |-> Top.val, pending |-> Top.pending \ {u}, seen |-> Top.seen]
         /\ stack'[Len(stack) + 1] = Fresh(u.to)
<1>1. Fresh(u.to) \in Frames
  BY DEF Push, Fresh, Frames, Typed, UsesOf
<1> DEFINE r == Rest(u)
<1>2. stack' = Append(r, Fresh(u.to))
  BY DEF Push
<1>3. /\ r \in Seq(Frames) /\ Len(r) = Len(stack) /\ Len(stack) \in Nat \ {0}
      /\ \A i \in 1..Len(stack) : i # Len(stack) => r[i] = stack[i]
      /\ r[Len(stack)] = [val |-> Top.val, pending |-> Top.pending \ {u}, seen |-> Top.seen]
  BY RestStack, TopFrame
<1> HIDE DEF r
<1>4. stack' \in Seq(Frames) /\ Len(stack') = Len(stack) + 1 /\ stack'[Len(stack) + 1] = Fresh(u.to)
      /\ \A i \in 1..Len(stack) : stack'[i] = r[i]
  BY <1>1, <1>2, <1>3
<1>5. Len(stack) \in 1..Len(stack)
  BY <1>3
<1> QED BY <1>3, <1>4, <1>5, Zenon

LEMMA FinishStack ==
  ASSUME Typed, Framed, Finish
  PROVE  /\ stack # << >> /\ stack' \in Seq(Frames) /\ Len(stack') = Len(stack) - 1
         /\ \A i \in 1..Len(stack') : i \in 1..Len(stack) /\ i < Len(stack) /\ stack'[i] = stack[i]
<1>1. Len(stack) \in Nat \ {0} /\ stack \in Seq(Frames) /\ stack # << >>
  BY TopFrame DEF Typed, Finish
<1>2. stack' = SubSeq(stack, 1, Len(stack) - 1)
  BY DEF Finish
<1> DEFINE n == Len(stack)
<1>4. n \in Nat \ {0} /\ stack' = SubSeq(stack, 1, n - 1) /\ n = Len(stack)
  BY <1>1, <1>2
<1> HIDE DEF n
<1>3. stack' \in Seq(Frames) /\ Len(stack') = n - 1 /\ \A i \in 1..n-1 : stack'[i] = stack[i]
  BY <1>1, <1>4
<1>5. \A i \in 1..Len(stack') : i \in 1..n /\ i < n /\ stack'[i] = stack[i]
  BY <1>3, <1>4
<1> QED BY <1>1, <1>3, <1>5, Zenon DEF n

LEMMA EscapeStack ==
  ASSUME Typed, NEW e, Escape(e)
  PROVE  stack' = << >> /\ stack' \in Seq(Frames) /\ Len(stack') = 0
BY DEF Escape

-----------------------------------------------------------------------------
(* Types                                                                   *)

LEMMA EscapeTyped ==
  ASSUME Typed, NEW e \in NonLocal, Escape(e)
  PROVE  /\ cache' \in [Values -> States \cup {Nothing}]
         /\ verdict' \in [Sites -> States \cup {"Unreachable", Nothing}]
<1>1. e \in States
  BY DEF NonLocal
<1> QED BY <1>1 DEF Escape, Decide, Typed

LEMMA TypedStep ==
  ASSUME Typed, Framed, [Next]_vars
  PROVE  Typed'
<1>1. ASSUME NEW u \in AllUses, Write(u) PROVE Typed'
  <2>1. uses' = uses \cup {u} /\ IsFiniteSet(uses) /\ Cardinality(uses) < MaxUses /\ uses' \subseteq AllUses
    BY <1>1 DEF Write, Typed
  <2>2. IsFiniteSet(uses') /\ Cardinality(uses) \in Nat /\ Cardinality(uses') <= Cardinality(uses) + 1
    BY <2>1, FS_AddElement, FS_CardinalityType
  <2>3. Cardinality(uses') <= MaxUses
    BY <2>1, <2>2, FS_CardinalityType, EscapeAssumption
  <2> QED BY <1>1, <2>1, <2>2, <2>3 DEF Write, Typed
<1>2. ASSUME NEW c \in Sites, Begin(c) PROVE Typed'
  <2>1. calls' \in [Sites -> [kind : AllocKinds, form : Forms] \cup {Nothing}]
    BY ZenonT(30), <1>2, EscapeAssumption DEF Begin, Typed
  <2>2. \/ stack' = stack
        \/ stack' = <<Fresh(c)>>
    BY <1>2 DEF Begin, Fresh
  <2>3. Fresh(c) \in Frames
    BY DEF Fresh, Frames, Typed, UsesOf, Values
  <2>4. stack' \in Seq(Frames)
    <3> DEFINE f == Fresh(c)
    <3>1. f \in Frames /\ stack \in Seq(Frames) /\ (stack' = stack \/ stack' = <<f>>)
      BY <2>2, <2>3 DEF Typed
    <3> HIDE DEF f
    <3>2. <<f>> \in Seq(Frames)
      BY <3>1
    <3> QED BY <3>1, <3>2, Zenon
  <2>5. verdict' \in [Sites -> States \cup {"Unreachable", Nothing}]
    BY <1>2 DEF Begin, Decide, Typed, States
  <2> QED BY <1>2, <2>1, <2>4, <2>5 DEF Begin, Typed
<1>3. CASE Visit
  <2>1. UNCHANGED <<uses, calls>> /\ stack # << >>
    BY <1>3 DEF Visit
  <2>2. PICK u \in Top.pending :
           \/ Skip(u) /\ Harmless(u)
           \/ Follow(u) /\ u.kind = "flow" /\ Top.val \in Pointers
           \/ Push(u)
           \/ \E e \in NonLocal : Escape(e) /\ Reason(u)
    BY <1>3, VisitSteps
  <2>3. u \in AllUses
    BY <2>1, TopFrame
  <2>4. CASE Skip(u)
    BY <2>1, <2>4, SkipStack DEF Typed, Skip
  <2>5. CASE Follow(u) /\ u.kind = "flow"
    <3>1. u.to \in Values
      BY <2>3, <2>5, UseTypes, Disjoint
    <3> QED BY <2>1, <2>5, <3>1, FollowStack DEF Typed, Follow
  <2>6. CASE Push(u)
    BY <2>1, <2>6, PushStack DEF Typed, Push
  <2>7. CASE \E e \in NonLocal : Escape(e)
    BY <2>1, <2>7, EscapeStack, EscapeTyped DEF Typed
  <2> QED BY <2>2, <2>4, <2>5, <2>6, <2>7
<1>4. CASE Finish
  <2>1. stack' \in Seq(Frames)
    BY <1>4, FinishStack
  <2>2. verdict' \in [Sites -> States \cup {"Unreachable", Nothing}]
    BY <1>4 DEF Finish, Decide, Typed, States
  <2>3. cache' \in [Values -> States \cup {Nothing}]
    BY <1>4 DEF Finish, Typed, States
  <2> QED BY <1>4, <2>1, <2>2, <2>3 DEF Finish, Typed
<1>5. CASE Rewrite
  BY <1>5 DEF Rewrite, Typed
<1>6. CASE UNCHANGED vars
  BY <1>6 DEF vars, Typed
<1> QED BY <1>1, <1>2, <1>3, <1>4, <1>5, <1>6 DEF Next, Compile

-----------------------------------------------------------------------------
(* The frames are about values that were met                               *)

LEMMA FramedWhenEmpty ==
  ASSUME Typed, stack = << >>
  PROVE  Framed
<1>1. Len(stack) = 0
  OBVIOUS
<1> QED BY <1>1 DEF Framed

LEMMA FreshOK ==
  ASSUME NEW v \in Values
  PROVE  FrameOK(Fresh(v))
BY Disjoint DEF FrameOK, FrameIn, Fresh, UsesOf

LEMMA FrameFewer ==
  ASSUME NEW f, NEW u, NEW g, FrameIn(f, uses),
         g = [val |-> f.val, pending |-> f.pending \ {u}, seen |-> f.seen]
  PROVE  FrameIn(g, uses) /\ g.val = f.val
<1>1. g.val = f.val /\ g.pending = f.pending \ {u} /\ g.seen = f.seen
  OBVIOUS
<1> QED BY <1>1 DEF FrameIn

LEMMA FrameMore ==
  ASSUME NEW f, NEW u, NEW p, NEW g, FrameIn(f, uses), f.val \in Pointers, u.to \in Pointers,
         p \subseteq UsesOf(u.to),
         g = [val |-> f.val, pending |-> (f.pending \ {u}) \cup p, seen |-> f.seen \cup {u.to}]
  PROVE  FrameIn(g, uses) /\ g.val = f.val
<1>1. g.val = f.val /\ g.pending = (f.pending \ {u}) \cup p /\ g.seen = f.seen \cup {u.to}
  OBVIOUS
<1> QED BY <1>1 DEF FrameIn, UsesOf

LEMMA FramedKept ==
  ASSUME Typed, Framed, stack # << >>, uses' = uses, verdict' = verdict,
         Len(stack') = Len(stack), stack' \in Seq(Frames),
         \A i \in 1..Len(stack) : i # Len(stack) => stack'[i] = stack[i],
         stack'[Len(stack)].val = Top.val, FrameIn(stack'[Len(stack)], uses)
  PROVE  Framed'
<1> DEFINE n == Len(stack)
<1>1. n \in Nat \ {0} /\ \A i \in 1..n : stack'[i].val = stack[i].val
  BY TopFrame DEF Top
<1>2. \A i \in 1..n : FrameIn(stack'[i], uses)
  BY <1>1 DEF Framed, FrameOK
<1> HIDE DEF n
<1> QED BY <1>1, <1>2 DEF Framed, FrameOK, n

LEMMA FramedStep ==
  ASSUME Typed, Framed, [Next]_vars, Typed'
  PROVE  Framed'
<1>1. ASSUME NEW u \in AllUses, Write(u) PROVE Framed'
  <2>1. stack' = << >> /\ Len(stack') = 0
    BY <1>1 DEF Write
  <2> QED BY <2>1 DEF Framed
<1>2. ASSUME NEW c \in Sites, Begin(c) PROVE Framed'
  <2>1. \/ stack' = << >>
        \/ stack' = <<Fresh(c)>> /\ uses' = uses /\ verdict' = verdict
    BY <1>2 DEF Begin, Fresh
  <2>2. CASE stack' = << >>
    <3>1. Len(stack') = 0
      BY <2>2
    <3> QED BY <2>2, <3>1 DEF Framed
  <2>3. CASE stack' = <<Fresh(c)>> /\ uses' = uses /\ verdict' = verdict
    <3>1. Len(stack') = 1 /\ stack'[1] = Fresh(c)
      BY <2>3
    <3>2. verdict[c] = Nothing /\ c \in Values /\ c \notin Slots
      BY <1>2, Disjoint DEF Begin
    <3>3. FrameIn(stack'[1], uses') /\ stack'[1].val = c
      BY <2>3, <3>1, <3>2, FreshOK DEF FrameOK, Fresh
    <3> QED BY <1>2, <2>3, <3>1, <3>2, <3>3 DEF Framed, FrameOK
  <2> QED BY <2>1, <2>2, <2>3
<1>3. CASE Visit
  <2>1. uses' = uses /\ stack # << >>
    BY <1>3 DEF Visit
  <2>2. PICK u \in Top.pending :
           \/ Skip(u) /\ Harmless(u)
           \/ Follow(u) /\ u.kind = "flow" /\ Top.val \in Pointers
           \/ Push(u)
           \/ \E e \in NonLocal : Escape(e) /\ Reason(u)
    BY <1>3, VisitSteps
  <2>3. u \in AllUses /\ Len(stack) \in Nat \ {0} /\ FrameOK(Top)
    BY <2>1, TopFrame
  <2>5. CASE Skip(u)
    <3>1. FrameIn(stack'[Len(stack)], uses) /\ stack'[Len(stack)].val = Top.val
      BY <2>1, <2>3, <2>5, SkipStack, FrameFewer DEF FrameOK
    <3> QED BY <2>1, <2>5, <3>1, SkipStack, FramedKept DEF Skip
  <2>6. CASE Follow(u) /\ u.kind = "flow" /\ Top.val \in Pointers
    <3>1. u.to \in Values /\ u.to \in Pointers
      BY <2>3, <2>6, UseTypes, Disjoint
    <3>2. FrameIn(stack'[Len(stack)], uses) /\ stack'[Len(stack)].val = Top.val
      <4> DEFINE p == IF u.to \in Top.seen THEN {} ELSE UsesOf(u.to)
      <4>1. p \subseteq UsesOf(u.to)
        OBVIOUS
      <4>2. stack'[Len(stack)] =
              [val |-> Top.val, pending |-> (Top.pending \ {u}) \cup p, seen |-> Top.seen \cup {u.to}]
        BY <2>1, <2>6, <3>1, FollowStack
      <4> HIDE DEF p
      <4> QED BY SMTT(30), ZenonT(30), <2>3, <2>6, <3>1, <4>1, <4>2, FrameMore DEF FrameOK
    <3> QED BY <2>1, <2>6, <3>1, <3>2, FollowStack, FramedKept DEF Follow
  <2>7. CASE Push(u)
    <3> DEFINE n == Len(stack)
    <3>1. /\ n \in Nat \ {0} /\ Len(stack') = n + 1 /\ u.to \in Values /\ verdict' = verdict
          /\ \A i \in 1..n : stack'[i].val = stack[i].val
          /\ stack'[n+1].val = u.to /\ Top = stack[n]
      <4>1. n \in Nat \ {0} /\ Len(stack') = n + 1 /\ u.to \in Values /\ verdict' = verdict
        BY <2>1, <2>3, <2>7, PushStack DEF Push
      <4>2. Top = stack[n]
        BY DEF Top
      <4>3. stack'[n].val = Top.val /\ \A i \in 1..n : i # n => stack'[i].val = stack[i].val
        <5>1. stack'[n] = [val |-> Top.val, pending |-> Top.pending \ {u}, seen |-> Top.seen]
          BY <2>1, <2>7, PushStack
        <5>2. \A i \in 1..n : i # n => stack'[i] = stack[i]
          BY <2>1, <2>7, PushStack
        <5> HIDE DEF n
        <5> QED BY <5>1, <5>2
      <4>4. stack'[n+1].val = u.to
        <5>1. stack'[n+1] = Fresh(u.to)
          BY <2>1, <2>7, PushStack
        <5> QED BY <5>1 DEF Fresh
      <4> HIDE DEF n
      <4> QED BY <4>1, <4>2, <4>3, <4>4
    <3>2. \A i \in 1..n+1 : FrameIn(stack'[i], uses)
      <4>1. \A i \in 1..n-1 : FrameIn(stack'[i], uses)
        <5>1. \A i \in 1..n : i # n => stack'[i] = stack[i] /\ FrameIn(stack[i], uses)
          BY <2>1, <2>7, PushStack DEF Framed, FrameOK
        <5> HIDE DEF n
        <5> QED BY <3>1, <5>1
      <4>2. FrameIn(stack'[n], uses)
        BY <2>1, <2>3, <2>7, PushStack, FrameFewer DEF FrameOK
      <4>3. FrameIn(stack'[n+1], uses)
        BY <2>1, <2>3, <2>7, PushStack, FreshOK DEF FrameOK, Push
      <4> HIDE DEF n
      <4> QED BY <3>1, <4>1, <4>2, <4>3
    <3>3. stack' # << >> /\ 1 \in 1..n
      BY <3>1
    <3>4. /\ u.to \in Slots => stack[n].val \notin Slots
          /\ u.to \notin Slots => \A i \in 1..n : stack[i].val # u.to
      BY <2>7, <3>1 DEF Push
    <3>5. stack'[1].val \in Sites /\ verdict'[stack'[1].val] = Nothing
      BY <2>1, <3>1, <3>3 DEF Framed
    <3>6. /\ \A i, j \in 1..n : i # j /\ stack[i].val = stack[j].val => stack[i].val \in Slots
          /\ \A i \in 1..n : stack[i].val \in Slots => i > 1 /\ stack[i-1].val \notin Slots
      BY DEF Framed
    <3> HIDE DEF n
    <3>7. \A i, j \in 1..n+1 : i # j /\ stack'[i].val = stack'[j].val => stack'[i].val \in Slots
      BY <3>1, <3>4, <3>6
    <3>8. \A i \in 1..n+1 : stack'[i].val \in Slots => i > 1 /\ stack'[i-1].val \notin Slots
      BY <3>1, <3>4, <3>6
    <3> QED BY <2>1, <3>1, <3>2, <3>5, <3>7, <3>8 DEF Framed, FrameOK
  <2>8. CASE \E e \in NonLocal : Escape(e)
    <3>1. stack' = << >> /\ Len(stack') = 0
      BY <2>8, EscapeStack
    <3> QED BY <3>1 DEF Framed
  <2> QED BY <2>2, <2>5, <2>6, <2>7, <2>8
<1>4. CASE Finish
  <2>1. uses' = uses
    BY <1>4 DEF Finish
  <2>3. stack' # << >> => verdict' = verdict /\ Len(stack') \in Nat \ {0}
    BY <1>4, FinishStack DEF Finish
  <2> QED BY <1>4, <2>1, <2>3, FinishStack DEF Framed, FrameOK
<1>5. CASE Rewrite
  BY <1>5 DEF Rewrite, Framed, FrameOK
<1>6. CASE UNCHANGED vars
  BY <1>6 DEF vars, Framed, FrameOK
<1> QED BY <1>1, <1>2, <1>3, <1>4, <1>5, <1>6 DEF Next, Compile

-----------------------------------------------------------------------------
(* What is found local stays in a set of values that nothing leaves        *)

Confined(K, some) ==
  \A u \in some : u.of \in K => u.kind \notin Escaping /\ u.to \in K \cup {Nothing}
LocalIn(v, some) == \E K \in SUBSET Values : v \in K /\ Confined(K, some)

\* A use that is settled: it stays among values that were met, are local, or are being
\* classified right now.
Settled(u, i) ==
  /\ u.kind \notin Escaping
  /\ \/ u.to \in stack[i].seen \cup {Nothing}
     \/ LocalIn(u.to, uses)
     \/ i < Len(stack) /\ u.to = stack[i+1].val
FrameLocal(i) == \A u \in uses : u.of \in stack[i].seen => u \in stack[i].pending \/ Settled(u, i)

LocalInv ==
  /\ \A v \in Values : cache[v] = "ReachableLocal" => LocalIn(v, uses)
  /\ \A c \in Sites : verdict[c] \in {"Unreachable", "ReachableLocal"} => LocalIn(c, uses)
  /\ \A i \in 1..Len(stack) : FrameLocal(i)

\* The caches are of this function.
Idle == stack = << >> /\ (\A c \in Sites : verdict[c] = Nothing) => \A v \in Values : cache[v] = Nothing

LEMMA LocalUnion ==
  ASSUME NEW K, K \subseteq Values, NEW v \in K,
         \A u \in uses : u.of \in K =>
           u.kind \notin Escaping /\ (u.to \in K \cup {Nothing} \/ LocalIn(u.to, uses))
  PROVE  LocalIn(v, uses)
<1> DEFINE L == K \cup {w \in Values : LocalIn(w, uses)}
<1>1. L \in SUBSET Values /\ v \in L
  OBVIOUS
<1>2. ASSUME NEW u \in uses, u.of \in L PROVE u.kind \notin Escaping /\ u.to \in L \cup {Nothing}
  <2>1. CASE u.of \in K
    <3>1. LocalIn(u.to, uses) => u.to \in Values
      BY DEF LocalIn
    <3> QED BY <2>1, <3>1
  <2>2. CASE LocalIn(u.of, uses)
    <3>1. PICK M \in SUBSET Values : u.of \in M /\ Confined(M, uses)
      BY <2>2 DEF LocalIn
    <3>2. u.kind \notin Escaping /\ u.to \in M \cup {Nothing}
      BY <3>1 DEF Confined
    <3>3. u.to \in M => LocalIn(u.to, uses) /\ u.to \in Values
      BY <3>1 DEF LocalIn
    <3> QED BY <3>2, <3>3
  <2> QED BY <1>2, <2>1, <2>2
<1>3. Confined(L, uses)
  BY <1>2 DEF Confined
<1> QED BY <1>1, <1>3 DEF LocalIn

LEMMA DeadLocal ==
  ASSUME NEW v \in Values, Dead(v)
  PROVE  LocalIn(v, uses)
<1>1. \A u \in uses : u.of \in {v} => FALSE
  BY DEF Dead, UsesOf
<1> QED BY <1>1, LocalUnion

LEMMA UnusedLocal ==
  ASSUME Typed, NEW c \in Sites, EffectivelyUnused(c)
  PROVE  LocalIn(c, uses)
<1>1. ASSUME NEW u \in uses, u.of \in {c} PROVE u.kind \notin Escaping /\ LocalIn(u.to, uses)
  <2>1. u.kind = "put" /\ Dead(u.to) /\ u \in AllUses
    BY <1>1 DEF EffectivelyUnused, UsesOf, Typed
  <2>2. u.to \in Values
    BY <2>1, UseTypes, Disjoint
  <2> QED BY <2>1, <2>2, DeadLocal DEF Escaping
<1>2. {c} \subseteq Values
  BY Disjoint
<1> QED BY <1>1, <1>2, LocalUnion

LEMMA HarmlessLocal ==
  ASSUME ~ Copies, LocalInv, NEW u \in AllUses, Harmless(u)
  PROVE  u.kind \notin Escaping /\ (u.to = Nothing \/ LocalIn(u.to, uses))
<1>1. ~ (u.kind = "put" /\ u.of \in Slots)
  BY UseTypes
<1>2. u.to \in Values /\ cache[u.to] = "ReachableLocal" => LocalIn(u.to, uses)
  BY DEF LocalInv
<1> QED BY <1>1, <1>2, DeadLocal DEF Harmless

\* The frames below the top one do not change.
LEMMA LowerFrames ==
  ASSUME Typed, Framed, LocalInv, stack # << >>, uses' = uses, Len(stack') \in Nat, Len(stack') >= Len(stack),
         \A i \in 1..Len(stack) : i # Len(stack) => stack'[i] = stack[i],
         stack'[Len(stack)].val = Top.val
  PROVE  \A i \in 1..Len(stack) : i # Len(stack) => FrameLocal(i)'
<1> DEFINE n == Len(stack)
<1>1. n \in Nat /\ Len(stack') \in Nat /\ Len(stack') >= n
  BY TopFrame
<1>2. \A i \in 1..n : stack'[i].val = stack[i].val
  BY DEF Top
<1>3. ASSUME NEW i \in 1..n, i # n, NEW u \in uses, u.of \in stack'[i].seen
      PROVE  u \in stack'[i].pending \/ Settled(u, i)'
  <2>1. i + 1 \in 1..n /\ i < n /\ i < Len(stack') /\ stack'[i] = stack[i]
    BY <1>1, <1>3
  <2>2. u \in stack[i].pending \/ Settled(u, i)
    BY <1>3, <2>1 DEF LocalInv, FrameLocal
  <2>3. Settled(u, i) => Settled(u, i)'
    BY <1>2, <2>1 DEF Settled
  <2> QED BY <2>1, <2>2, <2>3
<1> QED BY <1>3 DEF FrameLocal

LEMMA IdleStep ==
  ASSUME Typed, Framed, Idle, [Next]_vars
  PROVE  Idle'
<1>1. ASSUME NEW u \in AllUses, Write(u) PROVE Idle'
  BY <1>1 DEF Write, Idle
<1>2. ASSUME NEW c \in Sites, Begin(c) PROVE Idle'
  <2>1. stack' # << >> \/ verdict'[c] # Nothing
    BY <1>2, EscapeAssumption DEF Begin, Decide, Typed, States
  <2> QED BY <2>1 DEF Idle
<1>3. CASE Visit
  <2>1. PICK u \in Top.pending :
           \/ Skip(u) /\ Harmless(u)
           \/ Follow(u) /\ u.kind = "flow" /\ Top.val \in Pointers
           \/ Push(u)
           \/ \E e \in NonLocal : Escape(e) /\ Reason(u)
    BY <1>3, VisitSteps
  <2>2. stack # << >> /\ u \in AllUses /\ Len(stack) \in Nat \ {0} /\ stack[1].val \in Sites
    BY <1>3, TopFrame DEF Visit, Framed
  <2>3. CASE Skip(u) \/ Push(u) \/ (Follow(u) /\ u.kind = "flow")
    <3>1. u.kind = "flow" => u.to \in Values
      BY <2>2, UseTypes, Disjoint
    <3>2. Len(stack') >= Len(stack)
      <4>1. CASE Skip(u)
        <5>1. Len(stack') \in {Len(stack), Len(stack) + 1}
          BY <2>2, <4>1, SkipStack
        <5> QED BY <2>2, <5>1
      <4>2. CASE Push(u)
        <5>1. Len(stack') \in {Len(stack), Len(stack) + 1}
          BY <2>2, <4>2, PushStack
        <5> QED BY <2>2, <5>1
      <4>3. CASE Follow(u) /\ u.kind = "flow"
        <5>1. Len(stack') \in {Len(stack), Len(stack) + 1}
          BY <2>2, <3>1, <4>3, FollowStack
        <5> QED BY <2>2, <5>1
      <4> QED BY <2>3, <4>1, <4>2, <4>3
    <3>3. stack' # << >>
      BY <2>2, <3>2
    <3> QED BY <3>3 DEF Idle
  <2>4. CASE \E e \in NonLocal : Escape(e)
    <3>1. verdict'[stack[1].val] # Nothing
      BY <2>2, <2>4, EscapeAssumption DEF Escape, Decide, Typed, NonLocal
    <3> QED BY <2>2, <3>1 DEF Idle
  <2> QED BY <2>1, <2>3, <2>4
<1>4. CASE Finish
  <2>1. Len(stack) \in Nat \ {0} /\ stack # << >> /\ stack[1].val \in Sites /\ Len(stack') = Len(stack) - 1
    BY <1>4, FinishStack, TopFrame DEF Framed
  <2>2. Len(stack) = 1 => verdict'[stack[1].val] # Nothing
    BY <1>4, <2>1, EscapeAssumption DEF Finish, Decide, Typed, States
  <2>3. Len(stack) # 1 => stack' # << >>
    BY <2>1
  <2> QED BY <2>1, <2>2, <2>3 DEF Idle
<1>5. CASE Rewrite
  BY <1>5 DEF Rewrite, Idle
<1>6. CASE UNCHANGED vars
  BY <1>6 DEF vars, Idle
<1> QED BY <1>1, <1>2, <1>3, <1>4, <1>5, <1>6 DEF Next, Compile

LEMMA LocalKept ==
  ASSUME LocalInv, uses' = uses, cache' = cache, verdict' = verdict,
         \A i \in 1..Len(stack') : FrameLocal(i)'
  PROVE  LocalInv'
BY DEF LocalInv

LEMMA FinishLocal ==
  ASSUME Typed, Framed, LocalInv, stack # << >>, Top.pending = {}
  PROVE  LocalIn(Top.val, uses)
<1>1. Len(stack) \in 1..Len(stack) /\ ~ (Len(stack) < Len(stack))
  BY TopFrame
<1>2. FrameLocal(Len(stack)) /\ Top = stack[Len(stack)]
  BY <1>1 DEF LocalInv, Top
<1>3. \A u \in uses : u.of \in Top.seen =>
        u.kind \notin Escaping /\ (u.to \in Top.seen \cup {Nothing} \/ LocalIn(u.to, uses))
  BY <1>1, <1>2 DEF FrameLocal, Settled
<1>4. Top.val \in Top.seen /\ Top.seen \subseteq Values
  BY TopFrame DEF FrameOK, FrameIn
<1> QED BY <1>3, <1>4, LocalUnion

LEMMA LocalStep ==
  ASSUME ~ Copies, Typed, Framed, Idle, LocalInv, [Next]_vars
  PROVE  LocalInv'
<1>1. ASSUME NEW u \in AllUses, Write(u) PROVE LocalInv'
  <2>1. \A v \in Values : cache'[v] = Nothing
    BY <1>1 DEF Write, Idle
  <2>2. \A c \in Sites : verdict'[c] = Nothing
    BY <1>1 DEF Write
  <2>3. Len(stack') = 0
    BY <1>1 DEF Write
  <2> QED BY <2>1, <2>2, <2>3, EscapeAssumption DEF LocalInv, States
<1>2. ASSUME NEW c \in Sites, Begin(c) PROVE LocalInv'
  <2>1. uses' = uses /\ cache' = cache /\ stack = << >>
    BY <1>2 DEF Begin
  <2>2. CASE EffectivelyUnused(c) /\ verdict' = [verdict EXCEPT ![c] = "Unreachable"] /\ stack' = stack
    <3>1. LocalIn(c, uses)
      BY <2>2, UnusedLocal
    <3>2. Len(stack') = 0
      BY <2>1, <2>2
    <3> QED BY <2>1, <2>2, <3>1, <3>2 DEF LocalInv, Typed
  <2>3. CASE verdict' = [verdict EXCEPT ![c] = "EscapedCall"] /\ stack' = stack
    <3>1. Len(stack') = 0
      BY <2>1, <2>3
    <3> QED BY <2>1, <2>3, <3>1 DEF LocalInv, Typed
  <2>4. CASE stack' = <<Fresh(c)>> /\ verdict' = verdict
    <3>1. Len(stack') = 1 /\ stack'[1] = Fresh(c)
      BY <2>4
    <3>2. FrameLocal(1)'
      BY <2>1, <3>1 DEF FrameLocal, Fresh, UsesOf
    <3> QED BY <2>1, <2>4, <3>1, <3>2, LocalKept
  <2> QED BY <1>2, <2>2, <2>3, <2>4 DEF Begin, Decide, Fresh
<1>3. CASE Visit
  <2>0. PICK n \in Nat : n = Len(stack)
    BY TopFrame DEF Visit
  <2>1. PICK u \in Top.pending :
           \/ Skip(u) /\ Harmless(u)
           \/ Follow(u) /\ u.kind = "flow" /\ Top.val \in Pointers
           \/ Push(u)
           \/ \E e \in NonLocal : Escape(e) /\ Reason(u)
    BY <1>3, VisitSteps
  <2>2. stack # << >> /\ uses' = uses /\ u \in AllUses /\ n \in Nat \ {0} /\ Top = stack[n] /\ n \in 1..n
    BY <1>3, <2>0, TopFrame DEF Visit, Top
  <2>3. \A w \in uses : w.of \in Top.seen =>
          \/ w \in Top.pending
          \/ w.kind \notin Escaping /\ (w.to \in Top.seen \cup {Nothing} \/ LocalIn(w.to, uses))
    BY <2>0, <2>2 DEF LocalInv, FrameLocal, Settled
  <2>4. CASE Skip(u) /\ Harmless(u)
    <3>1. u.kind \notin Escaping /\ (u.to = Nothing \/ LocalIn(u.to, uses))
      BY <2>2, <2>4, HarmlessLocal
    <3>2. stack'[n] = [val |-> Top.val, pending |-> Top.pending \ {u}, seen |-> Top.seen] /\ Len(stack') = n
      BY <2>0, <2>2, <2>4, SkipStack
    <3>3. FrameLocal(n)'
      BY <2>2, <2>3, <3>1, <3>2 DEF FrameLocal, Settled
    <3>4. \A i \in 1..n : i # n => FrameLocal(i)'
      BY <2>0, <2>2, <2>4, <3>2, SkipStack, LowerFrames
    <3> QED BY <2>2, <2>4, <3>2, <3>3, <3>4, LocalKept DEF Skip
  <2>5. CASE Follow(u) /\ u.kind = "flow"
    <3>1. u.to \in Values
      BY <2>2, <2>5, UseTypes, Disjoint
    <3>2. /\ Len(stack') = n
          /\ stack'[n].val = Top.val /\ stack'[n].seen = Top.seen \cup {u.to}
          /\ stack'[n].pending = (Top.pending \ {u}) \cup IF u.to \in Top.seen THEN {} ELSE UsesOf(u.to)
      <4> DEFINE p == (Top.pending \ {u}) \cup IF u.to \in Top.seen THEN {} ELSE UsesOf(u.to)
      <4>1. stack'[n] = [val |-> Top.val, pending |-> p, seen |-> Top.seen \cup {u.to}] /\ Len(stack') = n
        BY <2>0, <2>2, <2>5, <3>1, FollowStack
      <4> HIDE DEF p
      <4>2. stack'[n].val = Top.val /\ stack'[n].seen = Top.seen \cup {u.to} /\ stack'[n].pending = p
        BY <4>1
      <4> QED BY <4>1, <4>2 DEF p
    <3>3. FrameLocal(n)'
      <4>1. ASSUME NEW w \in uses, w.of \in stack'[n].seen PROVE w \in stack'[n].pending \/ Settled(w, n)'
        <5>1. CASE w = u
          BY <2>2, <2>5, <3>2, <5>1 DEF Settled, Escaping
        <5>2. CASE w # u /\ w.of \in Top.seen
          BY <2>2, <2>3, <3>2, <5>2 DEF Settled
        <5>3. CASE w.of \notin Top.seen
          BY <3>2, <4>1, <5>3 DEF UsesOf
        <5> QED BY <5>1, <5>2, <5>3
      <4> QED BY <2>2, <4>1 DEF FrameLocal
    <3>4. \A i \in 1..n : i # n => FrameLocal(i)'
      <4>1. \A i \in 1..Len(stack) : i # Len(stack) => stack'[i] = stack[i]
        BY <2>2, <2>5, <3>1, FollowStack
      <4>2. Len(stack') \in Nat /\ Len(stack') >= Len(stack) /\ stack'[Len(stack)].val = Top.val
        BY <2>0, <3>2
      <4>3. \A i \in 1..Len(stack) : i # Len(stack) => FrameLocal(i)'
        BY <2>2, <4>1, <4>2, LowerFrames
      <4> QED BY <2>0, <4>3
    <3> QED BY <2>2, <2>5, <3>2, <3>3, <3>4, LocalKept DEF Follow
  <2>6. CASE Push(u)
    <3>1. stack'[n] = [val |-> Top.val, pending |-> Top.pending \ {u}, seen |-> Top.seen]
      BY <2>0, <2>2, <2>6, PushStack
    <3>2. Len(stack') = n + 1 /\ stack'[n+1] = Fresh(u.to) /\ u.kind \notin Escaping
      BY <2>0, <2>2, <2>6, PushStack DEF Push
    <3>3. stack'[n+1].val = u.to
      BY <3>2 DEF Fresh
    <3>4. FrameLocal(n)'
      <4>1. n < Len(stack')
        BY <2>2, <3>2
      <4> QED BY <2>2, <2>3, <3>1, <3>2, <3>3, <4>1 DEF FrameLocal, Settled
    <3>5. FrameLocal(n+1)'
      BY <2>2, <3>2 DEF FrameLocal, Fresh, UsesOf
    <3>6. \A i \in 1..n : i # n => FrameLocal(i)'
      <4>1. Len(stack') \in Nat /\ Len(stack') >= n /\ stack'[n].val = Top.val
        BY <2>2, <3>1, <3>2
      <4> QED BY <2>0, <2>2, <2>6, <4>1, PushStack, LowerFrames
    <3>7. \A i \in 1..Len(stack') : FrameLocal(i)'
      <4>1. \A i \in 1..n+1 : i = n+1 \/ i \in 1..n
        BY <2>2
      <4> QED BY <3>2, <3>4, <3>5, <3>6, <4>1
    <3> QED BY <2>2, <2>6, <3>7, LocalKept DEF Push
  <2>7. CASE \E e \in NonLocal : Escape(e)
    <3>1. PICK e \in NonLocal : Escape(e)
      BY <2>7
    <3>2. Len(stack') = 0
      BY <3>1, EscapeStack
    <3>3. e \notin {"Unreachable", "ReachableLocal"}
      BY DEF NonLocal, States
    <3> QED BY <2>2, <3>1, <3>2, <3>3 DEF LocalInv, Escape, Decide, Typed
  <2> QED BY <2>1, <2>4, <2>5, <2>6, <2>7
<1>4. CASE Finish
  <2>0. PICK n \in Nat : n = Len(stack)
    BY <1>4, FinishStack, TopFrame
  <2>1. /\ stack # << >> /\ uses' = uses /\ Top.pending = {} /\ n \in Nat \ {0} /\ Len(stack') = n - 1
        /\ \A i \in 1..Len(stack') : i \in 1..n /\ i < n /\ stack'[i] = stack[i]
    BY <1>4, <2>0, FinishStack, TopFrame DEF Finish, Top
  <2>2. LocalIn(Top.val, uses) /\ Top = stack[n]
    BY <2>0, <2>1, FinishLocal DEF Top
  <2>3. \A v \in Values : cache'[v] = "ReachableLocal" => LocalIn(v, uses)
    BY <1>4, <2>0, <2>2 DEF Finish, LocalInv, Typed
  <2>4. \A c \in Sites : verdict'[c] \in {"Unreachable", "ReachableLocal"} => LocalIn(c, uses)
    BY <1>4, <2>0, <2>2 DEF Finish, Decide, LocalInv, Typed
  <2>5. ASSUME NEW i \in 1..Len(stack') PROVE FrameLocal(i)'
    <3>1. i \in 1..n /\ i < n /\ stack'[i] = stack[i] /\ (i < Len(stack') \/ i + 1 = n)
      BY <2>1
    <3>2. i < Len(stack') => i + 1 \in 1..Len(stack')
      BY <2>1
    <3>3. i < Len(stack') => stack'[i+1] = stack[i+1]
      BY <2>1, <3>2
    <3>4. \A u \in uses : Settled(u, i) => Settled(u, i)'
      BY <2>1, <2>2, <3>1, <3>3 DEF Settled
    <3>5. FrameLocal(i)
      BY <2>0, <3>1 DEF LocalInv
    <3> QED BY <2>1, <3>1, <3>4, <3>5 DEF FrameLocal
  <2> QED BY <2>1, <2>3, <2>4, <2>5 DEF LocalInv
<1>5. CASE Rewrite
  BY <1>5 DEF Rewrite, LocalInv, FrameLocal, Settled
<1>6. CASE UNCHANGED vars
  BY <1>6 DEF vars, LocalInv, FrameLocal, Settled
<1> QED BY <1>1, <1>2, <1>3, <1>4, <1>5, <1>6 DEF Next, Compile

-----------------------------------------------------------------------------
(* Where a pointer may get to                                              *)

LEMMA Induction ==
  ASSUME NEW S, S \subseteq Nat, 0 \in S, \A n \in S : n + 1 \in S
  PROVE  S = Nat
<1> SUFFICES ASSUME Nat \ S # {} PROVE FALSE
  OBVIOUS
<1>1. PICK n \in Nat \ S : \A m \in Nat \ S : ~ (<<m, n>> \in OpToRel(<, Nat))
  BY NatLessThanWellFounded, WFMin
<1>2. n - 1 \in Nat /\ n - 1 < n
  OBVIOUS
<1>3. <<n - 1, n>> \in OpToRel(<, Nat)
  BY <1>1, <1>2 DEF OpToRel
<1>4. n - 1 \in S
  BY <1>1, <1>2, <1>3
<1>5. (n - 1) + 1 \in S /\ (n - 1) + 1 = n
  BY <1>2, <1>4
<1> QED BY <1>5

Onward(s) == s \cup {u.to : u \in {w \in uses : w.of \in s}}
Walk(c, n, g) == [m \in 0..n |-> IF m = 0 THEN {c} ELSE Onward(g[m-1])]

LEMMA WalkExists ==
  ASSUME NEW c, NEW n \in Nat
  PROVE  \E g : g = Walk(c, n, g)
<1> DEFINE S == {k \in Nat : \E g : g = Walk(c, k, g)}
<1>1. 0 \in S
  <2> DEFINE g == [m \in 0..0 |-> {c}]
  <2>1. Walk(c, 0, g) = g
    BY DEF Walk
  <2> HIDE DEF g
  <2> QED BY <2>1
<1>2. ASSUME NEW k \in S PROVE k + 1 \in S
  <2>1. PICK g : g = Walk(c, k, g)
    OBVIOUS
  <2> DEFINE h == [m \in 0..k+1 |-> IF m <= k THEN g[m] ELSE Onward(g[k])]
  <2>2. ASSUME NEW m \in 0..k+1 PROVE h[m] = IF m = 0 THEN {c} ELSE Onward(h[m-1])
    <3>1. CASE m = 0
      <4>1. h[m] = g[m] /\ m \in 0..k
        BY <3>1
      <4>2. g[m] = {c}
        BY <2>1, <3>1, <4>1 DEF Walk
      <4> QED BY <3>1, <4>1, <4>2
    <3>2. CASE m \in 1..k
      <4>1. h[m] = g[m] /\ h[m-1] = g[m-1] /\ m \in 0..k /\ m # 0
        BY <3>2
      <4>2. g[m] = Onward(g[m-1])
        BY <2>1, <4>1 DEF Walk
      <4> QED BY <4>1, <4>2
    <3>3. CASE m = k + 1
      <4>1. h[m] = Onward(g[k]) /\ h[m-1] = g[k] /\ m # 0
        BY <3>3
      <4> QED BY <4>1
    <3> QED BY <3>1, <3>2, <3>3
  <2>3. h = [m \in 0..k+1 |-> h[m]]
    OBVIOUS
  <2> HIDE DEF h
  <2>4. h = Walk(c, k + 1, h)
    BY <2>2, <2>3 DEF Walk
  <2> QED BY <2>4
<1> HIDE DEF S
<1>3. S \subseteq Nat
  BY DEF S
<1>4. S = Nat
  BY <1>1, <1>2, <1>3, Induction
<1> QED BY <1>4 DEF S

LEMMA SpreadWalk ==
  ASSUME NEW c
  PROVE  /\ Cardinality(Values) \in Nat
         /\ \E g : /\ Spread(c) = g[Cardinality(Values)] \ {Nothing}
                   /\ g[0] = {c}
                   /\ \A n \in 1..Cardinality(Values) : g[n] = Onward(g[n-1])
<1> DEFINE N == Cardinality(Values)
           at == CHOOSE g : g = Walk(c, N, g)
<1>1. N \in Nat
  BY EscapeAssumption, FS_CardinalityType
<1>2. Spread(c) = at[N] \ {Nothing}
  BY DEF Spread, Walk, Onward
<1>3. at = Walk(c, N, at)
  <2> HIDE DEF N
  <2> QED BY <1>1, WalkExists
<1> HIDE DEF at, N
<1>4. at[0] = {c} /\ \A n \in 1..N : at[n] = Onward(at[n-1])
  <2>1. \A n \in 0..N : at[n] = IF n = 0 THEN {c} ELSE Onward(at[n-1])
    <3>1. \A g : Walk(c, N, g) = [m \in 0..N |-> IF m = 0 THEN {c} ELSE Onward(g[m-1])]
      BY DEF Walk
    <3> QED BY SMTT(30), ZenonT(30), <1>3, <3>1
  <2> QED BY <1>1, <2>1
<1> QED BY <1>1, <1>2, <1>4 DEF N

\* Spread(v) is the least set that has v and all that its uses lead to.
LEMMA SpreadLeast ==
  ASSUME Typed, NEW v, NEW K, v \in K, \A u \in uses : u.of \in K => u.to \in K \cup {Nothing}
  PROVE  Spread(v) \subseteq K
<1> DEFINE N == Cardinality(Values)
<1>1. N \in Nat
  BY SpreadWalk
<1>2. PICK g : /\ Spread(v) = g[N] \ {Nothing}
               /\ g[0] = {v} /\ \A n \in 1..N : g[n] = Onward(g[n-1])
  BY SpreadWalk
<1> HIDE DEF N
<1> DEFINE S == {n \in Nat : n <= N => g[n] \subseteq K \cup {Nothing}}
<1>3. 0 \in S
  BY <1>2
<1>4. ASSUME NEW n \in S PROVE n + 1 \in S
  <2> SUFFICES ASSUME n + 1 <= N PROVE g[n+1] \subseteq K \cup {Nothing}
    OBVIOUS
  <2>1. g[n+1] = Onward(g[n]) /\ g[n] \subseteq K \cup {Nothing}
    BY <1>1, <1>2
  <2>2. \A u \in uses : u.of # Nothing
    BY UseTypes, Disjoint DEF Typed
  <2> QED BY <2>1, <2>2 DEF Onward
<1> HIDE DEF S
<1>5. S \subseteq Nat
  BY DEF S
<1>6. S = Nat
  BY <1>3, <1>4, <1>5, Induction
<1>7. g[N] \subseteq K \cup {Nothing}
  BY <1>1, <1>6 DEF S
<1> QED BY <1>2, <1>7

LEMMA SpreadClosed ==
  ASSUME Typed, NEW v \in Values
  PROVE  /\ v \in Spread(v) /\ Spread(v) \subseteq Values
         /\ \A u \in uses : u.of \in Spread(v) => u.to \in Spread(v) \cup {Nothing}
<1> DEFINE N == Cardinality(Values)
           All == Values \cup {Nothing}
<1>1. N \in Nat /\ IsFiniteSet(All) /\ Cardinality(All) = N + 1
  BY EscapeAssumption, FS_CardinalityType, FS_AddElement
<1>2. PICK g : /\ Spread(v) = g[N] \ {Nothing}
               /\ g[0] = {v} /\ \A n \in 1..N : g[n] = Onward(g[n-1])
  BY SpreadWalk
<1>3. \A s : s \subseteq All => Onward(s) \subseteq All
  BY UseTypes DEF Typed, Onward
<1>4. \A s : s \subseteq Onward(s)
  BY DEF Onward
<1>5. \A s : s \subseteq All => IsFiniteSet(s) /\ Cardinality(s) \in Nat /\ Cardinality(s) <= N + 1
                                /\ (Cardinality(s) = N + 1 => s = All)
  BY <1>1, FS_Subset, FS_CardinalityType
<1>6. \A s : s \subseteq All /\ Onward(s) # s => Cardinality(Onward(s)) > Cardinality(s)
  <2> SUFFICES ASSUME NEW s, s \subseteq All, Onward(s) # s PROVE Cardinality(Onward(s)) > Cardinality(s)
    OBVIOUS
  <2> DEFINE t == Onward(s)
  <2>1. s \subseteq t /\ t \subseteq All /\ s # t
    BY <1>3, <1>4
  <2> HIDE DEF t, All, N
  <2>2. IsFiniteSet(t) /\ Cardinality(s) \in Nat /\ Cardinality(t) \in Nat
    BY <1>5, <2>1
  <2>3. Cardinality(s) <= Cardinality(t) /\ Cardinality(s) # Cardinality(t)
    BY <2>1, <2>2, FS_Subset
  <2> QED BY <2>2, <2>3 DEF t
<1> HIDE DEF N
<1> DEFINE S == {n \in Nat : n <= N => /\ v \in g[n] /\ g[n] \subseteq All
                                       /\ Onward(g[n]) = g[n] \/ Cardinality(g[n]) >= n + 1}
<1>7. 0 \in S
  <2>1. Cardinality({v}) = 1
    BY FS_Singleton
  <2> QED BY <1>2, <2>1
<1>8. ASSUME NEW n \in S PROVE n + 1 \in S
  <2> SUFFICES ASSUME n + 1 <= N
               PROVE  /\ v \in g[n+1] /\ g[n+1] \subseteq All
                      /\ Onward(g[n+1]) = g[n+1] \/ Cardinality(g[n+1]) >= n + 2
    OBVIOUS
  <2>1. g[n+1] = Onward(g[n])
    BY <1>1, <1>2
  <2>2. v \in g[n] /\ g[n] \subseteq All /\ (Onward(g[n]) = g[n] \/ Cardinality(g[n]) >= n + 1)
    BY <1>1
  <2> HIDE DEF All
  <2>3. v \in g[n+1] /\ g[n+1] \subseteq All
    BY <1>3, <1>4, <2>1, <2>2
  <2>4. CASE Onward(g[n]) = g[n]
    BY <2>1, <2>3, <2>4
  <2>5. CASE Onward(g[n]) # g[n]
    <3>1. Cardinality(g[n+1]) > Cardinality(g[n]) /\ Cardinality(g[n]) \in Nat /\ Cardinality(g[n+1]) \in Nat
      BY <1>5, <1>6, <2>1, <2>2, <2>3, <2>5
    <3> QED BY <2>2, <2>3, <2>5, <3>1
  <2> QED BY <2>4, <2>5
<1> HIDE DEF S
<1>9. S \subseteq Nat
  BY DEF S
<1>10. S = Nat
  BY <1>7, <1>8, <1>9, Induction
<1>11. v \in g[N] /\ g[N] \subseteq All /\ (Onward(g[N]) = g[N] \/ Cardinality(g[N]) >= N + 1)
  BY <1>1, <1>10 DEF S
<1>12. Onward(g[N]) = g[N]
  <2> HIDE DEF All
  <2>1. Cardinality(g[N]) >= N + 1 => g[N] = All
    BY <1>1, <1>5, <1>11
  <2> QED BY <1>3, <1>4, <1>11, <2>1
<1> QED BY <1>2, <1>11, <1>12, Disjoint DEF Onward

\* What is local gets nowhere from where it could leave.
LEMMA LocalStays ==
  ASSUME Typed, NEW v, LocalIn(v, uses), NEW u \in uses, u.of \in Spread(v)
  PROVE  u.kind \notin Escaping
<1>1. PICK K \in SUBSET Values : v \in K /\ Confined(K, uses)
  BY DEF LocalIn
<1>2. Spread(v) \subseteq K
  BY <1>1, SpreadLeast DEF Confined
<1> QED BY <1>1, <1>2 DEF Confined

-----------------------------------------------------------------------------
(* The invariants hold                                                     *)

Inv == Typed /\ Framed /\ Idle

LEMMA InitInv == Init => Inv
<1> SUFFICES ASSUME Init PROVE Inv
  OBVIOUS
<1>1. stack \in Seq(Frames) /\ stack = << >>
  BY DEF Init
<1>2. IsFiniteSet(uses) /\ Cardinality(uses) = 0
  BY FS_EmptySet DEF Init
<1>3. Typed
  BY <1>1, <1>2, EscapeAssumption DEF Init, Typed
<1>4. Framed
  BY <1>1, <1>3, FramedWhenEmpty
<1> QED BY <1>3, <1>4 DEF Init, Inv, Idle

LEMMA Invariant == Spec => []Inv
<1>1. Inv /\ [Next]_vars => Inv'
  BY TypedStep, FramedStep, IdleStep DEF Inv
<1> QED BY <1>1, InitInv, PTL DEF Spec

\* Where no variable is copied into another, nothing that the pass releases for the
\* program can be reached after the function, or was released by it: also with values
\* that were classified for another site, and loops through variables and integers.
THEOREM OnlyLocalReleased == ASSUME ~ Copies PROVE Spec => []ReleasesOnlyLocal
<1>1. Init => LocalInv
  <2> SUFFICES ASSUME Init PROVE LocalInv
    OBVIOUS
  <2>1. Len(stack) = 0
    BY DEF Init
  <2> QED BY <2>1, EscapeAssumption DEF Init, LocalInv, States
<1>2. Inv /\ LocalInv /\ [Next]_vars => LocalInv'
  BY LocalStep DEF Inv
<1>3. Inv /\ LocalInv => ReleasesOnlyLocal
  <2> SUFFICES ASSUME Typed, LocalInv, NEW c \in Sites, verdict[c] \in {"Unreachable", "ReachableLocal"}
               PROVE  ~ Leaves(c) /\ ~ Freed(c)
    BY DEF Inv, ReleasesOnlyLocal
  <2>1. LocalIn(c, uses)
    BY DEF LocalInv
  <2> QED BY <2>1, LocalStays DEF Leaves, Freed, Escaping
<1> QED BY <1>1, <1>2, <1>3, Invariant, PTL DEF Spec

-----------------------------------------------------------------------------
(* What is found to escape meets a use the analysis gives up on            *)

Bad(v) == \E u \in uses : u.of \in Spread(v) /\ Problem(u)

ReachInv ==
  /\ \A i, j \in 1..Len(stack) : i <= j => stack[j].val \in Spread(stack[i].val)
  /\ \A i \in 1..Len(stack) : stack[i].seen \subseteq Spread(stack[i].val)
  /\ \A v \in Values : cache[v] \in NonLocal => Bad(v)
  /\ \A c \in Sites : verdict[c] \in NonLocal =>
       calls[c].form = "wrapped" \/ calls[c].kind = "posix_memalign" \/ Bad(c)

LEMMA SpreadOn ==
  ASSUME Typed, NEW v \in Values, NEW w \in Spread(v)
  PROVE  Spread(w) \subseteq Spread(v)
<1>1. \A u \in uses : u.of \in Spread(v) => u.to \in Spread(v) \cup {Nothing}
  BY SpreadClosed
<1> QED BY <1>1, SpreadLeast

LEMMA BadBefore ==
  ASSUME Typed, NEW v \in Values, NEW w \in Spread(v), Bad(w)
  PROVE  Bad(v)
BY SpreadOn DEF Bad

\* Every value in progress reaches what is classified on top.
LEMMA TopReached ==
  ASSUME Typed, Framed, ReachInv, stack # << >>, NEW i \in 1..Len(stack)
  PROVE  /\ stack[i].val \in Values /\ Top.val \in Spread(stack[i].val)
         /\ Top.seen \subseteq Spread(stack[i].val)
<1>1. Len(stack) \in 1..Len(stack) /\ i <= Len(stack) /\ stack[i].val \in Values
  BY TopFrame DEF Frames
<1>2. Top.val \in Spread(stack[i].val) /\ Top.seen \subseteq Spread(Top.val)
  BY <1>1 DEF ReachInv, Top
<1> QED BY <1>1, <1>2, SpreadOn

LEMMA AllBad ==
  ASSUME Typed, Framed, ReachInv, stack # << >>, NEW u \in Top.pending, Reason(u)
  PROVE  \A i \in 1..Len(stack) : Bad(stack[i].val)
<1> SUFFICES ASSUME NEW i \in 1..Len(stack) PROVE Bad(stack[i].val)
  OBVIOUS
<1>1. u \in uses /\ u.of \in Top.seen
  BY TopFrame DEF FrameOK, FrameIn
<1>2. stack[i].val \in Values /\ u.of \in Spread(stack[i].val)
  BY <1>1, TopReached
<1>3. CASE Problem(u)
  BY <1>1, <1>2, <1>3 DEF Bad
<1>4. CASE u.to \in Values /\ cache[u.to] \in NonLocal
  <2>1. u.to \in Spread(stack[i].val)
    BY <1>1, <1>2, <1>4, SpreadClosed, Disjoint
  <2>2. Bad(u.to)
    BY <1>4 DEF ReachInv
  <2> QED BY <1>2, <2>1, <2>2, BadBefore
<1>5. CASE u.to \in Values /\ InProgress(u.to)
  <2>1. PICK j \in 1..Len(stack) : stack[j].val = u.to
    BY <1>5 DEF InProgress
  <2>2. u.of \in Spread(u.to)
    BY <1>1, <2>1, TopReached
  <2> QED BY <1>1, <1>2, <1>5, <2>2 DEF Bad, Problem
<1> QED BY <1>3, <1>4, <1>5 DEF Reason

LEMMA SpreadKept ==
  ASSUME uses' = uses, NEW v
  PROVE  Spread(v)' = Spread(v)
BY DEF Spread

LEMMA BadKept ==
  ASSUME uses' = uses, NEW v, Bad(v)
  PROVE  Bad(v)'
<1>1. PICK u \in uses : u.of \in Spread(v) /\ Problem(u)
  BY DEF Bad
<1>2. Problem(u)'
  <2>1. Spread(u.to)' = Spread(u.to)
    BY SpreadKept
  <2> QED BY <1>1, <2>1 DEF Problem
<1>3. Spread(v)' = Spread(v)
  BY SpreadKept
<1> QED BY <1>1, <1>2, <1>3 DEF Bad

\* The part of the invariant about the frames, and the one about what was found.
ReachFrames ==
  /\ \A i, j \in 1..Len(stack) : i <= j => stack[j].val \in Spread(stack[i].val)
  /\ \A i \in 1..Len(stack) : stack[i].seen \subseteq Spread(stack[i].val)
ReachFound ==
  /\ \A v \in Values : cache[v] \in NonLocal => Bad(v)
  /\ \A c \in Sites : verdict[c] \in NonLocal =>
       calls[c].form = "wrapped" \/ calls[c].kind = "posix_memalign" \/ Bad(c)

LEMMA ReachFramesStep ==
  ASSUME Typed, Framed, ReachInv, [Next]_vars
  PROVE  ReachFrames'
<1>1. ASSUME NEW u \in AllUses, Write(u) PROVE ReachFrames'
  <2>1. Len(stack') = 0
    BY <1>1 DEF Write
  <2> QED BY <2>1 DEF ReachFrames
<1>2. ASSUME NEW c \in Sites, Begin(c) PROVE ReachFrames'
  <2>1. uses' = uses /\ stack = << >> /\ (stack' = << >> \/ stack' = <<Fresh(c)>>)
    BY <1>2 DEF Begin, Fresh
  <2>2. CASE stack' = << >>
    <3>1. Len(stack') = 0
      BY <2>2
    <3> QED BY <3>1 DEF ReachFrames
  <2>3. CASE stack' = <<Fresh(c)>>
    <3>1. Len(stack') = 1 /\ stack'[1] = Fresh(c)
      BY <2>3
    <3>2. stack'[1].val = c /\ stack'[1].seen = {c}
      BY <3>1 DEF Fresh
    <3>3. c \in Spread(c) /\ \A v : Spread(v)' = Spread(v)
      BY <2>1, SpreadClosed, SpreadKept, Disjoint
    <3> QED BY <3>1, <3>2, <3>3 DEF ReachFrames
  <2> QED BY <2>1, <2>2, <2>3
<1>3. CASE Visit
  <2>0. PICK n \in Nat : n = Len(stack)
    BY TopFrame DEF Visit
  <2>1. PICK u \in Top.pending :
           \/ Skip(u) /\ Harmless(u)
           \/ Follow(u) /\ u.kind = "flow" /\ Top.val \in Pointers
           \/ Push(u)
           \/ \E e \in NonLocal : Escape(e) /\ Reason(u)
    BY <1>3, VisitSteps
  <2>2. stack # << >> /\ uses' = uses /\ u \in AllUses /\ u \in uses /\ u.of \in Top.seen
    BY <1>3, TopFrame DEF Visit, FrameOK, FrameIn
  <2>3. n \in Nat \ {0} /\ Top = stack[n] /\ n \in 1..n
    BY <2>0, <2>2, TopFrame DEF Top
  <2>4. \A i \in 1..n : /\ stack[i].val \in Values /\ u.of \in Spread(stack[i].val)
                        /\ u.to \in Values => u.to \in Spread(stack[i].val)
    <3>1. ASSUME NEW i \in 1..n
          PROVE  /\ stack[i].val \in Values /\ u.of \in Spread(stack[i].val)
                 /\ u.to \in Values => u.to \in Spread(stack[i].val)
      <4>1. stack[i].val \in Values /\ u.of \in Spread(stack[i].val)
        BY <2>0, <2>2, TopReached
      <4> QED BY <2>2, <4>1, SpreadClosed, Disjoint
    <3> QED BY <3>1
  <2>5. \A v : Spread(v)' = Spread(v)
    BY <2>2, SpreadKept
  <2>6. /\ \A i, j \in 1..n : i <= j => stack[j].val \in Spread(stack[i].val)
        /\ \A i \in 1..n : stack[i].seen \subseteq Spread(stack[i].val)
    BY <2>0 DEF ReachInv
  <2>7. CASE Skip(u)
    <3>1. stack'[n] = [val |-> Top.val, pending |-> Top.pending \ {u}, seen |-> Top.seen] /\ Len(stack') = n
          /\ \A i \in 1..n : i # n => stack'[i] = stack[i]
      BY <2>0, <2>2, <2>7, SkipStack
    <3>2. stack'[n].val = Top.val /\ stack'[n].seen = Top.seen
      BY <3>1
    <3>3. \A i \in 1..n : stack'[i].val = stack[i].val /\ stack'[i].seen = stack[i].seen
      BY <2>3, <3>1, <3>2
    <3> QED BY <2>5, <2>6, <3>1, <3>3 DEF ReachFrames
  <2>8. CASE Follow(u) /\ u.kind = "flow"
    <3>1. u.to \in Values
      BY <2>2, <2>8, UseTypes, Disjoint
    <3>2. Len(stack') = n /\ stack'[n].val = Top.val /\ stack'[n].seen = Top.seen \cup {u.to}
          /\ \A i \in 1..n : i # n => stack'[i] = stack[i]
      <4> DEFINE p == (Top.pending \ {u}) \cup IF u.to \in Top.seen THEN {} ELSE UsesOf(u.to)
      <4>1. stack'[n] = [val |-> Top.val, pending |-> p, seen |-> Top.seen \cup {u.to}] /\ Len(stack') = n
            /\ \A i \in 1..n : i # n => stack'[i] = stack[i]
        BY <2>0, <2>2, <2>8, <3>1, FollowStack
      <4> HIDE DEF p
      <4>2. stack'[n].val = Top.val /\ stack'[n].seen = Top.seen \cup {u.to}
        BY <4>1
      <4> QED BY <4>1, <4>2
    <3>3. \A i \in 1..n : stack'[i].val = stack[i].val /\ stack'[i].seen \subseteq Spread(stack[i].val)
      BY <2>3, <2>4, <2>6, <3>1, <3>2
    <3> QED BY <2>5, <2>6, <3>2, <3>3 DEF ReachFrames
  <2>9. CASE Push(u)
    <3>1. /\ stack'[n] = [val |-> Top.val, pending |-> Top.pending \ {u}, seen |-> Top.seen]
          /\ Len(stack') = n + 1 /\ stack'[n+1] = Fresh(u.to) /\ u.to \in Values
          /\ \A i \in 1..n : i # n => stack'[i] = stack[i]
      BY <2>0, <2>2, <2>9, PushStack DEF Push
    <3>2. /\ stack'[n].val = Top.val /\ stack'[n].seen = Top.seen
          /\ stack'[n+1].val = u.to /\ stack'[n+1].seen = {u.to}
      BY <3>1 DEF Fresh
    <3>3. \A i \in 1..n : stack'[i].val = stack[i].val /\ stack'[i].seen = stack[i].seen
      BY <2>3, <3>1, <3>2
    <3>4. u.to \in Spread(u.to)
      BY <3>1, SpreadClosed
    <3>5. ASSUME NEW i \in 1..n+1 PROVE stack'[i].seen \subseteq Spread(stack'[i].val)
      BY <2>3, <2>6, <3>2, <3>3, <3>4
    <3>6. ASSUME NEW i \in 1..n+1, NEW j \in 1..n+1, i <= j PROVE stack'[j].val \in Spread(stack'[i].val)
      <4>1. CASE j \in 1..n
        <5>1. i \in 1..n
          BY <2>3, <3>6, <4>1
        <5> QED BY <2>6, <3>3, <3>6, <4>1, <5>1
      <4>2. CASE j = n + 1 /\ i \in 1..n
        BY <2>4, <3>1, <3>2, <3>3, <4>2
      <4>3. CASE j = n + 1 /\ i = n + 1
        BY <3>2, <3>4, <4>3
      <4> QED BY <2>3, <3>6, <4>1, <4>2, <4>3
    <3> QED BY <2>5, <3>1, <3>5, <3>6 DEF ReachFrames
  <2>10. CASE \E e \in NonLocal : Escape(e)
    <3>1. Len(stack') = 0
      BY <2>10, EscapeStack
    <3> QED BY <3>1 DEF ReachFrames
  <2> QED BY <2>1, <2>7, <2>8, <2>9, <2>10
<1>4. CASE Finish
  <2>1. uses' = uses /\ \A i \in 1..Len(stack') : i \in 1..Len(stack) /\ stack'[i] = stack[i]
    BY <1>4, FinishStack DEF Finish
  <2>2. \A v : Spread(v)' = Spread(v)
    BY <2>1, SpreadKept
  <2> QED BY <2>1, <2>2 DEF ReachInv, ReachFrames
<1>5. CASE Rewrite \/ UNCHANGED vars
  <2>1. uses' = uses /\ stack' = stack
    BY <1>5 DEF Rewrite, vars
  <2>2. \A v : Spread(v)' = Spread(v)
    BY <2>1, SpreadKept
  <2> QED BY <2>1, <2>2 DEF ReachInv, ReachFrames
<1> QED BY <1>1, <1>2, <1>3, <1>4, <1>5 DEF Next, Compile

LEMMA ReachFoundStep ==
  ASSUME Typed, Framed, Idle, ReachInv, [Next]_vars
  PROVE  ReachFound'
<1>0. /\ \A v \in Values : cache[v] \in NonLocal => Bad(v)
      /\ \A c \in Sites : verdict[c] \in NonLocal =>
           calls[c].form = "wrapped" \/ calls[c].kind = "posix_memalign" \/ Bad(c)
  BY DEF ReachInv
<1>1. ASSUME NEW u \in AllUses, Write(u) PROVE ReachFound'
  <2>1. \A v \in Values : cache'[v] = Nothing
    BY <1>1 DEF Write, Idle
  <2>2. \A c \in Sites : verdict'[c] = Nothing
    BY <1>1 DEF Write
  <2> QED BY <2>1, <2>2, EscapeAssumption DEF ReachFound, NonLocal
<1>2. ASSUME NEW c \in Sites, Begin(c) PROVE ReachFound'
  <2>1. uses' = uses /\ cache' = cache
    BY <1>2 DEF Begin
  <2>2. verdict'[c] \in NonLocal =>
          calls'[c].form = "wrapped" \/ calls'[c].kind = "posix_memalign"
    BY <1>2, EscapeAssumption DEF Begin, Decide, Typed, NonLocal, States
  <2>3. \A d \in Sites \ {c} : verdict'[d] = verdict[d] /\ calls'[d] = calls[d]
    BY <1>2 DEF Begin, Decide, Typed
  <2>4. \A v : Bad(v) => Bad(v)'
    BY <2>1, BadKept
  <2> QED BY <1>0, <2>1, <2>2, <2>3, <2>4 DEF ReachFound
<1>3. CASE Visit
  <2>1. PICK u \in Top.pending :
           \/ Skip(u) /\ Harmless(u)
           \/ Follow(u) /\ u.kind = "flow" /\ Top.val \in Pointers
           \/ Push(u)
           \/ \E e \in NonLocal : Escape(e) /\ Reason(u)
    BY <1>3, VisitSteps
  <2>2. stack # << >> /\ uses' = uses /\ calls' = calls /\ 1 \in 1..Len(stack)
    BY <1>3, TopFrame DEF Visit
  <2>3. \A v : Bad(v) => Bad(v)'
    BY <2>2, BadKept
  <2>4. CASE UNCHANGED <<cache, verdict>>
    BY <1>0, <2>2, <2>3, <2>4 DEF ReachFound
  <2>5. CASE \E e \in NonLocal : Escape(e) /\ Reason(u)
    <3>1. PICK e \in NonLocal : Escape(e) /\ Reason(u)
      BY <2>5
    <3>2. \A i \in 1..Len(stack) : Bad(stack[i].val)
      BY <2>2, <3>1, AllBad
    <3>3. \A v \in Values : cache'[v] \in NonLocal => Bad(v)
      BY <1>0, <2>2, <3>1, <3>2, TopFrame DEF Escape
    <3>4. \A c \in Sites : c # stack[1].val => verdict'[c] = verdict[c]
      BY <3>1 DEF Escape, Decide, Typed
    <3> QED BY <1>0, <2>2, <2>3, <3>2, <3>3, <3>4 DEF ReachFound
  <2> QED BY <2>1, <2>4, <2>5 DEF Skip, Follow, Push
<1>4. CASE Finish
  <2>1. uses' = uses /\ calls' = calls
    BY <1>4 DEF Finish
  <2>2. \A v : Bad(v) => Bad(v)'
    BY <2>1, BadKept
  <2>3. \A v \in Values : cache'[v] \in NonLocal => cache[v] \in NonLocal
    BY <1>4 DEF Finish, Typed, NonLocal
  <2>4. \A c \in Sites : verdict'[c] \in NonLocal => verdict[c] \in NonLocal
    BY <1>4 DEF Finish, Decide, Typed, NonLocal
  <2> QED BY <1>0, <2>1, <2>2, <2>3, <2>4 DEF ReachFound
<1>5. CASE Rewrite \/ UNCHANGED vars
  <2>1. uses' = uses /\ calls' = calls /\ cache' = cache /\ verdict' = verdict
    BY <1>5 DEF Rewrite, vars
  <2>2. \A v : Bad(v) => Bad(v)'
    BY <2>1, BadKept
  <2> QED BY <1>0, <2>1, <2>2 DEF ReachFound
<1> QED BY <1>1, <1>2, <1>3, <1>4, <1>5 DEF Next, Compile

\* A block that stays in the function is released, unless the analysis meets a use it
\* does not know: no order of the sites, and no value it has cached, makes it give up
\* on anything else.
THEOREM LocalReleased == Spec => []ReleasesLocal
<1>1. Init => ReachInv
  <2> SUFFICES ASSUME Init PROVE ReachInv
    OBVIOUS
  <2>1. Len(stack) = 0
    BY DEF Init
  <2> QED BY <2>1, EscapeAssumption DEF Init, ReachInv, NonLocal
<1>2. Inv /\ ReachInv /\ [Next]_vars => ReachInv'
  <2>1. ReachFrames /\ ReachFound <=> ReachInv
    BY DEF ReachFrames, ReachFound, ReachInv
  <2>2. (ReachFrames /\ ReachFound)' <=> ReachInv'
    BY DEF ReachFrames, ReachFound, ReachInv
  <2> QED BY <2>2, ReachFramesStep, ReachFoundStep DEF Inv
<1>3. Inv /\ ReachInv => ReleasesLocal
  <2> SUFFICES ASSUME Typed, ReachInv, NEW c \in Sites, verdict[c] \in NonLocal
               PROVE  Leaves(c) \/ Freed(c) \/ GivesUp(c)
    BY DEF Inv, ReleasesLocal, NonLocal
  <2>1. CASE calls[c].form = "wrapped" \/ calls[c].kind = "posix_memalign"
    BY <2>1 DEF GivesUp
  <2>2. CASE Bad(c)
    BY <2>2 DEF Bad, Problem, Leaves, Freed, GivesUp, Escaping, Pointers
  <2> QED BY <2>1, <2>2 DEF ReachInv
<1> QED BY <1>1, <1>2, <1>3, Invariant, PTL DEF Spec

-----------------------------------------------------------------------------
(* The releases                                                            *)

Begun(c) == verdict[c] # Nothing \/ (stack # << >> /\ stack[1].val = c)
ReleaseOK(c) ==
  /\ stack = << >> /\ \A d \in Sites : verdict[d] # Nothing
  /\ release[c] = [place |-> Place(c), call |-> ReleaseOf(calls[c].kind), target |-> Target(c)]

ReleaseInv ==
  /\ \A c \in Sites : Begun(c) => calls[c] \in [kind : AllocKinds, form : Forms]
  /\ \A c \in Sites : release[c] # Nothing => ReleaseOK(c)

LEMMA ReleaseKept ==
  ASSUME NEW c \in Sites, ReleaseOK(c), UNCHANGED <<stack, verdict, calls, release>>
  PROVE  ReleaseOK(c)'
BY DEF ReleaseOK, Place, Target, HasUnreachableForm, ReleaseOf

LEMMA ReleaseStep ==
  ASSUME Typed, Framed, ReleaseInv, [Next]_vars
  PROVE  ReleaseInv'
<1>1. ASSUME NEW u \in AllUses, Write(u) PROVE ReleaseInv'
  <2>1. UNCHANGED <<stack, verdict, calls, release>>
    BY <1>1 DEF Write
  <2> QED BY <2>1, ReleaseKept DEF ReleaseInv, Begun
<1>2. ASSUME NEW c \in Sites, Begin(c) PROVE ReleaseInv'
  <2>1. verdict[c] = Nothing /\ release' = release
    BY <1>2 DEF Begin
  <2>2. \A d \in Sites : release[d] = Nothing
    BY <2>1 DEF ReleaseInv, ReleaseOK
  <2>3. calls'[c] \in [kind : AllocKinds, form : Forms]
    <3>1. PICK call \in Calls[c] : calls' = [calls EXCEPT ![c] = call]
      BY <1>2 DEF Begin
    <3>2. calls'[c] = call
      BY <3>1 DEF Typed
    <3>3. Calls[c] \subseteq [kind : AllocKinds, form : Forms]
      BY EscapeAssumption
    <3> QED BY <3>1, <3>2, <3>3
  <2>4. \A d \in Sites : d # c => calls'[d] = calls[d] /\ verdict'[d] = verdict[d]
    BY <1>2 DEF Begin, Decide, Typed
  <2>5. stack = << >> /\ (stack' # << >> => stack'[1].val = c)
    BY <1>2 DEF Begin
  <2> QED BY <2>1, <2>2, <2>3, <2>4, <2>5 DEF ReleaseInv, Begun
<1>3. CASE Visit
  <2>1. stack # << >> /\ UNCHANGED <<calls, release>>
    BY <1>3 DEF Visit
  <2>2. \A d \in Sites : release[d] = Nothing
    BY <2>1 DEF ReleaseInv, ReleaseOK
  <2>3. PICK u \in Top.pending :
           \/ Skip(u) /\ Harmless(u)
           \/ Follow(u) /\ u.kind = "flow" /\ Top.val \in Pointers
           \/ Push(u)
           \/ \E e \in NonLocal : Escape(e) /\ Reason(u)
    BY <1>3, VisitSteps
  <2>4. u \in AllUses /\ Len(stack) \in Nat \ {0} /\ (u.kind = "flow" => u.to \in Values)
    BY <2>1, TopFrame, UseTypes, Disjoint
  <2>5. \A d \in Sites : Begun(d)' => Begun(d)
    <3>1. CASE Skip(u)
      <4>1. stack'[1].val = stack[1].val
        <5>1. /\ stack'[Len(stack)] = [val |-> Top.val, pending |-> Top.pending \ {u}, seen |-> Top.seen]
              /\ \A i \in 1..Len(stack) : i # Len(stack) => stack'[i] = stack[i]
          BY <2>1, <2>4, <3>1, SkipStack
        <5> QED BY <2>4, <5>1 DEF Top
      <4> QED BY <2>1, <3>1, <4>1 DEF Begun, Skip
    <3>2. CASE Follow(u) /\ u.kind = "flow"
      <4> DEFINE p == (Top.pending \ {u}) \cup IF u.to \in Top.seen THEN {} ELSE UsesOf(u.to)
      <4>1. /\ stack'[Len(stack)] = [val |-> Top.val, pending |-> p, seen |-> Top.seen \cup {u.to}]
            /\ \A i \in 1..Len(stack) : i # Len(stack) => stack'[i] = stack[i]
        BY <2>1, <2>4, <3>2, FollowStack
      <4> HIDE DEF p
      <4>2. stack'[1].val = stack[1].val
        BY <2>4, <4>1 DEF Top
      <4> QED BY <2>1, <3>2, <4>2 DEF Begun, Follow
    <3>3. CASE Push(u)
      <4>1. stack'[1].val = stack[1].val
        <5>1. /\ stack'[Len(stack)] = [val |-> Top.val, pending |-> Top.pending \ {u}, seen |-> Top.seen]
              /\ \A i \in 1..Len(stack) : i # Len(stack) => stack'[i] = stack[i]
          BY <2>1, <2>4, <3>3, PushStack
        <5> QED BY <2>4, <5>1 DEF Top
      <4> QED BY <2>1, <3>3, <4>1 DEF Begun, Push
    <3>4. CASE \E e \in NonLocal : Escape(e)
      BY <2>1, <3>4 DEF Begun, Escape, Decide, Typed
    <3> QED BY <2>3, <3>1, <3>2, <3>3, <3>4
  <2> QED BY <2>1, <2>2, <2>5 DEF ReleaseInv
<1>4. CASE Finish
  <2>1. stack # << >> /\ UNCHANGED <<calls, release>>
    BY <1>4 DEF Finish
  <2>2. \A d \in Sites : release[d] = Nothing
    BY <2>1 DEF ReleaseInv, ReleaseOK
  <2>3. stack' # << >> => Len(stack') \in Nat \ {0}
    BY <1>4, FinishStack
  <2>4. stack' # << >> => stack'[1] = stack[1]
    BY <1>4, <2>3, FinishStack
  <2>5. \A d \in Sites : Begun(d)' => Begun(d)
    <3>1. ASSUME NEW d \in Sites, verdict'[d] # verdict[d] PROVE stack[1].val = d
      BY <1>4, <3>1 DEF Finish, Decide, Typed
    <3> QED BY <2>1, <2>4, <3>1 DEF Begun
  <2> QED BY <2>1, <2>2, <2>5 DEF ReleaseInv
<1>5. CASE Rewrite
  <2>1. stack = << >>
    BY <1>5 DEF Rewrite, Framed
  <2>2. \A c \in Sites : release'[c] =
          [place |-> Place(c), call |-> ReleaseOf(calls[c].kind), target |-> Target(c)]
    BY <1>5 DEF Rewrite
  <2>3. UNCHANGED <<stack, verdict, calls>> /\ \A d \in Sites : verdict[d] # Nothing
    BY <1>5 DEF Rewrite
  <2>4. \A c \in Sites : ReleaseOK(c)'
    BY <2>1, <2>2, <2>3 DEF ReleaseOK, Place, Target, HasUnreachableForm, ReleaseOf
  <2> QED BY <2>3, <2>4 DEF ReleaseInv, Begun
<1>6. CASE UNCHANGED vars
  <2>1. UNCHANGED <<stack, verdict, calls, release>>
    BY <1>6 DEF vars
  <2> QED BY <2>1, ReleaseKept DEF ReleaseInv, Begun
<1> QED BY <1>1, <1>2, <1>3, <1>4, <1>5, <1>6 DEF Next, Compile

\* Whatever makes the block and however it is called, it is released by the function
\* that belongs to it, and where it has been made.
THEOREM ReleaseAlwaysMatches == Spec => []ReleaseMatches
<1>1. Init => ReleaseInv
  BY DEF Init, ReleaseInv, Begun
<1>2. Inv /\ ReleaseInv /\ [Next]_vars => ReleaseInv'
  BY ReleaseStep DEF Inv
<1>3. ReleaseInv => ReleaseMatches
  <2> SUFFICES ASSUME ReleaseInv, NEW c \in Sites, release[c] # Nothing, release[c].place # "nowhere"
               PROVE  /\ release[c].call \in Matching(calls[c].kind)
                      /\ release[c].place = "before" => calls[c].form = "invoke"
                      /\ release[c].target = "__ct_unreachable" => release[c].place # "returns"
    BY DEF ReleaseMatches
  <2>1. ReleaseOK(c) /\ Begun(c)
    BY DEF ReleaseInv, ReleaseOK, Begun
  <2>2. calls[c].kind \in AllocKinds
    BY <2>1 DEF ReleaseInv
  <2>3. /\ release[c].call = ReleaseOf(calls[c].kind)
        /\ release[c].place = Place(c) /\ release[c].target = Target(c)
    BY <2>1 DEF ReleaseOK
  <2>4. ReleaseOf(calls[c].kind) \in Matching(calls[c].kind)
    BY <2>2 DEF AllocKinds, ReleaseOf, Matching
  <2>5. Place(c) = "before" => calls[c].form = "invoke"
    BY DEF Place
  <2>6. Target(c) = "__ct_unreachable" => Place(c) # "returns"
    BY DEF Target, Place
  <2> QED BY <2>3, <2>4, <2>5, <2>6
<1> QED BY <1>1, <1>2, <1>3, Invariant, PTL DEF Spec

-----------------------------------------------------------------------------
(* The depth of the recursion                                              *)

LEMMA Depth ==
  ASSUME Typed, Framed
  PROVE  Len(stack) <= 2 * Cardinality(Values \ Slots)
<1> DEFINE n == Len(stack)
           A == {i \in 1..n : stack[i].val \notin Slots}
           B == {i \in 1..n : stack[i].val \in Slots}
<1>1. n \in Nat /\ \A i \in 1..n : stack[i].val \in Values
  <2>1. n \in Nat /\ \A i \in 1..n : stack[i] \in Frames
    BY DEF Typed
  <2> QED BY <2>1 DEF Frames
<1>2. IsFiniteSet(Values \ Slots) /\ Cardinality(Values \ Slots) \in Nat
  BY EscapeAssumption, FS_Subset, FS_CardinalityType
<1>3. IsFiniteSet(A) /\ Cardinality(A) <= Cardinality(Values \ Slots)
  <2> DEFINE f == [i \in A |-> stack[i].val]
  <2>1. f \in Injection(A, Values \ Slots)
    BY <1>1 DEF Framed, Injection, IsInjective
  <2> QED BY <1>2, <2>1, FS_Injection DEF ExistsInjection
<1>4. IsFiniteSet(B) /\ Cardinality(B) <= Cardinality(A)
  <2> DEFINE f == [i \in B |-> i - 1]
  <2>1. \A i \in B : i > 1 /\ i - 1 \in A
    BY <1>1 DEF Framed
  <2>2. f \in Injection(B, A)
    <3> HIDE DEF A
    <3>1. B \subseteq Nat
      BY <1>1
    <3> QED BY <2>1, <3>1 DEF Injection, IsInjective
  <2> QED BY <1>3, <2>2, FS_Injection DEF ExistsInjection
<1>5. 1..n = A \cup B /\ A \cap B = {}
  OBVIOUS
<1>6. Cardinality(1..n) = n
  <2> HIDE DEF n
  <2>1. Cardinality(1..n) = IF 1 > n THEN 0 ELSE n - 1 + 1
    BY <1>1, FS_Interval
  <2> QED BY <1>1, <2>1
<1>7. Cardinality(A \cup B) = Cardinality(A) + Cardinality(B)
  <2>1. Cardinality(A \cup B) = Cardinality(A) + Cardinality(B) - Cardinality(A \cap B)
    BY <1>3, <1>4, FS_Union
  <2>2. Cardinality(A \cap B) = 0
    BY <1>5, FS_EmptySet
  <2>3. Cardinality(A) \in Nat /\ Cardinality(B) \in Nat
    BY <1>3, <1>4, FS_CardinalityType
  <2> HIDE DEF A, B
  <2> QED BY <2>1, <2>2, <2>3
<1>8. Cardinality(A) \in Nat /\ Cardinality(B) \in Nat
  BY <1>3, <1>4, FS_CardinalityType
<1> HIDE DEF n, A, B
<1>9. n = Cardinality(A) + Cardinality(B)
  BY <1>5, <1>6, <1>7, Zenon
<1>10. n <= 2 * Cardinality(Values \ Slots)
  BY <1>1, <1>2, <1>3, <1>4, <1>8, <1>9
<1> QED BY <1>10 DEF n

\* The three classifications are well typed, and their recursion ends at twice the
\* number of values that are no variables, for every function.
THEOREM TypeCorrect == Spec => []TypeOK
<1>1. Inv => TypeOK
  <2> SUFFICES ASSUME Typed, Framed PROVE TypeOK
    BY DEF Inv
  <2>1. \A i \in DOMAIN stack : \A u \in stack[i].pending : u \in uses /\ u.of \in stack[i].seen
    <3>1. DOMAIN stack = 1..Len(stack)
      BY DEF Typed
    <3> QED BY <3>1 DEF Framed, FrameOK, FrameIn
  <2> QED BY <2>1, Depth DEF Typed, TypeOK
<1> QED BY <1>1, Invariant, PTL

-----------------------------------------------------------------------------
(* The analysis makes progress                                             *)

\* What is left to do for a frame: the uses it has still to look at, and those of
\* the values it may still meet.
Open(f, some) == f.pending \cup {u \in some : u.of \notin f.seen}
Size(f) == 1 + Cardinality(Open(f, uses))
Weight(i) == IF i \in 1..Len(stack) THEN Size(stack[i]) ELSE 0

\* While a site is being classified, each step takes away from some frame and changes
\* none below it; those above may be new.
Lessens(i) == Weight(i)' < Weight(i) /\ \A j \in 1..i-1 : Weight(j)' = Weight(j)
EachLessens == stack # << >> => \E i \in 1..Len(stack) : Lessens(i)
AnalysisShrinks ==
  /\ [](\A i \in 1..Len(stack) : Weight(i) <= MaxUses + 1)
  /\ [][EachLessens]_vars

LEMMA OpenUses ==
  ASSUME Typed, NEW f, FrameOK(f)
  PROVE  /\ Open(f, uses) \subseteq uses /\ IsFiniteSet(Open(f, uses))
         /\ Size(f) \in Nat \ {0} /\ Size(f) <= MaxUses + 1
<1> DEFINE S == Open(f, uses)
<1>1. S \subseteq uses
  BY DEF FrameOK, FrameIn, Open
<1>2. IsFiniteSet(uses) /\ Cardinality(uses) <= MaxUses /\ MaxUses \in Nat
  BY EscapeAssumption DEF Typed
<1> HIDE DEF S
<1>3. IsFiniteSet(S) /\ Cardinality(S) <= Cardinality(uses)
  BY <1>1, <1>2, FS_Subset
<1>4. Cardinality(S) \in Nat /\ Cardinality(uses) \in Nat
  BY <1>2, <1>3, FS_CardinalityType
<1>5. 1 + Cardinality(S) \in Nat \ {0} /\ 1 + Cardinality(S) <= MaxUses + 1
  BY <1>2, <1>3, <1>4
<1> QED BY <1>1, <1>3, <1>5 DEF S, Size

LEMMA SizeLess ==
  ASSUME Typed, NEW f, FrameOK(f), NEW u \in f.pending, NEW g, Open(g, uses) \subseteq Open(f, uses) \ {u}
  PROVE  Size(g) < Size(f)
<1> DEFINE S == Open(f, uses)
           T == Open(g, uses)
           R == S \ {u}
<1>1. u \in S /\ T \subseteq R /\ IsFiniteSet(S)
  BY OpenUses DEF Open
<1> HIDE DEF S, T
<1>2. IsFiniteSet(R) /\ Cardinality(R) = Cardinality(S) - 1
  BY <1>1, FS_RemoveElement
<1> HIDE DEF R
<1>3. IsFiniteSet(T) /\ Cardinality(T) <= Cardinality(R)
  BY <1>1, <1>2, FS_Subset
<1>4. Cardinality(T) \in Nat /\ Cardinality(R) \in Nat /\ Cardinality(S) \in Nat
  BY <1>1, <1>2, <1>3, FS_CardinalityType
<1>5. 1 + Cardinality(T) < 1 + Cardinality(S)
  BY <1>2, <1>3, <1>4
<1> QED BY <1>5 DEF S, T, Size

\* A step that takes the use u from the top frame, whatever it puts above it.
LEMMA TopLessens ==
  ASSUME Typed, Framed, stack # << >>, uses' = uses, NEW u \in Top.pending,
         Len(stack') \in Nat, Len(stack') >= Len(stack),
         \A i \in 1..Len(stack) : i # Len(stack) => stack'[i] = stack[i],
         Open(stack'[Len(stack)], uses) \subseteq Open(Top, uses) \ {u}
  PROVE  EachLessens
<1>0. Len(stack) \in Nat \ {0} /\ FrameOK(Top)
  BY TopFrame, Zenon
<1> PICK n \in Nat \ {0} : n = Len(stack)
  BY <1>0
<1>1. Top = stack[n]
  BY DEF Top
<1>2. Size(stack'[n]) < Size(stack[n])
  BY <1>0, <1>1, SizeLess
<1>3. \A i \in 1..n : Weight(i) = Size(stack[i])
  BY DEF Weight
<1>4. \A i \in 1..n : Weight(i)' = Size(stack'[i])
  <2> SUFFICES ASSUME NEW i \in 1..n PROVE Weight(i)' = Size(stack'[i])
    OBVIOUS
  <2>1. i \in 1..Len(stack')
    OBVIOUS
  <2> QED BY <2>1 DEF Weight, Size
<1>5. n \in 1..n /\ \A j \in 1..n-1 : j \in 1..n /\ j # n
  OBVIOUS
<1>6. Weight(n)' < Weight(n)
  BY <1>2, <1>3, <1>4, <1>5
<1>7. \A j \in 1..n-1 : Weight(j)' = Weight(j)
  BY <1>3, <1>4, <1>5
<1> QED BY <1>5, <1>6, <1>7 DEF EachLessens, Lessens

LEMMA StepLessens ==
  ASSUME Typed, Framed, Next
  PROVE  EachLessens
<1> SUFFICES ASSUME stack # << >> PROVE EachLessens
  BY DEF EachLessens
<1>6. Len(stack) \in Nat \ {0}
  BY TopFrame, Zenon
<1> PICK n \in Nat \ {0} : n = Len(stack)
  BY <1>6
<1>0. FrameOK(Top) /\ Top = stack[n] /\ stack[1].val \in Sites
  BY TopFrame DEF Framed, Top
<1>1. ASSUME NEW u \in AllUses, Write(u) PROVE FALSE
  BY <1>1 DEF Write
<1>2. ASSUME NEW c \in Sites, Begin(c) PROVE FALSE
  BY <1>2 DEF Begin
<1>3. CASE Visit
  <2>1. uses' = uses
    BY <1>3 DEF Visit
  <2>2. PICK u \in Top.pending :
           \/ Skip(u) /\ Harmless(u)
           \/ Follow(u) /\ u.kind = "flow" /\ Top.val \in Pointers
           \/ Push(u)
           \/ \E e \in NonLocal : Escape(e) /\ Reason(u)
    BY <1>3, VisitSteps
  <2>3. u \in AllUses /\ u \in uses /\ u.of \in Top.seen
    BY <1>0, TopFrame DEF FrameOK, FrameIn
  <2>4. ASSUME stack'[n] = [val |-> Top.val, pending |-> Top.pending \ {u}, seen |-> Top.seen]
        PROVE  Open(stack'[n], uses) \subseteq Open(Top, uses) \ {u}
    <3>1. stack'[n].pending = Top.pending \ {u} /\ stack'[n].seen = Top.seen
      BY <2>4
    <3> QED BY <2>3, <3>1 DEF Open
  <2>5. CASE Skip(u)
    <3>1. Len(stack') = n /\ Open(stack'[n], uses) \subseteq Open(Top, uses) \ {u}
      BY <2>4, <2>5, SkipStack
    <3>2. Len(stack') \in Nat /\ Len(stack') >= n
      BY <3>1
    <3> QED BY <2>1, <2>5, <3>1, <3>2, SkipStack, TopLessens
  <2>6. CASE Follow(u) /\ u.kind = "flow"
    <3>1. u.to \in Values
      BY <2>3, <2>6, UseTypes, Disjoint
    <3>2. stack'[n] = [val |-> Top.val,
                       pending |-> (Top.pending \ {u}) \cup IF u.to \in Top.seen THEN {} ELSE UsesOf(u.to),
                       seen |-> Top.seen \cup {u.to}]
      BY <2>6, <3>1, FollowStack
    <3>3. /\ stack'[n].pending = (Top.pending \ {u}) \cup IF u.to \in Top.seen THEN {} ELSE UsesOf(u.to)
          /\ stack'[n].seen = Top.seen \cup {u.to}
      BY <3>2
    <3>4. Open(stack'[n], uses) \subseteq Open(Top, uses) \ {u}
      BY <2>3, <3>3 DEF Open, UsesOf
    <3>5. Len(stack') = n
      BY <2>6, <3>1, FollowStack
    <3>6. Len(stack') \in Nat /\ Len(stack') >= n
      BY <3>5
    <3> QED BY <2>1, <2>6, <3>1, <3>4, <3>6, FollowStack, TopLessens
  <2>7. CASE Push(u)
    <3>1. Len(stack') = n + 1 /\ Open(stack'[n], uses) \subseteq Open(Top, uses) \ {u}
      BY <2>4, <2>7, PushStack
    <3>2. Len(stack') \in Nat /\ Len(stack') >= n
      BY <3>1
    <3> QED BY <2>1, <2>7, <3>1, <3>2, PushStack, TopLessens
  <2>8. CASE \E e \in NonLocal : Escape(e)
    <3>1. Len(stack') = 0
      BY <2>8, EscapeStack
    <3>2. Weight(1)' = 0
      BY <3>1 DEF Weight
    <3>3. 1 \in 1..n /\ FrameOK(stack[1])
      BY <1>0 DEF Framed
    <3>4. Weight(1) = Size(stack[1]) /\ Size(stack[1]) \in Nat \ {0}
      BY <3>3, OpenUses DEF Weight
    <3>5. Weight(1)' < Weight(1)
      BY <3>2, <3>4
    <3> QED BY <3>3, <3>5 DEF EachLessens, Lessens
  <2> QED BY <2>2, <2>5, <2>6, <2>7, <2>8
<1>4. CASE Finish
  <2>1. uses' = uses /\ Len(stack') = n - 1
    BY <1>4, FinishStack DEF Finish
  <2>2. \A i \in 1..n-1 : stack'[i] = stack[i] /\ i \in 1..n /\ i \in 1..Len(stack')
    BY <1>0, <1>4, <2>1, FinishStack
  <2>3. n \in 1..n /\ ~ (n \in 1..Len(stack'))
    BY <1>0, <2>1
  <2>4. Weight(n)' = 0 /\ Weight(n) = Size(Top) /\ Size(Top) \in Nat \ {0}
    BY <1>0, <2>3, OpenUses DEF Weight, Top
  <2>5. Weight(n)' < Weight(n)
    BY <2>4
  <2>6. \A j \in 1..n-1 : Weight(j)' = Weight(j)
    BY <2>1, <2>2 DEF Weight, Size
  <2> QED BY <2>3, <2>5, <2>6 DEF EachLessens, Lessens
<1>5. ~ Rewrite
  BY <1>0 DEF Rewrite, Framed
<1> QED BY <1>1, <1>2, <1>3, <1>4, <1>5 DEF Next, Compile

\* The classification of a site comes to an end, on loops of casts, integers and
\* variables as well: each step lessens, from the bottom of the stack, the first of
\* at most 2 * |Values \ Slots| numbers (TypeCorrect) of at most MaxUses + 1 that it
\* changes.
THEOREM AnalysisAlwaysShrinks == Spec => AnalysisShrinks
<1>1. Inv => \A i \in 1..Len(stack) : Weight(i) <= MaxUses + 1
  <2> SUFFICES ASSUME Typed, Framed, NEW i \in 1..Len(stack) PROVE Weight(i) <= MaxUses + 1
    BY DEF Inv
  <2> QED BY OpenUses DEF Framed, Weight
<1>2. Inv /\ [Next]_vars => [EachLessens]_vars
  BY StepLessens DEF Inv
<1> QED BY <1>1, <1>2, Invariant, PTL DEF Spec, AnalysisShrinks

=============================================================================
