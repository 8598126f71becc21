--------------------------- MODULE CtOptionsProofs ---------------------------
(***************************************************************************)
(* What a command line of any length amounts to: the fold of CtOptions     *)
(* over the options gives each feature the value that the last option      *)
(* which names it says.  The library's induction theorems cannot be cited, *)
(* but that < is well founded can: the induction is on the least           *)
(* counterexample.                                                         *)
(***************************************************************************)
EXTENDS CtOptions, TLAPS, WellFoundedInduction

LEMMA LeastNat ==
  ASSUME NEW T, T \subseteq Nat, T # {}
  PROVE  \E n \in T : \A m \in T : n <= m
<1>1. PICK n \in T : \A m \in T : ~ (<<m, n>> \in OpToRel(<, Nat))
  BY NatLessThanWellFounded, WFMin
<1>2. ASSUME NEW m \in T PROVE n <= m
  <2>1. ~ (<<m, n>> \in OpToRel(<, Nat))
    BY <1>1
  <2>2. ~ (m < n)
    BY <2>1 DEF OpToRel
  <2> QED BY <2>2
<1> QED BY <1>2

LEMMA Induction ==
  ASSUME NEW S, S \subseteq Nat, 0 \in S, \A n \in S : n + 1 \in S
  PROVE  S = Nat
<1> SUFFICES ASSUME Nat \ S # {} PROVE FALSE
  OBVIOUS
<1>1. PICK n \in Nat \ S : \A m \in Nat \ S : n <= m
  BY LeastNat
<1>2. n - 1 \in Nat /\ n - 1 \in S
  BY <1>1
<1> QED BY <1>2

LEMMA GreatestIndex ==
  ASSUME NEW n \in Nat, NEW s, s \subseteq 1..n, s # {}
  PROVE  Max(s) \in s /\ \A i \in s : i <= Max(s)
<1> DEFINE T == {m \in Nat : \A i \in s : i <= m}
<1>1. n \in T /\ T \subseteq Nat
  OBVIOUS
<1>2. PICK m \in T : \A k \in T : m <= k
  BY <1>1, LeastNat
<1>3. m \in s
  <2> SUFFICES ASSUME m \notin s PROVE FALSE
    OBVIOUS
  <2>1. PICK i \in s : TRUE
    OBVIOUS
  <2>2. m - 1 \in Nat
    BY <1>2, <2>1
  <2>3. m - 1 \in T
    BY <1>2, <2>2
  <2> QED BY <1>2, <2>2, <2>3
<1>4. \E x \in s : \A y \in s : x >= y
  BY <1>2, <1>3
<1> QED BY <1>4 DEF Max

-----------------------------------------------------------------------------
(* The fold, by the options with an index in s                             *)

StepOf(options, g) ==
  [s \in SUBSET DOMAIN options |->
     IF s = {} THEN Defaults ELSE Apply(g[s \ {Max(s)}], options[Max(s)])]

\* f is on: it was by default or an option says so, and no later one turns it off.
OnAfter(options, s, f) ==
  \/ f \in Defaults /\ \A i \in s : f \notin options[i].off \/ f \in options[i].on
  \/ \E i \in s : f \in options[i].on /\ \A j \in s : j > i => f \notin options[j].off \/ f \in options[j].on
Closed(options) ==
  [s \in SUBSET DOMAIN options |->
     {f \in Defaults \cup UNION {options[i].on : i \in DOMAIN options} : OnAfter(options, s, f)}]

LEMMA ClosedStep ==
  ASSUME NEW options, NEW n \in Nat, DOMAIN options = 1..n, NEW s, s \subseteq 1..n, s # {}
  PROVE  Closed(options)[s] = Apply(Closed(options)[s \ {Max(s)}], options[Max(s)])
<1> DEFINE m == Max(s)
           r == s \ {m}
           U == Defaults \cup UNION {options[i].on : i \in DOMAIN options}
<1>1. m \in s /\ m \in 1..n /\ \A i \in s : i <= m
  BY GreatestIndex
<1> HIDE DEF m
<1>2. options[m].on \subseteq U
  BY <1>1
<1>3. ASSUME NEW f
      PROVE  OnAfter(options, s, f) <=> \/ f \in options[m].on
                                        \/ OnAfter(options, r, f) /\ f \notin options[m].off
  <2>1. CASE f \in options[m].on
    BY <1>1, <2>1 DEF OnAfter
  <2>2. CASE f \notin options[m].on /\ f \in options[m].off
    BY <1>1, <2>2 DEF OnAfter
  <2>3. CASE f \notin options[m].on /\ f \notin options[m].off
    <3>1. s = r \cup {m}
      BY <1>1
    <3>2. \A i \in r : m > i
      BY <1>1
    <3> QED BY <1>1, <2>3, <3>1, <3>2 DEF OnAfter
  <2> QED BY <2>1, <2>2, <2>3
<1>4. Closed(options)[s] = {f \in U : OnAfter(options, s, f)}
  BY DEF Closed
<1>5. Closed(options)[r] = {f \in U : OnAfter(options, r, f)}
  BY DEF Closed
<1>6. Closed(options)[s] = Apply(Closed(options)[r], options[m])
  <2> HIDE DEF r, U
  <2> QED BY <1>2, <1>3, <1>4, <1>5, Zenon DEF Apply
<1> QED BY <1>6 DEF m, r

LEMMA ClosedFold ==
  ASSUME NEW options, NEW n \in Nat, DOMAIN options = 1..n
  PROVE  Closed(options) = StepOf(options, Closed(options))
<1>1. Closed(options)[{}] = Defaults
  BY DEF Closed, OnAfter
<1>2. \A s \in SUBSET DOMAIN options :
        Closed(options)[s] = IF s = {} THEN Defaults
                             ELSE Apply(Closed(options)[s \ {Max(s)}], options[Max(s)])
  BY <1>1, ClosedStep
<1>3. Closed(options) = [s \in SUBSET DOMAIN options |-> Closed(options)[s]]
  BY DEF Closed
<1> HIDE DEF Closed
<1> QED BY <1>2, <1>3 DEF StepOf

LEMMA ExtractClosed ==
  ASSUME NEW options, NEW n \in Nat, DOMAIN options = 1..n
  PROVE  Extract(options) = Closed(options)[1..n]
<1> DEFINE iter == CHOOSE g : g = StepOf(options, g)
<1>1. Extract(options) = iter[1..n]
  BY DEF Extract, FoldLeft, MapThenFoldSet, StepOf
<1>2. iter = StepOf(options, iter)
  BY ClosedFold
<1> HIDE DEF iter
<1> DEFINE S == {k \in Nat : k <= n => iter[1..k] = Closed(options)[1..k]}
<1>3. 0 \in S
  <2>1. 1..0 = {}
    OBVIOUS
  <2>2. iter[{}] = Defaults
    BY <1>2 DEF StepOf
  <2>3. Closed(options)[{}] = Defaults
    BY DEF Closed, OnAfter
  <2> QED BY <2>1, <2>2, <2>3
<1>4. ASSUME NEW k \in S PROVE k + 1 \in S
  <2> SUFFICES ASSUME k + 1 <= n PROVE iter[1..k+1] = Closed(options)[1..k+1]
    OBVIOUS
  <2> k \in Nat
    OBVIOUS
  <2>1. 1..k+1 \subseteq 1..n /\ k + 1 \in 1..k+1
    OBVIOUS
  <2>2. Max(1..k+1) = k + 1
    <3>1. Max(1..k+1) \in 1..k+1 /\ \A i \in 1..k+1 : i <= Max(1..k+1)
      BY <2>1, GreatestIndex
    <3> QED BY <2>1, <3>1
  <2>3. (1..k+1) \ {k+1} = 1..k
    OBVIOUS
  <2>4. iter[1..k+1] = Apply(iter[1..k], options[k+1])
    BY <1>2, <2>1, <2>2, <2>3 DEF StepOf
  <2>5. Closed(options)[1..k+1] = Apply(Closed(options)[1..k], options[k+1])
    <3>1. Closed(options)[1..k+1]
            = Apply(Closed(options)[(1..k+1) \ {Max(1..k+1)}], options[Max(1..k+1)])
      BY <2>1, ClosedStep
    <3> QED BY <2>2, <2>3, <3>1
  <2> QED BY <2>4, <2>5
<1>5. S = Nat
  <2> HIDE DEF S
  <2>1. S \subseteq Nat
    BY DEF S
  <2> QED BY <1>3, <1>4, <2>1, Induction
<1> QED BY <1>1, <1>5

LEMMA ExtractOnAfter ==
  ASSUME NEW options \in Seq(CtOptions), NEW f
  PROVE  f \in Extract(options) <=> OnAfter(options, DOMAIN options, f)
<1>1. Len(options) \in Nat /\ DOMAIN options = 1..Len(options)
  OBVIOUS
<1>2. Extract(options) = Closed(options)[DOMAIN options]
  BY <1>1, ExtractClosed
<1>3. OnAfter(options, DOMAIN options, f)
        => f \in Defaults \cup UNION {options[i].on : i \in DOMAIN options}
  BY DEF OnAfter
<1> QED BY <1>2, <1>3 DEF Closed

LEMMA ShadowWithAggressive ==
  ASSUME NEW options \in Seq(CtOptions), "shadow_aggressive" \in Extract(options)
  PROVE  "shadow" \in Extract(options)
<1>1. \A o \in CtOptions : /\ "shadow" \notin o.off
                           /\ "shadow_aggressive" \in o.on => "shadow" \in o.on
  <2>1. \A f \in Features \ {"vtable", "shadow_aggressive"} : 
           On(f).on = {f} /\ On(f).off = {}
    BY DEF On, Option
  <2>2. \A f \in Features : Off(f).on = {} /\ Off(f).off = {f}
    BY DEF Off, Option
  <2>3. \A list \in SUBSET Modules : CtModules(list).on = list /\ CtModules(list).off = Modules
    BY DEF CtModules, Option
  <2>4. Aggressive.on = {"shadow", "shadow_aggressive"} /\ Aggressive.off = {}
    BY DEF Aggressive, Option
  <2>5. Option({}, {}).on = {} /\ Option({}, {}).off = {}
    BY DEF Option
  <2> QED BY <2>1, <2>2, <2>3, <2>4, <2>5 DEF CtOptions, Modules
<1>2. \A i \in DOMAIN options : options[i] \in CtOptions
  OBVIOUS
<1>3. PICK i \in DOMAIN options : "shadow_aggressive" \in options[i].on
  BY ExtractOnAfter DEF OnAfter, Defaults
<1>4. OnAfter(options, DOMAIN options, "shadow")
  BY <1>1, <1>2, <1>3 DEF OnAfter
<1> QED BY <1>4, ExtractOnAfter

\* extractRuntimeConfig, for a command line of any length: a feature is on if and only if
\* the last option that names it says so, or none names it and it is on by default.
THEOREM ExtractIsLastSays ==
  ASSUME NEW options \in Seq(CtOptions), NEW f
  PROVE  f \in Extract(options) <=> LastSays(options, f)
<1> DEFINE n == Len(options)
           naming == {i \in DOMAIN options : f \in options[i].off \cup options[i].on}
           last == CHOOSE i \in naming : \A j \in naming : j <= i
<1>1. n \in Nat /\ DOMAIN options = 1..n
  OBVIOUS
<1>2. f \in Extract(options) <=> OnAfter(options, 1..n, f)
  BY <1>1, ExtractOnAfter
<1>3. CASE naming = {}
  <2>1. \A i \in 1..n : f \notin options[i].off /\ f \notin options[i].on
    BY <1>1, <1>3
  <2> QED BY <1>2, <1>3, <2>1 DEF LastSays, OnAfter
<1>4. CASE naming # {}
  <2>1. \E i \in naming : \A j \in naming : j <= i
    BY <1>1, <1>4, GreatestIndex
  <2>2. last \in naming /\ \A j \in naming : j <= last
    BY <2>1
  <2>3. LastSays(options, f) <=> f \in options[last].on
    BY <1>4 DEF LastSays
  <2> HIDE DEF last
  <2>4. last \in 1..n /\ \A j \in 1..n : j > last => f \notin options[j].off /\ f \notin options[j].on
    BY <1>1, <2>2
  <2>5. f \in options[last].off \/ f \in options[last].on
    BY <2>2
  <2>6. f \in options[last].on => OnAfter(options, 1..n, f)
    BY <2>4 DEF OnAfter
  <2>7. f \notin options[last].on => ~ OnAfter(options, 1..n, f)
    BY <2>4, <2>5 DEF OnAfter
  <2> QED BY <1>2, <2>3, <2>6, <2>7
<1> QED BY <1>3, <1>4
=============================================================================
