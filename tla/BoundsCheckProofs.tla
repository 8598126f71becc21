-------------------------- MODULE BoundsCheckProofs --------------------------
(***************************************************************************)
(* The records, the blocks and the shadow agree, for any number of         *)
(* threads, any memory and any choice of features: what the check of an    *)
(* access reports, and what it lets pass.                                  *)
(***************************************************************************)
EXTENDS BoundsCheck, FiniteSetTheorems, TLAPS

(***************************************************************************)
(* Indexes                                                                 *)
(***************************************************************************)

LEMMA Division ==
  ASSUME NEW a \in Int, NEW g \in Nat \ {0}
  PROVE  /\ a \div g \in Int /\ a % g \in 0..g-1
         /\ a = ((a \div g) * g) + (a % g)
         /\ a >= 0 => a \div g \in Nat
  OBVIOUS

LEMMA Times ==
  ASSUME NEW a \in Int, NEW b \in Int, NEW g \in Nat, a <= b
  PROVE  a * g <= b * g
  OBVIOUS

LEMMA Plus == ASSUME NEW a \in Int, NEW g \in Int PROVE (a + 1) * g = (a * g) + g
  OBVIOUS

\* The quotient is the only number with this property.
LEMMA Quotient ==
  ASSUME NEW a \in Int, NEW g \in Nat \ {0}, NEW i \in Int, i * g <= a, a < (i * g) + g
  PROVE  a \div g = i
<1> DEFINE q == a \div g
<1>1. q \in Int /\ q * g <= a /\ a < (q * g) + g /\ q * g \in Int /\ i * g \in Int
  BY Division
<1> HIDE DEF q
<1>2. CASE q < i
  <2>1. (q + 1) * g <= i * g /\ (q + 1) * g = (q * g) + g
    BY <1>1, <1>2, Times, Plus
  <2> QED BY <1>1, <2>1
<1>3. CASE i < q
  <2>1. (i + 1) * g <= q * g /\ (i + 1) * g = (i * g) + g
    BY <1>1, <1>3, Times, Plus
  <2> QED BY <1>1, <2>1
<1> QED BY <1>1, <1>2, <1>3 DEF q

LEMMA QuotientGrows ==
  ASSUME NEW a \in Int, NEW b \in Int, NEW g \in Nat \ {0}, a <= b
  PROVE  a \div g <= b \div g
<1> DEFINE q == a \div g
           r == b \div g
<1>1. /\ q \in Int /\ q * g <= a /\ q * g \in Int
      /\ r \in Int /\ b < (r * g) + g /\ r * g \in Int
  BY Division
<1> HIDE DEF q, r
<1>2. CASE r < q
  <2>1. (r + 1) * g <= q * g /\ (r + 1) * g = (r * g) + g
    BY <1>1, <1>2, Times, Plus
  <2> QED BY <1>1, <2>1
<1> QED BY <1>1, <1>2 DEF q, r

\* A granule: its first address, and what comes after.
LEMMA IndexOf ==
  ASSUME NEW a \in Nat
  PROVE  /\ Index(a) \in Nat /\ Index(a) * Granule \in Nat
         /\ a = (Index(a) * Granule) + (a % Granule) /\ a % Granule \in 0..Granule-1
<1>1. a \in Int /\ a >= 0 /\ Granule \in Nat \ {0} /\ Granule \in Nat
  BY GranuleAssumption
<1>2. /\ a \div Granule \in Int /\ a % Granule \in 0..Granule-1
      /\ a = ((a \div Granule) * Granule) + (a % Granule)
      /\ a >= 0 => a \div Granule \in Nat
  BY <1>1, Division, Zenon
<1> DEFINE i == a \div Granule
           r == a % Granule
<1>3. i \in Nat /\ r \in 0..Granule-1 /\ a = (i * Granule) + r
  BY <1>1, <1>2
<1> HIDE DEF i, r
<1>4. i * Granule \in Nat
  BY <1>1, <1>3
<1> QED BY <1>3, <1>4 DEF i, r, Index

LEMMA IndexNat == \A a \in Nat : Index(a) \in Nat
BY IndexOf

\* The granules before and after an aligned address are others.
LEMMA AlignedIndex ==
  ASSUME NEW a \in Nat, NEW b \in Nat, b % Granule = 0
  PROVE  /\ Index(b) * Granule = b
         /\ a < b <=> Index(a) < Index(b)
<1> DEFINE i == Index(a)
           j == Index(b)
<1>1. /\ i \in Nat /\ i * Granule \in Nat /\ a = (i * Granule) + (a % Granule) /\ a % Granule \in 0..Granule-1
      /\ j \in Nat /\ j * Granule \in Nat /\ b = (j * Granule) + (b % Granule)
  BY IndexOf, Zenon
<1>9. i * Granule <= a /\ a < (i * Granule) + Granule /\ j * Granule = b
  <2> HIDE DEF i, j
  <2>1. \A x, y, r \in Nat : \A g \in Nat : a = x + r /\ r \in 0..g-1 => x <= a /\ a < x + g
    OBVIOUS
  <2>2. \A y \in Nat : b = y + 0 => y = b
    OBVIOUS
  <2> QED BY <1>1, <2>1, <2>2, GranuleAssumption
<1>2. Granule \in Nat
  BY GranuleAssumption
<1>3. a >= b => i >= j
  BY QuotientGrows, GranuleAssumption DEF Index
<1> HIDE DEF i, j
<1>4. ASSUME i >= j PROVE a >= b
  <2>1. j * Granule <= i * Granule
    BY <1>1, <1>2, <1>4, Times
  <2> QED BY <1>1, <2>1
<1> QED BY <1>1, <1>3, <1>4 DEF i, j

(***************************************************************************)
(* The shadow                                                              *)
(***************************************************************************)

ShadowTyped(sh) ==
  /\ DOMAIN sh = IndexesOf(PagesOf(DOMAIN sh)) /\ DOMAIN sh \subseteq Int
  /\ \A i \in DOMAIN sh : sh[i] \in Bytes
  /\ Cardinality(PagesOf(DOMAIN sh)) <= MaxPages

LEMMA PageOf == ASSUME NEW i \in Int PROVE Page(i) \in Int
BY Division, PageAssumption DEF Page

LEMMA InPage ==
  ASSUME NEW p \in Int, NEW i \in p * PageSize .. (p + 1) * PageSize - 1
  PROVE  i \in Int /\ Page(i) = p
<1>1. PageSize \in Nat \ {0} /\ PageSize \in Int
  BY PageAssumption
<1>2. p * PageSize \in Int /\ (p + 1) * PageSize = (p * PageSize) + PageSize
  BY <1>1, Plus
<1> DEFINE x == p * PageSize
<1>3. i \in Int /\ x <= i /\ i < x + PageSize
  <2>1. i \in x .. (x + PageSize) - 1
    BY <1>2
  <2> HIDE DEF x
  <2> QED BY <1>1, <1>2, <2>1 DEF x
<1> QED BY <1>1, <1>3, Quotient DEF Page

LEMMA OwnPage ==
  ASSUME NEW i \in Int
  PROVE  i \in Page(i) * PageSize .. (Page(i) + 1) * PageSize - 1
<1>1. PageSize \in Nat \ {0} /\ PageSize \in Int
  BY PageAssumption
<1> DEFINE p == Page(i)
           x == p * PageSize
           r == i % PageSize
<1>2. p \in Int /\ r \in 0..PageSize-1 /\ i = x + r
  BY <1>1, Division, Zenon DEF Page
<1> HIDE DEF p, r
<1>3. x \in Int /\ (p + 1) * PageSize = x + PageSize
  BY <1>1, <1>2, Plus
<1> HIDE DEF x
<1>4. i \in x .. (x + PageSize) - 1
  BY <1>1, <1>2, <1>3
<1> QED BY <1>3, <1>4 DEF x, p

LEMMA PagesIndexes ==
  ASSUME NEW P, P \subseteq Int
  PROVE  PagesOf(IndexesOf(P)) = P /\ IndexesOf(P) \subseteq Int
<1>1. ASSUME NEW i \in IndexesOf(P) PROVE i \in Int /\ Page(i) \in P
  BY <1>1, InPage DEF IndexesOf
<1>2. ASSUME NEW p \in P PROVE \E i \in IndexesOf(P) : Page(i) = p
  <2>1. PageSize \in Nat \ {0} /\ p \in Int
    BY PageAssumption
  <2> DEFINE x == p * PageSize
  <2>2. x \in Int /\ (p + 1) * PageSize = x + PageSize
    BY <2>1, Plus
  <2>3. x \in x .. (x + PageSize) - 1
    <3> HIDE DEF x
    <3> QED BY <2>1, <2>2
  <2>4. x \in p * PageSize .. (p + 1) * PageSize - 1
    BY <2>2, <2>3
  <2> QED BY <2>1, <2>4, InPage DEF IndexesOf
<1> QED BY <1>1, <1>2 DEF PagesOf

\* What a write makes of each byte.
LEMMA WriteBytes ==
  ASSUME NEW sh, ShadowTyped(sh), NEW f, DOMAIN f \subseteq Int, \A i \in DOMAIN f : f[i] \in Bytes,
         NEW new \in Written(sh, f)
  PROVE  /\ ShadowTyped(new)
         /\ DOMAIN sh \subseteq DOMAIN new
         /\ PagesOf(DOMAIN new) \subseteq PagesOf(DOMAIN sh) \cup PagesOf(DOMAIN f)
         /\ \A i \in Int :
              Byte(new, i) = IF i \in DOMAIN f
                             THEN (IF i \in DOMAIN new THEN f[i] ELSE Poisoned)
                             ELSE Byte(sh, i)
         /\ Cardinality(PagesOf(DOMAIN sh) \cup PagesOf(DOMAIN f)) <= MaxPages => DOMAIN f \subseteq DOMAIN new
<1> DEFINE old == PagesOf(DOMAIN sh)
           more == PagesOf(DOMAIN f)
<1>1. PICK P \in PagesFor(sh, DOMAIN f) :
        new = [i \in IndexesOf(P) |-> IF i \in DOMAIN f THEN f[i] ELSE Byte(sh, i)]
  BY DEF Written
<1>2. old \subseteq Int /\ more \subseteq Int
  BY PageOf DEF PagesOf, ShadowTyped
<1>3. /\ old \subseteq P /\ P \subseteq old \cup more /\ Cardinality(P) <= MaxPages
      /\ Cardinality(old \cup more) <= MaxPages => P = old \cup more
  <2>1. CASE Cardinality(old \cup (more \ old)) <= MaxPages
    <3>1. P = old \cup (more \ old)
      BY <1>1, <2>1 DEF PagesFor
    <3>2. old \cup (more \ old) = old \cup more
      OBVIOUS
    <3> QED BY <2>1, <3>1, <3>2
  <2>2. CASE ~ (Cardinality(old \cup (more \ old)) <= MaxPages)
    <3>1. PICK m \in SUBSET (more \ old) : P = old \cup m /\ Cardinality(old \cup m) = MaxPages
      BY <1>1, <2>2 DEF PagesFor
    <3>2. old \cup (more \ old) = old \cup more
      OBVIOUS
    <3> QED BY <2>2, <3>1, <3>2, PageAssumption
  <2> QED BY <2>1, <2>2
<1>4. DOMAIN new = IndexesOf(P) /\ PagesOf(IndexesOf(P)) = P /\ IndexesOf(P) \subseteq Int
  BY <1>1, <1>2, <1>3, PagesIndexes
<1>5. \A Q : \A i \in Int : Page(i) \in Q => i \in IndexesOf(Q)
  BY OwnPage DEF IndexesOf
<1>6. DOMAIN sh \subseteq DOMAIN new
  <2>1. \A i \in DOMAIN sh : i \in Int /\ Page(i) \in P
    BY <1>3 DEF PagesOf, ShadowTyped
  <2> QED BY <1>4, <1>5, <2>1
<1>7. ASSUME NEW i \in Int
      PROVE  Byte(new, i) = IF i \in DOMAIN f
                            THEN (IF i \in DOMAIN new THEN f[i] ELSE Poisoned)
                            ELSE Byte(sh, i)
  <2>1. CASE i \in DOMAIN new
    BY <1>1, <1>4, <2>1 DEF Byte
  <2>2. CASE i \notin DOMAIN new
    BY <1>6, <2>2 DEF Byte
  <2> QED BY <2>1, <2>2
<1>8. \A i \in DOMAIN new : new[i] \in Bytes
  BY <1>1, <1>4, GranuleAssumption DEF Byte, Bytes, Poisoned, ShadowTyped
<1>9. ASSUME Cardinality(old \cup more) <= MaxPages PROVE DOMAIN f \subseteq DOMAIN new
  <2>1. \A i \in DOMAIN f : i \in Int /\ Page(i) \in P
    BY <1>3, <1>9 DEF PagesOf
  <2> QED BY <1>4, <1>5, <2>1
<1> QED BY <1>3, <1>4, <1>6, <1>7, <1>8, <1>9 DEF ShadowTyped

LEMMA MultipleAligned ==
  ASSUME NEW i \in Nat
  PROVE  i * Granule \in Nat /\ (i * Granule) % Granule = 0 /\ Index(i * Granule) = i
<1>1. Granule \in Nat \ {0}
  BY GranuleAssumption
<1> DEFINE a == i * Granule
<1>2. a \in Nat /\ i * Granule <= a /\ a < (i * Granule) + Granule
  BY <1>1
<1>3. Index(a) = i
  <2> HIDE DEF a
  <2> QED BY <1>1, <1>2, Quotient DEF Index
<1>4. a = (i * Granule) + (a % Granule) /\ a % Granule \in 0..Granule-1
  BY <1>2, <1>3, IndexOf
<1>5. a % Granule = 0
  <2> DEFINE r == a % Granule
  <2>1. a = a + r /\ r \in Int /\ a \in Nat
    BY <1>1, <1>2, <1>4
  <2> HIDE DEF a, r
  <2>2. r = 0
    BY <2>1
  <2> QED BY <2>2 DEF r
<1> QED BY <1>2, <1>3, <1>5

LEMMA RoundedUp ==
  ASSUME NEW a \in Nat
  PROVE  RoundUp(a) \in Nat /\ RoundUp(a) % Granule = 0 /\ a <= RoundUp(a)
<1> DEFINE b == a + Granule - 1
<1>1. b \in Nat /\ Granule \in Nat
  BY GranuleAssumption
<1> DEFINE i == Index(b)
           x == i * Granule
<1>2. i \in Nat /\ x \in Nat /\ b = x + (b % Granule) /\ b % Granule \in 0..Granule-1
  <2> HIDE DEF b
  <2> QED BY <1>1, IndexOf
<1>3. RoundUp(a) = x
  BY DEF RoundUp, Index
<1>4. a <= x
  <2> DEFINE r == b % Granule
  <2>1. a + Granule - 1 = x + r /\ r \in 0..Granule-1 /\ x \in Nat
    BY <1>2
  <2> HIDE DEF x, r
  <2> QED BY <1>1, <2>1
<1>5. x % Granule = 0
  <2> HIDE DEF i
  <2> QED BY <1>2, MultipleAligned
<1> QED BY <1>2, <1>3, <1>4, <1>5

\* The bytes of [start, start + size), by address.
LEMMA UnpoisonedBytes ==
  ASSUME NEW start \in Nat, start % Granule = 0, NEW size \in Nat
  PROVE  LET un == UnpoisonBytes(start, size)
         IN /\ DOMAIN un \subseteq Nat /\ \A i \in DOMAIN un : un[i] \in 0..Granule-1
            /\ \A a \in Nat :
                 /\ Index(a) \in DOMAIN un /\ (un[Index(a)] = 0 \/ a % Granule < un[Index(a)])
                      => start <= a /\ a < start + size
                 /\ start <= a /\ a < start + size =>
                      /\ Index(a) \in DOMAIN un
                      /\ un[Index(a)] = 0 \/ a % Granule < un[Index(a)]
            /\ \A i \in DOMAIN un : Index(start) <= i /\ i * Granule < start + size
<1> DEFINE un == UnpoisonBytes(start, size)
           first == Index(start)
           full == size \div Granule
           tail == size % Granule
           F == full * Granule
<1>1. Granule \in Nat \ {0} /\ Granule \in Nat
  BY GranuleAssumption
<1>2. first \in Nat /\ start = first * Granule
  BY IndexOf, AlignedIndex
<1>3. full \in Nat /\ F \in Nat /\ tail \in 0..Granule-1 /\ size = F + tail
  <2>1. full = Index(size)
    BY DEF Index
  <2> QED BY <2>1, IndexOf
<1>4. un = [i \in first..(first + full - (IF tail = 0 THEN 1 ELSE 0)) |-> IF i < first + full THEN 0 ELSE tail]
  BY Zenon DEF UnpoisonBytes
<1> HIDE DEF un, first, full, tail
<1>5. /\ DOMAIN un = first..(first + full - (IF tail = 0 THEN 1 ELSE 0))
      /\ \A i \in DOMAIN un : un[i] = IF i < first + full THEN 0 ELSE tail
  BY <1>4
<1>6. /\ DOMAIN un \subseteq Nat /\ \A i \in DOMAIN un : un[i] \in 0..Granule-1
      /\ \A i \in DOMAIN un : i >= first /\ (i < first + full \/ (i = first + full /\ tail # 0))
      /\ \A i \in Nat : i >= first /\ (i < first + full \/ (i = first + full /\ tail # 0)) => i \in DOMAIN un
  BY <1>1, <1>2, <1>3, <1>5
<1>7. (first + full) * Granule = start + F
  BY <1>1, <1>2, <1>3
<1>8. ASSUME NEW i \in Nat, i >= first PROVE start <= i * Granule
  BY <1>1, <1>2, <1>8, Times
<1>9. ASSUME NEW i \in Nat, i < first + full PROVE (i * Granule) + Granule <= start + F
  <2>1. (i + 1) * Granule = (i * Granule) + Granule
    BY <1>1, Plus
  <2>2. (i + 1) * Granule <= (first + full) * Granule
    BY <1>1, <1>2, <1>3, <1>9, Times
  <2> QED BY <1>7, <2>1, <2>2
<1>10. ASSUME NEW i \in Nat, i > first + full PROVE start + F + Granule <= i * Granule
  <2>1. ((first + full) + 1) * Granule = ((first + full) * Granule) + Granule
    BY <1>1, <1>2, <1>3, Plus
  <2>2. ((first + full) + 1) * Granule <= i * Granule
    BY <1>1, <1>2, <1>3, <1>10, Times
  <2> QED BY <1>7, <2>1, <2>2
<1>11. ASSUME NEW i \in Nat PROVE i * Granule \in Nat
  BY <1>1
<1>12. ASSUME NEW a \in Nat
       PROVE  /\ Index(a) \in DOMAIN un /\ (un[Index(a)] = 0 \/ a % Granule < un[Index(a)])
                   => start <= a /\ a < start + size
              /\ start <= a /\ a < start + size =>
                   /\ Index(a) \in DOMAIN un
                   /\ un[Index(a)] = 0 \/ a % Granule < un[Index(a)]
  <2> DEFINE i == Index(a)
             x == i * Granule
             r == a % Granule
  <2>1. i \in Nat /\ x \in Nat /\ a = x + r /\ r \in 0..Granule-1
    BY IndexOf
  <2>2. start <= a <=> first <= i
    BY AlignedIndex, <1>2, <2>1 DEF first
  <2>3. /\ i < first + full => x + Granule <= start + F
        /\ i > first + full => start + F + Granule <= x
        /\ i = first + full => x = start + F
    <3> HIDE DEF i
    <3> QED BY <1>7, <1>9, <1>10, <2>1
  <2>4. i \in DOMAIN un => un[i] = IF i < first + full THEN 0 ELSE tail
    BY <1>5
  <2> HIDE DEF i, x, r
  <2>5. ASSUME i \in DOMAIN un, un[i] = 0 \/ r < un[i] PROVE start <= a /\ a < start + size
    <3>1. start <= a
      BY <1>6, <2>2, <2>5
    <3>2. CASE i < first + full
      BY <1>1, <1>2, <1>3, <2>1, <2>3, <3>1, <3>2
    <3>3. CASE i = first + full /\ tail # 0
      <4>1. r < tail
        BY <1>2, <1>3, <2>1, <2>4, <2>5, <3>3
      <4> QED BY <1>1, <1>2, <1>3, <2>1, <2>3, <3>1, <3>3, <4>1
    <3> QED BY <1>6, <2>5, <3>2, <3>3
  <2>6. ASSUME start <= a, a < start + size PROVE i \in DOMAIN un /\ (un[i] = 0 \/ r < un[i])
    <3>1. first <= i /\ ~ (i > first + full)
      BY <1>1, <1>2, <1>3, <2>1, <2>2, <2>3, <2>6
    <3>2. CASE i < first + full
      BY <1>2, <1>3, <1>6, <2>1, <2>4, <3>1, <3>2
    <3>3. CASE i = first + full
      <4>1. r < tail
        BY <1>1, <1>2, <1>3, <2>1, <2>3, <2>6, <3>3
      <4>2. i \in DOMAIN un
        BY <1>1, <1>3, <1>6, <2>1, <3>1, <3>3, <4>1
      <4> QED BY <1>2, <1>3, <2>4, <3>3, <4>1, <4>2
    <3> QED BY <1>2, <1>3, <2>1, <3>1, <3>2, <3>3
  <2> QED BY <2>5, <2>6 DEF i, r
<1>13. ASSUME NEW i \in DOMAIN un PROVE first <= i /\ i * Granule < start + size
  <2>1. i \in Nat /\ i >= first /\ i * Granule \in Nat
    BY <1>6, <1>11
  <2>2. CASE i < first + full
    BY <1>1, <1>2, <1>3, <1>9, <2>1, <2>2
  <2>3. CASE i = first + full /\ tail # 0
    BY <1>1, <1>2, <1>3, <1>7, <2>1, <2>3
  <2> QED BY <1>6, <2>1, <2>2, <2>3
<1> QED BY <1>6, <1>12, <1>13 DEF un, first

\* The granules of [start, start + size), by address.
LEMMA PoisonedBytes ==
  ASSUME NEW start \in Nat, NEW size \in Nat
  PROVE  LET po == PoisonBytes(start, size)
         IN /\ DOMAIN po \subseteq Nat /\ DOMAIN po \subseteq 0..Index(start + size)
            /\ \A i \in DOMAIN po : po[i] = Poisoned
            /\ \A a \in Nat : start <= a /\ a < start + size => Index(a) \in DOMAIN po
            /\ start % Granule = 0 =>
                 \A i \in DOMAIN po : start <= i * Granule /\ i * Granule < start + size
            /\ start % Granule = 0 =>
                 \A end \in Nat, a \in Nat :
                   end % Granule = 0 /\ start + size <= end /\ Index(a) \in DOMAIN po => start <= a /\ a < end
<1> DEFINE po == PoisonBytes(start, size)
           last == start + size - 1
<1>1. /\ DOMAIN po = IF size = 0 THEN {} ELSE Index(start)..Index(last)
      /\ \A i \in DOMAIN po : po[i] = Poisoned
  BY DEF PoisonBytes
<1> HIDE DEF po
<1>2. CASE size = 0
  BY <1>1, <1>2 DEF po
<1>3. CASE size # 0
  <2>1. last \in Nat /\ last < start + size
    BY <1>3
  <2>2. \A a, b \in Nat : a <= b => Index(a) <= Index(b)
    BY QuotientGrows, GranuleAssumption DEF Index
  <2>3. (\A a \in Nat : Index(a) \in Nat) /\ start + size \in Nat
    BY IndexNat
  <2>4. Index(last) <= Index(start + size)
    BY <2>1, <2>2
  <2>5. ASSUME NEW a \in Nat, start <= a, a < start + size PROVE Index(a) \in DOMAIN po
    <3>1. Index(start) <= Index(a) /\ Index(a) <= Index(last)
      BY <2>1, <2>2, <2>5
    <3> QED BY <1>1, <1>3, <2>1, <2>3, <3>1
  <2>6. ASSUME start % Granule = 0, NEW end \in Nat, NEW a \in Nat, end % Granule = 0, start + size <= end,
               Index(a) \in DOMAIN po
        PROVE  start <= a /\ a < end
    <3>1. Index(start) <= Index(a) /\ Index(a) <= Index(last)
      BY <1>1, <1>3, <2>1, <2>3, <2>6
    <3>2. Index(last) < Index(end)
      BY <2>1, <2>6, AlignedIndex
    <3>3. Index(a) < Index(end) /\ ~ (Index(a) < Index(start))
      BY <2>1, <2>3, <2>6, <3>1, <3>2
    <3> QED BY <2>6, <3>3, AlignedIndex
  <2>7. DOMAIN po \subseteq Nat /\ DOMAIN po \subseteq 0..Index(start + size)
    <3>1. Index(start) \in Nat /\ Index(last) \in Nat /\ Index(start + size) \in Nat
      BY <2>1, <2>3
    <3>2. DOMAIN po = Index(start)..Index(last)
      BY <1>1, <1>3
    <3> QED BY <2>4, <3>1, <3>2
  <2>8. ASSUME start % Granule = 0, NEW i \in DOMAIN po PROVE start <= i * Granule /\ i * Granule < start + size
    <3>1. PICK j, k \in Nat : j = Index(start) /\ k = Index(last)
      BY <2>1, <2>3
    <3>2. i \in Nat /\ j <= i /\ i <= k
      BY <1>1, <1>3, <3>1
    <3>3. j * Granule = start /\ k * Granule <= last /\ k * Granule \in Nat
      <4>1. PICK x, r \in Nat : x = k * Granule /\ last = x + r
        <5>1. k * Granule \in Nat /\ last = (k * Granule) + (last % Granule) /\ last % Granule \in 0..Granule-1
          BY <2>1, <3>1, IndexOf
        <5>2. last % Granule \in Nat
          BY <5>1, GranuleAssumption
        <5> QED BY <5>1, <5>2
      <4> QED BY <2>1, <2>8, <3>1, <4>1, AlignedIndex
    <3>4. j * Granule <= i * Granule /\ i * Granule <= k * Granule
      BY <3>1, <3>2, Times, GranuleAssumption
    <3>5. PICK x \in Nat : x = i * Granule
      BY <3>2, GranuleAssumption
    <3> QED BY <2>1, <3>3, <3>4, <3>5
  <2> QED BY <1>1, <2>5, <2>6, <2>7, <2>8 DEF po
<1> QED BY <1>2, <1>3

LEMMA ByteOf ==
  ASSUME NEW sh, ShadowTyped(sh), NEW i
  PROVE  Byte(sh, i) \in 0..Granule
BY GranuleAssumption DEF ShadowTyped, Byte, Bytes, Poisoned

\* What is poisoned is not accessible; what is not in these granules is as it was.
LEMMA PoisonAccess ==
  ASSUME NEW sh, ShadowTyped(sh), NEW start \in Nat, NEW size \in Nat,
         NEW new \in Written(sh, PoisonBytes(start, size))
  PROVE  /\ ShadowTyped(new)
         /\ PagesOf(DOMAIN new) \subseteq PagesOf(DOMAIN sh) \cup PagesOf(0..Index(start + size))
         /\ \A a \in Nat : Accessible(new, a) => Accessible(sh, a) /\ ~ (start <= a /\ a < start + size)
         /\ start % Granule = 0 =>
              \A a \in Nat : Accessible(sh, a) /\ ~ Accessible(new, a) =>
                start <= Index(a) * Granule /\ Index(a) * Granule < start + size
<1> DEFINE po == PoisonBytes(start, size)
<1>0. DOMAIN po \subseteq Nat /\ \A i \in DOMAIN po : po[i] = Poisoned
  BY PoisonedBytes
<1>1. DOMAIN po \subseteq Int /\ \A i \in DOMAIN po : po[i] \in Bytes /\ po[i] = Poisoned
  <2> HIDE DEF po
  <2> QED BY <1>0, GranuleAssumption DEF Bytes, Poisoned
<1>2. /\ ShadowTyped(new)
      /\ PagesOf(DOMAIN new) \subseteq PagesOf(DOMAIN sh) \cup PagesOf(DOMAIN po)
      /\ \A i \in Int :
           Byte(new, i) = IF i \in DOMAIN po
                          THEN (IF i \in DOMAIN new THEN po[i] ELSE Poisoned)
                          ELSE Byte(sh, i)
  BY <1>1, WriteBytes
<1>3. \A i \in Int : Byte(new, i) = IF i \in DOMAIN po THEN Poisoned ELSE Byte(sh, i)
  BY <1>1, <1>2
<1>4. PagesOf(DOMAIN po) \subseteq PagesOf(0..Index(start + size))
  BY PoisonedBytes DEF PagesOf
<1>5. ASSUME NEW a \in Nat, Accessible(new, a) PROVE Accessible(sh, a) /\ ~ (start <= a /\ a < start + size)
  <2>0. Index(a) \in Int
    BY IndexNat
  <2>1. Index(a) \in Int /\ Index(a) \notin DOMAIN po
    <3> HIDE DEF po
    <3> QED BY <1>3, <1>5, <2>0, GranuleAssumption DEF Accessible, Poisoned
  <2>2. Accessible(sh, a)
    BY <1>3, <1>5, <2>1 DEF Accessible
  <2> QED BY <2>1, <2>2, PoisonedBytes
<1>6. ASSUME start % Granule = 0, NEW a \in Nat, Accessible(sh, a), ~ Accessible(new, a)
      PROVE  start <= Index(a) * Granule /\ Index(a) * Granule < start + size
  <2>1. Index(a) \in Int
    BY IndexNat
  <2>2. Index(a) \in DOMAIN po
    BY <1>3, <1>6, <2>1 DEF Accessible
  <2> QED BY <1>6, <2>2, PoisonedBytes
<1> QED BY <1>2, <1>4, <1>5, <1>6

\* What was asked for is accessible, if there is room, and nothing else becomes so.
LEMMA TrackAccess ==
  ASSUME NEW sh, ShadowTyped(sh), NEW start \in Nat, start % Granule = 0, NEW req \in Nat, NEW real \in Nat,
         req <= real, NEW new \in Written(sh, TrackBytes(start, req, real)),
         NEW end \in Nat, end % Granule = 0, start + real <= end
  PROVE  /\ ShadowTyped(new)
         /\ PagesOf(DOMAIN new) \subseteq PagesOf(DOMAIN sh) \cup PagesOf(0..Index(end))
         /\ \A a \in Nat : Accessible(new, a) => Accessible(sh, a) \/ (start <= a /\ a < start + req)
         /\ \A a \in Nat : (a < start \/ end <= a) /\ Accessible(sh, a) => Accessible(new, a)
         /\ Cardinality(PagesOf(DOMAIN sh) \cup PagesOf(0..Index(end))) <= MaxPages
            /\ IsFiniteSet(PagesOf(DOMAIN sh) \cup PagesOf(0..Index(end))) =>
              \A a \in Nat : start <= a /\ a < start + req => Accessible(new, a)
<1> DEFINE un == UnpoisonBytes(start, req)
           rest == RoundUp(start + req)
           size == IF rest < start + real THEN start + real - rest ELSE 0
           po == PoisonBytes(rest, size)
           f == TrackBytes(start, req, real)
<1>1. rest \in Nat /\ rest % Granule = 0 /\ start + req <= rest
  BY RoundedUp
<1>2. size \in Nat /\ (size # 0 => rest + size = start + real)
  BY <1>1
<1> HIDE DEF rest, size
<1>3. /\ DOMAIN un \subseteq Nat /\ \A i \in DOMAIN un : un[i] \in 0..Granule-1
      /\ \A a \in Nat :
           /\ Index(a) \in DOMAIN un /\ (un[Index(a)] = 0 \/ a % Granule < un[Index(a)])
                => start <= a /\ a < start + req
           /\ start <= a /\ a < start + req =>
                Index(a) \in DOMAIN un /\ (un[Index(a)] = 0 \/ a % Granule < un[Index(a)])
      /\ \A i \in DOMAIN un : Index(start) <= i /\ i * Granule < start + req
  BY UnpoisonedBytes
<1>4. /\ DOMAIN po \subseteq Nat /\ \A i \in DOMAIN po : po[i] = Poisoned
      /\ \A a \in Nat : Index(a) \in DOMAIN po => rest <= a
      /\ \A a \in Nat : Index(a) \in DOMAIN po => a < end
      /\ DOMAIN po \subseteq 0..Index(end)
  <2>1. CASE size = 0
    BY <2>1 DEF PoisonBytes
  <2>2. CASE size # 0
    <3>1. rest + size <= end
      BY <1>1, <1>2, <2>2
    <3>2. Index(rest + size) <= Index(end)
      BY <1>1, <1>2, <3>1, QuotientGrows, GranuleAssumption DEF Index
    <3>3. Index(rest + size) \in Nat /\ Index(end) \in Nat
      BY <1>1, <1>2, IndexNat
    <3>4. /\ DOMAIN po \subseteq Nat /\ DOMAIN po \subseteq 0..Index(rest + size)
          /\ \A i \in DOMAIN po : po[i] = Poisoned
          /\ \A e \in Nat, a \in Nat :
               e % Granule = 0 /\ rest + size <= e /\ Index(a) \in DOMAIN po => rest <= a /\ a < e
      BY <1>1, <1>2, PoisonedBytes
    <3> HIDE DEF po
    <3>5. DOMAIN po \subseteq 0..Index(end)
      BY <3>2, <3>3, <3>4
    <3> QED BY <3>1, <3>4, <3>5
  <2> QED BY <2>1, <2>2
<1>5. /\ DOMAIN f = DOMAIN un \cup DOMAIN po
      /\ \A i \in DOMAIN f : f[i] = IF i \in DOMAIN po THEN po[i] ELSE un[i]
  BY Zenon DEF TrackBytes, rest, size
<1> HIDE DEF un, po, f
<1>6. \A i \in DOMAIN un : i \in 0..Index(end) /\ i < Index(end)
  <2>1. ASSUME NEW i \in DOMAIN un PROVE i \in Nat /\ i < Index(end)
    <3>1. i \in Nat /\ i * Granule \in Nat /\ Index(i * Granule) = i /\ i * Granule < start + req
      BY <1>3, MultipleAligned
    <3>2. i * Granule < end
      <4> DEFINE x == i * Granule
      <4>1. x \in Nat /\ x < start + req
        BY <3>1
      <4> HIDE DEF x
      <4>2. x < end
        BY <4>1
      <4> QED BY <4>2 DEF x
    <3> QED BY <3>1, <3>2, AlignedIndex
  <2>2. Index(end) \in Nat
    BY IndexOf
  <2> QED BY <2>1, <2>2
<1>7. DOMAIN f \subseteq Int /\ DOMAIN f \subseteq 0..Index(end) /\ \A i \in DOMAIN f : f[i] \in Bytes
  BY <1>3, <1>4, <1>5, <1>6, GranuleAssumption DEF Bytes, Poisoned
<1>8. /\ ShadowTyped(new)
      /\ PagesOf(DOMAIN new) \subseteq PagesOf(DOMAIN sh) \cup PagesOf(DOMAIN f)
      /\ \A i \in Int :
           Byte(new, i) = IF i \in DOMAIN f
                          THEN (IF i \in DOMAIN new THEN f[i] ELSE Poisoned)
                          ELSE Byte(sh, i)
      /\ Cardinality(PagesOf(DOMAIN sh) \cup PagesOf(DOMAIN f)) <= MaxPages => DOMAIN f \subseteq DOMAIN new
  BY <1>7, WriteBytes DEF f
<1>9. PagesOf(DOMAIN f) \subseteq PagesOf(0..Index(end))
  BY <1>7 DEF PagesOf
<1>10. ASSUME NEW a \in Nat, Accessible(new, a) PROVE Accessible(sh, a) \/ (start <= a /\ a < start + req)
  <2>1. Index(a) \in Int
    BY IndexOf
  <2>2. CASE Index(a) \notin DOMAIN f
    BY <1>8, <1>10, <2>1, <2>2 DEF Accessible
  <2>3. CASE Index(a) \in DOMAIN f
    <3>1. Byte(new, Index(a)) # Poisoned
      BY <1>10, GranuleAssumption DEF Accessible, Poisoned
    <3>2. Byte(new, Index(a)) = f[Index(a)] /\ f[Index(a)] # Poisoned
      BY <1>8, <2>1, <2>3, <3>1
    <3>3. Index(a) \in DOMAIN un /\ Byte(new, Index(a)) = un[Index(a)]
      BY <1>4, <1>5, <2>3, <3>2
    <3> QED BY <1>3, <1>10, <3>3 DEF Accessible
  <2> QED BY <2>2, <2>3
<1>11. ASSUME NEW a \in Nat, a < start \/ end <= a, Accessible(sh, a) PROVE Accessible(new, a)
  <2>1. Index(a) \in Int /\ Index(a) \in Nat /\ Index(start) \in Nat /\ Index(end) \in Nat
    BY IndexNat
  <2>2. Index(a) < Index(start) \/ ~ (Index(a) < Index(end))
    BY <1>11, AlignedIndex
  <2>3. Index(a) \notin DOMAIN un
    BY <1>3, <1>6, <2>1, <2>2
  <2>4. Index(a) \notin DOMAIN po
    BY <1>1, <1>4, <1>11
  <2> QED BY <1>5, <1>8, <1>11, <2>1, <2>3, <2>4 DEF Accessible
<1>12. ASSUME Cardinality(PagesOf(DOMAIN sh) \cup PagesOf(0..Index(end))) <= MaxPages,
              IsFiniteSet(PagesOf(DOMAIN sh) \cup PagesOf(0..Index(end))),
              NEW a \in Nat, start <= a, a < start + req
       PROVE  Accessible(new, a)
  <2> DEFINE X == PagesOf(DOMAIN sh) \cup PagesOf(0..Index(end))
             Y == PagesOf(DOMAIN sh) \cup PagesOf(DOMAIN f)
  <2>1. Y \subseteq X
    BY <1>9
  <2>2. Cardinality(Y) <= Cardinality(X) /\ Cardinality(X) \in Nat /\ Cardinality(Y) \in Nat
    <3> HIDE DEF X, Y
    <3>1. IsFiniteSet(Y) /\ Cardinality(Y) <= Cardinality(X)
      BY <1>12, <2>1, FS_Subset DEF X
    <3> QED BY <1>12, <3>1, FS_CardinalityType DEF X
  <2>3. DOMAIN f \subseteq DOMAIN new
    <3>1. Cardinality(Y) <= MaxPages
      BY <1>12, <2>2, PageAssumption
    <3> QED BY <1>8, <3>1
  <2>4. Index(a) \in DOMAIN un /\ (un[Index(a)] = 0 \/ a % Granule < un[Index(a)])
    BY <1>3, <1>12
  <2>5. Index(a) \notin DOMAIN po
    BY <1>1, <1>4, <1>12
  <2>6. Byte(new, Index(a)) = un[Index(a)]
    BY <1>3, <1>5, <1>8, <2>3, <2>4, <2>5
  <2>7. un[Index(a)] # Poisoned
    BY <1>3, <2>4, GranuleAssumption DEF Poisoned
  <2> QED BY <2>4, <2>6, <2>7 DEF Accessible
<1> QED BY <1>8, <1>9, <1>10, <1>11, <1>12

LEMMA TrackTyped ==
  ASSUME NEW start \in Nat, NEW req \in Nat, NEW real \in Nat
  PROVE  LET f == TrackBytes(start, req, real)
         IN DOMAIN f \subseteq Int /\ \A i \in DOMAIN f : f[i] \in Bytes
<1> DEFINE un == UnpoisonBytes(start, req)
           rest == RoundUp(start + req)
           size == IF rest < start + real THEN start + real - rest ELSE 0
           po == PoisonBytes(rest, size)
           f == TrackBytes(start, req, real)
<1>1. Granule \in Nat \ {0} /\ Index(start) \in Nat
  BY GranuleAssumption, IndexNat
<1>2. DOMAIN un \subseteq Int /\ \A i \in DOMAIN un : un[i] \in Bytes
  <2> DEFINE first == Index(start)
             full == req \div Granule
             tail == req % Granule
  <2>1. full \in Int /\ tail \in 0..Granule-1
    BY <1>1, Division
  <2>2. un = [i \in first..(first + full - (IF tail = 0 THEN 1 ELSE 0)) |-> IF i < first + full THEN 0 ELSE tail]
    BY Zenon DEF UnpoisonBytes
  <2> HIDE DEF un, first, full, tail
  <2> QED BY <1>1, <2>1, <2>2 DEF Bytes
<1>3. rest \in Nat /\ size \in Nat
  BY RoundedUp
<1> HIDE DEF rest, size
<1>4. DOMAIN po \subseteq Nat /\ \A i \in DOMAIN po : po[i] = Poisoned
  BY <1>3, PoisonedBytes
<1>5. /\ DOMAIN f = DOMAIN un \cup DOMAIN po
      /\ \A i \in DOMAIN f : f[i] = IF i \in DOMAIN po THEN po[i] ELSE un[i]
  BY Zenon DEF TrackBytes, rest, size
<1> HIDE DEF un, po, f
<1>6. Poisoned \in Bytes
  BY <1>1 DEF Poisoned, Bytes
<1>7. DOMAIN f \subseteq Int /\ \A i \in DOMAIN f : f[i] \in Bytes
  BY <1>2, <1>4, <1>5, <1>6
<1> QED BY <1>7 DEF f

LEMMA Distribute == ASSUME NEW a \in Int, NEW b \in Int, NEW g \in Int PROVE (a + b) * g = (a * g) + (b * g)
  OBVIOUS

LEMMA MultipleOf == ASSUME NEW a \in Nat, a % Granule = 0 PROVE a = Index(a) * Granule /\ Index(a) \in Nat
BY AlignedIndex, IndexNat

LEMMA SumAligned ==
  \A a, b \in Nat : a % Granule = 0 /\ b % Granule = 0 => (a + b) % Granule = 0
<1> SUFFICES ASSUME NEW a \in Nat, NEW b \in Nat, a % Granule = 0, b % Granule = 0
             PROVE  (a + b) % Granule = 0
  OBVIOUS
<1>1. PICK i, j \in Nat : a = i * Granule /\ b = j * Granule
  BY MultipleOf
<1>2. (i + j) * Granule = a + b
  BY <1>1, Distribute, GranuleAssumption
<1>3. i + j \in Nat
  BY <1>1
<1> QED BY <1>2, <1>3, MultipleAligned

LEMMA DiffAligned ==
  \A a, b \in Nat : a % Granule = 0 /\ b % Granule = 0 /\ a <= b => (b - a) % Granule = 0
<1> SUFFICES ASSUME NEW a \in Nat, NEW b \in Nat, a % Granule = 0, b % Granule = 0, a <= b
             PROVE  (b - a) % Granule = 0
  OBVIOUS
<1>1. Index(a) <= Index(b)
  BY QuotientGrows, GranuleAssumption DEF Index
<1>2. PICK i, j \in Nat : a = i * Granule /\ b = j * Granule /\ i <= j
  BY <1>1, MultipleOf
<1>3. PICK k \in Nat : k + i = j
  <2>1. j - i \in Nat /\ (j - i) + i = j
    BY <1>2
  <2> QED BY <2>1
<1>4. (k + i) * Granule = (k * Granule) + (i * Granule) /\ k * Granule \in Nat /\ (k * Granule) % Granule = 0
  BY Distribute, MultipleAligned, GranuleAssumption
<1>5. k * Granule = b - a
  <2> DEFINE x == k * Granule
  <2>1. b = x + a /\ x \in Nat
    BY <1>2, <1>3, <1>4
  <2> HIDE DEF x
  <2>2. x = b - a
    BY <2>1
  <2> QED BY <2>2 DEF x
<1> QED BY <1>4, <1>5

LEMMA RoundUpNat == \A a \in Nat : RoundUp(a) \in Nat /\ a <= RoundUp(a) /\ RoundUp(a) % Granule = 0
BY RoundedUp

\* The comparison of bytes finds what is not accessible, and nothing else.
LEMMA BoundsExact ==
  ASSUME NEW sh, ShadowTyped(sh), NEW ptr \in Nat, NEW len \in Nat \ {0}
  PROVE  OutOfBounds(sh, ptr, len) <=> \E a \in ptr..ptr + len - 1 : ~ Accessible(sh, a)
<1> DEFINE last == ptr + len - 1
           End(i) == IF ptr + len < (i * Granule) + Granule THEN ptr + len ELSE (i * Granule) + Granule
           Bad(i) == Byte(sh, i) # 0 /\ (Byte(sh, i) = Poisoned \/ End(i) > (i * Granule) + Byte(sh, i))
<1>1. OutOfBounds(sh, ptr, len) <=> \E i \in Index(ptr)..Index(last) : Bad(i)
  BY DEF OutOfBounds
<1>2. last \in Nat /\ Index(ptr) \in Nat /\ Index(last) \in Nat
  BY IndexNat
<1>3. Granule \in Nat \ {0}
  BY GranuleAssumption
<1>4. ASSUME NEW a \in ptr..last
      PROVE  Index(a) \in Index(ptr)..Index(last) /\ (~ Accessible(sh, a) => Bad(Index(a)))
  <2>1. a \in Nat /\ ptr <= a /\ a <= last
    OBVIOUS
  <2>2. Index(a) \in Index(ptr)..Index(last)
    <3>1. Index(ptr) <= Index(a) /\ Index(a) <= Index(last)
      BY <1>2, <1>3, <2>1, QuotientGrows DEF Index
    <3> QED BY <1>2, <2>1, <3>1, IndexNat
  <2>3. PICK i, x, r \in Nat : i = Index(a) /\ x = i * Granule /\ r = a % Granule /\ a = x + r /\ r < Granule
    <3>1. /\ Index(a) \in Nat /\ Index(a) * Granule \in Nat /\ a = (Index(a) * Granule) + (a % Granule)
          /\ a % Granule \in 0..Granule-1
      BY <2>1, IndexOf
    <3> QED BY <1>3, <3>1
  <2>4. Byte(sh, i) \in 0..Granule
    BY ByteOf
  <2>5. PICK v \in 0..Granule : v = Byte(sh, i)
    BY <2>4
  <2>6. Accessible(sh, a) <=> v = 0 \/ (v # Granule /\ r < v)
    BY <2>3, <2>5 DEF Accessible, Poisoned
  <2>7. Bad(i) <=> v # 0 /\ (v = Granule \/ (IF ptr + len < x + Granule THEN ptr + len ELSE x + Granule) > x + v)
    BY <2>3, <2>5 DEF Poisoned
  <2>8. ~ Accessible(sh, a) => Bad(i)
    <3> HIDE DEF Bad
    <3> QED BY <1>3, <2>1, <2>3, <2>6, <2>7
  <2> QED BY <2>2, <2>3, <2>8
<1>5. ASSUME NEW i \in Index(ptr)..Index(last), Bad(i)
      PROVE  \E a \in ptr..last : ~ Accessible(sh, a)
  <2>1. PICK x \in Nat : x = i * Granule
    BY <1>2, <1>3
  <2>2. x <= last /\ ptr < x + Granule
    <3>1. PICK y, z, r, s \in Nat : /\ y = Index(ptr) * Granule /\ ptr = y + r /\ r < Granule
                                    /\ z = Index(last) * Granule /\ last = z + s
      <4>1. /\ Index(ptr) * Granule \in Nat /\ ptr = (Index(ptr) * Granule) + (ptr % Granule)
            /\ ptr % Granule \in 0..Granule-1
        BY IndexOf
      <4>2. /\ Index(last) * Granule \in Nat /\ last = (Index(last) * Granule) + (last % Granule)
            /\ last % Granule \in 0..Granule-1
        BY <1>2, IndexOf
      <4>3. PICK r \in Nat : r = ptr % Granule /\ r < Granule
        BY <1>3, <4>1
      <4>4. PICK s \in Nat : s = last % Granule
        BY <1>3, <4>2
      <4> QED BY <4>1, <4>2, <4>3, <4>4
    <3>2. Index(ptr) * Granule <= i * Granule
      BY <1>2, <1>3, Times
    <3>3. i * Granule <= Index(last) * Granule
      BY <1>2, <1>3, Times
    <3>4. y <= x /\ x <= z
      BY <2>1, <3>1, <3>2, <3>3
    <3> QED BY <1>3, <2>1, <3>1, <3>4
  <2>3. PICK v \in 0..Granule : v = Byte(sh, i)
    BY ByteOf
  <2>4. PICK e \in Nat : e = IF ptr + len < x + Granule THEN ptr + len ELSE x + Granule
    BY <1>3, <2>1
  <2>5. v # 0 /\ (v = Granule \/ e > x + v)
    BY <1>5, <2>1, <2>3, <2>4 DEF Poisoned
  <2> HIDE DEF Bad
  <2>6. PICK a \in Nat : a + 1 = e /\ ptr <= a /\ a <= last /\ x <= a /\ a < x + Granule
    <3>1. e - 1 \in Nat /\ ptr <= e - 1 /\ e - 1 <= last /\ x <= e - 1 /\ e - 1 < x + Granule /\ (e - 1) + 1 = e
      BY <1>3, <2>1, <2>2, <2>4
    <3> QED BY <3>1
  <2>7. Index(a) = i
    <3>1. i * Granule <= a /\ a < (i * Granule) + Granule
      BY <2>1, <2>6
    <3> QED BY <1>2, <1>3, <3>1, Quotient DEF Index
  <2>8. PICK r \in Nat : r = a % Granule /\ a = x + r
    <3>1. a = (Index(a) * Granule) + (a % Granule) /\ a % Granule \in 0..Granule-1
      BY <2>6, IndexOf
    <3>2. PICK r \in Nat : r = a % Granule
      BY <1>3, <3>1
    <3> QED BY <2>1, <2>7, <3>1, <3>2
  <2>9. Accessible(sh, a) <=> v = 0 \/ (v # Granule /\ r < v)
    BY <2>3, <2>7, <2>8 DEF Accessible, Poisoned
  <2>10. ~ Accessible(sh, a)
    BY <2>1, <2>3, <2>5, <2>6, <2>8, <2>9
  <2> QED BY <1>2, <2>6, <2>10
<1> QED BY <1>1, <1>4, <1>5

LEMMA NothingAccessible == \A a : ~ Accessible(EmptyShadow, a)
BY GranuleAssumption DEF Accessible, Byte, EmptyShadow, Poisoned

(***************************************************************************)
(* Types, and where blocks are                                             *)
(***************************************************************************)

\* What blocks and calls are.
Kinds == {"malloc", "mmap", "sbrk"}
Parts == {"whole", "front", "rest"}
Pcs == {"idle", "insert", "track", "remove", "autoremove", "top", "give", "poison", "release",
        "check", "report", "clean"}
Calls == [pc : Pcs, p : Nat, kind : Kinds, size : Nat, ptr : Nat, len : Nat]
CallFits(c) ==
  /\ c.pc = "insert" => c.p \in Addr
  /\ c.pc \in {"top", "give"} => c.kind = "sbrk"
  /\ c.pc \in {"idle", "check", "report", "clean"} => c.kind = "malloc"
  /\ c.pc = "check" => On("SHADOW") /\ c.len # 0 /\ c.ptr + c.len <= MemSize
CallsTyped == th \in [Threads -> Calls] /\ \A t \in Threads : CallFits(th[t])

Blocks == [hi : Nat, req : Nat, kind : Kinds, owner : Threads, part : Parts]
BlocksTyped == \A p \in DOMAIN blocks : p \in Nat /\ blocks[p] \in Blocks
BlockOK(p) ==
  /\ p < blocks[p].hi /\ p + blocks[p].req <= blocks[p].hi
  /\ blocks[p].kind = "sbrk" => SbrkBase <= p /\ blocks[p].hi <= brk /\ p + blocks[p].req = blocks[p].hi
  /\ blocks[p].kind # "sbrk" => blocks[p].hi <= SbrkBase
\* No byte is in two blocks.
Disjoint == \A p, q \in DOMAIN blocks : p # q => blocks[p].hi <= q \/ blocks[q].hi <= p
BlocksInv == BlocksTyped /\ (\A p \in DOMAIN blocks : BlockOK(p)) /\ Disjoint

TableTyped ==
  /\ DOMAIN table \subseteq Addr
  /\ \A p \in DOMAIN table : table[p] \in [state : {"USED", "FREED", "AUTOFREED"}, size : Nat, req : Nat]

\* What TypeOK says, and what it says of calls and blocks in detail.
TypeInv ==
  /\ features \in FeatureSets /\ calls \in Programs /\ brk \in SbrkBase..MemSize /\ lost \subseteq Addr
  /\ TableTyped /\ ShadowTyped(shadow) /\ CallsTyped /\ BlocksInv

LEMMA Numbers ==
  ASSUME TypeInv
  PROVE  brk \in Nat /\ SbrkBase \in Nat /\ MemSize \in Nat /\ SbrkBase <= brk /\ brk <= MemSize
BY BoundsAssumption DEF TypeInv

LEMMA BlockInside ==
  ASSUME TypeInv, NEW p \in DOMAIN blocks
  PROVE  /\ p \in Addr /\ p \in Nat /\ blocks[p] \in Blocks /\ blocks[p].hi \in Nat /\ blocks[p].req \in Nat
         /\ blocks[p].kind \in Kinds /\ blocks[p].owner \in Threads /\ blocks[p].part \in Parts
         /\ p < blocks[p].hi /\ p + blocks[p].req <= blocks[p].hi
         /\ blocks[p].hi <= MemSize /\ blocks[p].hi <= brk
         /\ blocks[p].kind = "sbrk" => SbrkBase <= p /\ p + blocks[p].req = blocks[p].hi
         /\ blocks[p].kind # "sbrk" => p < SbrkBase /\ blocks[p].hi <= SbrkBase
<1>1. p \in Nat /\ blocks[p] \in Blocks /\ BlockOK(p)
  BY DEF TypeInv, BlocksInv, BlocksTyped
<1>2. /\ blocks[p].hi \in Nat /\ blocks[p].req \in Nat
      /\ blocks[p].kind \in Kinds /\ blocks[p].owner \in Threads /\ blocks[p].part \in Parts
  BY <1>1 DEF Blocks
<1> QED BY <1>1, <1>2, Numbers DEF BlockOK, Addr

LEMMA Apart ==
  ASSUME TypeInv, NEW p \in DOMAIN blocks, NEW q \in DOMAIN blocks, NEW a \in Nat,
         p <= a, a < blocks[p].hi, q <= a, a < blocks[q].hi
  PROVE  p = q
<1>1. p # q => blocks[p].hi <= q \/ blocks[q].hi <= p
  BY DEF TypeInv, BlocksInv, Disjoint
<1> QED BY <1>1, BlockInside

(***************************************************************************)
(* What steps make of calls and blocks                                     *)
(***************************************************************************)

LEMMA CallIn ==
  ASSUME NEW pc \in Pcs, NEW p \in Nat, NEW kind \in Kinds, NEW size \in Nat, NEW len \in Nat,
         NEW c, c = Call(pc, p, kind, size, len)
  PROVE  /\ c \in Calls /\ c.pc = pc /\ c.p = p /\ c.kind = kind /\ c.size = size /\ c.len = len
BY DEF Call, Calls

LEMMA IdleCall == Idle \in Calls /\ Idle.pc = "idle" /\ Idle.kind = "malloc" /\ CallFits(Idle)
BY DEF Idle, Calls, Pcs, Kinds, Call, CallFits

LEMMA CallStep ==
  ASSUME CallsTyped, NEW t \in Threads, NEW c \in Calls, th' = [th EXCEPT ![t] = c],
         CallFits(c), UNCHANGED features
  PROVE  CallsTyped' /\ th'[t] = c /\ \A u \in Threads : u # t => th'[u] = th[u]
BY DEF CallsTyped, CallFits, On

\* Goto changes nothing but the pc.
LEMMA GotoStep ==
  ASSUME CallsTyped, NEW t \in Threads, NEW pc \in Pcs, Goto(t, pc)
  PROVE  \E c \in Calls :
           /\ th' = [th EXCEPT ![t] = c] /\ c.pc = pc
           /\ c.p = th[t].p /\ c.kind = th[t].kind /\ c.size = th[t].size /\ c.ptr = th[t].ptr /\ c.len = th[t].len
<1>1. th[t] \in Calls
  BY DEF CallsTyped
<1> DEFINE c == [th[t] EXCEPT !.pc = pc]
<1>2. /\ c \in Calls /\ c.pc = pc
      /\ c.p = th[t].p /\ c.kind = th[t].kind /\ c.size = th[t].size /\ c.ptr = th[t].ptr /\ c.len = th[t].len
  BY <1>1 DEF Calls
<1>3. th' = [th EXCEPT ![t] = c]
  BY DEF Goto, CallsTyped
<1> QED BY <1>2, <1>3

\* A piece of the block p in the blocks B.
PieceOf(B, q, p) ==
  /\ p \in DOMAIN blocks /\ p <= q /\ B[q].hi <= blocks[p].hi
  /\ B[q] \in Blocks /\ q < B[q].hi /\ q + B[q].req <= B[q].hi
  /\ B[q].kind = blocks[p].kind /\ B[q].owner = blocks[p].owner
  /\ B[q].part # "rest" => q = p /\ blocks[p].part # "rest" /\ B[q].req <= blocks[p].req
  /\ B[q].part = "whole" => B[q] = blocks[p]
  /\ B[q].kind = "sbrk" => q + B[q].req = B[q].hi
  /\ blocks[p].req > 0 => B[q].req > 0
\* All blocks in B are pieces of what there was, and lie apart.
Pieces(B) ==
  /\ \A q \in DOMAIN B : q \in Nat /\ \E p \in DOMAIN blocks : PieceOf(B, q, p)
  /\ \A p, q \in DOMAIN B : p # q => B[p].hi <= q \/ B[q].hi <= p

LEMMA PieceIn ==
  ASSUME NEW b \in Blocks, NEW hi \in Nat, NEW req \in Nat, NEW part \in Parts, NEW c, c = Piece(b, hi, req, part)
  PROVE  /\ c \in Blocks /\ c.hi = hi /\ c.req = req /\ c.part = part /\ c.kind = b.kind /\ c.owner = b.owner
BY DEF Piece, Blocks

\* What Cut leaves, block by block.
Stays(p, lo, hi) == hi <= p \/ blocks[p].hi <= lo
IsFront(b, p, lo) ==
  /\ b \in Blocks /\ b.hi = lo /\ b.kind = blocks[p].kind /\ b.owner = blocks[p].owner
  /\ b.req = IF blocks[p].req < lo - p THEN blocks[p].req ELSE lo - p
  /\ b.part = IF blocks[p].part = "rest" THEN "rest" ELSE "front"
IsRest(b, p, hi) ==
  /\ b \in Blocks /\ b.hi = blocks[p].hi /\ b.kind = blocks[p].kind /\ b.owner = blocks[p].owner
  /\ b.req = blocks[p].hi - hi /\ b.part = "rest"
IsCut(B, lo, hi) ==
  /\ \A q \in DOMAIN B :
       \/ q \in DOMAIN blocks /\ Stays(q, lo, hi) /\ B[q] = blocks[q]
       \/ q \in DOMAIN blocks /\ q < lo /\ lo < blocks[q].hi /\ IsFront(B[q], q, lo)
       \/ q = hi /\ \E p \in DOMAIN blocks : p < hi /\ hi < blocks[p].hi /\ IsRest(B[q], p, hi)
  /\ \A p \in DOMAIN blocks :
       /\ Stays(p, lo, hi) => p \in DOMAIN B /\ B[p] = blocks[p]
       /\ p < lo /\ lo < blocks[p].hi => p \in DOMAIN B /\ IsFront(B[p], p, lo)
       /\ p < hi /\ hi < blocks[p].hi => hi \in DOMAIN B /\ IsRest(B[hi], p, hi)

LEMMA CutIs ==
  ASSUME TypeInv, NEW lo \in Nat, NEW hi \in Nat, lo <= hi, NEW B, B = Cut(lo, hi)
  PROVE  IsCut(B, lo, hi)
<1> DEFINE Ends(p) == p < hi /\ hi < blocks[p].hi
           Rest == {q \in {hi} : \E p \in DOMAIN blocks : Ends(p)}
           Front(b, p) == Piece(b, lo, IF b.req < lo - p THEN b.req ELSE lo - p,
                                IF b.part = "rest" THEN "rest" ELSE "front")
           D == {p \in DOMAIN blocks : p < lo \/ hi <= p} \cup Rest
           Val(q) == IF q \in Rest THEN LET b == blocks[CHOOSE p \in DOMAIN blocks : Ends(p)]
                                        IN Piece(b, b.hi, b.hi - hi, "rest")
                     ELSE IF hi <= q \/ blocks[q].hi <= lo THEN blocks[q]
                     ELSE Front(blocks[q], q)
<1>1. B = [q \in D |-> Val(q)]
  BY Zenon DEF Cut
<1>2. DOMAIN B = D /\ \A q \in D : B[q] = Val(q)
  <2> HIDE DEF D, Val
  <2> QED BY <1>1
<1>3. ASSUME NEW p \in DOMAIN blocks, Ends(p) PROVE hi \in D /\ hi \notin DOMAIN blocks /\ IsRest(B[hi], p, hi)
  <2>1. hi \in Rest
    BY <1>3
  <2>2. PICK c \in DOMAIN blocks : Ends(c) /\ c = CHOOSE q \in DOMAIN blocks : Ends(q)
    BY <1>3
  <2>3. \A q \in DOMAIN blocks : q <= hi /\ hi < blocks[q].hi => q = p
    BY <1>3, Apart, BlockInside
  <2>4. c = p
    BY <2>2, <2>3, BlockInside
  <2>5. hi \in D /\ hi \notin DOMAIN blocks
    <3>1. ASSUME hi \in DOMAIN blocks PROVE FALSE
      BY <1>3, <2>3, <3>1, BlockInside
    <3> QED BY <2>1, <3>1
  <2>6. Val(hi) = Piece(blocks[p], blocks[p].hi, blocks[p].hi - hi, "rest")
    BY <2>1, <2>2, <2>4, Zenon
  <2>7. blocks[p] \in Blocks /\ blocks[p].hi \in Nat
    BY BlockInside
  <2>8. PICK r \in Nat : r = blocks[p].hi - hi
    BY <1>3, <2>7
  <2>9. B[hi] = Piece(blocks[p], blocks[p].hi, r, "rest")
    BY <1>2, <2>5, <2>6, <2>8, Zenon
  <2>10. "rest" \in Parts
    BY DEF Parts
  <2>11. IsRest(B[hi], p, hi)
    <3>1. PICK b \in Blocks, h \in Nat, d \in {B[hi]} : b = blocks[p] /\ h = b.hi /\ d = B[hi]
      BY <2>7
    <3>5. PICK part \in Parts : part = "rest"
      BY <2>10
    <3>2. d = Piece(b, h, r, part)
      BY <2>9, <3>1, <3>5, Zenon
    <3>3. d \in Blocks /\ d.hi = h /\ d.req = r /\ d.part = part /\ d.kind = b.kind /\ d.owner = b.owner
      BY <2>8, <3>1, <3>2, <3>5 DEF Piece, Blocks
    <3>4. /\ B[hi] \in Blocks /\ B[hi].hi = blocks[p].hi /\ B[hi].kind = blocks[p].kind
          /\ B[hi].owner = blocks[p].owner /\ B[hi].req = blocks[p].hi - hi /\ B[hi].part = "rest"
      BY <2>8, <3>1, <3>3, <3>5, Zenon
    <3> QED BY <3>4, Zenon DEF IsRest
  <2> QED BY <2>5, <2>11
<1>4. ASSUME NEW p \in DOMAIN blocks, p < lo, lo < blocks[p].hi PROVE p \in D /\ IsFront(B[p], p, lo)
  <2>0. p \in Nat /\ blocks[p].hi \in Nat
    BY BlockInside
  <2>1. p \notin Rest /\ p \in D
    BY <1>3, <1>4, <2>0
  <2>2. Val(p) = Front(blocks[p], p)
    <3>1. ~ (hi <= p) /\ ~ (blocks[p].hi <= lo)
      BY <1>4, <2>0
    <3> QED BY <2>1, <3>1, Zenon
  <2>3. blocks[p] \in Blocks /\ blocks[p].req \in Nat
    BY BlockInside
  <2>4. PICK r \in Nat : r = IF blocks[p].req < lo - p THEN blocks[p].req ELSE lo - p
    BY <1>4, <2>0, <2>3
  <2>5. PICK part \in Parts : part = IF blocks[p].part = "rest" THEN "rest" ELSE "front"
    BY DEF Parts
  <2>6. B[p] = Piece(blocks[p], lo, r, part)
    BY <1>2, <2>1, <2>2, <2>4, <2>5, Zenon
  <2>7. IsFront(B[p], p, lo)
    <3>1. PICK b, c : b = blocks[p] /\ c = B[p]
      OBVIOUS
    <3>2. c = Piece(b, lo, r, part) /\ b \in Blocks
      BY <2>3, <2>6, <3>1, Zenon
    <3>3. c \in Blocks /\ c.hi = lo /\ c.req = r /\ c.part = part /\ c.kind = b.kind /\ c.owner = b.owner
      BY <3>2, PieceIn
    <3> QED BY <2>4, <2>5, <3>1, <3>3 DEF IsFront
  <2> QED BY <2>1, <2>7
<1>5. ASSUME NEW p \in DOMAIN blocks, Stays(p, lo, hi) PROVE p \in D /\ B[p] = blocks[p]
  <2>0. p \in Nat /\ blocks[p].hi \in Nat /\ p < blocks[p].hi
    BY BlockInside
  <2>1. p \notin Rest
    BY <1>3
  <2>2. p \in D
    BY <1>5, <2>0 DEF Stays
  <2>3. Val(p) = blocks[p]
    BY <1>5, <2>1, Zenon DEF Stays
  <2> QED BY <1>2, <2>2, <2>3
<1>6. ASSUME NEW q \in D
      PROVE  \/ q \in DOMAIN blocks /\ Stays(q, lo, hi) /\ B[q] = blocks[q]
             \/ q \in DOMAIN blocks /\ q < lo /\ lo < blocks[q].hi /\ IsFront(B[q], q, lo)
             \/ q = hi /\ \E p \in DOMAIN blocks : p < hi /\ hi < blocks[p].hi /\ IsRest(B[q], p, hi)
  <2>1. CASE q \in Rest
    BY <1>3, <2>1
  <2>2. CASE q \in DOMAIN blocks /\ (q < lo \/ hi <= q)
    <3>1. Stays(q, lo, hi) \/ (q < lo /\ lo < blocks[q].hi)
      BY <2>2, BlockInside DEF Stays
    <3> QED BY <1>4, <1>5, <2>2, <3>1
  <2> QED BY <2>1, <2>2
<1> HIDE DEF D
<1> QED BY <1>2, <1>3, <1>4, <1>5, <1>6 DEF IsCut

LEMMA CutPieces ==
  ASSUME TypeInv, NEW lo \in Nat, NEW hi \in Nat, lo <= hi, NEW B, B = Cut(lo, hi)
  PROVE  Pieces(B) /\ \A q \in DOMAIN B : B[q].hi <= lo \/ hi <= q
<1>1. IsCut(B, lo, hi)
  BY CutIs
<1>2. ASSUME NEW q \in DOMAIN B
      PROVE  q \in Nat /\ (B[q].hi <= lo \/ hi <= q) /\ \E p \in DOMAIN blocks : PieceOf(B, q, p)
  <2>1. CASE q \in DOMAIN blocks /\ Stays(q, lo, hi) /\ B[q] = blocks[q]
    <3>1. blocks[q] \in Blocks
      BY <2>1 DEF TypeInv, BlocksInv, BlocksTyped
    <3>2. PieceOf(B, q, q)
      BY <2>1, <3>1, BlockInside DEF PieceOf
    <3> QED BY <2>1, <3>2, BlockInside DEF Stays
  <2>2. CASE q \in DOMAIN blocks /\ q < lo /\ lo < blocks[q].hi /\ IsFront(B[q], q, lo)
    <3>1. PieceOf(B, q, q)
      BY <2>2, BlockInside DEF PieceOf, IsFront
    <3> QED BY <2>2, <3>1, BlockInside DEF IsFront
  <2>3. ASSUME q = hi, NEW p \in DOMAIN blocks, p < hi, hi < blocks[p].hi, IsRest(B[q], p, hi)
        PROVE  \E r \in DOMAIN blocks : PieceOf(B, q, r)
    <3>1. PieceOf(B, q, p)
      BY <2>3, BlockInside DEF PieceOf, IsRest
    <3> QED BY <3>1
  <2> QED BY <1>1, <2>1, <2>2, <2>3 DEF IsCut
<1>3. ASSUME NEW q \in DOMAIN B, NEW r \in DOMAIN B, q # r, q < r PROVE B[q].hi <= r
  <2>1. PICK p \in DOMAIN blocks : PieceOf(B, q, p)
    BY <1>2
  <2>2. PICK s \in DOMAIN blocks : PieceOf(B, r, s)
    BY <1>2
  <2>3. q \in Nat /\ r \in Nat /\ B[q].hi \in Nat /\ B[r].hi \in Nat
    BY <1>2, <2>1, <2>2 DEF PieceOf, Blocks
  <2>4. CASE p # s
    <3>1. blocks[p].hi <= s \/ blocks[s].hi <= p
      BY <2>4 DEF TypeInv, BlocksInv, Disjoint
    <3> QED BY <1>3, <2>1, <2>2, <2>3, <3>1, BlockInside DEF PieceOf
  <2>5. CASE p = s
    <3>1. (q \in DOMAIN blocks \/ q = hi) /\ (r \in DOMAIN blocks \/ r = hi)
      BY <1>1 DEF IsCut
    <3>2. r = p \/ r = hi
      <4>1. r \in DOMAIN blocks => r = s
        BY <2>2, <2>3, Apart, BlockInside DEF PieceOf
      <4> QED BY <2>5, <3>1, <4>1
    <3>3. q \in DOMAIN blocks => q = p
      BY <2>1, <2>3, Apart, BlockInside DEF PieceOf
    <3>4. q = p /\ r = hi
      <4>1. q = p \/ q = hi
        BY <3>1, <3>3
      <4>2. q = hi => r = p /\ FALSE
        BY <1>3, <2>1, <2>3, <3>2, BlockInside DEF PieceOf
      <4> QED BY <1>3, <3>2, <4>1, <4>2
    <3>5. B[q].hi <= lo \/ hi <= q
      BY <1>2
    <3> QED BY <1>3, <2>3, <3>4, <3>5
  <2> QED BY <2>4, <2>5
<1>4. ASSUME NEW q \in DOMAIN B, NEW r \in DOMAIN B, q # r PROVE B[q].hi <= r \/ B[r].hi <= q
  <2>1. q < r \/ r < q
    BY <1>2, <1>4
  <2> QED BY <1>3, <1>4, <2>1
<1> QED BY <1>2, <1>4 DEF Pieces

\* A step of t leaves the calls of the others alone.
Others(t) == \A u \in Threads : u # t => th'[u] = th[u]
Same(t) == /\ th'[t].p = th[t].p /\ th'[t].kind = th[t].kind /\ th'[t].size = th[t].size
           /\ th'[t].ptr = th[t].ptr /\ th'[t].len = th[t].len
Resting == {"idle", "check", "report", "clean"}

LEMMA CallOf == ASSUME TypeInv, NEW t \in Threads
  PROVE /\ th[t] \in Calls /\ CallFits(th[t]) /\ th[t].pc \in Pcs /\ th[t].p \in Nat /\ th[t].kind \in Kinds
        /\ th[t].size \in Nat /\ th[t].len \in Nat /\ th[t].ptr \in Nat
<1>1. th[t] \in Calls /\ CallFits(th[t])
  BY DEF TypeInv, CallsTyped
<1>2. \A c \in Calls : c.pc \in Pcs /\ c.p \in Nat /\ c.kind \in Kinds /\ c.size \in Nat /\ c.len \in Nat /\ c.ptr \in Nat
  BY DEF Calls
<1> QED BY <1>1, <1>2

LEMMA Becomes ==
  ASSUME TypeInv, UNCHANGED features, NEW t \in Threads, NEW pc \in Pcs \ Resting, NEW p \in Nat,
         NEW kind \in Kinds, NEW size \in Nat, NEW len \in Nat, Become(t, Call(pc, p, kind, size, len)),
         pc = "insert" => p \in Addr, pc \in {"top", "give"} => kind = "sbrk"
  PROVE  /\ CallsTyped' /\ Others(t)
         /\ th'[t].pc = pc /\ th'[t].p = p /\ th'[t].kind = kind /\ th'[t].size = size /\ th'[t].len = len
<1>1. PICK c : c = Call(pc, p, kind, size, len)
  OBVIOUS
<1>2. c \in Calls /\ c.pc = pc /\ c.p = p /\ c.kind = kind /\ c.size = size /\ c.len = len
  BY <1>1, CallIn
<1>3. th' = [th EXCEPT ![t] = c]
  BY <1>1, Zenon DEF Become
<1>4. CallFits(c)
  BY <1>2 DEF CallFits, Resting
<1> QED BY <1>2, <1>3, <1>4, CallStep DEF TypeInv, Others

LEMMA Goes ==
  ASSUME TypeInv, UNCHANGED features, NEW t \in Threads, NEW pc \in Pcs \ {"idle", "check", "insert"}, Goto(t, pc),
         pc \in {"report", "clean"} => th[t].kind = "malloc", pc \in {"top", "give"} => th[t].kind = "sbrk"
  PROVE  CallsTyped' /\ Others(t) /\ th'[t].pc = pc /\ Same(t)
<1>1. PICK c \in Calls :
        /\ th' = [th EXCEPT ![t] = c] /\ c.pc = pc
        /\ c.p = th[t].p /\ c.kind = th[t].kind /\ c.size = th[t].size /\ c.ptr = th[t].ptr /\ c.len = th[t].len
  BY GotoStep DEF TypeInv
<1>2. CallFits(c)
  BY <1>1 DEF CallFits
<1> QED BY <1>1, <1>2, CallStep DEF TypeInv, Others, Same

LEMMA Returns ==
  ASSUME TypeInv, UNCHANGED features, NEW t \in Threads, Return(t)
  PROVE  CallsTyped' /\ Others(t) /\ th'[t].pc = "idle" /\ th'[t].kind = "malloc"
BY IdleCall, CallStep DEF TypeInv, Others, Return

(***************************************************************************)
(* What the actions do                                                     *)
(***************************************************************************)

\* Made at p, by either action.
Added(t, p, kind, req, hi) ==
  /\ CallsTyped' /\ Others(t) /\ At(t, "idle")
  /\ th'[t].pc = "insert" /\ th'[t].p = p /\ th'[t].kind = kind /\ th'[t].len = req
  /\ th'[t].size = IF kind = "malloc" THEN hi - p ELSE req
  /\ p \notin DOMAIN blocks /\ DOMAIN blocks' = DOMAIN blocks \cup {p}
  /\ \A q \in DOMAIN blocks : blocks'[q] = blocks[q]
  /\ blocks'[p] \in Blocks /\ blocks'[p].hi = hi /\ blocks'[p].req = req /\ blocks'[p].kind = kind
  /\ blocks'[p].owner = t /\ blocks'[p].part = "whole"
  /\ \A q \in DOMAIN blocks : hi <= q \/ blocks[q].hi <= p
  /\ p < hi /\ p + req <= hi
  /\ kind = "sbrk" => p = brk /\ hi = brk' /\ p + req = hi /\ hi <= MemSize /\ MayUseBreak(t) /\ req \in Increments
  /\ kind # "sbrk" => /\ hi <= SbrkBase /\ brk' = brk /\ p % Granule = 0 /\ hi % Granule = 0
                      /\ kind = "mmap" => req > 0 /\ hi = p + RoundUp(req)
  /\ UNCHANGED <<features, calls, table, shadow, lost>>

LEMMA Made ==
  ASSUME TypeInv, UNCHANGED features, NEW t \in Threads, NEW p \in Nat, NEW kind \in Kinds, NEW req \in Nat,
         NEW real \in Nat, Make(t, p, kind, req, real), p \in Addr, p \notin DOMAIN blocks
  PROVE  /\ CallsTyped' /\ Others(t)
         /\ th'[t].pc = "insert" /\ th'[t].p = p /\ th'[t].kind = kind /\ th'[t].len = req
         /\ th'[t].size = IF kind = "malloc" THEN real ELSE req
         /\ DOMAIN blocks' = DOMAIN blocks \cup {p}
         /\ \A q \in DOMAIN blocks : blocks'[q] = blocks[q]
         /\ blocks'[p] \in Blocks /\ blocks'[p].hi = p + real /\ blocks'[p].req = req /\ blocks'[p].kind = kind
         /\ blocks'[p].owner = t /\ blocks'[p].part = "whole"
<1>1. PICK size \in Nat : size = IF kind = "malloc" THEN real ELSE req
  OBVIOUS
<1>2. PICK pc \in Pcs \ Resting : pc = "insert"
  BY DEF Pcs, Resting
<1>3. Become(t, Call(pc, p, kind, size, req))
  BY <1>1, <1>2, Zenon DEF Make
<1>4. /\ CallsTyped' /\ Others(t)
      /\ th'[t].pc = pc /\ th'[t].p = p /\ th'[t].kind = kind /\ th'[t].size = size /\ th'[t].len = req
  <2>1. pc \notin {"top", "give"}
    BY <1>2
  <2> QED BY <1>3, <2>1, Becomes
<1>5. PICK hi \in Nat : hi = p + real
  OBVIOUS
<1>6. PICK b : b = [hi |-> hi, req |-> req, kind |-> kind, owner |-> t, part |-> "whole"]
  OBVIOUS
<1>7. b \in Blocks /\ b.hi = hi /\ b.req = req /\ b.kind = kind /\ b.owner = t /\ b.part = "whole"
  BY <1>6 DEF Blocks, Parts
<1>8. blocks' = With(blocks, p, b)
  BY <1>5, <1>6, Zenon DEF Make
<1>9. DOMAIN blocks' = DOMAIN blocks \cup {p} /\ blocks'[p] = b /\ \A q \in DOMAIN blocks : blocks'[q] = blocks[q]
  BY <1>8 DEF With
<1> QED BY <1>1, <1>2, <1>4, <1>5, <1>7, <1>9

LEMMA Additions ==
  ASSUME TypeInv, NEW t \in Threads, Malloc(t) \/ Sbrk(t)
  PROVE  \E p, req, hi \in Nat, kind \in Kinds : Added(t, p, kind, req, hi)
<1> USE BoundsAssumption
<1>0. brk \in Nat /\ SbrkBase \in Nat /\ MemSize \in Nat /\ SbrkBase <= brk /\ SbrkBase <= MemSize
  BY Numbers
<1>1. CASE Malloc(t)
  <2>0. PICK x \in 0..SbrkBase - 1, m \in Sizes, k \in calls \ {"sbrk"} :
          LET real == RoundUp(IF m = 0 THEN 1 ELSE m)
          IN /\ x % Granule = 0 /\ x + real <= SbrkBase /\ Unused(x, x + real)
             /\ k = "mmap" => m > 0
             /\ Make(t, x, k, m, real)
    BY <1>1 DEF Malloc
  <2>1. PICK p \in Nat, n \in Nat, kind \in Kinds :
          /\ kind # "sbrk" /\ p \in Addr
          /\ LET real == RoundUp(IF n = 0 THEN 1 ELSE n)
             IN /\ p % Granule = 0 /\ p + real <= SbrkBase /\ Unused(p, p + real)
                /\ kind = "mmap" => n > 0
                /\ Make(t, p, kind, n, real)
    <3>1. x \in Nat /\ m \in Nat /\ k \in Kinds /\ k # "sbrk" /\ x \in Addr
      BY <1>0 DEF Kinds, TypeInv, Addr
    <3> QED BY <2>0, <3>1
  <2>2. PICK real \in Nat : /\ real = RoundUp(IF n = 0 THEN 1 ELSE n) /\ n <= real /\ 0 < real
                             /\ real % Granule = 0
    <3>1. (IF n = 0 THEN 1 ELSE n) \in Nat /\ n \in Nat
      OBVIOUS
    <3> QED BY <3>1, RoundUpNat
  <2>3. p \in Nat /\ n \in Nat /\ kind \in Kinds /\ kind # "sbrk" /\ p \in Addr
    BY <2>1
  <2>4. p + real <= SbrkBase /\ Unused(p, p + real) /\ Make(t, p, kind, n, real) /\ p % Granule = 0
    BY <2>1, <2>2
  <2>5. PICK hi \in Nat : hi = p + real
    BY <2>2, <2>3
  <2>6. At(t, "idle") /\ UNCHANGED <<features, calls, table, shadow, brk, lost>>
    BY <1>1 DEF Malloc
  <2>7. \A q \in DOMAIN blocks : hi <= q \/ blocks[q].hi <= p
    BY <2>4, <2>5 DEF Unused
  <2>8. p < hi /\ p + n <= hi /\ hi <= SbrkBase /\ hi - p = real
    BY <2>2, <2>3, <2>4, <2>5
  <2>9. p \notin DOMAIN blocks
    BY <2>3, <2>7, <2>8, BlockInside
  <2>10. hi % Granule = 0
    BY <2>2, <2>3, <2>4, <2>5, SumAligned
  <2>11. kind = "mmap" => n > 0 /\ hi = p + RoundUp(n)
    BY <2>1, <2>2, <2>3, <2>5
  <2>12. /\ CallsTyped' /\ Others(t)
         /\ th'[t].pc = "insert" /\ th'[t].p = p /\ th'[t].kind = kind /\ th'[t].len = n
         /\ th'[t].size = IF kind = "malloc" THEN real ELSE n
         /\ DOMAIN blocks' = DOMAIN blocks \cup {p}
         /\ \A q \in DOMAIN blocks : blocks'[q] = blocks[q]
         /\ blocks'[p] \in Blocks /\ blocks'[p].hi = p + real /\ blocks'[p].req = n /\ blocks'[p].kind = kind
         /\ blocks'[p].owner = t /\ blocks'[p].part = "whole"
    <3>1. Make(t, p, kind, n, real) /\ UNCHANGED features /\ p \in Addr /\ p \notin DOMAIN blocks
      BY <2>3, <2>4, <2>6, <2>9
    <3> QED BY <3>1, Made
  <2>13. Added(t, p, kind, n, hi)
    BY <2>3, <2>4, <2>5, <2>6, <2>7, <2>8, <2>9, <2>10, <2>11, <2>12 DEF Added
  <2> QED BY <2>3, <2>5, <2>13
<1>2. CASE Sbrk(t)
  <2>1. PICK n \in Increments : brk + n <= MemSize /\ Make(t, brk, "sbrk", n, n) /\ brk' = brk + n
    BY <1>2 DEF Sbrk
  <2>2. PICK hi \in Nat, p \in Nat, kind \in Kinds :
          p = brk /\ hi = p + n /\ n \in Nat /\ n > 0 /\ p < hi /\ hi <= MemSize /\ hi = brk' /\ kind = "sbrk"
    BY <1>0, <2>1 DEF Kinds
  <2>3. p \in Addr
    BY <1>0, <2>2 DEF Addr
  <2>4. At(t, "idle") /\ MayUseBreak(t) /\ UNCHANGED <<features, calls, table, shadow, lost>>
    BY <1>2 DEF Sbrk
  <2>5. \A q \in DOMAIN blocks : blocks[q].hi <= p
    BY <2>2, BlockInside
  <2>6. p \notin DOMAIN blocks
    BY <2>2, <2>5, BlockInside
  <2>7. Make(t, p, kind, n, n)
    BY <2>1, <2>2
  <2>12. /\ CallsTyped' /\ Others(t)
         /\ th'[t].pc = "insert" /\ th'[t].p = p /\ th'[t].kind = kind /\ th'[t].len = n
         /\ th'[t].size = IF kind = "malloc" THEN n ELSE n
         /\ DOMAIN blocks' = DOMAIN blocks \cup {p}
         /\ \A q \in DOMAIN blocks : blocks'[q] = blocks[q]
         /\ blocks'[p] \in Blocks /\ blocks'[p].hi = p + n /\ blocks'[p].req = n /\ blocks'[p].kind = kind
         /\ blocks'[p].owner = t /\ blocks'[p].part = "whole"
    BY <2>2, <2>3, <2>4, <2>6, <2>7, Made
  <2>13. Added(t, p, kind, n, hi)
    BY <2>2, <2>4, <2>5, <2>6, <2>12 DEF Added
  <2> QED BY <2>2, <2>13
<1> QED BY <1>1, <1>2

\* The record at p is marked, and is not in use any more.
Marked(p) ==
  /\ p \in DOMAIN table /\ DOMAIN table' = DOMAIN table /\ table'[p].state # "USED"
  /\ \A q \in DOMAIN table : table'[q].size = table[q].size /\ table'[q].req = table[q].req
  /\ \A q \in DOMAIN table : q # p => table'[q] = table[q]

LEMMA Marks ==
  ASSUME TypeInv, NEW p \in DOMAIN table, NEW state \in {"FREED", "AUTOFREED"}, SetState(p, state)
  PROVE  Marked(p) /\ TableTyped'
<1> DEFINE Records == [state : {"USED", "FREED", "AUTOFREED"}, size : Nat, req : Nat]
<1>1. DOMAIN table \subseteq Addr /\ \A q \in DOMAIN table : table[q] \in Records
  BY DEF TypeInv, TableTyped
<1>2. PICK r : r = [table[p] EXCEPT !.state = state]
  OBVIOUS
<1>3. table' = [table EXCEPT ![p] = r]
  BY <1>2 DEF SetState
<1>4. r \in Records /\ r.state # "USED" /\ r.size = table[p].size /\ r.req = table[p].req
  BY <1>1, <1>2
<1> HIDE DEF Records
<1> QED BY <1>1, <1>3, <1>4 DEF Marked, TableTyped, Records

LEMMA Inserted ==
  ASSUME TypeInv, NEW t \in Threads, Insert(t)
  PROVE  /\ CallsTyped' /\ Others(t) /\ At(t, "insert") /\ th'[t].pc = "track" /\ Same(t)
         /\ TableTyped' /\ DOMAIN table' = DOMAIN table \cup {th[t].p}
         /\ \A q \in DOMAIN table : q # th[t].p => table'[q] = table[q]
         /\ table'[th[t].p].state = "USED" /\ table'[th[t].p].size = th[t].size /\ table'[th[t].p].req = th[t].len
         /\ UNCHANGED <<features, calls, shadow, blocks, brk, lost>>
<1>1. At(t, "insert") /\ Goto(t, "track") /\ UNCHANGED <<features, calls, shadow, blocks, brk, lost>>
  BY DEF Insert
<1>2. CallsTyped' /\ Others(t) /\ th'[t].pc = "track" /\ Same(t)
  <2>1. PICK pc \in Pcs \ {"idle", "check", "insert"} : pc = "track"
    BY DEF Pcs
  <2>2. pc \notin {"report", "clean"} /\ pc \notin {"top", "give"} /\ Goto(t, pc)
    BY <1>1, <2>1
  <2> QED BY <1>1, <2>1, <2>2, Goes
<1>3. th[t].size \in Nat /\ th[t].len \in Nat /\ th[t].p \in Addr
  BY <1>1, CallOf DEF CallFits, At
<1>4. PICK p, r : p = th[t].p /\ r = [state |-> "USED", size |-> th[t].size, req |-> th[t].len]
  OBVIOUS
<1>5. table' = With(table, p, r)
  BY <1>4, Zenon DEF Insert
<1>6. r \in [state : {"USED", "FREED", "AUTOFREED"}, size : Nat, req : Nat]
      /\ r.state = "USED" /\ r.size = th[t].size /\ r.req = th[t].len
  BY <1>3, <1>4
<1>7. DOMAIN table' = DOMAIN table \cup {p} /\ table'[p] = r /\ \A q \in DOMAIN table : q # p => table'[q] = table[q]
  BY <1>5 DEF With
<1>8. TableTyped'
  BY <1>3, <1>4, <1>6, <1>7 DEF TypeInv, TableTyped
<1> QED BY <1>1, <1>2, <1>4, <1>6, <1>7, <1>8

LEMMA Tracked ==
  ASSUME TypeInv, NEW t \in Threads, Track(t)
  PROVE  /\ CallsTyped' /\ Others(t) /\ At(t, "track") /\ th'[t].pc = "idle" /\ th'[t].kind = "malloc"
         /\ IF On("SHADOW")
            THEN shadow' \in Written(shadow, TrackBytes(th[t].p, th[t].len, th[t].size))
            ELSE UNCHANGED shadow
         /\ ShadowTyped(shadow')
         /\ UNCHANGED <<features, calls, table, blocks, brk, lost>>
<1>1. /\ At(t, "track") /\ Return(t) /\ UNCHANGED <<features, calls, table, blocks, brk, lost>>
      /\ IF On("SHADOW")
         THEN shadow' \in Written(shadow, TrackBytes(th[t].p, th[t].len, th[t].size))
         ELSE UNCHANGED shadow
  BY DEF Track
<1>2. ShadowTyped(shadow')
  <2>0. ShadowTyped(shadow)
    BY DEF TypeInv
  <2>1. CASE On("SHADOW")
    <3>1. PICK p, len, size \in Nat : p = th[t].p /\ len = th[t].len /\ size = th[t].size
      BY CallOf
    <3>2. PICK f : f = TrackBytes(p, len, size)
      OBVIOUS
    <3>3. DOMAIN f \subseteq Int /\ \A i \in DOMAIN f : f[i] \in Bytes
      BY <3>2, TrackTyped
    <3>4. shadow' \in Written(shadow, f)
      BY <1>1, <2>1, <3>1, <3>2, Zenon
    <3> QED BY <2>0, <3>3, <3>4, WriteBytes
  <2>2. CASE ~ On("SHADOW")
    BY <1>1, <2>0, <2>2
  <2> QED BY <2>1, <2>2
<1> QED BY <1>1, <1>2, Returns

\* The break moves down.
Lowered(low) ==
  /\ low \in Nat /\ SbrkBase <= low /\ low <= brk
  /\ brk' = low /\ blocks' = Cut(low, brk)

LEMMA MovedDown ==
  ASSUME TypeInv, NEW t \in Threads, NEW n \in Increments, MovesDown(t, n)
  PROVE  /\ Lowered(brk - n) /\ brk - n < brk
         /\ \A q \in DOMAIN blocks : brk - n < blocks[q].hi => blocks[q].owner = t \/ blocks[q].part = "rest"
<1>1. n \in Nat /\ n > 0 /\ brk \in Nat /\ SbrkBase \in Nat
  BY Numbers, BoundsAssumption
<1>2. /\ SbrkBase + n <= brk /\ brk' = brk - n /\ blocks' = Cut(brk - n, brk)
      /\ \A q \in DOMAIN blocks : brk - n < blocks[q].hi => blocks[q].owner = t \/ blocks[q].part = "rest"
  BY DEF MovesDown
<1>3. brk - n \in Nat /\ SbrkBase <= brk - n /\ brk - n <= brk /\ brk - n < brk
  BY <1>1, <1>2
<1> QED BY <1>2, <1>3 DEF Lowered

LEMMA Shrunk ==
  ASSUME TypeInv, NEW t \in Threads, Shrink(t)
  PROVE  /\ At(t, "idle") /\ MayUseBreak(t) /\ CallsTyped' /\ Others(t)
         /\ UNCHANGED <<features, calls, table, shadow>>
         /\ \E low \in Nat :
              /\ Lowered(low) /\ low < brk /\ \E n \in Increments : low = brk - n
              /\ \A q \in DOMAIN blocks : low < blocks[q].hi => blocks[q].owner = t \/ blocks[q].part = "rest"
              /\ lost' = lost \cup Untold(low, brk, Told(low))
              /\ th'[t].pc = "remove" /\ th'[t].p = low /\ th'[t].kind = "sbrk" /\ th'[t].len = 0
<1>1. /\ At(t, "idle") /\ MayUseBreak(t) /\ UNCHANGED <<features, calls, table, shadow>>
      /\ \E n \in Increments :
           /\ MovesDown(t, n)
           /\ lost' = lost \cup Untold(brk - n, brk, Told(brk - n))
           /\ Become(t, Call("remove", brk - n, "sbrk", 0, 0))
  BY DEF Shrink
<1>2. PICK n \in Increments :
           /\ MovesDown(t, n)
           /\ lost' = lost \cup Untold(brk - n, brk, Told(brk - n))
           /\ Become(t, Call("remove", brk - n, "sbrk", 0, 0))
  BY <1>1
<1>3. /\ Lowered(brk - n) /\ brk - n < brk
      /\ \A q \in DOMAIN blocks : brk - n < blocks[q].hi => blocks[q].owner = t \/ blocks[q].part = "rest"
  BY <1>2, MovedDown
<1>4. PICK low \in Nat : low = brk - n
  BY <1>3 DEF Lowered
<1>5. PICK pc \in Pcs \ Resting, kind \in Kinds, z \in Nat : pc = "remove" /\ kind = "sbrk" /\ z = 0
  BY DEF Pcs, Resting, Kinds
<1>6. Become(t, Call(pc, low, kind, z, z))
  BY <1>2, <1>4, <1>5, Zenon
<1>7. /\ CallsTyped' /\ Others(t)
      /\ th'[t].pc = pc /\ th'[t].p = low /\ th'[t].kind = kind /\ th'[t].size = z /\ th'[t].len = z
  <2>1. pc # "insert" /\ pc \notin {"top", "give"} /\ UNCHANGED features
    BY <1>1, <1>5
  <2> QED BY <1>6, <2>1, Becomes
<1> QED BY <1>1, <1>2, <1>3, <1>4, <1>5, <1>7

LEMMA BrkMoved ==
  ASSUME TypeInv, NEW t \in Threads, Brk(t)
  PROVE  /\ At(t, "idle") /\ MayUseBreak(t) /\ UNCHANGED <<features, calls, table, shadow, th>>
         /\ \/ /\ brk' \in Nat /\ brk <= brk' /\ brk' <= MemSize /\ UNCHANGED <<blocks, lost>>
               /\ \E n \in Increments : brk' = brk + n
            \/ \E low \in Nat :
                 /\ Lowered(low) /\ \E n \in Increments : low = brk - n
                 /\ \A q \in DOMAIN blocks : low < blocks[q].hi => blocks[q].owner = t \/ blocks[q].part = "rest"
                 /\ lost' = lost \cup Untold(low, brk, {})
<1>1. At(t, "idle") /\ MayUseBreak(t) /\ UNCHANGED <<features, calls, table, shadow, th>>
  BY DEF Brk
<1>2. PICK n \in Increments :
       \/ brk + n <= MemSize /\ brk' = brk + n /\ UNCHANGED <<blocks, lost>>
       \/ MovesDown(t, n) /\ lost' = lost \cup Untold(brk - n, brk, {})
  BY DEF Brk
<1>3. CASE brk + n <= MemSize /\ brk' = brk + n /\ UNCHANGED <<blocks, lost>>
  <2>1. n \in Nat /\ brk \in Nat
    BY Numbers, BoundsAssumption
  <2>2. brk' \in Nat /\ brk <= brk' /\ brk' <= MemSize
    BY <1>3, <2>1
  <2> QED BY <1>1, <1>3, <2>2
<1>4. CASE MovesDown(t, n) /\ lost' = lost \cup Untold(brk - n, brk, {})
  <2>1. /\ Lowered(brk - n) /\ brk - n < brk
        /\ \A q \in DOMAIN blocks : brk - n < blocks[q].hi => blocks[q].owner = t \/ blocks[q].part = "rest"
    BY <1>4, MovedDown
  <2>2. PICK low \in Nat : low = brk - n
    BY <2>1 DEF Lowered
  <2> QED BY <1>1, <1>4, <2>1, <2>2
<1> QED BY <1>2, <1>3, <1>4

\* A call begins, and nothing else changes.
Begins(t, pc, p, kind, len) ==
  /\ At(t, "idle") /\ CallsTyped' /\ Others(t)
  /\ th'[t].pc = pc /\ th'[t].p = p /\ th'[t].kind = kind /\ th'[t].len = len
  /\ UNCHANGED <<features, calls, table, shadow, blocks, brk, lost>>

LEMMA Released ==
  ASSUME TypeInv, NEW t \in Threads, Release(t)
  PROVE  \E p \in DOMAIN blocks :
           blocks[p].owner = t /\ blocks[p].kind = "malloc" /\ Begins(t, "remove", p, "malloc", 0)
<1>1. PICK p \in Addr : Owns(t, p, {"malloc"}) /\ Become(t, Call("remove", p, "malloc", 0, 0))
  BY DEF Release
<1>2. p \in DOMAIN blocks /\ blocks[p].owner = t /\ blocks[p].kind = "malloc" /\ p \in Nat
  BY <1>1 DEF Owns, Addr
<1>3. At(t, "idle") /\ UNCHANGED <<features, calls, table, shadow, blocks, brk, lost>>
  BY DEF Release
<1>5. PICK pc \in Pcs \ Resting, kind \in Kinds, z \in Nat, q \in Nat : pc = "remove" /\ kind = "malloc" /\ z = 0 /\ q = p
  BY <1>2 DEF Pcs, Resting, Kinds
<1>6. Become(t, Call(pc, q, kind, z, z))
  BY <1>1, <1>5, Zenon
<1>7. /\ CallsTyped' /\ Others(t)
      /\ th'[t].pc = pc /\ th'[t].p = q /\ th'[t].kind = kind /\ th'[t].size = z /\ th'[t].len = z
  <2>1. pc # "insert" /\ pc \notin {"top", "give"} /\ UNCHANGED features
    BY <1>3, <1>5
  <2> QED BY <1>6, <2>1, Becomes
<1> QED BY <1>2, <1>3, <1>5, <1>7 DEF Begins

LEMMA Unmapped ==
  ASSUME TypeInv, NEW t \in Threads, Munmap(t)
  PROVE  \E lo, hi, len \in Nat :
           /\ lo < hi /\ len = hi - lo /\ lo % Granule = 0 /\ hi % Granule = 0 /\ hi <= SbrkBase
           /\ \A a \in lo..hi - 1 : \E q \in 0..a : Owns(t, q, {"mmap"}) /\ a < blocks[q].hi
           /\ Begins(t, "remove", lo, "mmap", len)
<1>1. PICK lo \in 0..SbrkBase, hi \in 0..SbrkBase :
       /\ lo < hi /\ lo % Granule = 0 /\ hi % Granule = 0
       /\ \A a \in lo..hi - 1 : \E q \in 0..a : Owns(t, q, {"mmap"}) /\ a < blocks[q].hi
       /\ Become(t, Call("remove", lo, "mmap", 0, hi - lo))
  BY DEF Munmap
<1>2. lo \in Nat /\ hi \in Nat /\ hi <= SbrkBase
  BY Numbers
<1>3. At(t, "idle") /\ UNCHANGED <<features, calls, table, shadow, blocks, brk, lost>>
  BY DEF Munmap
<1>5. PICK pc \in Pcs \ Resting, kind \in Kinds, z \in Nat, q \in Nat, len \in Nat :
        pc = "remove" /\ kind = "mmap" /\ z = 0 /\ q = lo /\ len = hi - lo
  BY <1>1, <1>2 DEF Pcs, Resting, Kinds
<1>6. Become(t, Call(pc, q, kind, z, len))
  BY <1>1, <1>5, Zenon
<1>7. /\ CallsTyped' /\ Others(t)
      /\ th'[t].pc = pc /\ th'[t].p = q /\ th'[t].kind = kind /\ th'[t].size = z /\ th'[t].len = len
  <2>1. pc # "insert" /\ pc \notin {"top", "give"} /\ UNCHANGED features
    BY <1>3, <1>5
  <2> QED BY <1>6, <2>1, Becomes
<1>8. Begins(t, "remove", lo, "mmap", len)
  BY <1>3, <1>5, <1>7 DEF Begins
<1> QED BY <1>1, <1>2, <1>5, <1>8

LEMMA Autofreed ==
  ASSUME TypeInv, NEW t \in Threads, Autofree(t)
  PROVE  \E p \in DOMAIN blocks :
           /\ blocks[p].owner = t
           /\ blocks[p].part = "whole" \/ (blocks[p].part = "front" /\ blocks[p].kind = "sbrk")
           /\ blocks[p].kind = "sbrk" => MayUseBreak(t)
           /\ Begins(t, "autoremove", p, blocks[p].kind, 0)
<1>1. PICK p \in Addr :
       /\ Owns(t, p, {"malloc", "mmap", "sbrk"})
       /\ blocks[p].part = "whole" \/ (blocks[p].part = "front" /\ blocks[p].kind = "sbrk")
       /\ blocks[p].kind = "sbrk" => MayUseBreak(t)
       /\ Become(t, Call("autoremove", p, blocks[p].kind, 0, 0))
  BY DEF Autofree
<1>2. p \in DOMAIN blocks /\ blocks[p].owner = t /\ blocks[p].kind \in Kinds /\ p \in Nat
  BY <1>1 DEF Owns, Addr, Kinds
<1>3. At(t, "idle") /\ UNCHANGED <<features, calls, table, shadow, blocks, brk, lost>>
  BY DEF Autofree
<1>5. PICK pc \in Pcs \ Resting, kind \in Kinds, z \in Nat, q \in Nat :
        pc = "autoremove" /\ kind = blocks[p].kind /\ z = 0 /\ q = p
  BY <1>2 DEF Pcs, Resting
<1>6. Become(t, Call(pc, q, kind, z, z))
  BY <1>1, <1>5, Zenon
<1>7. /\ CallsTyped' /\ Others(t)
      /\ th'[t].pc = pc /\ th'[t].p = q /\ th'[t].kind = kind /\ th'[t].size = z /\ th'[t].len = z
  <2>1. pc # "insert" /\ pc \notin {"top", "give"} /\ UNCHANGED features
    BY <1>3, <1>5
  <2> QED BY <1>6, <2>1, Becomes
<1>8. Begins(t, "autoremove", p, blocks[p].kind, 0)
  BY <1>3, <1>5, <1>7 DEF Begins
<1> QED BY <1>1, <1>2, <1>8

LEMMA Removed ==
  ASSUME TypeInv, NEW t \in Threads, Remove(t)
  PROVE  /\ At(t, "remove") /\ CallsTyped' /\ Others(t)
         /\ th'[t].p = th[t].p /\ th'[t].kind = th[t].kind /\ th'[t].len = th[t].len
         /\ TableTyped' /\ IF Recorded(th[t].p) THEN Marked(th[t].p) ELSE UNCHANGED table
         /\ \/ /\ th'[t].pc = "poison" /\ th[t].p \in DOMAIN table /\ th'[t].size = table[th[t].p].size
               /\ Recorded(th[t].p) \/ th[t].kind = "sbrk"
            \/ th'[t].pc = "release" /\ ~ Recorded(th[t].p)
         /\ UNCHANGED <<features, calls, shadow, blocks, brk, lost>>
<1>1. /\ At(t, "remove") /\ UNCHANGED <<features, calls, shadow, blocks, brk, lost>>
      /\ IF Recorded(th[t].p) THEN SetState(th[t].p, "FREED") ELSE UNCHANGED table
      /\ IF Recorded(th[t].p) \/ (th[t].p \in DOMAIN table /\ th[t].kind = "sbrk")
           THEN Become(t, Call("poison", th[t].p, th[t].kind, table[th[t].p].size, th[t].len))
           ELSE Goto(t, "release")
  BY DEF Remove
<1>2. TableTyped' /\ IF Recorded(th[t].p) THEN Marked(th[t].p) ELSE UNCHANGED table
  BY <1>1, Marks DEF Recorded, TypeInv, TableTyped
<1>3. CASE Recorded(th[t].p) \/ (th[t].p \in DOMAIN table /\ th[t].kind = "sbrk")
  <2>1. th[t].p \in DOMAIN table
    BY <1>3 DEF Recorded
  <2>2. table[th[t].p].size \in Nat
    BY <2>1 DEF TypeInv, TableTyped
  <2>3. PICK pc \in Pcs \ Resting, p, size, len \in Nat, kind \in Kinds :
          pc = "poison" /\ p = th[t].p /\ kind = th[t].kind /\ size = table[th[t].p].size /\ len = th[t].len
    BY <2>2, CallOf DEF Pcs, Resting
  <2>4. Become(t, Call(pc, p, kind, size, len))
    BY <1>1, <1>3, <2>3, Zenon
  <2>5. /\ CallsTyped' /\ Others(t)
        /\ th'[t].pc = pc /\ th'[t].p = p /\ th'[t].kind = kind /\ th'[t].size = size /\ th'[t].len = len
    <3>1. pc # "insert" /\ pc \notin {"top", "give"} /\ UNCHANGED features
      BY <1>1, <2>3
    <3> QED BY <2>4, <3>1, Becomes
  <2> QED BY <1>1, <1>2, <1>3, <2>1, <2>3, <2>5
<1>4. CASE ~ (Recorded(th[t].p) \/ (th[t].p \in DOMAIN table /\ th[t].kind = "sbrk"))
  <2>1. PICK pc \in Pcs \ {"idle", "check", "insert"} : pc = "release"
    BY DEF Pcs
  <2>2. pc \notin {"report", "clean"} /\ pc \notin {"top", "give"} /\ Goto(t, pc)
    BY <1>1, <1>4, <2>1
  <2>3. CallsTyped' /\ Others(t) /\ th'[t].pc = pc /\ Same(t)
    BY <1>1, <2>1, <2>2, Goes
  <2> QED BY <1>1, <1>2, <1>4, <2>1, <2>3 DEF Same
<1> QED BY <1>3, <1>4

LEMMA Autoremoved ==
  ASSUME TypeInv, NEW t \in Threads, Autoremove(t)
  PROVE  /\ At(t, "autoremove") /\ CallsTyped' /\ Others(t) /\ TableTyped'
         /\ UNCHANGED <<features, calls, shadow, blocks, brk, lost>>
         /\ \/ /\ Recorded(th[t].p) /\ Marked(th[t].p)
               /\ th'[t].pc = (IF th[t].kind = "sbrk" THEN "top" ELSE "poison")
               /\ th'[t].p = th[t].p /\ th'[t].kind = th[t].kind
               /\ th'[t].size = table[th[t].p].size /\ th'[t].len = RoundUp(table[th[t].p].size)
            \/ ~ Recorded(th[t].p) /\ UNCHANGED table /\ th'[t].pc = "idle" /\ th'[t].kind = "malloc"
<1>1. /\ At(t, "autoremove") /\ UNCHANGED <<features, calls, shadow, blocks, brk, lost>>
      /\ IF Recorded(th[t].p)
         THEN /\ SetState(th[t].p, "AUTOFREED")
              /\ Become(t, Call(IF th[t].kind = "sbrk" THEN "top" ELSE "poison", th[t].p, th[t].kind,
                                table[th[t].p].size, RoundUp(table[th[t].p].size)))
         ELSE Return(t) /\ UNCHANGED table
  BY DEF Autoremove
<1>2. CASE Recorded(th[t].p)
  <2>1. th[t].p \in DOMAIN table /\ Marked(th[t].p) /\ TableTyped'
    BY <1>1, <1>2, Marks DEF Recorded
  <2>2. table[th[t].p].size \in Nat
    BY <2>1 DEF TypeInv, TableTyped
  <2>3. PICK pc \in Pcs \ Resting, p, size, len \in Nat, kind \in Kinds :
          /\ pc = (IF th[t].kind = "sbrk" THEN "top" ELSE "poison") /\ p = th[t].p /\ kind = th[t].kind
          /\ size = table[th[t].p].size /\ len = RoundUp(table[th[t].p].size)
    BY <2>2, CallOf, RoundUpNat DEF Pcs, Resting
  <2>4. Become(t, Call(pc, p, kind, size, len))
    BY <1>1, <1>2, <2>3, Zenon
  <2>5. /\ CallsTyped' /\ Others(t)
        /\ th'[t].pc = pc /\ th'[t].p = p /\ th'[t].kind = kind /\ th'[t].size = size /\ th'[t].len = len
    <3>1. pc # "insert" /\ (pc \in {"top", "give"} => kind = "sbrk") /\ UNCHANGED features
      BY <1>1, <2>3
    <3> QED BY <2>4, <3>1, Becomes
  <2> QED BY <1>1, <1>2, <2>1, <2>3, <2>5
<1>3. CASE ~ Recorded(th[t].p)
  <2>1. TableTyped'
    BY <1>1, <1>3 DEF TypeInv, TableTyped
  <2> QED BY <1>1, <1>3, <2>1, Returns
<1> QED BY <1>2, <1>3

LEMMA TopAsked ==
  ASSUME TypeInv, NEW t \in Threads, AutofreeTop(t)
  PROVE  /\ At(t, "top") /\ th[t].kind = "sbrk" /\ CallsTyped' /\ Others(t)
         /\ UNCHANGED <<features, calls, table, shadow, brk, lost>>
         /\ \/ th[t].p + th[t].size = brk /\ th'[t].pc = "give" /\ Same(t) /\ UNCHANGED blocks
            \/ th'[t].pc = "idle" /\ th'[t].kind = "malloc" /\ blocks' = Spoil(th[t].p)
<1>1. /\ At(t, "top") /\ UNCHANGED <<features, calls, table, shadow, brk, lost>>
      /\ IF th[t].p + th[t].size = brk
         THEN Goto(t, "give") /\ UNCHANGED blocks
         ELSE Return(t) /\ blocks' = Spoil(th[t].p)
  BY DEF AutofreeTop
<1>2. th[t].kind = "sbrk"
  BY <1>1, CallOf DEF CallFits, At
<1>3. ASSUME Goto(t, "give") PROVE CallsTyped' /\ Others(t) /\ th'[t].pc = "give" /\ Same(t)
  <2>1. PICK pc \in Pcs \ {"idle", "check", "insert"} : pc = "give"
    BY DEF Pcs
  <2>2. pc \notin {"report", "clean"} /\ Goto(t, pc)
    BY <1>3, <2>1
  <2> QED BY <1>1, <1>2, <2>1, <2>2, Goes
<1> QED BY <1>1, <1>2, <1>3, Returns

LEMMA Given ==
  ASSUME TypeInv, NEW t \in Threads, AutofreeGive(t)
  PROVE  /\ At(t, "give") /\ th[t].kind = "sbrk" /\ CallsTyped' /\ Others(t) /\ th'[t].pc = "poison" /\ Same(t)
         /\ UNCHANGED <<features, calls, table, shadow>>
         /\ \/ \E low \in Nat : /\ low = brk - th[t].size /\ Lowered(low)
                                /\ lost' = lost \cup Untold(low, brk, Told(th[t].p))
            \/ ~ (SbrkBase <= brk - th[t].size) /\ UNCHANGED <<brk, blocks, lost>>
<1>1. /\ At(t, "give") /\ UNCHANGED <<features, calls, table, shadow>> /\ Goto(t, "poison")
      /\ IF SbrkBase <= brk - th[t].size
         THEN /\ brk' = brk - th[t].size /\ blocks' = Cut(brk - th[t].size, brk)
              /\ lost' = lost \cup Untold(brk - th[t].size, brk, Told(th[t].p))
         ELSE UNCHANGED <<brk, blocks, lost>>
  BY DEF AutofreeGive
<1>2. th[t].kind = "sbrk"
  BY <1>1, CallOf DEF CallFits, At
<1>3. CallsTyped' /\ Others(t) /\ th'[t].pc = "poison" /\ Same(t)
  <2>1. PICK pc \in Pcs \ {"idle", "check", "insert"} : pc = "poison"
    BY DEF Pcs
  <2>2. pc \notin {"report", "clean"} /\ pc \notin {"top", "give"} /\ Goto(t, pc)
    BY <1>1, <2>1
  <2> QED BY <1>1, <1>2, <2>1, <2>2, Goes
<1>4. CASE SbrkBase <= brk - th[t].size
  <2>1. PICK low \in Nat : low = brk - th[t].size /\ low <= brk
    BY <1>4, Numbers, CallOf
  <2>2. Lowered(low) /\ lost' = lost \cup Untold(low, brk, Told(th[t].p))
    BY <1>1, <1>4, <2>1 DEF Lowered
  <2> QED BY <1>1, <1>2, <1>3, <2>1, <2>2
<1> QED BY <1>1, <1>2, <1>3, <1>4

LEMMA PoisonedIs ==
  ASSUME TypeInv, NEW t \in Threads, Poison(t)
  PROVE  /\ At(t, "poison") /\ CallsTyped' /\ Others(t) /\ th'[t].pc = "release" /\ Same(t)
         /\ IF On("SHADOW") THEN shadow' \in Written(shadow, PoisonBytes(th[t].p, th[t].size)) ELSE UNCHANGED shadow
         /\ ShadowTyped(shadow')
         /\ UNCHANGED <<features, calls, table, blocks, brk, lost>>
<1>1. /\ At(t, "poison") /\ Goto(t, "release") /\ UNCHANGED <<features, calls, table, blocks, brk, lost>>
      /\ IF On("SHADOW") THEN shadow' \in Written(shadow, PoisonBytes(th[t].p, th[t].size)) ELSE UNCHANGED shadow
  BY DEF Poison
<1>2. ShadowTyped(shadow')
  <2>1. PICK p, size \in Nat : p = th[t].p /\ size = th[t].size
    BY CallOf
  <2>2. ShadowTyped(shadow)
    BY DEF TypeInv
  <2> QED BY <1>1, <2>1, <2>2, PoisonAccess
<1>3. CallsTyped' /\ Others(t) /\ th'[t].pc = "release" /\ Same(t)
  <2>1. PICK pc \in Pcs \ {"idle", "check", "insert"} : pc = "release"
    BY DEF Pcs
  <2>2. pc \notin {"report", "clean"} /\ pc \notin {"top", "give"} /\ Goto(t, pc)
    BY <1>1, <2>1
  <2> QED BY <1>1, <2>1, <2>2, Goes
<1> QED BY <1>1, <1>2, <1>3

LEMMA Ended ==
  ASSUME TypeInv, NEW t \in Threads, SystemRelease(t)
  PROVE  /\ At(t, "release") /\ CallsTyped' /\ Others(t) /\ th'[t].pc = "idle" /\ th'[t].kind = "malloc"
         /\ UNCHANGED <<features, calls, table, shadow, brk>>
         /\ \/ th[t].kind = "sbrk" /\ UNCHANGED <<blocks, lost>>
            \/ th[t].kind = "malloc" /\ blocks' = Without(blocks, th[t].p) /\ UNCHANGED lost
            \/ \E hi \in Nat : /\ th[t].kind = "mmap" /\ hi = th[t].p + th[t].len /\ blocks' = Cut(th[t].p, hi)
                               /\ lost' = lost \cup Untold(th[t].p, hi, Told(th[t].p))
            \/ th[t].kind = "mmap" /\ blocks' = Spoil(th[t].p) /\ UNCHANGED lost
<1>1. /\ At(t, "release") /\ Return(t) /\ UNCHANGED <<features, calls, table, shadow, brk>>
      /\ \/ th[t].kind = "sbrk" /\ UNCHANGED <<blocks, lost>>
         \/ th[t].kind = "malloc" /\ blocks' = Without(blocks, th[t].p) /\ UNCHANGED lost
         \/ /\ th[t].kind = "mmap" /\ blocks' = Cut(th[t].p, th[t].p + th[t].len)
            /\ lost' = lost \cup Untold(th[t].p, th[t].p + th[t].len, Told(th[t].p))
         \/ th[t].kind = "mmap" /\ blocks' = Spoil(th[t].p) /\ UNCHANGED lost
  BY DEF SystemRelease
<1>2. PICK hi \in Nat : hi = th[t].p + th[t].len
  BY CallOf
<1> QED BY <1>1, <1>2, Returns

LEMMA Accessed ==
  ASSUME TypeInv, NEW t \in Threads, Access(t)
  PROVE  /\ At(t, "idle") /\ CallsTyped' /\ Others(t) /\ th'[t].pc \in {"check", "report", "clean"}
         /\ th'[t].kind = "malloc" /\ (th'[t].pc = "check" <=> On("SHADOW"))
         /\ UNCHANGED <<features, calls, table, shadow, blocks, brk, lost>>
         /\ th'[t].len \in Nat \ {0} /\ th'[t].ptr \in Nat
         /\ ~ On("SHADOW") =>
              \E b \in DOMAIN table, bound \in Nat :
                /\ b = th'[t].p /\ bound = IF table[b].req # 0 THEN table[b].req ELSE table[b].size
                /\ th'[t].pc = "report" <=>
                     table[b].state = "FREED" \/ ~ InRecord(b, th'[t].ptr, th'[t].len, bound)
<1>1. At(t, "idle") /\ UNCHANGED <<features, calls, table, shadow, blocks, brk, lost>>
  BY DEF Access
<1>2. PICK base \in Addr, ptr \in Addr, len \in Accesses :
        /\ ptr + len <= MemSize
        /\ \E b \in Found(base, ptr) :
             LET rec == table[b]
                 bound == IF rec.req # 0 THEN rec.req ELSE rec.size
                 pc == IF On("SHADOW") THEN "check"
                       ELSE IF rec.state = "FREED" \/ ~ InRecord(b, ptr, len, bound) THEN "report"
                       ELSE "clean"
             IN Become(t, [pc |-> pc, p |-> IF On("SHADOW") THEN 0 ELSE base, kind |-> "malloc",
                           size |-> 0, ptr |-> ptr, len |-> len])
  BY DEF Access
<1>3. PICK b \in Found(base, ptr) :
        LET rec == table[b]
            bound == IF rec.req # 0 THEN rec.req ELSE rec.size
            pc == IF On("SHADOW") THEN "check"
                  ELSE IF rec.state = "FREED" \/ ~ InRecord(b, ptr, len, bound) THEN "report"
                  ELSE "clean"
        IN Become(t, [pc |-> pc, p |-> IF On("SHADOW") THEN 0 ELSE base, kind |-> "malloc",
                      size |-> 0, ptr |-> ptr, len |-> len])
  BY <1>2
<1>4. b \in DOMAIN table /\ (~ On("SHADOW") => b = base)
  BY DEF Found, Containing, On
<1>5. table[b].req \in Nat /\ table[b].size \in Nat
  BY <1>4 DEF TypeInv, TableTyped
<1>6. PICK bound \in Nat : bound = IF table[b].req # 0 THEN table[b].req ELSE table[b].size
  BY <1>5
<1>7. PICK pc \in {"check", "report", "clean"} :
        pc = IF On("SHADOW") THEN "check"
             ELSE IF table[b].state = "FREED" \/ ~ InRecord(b, ptr, len, bound) THEN "report" ELSE "clean"
  OBVIOUS
<1>8. PICK p \in Nat : p = IF On("SHADOW") THEN 0 ELSE base
  BY DEF Addr
<1>9. PICK c : c = [pc |-> pc, p |-> p, kind |-> "malloc", size |-> 0, ptr |-> ptr, len |-> len]
  OBVIOUS
<1>10. th' = [th EXCEPT ![t] = c]
  BY <1>3, <1>6, <1>7, <1>8, <1>9, Zenon DEF Become
<1>11. ptr \in Nat /\ len \in Nat \ {0}
  BY BoundsAssumption DEF Addr
<1>12. /\ c \in Calls /\ c.pc = pc /\ c.p = p /\ c.kind = "malloc" /\ c.ptr = ptr /\ c.len = len
  BY <1>7, <1>9, <1>11 DEF Calls, Pcs, Kinds
<1>13. pc = "check" <=> On("SHADOW")
  BY <1>7
<1>14. CallFits(c)
  BY <1>2, <1>11, <1>12, <1>13 DEF CallFits
<1>15. CallsTyped' /\ Others(t) /\ th'[t] = c
  BY <1>1, <1>10, <1>12, <1>14, CallStep DEF TypeInv, Others
<1>16. ASSUME ~ On("SHADOW")
       PROVE  /\ b = th'[t].p
              /\ th'[t].pc = "report" <=>
                     table[b].state = "FREED" \/ ~ InRecord(b, th'[t].ptr, th'[t].len, bound)
  BY <1>4, <1>7, <1>8, <1>12, <1>15, <1>16, Zenon
<1> QED BY <1>1, <1>4, <1>6, <1>7, <1>11, <1>12, <1>13, <1>15, <1>16

LEMMA Checked ==
  ASSUME TypeInv, NEW t \in Threads, CheckShadow(t)
  PROVE  /\ At(t, "check") /\ CallsTyped' /\ Others(t) /\ Same(t)
         /\ th'[t].pc = IF OutOfBounds(shadow, th[t].ptr, th[t].len) THEN "report" ELSE "clean"
         /\ UNCHANGED <<features, calls, table, shadow, blocks, brk, lost>>
<1>1. /\ At(t, "check") /\ UNCHANGED <<features, calls, table, shadow, blocks, brk, lost>>
      /\ Goto(t, IF OutOfBounds(shadow, th[t].ptr, th[t].len) THEN "report" ELSE "clean")
  BY DEF CheckShadow
<1>2. PICK pc \in Pcs \ {"idle", "check", "insert"} :
        pc = IF OutOfBounds(shadow, th[t].ptr, th[t].len) THEN "report" ELSE "clean"
  BY DEF Pcs
<1>3. th[t].kind = "malloc" /\ pc \notin {"top", "give"} /\ Goto(t, pc)
  BY <1>1, <1>2, CallOf DEF CallFits, At
<1>4. CallsTyped' /\ Others(t) /\ th'[t].pc = pc /\ Same(t)
  BY <1>1, <1>2, <1>3, Goes
<1> QED BY <1>1, <1>2, <1>4

LEMMA AccessEnded ==
  ASSUME TypeInv, NEW t \in Threads, EndAccess(t)
  PROVE  /\ At(t, "report") \/ At(t, "clean")
         /\ CallsTyped' /\ Others(t) /\ th'[t].pc = "idle" /\ th'[t].kind = "malloc"
         /\ UNCHANGED <<features, calls, table, shadow, blocks, brk, lost>>
BY Returns DEF EndAccess

(***************************************************************************)
(* The types                                                               *)
(***************************************************************************)

\* What becomes of blocks, when the break is not below them.
LEMMA PiecesOK ==
  ASSUME TypeInv, Pieces(blocks'), \A q \in DOMAIN blocks' : blocks'[q].kind = "sbrk" => blocks'[q].hi <= brk'
  PROVE  BlocksInv'
<1>1. ASSUME NEW q \in DOMAIN blocks' PROVE q \in Nat /\ blocks'[q] \in Blocks /\ BlockOK(q)'
  <2>1. PICK p \in DOMAIN blocks : PieceOf(blocks', q, p)
    BY DEF Pieces
  <2>2. q \in Nat /\ blocks'[q] \in Blocks
    BY <2>1 DEF PieceOf, Pieces
  <2>3. blocks'[q].hi \in Nat /\ blocks'[q].req \in Nat
    BY <2>2 DEF Blocks
  <2>4. BlockOK(q)'
    BY <2>1, <2>2, <2>3, BlockInside, Numbers DEF PieceOf, BlockOK
  <2> QED BY <2>2, <2>4
<1>2. Disjoint'
  BY DEF Pieces, Disjoint
<1> QED BY <1>1, <1>2 DEF BlocksInv, BlocksTyped

LEMMA LoweredPieces ==
  ASSUME TypeInv, NEW low, Lowered(low)
  PROVE  Pieces(blocks') /\ IsCut(blocks', low, brk) /\ BlocksInv' /\ brk' \in SbrkBase..MemSize
         /\ \A q \in DOMAIN blocks' : blocks'[q].hi <= low
<1>1. low \in Nat /\ brk \in Nat /\ low <= brk /\ brk' = low /\ blocks' = Cut(low, brk)
  BY Numbers DEF Lowered
<1>2. IsCut(blocks', low, brk) /\ Pieces(blocks') /\ \A q \in DOMAIN blocks' : blocks'[q].hi <= low \/ brk <= q
  <2>1. PICK B : B = blocks'
    OBVIOUS
  <2>2. IsCut(B, low, brk) /\ Pieces(B) /\ \A q \in DOMAIN B : B[q].hi <= low \/ brk <= q
    BY <1>1, <2>1, CutIs, CutPieces
  <2> QED BY <2>1, <2>2
<1>3. ASSUME NEW q \in DOMAIN blocks' PROVE blocks'[q].hi <= low
  <2>1. PICK p \in DOMAIN blocks : PieceOf(blocks', q, p)
    BY <1>2 DEF Pieces
  <2>2. q \in Nat /\ blocks'[q].hi \in Nat /\ q < blocks'[q].hi /\ blocks'[q].hi <= blocks[p].hi
    BY <1>2, <2>1 DEF PieceOf, Pieces, Blocks
  <2> QED BY <1>1, <1>2, <2>2, BlockInside
<1>4. BlocksInv' /\ brk' \in SbrkBase..MemSize
  BY <1>1, <1>2, <1>3, PiecesOK, Numbers DEF Lowered
<1> QED BY <1>2, <1>3, <1>4

\* Of the block at p, nothing but its part changes.
LEMMA Spoilt ==
  ASSUME TypeInv, NEW p, blocks' = Spoil(p)
  PROVE  /\ Pieces(blocks') /\ DOMAIN blocks' = DOMAIN blocks
         /\ \A q \in DOMAIN blocks : /\ q # p => blocks'[q] = blocks[q]
                                     /\ blocks'[q].hi = blocks[q].hi /\ blocks'[q].req = blocks[q].req
                                     /\ blocks'[q].kind = blocks[q].kind /\ blocks'[q].owner = blocks[q].owner
         /\ p \in DOMAIN blocks => blocks'[p].part = "rest"
<1> DEFINE Val(q) == IF q = p THEN Piece(blocks[q], blocks[q].hi, blocks[q].req, "rest") ELSE blocks[q]
<1>1. DOMAIN blocks' = DOMAIN blocks /\ \A q \in DOMAIN blocks : blocks'[q] = Val(q)
  <2>1. blocks' = [q \in DOMAIN blocks |-> Val(q)]
    BY Zenon DEF Spoil
  <2> HIDE DEF Val
  <2> QED BY <2>1
<1>2. ASSUME NEW q \in DOMAIN blocks
      PROVE  /\ q # p => blocks'[q] = blocks[q]
             /\ q = p => blocks'[q].part = "rest"
             /\ blocks'[q] \in Blocks /\ blocks'[q].hi = blocks[q].hi /\ blocks'[q].req = blocks[q].req
             /\ blocks'[q].kind = blocks[q].kind /\ blocks'[q].owner = blocks[q].owner
  <2>0. blocks[q] \in Blocks /\ blocks[q].hi \in Nat /\ blocks[q].req \in Nat
    BY BlockInside
  <2>1. CASE q # p
    BY <1>1, <2>0, <2>1
  <2>2. CASE q = p
    <3>1. PICK b \in Blocks, hi \in Nat, req \in Nat : b = blocks[q] /\ hi = b.hi /\ req = b.req
      BY <2>0
    <3>2. blocks'[q] = Piece(b, hi, req, "rest")
      BY <1>1, <2>2, <3>1, Zenon
    <3>3. PICK d : d = Piece(b, hi, req, "rest")
      OBVIOUS
    <3>4. d \in Blocks /\ d.hi = hi /\ d.req = req /\ d.part = "rest" /\ d.kind = b.kind /\ d.owner = b.owner
      BY <3>1, <3>3 DEF Piece, Blocks, Parts
    <3> QED BY <2>2, <3>1, <3>2, <3>3, <3>4
  <2> QED BY <2>1, <2>2
<1> HIDE DEF Val
<1>3. \A q \in DOMAIN blocks' : q \in Nat /\ PieceOf(blocks', q, q)
  BY <1>1, <1>2, BlockInside DEF PieceOf
<1>4. \A q, r \in DOMAIN blocks' : q # r => blocks'[q].hi <= r \/ blocks'[r].hi <= q
  BY <1>1, <1>2 DEF TypeInv, BlocksInv, Disjoint
<1>5. Pieces(blocks')
  BY <1>1, <1>3, <1>4 DEF Pieces
<1> QED BY <1>1, <1>2, <1>5

LEMMA Gone ==
  ASSUME TypeInv, NEW p, blocks' = Without(blocks, p)
  PROVE  /\ Pieces(blocks') /\ DOMAIN blocks' = DOMAIN blocks \ {p}
         /\ \A q \in DOMAIN blocks' : blocks'[q] = blocks[q]
<1>1. DOMAIN blocks' = DOMAIN blocks \ {p} /\ \A q \in DOMAIN blocks \ {p} : blocks'[q] = blocks[q]
  BY DEF Without
<1>2. \A q \in DOMAIN blocks' : q \in Nat /\ PieceOf(blocks', q, q)
  BY <1>1, BlockInside DEF PieceOf
<1>4. \A q, r \in DOMAIN blocks' : q # r => blocks'[q].hi <= r \/ blocks'[r].hi <= q
  BY <1>1 DEF TypeInv, BlocksInv, Disjoint
<1> QED BY <1>1, <1>2, <1>4 DEF Pieces

LEMMA MoreLost == ASSUME NEW lo \in Nat, NEW hi, NEW told PROVE Untold(lo, hi, told) \subseteq Addr
BY BoundsAssumption DEF Untold, Addr

LEMMA TypeStep == TypeInv /\ [Next]_vars => TypeInv'
<1> SUFFICES ASSUME TypeInv, [Next]_vars PROVE TypeInv'
  OBVIOUS
<1>a. /\ features \in FeatureSets /\ calls \in Programs /\ brk \in SbrkBase..MemSize /\ lost \subseteq Addr
      /\ TableTyped /\ ShadowTyped(shadow) /\ CallsTyped /\ BlocksInv
  BY DEF TypeInv
<1>b. UNCHANGED table => TableTyped'
  BY <1>a DEF TableTyped
<1>c. UNCHANGED <<blocks, brk>> => BlocksInv'
  BY <1>a DEF BlocksInv, BlocksTyped, BlockOK, Disjoint
<1>d. UNCHANGED brk => brk' \in SbrkBase..MemSize
  BY <1>a
<1>e. ASSUME UNCHANGED brk, Pieces(blocks') PROVE BlocksInv'
  <2>1. ASSUME NEW q \in DOMAIN blocks' PROVE blocks'[q].hi <= brk'
    <3>1. PICK p \in DOMAIN blocks : PieceOf(blocks', q, p)
      BY <1>e DEF Pieces
    <3>2. blocks'[q].hi \in Nat /\ blocks'[q].hi <= blocks[p].hi
      BY <3>1 DEF PieceOf, Blocks
    <3> QED BY <1>e, <3>2, BlockInside, Numbers
  <2> QED BY <1>e, <2>1, PiecesOK
<1>1. ASSUME NEW t \in Threads, Malloc(t) \/ Sbrk(t) PROVE TypeInv'
  <2>1. PICK p, req, hi \in Nat, kind \in Kinds : Added(t, p, kind, req, hi)
    BY <1>1, Additions
  <2>2. CallsTyped' /\ UNCHANGED <<features, calls, table, shadow, lost>>
    BY <2>1 DEF Added
  <2>3. brk \in Nat /\ SbrkBase \in Nat /\ MemSize \in Nat /\ brk <= MemSize /\ SbrkBase <= brk
    BY Numbers
  <2>4. brk' \in SbrkBase..MemSize /\ brk <= brk'
    BY <2>1, <2>3 DEF Added
  <2>5. /\ DOMAIN blocks' = DOMAIN blocks \cup {p} /\ \A q \in DOMAIN blocks : blocks'[q] = blocks[q]
        /\ blocks'[p] \in Blocks /\ blocks'[p].hi = hi /\ blocks'[p].req = req /\ blocks'[p].kind = kind
        /\ p < hi /\ p + req <= hi /\ \A q \in DOMAIN blocks : hi <= q \/ blocks[q].hi <= p
    BY <2>1 DEF Added
  <2>6. ASSUME NEW q \in DOMAIN blocks' PROVE q \in Nat /\ blocks'[q] \in Blocks /\ BlockOK(q)'
    <3>1. CASE q = p
      <4>1. /\ kind = "sbrk" => SbrkBase <= p /\ hi <= brk' /\ p + req = hi
            /\ kind # "sbrk" => hi <= SbrkBase
        BY <2>1, <2>3, <2>4 DEF Added
      <4> QED BY <2>5, <3>1, <4>1 DEF BlockOK
    <3>2. CASE q # p
      BY <2>3, <2>4, <2>5, <3>2, BlockInside DEF BlockOK
    <3> QED BY <3>1, <3>2
  <2>7. Disjoint'
    BY <1>a, <2>5 DEF BlocksInv, Disjoint
  <2> QED BY <1>a, <1>b, <2>2, <2>4, <2>6, <2>7 DEF TypeInv, BlocksInv, BlocksTyped
<1>2. ASSUME NEW t \in Threads, Insert(t) PROVE TypeInv'
  BY <1>a, <1>c, <1>d, <1>2, Inserted DEF TypeInv
<1>3. ASSUME NEW t \in Threads, Track(t) PROVE TypeInv'
  BY <1>a, <1>b, <1>c, <1>d, <1>3, Tracked DEF TypeInv
<1>4. ASSUME NEW t \in Threads, Release(t) PROVE TypeInv'
  BY <1>a, <1>b, <1>c, <1>d, <1>4, Released DEF TypeInv, Begins
<1>5. ASSUME NEW t \in Threads, Munmap(t) PROVE TypeInv'
  BY <1>a, <1>b, <1>c, <1>d, <1>5, Unmapped DEF TypeInv, Begins
<1>6. ASSUME NEW t \in Threads, Autofree(t) PROVE TypeInv'
  BY <1>a, <1>b, <1>c, <1>d, <1>6, Autofreed DEF TypeInv, Begins
<1>7. ASSUME NEW t \in Threads, Shrink(t) PROVE TypeInv'
  <2>1. PICK low \in Nat : Lowered(low) /\ lost' = lost \cup Untold(low, brk, Told(low))
    BY <1>7, Shrunk
  <2>2. CallsTyped' /\ UNCHANGED <<features, calls, table, shadow>>
    BY <1>7, Shrunk
  <2>3. lost' \subseteq Addr
    BY <1>a, <2>1, MoreLost
  <2> QED BY <1>a, <1>b, <2>1, <2>2, <2>3, LoweredPieces DEF TypeInv
<1>8. ASSUME NEW t \in Threads, Brk(t) PROVE TypeInv'
  <2>1. UNCHANGED <<features, calls, table, shadow, th>>
    BY <1>8, BrkMoved
  <2>2. CallsTyped'
    BY <1>a, <2>1 DEF CallsTyped, CallFits, On
  <2>3. CASE brk' \in Nat /\ brk <= brk' /\ brk' <= MemSize /\ UNCHANGED <<blocks, lost>>
    <3>1. brk' \in SbrkBase..MemSize
      BY <2>3, Numbers
    <3>2. BlocksInv'
      <4>1. \A p \in DOMAIN blocks : BlockOK(p)'
        BY <2>3, BlockInside, Numbers DEF BlockOK
      <4> QED BY <1>a, <2>3, <4>1 DEF BlocksInv, BlocksTyped, Disjoint
    <3> QED BY <1>a, <1>b, <2>1, <2>2, <2>3, <3>1, <3>2 DEF TypeInv
  <2>4. ASSUME NEW low \in Nat, Lowered(low), lost' = lost \cup Untold(low, brk, {}) PROVE TypeInv'
    <3>1. lost' \subseteq Addr
      BY <1>a, <2>4, MoreLost
    <3> QED BY <1>a, <1>b, <2>1, <2>2, <2>4, <3>1, LoweredPieces DEF TypeInv
  <2> QED BY <1>8, <2>3, <2>4, BrkMoved
<1>9. ASSUME NEW t \in Threads, Remove(t) PROVE TypeInv'
  BY <1>a, <1>c, <1>d, <1>9, Removed DEF TypeInv
<1>10. ASSUME NEW t \in Threads, Autoremove(t) PROVE TypeInv'
  BY <1>a, <1>c, <1>d, <1>10, Autoremoved DEF TypeInv
<1>11. ASSUME NEW t \in Threads, AutofreeTop(t) PROVE TypeInv'
  <2>1. UNCHANGED blocks \/ Pieces(blocks')
    BY <1>11, TopAsked, Spoilt
  <2> QED BY <1>a, <1>b, <1>c, <1>d, <1>e, <1>11, <2>1, TopAsked DEF TypeInv
<1>12. ASSUME NEW t \in Threads, AutofreeGive(t) PROVE TypeInv'
  <2>1. CallsTyped' /\ UNCHANGED <<features, calls, table, shadow>>
    BY <1>12, Given
  <2>2. ASSUME NEW low \in Nat, Lowered(low), lost' = lost \cup Untold(low, brk, Told(th[t].p)) PROVE TypeInv'
    <3>1. lost' \subseteq Addr
      BY <1>a, <2>2, MoreLost
    <3> QED BY <1>a, <1>b, <2>1, <2>2, <3>1, LoweredPieces DEF TypeInv
  <2>3. CASE UNCHANGED <<brk, blocks, lost>>
    BY <1>a, <1>b, <1>c, <1>d, <2>1, <2>3 DEF TypeInv
  <2> QED BY <1>12, <2>2, <2>3, Given
<1>13. ASSUME NEW t \in Threads, Poison(t) PROVE TypeInv'
  BY <1>a, <1>b, <1>c, <1>d, <1>13, PoisonedIs DEF TypeInv
<1>14. ASSUME NEW t \in Threads, SystemRelease(t) PROVE TypeInv'
  <2>1. CallsTyped' /\ UNCHANGED <<features, calls, table, shadow, brk>>
    BY <1>14, Ended
  <2>2. ASSUME NEW hi \in Nat, hi = th[t].p + th[t].len, blocks' = Cut(th[t].p, hi),
               lost' = lost \cup Untold(th[t].p, hi, Told(th[t].p))
        PROVE  Pieces(blocks') /\ lost' \subseteq Addr
    <3>1. PICK lo \in Nat : lo = th[t].p /\ lo <= hi
      BY <2>2, CallOf
    <3>2. PICK B : B = blocks'
      OBVIOUS
    <3>3. Pieces(B)
      BY <2>2, <3>1, <3>2, CutPieces
    <3> QED BY <1>a, <2>2, <3>1, <3>2, <3>3, MoreLost
  <2>3. lost' \subseteq Addr /\ (UNCHANGED blocks \/ Pieces(blocks'))
    BY <1>a, <1>14, <2>2, Ended, Spoilt, Gone
  <2> QED BY <1>a, <1>b, <1>c, <1>d, <1>e, <2>1, <2>3 DEF TypeInv
<1>15. ASSUME NEW t \in Threads, Access(t) PROVE TypeInv'
  BY <1>a, <1>b, <1>c, <1>d, <1>15, Accessed DEF TypeInv
<1>16. ASSUME NEW t \in Threads, CheckShadow(t) PROVE TypeInv'
  BY <1>a, <1>b, <1>c, <1>d, <1>16, Checked DEF TypeInv
<1>17. ASSUME NEW t \in Threads, EndAccess(t) PROVE TypeInv'
  BY <1>a, <1>b, <1>c, <1>d, <1>17, AccessEnded DEF TypeInv
<1>18. CASE UNCHANGED vars
  BY <1>a, <1>b, <1>c, <1>18 DEF vars, TypeInv, CallsTyped, CallFits, On
<1> QED
  BY <1>1, <1>2, <1>3, <1>4, <1>5, <1>6, <1>7, <1>8, <1>9, <1>10, <1>11, <1>12, <1>13, <1>14, <1>15, <1>16,
     <1>17, <1>18 DEF Next

LEMMA InitTyped == Init => TypeInv
<1> SUFFICES ASSUME Init PROVE TypeInv
  OBVIOUS
<1>1. /\ features \in FeatureSets /\ calls \in Programs /\ table = << >> /\ blocks = << >>
      /\ shadow = EmptyShadow /\ brk = SbrkBase /\ th = [t \in Threads |-> Idle] /\ lost = {}
  BY DEF Init
<1>2. ShadowTyped(shadow)
  <2>1. DOMAIN shadow = {} /\ PagesOf({}) = {} /\ IndexesOf({}) = {}
    BY <1>1 DEF EmptyShadow, PagesOf, IndexesOf
  <2> QED BY <2>1, FS_EmptySet, PageAssumption DEF ShadowTyped
<1>3. CallsTyped
  BY <1>1, IdleCall DEF CallsTyped
<1>4. DOMAIN << >> = {}
  OBVIOUS
<1>5. BlocksInv /\ TableTyped
  BY <1>1, <1>4 DEF BlocksInv, BlocksTyped, Disjoint, TableTyped
<1> QED BY <1>1, <1>2, <1>3, <1>5, BoundsAssumption DEF TypeInv

LEMMA TypeOKHolds == TypeInv => TypeOK
<1> SUFFICES ASSUME TypeInv PROVE TypeOK
  OBVIOUS
<1>1. \A p \in DOMAIN blocks : blocks[p].owner \in Threads /\ p < blocks[p].hi /\ blocks[p].hi <= brk
  BY BlockInside
<1> QED BY <1>1 DEF TypeInv, TypeOK, BlocksInv, Disjoint, TableTyped, ShadowTyped

\* TypeOK of every run, whether or not threads keep their uses of the break apart: blocks
\* do not overlap, those of sbrk lie below the break, and no more pages of the shadow are
\* written than there is room for.
THEOREM TypeCorrect == Spec => []TypeOK
<1>1. Spec => []TypeInv
  BY InitTyped, TypeStep, PTL DEF Spec
<1> QED BY <1>1, TypeOKHolds, PTL

(***************************************************************************)
(* What calls know of blocks, and what records say of them                 *)
(***************************************************************************)

\* What the record of the block at p says of its size.
SizeOf(p) == IF blocks[p].kind = "malloc" THEN blocks[p].hi - p ELSE blocks[p].req
\* The call of t is about a block of t.
Mine(t) ==
  th[t].p \in DOMAIN blocks /\ blocks[th[t].p].owner = t /\ blocks[th[t].p].kind = th[t].kind
\* Every byte that a call of munmap takes is in a mapping of its thread.
InMappings(t) ==
  /\ th[t].len > 0
  /\ \A a \in th[t].p..th[t].p + th[t].len - 1 :
       \E q \in DOMAIN blocks : /\ blocks[q].owner = t /\ blocks[q].kind = "mmap"
                                /\ q <= a /\ a < blocks[q].hi
Leaves(t) == th[t].pc \in {"remove", "poison", "release"}
\* What a call relies on, from its first step to its last: others do not touch what
\* it is about, but for the break when threads do not keep their uses apart.
CallOK(t) ==
  /\ th[t].pc \in {"insert", "track"} =>
       /\ Mine(t) /\ blocks[th[t].p].part = "whole"
       /\ th[t].len = blocks[th[t].p].req /\ th[t].size = SizeOf(th[t].p)
  /\ th[t].pc \in {"autoremove", "top", "give"} =>
       /\ Mine(t) /\ blocks[th[t].p].part # "rest"
       /\ th[t].kind = "mmap" => blocks[th[t].p].part = "whole"
  /\ At(t, "give") => th[t].p + th[t].size = brk
  /\ Leaves(t) /\ th[t].kind = "malloc" => Mine(t)
  /\ Leaves(t) /\ th[t].kind = "mmap" => InMappings(t)
  /\ Leaves(t) /\ th[t].kind = "sbrk" => th[t].p = brk
\* Only mappings and memory of the break come in parts, and a whole mapping ends with
\* its granule.
KindOK(p) ==
  /\ blocks[p].kind = "malloc" => blocks[p].part = "whole"
  /\ blocks[p].kind # "malloc" => blocks[p].req > 0
  /\ blocks[p].kind = "mmap" /\ blocks[p].part = "whole" => blocks[p].hi = p + RoundUp(blocks[p].req)
Exclusive == \A t, u \in Threads : t # u => ~ (UsesBreak(t) /\ UsesBreak(u))
CallsInv == (\A t \in Threads : CallOK(t)) /\ (\A p \in DOMAIN blocks : KindOK(p)) /\ Exclusive

\* The block at p has no record in use: it has none yet, or is being released.
Taken(p) ==
  LET o == blocks[p].owner
  IN th[o].p = p /\ th[o].pc \in {"insert", "top", "give", "poison", "release"}
\* The record of a block that is whole has its size; of what is left of one that was
\* given back in part, it has no less.
RecordOf(p) ==
  IF blocks[p].kind = "malloc" THEN table[p].size = blocks[p].hi - p /\ table[p].req = blocks[p].req
  ELSE /\ table[p].req = table[p].size /\ blocks[p].req <= table[p].size
       /\ blocks[p].part = "whole" => table[p].size = blocks[p].req
\* Every block but the rest of one is known to the table, between the end of its
\* allocation and the start of its release.
Known == \A p \in DOMAIN blocks : blocks[p].part # "rest" /\ ~ Taken(p) => Recorded(p) /\ RecordOf(p)

\* What a record in use covers exists, or was lost.
In(q, a) ==
  \/ a \in lost
  \/ q \in DOMAIN blocks /\ (a \in Requested(q) \/ (blocks[q].kind = "malloc" /\ q <= a /\ a < blocks[q].hi))
\* So are all bytes that poisoning or the check of bounds may take from the record.
Reach(q, n) == \A a \in q..q + n - 1 : In(q, a)
Bound(q) == IF table[q].req # 0 THEN table[q].req ELSE table[q].size
AskedIn(q, a) ==
  \/ a \in lost
  \/ q \in DOMAIN blocks /\ (a \in Requested(q) \/ (blocks[q].req = 0 /\ q <= a /\ a < blocks[q].hi))
Asked(q) == \A a \in q..q + Bound(q) - 1 : AskedIn(q, a)
\* Or the break has just left it, and the call that moved it is about to say so.
LeavingAt(q) == \E u \in Threads : At(u, "remove") /\ th[u].kind = "sbrk" /\ th[u].p = q
Explained == \A q \in DOMAIN table : Recorded(q) => (Reach(q, table[q].size) /\ Asked(q)) \/ LeavingAt(q)

\* What a release has read from the record.
RecordOK(t) ==
  /\ th[t].pc \in {"top", "give", "poison", "release"} => ~ Recorded(th[t].p)
  /\ th[t].pc \in {"top", "give", "poison"} /\ th[t].p \in DOMAIN blocks /\ blocks[th[t].p].part # "rest" =>
       th[t].size >= SizeOf(th[t].p)
  /\ At(t, "poison") /\ th[t].kind # "sbrk" => Reach(th[t].p, th[t].size)
RecordsInv ==
  /\ \A q \in DOMAIN table : table[q].req <= table[q].size
  /\ Known /\ Explained /\ \A t \in Threads : RecordOK(t)

\* The invariant of calls and records: an inductive one when threads keep their uses of
\* the break apart, whatever munmap, sbrk and brk give back.
Inv == TypeInv /\ CallsInv /\ RecordsInv

\* A step of t.
Does(t) ==
  \/ Malloc(t) \/ Sbrk(t) \/ Brk(t) \/ Insert(t) \/ Track(t)
  \/ Release(t) \/ Munmap(t) \/ Autofree(t) \/ Shrink(t) \/ Remove(t) \/ Autoremove(t)
  \/ AutofreeTop(t) \/ AutofreeGive(t) \/ Poison(t) \/ SystemRelease(t)
  \/ Access(t) \/ CheckShadow(t) \/ EndAccess(t)
\* These change neither blocks nor the break.
Quietly(t) ==
  \/ Insert(t) \/ Track(t) \/ Release(t) \/ Munmap(t) \/ Autofree(t) \/ Remove(t) \/ Autoremove(t)
  \/ Poison(t) \/ Access(t) \/ CheckShadow(t) \/ EndAccess(t)

LEMMA QuietKeeps == ASSUME NEW t, Quietly(t) PROVE UNCHANGED <<features, calls, blocks, brk, lost>>
BY DEF Quietly, Insert, Track, Release, Munmap, Autofree, Remove, Autoremove, Poison, Access, CheckShadow, EndAccess

LEMMA OthersKept ==
  ASSUME TypeInv, NEW t \in Threads, Does(t)
  PROVE  Others(t)
<1>1. CASE Malloc(t) \/ Sbrk(t)
  <2>1. PICK p, req, hi \in Nat, kind \in Kinds : Added(t, p, kind, req, hi)
    BY <1>1, Additions
  <2> QED BY <2>1 DEF Added
<1>2. CASE Brk(t)
  BY <1>2, BrkMoved DEF Others
<1>3. CASE Release(t) \/ Munmap(t) \/ Autofree(t)
  BY <1>3, Released, Unmapped, Autofreed DEF Begins
<1> QED BY <1>1, <1>2, <1>3, Inserted, Tracked, Shrunk, Removed, Autoremoved, TopAsked, Given, PoisonedIs,
           Ended, Accessed, Checked, AccessEnded DEF Does

\* What a call of munmap takes belongs to its thread.
LEMMA Taking ==
  ASSUME TypeInv, NEW t \in Threads, InMappings(t), NEW hi, hi = th[t].p + th[t].len,
         NEW r \in DOMAIN blocks, r < hi, th[t].p < blocks[r].hi
  PROVE  blocks[r].owner = t /\ blocks[r].kind = "mmap"
<1>1. th[t].p \in Nat /\ th[t].len \in Nat /\ th[t].len > 0
  BY CallOf DEF InMappings
<1>2. r \in Nat /\ blocks[r].hi \in Nat /\ r < blocks[r].hi
  BY BlockInside
<1>3. PICK a \in Nat : a = (IF r < th[t].p THEN th[t].p ELSE r) /\ a \in th[t].p..th[t].p + th[t].len - 1
  BY <1>1, <1>2
<1>4. PICK q \in DOMAIN blocks : blocks[q].owner = t /\ blocks[q].kind = "mmap" /\ q <= a /\ a < blocks[q].hi
  BY <1>3 DEF InMappings
<1>5. r <= a /\ a < blocks[r].hi
  BY <1>1, <1>2, <1>3
<1> QED BY <1>4, <1>5, Apart

\* At the first address of what a call of munmap takes, too.
LEMMA TakingFirst ==
  ASSUME TypeInv, NEW t \in Threads, InMappings(t), th[t].p \in DOMAIN blocks
  PROVE  blocks[th[t].p].owner = t /\ blocks[th[t].p].kind = "mmap"
<1>1. th[t].p \in Nat /\ th[t].len \in Nat /\ th[t].len > 0
  BY CallOf DEF InMappings
<1>2. PICK hi \in Nat : hi = th[t].p + th[t].len
  BY <1>1
<1>3. th[t].p < hi /\ th[t].p < blocks[th[t].p].hi
  BY <1>1, <1>2, BlockInside
<1> QED BY <1>2, <1>3, Taking

\* [lo, hi) is given back.
Cutting(t, lo, hi, told) ==
  /\ lo \in Nat /\ hi \in Nat /\ lo <= hi /\ hi <= MemSize /\ blocks' = Cut(lo, hi) /\ IsCut(blocks', lo, hi)
  /\ Pieces(blocks') /\ lost' = lost \cup Untold(lo, hi, told)
  /\ \A r \in DOMAIN blocks : r < hi /\ lo < blocks[r].hi =>
        blocks[r].kind = "sbrk" \/ (blocks[r].owner = t /\ blocks[r].kind = "mmap")

\* No other thread is in a use of the break.
BreakOnly(t) == \A u \in Threads : u # t => ~ UsesBreak(u)
\* The ways in which the blocks, the break and what was lost may change.
Changes(t) ==
  \/ UNCHANGED <<blocks, lost>> /\ (UNCHANGED brk \/ BreakOnly(t))
  \/ \E p, req, hi \in Nat, kind \in Kinds : Added(t, p, kind, req, hi)
  \/ \E lo, hi \in Nat : \E told :
       /\ Cutting(t, lo, hi, told)
       /\ \/ BreakOnly(t) /\ hi = brk /\ SbrkBase <= lo /\ brk' = lo
          \/ hi <= SbrkBase /\ UNCHANGED brk
  \/ \E p : /\ blocks' = Spoil(p) /\ UNCHANGED <<brk, lost>>
            /\ p \in DOMAIN blocks => blocks[p].owner = t /\ blocks[p].kind # "malloc"
  \/ \E p \in DOMAIN blocks : /\ blocks' = Without(blocks, p) /\ UNCHANGED <<brk, lost>>
                              /\ blocks[p].owner = t /\ blocks[p].kind = "malloc"

LEMMA LoweredCuts ==
  ASSUME TypeInv, NEW t, NEW low \in Nat, NEW told, Lowered(low), lost' = lost \cup Untold(low, brk, told)
  PROVE  Cutting(t, low, brk, told) /\ SbrkBase <= low /\ brk' = low /\ brk \in Nat
<1>1. SbrkBase <= low /\ low <= brk /\ brk' = low /\ blocks' = Cut(low, brk)
  BY DEF Lowered
<1>2. IsCut(blocks', low, brk) /\ Pieces(blocks')
  BY LoweredPieces
<1>3. \A r \in DOMAIN blocks : low < blocks[r].hi => blocks[r].kind = "sbrk"
  <2>1. ASSUME NEW r \in DOMAIN blocks, low < blocks[r].hi, blocks[r].kind # "sbrk" PROVE FALSE
    BY <1>1, <2>1, BlockInside, Numbers
  <2> QED BY <2>1
<1> QED BY <1>1, <1>2, <1>3, Numbers DEF Cutting

LEMMA CutsMappings ==
  ASSUME TypeInv, NEW t \in Threads, CallOK(t), th[t].pc = "release", th[t].kind = "mmap",
         NEW hi \in Nat, hi = th[t].p + th[t].len, blocks' = Cut(th[t].p, hi),
         lost' = lost \cup Untold(th[t].p, hi, Told(th[t].p))
  PROVE  Cutting(t, th[t].p, hi, Told(th[t].p)) /\ hi <= SbrkBase
<1>1. InMappings(t)
  BY DEF CallOK, Leaves
<1>2. PICK lo \in Nat : lo = th[t].p /\ lo < hi
  BY <1>1, CallOf DEF InMappings
<1>3. \A r \in DOMAIN blocks : r < hi /\ lo < blocks[r].hi => blocks[r].owner = t /\ blocks[r].kind = "mmap"
  BY <1>1, <1>2, Taking
<1>4. hi <= SbrkBase /\ hi <= MemSize
  <2>1. PICK a \in Nat : a + 1 = hi /\ a \in th[t].p..th[t].p + th[t].len - 1
    <3>1. hi - 1 \in Nat /\ (hi - 1) + 1 = hi /\ hi - 1 \in th[t].p..th[t].p + th[t].len - 1
      BY <1>2, CallOf
    <3> QED BY <3>1
  <2>2. PICK q \in DOMAIN blocks : blocks[q].kind = "mmap" /\ a < blocks[q].hi
    BY <1>1, <2>1 DEF InMappings
  <2> QED BY <2>1, <2>2, BlockInside, Numbers, BoundsAssumption
<1>5. IsCut(blocks', lo, hi) /\ Pieces(blocks')
  <2>1. PICK B : B = blocks'
    OBVIOUS
  <2>2. IsCut(B, lo, hi) /\ Pieces(B)
    BY <1>2, <2>1, CutIs, CutPieces
  <2> QED BY <2>1, <2>2
<1> QED BY <1>2, <1>3, <1>4, <1>5 DEF Cutting

LEMMA Changing ==
  ASSUME TypeInv, CallsInv, BreakApart, NEW t \in Threads, Does(t)
  PROVE  Changes(t)
<1>0. MayUseBreak(t) => BreakOnly(t)
  BY DEF MayUseBreak, BreakOnly
<1>a. CallOK(t)
  BY DEF CallsInv
<1>1. CASE Quietly(t)
  BY <1>1, QuietKeeps DEF Changes
<1>2. CASE Malloc(t) \/ Sbrk(t)
  BY <1>2, Additions DEF Changes
<1>3. CASE Brk(t)
  <2>1. BreakOnly(t)
    BY <1>0, <1>3, BrkMoved
  <2>2. ASSUME NEW low \in Nat, Lowered(low), lost' = lost \cup Untold(low, brk, {}) PROVE Changes(t)
    BY <2>1, <2>2, LoweredCuts DEF Changes
  <2> QED BY <1>3, <2>1, <2>2, BrkMoved DEF Changes
<1>4. CASE Shrink(t)
  <2>1. BreakOnly(t)
    BY <1>0, <1>4, Shrunk
  <2>2. PICK low \in Nat : Lowered(low) /\ lost' = lost \cup Untold(low, brk, Told(low))
    BY <1>4, Shrunk
  <2> QED BY <2>1, <2>2, LoweredCuts DEF Changes
<1>5. CASE AutofreeTop(t)
  <2>1. \/ UNCHANGED <<blocks, lost, brk>>
        \/ blocks' = Spoil(th[t].p) /\ UNCHANGED <<lost, brk>>
    BY <1>5, TopAsked
  <2>2. Mine(t) /\ th[t].kind = "sbrk"
    BY <1>a, <1>5, TopAsked DEF CallOK, At
  <2> QED BY <2>1, <2>2 DEF Changes, Mine
<1>6. CASE AutofreeGive(t)
  <2>1. BreakOnly(t)
    <3>1. UsesBreak(t)
      BY <1>6, Given DEF UsesBreak, At
    <3> QED BY <3>1 DEF BreakOnly, CallsInv, Exclusive
  <2>2. ASSUME NEW low \in Nat, Lowered(low), lost' = lost \cup Untold(low, brk, Told(th[t].p)) PROVE Changes(t)
    BY <2>1, <2>2, LoweredCuts DEF Changes
  <2> QED BY <1>6, <2>2, Given DEF Changes
<1>7. CASE SystemRelease(t)
  <2>0. At(t, "release") /\ Leaves(t) /\ UNCHANGED brk
    BY <1>7, Ended DEF Leaves, At
  <2>1. CASE UNCHANGED <<blocks, lost>>
    BY <2>0, <2>1 DEF Changes
  <2>2. CASE th[t].kind = "malloc" /\ blocks' = Without(blocks, th[t].p) /\ UNCHANGED lost
    <3>1. Mine(t)
      BY <1>a, <2>0, <2>2 DEF CallOK
    <3> QED BY <2>0, <2>2, <3>1 DEF Mine, Changes
  <2>3. ASSUME NEW hi \in Nat, th[t].kind = "mmap", hi = th[t].p + th[t].len, blocks' = Cut(th[t].p, hi),
               lost' = lost \cup Untold(th[t].p, hi, Told(th[t].p))
        PROVE  Changes(t)
    <3>1. Cutting(t, th[t].p, hi, Told(th[t].p)) /\ hi <= SbrkBase /\ th[t].p \in Nat
      BY <1>a, <2>0, <2>3, CutsMappings, CallOf DEF At
    <3> QED BY <2>0, <3>1 DEF Changes
  <2>4. CASE th[t].kind = "mmap" /\ blocks' = Spoil(th[t].p) /\ UNCHANGED lost
    <3>1. InMappings(t)
      BY <1>a, <2>0, <2>4 DEF CallOK
    <3>2. th[t].p \in DOMAIN blocks => blocks[th[t].p].owner = t /\ blocks[th[t].p].kind = "mmap"
      BY <3>1, TakingFirst
    <3> QED BY <2>0, <2>4, <3>2 DEF Changes
  <2> QED BY <1>7, <2>1, <2>2, <2>3, <2>4, Ended
<1> QED BY <1>1, <1>2, <1>3, <1>4, <1>5, <1>6, <1>7 DEF Does, Quietly

(***************************************************************************)
(* Calls                                                                   *)
(***************************************************************************)

\* Other threads leave alone what the call of a thread is about.
Undisturbed(u) ==
  /\ \A p \in DOMAIN blocks : blocks[p].owner = u /\ (blocks[p].kind = "sbrk" => UsesBreak(u)) =>
       p \in DOMAIN blocks' /\ blocks'[p] = blocks[p]
  /\ UsesBreak(u) => UNCHANGED brk

LEMMA CutKeeps ==
  ASSUME TypeInv, NEW t, NEW lo, NEW hi, NEW told, Cutting(t, lo, hi, told), NEW p \in DOMAIN blocks,
         blocks[p].kind # "sbrk", blocks[p].owner # t \/ blocks[p].kind # "mmap"
  PROVE  p \in DOMAIN blocks' /\ blocks'[p] = blocks[p]
<1>1. ~ (p < hi /\ lo < blocks[p].hi)
  BY DEF Cutting
<1>2. Stays(p, lo, hi)
  BY <1>1, BlockInside DEF Cutting, Stays
<1> QED BY <1>2 DEF Cutting, IsCut

LEMMA SbrkAbove ==
  ASSUME TypeInv, NEW t, NEW lo, NEW hi, NEW told, Cutting(t, lo, hi, told), NEW p \in DOMAIN blocks,
         blocks[p].kind = "sbrk", hi <= SbrkBase
  PROVE  p \in DOMAIN blocks' /\ blocks'[p] = blocks[p]
<1>1. Stays(p, lo, hi)
  BY BlockInside, Numbers DEF Cutting, Stays
<1> QED BY <1>1 DEF Cutting, IsCut

LEMMA UndisturbedKept ==
  ASSUME TypeInv, BreakApart, NEW t \in Threads, Changes(t), NEW u \in Threads, u # t
  PROVE  Undisturbed(u)
<1>1. CASE UNCHANGED <<blocks, lost>> /\ (UNCHANGED brk \/ BreakOnly(t))
  BY <1>1 DEF Undisturbed, BreakOnly
<1>2. ASSUME NEW p \in Nat, NEW req \in Nat, NEW hi \in Nat, NEW kind \in Kinds, Added(t, p, kind, req, hi)
      PROVE  Undisturbed(u)
  <2>1. UNCHANGED brk \/ BreakOnly(t)
    BY <1>2 DEF Added, MayUseBreak, BreakOnly, Kinds
  <2> QED BY <1>2, <2>1 DEF Added, Undisturbed, BreakOnly
<1>3. ASSUME NEW lo \in Nat, NEW hi \in Nat, NEW told, Cutting(t, lo, hi, told),
             BreakOnly(t) \/ (hi <= SbrkBase /\ UNCHANGED brk)
      PROVE  Undisturbed(u)
  BY <1>3, CutKeeps, SbrkAbove DEF Undisturbed, BreakOnly
<1>4. ASSUME NEW p, blocks' = Spoil(p), UNCHANGED brk, p \in DOMAIN blocks => blocks[p].owner = t PROVE Undisturbed(u)
  BY <1>4, Spoilt DEF Undisturbed
<1>5. ASSUME NEW p \in DOMAIN blocks, blocks' = Without(blocks, p), UNCHANGED brk, blocks[p].owner = t PROVE Undisturbed(u)
  BY <1>5, Gone DEF Undisturbed
<1> QED BY <1>1, <1>2, <1>3, <1>4, <1>5 DEF Changes

LEMMA MineKept ==
  ASSUME TypeInv, NEW u \in Threads, Undisturbed(u), Mine(u), ~ At(u, "idle"), NEW p, p = th[u].p
  PROVE  p \in DOMAIN blocks /\ p \in DOMAIN blocks' /\ blocks'[p] = blocks[p] /\ blocks[p].owner = u
         /\ blocks[p].kind = th[u].kind
BY DEF Mine, Undisturbed, UsesBreak

LEMMA MappingsKept ==
  ASSUME TypeInv, NEW u \in Threads, Undisturbed(u), th'[u] = th[u], InMappings(u)
  PROVE  InMappings(u)'
<1>1. PICK p, len : p = th[u].p /\ len = th[u].len
  OBVIOUS
<1>2. len > 0 /\ \A a \in p..p + len - 1 :
         \E q \in DOMAIN blocks : blocks[q].owner = u /\ blocks[q].kind = "mmap" /\ q <= a /\ a < blocks[q].hi
  BY <1>1 DEF InMappings
<1>3. \A q \in DOMAIN blocks : blocks[q].owner = u /\ blocks[q].kind = "mmap" =>
         q \in DOMAIN blocks' /\ blocks'[q] = blocks[q]
  BY DEF Undisturbed
<1>4. \A a \in p..p + len - 1 :
         \E q \in DOMAIN blocks' : blocks'[q].owner = u /\ blocks'[q].kind = "mmap" /\ q <= a /\ a < blocks'[q].hi
  <2>1. ASSUME NEW a \in p..p + len - 1
        PROVE  \E q \in DOMAIN blocks' : blocks'[q].owner = u /\ blocks'[q].kind = "mmap" /\ q <= a /\ a < blocks'[q].hi
    <3>1. PICK q \in DOMAIN blocks : blocks[q].owner = u /\ blocks[q].kind = "mmap" /\ q <= a /\ a < blocks[q].hi
      BY <1>2
    <3> QED BY <1>3, <3>1
  <2> QED BY <2>1
<1>5. th'[u].p = p /\ th'[u].len = len
  BY <1>1
<1> QED BY <1>2, <1>4, <1>5 DEF InMappings

LEMMA CallKept ==
  ASSUME TypeInv, NEW u \in Threads, Undisturbed(u), th'[u] = th[u], CallOK(u)
  PROVE  CallOK(u)'
<1>1. PICK c : c = th[u] /\ c = th'[u]
  OBVIOUS
<1>2. ASSUME Mine(u), c.pc # "idle"
      PROVE  /\ c.p \in DOMAIN blocks /\ c.p \in DOMAIN blocks' /\ blocks'[c.p] = blocks[c.p]
             /\ blocks[c.p].owner = u /\ blocks[c.p].kind = c.kind /\ Mine(u)'
  BY <1>1, <1>2, MineKept DEF Mine, At
<1>3. c.pc # "idle" /\ c.kind = "sbrk" => UNCHANGED brk
  BY <1>1 DEF Undisturbed, UsesBreak, At
<1>4. c.pc \in {"insert", "track"} =>
       /\ Mine(u)' /\ blocks'[c.p].part = "whole"
       /\ c.len = blocks'[c.p].req /\ c.size = SizeOf(c.p)'
  <2>1. HAVE c.pc \in {"insert", "track"}
  <2>2. Mine(u) /\ blocks[c.p].part = "whole" /\ c.len = blocks[c.p].req /\ c.size = SizeOf(c.p)
    BY <1>1, <2>1 DEF CallOK
  <2> QED BY <1>2, <2>1, <2>2 DEF SizeOf
<1>5. c.pc \in {"autoremove", "top", "give"} =>
       /\ Mine(u)' /\ blocks'[c.p].part # "rest"
       /\ c.kind = "mmap" => blocks'[c.p].part = "whole"
  <2>1. HAVE c.pc \in {"autoremove", "top", "give"}
  <2>2. Mine(u) /\ blocks[c.p].part # "rest" /\ (c.kind = "mmap" => blocks[c.p].part = "whole")
    BY <1>1, <2>1 DEF CallOK
  <2> QED BY <1>2, <2>1, <2>2
<1>6. c.pc = "give" => c.p + c.size = brk'
  <2>1. HAVE c.pc = "give"
  <2>2. c.kind = "sbrk" /\ c.p + c.size = brk
    BY <1>1, <2>1, CallOf DEF CallOK, At, CallFits
  <2> QED BY <1>3, <2>1, <2>2
<1>7. ASSUME c.pc \in {"remove", "poison", "release"}
      PROVE  /\ c.kind = "malloc" => Mine(u)'
             /\ c.kind = "mmap" => InMappings(u)'
             /\ c.kind = "sbrk" => c.p = brk'
  <2>1. /\ c.kind = "malloc" => Mine(u)
        /\ c.kind = "mmap" => InMappings(u)
        /\ c.kind = "sbrk" => c.p = brk
    BY <1>1, <1>7 DEF CallOK, Leaves
  <2> QED BY <1>1, <1>2, <1>3, <1>7, <2>1, MappingsKept
<1> QED BY <1>1, <1>4, <1>5, <1>6, <1>7 DEF CallOK, Leaves, At

LEMMA KindsKept ==
  ASSUME TypeInv, NEW t \in Threads, Changes(t), \A p \in DOMAIN blocks : KindOK(p)
  PROVE  (\A p \in DOMAIN blocks : KindOK(p))'
<1> SUFFICES ASSUME NEW q \in DOMAIN blocks' PROVE KindOK(q)'
  OBVIOUS
<1>1. ASSUME q \in DOMAIN blocks, blocks'[q] = blocks[q] PROVE KindOK(q)'
  BY <1>1 DEF KindOK
<1>2. CASE UNCHANGED <<blocks, lost>>
  BY <1>1, <1>2
<1>3. ASSUME NEW p \in Nat, NEW req \in Nat, NEW hi \in Nat, NEW kind \in Kinds, Added(t, p, kind, req, hi)
      PROVE  KindOK(q)'
  <2>1. CASE q # p
    BY <1>1, <1>3, <2>1 DEF Added
  <2>2. CASE q = p
    <3>1. blocks'[p].part = "whole" /\ blocks'[p].hi = hi /\ blocks'[p].req = req /\ blocks'[p].kind = kind
      BY <1>3 DEF Added
    <3>2. kind = "mmap" => req > 0 /\ hi = p + RoundUp(req)
      BY <1>3 DEF Added
    <3>3. kind = "sbrk" => req > 0
      <4>1. kind = "sbrk" => req \in Increments
        BY <1>3 DEF Added
      <4> QED BY <4>1, BoundsAssumption
    <3> QED BY <2>2, <3>1, <3>2, <3>3 DEF KindOK, Kinds
  <2> QED BY <2>1, <2>2
<1>4. ASSUME NEW lo \in Nat, NEW hi \in Nat, NEW told, Cutting(t, lo, hi, told) PROVE KindOK(q)'
  <2>1. CASE q \in DOMAIN blocks /\ Stays(q, lo, hi) /\ blocks'[q] = blocks[q]
    BY <1>1, <2>1
  <2>2. CASE q \in DOMAIN blocks /\ q < lo /\ lo < blocks[q].hi /\ IsFront(blocks'[q], q, lo)
    <3>1. blocks[q].kind # "malloc" /\ blocks[q].req > 0
      <4>1. q < hi
        BY <1>4, <2>2, BlockInside DEF Cutting
      <4>2. blocks[q].kind # "malloc"
        BY <1>4, <2>2, <4>1 DEF Cutting
      <4> QED BY <2>2, <4>2 DEF KindOK
    <3>2. blocks'[q].kind = blocks[q].kind /\ blocks'[q].part \in {"front", "rest"}
      BY <2>2 DEF IsFront
    <3>3. blocks'[q].req > 0
      <4>1. lo - q > 0
        BY <2>2, BlockInside
      <4> QED BY <2>2, <3>1, <4>1 DEF IsFront
    <3> QED BY <3>1, <3>2, <3>3 DEF KindOK
  <2>3. ASSUME q = hi, NEW p \in DOMAIN blocks, p < hi, hi < blocks[p].hi, IsRest(blocks'[q], p, hi) PROVE KindOK(q)'
    <3>1. blocks[p].kind # "malloc"
      <4>1. lo < blocks[p].hi
        BY <1>4, <2>3, BlockInside DEF Cutting
      <4> QED BY <1>4, <2>3, <4>1 DEF Cutting
    <3>2. blocks'[q].kind = blocks[p].kind /\ blocks'[q].part = "rest" /\ blocks'[q].req > 0
      BY <2>3, BlockInside DEF IsRest
    <3> QED BY <3>1, <3>2 DEF KindOK
  <2>4. IsCut(blocks', lo, hi)
    BY <1>4 DEF Cutting
  <2> QED BY <2>1, <2>2, <2>3, <2>4 DEF IsCut
<1>5. ASSUME NEW p, blocks' = Spoil(p), p \in DOMAIN blocks => blocks[p].kind # "malloc" PROVE KindOK(q)'
  <2>1. q \in DOMAIN blocks
    BY <1>5, Spoilt
  <2>2. CASE q # p
    BY <1>1, <1>5, <2>1, <2>2, Spoilt
  <2>3. CASE q = p
    <3>1. blocks'[q].part = "rest" /\ blocks'[q].kind = blocks[q].kind /\ blocks'[q].req = blocks[q].req
      BY <1>5, <2>1, <2>3, Spoilt
    <3> QED BY <1>5, <2>1, <2>3, <3>1 DEF KindOK
  <2> QED BY <2>2, <2>3
<1>6. ASSUME NEW p \in DOMAIN blocks, blocks' = Without(blocks, p) PROVE KindOK(q)'
  BY <1>1, <1>6, Gone
<1> QED BY <1>2, <1>3, <1>4, <1>5, <1>6 DEF Changes

LEMMA ExclusiveKept ==
  ASSUME TypeInv, CallsInv, BreakApart, NEW t \in Threads, Does(t)
  PROVE  Exclusive'
<1>1. Others(t)
  BY OthersKept
<1>2. UsesBreak(t)' => UsesBreak(t) \/ BreakOnly(t)
  <2>0. MayUseBreak(t) => BreakOnly(t)
    BY DEF MayUseBreak, BreakOnly
  <2>1. CASE Malloc(t) \/ Sbrk(t)
    <3>1. PICK p, req, hi \in Nat, kind \in Kinds : Added(t, p, kind, req, hi)
      BY <2>1, Additions
    <3> QED BY <2>0, <3>1 DEF Added, UsesBreak, At
  <2>2. CASE Brk(t) \/ Shrink(t)
    BY <2>0, <2>2, BrkMoved, Shrunk
  <2>3. CASE Release(t) \/ Munmap(t)
    <3>1. th'[t].kind \in {"malloc", "mmap"}
      BY <2>3, Released, Unmapped DEF Begins
    <3> QED BY <3>1 DEF UsesBreak
  <2>4. CASE Autofree(t)
    BY <2>0, <2>4, Autofreed DEF Begins, UsesBreak
  <2>5. CASE Insert(t)
    BY <2>5, Inserted DEF UsesBreak, At, Same
  <2>6. CASE Remove(t)
    BY <2>6, Removed DEF UsesBreak, At
  <2>7. CASE Autoremove(t)
    BY <2>7, Autoremoved DEF UsesBreak, At
  <2>8. CASE AutofreeTop(t)
    BY <2>8, TopAsked DEF UsesBreak, At
  <2>9. CASE AutofreeGive(t)
    BY <2>9, Given DEF UsesBreak, At
  <2>10. CASE Poison(t)
    BY <2>10, PoisonedIs DEF UsesBreak, At, Same
  <2>11. CASE Track(t) \/ SystemRelease(t) \/ Access(t) \/ EndAccess(t)
    BY <2>11, Tracked, Ended, Accessed, AccessEnded DEF UsesBreak
  <2>12. CASE CheckShadow(t)
    BY <2>12, Checked DEF UsesBreak, At, Same
  <2> QED BY <2>1, <2>2, <2>3, <2>4, <2>5, <2>6, <2>7, <2>8, <2>9, <2>10, <2>11, <2>12 DEF Does
<1>3. \A u \in Threads : u # t => (UsesBreak(u)' <=> UsesBreak(u))
  BY <1>1 DEF Others, UsesBreak, At
<1> QED BY <1>2, <1>3 DEF CallsInv, Exclusive, BreakOnly

\* A thread does the next step of its call.
LEMMA CallNext ==
  ASSUME TypeInv, CallsInv, Known, NEW t \in Threads, Does(t)
  PROVE  CallOK(t)'
<1>a. CallOK(t)
  BY DEF CallsInv
<1>0. ASSUME th'[t].pc \in {"idle", "check", "report", "clean"} PROVE CallOK(t)'
  BY <1>0 DEF CallOK, Leaves, At
<1>1. CASE Malloc(t) \/ Sbrk(t)
  <2>1. PICK p, req, hi \in Nat, kind \in Kinds : Added(t, p, kind, req, hi)
    BY <1>1, Additions
  <2>2. PICK c : c = th'[t]
    OBVIOUS
  <2>3. PICK b : b = blocks'[p]
    OBVIOUS
  <2>4. p \in DOMAIN blocks' /\ b.hi = hi /\ b.req = req /\ b.kind = kind /\ b.owner = t /\ b.part = "whole"
    BY <2>1, <2>3 DEF Added
  <2>5. c.pc = "insert" /\ c.p = p /\ c.kind = kind /\ c.len = req
        /\ c.size = (IF kind = "malloc" THEN hi - p ELSE req)
    BY <2>1, <2>2 DEF Added
  <2>6. Mine(t)' /\ blocks'[c.p].part = "whole" /\ c.len = blocks'[c.p].req /\ c.size = SizeOf(c.p)'
    BY <2>2, <2>3, <2>4, <2>5 DEF Mine, SizeOf
  <2> QED BY <2>2, <2>5, <2>6 DEF CallOK, Leaves, At
<1>2. CASE Brk(t)
  <2>1. th'[t].pc = "idle"
    BY <1>2, BrkMoved DEF At
  <2> QED BY <1>0, <2>1
<1>3. CASE Insert(t)
  <2>1. Same(t) /\ th[t].pc = "insert" /\ th'[t].pc = "track" /\ UNCHANGED <<blocks, brk>>
    BY <1>3, Inserted DEF At
  <2> QED BY <1>a, <2>1 DEF Same, CallOK, Leaves, At, Mine, SizeOf
<1>4. CASE Track(t) \/ SystemRelease(t) \/ Access(t) \/ EndAccess(t)
  BY <1>0, <1>4, Tracked, Ended, Accessed, AccessEnded
<1>5. CASE CheckShadow(t)
  <2>1. th'[t].pc \in {"report", "clean"}
    BY <1>5, Checked
  <2> QED BY <1>0, <2>1
<1>6. CASE Release(t)
  <2>1. PICK p \in DOMAIN blocks :
           blocks[p].owner = t /\ blocks[p].kind = "malloc" /\ Begins(t, "remove", p, "malloc", 0)
    BY <1>6, Released
  <2> QED BY <2>1 DEF Begins, CallOK, Leaves, At, Mine
<1>7. CASE Munmap(t)
  <2>1. PICK lo, hi, len \in Nat :
           /\ lo < hi /\ len = hi - lo
           /\ \A a \in lo..hi - 1 : \E q \in 0..a : Owns(t, q, {"mmap"}) /\ a < blocks[q].hi
           /\ Begins(t, "remove", lo, "mmap", len)
    BY <1>7, Unmapped
  <2>2. PICK c : c = th'[t]
    OBVIOUS
  <2>3. c.pc = "remove" /\ c.p = lo /\ c.kind = "mmap" /\ c.len = len /\ UNCHANGED <<blocks, brk>>
    BY <2>1, <2>2 DEF Begins
  <2>4. len > 0 /\ \A a \in lo..lo + len - 1 :
          \E q \in DOMAIN blocks : blocks[q].owner = t /\ blocks[q].kind = "mmap" /\ q <= a /\ a < blocks[q].hi
    <3>1. len > 0 /\ lo + len - 1 = hi - 1
      BY <2>1
    <3>2. ASSUME NEW a \in lo..hi - 1
          PROVE  \E q \in DOMAIN blocks : blocks[q].owner = t /\ blocks[q].kind = "mmap" /\ q <= a /\ a < blocks[q].hi
      <4>1. PICK q \in 0..a : Owns(t, q, {"mmap"}) /\ a < blocks[q].hi
        BY <2>1
      <4> QED BY <4>1 DEF Owns
    <3> QED BY <3>1, <3>2
  <2>5. InMappings(t)'
    BY <2>2, <2>3, <2>4 DEF InMappings
  <2> QED BY <2>2, <2>3, <2>5 DEF CallOK, Leaves, At
<1>8. CASE Autofree(t)
  <2>1. PICK p \in DOMAIN blocks :
           /\ blocks[p].owner = t
           /\ blocks[p].part = "whole" \/ (blocks[p].part = "front" /\ blocks[p].kind = "sbrk")
           /\ Begins(t, "autoremove", p, blocks[p].kind, 0)
    BY <1>8, Autofreed
  <2> QED BY <2>1 DEF Begins, CallOK, Leaves, At, Mine
<1>9. CASE Shrink(t)
  <2>1. PICK low \in Nat : Lowered(low) /\ th'[t].pc = "remove" /\ th'[t].p = low /\ th'[t].kind = "sbrk"
    BY <1>9, Shrunk
  <2> QED BY <2>1 DEF Lowered, CallOK, Leaves, At
<1>10. CASE Remove(t)
  <2>1. /\ At(t, "remove") /\ th'[t].p = th[t].p /\ th'[t].kind = th[t].kind /\ th'[t].len = th[t].len
        /\ th'[t].pc \in {"poison", "release"} /\ UNCHANGED <<blocks, brk>>
    BY <1>10, Removed
  <2> QED BY <1>a, <2>1 DEF CallOK, Leaves, At, Mine, InMappings
<1>11. CASE Autoremove(t)
  <2>0. /\ At(t, "autoremove") /\ UNCHANGED <<blocks, brk>>
        /\ \/ /\ Recorded(th[t].p)
              /\ th'[t].pc = (IF th[t].kind = "sbrk" THEN "top" ELSE "poison")
              /\ th'[t].p = th[t].p /\ th'[t].kind = th[t].kind /\ th'[t].len = RoundUp(table[th[t].p].size)
           \/ th'[t].pc = "idle"
    BY <1>11, Autoremoved
  <2>1. Mine(t) /\ blocks[th[t].p].part # "rest" /\ (th[t].kind = "mmap" => blocks[th[t].p].part = "whole")
    BY <1>a, <2>0 DEF CallOK, At
  <2>2. PICK p, kind : p = th[t].p /\ kind = th[t].kind
    OBVIOUS
  <2>3. CASE th'[t].pc = "idle"
    BY <1>0, <2>3
  <2>4. CASE kind = "sbrk" /\ th'[t].pc = "top" /\ th'[t].p = p /\ th'[t].kind = kind
    BY <2>0, <2>1, <2>2, <2>4 DEF CallOK, Leaves, At, Mine
  <2>5. CASE kind = "malloc" /\ th'[t].pc = "poison" /\ th'[t].p = p /\ th'[t].kind = kind
    BY <2>0, <2>1, <2>2, <2>5 DEF CallOK, Leaves, At, Mine
  <2>6. CASE kind = "mmap" /\ th'[t].pc = "poison" /\ th'[t].p = p /\ th'[t].kind = kind
             /\ th'[t].len = RoundUp(table[p].size)
    <3>1. p \in DOMAIN blocks /\ blocks[p].owner = t /\ blocks[p].kind = "mmap" /\ blocks[p].part = "whole"
      BY <2>1, <2>2, <2>6 DEF Mine
    <3>2. ~ Taken(p)
      BY <2>0, <3>1 DEF Taken, At
    <3>3. table[p].size = blocks[p].req
      BY <3>1, <3>2 DEF Known, RecordOf
    <3>4. blocks[p].hi = p + RoundUp(blocks[p].req)
      BY <3>1 DEF CallsInv, KindOK
    <3>5. th'[t].len = blocks[p].hi - p /\ p < blocks[p].hi /\ p \in Nat /\ blocks[p].hi \in Nat
      <4>1. p \in Nat /\ blocks[p].hi \in Nat /\ blocks[p].req \in Nat /\ p < blocks[p].hi
        BY <3>1, BlockInside
      <4> QED BY <2>6, <3>3, <3>4, <4>1, RoundUpNat
    <3>6. PICK c : c = th'[t]
      OBVIOUS
    <3>7. c.len > 0 /\ \A a \in p..p + c.len - 1 : p <= a /\ a < blocks[p].hi
      BY <3>5, <3>6
    <3>8. InMappings(t)'
      BY <2>0, <2>6, <3>1, <3>6, <3>7 DEF InMappings
    <3> QED BY <2>6, <3>8 DEF CallOK, Leaves, At
  <2>7. kind \in Kinds
    BY <2>2, CallOf
  <2> QED BY <2>0, <2>2, <2>3, <2>4, <2>5, <2>6, <2>7 DEF Kinds
<1>12. CASE AutofreeTop(t)
  <2>1. CASE th'[t].pc = "idle"
    BY <1>0, <2>1
  <2>2. CASE th'[t].pc # "idle"
    <3>1. th[t].pc = "top" /\ th[t].p + th[t].size = brk /\ th'[t].pc = "give" /\ Same(t) /\ UNCHANGED <<blocks, brk>>
      BY <1>12, <2>2, TopAsked DEF At
    <3> QED BY <1>a, <3>1 DEF Same, CallOK, Leaves, At, Mine
  <2> QED BY <2>1, <2>2
<1>13. CASE AutofreeGive(t)
  <2>1. At(t, "give") /\ th[t].kind = "sbrk" /\ th'[t].pc = "poison" /\ th'[t].p = th[t].p /\ th'[t].kind = "sbrk"
    BY <1>13, Given DEF Same
  <2>2. Mine(t) /\ th[t].p + th[t].size = brk
    BY <1>a, <2>1 DEF CallOK, At
  <2>3. SbrkBase <= th[t].p /\ th[t].p \in Nat
    BY <2>1, <2>2, BlockInside DEF Mine
  <2>4. brk - th[t].size = th[t].p
    BY <2>2, <2>3, CallOf, Numbers
  <2>5. brk' = th[t].p
    BY <1>13, <2>3, <2>4, Given DEF Lowered
  <2> QED BY <2>1, <2>5 DEF CallOK, Leaves, At
<1>14. CASE Poison(t)
  <2>1. th[t].pc = "poison" /\ th'[t].pc = "release" /\ Same(t) /\ UNCHANGED <<blocks, brk>>
    BY <1>14, PoisonedIs DEF At
  <2> QED BY <1>a, <2>1 DEF Same, CallOK, Leaves, At, Mine, InMappings
<1> QED BY <1>1, <1>2, <1>3, <1>4, <1>5, <1>6, <1>7, <1>8, <1>9, <1>10, <1>11, <1>12, <1>13, <1>14 DEF Does

LEMMA CallsKept ==
  ASSUME TypeInv, CallsInv, Known, BreakApart, NEW t \in Threads, Does(t)
  PROVE  CallsInv'
<1>1. Changes(t) /\ Others(t)
  BY Changing, OthersKept
<1>2. \A u \in Threads : CallOK(u)'
  <2>1. ASSUME NEW u \in Threads, u # t PROVE CallOK(u)'
    <3>1. CallOK(u) /\ th'[u] = th[u]
      BY <1>1, <2>1 DEF CallsInv, Others
    <3> QED BY <1>1, <2>1, <3>1, UndisturbedKept, CallKept
  <2> QED BY <2>1, CallNext
<1> QED BY <1>1, <1>2, KindsKept, ExclusiveKept DEF CallsInv

(***************************************************************************)
(* Records                                                                 *)
(***************************************************************************)

LEMMA OldBlock ==
  ASSUME TypeInv, NEW t \in Threads, Changes(t), \A p \in DOMAIN blocks : KindOK(p),
         NEW p \in DOMAIN blocks', blocks'[p].part # "rest"
  PROVE  \/ /\ p \in DOMAIN blocks /\ blocks[p].part # "rest" /\ blocks'[p].kind = blocks[p].kind
            /\ blocks'[p].owner = blocks[p].owner /\ blocks'[p].req <= blocks[p].req
            /\ blocks'[p] = blocks[p] \/ (blocks[p].kind # "malloc" /\ blocks'[p].part = "front")
         \/ \E req, hi \in Nat, kind \in Kinds : Added(t, p, kind, req, hi)
<1>1. ASSUME p \in DOMAIN blocks, blocks'[p] = blocks[p] PROVE blocks'[p].req <= blocks[p].req
  BY <1>1, BlockInside
<1>2. CASE UNCHANGED <<blocks, lost>>
  BY <1>1, <1>2
<1>3. ASSUME NEW q \in Nat, NEW req \in Nat, NEW hi \in Nat, NEW kind \in Kinds, Added(t, q, kind, req, hi), p # q
      PROVE  p \in DOMAIN blocks /\ blocks'[p] = blocks[p]
  BY <1>3 DEF Added
<1>4. ASSUME Pieces(blocks')
      PROVE  /\ p \in DOMAIN blocks /\ blocks[p].part # "rest" /\ blocks'[p].kind = blocks[p].kind
             /\ blocks'[p].owner = blocks[p].owner /\ blocks'[p].req <= blocks[p].req
             /\ blocks'[p] = blocks[p] \/ (blocks[p].kind # "malloc" /\ blocks'[p].part = "front")
  <2>0. PICK B : B = blocks'
    OBVIOUS
  <2>1. PICK r \in DOMAIN blocks : PieceOf(B, p, r)
    BY <1>4, <2>0 DEF Pieces
  <2>2. /\ r = p /\ B[p].kind = blocks[r].kind /\ B[p].owner = blocks[r].owner
        /\ blocks[r].part # "rest" /\ B[p].req <= blocks[r].req
        /\ B[p].part = "whole" => B[p] = blocks[r]
        /\ B[p].part \in Parts
    BY <2>0, <2>1 DEF PieceOf, Blocks
  <2>3. (\A x \in DOMAIN blocks : KindOK(x))'
    BY KindsKept
  <2>4. B[p].kind = "malloc" => B[p].part = "whole"
    BY <2>0, <2>3 DEF KindOK
  <2> QED BY <2>0, <2>2, <2>4 DEF Parts
<1> QED
  <2>1. CASE \E q, req, hi \in Nat, kind \in Kinds : Added(t, q, kind, req, hi)
    BY <1>1, <1>3, <2>1
  <2>2. CASE \E lo, hi \in Nat : \E told : Cutting(t, lo, hi, told)
    BY <1>4, <2>2 DEF Cutting
  <2>3. CASE \E q : blocks' = Spoil(q)
    BY <1>4, <2>3, Spoilt
  <2>4. CASE \E q : blocks' = Without(blocks, q)
    BY <1>4, <2>4, Gone
  <2> QED BY <1>1, <1>2, <2>1, <2>2, <2>3, <2>4 DEF Changes

\* Nothing is at the break.
LEMMA AtBreak == ASSUME TypeInv PROVE brk \notin DOMAIN blocks
BY BlockInside, Numbers

\* Whatever a call is about to release is of its thread.
LEMMA Releasing ==
  ASSUME TypeInv, NEW u \in Threads, CallOK(u), th[u].pc \in {"remove", "autoremove", "top", "give", "poison", "release"},
         NEW p \in DOMAIN blocks, p = th[u].p
  PROVE  blocks[p].owner = u /\ blocks[p].kind = th[u].kind
         /\ (th[u].pc \in {"remove", "poison", "release"} => th[u].kind # "sbrk")
<1>1. CASE th[u].pc \in {"autoremove", "top", "give"}
  BY <1>1 DEF CallOK, Mine
<1>2. CASE th[u].pc \in {"remove", "poison", "release"}
  <2>1. th[u].kind # "sbrk"
    BY <1>2, AtBreak DEF CallOK, Leaves
  <2>2. CASE th[u].kind = "malloc"
    BY <1>2, <2>2 DEF CallOK, Leaves, Mine
  <2>3. CASE th[u].kind = "mmap"
    BY <1>2, <2>3, TakingFirst DEF CallOK, Leaves
  <2> QED BY <2>1, <2>2, <2>3, CallOf DEF Kinds
<1> QED BY <1>1, <1>2

\* The two ways in which the table may change.
Records(t) ==
  /\ Insert(t) /\ At(t, "insert") /\ Mine(t) /\ DOMAIN table' = DOMAIN table \cup {th[t].p}
  /\ \A q \in DOMAIN table : q # th[t].p => table'[q] = table[q]
  /\ table'[th[t].p].state = "USED"
  /\ table'[th[t].p].size = SizeOf(th[t].p) /\ table'[th[t].p].req = blocks[th[t].p].req
Unrecords(t) ==
  /\ Remove(t) \/ Autoremove(t)
  /\ Recorded(th[t].p) /\ Marked(th[t].p) /\ th'[t].pc \in {"top", "poison"} /\ th'[t].p = th[t].p

LEMMA TableSteps ==
  ASSUME TypeInv, CallsInv, NEW t \in Threads, Does(t)
  PROVE  UNCHANGED table \/ Records(t) \/ Unrecords(t)
<1>1. CASE Insert(t)
  <2>1. CallOK(t) /\ At(t, "insert")
    BY <1>1, Inserted DEF CallsInv
  <2>2. Mine(t) /\ th[t].len = blocks[th[t].p].req /\ th[t].size = SizeOf(th[t].p)
    BY <2>1 DEF CallOK, At
  <2> QED BY <1>1, <2>1, <2>2, Inserted DEF Records
<1>2. CASE Remove(t)
  <2>1. CASE Recorded(th[t].p)
    BY <1>2, <2>1, Removed DEF Unrecords
  <2>2. CASE ~ Recorded(th[t].p)
    BY <1>2, <2>2, Removed DEF Unrecords
  <2> QED BY <2>1, <2>2
<1>3. CASE Autoremove(t)
  BY <1>3, Autoremoved DEF Unrecords
<1>4. CASE Malloc(t) \/ Sbrk(t)
  BY <1>4 DEF Malloc, Sbrk
<1>5. CASE Brk(t) \/ Track(t) \/ Release(t) \/ Munmap(t) \/ Autofree(t) \/ Shrink(t)
  BY <1>5 DEF Brk, Track, Release, Munmap, Autofree, Shrink
<1>6. CASE AutofreeTop(t) \/ AutofreeGive(t) \/ Poison(t) \/ SystemRelease(t)
  BY <1>6 DEF AutofreeTop, AutofreeGive, Poison, SystemRelease
<1>7. CASE Access(t) \/ CheckShadow(t) \/ EndAccess(t)
  BY <1>7 DEF Access, CheckShadow, EndAccess
<1> QED BY <1>1, <1>2, <1>3, <1>4, <1>5, <1>6, <1>7 DEF Does

LEMMA SizesKept ==
  ASSUME TypeInv, CallsInv, NEW t \in Threads, Does(t), \A q \in DOMAIN table : table[q].req <= table[q].size
  PROVE  (\A q \in DOMAIN table : table[q].req <= table[q].size)'
<1>1. UNCHANGED table \/ Records(t) \/ Unrecords(t)
  BY TableSteps
<1>2. CASE Records(t)
  <2>1. PICK p \in DOMAIN blocks : p = th[t].p
    BY <1>2 DEF Records, Mine
  <2>2. blocks[p].req <= SizeOf(p)
    BY BlockInside DEF SizeOf
  <2> QED BY <1>2, <2>1, <2>2 DEF Records
<1>3. CASE Unrecords(t)
  BY <1>3 DEF Unrecords, Marked
<1> QED BY <1>1, <1>2, <1>3

\* What a thread in a call does.
LEMMA Doing ==
  ASSUME NEW t, Does(t)
  PROVE  \/ th[t].pc = "idle"
         \/ th[t].pc = "insert" /\ Insert(t)
         \/ th[t].pc = "track" /\ Track(t)
         \/ th[t].pc = "remove" /\ Remove(t)
         \/ th[t].pc = "autoremove" /\ Autoremove(t)
         \/ th[t].pc = "top" /\ AutofreeTop(t)
         \/ th[t].pc = "give" /\ AutofreeGive(t)
         \/ th[t].pc = "poison" /\ Poison(t)
         \/ th[t].pc = "release" /\ SystemRelease(t)
         \/ th[t].pc = "check" /\ CheckShadow(t)
         \/ th[t].pc \in {"report", "clean"} /\ EndAccess(t)
<1>1. CASE Malloc(t) \/ Sbrk(t) \/ Brk(t) \/ Release(t) \/ Munmap(t) \/ Autofree(t) \/ Shrink(t) \/ Access(t)
  <2>1. At(t, "idle")
    BY <1>1 DEF Malloc, Sbrk, Brk, Release, Munmap, Autofree, Shrink, Access
  <2> QED BY <2>1 DEF At
<1>2. CASE Insert(t)
  BY <1>2 DEF Insert, At
<1>3. CASE Track(t)
  BY <1>3 DEF Track, At
<1>4. CASE Remove(t)
  BY <1>4 DEF Remove, At
<1>5. CASE Autoremove(t)
  BY <1>5 DEF Autoremove, At
<1>6. CASE AutofreeTop(t)
  BY <1>6 DEF AutofreeTop, At
<1>7. CASE AutofreeGive(t)
  BY <1>7 DEF AutofreeGive, At
<1>8. CASE Poison(t)
  BY <1>8 DEF Poison, At
<1>9. CASE SystemRelease(t)
  BY <1>9 DEF SystemRelease, At
<1>10. CASE CheckShadow(t)
  BY <1>10 DEF CheckShadow, At
<1>11. CASE EndAccess(t)
  BY <1>11 DEF EndAccess, At
<1> QED BY <1>1, <1>2, <1>3, <1>4, <1>5, <1>6, <1>7, <1>8, <1>9, <1>10, <1>11 DEF Does

\* The thread that releases a block has it until the block is gone.
LEMMA StillTaken ==
  ASSUME TypeInv, CallsInv, NEW t \in Threads, Does(t), NEW p \in DOMAIN blocks', blocks'[p].part # "rest",
         p \in DOMAIN blocks, th[t].p = p, th[t].pc \in {"insert", "top", "give", "poison", "release"}
  PROVE  Insert(t) \/ (th'[t].p = p /\ th'[t].pc \in {"insert", "top", "give", "poison", "release"})
<1>1. CASE th[t].pc = "insert"
  <2>1. Insert(t)
    BY <1>1, Doing
  <2> QED BY <2>1
<1>2. CASE th[t].pc = "top"
  <2>1. AutofreeTop(t)
    BY <1>2, Doing
  <2>2. blocks' # Spoil(th[t].p)
    BY Spoilt
  <2> QED BY <2>1, <2>2, TopAsked DEF Same
<1>3. CASE th[t].pc = "give"
  <2>1. AutofreeGive(t)
    BY <1>3, Doing
  <2> QED BY <2>1, Given DEF Same
<1>4. CASE th[t].pc = "poison"
  <2>1. Poison(t)
    BY <1>4, Doing
  <2> QED BY <2>1, PoisonedIs DEF Same
<1>5. CASE th[t].pc = "release"
  <2>1. SystemRelease(t)
    BY <1>5, Doing
  <2>2. CallOK(t) /\ Leaves(t)
    BY <1>5 DEF CallsInv, Leaves
  <2>3. CASE th[t].kind = "sbrk"
    BY <2>2, <2>3, AtBreak DEF CallOK
  <2>4. CASE blocks' = Without(blocks, th[t].p)
    BY <2>4, Gone
  <2>5. ASSUME NEW hi \in Nat, th[t].kind = "mmap", hi = th[t].p + th[t].len, blocks' = Cut(th[t].p, hi) PROVE FALSE
    <3>1. p \in Nat /\ th[t].len \in Nat /\ th[t].len > 0
      BY <2>2, <2>5, CallOf DEF CallOK, InMappings
    <3>2. p < hi /\ p < blocks[p].hi /\ hi \in Nat /\ p \in Nat
      BY <2>5, <3>1, BlockInside
    <3>3. PICK B : B = blocks'
      OBVIOUS
    <3>4. IsCut(B, p, hi)
      BY <2>5, <3>2, <3>3, CutIs
    <3> QED BY <3>2, <3>3, <3>4, BlockInside DEF IsCut, Stays
  <2>6. CASE blocks' = Spoil(th[t].p)
    BY <2>6, Spoilt
  <2> QED BY <2>1, <2>3, <2>4, <2>5, <2>6, Ended
<1> QED BY <1>1, <1>2, <1>3, <1>4, <1>5

LEMMA KnownKept ==
  ASSUME TypeInv, TypeInv', CallsInv, Known, BreakApart, NEW t \in Threads, Does(t)
  PROVE  Known'
<1> SUFFICES ASSUME NEW p \in DOMAIN blocks', blocks'[p].part # "rest", ~ Taken(p)'
             PROVE  Recorded(p)' /\ RecordOf(p)'
  BY DEF Known
<1>1. Changes(t) /\ Others(t)
  BY Changing, OthersKept
<1>2. /\ p \in DOMAIN blocks /\ blocks[p].part # "rest" /\ blocks'[p].kind = blocks[p].kind
      /\ blocks'[p].owner = blocks[p].owner /\ blocks'[p].req <= blocks[p].req
      /\ blocks'[p] = blocks[p] \/ (blocks[p].kind # "malloc" /\ blocks'[p].part = "front")
  <2>1. ASSUME NEW req \in Nat, NEW hi \in Nat, NEW kind \in Kinds, Added(t, p, kind, req, hi) PROVE FALSE
    BY <2>1 DEF Added, Taken
  <2>2. \A q \in DOMAIN blocks : KindOK(q)
    BY DEF CallsInv
  <2> QED BY <1>1, <2>1, <2>2, OldBlock
<1>3. PICK o \in Threads : o = blocks[p].owner /\ o = blocks'[p].owner
  BY <1>2, BlockInside
<1>4. CASE Records(t) /\ th[t].p = p
  <2>1. Recorded(p)' /\ table'[p].size = SizeOf(p) /\ table'[p].req = blocks[p].req
    BY <1>4 DEF Records, Recorded
  <2>2. blocks'[p] = blocks[p]
    BY <1>2, <1>4, Inserted DEF Records
  <2>3. blocks[p].req <= blocks[p].req
    BY <1>2, BlockInside
  <2>4. CASE blocks[p].kind = "malloc"
    BY <2>1, <2>2, <2>4 DEF RecordOf, SizeOf
  <2>5. CASE blocks[p].kind # "malloc"
    BY <2>1, <2>2, <2>3, <2>5 DEF RecordOf, SizeOf
  <2> QED BY <2>1, <2>4, <2>5
<1>5. CASE ~ (Records(t) /\ th[t].p = p)
  <2>1. ~ Taken(p)
    <3>1. ASSUME Taken(p), o # t PROVE FALSE
      BY <1>1, <1>3, <3>1 DEF Taken, Others
    <3>2. ASSUME Taken(p), o = t PROVE FALSE
      <4>1. Insert(t)
        BY <1>2, <1>3, <3>2, StillTaken DEF Taken
      <4>2. Records(t)
        <5>1. CallOK(t) /\ At(t, "insert")
          BY <4>1, Inserted DEF CallsInv
        <5>2. Mine(t) /\ th[t].len = blocks[th[t].p].req /\ th[t].size = SizeOf(th[t].p)
          BY <5>1 DEF CallOK, At
        <5> QED BY <4>1, <5>1, <5>2, Inserted DEF Records
      <4> QED BY <1>3, <1>5, <3>2, <4>2 DEF Taken
    <3> QED BY <3>1, <3>2
  <2>2. Recorded(p) /\ RecordOf(p)
    BY <1>2, <2>1 DEF Known
  <2>3. ~ (Unrecords(t) /\ th[t].p = p)
    <3>1. ASSUME Unrecords(t), th[t].p = p PROVE FALSE
      <4>1. CallOK(t) /\ th[t].pc \in {"remove", "autoremove"}
        BY <3>1, Removed, Autoremoved DEF CallsInv, Unrecords, At
      <4>2. blocks[p].owner = t
        BY <1>2, <3>1, <4>1, Releasing
      <4> QED BY <1>3, <3>1, <4>2 DEF Unrecords, Taken
    <3> QED BY <3>1
  <2>4. p \in DOMAIN table /\ p \in DOMAIN table' /\ table'[p] = table[p]
    BY <1>5, <2>2, <2>3, TableSteps DEF Recorded, Records, Unrecords, Marked
  <2>5. Recorded(p)'
    BY <2>2, <2>4 DEF Recorded
  <2>6. RecordOf(p)'
    <3>1. CASE blocks'[p] = blocks[p]
      BY <2>2, <2>4, <3>1 DEF RecordOf
    <3>2. CASE blocks[p].kind # "malloc" /\ blocks'[p].part = "front"
      <4>1. table[p].req = table[p].size /\ blocks[p].req <= table[p].size /\ table[p].size \in Nat
        BY <2>2, <2>4, <3>2 DEF RecordOf, TypeInv, TableTyped
      <4>2. blocks'[p].req \in Int /\ blocks[p].req \in Nat
        BY <1>2, BlockInside DEF TypeInv, BlocksInv, BlocksTyped, Blocks
      <4> QED BY <1>2, <2>4, <3>2, <4>1, <4>2 DEF RecordOf
    <3> QED BY <1>2, <3>1, <3>2
  <2> QED BY <2>5, <2>6
<1> QED BY <1>4, <1>5

\* What was of the block at q is of it still, or was lost.
Keeps(q) == \A a : (In(q, a) => In(q, a)') /\ (AskedIn(q, a) => AskedIn(q, a)')

LEMMA KeepsSame ==
  ASSUME NEW q, lost \subseteq lost',
         q \in DOMAIN blocks => /\ q \in DOMAIN blocks' /\ blocks'[q].hi = blocks[q].hi
                                /\ blocks'[q].req = blocks[q].req /\ blocks'[q].kind = blocks[q].kind
  PROVE  Keeps(q)
<1> SUFFICES ASSUME NEW a PROVE (In(q, a) => In(q, a)') /\ (AskedIn(q, a) => AskedIn(q, a)')
  BY DEF Keeps
<1>1. q \in DOMAIN blocks => Requested(q)' = Requested(q)
  BY DEF Requested
<1> QED BY <1>1 DEF In, AskedIn

LEMMA KeepsCut ==
  ASSUME TypeInv, CallsInv, NEW t, NEW lo \in Nat, NEW hi \in Nat, NEW told, Cutting(t, lo, hi, told), NEW q,
         told = {} \/ \E x : told = Told(x) /\ x # q
  PROVE  Keeps(q)
<1>0. lost \subseteq lost'
  BY DEF Cutting
<1>1. CASE q \notin DOMAIN blocks
  BY <1>0, <1>1, KeepsSame
<1>2. CASE q \in DOMAIN blocks /\ Stays(q, lo, hi)
  BY <1>0, <1>2, KeepsSame DEF Cutting, IsCut
<1>3. CASE q \in DOMAIN blocks /\ ~ Stays(q, lo, hi)
  <2>1. q \in Nat /\ blocks[q].hi \in Nat /\ blocks[q].req \in Nat /\ q + blocks[q].req <= blocks[q].hi
        /\ blocks[q].hi <= MemSize /\ q < hi /\ lo < blocks[q].hi /\ MemSize \in Nat
    BY <1>3, BlockInside, Numbers DEF Stays
  <2>2. blocks[q].kind # "malloc" /\ blocks[q].req > 0
    BY <1>3, <2>1 DEF Cutting, CallsInv, KindOK
  <2>3. ASSUME NEW a \in Requested(q), lo <= a PROVE a \in lost'
    <3>1. a \in Nat /\ a \in lo..MemSize - 1
      BY <2>1, <2>3 DEF Requested
    <3>2. a \notin told
      <4>1. ASSUME NEW x \in DOMAIN blocks, a \in Requested(x), x # q PROVE FALSE
        <5>1. x <= a /\ a < blocks[x].hi /\ q <= a /\ a < blocks[q].hi
          BY <2>1, <3>1, <4>1, BlockInside DEF Requested
        <5> QED BY <1>3, <3>1, <4>1, <5>1, Apart
      <4> QED BY <4>1 DEF Told
    <3>3. a \in Untold(lo, hi, told)
      BY <1>3, <2>1, <3>1, <3>2 DEF Untold
    <3> QED BY <3>3 DEF Cutting
  <2>4. ASSUME NEW a \in Requested(q), ~ (lo <= a) PROVE q \in DOMAIN blocks' /\ a \in Requested(q)'
    <3>1. a \in Nat /\ q <= a /\ a < q + blocks[q].req /\ q < lo /\ a < lo
      BY <2>1, <2>4 DEF Requested
    <3>2. q \in DOMAIN blocks' /\ IsFront(blocks'[q], q, lo)
      BY <1>3, <2>1, <3>1 DEF Cutting, IsCut
    <3>3. a \in q..q + blocks'[q].req - 1
      <4>1. blocks'[q].req = IF blocks[q].req < lo - q THEN blocks[q].req ELSE lo - q
        BY <3>2 DEF IsFront
      <4> QED BY <2>1, <3>1, <4>1
    <3> QED BY <3>2, <3>3 DEF Requested
  <2>5. ASSUME NEW a PROVE (In(q, a) => In(q, a)') /\ (AskedIn(q, a) => AskedIn(q, a)')
    <3>1. CASE a \in lost
      BY <1>0, <3>1 DEF In, AskedIn
    <3>2. CASE a \in Requested(q)
      BY <2>3, <2>4, <3>2 DEF In, AskedIn
    <3>3. In(q, a) \/ AskedIn(q, a) => a \in lost \/ a \in Requested(q)
      BY <2>1, <2>2 DEF In, AskedIn
    <3> QED BY <3>1, <3>2, <3>3
  <2> QED BY <2>5 DEF Keeps
<1> QED BY <1>1, <1>2, <1>3

\* A record in use that stays in use says no less than before.
LEMMA Keeping ==
  ASSUME TypeInv, CallsInv, BreakApart, \A u \in Threads : RecordOK(u), NEW t \in Threads, Does(t),
         NEW q, Recorded(q)
  PROVE  Keeps(q) \/ LeavingAt(q)'
<1>0. CallOK(t) /\ RecordOK(t)
  BY DEF CallsInv
<1>1. CASE Quietly(t)
  BY <1>1, QuietKeeps, KeepsSame
<1>2. CASE Malloc(t) \/ Sbrk(t)
  <2>1. PICK p, req, hi \in Nat, kind \in Kinds : Added(t, p, kind, req, hi)
    BY <1>2, Additions
  <2> QED BY <2>1, KeepsSame DEF Added
<1>3. CASE Brk(t)
  <2>1. CASE UNCHANGED <<blocks, lost>>
    BY <2>1, KeepsSame
  <2>2. ASSUME NEW low \in Nat, Lowered(low), lost' = lost \cup Untold(low, brk, {}) PROVE Keeps(q)
    BY <2>2, LoweredCuts, KeepsCut
  <2> QED BY <1>3, <2>1, <2>2, BrkMoved
<1>4. CASE Shrink(t)
  <2>1. PICK low \in Nat : /\ Lowered(low) /\ lost' = lost \cup Untold(low, brk, Told(low))
                           /\ th'[t].pc = "remove" /\ th'[t].p = low /\ th'[t].kind = "sbrk"
    BY <1>4, Shrunk
  <2>2. CASE low = q
    BY <2>1, <2>2 DEF LeavingAt, At
  <2>3. CASE low # q
    <3>1. Cutting(t, low, brk, Told(low)) /\ brk \in Nat
      BY <2>1, LoweredCuts
    <3> QED BY <2>3, <3>1, KeepsCut
  <2> QED BY <2>2, <2>3
<1>5. CASE AutofreeTop(t)
  <2>1. UNCHANGED lost /\ (UNCHANGED blocks \/ blocks' = Spoil(th[t].p))
    BY <1>5, TopAsked
  <2>2. CASE UNCHANGED blocks
    BY <2>1, <2>2, KeepsSame
  <2>3. CASE blocks' = Spoil(th[t].p)
    BY <2>1, <2>3, Spoilt, KeepsSame
  <2> QED BY <2>1, <2>2, <2>3
<1>6. CASE AutofreeGive(t)
  <2>1. th[t].p # q
    BY <1>0, <1>6, Given DEF RecordOK, At
  <2>2. ASSUME NEW low \in Nat, Lowered(low), lost' = lost \cup Untold(low, brk, Told(th[t].p)) PROVE Keeps(q)
    <3>1. Cutting(t, low, brk, Told(th[t].p)) /\ brk \in Nat
      BY <2>2, LoweredCuts
    <3> QED BY <2>1, <3>1, KeepsCut
  <2>3. CASE UNCHANGED <<blocks, lost>>
    BY <2>3, KeepsSame
  <2> QED BY <1>6, <2>2, <2>3, Given
<1>7. CASE SystemRelease(t)
  <2>0. th[t].pc = "release" /\ th[t].p # q
    BY <1>0, <1>7, Ended DEF RecordOK, At
  <2>1. CASE UNCHANGED <<blocks, lost>>
    BY <2>1, KeepsSame
  <2>2. CASE blocks' = Without(blocks, th[t].p) /\ UNCHANGED lost
    BY <2>0, <2>2, Gone, KeepsSame
  <2>3. ASSUME NEW hi \in Nat, th[t].kind = "mmap", hi = th[t].p + th[t].len, blocks' = Cut(th[t].p, hi),
               lost' = lost \cup Untold(th[t].p, hi, Told(th[t].p))
        PROVE  Keeps(q)
    <3>1. Cutting(t, th[t].p, hi, Told(th[t].p)) /\ th[t].p \in Nat
      BY <2>0, <2>3, CutsMappings, CallOf DEF CallsInv
    <3> QED BY <2>0, <3>1, KeepsCut
  <2>4. CASE blocks' = Spoil(th[t].p) /\ UNCHANGED lost
    BY <2>4, Spoilt, KeepsSame
  <2> QED BY <1>7, <2>1, <2>2, <2>3, <2>4, Ended
<1> QED BY <1>1, <1>2, <1>3, <1>4, <1>5, <1>6, <1>7 DEF Does, Quietly

LEMMA LostGrows == ASSUME NEW t \in Threads, Does(t) PROVE lost \subseteq lost'
<1>1. CASE Quietly(t)
  BY <1>1, QuietKeeps
<1>2. CASE Malloc(t) \/ Sbrk(t) \/ AutofreeTop(t)
  BY <1>2 DEF Malloc, Sbrk, AutofreeTop
<1>3. CASE Brk(t)
  BY <1>3 DEF Brk
<1>4. CASE Shrink(t)
  BY <1>4 DEF Shrink
<1>5. CASE AutofreeGive(t)
  BY <1>5 DEF AutofreeGive
<1>6. CASE SystemRelease(t)
  BY <1>6 DEF SystemRelease
<1> QED BY <1>1, <1>2, <1>3, <1>4, <1>5, <1>6 DEF Does, Quietly

LEMMA ExplainedKept ==
  ASSUME TypeInv, CallsInv, BreakApart, Explained, \A u \in Threads : RecordOK(u), NEW t \in Threads, Does(t)
  PROVE  Explained'
<1> SUFFICES ASSUME NEW q \in DOMAIN table', Recorded(q)'
             PROVE  (Reach(q, table[q].size) /\ Asked(q))' \/ LeavingAt(q)'
  BY DEF Explained
<1>1. CASE Records(t) /\ q = th[t].p
  <2>1. /\ q \in DOMAIN blocks /\ q \in DOMAIN blocks' /\ UNCHANGED <<blocks, lost>>
        /\ table'[q].size = SizeOf(q) /\ table'[q].req = blocks[q].req /\ KindOK(q)
    BY <1>1, Inserted DEF Records, Mine, CallsInv
  <2>2. PICK b : b = blocks[q]
    OBVIOUS
  <2>3. q \in Nat /\ b.hi \in Nat /\ b.req \in Nat /\ q + b.req <= b.hi /\ q < b.hi
    BY <2>1, <2>2, BlockInside
  <2>4. PICK size, req \in Nat : size = table'[q].size /\ req = table'[q].req
                                 /\ size = (IF b.kind = "malloc" THEN b.hi - q ELSE b.req) /\ req = b.req
    BY <2>1, <2>2, <2>3 DEF SizeOf
  <2>5. ASSUME NEW a \in q..q + size - 1 PROVE In(q, a)'
    <3>1. CASE b.kind = "malloc"
      <4>1. q <= a /\ a < b.hi
        BY <2>3, <2>4, <2>5, <3>1
      <4> QED BY <2>1, <2>2, <3>1, <4>1 DEF In
    <3>2. CASE b.kind # "malloc"
      <4>1. a \in q..q + b.req - 1
        BY <2>4, <2>5, <3>2
      <4>2. a \in Requested(q)'
        BY <2>1, <2>2, <4>1 DEF Requested
      <4> QED BY <2>1, <4>2 DEF In
    <3> QED BY <3>1, <3>2
  <2>6. ASSUME NEW a \in q..q + (IF req # 0 THEN req ELSE size) - 1 PROVE AskedIn(q, a)'
    <3>1. CASE req # 0
      <4>1. a \in q..q + b.req - 1
        BY <2>4, <2>6, <3>1
      <4>2. a \in Requested(q)'
        BY <2>1, <2>2, <4>1 DEF Requested
      <4> QED BY <2>1, <4>2 DEF AskedIn
    <3>2. CASE req = 0
      <4>1. b.kind = "malloc" /\ b.req = 0
        BY <2>1, <2>2, <2>4, <3>2 DEF KindOK
      <4>2. q <= a /\ a < b.hi
        BY <2>3, <2>4, <2>6, <3>2, <4>1
      <4> QED BY <2>1, <2>2, <4>1, <4>2 DEF AskedIn
    <3> QED BY <3>1, <3>2
  <2>7. Reach(q, table[q].size)'
    BY <2>4, <2>5 DEF Reach
  <2>8. Bound(q)' = IF req # 0 THEN req ELSE size
    BY <2>4 DEF Bound
  <2>9. Asked(q)'
    BY <2>6, <2>8 DEF Asked
  <2> QED BY <2>7, <2>9
<1>2. CASE ~ (Records(t) /\ q = th[t].p)
  <2>1. q \in DOMAIN table /\ table'[q] = table[q] /\ Recorded(q) /\ ~ (Unrecords(t) /\ th[t].p = q)
    BY <1>2, TableSteps DEF Recorded, Records, Unrecords, Marked
  <2>2. CASE LeavingAt(q)
    <3>1. PICK u \in Threads : th[u].pc = "remove" /\ th[u].kind = "sbrk" /\ th[u].p = q
      BY <2>2 DEF LeavingAt, At
    <3>2. CASE u # t
      BY <3>1, <3>2, OthersKept DEF Others, LeavingAt, At
    <3>3. CASE u = t
      <4>1. Remove(t)
        BY <3>1, <3>3, Doing
      <4>2. Marked(q)
        BY <2>1, <3>1, <3>3, <4>1, Removed
      <4> QED BY <2>1, <4>2 DEF Marked, Recorded
    <3> QED BY <3>2, <3>3
  <2>3. CASE Reach(q, table[q].size) /\ Asked(q) /\ Keeps(q)
    <3>1. PICK rec : rec = table[q] /\ rec = table'[q]
      BY <2>1
    <3>2. Reach(q, table[q].size)'
      BY <2>3, <3>1 DEF Reach, Keeps
    <3>3. Bound(q)' = Bound(q)
      BY <3>1 DEF Bound
    <3>4. \A a \in q..q + Bound(q) - 1 : AskedIn(q, a)'
      BY <2>3 DEF Asked, Keeps
    <3>5. Asked(q)'
      BY <3>3, <3>4 DEF Asked
    <3> QED BY <3>2, <3>5
  <2> QED BY <2>1, <2>2, <2>3, Keeping DEF Explained
<1> QED BY <1>1, <1>2

\* Nothing is made where a call of another thread is about to release.
LEMMA MadeElsewhere ==
  ASSUME TypeInv, CallsInv, BreakApart, NEW t \in Threads, NEW u \in Threads, u # t,
         th[u].pc \in {"top", "give", "poison", "release"}, NEW p \in Nat, NEW req \in Nat, NEW hi \in Nat, NEW kind \in Kinds,
         Added(t, p, kind, req, hi)
  PROVE  th[u].p # p
<1> SUFFICES ASSUME th[u].p = p PROVE FALSE
  OBVIOUS
<1>1. CallOK(u) /\ p \notin DOMAIN blocks /\ ~ Mine(u)
  BY DEF CallsInv, Added, Mine
<1>2. th[u].pc \in {"poison", "release"} /\ th[u].kind # "malloc"
  BY <1>1 DEF CallOK, Leaves
<1>3. CASE th[u].kind = "mmap"
  <2>1. InMappings(u)
    BY <1>1, <1>2, <1>3 DEF CallOK, Leaves
  <2>2. p \in p..p + th[u].len - 1
    BY <2>1, CallOf DEF InMappings
  <2>3. PICK q \in DOMAIN blocks : q <= p /\ p < blocks[q].hi
    BY <2>1, <2>2 DEF InMappings
  <2>4. hi <= q \/ blocks[q].hi <= p
    BY <2>3 DEF Added
  <2>5. p < hi
    BY DEF Added
  <2> QED BY <2>3, <2>4, <2>5, BlockInside
<1>4. CASE th[u].kind = "sbrk"
  <2>1. p = brk
    BY <1>1, <1>2, <1>4 DEF CallOK, Leaves
  <2>2. CASE kind = "sbrk"
    <3>1. MayUseBreak(t) /\ UsesBreak(u)
      BY <1>2, <1>4, <2>2 DEF Added, UsesBreak, At
    <3> QED BY <3>1 DEF MayUseBreak
  <2>3. CASE kind # "sbrk"
    BY <2>1, <2>3, Numbers DEF Added
  <2> QED BY <2>2, <2>3
<1> QED BY <1>2, <1>3, <1>4, CallOf DEF Kinds

\* What records say of the calls of other threads stays so.
LEMMA RecordKept ==
  ASSUME TypeInv, TypeInv', CallsInv, BreakApart, NEW t \in Threads, Does(t), NEW u \in Threads, u # t, RecordOK(u)
  PROVE  RecordOK(u)'
<1>0. Changes(t) /\ Others(t) /\ CallOK(u) /\ Undisturbed(u)
  BY Changing, OthersKept, UndisturbedKept DEF CallsInv
<1>1. PICK c : c = th[u] /\ c = th'[u]
  BY <1>0 DEF Others
<1>2. c.pc \in {"top", "give", "poison", "release"} => ~ Recorded(c.p)'
  <2>1. HAVE c.pc \in {"top", "give", "poison", "release"}
  <2>2. ~ Recorded(c.p)
    BY <1>1, <2>1 DEF RecordOK
  <2>3. ~ (Records(t) /\ th[t].p = c.p)
    <3>1. ASSUME Records(t), th[t].p = c.p PROVE FALSE
      <4>1. c.p \in DOMAIN blocks /\ blocks[c.p].owner = t
        BY <3>1 DEF Records, Mine
      <4> QED BY <1>0, <1>1, <2>1, <4>1, Releasing
    <3> QED BY <3>1
  <2> QED BY <2>2, <2>3, TableSteps DEF Records, Unrecords, Marked, Recorded
<1>3. c.pc \in {"top", "give", "poison"} /\ c.p \in DOMAIN blocks' /\ blocks'[c.p].part # "rest" => c.size >= SizeOf(c.p)'
  <2>1. HAVE c.pc \in {"top", "give", "poison"} /\ c.p \in DOMAIN blocks' /\ blocks'[c.p].part # "rest"
  <2>2. PICK p \in Nat : p = c.p
    BY <1>1, CallOf
  <2>3. \A req, hi \in Nat, kind \in Kinds : ~ Added(t, p, kind, req, hi)
    BY <1>1, <2>1, <2>2, MadeElsewhere
  <2>4. \A x \in DOMAIN blocks : KindOK(x)
    BY DEF CallsInv
  <2>5. /\ p \in DOMAIN blocks /\ blocks[p].part # "rest" /\ blocks'[p].kind = blocks[p].kind
        /\ blocks'[p].req <= blocks[p].req
        /\ blocks'[p] = blocks[p] \/ (blocks[p].kind # "malloc" /\ blocks'[p].part = "front")
    BY <1>0, <2>1, <2>2, <2>3, <2>4, OldBlock
  <2>6. c.size >= SizeOf(p) /\ c.size \in Nat
    BY <1>1, <2>1, <2>2, <2>5, CallOf DEF RecordOK
  <2>7. blocks'[p].req \in Nat /\ blocks[p].req \in Nat
    BY <2>1, <2>2, <2>5 DEF TypeInv, BlocksInv, BlocksTyped, Blocks
  <2>8. CASE blocks'[p] = blocks[p]
    BY <2>2, <2>6, <2>8 DEF SizeOf
  <2>9. CASE blocks[p].kind # "malloc"
    BY <2>2, <2>5, <2>6, <2>7, <2>9 DEF SizeOf
  <2> QED BY <2>5, <2>8, <2>9
<1>4. c.pc = "poison" /\ c.kind # "sbrk" => Reach(c.p, c.size)'
  <2>1. HAVE c.pc = "poison" /\ c.kind # "sbrk"
  <2>2. Reach(c.p, c.size)
    BY <1>1, <2>1 DEF RecordOK, At
  <2>3. lost \subseteq lost'
    BY LostGrows
  <2>4. CASE c.p \notin DOMAIN blocks
    <3>1. Keeps(c.p)
      BY <2>3, <2>4, KeepsSame
    <3> QED BY <2>2, <3>1 DEF Reach, Keeps
  <2>5. CASE c.p \in DOMAIN blocks
    <3>1. blocks[c.p].owner = u /\ blocks[c.p].kind # "sbrk"
      BY <1>0, <1>1, <2>1, <2>5, Releasing
    <3>2. c.p \in DOMAIN blocks' /\ blocks'[c.p] = blocks[c.p]
      BY <1>0, <2>5, <3>1 DEF Undisturbed
    <3>3. Keeps(c.p)
      BY <2>3, <3>2, KeepsSame
    <3> QED BY <2>2, <3>3 DEF Reach, Keeps
  <2> QED BY <2>4, <2>5
<1> QED BY <1>1, <1>2, <1>3, <1>4 DEF RecordOK, At

\* And those of the thread's own call.
LEMMA RecordNext ==
  ASSUME TypeInv, CallsInv, CallsInv', RecordsInv, NEW t \in Threads, Does(t)
  PROVE  RecordOK(t)'
<1>a. CallOK(t) /\ CallOK(t)' /\ RecordOK(t)
  BY DEF CallsInv, RecordsInv
<1>0. ASSUME th'[t].pc \notin {"top", "give", "poison", "release"} PROVE RecordOK(t)'
  BY <1>0 DEF RecordOK, At
<1>1. CASE th[t].pc = "idle"
  <2>1. th'[t].pc \notin {"top", "give", "poison", "release"}
    <3>1. CASE Malloc(t) \/ Sbrk(t)
      <4>1. PICK p, req, hi \in Nat, kind \in Kinds : Added(t, p, kind, req, hi)
        BY <3>1, Additions
      <4> QED BY <4>1 DEF Added
    <3>2. CASE Brk(t)
      BY <1>1, <3>2, BrkMoved
    <3>3. CASE Release(t) \/ Munmap(t)
      BY <3>3, Released, Unmapped DEF Begins
    <3>4. CASE Autofree(t)
      BY <3>4, Autofreed DEF Begins
    <3>5. CASE Shrink(t) \/ Access(t)
      BY <3>5, Shrunk, Accessed
    <3> QED BY <1>1, <3>1, <3>2, <3>3, <3>4, <3>5, Inserted, Tracked, Removed, Autoremoved, TopAsked, Given,
               PoisonedIs, Ended, Checked, AccessEnded DEF Does, At
  <2> QED BY <1>0, <2>1
<1>2. CASE Insert(t) \/ Track(t) \/ SystemRelease(t) \/ CheckShadow(t) \/ EndAccess(t)
  <2>1. th'[t].pc \notin {"top", "give", "poison", "release"}
    BY <1>2, Inserted, Tracked, Ended, Checked, AccessEnded
  <2> QED BY <1>0, <2>1
<1>3. CASE Remove(t) \/ Autoremove(t)
  <2>0. PICK p, kind : p = th[t].p /\ kind = th[t].kind
    OBVIOUS
  <2>1. CASE th'[t].pc \notin {"top", "give", "poison", "release"}
    BY <1>0, <2>1
  <2>2. CASE th'[t].pc = "release"
    <3>1. ~ Recorded(p) /\ UNCHANGED table /\ th'[t].p = p
      BY <1>3, <2>0, <2>2, Removed, Autoremoved
    <3>2. ~ Recorded(p)'
      BY <3>1 DEF Recorded
    <3> QED BY <2>2, <3>1, <3>2 DEF RecordOK, At
  <2>3. CASE th'[t].pc \in {"top", "give", "poison"}
    <3>0. /\ th'[t].p = p /\ th'[t].kind = kind /\ p \in DOMAIN table /\ th'[t].size = table[p].size
          /\ th[t].pc \in {"remove", "autoremove"} /\ UNCHANGED <<blocks, lost>>
          /\ \/ Recorded(p) /\ Marked(p)
             \/ ~ Recorded(p) /\ UNCHANGED table /\ th[t].pc = "remove" /\ kind = "sbrk"
          /\ th'[t].pc = "top" => kind = "sbrk" /\ th[t].pc = "autoremove"
      BY <1>3, <2>0, <2>3, Removed, Autoremoved DEF Recorded, At
    <3>1. ~ Recorded(p)'
      BY <3>0 DEF Marked, Recorded
    <3>2. p \in DOMAIN blocks /\ blocks[p].part # "rest" => table[p].size >= SizeOf(p) /\ Recorded(p)
      <4>1. HAVE p \in DOMAIN blocks /\ blocks[p].part # "rest"
      <4>2. blocks[p].owner = t
        BY <1>a, <2>0, <3>0, <4>1, Releasing
      <4>3. ~ Taken(p)
        BY <3>0, <4>2 DEF Taken
      <4>4. Recorded(p) /\ RecordOf(p)
        BY <4>1, <4>3 DEF RecordsInv, Known
      <4>5. table[p].size \in Nat /\ blocks[p].hi \in Nat /\ p \in Nat
        BY <3>0, <4>1, BlockInside DEF TypeInv, TableTyped
      <4> QED BY <4>4, <4>5 DEF RecordOf, SizeOf
    <3>3. SizeOf(p)' = SizeOf(p)
      BY <3>0 DEF SizeOf
    <3>4. th'[t].pc = "poison" /\ kind # "sbrk" => Reach(p, table[p].size)
      <4>1. HAVE th'[t].pc = "poison" /\ kind # "sbrk"
      <4>2. Recorded(p)
        BY <3>0, <4>1
      <4>3. ASSUME LeavingAt(p) PROVE FALSE
        <5>1. PICK u \in Threads : th[u].pc = "remove" /\ th[u].kind = "sbrk" /\ th[u].p = p
          BY <4>3 DEF LeavingAt, At
        <5>2. p = brk
          BY <5>1 DEF CallsInv, CallOK, Leaves
        <5>3. CASE p \in DOMAIN blocks
          BY <5>2, <5>3, AtBreak
        <5>4. CASE p \notin DOMAIN blocks
          <6>1. ~ Mine(t)
            BY <2>0, <5>4 DEF Mine
          <6>2. th[t].pc = "remove" /\ th[t].kind = "mmap" /\ InMappings(t)
            BY <1>a, <2>0, <3>0, <4>1, <6>1, CallOf DEF CallOK, Leaves, Kinds
          <6>3. p \in p..p + th[t].len - 1
            BY <2>0, <6>2, CallOf DEF InMappings
          <6>4. PICK q \in DOMAIN blocks : blocks[q].kind = "mmap" /\ p < blocks[q].hi
            BY <2>0, <6>2, <6>3 DEF InMappings
          <6> QED BY <5>2, <6>4, BlockInside, Numbers
        <5> QED BY <5>3, <5>4
      <4> QED BY <3>0, <4>2, <4>3 DEF RecordsInv, Explained
    <3>5. th'[t].pc = "poison" /\ kind # "sbrk" => Reach(p, table[p].size)'
      <4>1. PICK n : n = table[p].size
        OBVIOUS
      <4>2. table'[p].size = n
        BY <3>0, <4>1 DEF Marked
      <4>3. Keeps(p)
        BY <3>0, KeepsSame
      <4>4. Reach(p, n) => Reach(p, n)'
        BY <4>3 DEF Reach, Keeps
      <4> QED BY <3>4, <4>1, <4>2, <4>4
    <3>6. table'[p].size = table[p].size
      BY <3>0 DEF Marked
    <3>7. PICK c : c = th'[t]
      OBVIOUS
    <3>8. ~ Recorded(c.p)' /\ (c.p \in DOMAIN blocks' /\ blocks'[c.p].part # "rest" => c.size >= SizeOf(c.p)')
          /\ (c.pc = "poison" /\ c.kind # "sbrk" => Reach(c.p, c.size)')
      BY <3>0, <3>1, <3>2, <3>3, <3>5, <3>6, <3>7
    <3> QED BY <3>7, <3>8 DEF RecordOK, At
  <2> QED BY <2>1, <2>2, <2>3
<1>4. CASE AutofreeTop(t)
  <2>1. CASE th'[t].pc = "idle"
    BY <1>0, <2>1
  <2>2. CASE th'[t].pc # "idle"
    <3>1. th[t].pc = "top" /\ th'[t].pc = "give" /\ Same(t) /\ UNCHANGED <<blocks, table>>
      BY <1>4, <2>2, TopAsked DEF At
    <3> QED BY <1>a, <3>1 DEF Same, RecordOK, At, Recorded, SizeOf
  <2> QED BY <2>1, <2>2
<1>5. CASE AutofreeGive(t)
  <2>1. th[t].pc = "give" /\ th[t].kind = "sbrk" /\ th'[t].pc = "poison" /\ Same(t) /\ UNCHANGED table
    BY <1>5, Given DEF At
  <2>2. th'[t].p = brk'
    BY <1>a, <2>1 DEF CallOK, Leaves, Same
  <2>3. th'[t].p \notin DOMAIN blocks'
    <3>1. ASSUME NEW low \in Nat, Lowered(low) PROVE brk' \notin DOMAIN blocks'
      <4>1. PICK B : B = blocks'
        OBVIOUS
      <4>2. Pieces(B) /\ \A q \in DOMAIN B : B[q].hi <= low
        BY <3>1, <4>1, LoweredPieces
      <4>3. low \notin DOMAIN B
        BY <4>2 DEF Pieces, PieceOf, Blocks
      <4> QED BY <3>1, <4>1, <4>3 DEF Lowered
    <3> QED BY <1>5, <2>2, <3>1, Given, AtBreak
  <2>4. ~ Recorded(th[t].p)
    BY <1>a, <2>1 DEF RecordOK
  <2>5. ~ Recorded(th[t].p)'
    BY <2>1, <2>4 DEF Recorded, Same
  <2> QED BY <2>1, <2>3, <2>5 DEF RecordOK, At, Same
<1>6. CASE Poison(t)
  <2>1. th[t].pc = "poison" /\ th'[t].pc = "release" /\ Same(t) /\ UNCHANGED table
    BY <1>6, PoisonedIs DEF At
  <2> QED BY <1>a, <2>1 DEF Same, RecordOK, At, Recorded
<1> QED BY <1>1, <1>2, <1>3, <1>4, <1>5, <1>6, Doing DEF At

LEMMA RecordsKept ==
  ASSUME TypeInv, TypeInv', CallsInv, CallsInv', RecordsInv, BreakApart, NEW t \in Threads, Does(t)
  PROVE  RecordsInv'
<1>1. \A u \in Threads : RecordOK(u)'
  BY RecordKept, RecordNext DEF RecordsInv
<1> QED BY <1>1, KnownKept, ExplainedKept, SizesKept DEF RecordsInv

LEMMA InitInv == Init => Inv
<1> SUFFICES ASSUME Init PROVE CallsInv /\ RecordsInv
  BY InitTyped DEF Inv
<1>1. DOMAIN blocks = {} /\ DOMAIN table = {}
  BY DEF Init
<1>2. \A u \in Threads : th[u].pc = "idle"
  BY IdleCall DEF Init
<1>3. CallsInv
  BY <1>1, <1>2 DEF CallsInv, CallOK, Leaves, Exclusive, UsesBreak, At
<1>4. RecordsInv
  BY <1>1, <1>2 DEF RecordsInv, Known, Explained, RecordOK, At
<1> QED BY <1>3, <1>4

LEMMA InvStep == ASSUME BreakApart PROVE Inv /\ [Next]_vars => Inv'
<1> SUFFICES ASSUME Inv, [Next]_vars PROVE Inv'
  OBVIOUS
<1>1. CASE UNCHANGED vars
  BY <1>1, TypeStep DEF vars, Inv, CallsInv, CallOK, Leaves, At, Mine, InMappings, SizeOf, KindOK, Exclusive, UsesBreak,
     RecordsInv, Known, Explained, RecordOK, Recorded, RecordOf, Taken, Reach, In, Requested, Asked, AskedIn, Bound, LeavingAt
<1>2. ASSUME NEW t \in Threads, Does(t) PROVE Inv'
  <2>1. TypeInv'
    BY TypeStep DEF Inv
  <2>2. CallsInv'
    BY <1>2, CallsKept DEF Inv, RecordsInv
  <2> QED BY <1>2, <2>1, <2>2, RecordsKept DEF Inv
<1> QED BY <1>1, <1>2 DEF Next, Does

(***************************************************************************)
(* Granules                                                                *)
(***************************************************************************)

\* The break moves by whole granules, and so blocks share no granule.
IncrementsAligned == \A n \in Increments : n % Granule = 0
Whole(a) == a % Granule = 0
Aligned ==
  /\ Whole(brk) /\ \A p \in DOMAIN blocks : Whole(p) /\ Whole(blocks[p].hi)
  /\ \A t \in Threads : Leaves(t) /\ th[t].kind = "mmap" => Whole(th[t].p) /\ Whole(th[t].len)

LEMMA ZeroAligned == Whole(0)
BY GranuleAssumption DEF Whole

LEMMA SumWhole == ASSUME NEW a \in Nat, NEW b \in Nat, Whole(a), Whole(b) PROVE Whole(a + b)
BY SumAligned DEF Whole

LEMMA CutWhole ==
  ASSUME TypeInv, Aligned, NEW t, NEW lo \in Nat, NEW hi \in Nat, NEW told, Cutting(t, lo, hi, told), Whole(lo), Whole(hi)
  PROVE  \A p \in DOMAIN blocks' : Whole(p) /\ Whole(blocks'[p].hi)
<1> SUFFICES ASSUME NEW p \in DOMAIN blocks' PROVE Whole(p) /\ Whole(blocks'[p].hi)
  OBVIOUS
<1>1. CASE p \in DOMAIN blocks /\ blocks'[p] = blocks[p]
  BY <1>1 DEF Aligned
<1>2. CASE p \in DOMAIN blocks /\ IsFront(blocks'[p], p, lo)
  BY <1>2 DEF Aligned, IsFront
<1>3. CASE p = hi /\ \E r \in DOMAIN blocks : IsRest(blocks'[p], r, hi)
  BY <1>3 DEF Aligned, IsRest
<1> QED BY <1>1, <1>2, <1>3 DEF Cutting, IsCut

LEMMA LoweredWhole ==
  ASSUME TypeInv, Aligned, NEW low \in Nat, Lowered(low), Whole(low)
  PROVE  Whole(brk') /\ \A p \in DOMAIN blocks' : Whole(p) /\ Whole(blocks'[p].hi)
<1>2. IsCut(blocks', low, brk) /\ brk' = low
  BY LoweredPieces DEF Lowered
<1>3. ASSUME NEW p \in DOMAIN blocks' PROVE Whole(p) /\ Whole(blocks'[p].hi)
  <2>1. CASE p \in DOMAIN blocks /\ blocks'[p] = blocks[p]
    BY <2>1 DEF Aligned
  <2>2. CASE p \in DOMAIN blocks /\ IsFront(blocks'[p], p, low)
    BY <2>2 DEF Aligned, IsFront
  <2>3. CASE p = brk /\ \E r \in DOMAIN blocks : IsRest(blocks'[p], r, brk)
    BY <2>3 DEF Aligned, IsRest
  <2> QED BY <1>2, <2>1, <2>2, <2>3 DEF IsCut
<1> QED BY <1>2, <1>3

LEMMA AlignedStep ==
  ASSUME IncrementsAligned, TypeInv, CallsInv, Aligned, NEW t \in Threads, Does(t)
  PROVE  Aligned'
<1>a. CallOK(t) /\ Others(t)
  BY OthersKept DEF CallsInv
<1>b. \A u \in Threads : u # t => (Leaves(u) /\ th[u].kind = "mmap" => Whole(th[u].p) /\ Whole(th[u].len))'
  BY <1>a DEF Others, Aligned, Leaves
<1>c. brk \in Nat /\ Whole(brk) /\ \A n \in Increments : n \in Nat /\ Whole(n)
  BY Numbers, BoundsAssumption DEF IncrementsAligned, Whole, Aligned
<1>d. ASSUME NEW low \in Nat, NEW n \in Increments, low = brk - n PROVE Whole(low)
  BY <1>c, <1>d, DiffAligned DEF Whole
<1>0. ASSUME UNCHANGED <<blocks, brk>> PROVE Whole(brk') /\ \A p \in DOMAIN blocks' : Whole(p) /\ Whole(blocks'[p].hi)
  BY <1>0 DEF Aligned
<1>1. ASSUME Whole(brk') /\ \A p \in DOMAIN blocks' : Whole(p) /\ Whole(blocks'[p].hi),
             (Leaves(t) /\ th[t].kind = "mmap" => Whole(th[t].p) /\ Whole(th[t].len))'
      PROVE  Aligned'
  BY <1>b, <1>1 DEF Aligned
<1>2. CASE Malloc(t) \/ Sbrk(t)
  <2>1. PICK p, req, hi \in Nat, kind \in Kinds : Added(t, p, kind, req, hi)
    BY <1>2, Additions
  <2>2. ~ Leaves(t)'
    BY <2>1 DEF Added, Leaves
  <2>3. Whole(p) /\ Whole(hi) /\ Whole(brk')
    <3>1. CASE kind = "sbrk"
      <4>1. p = brk /\ hi = brk' /\ hi = p + req /\ req \in Increments
        BY <2>1, <3>1 DEF Added
      <4> QED BY <1>c, <4>1, SumWhole
    <3>2. CASE kind # "sbrk"
      BY <1>c, <2>1, <3>2 DEF Added, Whole
    <3> QED BY <3>1, <3>2
  <2>4. \A q \in DOMAIN blocks' : Whole(q) /\ Whole(blocks'[q].hi)
    BY <2>1, <2>3 DEF Added, Aligned
  <2> QED BY <1>1, <2>2, <2>3, <2>4
<1>3. CASE Brk(t)
  <2>1. UNCHANGED th
    BY <1>3, BrkMoved
  <2>2. CASE UNCHANGED blocks /\ \E n \in Increments : brk' = brk + n
    <3>1. Whole(brk')
      BY <1>c, <2>2, SumWhole
    <3> QED BY <2>1, <2>2, <3>1 DEF Aligned, Leaves
  <2>3. ASSUME NEW low \in Nat, NEW n \in Increments, Lowered(low), low = brk - n PROVE Aligned'
    <3>1. Whole(brk') /\ \A p \in DOMAIN blocks' : Whole(p) /\ Whole(blocks'[p].hi)
      BY <1>d, <2>3, LoweredWhole
    <3> QED BY <2>1, <3>1 DEF Aligned, Leaves
  <2> QED BY <1>3, <2>2, <2>3, BrkMoved
<1>4. CASE Insert(t) \/ Track(t) \/ Release(t) \/ Autofree(t) \/ Access(t) \/ CheckShadow(t) \/ EndAccess(t)
  <2>1. ~ (Leaves(t)' /\ th'[t].kind = "mmap") /\ UNCHANGED <<blocks, brk>>
    BY <1>4, Inserted, Tracked, Released, Autofreed, Accessed, Checked, AccessEnded DEF Leaves, Begins
  <2> QED BY <1>0, <1>1, <2>1
<1>5. CASE Munmap(t)
  <2>1. PICK lo, hi, len \in Nat : /\ lo < hi /\ len = hi - lo /\ lo % Granule = 0 /\ hi % Granule = 0
                                   /\ Begins(t, "remove", lo, "mmap", len)
    BY <1>5, Unmapped
  <2>2. Whole(lo) /\ Whole(len)
    BY <2>1, DiffAligned DEF Whole
  <2> QED BY <1>0, <1>1, <2>1, <2>2 DEF Begins
<1>6. CASE Shrink(t)
  <2>1. PICK low \in Nat, n \in Increments : Lowered(low) /\ low = brk - n /\ th'[t].kind = "sbrk"
    BY <1>6, Shrunk
  <2>2. Whole(brk') /\ \A p \in DOMAIN blocks' : Whole(p) /\ Whole(blocks'[p].hi)
    BY <1>d, <2>1, LoweredWhole
  <2> QED BY <1>1, <2>1, <2>2
<1>7. CASE Remove(t)
  <2>1. /\ th[t].pc = "remove" /\ th'[t].p = th[t].p /\ th'[t].kind = th[t].kind /\ th'[t].len = th[t].len
        /\ UNCHANGED <<blocks, brk>>
    BY <1>7, Removed DEF At
  <2> QED BY <1>0, <1>1, <2>1 DEF Aligned, Leaves
<1>8. CASE Autoremove(t)
  <2>1. /\ th[t].pc = "autoremove" /\ UNCHANGED <<blocks, brk>>
        /\ \/ Recorded(th[t].p) /\ th'[t].p = th[t].p /\ th'[t].kind = th[t].kind /\ th'[t].len = RoundUp(table[th[t].p].size)
           \/ th'[t].pc = "idle"
    BY <1>8, Autoremoved DEF At
  <2>2. Mine(t)
    BY <1>a, <2>1 DEF CallOK
  <2>3. Recorded(th[t].p) => Whole(RoundUp(table[th[t].p].size))
    BY RoundUpNat DEF Recorded, Whole, TypeInv, TableTyped
  <2> QED BY <1>0, <1>1, <2>1, <2>2, <2>3 DEF Mine, Aligned, Leaves
<1>9. CASE AutofreeTop(t)
  <2>1. th'[t].kind # "mmap" /\ UNCHANGED brk
    BY <1>9, TopAsked DEF Same
  <2>2. CASE UNCHANGED blocks
    BY <1>0, <1>1, <2>1, <2>2
  <2>3. CASE blocks' = Spoil(th[t].p)
    <3>1. \A p \in DOMAIN blocks' : Whole(p) /\ Whole(blocks'[p].hi)
      BY <2>3, Spoilt DEF Aligned
    <3> QED BY <1>c, <1>1, <2>1, <3>1
  <2> QED BY <1>9, <2>2, <2>3, TopAsked
<1>10. CASE AutofreeGive(t)
  <2>1. At(t, "give") /\ th[t].kind = "sbrk" /\ Same(t)
    BY <1>10, Given
  <2>2. th[t].p \in DOMAIN blocks /\ th[t].p + th[t].size = brk
    BY <1>a, <2>1 DEF CallOK, Mine, At
  <2>3. CASE UNCHANGED <<blocks, brk>>
    BY <1>0, <1>1, <2>1, <2>3 DEF Same
  <2>4. ASSUME NEW low \in Nat, low = brk - th[t].size, Lowered(low) PROVE Aligned'
    <3>1. low = th[t].p
      BY <2>2, <2>4, CallOf, Numbers
    <3>2. Whole(low)
      BY <2>2, <3>1 DEF Aligned
    <3>3. Whole(brk') /\ \A p \in DOMAIN blocks' : Whole(p) /\ Whole(blocks'[p].hi)
      BY <2>4, <3>2, LoweredWhole
    <3> QED BY <1>1, <2>1, <3>3 DEF Same
  <2> QED BY <1>10, <2>3, <2>4, Given
<1>11. CASE Poison(t)
  <2>1. th[t].pc = "poison" /\ Same(t) /\ UNCHANGED <<blocks, brk>>
    BY <1>11, PoisonedIs DEF At
  <2> QED BY <1>0, <1>1, <2>1 DEF Same, Aligned, Leaves
<1>12. CASE SystemRelease(t)
  <2>0. th[t].pc = "release" /\ th'[t].kind # "mmap" /\ UNCHANGED brk
    BY <1>12, Ended DEF At
  <2>1. CASE UNCHANGED blocks
    BY <1>0, <1>1, <2>0, <2>1
  <2>2. CASE blocks' = Without(blocks, th[t].p) \/ blocks' = Spoil(th[t].p)
    <3>1. \A p \in DOMAIN blocks' : Whole(p) /\ Whole(blocks'[p].hi)
      BY <2>2, Gone, Spoilt DEF Aligned
    <3> QED BY <1>c, <1>1, <2>0, <3>1
  <2>3. ASSUME NEW hi \in Nat, th[t].kind = "mmap", hi = th[t].p + th[t].len, blocks' = Cut(th[t].p, hi),
               lost' = lost \cup Untold(th[t].p, hi, Told(th[t].p))
        PROVE  Aligned'
    <3>1. Whole(th[t].p) /\ Whole(th[t].len) /\ th[t].p \in Nat /\ th[t].len \in Nat
      BY <2>0, <2>3, CallOf DEF Aligned, Leaves
    <3>2. Whole(hi)
      BY <2>3, <3>1, SumWhole
    <3>3. Cutting(t, th[t].p, hi, Told(th[t].p))
      BY <1>a, <2>0, <2>3, CutsMappings
    <3>4. \A p \in DOMAIN blocks' : Whole(p) /\ Whole(blocks'[p].hi)
      BY <3>1, <3>2, <3>3, CutWhole
    <3> QED BY <1>c, <1>1, <2>0, <3>4
  <2> QED BY <1>12, <2>1, <2>2, <2>3, Ended
<1> QED BY <1>2, <1>3, <1>4, <1>5, <1>6, <1>7, <1>8, <1>9, <1>10, <1>11, <1>12 DEF Does

LEMMA AlignedSame == Aligned /\ UNCHANGED vars => Aligned'
BY DEF Aligned, vars, Leaves, Whole

LEMMA InitAligned == Init => Aligned
BY BoundsAssumption, IdleCall DEF Init, Aligned, Leaves, Whole

(***************************************************************************)
(* What the shadow lets pass                                               *)
(***************************************************************************)

\* What may be accessible: Covered, for a byte.
Backed(a) ==
  \/ \E p \in DOMAIN blocks : a \in Requested(p)
  \/ a \in lost
  \/ \E u \in Threads : a \in Leaving(u)
\* What is given back by a call is inaccessible before the system has it.
Quiet(t) ==
  At(t, "release") /\ th[t].p \in DOMAIN blocks /\ blocks[th[t].p].part # "rest" =>
    \A a \in Requested(th[t].p) : ~ Accessible(shadow, a)
\* The invariant of ReportsInvalid: nothing else is accessible.
SoundInv ==
  /\ ~ On("SHADOW") => shadow = EmptyShadow
  /\ \A a \in Nat : Accessible(shadow, a) => Backed(a)
  /\ \A t \in Threads : Quiet(t)

\* What a call takes is gone, lost, or told to the runtime.
LEMMA BytesAfterCut ==
  ASSUME TypeInv, CallsInv, NEW t, NEW lo \in Nat, NEW hi \in Nat, NEW told, Cutting(t, lo, hi, told),
         NEW a \in Nat, NEW q \in DOMAIN blocks, a \in Requested(q)
  PROVE  (q \in DOMAIN blocks' /\ a \in Requested(q)') \/ a \in lost' \/ a \in told
<1>1. CASE Stays(q, lo, hi)
  <2>1. q \in DOMAIN blocks' /\ blocks'[q] = blocks[q]
    BY <1>1 DEF Cutting, IsCut
  <2> QED BY <2>1 DEF Requested
<1>2. CASE ~ Stays(q, lo, hi)
  <2>1. q \in Nat /\ blocks[q].hi \in Nat /\ blocks[q].req \in Nat /\ q + blocks[q].req <= blocks[q].hi
        /\ blocks[q].hi <= MemSize /\ q < hi /\ lo < blocks[q].hi /\ MemSize \in Nat
    BY <1>2, BlockInside, Numbers DEF Stays
  <2>2. CASE lo <= a
    <3>1. a \in lo..MemSize - 1
      BY <2>1, <2>2 DEF Requested
    <3>2. a \in Untold(lo, hi, told) \/ a \in told
      BY <2>1, <3>1 DEF Untold
    <3> QED BY <3>2 DEF Cutting
  <2>3. CASE ~ (lo <= a)
    <3>1. q <= a /\ a < q + blocks[q].req /\ q < lo /\ a < lo
      BY <2>1, <2>3 DEF Requested
    <3>2. q \in DOMAIN blocks' /\ IsFront(blocks'[q], q, lo)
      BY <2>1, <3>1 DEF Cutting, IsCut
    <3>3. a \in q..q + blocks'[q].req - 1
      <4>1. blocks'[q].req = IF blocks[q].req < lo - q THEN blocks[q].req ELSE lo - q
        BY <3>2 DEF IsFront
      <4> QED BY <2>1, <3>1, <4>1
    <3> QED BY <3>2, <3>3 DEF Requested
  <2> QED BY <2>2, <2>3
<1> QED BY <1>1, <1>2

\* A thread that is not in a use of the break is about another address.
LEMMA NotTheBreak ==
  ASSUME TypeInv, NEW u \in Threads, CallOK(u), ~ UsesBreak(u), th[u].pc \in {"insert", "remove", "autoremove", "poison", "release"}
  PROVE  th[u].p # brk
<1>0. th[u].kind # "sbrk"
  BY DEF UsesBreak, At
<1>1. CASE Mine(u)
  BY <1>1, AtBreak DEF Mine
<1>2. CASE ~ Mine(u)
  <2>1. th[u].kind = "mmap" /\ InMappings(u)
    BY <1>0, <1>2, CallOf DEF CallOK, Leaves, Kinds
  <2>2. th[u].p \in th[u].p..th[u].p + th[u].len - 1
    BY <2>1, CallOf DEF InMappings
  <2>3. PICK q \in DOMAIN blocks : th[u].p < blocks[q].hi
    BY <2>1, <2>2 DEF InMappings
  <2> QED BY <2>3, BlockInside, Numbers, CallOf
<1> QED BY <1>1, <1>2

\* What a call of sbrk gives back stays so while others go on.
LEMMA LeavingKept ==
  ASSUME TypeInv, CallsInv, NEW t \in Threads, Does(t), NEW u \in Threads, u # t
  PROVE  Leaving(u)' = Leaving(u)
<1>1. th'[u] = th[u] /\ CallOK(u) /\ CallOK(t)
  BY OthersKept DEF Others, CallsInv
<1>2. CASE th[u].kind # "sbrk"
  BY <1>1, <1>2 DEF Leaving
<1>3. CASE th[u].kind = "sbrk" /\ th[u].pc # "remove"
  BY <1>1, <1>3 DEF Leaving, At
<1>4. CASE th[u].kind = "sbrk" /\ th[u].pc = "remove"
  <2>1. th[u].p = brk /\ UsesBreak(u)
    BY <1>1, <1>4 DEF CallOK, Leaves, UsesBreak, At
  <2>2. ~ UsesBreak(t)
    BY <2>1 DEF CallsInv, Exclusive
  <2>3. ~ ((Records(t) \/ Unrecords(t)) /\ th[t].p = brk)
    <3>1. ASSUME Records(t) \/ Unrecords(t) PROVE th[t].pc \in {"insert", "remove", "autoremove"}
      BY <3>1, Removed, Autoremoved DEF Records, Unrecords, At
    <3> QED BY <1>1, <2>2, <3>1, NotTheBreak
  <2>4. PICK p : p = th[u].p /\ p = brk /\ p = th'[u].p
    BY <1>1, <2>1
  <2>5. (p \in DOMAIN table <=> p \in DOMAIN table') /\ (p \in DOMAIN table => table'[p] = table[p])
    BY <2>3, <2>4, TableSteps DEF Records, Unrecords, Marked
  <2>6. (Recorded(p) <=> Recorded(p)') /\ (Recorded(p) => table'[p] = table[p])
    BY <2>5 DEF Recorded
  <2> QED BY <1>1, <1>4, <2>4, <2>6 DEF Leaving, At
<1> QED BY <1>2, <1>3, <1>4

\* A byte that is backed stays so, unless its block is released.
LEMMA BackedKept ==
  ASSUME TypeInv, CallsInv, NEW t \in Threads, Does(t), NEW a \in Nat, Backed(a),
         \A q \in DOMAIN blocks : a \in Requested(q) =>
            (q \in DOMAIN blocks' /\ a \in Requested(q)') \/ a \in lost' \/ a \in Leaving(t)',
         a \in Leaving(t) => a \in Leaving(t)'
  PROVE  Backed(a)'
<1>1. CASE \E p \in DOMAIN blocks : a \in Requested(p)
  BY <1>1 DEF Backed
<1>2. CASE a \in lost
  BY <1>2, LostGrows DEF Backed
<1>3. CASE \E u \in Threads : a \in Leaving(u)
  <2>1. PICK u \in Threads : a \in Leaving(u)
    BY <1>3
  <2>2. a \in Leaving(u)'
    BY <2>1, LeavingKept
  <2> QED BY <2>2 DEF Backed
<1> QED BY <1>1, <1>2, <1>3 DEF Backed

LEMMA TrackedAt ==
  ASSUME TypeInv, CallsInv, Aligned, NEW t \in Threads, Track(t), On("SHADOW")
  PROVE  \E p \in DOMAIN blocks :
           /\ p = th[t].p /\ blocks[p].owner = t /\ blocks[p].part = "whole" /\ Whole(p) /\ Whole(blocks[p].hi)
           /\ p + SizeOf(p) <= blocks[p].hi /\ blocks[p].req <= SizeOf(p) /\ SizeOf(p) \in Nat
           /\ shadow' \in Written(shadow, TrackBytes(p, blocks[p].req, SizeOf(p)))
<1>1. At(t, "track") /\ shadow' \in Written(shadow, TrackBytes(th[t].p, th[t].len, th[t].size))
  BY Tracked
<1>2. Mine(t) /\ blocks[th[t].p].part = "whole" /\ th[t].len = blocks[th[t].p].req /\ th[t].size = SizeOf(th[t].p)
  BY <1>1 DEF CallsInv, CallOK, At
<1>3. PICK p \in DOMAIN blocks : p = th[t].p
  BY <1>2 DEF Mine
<1>4. p + SizeOf(p) <= blocks[p].hi /\ blocks[p].req <= SizeOf(p) /\ SizeOf(p) \in Nat
  BY BlockInside DEF SizeOf
<1> QED BY <1>1, <1>2, <1>3, <1>4 DEF Mine, Aligned

\* What tracking makes accessible, and leaves so.
LEMMA TrackShadow ==
  ASSUME TypeInv, CallsInv, Aligned, NEW t \in Threads, Track(t), On("SHADOW")
  PROVE  \E p \in DOMAIN blocks :
           /\ p = th[t].p /\ blocks[p].owner = t /\ blocks[p].part = "whole"
           /\ \A a \in Nat : Accessible(shadow', a) => Accessible(shadow, a) \/ a \in Requested(p)
           /\ \A a \in Nat : (a < p \/ blocks[p].hi <= a) /\ Accessible(shadow, a) => Accessible(shadow', a)
           /\ PagesOf(DOMAIN shadow') \subseteq PagesOf(DOMAIN shadow) \cup PagesOf(0..Index(blocks[p].hi))
           /\ Cardinality(PagesOf(DOMAIN shadow) \cup PagesOf(0..Index(blocks[p].hi))) <= MaxPages
              /\ IsFiniteSet(PagesOf(DOMAIN shadow) \cup PagesOf(0..Index(blocks[p].hi))) =>
                \A a \in Requested(p) : Accessible(shadow', a)
<1>1. PICK p \in DOMAIN blocks :
           /\ p = th[t].p /\ blocks[p].owner = t /\ blocks[p].part = "whole" /\ Whole(p) /\ Whole(blocks[p].hi)
           /\ p + SizeOf(p) <= blocks[p].hi /\ blocks[p].req <= SizeOf(p) /\ SizeOf(p) \in Nat
           /\ shadow' \in Written(shadow, TrackBytes(p, blocks[p].req, SizeOf(p)))
  BY TrackedAt
<1>2. PICK hi \in Nat, req \in Nat, real \in Nat, new \in {shadow'} :
          new = shadow' /\ hi = blocks[p].hi /\ req = blocks[p].req /\ real = SizeOf(p)
  BY <1>1, BlockInside
<1>3. /\ ShadowTyped(shadow) /\ p \in Nat /\ p % Granule = 0 /\ req \in Nat /\ real \in Nat /\ req <= real
      /\ new \in Written(shadow, TrackBytes(p, req, real)) /\ hi \in Nat /\ hi % Granule = 0 /\ p + real <= hi
  BY <1>1, <1>2, BlockInside DEF TypeInv, Whole
<1>4. /\ PagesOf(DOMAIN new) \subseteq PagesOf(DOMAIN shadow) \cup PagesOf(0..Index(hi))
      /\ \A a \in Nat : Accessible(new, a) => Accessible(shadow, a) \/ (p <= a /\ a < p + req)
      /\ \A a \in Nat : (a < p \/ hi <= a) /\ Accessible(shadow, a) => Accessible(new, a)
      /\ Cardinality(PagesOf(DOMAIN shadow) \cup PagesOf(0..Index(hi))) <= MaxPages
         /\ IsFiniteSet(PagesOf(DOMAIN shadow) \cup PagesOf(0..Index(hi))) =>
           \A a \in Nat : p <= a /\ a < p + req => Accessible(new, a)
  <2>1. ShadowTyped(shadow) /\ p \in Nat /\ p % Granule = 0 /\ req <= real /\ hi % Granule = 0 /\ p + real <= hi
    BY <1>3
  <2>2. PICK sh \in Written(shadow, TrackBytes(p, req, real)) : sh = new
    BY <1>3
  <2>3. PagesOf(DOMAIN sh) \subseteq PagesOf(DOMAIN shadow) \cup PagesOf(0..Index(hi))
    BY <2>1, TrackAccess, ZenonT(30)
  <2>4. \A a \in Nat : Accessible(sh, a) => Accessible(shadow, a) \/ (p <= a /\ a < p + req)
    BY <2>1, TrackAccess, ZenonT(60)
  <2>5. \A a \in Nat : (a < p \/ hi <= a) /\ Accessible(shadow, a) => Accessible(sh, a)
    BY <2>1, TrackAccess, ZenonT(60)
  <2>6. Cardinality(PagesOf(DOMAIN shadow) \cup PagesOf(0..Index(hi))) <= MaxPages
        /\ IsFiniteSet(PagesOf(DOMAIN shadow) \cup PagesOf(0..Index(hi))) =>
          \A a \in Nat : p <= a /\ a < p + req => Accessible(sh, a)
    BY <2>1, TrackAccess, ZenonT(90)
  <2> QED BY <2>2, <2>3, <2>4, <2>5, <2>6
<1>5. \A a \in Nat : p <= a /\ a < p + req <=> a \in Requested(p)
  BY <1>2, <1>3 DEF Requested
<1>6. Requested(p) \subseteq Nat
  BY <1>2, <1>3 DEF Requested
<1> QED BY <1>1, <1>2, <1>4, <1>5, <1>6

\* What poisoning makes inaccessible, and leaves accessible.
LEMMA PoisonShadow ==
  ASSUME TypeInv, NEW t \in Threads, Poison(t), On("SHADOW")
  PROVE  /\ PagesOf(DOMAIN shadow') \subseteq PagesOf(DOMAIN shadow) \cup PagesOf(0..Index(th[t].p + th[t].size))
         /\ \A a \in Nat : Accessible(shadow', a) => Accessible(shadow, a) /\ ~ (th[t].p <= a /\ a < th[t].p + th[t].size)
         /\ Whole(th[t].p) => \A a \in Nat : Accessible(shadow, a) /\ ~ Accessible(shadow', a) =>
              th[t].p <= Index(a) * Granule /\ Index(a) * Granule < th[t].p + th[t].size
<1>1. PICK p \in Nat, size \in Nat, new \in {shadow'} : p = th[t].p /\ size = th[t].size /\ new = shadow'
  BY CallOf
<1>2. new \in Written(shadow, PoisonBytes(p, size)) /\ ShadowTyped(shadow)
  BY <1>1, PoisonedIs DEF TypeInv
<1>3. /\ PagesOf(DOMAIN new) \subseteq PagesOf(DOMAIN shadow) \cup PagesOf(0..Index(p + size))
      /\ \A a \in Nat : Accessible(new, a) => Accessible(shadow, a) /\ ~ (p <= a /\ a < p + size)
      /\ p % Granule = 0 => \A a \in Nat : Accessible(shadow, a) /\ ~ Accessible(new, a) =>
                              p <= Index(a) * Granule /\ Index(a) * Granule < p + size
  BY <1>2, PoisonAccess
<1> QED BY <1>1, <1>3 DEF Whole

LEMMA ShadowSteps ==
  ASSUME TypeInv, NEW t \in Threads, Does(t)
  PROVE  UNCHANGED features /\ (UNCHANGED shadow \/ (On("SHADOW") /\ (Track(t) \/ Poison(t))))
<1>1. CASE Malloc(t) \/ Sbrk(t) \/ Brk(t) \/ Insert(t) \/ Release(t) \/ Munmap(t) \/ Autofree(t)
  BY <1>1 DEF Malloc, Sbrk, Brk, Insert, Release, Munmap, Autofree
<1>2. CASE Shrink(t) \/ Remove(t) \/ Autoremove(t) \/ AutofreeTop(t) \/ AutofreeGive(t) \/ SystemRelease(t)
  BY <1>2 DEF Shrink, Remove, Autoremove, AutofreeTop, AutofreeGive, SystemRelease
<1>3. CASE Access(t) \/ CheckShadow(t) \/ EndAccess(t)
  BY <1>3 DEF Access, CheckShadow, EndAccess
<1>4. CASE Track(t)
  BY <1>4, Tracked
<1>5. CASE Poison(t)
  BY <1>5, PoisonedIs
<1> QED BY <1>1, <1>2, <1>3, <1>4, <1>5 DEF Does

\* What a call is about to poison, until it does.
LEMMA LeavingOwn ==
  ASSUME TypeInv, NEW t \in Threads, Does(t), NEW a \in Leaving(t)
  PROVE  a \in Leaving(t)' \/ Poison(t)
<1>1. th[t].kind = "sbrk" /\ th[t].pc \in {"remove", "poison"}
  BY DEF Leaving, At
<1>2. CASE th[t].pc = "poison"
  BY <1>2, Doing
<1>3. CASE th[t].pc = "remove"
  <2>1. Remove(t) /\ Recorded(th[t].p) /\ a \in th[t].p..th[t].p + table[th[t].p].size - 1
    BY <1>1, <1>3, Doing DEF Leaving, At
  <2>2. /\ th'[t].pc = "poison" /\ th'[t].p = th[t].p /\ th'[t].kind = "sbrk" /\ th'[t].size = table[th[t].p].size
    BY <1>1, <2>1, Removed
  <2> QED BY <2>1, <2>2 DEF Leaving, At
<1> QED BY <1>1, <1>2, <1>3

\* An accessible byte of a block is still one, or is lost, or about to be poisoned.
LEMMA BytesKept ==
  ASSUME TypeInv, CallsInv, CallsInv', RecordsInv, SoundInv, NEW t \in Threads, Does(t),
         NEW a \in Nat, Accessible(shadow, a), NEW q \in DOMAIN blocks, a \in Requested(q)
  PROVE  (q \in DOMAIN blocks' /\ a \in Requested(q)') \/ a \in lost' \/ a \in Leaving(t)'
<1>a. CallOK(t) /\ CallOK(t)' /\ RecordOK(t) /\ Quiet(t)
  BY DEF CallsInv, RecordsInv, SoundInv
<1>0. ASSUME q \in DOMAIN blocks' /\ blocks'[q].req = blocks[q].req PROVE q \in DOMAIN blocks' /\ a \in Requested(q)'
  BY <1>0 DEF Requested
<1>b. ASSUME NEW p, a \in Told(p) PROVE p = q /\ blocks[q].part # "rest"
  <2>1. p \in DOMAIN blocks /\ blocks[p].part # "rest" /\ a \in Requested(p)
    BY <1>b DEF Told
  <2>2. p <= a /\ a < blocks[p].hi /\ q <= a /\ a < blocks[q].hi
    BY <2>1, BlockInside DEF Requested
  <2> QED BY <2>1, <2>2, Apart
<1>1. CASE Quietly(t)
  BY <1>0, <1>1, QuietKeeps
<1>2. CASE Malloc(t) \/ Sbrk(t)
  <2>1. PICK p, req, hi \in Nat, kind \in Kinds : Added(t, p, kind, req, hi)
    BY <1>2, Additions
  <2> QED BY <1>0, <2>1 DEF Added
<1>3. CASE Brk(t)
  <2>1. CASE UNCHANGED blocks
    BY <1>0, <2>1
  <2>2. ASSUME NEW low \in Nat, Lowered(low), lost' = lost \cup Untold(low, brk, {})
        PROVE  (q \in DOMAIN blocks' /\ a \in Requested(q)') \/ a \in lost'
    <3>1. Cutting(t, low, brk, {}) /\ brk \in Nat
      BY <2>2, LoweredCuts
    <3> QED BY <3>1, BytesAfterCut
  <2> QED BY <1>3, <2>1, <2>2, BrkMoved
<1>4. CASE Shrink(t)
  <2>1. PICK low \in Nat : /\ Lowered(low) /\ low < brk
                           /\ lost' = lost \cup Untold(low, brk, Told(low))
                           /\ \A x \in DOMAIN blocks : low < blocks[x].hi => blocks[x].owner = t \/ blocks[x].part = "rest"
                           /\ th'[t].pc = "remove" /\ th'[t].p = low /\ th'[t].kind = "sbrk"
                           /\ UNCHANGED table /\ At(t, "idle")
    BY <1>4, Shrunk
  <2>2. Cutting(t, low, brk, Told(low)) /\ brk \in Nat
    BY <2>1, LoweredCuts
  <2>3. ASSUME a \in Told(low) PROVE a \in Leaving(t)'
    <3>1. low = q /\ blocks[q].part # "rest"
      BY <1>b, <2>3
    <3>2. blocks[q].owner = t
      BY <2>1, <3>1, BlockInside
    <3>3. ~ Taken(q)
      BY <2>1, <3>2 DEF Taken, At
    <3>4. Recorded(q) /\ RecordOf(q)
      BY <3>1, <3>3 DEF RecordsInv, Known
    <3>5. blocks[q].kind = "sbrk"
      <4>1. q < brk /\ low < blocks[q].hi
        BY <2>1, <3>1, BlockInside
      <4>2. SbrkBase <= low
        BY <2>1 DEF Lowered
      <4> QED BY <3>1, <4>2, BlockInside, Numbers
    <3>6. blocks[q].req <= table[q].size /\ table[q].size \in Nat /\ blocks[q].req \in Nat /\ q \in Nat
      BY <3>4, <3>5, BlockInside DEF RecordOf, Recorded, TypeInv, TableTyped
    <3>7. a \in q..q + table[q].size - 1
      BY <3>6 DEF Requested
    <3>8. Recorded(q)' /\ table'[q] = table[q]
      BY <2>1, <3>4 DEF Recorded
    <3> QED BY <2>1, <3>1, <3>7, <3>8 DEF Leaving, At
  <2> QED BY <2>2, <2>3, BytesAfterCut
<1>5. CASE AutofreeTop(t)
  <2>1. CASE UNCHANGED blocks
    BY <1>0, <2>1
  <2>2. CASE blocks' = Spoil(th[t].p)
    BY <1>0, <2>2, Spoilt
  <2> QED BY <1>5, <2>1, <2>2, TopAsked
<1>6. CASE AutofreeGive(t)
  <2>0. th[t].pc = "give" /\ th[t].kind = "sbrk" /\ th'[t].pc = "poison" /\ Same(t)
    BY <1>6, Given DEF At
  <2>1. CASE UNCHANGED blocks
    BY <1>0, <2>1
  <2>2. ASSUME NEW low \in Nat, Lowered(low), lost' = lost \cup Untold(low, brk, Told(th[t].p))
        PROVE  (q \in DOMAIN blocks' /\ a \in Requested(q)') \/ a \in lost' \/ a \in Leaving(t)'
    <3>1. Cutting(t, low, brk, Told(th[t].p)) /\ brk \in Nat
      BY <2>2, LoweredCuts
    <3>2. ASSUME a \in Told(th[t].p) PROVE a \in Leaving(t)'
      <4>1. th[t].p = q /\ blocks[q].part # "rest"
        BY <1>b, <3>2
      <4>2. blocks[q].kind = "sbrk"
        BY <1>a, <2>0, <4>1 DEF CallOK, Mine
      <4>3. th[t].size >= blocks[q].req
        BY <1>a, <2>0, <4>1, <4>2 DEF RecordOK, SizeOf
      <4>4. PICK p \in Nat, size \in Nat : p = th[t].p /\ size = th[t].size /\ p = th'[t].p /\ size = th'[t].size
        BY <2>0, CallOf DEF Same
      <4>5. a \in p..p + size - 1
        BY <4>1, <4>3, <4>4, BlockInside DEF Requested
      <4> QED BY <2>0, <4>4, <4>5 DEF Leaving, At, Same
    <3> QED BY <3>1, <3>2, BytesAfterCut
  <2> QED BY <1>6, <2>1, <2>2, Given
<1>7. CASE SystemRelease(t)
  <2>0. th[t].pc = "release"
    BY <1>7, Ended DEF At
  <2>c. ASSUME th[t].p = q, blocks[q].part # "rest" PROVE FALSE
    BY <1>a, <2>0, <2>c DEF Quiet, At
  <2>1. CASE UNCHANGED blocks
    BY <1>0, <2>1
  <2>2. CASE th[t].kind = "malloc" /\ blocks' = Without(blocks, th[t].p)
    <3>1. CASE th[t].p # q
      BY <1>0, <2>2, <3>1, Gone
    <3>2. CASE th[t].p = q
      <4>1. blocks[q].kind = "malloc"
        BY <1>a, <2>0, <2>2, <3>2 DEF CallOK, Leaves, Mine
      <4>2. blocks[q].part = "whole"
        BY <4>1 DEF CallsInv, KindOK
      <4> QED BY <2>c, <3>2, <4>2
    <3> QED BY <3>1, <3>2
  <2>3. ASSUME NEW hi \in Nat, th[t].kind = "mmap", hi = th[t].p + th[t].len, blocks' = Cut(th[t].p, hi),
               lost' = lost \cup Untold(th[t].p, hi, Told(th[t].p))
        PROVE  (q \in DOMAIN blocks' /\ a \in Requested(q)') \/ a \in lost'
    <3>1. Cutting(t, th[t].p, hi, Told(th[t].p)) /\ th[t].p \in Nat
      BY <1>a, <2>0, <2>3, CutsMappings, CallOf
    <3>2. a \notin Told(th[t].p)
      BY <1>b, <2>c
    <3> QED BY <2>3, <3>1, <3>2, BytesAfterCut
  <2>4. CASE blocks' = Spoil(th[t].p)
    BY <1>0, <2>4, Spoilt
  <2> QED BY <1>7, <2>1, <2>2, <2>3, <2>4, Ended
<1> QED BY <1>1, <1>2, <1>3, <1>4, <1>5, <1>6, <1>7 DEF Does, Quietly

\* What is about to be released stays quiet.
LEMMA QuietKept ==
  ASSUME TypeInv, TypeInv', CallsInv, BreakApart, Aligned, SoundInv, NEW t \in Threads, Does(t),
         NEW u \in Threads, u # t
  PROVE  Quiet(u)'
<1>1. PICK p : p = th[u].p /\ p = th'[u].p
  BY OthersKept DEF Others
<1> SUFFICES ASSUME th[u].pc = "release", p \in DOMAIN blocks', blocks'[p].part # "rest", NEW a \in Requested(p)'
             PROVE  ~ Accessible(shadow', a)
  BY <1>1, OthersKept DEF Others, Quiet, At
<1>2. Changes(t) /\ CallOK(u) /\ \A x \in DOMAIN blocks : KindOK(x)
  BY Changing DEF CallsInv
<1>3. \A req, hi \in Nat, kind \in Kinds : ~ Added(t, p, kind, req, hi)
  BY <1>1, MadeElsewhere, CallOf
<1>4. p \in DOMAIN blocks /\ blocks[p].part # "rest" /\ blocks'[p].req <= blocks[p].req
  BY <1>2, <1>3, OldBlock
<1>5. blocks'[p].req \in Nat /\ blocks[p].req \in Nat /\ p \in Nat
  BY <1>4, BlockInside DEF TypeInv, BlocksInv, BlocksTyped, Blocks
<1>6. a \in Requested(p) /\ a \in Nat
  BY <1>4, <1>5 DEF Requested
<1>7. ~ Accessible(shadow, a)
  BY <1>1, <1>4, <1>6 DEF SoundInv, Quiet, At
<1>8. blocks[p].owner = u
  BY <1>1, <1>2, <1>4, Releasing
<1>9. CASE UNCHANGED shadow
  BY <1>7, <1>9
<1>10. CASE On("SHADOW") /\ Poison(t)
  BY <1>6, <1>7, <1>10, PoisonShadow
<1>11. CASE On("SHADOW") /\ Track(t)
  <2>1. PICK x \in DOMAIN blocks : /\ blocks[x].owner = t
                                   /\ \A b \in Nat : Accessible(shadow', b) => Accessible(shadow, b) \/ b \in Requested(x)
    BY <1>11, TrackShadow
  <2>2. a \notin Requested(x)
    <3>1. ASSUME a \in Requested(x) PROVE FALSE
      <4>1. x <= a /\ a < blocks[x].hi /\ p <= a /\ a < blocks[p].hi
        BY <1>4, <1>5, <1>6, <3>1, BlockInside DEF Requested
      <4>2. x = p
        BY <1>4, <1>6, <4>1, Apart
      <4> QED BY <1>8, <2>1, <4>2
    <3> QED BY <3>1
  <2> QED BY <1>6, <1>7, <2>1, <2>2
<1> QED BY <1>9, <1>10, <1>11, ShadowSteps

LEMMA QuietNext ==
  ASSUME TypeInv, CallsInv, RecordsInv, SoundInv, NEW t \in Threads, Does(t)
  PROVE  Quiet(t)'
<1>a. CallOK(t) /\ RecordOK(t)
  BY DEF CallsInv, RecordsInv
<1>1. CASE Remove(t)
  <2>1. CASE th'[t].pc = "poison"
    BY <2>1 DEF Quiet, At
  <2>2. CASE th'[t].pc = "release"
    <3>1. PICK p : p = th[t].p /\ p = th'[t].p
      BY <1>1, Removed
    <3>2. th[t].pc = "remove" /\ ~ Recorded(p) /\ UNCHANGED blocks
      BY <1>1, <2>2, <3>1, Removed DEF At
    <3>3. ASSUME p \in DOMAIN blocks, blocks[p].part # "rest" PROVE FALSE
      <4>1. blocks[p].owner = t
        BY <1>a, <3>1, <3>2, <3>3, Releasing
      <4>2. ~ Taken(p)
        BY <3>2, <4>1 DEF Taken
      <4> QED BY <3>2, <3>3, <4>2 DEF RecordsInv, Known
    <3> QED BY <3>1, <3>2, <3>3 DEF Quiet
  <2> QED BY <1>1, <2>1, <2>2, Removed
<1>2. CASE Poison(t)
  <2>1. PICK p \in Nat, size \in Nat : p = th[t].p /\ size = th[t].size /\ p = th'[t].p
    BY <1>2, PoisonedIs, CallOf DEF Same
  <2>2. th[t].pc = "poison" /\ UNCHANGED blocks
    BY <1>2, PoisonedIs DEF At
  <2>3. ASSUME p \in DOMAIN blocks, blocks[p].part # "rest", NEW a \in Requested(p) PROVE ~ Accessible(shadow', a)
    <3>1. size >= SizeOf(p)
      BY <1>a, <2>1, <2>2, <2>3 DEF RecordOK
    <3>2. a \in Nat /\ p <= a /\ a < p + size
      BY <2>1, <2>3, <3>1, BlockInside DEF SizeOf, Requested
    <3>3. CASE On("SHADOW")
      BY <1>2, <2>1, <3>2, <3>3, PoisonShadow
    <3>4. CASE ~ On("SHADOW")
      BY <1>2, <3>4, PoisonedIs, NothingAccessible DEF SoundInv
    <3> QED BY <3>3, <3>4
  <2>4. Requested(p)' = Requested(p)
    BY <2>2 DEF Requested
  <2> QED BY <2>1, <2>2, <2>3, <2>4 DEF Quiet
<1>3. CASE ~ Remove(t) /\ ~ Poison(t)
  <2>1. th'[t].pc # "release"
    <3>1. CASE Malloc(t) \/ Sbrk(t)
      <4>1. PICK p, req, hi \in Nat, kind \in Kinds : Added(t, p, kind, req, hi)
        BY <3>1, Additions
      <4> QED BY <4>1 DEF Added
    <3>2. CASE Release(t) \/ Munmap(t) \/ Autofree(t)
      BY <3>2, Released, Unmapped, Autofreed DEF Begins
    <3>3. CASE Brk(t)
      BY <3>3, BrkMoved DEF At
    <3>4. CASE Insert(t) \/ Track(t) \/ Shrink(t) \/ Autoremove(t) \/ AutofreeTop(t) \/ AutofreeGive(t)
      BY <3>4, Inserted, Tracked, Shrunk, Autoremoved, TopAsked, Given
    <3>5. CASE SystemRelease(t) \/ Access(t) \/ CheckShadow(t) \/ EndAccess(t)
      BY <3>5, Ended, Accessed, Checked, AccessEnded
    <3> QED BY <1>3, <3>1, <3>2, <3>3, <3>4, <3>5 DEF Does
  <2> QED BY <2>1 DEF Quiet, At
<1> QED BY <1>1, <1>2, <1>3

LEMMA SoundStep ==
  ASSUME TypeInv, TypeInv', CallsInv, CallsInv', RecordsInv, Aligned, SoundInv, BreakApart, NEW t \in Threads, Does(t)
  PROVE  SoundInv'
<1>1. (~ On("SHADOW") => shadow = EmptyShadow)'
  BY ShadowSteps DEF SoundInv, On
<1>2. ASSUME NEW a \in Nat, Accessible(shadow', a) PROVE Backed(a)'
  <2>0. CASE Accessible(shadow, a) /\ (a \in Leaving(t) => a \in Leaving(t)')
    <3>1. \A q \in DOMAIN blocks : a \in Requested(q) =>
            (q \in DOMAIN blocks' /\ a \in Requested(q)') \/ a \in lost' \/ a \in Leaving(t)'
      BY <2>0, BytesKept
    <3> QED BY <2>0, <3>1, BackedKept DEF SoundInv
  <2>1. CASE UNCHANGED shadow /\ ~ Poison(t)
    BY <1>2, <2>0, <2>1, LeavingOwn
  <2>2. CASE On("SHADOW") /\ Poison(t)
    <3>1. Accessible(shadow, a) /\ ~ (th[t].p <= a /\ a < th[t].p + th[t].size)
      BY <1>2, <2>2, PoisonShadow
    <3>2. a \notin Leaving(t)
      <4>1. At(t, "poison")
        BY <2>2, PoisonedIs
      <4> QED BY <3>1, <4>1, CallOf DEF Leaving, At
    <3> QED BY <2>0, <3>1, <3>2
  <2>3. CASE On("SHADOW") /\ Track(t)
    <3>1. PICK p \in DOMAIN blocks : Accessible(shadow, a) \/ a \in Requested(p)
      BY <1>2, <2>3, TrackShadow
    <3>2. CASE a \in Requested(p)
      <4>1. UNCHANGED blocks
        BY <2>3, Tracked
      <4> QED BY <3>2, <4>1 DEF Backed, Requested
    <3>3. CASE Accessible(shadow, a)
      <4>1. ~ Poison(t)
        BY <2>3, Tracked, PoisonedIs DEF At
      <4> QED BY <2>0, <3>3, <4>1, LeavingOwn
    <3> QED BY <3>1, <3>2, <3>3
  <2>4. CASE ~ On("SHADOW") /\ UNCHANGED shadow
    BY <1>2, <2>4, NothingAccessible DEF SoundInv
  <2> QED BY <2>1, <2>2, <2>3, <2>4, ShadowSteps
<1>3. \A u \in Threads : Quiet(u)'
  BY QuietKept, QuietNext
<1> QED BY <1>1, <1>2, <1>3 DEF SoundInv

LEMMA SoundSame == SoundInv /\ UNCHANGED vars => SoundInv'
BY DEF SoundInv, vars, On, Backed, Requested, Leaving, At, Recorded, Quiet

LEMMA InitSound == Init => SoundInv
<1> SUFFICES ASSUME Init PROVE SoundInv
  OBVIOUS
<1>1. shadow = EmptyShadow
  BY DEF Init
<1>2. \A u \in Threads : ~ At(u, "release")
  BY IdleCall DEF Init, At
<1> QED BY <1>1, <1>2, NothingAccessible DEF SoundInv, Quiet

\* What is accessible is covered.
LEMMA ShadowCovered ==
  ASSUME SoundInv, On("SHADOW"), NEW a \in Nat, Accessible(shadow, a)
  PROVE  a \in Covered
<1>1. Backed(a)
  BY DEF SoundInv
<1>2. CASE \E p \in DOMAIN blocks : a \in Requested(p)
  BY <1>2 DEF Covered
<1>3. CASE a \in lost \/ \E u \in Threads : a \in Leaving(u)
  BY <1>3 DEF Covered
<1> QED BY <1>1, <1>2, <1>3 DEF Backed

\* So is what the record in use at b bounds.
LEMMA RecordCovered ==
  ASSUME TypeInv, RecordsInv, ~ On("SHADOW"), NEW b \in DOMAIN table, Recorded(b), NEW a \in b..b + Bound(b) - 1
  PROVE  a \in Covered
<1>1. CASE Asked(b)
  <2>1. AskedIn(b, a)
    BY <1>1 DEF Asked
  <2>2. CASE a \in lost
    BY <2>2 DEF Covered
  <2>3. CASE b \in DOMAIN blocks /\ a \in Requested(b) /\ blocks[b].req # 0
    BY <2>3 DEF Covered
  <2>4. CASE b \in DOMAIN blocks /\ blocks[b].req = 0 /\ b <= a /\ a < blocks[b].hi
    <3>1. a \in b..blocks[b].hi - 1
      BY <2>4, BlockInside
    <3> QED BY <2>4, <3>1 DEF Covered
  <2>5. b \in DOMAIN blocks /\ a \in Requested(b) => blocks[b].req # 0
    BY BlockInside DEF Requested
  <2> QED BY <2>1, <2>2, <2>3, <2>4, <2>5 DEF AskedIn
<1>2. CASE LeavingAt(b)
  <2>1. PICK u \in Threads : At(u, "remove") /\ th[u].kind = "sbrk" /\ th[u].p = b
    BY <1>2 DEF LeavingAt
  <2>2. PICK size \in Nat, req \in Nat, bound \in {Bound(b)} : size = table[b].size /\ req = table[b].req /\ bound = Bound(b)
    BY DEF TypeInv, TableTyped
  <2>3. bound \in Nat /\ bound <= size /\ b \in Nat
    <3>1. b \in Addr /\ MemSize \in Nat
      BY Numbers DEF TypeInv, TableTyped
    <3>2. req <= size
      BY <2>2 DEF RecordsInv
    <3> QED BY <2>2, <3>1, <3>2 DEF Bound, Addr
  <2>4. a \in b..b + size - 1
    BY <2>2, <2>3
  <2>5. a \in Leaving(u)
    BY <2>1, <2>2, <2>4 DEF Leaving, At
  <2> QED BY <2>5 DEF Covered
<1> QED BY <1>1, <1>2 DEF RecordsInv, Explained

\* An access becomes clean by the check, with the shadow or without.
LEMMA CleanStep ==
  ASSUME TypeInv, NEW t \in Threads, NEW u \in Threads, Does(t), th[u].pc # "clean", th'[u].pc = "clean"
  PROVE  u = t /\ (Access(t) \/ CheckShadow(t))
<1>1. u = t
  BY OthersKept DEF Others
<1>2. CASE Malloc(t) \/ Sbrk(t)
  <2>1. PICK p, req, hi \in Nat, kind \in Kinds : Added(t, p, kind, req, hi)
    BY <1>2, Additions
  <2> QED BY <1>1, <2>1 DEF Added
<1>3. CASE Brk(t)
  BY <1>3, BrkMoved
<1>4. CASE Release(t) \/ Munmap(t) \/ Autofree(t)
  BY <1>1, <1>4, Released, Unmapped, Autofreed DEF Begins
<1>5. CASE Insert(t) \/ Track(t) \/ Shrink(t) \/ Remove(t) \/ AutofreeTop(t) \/ AutofreeGive(t)
  BY <1>1, <1>5, Inserted, Tracked, Shrunk, Removed, TopAsked, Given
<1>6. CASE Autoremove(t) \/ Poison(t) \/ SystemRelease(t) \/ EndAccess(t)
  BY <1>1, <1>6, Autoremoved, PoisonedIs, Ended, AccessEnded
<1> QED BY <1>1, <1>2, <1>3, <1>4, <1>5, <1>6 DEF Does

LEMMA CleanCovered ==
  ASSUME TypeInv, RecordsInv, SoundInv, NEW t \in Threads, Access(t) \/ CheckShadow(t), th'[t].pc = "clean"
  PROVE  AccessOf(t)' \subseteq Covered \/ FromAutofreed(th'[t].p)
<1>1. CASE CheckShadow(t)
  <2>1. /\ At(t, "check") /\ th'[t].ptr = th[t].ptr /\ th'[t].len = th[t].len
        /\ ~ OutOfBounds(shadow, th[t].ptr, th[t].len)
    BY <1>1, Checked DEF Same
  <2>2. PICK ptr \in Nat, len \in Nat \ {0} : ptr = th[t].ptr /\ len = th[t].len /\ On("SHADOW")
    BY <2>1, CallOf DEF CallFits, At
  <2>3. \A a \in ptr..ptr + len - 1 : Accessible(shadow, a)
    BY <2>1, <2>2, BoundsExact DEF TypeInv
  <2>4. \A a \in ptr..ptr + len - 1 : a \in Covered
    <3>1. ptr..ptr + len - 1 \subseteq Nat
      BY <2>2
    <3> QED BY <2>2, <2>3, <3>1, ShadowCovered
  <2>5. AccessOf(t)' = ptr..ptr + len - 1
    BY <2>1, <2>2 DEF AccessOf
  <2> QED BY <2>4, <2>5
<1>2. CASE Access(t)
  <2>1. ~ On("SHADOW") /\ th'[t].len \in Nat \ {0} /\ th'[t].ptr \in Nat
    BY <1>2, Accessed
  <2>2. PICK ptr \in Nat, len \in Nat \ {0} : ptr = th'[t].ptr /\ len = th'[t].len
    BY <2>1
  <2>3. PICK b \in DOMAIN table, bound \in Nat :
          /\ b = th'[t].p /\ bound = Bound(b) /\ table[b].state # "FREED" /\ InRecord(b, ptr, len, bound)
    BY <1>2, <2>1, <2>2, Accessed DEF Bound
  <2>4. CASE table[b].state = "AUTOFREED"
    BY <2>1, <2>3, <2>4 DEF FromAutofreed
  <2>5. CASE table[b].state = "USED"
    <3>1. b \in Nat
      BY Numbers DEF TypeInv, TableTyped, Addr
    <3>2. ptr..ptr + len - 1 \subseteq b..b + bound - 1
      BY <2>2, <2>3, <3>1 DEF InRecord
    <3>3. \A a \in b..b + bound - 1 : a \in Covered
      BY <2>1, <2>3, <2>5, RecordCovered DEF Recorded
    <3>4. AccessOf(t)' = ptr..ptr + len - 1
      BY <2>2 DEF AccessOf
    <3> QED BY <3>2, <3>3, <3>4
  <2> QED BY <2>3, <2>4, <2>5 DEF TypeInv, TableTyped
<1> QED BY <1>1, <1>2

\* If threads keep their uses of the break apart, and move it by whole granules, what
\* is accessible is part of a block, or was given back in a way that leaves its record.
THEOREM Soundness ==
  ASSUME BreakApart, IncrementsAligned
  PROVE  Spec => [](Inv /\ Aligned /\ SoundInv)
<1>1. Init => Inv /\ Aligned /\ SoundInv
  BY InitInv, InitAligned, InitSound
<1>2. Inv /\ Aligned /\ SoundInv /\ [Next]_vars => (Inv /\ Aligned /\ SoundInv)'
  <2> SUFFICES ASSUME Inv, Aligned, SoundInv, [Next]_vars PROVE (Inv /\ Aligned /\ SoundInv)'
    OBVIOUS
  <2>1. Inv'
    BY InvStep
  <2>2. CASE UNCHANGED vars
    BY <2>1, <2>2, AlignedSame, SoundSame
  <2>3. ASSUME NEW t \in Threads, Does(t) PROVE Aligned' /\ SoundInv'
    BY <2>1, <2>3, AlignedStep, SoundStep DEF Inv
  <2> QED BY <2>1, <2>2, <2>3 DEF Next, Does
<1> QED BY <1>1, <1>2, PTL DEF Spec

\* An access that is checked and not reported touches no byte outside of the blocks
\* that exist, but for what a call of sbrk is giving back, what was given back in a way
\* that leaves its record, and, without the shadow, from a block released
\* automatically: ReportsInvalid of every run, for any threads, memory and sizes.
THEOREM InvalidReported ==
  ASSUME BreakApart, IncrementsAligned
  PROVE  Spec => ReportsInvalid
<1>1. Inv /\ Aligned /\ SoundInv /\ [Next]_vars
        => [\A t \in Threads : ~ At(t, "clean") /\ At(t, "clean")' =>
              AccessOf(t)' \subseteq Covered \/ FromAutofreed(th'[t].p)]_vars
  <2> SUFFICES ASSUME Inv, SoundInv, NEW t \in Threads, Does(t), NEW u \in Threads, ~ At(u, "clean"), At(u, "clean")'
               PROVE  AccessOf(u)' \subseteq Covered \/ FromAutofreed(th'[u].p)
    BY DEF Next, Does
  <2>1. th[u].pc # "clean" /\ th'[u].pc = "clean"
    BY DEF At
  <2>2. u = t /\ (Access(t) \/ CheckShadow(t))
    BY <2>1, CleanStep DEF Inv
  <2> QED BY <2>1, <2>2, CleanCovered DEF Inv
<1> QED BY <1>1, Soundness, PTL DEF Spec, ReportsInvalid

(***************************************************************************)
(* What is reported                                                        *)
(***************************************************************************)

\* The table of pages has room for all of the memory.
RoomAssumed == Cardinality(PagesOf(0..Index(MemSize))) <= MaxPages

LEMMA PagesWithin ==
  ASSUME NEW n \in Nat, n <= MemSize
  PROVE  PagesOf(0..Index(n)) \subseteq PagesOf(0..Index(MemSize))
<1>1. MemSize \in Nat /\ Granule \in Nat \ {0}
  BY BoundsAssumption, GranuleAssumption
<1>2. Index(n) \in Nat /\ Index(MemSize) \in Nat
  BY <1>1, IndexNat
<1>3. Index(n) <= Index(MemSize)
  BY <1>1, QuotientGrows DEF Index
<1>4. 0..Index(n) \subseteq 0..Index(MemSize)
  BY <1>2, <1>3
<1> QED BY <1>4 DEF PagesOf

\* There is room for a write to any part of the memory.
LEMMA RoomFor ==
  ASSUME RoomAssumed, NEW P, P \subseteq PagesOf(0..Index(MemSize))
  PROVE  IsFiniteSet(P) /\ Cardinality(P) <= MaxPages
<1> DEFINE S == PagesOf(0..Index(MemSize))
<1>1. Index(MemSize) \in Nat /\ PageSize \in Nat \ {0}
  BY BoundsAssumption, PageAssumption, IndexNat
<1>2. ASSUME NEW i \in 0..Index(MemSize) PROVE Page(i) \in 0..Page(Index(MemSize))
  <2>1. PICK n \in Nat : n = Index(MemSize) /\ i \in Nat /\ i <= n
    BY <1>1
  <2>2. Page(i) <= Page(n)
    BY <1>1, <2>1, QuotientGrows DEF Page
  <2>3. Page(i) \in Nat /\ Page(n) \in Nat
    <3>1. PICK g \in Nat \ {0} : g = PageSize
      BY <1>1
    <3>2. \A a \in Nat : a \div g \in Nat
      OBVIOUS
    <3> QED BY <2>1, <3>1, <3>2 DEF Page
  <2> QED BY <2>1, <2>2, <2>3
<1>3. IsFiniteSet(S)
  <2>1. S \subseteq 0..Page(Index(MemSize))
    BY <1>2 DEF PagesOf
  <2>2. Page(Index(MemSize)) \in Int
    BY <1>1, PageOf
  <2>3. IsFiniteSet(0..Page(Index(MemSize)))
    BY <2>2, FS_Interval
  <2> HIDE DEF S
  <2> QED BY <2>1, <2>3, FS_Subset
<1>4. IsFiniteSet(P) /\ Cardinality(P) <= Cardinality(S)
  BY <1>3, FS_Subset
<1>5. Cardinality(P) \in Nat /\ Cardinality(S) \in Nat
  BY <1>3, <1>4, FS_CardinalityType
<1> QED BY <1>4, <1>5, PageAssumption DEF RoomAssumed

\* What is poisoned lies inside the memory.
Fits ==
  /\ \A q \in DOMAIN table : q + table[q].size <= MemSize
  /\ \A t \in Threads : th[t].pc \in {"top", "give", "poison"} => th[t].p + th[t].size <= MemSize
  /\ PagesOf(DOMAIN shadow) \subseteq PagesOf(0..Index(MemSize))
\* The block at p is not accessible yet, or not any more.
Busy(p) == LET o == blocks[p].owner IN th[o].p = p /\ th[o].pc \in {"insert", "track", "release"}
\* The invariant of NoFalseReport: of every other block, all that was asked for is
\* accessible, unless in a granule given back in a way that leaves its record.
Complete ==
  On("SHADOW") => \A p \in DOMAIN blocks : blocks[p].part # "rest" /\ ~ Busy(p) =>
    \A a \in Requested(p) : Accessible(shadow, a) \/ Index(a) * Granule \in lost
CompleteInv == Fits /\ Complete /\ NoFalseReport

LEMMA FitsStep ==
  ASSUME TypeInv, CallsInv, Aligned, Fits, NEW t \in Threads, Does(t)
  PROVE  Fits'
<1>0. MemSize \in Nat
  BY Numbers
<1>1. \A q \in DOMAIN table' : q + table'[q].size <= MemSize
  <2>1. ASSUME NEW q \in DOMAIN table' PROVE q + table'[q].size <= MemSize
    <3>1. CASE Records(t) /\ q = th[t].p
      <4>1. q \in DOMAIN blocks /\ table'[q].size = SizeOf(q)
        BY <3>1 DEF Records, Mine
      <4>2. q + SizeOf(q) <= MemSize
        BY <1>0, <4>1, BlockInside DEF SizeOf
      <4> QED BY <4>1, <4>2
    <3>2. CASE ~ (Records(t) /\ q = th[t].p)
      <4>1. q \in DOMAIN table /\ table'[q].size = table[q].size
        BY <3>2, TableSteps DEF Records, Unrecords, Marked
      <4> QED BY <4>1 DEF Fits
    <3> QED BY <3>1, <3>2
  <2> QED BY <2>1
<1>2. ASSUME NEW u \in Threads, th'[u].pc \in {"top", "give", "poison"} PROVE th'[u].p + th'[u].size <= MemSize
  <2>1. CASE u # t
    BY <1>2, <2>1, OthersKept DEF Others, Fits
  <2>2. CASE u = t
    <3>1. CASE Remove(t) \/ Autoremove(t)
      <4>1. PICK p : p = th'[t].p /\ p \in DOMAIN table /\ th'[t].size = table[p].size
        BY <1>2, <2>2, <3>1, Removed, Autoremoved DEF Recorded
      <4> QED BY <2>2, <4>1 DEF Fits
    <3>2. CASE AutofreeTop(t) \/ AutofreeGive(t)
      <4>1. th[t].pc \in {"top", "give"} /\ Same(t)
        BY <1>2, <2>2, <3>2, TopAsked, Given DEF At
      <4> QED BY <2>2, <4>1 DEF Same, Fits
    <3>3. CASE Malloc(t) \/ Sbrk(t)
      <4>1. PICK p, req, hi \in Nat, kind \in Kinds : Added(t, p, kind, req, hi)
        BY <3>3, Additions
      <4> QED BY <1>2, <2>2, <4>1 DEF Added
    <3>4. CASE Release(t) \/ Munmap(t) \/ Autofree(t)
      BY <1>2, <2>2, <3>4, Released, Unmapped, Autofreed DEF Begins
    <3>5. CASE Brk(t)
      BY <1>2, <2>2, <3>5, BrkMoved DEF At
    <3>6. CASE Insert(t) \/ Track(t) \/ Shrink(t) \/ Poison(t)
      BY <1>2, <2>2, <3>6, Inserted, Tracked, Shrunk, PoisonedIs
    <3>7. CASE SystemRelease(t) \/ Access(t) \/ CheckShadow(t) \/ EndAccess(t)
      BY <1>2, <2>2, <3>7, Ended, Accessed, Checked, AccessEnded
    <3> QED BY <3>1, <3>2, <3>3, <3>4, <3>5, <3>6, <3>7 DEF Does
  <2> QED BY <2>1, <2>2
<1>3. PagesOf(DOMAIN shadow') \subseteq PagesOf(0..Index(MemSize))
  <2>1. CASE UNCHANGED shadow
    BY <2>1 DEF Fits
  <2>2. CASE On("SHADOW") /\ Track(t)
    <3>1. PICK p \in DOMAIN blocks :
            PagesOf(DOMAIN shadow') \subseteq PagesOf(DOMAIN shadow) \cup PagesOf(0..Index(blocks[p].hi))
      BY <2>2, TrackShadow
    <3>2. PagesOf(0..Index(blocks[p].hi)) \subseteq PagesOf(0..Index(MemSize))
      BY BlockInside, PagesWithin
    <3> QED BY <3>1, <3>2 DEF Fits
  <2>3. CASE On("SHADOW") /\ Poison(t)
    <3>1. PICK n \in Nat : n = th[t].p + th[t].size
      BY CallOf
    <3>2. n <= MemSize
      BY <2>3, <3>1, PoisonedIs DEF Fits, At
    <3>3. PagesOf(DOMAIN shadow') \subseteq PagesOf(DOMAIN shadow) \cup PagesOf(0..Index(n))
      BY <2>3, <3>1, PoisonShadow
    <3> QED BY <3>2, <3>3, PagesWithin DEF Fits
  <2> QED BY <2>1, <2>2, <2>3, ShadowSteps
<1> QED BY <1>1, <1>2, <1>3 DEF Fits

\* The first address of the granule of an address.
LEMMA GranuleStart ==
  ASSUME NEW a \in Nat, NEW p \in Nat, Whole(p), p <= a, NEW y, y = Index(a) * Granule
  PROVE  y \in Nat /\ p <= y /\ y <= a
<1>1. Granule \in Nat \ {0}
  BY GranuleAssumption
<1>2. PICK i \in Nat : i = Index(a)
  BY IndexNat
<1>3. Index(p) <= Index(a) /\ Index(p) \in Nat
  BY <1>1, QuotientGrows, IndexNat DEF Index
<1>4. p = Index(p) * Granule
  BY MultipleOf DEF Whole
<1>5. PICK j \in Nat : j = Index(p) /\ p = j * Granule /\ j <= i
  BY <1>2, <1>3, <1>4
<1>6. PICK k \in Nat : k + j = i
  <2>1. i - j \in Nat /\ (i - j) + j = i
    BY <1>5
  <2> QED BY <2>1
<1>7. (k + j) * Granule = (k * Granule) + (j * Granule) /\ k * Granule \in Nat
  BY <1>1, <1>6, Distribute
<1>8. p <= y /\ y \in Nat
  BY <1>2, <1>5, <1>6, <1>7
<1>9. y <= a
  BY <1>2, IndexOf
<1> QED BY <1>8, <1>9

\* Poisoning touches the granules of no block but the one that is released, unless lost.
LEMMA PoisonApart ==
  ASSUME TypeInv, CallsInv, RecordsInv, Aligned, NEW t \in Threads, Poison(t), NEW p \in DOMAIN blocks,
         NEW a \in Requested(p), NEW y, y = Index(a) * Granule,
         th[t].p <= y, y < th[t].p + th[t].size
  PROVE  y \in lost \/ (blocks[p].owner = t /\ th[t].p = p)
<1>a. CallOK(t) /\ RecordOK(t) /\ th[t].pc = "poison"
  BY PoisonedIs DEF CallsInv, RecordsInv, At
<1>1. a \in Nat /\ p \in Nat /\ p <= a /\ a < blocks[p].hi /\ Whole(p) /\ blocks[p].hi <= brk
  BY BlockInside DEF Requested, Aligned
<1>2. y \in Nat /\ p <= y /\ y <= a
  BY <1>1, GranuleStart
<1>3. y < blocks[p].hi /\ blocks[p].hi \in Nat
  BY <1>1, <1>2, BlockInside
<1>4. CASE th[t].kind = "sbrk"
  <2>1. th[t].p = brk
    BY <1>a, <1>4 DEF CallOK, Leaves
  <2> QED BY <1>1, <1>2, <1>3, <2>1, Numbers
<1>5. CASE th[t].kind # "sbrk"
  <2>1. PICK x \in Nat, size \in Nat : x = th[t].p /\ size = th[t].size
    BY CallOf
  <2>2. Reach(x, size)
    BY <1>a, <1>5, <2>1 DEF RecordOK, At
  <2>3. In(x, y)
    <3>1. y \in x..x + size - 1
      BY <1>2, <2>1
    <3> QED BY <2>2, <3>1 DEF Reach
  <2>4. CASE x \in DOMAIN blocks /\ y \notin lost
    <3>1. x <= y /\ y < blocks[x].hi
      BY <2>1, <2>3, <2>4, BlockInside DEF In, Requested
    <3>2. x = p
      BY <1>2, <1>3, <2>4, <3>1, Apart
    <3>3. blocks[x].owner = t
      BY <1>a, <2>1, <2>4, Releasing
    <3> QED BY <2>1, <3>2, <3>3
  <2> QED BY <2>3, <2>4 DEF In
<1> QED BY <1>4, <1>5

LEMMA Tracking ==
  ASSUME RoomAssumed, TypeInv, CallsInv, Aligned, Fits, NEW t \in Threads, Track(t), On("SHADOW")
  PROVE  \E x \in DOMAIN blocks :
           /\ x = th[t].p /\ \A a \in Requested(x) : Accessible(shadow', a)
           /\ \A a \in Nat : (a < x \/ blocks[x].hi <= a) /\ Accessible(shadow, a) => Accessible(shadow', a)
<1>1. PICK x \in DOMAIN blocks :
         /\ x = th[t].p
         /\ \A a \in Nat : (a < x \/ blocks[x].hi <= a) /\ Accessible(shadow, a) => Accessible(shadow', a)
         /\ Cardinality(PagesOf(DOMAIN shadow) \cup PagesOf(0..Index(blocks[x].hi))) <= MaxPages
            /\ IsFiniteSet(PagesOf(DOMAIN shadow) \cup PagesOf(0..Index(blocks[x].hi))) =>
              \A a \in Requested(x) : Accessible(shadow', a)
  BY TrackShadow
<1>2. PagesOf(DOMAIN shadow) \cup PagesOf(0..Index(blocks[x].hi)) \subseteq PagesOf(0..Index(MemSize))
  BY BlockInside, PagesWithin DEF Fits
<1>3. /\ Cardinality(PagesOf(DOMAIN shadow) \cup PagesOf(0..Index(blocks[x].hi))) <= MaxPages
      /\ IsFiniteSet(PagesOf(DOMAIN shadow) \cup PagesOf(0..Index(blocks[x].hi)))
  BY <1>2, RoomFor
<1> QED BY <1>1, <1>3

LEMMA PoisonWhole ==
  ASSUME TypeInv, CallsInv, Aligned, NEW t \in Threads, Poison(t)
  PROVE  Whole(th[t].p)
<1>1. Leaves(t) /\ CallOK(t)
  BY PoisonedIs DEF Leaves, At, CallsInv
<1> QED BY <1>1, CallOf DEF CallOK, Mine, Aligned, Kinds

LEMMA CompleteStep ==
  ASSUME RoomAssumed, TypeInv, TypeInv', CallsInv, RecordsInv, Aligned, Fits, Complete, BreakApart,
         NEW t \in Threads, Does(t)
  PROVE  Complete'
<1>0. On("SHADOW")' <=> On("SHADOW")
  BY ShadowSteps DEF On
<1> SUFFICES ASSUME On("SHADOW"), NEW p \in DOMAIN blocks', blocks'[p].part # "rest", ~ Busy(p)', NEW a \in Requested(p)'
             PROVE  Accessible(shadow', a) \/ Index(a) * Granule \in lost'
  BY <1>0 DEF Complete
<1>1. Changes(t) /\ Others(t) /\ lost \subseteq lost' /\ \A x \in DOMAIN blocks : KindOK(x)
  BY Changing, OthersKept, LostGrows DEF CallsInv
<1>2. /\ p \in DOMAIN blocks /\ blocks[p].part # "rest" /\ blocks'[p].owner = blocks[p].owner
      /\ blocks'[p].req <= blocks[p].req
  <2>1. ASSUME NEW req \in Nat, NEW hi \in Nat, NEW kind \in Kinds, Added(t, p, kind, req, hi) PROVE FALSE
    BY <2>1 DEF Added, Busy
  <2> QED BY <1>1, <2>1, OldBlock
<1>3. a \in Requested(p) /\ a \in Nat
  <2>1. blocks'[p].req \in Nat /\ blocks[p].req \in Nat /\ p \in Nat
    BY <1>2, BlockInside DEF TypeInv, BlocksInv, BlocksTyped, Blocks
  <2> QED BY <1>2, <2>1 DEF Requested
<1>4. PICK o \in Threads : o = blocks[p].owner /\ o = blocks'[p].owner
  BY <1>2, BlockInside
<1>5. Busy(p) => Track(t) /\ th[t].p = p /\ o = t
  <2>1. ASSUME Busy(p) PROVE Track(t) /\ th[t].p = p /\ o = t
    <3>1. o = t /\ th[t].p = p /\ th[t].pc \in {"insert", "track", "release"}
      BY <1>1, <1>4, <2>1 DEF Busy, Others
    <3>2. CASE th[t].pc = "track"
      BY <3>1, <3>2, Doing
    <3>3. CASE th[t].pc = "insert"
      <4>1. th'[t].p = p /\ th'[t].pc = "track"
        BY <3>1, <3>3, Doing, Inserted DEF Same
      <4> QED BY <1>4, <3>1, <4>1 DEF Busy
    <3>4. CASE th[t].pc = "release"
      <4>1. Insert(t) \/ (th'[t].p = p /\ th'[t].pc \in {"insert", "top", "give", "poison", "release"})
        BY <1>2, <3>1, <3>4, StillTaken
      <4>2. th'[t].pc = "idle"
        BY <3>4, Doing, Ended
      <4> QED BY <3>4, <4>1, <4>2, Inserted DEF At
    <3> QED BY <3>1, <3>2, <3>3, <3>4
  <2> QED BY <2>1
<1>6. ~ Busy(p) => Accessible(shadow, a) \/ Index(a) * Granule \in lost
  BY <1>2, <1>3 DEF Complete
<1>7. CASE Track(t)
  <2>1. PICK x \in DOMAIN blocks :
           /\ x = th[t].p /\ \A b \in Requested(x) : Accessible(shadow', b)
           /\ \A b \in Nat : (b < x \/ blocks[x].hi <= b) /\ Accessible(shadow, b) => Accessible(shadow', b)
    BY <1>7, Tracking
  <2>2. CASE p = x
    BY <1>3, <2>1, <2>2
  <2>3. CASE p # x
    <3>1. a < x \/ blocks[x].hi <= a
      <4>1. ASSUME x <= a, a < blocks[x].hi PROVE FALSE
        <5>1. p <= a /\ a < blocks[p].hi
          BY <1>2, <1>3, BlockInside DEF Requested
        <5> QED BY <1>2, <1>3, <2>3, <4>1, <5>1, Apart
      <4> QED BY <1>3, <4>1, BlockInside
    <3> QED BY <1>1, <1>3, <1>5, <1>6, <2>1, <2>3, <3>1
  <2> QED BY <2>2, <2>3
<1>8. CASE Poison(t)
  <2>1. ~ Busy(p) /\ th[t].pc = "poison"
    BY <1>5, <1>8, PoisonedIs, Tracked DEF At
  <2>2. ASSUME Accessible(shadow, a), ~ Accessible(shadow', a) PROVE Index(a) * Granule \in lost
    <3>1. th[t].p <= Index(a) * Granule /\ Index(a) * Granule < th[t].p + th[t].size
      BY <1>3, <1>8, <2>2, PoisonWhole, PoisonShadow
    <3>2. Index(a) * Granule \in lost \/ (blocks[p].owner = t /\ th[t].p = p)
      BY <1>2, <1>3, <1>8, <3>1, PoisonApart
    <3>3. th'[t].p = th[t].p /\ th'[t].pc = "release"
      BY <1>8, PoisonedIs DEF Same
    <3> QED BY <1>4, <3>2, <3>3 DEF Busy
  <2> QED BY <1>1, <1>6, <2>1, <2>2
<1>9. CASE UNCHANGED shadow /\ ~ Track(t)
  BY <1>1, <1>5, <1>6, <1>9
<1> QED BY <1>7, <1>8, <1>9, ShadowSteps

LEMMA InsideRecord ==
  ASSUME TypeInv, CallsInv, RecordsInv, NEW t \in Threads, Access(t), ~ On("SHADOW"), th'[t].pc = "report",
         NEW p \in DOMAIN blocks, blocks[p].owner = t, blocks[p].part # "rest", th'[t].p = p,
         AccessOf(t)' \subseteq Requested(p)
  PROVE  FALSE
<1>1. th[t].pc = "idle" /\ th'[t].len \in Nat \ {0} /\ th'[t].ptr \in Nat
  BY Accessed DEF At
<1>2. PICK ptr \in Nat, len \in Nat \ {0} : ptr = th'[t].ptr /\ len = th'[t].len
  BY <1>1
<1>3. PICK b \in DOMAIN table, bound \in Nat :
        /\ b = th'[t].p /\ bound = IF table[b].req # 0 THEN table[b].req ELSE table[b].size
        /\ table[b].state = "FREED" \/ ~ InRecord(b, ptr, len, bound)
  BY <1>2, Accessed
<1>4. ~ Taken(p)
  BY <1>1 DEF Taken
<1>5. Recorded(p) /\ RecordOf(p) /\ p \in Nat /\ blocks[p].req \in Nat
  BY <1>4, BlockInside DEF RecordsInv, Known
<1>6. PICK req \in Nat : req = blocks[p].req
  BY <1>5
<1>7. ptr..ptr + len - 1 \subseteq p..p + req - 1
  BY <1>2, <1>6 DEF AccessOf, Requested
<1>8. p <= ptr /\ ptr + len <= p + req
  <2>1. ptr \in ptr..ptr + len - 1 /\ (ptr + len) - 1 \in ptr..ptr + len - 1
    BY <1>2
  <2>2. ptr \in p..p + req - 1 /\ (ptr + len) - 1 \in p..p + req - 1
    BY <1>7, <2>1
  <2> QED BY <1>2, <1>5, <1>6, <2>2
<1>9. table[p].req >= req /\ table[p].req # 0
  <2>1. req > 0
    BY <1>2, <1>5, <1>6, <1>8
  <2>2. table[p].req \in Nat /\ table[p].size \in Nat
    BY <1>5 DEF Recorded, TypeInv, TableTyped
  <2> QED BY <1>5, <1>6, <2>1, <2>2 DEF RecordOf
<1>10. bound >= req
  BY <1>3, <1>9
<1>11. InRecord(p, ptr, len, bound)
  BY <1>2, <1>3, <1>5, <1>6, <1>8, <1>10 DEF InRecord
<1> QED BY <1>3, <1>5, <1>11 DEF Recorded

\* A report is about no block of its thread, and stays so.
LEMMA ReportStep ==
  ASSUME TypeInv, TypeInv', CallsInv, RecordsInv, Complete, NoFalseReport, BreakApart, NEW u \in Threads, Does(u)
  PROVE  NoFalseReport'
<1>0. (On("SHADOW")' <=> On("SHADOW")) /\ lost \subseteq lost'
  BY ShadowSteps, LostGrows DEF On
<1> SUFFICES ASSUME NEW t \in Threads, th'[t].pc = "report", NEW p \in DOMAIN blocks', blocks'[p].owner = t,
                    blocks'[p].part # "rest",
                    IF On("SHADOW") THEN \A a \in AccessOf(t)' : Index(a) * Granule \notin lost' ELSE th'[t].p = p,
                    AccessOf(t)' \subseteq Requested(p)'
             PROVE  FALSE
  BY <1>0 DEF NoFalseReport, At
<1>1. Changes(u) /\ Others(u) /\ \A x \in DOMAIN blocks : KindOK(x)
  BY Changing, OthersKept DEF CallsInv
<1>2. /\ p \in DOMAIN blocks /\ blocks[p].part # "rest" /\ blocks[p].owner = t /\ blocks'[p].req <= blocks[p].req
  <2>1. ASSUME NEW req \in Nat, NEW hi \in Nat, NEW kind \in Kinds, Added(u, p, kind, req, hi) PROVE FALSE
    BY <2>1 DEF Added
  <2> QED BY <1>1, <2>1, OldBlock
<1>3. AccessOf(t)' \subseteq Requested(p)
  <2>1. blocks'[p].req \in Nat /\ blocks[p].req \in Nat /\ p \in Nat
    BY <1>2, BlockInside DEF TypeInv, BlocksInv, BlocksTyped, Blocks
  <2>2. Requested(p)' \subseteq Requested(p)
    BY <1>2, <2>1 DEF Requested
  <2> QED BY <2>2
<1>4. CASE th'[t] = th[t]
  BY <1>0, <1>2, <1>3, <1>4 DEF NoFalseReport, At, AccessOf
<1>5. CASE t = u /\ CheckShadow(t)
  <2>1. /\ th[t].pc = "check" /\ th'[t].ptr = th[t].ptr /\ th'[t].len = th[t].len
        /\ OutOfBounds(shadow, th[t].ptr, th[t].len)
    BY <1>5, Checked DEF Same, At
  <2>2. PICK ptr \in Nat, len \in Nat \ {0} : ptr = th[t].ptr /\ len = th[t].len /\ On("SHADOW")
    BY <2>1, CallOf DEF CallFits
  <2>3. PICK a \in ptr..ptr + len - 1 : ~ Accessible(shadow, a)
    BY <2>1, <2>2, BoundsExact DEF TypeInv
  <2>4. a \in AccessOf(t)' /\ a \in Requested(p)
    BY <1>3, <2>1, <2>2 DEF AccessOf
  <2>5. ~ Busy(p)
    BY <1>2, <2>1 DEF Busy
  <2> QED BY <1>0, <1>2, <2>2, <2>3, <2>4, <2>5 DEF Complete
<1>6. CASE t = u /\ Access(t)
  <2>1. ~ On("SHADOW")
    BY <1>6, Accessed
  <2> QED BY <1>2, <1>3, <1>6, <2>1, InsideRecord
<1>7. th'[t] = th[t] \/ (t = u /\ (CheckShadow(t) \/ Access(t)))
  <2>1. CASE t # u
    BY <1>1, <2>1 DEF Others
  <2>2. CASE t = u
    <3>1. CASE Malloc(t) \/ Sbrk(t)
      <4>1. PICK q, req, hi \in Nat, kind \in Kinds : Added(t, q, kind, req, hi)
        BY <3>1, Additions
      <4> QED BY <4>1 DEF Added
    <3>2. CASE Release(t) \/ Munmap(t) \/ Autofree(t)
      BY <3>2, Released, Unmapped, Autofreed DEF Begins
    <3>3. CASE Brk(t)
      BY <3>3, BrkMoved
    <3>4. CASE Insert(t) \/ Track(t) \/ Shrink(t) \/ Remove(t) \/ AutofreeTop(t) \/ AutofreeGive(t)
      BY <3>4, Inserted, Tracked, Shrunk, Removed, TopAsked, Given
    <3>5. CASE Autoremove(t) \/ Poison(t) \/ SystemRelease(t) \/ EndAccess(t)
      BY <3>5, Autoremoved, PoisonedIs, Ended, AccessEnded
    <3> QED BY <2>2, <3>1, <3>2, <3>3, <3>4, <3>5 DEF Does
  <2> QED BY <2>1, <2>2
<1> QED BY <1>4, <1>5, <1>6, <1>7

LEMMA CompleteSame == CompleteInv /\ UNCHANGED vars => CompleteInv'
BY DEF CompleteInv, Fits, Complete, NoFalseReport, vars, On, Busy, Requested, At, AccessOf

LEMMA InitComplete == Init => CompleteInv
<1> SUFFICES ASSUME Init PROVE CompleteInv
  OBVIOUS
<1>1. DOMAIN blocks = {} /\ DOMAIN table = {} /\ DOMAIN shadow = {}
  BY DEF Init, EmptyShadow
<1>2. \A t \in Threads : th[t].pc = "idle"
  BY IdleCall DEF Init
<1> QED BY <1>1, <1>2 DEF CompleteInv, Fits, Complete, NoFalseReport, At, PagesOf

\* A thread that stays inside a block it owns is not reported, unless with the shadow a
\* granule of it was once given back in a way that leaves its record: NoFalseReport of
\* every run, for any threads, memory and sizes.
THEOREM ReportsTrue ==
  ASSUME BreakApart, IncrementsAligned, RoomAssumed
  PROVE  Spec => []NoFalseReport
<1>1. Init => Inv /\ Aligned /\ CompleteInv
  BY InitInv, InitAligned, InitComplete
<1>2. Inv /\ Aligned /\ CompleteInv /\ [Next]_vars => (Inv /\ Aligned /\ CompleteInv)'
  <2> SUFFICES ASSUME Inv, Aligned, CompleteInv, [Next]_vars PROVE (Inv /\ Aligned /\ CompleteInv)'
    OBVIOUS
  <2>1. Inv'
    BY InvStep
  <2>2. CASE UNCHANGED vars
    BY <2>1, <2>2, AlignedSame, CompleteSame
  <2>3. ASSUME NEW t \in Threads, Does(t) PROVE Aligned' /\ CompleteInv'
    BY <2>1, <2>3, AlignedStep, FitsStep, CompleteStep, ReportStep DEF Inv, CompleteInv
  <2> QED BY <2>1, <2>2, <2>3 DEF Next, Does
<1>3. CompleteInv => NoFalseReport
  BY DEF CompleteInv
<1> QED BY <1>1, <1>2, <1>3, PTL DEF Spec
=============================================================================
