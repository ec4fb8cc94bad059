---------------------------- MODULE Configured_proofs ----------------------------
(***************************************************************************)
(* What holds of the machines of MCJourneys that work on a configuration,    *)
(* for every value of the constants they are given: what a policy decides    *)
(* about a call, and what a workflow expands to. Their definitions recur on  *)
(* data, so the module begins with what that takes: induction over a measure *)
(* and the existence of what is defined by recursion on one, both stated of  *)
(* sets and functions.                                                       *)
(***************************************************************************)
EXTENDS MCJourneys, Integers, FiniteSetTheorems, SequenceTheorems, WellFoundedInduction, TLAPS

--------------------------------------------------------------------------------
(* Induction and recursion on a measure.                                     *)

\* A set of numbers has a least one.
LEMMA Least ==
  ASSUME NEW T \in SUBSET Nat, T # {}
  PROVE  \E n \in T : \A m \in T : n <= m
<1>1. IsWellFoundedOn(OpToRel(<, Nat), Nat)
  BY NatLessThanWellFounded
<1>2. PICK n \in T : \A m \in T : ~(<<m, n>> \in OpToRel(<, Nat))
  <2>1. T \subseteq Nat
    OBVIOUS
  <2> QED
    BY <1>1, <2>1, WFMin
<1>3. ASSUME NEW m \in T PROVE n <= m
  <2>1. m \in Nat /\ n \in Nat
    OBVIOUS
  <2>2. m < n => <<m, n>> \in OpToRel(<, Nat)
    BY <2>1 DEF OpToRel
  <2>3. ~(m < n)
    BY <1>2, <2>2
  <2> HIDE <2>2
  <2> QED
    BY <2>1, <2>3
<1> QED
  BY <1>3

\* What holds of 0, and of a number with the one before it, holds of all.
LEMMA Counting ==
  ASSUME NEW S, 0 \in S, \A n \in Nat : n \in S => n + 1 \in S
  PROVE  \A n \in Nat : n \in S
<1> SUFFICES ASSUME NEW k \in Nat, k \notin S PROVE FALSE
  OBVIOUS
<1> DEFINE T == {n \in Nat : n \notin S}
<1>1. T \in SUBSET Nat /\ T # {}
  OBVIOUS
<1> HIDE DEF T
<1>2. PICK n \in T : \A m \in T : n <= m
  BY <1>1, Least
<1> USE DEF T
<1>3. n # 0
  OBVIOUS
<1>4. n - 1 \in Nat /\ n - 1 \notin T
  BY <1>2, <1>3
<1>5. n \in S
  BY <1>4
<1> QED
  BY <1>5

\* What holds of an element when it holds of all of smaller measure, holds of all.
LEMMA Smaller ==
  ASSUME NEW D, NEW S, NEW m \in [D -> Nat],
         \A x \in D : (\A y \in D : m[y] < m[x] => y \in S) => x \in S
  PROVE  D \subseteq S
<1> SUFFICES ASSUME NEW z \in D, z \notin S PROVE FALSE
  OBVIOUS
<1> DEFINE T == {m[x] : x \in D \ S}
<1>1. T \in SUBSET Nat /\ T # {}
  OBVIOUS
<1>2. PICK n \in T : \A k \in T : n <= k
  <2> HIDE DEF T
  <2> QED
    BY <1>1, Least
<1>3. PICK x \in D \ S : n = m[x]
  OBVIOUS
<1>4. ASSUME NEW y \in D, m[y] < m[x] PROVE y \in S
  <2> SUFFICES ASSUME y \notin S PROVE FALSE
    OBVIOUS
  <2>1. m[y] \in T
    OBVIOUS
  <2>2. m[x] <= m[y] /\ m[x] \in Nat /\ m[y] \in Nat
    BY <1>2, <1>3, <2>1
  <2> QED
    BY <1>4, <2>2
<1> QED
  BY <1>3, <1>4

\* f is what step makes of it.
Recurs(f, D, step) == \A x \in D : f[x] = step[x][f]

\* What step makes at x depends on elements of smaller measure alone.
Descends(D, V, N, m, step) ==
  /\ N \in Nat /\ m \in [D -> 0..N] /\ V # {}
  /\ step \in [D -> [[D -> V] -> V]]
  /\ \A x \in D : \A f, g \in [D -> V] :
       (\A y \in D : m[y] < m[x] => f[y] = g[y]) => step[x][f] = step[x][g]

\* Then there is such a function.
LEMMA Recursion ==
  ASSUME NEW D, NEW V, NEW N, NEW m, NEW step, Descends(D, V, N, m, step)
  PROVE  \E f \in [D -> V] : Recurs(f, D, step)
<1> USE DEF Descends
<1> PICK v \in V : TRUE
  OBVIOUS
<1> DEFINE UpTo(n) == {f \in [D -> V] : \A x \in D : m[x] < n => f[x] = step[x][f]}
           S == {n \in Nat : UpTo(n) # {}}
<1>1. 0 \in S
  <2>1. [x \in D |-> v] \in UpTo(0)
    OBVIOUS
  <2> QED
    BY <2>1
<1>2. ASSUME NEW n \in Nat, n \in S PROVE n + 1 \in S
  <2>1. PICK f \in [D -> V] : \A x \in D : m[x] < n => f[x] = step[x][f]
    BY <1>2
  <2> DEFINE g == [x \in D |-> step[x][f]]
  <2>2. g \in [D -> V]
    OBVIOUS
  <2>3. ASSUME NEW x \in D, m[x] < n + 1 PROVE g[x] = step[x][g]
    <3>1. \A y \in D : m[y] < m[x] => f[y] = g[y]
      BY <2>1, <2>3
    <3> HIDE DEF g
    <3>2. step[x][f] = step[x][g]
      BY <2>2, <3>1
    <3> QED
      BY <3>2 DEF g
  <2> HIDE DEF g
  <2>4. g \in UpTo(n + 1)
    BY <2>2, <2>3
  <2> QED
    BY <2>4
<1>3. N + 1 \in S
  <2> HIDE DEF S
  <2>1. \A n \in Nat : n \in S
    BY <1>1, <1>2, Counting
  <2> QED
    BY <2>1
<1>4. PICK f \in [D -> V] : \A x \in D : m[x] < N + 1 => f[x] = step[x][f]
  BY <1>3
<1>5. \A x \in D : m[x] < N + 1
  OBVIOUS
<1> QED
  BY <1>4, <1>5 DEF Recurs

--------------------------------------------------------------------------------
(* Policies: the two globs.                                                  *)

\* What is left to match gets smaller with every letter that is passed.
LeftOver(pattern, value) ==
  [at \in Rulings!Lefts(pattern, value) |-> (Len(pattern) + 1 - at[1]) + (Len(value) + 1 - at[2])]

\* The places are pairs, and what is left is a number, the sum of what is left of each.
LEMMA LeftOverIs ==
  ASSUME NEW pattern, NEW value, Rulings!IsText(pattern), Rulings!IsText(value)
  PROVE  LET D == Rulings!Lefts(pattern, value) IN
         /\ Len(pattern) \in Nat /\ Len(value) \in Nat
         /\ LeftOver(pattern, value) \in [D -> 0..(Len(pattern) + Len(value))]
         /\ \A p \in 1..(Len(pattern) + 1), v \in 1..(Len(value) + 1) :
              /\ <<p, v>> \in D
              /\ LeftOver(pattern, value)[<<p, v>>] = (Len(pattern) + 1 - p) + (Len(value) + 1 - v)
         /\ \A at \in D : /\ at = <<at[1], at[2]>>
                          /\ at[1] \in 1..(Len(pattern) + 1) /\ at[2] \in 1..(Len(value) + 1)
<1>1. Len(pattern) \in Nat /\ Len(value) \in Nat
  BY DEF Rulings!IsText
<1> QED
  BY <1>1 DEF Rulings!Lefts, LeftOver

\* A later place, by one of the two ways, is nearer to the end.
LEMMA Nearer ==
  ASSUME NEW P \in Nat, NEW V \in Nat, NEW p \in 1..(P + 1), NEW v \in 1..(V + 1),
         NEW q \in p..(P + 1), NEW w \in v..(V + 1), q # p \/ w # v
  PROVE  /\ q \in 1..(P + 1) /\ w \in 1..(V + 1)
         /\ (P + 1 - q) + (V + 1 - w) < (P + 1 - p) + (V + 1 - v)
  OBVIOUS

\* So what is left gets smaller at every later place.
LEMMA LeftOverLess ==
  ASSUME NEW pattern, NEW value, Rulings!IsText(pattern), Rulings!IsText(value),
         NEW p \in 1..(Len(pattern) + 1), NEW v \in 1..(Len(value) + 1),
         NEW q \in p..(Len(pattern) + 1), NEW w \in v..(Len(value) + 1), q # p \/ w # v
  PROVE  /\ <<q, w>> \in Rulings!Lefts(pattern, value)
         /\ LeftOver(pattern, value)[<<q, w>>] < LeftOver(pattern, value)[<<p, v>>]
<1>1. Len(pattern) \in Nat /\ Len(value) \in Nat
  BY LeftOverIs
<1>2. /\ q \in 1..(Len(pattern) + 1) /\ w \in 1..(Len(value) + 1)
      /\ (Len(pattern) + 1 - q) + (Len(value) + 1 - w) < (Len(pattern) + 1 - p) + (Len(value) + 1 - v)
  BY <1>1, Nearer
<1>3. LeftOver(pattern, value)[<<p, v>>] = (Len(pattern) + 1 - p) + (Len(value) + 1 - v)
  BY LeftOverIs
<1>4. /\ <<q, w>> \in Rulings!Lefts(pattern, value)
      /\ LeftOver(pattern, value)[<<q, w>>] = (Len(pattern) + 1 - q) + (Len(value) + 1 - w)
  <2>1. q \in 1..(Len(pattern) + 1) /\ w \in 1..(Len(value) + 1)
    BY <1>2
  <2> HIDE <1>2
  <2> QED
    BY <2>1, LeftOverIs
<1> QED
  BY <1>2, <1>3, <1>4

\* glob_matches at one place, of what f has for the places behind it.
Skips(f, pattern, value, p, v) ==
  IF p > Len(pattern) THEN v > Len(value)
  ELSE IF pattern[p] = "*" THEN \E skip \in v..(Len(value) + 1) : f[<<p + 1, skip>>]
  ELSE v <= Len(value) /\ value[v] = pattern[p] /\ f[<<p + 1, v + 1>>]

\* It is true or false there.
LEMMA SkipsBoolean ==
  ASSUME NEW f, NEW pattern, NEW value, NEW p, NEW v
  PROVE  Skips(f, pattern, value, p, v) \in BOOLEAN
<1>1. CASE p > Len(pattern)
  BY <1>1 DEF Skips
<1>2. CASE ~(p > Len(pattern)) /\ pattern[p] = "*"
  BY <1>2 DEF Skips
<1>3. CASE ~(p > Len(pattern)) /\ pattern[p] # "*"
  BY <1>3 DEF Skips
<1> QED
  BY <1>1, <1>2, <1>3

\* glob_match at one place.
Takes(f, pattern, value, p, v) ==
  \/ p > Len(pattern) /\ v > Len(value)
  \/ /\ p <= Len(pattern) /\ pattern[p] = "*"
     /\ f[<<p + 1, v>>] \/ (v <= Len(value) /\ f[<<p, v + 1>>])
  \/ /\ p <= Len(pattern) /\ v <= Len(value) /\ pattern[p] # "*"
     /\ pattern[p] = value[v] /\ f[<<p + 1, v + 1>>]

\* The recursion of glob_matches has a value everywhere.
LEMMA SkipsEverywhere ==
  ASSUME NEW pattern, NEW value, Rulings!IsText(pattern), Rulings!IsText(value)
  PROVE  \E f \in [Rulings!Lefts(pattern, value) -> BOOLEAN] :
           /\ \A p \in 1..(Len(pattern) + 1), v \in 1..(Len(value) + 1) :
                f[<<p, v>>] = Skips(f, pattern, value, p, v)
           /\ Rulings!GlobMatches(pattern, value) = f[<<1, 1>>]
<1> DEFINE D == Rulings!Lefts(pattern, value)
           m == LeftOver(pattern, value)
           N == Len(pattern) + Len(value)
           E(f, at) == Skips(f, pattern, value, at[1], at[2])
           step == [at \in D |-> [f \in [D -> BOOLEAN] |-> E(f, at)]]
           Is(f) == f = [at \in D |-> E(f, at)]
           inner == CHOOSE f : Is(f)
<1>1. step \in [D -> [[D -> BOOLEAN] -> BOOLEAN]]
  <2>1. \A at \in D, f \in [D -> BOOLEAN] : E(f, at) \in BOOLEAN
    BY SkipsBoolean
  <2> HIDE DEF E, D
  <2> QED
    BY <2>1
<1>2. ASSUME NEW at \in D, NEW f \in [D -> BOOLEAN], NEW g \in [D -> BOOLEAN],
             \A y \in D : m[y] < m[at] => f[y] = g[y]
      PROVE  step[at][f] = step[at][g]
  <2> DEFINE p == at[1] v == at[2]
  <2>1. /\ p \in 1..(Len(pattern) + 1) /\ v \in 1..(Len(value) + 1) /\ at = <<p, v>>
        /\ Len(pattern) \in Nat /\ Len(value) \in Nat
    BY LeftOverIs
  <2>2. ASSUME NEW q \in (p + 1)..(Len(pattern) + 1), NEW w \in v..(Len(value) + 1)
        PROVE  f[<<q, w>>] = g[<<q, w>>]
    <3>1. q \in p..(Len(pattern) + 1) /\ q # p
      <4> HIDE DEF p
      <4> QED
        BY <2>1
    <3>2. <<q, w>> \in D /\ m[<<q, w>>] < m[at]
      <4> HIDE DEF p, v
      <4> QED
        BY <2>1, <3>1, LeftOverLess
    <3> QED
      BY <1>2, <3>2
  <2>3. Skips(f, pattern, value, p, v) = Skips(g, pattern, value, p, v)
    <3>1. CASE p > Len(pattern)
      BY <3>1 DEF Skips
    <3>2. CASE p <= Len(pattern) /\ pattern[p] = "*"
      <4>1. p + 1 \in (p + 1)..(Len(pattern) + 1)
        <5> HIDE DEF p
        <5> QED
          BY <2>1, <3>2
      <4>2. \A skip \in v..(Len(value) + 1) : f[<<p + 1, skip>>] = g[<<p + 1, skip>>]
        BY <2>2, <4>1
      <4> HIDE DEF p, v
      <4> QED
        BY <2>1, <3>2, <4>2 DEF Skips
    <3>3. CASE p <= Len(pattern) /\ pattern[p] # "*"
      <4>1. CASE v <= Len(value)
        <5>1. p + 1 \in (p + 1)..(Len(pattern) + 1) /\ v + 1 \in v..(Len(value) + 1)
          BY <2>1, <3>3, <4>1
        <5>2. f[<<p + 1, v + 1>>] = g[<<p + 1, v + 1>>]
          BY <2>2, <5>1
        <5> QED
          BY <2>1, <3>3, <5>2 DEF Skips
      <4>2. CASE ~(v <= Len(value))
        BY <2>1, <3>3, <4>2 DEF Skips
      <4> QED
        BY <4>1, <4>2
    <3> QED
      BY <2>1, <3>1, <3>2, <3>3
  <2> HIDE DEF D
  <2> QED
    BY <2>3
<1>3. \E f \in [D -> BOOLEAN] : Is(f)
  <2>1. m \in [D -> 0..N] /\ N \in Nat
    BY LeftOverIs
  <2> HIDE DEF D, m, N, step
  <2>2. Descends(D, BOOLEAN, N, m, step)
    BY <1>1, <1>2, <2>1 DEF Descends
  <2>3. PICK f \in [D -> BOOLEAN] : Recurs(f, D, step)
    BY <2>2, Recursion
  <2>4. \A at \in D : f[at] = E(f, at)
    BY <2>3 DEF Recurs, step
  <2> QED
    BY <2>3, <2>4
<1>4. Is(inner) /\ inner \in [D -> BOOLEAN]
  <2>1. Is(inner)
    <3> HIDE DEF Is
    <3> QED
      BY <1>3
  <2>2. \A at \in D : E(inner, at) \in BOOLEAN
    BY SkipsBoolean
  <2> HIDE DEF D, E, inner
  <2> QED
    BY <2>1, <2>2
<1>5. Rulings!GlobMatches(pattern, value) = inner[<<1, 1>>]
  BY DEF Rulings!GlobMatches, Skips
<1> HIDE DEF inner
<1>6. \A p \in 1..(Len(pattern) + 1), v \in 1..(Len(value) + 1) :
        inner[<<p, v>>] = Skips(inner, pattern, value, p, v)
  BY <1>4, LeftOverIs
<1> QED
  BY <1>4, <1>5, <1>6

\* It is true or false there.
LEMMA TakesBoolean ==
  ASSUME NEW f, NEW pattern, NEW value, NEW p, NEW v
  PROVE  Takes(f, pattern, value, p, v) \in BOOLEAN
  BY DEF Takes

\* The recursion of glob_match has a value everywhere.
LEMMA TakesEverywhere ==
  ASSUME NEW pattern, NEW value, Rulings!IsText(pattern), Rulings!IsText(value)
  PROVE  \E f \in [Rulings!Lefts(pattern, value) -> BOOLEAN] :
           /\ \A p \in 1..(Len(pattern) + 1), v \in 1..(Len(value) + 1) :
                f[<<p, v>>] = Takes(f, pattern, value, p, v)
           /\ Rulings!GlobMatch(pattern, value) = f[<<1, 1>>]
<1> DEFINE D == Rulings!Lefts(pattern, value)
           m == LeftOver(pattern, value)
           N == Len(pattern) + Len(value)
           E(f, at) == Takes(f, pattern, value, at[1], at[2])
           step == [at \in D |-> [f \in [D -> BOOLEAN] |-> E(f, at)]]
           Is(f) == f = [at \in D |-> E(f, at)]
           inner == CHOOSE f : Is(f)
<1>1. step \in [D -> [[D -> BOOLEAN] -> BOOLEAN]]
  <2>1. \A at \in D, f \in [D -> BOOLEAN] : E(f, at) \in BOOLEAN
    BY TakesBoolean
  <2> HIDE DEF E, D
  <2> QED
    BY <2>1
<1>2. ASSUME NEW at \in D, NEW f \in [D -> BOOLEAN], NEW g \in [D -> BOOLEAN],
             \A y \in D : m[y] < m[at] => f[y] = g[y]
      PROVE  step[at][f] = step[at][g]
  <2> DEFINE p == at[1] v == at[2]
  <2>1. /\ p \in 1..(Len(pattern) + 1) /\ v \in 1..(Len(value) + 1) /\ at = <<p, v>>
        /\ Len(pattern) \in Nat /\ Len(value) \in Nat
    BY LeftOverIs
  <2>2. ASSUME NEW q \in p..(Len(pattern) + 1), NEW w \in v..(Len(value) + 1),
               q # p \/ w # v
        PROVE  f[<<q, w>>] = g[<<q, w>>]
    <3>1. q \in 1..(Len(pattern) + 1) /\ w \in 1..(Len(value) + 1)
      BY <2>1
    <3>2. <<q, w>> \in D /\ m[<<q, w>>] = (Len(pattern) + 1 - q) + (Len(value) + 1 - w)
      BY <3>1, LeftOverIs
    <3>3. m[at] = (Len(pattern) + 1 - p) + (Len(value) + 1 - v)
      BY <2>1, LeftOverIs
    <3>4. m[<<q, w>>] < m[at]
      <4> HIDE DEF p, v, m, D
      <4> QED
        BY <2>1, <2>2, <3>1, <3>2, <3>3
    <3> QED
      BY <1>2, <3>2, <3>4
  <2>3. Takes(f, pattern, value, p, v) = Takes(g, pattern, value, p, v)
    <3>1. p <= Len(pattern) => f[<<p + 1, v>>] = g[<<p + 1, v>>]
      <4> SUFFICES ASSUME p <= Len(pattern) PROVE f[<<p + 1, v>>] = g[<<p + 1, v>>]
        OBVIOUS
      <4>1. p + 1 \in p..(Len(pattern) + 1) /\ v \in v..(Len(value) + 1) /\ p + 1 # p
        BY <2>1
      <4> QED
        BY <2>2, <4>1
    <3>2. v <= Len(value) => f[<<p, v + 1>>] = g[<<p, v + 1>>]
      <4> SUFFICES ASSUME v <= Len(value) PROVE f[<<p, v + 1>>] = g[<<p, v + 1>>]
        OBVIOUS
      <4>1. p \in p..(Len(pattern) + 1) /\ v + 1 \in v..(Len(value) + 1) /\ v + 1 # v
        BY <2>1
      <4> QED
        BY <2>2, <4>1
    <3>3. p <= Len(pattern) /\ v <= Len(value) => f[<<p + 1, v + 1>>] = g[<<p + 1, v + 1>>]
      <4> SUFFICES ASSUME p <= Len(pattern), v <= Len(value)
                   PROVE  f[<<p + 1, v + 1>>] = g[<<p + 1, v + 1>>]
        OBVIOUS
      <4>1. p + 1 \in p..(Len(pattern) + 1) /\ v + 1 \in v..(Len(value) + 1) /\ p + 1 # p
        BY <2>1
      <4> QED
        BY <2>2, <4>1
    <3> QED
      BY <3>1, <3>2, <3>3 DEF Takes
  <2> HIDE DEF D
  <2> QED
    BY <2>3
<1>3. \E f \in [D -> BOOLEAN] : Is(f)
  <2>1. m \in [D -> 0..N] /\ N \in Nat
    BY LeftOverIs
  <2> HIDE DEF D, m, N, step
  <2>2. Descends(D, BOOLEAN, N, m, step)
    BY <1>1, <1>2, <2>1 DEF Descends
  <2>3. PICK f \in [D -> BOOLEAN] : Recurs(f, D, step)
    BY <2>2, Recursion
  <2>4. \A at \in D : f[at] = E(f, at)
    BY <2>3 DEF Recurs, step
  <2> QED
    BY <2>3, <2>4
<1>4. Is(inner) /\ inner \in [D -> BOOLEAN]
  <2>1. Is(inner)
    <3> HIDE DEF Is
    <3> QED
      BY <1>3
  <2>2. \A at \in D : E(inner, at) \in BOOLEAN
    BY TakesBoolean
  <2> HIDE DEF D, E, inner
  <2> QED
    BY <2>1, <2>2
<1>5. Rulings!GlobMatch(pattern, value) = inner[<<1, 1>>]
  BY DEF Rulings!GlobMatch, Takes
<1> HIDE DEF inner
<1>6. \A p \in 1..(Len(pattern) + 1), v \in 1..(Len(value) + 1) :
        inner[<<p, v>>] = Takes(inner, pattern, value, p, v)
  BY <1>4, LeftOverIs
<1> QED
  BY <1>4, <1>5, <1>6

\* A star that skips any number of letters is one that goes on or takes one more.
LEMMA OneGlob ==
  ASSUME NEW pattern, NEW value, Rulings!IsText(pattern), Rulings!IsText(value)
  PROVE  Rulings!GlobMatches(pattern, value) <=> Rulings!GlobMatch(pattern, value)
<1> DEFINE D == Rulings!Lefts(pattern, value)
           m == LeftOver(pattern, value)
<1>1. PICK f \in [D -> BOOLEAN] :
        /\ \A p \in 1..(Len(pattern) + 1), v \in 1..(Len(value) + 1) :
             f[<<p, v>>] = Skips(f, pattern, value, p, v)
        /\ Rulings!GlobMatches(pattern, value) = f[<<1, 1>>]
  BY SkipsEverywhere
<1>2. PICK g \in [D -> BOOLEAN] :
        /\ \A p \in 1..(Len(pattern) + 1), v \in 1..(Len(value) + 1) :
             g[<<p, v>>] = Takes(g, pattern, value, p, v)
        /\ Rulings!GlobMatch(pattern, value) = g[<<1, 1>>]
  BY TakesEverywhere
<1> DEFINE S == {at \in D : f[at] = g[at]}
<1>3. ASSUME NEW at \in D, \A y \in D : m[y] < m[at] => y \in S
      PROVE  at \in S
  <2> DEFINE p == at[1] v == at[2]
  <2>1. /\ p \in 1..(Len(pattern) + 1) /\ v \in 1..(Len(value) + 1) /\ at = <<p, v>>
        /\ Len(pattern) \in Nat /\ Len(value) \in Nat
    BY LeftOverIs
  <2> HIDE DEF p, v
  <2>2. ASSUME NEW q \in p..(Len(pattern) + 1), NEW w \in v..(Len(value) + 1),
               q # p \/ w # v
        PROVE  f[<<q, w>>] = g[<<q, w>>]
    <3>1. <<q, w>> \in D /\ m[<<q, w>>] < m[at]
      BY <2>1, <2>2, LeftOverLess
    <3> QED
      BY <1>3, <3>1
  <2>3. f[<<p, v>>] <=> Skips(f, pattern, value, p, v)
    BY <1>1, <2>1
  <2>4. g[<<p, v>>] <=> Takes(g, pattern, value, p, v)
    BY <1>2, <2>1
  <2>5. f[<<p, v>>] <=> g[<<p, v>>]
    <3>1. CASE p > Len(pattern)
      BY <2>1, <2>3, <2>4, <3>1 DEF Skips, Takes
    <3>2. CASE p <= Len(pattern) /\ pattern[p] = "*"
      <4>1. p + 1 \in 1..(Len(pattern) + 1)
        BY <2>1, <3>2
      <4>2. f[<<p, v>>] <=> \E skip \in v..(Len(value) + 1) : f[<<p + 1, skip>>]
        BY <2>1, <2>3, <3>2 DEF Skips
      <4>3. g[<<p, v>>] <=> g[<<p + 1, v>>] \/ (v <= Len(value) /\ g[<<p, v + 1>>])
        BY <2>1, <2>4, <3>2 DEF Takes
      <4>4. f[<<p + 1, v>>] = g[<<p + 1, v>>]
        BY <2>1, <2>2, <4>1
      <4>5. CASE v <= Len(value)
        <5>1. v + 1 \in v..(Len(value) + 1) /\ v + 1 \in 1..(Len(value) + 1)
          BY <2>1, <4>5
        <5>2. f[<<p, v + 1>>] = g[<<p, v + 1>>]
          BY <2>1, <2>2, <5>1
        <5>3. f[<<p, v + 1>>] <=> Skips(f, pattern, value, p, v + 1)
          BY <1>1, <2>1, <5>1
        <5>4. f[<<p, v + 1>>] <=> \E skip \in (v + 1)..(Len(value) + 1) : f[<<p + 1, skip>>]
          BY <2>1, <3>2, <5>3 DEF Skips
        <5>5. v..(Len(value) + 1) = {v} \cup (v + 1)..(Len(value) + 1)
          BY <2>1
        <5>6. f[<<p, v>>] <=> f[<<p + 1, v>>] \/ f[<<p, v + 1>>]
          BY <4>2, <5>4, <5>5
        <5> QED
          BY <4>3, <4>4, <4>5, <5>2, <5>6
      <4>6. CASE ~(v <= Len(value))
        <5>1. v..(Len(value) + 1) = {v}
          BY <2>1, <4>6
        <5> QED
          BY <4>2, <4>3, <4>4, <4>6, <5>1
      <4> QED
        BY <4>5, <4>6
    <3>3. CASE p <= Len(pattern) /\ pattern[p] # "*"
      <4>1. CASE v <= Len(value)
        <5>1. p + 1 \in p..(Len(pattern) + 1) /\ v + 1 \in v..(Len(value) + 1)
          BY <2>1, <3>3, <4>1
        <5>2. f[<<p + 1, v + 1>>] = g[<<p + 1, v + 1>>]
          BY <2>1, <2>2, <5>1
        <5>3. f[<<p, v>>] <=> value[v] = pattern[p] /\ f[<<p + 1, v + 1>>]
          BY <2>1, <2>3, <3>3, <4>1 DEF Skips
        <5>4. g[<<p, v>>] <=> pattern[p] = value[v] /\ g[<<p + 1, v + 1>>]
          BY <2>1, <2>4, <3>3, <4>1 DEF Takes
        <5> QED
          BY <5>2, <5>3, <5>4
      <4>2. CASE ~(v <= Len(value))
        BY <2>1, <2>3, <2>4, <3>3, <4>2 DEF Skips, Takes
      <4> QED
        BY <4>1, <4>2
    <3> QED
      BY <2>1, <3>1, <3>2, <3>3
  <2>6. <<p, v>> \in D /\ f[<<p, v>>] \in BOOLEAN /\ g[<<p, v>>] \in BOOLEAN
    BY <2>1
  <2> QED
    BY <2>1, <2>5, <2>6
<1>4. D \subseteq S
  <2>1. m \in [D -> Nat]
    <3>1. m \in [D -> 0..(Len(pattern) + Len(value))]
      BY LeftOverIs
    <3> HIDE DEF D, m
    <3> QED
      BY <3>1
  <2> HIDE DEF D, S, m
  <2> QED
    BY <1>3, <2>1, Smaller
<1>5. <<1, 1>> \in D
  <2>1. Len(pattern) \in Nat /\ Len(value) \in Nat
    BY LeftOverIs
  <2>2. 1 \in 1..(Len(pattern) + 1) /\ 1 \in 1..(Len(value) + 1)
    BY <2>1
  <2> QED
    BY <2>2, LeftOverIs
<1> QED
  BY <1>1, <1>2, <1>4, <1>5

--------------------------------------------------------------------------------
(* Policies: the verdict.                                                    *)

\* The rule that evaluate keeps when it has looked at the first n.
Keeps(w, call, n) ==
  IF n = 0 THEN 0
  ELSE IF Rulings!RuleMatches(rules[n], call)
          /\ (w[n - 1] = 0
              \/ Rulings!Restrictiveness[rules[n].decision]
                   > Rulings!Restrictiveness[rules[w[n - 1]].decision])
    THEN n ELSE w[n - 1]

\* The recursion that finds the winning rule has a value for every number of rules.
LEMMA WinnerEverywhere ==
  ASSUME NEW call, Len(rules) \in Nat
  PROVE  \E w :
           /\ \A n \in 0..Len(rules) : w[n] = Keeps(w, call, n)
           /\ Rulings!Winner(call) = w[Len(rules)]
<1> DEFINE N == Len(rules)
           D == 0..N
           m == [n \in D |-> n]
           E(w, n) == Keeps(w, call, n)
           step == [n \in D |-> [w \in [D -> Nat] |-> E(w, n)]]
           Is(w) == w = [n \in D |-> E(w, n)]
           winner == CHOOSE w : Is(w)
<1>1. step \in [D -> [[D -> Nat] -> Nat]]
  <2>1. \A n \in D, w \in [D -> Nat] : E(w, n) \in Nat
    BY DEF Keeps
  <2> HIDE DEF E, D
  <2> QED
    BY <2>1
<1>2. ASSUME NEW n \in D, NEW f \in [D -> Nat], NEW g \in [D -> Nat],
             \A k \in D : m[k] < m[n] => f[k] = g[k]
      PROVE  step[n][f] = step[n][g]
  <2>1. n # 0 => f[n - 1] = g[n - 1]
    BY <1>2
  <2>2. E(f, n) = E(g, n)
    BY <2>1 DEF Keeps
  <2> HIDE DEF D, E
  <2> QED
    BY <2>2
<1>3. \E w \in [D -> Nat] : Is(w)
  <2>1. m \in [D -> 0..N] /\ N \in Nat
    OBVIOUS
  <2> HIDE DEF D, m, N, step
  <2>2. Descends(D, Nat, N, m, step)
    BY <1>1, <1>2, <2>1 DEF Descends
  <2>3. PICK w \in [D -> Nat] : Recurs(w, D, step)
    BY <2>2, Recursion
  <2>4. \A n \in D : w[n] = E(w, n)
    BY <2>3 DEF Recurs, step
  <2> QED
    BY <2>3, <2>4
<1>4. Is(winner)
  <2> HIDE DEF Is
  <2> QED
    BY <1>3
<1>5. Rulings!Winner(call) = winner[Len(rules)]
  BY DEF Rulings!Winner, Keeps
<1> HIDE DEF winner
<1> QED
  BY <1>4, <1>5

Strict(i) == Rulings!Restrictiveness[rules[i].decision]

\* k is the first of the strictest of the first n rules that match, or 0.
Leads(call, n, k) ==
  /\ k \in 0..n
  /\ k = 0 => \A i \in 1..n : ~Rulings!RuleMatches(rules[i], call)
  /\ k # 0 => /\ Rulings!RuleMatches(rules[k], call)
              /\ \A i \in 1..n : Rulings!RuleMatches(rules[i], call) =>
                   Strict(i) <= Strict(k) /\ (i < k => Strict(i) < Strict(k))

\* The winner matches, nothing that matches is stricter, and it comes first of its kind.
LEMMA WinnerLeads ==
  ASSUME NEW call, Len(rules) \in Nat, \A i \in 1..Len(rules) : Strict(i) \in Nat
  PROVE  Leads(call, Len(rules), Rulings!Winner(call))
<1>1. PICK w : /\ \A n \in 0..Len(rules) : w[n] = Keeps(w, call, n)
               /\ Rulings!Winner(call) = w[Len(rules)]
  BY WinnerEverywhere
<1> DEFINE S == {n \in Nat : n <= Len(rules) => Leads(call, n, w[n])}
<1>2. 0 \in S
  BY <1>1 DEF Leads, Keeps
<1>3. ASSUME NEW n \in Nat, n \in S PROVE n + 1 \in S
  <2> SUFFICES ASSUME n + 1 <= Len(rules) PROVE Leads(call, n + 1, w[n + 1])
    OBVIOUS
  <2>1. Leads(call, n, w[n])
    BY <1>3
  <2>2. w[n + 1] = Keeps(w, call, n + 1) /\ n + 1 # 0 /\ (n + 1) - 1 = n
    BY <1>1
  <2>3. w[n + 1] =
          IF Rulings!RuleMatches(rules[n + 1], call)
             /\ (w[n] = 0 \/ Strict(n + 1) > Strict(w[n]))
            THEN n + 1 ELSE w[n]
    BY <2>2 DEF Keeps, Strict
  <2>4. \A i \in 1..(n + 1) : Strict(i) \in Nat
    OBVIOUS
  <2>5. CASE w[n + 1] = n + 1
    <3>1. Rulings!RuleMatches(rules[n + 1], call) /\ (w[n] = 0 \/ Strict(n + 1) > Strict(w[n]))
      BY <2>1, <2>3, <2>5 DEF Leads
    <3>2. ASSUME NEW i \in 1..(n + 1), Rulings!RuleMatches(rules[i], call)
          PROVE  Strict(i) <= Strict(n + 1) /\ (i < n + 1 => Strict(i) < Strict(n + 1))
      <4>1. CASE i = n + 1
        BY <2>4, <4>1
      <4>2. CASE i \in 1..n
        <5>1. w[n] # 0 /\ Strict(i) <= Strict(w[n]) /\ w[n] \in 1..n
          BY <2>1, <3>2, <4>2 DEF Leads
        <5> QED
          BY <2>4, <3>1, <5>1
      <4> QED
        BY <4>1, <4>2
    <3> QED
      BY <2>5, <3>1, <3>2 DEF Leads
  <2>6. CASE w[n + 1] # n + 1
    <3>1. w[n + 1] = w[n] /\ w[n] \in 0..n
      BY <2>1, <2>3, <2>6 DEF Leads
    <3>2. Rulings!RuleMatches(rules[n + 1], call) => w[n] # 0 /\ ~(Strict(n + 1) > Strict(w[n]))
      BY <2>3, <2>6
    <3>3. CASE w[n] = 0
      <4>1. \A i \in 1..(n + 1) : ~Rulings!RuleMatches(rules[i], call)
        BY <2>1, <3>2, <3>3 DEF Leads
      <4> QED
        BY <3>1, <3>3, <4>1 DEF Leads
    <3>4. CASE w[n] # 0
      <4>1. ASSUME NEW i \in 1..(n + 1), Rulings!RuleMatches(rules[i], call)
            PROVE  Strict(i) <= Strict(w[n]) /\ (i < w[n] => Strict(i) < Strict(w[n]))
        <5>1. CASE i = n + 1
          BY <2>4, <3>1, <3>2, <3>4, <4>1, <5>1
        <5>2. CASE i \in 1..n
          BY <2>1, <3>4, <4>1, <5>2 DEF Leads
        <5> QED
          BY <5>1, <5>2
      <4>2. Rulings!RuleMatches(rules[w[n]], call)
        BY <2>1, <3>4 DEF Leads
      <4> QED
        BY <3>1, <3>4, <4>1, <4>2 DEF Leads
    <3> QED
      BY <3>3, <3>4
  <2> QED
    BY <2>5, <2>6
<1>4. \A n \in Nat : n \in S
  <2> HIDE DEF S
  <2> QED
    BY <1>2, <1>3, Counting
<1> QED
  BY <1>1, <1>4

--------------------------------------------------------------------------------
(* Policies: every policy that is built.                                     *)

PolicyInv ==
  /\ rules \in Seq(Rules) /\ deny \in Seq(Patterns)
  /\ default \in Defaults

\* Every step of the building of a policy keeps its rules rules and its patterns patterns.
LEMMA PolicyStep == PolicyInv /\ Rulings!Next => PolicyInv'
<1> SUFFICES ASSUME PolicyInv, Rulings!Next PROVE PolicyInv'
  OBVIOUS
<1>1. CASE Rulings!AddRule
  <2>1. PICK rule \in Rules, at \in 1..(Len(rules) + 1) : rules' = Rulings!InsertAt(rules, at, rule)
    BY <1>1 DEF Rulings!AddRule
  <2>2. rules' \in Seq(Rules)
    <3>1. /\ SubSeq(rules, 1, at - 1) \in Seq(Rules)
          /\ SubSeq(rules, at, Len(rules)) \in Seq(Rules)
      BY SubSeqProperties DEF PolicyInv
    <3>2. <<rule>> \in Seq(Rules)
      OBVIOUS
    <3> QED
      BY <2>1, <3>1, <3>2, ConcatProperties DEF Rulings!InsertAt
  <2> QED
    BY <1>1, <2>2 DEF Rulings!AddRule, PolicyInv
<1>2. CASE Rulings!Allow
  BY <1>2 DEF Rulings!Allow, PolicyInv
<1>3. CASE Rulings!Deny
  BY <1>3, AppendProperties DEF Rulings!Deny, PolicyInv
<1> QED
  BY <1>1, <1>2, <1>3 DEF Rulings!Next

\* Of every policy that is built, what PolicyHolds says.
LEMMA PolicyStands ==
  ASSUME PolicyInv
  PROVE  Rulings!DenyStands /\ Rulings!GlobsAgree
<1>1. ASSUME NEW i \in DOMAIN deny, NEW call \in Calls
      PROVE  Rulings!RuleMatches(Rulings!Compiled[i], call) <=> Rulings!GlobMatch(deny[i], call.tool)
  <2>1. Rulings!IsText(deny[i]) /\ Rulings!IsText(call.tool)
    BY PolicyAssumption DEF Rulings!PolicyConstants, PolicyInv
  <2>2. Rulings!GlobMatches(deny[i], call.tool) <=> Rulings!GlobMatch(deny[i], call.tool)
    BY <2>1, OneGlob
  <2>3. Rulings!Compiled[i] =
          [events |-> {}, tools |-> {deny[i]}, matchers |-> {}, decision |-> "deny"]
    BY DEF Rulings!Compiled
  <2>4. Rulings!RuleMatches(Rulings!Compiled[i], call) <=> Rulings!GlobMatches(deny[i], call.tool)
    BY <2>3 DEF Rulings!RuleMatches
  <2> QED
    BY <2>2, <2>4
<1>2. ASSUME NEW call \in Calls
      PROVE  LET matching == {i \in DOMAIN rules : Rulings!RuleMatches(rules[i], call)}
                 verdict == Rulings!Evaluate(call)
             IN  /\ \A i \in matching :
                      Rulings!Restrictiveness[verdict.decision] >= Strict(i)
                 /\ verdict.rule # 0 =>
                      /\ verdict.rule \in matching
                      /\ rules[verdict.rule].decision = verdict.decision
                      /\ \A i \in matching : i < verdict.rule => rules[i].decision # verdict.decision
  <2> DEFINE winner == Rulings!Winner(call)
  <2>1. Len(rules) \in Nat /\ DOMAIN rules = 1..Len(rules) /\ rules \in Seq(Rules)
    BY DEF PolicyInv
  <2>2. /\ \A d \in DOMAIN Rulings!Restrictiveness : Rulings!Restrictiveness[d] \in Nat
        /\ \A d \in DOMAIN Rulings!Restrictiveness :
             Rulings!Restrictiveness[d] = 0 => d = "defer"
        /\ Rulings!Restrictiveness["defer"] = 0
    BY DEF Rulings!Restrictiveness
  <2>3. \A i \in 1..Len(rules) : rules[i].decision \in DOMAIN Rulings!Restrictiveness
    BY <2>1, PolicyAssumption DEF Rulings!PolicyConstants
  <2>4. \A i \in 1..Len(rules) : Strict(i) \in Nat
    BY <2>2, <2>3 DEF Strict
  <2>5. Leads(call, Len(rules), winner)
    BY <2>1, <2>4, WinnerLeads
  <2>6. default \in DOMAIN Rulings!Restrictiveness
    BY PolicyAssumption DEF Rulings!PolicyConstants, PolicyInv
  <2> HIDE DEF winner
  <2>7. CASE winner # 0 /\ rules[winner].decision # "defer"
    <3>1. Rulings!Evaluate(call) = [decision |-> rules[winner].decision, rule |-> winner]
      BY <2>7 DEF Rulings!Evaluate, winner
    <3> QED
      BY <2>1, <2>4, <2>5, <2>7, <3>1 DEF Leads, Strict
  <2>8. CASE ~(winner # 0 /\ rules[winner].decision # "defer")
    <3>1. Rulings!Evaluate(call) = [decision |-> default, rule |-> 0]
      BY <2>8 DEF Rulings!Evaluate, winner
    <3>2. ASSUME NEW i \in 1..Len(rules), Rulings!RuleMatches(rules[i], call)
          PROVE  Strict(i) = 0
      <4>1. winner \in 1..Len(rules) /\ Strict(i) <= Strict(winner)
        BY <2>1, <2>5, <3>2 DEF Leads
      <4>2. Strict(winner) = 0
        BY <2>2, <2>8, <4>1 DEF Strict
      <4> QED
        BY <2>4, <4>1, <4>2
    <3> QED
      BY <2>1, <2>2, <2>6, <3>1, <3>2
  <2> QED
    BY <2>7, <2>8
<1>3. ASSUME NEW call \in Calls, \E i \in DOMAIN deny : Rulings!GlobMatch(deny[i], call.tool)
      PROVE  ~Rulings!IsToolPermitted(call.tool) /\ Rulings!Approval(call.tool) = "deny"
  BY <1>3 DEF Rulings!IsToolPermitted, Rulings!Approval, Rulings!AnyMatches
<1>4. Rulings!DenyStands
  BY <1>2, <1>3 DEF Rulings!DenyStands, Strict
<1>5. Rulings!GlobsAgree
  BY <1>1 DEF Rulings!GlobsAgree
<1> QED
  BY <1>4, <1>5

\* What denies a call goes on denying it whatever rules come before or behind, and a
\* pattern means the same to the hook policy and to the profile's lists.
THEOREM PoliciesHold == JourneySpec => []PolicyHolds
<1> DEFINE Inv == machine = "policy" => PolicyInv
<1>1. JourneyInit => Inv
  BY DEF JourneyInit, PolicyInit, Rulings!Init, PolicyInv
<1>2. Inv /\ [JourneyNext]_journeyVars => Inv'
  <2> SUFFICES ASSUME Inv, [JourneyNext]_journeyVars, machine' = "policy" PROVE PolicyInv'
    OBVIOUS
  <2>1. machine = "policy" /\ PolicyInv
    BY DEF JourneyNext, journeyVars
  <2>2. CASE JourneyNext
    BY <2>1, <2>2, PolicyStep DEF JourneyNext
  <2>3. CASE UNCHANGED journeyVars
    BY <2>1, <2>3 DEF journeyVars, policyVars, PolicyInv
  <2> QED
    BY <2>2, <2>3
<1>3. Inv => PolicyHolds
  BY PolicyStands DEF PolicyHolds
<1> QED
  BY <1>1, <1>2, <1>3, PTL DEF JourneySpec

--------------------------------------------------------------------------------
(* WorkflowExpansion: a configuration c, its workflows by index and by name. *)

\* Expands!Found, of the configuration c.
FoundIn(c, ref) ==
  LET named == {i \in DOMAIN c.workflows : FoldedName[c.workflows[i].id] = FoldedName[ref]}
  IN  IF named = {} THEN None ELSE Expands!Min(named)

Size(c) == Len(c.workflows)
Name(c, i) == FoldedName[c.workflows[i].id]
Phases(c, i) == c.workflows[i].phases
Refers(c, i, m) == m \in 1..Len(Phases(c, i)) /\ Phases(c, i)[m].kind = "workflow"

\* The first workflow of that name.
At(c, name) ==
  LET named == {i \in DOMAIN c.workflows : Name(c, i) = name}
  IN  IF named = {} THEN None ELSE Expands!Min(named)

\* The name of the mth phase of workflow i, which refers to it.
RefName(c, i, m) == FoldedName[Phases(c, i)[m].id]

\* Looking for what is referred to is looking for its name.
LEMMA FoundByName ==
  ASSUME NEW c, NEW ref
  PROVE  FoundIn(c, ref) = At(c, FoldedName[ref])
  BY DEF FoundIn, At, Name

\* What FlowConstants assumes of a configuration, in the words used here.
LEMMA Shape ==
  ASSUME NEW c \in Configs
  PROVE  /\ Size(c) \in Nat /\ DOMAIN c.workflows = 1..Size(c)
         /\ None \notin Nat
         /\ \A i \in 1..Size(c) :
              /\ Len(Phases(c, i)) \in Nat /\ DOMAIN Phases(c, i) = 1..Len(Phases(c, i))
              /\ \A m \in 1..Len(Phases(c, i)) : Phases(c, i)[m].kind \in {"phase", "workflow"}
              /\ c.workflows[i].publication # None /\ c.workflows[i].publication.owner # None =>
                   c.workflows[i].publication.owner.kind \in {"runner", "phase"}
<1> DEFINE flow == c.workflows
<1>1. /\ None \notin Nat
      /\ flow \in Seq({flow[i] : i \in DOMAIN flow})
      /\ \A i \in DOMAIN flow :
           /\ flow[i].phases \in Seq({flow[i].phases[m] : m \in DOMAIN flow[i].phases})
           /\ \A m \in DOMAIN flow[i].phases : flow[i].phases[m].kind \in {"phase", "workflow"}
           /\ flow[i].publication # None /\ flow[i].publication.owner # None =>
                flow[i].publication.owner.kind \in {"runner", "phase"}
  BY FlowAssumption DEF Expands!FlowConstants
<1>2. Size(c) \in Nat /\ DOMAIN c.workflows = 1..Size(c)
  BY <1>1 DEF Size
<1>3. ASSUME NEW i \in 1..Size(c)
      PROVE  /\ Len(Phases(c, i)) \in Nat /\ DOMAIN Phases(c, i) = 1..Len(Phases(c, i))
             /\ \A m \in 1..Len(Phases(c, i)) : Phases(c, i)[m].kind \in {"phase", "workflow"}
  <2>1. Phases(c, i) \in Seq({Phases(c, i)[m] : m \in DOMAIN Phases(c, i)})
    BY <1>1, <1>2 DEF Phases
  <2>2. Len(Phases(c, i)) \in Nat /\ DOMAIN Phases(c, i) = 1..Len(Phases(c, i))
    BY <2>1
  <2> QED
    BY <1>1, <1>2, <2>2 DEF Phases
<1> QED
  BY <1>1, <1>2, <1>3

\* At a name is the first workflow that has it, None if none does.
LEMMA AtIs ==
  ASSUME NEW c \in Configs, NEW name
  PROVE  \/ At(c, name) = None /\ \A i \in 1..Size(c) : Name(c, i) # name
         \/ /\ At(c, name) \in 1..Size(c) /\ Name(c, At(c, name)) = name
            /\ \A i \in 1..Size(c) : Name(c, i) = name => At(c, name) <= i
<1> DEFINE named == {i \in DOMAIN c.workflows : Name(c, i) = name}
<1>1. CASE named = {}
  BY <1>1, Shape DEF At
<1>2. CASE named # {}
  <2>1. named \in SUBSET Nat /\ named \subseteq 1..Size(c)
    BY Shape
  <2>2. \E n \in named : \A m \in named : n <= m
    <3> HIDE DEF named
    <3> QED
      BY <1>2, <2>1, Least
  <2>3. Expands!Min(named) \in named /\ \A m \in named : Expands!Min(named) <= m
    <3> HIDE DEF named
    <3> QED
      BY <2>2 DEF Expands!Min
  <2>4. At(c, name) = Expands!Min(named)
    BY <1>2 DEF At
  <2> HIDE <2>2
  <2> QED
    BY <2>1, <2>3, <2>4, Shape
<1> QED
  BY <1>1, <1>2

\* The workflow that is asked for is the first.
LEMMA FirstAt ==
  ASSUME NEW c \in Configs, Size(c) # 0
  PROVE  At(c, Name(c, 1)) = 1
<1>1. 1 \in 1..Size(c) /\ Name(c, 1) = Name(c, 1)
  BY Shape
<1>2. At(c, Name(c, 1)) # None
  BY <1>1, AtIs, Shape
<1> QED
  BY <1>1, <1>2, AtIs, Shape

--------------------------------------------------------------------------------
(* WorkflowExpansion: what is referred to, and what expands.                 *)

RefAt(c, i, m) == At(c, RefName(c, i, m))

NamesOf(c) ==
  {Name(c, i) : i \in 1..Size(c)}
    \cup UNION {{RefName(c, i, m) : m \in {n \in 1..Len(Phases(c, i)) : Refers(c, i, n)}} :
                  i \in 1..Size(c)}

ClosedIn(c, S) ==
  \A i \in 1..Size(c) : At(c, Name(c, i)) = i /\ Name(c, i) \in S =>
    \A m \in 1..Len(Phases(c, i)) : Refers(c, i, m) => RefName(c, i, m) \in S

Reach(c) ==
  {name \in NamesOf(c) :
     \A S \in SUBSET NamesOf(c) : Name(c, 1) \in S /\ ClosedIn(c, S) => name \in S}

Ring(c, C) ==
  \A i \in C : \E m \in 1..Len(Phases(c, i)) : Refers(c, i, m) /\ RefAt(c, i, m) \in C

KnownIn(c) == {i \in 1..Size(c) : At(c, Name(c, i)) = i /\ Name(c, i) \in Reach(c)}
Cyclic(c) == \E C \in SUBSET KnownIn(c) : C # {} /\ Ring(c, C)
Dangles(c) == \E name \in Reach(c) : At(c, name) = None

\* The workflows of F expand: what they refer to is there, and among them, and no
\* reference comes round.
Fine(c, F) ==
  /\ F \subseteq 1..Size(c)
  /\ \A i \in F : At(c, Name(c, i)) = i
  /\ \A i \in F : \A m \in 1..Len(Phases(c, i)) : Refers(c, i, m) => RefAt(c, i, m) \in F
  /\ \A C \in SUBSET F : C # {} => ~Ring(c, C)

FineAll(c) == UNION {F \in SUBSET (1..Size(c)) : Fine(c, F)}

\* What is referred to is a name of the configuration.
LEMMA RefNamed ==
  ASSUME NEW c, NEW i \in 1..Size(c), NEW m \in 1..Len(Phases(c, i)), Refers(c, i, m)
  PROVE  RefName(c, i, m) \in NamesOf(c)
  BY DEF NamesOf

\* The first workflow is reached, and from a workflow that is, all it refers to.
LEMMA Reached ==
  ASSUME NEW c \in Configs, Size(c) # 0
  PROVE  /\ Name(c, 1) \in Reach(c)
         /\ \A i \in 1..Size(c) : At(c, Name(c, i)) = i /\ Name(c, i) \in Reach(c) =>
              \A m \in 1..Len(Phases(c, i)) : Refers(c, i, m) => RefName(c, i, m) \in Reach(c)
<1>1. Name(c, 1) \in Reach(c)
  BY Shape DEF Reach, NamesOf
<1>2. ASSUME NEW i \in 1..Size(c), At(c, Name(c, i)) = i, Name(c, i) \in Reach(c),
             NEW m \in 1..Len(Phases(c, i)), Refers(c, i, m)
      PROVE  RefName(c, i, m) \in Reach(c)
  <2>1. ASSUME NEW S \in SUBSET NamesOf(c), Name(c, 1) \in S, ClosedIn(c, S)
        PROVE  RefName(c, i, m) \in S
    BY <1>2, <2>1 DEF Reach, ClosedIn
  <2> QED
    BY <1>2, <2>1, RefNamed DEF Reach
<1> QED
  BY <1>1, <1>2

\* All that expands, taken together, expands.
LEMMA FineIsFine ==
  ASSUME NEW c \in Configs
  PROVE  Fine(c, FineAll(c))
<1> DEFINE A == FineAll(c)
<1>1. ASSUME NEW i \in A
      PROVE  \E F \in SUBSET A : i \in F /\ Fine(c, F)
  BY DEF FineAll
<1>2. A \subseteq 1..Size(c)
  BY DEF FineAll
<1>3. \A i \in A : At(c, Name(c, i)) = i
  BY <1>1 DEF Fine
<1>4. \A i \in A : \A m \in 1..Len(Phases(c, i)) : Refers(c, i, m) => RefAt(c, i, m) \in A
  BY <1>1 DEF Fine
<1>5. ASSUME NEW C \in SUBSET A, C # {}, Ring(c, C) PROVE FALSE
  <2>1. PICK i \in C : TRUE
    BY <1>5
  <2>2. PICK F \in SUBSET A : i \in F /\ Fine(c, F)
    BY <1>1
  <2>3. Ring(c, C \cap F)
    BY <1>5, <2>2 DEF Ring, Fine
  <2>4. C \cap F # {} /\ C \cap F \in SUBSET F
    BY <2>1, <2>2
  <2> QED
    BY <2>2, <2>3, <2>4 DEF Fine
<1> QED
  BY <1>2, <1>3, <1>4, <1>5 DEF Fine

\* A workflow expands when all that it refers to does.
LEMMA FineGrows ==
  ASSUME NEW c \in Configs, NEW i \in 1..Size(c), At(c, Name(c, i)) = i,
         \A m \in 1..Len(Phases(c, i)) : Refers(c, i, m) => RefAt(c, i, m) \in FineAll(c)
  PROVE  i \in FineAll(c)
<1> SUFFICES ASSUME i \notin FineAll(c) PROVE FALSE
  OBVIOUS
<1> DEFINE A == FineAll(c)
           G == A \cup {i}
<1>1. Fine(c, A)
  BY FineIsFine
<1> HIDE DEF A
<1>2. ASSUME NEW C \in SUBSET G, C # {}, Ring(c, C) PROVE FALSE
  <2>1. Ring(c, C \ {i})
    <3> SUFFICES ASSUME NEW j \in C \ {i}
                 PROVE  \E m \in 1..Len(Phases(c, j)) : Refers(c, j, m) /\ RefAt(c, j, m) \in C \ {i}
      BY DEF Ring
    <3>1. PICK m \in 1..Len(Phases(c, j)) : Refers(c, j, m) /\ RefAt(c, j, m) \in C
      BY <1>2 DEF Ring
    <3>2. RefAt(c, j, m) \in A
      BY <1>1, <3>1 DEF Fine
    <3> QED
      BY <3>1, <3>2 DEF A
  <2>2. C \ {i} # {}
    <3> SUFFICES ASSUME C = {i} PROVE FALSE
      BY <1>2
    <3>1. PICK m \in 1..Len(Phases(c, i)) : Refers(c, i, m) /\ RefAt(c, i, m) = i
      BY <1>2 DEF Ring
    <3> QED
      BY <3>1
  <2>3. C \ {i} \in SUBSET A
    OBVIOUS
  <2> QED
    BY <1>1, <2>1, <2>2, <2>3 DEF Fine
<1>3. Fine(c, G)
  <2>1. G \subseteq 1..Size(c)
    BY <1>1 DEF Fine
  <2>2. \A j \in G : At(c, Name(c, j)) = j
    BY <1>1 DEF Fine
  <2>3. \A j \in G : \A m \in 1..Len(Phases(c, j)) : Refers(c, j, m) => RefAt(c, j, m) \in G
    BY <1>1 DEF Fine, A
  <2>4. \A C \in SUBSET G : C # {} => ~Ring(c, C)
    BY <1>2
  <2> HIDE DEF G
  <2> QED
    BY <2>1, <2>2, <2>3, <2>4 DEF Fine
<1>4. G \in SUBSET (1..Size(c)) /\ i \in G
  BY <1>3 DEF Fine
<1> HIDE DEF G
<1> QED
  BY <1>3, <1>4 DEF FineAll

\* When the first workflow expands, no name that is referred to is missing and no
\* reference comes round.
LEMMA FineWhole ==
  ASSUME NEW c \in Configs, Size(c) # 0, 1 \in FineAll(c)
  PROVE  ~Cyclic(c) /\ ~Dangles(c)
<1> DEFINE S == {Name(c, i) : i \in FineAll(c)}
<1>1. Fine(c, FineAll(c))
  BY FineIsFine
<1>2. \A i \in FineAll(c) : i \in 1..Size(c) /\ At(c, Name(c, i)) = i
  BY <1>1 DEF Fine
<1>3. S \in SUBSET NamesOf(c) /\ Name(c, 1) \in S
  BY <1>2 DEF NamesOf
<1>4. ClosedIn(c, S)
  <2> SUFFICES ASSUME NEW i \in 1..Size(c), At(c, Name(c, i)) = i, Name(c, i) \in S,
                      NEW m \in 1..Len(Phases(c, i)), Refers(c, i, m)
               PROVE  RefName(c, i, m) \in S
    BY DEF ClosedIn
  <2>1. i \in FineAll(c)
    BY <1>2
  <2>2. RefAt(c, i, m) \in FineAll(c)
    BY <1>1, <2>1 DEF Fine
  <2>3. Name(c, RefAt(c, i, m)) = RefName(c, i, m)
    BY <1>2, <2>2, AtIs, Shape DEF RefAt
  <2> QED
    BY <2>2, <2>3
<1>5. Reach(c) \subseteq S
  <2> HIDE DEF S
  <2> QED
    BY <1>3, <1>4 DEF Reach
<1>6. KnownIn(c) \subseteq FineAll(c)
  BY <1>2, <1>5 DEF KnownIn
<1>7. ~Cyclic(c)
  BY <1>1, <1>6 DEF Cyclic, Fine
<1>8. ~Dangles(c)
  BY <1>2, <1>5, Shape DEF Dangles
<1> QED
  BY <1>7, <1>8

--------------------------------------------------------------------------------
(* WorkflowExpansion: the phases of a workflow and of what it refers to.     *)

\* Expands!Joined and Expands!Flat, of the configuration c.
JoinedIn(c, expansions, i, m) ==
  LET phases == c.workflows[i].phases
      upTo[k \in 0..Len(phases)] ==
        IF k = 0 THEN <<>>
        ELSE upTo[k - 1] \o
               (IF phases[k].kind = "phase" THEN <<phases[k].id>>
                ELSE IF FoundIn(c, phases[k].id) = None THEN <<>>
                ELSE expansions[FoundIn(c, phases[k].id)])
  IN  upTo[m]

FlatIn(c, n) ==
  LET deep[d \in 0..Len(c.workflows)] ==
        [i \in DOMAIN c.workflows |->
           IF d = 0 THEN <<>> ELSE JoinedIn(c, deep[d - 1], i, Len(c.workflows[i].phases))]
  IN  deep[n]

Ids(c) == UNION {{Phases(c, i)[m].id : m \in 1..Len(Phases(c, i))} : i \in 1..Size(c)}
Expansions(c) == [1..Size(c) -> Seq(Ids(c))]

\* What the kth phase of workflow i stands for.
Piece(c, e, i, k) ==
  IF Phases(c, i)[k].kind = "phase" THEN <<Phases(c, i)[k].id>>
  ELSE IF RefAt(c, i, k) = None THEN <<>> ELSE e[RefAt(c, i, k)]

\* A piece is a sequence of phases.
LEMMA PieceIs ==
  ASSUME NEW c \in Configs, NEW e \in Expansions(c), NEW i \in 1..Size(c),
         NEW k \in 1..Len(Phases(c, i))
  PROVE  Piece(c, e, i, k) \in Seq(Ids(c))
<1>1. Phases(c, i)[k].id \in Ids(c)
  BY DEF Ids
<1>2. RefAt(c, i, k) # None => RefAt(c, i, k) \in 1..Size(c)
  BY AtIs DEF RefAt
<1>3. RefAt(c, i, k) # None => e[RefAt(c, i, k)] \in Seq(Ids(c))
  BY <1>2 DEF Expansions
<1>4. <<Phases(c, i)[k].id>> \in Seq(Ids(c)) /\ <<>> \in Seq(Ids(c))
  BY <1>1
<1> QED
  BY <1>3, <1>4 DEF Piece

\* Joined begins empty and gets longer by a piece at a time.
LEMMA JoinedIs ==
  ASSUME NEW c \in Configs, NEW e \in Expansions(c), NEW i \in 1..Size(c)
  PROVE  /\ JoinedIn(c, e, i, 0) = <<>>
         /\ \A k \in 1..Len(Phases(c, i)) :
              JoinedIn(c, e, i, k) = JoinedIn(c, e, i, k - 1) \o Piece(c, e, i, k)
         /\ \A k \in 0..Len(Phases(c, i)) : JoinedIn(c, e, i, k) \in Seq(Ids(c))
<1> DEFINE N == Len(Phases(c, i))
           D == 0..N
           V == Seq(Ids(c))
           m == [k \in D |-> k]
           phases == c.workflows[i].phases
           E(f, k) == IF k = 0 THEN <<>>
                      ELSE f[k - 1] \o
                        (IF phases[k].kind = "phase" THEN <<phases[k].id>>
                         ELSE IF FoundIn(c, phases[k].id) = None THEN <<>>
                         ELSE e[FoundIn(c, phases[k].id)])
           step == [k \in D |-> [f \in [D -> V] |-> E(f, k)]]
           Is(f) == f = [k \in 0..Len(phases) |-> E(f, k)]
           upTo == CHOOSE f : Is(f)
<1>1. N \in Nat /\ <<>> \in V
  BY Shape
<1>2. \A f : \A k \in D : E(f, k) = IF k = 0 THEN <<>> ELSE f[k - 1] \o Piece(c, e, i, k)
  <2>1. \A k : Piece(c, e, i, k) =
                 IF phases[k].kind = "phase" THEN <<phases[k].id>>
                 ELSE IF FoundIn(c, phases[k].id) = None THEN <<>>
                 ELSE e[FoundIn(c, phases[k].id)]
    <3>1. \A k : RefAt(c, i, k) = FoundIn(c, phases[k].id)
      BY FoundByName DEF RefAt, RefName, Phases
    <3> QED
      BY <3>1 DEF Piece, Phases
  <2> QED
    BY <2>1
<1> HIDE DEF E
<1>3. step \in [D -> [[D -> V] -> V]]
  <2>1. ASSUME NEW k \in D, NEW f \in [D -> V] PROVE E(f, k) \in V
    <3>1. CASE k = 0
      <4>1. E(f, k) = <<>>
        BY <1>2, <3>1
      <4> QED
        BY <1>1, <4>1
    <3>2. CASE k # 0
      <4>1. k \in 1..N /\ k - 1 \in D
        BY <1>1, <3>2
      <4>2. Piece(c, e, i, k) \in V
        BY <4>1, PieceIs
      <4>3. f[k - 1] \in V
        BY <4>1
      <4> QED
        BY <1>2, <3>2, <4>2, <4>3, ConcatProperties
    <3> QED
      BY <3>1, <3>2
  <2> HIDE DEF D, V
  <2> QED
    BY <2>1
<1>4. ASSUME NEW k \in D, NEW f \in [D -> V], NEW g \in [D -> V],
             \A j \in D : m[j] < m[k] => f[j] = g[j]
      PROVE  step[k][f] = step[k][g]
  <2>1. k # 0 => f[k - 1] = g[k - 1]
    BY <1>1, <1>4
  <2>2. E(f, k) = E(g, k)
    BY <1>2, <2>1
  <2> HIDE DEF D, V
  <2> QED
    BY <2>2
<1>5. \E f \in [D -> V] : Is(f)
  <2>1. m \in [D -> 0..N] /\ V # {}
    <3> HIDE DEF V
    <3> QED
      BY <1>1
  <2>2. D = 0..Len(phases)
    BY DEF Phases
  <2> HIDE DEF D, V, N, m, step
  <2>3. Descends(D, V, N, m, step)
    BY <1>1, <1>3, <1>4, <2>1 DEF Descends
  <2>4. PICK f \in [D -> V] : Recurs(f, D, step)
    BY <2>3, Recursion
  <2>5. \A k \in D : f[k] = E(f, k)
    BY <2>4 DEF Recurs, step
  <2> QED
    BY <2>2, <2>4, <2>5
<1>6. Is(upTo)
  <2> HIDE DEF Is
  <2> QED
    BY <1>5
<1>7. \A k : JoinedIn(c, e, i, k) = upTo[k]
  BY DEF JoinedIn, E
<1> HIDE DEF upTo
<1>8. \A k \in D : upTo[k] = IF k = 0 THEN <<>> ELSE upTo[k - 1] \o Piece(c, e, i, k)
  BY <1>2, <1>6 DEF Phases
<1>9. \A k \in D : upTo[k] \in V
  <2> DEFINE S == {k \in Nat : k <= N => upTo[k] \in V}
  <2>1. 0 \in S
    <3>1. 0 \in D /\ upTo[0] = <<>>
      BY <1>1, <1>8
    <3> HIDE DEF V
    <3> QED
      BY <1>1, <3>1
  <2>2. ASSUME NEW k \in Nat, k \in S PROVE k + 1 \in S
    <3> SUFFICES ASSUME k + 1 <= N PROVE upTo[k + 1] \in V
      OBVIOUS
    <3>1. k + 1 \in 1..N /\ (k + 1) - 1 = k /\ k + 1 \in D /\ k + 1 # 0
      BY <1>1
    <3>2. upTo[k] \in V /\ Piece(c, e, i, k + 1) \in V
      BY <1>1, <2>2, <3>1, PieceIs
    <3>3. upTo[k + 1] = upTo[k] \o Piece(c, e, i, k + 1)
      BY <1>8, <3>1
    <3> QED
      BY <3>2, <3>3, ConcatProperties
  <2> HIDE DEF S
  <2>3. \A k \in Nat : k \in S
    BY <2>1, <2>2, Counting
  <2> QED
    BY <1>1, <2>3 DEF S
<1>10. 0 \in D /\ \A k \in 1..N : k \in D /\ k # 0
  BY <1>1
<1> QED
  BY <1>7, <1>8, <1>9, <1>10

\* Flat is what Joined makes of the workflows flattened one level less.
LEMMA FlatIs ==
  ASSUME NEW c \in Configs
  PROVE  /\ \A n \in 0..Size(c) : FlatIn(c, n) \in Expansions(c)
         /\ \A n \in 1..Size(c), i \in 1..Size(c) :
              FlatIn(c, n)[i] = JoinedIn(c, FlatIn(c, n - 1), i, Len(Phases(c, i)))
<1> DEFINE N == Size(c)
           D == 0..N
           V == Expansions(c)
           m == [k \in D |-> k]
           E(f, d) == [i \in DOMAIN c.workflows |->
                         IF d = 0 THEN <<>> ELSE JoinedIn(c, f[d - 1], i, Len(c.workflows[i].phases))]
           step == [d \in D |-> [f \in [D -> V] |-> E(f, d)]]
           Is(f) == f = [d \in 0..Len(c.workflows) |-> E(f, d)]
           deep == CHOOSE f : Is(f)
<1>1. N \in Nat /\ DOMAIN c.workflows = 1..N
  BY Shape
<1>2. ASSUME NEW f, NEW d \in D, d # 0 => f[d - 1] \in V PROVE E(f, d) \in V
  <2>1. ASSUME NEW i \in 1..N, d # 0
        PROVE  JoinedIn(c, f[d - 1], i, Len(c.workflows[i].phases)) \in Seq(Ids(c))
    <3>1. Len(Phases(c, i)) \in 0..Len(Phases(c, i))
      BY Shape
    <3> QED
      BY <1>2, <2>1, <3>1, JoinedIs DEF Phases
  <2>2. <<>> \in Seq(Ids(c))
    OBVIOUS
  <2> QED
    BY <1>1, <2>1, <2>2 DEF Expansions
<1>3. step \in [D -> [[D -> V] -> V]]
  <2>1. \A d \in D : \A f \in [D -> V] : d # 0 => f[d - 1] \in V
    BY <1>1
  <2> HIDE DEF D, V, E
  <2>2. \A d \in D : \A f \in [D -> V] : E(f, d) \in V
    BY <1>2, <2>1
  <2> QED
    BY <2>2
<1>4. ASSUME NEW k \in D, NEW f \in [D -> V], NEW g \in [D -> V],
             \A j \in D : m[j] < m[k] => f[j] = g[j]
      PROVE  step[k][f] = step[k][g]
  <2>1. k # 0 => f[k - 1] = g[k - 1]
    BY <1>1, <1>4
  <2>2. E(f, k) = E(g, k)
    BY <2>1
  <2> HIDE DEF D, V, E
  <2> QED
    BY <2>2
<1>5. \E f \in [D -> V] : Is(f)
  <2>1. m \in [D -> 0..N] /\ V # {}
    <3>1. [i \in 1..N |-> <<>>] \in V
      BY DEF Expansions
    <3> QED
      BY <1>1, <3>1
  <2>2. D = 0..Len(c.workflows)
    BY DEF Size
  <2> HIDE DEF D, V, N, m, step, E
  <2>3. Descends(D, V, N, m, step)
    BY <1>1, <1>3, <1>4, <2>1 DEF Descends
  <2>4. PICK f \in [D -> V] : Recurs(f, D, step)
    BY <2>3, Recursion
  <2>5. \A k \in D : f[k] = E(f, k)
    BY <2>4 DEF Recurs, step
  <2> QED
    BY <2>2, <2>4, <2>5
<1>6. Is(deep)
  <2> HIDE DEF Is
  <2> QED
    BY <1>5
<1>7. \A k : FlatIn(c, k) = deep[k]
  BY DEF FlatIn
<1> HIDE DEF deep
<1>8. \A k \in D : deep[k] = E(deep, k)
  <2> HIDE DEF E
  <2> QED
    BY <1>6 DEF Size
<1>9. \A k \in D : deep[k] \in V
  <2> DEFINE S == {k \in Nat : k <= N => deep[k] \in V}
  <2> HIDE DEF E, V
  <2>1. 0 \in S
    BY <1>1, <1>2, <1>8
  <2>2. ASSUME NEW k \in Nat, k \in S PROVE k + 1 \in S
    <3> SUFFICES ASSUME k + 1 <= N PROVE deep[k + 1] \in V
      OBVIOUS
    <3>1. (k + 1) - 1 = k /\ k + 1 \in D /\ k + 1 # 0 /\ k <= N
      BY <1>1
    <3>2. deep[k] \in V
      BY <2>2, <3>1
    <3> QED
      BY <1>2, <1>8, <3>1, <3>2
  <2> HIDE DEF S
  <2>3. \A k \in Nat : k \in S
    BY <2>1, <2>2, Counting
  <2> QED
    BY <1>1, <2>3 DEF S
<1>10. ASSUME NEW n \in 1..N, NEW i \in 1..N
       PROVE  deep[n][i] = JoinedIn(c, deep[n - 1], i, Len(Phases(c, i)))
  <2>1. n \in D /\ n # 0
    BY <1>1
  <2> QED
    BY <1>1, <1>8, <2>1 DEF Phases
<1> QED
  BY <1>7, <1>9, <1>10

--------------------------------------------------------------------------------
(* WorkflowExpansion: the workflows that are entered and not left.           *)

Frames(c) == [name : NamesOf(c), at : 1..Size(c), next : Nat \ {0}]

\* The frame at k is of the workflow of its name, which is referred to from the first.
Placed(c, st, k) ==
  /\ st[k].at = At(c, st[k].name) /\ st[k].name \in Reach(c)
  /\ st[k].next <= Len(Phases(c, st[k].at)) + 1

\* What the frame at k has passed expands.
Passed(c, st, k) ==
  \A m \in 1..(st[k].next - 1) : Refers(c, st[k].at, m) => RefAt(c, st[k].at, m) \in FineAll(c)

\* The frame at k is at its reference to the one above it.
RefersUp(c, st, k) ==
  Refers(c, st[k].at, st[k].next) /\ RefName(c, st[k].at, st[k].next) = st[k + 1].name

Entered(c, st, ac) ==
  /\ st \in Seq(Frames(c))
  /\ Len(st) > 0 => st[1].at = 1
  /\ \A k \in 1..Len(st) : Placed(c, st, k) /\ Passed(c, st, k)
  /\ \A j, k \in 1..Len(st) : st[j].name = st[k].name => j = k
  /\ \A k \in 1..(Len(st) - 1) : RefersUp(c, st, k)
  /\ ac = {st[k].name : k \in 1..Len(st)}

Advance(st) == [st EXCEPT ![Len(st)].next = @ + 1]

\* Only the frame on top goes on by one.
LEMMA AdvanceIs ==
  ASSUME NEW c, NEW st \in Seq(Frames(c)), Len(st) > 0
  PROVE  /\ Advance(st) \in Seq(Frames(c)) /\ Len(Advance(st)) = Len(st)
         /\ \A k \in 1..Len(st) :
              /\ Advance(st)[k].name = st[k].name /\ Advance(st)[k].at = st[k].at
              /\ Advance(st)[k].next = IF k = Len(st) THEN st[k].next + 1 ELSE st[k].next
<1>1. Len(st) \in 1..Len(st) /\ DOMAIN st = 1..Len(st) /\ Len(st) \in Nat
  OBVIOUS
<1>2. \A k \in 1..Len(st) : st[k] \in Frames(c)
  OBVIOUS
<1>3. [st[Len(st)] EXCEPT !.next = @ + 1] \in Frames(c)
  BY <1>1, <1>2 DEF Frames
<1>4. Advance(st) = [st EXCEPT ![Len(st)] = [st[Len(st)] EXCEPT !.next = @ + 1]]
  BY DEF Advance
<1>5. Advance(st) \in Seq(Frames(c)) /\ Len(Advance(st)) = Len(st)
  BY <1>1, <1>3, <1>4, ExceptSeq
<1>6. \A k \in 1..Len(st) :
        Advance(st)[k] = IF k = Len(st) THEN [st[Len(st)] EXCEPT !.next = @ + 1] ELSE st[k]
  BY <1>1, <1>4
<1> QED
  BY <1>1, <1>2, <1>5, <1>6 DEF Frames

\* The stack stays a way into the configuration when its top passes what expands,
LEMMA EnteredAdvance ==
  ASSUME NEW c \in Configs, NEW st, NEW ac, Entered(c, st, ac), Len(st) > 0,
         st[Len(st)].next <= Len(Phases(c, st[Len(st)].at)),
         Refers(c, st[Len(st)].at, st[Len(st)].next) =>
           RefAt(c, st[Len(st)].at, st[Len(st)].next) \in FineAll(c)
  PROVE  Entered(c, Advance(st), ac)
<1> DEFINE to == Advance(st)
           n == Len(st)
<1>1. st \in Seq(Frames(c)) /\ n \in Nat /\ \A k \in 1..n : st[k] \in Frames(c)
  BY DEF Entered
<1>2. /\ to \in Seq(Frames(c)) /\ Len(to) = n
      /\ \A k \in 1..n : /\ to[k].name = st[k].name /\ to[k].at = st[k].at
                         /\ to[k].next = IF k = n THEN st[k].next + 1 ELSE st[k].next
  BY <1>1, AdvanceIs
<1> HIDE DEF to
<1>3. \A k \in 1..n : st[k].next \in Nat \ {0} /\ st[k].at \in 1..Size(c)
  BY <1>1 DEF Frames
<1>4. ASSUME NEW k \in 1..n PROVE Placed(c, to, k) /\ Passed(c, to, k)
  <2>1. Placed(c, st, k) /\ Passed(c, st, k)
    BY DEF Entered
  <2>2. Len(Phases(c, st[k].at)) \in Nat
    BY <1>3, Shape
  <2>3. Placed(c, to, k)
    BY <1>2, <1>3, <2>1, <2>2 DEF Placed
  <2>4. ASSUME NEW m \in 1..(to[k].next - 1), Refers(c, to[k].at, m)
        PROVE  RefAt(c, to[k].at, m) \in FineAll(c)
    <3>1. CASE m \in 1..(st[k].next - 1)
      BY <1>2, <2>1, <2>4, <3>1 DEF Passed
    <3>2. CASE m \notin 1..(st[k].next - 1)
      <4>1. k = n /\ m = st[k].next
        BY <1>2, <1>3, <3>2
      <4> QED
        BY <1>2, <2>4, <4>1
    <3> QED
      BY <3>1, <3>2
  <2> QED
    BY <2>3, <2>4 DEF Passed
<1>5. \A k \in 1..(n - 1) : RefersUp(c, to, k)
  <2> SUFFICES ASSUME NEW k \in 1..(n - 1) PROVE RefersUp(c, to, k)
    OBVIOUS
  <2>1. k \in 1..n /\ k + 1 \in 1..n /\ k # n
    BY <1>1
  <2>2. RefersUp(c, st, k)
    BY DEF Entered
  <2> QED
    BY <1>2, <2>1, <2>2 DEF RefersUp
<1>6. n > 0 /\ 1 \in 1..n => to[1].at = 1
  BY <1>2 DEF Entered
<1>7. \A j, k \in 1..n : to[j].name = to[k].name => j = k
  BY <1>2 DEF Entered
<1>8. ac = {to[k].name : k \in 1..n}
  BY <1>2 DEF Entered
<1>9. Entered(c, to, ac)
  BY <1>1, <1>2, <1>4, <1>5, <1>6, <1>7, <1>8 DEF Entered
<1> QED
  BY <1>9 DEF to

\* when what its top refers to is entered,
LEMMA EnteredPush ==
  ASSUME NEW c \in Configs, Size(c) # 0, NEW st, NEW ac, Entered(c, st, ac), Len(st) > 0,
         Refers(c, st[Len(st)].at, st[Len(st)].next),
         NEW name, name = RefName(c, st[Len(st)].at, st[Len(st)].next),
         name \notin ac, At(c, name) # None,
         NEW n \in Nat \ {0}, n <= Len(Phases(c, At(c, name))) + 1,
         \A m \in 1..(n - 1) : Refers(c, At(c, name), m) => RefAt(c, At(c, name), m) \in FineAll(c)
  PROVE  Entered(c, Append(st, [name |-> name, at |-> At(c, name), next |-> n]), ac \cup {name})
<1> DEFINE frame == [name |-> name, at |-> At(c, name), next |-> n]
           to == Append(st, frame)
           l == Len(st)
           top == st[l]
<1>1. st \in Seq(Frames(c)) /\ l \in Nat /\ \A k \in 1..l : st[k] \in Frames(c)
  BY DEF Entered
<1>2. l \in 1..l /\ top.at \in 1..Size(c) /\ top.next \in 1..Len(Phases(c, top.at))
  BY <1>1 DEF Frames, Refers
<1>3. name \in NamesOf(c) /\ name \in Reach(c)
  <2>1. Placed(c, st, l)
    BY <1>2 DEF Entered
  <2>2. At(c, Name(c, top.at)) = top.at /\ Name(c, top.at) \in Reach(c)
    BY <1>2, <2>1, AtIs, Shape DEF Placed
  <2> QED
    BY <1>2, <2>2, Reached DEF Reach
<1>4. At(c, name) \in 1..Size(c)
  BY AtIs
<1>5. frame \in Frames(c)
  BY <1>3, <1>4 DEF Frames
<1>6. /\ to \in Seq(Frames(c)) /\ Len(to) = l + 1
      /\ \A k \in 1..l : to[k] = st[k]
      /\ to[l + 1] = frame
  BY <1>1, <1>5, AppendProperties
<1>7. frame.name = name /\ frame.at = At(c, name) /\ frame.next = n
  OBVIOUS
<1> HIDE DEF to, frame
<1>8. ASSUME NEW k \in 1..(l + 1) PROVE Placed(c, to, k) /\ Passed(c, to, k)
  <2>1. CASE k \in 1..l
    BY <1>6, <2>1 DEF Entered, Placed, Passed
  <2>2. CASE k = l + 1
    BY <1>3, <1>6, <1>7, <2>2 DEF Placed, Passed
  <2> QED
    BY <1>1, <2>1, <2>2
<1>9. ASSUME NEW k \in 1..((l + 1) - 1) PROVE RefersUp(c, to, k)
  <2>1. CASE k \in 1..(l - 1)
    <3>1. k \in 1..l /\ k + 1 \in 1..l /\ RefersUp(c, st, k)
      BY <1>1, <2>1 DEF Entered
    <3> QED
      BY <1>6, <3>1 DEF RefersUp
  <2>2. CASE k = l
    BY <1>2, <1>6, <1>7, <2>2 DEF RefersUp
  <2> QED
    BY <1>1, <2>1, <2>2
<1>10. ASSUME NEW j \in 1..(l + 1), NEW k \in 1..(l + 1), to[j].name = to[k].name
       PROVE  j = k
  <2>1. \A i \in 1..l : to[i].name # name
    BY <1>6 DEF Entered
  <2>2. to[l + 1].name = name
    BY <1>6, <1>7
  <2>3. CASE j \in 1..l /\ k \in 1..l
    BY <1>6, <1>10, <2>3 DEF Entered
  <2> QED
    BY <1>1, <1>10, <2>1, <2>2, <2>3
<1>11. ac \cup {name} = {to[k].name : k \in 1..(l + 1)}
  <2>1. 1..(l + 1) = (1..l) \cup {l + 1}
    BY <1>1
  <2>2. {to[k].name : k \in 1..l} = ac
    BY <1>6 DEF Entered
  <2> QED
    BY <1>6, <1>7, <2>1, <2>2
<1>12. to[1].at = 1
  BY <1>2, <1>6 DEF Entered
<1> QED
  BY <1>6, <1>8, <1>9, <1>10, <1>11, <1>12 DEF Entered, to, frame

\* and when its top is left.
LEMMA EnteredPop ==
  ASSUME NEW c \in Configs, NEW st, NEW ac, Entered(c, st, ac), Len(st) > 0
  PROVE  /\ Entered(c, SubSeq(st, 1, Len(st) - 1), ac \ {st[Len(st)].name})
         /\ Len(SubSeq(st, 1, Len(st) - 1)) = Len(st) - 1
         /\ \A k \in 1..(Len(st) - 1) : SubSeq(st, 1, Len(st) - 1)[k] = st[k]
<1> DEFINE l == Len(st)
           to == SubSeq(st, 1, l - 1)
<1>1. st \in Seq(Frames(c)) /\ l \in Nat /\ l # 0
  BY DEF Entered
<1>2. /\ to \in Seq(Frames(c)) /\ Len(to) = l - 1
      /\ \A k \in 1..(l - 1) : to[k] = st[k] /\ k \in 1..l
  <2>1. l - 1 \in Int /\ 1 \in Int /\ \A k \in 1..(l - 1) : k \in 1..l /\ st[k] \in Frames(c)
    BY <1>1
  <2>2. /\ to \in Seq(Frames(c)) /\ Len(to) = IF 1 <= l - 1 THEN (l - 1) - 1 + 1 ELSE 0
        /\ \A k \in 1..((l - 1) - 1 + 1) : to[k] = st[1 + k - 1]
    <3> HIDE DEF l
    <3> QED
      BY <2>1, SubSeqProperties
  <2> HIDE DEF to, l
  <2>3. /\ (l - 1) - 1 + 1 = l - 1
        /\ (IF 1 <= l - 1 THEN (l - 1) - 1 + 1 ELSE 0) = l - 1
        /\ \A k \in 1..(l - 1) : 1 + k - 1 = k
    BY <1>1
  <2>4. \A k \in 1..(l - 1) : to[k] = st[k]
    BY <2>2, <2>3
  <2> QED
    BY <2>1, <2>2, <2>3, <2>4
<1> HIDE DEF to
<1>3. \A k \in 1..(l - 1) : Placed(c, to, k) /\ Passed(c, to, k)
  BY <1>2 DEF Entered, Placed, Passed
<1>4. ASSUME NEW k \in 1..((l - 1) - 1) PROVE RefersUp(c, to, k)
  <2>1. k \in 1..(l - 1) /\ k + 1 \in 1..(l - 1)
    BY <1>1
  <2> QED
    BY <1>2, <2>1 DEF Entered, RefersUp
<1>5. \A j, k \in 1..(l - 1) : to[j].name = to[k].name => j = k
  BY <1>2 DEF Entered
<1>6. ac \ {st[l].name} = {to[k].name : k \in 1..(l - 1)}
  <2>1. 1..l = (1..(l - 1)) \cup {l} /\ l \notin 1..(l - 1)
    BY <1>1
  <2>2. ac = {st[k].name : k \in 1..l}
    BY DEF Entered
  <2>3. \A k \in 1..(l - 1) : st[k].name # st[l].name
    BY <2>1 DEF Entered
  <2>4. \A k \in 1..l : k = l \/ k \in 1..(l - 1)
    BY <1>1
  <2>5. {to[k].name : k \in 1..(l - 1)} = {st[k].name : k \in 1..(l - 1)}
    BY <1>2
  <2>6. {st[k].name : k \in 1..l} \ {st[l].name} = {st[k].name : k \in 1..(l - 1)}
    BY <2>1, <2>3, <2>4
  <2> QED
    BY <2>2, <2>5, <2>6
<1>7. l - 1 > 0 => to[1].at = 1
  BY <1>1, <1>2 DEF Entered
<1>8. Entered(c, to, ac \ {st[l].name})
  BY <1>2, <1>3, <1>4, <1>5, <1>6, <1>7 DEF Entered
<1> QED
  BY <1>2, <1>8 DEF to

\* A workflow that is at its end expands.
LEMMA TopFine ==
  ASSUME NEW c \in Configs, NEW st, NEW ac, Entered(c, st, ac), NEW k \in 1..Len(st),
         st[k].next > Len(Phases(c, st[k].at))
  PROVE  st[k].at \in FineAll(c)
<1>1. st[k] \in Frames(c) /\ Placed(c, st, k) /\ Passed(c, st, k)
  BY DEF Entered
<1>2. st[k].at \in 1..Size(c) /\ At(c, Name(c, st[k].at)) = st[k].at
  BY <1>1, AtIs, Shape DEF Placed, Frames
<1>3. \A m \in 1..Len(Phases(c, st[k].at)) : Refers(c, st[k].at, m) =>
        RefAt(c, st[k].at, m) \in FineAll(c)
  BY <1>1, <1>2, Shape DEF Passed, Frames
<1> QED
  BY <1>2, <1>3, FineGrows

\* No more workflows are entered than there are.
LEMMA Depth ==
  ASSUME NEW c \in Configs, NEW st, NEW ac, Entered(c, st, ac)
  PROVE  Len(st) <= Size(c)
<1>1. st \in Seq(Frames(c)) /\ Len(st) \in Nat /\ Size(c) \in Nat
  BY Shape DEF Entered
<1> DEFINE f == [k \in 1..Len(st) |-> st[k].at]
<1>2. \A k \in 1..Len(st) : st[k].at \in 1..Size(c) /\ st[k].at = At(c, st[k].name)
  <2>1. \A k \in 1..Len(st) : st[k] \in Frames(c) /\ Placed(c, st, k)
    BY <1>1 DEF Entered
  <2> QED
    BY <2>1 DEF Placed, Frames
<1>3. \A k \in 1..Len(st) : Name(c, st[k].at) = st[k].name
  BY <1>2, AtIs, Shape
<1> DEFINE S == 1..Len(st)
           T == 1..Size(c)
<1>4. f \in [S -> T]
  BY <1>2
<1>5. \A j, k \in S : f[j] = f[k] => j = k
  BY <1>3 DEF Entered
<1> HIDE DEF f
<1>6. \A n \in Nat : IsFiniteSet(1..n) /\ Cardinality(1..n) = n
  BY FS_Interval
<1>7. /\ IsFiniteSet(S) /\ Cardinality(S) = Len(st)
      /\ IsFiniteSet(T) /\ Cardinality(T) = Size(c)
  BY <1>1, <1>6
<1> HIDE DEF S, T
<1>8. ~(Cardinality(T) < Cardinality(S))
  BY <1>4, <1>5, <1>7, FS_PigeonHole
<1> QED
  BY <1>1, <1>7, <1>8

--------------------------------------------------------------------------------
(* WorkflowExpansion: what is expanded so far.                               *)

\* The first m phases of workflow i, expanded n deep.
Upto(c, n, i, m) == JoinedIn(c, FlatIn(c, n - 1), i, m)

\* The result is what every frame has passed, from the first to the last.
Expanding(c, st, re) ==
  \E made \in [0..Len(st) -> Seq(Ids(c))] :
    /\ made[0] = <<>> /\ re = made[Len(st)]
    /\ \A k \in 1..Len(st) :
         made[k] = made[k - 1] \o Upto(c, Size(c) - k + 1, st[k].at, st[k].next - 1)

\* The first phases of a workflow, one more at a time, until they are all of it.
LEMMA UptoIs ==
  ASSUME NEW c \in Configs, NEW n \in 1..Size(c), NEW i \in 1..Size(c)
  PROVE  /\ Upto(c, n, i, 0) = <<>>
         /\ \A m \in 1..Len(Phases(c, i)) :
              Upto(c, n, i, m) = Upto(c, n, i, m - 1) \o Piece(c, FlatIn(c, n - 1), i, m)
         /\ \A m \in 0..Len(Phases(c, i)) : Upto(c, n, i, m) \in Seq(Ids(c))
         /\ Upto(c, n, i, Len(Phases(c, i))) = FlatIn(c, n)[i]
<1>1. n - 1 \in 0..Size(c)
  BY Shape
<1>2. FlatIn(c, n - 1) \in Expansions(c)
  BY <1>1, FlatIs
<1>3. FlatIn(c, n)[i] = JoinedIn(c, FlatIn(c, n - 1), i, Len(Phases(c, i)))
  BY FlatIs
<1> QED
  BY <1>2, <1>3, JoinedIs DEF Upto

\* Three sequences put one behind the other are the same whichever two come first.
Associate(a, b, d) == (a \o b) \o d = a \o (b \o d)

\* So it is of all sequences.
LEMMA Associates ==
  ASSUME NEW V, NEW a \in Seq(V), NEW b \in Seq(V), NEW d \in Seq(V)
  PROVE  Associate(a, b, d)
  BY ConcatAssociative DEF Associate

\* The result accounts for the stack when a piece is passed,
LEMMA ExpandingAdvance ==
  ASSUME NEW c \in Configs, NEW st, NEW ac, Entered(c, st, ac), Len(st) > 0,
         st[Len(st)].next <= Len(Phases(c, st[Len(st)].at)),
         NEW re, Expanding(c, st, re)
  PROVE  Expanding(c, Advance(st),
           re \o Piece(c, FlatIn(c, Size(c) - Len(st)), st[Len(st)].at, st[Len(st)].next))
<1> DEFINE to == Advance(st)
           l == Len(st)
           i == st[l].at
           n == st[l].next
           piece == Piece(c, FlatIn(c, Size(c) - l), i, n)
<1>1. st \in Seq(Frames(c)) /\ l \in Nat /\ l \in 1..l /\ \A k \in 1..l : st[k] \in Frames(c)
  BY DEF Entered
<1>2. /\ to \in Seq(Frames(c)) /\ Len(to) = l
      /\ \A k \in 1..l : /\ to[k].name = st[k].name /\ to[k].at = st[k].at
                         /\ to[k].next = IF k = l THEN st[k].next + 1 ELSE st[k].next
  BY <1>1, AdvanceIs
<1>3. i \in 1..Size(c) /\ n \in 1..Len(Phases(c, i))
  BY <1>1, Shape DEF Frames
<1>4. l \in 1..Size(c) /\ Size(c) - l + 1 \in 1..Size(c) /\ (Size(c) - l + 1) - 1 = Size(c) - l
      /\ Size(c) - l \in 0..Size(c)
  <2>1. l <= Size(c) /\ Size(c) \in Nat
    BY Depth, Shape
  <2> HIDE DEF l
  <2> QED
    BY <1>1, <2>1
<1>5. PICK made \in [0..l -> Seq(Ids(c))] :
        /\ made[0] = <<>> /\ re = made[l]
        /\ \A k \in 1..l :
             made[k] = made[k - 1] \o Upto(c, Size(c) - k + 1, st[k].at, st[k].next - 1)
  BY DEF Expanding
<1> HIDE DEF to
<1>6. piece \in Seq(Ids(c))
  BY <1>3, <1>4, FlatIs, PieceIs
<1> DEFINE more == [made EXCEPT ![l] = re \o piece]
<1> HIDE DEF piece
<1>7. re \in Seq(Ids(c)) /\ re \o piece \in Seq(Ids(c))
  <2>1. re \in Seq(Ids(c))
    BY <1>1, <1>5
  <2> QED
    BY <1>6, <2>1, ConcatProperties
<1>8. /\ more \in [0..l -> Seq(Ids(c))] /\ more[l] = re \o piece
      /\ \A k \in 0..(l - 1) : more[k] = made[k]
  <2>1. l \in 0..l /\ \A k \in 0..(l - 1) : k \in 0..l /\ k # l
    <3> HIDE DEF l
    <3> QED
      BY <1>1
  <2> HIDE DEF l
  <2> QED
    BY <1>5, <1>7, <2>1
<1> HIDE DEF more
<1>9. ASSUME NEW k \in 1..l
      PROVE  more[k] = more[k - 1] \o Upto(c, Size(c) - k + 1, to[k].at, to[k].next - 1)
  <2>1. k - 1 \in 0..(l - 1)
    BY <1>1
  <2>2. CASE k = l
    <3> DEFINE u == Upto(c, Size(c) - l + 1, i, n - 1)
    <3>1. Upto(c, Size(c) - l + 1, i, n) = u \o piece
      <4>1. \A d \in 1..Size(c) :
              Upto(c, d, i, n) = Upto(c, d, i, n - 1) \o Piece(c, FlatIn(c, d - 1), i, n)
        BY <1>3, UptoIs
      <4> QED
        BY <1>4, <4>1 DEF piece
    <3>2. u \in Seq(Ids(c))
      <4>1. n - 1 \in 0..Len(Phases(c, i))
        BY <1>3, Shape
      <4> QED
        BY <1>3, <1>4, <4>1, UptoIs
    <3>3. re = made[l - 1] \o u
      <4>1. made[l] = made[l - 1] \o Upto(c, Size(c) - l + 1, st[l].at, st[l].next - 1)
        <5> HIDE DEF l
        <5> QED
          BY <1>1, <1>5
      <4> QED
        BY <1>5, <4>1
    <3>6. made[l - 1] \in Seq(Ids(c))
      <4>1. l - 1 \in 0..l
        BY <1>1
      <4> HIDE DEF l
      <4> QED
        BY <1>5, <4>1
    <3> HIDE DEF u, l, n, i
    <3>4. re \o piece = made[l - 1] \o (u \o piece)
      <4> DEFINE V == Ids(c)
                 a == made[l - 1]
      <4>1. a \in Seq(V) /\ u \in Seq(V) /\ piece \in Seq(V)
        BY <1>6, <3>2, <3>6
      <4> HIDE DEF a, V
      <4>2. Associate(a, u, piece)
        BY <4>1, Associates
      <4> QED
        BY <3>3, <4>2 DEF a, Associate
    <3>5. to[l].at = i /\ to[l].next - 1 = n
      <4>1. to[l].at = i /\ to[l].next = n + 1
        BY <1>1, <1>2 DEF i, n
      <4>2. n \in Nat
        BY <1>3
      <4> QED
        BY <4>1, <4>2
    <3> QED
      BY <1>8, <2>1, <2>2, <3>1, <3>4, <3>5
  <2>3. CASE k # l
    <3>1. k \in 0..(l - 1) /\ k \in 1..l
      BY <1>1, <2>3
    <3>2. made[k] = made[k - 1] \o Upto(c, Size(c) - k + 1, st[k].at, st[k].next - 1)
      BY <1>5
    <3>3. to[k].at = st[k].at /\ to[k].next = st[k].next
      BY <1>2, <2>3
    <3>4. more[k] = made[k] /\ more[k - 1] = made[k - 1]
      BY <1>8, <2>1, <3>1
    <3> QED
      BY <3>2, <3>3, <3>4
  <2> QED
    BY <2>2, <2>3
<1>10. more[0] = <<>>
  BY <1>1, <1>5, <1>8
<1>11. Expanding(c, to, re \o piece)
  BY <1>2, <1>8, <1>9, <1>10 DEF Expanding
<1> QED
  BY <1>11 DEF to, piece

\* when a workflow is entered, which adds nothing yet,
LEMMA ExpandingPush ==
  ASSUME NEW c \in Configs, NEW st, NEW ac, Entered(c, st, ac), Len(st) < Size(c),
         NEW frame \in Frames(c), frame.next = 1,
         NEW re, Expanding(c, st, re)
  PROVE  Expanding(c, Append(st, frame), re)
<1> DEFINE to == Append(st, frame)
           l == Len(st)
<1>1. st \in Seq(Frames(c)) /\ l \in Nat
  BY DEF Entered
<1>2. Len(to) = l + 1 /\ to[l + 1] = frame /\ \A k \in 1..l : to[k] = st[k]
  BY <1>1, AppendProperties
<1>3. PICK made \in [0..l -> Seq(Ids(c))] :
        /\ made[0] = <<>> /\ re = made[l]
        /\ \A k \in 1..l :
             made[k] = made[k - 1] \o Upto(c, Size(c) - k + 1, st[k].at, st[k].next - 1)
  BY DEF Expanding
<1> DEFINE more == [k \in 0..(l + 1) |-> IF k = l + 1 THEN re ELSE made[k]]
<1>4. /\ more \in [0..(l + 1) -> Seq(Ids(c))] /\ more[l + 1] = re
      /\ \A k \in 0..l : more[k] = made[k]
  <2> HIDE DEF l
  <2> QED
    BY <1>1, <1>3
<1> HIDE DEF more, to
<1>5. ASSUME NEW k \in 1..(l + 1)
      PROVE  more[k] = more[k - 1] \o Upto(c, Size(c) - k + 1, to[k].at, to[k].next - 1)
  <2>1. CASE k \in 1..l
    <3>1. k \in 0..l /\ k - 1 \in 0..l
      BY <1>1, <2>1
    <3> QED
      BY <1>2, <1>3, <1>4, <2>1, <3>1
  <2>2. CASE k = l + 1
    <3>1. (l + 1) - 1 = l /\ Size(c) - (l + 1) + 1 \in 1..Size(c) /\ l \in 0..l
      <4> HIDE DEF l
      <4> QED
        BY <1>1, Shape DEF l
    <3>2. Upto(c, Size(c) - (l + 1) + 1, frame.at, 0) = <<>>
      BY <3>1, UptoIs DEF Frames
    <3>3. re \in Seq(Ids(c)) /\ more[l] = re
      BY <1>1, <1>3, <1>4, <3>1
    <3>4. re \o <<>> = re
      BY <3>3, ConcatEmptySeq
    <3>5. to[k] = frame /\ to[k].next - 1 = 0
      BY <1>2, <2>2
    <3>6. more[k] = re /\ more[k - 1] = re
      BY <1>4, <2>2, <3>1, <3>3
    <3> HIDE DEF l
    <3> QED
      BY <2>2, <3>2, <3>4, <3>5, <3>6
  <2>3. k \in 1..l \/ k = l + 1
    <3> HIDE DEF l
    <3> QED
      BY <1>1
  <2> QED
    BY <2>1, <2>2, <2>3
<1>6. more[0] = <<>>
  BY <1>1, <1>3, <1>4
<1>7. Expanding(c, to, re)
  BY <1>2, <1>4, <1>5, <1>6 DEF Expanding
<1> QED
  BY <1>7 DEF to

\* and when one is left: what it added is all of it.
LEMMA ExpandingPop ==
  ASSUME NEW c \in Configs, NEW st, NEW ac, Entered(c, st, ac), Len(st) > 0,
         st[Len(st)].next > Len(Phases(c, st[Len(st)].at)),
         NEW re, Expanding(c, st, re)
  PROVE  \E before \in Seq(Ids(c)) :
           /\ Expanding(c, SubSeq(st, 1, Len(st) - 1), before)
           /\ re = before \o FlatIn(c, Size(c) - Len(st) + 1)[st[Len(st)].at]
           /\ FlatIn(c, Size(c) - Len(st) + 1)[st[Len(st)].at] \in Seq(Ids(c))
           /\ Len(st) = 1 => before = <<>>
<1> DEFINE to == SubSeq(st, 1, Len(st) - 1)
           l == Len(st)
           i == st[l].at
<1>1. st \in Seq(Frames(c)) /\ l \in Nat /\ l \in 1..l /\ st[l] \in Frames(c) /\ Placed(c, st, l)
  BY DEF Entered
<1>2. Len(to) = l - 1 /\ \A k \in 1..(l - 1) : to[k] = st[k] /\ k \in 1..l
  <2>1. Len(to) = l - 1 /\ \A k \in 1..(l - 1) : to[k] = st[k]
    BY EnteredPop
  <2>2. \A k \in 1..(l - 1) : k \in 1..l
    <3> HIDE DEF l
    <3> QED
      BY <1>1
  <2> QED
    BY <2>1, <2>2
<1>3. i \in 1..Size(c) /\ st[l].next - 1 = Len(Phases(c, i))
  BY <1>1, Shape DEF Placed, Frames
<1>4. Size(c) - l + 1 \in 1..Size(c)
  <2>1. l <= Size(c) /\ Size(c) \in Nat
    BY Depth, Shape
  <2> HIDE DEF l
  <2> QED
    BY <1>1, <2>1
<1>5. PICK made \in [0..l -> Seq(Ids(c))] :
        /\ made[0] = <<>> /\ re = made[l]
        /\ \A k \in 1..l :
             made[k] = made[k - 1] \o Upto(c, Size(c) - k + 1, st[k].at, st[k].next - 1)
  BY DEF Expanding
<1> HIDE DEF to
<1>6. re = made[l - 1] \o FlatIn(c, Size(c) - l + 1)[i]
  <2>1. made[l] = made[l - 1] \o Upto(c, Size(c) - l + 1, i, st[l].next - 1)
    <3> HIDE DEF l
    <3> QED
      BY <1>1, <1>5
  <2>2. Upto(c, Size(c) - l + 1, i, st[l].next - 1) = FlatIn(c, Size(c) - l + 1)[i]
    BY <1>3, <1>4, UptoIs
  <2> QED
    BY <1>5, <2>1, <2>2
<1>7. FlatIn(c, Size(c) - l + 1)[i] \in Seq(Ids(c))
  <2>1. Len(Phases(c, i)) \in 0..Len(Phases(c, i))
    BY <1>3, Shape
  <2> QED
    BY <1>3, <1>4, <2>1, UptoIs
<1> DEFINE less == [k \in 0..(l - 1) |-> made[k]]
<1>8. /\ less \in [0..(l - 1) -> Seq(Ids(c))]
      /\ \A k \in 0..(l - 1) : less[k] = made[k]
  BY <1>1, <1>5
<1> HIDE DEF less
<1>9. \A k \in 1..(l - 1) :
        less[k] = less[k - 1] \o Upto(c, Size(c) - k + 1, to[k].at, to[k].next - 1)
  <2> SUFFICES ASSUME NEW k \in 1..(l - 1)
               PROVE  less[k] = less[k - 1] \o Upto(c, Size(c) - k + 1, to[k].at, to[k].next - 1)
    OBVIOUS
  <2>1. k \in 0..(l - 1) /\ k - 1 \in 0..(l - 1) /\ k \in 1..l
    <3> HIDE DEF l
    <3> QED
      BY <1>1
  <2>2. made[k] = made[k - 1] \o Upto(c, Size(c) - k + 1, st[k].at, st[k].next - 1)
    BY <1>5, <2>1
  <2>3. less[k] = made[k] /\ less[k - 1] = made[k - 1] /\ to[k] = st[k]
    BY <1>2, <1>8, <2>1
  <2> QED
    BY <2>2, <2>3
<1>10. 0 \in 0..(l - 1) /\ l - 1 \in 0..(l - 1)
  <2> HIDE DEF l
  <2> QED
    BY <1>1
<1>11. Expanding(c, to, made[l - 1])
  <2>1. less[0] = <<>> /\ made[l - 1] = less[l - 1]
    BY <1>5, <1>8, <1>10
  <2>2. Len(to) = l - 1
    BY <1>2
  <2> HIDE <1>5
  <2> HIDE DEF l
  <2> QED
    BY <1>8, <1>9, <2>1, <2>2 DEF Expanding
<1>12. l = 1 => made[l - 1] = <<>>
  BY <1>5
<1>13. made[l - 1] \in Seq(Ids(c))
  BY <1>8, <1>10
<1> QED
  BY <1>6, <1>7, <1>11, <1>12, <1>13 DEF to

--------------------------------------------------------------------------------
(* WorkflowExpansion: what is collected so far.                              *)

FlowIds(c) == {c.workflows[i].id : i \in 1..Size(c)}

\* What workflow i refers to, as far as its first n phases go, was seen.
SeenUpto(c, se, i, n) ==
  \A m \in 1..n : Refers(c, i, m) => RefName(c, i, m) \in se

\* Every name that was seen is in the result once; what was left expands, and what it
\* refers to was seen, as was what the frames have passed.
Collecting(c, st, ac, se, re) ==
  /\ re \in Seq(FlowIds(c))
  /\ ac \subseteq se /\ se \subseteq Reach(c) /\ Name(c, 1) \in se
  /\ se = {FoldedName[re[i]] : i \in 1..Len(re)}
  /\ \A i, j \in 1..Len(re) : FoldedName[re[i]] = FoldedName[re[j]] => i = j
  /\ \A name \in se \ ac :
       At(c, name) \in FineAll(c) /\ SeenUpto(c, se, At(c, name), Len(Phases(c, At(c, name))))
  /\ \A k \in 1..Len(st) : SeenUpto(c, se, st[k].at, st[k].next - 1)

\* What is collected accounts for the stack when a phase is passed,
LEMMA CollectingAdvance ==
  ASSUME NEW c \in Configs, NEW st, NEW ac, Entered(c, st, ac), Len(st) > 0,
         NEW se, NEW re, Collecting(c, st, ac, se, re),
         Refers(c, st[Len(st)].at, st[Len(st)].next) =>
           RefName(c, st[Len(st)].at, st[Len(st)].next) \in se
  PROVE  Collecting(c, Advance(st), ac, se, re)
<1> DEFINE to == Advance(st)
           l == Len(st)
<1>1. st \in Seq(Frames(c)) /\ l \in Nat /\ l \in 1..l /\ \A k \in 1..l : st[k] \in Frames(c)
  BY DEF Entered
<1>2. /\ Len(to) = l
      /\ \A k \in 1..l : /\ to[k].at = st[k].at
                         /\ to[k].next = IF k = l THEN st[k].next + 1 ELSE st[k].next
  BY <1>1, AdvanceIs
<1> HIDE DEF to
<1>3. ASSUME NEW k \in 1..l, NEW m \in 1..(to[k].next - 1), Refers(c, to[k].at, m)
      PROVE  RefName(c, to[k].at, m) \in se
  <2>1. CASE m \in 1..(st[k].next - 1)
    BY <1>2, <1>3, <2>1 DEF Collecting, SeenUpto
  <2>2. CASE m \notin 1..(st[k].next - 1)
    <3>1. st[k].next \in Nat
      BY <1>1 DEF Frames
    <3>2. k = l /\ m = st[l].next
      BY <1>2, <2>2, <3>1
    <3> QED
      BY <1>2, <1>3, <3>2
  <2> QED
    BY <2>1, <2>2
<1>4. Collecting(c, to, ac, se, re)
  BY <1>2, <1>3 DEF Collecting, SeenUpto
<1> QED
  BY <1>4 DEF to

\* A workflow that is entered for the first time.
LEMMA CollectingNew ==
  ASSUME NEW c \in Configs, NEW st, NEW ac, Entered(c, st, ac),
         NEW se, NEW re, Collecting(c, st, ac, se, re),
         NEW name \in Reach(c) \ se, At(c, name) # None,
         NEW frame \in Frames(c), frame.next = 1
  PROVE  Collecting(c, Append(st, frame), ac \cup {name}, se \cup {name},
           Append(re, c.workflows[At(c, name)].id))
<1> DEFINE to == Append(st, frame)
           l == Len(st)
           id == c.workflows[At(c, name)].id
           more == Append(re, id)
           all == se \cup {name}
<1>1. st \in Seq(Frames(c)) /\ l \in Nat /\ re \in Seq(FlowIds(c)) /\ Len(re) \in Nat
  BY DEF Entered, Collecting
<1>2. Len(to) = l + 1 /\ to[l + 1] = frame /\ \A k \in 1..l : to[k] = st[k]
  BY <1>1, AppendProperties
<1>3. FoldedName[id] = name /\ id \in FlowIds(c)
  BY AtIs DEF Name, FlowIds
<1>4. /\ more \in Seq(FlowIds(c)) /\ Len(more) = Len(re) + 1
      /\ more[Len(re) + 1] = id /\ \A i \in 1..Len(re) : more[i] = re[i]
  BY <1>1, <1>3, AppendProperties
<1>5. /\ se = {FoldedName[re[i]] : i \in 1..Len(re)}
      /\ \A i, j \in 1..Len(re) : FoldedName[re[i]] = FoldedName[re[j]] => i = j
  BY DEF Collecting
<1> HIDE DEF to, more, id
<1>6. all = {FoldedName[more[i]] : i \in 1..(Len(re) + 1)}
  <2>1. \A i \in 1..(Len(re) + 1) : i = Len(re) + 1 \/ i \in 1..Len(re)
    BY <1>1
  <2>2. Len(re) + 1 \in 1..(Len(re) + 1) /\ \A i \in 1..Len(re) : i \in 1..(Len(re) + 1)
    BY <1>1
  <2>3. \A x \in {FoldedName[more[i]] : i \in 1..(Len(re) + 1)} : x \in all
    BY <1>3, <1>4, <1>5, <2>1
  <2>4. \A x \in all : x \in {FoldedName[more[i]] : i \in 1..(Len(re) + 1)}
    BY <1>3, <1>4, <1>5, <2>2
  <2> QED
    BY <2>3, <2>4
<1>7. ASSUME NEW i \in 1..(Len(re) + 1), NEW j \in 1..(Len(re) + 1),
             FoldedName[more[i]] = FoldedName[more[j]]
      PROVE  i = j
  <2>1. \A k \in 1..Len(re) : FoldedName[more[k]] # name
    BY <1>4, <1>5
  <2>2. FoldedName[more[Len(re) + 1]] = name
    BY <1>3, <1>4
  <2>3. i = Len(re) + 1 \/ i \in 1..Len(re)
    BY <1>1
  <2>4. j = Len(re) + 1 \/ j \in 1..Len(re)
    BY <1>1
  <2>5. CASE i \in 1..Len(re) /\ j \in 1..Len(re)
    BY <1>4, <1>5, <1>7, <2>5
  <2> QED
    BY <1>7, <2>1, <2>2, <2>3, <2>4, <2>5
<1>8. ASSUME NEW other \in all \ (ac \cup {name})
      PROVE  At(c, other) \in FineAll(c) /\ SeenUpto(c, all, At(c, other), Len(Phases(c, At(c, other))))
  BY DEF Collecting, SeenUpto
<1>9. ASSUME NEW k \in 1..(l + 1) PROVE SeenUpto(c, all, to[k].at, to[k].next - 1)
  <2>1. CASE k \in 1..l
    BY <1>2, <2>1 DEF Collecting, SeenUpto
  <2>2. CASE k = l + 1
    <3>1. to[k].next - 1 = 0
      BY <1>2, <2>2
    <3> QED
      BY <3>1 DEF SeenUpto
  <2> QED
    BY <1>1, <2>1, <2>2
<1>10. ac \cup {name} \subseteq all /\ all \subseteq Reach(c) /\ Name(c, 1) \in all
  BY DEF Collecting
<1>11. Collecting(c, to, ac \cup {name}, all, more)
  <2> HIDE DEF all
  <2> QED
    BY <1>2, <1>4, <1>6, <1>7, <1>8, <1>9, <1>10 DEF Collecting
<1> QED
  BY <1>11 DEF to, more, id

\* A workflow that was left already is entered at its end.
LEMMA CollectingAgain ==
  ASSUME NEW c \in Configs, NEW st, NEW ac, Entered(c, st, ac),
         NEW se, NEW re, Collecting(c, st, ac, se, re),
         NEW name \in se \ ac,
         NEW frame \in Frames(c), frame.at = At(c, name),
         frame.next = Len(Phases(c, At(c, name))) + 1
  PROVE  Collecting(c, Append(st, frame), ac \cup {name}, se, re)
<1> DEFINE to == Append(st, frame)
           l == Len(st)
<1>1. st \in Seq(Frames(c)) /\ l \in Nat
  BY DEF Entered
<1>2. Len(to) = l + 1 /\ to[l + 1] = frame /\ \A k \in 1..l : to[k] = st[k]
  BY <1>1, AppendProperties
<1> HIDE DEF to
<1>3. ASSUME NEW k \in 1..(l + 1) PROVE SeenUpto(c, se, to[k].at, to[k].next - 1)
  <2>1. CASE k \in 1..l
    BY <1>2, <2>1 DEF Collecting
  <2>2. CASE k = l + 1
    <3>1. At(c, name) \in 1..Size(c)
      BY FineIsFine DEF Collecting, Fine
    <3>2. to[k].next - 1 = Len(Phases(c, At(c, name))) /\ to[k].at = At(c, name)
      BY <1>2, <2>2, <3>1, Shape
    <3> QED
      BY <3>2 DEF Collecting
  <2> QED
    BY <1>1, <2>1, <2>2
<1>4. Collecting(c, to, ac \cup {name}, se, re)
  BY <1>2, <1>3 DEF Collecting
<1> QED
  BY <1>4 DEF to

\* and when one is left, which then expands.
LEMMA CollectingPop ==
  ASSUME NEW c \in Configs, NEW st, NEW ac, Entered(c, st, ac), Len(st) > 0,
         st[Len(st)].next > Len(Phases(c, st[Len(st)].at)),
         NEW se, NEW re, Collecting(c, st, ac, se, re)
  PROVE  Collecting(c, SubSeq(st, 1, Len(st) - 1), ac \ {st[Len(st)].name}, se, re)
<1> DEFINE l == Len(st)
           top == st[l]
           to == SubSeq(st, 1, Len(st) - 1)
<1>1. /\ st \in Seq(Frames(c)) /\ l \in Nat /\ l \in 1..l /\ top \in Frames(c)
      /\ Placed(c, st, l)
  BY DEF Entered
<1>2. Len(to) = l - 1 /\ \A k \in 1..(l - 1) : to[k] = st[k] /\ k \in 1..l
  <2>1. Len(to) = l - 1 /\ \A k \in 1..(l - 1) : to[k] = st[k]
    BY EnteredPop
  <2>2. \A k \in 1..(l - 1) : k \in 1..l
    <3> HIDE DEF l
    <3> QED
      BY <1>1
  <2> QED
    BY <2>1, <2>2
<1> HIDE DEF to
<1>3. top.at \in FineAll(c) /\ top.at = At(c, top.name)
  BY <1>1, TopFine DEF Placed
<1>4. top.next - 1 = Len(Phases(c, top.at))
  BY <1>1, Shape DEF Placed, Frames
<1>5. SeenUpto(c, se, top.at, Len(Phases(c, top.at)))
  BY <1>1, <1>4 DEF Collecting
<1>6. \A name \in se \ (ac \ {top.name}) :
        At(c, name) \in FineAll(c) /\ SeenUpto(c, se, At(c, name), Len(Phases(c, At(c, name))))
  BY <1>3, <1>5 DEF Collecting
<1>7. \A k \in 1..(l - 1) : SeenUpto(c, se, to[k].at, to[k].next - 1)
  BY <1>2 DEF Collecting
<1>8. Collecting(c, to, ac \ {top.name}, se, re)
  BY <1>2, <1>6, <1>7 DEF Collecting
<1> QED
  BY <1>8 DEF to

\* When all is left, what was collected is all that is referred to.
LEMMA CollectedAll ==
  ASSUME NEW c \in Configs, NEW st, NEW se, NEW re, Collecting(c, st, {}, se, re)
  PROVE  se = Reach(c)
<1>1. se \in SUBSET NamesOf(c) /\ se \subseteq Reach(c) /\ Name(c, 1) \in se
  BY DEF Collecting, Reach
<1>2. ClosedIn(c, se)
  BY DEF Collecting, SeenUpto, ClosedIn
<1> QED
  BY <1>1, <1>2 DEF Reach

--------------------------------------------------------------------------------
(* WorkflowExpansion: one step.                                              *)

Going(c, aim, st, ac, se, re) ==
  /\ Size(c) # 0 /\ Len(st) > 0 /\ Entered(c, st, ac)
  /\ aim = "expand" => Expanding(c, st, re)
  /\ aim = "collect" => Collecting(c, st, ac, se, re)

\* What is accepted is whole.
Whole(c, aim, re) ==
  /\ Size(c) # 0 /\ ~Cyclic(c) /\ ~Dangles(c)
  /\ aim = "expand" => re = FlatIn(c, Size(c))[1]
  /\ aim = "collect" => /\ {FoldedName[re[i]] : i \in 1..Len(re)} = Reach(c)
                        /\ re \in Seq(FlowIds(c))
                        /\ \A i, j \in 1..Len(re) : FoldedName[re[i]] = FoldedName[re[j]] => i = j

\* Who publishes is there once.
OwnedOnce(c, re) ==
  LET p == c.workflows[1].publication IN
  p # None /\ (p.required =>
    /\ p.owner # None
    /\ p.owner.kind = "phase" =>
         Expands!Cardinality({i \in DOMAIN re : FoldedName[re[i]] = FoldedName[p.owner.id]}) = 1)

\* A call begins with the first workflow entered.
LEMMA FirstEntered ==
  ASSUME NEW c \in Configs, Size(c) # 0, NEW aim \in {"expand", "collect"}
  PROVE  LET frame == [name |-> Name(c, 1), at |-> 1, next |-> 1] IN
         Going(c, aim, <<frame>>, {Name(c, 1)},
               IF aim = "collect" THEN {Name(c, 1)} ELSE {},
               IF aim = "collect" THEN <<c.workflows[1].id>> ELSE <<>>)
<1> DEFINE frame == [name |-> Name(c, 1), at |-> 1, next |-> 1]
           st == <<frame>>
           id == c.workflows[1].id
<1>1. Size(c) \in Nat /\ 1 \in 1..Size(c) /\ At(c, Name(c, 1)) = 1 /\ Name(c, 1) \in Reach(c)
  BY Shape, FirstAt, Reached
<1>2. frame \in Frames(c)
  BY <1>1 DEF Frames, Reach
<1>3. st \in Seq(Frames(c)) /\ Len(st) = 1 /\ st[1] = frame /\ st = Append(<<>>, frame)
  BY <1>2
<1>4. frame.name = Name(c, 1) /\ frame.at = 1 /\ frame.next = 1
  OBVIOUS
<1>5. Len(Phases(c, 1)) \in Nat
  BY <1>1, Shape
<1> HIDE DEF frame, st
<1>6. Entered(c, st, {Name(c, 1)})
  <2>1. Placed(c, st, 1) /\ Passed(c, st, 1)
    BY <1>1, <1>3, <1>4, <1>5 DEF Placed, Passed
  <2>2. 1..Len(st) = {1} /\ 1..(Len(st) - 1) = {}
    BY <1>3
  <2> QED
    BY <1>3, <1>4, <2>1, <2>2 DEF Entered
<1>7. Expanding(c, st, <<>>)
  <2>1. Entered(c, <<>>, {}) /\ Len(<<>>) = 0
    BY DEF Entered
  <2>2. Expanding(c, <<>>, <<>>)
    <3> DEFINE made == [k \in 0..0 |-> <<>>]
    <3>1. made \in [0..0 -> Seq(Ids(c))] /\ made[0] = <<>>
      OBVIOUS
    <3> HIDE DEF made
    <3> QED
      BY <2>1, <3>1 DEF Expanding
  <2> QED
    <3> DEFINE none == <<>>
               entered == {}
    <3>1. Entered(c, none, entered) /\ Expanding(c, none, <<>>) /\ st = Append(none, frame)
      BY <1>3, <2>1, <2>2
    <3>2. Len(none) < Size(c)
      <4>1. Len(none) = 0
        BY <2>1
      <4> HIDE DEF none
      <4> QED
        BY <1>1, <4>1
    <3>3. <<>> \in Seq(Ids(c))
      OBVIOUS
    <3> HIDE DEF none, entered
    <3> QED
      BY <1>2, <1>4, <3>1, <3>2, ExpandingPush
<1>8. Collecting(c, st, {Name(c, 1)}, {Name(c, 1)}, <<id>>)
  <2>1. /\ <<id>> \in Seq(FlowIds(c)) /\ Len(<<id>>) = 1 /\ <<id>>[1] = id
        /\ FoldedName[id] = Name(c, 1)
    BY <1>1 DEF FlowIds, Name
  <2>2. SeenUpto(c, {Name(c, 1)}, st[1].at, st[1].next - 1)
    BY <1>3, <1>4 DEF SeenUpto
  <2>3. 1..Len(st) = {1} /\ 1..Len(<<id>>) = {1}
    BY <1>3
  <2> HIDE DEF id
  <2> QED
    BY <1>1, <2>1, <2>2, <2>3 DEF Collecting
<1> QED
  BY <1>3, <1>6, <1>7, <1>8 DEF Going, frame, st, id

\* What a call that goes on has on top of its stack.
LEMMA GoingOn ==
  ASSUME NEW c \in Configs, NEW aim \in {"expand", "collect"}, NEW st, NEW ac, NEW se, NEW re,
         Going(c, aim, st, ac, se, re)
  PROVE  LET top == st[Len(st)] IN
         /\ st \in Seq(Frames(c)) /\ Len(st) \in Nat /\ Len(st) \in 1..Len(st)
         /\ top \in Frames(c) /\ top.at \in 1..Size(c) /\ top.next \in Nat \ {0}
         /\ Placed(c, st, Len(st)) /\ top.name \in ac
         /\ At(c, Name(c, top.at)) = top.at /\ Name(c, top.at) \in Reach(c)
<1>1. /\ st \in Seq(Frames(c)) /\ Len(st) \in Nat /\ Len(st) \in 1..Len(st)
      /\ st[Len(st)] \in Frames(c) /\ Placed(c, st, Len(st)) /\ st[Len(st)].name \in ac
  BY DEF Going, Entered
<1>2. st[Len(st)].at \in 1..Size(c) /\ st[Len(st)].next \in Nat \ {0}
  BY <1>1 DEF Frames
<1> QED
  BY <1>1, <1>2, AtIs, Shape DEF Placed

\* A phase of its own is passed.
LEMMA GoingPhase ==
  ASSUME NEW c \in Configs, NEW aim \in {"expand", "collect"}, NEW st, NEW ac, NEW se, NEW re,
         Going(c, aim, st, ac, se, re),
         st[Len(st)].next <= Len(Phases(c, st[Len(st)].at)),
         Phases(c, st[Len(st)].at)[st[Len(st)].next].kind = "phase"
  PROVE  Going(c, aim, Advance(st), ac, se,
           IF aim = "expand" THEN Append(re, Phases(c, st[Len(st)].at)[st[Len(st)].next].id) ELSE re)
<1> DEFINE top == st[Len(st)]
           id == Phases(c, top.at)[top.next].id
<1>1. Entered(c, st, ac) /\ Len(st) > 0 /\ Size(c) # 0 /\ ~Refers(c, top.at, top.next)
  BY DEF Going, Refers
<1>2. Entered(c, Advance(st), ac) /\ Len(Advance(st)) = Len(st)
  BY <1>1, EnteredAdvance, AdvanceIs, GoingOn
<1>3. CASE aim = "expand"
  <2>1. Piece(c, FlatIn(c, Size(c) - Len(st)), top.at, top.next) = <<id>>
    BY DEF Piece
  <2>2. Expanding(c, st, re)
    BY <1>3 DEF Going
  <2>3. Expanding(c, Advance(st), re \o <<id>>)
    BY <1>1, <2>1, <2>2, ExpandingAdvance
  <2>4. re \o <<id>> = Append(re, id)
    <3>1. re \in Seq(Ids(c))
      BY <1>1, <2>2, GoingOn DEF Expanding
    <3>2. id \in Ids(c)
      BY GoingOn DEF Ids
    <3> HIDE DEF id
    <3> QED
      BY <3>1, <3>2, AppendIsConcat
  <2> QED
    BY <1>1, <1>2, <1>3, <2>3, <2>4 DEF Going
<1>4. CASE aim = "collect"
  BY <1>1, <1>2, <1>4, CollectingAdvance DEF Going
<1> QED
  BY <1>3, <1>4

\* A reference to what is entered and not left comes round.
LEMMA GoingRound ==
  ASSUME NEW c \in Configs, NEW aim \in {"expand", "collect"}, NEW st, NEW ac, NEW se, NEW re,
         Going(c, aim, st, ac, se, re),
         Refers(c, st[Len(st)].at, st[Len(st)].next),
         RefName(c, st[Len(st)].at, st[Len(st)].next) \in ac
  PROVE  Cyclic(c)
<1> DEFINE l == Len(st)
<1>1. Entered(c, st, ac) /\ l \in Nat /\ l \in 1..l
  BY GoingOn DEF Going
<1>2. PICK k \in 1..l : st[k].name = RefName(c, st[l].at, st[l].next)
  BY <1>1 DEF Entered
<1> DEFINE C == {st[j].at : j \in k..l}
<1>3. \A j \in 1..l : st[j].at = At(c, st[j].name) /\ st[j].name \in Reach(c) /\ st[j].at \in 1..Size(c)
  <2> SUFFICES ASSUME NEW j \in 1..l
               PROVE  st[j].at = At(c, st[j].name) /\ st[j].name \in Reach(c) /\ st[j].at \in 1..Size(c)
    OBVIOUS
  <2>1. Placed(c, st, j) /\ st[j] \in Frames(c)
    BY <1>1 DEF Entered
  <2> QED
    BY <2>1 DEF Placed, Frames
<1>4. \A j \in 1..l : st[j].at \in KnownIn(c)
  BY <1>3, AtIs, Shape DEF KnownIn
<1>5. \A j \in k..l : j \in 1..l
  <2> HIDE DEF l
  <2> QED
    BY <1>1
<1>6. Ring(c, C)
  <2> SUFFICES ASSUME NEW j \in k..l
               PROVE  \E m \in 1..Len(Phases(c, st[j].at)) :
                        Refers(c, st[j].at, m) /\ RefAt(c, st[j].at, m) \in C
    BY DEF Ring
  <2>1. CASE j = l
    <3>1. RefAt(c, st[l].at, st[l].next) = st[k].at /\ k \in k..l
      <4>1. k \in k..l
        <5> HIDE DEF l
        <5> QED
          BY <1>1
      <4> QED
        BY <1>2, <1>3, <4>1 DEF RefAt
    <3>2. st[l].next \in 1..Len(Phases(c, st[l].at))
      BY DEF Refers
    <3> QED
      BY <2>1, <3>1, <3>2
  <2>2. CASE j # l
    <3>1. j \in 1..(l - 1) /\ j + 1 \in k..l /\ j + 1 \in 1..l
      <4> HIDE DEF l
      <4> QED
        BY <1>1, <2>2
    <3>2. RefersUp(c, st, j)
      BY <1>1, <3>1 DEF Entered
    <3>3. RefAt(c, st[j].at, st[j].next) = st[j + 1].at
      BY <1>3, <3>1, <3>2 DEF RefersUp, RefAt
    <3>4. st[j].next \in 1..Len(Phases(c, st[j].at))
      BY <3>2 DEF RefersUp, Refers
    <3> QED
      BY <3>1, <3>2, <3>3, <3>4 DEF RefersUp
  <2> QED
    BY <2>1, <2>2
<1>7. C # {} /\ C \in SUBSET KnownIn(c)
  BY <1>2, <1>4, <1>5
<1> HIDE DEF C
<1> QED
  BY <1>6, <1>7 DEF Cyclic

\* A reference to what is not there.
LEMMA GoingNowhere ==
  ASSUME NEW c \in Configs, NEW aim \in {"expand", "collect"}, NEW st, NEW ac, NEW se, NEW re,
         Going(c, aim, st, ac, se, re),
         Refers(c, st[Len(st)].at, st[Len(st)].next),
         RefAt(c, st[Len(st)].at, st[Len(st)].next) = None
  PROVE  Dangles(c)
<1> DEFINE top == st[Len(st)]
<1>1. RefName(c, top.at, top.next) \in Reach(c)
  <2>1. top.next \in 1..Len(Phases(c, top.at)) /\ Size(c) # 0
    BY DEF Refers, Going
  <2> QED
    BY <2>1, GoingOn, Reached
<1> QED
  BY <1>1 DEF Dangles, RefAt

\* A workflow is entered.
LEMMA GoingIn ==
  ASSUME NEW c \in Configs, NEW aim \in {"expand", "collect"}, NEW st, NEW ac, NEW se, NEW re,
         Going(c, aim, st, ac, se, re),
         Refers(c, st[Len(st)].at, st[Len(st)].next),
         NEW name, name = RefName(c, st[Len(st)].at, st[Len(st)].next),
         name \notin ac, At(c, name) # None,
         NEW again, again = (aim = "collect" /\ name \in se),
         NEW frame,
         frame = [name |-> name, at |-> At(c, name),
                  next |-> IF again THEN Len(Phases(c, At(c, name))) + 1 ELSE 1]
  PROVE  Going(c, aim, Append(st, frame), ac \cup {name},
               IF aim = "collect" THEN se \cup {name} ELSE se,
               IF aim = "collect" /\ ~again THEN Append(re, c.workflows[At(c, name)].id) ELSE re)
<1> DEFINE i == At(c, name)
           n == IF again THEN Len(Phases(c, i)) + 1 ELSE 1
           top == st[Len(st)]
<1>1. Entered(c, st, ac) /\ Len(st) > 0 /\ Size(c) # 0
  BY DEF Going
<1>2. i \in 1..Size(c) /\ Len(Phases(c, i)) \in Nat
  BY AtIs, Shape
<1>3. n \in Nat \ {0} /\ n <= Len(Phases(c, i)) + 1
  <2> HIDE DEF i
  <2> QED
    BY <1>2
<1>4. name \in Reach(c)
  <2>1. top.next \in 1..Len(Phases(c, top.at))
    BY DEF Refers
  <2> QED
    BY <1>1, <2>1, GoingOn, Reached
<1>5. \A m \in 1..(n - 1) : Refers(c, i, m) => RefAt(c, i, m) \in FineAll(c)
  <2>1. CASE again
    <3>1. Collecting(c, st, ac, se, re) /\ name \in se \ ac
      BY <2>1 DEF Going
    <3>2. i \in FineAll(c)
      BY <3>1 DEF Collecting
    <3>3. \A m \in 1..Len(Phases(c, i)) : Refers(c, i, m) => RefAt(c, i, m) \in FineAll(c)
      BY <3>2, FineIsFine DEF Fine
    <3>4. n - 1 = Len(Phases(c, i))
      <4> HIDE DEF i
      <4> QED
        BY <1>2, <2>1
    <3> QED
      BY <3>3, <3>4
  <2>2. CASE ~again
    BY <2>2
  <2> QED
    BY <2>1, <2>2
<1>6. frame = [name |-> name, at |-> At(c, name), next |-> n]
  OBVIOUS
<1>7. frame \in Frames(c)
  BY <1>2, <1>3, <1>4, <1>6 DEF Frames, Reach
<1>8. frame.at = i /\ frame.next = n
  BY <1>6
<1> HIDE DEF n
<1>9. Entered(c, Append(st, frame), ac \cup {name})
  BY <1>1, <1>3, <1>5, <1>6, EnteredPush
<1>10. Len(Append(st, frame)) = Len(st) + 1 /\ Len(st) \in Nat
  BY <1>1, <1>7, AppendProperties DEF Entered
<1>11. Len(st) < Size(c) /\ Len(Append(st, frame)) > 0
  <2>1. Len(Append(st, frame)) <= Size(c) /\ Size(c) \in Nat
    BY <1>9, Depth, Shape
  <2> QED
    BY <1>10, <2>1
<1>12. CASE aim = "expand"
  <2>1. frame.next = 1
    BY <1>8, <1>12 DEF n
  <2>2. Expanding(c, st, re)
    BY <1>12 DEF Going
  <2>3. Expanding(c, Append(st, frame), re)
    BY <1>1, <1>7, <1>11, <2>1, <2>2, ExpandingPush
  <2> QED
    BY <1>1, <1>9, <1>11, <1>12, <2>3 DEF Going
<1>13. CASE aim = "collect" /\ again
  <2>1. Collecting(c, st, ac, se, re) /\ name \in se \ ac
    BY <1>13 DEF Going
  <2>2. frame.next = Len(Phases(c, At(c, name))) + 1 /\ frame.at = At(c, name)
    BY <1>8, <1>13 DEF n
  <2>3. Collecting(c, Append(st, frame), ac \cup {name}, se, re)
    BY <1>1, <1>7, <2>1, <2>2, CollectingAgain
  <2>4. se \cup {name} = se
    BY <2>1
  <2> QED
    BY <1>1, <1>9, <1>11, <1>13, <2>3, <2>4 DEF Going
<1>14. CASE aim = "collect" /\ ~again
  <2>1. Collecting(c, st, ac, se, re) /\ name \in Reach(c) \ se
    BY <1>4, <1>14 DEF Going
  <2>2. frame.next = 1
    BY <1>8, <1>14 DEF n
  <2>3. Collecting(c, Append(st, frame), ac \cup {name}, se \cup {name},
                   Append(re, c.workflows[At(c, name)].id))
    BY <1>1, <1>7, <2>1, <2>2, CollectingNew
  <2> QED
    BY <1>1, <1>9, <1>11, <1>14, <2>3 DEF Going
<1> QED
  BY <1>12, <1>13, <1>14

\* A workflow is left, and its caller goes on behind the reference.
LEMMA GoingBack ==
  ASSUME NEW c \in Configs, NEW aim \in {"expand", "collect"}, NEW st, NEW ac, NEW se, NEW re,
         Going(c, aim, st, ac, se, re),
         st[Len(st)].next > Len(Phases(c, st[Len(st)].at)),
         Len(st) # 1
  PROVE  Going(c, aim, Advance(SubSeq(st, 1, Len(st) - 1)), ac \ {st[Len(st)].name}, se, re)
<1> DEFINE l == Len(st)
           top == st[l]
           to == SubSeq(st, 1, l - 1)
           rest == ac \ {top.name}
           caller == to[Len(to)]
<1>1. Entered(c, st, ac) /\ l > 0 /\ Size(c) # 0 /\ l \in Nat /\ l \in 1..l
  BY GoingOn DEF Going
<1>2. Entered(c, to, rest) /\ Len(to) = l - 1 /\ \A k \in 1..(l - 1) : to[k] = st[k]
  BY <1>1, EnteredPop
<1>3. l - 1 \in Nat /\ l - 1 > 0 /\ l - 1 \in 1..(l - 1) /\ (l - 1) + 1 = l
  <2>1. l # 1
    OBVIOUS
  <2> HIDE DEF l
  <2> QED
    BY <1>1, <2>1
<1> HIDE DEF to
<1>4. caller = st[l - 1] /\ RefersUp(c, st, l - 1)
  BY <1>1, <1>2, <1>3 DEF Entered
<1>5. Refers(c, caller.at, caller.next) /\ RefName(c, caller.at, caller.next) = top.name
  BY <1>3, <1>4 DEF RefersUp
<1>6. top.at \in FineAll(c) /\ top.at = At(c, top.name)
  BY <1>1, TopFine DEF Entered, Placed
<1>7. RefAt(c, caller.at, caller.next) = top.at
  BY <1>5, <1>6 DEF RefAt
<1>8. caller.next <= Len(Phases(c, caller.at)) /\ Phases(c, caller.at)[caller.next].kind = "workflow"
  <2>1. caller.next \in 1..Len(Phases(c, caller.at)) /\ Phases(c, caller.at)[caller.next].kind = "workflow"
    BY <1>5 DEF Refers
  <2> QED
    BY <2>1
<1>9. Entered(c, Advance(to), rest)
  BY <1>2, <1>3, <1>6, <1>7, <1>8, EnteredAdvance
<1>10. Len(Advance(to)) > 0
  BY <1>2, <1>3, AdvanceIs DEF Entered
<1>11. CASE aim = "expand"
  <2>1. Expanding(c, st, re)
    BY <1>11 DEF Going
  <2>2. PICK before \in Seq(Ids(c)) :
          /\ Expanding(c, to, before)
          /\ re = before \o FlatIn(c, Size(c) - l + 1)[top.at]
    BY <1>1, <2>1, ExpandingPop DEF to
  <2>3. Expanding(c, Advance(to), before \o Piece(c, FlatIn(c, Size(c) - Len(to)), caller.at, caller.next))
    BY <1>2, <1>3, <1>8, <2>2, ExpandingAdvance
  <2>4. Size(c) - Len(to) = Size(c) - l + 1
    <3>1. Size(c) \in Nat
      BY Shape
    <3> HIDE DEF l
    <3> QED
      BY <1>1, <1>2, <3>1
  <2>5. top.at # None
    BY <1>6, FineIsFine, Shape DEF Fine
  <2>6. Piece(c, FlatIn(c, Size(c) - Len(to)), caller.at, caller.next) =
          FlatIn(c, Size(c) - l + 1)[top.at]
    BY <1>7, <1>8, <2>4, <2>5 DEF Piece
  <2> QED
    BY <1>1, <1>9, <1>10, <1>11, <2>2, <2>3, <2>6 DEF Going, to
<1>12. CASE aim = "collect"
  <2>1. Collecting(c, st, ac, se, re) /\ top.name \in se
    BY <1>1, <1>12 DEF Going, Collecting, Entered
  <2>2. Collecting(c, to, rest, se, re)
    BY <1>1, <2>1, CollectingPop DEF to
  <2>3. Collecting(c, Advance(to), rest, se, re)
    BY <1>2, <1>3, <1>5, <2>1, <2>2, CollectingAdvance
  <2> QED
    BY <1>1, <1>9, <1>10, <1>12, <2>3 DEF Going, to
<1> QED
  BY <1>11, <1>12

\* The first workflow is left: what there is then is whole.
LEMMA GoingEnds ==
  ASSUME NEW c \in Configs, NEW aim \in {"expand", "collect"}, NEW st, NEW ac, NEW se, NEW re,
         Going(c, aim, st, ac, se, re),
         st[Len(st)].next > Len(Phases(c, st[Len(st)].at)),
         Len(st) = 1
  PROVE  Whole(c, aim, re)
<1>1. Entered(c, st, ac) /\ Len(st) > 0 /\ Size(c) # 0 /\ 1 \in 1..Len(st) /\ st[1].at = 1
  BY DEF Going, Entered
<1>2. 1 \in FineAll(c)
  BY <1>1, TopFine
<1>3. ~Cyclic(c) /\ ~Dangles(c)
  BY <1>1, <1>2, FineWhole
<1>4. CASE aim = "expand"
  <2>1. PICK before \in Seq(Ids(c)) :
          /\ re = before \o FlatIn(c, Size(c) - 1 + 1)[1] /\ before = <<>>
          /\ FlatIn(c, Size(c) - 1 + 1)[1] \in Seq(Ids(c))
    BY <1>1, <1>4, ExpandingPop DEF Going
  <2>2. Size(c) - 1 + 1 = Size(c)
    BY Shape
  <2>3. re = FlatIn(c, Size(c))[1]
    BY <2>1, <2>2, ConcatEmptySeq
  <2> QED
    BY <1>1, <1>3, <1>4, <2>3 DEF Whole
<1>5. CASE aim = "collect"
  <2>1. Collecting(c, st, ac, se, re)
    BY <1>5 DEF Going
  <2>2. Collecting(c, SubSeq(st, 1, Len(st) - 1), ac \ {st[Len(st)].name}, se, re)
    BY <1>1, <2>1, CollectingPop
  <2>3. ac \ {st[Len(st)].name} = {}
    BY <1>1 DEF Entered
  <2>4. se = Reach(c)
    BY <2>2, <2>3, CollectedAll
  <2> QED
    BY <1>1, <1>3, <1>5, <2>1, <2>4 DEF Whole, Collecting
<1> QED
  BY <1>4, <1>5

--------------------------------------------------------------------------------
(* WorkflowExpansion: its own words, of the configuration at hand.           *)

\* What is found, is found by its name.
LEMMA SameFound == \A ref : Expands!Found(ref) = At(flows, FoldedName[ref])
<1> SUFFICES ASSUME NEW ref PROVE Expands!Found(ref) = At(flows, FoldedName[ref])
  OBVIOUS
<1>1. Expands!Found(ref) = FoundIn(flows, ref)
  BY DEF Expands!Found, FoundIn
<1> QED
  BY <1>1, FoundByName

\* Expands!Flattened is what FlatIn makes of the first workflow.
LEMMA SameFlattened == Expands!Flattened = FlatIn(flows, Size(flows))[1]
<1>1. \A expansions, i, m : Expands!Joined(expansions, i, m) = JoinedIn(flows, expansions, i, m)
  BY DEF Expands!Joined, JoinedIn, Expands!Found, FoundIn
<1>2. \A n : Expands!Flat(n) = FlatIn(flows, n)
  BY <1>1 DEF Expands!Flat, FlatIn
<1> QED
  BY <1>2 DEF Expands!Flattened, Size

\* Expands!Subs are the ids of the phases that refer.
LEMMA SameSubs ==
  ASSUME flows \in Configs, NEW i \in 1..Size(flows)
  PROVE  Expands!Subs(i) = {Phases(flows, i)[m].id : m \in {n \in 1..Len(Phases(flows, i)) :
                                                            Refers(flows, i, n)}}
  BY Shape DEF Expands!Subs, Expands!Phases, Phases, Refers

\* Expands!Names are the names of the configuration.
LEMMA SameNames ==
  ASSUME flows \in Configs
  PROVE  Expands!Names = NamesOf(flows)
<1>1. {FoldedName[r] : r \in UNION {Expands!Subs(i) : i \in DOMAIN flows.workflows}} =
        UNION {{RefName(flows, i, m) : m \in {n \in 1..Len(Phases(flows, i)) : Refers(flows, i, n)}} :
                 i \in 1..Size(flows)}
  <2>1. DOMAIN flows.workflows = 1..Size(flows)
    BY Shape
  <2> HIDE DEF Size
  <2> QED
    BY <2>1, SameSubs DEF RefName
<1>2. {FoldedName[flows.workflows[i].id] : i \in DOMAIN flows.workflows} =
        {Name(flows, i) : i \in 1..Size(flows)}
  BY Shape DEF Name
<1> QED
  BY <1>1, <1>2 DEF Expands!Names, NamesOf

\* Expands!Reachable is what is reached from the first workflow.
LEMMA SameReach ==
  ASSUME flows \in Configs
  PROVE  Expands!Reachable = Reach(flows)
<1>1. ASSUME NEW S
      PROVE  Expands!Closed(S) <=> ClosedIn(flows, S)
  <2>1. \A i \in 1..Size(flows) :
          (\A r \in Expands!Subs(i) : FoldedName[r] \in S) <=>
          (\A m \in 1..Len(Phases(flows, i)) : Refers(flows, i, m) => RefName(flows, i, m) \in S)
    BY SameSubs DEF RefName
  <2>2. \A i \in 1..Size(flows) :
          Expands!Found(flows.workflows[i].id) = At(flows, Name(flows, i))
          /\ FoldedName[flows.workflows[i].id] = Name(flows, i)
    BY SameFound DEF Name
  <2>3. DOMAIN flows.workflows = 1..Size(flows)
    BY Shape
  <2> QED
    BY <2>1, <2>2, <2>3 DEF Expands!Closed, ClosedIn
<1>2. FoldedName[flows.workflows[1].id] = Name(flows, 1)
  BY DEF Name
<1> QED
  BY <1>1, <1>2, SameNames DEF Expands!Reachable, Reach

\* Expands!Circular is that a reference comes round.
LEMMA SameCircular ==
  ASSUME flows \in Configs
  PROVE  Expands!Circular <=> Cyclic(flows)
<1>1. Expands!Known = KnownIn(flows)
  BY SameFound, SameReach, Shape DEF Expands!Known, KnownIn, Name
<1>2. ASSUME NEW C \in SUBSET KnownIn(flows)
      PROVE  Expands!Around(C) <=> Ring(flows, C)
  <2>1. \A i \in C : i \in 1..Size(flows)
    BY DEF KnownIn
  <2>2. \A i \in C : (\E r \in Expands!Subs(i) : Expands!Found(r) \in C) <=>
          (\E m \in 1..Len(Phases(flows, i)) : Refers(flows, i, m) /\ RefAt(flows, i, m) \in C)
    BY <2>1, SameSubs, SameFound DEF RefAt, RefName
  <2> QED
    BY <2>2 DEF Expands!Around, Ring
<1> QED
  BY <1>1, <1>2 DEF Expands!Circular, Cyclic

\* Expands!Dangling is that a name that is reached is missing.
LEMMA SameDangling ==
  ASSUME flows \in Configs
  PROVE  Expands!Dangling <=> Dangles(flows)
<1>1. \A name : At(flows, name) = None <=>
        \A i \in DOMAIN flows.workflows : FoldedName[flows.workflows[i].id] # name
  <2> SUFFICES ASSUME NEW name
               PROVE  At(flows, name) = None <=> \A i \in 1..Size(flows) : Name(flows, i) # name
    BY Shape DEF Name
  <2> QED
    BY AtIs, Shape
<1> QED
  BY <1>1, SameReach DEF Expands!Dangling, Dangles

--------------------------------------------------------------------------------
(* WorkflowExpansion: every call, from its beginning to its end.             *)

\* While a call goes on its stack accounts for the result; what is accepted is whole,
\* and what is refused is as it says.
ExpandInv ==
  /\ flows \in Configs /\ goal \in {"expand", "collect"}
  /\ status \in {"called", "going", "done", "circular", "not found", "valid", "invalid"}
  /\ status = "going" => Going(flows, goal, stack, active, seen, result)
  /\ status \in {"done", "valid", "invalid"} => Whole(flows, goal, result)
  /\ status \in {"valid", "invalid"} => goal = "expand"
  /\ status = "circular" => Cyclic(flows)
  /\ status = "not found" => Dangles(flows)
  /\ status = "valid" => OwnedOnce(flows, result)

\* Call enters the first workflow.
LEMMA ExpandCall ==
  ASSUME ExpandInv, Expands!Call
  PROVE  ExpandInv'
<1>1. flows \in Configs /\ flows' = flows /\ goal' = goal /\ goal \in {"expand", "collect"}
  BY DEF Expands!Call, ExpandInv
<1>2. Size(flows) # 0
  <2>1. flows.workflows # <<>> /\ flows.workflows \in Seq({flows.workflows[i] : i \in DOMAIN flows.workflows})
    BY <1>1, FlowAssumption DEF Expands!Call, Expands!FlowConstants
  <2> QED
    BY <2>1 DEF Size
<1>3. Expands!Found(flows.workflows[1].id) = 1
  BY <1>1, <1>2, SameFound, FirstAt DEF Name
<1>4. Going(flows, goal, stack', active', seen', result')
  <2> DEFINE frame == [name |-> Name(flows, 1), at |-> 1, next |-> 1]
  <2>1. /\ stack' = <<frame>> /\ active' = {Name(flows, 1)}
        /\ seen' = IF goal = "collect" THEN {Name(flows, 1)} ELSE {}
        /\ result' = IF goal = "collect" THEN <<flows.workflows[1].id>> ELSE <<>>
    BY <1>3 DEF Expands!Call, Expands!Frame, Name
  <2>2. Going(flows, goal, <<frame>>, {Name(flows, 1)},
              IF goal = "collect" THEN {Name(flows, 1)} ELSE {},
              IF goal = "collect" THEN <<flows.workflows[1].id>> ELSE <<>>)
    BY <1>1, <1>2, FirstEntered
  <2> HIDE DEF frame
  <2> QED
    BY <2>1, <2>2
<1>5. status' = "going"
  BY DEF Expands!Call
<1> QED
  BY <1>1, <1>4, <1>5 DEF ExpandInv

\* Phase passes a phase of its own.
LEMMA ExpandPhase ==
  ASSUME ExpandInv, Expands!Phase
  PROVE  ExpandInv'
<1>1. /\ flows \in Configs /\ flows' = flows /\ goal' = goal /\ goal \in {"expand", "collect"}
      /\ status = "going" /\ status' = status /\ active' = active /\ seen' = seen
  BY DEF Expands!Phase, Expands!More, ExpandInv
<1>2. Going(flows, goal, stack, active, seen, result)
  BY <1>1 DEF ExpandInv
<1> DEFINE top == stack[Len(stack)]
<1>3. /\ top.next <= Len(Phases(flows, top.at))
      /\ Phases(flows, top.at)[top.next].kind = "phase"
      /\ stack' = Advance(stack)
      /\ result' = IF goal = "expand" THEN Append(result, Phases(flows, top.at)[top.next].id) ELSE result
  BY DEF Expands!Phase, Expands!More, Expands!Top, Expands!Phases, Phases, Expands!Advanced, Advance
<1>4. Going(flows, goal, stack', active, seen, result')
  BY <1>1, <1>2, <1>3, GoingPhase
<1> QED
  BY <1>1, <1>4 DEF ExpandInv

\* SubWorkflow enters what is referred to, or refuses it.
LEMMA ExpandSubWorkflow ==
  ASSUME ExpandInv, Expands!SubWorkflow
  PROVE  ExpandInv'
<1>1. /\ flows \in Configs /\ flows' = flows /\ goal' = goal /\ goal \in {"expand", "collect"}
      /\ status = "going"
  BY DEF Expands!SubWorkflow, Expands!More, ExpandInv
<1>2. Going(flows, goal, stack, active, seen, result)
  BY <1>1 DEF ExpandInv
<1> DEFINE top == stack[Len(stack)]
           ref == Phases(flows, top.at)[top.next].id
           name == FoldedName[ref]
<1>3. /\ top.next <= Len(Phases(flows, top.at))
      /\ Phases(flows, top.at)[top.next].kind = "workflow"
      /\ Expands!Enter(ref)
  BY DEF Expands!SubWorkflow, Expands!More, Expands!Top, Expands!Phases, Phases
<1>4. Refers(flows, top.at, top.next) /\ name = RefName(flows, top.at, top.next)
  <2>1. top.next \in Nat \ {0} /\ Len(Phases(flows, top.at)) \in Nat
    BY <1>1, <1>2, GoingOn, Shape
  <2> QED
    BY <1>3, <2>1 DEF Refers, RefName
<1>5. Expands!Found(ref) = At(flows, name) /\ RefAt(flows, top.at, top.next) = At(flows, name)
  BY <1>4, SameFound DEF RefAt
<1> DEFINE again == goal = "collect" /\ name \in seen
           frame == Expands!Frame(ref)
           put == IF again THEN [frame EXCEPT !.next = Len(Expands!Phases(frame)) + 1] ELSE frame
<1>6. put = [name |-> name, at |-> At(flows, name),
             next |-> IF again THEN Len(Phases(flows, At(flows, name))) + 1 ELSE 1]
  BY <1>5 DEF Expands!Frame, Expands!Phases, Phases
<1>7. \/ /\ name \in active /\ status' = "circular"
      \/ /\ name \notin active /\ At(flows, name) = None /\ status' = "not found"
      \/ /\ name \notin active /\ At(flows, name) # None
         /\ stack' = Append(stack, put) /\ active' = active \cup {name}
         /\ seen' = IF goal = "collect" THEN seen \cup {name} ELSE seen
         /\ result' = IF goal = "collect" /\ ~again
                        THEN Append(result, flows.workflows[At(flows, name)].id) ELSE result
         /\ status' = status
  BY <1>3, <1>5 DEF Expands!Enter
<1> HIDE DEF again, frame, put, name, ref, top
<1>8. CASE name \in active /\ status' = "circular"
  <2>1. Cyclic(flows)
    BY <1>1, <1>2, <1>4, <1>8, GoingRound DEF top
  <2> QED
    BY <1>1, <1>8, <2>1 DEF ExpandInv
<1>9. CASE name \notin active /\ At(flows, name) = None /\ status' = "not found"
  <2>1. Dangles(flows)
    BY <1>1, <1>2, <1>4, <1>5, <1>9, GoingNowhere DEF top
  <2> QED
    BY <1>1, <1>9, <2>1 DEF ExpandInv
<1>10. CASE name \notin active /\ At(flows, name) # None /\ status' = status
            /\ stack' = Append(stack, put) /\ active' = active \cup {name}
            /\ seen' = (IF goal = "collect" THEN seen \cup {name} ELSE seen)
            /\ result' = IF goal = "collect" /\ ~again
                           THEN Append(result, flows.workflows[At(flows, name)].id) ELSE result
  <2>1. again = (goal = "collect" /\ name \in seen)
    BY DEF again
  <2>2. Going(flows, goal, Append(stack, put), active \cup {name},
              IF goal = "collect" THEN seen \cup {name} ELSE seen,
              IF goal = "collect" /\ ~again
                THEN Append(result, flows.workflows[At(flows, name)].id) ELSE result)
    <3>1. name \notin active /\ At(flows, name) # None
      BY <1>10
    <3>2. /\ Refers(flows, stack[Len(stack)].at, stack[Len(stack)].next)
          /\ name = RefName(flows, stack[Len(stack)].at, stack[Len(stack)].next)
      BY <1>4 DEF top
    <3> HIDE <1>10
    <3> QED
      BY <1>1, <1>2, <1>6, <2>1, <3>1, <3>2, GoingIn, Zenon
  <2>3. Going(flows, goal, stack', active', seen', result')
    BY <1>10, <2>2
  <2> QED
    BY <1>1, <1>10, <2>3 DEF ExpandInv
<1> QED
  BY <1>7, <1>8, <1>9, <1>10

\* Leave goes back to the caller, or ends the call.
LEMMA ExpandLeave ==
  ASSUME ExpandInv, Expands!Leave
  PROVE  ExpandInv'
<1>1. /\ flows \in Configs /\ flows' = flows /\ goal' = goal /\ goal \in {"expand", "collect"}
      /\ status = "going" /\ seen' = seen /\ result' = result
  BY DEF Expands!Leave, ExpandInv
<1>2. Going(flows, goal, stack, active, seen, result)
  BY <1>1 DEF ExpandInv
<1> DEFINE top == stack[Len(stack)]
           rest == SubSeq(stack, 1, Len(stack) - 1)
<1>3. /\ top.next > Len(Phases(flows, top.at))
      /\ active' = active \ {top.name}
      /\ stack' = IF rest = <<>> THEN <<>> ELSE Advance(rest)
      /\ status' = IF rest = <<>> THEN "done" ELSE "going"
  BY DEF Expands!Leave, Expands!Front, Expands!Top, Expands!Phases, Phases, Advance
<1>4. Len(stack) \in Nat /\ Len(stack) > 0 /\ stack \in Seq(Frames(flows))
  BY <1>2 DEF Going, Entered
<1>5. rest = <<>> <=> Len(stack) = 1
  <2>1. rest \in Seq(Frames(flows)) /\ Len(rest) = Len(stack) - 1
    <3>1. Entered(flows, stack, active)
      BY <1>2 DEF Going
    <3> QED
      BY <1>1, <1>4, <3>1, EnteredPop DEF Entered
  <2> HIDE DEF rest
  <2>2. rest = <<>> <=> Len(rest) = 0
    BY <2>1
  <2> QED
    BY <1>4, <2>1, <2>2
<1> HIDE DEF top, rest
<1>6. CASE rest = <<>>
  <2>1. Whole(flows, goal, result)
    BY <1>1, <1>2, <1>3, <1>5, <1>6, GoingEnds DEF top
  <2> QED
    BY <1>1, <1>3, <1>6, <2>1 DEF ExpandInv
<1>7. CASE rest # <<>>
  <2>1. Going(flows, goal, Advance(rest), active \ {top.name}, seen, result)
    BY <1>1, <1>2, <1>3, <1>5, <1>7, GoingBack DEF top, rest
  <2> QED
    BY <1>1, <1>3, <1>7, <2>1 DEF ExpandInv
<1> QED
  BY <1>6, <1>7

\* Validate passes what has its owner once.
LEMMA ExpandValidate ==
  ASSUME ExpandInv, Expands!Validate
  PROVE  ExpandInv'
<1> DEFINE p == flows.workflows[1].publication
<1>1. /\ flows \in Configs /\ flows' = flows /\ goal' = goal /\ goal = "expand"
      /\ status = "done" /\ result' = result /\ p # None
      /\ status' = IF Expands!PublicationValid(p) THEN "valid" ELSE "invalid"
  BY DEF Expands!Validate, ExpandInv
<1>2. Whole(flows, goal, result)
  BY <1>1 DEF ExpandInv
<1>3. status' \in {"valid", "invalid"}
  BY <1>1
<1>4. ASSUME status' = "valid" PROVE OwnedOnce(flows, result)
  <2>1. Expands!PublicationValid(p)
    BY <1>1, <1>4
  <2>2. p.required => /\ p.owner # None
                      /\ p.owner.kind = "phase" => Expands!OwnerOnce(p.owner.id)
    <3> HIDE DEF p
    <3> QED
      BY <2>1, Zenon DEF Expands!PublicationValid
  <2> QED
    BY <1>1, <2>2 DEF Expands!OwnerOnce, OwnedOnce
<1> QED
  BY <1>1, <1>2, <1>3, <1>4 DEF ExpandInv

\* Every step of an expansion keeps its invariant.
LEMMA ExpandStep == ExpandInv /\ Expands!Next => ExpandInv'
  BY ExpandCall, ExpandPhase, ExpandSubWorkflow, ExpandLeave, ExpandValidate DEF Expands!Next

\* Of every expansion, what ExpandedAsWritten says.
LEMMA ExpandStands ==
  ASSUME ExpandInv
  PROVE  Expands!ExpandsWhole /\ Expands!OneReceipt
<1>1. flows \in Configs
  BY DEF ExpandInv
<1>2. status = "circular" => Expands!Circular
  BY <1>1, SameCircular DEF ExpandInv
<1>3. status = "not found" => Expands!Dangling
  BY <1>1, SameDangling DEF ExpandInv
<1>4. ASSUME status \in {"done", "valid", "invalid"}
      PROVE  /\ ~Expands!Circular /\ ~Expands!Dangling
             /\ goal = "expand" => result = Expands!Flattened
             /\ goal = "collect" =>
                  /\ {FoldedName[result[i]] : i \in DOMAIN result} = Expands!Reachable
                  /\ Expands!IsInjective(result)
  <2>1. Whole(flows, goal, result)
    BY <1>4 DEF ExpandInv
  <2>2. ~Expands!Circular /\ ~Expands!Dangling
    BY <1>1, <2>1, SameCircular, SameDangling DEF Whole
  <2>3. goal = "expand" => result = Expands!Flattened
    BY <2>1, SameFlattened DEF Whole
  <2>4. ASSUME goal = "collect"
        PROVE  /\ {FoldedName[result[i]] : i \in DOMAIN result} = Expands!Reachable
               /\ Expands!IsInjective(result)
    <3>1. /\ {FoldedName[result[i]] : i \in 1..Len(result)} = Reach(flows)
          /\ result \in Seq(FlowIds(flows))
          /\ \A i, j \in 1..Len(result) : FoldedName[result[i]] = FoldedName[result[j]] => i = j
      BY <2>1, <2>4 DEF Whole
    <3>2. DOMAIN result = 1..Len(result)
      BY <3>1
    <3> QED
      BY <1>1, <3>1, <3>2, SameReach DEF Expands!IsInjective
  <2> QED
    BY <2>2, <2>3, <2>4
<1>5. Expands!OneReceipt
  <2> DEFINE p == flows.workflows[1].publication
             Publishing == {i \in DOMAIN Expands!Flattened :
                              FoldedName[Expands!Flattened[i]] = FoldedName[p.owner.id]}
  <2>1. ASSUME status = "valid", p.required
        PROVE  p.owner.kind = "runner" \/ Expands!Cardinality(Publishing) = 1
    <3>1. OwnedOnce(flows, result) /\ Whole(flows, goal, result) /\ goal = "expand"
      BY <2>1 DEF ExpandInv
    <3>2. result = Expands!Flattened
      BY <3>1, SameFlattened DEF Whole
    <3>3. /\ p # None /\ p.owner # None
          /\ p.owner.kind = "phase" => Expands!Cardinality(Publishing) = 1
      BY <2>1, <3>1, <3>2, Zenon DEF OwnedOnce
    <3>4. p.owner.kind \in {"runner", "phase"}
      <4> 1 \in 1..Size(flows)
        BY <1>1, <3>1, Shape DEF Whole
      <4> QED
        BY <1>1, <3>3, Shape
    <3> QED
      BY <3>3, <3>4
  <2> QED
    BY <2>1 DEF Expands!OneReceipt
<1> QED
  BY <1>2, <1>3, <1>4, <1>5 DEF Expands!ExpandsWhole

\* What is refused is circular, or refers to what is not there; what is accepted is the
\* whole of it, every phase in its place or every workflow once, and one that must
\* publish, and passed, has its owner among its phases once.
THEOREM WorkflowsExpand == JourneySpec => []ExpandedAsWritten
<1> DEFINE Inv == machine = "expand" => ExpandInv
<1>1. JourneyInit => Inv
  BY DEF JourneyInit, ExpandInit, Expands!Init, ExpandInv
<1>2. Inv /\ [JourneyNext]_journeyVars => Inv'
  <2> SUFFICES ASSUME Inv, [JourneyNext]_journeyVars, machine' = "expand" PROVE ExpandInv'
    OBVIOUS
  <2>1. machine = "expand" /\ ExpandInv
    BY DEF JourneyNext, journeyVars
  <2>2. CASE JourneyNext
    BY <2>1, <2>2, ExpandStep DEF JourneyNext
  <2>3. CASE UNCHANGED journeyVars
    BY <2>1, <2>3 DEF journeyVars, expandVars, ExpandInv
  <2> QED
    BY <2>2, <2>3
<1>3. Inv => ExpandedAsWritten
  BY ExpandStands DEF ExpandedAsWritten
<1> QED
  BY <1>1, <1>2, <1>3, PTL DEF JourneySpec

================================================================================
