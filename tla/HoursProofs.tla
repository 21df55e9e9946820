----------------------------- MODULE HoursProofs -----------------------------
(***************************************************************************)
(* Theorems about the hours that are planned and worked: Reports, for any  *)
(* interns, companies, histories and periods, and Schedule, for every set  *)
(* of times and dates and any number of half-days.                         *)
(***************************************************************************)
EXTENDS Reports, Schedule, FiniteSetTheorems, SequenceTheorems,
        WellFoundedInduction, TLAPS
-----------------------------------------------------------------------------
\* Reports: sums over finite sets.

\* U is a part of T and not all of it.
Within(U, T) == U \subseteq T /\ U # T

\* Induction over finite sets: of any parts of S, one has none of the others within it.
LEMMA SmallestSet ==
  ASSUME NEW S, IsFiniteSet(S), NEW F, F \subseteq SUBSET S, F # {}
  PROVE  \E T \in F : \A U \in F : ~Within(U, T)
<1>1. IsWellFoundedOn(StrictSubsetOrdering(S), FiniteSubsetsOf(S))
  BY FS_StrictSubsetOrderingWellFounded
<1>2. F \subseteq FiniteSubsetsOf(S)
  BY FS_Subset DEF FiniteSubsetsOf
<1>3. \E T \in F : \A U \in F : <<U, T>> \notin StrictSubsetOrdering(S)
  BY <1>1, <1>2, WFMin
<1>4. QED
  BY <1>3 DEF StrictSubsetOrdering, Within
-----------------------------------------------------------------------------
\* The function by which a fold over the parts of T adds up f.
Pick(T) == CHOOSE x \in T : TRUE
Rest(T) == T \ {Pick(T)}
Adds(f, T, g) ==
  g = [s \in SUBSET T |-> IF s = {} THEN 0 ELSE f[Pick(s)] + g[Rest(s)]]

\* The element that a fold takes, and what it leaves.
LEMMA Picked == \A T : T # {} => Pick(T) \in T /\ Rest(T) \subseteq T /\ Rest(T) # T
BY DEF Pick, Rest

\* The operator of the community modules is such a function, if there is one.
LEMMA SumIs ==
  ASSUME NEW f, NEW T, \E g : Adds(f, T, g)
  PROVE  \E g : Adds(f, T, g) /\ SumFunctionOnSet(f, T) = g[T]
BY DEF SumFunctionOnSet, FoldFunctionOnSet, MapThenFoldSet, Adds, Pick, Rest

\* What such a function says of a part of T.
LEMMA AddsRow ==
  ASSUME NEW f, NEW T, NEW g, Adds(f, T, g), NEW s, s \subseteq T
  PROVE  g[s] = IF s = {} THEN 0 ELSE f[Pick(s)] + g[Rest(s)]
BY DEF Adds

\* Two such functions agree wherever both are defined.
LEMMA AddsAgree ==
  ASSUME NEW f, NEW S, IsFiniteSet(S),
         NEW T \in SUBSET S, NEW g, Adds(f, T, g),
         NEW U \in SUBSET S, NEW h, Adds(f, U, h)
  PROVE  \A s \in (SUBSET T) \cap (SUBSET U) : g[s] = h[s]
<1> DEFINE F == {s \in SUBSET S : s \subseteq T /\ s \subseteq U /\ g[s] # h[s]}
<1> SUFFICES ASSUME F # {} PROVE FALSE
  OBVIOUS
<1>1. PICK s \in F : \A r \in F : ~Within(r, s)
  <2>1. F \subseteq SUBSET S
    OBVIOUS
  <2>2. QED
    BY <2>1, SmallestSet
<1>2. g[s] = (IF s = {} THEN 0 ELSE f[Pick(s)] + g[Rest(s)])
  BY AddsRow
<1>3. h[s] = (IF s = {} THEN 0 ELSE f[Pick(s)] + h[Rest(s)])
  BY AddsRow
<1>4. s # {} => Rest(s) \in SUBSET S /\ Rest(s) \subseteq T /\ Rest(s) \subseteq U /\ Within(Rest(s), s)
  BY Picked DEF Within
<1>5. s # {} => g[Rest(s)] = h[Rest(s)]
  BY <1>1, <1>4
<1>6. QED
  BY <1>1, <1>2, <1>3, <1>5

\* There is such a function for every finite set.
LEMMA AddsExists ==
  ASSUME NEW f, NEW S, IsFiniteSet(S)
  PROVE  \A T \in SUBSET S : \E g : Adds(f, T, g)
<1> DEFINE F == {T \in SUBSET S : ~\E g : Adds(f, T, g)}
<1> SUFFICES ASSUME F # {} PROVE FALSE
  OBVIOUS
<1>1. PICK T \in F : \A r \in F : ~Within(r, T)
  <2>1. F \subseteq SUBSET S
    OBVIOUS
  <2>2. QED
    BY <2>1, SmallestSet
<1>2. \A s : Within(s, T) => \E g : Adds(f, s, g) /\ SumFunctionOnSet(f, s) = g[s]
  <2> SUFFICES ASSUME NEW s, Within(s, T) PROVE \E g : Adds(f, s, g) /\ SumFunctionOnSet(f, s) = g[s]
    OBVIOUS
  <2>1. s \in SUBSET S /\ s \notin F
    BY <1>1 DEF Within
  <2>2. QED
    BY <2>1, SumIs
<1> DEFINE value(s) == IF s = {} THEN 0 ELSE f[Pick(s)] + SumFunctionOnSet(f, Rest(s))
           G == [s \in SUBSET T |-> value(s)]
<1>3. ASSUME NEW s, Within(s, T) PROVE SumFunctionOnSet(f, s) = value(s)
  <2>1. PICK g : Adds(f, s, g) /\ SumFunctionOnSet(f, s) = g[s]
    BY <1>2, <1>3
  <2>2. g[s] = IF s = {} THEN 0 ELSE f[Pick(s)] + g[Rest(s)]
    BY <2>1, AddsRow
  <2>3. ASSUME s # {} PROVE g[Rest(s)] = SumFunctionOnSet(f, Rest(s))
    <3>1. Within(Rest(s), T) /\ Rest(s) \subseteq s
      BY <1>3, <2>3, Picked DEF Within
    <3>2. PICK h : Adds(f, Rest(s), h) /\ SumFunctionOnSet(f, Rest(s)) = h[Rest(s)]
      BY <1>2, <3>1
    <3>3. s \in SUBSET S /\ Rest(s) \in SUBSET S
      BY <1>3, <3>1 DEF Within
    <3>4. \A r \in (SUBSET s) \cap (SUBSET Rest(s)) : g[r] = h[r]
      BY <2>1, <3>2, <3>3, AddsAgree
    <3>5. QED
      BY <3>1, <3>2, <3>4
  <2>4. QED
    BY <2>1, <2>2, <2>3
<1>4. ASSUME NEW s \in SUBSET T, s # {} PROVE value(s) = f[Pick(s)] + G[Rest(s)]
  <2>1. Rest(s) \in SUBSET T /\ Within(Rest(s), T)
    BY <1>4, Picked DEF Within
  <2>2. SumFunctionOnSet(f, Rest(s)) = value(Rest(s))
    BY <1>3, <2>1
  <2>3. G[Rest(s)] = value(Rest(s))
    BY <2>1
  <2> HIDE DEF G
  <2>4. QED
    BY <1>4, <2>2, <2>3
<1>5. Adds(f, T, G)
  <2> DEFINE H == [s \in SUBSET T |-> IF s = {} THEN 0 ELSE f[Pick(s)] + G[Rest(s)]]
  <2>1. ASSUME NEW s \in SUBSET T PROVE value(s) = IF s = {} THEN 0 ELSE f[Pick(s)] + G[Rest(s)]
    <3>1. CASE s = {}
      BY <3>1
    <3>2. CASE s # {}
      BY <1>4, <3>2
    <3>3. QED
      BY <3>1, <3>2
  <2>2. G = H
    <3> HIDE DEF value
    <3>1. G = [s \in SUBSET T |-> value(s)]
      OBVIOUS
    <3> HIDE DEF G
    <3>2. QED
      BY <2>1, <3>1
  <2> HIDE DEF G, value
  <2>3. QED
    BY <2>2 DEF Adds
<1>6. QED
  BY <1>1, <1>5
-----------------------------------------------------------------------------
\* What a sum is: nothing, or one of its terms and the sum of the others.
LEMMA SumUnfolds ==
  ASSUME NEW f, NEW S, IsFiniteSet(S), NEW T \in SUBSET S
  PROVE  SumFunctionOnSet(f, T) =
           IF T = {} THEN 0 ELSE f[Pick(T)] + SumFunctionOnSet(f, Rest(T))
<1>1. \A U \in SUBSET S : \E g : Adds(f, U, g)
  BY AddsExists
<1>2. PICK g : Adds(f, T, g) /\ SumFunctionOnSet(f, T) = g[T]
  BY <1>1, SumIs
<1>3. g[T] = IF T = {} THEN 0 ELSE f[Pick(T)] + g[Rest(T)]
  BY <1>2, AddsRow
<1>4. ASSUME T # {} PROVE g[Rest(T)] = SumFunctionOnSet(f, Rest(T))
  <2>1. Rest(T) \in SUBSET S /\ Rest(T) \subseteq T
    BY <1>4, Picked
  <2>2. PICK h : Adds(f, Rest(T), h) /\ SumFunctionOnSet(f, Rest(T)) = h[Rest(T)]
    BY <1>1, <2>1, SumIs
  <2>3. \A s \in (SUBSET T) \cap (SUBSET Rest(T)) : g[s] = h[s]
    BY <1>2, <2>1, <2>2, AddsAgree
  <2>4. QED
    BY <2>1, <2>2, <2>3
<1>5. QED
  BY <1>2, <1>3, <1>4

Numbers(f, T) == \A x \in T : f[x] \in Int

\* A sum of integers is an integer.
LEMMA SumType ==
  ASSUME NEW f, NEW S, IsFiniteSet(S), Numbers(f, S)
  PROVE  SumFunctionOnSet(f, S) \in Int
<1> DEFINE F == {T \in SUBSET S : SumFunctionOnSet(f, T) \notin Int}
<1> SUFFICES ASSUME F # {} PROVE FALSE
  OBVIOUS
<1>1. PICK T \in F : \A r \in F : ~Within(r, T)
  <2>1. F \subseteq SUBSET S
    OBVIOUS
  <2>2. QED
    BY <2>1, SmallestSet
<1>2. SumFunctionOnSet(f, T) =
        IF T = {} THEN 0 ELSE f[Pick(T)] + SumFunctionOnSet(f, Rest(T))
  BY <1>1, FS_Subset, SumUnfolds
<1>3. ASSUME T # {} PROVE f[Pick(T)] \in Int /\ SumFunctionOnSet(f, Rest(T)) \in Int
  <2>1. Pick(T) \in S /\ Rest(T) \in SUBSET S /\ Within(Rest(T), T)
    BY <1>3, Picked DEF Within
  <2>2. Rest(T) \notin F
    BY <1>1, <2>1
  <2>3. SumFunctionOnSet(f, Rest(T)) \in Int
    BY <2>1, <2>2
  <2>4. f[Pick(T)] \in Int
    BY <2>1 DEF Numbers
  <2>5. QED
    BY <2>3, <2>4
<1>4. SumFunctionOnSet(f, T) \in Int
  BY <1>2, <1>3
<1>5. QED
  BY <1>1, <1>4

\* The sum is that of any term and the others.
LEMMA SumTakes ==
  ASSUME NEW f, NEW S, IsFiniteSet(S), Numbers(f, S), NEW x \in S
  PROVE  SumFunctionOnSet(f, S) = f[x] + SumFunctionOnSet(f, S \ {x})
<1> DEFINE Right(T) == \A y \in T : SumFunctionOnSet(f, T) = f[y] + SumFunctionOnSet(f, T \ {y})
           F == {T \in SUBSET S : ~Right(T)}
<1> SUFFICES ASSUME F # {} PROVE FALSE
  OBVIOUS
<1>1. PICK T \in F : \A r \in F : ~Within(r, T)
  <2>1. F \subseteq SUBSET S
    OBVIOUS
  <2>2. QED
    BY <2>1, SmallestSet
<1>2. \A U \in SUBSET S : IsFiniteSet(U) /\ SumFunctionOnSet(f, U) \in Int
  <2> SUFFICES ASSUME NEW U \in SUBSET S PROVE IsFiniteSet(U) /\ SumFunctionOnSet(f, U) \in Int
    OBVIOUS
  <2>1. IsFiniteSet(U) /\ Numbers(f, U)
    BY FS_Subset DEF Numbers
  <2>2. QED
    BY <2>1, SumType
<1>3. ASSUME NEW y \in T PROVE SumFunctionOnSet(f, T) = f[y] + SumFunctionOnSet(f, T \ {y})
  <2> DEFINE p == Pick(T)
  <2>1. /\ p \in T /\ Rest(T) = T \ {p} /\ T # {} /\ Within(T \ {p}, T)
        /\ T \ {p} \in SUBSET S /\ T \ {y} \in SUBSET S /\ T \ {p, y} \in SUBSET S
    BY <1>3, Picked DEF Rest, Within
  <2>2. SumFunctionOnSet(f, T) = f[p] + SumFunctionOnSet(f, T \ {p})
    BY <1>2, <2>1, SumUnfolds
  <2>3. CASE y = p
    BY <2>2, <2>3
  <2>4. CASE y # p
    <3>1. T \ {p} \notin F
      BY <1>1, <2>1
    <3>2. Right(T \ {p})
      BY <2>1, <3>1
    <3>3. y \in T \ {p} /\ (T \ {p}) \ {y} = T \ {p, y} /\ (T \ {y}) \ {p} = T \ {p, y}
      BY <2>4
    <3>4. SumFunctionOnSet(f, T \ {p}) = f[y] + SumFunctionOnSet(f, T \ {p, y})
      BY <3>2, <3>3
    \* The same from the other side.
    <3>5. SumFunctionOnSet(f, T \ {y}) = f[p] + SumFunctionOnSet(f, T \ {p, y})
      <4>1. T \ {y} \notin F
        <5>1. Within(T \ {y}, T)
          BY DEF Within
        <5>2. QED
          BY <1>1, <5>1
      <4>2. Right(T \ {y})
        BY <2>1, <4>1
      <4>3. p \in T \ {y}
        BY <2>1, <2>4
      <4>4. QED
        BY <3>3, <4>2, <4>3
    <3>6. f[p] \in Int /\ f[y] \in Int /\ SumFunctionOnSet(f, T \ {p, y}) \in Int
      BY <1>2, <2>1 DEF Numbers
    <3> HIDE DEF p
    <3>7. QED
      BY <2>2, <3>4, <3>5, <3>6
  <2>5. QED
    BY <2>3, <2>4
<1>4. QED
  BY <1>1, <1>3

\* The sum does not depend on f elsewhere.
LEMMA SumSame ==
  ASSUME NEW S, IsFiniteSet(S), NEW f, NEW h, \A x \in S : f[x] = h[x]
  PROVE  SumFunctionOnSet(f, S) = SumFunctionOnSet(h, S)
<1> DEFINE F == {T \in SUBSET S : SumFunctionOnSet(f, T) # SumFunctionOnSet(h, T)}
<1> SUFFICES ASSUME F # {} PROVE FALSE
  OBVIOUS
<1>1. PICK T \in F : \A r \in F : ~Within(r, T)
  <2>1. F \subseteq SUBSET S
    OBVIOUS
  <2>2. QED
    BY <2>1, SmallestSet
<1>2. IsFiniteSet(T)
  BY <1>1, FS_Subset
<1>3. /\ SumFunctionOnSet(f, T) = IF T = {} THEN 0 ELSE f[Pick(T)] + SumFunctionOnSet(f, Rest(T))
      /\ SumFunctionOnSet(h, T) = IF T = {} THEN 0 ELSE h[Pick(T)] + SumFunctionOnSet(h, Rest(T))
  BY <1>2, SumUnfolds
<1>4. ASSUME T # {} PROVE f[Pick(T)] = h[Pick(T)] /\ SumFunctionOnSet(f, Rest(T)) = SumFunctionOnSet(h, Rest(T))
  <2>1. Pick(T) \in S /\ Rest(T) \in SUBSET S /\ Within(Rest(T), T)
    BY <1>4, Picked DEF Within
  <2>2. Rest(T) \notin F
    BY <1>1, <2>1
  <2>3. QED
    BY <2>1, <2>2
<1>5. QED
  BY <1>1, <1>3, <1>4

\* Terms that are zero add nothing.
LEMMA SumZeros ==
  ASSUME NEW f, NEW S, IsFiniteSet(S), Numbers(f, S), NEW P \in SUBSET S,
         \A x \in S \ P : f[x] = 0
  PROVE  SumFunctionOnSet(f, S) = SumFunctionOnSet(f, P)
<1> DEFINE Z(T) == SumFunctionOnSet(f, T) = SumFunctionOnSet(f, T \cap P)
           F == {T \in SUBSET S : ~Z(T)}
<1>1. ASSUME F # {} PROVE FALSE
  <2>1. PICK T \in F : \A r \in F : ~Within(r, T)
    <3>1. F \subseteq SUBSET S
      OBVIOUS
    <3>2. QED
      BY <1>1, <3>1, SmallestSet
  <2>2. PICK y \in T : y \notin P
    <3>1. T \cap P # T
      BY <2>1
    <3>2. QED
      BY <3>1
  <2>3. T \ {y} \in SUBSET S /\ Within(T \ {y}, T) /\ (T \ {y}) \cap P = T \cap P /\ f[y] = 0
    BY <2>1, <2>2 DEF Within
  <2>4. Z(T \ {y})
    BY <2>1, <2>3
  <2>5. IsFiniteSet(T) /\ Numbers(f, T) /\ IsFiniteSet(T \ {y}) /\ Numbers(f, T \ {y})
    BY <2>1, <2>3, FS_Subset DEF Numbers
  <2>6. /\ SumFunctionOnSet(f, T) = f[y] + SumFunctionOnSet(f, T \ {y})
        /\ SumFunctionOnSet(f, T \ {y}) \in Int
    BY <2>5, SumTakes, SumType
  <2>7. SumFunctionOnSet(f, T) = SumFunctionOnSet(f, T \cap P)
    BY <2>3, <2>4, <2>6
  <2>8. QED
    BY <2>1, <2>7
<1>2. S \notin F
  BY <1>1
<1>3. Z(S) /\ S \cap P = P
  BY <1>2
<1>4. QED
  BY <1>3

\* The terms of two sums may be added first.
LEMMA SumAdds ==
  ASSUME NEW S, IsFiniteSet(S), NEW f, Numbers(f, S), NEW g, Numbers(g, S),
         NEW h, \A x \in S : h[x] = f[x] + g[x]
  PROVE  SumFunctionOnSet(h, S) = SumFunctionOnSet(f, S) + SumFunctionOnSet(g, S)
<1> DEFINE Z(T) == SumFunctionOnSet(h, T) = SumFunctionOnSet(f, T) + SumFunctionOnSet(g, T)
           F == {T \in SUBSET S : ~Z(T)}
<1>1. ASSUME F # {} PROVE FALSE
  <2>1. PICK T \in F : \A r \in F : ~Within(r, T)
    <3>1. F \subseteq SUBSET S
      OBVIOUS
    <3>2. QED
      BY <1>1, <3>1, SmallestSet
  <2>2. IsFiniteSet(T)
    BY <2>1, FS_Subset
  <2>3. /\ SumFunctionOnSet(f, T) = IF T = {} THEN 0 ELSE f[Pick(T)] + SumFunctionOnSet(f, Rest(T))
        /\ SumFunctionOnSet(g, T) = IF T = {} THEN 0 ELSE g[Pick(T)] + SumFunctionOnSet(g, Rest(T))
        /\ SumFunctionOnSet(h, T) = IF T = {} THEN 0 ELSE h[Pick(T)] + SumFunctionOnSet(h, Rest(T))
    BY <2>2, SumUnfolds
  <2>4. CASE T = {}
    <3>1. Z(T)
      BY <2>3, <2>4
    <3>2. QED
      BY <2>1, <3>1
  <2>5. CASE T # {}
    <3>1. Pick(T) \in S /\ Rest(T) \in SUBSET S /\ Within(Rest(T), T)
      BY <2>5, Picked DEF Within
    <3>2. Z(Rest(T))
      BY <2>1, <3>1
    <3>3. IsFiniteSet(Rest(T)) /\ Numbers(f, Rest(T)) /\ Numbers(g, Rest(T))
      BY <3>1, FS_Subset DEF Numbers
    <3>4. /\ SumFunctionOnSet(f, Rest(T)) \in Int /\ SumFunctionOnSet(g, Rest(T)) \in Int
          /\ f[Pick(T)] \in Int /\ g[Pick(T)] \in Int /\ h[Pick(T)] = f[Pick(T)] + g[Pick(T)]
      BY <3>1, <3>3, SumType DEF Numbers
    <3>5. Z(T)
      BY <2>3, <2>5, <3>2, <3>4
    <3>6. QED
      BY <2>1, <3>5
  <2>6. QED
    BY <2>4, <2>5
<1>2. S \notin F
  BY <1>1
<1>3. QED
  BY <1>2
-----------------------------------------------------------------------------
\* Every seventh day from day a.
Sevens(a, m) == {a + 7 * k : k \in 0 .. m - 1}

\* There are m of them.
LEMMA SevensCount ==
  ASSUME NEW a \in Nat, NEW m \in Nat
  PROVE  Cardinality(Sevens(a, m)) = m
<1> DEFINE f == [k \in 0 .. m - 1 |-> a + 7 * k]
<1>1. f \in Bijection(0 .. m - 1, Sevens(a, m))
  <2>1. f \in [0 .. m - 1 -> Sevens(a, m)]
    BY DEF Sevens
  <2>2. \A j, k \in 0 .. m - 1 : f[j] = f[k] => j = k
    OBVIOUS
  <2>3. \A x \in Sevens(a, m) : \E k \in 0 .. m - 1 : f[k] = x
    BY DEF Sevens
  <2>4. QED
    BY <2>1, <2>2, <2>3 DEF Bijection, Injection, Surjection, IsInjective
<1>2. IsFiniteSet(0 .. m - 1) /\ Cardinality(0 .. m - 1) = m
  <2>1. 0 \in Int /\ m - 1 \in Int
    OBVIOUS
  <2>2. QED
    BY <2>1, FS_Interval
<1>3. QED
  BY <1>1, <1>2, FS_Bijection DEF ExistsBijection

\* Day d of a period that begins on weekday `first' is a w, and what is left from
\* day a on makes m weeks, the last perhaps not whole.
Falls(first, d, w) == (first + d) % 7 = w
Fits(n, a, m) == 7 * m + a >= n /\ 7 * m + a < n + 7

Coming(n, first, w) == {d \in 0 .. n - 1 : (first + d) % 7 = w}

\* The weekdays of a period, when its first such day is a.
LEMMA Comes ==
  ASSUME NEW first \in 0 .. 6, NEW w \in 0 .. 6, NEW n \in Nat, NEW a \in 0 .. 6,
         Falls(first, a, w), NEW m \in Nat, Fits(n, a, m)
  PROVE  Cardinality(Coming(n, first, w)) = m
<1> DEFINE C == Coming(n, first, w)
<1> USE DEF Falls, Fits
<1>1. ASSUME NEW d \in 0 .. n - 1, (first + d) % 7 = w PROVE d \in Sevens(a, m)
  <2> DEFINE k == (d - a) \div 7
  <2>1. d = a + 7 * k /\ k \in Int
    BY <1>1
  <2>2. k \in 0 .. m - 1
    BY <2>1
  <2> HIDE DEF k
  <2>3. QED
    BY <2>1, <2>2 DEF Sevens
<1>2. ASSUME NEW k \in 0 .. m - 1 PROVE a + 7 * k \in C
  <2>1. a + 7 * k \in 0 .. n - 1
    OBVIOUS
  <2>2. (first + (a + 7 * k)) % 7 = w
    OBVIOUS
  <2>3. QED
    BY <2>1, <2>2 DEF Coming
<1>3. C = Sevens(a, m)
  BY <1>1, <1>2 DEF Sevens, Coming
<1>4. a \in Nat
  OBVIOUS
<1>5. QED
  BY <1>3, <1>4, SevensCount

\* occurrenceDaysInMonth and occurrenceDaysInYear count the weekdays of a period,
\* but for the Mondays of a leap year that begins on a Sunday.
LEMMA WeightIs ==
  ASSUME NEW r \in Requests, ~LeapSunday(r), NEW w \in SchoolDays
  PROVE  Weight(r)[w] = Cardinality(Coming(r.length, r.first, w))
<1> DEFINE a == IF w >= r.first THEN w - r.first ELSE w - r.first + 7
<1>1. r.first \in 0 .. 6 /\ w \in 0 .. 6
  BY RequestsAssumption DEF SchoolDays
<1>2. a \in 0 .. 6 /\ (a = w - r.first \/ a = w - r.first + 7)
  BY <1>1
<1>7. (r.first + a) % 7 = w /\ Falls(r.first, a, w)
  BY <1>1 DEF Falls
<1> HIDE DEF a
<1>3. CASE r.period = "week"
  <2>1. r.length = 7 /\ r.first = 0
    BY <1>3, RequestsAssumption
  <2>2. 1 \in Nat /\ Fits(r.length, a, 1) /\ r.length \in Nat
    BY <1>1, <1>2, <2>1 DEF Fits
  <2>3. Cardinality(Coming(r.length, r.first, w)) = 1
    BY <1>1, <1>2, <1>7, <2>2, Comes
  <2>4. QED
    BY <1>1, <1>3, <2>3 DEF Weight, Weekdays
<1>4. CASE r.period = "month"
  <2> DEFINE m == IF a <= r.length - 29 THEN 5 ELSE 4
  <2>1. r.length \in 28 .. 31
    BY <1>4, RequestsAssumption
  <2>6. m \in Nat /\ Fits(r.length, a, m) /\ r.length \in Nat
    BY <1>1, <1>2, <2>1 DEF Fits
  <2>2. Cardinality(Coming(r.length, r.first, w)) = m
    <3> HIDE DEF m
    <3>1. QED
      BY <1>1, <1>2, <1>7, <2>6, Comes
  <2>3. (\E i \in r.first .. r.first + r.length - 29 : i % 7 = w) <=> a <= r.length - 29
    <3>1. ASSUME NEW i \in r.first .. r.first + r.length - 29, i % 7 = w
          PROVE  a <= r.length - 29
      <4>1. i = w \/ i = w + 7 \/ i = w + 14 \/ i < 0 \/ i > 20
        BY <1>1, <3>1
      <4>2. QED
        BY <1>1, <1>2, <2>1, <3>1, <4>1
    <3>2. ASSUME a <= r.length - 29
          PROVE  r.first + a \in r.first .. r.first + r.length - 29
      BY <1>1, <1>2, <2>1, <3>2
    <3>3. QED
      BY <1>2, <1>7, <3>1, <3>2
  <2>4. OccurrenceDaysInMonth(r.length, r.first)[w] = m
    BY <1>1, <2>3 DEF OccurrenceDaysInMonth, Weekdays
  <2>5. QED
    BY <1>4, <2>2, <2>4 DEF Weight
<1>5. CASE r.period = "year"
  <2> DEFINE m == IF a <= r.length - 365 THEN 53 ELSE 52
  <2>1. r.length \in {365, 366}
    BY <1>5, RequestsAssumption
  <2>6. m \in Nat /\ Fits(r.length, a, m) /\ r.length \in Nat
    BY <1>1, <1>2, <2>1 DEF Fits
  <2>2. Cardinality(Coming(r.length, r.first, w)) = m
    <3> HIDE DEF m
    <3>1. QED
      BY <1>1, <1>2, <1>7, <2>6, Comes
  <2>3. w - r.first = 0 \/ (r.length = 366 /\ w - r.first = 1) <=> a <= r.length - 365
    BY <1>1, <1>2, <1>5, <2>1 DEF LeapSunday, SchoolDays
  <2>4. OccurrenceDaysInYear(r.length, r.first)[w] = m
    BY <1>1, <2>3 DEF OccurrenceDaysInYear, Weekdays
  <2>5. QED
    BY <1>5, <2>2, <2>4 DEF Weight
<1>6. QED
  BY <1>3, <1>4, <1>5, RequestsAssumption
-----------------------------------------------------------------------------
Clocks == [in : Nat \cup {None}, out : Nat \cup {None}]

\* Hours are integers.
LEMMA HoursType ==
  ASSUME NEW clocks \in Seq(Clocks)
  PROVE  Hours(clocks) \in Int
<1> DEFINE f == [h \in DOMAIN clocks |->
                   IF None \in {clocks[h].in, clocks[h].out} THEN 0
                   ELSE clocks[h].out - clocks[h].in]
<1>1. IsFiniteSet(DOMAIN clocks)
  BY FS_Interval
<1>2. \A h \in DOMAIN clocks : clocks[h] \in Clocks
  OBVIOUS
<1>3. Numbers(f, DOMAIN clocks)
  BY <1>2 DEF Numbers, Clocks
<1>4. Hours(clocks) = SumFunctionOnSet(f, DOMAIN clocks)
  BY DEF Hours, SumFunction
<1> HIDE DEF f
<1>5. QED
  BY <1>1, <1>3, <1>4, SumType

\* A day without clocks has none.
LEMMA NoHours == Hours(<<>>) = 0
<1>1. IsFiniteSet({}) /\ {} \in SUBSET {} /\ DOMAIN <<>> = {}
  BY FS_EmptySet
<1>2. \A f : SumFunctionOnSet(f, {}) = 0
  BY <1>1, SumUnfolds
<1>3. QED
  BY <1>1, <1>2 DEF Hours, SumFunction

\* What an intern clocked, date by date.
Daily(i) == [d \in DOMAIN history[i] |-> Hours(history[i][d])]

Documents == history \in [Interns -> [request.days -> Seq(HalfDays)]] /\ request \in Requests

\* The dates of a history, and that there are finitely many.
LEMMA DatesOf ==
  ASSUME Documents, NEW i \in Interns
  PROVE  /\ DOMAIN history[i] = request.days
         /\ IsFiniteSet(request.days)
         /\ Numbers(Daily(i), request.days)
         /\ \A d \in request.days : history[i][d] \in Seq(Clocks)
<1>1. history[i] \in [request.days -> Seq(HalfDays)]
  BY DEF Documents
<1>2. IsFiniteSet(request.days)
  <2>1. request \in Requests
    BY DEF Documents
  <2>2. \E n \in Nat : request.days \subseteq 0 .. n
    <3>1. CASE request.period = "week"
      <4>1. request.days \subseteq 0 .. 6
        BY <2>1, <3>1, RequestsAssumption
      <4>2. QED
        BY <4>1
    <3>2. CASE request.period = "month"
      <4>1. request.length \in 28 .. 31 /\ request.days \subseteq 1 .. request.length
        BY <2>1, <3>2, RequestsAssumption
      <4>2. request.days \subseteq 0 .. 31
        BY <4>1
      <4>3. QED
        BY <4>2
    <3>3. CASE request.period = "year"
      <4>1. request.days \subseteq 1 .. 12
        BY <2>1, <3>3, RequestsAssumption
      <4>2. request.days \subseteq 0 .. 12
        BY <4>1
      <4>3. QED
        BY <4>2
    <3>4. QED
      BY <2>1, <3>1, <3>2, <3>3, RequestsAssumption
  <2>3. PICK n \in Nat : request.days \subseteq 0 .. n
    BY <2>2
  <2>4. IsFiniteSet(0 .. n)
    BY FS_Interval
  <2>5. QED
    BY <2>3, <2>4, FS_Subset
<1>3. \A d \in request.days : history[i][d] \in Seq(Clocks)
  <2>1. HalfDays \subseteq Clocks
    BY HalfDaysAssumption DEF Clocks
  <2>2. ASSUME NEW s \in Seq(HalfDays) PROVE s \in Seq(Clocks)
    BY <2>1, <2>2
  <2>3. QED
    BY <1>1, <2>2
<1>4. \A d \in request.days : Daily(i)[d] = Hours(history[i][d])
  BY <1>1 DEF Daily
<1>5. \A d \in request.days : Daily(i)[d] \in Int
  BY <1>3, <1>4, HoursType
<1>6. QED
  BY <1>1, <1>2, <1>3, <1>5 DEF Numbers

\* A total is that of the hours by date.
LEMMA TotalIs ==
  ASSUME Documents, NEW i \in Interns, NEW dates \in SUBSET request.days
  PROVE  /\ Total(i, dates) = SumFunctionOnSet(Daily(i), dates)
         /\ IsFiniteSet(dates) /\ Numbers(Daily(i), dates)
         /\ Total(i, dates) \in Int
<1> DEFINE f == [d \in dates |-> Hours(history[i][d])]
<1>1. IsFiniteSet(dates) /\ Numbers(Daily(i), dates)
  BY DatesOf, FS_Subset DEF Numbers
<1>2. \A d \in dates : f[d] = Daily(i)[d]
  BY DatesOf DEF Daily
<1>3. Total(i, dates) = SumFunctionOnSet(f, dates)
  BY DEF Total, SumFunction
<1> HIDE DEF f
<1>4. SumFunctionOnSet(f, dates) = SumFunctionOnSet(Daily(i), dates)
  BY <1>1, <1>2, SumSame
<1>5. QED
  BY <1>1, <1>3, <1>4, SumType

\* A query finds dates that there are.
LEMMA FoundDates ==
  ASSUME Documents, NEW i \in Interns
  PROVE  Found(request, i) \in SUBSET request.days
BY DatesOf DEF Found

\* DatesOf without clocks make no difference.
LEMMA TotalOfFound ==
  ASSUME Documents, NEW i \in Interns, NEW dates \in SUBSET request.days, dates \subseteq Asked(request)
  PROVE  Total(i, dates) = Total(i, Found(request, i) \cap dates)
<1> DEFINE P == Found(request, i) \cap dates
<1>1. P \in SUBSET dates /\ P \in SUBSET request.days
  OBVIOUS
<1>2. \A d \in dates \ P : Daily(i)[d] = 0
  <2> SUFFICES ASSUME NEW d \in dates, d \notin P PROVE Daily(i)[d] = 0
    OBVIOUS
  <2>1. history[i][d] = <<>> /\ d \in DOMAIN history[i]
    BY DatesOf DEF Found
  <2>2. QED
    BY <2>1, NoHours DEF Daily
<1> HIDE DEF P
<1>3. SumFunctionOnSet(Daily(i), dates) = SumFunctionOnSet(Daily(i), P)
  BY <1>1, <1>2, TotalIs, SumZeros
<1>4. QED
  BY <1>1, <1>3, TotalIs DEF P

\* The period that is read is the one that is meant, but for the hour in which
\* a Sunday's clock says tomorrow.
LEMMA Period ==
  ASSUME NEW r \in Requests, Now(r) < 24 * 7
  PROVE  (IF r.period = "week" THEN SchoolDays ELSE r.days) \cap r.days
           = Asked(r) \cap r.days
<1>1. CASE r.period = "week"
  <2> DEFINE e == IF r.long /\ r.hour >= 2 THEN 1 ELSE 0
             h == r.hour + e
  <2>1. r.weekday \in 1 .. 7 /\ r.hour \in 0 .. 23 /\ (r.long => r.weekday = 7)
    BY RequestsAssumption
  <2>2. Now(r) = 24 * (r.weekday - 1) + h /\ h \in Int
    BY <2>1 DEF Now
  <2>3. h \in 0 .. 23
    <3>1. CASE r.weekday = 7
      BY <2>1, <2>2, <3>1
    <3>2. CASE r.weekday # 7
      BY <2>1, <3>2
    <3>3. QED
      BY <3>1, <3>2
  <2> HIDE DEF h
  <2>4. Now(r) - 24 * (r.weekday - 1) = h /\ Now(r) - 24 * (r.weekday - 5) = h + 96
    BY <2>1, <2>2, <2>3
  <2>5. h \div 24 = 0 /\ (h + 96) \div 24 = 4
    BY <2>3
  <2>6. FirstDay(r) = 0 /\ LastDay(r) = 4
    BY <2>4, <2>5 DEF FirstDay, LastDay
  <2>7. QED
    BY <1>1, <2>6 DEF Asked, SchoolDays
<1>2. CASE r.period = "month"
  BY <1>2, RequestsAssumption DEF Asked
<1>3. CASE r.period = "year"
  BY <1>3, RequestsAssumption DEF Asked
<1>4. QED
  BY <1>1, <1>2, <1>3, RequestsAssumption

\* The total over what the query finds is the total of the period.
LEMMA TotalMeant ==
  ASSUME Documents, NEW i \in Interns, Now(request) < 24 * 7
  PROVE  Total(i, Found(request, i)) =
           Total(i, DOMAIN history[i] \cap
             IF request.period = "week" THEN SchoolDays ELSE request.days)
<1> DEFINE meant == DOMAIN history[i] \cap
                      IF request.period = "week" THEN SchoolDays ELSE request.days
<1>1. DOMAIN history[i] = request.days
  BY DatesOf
<1>2. meant = Asked(request) \cap request.days
  BY <1>1, Period DEF Documents
<1> HIDE DEF meant
<1>3. meant \in SUBSET request.days /\ meant \subseteq Asked(request)
  BY <1>2
<1>4. Found(request, i) \cap meant = Found(request, i)
  BY <1>1, <1>2 DEF Found
<1>5. QED
  BY <1>3, <1>4, TotalOfFound DEF meant
-----------------------------------------------------------------------------
\* A report has finitely many columns.
LEMMA WidthFinite == request \in Requests => IsFiniteSet(Width(request))
<1> SUFFICES ASSUME request \in Requests PROVE IsFiniteSet(Width(request))
  OBVIOUS
<1>1. \E n \in Nat : Width(request) \subseteq 0 .. n
  <2>1. CASE request.period = "week"
    BY <2>1 DEF Width, SchoolDays
  <2>2. CASE request.period = "month"
    <3>1. Width(request) \subseteq 0 .. 5
      BY <2>2 DEF Width
    <3>2. QED
      BY <3>1
  <2>3. CASE request.period = "year"
    <3>1. Width(request) \subseteq 0 .. 12
      BY <2>3 DEF Width
    <3>2. QED
      BY <3>1
  <2>4. QED
    BY <2>1, <2>2, <2>3, RequestsAssumption
<1>2. PICK n \in Nat : Width(request) \subseteq 0 .. n
  BY <1>1
<1>3. IsFiniteSet(0 .. n)
  BY FS_Interval
<1>4. QED
  BY <1>2, <1>3, FS_Subset

\* A date is counted in one column, the 28th of a month in two.
LEMMA OneColumn ==
  ASSUME NEW r \in Requests, NEW d \in Asked(r), r.period # "week",
         r.period = "month" => d # 28
  PROVE  \E k \in Width(r) : Columns(r, d) = {k}
<1>1. CASE r.period = "month"
  <2>1. r.length \in 28 .. 31 /\ d \in 1 .. 31 /\ d # 28
    BY <1>1, RequestsAssumption DEF Asked
  <2>2. Columns(r, d) = {w \in 1 .. 4 : d \in 7 * w - 6 .. 7 * w} \cup (IF d >= 28 THEN {5} ELSE {})
    BY <1>1 DEF Columns
  <2>3. Width(r) = 1 .. 5
    BY <1>1 DEF Width
  <2>4. CASE d > 28
    <3>1. {w \in 1 .. 4 : d \in 7 * w - 6 .. 7 * w} = {}
      BY <2>1, <2>4
    <3>2. Columns(r, d) = {5}
      BY <2>2, <2>4, <2>1, <3>1
    <3>3. QED
      BY <2>3, <3>2
  <2>5. CASE d < 28
    <3> DEFINE k == IF d <= 7 THEN 1 ELSE IF d <= 14 THEN 2 ELSE IF d <= 21 THEN 3 ELSE 4
    <3>1. k \in 1 .. 4 /\ \A w \in 1 .. 4 : d \in 7 * w - 6 .. 7 * w <=> w = k
      BY <2>1, <2>5
    <3> HIDE DEF k
    <3>2. Columns(r, d) = {k}
      BY <2>1, <2>2, <2>5, <3>1
    <3>3. QED
      BY <2>3, <3>1, <3>2
  <2>6. QED
    BY <2>1, <2>4, <2>5
<1>2. CASE r.period = "year"
  BY <1>2 DEF Columns, Width, Asked
<1>3. QED
  BY <1>1, <1>2, RequestsAssumption

\* A function that is zero but in one place adds up to what it is there.
LEMMA SumPoint ==
  ASSUME NEW S, IsFiniteSet(S), NEW f, Numbers(f, S), NEW p \in S,
         \A x \in S \ {p} : f[x] = 0
  PROVE  SumFunctionOnSet(f, S) = f[p]
<1>1. {} \in SUBSET (S \ {p}) /\ IsFiniteSet(S \ {p}) /\ Numbers(f, S \ {p})
  BY FS_Subset DEF Numbers
<1>2. SumFunctionOnSet(f, S) = f[p] + SumFunctionOnSet(f, S \ {p})
  BY SumTakes
<1>3. SumFunctionOnSet(f, S \ {p}) = SumFunctionOnSet(f, {})
  BY <1>1, SumZeros
<1>4. SumFunctionOnSet(f, {}) = 0
  BY <1>1, SumUnfolds
<1>5. QED
  BY <1>2, <1>3, <1>4 DEF Numbers

\* Sums by columns.
Counted(D, k) == {d \in D : k \in Columns(request, d)}
ByColumn(i, D) == [k \in Width(request) |-> SumFunctionOnSet(Daily(i), Counted(D, k))]

\* Every column has an integer.
LEMMA ByColumnType ==
  ASSUME Documents, NEW i \in Interns, NEW D \in SUBSET request.days
  PROVE  Numbers(ByColumn(i, D), Width(request))
<1>1. \A k : Counted(D, k) \in SUBSET request.days
  BY DEF Counted
<1>2. \A k : SumFunctionOnSet(Daily(i), Counted(D, k)) \in Int
  BY <1>1, TotalIs
<1>3. QED
  BY <1>2 DEF Numbers, ByColumn

\* One date more.
LEMMA ByColumnTakes ==
  ASSUME Documents, NEW i \in Interns, NEW D \in SUBSET request.days, NEW y \in D,
         NEW c \in Width(request), Columns(request, y) = {c}
  PROVE  LET W == Width(request)
         IN  SumFunctionOnSet(ByColumn(i, D), W) =
               Daily(i)[y] + SumFunctionOnSet(ByColumn(i, D \ {y}), W)
<1> DEFINE W == Width(request)
           g == [k \in W |-> IF k = c THEN Daily(i)[y] ELSE 0]
<1>1. D \ {y} \in SUBSET request.days /\ y \in request.days
  OBVIOUS
<1>2. Daily(i)[y] \in Int
  BY DatesOf DEF Numbers
<1>3. IsFiniteSet(W)
  BY WidthFinite DEF Documents
<1>4. Numbers(ByColumn(i, D \ {y}), W) /\ Numbers(g, W)
  <2>1. Numbers(ByColumn(i, D \ {y}), W)
    BY <1>1, ByColumnType
  <2>2. QED
    BY <1>2, <2>1 DEF Numbers
<1>5. ASSUME NEW k \in W PROVE ByColumn(i, D)[k] = g[k] + ByColumn(i, D \ {y})[k]
  <2>1. /\ ByColumn(i, D)[k] = SumFunctionOnSet(Daily(i), Counted(D, k))
        /\ ByColumn(i, D \ {y})[k] = SumFunctionOnSet(Daily(i), Counted(D \ {y}, k))
    BY DEF ByColumn
  <2>2. CASE k = c
    <3>1. /\ y \in Counted(D, k) /\ Counted(D \ {y}, k) = Counted(D, k) \ {y}
          /\ Counted(D, k) \in SUBSET request.days
      BY <2>2 DEF Counted
    <3>2. IsFiniteSet(Counted(D, k)) /\ Numbers(Daily(i), Counted(D, k))
      BY <3>1, TotalIs
    <3>3. SumFunctionOnSet(Daily(i), Counted(D, k))
            = Daily(i)[y] + SumFunctionOnSet(Daily(i), Counted(D, k) \ {y})
      BY <3>1, <3>2, SumTakes
    <3>4. QED
      BY <2>1, <2>2, <3>1, <3>3
  <2>3. CASE k # c
    <3>1. Counted(D \ {y}, k) = Counted(D, k)
      BY <2>3 DEF Counted
    <3>2. ByColumn(i, D \ {y})[k] \in Int
      BY <1>4 DEF Numbers
    <3>3. QED
      BY <2>1, <2>3, <3>1, <3>2
  <2>4. QED
    BY <2>2, <2>3
<1>6. SumFunctionOnSet(g, W) = Daily(i)[y]
  <2>1. \A k \in W \ {c} : g[k] = 0
    OBVIOUS
  <2>2. g[c] = Daily(i)[y]
    OBVIOUS
  <2> HIDE DEF g
  <2>3. SumFunctionOnSet(g, W) = g[c]
    BY <1>3, <1>4, <2>1, SumPoint
  <2>4. QED
    BY <2>2, <2>3
<1> HIDE DEF g
<1>7. SumFunctionOnSet(ByColumn(i, D), W)
        = SumFunctionOnSet(g, W) + SumFunctionOnSet(ByColumn(i, D \ {y}), W)
  BY <1>3, <1>4, <1>5, SumAdds
<1>8. QED
  BY <1>6, <1>7

\* If every date is counted in one column, the columns add up to the dates.
LEMMA ColumnsSum ==
  ASSUME Documents, NEW i \in Interns, NEW S \in SUBSET request.days,
         \A d \in S : \E c \in Width(request) : Columns(request, d) = {c}
  PROVE  SumFunctionOnSet(ByColumn(i, S), Width(request)) = SumFunctionOnSet(Daily(i), S)
<1> DEFINE W == Width(request)
           Z(T) == SumFunctionOnSet(ByColumn(i, T), W) = SumFunctionOnSet(Daily(i), T)
           F == {T \in SUBSET S : ~Z(T)}
<1>1. IsFiniteSet(S)
  BY TotalIs
<1>2. ASSUME F # {} PROVE FALSE
  <2>1. PICK T \in F : \A r \in F : ~Within(r, T)
    <3>1. F \subseteq SUBSET S
      OBVIOUS
    <3>2. QED
      BY <1>1, <1>2, <3>1, SmallestSet
  <2>2. T \in SUBSET request.days
    BY <2>1
  <2>3. CASE T = {}
    <3>1. \A k \in W : ByColumn(i, {})[k] = 0
      <4>1. \A k : Counted({}, k) = {}
        BY DEF Counted
      <4>2. {} \in SUBSET {} /\ IsFiniteSet({})
        BY FS_EmptySet
      <4>3. SumFunctionOnSet(Daily(i), {}) = 0
        BY <1>1, SumUnfolds
      <4>4. QED
        BY <4>1, <4>3 DEF ByColumn
    <3>2. IsFiniteSet(W) /\ Numbers(ByColumn(i, {}), W) /\ {} \in SUBSET W
      BY <3>1, WidthFinite DEF Documents, Numbers
    <3>3. SumFunctionOnSet(ByColumn(i, {}), W) = SumFunctionOnSet(ByColumn(i, {}), {})
      BY <3>1, <3>2, SumZeros
    <3>4. SumFunctionOnSet(ByColumn(i, {}), {}) = 0
      BY <3>2, SumUnfolds
    <3>5. SumFunctionOnSet(Daily(i), {}) = 0
      BY <1>1, SumUnfolds
    <3>6. Z({})
      BY <3>3, <3>4, <3>5
    <3>7. QED
      BY <2>1, <2>3, <3>6
  <2>4. CASE T # {}
    <3>1. PICK y \in T : TRUE
      BY <2>4
    <3>2. PICK c \in W : Columns(request, y) = {c}
      BY <2>1, <3>1
    <3>3. SumFunctionOnSet(ByColumn(i, T), W)
            = Daily(i)[y] + SumFunctionOnSet(ByColumn(i, T \ {y}), W)
      BY <2>2, <3>1, <3>2, ByColumnTakes
    <3>4. IsFiniteSet(T) /\ Numbers(Daily(i), T)
      BY <2>2, TotalIs
    <3>5. SumFunctionOnSet(Daily(i), T) = Daily(i)[y] + SumFunctionOnSet(Daily(i), T \ {y})
      BY <3>1, <3>4, SumTakes
    <3>6. T \ {y} \in SUBSET S /\ Within(T \ {y}, T)
      BY <2>1, <3>1 DEF Within
    <3>7. Z(T \ {y})
      BY <2>1, <3>6
    <3>8. Z(T)
      BY <3>3, <3>5, <3>7
    <3>9. QED
      BY <2>1, <3>8
  <2>5. QED
    BY <2>3, <2>4
<1>3. S \notin F
  BY <1>2
<1>4. QED
  BY <1>3

\* So do the columns of a row, when there is nothing on the 28th of a month.
LEMMA ColumnsMeant ==
  ASSUME Documents, NEW i \in Interns, request.period # "week",
         request.period = "month" => history[i][28] = <<>>
  PROVE  Total(i, Found(request, i)) =
           SumFunction([k \in Width(request) |-> Column(request, i, Found(request, i), k)])
<1> DEFINE S == Found(request, i)
           f == [k \in Width(request) |-> Column(request, i, S, k)]
<1>1. S \in SUBSET request.days
  BY FoundDates
<1>2. \A d \in S : \E c \in Width(request) : Columns(request, d) = {c}
  <2>1. \A d \in S : d \in Asked(request) /\ (request.period = "month" => d # 28)
    BY DEF Found
  <2>2. QED
    BY <2>1, OneColumn DEF Documents
<1>3. SumFunctionOnSet(ByColumn(i, S), Width(request)) = SumFunctionOnSet(Daily(i), S)
  BY <1>1, <1>2, ColumnsSum
<1>4. Total(i, S) = SumFunctionOnSet(Daily(i), S)
  BY <1>1, TotalIs
<1> HIDE DEF S
<1>5. \A k \in Width(request) : f[k] = ByColumn(i, S)[k]
  <2> SUFFICES ASSUME NEW k \in Width(request) PROVE f[k] = ByColumn(i, S)[k]
    OBVIOUS
  <2>1. Counted(S, k) \in SUBSET request.days
    BY <1>1 DEF Counted
  <2>2. Column(request, i, S, k) = Total(i, Counted(S, k))
    <3>1. Column(request, i, S, k) = Total(i, {d \in S : k \in Columns(request, d)})
      BY request.period # "week", Zenon DEF Column
    <3>2. QED
      BY <3>1, Zenon DEF Counted
  <2>3. Total(i, Counted(S, k)) = SumFunctionOnSet(Daily(i), Counted(S, k))
    BY <2>1, TotalIs
  <2>4. QED
    BY <2>2, <2>3 DEF ByColumn
<1>6. IsFiniteSet(Width(request))
  BY WidthFinite DEF Documents
<1>7. DOMAIN f = Width(request)
  OBVIOUS
<1>8. SumFunction(f) = SumFunctionOnSet(f, Width(request))
  BY <1>7 DEF SumFunction
<1> HIDE DEF f
<1>9. SumFunctionOnSet(f, Width(request)) = SumFunctionOnSet(ByColumn(i, S), Width(request))
  BY <1>5, <1>6, SumSame
<1>10. QED
  BY <1>3, <1>4, <1>8, <1>9 DEF S, f
-----------------------------------------------------------------------------
\* A weekday counts an integer number of times.
LEMMA WeightType ==
  ASSUME NEW r \in Requests, NEW w \in SchoolDays
  PROVE  Weight(r)[w] \in Int
<1>1. w \in Weekdays
  BY DEF SchoolDays, Weekdays
<1>2. CASE r.period = "week"
  BY <1>1, <1>2 DEF Weight
<1>3. CASE r.period = "month"
  BY <1>1, <1>3 DEF Weight, OccurrenceDaysInMonth
<1>4. CASE r.period = "year"
  BY <1>1, <1>4 DEF Weight, OccurrenceDaysInYear
<1>5. QED
  BY <1>2, <1>3, <1>4, RequestsAssumption

\* The hours planned are an integer.
LEMMA PlannedType ==
  ASSUME NEW r \in Requests, NEW i \in Interns
  PROVE  Planned(r, i) \in Int
<1> DEFINE f == [w \in SchoolDays |-> Weight(r)[w] * Hours(Schedules[i][w])]
<1>1. ASSUME NEW w \in SchoolDays PROVE f[w] \in Int
  <2>1. Schedules[i][w] \in Seq(Clocks)
    <3>1. Schedules \in [Interns -> [0 .. 6 -> Seq(Clocks)]]
      BY SchedulesAssumption DEF Clocks
    <3>2. Schedules[i] \in [0 .. 6 -> Seq(Clocks)]
      BY <3>1
    <3>3. w \in 0 .. 6
      BY DEF SchoolDays
    <3>4. QED
      BY <3>2, <3>3
  <2>2. Hours(Schedules[i][w]) \in Int
    BY <2>1, HoursType
  <2>3. Weight(r)[w] \in Int
    BY WeightType
  <2>4. QED
    BY <2>2, <2>3
<1>2. IsFiniteSet(SchoolDays)
  <2>1. \A n \in Nat : IsFiniteSet(0 .. n)
    BY FS_Interval
  <2>2. QED
    BY <2>1 DEF SchoolDays
<1>3. Planned(r, i) = SumFunctionOnSet(f, SchoolDays)
  BY DEF Planned, SumFunction
<1> HIDE DEF f
<1>4. QED
  BY <1>1, <1>2, <1>3, SumType DEF Numbers

\* The schedule counts as often as its weekday comes in the period.
LEMMA PlannedMeant ==
  ASSUME NEW r \in Requests, ~LeapSunday(r), NEW i \in Interns
  PROVE  Planned(r, i) = SumFunction([w \in SchoolDays |->
           Cardinality({d \in 0 .. r.length - 1 : (r.first + d) % 7 = w}) * Hours(Schedules[i][w])])
<1>1. \A w \in SchoolDays :
        Weight(r)[w] = Cardinality({d \in 0 .. r.length - 1 : (r.first + d) % 7 = w})
  BY WeightIs DEF Coming
<1> DEFINE f == [w \in SchoolDays |-> Weight(r)[w] * Hours(Schedules[i][w])]
           g == [w \in SchoolDays |->
                   Cardinality({d \in 0 .. r.length - 1 : (r.first + d) % 7 = w})
                     * Hours(Schedules[i][w])]
<1>2. f = g
  BY <1>1
<1>3. Planned(r, i) = SumFunction(f)
  BY DEF Planned
<1>4. QED
  BY <1>2, <1>3
-----------------------------------------------------------------------------
\* Somebody is nowhere in a sequence, or in one place of it.
Absent(s, x) == \A n \in DOMAIN s : s[n] # x
Once(s, x) == \E n \in DOMAIN s : \A m \in DOMAIN s : s[m] = x <=> m = n

\* An answer is a sequence of what was found, each once.
LEMMA Listing ==
  ASSUME NEW S, IsFiniteSet(S)
  PROVE  /\ SetToSeq(S) \in Seq(S)
         /\ \A x : IF x \in S THEN Once(SetToSeq(S), x) ELSE Absent(SetToSeq(S), x)
<1> DEFINE n == Cardinality(S)
           s == SetToSeq(S)
<1>1. n \in Nat /\ ExistsBijection(1 .. n, S)
  BY FS_CardinalityType
<1>2. \E f \in [1 .. n -> S] : IsInjective(f)
  BY <1>1 DEF ExistsBijection, Bijection, Injection
<1>3. s \in [1 .. n -> S] /\ IsInjective(s)
  BY <1>2 DEF SetToSeq
<1>4. s \in Injection(1 .. n, S)
  BY <1>3 DEF Injection
<1>5. IsFiniteSet(1 .. n) /\ Cardinality(1 .. n) = n
  BY <1>1, FS_Interval
<1> HIDE DEF s
<1>6. s \in Surjection(1 .. n, S)
  BY <1>4, <1>5, FS_Injection
<1>7. s \in Seq(S) /\ DOMAIN s = 1 .. n
  BY <1>1, <1>3
<1>8. ASSUME NEW x \in S PROVE Once(s, x)
  <2>1. PICK k \in 1 .. n : s[k] = x
    BY <1>6 DEF Surjection
  <2>2. \A m \in 1 .. n : s[m] = s[k] => m = k
    BY <1>3 DEF IsInjective
  <2>3. QED
    BY <1>7, <2>1, <2>2 DEF Once
<1>9. ASSUME NEW x, x \notin S PROVE Absent(s, x)
  BY <1>3, <1>9 DEF Absent
<1>10. QED
  BY <1>7, <1>8, <1>9 DEF s

\* What is left of a sequence when its head has been dealt with.
LEMMA TailOf ==
  ASSUME NEW T, NEW s \in Seq(T), s # <<>>
  PROVE  /\ Head(s) \in T /\ Tail(s) \in Seq(T)
         /\ \A x : Absent(s, x) => x # Head(s) /\ Absent(Tail(s), x)
         /\ \A x : Once(s, x) => IF x = Head(s) THEN Absent(Tail(s), x) ELSE Once(Tail(s), x)
<1>1. /\ Head(s) \in T /\ Tail(s) \in Seq(T) /\ Head(s) = s[1]
      /\ DOMAIN s = 1 .. Len(s) /\ Len(s) \in Nat /\ Len(s) >= 1
      /\ DOMAIN Tail(s) = 1 .. Len(s) - 1
      /\ \A n \in 1 .. Len(s) - 1 : Tail(s)[n] = s[n + 1]
  OBVIOUS
<1> DEFINE h == Head(s)
           t == Tail(s)
<1> HIDE DEF h, t
<1>2. /\ h = s[1] /\ 1 \in DOMAIN s
      /\ \A n \in DOMAIN t : n + 1 \in DOMAIN s /\ t[n] = s[n + 1]
      /\ \A m \in DOMAIN s : m # 1 => m - 1 \in DOMAIN t /\ t[m - 1] = s[m]
      /\ \A m \in DOMAIN s \cup DOMAIN t : m \in Int
  BY <1>1 DEF h, t
<1>3. ASSUME NEW x, Absent(s, x) PROVE x # h /\ Absent(t, x)
  BY <1>2, <1>3 DEF Absent
<1>4. ASSUME NEW x, Once(s, x) PROVE IF x = h THEN Absent(t, x) ELSE Once(t, x)
  <2>1. PICK n \in DOMAIN s : \A m \in DOMAIN s : s[m] = x <=> m = n
    BY <1>4 DEF Once
  <2>2. CASE x = h
    <3>1. n = 1
      BY <1>2, <2>1, <2>2
    <3>2. \A k \in DOMAIN t : k + 1 # 1
      BY <1>1 DEF t
    <3>3. \A k \in DOMAIN t : t[k] # x
      BY <1>2, <2>1, <3>1, <3>2
    <3>4. QED
      BY <2>2, <3>3 DEF Absent
  <2>3. CASE x # h
    <3>1. n # 1
      BY <1>2, <2>1, <2>3
    <3>2. n - 1 \in DOMAIN t
      BY <1>2, <3>1
    <3>3. \A k \in DOMAIN t : t[k] = x <=> k = n - 1
      <4> SUFFICES ASSUME NEW k \in DOMAIN t PROVE t[k] = x <=> k = n - 1
        OBVIOUS
      <4>1. t[k] = s[k + 1] /\ k + 1 \in DOMAIN s /\ k \in Int /\ n \in Int
        BY <1>2
      <4>2. QED
        BY <2>1, <4>1
    <3>4. QED
      BY <2>3, <3>2, <3>3 DEF Once
  <2>4. QED
    BY <2>2, <2>3
<1>5. QED
  BY <1>1, <1>3, <1>4 DEF h, t
-----------------------------------------------------------------------------
\* A row as it is made from a history of clocks.
FoundIn(r, h) == {d \in Asked(r) \cap DOMAIN h : h[d] # <<>>}
TotalIn(h, dates) == SumFunction([d \in dates |-> Hours(h[d])])
ColumnIn(r, h, dates, k) ==
  LET counted == {d \in dates : k \in Columns(r, d)}
  IN  CASE r.period # "week" -> TotalIn(h, counted)
        [] r.period = "week" /\ counted = {} -> <<None, None>>
        [] r.period = "week" /\ counted # {} -> <<Shown(h[k], "in"), Shown(h[k], "out")>>
RowIn(r, i, h, dates) ==
  [of |-> i, columns |-> [k \in Width(r) |-> ColumnIn(r, h, dates, k)],
   total |-> TotalIn(h, dates), planned |-> Planned(r, i)]

\* It is the row of the model, with the history that it was made from.
LEMMA RowIs ==
  ASSUME NEW r, NEW i, NEW dates
  PROVE  /\ Row(r, i, dates) = RowIn(r, i, history[i], dates)
         /\ Found(r, i) = FoundIn(r, history[i])
         /\ Total(i, dates) = TotalIn(history[i], dates)
         /\ \A k : Column(r, i, dates, k) = ColumnIn(r, history[i], dates, k)
<1>1. \A D : Total(i, D) = TotalIn(history[i], D)
  BY DEF Total, TotalIn
<1>2. \A k : Column(r, i, dates, k) = ColumnIn(r, history[i], dates, k)
  BY <1>1 DEF Column, ColumnIn
<1>3. Found(r, i) = FoundIn(r, history[i])
  BY DEF Found, FoundIn
<1>4. QED
  BY <1>1, <1>2, <1>3 DEF Row, RowIn

\* Where an intern is who belongs into the report: in a company still to be
\* read, among the people of the present one, or in one row.
Running == at \in {"interns", "history", "file", "made"}
Untouched(i) == {i, company[i]} \cap touched = {} /\ company[i] \notin refused
Waits(i) == /\ request.scope # "intern" /\ Once(todo, company[i])
            /\ Absent(people, i) /\ RowsOf(i) = {}
Present(i) == Absent(todo, company[i]) /\ Once(people, i) /\ RowsOf(i) = {}
Written(i) == /\ Absent(todo, company[i]) /\ Absent(people, i)
              /\ \E n \in DOMAIN rows : RowsOf(i) = {n}
Left(i) == Absent(todo, company[i]) /\ Absent(people, i) /\ RowsOf(i) = {}
Placed(i) == IF Covers(request, i) THEN Waits(i) \/ Present(i) \/ Written(i) ELSE Left(i)

Places == Running => \A i \in Interns : Untouched(i) => Placed(i)

Stage ==
  /\ at = "companies" => request.scope = "all" /\ todo = <<>> /\ people = <<>> /\ rows = <<>>
  /\ at = "interns" => people = <<>>
  /\ request.scope = "intern" /\ Running => todo = <<>>
  /\ at \in {"file", "made"} => todo = <<>> /\ people = <<>>

RowRight(n) ==
  LET i == rows[n].of
  IN  /\ rows[n].planned = Planned(request, i)
      /\ i \notin touched \cup refused
         => rows[n] = RowIn(request, i, history[i], FoundIn(request, history[i]))
RowsRight == \A n \in DOMAIN rows : RowRight(n)

IInv == TypeOK /\ rows \in Seq(Range(rows)) /\ Places /\ Stage /\ RowsRight

\* Who is in a sequence without or with one element.
LEMMA Single ==
  /\ \A x : Absent(<<>>, x)
  /\ \A x, y : IF x = y THEN Once(<<y>>, x) ELSE Absent(<<y>>, x)
BY DEF Absent, Once

\* One row more.
LEMMA AppendRow ==
  ASSUME rows \in Seq(Range(rows)), NEW r, rows' = Append(rows, r)
  PROVE  /\ rows' \in Seq(Range(rows'))
         /\ DOMAIN rows' = DOMAIN rows \cup {Len(rows) + 1}
         /\ Len(rows) + 1 \notin DOMAIN rows
         /\ rows'[Len(rows) + 1] = r
         /\ \A n \in DOMAIN rows : rows'[n] = rows[n]
<1> DEFINE S == Range(rows) \cup {r}
<1>1. rows \in Seq(S) /\ r \in S
  OBVIOUS
<1> HIDE DEF S
<1>2. /\ Len(rows) \in Nat /\ DOMAIN rows = 1 .. Len(rows)
      /\ rows' \in Seq(S) /\ Len(rows') = Len(rows) + 1 /\ DOMAIN rows' = 1 .. Len(rows) + 1
      /\ rows'[Len(rows) + 1] = r
      /\ \A n \in 1 .. Len(rows) : rows'[n] = rows[n]
  BY <1>1
<1>3. rows' \in Seq(Range(rows'))
  BY <1>2 DEF Range
<1>4. QED
  BY <1>2, <1>3

\* The invariant holds at first.
LEMMA InvInit == Init => IInv
<1> SUFFICES ASSUME Init PROVE IInv
  OBVIOUS
<1>1. TypeOK
  <2>1. company \in [Interns -> Companies \cup {None}]
    BY HomeAssumption DEF Init
  <2>2. history \in [Interns -> [request.days -> Seq(HalfDays)]]
    <3>1. <<>> \in Seq(HalfDays)
      OBVIOUS
    <3>2. [d \in request.days |-> <<>>] \in [request.days -> Seq(HalfDays)]
      BY <3>1
    <3>3. QED
      BY <3>2 DEF Init
  <2>3. changes \in 0 .. MaxChanges
    BY ChangesAssumption DEF Init
  <2>4. QED
    BY <2>1, <2>2, <2>3 DEF Init, TypeOK, Stages
<1>2. rows \in Seq(Range(rows)) /\ RowsRight
  BY DEF Init, RowsRight
<1>3. Places /\ Stage
  BY DEF Init, Places, Stage, Running
<1>4. QED
  BY <1>1, <1>2, <1>3 DEF IInv

\* While the world changes, the report stays what it is for those who do not.
LEMMA StepWorld ==
  ASSUME IInv, UNCHANGED <<report, request, refused>>,
         TypeOK', touched \subseteq touched',
         \A i \in Interns : i \notin touched' =>
           company'[i] = company[i] /\ history'[i] = history[i],
         \A c \in Companies : c \notin touched' => (c \in open' <=> c \in open)
  PROVE  IInv'
<1>1. /\ at' = at /\ todo' = todo /\ people' = people /\ rows' = rows
      /\ request' = request /\ refused' = refused
  BY DEF report
<1>2. Stage' /\ (rows \in Seq(Range(rows)))'
  BY <1>1 DEF IInv, Stage, Running, Range
<1>3. RowsRight'
  <2> SUFFICES ASSUME NEW n \in DOMAIN rows PROVE RowRight(n)'
    BY <1>1 DEF RowsRight
  <2>1. RowRight(n) /\ rows[n].of \in Interns
    BY DEF IInv, RowsRight, TypeOK
  <2>2. QED
    BY <1>1, <2>1 DEF RowRight
<1>4. Places'
  <2> SUFFICES ASSUME Running, NEW i \in Interns, Untouched(i)' PROVE Placed(i)'
    BY <1>1 DEF Places, Running
  <2>1. i \notin touched' /\ company'[i] = company[i] /\ company[i] \notin touched'
    BY DEF Untouched
  <2>2. Untouched(i)
    BY <1>1, <2>1 DEF Untouched
  <2>3. Placed(i)
    BY <2>2 DEF IInv, Places
  <2>4. company[i] \in open' <=> company[i] \in open
    <3>1. open \subseteq Companies /\ open' \subseteq Companies
      BY DEF IInv, TypeOK
    <3>2. QED
      BY <2>1, <3>1
  <2>5. Covers(request, i)' <=> Covers(request, i)
    <3>1. CASE request.scope = "all"
      BY <1>1, <2>1, <2>4, <3>1 DEF Covers
    <3>2. CASE request.scope = "company"
      BY <1>1, <2>1, <3>2 DEF Covers
    <3>3. CASE request.scope = "intern"
      BY <1>1, <2>1, <3>3 DEF Covers
    <3>4. request \in Requests
      BY DEF IInv, TypeOK
    <3>5. QED
      BY <3>1, <3>2, <3>3, <3>4, RequestsAssumption
  <2>6. /\ Waits(i)' <=> Waits(i)
        /\ Present(i)' <=> Present(i)
        /\ Written(i)' <=> Written(i)
        /\ Left(i)' <=> Left(i)
    BY <1>1, <2>1 DEF Waits, Present, Written, Left, RowsOf
  <2>7. QED
    BY <2>3, <2>5, <2>6 DEF Placed
<1>5. QED
  BY <1>2, <1>3, <1>4 DEF IInv

\* An intern clocks.
LEMMA StepClock ==
  ASSUME IInv, NEW i \in Interns, NEW d \in request.days, Clock(i, d)
  PROVE  IInv'
<1>1. PICK h \in HalfDays : history' = [history EXCEPT ![i][d] = Append(@, h)]
  BY DEF Clock
<1>2. history \in [Interns -> [request.days -> Seq(HalfDays)]]
  BY DEF IInv, TypeOK
<1>3. history' \in [Interns -> [request.days -> Seq(HalfDays)]]
  <2>1. history[i] \in [request.days -> Seq(HalfDays)] /\ history[i][d] \in Seq(HalfDays)
    BY <1>2
  <2>2. [history[i] EXCEPT ![d] = Append(history[i][d], h)] \in [request.days -> Seq(HalfDays)]
    BY <2>1
  <2>3. QED
    BY <1>1, <1>2, <2>1, <2>2
<1>4. \A j \in Interns : j # i => history'[j] = history[j]
  BY <1>1, <1>2
<1>5. /\ UNCHANGED <<report, request, refused, company, open>> /\ touched' = touched \cup {i}
      /\ changes' = changes + 1 /\ changes < MaxChanges
  BY DEF Clock, Change
<1>6. TypeOK'
  BY <1>3, <1>5, ChangesAssumption DEF IInv, TypeOK, report
<1>7. QED
  BY <1>4, <1>5, <1>6, StepWorld

\* An intern is moved or deleted.
LEMMA StepMove ==
  ASSUME IInv, NEW i \in Interns, NEW c \in Companies \cup {None}, Move(i, c)
  PROVE  IInv'
<1>1. company' = [company EXCEPT ![i] = c] /\ company \in [Interns -> Companies \cup {None}]
  BY DEF Move, IInv, TypeOK
<1>2. company' \in [Interns -> Companies \cup {None}] /\ \A j \in Interns : j # i => company'[j] = company[j]
  BY <1>1
<1>3. /\ UNCHANGED <<report, request, refused, history, open>> /\ touched' = touched \cup {i}
      /\ changes' = changes + 1 /\ changes < MaxChanges
  BY DEF Move, Change
<1>4. TypeOK'
  BY <1>2, <1>3, ChangesAssumption DEF IInv, TypeOK, report
<1>5. QED
  BY <1>2, <1>3, <1>4, StepWorld

\* A company is deleted.
LEMMA StepDelete ==
  ASSUME IInv, NEW c \in Companies, DeleteCompany(c)
  PROVE  IInv'
<1>1. open' = open \ {c} /\ open \subseteq Companies
  BY DEF DeleteCompany, IInv, TypeOK
<1>2. /\ UNCHANGED <<report, request, refused, history, company>> /\ touched' = touched \cup {c}
      /\ changes' = changes + 1 /\ changes < MaxChanges
  BY DEF DeleteCompany, Change
<1>3. TypeOK'
  BY <1>1, <1>2, ChangesAssumption DEF IInv, TypeOK, report
<1>4. QED
  BY <1>1, <1>2, <1>3, StepWorld
-----------------------------------------------------------------------------
\* Where the report goes next.
LEMMA OnwardsGoes ==
  ASSUME NEW cs, NEW ps, Onwards(cs, ps)
  PROVE  /\ todo' = cs /\ people' = ps
         /\ at' \in {"history", "interns", "file"}
         /\ at' = "history" <=> ps # <<>>
         /\ at' = "interns" <=> ps = <<>> /\ cs # <<>>
         /\ at' = "file" <=> ps = <<>> /\ cs = <<>>
BY DEF Onwards

\* A step of the report leaves the documents alone.
LEMMA TypeKept ==
  ASSUME TypeOK, UNCHANGED <<documents, request, changes>>,
         at' \in Stages, todo' \in Seq(Companies), people' \in Seq(Interns),
         at' = "interns" => todo' # <<>>,
         at' = "history" => people' # <<>>,
         \A n \in DOMAIN rows' : /\ rows'[n].of \in Interns
                                 /\ DOMAIN rows'[n].columns = Width(request)
                                 /\ rows'[n].total \in Int /\ rows'[n].planned \in Int,
         touched' \cup refused' \subseteq Interns \cup Companies
  PROVE  TypeOK'
BY DEF TypeOK, documents

\* A report is begun.
LEMMA StepAsk == ASSUME IInv, Ask PROVE IInv'
<1>1. /\ rows' = <<>> /\ touched' = {} /\ refused' = {}
      /\ UNCHANGED <<documents, request, changes>>
      /\ company' = company /\ open' = open /\ history' = history
  BY DEF Ask, documents
<1>2. TypeOK /\ request \in Requests
  BY DEF IInv, TypeOK
<1>3. rows' \in Seq(Range(rows')) /\ RowsRight' /\ \A i : RowsOf(i)' = {}
  BY <1>1 DEF RowsRight, RowsOf
<1>4. /\ <<>> \in Seq(Companies) /\ <<>> \in Seq(Interns)
      /\ \A c \in Companies : <<c>> \in Seq(Companies) /\ <<c>> # <<>>
      /\ \A i \in Interns : <<i>> \in Seq(Interns) /\ <<i>> # <<>>
  OBVIOUS
<1>5. CASE request.scope = "all"
  <2>1. at' = "companies" /\ todo' = <<>> /\ people' = <<>>
    BY <1>5 DEF Ask
  <2>2. TypeOK'
    BY <1>1, <1>2, <1>4, <2>1, TypeKept DEF Stages
  <2>3. Stage' /\ Places'
    BY <1>1, <1>5, <2>1 DEF Stage, Places, Running
  <2>4. QED
    BY <1>3, <2>2, <2>3 DEF IInv
<1>6. CASE request.scope = "company"
  <2>1. request.of \in Companies /\ Onwards(<<request.of>>, <<>>)
    BY <1>2, <1>6, RequestsAssumption DEF Ask
  <2>2. todo' = <<request.of>> /\ people' = <<>> /\ at' = "interns" /\ todo' # <<>>
    BY <1>4, <2>1, OnwardsGoes
  <2>3. TypeOK'
    BY <1>1, <1>2, <1>4, <2>1, <2>2, TypeKept DEF Stages
  <2>4. Stage'
    BY <1>1, <1>6, <2>2 DEF Stage, Running
  <2>5. Places'
    <3> SUFFICES ASSUME NEW i \in Interns PROVE Placed(i)'
      BY DEF Places
    <3>1. Covers(request, i)' <=> company[i] = request.of
      BY <1>1, <1>6 DEF Covers
    <3>2. Absent(people, i)' /\ (RowsOf(i) = {})'
      BY <1>3, <2>2, Single
    <3>3. CASE company[i] = request.of
      <4>1. Once(todo', company'[i])
        BY <1>1, <2>2, <3>3, Single
      <4>2. Waits(i)'
        BY <1>1, <1>6, <3>2, <4>1 DEF Waits
      <4>3. QED
        BY <3>1, <3>3, <4>2 DEF Placed
    <3>4. CASE company[i] # request.of
      <4>1. Absent(todo', company'[i])
        BY <1>1, <2>2, <3>4, Single
      <4>2. Left(i)'
        BY <3>2, <4>1 DEF Left
      <4>3. QED
        BY <3>1, <3>4, <4>2 DEF Placed
    <3>5. QED
      BY <3>3, <3>4
  <2>6. QED
    BY <1>3, <2>3, <2>4, <2>5 DEF IInv
<1>7. CASE request.scope = "intern"
  <2>1. request.of \in Interns /\ Onwards(<<>>, <<request.of>>)
    BY <1>2, <1>7, RequestsAssumption DEF Ask
  <2>2. todo' = <<>> /\ people' = <<request.of>> /\ at' = "history" /\ people' # <<>>
    BY <1>4, <2>1, OnwardsGoes
  <2>3. TypeOK'
    BY <1>1, <1>2, <1>4, <2>1, <2>2, TypeKept DEF Stages
  <2>4. Stage'
    BY <1>1, <1>7, <2>2 DEF Stage, Running
  <2>5. Places'
    <3> SUFFICES ASSUME NEW i \in Interns PROVE Placed(i)'
      BY DEF Places
    <3>1. Covers(request, i)' <=> i = request.of
      BY <1>1, <1>7 DEF Covers
    <3>2. Absent(todo', company'[i]) /\ (RowsOf(i) = {})'
      BY <1>3, <2>2, Single
    <3>3. CASE i = request.of
      <4>1. Once(people', i)
        BY <2>2, <3>3, Single
      <4>2. Present(i)'
        BY <3>2, <4>1 DEF Present
      <4>3. QED
        BY <3>1, <3>3, <4>2 DEF Placed
    <3>4. CASE i # request.of
      <4>1. Absent(people', i)
        BY <2>2, <3>4, Single
      <4>2. Left(i)'
        BY <3>2, <4>1 DEF Left
      <4>3. QED
        BY <3>1, <3>4, <4>2 DEF Placed
    <3>5. QED
      BY <3>3, <3>4
  <2>6. QED
    BY <1>3, <2>3, <2>4, <2>5 DEF IInv
<1>8. QED
  BY <1>2, <1>5, <1>6, <1>7, RequestsAssumption

\* What a step that writes no row keeps of the rows.
LEMMA RowsKept ==
  ASSUME IInv, rows' = rows, request' = request, history' = history, touched' = touched,
         refused \subseteq refused'
  PROVE  (rows \in Seq(Range(rows)))' /\ RowsRight' /\ \A i : RowsOf(i)' = RowsOf(i)
<1>1. (rows \in Seq(Range(rows)))' /\ \A i : RowsOf(i)' = RowsOf(i)
  BY DEF IInv, Range, RowsOf
<1>2. ASSUME NEW n \in DOMAIN rows PROVE RowRight(n)'
  <2>1. RowRight(n)
    BY DEF IInv, RowsRight
  <2>2. QED
    BY <2>1 DEF RowRight
<1>3. QED
  BY <1>1, <1>2 DEF RowsRight

\* The companies arrive.
LEMMA StepCompanies == ASSUME IInv, CompaniesReturn PROVE IInv'
<1>1. /\ at = "companies" /\ request.scope = "all"
      /\ UNCHANGED <<documents, request, changes, touched, refused>>
      /\ company' = company /\ open' = open /\ history' = history
  BY DEF CompaniesReturn, IInv, Stage, documents
<1>2. PICK found \in {open, {}} :
        IF found = {} THEN Fails ELSE Onwards(SetToSeq(found), <<>>) /\ UNCHANGED rows
  BY DEF CompaniesReturn
<1>3. TypeOK /\ rows' = rows /\ rows = <<>> /\ open \subseteq Companies
  BY <1>1, <1>2 DEF Fails, IInv, Stage, TypeOK
<1>4. (rows \in Seq(Range(rows)))' /\ RowsRight' /\ \A i : RowsOf(i)' = {}
  BY <1>1, <1>3, RowsKept DEF RowsOf
<1>5. /\ <<>> \in Seq(Companies) /\ <<>> \in Seq(Interns)
      /\ touched' \cup refused' \subseteq Interns \cup Companies
      /\ rows' = <<>> /\ DOMAIN rows' = {}
  BY <1>1, <1>3 DEF TypeOK
<1>6. CASE found = {}
  <2>1. at' = "failed" /\ todo' = <<>> /\ people' = <<>>
    BY <1>2, <1>6 DEF Fails
  <2>2. TypeOK'
    BY <1>1, <1>3, <1>5, <2>1, TypeKept DEF Stages
  <2>3. Stage' /\ Places'
    BY <2>1 DEF Stage, Places, Running
  <2>4. QED
    BY <1>4, <2>2, <2>3 DEF IInv
<1>7. CASE found # {}
  <2>1. found = open /\ IsFiniteSet(open)
    BY <1>2, <1>3, <1>7, FiniteAssumption, FS_Subset
  <2>2. SetToSeq(open) \in Seq(open)
    BY <2>1, Listing
  <2>3. todo' = SetToSeq(open) /\ people' = <<>> /\ at' \in {"interns", "file"}
        /\ (at' = "interns" => todo' # <<>>) /\ (at' = "file" => todo' = <<>>)
    BY <1>2, <1>7, <2>1, OnwardsGoes
  <2>4. todo' \in Seq(Companies)
    BY <1>3, <2>2, <2>3
  <2>5. TypeOK'
    BY <1>1, <1>3, <1>5, <2>3, <2>4, TypeKept DEF Stages
  <2>6. Stage'
    BY <1>1, <2>3 DEF Stage, Running
  <2>7. Places'
    <3> SUFFICES ASSUME NEW i \in Interns PROVE Placed(i)'
      BY DEF Places
    <3>1. Covers(request, i)' <=> company[i] \in open
      BY <1>1 DEF Covers
    <3>2. Absent(people', i) /\ RowsOf(i)' = {}
      BY <1>4, <2>3, Single
    <3>3. CASE company[i] \in open
      <4>1. Once(todo', company'[i])
        BY <1>1, <2>1, <2>3, <3>3, Listing
      <4>2. Waits(i)'
        BY <1>1, <3>2, <4>1 DEF Waits
      <4>3. QED
        BY <3>1, <3>3, <4>2 DEF Placed
    <3>4. CASE company[i] \notin open
      <4>1. Absent(todo', company'[i])
        BY <1>1, <2>1, <2>3, <3>4, Listing
      <4>2. Left(i)'
        BY <3>2, <4>1 DEF Left
      <4>3. QED
        BY <3>1, <3>4, <4>2 DEF Placed
    <3>5. QED
      BY <3>3, <3>4
  <2>8. QED
    BY <1>4, <2>5, <2>6, <2>7 DEF IInv
<1>8. QED
  BY <1>6, <1>7
-----------------------------------------------------------------------------
\* The interns of a company arrive.
LEMMA StepInterns == ASSUME IInv, InternsReturn PROVE IInv'
<1> DEFINE c == Head(todo)
           rest == Tail(todo)
<1>1. /\ at = "interns" /\ request.scope # "intern" /\ people = <<>>
      /\ UNCHANGED <<documents, rows, request, changes, touched>>
      /\ company' = company /\ open' = open /\ history' = history /\ rows' = rows
  BY DEF InternsReturn, IInv, Stage, Running, TypeOK, documents
<1>2. PICK found \in {Of(c), {}} :
        /\ Onwards(rest, SetToSeq(found))
        /\ refused' = IF found = Of(c) THEN refused ELSE refused \cup {c}
  BY DEF InternsReturn
<1>3. TypeOK /\ todo \in Seq(Companies) /\ todo # <<>> /\ request \in Requests
  BY <1>1 DEF IInv, TypeOK
<1>4. /\ c \in Companies /\ rest \in Seq(Companies)
      /\ \A x : Absent(todo, x) => x # c /\ Absent(rest, x)
      /\ \A x : Once(todo, x) => IF x = c THEN Absent(rest, x) ELSE Once(rest, x)
  BY <1>3, TailOf
<1> HIDE DEF c, rest
<1>5. found \subseteq Interns /\ IsFiniteSet(found)
  BY <1>2, FiniteAssumption, FS_Subset DEF Of
<1>6. /\ SetToSeq(found) \in Seq(Interns)
      /\ \A i : IF i \in found THEN Once(SetToSeq(found), i) ELSE Absent(SetToSeq(found), i)
  <2>1. SetToSeq(found) \in Seq(found)
    BY <1>5, Listing
  <2>2. QED
    BY <1>5, <2>1, Listing
<1>7. /\ todo' = rest /\ people' = SetToSeq(found)
      /\ at' \in {"history", "interns", "file"}
      /\ at' = "history" <=> people' # <<>>
      /\ at' = "interns" <=> people' = <<>> /\ rest # <<>>
      /\ at' = "file" <=> people' = <<>> /\ rest = <<>>
  BY <1>2, OnwardsGoes
<1>8. refused \subseteq refused' /\ touched' \cup refused' \subseteq Interns \cup Companies
  BY <1>1, <1>2, <1>3, <1>4 DEF TypeOK
<1>9. (rows \in Seq(Range(rows)))' /\ RowsRight' /\ \A i : RowsOf(i)' = RowsOf(i)
  BY <1>1, <1>8, RowsKept
<1>10. TypeOK'
  <2>1. \A n \in DOMAIN rows' : /\ rows'[n].of \in Interns
                                /\ DOMAIN rows'[n].columns = Width(request)
                                /\ rows'[n].total \in Int /\ rows'[n].planned \in Int
    BY <1>1, <1>3 DEF TypeOK
  <2>2. todo' \in Seq(Companies) /\ people' \in Seq(Interns)
    BY <1>4, <1>6, <1>7
  <2>3. QED
    BY <1>1, <1>3, <1>7, <1>8, <2>1, <2>2, TypeKept DEF Stages
<1>11. Stage'
  BY <1>1, <1>7 DEF Stage, Running
<1>12. Places'
  <2> SUFFICES ASSUME NEW i \in Interns, Untouched(i)' PROVE Placed(i)'
    BY DEF Places
  <2>1. Untouched(i) /\ company[i] \notin refused'
    BY <1>1, <1>8 DEF Untouched
  <2>2. Placed(i) /\ (Covers(request, i)' <=> Covers(request, i))
    BY <1>1, <2>1 DEF IInv, Places, Running, Covers
  <2>3. company[i] = c => i \in found
    BY <1>2, <2>1 DEF Of
  <2>4. company[i] # c => i \notin found
    BY <1>2 DEF Of
  <2>5. ~Once(people, i)
    BY <1>1 DEF Once
  <2>6. CASE ~Covers(request, i)
    <3>1. Absent(todo, company[i]) /\ RowsOf(i) = {}
      BY <2>2, <2>6 DEF Placed, Left
    <3>2. Absent(rest, company[i]) /\ i \notin found
      BY <1>4, <2>4, <3>1
    <3>3. Left(i)'
      BY <1>1, <1>6, <1>7, <1>9, <3>1, <3>2 DEF Left
    <3>4. QED
      BY <2>2, <2>6, <3>3 DEF Placed
  <2>7. CASE Covers(request, i) /\ Waits(i) /\ company[i] = c
    <3>1. Absent(rest, company[i]) /\ Once(SetToSeq(found), i) /\ RowsOf(i) = {}
      BY <1>4, <1>6, <2>3, <2>7 DEF Waits
    <3>2. Present(i)'
      BY <1>1, <1>7, <1>9, <3>1 DEF Present
    <3>3. QED
      BY <2>2, <2>7, <3>2 DEF Placed
  <2>8. CASE Covers(request, i) /\ Waits(i) /\ company[i] # c
    <3>1. Once(rest, company[i]) /\ Absent(SetToSeq(found), i) /\ RowsOf(i) = {}
      BY <1>4, <1>6, <2>4, <2>8 DEF Waits
    <3>2. Waits(i)'
      BY <1>1, <1>7, <1>9, <3>1 DEF Waits
    <3>3. QED
      BY <2>2, <2>8, <3>2 DEF Placed
  <2>9. CASE Covers(request, i) /\ Written(i)
    <3>1. company[i] # c /\ Absent(rest, company[i])
      BY <1>4, <2>9 DEF Written
    <3>2. Absent(SetToSeq(found), i)
      BY <1>6, <2>4, <3>1
    <3>3. Written(i)'
      BY <1>1, <1>7, <1>9, <2>9, <3>1, <3>2 DEF Written
    <3>4. QED
      BY <2>2, <2>9, <3>3 DEF Placed
  <2>10. QED
    BY <2>2, <2>5, <2>6, <2>7, <2>8, <2>9 DEF Placed, Present
<1>13. QED
  BY <1>9, <1>10, <1>11, <1>12 DEF IInv

\* A history arrives, and a row is written.
LEMMA StepHistory == ASSUME IInv, HistoryReturns PROVE IInv'
<1> DEFINE j == Head(people)
           rest == Tail(people)
           m == Len(rows) + 1
<1>1. /\ at = "history" /\ UNCHANGED <<documents, request, changes, touched>>
      /\ company' = company /\ open' = open /\ history' = history
      /\ Onwards(todo, rest)
  BY DEF HistoryReturns, documents
<1>2. PICK dates \in {Found(request, j), {}} :
        /\ rows' = Append(rows, Row(request, j, dates))
        /\ refused' = IF dates = Found(request, j) THEN refused ELSE refused \cup {j}
  BY DEF HistoryReturns
<1>3. TypeOK /\ people \in Seq(Interns) /\ people # <<>> /\ request \in Requests /\ Documents
  BY <1>1 DEF IInv, TypeOK, Documents
<1>4. /\ j \in Interns /\ rest \in Seq(Interns)
      /\ \A x : Absent(people, x) => x # j /\ Absent(rest, x)
      /\ \A x : Once(people, x) => IF x = j THEN Absent(rest, x) ELSE Once(rest, x)
  BY <1>3, TailOf
<1> HIDE DEF j, rest
<1>5. /\ (rows \in Seq(Range(rows)))'
      /\ DOMAIN rows' = DOMAIN rows \cup {m} /\ m \notin DOMAIN rows
      /\ rows'[m] = Row(request, j, dates)
      /\ \A n \in DOMAIN rows : rows'[n] = rows[n]
  BY <1>2, AppendRow DEF IInv
<1> HIDE DEF m
<1>6. /\ todo' = todo /\ people' = rest
      /\ at' \in {"history", "interns", "file"}
      /\ at' = "history" <=> rest # <<>>
      /\ at' = "interns" <=> rest = <<>> /\ todo # <<>>
      /\ at' = "file" <=> rest = <<>> /\ todo = <<>>
  BY <1>1, OnwardsGoes
<1>7. refused \subseteq refused' /\ touched' \cup refused' \subseteq Interns \cup Companies
  BY <1>1, <1>2, <1>3, <1>4 DEF TypeOK
<1>8. /\ rows'[m].of = j /\ DOMAIN rows'[m].columns = Width(request)
      /\ rows'[m].total \in Int /\ rows'[m].planned \in Int
      /\ rows'[m].planned = Planned(request, j)
  <2>1. dates \in SUBSET request.days
    BY <1>2, <1>3, <1>4, FoundDates
  <2>2. Total(j, dates) \in Int /\ Planned(request, j) \in Int
    BY <1>3, <1>4, <2>1, TotalIs, PlannedType
  <2>3. QED
    BY <1>5, <2>2 DEF Row
<1>9. TypeOK'
  <2>1. \A n \in DOMAIN rows' : /\ rows'[n].of \in Interns
                                /\ DOMAIN rows'[n].columns = Width(request)
                                /\ rows'[n].total \in Int /\ rows'[n].planned \in Int
    <3> SUFFICES ASSUME NEW n \in DOMAIN rows'
                 PROVE  /\ rows'[n].of \in Interns
                        /\ DOMAIN rows'[n].columns = Width(request)
                        /\ rows'[n].total \in Int /\ rows'[n].planned \in Int
      OBVIOUS
    <3>1. CASE n = m
      BY <1>4, <1>8, <3>1
    <3>2. CASE n # m
      BY <1>3, <1>5, <3>2 DEF TypeOK
    <3>3. QED
      BY <3>1, <3>2
  <2>2. todo' \in Seq(Companies) /\ people' \in Seq(Interns)
    BY <1>3, <1>4, <1>6 DEF TypeOK
  <2>3. QED
    BY <1>1, <1>3, <1>6, <1>7, <2>1, <2>2, TypeKept DEF Stages
<1>10. Stage'
  <2>1. request.scope = "intern" => todo = <<>>
    BY <1>1 DEF IInv, Stage, Running
  <2>2. QED
    BY <1>1, <1>6, <2>1 DEF Stage, Running
<1>11. RowsRight'
  <2> SUFFICES ASSUME NEW n \in DOMAIN rows' PROVE RowRight(n)'
    BY DEF RowsRight
  <2>1. CASE n = m
    <3>1. j \notin refused' => rows'[m] = RowIn(request, j, history[j], FoundIn(request, history[j]))
      BY <1>2, <1>5, RowIs
    <3>2. QED
      BY <1>1, <1>8, <2>1, <3>1 DEF RowRight
  <2>2. CASE n # m
    <3>1. n \in DOMAIN rows /\ rows'[n] = rows[n] /\ RowRight(n)
      BY <1>5, <2>2 DEF IInv, RowsRight
    <3>2. QED
      BY <1>1, <1>7, <3>1 DEF RowRight
  <2>3. QED
    BY <2>1, <2>2
<1>12. \A i \in Interns : RowsOf(i)' = RowsOf(i) \cup (IF i = j THEN {m} ELSE {})
  BY <1>5, <1>8 DEF RowsOf
<1>13. Places'
  <2> SUFFICES ASSUME NEW i \in Interns, Untouched(i)' PROVE Placed(i)'
    BY DEF Places
  <2>1. Untouched(i)
    BY <1>1, <1>7 DEF Untouched
  <2>2. Placed(i) /\ (Covers(request, i)' <=> Covers(request, i))
    BY <1>1, <2>1 DEF IInv, Places, Running, Covers
  <2>3. CASE ~Covers(request, i)
    <3>1. Left(i)
      BY <2>2, <2>3 DEF Placed
    <3>2. i # j /\ Absent(rest, i)
      BY <1>4, <3>1 DEF Left
    <3>3. Left(i)'
      BY <1>1, <1>6, <1>12, <3>1, <3>2 DEF Left
    <3>4. QED
      BY <2>2, <2>3, <3>3 DEF Placed
  <2>4. CASE Covers(request, i) /\ Waits(i)
    <3>1. i # j /\ Absent(rest, i)
      BY <1>4, <2>4 DEF Waits
    <3>2. Waits(i)'
      BY <1>1, <1>6, <1>12, <2>4, <3>1 DEF Waits
    <3>3. QED
      BY <2>2, <2>4, <3>2 DEF Placed
  <2>5. CASE Covers(request, i) /\ Written(i)
    <3>1. i # j /\ Absent(rest, i)
      BY <1>4, <2>5 DEF Written
    <3>2. Written(i)'
      BY <1>1, <1>5, <1>6, <1>12, <2>5, <3>1 DEF Written
    <3>3. QED
      BY <2>2, <2>5, <3>2 DEF Placed
  <2>6. CASE Covers(request, i) /\ Present(i) /\ i # j
    <3>1. Once(rest, i)
      BY <1>4, <2>6 DEF Present
    <3>2. Present(i)'
      BY <1>1, <1>6, <1>12, <2>6, <3>1 DEF Present
    <3>3. QED
      BY <2>2, <2>6, <3>2 DEF Placed
  <2>7. CASE Covers(request, i) /\ Present(i) /\ i = j
    <3>1. Absent(rest, i) /\ RowsOf(i)' = {m} /\ m \in DOMAIN rows'
      BY <1>4, <1>5, <1>12, <2>7 DEF Present
    <3>2. Written(i)'
      BY <1>1, <1>6, <2>7, <3>1 DEF Written, Present
    <3>3. QED
      BY <2>2, <2>7, <3>2 DEF Placed
  <2>8. QED
    BY <2>2, <2>3, <2>4, <2>5, <2>6, <2>7 DEF Placed
<1>14. QED
  BY <1>5, <1>9, <1>10, <1>11, <1>13 DEF IInv

\* The file is written or not.
LEMMA StepFile == ASSUME IInv, FileReturns PROVE IInv'
<1>1. /\ at = "file" /\ at' \in {"made", "failed"}
      /\ UNCHANGED <<documents, request, changes>>
      /\ todo' = todo /\ people' = people /\ rows' = rows /\ touched' = touched
      /\ refused' = refused /\ company' = company /\ open' = open /\ history' = history
  BY DEF FileReturns, documents
<1>2. TypeOK'
  BY <1>1, TypeKept DEF IInv, TypeOK, Stages
<1>3. Stage'
  BY <1>1 DEF IInv, Stage, Running
<1>4. (rows \in Seq(Range(rows)))' /\ RowsRight' /\ \A i : RowsOf(i)' = RowsOf(i)
  BY <1>1, RowsKept
<1>5. Places'
  <2> SUFFICES ASSUME NEW i \in Interns, Untouched(i)' PROVE Placed(i)'
    BY DEF Places
  <2>1. Untouched(i)
    BY <1>1 DEF Untouched
  <2>2. Placed(i) /\ (Covers(request, i)' <=> Covers(request, i))
    BY <1>1, <2>1 DEF IInv, Places, Running, Covers
  <2>3. /\ Waits(i)' <=> Waits(i)
        /\ Present(i)' <=> Present(i)
        /\ Written(i)' <=> Written(i)
        /\ Left(i)' <=> Left(i)
    BY <1>1, <1>4 DEF Waits, Present, Written, Left
  <2>4. QED
    BY <2>2, <2>3 DEF Placed
<1>6. QED
  BY <1>2, <1>3, <1>4, <1>5 DEF IInv

\* A step of something else.
LEMMA StepNothing == IInv /\ UNCHANGED vars => IInv'
BY StepWorld DEF vars, documents, report, IInv, TypeOK

\* The invariant that everything else about the reports follows from.
THEOREM Inductive == Spec => []IInv
<1>1. IInv /\ [Next]_vars => IInv'
  BY StepClock, StepMove, StepDelete, StepAsk, StepCompanies, StepInterns, StepHistory,
     StepFile, StepNothing DEF Next
<1>2. QED
  BY <1>1, InvInit, PTL DEF Spec

\* The variables of Reports keep their types, for any interns, dates and requests.
THEOREM TypeCorrect == Spec => []TypeOK
<1>1. IInv => TypeOK
  BY DEF IInv
<1>2. QED
  BY <1>1, Inductive, PTL

\* An intern who does not change has one row in a report that was made if he belongs
\* there, none otherwise, whatever is moved and deleted while it is read.
THEOREM EveryoneOnce == Spec => []ListedOnce
<1>1. IInv => ListedOnce
  <2> SUFFICES ASSUME IInv, at = "made", NEW i \in Interns,
                      {i, company[i]} \cap touched = {}, company[i] \notin refused
               PROVE  Cardinality(RowsOf(i)) = IF Covers(request, i) THEN 1 ELSE 0
    BY DEF ListedOnce
  <2>1. Placed(i) /\ todo = <<>> /\ people = <<>>
    BY DEF IInv, Places, Running, Untouched, Stage
  <2>2. ~Once(todo, company[i]) /\ ~Once(people, i)
    BY <2>1 DEF Once
  <2>3. CASE Covers(request, i)
    <3>1. \E n : RowsOf(i) = {n}
      BY <2>1, <2>2, <2>3 DEF Placed, Waits, Present, Written
    <3>2. QED
      BY <2>3, <3>1, FS_Singleton
  <2>4. CASE ~Covers(request, i)
    <3>1. RowsOf(i) = {}
      BY <2>1, <2>4 DEF Placed, Left
    <3>2. QED
      BY <2>4, <3>1, FS_EmptySet
  <2>5. QED
    BY <2>3, <2>4
<1>2. QED
  BY <1>1, Inductive, PTL

\* What IInv says of a current row, in terms of Row.
LEMMA CurrentRow ==
  ASSUME IInv, NEW n \in Current
  PROVE  LET i == rows[n].of
         IN  /\ i \in Interns /\ Documents
             /\ rows[n] = Row(request, i, Found(request, i))
<1>1. n \in DOMAIN rows /\ rows[n].of \in Interns /\ Documents
  BY DEF IInv, Current, TypeOK, Documents
<1>2. RowRight(n) /\ rows[n].of \notin touched \cup refused
  BY <1>1 DEF IInv, RowsRight, Current
<1>3. QED
  BY <1>1, <1>2, RowIs DEF RowRight

\* The total of a current row is that of the days of the period, none left out, none
\* of another week; the 25th hour of a Sunday excepted.
THEOREM TotalsMeant == Spec => []TotalOfPeriod
<1>1. IInv => TotalOfPeriod
  <2> SUFFICES ASSUME IInv, Now(request) < 24 * 7, NEW n \in Current PROVE TotalRight(n)
    BY DEF TotalOfPeriod
  <2> DEFINE i == rows[n].of
  <2>1. i \in Interns /\ Documents /\ rows[n] = Row(request, i, Found(request, i))
    BY CurrentRow
  <2> HIDE DEF i
  <2>2. rows[n].total = Total(i, Found(request, i))
    BY <2>1 DEF Row
  <2>3. QED
    BY <2>1, <2>2, TotalMeant DEF TotalRight, i
<1>2. QED
  BY <1>1, Inductive, PTL

\* The columns of a month or a year add up to the total, the 28th excepted.
THEOREM ColumnsMatch == Spec => []ColumnsAddUp
<1>1. IInv => ColumnsAddUp
  <2> SUFFICES ASSUME IInv, NEW n \in Current, request.period # "week",
                      ~(request.period = "month" /\ history[rows[n].of][28] # <<>>)
               PROVE  rows[n].total = SumFunction(rows[n].columns)
    BY DEF ColumnsAddUp
  <2> DEFINE i == rows[n].of
  <2>1. i \in Interns /\ Documents /\ rows[n] = Row(request, i, Found(request, i))
    BY CurrentRow
  <2>2. request.period = "month" => history[i][28] = <<>>
    OBVIOUS
  <2> HIDE DEF i
  <2>3. /\ rows[n].total = Total(i, Found(request, i))
        /\ rows[n].columns = [k \in Width(request) |-> Column(request, i, Found(request, i), k)]
    BY <2>1 DEF Row
  <2>4. QED
    BY <2>1, <2>2, <2>3, ColumnsMeant
<1>2. QED
  BY <1>1, Inductive, PTL

\* The hours planned are those of the school days in the period, in every year but a
\* leap year that begins on a Sunday.
THEOREM PlansMeant == Spec => []PlannedByCalendar
<1>1. IInv => PlannedByCalendar
  <2> SUFFICES ASSUME IInv, ~LeapSunday(request), NEW n \in DOMAIN rows PROVE PlannedRight(n)
    BY DEF PlannedByCalendar
  <2>1. rows[n].of \in Interns /\ request \in Requests /\ rows[n].planned = Planned(request, rows[n].of)
    BY DEF IInv, TypeOK, RowsRight, RowRight
  <2>2. QED
    BY <2>1, PlannedMeant DEF PlannedRight
<1>2. QED
  BY <1>1, Inductive, PTL
-----------------------------------------------------------------------------
\* Schedule.

\* A closed form has no rows.
ScheduleIInv ==
  /\ ScheduleTypeOK
  /\ ShownIsSaved
  /\ mode = "closed" => models = <<>>

\* What the form shows once it is built from its list.
LEMMA RebuiltKeeps ==
  ASSUME NEW r \in Seq(Model), Rebuilt(r)
  PROVE  /\ models' = r /\ models' \in Seq(Model) /\ label' \in Seq(Fields)
         /\ Len(label') = Len(models') /\ ShownIsSaved'
<1> DEFINE shown(i) == [in |-> LabelOf(r[i].in), out |-> LabelOf(r[i].out)]
<1>1. models' = r /\ label' = [i \in DOMAIN r |-> shown(i)]
  BY DEF Rebuilt
<1>2. /\ Len(r) \in Nat /\ DOMAIN r = 1 .. Len(r)
      /\ \A i \in DOMAIN r : r[i] \in Model
  OBVIOUS
<1>3. \A i \in DOMAIN r : /\ shown(i) \in Fields
                          /\ shown(i).in = LabelOf(r[i].in)
                          /\ shown(i).out = LabelOf(r[i].out)
  BY <1>2 DEF Model, Fields, LabelOf, Moments
<1> HIDE DEF shown
<1>4. label' \in Seq(Fields) /\ Len(label') = Len(r)
  BY <1>1, <1>2, <1>3
<1>5. ShownIsSaved'
  BY <1>1, <1>3 DEF ShownIsSaved
<1>6. QED
  BY <1>1, <1>4, <1>5

\* One field of a row of the list.
LEMMA FieldSet ==
  ASSUME ScheduleTypeOK, NEW i \in DOMAIN models, NEW s \in Sides, NEW m \in Moments \cup {NoTime}
  PROVE  LET r == [models EXCEPT ![i][s] = m]
         IN  /\ r \in Seq(Model) /\ Len(r) = Len(models) /\ DOMAIN r = DOMAIN models
             /\ r[i][s] = m
             /\ \A q \in Sides \ {s} : r[i][q] = models[i][q]
             /\ \A j \in DOMAIN models \ {i} : r[j] = models[j]
<1> DEFINE row == [models[i] EXCEPT ![s] = m]
<1>1. /\ Len(models) \in Nat /\ DOMAIN models = 1 .. Len(models)
      /\ models \in Seq(Model) /\ models[i] \in Model
  BY DEF ScheduleTypeOK
<1>2. row \in Model /\ row[s] = m /\ \A q \in Sides \ {s} : row[q] = models[i][q]
  BY <1>1 DEF Model, Sides
<1> HIDE DEF row
<1> DEFINE r == [models EXCEPT ![i] = row]
<1>3. /\ r \in Seq(Model) /\ Len(r) = Len(models) /\ DOMAIN r = DOMAIN models
      /\ r[i] = row /\ \A j \in DOMAIN models \ {i} : r[j] = models[j]
  BY <1>1, <1>2
<1>4. [models EXCEPT ![i][s] = m] = r
  BY DEF row
<1> HIDE DEF r
<1>5. QED
  BY <1>2, <1>3, <1>4

\* One label of a row.
LEMMA LabelSet ==
  ASSUME ScheduleTypeOK, NEW i \in DOMAIN models, NEW s \in Sides
  PROVE  LET l == [label EXCEPT ![i][s] = NoTime]
         IN  /\ l \in Seq(Fields) /\ Len(l) = Len(models) /\ DOMAIN l = DOMAIN models
             /\ l[i][s] = NoTime
             /\ \A q \in Sides \ {s} : l[i][q] = label[i][q]
             /\ \A j \in DOMAIN models \ {i} : l[j] = label[j]
<1> DEFINE row == [label[i] EXCEPT ![s] = NoTime]
<1>1. /\ Len(models) \in Nat /\ DOMAIN models = 1 .. Len(models)
      /\ label \in Seq(Fields) /\ DOMAIN label = DOMAIN models /\ Len(label) = Len(models)
      /\ label[i] \in Fields
  BY DEF ScheduleTypeOK
<1>2. row \in Fields /\ row[s] = NoTime /\ \A q \in Sides \ {s} : row[q] = label[i][q]
  BY <1>1 DEF Fields, Sides
<1> HIDE DEF row
<1> DEFINE l == [label EXCEPT ![i] = row]
<1>3. /\ l \in Seq(Fields) /\ Len(l) = Len(models) /\ DOMAIN l = DOMAIN models
      /\ l[i] = row /\ \A j \in DOMAIN models \ {i} : l[j] = label[j]
  BY <1>1, <1>2
<1>4. [label EXCEPT ![i][s] = NoTime] = l
  BY DEF row
<1> HIDE DEF l
<1>5. QED
  BY <1>2, <1>3, <1>4

\* A row that is removed.
LEMMA Removed ==
  ASSUME NEW r \in Seq(Model), NEW i \in DOMAIN r
  PROVE  RemoveAt(r, i) \in Seq(Model) /\ Len(RemoveAt(r, i)) = Len(r) - 1
<1>1. Len(r) \in Nat /\ i \in 1 .. Len(r)
  OBVIOUS
<1>2. /\ SubSeq(r, 1, i - 1) \in Seq(Model) /\ Len(SubSeq(r, 1, i - 1)) = i - 1
      /\ SubSeq(r, i + 1, Len(r)) \in Seq(Model)
      /\ Len(SubSeq(r, i + 1, Len(r))) = Len(r) - i
  BY <1>1, SubSeqProperties
<1> DEFINE a == SubSeq(r, 1, i - 1)
           b == SubSeq(r, i + 1, Len(r))
<1>3. a \in Seq(Model) /\ Len(a) = i - 1 /\ b \in Seq(Model) /\ Len(b) = Len(r) - i
  BY <1>2
<1> HIDE DEF a, b
<1>4. a \o b \in Seq(Model) /\ Len(a \o b) = Len(a) + Len(b)
  BY <1>3, ConcatProperties
<1>5. RemoveAt(r, i) = a \o b
  BY DEF RemoveAt, a, b
<1>6. QED
  BY <1>1, <1>3, <1>4, <1>5

\* The invariant holds at first.
LEMMA ScheduleInitially == ScheduleInit => ScheduleIInv
BY DEF ScheduleInit, ScheduleIInv, ScheduleTypeOK, ShownIsSaved
-----------------------------------------------------------------------------
\* A picked time, wherever it goes.
LEMMA Selected ==
  ASSUME ScheduleIInv, NEW i \in DOMAIN models, NEW s \in Sides, NEW t \in Times, Select(i, s, t)
  PROVE  /\ models' \in Seq(Model) /\ label' \in Seq(Fields)
         /\ Len(label') = Len(models') /\ ShownIsSaved'
         /\ DOMAIN models' = DOMAIN models
         /\ models'[i][s] \in {NoTime, At(t)}
         /\ \A j \in DOMAIN models : \A q \in Sides :
              <<j, q>> # <<i, s>> => models'[j][q] = models[j][q]
<1> DEFINE m == IF Earlier(t) THEN NoTime ELSE At(t)
<1>1. m \in {NoTime, At(t)} /\ m \in Moments \cup {NoTime}
  BY DEF ScheduleIInv, ScheduleTypeOK, At, Moments
<1>2. Rebuilt([models EXCEPT ![i][s] = m])
  BY DEF Select
<1> HIDE DEF m
<1> DEFINE r == [models EXCEPT ![i][s] = m]
<1>3. /\ r \in Seq(Model) /\ DOMAIN r = DOMAIN models /\ r[i][s] = m
      /\ \A q \in Sides \ {s} : r[i][q] = models[i][q]
      /\ \A j \in DOMAIN models \ {i} : r[j] = models[j]
  BY <1>1, FieldSet DEF ScheduleIInv
<1>4. Rebuilt(r)
  BY <1>2
<1> HIDE DEF r
<1>5. models' = r /\ label' \in Seq(Fields) /\ Len(label') = Len(models') /\ ShownIsSaved'
  BY <1>3, <1>4, RebuiltKeeps
<1>6. QED
  BY <1>1, <1>3, <1>5

\* A picker.
LEMMA PickInStep ==
  ASSUME ScheduleIInv, NEW i \in DOMAIN models, NEW t \in Times, PickIn(i, t) PROVE ScheduleIInv'
<1>1. Select(i, "in", t) /\ Editing /\ UNCHANGED <<doc, object, mode, now>>
  BY DEF PickIn
<1>2. /\ models' \in Seq(Model) /\ label' \in Seq(Fields)
      /\ Len(label') = Len(models') /\ ShownIsSaved'
  BY <1>1, Selected DEF Sides
<1>3. QED
  BY <1>1, <1>2 DEF ScheduleIInv, ScheduleTypeOK, Editing

\* A long press, or a clock-out that is refused.
LEMMA Blanked ==
  ASSUME ScheduleIInv, NEW i \in DOMAIN models, NEW s \in Sides,
         label' = [label EXCEPT ![i][s] = NoTime],
         \/ models' = [models EXCEPT ![i][s] = NoTime]
         \/ s = "out" /\ models' = models
  PROVE  /\ models' \in Seq(Model) /\ label' \in Seq(Fields)
         /\ Len(label') = Len(models') /\ ShownIsSaved'
<1> DEFINE l == [label EXCEPT ![i][s] = NoTime]
           r == [models EXCEPT ![i][s] = NoTime]
<1>1. /\ l \in Seq(Fields) /\ Len(l) = Len(models) /\ DOMAIN l = DOMAIN models
      /\ l[i][s] = NoTime
      /\ \A q \in Sides \ {s} : l[i][q] = label[i][q]
      /\ \A j \in DOMAIN models \ {i} : l[j] = label[j]
  BY LabelSet DEF ScheduleIInv
<1>2. /\ r \in Seq(Model) /\ Len(r) = Len(models) /\ DOMAIN r = DOMAIN models
      /\ r[i][s] = NoTime
      /\ \A q \in Sides \ {s} : r[i][q] = models[i][q]
      /\ \A j \in DOMAIN models \ {i} : r[j] = models[j]
  BY FieldSet DEF ScheduleIInv
<1>3. label' = l /\ (models' = r \/ (s = "out" /\ models' = models)) /\ LabelOf(NoTime) = NoTime
  BY DEF LabelOf
<1> HIDE DEF l, r
<1>4. ShownIsSaved /\ models \in Seq(Model)
  BY DEF ScheduleIInv, ScheduleTypeOK
<1>5. ShownIsSaved'
  <2> SUFFICES ASSUME NEW j \in DOMAIN models
               PROVE  /\ l[j].in = LabelOf(models'[j].in)
                      /\ l[j].out \in {NoTime, LabelOf(models'[j].out)}
    BY <1>2, <1>3 DEF ShownIsSaved
  <2>1. CASE j # i
    BY <1>1, <1>2, <1>3, <1>4, <2>1 DEF ShownIsSaved
  <2>2. CASE j = i /\ s = "out"
    BY <1>1, <1>2, <1>3, <1>4, <2>2 DEF ShownIsSaved, Sides
  <2>3. CASE j = i /\ s = "in"
    BY <1>1, <1>2, <1>3, <1>4, <2>3 DEF ShownIsSaved, Sides
  <2>4. QED
    BY <2>1, <2>2, <2>3 DEF Sides
<1>6. QED
  BY <1>1, <1>2, <1>3, <1>4, <1>5

\* A clock-out that is picked, accepted or refused, is shown as it is kept.
LEMMA PickOutStep ==
  ASSUME ScheduleIInv, NEW i \in DOMAIN models, NEW t \in Times, PickOut(i, t) PROVE ScheduleIInv'
<1>1. Editing /\ UNCHANGED <<doc, object, mode, now>>
  BY DEF PickOut
<1>2. /\ models' \in Seq(Model) /\ label' \in Seq(Fields)
      /\ Len(label') = Len(models') /\ ShownIsSaved'
  <2>1. CASE Select(i, "out", t)
    BY <2>1, Selected DEF Sides
  <2>2. CASE label' = [label EXCEPT ![i].out = NoTime] /\ UNCHANGED models
    BY <2>2, Blanked DEF Sides
  <2>3. QED
    BY <2>1, <2>2 DEF PickOut
<1>3. QED
  BY <1>1, <1>2 DEF ScheduleIInv, ScheduleTypeOK, Editing

\* A long press empties a field in the list and on the screen.
LEMMA ClearStep ==
  ASSUME ScheduleIInv, NEW i \in DOMAIN models, NEW s \in Sides, Clear(i, s) PROVE ScheduleIInv'
<1>1. /\ models' \in Seq(Model) /\ label' \in Seq(Fields)
      /\ Len(label') = Len(models') /\ ShownIsSaved'
  BY Blanked DEF Clear
<1>2. QED
  BY <1>1 DEF Clear, Editing, ScheduleIInv, ScheduleTypeOK

\* The steps that build the form, or leave it as it is.
LEMMA FormSteps ==
  ASSUME ScheduleIInv,
         \/ OpenNew \/ OpenEdit \/ Reload \/ AddRow
         \/ Save \/ SaveReturns \/ SaveFails \/ Leave
         \/ \E i \in DOMAIN models : RemoveRow(i)
         \/ UNCHANGED scheduleVars
  PROVE  ScheduleIInv'
<1>1. ScheduleTypeOK /\ ShownIsSaved
  BY DEF ScheduleIInv
<1>2. ASSUME NEW r \in Seq(Model), Rebuilt(r), doc' \in Seq(Model), object' \in Seq(Model),
             mode' \in {"closed", "new", "edit", "creating", "updating"},
             mode' = "closed" => r = <<>>, now' \in Dates
      PROVE  ScheduleIInv'
  BY <1>2, RebuiltKeeps DEF ScheduleIInv, ScheduleTypeOK
<1>3. CASE OpenNew
  <2>1. Empty \in Model /\ <<Empty>> \in Seq(Model)
    BY DEF Empty, Model
  <2>2. QED
    BY <1>1, <1>2, <1>3, <2>1 DEF OpenNew, ScheduleTypeOK, Today
<1>4. CASE OpenEdit
  BY <1>1, <1>2, <1>4 DEF OpenEdit, ScheduleTypeOK, Today
<1>5. CASE AddRow
  <2>1. Append(models, Empty) \in Seq(Model)
    BY <1>1 DEF ScheduleTypeOK, Empty, Model
  <2>2. QED
    BY <1>1, <1>2, <1>5, <2>1 DEF AddRow, ScheduleTypeOK, Editing
<1>6. ASSUME NEW i \in DOMAIN models, RemoveRow(i) PROVE ScheduleIInv'
  BY <1>1, <1>2, <1>6, Removed DEF RemoveRow, ScheduleTypeOK, Editing
<1>7. CASE Save
  BY <1>1, <1>2, <1>7 DEF Save, ScheduleTypeOK
<1>8. CASE SaveReturns \/ Leave
  <2>1. /\ Rebuilt(<<>>) /\ mode' = "closed" /\ UNCHANGED <<object, now>>
        /\ doc' \in {doc, models} /\ <<>> \in Seq(Model)
    BY <1>8 DEF SaveReturns, Leave
  <2>2. QED
    BY <1>1, <1>2, <2>1 DEF ScheduleTypeOK
<1>9. CASE Reload \/ UNCHANGED scheduleVars
  BY <1>1, <1>9 DEF Reload, scheduleVars, ScheduleIInv, ScheduleTypeOK, ShownIsSaved
<1>10. CASE SaveFails
  BY <1>1, <1>10 DEF SaveFails, Saving, ScheduleIInv, ScheduleTypeOK, ShownIsSaved
<1>11. QED
  BY <1>3, <1>4, <1>5, <1>6, <1>7, <1>8, <1>9, <1>10
-----------------------------------------------------------------------------
\* IInv holds in every behaviour, of forms of any length.
THEOREM ScheduleInductive == ScheduleSpec => []ScheduleIInv
<1>1. ScheduleIInv /\ [ScheduleNext]_scheduleVars => ScheduleIInv'
  <2> SUFFICES ASSUME ScheduleIInv, [ScheduleNext]_scheduleVars PROVE ScheduleIInv'
    OBVIOUS
  <2>1. ASSUME NEW i \in DOMAIN models, NEW t \in Times, PickIn(i, t) \/ PickOut(i, t)
        PROVE  ScheduleIInv'
    BY <2>1, PickInStep, PickOutStep
  <2>2. ASSUME NEW i \in DOMAIN models, NEW s \in Sides, Clear(i, s) PROVE ScheduleIInv'
    BY <2>2, ClearStep
  <2>3. QED
    BY <2>1, <2>2, FormSteps DEF ScheduleNext
<1>2. QED
  BY <1>1, ScheduleInitially, PTL DEF ScheduleSpec

\* The documents, the rows and their labels have the shapes of TypeOK.
THEOREM ScheduleTypeCorrect == ScheduleSpec => []ScheduleTypeOK
<1>1. ScheduleIInv => ScheduleTypeOK
  BY DEF ScheduleIInv
<1>2. QED
  BY <1>1, ScheduleInductive, PTL

\* A field shows what will be saved, or is blank over a clock-out.
THEOREM LabelsMatch == ScheduleSpec => []ShownIsSaved
<1>1. ScheduleIInv => ShownIsSaved
  BY DEF ScheduleIInv
<1>2. QED
  BY <1>1, ScheduleInductive, PTL

\* A clock-out that gets into the list is after the clock-in of its row.
THEOREM OutIsChecked == ScheduleSpec => AcceptedOutIsLater
<1> DEFINE Fine(i) ==
      /\ i \in DOMAIN models' /\ Len(models') = Len(models)
      /\ models'[i].out \notin {NoTime, models[i].out}
      => models[i].in # NoTime /\ models[i].in.time < models'[i].out.time
<1>1. ScheduleIInv /\ [ScheduleNext]_scheduleVars => \A i \in DOMAIN models : Fine(i)
  <2> SUFFICES ASSUME ScheduleIInv, [ScheduleNext]_scheduleVars, NEW i \in DOMAIN models PROVE Fine(i)
    OBVIOUS
  <2>1. models \in Seq(Model) /\ Len(models) \in Nat /\ DOMAIN models = 1 .. Len(models)
    BY DEF ScheduleIInv, ScheduleTypeOK
  <2>2. ASSUME NEW j \in DOMAIN models, NEW t \in Times, PickIn(j, t) PROVE Fine(i)
    <3>1. \A k \in DOMAIN models : models'[k].out = models[k].out
      <4>1. \A k \in DOMAIN models : \A q \in Sides :
              <<k, q>> # <<j, "in">> => models'[k][q] = models[k][q]
        BY <2>2, Selected DEF PickIn, Sides
      <4>2. QED
        BY <4>1 DEF Sides
    <3>2. QED
      BY <3>1
  <2>3. ASSUME NEW j \in DOMAIN models, NEW t \in Times, PickOut(j, t) PROVE Fine(i)
    <3>1. CASE UNCHANGED models
      BY <3>1
    <3>2. CASE Select(j, "out", t) /\ models[j].in # NoTime /\ ~(t <= models[j].in.time)
      <4>1. /\ models'[j].out \in {NoTime, At(t)}
            /\ \A k \in DOMAIN models : \A q \in Sides :
                 <<k, q>> # <<j, "out">> => models'[k][q] = models[k][q]
        BY <3>2, Selected DEF Sides
      <4>2. i # j => models'[i].out = models[i].out
        BY <4>1 DEF Sides
      <4>3. At(t).time = t
        BY DEF At
      <4>4. models[j].in.time \in Nat /\ t \in Nat
        <5>1. models[j].in \in Moments
          <6>1. models[j] \in Model
            BY <2>1
          <6>2. QED
            BY <3>2, <6>1 DEF Model
        <5>2. QED
          BY <5>1, TimesAssumption DEF Moments
      <4>5. QED
        BY <3>2, <4>1, <4>2, <4>3, <4>4
    <3>3. QED
      BY <2>3, <3>1, <3>2 DEF PickOut
  <2>4. ASSUME NEW j \in DOMAIN models, NEW s \in Sides, Clear(j, s) PROVE Fine(i)
    <3> DEFINE r == [models EXCEPT ![j][s] = NoTime]
    <3>1. /\ r \in Seq(Model) /\ Len(r) = Len(models) /\ DOMAIN r = DOMAIN models
          /\ r[j][s] = NoTime
          /\ \A q \in Sides \ {s} : r[j][q] = models[j][q]
          /\ \A k \in DOMAIN models \ {j} : r[k] = models[k]
      <4>1. ScheduleTypeOK /\ NoTime \in Moments \cup {NoTime}
        BY DEF ScheduleIInv
      <4> HIDE DEF Fine
      <4>2. QED
        BY ONLY <4>1, FieldSet, j \in DOMAIN models, s \in Sides
    <3>2. models' = r
      BY <2>4 DEF Clear
    <3> HIDE DEF r
    <3>3. QED
      BY <3>1, <3>2 DEF Sides
  <2>5. CASE OpenNew \/ OpenEdit
    <3>1. models = <<>>
      BY <2>5 DEF OpenNew, OpenEdit, ScheduleIInv
    <3>2. QED
      BY <3>1
  <2>6. CASE AddRow
    <3>1. Len(models') = Len(models) + 1
      BY <2>1, <2>6 DEF AddRow, Rebuilt
    <3>2. QED
      BY <2>1, <3>1
  <2>7. ASSUME NEW j \in DOMAIN models, RemoveRow(j) PROVE Fine(i)
    <3>1. Len(models') = Len(models) - 1
      BY <2>1, <2>7, Removed DEF RemoveRow, Rebuilt
    <3>2. QED
      BY <2>1, <3>1
  <2>8. CASE SaveReturns \/ Leave
    BY <2>8 DEF SaveReturns, Leave, Rebuilt
  <2>9. CASE Reload \/ Save \/ SaveFails \/ UNCHANGED scheduleVars
    BY <2>9 DEF Reload, Save, SaveFails, Rebuilt, scheduleVars
  <2>10. QED
    BY <2>2, <2>3, <2>4, <2>5, <2>6, <2>7, <2>8, <2>9 DEF ScheduleNext
<1>2. QED
  BY <1>1, ScheduleInductive, PTL DEF ScheduleSpec, AcceptedOutIsLater
=============================================================================
