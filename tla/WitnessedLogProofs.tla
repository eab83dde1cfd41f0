------------------------- MODULE WitnessedLogProofs -------------------------
(***************************************************************************)
(* Proofs about WitnessedLog: for any list of witnesses with the quorum    *)
(* property, any logs and any operator, clients see one history.           *)
(***************************************************************************)
EXTENDS WitnessedLog, FiniteSetTheorems, SequenceTheorems, WellFoundedInduction, TLAPS

(* A set of naturals with an element has a least one.                      *)
LEMMA SmallestNat ==
  ASSUME NEW T \in SUBSET Nat, T # {}
  PROVE  \E n \in T : \A m \in T : n <= m
  <1> DEFINE R == OpToRel(<, Nat)
  <1>1. IsWellFoundedOn(R, Nat)
    BY NatLessThanWellFounded
  <1>2. \A a, b \in Nat : a < b => <<a, b>> \in R
    BY DEF OpToRel
  <1> HIDE DEF R
  <1>3. PICK n \in T : \A m \in T : ~(<<m, n>> \in R)
    BY <1>1, WFMin
  <1>4. \A m \in T : ~(m < n)
    BY <1>2, <1>3
  <1>5. \A m \in T : n <= m
    BY <1>4
  <1> QED  BY <1>5

(* A bounded one has a greatest one.                                       *)
LEMMA GreatestNat ==
  ASSUME NEW T \in SUBSET Nat, T # {}, NEW bound \in Nat, \A n \in T : n <= bound
  PROVE  \E n \in T : \A m \in T : m <= n
  <1> DEFINE U == {b \in Nat : \A n \in T : n <= b}
  <1>1. U \in SUBSET Nat /\ U # {}
    OBVIOUS
  <1>2. PICK b \in U : \A c \in U : b <= c
    BY <1>1, SmallestNat
  <1>3. b \in Nat /\ \A n \in T : n <= b
    BY <1>2
  <1>4. CASE b \in T
    BY <1>3, <1>4
  <1>5. CASE b \notin T
    <2>1. \A n \in T : n < b
      BY <1>3, <1>5
    <2>2. b # 0
      <3>1. PICK n \in T : TRUE
        OBVIOUS
      <3>2. n \in Nat /\ n < b
        BY <2>1, <3>1
      <3> QED  BY <1>3, <3>2
    <2>3. b - 1 \in Nat /\ \A n \in T : n <= b - 1
      BY <1>3, <2>1, <2>2
    <2>4. b - 1 \in U
      BY <2>3
    <2> QED  BY <1>2, <1>3, <2>4
  <1> QED  BY <1>4, <1>5

(* A finite one is bounded.                                                *)
LEMMA FiniteIsBounded ==
  ASSUME NEW T \in SUBSET Nat, IsFiniteSet(T)
  PROVE  \E b \in Nat : \A n \in T : n <= b
  <1> DEFINE Free(S) == S \in SUBSET Nat /\ IsFiniteSet(S) /\ ~\E b \in Nat : \A n \in S : n <= b
             Bad == {c \in Nat : \E S : Free(S) /\ Cardinality(S) = c}
  <1> SUFFICES ASSUME Free(T) PROVE FALSE
    OBVIOUS
  <1>1. Cardinality(T) \in Bad
    BY FS_CardinalityType
  <1>2. PICK c \in Bad : \A d \in Bad : c <= d
    BY <1>1, SmallestNat
  <1>3. PICK S : Free(S) /\ Cardinality(S) = c
    BY <1>2
  <1>4. S # {}
    BY <1>3
  <1>5. PICK x \in S : TRUE
    BY <1>4
  <1>6. /\ IsFiniteSet(S \ {x}) /\ Cardinality(S \ {x}) = c - 1 /\ c \in Nat
    BY <1>3, <1>5, FS_RemoveElement
  <1>7. c # 0
    BY <1>3, <1>4, FS_EmptySet
  <1>8. c - 1 \notin Bad
    BY <1>2, <1>6, <1>7
  <1>9. ~Free(S \ {x})
    <2>1. c - 1 \in Nat
      BY <1>6, <1>7
    <2> HIDE DEF Free
    <2> QED  BY <1>6, <1>8, <2>1
  <1>10. PICK b \in Nat : \A n \in S \ {x} : n <= b
    BY <1>3, <1>6, <1>9
  <1>11. x \in Nat
    BY <1>3, <1>5
  <1>12. CASE x <= b
    BY <1>3, <1>10, <1>12
  <1>13. CASE b <= x
    <2>1. \A n \in S : n <= x
      BY <1>3, <1>10, <1>11, <1>13
    <2> QED  BY <1>3, <1>11, <2>1
  <1> QED  BY <1>10, <1>11, <1>12, <1>13

-----------------------------------------------------------------------------
(* Recursion over the naturals.  A function that is given at n by what it  *)
(* is below n exists.                                                      *)
Before(g, n) == [m \in 0..(n - 1) |-> g[m]]

Given(V, G, g, n) == g \in [0..n -> V] /\ \A m \in 0..n : g[m] = G[m][Before(g, m)]

WellGiven(V, G) == \A n \in Nat : G[n] \in [[0..(n - 1) -> V] -> V]

IsGiven(V, G, f) == f \in [Nat -> V] /\ \A n \in Nat : f[n] = G[n][Before(f, n)]

(* Two such functions agree where both are defined.                        *)
LEMMA GivenAgree ==
  ASSUME NEW V, NEW G, NEW g, NEW h, NEW a \in Nat, NEW b \in Nat,
         Given(V, G, g, a), Given(V, G, h, b), NEW n \in Nat, n <= a, n <= b
  PROVE  g[n] = h[n]
  <1> DEFINE Bad == {m \in Nat : m <= a /\ m <= b /\ g[m] # h[m]}
  <1> SUFFICES ASSUME n \in Bad PROVE FALSE
    OBVIOUS
  <1>1. PICK m \in Bad : \A k \in Bad : m <= k
    BY SmallestNat
  <1>2. m \in Nat /\ m \in 0..a /\ m \in 0..b /\ g[m] # h[m]
    BY <1>1
  <1>3. \A k \in 0..(m - 1) : g[k] = h[k]
    BY <1>1, <1>2
  <1>4. Before(g, m) = Before(h, m)
    BY <1>3 DEF Before
  <1> QED  BY <1>2, <1>4 DEF Given

LEMMA GivenExists ==
  ASSUME NEW V, NEW G, \A n \in Nat : G[n] \in [[0..(n - 1) -> V] -> V], NEW n \in Nat
  PROVE  \E g : Given(V, G, g, n)
  <1> DEFINE Bad == {m \in Nat : ~\E g : Given(V, G, g, m)}
  <1> SUFFICES ASSUME n \in Bad PROVE FALSE
    OBVIOUS
  <1>1. PICK m \in Bad : \A k \in Bad : m <= k
    BY SmallestNat
  <1>2. \E g \in [0..(m - 1) -> V] : \A k \in 0..(m - 1) : g[k] = G[k][Before(g, k)]
    <2>1. CASE m = 0
      <3> DEFINE g == [k \in 0..(m - 1) |-> CHOOSE v \in V : TRUE]
      <3>1. 0..(m - 1) = {}
        BY <2>1
      <3>2. g \in [0..(m - 1) -> V]
        BY <3>1
      <3> HIDE DEF g
      <3> QED  BY <3>1, <3>2
    <2>2. CASE m # 0
      <3>1. m - 1 \in Nat /\ m - 1 \notin Bad
        BY <1>1, <2>2
      <3> QED  BY <3>1 DEF Given
    <2> QED  BY <2>1, <2>2
  <1>3. PICK g \in [0..(m - 1) -> V] : \A k \in 0..(m - 1) : g[k] = G[k][Before(g, k)]
    BY <1>2
  <1> DEFINE v == G[m][g]
             h == [k \in 0..m |-> IF k = m THEN v ELSE g[k]]
  <1>4. m \in Nat
    BY <1>1
  <1>5. v \in V
    BY <1>3, <1>4
  <1> HIDE DEF v
  <1>6. h \in [0..m -> V] /\ h[m] = v /\ \A k \in 0..(m - 1) : h[k] = g[k]
    BY <1>3, <1>4, <1>5
  <1> HIDE DEF h
  <1>7. Before(h, m) = g
    BY <1>3, <1>6 DEF Before
  <1>8. ASSUME NEW k \in 0..(m - 1) PROVE Before(h, k) = Before(g, k) /\ k \in 0..(m - 1)
    <2>1. \A j \in 0..(k - 1) : h[j] = g[j]
      BY <1>4, <1>6, <1>8
    <2> QED  BY <2>1 DEF Before
  <1>9. \A k \in 0..m : h[k] = G[k][Before(h, k)]
    <2>1. h[m] = G[m][Before(h, m)]
      BY <1>6, <1>7 DEF v
    <2>2. \A k \in 0..(m - 1) : h[k] = G[k][Before(h, k)]
      BY <1>3, <1>6, <1>8
    <2>3. \A k \in 0..m : k = m \/ k \in 0..(m - 1)
      BY <1>4
    <2> QED  BY <2>1, <2>2, <2>3
  <1>10. Given(V, G, h, m)
    BY <1>6, <1>9 DEF Given
  <1> QED  BY <1>1, <1>10

LEMMA GivenByBefore ==
  ASSUME NEW V, NEW G, WellGiven(V, G)
  PROVE  \E f : IsGiven(V, G, f)
  <1> DEFINE up[n \in Nat] == CHOOSE g : Given(V, G, g, n)
             f == [n \in Nat |-> up[n][n]]
  <1>1. \A n \in Nat : Given(V, G, up[n], n)
    BY GivenExists DEF WellGiven
  <1> HIDE DEF up
  <1>2. ASSUME NEW n \in Nat PROVE f[n] \in V /\ f[n] = G[n][Before(f, n)]
    <2>1. n \in 0..n /\ \A m \in 0..(n - 1) : m \in Nat /\ m <= n /\ m <= m
      OBVIOUS
    <2>2. f[n] = up[n][n] /\ \A m \in 0..(n - 1) : f[m] = up[m][m]
      BY <2>1
    <2> HIDE DEF f
    <2>3. \A m \in 0..(n - 1) : up[m][m] = up[n][m]
      BY <1>1, <2>1, GivenAgree
    <2>4. Before(f, n) = Before(up[n], n)
      BY <2>2, <2>3 DEF Before
    <2>5. up[n][n] \in V /\ up[n][n] = G[n][Before(up[n], n)]
      BY <1>1, <2>1 DEF Given
    <2> QED  BY <2>2, <2>4, <2>5
  <1>3. f \in [Nat -> V]
    BY <1>2
  <1> HIDE DEF f
  <1>4. IsGiven(V, G, f)
    BY <1>2, <1>3 DEF IsGiven
  <1> QED  BY <1>4

LEMMA IsGivenFacts ==
  ASSUME NEW V, NEW G, NEW f, IsGiven(V, G, f), NEW n \in Nat
  PROVE  /\ f \in [Nat -> V] /\ Before(f, n) \in [0..(n - 1) -> V]
         /\ f[n] = G[n][Before(f, n)] /\ \A m \in 0..(n - 1) : Before(f, n)[m] = f[m]
  <1>1. f \in [Nat -> V]
    BY DEF IsGiven
  <1>2. Before(f, n) \in [0..(n - 1) -> V]
    BY <1>1 DEF Before
  <1>3. f[n] = G[n][Before(f, n)]
    BY DEF IsGiven
  <1>4. \A m \in 0..(n - 1) : Before(f, n)[m] = f[m]
    BY DEF Before
  <1> QED  BY <1>1, <1>2, <1>3, <1>4

-----------------------------------------------------------------------------
(* The highest bit.                                                        *)
LEMMA HighBitDef ==
  high_bit = [m \in Nat |-> IF m <= 1 THEN 1 ELSE 2 * high_bit[m \div 2]]
  <1> DEFINE G == [n \in Nat |-> [r \in [0..(n - 1) -> Nat] |->
                     IF n <= 1 THEN 1 ELSE 2 * r[n \div 2]]]
             Body(f) == [m \in Nat |-> IF m <= 1 THEN 1 ELSE 2 * f[m \div 2]]
  <1>1. \A n \in Nat : n > 1 => n \div 2 \in 0..(n - 1)
    OBVIOUS
  <1>2. WellGiven(Nat, G)
    BY <1>1 DEF WellGiven
  <1> HIDE DEF G
  <1>3. PICK f : IsGiven(Nat, G, f)
    BY <1>2, GivenByBefore
  <1>4. ASSUME NEW n \in Nat
        PROVE  f[n] = IF n <= 1 THEN 1 ELSE 2 * f[n \div 2]
    <2>1. /\ Before(f, n) \in [0..(n - 1) -> Nat] /\ f[n] = G[n][Before(f, n)]
          /\ \A m \in 0..(n - 1) : Before(f, n)[m] = f[m]
      BY <1>3, IsGivenFacts
    <2>2. G[n][Before(f, n)] = IF n <= 1 THEN 1 ELSE 2 * Before(f, n)[n \div 2]
      BY <2>1 DEF G
    <2>3. n > 1 => Before(f, n)[n \div 2] = f[n \div 2]
      BY <1>1, <2>1
    <2> QED  BY <2>1, <2>2, <2>3
  <1>5. f = Body(f)
    BY <1>3, <1>4 DEF IsGiven
  <1>6. high_bit = CHOOSE g : g = Body(g)
    BY DEF high_bit
  <1> HIDE DEF Body
  <1>7. high_bit = Body(high_bit)
    BY <1>5, <1>6
  <1> QED  BY <1>7 DEF Body

LEMMA HighBitFacts ==
  ASSUME NEW m \in Nat, m # 0
  PROVE  /\ high_bit[m] \in Nat /\ 1 <= high_bit[m] /\ high_bit[m] <= m /\ m < 2 * high_bit[m]
         /\ \A k \in Nat : high_bit[m] <= k /\ k <= m => high_bit[k] = high_bit[m]
  <1> DEFINE h(n) == high_bit[n]
             Ok(n) == /\ h(n) \in Nat /\ 1 <= h(n) /\ h(n) <= n /\ n < 2 * h(n)
                      /\ \A k \in Nat : h(n) <= k /\ k <= n => h(k) = h(n)
             Bad == {n \in Nat : n # 0 /\ ~Ok(n)}
  <1>1. \A n \in Nat : h(n) = IF n <= 1 THEN 1 ELSE 2 * h(n \div 2)
    BY HighBitDef
  <1> HIDE DEF h
  <1> SUFFICES ASSUME m \in Bad PROVE FALSE
    BY DEF h
  <1>2. PICK n \in Bad : \A k \in Bad : n <= k
    BY SmallestNat
  <1>3. n \in Nat /\ n # 0 /\ ~Ok(n)
    BY <1>2
  <1>4. CASE n = 1
    BY <1>1, <1>3, <1>4
  <1>5. CASE n # 1
    <2> DEFINE q == n \div 2
    <2>1. q \in Nat /\ q # 0 /\ q < n /\ 2 * q <= n /\ n <= 2 * q + 1
      BY <1>3, <1>5
    <2>2. h(n) = 2 * h(q)
      BY <1>1, <1>3, <1>5
    <2>3. Ok(q)
      BY <1>2, <2>1
    <2> HIDE DEF q
    <2>4. h(n) \in Nat /\ 1 <= h(n) /\ h(n) <= n /\ n < 2 * h(n)
      BY <1>3, <2>1, <2>2, <2>3
    <2>5. ASSUME NEW k \in Nat, h(n) <= k, k <= n PROVE h(k) = h(n)
      <3> DEFINE j == k \div 2
      <3>1. h(q) \in Nat /\ h(q) >= 1 /\ 2 * h(q) <= k /\ k <= 2 * q + 1
        BY <1>3, <2>1, <2>2, <2>3, <2>5
      <3>2. j \in Nat /\ 2 * j <= k /\ k <= 2 * j + 1
        OBVIOUS
      <3>3. k > 1
        BY <3>1
      <3>4. h(k) = 2 * h(j)
        BY <1>1, <3>3
      <3> HIDE DEF j
      <3>5. h(q) <= j /\ j <= q
        BY <2>1, <3>1, <3>2
      <3>6. h(j) = h(q)
        BY <2>3, <3>2, <3>5
      <3> QED  BY <2>2, <3>4, <3>6
    <2> QED  BY <1>3, <2>4, <2>5
  <1> QED  BY <1>4, <1>5

(* Where a tree of n leaves is split, and a smaller one in the same place. *)
LEMMA SplitFacts ==
  ASSUME NEW n \in Nat, n > 1
  PROVE  /\ largest_power_of_two_below(n) \in Nat
         /\ 1 <= largest_power_of_two_below(n) /\ largest_power_of_two_below(n) < n
         /\ \A m \in Nat : largest_power_of_two_below(n) < m /\ m <= n =>
              largest_power_of_two_below(m) = largest_power_of_two_below(n)
  <1> DEFINE p == n - 1
  <1>1. p \in Nat /\ p # 0
    OBVIOUS
  <1>2. largest_power_of_two_below(n) = high_bit[p]
    BY DEF largest_power_of_two_below
  <1>3. ASSUME NEW m \in Nat, high_bit[p] < m, m <= n
        PROVE  largest_power_of_two_below(m) = high_bit[p]
    <2>1. high_bit[p] \in Nat
      BY <1>1, HighBitFacts
    <2>2. m - 1 \in Nat /\ high_bit[p] <= m - 1 /\ m - 1 <= p
      BY <1>3, <2>1
    <2>3. high_bit[m - 1] = high_bit[p]
      BY <1>1, <2>2, HighBitFacts
    <2> QED  BY <2>3 DEF largest_power_of_two_below
  <1>4. high_bit[p] \in Nat /\ 1 <= high_bit[p] /\ high_bit[p] <= p
    BY <1>1, HighBitFacts
  <1> QED  BY <1>2, <1>3, <1>4


-----------------------------------------------------------------------------
(* The descents.  What they give at n is what they give below, and a side. *)
Sides == Seq(BOOLEAN)

LEMMA TurnsDef ==
  ASSUME NEW n \in Nat, NEW i \in Nat
  PROVE  /\ turns[n][i] \in Sides
         /\ n <= 1 => turns[n][i] = <<>>
         /\ n > 1 => LET split == largest_power_of_two_below(n)
                     IN turns[n][i] = IF i < split THEN Append(turns[split][i], TRUE)
                                      ELSE Append(turns[n - split][i - split], FALSE)
  <1> DEFINE Put(s, side) == Append(s, side)
             lp(m) == largest_power_of_two_below(m)
             V == [Nat -> Sides]
             Low(r, m, j) == IF m <= 1 THEN <<>>
                             ELSE IF j < lp(m) THEN Put(r[lp(m)][j], TRUE)
                             ELSE Put(r[m - lp(m)][j - lp(m)], FALSE)
             G == [m \in Nat |-> [r \in [0..(m - 1) -> V] |-> [j \in Nat |-> Low(r, m, j)]]]
             Body(f) == [m \in Nat |-> [j \in Nat |-> Low(f, m, j)]]
  <1>1. \A m \in Nat : m > 1 => /\ lp(m) \in 0..(m - 1) /\ m - lp(m) \in 0..(m - 1)
                                /\ lp(m) \in Nat
    BY SplitFacts
  <1>2. <<>> \in Sides /\ \A s \in Sides : Put(s, TRUE) \in Sides /\ Put(s, FALSE) \in Sides
    BY AppendProperties DEF Sides
  <1> HIDE DEF lp, Put
  <1>3. ASSUME NEW m \in Nat, NEW r, \A k \in 0..(m - 1) : r[k] \in V, NEW j \in Nat
        PROVE  Low(r, m, j) \in Sides
    <2>1. CASE m <= 1
      BY <1>2, <2>1
    <2>2. CASE m > 1 /\ j < lp(m)
      <3>1. r[lp(m)] \in V
        BY <1>1, <1>3, <2>2
      <3> QED  BY <1>2, <2>2, <3>1
    <2>3. CASE m > 1 /\ ~(j < lp(m))
      <3>1. r[m - lp(m)] \in V /\ j - lp(m) \in Nat
        BY <1>1, <1>3, <2>3
      <3> QED  BY <1>2, <2>3, <3>1
    <2>4. m <= 1 \/ (m > 1 /\ j < lp(m)) \/ (m > 1 /\ ~(j < lp(m)))
      OBVIOUS
    <2> HIDE DEF Low
    <2> QED  BY <2>1, <2>2, <2>3, <2>4
  <1>4. ASSUME NEW m \in Nat, NEW r, NEW s, \A k \in 0..(m - 1) : r[k] = s[k], NEW j \in Nat
        PROVE  Low(r, m, j) = Low(s, m, j)
    <2>1. CASE m <= 1
      BY <2>1
    <2>2. CASE ~(m <= 1)
      <3>1. r[lp(m)] = s[lp(m)] /\ r[m - lp(m)] = s[m - lp(m)]
        BY <1>1, <1>4, <2>2
      <3> QED  BY <2>2, <3>1, Zenon
    <2> QED  BY <2>1, <2>2, Zenon
  <1> HIDE DEF Low
  <1>5. WellGiven(V, G)
    <2>1. ASSUME NEW m \in Nat, NEW r \in [0..(m - 1) -> V]
          PROVE  [j \in Nat |-> Low(r, m, j)] \in V
      BY <1>3, <2>1
    <2> HIDE DEF V
    <2>2. \A m \in Nat : G[m] \in [[0..(m - 1) -> V] -> V]
      BY <2>1
    <2> HIDE DEF G
    <2> QED  BY <2>2 DEF WellGiven
  <1> HIDE DEF G
  <1>6. PICK f : IsGiven(V, G, f)
    BY <1>5, GivenByBefore
  <1>7. ASSUME NEW m \in Nat PROVE f[m] = [j \in Nat |-> Low(f, m, j)]
    <2> HIDE DEF V
    <2>1. /\ Before(f, m) \in [0..(m - 1) -> V] /\ f[m] = G[m][Before(f, m)]
          /\ \A k \in 0..(m - 1) : Before(f, m)[k] = f[k]
      BY <1>6, IsGivenFacts
    <2>2. G[m][Before(f, m)] = [j \in Nat |-> Low(Before(f, m), m, j)]
      BY <2>1 DEF G
    <2>3. \A j \in Nat : Low(Before(f, m), m, j) = Low(f, m, j)
      BY <1>4, <2>1
    <2> QED  BY <2>1, <2>2, <2>3
  <1>8. f = [m \in Nat |-> f[m]]
    BY <1>6 DEF IsGiven
  <1>9. f = Body(f)
    BY <1>7, <1>8
  <1>10. turns = CHOOSE g : g = Body(g)
    BY DEF turns, Low, lp, Put
  <1> HIDE DEF Body
  <1>11. turns = Body(turns)
    BY <1>9, <1>10
  <1>12. \A m \in Nat : turns[m] = [j \in Nat |-> Low(turns, m, j)]
    BY <1>11 DEF Body
  <1>13. \A m, j \in Nat : turns[m][j] = Low(turns, m, j)
    BY <1>12
  <1>14. \A m \in Nat : turns[m] \in V
    <2> DEFINE Bad == {m \in Nat : turns[m] \notin V}
    <2> SUFFICES ASSUME Bad # {} PROVE FALSE
      OBVIOUS
    <2>1. PICK m \in Bad : \A k \in Bad : m <= k
      BY SmallestNat
    <2>2. m \in Nat /\ \A k \in 0..(m - 1) : turns[k] \in V
      BY <2>1
    <2>3. \A j \in Nat : Low(turns, m, j) \in Sides
      BY <1>3, <2>2
    <2>4. [j \in Nat |-> Low(turns, m, j)] \in V
      BY <2>3
    <2> HIDE DEF V
    <2> QED  BY <1>12, <2>1, <2>2, <2>4
  <1>15. turns[n][i] \in Sides
    BY <1>14
  <1>16. n <= 1 => turns[n][i] = <<>>
    BY <1>13 DEF Low
  <1>17. n > 1 => turns[n][i] = IF i < lp(n) THEN Put(turns[lp(n)][i], TRUE)
                                ELSE Put(turns[n - lp(n)][i - lp(n)], FALSE)
    <2>1. turns[n][i] = Low(turns, n, i)
      BY <1>13
    <2>2. n > 1 => ~(n <= 1)
      OBVIOUS
    <2> QED  BY <2>1, <2>2, Zenon DEF Low
  <1> QED  BY <1>15, <1>16, <1>17, Zenon DEF lp, Put

LEMMA DescentFull ==
  ASSUME NEW n \in Nat, NEW i \in Nat
  PROVE  /\ descent[n][i].sides \in Sides
         /\ n <= 1 \/ i = n => descent[n][i].sides = <<>>
         /\ n > 1 /\ i # n =>
              LET split == largest_power_of_two_below(n)
              IN descent[n][i].sides =
                   IF i <= split THEN Append(descent[split][i].sides, TRUE)
                   ELSE Append(descent[n - split][i - split].sides, FALSE)
         /\ n <= 1 \/ i = n => descent[n][i].complete
         /\ n > 1 /\ i # n =>
              LET split == largest_power_of_two_below(n)
              IN descent[n][i].complete <=> i <= split /\ descent[split][i].complete
  <1> DEFINE Put(s, side) == Append(s, side)
             lp(m) == largest_power_of_two_below(m)
             Walk == [sides : Sides, complete : BOOLEAN]
             V == [Nat -> Walk]
             Met == [sides |-> <<>>, complete |-> TRUE]
             Left(d) == [sides |-> Put(d.sides, TRUE), complete |-> d.complete]
             Right(d) == [sides |-> Put(d.sides, FALSE), complete |-> FALSE]
             Low(r, m, j) == IF m <= 1 \/ j = m THEN Met
                             ELSE IF j <= lp(m) THEN Left(r[lp(m)][j])
                             ELSE Right(r[m - lp(m)][j - lp(m)])
             G == [m \in Nat |-> [r \in [0..(m - 1) -> V] |-> [j \in Nat |-> Low(r, m, j)]]]
             Body(f) == [m \in Nat |-> [j \in Nat |-> Low(f, m, j)]]
  <1>1. \A m \in Nat : m > 1 => /\ lp(m) \in 0..(m - 1) /\ m - lp(m) \in 0..(m - 1)
                                /\ lp(m) \in Nat
    BY SplitFacts
  <1>2. <<>> \in Sides /\ \A s \in Sides : Put(s, TRUE) \in Sides /\ Put(s, FALSE) \in Sides
    BY AppendProperties DEF Sides
  <1> HIDE DEF lp, Put
  <1>2a. /\ Met \in Walk /\ Met.sides = <<>> /\ Met.complete
         /\ \A d \in Walk : Left(d) \in Walk /\ Right(d) \in Walk
    BY <1>2
  <1>2b. \A d : Left(d).sides = Put(d.sides, TRUE) /\ Right(d).sides = Put(d.sides, FALSE)
    OBVIOUS
  <1>2d. \A d : (Left(d).complete <=> d.complete) /\ ~Right(d).complete
    OBVIOUS
  <1>2c. \A d \in Walk : d.sides \in Sides
    OBVIOUS
  <1> HIDE DEF Met, Left, Right, Walk
  <1>3. ASSUME NEW m \in Nat, NEW r, \A k \in 0..(m - 1) : r[k] \in V, NEW j \in Nat
        PROVE  Low(r, m, j) \in Walk
    <2>1. CASE m <= 1 \/ j = m
      BY <1>2a, <2>1
    <2>2. CASE m > 1 /\ j # m /\ j <= lp(m)
      <3>1. r[lp(m)] \in V
        BY <1>1, <1>3, <2>2
      <3> QED  BY <1>2a, <2>2, <3>1
    <2>3. CASE m > 1 /\ j # m /\ ~(j <= lp(m))
      <3>1. r[m - lp(m)] \in V /\ j - lp(m) \in Nat
        BY <1>1, <1>3, <2>3
      <3> QED  BY <1>2a, <2>3, <3>1
    <2>4. \/ m <= 1 \/ j = m
          \/ m > 1 /\ j # m /\ j <= lp(m)
          \/ m > 1 /\ j # m /\ ~(j <= lp(m))
      OBVIOUS
    <2> HIDE DEF Low
    <2> QED  BY <2>1, <2>2, <2>3, <2>4
  <1>4. ASSUME NEW m \in Nat, NEW r, NEW s, \A k \in 0..(m - 1) : r[k] = s[k], NEW j \in Nat
        PROVE  Low(r, m, j) = Low(s, m, j)
    <2>1. CASE m <= 1
      BY <2>1
    <2>2. CASE ~(m <= 1)
      <3>1. r[lp(m)] = s[lp(m)] /\ r[m - lp(m)] = s[m - lp(m)]
        BY <1>1, <1>4, <2>2
      <3> QED  BY <2>2, <3>1, Zenon
    <2> QED  BY <2>1, <2>2, Zenon
  <1> HIDE DEF Low
  <1>5. WellGiven(V, G)
    <2>1. ASSUME NEW m \in Nat, NEW r \in [0..(m - 1) -> V]
          PROVE  [j \in Nat |-> Low(r, m, j)] \in V
      BY <1>3, <2>1
    <2> HIDE DEF V
    <2>2. \A m \in Nat : G[m] \in [[0..(m - 1) -> V] -> V]
      BY <2>1
    <2> HIDE DEF G
    <2> QED  BY <2>2 DEF WellGiven
  <1> HIDE DEF G
  <1>6. PICK f : IsGiven(V, G, f)
    BY <1>5, GivenByBefore
  <1>7. ASSUME NEW m \in Nat PROVE f[m] = [j \in Nat |-> Low(f, m, j)]
    <2> HIDE DEF V
    <2>1. /\ Before(f, m) \in [0..(m - 1) -> V] /\ f[m] = G[m][Before(f, m)]
          /\ \A k \in 0..(m - 1) : Before(f, m)[k] = f[k]
      BY <1>6, IsGivenFacts
    <2>2. G[m][Before(f, m)] = [j \in Nat |-> Low(Before(f, m), m, j)]
      BY <2>1 DEF G
    <2>3. \A j \in Nat : Low(Before(f, m), m, j) = Low(f, m, j)
      BY <1>4, <2>1
    <2> QED  BY <2>1, <2>2, <2>3
  <1>8. f = [m \in Nat |-> f[m]]
    BY <1>6 DEF IsGiven
  <1>9. f = Body(f)
    BY <1>7, <1>8
  <1>10. descent = CHOOSE g : g = Body(g)
    BY DEF descent, Low, lp, Put, Met, Left, Right
  <1> HIDE DEF Body
  <1>11. descent = Body(descent)
    BY <1>9, <1>10
  <1>12. \A m \in Nat : descent[m] = [j \in Nat |-> Low(descent, m, j)]
    BY <1>11 DEF Body
  <1>13. \A m, j \in Nat : descent[m][j] = Low(descent, m, j)
    BY <1>12
  <1>14. \A m \in Nat : descent[m] \in V
    <2> DEFINE Bad == {m \in Nat : descent[m] \notin V}
    <2> SUFFICES ASSUME Bad # {} PROVE FALSE
      OBVIOUS
    <2>1. PICK m \in Bad : \A k \in Bad : m <= k
      BY SmallestNat
    <2>2. m \in Nat /\ \A k \in 0..(m - 1) : descent[k] \in V
      BY <2>1
    <2>3. \A j \in Nat : Low(descent, m, j) \in Walk
      BY <1>3, <2>2
    <2>4. [j \in Nat |-> Low(descent, m, j)] \in V
      BY <2>3
    <2> HIDE DEF V
    <2> QED  BY <1>12, <2>1, <2>2, <2>4
  <1>15. descent[n][i].sides \in Sides
    <2>1. descent[n][i] \in Walk
      BY <1>14
    <2> QED  BY <1>2c, <2>1
  <1>16. n <= 1 \/ i = n => descent[n][i].sides = <<>>
    BY <1>2a, <1>13 DEF Low
  <1>17. n > 1 /\ i # n =>
           descent[n][i].sides = IF i <= lp(n) THEN Put(descent[lp(n)][i].sides, TRUE)
                                 ELSE Put(descent[n - lp(n)][i - lp(n)].sides, FALSE)
    <2>1. descent[n][i] = Low(descent, n, i)
      BY <1>13
    <2>2. n > 1 => ~(n <= 1)
      OBVIOUS
    <2>3. n > 1 /\ i # n => descent[n][i] = IF i <= lp(n) THEN Left(descent[lp(n)][i])
                                            ELSE Right(descent[n - lp(n)][i - lp(n)])
      BY <2>1, <2>2, Zenon DEF Low
    <2> QED  BY <2>3, <1>2b, Zenon
  <1>18. n <= 1 \/ i = n => descent[n][i].complete
    BY <1>2a, <1>13 DEF Low
  <1>19. n > 1 /\ i # n => (descent[n][i].complete <=> i <= lp(n) /\ descent[lp(n)][i].complete)
    <2>1. descent[n][i] = Low(descent, n, i)
      BY <1>13
    <2>2. n > 1 => ~(n <= 1)
      OBVIOUS
    <2>3. n > 1 /\ i # n => descent[n][i] = IF i <= lp(n) THEN Left(descent[lp(n)][i])
                                            ELSE Right(descent[n - lp(n)][i - lp(n)])
      BY <2>1, <2>2, Zenon DEF Low
    <2>4. CASE i <= lp(n)
      BY <2>3, <2>4, <1>2d, Zenon
    <2>5. CASE ~(i <= lp(n))
      BY <2>3, <2>5, <1>2d, Zenon
    <2> QED  BY <2>4, <2>5, Zenon
  <1> QED  BY <1>15, <1>16, <1>17, <1>18, <1>19, Zenon DEF lp, Put

LEMMA DescentDef ==
  ASSUME NEW n \in Nat, NEW i \in Nat
  PROVE  /\ descent[n][i].sides \in Sides
         /\ n <= 1 \/ i = n => descent[n][i].sides = <<>>
         /\ n > 1 /\ i # n =>
              LET split == largest_power_of_two_below(n)
              IN descent[n][i].sides =
                   IF i <= split THEN Append(descent[split][i].sides, TRUE)
                   ELSE Append(descent[n - split][i - split].sides, FALSE)
  BY DescentFull, Zenon

-----------------------------------------------------------------------------
(* The climb.  Its function exists, and its last step is the top level.    *)
ClimbStep(hash, side, sibling, grown) ==
  IF ~side THEN node_hash(sibling, hash)
  ELSE IF grown THEN node_hash(hash, sibling) ELSE hash

Climbs(H, seed, sides, siblings, grown, n) ==
  H = [k \in 0..n |-> IF k = 0 THEN seed ELSE ClimbStep(H[k - 1], sides[k], siblings[k], grown)]

LEMMA ClimbExists ==
  ASSUME NEW seed, NEW sides, NEW siblings, NEW grown, NEW n \in Nat
  PROVE  \E H : Climbs(H, seed, sides, siblings, grown, n)
  <1> DEFINE Is(H, m) == Climbs(H, seed, sides, siblings, grown, m)
             Bad == {m \in Nat : ~\E H : Is(H, m)}
  <1> SUFFICES ASSUME n \in Bad PROVE FALSE
    OBVIOUS
  <1>1. PICK m \in Bad : \A k \in Bad : m <= k
    BY SmallestNat
  <1>2. m # 0
    <2> DEFINE H == [k \in 0..0 |-> seed]
    <2>1. Is(H, 0)
      BY DEF Climbs
    <2> HIDE DEF H, Is
    <2> QED  BY <1>1, <2>1
  <1>3. m \in Nat /\ m - 1 \in Nat /\ m - 1 \notin Bad
    BY <1>1, <1>2
  <1>4. PICK H : Is(H, m - 1)
    BY <1>3
  <1> DEFINE top == ClimbStep(H[m - 1], sides[m], siblings[m], grown)
             D == [k \in 0..m |-> IF k = m THEN top ELSE H[k]]
  <1>5. D[m] = top /\ \A k \in 0..(m - 1) : D[k] = H[k]
    BY <1>3
  <1>6. D = [k \in 0..m |-> D[k]]
    OBVIOUS
  <1> HIDE DEF D
  <1>7. ASSUME NEW k \in 0..m
        PROVE  D[k] = IF k = 0 THEN seed ELSE ClimbStep(D[k - 1], sides[k], siblings[k], grown)
    <2>1. CASE k = m
      <3>1. m - 1 \in 0..(m - 1)
        BY <1>3
      <3>2. D[m - 1] = H[m - 1]
        BY <1>5, <3>1
      <3> QED  BY <1>2, <1>5, <2>1, <3>2
    <2>2. CASE k # m
      <3>1. k \in 0..(m - 1) /\ (k # 0 => k - 1 \in 0..(m - 1))
        BY <1>3, <2>2
      <3>2. H[k] = IF k = 0 THEN seed ELSE ClimbStep(H[k - 1], sides[k], siblings[k], grown)
        BY <1>4, <3>1 DEF Climbs
      <3> QED  BY <1>5, <3>1, <3>2
    <2> QED  BY <2>1, <2>2
  <1>8. Is(D, m)
    BY <1>6, <1>7 DEF Climbs
  <1> QED  BY <1>1, <1>8

LEMMA ClimbsFacts ==
  ASSUME NEW seed, NEW sides \in Sides, NEW siblings, NEW grown
  PROVE  \E H : /\ Climbs(H, seed, sides, siblings, grown, Len(sides))
                /\ climb(seed, sides, siblings, grown) = H[Len(sides)]
  <1> DEFINE N == Len(sides)
             Top == CHOOSE H : Climbs(H, seed, sides, siblings, grown, N)
  <1>1. N \in Nat
    BY LenProperties DEF Sides
  <1>2. climb(seed, sides, siblings, grown) = Top[N]
    BY DEF climb, Climbs, ClimbStep
  <1> HIDE DEF N
  <1>3. Climbs(Top, seed, sides, siblings, grown, N)
    BY <1>1, ClimbExists
  <1> QED  BY <1>2, <1>3 DEF N

(* Two climbs that see the same up to a level are the same up to there.    *)
LEMMA ClimbsAgree ==
  ASSUME NEW seed, NEW grown, NEW s, NEW t, NEW x, NEW y, NEW a \in Nat, NEW b \in Nat, a <= b,
         \A k \in 1..a : s[k] = t[k] /\ x[k] = y[k],
         NEW H, Climbs(H, seed, s, x, grown, a), NEW K, Climbs(K, seed, t, y, grown, b)
  PROVE  H[a] = K[a]
  <1> DEFINE Bad == {k \in Nat : k <= a /\ H[k] # K[k]}
  <1> SUFFICES ASSUME a \in Bad PROVE FALSE
    OBVIOUS
  <1>1. PICK k \in Bad : \A j \in Bad : k <= j
    BY SmallestNat
  <1>2. k \in 0..a /\ k \in 0..b /\ H[k] # K[k] /\ k \in Nat
    BY <1>1
  <1>3. /\ H[k] = IF k = 0 THEN seed ELSE ClimbStep(H[k - 1], s[k], x[k], grown)
        /\ K[k] = IF k = 0 THEN seed ELSE ClimbStep(K[k - 1], t[k], y[k], grown)
    BY <1>2 DEF Climbs
  <1>4. k # 0
    BY <1>2, <1>3
  <1>5. k \in 1..a /\ k - 1 \in Nat /\ k - 1 <= a /\ k - 1 \notin Bad
    BY <1>1, <1>2, <1>4
  <1>6. H[k - 1] = K[k - 1]
    BY <1>5
  <1> QED  BY <1>2, <1>3, <1>4, <1>5, <1>6

LEMMA ClimbNone ==
  ASSUME NEW seed, NEW siblings, NEW grown
  PROVE  climb(seed, <<>>, siblings, grown) = seed
  <1>1. <<>> \in Sides /\ Len(<<>>) = 0
    BY DEF Sides
  <1>2. PICK H : Climbs(H, seed, <<>>, siblings, grown, 0)
                 /\ climb(seed, <<>>, siblings, grown) = H[0]
    BY <1>1, ClimbsFacts
  <1>3. H[0] = seed
    BY <1>2 DEF Climbs
  <1> QED  BY <1>2, <1>3

LEMMA ClimbUp ==
  ASSUME NEW seed, NEW siblings, NEW grown, NEW s \in Sides, NEW side \in BOOLEAN
  PROVE  climb(seed, Append(s, side), siblings, grown) =
           ClimbStep(climb(seed, s, siblings, grown), side, siblings[Len(s) + 1], grown)
  <1> DEFINE t == Append(s, side)
             a == Len(s)
  <1>1. /\ t \in Sides /\ Len(t) = a + 1 /\ a \in Nat /\ t[a + 1] = side
        /\ \A k \in 1..a : t[k] = s[k]
    BY AppendProperties, LenProperties DEF Sides
  <1> HIDE DEF t, a
  <1>2. PICK H : Climbs(H, seed, s, siblings, grown, a)
                 /\ climb(seed, s, siblings, grown) = H[a]
    BY ClimbsFacts DEF a
  <1>3. PICK K : Climbs(K, seed, t, siblings, grown, a + 1)
                 /\ climb(seed, t, siblings, grown) = K[a + 1]
    BY <1>1, ClimbsFacts
  <1>4. H[a] = K[a]
    <2>1. a + 1 \in Nat /\ a <= a + 1
      BY <1>1
    <2> QED  BY <1>1, <1>2, <1>3, <2>1, ClimbsAgree
  <1>5. K[a + 1] = ClimbStep(K[a], side, siblings[a + 1], grown)
    <2>1. a + 1 \in 0..(a + 1) /\ a + 1 # 0 /\ (a + 1) - 1 = a
      BY <1>1
    <2>2. K[a + 1] = ClimbStep(K[(a + 1) - 1], t[a + 1], siblings[a + 1], grown)
      BY <1>3, <2>1 DEF Climbs
    <2> QED  BY <1>1, <2>1, <2>2
  <1> QED  BY <1>2, <1>3, <1>4, <1>5 DEF t, a

LEMMA ClimbSame ==
  ASSUME NEW seed, NEW siblings, NEW others, NEW grown, NEW s \in Sides,
         \A k \in 1..Len(s) : siblings[k] = others[k]
  PROVE  climb(seed, s, siblings, grown) = climb(seed, s, others, grown)
  <1>1. Len(s) \in Nat /\ Len(s) <= Len(s)
    BY LenProperties DEF Sides
  <1>2. PICK H : Climbs(H, seed, s, siblings, grown, Len(s))
                 /\ climb(seed, s, siblings, grown) = H[Len(s)]
    BY ClimbsFacts
  <1>3. PICK K : Climbs(K, seed, s, others, grown, Len(s))
                 /\ climb(seed, s, others, grown) = K[Len(s)]
    BY ClimbsFacts
  <1>4. H[Len(s)] = K[Len(s)]
    BY <1>1, <1>2, <1>3, ClimbsAgree
  <1> QED  BY <1>2, <1>3, <1>4

-----------------------------------------------------------------------------
(* What the two verifiers establish, whatever the path: that an entry is   *)
(* in its place under a root of that size, and that a root of one size has *)
(* grown into another.                                                     *)
InTree(n, root, i, leaf) ==
  \E siblings : climb(leaf, turns[n][i], siblings, TRUE) = root

Linked(m, old, n, new) ==
  \E seed, siblings :
    /\ climb(seed, descent[n][m].sides, siblings, FALSE) = old
    /\ climb(seed, descent[n][m].sides, siblings, TRUE) = new

LEMMA InTreeLeaf ==
  ASSUME NEW root, NEW leaf, NEW n \in Nat, n <= 1, NEW i \in Nat, InTree(n, root, i, leaf)
  PROVE  root = leaf
  <1>1. turns[n][i] = <<>>
    BY TurnsDef
  <1> QED  BY <1>1, ClimbNone, Zenon DEF InTree

LEMMA InTreeSplit ==
  ASSUME NEW n \in Nat, n > 1, NEW i \in Nat, NEW root, NEW leaf, InTree(n, root, i, leaf)
  PROVE  LET k == largest_power_of_two_below(n)
         IN \E l, r : /\ root = node_hash(l, r)
                      /\ i < k => InTree(k, l, i, leaf)
                      /\ ~(i < k) => InTree(n - k, r, i - k, leaf)
  <1> DEFINE k == largest_power_of_two_below(n)
  <1>1. k \in Nat /\ 1 <= k /\ k < n
    BY SplitFacts
  <1>2. PICK x : climb(leaf, turns[n][i], x, TRUE) = root
    BY DEF InTree
  <1>3. turns[n][i] = IF i < k THEN Append(turns[k][i], TRUE)
                      ELSE Append(turns[n - k][i - k], FALSE)
    BY TurnsDef
  <1> HIDE DEF k
  <1>4. CASE i < k
    <2> DEFINE s == turns[k][i]
               h == climb(leaf, s, x, TRUE)
    <2>1. s \in Sides
      BY <1>1, TurnsDef
    <2>2. root = climb(leaf, Append(s, TRUE), x, TRUE)
      BY <1>2, <1>3, <1>4
    <2>3. root = ClimbStep(h, TRUE, x[Len(s) + 1], TRUE)
      BY <2>1, <2>2, ClimbUp, Zenon
    <2>4. root = node_hash(h, x[Len(s) + 1])
      BY <2>3 DEF ClimbStep
    <2>5. InTree(k, h, i, leaf)
      BY DEF InTree
    <2> QED  BY <1>4, <2>4, <2>5 DEF k
  <1>5. CASE ~(i < k)
    <2> DEFINE s == turns[n - k][i - k]
               h == climb(leaf, s, x, TRUE)
    <2>1. s \in Sides
      <3>1. n - k \in Nat /\ i - k \in Nat
        BY <1>1, <1>5
      <3> QED  BY <3>1, TurnsDef
    <2>2. root = climb(leaf, Append(s, FALSE), x, TRUE)
      BY <1>2, <1>3, <1>5
    <2>3. root = ClimbStep(h, FALSE, x[Len(s) + 1], TRUE)
      BY <2>1, <2>2, ClimbUp, Zenon
    <2>4. root = node_hash(x[Len(s) + 1], h)
      BY <2>3 DEF ClimbStep
    <2>5. InTree(n - k, h, i - k, leaf)
      BY DEF InTree
    <2> QED  BY <1>5, <2>4, <2>5 DEF k
  <1> QED  BY <1>4, <1>5

LEMMA LinkedSame ==
  ASSUME NEW n \in Nat
  PROVE  \A old, new : Linked(n, old, n, new) <=> old = new
  <1>1. descent[n][n].sides = <<>>
    BY DescentDef
  <1>2. \A seed, x : climb(seed, <<>>, x, FALSE) = seed /\ climb(seed, <<>>, x, TRUE) = seed
    BY ClimbNone, Zenon
  <1> QED  BY <1>1, <1>2 DEF Linked

(* A root of n leaves that has grown from one of m fewer: on the left of   *)
(* its split, or to the right of a left side that both share.              *)
SplitLink(m, old, n, new, k, l, r) ==
  /\ new = node_hash(l, r)
  /\ m <= k => Linked(m, old, k, l)
  /\ ~(m <= k) => \E right : old = node_hash(l, right) /\ Linked(m - k, right, n - k, r)

LEMMA LinkedSplits ==
  ASSUME NEW n \in Nat, n > 1, NEW m \in Nat, m # n, NEW old, NEW new, Linked(m, old, n, new)
  PROVE  \E l, r : SplitLink(m, old, n, new, largest_power_of_two_below(n), l, r)
  <1> DEFINE k == largest_power_of_two_below(n)
  <1>1. k \in Nat /\ 1 <= k /\ k < n
    BY SplitFacts
  <1>2. PICK seed, x : /\ climb(seed, descent[n][m].sides, x, FALSE) = old
                       /\ climb(seed, descent[n][m].sides, x, TRUE) = new
    BY DEF Linked
  <1>3. descent[n][m].sides = IF m <= k THEN Append(descent[k][m].sides, TRUE)
                              ELSE Append(descent[n - k][m - k].sides, FALSE)
    BY DescentDef
  <1> HIDE DEF k
  <1>4. CASE m <= k
    <2> DEFINE s == descent[k][m].sides
               g == climb(seed, s, x, FALSE)
               h == climb(seed, s, x, TRUE)
    <2>1. s \in Sides
      BY <1>1, DescentDef
    <2>2. old = climb(seed, Append(s, TRUE), x, FALSE) /\ new = climb(seed, Append(s, TRUE), x, TRUE)
      BY <1>2, <1>3, <1>4
    <2>3. old = ClimbStep(g, TRUE, x[Len(s) + 1], FALSE) /\ new = ClimbStep(h, TRUE, x[Len(s) + 1], TRUE)
      BY <2>1, <2>2, ClimbUp, Zenon
    <2>4. old = g /\ new = node_hash(h, x[Len(s) + 1])
      BY <2>3 DEF ClimbStep
    <2>5. Linked(m, g, k, h)
      BY DEF Linked
    <2> HIDE DEF g, h, s
    <2>6. SplitLink(m, old, n, new, k, h, x[Len(s) + 1])
      BY <1>4, <2>4, <2>5 DEF SplitLink
    <2> QED  BY <2>6 DEF k
  <1>5. CASE ~(m <= k)
    <2> DEFINE s == descent[n - k][m - k].sides
               g == climb(seed, s, x, FALSE)
               h == climb(seed, s, x, TRUE)
    <2>1. s \in Sides
      <3>1. n - k \in Nat /\ m - k \in Nat
        BY <1>1, <1>5
      <3> QED  BY <3>1, DescentDef
    <2>2. old = climb(seed, Append(s, FALSE), x, FALSE) /\ new = climb(seed, Append(s, FALSE), x, TRUE)
      BY <1>2, <1>3, <1>5
    <2>3. old = ClimbStep(g, FALSE, x[Len(s) + 1], FALSE) /\ new = ClimbStep(h, FALSE, x[Len(s) + 1], TRUE)
      BY <2>1, <2>2, ClimbUp, Zenon
    <2>4. old = node_hash(x[Len(s) + 1], g) /\ new = node_hash(x[Len(s) + 1], h)
      BY <2>3 DEF ClimbStep
    <2>5. Linked(m - k, g, n - k, h)
      BY DEF Linked
    <2> HIDE DEF g, h, s
    <2>6. SplitLink(m, old, n, new, k, x[Len(s) + 1], h)
      BY <1>5, <2>4, <2>5 DEF SplitLink
    <2> QED  BY <2>6 DEF k
  <1> QED  BY <1>4, <1>5

(* The climbs to the root that has grown and to the one that has not.      *)
Left(s) == Append(s, TRUE)
Right(s) == Append(s, FALSE)
Grown(seed, s, x) == climb(seed, s, x, TRUE)
Kept(seed, s, x) == climb(seed, s, x, FALSE)

LEMMA ClimbSides ==
  ASSUME NEW s \in Sides
  PROVE  /\ Left(s) \in Sides /\ Len(Left(s)) = Len(s) + 1
         /\ Right(s) \in Sides /\ Len(Right(s)) = Len(s) + 1
  BY AppendProperties DEF Left, Right, Sides

Topped(x, a, v) == [j \in 1..(a + 1) |-> IF j = a + 1 THEN v ELSE x[j]]

LEMMA ClimbWithTrue ==
  ASSUME NEW s \in Sides, NEW seed, NEW x, NEW v
  PROVE  /\ Kept(seed, Left(s), Topped(x, Len(s), v)) = Kept(seed, s, x)
         /\ Grown(seed, Left(s), Topped(x, Len(s), v)) = node_hash(Grown(seed, s, x), v)
  <1> DEFINE a == Len(s)
             y == Topped(x, a, v)
             t == Append(s, TRUE)
  <1>1. a \in Nat
    BY LenProperties DEF Sides
  <1>2. y[a + 1] = v /\ \A j \in 1..a : x[j] = y[j]
    BY <1>1 DEF Topped
  <1> HIDE DEF y
  <1>3. /\ climb(seed, s, x, FALSE) = climb(seed, s, y, FALSE)
        /\ climb(seed, s, x, TRUE) = climb(seed, s, y, TRUE)
    <2>1. ASSUME NEW grown PROVE climb(seed, s, x, grown) = climb(seed, s, y, grown)
      BY <1>2, ClimbSame
    <2> QED  BY <2>1, Zenon
  <1>4. climb(seed, t, y, FALSE) = ClimbStep(climb(seed, s, y, FALSE), TRUE, y[a + 1], FALSE)
    BY ClimbUp, Zenon
  <1>5. climb(seed, t, y, TRUE) = ClimbStep(climb(seed, s, y, TRUE), TRUE, y[a + 1], TRUE)
    BY ClimbUp, Zenon
  <1> HIDE DEF t, a
  <1>6. climb(seed, t, y, FALSE) = climb(seed, s, x, FALSE)
    BY <1>2, <1>3, <1>4, Zenon DEF ClimbStep
  <1>7. climb(seed, t, y, TRUE) = node_hash(climb(seed, s, x, TRUE), v)
    BY <1>2, <1>3, <1>5, Zenon DEF ClimbStep
  <1>8. t = Left(s)
    BY DEF t, Left
  <1> QED  BY <1>6, <1>7, <1>8, Zenon DEF y, a, Kept, Grown

LEMMA ClimbWithFalse ==
  ASSUME NEW s \in Sides, NEW seed, NEW x, NEW v
  PROVE  /\ Kept(seed, Right(s), Topped(x, Len(s), v)) = node_hash(v, Kept(seed, s, x))
         /\ Grown(seed, Right(s), Topped(x, Len(s), v)) = node_hash(v, Grown(seed, s, x))
  <1> DEFINE a == Len(s)
             y == Topped(x, a, v)
             t == Append(s, FALSE)
  <1>1. a \in Nat
    BY LenProperties DEF Sides
  <1>2. y[a + 1] = v /\ \A j \in 1..a : x[j] = y[j]
    BY <1>1 DEF Topped
  <1> HIDE DEF y
  <1>3. /\ climb(seed, s, x, FALSE) = climb(seed, s, y, FALSE)
        /\ climb(seed, s, x, TRUE) = climb(seed, s, y, TRUE)
    <2>1. ASSUME NEW grown PROVE climb(seed, s, x, grown) = climb(seed, s, y, grown)
      BY <1>2, ClimbSame
    <2> QED  BY <2>1, Zenon
  <1>4. climb(seed, t, y, FALSE) = ClimbStep(climb(seed, s, y, FALSE), FALSE, y[a + 1], FALSE)
    BY ClimbUp, Zenon
  <1>5. climb(seed, t, y, TRUE) = ClimbStep(climb(seed, s, y, TRUE), FALSE, y[a + 1], TRUE)
    BY ClimbUp, Zenon
  <1> HIDE DEF t, a
  <1>6. climb(seed, t, y, FALSE) = node_hash(v, climb(seed, s, x, FALSE))
    BY <1>2, <1>3, <1>4, Zenon DEF ClimbStep
  <1>7. climb(seed, t, y, TRUE) = node_hash(v, climb(seed, s, x, TRUE))
    BY <1>2, <1>3, <1>5, Zenon DEF ClimbStep
  <1>8. t = Right(s)
    BY DEF t, Right
  <1> QED  BY <1>6, <1>7, <1>8, Zenon DEF y, a, Kept, Grown

LEMMA LinkedJoins ==
  ASSUME NEW n \in Nat, n > 1, NEW m \in Nat, m # n, NEW old, NEW new, NEW l, NEW r,
         SplitLink(m, old, n, new, largest_power_of_two_below(n), l, r)
  PROVE  Linked(m, old, n, new)
  <1> DEFINE k == largest_power_of_two_below(n)
  <1>1. k \in Nat /\ 1 <= k /\ k < n
    BY SplitFacts
  <1>2. descent[n][m].sides = IF m <= k THEN Append(descent[k][m].sides, TRUE)
                              ELSE Append(descent[n - k][m - k].sides, FALSE)
    BY DescentDef
  <1>3. SplitLink(m, old, n, new, k, l, r)
    OBVIOUS
  <1> HIDE DEF k
  <1>6. CASE m <= k
    <2> DEFINE s == descent[k][m].sides
    <2>1. s \in Sides
      BY <1>1, DescentDef
    <2>2. new = node_hash(l, r) /\ Linked(m, old, k, l)
      BY <1>3, <1>6 DEF SplitLink
    <2>3. PICK seed, x : Kept(seed, s, x) = old /\ Grown(seed, s, x) = l
      BY <2>2 DEF Linked, Kept, Grown
    <2> DEFINE y == Topped(x, Len(s), r)
    <2> HIDE DEF s
    <2>4. Kept(seed, Left(s), y) = old /\ Grown(seed, Left(s), y) = new
      BY <2>1, <2>2, <2>3, ClimbWithTrue
    <2>5. descent[n][m].sides = Left(s)
      BY <1>2, <1>6 DEF s, Left
    <2> HIDE DEF y
    <2> QED  BY <2>4, <2>5, Zenon DEF Linked, Kept, Grown
  <1>7. CASE ~(m <= k)
    <2> DEFINE s == descent[n - k][m - k].sides
    <2>1. s \in Sides
      <3>1. n - k \in Nat /\ m - k \in Nat
        BY <1>1, <1>7
      <3> QED  BY <3>1, DescentDef
    <2>2. PICK right : new = node_hash(l, r) /\ old = node_hash(l, right) /\ Linked(m - k, right, n - k, r)
      BY <1>3, <1>7 DEF SplitLink
    <2>3. PICK seed, x : Kept(seed, s, x) = right /\ Grown(seed, s, x) = r
      BY <2>2 DEF Linked, Kept, Grown
    <2> DEFINE y == Topped(x, Len(s), l)
    <2> HIDE DEF s
    <2>4. Kept(seed, Right(s), y) = old /\ Grown(seed, Right(s), y) = new
      BY <2>1, <2>2, <2>3, ClimbWithFalse
    <2>5. descent[n][m].sides = Right(s)
      BY <1>2, <1>7 DEF s, Right
    <2> HIDE DEF y
    <2> QED  BY <2>4, <2>5, Zenon DEF Linked, Kept, Grown
  <1> QED  BY <1>6, <1>7

(* Under one root of one size a place has one entry.                       *)
LEMMA OneEntry ==
  ASSUME NEW n \in Nat, NEW root, NEW i \in Nat, i < n, NEW x, NEW y,
         InTree(n, root, i, x), InTree(n, root, i, y)
  PROVE  x = y
  <1> DEFINE Two(m) == \E top, a, b : \E j \in Nat :
                         j < m /\ InTree(m, top, j, a) /\ InTree(m, top, j, b) /\ a # b
             Bad == {m \in Nat : Two(m)}
  <1> SUFFICES ASSUME Two(n) PROVE FALSE
    OBVIOUS
  <1>1. PICK m \in Bad : \A k \in Bad : m <= k
    BY SmallestNat
  <1>2. m \in Nat /\ Two(m)
    BY <1>1
  <1>3. PICK top, a, b : \E j \in Nat :
          j < m /\ InTree(m, top, j, a) /\ InTree(m, top, j, b) /\ a # b
    BY <1>2
  <1>4. PICK j \in Nat : j < m /\ InTree(m, top, j, a) /\ InTree(m, top, j, b) /\ a # b
    BY <1>3
  <1>5. m > 1
    <2>1. CASE m <= 1
      <3>1. top = a /\ top = b
        BY <1>2, <1>4, <2>1, InTreeLeaf
      <3> QED  BY <1>4, <3>1
    <2> QED  BY <1>2, <2>1
  <1> DEFINE k == largest_power_of_two_below(m)
  <1>6. k \in Nat /\ 1 <= k /\ k < m
    BY <1>2, <1>5, SplitFacts
  <1>7. PICK l, r : /\ top = node_hash(l, r)
                    /\ j < k => InTree(k, l, j, a)
                    /\ ~(j < k) => InTree(m - k, r, j - k, a)
    BY <1>2, <1>4, <1>5, InTreeSplit
  <1>8. PICK p, q : /\ top = node_hash(p, q)
                    /\ j < k => InTree(k, p, j, b)
                    /\ ~(j < k) => InTree(m - k, q, j - k, b)
    BY <1>2, <1>4, <1>5, InTreeSplit
  <1>9. l = p /\ r = q
    <2>1. node_hash(l, r) = node_hash(p, q)
      BY <1>7, <1>8
    <2> QED  BY <2>1 DEF node_hash
  <1> HIDE DEF k
  <1>10. CASE j < k
    <2>1. Two(k)
      BY <1>4, <1>7, <1>8, <1>9, <1>10
    <2> HIDE DEF Two
    <2> QED  BY <1>1, <1>2, <1>6, <2>1
  <1>11. CASE ~(j < k)
    <2>1. j - k \in Nat /\ j - k < m - k /\ m - k \in Nat /\ m - k < m
      BY <1>2, <1>4, <1>6, <1>11
    <2>2. Two(m - k)
      BY <1>4, <1>7, <1>8, <1>9, <1>11, <2>1
    <2> HIDE DEF Two
    <2> QED  BY <1>1, <1>2, <2>1, <2>2
  <1> QED  BY <1>10, <1>11

(* And keeps it while the root grows.                                      *)
LEMMA PlaceKept ==
  ASSUME NEW n \in Nat, NEW m \in Nat, m <= n, NEW i \in Nat, i < m,
         NEW old, NEW new, Linked(m, old, n, new),
         NEW x, InTree(m, old, i, x), NEW y, InTree(n, new, i, y)
  PROVE  x = y
  <1> DEFINE Moved(c) == \E f, g, a, b : \E d, j \in Nat :
                           /\ j < d /\ d <= c /\ Linked(d, f, c, g)
                           /\ InTree(d, f, j, a) /\ InTree(c, g, j, b) /\ a # b
             Bad == {c \in Nat : Moved(c)}
  <1> SUFFICES ASSUME Moved(n) PROVE FALSE
    OBVIOUS
  <1>1. PICK c \in Bad : \A e \in Bad : c <= e
    BY SmallestNat
  <1>2. c \in Nat /\ Moved(c)
    BY <1>1
  <1>3. PICK f, g, a, b : \E d, j \in Nat :
          /\ j < d /\ d <= c /\ Linked(d, f, c, g)
          /\ InTree(d, f, j, a) /\ InTree(c, g, j, b) /\ a # b
    BY <1>2
  <1>4. PICK d \in Nat, j \in Nat :
          /\ j < d /\ d <= c /\ Linked(d, f, c, g)
          /\ InTree(d, f, j, a) /\ InTree(c, g, j, b) /\ a # b
    BY <1>3
  <1>5. d # c
    <2>1. ASSUME d = c PROVE FALSE
      <3>1. f = g
        BY <1>4, <2>1, LinkedSame
      <3> QED  BY <1>4, <2>1, <3>1, OneEntry
    <2> QED  BY <2>1
  <1>6. c > 1 /\ d < c /\ j < c
    BY <1>2, <1>4, <1>5
  <1> DEFINE k == largest_power_of_two_below(c)
  <1>7. /\ k \in Nat /\ 1 <= k /\ k < c
        /\ \A e \in Nat : k < e /\ e <= c => largest_power_of_two_below(e) = k
    BY <1>2, <1>6, SplitFacts
  <1>8. PICK l, r : SplitLink(d, f, c, g, k, l, r)
    BY <1>2, <1>4, <1>5, <1>6, LinkedSplits
  <1>9. PICK p, q : /\ g = node_hash(p, q)
                    /\ j < k => InTree(k, p, j, b)
                    /\ ~(j < k) => InTree(c - k, q, j - k, b)
    BY <1>2, <1>4, <1>6, InTreeSplit
  <1> HIDE DEF k
  <1>10. l = p /\ r = q
    <2>1. node_hash(l, r) = node_hash(p, q)
      BY <1>8, <1>9 DEF SplitLink
    <2> QED  BY <2>1 DEF node_hash
  <1>11. CASE d <= k
    <2>1. Linked(d, f, k, l) /\ InTree(k, l, j, b)
      BY <1>4, <1>7, <1>8, <1>9, <1>10, <1>11 DEF SplitLink
    <2>2. Moved(k)
      BY <1>4, <1>11, <2>1
    <2> HIDE DEF Moved
    <2> QED  BY <1>1, <1>2, <1>7, <2>2
  <1>12. CASE ~(d <= k)
    <2>1. PICK right : f = node_hash(l, right) /\ Linked(d - k, right, c - k, r)
      BY <1>8, <1>12 DEF SplitLink
    <2>2. largest_power_of_two_below(d) = k /\ d > 1
      BY <1>4, <1>7, <1>12
    <2>3. PICK u, v : /\ f = node_hash(u, v)
                      /\ j < k => InTree(k, u, j, a)
                      /\ ~(j < k) => InTree(d - k, v, j - k, a)
      BY <1>4, <2>2, InTreeSplit
    <2>4. u = l /\ v = right
      <3>1. node_hash(l, right) = node_hash(u, v)
        BY <2>1, <2>3
      <3> QED  BY <3>1 DEF node_hash
    <2>5. CASE j < k
      BY <1>4, <1>7, <1>9, <1>10, <2>3, <2>4, <2>5, OneEntry
    <2>6. CASE ~(j < k)
      <3>1. /\ j - k \in Nat /\ d - k \in Nat /\ c - k \in Nat /\ c - k < c
            /\ j - k < d - k /\ d - k <= c - k
        BY <1>2, <1>4, <1>7, <1>12, <2>6
      <3>2. Moved(c - k)
        BY <1>4, <1>9, <1>10, <2>1, <2>3, <2>4, <2>6, <3>1
      <3> HIDE DEF Moved
      <3> QED  BY <1>1, <1>2, <3>1, <3>2
    <2> QED  BY <2>5, <2>6
  <1> QED  BY <1>11, <1>12

(* What has grown into what has grown has grown.                           *)
LEMMA LinkedComposes ==
  ASSUME NEW a \in Nat, NEW b \in Nat, NEW c \in Nat, a <= b, b <= c, NEW x, NEW y, NEW z,
         Linked(a, x, b, y), Linked(b, y, c, z)
  PROVE  Linked(a, x, c, z)
  <1> DEFINE Broken(n) == \E f, g, h : \E d, e \in Nat :
                            /\ d <= e /\ e <= n
                            /\ Linked(d, f, e, g) /\ Linked(e, g, n, h) /\ ~Linked(d, f, n, h)
             Bad == {n \in Nat : Broken(n)}
  <1> SUFFICES ASSUME Broken(c) PROVE FALSE
    OBVIOUS
  <1>1. PICK n \in Bad : \A m \in Bad : n <= m
    BY SmallestNat
  <1>2. n \in Nat /\ Broken(n)
    BY <1>1
  <1>3. PICK f, g, h : \E d, e \in Nat :
          /\ d <= e /\ e <= n
          /\ Linked(d, f, e, g) /\ Linked(e, g, n, h) /\ ~Linked(d, f, n, h)
    BY <1>2
  <1>4. PICK d \in Nat, e \in Nat :
          /\ d <= e /\ e <= n
          /\ Linked(d, f, e, g) /\ Linked(e, g, n, h) /\ ~Linked(d, f, n, h)
    BY <1>3
  <1>5. d # e
    BY <1>4, LinkedSame
  <1>6. e # n
    BY <1>2, <1>4, LinkedSame
  <1>7. n > 1 /\ e < n /\ d < e /\ d # n
    BY <1>2, <1>4, <1>5, <1>6
  <1> DEFINE k == largest_power_of_two_below(n)
  <1>8. /\ k \in Nat /\ 1 <= k /\ k < n
        /\ \A m \in Nat : k < m /\ m <= n => largest_power_of_two_below(m) = k
    BY <1>2, <1>7, SplitFacts
  <1>9. PICK l, r : SplitLink(e, g, n, h, k, l, r)
    BY <1>2, <1>4, <1>6, <1>7, LinkedSplits
  <1>10. ~\E p, q : SplitLink(d, f, n, h, k, p, q)
    BY <1>2, <1>4, <1>7, LinkedJoins
  <1> HIDE DEF k
  <1>11. ~SplitLink(d, f, n, h, k, l, r)
    BY <1>10
  <1>12. CASE e <= k
    <2>1. Linked(e, g, k, l) /\ h = node_hash(l, r) /\ d <= k
      BY <1>4, <1>7, <1>8, <1>9, <1>12 DEF SplitLink
    <2>2. ~Broken(k)
      <3> HIDE DEF Broken
      <3> QED  BY <1>1, <1>2, <1>8
    <2>3. Linked(d, f, k, l)
      BY <1>4, <1>12, <2>1, <2>2
    <2> QED  BY <1>11, <2>1, <2>3 DEF SplitLink
  <1>13. CASE ~(e <= k)
    <2>1. h = node_hash(l, r)
      BY <1>9 DEF SplitLink
    <2>2. PICK right : g = node_hash(l, right) /\ Linked(e - k, right, n - k, r)
      BY <1>9, <1>13 DEF SplitLink
    <2>3. largest_power_of_two_below(e) = k /\ e > 1
      BY <1>4, <1>8, <1>13
    <2>4. PICK p, q : SplitLink(d, f, e, g, k, p, q)
      BY <1>4, <1>5, <2>3, LinkedSplits
    <2>5. p = l /\ q = right
      <3>1. node_hash(l, right) = node_hash(p, q)
        BY <2>2, <2>4 DEF SplitLink
      <3> QED  BY <3>1 DEF node_hash
    <2>6. CASE d <= k
      <3>1. Linked(d, f, k, l)
        BY <2>4, <2>5, <2>6 DEF SplitLink
      <3> QED  BY <1>11, <2>1, <2>6, <3>1 DEF SplitLink
    <2>7. CASE ~(d <= k)
      <3>1. PICK v : f = node_hash(l, v) /\ Linked(d - k, v, e - k, right)
        BY <2>4, <2>5, <2>7 DEF SplitLink
      <3>2. /\ d - k \in Nat /\ e - k \in Nat /\ n - k \in Nat /\ n - k < n
            /\ d - k <= e - k /\ e - k <= n - k
        BY <1>2, <1>4, <1>8, <1>13, <2>7
      <3>3. ~Broken(n - k)
        <4> HIDE DEF Broken
        <4> QED  BY <1>1, <1>2, <3>2
      <3>4. Linked(d - k, v, n - k, r)
        BY <2>2, <3>1, <3>2, <3>3
      <3> QED  BY <1>11, <2>1, <2>7, <3>1, <3>4 DEF SplitLink
    <2> QED  BY <2>6, <2>7
  <1> QED  BY <1>12, <1>13

-----------------------------------------------------------------------------
(* Roots.  The function of root_of exists, and what it gives for leaves in *)
(* a row depends on those leaves alone.                                    *)
lp(n) == largest_power_of_two_below(n)

RootStep(R, leaves, n, a) ==
  IF n <= 1 THEN leaves[a + 1] ELSE node_hash(R[lp(n)][a], R[n - lp(n)][a + lp(n)])

IsRoots(R, leaves, N) == R = [n \in 0..N |-> [a \in Nat |-> RootStep(R, leaves, n, a)]]

LEMMA SplitTypes ==
  \A n \in Nat : n > 1 => /\ lp(n) \in Nat /\ n - lp(n) \in Nat /\ 1 <= lp(n) /\ 1 <= n - lp(n)
                          /\ lp(n) < n /\ n - lp(n) < n
                          /\ lp(n) \in 0..(n - 1) /\ n - lp(n) \in 0..(n - 1)
  BY SplitFacts DEF lp

(* The two rows a row of n leaves in a tree of N is split into.            *)
LEMMA SplitRow ==
  ASSUME NEW a \in Nat, NEW n \in Nat, NEW N \in Nat, n > 1, a + n <= N
  PROVE  /\ lp(n) \in Nat /\ 1 <= lp(n) /\ lp(n) < n /\ a + lp(n) <= N
         /\ n - lp(n) \in Nat /\ 1 <= n - lp(n) /\ n - lp(n) < n
         /\ a + lp(n) \in Nat /\ (a + lp(n)) + (n - lp(n)) = a + n
  <1> DEFINE k == lp(n)
  <1>1. k \in Nat /\ 1 <= k /\ k < n
    BY SplitTypes
  <1> HIDE DEF k
  <1>2. /\ a + k <= N /\ n - k \in Nat /\ 1 <= n - k /\ n - k < n
        /\ a + k \in Nat /\ (a + k) + (n - k) = a + n
    BY <1>1
  <1> QED  BY <1>1, <1>2 DEF k

LEMMA RootsExist ==
  ASSUME NEW leaves, NEW N \in Nat
  PROVE  \E R : IsRoots(R, leaves, N)
  <1> DEFINE Bad == {m \in Nat : ~\E R : IsRoots(R, leaves, m)}
  <1> SUFFICES ASSUME N \in Bad PROVE FALSE
    OBVIOUS
  <1>1. PICK m \in Bad : \A k \in Bad : m <= k
    BY SmallestNat
  <1>2. m \in Nat
    BY <1>1
  <1>3. \E R : R = [n \in 0..(m - 1) |-> [a \in Nat |-> RootStep(R, leaves, n, a)]]
    <2>1. CASE m = 0
      <3>1. 0..(m - 1) = {}
        BY <2>1
      <3> DEFINE R == [n \in 0..(m - 1) |-> 0]
      <3>2. R = [n \in 0..(m - 1) |-> [a \in Nat |-> RootStep(R, leaves, n, a)]]
        BY <3>1
      <3> QED  BY <3>2
    <2>2. CASE m # 0
      <3>1. m - 1 \in Nat /\ m - 1 \notin Bad
        BY <1>1, <2>2
      <3> QED  BY <3>1 DEF IsRoots
    <2> QED  BY <2>1, <2>2
  <1>4. PICK R : R = [n \in 0..(m - 1) |-> [a \in Nat |-> RootStep(R, leaves, n, a)]]
    BY <1>3
  <1> DEFINE top == [a \in Nat |-> RootStep(R, leaves, m, a)]
             Q == [n \in 0..m |-> IF n = m THEN top ELSE R[n]]
  <1>5. Q[m] = top /\ \A n \in 0..(m - 1) : Q[n] = R[n]
    BY <1>2
  <1>6. Q = [n \in 0..m |-> Q[n]]
    OBVIOUS
  <1> HIDE DEF Q
  <1>7. ASSUME NEW n \in 0..m, NEW a \in Nat
        PROVE  RootStep(Q, leaves, n, a) = RootStep(R, leaves, n, a)
    <2>1. CASE n <= 1
      BY <2>1 DEF RootStep
    <2>2. CASE n > 1
      <3>1. n \in Nat /\ lp(n) \in 0..(m - 1) /\ n - lp(n) \in 0..(m - 1)
        BY <1>2, <2>2, SplitTypes
      <3>2. Q[lp(n)] = R[lp(n)] /\ Q[n - lp(n)] = R[n - lp(n)]
        BY <1>5, <3>1
      <3> QED  BY <2>2, <3>2 DEF RootStep
    <2> QED  BY <1>2, <2>1, <2>2
  <1>8. ASSUME NEW n \in 0..m PROVE Q[n] = [a \in Nat |-> RootStep(Q, leaves, n, a)]
    <2>1. Q[n] = [a \in Nat |-> RootStep(R, leaves, n, a)]
      <3>1. CASE n = m
        BY <1>5, <3>1
      <3>2. CASE n # m
        <4>1. n \in 0..(m - 1)
          BY <1>2, <3>2
        <4> QED  BY <1>4, <1>5, <4>1
      <3> QED  BY <3>1, <3>2
    <2> QED  BY <1>7, <2>1
  <1>9. IsRoots(Q, leaves, m)
    BY <1>6, <1>8 DEF IsRoots
  <1> QED  BY <1>1, <1>9

LEMMA RootsAt ==
  ASSUME NEW leaves, NEW N, NEW R, IsRoots(R, leaves, N), NEW n \in 0..N, NEW a \in Nat
  PROVE  R[n][a] = RootStep(R, leaves, n, a)
  <1> DEFINE F == [m \in 0..N |-> [b \in Nat |-> RootStep(R, leaves, m, b)]]
  <1>1. R = F
    BY DEF IsRoots
  <1>2. F[n][a] = RootStep(R, leaves, n, a)
    OBVIOUS
  <1> HIDE DEF F
  <1>3. R[n][a] = F[n][a]
    BY <1>1, Zenon
  <1> QED  BY <1>2, <1>3

SameRow(s, a, t, b, n) == \A j \in 1..n : s[a + j] = t[b + j]

LEMMA RootsAgree ==
  ASSUME NEW s, NEW t, NEW N \in Nat, NEW M \in Nat, NEW R, NEW Q,
         IsRoots(R, s, N), IsRoots(Q, t, M),
         NEW n \in Nat, 1 <= n, n <= N, n <= M, NEW a \in Nat, NEW b \in Nat,
         SameRow(s, a, t, b, n)
  PROVE  R[n][a] = Q[n][b]
  <1> DEFINE Differ(m) == \E c, d \in Nat : /\ \A j \in 1..m : s[c + j] = t[d + j]
                                            /\ R[m][c] # Q[m][d]
             Bad == {m \in Nat : 1 <= m /\ m <= N /\ m <= M /\ Differ(m)}
  <1> SUFFICES ASSUME n \in Bad PROVE FALSE
    BY DEF SameRow
  <1>1. PICK m \in Bad : \A k \in Bad : m <= k
    BY SmallestNat
  <1>2. m \in Nat /\ 1 <= m /\ m <= N /\ m <= M /\ Differ(m)
    BY <1>1
  <1>3. PICK c \in Nat, d \in Nat : /\ \A j \in 1..m : s[c + j] = t[d + j]
                                    /\ R[m][c] # Q[m][d]
    BY <1>2
  <1>4. m \in 0..N /\ m \in 0..M
    BY <1>2
  <1>5. R[m][c] = RootStep(R, s, m, c) /\ Q[m][d] = RootStep(Q, t, m, d)
    BY <1>4, RootsAt
  <1>6. CASE m <= 1
    <2>1. m = 1
      BY <1>2, <1>6
    <2>2. s[c + 1] = t[d + 1]
      BY <1>3, <2>1
    <2> QED  BY <1>3, <1>5, <1>6, <2>2 DEF RootStep
  <1>7. CASE m > 1
    <2> DEFINE k == lp(m)
    <2>1. /\ k \in Nat /\ m - k \in Nat /\ 1 <= k /\ 1 <= m - k /\ k < m /\ m - k < m
      BY <1>2, <1>7, SplitTypes
    <2> HIDE DEF k
    <2>2. k \notin Bad /\ m - k \notin Bad
      <3>1. ~(m <= k) /\ ~(m <= m - k)
        BY <1>2, <2>1
      <3> QED  BY <1>1, <3>1
    <2>3. k <= N /\ k <= M /\ m - k <= N /\ m - k <= M
      BY <1>2, <2>1
    <2>4. ~Differ(k) /\ ~Differ(m - k)
      BY <2>1, <2>2, <2>3
    <2>5. \A j \in 1..k : s[c + j] = t[d + j]
      BY <1>2, <1>3, <2>1
    <2>6. R[k][c] = Q[k][d]
      BY <2>4, <2>5
    <2>7. ASSUME NEW j \in 1..(m - k) PROVE s[(c + k) + j] = t[(d + k) + j]
      <3>1. k + j \in 1..m /\ (c + k) + j = c + (k + j) /\ (d + k) + j = d + (k + j)
        BY <1>2, <2>1
      <3> QED  BY <1>3, <3>1
    <2>8. c + k \in Nat /\ d + k \in Nat
      BY <2>1
    <2>9. R[m - k][c + k] = Q[m - k][d + k]
      BY <2>4, <2>7, <2>8
    <2> QED  BY <1>3, <1>5, <1>7, <2>6, <2>9 DEF RootStep, k
  <1> QED  BY <1>2, <1>6, <1>7

LEMMA RootIs ==
  ASSUME NEW S, NEW t \in Seq(S), t # <<>>
  PROVE  \E R : IsRoots(R, t, Len(t)) /\ root_of(t) = R[Len(t)][0]
  <1> DEFINE Top == CHOOSE R : IsRoots(R, t, Len(t))
  <1>1. root_of(t) = Top[Len(t)][0]
    BY DEF root_of, IsRoots, RootStep, lp
  <1>2. Len(t) \in Nat
    BY LenProperties
  <1>3. IsRoots(Top, t, Len(t))
    BY <1>2, RootsExist
  <1> HIDE DEF Top
  <1> QED  BY <1>1, <1>3

(* The root over n leaves of t after the a-th.                             *)
RootIn(t, a, n) == root_of(SubSeq(t, a + 1, a + n))

LEMMA RangeFacts ==
  ASSUME NEW S, NEW t \in Seq(S), NEW a \in Nat, NEW n \in Nat, a + n <= Len(t)
  PROVE  /\ SubSeq(t, a + 1, a + n) \in Seq(S) /\ Len(SubSeq(t, a + 1, a + n)) = n
         /\ \A j \in 1..n : SubSeq(t, a + 1, a + n)[j] = t[a + j]
         /\ 1 <= n => SubSeq(t, a + 1, a + n) # <<>>
  <1> DEFINE u == SubSeq(t, a + 1, a + n)
  <1>1. u = [j \in 1..(a + n - (a + 1) + 1) |-> t[a + 1 + j - 1]]
    OBVIOUS
  <1>2. a + n - (a + 1) + 1 = n /\ \A j \in 1..n : a + 1 + j - 1 = a + j
    OBVIOUS
  <1>3. u = [j \in 1..n |-> t[a + j]]
    BY <1>1, <1>2
  <1>4. \A j \in 1..n : t[a + j] \in S
    <2>1. \A j \in 1..n : a + j \in 1..Len(t)
      BY LenProperties
    <2> QED  BY <2>1, ElementOfSeq
  <1> HIDE DEF u
  <1>5. u \in Seq(S) /\ Len(u) = n /\ \A j \in 1..n : u[j] = t[a + j]
    BY <1>3, <1>4, IsASeq
  <1>6. 1 <= n => u # <<>>
    BY <1>5, EmptySeq
  <1> QED  BY <1>5, <1>6 DEF u

LEMMA RangeRoots ==
  ASSUME NEW S, NEW t \in Seq(S)
  PROVE  \E R : /\ IsRoots(R, t, Len(t))
                /\ \A a, n \in Nat : 1 <= n /\ a + n <= Len(t) => RootIn(t, a, n) = R[n][a]
  <1>1. Len(t) \in Nat
    BY LenProperties
  <1>2. PICK R : IsRoots(R, t, Len(t))
    BY <1>1, RootsExist
  <1>3. ASSUME NEW a \in Nat, NEW n \in Nat, 1 <= n, a + n <= Len(t)
        PROVE  RootIn(t, a, n) = R[n][a]
    <2> DEFINE u == SubSeq(t, a + 1, a + n)
    <2>1. u \in Seq(S) /\ Len(u) = n /\ u # <<>> /\ \A j \in 1..n : u[j] = t[a + j]
      BY <1>3, RangeFacts
    <2> HIDE DEF u
    <2>2. PICK Q : IsRoots(Q, u, n) /\ root_of(u) = Q[n][0]
      BY <2>1, RootIs
    <2> DEFINE M == Len(t)
    <2>3. /\ M \in Nat /\ n <= M /\ n <= n /\ 0 \in Nat /\ IsRoots(R, t, M)
          /\ \A j \in 1..n : 0 + j = j
      BY <1>1, <1>2, <1>3
    <2> HIDE DEF M
    <2>4. SameRow(u, 0, t, a, n)
      BY <2>1, <2>3 DEF SameRow
    <2>5. Q[n][0] = R[n][a]
      BY <1>3, <2>2, <2>3, <2>4, RootsAgree
    <2> QED  BY <2>2, <2>5 DEF RootIn, u
  <1> QED  BY <1>2, <1>3

(* The root of one leaf is the leaf, and any other splits.                 *)
LEMMA RootSplits ==
  ASSUME NEW S, NEW t \in Seq(S), NEW a \in Nat, NEW n \in Nat, 1 <= n, a + n <= Len(t)
  PROVE  /\ n = 1 => RootIn(t, a, n) = t[a + 1]
         /\ n > 1 => RootIn(t, a, n) = node_hash(RootIn(t, a, lp(n)), RootIn(t, a + lp(n), n - lp(n)))
  <1>1. Len(t) \in Nat /\ n \in 0..Len(t)
    BY LenProperties
  <1>2. PICK R : /\ IsRoots(R, t, Len(t))
                 /\ \A b, m \in Nat : 1 <= m /\ b + m <= Len(t) => RootIn(t, b, m) = R[m][b]
    BY RangeRoots
  <1>3. RootIn(t, a, n) = RootStep(R, t, n, a)
    <2>1. RootIn(t, a, n) = R[n][a]
      BY <1>2
    <2>2. R[n][a] = RootStep(R, t, n, a)
      BY <1>1, <1>2, RootsAt
    <2> QED  BY <2>1, <2>2
  <1>4. n > 1 => /\ RootIn(t, a, lp(n)) = R[lp(n)][a]
                 /\ RootIn(t, a + lp(n), n - lp(n)) = R[n - lp(n)][a + lp(n)]
    BY <1>1, <1>2, SplitRow
  <1> QED  BY <1>3, <1>4 DEF RootStep

LEMMA RootWhole ==
  ASSUME NEW S, NEW t \in Seq(S)
  PROVE  root_of(t) = RootIn(t, 0, Len(t))
  <1>1. Len(t) \in Nat /\ t = [j \in 1..Len(t) |-> t[j]]
    BY LenProperties
  <1>2. SubSeq(t, 0 + 1, 0 + Len(t)) = [j \in 1..(0 + Len(t) - (0 + 1) + 1) |-> t[0 + 1 + j - 1]]
    OBVIOUS
  <1>3. 0 + Len(t) - (0 + 1) + 1 = Len(t) /\ \A j \in 1..Len(t) : 0 + 1 + j - 1 = j
    BY <1>1
  <1>4. SubSeq(t, 0 + 1, 0 + Len(t)) = t
    BY <1>1, <1>2, <1>3
  <1> QED  BY <1>4 DEF RootIn

-----------------------------------------------------------------------------
(* What a log answers.  The functions of collect_inclusion and of          *)
(* collect_consistency exist.                                              *)
AuditStep(C, leaves, index, n, a) ==
  IF n <= 1 THEN <<>>
  ELSE IF index < a + lp(n)
  THEN Append(C[lp(n)][a], root_of(SubSeq(leaves, a + lp(n) + 1, a + n)))
  ELSE Append(C[n - lp(n)][a + lp(n)], root_of(SubSeq(leaves, a + 1, a + lp(n))))

IsAudit(C, leaves, index, N) ==
  C = [n \in 0..N |-> [a \in Nat |-> AuditStep(C, leaves, index, n, a)]]

LEMMA AuditExists ==
  ASSUME NEW leaves, NEW place, NEW N \in Nat
  PROVE  \E C : IsAudit(C, leaves, place, N)
  <1> DEFINE Bad == {m \in Nat : ~\E C : IsAudit(C, leaves, place, m)}
  <1> SUFFICES ASSUME N \in Bad PROVE FALSE
    OBVIOUS
  <1>1. PICK m \in Bad : \A k \in Bad : m <= k
    BY SmallestNat
  <1>2. m \in Nat
    BY <1>1
  <1>3. \E C : C = [n \in 0..(m - 1) |-> [a \in Nat |-> AuditStep(C, leaves, place, n, a)]]
    <2>1. CASE m = 0
      <3>1. 0..(m - 1) = {}
        BY <2>1
      <3> DEFINE C == [n \in 0..(m - 1) |-> 0]
      <3>2. C = [n \in 0..(m - 1) |-> [a \in Nat |-> AuditStep(C, leaves, place, n, a)]]
        BY <3>1
      <3> QED  BY <3>2
    <2>2. CASE m # 0
      <3>1. m - 1 \in Nat /\ m - 1 \notin Bad
        BY <1>1, <2>2
      <3> QED  BY <3>1 DEF IsAudit
    <2> QED  BY <2>1, <2>2
  <1>4. PICK C : C = [n \in 0..(m - 1) |-> [a \in Nat |-> AuditStep(C, leaves, place, n, a)]]
    BY <1>3
  <1> DEFINE top == [a \in Nat |-> AuditStep(C, leaves, place, m, a)]
             D == [n \in 0..m |-> IF n = m THEN top ELSE C[n]]
  <1>5. D[m] = top /\ \A n \in 0..(m - 1) : D[n] = C[n]
    BY <1>2
  <1>6. D = [n \in 0..m |-> D[n]]
    OBVIOUS
  <1> HIDE DEF D
  <1>7. ASSUME NEW n \in 0..m, NEW a \in Nat
        PROVE  AuditStep(D, leaves, place, n, a) = AuditStep(C, leaves, place, n, a)
    <2>1. CASE n <= 1
      BY <2>1, Zenon DEF AuditStep
    <2>2. CASE ~(n <= 1)
      <3>1. n \in Nat /\ lp(n) \in 0..(m - 1) /\ n - lp(n) \in 0..(m - 1)
        BY <1>2, <2>2, SplitTypes
      <3>2. D[lp(n)] = C[lp(n)] /\ D[n - lp(n)] = C[n - lp(n)]
        BY <1>5, <3>1
      <3> QED  BY <2>2, <3>2, Zenon DEF AuditStep
    <2> QED  BY <2>1, <2>2
  <1>8. ASSUME NEW n \in 0..m PROVE D[n] = [a \in Nat |-> AuditStep(D, leaves, place, n, a)]
    <2>1. D[n] = [a \in Nat |-> AuditStep(C, leaves, place, n, a)]
      <3>1. CASE n = m
        BY <1>5, <3>1
      <3>2. CASE n # m
        <4>1. n \in 0..(m - 1)
          BY <1>2, <3>2
        <4> QED  BY <1>4, <1>5, <4>1
      <3> QED  BY <3>1, <3>2
    <2> QED  BY <1>7, <2>1
  <1>9. IsAudit(D, leaves, place, m)
    BY <1>6, <1>8 DEF IsAudit
  <1> QED  BY <1>1, <1>9

LEMMA AuditAt ==
  ASSUME NEW leaves, NEW place, NEW N, NEW C, IsAudit(C, leaves, place, N), NEW n \in 0..N,
         NEW a \in Nat
  PROVE  C[n][a] = AuditStep(C, leaves, place, n, a)
  <1> DEFINE F == [m \in 0..N |-> [b \in Nat |-> AuditStep(C, leaves, place, m, b)]]
  <1>1. C = F
    BY DEF IsAudit
  <1>2. F[n][a] = AuditStep(C, leaves, place, n, a)
    OBVIOUS
  <1> HIDE DEF F
  <1>3. C[n][a] = F[n][a]
    BY <1>1, Zenon
  <1> QED  BY <1>2, <1>3

GrowthStep(C, leaves, old, n, a) == [complete \in BOOLEAN |->
  IF n <= 1 \/ old = a + n
  THEN IF complete THEN <<>> ELSE <<root_of(SubSeq(leaves, a + 1, a + n))>>
  ELSE IF old <= a + lp(n)
  THEN Append(C[lp(n)][a][complete], root_of(SubSeq(leaves, a + lp(n) + 1, a + n)))
  ELSE Append(C[n - lp(n)][a + lp(n)][FALSE], root_of(SubSeq(leaves, a + 1, a + lp(n))))]

IsGrowth(C, leaves, old, N) ==
  C = [n \in 0..N |-> [a \in Nat |-> GrowthStep(C, leaves, old, n, a)]]

LEMMA GrowthExists ==
  ASSUME NEW leaves, NEW place, NEW N \in Nat
  PROVE  \E C : IsGrowth(C, leaves, place, N)
  <1> DEFINE Bad == {m \in Nat : ~\E C : IsGrowth(C, leaves, place, m)}
  <1> SUFFICES ASSUME N \in Bad PROVE FALSE
    OBVIOUS
  <1>1. PICK m \in Bad : \A k \in Bad : m <= k
    BY SmallestNat
  <1>2. m \in Nat
    BY <1>1
  <1>3. \E C : C = [n \in 0..(m - 1) |-> [a \in Nat |-> GrowthStep(C, leaves, place, n, a)]]
    <2>1. CASE m = 0
      <3>1. 0..(m - 1) = {}
        BY <2>1
      <3> DEFINE C == [n \in 0..(m - 1) |-> 0]
      <3>2. C = [n \in 0..(m - 1) |-> [a \in Nat |-> GrowthStep(C, leaves, place, n, a)]]
        BY <3>1
      <3> QED  BY <3>2
    <2>2. CASE m # 0
      <3>1. m - 1 \in Nat /\ m - 1 \notin Bad
        BY <1>1, <2>2
      <3> QED  BY <3>1 DEF IsGrowth
    <2> QED  BY <2>1, <2>2
  <1>4. PICK C : C = [n \in 0..(m - 1) |-> [a \in Nat |-> GrowthStep(C, leaves, place, n, a)]]
    BY <1>3
  <1> DEFINE top == [a \in Nat |-> GrowthStep(C, leaves, place, m, a)]
             D == [n \in 0..m |-> IF n = m THEN top ELSE C[n]]
  <1>5. D[m] = top /\ \A n \in 0..(m - 1) : D[n] = C[n]
    BY <1>2
  <1>6. D = [n \in 0..m |-> D[n]]
    OBVIOUS
  <1> HIDE DEF D
  <1>7. ASSUME NEW n \in 0..m, NEW a \in Nat
        PROVE  GrowthStep(D, leaves, place, n, a) = GrowthStep(C, leaves, place, n, a)
    <2>1. CASE n <= 1
      BY <2>1, Zenon DEF GrowthStep
    <2>2. CASE ~(n <= 1)
      <3>1. n \in Nat /\ lp(n) \in 0..(m - 1) /\ n - lp(n) \in 0..(m - 1)
        BY <1>2, <2>2, SplitTypes
      <3>2. D[lp(n)] = C[lp(n)] /\ D[n - lp(n)] = C[n - lp(n)]
        BY <1>5, <3>1
      <3> QED  BY <2>2, <3>2, Zenon DEF GrowthStep
    <2> QED  BY <2>1, <2>2
  <1>8. ASSUME NEW n \in 0..m PROVE D[n] = [a \in Nat |-> GrowthStep(D, leaves, place, n, a)]
    <2>1. D[n] = [a \in Nat |-> GrowthStep(C, leaves, place, n, a)]
      <3>1. CASE n = m
        BY <1>5, <3>1
      <3>2. CASE n # m
        <4>1. n \in 0..(m - 1)
          BY <1>2, <3>2
        <4> QED  BY <1>4, <1>5, <4>1
      <3> QED  BY <3>1, <3>2
    <2> QED  BY <1>7, <2>1
  <1>9. IsGrowth(D, leaves, place, m)
    BY <1>6, <1>8 DEF IsGrowth
  <1> QED  BY <1>1, <1>9

LEMMA GrowthAt ==
  ASSUME NEW leaves, NEW place, NEW N, NEW C, IsGrowth(C, leaves, place, N), NEW n \in 0..N,
         NEW a \in Nat
  PROVE  C[n][a] = GrowthStep(C, leaves, place, n, a)
  <1> DEFINE F == [m \in 0..N |-> [b \in Nat |-> GrowthStep(C, leaves, place, m, b)]]
  <1>1. C = F
    BY DEF IsGrowth
  <1>2. F[n][a] = GrowthStep(C, leaves, place, n, a)
    OBVIOUS
  <1> HIDE DEF F
  <1>3. C[n][a] = F[n][a]
    BY <1>1, Zenon
  <1> QED  BY <1>2, <1>3

LEMMA AuditIs ==
  ASSUME NEW S, NEW t \in Seq(S), NEW index
  PROVE  \E C : IsAudit(C, t, index, Len(t)) /\ collect_inclusion(t, index) = C[Len(t)][0]
  <1> DEFINE Top == CHOOSE C : IsAudit(C, t, index, Len(t))
  <1>1. collect_inclusion(t, index) = Top[Len(t)][0]
    BY Zenon DEF collect_inclusion, IsAudit, AuditStep, lp
  <1>2. Len(t) \in Nat
    BY LenProperties
  <1>3. IsAudit(Top, t, index, Len(t))
    BY <1>2, AuditExists
  <1> HIDE DEF Top
  <1> QED  BY <1>1, <1>3

LEMMA GrowthIs ==
  ASSUME NEW S, NEW t \in Seq(S), NEW old
  PROVE  \E C : IsGrowth(C, t, old, Len(t)) /\ collect_consistency(t, old) = C[Len(t)][0][TRUE]
  <1> DEFINE Top == CHOOSE C : IsGrowth(C, t, old, Len(t))
  <1>1. collect_consistency(t, old) = Top[Len(t)][0][TRUE]
    BY Zenon DEF collect_consistency, IsGrowth, GrowthStep, lp
  <1>2. Len(t) \in Nat
    BY LenProperties
  <1>3. IsGrowth(Top, t, old, Len(t))
    BY <1>2, GrowthExists
  <1> HIDE DEF Top
  <1> QED  BY <1>1, <1>3

(* One level more on a path.                                               *)
LEMMA AppendTops ==
  ASSUME NEW S, NEW c \in Seq(S), NEW v \in S, NEW s, Len(c) = Len(s)
  PROVE  /\ Append(c, v) \in Seq(S) /\ Len(Append(c, v)) = Len(c) + 1
         /\ Append(c, v) = Topped(c, Len(s), v)
  <1> DEFINE d == Append(c, v)
             n == Len(c)
  <1>1. /\ n \in Nat /\ d \in Seq(S) /\ Len(d) = n + 1 /\ d[n + 1] = v
        /\ \A k \in 1..n : d[k] = c[k]
    BY AppendProperties, LenProperties
  <1> HIDE DEF d, n
  <1>2. d = [k \in 1..Len(d) |-> d[k]]
    BY <1>1, LenProperties
  <1>3. \A k \in 1..(n + 1) : d[k] = IF k = n + 1 THEN v ELSE c[k]
    BY <1>1
  <1>4. d = Topped(c, n, v)
    BY <1>1, <1>2, <1>3 DEF Topped
  <1> QED  BY <1>1, <1>4 DEF d, n

LEMMA ClimbLeft ==
  ASSUME NEW S, NEW c \in Seq(S), NEW v \in S, NEW s \in Sides, NEW seed, Len(c) = Len(s)
  PROVE  /\ Grown(seed, Left(s), Append(c, v)) = node_hash(Grown(seed, s, c), v)
         /\ Kept(seed, Left(s), Append(c, v)) = Kept(seed, s, c)
  <1>1. Append(c, v) = Topped(c, Len(s), v)
    BY AppendTops
  <1> DEFINE d == Topped(c, Len(s), v)
  <1>2. /\ Grown(seed, Left(s), d) = node_hash(Grown(seed, s, c), v)
        /\ Kept(seed, Left(s), d) = Kept(seed, s, c)
    BY ClimbWithTrue
  <1> HIDE DEF d
  <1> QED  BY <1>1, <1>2, Zenon DEF d

LEMMA ClimbRight ==
  ASSUME NEW S, NEW c \in Seq(S), NEW v \in S, NEW s \in Sides, NEW seed, Len(c) = Len(s)
  PROVE  /\ Grown(seed, Right(s), Append(c, v)) = node_hash(v, Grown(seed, s, c))
         /\ Kept(seed, Right(s), Append(c, v)) = node_hash(v, Kept(seed, s, c))
  <1>1. Append(c, v) = Topped(c, Len(s), v)
    BY AppendTops
  <1> DEFINE d == Topped(c, Len(s), v)
  <1>2. /\ Grown(seed, Right(s), d) = node_hash(v, Grown(seed, s, c))
        /\ Kept(seed, Right(s), d) = node_hash(v, Kept(seed, s, c))
    BY ClimbWithFalse
  <1> HIDE DEF d
  <1> QED  BY <1>1, <1>2, Zenon DEF d

LEMMA TurnsAt ==
  ASSUME NEW n \in Nat, NEW i \in Nat
  PROVE  /\ turns[n][i] \in Sides
         /\ n <= 1 => turns[n][i] = <<>>
         /\ n > 1 => turns[n][i] = IF i < lp(n) THEN Left(turns[lp(n)][i])
                                  ELSE Right(turns[n - lp(n)][i - lp(n)])
  BY TurnsDef, Zenon DEF lp, Left, Right

LEMMA DescentAt ==
  ASSUME NEW n \in Nat, NEW i \in Nat
  PROVE  /\ descent[n][i].sides \in Sides
         /\ n <= 1 \/ i = n => descent[n][i].sides = <<>> /\ descent[n][i].complete
         /\ n > 1 /\ i # n =>
              /\ descent[n][i].sides = IF i <= lp(n) THEN Left(descent[lp(n)][i].sides)
                                       ELSE Right(descent[n - lp(n)][i - lp(n)].sides)
              /\ descent[n][i].complete <=> i <= lp(n) /\ descent[lp(n)][i].complete
  BY DescentFull, Zenon DEF lp, Left, Right

(* The hashes a log makes paths of.                                        *)
Hashes(t) == {root_of(SubSeq(t, a, b)) : a, b \in 1..Len(t)}

LEMMA RootInHashes ==
  ASSUME NEW S, NEW t \in Seq(S), NEW a \in Nat, NEW n \in Nat, 1 <= n, a + n <= Len(t)
  PROVE  RootIn(t, a, n) \in Hashes(t)
  <1>1. a + 1 \in 1..Len(t) /\ a + n \in 1..Len(t)
    BY LenProperties
  <1> QED  BY <1>1 DEF RootIn, Hashes

LEMMA HonestInclusion ==
  ASSUME NEW S, NEW t \in Seq(S), NEW index \in Nat, NEW C, IsAudit(C, t, index, Len(t)),
         NEW n \in Nat, NEW a \in Nat, 1 <= n, a + n <= Len(t), a <= index, index < a + n
  PROVE  /\ C[n][a] \in Seq(Hashes(t)) /\ Len(C[n][a]) = Len(turns[n][index - a])
         /\ Grown(t[index + 1], turns[n][index - a], C[n][a]) = RootIn(t, a, n)
  <1> DEFINE N == Len(t)
             Ok(m, b) == /\ C[m][b] \in Seq(Hashes(t))
                         /\ Len(C[m][b]) = Len(turns[m][index - b])
                         /\ Grown(t[index + 1], turns[m][index - b], C[m][b]) = RootIn(t, b, m)
             Wrong(m) == \E b \in Nat : b + m <= N /\ b <= index /\ index < b + m /\ ~Ok(m, b)
             Bad == {m \in Nat : 1 <= m /\ Wrong(m)}
  <1>0. N \in Nat
    BY LenProperties
  <1> HIDE DEF N
  <1> SUFFICES ASSUME n \in Bad PROVE FALSE
    BY DEF N
  <1>1. PICK m \in Bad : \A k \in Bad : m <= k
    BY SmallestNat
  <1>2. m \in Nat /\ 1 <= m /\ Wrong(m)
    BY <1>1
  <1>3. PICK b \in Nat : b + m <= N /\ b <= index /\ index < b + m /\ ~Ok(m, b)
    BY <1>2
  <1> DEFINE i == index - b
  <1>4. m \in 0..N /\ i \in Nat /\ i < m
    BY <1>0, <1>2, <1>3
  <1>5. C[m][b] = AuditStep(C, t, index, m, b)
    BY <1>4, AuditAt DEF N
  <1>6. CASE m = 1
    <2>1. C[m][b] = <<>> /\ turns[m][i] = <<>>
      BY <1>4, <1>5, <1>6, TurnsAt DEF AuditStep
    <2>2. index = b
      BY <1>3, <1>6
    <2>3. RootIn(t, b, m) = t[index + 1]
      BY <1>2, <1>3, <1>6, <2>2, RootSplits DEF N
    <2>4. Grown(t[index + 1], <<>>, <<>>) = t[index + 1]
      BY ClimbNone DEF Grown
    <2>5. <<>> \in Seq(Hashes(t))
      OBVIOUS
    <2> QED  BY <1>3, <2>1, <2>3, <2>4, <2>5
  <1>7. CASE m > 1
    <2> DEFINE k == lp(m)
               x == t[index + 1]
    <2>1. /\ k \in Nat /\ 1 <= k /\ k < m /\ b + k <= N
          /\ m - k \in Nat /\ 1 <= m - k /\ m - k < m
          /\ b + k \in Nat /\ (b + k) + (m - k) = b + m
      BY <1>0, <1>2, <1>3, <1>7, SplitRow
    <2> DEFINE l == RootIn(t, b, k)
               r == RootIn(t, b + k, m - k)
    <2>2. RootIn(t, b, m) = node_hash(l, r)
      BY <1>2, <1>3, <1>7, RootSplits DEF N
    <2>3. l \in Hashes(t) /\ r \in Hashes(t)
      BY <1>3, <2>1, RootInHashes DEF N
    <2>4. turns[m][i] = IF i < k THEN Left(turns[k][i]) ELSE Right(turns[m - k][i - k])
      BY <1>2, <1>4, <1>7, TurnsAt
    <2>5. C[m][b] = IF index < b + k THEN Append(C[k][b], r) ELSE Append(C[m - k][b + k], l)
      BY <1>5, <1>7, <2>1 DEF AuditStep, RootIn
    <2> HIDE DEF k, l, r, x
    <2>6. ~Wrong(k) /\ ~Wrong(m - k)
      <3>1. ~(m <= k) /\ ~(m <= m - k)
        BY <1>2, <2>1
      <3> HIDE DEF Wrong
      <3> QED  BY <1>1, <2>1, <3>1
    <2>7. CASE index < b + k
      <3>1. Ok(k, b)
        BY <1>3, <2>1, <2>6, <2>7
      <3>2. i < k
        <4> HIDE DEF Bad, Wrong, Ok
        <4> QED  BY <1>3, <2>1, <2>7
      <3>3. turns[k][i] \in Sides
        <4> HIDE DEF Bad, Wrong, Ok, i
        <4> QED  BY <1>4, <2>1, TurnsAt, Zenon
      <3> DEFINE s == turns[k][i]
                 c == C[k][b]
      <3>4. /\ s \in Sides /\ c \in Seq(Hashes(t)) /\ Len(c) = Len(s)
            /\ Grown(x, s, c) = l
        BY <3>1, <3>3 DEF x, l
      <3>5. turns[m][i] = Left(s) /\ C[m][b] = Append(c, r)
        BY <2>4, <2>5, <2>7, <3>2
      <3> HIDE DEF s, c
      <3>6. /\ Append(c, r) \in Seq(Hashes(t)) /\ Len(Append(c, r)) = Len(c) + 1
            /\ Grown(x, Left(s), Append(c, r)) = node_hash(l, r)
        <4> HIDE DEF Bad, Wrong, Ok
        <4>1. Append(c, r) \in Seq(Hashes(t)) /\ Len(Append(c, r)) = Len(c) + 1
          BY <2>3, <3>4, AppendTops
        <4>2. Grown(x, Left(s), Append(c, r)) = node_hash(Grown(x, s, c), r)
          BY <2>3, <3>4, ClimbLeft
        <4> QED  BY <3>4, <4>1, <4>2
      <3>7. Len(Left(s)) = Len(s) + 1
        BY <3>4, ClimbSides
      <3>8. Ok(m, b)
        BY <2>2, <3>4, <3>5, <3>6, <3>7 DEF x
      <3> QED  BY <1>3, <3>8
    <2>8. CASE ~(index < b + k)
      <3>1. b + k <= index /\ index < (b + k) + (m - k) /\ (b + k) + (m - k) <= N
            /\ index - (b + k) = i - k /\ i - k \in Nat
        BY <1>3, <2>1, <2>8
      <3>2. Ok(m - k, b + k)
        BY <2>1, <2>6, <3>1
      <3>3. ~(i < k)
        <4> HIDE DEF Bad, Wrong, Ok
        <4> QED  BY <1>3, <2>1, <2>8
      <3>4. turns[m - k][i - k] \in Sides
        <4> HIDE DEF Bad, Wrong, Ok, i
        <4> QED  BY <2>1, <3>1, TurnsAt, Zenon
      <3> DEFINE s == turns[m - k][i - k]
                 c == C[m - k][b + k]
      <3>5. /\ s \in Sides /\ c \in Seq(Hashes(t)) /\ Len(c) = Len(s)
            /\ Grown(x, s, c) = r
        BY <3>1, <3>2, <3>4 DEF x, r
      <3>6. turns[m][i] = Right(s) /\ C[m][b] = Append(c, l)
        BY <2>4, <2>5, <2>8, <3>3
      <3> HIDE DEF s, c
      <3>7. /\ Append(c, l) \in Seq(Hashes(t)) /\ Len(Append(c, l)) = Len(c) + 1
            /\ Grown(x, Right(s), Append(c, l)) = node_hash(l, r)
        <4> HIDE DEF Bad, Wrong, Ok
        <4>1. Append(c, l) \in Seq(Hashes(t)) /\ Len(Append(c, l)) = Len(c) + 1
          BY <2>3, <3>5, AppendTops
        <4>2. Grown(x, Right(s), Append(c, l)) = node_hash(l, Grown(x, s, c))
          BY <2>3, <3>5, ClimbRight
        <4> QED  BY <3>5, <4>1, <4>2
      <3>8. Len(Right(s)) = Len(s) + 1
        BY <3>5, ClimbSides
      <3>9. Ok(m, b)
        BY <2>2, <3>5, <3>6, <3>7, <3>8 DEF x
      <3> QED  BY <1>3, <3>9
    <2> QED  BY <2>7, <2>8
  <1> QED  BY <1>2, <1>6, <1>7

(* The paths of collect_consistency, with and without the root of the old  *)
(* part at their start.                                                    *)
Bare(C, n, a) == C[n][a][TRUE]
Headed(C, n, a) == C[n][a][FALSE]

LEMMA GrowthRows ==
  ASSUME NEW S, NEW t \in Seq(S), NEW old \in Nat, NEW C, IsGrowth(C, t, old, Len(t)),
         NEW n \in Nat, NEW a \in Nat, 1 <= n, a + n <= Len(t)
  PROVE  /\ old = a + n => Bare(C, n, a) = <<>> /\ Headed(C, n, a) = <<RootIn(t, a, n)>>
         /\ n > 1 /\ old # a + n /\ old <= a + lp(n) =>
              /\ Bare(C, n, a) = Append(Bare(C, lp(n), a), RootIn(t, a + lp(n), n - lp(n)))
              /\ Headed(C, n, a) = Append(Headed(C, lp(n), a), RootIn(t, a + lp(n), n - lp(n)))
         /\ n > 1 /\ old # a + n /\ ~(old <= a + lp(n)) =>
              /\ Bare(C, n, a) = Append(Headed(C, n - lp(n), a + lp(n)), RootIn(t, a, lp(n)))
              /\ Headed(C, n, a) = Append(Headed(C, n - lp(n), a + lp(n)), RootIn(t, a, lp(n)))
  <1>1. n \in 0..Len(t)
    BY LenProperties
  <1>2. C[n][a] = GrowthStep(C, t, old, n, a)
    BY <1>1, GrowthAt
  <1>3. n > 1 => lp(n) \in Nat /\ a + lp(n) + (n - lp(n)) = a + n
    BY SplitFacts DEF lp
  <1> DEFINE r == root_of(SubSeq(t, a + lp(n) + 1, a + n))
             l == root_of(SubSeq(t, a + 1, a + lp(n)))
             w == root_of(SubSeq(t, a + 1, a + n))
  <1>4. l = RootIn(t, a, lp(n)) /\ w = RootIn(t, a, n)
    BY DEF RootIn
  <1>5. n > 1 => r = RootIn(t, a + lp(n), n - lp(n))
    BY <1>3 DEF RootIn
  <1> HIDE DEF l, r, w
  <1>6. ASSUME NEW f \in BOOLEAN
        PROVE  C[n][a][f] = IF n <= 1 \/ old = a + n THEN IF f THEN <<>> ELSE <<w>>
                            ELSE IF old <= a + lp(n) THEN Append(C[lp(n)][a][f], r)
                            ELSE Append(C[n - lp(n)][a + lp(n)][FALSE], l)
    BY <1>2, Zenon DEF GrowthStep, l, r, w
  <1>7. /\ C[n][a][TRUE] = IF n <= 1 \/ old = a + n THEN <<>>
                           ELSE IF old <= a + lp(n) THEN Append(C[lp(n)][a][TRUE], r)
                           ELSE Append(C[n - lp(n)][a + lp(n)][FALSE], l)
        /\ C[n][a][FALSE] = IF n <= 1 \/ old = a + n THEN <<w>>
                            ELSE IF old <= a + lp(n) THEN Append(C[lp(n)][a][FALSE], r)
                            ELSE Append(C[n - lp(n)][a + lp(n)][FALSE], l)
    BY <1>6, Zenon
  <1>8. /\ Bare(C, n, a) = IF n <= 1 \/ old = a + n THEN <<>>
                           ELSE IF old <= a + lp(n) THEN Append(Bare(C, lp(n), a), r)
                           ELSE Append(Headed(C, n - lp(n), a + lp(n)), l)
        /\ Headed(C, n, a) = IF n <= 1 \/ old = a + n THEN <<w>>
                             ELSE IF old <= a + lp(n) THEN Append(Headed(C, lp(n), a), r)
                             ELSE Append(Headed(C, n - lp(n), a + lp(n)), l)
    BY <1>7, Zenon DEF Bare, Headed
  <1> QED  BY <1>4, <1>5, <1>8

LEMMA AppendTail ==
  ASSUME NEW S, NEW c \in Seq(S), c # <<>>, NEW v \in S
  PROVE  /\ Append(c, v) \in Seq(S) /\ Append(c, v) # <<>> /\ Append(c, v)[1] = c[1]
         /\ Tail(c) \in Seq(S) /\ Len(Tail(c)) + 1 = Len(c) /\ c[1] \in S
         /\ Tail(Append(c, v)) = Append(Tail(c), v)
  <1>1. Len(c) \in Nat /\ Len(c) # 0
    BY LenProperties, EmptySeq
  <1>2. /\ Append(c, v) \in Seq(S) /\ Len(Append(c, v)) = Len(c) + 1
        /\ Append(c, v)[Len(c) + 1] = v /\ \A k \in 1..Len(c) : Append(c, v)[k] = c[k]
    BY AppendProperties
  <1>3. Append(c, v) # <<>> /\ Append(c, v)[1] = c[1] /\ c[1] \in S
    BY <1>1, <1>2, EmptySeq, ElementOfSeq
  <1>4. Tail(c) \in Seq(S) /\ Len(Tail(c)) + 1 = Len(c)
    BY <1>1
  <1>5. Tail(Append(c, v)) = Append(Tail(c), v)
    BY <1>1
  <1> QED  BY <1>2, <1>3, <1>4, <1>5

(* A path that leads from the seed to the roots over the first m and over  *)
(* the first n leaves after the a-th.                                      *)
Reaches(t, seed, c, s, a, m, n) ==
  /\ c \in Seq(Hashes(t)) /\ Len(c) = Len(s)
  /\ Kept(seed, s, c) = RootIn(t, a, m)
  /\ Grown(seed, s, c) = RootIn(t, a, n)

Starts(t, c, s, a, m, n) ==
  c \in Seq(Hashes(t)) /\ c # <<>> /\ Reaches(t, c[1], Tail(c), s, a, m, n)

LEMMA ReachesLeft ==
  ASSUME NEW S, NEW t \in Seq(S), NEW a \in Nat, NEW n \in Nat, n > 1, a + n <= Len(t),
         NEW m, NEW s \in Sides, NEW seed, NEW c, Reaches(t, seed, c, s, a, m, lp(n))
  PROVE  Reaches(t, seed, Append(c, RootIn(t, a + lp(n), n - lp(n))), Left(s), a, m, n)
  <1> DEFINE k == lp(n)
             l == RootIn(t, a, k)
             r == RootIn(t, a + k, n - k)
  <1>1. k \in Nat /\ 1 <= k /\ a + k \in Nat /\ n - k \in Nat /\ 1 <= n - k
        /\ a + k + (n - k) <= Len(t)
    BY SplitFacts, LenProperties DEF lp
  <1>2. RootIn(t, a, n) = node_hash(l, r)
    BY RootSplits
  <1>3. r \in Hashes(t)
    BY <1>1, RootInHashes
  <1>4. /\ c \in Seq(Hashes(t)) /\ Len(c) = Len(s)
        /\ Kept(seed, s, c) = RootIn(t, a, m) /\ Grown(seed, s, c) = l
    BY DEF Reaches
  <1> HIDE DEF l, r, k
  <1>5. Append(c, r) \in Seq(Hashes(t)) /\ Len(Append(c, r)) = Len(c) + 1
    BY <1>3, <1>4, AppendTops
  <1>6. /\ Grown(seed, Left(s), Append(c, r)) = node_hash(Grown(seed, s, c), r)
        /\ Kept(seed, Left(s), Append(c, r)) = Kept(seed, s, c)
    BY <1>3, <1>4, ClimbLeft
  <1>7. Len(Left(s)) = Len(s) + 1
    BY ClimbSides
  <1>8. Reaches(t, seed, Append(c, r), Left(s), a, m, n)
    BY <1>2, <1>4, <1>5, <1>6, <1>7 DEF Reaches
  <1> QED  BY <1>8 DEF r, k

LEMMA ReachesRight ==
  ASSUME NEW S, NEW t \in Seq(S), NEW a \in Nat, NEW n \in Nat, n > 1, a + n <= Len(t),
         NEW m \in Nat, lp(n) < m, m < n, NEW s \in Sides, NEW seed, NEW c,
         Reaches(t, seed, c, s, a + lp(n), m - lp(n), n - lp(n))
  PROVE  Reaches(t, seed, Append(c, RootIn(t, a, lp(n))), Right(s), a, m, n)
  <1> DEFINE k == lp(n)
             l == RootIn(t, a, k)
             r == RootIn(t, a + k, n - k)
             q == RootIn(t, a + k, m - k)
  <1>1. k \in Nat /\ 1 <= k /\ a + k <= Len(t) /\ m > 1 /\ 1 <= m /\ a + m <= Len(t)
    BY SplitFacts, LenProperties DEF lp
  <1>2. lp(m) = k
    BY SplitFacts DEF lp
  <1>3. RootIn(t, a, n) = node_hash(l, r)
    BY RootSplits
  <1>4. RootIn(t, a, m) = node_hash(l, q)
    BY <1>1, <1>2, RootSplits
  <1>5. l \in Hashes(t)
    BY <1>1, RootInHashes
  <1>6. /\ c \in Seq(Hashes(t)) /\ Len(c) = Len(s)
        /\ Kept(seed, s, c) = q /\ Grown(seed, s, c) = r
    BY DEF Reaches
  <1> HIDE DEF l, r, k, q
  <1>7. Append(c, l) \in Seq(Hashes(t)) /\ Len(Append(c, l)) = Len(c) + 1
    BY <1>5, <1>6, AppendTops
  <1>8. /\ Grown(seed, Right(s), Append(c, l)) = node_hash(l, Grown(seed, s, c))
        /\ Kept(seed, Right(s), Append(c, l)) = node_hash(l, Kept(seed, s, c))
    BY <1>5, <1>6, ClimbRight
  <1>9. Len(Right(s)) = Len(s) + 1
    BY ClimbSides
  <1>10. Reaches(t, seed, Append(c, l), Right(s), a, m, n)
    BY <1>3, <1>4, <1>6, <1>7, <1>8, <1>9 DEF Reaches
  <1> QED  BY <1>10 DEF l, k

LEMMA StartsLeft ==
  ASSUME NEW S, NEW t \in Seq(S), NEW a \in Nat, NEW n \in Nat, n > 1, a + n <= Len(t),
         NEW m, NEW s \in Sides, NEW c, Starts(t, c, s, a, m, lp(n))
  PROVE  Starts(t, Append(c, RootIn(t, a + lp(n), n - lp(n))), Left(s), a, m, n)
  <1> DEFINE r == RootIn(t, a + lp(n), n - lp(n))
             d == Append(c, r)
  <1>1. lp(n) \in Nat /\ a + lp(n) \in Nat /\ n - lp(n) \in Nat /\ 1 <= n - lp(n)
        /\ a + lp(n) + (n - lp(n)) <= Len(t)
    BY SplitFacts, LenProperties DEF lp
  <1>2. r \in Hashes(t)
    BY <1>1, RootInHashes
  <1>3. c \in Seq(Hashes(t)) /\ c # <<>> /\ Reaches(t, c[1], Tail(c), s, a, m, lp(n))
    BY DEF Starts
  <1>4. Reaches(t, c[1], Append(Tail(c), r), Left(s), a, m, n)
    BY <1>3, ReachesLeft
  <1> HIDE DEF r
  <1>5. d \in Seq(Hashes(t)) /\ d # <<>> /\ d[1] = c[1] /\ Tail(d) = Append(Tail(c), r)
    BY <1>2, <1>3, AppendTail
  <1> HIDE DEF d
  <1>6. Starts(t, d, Left(s), a, m, n)
    BY <1>4, <1>5 DEF Starts
  <1> QED  BY <1>6 DEF d, r

LEMMA StartsRight ==
  ASSUME NEW S, NEW t \in Seq(S), NEW a \in Nat, NEW n \in Nat, n > 1, a + n <= Len(t),
         NEW m \in Nat, lp(n) < m, m < n, NEW s \in Sides, NEW c,
         Starts(t, c, s, a + lp(n), m - lp(n), n - lp(n))
  PROVE  Starts(t, Append(c, RootIn(t, a, lp(n))), Right(s), a, m, n)
  <1> DEFINE l == RootIn(t, a, lp(n))
             d == Append(c, l)
  <1>1. lp(n) \in Nat /\ 1 <= lp(n) /\ a + lp(n) <= Len(t)
    BY SplitFacts, LenProperties DEF lp
  <1>2. l \in Hashes(t)
    BY <1>1, RootInHashes
  <1>3. /\ c \in Seq(Hashes(t)) /\ c # <<>>
        /\ Reaches(t, c[1], Tail(c), s, a + lp(n), m - lp(n), n - lp(n))
    BY DEF Starts
  <1>4. Reaches(t, c[1], Append(Tail(c), l), Right(s), a, m, n)
    BY <1>3, ReachesRight
  <1> HIDE DEF l
  <1>5. d \in Seq(Hashes(t)) /\ d # <<>> /\ d[1] = c[1] /\ Tail(d) = Append(Tail(c), l)
    BY <1>2, <1>3, AppendTail
  <1> HIDE DEF d
  <1>6. Starts(t, d, Right(s), a, m, n)
    BY <1>4, <1>5 DEF Starts
  <1> QED  BY <1>6 DEF d, l

(* What collect_consistency writes leads to both roots, from the root of   *)
(* the old part when the reader can take it for granted and from the hash  *)
(* at its start when not.                                                  *)
Truthful(C, t, old, n, a) ==
  LET d == descent[n][old - a] IN
  /\ Starts(t, Headed(C, n, a), d.sides, a, old - a, n)
  /\ d.complete => Reaches(t, RootIn(t, a, old - a), Bare(C, n, a), d.sides, a, old - a, n)
  /\ ~d.complete => Starts(t, Bare(C, n, a), d.sides, a, old - a, n)

LEMMA TruthfulWhole ==
  ASSUME NEW S, NEW t \in Seq(S), NEW old \in Nat, NEW C, IsGrowth(C, t, old, Len(t)),
         NEW n \in Nat, NEW a \in Nat, 1 <= n, a + n <= Len(t), old = a + n
  PROVE  Truthful(C, t, old, n, a)
  <1> DEFINE w == RootIn(t, a, n)
  <1>1. old - a = n
    OBVIOUS
  <1>2. descent[n][n].sides = <<>> /\ descent[n][n].complete
    BY DescentAt
  <1>3. Bare(C, n, a) = <<>> /\ Headed(C, n, a) = <<w>>
    BY GrowthRows
  <1>4. w \in Hashes(t)
    BY RootInHashes
  <1>5. Kept(w, <<>>, <<>>) = w /\ Grown(w, <<>>, <<>>) = w
    BY ClimbNone, Zenon DEF Kept, Grown
  <1>6. Reaches(t, w, <<>>, <<>>, a, n, n)
    BY <1>5 DEF Reaches
  <1> HIDE DEF w
  <1>7. <<w>> \in Seq(Hashes(t)) /\ <<w>> # <<>> /\ <<w>>[1] = w /\ Tail(<<w>>) = <<>>
    BY <1>4
  <1>8. Starts(t, <<w>>, <<>>, a, n, n)
    BY <1>6, <1>7 DEF Starts
  <1> QED  BY <1>1, <1>2, <1>3, <1>6, <1>8 DEF Truthful, w

LEMMA TruthfulLeft ==
  ASSUME NEW S, NEW t \in Seq(S), NEW old \in Nat, NEW C, IsGrowth(C, t, old, Len(t)),
         NEW n \in Nat, NEW a \in Nat, n > 1, a + n <= Len(t), a < old, old <= a + lp(n),
         Truthful(C, t, old, lp(n), a)
  PROVE  Truthful(C, t, old, n, a)
  <1> DEFINE k == lp(n)
             m == old - a
             s == descent[k][m].sides
             r == RootIn(t, a + k, n - k)
  <1>1. k \in Nat /\ k < n /\ m \in Nat /\ m <= k /\ m # n /\ old # a + n
    BY SplitFacts DEF lp
  <1>2. s \in Sides
    BY <1>1, DescentAt
  <1>3. descent[n][m].sides = Left(s) /\ (descent[n][m].complete <=> descent[k][m].complete)
    BY <1>1, DescentAt
  <1>4. Bare(C, n, a) = Append(Bare(C, k, a), r) /\ Headed(C, n, a) = Append(Headed(C, k, a), r)
    <2>1. n \in Nat /\ a \in Nat /\ 1 <= n /\ n > 1 /\ old # a + n /\ old <= a + lp(n)
      BY <1>1
    <2>2. n > 1 /\ old # a + n /\ old <= a + lp(n) =>
            Bare(C, n, a) = Append(Bare(C, k, a), r) /\ Headed(C, n, a) = Append(Headed(C, k, a), r)
      BY <2>1, GrowthRows
    <2> QED  BY <2>1, <2>2, Zenon
  <1>5. /\ Starts(t, Headed(C, k, a), s, a, m, k)
        /\ descent[k][m].complete => Reaches(t, RootIn(t, a, m), Bare(C, k, a), s, a, m, k)
        /\ ~descent[k][m].complete => Starts(t, Bare(C, k, a), s, a, m, k)
    BY DEF Truthful
  <1> HIDE DEF s, m
  <1>6. Starts(t, Append(Headed(C, k, a), r), Left(s), a, m, n)
    BY <1>2, <1>5, StartsLeft
  <1>7. ~descent[k][m].complete => Starts(t, Append(Bare(C, k, a), r), Left(s), a, m, n)
    BY <1>2, <1>5, StartsLeft
  <1>8. descent[k][m].complete =>
          Reaches(t, RootIn(t, a, m), Append(Bare(C, k, a), r), Left(s), a, m, n)
    BY <1>2, <1>5, ReachesLeft
  <1> HIDE DEF k, r
  <1> QED  BY <1>3, <1>4, <1>6, <1>7, <1>8 DEF Truthful, m

LEMMA TruthfulRight ==
  ASSUME NEW S, NEW t \in Seq(S), NEW old \in Nat, NEW C, IsGrowth(C, t, old, Len(t)),
         NEW n \in Nat, NEW a \in Nat, n > 1, a + n <= Len(t), a + lp(n) < old, old < a + n,
         Truthful(C, t, old, n - lp(n), a + lp(n))
  PROVE  Truthful(C, t, old, n, a)
  <1> DEFINE k == lp(n)
             m == old - a
             s == descent[n - k][m - k].sides
             l == RootIn(t, a, k)
  <1>1. /\ k \in Nat /\ k < n /\ m \in Nat /\ k < m /\ m < n /\ m # n /\ ~(m <= k)
        /\ old # a + n /\ ~(old <= a + k) /\ old - (a + k) = m - k
        /\ n - k \in Nat /\ m - k \in Nat
    BY SplitFacts DEF lp
  <1>2. s \in Sides
    BY <1>1, DescentAt
  <1>3. descent[n][m].sides = Right(s) /\ ~descent[n][m].complete
    BY <1>1, DescentAt
  <1>4. /\ Bare(C, n, a) = Append(Headed(C, n - k, a + k), l)
        /\ Headed(C, n, a) = Append(Headed(C, n - k, a + k), l)
    BY <1>1, GrowthRows
  <1>5. Starts(t, Headed(C, n - k, a + k), s, a + k, m - k, n - k)
    BY <1>1 DEF Truthful
  <1> HIDE DEF s, m
  <1>6. Starts(t, Append(Headed(C, n - k, a + k), l), Right(s), a, m, n)
    BY <1>1, <1>2, <1>5, StartsRight
  <1> HIDE DEF k, l
  <1> QED  BY <1>3, <1>4, <1>6 DEF Truthful, m

LEMMA HonestConsistency ==
  ASSUME NEW S, NEW t \in Seq(S), NEW old \in Nat, NEW C, IsGrowth(C, t, old, Len(t)),
         NEW n \in Nat, NEW a \in Nat, 1 <= n, a + n <= Len(t), a < old, old <= a + n
  PROVE  Truthful(C, t, old, n, a)
  <1> DEFINE N == Len(t)
             Wrong(m) == \E b \in Nat : b + m <= N /\ b < old /\ old <= b + m
                                        /\ ~Truthful(C, t, old, m, b)
             Bad == {m \in Nat : 1 <= m /\ Wrong(m)}
  <1> SUFFICES ASSUME n \in Bad PROVE FALSE
    OBVIOUS
  <1>1. PICK m \in Bad : \A k \in Bad : m <= k
    BY SmallestNat
  <1>2. m \in Nat /\ 1 <= m /\ Wrong(m)
    BY <1>1
  <1>3. PICK b \in Nat : b + m <= N /\ b < old /\ old <= b + m /\ ~Truthful(C, t, old, m, b)
    BY <1>2
  <1>4. old # b + m
    BY <1>2, <1>3, TruthfulWhole
  <1>5. m > 1
    BY <1>2, <1>3, <1>4
  <1> DEFINE k == lp(m)
  <1>6. /\ k \in Nat /\ 1 <= k /\ k < m /\ m - k \in Nat /\ 1 <= m - k /\ m - k < m
        /\ b + k \in Nat /\ (b + k) + (m - k) = b + m
    <2> HIDE DEF Bad, Wrong
    <2>1. k \in Nat /\ 1 <= k /\ k < m
      BY <1>2, <1>5, SplitFacts DEF lp
    <2> QED  BY <1>2, <1>5, <2>1
  <1>7. N \in Nat
    BY LenProperties
  <1>8. CASE old <= b + k
    <2>1. ~Truthful(C, t, old, k, b)
      BY <1>2, <1>3, <1>5, <1>8, TruthfulLeft
    <2> HIDE DEF k, N
    <2>2. b + k <= N
      BY <1>2, <1>3, <1>6, <1>7
    <2>3. Wrong(k)
      BY <1>3, <1>8, <2>1, <2>2
    <2> HIDE DEF Wrong
    <2> QED  BY <1>1, <1>2, <1>6, <2>3
  <1>9. CASE ~(old <= b + k)
    <2>1. b + k < old /\ old < b + m
      BY <1>2, <1>3, <1>4, <1>6, <1>9
    <2>2. ~Truthful(C, t, old, m - k, b + k)
      BY <1>2, <1>3, <1>5, <2>1, TruthfulRight
    <2> HIDE DEF k, N
    <2>3. Wrong(m - k)
      BY <1>3, <1>6, <2>1, <2>2
    <2> HIDE DEF Wrong
    <2> QED  BY <1>1, <1>2, <1>6, <2>3
  <1> QED  BY <1>8, <1>9

-----------------------------------------------------------------------------
(* Paths that verify.  One level of a climb, whatever the path.            *)
LEMMA ClimbTop ==
  ASSUME NEW s \in Sides, NEW seed, NEW x
  PROVE  /\ Grown(seed, Left(s), x) = node_hash(Grown(seed, s, x), x[Len(s) + 1])
         /\ Grown(seed, Right(s), x) = node_hash(x[Len(s) + 1], Grown(seed, s, x))
         /\ Kept(seed, Left(s), x) = Kept(seed, s, x)
  <1> DEFINE v == x[Len(s) + 1]
  <1>1. climb(seed, Append(s, TRUE), x, TRUE) = ClimbStep(climb(seed, s, x, TRUE), TRUE, v, TRUE)
    BY ClimbUp, Zenon
  <1>2. climb(seed, Append(s, FALSE), x, TRUE) = ClimbStep(climb(seed, s, x, TRUE), FALSE, v, TRUE)
    BY ClimbUp, Zenon
  <1>3. climb(seed, Append(s, TRUE), x, FALSE) = ClimbStep(climb(seed, s, x, FALSE), TRUE, v, FALSE)
    BY ClimbUp, Zenon
  <1> HIDE DEF v
  <1>4. Grown(seed, Left(s), x) = node_hash(Grown(seed, s, x), v)
    BY <1>1, Zenon DEF ClimbStep, Grown, Left
  <1>5. Grown(seed, Right(s), x) = node_hash(v, Grown(seed, s, x))
    BY <1>2, Zenon DEF ClimbStep, Grown, Right
  <1>6. Kept(seed, Left(s), x) = Kept(seed, s, x)
    BY <1>3, Zenon DEF ClimbStep, Kept, Left
  <1> QED  BY <1>4, <1>5, <1>6, Zenon DEF v

LEMMA SidesEnd ==
  ASSUME NEW s \in Sides, s # <<>>
  PROVE  \E p \in Sides : Len(s) = Len(p) + 1 /\ (s = Left(p) \/ s = Right(p))
  <1>1. PICK p \in Seq(BOOLEAN), side \in BOOLEAN : s = Append(p, side)
    BY SequenceEmptyOrAppend DEF Sides
  <1>2. s = Append(p, TRUE) \/ s = Append(p, FALSE)
    BY <1>1, Zenon
  <1>3. s = Left(p) \/ s = Right(p)
    BY <1>2, Zenon DEF Left, Right
  <1>4. Len(s) = Len(p) + 1
    BY <1>1, <1>3, ClimbSides DEF Sides
  <1> QED  BY <1>1, <1>3, <1>4 DEF Sides

(* The tree that has not grown yet is the seed when it is on the left of   *)
(* every split.                                                            *)
LEMMA CompleteKeeps ==
  ASSUME NEW n \in Nat, NEW m \in Nat, descent[n][m].complete, NEW seed, NEW x
  PROVE  Kept(seed, descent[n][m].sides, x) = seed
  <1> DEFINE Wrong(k) == \E i \in Nat : descent[k][i].complete
                                        /\ Kept(seed, descent[k][i].sides, x) # seed
             Bad == {k \in Nat : Wrong(k)}
  <1> SUFFICES ASSUME n \in Bad PROVE FALSE
    OBVIOUS
  <1>1. PICK k \in Bad : \A j \in Bad : k <= j
    BY SmallestNat
  <1>2. k \in Nat /\ Wrong(k)
    BY <1>1
  <1>3. PICK i \in Nat : descent[k][i].complete /\ Kept(seed, descent[k][i].sides, x) # seed
    BY <1>2
  <1>4. Kept(seed, <<>>, x) = seed
    BY ClimbNone DEF Kept
  <1> HIDE DEF Bad, Wrong
  <1>5. k > 1 /\ i # k
    BY <1>2, <1>3, <1>4, DescentAt
  <1> DEFINE p == lp(k)
  <1>6. p \in Nat /\ p < k
    BY <1>2, <1>5, SplitFacts DEF lp
  <1>7. i <= p /\ descent[p][i].complete /\ descent[k][i].sides = Left(descent[p][i].sides)
    BY <1>2, <1>3, <1>5, DescentAt
  <1> HIDE DEF p
  <1>8. descent[p][i].sides \in Sides
    BY <1>6, DescentAt
  <1>9. Kept(seed, descent[p][i].sides, x) # seed
    BY <1>3, <1>7, <1>8, ClimbTop
  <1>10. p \in Bad
    BY <1>6, <1>7, <1>9 DEF Bad, Wrong
  <1> QED  BY <1>1, <1>2, <1>6, <1>10

(* Whatever sides are taken, a path that ends in the root of a tree is a   *)
(* path of that tree: no leaf is a node.                                   *)
LEMMA PathInside ==
  ASSUME NEW S, NEW t \in Seq(S), \A l \in S : \E e : l = leaf_hash(e), t # <<>>,
         NEW s \in Sides, NEW seed, NEW x, Grown(seed, s, x) = root_of(t)
  PROVE  seed \in Hashes(t) /\ \A k \in 1..Len(s) : x[k] \in Hashes(t)
  <1> DEFINE Out(p) == ~(seed \in Hashes(t) /\ \A k \in 1..Len(p) : x[k] \in Hashes(t))
             Reached(p) == \E a, n \in Nat : 1 <= n /\ a + n <= Len(t)
                                             /\ Grown(seed, p, x) = RootIn(t, a, n)
             Wrong(j) == \E p \in Sides : Len(p) = j /\ Reached(p) /\ Out(p)
             Bad == {j \in Nat : Wrong(j)}
  <1>0. Len(t) \in Nat /\ 1 <= Len(t) /\ Len(s) \in Nat
    BY LenProperties, EmptySeq DEF Sides
  <1>1. Reached(s)
    <2>1. root_of(t) = RootIn(t, 0, Len(t)) /\ 0 + Len(t) <= Len(t) /\ 0 \in Nat
      BY <1>0, RootWhole
    <2> QED  BY <1>0, <2>1
  <1> SUFFICES ASSUME Len(s) \in Bad PROVE FALSE
    BY <1>0, <1>1
  <1>2. PICK j \in Bad : \A i \in Bad : j <= i
    BY SmallestNat
  <1>3. j \in Nat /\ Wrong(j)
    BY <1>2
  <1>4. PICK p \in Sides : Len(p) = j /\ Reached(p) /\ Out(p)
    BY <1>3
  <1> HIDE DEF Bad, Wrong
  <1>5. PICK a \in Nat, n \in Nat : 1 <= n /\ a + n <= Len(t) /\ Grown(seed, p, x) = RootIn(t, a, n)
    BY <1>4
  <1>6. p # <<>>
    <2> SUFFICES ASSUME p = <<>> PROVE FALSE
      OBVIOUS
    <2>1. Grown(seed, <<>>, x) = seed
      BY ClimbNone DEF Grown
    <2>2. seed \in Hashes(t)
      BY <1>5, <2>1, RootInHashes
    <2>3. Len(p) = 0
      OBVIOUS
    <2> QED  BY <1>4, <2>2, <2>3
  <1>7. PICK q \in Sides : Len(p) = Len(q) + 1 /\ (p = Left(q) \/ p = Right(q))
    BY <1>6, SidesEnd
  <1> DEFINE h == Grown(seed, q, x)
             v == x[Len(q) + 1]
  <1>8. RootIn(t, a, n) = node_hash(h, v) \/ RootIn(t, a, n) = node_hash(v, h)
    BY <1>5, <1>7, ClimbTop
  <1>9. n > 1
    <2> SUFFICES ASSUME n = 1 PROVE FALSE
      BY <1>5
    <2>1. RootIn(t, a, n) = t[a + 1] /\ a + 1 \in 1..Len(t)
      BY <1>0, <1>5, RootSplits
    <2>2. PICK e : t[a + 1] = leaf_hash(e)
      BY <2>1, ElementOfSeq
    <2> QED  BY <1>8, <2>1, <2>2 DEF leaf_hash, node_hash
  <1> DEFINE k == lp(n)
             l == RootIn(t, a, k)
             r == RootIn(t, a + k, n - k)
  <1>10. /\ k \in Nat /\ 1 <= k /\ a + k <= Len(t) /\ a + k \in Nat /\ n - k \in Nat
         /\ 1 <= n - k /\ a + k + (n - k) <= Len(t)
    <2>1. k \in Nat /\ 1 <= k /\ k < n
      BY <1>9, SplitFacts DEF lp
    <2> QED  BY <1>0, <1>5, <2>1
  <1>11. RootIn(t, a, n) = node_hash(l, r)
    BY <1>5, <1>9, RootSplits
  <1>12. l \in Hashes(t) /\ r \in Hashes(t)
    BY <1>10, RootInHashes
  <1>13. h \in {l, r} /\ v \in {l, r}
    <2> HIDE DEF h, v, l, r
    <2> QED  BY <1>8, <1>11 DEF node_hash
  <1>14. Reached(q)
    BY <1>10, <1>13
  <1>15. Len(q) \in Nat
    BY LenProperties DEF Sides
  <1>16. Len(q) \notin Bad
    BY <1>2, <1>3, <1>4, <1>7, <1>15
  <1>17. ~Out(q)
    <2> HIDE DEF Reached, Out
    <2> QED  BY <1>14, <1>15, <1>16 DEF Bad, Wrong
  <1>18. v \in Hashes(t)
    BY <1>12, <1>13
  <1> HIDE DEF h
  <1>19. \A i \in 1..Len(p) : x[i] \in Hashes(t)
    BY <1>7, <1>15, <1>17, <1>18
  <1> QED  BY <1>4, <1>17, <1>19

-----------------------------------------------------------------------------
(* The universe.  Sizes run up to the longest log.                         *)
LEMMA SizesFacts ==
  /\ Max(Sizes) \in Nat /\ Sizes = 1..Max(Sizes)
  /\ \A o \in Origins : Len(Entries[o]) <= Max(Sizes)
  <1> DEFINE lengths == {Len(Entries[o]) : o \in Origins}
             f == [o \in Origins |-> Len(Entries[o])]
  <1>1. lengths \in SUBSET (Nat \ {0}) /\ lengths # {}
    BY BoundAssumption
  <1>2. f \in Surjection(Origins, lengths)
    BY DEF Surjection
  <1>3. IsFiniteSet(lengths)
    BY <1>2, BoundAssumption, FS_Surjection
  <1>4. PICK b \in Nat : \A n \in lengths : n <= b
    BY <1>1, <1>3, FiniteIsBounded
  <1>5. \E n \in lengths : \A m \in lengths : m <= n
    BY <1>1, <1>4, GreatestNat
  <1>6. \A o \in Origins : Len(Entries[o]) \in lengths
    OBVIOUS
  <1>7. Sizes = 1..Max(lengths)
    BY DEF Sizes
  <1> HIDE DEF lengths
  <1>8. Max(lengths) \in lengths /\ \A m \in lengths : m <= Max(lengths)
    BY <1>1, <1>5 DEF Max
  <1> DEFINE M == Max(lengths)
  <1>9. M \in Nat \ {0}
    BY <1>1, <1>8
  <1> HIDE DEF M
  <1>10. M \in 1..M /\ \A m \in 1..M : M >= m
    BY <1>9
  <1>11. \A x \in 1..M : (\A y \in 1..M : x >= y) => x = M
    BY <1>9, <1>10
  <1>12. Max(1..M) = M
    BY <1>10, <1>11 DEF Max
  <1>13. Sizes = 1..M
    BY <1>7 DEF M
  <1> QED  BY <1>6, <1>8, <1>9, <1>12, <1>13 DEF M

(* What the variables hold: each log is a sequence of leaves it may have.  *)
IsLogOf(o, t) ==
  /\ t \in Seq(Leaves) /\ Len(t) <= Len(Entries[o])
  /\ \A i \in 1..Len(t) : t[i] \in {leaf_hash(e) : e \in Entries[o][i]}

LEMMA LogIsTree ==
  ASSUME NEW o \in Origins, NEW t, IsLogOf(o, t), t # <<>>
  PROVE  t \in Trees /\ root_of(t) \in Roots
  <1>1. t \in Seq(Leaves) /\ Len(t) \in Nat /\ DOMAIN t = 1..Len(t) /\ Len(t) <= Max(Sizes)
    BY SizesFacts, BoundAssumption, LenProperties DEF IsLogOf
  <1>2. t \in [1..Len(t) -> Leaves] /\ Len(t) \in 0..Max(Sizes)
    BY <1>1, SizesFacts
  <1>3. t \in SeqOf(Leaves, Max(Sizes))
    BY <1>2 DEF SeqOf
  <1>4. t \in Trees
    BY <1>1, <1>3 DEF Trees, IsLogOf
  <1>5. Roots = {root_of(u) : u \in Trees}
    BY DEF Roots, TreeOf
  <1> QED  BY <1>4, <1>5

LogInv == \A o \in Origins : IsLogOf(o, log[o])

(* What the operator can sign is a text over a root of a tree.             *)
LEMMA SignableIsText ==
  ASSUME LogInv, NEW text \in Signable
  PROVE  text \in Texts /\ HeadOf(text) \in Heads
  <1>1. PICK o \in Origins :
          text \in [origin : {o}, size : 1..Len(Entries[o]),
                    root : {root_at(log[o], n) : n \in 1..Len(log[o])}]
    BY DEF Signable
  <1>2. PICK n \in 1..Len(log[o]) : text.root = root_at(log[o], n)
    BY <1>1
  <1> DEFINE s == log[o]
             t == SubSeq(s, 1, n)
  <1>3. IsLogOf(o, s)
    BY DEF LogInv
  <1>4. s \in Seq(Leaves) /\ Len(s) \in Nat /\ n \in Nat /\ 1 <= n /\ n <= Len(s)
    BY <1>3, LenProperties DEF IsLogOf
  <1> HIDE DEF s
  <1>5. t \in Seq(Leaves) /\ Len(t) = n /\ \A i \in 1..n : t[i] = s[i]
    BY <1>4, SubSeqProperties
  <1>6. IsLogOf(o, t)
    <2>1. Len(t) <= Len(Entries[o])
      BY <1>3, <1>4, <1>5, BoundAssumption DEF IsLogOf
    <2>2. \A i \in 1..Len(t) : t[i] \in {leaf_hash(e) : e \in Entries[o][i]}
      BY <1>3, <1>4, <1>5 DEF IsLogOf
    <2> QED  BY <1>5, <2>1, <2>2 DEF IsLogOf
  <1>7. t # <<>>
    BY <1>4, <1>5, EmptySeq
  <1>8. root_of(t) \in Roots
    BY <1>6, <1>7, LogIsTree
  <1>9. text.root \in Roots
    BY <1>2, <1>8 DEF root_at, s
  <1>10. text.size \in Sizes /\ text.origin \in Origins
    <2>1. text.size \in 1..Len(Entries[o]) /\ text.origin = o
      BY <1>1
    <2> QED  BY <2>1, SizesFacts, BoundAssumption
  <1>11. text = [origin |-> text.origin, size |-> text.size, root |-> text.root]
    BY <1>1
  <1> QED  BY <1>9, <1>10, <1>11 DEF Texts, HeadOf, Heads

LEMMA LogStep ==
  ASSUME LogInv, DOMAIN log = Origins, [Next]_vars
  PROVE  LogInv' /\ DOMAIN log' = Origins
  <1>1. ASSUME NEW o \in Origins, NEW e, Extend(o, e)
        PROVE  LogInv' /\ DOMAIN log' = Origins
    <2> DEFINE s == log[o]
               l == leaf_hash(e)
    <2>1. /\ Len(s) < Len(Entries[o]) /\ e \in Entries[o][Len(s) + 1]
          /\ log' = [log EXCEPT ![o] = Append(s, l)]
      BY <1>1 DEF Extend, append
    <2>2. IsLogOf(o, s)
      BY DEF LogInv
    <2>3. s \in Seq(Leaves) /\ Len(s) \in Nat /\ Len(s) + 1 \in 1..Len(Entries[o])
      BY <2>1, <2>2, LenProperties, BoundAssumption DEF IsLogOf
    <2>4. l \in Leaves
      BY <2>1, <2>3, BoundAssumption DEF Leaves, Range
    <2> HIDE DEF s, l
    <2>5. /\ Append(s, l) \in Seq(Leaves) /\ Len(Append(s, l)) = Len(s) + 1
          /\ \A i \in 1..Len(s) : Append(s, l)[i] = s[i]
          /\ Append(s, l)[Len(s) + 1] = l
      BY <2>3, <2>4, AppendProperties
    <2>6. IsLogOf(o, Append(s, l))
      <3>1. \A i \in 1..(Len(s) + 1) : Append(s, l)[i] \in {leaf_hash(x) : x \in Entries[o][i]}
        BY <2>1, <2>2, <2>3, <2>5 DEF IsLogOf, l
      <3> QED  BY <2>3, <2>5, <3>1 DEF IsLogOf
    <2>7. \A p \in Origins : log'[p] = IF p = o THEN Append(s, l) ELSE log[p]
      BY <2>1
    <2> QED  BY <2>1, <2>6, <2>7 DEF LogInv
  <1>2. ASSUME NEW o \in Origins, NEW n \in 0..(Len(log[o]) - 1), Rewind(o, n)
        PROVE  LogInv' /\ DOMAIN log' = Origins
    <2> DEFINE s == log[o]
               t == SubSeq(s, 1, n)
    <2>1. log' = [log EXCEPT ![o] = t]
      BY <1>2 DEF Rewind
    <2>2. IsLogOf(o, s)
      BY DEF LogInv
    <2>3. s \in Seq(Leaves) /\ Len(s) \in Nat
      BY <2>2, LenProperties DEF IsLogOf
    <2>4. n \in Nat /\ n < Len(s)
      BY <2>3
    <2> HIDE DEF s
    <2>5. t \in Seq(Leaves) /\ Len(t) = n /\ \A i \in 1..n : t[i] = s[i]
      BY <2>3, <2>4, SubSeqProperties
    <2>6. IsLogOf(o, t)
      <3>1. Len(t) <= Len(Entries[o])
        BY <2>2, <2>3, <2>4, <2>5, BoundAssumption DEF IsLogOf
      <3>2. \A i \in 1..Len(t) : t[i] \in {leaf_hash(e) : e \in Entries[o][i]}
        BY <2>2, <2>3, <2>4, <2>5 DEF IsLogOf
      <3> QED  BY <2>5, <3>1, <3>2 DEF IsLogOf
    <2> HIDE DEF t
    <2>7. \A p \in Origins : log'[p] = IF p = o THEN t ELSE log[p]
      BY <2>1
    <2> QED  BY <2>1, <2>6, <2>7 DEF LogInv
  <1>3. ASSUME UNCHANGED log PROVE LogInv' /\ DOMAIN log' = Origins
    BY <1>3 DEF LogInv
  <1>4. \/ \E o \in Origins : \E e : Extend(o, e)
        \/ \E o \in Origins : \E n \in 0..(Len(log[o]) - 1) : Rewind(o, n)
        \/ UNCHANGED log
    BY DEF Next, Cosign, Accept, Show, vars
  <1> QED  BY <1>1, <1>2, <1>3, <1>4

-----------------------------------------------------------------------------
(* The texts of one honest witness.                                        *)

LinkedTexts(t, u) == t.size <= u.size => Linked(t.size, t.root, u.size, u.root)

(* A verified step never goes back, and its roots are linked.              *)
LEMMA FollowsFacts ==
  /\ \A f, g : <<f, g>> \in Follows =>
       f \in Heads /\ g \in Heads /\ f.size <= g.size /\ Linked(f.size, f.root, g.size, g.root)
  /\ \A f \in Heads : <<f, f>> \in Follows
  <1>1. ASSUME NEW f, NEW g, <<f, g>> \in Follows
        PROVE  /\ f \in Heads /\ g \in Heads /\ f.size <= g.size
               /\ Linked(f.size, f.root, g.size, g.root)
    <2> DEFINE hg == <<f, g>>
    <2>1. f \in Heads /\ g \in Heads
      BY <1>1 DEF Follows
    <2>2. PICK path : verify_consistency([first |-> f.size, second |-> g.size, path |-> path],
                                         f.root, g.root)
      BY <1>1 DEF Follows
    <2> DEFINE proof == [first |-> f.size, second |-> g.size, path |-> path]
    <2>3. proof.first = f.size /\ proof.second = g.size
      OBVIOUS
    <2> HIDE DEF proof
    <2>4. f.size <= g.size
      BY <2>2, <2>3 DEF verify_consistency, proof
    <2>5. CASE f.size = g.size
      <3>1. f.root = g.root
        BY <2>2, <2>3, <2>5 DEF verify_consistency, proof
      <3>2. g.size \in Nat
        BY <2>1, SizesFacts DEF Heads, TreeHead
      <3> QED  BY <2>1, <2>4, <2>5, <3>1, <3>2, LinkedSame
    <2>6. CASE f.size # g.size
      <3> DEFINE d == descent[g.size][f.size]
                 seed == IF d.complete THEN f.root ELSE proof.path[1]
                 rest == IF d.complete THEN proof.path ELSE Tail(proof.path)
      <3>1. /\ climb(seed, d.sides, rest, FALSE) = f.root
            /\ climb(seed, d.sides, rest, TRUE) = g.root
        BY <2>2, <2>3, <2>6 DEF verify_consistency, proof
      <3> HIDE DEF seed, rest
      <3>2. Linked(f.size, f.root, g.size, g.root)
        BY <3>1 DEF Linked
      <3> QED  BY <2>1, <2>4, <3>2
    <2> QED  BY <2>5, <2>6
  <1>2. ASSUME NEW f \in Heads
        PROVE  <<f, f>> \in Follows
    <2>1. f.size \in Sizes
      BY DEF Heads, TreeHead
    <2>2. f.size # 0 /\ f.size <= f.size
      BY <2>1, SizesFacts
    <2>3. <<>> \in PathsBelow(f.root)
      <3>1. <<>> \in [1..0 -> Below(f.root)] /\ 0 \in 0..MAX_PROOF_LEN
        BY ProofBound
      <3> QED  BY <3>1 DEF PathsBelow, SeqOf
    <2> DEFINE proof == [first |-> f.size, second |-> f.size, path |-> <<>>]
    <2>4. proof.first = f.size /\ proof.second = f.size /\ proof.path = <<>> /\ Len(<<>>) = 0
      OBVIOUS
    <2> HIDE DEF proof
    <2>5. verify_consistency(proof, f.root, f.root)
      BY <2>2, <2>4, ProofBound DEF verify_consistency
    <2> QED  BY <2>3, <2>5 DEF Follows, proof
  <1> QED  BY <1>1, <1>2

(* Texts and the heads in them.                                            *)
LEMMA TextFacts ==
  ASSUME NEW t \in Texts
  PROVE  /\ HeadOf(t) \in Heads /\ HeadOf(t).size = t.size /\ HeadOf(t).root = t.root
         /\ t.size \in Nat /\ t.size <= Max(Sizes)
  <1>1. t.size \in Sizes /\ t.root \in Roots
    BY DEF Texts
  <1>2. HeadOf(t) \in Heads
    BY <1>1 DEF Heads, HeadOf
  <1>3. HeadOf(t).size = t.size /\ HeadOf(t).root = t.root
    BY DEF HeadOf, TreeHead
  <1> QED  BY <1>1, <1>2, <1>3, SizesFacts

CosignedInv ==
  /\ DOMAIN cosigned = Honest
  /\ \A w \in Honest :
       /\ cosigned[w] \subseteq Texts
       /\ \A t, u \in cosigned[w] : t.origin = u.origin => LinkedTexts(t, u)

(* A witness that has cosigned for an origin has a last text of it, and no *)
(* other is larger.                                                        *)
LEMMA LatestFacts ==
  ASSUME CosignedInv, NEW w \in Honest, NEW t \in cosigned[w]
  PROVE  \E u \in Latest(w, t.origin) :
           u \in cosigned[w] /\ u.origin = t.origin /\ t.size <= u.size
  <1> DEFINE mine == {u \in cosigned[w] : u.origin = t.origin}
             sizes == {u.size : u \in mine}
  <1>1. mine \subseteq Texts /\ t \in mine
    BY DEF CosignedInv
  <1>2. sizes \in SUBSET Nat /\ sizes # {} /\ \A n \in sizes : n <= Max(Sizes)
    BY <1>1, TextFacts
  <1>3. PICK n \in sizes : \A m \in sizes : m <= n
    BY <1>2, SizesFacts, GreatestNat
  <1>4. PICK u \in mine : u.size = n
    BY <1>3
  <1>5. \A v \in mine : v.size <= u.size
    BY <1>3, <1>4
  <1>6. u \in Latest(w, t.origin)
    BY <1>4, <1>5 DEF Latest
  <1> QED  BY <1>1, <1>4, <1>5, <1>6

(* What a text that is cosigned next has to do with those before it.       *)
LEMMA CosignLinks ==
  ASSUME LogInv, CosignedInv, NEW w \in Honest, NEW text \in Signable, Cosign(w, text),
         NEW t \in cosigned[w], t.origin = text.origin
  PROVE  LinkedTexts(t, text) /\ LinkedTexts(text, t)
  <1>1. PICK u \in Latest(w, t.origin) :
          u \in cosigned[w] /\ u.origin = t.origin /\ t.size <= u.size
    BY LatestFacts
  <1>2. <<HeadOf(u), HeadOf(text)>> \in Follows
    BY <1>1 DEF Cosign
  <1>3. t \in Texts /\ u \in Texts /\ text \in Texts
    BY <1>1, SignableIsText DEF CosignedInv
  <1>4. u.size <= text.size /\ Linked(u.size, u.root, text.size, text.root)
    BY <1>2, <1>3, TextFacts, FollowsFacts
  <1>5. t.size \in Nat /\ u.size \in Nat /\ text.size \in Nat
    BY <1>3, TextFacts
  <1>6. Linked(t.size, t.root, u.size, u.root)
    BY <1>1 DEF CosignedInv, LinkedTexts
  <1>7. Linked(t.size, t.root, text.size, text.root)
    BY <1>1, <1>4, <1>5, <1>6, LinkedComposes
  <1>8. ASSUME text.size <= t.size PROVE text.size = t.size /\ text.root = t.root
    <2>1. text.size = t.size
      BY <1>1, <1>4, <1>5, <1>8
    <2> QED  BY <1>5, <1>7, <2>1, LinkedSame
  <1>9. LinkedTexts(t, text)
    BY <1>7 DEF LinkedTexts
  <1>10. LinkedTexts(text, t)
    BY <1>5, <1>8, LinkedSame DEF LinkedTexts
  <1> QED  BY <1>9, <1>10

LEMMA CosignStep ==
  ASSUME LogInv, CosignedInv, NEW w \in Honest, NEW text \in Signable, Cosign(w, text)
  PROVE  CosignedInv'
  <1>1. /\ DOMAIN cosigned' = Honest
        /\ \A v \in Honest : cosigned'[v] = IF v = w THEN cosigned[w] \cup {text} ELSE cosigned[v]
    BY DEF Cosign, CosignedInv
  <1>2. text \in Texts /\ HeadOf(text) \in Heads
    BY SignableIsText
  <1>3. ASSUME NEW v \in Honest, NEW t \in cosigned'[v], NEW u \in cosigned'[v],
               t.origin = u.origin
        PROVE  LinkedTexts(t, u)
    <2>1. CASE t \in cosigned[v] /\ u \in cosigned[v]
      BY <1>3, <2>1 DEF CosignedInv
    <2>2. CASE v = w /\ t = text /\ u = text
      <3>1. text.size \in Nat
        BY <1>2, TextFacts
      <3> QED  BY <2>2, <3>1, LinkedSame DEF LinkedTexts
    <2>3. CASE v = w /\ t \in cosigned[w] /\ u = text
      BY <1>3, <2>3, CosignLinks
    <2>4. CASE v = w /\ t = text /\ u \in cosigned[w]
      BY <1>3, <2>4, CosignLinks
    <2> QED  BY <1>1, <2>1, <2>2, <2>3, <2>4
  <1>4. \A v \in Honest : cosigned'[v] \subseteq Texts
    BY <1>1, <1>2 DEF CosignedInv
  <1> QED  BY <1>1, <1>3, <1>4 DEF CosignedInv

-----------------------------------------------------------------------------
(* The count of verify_witnessed.  Each one that is counted is a key of    *)
(* its own, other than the log's, whose signature verified.                *)

Voters == WitnessKeys \ {LogKey}

(* What the count has found when it has seen the first i of the list.      *)
Found(note, i, state, keys) ==
  /\ IsFiniteSet(keys) /\ keys \subseteq Voters
  /\ state.cosigned = Cardinality(keys)
  /\ <<Origin, key_id(Origin, LogKey)>> \in state.counted
  /\ \A k \in keys : \E j \in 1..i :
       /\ Witnesses[j].key = k
       /\ signed_by(note, Witnesses[j].name, k) = "yes"
       /\ <<Witnesses[j].name, key_id(Witnesses[j].name, k)>> \in state.counted

First == [failed |-> FALSE, cosigned |-> 0, counted |-> {<<Origin, key_id(Origin, LogKey)>>}]

LEMMA FoundFirst ==
  ASSUME NEW note PROVE Found(note, 0, First, {}) /\ ~First.failed
  <1>1. ~First.failed /\ First.cosigned = 0 /\ <<Origin, key_id(Origin, LogKey)>> \in First.counted
    BY DEF First
  <1> QED  BY <1>1, FS_EmptySet DEF Found

LEMMA FoundNext ==
  ASSUME NEW note, NEW i \in 1..Len(Witnesses), NEW state, NEW keys,
         Found(note, i - 1, state, keys), ~state.failed,
         ~count_witness(note, state, Witnesses[i]).failed
  PROVE  \E more : Found(note, i, count_witness(note, state, Witnesses[i]), more)
  <1> DEFINE w == Witnesses[i]
             id == <<w.name, key_id(w.name, w.key)>>
             by == signed_by(note, w.name, w.key)
             next == count_witness(note, state, w)
  <1>0. i \in Nat /\ i - 1 \in Nat /\ 1..(i - 1) \subseteq 1..i /\ i \in 1..i
        /\ i \in DOMAIN Witnesses /\ \A j \in 1..(i - 1) : j \in DOMAIN Witnesses
    BY BoundAssumption
  <1>1. CASE \E c \in state.counted : c[1] = w.name \/ c[2] = key_id(w.name, w.key)
    <2>1. next = state
      BY <1>1 DEF count_witness
    <2>2. Found(note, i, state, keys)
      BY <1>0 DEF Found
    <2> QED  BY <2>1, <2>2
  <1>2. CASE ~\E c \in state.counted : c[1] = w.name \/ c[2] = key_id(w.name, w.key)
    <2>1. next = [failed |-> by = "error",
                  cosigned |-> state.cosigned + (IF by = "yes" THEN 1 ELSE 0),
                  counted |-> state.counted \cup (IF by = "yes" THEN {id} ELSE {})]
      BY <1>2 DEF count_witness
    <2>2. state.cosigned \in Nat
      BY FS_CardinalityType DEF Found
    <2>3. CASE by # "yes"
      <3>1. next.cosigned = state.cosigned /\ next.counted = state.counted
        BY <2>1, <2>2, <2>3
      <3>2. Found(note, i, next, keys)
        BY <1>0, <3>1 DEF Found
      <3> QED  BY <3>2
    <2>4. CASE by = "yes"
      <3>1. next.cosigned = state.cosigned + 1 /\ next.counted = state.counted \cup {id}
        BY <2>1, <2>4
      <3>2. w.name # Origin
        BY <1>2 DEF Found
      <3>3. w.key # LogKey /\ w.key \in Voters
        BY <1>0, <3>2, QuorumAssumption DEF Voters, WitnessKeys
      <3>4. w.key \notin keys
        <4>1. ASSUME w.key \in keys PROVE FALSE
          <5>1. PICK j \in 1..(i - 1) :
                  /\ Witnesses[j].key = w.key
                  /\ <<Witnesses[j].name, key_id(Witnesses[j].name, w.key)>> \in state.counted
            BY <4>1 DEF Found
          <5>2. Witnesses[j].name = w.name
            BY <1>0, <5>1, QuorumAssumption
          <5> QED  BY <1>2, <5>1, <5>2
        <4> QED  BY <4>1
      <3> DEFINE more == keys \cup {w.key}
      <3>5. IsFiniteSet(more) /\ Cardinality(more) = Cardinality(keys) + 1
        BY <3>4, FS_AddElement DEF Found
      <3>6. \A k \in more : \E j \in 1..i :
              /\ Witnesses[j].key = k
              /\ signed_by(note, Witnesses[j].name, k) = "yes"
              /\ <<Witnesses[j].name, key_id(Witnesses[j].name, k)>> \in next.counted
        <4>1. ASSUME NEW k \in keys
              PROVE  \E j \in 1..i :
                       /\ Witnesses[j].key = k
                       /\ signed_by(note, Witnesses[j].name, k) = "yes"
                       /\ <<Witnesses[j].name, key_id(Witnesses[j].name, k)>> \in next.counted
          BY <1>0, <3>1 DEF Found
        <4>2. /\ Witnesses[i].key = w.key
              /\ signed_by(note, Witnesses[i].name, w.key) = "yes"
              /\ <<Witnesses[i].name, key_id(Witnesses[i].name, w.key)>> \in next.counted
          BY <2>4, <3>1
        <4> QED  BY <1>0, <4>1, <4>2
      <3>7. <<Origin, key_id(Origin, LogKey)>> \in next.counted /\ more \subseteq Voters
        BY <3>1, <3>3 DEF Found
      <3> HIDE DEF next, more
      <3>8. Found(note, i, next, more)
        BY <3>1, <3>5, <3>6, <3>7 DEF Found
      <3> QED  BY <3>8 DEF next
    <2> QED  BY <2>3, <2>4
  <1> QED  BY <1>1, <1>2

(* The recursive function of count exists, so it is what its text says.    *)
CountStep(note, C, n) ==
  [i \in 0..n |-> IF i = 0 THEN First ELSE count_witness(note, C[i - 1], Witnesses[i])]

LEMMA CountExists ==
  ASSUME NEW note, NEW n \in Nat
  PROVE  \E C : C = CountStep(note, C, n)
  <1> DEFINE Bad == {m \in Nat : ~\E C : C = CountStep(note, C, m)}
  <1> SUFFICES ASSUME n \in Bad PROVE FALSE
    OBVIOUS
  <1>1. PICK m \in Bad : \A k \in Bad : m <= k
    BY SmallestNat
  <1>2. m # 0
    <2> DEFINE C == [i \in 0..0 |-> First]
    <2>1. C = CountStep(note, C, 0)
      BY DEF CountStep
    <2> HIDE DEF C
    <2> QED  BY <1>1, <2>1
  <1>3. m \in Nat /\ m - 1 \in Nat /\ m - 1 \notin Bad
    BY <1>1, <1>2
  <1>4. PICK C : C = CountStep(note, C, m - 1)
    BY <1>3
  <1> DEFINE D == [i \in 0..m |-> IF i = m THEN count_witness(note, C[m - 1], Witnesses[m])
                                           ELSE C[i]]
  <1>5. \A i \in 0..(m - 1) : D[i] = C[i]
    BY <1>3
  <1>6. ASSUME NEW i \in 0..m
        PROVE  D[i] = IF i = 0 THEN First ELSE count_witness(note, D[i - 1], Witnesses[i])
    <2>1. CASE i = m
      BY <1>2, <1>3, <1>5, <2>1
    <2>2. CASE i # m /\ i # 0
      <3>1. i \in 0..(m - 1) /\ i - 1 \in 0..(m - 1)
        BY <1>3, <2>2
      <3>2. C[i] = count_witness(note, C[i - 1], Witnesses[i])
        BY <1>4, <2>2, <3>1 DEF CountStep
      <3> HIDE DEF D
      <3> QED  BY <1>5, <2>2, <3>1, <3>2
    <2>3. CASE i # m /\ i = 0
      <3>1. i \in 0..(m - 1)
        BY <1>3, <2>3
      <3>2. C[i] = First
        BY <1>4, <2>3, <3>1 DEF CountStep
      <3> HIDE DEF D
      <3> QED  BY <1>5, <2>3, <3>1, <3>2
    <2> QED  BY <2>1, <2>2, <2>3
  <1>7. D = [i \in 0..m |-> D[i]]
    OBVIOUS
  <1> HIDE DEF D
  <1>8. D = CountStep(note, D, m)
    BY <1>6, <1>7 DEF CountStep
  <1> QED  BY <1>1, <1>8

LEMMA CountFacts ==
  ASSUME NEW note
  PROVE  /\ count(note)[0] = First
         /\ \A i \in 1..Len(Witnesses) :
              count(note)[i] = count_witness(note, count(note)[i - 1], Witnesses[i])
  <1> DEFINE N == Len(Witnesses)
  <1>1. N \in Nat
    BY BoundAssumption
  <1>2. count(note) = CHOOSE C : C = CountStep(note, C, N)
    BY DEF count, CountStep, First
  <1>3. \E C : C = CountStep(note, C, N)
    BY <1>1, CountExists
  <1>4. count(note) = CountStep(note, count(note), N)
    BY <1>2, <1>3
  <1> HIDE DEF N
  <1> DEFINE C == count(note)
  <1>5. C = CountStep(note, C, N)
    BY <1>4
  <1> HIDE DEF C
  <1>6. \A i \in 0..N : C[i] = IF i = 0 THEN First ELSE count_witness(note, C[i - 1], Witnesses[i])
    BY <1>5 DEF CountStep
  <1>7. 0 \in 0..N /\ \A i \in 1..N : i \in 0..N /\ i # 0
    BY <1>1
  <1>8. C[0] = First /\ \A i \in 1..N : C[i] = count_witness(note, C[i - 1], Witnesses[i])
    BY <1>6, <1>7
  <1> QED  BY <1>8 DEF C, N

(* What a count that did not fail has found in the end.                    *)
LEMMA CountFinds ==
  ASSUME NEW note, ~count(note)[Len(Witnesses)].failed
  PROVE  \E keys : Found(note, Len(Witnesses), count(note)[Len(Witnesses)], keys)
  <1> DEFINE N == Len(Witnesses)
             C == count(note)
             Good(i) == ~C[i].failed => \E keys : Found(note, i, C[i], keys)
             Bad == {i \in 0..N : ~Good(i)}
  <1>1. /\ N \in Nat
        /\ C[0] = First
        /\ \A i \in 1..N : C[i] = count_witness(note, C[i - 1], Witnesses[i])
    BY BoundAssumption, CountFacts
  <1> HIDE DEF C
  <1> SUFFICES ASSUME N \in Bad PROVE FALSE
    BY <1>1 DEF C
  <1>2. PICK i \in Bad : \A j \in Bad : i <= j
    <2>1. Bad \in SUBSET Nat /\ Bad # {}
      BY <1>1
    <2> QED  BY <2>1, SmallestNat
  <1>3. i # 0
    BY <1>1, <1>2, FoundFirst
  <1>4. i \in 1..N /\ i - 1 \in 0..N /\ i - 1 \notin Bad /\ i \in Nat
    BY <1>1, <1>2, <1>3
  <1>5. Good(i - 1)
    BY <1>4
  <1>6. ~C[i].failed /\ ~\E keys : Found(note, i, C[i], keys)
    BY <1>2
  <1>7. C[i] = count_witness(note, C[i - 1], Witnesses[i])
    BY <1>1, <1>4
  <1>8. ~C[i - 1].failed
    <2>1. C[i - 1].failed => C[i] = C[i - 1]
      BY <1>7 DEF count_witness
    <2> QED  BY <1>6, <2>1
  <1>9. PICK keys : Found(note, i - 1, C[i - 1], keys)
    BY <1>5, <1>8
  <1>10. \E more : Found(note, i, count_witness(note, C[i - 1], Witnesses[i]), more)
    BY <1>4, <1>6, <1>7, <1>8, <1>9, FoundNext
  <1> QED  BY <1>6, <1>7, <1>10

-----------------------------------------------------------------------------
(* Quorums.  The keys that may stand behind a text: the honest ones only   *)
(* if they cosigned it.                                                    *)
Vouching(text) == {k \in Voters : k \in Honest => text \in cosigned[k]}

Dishonest == WitnessKeys \ (Honest \cup {LogKey})

LEMMA VotersFacts ==
  /\ IsFiniteSet(Voters) /\ IsFiniteSet(WitnessNames) /\ IsFiniteSet(Dishonest)
  /\ Cardinality(Voters) <= Cardinality(WitnessNames)
  <1> DEFINE I == 1..Len(Witnesses)
             keyAt == [i \in I |-> Witnesses[i].key]
             all == {Witnesses[i].name : i \in DOMAIN Witnesses}
             nameAt == [i \in I |-> Witnesses[i].name]
             f == [k \in Voters |-> Witnesses[NameOf(k)].name]
  <1>1. DOMAIN Witnesses = I /\ IsFiniteSet(I)
    BY BoundAssumption, FS_Interval
  <1>2. keyAt \in Surjection(I, WitnessKeys)
    BY <1>1 DEF Surjection, WitnessKeys
  <1>3. nameAt \in Surjection(I, all)
    BY <1>1 DEF Surjection
  <1>4. IsFiniteSet(WitnessKeys)
    BY <1>1, <1>2, FS_Surjection
  <1>5. IsFiniteSet(all)
    BY <1>1, <1>3, FS_Surjection
  <1>6. Voters \in SUBSET WitnessKeys /\ Dishonest \in SUBSET WitnessKeys
    BY DEF Voters, Dishonest
  <1>7. WitnessNames \in SUBSET all
    BY DEF WitnessNames
  <1>8. IsFiniteSet(Voters) /\ IsFiniteSet(Dishonest)
    BY <1>4, <1>6, FS_Subset
  <1> HIDE DEF all
  <1>9. IsFiniteSet(WitnessNames)
    BY <1>5, <1>7, FS_Subset
  <1>10. \A k \in Voters : /\ NameOf(k) \in DOMAIN Witnesses /\ Witnesses[NameOf(k)].key = k
                           /\ k # LogKey
    BY DEF Voters, WitnessKeys, NameOf
  <1>11. \A k \in Voters : Witnesses[NameOf(k)].name \in WitnessNames
    BY <1>10, QuorumAssumption DEF WitnessNames
  <1>12. f \in [Voters -> WitnessNames]
    BY <1>11
  <1>13. \A k, l \in Voters : f[k] = f[l] => k = l
    BY <1>10, QuorumAssumption
  <1> HIDE DEF f
  <1>14. f \in Injection(Voters, WitnessNames)
    BY <1>12, <1>13 DEF Injection, IsInjective
  <1>15. Cardinality(Voters) <= Cardinality(WitnessNames)
    BY <1>9, <1>14, FS_Injection
  <1> QED  BY <1>8, <1>9, <1>15

LEMMA VouchingFacts ==
  ASSUME NEW text
  PROVE  IsFiniteSet(Vouching(text)) /\ Vouching(text) \in SUBSET Voters
         /\ Cardinality(Vouching(text)) \in Nat
  <1>1. Vouching(text) \in SUBSET Voters
    BY DEF Vouching
  <1>2. IsFiniteSet(Vouching(text))
    BY <1>1, VotersFacts, FS_Subset
  <1> QED  BY <1>1, <1>2, FS_CardinalityType

(* Two texts with a threshold of keys behind each share an honest witness. *)
LEMMA SharedWitness ==
  ASSUME NEW t, NEW u,
         Cardinality(Vouching(t)) >= threshold, Cardinality(Vouching(u)) >= threshold
  PROVE  \E k \in Honest : t \in cosigned[k] /\ u \in cosigned[k]
  <1> DEFINE A == Vouching(t)
             B == Vouching(u)
  <1> SUFFICES ASSUME ~\E k \in Honest : t \in cosigned[k] /\ u \in cosigned[k]
               PROVE  FALSE
    OBVIOUS
  <1>1. A \cap B \in SUBSET Dishonest
    BY DEF Vouching, Dishonest, Voters
  <1>2. /\ IsFiniteSet(A) /\ IsFiniteSet(B) /\ A \cup B \in SUBSET Voters
        /\ Cardinality(A) \in Nat /\ Cardinality(B) \in Nat
        /\ Cardinality(A) >= threshold /\ Cardinality(B) >= threshold
    BY VouchingFacts
  <1> HIDE DEF A, B
  <1>3. Cardinality(A \cup B) = Cardinality(A) + Cardinality(B) - Cardinality(A \cap B)
    BY <1>2, FS_Union
  <1>4. /\ IsFiniteSet(A \cap B) /\ Cardinality(A \cap B) <= Cardinality(Dishonest)
    BY <1>1, VotersFacts, FS_Subset
  <1>5. IsFiniteSet(A \cup B) /\ Cardinality(A \cup B) <= Cardinality(Voters)
    BY <1>2, VotersFacts, FS_Subset
  <1>6. /\ Cardinality(A \cap B) \in Nat /\ Cardinality(A \cup B) \in Nat
        /\ Cardinality(Voters) \in Nat /\ Cardinality(WitnessNames) \in Nat
        /\ Cardinality(Dishonest) \in Nat
    BY <1>4, <1>5, VotersFacts, FS_CardinalityType
  <1>7. 2 * threshold > Cardinality(WitnessNames) + Cardinality(Dishonest)
    BY QuorumAssumption DEF Dishonest
  <1>8. Cardinality(Voters) <= Cardinality(WitnessNames)
    BY VotersFacts
  <1> QED  BY <1>2, <1>3, <1>4, <1>5, <1>6, <1>7, <1>8, BoundAssumption

(* Whoever signed a line under a text vouches for it.                      *)
LEMMA LineVouches ==
  ASSUME NEW text, NEW k \in Voters, NEW l \in Lines(text) \cup Strays(text),
         l.text = text, l.by = k
  PROVE  k \in Vouching(text)
  <1>1. k # LogKey
    BY DEF Voters
  <1>2. \A name, key, signed : line(name, key, signed).text = signed /\ line(name, key, signed).by = key
    BY DEF line
  <1>3. CASE l \in Strays(text)
    BY <1>2, <1>3 DEF Strays
  <1>4. CASE \E o \in {text.origin, Origin} : l = line(o, LogKey, text)
    BY <1>1, <1>2, <1>4
  <1>5. CASE \E name : \E key \in WitnessKeys \ Honest : l = line(name, key, text)
    BY <1>2, <1>5 DEF Vouching
  <1>6. CASE \E name : \E key \in {h \in Honest : text \in cosigned[h]} : l = line(name, key, text)
    BY <1>2, <1>6 DEF Vouching
  <1> QED  BY <1>3, <1>4, <1>5, <1>6 DEF Lines

(* A text verify_witnessed accepts has a threshold of keys behind it.      *)
LEMMA WitnessedIsVouched ==
  ASSUME NEW note, note.signatures \subseteq Lines(note.text) \cup Strays(note.text),
         verify_witnessed(note)
  PROVE  note.text.origin = Origin /\ Cardinality(Vouching(note.text)) >= threshold
  <1> DEFINE N == Len(Witnesses)
             end == count(note)[N]
  <1>1. note.text.origin = Origin /\ ~end.failed /\ end.cosigned >= threshold
    BY DEF verify_witnessed
  <1>2. PICK keys : Found(note, N, end, keys)
    BY <1>1, CountFinds
  <1> HIDE DEF end, N
  <1>3. ASSUME NEW k \in keys PROVE k \in Vouching(note.text)
    <2>1. PICK name : signed_by(note, name, k) = "yes"
      BY <1>2 DEF Found
    <2> DEFINE mine == {l \in note.signatures : l.name = name /\ l.key_id = key_id(name, k)}
    <2>2. /\ \A l \in mine : l.text = note.text /\ l.by = k
          /\ mine # {}
      BY <2>1 DEF signed_by
    <2>3. PICK l \in note.signatures : l.text = note.text /\ l.by = k
      BY <2>2
    <2>4. k \in Voters
      BY <1>2 DEF Found
    <2> QED  BY <2>3, <2>4, LineVouches
  <1>4. keys \in SUBSET Vouching(note.text)
    BY <1>3
  <1>5. Cardinality(keys) <= Cardinality(Vouching(note.text))
    BY <1>4, VouchingFacts, FS_Subset
  <1>6. end.cosigned = Cardinality(keys) /\ Cardinality(keys) \in Nat
    BY <1>2, FS_CardinalityType DEF Found
  <1> QED  BY <1>1, <1>5, <1>6, VouchingFacts, BoundAssumption

-----------------------------------------------------------------------------
(* What clients took in, and from whom.                                    *)
AcceptedInv ==
  \A t \in accepted :
    t \in Texts /\ t.origin = Origin /\ Cardinality(Vouching(t)) >= threshold

ShownInv == \A s \in shown : \E t \in accepted : <<HeadOf(t), s>> \in Proves

WitnessInv ==
  /\ DOMAIN log = Origins /\ LogInv
  /\ CosignedInv /\ AcceptedInv /\ ShownInv

LEMMA InitInv == ASSUME Init PROVE WitnessInv
  <1>1. DOMAIN log = Origins /\ \A o \in Origins : log[o] = <<>>
    BY DEF Init
  <1>2. ASSUME NEW o \in Origins PROVE IsLogOf(o, <<>>)
    <2>1. <<>> \in Seq(Leaves) /\ Len(<<>>) = 0
      OBVIOUS
    <2>2. Len(Entries[o]) \in Nat
      BY BoundAssumption
    <2> QED  BY <2>1, <2>2 DEF IsLogOf
  <1>3. LogInv
    BY <1>1, <1>2 DEF LogInv
  <1>4. DOMAIN cosigned = Honest /\ \A w \in Honest : cosigned[w] = {}
    BY DEF Init
  <1>5. CosignedInv
    BY <1>4 DEF CosignedInv
  <1>6. AcceptedInv /\ ShownInv
    BY DEF Init, AcceptedInv, ShownInv
  <1> QED  BY <1>1, <1>3, <1>5, <1>6 DEF WitnessInv

(* Whoever vouches for a text goes on doing so.                            *)
LEMMA VouchingGrows ==
  ASSUME NEW text, \A w \in Honest : cosigned[w] \subseteq cosigned'[w]
  PROVE  Cardinality(Vouching(text)) >= threshold
           => Cardinality(Vouching(text)') >= threshold
  <1> DEFINE A == Vouching(text)
             B == {k \in Voters : k \in Honest => text \in cosigned'[k]}
  <1>1. Vouching(text)' = B
    BY DEF Vouching
  <1>2. A \in SUBSET B /\ B \in SUBSET Voters
    BY DEF Vouching
  <1>3. IsFiniteSet(B)
    BY <1>2, VotersFacts, FS_Subset
  <1> HIDE DEF A, B
  <1>4. Cardinality(A) <= Cardinality(B) /\ IsFiniteSet(A)
    BY <1>2, <1>3, FS_Subset
  <1>5. Cardinality(A) \in Nat /\ Cardinality(B) \in Nat
    BY <1>3, <1>4, FS_CardinalityType
  <1>6. Cardinality(A) >= threshold => Cardinality(B) >= threshold
    BY <1>4, <1>5, BoundAssumption
  <1> QED  BY <1>1, <1>6 DEF A

LEMMA NextInv ==
  ASSUME WitnessInv, [Next]_vars
  PROVE  WitnessInv'
  <1>1. DOMAIN log' = Origins /\ LogInv'
    BY LogStep DEF WitnessInv
  <1>2. ASSUME UNCHANGED <<cosigned, accepted, shown>>
        PROVE  CosignedInv' /\ AcceptedInv' /\ ShownInv'
    <2>1. CosignedInv'
      BY <1>2 DEF WitnessInv, CosignedInv
    <2>2. AcceptedInv'
      BY <1>2 DEF WitnessInv, AcceptedInv, Vouching
    <2>3. ShownInv'
      BY <1>2 DEF WitnessInv, ShownInv
    <2> QED  BY <2>1, <2>2, <2>3
  <1>3. ASSUME NEW w \in Honest, NEW text \in Signable, Cosign(w, text)
        PROVE  CosignedInv' /\ AcceptedInv' /\ ShownInv'
    <2>1. CosignedInv'
      BY <1>3, CosignStep DEF WitnessInv
    <2>2. \A v \in Honest : cosigned[v] \subseteq cosigned'[v]
      BY <1>3 DEF Cosign, WitnessInv, CosignedInv
    <2>3. accepted' = accepted /\ shown' = shown
      BY <1>3 DEF Cosign
    <2>4. AcceptedInv'
      <3>1. ASSUME NEW t \in accepted'
            PROVE  t \in Texts /\ t.origin = Origin /\ Cardinality(Vouching(t)') >= threshold
        <4>1. t \in Texts /\ t.origin = Origin /\ Cardinality(Vouching(t)) >= threshold
          BY <2>3, <3>1 DEF WitnessInv, AcceptedInv
        <4> QED  BY <2>2, <4>1, VouchingGrows
      <3> QED  BY <3>1 DEF AcceptedInv
    <2>5. ShownInv'
      BY <2>3 DEF WitnessInv, ShownInv
    <2> QED  BY <2>1, <2>4, <2>5
  <1>4. ASSUME NEW text \in Signable, NEW sigs, sigs \subseteq Lines(text) \cup Strays(text),
               Accept([text |-> text, signatures |-> sigs])
        PROVE  CosignedInv' /\ AcceptedInv' /\ ShownInv'
    <2> DEFINE note == [text |-> text, signatures |-> sigs]
    <2>1. note.text = text /\ note.signatures = sigs
      OBVIOUS
    <2> HIDE DEF note
    <2>2. /\ verify_witnessed(note) /\ accepted' = accepted \cup {text}
          /\ cosigned' = cosigned /\ shown' = shown
      BY <1>4, <2>1 DEF Accept, note
    <2>3. text.origin = Origin /\ Cardinality(Vouching(text)) >= threshold
      <3>1. note.signatures \subseteq Lines(note.text) \cup Strays(note.text)
        BY <1>4, <2>1
      <3> QED  BY <2>1, <2>2, <3>1, WitnessedIsVouched
    <2>4. text \in Texts
      BY SignableIsText DEF WitnessInv
    <2>5. AcceptedInv'
      BY <2>2, <2>3, <2>4 DEF WitnessInv, AcceptedInv, Vouching
    <2>6. ShownInv'
      BY <2>2 DEF WitnessInv, ShownInv
    <2>7. CosignedInv'
      BY <2>2 DEF WitnessInv, CosignedInv
    <2> QED  BY <2>5, <2>6, <2>7
  <1>5. ASSUME NEW text \in accepted, NEW entry, Show(text, entry)
        PROVE  CosignedInv' /\ AcceptedInv' /\ ShownInv'
    <2>1. /\ <<HeadOf(text), entry>> \in Proves /\ shown' = shown \cup {entry}
          /\ cosigned' = cosigned /\ accepted' = accepted
      BY <1>5 DEF Show
    <2>2. ShownInv'
      BY <1>5, <2>1 DEF WitnessInv, ShownInv
    <2>3. AcceptedInv'
      BY <2>1 DEF WitnessInv, AcceptedInv, Vouching
    <2>4. CosignedInv'
      BY <2>1 DEF WitnessInv, CosignedInv
    <2> QED  BY <2>2, <2>3, <2>4
  <1>6. \/ UNCHANGED <<cosigned, accepted, shown>>
        \/ \E w \in Honest, text \in Signable : Cosign(w, text)
        \/ \E text \in Signable : \E sigs :
             /\ sigs \subseteq Lines(text) \cup Strays(text)
             /\ Accept([text |-> text, signatures |-> sigs])
        \/ \E text \in accepted : \E entry : Show(text, entry)
    <2>1. CASE UNCHANGED vars
      BY <2>1 DEF vars
    <2>2. CASE \E o \in Origins : \E e \in UNION Range(Entries[o]) : Extend(o, e)
      BY <2>2 DEF Extend
    <2>3. CASE \E o \in Origins : \E n \in 0..(Len(log[o]) - 1) : Rewind(o, n)
      BY <2>3 DEF Rewind
    <2>4. CASE \E w \in Honest, text \in Signable : Cosign(w, text)
      BY <2>4
    <2>5. CASE \E text \in Signable \ accepted :
                 \E sigs \in {Lines(text)} \cup {Lines(text) \ {l} : l \in Lines(text)}
                            \cup {Lines(text) \cup {l} : l \in Strays(text)} :
                   Accept([text |-> text, signatures |-> sigs])
      <3>1. PICK text \in Signable :
              \E sigs \in {Lines(text)} \cup {Lines(text) \ {l} : l \in Lines(text)}
                         \cup {Lines(text) \cup {l} : l \in Strays(text)} :
                Accept([text |-> text, signatures |-> sigs])
        BY <2>5
      <3>2. PICK sigs \in {Lines(text)} \cup {Lines(text) \ {l} : l \in Lines(text)}
                          \cup {Lines(text) \cup {l} : l \in Strays(text)} :
              Accept([text |-> text, signatures |-> sigs])
        BY <3>1
      <3>3. sigs \subseteq Lines(text) \cup Strays(text)
        BY <3>2
      <3> QED  BY <3>2, <3>3
    <2>6. CASE \E text \in accepted : \E index \in 0..(text.size - 1), leaf \in Leaves :
                 Show(text, [index |-> index, leaf |-> leaf])
      BY <2>6
    <2> QED  BY <2>1, <2>2, <2>3, <2>4, <2>5, <2>6 DEF Next
  <1>7. CosignedInv' /\ AcceptedInv' /\ ShownInv'
    BY <1>2, <1>3, <1>4, <1>5, <1>6
  <1> QED  BY <1>1, <1>7 DEF WitnessInv

(* What a client verified to be in a tree is in its place there.           *)
LEMMA ProvesFacts ==
  ASSUME NEW h, NEW s, <<h, s>> \in Proves
  PROVE  /\ h \in Heads /\ h.size \in Nat /\ s.index \in Nat /\ s.index < h.size
         /\ InTree(h.size, h.root, s.index, s.leaf)
  <1>1. <<h, s>> \in {<<g, [index |-> i, leaf |-> l]>> :
                         g \in Heads, i \in 0..Max(Sizes), l \in Leaves}
    BY DEF Proves
  <1>2. h \in Heads /\ s.index \in 0..Max(Sizes)
    BY <1>1
  <1>3. h.size \in Nat /\ s.index \in Nat
    BY <1>2, SizesFacts DEF Heads, TreeHead
  <1>4. PICK path : verify_inclusion([first |-> s.index, second |-> h.size, path |-> path],
                                     s.leaf, h.root)
    <2> DEFINE hs == <<h, s>>
    <2>1. \E path \in PathsBelow(hs[1].root) :
            verify_inclusion([first |-> hs[2].index, second |-> hs[1].size, path |-> path],
                             hs[2].leaf, hs[1].root)
      BY DEF Proves
    <2>2. hs[1] = h /\ hs[2] = s
      OBVIOUS
    <2> HIDE DEF hs
    <2> QED  BY <2>1, <2>2
  <1> DEFINE proof == [first |-> s.index, second |-> h.size, path |-> path]
  <1>5. proof.first = s.index /\ proof.second = h.size
    OBVIOUS
  <1>6. verify_inclusion(proof, s.leaf, h.root)
    BY <1>4
  <1> HIDE DEF proof
  <1>7. s.index < h.size /\ climb(s.leaf, turns[h.size][s.index], proof.path, TRUE) = h.root
    BY <1>5, <1>6 DEF verify_inclusion
  <1>8. InTree(h.size, h.root, s.index, s.leaf)
    BY <1>7 DEF InTree
  <1> QED  BY <1>2, <1>3, <1>7, <1>8

(* Two accepted texts are texts of one honest witness.                     *)
LEMMA AcceptedLinks ==
  ASSUME WitnessInv, NEW t \in accepted, NEW u \in accepted
  PROVE  t \in Texts /\ u \in Texts /\ LinkedTexts(t, u)
  <1>1. /\ t \in Texts /\ t.origin = Origin /\ Cardinality(Vouching(t)) >= threshold
        /\ u \in Texts /\ u.origin = Origin /\ Cardinality(Vouching(u)) >= threshold
    BY DEF WitnessInv, AcceptedInv
  <1>2. PICK k \in Honest : t \in cosigned[k] /\ u \in cosigned[k]
    BY <1>1, SharedWitness
  <1>3. LinkedTexts(t, u)
    BY <1>1, <1>2 DEF WitnessInv, CosignedInv
  <1> QED  BY <1>1, <1>3

LEMMA AcceptedRoots ==
  ASSUME WitnessInv, NEW t \in accepted, NEW u \in accepted, t.size = u.size
  PROVE  t.root = u.root
  <1>1. t \in Texts /\ LinkedTexts(t, u)
    BY AcceptedLinks
  <1>2. t.size \in Nat
    BY <1>1, TextFacts
  <1>3. Linked(t.size, t.root, t.size, u.root)
    BY <1>1, <1>2 DEF LinkedTexts
  <1> QED  BY <1>2, <1>3, LinkedSame

-----------------------------------------------------------------------------
(* What the verifiers accept is what a log can answer.                     *)
LEMMA LeavesAreHashes == \A l \in Leaves : \E e : l = leaf_hash(e)
  BY DEF Leaves

LEMMA TreeFacts ==
  ASSUME NEW t \in Trees
  PROVE  /\ t \in Seq(Leaves) /\ t # <<>> /\ Len(t) \in Sizes /\ DOMAIN t = 1..Len(t)
         /\ root_of(t) \in Roots
  <1>1. t \in SeqOf(Leaves, Max(Sizes)) /\ t # <<>>
    BY DEF Trees
  <1>2. PICK m \in 0..Max(Sizes) : t \in [1..m -> Leaves]
    BY <1>1 DEF SeqOf
  <1>3. m \in Nat /\ m <= Max(Sizes)
    BY <1>2, SizesFacts
  <1>4. t = [j \in 1..m |-> t[j]] /\ \A j \in 1..m : t[j] \in Leaves
    BY <1>2
  <1>5. t \in Seq(Leaves) /\ Len(t) = m /\ DOMAIN t = 1..m
    BY <1>2, <1>3, <1>4, IsASeq
  <1>6. m # 0
    BY <1>1, <1>5, EmptySeq
  <1>7. Len(t) \in Sizes
    BY <1>3, <1>5, <1>6, SizesFacts
  <1>8. Roots = {root_of(u) : u \in Trees}
    BY DEF Roots, TreeOf
  <1> QED  BY <1>1, <1>5, <1>7, <1>8

LEMMA RootFacts ==
  ASSUME NEW root \in Roots
  PROVE  \E t \in Trees : root_of(t) = root /\ Below(root) = Hashes(t)
  <1> DEFINE t == CHOOSE u \in Trees : root_of(u) = root
  <1>1. root \in {root_of(u) : u \in Trees}
    BY DEF Roots, TreeOf
  <1>2. t \in Trees /\ root_of(t) = root
    BY <1>1
  <1>3. TreeOf[root] = t
    BY <1>1 DEF TreeOf
  <1> HIDE DEF t
  <1>4. DOMAIN t = 1..Len(t)
    BY <1>2, TreeFacts
  <1>5. Below(root) = {root_of(SubSeq(t, a, b)) : a, b \in 1..Len(t)}
    BY <1>3, <1>4 DEF Below
  <1> QED  BY <1>2, <1>5 DEF Hashes

LEMMA DepthFacts ==
  ASSUME NEW n \in Sizes
  PROVE  /\ \A i \in Nat : i < n => Len(turns[n][i]) <= MAX_PROOF_LEN
         /\ \A m \in Nat : 1 <= m /\ m <= n =>
              /\ descent[n][m].complete => Len(descent[n][m].sides) <= MAX_PROOF_LEN
              /\ ~descent[n][m].complete => Len(descent[n][m].sides) + 1 <= MAX_PROOF_LEN
  <1>1. n \in Nat
    BY SizesFacts
  <1>2. ASSUME NEW i \in Nat, i < n PROVE Len(turns[n][i]) <= MAX_PROOF_LEN
    <2>1. i \in 0..(n - 1)
      BY <1>1, <1>2
    <2> QED  BY <2>1, DepthAssumption
  <1>3. ASSUME NEW m \in Nat, 1 <= m, m <= n
        PROVE  /\ descent[n][m].complete => Len(descent[n][m].sides) <= MAX_PROOF_LEN
               /\ ~descent[n][m].complete => Len(descent[n][m].sides) + 1 <= MAX_PROOF_LEN
    <2> DEFINE d == descent[n][m]
    <2>1. m \in 1..n
      BY <1>1, <1>3
    <2>2. Len(d.sides) + (IF d.complete THEN 0 ELSE 1) <= MAX_PROOF_LEN
      BY <2>1, DepthAssumption
    <2>3. d.sides \in Sides
      BY <1>1, DescentAt
    <2> HIDE DEF d
    <2>4. Len(d.sides) \in Nat
      BY <2>3, LenProperties DEF Sides
    <2>5. CASE d.complete
      <3>1. Len(d.sides) + 0 <= MAX_PROOF_LEN
        BY <2>2, <2>5
      <3> QED  BY <2>4, <2>5, <3>1 DEF d
    <2>6. CASE ~d.complete
      <3>1. Len(d.sides) + 1 <= MAX_PROOF_LEN
        BY <2>2, <2>6
      <3> QED  BY <2>6, <3>1 DEF d
    <2> QED  BY <2>5, <2>6
  <1> QED  BY <1>2, <1>3

(* A proof of two sizes that verify_consistency accepts.                   *)
LEMMA Verifies ==
  ASSUME NEW m \in Nat, NEW n \in Nat, m # 0, m < n, NEW S, NEW path \in Seq(S), NEW old, NEW new,
         Len(path) <= MAX_PROOF_LEN, NEW s, s = descent[n][m].sides, s \in Sides,
         descent[n][m].complete =>
           Len(path) = Len(s) /\ Kept(old, s, path) = old /\ Grown(old, s, path) = new,
         ~descent[n][m].complete =>
           /\ Len(path) = Len(s) + 1
           /\ Kept(path[1], s, Tail(path)) = old /\ Grown(path[1], s, Tail(path)) = new
  PROVE  verify_consistency([first |-> m, second |-> n, path |-> path], old, new)
  <1> DEFINE proof == [first |-> m, second |-> n, path |-> path]
             d == descent[n][m]
  <1>1. proof.first = m /\ proof.second = n /\ proof.path = path
    OBVIOUS
  <1> HIDE DEF proof
  <1>2. m <= n /\ m # n /\ Len(s) \in Nat
    BY LenProperties DEF Sides
  <1>3. CASE d.complete
    <2>0. Len(s) = Len(s) + 0
      BY <1>2
    <2>1. /\ Len(path) = Len(s) + 0
          /\ climb(old, s, path, FALSE) = old /\ climb(old, s, path, TRUE) = new
      BY <1>3, <2>0, Zenon DEF Kept, Grown
    <2>2. Len(proof.path) = Len(d.sides) + (IF d.complete THEN 0 ELSE 1)
      BY <1>1, <1>3, <2>1
    <2>3. verify_consistency(proof, old, new)
      BY <1>1, <1>2, <1>3, <2>1, <2>2, Zenon DEF verify_consistency
    <2> QED  BY <2>3 DEF proof
  <1>4. CASE ~d.complete
    <2>1. /\ Len(path) = Len(s) + 1
          /\ climb(path[1], s, Tail(path), FALSE) = old /\ climb(path[1], s, Tail(path), TRUE) = new
      BY <1>4, Zenon DEF Kept, Grown
    <2>2. Len(proof.path) = Len(d.sides) + (IF d.complete THEN 0 ELSE 1)
      BY <1>1, <1>4, <2>1
    <2>3. verify_consistency(proof, old, new)
      BY <1>1, <1>2, <1>4, <2>1, <2>2, Zenon DEF verify_consistency
    <2> QED  BY <2>3 DEF proof
  <1> QED  BY <1>3, <1>4

(* Whatever has grown can be shown to have, with the hashes of the larger  *)
(* tree alone.                                                             *)
LEMMA LinkedFollows ==
  ASSUME NEW f \in Heads, NEW g \in Heads, f.size <= g.size,
         Linked(f.size, f.root, g.size, g.root)
  PROVE  <<f, g>> \in Follows
  <1> DEFINE m == f.size
             n == g.size
             d == descent[n][m]
             s == d.sides
             P(path) == [first |-> m, second |-> n, path |-> path]
  <1>1. m \in Sizes /\ n \in Sizes /\ g.root \in Roots
    BY DEF Heads, TreeHead
  <1>2. m \in Nat /\ n \in Nat /\ m # 0 /\ 1 <= m
    BY <1>1, SizesFacts
  <1>3. ASSUME NEW path \in PathsBelow(g.root), verify_consistency(P(path), f.root, g.root)
        PROVE  <<f, g>> \in Follows
    BY <1>3 DEF Follows
  <1>4. CASE m = n
    <2>1. f.root = g.root
      BY <1>2, <1>4, LinkedSame
    <2>2. f = g
      BY <1>4, <2>1 DEF Heads, TreeHead
    <2> QED  BY <2>2, FollowsFacts
  <1>5. CASE m < n
    <2>1. PICK t \in Trees : root_of(t) = g.root /\ Below(g.root) = Hashes(t)
      BY <1>1, RootFacts
    <2>2. PICK seed, x : Kept(seed, s, x) = f.root /\ Grown(seed, s, x) = g.root
      BY DEF Linked, Kept, Grown
    <2>3. s \in Sides
      BY <1>2, DescentAt
    <2> DEFINE k == Len(s)
               y == [j \in 1..k |-> x[j]]
               H == Hashes(t)
    <2>4. k \in Nat
      BY <2>3, LenProperties DEF Sides
    <2>5. t \in Seq(Leaves) /\ t # <<>>
      BY TreeFacts
    <2>6. seed \in H /\ \A j \in 1..k : x[j] \in H
      BY <2>1, <2>2, <2>3, <2>5, LeavesAreHashes, PathInside
    <2> HIDE DEF P, H, s
    <2>7. y \in Seq(H) /\ Len(y) = k /\ \A j \in 1..k : x[j] = y[j]
      BY <2>4, <2>6, IsASeq
    <2> HIDE DEF y
    <2>8. Kept(seed, s, y) = f.root /\ Grown(seed, s, y) = g.root
      <3>1. climb(seed, s, x, FALSE) = climb(seed, s, y, FALSE)
        BY <2>3, <2>7, ClimbSame
      <3>2. climb(seed, s, x, TRUE) = climb(seed, s, y, TRUE)
        <4>1. ASSUME NEW grown PROVE climb(seed, s, x, grown) = climb(seed, s, y, grown)
          BY <2>3, <2>7, ClimbSame
        <4> QED  BY <4>1, Zenon
      <3> QED  BY <2>2, <3>1, <3>2, Zenon DEF Kept, Grown
    <2>9. ASSUME NEW path \in Seq(H), Len(path) <= MAX_PROOF_LEN PROVE path \in PathsBelow(g.root)
      <3>1. Len(path) \in 0..MAX_PROOF_LEN /\ path \in [1..Len(path) -> H]
        BY <2>9, ProofBound, LenProperties
      <3> QED  BY <2>1, <3>1 DEF PathsBelow, SeqOf, H
    <2>10. /\ d.complete => k <= MAX_PROOF_LEN
           /\ ~d.complete => k + 1 <= MAX_PROOF_LEN
      BY <1>1, <1>2, DepthFacts DEF s
    <2>11. CASE d.complete
      <3>1. seed = f.root
        BY <1>2, <2>2, <2>11, CompleteKeeps DEF s
      <3>2. Kept(f.root, s, y) = f.root /\ Grown(f.root, s, y) = g.root
        BY <2>8, <3>1
      <3>3. Len(y) <= MAX_PROOF_LEN
        BY <2>7, <2>10, <2>11
      <3>4. verify_consistency(P(y), f.root, g.root)
        BY <1>2, <1>5, <2>3, <2>7, <2>11, <3>2, <3>3, Verifies DEF P, s
      <3> QED  BY <1>3, <2>7, <2>9, <3>3, <3>4
    <2>12. CASE ~d.complete
      <3> DEFINE z == <<seed>> \o y
      <3>1. z \in Seq(H) /\ Len(z) = k + 1 /\ z[1] = seed /\ Tail(z) = y
        <4>1. <<seed>> \in Seq(H) /\ Len(<<seed>>) = 1 /\ <<seed>>[1] = seed
          BY <2>6
        <4>2. z \in Seq(H) /\ Len(z) = k + 1 /\ z[1] = seed
          BY <2>4, <2>7, <4>1, ConcatProperties
        <4>3. Tail(z) = y
          BY <2>7, ConcatSimplifications, HeadTailProperties
        <4> QED  BY <4>2, <4>3
      <3> HIDE DEF z
      <3>2. Kept(z[1], s, Tail(z)) = f.root /\ Grown(z[1], s, Tail(z)) = g.root
        BY <2>8, <3>1
      <3>3. Len(z) <= MAX_PROOF_LEN
        BY <2>10, <2>12, <3>1
      <3>4. verify_consistency(P(z), f.root, g.root)
        BY <1>2, <1>5, <2>3, <2>12, <3>1, <3>2, <3>3, Verifies DEF P, s
      <3> QED  BY <1>3, <2>9, <3>1, <3>3, <3>4
    <2> QED  BY <2>11, <2>12
  <1> QED  BY <1>2, <1>4, <1>5

LEMMA Composes == HistoryComposes
  <1> SUFFICES ASSUME NEW f \in Heads, NEW g \in Heads, NEW h \in Heads,
                      <<f, g>> \in Follows, <<g, h>> \in Follows
               PROVE  <<f, h>> \in Follows
    BY DEF HistoryComposes
  <1>1. /\ f.size <= g.size /\ Linked(f.size, f.root, g.size, g.root)
        /\ g.size <= h.size /\ Linked(g.size, g.root, h.size, h.root)
    BY FollowsFacts
  <1>2. f.size \in Nat /\ g.size \in Nat /\ h.size \in Nat
    BY SizesFacts DEF Heads, TreeHead
  <1>3. f.size <= h.size /\ Linked(f.size, f.root, h.size, h.root)
    BY <1>1, <1>2, LinkedComposes
  <1> QED  BY <1>3, LinkedFollows

(* What a log proves of itself: its entries in their places, and the roots *)
(* of its prefixes.                                                        *)
LEMMA AuditVerifies ==
  ASSUME NEW S, NEW t \in Seq(S), NEW i \in Nat, i < Len(t)
  PROVE  LET path == collect_inclusion(t, i) IN
         /\ Len(path) = Len(turns[Len(t)][i])
         /\ Grown(t[i + 1], turns[Len(t)][i], path) = root_of(t)
  <1>1. PICK C : IsAudit(C, t, i, Len(t)) /\ collect_inclusion(t, i) = C[Len(t)][0]
    BY AuditIs
  <1>2. Len(t) \in Nat /\ 1 <= Len(t) /\ 0 + Len(t) <= Len(t) /\ 0 <= i /\ i < 0 + Len(t)
        /\ i - 0 = i /\ 0 \in Nat
    BY LenProperties
  <1>3. /\ Len(C[Len(t)][0]) = Len(turns[Len(t)][i - 0])
        /\ Grown(t[i + 1], turns[Len(t)][i - 0], C[Len(t)][0]) = RootIn(t, 0, Len(t))
    BY <1>1, <1>2, HonestInclusion
  <1>4. root_of(t) = RootIn(t, 0, Len(t))
    BY RootWhole
  <1> QED  BY <1>1, <1>2, <1>3, <1>4

LEMMA GrowthVerifies ==
  ASSUME NEW S, NEW t \in Seq(S), NEW m \in Nat, 1 <= m, m <= Len(t)
  PROVE  LET path == collect_consistency(t, m)
             d == descent[Len(t)][m] IN
         /\ d.complete => Reaches(t, RootIn(t, 0, m), path, d.sides, 0, m, Len(t))
         /\ ~d.complete => Starts(t, path, d.sides, 0, m, Len(t))
         /\ m = Len(t) => path = <<>>
  <1>1. PICK C : IsGrowth(C, t, m, Len(t)) /\ collect_consistency(t, m) = C[Len(t)][0][TRUE]
    BY GrowthIs
  <1>2. /\ Len(t) \in Nat /\ 1 <= Len(t) /\ 0 + Len(t) <= Len(t) /\ 0 < m /\ m <= 0 + Len(t)
        /\ m - 0 = m /\ 0 \in Nat /\ 0 + Len(t) = Len(t)
    BY LenProperties
  <1>3. collect_consistency(t, m) = Bare(C, Len(t), 0)
    BY <1>1, Zenon DEF Bare
  <1>4. Truthful(C, t, m, Len(t), 0)
    BY <1>1, <1>2, HonestConsistency
  <1>5. m = Len(t) => Bare(C, Len(t), 0) = <<>>
    BY <1>1, <1>2, GrowthRows
  <1> QED  BY <1>2, <1>3, <1>4, <1>5, Zenon DEF Truthful

LEMMA EntryInTree ==
  ASSUME NEW S, NEW t \in Seq(S), NEW i \in Nat, i < Len(t)
  PROVE  InTree(Len(t), root_of(t), i, t[i + 1])
  BY AuditVerifies, Zenon DEF InTree, Grown

LEMMA PrefixLinked ==
  ASSUME NEW S, NEW t \in Seq(S), NEW m \in Nat, 1 <= m, m <= Len(t)
  PROVE  Linked(m, RootIn(t, 0, m), Len(t), root_of(t))
  <1> DEFINE s == descent[Len(t)][m].sides
  <1>1. \E seed, x : Kept(seed, s, x) = RootIn(t, 0, m) /\ Grown(seed, s, x) = RootIn(t, 0, Len(t))
    <2> DEFINE path == collect_consistency(t, m)
    <2>1. \/ Reaches(t, RootIn(t, 0, m), path, s, 0, m, Len(t))
          \/ Starts(t, path, s, 0, m, Len(t))
      BY GrowthVerifies
    <2> HIDE DEF path, s
    <2> QED  BY <2>1, Zenon DEF Reaches, Starts
  <1>2. root_of(t) = RootIn(t, 0, Len(t))
    BY RootWhole
  <1> QED  BY <1>1, <1>2, Zenon DEF Linked, Kept, Grown

LEMMA PrefixFacts ==
  ASSUME NEW S, NEW t \in Seq(S), NEW n \in Nat, n <= Len(t)
  PROVE  /\ SubSeq(t, 1, n) \in Seq(S) /\ Len(SubSeq(t, 1, n)) = n
         /\ \A j \in 1..n : SubSeq(t, 1, n)[j] = t[j]
         /\ \A m \in Nat : m <= n => SubSeq(SubSeq(t, 1, n), 1, m) = SubSeq(t, 1, m)
         /\ RootIn(t, 0, n) = root_of(SubSeq(t, 1, n))
  <1>0. Len(t) \in Nat
    BY LenProperties
  <1>1. ASSUME NEW m \in Nat, m <= Len(t)
        PROVE  /\ SubSeq(t, 1, m) \in Seq(S) /\ Len(SubSeq(t, 1, m)) = m
               /\ \A j \in 1..m : SubSeq(t, 1, m)[j] = t[j]
               /\ SubSeq(t, 1, m) = [j \in 1..m |-> t[j]]
    BY <1>0, <1>1, SubSeqProperties
  <1> DEFINE u == SubSeq(t, 1, n)
  <1>2. u \in Seq(S) /\ Len(u) = n /\ \A j \in 1..n : u[j] = t[j]
    BY <1>1
  <1> HIDE DEF u
  <1>3. ASSUME NEW m \in Nat, m <= n PROVE SubSeq(u, 1, m) = SubSeq(t, 1, m)
    <2>1. SubSeq(u, 1, m) = [j \in 1..m |-> u[j]]
      BY <1>2, <1>3, SubSeqProperties
    <2>2. SubSeq(t, 1, m) = [j \in 1..m |-> t[j]]
      BY <1>0, <1>1, <1>3
    <2> QED  BY <1>2, <1>3, <2>1, <2>2
  <1>4. RootIn(t, 0, n) = root_of(u)
    <2>1. 0 + 1 = 1 /\ 0 + n = n
      OBVIOUS
    <2> QED  BY <2>1 DEF RootIn, u
  <1> QED  BY <1>2, <1>3, <1>4 DEF u

(* The trees a root follows from are its prefixes.                         *)
LEMMA TreesAncestral ==
  ASSUME NEW t \in Trees
  PROVE  t \in Ancestral
  <1> SUFFICES ASSUME NEW s \in Trees
               PROVE  <<TreeHead(Len(s), root_of(s)), TreeHead(Len(t), root_of(t))>> \in Follows
                        <=> IsPrefix(s, t)
    BY DEF Ancestral
  <1> DEFINE f == TreeHead(Len(s), root_of(s))
             g == TreeHead(Len(t), root_of(t))
  <1>1. /\ s \in Seq(Leaves) /\ Len(s) \in Sizes /\ root_of(s) \in Roots
        /\ t \in Seq(Leaves) /\ Len(t) \in Sizes /\ root_of(t) \in Roots
    BY TreeFacts
  <1>2. Len(s) \in Nat /\ 1 <= Len(s) /\ Len(t) \in Nat
    BY <1>1, SizesFacts
  <1>3. /\ f \in Heads /\ f.size = Len(s) /\ f.root = root_of(s)
        /\ g \in Heads /\ g.size = Len(t) /\ g.root = root_of(t)
    BY <1>1 DEF Heads, TreeHead
  <1> HIDE DEF f, g
  <1>4. s = [j \in 1..Len(s) |-> s[j]]
    BY <1>1, LenProperties
  <1>5. SubSeq(s, 1, Len(s)) = s
    BY <1>1, <1>2, SubSeqFull
  <1>6. ASSUME <<f, g>> \in Follows PROVE IsPrefix(s, t)
    <2>1. Len(s) <= Len(t) /\ Linked(Len(s), root_of(s), Len(t), root_of(t))
      BY <1>3, <1>6, FollowsFacts
    <2>2. ASSUME NEW j \in 1..Len(s) PROVE s[j] = t[j]
      <3> DEFINE i == j - 1
      <3>1. i \in Nat /\ i + 1 = j /\ i < Len(s) /\ i < Len(t)
        BY <1>2, <2>1
      <3> HIDE DEF i
      <3>2. InTree(Len(s), root_of(s), i, s[i + 1]) /\ InTree(Len(t), root_of(t), i, t[i + 1])
        BY <1>1, <3>1, EntryInTree
      <3>3. s[i + 1] = t[i + 1]
        BY <1>2, <2>1, <3>1, <3>2, PlaceKept
      <3> QED  BY <3>1, <3>3
    <2>3. SubSeq(t, 1, Len(s)) = [j \in 1..Len(s) |-> t[j]]
      BY <1>1, <1>2, <2>1, SubSeqProperties
    <2>4. SubSeq(t, 1, Len(s)) = s
      BY <1>4, <2>2, <2>3
    <2> QED  BY <1>5, <2>1, <2>4 DEF IsPrefix
  <1>7. ASSUME IsPrefix(s, t) PROVE <<f, g>> \in Follows
    <2>1. Len(s) <= Len(t) /\ SubSeq(t, 1, Len(s)) = s
      BY <1>5, <1>7 DEF IsPrefix
    <2>2. RootIn(t, 0, Len(s)) = root_of(s)
      BY <1>1, <1>2, <2>1, PrefixFacts
    <2>3. Linked(Len(s), root_of(s), Len(t), root_of(t))
      BY <1>1, <1>2, <2>1, <2>2, PrefixLinked
    <2> QED  BY <1>3, <2>1, <2>3, LinkedFollows
  <1> QED  BY <1>6, <1>7 DEF f, g

(* A proof within the bound survives its encoding.                         *)
LEMMA WireFacts ==
  ASSUME NEW tag, NEW proof, Len(proof.path) \in Nat, Len(proof.path) <= MAX_PROOF_LEN,
         DOMAIN proof = {"first", "second", "path"}
  PROVE  LET wire == encode_proof(tag, proof) IN
         decode_proof(tag, wire) = proof /\ proof # Refused
  <1> DEFINE wire == [tag |-> tag, body |-> proof]
  <1>1. encode_proof(tag, proof) = wire
    <2>1. ~(Len(proof.path) > MAX_PROOF_LEN)
      BY ProofBound
    <2> QED  BY <2>1 DEF encode_proof
  <1>2. wire.tag = tag /\ wire.body = proof /\ DOMAIN wire = {"tag", "body"}
    OBVIOUS
  <1>3. DOMAIN Refused = {"refused"}
    BY DEF Refused
  <1> HIDE DEF wire
  <1>4. wire # Refused /\ proof # Refused
    BY <1>2, <1>3
  <1>5. decode_proof(tag, wire) = proof
    BY <1>2, <1>4 DEF decode_proof
  <1> QED  BY <1>1, <1>4, <1>5

LEMMA InclusionAnswered ==
  ASSUME NEW t \in Trees, NEW new \in 1..Len(t), NEW index \in 0..(new - 1)
  PROVE  LET wire == encode_proof("inclusion", prove_inclusion(t, index, new)) IN
         /\ decode_proof("inclusion", wire) # Refused
         /\ verify_inclusion(decode_proof("inclusion", wire), t[index + 1], root_at(t, new))
  <1> DEFINE u == SubSeq(t, 1, new)
             path == collect_inclusion(u, index)
             proof == prove_inclusion(t, index, new)
  <1>1. /\ t \in Seq(Leaves) /\ Len(t) \in Nat /\ new \in Nat /\ 1 <= new /\ new <= Len(t)
        /\ new \in Sizes /\ index \in Nat /\ index < new /\ index + 1 \in 1..new
    BY TreeFacts, SizesFacts
  <1>2. u \in Seq(Leaves) /\ Len(u) = new /\ u[index + 1] = t[index + 1]
    BY <1>1, PrefixFacts
  <1>3. proof.first = index /\ proof.second = new /\ proof.path = path
        /\ DOMAIN proof = {"first", "second", "path"}
    BY DEF prove_inclusion
  <1>4. root_at(t, new) = root_of(u)
    BY DEF root_at
  <1> HIDE DEF u, path, proof
  <1>5. /\ Len(path) = Len(turns[new][index])
        /\ Grown(t[index + 1], turns[new][index], path) = root_of(u)
    BY <1>1, <1>2, AuditVerifies DEF path
  <1>6. Len(path) <= MAX_PROOF_LEN /\ Len(path) \in Nat
    <2>1. turns[new][index] \in Sides
      BY <1>1, TurnsAt
    <2> QED  BY <1>1, <1>5, <2>1, DepthFacts, LenProperties DEF Sides
  <1>7. climb(t[index + 1], turns[new][index], path, TRUE) = root_of(u)
    BY <1>5 DEF Grown
  <1>8. verify_inclusion(proof, t[index + 1], root_of(u))
    BY <1>1, <1>3, <1>5, <1>6, <1>7, Zenon DEF verify_inclusion
  <1>9. LET wire == encode_proof("inclusion", proof) IN
        decode_proof("inclusion", wire) = proof /\ proof # Refused
    BY <1>3, <1>6, WireFacts
  <1> QED  BY <1>4, <1>8, <1>9, Zenon DEF proof

LEMMA ConsistencyAnswered ==
  ASSUME NEW t \in Trees, NEW new \in 1..Len(t), NEW old \in 1..new
  PROVE  LET wire == encode_proof("consistency", prove_consistency(t, old, new)) IN
         /\ decode_proof("consistency", wire) # Refused
         /\ verify_consistency(decode_proof("consistency", wire), root_at(t, old), root_at(t, new))
  <1> DEFINE u == SubSeq(t, 1, new)
             path == collect_consistency(u, old)
             proof == prove_consistency(t, old, new)
             d == descent[new][old]
             s == d.sides
  <1>1. /\ t \in Seq(Leaves) /\ Len(t) \in Nat /\ new \in Nat /\ 1 <= new /\ new <= Len(t)
        /\ new \in Sizes /\ old \in Nat /\ 1 <= old /\ old # 0 /\ old <= new
    BY TreeFacts, SizesFacts
  <1>2. u \in Seq(Leaves) /\ Len(u) = new /\ SubSeq(u, 1, old) = SubSeq(t, 1, old)
    BY <1>1, PrefixFacts
  <1>3. proof = [first |-> old, second |-> new, path |-> path]
    BY DEF prove_consistency
  <1>4. root_at(t, new) = root_of(u) /\ root_at(t, old) = root_of(SubSeq(t, 1, old))
    BY DEF root_at
  <1> HIDE DEF u, path, proof
  <1>5. RootIn(u, 0, old) = root_at(t, old)
    <2>1. RootIn(u, 0, old) = root_of(SubSeq(u, 1, old))
      <3>1. old <= Len(u)
        BY <1>1, <1>2
      <3> QED  BY <1>1, <1>2, <3>1, PrefixFacts
    <2> QED  BY <1>2, <1>4, <2>1
  <1>6. root_of(u) = RootIn(u, 0, new)
    BY <1>2, RootWhole
  <1>7. /\ d.complete => Reaches(u, RootIn(u, 0, old), path, s, 0, old, new)
        /\ ~d.complete => Starts(u, path, s, 0, old, new)
        /\ old = new => path = <<>>
    BY <1>1, <1>2, GrowthVerifies DEF path
  <1>8. s \in Sides /\ Len(s) \in Nat
    <2>1. s \in Sides
      BY <1>1, DescentAt
    <2> QED  BY <2>1, LenProperties DEF Sides
  <1>9. /\ d.complete => Len(s) <= MAX_PROOF_LEN
        /\ ~d.complete => Len(s) + 1 <= MAX_PROOF_LEN
    BY <1>1, DepthFacts
  <1> HIDE DEF s, d
  <1>10. /\ path \in Seq(Hashes(u))
         /\ d.complete => /\ Len(path) = Len(s) /\ Kept(root_at(t, old), s, path) = root_at(t, old)
                          /\ Grown(root_at(t, old), s, path) = root_at(t, new)
         /\ ~d.complete => /\ Len(path) = Len(s) + 1 /\ Kept(path[1], s, Tail(path)) = root_at(t, old)
                           /\ Grown(path[1], s, Tail(path)) = root_at(t, new)
    <2>1. CASE d.complete
      BY <1>4, <1>5, <1>6, <1>7, <2>1 DEF Reaches
    <2>2. CASE ~d.complete
      <3>1. /\ path \in Seq(Hashes(u)) /\ path # <<>> /\ Len(Tail(path)) = Len(s)
            /\ Kept(path[1], s, Tail(path)) = root_at(t, old)
            /\ Grown(path[1], s, Tail(path)) = root_at(t, new)
        BY <1>4, <1>5, <1>6, <1>7, <2>2 DEF Starts, Reaches
      <3>2. Len(path) = Len(s) + 1
        BY <1>8, <3>1, HeadTailProperties
      <3> QED  BY <2>2, <3>1, <3>2
    <2> QED  BY <2>1, <2>2
  <1>11. Len(path) <= MAX_PROOF_LEN /\ Len(path) \in Nat
    BY <1>9, <1>10, LenProperties
  <1>12. verify_consistency(proof, root_at(t, old), root_at(t, new))
    <2>1. CASE old = new
      <3>1. path = <<>> /\ root_at(t, old) = root_at(t, new)
        BY <1>7, <2>1
      <3>2. proof.first = old /\ proof.second = new /\ proof.path = path
        BY <1>3
      <3> QED  BY <1>1, <1>11, <2>1, <3>1, <3>2 DEF verify_consistency
    <2>2. CASE old < new
      BY <1>1, <1>3, <1>8, <1>10, <1>11, <2>2, Verifies DEF s, d
    <2> QED  BY <1>1, <2>1, <2>2
  <1>13. LET wire == encode_proof("consistency", proof) IN
         decode_proof("consistency", wire) = proof /\ proof # Refused
    <2>1. proof.path = path /\ DOMAIN proof = {"first", "second", "path"}
      BY <1>3
    <2> QED  BY <1>11, <2>1, WireFacts
  <1> QED  BY <1>12, <1>13, Zenon DEF proof

(* Type correctness: each log is empty or a tree, whatever is cosigned and *)
(* accepted is a text over a root of one, and whatever is shown is a leaf. *)
THEOREM WitnessTypeCorrect == Spec => []TypeOK
  <1> DEFINE IsFun == log = [o \in Origins |-> log[o]] /\ cosigned = [w \in Honest |-> cosigned[w]]
  <1>1. Init => WitnessInv /\ IsFun
    <2>1. Init => IsFun
      BY DEF Init
    <2> QED  BY <2>1, InitInv
  <1>2. WitnessInv /\ IsFun /\ [Next]_vars => WitnessInv' /\ IsFun'
    <2>1. ASSUME IsFun, [Next]_vars PROVE IsFun'
      <3>1. \/ UNCHANGED <<log, cosigned>>
            \/ \E o \in Origins : \E s : log' = [log EXCEPT ![o] = s] /\ cosigned' = cosigned
            \/ \E w \in Honest : \E T : cosigned' = [cosigned EXCEPT ![w] = T] /\ log' = log
        BY <2>1 DEF Next, Extend, Rewind, Cosign, Accept, Show, vars
      <3> QED  BY <2>1, <3>1
    <2> QED  BY <2>1, NextInv
  <1>3. ASSUME WitnessInv, IsFun PROVE TypeOK
    <2>1. \A o \in Origins : log[o] \in Trees \cup {<<>>}
      BY <1>3, LogIsTree DEF WitnessInv, LogInv
    <2>2. log \in [Origins -> Trees \cup {<<>>}]
      BY <1>3, <2>1
    <2>3. cosigned \in [Honest -> SUBSET Texts]
      <3>1. \A w \in Honest : cosigned[w] \in SUBSET Texts
        BY <1>3 DEF WitnessInv, CosignedInv
      <3> QED  BY <1>3, <3>1
    <2>4. accepted \in SUBSET Texts
      BY <1>3 DEF WitnessInv, AcceptedInv
    <2>5. ASSUME NEW s \in shown PROVE s \in [index : 0..Max(Sizes), leaf : Leaves]
      <3>1. PICK t \in accepted : <<HeadOf(t), s>> \in Proves
        BY <1>3, <2>5 DEF WitnessInv, ShownInv
      <3>2. <<HeadOf(t), s>> \in {<<g, [index |-> i, leaf |-> l]>> :
                                     g \in Heads, i \in 0..Max(Sizes), l \in Leaves}
        BY <3>1 DEF Proves
      <3> QED  BY <3>2
    <2> QED  BY <2>2, <2>3, <2>4, <2>5 DEF TypeOK
  <1> QED  BY <1>1, <1>2, <1>3, PTL DEF Spec

(* One history: of any two texts verify_witnessed accepted, by any         *)
(* clients, at any time, whatever the operator and the dishonest           *)
(* witnesses signed, some path leads from the smaller to the larger one    *)
(* (verify_consistency), and at one size they have one root.               *)
OneHistory ==
  \A t, u \in accepted :
    /\ t.size = u.size => t.root = u.root
    /\ t.size <= u.size => Linked(t.size, t.root, u.size, u.root)

THEOREM HistoryTheorem == Spec => []OneHistory
  <1>1. Init => WitnessInv
    BY InitInv
  <1>2. WitnessInv /\ [Next]_vars => WitnessInv'
    BY NextInv
  <1>3. WitnessInv => OneHistory
    BY AcceptedLinks, AcceptedRoots DEF OneHistory, LinkedTexts
  <1> QED  BY <1>1, <1>2, <1>3, PTL DEF Spec

(* NoSplitView for every list of witnesses, threshold, operator and set of *)
(* logs: the path is one of hashes of the larger tree and within the       *)
(* length a verifier takes, so it is a proof somebody can send.            *)
THEOREM NoSplitTheorem == Spec => []NoSplitView
  <1>1. Init => WitnessInv
    BY InitInv
  <1>2. WitnessInv /\ [Next]_vars => WitnessInv'
    BY NextInv
  <1>3. ASSUME WitnessInv, NEW t \in accepted, NEW u \in accepted, t.size <= u.size
        PROVE  <<HeadOf(t), HeadOf(u)>> \in Follows
    <2>1. t \in Texts /\ u \in Texts /\ Linked(t.size, t.root, u.size, u.root)
      BY <1>3, AcceptedLinks DEF LinkedTexts
    <2> QED  BY <1>3, <2>1, TextFacts, LinkedFollows
  <1>4. WitnessInv => NoSplitView
    BY <1>3, AcceptedRoots DEF NoSplitView
  <1> QED  BY <1>1, <1>2, <1>4, PTL DEF Spec

(* The two verifiers agree for trees of every size: an entry that          *)
(* verify_inclusion proves under a root is the only one it can prove in    *)
(* that place under any root verify_consistency leads to.                  *)
THEOREM PlacesTheorem == PlacesAgree
  <1> SUFFICES ASSUME NEW a \in Proves, NEW b \in Proves, <<a[1], b[1]>> \in Follows,
                      a[2].index = b[2].index
               PROVE  a[2].leaf = b[2].leaf
    BY DEF PlacesAgree
  <1> DEFINE f == a[1]
             g == b[1]
             s == a[2]
             r == b[2]
  <1>1. a = <<f, s>> /\ b = <<g, r>>
    BY DEF Proves
  <1>2. <<f, s>> \in Proves /\ <<g, r>> \in Proves
    BY <1>1
  <1>3. <<f, g>> \in Follows /\ s.index = r.index
    OBVIOUS
  <1> HIDE DEF f, g, s, r
  <1>4. /\ f.size \in Nat /\ s.index \in Nat /\ s.index < f.size
        /\ InTree(f.size, f.root, s.index, s.leaf)
    BY <1>2, ProvesFacts
  <1>5. g.size \in Nat /\ InTree(g.size, g.root, s.index, r.leaf)
    BY <1>2, <1>3, ProvesFacts
  <1>6. f.size <= g.size /\ Linked(f.size, f.root, g.size, g.root)
    BY <1>3, FollowsFacts
  <1>7. s.leaf = r.leaf
    BY <1>4, <1>5, <1>6, PlaceKept
  <1> QED  BY <1>7 DEF s, r

(* ProofsMeanTheTruth for logs of every size: whatever path the operator   *)
(* sends, verify_consistency leads to the root of a log from the roots of  *)
(* its prefixes and from no other, and every proof prove_inclusion and     *)
(* prove_consistency write is read back and verifies.                      *)
THEOREM ProofsTheorem == Spec => []ProofsMeanTheTruth
  <1>1. Init => WitnessInv
    BY InitInv
  <1>2. WitnessInv /\ [Next]_vars => WitnessInv'
    BY NextInv
  <1>3. ASSUME WitnessInv PROVE ProofsMeanTheTruth
    <2>1. ASSUME NEW o \in Origins, log[o] # <<>> PROVE log[o] \in Ancestral \cap Answering
      <3>1. log[o] \in Trees
        BY <1>3, <2>1, LogIsTree DEF WitnessInv, LogInv
      <3>2. Answers(log[o])
        BY <3>1, InclusionAnswered, ConsistencyAnswered, Zenon DEF Answers
      <3> QED  BY <3>1, <3>2, TreesAncestral DEF Answering
    <2> QED  BY <2>1, Composes, PlacesTheorem DEF ProofsMeanTheTruth
  <1> QED  BY <1>1, <1>2, <1>3, PTL DEF Spec

(* ShownNeverMoves in the same generality: an entry verify_inclusion       *)
(* proved to one client under an accepted text is in its place for every   *)
(* client and every text accepted ever after.                              *)
THEOREM ShownTheorem == Spec => []ShownNeverMoves
  <1>1. Init => WitnessInv
    BY InitInv
  <1>2. WitnessInv /\ [Next]_vars => WitnessInv'
    BY NextInv
  <1>3. ASSUME WitnessInv PROVE ShownNeverMoves
    <2> SUFFICES ASSUME NEW s \in shown, NEW r \in shown, s.index = r.index
                 PROVE  s.leaf = r.leaf
      BY DEF ShownNeverMoves
    <2>1. PICK t \in accepted : <<HeadOf(t), s>> \in Proves
      BY <1>3 DEF WitnessInv, ShownInv
    <2>2. PICK u \in accepted : <<HeadOf(u), r>> \in Proves
      BY <1>3 DEF WitnessInv, ShownInv
    <2>3. t \in Texts /\ u \in Texts /\ LinkedTexts(t, u) /\ LinkedTexts(u, t)
      BY <1>3, AcceptedLinks
    <2>4. /\ HeadOf(t).size = t.size /\ HeadOf(t).root = t.root /\ t.size \in Nat
          /\ HeadOf(u).size = u.size /\ HeadOf(u).root = u.root /\ u.size \in Nat
      BY <2>3, TextFacts
    <2>5. s.index \in Nat /\ s.index < t.size /\ InTree(t.size, t.root, s.index, s.leaf)
      BY <2>1, <2>4, ProvesFacts
    <2>6. s.index < u.size /\ InTree(u.size, u.root, s.index, r.leaf)
      BY <2>2, <2>4, ProvesFacts
    <2>7. CASE t.size <= u.size
      BY <2>3, <2>4, <2>5, <2>6, <2>7, PlaceKept DEF LinkedTexts
    <2>8. CASE u.size <= t.size
      BY <2>3, <2>4, <2>5, <2>6, <2>8, PlaceKept DEF LinkedTexts
    <2> QED  BY <2>4, <2>7, <2>8
  <1> QED  BY <1>1, <1>2, <1>3, PTL DEF Spec

=============================================================================
