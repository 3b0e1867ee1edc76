--------------------------- MODULE CursorTheorems ---------------------------
(***************************************************************************)
(* Counters that wrap, and the cells of a ring they select: the arithmetic *)
(* that the proofs about rings rest on.  Then induction over numbers, from *)
(* the well-foundedness of inclusion on a finite set's subsets, and what   *)
(* functions defined by recursion and sequences written over are.          *)
(***************************************************************************)
EXTENDS Integers, FiniteSetTheorems, SequenceTheorems, TLAPS

\* What is left after whole turns of m is determined.
LEMMA TurnsUnique ==
  ASSUME NEW m \in Nat \ {0}, NEW q \in Int, NEW r \in 0 .. m - 1,
         NEW p \in Int, NEW s \in 0 .. m - 1, m * q + r = m * p + s
  PROVE  q = p /\ r = s
<1>1. ASSUME NEW a \in Int, NEW b \in Int, a > b PROVE m * a >= m * b + m
  <2>1. m * (a - b) >= m
    BY <1>1
  <2>2. m * (a - b) = m * a - m * b
    OBVIOUS
  <2>3. m * a \in Int /\ m * b \in Int
    OBVIOUS
  <2>4. QED
    BY <2>1, <2>2, <2>3
<1>2. m * q \in Int /\ m * p \in Int
  OBVIOUS
<1>3. ~ (q > p)
  BY <1>1, <1>2
<1>4. ~ (p > q)
  BY <1>1, <1>2
<1>5. QED
  BY <1>2, <1>3, <1>4

\* A counter is whole turns and a rest.
LEMMA ModSplit ==
  ASSUME NEW m \in Nat \ {0}, NEW x \in Int
  PROVE  \E q \in Int, r \in 0 .. m - 1 : x = m * q + r /\ x % m = r
<1>1. x = m * (x \div m) + (x % m) /\ x % m \in 0 .. m - 1 /\ x \div m \in Int
  OBVIOUS
<1>2. QED
  BY <1>1, Zenon

\* Any way to split off whole turns gives the rest.
LEMMA ModIs ==
  ASSUME NEW m \in Nat \ {0}, NEW q \in Int, NEW r \in 0 .. m - 1
  PROVE  (m * q + r) % m = r
<1>1. m * q + r \in Int
  OBVIOUS
<1>2. PICK p \in Int, s \in 0 .. m - 1 : m * q + r = m * p + s /\ (m * q + r) % m = s
  BY <1>1, ModSplit, Zenon
<1>3. r = s
  BY <1>2, TurnsUnique
<1>4. QED
  BY <1>2, <1>3, Zenon

\* A wrapped counter stays in its range.
LEMMA ModRange ==
  ASSUME NEW m \in Nat \ {0}, NEW x \in Int
  PROVE  x % m \in 0 .. m - 1
OBVIOUS

\* The quotient and the remainder of a division with remainder.
LEMMA DivIs ==
  ASSUME NEW m \in Nat \ {0}, NEW q \in Int, NEW r \in 0 .. m - 1
  PROVE  (m * q + r) \div m = q
<1> DEFINE x == m * q + r
<1>1. x \in Int
  OBVIOUS
<1>2. x = m * (x \div m) + (x % m) /\ x % m \in 0 .. m - 1 /\ x \div m \in Int
  BY <1>1
<1>3. m * (x \div m) + (x % m) = m * q + r
  BY <1>2
<1>4. x \div m = q
  <2> HIDE DEF x
  <2>1. QED
    BY <1>2, <1>3, TurnsUnique
<1>5. QED
  BY <1>4

LEMMA DivSplit ==
  ASSUME NEW m \in Nat \ {0}, NEW x \in Nat
  PROVE  \E q \in Nat, r \in 0 .. m - 1 : x = m * q + r
<1>1. x = m * (x \div m) + (x % m) /\ x % m \in 0 .. m - 1 /\ x \div m \in Int
  OBVIOUS
<1>2. x \div m >= 0
  OBVIOUS
<1>3. x \div m \in Nat
  BY <1>1, <1>2
<1>4. QED
  BY <1>1, <1>3, Zenon

\* A number is whole turns and a rest, and these are what division gives.
LEMMA DivModSplit ==
  ASSUME NEW m \in Nat \ {0}, NEW x \in Nat
  PROVE  \E q \in Nat, r \in 0 .. m - 1 : x = m * q + r /\ x \div m = q /\ x % m = r
<1>1. PICK q \in Nat, r \in 0 .. m - 1 : x = m * q + r
  BY DivSplit, Zenon
<1>2. (m * q + r) \div m = q /\ (m * q + r) % m = r
  BY DivIs, ModIs
<1>3. QED
  BY <1>1, <1>2, Zenon

\* Less than a turn is left as it is.
LEMMA ModSmall ==
  ASSUME NEW m \in Nat \ {0}, NEW x \in 0 .. m - 1
  PROVE  x % m = x
<1>1. (m * 0 + x) % m = x
  BY ModIs
<1>2. QED
  BY <1>1

\* A turn more or less makes no difference.
LEMMA ModTurn ==
  ASSUME NEW m \in Nat \ {0}, NEW x \in Int, NEW q \in Int
  PROVE  (x + m * q) % m = x % m
<1>1. PICK p \in Int, r \in 0 .. m - 1 : x = m * p + r /\ x % m = r
  BY ModSplit, Zenon
<1>2. x + m * q = m * (p + q) + r
  BY <1>1
<1>3. (m * (p + q) + r) % m = r
  BY ModIs
<1>4. QED
  BY <1>1, <1>2, <1>3, Zenon

\* Nor does wrapping before adding.
LEMMA ModPlus ==
  ASSUME NEW m \in Nat \ {0}, NEW x \in Int, NEW y \in Int
  PROVE  ((x % m) + y) % m = (x + y) % m
<1>1. PICK p \in Int, r \in 0 .. m - 1 : x = m * p + r /\ x % m = r
  BY ModSplit, Zenon
<1>2. x + y = (r + y) + m * p /\ r + y \in Int
  BY <1>1
<1>3. ((r + y) + m * p) % m = (r + y) % m
  BY <1>2, ModTurn, Zenon
<1>4. QED
  BY <1>1, <1>2, <1>3, Zenon

\* The sum of a counter and a distance of less than a turn, without division.
LEMMA ModStep ==
  ASSUME NEW m \in Nat \ {0}, NEW x \in 0 .. m - 1, NEW y \in 0 .. m - 1
  PROVE  /\ (x + y) % m = IF x + y < m THEN x + y ELSE x + y - m
         /\ (x - y) % m = IF x >= y THEN x - y ELSE x - y + m
<1>1. (x + y) % m = IF x + y < m THEN x + y ELSE x + y - m
  <2>1. CASE x + y < m
    BY <2>1, ModSmall
  <2>2. CASE x + y >= m
    <3>1. x + y - m \in 0 .. m - 1 /\ (x + y - m) + m * 1 = x + y
      BY <2>2
    <3>2. ((x + y - m) + m * 1) % m = (x + y - m) % m
      <4>1. x + y - m \in Int
        OBVIOUS
      <4>2. QED
        BY <4>1, 1 \in Int, ModTurn, Zenon
    <3>3. QED
      BY <2>2, <3>1, <3>2, ModSmall
  <2>3. QED
    BY <2>1, <2>2
<1>2. (x - y) % m = IF x >= y THEN x - y ELSE x - y + m
  <2>1. CASE x >= y
    BY <2>1, ModSmall
  <2>2. CASE x < y
    <3>1. x - y + m \in 0 .. m - 1 /\ (x - y) + m * 1 = x - y + m
      BY <2>2
    <3>2. ((x - y) + m * 1) % m = (x - y) % m
      <4>1. x - y \in Int
        OBVIOUS
      <4>2. QED
        BY <4>1, 1 \in Int, ModTurn, Zenon
    <3>3. QED
      BY <2>2, <3>1, <3>2, ModSmall
  <2>3. QED
    BY <2>1, <2>2
<1>3. QED
  BY <1>1, <1>2

\* Cells of a ring that are less than a lap apart are different cells.
LEMMA ModApart ==
  ASSUME NEW m \in Nat \ {0}, NEW x \in Int, NEW y \in Int, x < y, y < x + m
  PROVE  x % m # y % m
<1>1. PICK p \in Int, r \in 0 .. m - 1 : x = m * p + r /\ x % m = r
  BY ModSplit, Zenon
<1>2. PICK q \in Int, s \in 0 .. m - 1 : y = m * q + s /\ y % m = s
  BY ModSplit, Zenon
<1>3. SUFFICES ASSUME r = s PROVE FALSE
  BY <1>1, <1>2, Zenon
<1>4. DEFINE d == y - x
<1>5. d \in 1 .. m - 1
  OBVIOUS
<1>6. m * q + s = m * p + s + d
  BY <1>1, <1>2, <1>3
<1> HIDE DEF d
<1>7. m * (q - p) + 0 = m * 0 + d
  BY <1>5, <1>6
<1>8. d = 0
  <2>1. q - p \in Int /\ 0 \in 0 .. m - 1 /\ d \in 0 .. m - 1
    BY <1>5
  <2>2. QED
    BY <1>7, <2>1, TurnsUnique
<1>9. QED
  BY <1>5, <1>8

\* A counter whose turn is a whole number of laps.
LEMMA LapsPerTurn ==
  ASSUME NEW e \in Nat \ {0}, NEW m \in Nat \ {0}, m % e = 0
  PROVE  \E k \in Int : m = e * k
<1>1. m \in Int
  OBVIOUS
<1>2. PICK k \in Int, r \in 0 .. e - 1 : m = e * k + r /\ m % e = r
  BY <1>1, ModSplit, Zenon
<1>3. r = 0
  BY <1>2, Zenon
<1>4. m = e * k
  BY <1>2, <1>3
<1>5. QED
  BY <1>4
-----------------------------------------------------------------------------
\* A nonempty set of numbers has a least one.
LEMMA LeastNumber ==
  ASSUME NEW A \in SUBSET Nat, A # {}
  PROVE  \E x \in A : \A y \in A : x <= y
<1>1. PICK n \in A : TRUE
  OBVIOUS
<1> DEFINE S == 0 .. n
           Below == {0 .. m : m \in A \cap S}
<1>2. IsFiniteSet(S)
  <2>1. 0 \in Int /\ n \in Int
    OBVIOUS
  <2>2. QED
    BY <2>1, FS_Interval
<1>3. IsWellFoundedOn(StrictSubsetOrdering(S), SUBSET S)
  <2>1. FiniteSubsetsOf(S) = SUBSET S
    BY <1>2, FS_FiniteSubsetsOfFinite
  <2>2. QED
    BY <2>1, FS_StrictSubsetOrderingWellFounded
<1>4. Below \subseteq SUBSET S /\ Below # {}
  <2>1. n \in A \cap S
    OBVIOUS
  <2>2. \A m \in A \cap S : 0 .. m \subseteq S
    OBVIOUS
  <2>3. QED
    BY <2>1, <2>2
<1>5. PICK L \in Below : \A M \in Below : ~ (<<M, L>> \in StrictSubsetOrdering(S))
  BY <1>3, <1>4, WFMin
<1>6. PICK x \in A \cap S : L = 0 .. x
  OBVIOUS
<1>7. ASSUME NEW y \in A, y < x PROVE FALSE
  <2>1. y \in A \cap S
    BY <1>7
  <2>2. 0 .. y \in Below
    BY <2>1
  <2>3. 0 .. y \subseteq 0 .. x /\ x \notin 0 .. y /\ x \in 0 .. x
    BY <1>7
  <2>4. 0 .. y \in SUBSET S /\ 0 .. x \in SUBSET S /\ 0 .. y # 0 .. x
    BY <2>2, <2>3, <1>4, <1>6
  <2>5. <<0 .. y, 0 .. x>> \in StrictSubsetOrdering(S)
    BY <2>3, <2>4 DEF StrictSubsetOrdering
  <2>6. QED
    BY <2>2, <2>5, <1>5, <1>6
<1>8. \A y \in A : x <= y
  BY <1>7
<1>9. QED
  BY <1>6, <1>8

\* Numbers by induction: what holds of 0 and goes from each to the next.
LEMMA NumbersReached ==
  ASSUME NEW T \in SUBSET Nat, 0 \in T, \A n \in T : n + 1 \in T
  PROVE  T = Nat
<1>1. SUFFICES ASSUME Nat \ T # {} PROVE FALSE
  OBVIOUS
<1>2. PICK x \in Nat \ T : \A y \in Nat \ T : x <= y
  <2>1. Nat \ T \in SUBSET Nat
    OBVIOUS
  <2>2. QED
    BY <1>1, <2>1, LeastNumber
<1>3. x - 1 \in Nat /\ ~(x <= x - 1)
  BY <1>2
<1>4. x - 1 \in T
  BY <1>2, <1>3
<1>5. x - 1 + 1 = x
  BY <1>2
<1>6. QED
  BY <1>2, <1>4, <1>5

\* f[n] is a with G applied to it n times.
Iterated(f, G, a, N) == f = [n \in 0 .. N |-> IF n = 0 THEN a ELSE G[f[n - 1]]]

\* There is such a function.
LEMMA Iterates ==
  ASSUME NEW S, NEW G \in [S -> S], NEW a \in S, NEW N \in Nat
  PROVE  \E f \in [0 .. N -> S] : Iterated(f, G, a, N)
<1> DEFINE Right(m, f) == f = [n \in 0 .. m |-> IF n = 0 THEN a ELSE G[f[n - 1]]]
           T == {m \in Nat : \E f \in [0 .. m -> S] : Right(m, f)}
<1>1. 0 \in T
  <2> DEFINE f == [n \in 0 .. 0 |-> a]
  <2>1. f \in [0 .. 0 -> S] /\ \A n \in 0 .. 0 : n = 0
    OBVIOUS
  <2>2. Right(0, f)
    BY <2>1
  <2>3. QED
    BY <2>1, <2>2
<1>2. ASSUME NEW m \in T PROVE m + 1 \in T
  <2>1. m \in Nat
    OBVIOUS
  <2>2. PICK f \in [0 .. m -> S] : Right(m, f)
    OBVIOUS
  <2> DEFINE g == [n \in 0 .. m + 1 |-> IF n = m + 1 THEN G[f[m]] ELSE f[n]]
  <2>3. g \in [0 .. m + 1 -> S]
    <3>1. G[f[m]] \in S
      BY <2>1
    <3>2. \A n \in 0 .. m + 1 : n # m + 1 => n \in 0 .. m
      BY <2>1
    <3>3. QED
      BY <3>1, <3>2
  <2>4. ASSUME NEW n \in 0 .. m + 1 PROVE g[n] = IF n = 0 THEN a ELSE G[g[n - 1]]
    <3>1. CASE n = m + 1
      <4>1. n # 0 /\ n - 1 = m /\ m \in 0 .. m + 1 /\ m # m + 1
        BY <2>1, <3>1
      <4>2. QED
        BY <4>1, <3>1
    <3>2. CASE n # m + 1
      <4>1. n \in 0 .. m /\ (n # 0 => n - 1 \in 0 .. m /\ n - 1 \in 0 .. m + 1 /\ n - 1 # m + 1)
        BY <2>1, <3>2
      <4>2. f[n] = IF n = 0 THEN a ELSE G[f[n - 1]]
        BY <4>1, <2>2
      <4>3. QED
        BY <4>1, <4>2, <3>2
    <3>3. QED
      BY <3>1, <3>2
  <2>5. Right(m + 1, g)
    <3> HIDE DEF g
    <3>1. QED
      BY <2>3, <2>4
  <2>6. m + 1 \in Nat
    BY <2>1
  <2>7. \E h \in [0 .. m + 1 -> S] : Right(m + 1, h)
    <3> HIDE DEF g, Right
    <3>1. QED
      BY <2>3, <2>5, Zenon
  <2>8. QED
    <3> HIDE DEF g, Right
    <3>1. QED
      BY <2>6, <2>7, Zenon
<1>3. T = Nat
  <2>1. T \in SUBSET Nat
    OBVIOUS
  <2> HIDE DEF T
  <2>2. QED
    BY <1>1, <1>2, <2>1, NumbersReached
<1>4. QED
  BY <1>3 DEF Iterated

IsOver(S, L, n, v, old, new, value) ==
  /\ L \in Nat /\ n \in Nat /\ n < L /\ v \in S
  /\ old \in [1 .. L -> S] /\ new \in [1 .. L -> S] /\ value \in [1 .. n -> S]
  /\ \A i \in 1 .. L : new[i] = IF i <= n THEN v ELSE old[i]
  /\ \A i \in 1 .. n : value[i] = v

\* A sequence written over from its start is what was written and the rest.
LEMMA Overwritten ==
  ASSUME NEW S, NEW L, NEW n, NEW v, NEW old, NEW new, NEW value, IsOver(S, L, n, v, old, new, value)
  PROVE  /\ Len(value) = n /\ Len(old) = L /\ Len(new) = L
         /\ new = value \o SubSeq(old, Len(value) + 1, Len(old))
<1>0. /\ L \in Nat /\ n \in Nat /\ n < L /\ v \in S
      /\ old \in [1 .. L -> S] /\ new \in [1 .. L -> S] /\ value \in [1 .. n -> S]
      /\ \A i \in 1 .. L : new[i] = IF i <= n THEN v ELSE old[i]
      /\ \A i \in 1 .. n : value[i] = v
  BY DEF IsOver
<1>1. value \in Seq(S) /\ Len(value) = n /\ \A i \in 1 .. n : value[i] = v
  <2>1. value \in [1 .. n -> S]
    BY <1>0
  <2>2. value \in Seq(S)
    BY <1>0, <2>1
  <2>3. DOMAIN value = 1 .. n
    BY <1>0
  <2>4. Len(value) = n
    BY <1>0, <2>2, <2>3
  <2>5. QED
    BY <1>0, <2>2, <2>4
<1>2. old \in Seq(S) /\ Len(old) = L
  <2>1. old \in Seq(S)
    BY <1>0
  <2>2. QED
    BY <1>0, <2>1
<1>3. new \in Seq(S) /\ Len(new) = L
  <2>1. new \in [1 .. L -> S]
    BY <1>0
  <2>2. new \in Seq(S)
    BY <1>0, <2>1
  <2>3. QED
    BY <1>0, <2>1, <2>2
<1> DEFINE rest == SubSeq(old, n + 1, L)
<1>4. rest \in Seq(S) /\ Len(rest) = L - n /\ \A i \in 1 .. L - n : rest[i] = old[n + i]
  <2>1. n + 1 \in 1 .. L + 1 /\ L \in n + 1 - 1 .. L
    BY <1>0
  <2>2. rest \in Seq(S)
    BY <1>0, <1>2, <2>1
  <2>3. Len(rest) = L - n
    BY <1>0, <1>2, <2>1
  <2>4. \A i \in 1 .. L - n : rest[i] = old[n + i]
    BY <1>0, <1>2, <2>1
  <2>5. QED
    BY <1>0, <2>2, <2>3, <2>4
<1> HIDE DEF rest
<1>5. /\ Len(value \o rest) = L
      /\ \A i \in 1 .. L : (value \o rest)[i] = IF i <= n THEN v ELSE old[i]
      /\ value \o rest \in Seq(S)
  <2>1. /\ value \o rest \in Seq(S)
        /\ Len(value \o rest) = n + (L - n)
        /\ \A i \in 1 .. n + (L - n) : (value \o rest)[i] = IF i <= n THEN value[i] ELSE rest[i - n]
    <3>1. /\ value \o rest \in Seq(S)
          /\ Len(value \o rest) = Len(value) + Len(rest)
          /\ \A i \in 1 .. Len(value) + Len(rest) :
               (value \o rest)[i] = IF i <= Len(value) THEN value[i] ELSE rest[i - Len(value)]
      BY ONLY <1>1, <1>4, ConcatProperties
    <3>2. QED
      BY <1>0, <3>1, <1>1, <1>4
  <2>2. n + (L - n) = L
    BY <1>0
  <2>3. ASSUME NEW i \in 1 .. L PROVE (value \o rest)[i] = IF i <= n THEN v ELSE old[i]
    <3>1. CASE i <= n
      BY <1>0, <3>1, <2>1, <2>2, <1>1
    <3>2. CASE ~(i <= n)
      <4>1. i - n \in 1 .. L - n /\ n + (i - n) = i
        BY <1>0, <3>2
      <4>2. rest[i - n] = old[i]
        BY <1>0, <4>1, <1>4
      <4>3. QED
        BY <1>0, <3>2, <4>2, <2>1, <2>2
    <3>3. QED
      BY <1>0, <3>1, <3>2
  <2>4. QED
    BY <1>0, <2>1, <2>2, <2>3
<1>6. new = value \o rest
  <2>1. \A i \in 1 .. L : new[i] = (value \o rest)[i]
    BY <1>0, <1>5
  <2>2. Len(new) = Len(value \o rest)
    BY <1>3, <1>5
  <2>3. QED
    BY <1>0, <2>1, <2>2, <1>3, <1>5, SeqEqual
<1>7. QED
  BY <1>0, <1>1, <1>2, <1>3, <1>6 DEF rest

-----------------------------------------------------------------------------
(* Stretches of a ring                                                     *)

\* Positions of a ring of d cells: the next one, and those from one up to another.
After1(i, d) == IF i = d - 1 THEN 0 ELSE i + 1
Between(from, to, d) == {i \in 0 .. d - 1 : IF from <= to THEN from <= i /\ i < to ELSE from <= i \/ i < to}

\* One position on, without division.
LEMMA Turning ==
  ASSUME NEW d \in Nat \ {0}, NEW i \in 0 .. d - 1
  PROVE  (i + 1) % d = After1(i, d) /\ After1(i, d) \in 0 .. d - 1
<1>1. CASE d = 1
  <2>1. i = 0 /\ i + 1 = 0 + d * 1
    BY <1>1
  <2>2. (0 + d * 1) % d = 0 % d /\ 0 % d = 0
    BY ModTurn, ModSmall
  <2>3. QED
    BY <1>1, <2>1, <2>2 DEF After1
<1>2. CASE d > 1
  <2>1. 1 \in 0 .. d - 1
    BY <1>2
  <2>2. (i + 1) % d = IF i + 1 < d THEN i + 1 ELSE i + 1 - d
    BY <2>1, ModStep, Zenon
  <2>3. QED
    BY <2>2 DEF After1
<1>3. QED
  BY <1>1, <1>2

\* A stretch of the ring grows at its end and shrinks at its start.
LEMMA Stretch ==
  ASSUME NEW d \in Nat \ {0}, NEW from \in 0 .. d - 1, NEW to \in 0 .. d - 1
  PROVE  /\ Between(from, to, d) \subseteq 0 .. d - 1 /\ to \notin Between(from, to, d)
         /\ from = to <=> Between(from, to, d) = {}
         /\ from # to => from \in Between(from, to, d)
         /\ IsFiniteSet(Between(from, to, d))
<1>1. Between(from, to, d) \subseteq 0 .. d - 1 /\ to \notin Between(from, to, d)
  BY DEF Between
<1>2. from # to => from \in Between(from, to, d)
  BY DEF Between
<1>3. from = to => Between(from, to, d) = {}
  BY DEF Between
<1>4. IsFiniteSet(Between(from, to, d))
  <2>1. 0 \in Int /\ d - 1 \in Int
    OBVIOUS
  <2>2. IsFiniteSet(0 .. d - 1)
    BY <2>1, FS_Interval
  <2>3. QED
    BY <1>1, <2>2, FS_Subset
<1>5. QED
  BY <1>1, <1>2, <1>3, <1>4

LEMMA StretchGrows ==
  ASSUME NEW d \in Nat \ {0}, NEW from \in 0 .. d - 1, NEW to \in 0 .. d - 1, After1(to, d) # from
  PROVE  Between(from, After1(to, d), d) = Between(from, to, d) \cup {to}
BY DEF Between, After1

LEMMA StretchShrinks ==
  ASSUME NEW d \in Nat \ {0}, NEW from \in 0 .. d - 1, NEW to \in 0 .. d - 1, from # to
  PROVE  Between(After1(from, d), to, d) = Between(from, to, d) \ {from}
BY DEF Between, After1

\* With room for one more the end does not meet the start.
LEMMA StretchRoom ==
  ASSUME NEW d \in Nat \ {0}, NEW from \in 0 .. d - 1, NEW to \in 0 .. d - 1,
         Cardinality(Between(from, to, d)) < d - 1
  PROVE  After1(to, d) # from
<1>1. SUFFICES ASSUME After1(to, d) = from PROVE FALSE
  OBVIOUS
<1>2. Between(from, to, d) = (0 .. d - 1) \ {to}
  BY <1>1 DEF Between, After1
<1>3. IsFiniteSet(0 .. d - 1) /\ Cardinality(0 .. d - 1) = d
  BY FS_Interval
<1>4. Cardinality((0 .. d - 1) \ {to}) = d - 1
  <2>1. to \in 0 .. d - 1
    OBVIOUS
  <2>2. Cardinality((0 .. d - 1) \ {to}) = Cardinality(0 .. d - 1) - 1
    BY <1>3, <2>1, FS_RemoveElement, Zenon
  <2>3. QED
    BY <1>3, <2>2
<1>5. QED
  BY <1>2, <1>4

\* Part of a stretch from the same start: the same end moves, or the start.
LEMMA StretchPart ==
  ASSUME NEW d \in Nat \ {0}, NEW from \in 0 .. d - 1, NEW mid \in 0 .. d - 1, NEW to \in 0 .. d - 1,
         Between(from, mid, d) \subseteq Between(from, to, d)
  PROVE  /\ from # mid => from # to
         /\ from # mid => Between(After1(from, d), mid, d) \subseteq Between(After1(from, d), to, d)
<1>1. from # mid => from # to
  BY Stretch
<1>2. QED
  BY <1>1, StretchShrinks
=============================================================================
