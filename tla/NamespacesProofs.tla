-------------------------- MODULE NamespacesProofs --------------------------
(***************************************************************************)
(* Theorems about the namespaces of a device.  First the conventional FTL, *)
(* for any flash geometry, any number of lines with the spares over-       *)
(* provisioning leaves, and any buffer that holds the longest command: the *)
(* map and its reverse agree, every line is in one place with the right    *)
(* counts, both writers always find a free line, and buffer space comes    *)
(* back.  The writers find one because the credits bound what is written   *)
(* between two collections, and a collection returns a line for the pages  *)
(* it copies (Enough).  That a collection copies every valid page before   *)
(* it erases its block rests on the order in which it goes through a line  *)
(* (VisitsAll).                                                            *)
(* Then the zoned FTL: its counts of open and active zones, the checks of  *)
(* which bound what a host may open, are those of the zones, for any       *)
(* number of zones, any capacity and any host; and its write buffers, of   *)
(* which a careful host loses nothing.  Then the key-value store: what its *)
(* chains are, what every command does to them, and that it is a           *)
(* dictionary.  Last, the types of all of them.                            *)
(***************************************************************************)
EXTENDS Namespaces, ConvFtlInv, CursorTheorems, FunctionTheorems

-----------------------------------------------------------------------------
(* The order in which a collection goes through a line.                    *)

\* Flash pages in a one-shot page, and one-shot pages in a block.
Parts == PgsPerOneshot \div PgsPerFlashpg
Words == PgsPerBlk \div PgsPerOneshot

LEMMA Sizes ==
  /\ Units \in Nat \ {0} /\ PgsPerFlashpg \in Nat \ {0} /\ Parts \in Nat \ {0} /\ Words \in Nat \ {0}
  /\ PgsPerOneshot = PgsPerFlashpg * Parts
  /\ PgsPerBlk = PgsPerOneshot * Words
  /\ PgsPerOneshot \in Nat \ {0} /\ PgsPerBlk \in Nat \ {0} /\ PgsPerLine \in Nat \ {0}
<1>1. /\ Units \in Nat \ {0} /\ PgsPerFlashpg \in Nat \ {0} /\ PgsPerOneshot \in Nat \ {0}
      /\ PgsPerBlk \in Nat \ {0}
  BY ConvAssumption
<1>2. ASSUME NEW m \in Nat \ {0}, NEW x \in Nat \ {0}, x % m = 0
      PROVE  x = m * (x \div m) /\ x \div m \in Nat \ {0}
  <2>1. x = m * (x \div m) + (x % m) /\ x \div m \in Int
    OBVIOUS
  <2>2. x = m * (x \div m)
    BY <2>1, <1>2
  <2>3. x \div m > 0
    BY <2>1, <2>2
  <2>4. QED
    BY <2>1, <2>2, <2>3
<1>3. PgsPerOneshot = PgsPerFlashpg * Parts /\ Parts \in Nat \ {0}
  <2>1. PgsPerOneshot % PgsPerFlashpg = 0
    BY ConvAssumption
  <2>2. QED
    BY <1>1, <1>2, <2>1 DEF Parts
<1>4. PgsPerBlk = PgsPerOneshot * Words /\ Words \in Nat \ {0}
  <2>1. PgsPerBlk % PgsPerOneshot = 0
    BY ConvAssumption
  <2>2. QED
    BY <1>1, <1>2, <2>1 DEF Words
<1>5. PgsPerLine \in Nat \ {0}
  BY <1>1 DEF PgsPerLine
<1>6. QED
  BY <1>1, <1>3, <1>4, <1>5

\* The visit, and the place of the page visited, in their digits: one-shot page w of
\* its block, flash page j of that, unit u, page o of the flash page.
Visit(w, j, u, o) == PgsPerFlashpg * (Units * (Parts * w + j) + u) + o
Place(w, j, u, o) == PgsPerFlashpg * (Parts * (Units * w + u) + j) + o

LEMMA Within ==
  ASSUME NEW m \in Nat \ {0}, NEW k \in Nat \ {0}, NEW x \in 0 .. k - 1, NEW y \in 0 .. m - 1
  PROVE  m * x + y \in 0 .. m * k - 1
<1>1. m * (k - 1 - x) >= 0
  OBVIOUS
<1>2. m * (k - 1 - x) = m * k - m - m * x /\ m * k \in Int /\ m * x \in Nat
  OBVIOUS
<1>3. QED
  BY <1>1, <1>2

LEMMA PlaceIs ==
  ASSUME NEW w \in Nat, NEW j \in 0 .. Parts - 1, NEW u \in 0 .. Units - 1,
         NEW o \in 0 .. PgsPerFlashpg - 1
  PROVE  /\ PlaceAt(Visit(w, j, u, o)) = Place(w, j, u, o)
         /\ Visit(w, j, u, o) \div (Units * PgsPerFlashpg) = Parts * w + j
         /\ Visit(w, j, u, o) % PgsPerFlashpg = o
         /\ UnitOf(Place(w, j, u, o)) = u
<1> DEFINE F == PgsPerFlashpg
           O == PgsPerOneshot
           U == Units
           m == Parts * w + j
           n == F * (U * m + u) + o
           low == F * j + o
           place == F * (Parts * (U * w + u) + j) + o
<1>1. F \in Nat \ {0} /\ O \in Nat \ {0} /\ U \in Nat \ {0} /\ Parts \in Nat \ {0} /\ O = F * Parts
  BY Sizes
<1>2. n = Visit(w, j, u, o) /\ place = Place(w, j, u, o)
  BY DEF Visit, Place
<1> HIDE DEF F, O, U
<1>3. o \in 0 .. F - 1 /\ u \in 0 .. U - 1
  BY DEF F, U
<1>4. m \in Nat /\ U * m + u \in Nat /\ U * w + u \in Nat
  BY <1>1, <1>3
<1>5. n \div (U * F) = m
  <2>1. F * u + o \in 0 .. F * U - 1
    BY <1>1, <1>3, Within
  <2>2. U * F \in Nat \ {0} /\ U * F = F * U
    BY <1>1
  <2>3. n = (U * F) * m + (F * u + o)
    BY <1>1, <1>3, <1>4
  <2> HIDE DEF n, m
  <2>4. ((U * F) * m + (F * u + o)) \div (U * F) = m
    BY <2>1, <2>2, <1>4, DivIs
  <2>5. QED
    BY <2>3, <2>4
<1>6. n % F = o
  <2> HIDE DEF m
  <2>1. U * m + u \in Int
    BY <1>4
  <2>2. QED
    BY <2>1, <1>1, <1>3, ModIs
<1>7. (n \div F) % U = u
  <2> HIDE DEF m
  <2>1. n \div F = U * m + u
    <3>1. U * m + u \in Int
      BY <1>4
    <3>2. QED
      BY <3>1, <1>1, <1>3, DivIs
  <2>2. (U * m + u) % U = u
    BY <1>1, <1>3, <1>4, ModIs
  <2>3. QED
    BY <2>1, <2>2
<1>8. low \in 0 .. O - 1
  BY <1>1, <1>3, Within
<1>9. m * F + o = O * w + low
  BY <1>1, <1>3
<1>10. (m * F + o) \div O = w /\ (m * F + o) % O = low
  <2> HIDE DEF low, m
  <2>1. (O * w + low) \div O = w /\ (O * w + low) % O = low
    BY <1>1, <1>8, DivIs, ModIs
  <2>2. QED
    BY <1>9, <2>1
<1>11. place = O * (U * w + u) + low
  BY <1>1, <1>3, <1>4
<1>12. PlaceAt(n) = w * O * U + u * O + low
  <2> HIDE DEF m, n, low
  <2>1. PlaceAt(n) = ((m * F + o) \div O) * O * U + u * O + ((m * F + o) % O)
    BY <1>5, <1>6, <1>7 DEF PlaceAt, F, O, U
  <2>2. QED
    BY <2>1, <1>10
<1>13. w * O * U + u * O + low = O * (U * w + u) + low
  <2> HIDE DEF low
  <2>1. w * O * U + u * O = O * (U * w + u)
    BY <1>1, <1>3
  <2>2. QED
    BY <2>1
<1>14. UnitOf(place) = u
  <2> HIDE DEF low, place
  <2>1. place \div O = U * w + u
    <3>1. U * w + u \in Int
      BY <1>4
    <3>2. QED
      BY <3>1, <1>1, <1>8, <1>11, DivIs
  <2>2. (U * w + u) % U = u
    BY <1>1, <1>3, ModIs
  <2>3. QED
    BY <2>1, <2>2 DEF UnitOf, O, U
<1>15. QED
  <2>1. PlaceAt(n) = place
    BY <1>11, <1>12, <1>13
  <2> HIDE DEF n, place, m
  <2>2. PlaceAt(Visit(w, j, u, o)) = Place(w, j, u, o)
    BY <2>1, <1>2
  <2>3. Visit(w, j, u, o) \div (Units * PgsPerFlashpg) = Parts * w + j
    BY <1>2, <1>5 DEF U, F, m
  <2>4. Visit(w, j, u, o) % PgsPerFlashpg = o
    BY <1>2, <1>6 DEF F
  <2>5. UnitOf(Place(w, j, u, o)) = u
    BY <1>2, <1>14
  <2>6. QED
    BY <2>2, <2>3, <2>4, <2>5

LEMMA LineSize == PgsPerLine = PgsPerFlashpg * (Units * (Parts * Words))
<1>1. PgsPerLine = Units * ((PgsPerFlashpg * Parts) * Words)
  BY Sizes DEF PgsPerLine
<1>2. QED
  BY <1>1, Sizes

\* Numbers below the size of a line have digits, in either order.
LEMMA VisitDigits ==
  ASSUME NEW n \in 0 .. PgsPerLine - 1
  PROVE  \E w \in 0 .. Words - 1, j \in 0 .. Parts - 1, u \in 0 .. Units - 1,
            o \in 0 .. PgsPerFlashpg - 1 : n = Visit(w, j, u, o)
<1> USE Sizes
<1>0. n \in Nat /\ PgsPerFlashpg \in Nat \ {0}
  OBVIOUS
<1>1. PICK q \in Nat, o \in 0 .. PgsPerFlashpg - 1 : n = PgsPerFlashpg * q + o
  BY <1>0, DivSplit, Zenon
<1>2. PICK m \in Nat, u \in 0 .. Units - 1 : q = Units * m + u
  BY DivSplit
<1>3. PICK w \in Nat, j \in 0 .. Parts - 1 : m = Parts * w + j
  BY DivSplit
<1>4. w < Words
  <2>1. SUFFICES ASSUME w >= Words PROVE FALSE
    OBVIOUS
  <2>2. m >= Parts * Words
    <3>1. Parts * w >= Parts * Words
      BY <2>1
    <3>2. QED
      BY <3>1, <1>3
  <2>3. q >= Units * (Parts * Words)
    <3>1. Units * m >= Units * (Parts * Words)
      <4>1. Parts * Words \in Nat
        OBVIOUS
      <4> DEFINE x == Parts * Words
      <4> HIDE DEF x
      <4>2. Units * m >= Units * x
        BY <2>2, <4>1 DEF x
      <4>3. QED
        BY <4>2 DEF x
    <3>2. Units * (Parts * Words) \in Nat
      OBVIOUS
    <3>3. QED
      BY <3>1, <3>2, <1>2
  <2>4. n >= PgsPerFlashpg * (Units * (Parts * Words))
    <3>1. Units * (Parts * Words) \in Nat
      OBVIOUS
    <3> DEFINE x == Units * (Parts * Words)
    <3> HIDE DEF x
    <3>2. PgsPerFlashpg * q >= PgsPerFlashpg * x
      BY <2>3, <3>1 DEF x
    <3>3. PgsPerFlashpg * x \in Nat
      BY <3>1 DEF x
    <3>4. n >= PgsPerFlashpg * x
      BY <3>2, <3>3, <1>1
    <3>5. QED
      BY <3>4 DEF x
  <2>5. QED
    BY <2>4, LineSize
<1>5. n = Visit(w, j, u, o)
  BY <1>1, <1>2, <1>3 DEF Visit
<1>6. QED
  BY <1>4, <1>5

LEMMA PlaceDigits ==
  ASSUME NEW i \in Places
  PROVE  \E w \in 0 .. Words - 1, j \in 0 .. Parts - 1, u \in 0 .. Units - 1,
            o \in 0 .. PgsPerFlashpg - 1 : i = Place(w, j, u, o)
<1> USE Sizes
<1>0. i \in 0 .. PgsPerLine - 1 /\ i \in Nat /\ PgsPerFlashpg \in Nat \ {0}
  BY DEF Places
<1>1. PICK q \in Nat, o \in 0 .. PgsPerFlashpg - 1 : i = PgsPerFlashpg * q + o
  BY <1>0, DivSplit, Zenon
<1>2. PICK m \in Nat, j \in 0 .. Parts - 1 : q = Parts * m + j
  BY DivSplit
<1>3. PICK w \in Nat, u \in 0 .. Units - 1 : m = Units * w + u
  BY DivSplit
<1>4. w < Words
  <2>1. SUFFICES ASSUME w >= Words PROVE FALSE
    OBVIOUS
  <2>2. m >= Units * Words
    <3>1. Units * w >= Units * Words
      BY <2>1
    <3>2. QED
      BY <3>1, <1>3
  <2>3. q >= Parts * (Units * Words)
    <3>1. Units * Words \in Nat
      OBVIOUS
    <3> DEFINE x == Units * Words
    <3> HIDE DEF x
    <3>2. Parts * m >= Parts * x /\ Parts * x \in Nat
      BY <2>2, <3>1 DEF x
    <3>3. QED
      BY <3>2, <1>2 DEF x
  <2>4. i >= PgsPerFlashpg * (Parts * (Units * Words))
    <3>1. Parts * (Units * Words) \in Nat
      OBVIOUS
    <3> DEFINE x == Parts * (Units * Words)
    <3> HIDE DEF x
    <3>2. PgsPerFlashpg * q >= PgsPerFlashpg * x /\ PgsPerFlashpg * x \in Nat
      BY <2>3, <3>1 DEF x
    <3>3. i >= PgsPerFlashpg * x
      BY <3>2, <1>1
    <3>4. QED
      BY <3>3 DEF x
  <2>5. PgsPerFlashpg * (Parts * (Units * Words)) = PgsPerLine
    <3>1. Parts * (Units * Words) = Units * (Parts * Words)
      OBVIOUS
    <3>2. QED
      BY <3>1, LineSize
  <2>6. QED
    BY <2>4, <2>5, <1>0
<1>5. i = Place(w, j, u, o)
  BY <1>1, <1>2, <1>3 DEF Place
<1>6. QED
  BY <1>4, <1>5

LEMMA DigitsRange ==
  ASSUME NEW w \in 0 .. Words - 1, NEW j \in 0 .. Parts - 1, NEW u \in 0 .. Units - 1,
         NEW o \in 0 .. PgsPerFlashpg - 1
  PROVE  Visit(w, j, u, o) \in 0 .. PgsPerLine - 1 /\ Place(w, j, u, o) \in Places
<1> USE Sizes
<1>1. Parts * w + j \in 0 .. Parts * Words - 1 /\ Units * w + u \in 0 .. Units * Words - 1
  BY Within
<1>2. Units * (Parts * w + j) + u \in 0 .. Units * (Parts * Words) - 1
  <2>1. Parts * Words \in Nat \ {0}
    OBVIOUS
  <2>2. QED
    BY <1>1, <2>1, Within
<1>3. Visit(w, j, u, o) \in 0 .. PgsPerFlashpg * (Units * (Parts * Words)) - 1
  <2>1. Units * (Parts * Words) \in Nat \ {0}
    OBVIOUS
  <2>2. QED
    BY <1>2, <2>1, Within DEF Visit
<1>4. Parts * (Units * w + u) + j \in 0 .. Parts * (Units * Words) - 1
  <2>1. Units * Words \in Nat \ {0}
    OBVIOUS
  <2>2. QED
    BY <1>1, <2>1, Within
<1>5. Place(w, j, u, o) \in 0 .. PgsPerFlashpg * (Parts * (Units * Words)) - 1
  <2>1. Parts * (Units * Words) \in Nat \ {0}
    OBVIOUS
  <2>2. QED
    BY <1>4, <2>1, Within DEF Place
<1>6. Parts * (Units * Words) = Units * (Parts * Words)
  OBVIOUS
<1>7. QED
  BY <1>3, <1>5, <1>6, LineSize DEF Places

LEMMA PlaceUnique ==
  ASSUME NEW w \in Nat, NEW j \in 0 .. Parts - 1, NEW u \in 0 .. Units - 1,
         NEW o \in 0 .. PgsPerFlashpg - 1,
         NEW x \in Nat, NEW k \in 0 .. Parts - 1, NEW v \in 0 .. Units - 1,
         NEW p \in 0 .. PgsPerFlashpg - 1,
         Place(w, j, u, o) = Place(x, k, v, p)
  PROVE  w = x /\ j = k /\ u = v /\ o = p
<1> USE Sizes
<1> DEFINE a == Units * w + u
           b == Units * x + v
<1>0. a \in Int /\ b \in Int
  OBVIOUS
<1> HIDE DEF a, b
<1>1. Parts * a + j \in Int /\ Parts * b + k \in Int
  BY <1>0
<1>2. Parts * a + j = Parts * b + k /\ o = p
  BY <1>1, TurnsUnique DEF Place, a, b
<1>3. a = b /\ j = k
  BY <1>0, <1>2, TurnsUnique
<1>4. w = x /\ u = v
  BY <1>3, TurnsUnique DEF a, b
<1>5. QED
  BY <1>2, <1>3, <1>4

\* The visits of a collection: each page of the line once, and of each unit the page
\* that ends its block last.
LEMMA VisitsAll ==
  /\ \A n \in 0 .. PgsPerLine - 1 : PlaceAt(n) \in Places
  /\ \A m, n \in 0 .. PgsPerLine - 1 : PlaceAt(m) = PlaceAt(n) => m = n
  /\ \A i \in Places : \E n \in 0 .. PgsPerLine - 1 : PlaceAt(n) = i
  /\ \A m, n \in 0 .. PgsPerLine - 1 :
       EndsBlock(n) /\ UnitOf(PlaceAt(m)) = UnitOf(PlaceAt(n)) => m <= n
  /\ \A i \in Places : \E n \in 0 .. PgsPerLine - 1 : EndsBlock(n) /\ UnitOf(PlaceAt(n)) = UnitOf(i)
<1> USE Sizes
<1>0. \A w \in 0 .. Words - 1 : w \in Nat
  OBVIOUS
<1>1. ASSUME NEW n \in 0 .. PgsPerLine - 1 PROVE PlaceAt(n) \in Places
  <2>1. PICK w \in 0 .. Words - 1, j \in 0 .. Parts - 1, u \in 0 .. Units - 1,
             o \in 0 .. PgsPerFlashpg - 1 : n = Visit(w, j, u, o)
    BY VisitDigits
  <2>2. QED
    BY <2>1, <1>0, PlaceIs, DigitsRange
<1>2. ASSUME NEW m \in 0 .. PgsPerLine - 1, NEW n \in 0 .. PgsPerLine - 1, PlaceAt(m) = PlaceAt(n)
      PROVE  m = n
  <2>1. PICK w \in 0 .. Words - 1, j \in 0 .. Parts - 1, u \in 0 .. Units - 1,
             o \in 0 .. PgsPerFlashpg - 1 : m = Visit(w, j, u, o)
    BY VisitDigits
  <2>2. PICK x \in 0 .. Words - 1, k \in 0 .. Parts - 1, v \in 0 .. Units - 1,
             p \in 0 .. PgsPerFlashpg - 1 : n = Visit(x, k, v, p)
    BY VisitDigits
  <2>3. Place(w, j, u, o) = Place(x, k, v, p)
    BY <1>0, <1>2, <2>1, <2>2, PlaceIs
  <2>4. w = x /\ j = k /\ u = v /\ o = p
    BY <1>0, <2>3, PlaceUnique
  <2>5. QED
    BY <2>1, <2>2, <2>4
<1>3. ASSUME NEW i \in Places PROVE \E n \in 0 .. PgsPerLine - 1 : PlaceAt(n) = i
  <2>1. PICK w \in 0 .. Words - 1, j \in 0 .. Parts - 1, u \in 0 .. Units - 1,
             o \in 0 .. PgsPerFlashpg - 1 : i = Place(w, j, u, o)
    BY PlaceDigits
  <2>2. PlaceAt(Visit(w, j, u, o)) = i /\ Visit(w, j, u, o) \in 0 .. PgsPerLine - 1
    BY <2>1, <1>0, PlaceIs, DigitsRange
  <2>3. QED
    BY <2>2
<1>4. PgsPerBlk \div PgsPerFlashpg = Parts * Words
  <2>1. PgsPerBlk = PgsPerFlashpg * (Parts * Words) + 0 /\ Parts * Words \in Int /\ 0 \in 0 .. PgsPerFlashpg - 1
    OBVIOUS
  <2>2. (PgsPerFlashpg * (Parts * Words) + 0) \div PgsPerFlashpg = Parts * Words
    BY <2>1, DivIs
  <2>3. QED
    BY <2>1, <2>2
<1>5. ASSUME NEW m \in 0 .. PgsPerLine - 1, NEW n \in 0 .. PgsPerLine - 1,
             EndsBlock(n), UnitOf(PlaceAt(m)) = UnitOf(PlaceAt(n))
      PROVE  m <= n
  <2>1. PICK w \in 0 .. Words - 1, j \in 0 .. Parts - 1, u \in 0 .. Units - 1,
             o \in 0 .. PgsPerFlashpg - 1 : m = Visit(w, j, u, o)
    BY VisitDigits
  <2>2. PICK x \in 0 .. Words - 1, k \in 0 .. Parts - 1, v \in 0 .. Units - 1,
             p \in 0 .. PgsPerFlashpg - 1 : n = Visit(x, k, v, p)
    BY VisitDigits
  <2>3. u = v
    BY <1>0, <1>5, <2>1, <2>2, PlaceIs
  <2>4. Parts * x + k = Parts * Words - 1 /\ p = PgsPerFlashpg - 1
    BY <1>0, <1>4, <1>5, <2>2, PlaceIs DEF EndsBlock
  <2> DEFINE a == Parts * w + j
             b == Parts * x + k
  <2>5. a \in Nat /\ b \in Nat /\ a <= b
    <3>1. a \in 0 .. Parts * Words - 1
      BY Within
    <3>2. QED
      BY <3>1, <2>4
  <2> HIDE DEF a, b
  <2>6. Units * a + u \in Nat /\ Units * b + u \in Nat /\ Units * a + u <= Units * b + u
    BY <2>5
  <2>7. PgsPerFlashpg * (Units * a + u) <= PgsPerFlashpg * (Units * b + u)
    BY <2>6
  <2>8. PgsPerFlashpg * (Units * a + u) + o <= PgsPerFlashpg * (Units * b + u) + p
    <3>1. PgsPerFlashpg * (Units * a + u) \in Nat /\ PgsPerFlashpg * (Units * b + u) \in Nat
      BY <2>6
    <3>2. QED
      BY <2>4, <2>7, <3>1
  <2>9. QED
    BY <2>1, <2>2, <2>3, <2>8 DEF Visit, a, b
<1>6. ASSUME NEW i \in Places
      PROVE  \E n \in 0 .. PgsPerLine - 1 : EndsBlock(n) /\ UnitOf(PlaceAt(n)) = UnitOf(i)
  <2>1. PICK w \in 0 .. Words - 1, j \in 0 .. Parts - 1, u \in 0 .. Units - 1,
             o \in 0 .. PgsPerFlashpg - 1 : i = Place(w, j, u, o)
    BY PlaceDigits
  <2> DEFINE n == Visit(Words - 1, Parts - 1, u, PgsPerFlashpg - 1)
  <2>2. Words - 1 \in 0 .. Words - 1 /\ Parts - 1 \in 0 .. Parts - 1
        /\ PgsPerFlashpg - 1 \in 0 .. PgsPerFlashpg - 1 /\ Words - 1 \in Nat
    OBVIOUS
  <2>3. n \in 0 .. PgsPerLine - 1
    BY <2>2, DigitsRange
  <2>4. /\ n \div (Units * PgsPerFlashpg) = Parts * (Words - 1) + (Parts - 1)
        /\ n % PgsPerFlashpg = PgsPerFlashpg - 1
        /\ UnitOf(PlaceAt(n)) = u
    BY <2>2, PlaceIs
  <2>5. Parts * (Words - 1) + (Parts - 1) = Parts * Words - 1
    OBVIOUS
  <2>6. EndsBlock(n)
    BY <2>4, <2>5, <1>4 DEF EndsBlock
  <2>7. UnitOf(i) = u
    BY <1>0, <2>1, PlaceIs
  <2>8. QED
    BY <2>3, <2>4, <2>6, <2>7
<1>7. QED
  BY <1>1, <1>2, <1>3, <1>5, <1>6
-----------------------------------------------------------------------------
(* The free list.                                                          *)

LEMMA TailOf ==
  ASSUME NEW T, NEW s \in Seq(T), s # <<>>, Distinct(s)
  PROVE  /\ Tail(s) \in Seq(T) /\ Distinct(Tail(s)) /\ Len(Tail(s)) = Len(s) - 1 /\ Len(s) \in Nat \ {0}
         /\ Head(s) \in Elems(s) /\ Head(s) \in T
         /\ Elems(Tail(s)) = Elems(s) \ {Head(s)}
<1>1. /\ Tail(s) \in Seq(T) /\ Len(Tail(s)) = Len(s) - 1 /\ Len(s) \in Nat \ {0}
      /\ Head(s) = s[1] /\ \A i \in 1 .. Len(s) - 1 : Tail(s)[i] = s[i + 1]
  BY HeadTailProperties, LenProperties
<1>2. Head(s) \in Elems(s) /\ Head(s) \in T
  <2>1. 1 \in 1 .. Len(s)
    BY <1>1
  <2>2. s[1] \in T
    BY <2>1, ElementOfSeq
  <2>3. QED
    BY <1>1, <2>1, <2>2 DEF Elems
<1>3. Distinct(Tail(s))
  BY <1>1 DEF Distinct
<1>4. Elems(Tail(s)) \subseteq Elems(s) \ {Head(s)}
  <2>1. SUFFICES ASSUME NEW i \in 1 .. Len(Tail(s)) PROVE Tail(s)[i] \in Elems(s) \ {Head(s)}
    BY DEF Elems
  <2>2. Tail(s)[i] = s[i + 1] /\ i + 1 \in 1 .. Len(s) /\ 1 \in 1 .. Len(s) /\ i + 1 # 1
    BY <1>1
  <2>3. QED
    BY <1>1, <2>2 DEF Elems, Distinct
<1>5. Elems(s) \ {Head(s)} \subseteq Elems(Tail(s))
  <2>1. SUFFICES ASSUME NEW i \in 1 .. Len(s), s[i] # s[1] PROVE s[i] \in Elems(Tail(s))
    BY <1>1 DEF Elems
  <2>2. i - 1 \in 1 .. Len(Tail(s)) /\ Tail(s)[i - 1] = s[i]
    <3>1. i # 1
      BY <2>1
    <3>2. i - 1 \in 1 .. Len(s) - 1 /\ (i - 1) + 1 = i
      BY <1>1, <3>1
    <3>3. QED
      BY <1>1, <3>2
  <2>3. QED
    BY <2>2 DEF Elems
<1>6. QED
  BY <1>1, <1>2, <1>3, <1>4, <1>5

LEMMA AppendOf ==
  ASSUME NEW T, NEW s \in Seq(T), NEW e \in T, Distinct(s), e \notin Elems(s)
  PROVE  /\ Append(s, e) \in Seq(T) /\ Distinct(Append(s, e)) /\ Len(Append(s, e)) = Len(s) + 1
         /\ Len(s) \in Nat
         /\ Elems(Append(s, e)) = Elems(s) \cup {e}
<1>1. /\ Append(s, e) \in Seq(T) /\ Len(Append(s, e)) = Len(s) + 1 /\ Len(s) \in Nat
      /\ Append(s, e)[Len(s) + 1] = e /\ \A i \in 1 .. Len(s) : Append(s, e)[i] = s[i]
  BY AppendProperties, LenProperties
<1>2. \A i \in 1 .. Len(s) : s[i] # e
  BY DEF Elems
<1>3. Distinct(Append(s, e))
  BY <1>1, <1>2 DEF Distinct
<1>4. Elems(Append(s, e)) = Elems(s) \cup {e}
  BY <1>1 DEF Elems
<1>5. QED
  BY <1>1, <1>3, <1>4

\* Where a write pointer goes when there is a line to take.
LEMMA Advance ==
  ASSUME NEW ptr \in Ppas, free_lines \in Seq(Lines), Distinct(free_lines),
         LineDone(ptr) => free_lines # <<>>
  PROVE  /\ Advanced(ptr) \in Ppas
         /\ FreeAfter(ptr) \in Seq(Lines) /\ Distinct(FreeAfter(ptr))
         /\ LineDone(ptr) => /\ Advanced(ptr)[1] \in Freed /\ Advanced(ptr)[2] = 0
                             /\ Elems(FreeAfter(ptr)) = Freed \ {Advanced(ptr)[1]}
                             /\ Len(FreeAfter(ptr)) = Len(free_lines) - 1
         /\ ~LineDone(ptr) => /\ Advanced(ptr)[1] = ptr[1] /\ Advanced(ptr)[2] = ptr[2] + 1
                              /\ FreeAfter(ptr) = free_lines
<1>0. PgsPerLine \in Nat \ {0} /\ ptr[1] \in Lines /\ ptr[2] \in 0 .. PgsPerLine - 1
  BY Sizes DEF Ppas, Places
<1>1. CASE LineDone(ptr)
  <2>1. Head(free_lines) \in Lines /\ Advanced(ptr) = <<Head(free_lines), 0>> /\ FreeAfter(ptr) = Tail(free_lines)
    BY <1>1, TailOf DEF Advanced, FreeAfter
  <2>2. QED
    BY <1>0, <1>1, <2>1, TailOf DEF Ppas, Places, Freed
<1>2. CASE ~LineDone(ptr)
  <2>1. Advanced(ptr) = <<ptr[1], ptr[2] + 1>> /\ FreeAfter(ptr) = free_lines
    BY <1>2 DEF Advanced, FreeAfter
  <2>2. ptr[2] + 1 \in 0 .. PgsPerLine - 1
    BY <1>0, <1>2 DEF LineDone
  <2>3. QED
    BY <1>0, <1>2, <2>1, <2>2 DEF Ppas, Places
<1>3. QED
  BY <1>1, <1>2
-----------------------------------------------------------------------------
(* Counting the pages of a line.                                           *)

LEMMA LineFinite ==
  ASSUME NEW l \in Lines
  PROVE  IsFiniteSet({l} \X Places) /\ Cardinality({l} \X Places) = PgsPerLine
<1>1. IsFiniteSet(Places) /\ Cardinality(Places) = PgsPerLine
  <2>1. 0 \in Int /\ PgsPerLine - 1 \in Int /\ PgsPerLine \in Nat \ {0}
    BY Sizes
  <2>2. QED
    BY <2>1, FS_Interval DEF Places
<1> DEFINE f == [i \in Places |-> <<l, i>>]
<1>2. f \in Bijection(Places, {l} \X Places)
  <2>1. f \in [Places -> {l} \X Places]
    OBVIOUS
  <2>2. \A i, j \in Places : f[i] = f[j] => i = j
    OBVIOUS
  <2>3. \A p \in {l} \X Places : \E i \in Places : f[i] = p
    OBVIOUS
  <2>4. QED
    BY <2>1, <2>2, <2>3 DEF Bijection, Injection, Surjection, IsInjective
<1>3. ExistsBijection(Places, {l} \X Places)
  BY <1>2 DEF ExistsBijection
<1>4. QED
  BY <1>1, <1>3, FS_Bijection

LEMMA PagesCount ==
  ASSUME NEW st \in [Ppas -> States], NEW l \in Lines, NEW s \in States
  PROVE  /\ IsFiniteSet(PagesIn(st, l, s))
         /\ Cardinality(PagesIn(st, l, s)) \in 0 .. PgsPerLine
         /\ Cardinality(PagesIn(st, l, s)) = PgsPerLine <=> \A i \in Places : st[<<l, i>>] = s
         /\ Cardinality(PagesIn(st, l, s)) = 0 <=> \A i \in Places : st[<<l, i>>] # s
<1> DEFINE A == PagesIn(st, l, s)
<1>1. A \in SUBSET ({l} \X Places)
  BY DEF PagesIn, Ppas
<1>2. IsFiniteSet({l} \X Places) /\ Cardinality({l} \X Places) = PgsPerLine /\ PgsPerLine \in Nat
  BY LineFinite, Sizes
<1>3. IsFiniteSet(A) /\ Cardinality(A) <= PgsPerLine /\ (Cardinality(A) = PgsPerLine => A = {l} \X Places)
  BY <1>1, <1>2, FS_Subset
<1>4. Cardinality(A) \in Nat
  BY <1>3, FS_CardinalityType
<1>5. A = {l} \X Places <=> \A i \in Places : st[<<l, i>>] = s
  <2>1. ASSUME A = {l} \X Places PROVE \A i \in Places : st[<<l, i>>] = s
    <3>1. ASSUME NEW i \in Places PROVE st[<<l, i>>] = s
      <4>1. <<l, i>> \in A
        BY <2>1
      <4>2. QED
        BY <4>1 DEF PagesIn
    <3>2. QED
      BY <3>1
  <2>2. ASSUME \A i \in Places : st[<<l, i>>] = s PROVE {l} \X Places \subseteq A
    BY <2>2 DEF PagesIn, Ppas
  <2>3. QED
    BY <2>1, <2>2, <1>1
<1>6. A = {l} \X Places => Cardinality(A) = PgsPerLine
  BY <1>2
<1>7. Cardinality(A) = 0 <=> A = {}
  BY <1>3, FS_EmptySet
<1>8. A = {} <=> \A i \in Places : st[<<l, i>>] # s
  BY DEF PagesIn, Ppas
<1> HIDE DEF A
<1>9. IsFiniteSet(A) /\ Cardinality(A) \in 0 .. PgsPerLine
  BY <1>2, <1>3, <1>4
<1>10. Cardinality(A) = PgsPerLine <=> \A i \in Places : st[<<l, i>>] = s
  BY <1>3, <1>5, <1>6
<1>11. Cardinality(A) = 0 <=> \A i \in Places : st[<<l, i>>] # s
  BY <1>7, <1>8
<1>12. QED
  BY <1>9, <1>10, <1>11 DEF A

\* A line with no free page is valid pages and invalid ones.
LEMMA PagesSum ==
  ASSUME NEW st \in [Ppas -> States], NEW l \in Lines, \A i \in Places : st[<<l, i>>] # "free"
  PROVE  Cardinality(PagesIn(st, l, "valid")) + Cardinality(PagesIn(st, l, "invalid")) = PgsPerLine
<1> DEFINE A == PagesIn(st, l, "valid")
           B == PagesIn(st, l, "invalid")
<1>1. IsFiniteSet(A) /\ IsFiniteSet(B)
  BY PagesCount DEF States
<1>2. A \cup B = {l} \X Places
  <2>1. A \cup B \subseteq {l} \X Places
    BY DEF PagesIn, Ppas
  <2>2. ASSUME NEW i \in Places PROVE <<l, i>> \in A \cup B
    <3>1. <<l, i>> \in Ppas
      BY DEF Ppas
    <3>2. st[<<l, i>>] \in States
      BY <3>1
    <3>3. QED
      BY <3>1, <3>2 DEF PagesIn, States
  <2>3. QED
    BY <2>1, <2>2
<1>3. A \cap B = {}
  BY DEF PagesIn
<1>4. Cardinality(A \cup B) = Cardinality(A) + Cardinality(B) - Cardinality(A \cap B)
  BY <1>1, FS_Union
<1>5. Cardinality(A \cap B) = 0
  BY <1>3, FS_EmptySet
<1>6. Cardinality(A) \in Nat /\ Cardinality(B) \in Nat
  BY <1>1, FS_CardinalityType
<1>7. Cardinality(A \cup B) = PgsPerLine
  BY <1>2, LineFinite, Zenon
<1> HIDE DEF A, B
<1>8. Cardinality(A) + Cardinality(B) = PgsPerLine
  BY <1>4, <1>5, <1>6, <1>7
<1>9. QED
  BY <1>8 DEF A, B
-----------------------------------------------------------------------------
(* A page is written.                                                      *)

LEMMA InLines ==
  ASSUME ConvInv
  PROVE  /\ wp \in Ppas /\ wp[1] \in Lines /\ wp[2] \in 0 .. PgsPerLine - 1
         /\ gc_wp \in Ppas /\ gc_wp[1] \in Lines /\ gc_wp[2] \in 0 .. PgsPerLine - 1
         /\ status[wp] = "free" /\ status[gc_wp] = "free"
         /\ wp = <<wp[1], wp[2]>> /\ gc_wp = <<gc_wp[1], gc_wp[2]>>
         /\ Freed \subseteq Lines /\ Len(free_lines) \in Nat
<1>1. wp \in Ppas /\ gc_wp \in Ppas
  BY DEF ConvInv, ConvTypeOK
<1>2. \A ptr \in Ppas : ptr[1] \in Lines /\ ptr[2] \in Places /\ ptr = <<ptr[1], ptr[2]>>
  BY DEF Ppas
<1>3. \A ptr \in Ppas : Open(status, ptr) => status[ptr] = "free"
  <2>1. TAKE ptr \in Ppas
  <2>2. ptr[2] >= ptr[2]
    BY <1>2 DEF Places
  <2>3. QED
    BY <1>2, <2>2 DEF Open
<1>4. free_lines \in Seq(Lines)
  BY DEF ConvInv, ConvTypeOK
<1>5. Freed \subseteq Lines /\ Len(free_lines) \in Nat
  BY <1>4, ElementOfSeq, LenProperties DEF Freed, Elems
<1>6. QED
  BY <1>1, <1>2, <1>3, <1>5 DEF ConvInv, LinesFilled, Places

LEMMA WriterHasLine ==
  ASSUME ConvInv, cpc = "page"
  PROVE  LineDone(wp) => free_lines # <<>>
<1>1. SUFFICES ASSUME LineDone(wp), free_lines = <<>> PROVE FALSE
  OBVIOUS
<1>2. PgsPerLine \in Nat \ {0} /\ wp[2] = PgsPerLine - 1 /\ gc_wp[2] >= 0 /\ gc_wp[2] \in Int
  BY <1>1, Sizes, InLines DEF LineDone
<1>3. Len(free_lines) = 0
  BY <1>1
<1>4. Len(free_lines) * PgsPerLine = 0
  BY <1>2, <1>3
<1>5. Room - write_credits >= 2 * PgsPerLine + 2 /\ write_credits \in Nat
  BY Sizes DEF ConvInv, ConvTypeOK, Enough
<1>6. QED
  BY <1>2, <1>4, <1>5 DEF Room

LEMMA LostIs ==
  ASSUME ConvInv, cpc = "page"
  PROVE  /\ cur \in Lpns
         /\ \A p \in LostBy(cur) : /\ p \in Ppas /\ p[1] \in Lines /\ status[p] = "valid" /\ p # wp
                                  /\ rmap[p] = cur /\ p = maptbl[cur]
         /\ \A p, q \in LostBy(cur) : p = q
         /\ \A l : Cardinality({p \in LostBy(cur) : p[1] = l}) =
                    IF \E p \in LostBy(cur) : p[1] = l THEN 1 ELSE 0
         /\ \A p \in Ppas : status[p] = "valid" /\ rmap[p] = cur => p \in LostBy(cur)
<1>1. cur \in Lpns /\ maptbl[cur] \in Ppas \cup {Unmapped}
  BY DEF ConvInv, ConvTypeOK
<1>2. victim = NoLine
  BY DEF ConvInv, Phases
<1>3. \A p \in LostBy(cur) : p = maptbl[cur] /\ maptbl[cur] # Unmapped
  BY DEF LostBy
<1>4. \A p \in LostBy(cur) : /\ p \in Ppas /\ p[1] \in Lines /\ status[p] = "valid" /\ p # wp
                            /\ rmap[p] = cur
  BY <1>1, <1>3, InLines DEF ConvInv, MapsAgree, Ppas
<1>5. ASSUME NEW l PROVE Cardinality({p \in LostBy(cur) : p[1] = l}) =
                           IF \E p \in LostBy(cur) : p[1] = l THEN 1 ELSE 0
  <2>1. CASE \E p \in LostBy(cur) : p[1] = l
    <3>1. {p \in LostBy(cur) : p[1] = l} = {maptbl[cur]}
      BY <2>1, <1>3
    <3>2. QED
      BY <2>1, <3>1, FS_Singleton
  <2>2. CASE ~\E p \in LostBy(cur) : p[1] = l
    <3>1. {p \in LostBy(cur) : p[1] = l} = {}
      BY <2>2
    <3>2. QED
      BY <2>2, <3>1, FS_EmptySet
  <2>3. QED
    BY <2>1, <2>2
<1>6. ASSUME NEW p \in Ppas, status[p] = "valid", rmap[p] = cur PROVE p \in LostBy(cur)
  <2>1. maptbl[cur] = p
    BY <1>2, <1>6 DEF ConvInv, MapsAgree, Copied
  <2>2. p # Unmapped
    BY Sizes DEF Ppas, Places, Unmapped
  <2>3. QED
    BY <2>1, <2>2 DEF LostBy
<1>7. QED
  BY <1>1, <1>3, <1>4, <1>5, <1>6

\* The pages afterwards, and how many of each kind.
LEMMA WriteStatus ==
  ASSUME ConvInv, WritePage
  PROVE  /\ status' \in [Ppas -> States]
         /\ \A p \in Ppas : status'[p] = IF p = wp THEN "valid"
                                        ELSE IF p \in LostBy(cur) THEN "invalid" ELSE status[p]
         /\ \A l \in Lines : ipc'[l] = ipc[l] + IF \E p \in LostBy(cur) : p[1] = l THEN 1 ELSE 0
         /\ \A l \in Lines : /\ vpc'[l] = Cardinality(PagesIn(status', l, "valid"))
                            /\ ipc'[l] = Cardinality(PagesIn(status', l, "invalid"))
<1> DEFINE lost == LostBy(cur)
           less(l) == Cardinality({p \in lost : p[1] = l})
<1>0. cpc = "page" /\ victim = NoLine /\ NoLine \notin Lines
  BY ConvAssumption DEF WritePage, ConvInv, Phases
<1>1. /\ status' = [p \in Ppas |-> IF p = wp THEN "valid" ELSE IF p \in lost THEN "invalid" ELSE status[p]]
      /\ vpc' = [l \in Lines |-> vpc[l] - less(l) + IF l = wp[1] THEN 1 ELSE 0]
      /\ ipc' = [l \in Lines |-> ipc[l] + less(l)]
  BY DEF WritePage
<1>2. status \in [Ppas -> States] /\ status' \in [Ppas -> States]
  BY <1>1 DEF ConvInv, ConvTypeOK, States
<1>3. ASSUME NEW l \in Lines PROVE ipc'[l] = ipc[l] + IF \E p \in lost : p[1] = l THEN 1 ELSE 0
  <2>1. less(l) = IF \E p \in lost : p[1] = l THEN 1 ELSE 0
    BY <1>0, LostIs
  <2>2. ipc'[l] = ipc[l] + less(l)
    BY <1>1
  <2>3. QED
    BY <2>1, <2>2, Zenon
<1>4. ASSUME NEW l \in Lines
      PROVE  /\ vpc'[l] = Cardinality(PagesIn(status', l, "valid"))
             /\ ipc'[l] = Cardinality(PagesIn(status', l, "invalid"))
  <2> DEFINE A == PagesIn(status, l, "valid")
             B == PagesIn(status, l, "invalid")
             T == {p \in lost : p[1] = l}
             W == IF l = wp[1] THEN {wp} ELSE {}
  <2>1. vpc[l] = Cardinality(A) /\ ipc[l] = Cardinality(B)
    BY <1>0 DEF ConvInv, LinesCounted, PagesOf
  <2>2. IsFiniteSet(A) /\ IsFiniteSet(B) /\ Cardinality(A) \in Nat /\ Cardinality(B) \in Nat
    BY <1>2, PagesCount DEF States
  <2>3. T \in SUBSET A /\ T \cap B = {} /\ wp \notin A /\ wp \notin B /\ wp \notin T
    BY <1>0, LostIs, InLines DEF PagesIn
  <2>4. IsFiniteSet(T) /\ Cardinality(T) \in Nat /\ Cardinality(A \ T) = Cardinality(A) - Cardinality(T)
        /\ IsFiniteSet(A \ T)
    <3>1. IsFiniteSet(T)
      BY <2>2, <2>3, FS_Subset
    <3>2. A \cap T = T
      BY <2>3
    <3>3. QED
      BY <2>2, <3>1, <3>2, FS_Difference, FS_CardinalityType
  <2>5. PagesIn(status', l, "valid") = (A \ T) \cup W
    BY <1>0, <1>1, LostIs, InLines DEF PagesIn
  <2>6. PagesIn(status', l, "invalid") = B \cup T
    BY <1>0, <1>1, <2>3, LostIs, InLines DEF PagesIn
  <2>7. Cardinality((A \ T) \cup W) = Cardinality(A) - Cardinality(T) + IF l = wp[1] THEN 1 ELSE 0
    <3>1. CASE l = wp[1]
      <4>1. (A \ T) \cup W = (A \ T) \cup {wp} /\ wp \notin A \ T
        BY <3>1, <2>3
      <4>2. Cardinality((A \ T) \cup {wp}) = Cardinality(A \ T) + 1
        BY <4>1, <2>4, FS_AddElement
      <4>3. Cardinality((A \ T) \cup W) = Cardinality(A \ T) + 1
        BY <4>1, <4>2, Zenon
      <4>4. Cardinality(A \ T) = Cardinality(A) - Cardinality(T)
        BY <2>4
      <4> HIDE DEF A, T, W
      <4>5. QED
        BY <3>1, <4>3, <4>4, <2>2, <2>4
    <3>2. CASE l # wp[1]
      <4>1. (A \ T) \cup W = A \ T
        BY <3>2
      <4>2. Cardinality((A \ T) \cup W) = Cardinality(A) - Cardinality(T)
        BY <4>1, <2>4, Zenon
      <4> HIDE DEF A, T, W
      <4>3. QED
        BY <3>2, <4>2, <2>2, <2>4
    <3>3. QED
      BY <3>1, <3>2
  <2>8. Cardinality(B \cup T) = Cardinality(B) + Cardinality(T)
    <3>1. Cardinality(B \cup T) = Cardinality(B) + Cardinality(T) - Cardinality(B \cap T)
      BY <2>2, <2>4, FS_Union
    <3>2. Cardinality(B \cap T) = 0
      BY <2>3, FS_EmptySet
    <3> HIDE DEF B, T
    <3>3. QED
      BY <3>1, <3>2, <2>2, <2>4
  <2>9. vpc'[l] = vpc[l] - Cardinality(T) + (IF l = wp[1] THEN 1 ELSE 0) /\ ipc'[l] = ipc[l] + Cardinality(T)
    BY <1>1
  <2> HIDE DEF A, B, T, W
  <2>10. QED
    BY <2>1, <2>5, <2>6, <2>7, <2>8, <2>9
<1>5. QED
  BY <1>1, <1>2, <1>3, <1>4

LEMMA WriteLines ==
  ASSUME ConvInv, WritePage
  PROVE  (LinesApart /\ LinesFilled /\ LinesCounted /\ WillErase)'
<1> DEFINE hit(l) == \E p \in LostBy(cur) : p[1] = l
           w == wp[1]
<1>0. /\ cpc = "page" /\ cpc' = "credit" /\ victim = NoLine /\ victim' = NoLine /\ NoLine \notin Lines
      /\ gc_wp' = gc_wp
  BY ConvAssumption DEF WritePage, ConvInv, Phases, gcVars
<1>1. /\ \A l \in fulls : l \in fulls' \/ l \in victims'
      /\ fulls' = {l \in fulls : ~hit(l)} \cup {l \in {w} : LineDone(wp) /\ vpc'[l] = PgsPerLine}
      /\ victims' = victims \cup {l \in fulls : hit(l)} \cup {l \in {w} : LineDone(wp) /\ vpc'[l] # PgsPerLine}
  <2> DEFINE less(l) == Cardinality({p \in LostBy(cur) : p[1] = l})
             wasFull == {l \in fulls : less(l) = 1}
             valid == [l \in Lines |-> vpc[l] - less(l) + IF l = wp[1] THEN 1 ELSE 0]
  <2>1. /\ vpc' = valid
        /\ fulls' = (fulls \ wasFull) \cup NowFull(wp, valid)
        /\ victims' = victims \cup wasFull \cup NowVictim(wp, valid)
    BY DEF WritePage
  <2>2. wasFull = {l \in fulls : hit(l)}
    <3>1. \A l \in fulls : less(l) = IF hit(l) THEN 1 ELSE 0
      BY <1>0, LostIs
    <3> HIDE DEF less
    <3>2. QED
      BY <3>1
  <2> HIDE DEF valid, wasFull
  <2>3. /\ fulls' = (fulls \ wasFull) \cup {l \in {w} : LineDone(wp) /\ vpc'[l] = PgsPerLine}
        /\ victims' = victims \cup wasFull \cup {l \in {w} : LineDone(wp) /\ vpc'[l] # PgsPerLine}
    BY <2>1 DEF NowFull, NowVictim
  <2>4. QED
    BY <2>2, <2>3
<1> HIDE DEF hit
<1>2. /\ wp' = Advanced(wp) /\ free_lines' = FreeAfter(wp)
      /\ Freed' = Elems(FreeAfter(wp))
  BY DEF WritePage, Freed
<1>3. /\ LinesApart /\ LinesFilled
      /\ fulls \subseteq Lines /\ victims \subseteq Lines /\ Freed \subseteq Lines
      /\ free_lines \in Seq(Lines) /\ Distinct(free_lines)
      /\ wp \in Ppas /\ gc_wp \in Ppas /\ w \in Lines /\ wp[2] \in 0 .. PgsPerLine - 1
      /\ PgsPerLine \in Nat \ {0}
  BY InLines, Sizes DEF ConvInv, ConvTypeOK, LinesApart
<1>4. LineDone(wp) => free_lines # <<>>
  BY <1>0, WriterHasLine
<1>5. /\ wp' \in Ppas /\ Distinct(FreeAfter(wp))
      /\ LineDone(wp) => /\ wp'[1] \in Freed /\ wp'[2] = 0
                         /\ Freed' = Freed \ {wp'[1]}
      /\ ~LineDone(wp) => /\ wp'[1] = w /\ wp'[2] = wp[2] + 1
                          /\ Freed' = Freed
  BY <1>2, <1>3, <1>4, Advance DEF Freed
<1>6. LinesApart'
  <2>1. Distinct(free_lines)'
    BY <1>2, <1>5 DEF Distinct
  <2>2. \A l \in {w} : l \in fulls' \cup victims' <=> LineDone(wp)
    BY <1>1, <1>3 DEF LinesApart, Opens
  <2>3. /\ fulls' \cup victims' = fulls \cup victims \cup (IF LineDone(wp) THEN {w} ELSE {})
        /\ fulls' \cap victims' = {}
    BY <1>1, <1>3 DEF LinesApart, Opens
  <2>4. Opens' = {wp'[1], gc_wp[1]}
    BY <1>0 DEF Opens
  <2>5. wp'[1] # gc_wp[1]
    BY <1>3, <1>5 DEF LinesApart, Opens
  <2>6. victim' \notin Freed' \cup fulls' \cup victims' \cup Opens'
    <3>1. Freed' \subseteq Lines /\ fulls' \subseteq Lines /\ victims' \subseteq Lines /\ Opens' \subseteq Lines
      BY <1>1, <1>3, <1>5, <2>4, InLines DEF Ppas
    <3>2. QED
      BY <1>0, <3>1
  <2>7. Freed' \cap (fulls' \cup victims') = {} /\ Opens' \cap (Freed' \cup fulls' \cup victims') = {}
    BY <1>3, <1>5, <2>3, <2>4 DEF LinesApart, Opens
  <2>8. Lines \subseteq Freed' \cup fulls' \cup victims' \cup Opens' \cup {victim'}
    <3>1. Lines \subseteq Freed \cup fulls \cup victims \cup {w, gc_wp[1]} \cup {victim}
      BY <1>3 DEF LinesApart, Opens
    <3>2. QED
      BY <3>1, <1>0, <1>5, <2>3, <2>4
  <2>9. QED
    BY <1>0, <2>1, <2>3, <2>5, <2>6, <2>7, <2>8 DEF LinesApart
<1>7. /\ status' \in [Ppas -> States]
      /\ \A p \in Ppas : status'[p] = IF p = wp THEN "valid"
                                     ELSE IF p \in LostBy(cur) THEN "invalid" ELSE status[p]
      /\ \A l \in Lines : ipc'[l] = ipc[l] + IF hit(l) THEN 1 ELSE 0
      /\ \A l \in Lines : /\ vpc'[l] = Cardinality(PagesIn(status', l, "valid"))
                         /\ ipc'[l] = Cardinality(PagesIn(status', l, "invalid"))
  BY WriteStatus DEF hit
<1>8. LinesCounted'
  BY <1>7 DEF LinesCounted, PagesOf
<1>9. \A l \in Lines, i \in Places : <<l, i>> \in Ppas
  BY DEF Ppas
<1>10. \A l \in Lines, i \in Places :
         /\ status[<<l, i>>] # "free" => status'[<<l, i>>] # "free"
         /\ status'[<<l, i>>] = IF <<l, i>> = wp THEN "valid"
                                ELSE IF hit(l) /\ <<l, i>> \in LostBy(cur) THEN "invalid" ELSE status[<<l, i>>]
  BY <1>7, <1>9 DEF hit
<1>11. \A p \in LostBy(cur) : status[p] = "valid"
  BY <1>0, LostIs
<1>12. ASSUME LineDone(wp), NEW i \in Places PROVE status'[<<w, i>>] # "free"
  <2>1. wp[2] = PgsPerLine - 1 /\ i \in 0 .. PgsPerLine - 1
    BY <1>12 DEF LineDone, Places
  <2>2. CASE i = PgsPerLine - 1
    <3>1. <<w, i>> = wp
      BY <2>1, <2>2, InLines
    <3>2. QED
      BY <3>1, <1>3, <1>10
  <2>3. CASE i # PgsPerLine - 1
    <3>1. ~(i >= wp[2])
      BY <2>1, <2>3, <1>3
    <3>2. status[<<w, i>>] # "free"
      BY <3>1, <1>3 DEF LinesFilled, Open
    <3>3. QED
      BY <3>2, <1>3, <1>10
  <2>4. QED
    BY <2>2, <2>3
<1>13. LinesFilled'
  <2>1. ASSUME NEW l \in Freed', NEW i \in Places PROVE status'[<<l, i>>] = "free"
    <3>1. l \in Freed /\ l \in Lines /\ l # w
      BY <1>3, <1>5 DEF LinesApart, Opens
    <3>2. status[<<l, i>>] = "free" /\ <<l, i>> # wp
      BY <3>1, <1>3 DEF LinesFilled
    <3>3. <<l, i>> \notin LostBy(cur)
      BY <3>2, <1>11
    <3>4. QED
      BY <3>1, <3>2, <3>3, <1>10
  <2>2. ASSUME NEW l \in fulls', NEW i \in Places PROVE status'[<<l, i>>] = "valid"
    <3>1. CASE l \in fulls /\ ~hit(l)
      <4>1. status[<<l, i>>] = "valid" /\ l \in Lines /\ l # w
        BY <3>1, <1>3 DEF LinesFilled, LinesApart, Opens
      <4>2. QED
        BY <4>1, <3>1, <1>10
    <3>2. CASE l = w /\ vpc'[l] = PgsPerLine
      <4>1. Cardinality(PagesIn(status', w, "valid")) = PgsPerLine
        BY <3>2, <1>3, <1>7
      <4>2. QED
        BY <4>1, <3>2, <1>3, <1>7, PagesCount DEF States
    <3>3. QED
      BY <3>1, <3>2, <1>1
  <2>3. ASSUME NEW l \in victims' PROVE ipc'[l] > 0 /\ \A i \in Places : status'[<<l, i>>] # "free"
    <3>0. l \in Lines
      BY <1>1, <1>3
    <3>1. CASE l \in victims
      <4>1. ipc[l] > 0 /\ ipc[l] \in Nat /\ \A i \in Places : status[<<l, i>>] # "free"
        BY <3>0, <3>1, <1>3, Sizes DEF LinesFilled, ConvInv, ConvTypeOK
      <4>2. QED
        BY <4>1, <3>0, <1>7, <1>10
    <3>2. CASE l \in fulls /\ hit(l)
      <4>1. ipc[l] \in Nat /\ \A i \in Places : status[<<l, i>>] # "free"
        BY <3>0, <3>2, <1>3, Sizes DEF LinesFilled, ConvInv, ConvTypeOK
      <4>2. QED
        BY <4>1, <3>0, <3>2, <1>7, <1>10
    <3>3. CASE l = w /\ LineDone(wp) /\ vpc'[l] # PgsPerLine
      <4>1. \A i \in Places : status'[<<w, i>>] # "free"
        BY <3>3, <1>12
      <4>2. Cardinality(PagesIn(status', w, "valid")) + Cardinality(PagesIn(status', w, "invalid")) = PgsPerLine
        BY <4>1, <1>3, <1>7, PagesSum
      <4>3. Cardinality(PagesIn(status', w, "valid")) \in Nat /\ Cardinality(PagesIn(status', w, "invalid")) \in Nat
        <5>1. /\ Cardinality(PagesIn(status', w, "valid")) \in 0 .. PgsPerLine
              /\ Cardinality(PagesIn(status', w, "invalid")) \in 0 .. PgsPerLine
          BY <1>3, <1>7, PagesCount DEF States
        <5>2. QED
          BY <5>1, <1>3
      <4>4. vpc'[w] = Cardinality(PagesIn(status', w, "valid")) /\ ipc'[w] = Cardinality(PagesIn(status', w, "invalid"))
        BY <1>3, <1>7
      <4>5. ipc'[w] > 0
        BY <4>2, <4>3, <4>4, <3>3, <1>3
      <4>6. QED
        BY <3>3, <4>1, <4>5
    <3>4. QED
      BY <3>1, <3>2, <3>3, <1>1
  <2>4. Open(status', wp')
    <3>1. CASE LineDone(wp)
      <4>1. wp'[1] \in Freed /\ wp'[2] = 0 /\ wp'[1] \in Lines /\ wp'[1] # w
        BY <3>1, <1>3, <1>5 DEF LinesApart, Opens
      <4>2. ASSUME NEW i \in Places PROVE status'[<<wp'[1], i>>] = "free" /\ i >= 0
        <5>1. status[<<wp'[1], i>>] = "free" /\ <<wp'[1], i>> # wp
          BY <4>1, <1>3 DEF LinesFilled
        <5>2. <<wp'[1], i>> \notin LostBy(cur)
          BY <5>1, <1>11
        <5>3. QED
          BY <4>1, <5>1, <5>2, <1>10 DEF Places
      <4>3. QED
        BY <4>1, <4>2 DEF Open
    <3>2. CASE ~LineDone(wp)
      <4>1. wp'[1] = w /\ wp'[2] = wp[2] + 1
        BY <3>2, <1>5
      <4>2. ASSUME NEW i \in Places PROVE status'[<<w, i>>] = "free" <=> i >= wp[2] + 1
        <5>0. i \in Int /\ wp[2] \in Int
          BY <1>3 DEF Places
        <5>1. status[<<w, i>>] = "free" <=> i >= wp[2]
          BY <1>3 DEF LinesFilled, Open
        <5>2. <<w, i>> = wp <=> i = wp[2]
          BY InLines
        <5>3. CASE i = wp[2]
          BY <5>0, <5>2, <5>3, <1>3, <1>10
        <5>4. CASE i # wp[2]
          <6>1. <<w, i>> \in LostBy(cur) => status[<<w, i>>] # "free"
            BY <1>11
          <6>2. status'[<<w, i>>] = "free" <=> status[<<w, i>>] = "free"
            BY <5>2, <5>4, <6>1, <1>3, <1>10
          <6>3. QED
            BY <6>2, <5>0, <5>1, <5>4
        <5>5. QED
          BY <5>3, <5>4
      <4>3. QED
        BY <4>1, <4>2 DEF Open
    <3>3. QED
      BY <3>1, <3>2
  <2>5. Open(status', gc_wp)
    <3>1. ASSUME NEW i \in Places PROVE status'[<<gc_wp[1], i>>] = "free" <=> status[<<gc_wp[1], i>>] = "free"
      <4>1. gc_wp[1] \in Lines /\ <<gc_wp[1], i>> # wp
        BY <1>3, InLines DEF LinesApart
      <4>2. <<gc_wp[1], i>> \in LostBy(cur) => status[<<gc_wp[1], i>>] # "free"
        BY <1>11
      <4>3. QED
        BY <4>1, <4>2, <1>10
    <3>2. QED
      BY <3>1, <1>3 DEF LinesFilled, Open
  <2>6. QED
    BY <1>0, <2>1, <2>2, <2>3, <2>4, <2>5 DEF LinesFilled
<1>14. WillErase'
  BY <1>0 DEF WillErase
<1>15. QED
  BY <1>6, <1>8, <1>13, <1>14

LEMMA WriteMaps ==
  ASSUME ConvInv, WritePage
  PROVE  (MapsAgree /\ MappedApart)'
<1>0. /\ cpc = "page" /\ victim = NoLine /\ victim' = NoLine
  BY DEF WritePage, ConvInv, Phases, gcVars
<1>1. /\ status \in [Ppas -> States] /\ maptbl \in [Lpns -> Ppas \cup {Unmapped}]
      /\ rmap \in [Ppas -> Lpns \cup {InvalidLpn}] /\ cur \in Lpns /\ wp \in Ppas
  BY DEF ConvInv, ConvTypeOK, States
<1>2. /\ status' = [p \in Ppas |-> IF p = wp THEN "valid" ELSE IF p \in LostBy(cur) THEN "invalid" ELSE status[p]]
      /\ maptbl' = [maptbl EXCEPT ![cur] = wp]
      /\ rmap' = [p \in Ppas |-> IF p = wp THEN cur ELSE IF p \in LostBy(cur) THEN InvalidLpn ELSE rmap[p]]
  BY DEF WritePage
<1>3. \A p \in LostBy(cur) : p = maptbl[cur] /\ rmap[p] = cur
  BY <1>0, LostIs
<1>4. status[wp] = "free"
  BY InLines
<1>5. \A lpn \in Lpns : maptbl[lpn] # Unmapped => status[maptbl[lpn]] = "valid" /\ rmap[maptbl[lpn]] = lpn
  BY DEF ConvInv, MapsAgree
<1>6. \A p \in Ppas : status[p] = "valid" => rmap[p] \in Lpns /\ maptbl[rmap[p]] = p
  BY <1>0 DEF ConvInv, MapsAgree, Copied
<1>7. ASSUME NEW lpn \in Lpns, maptbl'[lpn] # Unmapped
      PROVE  status'[maptbl'[lpn]] = "valid" /\ rmap'[maptbl'[lpn]] = lpn
  <2>1. CASE lpn = cur
    BY <2>1, <1>1, <1>2
  <2>2. CASE lpn # cur
    <3>1. maptbl'[lpn] = maptbl[lpn] /\ maptbl[lpn] \in Ppas
      BY <2>2, <1>1, <1>2, <1>7
    <3>2. maptbl[lpn] # wp /\ maptbl[lpn] \notin LostBy(cur)
      BY <3>1, <2>2, <1>3, <1>4, <1>5, <1>7
    <3>3. QED
      BY <3>1, <3>2, <1>2, <1>5, <1>7
  <2>3. QED
    BY <2>1, <2>2
<1>8. ASSUME NEW p \in Ppas, status'[p] = "valid"
      PROVE  rmap'[p] \in Lpns /\ maptbl'[rmap'[p]] = p
  <2>1. CASE p = wp
    BY <2>1, <1>1, <1>2
  <2>2. CASE p # wp
    <3>1. p \notin LostBy(cur) /\ status[p] = "valid" /\ rmap'[p] = rmap[p]
      BY <2>2, <1>2, <1>8
    <3>2. rmap[p] \in Lpns /\ maptbl[rmap[p]] = p /\ rmap[p] # cur
      BY <3>1, <1>0, <1>6, LostIs
    <3>3. QED
      BY <3>1, <3>2, <1>1, <1>2
  <2>3. QED
    BY <2>1, <2>2
<1>9. \A p : ~Copied(p)'
  BY <1>0 DEF Copied
<1>10. MapsAgree'
  BY <1>7, <1>8 DEF MapsAgree
<1>11. MappedApart'
  BY <1>9 DEF MappedApart
<1>12. QED
  BY <1>10, <1>11

LEMMA WriteEnough ==
  ASSUME ConvInv, WritePage
  PROVE  Enough'
<1>0. /\ cpc = "page" /\ cpc' = "credit" /\ write_credits' = write_credits - 1
      /\ gc_wp' = gc_wp /\ wp' = Advanced(wp) /\ free_lines' = FreeAfter(wp)
  BY DEF WritePage
<1>1. Room - write_credits >= 2 * PgsPerLine + 2
  BY <1>0 DEF ConvInv, Enough
<1>2. /\ PgsPerLine \in Nat \ {0} /\ wp[2] \in Nat /\ gc_wp[2] \in Nat /\ Len(free_lines) \in Nat
      /\ write_credits \in Nat
  <2>1. write_credits \in 0 .. PgsPerLine
    BY DEF ConvInv, ConvTypeOK
  <2>2. QED
    BY <2>1, Sizes, InLines
<1>3. Room' = Room - 1
  <2> DEFINE n == Len(free_lines)
  <2>0. /\ wp \in Ppas /\ free_lines \in Seq(Lines) /\ Distinct(free_lines)
        /\ LineDone(wp) => free_lines # <<>>
    BY <1>0, WriterHasLine DEF ConvInv, ConvTypeOK, LinesApart
  <2>1. CASE LineDone(wp)
    <3>1. wp'[2] = 0 /\ Len(free_lines') = n - 1 /\ wp[2] = PgsPerLine - 1
      BY <2>0, <2>1, <1>0, Advance DEF LineDone
    <3>2. (n - 1) * PgsPerLine = n * PgsPerLine - PgsPerLine /\ n * PgsPerLine \in Int
      BY <1>2
    <3>3. Room' = (n - 1) * PgsPerLine + (PgsPerLine - 0) + (PgsPerLine - gc_wp[2])
      BY <3>1, <1>0 DEF Room
    <3>4. Room = n * PgsPerLine + (PgsPerLine - (PgsPerLine - 1)) + (PgsPerLine - gc_wp[2])
      BY <3>1 DEF Room
    <3> HIDE DEF n
    <3>5. QED
      BY <3>2, <3>3, <3>4, <1>2
  <2>2. CASE ~LineDone(wp)
    <3>1. wp'[2] = wp[2] + 1 /\ free_lines' = free_lines
      BY <2>0, <2>2, <1>0, Advance
    <3> DEFINE x == n * PgsPerLine
    <3>2. x \in Int
      BY <1>2
    <3>3. Room' = x + (PgsPerLine - (wp[2] + 1)) + (PgsPerLine - gc_wp[2])
      BY <3>1, <1>0 DEF Room
    <3>4. Room = x + (PgsPerLine - wp[2]) + (PgsPerLine - gc_wp[2])
      BY DEF Room
    <3> DEFINE a == wp[2]
               b == gc_wp[2]
    <3>5. a \in Nat /\ b \in Nat /\ PgsPerLine \in Nat
      BY <1>2
    <3>6. /\ Room' = x + (PgsPerLine - (a + 1)) + (PgsPerLine - b)
          /\ Room = x + (PgsPerLine - a) + (PgsPerLine - b)
      BY <3>3, <3>4
    <3> HIDE DEF n, x, a, b
    <3>7. QED
      BY <3>2, <3>5, <3>6
  <2>3. QED
    BY <2>1, <2>2
<1>4. Room \in Int
  <2>1. Len(free_lines) * PgsPerLine \in Int
    BY <1>2
  <2>2. QED
    BY <2>1, <1>2 DEF Room
<1>5. QED
  BY <1>0, <1>1, <1>2, <1>3, <1>4 DEF Enough
-----------------------------------------------------------------------------
(* The write buffer.                                                       *)

\* The pages the buffer is owed, and how a step of the pointer changes them.
Behind == due * PgsPerOneshot + (wp[2] % PgsPerOneshot)

LEMMA BufferParts ==
  ASSUME ConvInv
  PROVE  /\ SecsPerPg \in Nat \ {0} /\ PgsPerOneshot \in Nat \ {0}
         /\ due \in Nat /\ wp[2] \in Nat /\ remaining \in Nat /\ WbSize \in Nat
         /\ wp[2] % PgsPerOneshot \in 0 .. PgsPerOneshot - 1
         /\ Behind \in Nat /\ Owed = Behind * SecsPerPg /\ Owed \in Nat
         /\ Surplus = remaining + Owed - WbSize
         /\ cur \in Nat /\ last \in Nat /\ MaxSurplus \in Nat
<1>1. /\ SecsPerPg \in Nat \ {0} /\ WbSize \in Nat /\ MaxSurplus \in Nat
      /\ PgsPerOneshot \in Nat \ {0} /\ NLpns \in Nat \ {0}
  BY ConvAssumption
<1>2. due \in Nat /\ wp[2] \in Nat /\ remaining \in Nat /\ cur \in Nat /\ last \in Nat
  <2>1. due \in Nat /\ remaining \in 0 .. WbSize + MaxSurplus /\ cur \in Lpns /\ last \in Lpns
    BY DEF ConvInv, ConvTypeOK
  <2>2. wp[2] \in Nat
    BY InLines, Sizes
  <2>3. QED
    BY <1>1, <2>1, <2>2 DEF Lpns
<1>3. wp[2] % PgsPerOneshot \in 0 .. PgsPerOneshot - 1
  BY <1>1, <1>2
<1>4. due * PgsPerOneshot \in Nat
  BY <1>1, <1>2
<1>5. Behind \in Nat
  BY <1>3, <1>4 DEF Behind
<1>6. Owed = Behind * SecsPerPg
  BY DEF Owed, Behind
<1>7. Owed \in Nat
  BY <1>1, <1>5, <1>6
<1>8. QED
  BY <1>1, <1>2, <1>3, <1>5, <1>6, <1>7 DEF Surplus

LEMMA WriteBuffer ==
  ASSUME ConvInv, WritePage
  PROVE  BufferKept' /\ due' \in Nat
<1> DEFINE O == PgsPerOneshot
           r == wp[2] % O
<1>0. /\ cpc = "page" /\ cpc' = "credit" /\ wp' = Advanced(wp) /\ remaining' = remaining
      /\ cur' = cur /\ last' = last /\ due' = IF LastInWordline(wp) THEN due + 1 ELSE due
  BY DEF WritePage
<1>1. /\ O \in Nat \ {0} /\ due \in Nat /\ r \in 0 .. O - 1 /\ wp[2] \in 0 .. PgsPerLine - 1
      /\ Behind = due * O + r
  BY BufferParts, InLines DEF Behind
<1>2. wp'[2] % O = IF r = O - 1 THEN 0 ELSE r + 1
  <2>0. /\ wp \in Ppas /\ free_lines \in Seq(Lines) /\ Distinct(free_lines)
        /\ LineDone(wp) => free_lines # <<>>
    BY <1>0, WriterHasLine DEF ConvInv, ConvTypeOK, LinesApart
  <2>1. PICK q \in Int, s \in 0 .. O - 1 : wp[2] = O * q + s /\ r = s
    <3>1. wp[2] \in Int
      BY <1>1
    <3>2. QED
      BY <3>1, <1>1, ModSplit, Zenon
  <2>2. CASE LineDone(wp)
    <3>1. wp'[2] = 0
      BY <2>0, <2>2, <1>0, Advance
    <3>2. PgsPerLine = O * (Units * Words) /\ Units * Words \in Int
      BY Sizes DEF PgsPerLine
    <3>3. wp[2] = PgsPerLine - 1
      BY <2>2 DEF LineDone
    <3> DEFINE k == Units * Words
    <3> HIDE DEF k, O
    <3>4. O * (k - 1) + (O - 1) = O * q + s /\ k - 1 \in Int /\ O - 1 \in 0 .. O - 1
      BY <3>2, <3>3, <2>1, <1>1 DEF k
    <3> HIDE DEF r
    <3>5. s = O - 1
      <4> DEFINE a == k - 1
                 b == O - 1
      <4>1. O \in Nat \ {0} /\ q \in Int /\ s \in 0 .. O - 1
        BY <1>1
      <4>2. O * a + b = O * q + s /\ a \in Int /\ b \in 0 .. O - 1
        BY <3>4
      <4> HIDE DEF a, b
      <4>3. b = s
        BY <4>1, <4>2, TurnsUnique
      <4>4. QED
        BY <4>3 DEF b
    <3>6. 0 % O = 0
      BY <1>1, ModSmall
    <3>7. QED
      BY <3>1, <3>5, <3>6, <2>1
  <2>3. CASE ~LineDone(wp)
    <3>1. wp'[2] = wp[2] + 1
      BY <2>0, <2>3, <1>0, Advance
    <3> HIDE DEF r, O
    <3>2. CASE s = O - 1
      <4>1. wp[2] + 1 = O * (q + 1) + 0 /\ q + 1 \in Int /\ 0 \in 0 .. O - 1
        BY <2>1, <3>2, <1>1
      <4>2. (O * (q + 1) + 0) % O = 0
        BY <4>1, <1>1, ModIs
      <4>3. QED
        BY <4>1, <4>2, <3>1, <3>2, <2>1
    <3>3. CASE s # O - 1
      <4>1. wp[2] + 1 = O * q + (s + 1) /\ s + 1 \in 0 .. O - 1
        BY <2>1, <3>3, <1>1
      <4>2. (O * q + (s + 1)) % O = s + 1
        BY <4>1, <1>1, ModIs
      <4>3. QED
        BY <4>1, <4>2, <3>1, <3>3, <2>1
    <3>4. QED
      BY <3>2, <3>3
  <2>4. QED
    BY <2>2, <2>3
<1>3. due' = IF r = O - 1 THEN due + 1 ELSE due
  BY <1>0 DEF LastInWordline
<1>4. Behind' = due' * O + (wp'[2] % O)
  BY DEF Behind
<1>5. Behind' = Behind + 1
  <2> HIDE DEF O, r
  <2>1. CASE r = O - 1
    <3>1. Behind' = (due + 1) * O + 0
      BY <2>1, <1>2, <1>3, <1>4
    <3>2. (due + 1) * O = due * O + O /\ due * O \in Int
      BY <1>1
    <3>3. QED
      BY <3>1, <3>2, <2>1, <1>1
  <2>2. CASE r # O - 1
    <3>1. Behind' = due * O + (r + 1)
      BY <2>2, <1>2, <1>3, <1>4
    <3>2. due * O \in Int
      BY <1>1
    <3>3. QED
      BY <3>1, <3>2, <1>1
  <2>3. QED
    BY <2>1, <2>2
<1>6. Owed' = Owed + SecsPerPg
  <2>1. Owed' = (Behind + 1) * SecsPerPg
    <3>1. Owed' = Behind' * SecsPerPg
      BY DEF Owed, Behind
    <3>2. QED
      BY <3>1, <1>5
  <2>2. (Behind + 1) * SecsPerPg = Behind * SecsPerPg + SecsPerPg
    BY BufferParts
  <2>3. QED
    BY <2>1, <2>2, BufferParts
<1>7. Surplus' = Surplus + SecsPerPg
  <2>1. Surplus' = remaining' + Owed' - WbSize
    BY DEF Surplus
  <2>2. QED
    BY <2>1, <1>0, <1>6, BufferParts
<1>8. Promised' = Promised - SecsPerPg
  <2>1. Promised = (last - cur + 1) * SecsPerPg /\ Promised' = (last - cur) * SecsPerPg
    BY <1>0 DEF Promised
  <2>2. (last - cur + 1) * SecsPerPg = (last - cur) * SecsPerPg + SecsPerPg
        /\ (last - cur) * SecsPerPg \in Int
    BY BufferParts
  <2>3. QED
    BY <2>1, <2>2, BufferParts
<1>9. Promised \in Int /\ Surplus \in Int
  <2>1. Promised = (last - cur + 1) * SecsPerPg
    BY <1>0 DEF Promised
  <2>2. QED
    BY <2>1, BufferParts
<1>10. Surplus + Promised \in 0 .. MaxSurplus
  BY DEF ConvInv, BufferKept
<1>11. BufferKept'
  BY <1>7, <1>8, <1>9, <1>10, BufferParts DEF BufferKept
<1>12. QED
  BY <1>1, <1>3, <1>11

LEMMA WriteKeeps ==
  ASSUME ConvInv, WritePage
  PROVE  ConvInv'
<1>0. /\ cpc = "page" /\ cpc' = "credit" /\ victim = NoLine /\ write_credits > 0
      /\ UNCHANGED <<gc_wp, credits_to_refill, cur, last, victim, gpos, remaining>>
      /\ cur <= last
  BY DEF WritePage, gcVars, ConvInv, Phases
<1>1. Phases'
  BY <1>0 DEF ConvInv, Phases
<1>2. /\ vpc' \in [Lines -> 0 .. PgsPerLine] /\ ipc' \in [Lines -> 0 .. PgsPerLine]
      /\ status' \in [Ppas -> States]
  <2>1. /\ status' \in [Ppas -> States]
        /\ \A l \in Lines : /\ vpc'[l] = Cardinality(PagesIn(status', l, "valid"))
                           /\ ipc'[l] = Cardinality(PagesIn(status', l, "invalid"))
    BY WriteStatus
  <2>2. \A l \in Lines : vpc'[l] \in 0 .. PgsPerLine /\ ipc'[l] \in 0 .. PgsPerLine
    BY <2>1, PagesCount DEF States
  <2>3. vpc' = [l \in Lines |-> vpc'[l]] /\ ipc' = [l \in Lines |-> ipc'[l]]
    BY DEF WritePage
  <2> DEFINE f == vpc'
             g == ipc'
  <2> HIDE DEF f, g
  <2>4. f = [l \in Lines |-> f[l]] /\ g = [l \in Lines |-> g[l]]
        /\ \A l \in Lines : f[l] \in 0 .. PgsPerLine /\ g[l] \in 0 .. PgsPerLine
    BY <2>2, <2>3 DEF f, g
  <2>5. f \in [Lines -> 0 .. PgsPerLine] /\ g \in [Lines -> 0 .. PgsPerLine]
    BY <2>4
  <2>6. QED
    BY <2>1, <2>5 DEF f, g
<1>3. /\ fulls \subseteq Lines /\ victims \subseteq Lines /\ free_lines \in Seq(Lines)
      /\ maptbl \in [Lpns -> Ppas \cup {Unmapped}] /\ rmap \in [Ppas -> Lpns \cup {InvalidLpn}]
      /\ wp \in Ppas /\ gc_wp \in Ppas /\ cur \in Lpns
      /\ write_credits \in 0 .. PgsPerLine
  BY DEF ConvInv, ConvTypeOK
<1>4. free_lines' \in Seq(Lines) /\ wp' \in Ppas
  BY <1>0, <1>3, WriterHasLine, Advance DEF WritePage, ConvInv, LinesApart
<1>5. fulls' \subseteq Lines /\ victims' \subseteq Lines
  <2>1. \A v : NowFull(wp, v) \subseteq Lines /\ NowVictim(wp, v) \subseteq Lines
    BY InLines DEF NowFull, NowVictim
  <2>2. QED
    BY <1>3, <2>1 DEF WritePage
<1>6. maptbl' \in [Lpns -> Ppas \cup {Unmapped}] /\ rmap' \in [Ppas -> Lpns \cup {InvalidLpn}]
  BY <1>3 DEF WritePage
<1>7. write_credits' \in 0 .. PgsPerLine
  BY <1>0, <1>3, Sizes DEF WritePage
<1>8. ConvTypeOK'
  BY <1>0, <1>2, <1>3, <1>4, <1>5, <1>6, <1>7, WriteBuffer DEF ConvInv, ConvTypeOK, States
<1>9. QED
  BY <1>1, <1>8, WriteLines, WriteMaps, WriteEnough, WriteBuffer DEF ConvInv
-----------------------------------------------------------------------------
(* Commands, credits and the buffer.                                       *)

LEMMA SameLines ==
  ASSUME ConvInv, UNCHANGED <<lineVars, mapVars, wp, gc_wp, victim, gpos>>,
         cpc' = "gc" <=> cpc = "gc"
  PROVE  /\ (LinesApart /\ LinesFilled /\ LinesCounted /\ WillErase /\ MapsAgree /\ MappedApart)'
         /\ Room' = Room /\ Left' = Left
<1> USE DEF lineVars, mapVars
<1>1. (LinesApart /\ LinesFilled)'
  <2>1. Freed' = Freed /\ Opens' = Opens
    BY DEF Freed, Opens
  <2>2. LinesApart'
    BY <2>1 DEF ConvInv, LinesApart
  <2>3. LinesFilled'
    BY <2>1 DEF ConvInv, LinesFilled
  <2>4. QED
    BY <2>2, <2>3
<1>2. (LinesCounted /\ WillErase)'
  BY DEF ConvInv, LinesCounted, WillErase, PagesOf, PagesIn
<1>3. (MapsAgree /\ MappedApart)'
  BY DEF ConvInv, MapsAgree, MappedApart, Copied, GcPage
<1>4. Room' = Room /\ Left' = Left
  BY DEF Room, Left
<1>5. QED
  BY <1>1, <1>2, <1>3, <1>4

LEMMA ReleaseKeeps ==
  ASSUME ConvInv, ReleaseBuffer
  PROVE  ConvInv'
<1>0. /\ UNCHANGED <<lineVars, mapVars, wp, gc_wp, victim, gpos, cpc, write_credits, credits_to_refill, cur, last>>
      /\ due > 0 /\ due' = due - 1 /\ remaining' = remaining + PgsPerOneshot * SecsPerPg
  BY DEF ReleaseBuffer, gcVars
<1>1. (LinesApart /\ LinesFilled /\ LinesCounted /\ WillErase /\ MapsAgree /\ MappedApart)' /\ Room' = Room /\ Left' = Left
  BY <1>0, SameLines
<1>2. Enough' /\ Phases' /\ Promised' = Promised
  BY <1>0, <1>1 DEF ConvInv, Enough, Phases, Promised
<1>3. Owed' = Owed - PgsPerOneshot * SecsPerPg
  <2> DEFINE r == wp[2] % PgsPerOneshot
             O == PgsPerOneshot
             S == SecsPerPg
  <2>1. O \in Nat \ {0} /\ S \in Nat \ {0} /\ due \in Nat /\ r \in Int
    BY BufferParts
  <2>2. Owed = (due * O + r) * S /\ Owed' = ((due - 1) * O + r) * S
    BY <1>0 DEF Owed
  <2> HIDE DEF r, O, S
  <2>3. ((due - 1) * O + r) * S = (due * O + r) * S - O * S
    BY <2>1
  <2>4. QED
    BY <2>2, <2>3 DEF O, S
<1>4. PgsPerOneshot * SecsPerPg \in Nat
  BY BufferParts
<1> DEFINE x == PgsPerOneshot * SecsPerPg
<1>5. Surplus' = Surplus
  <2>1. Surplus' = remaining' + Owed' - WbSize
    BY DEF Surplus
  <2>2. x \in Nat /\ Owed' = Owed - x /\ remaining' = remaining + x
    BY <1>0, <1>3, <1>4
  <2> HIDE DEF x
  <2>3. QED
    BY <2>1, <2>2, BufferParts
<1>6. BufferKept'
  BY <1>2, <1>5 DEF ConvInv, BufferKept
<1>7. due' \in Nat /\ remaining' \in 0 .. WbSize + MaxSurplus
  <2>1. Promised \in Nat
    <3>1. Promised = 0 \/ (cur <= last /\ (Promised = (last - cur + 1) * SecsPerPg \/ Promised = (last - cur) * SecsPerPg))
      BY DEF Promised, ConvInv, Phases
    <3>2. cur <= last => (last - cur + 1) * SecsPerPg \in Nat /\ (last - cur) * SecsPerPg \in Nat
      <4>1. cur <= last => last - cur + 1 \in Nat /\ last - cur \in Nat /\ SecsPerPg \in Nat
        BY BufferParts
      <4>2. \A a, b \in Nat : a * b \in Nat
        OBVIOUS
      <4>3. QED
        BY <4>1, <4>2
    <3>3. QED
      BY <3>1, <3>2
  <2>2. Surplus + Promised <= MaxSurplus /\ Surplus = remaining + Owed - WbSize
    BY BufferParts DEF ConvInv, BufferKept
  <2>3. x \in Nat /\ Owed' = Owed - x /\ remaining' = remaining + x
    BY <1>0, <1>3, <1>4
  <2>4. Owed' \in Nat
    <3>1. due' \in Nat /\ PgsPerOneshot \in Nat /\ SecsPerPg \in Nat /\ wp[2] % PgsPerOneshot \in Nat
      BY <1>0, BufferParts
    <3>2. Owed' = (due' * PgsPerOneshot + (wp[2] % PgsPerOneshot)) * SecsPerPg
      BY <1>0 DEF Owed
    <3>3. \A a, b, c, d \in Nat : (a * b + c) * d \in Nat
      OBVIOUS
    <3>4. QED
      BY <3>1, <3>2, <3>3
  <2> HIDE DEF x
  <2>5. QED
    BY <1>0, <2>1, <2>2, <2>3, <2>4, BufferParts
<1>8. ConvTypeOK'
  BY <1>0, <1>7 DEF ConvInv, ConvTypeOK, lineVars, mapVars
<1>9. QED
  BY <1>1, <1>2, <1>6, <1>8 DEF ConvInv

LEMMA ConvWriteKeeps ==
  ASSUME ConvInv, NEW slba \in 0 .. NLpns * SecsPerPg - 1, NEW nlb \in 1 .. MaxNlb, ConvWrite(slba, nlb)
  PROVE  ConvInv'
<1> DEFINE S == SecsPerPg
           first == slba \div S
           end == (slba + nlb - 1) \div S
<1>0. /\ UNCHANGED <<lineVars, mapVars, wp, gc_wp, victim, gpos, write_credits, credits_to_refill, due>>
      /\ cpc = "idle" /\ cpc' = "page" /\ cur' = first /\ last' = end /\ end < NLpns
      /\ remaining >= nlb /\ remaining' = remaining - nlb
      /\ Surplus + (end - first + 1) * S - nlb <= MaxSurplus
  BY DEF ConvWrite, gcVars
<1>1. S \in Nat \ {0} /\ slba \in Nat /\ nlb \in Nat \ {0} /\ NLpns \in Nat \ {0}
  <2>1. S \in Nat \ {0} /\ NLpns \in Nat \ {0} /\ MaxNlb \in Nat \ {0}
    BY ConvAssumption
  <2>2. NLpns * S \in Nat
    BY <2>1
  <2>3. QED
    BY <2>1, <2>2
<1>2. first \in Nat /\ end \in Nat /\ first <= end /\ (end - first + 1) * S \in Nat /\ (end - first + 1) * S >= nlb
  <2>1. PICK q \in Nat, r \in 0 .. S - 1 : slba = S * q + r
    BY <1>1, DivSplit
  <2>2. slba + nlb - 1 \in Nat
    BY <1>1
  <2>3. PICK p \in Nat, t \in 0 .. S - 1 : slba + nlb - 1 = S * p + t
    <3> DEFINE y == slba + nlb - 1
    <3> HIDE DEF y
    <3>1. \E p \in Nat, t \in 0 .. S - 1 : y = S * p + t
      BY <1>1, <2>2, DivSplit DEF y
    <3>2. QED
      BY <3>1 DEF y
  <2>4. first = q /\ end = p
    <3>1. q \in Int /\ p \in Int
      OBVIOUS
    <3>2. (S * q + r) \div S = q /\ (S * p + t) \div S = p
      BY <3>1, <1>1, DivIs
    <3>3. QED
      BY <3>2, <2>1, <2>3
  <2> HIDE DEF first, end, S
  <2>5. q <= p
    <3>1. SUFFICES ASSUME q >= p + 1 PROVE FALSE
      OBVIOUS
    <3>2. S * q >= S * (p + 1)
      BY <3>1, <1>1
    <3>3. S * (p + 1) = S * p + S /\ S * p \in Nat /\ S * q \in Nat
      BY <1>1
    <3>4. QED
      BY <3>2, <3>3, <2>1, <2>3, <1>1
  <2>6. (p - q + 1) * S = S * p - S * q + S /\ S * p \in Nat /\ S * q \in Nat
    BY <1>1
  <2>7. S * p - S * q + S >= nlb
    BY <2>1, <2>3, <2>6, <1>1
  <2>8. QED
    BY <2>4, <2>5, <2>6, <2>7, <1>1
<1> DEFINE x == (end - first + 1) * S
<1>3. (LinesApart /\ LinesFilled /\ LinesCounted /\ WillErase /\ MapsAgree /\ MappedApart)' /\ Room' = Room
  BY <1>0, SameLines
<1>4. first \in Lpns /\ end \in Lpns
  <2> HIDE DEF first, end
  <2>1. QED
    BY <1>0, <1>1, <1>2 DEF Lpns
<1>5. Enough' /\ Phases'
  <2> HIDE DEF first, end
  <2>1. Phases'
    BY <1>0, <1>2 DEF ConvInv, Phases
  <2>2. Enough'
    BY <1>0, <1>3 DEF ConvInv, Enough
  <2>3. QED
    BY <2>1, <2>2
<1>6. BufferKept'
  <2>1. Owed' = Owed
    BY <1>0 DEF Owed
  <2>2. Surplus' = remaining' + Owed' - WbSize
    BY DEF Surplus
  <2>3. Promised' = x /\ Promised = 0
    BY <1>0 DEF Promised
  <2>4. x \in Nat /\ x >= nlb
    BY <1>2
  <2>5. Surplus + x - nlb <= MaxSurplus
    BY <1>0
  <2>6. Surplus + 0 \in 0 .. MaxSurplus
    BY <2>3 DEF ConvInv, BufferKept
  <2> HIDE DEF x, first, end
  <2>7. Surplus' = Surplus - nlb
    BY <2>1, <2>2, <1>0, <1>1, BufferParts
  <2>8. Surplus' + x \in 0 .. MaxSurplus
    BY <2>4, <2>5, <2>6, <2>7, <1>1, BufferParts
  <2>9. QED
    BY <2>3, <2>8 DEF BufferKept
<1>7. remaining' \in 0 .. WbSize + MaxSurplus
  <2>1. remaining \in 0 .. WbSize + MaxSurplus
    BY DEF ConvInv, ConvTypeOK
  <2>2. QED
    BY <2>1, <1>0, <1>1, BufferParts
<1>8. ConvTypeOK'
  <2> HIDE DEF first, end
  <2>1. QED
    BY <1>0, <1>4, <1>7 DEF ConvInv, ConvTypeOK, lineVars, mapVars
<1>9. QED
  BY <1>3, <1>5, <1>6, <1>8 DEF ConvInv

LEMMA UnionAtMost ==
  ASSUME NEW S, IsFiniteSet(S), NEW T, IsFiniteSet(T)
  PROVE  /\ IsFiniteSet(S \cup T) /\ Cardinality(S \cup T) \in Nat
         /\ Cardinality(S \cup T) <= Cardinality(S) + Cardinality(T)
<1>1. IsFiniteSet(S \cup T) /\ Cardinality(S \cup T) = Cardinality(S) + Cardinality(T) - Cardinality(S \cap T)
  BY FS_Union
<1>2. IsFiniteSet(S \cap T)
  <2>1. S \cap T \in SUBSET S
    OBVIOUS
  <2>2. QED
    BY <2>1, FS_Subset
<1>3. Cardinality(S \cap T) \in Nat /\ Cardinality(S) \in Nat /\ Cardinality(T) \in Nat /\ Cardinality(S \cup T) \in Nat
  BY <1>1, <1>2, FS_CardinalityType
<1>4. QED
  BY <1>1, <1>3

\* With no victim nearly all lines that are not free are full of mapped pages, and the
\* logical pages do not fill that many.
LEMMA FreeWithoutVictims ==
  ASSUME ConvInv, victims = {}, victim = NoLine
  PROVE  Len(free_lines) >= 3
<1> DEFINE n == Len(free_lines)
           Pages == fulls \X Places
<1>0. /\ IsFiniteSet(Lines) /\ NoLine \notin Lines /\ NLpns \in Nat \ {0} /\ PgsPerLine \in Nat \ {0}
      /\ NLpns < (Cardinality(Lines) - 4) * PgsPerLine
  BY ConvAssumption, Sizes
<1>1. /\ fulls \subseteq Lines /\ free_lines \in Seq(Lines) /\ n \in Nat
      /\ status \in [Ppas -> States] /\ rmap \in [Ppas -> Lpns \cup {InvalidLpn}]
  BY LenProperties DEF ConvInv, ConvTypeOK, States
<1>2. IsFiniteSet(fulls) /\ Cardinality(fulls) \in Nat /\ Cardinality(Lines) \in Nat
  BY <1>0, <1>1, FS_Subset, FS_CardinalityType
<1>3. IsFiniteSet(Freed) /\ Cardinality(Freed) \in Nat /\ Cardinality(Freed) <= n
  <2> DEFINE f == [i \in 1 .. n |-> free_lines[i]]
  <2>1. f \in Surjection(1 .. n, Freed)
    BY DEF Freed, Elems, Surjection
  <2>2. IsFiniteSet(1 .. n) /\ Cardinality(1 .. n) = n
    <3>1. 1 \in Int /\ n \in Int
      BY <1>1
    <3>2. IsFiniteSet(1 .. n) /\ Cardinality(1 .. n) = IF 1 > n THEN 0 ELSE n - 1 + 1
      BY <3>1, FS_Interval
    <3> HIDE DEF n
    <3>3. QED
      BY <1>1, <3>2
  <2> HIDE DEF f
  <2>3. IsFiniteSet(Freed) /\ Cardinality(Freed) <= Cardinality(1 .. n)
    BY <2>1, <2>2, FS_Surjection
  <2>4. QED
    BY <2>2, <2>3, FS_CardinalityType
<1>4. Cardinality(Lines) <= n + Cardinality(fulls) + 2
  <2>1. IsFiniteSet(Opens) /\ Cardinality(Opens) <= 2 /\ Cardinality(Opens) \in Nat
    <3>1. IsFiniteSet({wp[1]}) /\ Cardinality({wp[1]}) = 1
      BY FS_Singleton
    <3>2. Opens = {wp[1]} \cup {gc_wp[1]}
      BY DEF Opens
    <3>3. IsFiniteSet(Opens) /\ Cardinality(Opens) = IF gc_wp[1] \in {wp[1]} THEN 1 ELSE 1 + 1
      BY <3>1, <3>2, FS_AddElement
    <3>4. QED
      BY <3>3
  <2>2. Lines \subseteq (Freed \cup fulls) \cup Opens
    BY <1>0 DEF ConvInv, LinesApart
  <2>3. IsFiniteSet(Freed \cup fulls) /\ Cardinality(Freed \cup fulls) <= Cardinality(Freed) + Cardinality(fulls)
        /\ Cardinality(Freed \cup fulls) \in Nat
    BY <1>2, <1>3, UnionAtMost
  <2>4. IsFiniteSet((Freed \cup fulls) \cup Opens)
        /\ Cardinality((Freed \cup fulls) \cup Opens) <= Cardinality(Freed \cup fulls) + Cardinality(Opens)
        /\ Cardinality((Freed \cup fulls) \cup Opens) \in Nat
    BY <2>1, <2>3, UnionAtMost
  <2>5. Cardinality(Lines) <= Cardinality((Freed \cup fulls) \cup Opens)
    BY <2>2, <2>4, FS_Subset
  <2>6. QED
    BY <1>1, <1>2, <1>3, <2>1, <2>3, <2>4, <2>5
<1>5. Cardinality(fulls) * PgsPerLine <= NLpns
  <2> DEFINE g == [p \in Pages |-> rmap[p]]
  <2>1. ASSUME NEW p \in Pages PROVE p \in Ppas /\ rmap[p] \in Lpns /\ maptbl[rmap[p]] = p
    <3>1. p \in Ppas /\ p[1] \in fulls /\ p[2] \in Places /\ p = <<p[1], p[2]>>
      BY <1>1 DEF Ppas
    <3>2. status[<<p[1], p[2]>>] = "valid"
      BY <3>1 DEF ConvInv, LinesFilled
    <3>3. status[p] = "valid" /\ ~Copied(p)
      BY <3>1, <3>2 DEF Copied
    <3>4. QED
      BY <3>1, <3>3 DEF ConvInv, MapsAgree
  <2>2. g \in Injection(Pages, Lpns)
    <3>1. g \in [Pages -> Lpns]
      BY <2>1
    <3>2. ASSUME NEW a \in Pages, NEW b \in Pages, g[a] = g[b] PROVE a = b
      <4>1. rmap[a] = rmap[b]
        BY <3>2
      <4>2. QED
        BY <4>1, <2>1
    <3>3. QED
      BY <3>1, <3>2 DEF Injection, IsInjective
  <2>3. IsFiniteSet(Lpns) /\ Cardinality(Lpns) = NLpns
    <3>1. 0 \in Int /\ NLpns - 1 \in Int
      BY <1>0
    <3>2. IsFiniteSet(0 .. NLpns - 1) /\ Cardinality(0 .. NLpns - 1) = IF 0 > NLpns - 1 THEN 0 ELSE NLpns - 1 - 0 + 1
      BY <3>1, FS_Interval
    <3>3. QED
      BY <1>0, <3>2 DEF Lpns
  <2>4. IsFiniteSet(Places) /\ Cardinality(Places) = PgsPerLine
    <3>1. 0 \in Int /\ PgsPerLine - 1 \in Int
      BY <1>0
    <3>2. IsFiniteSet(0 .. PgsPerLine - 1) /\ Cardinality(0 .. PgsPerLine - 1) = IF 0 > PgsPerLine - 1 THEN 0 ELSE PgsPerLine - 1 - 0 + 1
      BY <3>1, FS_Interval
    <3>3. QED
      BY <1>0, <3>2 DEF Places
  <2> HIDE DEF g
  <2>5. Cardinality(Pages) <= Cardinality(Lpns)
    BY <2>2, <2>3, FS_Injection
  <2>6. Cardinality(Pages) = Cardinality(fulls) * Cardinality(Places)
    BY <1>2, <2>4, FS_Product
  <2>7. QED
    BY <2>3, <2>4, <2>5, <2>6
<1>6. Cardinality(fulls) < Cardinality(Lines) - 4
  <2> DEFINE a == Cardinality(fulls)
             b == Cardinality(Lines) - 4
  <2>1. a \in Nat /\ b \in Int /\ a * PgsPerLine < b * PgsPerLine /\ PgsPerLine \in Nat \ {0}
    <3>1. a * PgsPerLine \in Int /\ b * PgsPerLine \in Int /\ a \in Nat /\ b \in Int
      BY <1>0, <1>2
    <3>2. a * PgsPerLine <= NLpns /\ NLpns < b * PgsPerLine
      BY <1>0, <1>5
    <3> HIDE DEF a, b
    <3>3. QED
      BY <1>0, <3>1, <3>2
  <2> HIDE DEF a, b
  <2>2. SUFFICES ASSUME a >= b PROVE FALSE
    BY <2>1 DEF a, b
  <2>3. a * PgsPerLine >= b * PgsPerLine
    BY <2>1, <2>2
  <2>4. a * PgsPerLine \in Int /\ b * PgsPerLine \in Int
    BY <2>1
  <2>5. QED
    BY <2>1, <2>3, <2>4
<1>7. QED
  BY <1>1, <1>2, <1>4, <1>6

LEMMA RoomFor ==
  ASSUME ConvInv, Len(free_lines) >= 3
  PROVE  Room \in Int /\ Room >= 3 * PgsPerLine + 2
<1> DEFINE n == Len(free_lines)
           x == n * PgsPerLine
           a == wp[2]
           b == gc_wp[2]
<1>1. n \in Nat /\ n >= 3 /\ a \in 0 .. PgsPerLine - 1 /\ b \in 0 .. PgsPerLine - 1 /\ PgsPerLine \in Nat \ {0}
  BY InLines, Sizes
<1>2. Room = x + (PgsPerLine - a) + (PgsPerLine - b)
  BY DEF Room
<1> HIDE DEF n, a, b
<1>3. x \in Int /\ x >= 3 * PgsPerLine
  BY <1>1
<1> HIDE DEF x
<1>4. QED
  BY <1>1, <1>2, <1>3

\* The command goes on with its next page or ends.
LEMMA NextPageIs ==
  ASSUME ConvInv, cpc \in {"credit", "gc"}, NextPage
  PROVE  /\ cpc' \in {"idle", "page"} /\ cur' \in Lpns /\ last' \in Lpns
         /\ cpc' # "idle" => cur' <= last'
         /\ Promised' = Promised
<1>0. cur <= last /\ cur \in Lpns /\ last \in Lpns /\ NLpns \in Nat \ {0}
  BY ConvAssumption DEF ConvInv, Phases, ConvTypeOK
<1>1. cpc' \in {"idle", "page"} /\ cur' \in Lpns /\ last' \in Lpns /\ (cpc' # "idle" => cur' <= last')
  BY <1>0 DEF NextPage, Lpns
<1>2. Promised = (last - cur) * SecsPerPg
  BY DEF Promised
<1>3. CASE cur = last
  <2>1. Promised' = 0
    BY <1>3 DEF NextPage, Promised
  <2>2. (last - cur) * SecsPerPg = 0
    <3>1. last - cur = 0 /\ SecsPerPg \in Nat
      BY <1>3, BufferParts
    <3>2. QED
      BY <3>1
  <2>3. QED
    BY <1>1, <1>2, <2>1, <2>2
<1>4. CASE cur # last
  <2>1. Promised' = (last' - cur' + 1) * SecsPerPg /\ cur' = cur + 1 /\ last' = last
    BY <1>4 DEF NextPage, Promised
  <2>2. last - (cur + 1) + 1 = last - cur
    BY BufferParts
  <2>3. QED
    BY <1>1, <1>2, <2>1, <2>2
<1>5. QED
  BY <1>3, <1>4

LEMMA CreditKeeps ==
  ASSUME ConvInv, CreditPage
  PROVE  ConvInv'
<1>0. /\ UNCHANGED <<lineVars, mapVars, wp, gc_wp, victim, gpos, credits_to_refill, remaining, due>>
      /\ cpc = "credit" /\ cpc' \in {"idle", "page"} /\ victim = NoLine /\ NoCollection /\ NextPage /\ cur <= last
      /\ write_credits' = IF write_credits > 0 THEN write_credits ELSE credits_to_refill
  BY DEF CreditPage, gcVars, bufVars, NextPage, ConvInv, Phases
<1>1. (LinesApart /\ LinesFilled /\ LinesCounted /\ WillErase /\ MapsAgree /\ MappedApart)' /\ Room' = Room
  BY <1>0, SameLines
<1>2. /\ cur \in Lpns /\ last \in Lpns /\ write_credits \in 0 .. PgsPerLine /\ credits_to_refill \in 1 .. PgsPerLine
      /\ NLpns \in Nat \ {0} /\ PgsPerLine \in Nat \ {0}
  BY ConvAssumption, Sizes DEF ConvInv, ConvTypeOK
<1>3. cur' \in Lpns /\ last' \in Lpns /\ (cpc' # "idle" => cur' <= last') /\ Promised' = Promised
  BY <1>0, NextPageIs
<1>4. write_credits' \in 1 .. PgsPerLine
  BY <1>0, <1>2
<1>5. Phases'
  BY <1>0, <1>2, <1>3, <1>4 DEF Phases, ConvInv
<1>6. Enough'
  <2>1. Room - write_credits >= 2 * PgsPerLine + 2
    BY <1>0 DEF ConvInv, Enough
  <2>2. CASE write_credits > 0
    BY <2>1, <2>2, <1>0, <1>1 DEF Enough
  <2>3. CASE ~(write_credits > 0)
    <3>1. Len(free_lines) >= 3
      <4>1. CASE Len(free_lines) > GcThresLinesHigh
        BY <4>1, InLines DEF GcThresLinesHigh
      <4>2. CASE victims = {}
        BY <4>2, <1>0, FreeWithoutVictims
      <4>3. QED
        BY <4>1, <4>2, <2>3, <1>0 DEF NoCollection
    <3>2. Room \in Int /\ Room >= 3 * PgsPerLine + 2
      BY <3>1, RoomFor
    <3>3. Room - credits_to_refill >= 2 * PgsPerLine + 2
      BY <3>2, <1>2
    <3>4. QED
      BY <3>3, <2>3, <1>0, <1>1 DEF Enough
  <2>4. QED
    BY <2>2, <2>3
<1>7. Surplus' = Surplus /\ Promised' = Promised
  BY <1>0, <1>3 DEF Surplus, Owed
<1>8. BufferKept'
  BY <1>7 DEF ConvInv, BufferKept
<1>9. ConvTypeOK'
  BY <1>0, <1>2, <1>3, <1>4 DEF ConvInv, ConvTypeOK, lineVars, mapVars
<1>10. QED
  BY <1>1, <1>5, <1>6, <1>8, <1>9 DEF ConvInv

-----------------------------------------------------------------------------
(* A collection begins.                                                    *)

LEMMA LeftAtMost ==
  ASSUME NEW st \in [Ppas -> States], NEW l \in Lines, NEW k \in Nat
  PROVE  LET R == {n \in k .. PgsPerLine - 1 : st[<<l, PlaceAt(n)>>] = "valid"}
         IN /\ IsFiniteSet(R) /\ Cardinality(R) \in Nat
            /\ Cardinality(R) <= Cardinality(PagesIn(st, l, "valid"))
<1> DEFINE R == {n \in k .. PgsPerLine - 1 : st[<<l, PlaceAt(n)>>] = "valid"}
           V == PagesIn(st, l, "valid")
           f == [n \in R |-> <<l, PlaceAt(n)>>]
<1>1. PgsPerLine \in Nat \ {0} /\ \A n \in R : n \in 0 .. PgsPerLine - 1
  BY Sizes
<1>2. \A n \in R : PlaceAt(n) \in Places
  BY <1>1, VisitsAll
<1>3. \A n \in R : <<l, PlaceAt(n)>> \in V
  BY <1>2 DEF PagesIn, Ppas
<1>4. \A m, n \in R : PlaceAt(m) = PlaceAt(n) => m = n
  BY <1>1, VisitsAll
<1>5. f \in Injection(R, V)
  <2>1. f \in [R -> V]
    BY <1>3
  <2>2. ASSUME NEW m \in R, NEW n \in R, f[m] = f[n] PROVE m = n
    <3>1. <<l, PlaceAt(m)>> = <<l, PlaceAt(n)>>
      BY <2>2
    <3>2. PlaceAt(m) = PlaceAt(n)
      BY <3>1
    <3>3. QED
      BY <3>2, <1>4
  <2>3. QED
    BY <2>1, <2>2 DEF Injection, IsInjective
<1>6. IsFiniteSet(V)
  BY PagesCount DEF States
<1> HIDE DEF R, V, f
<1>7. IsFiniteSet(R) /\ Cardinality(R) <= Cardinality(V)
  BY <1>5, <1>6, FS_Injection
<1>8. Cardinality(R) \in Nat
  BY <1>7, FS_CardinalityType
<1>9. QED
  BY <1>7, <1>8 DEF R, V

LEMMA StartGcKeeps ==
  ASSUME ConvInv, StartGc
  PROVE  ConvInv'
<1>0. /\ cpc = "credit" /\ cpc' = "gc" /\ gpos' = 0 /\ victim = NoLine /\ gpos = 0 /\ cur <= last
      /\ NoLine \notin Lines
  BY ConvAssumption DEF StartGc, ConvInv, Phases
<1>1. UNCHANGED <<vpc, ipc, free_lines, fulls, status, maptbl, rmap, wp, gc_wp, write_credits, cur, last, remaining, due>>
  BY DEF StartGc, mapVars, bufVars
<1>2. PICK v \in victims : victims' = victims \ {v} /\ victim' = v /\ credits_to_refill' = ipc[v]
  BY DEF StartGc
<1>3. /\ v \in Lines /\ victims \subseteq Lines /\ write_credits \in 0 .. PgsPerLine /\ PgsPerLine \in Nat \ {0}
      /\ status \in [Ppas -> States] /\ vpc \in [Lines -> 0 .. PgsPerLine] /\ ipc \in [Lines -> 0 .. PgsPerLine]
  BY <1>2, Sizes DEF ConvInv, ConvTypeOK, States
<1>4. write_credits = 0
  BY <1>3 DEF StartGc, NoCollection
<1>5. ipc[v] > 0 /\ \A i \in Places : status[<<v, i>>] # "free"
  BY DEF ConvInv, LinesFilled
<1>6. Freed' = Freed /\ Opens' = Opens
  BY <1>1 DEF Freed, Opens
<1>7. LinesApart'
  BY <1>0, <1>1, <1>2, <1>3, <1>6 DEF ConvInv, LinesApart
<1>8. LinesFilled'
  BY <1>1, <1>2, <1>6 DEF ConvInv, LinesFilled
<1>9. LinesCounted'
  BY <1>0, <1>1 DEF ConvInv, LinesCounted, PagesOf
<1>10. Phases'
  BY <1>0, <1>1, <1>2, <1>3, <1>4 DEF Phases
<1>11. WillErase'
  <2>1. SUFFICES ASSUME NEW i \in Places
                 PROVE  \E n \in 0 .. PgsPerLine - 1 : EndsBlock(n) /\ UnitOf(PlaceAt(n)) = UnitOf(i)
    BY <1>0 DEF WillErase
  <2>2. QED
    BY VisitsAll
<1>12. \A p : ~Copied(p) /\ ~Copied(p)'
  BY <1>0 DEF Copied
<1>13. (MapsAgree /\ MappedApart)'
  BY <1>1, <1>12 DEF ConvInv, MapsAgree, MappedApart
<1>14. Enough'
  <2> DEFINE R == {n \in 0 .. PgsPerLine - 1 : status[<<v, PlaceAt(n)>>] = "valid"}
  <2>1. Left' = R
    BY <1>0, <1>1, <1>2 DEF Left
  <2>2. Cardinality(R) \in Nat /\ Cardinality(R) <= Cardinality(PagesIn(status, v, "valid"))
    BY <1>3, LeftAtMost
  <2>3. Cardinality(PagesIn(status, v, "valid")) + Cardinality(PagesIn(status, v, "invalid")) = PgsPerLine
    BY <1>3, <1>5, PagesSum
  <2>4. vpc[v] = Cardinality(PagesIn(status, v, "valid")) /\ ipc[v] = Cardinality(PagesIn(status, v, "invalid"))
    BY <1>0, <1>3 DEF ConvInv, LinesCounted, PagesOf
  <2>5. Room' = Room
    BY <1>1 DEF Room
  <2>6. Room - 0 >= 2 * PgsPerLine + 2
    BY <1>0, <1>4 DEF ConvInv, Enough
  <2>7. Room \in Int
    <3>1. Len(free_lines) * PgsPerLine \in Int /\ wp[2] \in Int /\ gc_wp[2] \in Int
      BY <1>3, InLines
    <3>2. QED
      BY <3>1, <1>3 DEF Room
  <2>8. vpc[v] \in Nat /\ ipc[v] \in Nat
    BY <1>3
  <2>9. Cardinality(Left') = Cardinality(R)
    BY <2>1
  <2> HIDE DEF R
  <2>10. Room' + PgsPerLine - Cardinality(Left') - credits_to_refill' >= 2 * PgsPerLine + 2
    BY <1>2, <1>3, <2>2, <2>3, <2>4, <2>5, <2>6, <2>7, <2>8, <2>9
  <2>11. QED
    BY <1>0, <2>10 DEF Enough
<1>15. BufferKept'
  <2>1. Surplus' = Surplus /\ Promised' = Promised
    BY <1>0, <1>1 DEF Surplus, Owed, Promised
  <2>2. QED
    BY <2>1 DEF ConvInv, BufferKept
<1>16. ConvTypeOK'
  <2>1. ipc[v] \in 1 .. PgsPerLine
    BY <1>3, <1>5
  <2>2. gpos' \in 0 .. PgsPerLine
    BY <1>0, <1>3
  <2>3. QED
    BY <1>0, <1>1, <1>2, <1>3, <2>1, <2>2 DEF ConvInv, ConvTypeOK
<1>17. QED
  BY <1>7, <1>8, <1>9, <1>10, <1>11, <1>13, <1>14, <1>15, <1>16 DEF ConvInv

LEMMA FreeLineKeeps ==
  ASSUME ConvInv, FreeLine
  PROVE  ConvInv'
<1>0. /\ cpc = "gc" /\ gpos = PgsPerLine /\ victim' = NoLine /\ gpos' = 0
      /\ UNCHANGED <<victims, fulls, status, maptbl, rmap, wp, gc_wp, credits_to_refill, remaining, due>>
      /\ free_lines' = Append(free_lines, victim) /\ write_credits' = write_credits + credits_to_refill
      /\ vpc' = [vpc EXCEPT ![victim] = 0] /\ ipc' = [ipc EXCEPT ![victim] = 0] /\ NextPage
  BY DEF FreeLine, mapVars, bufVars
<1>1. /\ victim # NoLine /\ victim \in Lines /\ write_credits = 0 /\ NoLine \notin Lines
      /\ PgsPerLine \in Nat \ {0} /\ credits_to_refill \in 1 .. PgsPerLine
      /\ status \in [Ppas -> States] /\ vpc \in [Lines -> 0 .. PgsPerLine] /\ ipc \in [Lines -> 0 .. PgsPerLine]
      /\ victims \subseteq Lines /\ fulls \subseteq Lines /\ free_lines \in Seq(Lines) /\ Freed \subseteq Lines
      /\ Opens \subseteq Lines
  BY <1>0, ConvAssumption, Sizes, InLines DEF ConvInv, Phases, ConvTypeOK, States, Opens
<1>2. \A i \in Places : status[<<victim, i>>] = "free"
  <2>1. \A n \in gpos .. PgsPerLine - 1 : FALSE
    BY <1>0, <1>1
  <2>2. QED
    BY <1>0, <2>1 DEF ConvInv, WillErase
<1>3. Left = {}
  BY <1>0, <1>1 DEF Left
<1>4. /\ free_lines' \in Seq(Lines) /\ Distinct(free_lines') /\ Len(free_lines') = Len(free_lines) + 1
      /\ Len(free_lines) \in Nat /\ Freed' = Freed \cup {victim}
  BY <1>0, <1>1, AppendOf DEF ConvInv, LinesApart, Freed
<1>5. Opens' = Opens
  BY <1>0 DEF Opens
<1>6. LinesApart'
  BY <1>0, <1>1, <1>4, <1>5 DEF ConvInv, LinesApart
<1>7. LinesFilled'
  <2>1. \A l \in victims : l # victim /\ ipc'[l] = ipc[l]
    BY <1>0, <1>1 DEF ConvInv, LinesApart
  <2>2. \A l \in victims' : ipc'[l] > 0 /\ \A i \in Places : status'[<<l, i>>] # "free"
    BY <2>1, <1>0 DEF ConvInv, LinesFilled
  <2>3. \A l \in Freed', i \in Places : status'[<<l, i>>] = "free"
    BY <1>0, <1>2, <1>4 DEF ConvInv, LinesFilled
  <2>4. QED
    BY <2>2, <2>3, <1>0 DEF ConvInv, LinesFilled
<1>8. LinesCounted'
  <2>1. SUFFICES ASSUME NEW l \in Lines
                 PROVE  /\ vpc'[l] = Cardinality(PagesIn(status, l, "valid"))
                        /\ ipc'[l] = Cardinality(PagesIn(status, l, "invalid"))
    BY <1>0 DEF LinesCounted, PagesOf
  <2>2. CASE l = victim
    <3>1. vpc'[l] = 0 /\ ipc'[l] = 0
      BY <2>2, <1>0, <1>1
    <3>2. Cardinality(PagesIn(status, l, "valid")) = 0 /\ Cardinality(PagesIn(status, l, "invalid")) = 0
      BY <2>2, <1>1, <1>2, PagesCount DEF States
    <3>3. QED
      BY <3>1, <3>2
  <2>3. CASE l # victim
    BY <2>3, <1>0, <1>1 DEF ConvInv, LinesCounted, PagesOf
  <2>4. QED
    BY <2>2, <2>3
<1>9. /\ cpc' \in {"idle", "page"} /\ cur' \in Lpns /\ last' \in Lpns
      /\ cpc' # "idle" => cur' <= last'
      /\ Promised' = Promised
  BY <1>0, NextPageIs
<1>10. write_credits' = credits_to_refill
  BY <1>0, <1>1
<1>11. Phases'
  <2>1. write_credits' > 0
    BY <1>1, <1>10
  <2>2. QED
    BY <2>1, <1>0, <1>9 DEF Phases
<1>12. WillErase'
  BY <1>9 DEF WillErase
<1>13. \A p : ~Copied(p)'
  BY <1>0 DEF Copied
<1>14. \A p \in Ppas : status[p] = "valid" => ~Copied(p)
  <2>1. SUFFICES ASSUME NEW p \in Ppas, status[p] = "valid", Copied(p) PROVE FALSE
    OBVIOUS
  <2>2. p[1] = victim
    BY <2>1 DEF Copied, GcPage
  <2>3. p = <<victim, p[2]>> /\ p[2] \in Places
    BY <2>2 DEF Ppas
  <2>4. QED
    BY <2>1, <2>3, <1>2
<1>15. (MapsAgree /\ MappedApart)'
  BY <1>0, <1>13, <1>14 DEF ConvInv, MapsAgree, MappedApart
<1>16. Enough'
  <2> DEFINE n == Len(free_lines)
             x == n * PgsPerLine
             a == wp[2]
             b == gc_wp[2]
  <2>1. a \in Int /\ b \in Int /\ x \in Int
    BY <1>1, <1>4, InLines
  <2>2. Room = x + (PgsPerLine - a) + (PgsPerLine - b)
    BY DEF Room
  <2>3. Room' = (n + 1) * PgsPerLine + (PgsPerLine - a) + (PgsPerLine - b)
    BY <1>0, <1>4 DEF Room
  <2>4. (n + 1) * PgsPerLine = x + PgsPerLine
    BY <1>1, <1>4
  <2>5. Cardinality(Left) = 0
    BY <1>3, FS_EmptySet
  <2>6. Room + PgsPerLine - Cardinality(Left) - credits_to_refill >= 2 * PgsPerLine + 2
    BY <1>0 DEF ConvInv, Enough
  <2> HIDE DEF n, x, a, b
  <2>7. Room' - write_credits' >= 2 * PgsPerLine + 2
    BY <1>1, <1>10, <2>1, <2>2, <2>3, <2>4, <2>5, <2>6
  <2>8. QED
    BY <1>9, <2>7 DEF Enough
<1>17. BufferKept'
  <2>1. Surplus' = Surplus
    BY <1>0 DEF Surplus, Owed
  <2>2. QED
    BY <2>1, <1>9 DEF ConvInv, BufferKept
<1>18. ConvTypeOK'
  <2>1. vpc' \in [Lines -> 0 .. PgsPerLine] /\ ipc' \in [Lines -> 0 .. PgsPerLine]
    BY <1>0, <1>1
  <2>2. write_credits' \in 0 .. PgsPerLine
    BY <1>1, <1>10
  <2>3. gpos' \in 0 .. PgsPerLine
    BY <1>0, <1>1
  <2>4. QED
    BY <1>0, <1>4, <1>9, <2>1, <2>2, <2>3 DEF ConvInv, ConvTypeOK
<1>19. QED
  BY <1>6, <1>7, <1>8, <1>11, <1>12, <1>15, <1>16, <1>17, <1>18 DEF ConvInv

-----------------------------------------------------------------------------
(* A page is copied.                                                       *)

LEMMA GcPageIs ==
  /\ \A n : GcPage(n) = <<victim, PlaceAt(n)>>
  /\ \A n : ErasedAt(n) = {q \in Ppas : /\ EndsBlock(n) /\ q[1] = victim
                                        /\ UnitOf(q[2]) = UnitOf(PlaceAt(n))}
<1>1. \A n : GcPage(n) = <<victim, PlaceAt(n)>>
  BY DEF GcPage, PlaceAt
<1>2. \A n : ErasedAt(n) = IF EndsBlock(n) THEN BlockOf(GcPage(n)) ELSE {}
  BY DEF ErasedAt, EndsBlock
<1>3. \A n : BlockOf(GcPage(n)) = {q \in Ppas : q[1] = victim /\ UnitOf(q[2]) = UnitOf(PlaceAt(n))}
  <2>1. TAKE n
  <2>2. GcPage(n)[1] = victim /\ GcPage(n)[2] = PlaceAt(n)
    BY <1>1
  <2>3. QED
    BY <2>2 DEF BlockOf, UnitOf
<1>4. QED
  BY <1>1, <1>2, <1>3

\* What the step does, in the words of the invariant.
LEMMA CopyIs ==
  ASSUME ConvInv, CopyPage
  PROVE  LET old == <<victim, PlaceAt(gpos)>>
             moved == status[old] = "valid"
             wiped == {q \in Ppas : EndsBlock(gpos) /\ q[1] = victim /\ UnitOf(q[2]) = UnitOf(PlaceAt(gpos))}
         IN /\ cpc = "gc" /\ gpos \in 0 .. PgsPerLine - 1 /\ gpos' = gpos + 1
            /\ victim \in Lines /\ victim # NoLine /\ old \in Ppas
            /\ gc_wp \in Ppas /\ gc_wp[1] # victim /\ gc_wp \notin wiped /\ gc_wp # old
            /\ status \in [Ppas -> States] /\ status[gc_wp] = "free"
            /\ status' \in [Ppas -> States]
            /\ \A p \in Ppas : status'[p] = IF p \in wiped THEN "free"
                                           ELSE IF moved /\ p = gc_wp THEN "valid" ELSE status[p]
            /\ UNCHANGED <<ipc, wp, write_credits, credits_to_refill, cpc, cur, last, victim, remaining, due>>
<1> DEFINE old == <<victim, PlaceAt(gpos)>>
           moved == status[old] = "valid"
           wiped == {q \in Ppas : EndsBlock(gpos) /\ q[1] = victim /\ UnitOf(q[2]) = UnitOf(PlaceAt(gpos))}
<1>1. /\ cpc = "gc" /\ gpos < PgsPerLine /\ gpos' = gpos + 1
      /\ UNCHANGED <<ipc, wp, write_credits, credits_to_refill, cpc, cur, last, victim, remaining, due>>
  BY DEF CopyPage, bufVars
<1>2. GcPage(gpos) = old /\ ErasedAt(gpos) = wiped
  BY GcPageIs
<1>3. status' = [p \in Ppas |-> IF p \in wiped THEN "free"
                               ELSE IF moved /\ p = gc_wp THEN "valid" ELSE status[p]]
  BY <1>2 DEF CopyPage
<1>4. /\ victim \in Lines /\ victim # NoLine /\ gpos \in 0 .. PgsPerLine - 1
      /\ gc_wp \in Ppas /\ gc_wp[1] # victim /\ status \in [Ppas -> States] /\ status[gc_wp] = "free"
  <2>1. gpos \in 0 .. PgsPerLine /\ PgsPerLine \in Nat
    BY Sizes DEF ConvInv, ConvTypeOK
  <2>2. gpos \in 0 .. PgsPerLine - 1
    BY <1>1, <2>1
  <2>3. victim \in Lines /\ victim # NoLine /\ gc_wp[1] # victim
    BY <1>1 DEF ConvInv, Phases, ConvTypeOK, LinesApart, Opens
  <2>4. status \in [Ppas -> States]
    BY DEF ConvInv, ConvTypeOK, States
  <2>5. QED
    BY <2>2, <2>3, <2>4, InLines
<1>5. old \in Ppas
  BY <1>4, VisitsAll DEF Ppas
<1>6. gc_wp \notin wiped /\ gc_wp # old
  BY <1>4
<1> HIDE DEF wiped, moved
<1>7. status' \in [Ppas -> States]
  BY <1>3, <1>4 DEF States
<1>8. \A p \in Ppas : status'[p] = IF p \in wiped THEN "free"
                                 ELSE IF moved /\ p = gc_wp THEN "valid" ELSE status[p]
  BY <1>3
<1>9. QED
  BY <1>1, <1>4, <1>5, <1>6, <1>7, <1>8 DEF moved, wiped

LEMMA LeftFinite ==
  ASSUME ConvInv, cpc = "gc"
  PROVE  /\ IsFiniteSet(Left) /\ Cardinality(Left) \in Nat
         /\ gpos < PgsPerLine /\ status[<<victim, PlaceAt(gpos)>>] = "valid" => Cardinality(Left) >= 1
<1>1. status \in [Ppas -> States] /\ victim \in Lines /\ gpos \in Nat /\ PgsPerLine \in Nat \ {0}
  BY Sizes DEF ConvInv, ConvTypeOK, Phases, States
<1>2. IsFiniteSet(Left) /\ Cardinality(Left) \in Nat
  BY <1>1, LeftAtMost DEF Left
<1>3. ASSUME gpos < PgsPerLine, status[<<victim, PlaceAt(gpos)>>] = "valid" PROVE Cardinality(Left) >= 1
  <2>1. gpos \in Left
    BY <1>1, <1>3 DEF Left
  <2>2. Cardinality(Left) # 0
    BY <1>2, <2>1, FS_EmptySet
  <2>3. QED
    BY <1>2, <2>2
<1>4. QED
  BY <1>2, <1>3

LEMMA CopierHasLine ==
  ASSUME ConvInv, cpc = "gc", gpos < PgsPerLine, status[<<victim, PlaceAt(gpos)>>] = "valid"
  PROVE  LineDone(gc_wp) => free_lines # <<>>
<1>1. SUFFICES ASSUME LineDone(gc_wp), free_lines = <<>> PROVE FALSE
  OBVIOUS
<1>2. PgsPerLine \in Nat \ {0} /\ gc_wp[2] = PgsPerLine - 1 /\ wp[2] \in 0 .. PgsPerLine - 1
  BY <1>1, Sizes, InLines DEF LineDone
<1>3. Len(free_lines) = 0
  BY <1>1
<1>4. Len(free_lines) * PgsPerLine = 0
  BY <1>2, <1>3
<1>5. Room + PgsPerLine - Cardinality(Left) - credits_to_refill >= 2 * PgsPerLine + 2
  BY DEF ConvInv, Enough
<1>6. credits_to_refill \in 1 .. PgsPerLine
  BY DEF ConvInv, ConvTypeOK
<1>7. Cardinality(Left) \in Nat /\ Cardinality(Left) >= 1
  BY LeftFinite
<1>8. Room = 0 + (PgsPerLine - wp[2]) + (PgsPerLine - (PgsPerLine - 1))
  BY <1>2, <1>4 DEF Room
<1> DEFINE c == Cardinality(Left)
<1> HIDE DEF c
<1>9. c \in Nat /\ c >= 1 /\ Room + PgsPerLine - c - credits_to_refill >= 2 * PgsPerLine + 2
  BY <1>5, <1>7 DEF c
<1>10. QED
  BY <1>2, <1>6, <1>8, <1>9

LEMMA CopyMaps ==
  ASSUME ConvInv, CopyPage
  PROVE  /\ (MapsAgree /\ MappedApart)'
         /\ maptbl' \in [Lpns -> Ppas \cup {Unmapped}] /\ rmap' \in [Ppas -> Lpns \cup {InvalidLpn}]
<1> DEFINE old == <<victim, PlaceAt(gpos)>>
           moved == status[old] = "valid"
           wiped == {q \in Ppas : EndsBlock(gpos) /\ q[1] = victim /\ UnitOf(q[2]) = UnitOf(PlaceAt(gpos))}
           visited(p) == \E n \in 0 .. gpos : p = <<victim, PlaceAt(n)>>
<1>0. GcPage(gpos) = old /\ ErasedAt(gpos) = wiped
  BY GcPageIs
<1>1. /\ maptbl' = IF moved THEN [maptbl EXCEPT ![rmap[old]] = gc_wp] ELSE maptbl
      /\ rmap' = [p \in Ppas |-> IF p \in wiped THEN InvalidLpn
                                 ELSE IF moved /\ p = gc_wp THEN rmap[old] ELSE rmap[p]]
  BY <1>0 DEF CopyPage
<1>2. /\ gpos \in 0 .. PgsPerLine - 1 /\ gpos' = gpos + 1
      /\ victim \in Lines /\ victim # NoLine /\ victim' = victim /\ old \in Ppas
      /\ gc_wp \in Ppas /\ gc_wp[1] # victim /\ gc_wp \notin wiped /\ gc_wp # old
      /\ status[gc_wp] = "free"
      /\ \A p \in Ppas : status'[p] = IF p \in wiped THEN "free"
                                     ELSE IF moved /\ p = gc_wp THEN "valid" ELSE status[p]
  BY CopyIs
<1>3. maptbl \in [Lpns -> Ppas \cup {Unmapped}] /\ rmap \in [Ppas -> Lpns \cup {InvalidLpn}]
  BY DEF ConvInv, ConvTypeOK
<1>4. \A p : Copied(p) <=> \E n \in 0 .. gpos - 1 : p = <<victim, PlaceAt(n)>>
  BY <1>2, GcPageIs DEF Copied
<1>5. /\ \A p : Copied(p)' <=> visited(p)
      /\ \A lpn : Copied(maptbl[lpn])' <=> visited(maptbl'[lpn])
  <2>1. \A n : GcPage(n)' = <<victim, PlaceAt(n)>>
    BY <1>2 DEF GcPage, PlaceAt
  <2>2. gpos' - 1 = gpos
    BY <1>2
  <2>3. QED
    BY <1>2, <2>1, <2>2 DEF Copied
<1>6. \A p : visited(p) <=> Copied(p) \/ p = old
  <2>1. \A n : n \in 0 .. gpos <=> n \in 0 .. gpos - 1 \/ n = gpos
    BY <1>2
  <2>2. QED
    BY <1>4, <2>1
<1>7. ~Copied(old)
  <2>1. SUFFICES ASSUME NEW n \in 0 .. gpos - 1, old = <<victim, PlaceAt(n)>> PROVE FALSE
    BY <1>4
  <2>2. PlaceAt(n) = PlaceAt(gpos)
    BY <2>1
  <2>3. n \in 0 .. PgsPerLine - 1 /\ n # gpos
    BY <1>2, Sizes
  <2>4. QED
    BY <1>2, <2>2, <2>3, VisitsAll
<1>8. \A p \in wiped : visited(p)
  <2>1. SUFFICES ASSUME NEW p \in wiped PROVE \E n \in 0 .. gpos : p = <<victim, PlaceAt(n)>>
    OBVIOUS
  <2>2. p = <<victim, p[2]>> /\ p[2] \in Places /\ EndsBlock(gpos) /\ UnitOf(p[2]) = UnitOf(PlaceAt(gpos))
    BY DEF Ppas
  <2>3. PICK m \in 0 .. PgsPerLine - 1 : PlaceAt(m) = p[2]
    BY <2>2, VisitsAll
  <2>4. m <= gpos
    BY <1>2, <2>2, <2>3, VisitsAll
  <2>5. m \in 0 .. gpos
    BY <1>2, <2>4
  <2>6. QED
    BY <2>2, <2>3, <2>5
<1>9. ~visited(gc_wp)
  BY <1>2
<1>10. moved => rmap[old] \in Lpns /\ maptbl[rmap[old]] = old
  BY <1>2, <1>7 DEF ConvInv, MapsAgree
<1>11. maptbl' \in [Lpns -> Ppas \cup {Unmapped}] /\ rmap' \in [Ppas -> Lpns \cup {InvalidLpn}]
  <2> HIDE DEF old, moved, wiped
  <2>1. maptbl' \in [Lpns -> Ppas \cup {Unmapped}]
    BY <1>1, <1>2, <1>3, <1>10
  <2>2. rmap' \in [Ppas -> Lpns \cup {InvalidLpn}]
    BY <1>1, <1>2, <1>3
  <2>3. QED
    BY <2>1, <2>2
<1>12. \A lpn \in Lpns : maptbl[lpn] # Unmapped =>
          /\ status[maptbl[lpn]] = "valid" /\ rmap[maptbl[lpn]] = lpn /\ ~Copied(maptbl[lpn])
          /\ maptbl[lpn] \in Ppas
  BY <1>3 DEF ConvInv, MapsAgree, MappedApart
<1>13. \A p \in Ppas : status[p] = "valid" /\ ~Copied(p) => rmap[p] \in Lpns /\ maptbl[rmap[p]] = p
  BY DEF ConvInv, MapsAgree
<1>14. \A lpn \in Lpns : maptbl'[lpn] = IF moved /\ lpn = rmap[old] THEN gc_wp ELSE maptbl[lpn]
  <2> HIDE DEF old, moved, wiped
  <2>1. QED
    BY <1>1, <1>3
<1>15. \A p \in Ppas : rmap'[p] = IF p \in wiped THEN InvalidLpn
                                ELSE IF moved /\ p = gc_wp THEN rmap[old] ELSE rmap[p]
  <2> HIDE DEF old, moved, wiped
  <2>1. QED
    BY <1>1
<1>16. \A lpn \in Lpns : maptbl[lpn] # Unmapped /\ maptbl[lpn] = old => moved /\ lpn = rmap[old]
  BY <1>12
<1> HIDE DEF old, moved, wiped, visited
<1>17. ASSUME NEW lpn \in Lpns, maptbl'[lpn] # Unmapped
       PROVE  status'[maptbl'[lpn]] = "valid" /\ rmap'[maptbl'[lpn]] = lpn /\ ~visited(maptbl'[lpn])
  <2>1. CASE moved /\ lpn = rmap[old]
    <3>1. maptbl'[lpn] = gc_wp
      BY <2>1, <1>14
    <3>2. status'[gc_wp] = "valid" /\ rmap'[gc_wp] = lpn
      BY <2>1, <1>2, <1>15
    <3>3. ~visited(maptbl'[lpn])
      BY <3>1, <1>9
    <3>4. QED
      BY <3>1, <3>2, <3>3
  <2>2. CASE ~(moved /\ lpn = rmap[old])
    <3> DEFINE p == maptbl[lpn]
    <3>1. maptbl'[lpn] = p
      BY <2>2, <1>14
    <3>2. status[p] = "valid" /\ rmap[p] = lpn /\ ~Copied(p) /\ p \in Ppas /\ p # old
      BY <2>2, <3>1, <1>12, <1>16, <1>17
    <3>3. ~visited(p)
      BY <3>2, <1>6
    <3>4. p \notin wiped /\ p # gc_wp
      BY <3>2, <3>3, <1>2, <1>8
    <3>5. status'[p] = "valid" /\ rmap'[p] = lpn
      BY <3>2, <3>4, <1>2, <1>15
    <3>6. QED
      BY <3>1, <3>3, <3>5
  <2>3. QED
    BY <2>1, <2>2
<1>18. ASSUME NEW p \in Ppas, status'[p] = "valid", ~visited(p)
       PROVE  rmap'[p] \in Lpns /\ maptbl'[rmap'[p]] = p
  <2>1. p \notin wiped
    BY <1>8, <1>18
  <2>2. CASE moved /\ p = gc_wp
    BY <2>1, <2>2, <1>10, <1>14, <1>15
  <2>3. CASE ~(moved /\ p = gc_wp)
    <3>1. status[p] = "valid" /\ rmap'[p] = rmap[p]
      BY <2>1, <2>3, <1>2, <1>15, <1>18
    <3>2. ~Copied(p) /\ p # old
      BY <1>6, <1>18
    <3>3. rmap[p] \in Lpns /\ maptbl[rmap[p]] = p
      BY <3>1, <3>2, <1>13
    <3>4. ~(moved /\ rmap[p] = rmap[old])
      BY <3>2, <3>3, <1>10
    <3>5. QED
      BY <3>1, <3>3, <3>4, <1>14
  <2>4. QED
    BY <2>2, <2>3
<1>19. MapsAgree'
  BY <1>5, <1>17, <1>18 DEF MapsAgree
<1>20. MappedApart'
  BY <1>5, <1>17 DEF MappedApart
<1>21. QED
  BY <1>11, <1>19, <1>20

\* The pages of the lines but the victim afterwards.
LEMMA CopyStatus ==
  ASSUME ConvInv, CopyPage
  PROVE  /\ \A l \in Lines \ {victim} :
              /\ vpc'[l] = Cardinality(PagesIn(status', l, "valid"))
              /\ ipc'[l] = Cardinality(PagesIn(status', l, "invalid"))
         /\ vpc' \in [Lines -> 0 .. PgsPerLine]
<1> DEFINE old == <<victim, PlaceAt(gpos)>>
           moved == status[old] = "valid"
           wiped == {q \in Ppas : EndsBlock(gpos) /\ q[1] = victim /\ UnitOf(q[2]) = UnitOf(PlaceAt(gpos))}
           w == gc_wp[1]
<1>0. GcPage(gpos) = old
  BY GcPageIs
<1>1. vpc' = (IF moved THEN [vpc EXCEPT ![w] = @ + 1] ELSE vpc) /\ ipc' = ipc
  BY <1>0 DEF CopyPage
<1>2. /\ victim \in Lines /\ victim # NoLine /\ gc_wp \in Ppas /\ w # victim
      /\ status \in [Ppas -> States] /\ status' \in [Ppas -> States] /\ status[gc_wp] = "free"
      /\ \A p \in Ppas : status'[p] = IF p \in wiped THEN "free"
                                     ELSE IF moved /\ p = gc_wp THEN "valid" ELSE status[p]
  BY CopyIs
<1>3. vpc \in [Lines -> 0 .. PgsPerLine] /\ ipc \in [Lines -> 0 .. PgsPerLine] /\ w \in Lines /\ PgsPerLine \in Nat
  BY InLines, Sizes DEF ConvInv, ConvTypeOK
<1>4. \A p \in Ppas : p[1] # victim => p \notin wiped
  OBVIOUS
<1> HIDE DEF old, moved, wiped
<1>5. ASSUME NEW l \in Lines \ {victim}
      PROVE  /\ vpc'[l] = Cardinality(PagesIn(status', l, "valid"))
             /\ ipc'[l] = Cardinality(PagesIn(status', l, "invalid"))
  <2> DEFINE A == PagesIn(status, l, "valid")
             B == PagesIn(status, l, "invalid")
  <2>1. vpc[l] = Cardinality(A) /\ ipc[l] = Cardinality(B)
    BY DEF ConvInv, LinesCounted, PagesOf
  <2>2. IsFiniteSet(A)
    BY <1>2, PagesCount DEF States
  <2>3. PagesIn(status', l, "invalid") = B
    BY <1>2, <1>4 DEF PagesIn
  <2>4. ipc'[l] = Cardinality(PagesIn(status', l, "invalid"))
    BY <2>1, <2>3, <1>1
  <2>5. CASE moved /\ l = w
    <3>1. PagesIn(status', l, "valid") = A \cup {gc_wp}
      BY <2>5, <1>2, <1>4 DEF PagesIn
    <3>2. gc_wp \notin A
      BY <1>2 DEF PagesIn
    <3>3. Cardinality(A \cup {gc_wp}) = Cardinality(A) + 1
      BY <2>2, <3>2, FS_AddElement
    <3>4. vpc'[l] = vpc[l] + 1
      BY <2>5, <1>1, <1>3
    <3>5. vpc'[l] = Cardinality(PagesIn(status', l, "valid"))
      <4> HIDE DEF A
      <4>1. QED
        BY <2>1, <3>1, <3>3, <3>4
    <3>6. QED
      BY <2>4, <3>5
  <2>6. CASE ~(moved /\ l = w)
    <3>1. PagesIn(status', l, "valid") = A
      BY <2>6, <1>2, <1>4 DEF PagesIn
    <3>2. vpc'[l] = vpc[l]
      BY <2>6, <1>1, <1>3
    <3>3. QED
      BY <2>1, <2>4, <3>1, <3>2
  <2>7. QED
    BY <2>5, <2>6
<1>6. \A l \in Lines \ {victim} : vpc'[l] \in 0 .. PgsPerLine
  BY <1>2, <1>5, PagesCount DEF States
<1>7. vpc'[victim] \in 0 .. PgsPerLine
  BY <1>1, <1>2, <1>3
<1>8. vpc' = [l \in Lines |-> vpc'[l]]
  BY <1>1, <1>3
<1>9. vpc' \in [Lines -> 0 .. PgsPerLine]
  <2> DEFINE f == vpc'
  <2>1. f = [l \in Lines |-> f[l]] /\ \A l \in Lines : f[l] \in 0 .. PgsPerLine
    BY <1>6, <1>7, <1>8
  <2> HIDE DEF f
  <2>2. f \in [Lines -> 0 .. PgsPerLine]
    BY <2>1
  <2>3. QED
    BY <2>2 DEF f
<1>10. QED
  BY <1>5, <1>9

\* The writer of the copies after the step.
LEMMA CopyWriter ==
  ASSUME ConvInv, CopyPage
  PROVE  LET moved == status[<<victim, PlaceAt(gpos)>>] = "valid"
             w == gc_wp[1]
         IN /\ gc_wp' \in Ppas /\ free_lines' \in Seq(Lines) /\ Distinct(free_lines')
            /\ moved /\ LineDone(gc_wp) => /\ gc_wp'[1] \in Freed /\ gc_wp'[2] = 0
                                           /\ Freed' = Freed \ {gc_wp'[1]}
                                           /\ Len(free_lines') = Len(free_lines) - 1
            /\ moved /\ ~LineDone(gc_wp) => /\ gc_wp'[1] = w /\ gc_wp'[2] = gc_wp[2] + 1
                                            /\ free_lines' = free_lines /\ Freed' = Freed
            /\ ~moved => gc_wp' = gc_wp /\ free_lines' = free_lines /\ Freed' = Freed
            /\ fulls' = fulls \cup {l \in {w} : moved /\ LineDone(gc_wp) /\ vpc'[l] = PgsPerLine}
            /\ victims' = victims \cup {l \in {w} : moved /\ LineDone(gc_wp) /\ vpc'[l] # PgsPerLine}
<1> DEFINE old == <<victim, PlaceAt(gpos)>>
           moved == status[old] = "valid"
           w == gc_wp[1]
           valid == IF moved THEN [vpc EXCEPT ![w] = @ + 1] ELSE vpc
<1>0. GcPage(gpos) = old
  BY GcPageIs
<1>1. /\ vpc' = valid
      /\ fulls' = IF moved THEN fulls \cup NowFull(gc_wp, valid) ELSE fulls
      /\ victims' = IF moved THEN victims \cup NowVictim(gc_wp, valid) ELSE victims
      /\ gc_wp' = IF moved THEN Advanced(gc_wp) ELSE gc_wp
      /\ free_lines' = IF moved THEN FreeAfter(gc_wp) ELSE free_lines
      /\ cpc = "gc" /\ gpos < PgsPerLine
  BY <1>0 DEF CopyPage
<1> HIDE DEF valid
<1>2. /\ fulls' = fulls \cup {l \in {w} : moved /\ LineDone(gc_wp) /\ vpc'[l] = PgsPerLine}
      /\ victims' = victims \cup {l \in {w} : moved /\ LineDone(gc_wp) /\ vpc'[l] # PgsPerLine}
  BY <1>1 DEF NowFull, NowVictim
<1>3. gc_wp \in Ppas /\ free_lines \in Seq(Lines) /\ Distinct(free_lines)
  BY DEF ConvInv, ConvTypeOK, LinesApart
<1>4. CASE moved
  <2>1. LineDone(gc_wp) => free_lines # <<>>
    BY <1>1, <1>4, CopierHasLine
  <2>2. gc_wp' = Advanced(gc_wp) /\ free_lines' = FreeAfter(gc_wp) /\ Freed' = Elems(FreeAfter(gc_wp))
    BY <1>1, <1>4 DEF Freed
  <2>3. QED
    BY <1>2, <1>3, <1>4, <2>1, <2>2, Advance DEF Freed
<1>5. CASE ~moved
  <2>1. gc_wp' = gc_wp /\ free_lines' = free_lines /\ Freed' = Freed
    BY <1>1, <1>5 DEF Freed
  <2>2. QED
    BY <1>2, <1>3, <1>5, <2>1
<1>6. QED
  BY <1>4, <1>5

LEMMA CopyLines ==
  ASSUME ConvInv, CopyPage
  PROVE  (LinesApart /\ LinesFilled /\ LinesCounted /\ WillErase)'
<1> DEFINE old == <<victim, PlaceAt(gpos)>>
           moved == status[old] = "valid"
           wiped == {q \in Ppas : EndsBlock(gpos) /\ q[1] = victim /\ UnitOf(q[2]) = UnitOf(PlaceAt(gpos))}
           w == gc_wp[1]
           done == moved /\ LineDone(gc_wp)
<1>0. /\ cpc = "gc" /\ cpc' = cpc /\ gpos \in 0 .. PgsPerLine - 1 /\ gpos' = gpos + 1 /\ victim' = victim /\ wp' = wp
      /\ ipc' = ipc
      /\ victim \in Lines /\ victim # NoLine
      /\ gc_wp \in Ppas /\ w # victim
      /\ status \in [Ppas -> States] /\ status' \in [Ppas -> States] /\ status[gc_wp] = "free"
      /\ \A p \in Ppas : status'[p] = IF p \in wiped THEN "free"
                                     ELSE IF moved /\ p = gc_wp THEN "valid" ELSE status[p]
  BY CopyIs
<1>1. /\ gc_wp' \in Ppas /\ Distinct(free_lines')
      /\ done => gc_wp'[1] \in Freed /\ gc_wp'[2] = 0 /\ Freed' = Freed \ {gc_wp'[1]}
      /\ moved /\ ~done => gc_wp'[1] = w /\ gc_wp'[2] = gc_wp[2] + 1 /\ Freed' = Freed
      /\ ~moved => gc_wp' = gc_wp /\ Freed' = Freed
      /\ fulls' = fulls \cup {l \in {w} : done /\ vpc'[l] = PgsPerLine}
      /\ victims' = victims \cup {l \in {w} : done /\ vpc'[l] # PgsPerLine}
  BY CopyWriter
<1>2. /\ LinesApart /\ LinesFilled
      /\ fulls \subseteq Lines /\ victims \subseteq Lines /\ Freed \subseteq Lines
      /\ wp \in Ppas /\ wp[1] \in Lines /\ w \in Lines /\ gc_wp[2] \in 0 .. PgsPerLine - 1
      /\ gc_wp = <<w, gc_wp[2]>>
      /\ PgsPerLine \in Nat \ {0}
  BY InLines, Sizes DEF ConvInv, ConvTypeOK
<1>3. /\ \A l \in Lines \ {victim} : /\ vpc'[l] = Cardinality(PagesIn(status', l, "valid"))
                                     /\ ipc'[l] = Cardinality(PagesIn(status', l, "invalid"))
  BY CopyStatus
<1>4. LinesCounted'
  BY <1>0, <1>3 DEF LinesCounted, PagesOf
<1>5. \A l \in Lines, i \in Places :
        l # victim => status'[<<l, i>>] = IF moved /\ l = w /\ i = gc_wp[2] THEN "valid" ELSE status[<<l, i>>]
  <2>1. TAKE l \in Lines, i \in Places
  <2>2. HAVE l # victim
  <2>3. <<l, i>> \in Ppas /\ <<l, i>> \notin wiped /\ (<<l, i>> = gc_wp <=> l = w /\ i = gc_wp[2])
    BY <2>2, <1>2 DEF Ppas
  <2>4. QED
    BY <2>3, <1>0
<1>6. \A i \in Places : status'[<<victim, i>>] = IF <<victim, i>> \in wiped THEN "free" ELSE status[<<victim, i>>]
  <2>1. TAKE i \in Places
  <2>2. <<victim, i>> \in Ppas /\ <<victim, i>> # gc_wp
    BY <1>0, <1>2 DEF Ppas
  <2>3. QED
    BY <2>2, <1>0
<1>7. WillErase'
  <2>1. SUFFICES ASSUME NEW i \in Places, status'[<<victim, i>>] # "free"
                 PROVE  \E n \in gpos + 1 .. PgsPerLine - 1 : EndsBlock(n) /\ UnitOf(PlaceAt(n)) = UnitOf(i)
    BY <1>0 DEF WillErase
  <2>2. <<victim, i>> \notin wiped /\ status[<<victim, i>>] # "free" /\ <<victim, i>> \in Ppas
    BY <2>1, <1>0, <1>6 DEF Ppas
  <2>3. PICK n \in gpos .. PgsPerLine - 1 : EndsBlock(n) /\ UnitOf(PlaceAt(n)) = UnitOf(i)
    BY <2>2, <1>0 DEF ConvInv, WillErase
  <2>4. n # gpos
    BY <2>2, <2>3
  <2>5. n \in gpos + 1 .. PgsPerLine - 1
    BY <2>4, <1>0, <1>2
  <2>6. QED
    BY <2>3, <2>5
<1> HIDE DEF wiped, moved, old
<1>8. Opens' = {wp[1], gc_wp'[1]}
  BY <1>0 DEF Opens
<1>9. /\ fulls' \cup victims' = fulls \cup victims \cup (IF done THEN {w} ELSE {})
      /\ fulls' \cap victims' = {}
  BY <1>1, <1>2 DEF LinesApart, Opens
<1>10. LinesApart'
  <2>1. wp'[1] # gc_wp'[1]
    BY <1>0, <1>1, <1>2 DEF LinesApart, Opens
  <2>2. victim' \notin Freed' \cup fulls' \cup victims' \cup Opens'
    BY <1>0, <1>1, <1>2, <1>8, <1>9 DEF LinesApart, Opens
  <2>3. Freed' \cap (fulls' \cup victims') = {} /\ Opens' \cap (Freed' \cup fulls' \cup victims') = {}
    BY <1>1, <1>2, <1>8, <1>9 DEF LinesApart, Opens
  <2>4. Lines \subseteq Freed' \cup fulls' \cup victims' \cup Opens' \cup {victim'}
    <3>1. Lines \subseteq Freed \cup fulls \cup victims \cup {wp[1], w} \cup {victim}
      BY <1>2 DEF LinesApart, Opens
    <3>2. QED
      BY <3>1, <1>0, <1>1, <1>8, <1>9
  <2>5. QED
    BY <1>1, <1>9, <2>1, <2>2, <2>3, <2>4 DEF LinesApart
<1>11. ASSUME done, NEW i \in Places PROVE status'[<<w, i>>] # "free"
  <2>1. gc_wp[2] = PgsPerLine - 1 /\ i \in 0 .. PgsPerLine - 1
    BY <1>11 DEF LineDone, Places
  <2>2. CASE i = PgsPerLine - 1
    BY <2>1, <2>2, <1>0, <1>2, <1>5, <1>11
  <2>3. CASE i # PgsPerLine - 1
    <3>1. ~(i >= gc_wp[2])
      BY <2>1, <2>3, <1>2
    <3>2. status[<<w, i>>] # "free"
      BY <3>1, <1>2 DEF LinesFilled, Open
    <3>3. QED
      BY <3>2, <1>0, <1>2, <1>5
  <2>4. QED
    BY <2>2, <2>3
<1>12. LinesFilled'
  <2>1. ASSUME NEW l \in Freed', NEW i \in Places PROVE status'[<<l, i>>] = "free"
    <3>1. l \in Freed /\ l \in Lines /\ l # w /\ l # victim
      BY <1>1, <1>2 DEF LinesApart, Opens
    <3>2. QED
      BY <3>1, <1>2, <1>5 DEF LinesFilled
  <2>2. ASSUME NEW l \in fulls', NEW i \in Places PROVE status'[<<l, i>>] = "valid"
    <3>1. CASE l \in fulls
      <4>1. l \in Lines /\ l # w /\ l # victim
        BY <3>1, <1>2 DEF LinesApart, Opens
      <4>2. QED
        BY <3>1, <4>1, <1>2, <1>5 DEF LinesFilled
    <3>2. CASE l = w /\ vpc'[l] = PgsPerLine
      <4>1. Cardinality(PagesIn(status', w, "valid")) = PgsPerLine
        BY <3>2, <1>0, <1>2, <1>3
      <4>2. QED
        BY <4>1, <3>2, <1>0, <1>2, PagesCount DEF States
    <3>3. QED
      BY <3>1, <3>2, <1>1
  <2>3. ASSUME NEW l \in victims' PROVE ipc'[l] > 0 /\ \A i \in Places : status'[<<l, i>>] # "free"
    <3>1. CASE l \in victims
      <4>1. l \in Lines /\ l # w /\ l # victim
        BY <3>1, <1>2 DEF LinesApart, Opens
      <4>2. QED
        BY <3>1, <4>1, <1>0, <1>2, <1>5 DEF LinesFilled
    <3>2. CASE l = w /\ done /\ vpc'[l] # PgsPerLine
      <4>1. \A i \in Places : status'[<<w, i>>] # "free"
        BY <3>2, <1>11
      <4>2. Cardinality(PagesIn(status', w, "valid")) + Cardinality(PagesIn(status', w, "invalid")) = PgsPerLine
        BY <4>1, <1>0, <1>2, PagesSum
      <4>3. /\ Cardinality(PagesIn(status', w, "valid")) \in 0 .. PgsPerLine
            /\ Cardinality(PagesIn(status', w, "invalid")) \in 0 .. PgsPerLine
        BY <1>0, <1>2, PagesCount DEF States
      <4>4. vpc'[w] = Cardinality(PagesIn(status', w, "valid")) /\ ipc'[w] = Cardinality(PagesIn(status', w, "invalid"))
        BY <1>0, <1>2, <1>3
      <4>5. ipc'[w] > 0
        BY <4>2, <4>3, <4>4, <3>2, <1>2
      <4>6. QED
        BY <3>2, <4>1, <4>5
    <3>3. QED
      BY <3>1, <3>2, <1>1
  <2>4. Open(status', wp)
    <3>1. wp[1] # w /\ wp[1] # victim
      BY <1>2 DEF LinesApart, Opens
    <3>2. \A i \in Places : status'[<<wp[1], i>>] = status[<<wp[1], i>>]
      BY <3>1, <1>2, <1>5
    <3>3. QED
      BY <3>2, <1>2 DEF LinesFilled, Open
  <2>5. Open(status', gc_wp')
    <3>1. CASE done
      <4>1. gc_wp'[1] \in Freed /\ gc_wp'[2] = 0 /\ gc_wp'[1] \in Lines /\ gc_wp'[1] # w /\ gc_wp'[1] # victim
        BY <3>1, <1>1, <1>2 DEF LinesApart, Opens
      <4>2. ASSUME NEW i \in Places PROVE status'[<<gc_wp'[1], i>>] = "free" /\ i >= 0
        <5>1. status[<<gc_wp'[1], i>>] = "free"
          BY <4>1, <1>2 DEF LinesFilled
        <5>2. QED
          BY <4>1, <5>1, <1>5 DEF Places
      <4>3. QED
        BY <4>1, <4>2 DEF Open
    <3>2. CASE moved /\ ~done
      <4>1. gc_wp'[1] = w /\ gc_wp'[2] = gc_wp[2] + 1
        BY <3>2, <1>1
      <4>2. ASSUME NEW i \in Places PROVE status'[<<w, i>>] = "free" <=> i >= gc_wp[2] + 1
        <5>0. i \in Int /\ gc_wp[2] \in Int
          BY <1>2 DEF Places
        <5>1. status[<<w, i>>] = "free" <=> i >= gc_wp[2]
          BY <1>2 DEF LinesFilled, Open
        <5>2. status'[<<w, i>>] = IF i = gc_wp[2] THEN "valid" ELSE status[<<w, i>>]
          BY <3>2, <1>0, <1>2, <1>5
        <5>3. QED
          BY <5>0, <5>1, <5>2
      <4>3. QED
        BY <4>1, <4>2 DEF Open
    <3>3. CASE ~moved
      <4>1. gc_wp' = gc_wp /\ \A i \in Places : status'[<<w, i>>] = status[<<w, i>>]
        BY <3>3, <1>0, <1>1, <1>2, <1>5
      <4>2. QED
        BY <4>1, <1>2 DEF LinesFilled, Open
    <3>4. QED
      BY <3>1, <3>2, <3>3
  <2>6. QED
    BY <1>0, <2>1, <2>2, <2>3, <2>4, <2>5 DEF LinesFilled
<1>13. QED
  BY <1>4, <1>7, <1>10, <1>12

LEMMA CopyEnough ==
  ASSUME ConvInv, CopyPage
  PROVE  Enough'
<1> DEFINE old == <<victim, PlaceAt(gpos)>>
           moved == status[old] = "valid"
           wiped == {q \in Ppas : EndsBlock(gpos) /\ q[1] = victim /\ UnitOf(q[2]) = UnitOf(PlaceAt(gpos))}
           c == Cardinality(Left)
           n == Len(free_lines)
           x == n * PgsPerLine
           a == wp[2]
           b == gc_wp[2]
<1>0. /\ cpc = "gc" /\ cpc' = cpc /\ gpos \in 0 .. PgsPerLine - 1 /\ gpos' = gpos + 1 /\ victim' = victim /\ wp' = wp
      /\ credits_to_refill' = credits_to_refill
      /\ victim \in Lines /\ gc_wp[1] # victim
      /\ status' \in [Ppas -> States]
      /\ \A p \in Ppas : status'[p] = IF p \in wiped THEN "free"
                                     ELSE IF moved /\ p = gc_wp THEN "valid" ELSE status[p]
  BY CopyIs
<1>1. /\ PgsPerLine \in Nat \ {0} /\ a \in Int /\ b \in Int /\ n \in Nat /\ x \in Int
      /\ credits_to_refill \in 1 .. PgsPerLine
  <2>1. PgsPerLine \in Nat \ {0} /\ a \in Int /\ b \in Int /\ n \in Nat
    BY InLines, Sizes
  <2>2. x \in Int
    BY <2>1
  <2>3. QED
    BY <2>1, <2>2 DEF ConvInv, ConvTypeOK
<1>2. Room = x + (PgsPerLine - a) + (PgsPerLine - b)
  BY DEF Room
<1>3. Room' = IF moved THEN Room - 1 ELSE Room
  <2>0. Room' = Len(free_lines') * PgsPerLine + (PgsPerLine - a) + (PgsPerLine - gc_wp'[2])
    BY <1>0 DEF Room
  <2>1. CASE moved /\ LineDone(gc_wp)
    <3>1. gc_wp'[2] = 0 /\ Len(free_lines') = n - 1 /\ b = PgsPerLine - 1
      BY <2>1, CopyWriter DEF LineDone
    <3>2. (n - 1) * PgsPerLine = x - PgsPerLine
      BY <1>1
    <3>3. Room' = (n - 1) * PgsPerLine + (PgsPerLine - a) + (PgsPerLine - 0)
      BY <2>0, <3>1
    <3> HIDE DEF n, x, a, b
    <3>4. QED
      BY <2>1, <3>1, <3>2, <3>3, <1>1, <1>2
  <2>2. CASE moved /\ ~LineDone(gc_wp)
    <3>1. gc_wp'[2] = b + 1 /\ free_lines' = free_lines
      BY <2>2, CopyWriter
    <3>2. Room' = x + (PgsPerLine - a) + (PgsPerLine - (b + 1))
      BY <2>0, <3>1
    <3> HIDE DEF n, x, a, b
    <3>3. QED
      BY <2>2, <3>2, <1>1, <1>2
  <2>3. CASE ~moved
    <3>1. gc_wp' = gc_wp /\ free_lines' = free_lines
      BY <2>3, CopyWriter
    <3>2. Room' = Room
      BY <3>1, <1>0 DEF Room
    <3>3. QED
      BY <2>3, <3>2
  <2>4. QED
    BY <2>1, <2>2, <2>3
<1>4. IsFiniteSet(Left) /\ c \in Nat
  BY <1>0, LeftFinite
<1>5. Left' \subseteq Left \ {gpos}
  <2>1. Left' = {k \in gpos + 1 .. PgsPerLine - 1 : status'[<<victim, PlaceAt(k)>>] = "valid"}
    BY <1>0 DEF Left
  <2>2. SUFFICES ASSUME NEW k \in gpos + 1 .. PgsPerLine - 1, status'[<<victim, PlaceAt(k)>>] = "valid"
                 PROVE  k \in gpos .. PgsPerLine - 1 /\ k # gpos /\ status[<<victim, PlaceAt(k)>>] = "valid"
    BY <2>1 DEF Left
  <2>3. k \in gpos .. PgsPerLine - 1 /\ k # gpos /\ k \in 0 .. PgsPerLine - 1
    BY <1>0, <1>1
  <2>4. <<victim, PlaceAt(k)>> \in Ppas /\ <<victim, PlaceAt(k)>> # gc_wp
    BY <2>3, <1>0, VisitsAll DEF Ppas
  <2>5. QED
    BY <2>2, <2>3, <2>4, <1>0
<1>6. IsFiniteSet(Left') /\ Cardinality(Left') \in Nat /\ Cardinality(Left') <= IF moved THEN c - 1 ELSE c
  <2>1. CASE moved
    <3>1. gpos \in Left
      BY <2>1, <1>0, <1>1 DEF Left
    <3>2. IsFiniteSet(Left \ {gpos}) /\ Cardinality(Left \ {gpos}) = c - 1
      BY <1>4, <3>1, FS_RemoveElement
    <3>3. IsFiniteSet(Left') /\ Cardinality(Left') <= Cardinality(Left \ {gpos})
      BY <1>5, <3>2, FS_Subset
    <3>4. Cardinality(Left') \in Nat
      BY <3>3, FS_CardinalityType
    <3>5. Cardinality(Left') <= c - 1
      BY <3>2, <3>3
    <3> HIDE DEF c
    <3>6. QED
      BY <2>1, <3>3, <3>4, <3>5
  <2>2. CASE ~moved
    <3>1. Left' \in SUBSET Left
      BY <1>5
    <3>2. IsFiniteSet(Left') /\ Cardinality(Left') <= c
      BY <1>4, <3>1, FS_Subset
    <3>3. Cardinality(Left') \in Nat
      BY <3>2, FS_CardinalityType
    <3> HIDE DEF c
    <3>4. QED
      BY <2>2, <3>2, <3>3
  <2>3. QED
    BY <2>1, <2>2
<1>7. Room + PgsPerLine - c - credits_to_refill >= 2 * PgsPerLine + 2
  BY <1>0 DEF ConvInv, Enough
<1> DEFINE d == Cardinality(Left)'
<1>8. d \in Nat /\ d <= IF moved THEN c - 1 ELSE c
  BY <1>6
<1>9. Room \in Int
  BY <1>1, <1>2
<1> HIDE DEF c, d, x, a, b, n, moved
<1>10. Room' + PgsPerLine - d - credits_to_refill >= 2 * PgsPerLine + 2
  BY <1>1, <1>3, <1>4, <1>7, <1>8, <1>9
<1>11. QED
  BY <1>0, <1>10 DEF Enough, d

LEMMA CopyKeeps ==
  ASSUME ConvInv, CopyPage
  PROVE  ConvInv'
<1>0. /\ cpc = "gc" /\ gpos \in 0 .. PgsPerLine - 1 /\ gpos' = gpos + 1 /\ PgsPerLine \in Nat
      /\ status' \in [Ppas -> States]
      /\ UNCHANGED <<ipc, wp, write_credits, credits_to_refill, cpc, cur, last, victim, remaining, due>>
  BY CopyIs, Sizes
<1>1. gc_wp' \in Ppas /\ free_lines' \in Seq(Lines) /\ fulls' \subseteq Lines /\ victims' \subseteq Lines
  <2>1. gc_wp[1] \in Lines /\ fulls \subseteq Lines /\ victims \subseteq Lines
    BY InLines DEF ConvInv, ConvTypeOK
  <2>2. QED
    BY <2>1, CopyWriter
<1>2. gpos' \in 0 .. PgsPerLine /\ vpc' \in [Lines -> 0 .. PgsPerLine]
  BY <1>0, CopyStatus
<1>3. maptbl' \in [Lpns -> Ppas \cup {Unmapped}] /\ rmap' \in [Ppas -> Lpns \cup {InvalidLpn}]
  BY CopyMaps
<1>4. ConvTypeOK'
  BY <1>0, <1>1, <1>2, <1>3 DEF ConvInv, ConvTypeOK, States
<1>5. Phases'
  BY <1>0 DEF ConvInv, Phases
<1>6. BufferKept'
  <2>1. Surplus' = Surplus /\ Promised' = Promised
    BY <1>0 DEF Surplus, Owed, Promised
  <2>2. QED
    BY <2>1 DEF ConvInv, BufferKept
<1>7. QED
  BY <1>4, <1>5, <1>6, CopyLines, CopyMaps, CopyEnough DEF ConvInv
-----------------------------------------------------------------------------
LEMMA ConvStart == ConvInit => ConvInv
<1> SUFFICES ASSUME ConvInit PROVE ConvInv
  OBVIOUS
<1> DEFINE c == Cardinality(Lines)
           P == PgsPerLine
<1>0. /\ vpc = [l \in Lines |-> 0] /\ ipc = [l \in Lines |-> 0]
      /\ victims = {} /\ fulls = {}
      /\ status = [p \in Ppas |-> "free"]
      /\ maptbl = [lpn \in Lpns |-> Unmapped]
      /\ rmap = [p \in Ppas |-> InvalidLpn]
      /\ write_credits = P /\ credits_to_refill = P
      /\ cpc = "idle" /\ cur = 0 /\ last = 0
      /\ victim = NoLine /\ gpos = 0
      /\ remaining = WbSize /\ due = 0
  BY DEF ConvInit
<1>1. PICK order \in [1 .. c -> Lines] :
        /\ \A i, j \in DOMAIN order : order[i] = order[j] => i = j
        /\ free_lines = SubSeq(order, 3, Len(order))
        /\ wp = <<order[1], 0>>
        /\ gc_wp = <<order[2], 0>>
  BY DEF ConvInit
<1>2. /\ NoLine \notin Lines /\ IsFiniteSet(Lines) /\ NLpns \in Nat \ {0} /\ P \in Nat \ {0}
      /\ NLpns < (c - 4) * P /\ WbSize \in Nat /\ MaxSurplus \in Nat
  BY ConvAssumption, Sizes
<1>3. c \in Nat /\ c >= 5
  <2>1. c \in Nat
    BY <1>2, FS_CardinalityType
  <2> HIDE DEF c, P
  <2>2. (c - 4) * P > 0
    <3>1. (c - 4) * P \in Int
      BY <1>2, <2>1
    <3>2. QED
      BY <3>1, <1>2
  <2>3. c - 4 > 0
    <3>1. SUFFICES ASSUME c - 4 <= 0 PROVE FALSE
      BY <2>1
    <3>2. (c - 4) * P <= 0
      BY <3>1, <2>1, <1>2
    <3>3. QED
      BY <2>2, <3>2, <2>1, <1>2
  <2>4. QED
    BY <2>1, <2>3
<1>4. /\ order \in Seq(Lines) /\ Len(order) = c
      /\ 1 \in 1 .. c /\ 2 \in 1 .. c
      /\ order[1] \in Lines /\ order[2] \in Lines /\ order[1] # order[2]
  <2> HIDE DEF c
  <2>1. order \in Seq(Lines) /\ Len(order) = c
    BY <1>3, SeqDef
  <2>2. 1 \in 1 .. c /\ 2 \in 1 .. c /\ 1 # 2
    BY <1>3
  <2>3. QED
    BY <1>1, <2>1, <2>2
<1>5. /\ free_lines \in Seq(Lines) /\ Len(free_lines) = c - 2
      /\ \A i \in 1 .. c - 2 : free_lines[i] = order[i + 2]
  <2> HIDE DEF c
  <2>1. 3 \in 1 .. Len(order) + 1 /\ Len(order) \in 3 - 1 .. Len(order)
    BY <1>3, <1>4
  <2>2. /\ SubSeq(order, 3, Len(order)) \in Seq(Lines)
        /\ Len(SubSeq(order, 3, Len(order))) = IF 3 <= Len(order) THEN Len(order) - 3 + 1 ELSE 0
        /\ \A i \in 1 .. (Len(order) - 3 + 1) : SubSeq(order, 3, Len(order))[i] = order[3 + i - 1]
    BY <2>1, <1>4, SubSeqProperties
  <2>3. Len(order) - 3 + 1 = c - 2 /\ 3 <= Len(order)
    BY <1>3, <1>4
  <2>4. \A i \in 1 .. c - 2 : 3 + i - 1 = i + 2
    BY <1>3
  <2>5. QED
    BY <1>1, <2>2, <2>3, <2>4
<1>6. /\ wp \in Ppas /\ gc_wp \in Ppas /\ wp[1] = order[1] /\ wp[2] = 0 /\ gc_wp[1] = order[2] /\ gc_wp[2] = 0
  BY <1>1, <1>2, <1>4 DEF Ppas, Places
<1>7. ConvTypeOK
  <2>1. 0 \in Lpns /\ 0 \in 0 .. P /\ P \in 0 .. P /\ P \in 1 .. P /\ WbSize \in 0 .. WbSize + MaxSurplus
    BY <1>2 DEF Lpns
  <2>2. QED
    BY <1>0, <1>5, <1>6, <2>1 DEF ConvTypeOK
<1>8. Phases
  BY <1>0, <1>2 DEF Phases
<1>9. \A i \in 1 .. c - 2 : i + 2 \in 1 .. c /\ i + 2 # 1 /\ i + 2 # 2
  <2> HIDE DEF c
  <2>1. QED
    BY <1>3
<1>10. LinesApart
  <2>1. Distinct(free_lines)
    <3>1. SUFFICES ASSUME NEW i \in 1 .. c - 2, NEW j \in 1 .. c - 2, free_lines[i] = free_lines[j] PROVE i = j
      BY <1>5 DEF Distinct
    <3>2. i + 2 = j + 2
      BY <3>1, <1>1, <1>5, <1>9
    <3>3. QED
      BY <3>2
  <2>2. Opens \cap Freed = {}
    <3>1. \A i \in 1 .. c - 2 : free_lines[i] # order[1] /\ free_lines[i] # order[2]
      BY <1>1, <1>4, <1>5, <1>9
    <3>2. QED
      BY <3>1, <1>5, <1>6 DEF Opens, Freed, Elems
  <2>3. Lines \subseteq Freed \cup Opens
    <3>1. SUFFICES ASSUME NEW l \in Lines, l \notin Opens PROVE l \in Freed
      OBVIOUS
    <3>2. order \in Surjection(1 .. c, Lines)
      <4>1. order \in Injection(1 .. c, Lines)
        BY <1>1 DEF Injection, IsInjective
      <4>2. IsFiniteSet(1 .. c) /\ Cardinality(1 .. c) = c
        <5>1. 1 \in Int /\ c \in Int
          BY <1>3
        <5>2. IsFiniteSet(1 .. c) /\ Cardinality(1 .. c) = IF 1 > c THEN 0 ELSE c - 1 + 1
          BY <5>1, FS_Interval
        <5> DEFINE d == c
        <5> HIDE DEF d
        <5>3. d \in Nat /\ d >= 5 /\ Cardinality(1 .. c) = IF 1 > d THEN 0 ELSE d - 1 + 1
          BY <1>3, <5>2 DEF d
        <5>4. Cardinality(1 .. c) = d
          BY <5>3
        <5>5. QED
          BY <5>2, <5>4 DEF d
      <4>3. QED
        BY <4>1, <4>2, <1>2, FS_Injection
    <3>3. PICK k \in 1 .. c : order[k] = l
      BY <3>2 DEF Surjection
    <3>4. k # 1 /\ k # 2
      BY <3>1, <3>3, <1>6 DEF Opens
    <3>5. k - 2 \in 1 .. c - 2 /\ (k - 2) + 2 = k
      <4> HIDE DEF c
      <4>1. QED
        BY <3>4, <1>3
    <3>6. free_lines[k - 2] = l
      BY <3>3, <3>5, <1>5
    <3>7. QED
      BY <3>5, <3>6, <1>5 DEF Freed, Elems
  <2>4. victim \notin Freed \cup Opens
    <3>1. Freed \subseteq Lines /\ Opens \subseteq Lines
      BY <1>4, <1>5, <1>6, ElementOfSeq DEF Freed, Elems, Opens
    <3>2. QED
      BY <3>1, <1>0, <1>2
  <2>5. QED
    BY <1>0, <1>4, <1>6, <2>1, <2>2, <2>3, <2>4 DEF LinesApart
<1>11. \A l \in Lines, i \in Places : status[<<l, i>>] = "free"
  BY <1>0 DEF Ppas
<1>12. LinesFilled
  <2>1. Freed \subseteq Lines
    BY <1>5, ElementOfSeq DEF Freed, Elems
  <2>2. \A i \in Places : i >= 0
    BY <1>2 DEF Places
  <2>3. QED
    BY <1>0, <1>4, <1>6, <1>11, <2>1, <2>2 DEF LinesFilled, Open
<1>13. LinesCounted
  <2>1. SUFFICES ASSUME NEW l \in Lines
                 PROVE  /\ vpc[l] = Cardinality(PagesIn(status, l, "valid"))
                        /\ ipc[l] = Cardinality(PagesIn(status, l, "invalid"))
    BY DEF LinesCounted, PagesOf
  <2>2. status \in [Ppas -> States]
    BY <1>0 DEF States
  <2>3. Cardinality(PagesIn(status, l, "valid")) = 0 /\ Cardinality(PagesIn(status, l, "invalid")) = 0
    BY <1>11, <2>2, PagesCount DEF States
  <2>4. QED
    BY <2>3, <1>0
<1>14. WillErase
  BY <1>0 DEF WillErase
<1>15. MapsAgree /\ MappedApart
  BY <1>0 DEF MapsAgree, MappedApart
<1>16. Enough
  <2>1. Room = (c - 2) * P + (P - 0) + (P - 0)
    BY <1>5, <1>6 DEF Room
  <2> HIDE DEF c, P
  <2>2. (c - 2) * P >= 3 * P /\ (c - 2) * P \in Int
    BY <1>2, <1>3
  <2> DEFINE x == (c - 2) * P
  <2>3. Room = x + (P - 0) + (P - 0) /\ x >= 3 * P /\ x \in Int
    BY <2>1, <2>2
  <2> HIDE DEF x
  <2>4. Room - P >= 2 * P + 2
    BY <2>3, <1>2
  <2>5. QED
    BY <2>4, <1>0 DEF Enough, P
<1>17. BufferKept
  <2>1. PgsPerOneshot \in Nat \ {0} /\ SecsPerPg \in Nat
    BY ConvAssumption
  <2>2. 0 % PgsPerOneshot = 0
    <3>1. 0 \in 0 .. PgsPerOneshot - 1
      BY <2>1
    <3>2. QED
      BY <2>1, <3>1, ModSmall
  <2>3. Owed = 0
    <3>1. Owed = (0 * PgsPerOneshot + 0) * SecsPerPg
      BY <1>0, <1>6, <2>2 DEF Owed
    <3>2. QED
      BY <2>1, <3>1
  <2>4. Surplus = 0 /\ Promised = 0
    BY <1>0, <1>2, <2>3 DEF Surplus, Promised
  <2>5. QED
    BY <2>4, <1>2 DEF BufferKept
<1>18. QED
  BY <1>7, <1>8, <1>10, <1>12, <1>13, <1>14, <1>15, <1>16, <1>17 DEF ConvInv

\* Every step of the translation layer keeps the invariant.
LEMMA ConvKeeps ==
  ASSUME ConvInv, ConvNext \/ UNCHANGED convVars
  PROVE  ConvInv'
<1>1. ASSUME NEW slba \in 0 .. NLpns * SecsPerPg - 1, NEW nlb \in 1 .. MaxNlb, ConvWrite(slba, nlb)
      PROVE  ConvInv'
  BY <1>1, ConvWriteKeeps
<1>2. ASSUME UNCHANGED convVars PROVE ConvInv'
  <2>1. /\ UNCHANGED <<lineVars, mapVars, wp, gc_wp, victim, gpos>>
        /\ UNCHANGED <<cpc, write_credits, credits_to_refill, cur, last, remaining, due>>
    BY <1>2 DEF convVars, gcVars, bufVars
  <2>2. (LinesApart /\ LinesFilled /\ LinesCounted /\ WillErase /\ MapsAgree /\ MappedApart)'
        /\ Room' = Room /\ Left' = Left
    BY <2>1, SameLines
  <2>3. Surplus' = Surplus /\ Promised' = Promised
    BY <2>1 DEF Surplus, Owed, Promised
  <2>4. Enough' /\ Phases' /\ BufferKept'
    BY <2>1, <2>2, <2>3 DEF ConvInv, Enough, Phases, BufferKept
  <2>5. ConvTypeOK'
    BY <2>1 DEF ConvInv, ConvTypeOK, lineVars, mapVars
  <2>6. QED
    BY <2>2, <2>4, <2>5 DEF ConvInv
<1>3. QED
  BY <1>1, <1>2, WriteKeeps, CreditKeeps, StartGcKeeps, CopyKeeps, FreeLineKeeps, ReleaseKeeps DEF ConvNext

LEMMA OnListOnce ==
  ASSUME NEW s \in Seq(Lines), Distinct(s), NEW l
  PROVE  Cardinality({i \in DOMAIN s : s[i] = l}) = IF l \in Elems(s) THEN 1 ELSE 0
<1>0. DOMAIN s = 1 .. Len(s)
  BY LenProperties
<1>1. CASE l \in Elems(s)
  <2>1. PICK k \in 1 .. Len(s) : s[k] = l
    BY <1>1 DEF Elems
  <2>2. {i \in DOMAIN s : s[i] = l} = {k}
    BY <2>1, <1>0 DEF Distinct
  <2>3. QED
    BY <1>1, <2>2, FS_Singleton
<1>2. CASE l \notin Elems(s)
  <2>1. {i \in DOMAIN s : s[i] = l} = {}
    BY <1>0, <1>2 DEF Elems
  <2>2. QED
    BY <1>2, <2>1, FS_EmptySet
<1>3. QED
  BY <1>1, <1>2

LEMMA InvAccounts ==
  ASSUME ConvInv
  PROVE  LinesAccounted
<1> DEFINE inFree(l) == Cardinality({i \in DOMAIN free_lines : free_lines[i] = l})
           in(l, S) == IF l \in S THEN 1 ELSE 0
<1>0. /\ free_lines \in Seq(Lines) /\ status \in [Ppas -> States]
      /\ vpc \in [Lines -> 0 .. PgsPerLine] /\ ipc \in [Lines -> 0 .. PgsPerLine]
      /\ LinesApart /\ LinesFilled /\ PgsPerLine \in Nat \ {0} /\ 0 \in Places
  BY Sizes DEF ConvInv, ConvTypeOK, States, Places
<1>1. \A l \in Lines : inFree(l) = IF l \in Freed THEN 1 ELSE 0
  BY <1>0, OnListOnce DEF LinesApart, Freed
<1>2. \A l, s : Count(l, s) = Cardinality(PagesIn(status, l, s))
  BY DEF Count, PagesIn
<1>3. \A l \in Lines : l # victim =>
        vpc[l] = Cardinality(PagesIn(status, l, "valid")) /\ ipc[l] = Cardinality(PagesIn(status, l, "invalid"))
  BY DEF ConvInv, LinesCounted, PagesOf
<1>4. \A l \in Lines : inFree(l) + in(l, fulls) + in(l, victims) + in(l, {wp[1]}) + in(l, {gc_wp[1]})
                         + in(l, {victim}) = 1
  <2> HIDE DEF inFree
  <2>1. TAKE l \in Lines
  <2>2. CASE l \in Freed
    BY <2>2, <1>0, <1>1 DEF LinesApart, Opens
  <2>3. CASE l \in fulls
    BY <2>3, <1>0, <1>1 DEF LinesApart, Opens
  <2>4. CASE l \in victims
    BY <2>4, <1>0, <1>1 DEF LinesApart, Opens
  <2>5. CASE l \in Opens
    BY <2>5, <1>0, <1>1 DEF LinesApart, Opens
  <2>6. CASE l = victim
    BY <2>6, <1>0, <1>1 DEF LinesApart, Opens
  <2>7. QED
    BY <2>2, <2>3, <2>4, <2>5, <2>6, <1>0 DEF LinesApart
<1>5. \A l \in Lines : inFree(l) = 1 => Count(l, "free") = PgsPerLine
  <2> HIDE DEF inFree
  <2>1. TAKE l \in Lines
  <2>2. HAVE inFree(l) = 1
  <2>3. \A i \in Places : status[<<l, i>>] = "free"
    <3>1. inFree(l) = IF l \in Freed THEN 1 ELSE 0
      BY <1>1
    <3>2. l \in Freed
      BY <2>2, <3>1
    <3>3. QED
      BY <3>2, <1>0 DEF LinesFilled
  <2>4. Cardinality(PagesIn(status, l, "free")) = PgsPerLine
    BY <2>3, <1>0, PagesCount DEF States
  <2>5. QED
    BY <2>4, <1>2
<1>6. \A l \in Lines : l \in fulls <=> Count(l, "valid") = PgsPerLine /\ l # victim /\ l # wp[1] /\ l # gc_wp[1]
  <2>1. TAKE l \in Lines
  <2>2. Count(l, "valid") = PgsPerLine <=> \A i \in Places : status[<<l, i>>] = "valid"
    BY <1>0, <1>2, PagesCount DEF States
  <2>3. ASSUME l \in fulls PROVE Count(l, "valid") = PgsPerLine /\ l # victim /\ l # wp[1] /\ l # gc_wp[1]
    BY <2>2, <2>3, <1>0 DEF LinesFilled, LinesApart, Opens
  <2>4. ASSUME Count(l, "valid") = PgsPerLine, l # victim, l # wp[1], l # gc_wp[1] PROVE l \in fulls
    <3>1. \A i \in Places : status[<<l, i>>] = "valid"
      BY <2>2, <2>4
    <3>2. l \notin Freed
      BY <3>1, <1>0 DEF LinesFilled
    <3>3. l \notin victims
      <4>1. Cardinality(PagesIn(status, l, "invalid")) = 0
        BY <3>1, <1>0, PagesCount DEF States
      <4>2. ipc[l] = 0
        BY <4>1, <2>4, <1>3
      <4>3. QED
        BY <4>2, <1>0 DEF LinesFilled
    <3>4. QED
      BY <2>4, <3>2, <3>3, <1>0 DEF LinesApart, Opens
  <2>5. QED
    BY <2>3, <2>4
<1>7. \A l \in Lines : l \in victims => ipc[l] > 0 /\ Count(l, "free") = 0
  <2>1. TAKE l \in Lines
  <2>2. HAVE l \in victims
  <2>3. ipc[l] > 0 /\ \A i \in Places : status[<<l, i>>] # "free"
    BY <2>2, <1>0 DEF LinesFilled
  <2>4. Cardinality(PagesIn(status, l, "free")) = 0
    BY <2>3, <1>0, PagesCount DEF States
  <2>5. QED
    BY <2>3, <2>4, <1>2
<1>8. /\ \A i \in Places : (status[<<wp[1], i>>] = "free") <=> i >= wp[2]
      /\ \A i \in Places : (status[<<gc_wp[1], i>>] = "free") <=> i >= gc_wp[2]
  BY <1>0 DEF LinesFilled, Open
<1> HIDE DEF inFree, in
<1>9. QED
  BY <1>2, <1>3, <1>4, <1>5, <1>6, <1>7, <1>8 DEF LinesAccounted, inFree, in

LEMMA InvWriters ==
  ASSUME ConvInv
  PROVE  LineForWriter
<1>1. NoLine \notin Lines
  BY ConvAssumption
<1>2. QED
  BY <1>1, InLines DEF LineForWriter

LEMMA InvBuffer ==
  ASSUME ConvInv
  PROVE  BufferReturns
<1>1. Surplus + Promised >= 0
  BY DEF ConvInv, BufferKept
<1>2. ASSUME cpc = "idle", due = 0 PROVE remaining >= MaxNlb
  <2> DEFINE O == PgsPerOneshot
             S == SecsPerPg
             r == wp[2] % O
             d == O - 1
  <2>1. /\ O \in Nat \ {0} /\ S \in Nat \ {0} /\ MaxNlb \in Nat /\ WbSize \in Nat
        /\ MaxNlb + d * S <= WbSize
    BY ConvAssumption
  <2>2. r \in 0 .. d
    <3>1. wp[2] \in Int
      BY InLines
    <3>2. QED
      BY <2>1, <3>1, ModRange
  <2>3. Owed = (0 * O + r) * S
    BY <1>2 DEF Owed
  <2>4. remaining \in Nat /\ Promised = 0 /\ Surplus = remaining + Owed - WbSize
    <3>1. remaining \in 0 .. WbSize + MaxSurplus
      BY DEF ConvInv, ConvTypeOK
    <3>2. QED
      BY <3>1, <1>2, BufferParts DEF Promised, Surplus
  <2>5. d \in Int
    BY <2>1
  <2> HIDE DEF O, S, r, d
  <2>6. Owed = r * S
    BY <2>1, <2>2, <2>3, <2>5
  <2>7. r * S <= d * S /\ r * S \in Int /\ d * S \in Int
    BY <2>1, <2>2, <2>5
  <2> DEFINE x == r * S
             y == d * S
  <2>8. x <= y /\ x \in Int /\ y \in Int /\ Owed = x /\ MaxNlb + y <= WbSize
    BY <2>1, <2>6, <2>7
  <2> HIDE DEF x, y
  <2>9. Surplus \in Int
    BY <2>1, <2>4, <2>8
  <2>10. QED
    BY <1>1, <2>1, <2>4, <2>8, <2>9
<1>3. QED
  BY <1>1, <1>2 DEF BufferReturns, Promised

-----------------------------------------------------------------------------
(* The zoned FTL: its zones.                                               *)

ZoneStates == Opened \cup {"empty", "closed", "full"}

ZoneType ==
  /\ state \in [Zones -> ZoneStates]
  /\ wp_of \in [Zones -> 0 .. ZoneLbas]

ZoneInv == ZoneType /\ ZoneCounts

\* The sizes of a zone, in blocks and in pages.
LEMMA ZoneSizes ==
  /\ ZoneLbas \in Nat \ {0} /\ WordlineLbas \in Nat \ {0} /\ MaxWrite \in Nat \ {0}
  /\ ZnsSecsPerPg \in Nat \ {0} /\ ZoneCap \in Nat \ {0} /\ ZnsOneshot \in Nat \ {0}
  /\ ZoneLbas = ZnsSecsPerPg * ZoneCap /\ WordlineLbas = ZnsSecsPerPg * ZnsOneshot
<1>1. /\ ZnsSecsPerPg \in Nat \ {0} /\ ZoneCap \in Nat \ {0} /\ ZnsOneshot \in Nat \ {0}
      /\ MaxWrite \in Nat \ {0}
  BY ZnsAssumption
<1>2. ASSUME NEW x \in Nat \ {0}, NEW y \in Nat \ {0} PROVE x * y \in Nat \ {0} /\ x * y = y * x
  OBVIOUS
<1>3. QED
  BY <1>1, <1>2 DEF ZoneLbas, WordlineLbas

\* Taking some away, and adding others, counted.
LEMMA CountLess ==
  ASSUME NEW A, IsFiniteSet(A), NEW T \in SUBSET A
  PROVE  Cardinality(A \ T) = Cardinality(A) - Cardinality(T)
<1>1. A \cap T = T
  OBVIOUS
<1>2. QED
  BY <1>1, FS_Difference

LEMMA CountMore ==
  ASSUME NEW A, IsFiniteSet(A), NEW T, IsFiniteSet(T), A \cap T = {}
  PROVE  Cardinality(A \cup T) = Cardinality(A) + Cardinality(T)
<1>1. Cardinality(A \cap T) = 0
  BY FS_EmptySet
<1>2. Cardinality(A \cup T) = Cardinality(A) + Cardinality(T) - Cardinality(A \cap T)
  BY FS_Union
<1>3. QED
  BY <1>1, <1>2, FS_CardinalityType

\* Any set of zones is counted by a number.
LEMMA ZonesCount ==
  ASSUME NEW T \in SUBSET Zones
  PROVE  IsFiniteSet(T) /\ Cardinality(T) \in Nat
<1>1. IsFiniteSet(Zones)
  BY ZnsAssumption
<1>2. IsFiniteSet(T)
  BY <1>1, FS_Subset
<1>3. QED
  BY <1>2, FS_CardinalityType

LEMMA ZnsStart == ZnsInit => ZoneInv
<1>1. SUFFICES ASSUME ZnsInit PROVE ZoneInv
  OBVIOUS
<1>2. ZoneLbas \in Nat \ {0}
  BY ZoneSizes
<1>3. ZoneType
  BY <1>1, <1>2 DEF ZnsInit, ZoneType, ZoneStates
<1>4. {z \in Zones : state[z] \in Opened} = {} /\ {z \in Zones : state[z] \in Opened \cup {"closed"}} = {}
  BY <1>1 DEF ZnsInit, Opened
<1>5. OpenAmong(Zones) = 0 /\ ActiveAmong(Zones) = 0
  BY <1>4, FS_EmptySet DEF OpenAmong, ActiveAmong
<1>6. QED
  BY <1>1, <1>2, <1>3, <1>5 DEF ZnsInit, ZoneInv, ZoneCounts

\* A write opens and activates its zone, and closes it when it fills it.
LEMMA WriteCounts ==
  ASSUME ZoneInv, NEW z \in Zones, NEW n \in 1 .. MaxWrite, ZnsWrite(z, n)
  PROVE  ZoneInv'
<1> DEFINE A == {y \in Zones : state[y] \in Opened}
           B == {y \in Zones : state[y] \in Opened \cup {"closed"}}
<1> USE DEF ZoneInv, ZoneType, ZoneStates, Opened
<1>1. ZoneLbas \in Nat \ {0} /\ MaxWrite \in Nat
  BY ZoneSizes
<1>2. wp_of[z] + n \in 0 .. ZoneLbas /\ wp_of[z] + n > 0
  BY <1>1 DEF ZnsWrite, Writable
<1>3. ZoneType'
  BY <1>2 DEF ZnsWrite
<1>4. state[z] # "full"
  BY DEF ZnsWrite, Writable
<1>5. open_cnt = Cardinality(A) /\ active_cnt = Cardinality(B)
  BY DEF ZoneCounts, OpenAmong, ActiveAmong
<1>6. IsFiniteSet(A) /\ IsFiniteSet(B) /\ Cardinality(A) \in Nat /\ Cardinality(B) \in Nat
  <2>1. A \in SUBSET Zones /\ B \in SUBSET Zones
    OBVIOUS
  <2>2. QED
    BY <2>1, ZonesCount
<1>7. open_cnt' = Cardinality(A') /\ active_cnt' = Cardinality(B')
  <2>1. CASE wp_of[z] + n = ZoneLbas
    <3>1. A' = A \ {z} /\ B' = B \ {z}
      BY <2>1 DEF ZnsWrite
    <3>2. Cardinality(A') = IF z \in A THEN Cardinality(A) - 1 ELSE Cardinality(A)
      BY <3>1, <1>6, FS_RemoveElement
    <3>3. Cardinality(B') = IF z \in B THEN Cardinality(B) - 1 ELSE Cardinality(B)
      BY <3>1, <1>6, FS_RemoveElement
    <3>4. open_cnt' = open_cnt + (IF z \in A THEN 0 ELSE 1) - 1
      BY <2>1 DEF ZnsWrite
    <3>5. active_cnt' = active_cnt + (IF state[z] = "empty" THEN 1 ELSE 0) - 1
      BY <2>1 DEF ZnsWrite
    <3>6. state[z] = "empty" <=> z \notin B
      BY <1>4
    <3>7. QED
      BY <3>2, <3>3, <3>4, <3>5, <3>6, <1>5, <1>6
  <2>2. CASE wp_of[z] + n # ZoneLbas
    <3>1. A' = A \cup {z} /\ B' = B \cup {z}
      BY <2>2 DEF ZnsWrite
    <3>2. Cardinality(A') = IF z \in A THEN Cardinality(A) ELSE Cardinality(A) + 1
      BY <3>1, <1>6, FS_AddElement
    <3>3. Cardinality(B') = IF z \in B THEN Cardinality(B) ELSE Cardinality(B) + 1
      BY <3>1, <1>6, FS_AddElement
    <3>4. open_cnt' = open_cnt + (IF z \in A THEN 0 ELSE 1) - 0
      BY <2>2 DEF ZnsWrite
    <3>5. active_cnt' = active_cnt + (IF state[z] = "empty" THEN 1 ELSE 0) - 0
      BY <2>2 DEF ZnsWrite
    <3>6. state[z] = "empty" <=> z \notin B
      BY <1>4
    <3>7. QED
      BY <3>2, <3>3, <3>4, <3>5, <3>6, <1>5, <1>6
  <2>3. QED
    BY <2>1, <2>2
<1>8. \A y \in Zones : /\ wp_of'[y] = ZoneLbas => state'[y] = "full"
                       /\ state'[y] = "empty" => wp_of'[y] = 0
  BY <1>2, <1>4 DEF ZnsWrite, ZoneCounts
<1>9. QED
  BY <1>3, <1>7, <1>8 DEF ZoneCounts, OpenAmong, ActiveAmong

\* Closing, finishing, opening or resetting zones counts each once, for what it was.
LEMMA ManagementCounts ==
  ASSUME ZoneInv, NEW S \in SUBSET Zones,
         CloseZones(S) \/ FinishZones(S) \/ OpenZones(S) \/ ResetZones(S)
  PROVE  ZoneInv'
<1> DEFINE A == {y \in Zones : state[y] \in Opened}
           B == {y \in Zones : state[y] \in Opened \cup {"closed"}}
           AS == {y \in S : state[y] \in Opened}
           BS == {y \in S : state[y] \in Opened \cup {"closed"}}
           AN == {y \in S : state[y] \in {"empty", "closed"}}
           BN == {y \in AN : state[y] = "empty"}
<1> USE DEF ZoneInv, ZoneType, ZoneStates, Opened
<1>1. ZoneLbas \in Nat \ {0}
  BY ZoneSizes
<1>2. ZoneType'
  BY <1>1 DEF CloseZones, FinishZones, OpenZones, ResetZones
<1>3. open_cnt = Cardinality(A) /\ active_cnt = Cardinality(B)
  BY DEF ZoneCounts, OpenAmong, ActiveAmong
<1>4. AS \in SUBSET A /\ BS \in SUBSET B /\ A \cap AN = {} /\ B \cap BN = {}
  OBVIOUS
<1>5. \A T \in {A, B, AS, BS, AN, BN} : IsFiniteSet(T) /\ Cardinality(T) \in Nat
  <2>1. \A T \in {A, B, AS, BS, AN, BN} : T \in SUBSET Zones
    OBVIOUS
  <2>2. QED
    BY <2>1, ZonesCount
<1>6. open_cnt' = Cardinality(A') /\ active_cnt' = Cardinality(B')
  <2>1. CASE CloseZones(S)
    <3>1. A' = A \ AS /\ B' = B
      BY <2>1 DEF CloseZones
    <3>2. Cardinality(A') = Cardinality(A) - Cardinality(AS)
      BY <3>1, <1>4, <1>5, CountLess
    <3>3. QED
      BY <2>1, <3>1, <3>2, <1>3 DEF CloseZones, OpenAmong
  <2>2. CASE FinishZones(S) \/ ResetZones(S)
    <3>1. A' = A \ AS /\ B' = B \ BS
      BY <2>2 DEF FinishZones, ResetZones
    <3>2. Cardinality(A') = Cardinality(A) - Cardinality(AS)
      BY <3>1, <1>4, <1>5, CountLess
    <3>3. Cardinality(B') = Cardinality(B) - Cardinality(BS)
      BY <3>1, <1>4, <1>5, CountLess
    <3>4. QED
      BY <2>2, <3>2, <3>3, <1>3 DEF FinishZones, ResetZones, OpenAmong, ActiveAmong
  <2>3. CASE OpenZones(S)
    <3>1. A' = A \cup AN /\ B' = B \cup BN
      BY <2>3 DEF OpenZones
    <3>2. Cardinality(A') = Cardinality(A) + Cardinality(AN)
      BY <3>1, <1>4, <1>5, CountMore
    <3>3. Cardinality(B') = Cardinality(B) + Cardinality(BN)
      BY <3>1, <1>4, <1>5, CountMore
    <3>4. QED
      BY <2>3, <3>2, <3>3, <1>3 DEF OpenZones
  <2>4. QED
    BY <2>1, <2>2, <2>3
<1>7. \A y \in Zones : /\ wp_of'[y] = ZoneLbas => state'[y] = "full"
                       /\ state'[y] = "empty" => wp_of'[y] = 0
  BY <1>1 DEF CloseZones, FinishZones, OpenZones, ResetZones, ZoneCounts
<1>8. QED
  BY <1>2, <1>6, <1>7 DEF ZoneCounts, OpenAmong, ActiveAmong

LEMMA ZnsStep == ZoneInv /\ [ZnsNext]_znsVars => ZoneInv'
<1>1. SUFFICES ASSUME ZoneInv, [ZnsNext]_znsVars PROVE ZoneInv'
  OBVIOUS
<1>2. ASSUME UNCHANGED <<state, wp_of, open_cnt, active_cnt>> PROVE ZoneInv'
  BY <1>1, <1>2 DEF ZoneInv, ZoneType, ZoneCounts, OpenAmong, ActiveAmong
<1>3. ASSUME NEW z \in Zones, NEW n \in 1 .. MaxWrite, ZnsWrite(z, n) PROVE ZoneInv'
  BY <1>1, <1>3, WriteCounts
<1>4. ASSUME NEW z \in Zones, NEW from \in 0 .. ZoneLbas - 1, NEW n \in 1 .. MaxWrite,
             ZnsWriteError(z, from, n)
      PROVE  ZoneInv'
  BY <1>2, <1>4 DEF ZnsWriteError
<1>5. ASSUME NEW b \in Buffers, ReleaseWordline(b) \/ ReleaseTail(b) PROVE ZoneInv'
  BY <1>2, <1>5 DEF ReleaseWordline, ReleaseTail
<1>6. ASSUME NEW S \in Selections, CloseZones(S) \/ FinishZones(S) \/ OpenZones(S) \/ ResetZones(S)
      PROVE  ZoneInv'
  <2>1. S \in SUBSET Zones
    BY <1>6 DEF Selections
  <2>2. QED
    BY <1>1, <1>6, <2>1, ManagementCounts
<1>7. CASE UNCHANGED znsVars
  BY <1>2, <1>7 DEF znsVars
<1>8. QED
  BY <1>1, <1>3, <1>4, <1>5, <1>6, <1>7 DEF ZnsNext

\* The counts of open and active zones are those of the zones in these states, and a zone's
\* state agrees with its write pointer, whatever writes and management commands come, in any
\* order, from any host, to one zone or to all (zns_read_write.c, zns_mgmt_send.c).
THEOREM ZonesCounted == NsSpec => []ZoneCounts
<1>1. NsInit => ZoneInv
  BY ZnsStart DEF NsInit
<1>2. ZoneInv /\ [NsNext]_nsVars => ZoneInv'
  <2>1. [NsNext]_nsVars => [ZnsNext]_znsVars
    BY DEF NsNext, nsVars
  <2>2. QED
    BY <2>1, ZnsStep
<1>3. ZoneInv => ZoneCounts
  BY DEF ZoneInv
<1>4. QED
  BY <1>1, <1>2, <1>3, PTL DEF NsSpec
-----------------------------------------------------------------------------
(* The write buffers of the zoned FTL.  A block taken is in a wordline of  *)
(* its zone that has begun, in a release to come, or back: a write moves   *)
(* what it takes to the releases of the wordlines it ends and to the one   *)
(* it leaves begun, which the division of positions by the length of a     *)
(* wordline counts.  The code counts pages instead, hence a wordline once  *)
(* for every write that ends in its last page; where each write ends with  *)
(* a page the two are the same.                                            *)

\* The blocks written end as many wordlines as lie between the ends.
LEMMA WordlineEnds ==
  ASSUME NEW m \in Nat \ {0}, NEW w \in Nat, NEW n \in Nat
  PROVE  LET E == {p \in w .. w + n - 1 : p % m = m - 1}
         IN /\ Cardinality(E) \in Nat
            /\ (w % m) + n = Cardinality(E) * m + ((w + n) % m)
<1> DEFINE E == {p \in w .. w + n - 1 : p % m = m - 1}
<1>1. PICK a \in Nat, r \in 0 .. m - 1 : w = m * a + r /\ w \div m = a /\ w % m = r
  BY DivModSplit, Zenon
<1>2. PICK b \in Nat, s \in 0 .. m - 1 : w + n = m * b + s /\ (w + n) \div m = b /\ (w + n) % m = s
  <2>1. w + n \in Nat
    OBVIOUS
  <2>2. QED
    BY <2>1, DivModSplit, Zenon
<1> DEFINE K == a .. b - 1
           f == [p \in E |-> p \div m]
<1>3. \A x, y \in Int : x < y => m * x + m <= m * y
  <2>1. SUFFICES ASSUME NEW x \in Int, NEW y \in Int, x < y PROVE m * x + m <= m * y
    OBVIOUS
  <2>2. m * (y - x) >= m
    BY <2>1
  <2>3. QED
    BY <2>2
<1>4. ASSUME NEW p \in E PROVE p \div m \in K /\ p = m * (p \div m) + (m - 1)
  <2>1. p \in Nat /\ p >= w /\ p <= w + n - 1
    OBVIOUS
  <2>2. PICK q \in Nat, t \in 0 .. m - 1 : p = m * q + t /\ p \div m = q /\ p % m = t
    BY <2>1, DivModSplit, Zenon
  <2>3. t = m - 1
    BY <2>2
  <2>4. ~(q < a)
    <3>1. SUFFICES ASSUME q < a PROVE FALSE
      OBVIOUS
    <3>2. m * q + m <= m * a
      BY <3>1, <1>3
    <3>3. m * q \in Int /\ m * a \in Int
      OBVIOUS
    <3>4. QED
      BY <3>2, <3>3, <2>1, <2>2, <2>3, <1>1
  <2>5. ~(q >= b)
    <3>1. SUFFICES ASSUME q >= b PROVE FALSE
      OBVIOUS
    <3>2. m * q >= m * b
      <4>1. q = b \/ b < q
        BY <3>1
      <4>2. QED
        BY <4>1, <1>3
    <3>3. m * q \in Int /\ m * b \in Int
      OBVIOUS
    <3>4. QED
      BY <3>2, <3>3, <2>1, <2>2, <2>3, <1>2
  <2>6. QED
    BY <2>2, <2>3, <2>4, <2>5
<1>5. ASSUME NEW q \in K PROVE m * q + (m - 1) \in E /\ (m * q + (m - 1)) \div m = q
  <2>0. m - 1 \in 0 .. m - 1 /\ q \in Nat /\ a <= q /\ q < b
    OBVIOUS
  <2>1. (m * q + (m - 1)) \div m = q /\ (m * q + (m - 1)) % m = m - 1
    BY <2>0, DivIs, ModIs
  <2>2. m * q >= m * a
    <3>1. q = a \/ a < q
      BY <2>0
    <3>2. QED
      BY <3>1, <2>0, <1>3
  <2>3. m * q + m <= m * b
    BY <2>0, <1>3
  <2>4. m * q \in Int /\ m * a \in Int /\ m * b \in Int
    BY <2>0
  <2>5. m * q + (m - 1) \in w .. w + n - 1
    BY <2>2, <2>3, <2>4, <1>1, <1>2
  <2>6. QED
    BY <2>1, <2>5
<1>6. f \in Bijection(E, K)
  <2>1. f \in [E -> K]
    BY <1>4
  <2>2. ASSUME NEW p \in E, NEW q \in E, f[p] = f[q] PROVE p = q
    <3>1. p \div m = q \div m
      BY <2>2
    <3>2. p = m * (p \div m) + (m - 1) /\ q = m * (q \div m) + (m - 1)
      BY <1>4
    <3>3. QED
      BY <3>1, <3>2, Zenon
  <2>3. \A q \in K : \E p \in E : f[p] = q
    BY <1>5
  <2>4. QED
    BY <2>1, <2>2, <2>3 DEF Bijection, Injection, Surjection, IsInjective
<1>7. a <= b
  <2>1. SUFFICES ASSUME b < a PROVE FALSE
    OBVIOUS
  <2>2. m * b + m <= m * a /\ m * a \in Int /\ m * b \in Int
    BY <2>1, <1>3
  <2>3. QED
    BY <2>2, <1>1, <1>2
<1>8. IsFiniteSet(K) /\ Cardinality(K) = b - a
  <2>1. a \in Int /\ b - 1 \in Int
    OBVIOUS
  <2>2. IsFiniteSet(a .. b - 1) /\ Cardinality(a .. b - 1) = IF a > b - 1 THEN 0 ELSE b - 1 - a + 1
    BY <2>1, FS_Interval
  <2> DEFINE c == Cardinality(K)
  <2>3. c = IF a > b - 1 THEN 0 ELSE b - 1 - a + 1
    BY <2>2
  <2> HIDE DEF c
  <2>4. c = b - a
    BY <2>3, <1>7
  <2>5. QED
    BY <2>2, <2>4 DEF c
<1>9. Cardinality(E) = b - a
  <2> HIDE DEF E, K, f
  <2>1. ExistsBijection(K, E)
    <3>1. ExistsBijection(E, K)
      BY <1>6 DEF ExistsBijection
    <3>2. QED
      BY <3>1, Fun_ExistsBijSymmetric
  <2>2. IsFiniteSet(E) /\ Cardinality(E) = Cardinality(K)
    BY <2>1, <1>8, FS_Bijection
  <2>3. QED
    BY <2>2, <1>8
<1>10. r + n = (b - a) * m + s
  <2>1. (b - a) * m = m * b - m * a /\ m * a \in Int /\ m * b \in Int
    OBVIOUS
  <2>2. m * b + s = m * a + r + n
    BY <1>1, <1>2
  <2>3. QED
    BY <2>1, <2>2
<1> HIDE DEF E
<1>11. b - a \in Nat
  BY <1>7
<1>12. QED
  BY <1>1, <1>2, <1>9, <1>10, <1>11 DEF E

\* What a zone whose write pointer is w holds of a wordline begun.
Rest(w) == IF w = ZoneLbas THEN 0 ELSE w % WordlineLbas

LEMMA ZnsConstants ==
  /\ ZoneLbas \in Nat \ {0} /\ WordlineLbas \in Nat \ {0} /\ MaxWrite \in Nat \ {0}
  /\ TailSize \in 0 .. WordlineLbas - 1
  /\ \A w \in 0 .. ZoneLbas : Rest(w) \in 0 .. WordlineLbas - 1
<1>1. ZoneLbas \in Nat \ {0} /\ WordlineLbas \in Nat \ {0} /\ MaxWrite \in Nat \ {0}
  BY ZoneSizes
<1>2. TailSize \in 0 .. WordlineLbas - 1
  BY <1>1, ModRange DEF TailSize
<1>3. ASSUME NEW w \in 0 .. ZoneLbas PROVE Rest(w) \in 0 .. WordlineLbas - 1
  <2>1. w \in Int /\ 0 \in 0 .. WordlineLbas - 1
    BY <1>1
  <2>2. w % WordlineLbas \in 0 .. WordlineLbas - 1
    BY <1>1, <2>1, ModRange
  <2>3. QED
    BY <2>1, <2>2 DEF Rest
<1>4. QED
  BY <1>1, <1>2, <1>3

\* The wordlines that end among the blocks w .. w + n - 1, and the zone, if it does.
Ends(w, n) == {x \in w .. w + n - 1 : x % WordlineLbas = WordlineLbas - 1}
ZoneEnds(w, n) == IF w + n = ZoneLbas /\ TailSize > 0 THEN 1 ELSE 0

\* A write takes what the wordlines it ends hold and what it leaves begun, less what was
\* begun before.
LEMMA BlocksUse ==
  ASSUME NEW w \in 0 .. ZoneLbas, w # ZoneLbas, NEW n \in Nat, w + n <= ZoneLbas
  PROVE  /\ Cardinality(Ends(w, n)) \in Nat
         /\ Rest(w) + n = Cardinality(Ends(w, n)) * WordlineLbas + ZoneEnds(w, n) * TailSize + Rest(w + n)
<1> DEFINE L == WordlineLbas
           c == Cardinality(Ends(w, n))
<1>1. L \in Nat \ {0} /\ ZoneLbas \in Nat \ {0} /\ TailSize \in 0 .. L - 1 /\ w \in Nat
  BY ZnsConstants
<1>2. c \in Nat /\ (w % L) + n = c * L + ((w + n) % L)
  BY <1>1, WordlineEnds DEF Ends
<1>3. Rest(w) = w % L /\ Rest(w) \in Nat /\ n \in Nat
  BY <1>1, ZnsConstants DEF Rest
<1>4. Rest(w) + n = c * L + ((w + n) % L)
  BY <1>2, <1>3, Zenon
<1> HIDE DEF c
<1> DEFINE cL == c * L
<1>5. cL \in Nat
  BY <1>2, <1>1
<1>6. CASE w + n = ZoneLbas
  <2>1. (w + n) % L = TailSize /\ Rest(w + n) = 0
    BY <1>6 DEF TailSize, Rest
  <2>2. ZoneEnds(w, n) = IF TailSize > 0 THEN 1 ELSE 0
    BY <1>6 DEF ZoneEnds
  <2>3. ZoneEnds(w, n) * TailSize = TailSize
    BY <2>2, <1>1
  <2>4. Rest(w) + n = cL + ZoneEnds(w, n) * TailSize + Rest(w + n)
    <3> HIDE DEF cL
    <3>0. Rest(w) + n = cL + TailSize
      BY <1>4, <2>1, Zenon DEF cL
    <3>1. QED
      BY <3>0, <2>1, <2>3, <1>5, <1>1
  <2>5. QED
    BY <2>4, <1>2, Zenon DEF c
<1>7. CASE w + n # ZoneLbas
  <2>1. (w + n) % L = Rest(w + n)
    BY <1>7 DEF Rest
  <2>2. ZoneEnds(w, n) * TailSize = 0
    BY <1>1, <1>7 DEF ZoneEnds
  <2>3. Rest(w) + n = cL + ZoneEnds(w, n) * TailSize + Rest(w + n)
    <3>0. Rest(w + n) \in Nat
      <4>1. w + n \in 0 .. ZoneLbas
        BY <1>1
      <4>2. QED
        BY <4>1, ZnsConstants
    <3> HIDE DEF cL
    <3>1. Rest(w) + n = cL + Rest(w + n)
      BY <1>4, <2>1, Zenon DEF cL
    <3>2. QED
      BY <3>0, <3>1, <2>2, <1>5, <1>1
  <2>4. QED
    BY <2>3, <1>2, Zenon DEF c
<1>8. QED
  BY <1>6, <1>7

\* The last block of a wordline is the last of the wordline's last page, and a page that is
\* the last of a wordline has the wordline's last block.
LEMMA LastBlock ==
  ASSUME NEW S \in Nat \ {0}, NEW O \in Nat \ {0}, NEW y \in Nat
  PROVE  /\ y % (S * O) = S * O - 1 => (y \div S) % O = O - 1 /\ y = S * (y \div S) + (S - 1)
         /\ y % O = O - 1 => /\ S * y + (S - 1) \in Nat /\ (S * y + (S - 1)) \div S = y
                             /\ (S * y + (S - 1)) % (S * O) = S * O - 1
<1> DEFINE L == S * O
<1>0. L \in Nat \ {0} /\ S - 1 \in 0 .. S - 1 /\ O - 1 \in 0 .. O - 1 /\ L - 1 \in 0 .. L - 1
  <2>1. S * O \in Nat \ {0}
    OBVIOUS
  <2>2. QED
    BY <2>1
<1>1. \A a \in Nat : L * a + (L - 1) = S * (O * a + (O - 1)) + (S - 1) /\ O * a + (O - 1) \in Nat
  <2>1. SUFFICES ASSUME NEW a \in Nat
        PROVE L * a + (L - 1) = S * (O * a + (O - 1)) + (S - 1) /\ O * a + (O - 1) \in Nat
    OBVIOUS
  <2> DEFINE u == O * a
  <2>2. u \in Nat
    OBVIOUS
  <2>3. L * a = S * u
    OBVIOUS
  <2> HIDE DEF u
  <2>4. S * (u + (O - 1)) = S * u + S * (O - 1) /\ S * (O - 1) = S * O - S
    BY <2>2
  <2>5. S * u \in Nat /\ S * O \in Nat
    BY <2>2
  <2>6. L * a + (L - 1) = S * (u + (O - 1)) + (S - 1)
    BY <2>3, <2>4, <2>5, <1>0
  <2>7. u + (O - 1) \in Nat
    BY <2>2
  <2>8. QED
    BY <2>6, <2>7 DEF u
<1>2. ASSUME NEW x \in Nat, x % L = L - 1
      PROVE  (x \div S) % O = O - 1 /\ x = S * (x \div S) + (S - 1)
  <2>1. PICK a \in Nat, r \in 0 .. L - 1 : x = L * a + r /\ x % L = r
    BY <1>0, DivModSplit, Zenon
  <2>2. x = L * a + (L - 1)
    BY <2>1, <1>2
  <2> DEFINE p == O * a + (O - 1)
  <2>3. x = S * p + (S - 1) /\ p \in Nat
    BY <2>2, <1>1
  <2>4. p % O = O - 1
    BY <1>0, ModIs
  <2> HIDE DEF p
  <2>5. x \div S = p
    BY <2>3, <1>0, DivIs
  <2>6. QED
    BY <2>3, <2>4, <2>5, Zenon
<1>3. ASSUME NEW p \in Nat, p % O = O - 1
      PROVE  /\ S * p + (S - 1) \in Nat /\ (S * p + (S - 1)) \div S = p
             /\ (S * p + (S - 1)) % L = L - 1
  <2>1. PICK a \in Nat, r \in 0 .. O - 1 : p = O * a + r /\ p % O = r
    BY DivModSplit, Zenon
  <2>2. p = O * a + (O - 1)
    BY <2>1, <1>3
  <2>3. S * p + (S - 1) = L * a + (L - 1)
    BY <2>2, <1>1
  <2>4. (L * a + (L - 1)) % L = L - 1
    BY <1>0, ModIs
  <2>5. (S * p + (S - 1)) \div S = p
    BY <1>0, DivIs
  <2>6. S * p \in Nat
    OBVIOUS
  <2>7. QED
    BY <2>3, <2>4, <2>5, <2>6, <1>0
<1>4. QED
  BY <1>2, <1>3

\* The last block of a page that ends a wordline.
LEMMA LastPage ==
  ASSUME NEW S \in Nat \ {0}, NEW O \in Nat \ {0}, NEW p \in Nat, p % O = O - 1
  PROVE  /\ S * p + (S - 1) \in Nat /\ (S * p + (S - 1)) \div S = p
         /\ (S * p + (S - 1)) % (S * O) = S * O - 1
BY LastBlock, Zenon

\* Pages follow each other as their blocks do.
LEMMA PagesOrder ==
  ASSUME NEW S \in Nat \ {0}, NEW x \in Nat, NEW y \in Nat
  PROVE  /\ x \div S \in Nat
         /\ x <= y => x \div S <= y \div S
         /\ x \div S < y \div S => S * (x \div S) + (S - 1) < y
         /\ x >= S * (x \div S)
<1>1. PICK a \in Nat, r \in 0 .. S - 1 : x = S * a + r /\ x \div S = a
  BY DivModSplit, Zenon
<1>2. PICK b \in Nat, t \in 0 .. S - 1 : y = S * b + t /\ y \div S = b
  BY DivModSplit, Zenon
<1>3. \A i, j \in Nat : i < j => S * i + S <= S * j
  <2>1. SUFFICES ASSUME NEW i \in Nat, NEW j \in Nat, i < j PROVE S * i + S <= S * j
    OBVIOUS
  <2>2. S * (j - i) >= S
    BY <2>1
  <2>3. QED
    BY <2>2
<1> DEFINE A == S * a
           B == S * b
<1>4. A \in Nat /\ B \in Nat /\ x = A + r /\ y = B + t
  BY <1>1, <1>2
<1>5. (a < b => A + S <= B) /\ (b < a => B + S <= A)
  BY <1>3
<1> HIDE DEF A, B
<1>6. x <= y => a <= b
  BY <1>4, <1>5
<1>7. a < b => A + (S - 1) < y
  BY <1>4, <1>5
<1>8. x >= A
  BY <1>4
<1>9. QED
  BY <1>1, <1>2, <1>6, <1>7, <1>8 DEF A

\* The wordlines a write is taken to finish are those it ends, and more only if it ends
\* within a page.
LEMMA PagesEnd ==
  ASSUME NEW w \in 0 .. ZoneLbas, w # ZoneLbas, NEW n \in Nat \ {0}, w + n <= ZoneLbas
  PROVE  /\ Whole(w, n) \in Nat /\ EndsShort(w, n) \in Nat
         /\ Whole(w, n) >= Cardinality(Ends(w, n)) /\ EndsShort(w, n) >= ZoneEnds(w, n)
         /\ (w + n) % ZnsSecsPerPg = 0 =>
              Whole(w, n) = Cardinality(Ends(w, n)) /\ EndsShort(w, n) = ZoneEnds(w, n)
<1> DEFINE S == ZnsSecsPerPg
           O == ZnsOneshot
           L == WordlineLbas
           P == PagesAt(w, n)
           F == {p \in P : p % O = O - 1}
           E == Ends(w, n)
           f == [x \in E |-> x \div S]
           z == w + n - 1
<1>1. /\ S \in Nat \ {0} /\ O \in Nat \ {0} /\ ZoneCap \in Nat \ {0} /\ ZoneLbas \in Nat \ {0}
      /\ L \in Nat \ {0} /\ L = S * O /\ ZoneLbas = S * ZoneCap
      /\ w \in Nat /\ z \in Nat /\ w <= z
  BY ZoneSizes
<1>2. P = w \div S .. z \div S
  BY DEF PagesAt, LbaToLpn
<1>3. w \div S \in Nat /\ z \div S \in Nat
  BY <1>1, PagesOrder
<1>4. IsFiniteSet(F)
  <2>1. IsFiniteSet(w \div S .. z \div S)
    BY <1>3, FS_Interval
  <2>2. F \in SUBSET P
    OBVIOUS
  <2>3. QED
    BY <1>2, <2>1, <2>2, FS_Subset
<1>5. Whole(w, n) = Cardinality(F)
  BY DEF Whole
<1>6. ASSUME NEW x \in E PROVE x \in Nat /\ x >= w /\ x <= z /\ x % L = L - 1
  BY <1>1 DEF Ends
<1>split. \A x \in Nat :
           \E a \in Nat, r \in 0 .. S - 1 : x = S * a + r /\ x \div S = a /\ x % S = r
  <2>1. S \in Nat \ {0}
    BY <1>1
  <2> HIDE DEF S
  <2>2. QED
    BY <2>1, DivModSplit, Zenon
<1> HIDE DEF L, S, O, P, E, z
<1>7. f \in Injection(E, F)
  <2>1. ASSUME NEW x \in E PROVE x \div S \in F /\ x = S * (x \div S) + (S - 1)
    <3>1. (x \div S) % O = O - 1 /\ x = S * (x \div S) + (S - 1)
      <4>1. x \in Nat /\ x % L = L - 1 /\ S \in Nat \ {0} /\ O \in Nat \ {0} /\ L \in Nat \ {0} /\ L = S * O
        BY <1>1, <1>6
      <4>2. x % (S * O) = S * O - 1
        BY <4>1, Zenon
      <4>3. QED
        BY <4>1, <4>2, LastBlock, Zenon
    <3>2. x \div S \in Nat /\ w \div S <= x \div S /\ x \div S <= z \div S
      BY <1>1, <1>6, PagesOrder
    <3>3. x \div S \in P
      BY <1>2, <1>3, <3>2
    <3>4. QED
      BY <3>1, <3>3
  <2>2. ASSUME NEW x \in E, NEW y \in E, f[x] = f[y] PROVE x = y
    <3>1. x = S * (x \div S) + (S - 1) /\ y = S * (y \div S) + (S - 1)
      BY <2>1
    <3>2. QED
      BY <2>2, <3>1, Zenon
  <2>3. f \in [E -> F]
    BY <2>1
  <2>4. QED
    BY <2>2, <2>3 DEF Injection, IsInjective
<1>8. Cardinality(E) <= Cardinality(F) /\ (Cardinality(E) = Cardinality(F) <=> f \in Surjection(E, F))
  <2> HIDE DEF f, F
  <2>1. QED
    BY <1>4, <1>7, FS_Injection
<1>9. ASSUME (w + n) % S = 0, NEW p \in F PROVE \E x \in E : f[x] = p
  <2>1. p \in Nat /\ p % O = O - 1 /\ w \div S <= p /\ p <= z \div S
    BY <1>2, <1>3
  <2> DEFINE x == S * p + (S - 1)
  <2>2. x \in Nat /\ x \div S = p /\ x % L = L - 1
    <3>1. p \in Nat /\ p % O = O - 1 /\ S \in Nat \ {0} /\ O \in Nat \ {0} /\ L = S * O
      BY <1>1, <2>1
    <3>2. S * p + (S - 1) \in Nat /\ (S * p + (S - 1)) \div S = p
          /\ (S * p + (S - 1)) % (S * O) = S * O - 1
      BY <3>1, LastPage, Zenon
    <3>3. QED
      BY <3>1, <3>2, Zenon
  <2>3. x >= w
    <3>1. SUFFICES ASSUME x < w PROVE FALSE
      BY <1>1, <2>2
    <3>2. w >= S * (w \div S) /\ w < S * (w \div S) + S
      <4>1. PICK a \in Nat, r \in 0 .. S - 1 : w = S * a + r /\ w \div S = a
        BY <1>split, <1>1, Zenon
      <4>2. S * a \in Nat
        BY <1>1
      <4>3. QED
        BY <1>1, <4>1, <4>2
    <3>3. x \div S <= w \div S
      BY <1>1, <2>2, <3>1, PagesOrder
    <3>4. p = w \div S
      BY <1>3, <2>1, <2>2, <3>3
    <3>5. S * p \in Nat /\ w < S * p + S
      BY <1>1, <2>1, <3>2, <3>4
    <3>6. QED
      BY <1>1, <2>1, <3>1, <3>5
  <2>4. x <= z
    <3>1. w + n \in Nat /\ z = w + n - 1
      BY <1>1 DEF z
    <3>2. PICK b \in Nat, t \in 0 .. S - 1 : w + n = S * b + t /\ (w + n) % S = t
      BY <1>split, <3>1, Zenon
    <3>3. w + n = S * b
      BY <1>1, <1>9, <3>2
    <3>4. z >= S * (z \div S)
      BY <1>1, PagesOrder
    <3>5. p < b
      <4>1. SUFFICES ASSUME b <= p PROVE FALSE
        BY <2>1
      <4>2. S * b <= S * p /\ S * p <= S * (z \div S)
        <5>1. \A i, j \in Nat : i <= j => S * i <= S * j
          BY <1>1
        <5>2. QED
          BY <5>1, <4>1, <2>1, <1>3
      <4>3. S * b \in Nat /\ S * p \in Nat /\ S * (z \div S) \in Nat
        BY <1>1, <1>3, <2>1
      <4>4. QED
        BY <1>1, <3>1, <3>3, <3>4, <4>2, <4>3
    <3>6. S * p + S <= S * b
      <4>1. S * (p + 1) <= S * b /\ S * (p + 1) = S * p + S
        <5>1. \A i, j \in Nat : i <= j => S * i <= S * j
          BY <1>1
        <5>2. QED
          BY <5>1, <3>5, <2>1, <1>1
      <4>2. QED
        BY <4>1, Zenon
    <3>7. S * p \in Nat /\ S * b \in Nat
      BY <1>1, <2>1
    <3>8. QED
      BY <1>1, <3>1, <3>3, <3>6, <3>7
  <2>5. x \in E
    <3> HIDE DEF x
    <3>1. x \in w .. w + n - 1
      BY <1>1, <2>2, <2>3, <2>4 DEF z
    <3>2. QED
      BY <2>2, <3>1 DEF E, Ends, L
  <2>6. QED
    BY <2>2, <2>5
<1>10. (w + n) % S = 0 => Cardinality(E) = Cardinality(F)
  <2>1. (w + n) % S = 0 => f \in Surjection(E, F)
    BY <1>7, <1>9 DEF Surjection, Injection
  <2>2. QED
    BY <1>8, <2>1
<1>11. ZoneCap - 1 \in P <=> z \div S = ZoneCap - 1
  <2>1. z \div S <= ZoneCap - 1
    <3>1. SUFFICES ASSUME ZoneCap <= z \div S PROVE FALSE
      BY <1>1, <1>3
    <3>2. S * ZoneCap <= S * (z \div S)
      <4>1. \A i, j \in Nat : i <= j => S * i <= S * j
        BY <1>1
      <4>2. QED
        BY <4>1, <3>1, <1>1, <1>3
    <3>3. z >= S * (z \div S) /\ S * ZoneCap \in Nat /\ S * (z \div S) \in Nat
      BY <1>1, <1>3, PagesOrder
    <3>4. z < ZoneLbas
      BY <1>1 DEF z
    <3>5. QED
      BY <1>1, <3>2, <3>3, <3>4
  <2>2. w \div S <= z \div S
    BY <1>1, PagesOrder
  <2>3. QED
    BY <1>1, <1>2, <1>3, <2>1, <2>2
<1>12. w + n = ZoneLbas => z \div S = ZoneCap - 1
  <2>1. SUFFICES ASSUME w + n = ZoneLbas PROVE z \div S = ZoneCap - 1
    OBVIOUS
  <2>2. z = S * (ZoneCap - 1) + (S - 1)
    <3>1. S * (ZoneCap - 1) = S * ZoneCap - S /\ S * ZoneCap \in Nat
      BY <1>1
    <3>2. z = S * ZoneCap - 1
      BY <1>1, <2>1 DEF z
    <3>3. QED
      BY <1>1, <3>1, <3>2
  <2>3. ZoneCap - 1 \in Int /\ S - 1 \in 0 .. S - 1
    BY <1>1
  <2>4. QED
    BY <1>1, <2>2, <2>3, DivIs
<1>13. (w + n) % S = 0 /\ z \div S = ZoneCap - 1 => w + n = ZoneLbas
  <2>1. SUFFICES ASSUME (w + n) % S = 0, z \div S = ZoneCap - 1 PROVE w + n = ZoneLbas
    OBVIOUS
  <2>2. w + n \in Nat /\ z = w + n - 1 /\ w + n <= ZoneLbas
    BY <1>1 DEF z
  <2>3. PICK b \in Nat, t \in 0 .. S - 1 : w + n = S * b + t /\ (w + n) % S = t
    BY <1>split, <2>2, Zenon
  <2>4. w + n = S * b
    BY <1>1, <2>1, <2>3
  <2>5. z >= S * (ZoneCap - 1)
    BY <1>1, <2>1, PagesOrder
  <2>6. b >= ZoneCap
    <3>1. SUFFICES ASSUME b <= ZoneCap - 1 PROVE FALSE
      BY <1>1
    <3>2. S * b <= S * (ZoneCap - 1)
      <4>1. \A i, j \in Nat : i <= j => S * i <= S * j
        BY <1>1
      <4>2. ZoneCap - 1 \in Nat
        BY <1>1
      <4>3. QED
        BY <4>1, <4>2, <3>1
    <3>3. S * b \in Nat /\ S * (ZoneCap - 1) \in Nat
      BY <1>1
    <3>4. QED
      BY <2>2, <2>4, <2>5, <3>2, <3>3
  <2>7. S * ZoneCap <= S * b
    <3>1. \A i, j \in Nat : i <= j => S * i <= S * j
      BY <1>1
    <3>2. QED
      BY <3>1, <2>6, <1>1
  <2>8. S * b \in Nat /\ S * ZoneCap \in Nat
    BY <1>1
  <2>9. QED
    BY <1>1, <2>2, <2>4, <2>7, <2>8
<1>14. /\ EndsShort(w, n) \in Nat /\ EndsShort(w, n) >= ZoneEnds(w, n)
       /\ (w + n) % S = 0 => EndsShort(w, n) = ZoneEnds(w, n)
  <2>1. EndsShort(w, n) = IF z \div S = ZoneCap - 1 /\ TailSize > 0 THEN 1 ELSE 0
    BY <1>11 DEF EndsShort, P
  <2>2. QED
    BY <2>1, <1>12, <1>13 DEF ZoneEnds
<1>15. Cardinality(F) \in Nat
  BY <1>4, FS_CardinalityType
<1>16. Whole(w, n) = Cardinality(F) /\ Cardinality(Ends(w, n)) = Cardinality(E)
  BY <1>5 DEF E
<1> HIDE DEF F
<1>17. QED
  BY <1>8, <1>10, <1>14, <1>15, <1>16 DEF S

\* So a write gives back what it takes and what was begun, less what it leaves begun, and
\* more only if it ends within a page.
LEMMA WriteUse ==
  ASSUME NEW w \in 0 .. ZoneLbas, w # ZoneLbas, NEW n \in Nat \ {0}, w + n <= ZoneLbas
  PROVE  /\ Whole(w, n) \in Nat /\ EndsShort(w, n) \in Nat
         /\ Rest(w) + n <= Whole(w, n) * WordlineLbas + EndsShort(w, n) * TailSize + Rest(w + n)
         /\ (w + n) % ZnsSecsPerPg = 0 =>
              Rest(w) + n = Whole(w, n) * WordlineLbas + EndsShort(w, n) * TailSize + Rest(w + n)
<1> DEFINE L == WordlineLbas
           T == TailSize
           c == Cardinality(Ends(w, n))
           e == ZoneEnds(w, n)
           W == Whole(w, n)
           S == EndsShort(w, n)
<1>1. L \in Nat /\ T \in Nat /\ e \in Nat
  BY ZnsConstants DEF ZoneEnds
<1>2. c \in Nat /\ Rest(w) + n = c * L + e * T + Rest(w + n)
  BY BlocksUse
<1>3. /\ W \in Nat /\ S \in Nat /\ W >= c /\ S >= e
      /\ (w + n) % ZnsSecsPerPg = 0 => W = c /\ S = e
  BY PagesEnd
<1>4. Rest(w) \in Nat /\ Rest(w + n) \in Nat
  <2>1. w + n \in 0 .. ZoneLbas
    BY ZnsConstants
  <2>2. QED
    BY <2>1, ZnsConstants
<1> HIDE DEF L, T, c, e, W, S
<1>5. c * L <= W * L /\ e * T <= S * T
  <2>1. \A i, j, m \in Nat : i <= j => i * m <= j * m
    <3>1. SUFFICES ASSUME NEW i \in Nat, NEW j \in Nat, NEW m \in Nat, i <= j PROVE i * m <= j * m
      OBVIOUS
    <3>2. (j - i) * m >= 0 /\ (j - i) * m = j * m - i * m
      BY <3>1
    <3>3. i * m \in Nat /\ j * m \in Nat
      OBVIOUS
    <3>4. QED
      BY <3>2, <3>3
  <2>2. QED
    BY <2>1, <1>1, <1>2, <1>3
<1>6. c * L \in Nat /\ W * L \in Nat /\ e * T \in Nat /\ S * T \in Nat
  BY <1>1, <1>2, <1>3
<1>7. Rest(w) + n <= W * L + S * T + Rest(w + n)
  BY <1>2, <1>4, <1>5, <1>6
<1>8. (w + n) % ZnsSecsPerPg = 0 => Rest(w) + n = W * L + S * T + Rest(w + n)
  BY <1>2, <1>3
<1>9. QED
  BY <1>3, <1>7, <1>8 DEF L, T, W, S

\* The blocks of a zone in a wordline begun, when its write pointer is w.
BegunPages(w) ==
  {i \in 0 .. ZoneLbas - 1 : w # ZoneLbas /\ i < w /\ i \div WordlineLbas = w \div WordlineLbas}

LEMMA BegunPagesCount ==
  ASSUME NEW w \in 0 .. ZoneLbas
  PROVE  IsFiniteSet(BegunPages(w)) /\ Cardinality(BegunPages(w)) = Rest(w)
<1> DEFINE O == WordlineLbas
<1>1. O \in Nat \ {0} /\ ZoneLbas \in Nat \ {0} /\ w \in Nat
  BY ZnsConstants
<1>2. CASE w = ZoneLbas
  <2>1. BegunPages(w) = {}
    BY <1>2 DEF BegunPages
  <2>2. QED
    BY <2>1, <1>2, FS_EmptySet DEF Rest
<1>3. CASE w # ZoneLbas
  <2>1. PICK q \in Nat, r \in 0 .. O - 1 : w = O * q + r /\ w \div O = q /\ w % O = r
    BY <1>1, DivModSplit, Zenon
  <2> DEFINE a == O * q
  <2>2. a \in Nat
    BY <2>1, <1>1
  <2>3. w = a + r
    BY <2>1
  <2>4. ASSUME NEW i \in 0 .. ZoneLbas - 1, i < w, i \div O = q PROVE i \in a .. w - 1
    <3>1. i \in Nat
      BY <2>4
    <3>2. PICK t \in Nat, u \in 0 .. O - 1 : i = O * t + u /\ i \div O = t /\ i % O = u
      BY <1>1, <3>1, DivModSplit, Zenon
    <3>3. i = a + u
      BY <3>2, <2>4
    <3> HIDE DEF a
    <3>4. QED
      BY <3>1, <3>2, <3>3, <2>2, <2>4, <1>1
  <2>5. ASSUME NEW i \in a .. w - 1 PROVE i \in 0 .. ZoneLbas - 1 /\ i < w /\ i \div O = q
    <3> DEFINE u == i - a
    <3>1. u \in 0 .. O - 1 /\ i = a + u
      <4> HIDE DEF a
      <4>1. QED
        BY <2>1, <2>2, <2>3, <2>5, <1>1
    <3>2. (O * q + u) \div O = q
      <4> HIDE DEF u
      <4>1. QED
        BY <3>1, <1>1, <2>1, DivIs
    <3>3. i \in 0 .. ZoneLbas - 1 /\ i < w
      <4> HIDE DEF a
      <4>1. QED
        BY <2>2, <2>5, <1>1
    <3>4. i \div O = q
      <4> HIDE DEF u
      <4>1. QED
        BY <3>1, <3>2, Zenon
    <3>5. QED
      BY <3>3, <3>4
  <2> HIDE DEF a
  <2>6. BegunPages(w) = a .. w - 1
    <3>1. BegunPages(w) = {i \in 0 .. ZoneLbas - 1 : i < w /\ i \div O = q}
      BY <1>3, <2>1 DEF BegunPages
    <3>2. ASSUME NEW i \in {j \in 0 .. ZoneLbas - 1 : j < w /\ j \div O = q} PROVE i \in a .. w - 1
      BY <2>4
    <3>3. ASSUME NEW i \in a .. w - 1 PROVE i \in {j \in 0 .. ZoneLbas - 1 : j < w /\ j \div O = q}
      BY <2>5
    <3>4. QED
      BY <3>1, <3>2, <3>3, Zenon
  <2>7. a \in Int /\ w - 1 \in Int
    BY <2>2, <1>1
  <2>8. IsFiniteSet(a .. w - 1) /\ Cardinality(a .. w - 1) = IF a > w - 1 THEN 0 ELSE w - 1 - a + 1
    BY <2>7, FS_Interval
  <2> DEFINE c == Cardinality(a .. w - 1)
  <2>9. c = IF a > w - 1 THEN 0 ELSE w - 1 - a + 1
    BY <2>8
  <2> HIDE DEF c
  <2>10. c = r
    BY <2>9, <2>1, <2>2, <2>3
  <2>11. Rest(w) = r
    BY <1>3, <2>1 DEF Rest
  <2>12. QED
    BY <2>6, <2>8, <2>10, <2>11, Zenon DEF c
<1>4. QED
  BY <1>2, <1>3

HomeOf(own, z) == IF own THEN z ELSE Shared

\* Begun(b), of write pointers given.
BegunAt(own, wps, b) ==
  {p \in Zones \X (0 .. ZoneLbas - 1) : HomeOf(own, p[1]) = b /\ p[2] \in BegunPages(wps[p[1]])}

LEMMA BegunIs == \A b : Begun(b) = BegunAt(zconf.own, wp_of, b)
BY DEF Begun, BegunAt, HomeOf, BufferOf, BegunPages

LEMMA BegunFinite ==
  ASSUME NEW own \in BOOLEAN, NEW wps \in [Zones -> 0 .. ZoneLbas], NEW b
  PROVE  IsFiniteSet(BegunAt(own, wps, b)) /\ Cardinality(BegunAt(own, wps, b)) \in Nat
<1>1. 0 \in Int /\ ZoneLbas - 1 \in Int /\ IsFiniteSet(Zones)
  BY ZnsConstants, ZnsAssumption
<1>2. IsFiniteSet(0 .. ZoneLbas - 1)
  BY <1>1, FS_Interval
<1>3. IsFiniteSet(Zones \X (0 .. ZoneLbas - 1))
  BY <1>1, <1>2, FS_Product
<1>4. BegunAt(own, wps, b) \in SUBSET (Zones \X (0 .. ZoneLbas - 1))
  BY DEF BegunAt
<1>5. QED
  BY <1>3, <1>4, FS_Subset, FS_CardinalityType

\* When the write pointer of one zone moves, its buffer holds what that zone leaves begun
\* instead of what it had begun, and every other buffer holds what it held.
LEMMA BegunMoves ==
  ASSUME NEW own \in BOOLEAN, NEW wps \in [Zones -> 0 .. ZoneLbas], NEW z \in Zones,
         NEW new \in [Zones -> 0 .. ZoneLbas], \A y \in Zones : y # z => new[y] = wps[y],
         NEW b
  PROVE  IF b = HomeOf(own, z)
           THEN Cardinality(BegunAt(own, new, b)) + Rest(wps[z])
                  = Cardinality(BegunAt(own, wps, b)) + Rest(new[z])
           ELSE BegunAt(own, new, b) = BegunAt(own, wps, b)
<1>1. CASE b # HomeOf(own, z)
  <2>1. BegunAt(own, new, b) = BegunAt(own, wps, b)
    BY <1>1 DEF BegunAt
  <2>2. QED
    BY <2>1, <1>1, Zenon
<1>2. CASE b = HomeOf(own, z)
  <2> DEFINE R == {p \in BegunAt(own, wps, b) : p[1] # z}
  <2>1. ASSUME NEW x \in [Zones -> 0 .. ZoneLbas], \A y \in Zones : y # z => x[y] = wps[y]
        PROVE  Cardinality(BegunAt(own, x, b)) = Cardinality(R) + Rest(x[z])
    <3> DEFINE T == {z} \X BegunPages(x[z])
    <3>1. BegunAt(own, x, b) = R \cup T
      <4>1. BegunPages(x[z]) \subseteq 0 .. ZoneLbas - 1
        BY DEF BegunPages
      <4>2. ASSUME NEW p \in BegunAt(own, x, b) PROVE p \in R \cup T
        BY <2>1 DEF BegunAt
      <4>3. ASSUME NEW p \in R PROVE p \in BegunAt(own, x, b)
        BY <2>1 DEF BegunAt
      <4>4. ASSUME NEW p \in T PROVE p \in BegunAt(own, x, b)
        BY <1>2, <4>1 DEF BegunAt
      <4>5. QED
        BY <4>2, <4>3, <4>4
    <3>2. R \cap T = {}
      OBVIOUS
    <3>3. IsFiniteSet(R)
      <4>1. IsFiniteSet(BegunAt(own, wps, b)) /\ R \in SUBSET BegunAt(own, wps, b)
        BY BegunFinite
      <4>2. QED
        BY <4>1, FS_Subset
    <3>4. IsFiniteSet(BegunPages(x[z])) /\ Cardinality(BegunPages(x[z])) = Rest(x[z])
      <4>1. x[z] \in 0 .. ZoneLbas
        OBVIOUS
      <4>2. QED
        BY <4>1, BegunPagesCount
    <3>5. IsFiniteSet({z}) /\ Cardinality({z}) = 1
      BY FS_Singleton
    <3>6. IsFiniteSet(T) /\ Cardinality(T) = Cardinality({z}) * Cardinality(BegunPages(x[z]))
      BY <3>4, <3>5, FS_Product
    <3>7. Cardinality(T) = Rest(x[z])
      <4>1. Rest(x[z]) \in Nat
        <5>1. x[z] \in 0 .. ZoneLbas
          OBVIOUS
        <5>2. QED
          BY <5>1, ZnsConstants
      <4>2. Cardinality(T) = 1 * Rest(x[z])
        BY <3>4, <3>5, <3>6, Zenon
      <4> HIDE DEF T
      <4>3. QED
        BY <4>1, <4>2
    <3> HIDE DEF R, T
    <3>8. Cardinality(R \cup T) = Cardinality(R) + Cardinality(T)
      <4>1. Cardinality(R \cup T) = Cardinality(R) + Cardinality(T) - Cardinality(R \cap T)
        BY <3>3, <3>6, FS_Union
      <4>2. Cardinality(R \cap T) = 0
        BY <3>2, FS_EmptySet
      <4>3. Cardinality(R) \in Nat /\ Cardinality(T) \in Nat
        BY <3>3, <3>6, FS_CardinalityType
      <4>4. QED
        BY <4>1, <4>2, <4>3
    <3>9. QED
      BY <3>1, <3>7, <3>8, Zenon
  <2>2. Cardinality(R) \in Nat
    <3>1. IsFiniteSet(BegunAt(own, wps, b)) /\ R \in SUBSET BegunAt(own, wps, b)
      BY BegunFinite
    <3>2. QED
      BY <3>1, FS_Subset, FS_CardinalityType
  <2> HIDE DEF R
  <2>3. Cardinality(BegunAt(own, new, b)) = Cardinality(R) + Rest(new[z])
    BY <2>1
  <2>4. Cardinality(BegunAt(own, wps, b)) = Cardinality(R) + Rest(wps[z])
    BY <2>1
  <2>5. Rest(new[z]) \in Nat /\ Rest(wps[z]) \in Nat
    <3>1. new[z] \in 0 .. ZoneLbas /\ wps[z] \in 0 .. ZoneLbas
      OBVIOUS
    <3>2. QED
      BY <3>1, ZnsConstants
  <2>6. Cardinality(BegunAt(own, new, b)) + Rest(wps[z]) = Cardinality(BegunAt(own, wps, b)) + Rest(new[z])
    BY <2>2, <2>3, <2>4, <2>5
  <2>7. QED
    BY <1>2, <2>6, Zenon
<1>3. QED
  BY <1>1, <1>2

\* Of each zone at most a wordline less a block is begun.
LEMMA BegunBounded ==
  ASSUME NEW own \in BOOLEAN, NEW wps \in [Zones -> 0 .. ZoneLbas],
         NEW b \in IF own THEN Zones ELSE {Shared}
  PROVE  Cardinality(BegunAt(own, wps, b))
           <= (IF own THEN 1 ELSE Cardinality(Zones)) * (WordlineLbas - 1)
<1> DEFINE Y == IF own THEN {b} ELSE Zones
           B == BegunAt(own, wps, b)
           K == 0 .. WordlineLbas - 2
           f == [p \in B |-> <<p[1], p[2] % WordlineLbas>>]
<1>1. WordlineLbas \in Nat \ {0} /\ ZoneLbas \in Nat \ {0} /\ IsFiniteSet(Zones)
  BY ZnsConstants, ZnsAssumption
<1>2. ASSUME NEW p \in B
      PROVE  /\ p[1] \in Y /\ p[2] \in Nat /\ p = <<p[1], p[2]>>
             /\ p[2] \div WordlineLbas = wps[p[1]] \div WordlineLbas
             /\ p[2] % WordlineLbas \in K
  <2>1. /\ p[1] \in Zones /\ HomeOf(own, p[1]) = b /\ p[2] \in 0 .. ZoneLbas - 1
        /\ p[2] \in BegunPages(wps[p[1]]) /\ p = <<p[1], p[2]>>
    BY DEF BegunAt
  <2>2. p[2] < wps[p[1]] /\ p[2] \div WordlineLbas = wps[p[1]] \div WordlineLbas
    BY <2>1 DEF BegunPages
  <2>3. p[1] \in Y
    BY <2>1 DEF HomeOf
  <2> DEFINE i == p[2]
             w == wps[p[1]]
  <2>4. i \in Nat /\ w \in Nat /\ i < w /\ i \div WordlineLbas = w \div WordlineLbas
    BY <2>1, <2>2, <1>1
  <2> HIDE DEF i, w
  <2>5. PICK q \in Nat, r \in 0 .. WordlineLbas - 1 :
          i = WordlineLbas * q + r /\ i \div WordlineLbas = q /\ i % WordlineLbas = r
    BY <1>1, <2>4, DivModSplit, Zenon
  <2>6. PICK t \in Nat, u \in 0 .. WordlineLbas - 1 :
          w = WordlineLbas * t + u /\ w \div WordlineLbas = t /\ w % WordlineLbas = u
    BY <1>1, <2>4, DivModSplit, Zenon
  <2>7. w = WordlineLbas * q + u
    BY <2>4, <2>5, <2>6
  <2> DEFINE a == WordlineLbas * q
  <2>8. a \in Nat
    BY <2>5, <1>1
  <2>9. i = a + r /\ w = a + u
    BY <2>5, <2>7
  <2> HIDE DEF a
  <2>10. r < u
    BY <2>4, <2>8, <2>9
  <2>11. i % WordlineLbas \in K
    BY <2>5, <2>10, <1>1
  <2>12. QED
    BY <2>1, <2>2, <2>3, <2>11, <1>1 DEF i
<1>3. f \in Injection(B, Y \X K)
  <2>1. f \in [B -> Y \X K]
    BY <1>2
  <2>2. ASSUME NEW p \in B, NEW s \in B, f[p] = f[s] PROVE p = s
    <3>1. p[1] = s[1] /\ p[2] % WordlineLbas = s[2] % WordlineLbas
      BY <2>2
    <3>2. p[2] \div WordlineLbas = s[2] \div WordlineLbas
      BY <1>2, <3>1, Zenon
    <3> DEFINE i == p[2]
               j == s[2]
    <3>3. i \in Nat /\ j \in Nat
      BY <1>2
    <3>4. i % WordlineLbas = j % WordlineLbas /\ i \div WordlineLbas = j \div WordlineLbas
      BY <3>1, <3>2
    <3> HIDE DEF i, j
    <3>5. i = j
      <4>1. PICK q \in Nat, r \in 0 .. WordlineLbas - 1 :
              i = WordlineLbas * q + r /\ i \div WordlineLbas = q /\ i % WordlineLbas = r
        BY <1>1, <3>3, DivModSplit, Zenon
      <4>2. PICK t \in Nat, u \in 0 .. WordlineLbas - 1 :
              j = WordlineLbas * t + u /\ j \div WordlineLbas = t /\ j % WordlineLbas = u
        BY <1>1, <3>3, DivModSplit, Zenon
      <4>3. QED
        BY <4>1, <4>2, <3>4, Zenon
    <3>6. QED
      BY <3>1, <3>5, <1>2, Zenon DEF i, j
  <2>3. QED
    BY <2>1, <2>2 DEF Injection, IsInjective
<1>4. IsFiniteSet(K) /\ Cardinality(K) = WordlineLbas - 1
  <2>1. 0 \in Int /\ WordlineLbas - 2 \in Int
    BY <1>1
  <2>2. IsFiniteSet(K) /\ Cardinality(K) = IF 0 > WordlineLbas - 2 THEN 0 ELSE WordlineLbas - 2 - 0 + 1
    BY <2>1, FS_Interval
  <2> DEFINE c == Cardinality(K)
  <2>3. c = IF 0 > WordlineLbas - 2 THEN 0 ELSE WordlineLbas - 2 - 0 + 1
    BY <2>2
  <2> HIDE DEF c
  <2>4. c = WordlineLbas - 1
    BY <2>3, <1>1
  <2>5. QED
    BY <2>2, <2>4 DEF c
<1>5. IsFiniteSet(Y) /\ Cardinality(Y) = IF own THEN 1 ELSE Cardinality(Zones)
  BY <1>1, FS_Singleton
<1> HIDE DEF Y, B, K, f
<1>6. IsFiniteSet(Y \X K) /\ Cardinality(Y \X K) = Cardinality(Y) * Cardinality(K)
  BY <1>4, <1>5, FS_Product
<1>7. Cardinality(B) <= Cardinality(Y \X K)
  BY <1>3, <1>6, FS_Injection
<1>8. Cardinality(Y \X K) = (IF own THEN 1 ELSE Cardinality(Zones)) * (WordlineLbas - 1)
  BY <1>4, <1>5, <1>6, Zenon
<1>9. QED
  BY <1>7, <1>8 DEF B

\* A multiple of a multiple is one, and so is the sum of two multiples.
LEMMA Multiples ==
  ASSUME NEW m \in Nat \ {0}, NEW u \in Nat \ {0}, NEW x \in Nat, x % u = 0
  PROVE  /\ u % m = 0 => x % m = 0
         /\ \A y \in Nat : y % u = 0 => (x + y) % u = 0
<1>1. ASSUME u % m = 0 PROVE x % m = 0
  <2>0. u \in Nat
    OBVIOUS
  <2>1. PICK a \in Nat, r \in 0 .. u - 1 : x = u * a + r /\ x \div u = a /\ x % u = r
    BY DivModSplit, Zenon
  <2>2. PICK b \in Nat, s \in 0 .. m - 1 : u = m * b + s /\ u \div m = b /\ u % m = s
    BY <2>0, DivModSplit, Zenon
  <2>3. x = u * a /\ u = m * b
    BY <1>1, <2>1, <2>2
  <2> DEFINE c == b * a
  <2>4. x = m * c + 0 /\ c \in Int
    BY <2>3
  <2> HIDE DEF c
  <2>5. 0 \in 0 .. m - 1
    OBVIOUS
  <2>6. (m * c + 0) % m = 0
    BY <2>4, <2>5, ModIs
  <2>7. QED
    BY <2>4, <2>6, Zenon
<1>2. ASSUME NEW y \in Nat, y % u = 0 PROVE (x + y) % u = 0
  <2>1. ((x % u) + y) % u = (x + y) % u
    <3>1. x \in Int /\ y \in Int
      OBVIOUS
    <3>2. QED
      BY <3>1, ModPlus, Zenon
  <2>2. 0 + y = y
    OBVIOUS
  <2>3. QED
    BY <1>2, <2>1, <2>2
<1>3. QED
  BY <1>1, <1>2

\* What is accounted for of buffer b.
Accounted(b) == Returning(b) + Cardinality(BegunAt(zconf.own, wp_of, b))

RoomInv ==
  /\ zconf \in ZnsConfigs
  /\ wp_of \in [Zones -> 0 .. ZoneLbas]
  /\ \A z \in Zones : wp_of[z] % zconf.unit = 0
  /\ space \in [Buffers -> Nat] /\ due_full \in [Buffers -> Nat] /\ due_tail \in [Buffers -> Nat]
  /\ \A b \in Buffers : /\ zconf.careful => Accounted(b) >= zconf.size
                        /\ zconf.unit % ZnsSecsPerPg = 0 => Accounted(b) <= zconf.size
                        /\ Returning(b) <= zconf.size + MaxZnsSurplus

LEMMA ConfigIs ==
  ASSUME RoomInv
  PROVE  /\ zconf.own \in BOOLEAN /\ zconf.careful \in BOOLEAN /\ zconf.size \in Nat
         /\ zconf.unit \in Nat \ {0} /\ MaxZnsSurplus \in Nat
         /\ \A z \in Zones : BufferOf(z) \in Buffers /\ BufferOf(z) = HomeOf(zconf.own, z)
BY ZnsAssumption DEF RoomInv, ZnsConfig, BufferOf, Buffers, HomeOf

\* What buffers hold and what is due are numbers of blocks.
LEMMA RoomTyped ==
  ASSUME RoomInv, NEW b \in Buffers
  PROVE  /\ space[b] \in Nat /\ due_full[b] \in Nat /\ due_tail[b] \in Nat
         /\ due_full[b] * WordlineLbas \in Nat /\ due_tail[b] * TailSize \in Nat
         /\ Returning(b) \in Nat
         /\ Cardinality(BegunAt(zconf.own, wp_of, b)) \in Nat
<1>1. space[b] \in Nat /\ due_full[b] \in Nat /\ due_tail[b] \in Nat
  BY DEF RoomInv
<1>2. WordlineLbas \in Nat /\ TailSize \in Nat
  BY ZnsConstants
<1>3. due_full[b] * WordlineLbas \in Nat /\ due_tail[b] * TailSize \in Nat
  BY <1>1, <1>2
<1>4. Returning(b) \in Nat
  BY <1>1, <1>3 DEF Returning
<1>5. Cardinality(BegunAt(zconf.own, wp_of, b)) \in Nat
  BY ConfigIs, BegunFinite DEF RoomInv
<1>6. QED
  BY <1>1, <1>3, <1>4, <1>5

LEMMA RoomStart == ZnsInit => RoomInv
<1>1. SUFFICES ASSUME ZnsInit PROVE RoomInv
  OBVIOUS
<1>2. zconf \in ZnsConfigs /\ zconf.size \in Nat /\ zconf.unit \in Nat \ {0} /\ MaxZnsSurplus \in Nat
  BY <1>1, ZnsAssumption DEF ZnsInit, ZnsConfig
<1>3. wp_of \in [Zones -> 0 .. ZoneLbas]
  BY <1>1, ZnsConstants DEF ZnsInit
<1>4. ASSUME NEW b \in Buffers PROVE Returning(b) = zconf.size /\ Accounted(b) = zconf.size
  <2>1. BegunPages(0) = {}
    BY DEF BegunPages
  <2>2. BegunAt(zconf.own, wp_of, b) = {}
    BY <1>1, <2>1 DEF BegunAt, ZnsInit
  <2>3. Cardinality(BegunAt(zconf.own, wp_of, b)) = 0
    BY <2>2, FS_EmptySet
  <2>4. space[b] = zconf.size /\ due_full[b] = 0 /\ due_tail[b] = 0
    BY <1>1 DEF ZnsInit
  <2>5. Returning(b) = zconf.size
    BY <2>4, <1>2, ZnsConstants DEF Returning
  <2>6. QED
    BY <2>3, <2>5, <1>2 DEF Accounted
<1>5. space \in [Buffers -> Nat] /\ due_full \in [Buffers -> Nat] /\ due_tail \in [Buffers -> Nat]
  BY <1>1, <1>2 DEF ZnsInit
<1>6. \A z \in Zones : wp_of[z] % zconf.unit = 0
  <2>1. 0 \in 0 .. zconf.unit - 1
    BY <1>2
  <2>2. 0 % zconf.unit = 0
    BY <1>2, <2>1, ModSmall
  <2>3. QED
    BY <1>1, <2>2 DEF ZnsInit
<1>7. QED
  BY <1>2, <1>3, <1>4, <1>5, <1>6 DEF RoomInv

\* A write moves what it takes to the releases of the wordlines it is taken to finish and to
\* the one it leaves begun, and adds to it only if it ends within a page.
LEMMA WriteRoom ==
  ASSUME RoomInv, NEW z \in Zones, NEW n \in 1 .. MaxWrite, ZnsWrite(z, n)
  PROVE  RoomInv'
<1> DEFINE w == wp_of[z]
           h == BufferOf(z)
           new == [wp_of EXCEPT ![z] = w + n]
           Wo == Whole(w, n) * WordlineLbas
           St == EndsShort(w, n) * TailSize
<1>1. /\ zconf' = zconf /\ space[h] >= n /\ w + n <= ZoneLbas /\ n % zconf.unit = 0
      /\ Returning(h) - n + (Wo + St) <= zconf.size + MaxZnsSurplus
      /\ wp_of' = new
      /\ space' = [space EXCEPT ![h] = @ - n]
      /\ due_full' = [due_full EXCEPT ![h] = @ + Whole(w, n)]
      /\ due_tail' = [due_tail EXCEPT ![h] = @ + EndsShort(w, n)]
  BY DEF ZnsWrite, Writable
<1>2. n \in Nat \ {0} /\ w \in 0 .. ZoneLbas /\ w + n \in 0 .. ZoneLbas /\ w # ZoneLbas /\ w \in Nat
  BY <1>1, ZnsConstants DEF RoomInv
<1>3. h \in Buffers /\ h = HomeOf(zconf.own, z) /\ zconf.own \in BOOLEAN
  BY ConfigIs
<1>4. /\ Whole(w, n) \in Nat /\ EndsShort(w, n) \in Nat
      /\ Rest(w) + n <= Wo + St + Rest(w + n)
      /\ (w + n) % ZnsSecsPerPg = 0 => Rest(w) + n = Wo + St + Rest(w + n)
  BY <1>1, <1>2, WriteUse
<1>5. Buffers' = Buffers
  BY <1>1 DEF Buffers
<1>6. /\ wp_of \in [Zones -> 0 .. ZoneLbas] /\ wp_of' \in [Zones -> 0 .. ZoneLbas]
      /\ space' \in [Buffers -> Nat] /\ due_full' \in [Buffers -> Nat] /\ due_tail' \in [Buffers -> Nat]
  <2>1. space[h] - n \in Nat
    BY <1>1, <1>2, <1>3 DEF RoomInv
  <2> HIDE DEF h, w
  <2>2. QED
    BY <1>1, <1>2, <1>3, <1>4, <2>1 DEF RoomInv
<1>unit. /\ (w + n) % zconf.unit = 0
         /\ zconf.unit % ZnsSecsPerPg = 0 => (w + n) % ZnsSecsPerPg = 0
  <2>1. w % zconf.unit = 0 /\ zconf.unit \in Nat \ {0} /\ ZnsSecsPerPg \in Nat \ {0}
    BY ConfigIs, ZoneSizes DEF RoomInv
  <2>2. (w + n) % zconf.unit = 0
    BY <1>1, <1>2, <2>1, Multiples
  <2>3. w + n \in Nat
    BY <1>2
  <2>4. QED
    BY <2>1, <2>2, <2>3, Multiples
<1>7. ASSUME NEW b \in Buffers
      PROVE  /\ Accounted(b)' >= Accounted(b)
             /\ zconf.unit % ZnsSecsPerPg = 0 => Accounted(b)' = Accounted(b)
             /\ Returning(b)' <= zconf.size + MaxZnsSurplus
             /\ Accounted(b)' \in Nat /\ Accounted(b) \in Nat
  <2> DEFINE old == Cardinality(BegunAt(zconf.own, wp_of, b))
             now == Cardinality(BegunAt(zconf.own, new, b))
  <2>1. IF b = h THEN now + Rest(w) = old + Rest(w + n)
                 ELSE BegunAt(zconf.own, new, b) = BegunAt(zconf.own, wp_of, b)
    <3>1. new \in [Zones -> 0 .. ZoneLbas] /\ new[z] = w + n /\ \A y \in Zones : y # z => new[y] = wp_of[y]
      BY <1>1, <1>6
    <3> HIDE DEF new
    <3>2. IF b = HomeOf(zconf.own, z)
            THEN Cardinality(BegunAt(zconf.own, new, b)) + Rest(wp_of[z])
                   = Cardinality(BegunAt(zconf.own, wp_of, b)) + Rest(new[z])
            ELSE BegunAt(zconf.own, new, b) = BegunAt(zconf.own, wp_of, b)
      BY <1>3, <1>6, <3>1, BegunMoves
    <3>3. QED
      BY <3>1, <3>2, <1>3, Zenon
  <2>2. old \in Nat /\ now \in Nat
    <3>1. new \in [Zones -> 0 .. ZoneLbas]
      BY <1>1, <1>6
    <3> HIDE DEF new
    <3>2. QED
      BY <1>3, <1>6, <3>1, BegunFinite
  <2>3. Accounted(b) = Returning(b) + old /\ Accounted(b)' = Returning(b)' + now
    BY <1>1 DEF Accounted
  <2>4. Returning(b) \in Nat
    BY RoomTyped
  <2>5. CASE b # h
    <3>1. Returning(b)' = Returning(b)
      BY <1>1, <2>5 DEF RoomInv, Returning
    <3>2. now = old
      BY <2>1, <2>5, Zenon
    <3>3. Returning(b) <= zconf.size + MaxZnsSurplus
      BY DEF RoomInv
    <3> HIDE DEF old, now
    <3>4. QED
      BY <2>2, <2>3, <2>4, <3>1, <3>2, <3>3
  <2>6. CASE b = h
    <3> DEFINE W == Whole(w, n)
               S == EndsShort(w, n)
               Fo == due_full[b] * WordlineLbas
               Tt == due_tail[b] * TailSize
    <3>1. /\ space'[b] = space[b] - n /\ due_full'[b] = due_full[b] + W
          /\ due_tail'[b] = due_tail[b] + S
          /\ space[b] \in Nat /\ due_full[b] \in Nat /\ due_tail[b] \in Nat
      BY <1>1, <1>3, <2>6 DEF RoomInv
    <3>2. W \in Nat /\ S \in Nat /\ WordlineLbas \in Nat /\ TailSize \in Nat
      BY <1>4, ZnsConstants
    <3>3. now + Rest(w) = old + Rest(w + n)
      BY <2>1, <2>6, Zenon
    <3>4. Rest(w) \in Nat /\ Rest(w + n) \in Nat
      BY <1>2, ZnsConstants
    <3>5. Wo \in Nat /\ St \in Nat /\ Fo \in Nat /\ Tt \in Nat
      <4> HIDE DEF W, S
      <4>1. W * WordlineLbas \in Nat /\ S * TailSize \in Nat /\ Fo \in Nat /\ Tt \in Nat
        BY <3>1, <3>2
      <4>2. QED
        BY <4>1 DEF W, S
    <3>6. (due_full[b] + W) * WordlineLbas = Fo + Wo /\ (due_tail[b] + S) * TailSize = Tt + St
      <4> HIDE DEF W, S
      <4>1. /\ (due_full[b] + W) * WordlineLbas = Fo + W * WordlineLbas
            /\ (due_tail[b] + S) * TailSize = Tt + S * TailSize
        BY <3>1, <3>2
      <4>2. QED
        BY <4>1 DEF W, S
    <3>7. Returning(b) = space[b] + Fo + Tt
      BY DEF Returning
    <3>8. Returning(b)' = (space[b] - n) + (Fo + Wo) + (Tt + St)
      <4>1. Returning(b)' = space'[b] + due_full'[b] * WordlineLbas + due_tail'[b] * TailSize
        BY DEF Returning
      <4>2. QED
        BY <4>1, <3>1, <3>6, Zenon
    <3>9. Returning(b)' = Returning(b) - n + (Wo + St) /\ Returning(b)' \in Nat
      <4>1. space[b] >= n
        BY <1>1, <2>6
      <4> HIDE DEF Wo, St, Fo, Tt
      <4>2. QED
        BY <3>1, <3>5, <3>7, <3>8, <1>2, <4>1
    <3>10. Returning(b)' <= zconf.size + MaxZnsSurplus
      BY <1>1, <2>6, <3>9, Zenon
    <3> HIDE DEF Wo, St, Fo, Tt, w, old, now
    <3>11. Accounted(b)' >= Accounted(b)
      BY <1>2, <1>4, <2>2, <2>3, <2>4, <3>3, <3>4, <3>5, <3>9
    <3>12. zconf.unit % ZnsSecsPerPg = 0 => Accounted(b)' = Accounted(b)
      <4>1. SUFFICES ASSUME zconf.unit % ZnsSecsPerPg = 0 PROVE Accounted(b)' = Accounted(b)
        OBVIOUS
      <4>2. Rest(w) + n = Wo + St + Rest(w + n)
        BY <1>4, <1>unit, <4>1, Zenon
      <4>3. QED
        BY <1>2, <4>2, <2>2, <2>3, <2>4, <3>3, <3>4, <3>5, <3>9
    <3>13. Accounted(b)' \in Nat /\ Accounted(b) \in Nat
      BY <2>2, <2>3, <2>4, <3>9
    <3>14. QED
      BY <3>10, <3>11, <3>12, <3>13
  <2>7. QED
    BY <2>5, <2>6
<1>8. ASSUME NEW b \in Buffers
      PROVE  /\ zconf.careful => Accounted(b)' >= zconf.size
             /\ zconf.unit % ZnsSecsPerPg = 0 => Accounted(b)' <= zconf.size
             /\ Returning(b)' <= zconf.size + MaxZnsSurplus
  <2>1. /\ zconf.careful => Accounted(b) >= zconf.size
        /\ zconf.unit % ZnsSecsPerPg = 0 => Accounted(b) <= zconf.size
    BY DEF RoomInv
  <2>2. zconf.size \in Nat
    BY ConfigIs
  <2>3. /\ Accounted(b)' >= Accounted(b) /\ Accounted(b)' \in Nat /\ Accounted(b) \in Nat
        /\ zconf.unit % ZnsSecsPerPg = 0 => Accounted(b)' = Accounted(b)
        /\ Returning(b)' <= zconf.size + MaxZnsSurplus
    BY <1>7
  <2>4. zconf.careful => Accounted(b)' >= zconf.size
    BY <2>1, <2>2, <2>3
  <2>5. zconf.unit % ZnsSecsPerPg = 0 => Accounted(b)' <= zconf.size
    BY <2>1, <2>3, Zenon
  <2>6. QED
    BY <2>3, <2>4, <2>5
<1>9. \A y \in Zones : wp_of'[y] % zconf.unit = 0
  <2>1. \A y \in Zones : wp_of'[y] = IF y = z THEN w + n ELSE wp_of[y]
    BY <1>1, <1>6
  <2> HIDE DEF w
  <2>2. QED
    BY <1>unit, <2>1 DEF RoomInv
<1>10. QED
  BY <1>1, <1>5, <1>6, <1>8, <1>9 DEF RoomInv

\* A release gives back what was due.
LEMMA ReleaseRoom ==
  ASSUME RoomInv, NEW h \in Buffers, ReleaseWordline(h) \/ ReleaseTail(h)
  PROVE  RoomInv'
<1>1. zconf' = zconf /\ wp_of' = wp_of /\ Buffers' = Buffers
  BY DEF ReleaseWordline, ReleaseTail, Buffers
<1>2. WordlineLbas \in Nat /\ TailSize \in Nat
  BY ZnsConstants
<1>3. space \in [Buffers -> Nat] /\ due_full \in [Buffers -> Nat] /\ due_tail \in [Buffers -> Nat]
  BY DEF RoomInv
<1>4. /\ space' \in [Buffers -> Nat] /\ due_full' \in [Buffers -> Nat] /\ due_tail' \in [Buffers -> Nat]
  BY <1>2, <1>3 DEF ReleaseWordline, ReleaseTail
<1>5. ASSUME NEW b \in Buffers PROVE Returning(b)' = Returning(b)
  <2> DEFINE Fo == due_full[b] * WordlineLbas
             Tt == due_tail[b] * TailSize
  <2>1. /\ Returning(b) = space[b] + Fo + Tt
        /\ Returning(b)' = space'[b] + due_full'[b] * WordlineLbas + due_tail'[b] * TailSize
    BY DEF Returning
  <2>2. CASE b # h
    <3>1. space'[b] = space[b] /\ due_full'[b] = due_full[b] /\ due_tail'[b] = due_tail[b]
      BY <1>3, <2>2 DEF ReleaseWordline, ReleaseTail
    <3>2. QED
      BY <2>1, <3>1, Zenon
  <2>3. CASE b = h /\ ReleaseWordline(h)
    <3>1. /\ space'[b] = space[b] + WordlineLbas /\ due_full'[b] = due_full[b] - 1
          /\ due_tail'[b] = due_tail[b]
          /\ space[b] \in Nat /\ due_full[b] \in Nat /\ due_tail[b] \in Nat
      BY <1>3, <2>3 DEF ReleaseWordline
    <3>2. (due_full[b] - 1) * WordlineLbas = Fo - WordlineLbas /\ Fo \in Nat /\ Tt \in Nat
      <4>1. \A x \in Nat, m \in Nat : (x - 1) * m = x * m - m /\ x * m \in Nat
        OBVIOUS
      <4>2. QED
        BY <4>1, <3>1, <1>2
    <3>3. Returning(b)' = (space[b] + WordlineLbas) + (Fo - WordlineLbas) + Tt
      BY <2>1, <3>1, <3>2, Zenon
    <3> HIDE DEF Fo, Tt
    <3>4. QED
      BY <2>1, <3>1, <3>2, <3>3, <1>2
  <2>4. CASE b = h /\ ReleaseTail(h)
    <3>1. /\ space'[b] = space[b] + TailSize /\ due_tail'[b] = due_tail[b] - 1
          /\ due_full'[b] = due_full[b]
          /\ space[b] \in Nat /\ due_full[b] \in Nat /\ due_tail[b] \in Nat
      BY <1>3, <2>4 DEF ReleaseTail
    <3>2. (due_tail[b] - 1) * TailSize = Tt - TailSize /\ Fo \in Nat /\ Tt \in Nat
      <4>1. \A x \in Nat, m \in Nat : (x - 1) * m = x * m - m /\ x * m \in Nat
        OBVIOUS
      <4>2. QED
        BY <4>1, <3>1, <1>2
    <3>3. Returning(b)' = (space[b] + TailSize) + Fo + (Tt - TailSize)
      BY <2>1, <3>1, <3>2, Zenon
    <3> HIDE DEF Fo, Tt
    <3>4. QED
      BY <2>1, <3>1, <3>2, <3>3, <1>2
  <2>5. QED
    BY <2>2, <2>3, <2>4
<1>6. ASSUME NEW b \in Buffers PROVE Accounted(b)' = Accounted(b)
  BY <1>1, <1>5 DEF Accounted
<1>7. QED
  BY <1>1, <1>4, <1>5, <1>6 DEF RoomInv

\* Resetting zones that have no wordline begun leaves what is begun as it is; what others had
\* begun is lost.
LEMMA ResetRoom ==
  ASSUME RoomInv, NEW S \in SUBSET Zones, ResetZones(S)
  PROVE  RoomInv'
<1>1. /\ zconf' = zconf /\ Buffers' = Buffers
      /\ wp_of' = [z \in Zones |-> IF z \in S THEN 0 ELSE wp_of[z]]
      /\ space' = space /\ due_full' = due_full /\ due_tail' = due_tail
  BY DEF ResetZones, Buffers
<1>2. wp_of' \in [Zones -> 0 .. ZoneLbas]
  BY <1>1, ZnsConstants DEF RoomInv
<1>3. ASSUME zconf.careful, NEW b PROVE BegunAt(zconf.own, wp_of, b)' = BegunAt(zconf.own, wp_of, b)
  <2>1. \A w \in 0 .. ZoneLbas : Rest(w) = 0 => BegunPages(w) = {}
    <3>1. ASSUME NEW w \in 0 .. ZoneLbas, Rest(w) = 0 PROVE BegunPages(w) = {}
      <4>1. IsFiniteSet(BegunPages(w)) /\ Cardinality(BegunPages(w)) = 0
        BY <3>1, BegunPagesCount
      <4>2. QED
        BY <4>1, FS_EmptySet
    <3>2. QED
      BY <3>1
  <2>2. \A z \in Zones : wp_of[z] \in 0 .. ZoneLbas
    BY DEF RoomInv
  <2>3. \A z \in S : Rest(wp_of[z]) = 0
    BY <1>3 DEF ResetZones, AtWordline, Rest
  <2>4. 0 \in 0 .. ZoneLbas /\ Rest(0) = 0
    <3>1. 0 \in 0 .. ZoneLbas /\ 0 \in 0 .. WordlineLbas - 1 /\ WordlineLbas \in Nat \ {0}
      BY ZnsConstants
    <3>2. 0 % WordlineLbas = 0
      BY <3>1, ModSmall
    <3>3. QED
      BY <3>1, <3>2 DEF Rest
  <2>5. \A z \in Zones : BegunPages(wp_of'[z]) = BegunPages(wp_of[z])
    <3>1. ASSUME NEW z \in S PROVE BegunPages(wp_of[z]) = {} /\ BegunPages(wp_of'[z]) = {}
      BY <1>1, <2>1, <2>2, <2>3, <2>4
    <3>2. ASSUME NEW z \in Zones, z \notin S PROVE wp_of'[z] = wp_of[z]
      BY <1>1, <3>2
    <3>3. QED
      BY <3>1, <3>2, Zenon
  <2>6. BegunAt(zconf.own, wp_of, b)' = BegunAt(zconf.own, wp_of', b)
    BY <1>1 DEF BegunAt, BegunPages
  <2>7. QED
    BY <2>5, <2>6 DEF BegunAt
<1>4. ASSUME NEW b \in Buffers
      PROVE  /\ zconf.careful => Accounted(b)' >= zconf.size
             /\ zconf.unit % ZnsSecsPerPg = 0 => Accounted(b)' <= zconf.size
             /\ Returning(b)' <= zconf.size + MaxZnsSurplus
  <2> DEFINE old == BegunAt(zconf.own, wp_of, b)
             now == BegunAt(zconf.own, wp_of', b)
  <2>1. now \subseteq old
    <3>1. BegunPages(0) = {}
      BY DEF BegunPages
    <3>2. \A z \in Zones : BegunPages(wp_of'[z]) \subseteq BegunPages(wp_of[z])
      BY <1>1, <3>1
    <3>3. QED
      BY <3>2 DEF BegunAt
  <2>2. zconf.own \in BOOLEAN /\ wp_of \in [Zones -> 0 .. ZoneLbas]
    BY ConfigIs DEF RoomInv
  <2>3. /\ IsFiniteSet(old) /\ Cardinality(old) \in Nat /\ Cardinality(now) \in Nat
        /\ Cardinality(now) <= Cardinality(old)
    <3>1. IsFiniteSet(old) /\ Cardinality(old) \in Nat /\ Cardinality(now) \in Nat
      BY <2>2, <1>2, BegunFinite
    <3> HIDE DEF old, now
    <3>2. QED
      BY <3>1, <2>1, FS_Subset
  <2>4. Accounted(b) = Returning(b) + Cardinality(old)
    BY DEF Accounted
  <2>5. Returning(b)' = Returning(b)
    BY <1>1 DEF Returning
  <2>6. Accounted(b)' = Returning(b) + Cardinality(now)
    <3>1. now = BegunAt(zconf.own, wp_of, b)'
      BY <1>1 DEF BegunAt, BegunPages
    <3>2. QED
      BY <3>1, <2>5 DEF Accounted
  <2>7. Returning(b) \in Nat /\ zconf.size \in Nat
    BY RoomTyped, ConfigIs
  <2>8. zconf.unit % ZnsSecsPerPg = 0 => Accounted(b)' <= zconf.size
    <3>1. zconf.unit % ZnsSecsPerPg = 0 => Accounted(b) <= zconf.size
      BY DEF RoomInv
    <3> HIDE DEF old, now
    <3>2. Accounted(b)' <= Accounted(b) /\ Accounted(b)' \in Nat /\ Accounted(b) \in Nat
      BY <2>3, <2>4, <2>6, <2>7
    <3>3. QED
      BY <3>1, <3>2, <2>7
  <2>9. ASSUME zconf.careful PROVE Accounted(b)' >= zconf.size
    <3>1. Accounted(b)' = Accounted(b)
      BY <1>3, <2>5, <2>9 DEF Accounted
    <3>2. QED
      BY <3>1, <2>9 DEF RoomInv
  <2>10. Returning(b)' <= zconf.size + MaxZnsSurplus
    BY <2>5 DEF RoomInv
  <2>11. QED
    BY <2>8, <2>9, <2>10
<1>5. /\ space' \in [Buffers' -> Nat] /\ due_full' \in [Buffers' -> Nat] /\ due_tail' \in [Buffers' -> Nat]
  BY <1>1 DEF RoomInv
<1>6. \A z \in Zones : wp_of'[z] % zconf.unit = 0
  <2>1. zconf.unit \in Nat \ {0} /\ 0 \in 0 .. zconf.unit - 1
    BY ConfigIs
  <2>2. 0 % zconf.unit = 0
    BY <2>1, ModSmall
  <2>3. QED
    BY <1>1, <2>2 DEF RoomInv
<1>7. QED
  BY <1>1, <1>2, <1>4, <1>5, <1>6 DEF RoomInv

LEMMA RoomStep == RoomInv /\ [ZnsNext]_znsVars => RoomInv'
<1>1. SUFFICES ASSUME RoomInv, [ZnsNext]_znsVars PROVE RoomInv'
  OBVIOUS
<1>2. ASSUME UNCHANGED <<zconf, wp_of, space, due_full, due_tail>> PROVE RoomInv'
  BY <1>1, <1>2 DEF RoomInv, Buffers, Accounted, Returning, BegunAt, BegunPages
<1>3. ASSUME NEW z \in Zones, NEW n \in 1 .. MaxWrite, ZnsWrite(z, n) PROVE RoomInv'
  BY <1>1, <1>3, WriteRoom
<1>4. ASSUME NEW z \in Zones, NEW from \in 0 .. ZoneLbas - 1, NEW n \in 1 .. MaxWrite,
             ZnsWriteError(z, from, n)
      PROVE  RoomInv'
  <2> DEFINE h == BufferOf(z)
  <2>1. h \in Buffers /\ n \in Nat
    BY <1>1, <1>4, ConfigIs, ZnsConstants
  <2>2. /\ ~zconf.careful /\ zconf' = zconf /\ Buffers' = Buffers /\ space[h] >= n
        /\ space' = [space EXCEPT ![h] = @ - n]
        /\ UNCHANGED <<wp_of, due_full, due_tail>>
    BY <1>4 DEF ZnsWriteError, Buffers
  <2> HIDE DEF h
  <2>3. space' \in [Buffers -> Nat]
    BY <1>1, <2>1, <2>2 DEF RoomInv
  <2>4. ASSUME NEW b \in Buffers
        PROVE  /\ zconf.unit % ZnsSecsPerPg = 0 => Accounted(b)' <= zconf.size
               /\ Returning(b)' <= zconf.size + MaxZnsSurplus
    <3> DEFINE c == Cardinality(BegunAt(zconf.own, wp_of, b))
               F == due_full[b] * WordlineLbas
               T == due_tail[b] * TailSize
    <3>1. /\ Returning(b) = space[b] + F + T /\ Returning(b)' = space'[b] + F + T
          /\ Accounted(b) = Returning(b) + c /\ Accounted(b)' = Returning(b)' + c
      BY <2>2 DEF Accounted, Returning, BegunAt, BegunPages
    <3>2. /\ F \in Nat /\ T \in Nat /\ c \in Nat /\ Returning(b) \in Nat
          /\ zconf.size \in Nat /\ MaxZnsSurplus \in Nat
      BY <1>1, ConfigIs, RoomTyped
    <3>3. space[b] \in Nat /\ space'[b] \in Nat /\ space'[b] <= space[b]
      BY <1>1, <2>1, <2>2, <2>3 DEF RoomInv
    <3>4. /\ zconf.unit % ZnsSecsPerPg = 0 => Accounted(b) <= zconf.size
          /\ Returning(b) <= zconf.size + MaxZnsSurplus
      BY <1>1 DEF RoomInv
    <3> HIDE DEF F, T, c
    <3>5. Returning(b)' <= Returning(b) /\ Returning(b)' \in Nat
      BY <3>1, <3>2, <3>3
    <3>6. Accounted(b)' <= Accounted(b) /\ Accounted(b)' \in Nat /\ Accounted(b) \in Nat
      BY <3>1, <3>2, <3>5
    <3>7. zconf.unit % ZnsSecsPerPg = 0 => Accounted(b)' <= zconf.size
      BY <3>2, <3>4, <3>6
    <3>8. Returning(b)' <= zconf.size + MaxZnsSurplus
      BY <3>2, <3>4, <3>5
    <3>9. QED
      BY <3>7, <3>8
  <2>5. QED
    BY <1>1, <2>2, <2>3, <2>4 DEF RoomInv
<1>5. ASSUME NEW b \in Buffers, ReleaseWordline(b) \/ ReleaseTail(b) PROVE RoomInv'
  BY <1>1, <1>5, ReleaseRoom
<1>6. ASSUME NEW S \in Selections, CloseZones(S) \/ FinishZones(S) \/ OpenZones(S) \/ ResetZones(S)
      PROVE  RoomInv'
  <2>1. S \in SUBSET Zones
    BY <1>6 DEF Selections
  <2>2. CASE ResetZones(S)
    BY <1>1, <2>1, <2>2, ResetRoom
  <2>3. CASE CloseZones(S) \/ FinishZones(S) \/ OpenZones(S)
    BY <1>2, <2>3 DEF CloseZones, FinishZones, OpenZones
  <2>4. QED
    BY <1>6, <2>2, <2>3
<1>7. CASE UNCHANGED znsVars
  BY <1>2, <1>7 DEF znsVars
<1>8. QED
  BY <1>1, <1>3, <1>4, <1>5, <1>6, <1>7 DEF ZnsNext

\* Where every write is of whole wordlines none is left begun; else each zone of a buffer
\* leaves less than one.
LEMMA BegunOfSharers ==
  ASSUME RoomInv, NEW b \in Buffers
  PROVE  /\ Cardinality(BegunAt(zconf.own, wp_of, b)) <= Sharers(zconf) * (WordlineLbas - 1)
         /\ Sharers(zconf) * (WordlineLbas - 1) \in Nat
<1>1. WordlineLbas \in Nat \ {0} /\ Cardinality(Zones) \in Nat
  BY ZnsConstants, ZnsAssumption, FS_CardinalityType
<1>2. CASE zconf.unit % WordlineLbas = 0
  <2>1. \A z \in Zones : BegunPages(wp_of[z]) = {}
    <3>1. SUFFICES ASSUME NEW z \in Zones PROVE BegunPages(wp_of[z]) = {}
      OBVIOUS
    <3>2. wp_of[z] \in 0 .. ZoneLbas /\ wp_of[z] \in Nat /\ wp_of[z] % zconf.unit = 0
      BY DEF RoomInv
    <3>3. zconf.unit \in Nat \ {0}
      BY ConfigIs
    <3>4. wp_of[z] % WordlineLbas = 0
      BY <1>1, <1>2, <3>2, <3>3, Multiples
    <3>5. Rest(wp_of[z]) = 0
      BY <3>4 DEF Rest
    <3>6. IsFiniteSet(BegunPages(wp_of[z])) /\ Cardinality(BegunPages(wp_of[z])) = 0
      BY <3>2, <3>5, BegunPagesCount
    <3>7. QED
      BY <3>6, FS_EmptySet
  <2>2. BegunAt(zconf.own, wp_of, b) = {}
    BY <2>1 DEF BegunAt
  <2>3. Cardinality(BegunAt(zconf.own, wp_of, b)) = 0
    BY <2>2, FS_EmptySet
  <2>4. Sharers(zconf) = 0
    BY <1>2 DEF Sharers
  <2>5. Sharers(zconf) * (WordlineLbas - 1) = 0
    BY <1>1, <2>4
  <2>6. QED
    BY <2>3, <2>5
<1>3. CASE zconf.unit % WordlineLbas # 0
  <2>1. Sharers(zconf) = IF zconf.own THEN 1 ELSE Cardinality(Zones)
    BY <1>3 DEF Sharers
  <2>2. /\ zconf.own \in BOOLEAN /\ wp_of \in [Zones -> 0 .. ZoneLbas]
        /\ b \in IF zconf.own THEN Zones ELSE {Shared}
    BY ConfigIs DEF RoomInv, Buffers
  <2>3. Cardinality(BegunAt(zconf.own, wp_of, b))
          <= (IF zconf.own THEN 1 ELSE Cardinality(Zones)) * (WordlineLbas - 1)
    BY <2>2, BegunBounded
  <2>4. Sharers(zconf) \in Nat
    BY <1>1, <2>1
  <2>5. Sharers(zconf) * (WordlineLbas - 1) \in Nat
    BY <1>1, <2>4
  <2>6. QED
    BY <2>1, <2>3, <2>5, Zenon
<1>4. QED
  BY <1>2, <1>3

LEMMA RoomReturns == RoomInv => ZoneBufferReturns
<1>1. SUFFICES ASSUME RoomInv, NEW b \in Buffers
      PROVE  /\ zconf.careful => /\ Returning(b) + Cardinality(Begun(b)) >= zconf.size
                                 /\ due_full[b] + due_tail[b] = 0 => space[b] >= MaxWrite
             /\ zconf.unit % ZnsSecsPerPg = 0 => Returning(b) + Cardinality(Begun(b)) <= zconf.size
  BY DEF ZoneBufferReturns
<1> DEFINE c == Cardinality(BegunAt(zconf.own, wp_of, b))
<1>2. Cardinality(Begun(b)) = c
  BY BegunIs
<1>3. /\ zconf.careful => Returning(b) + c >= zconf.size
      /\ zconf.unit % ZnsSecsPerPg = 0 => Returning(b) + c <= zconf.size
  BY <1>1 DEF RoomInv, Accounted
<1>4. ASSUME zconf.careful, due_full[b] + due_tail[b] = 0 PROVE space[b] >= MaxWrite
  <2> DEFINE m == Sharers(zconf) * (WordlineLbas - 1)
  <2>1. space[b] \in Nat /\ due_full[b] = 0 /\ due_tail[b] = 0
    BY <1>1, <1>4 DEF RoomInv
  <2>2. c \in Nat /\ c <= m /\ m \in Nat
    BY <1>1, RoomTyped, BegunOfSharers
  <2>3. m + MaxWrite <= zconf.size
    BY <1>1, ZnsAssumption DEF RoomInv
  <2>4. zconf.size \in Nat /\ MaxWrite \in Nat /\ WordlineLbas \in Nat /\ TailSize \in Nat
    BY <1>1, ConfigIs, ZnsConstants
  <2>5. Returning(b) = space[b]
    BY <2>1, <2>4 DEF Returning
  <2> HIDE DEF c, m
  <2>6. space[b] + c >= zconf.size
    BY <1>3, <1>4, <2>5, Zenon
  <2>7. QED
    BY <2>1, <2>2, <2>3, <2>4, <2>6
<1>5. QED
  BY <1>2, <1>3, <1>4, Zenon

\* A careful host's buffers come back, however its writes split over wordlines, pages and
\* zones' ends and whichever zones it resets: every block taken is begun, due or back, and
\* once the releases are done the longest write finds room; and where writes are of whole
\* pages no host is given back more than it took (__zns_write in zns_read_write.c,
\* buffer_allocate and buffer_release in ssd.c).
THEOREM ZoneBuffersComeBack == NsSpec => []ZoneBufferReturns
<1>1. NsInit => RoomInv
  BY RoomStart DEF NsInit
<1>2. RoomInv /\ [NsNext]_nsVars => RoomInv'
  <2>1. [NsNext]_nsVars => [ZnsNext]_znsVars
    BY DEF NsNext, nsVars
  <2>2. QED
    BY <2>1, RoomStep
<1>3. QED
  BY <1>1, <1>2, RoomReturns, PTL DEF NsSpec
-----------------------------------------------------------------------------
\* A namespace of another kind leaves the conventional FTL alone.
LEMMA ConvHolds == NsSpec => []ConvInv
<1>1. NsInit => ConvInv
  BY ConvStart DEF NsInit
<1>2. ConvInv /\ [NsNext]_nsVars => ConvInv'
  <2>1. [NsNext]_nsVars => ConvNext \/ UNCHANGED convVars
    BY DEF NsNext, nsVars
  <2>2. QED
    BY <2>1, ConvKeeps
<1>3. QED
  BY <1>1, <1>2, PTL DEF NsSpec

\* A mapped logical page is at a valid page that maps back to it, and every valid page
\* but those a collection has just copied is some logical page's, whatever is written and
\* whenever collections run (conv_write, do_gc in conv_ftl.c).
THEOREM MapsKept == NsSpec => []MapsAgree
<1>1. ConvInv => MapsAgree
  BY DEF ConvInv
<1>2. QED
  BY <1>1, ConvHolds, PTL

\* A line is free, full, a victim, being written or being collected, never two of these,
\* and its counts are those of its pages (mark_page_valid, mark_page_invalid,
\* advance_write_pointer, select_victim_line, mark_line_free).
THEOREM LinesKept == NsSpec => []LinesAccounted
<1>1. QED
  BY ConvHolds, InvAccounts, PTL

\* advance_write_pointer never finds the free list empty, for the host or for a collection,
\* which would leave it without a line (get_next_free_line).
THEOREM WritersFindLines == NsSpec => []LineForWriter
<1>1. QED
  BY ConvHolds, InvWriters, PTL

\* No buffer space is lost: with nothing outstanding a command of any length finds room
\* (buffer_allocate, buffer_release in ssd.c).
THEOREM BufferComesBack == NsSpec => []BufferReturns
<1>1. QED
  BY ConvHolds, InvBuffer, PTL
-----------------------------------------------------------------------------
(* The chains of the key-value store.  Chain is a recursion along links: it *)
(* defines a function by CursorTheorems' Iterates, and what it reaches in  *)
(* as many steps as there are slots is the least set that links do not     *)
(* leave, by counting.  What commands do to chains follows from that.      *)

UsedIn(tb, s) == s \in SlotIds /\ tb[s].off # Nil

\* Slots, and where the links of those in use lead.
Onwards(tb, c) == c \cup {tb[t].next : t \in {u \in c : UsedIn(tb, u)}}

Upto(tb, s) ==
  LET upto[n \in 0 .. Slots] == IF n = 0 THEN {s} ELSE Onwards(tb, upto[n - 1])
  IN upto

\* Chain(s), of a table given.
ChainOf(tb, s) == {t \in Upto(tb, s)[Slots] : UsedIn(tb, t)}

LEMMA ChainIs == \A s : Chain(s) = ChainOf(table, s) /\ Chain(s)' = ChainOf(table', s)
<1>1. ASSUME NEW s PROVE Chain(s) = ChainOf(table, s)
  BY Zenon DEF Chain, ChainOf, Used, UsedIn, Onwards, Upto
<1>2. ASSUME NEW s PROVE Chain(s)' = ChainOf(table', s)
  BY Zenon DEF Chain, ChainOf, Used, UsedIn, Onwards, Upto
<1>3. QED
  BY <1>1, <1>2

\* A table's links.
Linked(tb) == \A t \in SlotIds : tb[t].next \in Int

\* The recursion that follows a chain defines what it says.
LEMMA UptoIs ==
  ASSUME NEW tb, Linked(tb), NEW s \in SlotIds
  PROVE  Upto(tb, s) = [n \in 0 .. Slots |-> IF n = 0 THEN {s} ELSE Onwards(tb, Upto(tb, s)[n - 1])]
<1> DEFINE S == SUBSET Int
           F == [c \in S |-> Onwards(tb, c)]
           a == {s}
<1>1. Slots \in Nat /\ a \in S
  BY KvAssumption DEF SlotIds
<1>2. F \in [S -> S]
  BY DEF Linked, UsedIn, Onwards
<1>3. \E f \in [0 .. Slots -> S] : Iterated(f, F, a, Slots)
  <2> HIDE DEF F, S, a
  <2>1. QED
    BY <1>1, <1>2, Iterates
<1>4. PICK f \in [0 .. Slots -> S] : Iterated(f, F, a, Slots)
  BY <1>3
<1>5. ASSUME NEW n \in 0 .. Slots, n # 0 PROVE F[f[n - 1]] = Onwards(tb, f[n - 1])
  <2>1. n - 1 \in 0 .. Slots
    BY <1>1, <1>5
  <2>2. f[n - 1] \in S
    BY <1>4, <2>1, Zenon
  <2> HIDE DEF S
  <2>3. QED
    BY <2>2
<1> HIDE DEF F, S
<1>6. f = [n \in 0 .. Slots |-> IF n = 0 THEN {s} ELSE Onwards(tb, f[n - 1])]
  <2>1. [n \in 0 .. Slots |-> IF n = 0 THEN a ELSE F[f[n - 1]]]
          = [n \in 0 .. Slots |-> IF n = 0 THEN {s} ELSE Onwards(tb, f[n - 1])]
    BY <1>5
  <2>2. f = [n \in 0 .. Slots |-> IF n = 0 THEN a ELSE F[f[n - 1]]]
    BY <1>4, Zenon DEF Iterated
  <2>3. QED
    BY <2>1, <2>2, Zenon
<1> DEFINE upto == CHOOSE g : g = [n \in 0 .. Slots |-> IF n = 0 THEN {s} ELSE Onwards(tb, g[n - 1])]
<1>7. upto = [n \in 0 .. Slots |-> IF n = 0 THEN {s} ELSE Onwards(tb, upto[n - 1])]
  BY <1>6, Zenon
<1>8. Upto(tb, s) = upto
  BY Zenon DEF Upto
<1>9. QED
  BY <1>7, <1>8, Zenon

LEMMA UptoSteps ==
  ASSUME NEW tb, Linked(tb), NEW s \in SlotIds
  PROVE  /\ Upto(tb, s)[0] = {s}
         /\ \A n \in 0 .. Slots - 1 : Upto(tb, s)[n + 1] = Onwards(tb, Upto(tb, s)[n])
<1> DEFINE upto == Upto(tb, s)
<1>1. Slots \in Nat
  BY KvAssumption
<1>2. upto = [n \in 0 .. Slots |-> IF n = 0 THEN {s} ELSE Onwards(tb, upto[n - 1])]
  BY UptoIs, Zenon
<1> HIDE DEF upto
<1>3. \A n \in 0 .. Slots : upto[n] = IF n = 0 THEN {s} ELSE Onwards(tb, upto[n - 1])
  BY <1>2
<1>4. 0 \in 0 .. Slots
  BY <1>1
<1>5. upto[0] = {s}
  BY <1>3, <1>4, Zenon
<1>6. ASSUME NEW n \in 0 .. Slots - 1 PROVE upto[n + 1] = Onwards(tb, upto[n])
  <2>1. n + 1 \in 0 .. Slots /\ n + 1 # 0 /\ (n + 1) - 1 = n
    BY <1>1
  <2>2. upto[n + 1] = Onwards(tb, upto[(n + 1) - 1])
    BY <1>3, <2>1, Zenon
  <2>3. QED
    BY <2>1, <2>2, Zenon
<1>7. QED
  BY <1>5, <1>6 DEF upto

\* The links of X's slots lead to X's slots or to none in use.
Closed(tb, X) == \A t \in X : UsedIn(tb, t) /\ UsedIn(tb, tb[t].next) => tb[t].next \in X

\* The slots in use among those reached after n links.
Reached(tb, s, n) == {t \in Upto(tb, s)[n] : UsedIn(tb, t)}

LEMMA ReachedSteps ==
  ASSUME NEW tb, Linked(tb), NEW s \in SlotIds
  PROVE  /\ Reached(tb, s, 0) = {t \in {s} : UsedIn(tb, t)}
         /\ \A n \in 0 .. Slots - 1 :
              Reached(tb, s, n + 1)
                = Reached(tb, s, n)
                    \cup {u \in {tb[t].next : t \in Reached(tb, s, n)} : UsedIn(tb, u)}
<1>1. Reached(tb, s, 0) = {t \in {s} : UsedIn(tb, t)}
  BY UptoSteps DEF Reached
<1>2. ASSUME NEW n \in 0 .. Slots - 1
      PROVE  Reached(tb, s, n + 1)
               = Reached(tb, s, n)
                   \cup {u \in {tb[t].next : t \in Reached(tb, s, n)} : UsedIn(tb, u)}
  <2>1. Upto(tb, s)[n + 1] = Onwards(tb, Upto(tb, s)[n])
    BY UptoSteps
  <2>2. QED
    BY <2>1 DEF Reached, Onwards
<1>3. QED
  BY <1>1, <1>2

\* A chain is the least set with the first slot that links do not leave: as many steps as
\* there are slots follow every link.
LEMMA ChainFacts ==
  ASSUME NEW tb, Linked(tb), NEW s \in SlotIds
  PROVE  /\ \A t \in ChainOf(tb, s) : t \in SlotIds /\ UsedIn(tb, t)
         /\ UsedIn(tb, s) => s \in ChainOf(tb, s)
         /\ Closed(tb, ChainOf(tb, s))
         /\ \A X : (UsedIn(tb, s) => s \in X) /\ Closed(tb, X) => ChainOf(tb, s) \subseteq X
<1> DEFINE R(n) == Reached(tb, s, n)
<1>1. Slots \in Nat
  BY KvAssumption
<1>2. ChainOf(tb, s) = R(Slots)
  BY DEF ChainOf, Reached
<1>3. /\ R(0) = {t \in {s} : UsedIn(tb, t)}
      /\ \A n \in 0 .. Slots - 1 : R(n + 1) = R(n) \cup {u \in {tb[t].next : t \in R(n)} : UsedIn(tb, u)}
  BY ReachedSteps
<1>4. \A n : \A t \in R(n) : UsedIn(tb, t) /\ t \in SlotIds
  BY DEF Reached, UsedIn
<1> HIDE DEF R
<1>5. ASSUME NEW T \in SUBSET Nat, 0 \in T,
             \A n \in T : n \in 0 .. Slots - 1 => n + 1 \in T
      PROVE  Slots \in T
  <2> DEFINE V == {n \in Nat : n \in 0 .. Slots => n \in T}
  <2>1. 0 \in V
    BY <1>5
  <2>2. ASSUME NEW n \in V PROVE n + 1 \in V
    BY <1>1, <1>5
  <2>3. V \in SUBSET Nat
    OBVIOUS
  <2> HIDE DEF V
  <2>4. V = Nat
    BY <2>1, <2>2, <2>3, NumbersReached
  <2>5. Slots \in V
    BY <1>1, <2>4
  <2>6. QED
    BY <2>5, <1>1 DEF V
<1>6. ASSUME NEW X, UsedIn(tb, s) => s \in X, Closed(tb, X) PROVE R(Slots) \subseteq X
  <2> DEFINE T == {n \in Nat : R(n) \subseteq X}
  <2>1. 0 \in T
    BY <1>3, <1>6
  <2>2. ASSUME NEW n \in T, n \in 0 .. Slots - 1 PROVE n + 1 \in T
    <3>1. R(n) \subseteq X
      OBVIOUS
    <3>2. R(n + 1) = R(n) \cup {u \in {tb[t].next : t \in R(n)} : UsedIn(tb, u)}
      BY <1>3, <2>2
    <3>3. R(n + 1) \subseteq X
      BY <3>1, <3>2, <1>4, <1>6 DEF Closed
    <3>4. n + 1 \in Nat
      BY <2>2, <1>1
    <3>5. QED
      BY <3>3, <3>4
  <2>3. T \in SUBSET Nat
    OBVIOUS
  <2>4. Slots \in T
    <3> HIDE DEF T
    <3>1. QED
      BY <1>5, <2>1, <2>2, <2>3
  <2>5. QED
    BY <2>4
<1>7. R(0) \subseteq R(Slots)
  <2> DEFINE T == {n \in Nat : R(0) \subseteq R(n)}
  <2>1. 0 \in T
    OBVIOUS
  <2>2. ASSUME NEW n \in T, n \in 0 .. Slots - 1 PROVE n + 1 \in T
    <3>1. R(0) \subseteq R(n)
      OBVIOUS
    <3>2. R(n + 1) = R(n) \cup {u \in {tb[t].next : t \in R(n)} : UsedIn(tb, u)}
      BY <1>3, <2>2
    <3>3. n + 1 \in Nat
      BY <2>2, <1>1
    <3>4. QED
      BY <3>1, <3>2, <3>3
  <2>3. T \in SUBSET Nat
    OBVIOUS
  <2>4. Slots \in T
    <3> HIDE DEF T
    <3>1. QED
      BY <1>5, <2>1, <2>2, <2>3
  <2>5. QED
    BY <2>4
<1>8. IsFiniteSet(SlotIds) /\ Cardinality(SlotIds) = Slots
  <2>1. 0 \in Int /\ Slots - 1 \in Int
    BY <1>1
  <2>2. IsFiniteSet(0 .. Slots - 1) /\ Cardinality(0 .. Slots - 1) = IF 0 > Slots - 1 THEN 0 ELSE Slots - 1 - 0 + 1
    BY <2>1, FS_Interval
  <2> DEFINE c == Cardinality(0 .. Slots - 1)
  <2>3. c = IF 0 > Slots - 1 THEN 0 ELSE Slots - 1 - 0 + 1
    BY <2>2
  <2> HIDE DEF c
  <2>4. c = Slots
    BY <2>3, <1>1
  <2>5. QED
    BY <2>2, <2>4 DEF c, SlotIds
<1>9. \A n : IsFiniteSet(R(n)) /\ Cardinality(R(n)) \in Nat /\ Cardinality(R(n)) <= Slots
  <2>1. ASSUME NEW n PROVE IsFiniteSet(R(n)) /\ Cardinality(R(n)) \in Nat /\ Cardinality(R(n)) <= Slots
    <3>1. R(n) \in SUBSET SlotIds
      BY <1>4
    <3>2. IsFiniteSet(R(n)) /\ Cardinality(R(n)) <= Cardinality(SlotIds)
      BY <3>1, <1>8, FS_Subset
    <3>3. QED
      BY <3>2, <1>8, FS_CardinalityType
  <2>2. QED
    BY <2>1
<1>10. Closed(tb, R(Slots))
  <2> DEFINE T == {n \in Nat : Closed(tb, R(n)) \/ Cardinality(R(n)) >= n + 1}
  <2>1. 0 \in T
    <3>1. CASE UsedIn(tb, s)
      <4>1. R(0) = {s}
        BY <1>3, <3>1
      <4>2. Cardinality(R(0)) = 1
        BY <4>1, FS_Singleton
      <4>3. QED
        BY <4>2
    <3>2. CASE ~UsedIn(tb, s)
      <4>1. R(0) = {}
        BY <1>3, <3>2
      <4>2. QED
        BY <4>1 DEF Closed
    <3>3. QED
      BY <3>1, <3>2
  <2>2. ASSUME NEW n \in T, n \in 0 .. Slots - 1 PROVE n + 1 \in T
    <3>1. R(n + 1) = R(n) \cup {u \in {tb[t].next : t \in R(n)} : UsedIn(tb, u)}
      BY <1>3, <2>2
    <3>2. n \in Nat /\ n + 1 \in Nat
      BY <2>2, <1>1
    <3>3. CASE Closed(tb, R(n))
      <4>1. R(n + 1) = R(n)
        BY <3>1, <3>3, <1>4 DEF Closed
      <4>2. QED
        BY <4>1, <3>2, <3>3
    <3>4. CASE ~Closed(tb, R(n))
      <4>1. Cardinality(R(n)) >= n + 1
        BY <3>4
      <4>2. PICK t \in R(n) : UsedIn(tb, tb[t].next) /\ tb[t].next \notin R(n)
        BY <3>4 DEF Closed
      <4> DEFINE x == tb[t].next
      <4>3. x \notin R(n) /\ R(n) \cup {x} \subseteq R(n + 1)
        BY <3>1, <4>2
      <4> HIDE DEF x
      <4>4. IsFiniteSet(R(n) \cup {x}) /\ Cardinality(R(n) \cup {x}) = Cardinality(R(n)) + 1
        BY <4>3, <1>9, FS_AddElement
      <4>5. Cardinality(R(n) \cup {x}) <= Cardinality(R(n + 1))
        BY <4>3, <1>9, FS_Subset
      <4>6. Cardinality(R(n)) \in Nat /\ Cardinality(R(n + 1)) \in Nat
        BY <1>9
      <4>7. Cardinality(R(n + 1)) >= (n + 1) + 1
        BY <4>1, <4>4, <4>5, <4>6, <3>2
      <4>8. QED
        BY <4>7, <3>2
    <3>5. QED
      BY <3>3, <3>4
  <2>3. T \in SUBSET Nat
    OBVIOUS
  <2>4. Slots \in T
    <3> HIDE DEF T
    <3>1. QED
      BY <1>5, <2>1, <2>2, <2>3
  <2>5. Cardinality(R(Slots)) \in Nat /\ Cardinality(R(Slots)) <= Slots
    BY <1>9
  <2>6. QED
    BY <2>4, <2>5, <1>1
<1>11. UsedIn(tb, s) => s \in R(Slots)
  BY <1>3, <1>7
<1>12. QED
  BY <1>2, <1>4, <1>6, <1>10, <1>11

\* Find(k), of a table and hash values given.
FindOf(tb, hm, k) ==
  LET hits == {t \in ChainOf(tb, hm[k]) : tb[t].key = k}
  IN IF hits = {} THEN Nil ELSE CHOOSE t \in hits : TRUE

LEMMA FindIs == \A k : Find(k) = FindOf(table, home, k) /\ Find(k)' = FindOf(table', home', k)
<1>1. ASSUME NEW k PROVE Find(k) = FindOf(table, home, k)
  <2> DEFINE hits == {t \in Chain(home[k]) : table[t].key = k}
             same == {t \in ChainOf(table, home[k]) : table[t].key = k}
  <2>1. Chain(home[k]) = ChainOf(table, home[k])
    BY ChainIs, Zenon
  <2>2. hits = same
    BY <2>1
  <2>3. Find(k) = IF hits = {} THEN Nil ELSE CHOOSE t \in hits : TRUE
    BY Zenon DEF Find
  <2>4. FindOf(table, home, k) = IF same = {} THEN Nil ELSE CHOOSE t \in same : TRUE
    BY Zenon DEF FindOf
  <2> HIDE DEF hits, same
  <2>5. QED
    BY <2>2, <2>3, <2>4
<1>2. ASSUME NEW k PROVE Find(k)' = FindOf(table', home', k)
  <2> DEFINE hits == {t \in Chain(home[k])' : table'[t].key = k}
             same == {t \in ChainOf(table', home'[k]) : table'[t].key = k}
  <2>1. Chain(home[k])' = ChainOf(table', home'[k])
    BY Zenon DEF Chain, ChainOf, Used, UsedIn, Onwards, Upto
  <2>2. hits = same
    BY <2>1
  <2>3. Find(k)' = IF hits = {} THEN Nil ELSE CHOOSE t \in hits : TRUE
    BY Zenon DEF Find
  <2>4. FindOf(table', home', k) = IF same = {} THEN Nil ELSE CHOOSE t \in same : TRUE
    BY Zenon DEF FindOf
  <2> HIDE DEF hits, same
  <2>5. QED
    BY <2>2, <2>3, <2>4
<1>3. QED
  BY <1>1, <1>2

\* The chain of k has k once at most.
OnceIn(tb, hm, k) == \A s, t \in ChainOf(tb, hm[k]) : tb[s].key = k /\ tb[t].key = k => s = t

LEMMA FindFacts ==
  ASSUME NEW tb, NEW hm \in [Keys -> SlotIds], NEW k \in Keys, Linked(tb), OnceIn(tb, hm, k)
  PROVE  /\ FindOf(tb, hm, k) = Nil <=> \A t \in ChainOf(tb, hm[k]) : tb[t].key # k
         /\ FindOf(tb, hm, k) # Nil =>
              /\ FindOf(tb, hm, k) \in ChainOf(tb, hm[k]) /\ tb[FindOf(tb, hm, k)].key = k
              /\ FindOf(tb, hm, k) \in SlotIds /\ UsedIn(tb, FindOf(tb, hm, k))
         /\ \A t \in ChainOf(tb, hm[k]) : tb[t].key = k => FindOf(tb, hm, k) = t
<1> DEFINE C == ChainOf(tb, hm[k])
           hits == {t \in C : tb[t].key = k}
<1>1. \A t \in C : t \in SlotIds /\ UsedIn(tb, t) /\ t # Nil
  <2>1. hm[k] \in SlotIds
    OBVIOUS
  <2>2. \A t \in C : t \in SlotIds /\ UsedIn(tb, t)
    BY <2>1, ChainFacts
  <2>3. \A t \in SlotIds : t # Nil
    BY KvAssumption DEF SlotIds, Nil
  <2>4. QED
    BY <2>2, <2>3
<1>2. FindOf(tb, hm, k) = IF hits = {} THEN Nil ELSE CHOOSE t \in hits : TRUE
  BY Zenon DEF FindOf
<1> HIDE DEF C
<1>3. \A s, t \in hits : s = t
  BY DEF OnceIn, C
<1>4. CASE hits = {}
  BY <1>2, <1>4 DEF C
<1>5. CASE hits # {}
  <2>1. FindOf(tb, hm, k) \in hits
    BY <1>2, <1>5
  <2>2. QED
    BY <2>1, <1>1, <1>3 DEF C
<1>6. QED
  BY <1>4, <1>5

\* Slots that go out of use leave the chains.
LEMMA ChainShrinks ==
  ASSUME NEW tb, NEW nb, Linked(tb), Linked(nb), NEW s \in SlotIds,
         \A t \in SlotIds : UsedIn(nb, t) => UsedIn(tb, t) /\ nb[t].next = tb[t].next
  PROVE  ChainOf(nb, s) \subseteq ChainOf(tb, s)
<1> DEFINE X == ChainOf(tb, s)
<1>1. (UsedIn(tb, s) => s \in X) /\ Closed(tb, X) /\ \A t \in X : t \in SlotIds /\ UsedIn(tb, t)
  BY ChainFacts
<1>2. \A t : UsedIn(nb, t) => UsedIn(tb, t) /\ nb[t].next = tb[t].next
  BY DEF UsedIn
<1> HIDE DEF X
<1>3. Closed(nb, X)
  BY <1>1, <1>2 DEF Closed
<1>4. UsedIn(nb, s) => s \in X
  BY <1>1, <1>2
<1>5. ChainOf(nb, s) \subseteq X
  BY <1>3, <1>4, ChainFacts
<1>6. QED
  BY <1>5 DEF X

\* A slot that comes into use, whose link leads nowhere, and to which only links are turned
\* that led nowhere, is all that a chain gets.
Filled(tb, nb, slot) ==
  /\ slot \in SlotIds /\ ~UsedIn(tb, slot) /\ UsedIn(nb, slot) /\ ~UsedIn(nb, nb[slot].next)
  /\ \A t \in SlotIds \ {slot} :
       /\ UsedIn(nb, t) <=> UsedIn(tb, t)
       /\ nb[t].next # tb[t].next => nb[t].next = slot /\ ~UsedIn(tb, tb[t].next)

LEMMA ChainGrows ==
  ASSUME NEW tb, NEW nb, Linked(tb), Linked(nb), NEW s \in SlotIds, NEW slot, Filled(tb, nb, slot)
  PROVE  /\ ChainOf(tb, s) \subseteq ChainOf(nb, s)
         /\ ChainOf(nb, s) \subseteq ChainOf(tb, s) \cup {slot}
<1> DEFINE X == ChainOf(nb, s)
           Y == ChainOf(tb, s) \cup {slot}
<1>1. (UsedIn(nb, s) => s \in X) /\ Closed(nb, X) /\ \A t \in X : t \in SlotIds /\ UsedIn(nb, t)
  BY ChainFacts
<1>2. /\ UsedIn(tb, s) => s \in ChainOf(tb, s)
      /\ Closed(tb, ChainOf(tb, s)) /\ \A t \in ChainOf(tb, s) : t \in SlotIds /\ UsedIn(tb, t)
  BY ChainFacts
<1>3. \A t : UsedIn(tb, t) => UsedIn(nb, t) /\ t # slot
  BY DEF Filled, UsedIn
<1>4. \A t : UsedIn(nb, t) => UsedIn(tb, t) \/ t = slot
  BY DEF Filled, UsedIn
<1> HIDE DEF X
<1>5. ChainOf(tb, s) \subseteq X
  <2>1. Closed(tb, X)
    <3>1. SUFFICES ASSUME NEW t \in X, UsedIn(tb, t), UsedIn(tb, tb[t].next) PROVE tb[t].next \in X
      BY DEF Closed
    <3>2. t \in SlotIds \ {slot}
      BY <3>1, <1>1, <1>3
    <3>3. nb[t].next = tb[t].next
      BY <3>1, <3>2 DEF Filled
    <3>4. UsedIn(nb, t) /\ UsedIn(nb, nb[t].next)
      BY <3>1, <3>3, <1>3
    <3>5. QED
      BY <3>1, <3>3, <3>4, <1>1 DEF Closed
  <2>2. UsedIn(tb, s) => s \in X
    BY <1>1, <1>3
  <2>3. QED
    BY <2>1, <2>2, ChainFacts
<1>6. ChainOf(nb, s) \subseteq Y
  <2>1. Closed(nb, Y)
    <3>1. SUFFICES ASSUME NEW t \in Y, UsedIn(nb, t), UsedIn(nb, nb[t].next) PROVE nb[t].next \in Y
      BY DEF Closed
    <3>2. t # slot
      BY <3>1 DEF Filled
    <3>3. t \in ChainOf(tb, s) /\ t \in SlotIds \ {slot} /\ UsedIn(tb, t)
      BY <3>1, <3>2, <1>2
    <3>4. CASE nb[t].next = tb[t].next /\ nb[t].next # slot
      <4>1. UsedIn(tb, tb[t].next)
        BY <3>1, <3>4, <1>4
      <4>2. QED
        BY <3>3, <3>4, <4>1, <1>2 DEF Closed
    <3>5. CASE nb[t].next = slot
      BY <3>5
    <3>6. QED
      BY <3>3, <3>4, <3>5 DEF Filled
  <2>2. UsedIn(nb, s) => s \in Y
    BY <1>2, <1>4
  <2> HIDE DEF Y
  <2>3. QED
    BY <2>1, <2>2, ChainFacts
<1>7. QED
  BY <1>5, <1>6 DEF X

-----------------------------------------------------------------------------
(* The invariant of the store.  Offsets are given out in order and never   *)
(* again, so they order the slots of a chain by when they were filled:     *)
(* links go up, so a chain ends, and its end links to a free slot.         *)

SlotEntry == [key : Keys \cup {NoKey}, off : Nil .. Storage - 1,
              len : {Nil} \cup 1 .. kconf.maxlen, next : Nil .. Slots - 1]

StoreType ==
  /\ kconf \in KvConfigs
  /\ home \in [Keys -> SlotIds]
  /\ table \in [SlotIds -> SlotEntry]
  /\ latest \in 0 .. Storage
  /\ mem \in [0 .. Storage - 1 -> Vals \cup {NoKey}]
  /\ cell \in [Keys -> 0 .. kconf.maxlen]

\* A slot that is free links to none; one in use has been given units.
SlotsWell ==
  \A s \in SlotIds :
    /\ table[s].off = Nil => table[s].next = Nil
    /\ table[s].off # Nil =>
         table[s].key \in Keys /\ table[s].len \in 1 .. kconf.maxlen /\ table[s].off < latest

\* Units are given out once, and a chain goes on to slots filled later.
SlotsInOrder ==
  /\ \A s, t \in SlotIds : table[s].off # Nil /\ table[s].off = table[t].off => s = t
  /\ \A s, t \in SlotIds : table[s].off # Nil /\ table[t].off # Nil /\ table[s].next = t =>
       table[s].off < table[t].off

KeysOnce == \A k \in Keys : OnceIn(table, home, k)

\* A value that is found has all the units it was given.
CellsHeld ==
  \A k \in Keys : \A s \in ChainOf(table, home[k]) : table[s].key = k =>
    /\ table[s].len <= cell[k]
    /\ table[s].off + cell[k] <= latest
    /\ \A t \in SlotIds : table[t].off > table[s].off => table[t].off >= table[s].off + cell[k]

\* Without deletes every slot in use is found.
AllFound ==
  ~kconf.deletes =>
    \A s \in SlotIds : table[s].off # Nil => s \in ChainOf(table, home[table[s].key])

StoreInv == StoreType /\ SlotsWell /\ SlotsInOrder /\ KeysOnce /\ CellsHeld /\ AllFound

LEMMA KvConstants ==
  /\ Slots \in Nat \ {0} /\ Storage \in Nat \ {0} /\ IterRoom \in Nat \ {0}
  /\ \A k \in KvConfigs : k.maxlen \in Nat \ {0} /\ k.handles \in Nat /\ k.deletes \in BOOLEAN
                          /\ k.homes \subseteq [Keys -> SlotIds]
BY KvAssumption DEF KvConfig, SlotIds

LEMMA TableLinked ==
  ASSUME StoreType
  PROVE  /\ Linked(table)
         /\ \A s \in SlotIds : table[s].off \in Int /\ table[s].next \in Int
         /\ \A s \in SlotIds : UsedIn(table, s) <=> table[s].off # Nil
         /\ \A s : Used(s) <=> UsedIn(table, s)
         /\ latest \in Int
BY KvConstants DEF StoreType, SlotEntry, Linked, UsedIn, Used, Nil

\* The chain from a slot in use has an end, whose link leads to no slot in use.
LEMMA EndIs ==
  ASSUME StoreInv, NEW h \in SlotIds, Used(h)
  PROVE  /\ \E t \in Chain(h) : table[t].next \notin Chain(h)
         /\ ChainEnd(h) \in Chain(h) /\ ChainEnd(h) \in SlotIds
         /\ Used(ChainEnd(h)) /\ ~Used(table[ChainEnd(h)].next)
<1> DEFINE C == ChainOf(table, h)
           A == {latest - table[t].off : t \in C}
<1>1. Linked(table) /\ Chain(h) = C
  BY TableLinked, ChainIs DEF StoreInv
<1>2. h \in C /\ Closed(table, C) /\ \A t \in C : t \in SlotIds /\ UsedIn(table, t)
  BY <1>1, ChainFacts, TableLinked DEF StoreInv
<1> HIDE DEF C
<1>3. \A t \in C : latest - table[t].off \in Nat /\ table[t].off \in Int /\ latest \in Int
  BY <1>2, TableLinked DEF StoreInv, SlotsWell
<1>4. A \in SUBSET Nat /\ A # {}
  BY <1>2, <1>3
<1>5. PICK x \in A : \A y \in A : x <= y
  <2> HIDE DEF A
  <2>1. QED
    BY <1>4, LeastNumber
<1>6. PICK t \in C : x = latest - table[t].off
  OBVIOUS
<1>7. table[t].next \notin C
  <2>1. SUFFICES ASSUME table[t].next \in C PROVE FALSE
    OBVIOUS
  <2> DEFINE u == table[t].next
  <2>2. table[t].off < table[u].off
    BY <2>1, <1>2, TableLinked DEF StoreInv, SlotsInOrder
  <2>3. latest - table[u].off \in A
    BY <2>1
  <2>4. x <= latest - table[u].off
    BY <2>3, <1>5
  <2>5. u \in C /\ t \in C
    BY <2>1
  <2> HIDE DEF u
  <2>6. QED
    BY <2>2, <2>4, <2>5, <1>3, <1>6
<1>8. \E e \in C : table[e].next \notin C
  BY <1>7
<1>9. ChainEnd(h) \in C /\ table[ChainEnd(h)].next \notin C
  BY <1>1, <1>8 DEF ChainEnd
<1>10. ~UsedIn(table, table[ChainEnd(h)].next)
  BY <1>2, <1>9 DEF Closed
<1>11. QED
  BY <1>1, <1>2, <1>8, <1>9, <1>10, TableLinked DEF StoreInv

\* With a slot free the search behind a slot in use finds one.
LEMMA FreeBehindIs ==
  ASSUME StoreInv, NEW t \in SlotIds, Used(t), TableHasRoom
  PROVE  FreeBehind(t) \in SlotIds /\ ~Used(FreeBehind(t))
<1> DEFINE free == {d \in 1 .. Slots - 1 : ~Used((t + d) % Slots)}
<1>1. Slots \in Nat \ {0} /\ t \in 0 .. Slots - 1
  BY KvConstants DEF SlotIds
<1>2. PICK u \in SlotIds : ~Used(u)
  BY DEF TableHasRoom
<1>3. free # {}
  <2> DEFINE d == IF u > t THEN u - t ELSE u - t + Slots
  <2>1. u # t /\ u \in 0 .. Slots - 1
    BY <1>2 DEF SlotIds
  <2>2. d \in 1 .. Slots - 1 /\ d \in 0 .. Slots - 1
    BY <1>1, <2>1
  <2>3. (t + d) % Slots = IF t + d < Slots THEN t + d ELSE t + d - Slots
    <3> HIDE DEF d
    <3>1. QED
      BY <1>1, <2>2, ModStep
  <2>4. (IF t + d < Slots THEN t + d ELSE t + d - Slots) = u
    BY <1>1, <2>1
  <2>5. (t + d) % Slots = u
    BY <2>3, <2>4, Zenon
  <2>6. d \in free
    <3> HIDE DEF d
    <3>1. QED
      BY <2>2, <2>5, <1>2
  <2>7. QED
    BY <2>6
<1>4. Min(free) \in free
  <2>1. free \in SUBSET Nat
    BY <1>1
  <2> HIDE DEF free
  <2>2. \E x \in free : \A y \in free : x <= y
    BY <1>3, <2>1, LeastNumber
  <2>3. QED
    BY <2>2 DEF Min
<1>5. FreeBehind(t) = (t + Min(free)) % Slots
  BY Zenon DEF FreeBehind
<1>6. ~Used((t + Min(free)) % Slots) /\ Min(free) \in Int
  <2> DEFINE m == Min(free)
  <2>1. m \in free
    BY <1>4
  <2> HIDE DEF m
  <2>2. ~Used((t + m) % Slots) /\ m \in Int
    BY <2>1, <1>1
  <2>3. QED
    BY <2>2 DEF m
<1>7. (t + Min(free)) % Slots \in 0 .. Slots - 1
  <2> DEFINE m == Min(free)
  <2>1. m \in Int
    BY <1>6
  <2> HIDE DEF m
  <2>2. t + m \in Int
    BY <1>1, <2>1
  <2>3. (t + m) % Slots \in 0 .. Slots - 1
    BY <1>1, <2>2, ModRange
  <2>4. QED
    BY <2>3 DEF m
<1>8. QED
  BY <1>5, <1>6, <1>7 DEF SlotIds

\* What a new entry does to the table.
EntryMade(nb, slot, k, off, len) ==
  /\ nb \in [SlotIds -> SlotEntry]
  /\ Filled(table, nb, slot)
  /\ nb[slot] = [key |-> k, off |-> off, len |-> len, next |-> Nil]
  /\ \A t \in SlotIds \ {slot} :
       /\ nb[t].key = table[t].key /\ nb[t].off = table[t].off /\ nb[t].len = table[t].len
       /\ nb[t].next = table[t].next \/ (nb[t].next = slot /\ table[t].off # Nil)
  /\ slot \in ChainOf(nb, home[k])

LEMMA InsertedIs ==
  ASSUME StoreInv, TableHasRoom, NEW k \in Keys, NEW off \in 0 .. Storage - 1,
         NEW len \in 1 .. kconf.maxlen
  PROVE  \E slot \in SlotIds : EntryMade(Inserted(k, off, len), slot, k, off, len)
<1> DEFINE h == home[k]
           e == ChainEnd(h)
           slot == IF Used(h) THEN FreeBehind(e) ELSE h
           filled == [table EXCEPT ![slot].key = k, ![slot].off = off, ![slot].len = len]
           nb == IF Used(h) THEN [filled EXCEPT ![e].next = slot] ELSE filled
<1>1. Inserted(k, off, len) = nb
  BY DEF Inserted
<1>2. /\ Linked(table)
      /\ \A s \in SlotIds : table[s].off \in Int /\ table[s].next \in Int
      /\ \A s \in SlotIds : UsedIn(table, s) <=> table[s].off # Nil
      /\ \A s : Used(s) <=> UsedIn(table, s)
  BY TableLinked DEF StoreInv
<1>3. /\ Slots \in Nat \ {0} /\ h \in SlotIds /\ Nil \notin SlotIds /\ off # Nil
      /\ table \in [SlotIds -> SlotEntry] /\ SlotIds \subseteq Nil .. Slots - 1
  BY KvConstants DEF StoreInv, StoreType, SlotIds, Nil
<1>4. Used(h) => /\ e \in SlotIds /\ Used(e) /\ ~Used(table[e].next) /\ e \in ChainOf(table, h)
                 /\ slot # e
  <2>1. SUFFICES ASSUME Used(h) PROVE /\ e \in SlotIds /\ Used(e) /\ ~Used(table[e].next)
                                      /\ e \in ChainOf(table, h) /\ slot # e
    OBVIOUS
  <2>2. e \in Chain(h) /\ e \in SlotIds /\ Used(e) /\ ~Used(table[e].next)
    BY <1>3, <2>1, EndIs
  <2>3. Chain(h) = ChainOf(table, h)
    BY ChainIs
  <2>4. ~Used(FreeBehind(e))
    BY <2>1, <2>2, FreeBehindIs
  <2> HIDE DEF e, h
  <2>5. QED
    BY <2>1, <2>2, <2>3, <2>4
<1>5. slot \in SlotIds /\ ~Used(slot)
  <2>1. Used(h) => FreeBehind(e) \in SlotIds /\ ~Used(FreeBehind(e))
    BY <1>4, FreeBehindIs
  <2> HIDE DEF e, h
  <2>2. QED
    BY <2>1, <1>3
<1> HIDE DEF e, h, slot
<1>6. table[slot].off = Nil /\ table[slot].next = Nil
  BY <1>2, <1>5 DEF StoreInv, SlotsWell
<1>7. filled \in [SlotIds -> SlotEntry]
  <2>1. off \in Nil .. Storage - 1
    BY KvConstants DEF Nil
  <2>2. table[slot] \in SlotEntry
    BY <1>3, <1>5
  <2> DEFINE new == [table[slot] EXCEPT !.key = k, !.off = off, !.len = len]
  <2>3. new \in SlotEntry
    BY <2>1, <2>2 DEF SlotEntry
  <2>4. filled = [table EXCEPT ![slot] = new]
    BY <1>3, <1>5, <2>2 DEF SlotEntry
  <2> HIDE DEF new, filled
  <2>5. QED
    BY <2>3, <2>4, <1>3
<1>8. nb \in [SlotIds -> SlotEntry]
  <2> HIDE DEF filled
  <2>1. QED
    BY <1>3, <1>4, <1>5, <1>7 DEF SlotEntry
<1>9. /\ filled[slot].key = k /\ filled[slot].off = off /\ filled[slot].len = len /\ filled[slot].next = Nil
      /\ \A t \in SlotIds \ {slot} : filled[t] = table[t]
  BY <1>3, <1>5, <1>6 DEF SlotEntry
<1>10. \A t \in SlotIds : /\ nb[t].key = filled[t].key /\ nb[t].off = filled[t].off /\ nb[t].len = filled[t].len
                          /\ nb[t].next = IF Used(h) /\ t = e THEN slot ELSE filled[t].next
  <2> HIDE DEF filled
  <2>1. QED
    BY <1>3, <1>4, <1>5, <1>7 DEF SlotEntry
<1> HIDE DEF filled, nb
<1>11. nb[slot] = [key |-> k, off |-> off, len |-> len, next |-> Nil]
  <2>1. nb[slot].key = k /\ nb[slot].off = off /\ nb[slot].len = len /\ nb[slot].next = Nil
    BY <1>4, <1>5, <1>9, <1>10
  <2>2. nb[slot] \in SlotEntry
    BY <1>5, <1>8
  <2>3. QED
    BY <2>1, <2>2 DEF SlotEntry
<1>12. \A t \in SlotIds \ {slot} :
          /\ nb[t].key = table[t].key /\ nb[t].off = table[t].off /\ nb[t].len = table[t].len
          /\ nb[t].next = IF Used(h) /\ t = e THEN slot ELSE table[t].next
  BY <1>9, <1>10
<1>13. \A t \in SlotIds \ {slot} : nb[t].next # table[t].next => nb[t].next = slot /\ ~UsedIn(table, table[t].next) /\ table[t].off # Nil
  BY <1>12, <1>4, <1>2
<1>14. Filled(table, nb, slot)
  BY <1>5, <1>2, <1>3, <1>11, <1>12, <1>13 DEF Filled, UsedIn
<1>15. Linked(nb)
  BY <1>8, KvConstants DEF Linked, SlotEntry, Nil
<1>16. slot \in ChainOf(nb, h)
  <2>1. /\ UsedIn(nb, h) => h \in ChainOf(nb, h)
        /\ Closed(nb, ChainOf(nb, h))
        /\ UsedIn(nb, slot)
    BY <1>3, <1>15, <1>14, ChainFacts DEF Filled
  <2>2. CASE ~Used(h)
    BY <2>1, <2>2 DEF slot
  <2>3. CASE Used(h)
    <3>1. e \in ChainOf(nb, h)
      BY <2>3, <1>4, <1>2, <1>3, <1>14, <1>15, ChainGrows
    <3>2. nb[e].next = slot /\ UsedIn(nb, e)
      <4>1. nb[e].off = table[e].off
        BY <2>3, <1>4, <1>12
      <4>2. QED
        BY <4>1, <2>3, <1>4, <1>12, <1>2 DEF UsedIn
    <3>3. QED
      BY <3>1, <3>2, <2>1 DEF Closed
  <2>4. QED
    BY <2>2, <2>3
<1>17. \A t \in SlotIds \ {slot} :
          /\ nb[t].key = table[t].key /\ nb[t].off = table[t].off /\ nb[t].len = table[t].len
          /\ nb[t].next = table[t].next \/ (nb[t].next = slot /\ table[t].off # Nil)
  BY <1>12, <1>13
<1>18. EntryMade(nb, slot, k, off, len)
  BY <1>8, <1>11, <1>14, <1>16, <1>17 DEF EntryMade, h
<1>19. QED
  BY <1>1, <1>5, <1>18

\* What is written lies in the storage or nowhere.
LEMMA WrittenTyped ==
  ASSUME StoreType, NEW off, NEW v \in Vals, NEW n
  PROVE  Written(off, v, n) \in [0 .. Storage - 1 -> Vals \cup {NoKey}]
BY DEF StoreType, Written

LEMMA InsertKeeps ==
  ASSUME StoreInv, NEW k \in Keys, NEW v \in Vals, NEW n \in 1 .. kconf.maxlen, Insert(k, v, n)
  PROVE  /\ StoreInv'
         /\ \E slot \in SlotIds :
              /\ EntryMade(table', slot, k, latest, n)
              /\ \A j \in Keys : \A s \in ChainOf(table', home[j]) : table'[s].key = j =>
                   \/ s = slot /\ j = k
                   \/ j # k /\ s # slot /\ s \in ChainOf(table, home[j]) /\ table[s].key = j /\ s \in SlotIds
<1>1. /\ Find(k) = Nil /\ TableHasRoom /\ latest + n <= Storage /\ latest' = latest + n
      /\ mem' = Written(latest, v, n) /\ table' = Inserted(k, latest, n)
      /\ cell' = [cell EXCEPT ![k] = n] /\ kconf' = kconf /\ home' = home
  BY DEF Insert, Allocate
<1>2. /\ Linked(table)
      /\ \A s \in SlotIds : table[s].off \in Int /\ table[s].next \in Int
      /\ \A s \in SlotIds : UsedIn(table, s) <=> table[s].off # Nil
      /\ latest \in Int
  BY TableLinked DEF StoreInv
<1>3. /\ StoreType /\ SlotsWell /\ SlotsInOrder /\ KeysOnce /\ CellsHeld /\ AllFound
      /\ kconf.maxlen \in Nat \ {0} /\ n \in Nat \ {0} /\ latest \in Nat /\ Storage \in Nat
      /\ home \in [Keys -> SlotIds] /\ cell \in [Keys -> 0 .. kconf.maxlen]
      /\ Nil \notin SlotIds /\ latest \in 0 .. Storage - 1 /\ latest # Nil
  BY <1>1, KvConstants DEF StoreInv, StoreType, SlotIds, Nil
<1>4. PICK slot \in SlotIds : EntryMade(table', slot, k, latest, n)
  <2>1. \E slot \in SlotIds : EntryMade(Inserted(k, latest, n), slot, k, latest, n)
    BY <1>1, <1>3, InsertedIs
  <2>2. QED
    BY <2>1, <1>1
<1>5. /\ table' \in [SlotIds -> SlotEntry]
      /\ Filled(table, table', slot)
      /\ table'[slot].key = k /\ table'[slot].off = latest /\ table'[slot].len = n /\ table'[slot].next = Nil
      /\ \A t \in SlotIds \ {slot} :
           /\ table'[t].key = table[t].key /\ table'[t].off = table[t].off /\ table'[t].len = table[t].len
           /\ table'[t].next = table[t].next \/ (table'[t].next = slot /\ table[t].off # Nil)
      /\ slot \in ChainOf(table', home[k])
  BY <1>4 DEF EntryMade
<1>6. Linked(table')
  BY <1>5, KvConstants DEF Linked, SlotEntry, Nil
<1>7. \A s \in SlotIds : /\ ChainOf(table, s) \subseteq ChainOf(table', s)
                         /\ ChainOf(table', s) \subseteq ChainOf(table, s) \cup {slot}
  BY <1>2, <1>5, <1>6, ChainGrows
<1>8. \A s \in SlotIds : \A t \in ChainOf(table, s) : t \in SlotIds /\ table[t].off # Nil /\ t # slot
  <2>1. table[slot].off = Nil
    BY <1>5, <1>2 DEF Filled
  <2>2. \A s \in SlotIds : \A t \in ChainOf(table, s) : t \in SlotIds /\ UsedIn(table, t)
    BY <1>2, ChainFacts
  <2>3. QED
    BY <2>1, <2>2, <1>2
<1>9. \A t \in SlotIds : table[t].off < latest
  BY <1>3, <1>2 DEF SlotsWell, Nil
<1>10. StoreType'
  <2>1. mem' \in [0 .. Storage - 1 -> Vals \cup {NoKey}]
    BY <1>1, <1>3, WrittenTyped
  <2>2. table' \in [SlotIds -> SlotEntry']
    BY <1>5, <1>1 DEF SlotEntry
  <2>3. latest' \in 0 .. Storage
    BY <1>1, <1>3
  <2>4. cell' \in [Keys -> 0 .. kconf.maxlen]
    BY <1>1, <1>3
  <2>5. QED
    BY <2>1, <2>2, <2>3, <2>4, <1>1, <1>3 DEF StoreType
<1>11. SlotsWell'
  <2>1. SUFFICES ASSUME NEW s \in SlotIds
                 PROVE  /\ table'[s].off = Nil => table'[s].next = Nil
                        /\ table'[s].off # Nil => table'[s].key \in Keys /\ table'[s].len \in 1 .. kconf.maxlen
                                                  /\ table'[s].off < latest'
    BY <1>1 DEF SlotsWell
  <2>2. CASE s = slot
    BY <2>2, <1>1, <1>3, <1>5
  <2>3. CASE s # slot
    BY <2>3, <1>1, <1>2, <1>3, <1>5 DEF SlotsWell
  <2>4. QED
    BY <2>2, <2>3
<1>12. SlotsInOrder'
  <2>1. ASSUME NEW s \in SlotIds, NEW t \in SlotIds, table'[s].off # Nil, table'[s].off = table'[t].off
        PROVE  s = t
    <3>1. CASE s = slot \/ t = slot
      <4>1. \A u \in SlotIds \ {slot} : table'[u].off < latest /\ table'[u].off \in Int
        BY <1>9, <1>5, <1>2
      <4>2. QED
        BY <3>1, <2>1, <4>1, <1>5, <1>2
    <3>2. CASE s # slot /\ t # slot
      BY <3>2, <2>1, <1>5, <1>3 DEF SlotsInOrder
    <3>3. QED
      BY <3>1, <3>2
  <2>2. ASSUME NEW s \in SlotIds, NEW t \in SlotIds, table'[s].off # Nil, table'[t].off # Nil,
               table'[s].next = t
        PROVE  table'[s].off < table'[t].off
    <3>1. s # slot
      BY <2>2, <1>5, <1>3
    <3>2. CASE t = slot
      BY <3>2, <3>1, <1>5, <1>9
    <3>3. CASE t # slot
      <4>1. table[s].next = t
        BY <3>1, <3>3, <2>2, <1>5
      <4>2. QED
        BY <4>1, <3>1, <3>3, <2>2, <1>5, <1>3 DEF SlotsInOrder
    <3>4. QED
      BY <3>2, <3>3
  <2>3. QED
    BY <2>1, <2>2 DEF SlotsInOrder
<1>13. \A t \in ChainOf(table, home[k]) : table[t].key # k
  <2>1. FindOf(table, home, k) = Nil
    BY <1>1, FindIs
  <2>2. OnceIn(table, home, k)
    BY <1>3 DEF KeysOnce
  <2>3. QED
    BY <2>1, <2>2, <1>2, <1>3, FindFacts
<1>14. \A j \in Keys : \A s \in ChainOf(table', home[j]) : table'[s].key = j =>
         \/ s = slot /\ j = k
         \/ j # k /\ s # slot /\ s \in ChainOf(table, home[j]) /\ table[s].key = j /\ s \in SlotIds
  <2>1. SUFFICES ASSUME NEW j \in Keys, NEW s \in ChainOf(table', home[j]), table'[s].key = j
                 PROVE  \/ s = slot /\ j = k
                        \/ j # k /\ s # slot /\ s \in ChainOf(table, home[j]) /\ table[s].key = j /\ s \in SlotIds
    OBVIOUS
  <2>2. home[j] \in SlotIds
    BY <1>3
  <2>3. s = slot \/ s \in ChainOf(table, home[j])
    BY <1>7, <2>2
  <2>4. CASE s = slot
    BY <2>4, <2>1, <1>5
  <2>5. CASE s # slot
    <3>1. s \in ChainOf(table, home[j]) /\ s \in SlotIds
      BY <2>3, <2>5, <2>2, <1>8
    <3>2. table[s].key = j
      BY <3>1, <2>5, <2>1, <1>5
    <3>3. QED
      BY <3>1, <3>2, <2>5, <1>13
  <2>6. QED
    BY <2>4, <2>5
<1>15. KeysOnce'
  <2>1. SUFFICES ASSUME NEW j \in Keys, NEW s \in ChainOf(table', home[j]), NEW t \in ChainOf(table', home[j]),
                        table'[s].key = j, table'[t].key = j
                 PROVE  s = t
    BY <1>1 DEF KeysOnce, OnceIn
  <2>2. CASE j = k
    BY <2>2, <2>1, <1>14
  <2>3. CASE j # k
    BY <2>3, <2>1, <1>14, <1>3 DEF KeysOnce, OnceIn
  <2>4. QED
    BY <2>2, <2>3
<1>16. CellsHeld'
  <2>1. SUFFICES ASSUME NEW j \in Keys, NEW s \in ChainOf(table', home[j]), table'[s].key = j
                 PROVE  /\ table'[s].len <= cell'[j]
                        /\ table'[s].off + cell'[j] <= latest'
                        /\ \A t \in SlotIds : table'[t].off > table'[s].off => table'[t].off >= table'[s].off + cell'[j]
    BY <1>1 DEF CellsHeld
  <2>2. CASE s = slot /\ j = k
    <3>1. cell'[j] = n
      BY <2>2, <1>1, <1>3
    <3>2. \A t \in SlotIds : ~(table'[t].off > latest)
      BY <1>5, <1>9, <1>2
    <3>3. QED
      BY <3>1, <3>2, <2>2, <1>5, <1>1, <1>3
  <2>3. CASE j # k /\ s # slot /\ s \in ChainOf(table, home[j]) /\ table[s].key = j /\ s \in SlotIds
    <3>1. cell'[j] = cell[j] /\ cell[j] \in Nat
      BY <2>3, <1>1, <1>3
    <3>2. table'[s].len = table[s].len /\ table'[s].off = table[s].off /\ table[s].off \in Int
      BY <2>3, <1>5, <1>2
    <3>3. /\ table[s].len <= cell[j] /\ table[s].off + cell[j] <= latest
          /\ \A t \in SlotIds : table[t].off > table[s].off => table[t].off >= table[s].off + cell[j]
      BY <2>3, <1>3 DEF CellsHeld
    <3>4. \A t \in SlotIds : table'[t].off = table[t].off \/ (t = slot /\ table'[t].off = latest)
      BY <1>5
    <3>5. \A t \in SlotIds : table'[t].off > table[s].off => table'[t].off >= table[s].off + cell[j]
      BY <3>1, <3>2, <3>3, <3>4
    <3>6. table[s].off + cell[j] <= latest + n
      BY <3>1, <3>2, <3>3, <1>3
    <3>7. QED
      BY <3>1, <3>2, <3>3, <3>5, <3>6, <1>1
  <2>4. QED
    BY <2>1, <2>2, <2>3, <1>14
<1>17. AllFound'
  <2>1. SUFFICES ASSUME ~kconf.deletes, NEW s \in SlotIds, table'[s].off # Nil
                 PROVE  s \in ChainOf(table', home[table'[s].key])
    BY <1>1 DEF AllFound
  <2>2. CASE s = slot
    BY <2>2, <1>5
  <2>3. CASE s # slot
    <3>1. table[s].off # Nil /\ table'[s].key = table[s].key
      BY <2>1, <2>3, <1>5
    <3>2. s \in ChainOf(table, home[table[s].key]) /\ home[table[s].key] \in SlotIds
      BY <3>1, <2>1, <1>3 DEF AllFound, SlotsWell
    <3>3. QED
      BY <3>1, <3>2, <1>7
  <2>4. QED
    BY <2>2, <2>3
<1>18. QED
  BY <1>4, <1>14, <1>10, <1>11, <1>12, <1>15, <1>16, <1>17 DEF StoreInv

LEMMA FoundAt ==
  ASSUME StoreInv, NEW k \in Keys, Find(k) # Nil
  PROVE  /\ Find(k) \in SlotIds /\ Find(k) \in ChainOf(table, home[k])
         /\ table[Find(k)].key = k /\ table[Find(k)].off # Nil
         /\ \A t \in ChainOf(table, home[k]) : table[t].key = k => t = Find(k)
<1>1. Find(k) = FindOf(table, home, k)
  BY FindIs
<1>2. Linked(table) /\ \A s \in SlotIds : UsedIn(table, s) <=> table[s].off # Nil
  BY TableLinked DEF StoreInv
<1>3. OnceIn(table, home, k) /\ home \in [Keys -> SlotIds]
  BY DEF StoreInv, KeysOnce, StoreType
<1>4. QED
  BY <1>1, <1>2, <1>3, FindFacts

LEMMA UpdateKeeps ==
  ASSUME StoreInv, NEW k \in Keys, NEW v \in Vals, NEW n \in 1 .. kconf.maxlen,
         Update(k, v, n) \/ BatchUpdate(k, v, n)
  PROVE  /\ StoreInv'
         /\ \A s \in SlotIds : ChainOf(table', s) = ChainOf(table, s)
         /\ \A s \in SlotIds : /\ table'[s].key = table[s].key /\ table'[s].off = table[s].off
                               /\ table'[s].len = IF s = Find(k) /\ Update(k, v, n) THEN n ELSE table[s].len
<1> DEFINE x == Find(k)
<1>1. /\ x # Nil /\ n <= cell[k] /\ mem' = Written(table[x].off, v, n)
      /\ \/ Update(k, v, n) /\ table' = [table EXCEPT ![x].len = n]
         \/ ~Update(k, v, n) /\ table' = table
      /\ latest' = latest /\ cell' = cell /\ kconf' = kconf /\ home' = home
  <2>1. CASE Update(k, v, n)
    BY <2>1 DEF Update
  <2>2. CASE BatchUpdate(k, v, n) /\ ~Update(k, v, n)
    BY <2>2 DEF BatchUpdate
  <2>3. QED
    BY <2>1, <2>2
<1>2. /\ Linked(table)
      /\ \A s \in SlotIds : table[s].off \in Int /\ table[s].next \in Int
      /\ \A s \in SlotIds : UsedIn(table, s) <=> table[s].off # Nil
  BY TableLinked DEF StoreInv
<1>3. /\ StoreType /\ SlotsWell /\ SlotsInOrder /\ KeysOnce /\ CellsHeld /\ AllFound
      /\ n \in Nat \ {0} /\ home \in [Keys -> SlotIds] /\ table \in [SlotIds -> SlotEntry]
      /\ kconf.maxlen \in Nat
  BY KvConstants DEF StoreInv, StoreType
<1>4. x \in SlotIds /\ x \in ChainOf(table, home[k]) /\ table[x].key = k /\ table[x].off # Nil
  BY <1>1, FoundAt
<1> HIDE DEF x
<1>5. \A s \in SlotIds : /\ table'[s].key = table[s].key /\ table'[s].off = table[s].off
                         /\ table'[s].next = table[s].next
                         /\ table'[s].len = IF s = x /\ Update(k, v, n) THEN n ELSE table[s].len
  BY <1>1, <1>3, <1>4 DEF SlotEntry
<1>6. table' \in [SlotIds -> SlotEntry]
  BY <1>1, <1>3, <1>4 DEF SlotEntry
<1>7. \A s \in SlotIds : ChainOf(table', s) = ChainOf(table, s)
  <2>1. Linked(table')
    BY <1>5, <1>2 DEF Linked
  <2>2. \A s \in SlotIds : UsedIn(table', s) <=> UsedIn(table, s)
    BY <1>5 DEF UsedIn
  <2>3. \A s \in SlotIds : ChainOf(table', s) \subseteq ChainOf(table, s) /\ ChainOf(table, s) \subseteq ChainOf(table', s)
    BY <2>1, <2>2, <1>2, <1>5, ChainShrinks
  <2>4. QED
    BY <2>3
<1>8. \A j \in Keys : home[j] \in SlotIds /\ \A s \in ChainOf(table, home[j]) : s \in SlotIds
  BY <1>2, <1>3, ChainFacts
<1>9. StoreType'
  <2>1. mem' \in [0 .. Storage - 1 -> Vals \cup {NoKey}]
    BY <1>1, <1>3, WrittenTyped
  <2>2. table' \in [SlotIds -> SlotEntry']
    BY <1>6, <1>1 DEF SlotEntry
  <2>3. QED
    BY <2>1, <2>2, <1>1, <1>3 DEF StoreType
<1>10. SlotsWell'
  <2>1. \A s \in SlotIds : table'[s].len = table[s].len \/ table'[s].len = n
    BY <1>5
  <2>2. QED
    BY <2>1, <1>1, <1>3, <1>5 DEF SlotsWell
<1>11. SlotsInOrder'
  BY <1>3, <1>5 DEF SlotsInOrder
<1>12. KeysOnce'
  BY <1>1, <1>3, <1>5, <1>7, <1>8 DEF KeysOnce, OnceIn
<1>13. CellsHeld'
  <2>1. SUFFICES ASSUME NEW j \in Keys, NEW s \in ChainOf(table', home[j]), table'[s].key = j
                 PROVE  /\ table'[s].len <= cell[j]
                        /\ table'[s].off + cell[j] <= latest
                        /\ \A t \in SlotIds : table'[t].off > table'[s].off => table'[t].off >= table'[s].off + cell[j]
    BY <1>1 DEF CellsHeld
  <2>2. s \in SlotIds /\ s \in ChainOf(table, home[j]) /\ table[s].key = j
    BY <2>1, <1>5, <1>7, <1>8
  <2>3. /\ table[s].len <= cell[j] /\ table[s].off + cell[j] <= latest
        /\ \A t \in SlotIds : table[t].off > table[s].off => table[t].off >= table[s].off + cell[j]
    BY <2>2, <1>3 DEF CellsHeld
  <2>4. table'[s].len <= cell[j]
    BY <2>2, <2>3, <1>1, <1>4, <1>5
  <2>5. QED
    BY <2>2, <2>3, <2>4, <1>5
<1>14. AllFound'
  BY <1>1, <1>3, <1>5, <1>7, <1>8 DEF AllFound, SlotsWell
<1>15. StoreInv'
  BY <1>9, <1>10, <1>11, <1>12, <1>13, <1>14 DEF StoreInv
<1>16. QED
  BY <1>15, <1>7, <1>5 DEF x

LEMMA DeleteKeeps ==
  ASSUME StoreInv, NEW k \in Keys, Delete(k)
  PROVE  /\ StoreInv'
         /\ \A s \in SlotIds : ChainOf(table', s) \subseteq ChainOf(table, s)
<1> DEFINE x == Find(k)
<1>1. /\ x # Nil /\ table' = [table EXCEPT ![x] = EmptyEntry] /\ kconf.deletes
      /\ cell' = [cell EXCEPT ![k] = 0]
      /\ latest' = latest /\ mem' = mem /\ kconf' = kconf /\ home' = home
  BY DEF Delete, Gone
<1>2. /\ Linked(table)
      /\ \A s \in SlotIds : table[s].off \in Int /\ table[s].next \in Int
      /\ \A s \in SlotIds : UsedIn(table, s) <=> table[s].off # Nil
  BY TableLinked DEF StoreInv
<1>3. /\ StoreType /\ SlotsWell /\ SlotsInOrder /\ KeysOnce /\ CellsHeld /\ AllFound
      /\ home \in [Keys -> SlotIds] /\ table \in [SlotIds -> SlotEntry]
      /\ cell \in [Keys -> 0 .. kconf.maxlen] /\ kconf.maxlen \in Nat
  BY KvConstants DEF StoreInv, StoreType
<1>4. /\ x \in SlotIds /\ x \in ChainOf(table, home[k])
      /\ \A t \in ChainOf(table, home[k]) : table[t].key = k => t = x
  BY <1>1, FoundAt
<1> HIDE DEF x
<1>5. /\ table'[x].off = Nil /\ table'[x].next = Nil
      /\ \A s \in SlotIds \ {x} : table'[s] = table[s]
  BY <1>1, <1>3, <1>4 DEF EmptyEntry
<1>6. table' \in [SlotIds -> SlotEntry]
  <2>1. EmptyEntry \in SlotEntry
    BY KvConstants DEF EmptyEntry, SlotEntry, Nil
  <2>2. QED
    BY <2>1, <1>1, <1>3
<1>7. \A s \in SlotIds : ChainOf(table', s) \subseteq ChainOf(table, s)
  <2>1. Linked(table')
    BY <1>5, <1>2 DEF Linked, Nil
  <2>2. \A s \in SlotIds : UsedIn(table', s) => UsedIn(table, s) /\ s # x
    BY <1>5 DEF UsedIn
  <2>3. QED
    BY <2>1, <2>2, <1>2, <1>5, ChainShrinks
<1>8. \A j \in Keys : /\ home[j] \in SlotIds
                      /\ \A s \in ChainOf(table', home[j]) : s \in SlotIds \ {x} /\ s \in ChainOf(table, home[j])
  <2>1. SUFFICES ASSUME NEW j \in Keys
                 PROVE  /\ home[j] \in SlotIds
                        /\ \A s \in ChainOf(table', home[j]) : s \in SlotIds \ {x} /\ s \in ChainOf(table, home[j])
    OBVIOUS
  <2>2. home[j] \in SlotIds
    BY <1>3
  <2>3. Linked(table')
    BY <1>5, <1>2 DEF Linked, Nil
  <2>4. \A s \in ChainOf(table', home[j]) : s \in SlotIds /\ UsedIn(table', s)
    BY <2>2, <2>3, ChainFacts
  <2>5. ~UsedIn(table', x)
    BY <1>5 DEF UsedIn
  <2>6. QED
    BY <2>2, <2>4, <2>5, <1>7
<1>9. StoreType'
  <2>1. table' \in [SlotIds -> SlotEntry']
    BY <1>6, <1>1 DEF SlotEntry
  <2>2. cell' \in [Keys -> 0 .. kconf.maxlen]
    BY <1>1, <1>3
  <2>3. QED
    BY <2>1, <2>2, <1>1, <1>3 DEF StoreType
<1>10. SlotsWell'
  BY <1>1, <1>3, <1>5 DEF SlotsWell
<1>11. SlotsInOrder'
  <2>1. \A s \in SlotIds : table'[s].off # Nil => s # x
    BY <1>5
  <2>2. QED
    BY <2>1, <1>3, <1>5 DEF SlotsInOrder
<1>12. KeysOnce'
  BY <1>1, <1>3, <1>5, <1>8 DEF KeysOnce, OnceIn
<1>13. CellsHeld'
  <2>1. SUFFICES ASSUME NEW j \in Keys, NEW s \in ChainOf(table', home[j]), table'[s].key = j
                 PROVE  /\ table'[s].len <= cell'[j]
                        /\ table'[s].off + cell'[j] <= latest
                        /\ \A t \in SlotIds : table'[t].off > table'[s].off => table'[t].off >= table'[s].off + cell'[j]
    BY <1>1 DEF CellsHeld
  <2>2. s \in SlotIds \ {x} /\ s \in ChainOf(table, home[j]) /\ table[s].key = j /\ table'[s] = table[s]
    BY <2>1, <1>5, <1>8
  <2>3. j # k /\ cell'[j] = cell[j]
    <3>1. j # k
      BY <2>2, <1>4
    <3>2. QED
      BY <3>1, <1>1, <1>3
  <2>4. /\ table[s].len <= cell[j] /\ table[s].off + cell[j] <= latest
        /\ \A t \in SlotIds : table[t].off > table[s].off => table[t].off >= table[s].off + cell[j]
    BY <2>2, <1>3 DEF CellsHeld
  <2>5. \A t \in SlotIds : table'[t].off > table[s].off => table'[t].off = table[t].off
    <3>1. table[s].off \in Int /\ table[s].off # Nil
      <4>1. table[s].off # Nil
        BY <2>2, <1>2, <1>3, ChainFacts
      <4>2. QED
        BY <4>1, <2>2, <1>2
    <3>2. table[s].off >= Nil
      BY <2>2, <1>3 DEF SlotEntry, Nil
    <3>3. QED
      BY <3>1, <3>2, <1>5 DEF Nil
  <2>6. QED
    BY <2>2, <2>3, <2>4, <2>5
<1>14. AllFound'
  BY <1>1 DEF AllFound
<1>15. QED
  BY <1>7, <1>9, <1>10, <1>11, <1>12, <1>13, <1>14 DEF StoreInv

-----------------------------------------------------------------------------
(* The iterators.                                                          *)

IterTyped == iter \in [1 .. kconf.handles -> Iterator]

\* An open iterator has listed those of its keys whose slots its cursor has passed, unless keys
\* are deleted.
IterWell(tb, hm, it) ==
  it.open =>
    /\ it.owed \subseteq Keys /\ it.pos \in 0 .. Slots
    /\ \A k \in it.owed : FindOf(tb, hm, k) # Nil
    /\ it.listed = {k \in it.owed : FindOf(tb, hm, k) < it.pos}
    /\ ~it.twice
    /\ it.end => it.pos = Slots

IterInv == IterTyped /\ (~kconf.deletes => \A h \in 1 .. kconf.handles : IterWell(table, home, iter[h]))

KvInv == StoreInv /\ IterInv

LEMMA FoundIn ==
  ASSUME StoreInv, NEW k \in Keys, FindOf(table, home, k) # Nil
  PROVE  /\ FindOf(table, home, k) \in SlotIds /\ FindOf(table, home, k) \in ChainOf(table, home[k])
         /\ table[FindOf(table, home, k)].key = k /\ table[FindOf(table, home, k)].off # Nil
BY FoundAt, FindIs

\* Without deletes a slot in use is where its key is found.
LEMMA SlotFound ==
  ASSUME StoreInv, ~kconf.deletes, NEW s \in SlotIds, table[s].off # Nil
  PROVE  table[s].key \in Keys /\ FindOf(table, home, table[s].key) = s
<1>1. table[s].key \in Keys /\ s \in ChainOf(table, home[table[s].key])
  BY DEF StoreInv, AllFound, SlotsWell
<1>2. Linked(table) /\ home \in [Keys -> SlotIds] /\ OnceIn(table, home, table[s].key)
  BY <1>1, TableLinked DEF StoreInv, StoreType, KeysOnce
<1>3. QED
  BY <1>1, <1>2, FindFacts

\* Stores leave a key where it is found, as long as it stays on its chain.
LEMMA StaysFound ==
  ASSUME StoreInv, StoreInv', home' = home, NEW k \in Keys, FindOf(table, home, k) # Nil,
         \A s \in SlotIds : ChainOf(table, s) \subseteq ChainOf(table', s),
         \A s \in SlotIds : table[s].off # Nil => table'[s].key = table[s].key
  PROVE  FindOf(table', home', k) = FindOf(table, home, k)
<1> DEFINE x == FindOf(table, home, k)
<1>1. x \in SlotIds /\ x \in ChainOf(table, home[k]) /\ table[x].key = k /\ table[x].off # Nil
  BY FoundIn
<1> HIDE DEF x
<1>2. home \in [Keys -> SlotIds] /\ home' \in [Keys -> SlotIds]
  BY DEF StoreInv, StoreType
<1>3. x \in ChainOf(table', home'[k]) /\ table'[x].key = k
  BY <1>1, <1>2
<1>4. OnceIn(table', home', k)
  BY DEF StoreInv, KeysOnce
<1>5. Linked(table')
  <2>1. StoreType'
    BY DEF StoreInv
  <2>2. table' \in [SlotIds -> SlotEntry']
    BY <2>1 DEF StoreType
  <2>3. \A t \in SlotIds : table'[t].next \in Nil .. Slots - 1
    BY <2>2 DEF SlotEntry
  <2>4. QED
    BY <2>3, KvConstants DEF Linked, Nil
<1>6. FindOf(table', home', k) = x
  BY <1>2, <1>3, <1>4, <1>5, FindFacts
<1>7. QED
  BY <1>6 DEF x

\* Where the keys found stay found, iterators stay well.
LEMMA IterStays ==
  ASSUME StoreInv, IterInv, kconf' = kconf, iter' = iter,
         ~kconf.deletes => \A k \in Keys : FindOf(table, home, k) # Nil =>
                             FindOf(table', home', k) = FindOf(table, home, k)
  PROVE  IterInv'
<1>1. IterTyped'
  BY DEF IterInv, IterTyped
<1>2. ASSUME ~kconf.deletes, NEW h \in 1 .. kconf.handles PROVE IterWell(table', home', iter'[h])
  <2> DEFINE it == iter[h]
  <2>1. IterWell(table, home, it) /\ iter'[h] = it
    BY <1>2 DEF IterInv
  <2>2. SUFFICES ASSUME iter'[h].open
                 PROVE  /\ it.owed \subseteq Keys /\ it.pos \in 0 .. Slots
                        /\ \A k \in it.owed : FindOf(table', home', k) # Nil
                        /\ it.listed = {k \in it.owed : FindOf(table', home', k) < it.pos}
                        /\ ~it.twice
                        /\ it.end => it.pos = Slots
    BY <2>1 DEF IterWell
  <2>3. it.open
    BY <2>1, <2>2
  <2> HIDE DEF it
  <2>4. /\ it.owed \subseteq Keys /\ it.pos \in 0 .. Slots
        /\ \A k \in it.owed : FindOf(table, home, k) # Nil
        /\ it.listed = {k \in it.owed : FindOf(table, home, k) < it.pos}
        /\ ~it.twice
        /\ it.end => it.pos = Slots
    BY <2>1, <2>3 DEF IterWell
  <2>5. \A k \in it.owed : FindOf(table', home', k) = FindOf(table, home, k)
    BY <2>4, <1>2
  <2>6. {k \in it.owed : FindOf(table', home', k) < it.pos} = {k \in it.owed : FindOf(table, home, k) < it.pos}
    BY <2>5
  <2>7. QED
    BY <2>4, <2>5, <2>6
<1>3. QED
  BY <1>1, <1>2 DEF IterInv

OpenIter == [open : {TRUE}, wild : {FALSE}, pos : 0 .. Slots, end : BOOLEAN,
             owed : SUBSET Keys, listed : SUBSET Keys, twice : BOOLEAN]

LEMMA IterIs ==
  ASSUME IterTyped, NEW h \in 1 .. kconf.handles, iter[h].open
  PROVE  iter[h] \in OpenIter
<1>1. iter[h] \in Iterator
  BY DEF IterTyped
<1>2. iter[h] # NullIter /\ iter[h] # WildIter
  BY DEF NullIter, WildIter
<1>3. QED
  BY <1>1, <1>2 DEF Iterator, OpenIter

\* Of slots ahead of a cursor the first so many are taken: those ahead of the first one left.
FirstOf(A) == {s \in A : Cardinality({t \in A : t < s}) < IterRoom}
Onto(A) == IF A \ FirstOf(A) = {} THEN Slots ELSE Min(A \ FirstOf(A))

LEMMA FirstTaken ==
  ASSUME NEW pos \in 0 .. Slots, NEW ahead \in SUBSET (pos .. Slots - 1)
  PROVE  Onto(ahead) \in pos .. Slots /\ FirstOf(ahead) = {s \in ahead : s < Onto(ahead)}
<1> DEFINE taken == FirstOf(ahead)
           left == ahead \ taken
<1>0. /\ taken = {s \in ahead : Cardinality({t \in ahead : t < s}) < IterRoom}
      /\ left = ahead \ taken
      /\ Onto(ahead) = IF left = {} THEN Slots ELSE Min(left)
  BY DEF FirstOf, Onto
<1> HIDE DEF taken, left
<1>1. /\ Slots \in Nat \ {0} /\ IterRoom \in Nat /\ pos \in Nat /\ ahead \in SUBSET Nat
      /\ \A s \in ahead : s \in Int /\ pos <= s /\ s < Slots
  BY KvConstants
<1>2. CASE left = {}
  <2>1. taken = {s \in ahead : s < Slots}
    BY <1>0, <1>1, <1>2
  <2>2. Slots \in pos .. Slots
    BY <1>1
  <2>3. QED
    BY <1>0, <1>2, <2>1, <2>2 DEF taken
<1>3. CASE left # {}
  <2> DEFINE m == Min(left)
  <2>1. m \in left /\ \A y \in left : m <= y
    <3>1. left \in SUBSET Nat
      BY <1>0, <1>1
    <3>2. \E x \in left : \A y \in left : x <= y
      BY <1>3, <3>1, LeastNumber
    <3>3. QED
      BY <3>2 DEF Min
  <2> HIDE DEF m
  <2>2. m \in ahead /\ m \in Nat /\ ~(Cardinality({t \in ahead : t < m}) < IterRoom)
    BY <2>1, <1>0, <1>1
  <2>3. IsFiniteSet(ahead)
    <3>1. pos \in Int /\ Slots - 1 \in Int
      BY <1>1
    <3>2. IsFiniteSet(pos .. Slots - 1)
      BY <3>1, FS_Interval
    <3>3. QED
      BY <3>2, FS_Subset
  <2>4. ASSUME NEW s \in taken PROVE s < m
    <3>1. SUFFICES ASSUME m <= s PROVE FALSE
      BY <1>0, <1>1, <2>2
    <3> DEFINE low == {t \in ahead : t < m}
               high == {t \in ahead : t < s}
    <3>2. low \subseteq high
      <4>1. s \in ahead /\ s \in Int /\ m \in Int /\ \A t \in ahead : t \in Int
        BY <1>0, <1>1, <2>2
      <4>2. \A t \in ahead : t < m => t < s
        BY <4>1, <3>1
      <4>3. QED
        BY <4>2
    <3>3. IsFiniteSet(high) /\ IsFiniteSet(low)
      BY <2>3, FS_Subset
    <3>4. Cardinality(high) < IterRoom /\ ~(Cardinality(low) < IterRoom)
      BY <1>0, <2>2
    <3> HIDE DEF low, high
    <3>5. Cardinality(low) <= Cardinality(high) /\ Cardinality(low) \in Nat /\ Cardinality(high) \in Nat
      BY <3>2, <3>3, FS_Subset, FS_CardinalityType
    <3>6. QED
      BY <3>4, <3>5, <1>1
  <2>5. ASSUME NEW s \in ahead, s < m PROVE s \in taken
    BY <2>5, <2>1, <2>2, <1>0, <1>1
  <2>6. taken = {s \in ahead : s < m}
    BY <2>4, <2>5, <1>0
  <2>7. m \in pos .. Slots
    BY <2>2, <1>1
  <2>8. QED
    BY <1>0, <1>3, <2>6, <2>7 DEF m, taken
<1>4. QED
  BY <1>2, <1>3

LEMMA ReadKeeps ==
  ASSUME KvInv, NEW h \in 1 .. kconf.handles, IterRead(h)
  PROVE  IterInv'
<1> DEFINE it == iter[h]
           pos == it.pos
           ahead == {s \in pos .. Slots - 1 : Used(s)}
           taken == {s \in ahead : Cardinality({t \in ahead : t < s}) < IterRoom}
           left == ahead \ taken
           new == IF left = {} THEN Slots ELSE Min(left)
           keys == {table[s].key : s \in taken} \cap it.owed
           next == [it EXCEPT !.pos = new, !.end = left = {} /\ pos < Slots,
                              !.listed = @ \cup keys,
                              !.twice = @ \/ \E s \in taken : table[s].key \in it.listed]
<1>1. it.open /\ iter' = [iter EXCEPT ![h] = next]
  BY DEF IterRead
<1>2. kconf' = kconf /\ home' = home /\ table' = table
  BY DEF IterRead
<1>3. StoreInv /\ IterInv /\ IterTyped
  BY DEF KvInv, IterInv
<1>4. it \in OpenIter /\ pos \in 0 .. Slots /\ it.owed \subseteq Keys
  BY <1>1, <1>3, IterIs DEF OpenIter
<1>5. new \in pos .. Slots /\ taken = {s \in ahead : s < new}
  <2>1. ahead \in SUBSET (pos .. Slots - 1)
    OBVIOUS
  <2>2. taken = FirstOf(ahead) /\ new = Onto(ahead)
    BY DEF FirstOf, Onto
  <2>3. pos \in 0 .. Slots
    BY <1>4
  <2> HIDE DEF pos, ahead, taken, new
  <2>4. QED
    BY <2>1, <2>2, <2>3, FirstTaken
<1>6. \A s \in ahead : s \in SlotIds /\ table[s].off # Nil /\ s \in Int /\ pos <= s
  BY <1>4, KvConstants DEF Used, SlotIds
<1>7. \A s \in SlotIds : table[s].off # Nil /\ pos <= s => s \in ahead
  BY <1>4, KvConstants DEF Used, SlotIds
<1>8. Slots \in Nat \ {0} /\ new \in Int /\ pos \in Int /\ pos <= new /\ new <= Slots
  BY <1>4, <1>5, KvConstants
<1>9. left = {} => new = Slots
  OBVIOUS
<1> HIDE DEF it, pos, ahead, taken, left, new
<1>10. next \in OpenIter
  <2>1. keys \subseteq Keys
    BY <1>4
  <2> HIDE DEF keys
  <2>2. new \in 0 .. Slots
    BY <1>4, <1>8
  <2>3. (left = {} /\ pos < Slots) \in BOOLEAN /\ it.listed \cup keys \in SUBSET Keys
    BY <2>1, <1>4 DEF OpenIter
  <2>4. (it.twice \/ \E s \in taken : table[s].key \in it.listed) \in BOOLEAN
    OBVIOUS
  <2>5. QED
    BY <2>2, <2>3, <2>4, <1>4 DEF OpenIter
<1>11. /\ next.open = it.open /\ next.owed = it.owed /\ next.pos = new
       /\ next.end = (left = {} /\ pos < Slots)
       /\ next.listed = it.listed \cup keys
       /\ next.twice = (it.twice \/ \E s \in taken : table[s].key \in it.listed)
  BY <1>4 DEF OpenIter
<1> HIDE DEF next
<1>12. iter' \in [1 .. kconf.handles -> Iterator] /\ iter'[h] = next
       /\ \A g \in 1 .. kconf.handles : g # h => iter'[g] = iter[g]
  BY <1>1, <1>3, <1>10 DEF IterTyped, Iterator, OpenIter
<1>13. ASSUME ~kconf.deletes PROVE IterWell(table, home, next)
  <2>1. /\ \A k \in it.owed : FindOf(table, home, k) # Nil
        /\ it.listed = {k \in it.owed : FindOf(table, home, k) < pos}
        /\ ~it.twice
    BY <1>13, <1>1, <1>3 DEF IterInv, IterWell, it, pos
  <2>2. \A k \in it.owed : /\ FindOf(table, home, k) \in SlotIds /\ FindOf(table, home, k) \in Int
                           /\ table[FindOf(table, home, k)].key = k /\ table[FindOf(table, home, k)].off # Nil
    BY <2>1, <1>3, <1>4, FoundIn, KvConstants DEF SlotIds
  <2>3. \A s \in ahead : FindOf(table, home, table[s].key) = s
    BY <1>13, <1>3, <1>6, SlotFound
  <2>4. it.listed \cup keys = {k \in it.owed : FindOf(table, home, k) < new}
    <3>1. ASSUME NEW k \in it.listed \cup keys PROVE k \in it.owed /\ FindOf(table, home, k) < new
      <4>1. CASE k \in it.listed
        BY <4>1, <2>1, <2>2, <1>8
      <4>2. CASE k \in keys
        BY <4>2, <2>3, <1>5
      <4>3. QED
        BY <3>1, <4>1, <4>2
    <3>2. ASSUME NEW k \in it.owed, FindOf(table, home, k) < new PROVE k \in it.listed \cup keys
      <4> DEFINE x == FindOf(table, home, k)
      <4>1. x \in SlotIds /\ x \in Int /\ table[x].key = k /\ table[x].off # Nil /\ x < new
        BY <3>2, <2>2
      <4>2. CASE x < pos
        BY <4>2, <2>1
      <4>3. CASE ~(x < pos)
        <5> HIDE DEF x
        <5>1. x \in ahead
          BY <4>1, <4>3, <1>7, <1>8
        <5>2. x \in taken
          BY <5>1, <4>1, <1>5
        <5>3. QED
          BY <5>2, <4>1
      <4>4. QED
        BY <4>2, <4>3
    <3>3. QED
      BY <3>1, <3>2
  <2>5. ~ \E s \in taken : table[s].key \in it.listed
    <3>1. SUFFICES ASSUME NEW s \in taken, table[s].key \in it.listed PROVE FALSE
      OBVIOUS
    <3>2. s \in ahead
      BY <1>5
    <3>3. FindOf(table, home, table[s].key) = s /\ FindOf(table, home, table[s].key) < pos
      BY <3>1, <3>2, <2>1, <2>3
    <3>4. QED
      BY <3>2, <3>3, <1>6, <1>8
  <2>6. next.listed = {k \in next.owed : FindOf(table, home, k) < next.pos}
    BY <2>4, <1>11
  <2>7. ~next.twice
    BY <2>5, <2>1, <1>11
  <2>8. next.end => next.pos = Slots
    BY <1>9, <1>11
  <2>9. next.pos \in 0 .. Slots /\ next.owed \subseteq Keys
    BY <1>10 DEF OpenIter
  <2>10. QED
    BY <2>1, <2>6, <2>7, <2>8, <2>9, <1>11 DEF IterWell
<1>14. QED
  BY <1>2, <1>3, <1>12, <1>13 DEF IterInv, IterTyped

LEMMA OpenKeeps ==
  ASSUME KvInv, IterOpen
  PROVE  IterInv'
<1> DEFINE free == {h \in 1 .. kconf.handles : iter[h] = NullIter}
           m == Min(free)
<1>1. free # {} /\ iter' = [iter EXCEPT ![m] = FreshIter]
      /\ kconf' = kconf /\ home' = home /\ table' = table
  BY DEF IterOpen
<1>2. StoreInv /\ IterInv /\ iter \in [1 .. kconf.handles -> Iterator]
  BY DEF KvInv, IterInv, IterTyped
<1>3. m \in 1 .. kconf.handles
  <2>1. free \in SUBSET Nat
    OBVIOUS
  <2>2. \E x \in free : \A y \in free : x <= y
    BY <1>1, <2>1, LeastNumber
  <2>3. m \in free
    BY <2>2 DEF Min
  <2>4. QED
    BY <2>3
<1> HIDE DEF m
<1>4. Slots \in Nat \ {0}
  BY KvConstants
<1>5. FreshIter \in Iterator
  BY <1>4 DEF FreshIter, Iterator
<1>6. IterWell(table, home, FreshIter)
  <2>1. \A k \in Keys : Find(k) = FindOf(table, home, k)
    BY FindIs
  <2>2. \A k \in Keys : FindOf(table, home, k) # Nil => ~(FindOf(table, home, k) < 0)
    BY <1>2, FoundIn, KvConstants DEF SlotIds
  <2>3. /\ FreshIter.owed = {k \in Keys : Find(k) # Nil} /\ FreshIter.pos = 0 /\ FreshIter.listed = {}
        /\ ~FreshIter.twice /\ ~FreshIter.end
    BY DEF FreshIter
  <2>4. QED
    BY <2>1, <2>2, <2>3, <1>4 DEF IterWell
<1>7. \A h \in 1 .. kconf.handles : iter'[h] = IF h = m THEN FreshIter ELSE iter[h]
  BY <1>1, <1>2, <1>3
<1>8. iter' \in [1 .. kconf.handles -> Iterator]
  BY <1>1, <1>2, <1>3, <1>5
<1>9. QED
  BY <1>1, <1>2, <1>6, <1>7, <1>8 DEF IterInv, IterTyped

LEMMA CloseKeeps ==
  ASSUME KvInv, NEW h \in 1 .. kconf.handles, IterClose(h)
  PROVE  IterInv'
<1>1. /\ iter' = [iter EXCEPT ![h] = NullIter]
      /\ kconf' = kconf /\ home' = home /\ table' = table
  BY DEF IterClose
<1>2. IterInv /\ iter \in [1 .. kconf.handles -> Iterator]
  BY DEF KvInv, IterInv, IterTyped
<1>3. NullIter \in Iterator /\ IterWell(table, home, NullIter)
  BY DEF NullIter, Iterator, IterWell
<1>4. \A g \in 1 .. kconf.handles : iter'[g] = IF g = h THEN NullIter ELSE iter[g]
  BY <1>1, <1>2
<1>5. iter' \in [1 .. kconf.handles -> Iterator]
  BY <1>1, <1>2, <1>3
<1>6. QED
  BY <1>1, <1>2, <1>3, <1>4, <1>5 DEF IterInv, IterTyped

LEMMA KvInitInv == KvInit => KvInv
<1> SUFFICES ASSUME KvInit PROVE KvInv
  OBVIOUS
<1>1. /\ kconf \in KvConfigs /\ home \in kconf.homes
      /\ table = [s \in SlotIds |-> EmptyEntry] /\ latest = 0
      /\ mem = [u \in 0 .. Storage - 1 |-> NoKey] /\ cell = [k \in Keys |-> 0]
  BY DEF KvInit
<1>2. /\ Slots \in Nat \ {0} /\ Storage \in Nat \ {0} /\ kconf.maxlen \in Nat \ {0} /\ kconf.handles \in Nat
      /\ home \in [Keys -> SlotIds]
  BY <1>1, KvConstants
<1>3. EmptyEntry \in SlotEntry
  BY <1>2 DEF EmptyEntry, SlotEntry, Nil
<1>4. StoreType
  BY <1>1, <1>2, <1>3 DEF StoreType
<1>5. \A s \in SlotIds : table[s].off = Nil /\ table[s].next = Nil
  BY <1>1 DEF EmptyEntry
<1>6. SlotsWell /\ SlotsInOrder
  BY <1>5 DEF SlotsWell, SlotsInOrder
<1>7. \A k \in Keys : ChainOf(table, home[k]) = {}
  <2>1. SUFFICES ASSUME NEW k \in Keys PROVE ChainOf(table, home[k]) = {}
    OBVIOUS
  <2>2. Linked(table)
    BY <1>5 DEF Linked, Nil
  <2>3. \A t \in ChainOf(table, home[k]) : t \in SlotIds /\ UsedIn(table, t)
    BY <1>2, <2>2, ChainFacts
  <2>4. QED
    BY <2>3, <1>5 DEF UsedIn
<1>8. KeysOnce /\ CellsHeld /\ AllFound
  BY <1>5, <1>7 DEF KeysOnce, OnceIn, CellsHeld, AllFound
<1>9. IterInv
  <2>1. PICK end \in {NullIter, WildIter} :
          iter = [h \in 1 .. kconf.handles |-> IF h = kconf.handles THEN end ELSE NullIter]
    BY DEF KvInit
  <2>2. \A i \in {NullIter, WildIter} : i \in Iterator /\ IterWell(table, home, i)
    <3>1. NullIter \in Iterator /\ WildIter \in Iterator /\ ~NullIter.open /\ ~WildIter.open
      BY DEF NullIter, WildIter, Iterator
    <3>2. IterWell(table, home, NullIter) /\ IterWell(table, home, WildIter)
      BY <3>1 DEF IterWell
    <3>3. QED
      BY <3>1, <3>2
  <2>3. \A h \in 1 .. kconf.handles : iter[h] \in {NullIter, WildIter}
    BY <2>1
  <2>4. QED
    BY <2>1, <2>2, <2>3 DEF IterInv, IterTyped
<1>10. QED
  BY <1>4, <1>6, <1>8, <1>9 DEF KvInv, StoreInv

LEMMA StoreSame ==
  ASSUME StoreInv, UNCHANGED <<kconf, home, table, latest, mem, cell>>
  PROVE  StoreInv'
<1>1. StoreType' /\ SlotsWell' /\ SlotsInOrder'
  BY DEF StoreInv, StoreType, SlotEntry, SlotsWell, SlotsInOrder
<1>2. KeysOnce' /\ CellsHeld' /\ AllFound'
  BY DEF StoreInv, KeysOnce, CellsHeld, AllFound
<1>3. QED
  BY <1>1, <1>2 DEF StoreInv

LEMMA InsertStays ==
  ASSUME KvInv, NEW k \in Keys, NEW v \in Vals, NEW n \in 1 .. kconf.maxlen, Insert(k, v, n)
  PROVE  \A j \in Keys : FindOf(table, home, j) # Nil => FindOf(table', home', j) = FindOf(table, home, j)
<1>1. StoreInv /\ StoreInv' /\ home' = home /\ Linked(table) /\ Linked(table')
  <2>1. StoreInv /\ StoreInv' /\ home' = home
    BY InsertKeeps DEF KvInv, Insert
  <2>2. Linked(table)
    BY <2>1, TableLinked DEF StoreInv
  <2>3. table' \in [SlotIds -> SlotEntry']
    BY <2>1 DEF StoreInv, StoreType
  <2>4. \A t \in SlotIds : table'[t].next \in Nil .. Slots - 1
    BY <2>3 DEF SlotEntry
  <2>5. Linked(table')
    BY <2>4, KvConstants DEF Linked, Nil
  <2>6. QED
    BY <2>1, <2>2, <2>5
<1>2. PICK slot \in SlotIds : EntryMade(table', slot, k, latest, n)
  BY InsertKeeps DEF KvInv
<1>3. Filled(table, table', slot) /\ \A t \in SlotIds \ {slot} : table'[t].key = table[t].key
  BY <1>2 DEF EntryMade
<1>4. \A s \in SlotIds : ChainOf(table, s) \subseteq ChainOf(table', s)
  BY <1>1, <1>3, ChainGrows
<1>5. \A s \in SlotIds : table[s].off # Nil => table'[s].key = table[s].key
  BY <1>3 DEF Filled, UsedIn
<1>6. QED
  BY <1>1, <1>4, <1>5, StaysFound

LEMMA UpdateStays ==
  ASSUME KvInv, NEW k \in Keys, NEW v \in Vals, NEW n \in 1 .. kconf.maxlen,
         Update(k, v, n) \/ BatchUpdate(k, v, n)
  PROVE  \A j \in Keys : FindOf(table', home', j) = FindOf(table, home, j)
<1>1. /\ home' = home /\ home \in [Keys -> SlotIds]
      /\ \A s \in SlotIds : ChainOf(table', s) = ChainOf(table, s)
      /\ \A s \in SlotIds : table'[s].key = table[s].key
  BY UpdateKeeps DEF KvInv, StoreInv, StoreType, Update, BatchUpdate
<1>2. SUFFICES ASSUME NEW j \in Keys PROVE FindOf(table', home', j) = FindOf(table, home, j)
  OBVIOUS
<1>3. Linked(table) /\ \A t \in ChainOf(table, home[j]) : t \in SlotIds
  <2>1. Linked(table) /\ home[j] \in SlotIds
    BY <1>1, TableLinked DEF KvInv, StoreInv
  <2>2. QED
    BY <2>1, ChainFacts
<1>4. {t \in ChainOf(table', home'[j]) : table'[t].key = j} = {t \in ChainOf(table, home[j]) : table[t].key = j}
  BY <1>1, <1>3
<1> DEFINE new == {t \in ChainOf(table', home'[j]) : table'[t].key = j}
           old == {t \in ChainOf(table, home[j]) : table[t].key = j}
<1>5. /\ FindOf(table', home', j) = IF new = {} THEN Nil ELSE CHOOSE t \in new : TRUE
      /\ FindOf(table, home, j) = IF old = {} THEN Nil ELSE CHOOSE t \in old : TRUE
  BY DEF FindOf
<1>6. new = old
  BY <1>4
<1> HIDE DEF new, old
<1>7. QED
  BY <1>5, <1>6

LEMMA KvStep == KvInv /\ [KvNext]_kvVars => KvInv'
<1> SUFFICES ASSUME KvInv, [KvNext]_kvVars PROVE KvInv'
  OBVIOUS
<1>0. StoreInv /\ IterInv
  BY DEF KvInv
<1>1. ASSUME NEW k \in Keys, NEW v \in Vals, NEW n \in 1 .. kconf.maxlen, Insert(k, v, n) PROVE KvInv'
  <2>1. StoreInv'
    BY <1>0, <1>1, InsertKeeps
  <2>2. kconf' = kconf /\ iter' = iter
    BY <1>1 DEF Insert
  <2>3. IterInv'
    BY <1>0, <1>1, <2>2, InsertStays, IterStays
  <2>4. QED
    BY <2>1, <2>3 DEF KvInv
<1>2. ASSUME NEW k \in Keys, NEW v \in Vals, NEW n \in 1 .. kconf.maxlen,
             Update(k, v, n) \/ BatchUpdate(k, v, n)
      PROVE  KvInv'
  <2>1. StoreInv'
    BY <1>0, <1>2, UpdateKeeps
  <2>2. kconf' = kconf /\ iter' = iter
    BY <1>2 DEF Update, BatchUpdate
  <2>3. IterInv'
    BY <1>0, <1>2, <2>2, UpdateStays, IterStays
  <2>4. QED
    BY <2>1, <2>3 DEF KvInv
<1>3. ASSUME NEW k \in Keys, Delete(k) PROVE KvInv'
  <2>1. StoreInv'
    BY <1>0, <1>3, DeleteKeeps
  <2>2. kconf' = kconf /\ iter' = iter /\ kconf.deletes
    BY <1>3 DEF Delete
  <2>3. IterInv'
    BY <1>0, <2>2, IterStays
  <2>4. QED
    BY <2>1, <2>3 DEF KvInv
<1>4. CASE IterOpen
  <2>1. StoreInv'
    BY <1>0, <1>4, StoreSame DEF IterOpen
  <2>2. QED
    BY <2>1, <1>4, OpenKeeps DEF KvInv
<1>5. ASSUME NEW h \in 1 .. kconf.handles, IterClose(h) PROVE KvInv'
  <2>1. StoreInv'
    BY <1>0, <1>5, StoreSame DEF IterClose
  <2>2. QED
    BY <2>1, <1>5, CloseKeeps DEF KvInv
<1>6. ASSUME NEW h \in 1 .. kconf.handles, IterRead(h) PROVE KvInv'
  <2>1. UNCHANGED <<kconf, home, table, latest, mem, cell>>
    BY <1>6 DEF IterRead
  <2>2. StoreInv'
    BY <1>0, <2>1, StoreSame
  <2>3. QED
    BY <2>2, <1>6, ReadKeeps DEF KvInv
<1>7. CASE UNCHANGED kvVars
  <2>1. UNCHANGED <<kconf, home, table, latest, mem, cell, iter>>
    BY <1>7 DEF kvVars
  <2>2. StoreInv'
    BY <1>0, <2>1, StoreSame
  <2>3. IterInv'
    BY <1>0, <2>1, IterStays
  <2>4. QED
    BY <2>2, <2>3 DEF KvInv
<1>8. QED
  BY <1>1, <1>2, <1>3, <1>4, <1>5, <1>6, <1>7 DEF KvNext

LEMMA InvApart == KvInv => CellsApart
<1> SUFFICES ASSUME KvInv PROVE CellsApart
  OBVIOUS
<1>1. /\ StoreInv /\ CellsHeld /\ SlotsInOrder /\ KeysOnce /\ Linked(table) /\ home \in [Keys -> SlotIds]
      /\ \A s \in SlotIds : table[s].off \in Int
      /\ cell \in [Keys -> 0 .. kconf.maxlen] /\ kconf.maxlen \in Nat
  BY TableLinked, KvConstants DEF KvInv, StoreInv, StoreType
<1>2. \A s \in SlotIds : Used(s) => \E t \in Chain(s) : table[t].next \notin Chain(s)
  BY <1>1, EndIs
<1>3. \A k \in Keys : \A s, t \in Chain(home[k]) : table[s].key = k /\ table[t].key = k => s = t
  BY <1>1, ChainIs DEF KeysOnce, OnceIn
<1>4. ASSUME NEW j \in Keys, NEW k \in Keys, j # k, Find(j) # Nil, Find(k) # Nil
      PROVE  \/ table[Find(j)].off + cell[j] <= table[Find(k)].off
             \/ table[Find(k)].off + cell[k] <= table[Find(j)].off
  <2> DEFINE x == Find(j)
             y == Find(k)
  <2>1. /\ x \in SlotIds /\ x \in ChainOf(table, home[j]) /\ table[x].key = j /\ table[x].off # Nil
        /\ y \in SlotIds /\ y \in ChainOf(table, home[k]) /\ table[y].key = k /\ table[y].off # Nil
    BY <1>1, <1>4, FoundAt
  <2> HIDE DEF x, y
  <2>2. x # y
    BY <2>1, <1>4
  <2>3. table[x].off # table[y].off
    BY <2>1, <2>2, <1>1 DEF SlotsInOrder
  <2>4. /\ table[x].off > table[y].off => table[x].off >= table[y].off + cell[k]
        /\ table[y].off > table[x].off => table[y].off >= table[x].off + cell[j]
    BY <2>1, <1>1 DEF CellsHeld
  <2>5. table[x].off \in Int /\ table[y].off \in Int /\ cell[j] \in Int /\ cell[k] \in Int
    BY <2>1, <1>1
  <2>6. \/ table[x].off + cell[j] <= table[y].off
        \/ table[y].off + cell[k] <= table[x].off
    BY <2>3, <2>4, <2>5
  <2>7. QED
    BY <2>6 DEF x, y
<1>5. QED
  BY <1>2, <1>3, <1>4 DEF CellsApart

LEMMA InvScan == KvInv => ScanComplete
<1> SUFFICES ASSUME KvInv, NEW h \in 1 .. kconf.handles, iter[h].open, iter[h].end, ~kconf.deletes
             PROVE  iter[h].listed = iter[h].owed /\ ~iter[h].twice
  BY DEF ScanComplete
<1> DEFINE it == iter[h]
<1>1. IterWell(table, home, it)
  BY DEF KvInv, IterInv
<1>2. /\ it.owed \subseteq Keys /\ it.pos = Slots /\ ~it.twice
      /\ \A k \in it.owed : FindOf(table, home, k) # Nil
      /\ it.listed = {k \in it.owed : FindOf(table, home, k) < it.pos}
  BY <1>1 DEF IterWell
<1> HIDE DEF it
<1>3. \A k \in it.owed : FindOf(table, home, k) < Slots
  <2>1. SUFFICES ASSUME NEW k \in it.owed PROVE FindOf(table, home, k) < Slots
    OBVIOUS
  <2>2. FindOf(table, home, k) \in SlotIds
    BY <1>2, FoundIn DEF KvInv
  <2>3. QED
    BY <2>2, KvConstants DEF SlotIds
<1>4. it.listed = it.owed
  BY <1>2, <1>3
<1>5. QED
  BY <1>2, <1>4 DEF it

LEMMA InvTyped == KvInv => KvTypeOK
BY DEF KvInv, StoreInv, StoreType, SlotEntry, IterInv, IterTyped, KvTypeOK

-----------------------------------------------------------------------------
(* The store is a dictionary.                                              *)

\* What a host finds under a key.
Held(tb, hm, m, k) ==
  IF FindOf(tb, hm, k) = Nil THEN <<>>
  ELSE [i \in 1 .. tb[FindOf(tb, hm, k)].len |-> m[tb[FindOf(tb, hm, k)].off + i - 1]]

LEMMA SeenIs ==
  /\ Seen = [k \in Keys |-> Held(table, home, mem, k)]
  /\ Seen' = [k \in Keys |-> Held(table', home', mem', k)]
<1>1. Seen = [k \in Keys |-> Held(table, home, mem, k)]
  BY FindIs DEF Seen, Content, Held
<1>2. Seen' = [k \in Keys |-> Held(table', home', mem', k)]
  BY FindIs DEF Seen, Content, Held
<1>3. QED
  BY <1>1, <1>2

\* A value of one unit many times.
LEMMA ValueIs ==
  ASSUME NEW v \in Vals, NEW n \in 1 .. Storage, NEW f, f = [i \in 1 .. n |-> v]
  PROVE  f \in Values
<1>1. f \in [1 .. n -> {v}]
  OBVIOUS
<1> DEFINE S == {[1 .. m -> {w}] : m \in 1 .. Storage, w \in Vals}
<1>2. [1 .. n -> {v}] \in S
  OBVIOUS
<1>3. Values = UNION S
  BY DEF Values
<1> HIDE DEF S
<1>4. QED
  BY <1>1, <1>2, <1>3

LEMMA CellFacts ==
  ASSUME KvInv, NEW k \in Keys, FindOf(table, home, k) # Nil
  PROVE  LET x == FindOf(table, home, k)
         IN /\ x \in SlotIds /\ x \in ChainOf(table, home[k]) /\ table[x].key = k
            /\ table[x].off \in 0 .. Storage - 1 /\ table[x].len \in 1 .. Storage
            /\ cell[k] \in Nat /\ table[x].len <= cell[k] /\ table[x].off + cell[k] <= latest
            /\ latest \in 0 .. Storage
<1> DEFINE x == FindOf(table, home, k)
<1>1. /\ x \in SlotIds /\ x \in ChainOf(table, home[k]) /\ table[x].key = k /\ table[x].off # Nil
  BY FoundIn DEF KvInv
<1> HIDE DEF x
<1>2. /\ StoreType /\ CellsHeld /\ SlotsWell /\ latest \in 0 .. Storage
      /\ Storage \in Nat /\ kconf.maxlen \in Nat
      /\ table \in [SlotIds -> SlotEntry]
      /\ cell \in [Keys -> 0 .. kconf.maxlen]
  BY KvConstants DEF KvInv, StoreInv, StoreType
<1>3. table[x].off \in Nil .. Storage - 1 /\ table[x].len \in 1 .. kconf.maxlen
  BY <1>1, <1>2 DEF SlotsWell, SlotEntry
<1>4. table[x].len <= cell[k] /\ table[x].off + cell[k] <= latest /\ cell[k] \in Nat
  BY <1>1, <1>2 DEF CellsHeld
<1>5. table[x].off \in 0 .. Storage - 1 /\ table[x].len \in 1 .. Storage
  BY <1>1, <1>2, <1>3, <1>4 DEF Nil
<1>6. QED
  BY <1>1, <1>2, <1>4, <1>5 DEF x

\* Of two keys that are found neither has units of the other.
LEMMA CellsApartOf ==
  ASSUME KvInv, NEW j \in Keys, NEW k \in Keys, j # k,
         FindOf(table, home, j) # Nil, FindOf(table, home, k) # Nil
  PROVE  \/ table[FindOf(table, home, j)].off + cell[j] <= table[FindOf(table, home, k)].off
         \/ table[FindOf(table, home, k)].off + cell[k] <= table[FindOf(table, home, j)].off
BY InvApart, FindIs DEF CellsApart

\* What writing does: the units of a value get its contents, the others keep theirs.
LEMMA WrittenIs ==
  ASSUME KvInv, NEW off \in Nat, NEW v, NEW n \in Nat, off + n <= Storage, mem' = Written(off, v, n)
  PROVE  /\ \A u \in off .. off + n - 1 : mem'[u] = v
         /\ \A u \in 0 .. Storage - 1 : u \notin off .. off + n - 1 => mem'[u] = mem[u]
<1>1. mem \in [0 .. Storage - 1 -> Vals \cup {NoKey}] /\ Storage \in Nat
  BY KvConstants DEF KvInv, StoreInv, StoreType
<1>2. \A u \in off .. off + n - 1 : u \in 0 .. Storage - 1
  BY <1>1
<1>3. DOMAIN mem = 0 .. Storage - 1
  BY <1>1
<1>4. QED
  BY <1>2, <1>3 DEF Written

\* Units that keep their contents keep their value.
LEMMA SameHeld ==
  ASSUME KvInv, NEW k \in Keys, FindOf(table, home, k) # Nil,
         FindOf(table', home', k) = FindOf(table, home, k),
         LET x == FindOf(table, home, k)
         IN /\ table'[x].len = table[x].len /\ table'[x].off = table[x].off
            /\ \A u \in 0 .. Storage - 1 : table[x].off <= u /\ u < table[x].off + cell[k] => mem'[u] = mem[u]
  PROVE  Held(table', home', mem', k) = Held(table, home, mem, k)
<1> DEFINE x == FindOf(table, home, k)
<1>1. /\ table[x].off \in 0 .. Storage - 1 /\ table[x].len \in 1 .. Storage
      /\ cell[k] \in Nat /\ table[x].len <= cell[k] /\ table[x].off + cell[k] <= latest
      /\ latest \in 0 .. Storage
  BY CellFacts
<1>2. /\ table'[x].len = table[x].len /\ table'[x].off = table[x].off /\ x # Nil
      /\ FindOf(table', home', k) = x
      /\ \A u \in 0 .. Storage - 1 : table[x].off <= u /\ u < table[x].off + cell[k] => mem'[u] = mem[u]
  OBVIOUS
<1>3. /\ Held(table, home, mem, k) = [i \in 1 .. table[x].len |-> mem[table[x].off + i - 1]]
      /\ Held(table', home', mem', k) = [i \in 1 .. table[x].len |-> mem'[table[x].off + i - 1]]
  BY <1>2 DEF Held
<1> HIDE DEF x
<1> DEFINE L == table[x].len
           o == table[x].off
<1>4. \A i \in 1 .. L : mem'[o + i - 1] = mem[o + i - 1]
  <2>1. SUFFICES ASSUME NEW i \in 1 .. L PROVE mem'[o + i - 1] = mem[o + i - 1]
    OBVIOUS
  <2>2. o + i - 1 \in 0 .. Storage - 1 /\ o <= o + i - 1 /\ o + i - 1 < o + cell[k]
    <3> DEFINE c == cell[k]
    <3>1. /\ o \in 0 .. Storage - 1 /\ L \in 1 .. Storage /\ c \in Nat /\ L <= c
          /\ o + c <= latest /\ latest \in 0 .. Storage /\ Storage \in Nat
      BY <1>1, KvConstants
    <3>2. i \in 1 .. L
      OBVIOUS
    <3> HIDE DEF c, o, L
    <3>3. QED
      BY <3>1, <3>2 DEF c
  <2>3. QED
    BY <2>2, <1>2
<1>5. QED
  BY <1>3, <1>4

LEMMA NextTable ==
  ASSUME StoreInv', home' = home, NEW k \in Keys
  PROVE  Linked(table') /\ home' \in [Keys -> SlotIds] /\ OnceIn(table', home', k)
<1>1. StoreType' /\ KeysOnce'
  BY DEF StoreInv
<1>2. table' \in [SlotIds -> SlotEntry'] /\ home' \in [Keys -> SlotIds] /\ OnceIn(table', home', k)
  BY <1>1 DEF StoreType, KeysOnce
<1>3. \A t \in SlotIds : table'[t].next \in Nil .. Slots - 1
  BY <1>2 DEF SlotEntry
<1>4. QED
  BY <1>2, <1>3, KvConstants DEF Linked, Nil

\* A key's first store is seen, and nothing else is.
LEMMA InsertSeen ==
  ASSUME KvInv, NEW k \in Keys, NEW v \in Vals, NEW n \in 1 .. kconf.maxlen, Insert(k, v, n)
  PROVE  /\ Held(table', home', mem', k) \in Values
         /\ \A j \in Keys \ {k} : Held(table', home', mem', j) = Held(table, home, mem, j)
<1>1. /\ Find(k) = Nil /\ latest + n <= Storage /\ mem' = Written(latest, v, n) /\ home' = home
  BY DEF Insert
<1>2. StoreInv /\ StoreInv'
  BY InsertKeeps DEF KvInv
<1>3. latest \in 0 .. Storage /\ n \in Nat \ {0} /\ Storage \in Nat /\ table \in [SlotIds -> SlotEntry]
  BY <1>2, KvConstants DEF StoreInv, StoreType
<1>4. PICK slot \in SlotIds :
        /\ EntryMade(table', slot, k, latest, n)
        /\ \A j \in Keys : \A s \in ChainOf(table', home[j]) : table'[s].key = j =>
             \/ s = slot /\ j = k
             \/ j # k /\ s # slot /\ s \in ChainOf(table, home[j]) /\ table[s].key = j /\ s \in SlotIds
  BY <1>2, InsertKeeps
<1>5. /\ table'[slot].key = k /\ table'[slot].off = latest /\ table'[slot].len = n
      /\ slot \in ChainOf(table', home[k]) /\ table[slot].off = Nil
      /\ \A t \in SlotIds \ {slot} : table'[t].off = table[t].off /\ table'[t].len = table[t].len
  BY <1>4 DEF EntryMade, Filled, UsedIn
<1>6. \A j \in Keys : Linked(table') /\ home' \in [Keys -> SlotIds] /\ OnceIn(table', home', j)
  BY <1>1, <1>2, NextTable
<1>7. /\ \A u \in latest .. latest + n - 1 : mem'[u] = v
      /\ \A u \in 0 .. Storage - 1 : u \notin latest .. latest + n - 1 => mem'[u] = mem[u]
  BY <1>1, <1>3, WrittenIs
<1>8. Held(table', home', mem', k) \in Values
  <2>1. FindOf(table', home', k) = slot
    BY <1>1, <1>5, <1>6, FindFacts
  <2>2. slot # Nil
    BY KvConstants DEF SlotIds, Nil
  <2>3. Held(table', home', mem', k) = [i \in 1 .. n |-> mem'[latest + i - 1]]
    BY <2>1, <2>2, <1>5 DEF Held
  <2>4. \A i \in 1 .. n : latest + i - 1 \in latest .. latest + n - 1
    BY <1>3
  <2>5. Held(table', home', mem', k) = [i \in 1 .. n |-> v]
    BY <2>3, <2>4, <1>7
  <2>6. n \in 1 .. Storage
    BY <1>1, <1>3
  <2>7. QED
    BY <2>5, <2>6, ValueIs
<1>9. ASSUME NEW j \in Keys \ {k} PROVE Held(table', home', mem', j) = Held(table, home, mem, j)
  <2>1. CASE FindOf(table, home, j) # Nil
    <3> DEFINE x == FindOf(table, home, j)
    <3>1. /\ x \in SlotIds /\ table[x].off \in 0 .. Storage - 1 /\ cell[j] \in Nat
          /\ table[x].off + cell[j] <= latest
      BY <2>1, CellFacts
    <3>2. FindOf(table', home', j) = x
      BY <2>1, InsertStays
    <3>3. x # slot
      BY <3>1, <1>5, KvConstants DEF Nil
    <3>4. \A u \in 0 .. Storage - 1 : table[x].off <= u /\ u < table[x].off + cell[j] => mem'[u] = mem[u]
      <4> DEFINE o == table[x].off
                 c == cell[j]
      <4>1. o \in Int /\ c \in Int /\ o + c <= latest
        BY <3>1
      <4> HIDE DEF o, c
      <4>2. \A u \in 0 .. Storage - 1 : o <= u /\ u < o + c => u \notin latest .. latest + n - 1
        BY <4>1, <1>3
      <4>3. QED
        BY <4>2, <1>7 DEF o, c
    <3>5. table'[x].off = table[x].off /\ table'[x].len = table[x].len
      BY <3>1, <3>3, <1>5
    <3>6. QED
      BY <2>1, <3>2, <3>4, <3>5, SameHeld
  <2>2. CASE FindOf(table, home, j) = Nil
    <3>1. \A t \in ChainOf(table, home[j]) : table[t].key # j
      <4>1. Linked(table) /\ home \in [Keys -> SlotIds] /\ OnceIn(table, home, j)
        BY <1>2, TableLinked DEF StoreInv, StoreType, KeysOnce
      <4>2. QED
        BY <4>1, <2>2, FindFacts
    <3>2. \A t \in ChainOf(table', home'[j]) : table'[t].key # j
      BY <3>1, <1>1, <1>4
    <3>3. FindOf(table', home', j) = Nil
      BY <3>2, <1>6, FindFacts
    <3>4. QED
      BY <3>3, <2>2 DEF Held
  <2>3. QED
    BY <2>1, <2>2
<1>10. QED
  BY <1>8, <1>9

\* Writing over a value leaves the others.
LEMMA OverSeen ==
  ASSUME KvInv, NEW k \in Keys, NEW v \in Vals, NEW n \in 1 .. kconf.maxlen,
         Update(k, v, n) \/ BatchUpdate(k, v, n)
  PROVE  LET x == FindOf(table, home, k)
         IN /\ x # Nil /\ FindOf(table', home', k) = x /\ n \in 1 .. cell[k]
            /\ table'[x].off = table[x].off
            /\ table'[x].len = IF Update(k, v, n) THEN n ELSE table[x].len
            /\ \A u \in table[x].off .. table[x].off + n - 1 : mem'[u] = v
            /\ \A u \in 0 .. Storage - 1 : u \notin table[x].off .. table[x].off + n - 1 => mem'[u] = mem[u]
            /\ \A j \in Keys \ {k} : Held(table', home', mem', j) = Held(table, home, mem, j)
<1> DEFINE x == FindOf(table, home, k)
<1>1. /\ x # Nil /\ n <= cell[k] /\ mem' = Written(table[x].off, v, n)
  BY FindIs DEF Update, BatchUpdate
<1>2. StoreInv /\ Storage \in Nat /\ n \in Nat \ {0}
  BY KvConstants DEF KvInv, StoreInv, StoreType
<1>3. \A s \in SlotIds : /\ table'[s].off = table[s].off
                         /\ table'[s].len = IF s = x /\ Update(k, v, n) THEN n ELSE table[s].len
  BY <1>2, UpdateKeeps, FindIs
<1>4. /\ x \in SlotIds /\ table[x].off \in 0 .. Storage - 1 /\ cell[k] \in Nat
      /\ table[x].off + cell[k] <= latest /\ latest \in 0 .. Storage
  BY <1>1, CellFacts
<1>5. \A j \in Keys : FindOf(table', home', j) = FindOf(table, home, j)
  BY UpdateStays
<1> HIDE DEF x
<1> DEFINE o == table[x].off
           c == cell[k]
<1>6. /\ o \in 0 .. Storage - 1 /\ c \in Nat /\ o + c <= latest /\ latest \in 0 .. Storage /\ n <= c
      /\ mem' = Written(o, v, n)
  BY <1>1, <1>4
<1> HIDE DEF o, c
<1>7. o + n <= Storage /\ o \in Nat /\ n \in 1 .. c
  BY <1>2, <1>6
<1>8. /\ \A u \in o .. o + n - 1 : mem'[u] = v
      /\ \A u \in 0 .. Storage - 1 : u \notin o .. o + n - 1 => mem'[u] = mem[u]
  BY <1>2, <1>6, <1>7, WrittenIs
<1>9. ASSUME NEW j \in Keys \ {k} PROVE Held(table', home', mem', j) = Held(table, home, mem, j)
  <2>1. CASE FindOf(table, home, j) = Nil
    BY <2>1, <1>5 DEF Held
  <2>2. CASE FindOf(table, home, j) # Nil
    <3> DEFINE y == FindOf(table, home, j)
    <3>1. /\ y \in SlotIds /\ y # Nil /\ table[y].off \in 0 .. Storage - 1 /\ cell[j] \in Nat /\ table[y].key = j
      BY <2>2, CellFacts
    <3>2. FindOf(table', home', j) = y
      BY <1>5
    <3>3. y # x
      <4>1. table[x].key = k
        BY <1>1, CellFacts DEF x
      <4>2. QED
        BY <4>1, <3>1
    <3>4. \/ table[y].off + cell[j] <= o
          \/ o + c <= table[y].off
      BY <1>1, <2>2, CellsApartOf DEF o, c, x
    <3>5. \A u \in 0 .. Storage - 1 : table[y].off <= u /\ u < table[y].off + cell[j] => mem'[u] = mem[u]
      <4> DEFINE p == table[y].off
                 d == cell[j]
      <4>1. p \in Int /\ d \in Int /\ (p + d <= o \/ o + c <= p)
        BY <3>1, <3>4
      <4> HIDE DEF p, d
      <4>2. \A u \in 0 .. Storage - 1 : p <= u /\ u < p + d => u \notin o .. o + n - 1
        BY <4>1, <1>2, <1>6
      <4>3. QED
        BY <4>2, <1>8 DEF p, d
    <3>6. table'[y].off = table[y].off /\ table'[y].len = table[y].len
      BY <3>1, <3>3, <1>3
    <3>7. QED
      BY <2>2, <3>2, <3>5, <3>6, SameHeld
  <2>3. QED
    BY <2>1, <2>2
<1>10. /\ FindOf(table', home', k) = x /\ table'[x].off = o
       /\ table'[x].len = IF Update(k, v, n) THEN n ELSE table[x].len
  BY <1>3, <1>4, <1>5 DEF x, o
<1>11. QED
  BY <1>1, <1>7, <1>8, <1>9, <1>10 DEF x, o, c

LEMMA InsertMaps ==
  ASSUME KvInv, NEW k \in Keys, NEW v \in Vals, NEW n \in 1 .. kconf.maxlen, Insert(k, v, n)
  PROVE  Map!StoreValue(k, Seen, Seen')
<1>1. /\ Held(table', home', mem', k) \in Values
      /\ \A j \in Keys \ {k} : Held(table', home', mem', j) = Held(table, home, mem, j)
  BY InsertSeen
<1>2. QED
  BY <1>1, SeenIs DEF Map!StoreValue, Map!OthersKept

LEMMA UpdateMaps ==
  ASSUME KvInv, NEW k \in Keys, NEW v \in Vals, NEW n \in 1 .. kconf.maxlen,
         Update(k, v, n) \/ BatchUpdate(k, v, n)
  PROVE  Map!StoreValue(k, Seen, Seen') \/ Map!StoreOver(k, Seen, Seen')
<1> DEFINE x == FindOf(table, home, k)
           o == table[x].off
           L == table'[x].len
           old == Held(table, home, mem, k)
           new == Held(table', home', mem', k)
<1>1. /\ x # Nil /\ FindOf(table', home', k) = x /\ n \in 1 .. cell[k] /\ table'[x].off = o
      /\ L = IF Update(k, v, n) THEN n ELSE table[x].len
      /\ \A u \in o .. o + n - 1 : mem'[u] = v
      /\ \A u \in 0 .. Storage - 1 : u \notin o .. o + n - 1 => mem'[u] = mem[u]
      /\ \A j \in Keys \ {k} : Held(table', home', mem', j) = Held(table, home, mem, j)
  BY OverSeen
<1>2. /\ o \in 0 .. Storage - 1 /\ table[x].len \in 1 .. Storage
      /\ cell[k] \in Nat /\ table[x].len <= cell[k] /\ o + cell[k] <= latest
      /\ latest \in 0 .. Storage /\ Storage \in Nat /\ n \in Nat
      /\ mem \in [0 .. Storage - 1 -> Vals \cup {NoKey}]
  BY <1>1, CellFacts, KvConstants DEF KvInv, StoreInv, StoreType
<1>3. new = [i \in 1 .. L |-> mem'[o + i - 1]] /\ old = [i \in 1 .. table[x].len |-> mem[o + i - 1]]
  BY <1>1 DEF Held
<1>4. \A j \in Keys \ {k} : Seen'[j] = Seen[j]
  BY <1>1, SeenIs
<1>5. Seen[k] = old /\ Seen'[k] = new
  BY SeenIs
<1> HIDE DEF o, x, old, new, L
<1>6. L <= cell[k] /\ L \in 1 .. Storage
  BY <1>1, <1>2
<1>7. CASE L <= n
  <2>1. \A i \in 1 .. L : o + i - 1 \in o .. o + n - 1
    BY <1>2, <1>6, <1>7
  <2>2. new = [i \in 1 .. L |-> v]
    BY <2>1, <1>1, <1>3
  <2>3. new \in Values
    BY <2>2, <1>6, ValueIs
  <2>4. QED
    BY <2>3, <1>4, <1>5 DEF Map!StoreValue, Map!OthersKept
<1>8. CASE ~(L <= n)
  <2>1. L = table[x].len /\ n < L /\ L \in Nat /\ n \in Nat
    BY <1>1, <1>2, <1>6, <1>8
  <2> DEFINE value == [i \in 1 .. n |-> v]
  <2>2. \A i \in 1 .. L : /\ o + i - 1 \in 0 .. Storage - 1
                          /\ i <= n => o + i - 1 \in o .. o + n - 1
                          /\ ~(i <= n) => o + i - 1 \notin o .. o + n - 1
    BY <2>1, <1>1, <1>2, <1>6
  <2>3. old \in [1 .. L -> Vals \cup {NoKey}] /\ \A i \in 1 .. L : old[i] = mem[o + i - 1]
    BY <2>1, <2>2, <1>2, <1>3
  <2>4. new = [i \in 1 .. L |-> IF i <= n THEN v ELSE old[i]]
    <3>1. \A i \in 1 .. L : mem'[o + i - 1] = IF i <= n THEN v ELSE old[i]
      BY <2>2, <2>3, <1>1
    <3>2. QED
      BY <3>1, <1>3
  <2>5. /\ Len(value) = n /\ Len(old) = L /\ Len(new) = L
        /\ new = value \o SubSeq(old, Len(value) + 1, Len(old))
    <3> DEFINE S == Vals \cup {NoKey}
    <3>1. v \in S /\ value \in [1 .. n -> S] /\ old \in [1 .. L -> S]
          /\ \A i \in 1 .. n : value[i] = v
      BY <2>3
    <3> HIDE DEF value, S
    <3>2. \A i \in 1 .. L : (IF i <= n THEN v ELSE old[i]) \in S
      BY <3>1
    <3>3. new \in [1 .. L -> S] /\ \A i \in 1 .. L : new[i] = IF i <= n THEN v ELSE old[i]
      BY <2>4, <3>2
    <3>4. L \in Nat /\ n \in Nat /\ n < L
      BY <2>1
    <3>5. QED
      <4>1. IsOver(S, L, n, v, old, new, value)
        BY <3>1, <3>3, <3>4 DEF IsOver
      <4>2. QED
        BY <4>1, Overwritten
  <2>6. value \in Values
    <3>1. n \in 1 .. Storage
      BY <2>1, <1>1, <1>2, <1>6
    <3>2. QED
      BY <3>1, ValueIs
  <2> HIDE DEF value
  <2>7. old # <<>>
    BY <2>1, <2>5, <1>1
  <2>8. QED
    BY <2>1, <2>5, <2>6, <2>7, <1>4, <1>5 DEF Map!StoreOver, Map!OthersKept, Map!Missing
<1>9. QED
  BY <1>7, <1>8

LEMMA DeleteMaps ==
  ASSUME KvInv, NEW k \in Keys, Delete(k)
  PROVE  Map!DeleteKey(k, Seen, Seen')
<1> DEFINE x == FindOf(table, home, k)
<1>1. /\ x # Nil /\ table' = [table EXCEPT ![x] = EmptyEntry] /\ mem' = mem /\ home' = home
  BY FindIs DEF Delete, Gone
<1>2. /\ StoreInv /\ StoreInv' /\ Linked(table) /\ home \in [Keys -> SlotIds]
      /\ \A j \in Keys : OnceIn(table, home, j)
      /\ \A s \in SlotIds : ChainOf(table', s) \subseteq ChainOf(table, s)
  BY DeleteKeeps, TableLinked DEF KvInv, StoreInv, StoreType, KeysOnce
<1>3. \A j \in Keys : Linked(table') /\ home' \in [Keys -> SlotIds] /\ OnceIn(table', home', j)
  BY <1>1, <1>2, NextTable
<1>4. /\ x \in SlotIds /\ table[x].len \in 1 .. Storage
      /\ \A t \in ChainOf(table, home[k]) : table[t].key = k => x = t
  BY <1>1, <1>2, CellFacts, FindFacts
<1> HIDE DEF x
<1>5. /\ table'[x].off = Nil /\ \A s \in SlotIds \ {x} : table'[s] = table[s]
  <2>1. table \in [SlotIds -> SlotEntry]
    BY <1>2 DEF StoreInv, StoreType
  <2>2. QED
    BY <2>1, <1>1, <1>4 DEF EmptyEntry
<1>6. \A j \in Keys : \A t \in ChainOf(table', home'[j]) :
        t \in SlotIds \ {x} /\ t \in ChainOf(table, home[j]) /\ table'[t] = table[t]
  <2>1. SUFFICES ASSUME NEW j \in Keys, NEW t \in ChainOf(table', home'[j])
                 PROVE  t \in SlotIds \ {x} /\ t \in ChainOf(table, home[j]) /\ table'[t] = table[t]
    OBVIOUS
  <2>2. home[j] \in SlotIds /\ home'[j] = home[j]
    BY <1>1, <1>2
  <2>3. t \in SlotIds /\ UsedIn(table', t)
    BY <2>1, <2>2, <1>3, ChainFacts
  <2>4. t # x
    BY <2>3, <1>5 DEF UsedIn
  <2>5. QED
    BY <2>1, <2>2, <2>3, <2>4, <1>2, <1>5
<1>7. Held(table, home, mem, k) # <<>>
  <2>1. Held(table, home, mem, k) = [i \in 1 .. table[x].len |-> mem[table[x].off + i - 1]]
    BY <1>1 DEF Held, x
  <2> DEFINE L == table[x].len
  <2>2. L \in Nat /\ L >= 1
    BY <1>4
  <2> HIDE DEF L
  <2>3. 1 \in DOMAIN Held(table, home, mem, k)
    BY <2>1, <2>2 DEF L
  <2>4. QED
    BY <2>3
<1>8. Held(table', home', mem', k) = <<>>
  <2>1. \A t \in ChainOf(table', home'[k]) : table'[t].key # k
    BY <1>4, <1>6
  <2>2. FindOf(table', home', k) = Nil
    BY <2>1, <1>3, FindFacts
  <2>3. QED
    BY <2>2 DEF Held
<1>9. ASSUME NEW j \in Keys, FindOf(table', home', j) # Nil
      PROVE  Held(table', home', mem', j) = Held(table, home, mem, j)
  <2> DEFINE y == FindOf(table', home', j)
  <2>1. y \in ChainOf(table', home'[j]) /\ table'[y].key = j
    BY <1>3, <1>9, FindFacts
  <2>2. y \in ChainOf(table, home[j]) /\ table'[y] = table[y]
    BY <2>1, <1>6
  <2>3. FindOf(table, home, j) = y
    <3> HIDE DEF y
    <3>1. QED
      BY <2>1, <2>2, <1>2, FindFacts
  <2>4. QED
    BY <2>2, <2>3, <1>1, <1>9 DEF Held
<1>10. \A j \in Keys : Held(table', home', mem', j) \in {Held(table, home, mem, j), <<>>}
  BY <1>9 DEF Held
<1>11. QED
  BY <1>7, <1>8, <1>10, SeenIs DEF Map!DeleteKey, Map!Missing

LEMMA MapStep == KvInv /\ [KvNext]_kvVars => [Map!MapNext]_Seen
<1> SUFFICES ASSUME KvInv, [KvNext]_kvVars, Seen' # Seen PROVE Map!MapNext
  OBVIOUS
<1>1. UNCHANGED <<home, table, mem>> => Seen' = Seen
  BY SeenIs
<1>2. \E k \in Keys : \/ Map!DeleteKey(k, Seen, Seen')
                      \/ Map!StoreValue(k, Seen, Seen')
                      \/ Map!StoreOver(k, Seen, Seen')
  <2>1. CASE UNCHANGED kvVars
    BY <2>1, <1>1 DEF kvVars
  <2>2. ASSUME NEW k \in Keys, NEW v \in Vals, NEW n \in 1 .. kconf.maxlen,
               Insert(k, v, n) \/ Update(k, v, n) \/ BatchUpdate(k, v, n)
        PROVE  \/ Map!StoreValue(k, Seen, Seen')
               \/ Map!StoreOver(k, Seen, Seen')
    BY <2>2, InsertMaps, UpdateMaps
  <2>3. ASSUME NEW k \in Keys, Delete(k) PROVE Map!DeleteKey(k, Seen, Seen')
    BY <2>3, DeleteMaps
  <2>4. CASE IterOpen
    BY <2>4, <1>1 DEF IterOpen
  <2>5. CASE \E h \in 1 .. kconf.handles : IterClose(h) \/ IterRead(h)
    BY <2>5, <1>1 DEF IterClose, IterRead
  <2>6. QED
    BY <2>1, <2>2, <2>3, <2>4, <2>5 DEF KvNext
<1>3. QED
  BY <1>2 DEF Map!MapNext

LEMMA MapStart == KvInit => Map!MapInit
<1> SUFFICES ASSUME KvInit PROVE Map!MapInit
  OBVIOUS
<1>1. KvInv /\ table = [s \in SlotIds |-> EmptyEntry]
  BY KvInitInv DEF KvInit
<1>2. ASSUME NEW k \in Keys PROVE Held(table, home, mem, k) = <<>>
  <2>1. SUFFICES ASSUME FindOf(table, home, k) # Nil PROVE FALSE
    BY DEF Held
  <2>2. FindOf(table, home, k) \in SlotIds /\ table[FindOf(table, home, k)].off # Nil
    BY <1>1, <2>1, FoundIn DEF KvInv
  <2>3. QED
    BY <2>2, <1>1 DEF EmptyEntry
<1>3. QED
  BY <1>2, SeenIs DEF Map!MapInit, Map!Missing

-----------------------------------------------------------------------------
LEMMA KvHolds == NsSpec => []KvInv
<1>1. NsInit => KvInv
  BY KvInitInv DEF NsInit
<1>2. KvInv /\ [NsNext]_nsVars => KvInv'
  <2>1. [NsNext]_nsVars => [KvNext]_kvVars
    BY DEF NsNext, nsVars
  <2>2. QED
    BY <2>1, KvStep
<1>3. QED
  BY <1>1, <1>2, PTL DEF NsSpec

\* A chain ends and holds a key once, and no two keys' values share a unit, however many keys
\* collide and whichever entries of a chain are wiped (new_mapping_entry, find_next_slot and
\* delete_mapping_entry in kv_ftl.c, append_only_allocate).
THEOREM CellsKeptApart == NsSpec => []CellsApart
<1>1. QED
  BY KvHolds, InvApart, PTL

\* An iterator that reports its end has listed once every key there was when it was opened,
\* whatever is stored during the scan (kv_iter_read in kv_ftl.c).
THEOREM ScansComplete == NsSpec => []ScanComplete
<1>1. QED
  BY KvHolds, InvScan, PTL

\* The hash table, its chains, the allocator and the two ways to store implement a
\* dictionary: a key is found with the value last stored.
THEOREM StoreIsMap == NsSpec => KvIsMap
<1>1. KvInv /\ [NsNext]_nsVars => [Map!MapNext]_Seen
  <2>1. [NsNext]_nsVars => [KvNext]_kvVars
    BY DEF NsNext, nsVars
  <2>2. QED
    BY <2>1, MapStep
<1>2. NsInit => Map!MapInit
  BY MapStart DEF NsInit
<1>3. QED
  BY <1>1, <1>2, KvHolds, PTL DEF NsSpec, KvIsMap, Map!MapSpec

LEMMA InvTypedZns == ZoneInv /\ RoomInv => ZnsTypeOK
<1> SUFFICES ASSUME ZoneInv, RoomInv PROVE ZnsTypeOK
  OBVIOUS
<1>1. open_cnt = OpenAmong(Zones) /\ active_cnt = ActiveAmong(Zones)
  BY DEF ZoneInv, ZoneCounts
<1>2. OpenAmong(Zones) \in 0 .. Total /\ ActiveAmong(Zones) \in 0 .. Total
  <2>1. ASSUME NEW A \in SUBSET Zones PROVE Cardinality(A) \in 0 .. Total
    <3>1. IsFiniteSet(Zones)
      BY ZnsAssumption
    <3>2. Cardinality(A) \in Nat /\ Cardinality(Zones) \in Nat /\ Cardinality(A) <= Cardinality(Zones)
      BY <3>1, FS_Subset, FS_CardinalityType
    <3>3. QED
      BY <3>2 DEF Total
  <2>2. /\ {z \in Zones : state[z] \in Opened} \in SUBSET Zones
        /\ {z \in Zones : state[z] \in Opened \cup {"closed"}} \in SUBSET Zones
    OBVIOUS
  <2>3. QED
    BY <2>1, <2>2 DEF OpenAmong, ActiveAmong
<1>3. ASSUME NEW b \in Buffers PROVE space[b] \in 0 .. zconf.size + MaxZnsSurplus
  <2> DEFINE F == due_full[b] * WordlineLbas
             T == due_tail[b] * TailSize
  <2>1. space[b] + F + T <= zconf.size + MaxZnsSurplus
    BY DEF RoomInv, Returning
  <2>2. F \in Nat /\ T \in Nat /\ space[b] \in Nat
    BY RoomTyped
  <2>3. zconf.size \in Nat /\ MaxZnsSurplus \in Nat
    BY ConfigIs
  <2> HIDE DEF F, T
  <2>4. QED
    BY <2>1, <2>2, <2>3
<1>4. space \in [Buffers -> 0 .. zconf.size + MaxZnsSurplus]
  BY <1>3 DEF RoomInv
<1>5. QED
  BY <1>1, <1>2, <1>4 DEF ZoneInv, ZoneType, ZoneStates, RoomInv, ZnsTypeOK

\* Every variable of every FTL keeps its type: no count of zones passes their number, no
\* buffer more than its size and the bound on what writes that end within a page add, no
\* value runs out of the storage and no credit or line out of its bounds.
THEOREM NamespacesTyped == NsSpec => []NsTypeOK
<1>1. NsInit => ZoneInv /\ RoomInv
  BY ZnsStart, RoomStart DEF NsInit
<1>2. ZoneInv /\ RoomInv /\ [NsNext]_nsVars => ZoneInv' /\ RoomInv'
  <2>1. [NsNext]_nsVars => [ZnsNext]_znsVars
    BY DEF NsNext, nsVars
  <2>2. QED
    BY <2>1, ZnsStep, RoomStep
<1>3. ConvInv => ConvTypeOK
  BY DEF ConvInv
<1>4. ConvTypeOK /\ KvTypeOK /\ ZnsTypeOK => NsTypeOK
  BY DEF NsTypeOK
<1>5. QED
  BY <1>1, <1>2, <1>3, <1>4, ConvHolds, KvHolds, InvTyped, InvTypedZns, PTL DEF NsSpec
=============================================================================
