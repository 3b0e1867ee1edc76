-------------------------- MODULE IoWorkerProofs --------------------------
(***************************************************************************)
(* The I/O path while the dispatcher alone enqueues, which is so when the  *)
(* path is switched only when all is quiet, or never: the lists stay lists *)
(* and the types types, every command under way is in exactly one place,   *)
(* the host finds each completion once, and no buffer space is released    *)
(* twice.                                                                  *)
(***************************************************************************)
EXTENDS IoWorkerInv

-----------------------------------------------------------------------------
(* The order behind the two lists of a worker                              *)

\* The order after the first free entry was put at place k of the live list, and after
\* the first k live entries went behind the free ones.
Inserted(s, m, k, N) ==
  [i \in 0 .. N - 1 |-> IF i < k \/ i > m THEN s[i] ELSE IF i = k THEN s[m] ELSE s[i - 1]]
Rotated(s, k, N) == [i \in 0 .. N - 1 |-> IF i + k < N THEN s[i + k] ELSE s[i + k - N]]

\* Such an order names entries only.
LEMMA InOrder ==
  ASSUME NEW N \in Nat \ {0}, NEW s, Order(N, s)
  PROVE  \A i \in 0 .. N - 1 : s[i] \in 0 .. N - 1 /\ s[i] # Nil
<1>1. \A i \in 0 .. N - 1 : s[i] \in 0 .. N - 1
  BY DEF Order
<1>2. \A e \in 0 .. N - 1 : e # Nil
  BY DEF Nil
<1>3. QED
  BY <1>1, <1>2

\* An entry put further up leaves an order of all entries.
LEMMA InsertOrder ==
  ASSUME NEW N \in Nat \ {0}, NEW s, Order(N, s), NEW m \in 0 .. N - 1, NEW k \in 0 .. m
  PROVE  Order(N, Inserted(s, m, k, N))
<1> DEFINE t == Inserted(s, m, k, N)
<1>1. \A i \in 0 .. N - 1 : s[i] \in 0 .. N - 1
  BY DEF Order
<1>2. t \in [0 .. N - 1 -> 0 .. N - 1]
  BY <1>1 DEF Inserted
<1>3. \A i, j \in 0 .. N - 1 : s[i] = s[j] => i = j
  BY DEF Order
<1>4. ASSUME NEW i \in 0 .. N - 1, NEW j \in 0 .. N - 1, t[i] = t[j] PROVE i = j
  <2> DEFINE b(x) == IF x < k \/ x > m THEN x ELSE IF x = k THEN m ELSE x - 1
  <2>1. t[i] = s[b(i)] /\ t[j] = s[b(j)] /\ b(i) \in 0 .. N - 1 /\ b(j) \in 0 .. N - 1
    BY DEF Inserted
  <2>2. b(i) = b(j)
    <3> HIDE DEF t, b
    <3>1. QED
      BY <2>1, <1>4, <1>3, Zenon
  <2>3. QED
    BY <2>2
<1>5. ASSUME NEW e \in 0 .. N - 1 PROVE \E i \in 0 .. N - 1 : t[i] = e
  <2>1. PICK j \in 0 .. N - 1 : s[j] = e
    BY DEF Order
  <2>2. CASE j < k \/ j > m
    BY <2>1, <2>2 DEF Inserted
  <2>3. CASE j = m
    <3>1. t[k] = e /\ k \in 0 .. N - 1
      BY <2>1, <2>3 DEF Inserted
    <3>2. QED
      BY <3>1
  <2>4. CASE j >= k /\ j < m
    <3>1. t[j + 1] = e /\ j + 1 \in 0 .. N - 1
      BY <2>1, <2>4 DEF Inserted
    <3>2. QED
      BY <3>1
  <2>5. QED
    BY <2>2, <2>3, <2>4
<1>6. QED
  BY <1>2, <1>4, <1>5 DEF Order

\* So do the first k moved to the end.
LEMMA RotateOrder ==
  ASSUME NEW N \in Nat \ {0}, NEW s, Order(N, s), NEW k \in 0 .. N - 1
  PROVE  Order(N, Rotated(s, k, N))
<1> DEFINE t == Rotated(s, k, N)
<1>1. \A i \in 0 .. N - 1 : s[i] \in 0 .. N - 1
  BY DEF Order
<1>2. t \in [0 .. N - 1 -> 0 .. N - 1]
  BY <1>1 DEF Rotated
<1>3. \A i, j \in 0 .. N - 1 : s[i] = s[j] => i = j
  BY DEF Order
<1>4. ASSUME NEW i \in 0 .. N - 1, NEW j \in 0 .. N - 1, t[i] = t[j] PROVE i = j
  <2> DEFINE b(x) == IF x + k < N THEN x + k ELSE x + k - N
  <2>1. t[i] = s[b(i)] /\ t[j] = s[b(j)] /\ b(i) \in 0 .. N - 1 /\ b(j) \in 0 .. N - 1
    BY DEF Rotated
  <2>2. b(i) = b(j)
    <3> HIDE DEF t, b
    <3>1. QED
      BY <2>1, <1>4, <1>3, Zenon
  <2>3. QED
    BY <2>2
<1>5. ASSUME NEW e \in 0 .. N - 1 PROVE \E i \in 0 .. N - 1 : t[i] = e
  <2>1. PICK j \in 0 .. N - 1 : s[j] = e
    BY DEF Order
  <2>2. CASE j >= k
    <3>1. t[j - k] = e /\ j - k \in 0 .. N - 1
      BY <2>1, <2>2 DEF Rotated
    <3>2. QED
      BY <3>1
  <2>3. CASE j < k
    <3>1. t[j + N - k] = e /\ j + N - k \in 0 .. N - 1
      BY <2>1, <2>3 DEF Rotated
    <3>2. QED
      BY <3>1
  <2>4. QED
    BY <2>2, <2>3
<1>6. QED
  BY <1>2, <1>4, <1>5 DEF Order

\* A new entry goes behind p, at place k, and before what followed it.
Insertion(N, s, m, k, nx, pv, first, last, free, free_end, p, succ, nx2, pv2) ==
  /\ N \in Nat \ {0} /\ m \in 0 .. N - 1 /\ m < N - 1 /\ k \in 0 .. m
  /\ Order(N, s) /\ Linked(N, s, m, nx, pv) /\ Ends(N, s, m, first, last, free, free_end)
  /\ p = IF k = 0 THEN Nil ELSE s[k - 1]
  /\ succ = IF p = Nil THEN first ELSE nx[p]
  /\ \A x \in 0 .. N - 1 : nx2[x] = IF x = free THEN succ ELSE IF x = p THEN free ELSE nx[x]
  /\ \A x \in 0 .. N - 1 : pv2[x] = IF x = free THEN p ELSE IF x = succ THEN free ELSE pv[x]

\* The links then are those of the order with the new entry at place k.
LEMMA InsertLinked ==
  ASSUME NEW N, NEW s, NEW m, NEW k, NEW nx, NEW pv, NEW first, NEW last, NEW free, NEW free_end,
         NEW p, NEW succ, NEW nx2, NEW pv2,
         Insertion(N, s, m, k, nx, pv, first, last, free, free_end, p, succ, nx2, pv2)
  PROVE  /\ Linked(N, Inserted(s, m, k, N), m + 1, nx2, pv2)
         /\ Ends(N, Inserted(s, m, k, N), m + 1, IF p = Nil THEN free ELSE first,
                 IF succ = Nil THEN free ELSE last, nx[free], free_end)
<1> DEFINE t == Inserted(s, m, k, N)
<1>0. /\ \A x \in 0 .. N - 1 : nx2[x] = IF x = free THEN succ ELSE IF x = p THEN free ELSE nx[x]
      /\ \A x \in 0 .. N - 1 : pv2[x] = IF x = free THEN p ELSE IF x = succ THEN free ELSE pv[x]
      /\ N \in Nat \ {0} /\ m \in 0 .. N - 1 /\ m < N - 1 /\ k \in 0 .. m
      /\ Order(N, s) /\ Linked(N, s, m, nx, pv) /\ Ends(N, s, m, first, last, free, free_end)
      /\ p = IF k = 0 THEN Nil ELSE s[k - 1]
      /\ succ = IF p = Nil THEN first ELSE nx[p]
  BY DEF Insertion
<1> USE <1>0
<1>1. \A i \in 0 .. N - 1 : s[i] \in 0 .. N - 1 /\ s[i] # Nil
  BY InOrder
<1>2. \A i, j \in 0 .. N - 1 : s[i] = s[j] => i = j
  BY DEF Order
<1>3. /\ free = s[m] /\ m + 1 \in 0 .. N - 1 /\ (k = 0 => p = Nil) /\ (k > 0 => p = s[k - 1] /\ p # Nil)
      /\ succ = IF k = m THEN Nil ELSE s[k]
  <2>1. free = s[m] /\ m + 1 \in 0 .. N - 1 /\ (k = 0 => p = Nil) /\ (k > 0 => p = s[k - 1] /\ p # Nil)
    BY <1>1 DEF Ends
  <2>2. CASE k = 0
    BY <2>1, <2>2 DEF Ends
  <2>3. CASE k > 0
    <3>1. nx[s[k - 1]] = IF k - 1 = m - 1 \/ k - 1 = N - 1 THEN Nil ELSE s[k - 1 + 1]
      BY <2>3 DEF Linked
    <3>2. k - 1 + 1 = k /\ k - 1 # N - 1
      BY <2>3
    <3>3. QED
      BY <2>1, <2>3, <3>1, <3>2
  <2>4. QED
    BY <2>1, <2>2, <2>3
<1>4. \A i \in 0 .. N - 1 : t[i] = IF i < k \/ i > m THEN s[i] ELSE IF i = k THEN s[m] ELSE s[i - 1]
  BY DEF Inserted
<1>5. \A i \in 0 .. N - 1 : nx[s[i]] = IF i = m - 1 \/ i = N - 1 THEN Nil ELSE s[i + 1]
  BY DEF Linked
<1>6. \A i \in 0 .. m - 1 : pv[s[i]] = IF i = 0 THEN Nil ELSE s[i - 1]
  BY DEF Linked
<1> HIDE DEF t
<1>7. ASSUME NEW i \in 0 .. N - 1 PROVE nx2[t[i]] = IF i = m + 1 - 1 \/ i = N - 1 THEN Nil ELSE t[i + 1]
  <2>1. CASE i < k
    <3>1. t[i] = s[i] /\ i # m /\ i # N - 1 /\ i + 1 \in 0 .. N - 1 /\ nx[s[i]] = IF i = m - 1 THEN Nil ELSE s[i + 1]
      BY <2>1, <1>4, <1>5
    <3>2. CASE i = k - 1
      <4>1. k > 0 /\ i + 1 = k /\ t[i + 1] = s[m] /\ t[i] = p /\ t[i] # free
        BY <3>1, <3>2, <1>3, <1>4, <1>2
      <4>2. nx2[t[i]] = free
        BY <4>1, <3>1, <1>0, <1>1
      <4>3. QED
        BY <4>1, <4>2, <3>1, <1>3
    <3>3. CASE i # k - 1
      <4>1. i + 1 < k /\ i # m - 1 /\ t[i + 1] = s[i + 1]
        BY <3>1, <3>3, <2>1, <1>4
      <4>2. s[i] # free /\ s[i] # p
        <5>1. s[i] # s[m]
          BY <2>1, <1>2
        <5>2. s[i] # s[k - 1]
          BY <2>1, <3>3, <1>2
        <5>3. QED
          BY <5>1, <5>2, <1>3, <2>1
      <4>3. nx2[s[i]] = nx[s[i]]
        BY <4>2, <1>0, <1>1
      <4>4. QED
        BY <4>1, <4>3, <3>1
    <3>4. QED
      BY <3>2, <3>3
  <2>2. CASE i = k
    <3>1. t[i] = free /\ nx2[t[i]] = succ
      BY <2>2, <1>0, <1>1, <1>3, <1>4
    <3>2. CASE k = m
      BY <3>1, <3>2, <2>2, <1>3
    <3>3. CASE k # m
      <4>1. i + 1 \in 0 .. N - 1 /\ ~(i + 1 < k) /\ ~(i + 1 > m) /\ i + 1 # k /\ i + 1 - 1 = k /\ i # m /\ i # N - 1
        BY <2>2, <3>3
      <4>2. t[i + 1] = s[k]
        BY <4>1, <1>4
      <4>3. QED
        BY <4>1, <4>2, <3>1, <3>3, <1>3
    <3>4. QED
      BY <3>2, <3>3
  <2>3. CASE i > k /\ i <= m
    <3>1. t[i] = s[i - 1] /\ i - 1 \in 0 .. N - 1 /\ i - 1 # N - 1 /\ i - 1 # m /\ i - 1 + 1 = i
      BY <2>3, <1>4
    <3>2. s[i - 1] # free /\ (k > 0 => s[i - 1] # p)
      <4>1. s[i - 1] # s[m]
        BY <3>1, <1>2
      <4>2. k > 0 => s[i - 1] # s[k - 1]
        BY <3>1, <2>3, <1>2
      <4>3. QED
        BY <4>1, <4>2, <1>3
    <3>3. nx2[s[i - 1]] = nx[s[i - 1]]
      BY <3>1, <3>2, <1>0, <1>1, <1>3
    <3>4. nx[s[i - 1]] = IF i - 1 = m - 1 THEN Nil ELSE s[i]
      BY <3>1, <1>5
    <3>5. CASE i = m
      BY <3>1, <3>3, <3>4, <3>5
    <3>6. CASE i # m
      <4>1. i + 1 \in 0 .. N - 1 /\ ~(i + 1 < k) /\ ~(i + 1 > m) /\ i + 1 # k /\ i + 1 - 1 = i /\ i # N - 1
        BY <2>3, <3>6
      <4>2. t[i + 1] = s[i]
        BY <4>1, <1>4
      <4>3. QED
        BY <4>1, <4>2, <3>1, <3>3, <3>4, <3>6
    <3>7. QED
      BY <3>5, <3>6
  <2>4. CASE i > m
    <3>1. t[i] = s[i] /\ i # m /\ i # m - 1
      BY <2>4, <1>4
    <3>2. s[i] # free /\ (k > 0 => s[i] # p)
      <4>1. s[i] # s[m]
        BY <2>4, <1>2
      <4>2. k > 0 => s[i] # s[k - 1]
        BY <2>4, <1>2
      <4>3. QED
        BY <4>1, <4>2, <1>3
    <3>3. nx2[s[i]] = nx[s[i]]
      BY <3>2, <1>0, <1>1, <1>3
    <3>4. i # N - 1 => t[i + 1] = s[i + 1]
      BY <2>4, <1>4
    <3>5. QED
      BY <3>1, <3>3, <3>4, <1>5
  <2>5. QED
    BY <2>1, <2>2, <2>3, <2>4
<1>8. ASSUME NEW i \in 0 .. m + 1 - 1 PROVE pv2[t[i]] = IF i = 0 THEN Nil ELSE t[i - 1]
  <2>0. i \in 0 .. N - 1 /\ i \in 0 .. m
    OBVIOUS
  <2>1. CASE i < k
    <3>1. t[i] = s[i] /\ i \in 0 .. m - 1 /\ (i # 0 => t[i - 1] = s[i - 1])
      BY <2>0, <2>1, <1>4
    <3>2. s[i] # free /\ s[i] # succ
      <4>1. s[i] # s[m] /\ s[i] # s[k]
        BY <2>0, <2>1, <1>2
      <4>2. QED
        BY <4>1, <1>1, <1>3, <2>0
    <3>3. QED
      BY <3>1, <3>2, <1>0, <1>1, <1>6, <2>0
  <2>2. CASE i = k
    <3>1. t[i] = free /\ pv2[t[i]] = p
      BY <2>0, <2>2, <1>0, <1>1, <1>3, <1>4
    <3>2. i # 0 => t[i - 1] = s[k - 1]
      BY <2>0, <2>2, <1>4
    <3>3. QED
      BY <3>1, <3>2, <2>2, <1>3
  <2>3. CASE i > k
    <3>1. t[i] = s[i - 1] /\ i - 1 \in 0 .. m - 1 /\ i - 1 \in 0 .. N - 1 /\ i # 0 /\ i - 1 # m /\ k # m
      BY <2>0, <2>3, <1>4
    <3>2. s[i - 1] # free /\ succ = s[k]
      BY <3>1, <1>2, <1>3
    <3>3. CASE i - 1 = k
      <4>1. t[i - 1] = s[m] /\ s[i - 1] = succ
        BY <3>1, <3>2, <3>3, <1>4
      <4>2. QED
        BY <4>1, <3>1, <3>2, <1>0, <1>1, <1>3
    <3>4. CASE i - 1 # k
      <4>1. s[i - 1] # succ
        BY <3>1, <3>2, <3>4, <1>2
      <4>2. pv2[s[i - 1]] = pv[s[i - 1]]
        BY <4>1, <3>1, <3>2, <1>0, <1>1
      <4>3. i - 1 # 0 /\ pv[s[i - 1]] = s[i - 1 - 1]
        BY <3>1, <3>4, <2>3, <1>6
      <4>4. t[i - 1] = s[i - 1 - 1]
        BY <3>1, <3>4, <2>3, <1>4
      <4>5. QED
        BY <4>2, <4>3, <4>4, <3>1
    <3>5. QED
      BY <3>3, <3>4
  <2>4. QED
    BY <2>0, <2>1, <2>2, <2>3
<1>9. Linked(N, t, m + 1, nx2, pv2)
  BY <1>7, <1>8 DEF Linked
<1>10. Ends(N, t, m + 1, IF p = Nil THEN free ELSE first, IF succ = Nil THEN free ELSE last, nx[free], free_end)
  <2>1. t[0] = IF p = Nil THEN free ELSE first
    <3>1. k # 0 => t[0] = s[0] /\ m # 0
      BY <1>4
    <3>2. k = 0 => t[0] = s[m]
      BY <1>4
    <3>3. QED
      BY <3>1, <3>2, <1>3 DEF Ends
  <2>2. t[m] = IF succ = Nil THEN free ELSE last
    <3>1. CASE k = m
      <4>1. t[m] = s[m]
        BY <3>1, <1>4
      <4>2. QED
        BY <4>1, <3>1, <1>3
    <3>2. CASE k # m
      <4>1. t[m] = s[m - 1] /\ m > 0 /\ succ # Nil
        BY <3>2, <1>0, <1>1, <1>3, <1>4
      <4>2. QED
        BY <4>1 DEF Ends
    <3>3. QED
      BY <3>1, <3>2
  <2>3. nx[free] = s[m + 1]
    BY <1>3, <1>5
  <2>4. t[m + 1] = s[m + 1] /\ t[N - 1] = s[N - 1] /\ m + 1 - 1 = m /\ m + 1 > 0 /\ m + 1 # 0
    BY <1>4
  <2>5. QED
    BY <2>1, <2>2, <2>3, <2>4 DEF Ends
<1>11. QED
  BY <1>9, <1>10 DEF t

\* The first k live entries go behind the free ones.
Rotation(N, s, m, k, nx, pv, first, last, free, free_end, nx2, pv2) ==
  /\ N \in Nat \ {0} /\ m \in 0 .. N - 1 /\ k \in 1 .. m
  /\ Order(N, s) /\ Linked(N, s, m, nx, pv) /\ Ends(N, s, m, first, last, free, free_end)
  /\ \A x \in 0 .. N - 1 :
       nx2[x] = IF x = s[k - 1] THEN Nil ELSE IF x = free_end THEN first ELSE nx[x]
  /\ \A x \in 0 .. N - 1 :
       pv2[x] = IF x = nx[s[k - 1]] THEN Nil ELSE IF x = first THEN free_end ELSE pv[x]

\* The links then are those of the order with its first k at the end.
LEMMA RotateLinked ==
  ASSUME NEW N, NEW s, NEW m, NEW k, NEW nx, NEW pv, NEW first, NEW last, NEW free, NEW free_end,
         NEW nx2, NEW pv2, Rotation(N, s, m, k, nx, pv, first, last, free, free_end, nx2, pv2)
  PROVE  /\ Linked(N, Rotated(s, k, N), m - k, nx2, pv2)
         /\ Ends(N, Rotated(s, k, N), m - k, nx[s[k - 1]], last, free, s[k - 1])
<1> DEFINE t == Rotated(s, k, N)
<1>0. /\ N \in Nat \ {0} /\ m \in 0 .. N - 1 /\ k \in 1 .. m
      /\ Order(N, s) /\ Linked(N, s, m, nx, pv) /\ Ends(N, s, m, first, last, free, free_end)
      /\ \A x \in 0 .. N - 1 :
           nx2[x] = IF x = s[k - 1] THEN Nil ELSE IF x = free_end THEN first ELSE nx[x]
      /\ \A x \in 0 .. N - 1 :
           pv2[x] = IF x = nx[s[k - 1]] THEN Nil ELSE IF x = first THEN free_end ELSE pv[x]
  BY DEF Rotation
<1> USE <1>0
<1>1. \A i \in 0 .. N - 1 : s[i] \in 0 .. N - 1 /\ s[i] # Nil
  BY InOrder
<1>2. \A i, j \in 0 .. N - 1 : s[i] = s[j] => i = j
  BY DEF Order
<1>3. \A i \in 0 .. N - 1 : t[i] = IF i + k < N THEN s[i + k] ELSE s[i + k - N]
  BY DEF Rotated
<1>4. first = s[0] /\ last = s[m - 1] /\ free = s[m] /\ free_end = s[N - 1] /\ k - 1 \in 0 .. N - 1
  BY DEF Ends
<1>5. \A i \in 0 .. N - 1 : nx[s[i]] = IF i = m - 1 \/ i = N - 1 THEN Nil ELSE s[i + 1]
  BY DEF Linked
<1>6. \A i \in 0 .. m - 1 : pv[s[i]] = IF i = 0 THEN Nil ELSE s[i - 1]
  BY DEF Linked
<1>7. nx[s[k - 1]] = IF k = m THEN Nil ELSE s[k]
  <2>1. nx[s[k - 1]] = IF k - 1 = m - 1 \/ k - 1 = N - 1 THEN Nil ELSE s[k - 1 + 1]
    BY <1>4, <1>5
  <2>2. k - 1 + 1 = k /\ (k - 1 = N - 1 <=> FALSE)
    OBVIOUS
  <2>3. QED
    BY <2>1, <2>2
<1> HIDE DEF t
<1>8. ASSUME NEW i \in 0 .. N - 1 PROVE nx2[t[i]] = IF i = m - k - 1 \/ i = N - 1 THEN Nil ELSE t[i + 1]
  <2>1. CASE i + k < N - 1
    <3>1. t[i] = s[i + k] /\ i + k \in 0 .. N - 1 /\ i # N - 1 /\ t[i + 1] = s[i + k + 1]
      BY <2>1, <1>3
    <3>2. s[i + k] # s[k - 1] /\ s[i + k] # s[N - 1]
      BY <2>1, <3>1, <1>2
    <3>3. nx2[s[i + k]] = nx[s[i + k]]
      BY <3>1, <3>2, <1>1, <1>4
    <3>4. nx[s[i + k]] = IF i + k = m - 1 THEN Nil ELSE s[i + k + 1]
      BY <2>1, <3>1, <1>5
    <3>5. i + k = m - 1 <=> i = m - k - 1
      OBVIOUS
    <3>6. QED
      BY <3>1, <3>3, <3>4, <3>5
  <2>2. CASE i + k = N - 1
    <3>1. t[i] = s[N - 1] /\ i # m - k - 1 /\ i # N - 1 /\ t[i + 1] = s[0]
      BY <2>2, <1>3
    <3>2. s[N - 1] # s[k - 1]
      BY <1>2
    <3>3. QED
      BY <3>1, <3>2, <1>1, <1>4
  <2>3. CASE i + k > N - 1 /\ i # N - 1
    <3>1. t[i] = s[i + k - N] /\ i + k - N \in 0 .. N - 1 /\ i # m - k - 1 /\ t[i + 1] = s[i + k - N + 1]
      BY <2>3, <1>3
    <3>2. s[i + k - N] # s[k - 1] /\ s[i + k - N] # s[N - 1]
      BY <2>3, <3>1, <1>2
    <3>3. nx2[s[i + k - N]] = nx[s[i + k - N]]
      BY <3>1, <3>2, <1>1, <1>4
    <3>4. nx[s[i + k - N]] = s[i + k - N + 1]
      BY <2>3, <3>1, <1>5
    <3>5. QED
      BY <2>3, <3>1, <3>3, <3>4
  <2>4. CASE i = N - 1
    <3>1. t[i] = s[k - 1]
      BY <2>4, <1>3
    <3>2. QED
      BY <3>1, <2>4, <1>1, <1>4
  <2>5. QED
    BY <2>1, <2>2, <2>3, <2>4
<1>9. ASSUME NEW i \in 0 .. m - k - 1 PROVE pv2[t[i]] = IF i = 0 THEN Nil ELSE t[i - 1]
  <2>1. t[i] = s[i + k] /\ i + k \in 0 .. m - 1 /\ i + k \in 0 .. N - 1 /\ k # m
    BY <1>3
  <2>2. CASE i = 0
    BY <2>1, <2>2, <1>1, <1>7
  <2>3. CASE i # 0
    <3>1. s[i + k] # s[k] /\ s[i + k] # s[0] /\ t[i - 1] = s[i + k - 1]
      BY <2>1, <2>3, <1>2, <1>3
    <3>2. pv2[s[i + k]] = pv[s[i + k]]
      BY <2>1, <3>1, <1>1, <1>4, <1>7
    <3>3. pv[s[i + k]] = s[i + k - 1]
      BY <2>1, <2>3, <1>6
    <3>4. QED
      BY <2>1, <2>3, <3>1, <3>2, <3>3
  <2>4. QED
    BY <2>2, <2>3
<1>10. Linked(N, t, m - k, nx2, pv2)
  BY <1>8, <1>9 DEF Linked
<1>11. Ends(N, t, m - k, nx[s[k - 1]], last, free, s[k - 1])
  <2>1. t[0] = s[k] /\ t[m - k] = s[m] /\ t[N - 1] = s[k - 1] /\ (k = m <=> m - k = 0)
    BY <1>3
  <2>2. m - k > 0 => t[m - k - 1] = s[m - 1]
    BY <1>3
  <2>3. QED
    BY <2>1, <2>2, <1>4, <1>7 DEF Ends
<1>12. QED
  BY <1>10, <1>11 DEF t

\* What is done to the entries: something new to do at the first free one.
LEMMA InsertLoaded ==
  ASSUME NEW N \in Nat \ {0}, NEW s, Order(N, s), NEW m \in 0 .. N - 1, NEW k \in 0 .. m,
         NEW entries, Loaded(N, s, m, entries),
         NEW entries2, \A x \in 0 .. N - 1 : x # s[m] => entries2[x] = entries[x],
         ~entries2[s[m]].completed, Steady => entries2[s[m]].op # None
  PROVE  Loaded(N, Inserted(s, m, k, N), m + 1, entries2)
<1> DEFINE t == Inserted(s, m, k, N)
<1>1. \A i \in 0 .. N - 1 : s[i] \in 0 .. N - 1 /\ s[i] # Nil
  BY InOrder
<1>2. \A i \in 0 .. N - 1 : i # m => s[i] # s[m]
  BY DEF Order
<1>3. \A i \in 0 .. N - 1 : i # m => entries2[s[i]] = entries[s[i]]
  BY <1>1, <1>2
<1>4. \A i \in 0 .. N - 1 : t[i] = IF i < k \/ i > m THEN s[i] ELSE IF i = k THEN s[m] ELSE s[i - 1]
  BY DEF Inserted
<1> HIDE DEF t
<1>5. ASSUME NEW i \in 0 .. N - 1, entries2[t[i]].op # None PROVE i < m + 1 /\ ~entries2[t[i]].completed
  <2>1. CASE i = k
    BY <2>1, <1>4
  <2>2. CASE i < k \/ i > m
    BY <2>2, <1>3, <1>4, <1>5 DEF Loaded
  <2>3. CASE i > k /\ i <= m
    <3>1. t[i] = s[i - 1] /\ i - 1 \in 0 .. N - 1 /\ i - 1 # m
      BY <2>3, <1>4
    <3>2. QED
      BY <3>1, <2>3, <1>3, <1>5 DEF Loaded
  <2>4. QED
    BY <2>1, <2>2, <2>3
<1>6. ASSUME Steady, NEW i \in 0 .. m + 1 - 1 PROVE entries2[t[i]].completed \/ entries2[t[i]].op # None
  <2>1. CASE i = k
    BY <2>1, <1>4, <1>6
  <2>2. CASE i < k
    BY <2>2, <1>3, <1>4, <1>6 DEF Loaded
  <2>3. CASE i > k
    <3>1. t[i] = s[i - 1] /\ i - 1 \in 0 .. m - 1 /\ i - 1 # m
      BY <2>3, <1>4
    <3>2. QED
      BY <3>1, <2>3, <1>3, <1>6 DEF Loaded
  <2>4. QED
    BY <2>1, <2>2, <2>3
<1>7. QED
  BY <1>5, <1>6 DEF Loaded, t

\* A worker stands where it stood, wherever the new entry went; if it stood on that
\* one, it now stands on a live entry.
LEMMA InsertStanding ==
  ASSUME NEW N \in Nat \ {0}, NEW s, Order(N, s), NEW m \in 0 .. N - 1, NEW k \in 0 .. m,
         NEW pc, NEW c, NEW entries, Standing(N, s, m, entries, pc, c),
         NEW entries2, \A x \in 0 .. N - 1 : x # s[m] => entries2[x] = entries[x]
  PROVE  Standing(N, Inserted(s, m, k, N), m + 1, entries2, pc, c)
<1> DEFINE t == Inserted(s, m, k, N)
<1>1. \A i \in 0 .. N - 1 : s[i] \in 0 .. N - 1 /\ s[i] # Nil
  BY InOrder
<1>2. \A i \in 0 .. N - 1 : i # m => s[i] # s[m]
  BY DEF Order
<1>3. \A i \in 0 .. N - 1 : i # m => entries2[s[i]] = entries[s[i]]
  BY <1>1, <1>2
<1>4. \A i \in 0 .. N - 1 : t[i] = IF i < k \/ i > m THEN s[i] ELSE IF i = k THEN s[m] ELSE s[i - 1]
  BY DEF Inserted
<1> HIDE DEF t
<1>5. ASSUME NEW i \in 0 .. m - 1 PROVE \E j \in 0 .. m : t[j] = s[i]
  <2>1. CASE i < k
    BY <2>1, <1>4
  <2>2. CASE i >= k
    <3>1. t[i + 1] = s[i] /\ i + 1 \in 0 .. m
      BY <2>2, <1>4
    <3>2. QED
      BY <3>1
  <2>3. QED
    BY <2>1, <2>2
<1>6. ASSUME pc \in {"copied", "mark"} PROVE \E j \in 0 .. m + 1 - 1 : c = t[j] /\ ~entries2[t[j]].completed
  <2>1. PICK i \in 0 .. m - 1 : c = s[i] /\ ~entries[s[i]].completed
    BY <1>6 DEF Standing
  <2>2. PICK j \in 0 .. m : t[j] = s[i]
    BY <1>5
  <2>3. QED
    BY <2>1, <2>2, <1>3
<1>7. ASSUME pc = "look", c # Nil
      PROVE  \E i \in 0 .. N - 1 : c = t[i] /\ (i < m + 1 \/ \A j \in i .. N - 1 : entries2[t[j]].completed)
  <2>1. PICK i \in 0 .. N - 1 : c = s[i] /\ (i < m \/ \A j \in i .. N - 1 : entries[s[j]].completed)
    BY <1>7 DEF Standing
  <2>2. CASE i < m
    <3>1. PICK j \in 0 .. m : t[j] = s[i]
      BY <2>2, <1>5
    <3>2. QED
      BY <2>1, <3>1
  <2>3. CASE i > m
    <3>1. \A j \in i .. N - 1 : t[j] = s[j] /\ entries2[t[j]] = entries[s[j]]
      BY <2>3, <1>3, <1>4
    <3>2. QED
      BY <2>1, <2>3, <3>1
  <2>4. CASE i = m
    <3>1. t[k] = s[m] /\ k \in 0 .. N - 1 /\ k < m + 1
      BY <1>4
    <3>2. QED
      BY <2>1, <2>4, <3>1
  <2>5. QED
    BY <2>2, <2>3, <2>4
<1>8. QED
  BY <1>6, <1>7 DEF Standing, t

\* Completed entries carried to the free list: those left have what they had to do.
LEMMA RotateLoaded ==
  ASSUME NEW N \in Nat \ {0}, NEW s, Order(N, s), NEW m \in 0 .. N - 1, NEW k \in 1 .. m,
         NEW entries, Loaded(N, s, m, entries), \A i \in 0 .. k - 1 : entries[s[i]].completed
  PROVE  Loaded(N, Rotated(s, k, N), m - k, entries)
<1> DEFINE t == Rotated(s, k, N)
<1>1. \A i \in 0 .. N - 1 : t[i] = IF i + k < N THEN s[i + k] ELSE s[i + k - N]
  BY DEF Rotated
<1> HIDE DEF t
<1>2. ASSUME NEW i \in 0 .. N - 1, entries[t[i]].op # None PROVE i < m - k /\ ~entries[t[i]].completed
  <2>1. CASE i + k < N
    <3>1. t[i] = s[i + k] /\ i + k \in 0 .. N - 1
      BY <2>1, <1>1
    <3>2. i + k < m /\ ~entries[s[i + k]].completed
      BY <3>1, <1>2 DEF Loaded
    <3>3. QED
      BY <3>1, <3>2
  <2>2. CASE i + k >= N
    <3>1. t[i] = s[i + k - N] /\ i + k - N \in 0 .. k - 1 /\ i + k - N \in 0 .. N - 1
      BY <2>2, <1>1
    <3>2. QED
      BY <3>1, <1>2 DEF Loaded
  <2>3. QED
    BY <2>1, <2>2
<1>3. ASSUME Steady, NEW i \in 0 .. m - k - 1 PROVE entries[t[i]].completed \/ entries[t[i]].op # None
  <2>1. t[i] = s[i + k] /\ i + k \in 0 .. m - 1
    BY <1>1
  <2>2. QED
    BY <2>1, <1>3 DEF Loaded
<1>4. QED
  BY <1>2, <1>3 DEF Loaded, t

\* A worker carried to the free list with them has only completed entries before it.
LEMMA RotateStanding ==
  ASSUME NEW N \in Nat \ {0}, NEW s, Order(N, s), NEW m \in 0 .. N - 1, NEW k \in 1 .. m,
         NEW pc, NEW c, NEW entries, Standing(N, s, m, entries, pc, c),
         pc \in {"top", "look", "copied", "mark", "signal"},
         \A i \in 0 .. k - 1 : entries[s[i]].completed
  PROVE  Standing(N, Rotated(s, k, N), m - k, entries, pc, c)
<1> DEFINE t == Rotated(s, k, N)
<1>1. \A i \in 0 .. N - 1 : t[i] = IF i + k < N THEN s[i + k] ELSE s[i + k - N]
  BY DEF Rotated
<1> HIDE DEF t
<1>2. ASSUME pc \in {"copied", "mark"} PROVE \E j \in 0 .. m - k - 1 : c = t[j] /\ ~entries[t[j]].completed
  <2>1. PICK i \in 0 .. m - 1 : c = s[i] /\ ~entries[s[i]].completed
    BY <1>2 DEF Standing
  <2>2. i >= k
    BY <2>1
  <2>3. i - k \in 0 .. m - k - 1 /\ t[i - k] = s[i]
    BY <2>2, <1>1
  <2>4. QED
    BY <2>1, <2>3
<1>3. ASSUME pc = "look", c # Nil
      PROVE  \E i \in 0 .. N - 1 : c = t[i] /\ (i < m - k \/ \A j \in i .. N - 1 : entries[t[j]].completed)
  <2>1. PICK i \in 0 .. N - 1 : c = s[i] /\ (i < m \/ \A j \in i .. N - 1 : entries[s[j]].completed)
    BY <1>3 DEF Standing
  <2>2. CASE i >= k
    <3>1. i - k \in 0 .. N - 1 /\ t[i - k] = s[i]
      BY <2>2, <1>1
    <3>2. CASE i < m
      BY <3>1, <3>2, <2>1, <2>2
    <3>3. CASE i >= m
      <4>1. ASSUME NEW j \in i - k .. N - 1 PROVE entries[t[j]].completed
        <5>1. CASE j + k < N
          <6>1. t[j] = s[j + k] /\ j + k \in i .. N - 1
            BY <5>1, <3>1, <1>1
          <6>2. QED
            BY <6>1, <3>3, <2>1
        <5>2. CASE j + k >= N
          <6>1. t[j] = s[j + k - N] /\ j + k - N \in 0 .. k - 1
            BY <5>2, <3>1, <1>1
          <6>2. QED
            BY <6>1
        <5>3. QED
          BY <5>1, <5>2
      <4>2. QED
        BY <4>1, <3>1, <2>1
    <3>4. QED
      BY <3>2, <3>3
  <2>3. CASE i < k
    <3>1. N - k + i \in 0 .. N - 1 /\ t[N - k + i] = s[i]
      BY <2>3, <1>1
    <3>2. ASSUME NEW j \in N - k + i .. N - 1 PROVE entries[t[j]].completed
      <4>1. t[j] = s[j + k - N] /\ j + k - N \in 0 .. k - 1
        BY <2>3, <3>1, <1>1
      <4>2. QED
        BY <4>1
    <3>3. QED
      BY <3>1, <3>2, <2>1
  <2>4. QED
    BY <2>2, <2>3
<1>4. QED
  BY <1>2, <1>3 DEF Standing, t

-----------------------------------------------------------------------------
(* Following the links                                                     *)

\* The recursion that follows links defines what it says.
LEMMA ChainIs ==
  ASSUME conf.entries \in Nat \ {0}, NEW start \in Entries \cup {Nil},
         NEW link \in [Entries -> Entries \cup {Nil}]
  PROVE  /\ Chain(start, link)[0] = start
         /\ \A n \in 1 .. conf.entries :
              Chain(start, link)[n] = IF Chain(start, link)[n - 1] = Nil THEN Nil
                                      ELSE link[Chain(start, link)[n - 1]]
<1> DEFINE N == conf.entries
           S == Entries \cup {Nil}
           F == [e \in S |-> IF e = Nil THEN Nil ELSE link[e]]
<1>1. N \in Nat /\ start \in S
  OBVIOUS
<1>2. F \in [S -> S]
  <2>1. ASSUME NEW e \in S, e # Nil PROVE link[e] \in S
    BY <2>1
  <2>2. Nil \in S
    OBVIOUS
  <2> HIDE DEF S
  <2>3. QED
    BY <2>1, <2>2
<1>3. \E f \in [0 .. N -> S] : Iterated(f, F, start, N)
  <2> HIDE DEF F, S, N
  <2>1. QED
    BY <1>1, <1>2, Iterates
<1>4. PICK f \in [0 .. N -> S] : Iterated(f, F, start, N)
  BY <1>3
<1>5. ASSUME NEW n \in 0 .. N, n # 0 PROVE F[f[n - 1]] = IF f[n - 1] = Nil THEN Nil ELSE link[f[n - 1]]
  <2>1. n - 1 \in 0 .. N
    BY <1>1, <1>5
  <2>2. f[n - 1] \in S
    BY <1>4, <2>1, Zenon
  <2> HIDE DEF S
  <2>3. QED
    BY <2>2
<1> HIDE DEF F, S
<1>6. f = [n \in 0 .. N |-> IF n = 0 THEN start ELSE IF f[n - 1] = Nil THEN Nil ELSE link[f[n - 1]]]
  <2>1. [n \in 0 .. N |-> IF n = 0 THEN start ELSE F[f[n - 1]]]
          = [n \in 0 .. N |-> IF n = 0 THEN start ELSE IF f[n - 1] = Nil THEN Nil ELSE link[f[n - 1]]]
    BY <1>5
  <2>2. f = [n \in 0 .. N |-> IF n = 0 THEN start ELSE F[f[n - 1]]]
    BY <1>4, Zenon DEF Iterated
  <2>3. QED
    BY <2>1, <2>2, Zenon
<1> DEFINE c == CHOOSE g : g = [n \in 0 .. N |-> IF n = 0 THEN start ELSE IF g[n - 1] = Nil THEN Nil ELSE link[g[n - 1]]]
<1>7. c = [n \in 0 .. N |-> IF n = 0 THEN start ELSE IF c[n - 1] = Nil THEN Nil ELSE link[c[n - 1]]]
  BY <1>6, Zenon
<1>8. Chain(start, link) = c
  BY Zenon DEF Chain
<1> HIDE DEF c
<1>9. \A n \in 0 .. N : c[n] = IF n = 0 THEN start ELSE IF c[n - 1] = Nil THEN Nil ELSE link[c[n - 1]]
  BY <1>7, Zenon
<1>10. c[0] = start /\ \A n \in 1 .. N : c[n] = IF c[n - 1] = Nil THEN Nil ELSE link[c[n - 1]]
  <2> HIDE DEF N
  <2>1. 0 \in 0 .. N /\ \A n \in 1 .. N : n \in 0 .. N /\ n # 0
    BY <1>1
  <2>2. QED
    BY <1>9, <2>1, Zenon
<1>11. QED
  BY <1>8, <1>10

\* From start on, the links go through the k entries of v.
Through(N, start, link, k, v) ==
  /\ link \in [0 .. N - 1 -> (0 .. N - 1) \cup {Nil}]
  /\ k \in 0 .. N /\ \A i \in 0 .. k - 1 : v[i] \in 0 .. N - 1
  /\ start = IF k = 0 THEN Nil ELSE v[0]
  /\ \A i \in 0 .. k - 1 : link[v[i]] = IF i = k - 1 THEN Nil ELSE v[i + 1]

\* Following the links of k entries reaches them one by one, then Nil.
LEMMA ChainFollows ==
  ASSUME conf.entries \in Nat \ {0}, NEW start, NEW link, NEW k, NEW v,
         Through(conf.entries, start, link, k, v)
  PROVE  /\ \A n \in 0 .. conf.entries : Chain(start, link)[n] = IF n < k THEN v[n] ELSE Nil
         /\ Members(start, link) = {v[i] : i \in 0 .. k - 1}
<1> DEFINE N == conf.entries
           c == Chain(start, link)
           T == {n \in Nat : n <= N => c[n] = IF n < k THEN v[n] ELSE Nil}
<1>0. /\ Nil \notin Entries /\ k \in 0 .. N /\ \A i \in 0 .. k - 1 : v[i] \in Entries
      /\ link \in [Entries -> Entries \cup {Nil}] /\ start = IF k = 0 THEN Nil ELSE v[0]
      /\ \A i \in 0 .. k - 1 : link[v[i]] = IF i = k - 1 THEN Nil ELSE v[i + 1]
  BY DEF Nil, Entries, Through
<1>1. start \in Entries \cup {Nil}
  BY <1>0
<1>2. c[0] = start /\ \A n \in 1 .. N : c[n] = IF c[n - 1] = Nil THEN Nil ELSE link[c[n - 1]]
  BY <1>0, <1>1, ChainIs
<1> HIDE DEF c
<1>3. 0 \in T
  BY <1>0, <1>2
<1>4. ASSUME NEW n \in T PROVE n + 1 \in T
  <2>1. n \in Nat /\ n + 1 \in Nat
    OBVIOUS
  <2>2. CASE n + 1 > N
    BY <2>1, <2>2
  <2>3. CASE n + 1 <= N
    <3>1. n + 1 \in 1 .. N /\ n + 1 - 1 = n
      BY <2>1, <2>3
    <3>2. c[n] = IF n < k THEN v[n] ELSE Nil
      BY <2>1, <2>3
    <3>3. c[n + 1] = IF c[n] = Nil THEN Nil ELSE link[c[n]]
      BY <3>1, <1>2
    <3>4. CASE n >= k
      <4>1. c[n + 1] = Nil
        BY <3>2, <3>3, <3>4, <2>1, <1>0
      <4>2. QED
        BY <4>1, <2>1, <3>4, <1>0
    <3>5. CASE n < k
      <4>1. v[n] # Nil /\ link[v[n]] = IF n = k - 1 THEN Nil ELSE v[n + 1]
        BY <2>1, <3>5, <1>0
      <4>2. c[n + 1] = IF n = k - 1 THEN Nil ELSE v[n + 1]
        BY <4>1, <3>2, <3>3, <3>5, <1>0
      <4>3. n + 1 < k <=> n # k - 1
        BY <2>1, <3>5, <1>0
      <4>4. QED
        BY <4>2, <4>3, <2>1
    <3>6. QED
      BY <3>4, <3>5, <2>1, <1>0
  <2>4. QED
    BY <2>2, <2>3, <2>1
<1>5. T = Nat
  <2>1. T \in SUBSET Nat
    OBVIOUS
  <2> HIDE DEF T
  <2>2. QED
    BY <1>3, <1>4, <2>1, NumbersReached
<1>6. \A n \in 0 .. N : c[n] = IF n < k THEN v[n] ELSE Nil
  <2>1. \A n \in 0 .. N : n \in Nat /\ n <= N
    OBVIOUS
  <2>2. \A n \in Nat : n \in T
    BY <1>5
  <2>3. QED
    BY <2>1, <2>2
<1>7. Members(start, link) = {v[i] : i \in 0 .. k - 1}
  <2>1. Members(start, link) = {c[n] : n \in 0 .. N - 1} \ {Nil}
    BY DEF Members, c
  <2>2. ASSUME NEW e, e \in {c[n] : n \in 0 .. N - 1} \ {Nil} PROVE e \in {v[i] : i \in 0 .. k - 1}
    <3>1. PICK n \in 0 .. N - 1 : e = c[n]
      BY <2>2
    <3>2. n < k
      BY <3>1, <2>2, <1>0, <1>6
    <3>3. QED
      BY <3>1, <3>2, <1>0, <1>6
  <2>3. ASSUME NEW i \in 0 .. k - 1 PROVE v[i] \in {c[n] : n \in 0 .. N - 1} \ {Nil}
    <3>1. i \in 0 .. N - 1 /\ i \in 0 .. N /\ c[i] = v[i] /\ v[i] # Nil
      BY <1>0, <1>6
    <3>2. QED
      BY <3>1
  <2>4. QED
    BY <2>1, <2>2, <2>3
<1>8. QED
  BY <1>6, <1>7 DEF c

\* What the assumption says of the constants of a run, and of the sets made of them.
LEMMA Constants ==
  ASSUME conf \in Configs
  PROVE  /\ conf.workers \in Nat \ {0} /\ conf.entries \in Nat \ {0} /\ conf.load \in Nat
         /\ conf.cmds \subseteq Cmds /\ IsFiniteSet(conf.cmds)
         /\ SqSize \in Nat \ {0} /\ CqSize \in Nat \ {0}
         /\ Cardinality(conf.cmds) < SqSize /\ Cardinality(conf.cmds) < CqSize
         /\ Cardinality(conf.cmds) \in Nat
         /\ MaxDue \in Nat /\ BufSize \in Nat
         /\ Queues \subseteq Nat \ {0} /\ 0 \notin Queues /\ \A c \in Cmds : QueueOf[c] \in Queues
         /\ None \notin Cmds /\ Internal \notin Cmds /\ None # Internal
         /\ Writes \subseteq Cmds /\ IsFiniteSet(Writes)
         /\ Nil \notin Entries /\ Dispatcher \in Actors /\ Workers \subseteq Actors
         /\ Actors = Workers \cup {Dispatcher} /\ Dispatcher \notin Workers
<1>1. conf \in Config
  BY IoAssumption
<1>2. conf.workers \in Nat \ {0} /\ conf.entries \in Nat \ {0} /\ conf.load \in Nat /\ conf.cmds \subseteq Cmds
  BY <1>1 DEF Config
<1>3. IsFiniteSet(conf.cmds) /\ IsFiniteSet(Writes)
  BY <1>2, IoAssumption, FS_Subset
<1>4. Cardinality(conf.cmds) \in Nat
  BY <1>3, FS_CardinalityType
<1>5. SqSize > Cardinality(conf.cmds) /\ CqSize > Cardinality(conf.cmds) /\ SqSize \in Nat /\ CqSize \in Nat
  BY IoAssumption
<1>6. \A c \in Cmds : QueueOf[c] \in Queues /\ QueueOf[c] \in Nat \ {0}
  BY IoAssumption DEF Queues
<1>7. Queues \subseteq Nat \ {0}
  BY <1>6 DEF Queues
<1>8. None \notin Cmds /\ Internal \notin Cmds /\ None # Internal
  BY IoAssumption DEF None, Internal
<1>9. Nil \notin Entries
  BY DEF Nil, Entries
<1>10. Actors = Workers \cup {Dispatcher} /\ Dispatcher \notin Workers
  BY <1>2 DEF Actors, Workers, Dispatcher
<1>11. QED
  BY <1>2, <1>3, <1>4, <1>5, <1>6, <1>7, <1>8, <1>9, <1>10, IoAssumption

\* A queue has a worker.
LEMMA WorkerOfIs ==
  ASSUME conf \in Configs, NEW q \in Nat
  PROVE  WorkerOf(q) \in Workers
<1>1. conf.workers \in Nat \ {0} /\ q - 1 \in Int
  BY Constants
<1>2. (q - 1) % conf.workers \in 0 .. conf.workers - 1
  BY <1>1, ModRange
<1>3. QED
  BY <1>1, <1>2 DEF WorkerOf, Workers

\* The type of the links.
LinkType ==
  /\ next \in [Workers -> [Entries -> Entries \cup {Nil}]]
  /\ prev \in [Workers -> [Entries -> Entries \cup {Nil}]]
  /\ io_seq \in [Workers -> Entries \cup {Nil}] /\ io_seq_end \in [Workers -> Entries \cup {Nil}]
  /\ free_seq \in [Workers -> Entries] /\ free_seq_end \in [Workers -> Entries]

\* s and m are the order and the length of the live list of worker w.
ListAt(w, s, m) ==
  IsList(conf.entries, s, m, next[w], prev[w], io_seq[w], io_seq_end[w], free_seq[w],
         free_seq_end[w], work[w], wpc[w], curr[w])

\* What following the links of a worker gives.
LEMMA ListRead ==
  ASSUME conf \in Configs, LinkType, NEW w \in Workers, NEW s \in [Entries -> Entries], NEW m \in Entries,
         ListAt(w, s, m)
  PROVE  /\ Live(w) = {s[i] : i \in 0 .. m - 1} /\ Free(w) = {s[i] : i \in m .. conf.entries - 1}
         /\ \A n \in 0 .. conf.entries :
              Chain(io_seq[w], next[w])[n] = IF n < m THEN s[n] ELSE Nil
         /\ \A n \in 0 .. conf.entries :
              Chain(io_seq_end[w], prev[w])[n] = IF m = 0 THEN Chain(io_seq_end[w], prev[w])[n]
                                                 ELSE IF n < m THEN s[m - 1 - n] ELSE Nil
         /\ ListFull(w) <=> m = conf.entries - 1
<1> DEFINE N == conf.entries
<1>1. N \in Nat \ {0} /\ Nil \notin Entries /\ Entries = 0 .. N - 1 /\ m \in 0 .. N - 1
  BY Constants DEF Entries
<1>2. /\ Order(N, s) /\ Linked(N, s, m, next[w], prev[w])
      /\ Ends(N, s, m, io_seq[w], io_seq_end[w], free_seq[w], free_seq_end[w])
  BY DEF ListAt, IsList
<1>3. \A i \in 0 .. N - 1 : s[i] \in Entries /\ s[i] # Nil
  BY <1>1
<1>4. next[w] \in [Entries -> Entries \cup {Nil}] /\ prev[w] \in [Entries -> Entries \cup {Nil}]
  BY DEF LinkType
<1>5. \A i \in 0 .. N - 1 : next[w][s[i]] = IF i = m - 1 \/ i = N - 1 THEN Nil ELSE s[i + 1]
  BY <1>2 DEF Linked
<1>6. \A i \in 0 .. m - 1 : prev[w][s[i]] = IF i = 0 THEN Nil ELSE s[i - 1]
  BY <1>2 DEF Linked
<1> HIDE DEF N
<1>7. /\ \A n \in 0 .. N : Chain(io_seq[w], next[w])[n] = IF n < m THEN s[n] ELSE Nil
      /\ Live(w) = {s[i] : i \in 0 .. m - 1}
  <2>1. m \in 0 .. N /\ \A i \in 0 .. m - 1 : s[i] \in Entries
    BY <1>1, <1>3
  <2>2. io_seq[w] = IF m = 0 THEN Nil ELSE s[0]
    BY <1>2 DEF Ends
  <2>3. \A i \in 0 .. m - 1 : next[w][s[i]] = IF i = m - 1 THEN Nil ELSE s[i + 1]
    <3>1. TAKE i \in 0 .. m - 1
    <3>2. i \in 0 .. N - 1 /\ i # N - 1
      BY <1>1
    <3>3. QED
      BY <3>2, <1>5
  <2>4. Through(N, io_seq[w], next[w], m, s)
    BY <1>1, <1>4, <2>1, <2>2, <2>3 DEF Through
  <2>5. \A n \in 0 .. N : Chain(io_seq[w], next[w])[n] = IF n < m THEN s[n] ELSE Nil
    BY <1>1, <2>4, ChainFollows DEF N
  <2>6. Members(io_seq[w], next[w]) = {s[i] : i \in 0 .. m - 1}
    BY <1>1, <2>4, ChainFollows DEF N
  <2>7. QED
    BY <2>5, <2>6 DEF Live
<1>8. Free(w) = {s[i] : i \in m .. N - 1}
  <2> DEFINE v == [i \in 0 .. N - m - 1 |-> s[m + i]]
  <2>1. N - m \in 0 .. N /\ N - m # 0 /\ \A i \in 0 .. N - m - 1 : v[i] \in Entries
    BY <1>1, <1>3
  <2>2. free_seq[w] = v[0]
    BY <1>1, <1>2 DEF Ends
  <2>3. \A i \in 0 .. N - m - 1 : next[w][v[i]] = IF i = N - m - 1 THEN Nil ELSE v[i + 1]
    <3>1. TAKE i \in 0 .. N - m - 1
    <3>2. m + i \in 0 .. N - 1 /\ m + i # m - 1 /\ (m + i = N - 1 <=> i = N - m - 1)
          /\ (i # N - m - 1 => i + 1 \in 0 .. N - m - 1 /\ m + (i + 1) = m + i + 1)
      BY <1>1
    <3>3. v[i] = s[m + i] /\ (i # N - m - 1 => v[i + 1] = s[m + i + 1])
      BY <3>2
    <3>4. QED
      BY <3>2, <3>3, <1>5
  <2>4. Members(free_seq[w], next[w]) = {v[i] : i \in 0 .. N - m - 1}
    <3> HIDE DEF v
    <3>1. Through(N, free_seq[w], next[w], N - m, v)
      BY <1>1, <1>4, <2>1, <2>2, <2>3 DEF Through
    <3>2. QED
      BY <1>1, <3>1, ChainFollows DEF N
  <2>5. {v[i] : i \in 0 .. N - m - 1} = {s[i] : i \in m .. N - 1}
    <3>1. ASSUME NEW i \in m .. N - 1 PROVE s[i] \in {v[j] : j \in 0 .. N - m - 1}
      <4>1. i - m \in 0 .. N - m - 1 /\ v[i - m] = s[i]
        BY <1>1
      <4>2. QED
        BY <4>1
    <3>2. \A i \in 0 .. N - m - 1 : v[i] \in {s[j] : j \in m .. N - 1}
      BY <1>1
    <3> HIDE DEF v
    <3>3. QED
      BY <3>1, <3>2
  <2>6. QED
    BY <2>4, <2>5 DEF Free
<1>9. m # 0 => \A n \in 0 .. N : Chain(io_seq_end[w], prev[w])[n] = IF n < m THEN s[m - 1 - n] ELSE Nil
  <2>1. SUFFICES ASSUME m # 0
                 PROVE  \A n \in 0 .. N : Chain(io_seq_end[w], prev[w])[n] = IF n < m THEN s[m - 1 - n] ELSE Nil
    OBVIOUS
  <2> DEFINE v == [i \in 0 .. m - 1 |-> s[m - 1 - i]]
  <2>2. m \in 0 .. N /\ \A i \in 0 .. m - 1 : v[i] \in Entries
    BY <1>1, <1>3
  <2>3. io_seq_end[w] = v[0]
    BY <1>1, <1>2, <2>1 DEF Ends
  <2>4. \A i \in 0 .. m - 1 : prev[w][v[i]] = IF i = m - 1 THEN Nil ELSE v[i + 1]
    <3>1. TAKE i \in 0 .. m - 1
    <3>2. m - 1 - i \in 0 .. m - 1 /\ (m - 1 - i = 0 <=> i = m - 1)
          /\ (i # m - 1 => i + 1 \in 0 .. m - 1 /\ m - 1 - (i + 1) = m - 1 - i - 1)
      BY <1>1
    <3>3. v[i] = s[m - 1 - i] /\ (i # m - 1 => v[i + 1] = s[m - 1 - i - 1])
      BY <3>2
    <3>4. QED
      BY <3>2, <3>3, <1>6
  <2>5. \A n \in 0 .. N : Chain(io_seq_end[w], prev[w])[n] = IF n < m THEN v[n] ELSE Nil
    <3> HIDE DEF v
    <3>1. Through(N, io_seq_end[w], prev[w], m, v)
      BY <1>1, <1>4, <2>1, <2>2, <2>3, <2>4 DEF Through
    <3>2. QED
      BY <1>1, <3>1, ChainFollows DEF N
  <2>6. \A n \in 0 .. N : n < m => v[n] = s[m - 1 - n]
    BY <1>1
  <2> HIDE DEF v
  <2>7. QED
    BY <2>5, <2>6, <1>1
<1>10. ListFull(w) <=> m = N - 1
  <2>1. next[w][free_seq[w]] = IF m = N - 1 THEN Nil ELSE s[m + 1]
    <3>1. free_seq[w] = s[m] /\ m # m - 1
      BY <1>1, <1>2 DEF Ends
    <3>2. next[w][s[m]] = IF m = m - 1 \/ m = N - 1 THEN Nil ELSE s[m + 1]
      BY <1>1, <1>5
    <3>3. QED
      BY <3>1, <3>2
  <2>2. m # N - 1 => s[m + 1] # Nil
    BY <1>1, <1>3
  <2>3. QED
    BY <2>1, <2>2 DEF ListFull
<1>11. QED
  BY <1>7, <1>8, <1>9, <1>10 DEF N

\* Where a new entry can go.
LEMMA PointsAre ==
  ASSUME conf \in Configs, LinkType, NEW w \in Workers, NEW s \in [Entries -> Entries], NEW m \in Entries,
         ListAt(w, s, m), m # 0, NEW d, NEW p \in InsertPoints(w, d)
  PROVE  \E k \in 0 .. m : p = IF k = 0 THEN Nil ELSE s[k - 1]
<1> DEFINE N == conf.entries
           back == Chain(io_seq_end[w], prev[w])
<1>1. N \in Nat \ {0} /\ Nil \notin Entries /\ Entries = 0 .. N - 1 /\ m \in 0 .. N - 1
  BY Constants DEF Entries
<1>2. \A n \in 0 .. N : back[n] = IF n < m THEN s[m - 1 - n] ELSE Nil
  BY ListRead
<1> HIDE DEF N, back
<1>3. PICK n \in 0 .. N : p = back[n] /\ \A k \in 0 .. n - 1 : back[k] # Nil
  BY DEF InsertPoints, N, back
<1>4. n \in Nat /\ m \in Nat
  BY <1>1
<1>5. CASE n < m
  <2>1. m - n \in 0 .. m /\ m - n # 0 /\ m - n - 1 = m - 1 - n
    BY <1>5, <1>1
  <2>2. p = s[m - n - 1]
    BY <1>2, <1>3, <1>5, <2>1
  <2>3. QED
    BY <2>1, <2>2
<1>6. CASE n >= m
  <2>1. p = Nil /\ 0 \in 0 .. m
    BY <1>2, <1>3, <1>4, <1>6
  <2>2. QED
    BY <2>1
<1>7. QED
  BY <1>4, <1>5, <1>6

\* How many entries are taken back.
LEMMA DoneIs ==
  ASSUME conf \in Configs, LinkType, NEW w \in Workers, NEW s \in [Entries -> Entries], NEW m \in Entries,
         ListAt(w, s, m), DonePrefix(w) # {}
  PROVE  \E k \in 1 .. m : /\ LastDone(w) = s[k - 1]
                           /\ \A i \in 0 .. k - 1 : work[w][s[i]].completed
<1> DEFINE N == conf.entries
           list == Chain(io_seq[w], next[w])
           Done(n) == \A j \in 0 .. n : list[j] # Nil /\ Reclaimable(w, list[j])
           D == DonePrefix(w)
<1>1. N \in Nat \ {0} /\ Nil \notin Entries /\ Entries = 0 .. N - 1 /\ m \in 0 .. N - 1
  BY Constants DEF Entries
<1>2. \A n \in 0 .. N : list[n] = IF n < m THEN s[n] ELSE Nil
  BY ListRead
<1>3. D = {n \in 0 .. N - 1 : Done(n)}
  BY DEF DonePrefix
<1> HIDE DEF N, list
<1>4. ASSUME NEW n \in D PROVE n \in 0 .. m - 1
  <2>1. n \in 0 .. N - 1 /\ Done(n)
    BY <1>3
  <2>2. n \in 0 .. n /\ n \in 0 .. N
    BY <2>1, <1>1
  <2>3. list[n] # Nil
    BY <2>1, <2>2
  <2>4. QED
    BY <2>2, <2>3, <1>1, <1>2
<1>5. \A n \in D : \A j \in 0 .. n : j \in D
  <2>1. TAKE n \in D
  <2>2. TAKE j \in 0 .. n
  <2>3. n \in 0 .. N - 1 /\ Done(n)
    BY <1>3
  <2>4. j \in 0 .. N - 1 /\ Done(j)
    BY <2>3, <1>1
  <2>5. QED
    BY <2>4, <1>3
<1> DEFINE G == {n \in Nat : n \notin D}
<1>6. m \in G
  BY <1>1, <1>4
<1>7. PICK k \in G : \A y \in G : k <= y
  <2>1. G \in SUBSET Nat /\ G # {}
    BY <1>6
  <2> HIDE DEF G
  <2>2. QED
    BY <2>1, LeastNumber
<1>8. k \in Nat /\ k <= m /\ D = 0 .. k - 1
  <2>1. k \in Nat /\ k <= m /\ k \notin D
    BY <1>6, <1>7
  <2>2. \A n \in 0 .. k - 1 : n \in D
    <3>1. TAKE n \in 0 .. k - 1
    <3>2. n \in Nat /\ ~(k <= n)
      BY <2>1
    <3>3. QED
      BY <3>2, <1>7
  <2>3. \A n \in D : n \in 0 .. k - 1
    <3>1. TAKE n \in D
    <3>2. n \in 0 .. m - 1
      BY <1>4
    <3>3. ~(k \in 0 .. n)
      BY <2>1, <1>5
    <3>4. QED
      BY <3>2, <3>3, <2>1, <1>1
  <2> HIDE DEF D, G
  <2>4. QED
    BY <2>1, <2>2, <2>3
<1>9. k > 0
  <2>1. k # 0
    <3>1. SUFFICES ASSUME k = 0 PROVE FALSE
      OBVIOUS
    <3>2. D = {}
      BY <1>8, <3>1
    <3>3. QED
      BY <3>2
  <2>2. QED
    BY <2>1, <1>8
<1>10. Cardinality(D) = k
  <2>1. Cardinality(0 .. k - 1) = IF 0 > k - 1 THEN 0 ELSE k - 1 - 0 + 1
    <3>1. 0 \in Int /\ k - 1 \in Int
      BY <1>8
    <3>2. QED
      BY <3>1, FS_Interval
  <2>2. QED
    BY <2>1, <1>8, <1>9
<1>11. LastDone(w) = s[k - 1]
  <2>1. LastDone(w) = list[k - 1]
    BY <1>10 DEF LastDone, list
  <2>2. k - 1 \in 0 .. N /\ k - 1 < m
    BY <1>1, <1>8, <1>9
  <2>3. QED
    BY <2>1, <2>2, <1>2
<1>12. \A i \in 0 .. k - 1 : work[w][s[i]].completed
  <2>1. TAKE i \in 0 .. k - 1
  <2>2. i \in D /\ i \in 0 .. i /\ i \in 0 .. N /\ i < m
    BY <1>8, <1>1
  <2>3. Reclaimable(w, list[i])
    BY <2>2, <1>3
  <2>4. list[i] = s[i]
    BY <2>2, <1>2
  <2>5. QED
    BY <2>3, <2>4 DEF Reclaimable
<1>13. QED
  BY <1>8, <1>9, <1>11, <1>12

-----------------------------------------------------------------------------
(* Steps that change the links                                             *)

\* How the links change when e goes behind p and before succ.
LinkedIn(w, e, p, succ) ==
  /\ next' = [next EXCEPT ![w] = [x \in Entries |->
                IF x = e THEN succ ELSE IF x = p THEN e ELSE next[w][x]]]
  /\ prev' = [prev EXCEPT ![w] = [x \in Entries |->
                IF x = e THEN p ELSE IF x = succ THEN e ELSE prev[w][x]]]
  /\ io_seq' = [io_seq EXCEPT ![w] = IF p = Nil THEN e ELSE io_seq[w]]
  /\ io_seq_end' = [io_seq_end EXCEPT ![w] = IF succ = Nil THEN e ELSE io_seq_end[w]]

\* Both ways of linking in a new entry put it at some place k behind p.
LEMMA EnqueueLinks ==
  ASSUME conf \in Configs, LinkType, NEW w \in Workers, NEW s \in [Entries -> Entries], NEW m \in Entries,
         ListAt(w, s, m), NEW op, NEW d, Enqueue(w, op, d)
  PROVE  \E k \in 0 .. m, p \in Entries \cup {Nil}, succ \in Entries \cup {Nil} :
           /\ p = IF k = 0 THEN Nil ELSE s[k - 1]
           /\ succ = IF p = Nil THEN io_seq[w] ELSE next[w][p]
           /\ LinkedIn(w, free_seq[w], p, succ)
<1> DEFINE e == free_seq[w]
<1>1. Nil \notin Entries /\ Entries = 0 .. conf.entries - 1 /\ conf.entries \in Nat \ {0} /\ m \in Nat
  BY Constants DEF Entries
<1>2. /\ Order(conf.entries, s) /\ Linked(conf.entries, s, m, next[w], prev[w])
      /\ Ends(conf.entries, s, m, io_seq[w], io_seq_end[w], free_seq[w], free_seq_end[w])
  BY DEF ListAt, IsList
<1>3. \A i \in Entries : s[i] \in Entries /\ s[i] # Nil
  BY <1>1
<1>4. io_seq[w] = Nil <=> m = 0
  <2>1. 0 \in Entries
    BY <1>1
  <2>2. QED
    BY <2>1, <1>2, <1>3 DEF Ends
<1>5. /\ next[w] \in [Entries -> Entries \cup {Nil}] /\ prev[w] \in [Entries -> Entries \cup {Nil}]
      /\ io_seq[w] \in Entries \cup {Nil} /\ io_seq_end[w] \in Entries \cup {Nil} /\ e \in Entries
      /\ DOMAIN next = Workers /\ DOMAIN prev = Workers /\ DOMAIN io_seq = Workers /\ DOMAIN io_seq_end = Workers
      /\ next = [v \in Workers |-> next[v]] /\ prev = [v \in Workers |-> prev[v]]
  BY DEF LinkType
<1>6. CASE io_seq[w] = Nil
  <2>1. LinkFirst(w, e)
    BY <1>6 DEF Enqueue
  <2>2. io_seq' = [io_seq EXCEPT ![w] = e] /\ io_seq_end' = [io_seq_end EXCEPT ![w] = e]
    BY <2>1 DEF LinkFirst
  <2>3. next' = [next EXCEPT ![w] = [x \in Entries |-> IF x = e THEN Nil ELSE IF x = Nil THEN e ELSE next[w][x]]]
    <3>1. next' = [next EXCEPT ![w] = [next[w] EXCEPT ![e] = Nil]]
      BY <2>1 DEF LinkFirst
    <3>2. [next[w] EXCEPT ![e] = Nil] = [x \in Entries |-> IF x = e THEN Nil ELSE IF x = Nil THEN e ELSE next[w][x]]
      BY <1>1, <1>5
    <3>3. QED
      BY <3>1, <3>2
  <2>4. prev' = [prev EXCEPT ![w] = [x \in Entries |-> IF x = e THEN Nil ELSE IF x = Nil THEN e ELSE prev[w][x]]]
    <3>1. prev' = [prev EXCEPT ![w] = [prev[w] EXCEPT ![e] = Nil]]
      BY <2>1 DEF LinkFirst
    <3>2. [prev[w] EXCEPT ![e] = Nil] = [x \in Entries |-> IF x = e THEN Nil ELSE IF x = Nil THEN e ELSE prev[w][x]]
      BY <1>1, <1>5
    <3>3. QED
      BY <3>1, <3>2
  <2>5. LinkedIn(w, e, Nil, Nil)
    BY <2>2, <2>3, <2>4 DEF LinkedIn
  <2>6. 0 \in 0 .. m /\ Nil \in Entries \cup {Nil}
    BY <1>1
  <2>7. Nil = (IF 0 = 0 THEN Nil ELSE s[0 - 1]) /\ Nil = (IF Nil = Nil THEN io_seq[w] ELSE next[w][Nil])
    BY <1>6
  <2>8. QED
    BY <2>5, <2>6, <2>7
<1>7. CASE io_seq[w] # Nil
  <2>1. PICK p \in InsertPoints(w, d) : LinkBehind(w, e, p)
    BY <1>7 DEF Enqueue
  <2>2. PICK k \in 0 .. m : p = IF k = 0 THEN Nil ELSE s[k - 1]
    BY <1>4, <1>7, PointsAre
  <2> DEFINE succ == IF p = Nil THEN io_seq[w] ELSE next[w][p]
  <2>3. p \in Entries \cup {Nil}
    <3>1. k # 0 => k - 1 \in Entries
      BY <1>1
    <3>2. QED
      BY <3>1, <2>2, <1>3
  <2>4. succ \in Entries \cup {Nil}
    BY <2>3, <1>5
  <2>5. LinkedIn(w, e, p, succ)
    <3>1. next' = [next EXCEPT ![w] = [x \in Entries |->
                    IF x = e THEN succ ELSE IF x = p THEN e ELSE next[w][x]]]
      BY <2>1 DEF LinkBehind
    <3>2. prev' = [prev EXCEPT ![w] = [x \in Entries |->
                    IF x = e THEN p ELSE IF x = succ THEN e ELSE prev[w][x]]]
      BY <2>1 DEF LinkBehind
    <3>3. io_seq' = [io_seq EXCEPT ![w] = IF p = Nil THEN e ELSE io_seq[w]]
      <4>1. io_seq' = IF p = Nil THEN [io_seq EXCEPT ![w] = e] ELSE io_seq
        BY <2>1 DEF LinkBehind
      <4>2. [io_seq EXCEPT ![w] = io_seq[w]] = io_seq
        BY DEF LinkType
      <4>3. QED
        BY <4>1, <4>2
    <3>4. io_seq_end' = [io_seq_end EXCEPT ![w] = IF succ = Nil THEN e ELSE io_seq_end[w]]
      <4>1. io_seq_end' = IF succ = Nil THEN [io_seq_end EXCEPT ![w] = e] ELSE io_seq_end
        BY <2>1 DEF LinkBehind
      <4>2. [io_seq_end EXCEPT ![w] = io_seq_end[w]] = io_seq_end
        BY DEF LinkType
      <4>3. QED
        BY <4>1, <4>2
    <3> HIDE DEF succ
    <3>5. QED
      BY <3>1, <3>2, <3>3, <3>4 DEF LinkedIn
  <2> HIDE DEF e
  <2>6. succ = IF p = Nil THEN io_seq[w] ELSE next[w][p]
    OBVIOUS
  <2> HIDE DEF succ
  <2>7. QED
    BY <2>2, <2>3, <2>4, <2>5, <2>6 DEF e
<1>8. QED
  BY <1>6, <1>7

\* A new entry leaves a worker's list a list.
LEMMA EnqueueList ==
  ASSUME conf \in Configs, conf' = conf, LinkType, work \in [Workers -> [Entries -> Entry]],
         NEW w \in Workers, NEW s \in [Entries -> Entries], NEW m \in Entries, ListAt(w, s, m), ~ListFull(w),
         NEW op \in Cmds \cup {Internal, None}, NEW d \in 0 .. MaxDue, Enqueue(w, op, d),
         Steady => op # None, wpc' = wpc, curr' = curr
  PROVE  /\ LinkType' /\ work' \in [Workers -> [Entries -> Entry]]
         /\ \A v \in Workers \ {w} :
              /\ next'[v] = next[v] /\ prev'[v] = prev[v] /\ io_seq'[v] = io_seq[v]
              /\ io_seq_end'[v] = io_seq_end[v] /\ free_seq'[v] = free_seq[v]
              /\ free_seq_end'[v] = free_seq_end[v] /\ work'[v] = work[v]
         /\ \E t \in [Entries -> Entries], n \in Entries : ListAt(w, t, n)'
<1>0. PICK N \in Nat \ {0} : N = conf.entries
  BY Constants
<1> DEFINE e == free_seq[w]
           new == [op |-> op, due |-> d, completed |-> FALSE, copied |-> op = Internal]
<1>1. Nil \notin Entries /\ Entries = 0 .. N - 1 /\ N \in Nat \ {0} /\ m \in 0 .. N - 1
  BY <1>0, Constants DEF Entries
<1>2. /\ Order(N, s) /\ Linked(N, s, m, next[w], prev[w])
      /\ Ends(N, s, m, io_seq[w], io_seq_end[w], free_seq[w], free_seq_end[w])
      /\ Loaded(N, s, m, work[w]) /\ Standing(N, s, m, work[w], wpc[w], curr[w])
  BY <1>0 DEF ListAt, IsList
<1>3. m < N - 1
  <2>1. ListFull(w) <=> m = conf.entries - 1
    BY ListRead, Zenon
  <2>2. m # N - 1
    BY <2>1, <1>0, Zenon
  <2>3. QED
    BY <2>2, <1>1
<1>4. PICK k \in 0 .. m, p \in Entries \cup {Nil}, succ \in Entries \cup {Nil} :
           /\ p = IF k = 0 THEN Nil ELSE s[k - 1]
           /\ succ = IF p = Nil THEN io_seq[w] ELSE next[w][p]
           /\ LinkedIn(w, free_seq[w], p, succ)
  BY EnqueueLinks
<1>5. e \in Entries /\ e = s[m]
  BY <1>2 DEF LinkType, Ends
<1>6. free_seq' = [free_seq EXCEPT ![w] = next[w][e]] /\ free_seq_end' = free_seq_end
  BY DEF Enqueue
<1>7. next[w][e] \in Entries
  BY <1>5 DEF LinkType, ListFull
<1>8. work' = [work EXCEPT ![w] = [work[w] EXCEPT ![e] = new]]
  <2>1. work' = [work EXCEPT ![w][e] = new]
    BY DEF Enqueue
  <2> HIDE DEF new, e
  <2>2. QED
    BY <2>1
<1>9. new \in Entry /\ new.op = op /\ ~new.completed
  BY DEF Entry
<1> HIDE DEF new, e
<1>10. LinkType'
  <2>1. Workers' = Workers /\ Entries' = Entries
    BY DEF Workers, Entries
  <2>2. [x \in Entries |-> IF x = e THEN succ ELSE IF x = p THEN e ELSE next[w][x]] \in [Entries -> Entries \cup {Nil}]
    BY <1>5 DEF LinkType
  <2>3. [x \in Entries |-> IF x = e THEN p ELSE IF x = succ THEN e ELSE prev[w][x]] \in [Entries -> Entries \cup {Nil}]
    BY <1>5 DEF LinkType
  <2>4. next' \in [Workers -> [Entries -> Entries \cup {Nil}]]
    BY <1>4, <2>2 DEF LinkedIn, LinkType, e
  <2>5. prev' \in [Workers -> [Entries -> Entries \cup {Nil}]]
    BY <1>4, <2>3 DEF LinkedIn, LinkType, e
  <2>6. /\ io_seq' \in [Workers -> Entries \cup {Nil}] /\ io_seq_end' \in [Workers -> Entries \cup {Nil}]
        /\ free_seq' \in [Workers -> Entries] /\ free_seq_end' \in [Workers -> Entries]
    BY <1>4, <1>5, <1>6, <1>7 DEF LinkedIn, LinkType, e
  <2>7. QED
    BY <2>1, <2>4, <2>5, <2>6 DEF LinkType
<1>11. work' \in [Workers -> [Entries -> Entry]]
  BY <1>5, <1>8, <1>9
<1>12. \A v \in Workers \ {w} :
              /\ next'[v] = next[v] /\ prev'[v] = prev[v] /\ io_seq'[v] = io_seq[v]
              /\ io_seq_end'[v] = io_seq_end[v] /\ free_seq'[v] = free_seq[v]
              /\ free_seq_end'[v] = free_seq_end[v] /\ work'[v] = work[v]
  BY <1>4, <1>6, <1>8 DEF LinkedIn, LinkType
<1>13. /\ \A x \in 0 .. N - 1 :
            /\ next'[w][x] = IF x = e THEN succ ELSE IF x = p THEN e ELSE next[w][x]
            /\ prev'[w][x] = IF x = e THEN p ELSE IF x = succ THEN e ELSE prev[w][x]
       /\ io_seq'[w] = IF p = Nil THEN e ELSE io_seq[w]
       /\ io_seq_end'[w] = IF succ = Nil THEN e ELSE io_seq_end[w]
       /\ free_seq'[w] = next[w][e] /\ free_seq_end'[w] = free_seq_end[w]
  BY <1>1, <1>4, <1>6 DEF LinkedIn, LinkType, e
<1>14. /\ work'[w][e].op = op /\ ~work'[w][e].completed
       /\ \A x \in 0 .. N - 1 : x # e => work'[w][x] = work[w][x]
  BY <1>1, <1>5, <1>8, <1>9
<1> DEFINE t == Inserted(s, m, k, N)
<1>15. Order(N, t)
  BY <1>1, <1>2, InsertOrder
<1>16. Linked(N, t, m + 1, next'[w], prev'[w])
       /\ Ends(N, t, m + 1, io_seq'[w], io_seq_end'[w], free_seq'[w], free_seq_end'[w])
  <2>1. Linked(N, t, m + 1, next'[w], prev'[w])
        /\ Ends(N, t, m + 1, IF p = Nil THEN e ELSE io_seq[w], IF succ = Nil THEN e ELSE io_seq_end[w],
                next[w][e], free_seq_end[w])
    <3>1. p = (IF k = 0 THEN Nil ELSE s[k - 1]) /\ succ = IF p = Nil THEN io_seq[w] ELSE next[w][p]
      BY <1>4
    <3>2. Ends(N, s, m, io_seq[w], io_seq_end[w], e, free_seq_end[w])
      BY <1>2 DEF e
    <3>3. Insertion(N, s, m, k, next[w], prev[w], io_seq[w], io_seq_end[w], e, free_seq_end[w],
                    p, succ, next'[w], prev'[w])
      BY <3>1, <3>2, <1>1, <1>2, <1>3, <1>13 DEF Insertion
    <3>4. QED
      BY <3>3, InsertLinked
  <2>2. QED
    BY <2>1, <1>13
<1>17. Loaded(N, t, m + 1, work'[w])
  BY <1>1, <1>2, <1>5, <1>14, InsertLoaded
<1>18. Standing(N, t, m + 1, work'[w], wpc'[w], curr'[w])
  BY <1>1, <1>2, <1>5, <1>14, InsertStanding
<1> HIDE DEF t
<1>19. t \in [Entries -> Entries] /\ m + 1 \in Entries
  <2>1. t \in [0 .. N - 1 -> 0 .. N - 1]
    BY <1>15 DEF Order
  <2>2. t \in [Entries -> Entries]
    BY <2>1, <1>1, Zenon
  <2>3. m + 1 \in 0 .. N - 1
    BY <1>1, <1>3
  <2>4. m + 1 \in Entries
    BY <2>3, <1>1, Zenon
  <2>5. QED
    BY <2>2, <2>4
<1>20. ListAt(w, t, m + 1)'
  BY <1>0, <1>15, <1>16, <1>17, <1>18 DEF ListAt, IsList
<1>21. \E u \in [Entries -> Entries], n \in Entries : ListAt(w, u, n)'
  BY <1>19, <1>20 DEF ListAt
<1>22. QED
  BY <1>10, <1>11, <1>12, <1>21

\* Taking completed entries back leaves every worker's list a list.
LEMMA ReclaimList ==
  ASSUME conf \in Configs, conf' = conf, LinkType, ListsAre, wpc' = wpc, curr' = curr, work' = work,
         wpc \in [Workers -> {"top", "look", "copied", "mark", "signal"}], NEW a \in Actors, Reclaim(a)
  PROVE  LinkType' /\ ListsAre'
<1> DEFINE R == {w \in Workers : DonePrefix(w) # {}}
<1>1. PICK N \in Nat \ {0} : N = conf.entries
  BY Constants
<1>2. Nil \notin Entries /\ Entries = 0 .. N - 1 /\ Workers' = Workers /\ Entries' = Entries
  BY <1>1, Constants DEF Entries, Workers
<1>3. /\ io_seq' = [w \in Workers |-> IF w \in R THEN next[w][LastDone(w)] ELSE io_seq[w]]
      /\ next' = [w \in Workers |-> IF w \notin R THEN next[w] ELSE
           [next[w] EXCEPT ![free_seq_end[w]] = io_seq[w], ![LastDone(w)] = Nil]]
      /\ prev' = [w \in Workers |-> IF w \notin R THEN prev[w] ELSE
           [e \in Entries |-> IF e = next[w][LastDone(w)] THEN Nil
                              ELSE IF e = io_seq[w] THEN free_seq_end[w] ELSE prev[w][e]]]
      /\ free_seq_end' = [w \in Workers |-> IF w \in R THEN LastDone(w) ELSE free_seq_end[w]]
      /\ io_seq_end' = io_seq_end /\ free_seq' = free_seq
  BY DEF Reclaim
<1> HIDE DEF R
<1>4. ASSUME NEW w \in Workers
      PROVE  /\ next'[w] \in [Entries -> Entries \cup {Nil}] /\ prev'[w] \in [Entries -> Entries \cup {Nil}]
             /\ io_seq'[w] \in Entries \cup {Nil} /\ free_seq_end'[w] \in Entries
             /\ \E s \in [Entries -> Entries], m \in Entries : ListAt(w, s, m)'
  <2>1. PICK s \in [Entries -> Entries], m \in Entries : ListAt(w, s, m)
    BY DEF ListsAre, ListAt
  <2>2. /\ Order(N, s) /\ Linked(N, s, m, next[w], prev[w])
        /\ Ends(N, s, m, io_seq[w], io_seq_end[w], free_seq[w], free_seq_end[w])
        /\ Loaded(N, s, m, work[w]) /\ Standing(N, s, m, work[w], wpc[w], curr[w])
    BY <1>1, <2>1 DEF ListAt, IsList
  <2>3. CASE w \notin R
    <3>1. next'[w] = next[w] /\ prev'[w] = prev[w] /\ io_seq'[w] = io_seq[w] /\ free_seq_end'[w] = free_seq_end[w]
      BY <1>3, <2>3
    <3>2. ListAt(w, s, m)'
      BY <1>1, <1>3, <2>2, <3>1 DEF ListAt, IsList
    <3>3. \E t \in [Entries -> Entries], n \in Entries : ListAt(w, t, n)'
      BY <3>2 DEF ListAt
    <3>4. QED
      BY <3>1, <3>3 DEF LinkType
  <2>4. CASE w \in R
    <3>1. DonePrefix(w) # {}
      BY <2>4 DEF R
    <3>2. PICK k \in 1 .. m : LastDone(w) = s[k - 1] /\ \A i \in 0 .. k - 1 : work[w][s[i]].completed
      BY <2>1, <3>1, DoneIs
    <3>3. k - 1 \in Entries /\ m \in 0 .. N - 1 /\ m - k \in Entries /\ k \in 0 .. N - 1
      BY <1>2
    <3>4. s[k - 1] \in Entries /\ io_seq[w] \in Entries \cup {Nil} /\ free_seq_end[w] \in Entries
          /\ next[w] \in [Entries -> Entries \cup {Nil}] /\ prev[w] \in [Entries -> Entries \cup {Nil}]
          /\ next[w][s[k - 1]] \in Entries \cup {Nil}
      <4>1. s[k - 1] \in Entries
        BY <3>3
      <4>2. io_seq[w] \in Entries \cup {Nil} /\ free_seq_end[w] \in Entries
            /\ next[w] \in [Entries -> Entries \cup {Nil}] /\ prev[w] \in [Entries -> Entries \cup {Nil}]
        BY DEF LinkType
      <4>3. QED
        BY <4>1, <4>2
    <3>5. /\ io_seq'[w] = next[w][s[k - 1]] /\ free_seq_end'[w] = s[k - 1]
          /\ next'[w] = [next[w] EXCEPT ![free_seq_end[w]] = io_seq[w], ![s[k - 1]] = Nil]
          /\ prev'[w] = [e \in Entries |-> IF e = next[w][s[k - 1]] THEN Nil
                              ELSE IF e = io_seq[w] THEN free_seq_end[w] ELSE prev[w][e]]
          /\ io_seq_end'[w] = io_seq_end[w] /\ free_seq'[w] = free_seq[w]
      BY <1>3, <2>4, <3>2
    <3>6. /\ next'[w] \in [Entries -> Entries \cup {Nil}] /\ prev'[w] \in [Entries -> Entries \cup {Nil}]
          /\ io_seq'[w] \in Entries \cup {Nil} /\ free_seq_end'[w] \in Entries
      BY <3>4, <3>5
    <3>7. \A x \in 0 .. N - 1 :
            /\ next'[w][x] = IF x = s[k - 1] THEN Nil ELSE IF x = free_seq_end[w] THEN io_seq[w] ELSE next[w][x]
            /\ prev'[w][x] = IF x = next[w][s[k - 1]] THEN Nil ELSE IF x = io_seq[w] THEN free_seq_end[w] ELSE prev[w][x]
      BY <1>2, <3>4, <3>5
    <3>8. Rotation(N, s, m, k, next[w], prev[w], io_seq[w], io_seq_end[w], free_seq[w], free_seq_end[w],
                   next'[w], prev'[w])
      BY <2>2, <3>3, <3>7 DEF Rotation
    <3> DEFINE t == Rotated(s, k, N)
    <3>9. Linked(N, t, m - k, next'[w], prev'[w])
          /\ Ends(N, t, m - k, next[w][s[k - 1]], io_seq_end[w], free_seq[w], s[k - 1])
      BY <3>8, RotateLinked
    <3>10. Order(N, t)
      BY <2>2, <3>3, RotateOrder
    <3>11. Loaded(N, t, m - k, work[w])
      BY <2>2, <3>2, <3>3, RotateLoaded
    <3>12. Standing(N, t, m - k, work[w], wpc[w], curr[w])
      <4>1. wpc[w] \in {"top", "look", "copied", "mark", "signal"}
        OBVIOUS
      <4>2. QED
        BY <2>2, <3>2, <3>3, <4>1, RotateStanding
    <3>13. t \in [Entries -> Entries]
      <4>1. t \in [0 .. N - 1 -> 0 .. N - 1]
        BY <3>10 DEF Order
      <4>2. QED
        BY <4>1, <1>2, Zenon
    <3> HIDE DEF t
    <3>14. ListAt(w, t, m - k)'
      BY <1>1, <3>5, <3>9, <3>10, <3>11, <3>12 DEF ListAt, IsList
    <3>15. \E u \in [Entries -> Entries], n \in Entries : ListAt(w, u, n)'
      BY <3>3, <3>13, <3>14 DEF ListAt
    <3>16. QED
      BY <3>6, <3>15
  <2>5. QED
    BY <2>3, <2>4
<1>5. LinkType'
  <2>1. \A w \in Workers : next'[w] \in [Entries -> Entries \cup {Nil}] /\ prev'[w] \in [Entries -> Entries \cup {Nil}]
             /\ io_seq'[w] \in Entries \cup {Nil} /\ free_seq_end'[w] \in Entries
    BY <1>4
  <2>2. next' = [w \in Workers |-> next'[w]] /\ prev' = [w \in Workers |-> prev'[w]]
        /\ io_seq' = [w \in Workers |-> io_seq'[w]] /\ free_seq_end' = [w \in Workers |-> free_seq_end'[w]]
    BY <1>3
  <2>3. /\ next' \in [Workers -> [Entries -> Entries \cup {Nil}]]
        /\ prev' \in [Workers -> [Entries -> Entries \cup {Nil}]]
        /\ io_seq' \in [Workers -> Entries \cup {Nil}] /\ free_seq_end' \in [Workers -> Entries]
    BY <2>1, <2>2
  <2>4. io_seq_end' \in [Workers -> Entries \cup {Nil}] /\ free_seq' \in [Workers -> Entries]
    BY <1>3 DEF LinkType
  <2>5. QED
    BY <1>2, <2>3, <2>4 DEF LinkType
<1>6. ListsAre'
  BY <1>2, <1>4 DEF ListsAre, ListAt
<1>7. QED
  BY <1>5, <1>6

\* A new entry leaves every worker's list a list.
LEMMA EnqueueLists ==
  ASSUME conf \in Configs, conf' = conf, LinkType, work \in [Workers -> [Entries -> Entry]], ListsAre,
         NEW w \in Workers, ~ListFull(w),
         NEW op \in Cmds \cup {Internal, None}, NEW d \in 0 .. MaxDue, Enqueue(w, op, d),
         Steady => op # None, wpc' = wpc, curr' = curr
  PROVE  LinkType' /\ work' \in [Workers -> [Entries -> Entry]] /\ ListsAre'
<1>1. PICK s \in [Entries -> Entries], m \in Entries : ListAt(w, s, m)
  BY DEF ListsAre, ListAt
<1>2. /\ LinkType' /\ work' \in [Workers -> [Entries -> Entry]]
      /\ \A v \in Workers \ {w} :
              /\ next'[v] = next[v] /\ prev'[v] = prev[v] /\ io_seq'[v] = io_seq[v]
              /\ io_seq_end'[v] = io_seq_end[v] /\ free_seq'[v] = free_seq[v]
              /\ free_seq_end'[v] = free_seq_end[v] /\ work'[v] = work[v]
      /\ \E t \in [Entries -> Entries], n \in Entries : ListAt(w, t, n)'
  BY <1>1, EnqueueList
<1>3. Workers' = Workers /\ Entries' = Entries
  BY DEF Workers, Entries
<1>4. ASSUME NEW v \in Workers, v # w PROVE \E t \in [Entries -> Entries], n \in Entries : ListAt(v, t, n)'
  <2>1. PICK t \in [Entries -> Entries], n \in Entries : ListAt(v, t, n)
    BY DEF ListsAre, ListAt
  <2>2. v \in Workers \ {w}
    BY <1>4
  <2>3. next'[v] = next[v] /\ prev'[v] = prev[v] /\ io_seq'[v] = io_seq[v]
              /\ io_seq_end'[v] = io_seq_end[v] /\ free_seq'[v] = free_seq[v]
              /\ free_seq_end'[v] = free_seq_end[v] /\ work'[v] = work[v]
    BY <1>2, <2>2
  <2>4. ListAt(v, t, n)'
    BY <2>1, <2>3 DEF ListAt
  <2>5. QED
    BY <2>4 DEF ListAt
<1>5. \A v \in Workers : \E t \in [Entries -> Entries], n \in Entries : ListAt(v, t, n)'
  BY <1>2, <1>4
<1>6. ListsAre'
  BY <1>3, <1>5 DEF ListsAre, ListAt
<1>7. QED
  BY <1>2, <1>6

-----------------------------------------------------------------------------
(* Steps that change the entries or the worker's place                     *)

\* Changes at one worker that leave its links alone.
LEMMA ListsKept ==
  ASSUME conf' = conf, UNCHANGED linkVars, ListsAre, NEW w \in Workers,
         \A v \in Workers \ {w} : work'[v] = work[v] /\ wpc'[v] = wpc[v] /\ curr'[v] = curr[v],
         \A s \in [Entries -> Entries], m \in Entries : ListAt(w, s, m) =>
           /\ Loaded(conf.entries, s, m, work'[w])
           /\ Standing(conf.entries, s, m, work'[w], wpc'[w], curr'[w])
  PROVE  ListsAre'
<1>1. Workers' = Workers /\ Entries' = Entries
  BY DEF Workers, Entries
<1>2. next' = next /\ prev' = prev /\ io_seq' = io_seq /\ io_seq_end' = io_seq_end /\ free_seq' = free_seq
      /\ free_seq_end' = free_seq_end
  BY DEF linkVars
<1>3. ASSUME NEW v \in Workers PROVE \E t \in [Entries -> Entries], n \in Entries : ListAt(v, t, n)'
  <2>1. PICK t \in [Entries -> Entries], n \in Entries : ListAt(v, t, n)
    BY DEF ListsAre, ListAt
  <2>2. CASE v # w
    <3>1. work'[v] = work[v] /\ wpc'[v] = wpc[v] /\ curr'[v] = curr[v]
      BY <2>2
    <3>2. ListAt(v, t, n)'
      BY <1>2, <2>1, <3>1 DEF ListAt
    <3>3. QED
      BY <3>2 DEF ListAt
  <2>3. CASE v = w
    <3>1. /\ Loaded(conf.entries, t, n, work'[w])
          /\ Standing(conf.entries, t, n, work'[w], wpc'[w], curr'[w])
      BY <2>1, <2>3
    <3>2. ListAt(v, t, n)'
      BY <1>2, <2>1, <2>3, <3>1 DEF ListAt, IsList
    <3>3. QED
      BY <3>2 DEF ListAt
  <2>4. QED
    BY <2>2, <2>3
<1>4. QED
  BY <1>1, <1>3 DEF ListsAre, ListAt

\* No list changes at all.
LEMMA ListsSame ==
  ASSUME conf' = conf, UNCHANGED linkVars, UNCHANGED <<work, wpc, curr>>, ListsAre
  PROVE  ListsAre'
<1>1. Workers' = Workers /\ Entries' = Entries
  BY DEF Workers, Entries
<1>2. next' = next /\ prev' = prev /\ io_seq' = io_seq /\ io_seq_end' = io_seq_end /\ free_seq' = free_seq
      /\ free_seq_end' = free_seq_end
  BY DEF linkVars
<1>3. QED
  BY <1>1, <1>2 DEF ListsAre

\* A step along the links.
LEMMA NextStands ==
  ASSUME NEW N \in Nat \ {0}, NEW s, Order(N, s), NEW m \in 0 .. N - 1, NEW nx, NEW pv, Linked(N, s, m, nx, pv),
         NEW entries, NEW i \in 0 .. N - 1, i < m \/ \A j \in i .. N - 1 : entries[s[j]].completed
  PROVE  Standing(N, s, m, entries, "look", nx[s[i]])
<1>1. nx[s[i]] = IF i = m - 1 \/ i = N - 1 THEN Nil ELSE s[i + 1]
  BY DEF Linked
<1>2. CASE i = m - 1 \/ i = N - 1
  BY <1>1, <1>2 DEF Standing
<1>3. CASE i # m - 1 /\ i # N - 1
  <2>1. i + 1 \in 0 .. N - 1 /\ nx[s[i]] = s[i + 1]
    BY <1>1, <1>3
  <2>2. i + 1 < m \/ \A j \in i + 1 .. N - 1 : entries[s[j]].completed
    BY <1>3
  <2>3. QED
    BY <2>1, <2>2 DEF Standing
<1>4. QED
  BY <1>2, <1>3

\* Entries that keep what they had to do, or are completed.
KeptOrDone(N, s, old, new) ==
  \A j \in 0 .. N - 1 : \/ new[s[j]].op = old[s[j]].op /\ new[s[j]].completed = old[s[j]].completed
                        \/ new[s[j]].op = None /\ new[s[j]].completed

\* They are loaded as before.
LEMMA LoadedKept ==
  ASSUME NEW N \in Nat \ {0}, NEW s, NEW m \in 0 .. N - 1, NEW old, NEW new, Loaded(N, s, m, old),
         KeptOrDone(N, s, old, new)
  PROVE  Loaded(N, s, m, new)
<1> USE DEF KeptOrDone
<1>1. ASSUME NEW j \in 0 .. N - 1, new[s[j]].op # None PROVE j < m /\ ~new[s[j]].completed
  BY <1>1 DEF Loaded
<1>2. ASSUME Steady, NEW j \in 0 .. m - 1 PROVE new[s[j]].completed \/ new[s[j]].op # None
  <2>1. j \in 0 .. N - 1
    OBVIOUS
  <2>2. old[s[j]].completed \/ old[s[j]].op # None
    BY <1>2 DEF Loaded
  <2>3. QED
    BY <2>1, <2>2
<1>3. QED
  BY <1>1, <1>2 DEF Loaded

\* Time passing changes no list.
LEMMA TickLists ==
  ASSUME conf \in Configs, Tick, ListsAre, work \in [Workers -> [Entries -> Entry]]
  PROVE  ListsAre' /\ work' \in [Workers -> [Entries -> Entry]]
<1>1. Workers' = Workers /\ Entries' = Entries /\ wpc' = wpc /\ curr' = curr /\ conf' = conf
      /\ next' = next /\ prev' = prev /\ io_seq' = io_seq /\ io_seq_end' = io_seq_end /\ free_seq' = free_seq
      /\ free_seq_end' = free_seq_end
  BY DEF Workers, Entries, Tick, walkVars, linkVars
<1>2. work' = [w \in Workers |-> [e \in Entries |-> [work[w][e] EXCEPT !.due = IF @ > 0 THEN @ - 1 ELSE 0]]]
  BY DEF Tick
<1>3. ASSUME NEW w \in Workers, NEW e \in Entries
      PROVE  /\ work'[w][e] \in Entry
             /\ work'[w][e].op = work[w][e].op /\ work'[w][e].completed = work[w][e].completed
             /\ work'[w][e].copied = work[w][e].copied
  <2>1. work[w][e] \in Entry
    OBVIOUS
  <2>2. work[w][e].due \in 0 .. MaxDue
    BY <2>1 DEF Entry
  <2> DEFINE x == IF work[w][e].due > 0 THEN work[w][e].due - 1 ELSE 0
  <2>3. x \in 0 .. MaxDue
    BY <2>2, Constants
  <2>4. work'[w][e] = [work[w][e] EXCEPT !.due = x]
    BY <1>2
  <2> HIDE DEF x
  <2>5. QED
    BY <2>1, <2>3, <2>4 DEF Entry
<1>4. work' \in [Workers -> [Entries -> Entry]]
  BY <1>2, <1>3
<1>5. ASSUME NEW w \in Workers PROVE \E s \in [Entries -> Entries], m \in Entries : ListAt(w, s, m)'
  <2>1. PICK s \in [Entries -> Entries], m \in Entries : ListAt(w, s, m)
    BY DEF ListsAre, ListAt
  <2>2. PICK N \in Nat \ {0} : N = conf.entries /\ Entries = 0 .. N - 1 /\ m \in 0 .. N - 1
    BY Constants DEF Entries
  <2>3. \A i \in 0 .. N - 1 : work'[w][s[i]].op = work[w][s[i]].op /\ work'[w][s[i]].completed = work[w][s[i]].completed
    BY <1>3, <2>2
  <2>4. Loaded(N, s, m, work[w]) /\ Standing(N, s, m, work[w], wpc[w], curr[w])
    BY <2>1, <2>2 DEF ListAt, IsList
  <2>5. Loaded(N, s, m, work'[w])
    <3>1. KeptOrDone(N, s, work[w], work'[w])
      BY <2>3 DEF KeptOrDone
    <3>2. QED
      BY <2>2, <2>4, <3>1, LoadedKept
  <2>6. Standing(N, s, m, work'[w], wpc[w], curr[w])
    <3>1. wpc[w] \in {"copied", "mark"} => \E i \in 0 .. m - 1 : curr[w] = s[i] /\ ~work'[w][s[i]].completed
      BY <2>2, <2>3, <2>4 DEF Standing
    <3>2. wpc[w] = "look" => \/ curr[w] = Nil
                    \/ \E i \in 0 .. N - 1 :
                         curr[w] = s[i] /\ (i < m \/ \A j \in i .. N - 1 : work'[w][s[j]].completed)
      <4>1. SUFFICES ASSUME wpc[w] = "look", curr[w] # Nil
                     PROVE  \E i \in 0 .. N - 1 :
                         curr[w] = s[i] /\ (i < m \/ \A j \in i .. N - 1 : work'[w][s[j]].completed)
        OBVIOUS
      <4>2. PICK i \in 0 .. N - 1 : curr[w] = s[i] /\ (i < m \/ \A j \in i .. N - 1 : work[w][s[j]].completed)
        BY <2>4, <4>1 DEF Standing
      <4>3. \A j \in i .. N - 1 : work'[w][s[j]].completed = work[w][s[j]].completed
        BY <2>3
      <4>4. QED
        BY <4>2, <4>3
    <3>3. QED
      BY <3>1, <3>2, <2>4 DEF Standing
  <2>7. ListAt(w, s, m)'
    BY <1>1, <2>1, <2>2, <2>5, <2>6 DEF ListAt, IsList
  <2>8. QED
    BY <2>7 DEF ListAt
<1>6. ListsAre'
  BY <1>1, <1>5 DEF ListsAre, ListAt
<1>7. QED
  BY <1>4, <1>6

\* The type of the workers' walks.
WalkType ==
  /\ wpc \in [Workers -> {"top", "look", "copied", "mark", "signal"}]
  /\ curr \in [Workers -> Entries \cup {Nil}] /\ seen_due \in [Workers -> BOOLEAN]

\* What a pass over the list does to lists and types.
PassBasics ==
  /\ conf \in Configs /\ LinkType /\ WalkType /\ ListsAre /\ work \in [Workers -> [Entries -> Entry]]

\* The order behind a worker's list, its facts taken apart.
LEMMA Standpoint ==
  ASSUME PassBasics, NEW w \in Workers, NEW s \in [Entries -> Entries], NEW m \in Entries, ListAt(w, s, m)
  PROVE  \E N \in Nat \ {0} :
           /\ N = conf.entries /\ Entries = 0 .. N - 1 /\ m \in 0 .. N - 1 /\ Nil \notin Entries
           /\ Order(N, s) /\ Linked(N, s, m, next[w], prev[w])
           /\ Ends(N, s, m, io_seq[w], io_seq_end[w], free_seq[w], free_seq_end[w])
           /\ Loaded(N, s, m, work[w]) /\ Standing(N, s, m, work[w], wpc[w], curr[w])
           /\ \A i \in 0 .. N - 1 : s[i] \in Entries
<1>1. conf.entries \in Nat \ {0} /\ Entries = 0 .. conf.entries - 1 /\ Nil \notin Entries
  BY Constants DEF Entries, PassBasics
<1>2. QED
  BY <1>1 DEF ListAt, IsList

\* A pass begins at the first live entry.
LEMMA StartPassLists ==
  ASSUME PassBasics, NEW w \in Workers, StartPass(w)
  PROVE  PassBasics'
<1>1. conf' = conf /\ UNCHANGED linkVars /\ work' = work /\ Workers' = Workers /\ Entries' = Entries
      /\ wpc' = [wpc EXCEPT ![w] = "look"] /\ curr' = [curr EXCEPT ![w] = io_seq[w]] /\ seen_due' = seen_due
  BY DEF StartPass, Workers, Entries
<1>2. WalkType' /\ LinkType' /\ conf' \in Configs
  BY <1>1 DEF WalkType, LinkType, PassBasics, linkVars
<1>3. \A v \in Workers \ {w} : work'[v] = work[v] /\ wpc'[v] = wpc[v] /\ curr'[v] = curr[v]
  BY <1>1 DEF PassBasics, WalkType
<1>4. wpc'[w] = "look" /\ curr'[w] = io_seq[w] /\ work'[w] = work[w]
  BY <1>1 DEF PassBasics, WalkType
<1>5. ASSUME NEW s \in [Entries -> Entries], NEW m \in Entries, ListAt(w, s, m)
      PROVE  /\ Loaded(conf.entries, s, m, work'[w])
             /\ Standing(conf.entries, s, m, work'[w], wpc'[w], curr'[w])
  <2>1. PICK N \in Nat \ {0} :
           /\ N = conf.entries /\ Entries = 0 .. N - 1 /\ m \in 0 .. N - 1
           /\ Ends(N, s, m, io_seq[w], io_seq_end[w], free_seq[w], free_seq_end[w])
           /\ Loaded(N, s, m, work[w])
    BY <1>5, Standpoint
  <2>2. io_seq[w] = Nil \/ (io_seq[w] = s[0] /\ 0 < m /\ 0 \in 0 .. N - 1)
    BY <2>1 DEF Ends
  <2>3. Standing(N, s, m, work[w], "look", io_seq[w])
    BY <2>2 DEF Standing
  <2>4. QED
    BY <1>4, <2>1, <2>3
<1>6. ListsAre'
  BY <1>1, <1>3, <1>5, ListsKept DEF PassBasics
<1>7. QED
  BY <1>1, <1>2, <1>6 DEF PassBasics

\* A completed entry is passed over.
LEMMA SkipLists ==
  ASSUME PassBasics, NEW w \in Workers, Skip(w)
  PROVE  PassBasics'
<1>1. conf' = conf /\ UNCHANGED linkVars /\ work' = work /\ Workers' = Workers /\ Entries' = Entries
      /\ wpc' = wpc /\ curr' = [curr EXCEPT ![w] = next[w][curr[w]]] /\ seen_due' = seen_due
      /\ wpc[w] = "look" /\ curr[w] # Nil
  BY DEF Skip, Workers, Entries
<1>2. curr[w] \in Entries /\ next[w][curr[w]] \in Entries \cup {Nil}
  BY <1>1 DEF PassBasics, WalkType, LinkType
<1>3. WalkType' /\ LinkType' /\ conf' \in Configs
  BY <1>1, <1>2 DEF WalkType, LinkType, PassBasics, linkVars
<1>4. \A v \in Workers \ {w} : work'[v] = work[v] /\ wpc'[v] = wpc[v] /\ curr'[v] = curr[v]
  BY <1>1 DEF PassBasics, WalkType
<1>5. wpc'[w] = "look" /\ curr'[w] = next[w][curr[w]] /\ work'[w] = work[w]
  BY <1>1 DEF PassBasics, WalkType
<1>6. ASSUME NEW s \in [Entries -> Entries], NEW m \in Entries, ListAt(w, s, m)
      PROVE  /\ Loaded(conf.entries, s, m, work'[w])
             /\ Standing(conf.entries, s, m, work'[w], wpc'[w], curr'[w])
  <2>1. PICK N \in Nat \ {0} :
           /\ N = conf.entries /\ m \in 0 .. N - 1 /\ Order(N, s) /\ Linked(N, s, m, next[w], prev[w])
           /\ Loaded(N, s, m, work[w]) /\ Standing(N, s, m, work[w], wpc[w], curr[w])
    BY <1>6, Standpoint
  <2>2. PICK i \in 0 .. N - 1 : curr[w] = s[i] /\ (i < m \/ \A j \in i .. N - 1 : work[w][s[j]].completed)
    BY <1>1, <2>1 DEF Standing
  <2>3. Standing(N, s, m, work[w], "look", next[w][s[i]])
    BY <2>1, <2>2, NextStands
  <2>4. QED
    BY <1>5, <2>1, <2>2, <2>3
<1>7. ListsAre'
  BY <1>1, <1>4, <1>6, ListsKept DEF PassBasics
<1>8. QED
  BY <1>1, <1>3, <1>7 DEF PassBasics

\* An entry not completed is live; its data is copied.
LEMMA LookLists ==
  ASSUME PassBasics, NEW w \in Workers, Look(w)
  PROVE  PassBasics'
<1>1. conf' = conf /\ UNCHANGED linkVars /\ Workers' = Workers /\ Entries' = Entries
      /\ wpc' = [wpc EXCEPT ![w] = "copied"] /\ curr' = curr /\ seen_due' = [seen_due EXCEPT ![w] = At(w).due = 0]
      /\ wpc[w] = "look" /\ curr[w] # Nil /\ ~work[w][curr[w]].completed
  BY DEF Look, Workers, Entries, At
<1>2. curr[w] \in Entries
  BY <1>1 DEF PassBasics, WalkType
<1> DEFINE c == curr[w]
           new == [work[w][c] EXCEPT !.copied = TRUE]
<1>3. work' = [work EXCEPT ![w] = [work[w] EXCEPT ![c] = new]]
  BY DEF Look
<1>4. new \in Entry /\ new.op = work[w][c].op /\ new.completed = work[w][c].completed
  <2>1. work[w][c] \in Entry
    BY <1>2 DEF PassBasics
  <2>2. QED
    BY <2>1 DEF Entry
<1> HIDE DEF new
<1>5. WalkType' /\ LinkType' /\ conf' \in Configs /\ work' \in [Workers -> [Entries -> Entry]]
  BY <1>1, <1>2, <1>3, <1>4 DEF WalkType, LinkType, PassBasics, linkVars
<1>6. \A v \in Workers \ {w} : work'[v] = work[v] /\ wpc'[v] = wpc[v] /\ curr'[v] = curr[v]
  BY <1>1, <1>3 DEF PassBasics, WalkType
<1>7. wpc'[w] = "copied" /\ curr'[w] = c
      /\ \A e \in Entries : work'[w][e].op = work[w][e].op /\ work'[w][e].completed = work[w][e].completed
  BY <1>1, <1>3, <1>4 DEF PassBasics, WalkType
<1>8. ASSUME NEW s \in [Entries -> Entries], NEW m \in Entries, ListAt(w, s, m)
      PROVE  /\ Loaded(conf.entries, s, m, work'[w])
             /\ Standing(conf.entries, s, m, work'[w], wpc'[w], curr'[w])
  <2>1. PICK N \in Nat \ {0} :
           /\ N = conf.entries /\ Entries = 0 .. N - 1 /\ m \in 0 .. N - 1
           /\ Loaded(N, s, m, work[w]) /\ Standing(N, s, m, work[w], wpc[w], curr[w])
           /\ \A i \in 0 .. N - 1 : s[i] \in Entries
    BY <1>8, Standpoint
  <2>2. PICK i \in 0 .. N - 1 : curr[w] = s[i] /\ (i < m \/ \A j \in i .. N - 1 : work[w][s[j]].completed)
    BY <1>1, <2>1 DEF Standing
  <2>3. i < m
    BY <1>1, <2>2
  <2>4. Standing(N, s, m, work'[w], "copied", c)
    <3>1. i \in 0 .. m - 1 /\ ~work'[w][s[i]].completed
      BY <1>1, <1>7, <2>1, <2>2, <2>3
    <3>2. QED
      BY <3>1, <2>2 DEF Standing
  <2>5. Loaded(N, s, m, work'[w])
    <3>1. \A j \in 0 .. N - 1 : work'[w][s[j]].op = work[w][s[j]].op
                                 /\ work'[w][s[j]].completed = work[w][s[j]].completed
      BY <1>7, <2>1
    <3>2. KeptOrDone(N, s, work[w], work'[w])
      BY <3>1 DEF KeptOrDone
    <3>3. QED
      BY <3>2, <2>1, LoadedKept
  <2>6. QED
    BY <1>7, <2>1, <2>4, <2>5
<1>9. ListsAre'
  BY <1>1, <1>6, <1>8, ListsKept DEF PassBasics
<1>10. QED
  BY <1>1, <1>5, <1>9 DEF PassBasics

\* One not yet due is left for later.
LEMMA NotYetLists ==
  ASSUME PassBasics, NEW w \in Workers, NotYet(w)
  PROVE  PassBasics'
<1>1. conf' = conf /\ UNCHANGED linkVars /\ work' = work /\ Workers' = Workers /\ Entries' = Entries
      /\ wpc' = [wpc EXCEPT ![w] = "look"] /\ curr' = [curr EXCEPT ![w] = next[w][curr[w]]] /\ seen_due' = seen_due
      /\ wpc[w] = "copied"
  BY DEF NotYet, Workers, Entries
<1>2. ASSUME NEW s \in [Entries -> Entries], NEW m \in Entries, ListAt(w, s, m)
      PROVE  /\ Loaded(conf.entries, s, m, work[w])
             /\ Standing(conf.entries, s, m, work[w], "look", next[w][curr[w]])
             /\ curr[w] \in Entries
  <2>1. PICK N \in Nat \ {0} :
           /\ N = conf.entries /\ Entries = 0 .. N - 1 /\ m \in 0 .. N - 1
           /\ Order(N, s) /\ Linked(N, s, m, next[w], prev[w])
           /\ Loaded(N, s, m, work[w]) /\ Standing(N, s, m, work[w], wpc[w], curr[w])
           /\ \A i \in 0 .. N - 1 : s[i] \in Entries
    BY <1>2, Standpoint
  <2>2. PICK i \in 0 .. m - 1 : curr[w] = s[i]
    BY <1>1, <2>1 DEF Standing
  <2>3. i \in 0 .. N - 1 /\ i < m
    BY <2>1
  <2>4. Standing(N, s, m, work[w], "look", next[w][s[i]])
    BY <2>1, <2>3, NextStands
  <2>5. QED
    BY <2>1, <2>2, <2>3, <2>4
<1>3. curr[w] \in Entries /\ next[w][curr[w]] \in Entries \cup {Nil}
  <2>1. PICK s \in [Entries -> Entries], m \in Entries : ListAt(w, s, m)
    BY DEF PassBasics, ListsAre, ListAt
  <2>2. curr[w] \in Entries
    BY <1>2, <2>1
  <2>3. QED
    BY <2>2 DEF PassBasics, LinkType
<1>4. WalkType' /\ LinkType' /\ conf' \in Configs
  BY <1>1, <1>3 DEF WalkType, LinkType, PassBasics, linkVars
<1>5. \A v \in Workers \ {w} : work'[v] = work[v] /\ wpc'[v] = wpc[v] /\ curr'[v] = curr[v]
  BY <1>1 DEF PassBasics, WalkType
<1>6. wpc'[w] = "look" /\ curr'[w] = next[w][curr[w]] /\ work'[w] = work[w]
  BY <1>1 DEF PassBasics, WalkType
<1>7. ListsAre'
  <2>1. \A s \in [Entries -> Entries], m \in Entries : ListAt(w, s, m) =>
           /\ Loaded(conf.entries, s, m, work'[w])
           /\ Standing(conf.entries, s, m, work'[w], wpc'[w], curr'[w])
    BY <1>2, <1>6
  <2>2. QED
    BY <1>1, <1>5, <2>1, ListsKept DEF PassBasics
<1>8. QED
  BY <1>1, <1>4, <1>7 DEF PassBasics

\* One due is answered or its space released.
LEMMA CompleteLists ==
  ASSUME PassBasics, NEW w \in Workers, Complete(w)
  PROVE  PassBasics'
<1>1. conf' = conf /\ UNCHANGED linkVars /\ work' = work /\ Workers' = Workers /\ Entries' = Entries
      /\ wpc' = [wpc EXCEPT ![w] = "mark"] /\ curr' = curr /\ seen_due' = seen_due
      /\ wpc[w] = "copied"
  BY DEF Complete, Workers, Entries
<1>2. WalkType' /\ LinkType' /\ conf' \in Configs
  BY <1>1 DEF WalkType, LinkType, PassBasics, linkVars
<1>3. \A v \in Workers \ {w} : work'[v] = work[v] /\ wpc'[v] = wpc[v] /\ curr'[v] = curr[v]
  BY <1>1 DEF PassBasics, WalkType
<1>4. wpc'[w] = "mark" /\ curr'[w] = curr[w] /\ work'[w] = work[w]
  BY <1>1 DEF PassBasics, WalkType
<1>5. ASSUME NEW s \in [Entries -> Entries], NEW m \in Entries, ListAt(w, s, m)
      PROVE  /\ Loaded(conf.entries, s, m, work[w])
             /\ Standing(conf.entries, s, m, work[w], "mark", curr[w])
  <2>1. Loaded(conf.entries, s, m, work[w]) /\ Standing(conf.entries, s, m, work[w], "copied", curr[w])
    BY <1>1, <1>5 DEF ListAt, IsList
  <2>2. QED
    BY <2>1 DEF Standing
<1>6. ListsAre'
  BY <1>1, <1>3, <1>4, <1>5, ListsKept DEF PassBasics
<1>7. QED
  BY <1>1, <1>2, <1>6 DEF PassBasics

\* Then it is marked completed.
LEMMA MarkLists ==
  ASSUME PassBasics, NEW w \in Workers, Mark(w)
  PROVE  PassBasics'
<1>1. conf' = conf /\ UNCHANGED linkVars /\ Workers' = Workers /\ Entries' = Entries
      /\ wpc' = [wpc EXCEPT ![w] = "look"] /\ curr' = [curr EXCEPT ![w] = next[w][curr[w]]]
      /\ seen_due' = [seen_due EXCEPT ![w] = FALSE] /\ wpc[w] = "mark"
  BY DEF Mark, Workers, Entries
<1> DEFINE c == curr[w]
           new == [work[w][c] EXCEPT !.completed = TRUE, !.op = None]
<1>2. work' = [work EXCEPT ![w] = [work[w] EXCEPT ![c] = new]]
  BY DEF Mark
<1>3. c \in Entries
  <2>1. PICK s \in [Entries -> Entries], m \in Entries : ListAt(w, s, m)
    BY DEF PassBasics, ListsAre, ListAt
  <2>2. PICK N \in Nat \ {0} :
           /\ Entries = 0 .. N - 1 /\ m \in 0 .. N - 1 /\ Standing(N, s, m, work[w], wpc[w], curr[w])
    BY <2>1, Standpoint
  <2>3. PICK i \in 0 .. m - 1 : c = s[i]
    BY <1>1, <2>2 DEF Standing
  <2>4. i \in Entries
    BY <2>2
  <2>5. QED
    BY <2>3, <2>4
<1>4. new \in Entry /\ new.op = None /\ new.completed
  <2>1. work[w][c] \in Entry
    BY <1>3 DEF PassBasics
  <2>2. QED
    BY <2>1 DEF Entry
<1> HIDE DEF new
<1>5. next[w][c] \in Entries \cup {Nil}
  BY <1>3 DEF PassBasics, LinkType
<1>6. WalkType' /\ LinkType' /\ conf' \in Configs /\ work' \in [Workers -> [Entries -> Entry]]
  BY <1>1, <1>2, <1>3, <1>4, <1>5 DEF WalkType, LinkType, PassBasics, linkVars
<1>7. \A v \in Workers \ {w} : work'[v] = work[v] /\ wpc'[v] = wpc[v] /\ curr'[v] = curr[v]
  BY <1>1, <1>2 DEF PassBasics, WalkType
<1>8. wpc'[w] = "look" /\ curr'[w] = next[w][c]
      /\ \A e \in Entries : IF e = c THEN work'[w][e].op = None /\ work'[w][e].completed ELSE work'[w][e] = work[w][e]
  BY <1>1, <1>2, <1>4 DEF PassBasics, WalkType
<1>9. ASSUME NEW s \in [Entries -> Entries], NEW m \in Entries, ListAt(w, s, m)
      PROVE  /\ Loaded(conf.entries, s, m, work'[w])
             /\ Standing(conf.entries, s, m, work'[w], wpc'[w], curr'[w])
  <2>1. PICK N \in Nat \ {0} :
           /\ N = conf.entries /\ Entries = 0 .. N - 1 /\ m \in 0 .. N - 1
           /\ Order(N, s) /\ Linked(N, s, m, next[w], prev[w])
           /\ Loaded(N, s, m, work[w]) /\ Standing(N, s, m, work[w], wpc[w], curr[w])
           /\ \A i \in 0 .. N - 1 : s[i] \in Entries
    BY <1>9, Standpoint
  <2>2. PICK i \in 0 .. m - 1 : curr[w] = s[i]
    BY <1>1, <2>1 DEF Standing
  <2>3. i \in 0 .. N - 1 /\ i < m
    BY <2>1
  <2>4. Standing(N, s, m, work'[w], "look", next[w][s[i]])
    BY <2>1, <2>3, NextStands
  <2>5. Loaded(N, s, m, work'[w])
    <3>1. \A j \in 0 .. N - 1 :
            \/ work'[w][s[j]].op = work[w][s[j]].op /\ work'[w][s[j]].completed = work[w][s[j]].completed
            \/ work'[w][s[j]].op = None /\ work'[w][s[j]].completed
      BY <1>8, <2>1
    <3>2. KeptOrDone(N, s, work[w], work'[w])
      BY <3>1 DEF KeptOrDone
    <3>3. QED
      BY <3>2, <2>1, LoadedKept
  <2>6. QED
    BY <1>8, <2>1, <2>2, <2>4, <2>5
<1>10. ListsAre'
  BY <1>1, <1>7, <1>9, ListsKept DEF PassBasics
<1>11. QED
  BY <1>1, <1>6, <1>10 DEF PassBasics

\* A pass ends.
LEMMA PassOverLists ==
  ASSUME PassBasics, NEW w \in Workers, PassOver(w) \/ Signal(w)
  PROVE  PassBasics'
<1>1. /\ conf' = conf /\ UNCHANGED linkVars /\ work' = work /\ Workers' = Workers /\ Entries' = Entries
      /\ curr' = curr /\ seen_due' = seen_due
      /\ (wpc[w] = "look" /\ curr[w] = Nil) \/ wpc[w] = "signal"
      /\ \E p \in {"top", "signal"} : wpc' = [wpc EXCEPT ![w] = p]
  BY DEF PassOver, Signal, Workers, Entries
<1>2. WalkType' /\ LinkType' /\ conf' \in Configs
  BY <1>1 DEF WalkType, LinkType, PassBasics, linkVars
<1>3. \A v \in Workers \ {w} : work'[v] = work[v] /\ wpc'[v] = wpc[v] /\ curr'[v] = curr[v]
  BY <1>1 DEF PassBasics, WalkType
<1>4. wpc'[w] \in {"top", "signal"} /\ curr'[w] = curr[w] /\ work'[w] = work[w]
  BY <1>1 DEF PassBasics, WalkType
<1>5. ASSUME NEW s \in [Entries -> Entries], NEW m \in Entries, ListAt(w, s, m)
      PROVE  /\ Loaded(conf.entries, s, m, work'[w])
             /\ Standing(conf.entries, s, m, work'[w], wpc'[w], curr'[w])
  <2>1. Loaded(conf.entries, s, m, work[w]) /\ Standing(conf.entries, s, m, work[w], wpc[w], curr[w])
    BY <1>5 DEF ListAt, IsList
  <2>2. curr[w] = Nil
    BY <1>1, <2>1 DEF Standing
  <2>3. QED
    BY <1>4, <2>1, <2>2 DEF Standing
<1>6. ListsAre'
  BY <1>1, <1>3, <1>4, <1>5, ListsKept DEF PassBasics
<1>7. QED
  BY <1>1, <1>2, <1>6 DEF PassBasics

-----------------------------------------------------------------------------
(* Types of the host's state and of the queues                             *)

\* Types and lists, all but the buffer's.
SideType == PassBasics /\ HostType /\ CqType /\ DoorbellType

\* One slot on in a submission queue.
LEMMA AfterSqIs ==
  ASSUME conf \in Configs, NEW i \in SqSlots
  PROVE  AfterSq(i) = After1(i, SqSize) /\ AfterSq(i) \in SqSlots
BY Constants, Turning DEF AfterSq, SqSlots

\* One slot on in the completion queue.
LEMMA AfterCqIs ==
  ASSUME conf \in Configs, NEW i \in CqSlots
  PROVE  (i + 1) % CqSize = After1(i, CqSize) /\ (i + 1) % CqSize \in CqSlots
BY Constants, Turning DEF CqSlots

\* The type invariant, split between lists and the rest.
LEMMA TypeParts ==
  TypeOK /\ ListsAre <=> SideType /\ buf \in 0 .. BufSize
<1>1. conf \in Configs <=> conf \in Configs
  OBVIOUS
<1>2. ListType <=> LinkType /\ WalkType /\ work \in [Workers -> [Entries -> Entry]] /\ buf \in 0 .. BufSize
  BY DEF ListType, LinkType, WalkType
<1>3. HostType => conf \in Configs
  BY DEF HostType
<1>4. QED
  BY <1>2, <1>3 DEF TypeOK, SideType, PassBasics

\* What is fetched has the type of what is in the queues.
LEMMA FetchedIs ==
  ASSUME SideType, NEW a \in Actors, aq[a] \in Queues
  PROVE  Fetched(a) \in Cmds \cup {None} /\ at[a] \in SqSlots /\ anew[a] \in SqSlots /\ aq[a] \in Nat
         /\ WorkerOf(aq[a]) \in Workers
<1>1. at[a] \in SqSlots /\ anew[a] \in SqSlots
  BY DEF SideType, DoorbellType, SqSlots
<1>2. sq[aq[a]] \in [SqSlots -> Cmds \cup {None}]
  BY DEF SideType, HostType, SqSlots
<1>3. Fetched(a) \in Cmds \cup {None}
  BY <1>1, <1>2 DEF Fetched
<1>4. conf \in Configs /\ Queues \subseteq Nat \ {0}
  BY Constants DEF SideType, PassBasics
<1>5. QED
  BY <1>1, <1>3, <1>4, WorkerOfIs

\* A command sent.
LEMMA SubmitType ==
  ASSUME SideType, NEW c \in conf.cmds, Submit(c)
  PROVE  HostType' /\ CqType' /\ DoorbellType'
<1>1. conf \in Configs
  BY DEF SideType, PassBasics
<1>2. c \in Cmds /\ QueueOf[c] \in Queues
  BY <1>1, Constants
<1>3. Actors' = Actors /\ conf' = conf
  BY DEF Submit, Actors
<1>4. dbs[QueueOf[c]] \in 0 .. SqSize - 1
  BY <1>2 DEF SideType, HostType
<1>5. AfterSq(dbs[QueueOf[c]]) \in 0 .. SqSize - 1
  BY <1>1, <1>4, AfterSqIs DEF SqSlots
<1>6. dbs' = [dbs EXCEPT ![QueueOf[c]] = AfterSq(dbs[QueueOf[c]])]
  BY DEF Submit
<1>7. dbs' \in [Queues -> 0 .. SqSize - 1]
  BY <1>5, <1>6 DEF SideType, HostType
<1>8. sq' \in [Queues -> [0 .. SqSize - 1 -> Cmds \cup {None}]]
  BY <1>2 DEF Submit, SideType, HostType
<1>9. fate' \in [Cmds -> {"idle", "sent", "refused", "lost"}]
  BY DEF Submit, SideType, HostType
<1>10. left' \in 0 .. conf.load
  BY <1>1, Constants DEF Submit, SideType, HostType
<1>11. HostType'
  BY <1>3, <1>7, <1>8, <1>9, <1>10 DEF Submit, SideType, HostType, dbVars
<1>12. CqType'
  BY DEF Submit, SideType, CqType, cqVars
<1>13. DoorbellType'
  BY <1>3 DEF Submit, SideType, DoorbellType, dbVars
<1>14. QED
  BY <1>11, <1>12, <1>13

\* The host's handler.
LEMMA HandlerType ==
  ASSUME SideType, HandlerStep
  PROVE  HostType' /\ CqType' /\ DoorbellType'
<1>1. conf \in Configs /\ CqSize \in Nat \ {0}
  BY Constants DEF SideType, PassBasics
<1>2. CASE TakeInterrupt \/ HandlerOver
  <2>1. Actors' = Actors
    BY <1>2 DEF TakeInterrupt, HandlerOver, Actors
  <2>2. DoorbellType'
    BY <1>2, <2>1 DEF SideType, DoorbellType, dbVars, TakeInterrupt, HandlerOver
  <2>3. HostType'
    BY <1>2 DEF SideType, HostType, TakeInterrupt, HandlerOver, dbVars
  <2>4. CqType'
    BY <1>2 DEF SideType, CqType, TakeInterrupt, HandlerOver, cqVars
  <2>5. QED
    BY <2>2, <2>3, <2>4
<1>3. CASE TakeCqe
  <2>1. Actors' = Actors
    BY <1>3 DEF TakeCqe, Actors
  <2>2. host_head \in 0 .. CqSize - 1
    BY DEF SideType, HostType
  <2>3. (host_head + 1) % CqSize \in 0 .. CqSize - 1
    BY <1>1, <2>2, AfterCqIs DEF CqSlots
  <2>4. host_head' \in 0 .. CqSize - 1 /\ host_phase' \in {0, 1}
    BY <1>3, <2>3 DEF TakeCqe, SideType, HostType
  <2>5. fate' \in [Cmds -> {"idle", "sent", "refused", "lost"}]
    BY <1>3 DEF TakeCqe, SideType, HostType
  <2>6. cq' \in [0 .. CqSize - 1 -> [cmd : Cmds \cup {None}, phase : {0, 1}]]
    <3>1. cq[host_head] \in [cmd : Cmds \cup {None}, phase : {0, 1}]
      BY <2>2 DEF SideType, CqType
    <3>2. cq' = [cq EXCEPT ![host_head] = [cq[host_head] EXCEPT !.cmd = None]]
      BY <1>3 DEF TakeCqe
    <3>3. [cq[host_head] EXCEPT !.cmd = None] \in [cmd : Cmds \cup {None}, phase : {0, 1}]
      BY <3>1
    <3>4. QED
      BY <3>2, <3>3 DEF SideType, CqType
  <2>7. DoorbellType'
    BY <1>3, <2>1 DEF SideType, DoorbellType, dbVars, TakeCqe
  <2>8. HostType'
    BY <1>3, <2>4, <2>5 DEF SideType, HostType, TakeCqe, dbVars
  <2>9. CqType'
    BY <1>3, <2>6 DEF SideType, CqType, TakeCqe
  <2>10. QED
    BY <2>7, <2>8, <2>9
<1>4. QED
  BY <1>2, <1>3 DEF HandlerStep

\* A completion posted.
LEMMA PostType ==
  ASSUME SideType, NEW c \in Cmds \cup {None}, PostCqe(c)
  PROVE  /\ cq' \in [0 .. CqSize - 1 -> [cmd : Cmds \cup {None}, phase : {0, 1}]]
         /\ cq_head' \in 0 .. CqSize - 1 /\ cq_phase' \in {0, 1}
<1>1. conf \in Configs /\ CqSize \in Nat \ {0}
  BY Constants DEF SideType, PassBasics
<1>2. cq_head \in 0 .. CqSize - 1 /\ cq_phase \in {0, 1}
  BY DEF SideType, CqType
<1>3. (cq_head + 1) % CqSize \in 0 .. CqSize - 1
  BY <1>1, <1>2, AfterCqIs DEF CqSlots
<1>4. cq_head' = (cq_head + 1) % CqSize /\ cq_phase' = IF cq_head' = 0 THEN 1 - cq_phase ELSE cq_phase
  BY DEF PostCqe
<1>5. cq' = [cq EXCEPT ![cq_head] = [cmd |-> c, phase |-> cq_phase]]
  BY DEF PostCqe
<1>6. cq' \in [0 .. CqSize - 1 -> [cmd : Cmds \cup {None}, phase : {0, 1}]]
  BY <1>2, <1>5 DEF SideType, CqType
<1>7. QED
  BY <1>2, <1>3, <1>4, <1>6

\* A doorbell seen.
LEMMA SeeDoorbellType ==
  ASSUME SideType, NEW a \in Actors, SeeDoorbell(a)
  PROVE  HostType' /\ CqType' /\ DoorbellType' /\ (AtHand => AtHand')
<1>1. PICK q \in Queues :
       /\ aq' = [aq EXCEPT ![a] = q]
       /\ at' = [at EXCEPT ![a] = old_dbs[q]]
       /\ anew' = [anew EXCEPT ![a] = dbs[q]]
  BY DEF SeeDoorbell
<1>2. Actors' = Actors /\ apc' = [apc EXCEPT ![a] = "cmd"]
  BY DEF SeeDoorbell, Actors
<1>3. DoorbellType'
  BY <1>1, <1>2 DEF SideType, HostType, DoorbellType, SeeDoorbell
<1>4. HostType'
  BY DEF SideType, HostType, SeeDoorbell, hostVars
<1>5. CqType'
  BY DEF SideType, CqType, SeeDoorbell, cqVars
<1>6. AtHand => AtHand'
  BY <1>1, <1>2 DEF AtHand, SideType, DoorbellType
<1>7. QED
  BY <1>3, <1>4, <1>5, <1>6

\* A doorbell dealt with.
LEMMA DoorbellDoneType ==
  ASSUME SideType, NEW a \in Actors, DoorbellDone(a)
  PROVE  HostType' /\ CqType' /\ DoorbellType' /\ (AtHand => AtHand')
<1>1. conf \in Configs /\ SqSize \in Nat \ {0}
  BY Constants DEF SideType, PassBasics
<1>2. Actors' = Actors
  BY DEF DoorbellDone, Actors
<1>3. DoorbellType'
  BY <1>1, <1>2 DEF SideType, HostType, DoorbellType, DoorbellDone
<1>4. at[a] \in 0 .. SqSize - 1
  BY DEF SideType, DoorbellType
<1>5. old_dbs' \in [Queues -> 0 .. SqSize - 1]
  BY <1>4 DEF SideType, HostType, DoorbellDone
<1>6. HostType'
  BY <1>5 DEF SideType, HostType, DoorbellDone, hostVars
<1>7. CqType'
  BY DEF SideType, CqType, DoorbellDone, cqVars
<1>8. apc' = [apc EXCEPT ![a] = "poll"] /\ aq' = [aq EXCEPT ![a] = 0]
  BY DEF DoorbellDone
<1>9. AtHand => AtHand'
  BY <1>2, <1>8 DEF AtHand, SideType, DoorbellType
<1>10. QED
  BY <1>3, <1>6, <1>7, <1>9

\* A command, from its fetch to the end of its step.
LEMMA CmdType ==
  ASSUME SideType, NEW a \in Actors, aq[a] \in Queues,
         FastIo(a) \/ AskFtl(a) \/ Refused(a) \/ EnqueueInternal(a) \/ EnqueueCmd(a) \/ Reclaim(a)
  PROVE  HostType' /\ CqType' /\ DoorbellType' /\ (AtHand => AtHand')
<1>1. conf \in Configs /\ SqSize \in Nat \ {0} /\ MaxDue \in Nat
  BY Constants DEF SideType, PassBasics
<1>2. Actors' = Actors /\ conf' = conf /\ aq' = aq /\ anew' = anew /\ old_dbs' = old_dbs
      /\ lat' = lat /\ left' = left /\ sq' = sq /\ dbs' = dbs /\ hpc' = hpc /\ host_head' = host_head
      /\ host_phase' = host_phase /\ interrupt_ready' = interrupt_ready
  BY DEF FastIo, AskFtl, Refused, EnqueueInternal, EnqueueCmd, Reclaim, Actors, hostVars, cqVars
<1>3. Fetched(a) \in Cmds \cup {None} /\ at[a] \in 0 .. SqSize - 1 /\ AfterSq(at[a]) \in 0 .. SqSize - 1
  BY <1>1, FetchedIs, AfterSqIs DEF SqSlots
<1>4. apc[a] # "poll" /\ \E p \in {"cmd", "internal", "enqueue", "reclaim"} : apc' = [apc EXCEPT ![a] = p]
  <2>1. CASE FastIo(a) \/ Refused(a)
    <3>1. apc[a] = "cmd" /\ apc' = apc
      BY <2>1 DEF FastIo, Refused
    <3>2. apc' = [apc EXCEPT ![a] = "cmd"]
      BY <3>1 DEF SideType, DoorbellType
    <3>3. QED
      BY <3>1, <3>2
  <2>2. CASE AskFtl(a)
    <3>1. apc[a] = "cmd" /\ apc' = [apc EXCEPT ![a] = IF Fetched(a) \in Writes THEN "internal" ELSE "enqueue"]
      BY <2>2 DEF AskFtl
    <3>2. QED
      BY <3>1
  <2>3. CASE EnqueueInternal(a) \/ EnqueueCmd(a) \/ Reclaim(a)
    BY <2>3 DEF EnqueueInternal, EnqueueCmd, Reclaim
  <2>4. QED
    BY <2>1, <2>2, <2>3
<1>5. at' = at \/ at' = [at EXCEPT ![a] = AfterSq(at[a])]
  BY DEF FastIo, AskFtl, Refused, EnqueueInternal, EnqueueCmd, Reclaim
<1>6. at' \in [Actors -> 0 .. SqSize - 1]
  BY <1>3, <1>5 DEF SideType, DoorbellType
<1>7. due_at' \in [Actors -> 0 .. MaxDue]
  <2>1. due_at' = due_at \/ \E d \in 0 .. MaxDue : due_at' = [due_at EXCEPT ![a] = d]
    <3>1. CASE EnqueueCmd(a)
      <4>1. due_at' = [due_at EXCEPT ![a] = 0] /\ 0 \in 0 .. MaxDue
        BY <1>1, <3>1 DEF EnqueueCmd
      <4>2. QED
        BY <4>1
    <3>2. CASE AskFtl(a)
      BY <3>2 DEF AskFtl
    <3>3. QED
      BY <3>1, <3>2 DEF FastIo, Refused, EnqueueInternal, Reclaim
  <2>2. QED
    BY <2>1 DEF SideType, DoorbellType
<1>8. DoorbellType'
  BY <1>2, <1>4, <1>6, <1>7 DEF SideType, DoorbellType
<1>9. fate' \in [Cmds -> {"idle", "sent", "refused", "lost"}]
  <2>1. fate' = fate \/ fate' = [fate EXCEPT ![Fetched(a)] = "refused"] \/ fate' = [fate EXCEPT ![Fetched(a)] = "lost"]
    BY DEF FastIo, AskFtl, Refused, EnqueueInternal, EnqueueCmd, Reclaim, hostVars
  <2>2. QED
    BY <2>1 DEF SideType, HostType
<1>10. HostType'
  BY <1>2, <1>9 DEF SideType, HostType
<1>11. CqType'
  <2>1. CASE FastIo(a)
    <3>1. PostCqe(Fetched(a)) /\ irq' = TRUE
      BY <2>1 DEF FastIo
    <3>2. QED
      BY <1>2, <1>3, <3>1, PostType DEF SideType, CqType
  <2>2. CASE ~FastIo(a)
    <3>1. UNCHANGED cqVars /\ irq' = irq
      BY <2>2 DEF AskFtl, Refused, EnqueueInternal, EnqueueCmd, Reclaim
    <3>2. QED
      BY <3>1 DEF SideType, CqType, cqVars
  <2>3. QED
    BY <2>1, <2>2
<1>12. AtHand => AtHand'
  <2>1. \A b \in Actors : apc'[b] # "poll" => apc[b] # "poll"
    BY <1>4 DEF SideType, DoorbellType
  <2>2. QED
    BY <1>2, <2>1 DEF AtHand
<1>13. QED
  BY <1>8, <1>10, <1>11, <1>12

\* A worker's pass.
LEMMA PassType ==
  ASSUME SideType, NEW w \in Workers, PassStep(w)
  PROVE  HostType' /\ CqType' /\ DoorbellType' /\ (AtHand => AtHand')
<1>1. Actors' = Actors /\ conf' = conf /\ lat' = lat /\ UNCHANGED hostVars /\ UNCHANGED dbVars
  BY DEF PassStep, StartPass, Skip, Look, NotYet, Complete, Mark, PassOver, Signal, Actors
<1>2. HostType'
  BY <1>1 DEF SideType, HostType, hostVars, dbVars
<1>3. DoorbellType' /\ (AtHand => AtHand')
  BY <1>1 DEF SideType, DoorbellType, dbVars, AtHand
<1>4. CqType'
  <2>1. CASE Complete(w)
    <3>1. CASE At(w).op = Internal
      <4>1. UNCHANGED cqVars /\ irq' = irq
        BY <2>1, <3>1 DEF Complete
      <4>2. QED
        BY <4>1 DEF SideType, CqType, cqVars
    <3>2. CASE At(w).op # Internal
      <4>1. PostCqe(At(w).op) /\ interrupt_ready' = TRUE /\ irq' = irq
        BY <2>1, <3>2 DEF Complete
      <4>2. At(w) \in Entry
        <5>1. PICK s \in [Entries -> Entries], m \in Entries : ListAt(w, s, m)
          BY DEF SideType, PassBasics, ListsAre, ListAt
        <5>2. PICK N \in Nat \ {0} :
                 /\ Entries = 0 .. N - 1 /\ m \in 0 .. N - 1 /\ Standing(N, s, m, work[w], wpc[w], curr[w])
          BY <5>1, Standpoint DEF SideType
        <5>3. PICK i \in 0 .. m - 1 : curr[w] = s[i]
          BY <2>1, <5>2 DEF Standing, Complete
        <5>4. i \in Entries
          BY <5>2
        <5>5. QED
          BY <5>3, <5>4 DEF At, SideType, PassBasics
      <4>3. At(w).op \in Cmds \cup {None}
        BY <3>2, <4>2 DEF Entry
      <4>4. QED
        BY <4>1, <4>3, PostType DEF SideType, CqType
    <3>3. QED
      BY <3>1, <3>2
  <2>2. CASE PassOver(w)
    BY <2>2 DEF PassOver, SideType, CqType
  <2>3. CASE Signal(w)
    BY <2>3 DEF Signal, SideType, CqType, cqVars
  <2>4. CASE StartPass(w) \/ Skip(w) \/ Look(w) \/ NotYet(w) \/ Mark(w)
    BY <2>4 DEF StartPass, Skip, Look, NotYet, Mark, SideType, CqType, cqVars
  <2>5. QED
    BY <2>1, <2>2, <2>3, <2>4 DEF PassStep
<1>5. QED
  BY <1>2, <1>3, <1>4

-----------------------------------------------------------------------------
(* Buffer space                                                            *)

\* An entry that will release buffer space.
Owed(w, e) == /\ work[w][e].op = Internal /\ ~work[w][e].completed
              /\ ~(wpc[w] = "mark" /\ curr[w] = e)

\* They are what is still to be released.
LEMMA UnreleasedIs ==
  /\ Unreleased = {x \in Workers \X Entries : Owed(x[1], x[2])}
  /\ Unreleased' = {x \in Workers' \X Entries' : Owed(x[1], x[2])'}
BY DEF Unreleased, Owed

\* The sets that Space counts are finite.
LEMMA SpaceFinite ==
  ASSUME conf \in Configs
  PROVE  /\ IsFiniteSet(Unreleased) /\ IsFiniteSet(InternalActors)
         /\ Cardinality(Unreleased) \in Nat /\ Cardinality(InternalActors) \in Nat
<1>1. conf.workers \in Nat \ {0} /\ conf.entries \in Nat \ {0}
  BY Constants
<1>2. IsFiniteSet(Workers) /\ IsFiniteSet(Entries) /\ IsFiniteSet(Actors)
  <2>1. 1 \in Int /\ 0 \in Int /\ conf.workers \in Int /\ conf.entries - 1 \in Int
    BY <1>1
  <2>2. QED
    BY <2>1, FS_Interval DEF Workers, Entries, Actors
<1>3. IsFiniteSet(Workers \X Entries)
  BY <1>2, FS_Product
<1>4. Unreleased \subseteq Workers \X Entries /\ InternalActors \subseteq Actors
  BY DEF Unreleased, InternalActors
<1>5. IsFiniteSet(Unreleased) /\ IsFiniteSet(InternalActors)
  BY <1>2, <1>3, <1>4, FS_Subset
<1>6. QED
  BY <1>5, FS_CardinalityType

\* One more, one less.
LEMMA OneMore ==
  ASSUME NEW S, IsFiniteSet(S), NEW x, x \notin S
  PROVE  Cardinality(S \cup {x}) = Cardinality(S) + 1
BY FS_AddElement

\* One less.
LEMMA OneLess ==
  ASSUME NEW S, IsFiniteSet(S), NEW x, x \in S
  PROVE  Cardinality(S \ {x}) = Cardinality(S) - 1 /\ Cardinality(S) > 0
<1>1. Cardinality(S \ {x}) = Cardinality(S) - 1
  BY FS_RemoveElement
<1>2. Cardinality(S) # 0
  BY FS_EmptySet
<1>3. QED
  BY <1>1, <1>2, FS_CardinalityType

\* Nothing more and nothing less to be released.
LEMMA OwedSame ==
  ASSUME conf' = conf, \A w \in Workers, e \in Entries : Owed(w, e)' <=> Owed(w, e)
  PROVE  Unreleased' = Unreleased
<1>1. Workers' = Workers /\ Entries' = Entries
  BY DEF Workers, Entries
<1>2. QED
  BY <1>1, UnreleasedIs

\* One more entry to be released.
LEMMA OwedMore ==
  ASSUME conf \in Configs, conf' = conf, NEW v \in Workers, NEW f \in Entries, Owed(v, f)', ~Owed(v, f),
         \A w \in Workers, e \in Entries : w # v \/ e # f => (Owed(w, e)' <=> Owed(w, e))
  PROVE  Cardinality(Unreleased)' = Cardinality(Unreleased) + 1
<1>1. Workers' = Workers /\ Entries' = Entries
  BY DEF Workers, Entries
<1>2. Unreleased' = Unreleased \cup {<<v, f>>}
  <2>1. ASSUME NEW x, x \in Unreleased' PROVE x \in Unreleased \cup {<<v, f>>}
    <3>1. PICK w \in Workers, e \in Entries : x = <<w, e>> /\ Owed(w, e)'
      BY <2>1, <1>1, UnreleasedIs
    <3>2. CASE w = v /\ e = f
      BY <3>1, <3>2
    <3>3. CASE w # v \/ e # f
      BY <3>1, <3>3, UnreleasedIs
    <3>4. QED
      BY <3>2, <3>3
  <2>2. ASSUME NEW x, x \in Unreleased PROVE x \in Unreleased'
    <3>1. PICK w \in Workers, e \in Entries : x = <<w, e>> /\ Owed(w, e)
      BY <2>2, UnreleasedIs
    <3>2. Owed(w, e)'
      BY <3>1
    <3>3. QED
      BY <1>1, <3>1, <3>2, UnreleasedIs
  <2>3. <<v, f>> \in Unreleased'
    BY <1>1, UnreleasedIs
  <2>4. QED
    BY <2>1, <2>2, <2>3
<1>3. <<v, f>> \notin Unreleased
  BY UnreleasedIs
<1>4. QED
  BY <1>2, <1>3, OneMore, SpaceFinite

\* One entry less.
LEMMA OwedLess ==
  ASSUME conf \in Configs, conf' = conf, NEW v \in Workers, NEW f \in Entries, ~Owed(v, f)', Owed(v, f),
         \A w \in Workers, e \in Entries : w # v \/ e # f => (Owed(w, e)' <=> Owed(w, e))
  PROVE  Cardinality(Unreleased)' = Cardinality(Unreleased) - 1 /\ Cardinality(Unreleased) > 0
<1>1. Workers' = Workers /\ Entries' = Entries
  BY DEF Workers, Entries
<1>2. Unreleased' = Unreleased \ {<<v, f>>}
  <2>1. ASSUME NEW x, x \in Unreleased' PROVE x \in Unreleased \ {<<v, f>>}
    <3>1. PICK w \in Workers, e \in Entries : x = <<w, e>> /\ Owed(w, e)'
      BY <2>1, <1>1, UnreleasedIs
    <3>2. w # v \/ e # f
      BY <3>1
    <3>3. QED
      BY <3>1, <3>2, UnreleasedIs
  <2>2. ASSUME NEW x, x \in Unreleased, x # <<v, f>> PROVE x \in Unreleased'
    <3>1. PICK w \in Workers, e \in Entries : x = <<w, e>> /\ Owed(w, e)
      BY <2>2, UnreleasedIs
    <3>2. Owed(w, e)'
      BY <2>2, <3>1
    <3>3. QED
      BY <1>1, <3>1, <3>2, UnreleasedIs
  <2>3. QED
    BY <2>1, <2>2, <1>1, UnreleasedIs
<1>3. <<v, f>> \in Unreleased
  BY UnreleasedIs
<1>4. QED
  BY <1>2, <1>3, OneLess, SpaceFinite

\* Steps that neither take nor release buffer space.
LEMMA SpaceSame ==
  ASSUME conf' = conf, \A w \in Workers, e \in Entries : Owed(w, e)' <=> Owed(w, e),
         \A a \in Actors : apc'[a] = "internal" <=> apc[a] = "internal", buf' = buf
  PROVE  Space' = Space
<1>1. Unreleased' = Unreleased
  BY OwedSame
<1>2. InternalActors' = InternalActors
  BY DEF InternalActors, Actors
<1>3. QED
  BY <1>1, <1>2 DEF Space

\* Host, switch, doorbells and most of a pass are such steps.
LEMMA SpaceHost ==
  ASSUME SideType, \/ \E c \in conf.cmds : Submit(c)
                   \/ HandlerStep \/ SwitchPath
                   \/ \E a \in Actors : SeeDoorbell(a) \/ DoorbellDone(a) \/ FastIo(a) \/ Refused(a) \/ Reclaim(a)
                   \/ \E w \in Workers : StartPass(w) \/ NotYet(w) \/ Skip(w) \/ PassOver(w) \/ Signal(w)
  PROVE  Space' = Space
<1>1. CASE (\E c \in conf.cmds : Submit(c)) \/ HandlerStep \/ SwitchPath
  <2>1. conf' = conf /\ work' = work /\ wpc' = wpc /\ curr' = curr /\ apc' = apc /\ buf' = buf
    BY <1>1 DEF Submit, HandlerStep, TakeInterrupt, TakeCqe, HandlerOver, SwitchPath, walkVars, dbVars
  <2>2. QED
    BY <2>1, SpaceSame DEF Owed
<1>2. CASE \E a \in Actors : SeeDoorbell(a) \/ DoorbellDone(a) \/ FastIo(a) \/ Refused(a) \/ Reclaim(a)
  <2>1. PICK a \in Actors : SeeDoorbell(a) \/ DoorbellDone(a) \/ FastIo(a) \/ Refused(a) \/ Reclaim(a)
    BY <1>2
  <2>2. conf' = conf /\ work' = work /\ wpc' = wpc /\ curr' = curr /\ buf' = buf
    BY <2>1 DEF SeeDoorbell, DoorbellDone, FastIo, Refused, Reclaim, walkVars
  <2>3. apc[a] # "internal" /\ (apc' = apc \/ \E p \in {"cmd", "poll"} : apc' = [apc EXCEPT ![a] = p])
    BY <2>1 DEF SeeDoorbell, DoorbellDone, FastIo, Refused, Reclaim
  <2>4. \A b \in Actors : apc'[b] = "internal" <=> apc[b] = "internal"
    BY <2>3 DEF SideType, DoorbellType
  <2>5. QED
    BY <2>2, <2>4, SpaceSame DEF Owed
<1>3. CASE \E w \in Workers : StartPass(w) \/ NotYet(w) \/ Skip(w) \/ PassOver(w) \/ Signal(w)
  <2>1. PICK w \in Workers : StartPass(w) \/ NotYet(w) \/ Skip(w) \/ PassOver(w) \/ Signal(w)
    BY <1>3
  <2>2. conf' = conf /\ work' = work /\ buf' = buf /\ apc' = apc
    BY <2>1 DEF StartPass, NotYet, Skip, PassOver, Signal, dbVars
  <2>3. /\ wpc[w] # "mark" /\ (wpc' = wpc \/ \E p \in {"look", "top", "signal"} : wpc' = [wpc EXCEPT ![w] = p])
        /\ (curr' = curr \/ \E e : curr' = [curr EXCEPT ![w] = e])
    BY <2>1 DEF StartPass, NotYet, Skip, PassOver, Signal
  <2>4. \A v \in Workers : (wpc'[v] = "mark" <=> wpc[v] = "mark") /\ (v # w => curr'[v] = curr[v])
    BY <2>3 DEF SideType, PassBasics, WalkType
  <2>5. \A v \in Workers, e \in Entries : Owed(v, e)' <=> Owed(v, e)
    BY <2>2, <2>3, <2>4 DEF Owed
  <2>6. QED
    BY <2>2, <2>5, SpaceSame
<1>4. QED
  BY <1>1, <1>2, <1>3

\* A write takes one, and its actor then has a release to enqueue.
LEMMA SpaceAsk ==
  ASSUME SideType, buf \in Int, NEW a \in Actors, AskFtl(a)
  PROVE  Space' = Space
<1>1. conf \in Configs /\ conf' = conf /\ work' = work /\ wpc' = wpc /\ curr' = curr /\ apc[a] = "cmd" /\ Actors' = Actors
  BY DEF AskFtl, walkVars, SideType, PassBasics, Actors
<1>2. Unreleased' = Unreleased
  BY <1>1, OwedSame DEF Owed
<1>3. CASE Fetched(a) \in Writes
  <2>1. buf' = buf - 1 /\ apc' = [apc EXCEPT ![a] = "internal"]
    BY <1>3 DEF AskFtl
  <2>2. InternalActors' = InternalActors \cup {a} /\ a \notin InternalActors
    BY <1>1, <2>1 DEF InternalActors, SideType, DoorbellType
  <2>3. Cardinality(InternalActors)' = Cardinality(InternalActors) + 1
    BY <1>1, <2>2, OneMore, SpaceFinite
  <2>4. QED
    BY <1>1, <1>2, <2>1, <2>3, SpaceFinite DEF Space
<1>4. CASE Fetched(a) \notin Writes
  <2>1. buf' = buf /\ apc' = [apc EXCEPT ![a] = "enqueue"]
    BY <1>4 DEF AskFtl
  <2>2. InternalActors' = InternalActors
    BY <1>1, <2>1 DEF InternalActors, SideType, DoorbellType
  <2>3. QED
    BY <1>2, <2>1, <2>2 DEF Space
<1>5. QED
  BY <1>3, <1>4

\* Where a new entry goes nothing was to be done; elsewhere nothing changes.
LEMMA EnqueueOwed ==
  ASSUME SideType, NEW w \in Workers, NEW op, NEW d, Enqueue(w, op, d), wpc' = wpc, curr' = curr
  PROVE  \E f \in Entries :
           /\ f = free_seq[w] /\ ~Owed(w, f) /\ work[w][f].op = None
           /\ ~(wpc[w] = "mark" /\ curr[w] = f)
           /\ Owed(w, f)' <=> op = Internal
           /\ \A v \in Workers, e \in Entries : v # w \/ e # f => work'[v][e] = work[v][e]
           /\ work'[w][f].op = op /\ ~work'[w][f].completed
<1> DEFINE new == [op |-> op, due |-> d, completed |-> FALSE, copied |-> op = Internal]
<1>1. PICK f \in Entries : f = free_seq[w]
  BY DEF SideType, PassBasics, LinkType
<1>2. PICK s \in [Entries -> Entries], m \in Entries : ListAt(w, s, m)
  BY DEF SideType, PassBasics, ListsAre, ListAt
<1>3. PICK N \in Nat \ {0} :
           /\ N = conf.entries /\ Entries = 0 .. N - 1 /\ m \in 0 .. N - 1
           /\ Ends(N, s, m, io_seq[w], io_seq_end[w], free_seq[w], free_seq_end[w])
           /\ Loaded(N, s, m, work[w]) /\ Order(N, s) /\ Standing(N, s, m, work[w], wpc[w], curr[w])
  BY <1>2, Standpoint DEF SideType
<1>4. work[w][f].op = None
  <2>1. f = s[m] /\ ~(m < m)
    BY <1>1, <1>3 DEF Ends
  <2>2. QED
    BY <2>1, <1>3 DEF Loaded
<1>5. None # Internal
  BY Constants DEF SideType, PassBasics
<1>6. work' = [work EXCEPT ![w] = [work[w] EXCEPT ![f] = new]]
  BY <1>1 DEF Enqueue
<1>12. ~(wpc[w] = "mark" /\ curr[w] = f)
  <2>1. SUFFICES ASSUME wpc[w] = "mark" PROVE curr[w] # f
    OBVIOUS
  <2>2. PICK i \in 0 .. m - 1 : curr[w] = s[i]
    BY <1>3, <2>1 DEF Standing
  <2>3. i \in 0 .. N - 1 /\ i # m /\ f = s[m]
    BY <1>1, <1>3 DEF Ends
  <2>4. QED
    BY <1>3, <2>2, <2>3 DEF Order
<1>7. new.op = op /\ ~new.completed
  OBVIOUS
<1> HIDE DEF new
<1>8. work'[w][f] = new /\ \A v \in Workers, e \in Entries : v # w \/ e # f => work'[v][e] = work[v][e]
  BY <1>6 DEF SideType, PassBasics
<1>9. Owed(w, f)' <=> op = Internal
  BY <1>7, <1>8, <1>12 DEF Owed
<1>10. ~Owed(w, f)
  BY <1>4, <1>5 DEF Owed
<1>11. QED
  BY <1>1, <1>4, <1>7, <1>8, <1>9, <1>10, <1>12

\* The release goes onto the list, or is lost if that is full.
LEMMA SpaceEnqueue ==
  ASSUME SideType, buf \in Int, NEW a \in Actors, aq[a] \in Queues, EnqueueInternal(a) \/ EnqueueCmd(a)
  PROVE  Space' = IF EnqueueInternal(a) /\ ListFull(WorkerOf(aq[a])) THEN Space - 1 ELSE Space
<1> DEFINE w == WorkerOf(aq[a])
<1>1. conf \in Configs /\ conf' = conf /\ wpc' = wpc /\ curr' = curr /\ buf' = buf /\ Actors' = Actors
  BY DEF EnqueueInternal, EnqueueCmd, walkVars, SideType, PassBasics, Actors
<1>2. w \in Workers /\ Fetched(a) \in Cmds \cup {None} /\ Internal \notin Cmds \cup {None}
  BY <1>1, FetchedIs, Constants
<1>3. Cardinality(Unreleased) \in Nat /\ Cardinality(InternalActors) \in Nat
  BY <1>1, SpaceFinite
<1>4. CASE EnqueueInternal(a)
  <2>1. apc' = [apc EXCEPT ![a] = "enqueue"] /\ apc[a] = "internal"
    BY <1>4 DEF EnqueueInternal
  <2>2. InternalActors' = InternalActors \ {a} /\ a \in InternalActors
    BY <1>1, <2>1 DEF InternalActors, SideType, DoorbellType
  <2>3. Cardinality(InternalActors)' = Cardinality(InternalActors) - 1
    BY <1>1, <2>2, OneLess, SpaceFinite
  <2>4. CASE ListFull(w)
    <3>1. work' = work
      BY <1>4, <2>4 DEF EnqueueInternal
    <3>2. Unreleased' = Unreleased
      BY <1>1, <3>1, OwedSame DEF Owed
    <3>3. QED
      BY <1>1, <1>3, <1>4, <2>3, <2>4, <3>2 DEF Space
  <2>5. CASE ~ListFull(w)
    <3>1. PICK d \in due_at[a] .. MaxDue : Enqueue(w, Internal, d)
      BY <1>4, <2>5 DEF EnqueueInternal
    <3>2. PICK v \in Workers : v = w
      BY <1>2
    <3> HIDE DEF w
    <3>3. Enqueue(v, Internal, d)
      BY <3>1, <3>2
    <3>4. PICK f \in Entries :
           /\ ~Owed(v, f) /\ (Owed(v, f)' <=> Internal = Internal)
           /\ \A u \in Workers, e \in Entries : u # v \/ e # f => work'[u][e] = work[u][e]
      BY <1>1, <3>3, EnqueueOwed
    <3>5. \A u \in Workers, e \in Entries : u # v \/ e # f => (Owed(u, e)' <=> Owed(u, e))
      BY <1>1, <3>4 DEF Owed
    <3>6. Cardinality(Unreleased)' = Cardinality(Unreleased) + 1
      BY <1>1, <3>4, <3>5, OwedMore
    <3>7. ~ListFull(WorkerOf(aq[a]))
      BY <2>5 DEF w
    <3>8. QED
      BY <1>1, <1>3, <2>3, <3>6, <3>7 DEF Space
  <2>6. QED
    BY <2>4, <2>5
<1>5. CASE EnqueueCmd(a)
  <2>1. apc' = [apc EXCEPT ![a] = "reclaim"] /\ apc[a] = "enqueue"
    BY <1>5 DEF EnqueueCmd
  <2>2. InternalActors' = InternalActors /\ ~EnqueueInternal(a)
    BY <1>1, <2>1 DEF InternalActors, SideType, DoorbellType, EnqueueInternal
  <2>3. CASE ListFull(w)
    <3>1. work' = work
      BY <1>5, <2>3 DEF EnqueueCmd
    <3>2. Unreleased' = Unreleased
      BY <1>1, <3>1, OwedSame DEF Owed
    <3>3. QED
      BY <1>1, <2>2, <3>2 DEF Space
  <2>4. CASE ~ListFull(w)
    <3>1. Enqueue(w, Fetched(a), due_at[a])
      BY <1>5, <2>4 DEF EnqueueCmd
    <3>2. PICK op : op = Fetched(a)
      OBVIOUS
    <3>3. PICK d : d = due_at[a]
      OBVIOUS
    <3>4. PICK v \in Workers : v = w
      BY <1>2
    <3> HIDE DEF w
    <3>5. Enqueue(v, op, d)
      BY <3>1, <3>2, <3>3, <3>4
    <3>6. PICK f \in Entries :
           /\ ~Owed(v, f) /\ (Owed(v, f)' <=> op = Internal)
           /\ \A u \in Workers, e \in Entries : u # v \/ e # f => work'[u][e] = work[u][e]
      BY <1>1, <3>5, EnqueueOwed
    <3>7. \A u \in Workers, e \in Entries : Owed(u, e)' <=> Owed(u, e)
      BY <1>1, <1>2, <3>2, <3>6 DEF Owed
    <3>8. Unreleased' = Unreleased
      BY <1>1, <3>7, OwedSame
    <3>9. QED
      BY <1>1, <2>2, <3>8 DEF Space
  <2>5. QED
    BY <2>3, <2>4
<1>6. QED
  BY <1>4, <1>5

\* The entry a worker has copied is live, not completed, and has something to do
\* if the path is not switched under way.
LEMMA CurrentIs ==
  ASSUME SideType, NEW w \in Workers, wpc[w] \in {"copied", "mark"}
  PROVE  /\ curr[w] \in Entries /\ ~At(w).completed /\ At(w) \in Entry
         /\ Steady => At(w).op # None
<1>1. PICK s \in [Entries -> Entries], m \in Entries : ListAt(w, s, m)
  BY DEF SideType, PassBasics, ListsAre, ListAt
<1>2. PICK N \in Nat \ {0} :
         /\ Entries = 0 .. N - 1 /\ m \in 0 .. N - 1 /\ Standing(N, s, m, work[w], wpc[w], curr[w])
         /\ Loaded(N, s, m, work[w])
  BY <1>1, Standpoint DEF SideType
<1>3. PICK i \in 0 .. m - 1 : curr[w] = s[i] /\ ~work[w][s[i]].completed
  BY <1>2 DEF Standing
<1>4. i \in Entries
  BY <1>2
<1>5. curr[w] \in Entries /\ ~At(w).completed
  BY <1>3, <1>4 DEF At
<1>6. At(w) \in Entry
  BY <1>5 DEF At, SideType, PassBasics
<1>7. Steady => At(w).op # None
  BY <1>2, <1>3 DEF At, Loaded
<1>8. QED
  BY <1>5, <1>6, <1>7

\* A worker gives back what its entry was to release.
LEMMA SpacePass ==
  ASSUME SideType, buf \in Int, NEW w \in Workers, Look(w) \/ Complete(w) \/ Mark(w)
  PROVE  Space' = Space /\ (buf' = buf \/ buf' = buf + 1)
<1>1. conf \in Configs /\ conf' = conf /\ apc' = apc /\ Actors' = Actors
  BY DEF Look, Complete, Mark, dbVars, SideType, PassBasics, Actors
<1>2. InternalActors' = InternalActors
  BY <1>1 DEF InternalActors
<1>3. CASE Look(w)
  <2>1. PICK c \in Entries : c = curr[w]
    BY <1>3 DEF Look, SideType, PassBasics, WalkType
  <2>2. /\ work' = [work EXCEPT ![w] = [work[w] EXCEPT ![c] = [work[w][c] EXCEPT !.copied = TRUE]]]
        /\ wpc' = [wpc EXCEPT ![w] = "copied"] /\ curr' = curr /\ buf' = buf /\ wpc[w] = "look"
    BY <1>3, <2>1 DEF Look
  <2>3. work[w][c] \in Entry
    BY DEF SideType, PassBasics
  <2>4. \A v \in Workers, e \in Entries :
          work'[v][e].op = work[v][e].op /\ work'[v][e].completed = work[v][e].completed
    BY <2>2, <2>3 DEF SideType, PassBasics, Entry
  <2>5. \A v \in Workers : wpc'[v] = "mark" <=> wpc[v] = "mark"
    BY <2>2 DEF SideType, PassBasics, WalkType
  <2>6. \A v \in Workers, e \in Entries : Owed(v, e)' <=> Owed(v, e)
    BY <2>2, <2>4, <2>5 DEF Owed
  <2>7. QED
    BY <1>1, <2>2, <2>6, SpaceSame
<1>4. CASE Mark(w)
  <2>1. PICK c \in Entries : c = curr[w]
    BY <1>4, CurrentIs DEF Mark
  <2> DEFINE new == [work[w][c] EXCEPT !.completed = TRUE, !.op = None]
  <2>2. /\ work' = [work EXCEPT ![w] = [work[w] EXCEPT ![c] = new]]
        /\ wpc' = [wpc EXCEPT ![w] = "look"] /\ curr' = [curr EXCEPT ![w] = next[w][curr[w]]] /\ buf' = buf
        /\ wpc[w] = "mark"
    BY <1>4, <2>1 DEF Mark
  <2>3. new.op = None
    <3>1. work[w][c] \in Entry
      BY DEF SideType, PassBasics
    <3>2. QED
      BY <3>1 DEF Entry
  <2> HIDE DEF new
  <2>4. \A v \in Workers, e \in Entries : IF v = w /\ e = c THEN work'[v][e].op = None ELSE work'[v][e] = work[v][e]
    BY <2>2, <2>3 DEF SideType, PassBasics
  <2>5. \A v \in Workers : IF v = w THEN wpc'[v] = "look" ELSE wpc'[v] = wpc[v] /\ curr'[v] = curr[v]
    BY <2>2 DEF SideType, PassBasics, WalkType
  <2>6. None # Internal
    BY <1>1, Constants
  <2>7. \A v \in Workers, e \in Entries : Owed(v, e)' <=> Owed(v, e)
    BY <2>1, <2>2, <2>4, <2>5, <2>6 DEF Owed
  <2>8. QED
    BY <1>1, <2>2, <2>7, SpaceSame
<1>5. CASE Complete(w)
  <2>1. PICK c \in Entries : c = curr[w] /\ ~work[w][c].completed
    BY <1>5, CurrentIs DEF Complete, At
  <2>2. work' = work /\ wpc' = [wpc EXCEPT ![w] = "mark"] /\ curr' = curr /\ wpc[w] = "copied"
    BY <1>5 DEF Complete
  <2>3. \A v \in Workers : IF v = w THEN wpc'[v] = "mark" ELSE wpc'[v] = wpc[v]
    BY <2>2 DEF SideType, PassBasics, WalkType
  <2>4. \A v \in Workers, e \in Entries : v # w \/ e # c => (Owed(v, e)' <=> Owed(v, e))
    BY <2>1, <2>2, <2>3 DEF Owed
  <2>5. CASE At(w).op = Internal
    <3>1. buf' = buf + 1
      BY <1>5, <2>5 DEF Complete
    <3>2. Owed(w, c) /\ ~Owed(w, c)'
      BY <2>1, <2>2, <2>3, <2>5 DEF Owed, At
    <3>3. Cardinality(Unreleased)' = Cardinality(Unreleased) - 1
      BY <1>1, <2>4, <3>2, OwedLess
    <3>4. QED
      BY <1>1, <1>2, <3>1, <3>3, SpaceFinite DEF Space
  <2>6. CASE At(w).op # Internal
    <3>1. buf' = buf
      BY <1>5, <2>6 DEF Complete
    <3>2. ~Owed(w, c) /\ ~Owed(w, c)'
      BY <2>1, <2>2, <2>3, <2>6 DEF Owed, At
    <3>3. \A v \in Workers, e \in Entries : Owed(v, e)' <=> Owed(v, e)
      BY <2>4, <3>2
    <3>4. QED
      BY <1>1, <3>1, <3>3, SpaceSame
  <2>7. QED
    BY <2>5, <2>6
<1>6. QED
  BY <1>3, <1>4, <1>5

\* Time passing is such a step too.
LEMMA SpaceTick ==
  ASSUME SideType, Tick
  PROVE  Space' = Space
<1>1. conf' = conf /\ apc' = apc /\ buf' = buf /\ wpc' = wpc /\ curr' = curr
  BY DEF Tick, dbVars, walkVars
<1>2. work' = [w \in Workers |-> [e \in Entries |-> [work[w][e] EXCEPT !.due = IF @ > 0 THEN @ - 1 ELSE 0]]]
  BY DEF Tick
<1>3. ASSUME NEW v \in Workers, NEW e \in Entries
      PROVE  work'[v][e].op = work[v][e].op /\ work'[v][e].completed = work[v][e].completed
  <2> DEFINE x == IF work[v][e].due > 0 THEN work[v][e].due - 1 ELSE 0
  <2>1. work'[v][e] = [work[v][e] EXCEPT !.due = x]
    BY <1>2
  <2>2. work[v][e] \in Entry
    BY DEF SideType, PassBasics
  <2> HIDE DEF x
  <2>3. QED
    BY <2>1, <2>2 DEF Entry
<1>4. QED
  BY <1>1, <1>3, SpaceSame DEF Owed

-----------------------------------------------------------------------------
(* The part of the invariant that does not look at switching               *)

\* The lists at the start: none live, all free in their order.
LEMMA InitLists ==
  Init => ListsAre
<1> SUFFICES ASSUME Init PROVE ListsAre
  OBVIOUS
<1>1. PICK N \in Nat \ {0} : N = conf.entries /\ Entries = 0 .. N - 1
  <2>1. conf \in Configs
    BY DEF Init
  <2>2. QED
    BY <2>1, Constants DEF Entries
<1> DEFINE s == [i \in Entries |-> i]
<1>2. ASSUME NEW w \in Workers
      PROVE IsList(N, s, 0, next[w], prev[w], io_seq[w], io_seq_end[w], free_seq[w],
                   free_seq_end[w], work[w], wpc[w], curr[w])
  <2>1. s \in [Entries -> Entries] /\ \A i \in 0 .. N - 1 : s[i] = i
    BY <1>1
  <2> HIDE DEF s
  <2>2. Order(N, s)
    BY <1>1, <2>1 DEF Order
  <2>3. Linked(N, s, 0, next[w], prev[w])
    <3>1. next[w] = [e \in Entries |-> IF e = N - 1 THEN Nil ELSE e + 1]
      BY <1>1 DEF Init
    <3>2. QED
      BY <1>1, <2>1, <3>1 DEF Linked
  <2>4. Ends(N, s, 0, io_seq[w], io_seq_end[w], free_seq[w], free_seq_end[w])
    <3>1. io_seq[w] = Nil /\ free_seq[w] = 0 /\ free_seq_end[w] = N - 1
      BY <1>1 DEF Init
    <3>2. QED
      BY <1>1, <2>1, <3>1 DEF Ends
  <2>5. Loaded(N, s, 0, work[w])
    <3>1. \A e \in Entries : work[w][e] = Blank
      BY DEF Init
    <3>2. Blank.op = None
      BY DEF Blank
    <3>3. QED
      BY <1>1, <2>1, <3>1, <3>2 DEF Loaded
  <2>6. Standing(N, s, 0, work[w], wpc[w], curr[w])
    <3>1. wpc[w] = "top" /\ curr[w] = Nil
      BY DEF Init
    <3>2. QED
      BY <3>1 DEF Standing
  <2>7. QED
    BY <2>2, <2>3, <2>4, <2>5, <2>6 DEF IsList
<1>3. s \in [Entries -> Entries] /\ 0 \in Entries
  BY <1>1
<1>4. QED
  BY <1>1, <1>2, <1>3 DEF ListsAre

\* The types at the start, and all buffer space there.
LEMMA InitSide ==
  Init => SideType /\ AtHand /\ Space = BufSize /\ buf = BufSize /\ BufSize \in Nat
<1> SUFFICES ASSUME Init PROVE SideType /\ AtHand /\ Space = BufSize /\ buf = BufSize /\ BufSize \in Nat
  OBVIOUS
<1>1. conf \in Configs
  BY DEF Init
<1>2. /\ conf.workers \in Nat \ {0} /\ conf.entries \in Nat \ {0} /\ conf.load \in Nat
      /\ SqSize \in Nat \ {0} /\ CqSize \in Nat \ {0} /\ MaxDue \in Nat /\ BufSize \in Nat /\ None # Internal
      /\ conf.fast \in BOOLEAN
  <2>1. conf.fast \in BOOLEAN
    BY <1>1, IoAssumption DEF Config
  <2>2. QED
    BY <1>1, <2>1, Constants
<1>3. LinkType
  <2>1. Entries = 0 .. conf.entries - 1 /\ 0 \in Entries /\ conf.entries - 1 \in Entries
    BY <1>2 DEF Entries
  <2>2. [e \in Entries |-> IF e = conf.entries - 1 THEN Nil ELSE e + 1] \in [Entries -> Entries \cup {Nil}]
    BY <1>2, <2>1 DEF Nil
  <2>3. [e \in Entries |-> e - 1] \in [Entries -> Entries \cup {Nil}]
    BY <1>2, <2>1 DEF Nil
  <2>4. QED
    BY <2>1, <2>2, <2>3 DEF Init, LinkType
<1>4. WalkType
  BY DEF Init, WalkType
<1>5. work \in [Workers -> [Entries -> Entry]]
  <2>1. Blank \in Entry
    BY <1>2 DEF Blank, Entry
  <2>2. QED
    BY <2>1 DEF Init
<1>6. PassBasics
  BY <1>1, <1>3, <1>4, <1>5, InitLists DEF PassBasics
<1>7. HostType
  <2>1. 0 \in 0 .. SqSize - 1 /\ 0 \in 0 .. CqSize - 1 /\ conf.load \in 0 .. conf.load
    BY <1>2
  <2>2. QED
    BY <1>2, <2>1 DEF Init, HostType
<1>8. CqType
  <2>1. NoCqe \in [cmd : Cmds \cup {None}, phase : {0, 1}] /\ 0 \in 0 .. CqSize - 1
    BY <1>2 DEF NoCqe
  <2>2. QED
    BY <2>1 DEF Init, CqType
<1>9. DoorbellType
  <2>1. 0 \in 0 .. SqSize - 1 /\ 0 \in 0 .. MaxDue
    BY <1>2
  <2>2. QED
    BY <2>1 DEF Init, DoorbellType
<1>10. AtHand
  BY DEF Init, AtHand
<1>11. Space = BufSize
  <2>1. Unreleased = {}
    <3>1. \A w \in Workers, e \in Entries : work[w][e].op = None
      BY DEF Init, Blank
    <3>2. QED
      BY <1>2, <3>1 DEF Unreleased
  <2>2. InternalActors = {}
    BY DEF Init, InternalActors
  <2>3. Cardinality({}) = 0
    BY FS_EmptySet
  <2>4. QED
    BY <1>2, <2>1, <2>2, <2>3 DEF Init, Space
<1>12. QED
  BY <1>2, <1>6, <1>7, <1>8, <1>9, <1>10, <1>11 DEF SideType, Init

\* Steps that leave the lists and the walks along them alone.
LEMMA BasicsSame ==
  ASSUME PassBasics, conf' = conf, UNCHANGED linkVars, UNCHANGED work, UNCHANGED walkVars
  PROVE  PassBasics'
<1>1. Workers' = Workers /\ Entries' = Entries /\ Entry' = Entry
  BY DEF Workers, Entries, Entry
<1>2. LinkType' /\ WalkType' /\ work' \in [Workers' -> [Entries' -> Entry]]
  BY <1>1 DEF PassBasics, LinkType, WalkType, linkVars, walkVars
<1>3. ListsAre'
  BY ListsSame DEF PassBasics, walkVars
<1>4. QED
  BY <1>2, <1>3 DEF PassBasics

\* Steps of the host, and the switch.
LEMMA HostStepSide ==
  ASSUME SideType, AtHand, (\E c \in conf.cmds : Submit(c)) \/ HandlerStep \/ SwitchPath
  PROVE  SideType' /\ AtHand'
<1>1. conf' = conf /\ UNCHANGED linkVars /\ UNCHANGED work /\ UNCHANGED walkVars /\ UNCHANGED dbVars
      /\ Actors' = Actors
  BY DEF Submit, HandlerStep, TakeInterrupt, TakeCqe, HandlerOver, SwitchPath, Actors, dbVars
<1>2. PassBasics'
  BY <1>1, BasicsSame DEF SideType
<1>3. HostType' /\ CqType' /\ DoorbellType'
  <2>1. CASE \E c \in conf.cmds : Submit(c)
    BY <2>1, SubmitType
  <2>2. CASE HandlerStep
    BY <2>2, HandlerType
  <2>3. CASE SwitchPath
    <3>1. HostType'
      BY <2>3 DEF SwitchPath, SideType, HostType, hostVars, dbVars
    <3>2. CqType'
      BY <2>3 DEF SwitchPath, SideType, CqType, cqVars
    <3>3. DoorbellType'
      BY <2>3, <1>1 DEF SwitchPath, SideType, DoorbellType, dbVars
    <3>4. QED
      BY <3>1, <3>2, <3>3
  <2>4. QED
    BY <2>1, <2>2, <2>3
<1>4. AtHand'
  BY <1>1 DEF AtHand, dbVars
<1>5. QED
  BY <1>2, <1>3, <1>4 DEF SideType

\* Steps over the doorbells and the queues.
LEMMA DoorbellStepSide ==
  ASSUME SideType, AtHand, NEW a \in Actors, DoorbellStep(a),
         Steady /\ apc[a] = "enqueue" => Fetched(a) # None
  PROVE  SideType' /\ AtHand'
<1>1. conf \in Configs /\ conf' = conf /\ Workers' = Workers /\ Entries' = Entries /\ Entry' = Entry
  BY DEF DoorbellStep, SeeDoorbell, DoorbellDone, FastIo, AskFtl, Refused, EnqueueInternal, EnqueueCmd,
         Reclaim, Workers, Entries, Entry, SideType, PassBasics
<1>2. CASE SeeDoorbell(a)
  <2>1. PassBasics'
    BY <1>1, <1>2, BasicsSame DEF SideType, SeeDoorbell
  <2>2. QED
    BY <1>2, <2>1, SeeDoorbellType DEF SideType
<1>3. CASE DoorbellDone(a)
  <2>1. PassBasics'
    BY <1>1, <1>3, BasicsSame DEF SideType, DoorbellDone
  <2>2. QED
    BY <1>3, <2>1, DoorbellDoneType DEF SideType
<1>4. CASE FastIo(a) \/ AskFtl(a) \/ Refused(a)
  <2>1. PassBasics'
    <3>1. UNCHANGED linkVars /\ UNCHANGED work /\ UNCHANGED walkVars
      BY <1>4 DEF FastIo, AskFtl, Refused
    <3>2. QED
      BY <1>1, <3>1, BasicsSame DEF SideType
  <2>2. aq[a] \in Queues
    BY <1>4 DEF AtHand, FastIo, AskFtl, Refused
  <2>3. QED
    BY <1>4, <2>1, <2>2, CmdType DEF SideType
<1>5. CASE EnqueueInternal(a) \/ EnqueueCmd(a)
  <2>1. aq[a] \in Queues
    BY <1>5 DEF AtHand, EnqueueInternal, EnqueueCmd
  <2>2. wpc' = wpc /\ curr' = curr /\ seen_due' = seen_due
    BY <1>5 DEF EnqueueInternal, EnqueueCmd, walkVars
  <2>3. PICK w \in Workers : w = WorkerOf(aq[a])
    BY <2>1, FetchedIs
  <2>4. LinkType' /\ work' \in [Workers -> [Entries -> Entry]] /\ ListsAre'
    <3>1. CASE ListFull(w)
      <4>1. UNCHANGED linkVars /\ work' = work
        BY <1>5, <2>3, <3>1 DEF EnqueueInternal, EnqueueCmd
      <4>2. PassBasics'
        BY <1>1, <2>2, <4>1, BasicsSame DEF SideType, walkVars
      <4>3. QED
        BY <1>1, <4>2 DEF PassBasics
    <3>2. CASE ~ListFull(w)
      <4>1. \E op \in Cmds \cup {Internal, None}, d \in 0 .. MaxDue :
              Enqueue(w, op, d) /\ (Steady => op # None)
        <5>1. due_at[a] \in 0 .. MaxDue /\ None # Internal /\ MaxDue \in Nat
          BY <1>1, Constants DEF SideType, DoorbellType
        <5>2. CASE EnqueueInternal(a)
          <6>1. PICK d \in due_at[a] .. MaxDue : Enqueue(w, Internal, d)
            BY <2>3, <3>2, <5>2 DEF EnqueueInternal
          <6>2. d \in 0 .. MaxDue
            BY <5>1
          <6>3. QED
            BY <5>1, <6>1, <6>2
        <5>3. CASE EnqueueCmd(a)
          <6>1. Enqueue(w, Fetched(a), due_at[a]) /\ apc[a] = "enqueue"
            BY <2>3, <3>2, <5>3 DEF EnqueueCmd
          <6>2. Fetched(a) \in Cmds \cup {None}
            BY <2>1, FetchedIs
          <6>3. QED
            BY <5>1, <6>1, <6>2
        <5>4. QED
          BY <1>5, <5>2, <5>3
      <4>2. PICK op \in Cmds \cup {Internal, None}, d \in 0 .. MaxDue :
              Enqueue(w, op, d) /\ (Steady => op # None)
        BY <4>1
      <4>3. LinkType /\ ListsAre /\ work \in [Workers -> [Entries -> Entry]]
        BY DEF SideType, PassBasics
      <4>4. QED
        BY <1>1, <2>2, <3>2, <4>2, <4>3, EnqueueLists
    <3>3. QED
      BY <3>1, <3>2
  <2>5. WalkType'
    BY <1>1, <2>2 DEF SideType, PassBasics, WalkType
  <2>6. PassBasics'
    BY <1>1, <2>4, <2>5 DEF PassBasics
  <2>7. QED
    BY <1>5, <2>1, <2>6, CmdType DEF SideType
<1>6. CASE Reclaim(a)
  <2>1. aq[a] \in Queues
    BY <1>6 DEF AtHand, Reclaim
  <2>2. wpc' = wpc /\ curr' = curr /\ seen_due' = seen_due /\ work' = work
    BY <1>6 DEF Reclaim, walkVars
  <2>3. LinkType' /\ ListsAre'
    <3>1. /\ conf \in Configs /\ LinkType /\ ListsAre
          /\ wpc \in [Workers -> {"top", "look", "copied", "mark", "signal"}]
      BY DEF SideType, PassBasics, WalkType
    <3>2. QED
      BY <1>1, <1>6, <2>2, <3>1, ReclaimList
  <2>4. WalkType' /\ work' \in [Workers' -> [Entries' -> Entry]]
    BY <1>1, <2>2 DEF SideType, PassBasics, WalkType
  <2>5. PassBasics'
    BY <1>1, <2>3, <2>4 DEF PassBasics
  <2>6. QED
    BY <1>6, <2>1, <2>5, CmdType DEF SideType
<1>7. QED
  BY <1>2, <1>3, <1>4, <1>5, <1>6 DEF DoorbellStep

\* Steps of a worker's pass.
LEMMA PassStepSide ==
  ASSUME SideType, AtHand, NEW w \in Workers, PassStep(w)
  PROVE  SideType' /\ AtHand'
<1>1. PassBasics
  BY DEF SideType
<1>2. PassBasics'
  BY <1>1, StartPassLists, SkipLists, LookLists, NotYetLists, CompleteLists, MarkLists, PassOverLists
     DEF PassStep
<1>3. QED
  BY <1>2, PassType DEF SideType

\* Time passing.
LEMMA TickSide ==
  ASSUME SideType, AtHand, Tick
  PROVE  SideType' /\ AtHand'
<1>1. /\ conf' = conf /\ UNCHANGED hostVars /\ UNCHANGED cqVars /\ irq' = irq /\ UNCHANGED dbVars /\ lat' = lat
      /\ UNCHANGED linkVars /\ UNCHANGED walkVars /\ Workers' = Workers /\ Entries' = Entries /\ Entry' = Entry
      /\ Actors' = Actors
  BY DEF Tick, Workers, Entries, Entry, Actors
<1>2. ListsAre' /\ work' \in [Workers -> [Entries -> Entry]]
  BY TickLists DEF SideType, PassBasics
<1>3. LinkType' /\ WalkType'
  BY <1>1 DEF SideType, PassBasics, LinkType, WalkType, linkVars, walkVars
<1>4. PassBasics'
  BY <1>1, <1>2, <1>3 DEF SideType, PassBasics
<1>5. HostType'
  BY <1>1 DEF SideType, HostType, hostVars, dbVars
<1>6. CqType'
  BY <1>1 DEF SideType, CqType, cqVars
<1>7. DoorbellType' /\ AtHand'
  BY <1>1 DEF SideType, DoorbellType, dbVars, AtHand
<1>8. QED
  BY <1>4, <1>5, <1>6, <1>7 DEF SideType

\* Nothing changes.
LEMMA StutterSide ==
  ASSUME SideType, AtHand, UNCHANGED vars
  PROVE  SideType' /\ AtHand' /\ Space' = Space /\ buf' = buf
<1>1. /\ conf' = conf /\ UNCHANGED hostVars /\ UNCHANGED cqVars /\ irq' = irq /\ UNCHANGED dbVars /\ lat' = lat
      /\ UNCHANGED linkVars /\ UNCHANGED walkVars /\ UNCHANGED work /\ buf' = buf /\ Actors' = Actors
  BY DEF vars, Actors
<1>2. PassBasics'
  BY <1>1, BasicsSame DEF SideType
<1>3. HostType'
  BY <1>1 DEF SideType, HostType, hostVars, dbVars
<1>4. CqType'
  BY <1>1 DEF SideType, CqType, cqVars
<1>5. DoorbellType' /\ AtHand'
  BY <1>1 DEF SideType, DoorbellType, dbVars, AtHand
<1>6. Space' = Space
  BY <1>1, SpaceSame DEF Owed, walkVars, dbVars
<1>7. QED
  BY <1>1, <1>2, <1>3, <1>4, <1>5, <1>6 DEF SideType

\* The sets are finite after the step.
LEMMA SpaceFiniteNext ==
  ASSUME conf \in Configs, conf' = conf
  PROVE  Cardinality(Unreleased)' \in Nat /\ Cardinality(InternalActors)' \in Nat
<1>1. conf.workers \in Nat \ {0} /\ conf.entries \in Nat \ {0}
  BY Constants
<1>2. IsFiniteSet(Workers) /\ IsFiniteSet(Entries) /\ IsFiniteSet(Actors)
  <2>1. 1 \in Int /\ 0 \in Int /\ conf.workers \in Int /\ conf.entries - 1 \in Int
    BY <1>1
  <2>2. QED
    BY <2>1, FS_Interval DEF Workers, Entries, Actors
<1>3. IsFiniteSet(Workers \X Entries)
  BY <1>2, FS_Product
<1>4. Unreleased' \subseteq Workers \X Entries /\ InternalActors' \subseteq Actors
  BY DEF Unreleased, InternalActors, Workers, Entries, Actors
<1>5. IsFiniteSet(Unreleased') /\ IsFiniteSet(InternalActors')
  BY <1>2, <1>3, <1>4, FS_Subset
<1>6. QED
  BY <1>5, FS_CardinalityType

\* Buffer space, whatever the step: taken only when there is some, and never more given
\* back than was taken.
LEMMA SpaceStep ==
  ASSUME SideType, AtHand, buf \in Nat, Next
  PROVE  Space' <= Space /\ buf' \in Nat /\ conf' = conf
<1>1. Space \in Int /\ conf \in Configs
  BY SpaceFinite DEF Space, SideType, PassBasics
<1>2. CASE (\E c \in conf.cmds : Submit(c)) \/ HandlerStep \/ SwitchPath
  <2>1. buf' = buf /\ conf' = conf
    BY <1>2 DEF Submit, HandlerStep, TakeInterrupt, TakeCqe, HandlerOver, SwitchPath
  <2>2. QED
    BY <1>1, <1>2, <2>1, SpaceHost
<1>3. ASSUME NEW a \in Actors, DoorbellStep(a) PROVE Space' <= Space /\ buf' \in Nat /\ conf' = conf
  <2>1. CASE SeeDoorbell(a) \/ DoorbellDone(a) \/ FastIo(a) \/ Refused(a) \/ Reclaim(a)
    <3>1. buf' = buf /\ conf' = conf
      BY <2>1 DEF SeeDoorbell, DoorbellDone, FastIo, Refused, Reclaim
    <3>2. QED
      BY <1>1, <2>1, <3>1, SpaceHost
  <2>2. CASE AskFtl(a)
    <3>1. buf' \in Nat /\ conf' = conf
      BY <2>2 DEF AskFtl
    <3>2. QED
      BY <1>1, <2>2, <3>1, SpaceAsk
  <2>3. CASE EnqueueInternal(a) \/ EnqueueCmd(a)
    <3>1. aq[a] \in Queues /\ buf' = buf /\ conf' = conf
      BY <2>3 DEF AtHand, EnqueueInternal, EnqueueCmd
    <3>2. Space' = IF EnqueueInternal(a) /\ ListFull(WorkerOf(aq[a])) THEN Space - 1 ELSE Space
      BY <2>3, <3>1, SpaceEnqueue
    <3>3. QED
      BY <1>1, <3>1, <3>2
  <2>4. QED
    BY <1>3, <2>1, <2>2, <2>3 DEF DoorbellStep
<1>4. ASSUME NEW w \in Workers, PassStep(w) PROVE Space' <= Space /\ buf' \in Nat /\ conf' = conf
  <2>1. CASE StartPass(w) \/ NotYet(w) \/ Skip(w) \/ PassOver(w) \/ Signal(w)
    <3>1. buf' = buf /\ conf' = conf
      BY <2>1 DEF StartPass, NotYet, Skip, PassOver, Signal
    <3>2. QED
      BY <1>1, <2>1, <3>1, SpaceHost
  <2>2. CASE Look(w) \/ Complete(w) \/ Mark(w)
    <3>1. conf' = conf
      BY <2>2 DEF Look, Complete, Mark
    <3>2. QED
      BY <1>1, <2>2, <3>1, SpacePass
  <2>3. QED
    BY <1>4, <2>1, <2>2 DEF PassStep
<1>5. CASE Tick
  <2>1. buf' = buf /\ conf' = conf
    BY <1>5 DEF Tick
  <2>2. QED
    BY <1>1, <1>5, <2>1, SpaceTick
<1>6. QED
  BY <1>2, <1>3, <1>4, <1>5 DEF Next

\* The first part of the invariant holds at the start, and after every step.
LEMMA Inv1Init == Init => Inv1
<1>1. BufSize \in Nat => BufSize \in 0 .. BufSize
  OBVIOUS
<1>2. QED
  BY <1>1, InitSide, TypeParts DEF Inv1, NoneTwice

\* The hypothesis on what is fetched is met under Steady, by the second part.
LEMMA Inv1Step ==
  ASSUME Inv1, [Next]_vars, \A a \in Actors : Steady /\ apc[a] = "enqueue" => Fetched(a) # None
  PROVE  Inv1'
<1>1. SideType /\ buf \in 0 .. BufSize /\ AtHand /\ Space <= BufSize
  BY TypeParts DEF Inv1, NoneTwice
<1>2. conf \in Configs
  BY <1>1 DEF SideType, PassBasics
<1>3. BufSize \in Nat
  BY <1>2, Constants
<1>4. SideType' /\ AtHand'
  <2>1. CASE UNCHANGED vars
    BY <1>1, <2>1, StutterSide
  <2>2. CASE Next
    BY <1>1, <2>2, HostStepSide, DoorbellStepSide, PassStepSide, TickSide DEF Next
  <2>3. QED
    BY <2>1, <2>2
<1>5. Space' <= BufSize /\ buf' \in Nat /\ conf' = conf
  <2>1. CASE UNCHANGED vars
    BY <1>1, <1>3, <2>1, StutterSide DEF vars
  <2>2. CASE Next
    <3>1. Space \in Int /\ Space' \in Int
      <4>1. buf \in Nat /\ buf' \in Nat /\ conf' = conf
        BY <1>1, <2>2, SpaceStep
      <4>2. QED
        BY <1>2, <4>1, SpaceFinite, SpaceFiniteNext DEF Space
    <3>2. QED
      BY <1>1, <1>3, <2>2, <3>1, SpaceStep
  <2>3. QED
    BY <2>1, <2>2
<1>6. buf' \in 0 .. BufSize
  BY <1>2, <1>3, <1>5, SpaceFiniteNext DEF Space
<1>7. (TypeOK /\ ListsAre <=> SideType /\ buf \in 0 .. BufSize)'
  BY TypeParts, PTL
<1>8. QED
  BY <1>4, <1>5, <1>6, <1>7 DEF Inv1, NoneTwice

-----------------------------------------------------------------------------
(* Who takes commands from which queue                                     *)

\* Who takes commands from the queues changes only when all is quiet.
LEMMA RolesStep ==
  ASSUME Steady, SideType, Roles, [Next]_vars
  PROVE  Roles'
<1>1. lat \in BOOLEAN /\ conf \in Configs /\ Actors = Workers \cup {Dispatcher} /\ Dispatcher \notin Workers
  BY Constants DEF SideType, HostType
<1>2. CASE (\E c \in conf.cmds : Submit(c)) \/ HandlerStep \/ Tick \/ UNCHANGED vars
  <2>1. conf' = conf /\ lat' = lat /\ apc' = apc /\ aq' = aq /\ wpc' = wpc
    BY <1>2 DEF Submit, HandlerStep, TakeInterrupt, TakeCqe, HandlerOver, Tick, vars, dbVars, walkVars
  <2>2. QED
    BY <2>1 DEF Roles, WorkerOf, Workers
<1>3. CASE SwitchPath
  <2>1. conf' = conf /\ apc' = apc /\ aq' = aq /\ wpc' = wpc
    BY <1>3 DEF SwitchPath, dbVars, walkVars
  <2>2. conf.switch = "quiet"
    <3>1. conf.switch \in {"never", "quiet", "any"}
      BY <1>1, IoAssumption DEF Config
    <3>2. QED
      BY <1>1, <1>3, <3>1 DEF Steady, SwitchPath
  <2>3. Quiet
    BY <1>3, <2>2 DEF SwitchPath
  <2>4. (\A a \in Actors : apc[a] = "poll") /\ \A w \in Workers : wpc[w] = "top"
    BY <2>3 DEF Quiet
  <2>5. QED
    BY <1>1, <2>1, <2>4 DEF Roles, Workers
<1>4. ASSUME NEW a \in Actors, DoorbellStep(a) PROVE Roles'
  <2>1. conf' = conf /\ lat' = lat /\ wpc' = wpc
    BY <1>4 DEF DoorbellStep, SeeDoorbell, DoorbellDone, FastIo, AskFtl, Refused, EnqueueInternal, EnqueueCmd,
                Reclaim, walkVars
  <2>2. CASE SeeDoorbell(a)
    <3>1. PICK q \in Queues : MayPoll(a, q) /\ aq' = [aq EXCEPT ![a] = q]
      BY <2>2 DEF SeeDoorbell
    <3>2. apc' = [apc EXCEPT ![a] = "cmd"]
      BY <2>2 DEF SeeDoorbell
    <3>3. CASE a = Dispatcher
      <4>1. ~lat
        BY <3>1, <3>3 DEF MayPoll
      <4>2. \A w \in Workers : apc'[w] = apc[w] /\ aq'[w] = aq[w]
        BY <1>1, <3>1, <3>2, <3>3 DEF SideType, DoorbellType
      <4>3. QED
        BY <2>1, <4>1, <4>2 DEF Roles, WorkerOf, Workers
    <3>4. CASE a # Dispatcher
      <4>1. lat /\ wpc[a] = "top" /\ WorkerOf(q) = a
        BY <3>1, <3>4 DEF MayPoll
      <4>2. apc'[Dispatcher] = apc[Dispatcher] /\ apc'[a] = "cmd" /\ aq'[a] = q
            /\ \A w \in Workers \ {a} : apc'[w] = apc[w] /\ aq'[w] = aq[w]
        BY <1>1, <3>1, <3>2, <3>4 DEF SideType, DoorbellType
      <4>3. QED
        BY <2>1, <4>1, <4>2 DEF Roles, WorkerOf, Workers
    <3>5. QED
      BY <3>3, <3>4
  <2>3. CASE DoorbellDone(a)
    <3>1. apc' = [apc EXCEPT ![a] = "poll"] /\ aq' = [aq EXCEPT ![a] = 0]
      BY <2>3 DEF DoorbellDone
    <3>2. \A b \in Actors : IF b = a THEN apc'[b] = "poll" ELSE apc'[b] = apc[b] /\ aq'[b] = aq[b]
      BY <3>1 DEF SideType, DoorbellType
    <3>3. QED
      BY <1>1, <2>1, <3>2 DEF Roles, WorkerOf, Workers
  <2>4. CASE FastIo(a) \/ Refused(a)
    <3>1. apc' = apc /\ aq' = aq
      BY <2>4 DEF FastIo, Refused
    <3>2. QED
      BY <2>1, <3>1 DEF Roles, WorkerOf, Workers
  <2>5. CASE AskFtl(a) \/ EnqueueInternal(a) \/ EnqueueCmd(a) \/ Reclaim(a)
    <3>1. ~lat /\ aq' = aq /\ apc[a] # "poll"
      BY <1>1, <2>5 DEF AskFtl, EnqueueInternal, EnqueueCmd, Reclaim, Roles
    <3>2. a = Dispatcher
      BY <1>1, <3>1 DEF Roles
    <3>3. \A w \in Workers : apc'[w] = apc[w]
      BY <1>1, <2>5, <3>2 DEF AskFtl, EnqueueInternal, EnqueueCmd, Reclaim, SideType, DoorbellType
    <3>4. QED
      BY <2>1, <3>1, <3>3 DEF Roles, WorkerOf, Workers
  <2>6. QED
    BY <1>4, <2>2, <2>3, <2>4, <2>5 DEF DoorbellStep
<1>5. ASSUME NEW w \in Workers, PassStep(w) PROVE Roles'
  <2>1. conf' = conf /\ lat' = lat /\ apc' = apc /\ aq' = aq
    BY <1>5 DEF PassStep, StartPass, Skip, Look, NotYet, Complete, Mark, PassOver, Signal, dbVars
  <2>2. ~lat
    BY <1>5 DEF PassStep, StartPass, Skip, Look, NotYet, Complete, Mark, PassOver, Signal, Roles
  <2>3. QED
    BY <2>1, <2>2 DEF Roles, WorkerOf, Workers
<1>6. QED
  BY <1>2, <1>3, <1>4, <1>5 DEF Next

\* An actor off its polling loop has a queue of its own.
LEMMA Acting ==
  ASSUME SideType, AtHand, Roles, NEW a \in Actors, apc[a] # "poll"
  PROVE  /\ aq[a] \in Queues /\ Owner(aq[a]) = a
         /\ \A b \in Actors : b # a /\ apc[b] # "poll" => aq[b] # aq[a]
<1>1. lat \in BOOLEAN /\ conf \in Configs /\ Actors = Workers \cup {Dispatcher} /\ Dispatcher \notin Workers
  BY Constants DEF SideType, HostType
<1>2. \A b \in Actors : apc[b] # "poll" => Owner(aq[b]) = b
  BY <1>1 DEF Roles, Owner
<1>3. QED
  BY <1>2 DEF AtHand

\* A queue's owner is an actor.
LEMMA OwnerIs ==
  ASSUME SideType, NEW q \in Queues
  PROVE  Owner(q) \in Actors
<1>1. q \in Nat /\ conf \in Configs /\ Actors = Workers \cup {Dispatcher}
  BY Constants DEF SideType, HostType
<1>2. QED
  BY <1>1, WorkerOfIs DEF Owner

\* Where the next command of a queue is that nobody has dealt with, before a step and after it.
LEMMA PosIs ==
  ASSUME SideType, conf' = conf, lat' = lat, NEW q \in Queues
  PROVE  \E o \in Actors :
           /\ o = Owner(q)
           /\ Pos(q) = IF apc[o] = "poll" \/ aq[o] # q THEN old_dbs[q]
                       ELSE IF apc[o] = "reclaim" THEN After1(at[o], SqSize) ELSE at[o]
           /\ Pos(q)' = IF apc'[o] = "poll" \/ aq'[o] # q THEN old_dbs'[q]
                        ELSE IF apc'[o] = "reclaim" THEN After1(at'[o], SqSize) ELSE at'[o]
<1>1. Owner(q)' = Owner(q)
  BY DEF Owner, WorkerOf
<1>2. PICK o \in Actors : o = Owner(q)
  BY OwnerIs
<1>3. Pos(q) = IF apc[o] = "poll" \/ aq[o] # q THEN old_dbs[q]
               ELSE IF apc[o] = "reclaim" THEN After1(at[o], SqSize) ELSE at[o]
  BY <1>2 DEF Pos, Busy
<1>4. o = Owner(q)'
  BY <1>1, <1>2
<1>5. Pos(q)' = IF apc'[o] = "poll" \/ aq'[o] # q THEN old_dbs'[q]
                ELSE IF apc'[o] = "reclaim" THEN After1(at'[o], SqSize) ELSE at'[o]
  BY <1>4 DEF Pos, Busy
<1>6. QED
  BY <1>2, <1>3, <1>5

\* It is a slot of the queue.
LEMMA PosSlot ==
  ASSUME SideType, NEW q \in Queues
  PROVE  Pos(q) \in SqSlots /\ dbs[q] \in SqSlots /\ SqSize \in Nat \ {0}
<1>1. SqSize \in Nat \ {0}
  BY Constants DEF SideType, HostType
<1>2. old_dbs[q] \in SqSlots /\ dbs[q] \in SqSlots
  BY DEF SideType, HostType, SqSlots
<1>3. PICK o \in Actors : o = Owner(q)
  BY OwnerIs
<1>4. at[o] \in SqSlots /\ After1(at[o], SqSize) \in SqSlots
  <2>1. at[o] \in SqSlots
    BY DEF SideType, DoorbellType, SqSlots
  <2>2. QED
    BY <1>1, <2>1, Turning DEF SqSlots
<1>5. Pos(q) = old_dbs[q] \/ Pos(q) = After1(at[o], SqSize) \/ Pos(q) = at[o]
  BY <1>3 DEF Pos
<1>6. QED
  BY <1>1, <1>2, <1>4, <1>5

\* Steps that deal with no command leave every queue where it is.
LEMMA PosSame ==
  ASSUME SideType, NEW q \in Queues, conf' = conf, lat' = lat, old_dbs' = old_dbs, apc' = apc, aq' = aq, at' = at
  PROVE  Pos(q)' = Pos(q)
BY PosIs

\* Nor does the switch of the path, all being quiet.
LEMMA PosSwitch ==
  ASSUME Steady, SideType, NEW q \in Queues, SwitchPath
  PROVE  Pos(q)' = Pos(q)
<1>1. lat \in BOOLEAN /\ conf \in Configs /\ Actors = Workers \cup {Dispatcher} /\ q \in Nat
  BY Constants DEF SideType, HostType
<1>2. conf.switch \in {"never", "quiet", "any"}
  BY <1>1, IoAssumption DEF Config
<1>3. Quiet /\ conf' = conf /\ apc' = apc /\ aq' = aq /\ old_dbs' = old_dbs
  BY <1>1, <1>2 DEF Steady, SwitchPath, dbVars
<1>4. \A o \in Actors : apc[o] = "poll"
  BY <1>3 DEF Quiet
<1>5. Owner(q) \in Actors /\ Owner(q)' \in Actors
  <2>1. WorkerOf(q) \in Workers
    BY <1>1, WorkerOfIs
  <2>2. WorkerOf(q)' = WorkerOf(q)
    BY <1>3 DEF WorkerOf
  <2>3. QED
    BY <1>1, <2>1, <2>2 DEF Owner
<1>6. ~Busy(q) /\ ~Busy(q)'
  BY <1>3, <1>4, <1>5 DEF Busy
<1>7. QED
  BY <1>3, <1>6 DEF Pos

\* Nor do doorbells, and the steps of a command before and after it is dealt with.
LEMMA PosDoorbell ==
  ASSUME SideType, AtHand, Roles, NEW a \in Actors, NEW q \in Queues,
         SeeDoorbell(a) \/ DoorbellDone(a) \/ AskFtl(a) \/ EnqueueInternal(a) \/ Reclaim(a)
  PROVE  Pos(q)' = Pos(q)
<1>1. conf' = conf /\ lat' = lat
  BY DEF SeeDoorbell, DoorbellDone, AskFtl, EnqueueInternal, Reclaim
<1>2. PICK o \in Actors :
           /\ o = Owner(q)
           /\ Pos(q) = IF apc[o] = "poll" \/ aq[o] # q THEN old_dbs[q]
                       ELSE IF apc[o] = "reclaim" THEN After1(at[o], SqSize) ELSE at[o]
           /\ Pos(q)' = IF apc'[o] = "poll" \/ aq'[o] # q THEN old_dbs'[q]
                        ELSE IF apc'[o] = "reclaim" THEN After1(at'[o], SqSize) ELSE at'[o]
  BY <1>1, PosIs
<1>3. CASE SeeDoorbell(a)
  <2>1. PICK p \in Queues :
          MayPoll(a, p) /\ aq' = [aq EXCEPT ![a] = p] /\ at' = [at EXCEPT ![a] = old_dbs[p]]
    BY <1>3 DEF SeeDoorbell
  <2>2. apc[a] = "poll" /\ apc' = [apc EXCEPT ![a] = "cmd"] /\ old_dbs' = old_dbs
    BY <1>3 DEF SeeDoorbell
  <2>3. IF o = a THEN apc'[o] = "cmd" /\ aq'[o] = p /\ at'[o] = old_dbs[p]
                 ELSE apc'[o] = apc[o] /\ aq'[o] = aq[o] /\ at'[o] = at[o]
    BY <2>1, <2>2 DEF SideType, DoorbellType
  <2>4. QED
    BY <1>2, <2>2, <2>3
<1>4. CASE DoorbellDone(a)
  <2>1. apc[a] = "cmd" /\ apc' = [apc EXCEPT ![a] = "poll"] /\ old_dbs' = [old_dbs EXCEPT ![aq[a]] = at[a]]
        /\ aq' = [aq EXCEPT ![a] = 0] /\ at' = [at EXCEPT ![a] = 0]
    BY <1>4 DEF DoorbellDone
  <2>2. Owner(aq[a]) = a /\ aq[a] \in Queues
    BY <2>1, Acting
  <2>3. IF o = a THEN apc'[o] = "poll"
                 ELSE apc'[o] = apc[o] /\ aq'[o] = aq[o] /\ at'[o] = at[o]
    BY <2>1 DEF SideType, DoorbellType
  <2>4. old_dbs'[q] = IF q = aq[a] THEN at[a] ELSE old_dbs[q]
    BY <2>1 DEF SideType, HostType
  <2>5. q = aq[a] => o = a
    BY <1>2, <2>2
  <2>6. QED
    BY <1>2, <2>1, <2>3, <2>4, <2>5
<1>5. CASE AskFtl(a) \/ EnqueueInternal(a)
  <2>1. /\ apc[a] \in {"cmd", "internal"} /\ aq' = aq /\ at' = at /\ old_dbs' = old_dbs
        /\ \E p \in {"internal", "enqueue"} : apc' = [apc EXCEPT ![a] = p]
    BY <1>5 DEF AskFtl, EnqueueInternal
  <2>2. IF o = a THEN apc'[o] \in {"internal", "enqueue"} ELSE apc'[o] = apc[o]
    BY <2>1 DEF SideType, DoorbellType
  <2>3. QED
    BY <1>2, <2>1, <2>2
<1>6. CASE Reclaim(a)
  <2>1. /\ apc[a] = "reclaim" /\ aq' = aq /\ at' = [at EXCEPT ![a] = AfterSq(at[a])] /\ old_dbs' = old_dbs
        /\ apc' = [apc EXCEPT ![a] = "cmd"]
    BY <1>6 DEF Reclaim
  <2>2. AfterSq(at[a]) = After1(at[a], SqSize)
    BY AfterSqIs DEF SideType, HostType, DoorbellType, SqSlots
  <2>3. IF o = a THEN apc'[o] = "cmd" /\ at'[o] = After1(at[o], SqSize) ELSE apc'[o] = apc[o] /\ at'[o] = at[o]
    BY <2>1, <2>2 DEF SideType, DoorbellType
  <2>4. QED
    BY <1>2, <2>1, <2>3
<1>7. QED
  BY <1>3, <1>4, <1>5, <1>6

\* The three steps that deal with a command.
LEMMA PosMoves ==
  ASSUME SideType, AtHand, Roles, NEW a \in Actors, FastIo(a) \/ Refused(a) \/ EnqueueCmd(a),
         NEW q \in Queues
  PROVE  IF q = aq[a] THEN Pos(q) = at[a] /\ Pos(q)' = After1(at[a], SqSize) ELSE Pos(q)' = Pos(q)
<1>1. conf' = conf /\ lat' = lat /\ old_dbs' = old_dbs /\ aq' = aq
  BY DEF FastIo, Refused, EnqueueCmd
<1>2. PICK o \in Actors :
           /\ o = Owner(q)
           /\ Pos(q) = IF apc[o] = "poll" \/ aq[o] # q THEN old_dbs[q]
                       ELSE IF apc[o] = "reclaim" THEN After1(at[o], SqSize) ELSE at[o]
           /\ Pos(q)' = IF apc'[o] = "poll" \/ aq'[o] # q THEN old_dbs'[q]
                        ELSE IF apc'[o] = "reclaim" THEN After1(at'[o], SqSize) ELSE at'[o]
  BY <1>1, PosIs
<1>3. apc[a] \in {"cmd", "enqueue"}
  BY DEF FastIo, Refused, EnqueueCmd
<1>4. aq[a] \in Queues /\ Owner(aq[a]) = a
  BY <1>3, Acting
<1>5. q = aq[a] => o = a
  BY <1>2, <1>4
<1>6. AfterSq(at[a]) = After1(at[a], SqSize)
  BY AfterSqIs DEF SideType, HostType, DoorbellType, SqSlots
<1>7. CASE FastIo(a) \/ Refused(a)
  <2>1. apc' = apc /\ at' = [at EXCEPT ![a] = AfterSq(at[a])] /\ apc[a] = "cmd"
    BY <1>7 DEF FastIo, Refused
  <2>2. at'[o] = IF o = a THEN After1(at[a], SqSize) ELSE at[o]
    BY <1>6, <2>1 DEF SideType, DoorbellType
  <2>3. QED
    BY <1>1, <1>2, <1>5, <2>1, <2>2
<1>8. CASE EnqueueCmd(a)
  <2>1. apc' = [apc EXCEPT ![a] = "reclaim"] /\ at' = at /\ apc[a] = "enqueue"
    BY <1>8 DEF EnqueueCmd
  <2>2. IF o = a THEN apc'[o] = "reclaim" ELSE apc'[o] = apc[o]
    BY <2>1 DEF SideType, DoorbellType
  <2>3. QED
    BY <1>1, <1>2, <1>5, <2>1, <2>2
<1>9. QED
  BY <1>7, <1>8

\* What an actor is about to deal with is waiting.
LEMMA NextIsWaiting ==
  ASSUME SideType, AtHand, Roles, Reading, NEW a \in Actors, apc[a] \in {"cmd", "internal", "enqueue"},
         at[a] # anew[a]
  PROVE  \E q \in Queues : q = aq[a] /\ Pos(q) = at[a] /\ at[a] \in Waiting(q) /\ Reads(a, q)
<1>1. PICK q \in Queues : q = aq[a]
  BY Acting
<1>2. Pos(q) = at[a]
  BY <1>1, Acting DEF Pos, Busy
<1>3. Reads(a, q)
  BY <1>1 DEF Reading
<1>4. SqSize \in Nat \ {0} /\ at[a] \in 0 .. SqSize - 1 /\ anew[a] \in 0 .. SqSize - 1
  BY <1>1, PosSlot DEF SideType, DoorbellType
<1>5. at[a] \in Between(at[a], anew[a], SqSize)
  BY <1>4, Stretch
<1>6. QED
  BY <1>1, <1>2, <1>3, <1>5 DEF Reads

\* More may be waiting, what an actor reads stays.
LEMMA ReadsKept ==
  ASSUME NEW a \in Actors, NEW q \in Queues, Reads(a, q), apc'[a] = apc[a],
         at'[a] = at[a], anew'[a] = anew[a], Pos(q)' = Pos(q), Waiting(q) \subseteq Waiting(q)',
         apc[a] = "internal" => sq'[q][at[a]] = sq[q][at[a]]
  PROVE  Reads(a, q)'
BY DEF Reads

\* Steps without a say in the doorbells.
LEMMA ReadingSame ==
  ASSUME SideType, Reading, conf' = conf, sq' = sq, apc' = apc, aq' = aq, at' = at, anew' = anew,
         \A q \in Queues : Pos(q)' = Pos(q) /\ Waiting(q)' = Waiting(q)
  PROVE  Reading'
<1>1. Actors' = Actors
  BY DEF Actors
<1>2. ASSUME NEW a \in Actors, NEW q \in Queues, apc'[a] # "poll", aq'[a] = q PROVE Reads(a, q)'
  <2>1. Reads(a, q)
    BY <1>2 DEF Reading
  <2>2. QED
    BY <2>1, ReadsKept
<1>3. QED
  BY <1>1, <1>2 DEF Reading

\* A doorbell seen or done, and the steps of a command before and after it is dealt with.
LEMMA ReadingDoorbell ==
  ASSUME SideType, AtHand, Roles, Reading, NEW a \in Actors,
         SeeDoorbell(a) \/ DoorbellDone(a) \/ AskFtl(a) \/ EnqueueInternal(a) \/ Reclaim(a)
  PROVE  Reading'
<1>1. /\ conf' = conf /\ Actors' = Actors /\ dbs' = dbs /\ sq' = sq
      /\ \A b \in Actors : b # a => apc'[b] = apc[b] /\ aq'[b] = aq[b] /\ at'[b] = at[b] /\ anew'[b] = anew[b]
  BY DEF SeeDoorbell, DoorbellDone, AskFtl, EnqueueInternal, Reclaim, Actors, SideType, DoorbellType, hostVars
<1>2. \A q \in Queues : Pos(q)' = Pos(q)
  BY PosDoorbell
<1>3. \A q \in Queues : Waiting(q)' = Waiting(q)
  BY <1>1, <1>2 DEF Waiting
<1>4. ASSUME NEW b \in Actors, NEW q \in Queues, apc'[b] # "poll", aq'[b] = q, b # a PROVE Reads(b, q)'
  <2>1. Reads(b, q)
    BY <1>1, <1>4 DEF Reading
  <2>2. QED
    BY <1>1, <1>2, <1>3, <1>4, <2>1, ReadsKept
<1>5. ASSUME NEW q \in Queues, apc'[a] # "poll", aq'[a] = q PROVE Reads(a, q)'
  <2>1. CASE SeeDoorbell(a)
    <3>1. PICK p \in Queues : aq' = [aq EXCEPT ![a] = p] /\ anew' = [anew EXCEPT ![a] = dbs[p]]
      BY <2>1 DEF SeeDoorbell
    <3>2. apc' = [apc EXCEPT ![a] = "cmd"]
      BY <2>1 DEF SeeDoorbell
    <3>3. p = q /\ anew'[a] = dbs[q] /\ apc'[a] = "cmd"
      BY <1>5, <3>1, <3>2 DEF SideType, DoorbellType
    <3>4. Waiting(q)' = Between(Pos(q)', dbs[q], SqSize)
      BY <1>1 DEF Waiting
    <3>5. QED
      BY <3>3, <3>4 DEF Reads
  <2>2. CASE DoorbellDone(a)
    <3>1. apc' = [apc EXCEPT ![a] = "poll"]
      BY <2>2 DEF DoorbellDone
    <3>2. QED
      BY <1>5, <3>1 DEF SideType, DoorbellType
  <2>3. CASE AskFtl(a)
    <3>1. /\ aq' = aq /\ at' = at /\ anew' = anew /\ apc[a] = "cmd" /\ at[a] # anew[a]
          /\ apc' = [apc EXCEPT ![a] = IF Fetched(a) \in Writes THEN "internal" ELSE "enqueue"]
      BY <2>3 DEF AskFtl
    <3>2. apc'[a] = IF sq[q][at[a]] \in Writes THEN "internal" ELSE "enqueue"
      BY <1>5, <3>1 DEF SideType, DoorbellType, Fetched
    <3>3. Reads(a, q)
      BY <1>5, <3>1 DEF Reading
    <3>4. QED
      BY <1>1, <1>2, <1>3, <3>1, <3>2, <3>3 DEF Reads
  <2>4. CASE EnqueueInternal(a)
    <3>1. /\ aq' = aq /\ at' = at /\ anew' = anew /\ apc[a] = "internal" /\ apc' = [apc EXCEPT ![a] = "enqueue"]
      BY <2>4 DEF EnqueueInternal
    <3>2. apc'[a] = "enqueue"
      BY <3>1 DEF SideType, DoorbellType
    <3>3. Reads(a, q)
      BY <1>5, <3>1 DEF Reading
    <3>4. QED
      BY <1>1, <1>2, <1>3, <3>1, <3>2, <3>3 DEF Reads
  <2>5. CASE Reclaim(a)
    <3>1. /\ aq' = aq /\ anew' = anew /\ apc[a] = "reclaim" /\ apc' = [apc EXCEPT ![a] = "cmd"]
      BY <2>5 DEF Reclaim
    <3>2. apc'[a] = "cmd"
      BY <3>1 DEF SideType, DoorbellType
    <3>3. Reads(a, q)
      BY <1>5, <3>1 DEF Reading
    <3>4. QED
      BY <1>1, <1>2, <1>3, <3>1, <3>2, <3>3 DEF Reads
  <2>6. QED
    BY <2>1, <2>2, <2>3, <2>4, <2>5
<1>6. QED
  BY <1>1, <1>4, <1>5 DEF Reading

\* The command dealt with leaves the queue.
LEMMA ReadingMoves ==
  ASSUME SideType, AtHand, Roles, Reading, NEW a \in Actors, FastIo(a) \/ Refused(a) \/ EnqueueCmd(a)
  PROVE  /\ Reading'
         /\ \E q \in Queues : /\ q = aq[a] /\ at[a] \in Waiting(q)
                              /\ Waiting(q)' = Waiting(q) \ {at[a]}
                              /\ \A p \in Queues \ {q} : Waiting(p)' = Waiting(p)
<1>1. /\ conf' = conf /\ Actors' = Actors /\ dbs' = dbs /\ sq' = sq /\ aq' = aq /\ anew' = anew
      /\ \A b \in Actors : b # a => apc'[b] = apc[b] /\ at'[b] = at[b]
  BY DEF FastIo, Refused, EnqueueCmd, Actors, SideType, DoorbellType, hostVars
<1>2. apc[a] \in {"cmd", "enqueue"} /\ at[a] # anew[a]
  <2>1. CASE FastIo(a) \/ Refused(a)
    BY <2>1 DEF FastIo, Refused
  <2>2. CASE EnqueueCmd(a)
    <3>1. apc[a] = "enqueue"
      BY <2>2 DEF EnqueueCmd
    <3>2. PICK q \in Queues : q = aq[a]
      BY <3>1, Acting
    <3>3. Reads(a, q)
      BY <3>1, <3>2 DEF Reading
    <3>4. QED
      BY <3>1, <3>3 DEF Reads
  <2>3. QED
    BY <2>1, <2>2
<1>3. PICK q \in Queues : q = aq[a] /\ Pos(q) = at[a] /\ at[a] \in Waiting(q) /\ Reads(a, q)
  BY <1>2, NextIsWaiting
<1>4. Pos(q)' = After1(at[a], SqSize) /\ \A p \in Queues : p # q => Pos(p)' = Pos(p)
  BY <1>3, PosMoves
<1>5. \A p \in Queues : p # q => Waiting(p)' = Waiting(p)
  BY <1>1, <1>4 DEF Waiting
<1>6. SqSize \in Nat \ {0} /\ at[a] \in 0 .. SqSize - 1 /\ anew[a] \in 0 .. SqSize - 1 /\ dbs[q] \in 0 .. SqSize - 1
  BY PosSlot DEF SideType, DoorbellType, SqSlots
<1>7. Waiting(q) = Between(at[a], dbs[q], SqSize) /\ Waiting(q)' = Between(After1(at[a], SqSize), dbs[q], SqSize)
  BY <1>1, <1>3, <1>4 DEF Waiting
<1>8. at[a] # dbs[q]
  BY <1>3, <1>6, <1>7, Stretch
<1>9. Waiting(q)' = Waiting(q) \ {at[a]}
  BY <1>6, <1>7, <1>8, StretchShrinks
<1>10. Between(After1(at[a], SqSize), anew[a], SqSize) \subseteq Waiting(q)'
  <2>1. Between(at[a], anew[a], SqSize) \subseteq Between(at[a], dbs[q], SqSize)
    BY <1>3, <1>7 DEF Reads
  <2>2. QED
    BY <1>2, <1>6, <1>7, <2>1, StretchPart
<1>11. ASSUME NEW b \in Actors, NEW p \in Queues, apc'[b] # "poll", aq'[b] = p, b # a PROVE Reads(b, p)'
  <2>1. Reads(b, p)
    BY <1>1, <1>11 DEF Reading
  <2>2. p # q
    BY <1>1, <1>2, <1>3, <1>11, Acting
  <2>3. QED
    BY <1>1, <1>4, <1>5, <1>11, <2>1, <2>2, ReadsKept
<1>12. Reads(a, q)'
  <2>1. apc'[a] = "cmd" \/ (apc'[a] = "reclaim" /\ at'[a] = at[a])
    <3>1. CASE FastIo(a) \/ Refused(a)
      BY <3>1 DEF FastIo, Refused
    <3>2. CASE EnqueueCmd(a)
      BY <3>2 DEF EnqueueCmd, SideType, DoorbellType
    <3>3. QED
      BY <3>1, <3>2
  <2>2. QED
    BY <1>1, <1>2, <1>4, <1>10, <2>1 DEF Reads
<1>13. Reading'
  BY <1>1, <1>3, <1>11, <1>12 DEF Reading
<1>14. QED
  BY <1>3, <1>5, <1>9, <1>13

-----------------------------------------------------------------------------
(* Commands going from place to place                                      *)

(* One place of many turns from x into y. *)
Turns(A, B, f, g, a, b, x, y) ==
  /\ a \in A /\ b \in B /\ f[a][b] = x /\ g[a][b] = y
  /\ \A k \in A, l \in B : k # a \/ l # b => g[k][l] = f[k][l]
Turns1(C, f, g, a, x, y) ==
  /\ a \in C /\ f[a] = x /\ g[a] = y
  /\ \A k \in C : k # a => g[k] = f[k]

\* From a queue to a list.
LEMMA AskedToListed ==
  ASSUME None \notin Cmds, NEW asked, NEW listed, NEW answered, NEW f, Settled(asked, listed, answered, f),
         NEW asked1, NEW listed1, NEW c \in Cmds, NEW q, NEW i, NEW w, NEW e,
         Turns(Queues, SqSlots, asked, asked1, q, i, c, None),
         Turns(Workers, Entries, listed, listed1, w, e, None, c)
  PROVE  Settled(asked1, listed1, answered, f)
<1>1. Apart(Queues, SqSlots, Workers, Entries, CqSlots, asked1, listed1, answered)
  BY DEF Settled, Apart, Turns
<1>2. Sent(Queues, SqSlots, Workers, Entries, CqSlots, asked1, listed1, answered, f)
  BY DEF Settled, Sent, Turns
<1>3. QED
  BY <1>1, <1>2 DEF Settled

\* From a queue to the completion queue.
LEMMA AskedToAnswered ==
  ASSUME None \notin Cmds, NEW asked, NEW listed, NEW answered, NEW f, Settled(asked, listed, answered, f),
         NEW asked1, NEW answered1, NEW c \in Cmds, NEW q, NEW i, NEW j,
         Turns(Queues, SqSlots, asked, asked1, q, i, c, None),
         Turns1(CqSlots, answered, answered1, j, None, c)
  PROVE  Settled(asked1, listed, answered1, f)
<1>1. Apart(Queues, SqSlots, Workers, Entries, CqSlots, asked1, listed, answered1)
  BY DEF Settled, Apart, Turns, Turns1
<1>2. Sent(Queues, SqSlots, Workers, Entries, CqSlots, asked1, listed, answered1, f)
  BY DEF Settled, Sent, Turns, Turns1
<1>3. QED
  BY <1>1, <1>2 DEF Settled

\* From a list to the completion queue.
LEMMA ListedToAnswered ==
  ASSUME None \notin Cmds, NEW asked, NEW listed, NEW answered, NEW f, Settled(asked, listed, answered, f),
         NEW listed1, NEW answered1, NEW c \in Cmds, NEW w, NEW e, NEW j,
         Turns(Workers, Entries, listed, listed1, w, e, c, None),
         Turns1(CqSlots, answered, answered1, j, None, c)
  PROVE  Settled(asked, listed1, answered1, f)
<1>1. Apart(Queues, SqSlots, Workers, Entries, CqSlots, asked, listed1, answered1)
  BY DEF Settled, Apart, Turns, Turns1
<1>2. Sent(Queues, SqSlots, Workers, Entries, CqSlots, asked, listed1, answered1, f)
  BY DEF Settled, Sent, Turns, Turns1
<1>3. QED
  BY <1>1, <1>2 DEF Settled

\* A command sent.
LEMMA AskedAdded ==
  ASSUME None \notin Cmds, NEW asked, NEW listed, NEW answered, NEW f, Settled(asked, listed, answered, f),
         NEW asked1, NEW f1, NEW c \in Cmds, NEW q, NEW i, f[c] # "sent", f1[c] = "sent",
         \A d \in Cmds : d # c => f1[d] = f[d],
         Turns(Queues, SqSlots, asked, asked1, q, i, None, c)
  PROVE  Settled(asked1, listed, answered, f1)
<1>1. Apart(Queues, SqSlots, Workers, Entries, CqSlots, asked1, listed, answered)
  <2>1. /\ \A p \in Queues, j \in SqSlots : asked[p][j] # c
        /\ \A w \in Workers, e \in Entries : listed[w][e] # c
        /\ \A j \in CqSlots : answered[j] # c
    BY DEF Settled, Sent
  <2>2. QED
    BY <2>1 DEF Settled, Apart, Turns
<1>2. Sent(Queues, SqSlots, Workers, Entries, CqSlots, asked1, listed, answered, f1)
  BY DEF Settled, Sent, Turns
<1>3. QED
  BY <1>1, <1>2 DEF Settled

\* A command dropped from its queue, for good.
LEMMA AskedDropped ==
  ASSUME None \notin Cmds, NEW asked, NEW listed, NEW answered, NEW f, Settled(asked, listed, answered, f),
         NEW asked1, NEW f1, NEW c \in Cmds, NEW q, NEW i, f1[c] # "sent",
         \A d \in Cmds : d # c => f1[d] = f[d],
         Turns(Queues, SqSlots, asked, asked1, q, i, c, None)
  PROVE  Settled(asked1, listed, answered, f1)
<1>1. Apart(Queues, SqSlots, Workers, Entries, CqSlots, asked1, listed, answered)
  BY DEF Settled, Apart, Turns
<1>2. Sent(Queues, SqSlots, Workers, Entries, CqSlots, asked1, listed, answered, f1)
  <2>1. ASSUME NEW d \in Cmds, d # c
        PROVE  f1[d] = "sent" <=> \/ \E p \in Queues, j \in SqSlots : asked1[p][j] = d
                                  \/ \E w \in Workers, e \in Entries : listed[w][e] = d
                                  \/ \E j \in CqSlots : answered[j] = d
    <3>1. \A p \in Queues, j \in SqSlots : asked1[p][j] = d <=> asked[p][j] = d
      BY <2>1 DEF Turns
    <3>2. f[d] = "sent" <=> \/ \E p \in Queues, j \in SqSlots : asked[p][j] = d
                            \/ \E w \in Workers, e \in Entries : listed[w][e] = d
                            \/ \E j \in CqSlots : answered[j] = d
      BY DEF Settled, Sent
    <3>3. f1[d] = f[d]
      BY <2>1
    <3>4. QED
      BY <3>1, <3>2, <3>3
  <2>2. ~\E p \in Queues, j \in SqSlots : asked1[p][j] = c
    BY DEF Settled, Apart, Turns
  <2>3. ~\E w \in Workers, e \in Entries : listed[w][e] = c
    BY DEF Settled, Apart, Turns
  <2>4. ~\E j \in CqSlots : answered[j] = c
    BY DEF Settled, Apart, Turns
  <2>5. QED
    BY <2>1, <2>2, <2>3, <2>4 DEF Sent
<1>3. QED
  BY <1>1, <1>2 DEF Settled

\* A completion read.
LEMMA AnsweredDropped ==
  ASSUME None \notin Cmds, NEW asked, NEW listed, NEW answered, NEW f, Settled(asked, listed, answered, f),
         NEW answered1, NEW f1, NEW c \in Cmds, NEW j, f1[c] # "sent",
         \A d \in Cmds : d # c => f1[d] = f[d],
         Turns1(CqSlots, answered, answered1, j, c, None)
  PROVE  Settled(asked, listed, answered1, f1)
<1>1. Apart(Queues, SqSlots, Workers, Entries, CqSlots, asked, listed, answered1)
  BY DEF Settled, Apart, Turns1
<1>2. Sent(Queues, SqSlots, Workers, Entries, CqSlots, asked, listed, answered1, f1)
  <2>1. ASSUME NEW d \in Cmds, d # c
        PROVE  f1[d] = "sent" <=> \/ \E p \in Queues, i \in SqSlots : asked[p][i] = d
                                  \/ \E w \in Workers, e \in Entries : listed[w][e] = d
                                  \/ \E i \in CqSlots : answered1[i] = d
    <3>1. \A i \in CqSlots : answered1[i] = d <=> answered[i] = d
      BY <2>1 DEF Turns1
    <3>2. f[d] = "sent" <=> \/ \E p \in Queues, i \in SqSlots : asked[p][i] = d
                            \/ \E w \in Workers, e \in Entries : listed[w][e] = d
                            \/ \E i \in CqSlots : answered[i] = d
      BY DEF Settled, Sent
    <3>3. f1[d] = f[d]
      BY <2>1
    <3>4. QED
      BY <3>1, <3>2, <3>3
  <2>2. ~\E p \in Queues, i \in SqSlots : asked[p][i] = c
    BY DEF Settled, Apart, Turns1
  <2>3. ~\E w \in Workers, e \in Entries : listed[w][e] = c
    BY DEF Settled, Apart, Turns1
  <2>4. ~\E i \in CqSlots : answered1[i] = c
    BY DEF Settled, Apart, Turns1
  <2>5. QED
    BY <2>1, <2>2, <2>3, <2>4 DEF Sent
<1>3. QED
  BY <1>1, <1>2 DEF Settled

-----------------------------------------------------------------------------
(* What the lists carry                                                    *)

\* What the lists carry, before a step and after it.
LEMMA ListedIs ==
  /\ \A w \in Workers, e \in Entries : Listed[w][e] = Carries(w, e)
  /\ conf' = conf => \A w \in Workers, e \in Entries : Listed'[w][e] = Carries(w, e)'
<1>1. \A w \in Workers, e \in Entries : Listed[w][e] = Carries(w, e)
  BY DEF Listed
<1>2. conf' = conf => Workers' = Workers /\ Entries' = Entries
  BY DEF Workers, Entries
<1>3. conf' = conf => \A w \in Workers, e \in Entries : Listed'[w][e] = Carries(w, e)'
  BY <1>2 DEF Listed
<1>4. QED
  BY <1>1, <1>3

\* The lists carry the same.
LEMMA ListedSame ==
  ASSUME conf' = conf, \A w \in Workers, e \in Entries : Carries(w, e)' = Carries(w, e)
  PROVE  Listed' = Listed
<1>1. Workers' = Workers /\ Entries' = Entries
  BY DEF Workers, Entries
<1>2. QED
  BY <1>1 DEF Listed

\* One entry carries something else.
LEMMA ListedTurns ==
  ASSUME conf' = conf, NEW v \in Workers, NEW f \in Entries,
         \A w \in Workers, e \in Entries : w # v \/ e # f => Carries(w, e)' = Carries(w, e),
         NEW x, NEW y, Carries(v, f) = x, Carries(v, f)' = y
  PROVE  Turns(Workers, Entries, Listed, Listed', v, f, x, y)
BY ListedIs DEF Turns

\* Steps that give no entry a command and answer none.
LEMMA CarriesHost ==
  ASSUME SideType, \/ \E c \in conf.cmds : Submit(c)
                   \/ HandlerStep \/ SwitchPath \/ UNCHANGED vars
                   \/ \E a \in Actors : \/ SeeDoorbell(a) \/ DoorbellDone(a) \/ FastIo(a) \/ AskFtl(a)
                                        \/ Refused(a) \/ Reclaim(a)
                                        \/ EnqueueCmd(a) /\ ListFull(WorkerOf(aq[a]))
                   \/ \E w \in Workers : StartPass(w) \/ NotYet(w) \/ Skip(w) \/ PassOver(w) \/ Signal(w)
  PROVE  Listed' = Listed
<1>1. CASE \/ (\E c \in conf.cmds : Submit(c)) \/ HandlerStep \/ SwitchPath \/ UNCHANGED vars
           \/ \E a \in Actors : \/ SeeDoorbell(a) \/ DoorbellDone(a) \/ FastIo(a) \/ AskFtl(a)
                                \/ Refused(a) \/ Reclaim(a)
                                \/ EnqueueCmd(a) /\ ListFull(WorkerOf(aq[a]))
  <2>1. conf' = conf /\ work' = work /\ wpc' = wpc /\ curr' = curr
    BY <1>1 DEF Submit, HandlerStep, TakeInterrupt, TakeCqe, HandlerOver, SwitchPath, walkVars, vars,
                SeeDoorbell, DoorbellDone, FastIo, AskFtl, Refused, Reclaim, EnqueueCmd
  <2>2. QED
    BY <2>1, ListedSame DEF Carries
<1>2. CASE \E w \in Workers : StartPass(w) \/ NotYet(w) \/ Skip(w) \/ PassOver(w) \/ Signal(w)
  <2>1. PICK w \in Workers : StartPass(w) \/ NotYet(w) \/ Skip(w) \/ PassOver(w) \/ Signal(w)
    BY <1>2
  <2>2. conf' = conf /\ work' = work
    BY <2>1 DEF StartPass, NotYet, Skip, PassOver, Signal
  <2>3. /\ wpc[w] # "mark" /\ (wpc' = wpc \/ \E p \in {"look", "top", "signal"} : wpc' = [wpc EXCEPT ![w] = p])
        /\ (curr' = curr \/ \E e : curr' = [curr EXCEPT ![w] = e])
    BY <2>1 DEF StartPass, NotYet, Skip, PassOver, Signal
  <2>4. \A v \in Workers : (wpc'[v] = "mark" <=> wpc[v] = "mark") /\ (v # w => curr'[v] = curr[v])
    BY <2>3 DEF SideType, PassBasics, WalkType
  <2>5. \A v \in Workers, e \in Entries : Carries(v, e)' = Carries(v, e)
    BY <2>2, <2>3, <2>4 DEF Carries
  <2>6. QED
    BY <2>2, <2>5, ListedSame
<1>3. QED
  BY <1>1, <1>2

\* A release enqueued is no command.
LEMMA CarriesInternal ==
  ASSUME SideType, AtHand, NEW a \in Actors, EnqueueInternal(a)
  PROVE  Listed' = Listed
<1>1. conf' = conf /\ wpc' = wpc /\ curr' = curr /\ aq[a] \in Queues
  BY DEF EnqueueInternal, walkVars, AtHand
<1>2. PICK w \in Workers : w = WorkerOf(aq[a])
  BY <1>1, FetchedIs
<1>3. CASE ListFull(w)
  <2>1. work' = work
    BY <1>2, <1>3 DEF EnqueueInternal
  <2>2. QED
    BY <1>1, <2>1, ListedSame DEF Carries
<1>4. CASE ~ListFull(w)
  <2>1. PICK d \in due_at[a] .. MaxDue : Enqueue(w, Internal, d)
    BY <1>2, <1>4 DEF EnqueueInternal
  <2>2. PICK f \in Entries :
           /\ work[w][f].op = None /\ work'[w][f].op = Internal
           /\ \A v \in Workers, e \in Entries : v # w \/ e # f => work'[v][e] = work[v][e]
    BY <1>1, <2>1, EnqueueOwed
  <2>3. \A v \in Workers, e \in Entries : Carries(v, e)' = Carries(v, e)
    BY <1>1, <2>2 DEF Carries
  <2>4. QED
    BY <1>1, <2>3, ListedSame
<1>5. QED
  BY <1>3, <1>4

\* A command enqueued.
LEMMA CarriesEnqueued ==
  ASSUME SideType, AtHand, NEW a \in Actors, EnqueueCmd(a), ~ListFull(WorkerOf(aq[a]))
  PROVE  \E w \in Workers, f \in Entries : Turns(Workers, Entries, Listed, Listed', w, f, None, Fetched(a))
<1>1. conf' = conf /\ wpc' = wpc /\ curr' = curr /\ aq[a] \in Queues /\ conf \in Configs
  BY DEF EnqueueCmd, walkVars, AtHand, SideType, PassBasics
<1>2. PICK w \in Workers : w = WorkerOf(aq[a])
  BY <1>1, FetchedIs
<1>3. PICK op : op = Fetched(a)
  OBVIOUS
<1>4. PICK d : d = due_at[a]
  OBVIOUS
<1>5. Enqueue(w, op, d)
  BY <1>2, <1>3, <1>4 DEF EnqueueCmd
<1>6. PICK f \in Entries :
         /\ work[w][f].op = None /\ work'[w][f].op = op /\ ~(wpc[w] = "mark" /\ curr[w] = f)
         /\ \A v \in Workers, e \in Entries : v # w \/ e # f => work'[v][e] = work[v][e]
  BY <1>1, <1>5, EnqueueOwed
<1>7. op # Internal /\ None # Internal
  BY <1>1, <1>3, FetchedIs, Constants
<1>8. Carries(w, f) = None /\ Carries(w, f)' = op
  BY <1>1, <1>6, <1>7 DEF Carries
<1>9. \A v \in Workers, e \in Entries : v # w \/ e # f => Carries(v, e)' = Carries(v, e)
  BY <1>1, <1>6 DEF Carries
<1>10. Turns(Workers, Entries, Listed, Listed', w, f, None, op)
  BY <1>1, <1>8, <1>9, ListedTurns
<1>11. QED
  BY <1>3, <1>10

\* A worker copying its entry, and marking it.
LEMMA CarriesPass ==
  ASSUME SideType, NEW w \in Workers, Look(w) \/ Mark(w)
  PROVE  Listed' = Listed
<1>1. conf \in Configs /\ conf' = conf
  BY DEF Look, Mark, SideType, PassBasics
<1>2. CASE Look(w)
  <2>1. PICK c \in Entries : c = curr[w]
    BY <1>2 DEF Look, SideType, PassBasics, WalkType
  <2>2. /\ work' = [work EXCEPT ![w] = [work[w] EXCEPT ![c] = [work[w][c] EXCEPT !.copied = TRUE]]]
        /\ wpc' = [wpc EXCEPT ![w] = "copied"] /\ curr' = curr /\ wpc[w] = "look"
    BY <1>2, <2>1 DEF Look
  <2>3. work[w][c] \in Entry
    BY DEF SideType, PassBasics
  <2>4. \A v \in Workers, e \in Entries : work'[v][e].op = work[v][e].op
    BY <2>2, <2>3 DEF SideType, PassBasics, Entry
  <2>5. \A v \in Workers : wpc'[v] = "mark" <=> wpc[v] = "mark"
    BY <2>2 DEF SideType, PassBasics, WalkType
  <2>6. \A v \in Workers, e \in Entries : Carries(v, e)' = Carries(v, e)
    BY <2>2, <2>4, <2>5 DEF Carries
  <2>7. QED
    BY <1>1, <2>6, ListedSame
<1>3. CASE Mark(w)
  <2>1. PICK c \in Entries : c = curr[w]
    BY <1>3, CurrentIs DEF Mark
  <2> DEFINE new == [work[w][c] EXCEPT !.completed = TRUE, !.op = None]
  <2>2. /\ work' = [work EXCEPT ![w] = [work[w] EXCEPT ![c] = new]]
        /\ wpc' = [wpc EXCEPT ![w] = "look"] /\ curr' = [curr EXCEPT ![w] = next[w][curr[w]]]
        /\ wpc[w] = "mark"
    BY <1>3, <2>1 DEF Mark
  <2>3. new.op = None
    <3>1. work[w][c] \in Entry
      BY DEF SideType, PassBasics
    <3>2. QED
      BY <3>1 DEF Entry
  <2> HIDE DEF new
  <2>4. \A v \in Workers, e \in Entries : IF v = w /\ e = c THEN work'[v][e].op = None ELSE work'[v][e] = work[v][e]
    BY <2>2, <2>3 DEF SideType, PassBasics
  <2>5. \A v \in Workers : IF v = w THEN wpc'[v] = "look" ELSE wpc'[v] = wpc[v] /\ curr'[v] = curr[v]
    BY <2>2 DEF SideType, PassBasics, WalkType
  <2>6. None # Internal
    BY <1>1, Constants
  <2>7. \A v \in Workers, e \in Entries : Carries(v, e)' = Carries(v, e)
    BY <2>1, <2>2, <2>4, <2>5, <2>6 DEF Carries
  <2>8. QED
    BY <1>1, <2>7, ListedSame
<1>4. QED
  BY <1>2, <1>3

\* A worker answers the command of its entry.
LEMMA CarriesCompleted ==
  ASSUME Steady, SideType, NEW w \in Workers, Complete(w)
  PROVE  /\ At(w).op = Internal => Listed' = Listed
         /\ At(w).op # Internal => /\ At(w).op \in Cmds
                                   /\ \E f \in Entries : Turns(Workers, Entries, Listed, Listed', w, f, At(w).op, None)
<1>1. conf \in Configs /\ conf' = conf /\ work' = work /\ curr' = curr /\ wpc' = [wpc EXCEPT ![w] = "mark"]
      /\ wpc[w] = "copied"
  BY DEF Complete, SideType, PassBasics
<1>2. PICK c \in Entries : c = curr[w]
  BY <1>1, CurrentIs
<1>3. At(w) = work[w][c] /\ At(w) \in Entry /\ At(w).op # None
  BY <1>1, <1>2, CurrentIs DEF At
<1>4. \A v \in Workers : IF v = w THEN wpc'[v] = "mark" ELSE wpc'[v] = wpc[v]
  BY <1>1 DEF SideType, PassBasics, WalkType
<1>5. \A v \in Workers, e \in Entries : v # w \/ e # c => Carries(v, e)' = Carries(v, e)
  BY <1>1, <1>2, <1>4 DEF Carries
<1>6. Carries(w, c)' = None
  BY <1>1, <1>2, <1>4 DEF Carries
<1>7. Carries(w, c) = IF work[w][c].op = Internal THEN None ELSE work[w][c].op
  BY <1>1 DEF Carries
<1>8. CASE work[w][c].op = Internal
  <2>1. \A v \in Workers, e \in Entries : Carries(v, e)' = Carries(v, e)
    BY <1>5, <1>6, <1>7, <1>8
  <2>2. QED
    BY <1>1, <1>3, <1>8, <2>1, ListedSame
<1>9. CASE work[w][c].op # Internal
  <2>1. work[w][c].op \in Cmds
    BY <1>3, <1>9 DEF Entry
  <2>2. PICK op : op = work[w][c].op
    OBVIOUS
  <2>3. Carries(w, c) = op
    BY <1>7, <1>9, <2>2
  <2>4. Turns(Workers, Entries, Listed, Listed', w, c, op, None)
    BY <1>1, <1>5, <1>6, <2>3, ListedTurns
  <2>5. QED
    BY <1>3, <1>9, <2>1, <2>2, <2>4
<1>10. QED
  BY <1>8, <1>9

\* Time passing.
LEMMA CarriesTick ==
  ASSUME SideType, Tick
  PROVE  Listed' = Listed
<1>1. conf' = conf /\ wpc' = wpc /\ curr' = curr
  BY DEF Tick, walkVars
<1>2. work' = [w \in Workers |-> [e \in Entries |-> [work[w][e] EXCEPT !.due = IF @ > 0 THEN @ - 1 ELSE 0]]]
  BY DEF Tick
<1>3. ASSUME NEW v \in Workers, NEW e \in Entries PROVE work'[v][e].op = work[v][e].op
  <2> DEFINE x == IF work[v][e].due > 0 THEN work[v][e].due - 1 ELSE 0
  <2>1. work'[v][e] = [work[v][e] EXCEPT !.due = x]
    BY <1>2
  <2>2. work[v][e] \in Entry
    BY DEF SideType, PassBasics
  <2> HIDE DEF x
  <2>3. QED
    BY <2>1, <2>2 DEF Entry
<1>4. QED
  BY <1>1, <1>3, ListedSame DEF Carries

-----------------------------------------------------------------------------
(* Commands in the submission queues                                       *)

\* As many as have a command each, and not the one command c, are fewer than the commands.
LEMMA Fewer ==
  ASSUME NEW T, NEW K, IsFiniteSet(K), NEW c \in K, NEW g \in [T -> K],
         \A t \in T : g[t] # c, \A t, u \in T : g[t] = g[u] => t = u
  PROVE  Cardinality(T) \in Nat /\ Cardinality(T) < Cardinality(K)
<1>1. IsFiniteSet(K \ {c}) /\ Cardinality(K \ {c}) = Cardinality(K) - 1 /\ Cardinality(K) \in Nat
  BY FS_RemoveElement, FS_CardinalityType
<1>2. g \in Injection(T, K \ {c})
  <2>1. g \in [T -> K \ {c}]
    OBVIOUS
  <2>2. QED
    BY <2>1 DEF Injection, IsInjective
<1>3. IsFiniteSet(T) /\ Cardinality(T) <= Cardinality(K \ {c})
  BY <1>1, <1>2, FS_Injection
<1>4. QED
  BY <1>1, <1>3, FS_CardinalityType
\* What is asked of the controller, before a step and after it.
LEMMA AskedIs ==
  /\ \A q \in Queues, i \in SqSlots : Asked[q][i] = IF i \in Waiting(q) THEN sq[q][i] ELSE None
  /\ \A q \in Queues, i \in SqSlots : Asked'[q][i] = IF i \in Waiting(q)' THEN sq'[q][i] ELSE None
BY DEF Asked

\* Nothing more is asked.
LEMMA AskedSame ==
  ASSUME sq' = sq, \A q \in Queues : Waiting(q)' = Waiting(q)
  PROVE  Asked' = Asked
BY DEF Asked

\* One is dealt with.
LEMMA AskedLess ==
  ASSUME sq' = sq, NEW q \in Queues, NEW i \in Waiting(q), i \in SqSlots, Waiting(q)' = Waiting(q) \ {i},
         \A p \in Queues \ {q} : Waiting(p)' = Waiting(p)
  PROVE  Turns(Queues, SqSlots, Asked, Asked', q, i, sq[q][i], None)
BY AskedIs DEF Turns

\* One is asked.
LEMMA AskedMore ==
  ASSUME NEW q \in Queues, NEW i \in SqSlots, NEW c, i \notin Waiting(q), Waiting(q)' = Waiting(q) \cup {i},
         sq'[q][i] = c, \A j \in SqSlots \ {i} : sq'[q][j] = sq[q][j],
         \A p \in Queues \ {q} : Waiting(p)' = Waiting(p) /\ sq'[p] = sq[p]
  PROVE  Turns(Queues, SqSlots, Asked, Asked', q, i, None, c)
BY AskedIs DEF Turns

\* What is waiting was sent, each command in one place.
LEMMA WaitingSent ==
  ASSUME SideType, Places, NEW q \in Queues, NEW i \in Waiting(q)
  PROVE  /\ i \in SqSlots /\ sq[q][i] \in conf.cmds /\ sq[q][i] \in Cmds /\ fate[sq[q][i]] = "sent"
         /\ Asked[q][i] = sq[q][i] /\ sq[q][i] # None
<1>1. None \notin Cmds
  BY Constants DEF SideType, PassBasics
<1>2. i \in SqSlots
  BY DEF Waiting, Between, SqSlots
<1>3. sq[q][i] \in Cmds
  BY DEF Places, Named
<1>4. Asked[q][i] = sq[q][i]
  BY <1>2, AskedIs
<1>5. fate[sq[q][i]] = "sent"
  BY <1>2, <1>3, <1>4 DEF Places, Settled, Sent
<1>6. QED
  BY <1>1, <1>2, <1>3, <1>4, <1>5 DEF Places, Named

\* The queue of a new command has room for it.
LEMMA SubmitWaiting ==
  ASSUME SideType, Places, NEW c \in conf.cmds, Submit(c)
  PROVE  \E q \in Queues, i \in SqSlots :
           /\ q = QueueOf[c] /\ i = dbs[q] /\ i \notin Waiting(q) /\ Waiting(q)' = Waiting(q) \cup {i}
           /\ sq'[q][i] = c /\ \A j \in SqSlots \ {i} : sq'[q][j] = sq[q][j]
           /\ \A p \in Queues \ {q} : Waiting(p)' = Waiting(p) /\ sq'[p] = sq[p]
           /\ \A p \in Queues : Pos(p)' = Pos(p)
<1>1. conf \in Configs /\ c \in Cmds /\ IsFiniteSet(conf.cmds) /\ Cardinality(conf.cmds) < SqSize
      /\ Cardinality(conf.cmds) \in Nat /\ SqSize \in Nat \ {0}
  BY Constants DEF SideType, PassBasics
<1>2. PICK q \in Queues : q = QueueOf[c]
  BY <1>1, Constants
<1>3. PICK i \in SqSlots : i = dbs[q]
  BY PosSlot
<1>4. Pos(q) \in 0 .. SqSize - 1 /\ i \in 0 .. SqSize - 1
  BY <1>3, PosSlot DEF SqSlots
<1>5. \A p \in Queues : Pos(p)' = Pos(p)
  BY PosSame DEF Submit, dbVars
<1>6. Waiting(q) = Between(Pos(q), i, SqSize)
  BY <1>3 DEF Waiting
<1>7. Cardinality(Waiting(q)) < SqSize - 1 /\ Cardinality(Waiting(q)) \in Nat
  <2> DEFINE g == [j \in Waiting(q) |-> sq[q][j]]
  <2>1. g \in [Waiting(q) -> conf.cmds]
    BY WaitingSent
  <2>2. \A j \in Waiting(q) : g[j] # c
    BY WaitingSent DEF Submit
  <2>3. ASSUME NEW j \in Waiting(q), NEW k \in Waiting(q), g[j] = g[k] PROVE j = k
    <3>1. Asked[q][j] = Asked[q][k] /\ Asked[q][j] # None /\ j \in SqSlots /\ k \in SqSlots
      BY <2>3, WaitingSent
    <3>2. QED
      BY <3>1 DEF Places, Settled, Apart
  <2> HIDE DEF g
  <2>4. Cardinality(Waiting(q)) \in Nat /\ Cardinality(Waiting(q)) < Cardinality(conf.cmds)
    BY <1>1, <2>1, <2>2, <2>3, Fewer
  <2>5. QED
    BY <1>1, <2>4
<1>8. After1(i, SqSize) # Pos(q)
  BY <1>1, <1>4, <1>6, <1>7, StretchRoom
<1>9. Between(Pos(q), After1(i, SqSize), SqSize) = Waiting(q) \cup {i} /\ i \notin Waiting(q)
  BY <1>1, <1>4, <1>6, <1>8, StretchGrows, Stretch
<1>10. dbs' = [dbs EXCEPT ![q] = After1(i, SqSize)]
  BY <1>1, <1>2, <1>3, AfterSqIs DEF Submit
<1>11. dbs'[q] = After1(i, SqSize) /\ \A p \in Queues \ {q} : dbs'[p] = dbs[p]
  BY <1>10 DEF SideType, HostType
<1>12. Waiting(q)' = Waiting(q) \cup {i} /\ \A p \in Queues \ {q} : Waiting(p)' = Waiting(p)
  BY <1>5, <1>9, <1>11 DEF Waiting
<1>13. sq' = [sq EXCEPT ![q] = [sq[q] EXCEPT ![i] = c]]
  BY <1>2, <1>3 DEF Submit
<1>14. sq'[q][i] = c /\ (\A j \in SqSlots \ {i} : sq'[q][j] = sq[q][j]) /\ \A p \in Queues \ {q} : sq'[p] = sq[p]
  BY <1>13 DEF SideType, HostType, SqSlots
<1>15. QED
  BY <1>2, <1>3, <1>5, <1>9, <1>12, <1>14

-----------------------------------------------------------------------------
(* Commands in the completion queue                                        *)

\* The completions the host has not read, before a step and after it.
LEMMA AnsweredIs ==
  /\ \A i \in CqSlots : Answered[i] = IF i \in New THEN cq[i].cmd ELSE None
  /\ \A i \in CqSlots : Answered'[i] = IF i \in New' THEN cq'[i].cmd ELSE None
BY DEF Answered

\* Both places in the completion queue are slots of it.
LEMMA HeadSlots ==
  ASSUME SideType
  PROVE  /\ CqSize \in Nat \ {0} /\ cq_head \in 0 .. CqSize - 1 /\ host_head \in 0 .. CqSize - 1
         /\ cq_phase \in {0, 1} /\ host_phase \in {0, 1} /\ New \subseteq CqSlots
         /\ \A i \in CqSlots : cq[i].phase \in {0, 1}
<1>1. CqSize \in Nat \ {0}
  BY Constants DEF SideType, PassBasics
<1>2. QED
  BY <1>1 DEF SideType, HostType, CqType, New, Between, CqSlots

\* A completion not read is of a command under way, and says which.
LEMMA NewSent ==
  ASSUME SideType, Places, NEW i \in New
  PROVE  /\ i \in CqSlots /\ cq[i].cmd \in conf.cmds /\ cq[i].cmd \in Cmds /\ fate[cq[i].cmd] = "sent"
         /\ Answered[i] = cq[i].cmd /\ cq[i].cmd # None
<1>1. None \notin Cmds
  BY Constants DEF SideType, PassBasics
<1>2. i \in CqSlots
  BY HeadSlots
<1>3. cq[i].cmd \in Cmds
  BY DEF Places, Named
<1>4. Answered[i] = cq[i].cmd
  BY <1>2, AnsweredIs
<1>5. fate[cq[i].cmd] = "sent"
  BY <1>2, <1>3, <1>4 DEF Places, Settled, Sent
<1>6. QED
  BY <1>1, <1>2, <1>3, <1>4, <1>5 DEF Places, Named

\* The phase bit says whether there is a completion to read.
LEMMA PhaseTells ==
  ASSUME SideType, Phases
  PROVE  NewCqe <=> host_head \in New
<1>1. host_head \in CqSlots /\ host_phase \in {0, 1} /\ host_head >= host_head
  BY HeadSlots DEF CqSlots
<1>2. cq[host_head].phase = IF host_head \in New THEN host_phase ELSE 1 - host_phase
  BY <1>1 DEF Phases
<1>3. QED
  BY <1>1, <1>2 DEF NewCqe

\* The completion queue has room for a completion of a command under way.
LEMMA PostNew ==
  ASSUME SideType, Places, Phases, NEW c \in conf.cmds, c \in Cmds, \A i \in New : cq[i].cmd # c, PostCqe(c),
         host_head' = host_head, host_phase' = host_phase
  PROVE  /\ New' = New \cup {cq_head} /\ cq'[cq_head].cmd = c /\ \A i \in New : cq'[i].cmd = cq[i].cmd
         /\ Turns1(CqSlots, Answered, Answered', cq_head, None, c)
         /\ Phases'
<1>1. conf \in Configs /\ IsFiniteSet(conf.cmds) /\ Cardinality(conf.cmds) < CqSize
      /\ Cardinality(conf.cmds) \in Nat /\ CqSize \in Nat \ {0}
  BY Constants DEF SideType, PassBasics
<1>2. cq_head \in 0 .. CqSize - 1 /\ host_head \in 0 .. CqSize - 1 /\ cq_phase \in {0, 1} /\ host_phase \in {0, 1}
  BY HeadSlots
<1>3. Cardinality(New) < CqSize - 1 /\ Cardinality(New) \in Nat
  <2> DEFINE g == [j \in New |-> cq[j].cmd]
  <2>1. g \in [New -> conf.cmds]
    BY NewSent
  <2>2. \A j \in New : g[j] # c
    OBVIOUS
  <2>3. ASSUME NEW j \in New, NEW k \in New, g[j] = g[k] PROVE j = k
    <3>1. Answered[j] = Answered[k] /\ Answered[j] # None /\ j \in CqSlots /\ k \in CqSlots
      BY <2>3, NewSent
    <3>2. QED
      BY <3>1 DEF Places, Settled, Apart
  <2> HIDE DEF g
  <2>4. Cardinality(New) \in Nat /\ Cardinality(New) < Cardinality(conf.cmds)
    BY <1>1, <2>1, <2>2, <2>3, Fewer
  <2>5. QED
    BY <1>1, <2>4
<1>4. After1(cq_head, CqSize) # host_head
  BY <1>1, <1>2, <1>3, StretchRoom DEF New
<1>5. Between(host_head, After1(cq_head, CqSize), CqSize) = New \cup {cq_head} /\ cq_head \notin New
  BY <1>1, <1>2, <1>4, StretchGrows, Stretch DEF New
<1>6. cq_head' = After1(cq_head, CqSize)
  BY <1>1, <1>2, AfterCqIs DEF PostCqe, CqSlots
<1>7. New' = New \cup {cq_head}
  BY <1>5, <1>6 DEF New
<1>8. cq' = [cq EXCEPT ![cq_head] = [cmd |-> c, phase |-> cq_phase]]
  BY DEF PostCqe
<1>9. /\ cq'[cq_head].cmd = c /\ cq'[cq_head].phase = cq_phase
      /\ \A i \in CqSlots : i # cq_head => cq'[i] = cq[i]
  BY <1>2, <1>8 DEF SideType, CqType, CqSlots
<1>10. Turns1(CqSlots, Answered, Answered', cq_head, None, c)
  BY <1>2, <1>5, <1>7, <1>9, AnsweredIs DEF Turns1, CqSlots
<1>11. Phases'
  <2>1. cq_phase' = IF cq_head' = 0 THEN 1 - cq_phase ELSE cq_phase
    BY DEF PostCqe
  <2>2. cq_phase = IF cq_head >= host_head THEN host_phase ELSE 1 - host_phase
    BY DEF Phases
  <2>3. cq_phase' = IF cq_head' >= host_head' THEN host_phase' ELSE 1 - host_phase'
    BY <1>1, <1>2, <1>4, <1>6, <2>1, <2>2 DEF After1
  <2>4. ASSUME NEW i \in CqSlots
        PROVE  cq'[i].phase = IF (i \in New') <=> (i >= host_head') THEN host_phase' ELSE 1 - host_phase'
    <3>1. CASE i = cq_head
      BY <1>2, <1>7, <1>9, <2>2, <3>1
    <3>2. CASE i # cq_head
      BY <1>7, <1>9, <3>2 DEF Phases
    <3>3. QED
      BY <3>1, <3>2
  <2>5. QED
    BY <2>3, <2>4 DEF Phases
<1>12. \A i \in New : cq'[i].cmd = cq[i].cmd
  BY <1>5, <1>9, HeadSlots
<1>13. QED
  BY <1>7, <1>9, <1>10, <1>11, <1>12

\* The host reads one.
LEMMA TakeNew ==
  ASSUME SideType, Places, Phases, TakeCqe
  PROVE  /\ host_head \in New /\ New' = New \ {host_head} /\ \A i \in New' : cq'[i] = cq[i]
         /\ Turns1(CqSlots, Answered, Answered', host_head, cq[host_head].cmd, None)
         /\ Phases'
<1>1. CqSize \in Nat \ {0} /\ cq_head \in 0 .. CqSize - 1 /\ host_head \in 0 .. CqSize - 1
      /\ cq_phase \in {0, 1} /\ host_phase \in {0, 1} /\ conf \in Configs
  BY HeadSlots DEF SideType, PassBasics
<1>2. host_head \in New
  BY PhaseTells DEF TakeCqe
<1>3. host_head # cq_head
  BY <1>1, <1>2, Stretch DEF New
<1>4. host_head' = After1(host_head, CqSize) /\ cq_head' = cq_head /\ cq_phase' = cq_phase
      /\ host_phase' = IF host_head' = 0 THEN 1 - host_phase ELSE host_phase
  BY <1>1, AfterCqIs DEF TakeCqe, CqSlots
<1>5. New' = New \ {host_head}
  BY <1>1, <1>3, <1>4, StretchShrinks DEF New
<1>6. /\ \A i \in CqSlots : i # host_head => cq'[i] = cq[i]
      /\ cq'[host_head].phase = cq[host_head].phase
  <2>1. cq' = [cq EXCEPT ![host_head] = [cq[host_head] EXCEPT !.cmd = None]]
    BY DEF TakeCqe
  <2>2. cq[host_head] \in [cmd : Cmds \cup {None}, phase : {0, 1}]
    BY <1>1 DEF SideType, CqType
  <2>3. [cq[host_head] EXCEPT !.cmd = None].phase = cq[host_head].phase
    BY <2>2
  <2> DEFINE new == [cq[host_head] EXCEPT !.cmd = None]
  <2>4. cq' = [cq EXCEPT ![host_head] = new] /\ new.phase = cq[host_head].phase
    BY <2>1, <2>3
  <2> HIDE DEF new
  <2>5. QED
    BY <1>1, <2>4 DEF SideType, CqType, CqSlots
<1>7. Turns1(CqSlots, Answered, Answered', host_head, cq[host_head].cmd, None)
  <2>1. host_head \in CqSlots
    BY <1>1 DEF CqSlots
  <2>2. Answered[host_head] = cq[host_head].cmd /\ Answered'[host_head] = None
    BY <1>2, <1>5, <2>1, AnsweredIs
  <2>3. ASSUME NEW k \in CqSlots, k # host_head PROVE Answered'[k] = Answered[k]
    BY <1>5, <1>6, <2>3, AnsweredIs
  <2>4. QED
    BY <2>1, <2>2, <2>3 DEF Turns1
<1>8. Phases'
  <2>1. cq_phase = IF cq_head >= host_head THEN host_phase ELSE 1 - host_phase
    BY DEF Phases
  <2>2. cq_phase' = IF cq_head' >= host_head' THEN host_phase' ELSE 1 - host_phase'
    BY <1>1, <1>3, <1>4, <2>1 DEF After1
  <2>3. ASSUME NEW i \in CqSlots
        PROVE  cq'[i].phase = IF (i \in New') <=> (i >= host_head') THEN host_phase' ELSE 1 - host_phase'
    <3>1. cq'[i].phase = cq[i].phase
      BY <1>6
    <3>2. cq[i].phase = IF (i \in New) <=> (i >= host_head) THEN host_phase ELSE 1 - host_phase
      BY DEF Phases
    <3>3. i \in 0 .. CqSize - 1
      BY DEF CqSlots
    <3>4. CASE host_head = CqSize - 1
      <4>1. host_head' = 0 /\ host_phase' = 1 - host_phase
        BY <1>1, <1>4, <3>4 DEF After1
      <4>2. i >= host_head <=> i = host_head
        BY <1>1, <3>3, <3>4
      <4>3. QED
        BY <1>1, <1>2, <1>5, <3>1, <3>2, <3>3, <4>1, <4>2
    <3>5. CASE host_head # CqSize - 1
      <4>1. host_head' = host_head + 1 /\ host_phase' = host_phase
        BY <1>1, <1>4, <3>5 DEF After1
      <4>2. i >= host_head + 1 <=> i >= host_head /\ i # host_head
        BY <1>1, <3>3
      <4>3. QED
        BY <1>1, <1>2, <1>5, <3>1, <3>2, <3>3, <4>1, <4>2
    <3>6. QED
      BY <3>4, <3>5
  <2>4. QED
    BY <2>2, <2>3 DEF Phases
<1>9. \A i \in New' : cq'[i] = cq[i]
  BY <1>5, <1>6, HeadSlots
<1>10. QED
  BY <1>2, <1>5, <1>7, <1>8, <1>9

-----------------------------------------------------------------------------
(* No command is lost from sight                                           *)

\* What is needed to follow a command.
Core == SideType /\ AtHand /\ Roles /\ Reading /\ Places /\ Phases

\* A command fetched was sent, and is where it was fetched from only.
LEMMA FetchedSent ==
  ASSUME Core, NEW a \in Actors, apc[a] \in {"cmd", "internal", "enqueue"}, apc[a] = "cmd" => at[a] # anew[a]
  PROVE  \E q \in Queues :
           /\ q = aq[a] /\ at[a] # anew[a] /\ at[a] \in Waiting(q) /\ at[a] \in SqSlots /\ Reads(a, q)
           /\ Fetched(a) = sq[q][at[a]] /\ Fetched(a) \in conf.cmds /\ Fetched(a) \in Cmds /\ Fetched(a) # None
           /\ fate[Fetched(a)] = "sent"
           /\ \A i \in New : cq[i].cmd # Fetched(a)
<1> USE DEF Core
<1>1. PICK q \in Queues : q = aq[a]
  BY Acting
<1>2. at[a] # anew[a]
  BY <1>1 DEF Reading, Reads
<1>3. at[a] \in Waiting(q) /\ Reads(a, q)
  BY <1>1, <1>2, NextIsWaiting
<1>4. Fetched(a) = sq[q][at[a]]
  BY <1>1 DEF Fetched
<1>5. /\ at[a] \in SqSlots /\ sq[q][at[a]] \in conf.cmds /\ sq[q][at[a]] \in Cmds /\ fate[sq[q][at[a]]] = "sent"
      /\ Asked[q][at[a]] = sq[q][at[a]] /\ sq[q][at[a]] # None
  BY <1>3, WaitingSent
<1>6. ASSUME NEW i \in New PROVE cq[i].cmd # Fetched(a)
  <2>1. i \in CqSlots /\ Answered[i] = cq[i].cmd
    BY NewSent
  <2>2. QED
    BY <1>4, <1>5, <2>1 DEF Places, Settled, Apart
<1>7. QED
  BY <1>1, <1>2, <1>3, <1>4, <1>5, <1>6

\* The places after a step, from what they hold then.
LEMMA SettledNext ==
  ASSUME conf' = conf, Settled(Asked', Listed', Answered', fate')
  PROVE  Settled(Asked, Listed, Answered, fate)'
<1>1. Workers' = Workers /\ Entries' = Entries
  BY DEF Workers, Entries
<1>2. QED
  BY <1>1 DEF Settled

\* Steps that leave the completion queue alone.
LEMMA PhasesSame ==
  ASSUME Phases, UNCHANGED <<cq, cq_head, cq_phase, host_head, host_phase>>
  PROVE  Phases' /\ New' = New /\ Answered' = Answered
<1>1. New' = New
  BY DEF New
<1>2. QED
  BY <1>1 DEF Phases, Answered

\* Steps that move no command.
LEMMA CoreSame ==
  ASSUME Core, conf' = conf, sq' = sq, fate' = fate, UNCHANGED <<cq, cq_head, cq_phase, host_head, host_phase>>,
         Listed' = Listed, \A q \in Queues : Waiting(q)' = Waiting(q)
  PROVE  Places' /\ Phases'
<1> USE DEF Core
<1>1. Asked' = Asked
  BY AskedSame
<1>2. Phases' /\ New' = New /\ Answered' = Answered
  BY PhasesSame
<1>3. Settled(Asked', Listed', Answered', fate')
  BY <1>1, <1>2 DEF Places
<1>4. Settled(Asked, Listed, Answered, fate)'
  BY <1>3, SettledNext
<1>5. Named'
  BY <1>2 DEF Places, Named
<1>6. QED
  BY <1>2, <1>4, <1>5 DEF Places

\* A command is sent.
LEMMA CoreSubmit ==
  ASSUME Core, NEW c \in conf.cmds, Submit(c)
  PROVE  Reading' /\ Places' /\ Phases'
<1> USE DEF Core
<1>1. PICK q \in Queues, i \in SqSlots :
           /\ q = QueueOf[c] /\ i = dbs[q] /\ i \notin Waiting(q) /\ Waiting(q)' = Waiting(q) \cup {i}
           /\ sq'[q][i] = c /\ \A j \in SqSlots \ {i} : sq'[q][j] = sq[q][j]
           /\ \A p \in Queues \ {q} : Waiting(p)' = Waiting(p) /\ sq'[p] = sq[p]
           /\ \A p \in Queues : Pos(p)' = Pos(p)
  BY SubmitWaiting
<1>2. conf' = conf /\ UNCHANGED <<cq, cq_head, cq_phase, host_head, host_phase>> /\ fate[c] = "idle"
      /\ fate' = [fate EXCEPT ![c] = "sent"] /\ apc' = apc /\ aq' = aq /\ at' = at /\ anew' = anew
      /\ Actors' = Actors
  BY DEF Submit, cqVars, dbVars, Actors
<1>3. conf \in Configs /\ c \in Cmds /\ None \notin Cmds
  BY Constants DEF SideType, PassBasics
<1>4. fate'[c] = "sent" /\ \A d \in Cmds : d # c => fate'[d] = fate[d]
  BY <1>2, <1>3 DEF SideType, HostType
<1>5. Listed' = Listed
  BY CarriesHost
<1>6. Phases' /\ New' = New /\ Answered' = Answered
  BY <1>2, PhasesSame
<1>7. Turns(Queues, SqSlots, Asked, Asked', q, i, None, c)
  BY <1>1, AskedMore
<1>8. Settled(Asked', Listed, Answered, fate')
  BY <1>2, <1>3, <1>4, <1>7, AskedAdded DEF Places
<1>9. Settled(Asked, Listed, Answered, fate)'
  BY <1>2, <1>5, <1>6, <1>8, SettledNext
<1>10. Named'
  <2>1. ASSUME NEW p \in Queues, NEW j \in Waiting(p)' PROVE sq'[p][j] \in Cmds
    <3>1. CASE p = q /\ j = i
      BY <1>1, <1>3, <3>1
    <3>2. CASE p # q \/ j # i
      <4>1. j \in Waiting(p)
        BY <1>1, <2>1, <3>2
      <4>2. j \in SqSlots /\ sq[p][j] \in Cmds
        BY <4>1, WaitingSent
      <4>3. sq'[p][j] = sq[p][j]
        BY <1>1, <3>2, <4>2
      <4>4. QED
        BY <4>2, <4>3
    <3>3. QED
      BY <3>1, <3>2
  <2>2. \A j \in New' : cq'[j].cmd \in Cmds
    BY <1>2, <1>6 DEF Places, Named
  <2>3. \A d \in Cmds : fate'[d] # "idle" => d \in conf.cmds
    BY <1>4 DEF Places, Named
  <2>4. QED
    BY <1>2, <2>1, <2>2, <2>3 DEF Named
<1>11. Reading'
  <2>1. ASSUME NEW a \in Actors, NEW p \in Queues, apc'[a] # "poll", aq'[a] = p PROVE Reads(a, p)'
    <3>1. Reads(a, p)
      BY <1>2, <2>1 DEF Reading
    <3>2. Waiting(p) \subseteq Waiting(p)' /\ Pos(p)' = Pos(p)
      BY <1>1
    <3>3. ASSUME apc[a] = "internal" PROVE sq'[p][at[a]] = sq[p][at[a]]
      <4>1. at[a] \in Waiting(p) /\ at[a] \in SqSlots
        BY <1>2, <2>1, <3>3, FetchedSent
      <4>2. QED
        BY <1>1, <4>1
    <3>4. QED
      BY <1>2, <3>1, <3>2, <3>3, ReadsKept
  <2>2. QED
    BY <1>2, <2>1 DEF Reading
<1>12. QED
  BY <1>6, <1>9, <1>10, <1>11 DEF Places

\* The host reads a completion.
LEMMA CoreTake ==
  ASSUME Core, TakeCqe
  PROVE  Reading' /\ Places' /\ Phases' /\ fate[cq[host_head].cmd] = "sent"
<1> USE DEF Core
<1>1. /\ host_head \in New /\ New' = New \ {host_head} /\ \A i \in New' : cq'[i] = cq[i]
      /\ Turns1(CqSlots, Answered, Answered', host_head, cq[host_head].cmd, None)
      /\ Phases'
  BY TakeNew
<1>2. PICK c \in Cmds : c = cq[host_head].cmd /\ fate[c] = "sent"
  BY <1>1, NewSent
<1>3. conf' = conf /\ lat' = lat /\ sq' = sq /\ dbs' = dbs /\ UNCHANGED dbVars /\ fate' = [fate EXCEPT ![c] = "idle"]
  BY <1>2 DEF TakeCqe
<1>4. None \notin Cmds
  BY Constants DEF SideType, PassBasics
<1>5. \A q \in Queues : Pos(q)' = Pos(q)
  BY <1>3, PosSame DEF dbVars
<1>6. \A q \in Queues : Waiting(q)' = Waiting(q)
  BY <1>3, <1>5 DEF Waiting
<1>7. Reading'
  BY <1>3, <1>5, <1>6, ReadingSame DEF dbVars
<1>8. Asked' = Asked /\ Listed' = Listed
  BY <1>3, <1>6, AskedSame, CarriesHost DEF HandlerStep
<1>9. fate'[c] = "idle" /\ \A d \in Cmds : d # c => fate'[d] = fate[d]
  BY <1>3 DEF SideType, HostType
<1>10. Settled(Asked, Listed, Answered', fate')
  BY <1>1, <1>2, <1>4, <1>9, AnsweredDropped DEF Places
<1>11. Settled(Asked, Listed, Answered, fate)'
  BY <1>3, <1>8, <1>10, SettledNext
<1>12. Named'
  <2>1. \A p \in Queues : \A j \in Waiting(p)' : sq'[p][j] \in Cmds
    BY <1>3, <1>6 DEF Places, Named
  <2>2. \A j \in New' : cq'[j].cmd \in Cmds
    BY <1>1 DEF Places, Named
  <2>3. \A d \in Cmds : fate'[d] # "idle" => d \in conf'.cmds
    BY <1>3, <1>9 DEF Places, Named
  <2>4. QED
    BY <2>1, <2>2, <2>3 DEF Named
<1>13. QED
  BY <1>1, <1>2, <1>7, <1>11, <1>12 DEF Places

\* A command leaves its queue: answered at once, given up or put on a list.
LEMMA CoreMoves ==
  ASSUME Core, NEW a \in Actors, FastIo(a) \/ Refused(a) \/ EnqueueCmd(a)
  PROVE  Reading' /\ Places' /\ Phases'
<1> USE DEF Core
<1>1. /\ apc[a] \in {"cmd", "internal", "enqueue"} /\ (apc[a] = "cmd" => at[a] # anew[a])
      /\ conf' = conf /\ sq' = sq /\ host_head' = host_head /\ host_phase' = host_phase
  BY DEF FastIo, Refused, EnqueueCmd, hostVars
<1>2. PICK q \in Queues :
           /\ q = aq[a] /\ at[a] # anew[a] /\ at[a] \in Waiting(q) /\ at[a] \in SqSlots /\ Reads(a, q)
           /\ Fetched(a) = sq[q][at[a]] /\ Fetched(a) \in conf.cmds /\ Fetched(a) \in Cmds /\ Fetched(a) # None
           /\ fate[Fetched(a)] = "sent"
           /\ \A i \in New : cq[i].cmd # Fetched(a)
  BY <1>1, FetchedSent
<1>3. PICK c \in Cmds : c = Fetched(a)
  BY <1>2
<1>4. Reading' /\ Waiting(q)' = Waiting(q) \ {at[a]} /\ \A p \in Queues \ {q} : Waiting(p)' = Waiting(p)
  BY <1>2, ReadingMoves
<1>5. Turns(Queues, SqSlots, Asked, Asked', q, at[a], c, None)
  BY <1>1, <1>2, <1>3, <1>4, AskedLess
<1>6. None \notin Cmds
  BY Constants DEF SideType, PassBasics
<1>7. \A p \in Queues : \A j \in Waiting(p)' : sq'[p][j] \in Cmds
  BY <1>1, <1>4 DEF Places, Named
<1>8. CASE FastIo(a)
  <2>1. PostCqe(c) /\ fate' = fate
    BY <1>3, <1>8 DEF FastIo, hostVars
  <2>2. /\ New' = New \cup {cq_head} /\ cq'[cq_head].cmd = c /\ \A i \in New : cq'[i].cmd = cq[i].cmd
        /\ Turns1(CqSlots, Answered, Answered', cq_head, None, c)
        /\ Phases'
    BY <1>1, <1>2, <1>3, <2>1, PostNew
  <2>3. Listed' = Listed
    BY <1>8, CarriesHost
  <2>4. Settled(Asked', Listed, Answered', fate)
    BY <1>5, <1>6, <2>2, AskedToAnswered DEF Places
  <2>5. Settled(Asked, Listed, Answered, fate)'
    BY <1>1, <2>1, <2>3, <2>4, SettledNext
  <2>6. Named'
    <3>1. \A j \in New' : cq'[j].cmd \in Cmds
      BY <2>2 DEF Places, Named
    <3>2. QED
      BY <1>1, <1>7, <2>1, <3>1 DEF Places, Named
  <2>7. QED
    BY <1>4, <2>2, <2>5, <2>6 DEF Places
<1>9. CASE Refused(a) \/ (EnqueueCmd(a) /\ ListFull(WorkerOf(aq[a])))
  <2>1. UNCHANGED <<cq, cq_head, cq_phase, host_head, host_phase>>
        /\ \E s \in {"refused", "lost"} : fate' = [fate EXCEPT ![c] = s]
    BY <1>3, <1>9 DEF Refused, EnqueueCmd, cqVars
  <2>2. Phases' /\ New' = New /\ Answered' = Answered
    BY <2>1, PhasesSame
  <2>3. Listed' = Listed
    BY <1>9, CarriesHost
  <2>4. fate'[c] # "sent" /\ \A d \in Cmds : d # c => fate'[d] = fate[d]
    BY <2>1 DEF SideType, HostType
  <2>5. Settled(Asked', Listed, Answered, fate')
    BY <1>5, <1>6, <2>4, AskedDropped DEF Places
  <2>6. Settled(Asked, Listed, Answered, fate)'
    BY <1>1, <2>2, <2>3, <2>5, SettledNext
  <2>7. Named'
    <3>1. \A j \in New' : cq'[j].cmd \in Cmds
      BY <2>1, <2>2 DEF Places, Named
    <3>2. \A d \in Cmds : fate'[d] # "idle" => d \in conf'.cmds
      BY <1>1, <1>2, <1>3, <2>4 DEF Places, Named
    <3>3. QED
      BY <1>7, <3>1, <3>2 DEF Named
  <2>8. QED
    BY <1>4, <2>2, <2>6, <2>7 DEF Places
<1>10. CASE EnqueueCmd(a) /\ ~ListFull(WorkerOf(aq[a]))
  <2>1. UNCHANGED <<cq, cq_head, cq_phase, host_head, host_phase>> /\ fate' = fate
    BY <1>10 DEF EnqueueCmd, cqVars
  <2>2. Phases' /\ New' = New /\ Answered' = Answered
    BY <2>1, PhasesSame
  <2>3. PICK w \in Workers, f \in Entries : Turns(Workers, Entries, Listed, Listed', w, f, None, c)
    BY <1>3, <1>10, CarriesEnqueued
  <2>4. Settled(Asked', Listed', Answered, fate)
    BY <1>5, <1>6, <2>3, AskedToListed DEF Places
  <2>5. Settled(Asked, Listed, Answered, fate)'
    BY <1>1, <2>1, <2>2, <2>4, SettledNext
  <2>6. Named'
    BY <1>1, <1>7, <2>1, <2>2 DEF Places, Named
  <2>7. QED
    BY <1>4, <2>2, <2>5, <2>6 DEF Places
<1>11. QED
  BY <1>8, <1>9, <1>10

\* A worker answers a command.
LEMMA CoreComplete ==
  ASSUME Steady, Core, NEW w \in Workers, Complete(w)
  PROVE  Reading' /\ Places' /\ Phases'
<1> USE DEF Core
<1>1. conf' = conf /\ lat' = lat /\ sq' = sq /\ dbs' = dbs /\ UNCHANGED dbVars /\ fate' = fate
      /\ host_head' = host_head /\ host_phase' = host_phase
  BY DEF Complete, hostVars
<1>2. \A q \in Queues : Pos(q)' = Pos(q)
  BY <1>1, PosSame DEF dbVars
<1>3. \A q \in Queues : Waiting(q)' = Waiting(q)
  BY <1>1, <1>2 DEF Waiting
<1>4. Reading'
  BY <1>1, <1>2, <1>3, ReadingSame DEF dbVars
<1>5. CASE At(w).op = Internal
  <2>1. UNCHANGED cqVars
    BY <1>5 DEF Complete
  <2>2. Listed' = Listed
    BY <1>5, CarriesCompleted
  <2>3. QED
    BY <1>1, <1>3, <1>4, <2>1, <2>2, CoreSame DEF cqVars
<1>6. CASE At(w).op # Internal
  <2>1. PICK c \in Cmds : c = At(w).op
    BY <1>6, CarriesCompleted
  <2>2. PICK f \in Entries : Turns(Workers, Entries, Listed, Listed', w, f, c, None)
    BY <1>6, <2>1, CarriesCompleted
  <2>3. PostCqe(c)
    BY <1>6, <2>1 DEF Complete
  <2>4. None \notin Cmds
    BY Constants DEF SideType, PassBasics
  <2>5. Listed[w][f] = c /\ c # None
    BY <2>2, <2>4 DEF Turns
  <2>6. fate[c] = "sent"
    BY <2>5 DEF Places, Settled, Sent
  <2>7. c \in conf.cmds
    BY <2>6 DEF Places, Named
  <2>8. ASSUME NEW i \in New PROVE cq[i].cmd # c
    <3>1. i \in CqSlots /\ Answered[i] = cq[i].cmd
      BY NewSent
    <3>2. QED
      BY <2>5, <3>1 DEF Places, Settled, Apart
  <2>9. /\ New' = New \cup {cq_head} /\ cq'[cq_head].cmd = c /\ \A i \in New : cq'[i].cmd = cq[i].cmd
        /\ Turns1(CqSlots, Answered, Answered', cq_head, None, c)
        /\ Phases'
    BY <1>1, <2>3, <2>7, <2>8, PostNew
  <2>10. Asked' = Asked
    BY <1>1, <1>3, AskedSame
  <2>11. Settled(Asked, Listed', Answered', fate)
    BY <2>2, <2>4, <2>9, ListedToAnswered DEF Places
  <2>12. Settled(Asked, Listed, Answered, fate)'
    BY <1>1, <2>10, <2>11, SettledNext
  <2>13. Named'
    <3>1. \A p \in Queues : \A j \in Waiting(p)' : sq'[p][j] \in Cmds
      BY <1>1, <1>3 DEF Places, Named
    <3>2. \A j \in New' : cq'[j].cmd \in Cmds
      BY <2>9 DEF Places, Named
    <3>3. QED
      BY <1>1, <3>1, <3>2 DEF Places, Named
  <2>14. QED
    BY <1>4, <2>9, <2>12, <2>13 DEF Places
<1>7. QED
  BY <1>5, <1>6

\* Whatever the step: no command is lost from sight, and none is in two places.
LEMMA CoreStep ==
  ASSUME Steady, Core, [Next]_vars
  PROVE  Reading' /\ Places' /\ Phases'
<1>1. SideType /\ AtHand /\ Roles /\ Reading
  BY DEF Core
<1>2. CASE \E c \in conf.cmds : Submit(c)
  BY <1>2, CoreSubmit
<1>3. CASE TakeCqe
  BY <1>3, CoreTake
<1>4. CASE \E a \in Actors : FastIo(a) \/ Refused(a) \/ EnqueueCmd(a)
  BY <1>4, CoreMoves
<1>5. CASE \E w \in Workers : Complete(w)
  BY <1>5, CoreComplete
<1>6. CASE \E a \in Actors : SeeDoorbell(a) \/ DoorbellDone(a) \/ AskFtl(a) \/ EnqueueInternal(a) \/ Reclaim(a)
  <2>1. PICK a \in Actors : SeeDoorbell(a) \/ DoorbellDone(a) \/ AskFtl(a) \/ EnqueueInternal(a) \/ Reclaim(a)
    BY <1>6
  <2>2. /\ conf' = conf /\ sq' = sq /\ dbs' = dbs /\ fate' = fate
        /\ UNCHANGED <<cq, cq_head, cq_phase, host_head, host_phase>>
    BY <2>1 DEF SeeDoorbell, DoorbellDone, AskFtl, EnqueueInternal, Reclaim, hostVars, cqVars
  <2>3. Reading'
    BY <1>1, <2>1, ReadingDoorbell
  <2>4. \A q \in Queues : Pos(q)' = Pos(q)
    BY <1>1, <2>1, PosDoorbell
  <2>5. \A q \in Queues : Waiting(q)' = Waiting(q)
    BY <2>2, <2>4 DEF Waiting
  <2>6. Listed' = Listed
    BY <1>1, <2>1, CarriesHost, CarriesInternal
  <2>7. QED
    BY <2>2, <2>3, <2>5, <2>6, CoreSame
<1>7. CASE TakeInterrupt \/ HandlerOver \/ SwitchPath \/ Tick \/ UNCHANGED vars
           \/ \E w \in Workers : \/ StartPass(w) \/ Skip(w) \/ Look(w) \/ NotYet(w) \/ Mark(w)
                                 \/ PassOver(w) \/ Signal(w)
  <2>1. /\ conf' = conf /\ sq' = sq /\ dbs' = dbs /\ fate' = fate
        /\ UNCHANGED <<cq, cq_head, cq_phase, host_head, host_phase>> /\ UNCHANGED dbVars
    BY <1>7 DEF TakeInterrupt, HandlerOver, SwitchPath, Tick, StartPass, Skip, Look, NotYet, Mark, PassOver, Signal,
                hostVars, cqVars, vars
  <2>2. \A q \in Queues : Pos(q)' = Pos(q)
    <3>1. CASE SwitchPath
      BY <1>1, <3>1, PosSwitch
    <3>2. CASE ~SwitchPath
      <4>1. lat' = lat
        BY <1>7, <3>2 DEF TakeInterrupt, HandlerOver, Tick, StartPass, Skip, Look, NotYet, Mark, PassOver, Signal, vars
      <4>2. QED
        BY <1>1, <2>1, <4>1, PosSame DEF dbVars
    <3>3. QED
      BY <3>1, <3>2
  <2>3. \A q \in Queues : Waiting(q)' = Waiting(q)
    BY <2>1, <2>2 DEF Waiting
  <2>4. Reading'
    BY <1>1, <2>1, <2>2, <2>3, ReadingSame DEF dbVars
  <2>5. Listed' = Listed
    BY <1>1, <1>7, CarriesHost, CarriesPass, CarriesTick DEF HandlerStep
  <2>6. QED
    BY <2>1, <2>3, <2>4, <2>5, CoreSame
<1>8. QED
  BY <1>2, <1>3, <1>4, <1>5, <1>6, <1>7 DEF Next, HandlerStep, DoorbellStep, PassStep

-----------------------------------------------------------------------------
(* Lost buffer space                                                       *)

\* Only the dispatcher can be half way through a write that is lost.
LEMMA HalfIs ==
  SideType /\ Roles => Cardinality(Half) = IF HalfLost(Dispatcher) THEN 1 ELSE 0
<1> SUFFICES ASSUME SideType, Roles PROVE Cardinality(Half) = IF HalfLost(Dispatcher) THEN 1 ELSE 0
  OBVIOUS
<1>1. conf \in Configs /\ lat \in BOOLEAN /\ Actors = Workers \cup {Dispatcher} /\ Dispatcher \notin Workers
  BY Constants DEF SideType, HostType
<1>2. \A a \in Actors : HalfLost(a) => a = Dispatcher
  BY <1>1 DEF Roles, HalfLost
<1>3. CASE HalfLost(Dispatcher)
  <2>1. Half = {Dispatcher}
    BY <1>1, <1>2, <1>3 DEF Half
  <2>2. QED
    BY <1>3, <2>1, FS_Singleton
<1>4. CASE ~HalfLost(Dispatcher)
  <2>1. Half = {}
    BY <1>2, <1>4 DEF Half
  <2>2. QED
    BY <1>4, <2>1, FS_EmptySet
<1>5. QED
  BY <1>3, <1>4

\* A write lost stays lost.
LEMMA LostGrows ==
  ASSUME conf \in Configs, \A c \in Cmds : fate[c] = "lost" => fate'[c] = "lost"
  PROVE  /\ Cardinality(LostWrites) \in Nat /\ Cardinality(LostWrites') \in Nat
         /\ Cardinality(LostWrites) <= Cardinality(LostWrites')
         /\ \A c \in Writes : fate[c] # "lost" /\ fate'[c] = "lost" => Cardinality(LostWrites) + 1 <= Cardinality(LostWrites')
<1>1. Writes \subseteq Cmds /\ IsFiniteSet(Writes)
  BY Constants
<1>2. LostWrites \subseteq Writes /\ LostWrites' \subseteq Writes
  BY DEF LostWrites
<1>3. IsFiniteSet(LostWrites) /\ IsFiniteSet(LostWrites')
  BY <1>1, <1>2, FS_Subset
<1>4. Cardinality(LostWrites) \in Nat /\ Cardinality(LostWrites') \in Nat
  BY <1>3, FS_CardinalityType
<1>5. LostWrites \subseteq LostWrites'
  BY <1>1 DEF LostWrites
<1>6. Cardinality(LostWrites) <= Cardinality(LostWrites')
  BY <1>3, <1>5, FS_Subset
<1>7. ASSUME NEW c \in Writes, fate[c] # "lost", fate'[c] = "lost"
      PROVE  Cardinality(LostWrites) + 1 <= Cardinality(LostWrites')
  <2>1. c \notin LostWrites /\ LostWrites \cup {c} \subseteq LostWrites'
    BY <1>5, <1>7 DEF LostWrites
  <2>2. Cardinality(LostWrites \cup {c}) = Cardinality(LostWrites) + 1
    BY <1>3, <2>1, OneMore
  <2>3. Cardinality(LostWrites \cup {c}) <= Cardinality(LostWrites')
    BY <1>3, <2>1, FS_Subset
  <2>4. QED
    BY <2>2, <2>3
<1>8. QED
  BY <1>4, <1>6, <1>7

\* What became of commands: those lost stay lost, and no other gets lost but by EnqueueCmd.
LEMMA LostStep ==
  ASSUME Core, [Next]_vars, NEW c \in Cmds, fate[c] = "lost"
  PROVE  fate'[c] = "lost"
<1> USE DEF Core
<1>1. CASE \E d \in conf.cmds : Submit(d)
  BY <1>1 DEF Submit, SideType, HostType
<1>2. CASE TakeCqe
  <2>1. fate[cq[host_head].cmd] = "sent"
    BY <1>2, CoreTake
  <2>2. QED
    BY <1>2, <2>1 DEF TakeCqe, SideType, HostType
<1>3. ASSUME NEW a \in Actors, Refused(a) \/ EnqueueCmd(a) PROVE fate'[c] = "lost"
  <2>1. apc[a] \in {"cmd", "internal", "enqueue"} /\ (apc[a] = "cmd" => at[a] # anew[a])
    BY <1>3 DEF Refused, EnqueueCmd
  <2>2. fate[Fetched(a)] = "sent"
    BY <2>1, FetchedSent
  <2>3. fate' = fate \/ \E s : fate' = [fate EXCEPT ![Fetched(a)] = s]
    BY <1>3 DEF Refused, EnqueueCmd
  <2>4. QED
    BY <2>2, <2>3 DEF SideType, HostType
<1>4. CASE \/ TakeInterrupt \/ HandlerOver \/ SwitchPath \/ Tick \/ UNCHANGED vars
           \/ \E a \in Actors : \/ SeeDoorbell(a) \/ DoorbellDone(a) \/ FastIo(a) \/ AskFtl(a) \/ EnqueueInternal(a)
                                \/ Reclaim(a)
           \/ \E w \in Workers : PassStep(w)
  <2>1. fate' = fate
    BY <1>4 DEF TakeInterrupt, HandlerOver, SwitchPath, Tick, vars, hostVars, SeeDoorbell, DoorbellDone, FastIo, AskFtl,
                EnqueueInternal, Reclaim, PassStep, StartPass, Skip, Look, NotYet, Complete, Mark, PassOver, Signal
  <2>2. QED
    BY <2>1
<1>5. QED
  BY <1>1, <1>2, <1>3, <1>4 DEF Next, HandlerStep, DoorbellStep

\* Steps that leave buffer space and lists alone.
LEMMA OnlySame ==
  ASSUME Core, SideType', Roles', OnlyWithWrites, [Next]_vars, BufSize \in Nat, Space \in Int, Space' = Space,
         HalfLost(Dispatcher) => HalfLost(Dispatcher)'
  PROVE  OnlyWithWrites'
<1>1. Cardinality(Half) = IF HalfLost(Dispatcher) THEN 1 ELSE 0
  BY HalfIs DEF Core
<1>2. (SideType /\ Roles => Cardinality(Half) = IF HalfLost(Dispatcher) THEN 1 ELSE 0)'
  BY HalfIs, PTL
<1>3. Cardinality(Half') = IF HalfLost(Dispatcher)' THEN 1 ELSE 0
  BY <1>2
<1>4. Cardinality(LostWrites) \in Nat /\ Cardinality(LostWrites') \in Nat
      /\ Cardinality(LostWrites) <= Cardinality(LostWrites')
  BY LostStep, LostGrows DEF Core, SideType, PassBasics
<1>5. BufSize - Space <= Cardinality(LostWrites) + Cardinality(Half)
  BY DEF OnlyWithWrites
<1>6. Cardinality(Half) <= Cardinality(Half') /\ Cardinality(Half) \in Nat /\ Cardinality(Half') \in Nat
  BY <1>1, <1>3
<1>7. BufSize - Space' <= Cardinality(LostWrites') + Cardinality(Half')
  BY <1>4, <1>5, <1>6
<1>8. QED
  BY <1>7 DEF OnlyWithWrites

\* Enqueuing a release or a command; either may be lost on a full list.
LEMMA OnlyEnqueue ==
  ASSUME Core, SideType', Roles', OnlyWithWrites, BufSize \in Nat, buf \in Nat, Space \in Int,
         NEW a \in Actors, EnqueueInternal(a) \/ EnqueueCmd(a)
  PROVE  OnlyWithWrites'
<1> USE DEF Core
<1>1. conf' = conf /\ aq' = aq /\ at' = at /\ sq' = sq /\ conf \in Configs /\ apc[a] \in {"internal", "enqueue"}
      /\ Actors = Workers \cup {Dispatcher} /\ lat \in BOOLEAN
  BY Constants DEF EnqueueInternal, EnqueueCmd, SideType, HostType, hostVars
<1>2. a = Dispatcher
  BY <1>1 DEF Roles
<1>3. PICK q \in Queues :
           /\ q = aq[a] /\ Reads(a, q) /\ Fetched(a) = sq[q][at[a]] /\ Fetched(a) \in Cmds
           /\ fate[Fetched(a)] = "sent"
  BY <1>1, FetchedSent
<1>4. Space' = IF EnqueueInternal(a) /\ ListFull(WorkerOf(aq[a])) THEN Space - 1 ELSE Space
  BY <1>3, SpaceEnqueue
<1>5. [Next]_vars
  BY DEF Next, DoorbellStep
<1>6. CASE EnqueueInternal(a)
  <2>1. apc[a] = "internal" /\ apc' = [apc EXCEPT ![a] = "enqueue"]
    BY <1>6 DEF EnqueueInternal
  <2>2. ~HalfLost(Dispatcher)
    BY <1>2, <2>1 DEF HalfLost
  <2>3. CASE ListFull(WorkerOf(aq[a]))
    <3>1. UNCHANGED linkVars /\ fate' = fate
      BY <1>6, <2>3 DEF EnqueueInternal, hostVars
    <3>2. HalfLost(Dispatcher)'
      <4>1. apc'[Dispatcher] = "enqueue"
        BY <1>2, <2>1 DEF SideType, DoorbellType
      <4>2. Fetched(Dispatcher)' \in Writes
        <5>1. Fetched(Dispatcher)' = Fetched(Dispatcher)
          BY <1>1 DEF Fetched
        <5>2. Fetched(a) \in Writes
          BY <1>3, <2>1 DEF Reads
        <5>3. QED
          BY <1>2, <5>1, <5>2
      <4>3. ListFull(WorkerOf(aq[Dispatcher]))'
        BY <1>1, <1>2, <2>3, <3>1 DEF ListFull, WorkerOf, linkVars
      <4>4. QED
        BY <4>1, <4>2, <4>3 DEF HalfLost
    <3>3. Cardinality(Half) = 0
      BY <2>2, HalfIs
    <3>4. (SideType /\ Roles => Cardinality(Half) = IF HalfLost(Dispatcher) THEN 1 ELSE 0)'
      BY HalfIs, PTL
    <3>5. Cardinality(Half') = 1
      BY <3>2, <3>4
    <3>6. LostWrites' = LostWrites
      BY <3>1 DEF LostWrites
    <3>7. Cardinality(LostWrites) \in Nat
      BY <1>1, <3>1, LostGrows
    <3>8. BufSize - Space <= Cardinality(LostWrites) + Cardinality(Half)
      BY DEF OnlyWithWrites
    <3>9. BufSize - Space' <= Cardinality(LostWrites') + Cardinality(Half')
      BY <1>4, <1>6, <2>3, <3>3, <3>5, <3>6, <3>7, <3>8
    <3>10. QED
      BY <3>9 DEF OnlyWithWrites
  <2>4. CASE ~ListFull(WorkerOf(aq[a]))
    BY <1>4, <1>5, <2>2, <2>4, OnlySame
  <2>5. QED
    BY <2>3, <2>4
<1>7. CASE EnqueueCmd(a)
  <2>1. apc[a] = "enqueue" /\ apc' = [apc EXCEPT ![a] = "reclaim"] /\ ~EnqueueInternal(a)
    BY <1>7 DEF EnqueueCmd, EnqueueInternal
  <2>2. Space' = Space
    BY <1>4, <2>1
  <2>3. CASE HalfLost(Dispatcher)
    <3>1. ListFull(WorkerOf(aq[a])) /\ Fetched(a) \in Writes
      BY <1>2, <2>3 DEF HalfLost
    <3>2. fate' = [fate EXCEPT ![Fetched(a)] = "lost"]
      BY <1>7, <3>1 DEF EnqueueCmd
    <3>3. fate'[Fetched(a)] = "lost" /\ fate[Fetched(a)] # "lost"
      BY <1>3, <3>2 DEF SideType, HostType
    <3>4. Cardinality(LostWrites) + 1 <= Cardinality(LostWrites') /\ Cardinality(LostWrites) \in Nat
          /\ Cardinality(LostWrites') \in Nat
      <4>1. \A c \in Cmds : fate[c] = "lost" => fate'[c] = "lost"
        BY <1>5, LostStep
      <4>2. QED
        BY <1>1, <3>1, <3>3, <4>1, LostGrows
    <3>5. Cardinality(Half) = 1
      BY <2>3, HalfIs
    <3>6. (SideType /\ Roles => Cardinality(Half) = IF HalfLost(Dispatcher) THEN 1 ELSE 0)'
      BY HalfIs, PTL
    <3>7. Cardinality(Half') \in {0, 1}
      BY <3>6
    <3>8. BufSize - Space <= Cardinality(LostWrites) + Cardinality(Half)
      BY DEF OnlyWithWrites
    <3>9. BufSize - Space' <= Cardinality(LostWrites') + Cardinality(Half')
      BY <2>2, <3>4, <3>5, <3>7, <3>8
    <3>10. QED
      BY <3>9 DEF OnlyWithWrites
  <2>4. CASE ~HalfLost(Dispatcher)
    BY <1>5, <2>2, <2>4, OnlySame
  <2>5. QED
    BY <2>3, <2>4
<1>8. QED
  BY <1>6, <1>7

\* Buffer space that is lost went with a write that is lost, after every step.
LEMMA OnlyStep ==
  ASSUME Core, SideType', Roles', OnlyWithWrites, buf \in Nat, [Next]_vars
  PROVE  OnlyWithWrites'
<1>1. conf \in Configs /\ SideType /\ AtHand /\ Roles /\ lat \in BOOLEAN
  BY DEF Core, SideType, PassBasics, HostType
<1>2. Space \in Int /\ BufSize \in Nat
  BY <1>1, SpaceFinite, Constants DEF Space
<1>3. CASE \E a \in Actors : EnqueueInternal(a) \/ EnqueueCmd(a)
  BY <1>2, <1>3, OnlyEnqueue
<1>4. CASE \E a \in Actors : \/ SeeDoorbell(a) \/ DoorbellDone(a) \/ FastIo(a) \/ Refused(a) \/ Reclaim(a) \/ AskFtl(a)
  <2>1. PICK a \in Actors : \/ SeeDoorbell(a) \/ DoorbellDone(a) \/ FastIo(a) \/ Refused(a) \/ Reclaim(a) \/ AskFtl(a)
    BY <1>4
  <2>2. Space' = Space
    BY <1>1, <2>1, SpaceHost, SpaceAsk
  <2>3. ~HalfLost(Dispatcher)
    <3>1. apc[a] # "enqueue"
      BY <2>1 DEF SeeDoorbell, DoorbellDone, FastIo, Refused, Reclaim, AskFtl
    <3>2. Actors = Workers \cup {Dispatcher} /\ Dispatcher \notin Workers
      BY <1>1, Constants
    <3>3. CASE a = Dispatcher
      BY <3>1, <3>3 DEF HalfLost
    <3>4. CASE a # Dispatcher
      <4>1. lat
        <5>1. CASE SeeDoorbell(a)
          BY <3>4, <5>1 DEF SeeDoorbell, MayPoll
        <5>2. CASE ~SeeDoorbell(a)
          <6>1. apc[a] # "poll"
            BY <2>1, <5>2 DEF DoorbellDone, FastIo, Refused, Reclaim, AskFtl
          <6>2. QED
            BY <1>1, <3>2, <3>4, <6>1 DEF Roles
        <5>3. QED
          BY <5>1, <5>2
      <4>2. apc[Dispatcher] = "poll"
        BY <1>1, <4>1 DEF Roles
      <4>3. QED
        BY <4>2 DEF HalfLost
    <3>5. QED
      BY <3>3, <3>4
  <2>4. QED
    BY <1>2, <2>2, <2>3, OnlySame
<1>5. CASE \/ (\E c \in conf.cmds : Submit(c)) \/ HandlerStep \/ SwitchPath \/ Tick \/ UNCHANGED vars
           \/ \E w \in Workers : PassStep(w)
  <2>1. Space' = Space
    <3>1. CASE \E w \in Workers : PassStep(w)
      BY <1>1, <3>1, SpaceHost, SpacePass DEF PassStep
    <3>2. CASE (\E c \in conf.cmds : Submit(c)) \/ HandlerStep \/ SwitchPath
      BY <1>1, <3>2, SpaceHost
    <3>3. CASE Tick
      BY <1>1, <3>3, SpaceTick
    <3>4. CASE UNCHANGED vars
      BY <1>1, <3>4, StutterSide
    <3>5. QED
      BY <1>5, <3>1, <3>2, <3>3, <3>4
  <2>2. conf' = conf /\ UNCHANGED linkVars /\ UNCHANGED dbVars
    BY <1>5 DEF Submit, HandlerStep, TakeInterrupt, TakeCqe, HandlerOver, SwitchPath, Tick, vars, PassStep, StartPass,
                Skip, Look, NotYet, Complete, Mark, PassOver, Signal
  <2>3. ASSUME HalfLost(Dispatcher) PROVE HalfLost(Dispatcher)'
    <3>1. Dispatcher \in Actors /\ apc[Dispatcher] = "enqueue"
      BY <1>1, <2>3, Constants DEF HalfLost
    <3>2. PICK q \in Queues : q = aq[Dispatcher] /\ at[Dispatcher] \in Waiting(q) /\ at[Dispatcher] \in SqSlots
      BY <3>1, FetchedSent
    <3>3. sq'[q][at[Dispatcher]] = sq[q][at[Dispatcher]]
      <4>1. CASE \E c \in conf.cmds : Submit(c)
        BY <3>2, <4>1, SubmitWaiting DEF Core
      <4>2. CASE ~\E c \in conf.cmds : Submit(c)
        <5>1. sq' = sq
          BY <1>5, <4>2 DEF HandlerStep, TakeInterrupt, TakeCqe, HandlerOver, SwitchPath, Tick, vars, PassStep, StartPass,
                            Skip, Look, NotYet, Complete, Mark, PassOver, Signal, hostVars
        <5>2. QED
          BY <5>1
      <4>3. QED
        BY <4>1, <4>2
    <3>4. Fetched(Dispatcher)' = Fetched(Dispatcher)
      BY <2>2, <3>2, <3>3 DEF Fetched, dbVars
    <3>5. ListFull(WorkerOf(aq[Dispatcher]))' <=> ListFull(WorkerOf(aq[Dispatcher]))
      BY <2>2 DEF ListFull, WorkerOf, linkVars, dbVars
    <3>6. QED
      BY <2>2, <2>3, <3>4, <3>5 DEF HalfLost, dbVars
  <2>4. QED
    BY <1>2, <2>1, <2>3, OnlySame
<1>6. QED
  BY <1>3, <1>4, <1>5 DEF Next, DoorbellStep

-----------------------------------------------------------------------------
(* The invariant                                                           *)

\* The second part holds at the start.
LEMMA Inv2Init ==
  Init => Inv2
<1> SUFFICES ASSUME Init PROVE Inv2
  OBVIOUS
<1>1. SideType /\ AtHand /\ Space = BufSize /\ BufSize \in Nat /\ conf \in Configs
  BY InitSide DEF SideType, PassBasics
<1>2. None \notin Cmds /\ CqSize \in Nat \ {0} /\ SqSize \in Nat \ {0}
  BY <1>1, Constants
<1>3. \A a \in Actors : apc[a] = "poll"
  BY DEF Init
<1>4. Roles
  <2>1. Dispatcher \in Actors /\ Workers \subseteq Actors /\ \A w \in Workers : wpc[w] = "top"
    BY <1>1, Constants DEF Init
  <2>2. QED
    BY <1>3, <2>1 DEF Roles
<1>5. Reading
  BY <1>3 DEF Reading
<1>6. \A q \in Queues : Waiting(q) = {}
  <2>1. ASSUME NEW q \in Queues PROVE Waiting(q) = {}
    <3>1. Owner(q) \in Actors
      BY <1>1, OwnerIs
    <3>2. Pos(q) = 0 /\ dbs[q] = 0
      BY <1>3, <3>1 DEF Pos, Busy, Init
    <3>3. QED
      BY <1>2, <3>2, Stretch DEF Waiting
  <2>2. QED
    BY <2>1
<1>7. New = {} /\ cq_head = 0 /\ host_head = 0 /\ cq_phase = 1 /\ host_phase = 1
      /\ \A i \in CqSlots : cq[i].phase = 0
  <2>1. cq_head = 0 /\ host_head = 0 /\ cq_phase = 1 /\ host_phase = 1 /\ \A i \in CqSlots : cq[i] = NoCqe
    BY DEF Init, CqSlots
  <2>2. QED
    BY <1>2, <2>1, Stretch DEF New, NoCqe
<1>8. Places
  <2>1. \A q \in Queues, i \in SqSlots : Asked[q][i] = None
    BY <1>6, AskedIs
  <2>2. \A w \in Workers, e \in Entries : Listed[w][e] = None
    <3>1. \A w \in Workers, e \in Entries : work[w][e].op = None
      BY DEF Init, Blank
    <3>2. QED
      BY <3>1, ListedIs DEF Carries
  <2>3. \A i \in CqSlots : Answered[i] = None
    BY <1>7, AnsweredIs
  <2>4. \A c \in Cmds : fate[c] = "idle"
    BY DEF Init
  <2>5. Apart(Queues, SqSlots, Workers, Entries, CqSlots, Asked, Listed, Answered)
    BY <2>1, <2>2, <2>3 DEF Apart
  <2>6. Sent(Queues, SqSlots, Workers, Entries, CqSlots, Asked, Listed, Answered, fate)
    BY <1>2, <2>1, <2>2, <2>3, <2>4 DEF Sent
  <2>7. Named
    BY <1>6, <1>7, <2>4 DEF Named
  <2>8. QED
    BY <2>5, <2>6, <2>7 DEF Places, Settled
<1>9. Phases
  <2>1. \A i \in CqSlots : i >= 0
    BY DEF CqSlots
  <2>2. QED
    BY <1>7, <2>1 DEF Phases
<1>10. OnlyWithWrites
  <2>1. \A c \in Cmds : fate[c] = "idle"
    BY DEF Init
  <2>2. Writes \subseteq Cmds
    BY <1>1, Constants
  <2>3. LostWrites = {}
    BY <2>1, <2>2 DEF LostWrites
  <2>4. Half = {}
    BY <1>3 DEF Half, HalfLost
  <2>5. QED
    BY <1>1, <2>3, <2>4, FS_EmptySet DEF OnlyWithWrites
<1>11. QED
  BY <1>4, <1>5, <1>8, <1>9, <1>10 DEF Inv2

\* The invariant holds at the start, and after every step.
LEMMA IInvInit == Init => IInv
BY Inv1Init, Inv2Init DEF IInv

\* Each part is kept with the help of the others.
LEMMA IInvStep == IInv /\ [Next]_vars => IInv'
<1> SUFFICES ASSUME IInv, [Next]_vars PROVE IInv'
  OBVIOUS
<1>1. SideType /\ AtHand /\ buf \in 0 .. BufSize
  BY TypeParts DEF IInv, Inv1
<1>2. Steady => Core
  BY <1>1 DEF IInv, Inv2, Core
<1>3. \A a \in Actors : Steady /\ apc[a] = "enqueue" => Fetched(a) # None
  BY <1>2, FetchedSent
<1>4. Inv1'
  BY <1>3, Inv1Step DEF IInv
<1>5. ASSUME Steady PROVE Inv2'
  <2>1. (TypeOK /\ ListsAre <=> SideType /\ buf \in 0 .. BufSize)'
    BY TypeParts, PTL
  <2>2. SideType'
    BY <1>4, <2>1 DEF Inv1
  <2>3. Roles'
    BY <1>2, <1>5, RolesStep DEF Core
  <2>4. Reading' /\ Places' /\ Phases'
    BY <1>2, <1>5, CoreStep
  <2>5. OnlyWithWrites'
    <3>1. buf \in Nat
      BY <1>1
    <3>2. OnlyWithWrites
      BY <1>5 DEF IInv, Inv2
    <3>3. QED
      BY <1>2, <1>5, <2>2, <2>3, <3>1, <3>2, OnlyStep
  <2>6. QED
    BY <2>3, <2>4, <2>5 DEF Inv2
<1>6. QED
  BY <1>4, <1>5 DEF IInv

\* So it always holds.
LEMMA IInvHolds == Spec => []IInv
BY IInvInit, IInvStep, PTL DEF Spec

-----------------------------------------------------------------------------
(* The theorems                                                            *)

\* While the dispatcher alone enqueues, every variable keeps its type: no index leaves its
\* ring, no link its list (io.c).
THEOREM IoTypeCorrect == Steady => (Spec => []TypeOK)
<1>1. IInv => TypeOK
  BY DEF IInv, Inv1
<1>2. QED
  BY <1>1, IInvHolds, PTL

\* What the order of a worker's entries says of its two lists.
LEMMA ListsRead ==
  ASSUME PassBasics, NEW w \in Workers
  PROVE  /\ Live(w) \cap Free(w) = {} /\ Live(w) \cup Free(w) = Entries
         /\ next[w][free_seq_end[w]] = Nil /\ free_seq_end[w] \in Free(w)
         /\ io_seq[w] # Nil => io_seq_end[w] \in Live(w) /\ next[w][io_seq_end[w]] = Nil
         /\ \A e \in Live(w) : prev[w][e] = Nil <=> e = io_seq[w]
         /\ \A e \in Live(w) : next[w][e] # Nil => prev[w][next[w][e]] = e
         /\ curr[w] # Nil => curr[w] \in Live(w) \/ At(w).completed
<1>1. PICK s \in [Entries -> Entries], m \in Entries : ListAt(w, s, m)
  BY DEF PassBasics, ListsAre, ListAt
<1>2. PICK N \in Nat \ {0} :
           /\ N = conf.entries /\ Entries = 0 .. N - 1 /\ m \in 0 .. N - 1 /\ Nil \notin Entries
           /\ Order(N, s) /\ Linked(N, s, m, next[w], prev[w])
           /\ Ends(N, s, m, io_seq[w], io_seq_end[w], free_seq[w], free_seq_end[w])
           /\ Loaded(N, s, m, work[w]) /\ Standing(N, s, m, work[w], wpc[w], curr[w])
           /\ \A i \in 0 .. N - 1 : s[i] \in Entries
  BY <1>1, Standpoint
<1>3. Live(w) = {s[i] : i \in 0 .. m - 1} /\ Free(w) = {s[i] : i \in m .. N - 1}
  <2>1. conf \in Configs /\ LinkType
    BY DEF PassBasics
  <2>2. Live(w) = {s[i] : i \in 0 .. m - 1} /\ Free(w) = {s[i] : i \in m .. conf.entries - 1}
    BY <1>1, <2>1, ListRead
  <2>3. m .. conf.entries - 1 = m .. N - 1
    BY <1>2
  <2>4. QED
    BY <2>2, <2>3
<1>4. Live(w) \cap Free(w) = {}
  <2>1. ASSUME NEW i \in 0 .. m - 1, NEW j \in m .. N - 1 PROVE s[i] # s[j]
    <3>1. i \in 0 .. N - 1 /\ j \in 0 .. N - 1 /\ i # j
      BY <1>2
    <3>2. QED
      BY <1>2, <3>1 DEF Order
  <2>2. QED
    BY <1>3, <2>1
<1>5. Live(w) \cup Free(w) = Entries
  <2>1. ASSUME NEW e \in Entries PROVE e \in Live(w) \cup Free(w)
    <3>1. PICK i \in 0 .. N - 1 : s[i] = e
      BY <1>2 DEF Order
    <3>2. i \in 0 .. m - 1 \/ i \in m .. N - 1
      BY <1>2
    <3>3. QED
      BY <1>3, <3>1, <3>2
  <2>2. ASSUME NEW e \in Live(w) \cup Free(w) PROVE e \in Entries
    <3>1. PICK i \in 0 .. N - 1 : s[i] = e
      BY <1>2, <1>3
    <3>2. QED
      BY <1>2, <3>1
  <2>3. QED
    BY <2>1, <2>2
<1>6. next[w][free_seq_end[w]] = Nil /\ free_seq_end[w] \in Free(w)
  <2>1. free_seq_end[w] = s[N - 1] /\ N - 1 \in 0 .. N - 1 /\ N - 1 \in m .. N - 1
    BY <1>2 DEF Ends
  <2>2. next[w][s[N - 1]] = Nil
    BY <1>2, <2>1 DEF Linked
  <2>3. QED
    BY <1>3, <2>1, <2>2
<1>7. ASSUME io_seq[w] # Nil PROVE io_seq_end[w] \in Live(w) /\ next[w][io_seq_end[w]] = Nil
  <2>1. m > 0 /\ io_seq_end[w] = s[m - 1] /\ m - 1 \in 0 .. m - 1 /\ m - 1 \in 0 .. N - 1
    BY <1>2, <1>7 DEF Ends
  <2>2. next[w][s[m - 1]] = Nil
    BY <1>2, <2>1 DEF Linked
  <2>3. QED
    BY <1>3, <2>1, <2>2
<1>8. ASSUME NEW e \in Live(w)
      PROVE  (prev[w][e] = Nil <=> e = io_seq[w]) /\ (next[w][e] # Nil => prev[w][next[w][e]] = e)
  <2>1. PICK i \in 0 .. m - 1 : e = s[i]
    BY <1>3
  <2>2. i \in 0 .. N - 1 /\ 0 \in 0 .. N - 1 /\ m > 0 /\ io_seq[w] = s[0]
    BY <1>2 DEF Ends
  <2>3. prev[w][s[i]] = IF i = 0 THEN Nil ELSE s[i - 1]
    BY <1>2 DEF Linked
  <2>4. s[i] = s[0] <=> i = 0
    BY <1>2, <2>2 DEF Order
  <2>5. i # 0 => s[i - 1] # Nil
    <3>1. i # 0 => i - 1 \in 0 .. N - 1
      BY <2>2
    <3>2. QED
      BY <1>2, <3>1
  <2>6. next[w][s[i]] = IF i = m - 1 \/ i = N - 1 THEN Nil ELSE s[i + 1]
    BY <1>2, <2>2 DEF Linked
  <2>7. i # m - 1 => prev[w][s[i + 1]] = s[i]
    <3>1. i # m - 1 => i + 1 \in 0 .. m - 1 /\ i + 1 # 0 /\ (i + 1) - 1 = i
      BY <1>2
    <3>2. QED
      BY <1>2, <3>1 DEF Linked
  <2>8. QED
    BY <2>1, <2>2, <2>3, <2>4, <2>5, <2>6, <2>7
<1>9. ASSUME curr[w] # Nil PROVE curr[w] \in Live(w) \/ At(w).completed
  <2>1. wpc[w] \in {"look", "copied", "mark"}
    BY <1>2, <1>9 DEF Standing, PassBasics, WalkType
  <2>2. CASE wpc[w] \in {"copied", "mark"}
    <3>1. PICK i \in 0 .. m - 1 : curr[w] = s[i]
      BY <1>2, <2>2 DEF Standing
    <3>2. QED
      BY <1>3, <3>1
  <2>3. CASE wpc[w] = "look"
    <3>1. PICK i \in 0 .. N - 1 : curr[w] = s[i] /\ (i < m \/ \A j \in i .. N - 1 : work[w][s[j]].completed)
      BY <1>2, <1>9, <2>3 DEF Standing
    <3>2. CASE i < m
      <4>1. i \in 0 .. m - 1
        BY <1>2, <3>1, <3>2
      <4>2. QED
        BY <1>3, <3>1, <4>1
    <3>3. CASE ~(i < m)
      <4>1. i \in i .. N - 1
        OBVIOUS
      <4>2. QED
        BY <3>1, <3>3, <4>1 DEF At
    <3>4. QED
      BY <3>2, <3>3
  <2>4. QED
    BY <2>1, <2>2, <2>3
<1>10. QED
  BY <1>4, <1>5, <1>6, <1>7, <1>8, <1>9

\* While the dispatcher alone enqueues, whatever the worker does in between, every entry of
\* a work list is on exactly one of the two lists, and the links agree in both directions
\* (__insert_req_sorted, __reclaim_completed_reqs).
THEOREM IoListsIntact == Steady => (Spec => []ListsIntact)
<1>1. IInv => ListsIntact
  <2>1. IInv => PassBasics
    BY TypeParts DEF IInv, Inv1, SideType
  <2>2. QED
    BY <2>1, ListsRead DEF ListsIntact
<1>2. QED
  BY <1>1, IInvHolds, PTL

\* While the dispatcher alone enqueues, a worker that follows the links without a lock is at
\* a live entry or at one completed, even when the entry it stands on is taken back and
\* handed out again (nvmev_io_worker, __allocate_work_queue_entry).
THEOREM IoNeverStrays == Steady => (Spec => []NeverStrays)
<1>1. IInv => NeverStrays
  <2>1. IInv => PassBasics
    BY TypeParts DEF IInv, Inv1, SideType
  <2>2. QED
    BY <2>1, ListsRead DEF NeverStrays
<1>2. QED
  BY <1>1, IInvHolds, PTL

\* Write-buffer space is released once for what a write took, and what is never released went
\* with a write that was lost on a full list (schedule_internal_operation, __enqueue_io_req).
THEOREM IoBufferKept == Steady => (Spec => []BufferKept)
<1> SUFFICES ASSUME Steady PROVE Spec => []BufferKept
  OBVIOUS
<1>1. IInv => BufferKept
  <2> SUFFICES ASSUME IInv PROVE BufferKept
    OBVIOUS
  <2>1. SideType /\ buf \in 0 .. BufSize /\ Space <= BufSize /\ OnlyWithWrites
    BY TypeParts DEF IInv, Inv1, Inv2, NoneTwice
  <2>2. conf \in Configs
    BY <2>1 DEF SideType, PassBasics
  <2>3. BufSize \in Nat /\ Cardinality(Unreleased) \in Nat /\ Cardinality(InternalActors) \in Nat /\ buf \in Nat
    BY <2>1, <2>2, Constants, SpaceFinite
  <2>4. BufSize - buf - Cardinality(Unreleased) - Cardinality(InternalActors) = BufSize - Space
    BY <2>3 DEF Space
  <2>5. BufSize - Space >= 0 /\ BufSize - Space <= Cardinality(LostWrites) + Cardinality(Half)
    BY <2>1, <2>3 DEF OnlyWithWrites, Space
  <2>6. QED
    BY <2>4, <2>5 DEF BufferKept, InternalActors, LostWrites, Half
<1>2. QED
  BY <1>1, IInvHolds, PTL

\* The stretch of the completion queue from the host's place to the next completion.
LEMMA UnreadIs ==
  ASSUME SideType
  PROVE  Unread = New
<1>1. PICK N \in Nat \ {0} : N = CqSize
  BY HeadSlots
<1>2. PICK h \in 0 .. N - 1 : h = host_head
  BY <1>1, HeadSlots
<1>3. PICK t \in 0 .. N - 1 : t = cq_head
  BY <1>1, HeadSlots
<1> DEFINE n == IF t >= h THEN t - h ELSE t - h + N
<1>4. n \in Int /\ n = IF t >= h THEN t - h ELSE t - h + N
  OBVIOUS
<1> HIDE DEF n
<1>5. (cq_head - host_head) % CqSize = n
  <2>1. (t - h) % N = IF t >= h THEN t - h ELSE t - h + N
    BY ModStep
  <2>2. QED
    BY <1>1, <1>2, <1>3, <1>4, <2>1
<1>6. \A k \in 0 .. n - 1 : (host_head + k) % CqSize = IF h + k < N THEN h + k ELSE h + k - N
  <2>1. ASSUME NEW k \in 0 .. n - 1 PROVE (h + k) % N = IF h + k < N THEN h + k ELSE h + k - N
    <3>1. k \in 0 .. N - 1
      BY <1>4
    <3>2. QED
      BY <3>1, ModStep
  <2>2. QED
    BY <1>1, <1>2, <2>1
<1>7. New = {i \in 0 .. N - 1 : IF h <= t THEN h <= i /\ i < t ELSE h <= i \/ i < t}
  BY <1>1, <1>2, <1>3 DEF New, Between
<1>8. ASSUME NEW i \in Unread PROVE i \in New
  <2>1. PICK k \in 0 .. n - 1 : i = (host_head + k) % CqSize
    BY <1>5 DEF Unread
  <2>2. i = IF h + k < N THEN h + k ELSE h + k - N
    BY <1>6, <2>1
  <2>3. QED
    BY <1>4, <1>7, <2>2
<1>9. ASSUME NEW i \in New PROVE i \in Unread
  <2>1. i \in 0 .. N - 1 /\ IF h <= t THEN h <= i /\ i < t ELSE h <= i \/ i < t
    BY <1>7
  <2> DEFINE k == IF i >= h THEN i - h ELSE i - h + N
  <2>2. k \in Int /\ k = IF i >= h THEN i - h ELSE i - h + N
    BY <2>1
  <2> HIDE DEF k
  <2>3. k \in 0 .. n - 1 /\ i = IF h + k < N THEN h + k ELSE h + k - N
    BY <1>4, <2>1, <2>2
  <2>4. QED
    BY <1>5, <1>6, <2>3 DEF Unread
<1>10. QED
  BY <1>8, <1>9

\* The host finds a completion for each command under way at most once, and the phase bit tells
\* it exactly which entries of the ring these are (__fill_cq_result).
THEOREM IoCompletedOnce == Steady => (Spec => []CompletedOnce)
<1> SUFFICES ASSUME Steady PROVE Spec => []CompletedOnce
  OBVIOUS
<1>1. IInv => CompletedOnce
  <2> SUFFICES ASSUME IInv PROVE CompletedOnce
    OBVIOUS
  <2>1. SideType /\ Places /\ Phases
    BY TypeParts DEF IInv, Inv1, Inv2
  <2>2. Unread = New
    BY <2>1, UnreadIs
  <2>3. ASSUME NEW i \in New
        PROVE  fate[cq[i].cmd] = "sent" /\ \A j \in New \ {i} : cq[j].cmd # cq[i].cmd
    <3>1. i \in CqSlots /\ fate[cq[i].cmd] = "sent" /\ Answered[i] = cq[i].cmd /\ cq[i].cmd # None
      BY <2>1, NewSent
    <3>2. ASSUME NEW j \in New \ {i} PROVE cq[j].cmd # cq[i].cmd
      <4>1. j \in CqSlots /\ Answered[j] = cq[j].cmd
        BY <2>1, NewSent
      <4>2. QED
        BY <2>1, <3>1, <4>1 DEF Places, Settled, Apart
    <3>3. QED
      BY <3>1, <3>2
  <2>4. NewCqe <=> New # {}
    <3>1. NewCqe <=> host_head \in New
      BY <2>1, PhaseTells
    <3>2. New # {} => host_head \in New
      BY <2>1, HeadSlots, Stretch DEF New
    <3>3. QED
      BY <3>1, <3>2
  <2>5. QED
    BY <2>2, <2>3, <2>4 DEF CompletedOnce
<1>2. QED
  BY <1>1, IInvHolds, PTL

\* A command under way is in exactly one place: waiting in its queue, on the list of a worker, or
\* among the completions the host has not read; no other command is in any of them.
THEOREM IoOnePlace == Steady => (Spec => []Places)
<1> SUFFICES ASSUME Steady PROVE Spec => []Places
  OBVIOUS
<1>1. IInv => Places
  BY DEF IInv, Inv2
<1>2. QED
  BY <1>1, IInvHolds, PTL
=============================================================================
