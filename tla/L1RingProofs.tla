---------------------------- MODULE L1RingProofs ----------------------------
(***************************************************************************)
(* What holds of the request ring for every number of producers and cells. *)
(*                                                                         *)
(* A ring of one cell is left out: there the word of a filled cell, its    *)
(* ticket plus one, is also the word the next producer waits for.          *)
(***************************************************************************)
EXTENDS L1Ring, CursorTheorems, FiniteSetTheorems

\* How far a ticket is from the one to be popped next, and how many are out.
Off(x) == Wrap(x - rq_tail)
Out == Off(rq_head)

Busy(p) == pc[p] # "idle"
Held(t) == \E p \in Producers : Busy(p) /\ pos[p] = t

\* The tickets in producers' hands are out, each in one hand.
HandsApart ==
  /\ \A p \in Producers : Busy(p) => Off(pos[p]) < Out
  /\ \A p, q \in Producers : p # q /\ Busy(p) /\ Busy(q) => pos[p] # pos[q]

\* A ticket that is out and in no hand is filled: its cell says so.
FilledCells ==
  \A t \in Cursor : Off(t) < Out /\ ~Held(t) =>
    Off(t) < Entries /\ rq_seq[CellOf(t)] = Wrap(t + 1)

\* The cell of any other ticket less than a lap ahead waits for it.
DrainedCells ==
  \A t \in Cursor : Off(t) < Entries /\ (Off(t) >= Out \/ Held(t)) =>
    rq_seq[CellOf(t)] = t

\* A producer that was let in is less than a lap ahead, and its request is there.
WritersLetIn ==
  \A p \in Producers : pc[p] = "publish" =>
    Off(pos[p]) < Entries /\ rq[CellOf(pos[p])] = p

\* What the consumer has copied is the oldest ticket, and filled.
PoppedIsFilled == cpc = "free" => Out > 0 /\ ~Held(rq_tail)

RingInv ==
  /\ TypeOK
  /\ HandsApart
  /\ FilledCells
  /\ DrainedCells
  /\ WritersLetIn
  /\ PoppedIsFilled
-----------------------------------------------------------------------------
(* Tickets and distances.                                                  *)

LEMMA Counting ==
  /\ Entries \in Nat \ {0} /\ Modulus \in Nat \ {0} /\ Modulus > Entries
  /\ Cardinality(Producers) \in Nat
  /\ Modulus > Entries + Cardinality(Producers)
BY RingAssumption, FS_CardinalityType

\* The next ticket, and the ticket one lap ahead, without division.
LEMMA Following ==
  ASSUME NEW x \in Cursor
  PROVE  /\ Wrap(x + 1) \in Cursor
         /\ Wrap(x + 1) = IF x + 1 < Modulus THEN x + 1 ELSE 0
         /\ Wrap(x + Entries) \in Cursor
         /\ Wrap(x + Entries) = IF x + Entries < Modulus THEN x + Entries
                                                         ELSE x + Entries - Modulus
<1>1. x \in 0 .. Modulus - 1 /\ 1 \in 0 .. Modulus - 1 /\ Entries \in 0 .. Modulus - 1
  BY Counting DEF Cursor
<1>2. (x + 1) % Modulus = IF x + 1 < Modulus THEN x + 1 ELSE x + 1 - Modulus
  BY <1>1, Counting, ModStep
<1>3. (x + Entries) % Modulus = IF x + Entries < Modulus THEN x + Entries
                                                         ELSE x + Entries - Modulus
  BY <1>1, Counting, ModStep
<1>4. QED
  BY <1>1, <1>2, <1>3, Counting DEF Wrap, Cursor

LEMMA Distance ==
  ASSUME rq_tail \in Cursor, NEW x \in Cursor
  PROVE  /\ Off(x) \in Cursor
         /\ Off(x) = IF x >= rq_tail THEN x - rq_tail ELSE x - rq_tail + Modulus
<1>1. Off(x) = IF x >= rq_tail THEN x - rq_tail ELSE x - rq_tail + Modulus
  BY Counting, ModStep DEF Off, Wrap, Cursor
<1>2. QED
  BY <1>1, Counting DEF Cursor

\* A ticket lies in the cell its distance from the tail leads to.
LEMMA CellFromTail ==
  ASSUME rq_tail \in Cursor, NEW x \in Cursor
  PROVE  CellOf(x) = (rq_tail + Off(x)) % Entries /\ CellOf(x) \in Cells
<1>0. x \in Int
  BY DEF Cursor
<1>1. CellOf(x) \in Cells
  <2>1. x % Entries \in 0 .. Entries - 1
    BY <1>0, Counting, ModRange, Zenon
  <2>2. QED
    BY <2>1, Zenon DEF CellOf, Cells
<1>2. CASE rq_tail + Off(x) = x
  BY <1>1, <1>2 DEF CellOf
<1>3. CASE rq_tail + Off(x) = x + Modulus
  <2>1. PICK k \in Int : Modulus = Entries * k
    BY RingAssumption, LapsPerTurn
  <2>2. (x + Entries * k) % Entries = x % Entries
    BY <1>0, <2>1, Counting, ModTurn, Zenon
  <2>3. QED
    BY <1>1, <1>3, <2>1, <2>2, Zenon DEF CellOf
<1>4. QED
  BY <1>2, <1>3, Distance, Counting DEF Cursor

\* Two tickets less than a lap apart lie in different cells.
LEMMA CellsDiffer ==
  ASSUME rq_tail \in Cursor, NEW x \in Cursor, NEW y \in Cursor,
         Off(x) < Off(y), Off(y) < Off(x) + Entries
  PROVE  CellOf(x) # CellOf(y)
<1>1. /\ rq_tail + Off(x) \in Int /\ rq_tail + Off(y) \in Int
      /\ rq_tail + Off(x) < rq_tail + Off(y)
      /\ rq_tail + Off(y) < rq_tail + Off(x) + Entries
  BY Distance, Counting DEF Cursor
<1>2. (rq_tail + Off(x)) % Entries # (rq_tail + Off(y)) % Entries
  BY <1>1, Counting, ModApart
<1>3. QED
  BY <1>2, CellFromTail

\* So two tickets of the lap at hand share a cell only if they are one.
LEMMA CellsOfLap ==
  ASSUME rq_tail \in Cursor, NEW x \in Cursor, NEW y \in Cursor,
         Off(x) < Entries, Off(y) < Entries, x # y
  PROVE  CellOf(x) # CellOf(y)
<1>1. Off(x) < Off(y) \/ Off(y) < Off(x)
  BY Distance, Counting DEF Cursor
<1>2. Off(x) < Off(y) + Entries /\ Off(y) < Off(x) + Entries
  BY Distance, Counting DEF Cursor
<1>3. QED
  BY <1>1, <1>2, CellsDiffer

\* There is a ticket at every distance.
LEMMA TicketAt ==
  ASSUME rq_tail \in Cursor, NEW d \in Cursor
  PROVE  Wrap(rq_tail + d) \in Cursor /\ Off(Wrap(rq_tail + d)) = d
<1> DEFINE y == Wrap(rq_tail + d)
<1>1. y = IF rq_tail + d < Modulus THEN rq_tail + d ELSE rq_tail + d - Modulus
  BY Counting, ModStep DEF Wrap, Cursor
<1> HIDE DEF y
<1>2. y \in Cursor
  BY <1>1, Counting DEF Cursor
<1>3. Off(y) = d
  BY <1>1, <1>2, Distance, Counting DEF Cursor
<1>4. QED
  BY <1>2, <1>3 DEF y

\* A ticket beyond the lap at hand shares its cell with one of that lap.
LEMMA LapMate ==
  ASSUME rq_tail \in Cursor, NEW x \in Cursor, Off(x) >= Entries
  PROVE  \E y \in Cursor : Off(y) < Entries /\ y # x /\ CellOf(y) = CellOf(x)
<1> DEFINE d == Off(x) % Entries
           y == Wrap(rq_tail + d)
<1>1. Off(x) \in Int /\ rq_tail \in Int
  BY Distance DEF Cursor
<1>2. d \in 0 .. Entries - 1 /\ d \in 0 .. Modulus - 1
  <2>1. d \in 0 .. Entries - 1
    BY <1>1, ModRange, Counting, Zenon
  <2> HIDE DEF d
  <2>2. QED
    BY <2>1, Counting
<1> HIDE DEF d
<1>3. CellOf(y) = (rq_tail + d) % Entries /\ y \in Cursor /\ Off(y) = d
  <2>1. d \in Cursor
    BY <1>2, Zenon DEF Cursor
  <2>2. y \in Cursor /\ Off(y) = d
    BY <2>1, TicketAt, Zenon
  <2>3. QED
    BY <2>2, CellFromTail, Zenon
<1> HIDE DEF y
<1>4. (rq_tail + d) % Entries = (rq_tail + Off(x)) % Entries
  <2>1. ((Off(x) % Entries) + rq_tail) % Entries = (Off(x) + rq_tail) % Entries
    BY <1>1, Counting, ModPlus
  <2>2. d + rq_tail = rq_tail + d /\ Off(x) + rq_tail = rq_tail + Off(x)
    BY <1>1, <1>2
  <2>3. QED
    BY <2>1, <2>2, Zenon DEF d
<1>5. CellOf(y) = CellOf(x)
  BY <1>3, <1>4, CellFromTail, Zenon
<1>6. Off(y) < Entries /\ y # x
  BY <1>2, <1>3, <1>1, Counting
<1>7. QED
  BY <1>3, <1>5, <1>6, Zenon

\* A ticket beyond the lap at hand is in a producer's hand, so the tickets that
\* are out never span a turn of the counters.
LEMMA OutBounded ==
  ASSUME RingInv
  PROVE  Out <= Entries + Cardinality({p \in Producers : Busy(p)})
<1> DEFINE B == {p \in Producers : Busy(p)}
           Far == {p \in B : Off(pos[p]) \in Entries .. Out - 1}
           f == [p \in Far |-> Off(pos[p])]
<1>0. /\ rq_tail \in Cursor /\ rq_head \in Cursor /\ Out \in Cursor
      /\ \A p \in Producers : pos[p] \in Cursor
  BY Distance DEF RingInv, TypeOK, Out
<1>1. /\ IsFiniteSet(B) /\ IsFiniteSet(Far) /\ Cardinality(B) \in Nat
      /\ Cardinality(Far) \in Nat /\ Cardinality(Far) <= Cardinality(B)
  <2>1. IsFiniteSet(B) /\ Cardinality(B) \in Nat
    BY RingAssumption, FS_Subset, FS_CardinalityType
  <2>2. Far \subseteq B
    OBVIOUS
  <2>3. QED
    BY <2>1, <2>2, FS_Subset, FS_CardinalityType
<1>2. f \in Surjection(Far, Entries .. Out - 1)
  <2>1. f \in [Far -> Entries .. Out - 1]
    OBVIOUS
  <2>2. ASSUME NEW d \in Entries .. Out - 1
        PROVE  \E p \in Far : f[p] = d
    <3> DEFINE t == Wrap(rq_tail + d)
    <3>1. d \in Cursor /\ d < Out /\ d >= Entries
      BY <1>0, Counting DEF Cursor
    <3>2. t \in Cursor /\ Off(t) = d
      BY <1>0, <3>1, TicketAt, Zenon
    <3> HIDE DEF t
    <3>3. ~ (Off(t) < Entries)
      BY <3>1, <3>2, Counting DEF Cursor
    <3>4. Held(t)
      BY <3>1, <3>2, <3>3 DEF RingInv, FilledCells
    <3>5. PICK p \in Producers : Busy(p) /\ pos[p] = t
      BY <3>4 DEF Held
    <3>6. p \in Far /\ f[p] = d
      BY <3>2, <3>5
    <3>7. QED
      BY <3>6
  <2>3. QED
    BY <2>1, <2>2, Zenon DEF Surjection
<1> HIDE DEF f, Far, B
<1>3. Cardinality(Entries .. Out - 1) <= Cardinality(Far)
  BY <1>1, <1>2, FS_Surjection
<1>4. Cardinality(Entries .. Out - 1) = IF Entries > Out - 1 THEN 0 ELSE Out - 1 - Entries + 1
  BY <1>0, Counting, FS_Interval DEF Cursor
<1>5. Out <= Entries + Cardinality(B)
  BY <1>0, <1>1, <1>3, <1>4, Counting DEF Cursor
<1>6. QED
  BY <1>5 DEF B
-----------------------------------------------------------------------------
(* The invariant, step by step.                                            *)

LEMMA RingInit == Init => RingInv
<1> SUFFICES ASSUME Init PROVE RingInv
  OBVIOUS
<1>1. 0 \in Cursor /\ \A c \in Cells : c \in Cursor
  BY Counting DEF Cursor, Cells
<1>2. TypeOK
  BY <1>1 DEF Init, TypeOK
<1>3. Out = 0 /\ \A t \in Cursor : Off(t) = t
  BY <1>1, <1>2, Distance, Counting DEF Init, TypeOK, Out, Cursor
<1>4. \A p \in Producers : ~Busy(p)
  BY DEF Init, Busy
<1>5. ASSUME NEW t \in Cursor, Off(t) < Entries
      PROVE  rq_seq[CellOf(t)] = t
  <2>1. t \in 0 .. Entries - 1
    BY <1>3, <1>5, Counting DEF Cursor
  <2>2. CellOf(t) = t
    BY <2>1, Counting, ModSmall DEF CellOf
  <2>3. QED
    BY <2>1, <2>2 DEF Init, Cells
<1>6. HandsApart /\ WritersLetIn /\ PoppedIsFilled
  BY <1>4 DEF HandsApart, WritersLetIn, PoppedIsFilled, Init, Busy
<1>7. FilledCells
  BY <1>3 DEF FilledCells, Cursor
<1>8. DrainedCells
  BY <1>5 DEF DrainedCells
<1>9. QED
  BY <1>2, <1>6, <1>7, <1>8 DEF RingInv

LEMMA RingReserve ==
  ASSUME RingInv, NEW p \in Producers, Reserve(p)
  PROVE  RingInv' /\ Out' = Out + 1
<1>1. /\ TypeOK /\ pc[p] = "idle" /\ pos[p] \in Cursor
      /\ pos' = [pos EXCEPT ![p] = rq_head] /\ rq_head' = Wrap(rq_head + 1)
      /\ pc' = [pc EXCEPT ![p] = "wait"]
      /\ UNCHANGED <<rq_tail, rq_seq, rq, cpc, out>>
  BY DEF RingInv, TypeOK, Reserve, consumerVars
<1>2. rq_head' \in Cursor /\ TypeOK'
  BY <1>1, Following DEF TypeOK
<1>3. Out' = Out + 1 /\ Out \in Cursor
  <2>1. Out < Entries + Cardinality(Producers)
    <3>1. {q \in Producers : Busy(q)} \subseteq Producers \ {p}
      BY <1>1 DEF Busy
    <3>2. /\ Cardinality(Producers \ {p}) = Cardinality(Producers) - 1
          /\ IsFiniteSet(Producers \ {p})
      BY RingAssumption, FS_RemoveElement
    <3>3. /\ Cardinality({q \in Producers : Busy(q)}) <= Cardinality(Producers) - 1
          /\ Cardinality({q \in Producers : Busy(q)}) \in Nat
      BY <3>1, <3>2, RingAssumption, FS_Subset, FS_CardinalityType
    <3>4. Out \in Cursor
      BY <1>1, Distance DEF TypeOK, Out
    <3>5. QED
      BY <3>3, <3>4, OutBounded, Counting DEF Cursor
  <2>2. /\ Out = IF rq_head >= rq_tail THEN rq_head - rq_tail ELSE rq_head - rq_tail + Modulus
        /\ rq_head \in Cursor /\ rq_tail \in Cursor /\ Out \in Cursor
    BY <1>1, Distance DEF TypeOK, Out
  <2>3. Out' = Wrap(rq_head' - rq_tail)
    BY <1>1 DEF Out, Off, Wrap
  <2>4. Wrap(rq_head' - rq_tail) = IF rq_head' >= rq_tail THEN rq_head' - rq_tail
                                   ELSE rq_head' - rq_tail + Modulus
    BY <1>2, <2>2, Distance DEF Off
  <2>5. rq_head' = IF rq_head + 1 < Modulus THEN rq_head + 1 ELSE 0
    BY <1>1, <2>2, Following
  <2>6. QED
    BY <2>1, <2>2, <2>3, <2>4, <2>5, Counting DEF Cursor
<1>4. \A t \in Cursor : Off(t)' = Off(t) /\ Off(t) \in Cursor
  BY <1>1, Distance DEF Off, Wrap, TypeOK
<1>5. \A t \in Cursor : Off(t) = Out => t = rq_head
  BY <1>1, Distance, Counting DEF TypeOK, Out, Cursor
<1>6. /\ \A q \in Producers : Busy(q)' <=> Busy(q) \/ q = p
      /\ \A q \in Producers : q # p => pos'[q] = pos[q] /\ pc'[q] = pc[q]
      /\ pos'[p] = rq_head /\ pc'[p] = "wait"
  BY <1>1 DEF TypeOK, Busy
<1>7. ~Busy(p) /\ rq_head \in Cursor /\ Off(rq_head) = Out
  BY <1>1 DEF Busy, TypeOK, Out
<1>8. \A t \in Cursor : Held(t)' <=> Held(t) \/ t = rq_head
  BY <1>6, <1>7 DEF Held
<1>9. HandsApart'
  <2>1. \A q \in Producers : pos[q] \in Cursor
    BY <1>1 DEF TypeOK
  <2>2. ASSUME NEW q \in Producers, Busy(q)' PROVE (Off(pos[q]) < Out)'
    <3>1. Off(pos'[q]) < Out + 1
      <4>1. CASE q = p
        BY <1>3, <1>6, <1>7, <4>1 DEF Cursor
      <4>2. CASE q # p
        <5>1. pos'[q] = pos[q] /\ Off(pos[q]) < Out /\ Off(pos[q]) \in Cursor
          BY <1>4, <1>6, <2>1, <2>2, <4>2 DEF RingInv, HandsApart
        <5>2. QED
          BY <1>3, <5>1, Counting DEF Cursor
      <4>3. QED
        BY <4>1, <4>2
    <3>2. QED
      BY <1>1, <1>3, <3>1 DEF Off, Wrap
  <2>3. ASSUME NEW q \in Producers, NEW r \in Producers, q # r, Busy(q)', Busy(r)'
        PROVE  pos'[q] # pos'[r]
    <3>1. \A x \in Producers : Busy(x) => pos[x] # rq_head
      BY <1>3, <1>7, <2>1 DEF RingInv, HandsApart, Cursor
    <3>2. QED
      BY <1>6, <2>3, <3>1 DEF RingInv, HandsApart
  <2>4. QED
    BY <2>2, <2>3 DEF HandsApart
<1>10. FilledCells'
  <2> SUFFICES ASSUME NEW t \in Cursor, Off(t)' < Out', ~Held(t)'
               PROVE  Off(t)' < Entries /\ rq_seq'[CellOf(t)] = Wrap(t + 1)
    BY DEF FilledCells, Wrap, CellOf, Cursor
  <2>1. Off(t) < Out /\ ~Held(t)
    BY <1>3, <1>4, <1>5, <1>8, Counting DEF Cursor
  <2>2. QED
    BY <1>1, <1>4, <2>1 DEF RingInv, FilledCells
<1>11. DrainedCells'
  <2> SUFFICES ASSUME NEW t \in Cursor, Off(t)' < Entries, Off(t)' >= Out' \/ Held(t)'
               PROVE  rq_seq'[CellOf(t)] = t
    BY DEF DrainedCells, Wrap, CellOf, Cursor
  <2>1. Off(t) >= Out \/ Held(t)
    BY <1>3, <1>4, <1>7, <1>8, Counting DEF Cursor
  <2>2. QED
    BY <1>1, <1>4, <2>1 DEF RingInv, DrainedCells
<1>12. WritersLetIn'
  <2>1. ASSUME NEW q \in Producers, pc'[q] = "publish"
        PROVE  Off(pos[q]) < Entries /\ rq[CellOf(pos[q])] = q /\ q # p
    BY <1>1, <1>6, <2>1 DEF RingInv, WritersLetIn
  <2>2. QED
    BY <1>1, <1>6, <2>1 DEF WritersLetIn, Off, Wrap, CellOf
<1>13. PoppedIsFilled'
  <2> SUFFICES ASSUME cpc = "free" PROVE Out' > 0 /\ ~Held(rq_tail)'
    BY <1>1 DEF PoppedIsFilled, Held, Busy
  <2>1. Out > 0 /\ ~Held(rq_tail)
    BY DEF RingInv, PoppedIsFilled
  <2>2. rq_tail # rq_head /\ rq_tail \in Cursor
    BY <1>1, <1>7, <2>1, Distance, Counting DEF TypeOK, Cursor
  <2>3. ~ (\E q \in Producers : Busy(q)' /\ pos'[q] = rq_tail)
    BY <1>6, <2>1, <2>2 DEF Held
  <2>4. QED
    BY <1>1, <1>3, <2>1, <2>3 DEF Held, Cursor
<1>14. QED
  BY <1>2, <1>3, <1>9, <1>10, <1>11, <1>12, <1>13 DEF RingInv

\* A producer is let in only once the lap before its own is over.
LEMMA LetIn ==
  ASSUME RingInv, Entries > 1, NEW x \in Cursor, Off(x) < Out, CellDrained(x)
  PROVE  Off(x) < Entries
<1> SUFFICES ASSUME ~ (Off(x) < Entries) PROVE FALSE
  OBVIOUS
<1>1. rq_tail \in Cursor /\ Off(x) \in Cursor /\ Out \in Cursor
  BY Distance DEF RingInv, TypeOK, Out
<1>2. Off(x) >= Entries
  BY <1>1, Counting DEF Cursor
<1>3. PICK y \in Cursor : Off(y) < Entries /\ y # x /\ CellOf(y) = CellOf(x)
  BY <1>1, <1>2, LapMate, Zenon
<1>4. rq_seq[CellOf(y)] = x
  BY <1>3 DEF CellDrained
<1>5. Off(y) \in Cursor /\ Off(y) < Out
  BY <1>1, <1>2, <1>3, Distance, Counting DEF Cursor
<1>6. ~Held(y) /\ x = Wrap(y + 1)
  BY <1>3, <1>4, <1>5 DEF RingInv, DrainedCells, FilledCells
<1>7. Off(x) = Off(y) + 1
  BY <1>1, <1>3, <1>5, <1>6, Following, Distance, Counting DEF Cursor
<1>8. CellOf(y) # CellOf(x)
  <2>1. Off(y) < Off(x) /\ Off(x) < Off(y) + Entries
    BY <1>5, <1>7, Counting DEF Cursor
  <2>2. QED
    BY <1>1, <2>1, CellsDiffer
<1>9. QED
  BY <1>3, <1>8

LEMMA RingWrite ==
  ASSUME RingInv, Entries > 1, NEW p \in Producers, Write(p)
  PROVE  RingInv'
<1>1. /\ TypeOK /\ pc[p] = "wait" /\ pos[p] \in Cursor
      /\ rq' = [rq EXCEPT ![CellOf(pos[p])] = p]
      /\ pc' = [pc EXCEPT ![p] = "publish"]
      /\ UNCHANGED <<rq_head, rq_tail, rq_seq, pos, cpc, out>>
  BY DEF RingInv, TypeOK, Write, consumerVars
<1>2. Off(pos[p]) < Entries /\ Off(pos[p]) < Out
  <2>1. Off(pos[p]) < Out
    BY <1>1 DEF RingInv, HandsApart, Busy
  <2>2. QED
    BY <1>1, <2>1, LetIn DEF Write
<1>3. CellOf(pos[p]) \in Cells
  BY <1>1, CellFromTail DEF TypeOK
<1>4. TypeOK'
  BY <1>1, <1>3 DEF TypeOK
<1>5. /\ \A q \in Producers : Busy(q)' <=> Busy(q)
      /\ Out' = Out /\ \A t \in Cursor : Off(t)' = Off(t) /\ (Held(t)' <=> Held(t))
  <2>1. \A q \in Producers : Busy(q)' <=> Busy(q)
    BY <1>1 DEF TypeOK, Busy
  <2>2. QED
    BY <1>1, <2>1 DEF Out, Off, Wrap, Held
<1>6. \A q \in Producers : pos[q] \in Cursor /\ Off(pos[q])' = Off(pos[q])
  BY <1>1 DEF TypeOK, Off, Wrap
<1>7. HandsApart' /\ FilledCells' /\ DrainedCells' /\ PoppedIsFilled'
  <2>1. HandsApart'
    BY <1>1, <1>5, <1>6 DEF RingInv, HandsApart
  <2>2. FilledCells'
    BY <1>1, <1>5 DEF RingInv, FilledCells, CellOf, Wrap, Cursor
  <2>3. DrainedCells'
    BY <1>1, <1>5 DEF RingInv, DrainedCells, CellOf, Wrap, Cursor
  <2>4. PoppedIsFilled'
    BY <1>1, <1>5 DEF RingInv, PoppedIsFilled, Held, TypeOK
  <2>5. QED
    BY <2>1, <2>2, <2>3, <2>4
<1>8. WritersLetIn'
  <2> SUFFICES ASSUME NEW q \in Producers, pc'[q] = "publish"
               PROVE  Off(pos[q]) < Entries /\ rq'[CellOf(pos[q])] = q
    BY <1>1 DEF WritersLetIn, Off, Wrap, CellOf
  <2>1. CASE q = p
    BY <1>1, <1>2, <1>3, <2>1 DEF TypeOK
  <2>2. CASE q # p
    <3>1. pc[q] = "publish" /\ Busy(q) /\ Busy(p)
      BY <1>1, <2>2 DEF TypeOK, Busy
    <3>2. Off(pos[q]) < Entries /\ rq[CellOf(pos[q])] = q /\ pos[q] # pos[p]
      BY <2>2, <3>1 DEF RingInv, WritersLetIn, HandsApart
    <3>3. CellOf(pos[q]) # CellOf(pos[p])
      BY <1>1, <1>2, <1>6, <3>2, CellsOfLap DEF TypeOK
    <3>4. CellOf(pos[q]) \in Cells
      BY <1>1, <1>6, CellFromTail DEF TypeOK
    <3>5. QED
      BY <1>1, <3>2, <3>3, <3>4 DEF TypeOK
  <2>3. QED
    BY <2>1, <2>2
<1>9. QED
  BY <1>4, <1>7, <1>8 DEF RingInv

LEMMA RingPublish ==
  ASSUME RingInv, NEW p \in Producers, Publish(p)
  PROVE  RingInv'
<1>1. /\ TypeOK /\ pc[p] = "publish" /\ pos[p] \in Cursor
      /\ rq_seq' = [rq_seq EXCEPT ![CellOf(pos[p])] = Wrap(pos[p] + 1)]
      /\ pc' = [pc EXCEPT ![p] = "idle"]
      /\ UNCHANGED <<rq_head, rq_tail, rq, pos, cpc, out>>
  BY DEF RingInv, TypeOK, Publish, consumerVars
<1>2. Off(pos[p]) < Entries /\ Off(pos[p]) < Out /\ Busy(p)
  BY <1>1 DEF RingInv, HandsApart, WritersLetIn, Busy
<1>3. CellOf(pos[p]) \in Cells /\ Wrap(pos[p] + 1) \in Cursor
  BY <1>1, CellFromTail, Following DEF TypeOK
<1>4. TypeOK'
  BY <1>1, <1>3 DEF TypeOK
<1>5. /\ \A q \in Producers : Busy(q)' <=> Busy(q) /\ q # p
      /\ Out' = Out /\ \A t \in Cursor : Off(t)' = Off(t)
  BY <1>1, <1>2 DEF TypeOK, Busy, Out, Off, Wrap
<1>6. \A t \in Cursor : Held(t)' <=> Held(t) /\ t # pos[p]
  <2>1. \A q \in Producers : q # p /\ Busy(q) => pos[q] # pos[p]
    BY <1>2 DEF RingInv, HandsApart
  <2>2. QED
    BY <1>1, <1>5, <2>1 DEF Held
<1>7. \A t \in Cursor : t # pos[p] /\ Off(t) < Entries =>
        CellOf(t) # CellOf(pos[p]) /\ CellOf(t) \in Cells
  BY <1>1, <1>2, CellsOfLap, CellFromTail DEF TypeOK
<1>8. \A q \in Producers : Off(pos[q])' = Off(pos[q]) /\ pos[q] \in Cursor
  BY <1>1 DEF TypeOK, Off, Wrap
<1>9. HandsApart'
  BY <1>1, <1>5, <1>8 DEF RingInv, HandsApart
<1>10. FilledCells'
  <2> SUFFICES ASSUME NEW t \in Cursor, Off(t) < Out, ~Held(t) \/ t = pos[p]
               PROVE  Off(t) < Entries /\ rq_seq'[CellOf(t)] = Wrap(t + 1)
    BY <1>5, <1>6 DEF FilledCells, CellOf, Wrap, Cursor
  <2>1. CASE t = pos[p]
    BY <1>1, <1>2, <1>3, <2>1 DEF TypeOK
  <2>2. CASE t # pos[p]
    <3>1. Off(t) < Entries /\ rq_seq[CellOf(t)] = Wrap(t + 1)
      BY <2>2 DEF RingInv, FilledCells
    <3>2. QED
      BY <1>1, <1>7, <2>2, <3>1 DEF TypeOK
  <2>3. QED
    BY <2>1, <2>2
<1>11. DrainedCells'
  <2> SUFFICES ASSUME NEW t \in Cursor, Off(t) < Entries, Off(t) >= Out \/ (Held(t) /\ t # pos[p])
               PROVE  rq_seq'[CellOf(t)] = t
    BY <1>5, <1>6 DEF DrainedCells, CellOf, Wrap, Cursor
  <2>1. t # pos[p] /\ rq_seq[CellOf(t)] = t
    <3>1. Out \in Cursor /\ Off(t) \in Cursor /\ Off(pos[p]) \in Cursor
      BY <1>1, Distance DEF TypeOK, Out
    <3>2. t # pos[p]
      BY <1>2, <3>1 DEF Cursor
    <3>3. QED
      BY <3>2 DEF RingInv, DrainedCells
  <2>2. QED
    BY <1>1, <1>7, <2>1 DEF TypeOK
<1>12. WritersLetIn'
  BY <1>1, <1>8 DEF RingInv, WritersLetIn, TypeOK, CellOf
<1>13. PoppedIsFilled'
  BY <1>1, <1>5, <1>6 DEF RingInv, PoppedIsFilled, Held, TypeOK
<1>14. QED
  BY <1>4, <1>9, <1>10, <1>11, <1>12, <1>13 DEF RingInv

LEMMA RingPopCopy ==
  ASSUME RingInv, PopCopy
  PROVE  RingInv' /\ Out > 0 /\ ~Held(rq_tail)
<1>1. /\ TypeOK /\ cpc = "poll" /\ rq_tail \in Cursor /\ CellFilled(rq_tail)
      /\ out' = rq[CellOf(rq_tail)] /\ cpc' = "free"
      /\ UNCHANGED <<rq_head, rq_tail, rq_seq, rq, pc, pos>>
  BY DEF RingInv, TypeOK, PopCopy, producerVars
<1>2. Off(rq_tail) = 0 /\ Out \in Cursor
  BY <1>1, Distance, Counting DEF TypeOK, Cursor, Out
<1>3. rq_seq[CellOf(rq_tail)] # rq_tail
  BY <1>1, Following, Counting DEF CellFilled, Cursor
<1>4. Out > 0 /\ ~Held(rq_tail)
  BY <1>1, <1>2, <1>3, Counting DEF RingInv, DrainedCells, Cursor
<1>5. TypeOK'
  BY <1>1, CellFromTail DEF TypeOK
<1>6. HandsApart' /\ FilledCells' /\ DrainedCells' /\ WritersLetIn'
  BY <1>1 DEF RingInv, HandsApart, FilledCells, DrainedCells, WritersLetIn, Held, Busy, Out, Off,
              Wrap, CellOf, Cursor
<1>7. PoppedIsFilled'
  BY <1>1, <1>4 DEF PoppedIsFilled, Held, Busy, Out, Off, Wrap
<1>8. QED
  BY <1>4, <1>5, <1>6, <1>7 DEF RingInv

\* Freeing the oldest cell brings every other ticket one nearer.
LEMMA TailMoves ==
  ASSUME TypeOK, PopFree
  PROVE  /\ rq_tail' \in Cursor /\ rq_tail' = Wrap(rq_tail + 1)
         /\ \A t \in Cursor : t = rq_tail => Off(t) = 0 /\ Off(t)' = Modulus - 1
         /\ \A t \in Cursor : t # rq_tail => Off(t) > 0 /\ Off(t)' = Off(t) - 1
         /\ \A t \in Cursor : Off(t) \in Cursor /\ Wrap(t - rq_tail') = Off(t)'
<1>1. rq_tail \in Cursor /\ rq_tail' = Wrap(rq_tail + 1) /\ rq_tail' \in Cursor
  BY Following DEF TypeOK, PopFree
<1>2. \A t \in Cursor : Off(t)' = Wrap(t - rq_tail')
  BY DEF Off, Wrap
<1>3. \A t \in Cursor : Wrap(t - rq_tail') = IF t >= rq_tail' THEN t - rq_tail'
                                             ELSE t - rq_tail' + Modulus
  BY <1>1, Counting, ModStep DEF Wrap, Cursor
<1>4. rq_tail' = IF rq_tail + 1 < Modulus THEN rq_tail + 1 ELSE 0
  BY <1>1, Following
<1>5. ASSUME NEW t \in Cursor
      PROVE  /\ t = rq_tail => Off(t) = 0 /\ Off(t)' = Modulus - 1
             /\ t # rq_tail => Off(t) > 0 /\ Off(t)' = Off(t) - 1
             /\ Off(t) \in Cursor /\ Wrap(t - rq_tail') = Off(t)'
  <2>1. /\ Off(t) = IF t >= rq_tail THEN t - rq_tail ELSE t - rq_tail + Modulus
        /\ Off(t) \in Cursor
    BY <1>1, Distance
  <2>2. Off(t)' = IF t >= rq_tail' THEN t - rq_tail' ELSE t - rq_tail' + Modulus
    BY <1>2, <1>3
  <2>3. Off(t) \in Cursor /\ Wrap(t - rq_tail') = Off(t)'
    BY <1>2, <2>1
  <2>4. ASSUME t = rq_tail PROVE Off(t) = 0 /\ Off(t)' = Modulus - 1
    BY <1>1, <1>4, <2>1, <2>2, <2>4, Counting DEF Cursor
  <2>5. ASSUME t # rq_tail PROVE Off(t) > 0 /\ Off(t)' = Off(t) - 1
    BY <1>1, <1>4, <2>1, <2>2, <2>5, Counting DEF Cursor
  <2>6. QED
    BY <2>3, <2>4, <2>5
<1>6. QED
  BY <1>1, <1>5

LEMMA RingPopFree ==
  ASSUME RingInv, PopFree
  PROVE  RingInv' /\ Out' = Out - 1 /\ Out > 0
<1>1. /\ TypeOK /\ cpc = "free" /\ rq_tail \in Cursor /\ rq_head \in Cursor
      /\ rq_seq' = [rq_seq EXCEPT ![CellOf(rq_tail)] = Wrap(rq_tail + Entries)]
      /\ cpc' = "poll"
      /\ UNCHANGED <<rq_head, rq, pc, pos, out>>
  BY DEF RingInv, TypeOK, PopFree, producerVars, NextLapOf
<1>2. Out > 0 /\ ~Held(rq_tail)
  BY <1>1 DEF RingInv, PoppedIsFilled
<1> DEFINE far == Wrap(rq_tail + Entries)
<1>3. far \in Cursor /\ Off(far) = Entries /\ CellOf(far) = CellOf(rq_tail)
  <2>1. far \in Cursor /\ Off(far) = Entries
    BY <1>1, Following, Distance, Counting DEF Cursor
  <2>2. (rq_tail + Off(far)) % Entries = rq_tail % Entries
    <3>1. rq_tail \in Int /\ 1 \in Int /\ Entries * 1 = Entries
      BY <1>1, Counting DEF Cursor
    <3>2. (rq_tail + Entries * 1) % Entries = rq_tail % Entries
      BY <3>1, Counting, ModTurn, Zenon
    <3>3. QED
      BY <2>1, <3>1, <3>2, Zenon
  <2>3. CellOf(far) = (rq_tail + Off(far)) % Entries
    BY <1>1, <2>1, CellFromTail
  <2>4. QED
    BY <2>1, <2>2, <2>3, Zenon DEF CellOf
<1> HIDE DEF far
<1>4. CellOf(rq_tail) \in Cells
  BY <1>1, CellFromTail
<1>5. TypeOK'
  BY <1>1, <1>3, <1>4, TailMoves DEF TypeOK, far
<1>6. /\ Out' = Out - 1 /\ Out \in Cursor
      /\ \A q \in Producers : (Busy(q)' <=> Busy(q)) /\ pos[q] \in Cursor
      /\ \A t \in Cursor : Held(t)' <=> Held(t)
  <2>1. rq_head # rq_tail
    BY <1>1, <1>2, TailMoves DEF Out
  <2>2. Out' = Wrap(rq_head' - rq_tail') /\ rq_head' = rq_head
    BY <1>1 DEF Out, Off, Wrap
  <2>3. Out' = Off(rq_head) - 1
    BY <1>1, <2>1, <2>2, TailMoves
  <2>4. QED
    BY <1>1, <2>3, TailMoves DEF Out, TypeOK, Busy, Held
<1>7. \A t \in Cursor : t # rq_tail /\ Off(t) < Entries =>
        CellOf(t) # CellOf(rq_tail) /\ CellOf(t) \in Cells
  BY <1>1, TailMoves, CellsOfLap, CellFromTail, Counting
<1>8. \A q \in Producers : (Off(pos[q]) = Wrap(pos[q] - rq_tail))' /\ Wrap(pos'[q] - rq_tail') = Off(pos[q])'
  BY DEF Off, Wrap
<1>9. \A q \in Producers : Busy(q) => pos[q] # rq_tail
  BY <1>2 DEF Held
<1>10. HandsApart'
  <2>1. ASSUME NEW q \in Producers, Busy(q) PROVE (Off(pos[q]) < Out)'
    <3>1. Off(pos[q]) < Out /\ pos[q] # rq_tail /\ pos[q] \in Cursor
      BY <1>6, <1>9, <2>1 DEF RingInv, HandsApart
    <3>2. Wrap(pos[q] - rq_tail') = Off(pos[q]) - 1
      BY <1>1, <3>1, TailMoves
    <3>3. Off(pos[q]) \in Cursor
      BY <1>1, <3>1, TailMoves
    <3>4. QED
      BY <1>1, <1>6, <3>1, <3>2, <3>3 DEF Off, Wrap, Cursor
  <2>2. QED
    BY <1>1, <1>6, <2>1 DEF RingInv, HandsApart
<1>11. FilledCells'
  <2> SUFFICES ASSUME NEW t \in Cursor, Off(t)' < Out - 1, ~Held(t)
               PROVE  Off(t)' < Entries /\ rq_seq'[CellOf(t)] = Wrap(t + 1)
    BY <1>6 DEF FilledCells, CellOf, Wrap, Cursor
  <2>1. t # rq_tail
    BY <1>1, <1>6, TailMoves, Counting DEF Cursor
  <2>2. Off(t) < Out /\ Off(t)' = Off(t) - 1 /\ Off(t) \in Cursor
    BY <1>1, <1>6, <2>1, TailMoves DEF Cursor
  <2>3. Off(t) < Entries /\ rq_seq[CellOf(t)] = Wrap(t + 1)
    BY <2>2 DEF RingInv, FilledCells
  <2>4. QED
    BY <1>1, <1>7, <2>1, <2>2, <2>3, Counting DEF TypeOK, Cursor
<1>12. DrainedCells'
  <2> SUFFICES ASSUME NEW t \in Cursor, Off(t)' < Entries, Off(t)' >= Out - 1 \/ Held(t)
               PROVE  rq_seq'[CellOf(t)] = t
    BY <1>6 DEF DrainedCells, CellOf, Wrap, Cursor
  <2>1. t # rq_tail
    BY <1>1, TailMoves, Counting
  <2>2. Off(t)' = Off(t) - 1 /\ Off(t) \in Cursor
    BY <1>1, <2>1, TailMoves
  <2>3. CASE Off(t) = Entries
    <3>1. t = far
      BY <1>1, <1>3, <2>3, Distance, Counting DEF Cursor
    <3>2. QED
      BY <1>1, <1>3, <1>4, <3>1 DEF TypeOK, far
  <2>4. CASE Off(t) < Entries
    <3>1. rq_seq[CellOf(t)] = t
      BY <1>6, <2>2, <2>4 DEF RingInv, DrainedCells, Cursor
    <3>2. QED
      BY <1>1, <1>7, <2>1, <2>4, <3>1 DEF TypeOK
  <2>5. QED
    BY <2>2, <2>3, <2>4, Counting DEF Cursor
<1>13. WritersLetIn'
  <2> SUFFICES ASSUME NEW q \in Producers, pc[q] = "publish"
               PROVE  Wrap(pos[q] - rq_tail') < Entries /\ rq[CellOf(pos[q])] = q
    BY <1>1 DEF WritersLetIn, Off, Wrap, CellOf
  <2>1. /\ Off(pos[q]) < Entries /\ rq[CellOf(pos[q])] = q
        /\ pos[q] # rq_tail /\ pos[q] \in Cursor
    BY <1>6, <1>9 DEF RingInv, WritersLetIn, Busy
  <2>2. Wrap(pos[q] - rq_tail') = Off(pos[q]) - 1 /\ Off(pos[q]) \in Cursor
    BY <1>1, <2>1, TailMoves
  <2>3. QED
    BY <2>1, <2>2, Counting DEF Cursor
<1>14. PoppedIsFilled'
  BY <1>1 DEF PoppedIsFilled
<1>15. QED
  BY <1>2, <1>5, <1>6, <1>10, <1>11, <1>12, <1>13, <1>14 DEF RingInv

LEMMA RingStep ==
  ASSUME Entries > 1, RingInv, [Next]_vars
  PROVE  RingInv'
<1>1. ASSUME NEW p \in Producers, Reserve(p) PROVE RingInv'
  BY <1>1, RingReserve
<1>2. ASSUME NEW p \in Producers, Write(p) PROVE RingInv'
  BY <1>2, RingWrite
<1>3. ASSUME NEW p \in Producers, Publish(p) PROVE RingInv'
  BY <1>3, RingPublish
<1>4. CASE PopCopy
  BY <1>4, RingPopCopy
<1>5. CASE PopFree
  BY <1>5, RingPopFree
<1>6. CASE UNCHANGED vars
  BY <1>6 DEF vars, RingInv, TypeOK, HandsApart, FilledCells, DrainedCells, WritersLetIn,
              PoppedIsFilled, Held, Busy, Out, Off, Wrap, CellOf, Cursor
<1>7. QED
  BY <1>1, <1>2, <1>3, <1>4, <1>5, <1>6 DEF Next

LEMMA RingInvariant == ASSUME Entries > 1 PROVE Spec => []RingInv
<1>1. Init => RingInv
  BY RingInit
<1>2. RingInv /\ [Next]_vars => RingInv'
  BY RingStep
<1>3. QED
  BY <1>1, <1>2, PTL DEF Spec

\* Every variable of the ring keeps its range, cursors across the turn included.
THEOREM RingTypeCorrect == ASSUME Entries > 1 PROVE Spec => []TypeOK
<1>1. RingInv => TypeOK
  BY DEF RingInv
<1>2. QED
  BY <1>1, RingInvariant, PTL

\* However many producers push, a producer that was let into a cell of a ring of
\* two cells or more (l1_push_req) is alone there: no other producer writes it and
\* the consumer (pop_req) is not copying it, so no request is torn.
THEOREM NoTornRequest == ASSUME Entries > 1 PROVE Spec => []NoSharedCell
<1>1. ASSUME RingInv PROVE NoSharedCell
  <2> SUFFICES ASSUME NEW p \in Producers, pc[p] = "publish"
               PROVE  /\ \A q \in Producers \ {p} :
                           pc[q] = "publish" => CellOf(pos[q]) # CellOf(pos[p])
                      /\ cpc = "free" => CellOf(rq_tail) # CellOf(pos[p])
    BY DEF NoSharedCell
  <2>1. /\ rq_tail \in Cursor /\ pos[p] \in Cursor /\ Off(pos[p]) < Entries /\ Busy(p)
        /\ Off(rq_tail) < Entries
    BY <1>1, Distance, Counting DEF RingInv, TypeOK, WritersLetIn, Busy, Cursor
  <2>2. ASSUME NEW q \in Producers \ {p}, pc[q] = "publish"
        PROVE  CellOf(pos[q]) # CellOf(pos[p])
    <3>1. /\ pos[q] \in Cursor /\ Off(pos[q]) < Entries /\ pos[q] # pos[p]
      BY <1>1, <2>1, <2>2 DEF RingInv, TypeOK, WritersLetIn, HandsApart, Busy
    <3>2. QED
      BY <2>1, <3>1, CellsOfLap
  <2>3. ASSUME cpc = "free" PROVE CellOf(rq_tail) # CellOf(pos[p])
    <3>1. pos[p] # rq_tail
      BY <1>1, <2>1, <2>3 DEF RingInv, PoppedIsFilled, Held
    <3>2. QED
      BY <2>1, <3>1, CellsOfLap
  <2>4. QED
    BY <2>2, <2>3
<1>2. RingInv => NoSharedCell
  BY <1>1
<1>3. QED
  BY <1>2, RingInvariant, PTL
-----------------------------------------------------------------------------
(* The ring implements the queue.                                          *)

\* How far the place to be taken next is from the tail, and how many there are.
Taken == IF cpc = "free" THEN 1 ELSE 0
Places == Out - Taken

\* What the queue holds for each ticket.
Place ==
  [t \in Cursor |->
     IF Holder(t) = {} THEN [who |-> rq[CellOf(t)], filled |-> TRUE]
     ELSE [who |-> CHOOSE p \in Holder(t) : TRUE, filled |-> FALSE]]

\* The queue, ticket by ticket.
View ==
  /\ Places \in Nat
  /\ QueueView = [i \in 1 .. Places |-> Place[Ticket(i)]]
  /\ \A i \in 1 .. Places + 1 : Ticket(i) \in Cursor /\ Off(Ticket(i)) = Taken + i - 1

LEMMA ViewHolds == RingInv => View
<1> SUFFICES ASSUME RingInv PROVE View
  OBVIOUS
<1>1. /\ rq_tail \in Cursor /\ rq_head \in Cursor /\ Out \in Cursor /\ Off(rq_tail) = 0
      /\ Out = Off(rq_head)
  BY Distance, Counting DEF RingInv, TypeOK, Out, Cursor
<1>2. Places \in Nat /\ Taken \in {0, 1}
  BY <1>1 DEF RingInv, PoppedIsFilled, Places, Taken, Cursor
<1>3. NextToTake \in Cursor /\ Off(NextToTake) = Taken
  BY <1>1, Following, Distance, Counting DEF NextToTake, Taken, Cursor
<1>4. Wrap(rq_head - NextToTake) = Places
  <2>1. Wrap(rq_head - NextToTake) = IF rq_head >= NextToTake THEN rq_head - NextToTake
                                     ELSE rq_head - NextToTake + Modulus
    BY <1>1, <1>3, Counting, ModStep DEF Wrap, Cursor
  <2>2. Out = IF rq_head >= rq_tail THEN rq_head - rq_tail ELSE rq_head - rq_tail + Modulus
    BY <1>1, Distance, Zenon
  <2>3. Taken = IF NextToTake >= rq_tail THEN NextToTake - rq_tail ELSE NextToTake - rq_tail + Modulus
    BY <1>1, <1>3, Distance, Zenon
  <2>4. /\ rq_head \in 0 .. Modulus - 1 /\ rq_tail \in 0 .. Modulus - 1
        /\ NextToTake \in 0 .. Modulus - 1 /\ Modulus \in Nat /\ Places = Out - Taken /\ Places \in Nat
    BY <1>1, <1>2, <1>3, Counting DEF Places, Cursor
  <2> HIDE DEF Places, Cursor
  <2>5. QED
    <3> DEFINE h == rq_head
               t == rq_tail
               n == NextToTake
    <3> HIDE DEF h, t, n
    <3>1. /\ h \in 0 .. Modulus - 1 /\ t \in 0 .. Modulus - 1 /\ n \in 0 .. Modulus - 1
          /\ Wrap(rq_head - NextToTake) = IF h >= n THEN h - n ELSE h - n + Modulus
          /\ Out = IF h >= t THEN h - t ELSE h - t + Modulus
          /\ Taken = IF n >= t THEN n - t ELSE n - t + Modulus
      BY <2>1, <2>2, <2>3, <2>4 DEF h, t, n
    <3>2. QED
      BY <2>4, <3>1
<1>5. ASSUME NEW i \in 1 .. Places + 1
      PROVE  Ticket(i) \in Cursor /\ Off(Ticket(i)) = Taken + i - 1
  <2>1. i - 1 \in 0 .. Modulus - 1 /\ Taken + i - 1 \in Cursor
    BY <1>1, <1>2, Counting DEF Places, Cursor
  <2>2. Ticket(i) = IF NextToTake + (i - 1) < Modulus THEN NextToTake + (i - 1)
                    ELSE NextToTake + (i - 1) - Modulus
    <3>1. (NextToTake + (i - 1)) % Modulus =
            IF NextToTake + (i - 1) < Modulus THEN NextToTake + (i - 1)
            ELSE NextToTake + (i - 1) - Modulus
      BY <1>3, <2>1, Counting, ModStep DEF Cursor
    <3>2. NextToTake + i - 1 = NextToTake + (i - 1)
      BY <1>3 DEF Cursor
    <3>3. QED
      BY <3>1, <3>2, Zenon DEF Ticket, Wrap
  <2>3. Ticket(i) \in Cursor
    BY <1>3, <2>1, <2>2, Counting DEF Cursor
  <2>4. QED
    BY <1>1, <1>3, <2>1, <2>2, <2>3, Distance, Counting DEF Cursor
<1>6. QED
  BY <1>2, <1>4, <1>5 DEF View, QueueView, Place

\* Tickets at one distance are one ticket.
LEMMA OffInjective ==
  ASSUME rq_tail \in Cursor, NEW x \in Cursor, NEW y \in Cursor, Off(x) = Off(y)
  PROVE  x = y
BY Distance, Counting DEF Cursor

\* Whose a ticket is.
LEMMA HolderIs ==
  ASSUME HandsApart, NEW t \in Cursor
  PROVE  /\ Holder(t) = {} <=> ~Held(t)
         /\ \A p \in Producers : Busy(p) /\ pos[p] = t => Place[t] = [who |-> p, filled |-> FALSE]
         /\ ~Held(t) => Place[t] = [who |-> rq[CellOf(t)], filled |-> TRUE]
         /\ Place[t].filled \/ Place[t].who \in Holder(t)
<1>1. Holder(t) = {} <=> ~Held(t)
  BY DEF Holder, Held, Busy
<1>2. ASSUME NEW p \in Producers, Busy(p), pos[p] = t
      PROVE  Place[t] = [who |-> p, filled |-> FALSE]
  <2>1. Holder(t) = {p}
    BY <1>2 DEF Holder, HandsApart, Busy
  <2>2. (CHOOSE q \in Holder(t) : TRUE) = p
    BY <2>1
  <2>3. QED
    BY <2>1, <2>2 DEF Place
<1>3. Place[t].filled \/ Place[t].who \in Holder(t)
  BY DEF Place
<1>4. QED
  BY <1>1, <1>2, <1>3 DEF Place

\* A step that leaves the tail's side alone leaves the tickets alone.
LEMMA SameTickets ==
  ASSUME UNCHANGED <<rq_tail, cpc>>, NEW i
  PROVE  Ticket(i)' = Ticket(i) /\ Taken' = Taken
BY DEF Ticket, NextToTake, Taken, Wrap

LEMMA ViewReserve ==
  ASSUME RingInv, RingInv', View, View', NEW p \in Producers, Reserve(p)
  PROVE  Abstract!Reserve(p)
<1>1. /\ HandsApart /\ HandsApart' /\ pc[p] = "idle"
      /\ pos' = [pos EXCEPT ![p] = rq_head] /\ rq_head' = Wrap(rq_head + 1)
      /\ pc' = [pc EXCEPT ![p] = "wait"]
      /\ UNCHANGED <<rq_tail, rq_seq, rq, cpc, out>>
      /\ pc \in [Producers -> {"idle", "wait", "publish"}] /\ pos \in [Producers -> Cursor]
      /\ rq_tail \in Cursor /\ rq_head \in Cursor /\ Out \in Cursor
  BY Distance DEF RingInv, TypeOK, Reserve, consumerVars, Out
<1>2. Places' = Places + 1 /\ Places \in Nat
  BY <1>1, RingReserve DEF View, Places, Taken, Cursor
<1>3. Ticket(Places + 1) = rq_head
  <2>1. Ticket(Places + 1) \in Cursor /\ Off(Ticket(Places + 1)) = Out
    <3>1. Places + 1 \in 1 .. Places + 1
      BY <1>2
    <3>2. Taken + (Places + 1) - 1 = Out
      BY <1>1 DEF Places, Taken, Cursor
    <3>3. QED
      BY <3>1, <3>2 DEF View
  <2>2. QED
    BY <1>1, <2>1, OffInjective DEF Out
<1>4. ASSUME NEW i \in 1 .. Places
      PROVE  Ticket(i) # rq_head
  BY <1>1, <1>2 DEF View, Places, Taken, Cursor, Out
<1>5. ASSUME NEW t \in Cursor, t # rq_head
      PROVE  Place'[t] = Place[t]
  <2>1. Holder(t)' = Holder(t)
    BY <1>1, <1>5 DEF Holder
  <2>2. QED
    BY <1>1, <2>1 DEF Place, CellOf, Cursor
<1>7. ASSUME NEW t \in Cursor, t = rq_head
      PROVE  Place'[t] = [who |-> p, filled |-> FALSE]
  <2>1. Holder(t)' = {q \in Producers : Busy(q)' /\ pos'[q] = t}
    BY DEF Holder, Busy
  <2>2. Busy(p)' /\ pos'[p] = t
    BY <1>1, <1>7 DEF Busy
  <2>3. Holder(t)' = {p}
    BY <1>7, <2>1, <2>2, <1>1 DEF HandsApart
  <2>4. (CHOOSE q \in Holder(t)' : TRUE) = p
    BY <2>3
  <2>5. QED
    BY <2>3, <2>4 DEF Place, Cursor
<1>6. QueueView' = [i \in 1 .. Places + 1 |-> IF i = Places + 1 THEN [who |-> p, filled |-> FALSE]
                                              ELSE Place[Ticket(i)]]
  <2>1. QueueView' = [i \in 1 .. Places + 1 |-> Place'[Ticket(i)']]
    BY <1>2 DEF View
  <2>2. ASSUME NEW i \in 1 .. Places + 1
        PROVE  Place'[Ticket(i)'] = IF i = Places + 1 THEN [who |-> p, filled |-> FALSE]
                                      ELSE Place[Ticket(i)]
    <3>1. Ticket(i)' = Ticket(i) /\ Ticket(i) \in Cursor
      BY <1>1, SameTickets DEF View
    <3>2. CASE i = Places + 1
      BY <1>3, <1>7, <3>1, <3>2
    <3>3. CASE i # Places + 1
      BY <1>2, <1>4, <1>5, <3>1, <3>3
    <3>4. QED
      BY <3>2, <3>3
  <2>3. QED
    BY <2>1, <2>2
<1>8. QueueView' = Append(QueueView, [who |-> p, filled |-> FALSE])
  <2> DEFINE q == [i \in 1 .. Places |-> Place[Ticket(i)]]
             e == [who |-> p, filled |-> FALSE]
  <2>1. Len(q) = Places /\ DOMAIN q = 1 .. Places
    BY <1>2
  <2>2. Append(q, e) = [i \in 1 .. Places + 1 |-> IF i = Places + 1 THEN e ELSE q[i]]
    BY <1>2, <2>1
  <2>3. \A i \in 1 .. Places + 1 : i # Places + 1 => q[i] = Place[Ticket(i)]
    BY <1>2
  <2>4. QueueView = q
    BY DEF View
  <2> HIDE DEF q, e
  <2>5. QueueView' = [i \in 1 .. Places + 1 |-> IF i = Places + 1 THEN e ELSE Place[Ticket(i)]]
    BY <1>6 DEF e
  <2>6. QueueView' = Append(q, e)
    BY <2>2, <2>3, <2>5
  <2>7. QED
    BY <2>4, <2>6 DEF e
<1>9. ASSUME NEW i \in DOMAIN QueueView, QueueView[i].who = p
      PROVE  QueueView[i].filled
  <2>1. i \in 1 .. Places /\ QueueView[i] = Place[Ticket(i)]
    BY DEF View
  <2>2. Ticket(i) \in Cursor
    BY <1>2, <2>1 DEF View
  <2>3. p \notin Holder(Ticket(i))
    BY <1>1 DEF Holder
  <2>4. QED
    BY <1>1, <1>9, <2>1, <2>2, <2>3, HolderIs
<1>10. QED
  BY <1>1, <1>8, <1>9 DEF Abstract!Reserve

LEMMA ViewWrite ==
  ASSUME RingInv, RingInv', View, View', Entries > 1, NEW p \in Producers, Write(p)
  PROVE  UNCHANGED Abstract!vars
<1>1. /\ HandsApart /\ pc[p] = "wait" /\ Busy(p)
      /\ rq' = [rq EXCEPT ![CellOf(pos[p])] = p]
      /\ pc' = [pc EXCEPT ![p] = "publish"]
      /\ UNCHANGED <<rq_head, rq_tail, rq_seq, pos, cpc, out>>
      /\ pc \in [Producers -> {"idle", "wait", "publish"}] /\ pos[p] \in Cursor
      /\ rq_tail \in Cursor
  BY DEF RingInv, TypeOK, Write, consumerVars, Busy
<1>2. Off(pos[p]) < Entries
  BY <1>1, LetIn DEF RingInv, HandsApart, Write
<1>3. Places' = Places
  BY <1>1 DEF Places, Taken, Out, Off, Wrap
<1>4. ASSUME NEW t \in Cursor, Off(t) < Out
      PROVE  Place'[t] = Place[t]
  <2>1. Holder(t)' = Holder(t)
    BY <1>1 DEF Holder
  <2>2. CASE Held(t)
    <3>1. Holder(t) # {}
      BY <1>1, <2>2, HolderIs
    <3>2. QED
      BY <2>1, <3>1 DEF Place, Cursor
  <2>3. CASE ~Held(t)
    <3>1. Off(t) < Entries /\ t # pos[p]
      BY <1>1, <1>4, <2>3 DEF RingInv, FilledCells, Held
    <3>2. CellOf(t) # CellOf(pos[p])
      BY <1>1, <1>2, <3>1, CellsOfLap
    <3>3. rq'[CellOf(t)] = rq[CellOf(t)]
      BY <1>1, <3>2 DEF RingInv, TypeOK
    <3>4. QED
      BY <2>1, <3>3 DEF Place, Cursor, CellOf
  <2>4. QED
    BY <2>2, <2>3
<1>5. ASSUME NEW i \in 1 .. Places
      PROVE  Place'[Ticket(i)'] = Place[Ticket(i)]
  <2>1. Ticket(i)' = Ticket(i) /\ Ticket(i) \in Cursor
    BY <1>1, SameTickets DEF View
  <2>2. Off(Ticket(i)) < Out
    <3>1. Off(Ticket(i)) = Taken + i - 1
      BY DEF View
    <3>2. Out \in Int /\ Taken \in Int
      BY Distance DEF Taken, Out, Cursor, RingInv, TypeOK
    <3>3. QED
      BY <3>1, <3>2 DEF Places
  <2>3. QED
    BY <1>4, <2>1, <2>2
<1>6. QueueView' = QueueView
  BY <1>3, <1>5 DEF View
<1>7. QED
  BY <1>1, <1>6 DEF Abstract!vars

\* A place that is filled in.
LEMMA FilledPlace ==
  ASSUME NEW p, NEW old, NEW new
  PROVE  [[who |-> p, filled |-> old] EXCEPT !.filled = new] = [who |-> p, filled |-> new]
OBVIOUS

LEMMA ViewPublish ==
  ASSUME RingInv, RingInv', View, View', NEW p \in Producers, Publish(p)
  PROVE  \E i \in DOMAIN QueueView : Abstract!Fill(i)
<1>1. /\ HandsApart /\ HandsApart' /\ pc[p] = "publish" /\ Busy(p)
      /\ pc' = [pc EXCEPT ![p] = "idle"]
      /\ UNCHANGED <<rq_head, rq_tail, rq, pos, cpc, out>>
      /\ pc \in [Producers -> {"idle", "wait", "publish"}] /\ pos[p] \in Cursor
      /\ rq_tail \in Cursor /\ Out \in Cursor /\ Off(pos[p]) \in Cursor
  BY Distance DEF RingInv, TypeOK, Publish, consumerVars, Busy, Out
<1>2. Off(pos[p]) < Entries /\ Off(pos[p]) < Out /\ rq[CellOf(pos[p])] = p
  BY <1>1 DEF RingInv, HandsApart, WritersLetIn
<1>3. Off(pos[p]) >= Taken /\ Taken \in {0, 1}
  <2>1. CASE cpc = "free"
    <3>1. pos[p] # rq_tail
      BY <1>1, <2>1 DEF RingInv, PoppedIsFilled, Held
    <3>2. Off(rq_tail) = 0
      BY <1>1, Distance DEF Cursor
    <3>3. Off(pos[p]) # 0
      BY <1>1, <3>1, <3>2, OffInjective
    <3>4. QED
      BY <1>1, <2>1, <3>3 DEF Taken, Cursor
  <2>2. QED
    BY <1>1, <2>1 DEF Taken, Cursor
<1> DEFINE k == Off(pos[p]) - Taken + 1
<1>4. k \in 1 .. Places /\ k \in 1 .. Places + 1 /\ k <= Entries /\ Taken + k - 1 = Off(pos[p])
  BY <1>1, <1>2, <1>3, Counting DEF Places, Cursor
<1> HIDE DEF k
<1>5. Ticket(k) = pos[p]
  <2>1. Ticket(k) \in Cursor /\ Off(Ticket(k)) = Off(pos[p])
    BY <1>4 DEF View
  <2>2. QED
    BY <1>1, <2>1, OffInjective
<1>6. Places' = Places
  BY <1>1 DEF Places, Taken, Out, Off, Wrap
<1>7. Place[pos[p]] = [who |-> p, filled |-> FALSE]
  BY <1>1, HolderIs
<1>8. Place'[pos[p]] = [who |-> p, filled |-> TRUE]
  <2>1. Holder(pos[p])' = {}
    BY <1>1 DEF Holder, HandsApart, Busy
  <2>2. Place'[pos[p]] = [who |-> rq'[CellOf(pos[p])], filled |-> TRUE]
    BY <1>1, <2>1 DEF Place, Cursor, CellOf, Holder
  <2>3. QED
    BY <1>1, <1>2, <2>2
<1>9. ASSUME NEW t \in Cursor, t # pos[p]
      PROVE  Place'[t] = Place[t]
  <2>1. Holder(t)' = Holder(t)
    BY <1>1, <1>9 DEF Holder
  <2>2. QED
    BY <1>1, <2>1 DEF Place, CellOf, Cursor
<1>10. ASSUME NEW i \in 1 .. Places
       PROVE  Place'[Ticket(i)'] = IF i = k THEN [who |-> p, filled |-> TRUE]
                                   ELSE Place[Ticket(i)]
  <2>1. Ticket(i)' = Ticket(i) /\ Ticket(i) \in Cursor
    BY <1>1, SameTickets DEF View
  <2>2. CASE i = k
    BY <1>5, <1>7, <1>8, <2>1, <2>2
  <2>3. CASE i # k
    <3>1. Off(Ticket(i)) = Taken + i - 1 /\ Off(Ticket(k)) = Taken + k - 1
      BY <1>4 DEF View
    <3>2. Ticket(i) # Ticket(k)
      BY <1>3, <1>4, <2>3, <3>1
    <3>3. QED
      BY <1>5, <1>9, <2>1, <2>3, <3>2
  <2>4. QED
    BY <2>2, <2>3
<1>11. /\ QueueView[k] = [who |-> p, filled |-> FALSE] /\ k \in DOMAIN QueueView
       /\ [QueueView[k] EXCEPT !.filled = TRUE] = [who |-> p, filled |-> TRUE]
  <2>1. QueueView[k] = [who |-> p, filled |-> FALSE] /\ k \in DOMAIN QueueView
    BY <1>4, <1>5, <1>7 DEF View
  <2>2. [[who |-> p, filled |-> FALSE] EXCEPT !.filled = TRUE] = [who |-> p, filled |-> TRUE]
    BY FilledPlace
  <2>3. QED
    BY <2>1, <2>2
<1>12. QueueView' = [QueueView EXCEPT ![k].filled = TRUE]
  <2>1. QueueView' = [i \in 1 .. Places |-> Place'[Ticket(i)']]
    BY <1>6 DEF View
  <2>2. QueueView = [i \in 1 .. Places |-> Place[Ticket(i)]]
    BY DEF View
  <2>3. [QueueView EXCEPT ![k].filled = TRUE] =
          [i \in 1 .. Places |-> IF i = k THEN [who |-> p, filled |-> TRUE] ELSE Place[Ticket(i)]]
    BY <1>11, <2>2
  <2>4. QED
    BY <1>10, <2>1, <2>3
<1>13. Abstract!Fill(k)
  BY <1>1, <1>4, <1>11, <1>12 DEF Abstract!Fill
<1>14. QED
  BY <1>11, <1>13

LEMMA ViewPopCopy ==
  ASSUME RingInv, RingInv', View, View', PopCopy
  PROVE  Abstract!Take
<1>1. /\ HandsApart /\ cpc = "poll" /\ rq_tail \in Cursor
      /\ out' = rq[CellOf(rq_tail)] /\ cpc' = "free"
      /\ UNCHANGED <<rq_head, rq_tail, rq_seq, rq, pc, pos>>
  BY DEF RingInv, TypeOK, PopCopy, producerVars
<1>2. Out > 0 /\ ~Held(rq_tail) /\ Out \in Cursor
  BY RingPopCopy, Distance DEF RingInv, TypeOK, Out
<1>3. Places' = Places - 1 /\ Places > 0 /\ Places \in Nat
  <2>1. Out' = Out
    BY <1>1 DEF Out, Off, Wrap
  <2>2. QED
    BY <1>1, <1>2, <2>1 DEF Places, Taken, Cursor
<1>4. Place' = Place
  BY <1>1 DEF Place, Holder, CellOf, Cursor
<1>5. ASSUME NEW i \in Int
      PROVE  Ticket(i)' = Ticket(i + 1)
  <2>1. Ticket(i)' = (((rq_tail + 1) % Modulus) + (i - 1)) % Modulus
    <3>1. NextToTake' = (rq_tail + 1) % Modulus /\ (rq_tail + 1) % Modulus \in Cursor
      BY <1>1, Following DEF NextToTake, Wrap
    <3>2. NextToTake' + i - 1 = NextToTake' + (i - 1)
      BY <3>1 DEF Cursor
    <3>3. Ticket(i)' = (NextToTake' + i - 1) % Modulus
      BY DEF Ticket, Wrap
    <3>4. QED
      BY <3>1, <3>2, <3>3, Zenon
  <2>2. rq_tail + 1 \in Int /\ i - 1 \in Int /\ (rq_tail + 1) + (i - 1) = rq_tail + (i + 1) - 1
    BY <1>1 DEF Cursor
  <2>3. (((rq_tail + 1) % Modulus) + (i - 1)) % Modulus = ((rq_tail + 1) + (i - 1)) % Modulus
    BY <2>2, Counting, ModPlus, Zenon
  <2>4. Ticket(i + 1) = (rq_tail + (i + 1) - 1) % Modulus
    BY <1>1 DEF Ticket, NextToTake, Wrap
  <2>5. QED
    BY <2>1, <2>2, <2>3, <2>4, Zenon
<1>6. Place[Ticket(1)] = [who |-> rq[CellOf(rq_tail)], filled |-> TRUE]
  <2>1. 1 \in 1 .. Places + 1 /\ Taken = 0
    BY <1>1, <1>3 DEF Taken
  <2>2. Ticket(1) \in Cursor /\ Off(Ticket(1)) = 0
    BY <2>1 DEF View
  <2>3. Off(rq_tail) = 0
    BY <1>1, Distance DEF Cursor
  <2>4. Ticket(1) = rq_tail
    BY <1>1, <2>2, <2>3, OffInjective
  <2>5. QED
    BY <1>1, <1>2, <2>4, HolderIs
<1> DEFINE q == [i \in 1 .. Places |-> Place[Ticket(i)]]
<1>7. QueueView = q /\ q[1] = Place[Ticket(1)] /\ Len(q) = Places /\ q # <<>>
  BY <1>3 DEF View
<1>8. Tail(q) = [i \in 1 .. Places - 1 |-> q[i + 1]] /\ Head(q) = q[1]
  BY <1>3, <1>7
<1>9. \A i \in 1 .. Places - 1 : q[i + 1] = Place[Ticket(i + 1)]
  BY <1>3
<1>10. QueueView' = [i \in 1 .. Places - 1 |-> Place[Ticket(i + 1)]]
  <2>1. QueueView' = [i \in 1 .. Places' |-> Place'[Ticket(i)']]
    BY DEF View
  <2>2. \A i \in 1 .. Places' : Place'[Ticket(i)'] = Place[Ticket(i + 1)]
    BY <1>3, <1>4, <1>5
  <2>3. QED
    BY <1>3, <2>1, <2>2
<1> HIDE DEF q
<1>11. QueueView' = Tail(QueueView)
  BY <1>7, <1>8, <1>9, <1>10
<1>12. QED
  BY <1>1, <1>6, <1>7, <1>8, <1>11 DEF Abstract!Take

LEMMA ViewPopFree ==
  ASSUME RingInv, RingInv', View, View', PopFree
  PROVE  UNCHANGED Abstract!vars
<1>1. /\ cpc = "free" /\ cpc' = "poll" /\ rq_tail' = Wrap(rq_tail + 1)
      /\ UNCHANGED <<rq_head, rq, pc, pos, out>>
  BY DEF PopFree, producerVars
<1>2. Places' = Places
  BY <1>1, RingPopFree DEF Places, Taken, View
<1>3. NextToTake' = NextToTake
  BY <1>1 DEF NextToTake
<1>4. \A i \in Int : Ticket(i)' = Ticket(i)
  BY <1>3 DEF Ticket, Wrap
<1>5. Place' = Place
  BY <1>1 DEF Place, Holder, CellOf, Cursor
<1>6. QueueView' = QueueView
  BY <1>2, <1>4, <1>5 DEF View
<1>7. QED
  BY <1>1, <1>6 DEF Abstract!vars

\* A ring of two cells or more implements the bounded queue, across the turns of
\* its counters: requests are taken in the order their tickets were drawn
\* (l1_push_req), each once, only after its producer published it, and one that
\* has no room waits (pop_req makes it).
THEOREM RingImplementsQueue == ASSUME Entries > 1 PROVE Spec => ImplementsQueue
<1>1. ASSUME Init PROVE Abstract!Init
  <2>1. RingInv
    BY <1>1, RingInit
  <2>2. View
    BY <2>1, ViewHolds
  <2>3. Places = 0
    BY <1>1, <2>1, Distance, Counting DEF Init, Places, Taken, Out, RingInv, TypeOK, Cursor
  <2>4. QueueView = <<>>
    BY <2>2, <2>3 DEF View
  <2>5. QED
    BY <1>1, <2>4 DEF Init, Abstract!Init, None, Abstract!None
<1>2. ASSUME RingInv, RingInv', View, View', [Next]_vars
      PROVE  [Abstract!Next]_(Abstract!vars)
  <2>1. ASSUME NEW p \in Producers, Reserve(p) PROVE Abstract!Next
    BY <1>2, <2>1, ViewReserve DEF Abstract!Next
  <2>2. ASSUME NEW p \in Producers, Write(p) PROVE UNCHANGED Abstract!vars
    BY <1>2, <2>2, ViewWrite
  <2>3. ASSUME NEW p \in Producers, Publish(p) PROVE Abstract!Next
    BY <1>2, <2>3, ViewPublish DEF Abstract!Next
  <2>4. CASE PopCopy
    BY <1>2, <2>4, ViewPopCopy DEF Abstract!Next
  <2>5. CASE PopFree
    BY <1>2, <2>5, ViewPopFree
  <2>6. CASE UNCHANGED vars
    <3>1. UNCHANGED <<rq_head, rq_tail, rq, pc, pos, cpc, out>>
      BY <2>6 DEF vars
    <3>2. UNCHANGED <<QueueView, out>>
      BY <3>1 DEF QueueView, NextToTake, Ticket, Holder, Wrap, CellOf
    <3>3. QED
      BY <3>2 DEF Abstract!vars
  <2>7. QED
    BY <1>2, <2>1, <2>2, <2>3, <2>4, <2>5, <2>6 DEF Next
<1>3. RingInv => View
  BY ViewHolds
<1>4. RingInv /\ RingInv' /\ View /\ View' /\ [Next]_vars => [Abstract!Next]_(Abstract!vars)
  BY <1>2
<1>5. Init => Abstract!Init
  BY <1>1
<1>6. Spec => []RingInv
  BY RingInvariant
<1>7. QED
  BY <1>3, <1>4, <1>5, <1>6, PTL DEF Spec, ImplementsQueue, Abstract!Spec
=============================================================================
