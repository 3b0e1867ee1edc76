-------------------------- MODULE ControllerProofs --------------------------
(***************************************************************************)
(* Theorems about the controller.  Of the registry of GPU memory under it: *)
(* translations made in RCU sections stay mapped, for any readers, regions *)
(* and addresses, unless memory for its table lacks.  Of the rest: host    *)
(* and device agree on the admin queues through any sequence of starts,    *)
(* and no one polls or answers on a queue that is gone.                    *)
(***************************************************************************)
EXTENDS ControllerInv, FiniteSetsExt, WellFoundedInduction

Stages == {"unused", "pinned", "mapped", "listed", "unlinked", "freed"}

Region == [stage : Stages, addr : Addrs \cup {NoRegion}, valid : BOOLEAN]

ReaderState == [at : {"out", "in", "use", "scan", "lock"},
                addr : Addrs \cup {NoRegion}, found : Regions \cup {NoRegion}]

Distinct(s) == \A i, j \in 1 .. Len(s) : s[i] = s[j] => i = j

RegistryType ==
  /\ region \in [Regions -> Region]
  /\ regions \in Seq(Regions) /\ Distinct(regions) /\ lookup \subseteq Regions
  /\ grace \in [Regions -> SUBSET Readers]
  /\ reader \in [Readers -> ReaderState]
  /\ automap \in Seq(Addrs \cup {NoRegion}) /\ Distinct(automap)

\* What a reader uses is listed, or unlinked and waiting for that reader.
UsesHold ==
  \A x \in Readers : reader[x].at = "use" =>
    /\ reader[x].found \in Regions
    /\ region[reader[x].found].addr = reader[x].addr
    /\ \/ region[reader[x].found].stage = "listed"
       \/ region[reader[x].found].stage = "unlinked" /\ x \in grace[reader[x].found]

\* The list has the regions that are listed.
ListAgrees == \A r \in Regions : region[r].stage = "listed" <=> r \in ToSet(regions)

\* The table has entries of listed regions only, and of each that is valid.
TableAgrees ==
  /\ lookup \subseteq ToSet(regions)
  /\ \A r \in Regions : region[r].stage = "listed" /\ region[r].valid => r \in lookup

\* A step that changes region r at most.
Changes(r) ==
  /\ region' \in [Regions -> Region]
  /\ \A q \in Regions \ {r} : region'[q] = region[q]

RegistryInv == RegistryType /\ ListAgrees /\ (~conf.scarce => UsesHold /\ TableAgrees)

LEMMA RegistryInvHolds == RegistryInv => RegistryHolds
BY DEF RegistryInv, RegistryType, UsesHold, ListAgrees, TableAgrees, RegistryHolds, Registered, Distinct

\* The elements of a sequence, of one longer by an element, and of one without an element.
LEMMA Elems ==
  ASSUME NEW T, NEW s \in Seq(T)
  PROVE  ToSet(s) = {s[i] : i \in 1 .. Len(s)} /\ ToSet(s) \subseteq T
BY DEF ToSet

LEMMA Appended ==
  ASSUME NEW T, NEW s \in Seq(T), NEW e \in T, Distinct(s), e \notin ToSet(s)
  PROVE  /\ Append(s, e) \in Seq(T)
         /\ ToSet(Append(s, e)) = ToSet(s) \cup {e}
         /\ Distinct(Append(s, e))
<1> DEFINE t == Append(s, e)
<1>1. /\ t \in Seq(T) /\ Len(t) = Len(s) + 1 /\ t[Len(s) + 1] = e
      /\ \A i \in 1 .. Len(s) : t[i] = s[i]
  BY AppendProperties
<1>2. ToSet(t) = ToSet(s) \cup {e}
  BY <1>1, LenProperties DEF ToSet
<1>3. \A i \in 1 .. Len(s) : s[i] # e
  BY Elems
<1>4. Distinct(t)
  BY <1>1, <1>3 DEF Distinct
<1>5. QED
  BY <1>1, <1>2, <1>4

LEMMA Removed ==
  ASSUME NEW T, NEW s \in Seq(T), NEW k \in 1 .. Len(s), Distinct(s)
  PROVE  /\ RemoveAt(s, k) \in Seq(T)
         /\ ToSet(RemoveAt(s, k)) = ToSet(s) \ {s[k]}
         /\ Distinct(RemoveAt(s, k))
<1> DEFINE t == RemoveAt(s, k)
           front == SubSeq(s, 1, k - 1)
           back == SubSeq(s, k + 1, Len(s))
<1>1. Len(s) \in Nat
  BY LenProperties
<1>2. front \in Seq(T) /\ Len(front) = k - 1 /\ \A i \in 1 .. k - 1 : front[i] = s[i]
  BY <1>1, SubSeqProperties
<1>3. back \in Seq(T) /\ Len(back) = Len(s) - k /\ \A i \in 1 .. Len(s) - k : back[i] = s[k + i]
  BY <1>1, SubSeqProperties
<1>4. /\ t \in Seq(T) /\ Len(t) = Len(s) - 1
      /\ \A i \in 1 .. Len(s) - 1 : t[i] = IF i < k THEN s[i] ELSE s[i + 1]
  <2>1. t = front \o back
    BY DEF RemoveAt
  <2> HIDE DEF t, front, back
  <2>2. t \in Seq(T) /\ Len(t) = Len(front) + Len(back)
        /\ \A i \in 1 .. Len(front) + Len(back) :
             t[i] = IF i <= Len(front) THEN front[i] ELSE back[i - Len(front)]
    BY <2>1, <1>2, <1>3, ConcatProperties
  <2>3. Len(front) + Len(back) = Len(s) - 1
    BY <1>1, <1>2, <1>3
  <2>4. ASSUME NEW i \in 1 .. Len(s) - 1 PROVE t[i] = IF i < k THEN s[i] ELSE s[i + 1]
    <3>1. CASE i < k
      <4>1. t[i] = front[i] /\ i \in 1 .. k - 1
        BY <3>1, <2>2, <2>3, <1>1, <1>2
      <4>2. QED
        BY <3>1, <4>1, <1>2
    <3>2. CASE i >= k
      <4>1. t[i] = back[i - (k - 1)] /\ i - (k - 1) \in 1 .. Len(s) - k
        BY <3>2, <2>2, <2>3, <1>1, <1>2
      <4>2. k + (i - (k - 1)) = i + 1
        OBVIOUS
      <4>3. QED
        BY <3>2, <4>1, <4>2, <1>3
    <3>3. QED
      BY <3>1, <3>2
  <2>5. QED
    BY <2>2, <2>3, <2>4
<1> HIDE DEF t
<1>5. Distinct(t)
  BY <1>1, <1>4 DEF Distinct
<1>6. ToSet(t) \subseteq ToSet(s) \ {s[k]}
  <2>1. SUFFICES ASSUME NEW i \in 1 .. Len(t) PROVE t[i] \in ToSet(s) \ {s[k]}
    BY <1>4, Elems
  <2>2. CASE i < k
    BY <2>2, <1>1, <1>4, Elems DEF Distinct
  <2>3. CASE i >= k
    <3>1. t[i] = s[i + 1] /\ i + 1 \in 1 .. Len(s) /\ i + 1 # k
      BY <2>3, <1>1, <1>4
    <3>2. QED
      BY <3>1, Elems DEF Distinct
  <2>4. QED
    BY <2>2, <2>3
<1>7. ToSet(s) \ {s[k]} \subseteq ToSet(t)
  <2>1. SUFFICES ASSUME NEW i \in 1 .. Len(s), i # k PROVE s[i] \in ToSet(t)
    BY Elems
  <2>2. CASE i < k
    <3>1. i \in 1 .. Len(t) /\ t[i] = s[i]
      BY <2>2, <1>1, <1>4
    <3>2. QED
      BY <3>1, <1>4, Elems
  <2>3. CASE i > k
    <3>1. i - 1 \in 1 .. Len(t) /\ t[i - 1] = s[i]
      BY <2>3, <1>1, <1>4
    <3>2. QED
      BY <3>1, <1>4, Elems
  <2>4. QED
    BY <2>1, <2>2, <2>3
<1>8. QED
  BY <1>4, <1>5, <1>6, <1>7 DEF t
\* A set of naturals that has an element has a least one.
LEMMA Least ==
  ASSUME NEW S \in SUBSET Nat, S # {}
  PROVE  Min(S) \in S
<1> DEFINE R == {ss \in Nat \X Nat : ss[1] < ss[2]}
<1>1. IsWellFoundedOn(R, Nat)
  BY NatLessThanWellFounded DEF OpToRel
<1>2. \E x \in S : \A y \in S : ~ (<<y, x>> \in R)
  BY <1>1, WFMin
<1>3. PICK x \in S : \A y \in S : ~ (<<y, x>> \in R)
  BY <1>2
<1>4. \A y \in S : x <= y
  <2>1. TAKE y \in S
  <2>2. <<y, x>> \in Nat \X Nat /\ ~ (y < x)
    BY <1>3
  <2>3. QED
    BY <2>2
<1>5. QED
  BY <1>4 DEF Min
-----------------------------------------------------------------------------
(* Each step of the registry keeps the invariant.                          *)

\* What a step may put in place of a region.
LEMMA Changed ==
  ASSUME RegistryType, NEW r \in Regions, NEW v \in Region, region' = [region EXCEPT ![r] = v]
  PROVE  Changes(r)
BY DEF RegistryType, Changes

LEMMA NewRegion ==
  /\ Unused \in Region
  /\ \A a \in Addrs : [stage |-> "pinned", addr |-> a, valid |-> TRUE] \in Region
  /\ \A v \in Region, st \in Stages : [v EXCEPT !.stage = st] \in Region
  /\ \A v \in Region : [v EXCEPT !.valid = FALSE] \in Region
BY DEF Unused, Region, Stages

LEMMA KeptByPinning ==
  ASSUME RegistryInv, NEW r \in Regions,
         (\E a \in Addrs : GetPages(r, a)) \/ MapPages(r) \/ Reclaim(r) \/ FreeRegion(r),
         conf' = conf
  PROVE  RegistryInv'
<1> USE DEF RegistryInv, RegistryType, Readers
<1>1. UNCHANGED <<regions, lookup, grace, reader, automap>>
  BY DEF GetPages, MapPages, Reclaim, FreeRegion
<1>0. Changes(r)
  <2>0. \E v \in Region : region' = [region EXCEPT ![r] = v]
    <3>1. region[r] \in Region
      OBVIOUS
    <3>2. CASE \E a \in Addrs : GetPages(r, a)
      BY <3>2, NewRegion DEF GetPages
    <3>3. CASE MapPages(r)
      <4>1. region' = [region EXCEPT ![r] = [region[r] EXCEPT !.stage = "mapped"]]
            \/ region' = [region EXCEPT ![r] = Unused]
        BY <3>3 DEF MapPages
      <4>2. QED
        BY <3>1, <4>1, NewRegion DEF Stages
    <3>4. CASE Reclaim(r)
      <4>1. region' = [region EXCEPT ![r] = [region[r] EXCEPT !.valid = FALSE]]
        BY <3>4 DEF Reclaim
      <4>2. QED
        BY <3>1, <4>1, NewRegion
    <3>5. CASE FreeRegion(r)
      <4>1. [region[r] EXCEPT !.stage = "freed"] \in Region
        BY <3>1, NewRegion DEF Stages
      <4>2. [[region[r] EXCEPT !.stage = "freed"] EXCEPT !.valid = FALSE] \in Region
        BY <4>1, NewRegion
      <4>3. [region[r] EXCEPT !.stage = "freed", !.valid = FALSE]
              = [[region[r] EXCEPT !.stage = "freed"] EXCEPT !.valid = FALSE]
        BY <3>1 DEF Region
      <4>4. QED
        BY <3>5, <4>2, <4>3, NewRegion DEF FreeRegion, Freed
    <3>6. QED
      BY <3>2, <3>3, <3>4, <3>5
  <2>1. QED
    BY <2>0, Changed
<1>2. RegistryType'
  BY <1>0, <1>1 DEF Changes, Distinct
<1>3. CASE Reclaim(r)
  <2>1. region'[r].stage = region[r].stage /\ region'[r].addr = region[r].addr /\ ~region'[r].valid
    BY <1>3 DEF Reclaim
  <2>2. ListAgrees'
    BY <1>0, <1>1, <2>1 DEF Changes, ListAgrees
  <2>3. ASSUME ~conf.scarce PROVE UsesHold' /\ TableAgrees'
    <3>1. UsesHold'
      BY <1>0, <1>1, <2>1, <2>3 DEF Changes, UsesHold
    <3>2. TableAgrees'
      BY <1>0, <1>1, <2>1, <2>3 DEF Changes, TableAgrees
    <3>3. QED
      BY <3>1, <3>2
  <2>4. QED
    BY <1>2, <2>2, <2>3
<1>4. CASE ~Reclaim(r)
  <2>1. region[r].stage # "listed" /\ region'[r].stage # "listed"
    <3>1. CASE \E a \in Addrs : GetPages(r, a)
      BY <3>1 DEF GetPages
    <3>2. CASE MapPages(r)
      <4>1. region'[r] = [region[r] EXCEPT !.stage = "mapped"] \/ region'[r] = Unused
        BY <3>2 DEF MapPages
      <4>2. [region[r] EXCEPT !.stage = "mapped"].stage = "mapped" /\ Unused.stage = "unused"
        BY DEF Unused, Region
      <4>3. region'[r].stage \in {"mapped", "unused"}
        BY <4>1, <4>2
      <4>4. QED
        BY <3>2, <4>3 DEF MapPages
    <3>3. CASE FreeRegion(r)
      <4>1. region'[r] = Freed(r) /\ region[r] \in Region
        BY <3>3 DEF FreeRegion
      <4>2. Freed(r).stage \in {"freed", "unused"}
        BY <4>1 DEF Freed, Unused, Region
      <4>3. QED
        BY <3>3, <4>1, <4>2 DEF FreeRegion
    <3>4. QED
      BY <1>4, <3>1, <3>2, <3>3
  <2>2. region[r].stage = "unlinked" => grace[r] = {}
    BY <1>4 DEF GetPages, MapPages, FreeRegion
  <2>3. ListAgrees'
    BY <1>0, <1>1, <2>1 DEF Changes, ListAgrees
  <2>4. ASSUME ~conf.scarce PROVE UsesHold' /\ TableAgrees'
    <3>1. \A x \in Readers : reader[x].at = "use" => reader[x].found # r
      BY <2>1, <2>2, <2>4 DEF UsesHold
    <3>2. UsesHold'
      BY <1>0, <1>1, <2>4, <3>1 DEF Changes, UsesHold
    <3>3. TableAgrees'
      BY <1>0, <1>1, <2>1, <2>4 DEF Changes, TableAgrees
    <3>4. QED
      BY <3>2, <3>3
  <2>5. QED
    BY <1>2, <2>3, <2>4
<1>5. QED
  BY <1>3, <1>4

\* A rebuilt table has the valid regions of the list, or is the old one where memory is
\* scarce.
LEMMA RebuiltIs ==
  ASSUME NEW list, NEW scarce, Rebuild(list, scarce)
  PROVE  lookup' = {q \in ToSet(list) : region[q].valid} \/ (scarce /\ lookup' = lookup)
BY DEF Rebuild, Rebuilt

LEMMA KeptByPublish ==
  ASSUME RegistryInv, NEW r \in Regions, Publish(r, conf.scarce), conf' = conf
  PROVE  RegistryInv'
<1> USE DEF RegistryInv, RegistryType, Readers
<1>1. /\ UNCHANGED <<grace, reader, automap>>
      /\ region[r].stage = "mapped"
  BY DEF Publish
<1>0. Changes(r)
  <2>1. CASE Len(regions) >= MaxRegions
    BY <2>1, NewRegion, Changed DEF Publish
  <2>2. CASE ~(Len(regions) >= MaxRegions)
    <3>1. region' = [region EXCEPT ![r] = [region[r] EXCEPT !.stage = "listed"]]
      BY <2>2 DEF Publish
    <3>2. [region[r] EXCEPT !.stage = "listed"] \in Region
      BY NewRegion DEF Stages
    <3>3. QED
      BY <3>1, <3>2, Changed
  <2>3. QED
    BY <2>1, <2>2
<1>3. ASSUME ~conf.scarce PROVE UsesHold'
  <2>1. \A x \in Readers : reader[x].at = "use" => reader[x].found # r
    BY <1>1, <1>3 DEF UsesHold
  <2>2. QED
    BY <1>0, <1>1, <1>3, <2>1 DEF Changes, UsesHold
<1>4. r \notin ToSet(regions)
  BY <1>1 DEF ListAgrees
<1>5. CASE Len(regions) >= MaxRegions
  <2>1. UNCHANGED <<regions, lookup>> /\ region'[r].stage = "unused"
    BY <1>5 DEF Publish, Unused
  <2>2. RegistryType'
    BY <1>0, <1>1, <2>1 DEF Changes, Distinct
  <2>3. ListAgrees'
    BY <1>0, <1>1, <1>4, <2>1 DEF Changes, ListAgrees
  <2>4. ASSUME ~conf.scarce PROVE TableAgrees'
    BY <1>0, <1>1, <1>4, <2>1, <2>4 DEF Changes, TableAgrees
  <2>5. QED
    BY <1>3, <2>2, <2>3, <2>4
<1>6. CASE ~(Len(regions) >= MaxRegions)
  <2>0. /\ region' = [region EXCEPT ![r].stage = "listed"]
        /\ regions' = Append(regions, r)
        /\ Rebuild(regions', conf.scarce)
    BY <1>6 DEF Publish
  <2>1. /\ region'[r].stage = "listed" /\ region'[r].valid = region[r].valid
        /\ regions' = Append(regions, r)
        /\ lookup' = {q \in ToSet(regions') : region[q].valid} \/ (conf.scarce /\ lookup' = lookup)
    <3>1. region[r] \in Region
      OBVIOUS
    <3>2. region'[r] = [region[r] EXCEPT !.stage = "listed"]
      BY <2>0
    <3>3. QED
      BY <2>0, <3>1, <3>2, RebuiltIs DEF Region
  <2>2. regions' \in Seq(Regions) /\ ToSet(regions') = ToSet(regions) \cup {r} /\ Distinct(regions')
    BY <2>1, <1>4, Appended
  <2>3. RegistryType'
    <3>1. ToSet(regions) \subseteq Regions
      BY Elems
    <3>2. lookup' \subseteq Regions
      BY <2>1, <2>2, <3>1
    <3>3. QED
      BY <1>0, <1>1, <2>2, <3>2 DEF Changes, Distinct
  <2>4. ListAgrees'
    BY <1>0, <1>1, <2>1, <2>2 DEF Changes, ListAgrees
  <2>5. ASSUME ~conf.scarce PROVE TableAgrees'
    <3>1. lookup' = {q \in ToSet(regions') : region[q].valid}
      BY <2>1, <2>5
    <3>2. QED
      BY <1>0, <1>1, <2>1, <2>2, <2>5, <3>1 DEF Changes, TableAgrees, ListAgrees
  <2>6. QED
    BY <1>3, <2>3, <2>4, <2>5
<1>7. QED
  BY <1>5, <1>6

LEMMA KeptByUnlink ==
  ASSUME RegistryInv, NEW a, Unlink(a, conf.scarce), conf' = conf
  PROVE  RegistryInv'
<1> USE DEF RegistryInv, RegistryType, Readers
<1> DEFINE i == FirstAt(a)
           r == regions[i]
           At == {k \in 1 .. Len(regions) : region[regions[k]].addr = a}
<1>1. At # {} /\ i = Min(At)
  <2>1. FirstAt(a) = IF At # {} THEN Min(At) ELSE 0
    BY DEF FirstAt, SelectInSeq
  <2>2. FirstAt(a) > 0
    BY DEF Unlink
  <2>3. QED
    BY <2>1, <2>2
<1>2. i \in 1 .. Len(regions)
  <2>1. At \in SUBSET Nat
    BY LenProperties
  <2>2. i \in At
    BY <1>1, <2>1, Least
  <2>3. QED
    BY <2>2
<1>3. r \in Regions /\ r \in ToSet(regions)
  BY <1>2, ElementOfSeq, Elems
<1> HIDE DEF i, r
<1>4. /\ UNCHANGED <<reader, automap>>
      /\ regions' = RemoveAt(regions, i)
      /\ lookup' = {q \in ToSet(regions') : region[q].valid} \/ (conf.scarce /\ lookup' = lookup)
      /\ region' = [region EXCEPT ![r].stage = "unlinked"]
      /\ grace' = [grace EXCEPT ![r] = Inside]
  BY RebuiltIs DEF Unlink, i, r
<1>5. regions' \in Seq(Regions) /\ ToSet(regions') = ToSet(regions) \ {r} /\ Distinct(regions')
  BY <1>2, <1>4, Removed DEF r
<1>6. Inside \subseteq Readers
  BY DEF Inside
<1>7. /\ Changes(r)
      /\ region'[r].stage = "unlinked" /\ region'[r].addr = region[r].addr
  <2>1. region' = [region EXCEPT ![r] = [region[r] EXCEPT !.stage = "unlinked"]]
    BY <1>4
  <2>2. region[r] \in Region /\ [region[r] EXCEPT !.stage = "unlinked"] \in Region
    BY <1>3, NewRegion DEF Stages
  <2>3. region'[r] = [region[r] EXCEPT !.stage = "unlinked"]
    BY <1>3, <2>1
  <2>4. QED
    BY <1>3, <2>1, <2>2, <2>3, Changed DEF Region
<1>8. RegistryType'
  <2>1. grace' \in [Regions -> SUBSET Readers]
    BY <1>3, <1>4, <1>6
  <2>2. ToSet(regions) \subseteq Regions
    BY Elems
  <2>3. lookup' \subseteq Regions
    BY <1>4, <1>5, <2>2
  <2>4. QED
    BY <1>4, <1>5, <1>7, <2>1, <2>3 DEF Distinct, Changes
<1>9. ListAgrees'
  BY <1>3, <1>4, <1>5, <1>7 DEF ListAgrees, Changes
<1>10. ASSUME ~conf.scarce PROVE UsesHold' /\ TableAgrees'
  <2>1. UsesHold'
    BY <1>3, <1>4, <1>7, <1>10 DEF UsesHold, Inside, Changes
  <2>2. lookup' = {q \in ToSet(regions') : region[q].valid}
    BY <1>4, <1>10
  <2>3. TableAgrees'
    BY <1>3, <1>4, <1>5, <1>7, <1>10, <2>2 DEF TableAgrees, ListAgrees, Changes
  <2>4. QED
    BY <2>1, <2>3
<1>11. QED
  BY <1>8, <1>9, <1>10

LEMMA KeptByReaders ==
  ASSUME RegistryInv, NEW x \in Readers, (\E a \in Addrs : Enter(x, a)) \/ ReaderStep(x),
         conf' = conf
  PROVE  RegistryInv'
<1> USE DEF RegistryInv, RegistryType
<1>1. UNCHANGED <<region, regions, lookup>>
  BY DEF Enter, ReaderStep, Lookup, Leave, Scan, AutoMap
<1>2. ListAgrees' /\ (~conf.scarce => TableAgrees')
  BY <1>1 DEF ListAgrees, TableAgrees
<1>3. /\ reader' \in [Readers -> ReaderState] /\ Readers' = Readers
      /\ \A y \in Readers \ {x} : reader'[y] = reader[y]
  <2>2. lookup \subseteq Regions
    OBVIOUS
  <2>3. \E v \in ReaderState : reader' = [reader EXCEPT ![x] = v]
    <3>1. reader[x] \in ReaderState /\ Idle \in ReaderState
      BY DEF Idle, ReaderState
    <3>2. [reader[x] EXCEPT !.at = "scan"] \in ReaderState /\ [reader[x] EXCEPT !.at = "lock"] \in ReaderState
      BY <3>1 DEF ReaderState
    <3>3. CASE \E a \in Addrs : Enter(x, a)
      BY <3>3 DEF Enter, ReaderState
    <3>4. CASE Lookup(x)
      <4>1. CASE reader' = [reader EXCEPT ![x] = [@ EXCEPT !.at = "scan"]]
        BY <3>2, <4>1
      <4>2. CASE \E r \in lookup : reader' = [reader EXCEPT ![x].at = "use", ![x].found = r]
        <5>1. PICK r \in lookup : reader' = [reader EXCEPT ![x].at = "use", ![x].found = r]
          BY <4>2
        <5>2. reader' = [reader EXCEPT ![x] = [reader[x] EXCEPT !.at = "use", !.found = r]]
          BY <5>1
        <5>3. [reader[x] EXCEPT !.at = "use", !.found = r] \in ReaderState
          BY <2>2, <3>1 DEF ReaderState
        <5>4. QED
          BY <5>2, <5>3
      <4>3. QED
        BY <3>4, <4>1, <4>2 DEF Lookup, Leaving
    <3>5. CASE Leave(x) \/ Scan(x) \/ AutoMap(x)
      BY <3>1, <3>2, <3>5 DEF Leave, Leaving, Scan, AutoMap
    <3>6. QED
      BY <3>3, <3>4, <3>5 DEF ReaderStep
  <2>4. QED
    BY <2>3 DEF Readers
<1>4. /\ grace' \in [Regions -> SUBSET Readers]
      /\ \A r \in Regions : grace[r] \ {x} \subseteq grace'[r]
  <2>1. grace' = grace \/ grace' = [r \in Regions |-> grace[r] \ {x}]
    BY DEF Enter, ReaderStep, Lookup, Leave, Scan, AutoMap, Leaving
  <2>2. QED
    BY <2>1
<1>5. reader'[x].at = "use" =>
        /\ reader'[x].found \in lookup
        /\ region[reader'[x].found].addr = reader'[x].addr
  <2>1. reader[x] \in ReaderState /\ Idle.at = "out"
    BY DEF Idle
  <2>2. CASE \E a \in Addrs : Enter(x, a)
    BY <2>2 DEF Enter
  <2>3. CASE Leave(x) \/ AutoMap(x)
    BY <2>1, <2>3 DEF Leave, Leaving, AutoMap
  <2>4. CASE Scan(x)
    BY <2>1, <2>4 DEF Scan, ReaderState
  <2>5. CASE Lookup(x)
    <3>1. CASE reader' = [reader EXCEPT ![x] = [@ EXCEPT !.at = "scan"]]
      BY <2>1, <3>1 DEF ReaderState
    <3>2. CASE \E r \in lookup : /\ region[r].addr = reader[x].addr
                               /\ reader' = [reader EXCEPT ![x].at = "use", ![x].found = r]
      <4>1. PICK r \in lookup : /\ region[r].addr = reader[x].addr
                                /\ reader' = [reader EXCEPT ![x].at = "use", ![x].found = r]
        BY <3>2
      <4>2. reader'[x].found = r /\ reader'[x].addr = reader[x].addr
        BY <2>1, <4>1 DEF ReaderState
      <4>3. QED
        BY <4>1, <4>2
    <3>3. QED
      BY <2>5, <3>1, <3>2 DEF Lookup, Leaving
  <2>6. QED
    BY <2>2, <2>3, <2>4, <2>5 DEF ReaderStep
<1>6. automap' \in Seq(Addrs \cup {NoRegion}) /\ Distinct(automap')
  <2>1. CASE AutoMap(x) /\ automap' # automap
    <3>1. automap' = Append(automap, reader[x].addr) /\ reader[x].addr \notin ToSet(automap)
      BY <2>1 DEF AutoMap
    <3>2. reader[x].addr \in Addrs \cup {NoRegion}
      BY DEF ReaderState
    <3>3. QED
      BY <3>1, <3>2, Appended
  <2>2. CASE automap' = automap
    BY <2>2
  <2>3. QED
    BY <2>1, <2>2 DEF Enter, ReaderStep, Lookup, Leave, Scan, AutoMap
<1>7. RegistryType'
  BY <1>1, <1>3, <1>4, <1>6 DEF Distinct
<1>8. ASSUME ~conf.scarce PROVE UsesHold'
  <2>1. ToSet(regions) \subseteq Regions
    BY Elems
  <2>2. reader'[x].at = "use" => reader'[x].found \in Regions /\ region[reader'[x].found].stage = "listed"
    BY <1>5, <1>8, <2>1 DEF TableAgrees, ListAgrees
  <2>3. QED
    BY <1>1, <1>3, <1>4, <1>5, <1>8, <2>2 DEF UsesHold
<1>9. QED
  BY <1>2, <1>7, <1>8
-----------------------------------------------------------------------------
LEMMA RegistryStart == Init => RegistryInv
<1>1. SUFFICES ASSUME Init PROVE RegistryInv
  OBVIOUS
<1>2. /\ region = [r \in Regions |-> Unused] /\ regions = <<>> /\ lookup = {}
      /\ grace = [r \in Regions |-> {}] /\ reader = [x \in conf.readers |-> Idle] /\ automap = <<>>
  BY <1>1 DEF Init, GpuInit
<1>3. RegistryType
  <2>1. region \in [Regions -> Region]
    BY <1>2, NewRegion
  <2>2. Readers = conf.readers
    BY <1>2 DEF Readers
  <2>3. grace \in [Regions -> SUBSET Readers]
    BY <1>2
  <2>4. reader \in [Readers -> ReaderState]
    BY <1>2, <2>2 DEF Idle, ReaderState
  <2>5. \A S : <<>> \in Seq(S)
    OBVIOUS
  <2>6. Distinct(<<>>)
    BY DEF Distinct
  <2>7. QED
    BY <1>2, <2>1, <2>3, <2>4, <2>5, <2>6 DEF RegistryType
<1>4. UsesHold
  BY <1>2 DEF UsesHold, Idle, Readers
<1>5. ToSet(regions) = {}
  BY <1>2 DEF ToSet
<1>6. ListAgrees /\ TableAgrees
  BY <1>2, <1>5 DEF ListAgrees, TableAgrees, Unused
<1>7. QED
  BY <1>3, <1>4, <1>6 DEF RegistryInv

\* The host and the controller do not touch the registry.
LEMMA OthersLeaveIt ==
  Next => GpuStep \/ UNCHANGED <<conf, gpuVars>>
<1>1. HostRegisters => UNCHANGED <<conf, gpuVars>>
  BY DEF HostRegisters, WriteAqa, WriteAsq, WriteAcq, WriteCc, SeeCsts, Enable, SeeReady, Shutdown,
         SeeShutdown, Disable, SeeDisabled, UNCHANGED_device
<1>2. ASSUME NEW op \in Ops, SendAdmin(op) PROVE UNCHANGED <<conf, gpuVars>>
  BY <1>2 DEF SendAdmin, UNCHANGED_device
<1>3. TakeCqe \/ SubmitIo => UNCHANGED <<conf, gpuVars>>
  BY DEF TakeCqe, SubmitIo, UNCHANGED_device
<1>4. BarStep => UNCHANGED <<conf, gpuVars>>
  BY DEF BarStep, SeeAqa, SeeAsq, SeeAcq, SeeCc, Same, UNCHANGED_host
<1>5. AdminStep => UNCHANGED <<conf, gpuVars>>
  BY DEF AdminStep, SeeAdminDb, AdminDone, Identify, NumQueues, CreateCq, CreateSq, ResetDb, ResetOldDb,
         HideSq, FreeSq, HideCq, FreeCq, UNCHANGED_host
<1>6. PollStep \/ Answer => UNCHANGED <<conf, gpuVars>>
  BY DEF PollStep, Look, Compare, Take, TakeOver, Answer, UNCHANGED_but_poll
<1>7. QED
  BY <1>1, <1>2, <1>3, <1>4, <1>5, <1>6 DEF Next

LEMMA RegistryStep == conf \in Configs /\ RegistryInv /\ [Next]_vars => (conf \in Configs /\ RegistryInv)'
<1>1. SUFFICES ASSUME conf \in Configs, RegistryInv, [Next]_vars
               PROVE  (conf \in Configs /\ RegistryInv)'
  OBVIOUS
<1>2. CASE UNCHANGED <<conf, gpuVars>>
  BY <1>1, <1>2 DEF gpuVars, RegistryInv, RegistryType, UsesHold, ListAgrees, TableAgrees, Readers, Distinct
<1>3. CASE GpuStep
  <2>1. conf.objects \subseteq Regions /\ conf.pins \subseteq Addrs
    BY <1>1, ControllerAssumption DEF Config
  <2>2. conf' = conf
    BY <1>3 DEF GpuStep, UNCHANGED_controller
  <2>3. ASSUME NEW r \in Regions,
               (\E a \in Addrs : GetPages(r, a)) \/ MapPages(r) \/ Reclaim(r) \/ FreeRegion(r)
        PROVE  RegistryInv'
    BY <1>1, <2>2, <2>3, KeptByPinning
  <2>4. ASSUME NEW r \in Regions, Publish(r, conf.scarce) PROVE RegistryInv'
    BY <1>1, <2>2, <2>4, KeptByPublish
  <2>5. ASSUME NEW a \in conf.pins, Unlink(a, conf.scarce) PROVE RegistryInv'
    BY <1>1, <2>2, <2>5, KeptByUnlink
  <2>6. ASSUME NEW x \in Readers, (\E a \in Addrs : Enter(x, a)) \/ ReaderStep(x)
        PROVE  RegistryInv'
    BY <1>1, <2>2, <2>6, KeptByReaders
  <2>7. QED
    BY <1>1, <1>3, <2>1, <2>2, <2>3, <2>4, <2>5, <2>6 DEF GpuStep
<1>4. QED
  BY <1>1, <1>2, <1>3, OthersLeaveIt DEF vars

\* A translation in use stays mapped until its section ends, though its region is unregistered
\* meanwhile, and the table and the list agree, as long as there is memory to rebuild the
\* table; the cache maps no page twice (gpu_mem.c).
THEOREM TranslationsHold == Spec => []RegistryHolds
<1>1. Init => conf \in Configs /\ RegistryInv
  BY RegistryStart DEF Init
<1>2. QED
  BY <1>1, RegistryStep, RegistryInvHolds, PTL DEF Spec
-----------------------------------------------------------------------------
(* Stretches of a ring                                                     *)

\* The specification's stretches, counted in turns, are those of CursorTheorems.
LEMMA ElementsAre ==
  ASSUME NEW d \in Nat \ {0}, NEW from \in 0 .. d - 1, NEW to \in 0 .. d - 1
  PROVE  Elements(from, to, d) = Between(from, to, d)
<1>1. ASSUME NEW i \in 0 .. d - 1
      PROVE  (i - from) % d < (to - from) % d <=>
               IF from <= to THEN from <= i /\ i < to ELSE from <= i \/ i < to
  <2>1. (i - from) % d = IF i >= from THEN i - from ELSE i - from + d
    BY ModStep, Zenon
  <2>2. (to - from) % d = IF to >= from THEN to - from ELSE to - from + d
    BY ModStep, Zenon
  <2>3. QED
    BY <2>1, <2>2
<1>2. QED
  BY <1>1 DEF Elements, Between

-----------------------------------------------------------------------------
(* What the model gives; types                                             *)

LEMMA Constants ==
  /\ IoDepth \in Nat \ {0, 1} /\ MaxDepth \in Nat \ {0, 1} /\ "host" \notin Regions
  /\ 0 \in Slots /\ 0 \in IoSlots /\ Slots \subseteq Nat /\ IoSlots \subseteq Nat
  /\ \A k \in Configs : k \in Config /\ (k.scarce => ~k.gpu)
BY ControllerAssumption DEF Slots, IoSlots

LEMMA StartIs ==
  ASSUME conf \in Configs
  PROVE  /\ \A n \in 1 .. Len(conf.prog) :
              /\ Start(n) = conf.prog[n]
              /\ Start(n).depth \in 2 .. MaxDepth /\ Start(n).place \in Nat \ {0} /\ Start(n).place \in Places
         /\ \A n : Start(n).depth \in Nat /\ Start(n).place \in Nat
         /\ Len(conf.prog) \in Nat
         /\ \A n : n \notin 1 .. Len(conf.prog) => Start(n) = NoStart
<1> DEFINE T == [depth : 2 .. MaxDepth, place : Nat \ {0}]
<1>1. conf.prog \in Seq(T)
  BY Constants DEF Config
<1>2. DOMAIN conf.prog = 1 .. Len(conf.prog) /\ Len(conf.prog) \in Nat
      /\ \A n \in 1 .. Len(conf.prog) : conf.prog[n] \in T
  <2> HIDE DEF T
  <2>1. QED
    BY <1>1, LenProperties, ElementOfSeq
<1>3. \A n \in 1 .. Len(conf.prog) : conf.prog[n].place \in Places
  BY <1>2 DEF Places, ToSet
<1>4. \A n \in 1 .. Len(conf.prog) :
        conf.prog[n].depth \in 2 .. MaxDepth /\ conf.prog[n].place \in Nat \ {0}
  BY <1>2
<1>5. NoStart.depth = 0 /\ NoStart.place = 0
  BY DEF NoStart
<1>6. QED
  BY <1>2, <1>3, <1>4, <1>5, Constants DEF Start

LEMMA NowIs ==
  ASSUME HostTypes, start > 0
  PROVE  /\ Prog = Now /\ Now.depth \in 2 .. MaxDepth /\ Now.depth \in Nat \ {0, 1}
         /\ Now.place \in Places /\ Now.place \in Nat \ {0}
         /\ 0 .. Now.depth - 1 \subseteq Slots
<1>1. start \in 1 .. Len(conf.prog) /\ conf \in Configs
  BY StartIs DEF HostTypes
<1>2. Now = conf.prog[start] /\ Now.depth \in 2 .. MaxDepth /\ Now.place \in Nat \ {0} /\ Now.place \in Places
  BY <1>1, StartIs DEF Now
<1>3. QED
  BY <1>2, Constants DEF Prog, Slots

\* Positions of the rings and their successors.
LEMMA Positions ==
  /\ \A i \in IoSlots : (i + 1) % IoDepth = After1(i, IoDepth) /\ After1(i, IoDepth) \in IoSlots
  /\ \A d \in 2 .. MaxDepth : \A i \in 0 .. d - 1 : (i + 1) % d = After1(i, d) /\ After1(i, d) \in 0 .. d - 1
<1>1. IoDepth \in Nat \ {0} /\ 2 .. MaxDepth \subseteq Nat \ {0}
  BY Constants
<1>2. QED
  BY <1>1, Turning DEF IoSlots

LEMMA TypesStart == Init => Types
<1> SUFFICES ASSUME Init PROVE Types
  OBVIOUS
<1> USE Constants
<1>1. conf \in Configs /\ Len(conf.prog) \in Nat
  BY StartIs DEF Init
<1>2. HostTypes
  BY <1>1 DEF Init, HostTypes, HostStages, Lives
<1>3. RegTypes
  <2>1. NoQueue \in [exists : BOOLEAN, sq : Nat, cq : Nat, depth : 2 .. MaxDepth, head : Slots, phase : {0, 1}]
    BY DEF NoQueue
  <2>2. QED
    BY <2>1 DEF Init, RegTypes
<1>4. MemTypes
  BY DEF Init, MemTypes, Cqe, NoCqe
<1>5. PollTypes
  BY DEF Init, PollTypes, DispPlaces, IoQueue, NoIoQueue
<1>6. QED
  BY <1>2, <1>3, <1>4, <1>5 DEF Types

\* What the device keeps, what the host keeps.
LEMMA HostRegistersKeep ==
  HostRegisters => /\ UNCHANGED <<conf, flight, out, io_tail, sq_mem, dbs>> /\ UNCHANGED_device
                   /\ (life' = life \/ life' = "new")
BY DEF HostRegisters, WriteAqa, WriteAsq, WriteAcq, WriteCc, SeeCsts, Enable, SeeReady, Shutdown,
       SeeShutdown, Disable, SeeDisabled, ioHostVars

LEMMA BarKeeps ==
  ASSUME RegTypes, BarStep
  PROVE  /\ UNCHANGED_host /\ UNCHANGED <<asq_mem, acq_mem, nr_sq, sq, cq, dat, dnew, ppc, pat, pnew, queued>>
         /\ dbs'.io = dbs.io /\ old_dbs'.io = old_dbs.io
         /\ dbs' = dbs \/ dbs' = [dbs EXCEPT !.admin = 0]
         /\ old_dbs' = old_dbs \/ old_dbs' = [old_dbs EXCEPT !.admin = 0]
<1> USE DEF RegTypes, memVars, pollVars, queueVars
<1>1. CASE \E reg, at, next : Same(reg, at, next)
  BY <1>1 DEF Same
<1>2. CASE SeeAqa
  BY <1>2 DEF SeeAqa
<1>3. CASE SeeAsq
  BY <1>3 DEF SeeAsq
<1>4. CASE SeeAcq
  BY <1>4 DEF SeeAcq
<1>5. CASE SeeCc
  BY <1>5 DEF SeeCc
<1>6. QED
  BY <1>1, <1>2, <1>3, <1>4, <1>5, Zenon DEF BarStep

LEMMA AdminKeeps ==
  AdminStep => UNCHANGED_host /\ UNCHANGED <<old_bar, rdy, shst, asq_mem, ppc, pat, pnew, queued>>
BY DEF AdminStep, SeeAdminDb, AdminDone, Identify, NumQueues, CreateCq, CreateSq, ResetDb, ResetOldDb,
       HideSq, FreeSq, HideCq, FreeCq, memVars, pollVars

LEMMA PollKeeps ==
  PollStep \/ Answer => /\ UNCHANGED_but_poll
                        /\ out' = out \/ out' = out - 1
BY DEF PollStep, Look, Compare, Take, TakeOver, Answer

LEMMA SendKeeps ==
  ASSUME NEW op \in Ops, SendAdmin(op)
  PROVE  UNCHANGED <<conf, hpc, start, h_head, h_phase, out, ios_left, acq_mem, bar>> /\ UNCHANGED_device
BY DEF SendAdmin

\* Once a start has been made the invariant gives what the admin queues are.
LEMMA StartedIs ==
  ASSUME CtrlInv, hpc # "off"
  PROVE  start > 0 /\ start \in 1 .. Len(conf.prog)
<1>1. Len(conf.prog) \in Nat /\ start \in 0 .. Len(conf.prog)
  BY StartIs DEF CtrlInv, Types, HostTypes
<1>2. start # 0
  BY DEF CtrlInv, Written
<1>3. QED
  BY <1>1, <1>2

LEMMA ReadyIs ==
  ASSUME CtrlInv, hpc = "ready"
  PROVE  /\ start > 0 /\ Prog = Now /\ Now.depth \in 2 .. MaxDepth /\ Now.depth \in Nat \ {0, 1}
         /\ Now.place \in Places /\ 0 .. Now.depth - 1 \subseteq Slots
         /\ admin_q.exists /\ admin_q.depth = Now.depth
         /\ admin_q.sq = Now.place /\ admin_q.cq = Now.place
         /\ h_tail \in 0 .. Now.depth - 1 /\ h_head \in 0 .. Now.depth - 1
         /\ admin_q.head \in 0 .. Now.depth - 1 /\ Taken \in 0 .. Now.depth - 1
         /\ Unread = Elements(h_head, admin_q.head, Now.depth)
         /\ Waiting = Elements(Taken, h_tail, Now.depth)
<1>1. Types /\ Written /\ Seen /\ QueueAsSeen /\ InQueue
  BY DEF CtrlInv
<1>2. /\ start > 0 /\ Prog = Now /\ Now.depth \in 2 .. MaxDepth /\ Now.depth \in Nat \ {0, 1}
      /\ Now.place \in Places /\ Now.place \in Nat \ {0} /\ 0 .. Now.depth - 1 \subseteq Slots
  BY <1>1, StartedIs, NowIs DEF Types
<1>3. /\ admin_q.exists /\ admin_q.depth = Now.depth
      /\ admin_q.sq = Now.place /\ admin_q.cq = Now.place
  BY <1>1, <1>2 DEF Written, Seen, Settled, QueueAsSeen
<1>4. /\ h_tail \in Slots /\ h_head \in Slots /\ admin_q.head \in Slots
      /\ dat \in Slots /\ old_dbs.admin \in Slots
  BY <1>1 DEF Types, HostTypes, RegTypes, PollTypes
<1>5. Taken \in Slots
  BY <1>4 DEF Taken
<1>6. /\ h_tail \in 0 .. Now.depth - 1 /\ h_head \in 0 .. Now.depth - 1
      /\ admin_q.head \in 0 .. Now.depth - 1 /\ Taken \in 0 .. Now.depth - 1
  <2>1. Slots \subseteq Nat
    BY Constants
  <2>2. h_tail < Now.depth /\ h_head < Now.depth /\ admin_q.head < Now.depth /\ Taken < Now.depth
    BY <1>1 DEF InQueue
  <2>3. \A i \in Nat : i < Now.depth => i \in 0 .. Now.depth - 1
    BY <1>2
  <2>4. QED
    BY <1>4, <1>5, <2>1, <2>2, <2>3
<1>7. Unread = Elements(h_head, admin_q.head, Now.depth) /\ Waiting = Elements(Taken, h_tail, Now.depth)
  BY <1>2, <1>6, ElementsAre DEF Unread, Waiting
<1>8. QED
  BY <1>2, <1>3, <1>6, <1>7

\* The host sees a completion if and only if there is one.
LEMMA NewCqeIs ==
  ASSUME CtrlInv, hpc = "ready"
  PROVE  NewCqe <=> Unread # {}
<1>1. /\ Prog = Now /\ Now.depth \in Nat \ {0, 1}
      /\ h_head \in 0 .. Now.depth - 1 /\ admin_q.head \in 0 .. Now.depth - 1
  BY ReadyIs
<1>2. h_head \in Unread <=> Unread # {}
  BY <1>1, Stretch DEF Unread
<1>3. acq_mem[Now.place][h_head].phase = IF h_head \in Unread THEN h_phase ELSE 1 - h_phase
  BY <1>1 DEF CtrlInv, Phases
<1>4. h_phase \in {0, 1}
  BY DEF CtrlInv, Types, HostTypes
<1>5. QED
  BY <1>1, <1>2, <1>3, <1>4 DEF NewCqe

\* What the dispatcher has before it is a command under way.
LEMMA OpIs ==
  ASSUME CtrlInv, dpc \in AdminPlaces, dat # dnew
  PROVE  /\ hpc = "ready" /\ dat = Taken /\ dat \in Waiting /\ Op = AskedAt(dat) /\ Op \in Asked
         /\ Op \in flight /\ Op \in Ops /\ Op \notin Answered
<1>1. hpc = "ready" /\ dat = Taken
  BY DEF CtrlInv, Resting, Taken, AdminPlaces
<1>2. /\ Now.depth \in Nat \ {0, 1} /\ Taken \in 0 .. Now.depth - 1 /\ admin_q.sq = Now.place
      /\ h_tail \in 0 .. Now.depth - 1
  BY <1>1, ReadyIs
<1>3. dnew \in 0 .. Now.depth - 1 /\ Between(dat, dnew, Now.depth) \subseteq Waiting
  <2>1. dnew \in Nat /\ dnew < Now.depth /\ Between(dat, dnew, Now.depth) \subseteq Waiting
    BY <1>1, Constants DEF CtrlInv, InQueue, Types, PollTypes
  <2>2. QED
    BY <1>2, <2>1
<1>4. dat \in Waiting
  BY <1>1, <1>2, <1>3, Stretch
<1>5. Op = AskedAt(dat)
  BY <1>2 DEF Op, AskedAt
<1>6. Op \in Asked
  BY <1>4, <1>5 DEF Asked
<1>7. Op \in flight /\ Op \notin Answered /\ flight \subseteq Ops
  BY <1>1, <1>6 DEF CtrlInv, OncePlaced, Types, HostTypes
<1>8. QED
  BY <1>1, <1>4, <1>5, <1>6, <1>7

\* The completion the host reads is of a command under way.
LEMMA CqeTaken ==
  ASSUME CtrlInv, TakeCqe
  PROVE  /\ hpc = "ready" /\ h_head \in Unread /\ Unread # {}
         /\ acq_mem[Prog.place][h_head].op = AnsweredAt(h_head)
         /\ AnsweredAt(h_head) \in Answered /\ AnsweredAt(h_head) \in flight
         /\ acq_mem[Prog.place][h_head].op \in Ops
<1>1. hpc = "ready" /\ NewCqe
  BY DEF TakeCqe
<1>2. Unread # {} /\ Prog = Now /\ Now.depth \in Nat \ {0, 1}
      /\ h_head \in 0 .. Now.depth - 1 /\ admin_q.head \in 0 .. Now.depth - 1
  BY <1>1, NewCqeIs, ReadyIs
<1>3. h_head \in Unread
  BY <1>2, Stretch DEF Unread
<1>4. AnsweredAt(h_head) \in Answered
  BY <1>3 DEF Answered
<1>5. AnsweredAt(h_head) \in flight /\ flight \subseteq Ops
  BY <1>1, <1>4 DEF CtrlInv, OncePlaced, Types, HostTypes
<1>6. QED
  BY <1>1, <1>2, <1>3, <1>4, <1>5 DEF AnsweredAt

LEMMA CellsFinite == IsFiniteSet(Cells) /\ IsFiniteSet(IoSlots)
<1>1. 0 \in Int /\ IoDepth - 1 \in Int
  BY Constants
<1>2. IsFiniteSet(IoSlots)
  BY <1>1, FS_Interval DEF IoSlots
<1>3. QED
  BY <1>2, FS_Subset DEF Cells

\* A poller that takes a command takes one the host has written and nobody has taken.
LEMMA TakesCell ==
  ASSUME CtrlInv, ppc = "take", pat # pnew
  PROVE  life = "up" /\ pat \in Cells /\ Cells # {} /\ pat # io_tail
<1>1. pat \in IoSlots /\ pnew \in IoSlots /\ dbs.io \in IoSlots /\ IoDepth \in Nat \ {0}
  BY Constants DEF CtrlInv, Types, PollTypes, RegTypes
<1>2. PollAt = pat
  BY DEF PollAt
<1>3. Between(pat, pnew, IoDepth) \subseteq Between(pat, dbs.io, IoDepth)
  BY <1>2 DEF CtrlInv, IoRing
<1>4. pat \in Between(pat, dbs.io, IoDepth) /\ pat # dbs.io
  BY <1>1, <1>3, Stretch DEF IoSlots
<1>5. life = "up"
  BY <1>2, <1>4 DEF CtrlInv, IoRing
<1>6. QED
  BY <1>2, <1>4, <1>5 DEF CtrlInv, IoRing

LEMMA HostTypesStep == CtrlInv /\ [Next]_vars => HostTypes'
<1> SUFFICES ASSUME CtrlInv, [Next]_vars PROVE HostTypes'
  OBVIOUS
<1>t. HostTypes
  BY DEF CtrlInv, Types
<1>0. conf \in Configs /\ Len(conf.prog) \in Nat
  BY <1>t, StartIs DEF HostTypes
<1> USE <1>t DEF HostTypes, HostStages, Lives
<1>1. CASE UNCHANGED <<conf, hostVars, ioHostVars>>
  BY <1>1 DEF hostVars, ioHostVars
<1>2. CASE HostRegisters
  <2>1. CASE WriteAqa
    <3>1. conf.admins \in Nat /\ conf.pairs \in Nat /\ conf.ios \in Nat
      BY <1>0, Constants DEF Config
    <3>2. start + 1 \in 0 .. Len(conf.prog)
      <4>1. start < Len(conf.prog)
        BY <2>1 DEF WriteAqa
      <4>2. QED
        BY <1>0, <4>1
    <3>3. QED
      BY <1>0, <2>1, <3>1, <3>2, Constants DEF WriteAqa
  <2>2. CASE WriteAsq
    BY <1>0, <2>2 DEF WriteAsq, ioHostVars
  <2>3. CASE WriteAcq
    BY <1>0, <2>3 DEF WriteAcq, ioHostVars
  <2>4. CASE Enable \/ Shutdown \/ Disable
    BY <1>0, <2>4 DEF Enable, Shutdown, Disable, WriteCc, ioHostVars
  <2>5. CASE SeeReady \/ SeeShutdown \/ SeeDisabled
    BY <1>0, <2>5 DEF SeeReady, SeeShutdown, SeeDisabled, SeeCsts, ioHostVars
  <2>6. QED
    BY <1>2, <2>1, <2>2, <2>3, <2>4, <2>5 DEF HostRegisters
<1>3. ASSUME NEW op \in Ops, SendAdmin(op) PROVE HostTypes'
  <2>1. hpc = "ready"
    BY <1>3 DEF SendAdmin
  <2>2. h_tail' \in Slots
    BY <2>1, ReadyIs, Positions, <1>3 DEF SendAdmin
  <2>3. admins_left - 1 \in Nat /\ (op = "create_cq" => pairs_left - 1 \in Nat)
    <3>1. admins_left > 0 /\ (op = "create_cq" => pairs_left > 0)
      BY <1>3 DEF SendAdmin, MaySend
    <3>2. admins_left \in Nat /\ pairs_left \in Nat
      OBVIOUS
    <3>3. QED
      BY <3>1, <3>2
  <2>4. QED
    BY <1>0, <1>3, <2>2, <2>3, Constants, SendKeeps DEF SendAdmin
<1>4. CASE TakeCqe
  <2>1. hpc = "ready"
    BY <1>4 DEF TakeCqe
  <2>2. h_head' \in Slots
    BY <2>1, ReadyIs, Positions, <1>4 DEF TakeCqe
  <2>3. life' \in Lives
    <3>1. acq_mem[Prog.place][h_head].op \in Ops
      BY <1>4, CqeTaken
    <3>2. After \in [Ops \ {"identify"} -> Lives]
      BY DEF After, Ops
    <3>3. life' \in {life, "counted", After[acq_mem[Prog.place][h_head].op]}
          /\ (acq_mem[Prog.place][h_head].op = "identify" => life' = life)
      BY <1>4 DEF TakeCqe
    <3>4. QED
      BY <3>1, <3>2, <3>3
  <2>4. h_phase' \in {0, 1}
    <3>1. h_phase' \in {h_phase, 1 - h_phase} /\ h_phase \in {0, 1}
      BY <1>4 DEF TakeCqe
    <3>2. QED
      BY <3>1
  <2>5. UNCHANGED <<conf, hpc, start, h_tail, admins_left, pairs_left, out, ios_left, io_tail>>
        /\ flight' \subseteq flight
    BY <1>4 DEF TakeCqe, ioHostVars
  <2>6. QED
    BY <1>0, <2>2, <2>3, <2>4, <2>5
<1>5. CASE SubmitIo
  <2>1. io_tail' \in IoSlots /\ out + 1 \in IoSlots /\ ios_left - 1 \in Nat
    <3>1. ios_left > 0 /\ out < IoDepth - 1 /\ io_tail' = (io_tail + 1) % IoDepth
      BY <1>5 DEF SubmitIo
    <3>2. io_tail \in IoSlots /\ out \in IoSlots /\ ios_left \in Nat
      OBVIOUS
    <3>3. QED
      BY <3>1, <3>2, Positions, Constants DEF IoSlots
  <2>2. QED
    BY <1>0, <1>5, <2>1 DEF SubmitIo, hostVars
<1>6. CASE BarStep
  <2>1. RegTypes
    BY DEF CtrlInv, Types
  <2>2. QED
    BY <1>1, <1>6, <2>1, BarKeeps DEF UNCHANGED_host
<1>7. CASE AdminStep
  BY <1>1, <1>7, AdminKeeps DEF UNCHANGED_host
<1>8. CASE GpuStep
  BY <1>1, <1>8 DEF GpuStep, UNCHANGED_controller
<1>9. CASE PollStep \/ Answer
  <2>1. UNCHANGED <<conf, hpc, start, life, h_tail, h_head, h_phase, flight, admins_left, pairs_left,
                    ios_left, io_tail>>
    BY <1>9, PollKeeps DEF UNCHANGED_but_poll, hostVars
  <2>2. out' = out \/ (out' = out - 1 /\ out > 0)
    <3>1. out = Cardinality(Cells) + queued /\ queued \in Nat /\ IsFiniteSet(Cells)
      <4>1. IsFiniteSet(Cells)
        BY CellsFinite
      <4>2. QED
        BY <4>1 DEF CtrlInv, IoRing, Types, PollTypes
    <3>2. Cardinality(Cells) \in Nat
      BY <3>1, FS_CardinalityType
    <3>3. CASE Take
      <4>1. Cells # {}
        BY <3>3, TakesCell DEF Take
      <4>2. Cardinality(Cells) # 0
        BY <3>1, <4>1, FS_EmptySet
      <4>3. QED
        BY <3>1, <3>2, <3>3, <4>2 DEF Take
    <3>4. CASE Answer
      BY <3>1, <3>2, <3>4 DEF Answer
    <3>5. QED
      BY <1>9, <3>3, <3>4 DEF PollStep, Look, Compare, TakeOver
  <2>3. out' \in IoSlots
    <3>1. out \in IoSlots
      OBVIOUS
    <3>2. QED
      BY <2>2, <3>1, Constants DEF IoSlots
  <2>4. QED
    BY <1>0, <2>1, <2>3
<1>10. QED
  BY <1>1, <1>2, <1>3, <1>4, <1>5, <1>6, <1>7, <1>8, <1>9 DEF Next, vars

-----------------------------------------------------------------------------
(* Types of the registers and of the device                                *)

\* A register that has changed is one of a start that is being made.
LEMMA SeesIs ==
  ASSUME CtrlInv, SeeAqa \/ SeeAsq \/ SeeAcq
  PROVE  /\ hpc \in {"asq", "acq", "enable", "starting"} /\ ~(hpc = "starting" /\ rdy)
         /\ start \in 1 .. Len(conf.prog) /\ start > 0
         /\ bar.aqa = Now.depth /\ bar.aqa \in 2 .. MaxDepth /\ bar.aqa # 0
         /\ Now.place \in Places
<1>1. hpc \in {"asq", "acq", "enable", "starting"} /\ ~(hpc = "starting" /\ rdy)
  BY DEF CtrlInv, Types, HostTypes, HostStages, Seen, Settled, SeeAqa, SeeAsq, SeeAcq
<1>2. start \in 1 .. Len(conf.prog) /\ start > 0
  BY <1>1, StartedIs
<1>3. HostTypes /\ bar.aqa = Now.depth
  BY DEF CtrlInv, Types, Written
<1>4. QED
  BY <1>1, <1>2, <1>3, NowIs

\* Answering a command is part of these steps only.
Posting == Identify \/ NumQueues \/ CreateCq \/ ResetOldDb \/ FreeSq \/ FreeCq

LEMMA PostsReady ==
  ASSUME CtrlInv, Posting
  PROVE  /\ Post /\ dpc \in AdminPlaces /\ dat # dnew /\ hpc = "ready"
         /\ dbs' = dbs /\ (old_dbs' = old_dbs \/ old_dbs' = [old_dbs EXCEPT !.io = 0])
         /\ dpc' = "admin" /\ dnew' = dnew /\ UNCHANGED asq_mem
         /\ UNCHANGED_host
<1> USE DEF AdminPlaces
<1>1. Post /\ dpc \in AdminPlaces /\ (dpc = "admin" => dat # dnew) /\ dbs' = dbs
      /\ (old_dbs' = old_dbs \/ old_dbs' = [old_dbs EXCEPT !.io = 0])
      /\ dpc' = "admin" /\ dnew' = dnew /\ UNCHANGED asq_mem /\ UNCHANGED_host
  BY DEF Posting, Identify, NumQueues, CreateCq, ResetOldDb, FreeSq, FreeCq, AtCommand
<1>2. hpc = "ready"
  BY <1>1 DEF CtrlInv, Resting
<1>3. dat # dnew
  BY <1>1, <1>2 DEF CtrlInv, InQueue
<1>4. QED
  BY <1>1, <1>2, <1>3

LEMMA RegTypesStep == CtrlInv /\ [Next]_vars => RegTypes'
<1> SUFFICES ASSUME CtrlInv, [Next]_vars PROVE RegTypes'
  OBVIOUS
<1>t. RegTypes /\ HostTypes
  BY DEF CtrlInv, Types
<1> USE <1>t, Constants DEF RegTypes
<1>1. CASE UNCHANGED <<bar, old_bar, rdy, shst, dbs, old_dbs, admin_q>>
  BY <1>1
<1>2. CASE HostRegisters
  <2>1. UNCHANGED <<old_bar, rdy, shst, dbs, old_dbs, admin_q>>
    BY <1>2, HostRegistersKeep DEF UNCHANGED_device, queueVars
  <2>2. CASE WriteAqa
    <3>1. conf \in Configs /\ start + 1 \in 1 .. Len(conf.prog)
      <4>1. conf \in Configs /\ start \in 0 .. Len(conf.prog) /\ start < Len(conf.prog) /\ Len(conf.prog) \in Nat
        BY <2>2, StartIs DEF HostTypes, WriteAqa
      <4>2. QED
        BY <4>1
    <3>2. conf.prog[start + 1].depth \in Nat
      BY <3>1, StartIs
    <3>3. QED
      BY <2>1, <2>2, <3>2 DEF WriteAqa
  <2>3. CASE WriteAsq \/ WriteAcq
    <3>1. start > 0
      BY <2>3, StartedIs DEF WriteAsq, WriteAcq
    <3>2. Prog.place \in Nat
      BY <3>1, NowIs
    <3>3. QED
      BY <2>1, <2>3, <3>2 DEF WriteAsq, WriteAcq
  <2>4. CASE Enable \/ Shutdown \/ Disable
    BY <2>1, <2>4 DEF Enable, Shutdown, Disable, WriteCc
  <2>5. CASE SeeReady \/ SeeShutdown \/ SeeDisabled
    BY <2>1, <2>5 DEF SeeReady, SeeShutdown, SeeDisabled, SeeCsts
  <2>6. QED
    BY <1>2, <2>2, <2>3, <2>4, <2>5 DEF HostRegisters
<1>3. ASSUME NEW op \in Ops, SendAdmin(op) PROVE RegTypes'
  <2>1. h_tail' \in Slots /\ dbs' = [dbs EXCEPT !.admin = h_tail']
    BY <1>3, HostTypesStep DEF SendAdmin, HostTypes
  <2>2. UNCHANGED <<bar, old_bar, rdy, shst, old_dbs, admin_q>>
    BY <1>3 DEF SendAdmin, UNCHANGED_device, queueVars
  <2>3. QED
    BY <2>1, <2>2
<1>4. CASE TakeCqe
  BY <1>4 DEF TakeCqe, UNCHANGED_device, queueVars
<1>5. CASE SubmitIo
  <2>1. io_tail' \in IoSlots
    BY <1>5, HostTypesStep DEF HostTypes
  <2>2. QED
    BY <1>5, <2>1 DEF SubmitIo, UNCHANGED_device, queueVars
<1>6. CASE BarStep
  <2>0. bar' = bar
    BY <1>6, BarKeeps DEF UNCHANGED_host
  <2>1. CASE Same("aqa", "aqa", "asq") \/ Same("asq", "asq", "acq") \/ Same("acq", "acq", "cc") \/ Same("cc", "cc", "doorbell")
    BY <2>0, <2>1 DEF Same, queueVars
  <2>2. CASE SeeAqa
    BY <2>0, <2>2, SeesIs DEF SeeAqa
  <2>3. CASE SeeAsq
    <3>1. bar.asq \in Nat /\ bar.aqa \in 2 .. MaxDepth /\ rdy' = rdy /\ shst' = shst
      BY <2>3, SeesIs DEF SeeAsq
    <3>2. CASE ~admin_q.exists
      BY <2>0, <2>3, <3>1, <3>2 DEF SeeAsq
    <3>3. CASE admin_q.exists
      BY <2>0, <2>3, <3>1, <3>3 DEF SeeAsq
    <3>4. QED
      BY <3>2, <3>3
  <2>4. CASE SeeAcq
    <3>1. bar.acq \in Nat /\ bar.aqa \in 2 .. MaxDepth /\ rdy' = rdy /\ shst' = shst /\ dbs' = dbs
          /\ old_dbs' = old_dbs
      BY <2>4, SeesIs DEF SeeAcq
    <3>2. CASE ~admin_q.exists
      BY <2>0, <2>4, <3>1, <3>2 DEF SeeAcq
    <3>3. CASE admin_q.exists
      <4>1. /\ admin_q' = [admin_q EXCEPT !.cq = bar.acq, !.depth = bar.aqa, !.head = 0, !.phase = 1]
            /\ old_bar' = [old_bar EXCEPT !.acq = bar.acq]
        BY <2>4, <3>3 DEF SeeAcq
      <4>2. admin_q' \in [exists : BOOLEAN, sq : Nat, cq : Nat, depth : 2 .. MaxDepth, head : Slots, phase : {0, 1}]
        BY <3>1, <4>1
      <4>3. old_bar' \in [aqa : Nat, asq : Nat, acq : Nat, cc : {"off", "on", "shut"}]
        BY <3>1, <4>1
      <4>4. QED
        BY <2>0, <3>1, <4>2, <4>3
    <3>4. QED
      BY <3>2, <3>3
  <2>5. CASE SeeCc
    BY <2>0, <2>5 DEF SeeCc
  <2>6. QED
    BY <1>6, <2>1, <2>2, <2>3, <2>4, <2>5 DEF BarStep
<1>7. CASE AdminStep
  <2>0. UNCHANGED <<bar, old_bar, rdy, shst>>
    BY <1>7, AdminKeeps DEF UNCHANGED_host
  <2>1. CASE SeeAdminDb \/ CreateSq \/ HideSq \/ HideCq
    BY <2>0, <2>1 DEF SeeAdminDb, CreateSq, HideSq, HideCq, queueVars
  <2>2. CASE AdminDone
    BY <2>0, <2>2 DEF AdminDone, queueVars, CtrlInv, Types, PollTypes
  <2>3. CASE ResetDb
    BY <2>0, <2>3 DEF ResetDb, queueVars
  <2>4. CASE Posting
    <3>1. admin_q.depth \in 2 .. MaxDepth /\ (admin_q.head + 1) % admin_q.depth \in Slots
      <4>1. hpc = "ready"
        BY <2>4, PostsReady
      <4>2. QED
        BY <4>1, ReadyIs, Positions
    <3>2. admin_q' \in [exists : BOOLEAN, sq : Nat, cq : Nat, depth : 2 .. MaxDepth, head : Slots, phase : {0, 1}]
      <4> DEFINE h == (admin_q.head + 1) % admin_q.depth
                 p == IF admin_q.head = admin_q.depth - 1 THEN 1 - admin_q.phase ELSE admin_q.phase
      <4>1. h \in Slots /\ p \in {0, 1}
        BY <3>1
      <4>2. admin_q' = [admin_q EXCEPT !.head = h, !.phase = p]
        BY <2>4, PostsReady DEF Post
      <4> HIDE DEF h, p
      <4>3. QED
        BY <4>1, <4>2
    <3>3. dbs' = dbs /\ (old_dbs' = old_dbs \/ old_dbs' = [old_dbs EXCEPT !.io = 0])
      BY <2>4, PostsReady
    <3>4. QED
      BY <2>0, <3>2, <3>3
  <2>5. QED
    BY <1>7, <2>1, <2>2, <2>3, <2>4 DEF AdminStep, Posting
<1>8. CASE GpuStep
  BY <1>1, <1>8 DEF GpuStep, UNCHANGED_controller, regVars, queueVars
<1>9. CASE PollStep \/ Answer
  <2>1. UNCHANGED <<bar, old_bar, rdy, shst, dbs, admin_q>>
    BY <1>9, PollKeeps DEF UNCHANGED_but_poll, regVars, queueVars
  <2>2. old_dbs' = old_dbs \/ old_dbs' = [old_dbs EXCEPT !.io = pnew]
    BY <1>9 DEF PollStep, Look, Compare, Take, TakeOver, Answer
  <2>3. QED
    BY <2>1, <2>2 DEF CtrlInv, Types, PollTypes
<1>10. QED
  BY <1>1, <1>2, <1>3, <1>4, <1>5, <1>6, <1>7, <1>8, <1>9 DEF Next, vars, regVars, queueVars

-----------------------------------------------------------------------------
(* Types of memories and pollers                                           *)

LEMMA ConfKept == CtrlInv /\ [Next]_vars => conf' = conf
<1> SUFFICES ASSUME CtrlInv, [Next]_vars PROVE conf' = conf
  OBVIOUS
<1>1. ASSUME NEW op \in Ops, SendAdmin(op) PROVE conf' = conf
  BY <1>1, SendKeeps
<1>2. CASE HostRegisters \/ TakeCqe \/ SubmitIo
  BY <1>2, HostRegistersKeep DEF TakeCqe, SubmitIo
<1>3. CASE BarStep \/ AdminStep
  BY <1>3, BarKeeps, AdminKeeps DEF UNCHANGED_host, CtrlInv, Types
<1>4. CASE PollStep \/ Answer
  BY <1>4, PollKeeps DEF UNCHANGED_but_poll
<1>5. CASE GpuStep
  BY <1>5 DEF GpuStep, UNCHANGED_controller
<1>6. QED
  BY <1>1, <1>2, <1>3, <1>4, <1>5 DEF Next, vars

LEMMA MemTypesStep == CtrlInv /\ [Next]_vars => MemTypes'
<1> SUFFICES ASSUME CtrlInv, [Next]_vars PROVE MemTypes'
  OBVIOUS
<1>t. MemTypes /\ HostTypes /\ RegTypes
  BY DEF CtrlInv, Types
<1>c. conf' = conf
  BY ConfKept
<1>p. Places' = Places
  BY <1>c DEF Places
<1> USE <1>t, <1>p, Constants DEF MemTypes
<1>1. CASE UNCHANGED <<asq_mem, acq_mem, sq_mem>>
  BY <1>1
<1>2. CASE HostRegisters
  <2>1. CASE WriteAqa
    <3>1. /\ \A f \in [Places -> [Slots -> Ops \cup {Blank}]] : \A p :
               [f EXCEPT ![p] = [i \in Slots |-> Blank]] \in [Places -> [Slots -> Ops \cup {Blank}]]
          /\ \A f \in [Places -> [Slots -> Cqe]] : \A p :
               [f EXCEPT ![p] = [i \in Slots |-> NoCqe]] \in [Places -> [Slots -> Cqe]]
      BY DEF Cqe, NoCqe
    <3>2. QED
      BY <2>1, <3>1 DEF WriteAqa
  <2>2. CASE ~WriteAqa
    BY <1>1, <1>2, <2>2 DEF HostRegisters, WriteAsq, WriteAcq, WriteCc, SeeCsts, Enable, SeeReady, Shutdown,
       SeeShutdown, Disable, SeeDisabled, memVars
  <2>3. QED
    BY <2>1, <2>2
<1>3. ASSUME NEW op \in Ops, SendAdmin(op) PROVE MemTypes'
  <2>1. asq_mem' = [asq_mem EXCEPT ![Prog.place][h_tail] = op] /\ acq_mem' = acq_mem
        /\ (sq_mem' = sq_mem \/ sq_mem' = [i \in IoSlots |-> Blank])
    BY <1>3 DEF SendAdmin
  <2>2. QED
    BY <2>1
<1>4. CASE TakeCqe
  BY <1>4 DEF TakeCqe, memVars
<1>5. CASE SubmitIo
  BY <1>5 DEF SubmitIo, memVars
<1>6. CASE BarStep
  BY <1>1, <1>6, BarKeeps DEF UNCHANGED_host
<1>7. CASE AdminStep
  <2>1. sq_mem' = sq_mem /\ asq_mem' = asq_mem
    BY <1>7, AdminKeeps DEF UNCHANGED_host
  <2>2. CASE Posting
    <3>1. acq_mem' = [acq_mem EXCEPT ![admin_q.cq][admin_q.head] = [op |-> Op, phase |-> admin_q.phase]]
      BY <2>2, PostsReady DEF Post
    <3>2. [op |-> Op, phase |-> admin_q.phase] \in Cqe
      BY <2>2, PostsReady, OpIs DEF Cqe, RegTypes
    <3>3. QED
      BY <2>1, <3>1, <3>2
  <2>3. CASE ~Posting
    <3>1. acq_mem' = acq_mem
      BY <1>7, <2>3 DEF AdminStep, Posting, SeeAdminDb, AdminDone, CreateSq, ResetDb, HideSq, HideCq, memVars
    <3>2. QED
      BY <2>1, <3>1
  <2>4. QED
    BY <2>2, <2>3
<1>8. CASE GpuStep
  BY <1>1, <1>8 DEF GpuStep, UNCHANGED_controller, memVars
<1>9. CASE PollStep \/ Answer
  <2>1. UNCHANGED <<asq_mem, acq_mem>>
    BY <1>9, PollKeeps DEF UNCHANGED_but_poll, memVars
  <2>2. sq_mem' = sq_mem \/ sq_mem' = [sq_mem EXCEPT ![pat] = "done"]
    BY <1>9 DEF PollStep, Look, Compare, Take, TakeOver, Answer
  <2>3. QED
    BY <2>1, <2>2
<1>10. QED
  BY <1>1, <1>2, <1>3, <1>4, <1>5, <1>6, <1>7, <1>8, <1>9 DEF Next, vars, memVars

LEMMA PollTypesStep == CtrlInv /\ [Next]_vars => PollTypes'
<1> SUFFICES ASSUME CtrlInv, [Next]_vars PROVE PollTypes'
  OBVIOUS
<1>t. PollTypes /\ RegTypes
  BY DEF CtrlInv, Types
<1> USE <1>t, Constants DEF PollTypes, DispPlaces, AdminPlaces
<1>1. CASE UNCHANGED <<dpc, dat, dnew, ppc, pat, pnew, queued, sq, cq>>
  BY <1>1
<1>2. CASE HostRegisters
  BY <1>1, <1>2, HostRegistersKeep DEF UNCHANGED_device, dispVars, pollVars, queueVars
<1>3. ASSUME NEW op \in Ops, SendAdmin(op) PROVE PollTypes'
  BY <1>1, <1>3, SendKeeps DEF UNCHANGED_device, dispVars, pollVars, queueVars
<1>4. CASE TakeCqe
  BY <1>1, <1>4 DEF TakeCqe, UNCHANGED_device, dispVars, pollVars, queueVars
<1>5. CASE SubmitIo
  BY <1>1, <1>5 DEF SubmitIo, UNCHANGED_device, dispVars, pollVars, queueVars
<1>6. CASE BarStep
  <2>1. dpc' \in DispPlaces
    BY <1>6 DEF BarStep, Same, SeeAqa, SeeAsq, SeeAcq, SeeCc
  <2>2. QED
    BY <1>6, <2>1, BarKeeps
<1>7. CASE AdminStep
  <2>1. UNCHANGED <<ppc, pat, pnew, queued>>
    BY <1>7, AdminKeeps
  <2>2. dpc' \in DispPlaces
    BY <1>7, PostsReady DEF AdminStep, Posting, SeeAdminDb, AdminDone, CreateSq, ResetDb, HideSq, HideCq, Onward
  <2>3. dat' \in Slots /\ dnew' \in Slots
    <3>1. CASE Posting
      <4>1. dat' = (dat + 1) % admin_q.depth /\ dnew' = dnew /\ hpc = "ready" /\ dat = Taken
        BY <3>1, PostsReady, OpIs DEF Post
      <4>2. dat' \in Slots
        BY <4>1, ReadyIs, Positions
      <4>3. QED
        BY <4>1, <4>2
    <3>2. CASE ~Posting
      BY <1>7, <3>2 DEF AdminStep, Posting, SeeAdminDb, AdminDone, CreateSq, ResetDb, HideSq, HideCq, RegTypes
    <3>3. QED
      BY <3>1, <3>2
  <2>4. sq' \in IoQueue /\ cq' \in IoQueue
    <3>1. CASE CreateCq
      BY <3>1 DEF CreateCq, IoQueue
    <3>2. CASE CreateSq
      BY <3>2 DEF CreateSq, IoQueue
    <3>a. NoIoQueue \in IoQueue /\ \A q \in IoQueue : [q EXCEPT !.shown = FALSE] \in IoQueue
      BY DEF IoQueue, NoIoQueue
    <3>3. CASE HideSq \/ FreeSq
      BY <3>3, <3>a DEF HideSq, FreeSq
    <3>4. CASE HideCq \/ FreeCq
      BY <3>4, <3>a DEF HideCq, FreeCq
    <3>5. CASE SeeAdminDb \/ AdminDone \/ Identify \/ NumQueues \/ ResetDb \/ ResetOldDb
      BY <3>5 DEF SeeAdminDb, AdminDone, Identify, NumQueues, ResetDb, ResetOldDb, queueVars
    <3>6. QED
      BY <1>7, <3>1, <3>2, <3>3, <3>4, <3>5 DEF AdminStep
  <2>5. QED
    BY <2>1, <2>2, <2>3, <2>4
<1>8. CASE GpuStep
  BY <1>1, <1>8 DEF GpuStep, UNCHANGED_controller, dispVars, pollVars, queueVars
<1>9. CASE PollStep \/ Answer
  <2>1. UNCHANGED <<dat, dnew, sq, cq>>
    BY <1>9, PollKeeps DEF UNCHANGED_but_poll, queueVars
  <2>2. CASE Look
    BY <2>1, <2>2 DEF Look, RoundOver, RegTypes
  <2>3. CASE Compare
    BY <2>1, <2>3 DEF Compare, RoundOver, RegTypes
  <2>4. CASE Take
    <3>1. pat' \in IoSlots
      BY <2>4, Positions DEF Take
    <3>2. queued' \in Nat
      BY <2>4 DEF Take
    <3>3. QED
      BY <2>1, <2>4, <3>1, <3>2 DEF Take
  <2>5. CASE TakeOver
    BY <2>1, <2>5 DEF TakeOver, RoundOver
  <2>6. CASE Answer
    BY <2>1, <2>6 DEF Answer
  <2>7. QED
    BY <1>9, <2>2, <2>3, <2>4, <2>5, <2>6 DEF PollStep
<1>10. QED
  BY <1>1, <1>2, <1>3, <1>4, <1>5, <1>6, <1>7, <1>8, <1>9 DEF Next, vars, dispVars, pollVars, queueVars

-----------------------------------------------------------------------------
(* Registers, as written and as seen                                       *)

\* Who writes the registers, and who writes what was seen of them.
LEMMA HostOwns == CtrlInv /\ [Next]_vars => HostRegisters \/ UNCHANGED <<bar, hpc, start>>
<1> SUFFICES ASSUME CtrlInv, [Next]_vars, ~HostRegisters PROVE UNCHANGED <<bar, hpc, start>>
  OBVIOUS
<1>1. ASSUME NEW op \in Ops, SendAdmin(op) PROVE UNCHANGED <<bar, hpc, start>>
  BY <1>1, SendKeeps
<1>2. CASE TakeCqe \/ SubmitIo
  BY <1>2 DEF TakeCqe, SubmitIo, hostVars
<1>3. CASE BarStep \/ AdminStep
  BY <1>3, BarKeeps, AdminKeeps DEF UNCHANGED_host, CtrlInv, Types, hostVars
<1>4. CASE PollStep \/ Answer
  BY <1>4, PollKeeps DEF UNCHANGED_but_poll, regVars, hostVars
<1>5. CASE GpuStep
  BY <1>5 DEF GpuStep, UNCHANGED_controller, regVars, hostVars
<1>6. QED
  BY <1>1, <1>2, <1>3, <1>4, <1>5 DEF Next, vars, regVars, hostVars

LEMMA BarOwns == CtrlInv /\ [Next]_vars => BarStep \/ UNCHANGED <<old_bar, rdy, shst>>
<1> SUFFICES ASSUME CtrlInv, [Next]_vars, ~BarStep PROVE UNCHANGED <<old_bar, rdy, shst>>
  OBVIOUS
<1>1. ASSUME NEW op \in Ops, SendAdmin(op) PROVE UNCHANGED <<old_bar, rdy, shst>>
  BY <1>1, SendKeeps DEF UNCHANGED_device
<1>2. CASE HostRegisters \/ TakeCqe \/ SubmitIo
  BY <1>2, HostRegistersKeep DEF TakeCqe, SubmitIo, UNCHANGED_device
<1>3. CASE AdminStep
  BY <1>3, AdminKeeps
<1>4. CASE PollStep \/ Answer
  BY <1>4, PollKeeps DEF UNCHANGED_but_poll, regVars
<1>5. CASE GpuStep
  BY <1>5 DEF GpuStep, UNCHANGED_controller, regVars
<1>6. QED
  BY <1>1, <1>2, <1>3, <1>4, <1>5 DEF Next, vars, regVars

\* At work, the dispatcher finds no register changed; at rest, it finds no admin command.
LEMMA BarAtWork ==
  ASSUME CtrlInv, hpc = "ready", BarStep
  PROVE  /\ UNCHANGED <<old_bar, rdy, shst, memVars, dbs, old_dbs, queueVars, dat, dnew, pollVars>>
         /\ UNCHANGED_host
         /\ dpc \in {"aqa", "asq", "acq", "cc"} /\ dpc' \in {"asq", "acq", "cc", "doorbell"}
<1>1. ~SeeAqa /\ ~SeeAsq /\ ~SeeAcq /\ ~SeeCc
  BY DEF CtrlInv, Seen, Settled, Written, SeeAqa, SeeAsq, SeeAcq, SeeCc
<1>2. QED
  BY <1>1 DEF BarStep, Same

LEMMA AdminAtRest ==
  ASSUME CtrlInv, hpc # "ready", AdminStep
  PROVE  /\ UNCHANGED <<old_bar, rdy, shst, memVars, dbs, old_dbs, queueVars, dat, dnew, pollVars>>
         /\ UNCHANGED_host
         /\ dpc' \in {"aqa", "io"}
<1>1. dpc \notin AdminPlaces /\ dbs.admin = old_dbs.admin
  BY DEF CtrlInv, Resting
<1>2. SeeAdminDb
  BY <1>1 DEF AdminStep, AdminDone, Identify, NumQueues, CreateCq, CreateSq, ResetDb, ResetOldDb,
              HideSq, FreeSq, HideCq, FreeCq, AtCommand, AdminPlaces
<1>3. QED
  BY <1>1, <1>2 DEF SeeAdminDb, Onward

\* Where the dispatcher goes.
LEMMA Goes ==
  ASSUME CtrlInv, [Next]_vars
  PROVE  \/ BarStep \/ dpc' \in {dpc, "aqa", "io"} \cup AdminPlaces
<1>1. ASSUME NEW op \in Ops, SendAdmin(op) PROVE dpc' = dpc
  BY <1>1, SendKeeps DEF UNCHANGED_device, dispVars
<1>2. CASE HostRegisters \/ TakeCqe \/ SubmitIo
  BY <1>2, HostRegistersKeep DEF TakeCqe, SubmitIo, UNCHANGED_device, dispVars
<1>3. CASE AdminStep
  BY <1>3, PostsReady DEF AdminStep, Posting, SeeAdminDb, AdminDone, CreateSq, ResetDb, HideSq, HideCq, Onward, AdminPlaces
<1>4. CASE PollStep \/ Answer
  BY <1>4 DEF PollStep, Look, Compare, Take, TakeOver, Answer, RoundOver
<1>5. CASE GpuStep
  BY <1>5 DEF GpuStep, UNCHANGED_controller, dispVars
<1>6. QED
  BY <1>1, <1>2, <1>3, <1>4, <1>5 DEF Next, vars, dispVars

\* A start that begins is the next of the program.
LEMMA NextStart ==
  ASSUME CtrlInv, WriteAqa
  PROVE  /\ start + 1 \in 1 .. Len(conf.prog) /\ start \in Nat
         /\ Start(start + 1) = conf.prog[start + 1]
         /\ Start(start + 1).depth \in 2 .. MaxDepth /\ Start(start + 1).place \in Places
         /\ Start(start + 1).place \in Nat \ {0}
         /\ start = 0 => Start(start) = NoStart
         /\ start # 0 => start \in 1 .. Len(conf.prog) - 1 /\ Start(start) = conf.prog[start]
<1>1. conf \in Configs /\ start \in 0 .. Len(conf.prog) /\ start < Len(conf.prog) /\ Len(conf.prog) \in Nat
  BY StartIs DEF CtrlInv, Types, HostTypes, WriteAqa
<1>2. start + 1 \in 1 .. Len(conf.prog) /\ start \in Nat /\ 0 \notin 1 .. Len(conf.prog)
      /\ (start # 0 => start \in 1 .. Len(conf.prog) - 1 /\ start \in 1 .. Len(conf.prog))
  BY <1>1
<1>3. QED
  BY <1>1, <1>2, StartIs

LEMMA WrittenStep == CtrlInv /\ [Next]_vars => Written'
<1> SUFFICES ASSUME CtrlInv, [Next]_vars PROVE Written'
  OBVIOUS
<1>t. HostTypes /\ RegTypes /\ Written
  BY DEF CtrlInv, Types
<1>c. conf' = conf
  BY ConfKept
<1>1. CASE UNCHANGED <<bar, hpc, start>>
  BY <1>1, <1>c, <1>t DEF Written, Now, Was, Start
<1>2. CASE HostRegisters
  <2>1. CASE WriteAqa
    <3>1. start \in Nat /\ start' = start + 1 /\ hpc' = "asq" /\ hpc = "off"
          /\ bar' = [bar EXCEPT !.aqa = Start(start + 1).depth]
      BY <2>1, NextStart DEF WriteAqa
    <3>2. Now' = Start(start + 1) /\ Was' = Now
      <4>1. start' - 1 = start
        BY <3>1
      <4>2. QED
        BY <3>1, <4>1, <1>c DEF Now, Was, Start
    <3>3. /\ bar'.aqa = Start(start + 1).depth /\ bar'.asq = bar.asq /\ bar'.acq = bar.acq /\ bar'.cc = bar.cc
      BY <3>1, <1>t DEF RegTypes
    <3>4. QED
      BY <3>1, <3>2, <3>3, <1>t DEF Written
  <2>2. CASE WriteAsq \/ WriteAcq
    <3>1. Prog = Now /\ start > 0
      BY <2>2, <1>t, StartedIs, NowIs DEF WriteAsq, WriteAcq
    <3>2. Now' = Now /\ Was' = Was /\ start' = start
      BY <2>2, <1>c DEF WriteAsq, WriteAcq, Now, Was, Start
    <3>3. QED
      BY <3>1, <3>2, <2>2, <1>t DEF WriteAsq, WriteAcq, Written, RegTypes
  <2>3. CASE Enable \/ Shutdown \/ Disable
    <3>1. Now' = Now /\ Was' = Was /\ start' = start
      BY <2>3, <1>c DEF Enable, Shutdown, Disable, WriteCc, Now, Was, Start
    <3>2. start # 0
      BY <2>3, StartedIs DEF Enable, Shutdown, Disable, WriteCc
    <3>3. QED
      BY <3>1, <3>2, <2>3, <1>t DEF Enable, Shutdown, Disable, WriteCc, Written, RegTypes
  <2>4. CASE SeeReady \/ SeeShutdown \/ SeeDisabled
    <3>1. Now' = Now /\ Was' = Was /\ start' = start /\ bar' = bar
      BY <2>4, <1>c DEF SeeReady, SeeShutdown, SeeDisabled, SeeCsts, Now, Was, Start
    <3>2. start # 0
      BY <2>4, StartedIs DEF SeeReady, SeeShutdown, SeeDisabled, SeeCsts
    <3>3. QED
      BY <3>1, <3>2, <2>4, <1>t DEF SeeReady, SeeShutdown, SeeDisabled, SeeCsts, Written
  <2>5. QED
    BY <1>2, <2>1, <2>2, <2>3, <2>4 DEF HostRegisters
<1>3. QED
  BY <1>1, <1>2, HostOwns

LEMMA SeenStep == CtrlInv /\ [Next]_vars => Seen'
<1> SUFFICES ASSUME CtrlInv, [Next]_vars PROVE Seen'
  OBVIOUS
<1>t. HostTypes /\ RegTypes /\ Written /\ Seen /\ dpc \in DispPlaces
  BY DEF CtrlInv, Types, PollTypes
<1>1. CASE ~HostRegisters /\ ~BarStep
  <2>1. UNCHANGED <<bar, hpc, start, old_bar, rdy>> /\ dpc' \in {dpc, "aqa", "io"} \cup AdminPlaces
    BY <1>1, HostOwns, BarOwns, Goes
  <2>2. QED
    BY <2>1, <1>t DEF Seen, Settled, AdminPlaces
<1>2. CASE BarStep
  <2>0. UNCHANGED <<bar, hpc, start>>
    BY <1>2, <1>t, BarKeeps DEF UNCHANGED_host, hostVars
  <2>1. CASE Same("aqa", "aqa", "asq") \/ Same("asq", "asq", "acq") \/ Same("acq", "acq", "cc")
             \/ Same("cc", "cc", "doorbell")
    BY <2>0, <2>1, <1>t DEF Same, Seen, Settled
  <2>2. CASE SeeAqa
    BY <2>0, <2>2, <1>t DEF SeeAqa, Seen, Settled, RegTypes, HostTypes, HostStages
  <2>3. CASE SeeAsq
    BY <2>0, <2>3, <1>t DEF SeeAsq, Seen, Settled, RegTypes, HostTypes, HostStages
  <2>4. CASE SeeAcq
    BY <2>0, <2>4, <1>t DEF SeeAcq, Seen, Settled, RegTypes, HostTypes, HostStages
  <2>5. CASE SeeCc
    <3>1. dpc = "cc" /\ dpc' = "doorbell"
          /\ old_bar' = [old_bar EXCEPT !.cc = bar.cc]
          /\ rdy' = IF bar.cc = "off" THEN FALSE ELSE rdy \/ admin_q.exists
      BY <2>5 DEF SeeCc
    <3>2. old_bar'.cc = bar.cc /\ old_bar'.aqa = old_bar.aqa /\ old_bar'.asq = old_bar.asq
          /\ old_bar'.acq = old_bar.acq
      BY <3>1, <1>t DEF RegTypes
    <3>3. bar.cc # "off" => hpc \in {"starting", "ready", "stopping", "stopped"}
      BY <1>t DEF Written
    <3>4. hpc \in {"starting", "ready", "stopping", "stopped"} => Settled
      BY <3>1, <1>t DEF Seen, Settled
    <3>5. bar.cc # "off" => admin_q.exists
      <4>1. bar.cc # "off" => start > 0
        BY <3>3, StartedIs
      <4>2. bar.cc # "off" => old_bar.aqa # 0
        BY <3>3, <3>4, <4>1, <1>t, NowIs DEF Written, Settled
      <4>3. QED
        BY <4>2 DEF CtrlInv, QueueAsSeen
    <3>6. rdy' <=> old_bar'.cc # "off"
      BY <3>1, <3>2, <3>5
    <3>7. QED
      BY <2>0, <3>1, <3>2, <3>3, <3>4, <3>6, <1>t DEF Seen, Settled, Written
  <2>6. QED
    BY <1>2, <2>1, <2>2, <2>3, <2>4, <2>5 DEF BarStep
<1>3. CASE HostRegisters
  <2>0. UNCHANGED <<old_bar, rdy, dpc>>
    BY <1>3, HostRegistersKeep DEF UNCHANGED_device, dispVars
  <2>1. CASE WriteAqa
    BY <2>0, <2>1, <1>t DEF WriteAqa, Seen, Settled, RegTypes
  <2>2. CASE WriteAsq \/ WriteAcq
    BY <2>0, <2>2, <1>t DEF WriteAsq, WriteAcq, Seen, Settled, RegTypes
  <2>3. CASE Enable
    BY <2>0, <2>3, <1>t DEF Enable, WriteCc, Seen, Settled, RegTypes
  <2>4. CASE Shutdown \/ Disable
    BY <2>0, <2>4, <1>t DEF Shutdown, Disable, WriteCc, Seen, Settled, RegTypes
  <2>5. CASE SeeReady \/ SeeShutdown \/ SeeDisabled
    BY <2>0, <2>5, <1>t DEF SeeReady, SeeShutdown, SeeDisabled, SeeCsts, Seen, Settled
  <2>6. QED
    BY <1>3, <2>1, <2>2, <2>3, <2>4, <2>5 DEF HostRegisters
<1>4. QED
  BY <1>1, <1>2, <1>3

\* Who writes the admin queue, and what of it a completion leaves alone.
LEMMA QueueOwns ==
  ASSUME CtrlInv, [Next]_vars, ~BarStep
  PROVE  /\ admin_q'.exists = admin_q.exists /\ admin_q'.sq = admin_q.sq /\ admin_q'.cq = admin_q.cq
         /\ admin_q'.depth = admin_q.depth
         /\ Posting \/ (admin_q' = admin_q /\ acq_mem' = acq_mem) \/ WriteAqa
         /\ ~Posting => admin_q' = admin_q
<1>1. ASSUME NEW op \in Ops, SendAdmin(op) PROVE admin_q' = admin_q /\ acq_mem' = acq_mem
  BY <1>1, SendKeeps DEF UNCHANGED_device, queueVars
<1>2. CASE HostRegisters \/ TakeCqe \/ SubmitIo
  <2>1. admin_q' = admin_q
    BY <1>2, HostRegistersKeep DEF TakeCqe, SubmitIo, UNCHANGED_device, queueVars
  <2>2. acq_mem' = acq_mem \/ WriteAqa
    BY <1>2 DEF HostRegisters, WriteAsq, WriteAcq, WriteCc, SeeCsts, Enable, SeeReady, Shutdown,
       SeeShutdown, Disable, SeeDisabled, memVars, TakeCqe, SubmitIo
  <2>3. QED
    BY <2>1, <2>2
<1>3. CASE AdminStep /\ ~Posting
  BY <1>3 DEF AdminStep, Posting, SeeAdminDb, AdminDone, CreateSq, ResetDb, HideSq, HideCq, queueVars, memVars
<1>4. CASE Posting
  BY <1>4, PostsReady DEF Post, CtrlInv, Types, RegTypes
<1>5. CASE PollStep \/ Answer
  BY <1>5, PollKeeps DEF UNCHANGED_but_poll, queueVars, memVars
<1>6. CASE GpuStep
  BY <1>6 DEF GpuStep, UNCHANGED_controller, queueVars, memVars
<1>7. QED
  BY <1>1, <1>2, <1>3, <1>4, <1>5, <1>6 DEF Next, vars, queueVars, memVars

LEMMA QueueAsSeenStep == CtrlInv /\ [Next]_vars => QueueAsSeen'
<1> SUFFICES ASSUME CtrlInv, [Next]_vars PROVE QueueAsSeen'
  OBVIOUS
<1>t. HostTypes /\ RegTypes /\ Written /\ Seen /\ QueueAsSeen
  BY DEF CtrlInv, Types
<1>1. CASE BarStep
  <2>0. UNCHANGED <<bar, hpc, start>>
    BY <1>1, <1>t, BarKeeps DEF UNCHANGED_host, hostVars
  <2>1. CASE Same("aqa", "aqa", "asq") \/ Same("asq", "asq", "acq") \/ Same("acq", "acq", "cc")
             \/ Same("cc", "cc", "doorbell")
    BY <2>0, <2>1, <1>t DEF Same, QueueAsSeen, queueVars
  <2>2. CASE SeeAqa
    BY <2>0, <2>2, <1>t, SeesIs DEF SeeAqa, QueueAsSeen, RegTypes
  <2>3. CASE SeeAsq
    <3>1. CASE ~admin_q.exists
      BY <2>0, <2>3, <3>1, <1>t DEF SeeAsq, QueueAsSeen
    <3>2. CASE admin_q.exists
      <4>1. /\ admin_q' = [admin_q EXCEPT !.sq = bar.asq, !.depth = bar.aqa]
            /\ old_bar' = [old_bar EXCEPT !.asq = bar.asq]
        BY <2>3, <3>2 DEF SeeAsq
      <4>2. /\ admin_q'.exists = admin_q.exists /\ admin_q'.sq = bar.asq /\ admin_q'.cq = admin_q.cq
            /\ admin_q'.depth = bar.aqa
        BY <4>1, <1>t DEF RegTypes
      <4>3. old_bar'.asq = bar.asq /\ \A x \in {"aqa", "asq", "acq"} \ {"asq"} : old_bar'[x] = old_bar[x]
        BY <4>1, <1>t DEF RegTypes
      <4>4. QED
        BY <2>0, <4>2, <4>3, <1>t DEF QueueAsSeen
    <3>3. QED
      BY <3>1, <3>2
  <2>4. CASE SeeAcq
    <3>1. CASE ~admin_q.exists
      BY <2>0, <2>4, <3>1, <1>t DEF SeeAcq, QueueAsSeen
    <3>2. CASE admin_q.exists
      <4>1. /\ admin_q' = [admin_q EXCEPT !.cq = bar.acq, !.depth = bar.aqa, !.head = 0, !.phase = 1]
            /\ old_bar' = [old_bar EXCEPT !.acq = bar.acq]
        BY <2>4, <3>2 DEF SeeAcq
      <4>2. /\ admin_q'.exists = admin_q.exists /\ admin_q'.cq = bar.acq /\ admin_q'.sq = admin_q.sq
            /\ admin_q'.depth = bar.aqa
        BY <4>1, <1>t DEF RegTypes
      <4>3. old_bar'.acq = bar.acq /\ \A x \in {"aqa", "asq", "acq"} \ {"acq"} : old_bar'[x] = old_bar[x]
        BY <4>1, <1>t DEF RegTypes
      <4>4. QED
        BY <2>0, <4>2, <4>3, <1>t DEF QueueAsSeen
    <3>3. QED
      BY <3>1, <3>2
  <2>5. CASE SeeCc
    BY <2>0, <2>5, <1>t DEF SeeCc, QueueAsSeen, RegTypes
  <2>6. QED
    BY <1>1, <2>1, <2>2, <2>3, <2>4, <2>5 DEF BarStep
<1>2. CASE ~BarStep
  <2>1. /\ admin_q'.exists = admin_q.exists /\ admin_q'.sq = admin_q.sq /\ admin_q'.cq = admin_q.cq
        /\ admin_q'.depth = admin_q.depth /\ old_bar' = old_bar
    BY <1>2, QueueOwns, BarOwns
  <2>2. CASE bar'.aqa = bar.aqa
    BY <2>1, <2>2, <1>t DEF QueueAsSeen
  <2>3. CASE WriteAqa
    <3>1. Settled
      BY <2>3, <1>t DEF WriteAqa, Seen
    <3>2. QED
      BY <2>1, <3>1, <1>t DEF QueueAsSeen, Settled
  <2>4. CASE HostRegisters /\ ~WriteAqa
    <3>1. bar'.aqa = bar.aqa
      BY <2>4, <1>t DEF HostRegisters, WriteAsq, WriteAcq, WriteCc, SeeCsts, Enable, SeeReady, Shutdown,
         SeeShutdown, Disable, SeeDisabled, RegTypes
    <3>2. QED
      BY <2>2, <3>1
  <2>5. QED
    BY <2>2, <2>3, <2>4, HostOwns
<1>3. QED
  BY <1>1, <1>2

-----------------------------------------------------------------------------
(* A host at rest, and a start that is made                                *)

\* What the host and the others do not do to the admin doorbells.
LEMMA RestKept ==
  ASSUME CtrlInv, [Next]_vars, hpc # "ready"
  PROVE  /\ flight' = flight /\ (life' = life \/ life' = "new")
         /\ \/ BarStep
            \/ /\ dbs' = dbs /\ old_dbs'.admin = old_dbs.admin
               /\ dpc' \in {dpc, "aqa", "io"}
               /\ admin_q' = admin_q
<1>t. RegTypes
  BY DEF CtrlInv, Types
<1>1. ASSUME NEW op \in Ops, SendAdmin(op) PROVE FALSE
  BY <1>1 DEF SendAdmin
<1>2. ~TakeCqe /\ ~SubmitIo
  BY DEF TakeCqe, SubmitIo
<1>3. CASE HostRegisters
  BY <1>3, HostRegistersKeep DEF UNCHANGED_device, queueVars, dispVars
<1>4. CASE BarStep
  BY <1>4, <1>t, BarKeeps DEF UNCHANGED_host, hostVars
<1>5. CASE AdminStep
  BY <1>5, AdminAtRest DEF UNCHANGED_host, hostVars, queueVars
<1>6. CASE PollStep \/ Answer
  <2>1. UNCHANGED <<flight, life, dbs, admin_q>>
    BY <1>6, PollKeeps DEF UNCHANGED_but_poll, hostVars, queueVars
  <2>2. old_dbs'.admin = old_dbs.admin /\ dpc' \in {dpc, "aqa"}
    BY <1>6, <1>t DEF PollStep, Look, Compare, Take, TakeOver, Answer, RoundOver, RegTypes
  <2>3. QED
    BY <2>1, <2>2
<1>7. CASE GpuStep
  BY <1>7 DEF GpuStep, UNCHANGED_controller, hostVars, queueVars, dispVars
<1>8. QED
  BY <1>1, <1>2, <1>3, <1>4, <1>5, <1>6, <1>7 DEF Next, vars, hostVars, queueVars, dispVars

\* With no command under way there is nothing to take.
LEMMA NothingWaits ==
  ASSUME CtrlInv, hpc = "ready", flight = {}
  PROVE  Waiting = {} /\ Unread = {} /\ Taken = h_tail /\ h_head = admin_q.head
<1>1. Asked = {} /\ Answered = {}
  BY DEF CtrlInv, OncePlaced
<1>2. Waiting = {} /\ Unread = {}
  BY <1>1 DEF Asked, Answered
<1>3. /\ Now.depth \in Nat \ {0} /\ h_tail \in 0 .. Now.depth - 1 /\ h_head \in 0 .. Now.depth - 1
      /\ admin_q.head \in 0 .. Now.depth - 1 /\ Taken \in 0 .. Now.depth - 1
  BY ReadyIs
<1>4. Taken = h_tail
  BY <1>2, <1>3, Stretch DEF Waiting
<1>5. h_head = admin_q.head
  <2>1. Between(h_head, admin_q.head, Now.depth) = {}
    BY <1>2 DEF Unread
  <2>2. \A i \in 0 .. Now.depth - 1 : h_head # i => Between(h_head, i, Now.depth) # {}
    BY <1>3, Stretch
  <2>3. QED
    BY <1>3, <2>1, <2>2
<1>6. QED
  BY <1>2, <1>4, <1>5

LEMMA RestingStep == CtrlInv /\ [Next]_vars => Resting'
<1> SUFFICES ASSUME CtrlInv, [Next]_vars, hpc' # "ready"
             PROVE  /\ flight' = {} /\ life' \in {"new", "down"}
                    /\ dbs'.admin = old_dbs'.admin /\ dpc' \notin AdminPlaces
  BY DEF Resting
<1>t. RegTypes
  BY DEF CtrlInv, Types
<1>1. CASE hpc = "ready"
  <2>1. HostRegisters
    BY <1>1, HostOwns
  <2>2. Shutdown
    BY <1>1, <2>1 DEF HostRegisters, WriteAqa, WriteAsq, WriteAcq, WriteCc, SeeCsts, Enable, SeeReady,
       SeeShutdown, Disable, SeeDisabled
  <2>3. flight = {} /\ life \in {"new", "down"} /\ dpc = "aqa"
        /\ UNCHANGED <<flight, life, dbs, old_dbs, dpc>>
    BY <2>2 DEF Shutdown, WriteCc, UNCHANGED_device, dispVars
  <2>4. dbs.admin = old_dbs.admin
    <3>1. Taken = h_tail
      BY <1>1, <2>3, NothingWaits
    <3>2. Taken = old_dbs.admin
      BY <2>3 DEF Taken
    <3>3. QED
      BY <1>1, <3>1, <3>2 DEF CtrlInv, InQueue
  <2>5. QED
    BY <2>3, <2>4 DEF AdminPlaces
<1>2. CASE hpc # "ready"
  <2>1. /\ flight = {} /\ life \in {"new", "down"} /\ dbs.admin = old_dbs.admin /\ dpc \notin AdminPlaces
    BY <1>2 DEF CtrlInv, Resting
  <2>2. CASE BarStep
    <3>1. dpc' \in {"asq", "acq", "cc", "doorbell"}
      BY <2>2 DEF BarStep, Same, SeeAqa, SeeAsq, SeeAcq, SeeCc
    <3>2. dbs'.admin = old_dbs'.admin
      <4>1. UNCHANGED <<dbs, old_dbs>> \/ (dbs' = [dbs EXCEPT !.admin = 0] /\ old_dbs' = [old_dbs EXCEPT !.admin = 0])
        BY <2>2 DEF BarStep, Same, SeeAqa, SeeAsq, SeeAcq, SeeCc
      <4>2. QED
        BY <4>1, <2>1, <1>t DEF RegTypes
    <3>3. QED
      BY <1>2, <2>1, <3>1, <3>2, RestKept DEF AdminPlaces
  <2>3. CASE ~BarStep
    BY <1>2, <2>1, <2>3, RestKept DEF AdminPlaces
  <2>4. QED
    BY <2>2, <2>3
<1>3. QED
  BY <1>1, <1>2

\* The parts of New that are about the dispatcher.
Cleared(now, was) ==
  /\ now = was => dbs.admin = 0 /\ admin_q.head = 0 /\ admin_q.phase = 1
  /\ now.depth # was.depth /\ old_bar.aqa = bar.aqa =>
       dbs.admin = 0 /\ admin_q.head = 0 /\ admin_q.phase = 1
  /\ now.place # was.place /\ hpc # "asq" /\ old_bar.asq = bar.asq => dbs.admin = 0
  /\ now.place # was.place /\ hpc \in {"enable", "starting"} /\ old_bar.acq = bar.acq =>
       admin_q.head = 0 /\ admin_q.phase = 1

LEMMA NewStep == Sound /\ CtrlInv /\ [Next]_vars => New'
<1> SUFFICES ASSUME Sound, CtrlInv, [Next]_vars, hpc' \in Making PROVE New'
  BY DEF New
<1>t. HostTypes /\ RegTypes /\ MemTypes /\ Written /\ Seen /\ QueueAsSeen
  BY DEF CtrlInv, Types
<1>c. conf' = conf
  BY ConfKept
<1> USE DEF Making
<1>1. CASE WriteAqa
  <2> DEFINE s == Start(start + 1)
  <2>1. start' = start + 1 /\ start \in Nat /\ s \in {conf.prog[start + 1]} /\ s.place \in Places
        /\ s.depth \in 2 .. MaxDepth
    BY <1>1, NextStart DEF WriteAqa
  <2>2. Now' = s /\ Was' = Now
    <3>1. start' - 1 = start
      BY <2>1
    <3>2. QED
      BY <2>1, <3>1, <1>c DEF Now, Was, Start
  <2>3. s = Now => dbs.admin = 0 /\ admin_q.head = 0 /\ admin_q.phase = 1
    <3>1. CASE start = 0
      <4>1. Now = NoStart /\ NoStart.depth = 0 /\ s.depth # 0
        BY <3>1, <1>1, <2>1, NextStart, Constants DEF Now, NoStart
      <4>2. QED
        BY <4>1
    <3>2. CASE start # 0
      <4> SUFFICES ASSUME s = Now PROVE dbs.admin = 0 /\ admin_q.head = 0 /\ admin_q.phase = 1
        OBVIOUS
      <4>1. start \in 1 .. Len(conf.prog) - 1 /\ Now = conf.prog[start] /\ conf.prog[start] = conf.prog[start + 1]
        BY <3>2, <1>1, <2>1, NextStart DEF Now
      <4>2. start = 1 /\ conf.admins < Now.depth
        BY <4>1, <1>t DEF Sound, HostTypes
      <4>3. hpc = "off"
        BY <1>1 DEF WriteAqa
      <4>4. QED
        BY <4>2, <4>3 DEF CtrlInv, First
    <3>3. QED
      BY <3>1, <3>2
  <2>4. acq_mem'[s.place] = [i \in Slots |-> NoCqe]
    BY <1>1, <1>t, <2>1 DEF WriteAqa, MemTypes
  <2>5. h_tail' = 0 /\ h_head' = 0 /\ h_phase' = 1 /\ hpc' = "asq"
    BY <1>1 DEF WriteAqa
  <2>6. s.depth # Now.depth => old_bar'.aqa # bar'.aqa
    <3>1. old_bar.aqa = Now.depth
      BY <1>1, <1>t DEF WriteAqa, Seen, Settled, Written
    <3>2. bar'.aqa = s.depth /\ old_bar' = old_bar
      BY <1>1, <2>1, <1>t DEF WriteAqa, UNCHANGED_device, RegTypes
    <3>3. QED
      BY <3>1, <3>2
  <2> HIDE DEF s
  <2>7. QED
    <3>1. UNCHANGED <<dbs, admin_q>>
      BY <1>1 DEF WriteAqa, UNCHANGED_device, queueVars
    <3>2. QED
      BY <3>1, <2>2, <2>3, <2>4, <2>5, <2>6 DEF New
<1>2. CASE ~WriteAqa
  <2>1. hpc \in Making
    BY <1>2, HostOwns DEF HostRegisters, WriteAsq, WriteAcq, WriteCc, SeeCsts, Enable, SeeReady, Shutdown,
       SeeShutdown, Disable, SeeDisabled
  <2>2. hpc # "ready" /\ New
    BY <2>1 DEF CtrlInv
  <2>3. start' = start /\ Now' = Now /\ Was' = Was
    <3>1. start' = start
      BY <1>2, HostOwns DEF HostRegisters, WriteAsq, WriteAcq, WriteCc, SeeCsts, Enable, SeeReady, Shutdown,
         SeeShutdown, Disable, SeeDisabled
    <3>2. QED
      BY <3>1, <1>c DEF Now, Was, Start
  <2>4. UNCHANGED <<h_tail, h_head, h_phase, acq_mem>>
    <3>1. ASSUME NEW op \in Ops, SendAdmin(op) PROVE FALSE
      BY <2>1, <3>1 DEF SendAdmin
    <3>2. ~TakeCqe /\ ~SubmitIo /\ ~Posting
      BY <2>2, PostsReady DEF TakeCqe, SubmitIo
    <3>3. CASE HostRegisters
      BY <1>2, <3>3 DEF HostRegisters, WriteAsq, WriteAcq, WriteCc, SeeCsts, Enable, SeeReady, Shutdown,
         SeeShutdown, Disable, SeeDisabled, memVars
    <3>4. CASE BarStep
      BY <3>4, <1>t, BarKeeps DEF UNCHANGED_host, hostVars
    <3>5. CASE AdminStep
      BY <2>2, <3>5, AdminAtRest DEF UNCHANGED_host, hostVars, memVars
    <3>6. CASE PollStep \/ Answer
      BY <3>6, PollKeeps DEF UNCHANGED_but_poll, hostVars, memVars
    <3>7. CASE GpuStep
      BY <3>7 DEF GpuStep, UNCHANGED_controller, hostVars, memVars
    <3>8. QED
      BY <3>1, <3>2, <3>3, <3>4, <3>5, <3>6, <3>7 DEF Next, vars, hostVars, memVars
  <2>5. Cleared(Now, Was)
    BY <2>1, <2>2 DEF New, Cleared
  <2>6. (Cleared(Now, Was))'
    <3>1. Now.depth \in Nat /\ Was.depth \in Nat /\ Now.place \in Nat /\ Was.place \in Nat
      BY <1>t, StartIs DEF HostTypes, Now, Was
    <3>2. CASE BarStep
      <4>0. UNCHANGED <<bar, hpc>>
        BY <3>2, <1>t, BarKeeps DEF UNCHANGED_host, hostVars
      <4>1. CASE Same("aqa", "aqa", "asq") \/ Same("asq", "asq", "acq") \/ Same("acq", "acq", "cc")
                 \/ Same("cc", "cc", "doorbell")
        BY <4>0, <4>1, <2>3, <2>5 DEF Same, Cleared, queueVars
      <4>2. CASE SeeAqa
        BY <4>0, <4>2, <2>3, <2>5, <1>t DEF SeeAqa, Cleared, RegTypes
      <4>3. CASE SeeAsq
        BY <4>0, <4>3, <2>3, <2>5, <1>t DEF SeeAsq, Cleared, RegTypes
      <4>4. CASE SeeAcq
        BY <4>0, <4>4, <2>3, <2>5, <1>t DEF SeeAcq, Cleared, RegTypes
      <4>5. CASE SeeCc
        BY <2>1, <4>0, <4>5, <2>3, <2>5, <1>t DEF SeeCc, Cleared, RegTypes
      <4>6. QED
        BY <3>2, <4>1, <4>2, <4>3, <4>4, <4>5 DEF BarStep
    <3>3. CASE ~BarStep
      <4>1. UNCHANGED <<old_bar, dbs, admin_q>>
        BY <2>2, <3>3, RestKept, BarOwns
      <4>2. CASE UNCHANGED <<bar, hpc>>
        BY <4>1, <4>2, <2>3, <2>5 DEF Cleared
      <4>3. CASE WriteAsq
        <5>1. Prog = Now /\ old_bar.asq = Was.place /\ bar' = [bar EXCEPT !.asq = Now.place] /\ hpc' = "acq"
              /\ hpc = "asq"
          BY <4>3, <1>t, StartedIs, NowIs DEF WriteAsq, Seen, Written
        <5>2. QED
          BY <4>1, <5>1, <2>3, <2>5, <1>t DEF Cleared, RegTypes
      <4>4. CASE WriteAcq
        <5>1. Prog = Now /\ old_bar.acq = Was.place /\ bar' = [bar EXCEPT !.acq = Now.place] /\ hpc' = "enable"
              /\ hpc = "acq"
          BY <4>4, <1>t, StartedIs, NowIs DEF WriteAcq, Seen, Written
        <5>2. QED
          BY <4>1, <5>1, <2>3, <2>5, <1>t DEF Cleared, RegTypes
      <4>5. CASE Enable
        <5>1. bar' = [bar EXCEPT !.cc = "on"] /\ hpc' = "starting" /\ hpc = "enable"
          BY <4>5 DEF Enable, WriteCc
        <5>2. QED
          BY <4>1, <5>1, <2>3, <2>5, <1>t DEF Cleared, RegTypes
      <4>6. CASE HostRegisters
        BY <2>1, <1>2, <4>3, <4>4, <4>5, <4>6 DEF HostRegisters, WriteCc, SeeCsts, SeeReady, Shutdown,
         SeeShutdown, Disable, SeeDisabled
      <4>7. QED
        BY <4>2, <4>6, HostOwns
    <3>4. QED
      BY <3>2, <3>3
  <2>7. QED
    BY <2>1, <2>2, <2>3, <2>4, <2>6 DEF New, Cleared
<1>3. QED
  BY <1>1, <1>2

-----------------------------------------------------------------------------
(* What a command sent, a completion read and a command answered do to the admin queues *)

Sends == \E op \in Ops : SendAdmin(op)

\* A host at work stays in this start.
LEMMA AtWork ==
  ASSUME CtrlInv, [Next]_vars, hpc = "ready", hpc' = "ready"
  PROVE  ~HostRegisters /\ start' = start /\ conf' = conf /\ Now' = Now /\ bar' = bar
<1>1. ~HostRegisters
  BY DEF HostRegisters, WriteAqa, WriteAsq, WriteAcq, WriteCc, SeeCsts, Enable, SeeReady, Shutdown,
       SeeShutdown, Disable, SeeDisabled
<1>2. QED
  BY <1>1, HostOwns, ConfKept DEF Now, Start

LEMMA GetsReady ==
  ASSUME CtrlInv, [Next]_vars, hpc # "ready", hpc' = "ready"
  PROVE  SeeReady
BY HostOwns DEF HostRegisters, WriteAqa, WriteAsq, WriteAcq, WriteCc, SeeCsts, Enable, SeeReady, Shutdown,
       SeeShutdown, Disable, SeeDisabled

\* Most steps leave the admin queues alone.
LEMMA RingsKept ==
  ASSUME CtrlInv, [Next]_vars, hpc = "ready", hpc' = "ready", ~Sends, ~TakeCqe, ~Posting
  PROVE  /\ UNCHANGED <<h_tail, h_head, h_phase, flight, life, asq_mem, acq_mem, admin_q>>
         /\ dbs'.admin = dbs.admin /\ Taken' = Taken
<1>t. RegTypes
  BY DEF CtrlInv, Types
<1>0. ~HostRegisters
  BY AtWork
<1>1. CASE BarStep
  BY <1>1, BarAtWork DEF UNCHANGED_host, hostVars, memVars, queueVars, Taken
<1>2. CASE AdminStep
  <2>1. UNCHANGED <<h_tail, h_head, h_phase, flight, life, asq_mem>>
    BY <1>2, AdminKeeps DEF UNCHANGED_host, hostVars
  <2>2. admin_q' = admin_q /\ acq_mem' = acq_mem /\ dbs'.admin = dbs.admin
    BY <1>2, <1>t DEF AdminStep, Posting, SeeAdminDb, AdminDone, CreateSq, ResetDb, HideSq, HideCq, queueVars,
       memVars, RegTypes
  <2>3. Taken' = Taken
    <3>1. CASE SeeAdminDb
      BY <3>1 DEF SeeAdminDb, Onward, Taken
    <3>2. CASE AdminDone
      BY <3>2, <1>t DEF AdminDone, Onward, Taken, RegTypes
    <3>3. CASE CreateSq \/ ResetDb \/ HideSq \/ HideCq
      BY <3>3 DEF CreateSq, ResetDb, HideSq, HideCq, AtCommand, Taken
    <3>4. QED
      BY <1>2, <3>1, <3>2, <3>3 DEF AdminStep, Posting
  <2>4. QED
    BY <2>1, <2>2, <2>3
<1>3. CASE SubmitIo
  BY <1>3, <1>t DEF SubmitIo, UNCHANGED_device, hostVars, memVars, queueVars, dispVars, Taken, RegTypes
<1>4. CASE PollStep \/ Answer
  <2>1. UNCHANGED <<h_tail, h_head, h_phase, flight, life, asq_mem, acq_mem, admin_q, dbs, dat>>
    BY <1>4, PollKeeps DEF UNCHANGED_but_poll, hostVars, memVars, queueVars
  <2>2. old_dbs'.admin = old_dbs.admin /\ (dpc' = dpc \/ (dpc = "io" /\ dpc' = "aqa"))
    BY <1>4, <1>t DEF PollStep, Look, Compare, Take, TakeOver, Answer, RoundOver, Polling, RegTypes
  <2>3. QED
    BY <2>1, <2>2 DEF Taken
<1>5. CASE GpuStep
  BY <1>5 DEF GpuStep, UNCHANGED_controller, hostVars, memVars, queueVars, dispVars, Taken
<1>6. QED
  BY <1>0, <1>1, <1>2, <1>3, <1>4, <1>5 DEF Next, Sends, vars, hostVars, memVars, queueVars, dispVars, Taken

LEMMA RingsSame ==
  ASSUME CtrlInv, [Next]_vars, hpc = "ready", hpc' = "ready", ~Sends, ~TakeCqe, ~Posting
  PROVE  Waiting' = Waiting /\ Unread' = Unread /\ Asked' = Asked /\ Answered' = Answered
<1>1. /\ UNCHANGED <<h_tail, h_head, h_phase, flight, life, asq_mem, acq_mem, admin_q>> /\ Taken' = Taken
      /\ Now' = Now
  BY RingsKept, AtWork
<1>2. Waiting' = Waiting /\ Unread' = Unread
  BY <1>1 DEF Waiting, Unread
<1>3. QED
  BY <1>1, <1>2 DEF Asked, Answered, AskedAt, AnsweredAt

\* The sizes of the rings.
LEMMA Sizes ==
  ASSUME CtrlInv, hpc = "ready"
  PROVE  /\ IsFiniteSet(Waiting) /\ IsFiniteSet(Unread) /\ IsFiniteSet(flight)
         /\ Cardinality(Waiting) \in Nat /\ Cardinality(Unread) \in Nat /\ Cardinality(flight) \in Nat
         /\ Cardinality(Waiting) + Cardinality(Unread) = Cardinality(flight)
         /\ Cardinality(flight) < Now.depth
         /\ h_tail \notin Waiting /\ admin_q.head \notin Unread
         /\ Waiting \subseteq 0 .. Now.depth - 1 /\ Unread \subseteq 0 .. Now.depth - 1
<1>1. /\ Now.depth \in Nat \ {0} /\ h_tail \in 0 .. Now.depth - 1 /\ h_head \in 0 .. Now.depth - 1
      /\ admin_q.head \in 0 .. Now.depth - 1 /\ Taken \in 0 .. Now.depth - 1
  BY ReadyIs
<1>2. IsFiniteSet(Waiting) /\ h_tail \notin Waiting /\ Waiting \subseteq 0 .. Now.depth - 1
  BY <1>1, Stretch DEF Waiting
<1>3. IsFiniteSet(Unread) /\ admin_q.head \notin Unread /\ Unread \subseteq 0 .. Now.depth - 1
  <2>1. \A i \in 0 .. Now.depth - 1 :
          /\ IsFiniteSet(Between(h_head, i, Now.depth)) /\ i \notin Between(h_head, i, Now.depth)
          /\ Between(h_head, i, Now.depth) \subseteq 0 .. Now.depth - 1
    BY <1>1, Stretch
  <2>2. QED
    BY <1>1, <2>1 DEF Unread
<1>4. IsFiniteSet(flight)
  <2>1. IsFiniteSet({"identify"} \cup {"num_queues"}) /\ IsFiniteSet({"create_cq"} \cup {"create_sq"})
        /\ IsFiniteSet({"delete_sq"} \cup {"delete_cq"})
    BY FS_Singleton, FS_Union
  <2>2. IsFiniteSet(({"identify"} \cup {"num_queues"}) \cup ({"create_cq"} \cup {"create_sq"}))
    BY <2>1, FS_Union
  <2>3. IsFiniteSet((({"identify"} \cup {"num_queues"}) \cup ({"create_cq"} \cup {"create_sq"})) \cup ({"delete_sq"} \cup {"delete_cq"}))
    BY <2>1, <2>2, FS_Union
  <2>4. Ops = (({"identify"} \cup {"num_queues"}) \cup ({"create_cq"} \cup {"create_sq"})) \cup ({"delete_sq"} \cup {"delete_cq"})
    BY DEF Ops
  <2>5. flight \subseteq Ops
    BY DEF CtrlInv, Types, HostTypes
  <2>6. QED
    BY <2>3, <2>4, <2>5, FS_Subset
<1>5. QED
  BY <1>2, <1>3, <1>4, FS_CardinalityType DEF CtrlInv, OncePlaced

\* A command is sent: one more waits.
LEMMA Sent ==
  ASSUME CtrlInv, NEW op \in Ops, SendAdmin(op)
  PROVE  /\ hpc = "ready" /\ hpc' = "ready" /\ Now' = Now
         /\ Waiting' = Waiting \cup {h_tail} /\ Unread' = Unread /\ Taken' = Taken
         /\ asq_mem' = [asq_mem EXCEPT ![Now.place][h_tail] = op]
         /\ asq_mem'[Now.place][h_tail] = op
         /\ \A i \in Slots : i # h_tail => asq_mem'[Now.place][i] = asq_mem[Now.place][i]
         /\ Asked' = Asked \cup {op} /\ Answered' = Answered
         /\ h_tail' = After1(h_tail, Now.depth) /\ op \notin flight /\ flight' = flight \cup {op}
         /\ Cardinality(flight) < Now.depth - 1
         /\ dbs'.admin = h_tail' /\ acq_mem' = acq_mem
<1>1. /\ hpc = "ready" /\ hpc' = "ready" /\ op \notin flight /\ flight' = flight \cup {op}
      /\ UNCHANGED <<conf, start, h_head, acq_mem, admin_q, old_dbs, dpc, dat>>
      /\ Cardinality(flight) < Prog.depth - 1
      /\ asq_mem' = [asq_mem EXCEPT ![Prog.place][h_tail] = op]
      /\ h_tail' = (h_tail + 1) % Prog.depth
      /\ dbs' = [dbs EXCEPT !.admin = h_tail']
  BY DEF SendAdmin, UNCHANGED_device, queueVars, dispVars
<1>2. /\ Now.depth \in 2 .. MaxDepth /\ Now.depth \in Nat \ {0} /\ h_tail \in 0 .. Now.depth - 1 /\ Prog = Now
      /\ Taken \in 0 .. Now.depth - 1 /\ Now.place \in Places /\ 0 .. Now.depth - 1 \subseteq Slots
  BY <1>1, ReadyIs
<1>3. Now' = Now /\ Taken' = Taken /\ h_tail' = After1(h_tail, Now.depth)
  BY <1>1, <1>2, Positions DEF Now, Start, Taken
<1>4. Waiting' = Waiting \cup {h_tail}
  <2>1. Cardinality(Between(Taken, h_tail, Now.depth)) < Now.depth - 1
    BY <1>1, <1>2, Sizes DEF Waiting
  <2>2. After1(h_tail, Now.depth) # Taken
    BY <1>2, <2>1, StretchRoom
  <2>3. Between(Taken, After1(h_tail, Now.depth), Now.depth) = Between(Taken, h_tail, Now.depth) \cup {h_tail}
    BY <1>2, <2>2, StretchGrows
  <2>4. QED
    BY <1>3, <2>3 DEF Waiting
<1>5. Unread' = Unread
  BY <1>1, <1>3 DEF Unread
<1>6. /\ asq_mem'[Now.place][h_tail] = op
      /\ \A i \in Slots : i # h_tail => asq_mem'[Now.place][i] = asq_mem[Now.place][i]
  <2>1. h_tail \in Slots /\ asq_mem \in [Places -> [Slots -> Ops \cup {Blank}]]
    BY <1>2 DEF CtrlInv, Types, MemTypes
  <2>2. QED
    BY <1>1, <1>2, <2>1
<1>7. Asked' = Asked \cup {op}
  <2>1. h_tail \notin Waiting /\ Waiting \subseteq Slots
    BY <1>1, <1>2, Sizes
  <2>2. QED
    BY <1>3, <1>4, <1>6, <2>1 DEF Asked, AskedAt
<1>8. Answered' = Answered
  BY <1>1, <1>3, <1>5 DEF Answered, AnsweredAt
<1>9. dbs'.admin = h_tail'
  BY <1>1 DEF CtrlInv, Types, RegTypes
<1>10. QED
  BY <1>1, <1>2, <1>3, <1>4, <1>5, <1>6, <1>7, <1>8, <1>9

\* A completion is read: one fewer is unread.
LEMMA Read ==
  ASSUME CtrlInv, TakeCqe
  PROVE  /\ hpc = "ready" /\ hpc' = "ready" /\ Now' = Now
         /\ Waiting' = Waiting /\ Taken' = Taken /\ Unread' = Unread \ {h_head} /\ h_head \in Unread
         /\ UNCHANGED <<asq_mem, acq_mem, h_tail, dbs, old_dbs, admin_q, dpc, dat, dnew>>
         /\ Asked' = Asked /\ Answered' = Answered \ {AnsweredAt(h_head)}
         /\ AnsweredAt(h_head) \in Answered
         /\ flight' = flight \ {AnsweredAt(h_head)}
         /\ h_head' = After1(h_head, Now.depth) /\ h_phase' = IF h_head' = 0 THEN 1 - h_phase ELSE h_phase
<1>1. /\ hpc = "ready" /\ hpc' = "ready"
      /\ UNCHANGED <<conf, start, asq_mem, acq_mem, h_tail, dbs, old_dbs, admin_q, dpc, dat, dnew>>
      /\ flight' = flight \ {acq_mem[Prog.place][h_head].op}
      /\ h_head' = (h_head + 1) % Prog.depth
      /\ h_phase' = IF h_head' = 0 THEN 1 - h_phase ELSE h_phase
  BY DEF TakeCqe, UNCHANGED_device, queueVars, dispVars, memVars
<1>2. /\ Now.depth \in 2 .. MaxDepth /\ Now.depth \in Nat \ {0} /\ h_head \in 0 .. Now.depth - 1 /\ Prog = Now
      /\ admin_q.head \in 0 .. Now.depth - 1 /\ Now.place \in Places
  BY <1>1, ReadyIs
<1>3. Now' = Now /\ Taken' = Taken /\ h_head' = After1(h_head, Now.depth)
  BY <1>1, <1>2, Positions DEF Now, Start, Taken
<1>4. Waiting' = Waiting
  BY <1>1, <1>3 DEF Waiting
<1>5. Unread' = Unread \ {h_head} /\ h_head \in Unread
  <2>1. h_head \in Unread
    BY CqeTaken
  <2>2. h_head # admin_q.head
    BY <1>1, <2>1, Sizes
  <2>3. Between(After1(h_head, Now.depth), admin_q.head, Now.depth) = Between(h_head, admin_q.head, Now.depth) \ {h_head}
    BY <1>2, <2>2, StretchShrinks
  <2>4. QED
    BY <1>1, <1>3, <2>1, <2>3 DEF Unread
<1>6. acq_mem[Prog.place][h_head].op = AnsweredAt(h_head) /\ AnsweredAt(h_head) \in Answered
  BY CqeTaken
<1>7. Asked' = Asked
  BY <1>1, <1>3, <1>4 DEF Asked, AskedAt
<1>8. Answered' = Answered \ {AnsweredAt(h_head)}
  <2>1. \A i, j \in Unread : AnsweredAt(i) = AnsweredAt(j) => i = j
    BY <1>1 DEF CtrlInv, OncePlaced
  <2>2. Answered' = {AnsweredAt(i) : i \in Unread \ {h_head}}
    BY <1>1, <1>3, <1>5 DEF Answered, AnsweredAt
  <2>3. QED
    BY <1>5, <2>1, <2>2 DEF Answered
<1>9. QED
  BY <1>1, <1>3, <1>4, <1>5, <1>6, <1>7, <1>8

\* A command is answered: it is unread instead of waiting.
LEMMA Posted ==
  ASSUME CtrlInv, Posting
  PROVE  /\ hpc = "ready" /\ hpc' = "ready" /\ Now' = Now
         /\ dat = Taken /\ dat \in Waiting
         /\ Taken' = After1(dat, Now.depth) /\ dat' = After1(dat, Now.depth)
         /\ Waiting' = Waiting \ {dat} /\ Unread' = Unread \cup {admin_q.head}
         /\ After1(admin_q.head, Now.depth) # h_head
         /\ admin_q'.head = After1(admin_q.head, Now.depth)
         /\ admin_q'.phase = IF admin_q.head = Now.depth - 1 THEN 1 - admin_q.phase ELSE admin_q.phase
         /\ acq_mem'[Now.place][admin_q.head] = [op |-> Op, phase |-> admin_q.phase]
         /\ \A i \in Slots : i # admin_q.head => acq_mem'[Now.place][i] = acq_mem[Now.place][i]
         /\ Asked' = Asked \ {Op} /\ Answered' = Answered \cup {Op}
         /\ Op \in Asked /\ Op \notin Answered /\ Op \in flight
         /\ UNCHANGED <<asq_mem, h_tail, h_head, h_phase, flight, life, dbs, dnew>>
         /\ dpc' = "admin" /\ dat # dnew
<1>1. /\ Post /\ dpc \in AdminPlaces /\ dat # dnew /\ hpc = "ready" /\ dbs' = dbs
      /\ dpc' = "admin" /\ dnew' = dnew /\ UNCHANGED <<asq_mem, conf, start, hpc, h_tail, h_head, h_phase, flight, life>>
  BY PostsReady DEF UNCHANGED_host, hostVars
<1>2. dat = Taken /\ dat \in Waiting /\ Op = AskedAt(dat) /\ Op \in Asked /\ Op \notin Answered /\ Op \in flight
  BY <1>1, OpIs
<1>3. /\ Now.depth \in 2 .. MaxDepth /\ Now.depth \in Nat \ {0} /\ h_head \in 0 .. Now.depth - 1
      /\ h_tail \in 0 .. Now.depth - 1 /\ admin_q.depth = Now.depth /\ admin_q.cq = Now.place
      /\ admin_q.head \in 0 .. Now.depth - 1 /\ Now.place \in Places /\ Taken \in 0 .. Now.depth - 1
      /\ 0 .. Now.depth - 1 \subseteq Slots
  BY <1>1, ReadyIs
<1> DEFINE h == admin_q.head
           d == Now.depth
<1>4. (dat + 1) % d = After1(dat, d) /\ (h + 1) % d = After1(h, d)
  BY <1>2, <1>3, Positions
<1>5. /\ acq_mem' = [acq_mem EXCEPT ![Now.place][h] = [op |-> Op, phase |-> admin_q.phase]]
      /\ dat' = After1(dat, d)
      /\ admin_q'.head = After1(h, d)
      /\ admin_q'.phase = IF h = d - 1 THEN 1 - admin_q.phase ELSE admin_q.phase
  <2>1. admin_q \in [exists : BOOLEAN, sq : Nat, cq : Nat, depth : 2 .. MaxDepth, head : Slots, phase : {0, 1}]
    BY DEF CtrlInv, Types, RegTypes
  <2>2. QED
    BY <1>1, <1>3, <1>4, <2>1 DEF Post
<1>6. Now' = Now /\ Taken' = After1(dat, d)
  BY <1>1, <1>5 DEF Now, Start, Taken
<1>7. Waiting' = Waiting \ {dat}
  <2>1. dat # h_tail
    BY <1>1, <1>2, Sizes
  <2>2. Between(After1(dat, d), h_tail, d) = Between(dat, h_tail, d) \ {dat}
    BY <1>2, <1>3, <2>1, StretchShrinks
  <2>3. QED
    BY <1>1, <1>2, <1>6, <2>2 DEF Waiting
<1>8. After1(h, d) # h_head
  <2>1. Cardinality(Waiting) > 0
    <3>1. Cardinality(Waiting) # 0
      BY <1>1, <1>2, Sizes, FS_EmptySet
    <3>2. QED
      BY <1>1, <3>1, Sizes
  <2>2. Cardinality(Unread) < d - 1
    <3>1. \A w, u, f, n \in Nat : w + u = f /\ f < n /\ w > 0 => u < n - 1
      OBVIOUS
    <3>2. QED
      BY <1>1, <1>3, <2>1, <3>1, Sizes
  <2>3. QED
    BY <1>3, <2>2, StretchRoom DEF Unread
<1>9. Unread' = Unread \cup {h}
  <2>1. Between(h_head, After1(h, d), d) = Between(h_head, h, d) \cup {h}
    BY <1>3, <1>8, StretchGrows
  <2>2. QED
    BY <1>1, <1>5, <1>6, <2>1 DEF Unread
<1>10. /\ acq_mem'[Now.place][h] = [op |-> Op, phase |-> admin_q.phase]
       /\ \A i \in Slots : i # h => acq_mem'[Now.place][i] = acq_mem[Now.place][i]
  <2>1. h \in Slots /\ acq_mem \in [Places -> [Slots -> Cqe]]
    BY <1>3 DEF CtrlInv, Types, MemTypes
  <2>2. QED
    BY <1>3, <1>5, <2>1
<1>11. Asked' = Asked \ {Op}
  <2>1. \A i, j \in Waiting : AskedAt(i) = AskedAt(j) => i = j
    BY <1>1 DEF CtrlInv, OncePlaced
  <2>2. Asked' = {AskedAt(i) : i \in Waiting \ {dat}}
    BY <1>1, <1>6, <1>7 DEF Asked, AskedAt
  <2>3. QED
    BY <1>2, <2>1, <2>2 DEF Asked
<1>12. Answered' = Answered \cup {Op}
  <2>1. h \notin Unread /\ Unread \subseteq Slots
    BY <1>1, <1>3, Sizes
  <2>2. Answered' = {acq_mem'[Now.place][i].op : i \in Unread \cup {h}}
    BY <1>6, <1>9 DEF Answered, AnsweredAt
  <2>3. \A i \in Unread : acq_mem'[Now.place][i].op = AnsweredAt(i)
    BY <1>10, <2>1 DEF AnsweredAt
  <2>4. acq_mem'[Now.place][h].op = Op
    BY <1>10
  <2>5. QED
    BY <2>2, <2>3, <2>4 DEF Answered
<1>13. QED
  BY <1>1, <1>2, <1>3, <1>5, <1>6, <1>7, <1>8, <1>9, <1>10, <1>11, <1>12

-----------------------------------------------------------------------------
(* The admin queues: each command once, phases, and the place of the dispatcher *)

\* A host that sees RDY finds the queues of this start empty.
LEMMA Fresh ==
  ASSUME CtrlInv, SeeReady
  PROVE  /\ Now' = Now /\ Now.depth \in 2 .. MaxDepth /\ Now.depth \in Nat \ {0, 1} /\ 0 .. Now.depth - 1 \subseteq Slots
         /\ Waiting' = {} /\ Unread' = {} /\ flight' = {} /\ Asked' = {} /\ Answered' = {}
         /\ h_tail' = 0 /\ h_head' = 0 /\ h_phase' = 1 /\ Taken' = 0
         /\ admin_q'.head = 0 /\ admin_q'.phase = 1
         /\ acq_mem'[Now.place] = [i \in Slots |-> NoCqe]
         /\ dbs'.admin = 0 /\ dpc' \notin AdminPlaces
<1>1. /\ hpc = "starting" /\ rdy
      /\ UNCHANGED <<conf, start, h_tail, h_head, h_phase, flight, asq_mem, acq_mem, dbs, old_dbs, admin_q, dpc, dat>>
  BY DEF SeeReady, SeeCsts, UNCHANGED_device, memVars, queueVars, dispVars
<1>2. start > 0 /\ Now.depth \in 2 .. MaxDepth /\ Now.depth \in Nat \ {0, 1} /\ 0 .. Now.depth - 1 \subseteq Slots
  BY <1>1, StartedIs, NowIs DEF CtrlInv, Types
<1>3. Now' = Now /\ Taken' = Taken
  BY <1>1 DEF Now, Start, Taken
<1>4. Settled
  BY <1>1 DEF CtrlInv, Seen
<1>5. flight = {} /\ dbs.admin = old_dbs.admin /\ dpc \notin AdminPlaces
  BY <1>1 DEF CtrlInv, Resting
<1>6. /\ h_tail = 0 /\ h_head = 0 /\ h_phase = 1
      /\ acq_mem[Now.place] = [i \in Slots |-> NoCqe]
  BY <1>1 DEF CtrlInv, New, Making
<1>7. Now.depth # Was.depth \/ Now.place # Was.place \/ Now = Was
  <2>1. \A n : Start(n) \in [depth : Nat, place : Nat]
    <3>1. conf \in Configs /\ DOMAIN conf.prog = 1 .. Len(conf.prog)
      <4>1. conf \in Configs
        BY DEF CtrlInv, Types, HostTypes
      <4>2. conf.prog \in Seq([depth : 2 .. MaxDepth, place : Nat \ {0}])
        BY <4>1, Constants DEF Config
      <4> DEFINE T == [depth : 2 .. MaxDepth, place : Nat \ {0}]
      <4>3. conf.prog \in Seq(T)
        BY <4>2
      <4> HIDE DEF T
      <4>4. DOMAIN conf.prog = 1 .. Len(conf.prog)
        BY <4>3, LenProperties
      <4>5. QED
        BY <4>1, <4>4
    <3>2. conf.prog \in Seq([depth : 2 .. MaxDepth, place : Nat \ {0}])
      BY <3>1, Constants DEF Config
    <3>3. \A n \in DOMAIN conf.prog : conf.prog[n] \in [depth : 2 .. MaxDepth, place : Nat \ {0}]
      <4> DEFINE T == [depth : 2 .. MaxDepth, place : Nat \ {0}]
      <4>1. conf.prog \in Seq(T)
        BY <3>2
      <4> HIDE DEF T
      <4>2. \A n \in DOMAIN conf.prog : conf.prog[n] \in T
        BY <4>1, <3>1, ElementOfSeq
      <4>3. QED
        BY <4>2 DEF T
    <3>4. NoStart \in [depth : Nat, place : Nat]
      BY DEF NoStart
    <3>5. [depth : 2 .. MaxDepth, place : Nat \ {0}] \subseteq [depth : Nat, place : Nat]
      BY Constants
    <3>6. QED
      BY <3>3, <3>4, <3>5 DEF Start
  <2>2. Now \in [depth : Nat, place : Nat] /\ Was \in [depth : Nat, place : Nat]
    BY <2>1 DEF Now, Was
  <2>3. QED
    BY <2>2
<1>8. dbs.admin = 0 /\ admin_q.head = 0 /\ admin_q.phase = 1
  BY <1>1, <1>4, <1>7 DEF CtrlInv, New, Making, Settled
<1>9. Taken = 0
  BY <1>5, <1>8 DEF Taken, AdminPlaces
<1>10. Between(0, 0, Now.depth) = {}
  BY <1>2 DEF Between
<1>11. Waiting' = {} /\ Unread' = {}
  BY <1>1, <1>3, <1>6, <1>8, <1>9, <1>10 DEF Waiting, Unread
<1>12. Asked' = {} /\ Answered' = {}
  BY <1>11 DEF Asked, Answered
<1>13. QED
  BY <1>1, <1>2, <1>3, <1>5, <1>6, <1>8, <1>9, <1>11, <1>12

AskedOnce == \A i, j \in Waiting : AskedAt(i) = AskedAt(j) => i = j
AnsweredOnce == \A i, j \in Unread : AnsweredAt(i) = AnsweredAt(j) => i = j

LEMMA OncePlacedStep == CtrlInv /\ [Next]_vars => OncePlaced'
<1> SUFFICES ASSUME CtrlInv, [Next]_vars, hpc' = "ready" PROVE OncePlaced'
  BY DEF OncePlaced
<1>1. CASE hpc # "ready"
  <2>1. SeeReady
    BY <1>1, GetsReady
  <2>2. Waiting' = {} /\ Unread' = {} /\ flight' = {} /\ Asked' = {} /\ Answered' = {} /\ Now' = Now
        /\ Now.depth \in 2 .. MaxDepth
    BY <2>1, Fresh
  <2>3. Cardinality({}) = 0
    BY FS_EmptySet
  <2>4. QED
    BY <2>2, <2>3, Constants DEF OncePlaced
<1>2. CASE hpc = "ready"
  <2>0. /\ Asked \cap Answered = {} /\ Asked \cup Answered = flight /\ AskedOnce /\ AnsweredOnce
        /\ Cardinality(Waiting) + Cardinality(Unread) = Cardinality(flight)
        /\ Cardinality(flight) < Now.depth
    BY <1>2 DEF CtrlInv, OncePlaced, AskedOnce, AnsweredOnce
  <2>d. Now' = Now /\ Now.depth \in 2 .. MaxDepth /\ Now.depth \in Nat \ {0, 1} /\ 0 .. Now.depth - 1 \subseteq Slots
    BY <1>2, AtWork, ReadyIs
  <2>1. SUFFICES /\ Asked' \cap Answered' = {} /\ Asked' \cup Answered' = flight' /\ AskedOnce' /\ AnsweredOnce'
                 /\ Cardinality(Waiting') + Cardinality(Unread') = Cardinality(flight')
                 /\ Cardinality(flight') < Now.depth
    BY <2>d DEF OncePlaced, AskedOnce, AnsweredOnce
  <2>2. CASE ~Sends /\ ~TakeCqe /\ ~Posting
    <3>1. /\ Waiting' = Waiting /\ Unread' = Unread /\ Asked' = Asked /\ Answered' = Answered
          /\ UNCHANGED <<flight, asq_mem, acq_mem>>
      BY <1>2, <2>2, RingsSame, RingsKept
    <3>2. QED
      BY <2>0, <2>d, <3>1 DEF AskedOnce, AnsweredOnce, AskedAt, AnsweredAt
  <2>3. CASE Sends
    <3>1. PICK op \in Ops : SendAdmin(op)
      BY <2>3 DEF Sends
    <3>2. /\ Waiting' = Waiting \cup {h_tail} /\ Unread' = Unread
          /\ asq_mem'[Now.place][h_tail] = op
          /\ \A i \in Slots : i # h_tail => asq_mem'[Now.place][i] = asq_mem[Now.place][i]
          /\ Asked' = Asked \cup {op} /\ Answered' = Answered
          /\ op \notin flight /\ flight' = flight \cup {op}
          /\ Cardinality(flight) < Now.depth - 1 /\ acq_mem' = acq_mem
      BY <3>1, Sent
    <3>3. h_tail \notin Waiting /\ Waiting \subseteq Slots /\ IsFiniteSet(Waiting) /\ IsFiniteSet(flight)
          /\ Cardinality(Waiting) \in Nat /\ Cardinality(Unread) \in Nat /\ Cardinality(flight) \in Nat
      BY <1>2, <2>d, Sizes
    <3>4. AskedOnce'
      <4>1. \A i \in Waiting : AskedAt(i) \in Asked /\ asq_mem'[Now.place][i] = AskedAt(i) /\ AskedAt(i) # op
        BY <2>0, <3>2, <3>3 DEF Asked, AskedAt
      <4>2. QED
        BY <2>0, <2>d, <3>2, <4>1 DEF AskedOnce, AskedAt
    <3>5. AnsweredOnce'
      BY <2>0, <2>d, <3>2 DEF AnsweredOnce, AnsweredAt
    <3>6. Cardinality(Waiting') = Cardinality(Waiting) + 1 /\ Cardinality(flight') = Cardinality(flight) + 1
      BY <3>2, <3>3, FS_AddElement
    <3>7. QED
      <4>1. Cardinality(Waiting') + Cardinality(Unread') = Cardinality(flight') /\ Cardinality(flight') < Now.depth
        <5>1. \A w, u, f, n \in Nat : w + u = f /\ f < n - 1 => (w + 1) + u = f + 1 /\ f + 1 < n
          OBVIOUS
        <5>2. QED
          BY <2>0, <2>d, <3>2, <3>3, <3>6, <5>1
      <4>2. Asked' \cap Answered' = {} /\ Asked' \cup Answered' = flight'
        BY <2>0, <3>2
      <4>3. QED
        BY <3>4, <3>5, <4>1, <4>2
  <2>4. CASE TakeCqe
    <3> DEFINE op == AnsweredAt(h_head)
    <3>1. /\ Waiting' = Waiting /\ Unread' = Unread \ {h_head} /\ h_head \in Unread
          /\ UNCHANGED <<asq_mem, acq_mem>>
          /\ Asked' = Asked /\ Answered' = Answered \ {op} /\ op \in Answered /\ flight' = flight \ {op}
      BY <2>4, Read
    <3>2. AskedOnce' /\ AnsweredOnce'
      BY <2>0, <2>d, <3>1 DEF AskedOnce, AnsweredOnce, AskedAt, AnsweredAt
    <3>3. /\ IsFiniteSet(Unread) /\ IsFiniteSet(flight)
          /\ Cardinality(Waiting) \in Nat /\ Cardinality(Unread) \in Nat /\ Cardinality(flight) \in Nat
      BY <1>2, Sizes
    <3> HIDE DEF op
    <3>4. op \in flight
      BY <2>0, <3>1
    <3>5. Cardinality(Unread') = Cardinality(Unread) - 1 /\ Cardinality(flight') = Cardinality(flight) - 1
      BY <3>1, <3>3, <3>4, FS_RemoveElement
    <3>6. Cardinality(Waiting') + Cardinality(Unread') = Cardinality(flight') /\ Cardinality(flight') < Now.depth
      <4>1. \A w, u, f, n \in Nat : w + u = f /\ f < n => w + (u - 1) = f - 1 /\ f - 1 < n
        OBVIOUS
      <4>2. QED
        BY <2>0, <2>d, <3>1, <3>3, <3>5, <4>1
    <3>7. Asked' \cap Answered' = {} /\ Asked' \cup Answered' = flight'
      BY <2>0, <3>1
    <3>8. QED
      BY <3>2, <3>6, <3>7
  <2>5. CASE Posting
    <3>1. /\ dat \in Waiting /\ Waiting' = Waiting \ {dat} /\ Unread' = Unread \cup {admin_q.head}
          /\ acq_mem'[Now.place][admin_q.head] = [op |-> Op, phase |-> admin_q.phase]
          /\ \A i \in Slots : i # admin_q.head => acq_mem'[Now.place][i] = acq_mem[Now.place][i]
          /\ Asked' = Asked \ {Op} /\ Answered' = Answered \cup {Op}
          /\ Op \in Asked /\ Op \notin Answered /\ UNCHANGED <<asq_mem, flight>>
      BY <2>5, Posted
    <3>2. /\ IsFiniteSet(Waiting) /\ IsFiniteSet(Unread) /\ admin_q.head \notin Unread /\ Unread \subseteq Slots
          /\ Cardinality(Waiting) \in Nat /\ Cardinality(Unread) \in Nat /\ Cardinality(flight) \in Nat
      BY <1>2, <2>d, Sizes
    <3>3. AskedOnce'
      BY <2>0, <2>d, <3>1 DEF AskedOnce, AskedAt
    <3>4. AnsweredOnce'
      <4>1. \A i \in Unread : AnsweredAt(i) \in Answered /\ acq_mem'[Now.place][i].op = AnsweredAt(i) /\ AnsweredAt(i) # Op
        BY <3>1, <3>2 DEF Answered, AnsweredAt
      <4>2. acq_mem'[Now.place][admin_q.head].op = Op
        BY <3>1
      <4>3. QED
        BY <2>0, <2>d, <3>1, <4>1, <4>2 DEF AnsweredOnce, AnsweredAt
    <3>5. Cardinality(Waiting') = Cardinality(Waiting) - 1 /\ Cardinality(Unread') = Cardinality(Unread) + 1
      BY <3>1, <3>2, FS_AddElement, FS_RemoveElement
    <3>6. Cardinality(Waiting') + Cardinality(Unread') = Cardinality(flight') /\ Cardinality(flight') < Now.depth
      <4>1. \A w, u, f \in Nat : w + u = f => (w - 1) + (u + 1) = f
        OBVIOUS
      <4>2. QED
        BY <2>0, <3>1, <3>2, <3>5, <4>1
    <3>7. Asked' \cap Answered' = {} /\ Asked' \cup Answered' = flight'
      BY <2>0, <3>1
    <3>8. QED
      BY <3>3, <3>4, <3>6, <3>7
  <2>6. QED
    BY <2>2, <2>3, <2>4, <2>5
<1>3. QED
  BY <1>1, <1>2

LEMMA PhasesStep == CtrlInv /\ [Next]_vars => Phases'
<1> SUFFICES ASSUME CtrlInv, [Next]_vars, hpc' = "ready" PROVE Phases'
  BY DEF Phases
<1>h. h_phase \in {0, 1}
  BY DEF CtrlInv, Types, HostTypes
<1>1. CASE hpc # "ready"
  <2>1. SeeReady
    BY <1>1, GetsReady
  <2>2. /\ Now' = Now /\ Now.depth \in Nat \ {0} /\ 0 .. Now.depth - 1 \subseteq Slots
        /\ Unread' = {} /\ h_head' = 0 /\ h_phase' = 1 /\ admin_q'.head = 0 /\ admin_q'.phase = 1
        /\ acq_mem'[Now.place] = [i \in Slots |-> NoCqe]
    BY <2>1, Fresh
  <2>3. \A i \in 0 .. Now.depth - 1 : acq_mem'[Now.place][i].phase = 0
    BY <2>2 DEF NoCqe
  <2>4. QED
    BY <2>2, <2>3 DEF Phases
<1>2. CASE hpc = "ready"
  <2>d. /\ Now' = Now /\ Now.depth \in Nat \ {0} /\ 0 .. Now.depth - 1 \subseteq Slots
        /\ h_head \in 0 .. Now.depth - 1 /\ admin_q.head \in 0 .. Now.depth - 1
    BY <1>2, AtWork, ReadyIs
  <2>0. /\ \A i \in 0 .. Now.depth - 1 :
             acq_mem[Now.place][i].phase =
               IF (i \in Unread) <=> (i >= h_head) THEN h_phase ELSE 1 - h_phase
        /\ admin_q.phase = IF admin_q.head >= h_head THEN h_phase ELSE 1 - h_phase
    BY <1>2 DEF CtrlInv, Phases
  <2>1. SUFFICES /\ \A i \in 0 .. Now.depth - 1 :
                      acq_mem'[Now.place][i].phase =
                        IF (i \in Unread') <=> (i >= h_head') THEN h_phase' ELSE 1 - h_phase'
                 /\ admin_q'.phase = IF admin_q'.head >= h_head' THEN h_phase' ELSE 1 - h_phase'
    BY <2>d DEF Phases
  <2>2. CASE ~Sends /\ ~TakeCqe /\ ~Posting
    <3>1. Unread' = Unread /\ UNCHANGED <<acq_mem, admin_q, h_head, h_phase>>
      BY <1>2, <2>2, RingsSame, RingsKept
    <3>2. QED
      BY <2>0, <3>1
  <2>3. CASE Sends
    <3>1. Unread' = Unread /\ UNCHANGED <<acq_mem, admin_q, h_head, h_phase>>
      BY <2>3, Sent, SendKeeps DEF Sends, UNCHANGED_device, queueVars
    <3>2. QED
      BY <2>0, <3>1
  <2>4. CASE TakeCqe
    <3>1. /\ Unread' = Unread \ {h_head} /\ h_head \in Unread /\ UNCHANGED <<acq_mem, admin_q>>
          /\ h_head' = After1(h_head, Now.depth) /\ h_phase' = IF h_head' = 0 THEN 1 - h_phase ELSE h_phase
      BY <2>4, Read
    <3>2. admin_q.head # h_head
      BY <1>2, <3>1, Sizes
    <3> DEFINE h == admin_q.head
               d == Now.depth
    <3>3. h \in 0 .. d - 1 /\ h_head \in 0 .. d - 1 /\ d \in Nat \ {0} /\ h # h_head
      BY <2>d, <3>2
    <3>4. admin_q.phase = IF h >= h_head' THEN h_phase' ELSE 1 - h_phase'
      <4>1. admin_q.phase = IF h >= h_head THEN h_phase ELSE 1 - h_phase
        BY <2>0
      <4> HIDE DEF h, d
      <4>2. h_head' = IF h_head = d - 1 THEN 0 ELSE h_head + 1
        BY <3>1 DEF After1, d
      <4>3. QED
        BY <3>1, <3>3, <4>1, <4>2, <1>h
    <3>5. ASSUME NEW i \in 0 .. d - 1
          PROVE  acq_mem[Now.place][i].phase =
                   IF (i \in Unread') <=> (i >= h_head') THEN h_phase' ELSE 1 - h_phase'
      <4> DEFINE p == acq_mem[Now.place][i].phase
      <4>1. p = IF (i \in Unread) <=> (i >= h_head) THEN h_phase ELSE 1 - h_phase
        BY <2>0
      <4>2. i \in Unread' <=> i \in Unread /\ i # h_head
        BY <3>1
      <4>3. h_head' = IF h_head = d - 1 THEN 0 ELSE h_head + 1
        BY <3>1 DEF After1
      <4> HIDE DEF p, d
      <4>4. p = IF (i \in Unread') <=> (i >= h_head') THEN h_phase' ELSE 1 - h_phase'
        <5>1. CASE i = h_head
          BY <3>1, <3>3, <4>1, <4>2, <4>3, <1>h, <5>1
        <5>2. CASE i # h_head
          BY <3>1, <3>3, <4>1, <4>2, <4>3, <1>h, <5>2
        <5>3. QED
          BY <5>1, <5>2
      <4>5. QED
        BY <4>4 DEF p
    <3>6. QED
      BY <3>1, <3>4, <3>5
  <2>5. CASE Posting
    <3> DEFINE h == admin_q.head
               d == Now.depth
    <3>1. /\ Unread' = Unread \cup {h} /\ After1(h, d) # h_head /\ admin_q'.head = After1(h, d)
          /\ admin_q'.phase = IF h = d - 1 THEN 1 - admin_q.phase ELSE admin_q.phase
          /\ acq_mem'[Now.place][h] = [op |-> Op, phase |-> admin_q.phase]
          /\ \A i \in Slots : i # h => acq_mem'[Now.place][i] = acq_mem[Now.place][i]
          /\ UNCHANGED <<h_head, h_phase>>
      BY <2>5, Posted
    <3>2. h \in 0 .. d - 1 /\ h_head \in 0 .. d - 1 /\ d \in Nat \ {0}
      BY <2>d
    <3>3. admin_q.phase = IF h >= h_head THEN h_phase ELSE 1 - h_phase
      BY <2>0
    <3>4. admin_q'.phase = IF admin_q'.head >= h_head THEN h_phase ELSE 1 - h_phase
      <4> DEFINE h1 == admin_q'.head
                 p1 == admin_q'.phase
                 p == admin_q.phase
      <4>1. /\ h1 = (IF h = d - 1 THEN 0 ELSE h + 1) /\ h1 # h_head
            /\ p1 = (IF h = d - 1 THEN 1 - p ELSE p)
            /\ p = (IF h >= h_head THEN h_phase ELSE 1 - h_phase)
        BY <3>1, <3>3 DEF After1
      <4> HIDE DEF h, d, h1, p1, p
      <4>2. p1 = IF h1 >= h_head THEN h_phase ELSE 1 - h_phase
        BY <3>2, <4>1, <1>h
      <4>3. QED
        BY <4>2 DEF h1, p1
    <3>5. ASSUME NEW i \in 0 .. d - 1
          PROVE  acq_mem'[Now.place][i].phase =
                   IF (i \in Unread') <=> (i >= h_head) THEN h_phase ELSE 1 - h_phase
      <4>1. CASE i = h
        BY <3>1, <3>3, <4>1
      <4>2. CASE i # h
        BY <2>0, <2>d, <3>1, <4>2
      <4>3. QED
        BY <4>1, <4>2
    <3>6. QED
      BY <3>1, <3>4, <3>5
  <2>6. QED
    BY <2>2, <2>3, <2>4, <2>5
<1>3. QED
  BY <1>1, <1>2

\* The part of InQueue about the place of the dispatcher.
AtOp ==
  dpc \in AdminPlaces =>
    /\ dnew < Now.depth /\ Between(dat, dnew, Now.depth) \subseteq Waiting
    /\ dpc # "admin" => dat # dnew
OpIsAtPlace ==
  /\ dpc \in {"reset_db", "reset_old"} => Op = "create_sq"
  /\ dpc = "free_sq" => Op = "delete_sq"
  /\ dpc = "free_cq" => Op = "delete_cq"

LEMMA InQueueStep == CtrlInv /\ [Next]_vars => InQueue'
<1> SUFFICES ASSUME CtrlInv, [Next]_vars, hpc' = "ready" PROVE InQueue'
  BY DEF InQueue
<1>t. RegTypes
  BY DEF CtrlInv, Types
<1>1. CASE hpc # "ready"
  <2>1. SeeReady
    BY <1>1, GetsReady
  <2>2. /\ Now' = Now /\ Now.depth \in Nat \ {0}
        /\ h_tail' = 0 /\ h_head' = 0 /\ admin_q'.head = 0 /\ Taken' = 0 /\ dbs'.admin = 0 /\ dpc' \notin AdminPlaces
    BY <2>1, Fresh
  <2>3. QED
    BY <2>2 DEF InQueue, AdminPlaces
<1>2. CASE hpc = "ready"
  <2>d. /\ Now' = Now /\ Now.depth \in 2 .. MaxDepth /\ Now.depth \in Nat \ {0} /\ 0 .. Now.depth - 1 \subseteq Slots
        /\ h_tail \in 0 .. Now.depth - 1 /\ h_head \in 0 .. Now.depth - 1 /\ admin_q.head \in 0 .. Now.depth - 1
        /\ Taken \in 0 .. Now.depth - 1 /\ admin_q.sq = Now.place
    BY <1>2, AtWork, ReadyIs
  <2>a. \A i \in 0 .. Now.depth - 1 : i < Now.depth /\ After1(i, Now.depth) < Now.depth
    BY <2>d DEF After1
  <2>0. dbs.admin = h_tail /\ AtOp /\ OpIsAtPlace
    BY <1>2 DEF CtrlInv, InQueue, AtOp, OpIsAtPlace
  <2>1. SUFFICES /\ h_tail' < Now.depth /\ h_head' < Now.depth /\ admin_q'.head < Now.depth /\ Taken' < Now.depth
                 /\ dbs'.admin = h_tail' /\ AtOp' /\ OpIsAtPlace'
    BY <2>d DEF InQueue, AtOp, OpIsAtPlace
  <2>2. CASE ~Sends /\ ~TakeCqe /\ ~Posting
    <3>1. /\ UNCHANGED <<h_tail, h_head, asq_mem, admin_q>> /\ dbs'.admin = dbs.admin
          /\ Taken' = Taken /\ Waiting' = Waiting
      BY <1>2, <2>2, RingsSame, RingsKept
    <3>2. CASE UNCHANGED <<dpc, dat, dnew>>
      BY <2>0, <2>a, <2>d, <3>1, <3>2 DEF AtOp, OpIsAtPlace, Op
    <3>3. CASE dpc' \notin AdminPlaces
      BY <2>0, <2>a, <2>d, <3>1, <3>3 DEF AtOp, OpIsAtPlace, AdminPlaces
    <3>4. CASE AdminStep
      <4>1. CASE SeeAdminDb /\ dpc' = "admin"
        <5>1. dat' = Taken /\ dnew' = h_tail
          BY <2>0, <4>1 DEF SeeAdminDb, Taken, Onward
        <5>2. Between(dat', dnew', Now.depth) = Waiting
          BY <5>1 DEF Waiting
        <5>3. QED
          BY <2>0, <2>a, <2>d, <3>1, <4>1, <5>1, <5>2 DEF AtOp, OpIsAtPlace
      <4>2. CASE AdminDone \/ (SeeAdminDb /\ dpc' # "admin")
        <5>1. dpc' \in {"aqa", "io"}
          BY <4>2 DEF AdminDone, SeeAdminDb, Onward
        <5>2. QED
          BY <3>3, <5>1 DEF AdminPlaces
      <4>3. CASE CreateSq \/ ResetDb \/ HideSq \/ HideCq
        <5>1. /\ dpc \in AdminPlaces /\ dat # dnew /\ UNCHANGED <<dat, dnew>>
              /\ dpc' \in {"reset_db", "reset_old"} => Op = "create_sq"
              /\ dpc' = "free_sq" => Op = "delete_sq"
              /\ dpc' = "free_cq" => Op = "delete_cq"
          BY <2>0, <4>3 DEF CreateSq, ResetDb, HideSq, HideCq, AtCommand, AdminPlaces, AtOp, OpIsAtPlace
        <5>2. QED
          BY <2>0, <2>a, <2>d, <3>1, <5>1 DEF AtOp, OpIsAtPlace, Op
      <4>4. QED
        BY <2>2, <3>4, <4>1, <4>2, <4>3 DEF AdminStep, Posting
    <3>5. CASE BarStep
      BY <1>2, <3>3, <3>5, BarAtWork DEF AdminPlaces
    <3>6. CASE ~AdminStep /\ ~BarStep
      <4>1. ~HostRegisters
        BY <1>2, AtWork
      <4>2. CASE PollStep \/ Answer
        <5>1. UNCHANGED <<dat, dnew>> /\ (dpc' = dpc \/ dpc' = "aqa")
          BY <4>2, PollKeeps DEF UNCHANGED_but_poll, PollStep, Look, Compare, Take, TakeOver, Answer, RoundOver
        <5>2. QED
          BY <3>2, <3>3, <5>1 DEF AdminPlaces
      <4>3. CASE SubmitIo \/ GpuStep
        BY <3>2, <4>3 DEF SubmitIo, GpuStep, UNCHANGED_device, UNCHANGED_controller, dispVars
      <4>4. QED
        BY <2>2, <3>2, <3>6, <4>1, <4>2, <4>3 DEF Next, Sends, vars, dispVars
    <3>7. QED
      BY <3>4, <3>5, <3>6
  <2>3. CASE Sends
    <3>1. PICK op \in Ops : SendAdmin(op)
      BY <2>3 DEF Sends
    <3>2. /\ Waiting' = Waiting \cup {h_tail} /\ Taken' = Taken
          /\ \A i \in Slots : i # h_tail => asq_mem'[Now.place][i] = asq_mem[Now.place][i]
          /\ h_tail' = After1(h_tail, Now.depth) /\ dbs'.admin = h_tail'
          /\ UNCHANGED <<dpc, dat, dnew, h_head, admin_q>>
      BY <3>1, Sent, SendKeeps DEF UNCHANGED_device, dispVars, queueVars
    <3>3. AtOp'
      BY <2>0, <2>d, <3>2 DEF AtOp
    <3>4. dpc \in AdminPlaces \ {"admin"} => Op' = Op
      <4>1. dpc \in AdminPlaces \ {"admin"} => dat \in Waiting
        BY <2>0, OpIs DEF AtOp
      <4>2. h_tail \notin Waiting /\ Waiting \subseteq Slots
        BY <1>2, <2>d, Sizes
      <4>3. QED
        BY <2>d, <3>2, <4>1, <4>2 DEF Op
    <3>5. OpIsAtPlace'
      BY <2>0, <3>2, <3>4 DEF OpIsAtPlace, AdminPlaces
    <3>6. QED
      BY <2>a, <2>d, <3>2, <3>3, <3>5
  <2>4. CASE TakeCqe
    <3>1. /\ Waiting' = Waiting /\ Taken' = Taken
          /\ UNCHANGED <<asq_mem, h_tail, dbs, admin_q, dpc, dat, dnew>> /\ h_head' = After1(h_head, Now.depth)
      BY <2>4, Read
    <3>2. QED
      BY <2>0, <2>a, <2>d, <3>1 DEF AtOp, OpIsAtPlace, Op
  <2>5. CASE Posting
    <3>1. /\ dat = Taken /\ dat \in Waiting /\ Taken' = After1(dat, Now.depth) /\ dat' = After1(dat, Now.depth)
          /\ Waiting' = Waiting \ {dat} /\ admin_q'.head = After1(admin_q.head, Now.depth)
          /\ UNCHANGED <<h_tail, h_head, dbs, dnew>> /\ dpc' = "admin" /\ dat # dnew
      BY <2>5, Posted
    <3>2. dpc \in AdminPlaces
      BY <2>5, PostsReady
    <3>3. dnew \in 0 .. Now.depth - 1 /\ Between(dat, dnew, Now.depth) \subseteq Between(dat, h_tail, Now.depth)
      <4>1. dnew \in Nat /\ dnew < Now.depth
        BY <2>0, <3>2, Constants DEF AtOp, CtrlInv, Types, PollTypes
      <4>2. QED
        BY <2>0, <2>d, <3>1, <3>2, <4>1 DEF AtOp, Waiting
    <3>4. /\ dat # h_tail
          /\ Between(After1(dat, Now.depth), dnew, Now.depth) \subseteq Between(After1(dat, Now.depth), h_tail, Now.depth)
      BY <2>d, <3>1, <3>3, StretchPart
    <3>5. Between(dat', dnew', Now.depth) \subseteq Waiting'
      BY <2>d, <3>1, <3>4 DEF Waiting
    <3>6. AtOp'
      BY <2>d, <3>1, <3>3, <3>5 DEF AtOp
    <3>7. OpIsAtPlace'
      BY <3>1 DEF OpIsAtPlace
    <3>8. QED
      BY <2>0, <2>a, <2>d, <3>1, <3>6, <3>7
  <2>6. QED
    BY <2>2, <2>3, <2>4, <2>5
<1>3. QED
  BY <1>1, <1>2

-----------------------------------------------------------------------------
(* The first start                                                         *)

LEMMA AdminsKept ==
  ASSUME CtrlInv, [Next]_vars, ~Sends, ~WriteAqa
  PROVE  admins_left' = admins_left
<1>1. CASE HostRegisters
  BY <1>1 DEF HostRegisters, WriteAsq, WriteAcq, WriteCc, SeeCsts, Enable, SeeReady, Shutdown, SeeShutdown,
       Disable, SeeDisabled
<1>2. CASE TakeCqe \/ SubmitIo
  BY <1>2 DEF TakeCqe, SubmitIo, hostVars
<1>3. CASE BarStep \/ AdminStep
  BY <1>3, BarKeeps, AdminKeeps DEF UNCHANGED_host, CtrlInv, Types, hostVars
<1>4. CASE PollStep \/ Answer
  BY <1>4, PollKeeps DEF UNCHANGED_but_poll, hostVars
<1>5. CASE GpuStep
  BY <1>5 DEF GpuStep, UNCHANGED_controller, hostVars
<1>6. QED
  BY <1>1, <1>2, <1>3, <1>4, <1>5 DEF Next, Sends, vars, hostVars

\* The commands sent, by where they are; each is counted once.
LEMMA FirstAtWork ==
  ASSUME CtrlInv, [Next]_vars, start <= 1, hpc = "ready", hpc' = "ready", conf.admins < Now.depth
  PROVE  /\ admin_q'.phase = 1
         /\ admin_q'.head + Cardinality(Waiting') + admins_left' <= conf.admins
<1> DEFINE w == Cardinality(Waiting)
           h == admin_q.head
<1>1. /\ w \in Nat /\ h \in 0 .. Now.depth - 1 /\ admins_left \in Nat /\ conf.admins \in Nat
      /\ Now.depth \in Nat /\ IsFiniteSet(Waiting)
  <2>1. conf \in Configs /\ admins_left \in Nat
    BY DEF CtrlInv, Types, HostTypes
  <2>2. QED
    BY <2>1, Sizes, ReadyIs, Constants DEF Config
<1>2. admin_q.phase = 1 /\ h + w + admins_left <= conf.admins
  BY DEF CtrlInv, First, Making
<1>3. ~WriteAqa
  BY DEF WriteAqa
<1> HIDE DEF w, h
<1>4. CASE Sends
  <2>1. PICK op \in Ops : SendAdmin(op)
    BY <1>4 DEF Sends
  <2>2. Waiting' = Waiting \cup {h_tail} /\ h_tail \notin Waiting
    BY <2>1, Sent, Sizes
  <2>3. Cardinality(Waiting') = w + 1
    BY <1>1, <2>2, FS_AddElement DEF w
  <2>4. admins_left' = admins_left - 1 /\ admin_q' = admin_q
    BY <2>1 DEF SendAdmin, UNCHANGED_device, queueVars
  <2>5. QED
    BY <1>1, <1>2, <2>3, <2>4 DEF h
<1>5. CASE Posting
  <2>1. /\ dat \in Waiting /\ Waiting' = Waiting \ {dat}
        /\ admin_q'.head = After1(h, Now.depth)
        /\ admin_q'.phase = IF h = Now.depth - 1 THEN 1 - admin_q.phase ELSE admin_q.phase
    BY <1>5, Posted DEF h
  <2>2. Cardinality(Waiting') = w - 1
    BY <1>1, <2>1, FS_RemoveElement DEF w
  <2>3. w > 0
    <3>1. w # 0
      BY <1>1, <2>1, FS_EmptySet DEF w
    <3>2. QED
      BY <1>1, <3>1
  <2>4. admins_left' = admins_left
    <3>1. ~Sends
      BY <1>5, PostsReady DEF Sends, SendAdmin, UNCHANGED_device, dispVars, Posting, Identify, NumQueues, CreateCq, Post,
         queueVars, ResetOldDb, FreeSq, FreeCq, UNCHANGED_host, hostVars
    <3>2. QED
      BY <3>1, <1>3, AdminsKept
  <2>5. h # Now.depth - 1
    BY <1>1, <1>2, <2>3
  <2>6. QED
    BY <1>1, <1>2, <2>1, <2>2, <2>4, <2>5 DEF After1
<1>6. CASE ~Sends /\ ~Posting
  <2>1. admins_left' = admins_left
    BY <1>3, <1>6, AdminsKept
  <2>2. Waiting' = Waiting /\ admin_q' = admin_q
    <3>1. CASE TakeCqe
      BY <3>1, Read
    <3>2. CASE ~TakeCqe
      BY <1>6, <3>2, RingsSame, RingsKept
    <3>3. QED
      BY <3>1, <3>2
  <2>3. QED
    BY <1>2, <2>1, <2>2 DEF w, h
<1>7. QED
  BY <1>4, <1>5, <1>6

LEMMA FirstStep == CtrlInv /\ [Next]_vars => First'
<1> SUFFICES ASSUME CtrlInv, [Next]_vars, start' <= 1 PROVE First'
  BY DEF First
<1>t. HostTypes /\ RegTypes /\ Written /\ Seen /\ First /\ Resting
  BY DEF CtrlInv, Types
<1>c. conf' = conf
  BY ConfKept
<1>1. CASE WriteAqa
  <2>1. start = 0 /\ start' = 1
    BY <1>1, NextStart DEF WriteAqa
  <2>2. ~shst /\ shst' = shst /\ hpc' = "asq" /\ admins_left' = conf.admins
    BY <1>1, <1>t, <2>1 DEF WriteAqa, UNCHANGED_device, First
  <2>3. QED
    BY <1>c, <2>1, <2>2 DEF First, Making
<1>2. CASE ~WriteAqa
  <2>1. start' = start /\ Now' = Now /\ start <= 1
    <3>1. start' = start
      BY <1>2, HostOwns DEF HostRegisters, WriteAsq, WriteAcq, WriteCc, SeeCsts, Enable, SeeReady, Shutdown,
         SeeShutdown, Disable, SeeDisabled
    <3>2. QED
      BY <3>1, <1>c DEF Now, Start
  <2>2. CASE BarStep
    <3>0. UNCHANGED <<bar, hpc>> /\ admins_left' = admins_left
      BY <2>2, <1>t, BarKeeps DEF UNCHANGED_host, hostVars
    <3>1. CASE hpc = "ready"
      <4>1. UNCHANGED <<old_bar, shst>>
        BY <2>2, <3>1, BarAtWork
      <4>2. QED
        BY <1>c, <1>t, <2>1, <3>0, <3>1, <4>1, FirstAtWork DEF First, Making
    <3>2. CASE hpc # "ready"
      <4>1. CASE Same("aqa", "aqa", "asq") \/ Same("asq", "asq", "acq") \/ Same("acq", "acq", "cc")
                 \/ Same("cc", "cc", "doorbell")
        <5>1. UNCHANGED <<old_bar, shst, dbs, admin_q>>
          BY <4>1 DEF Same, queueVars
        <5>2. QED
          BY <1>c, <1>t, <2>1, <3>0, <3>2, <5>1 DEF First
      <4>2. CASE SeeAqa \/ SeeAsq \/ SeeAcq
        <5>1. hpc \in Making /\ shst' = shst
          BY <4>2, SeesIs DEF Making, SeeAqa, SeeAsq, SeeAcq
        <5>2. QED
          BY <1>c, <1>t, <2>1, <3>0, <5>1 DEF First, Making
      <4>3. CASE SeeCc
        <5>1. bar.cc # old_bar.cc /\ old_bar'.cc = bar.cc
              /\ (bar.cc # "shut" => UNCHANGED <<shst, dbs, admin_q>>)
              /\ (bar.cc = "shut" => dbs'.admin = 0 /\ admin_q'.head = 0 /\ admin_q'.phase = admin_q.phase)
          BY <4>3, <1>t DEF SeeCc, RegTypes
        <5>2. CASE bar.cc = "shut"
          <6>1. hpc = "stopping"
            BY <1>t, <2>1, <3>2, <5>1, <5>2 DEF Written, First
          <6>2. start # 0 /\ hpc \notin Making
            BY <6>1, <1>t DEF Written, Making
          <6>3. QED
            BY <1>c, <1>t, <2>1, <3>0, <5>1, <5>2, <6>1, <6>2 DEF First, Making
        <5>3. CASE bar.cc # "shut"
          <6>1. hpc \notin {"stopping", "stopped"}
            BY <1>t, <5>3 DEF Written
          <6>2. QED
            BY <1>c, <1>t, <2>1, <3>0, <3>2, <5>1, <5>3, <6>1 DEF First
        <5>4. QED
          BY <5>2, <5>3
      <4>4. QED
        BY <2>2, <4>1, <4>2, <4>3 DEF BarStep
    <3>3. QED
      BY <3>1, <3>2
  <2>3. CASE HostRegisters
    <3>0. UNCHANGED <<old_bar, shst, dbs, admin_q>> /\ admins_left' = admins_left
      <4>1. ~Sends
        BY <2>3 DEF Sends, SendAdmin, HostRegisters, WriteAqa, WriteAsq, WriteAcq, WriteCc, SeeCsts, Enable, SeeReady,
           Shutdown, SeeShutdown, Disable, SeeDisabled
      <4>2. QED
        BY <1>2, <2>3, <4>1, AdminsKept, HostRegistersKeep DEF UNCHANGED_device, queueVars
    <3>1. CASE WriteAsq \/ WriteAcq \/ Enable
      <4>1. hpc \in Making /\ hpc' \in Making
        BY <3>1 DEF WriteAsq, WriteAcq, Enable, WriteCc, Making
      <4>2. QED
        BY <1>c, <1>t, <2>1, <3>0, <4>1 DEF First, Making
    <3>2. CASE SeeReady
      <4>1. hpc = "starting" /\ hpc' = "ready"
        BY <3>2 DEF SeeReady, SeeCsts
      <4>2. Waiting' = {} /\ admin_q'.head = 0 /\ admin_q'.phase = 1 /\ Cardinality({}) = 0
        BY <3>2, Fresh, FS_EmptySet
      <4>3. conf.admins \in Nat
        BY <1>t, Constants DEF HostTypes, Config
      <4>4. QED
        BY <1>c, <1>t, <2>1, <3>0, <4>1, <4>2, <4>3 DEF First, Making
    <3>3. CASE Shutdown
      <4>1. hpc = "ready" /\ hpc' = "stopping" /\ old_bar.cc = "on"
        BY <3>3, <1>t DEF Shutdown, WriteCc, Seen
      <4>2. start # 0
        BY <1>t, <4>1 DEF Written
      <4>3. QED
        BY <1>c, <1>t, <2>1, <3>0, <4>1, <4>2 DEF First, Making
    <3>4. CASE SeeShutdown \/ Disable \/ SeeDisabled
      <4>1. \/ hpc = "stopping" /\ shst /\ hpc' = "stopped"
            \/ hpc = "stopped" /\ hpc' = "resetting"
            \/ hpc = "resetting" /\ hpc' = "off"
        BY <3>4 DEF SeeShutdown, Disable, SeeDisabled, SeeCsts, WriteCc
      <4>2. start # 0
        BY <1>t, <4>1 DEF Written
      <4>3. QED
        BY <1>c, <1>t, <2>1, <3>0, <4>1, <4>2 DEF First, Making
    <3>5. QED
      BY <1>2, <2>3, <3>1, <3>2, <3>3, <3>4 DEF HostRegisters
  <2>4. CASE ~BarStep /\ ~HostRegisters
    <3>1. UNCHANGED <<bar, hpc, old_bar, shst>>
      BY <2>4, HostOwns, BarOwns
    <3>2. CASE hpc = "ready"
      BY <1>c, <1>t, <2>1, <3>1, <3>2, FirstAtWork DEF First, Making
    <3>3. CASE hpc # "ready"
      <4>1. UNCHANGED <<dbs, admin_q>>
        BY <2>4, <3>3, RestKept
      <4>2. admins_left' = admins_left
        <5>1. ~Sends
          BY <3>3 DEF Sends, SendAdmin
        <5>2. QED
          BY <1>2, <5>1, AdminsKept
      <4>3. QED
        BY <1>c, <1>t, <2>1, <3>1, <3>3, <4>1, <4>2 DEF First
    <3>4. QED
      BY <3>2, <3>3
  <2>5. QED
    BY <2>2, <2>3, <2>4
<1>3. QED
  BY <1>1, <1>2

-----------------------------------------------------------------------------
(* The queue pair                                                          *)

\* A command under way tells the stage of the queue pair.
LEMMA OneCommandStep == CtrlInv /\ [Next]_vars => OneCommand'
<1> SUFFICES ASSUME CtrlInv, [Next]_vars PROVE OneCommand'
  OBVIOUS
<1>t. OneCommand /\ flight \subseteq Ops
  BY DEF CtrlInv, Types, HostTypes
<1>1. CASE UNCHANGED <<flight, life>>
  BY <1>1, <1>t DEF OneCommand
<1>2. CASE hpc # "ready"
  <2>1. flight = {} /\ flight' = flight /\ (life' = life \/ life' = "new")
    BY <1>2, RestKept DEF CtrlInv, Resting
  <2>2. QED
    BY <2>1, <1>t DEF OneCommand
<1>3. CASE hpc = "ready"
  <2>1. ASSUME NEW op \in Ops, SendAdmin(op) PROVE OneCommand'
    <3>1. /\ flight' = flight \cup {op} /\ op \notin flight
          /\ life' = (IF op = "delete_sq" THEN "closing" ELSE life)
          /\ op # "identify" => life = Before[op]
      BY <2>1 DEF SendAdmin, MaySend
    <3>2. QED
      BY <3>1, <1>t DEF OneCommand, Ops, Before
  <2>2. CASE TakeCqe
    <3> DEFINE op == AnsweredAt(h_head)
    <3>1. acq_mem[Prog.place][h_head].op = op /\ op \in flight /\ op \in Ops
      BY <2>2, CqeTaken
    <3>2. /\ flight' = flight \ {op}
          /\ life' = IF op = "identify" THEN life
                     ELSE IF op = "delete_cq" /\ pairs_left > 0 THEN "counted" ELSE After[op]
      BY <2>2, <3>1 DEF TakeCqe
    <3> HIDE DEF op
    <3>3. QED
      BY <3>1, <3>2, <1>t DEF OneCommand, Ops, After
  <2>3. CASE ~Sends /\ ~TakeCqe
    <3>1. UNCHANGED <<flight, life>>
      <4>1. CASE Posting
        BY <4>1, Posted
      <4>2. CASE ~Posting /\ hpc' = "ready"
        BY <1>3, <2>3, <4>2, RingsKept
      <4>3. CASE hpc' # "ready"
        <5>1. HostRegisters /\ ~WriteAqa
          BY <1>3, <4>3, HostOwns DEF WriteAqa
        <5>2. QED
          BY <5>1 DEF HostRegisters, WriteAsq, WriteAcq, WriteCc, SeeCsts, Enable, SeeReady, Shutdown,
             SeeShutdown, Disable, SeeDisabled
      <4>4. QED
        BY <4>1, <4>2, <4>3
    <3>2. QED
      BY <1>1, <3>1
  <2>4. QED
    BY <2>1, <2>2, <2>3 DEF Sends
<1>4. QED
  BY <1>2, <1>3

PairPlaces == {"reset_db", "reset_old", "free_sq", "free_cq"}

\* The queue pair is the dispatcher's.
LEMMA PairKept ==
  ASSUME CtrlInv, [Next]_vars, ~AdminStep
  PROVE  /\ UNCHANGED <<sq, cq>>
         /\ dpc' = dpc \/ (dpc \notin PairPlaces /\ dpc' \notin PairPlaces)
<1> USE DEF PairPlaces
<1>1. ASSUME NEW op \in Ops, SendAdmin(op) PROVE UNCHANGED <<sq, cq, dpc>>
  BY <1>1, SendKeeps DEF UNCHANGED_device, queueVars, dispVars
<1>2. CASE HostRegisters \/ TakeCqe \/ SubmitIo
  BY <1>2, HostRegistersKeep DEF TakeCqe, SubmitIo, UNCHANGED_device, queueVars, dispVars
<1>3. CASE BarStep
  <2>1. UNCHANGED <<sq, cq>>
    BY <1>3, BarKeeps DEF CtrlInv, Types
  <2>2. dpc \in {"aqa", "asq", "acq", "cc"} /\ dpc' \in {"asq", "acq", "cc", "doorbell"}
    BY <1>3 DEF BarStep, Same, SeeAqa, SeeAsq, SeeAcq, SeeCc
  <2>3. QED
    BY <2>1, <2>2
<1>4. CASE PollStep \/ Answer
  <2>1. UNCHANGED <<sq, cq>>
    BY <1>4, PollKeeps DEF UNCHANGED_but_poll, queueVars
  <2>2. dpc' = dpc \/ (dpc = "io" /\ dpc' = "aqa")
    BY <1>4 DEF PollStep, Look, Compare, Take, TakeOver, Answer, RoundOver, Polling
  <2>3. QED
    BY <2>1, <2>2
<1>5. CASE GpuStep
  BY <1>5 DEF GpuStep, UNCHANGED_controller, queueVars, dispVars
<1>6. QED
  BY <1>1, <1>2, <1>3, <1>4, <1>5 DEF Next, vars, queueVars, dispVars

\* What the place of the dispatcher tells of the command it has.
LEMMA PlaceIs ==
  ASSUME CtrlInv
  PROVE  /\ dpc \in {"reset_db", "reset_old"} =>
              /\ hpc = "ready" /\ Op = "create_sq" /\ "create_sq" \in flight /\ "create_sq" \notin Answered
              /\ life = "cq"
         /\ dpc = "free_sq" =>
              /\ hpc = "ready" /\ Op = "delete_sq" /\ "delete_sq" \in flight /\ "delete_sq" \notin Answered
              /\ life = "closing"
         /\ dpc = "free_cq" =>
              /\ hpc = "ready" /\ Op = "delete_cq" /\ "delete_cq" \in flight /\ "delete_cq" \notin Answered
              /\ life = "sq_gone"
<1>1. SUFFICES ASSUME dpc \in PairPlaces
               PROVE  /\ hpc = "ready" /\ Op \in flight /\ Op \notin Answered
                      /\ dpc \in {"reset_db", "reset_old"} => Op = "create_sq"
                      /\ dpc = "free_sq" => Op = "delete_sq"
                      /\ dpc = "free_cq" => Op = "delete_cq"
  BY DEF PairPlaces, CtrlInv, OneCommand
<1>2. hpc = "ready" /\ dpc \in AdminPlaces
  BY <1>1 DEF PairPlaces, AdminPlaces, CtrlInv, Resting
<1>3. dat # dnew
  BY <1>1, <1>2 DEF CtrlInv, InQueue, PairPlaces
<1>4. QED
  BY <1>2, <1>3, OpIs DEF CtrlInv, InQueue

LEMMA PairStageStep == CtrlInv /\ [Next]_vars => PairStage'
<1> SUFFICES ASSUME CtrlInv, [Next]_vars PROVE PairStage'
  OBVIOUS
<1>t. OneCommand /\ PairStage /\ flight \subseteq Ops /\ life \in Lives
  BY DEF CtrlInv, Types, HostTypes
<1>a. hpc = "ready" => Answered \subseteq flight
  BY DEF CtrlInv, OncePlaced
<1>1. CASE hpc # "ready"
  <2>1. life \in {"new", "down"} /\ (life' = life \/ life' = "new")
    BY <1>1, RestKept DEF CtrlInv, Resting
  <2>2. UNCHANGED <<sq, cq>>
    BY <1>1, PairKept, AdminAtRest DEF queueVars
  <2>3. QED
    BY <2>1, <2>2, <1>t DEF PairStage, Gone
<1>2. CASE hpc = "ready" /\ hpc' # "ready"
  <2>1. Shutdown
    BY <1>2, HostOwns DEF HostRegisters, WriteAqa, WriteAsq, WriteAcq, WriteCc, SeeCsts, Enable, SeeReady,
       SeeShutdown, Disable, SeeDisabled
  <2>2. life \in {"new", "down"} /\ UNCHANGED <<life, sq, cq>>
    BY <2>1 DEF Shutdown, WriteCc, UNCHANGED_device, queueVars
  <2>3. QED
    BY <2>2, <1>t DEF PairStage, Gone
<1>3. CASE hpc = "ready" /\ hpc' = "ready"
  <2>1. CASE ~Sends /\ ~TakeCqe /\ ~AdminStep
    <3>1. ~Posting
      BY <2>1 DEF Posting, AdminStep
    <3>2. UNCHANGED <<sq, cq, life>> /\ Answered' = Answered
          /\ (dpc' = dpc \/ (dpc \notin PairPlaces /\ dpc' \notin PairPlaces))
      BY <1>3, <2>1, <3>1, RingsKept, RingsSame, PairKept
    <3>3. QED
      BY <1>3, <3>2, <1>t DEF PairStage, Done, Up, Gone, Hidden, PairPlaces
  <2>2. CASE Sends
    <3>1. PICK op \in Ops : SendAdmin(op)
      BY <2>2 DEF Sends
    <3>2. /\ op \notin flight /\ life' = (IF op = "delete_sq" THEN "closing" ELSE life)
          /\ op = "delete_sq" => life = "up"
      BY <3>1 DEF SendAdmin, MaySend, Before
    <3>3. UNCHANGED <<sq, cq, dpc>> /\ Answered' = Answered
      BY <3>1, Sent, SendKeeps DEF UNCHANGED_device, queueVars, dispVars
    <3>4. op = "delete_sq" => dpc # "free_sq" /\ "delete_sq" \notin Answered
      BY <1>3, <1>a, <3>2, PlaceIs
    <3>5. QED
      BY <1>3, <3>2, <3>3, <3>4, <1>t DEF PairStage, Done, Up, Gone, Hidden
  <2>3. CASE TakeCqe
    <3> DEFINE op == AnsweredAt(h_head)
    <3>1. acq_mem[Prog.place][h_head].op = op /\ op \in flight /\ op \in Ops /\ op \in Answered
      BY <2>3, CqeTaken
    <3>2. life' = IF op = "identify" THEN life
                  ELSE IF op = "delete_cq" /\ pairs_left > 0 THEN "counted" ELSE After[op]
      BY <2>3, <3>1 DEF TakeCqe
    <3>3. UNCHANGED <<sq, cq, dpc>> /\ Answered' = Answered \ {op}
      BY <2>3, Read DEF TakeCqe, UNCHANGED_device, queueVars
    <3> HIDE DEF op
    <3>4. CASE op = "identify"
      BY <1>3, <3>1, <3>2, <3>3, <3>4, <1>t DEF PairStage, Done, Up, Gone, Hidden
    <3>5. CASE op = "num_queues"
      <4>1. life = "new" /\ life' = "counted" /\ "create_cq" \notin Answered'
        BY <1>3, <1>a, <3>1, <3>2, <3>3, <3>5, <1>t DEF OneCommand, After
      <4>2. QED
        BY <4>1, <3>3, <1>t DEF PairStage, Done, Up, Gone, Hidden
    <3>6. CASE op = "create_cq"
      <4>1. life = "counted" /\ life' = "cq" /\ "create_sq" \notin Answered' /\ dpc \notin {"reset_db", "reset_old"}
        BY <1>3, <1>a, <3>1, <3>2, <3>3, <3>6, <1>t, PlaceIs DEF OneCommand, After
      <4>2. Up(cq) /\ Gone(sq)
        BY <1>3, <3>1, <3>6, <4>1, <1>t DEF PairStage, Done
      <4>3. QED
        BY <4>1, <4>2, <3>3 DEF PairStage, Done, Up, Gone, Hidden
    <3>7. CASE op = "create_sq"
      <4>1. life = "cq" /\ life' = "up"
        BY <1>3, <3>1, <3>2, <3>3, <3>7, <1>t DEF OneCommand, After
      <4>2. Up(sq) /\ Up(cq)
        BY <1>3, <3>1, <3>7, <4>1, <1>t DEF PairStage, Done
      <4>3. QED
        BY <4>1, <4>2, <3>3 DEF PairStage, Done, Up, Gone, Hidden
    <3>8. CASE op = "delete_sq"
      <4>1. life = "closing" /\ life' = "sq_gone" /\ "delete_cq" \notin Answered' /\ dpc \notin {"free_sq", "free_cq"}
        BY <1>3, <1>a, <3>1, <3>2, <3>3, <3>8, <1>t, PlaceIs DEF OneCommand, After
      <4>2. Up(cq) /\ Gone(sq)
        BY <1>3, <3>1, <3>8, <4>1, <1>t DEF PairStage, Done
      <4>3. QED
        BY <4>1, <4>2, <3>3 DEF PairStage, Done, Up, Gone, Hidden
    <3>9. CASE op = "delete_cq"
      <4>1. life = "sq_gone" /\ life' \in {"down", "counted"} /\ "create_cq" \notin Answered' /\ dpc # "free_cq"
        BY <1>3, <1>a, <3>1, <3>2, <3>3, <3>9, <1>t, PlaceIs DEF OneCommand, After
      <4>2. Gone(cq) /\ Gone(sq)
        BY <1>3, <3>1, <3>9, <4>1, <1>t DEF PairStage, Done
      <4>3. QED
        BY <4>1, <4>2, <3>3 DEF PairStage, Done, Up, Gone, Hidden
    <3>10. QED
      BY <3>1, <3>4, <3>5, <3>6, <3>7, <3>8, <3>9 DEF Ops
  <2>4. CASE Posting
    <3>1. /\ life' = life /\ Answered' = Answered \cup {Op} /\ Op \notin Answered /\ Op \in flight /\ dpc' = "admin"
      BY <2>4, Posted
    <3>2. CASE Identify \/ NumQueues
      <4>1. Op \in {"identify", "num_queues"} /\ dpc = "admin" /\ UNCHANGED <<sq, cq>>
        BY <3>2 DEF Identify, NumQueues, AtCommand
      <4>2. QED
        BY <1>3, <3>1, <4>1, <1>t DEF PairStage, Done, Up, Gone, Hidden
    <3>3. CASE CreateCq
      <4>1. Op = "create_cq" /\ sq' = sq /\ Up(cq')
        BY <3>3 DEF CreateCq, AtCommand, Up
      <4>2. life = "counted"
        BY <3>1, <4>1, <1>t DEF OneCommand
      <4>3. QED
        BY <1>3, <3>1, <4>1, <4>2, <1>t DEF PairStage, Done, Up, Gone, Hidden
    <3>4. CASE ResetOldDb
      <4>1. dpc = "reset_old" /\ UNCHANGED <<sq, cq>> /\ life = "cq" /\ Op = "create_sq"
        BY <3>4, PlaceIs DEF ResetOldDb
      <4>2. QED
        BY <1>3, <3>1, <4>1, <1>t DEF PairStage, Done, Up, Gone, Hidden
    <3>5. CASE FreeSq
      <4>1. cq' = cq /\ life = "closing" /\ Op = "delete_sq" /\ Gone(sq')
        BY <3>5, PlaceIs DEF FreeSq, NoIoQueue, Gone
      <4>2. QED
        BY <1>3, <3>1, <4>1, <1>t DEF PairStage, Done, Up, Gone, Hidden
    <3>6. CASE FreeCq
      <4>1. sq' = sq /\ life = "sq_gone" /\ Op = "delete_cq" /\ Gone(cq')
        BY <3>6, PlaceIs DEF FreeCq, NoIoQueue, Gone
      <4>2. QED
        BY <1>3, <3>1, <4>1, <1>t DEF PairStage, Done, Up, Gone, Hidden
    <3>7. QED
      BY <2>4, <3>2, <3>3, <3>4, <3>5, <3>6 DEF Posting
  <2>5. CASE AdminStep /\ ~Posting
    <3>1. /\ life' = life
      BY <2>5, AdminKeeps DEF UNCHANGED_host, hostVars
    <3>2. Answered' = Answered
      <4>1. UNCHANGED <<acq_mem, h_head, admin_q, conf, start>>
        BY <2>5, AdminKeeps DEF UNCHANGED_host, hostVars, AdminStep, Posting, SeeAdminDb, AdminDone, CreateSq,
           ResetDb, HideSq, HideCq, memVars, queueVars
      <4>2. QED
        BY <4>1 DEF Answered, Unread, AnsweredAt, Now, Start
    <3>3. CASE SeeAdminDb \/ AdminDone
      <4>1. UNCHANGED <<sq, cq>> /\ dpc \notin PairPlaces /\ dpc' \notin PairPlaces
        BY <3>3 DEF SeeAdminDb, AdminDone, queueVars, PairPlaces, Onward
      <4>2. QED
        BY <1>3, <3>1, <3>2, <4>1, <1>t DEF PairStage, Done, Up, Gone, Hidden, PairPlaces
    <3>4. CASE CreateSq
      <4>1. dpc = "admin" /\ Op = "create_sq" /\ dat # dnew /\ Up(sq') /\ cq' = cq /\ dpc' = "reset_db"
        BY <3>4 DEF CreateSq, AtCommand, Up
      <4>2. life = "cq"
        BY <4>1, <1>t, OpIs DEF OneCommand, AdminPlaces
      <4>3. QED
        BY <1>3, <3>1, <3>2, <4>1, <4>2, <1>t DEF PairStage, Done, Up, Gone, Hidden
    <3>5. CASE ResetDb
      <4>1. dpc = "reset_db" /\ UNCHANGED <<sq, cq>> /\ dpc' = "reset_old" /\ life = "cq"
        BY <3>5, PlaceIs DEF ResetDb, queueVars
      <4>2. QED
        BY <1>3, <3>1, <3>2, <4>1, <1>t DEF PairStage, Done, Up, Gone, Hidden
    <3>6. CASE HideSq
      <4>1. dpc = "admin" /\ Op = "delete_sq" /\ dat # dnew /\ sq' = [sq EXCEPT !.shown = FALSE] /\ cq' = cq
            /\ dpc' = "free_sq"
        BY <3>6 DEF HideSq, AtCommand
      <4>2. life = "closing" /\ "delete_sq" \notin Answered
        BY <4>1, <1>t, OpIs DEF OneCommand, AdminPlaces
      <4>3. Up(sq) /\ sq \in IoQueue
        BY <4>1, <4>2, <1>t DEF PairStage, Done, CtrlInv, Types, PollTypes
      <4>4. Hidden(sq')
        BY <4>1, <4>3 DEF Up, Hidden, IoQueue
      <4>5. QED
        BY <1>3, <3>1, <3>2, <4>1, <4>2, <4>4, <1>t DEF PairStage, Done, Up, Gone, Hidden
    <3>7. CASE HideCq
      <4>1. dpc = "admin" /\ Op = "delete_cq" /\ dat # dnew /\ cq' = [cq EXCEPT !.shown = FALSE] /\ sq' = sq
            /\ dpc' = "free_cq"
        BY <3>7 DEF HideCq, AtCommand
      <4>2. life = "sq_gone" /\ "delete_cq" \notin Answered
        BY <4>1, <1>t, OpIs DEF OneCommand, AdminPlaces
      <4>3. Up(cq) /\ cq \in IoQueue
        BY <4>1, <4>2, <1>t DEF PairStage, Done, CtrlInv, Types, PollTypes
      <4>4. Hidden(cq')
        BY <4>1, <4>3 DEF Up, Hidden, IoQueue
      <4>5. QED
        BY <1>3, <3>1, <3>2, <4>1, <4>2, <4>4, <1>t DEF PairStage, Done, Up, Gone, Hidden
    <3>8. QED
      BY <2>5, <3>3, <3>4, <3>5, <3>6, <3>7 DEF AdminStep, Posting
  <2>6. QED
    BY <2>1, <2>2, <2>3, <2>4, <2>5
<1>4. QED
  BY <1>1, <1>2, <1>3

-----------------------------------------------------------------------------
(* The I/O queue and those who poll it                                     *)

\* Each I/O unanswered is in the queue or on a work list.
LEMMA OutIs ==
  ASSUME CtrlInv
  PROVE  /\ out = Cardinality(Cells) + queued /\ Cardinality(Cells) \in Nat /\ queued \in Nat /\ out \in Nat
         /\ out = 0 => Cells = {} /\ queued = 0
         /\ Cells = {} => Cardinality(Cells) = 0
<1>1. IsFiniteSet(Cells) /\ Cardinality(Cells) \in Nat
  BY CellsFinite, FS_CardinalityType
<1>2. out = Cardinality(Cells) + queued /\ queued \in Nat
  BY DEF CtrlInv, IoRing, Types, PollTypes
<1>3. Cells = {} <=> Cardinality(Cells) = 0
  BY <1>1, FS_EmptySet
<1>4. QED
  BY <1>1, <1>2, <1>3

LEMMA IoTypes ==
  ASSUME CtrlInv
  PROVE  /\ IoDepth \in Nat \ {0} /\ IoSlots = 0 .. IoDepth - 1
         /\ PollAt \in IoSlots /\ io_tail \in IoSlots /\ pat \in IoSlots /\ pnew \in IoSlots
         /\ dbs.io \in IoSlots /\ old_dbs.io \in IoSlots /\ sq_mem \in [IoSlots -> {Blank, "cmd", "done"}]
         /\ dbs \in [admin : Slots, io : IoSlots] /\ old_dbs \in [admin : Slots, io : IoSlots]
BY Constants DEF CtrlInv, Types, HostTypes, RegTypes, MemTypes, PollTypes, PollAt, IoSlots

\* What the I/O queue and those who poll it have in common.
LEMMA RingStill ==
  ASSUME CtrlInv,
         UNCHANGED <<conf, out, sq_mem, queued, io_tail, ppc, pat, pnew>>,
         dbs'.io = dbs.io, old_dbs'.io = old_dbs.io,
         life' = "up" <=> life = "up", life' = "closing" => life = "closing",
         dpc' = "reset_old" <=> dpc = "reset_old",
         ~conf.fast /\ ppc # "look" => dpc' = "io" /\ sq' = sq,
         (life = "cq" /\ "create_sq" \in flight)' =>
            /\ life = "cq" /\ "create_sq" \in flight
            /\ Done("create_sq")' => Done("create_sq")
  PROVE  IoRing'
<1>1. Cells' = Cells
  BY DEF Cells
<1>2. PollAt' = PollAt
  BY DEF PollAt
<1>3. IoRing
  BY DEF CtrlInv
<1>4. QED
  BY <1>1, <1>2, <1>3 DEF IoRing

LEMMA IoRingHost == CtrlInv /\ [Next]_vars /\ HostRegisters => IoRing'
<1> SUFFICES ASSUME CtrlInv, [Next]_vars, HostRegisters PROVE IoRing'
  OBVIOUS
<1>1. UNCHANGED <<conf, flight, out, io_tail, sq_mem, dbs, old_dbs, ppc, pat, pnew, queued, dpc, sq>>
      /\ (life' = life \/ life' = "new")
  BY HostRegistersKeep DEF UNCHANGED_device, pollVars, dispVars, queueVars
<1>2. flight = {} /\ life \in {"new", "down"}
  <2>1. CASE hpc = "ready"
    BY <2>1 DEF HostRegisters, WriteAqa, WriteAsq, WriteAcq, WriteCc, SeeCsts, Enable, SeeReady, Shutdown,
       SeeShutdown, Disable, SeeDisabled
  <2>2. CASE hpc # "ready"
    BY <2>2 DEF CtrlInv, Resting
  <2>3. QED
    BY <2>1, <2>2
<1>3. ~conf.fast /\ ppc # "look" => dpc = "io"
  BY DEF CtrlInv, IoRing
<1>4. QED
  BY <1>1, <1>2, <1>3, RingStill

LEMMA IoRingBar == CtrlInv /\ [Next]_vars /\ BarStep => IoRing'
<1> SUFFICES ASSUME CtrlInv, [Next]_vars, BarStep PROVE IoRing'
  OBVIOUS
<1>1. /\ UNCHANGED <<conf, hpc, flight, life, out, io_tail, sq_mem, ppc, pat, pnew, queued, sq>>
      /\ dbs'.io = dbs.io /\ old_dbs'.io = old_dbs.io
  BY BarKeeps DEF CtrlInv, Types, UNCHANGED_host, hostVars, ioHostVars
<1>2. dpc \in {"aqa", "asq", "acq", "cc"} /\ dpc' \in {"asq", "acq", "cc", "doorbell"}
  BY DEF BarStep, Same, SeeAqa, SeeAsq, SeeAcq, SeeCc
<1>3. ~conf.fast => ppc = "look"
  BY <1>2 DEF CtrlInv, IoRing
<1>4. "create_sq" \in flight => Answered' = Answered
  <2>1. "create_sq" \in flight => hpc = "ready"
    BY DEF CtrlInv, Resting
  <2>2. hpc = "ready" => UNCHANGED <<acq_mem, h_head, admin_q, start>>
    BY BarAtWork DEF UNCHANGED_host, hostVars, memVars, queueVars
  <2>3. QED
    BY <1>1, <2>1, <2>2 DEF Answered, Unread, AnsweredAt, Now, Start
<1>5. QED
  BY <1>1, <1>2, <1>3, <1>4, RingStill DEF Done

LEMMA IoRingSend == CtrlInv /\ [Next]_vars /\ Sends => IoRing'
<1> SUFFICES ASSUME CtrlInv, [Next]_vars, NEW op \in Ops, SendAdmin(op) PROVE IoRing'
  BY DEF Sends
<1>1. /\ UNCHANGED <<conf, hpc, out, old_dbs, ppc, pat, pnew, queued, dpc, sq>>
      /\ op \notin flight /\ flight' = flight \cup {op}
      /\ life' = (IF op = "delete_sq" THEN "closing" ELSE life)
      /\ sq_mem' = (IF op = "create_sq" THEN [i \in IoSlots |-> Blank] ELSE sq_mem)
      /\ io_tail' = (IF op = "create_sq" THEN 0 ELSE io_tail)
  BY DEF SendAdmin, UNCHANGED_device, pollVars, dispVars, queueVars
<1>2. dbs'.io = dbs.io
  <2>1. dbs' = [dbs EXCEPT !.admin = h_tail']
    BY DEF SendAdmin
  <2>2. QED
    BY <2>1, IoTypes
<1>3. Answered' = Answered /\ Answered \subseteq flight
  BY Sent DEF CtrlInv, OncePlaced
<1>4. ~conf.fast /\ ppc # "look" => dpc = "io"
  BY DEF CtrlInv, IoRing
<1>5. CASE op \notin {"create_sq", "delete_sq"}
  BY <1>1, <1>2, <1>3, <1>4, <1>5, RingStill DEF Done
<1>6. CASE op = "delete_sq"
  <2>1. life = "up" /\ out = 0 /\ (conf.fast => ppc = "look")
    BY <1>6 DEF SendAdmin, MaySend, Before
  <2>2. Cells = {} /\ queued = 0 /\ Cells = Between(PollAt, io_tail, IoDepth) /\ dbs.io = io_tail
    BY <2>1, OutIs DEF CtrlInv, IoRing
  <2>3. PollAt = dbs.io
    <3>1. Between(PollAt, io_tail, IoDepth) = {}
      BY <2>2
    <3>2. PollAt # io_tail => PollAt \in Between(PollAt, io_tail, IoDepth)
      BY IoTypes, Stretch
    <3>3. QED
      BY <2>2, <3>1, <3>2
  <2>4. Cells' = Cells /\ PollAt' = PollAt
    BY <1>1, <1>6 DEF Cells, PollAt
  <2>5. IoRing
    BY DEF CtrlInv
  <2>6. QED
    BY <1>1, <1>2, <1>6, <2>1, <2>3, <2>4, <2>5 DEF IoRing
<1>7. CASE op = "create_sq"
  <2>1. life = "cq" /\ (conf.fast => dbs.io = 0)
    BY <1>7 DEF SendAdmin, MaySend, Before
  <2>2. out = 0 /\ Cells = {} /\ queued = 0
    <3>1. out = 0
      BY <2>1 DEF CtrlInv, IoRing
    <3>2. QED
      BY <3>1, OutIs
  <2>3. Cells' = {}
    BY <1>1, <1>7 DEF Cells, Blank
  <2>4. PollAt' = PollAt
    BY <1>1 DEF PollAt
  <2>5. dpc # "reset_old" /\ ~Done("create_sq")
    BY <1>1, <1>3, <1>7, PlaceIs DEF Done
  <2>6. IoRing
    BY DEF CtrlInv
  <2>7. QED
    BY <1>1, <1>2, <1>3, <1>7, <2>1, <2>2, <2>3, <2>4, <2>5, <2>6 DEF IoRing, Done
<1>8. QED
  BY <1>5, <1>6, <1>7

LEMMA IoRingRead == CtrlInv /\ [Next]_vars /\ TakeCqe => IoRing'
<1> SUFFICES ASSUME CtrlInv, [Next]_vars, TakeCqe PROVE IoRing'
  OBVIOUS
<1> DEFINE op == AnsweredAt(h_head)
<1>1. /\ UNCHANGED <<conf, hpc, out, sq_mem, io_tail, dbs, old_dbs, ppc, pat, pnew, queued, dpc, sq>>
      /\ flight' = flight \ {op} /\ Answered' = Answered \ {op} /\ op \in Answered
  BY Read DEF TakeCqe, UNCHANGED_device, pollVars, dispVars, queueVars, ioHostVars
<1>2. op \in flight /\ op \in Ops /\ hpc = "ready"
      /\ life' = IF op = "identify" THEN life
                 ELSE IF op = "delete_cq" /\ pairs_left > 0 THEN "counted" ELSE After[op]
  BY CqeTaken DEF TakeCqe
<1> HIDE DEF op
<1>3. ~conf.fast /\ ppc # "look" => dpc = "io"
  BY DEF CtrlInv, IoRing
<1>4. OneCommand
  BY DEF CtrlInv
<1>5. CASE op # "create_sq"
  <2>1. /\ life' = "up" <=> life = "up"
        /\ life' = "closing" => life = "closing"
        /\ (life' = "cq" /\ "create_sq" \in flight) => life = "cq"
    BY <1>2, <1>4, <1>5 DEF OneCommand, Ops, After
  <2>2. QED
    BY <1>1, <1>3, <2>1, RingStill DEF Done
<1>6. CASE op = "create_sq"
  <2>1. life = "cq" /\ life' = "up" /\ "create_sq" \in flight /\ Done("create_sq")
    BY <1>1, <1>2, <1>4, <1>6 DEF OneCommand, After, Done
  <2>2. dpc # "reset_old"
    BY <1>1, <1>6, PlaceIs
  <2>3. out = 0 /\ io_tail = 0 /\ dbs.io = 0 /\ PollAt = dbs.io
    BY <2>1, <2>2 DEF CtrlInv, IoRing
  <2>4. Cells = {} /\ queued = 0
    BY <2>3, OutIs
  <2>5. Cells' = Cells /\ PollAt' = PollAt
    BY <1>1 DEF Cells, PollAt
  <2>6. Between(PollAt, io_tail, IoDepth) = {}
    BY <2>3, IoTypes, Stretch
  <2>7. IoRing
    BY DEF CtrlInv
  <2>8. QED
    BY <1>1, <2>1, <2>2, <2>3, <2>4, <2>5, <2>6, <2>7 DEF IoRing
<1>7. QED
  BY <1>5, <1>6

LEMMA IoRingSubmit == CtrlInv /\ [Next]_vars /\ SubmitIo => IoRing'
<1> SUFFICES ASSUME CtrlInv, [Next]_vars, SubmitIo PROVE IoRing'
  OBVIOUS
<1>1. /\ UNCHANGED <<conf, hpc, life, flight, old_dbs, ppc, pat, pnew, queued, dpc, sq>>
      /\ life = "up" /\ out < IoDepth - 1 /\ out' = out + 1
      /\ sq_mem' = [sq_mem EXCEPT ![io_tail] = "cmd"]
      /\ io_tail' = (io_tail + 1) % IoDepth
      /\ dbs' = [dbs EXCEPT !.io = io_tail']
  BY DEF SubmitIo, UNCHANGED_device, pollVars, dispVars, queueVars, hostVars
<1>2. io_tail' = After1(io_tail, IoDepth) /\ dbs'.io = io_tail' /\ io_tail' \in IoSlots
  BY <1>1, IoTypes, Positions
<1>3. IoRing /\ Cells = Between(PollAt, io_tail, IoDepth) /\ dbs.io = io_tail
  BY <1>1 DEF CtrlInv, IoRing
<1>4. PollAt' = PollAt
  BY <1>1 DEF PollAt
<1>5. Cells' = Cells \cup {io_tail} /\ io_tail \notin Cells
  <2>1. Cells' = Cells \cup {io_tail}
    BY <1>1, IoTypes DEF Cells
  <2>2. QED
    BY <1>3, <2>1, IoTypes, Stretch
<1>6. Between(PollAt, io_tail', IoDepth) = Cells'
  <2>1. Cardinality(Cells) < IoDepth - 1
    <3>1. \A c, q, n \in Nat : c + q < n - 1 => c < n - 1
      OBVIOUS
    <3>2. QED
      BY <1>1, <3>1, OutIs, IoTypes
  <2>2. After1(io_tail, IoDepth) # PollAt
    BY <1>3, <2>1, IoTypes, StretchRoom
  <2>3. QED
    BY <1>2, <1>3, <1>5, <2>2, IoTypes, StretchGrows
<1>7. out' = Cardinality(Cells') + queued
  <2>1. Cardinality(Cells') = Cardinality(Cells) + 1
    BY <1>5, CellsFinite, FS_AddElement
  <2>2. QED
    BY <1>1, <2>1, OutIs
<1>8. QED
  BY <1>1, <1>2, <1>3, <1>4, <1>5, <1>6, <1>7 DEF IoRing

LEMMA IoRingAdmin == CtrlInv /\ [Next]_vars /\ AdminStep => IoRing'
<1> SUFFICES ASSUME CtrlInv, [Next]_vars, AdminStep PROVE IoRing'
  OBVIOUS
<1>1. UNCHANGED <<conf, hpc, life, flight, out, sq_mem, io_tail, ppc, pat, pnew, queued>>
  BY AdminKeeps DEF UNCHANGED_host, hostVars, ioHostVars
<1>2. dpc \in AdminPlaces \cup {"doorbell"}
  BY DEF AdminStep, SeeAdminDb, AdminDone, Identify, NumQueues, CreateCq, CreateSq, ResetDb, ResetOldDb,
         HideSq, FreeSq, HideCq, FreeCq, AtCommand, AdminPlaces
<1>3. IoRing /\ (~conf.fast => ppc = "look")
  BY <1>2 DEF CtrlInv, IoRing, AdminPlaces
<1>4. CASE ResetDb
  <2>1. /\ dpc = "reset_db" /\ dbs' = [dbs EXCEPT !.io = 0] /\ dpc' = "reset_old" /\ old_dbs' = old_dbs /\ sq' = sq
    BY <1>4 DEF ResetDb, queueVars
  <2>2. dbs'.io = 0
    BY <2>1, IoTypes
  <2>3. life = "cq" /\ "create_sq" \in flight
    BY <2>1, PlaceIs
  <2>4. conf.fast => dbs.io = 0
    BY <1>3, <2>3 DEF IoRing
  <2>5. Cells' = Cells /\ PollAt' = PollAt
    BY <1>1, <2>1 DEF Cells, PollAt
  <2>6. QED
    BY <1>1, <1>3, <2>1, <2>2, <2>3, <2>4, <2>5 DEF IoRing
<1>5. CASE ResetOldDb
  <2>1. /\ dpc = "reset_old" /\ old_dbs' = [old_dbs EXCEPT !.io = 0] /\ dpc' = "admin" /\ dbs' = dbs /\ sq' = sq
    BY <1>5 DEF ResetOldDb
  <2>2. old_dbs'.io = 0
    BY <2>1, IoTypes
  <2>3. life = "cq" /\ "create_sq" \in flight
    BY <2>1, PlaceIs
  <2>4. dbs.io = 0 /\ ppc # "take" /\ (conf.fast => old_dbs.io = 0)
    BY <1>3, <2>1, <2>3 DEF IoRing, PollAt
  <2>5. Cells' = Cells /\ PollAt' = 0 /\ (conf.fast => PollAt' = PollAt)
    BY <1>1, <2>2, <2>4 DEF Cells, PollAt
  <2>6. QED
    BY <1>1, <1>3, <2>1, <2>3, <2>4, <2>5 DEF IoRing
<1>6. CASE ~ResetDb /\ ~ResetOldDb
  <2>1. dbs' = dbs /\ old_dbs'.io = old_dbs.io
    BY <1>6, IoTypes DEF AdminStep, SeeAdminDb, AdminDone, Identify, NumQueues, CreateCq, CreateSq,
       HideSq, FreeSq, HideCq, FreeCq
  <2>2. dpc # "reset_old" /\ dpc' # "reset_old"
    BY <1>6 DEF AdminStep, SeeAdminDb, AdminDone, Identify, NumQueues, CreateCq, CreateSq,
       HideSq, FreeSq, HideCq, FreeCq, AtCommand, Onward
  <2>3. "create_sq" \in Answered' => "create_sq" \in Answered
    <3>1. CASE Posting
      <4>1. Answered' = Answered \cup {Op}
        BY <3>1, Posted
      <4>2. Op # "create_sq"
        <5>1. CASE FreeSq \/ FreeCq
          BY <5>1, PlaceIs DEF FreeSq, FreeCq
        <5>2. QED
          BY <1>6, <3>1, <5>1 DEF Posting, Identify, NumQueues, CreateCq, AtCommand
      <4>3. QED
        BY <4>1, <4>2
    <3>2. CASE ~Posting
      <4>1. UNCHANGED <<acq_mem, h_head, admin_q, conf, start>>
        BY <3>2, AdminKeeps DEF UNCHANGED_host, hostVars, AdminStep, Posting, SeeAdminDb, AdminDone, CreateSq,
           ResetDb, HideSq, HideCq, memVars, queueVars
      <4>2. QED
        BY <4>1 DEF Answered, Unread, AnsweredAt, Now, Start
    <3>3. QED
      BY <3>1, <3>2
  <2>4. QED
    BY <1>1, <1>3, <2>1, <2>2, <2>3, RingStill DEF Done
<1>7. QED
  BY <1>4, <1>5, <1>6

LEMMA IoRingPoll == CtrlInv /\ [Next]_vars /\ (PollStep \/ Answer) => IoRing'
<1> SUFFICES ASSUME CtrlInv, [Next]_vars, PollStep \/ Answer PROVE IoRing'
  OBVIOUS
<1>1. UNCHANGED <<conf, hpc, life, flight, io_tail, dbs, sq, start, h_head, acq_mem, admin_q>>
  BY PollKeeps DEF UNCHANGED_but_poll, hostVars, queueVars, memVars
<1>2. IoRing
  BY DEF CtrlInv
<1>3. Answered' = Answered
  BY <1>1 DEF Answered, Unread, AnsweredAt, Now, Start
<1>4. Done("create_sq")' = Done("create_sq")
  BY <1>1, <1>3 DEF Done
<1>5. CASE Look
  <2>1. UNCHANGED <<out, sq_mem, old_dbs, pat, queued>> /\ ppc = "look"
    BY <1>5 DEF Look
  <2>2. CASE nr_sq > 0 /\ sq.shown
    <3>1. pnew' = dbs.io /\ ppc' = "compare" /\ dpc' = dpc /\ (~conf.fast => dpc = "io")
      BY <1>5, <2>2 DEF Look, Polling
    <3>2. Cells' = Cells /\ PollAt' = PollAt
      BY <2>1, <3>1 DEF Cells, PollAt
    <3>3. QED
      BY <1>1, <1>2, <1>4, <2>1, <3>1, <3>2 DEF IoRing
  <2>3. CASE ~(nr_sq > 0 /\ sq.shown)
    <3>1. ~conf.fast /\ dpc = "io" /\ dpc' = "aqa" /\ ppc' = ppc /\ pnew' = pnew
      BY <1>5, <2>3 DEF Look, Polling, RoundOver
    <3>2. QED
      BY <1>1, <1>4, <2>1, <3>1, RingStill
  <2>4. QED
    BY <2>2, <2>3
<1>6. CASE Compare
  <2>1. UNCHANGED <<out, sq_mem, old_dbs, queued>> /\ ppc = "compare" /\ (~conf.fast => dpc = "io")
    BY <1>6 DEF Compare, Polling
  <2>2. CASE pnew # old_dbs.io /\ sq.shown
    <3>1. pat' = old_dbs.io /\ ppc' = "take" /\ pnew' = pnew /\ dpc' = dpc
      BY <1>6, <2>2 DEF Compare
    <3>2. Cells' = Cells /\ PollAt' = PollAt /\ PollAt = old_dbs.io
      BY <2>1, <3>1 DEF Cells, PollAt
    <3>3. PollAt # dbs.io
      <4>1. Between(PollAt, pnew, IoDepth) \subseteq Between(PollAt, dbs.io, IoDepth)
        BY <1>2, <2>1 DEF IoRing
      <4>2. QED
        BY <2>2, <3>2, <4>1, IoTypes, StretchPart
    <3>4. conf.fast => life = "up"
      BY <1>2, <3>3 DEF IoRing
    <3>5. QED
      BY <1>1, <1>2, <1>4, <2>1, <2>2, <3>1, <3>2, <3>4 DEF IoRing
  <2>3. CASE ~(pnew # old_dbs.io /\ sq.shown)
    <3>1. pnew' = 0 /\ ppc' = "look" /\ dpc' = (IF conf.fast THEN dpc ELSE "aqa") /\ pat' = pat
      BY <1>6, <2>3 DEF Compare, RoundOver
    <3>2. Cells' = Cells /\ PollAt' = PollAt
      BY <2>1, <3>1 DEF Cells, PollAt
    <3>3. QED
      BY <1>1, <1>2, <1>4, <2>1, <3>1, <3>2 DEF IoRing
  <2>4. QED
    BY <2>2, <2>3
<1>7. CASE Take
  <2>1. /\ ppc = "take" /\ pat # pnew /\ sq_mem' = [sq_mem EXCEPT ![pat] = "done"]
        /\ IF conf.fast THEN out' = out - 1 /\ UNCHANGED queued ELSE queued' = queued + 1 /\ UNCHANGED out
        /\ pat' = (pat + 1) % IoDepth
        /\ UNCHANGED <<old_dbs, ppc, pnew, dpc>>
    BY <1>7 DEF Take
  <2>2. life = "up" /\ pat \in Cells /\ pat # io_tail
    BY <2>1, TakesCell
  <2>3. pat' = After1(pat, IoDepth) /\ PollAt = pat /\ PollAt' = pat'
    BY <2>1, IoTypes, Positions DEF PollAt
  <2>4. Cells' = Cells \ {pat}
    BY <2>1, IoTypes DEF Cells
  <2>5. Cells = Between(pat, io_tail, IoDepth) /\ dbs.io = io_tail
        /\ Between(pat, pnew, IoDepth) \subseteq Between(pat, dbs.io, IoDepth)
    BY <1>2, <2>1, <2>2, <2>3 DEF IoRing
  <2>6. Cells' = Between(pat', io_tail, IoDepth)
    BY <2>2, <2>3, <2>4, <2>5, IoTypes, StretchShrinks
  <2>7. Between(pat', pnew, IoDepth) \subseteq Between(pat', dbs.io, IoDepth)
    BY <2>1, <2>3, <2>5, IoTypes, StretchPart
  <2>8. out' = Cardinality(Cells') + queued'
    <3>1. Cardinality(Cells') = Cardinality(Cells) - 1
      BY <2>2, <2>4, CellsFinite, FS_RemoveElement
    <3>2. QED
      BY <2>1, <3>1, OutIs
  <2>9. QED
    BY <1>1, <1>2, <1>4, <2>1, <2>2, <2>3, <2>5, <2>6, <2>7, <2>8 DEF IoRing
<1>8. CASE TakeOver
  <2>1. /\ ppc = "take" /\ pat = pnew /\ old_dbs' = [old_dbs EXCEPT !.io = pnew]
        /\ ppc' = "look" /\ dpc' = (IF conf.fast THEN dpc ELSE "aqa")
        /\ UNCHANGED <<out, sq_mem, queued>>
    BY <1>8 DEF TakeOver, RoundOver
  <2>2. PollAt' = PollAt /\ Cells' = Cells
    BY <2>1, IoTypes DEF PollAt, Cells
  <2>3. ~conf.fast => dpc = "io"
    BY <1>2, <2>1 DEF IoRing
  <2>4. QED
    BY <1>1, <1>2, <1>4, <2>1, <2>2, <2>3 DEF IoRing
<1>9. CASE Answer
  <2>1. /\ queued > 0 /\ queued' = queued - 1 /\ out' = out - 1
        /\ UNCHANGED <<sq_mem, old_dbs, ppc, pat, pnew, dpc>>
    BY <1>9 DEF Answer
  <2>2. Cells' = Cells /\ PollAt' = PollAt
    BY <2>1 DEF Cells, PollAt
  <2>3. out' = Cardinality(Cells) + queued' /\ out # 0
    BY <2>1, OutIs
  <2>4. QED
    BY <1>1, <1>2, <1>4, <2>1, <2>2, <2>3, OutIs DEF IoRing
<1>10. QED
  BY <1>5, <1>6, <1>7, <1>8, <1>9 DEF PollStep

LEMMA IoRingStep == CtrlInv /\ [Next]_vars => IoRing'
<1> SUFFICES ASSUME CtrlInv, [Next]_vars PROVE IoRing'
  OBVIOUS
<1>0. ~conf.fast /\ ppc # "look" => dpc = "io"
  BY DEF CtrlInv, IoRing
<1>1. CASE GpuStep \/ UNCHANGED vars
  <2>1. UNCHANGED <<conf, hpc, life, flight, out, sq_mem, queued, io_tail, ppc, pat, pnew, dbs, old_dbs, dpc, sq,
                    start, h_head, acq_mem, admin_q>>
    BY <1>1 DEF GpuStep, UNCHANGED_controller, vars, hostVars, ioHostVars, pollVars, dispVars, queueVars, memVars
  <2>2. Answered' = Answered
    BY <2>1 DEF Answered, Unread, AnsweredAt, Now, Start
  <2>3. QED
    BY <1>0, <2>1, <2>2, RingStill DEF Done
<1>2. QED
  BY <1>1, IoRingHost, IoRingBar, IoRingSend, IoRingRead, IoRingSubmit, IoRingAdmin, IoRingPoll DEF Next, Sends

-----------------------------------------------------------------------------
(* Queues in registered memory; bounds of the registry                     *)

\* A region is taken off the list when no queue lies there.
LEMMA NoQueueLives == CtrlInv /\ NoQueues => ~sq.live /\ ~cq.live
<1> SUFFICES ASSUME CtrlInv, NoQueues PROVE ~sq.live /\ ~cq.live
  OBVIOUS
<1>1. life \in {"new", "counted", "down"} /\ "create_cq" \notin flight
  BY DEF NoQueues
<1>2. ~Done("create_cq")
  BY <1>1 DEF Done, CtrlInv, OncePlaced
<1>3. QED
  BY <1>1, <1>2 DEF CtrlInv, PairStage, Gone

\* Which regions stay listed.
LEMMA ListedKept ==
  ASSUME RegistryInv, conf \in Configs, GpuStep, NEW r \in Regions, region[r].stage = "listed",
         ~\E a \in conf.pins : (conf.gpu => NoQueues) /\ Unlink(a, conf.scarce)
  PROVE  region'[r].stage = "listed"
<1>0. region \in [Regions -> Region] /\ region[r] \in Region
  BY DEF RegistryInv, RegistryType
<1>1. CASE UNCHANGED region
  BY <1>1
<1>2. ASSUME NEW q \in Regions, NEW a, GetPages(q, a) PROVE region'[r].stage = "listed"
  BY <1>0, <1>2 DEF GetPages
<1>3. ASSUME NEW q \in Regions, MapPages(q) PROVE region'[r].stage = "listed"
  <2>1. q # r
    BY <1>3 DEF MapPages
  <2>2. QED
    BY <1>0, <1>3, <2>1 DEF MapPages
<1>4. ASSUME NEW q \in Regions, Publish(q, conf.scarce) PROVE region'[r].stage = "listed"
  <2>1. q # r
    BY <1>4 DEF Publish
  <2>2. QED
    BY <1>0, <1>4, <2>1 DEF Publish
<1>5. ASSUME NEW q \in Regions, Reclaim(q) PROVE region'[r].stage = "listed"
  BY <1>0, <1>5 DEF Reclaim, Region
<1>6. ASSUME NEW q \in Regions, FreeRegion(q) PROVE region'[r].stage = "listed"
  BY <1>0, <1>6 DEF FreeRegion
<1>7. ASSUME NEW x, NEW a, Enter(x, a) PROVE UNCHANGED region
  BY <1>7 DEF Enter
<1>8. ASSUME NEW x, ReaderStep(x) PROVE UNCHANGED region
  BY <1>8 DEF ReaderStep, Lookup, Leave, Scan, AutoMap
<1>9. conf.objects \subseteq Regions
  BY Constants DEF Config
<1>10. QED
  BY <1>1, <1>2, <1>3, <1>4, <1>5, <1>6, <1>7, <1>8, <1>9 DEF GpuStep

LEMMA BackedStep == CtrlInv /\ RegistryInv /\ [Next]_vars => Backed'
<1> SUFFICES ASSUME CtrlInv, RegistryInv, [Next]_vars, NEW q \in {sq', cq'}, q.live, q.ptr \in Regions
             PROVE  conf'.gpu /\ region'[q.ptr].stage = "listed"
  BY ConfKept DEF Backed
<1>c. conf' = conf /\ conf \in Configs
  BY ConfKept DEF CtrlInv, Types, HostTypes
<1>t. sq \in IoQueue /\ cq \in IoQueue /\ Backed
  BY DEF CtrlInv, Types, PollTypes
<1>1. CASE AdminStep
  <2>0. region' = region
    BY <1>1, AdminKeeps DEF UNCHANGED_host, gpuVars
  <2>1. ASSUME NEW ptr \in Regions, Resolved(ptr) PROVE conf.gpu /\ region[ptr].stage = "listed"
    <3>1. ptr # "host"
      BY Constants
    <3>2. conf.gpu /\ ptr \in lookup
      BY <2>1, <3>1 DEF Resolved
    <3>3. QED
      BY <1>c, <3>2, Constants DEF RegistryInv, TableAgrees, ListAgrees
  <2>2. CASE q \in {sq, cq}
    BY <1>c, <1>t, <2>0, <2>2 DEF Backed
  <2>3. CASE CreateCq
    <3>1. PICK ptr \in Regions \cup {"host"} : Resolved(ptr) /\ cq' = [shown |-> TRUE, live |-> TRUE, ptr |-> ptr] /\ sq' = sq
      BY <2>3 DEF CreateCq
    <3>2. q \in {sq, cq} \/ q.ptr = ptr
      BY <3>1
    <3>3. QED
      BY <1>c, <2>0, <2>1, <2>2, <3>1, <3>2
  <2>4. CASE CreateSq
    <3>1. PICK ptr \in Regions \cup {"host"} : Resolved(ptr) /\ sq' = [shown |-> TRUE, live |-> TRUE, ptr |-> ptr] /\ cq' = cq
      BY <2>4 DEF CreateSq
    <3>2. q \in {sq, cq} \/ q.ptr = ptr
      BY <3>1
    <3>3. QED
      BY <1>c, <2>0, <2>1, <2>2, <3>1, <3>2
  <2>5. CASE HideSq \/ HideCq
    <3>1. \E p \in {sq, cq} : q = p \/ q = [p EXCEPT !.shown = FALSE]
      BY <2>5 DEF HideSq, HideCq
    <3>2. PICK p \in {sq, cq} : q = p \/ q = [p EXCEPT !.shown = FALSE]
      BY <3>1
    <3>3. q.live = p.live /\ q.ptr = p.ptr
      BY <1>t, <3>2 DEF IoQueue
    <3>4. QED
      BY <1>c, <1>t, <2>0, <3>3 DEF Backed
  <2>6. CASE FreeSq \/ FreeCq
    <3>1. q \in {sq, cq} \/ q = NoIoQueue
      BY <2>6 DEF FreeSq, FreeCq
    <3>2. QED
      BY <2>2, <3>1 DEF NoIoQueue
  <2>7. CASE SeeAdminDb \/ AdminDone \/ Identify \/ NumQueues \/ ResetDb \/ ResetOldDb
    BY <2>2, <2>7 DEF SeeAdminDb, AdminDone, Identify, NumQueues, ResetDb, ResetOldDb, queueVars
  <2>8. QED
    BY <1>1, <2>3, <2>4, <2>5, <2>6, <2>7 DEF AdminStep
<1>2. CASE ~AdminStep
  <2>1. q \in {sq, cq} /\ conf.gpu /\ region[q.ptr].stage = "listed"
    BY <1>2, <1>t, PairKept DEF Backed
  <2>2. CASE GpuStep
    <3>1. ~NoQueues
      BY <2>1, NoQueueLives
    <3>2. CASE \E a \in conf.pins : (conf.gpu => NoQueues) /\ Unlink(a, conf.scarce)
      BY <2>1, <3>1, <3>2
    <3>3. CASE ~\E a \in conf.pins : (conf.gpu => NoQueues) /\ Unlink(a, conf.scarce)
      BY <1>c, <2>1, <2>2, <3>3, ListedKept
    <3>4. QED
      BY <3>2, <3>3
  <2>3. CASE ~GpuStep
    <3>1. region' = region
      BY <2>3, OthersLeaveIt DEF vars, gpuVars
    <3>2. QED
      BY <1>c, <2>1, <3>1
  <2>4. QED
    BY <2>2, <2>3
<1>3. QED
  BY <1>1, <1>2

\* What the registry and its readers keep within.
Bounded ==
  /\ Readers = conf.readers
  /\ Len(regions) <= MaxRegions /\ Len(automap) <= AutoMax
  /\ ToSet(automap) \subseteq Addrs
  /\ \A x \in Readers : reader[x].at # "out" => reader[x].addr \in Addrs

LEMMA BoundedStep == conf \in Configs /\ RegistryInv /\ Bounded /\ [Next]_vars => Bounded'
<1> SUFFICES ASSUME conf \in Configs, RegistryInv, Bounded, [Next]_vars PROVE Bounded'
  OBVIOUS
<1> USE DEF Bounded
<1>0. /\ MaxRegions \in Nat /\ AutoMax \in Nat /\ conf.pins \subseteq Addrs /\ conf.objects \subseteq Regions
      /\ regions \in Seq(Regions) /\ reader \in [Readers -> ReaderState] /\ automap \in Seq(Addrs \cup {NoRegion})
      /\ Len(regions) \in Nat /\ Len(automap) \in Nat
  BY GpuAssumption, Constants, LenProperties DEF Config, RegistryInv, RegistryType
<1>1. CASE UNCHANGED <<conf, gpuVars>>
  BY <1>1 DEF gpuVars, Readers
<1>2. CASE GpuStep
  <2>0. conf' = conf
    BY <1>2 DEF GpuStep, UNCHANGED_controller
  <2>1. CASE UNCHANGED <<reader, automap>> /\ Len(regions') <= MaxRegions
    BY <2>0, <2>1 DEF Readers
  <2>2. ASSUME NEW r \in Regions, (\E a \in Addrs : GetPages(r, a)) \/ MapPages(r) \/ Reclaim(r) \/ FreeRegion(r)
        PROVE  Bounded'
    BY <2>1, <2>2 DEF GetPages, MapPages, Reclaim, FreeRegion
  <2>3. ASSUME NEW r \in Regions, Publish(r, conf.scarce) PROVE Bounded'
    <3>1. regions' = regions \/ (Len(regions) < MaxRegions /\ regions' = Append(regions, r))
      BY <1>0, <2>3 DEF Publish
    <3>2. Len(regions') <= MaxRegions
      <4>1. Len(Append(regions, r)) = Len(regions) + 1
        BY <1>0, AppendProperties
      <4>2. QED
        BY <1>0, <3>1, <4>1
    <3>3. QED
      BY <2>1, <2>3, <3>2 DEF Publish
  <2>4. ASSUME NEW a, Unlink(a, conf.scarce) PROVE Bounded'
    <3> DEFINE i == FirstAt(a)
               At == {k \in 1 .. Len(regions) : region[regions[k]].addr = a}
    <3>1. i \in 1 .. Len(regions)
      <4>1. At # {} /\ i = Min(At)
        <5>1. i = IF At # {} THEN Min(At) ELSE 0
          BY DEF FirstAt, SelectInSeq
        <5>2. i > 0
          BY <2>4 DEF Unlink
        <5>3. QED
          BY <5>1, <5>2
      <4>2. At \in SUBSET Nat
        OBVIOUS
      <4>3. i \in At
        BY <4>1, <4>2, Least
      <4>4. QED
        BY <4>3
    <3> HIDE DEF i
    <3>2. regions' = RemoveAt(regions, i) /\ UNCHANGED <<reader, automap>>
      BY <2>4 DEF Unlink, i
    <3>3. Len(RemoveAt(regions, i)) = Len(regions) - 1
      <4> DEFINE front == SubSeq(regions, 1, i - 1)
                 back == SubSeq(regions, i + 1, Len(regions))
      <4>1. front \in Seq(Regions) /\ Len(front) = i - 1
        BY <1>0, <3>1, SubSeqProperties
      <4>2. back \in Seq(Regions) /\ Len(back) = Len(regions) - i
        BY <1>0, <3>1, SubSeqProperties
      <4>3. RemoveAt(regions, i) = front \o back
        BY DEF RemoveAt
      <4> HIDE DEF front, back
      <4>4. Len(front \o back) = Len(front) + Len(back)
        BY <4>1, <4>2, ConcatProperties
      <4>5. QED
        BY <1>0, <3>1, <4>1, <4>2, <4>3, <4>4
    <3>4. QED
      BY <1>0, <2>1, <3>2, <3>3
  <2>5. ASSUME NEW x \in Readers, NEW a \in Addrs, Enter(x, a) PROVE Bounded'
    BY <1>0, <2>0, <2>5 DEF Enter, Readers
  <2>6. ASSUME NEW x \in Readers, ReaderStep(x) PROVE Bounded'
    <3>0. reader[x] \in ReaderState /\ Idle.at = "out"
      BY <1>0 DEF Idle
    <3>1. CASE Lookup(x)
      <4>1. reader[x].at = "in" /\ UNCHANGED <<regions, automap>>
        BY <3>1 DEF Lookup
      <4>2. \E v \in ReaderState : reader' = [reader EXCEPT ![x] = v] /\ v.addr = reader[x].addr
        <5>1. CASE reader' = [reader EXCEPT ![x] = [reader[x] EXCEPT !.at = "scan"]]
          <6>1. [reader[x] EXCEPT !.at = "scan"] \in ReaderState /\ [reader[x] EXCEPT !.at = "scan"].addr = reader[x].addr
            BY <3>0 DEF ReaderState
          <6>2. QED
            BY <5>1, <6>1
        <5>2. CASE \E r \in lookup : reader' = [reader EXCEPT ![x].at = "use", ![x].found = r]
          <6>1. PICK r \in lookup : reader' = [reader EXCEPT ![x].at = "use", ![x].found = r]
            BY <5>2
          <6>2. r \in Regions
            BY <1>0, Elems DEF RegistryInv, RegistryType
          <6> DEFINE v == [reader[x] EXCEPT !.at = "use", !.found = r]
          <6>3. v \in ReaderState /\ v.addr = reader[x].addr
            BY <3>0, <6>2 DEF ReaderState
          <6>4. reader' = [reader EXCEPT ![x] = v]
            BY <6>1
          <6> HIDE DEF v
          <6>5. QED
            BY <6>3, <6>4
        <5>3. QED
          BY <3>1, <5>1, <5>2 DEF Lookup, Leaving
      <4>3. QED
        BY <1>0, <2>0, <3>0, <4>1, <4>2 DEF Readers
    <3>2. CASE Leave(x)
      BY <1>0, <2>0, <3>0, <3>2 DEF Leave, Leaving, Readers
    <3>3. CASE Scan(x)
      <4>1. reader[x].at = "scan" /\ UNCHANGED <<regions, automap>>
        BY <3>3 DEF Scan
      <4>2. reader' = [reader EXCEPT ![x] = Idle] \/ reader' = [reader EXCEPT ![x] = [reader[x] EXCEPT !.at = "lock"]]
        BY <3>3 DEF Scan
      <4>3. [reader[x] EXCEPT !.at = "lock"].addr = reader[x].addr
        BY <3>0 DEF ReaderState
      <4>4. QED
        BY <1>0, <2>0, <3>0, <4>1, <4>2, <4>3 DEF Readers
    <3>4. CASE AutoMap(x)
      <4>1. reader[x].addr \in Addrs /\ regions' = regions /\ reader' = [reader EXCEPT ![x] = Idle]
        BY <3>4 DEF AutoMap
      <4>2. automap' = automap \/ (Len(automap) < AutoMax /\ automap' = Append(automap, reader[x].addr))
        BY <1>0, <3>4 DEF AutoMap
      <4>3. Len(automap') <= AutoMax /\ ToSet(automap') \subseteq Addrs
        <5> DEFINE t == Append(automap, reader[x].addr)
        <5>1. /\ Len(t) = Len(automap) + 1
              /\ \A i \in 1 .. Len(t) : t[i] = reader[x].addr \/ (i \in 1 .. Len(automap) /\ t[i] = automap[i])
              /\ t \in Seq(Addrs \cup {NoRegion})
          <6>1. automap \in Seq(Addrs \cup {NoRegion}) /\ reader[x].addr \in Addrs \cup {NoRegion}
            BY <1>0, <4>1
          <6>2. QED
            BY <6>1, AppendProperties, LenProperties
        <5> HIDE DEF t
        <5>2. ToSet(t) \subseteq Addrs
          <6>1. \A i \in 1 .. Len(automap) : automap[i] \in Addrs
            BY <1>0, Elems
          <6>2. ToSet(t) = {t[i] : i \in 1 .. Len(t)}
            BY <5>1, Elems
          <6>3. QED
            BY <4>1, <5>1, <6>1, <6>2
        <5>3. CASE automap' = automap
          BY <5>3
        <5>4. CASE Len(automap) < AutoMax /\ automap' = t
          BY <1>0, <5>1, <5>2, <5>4
        <5>5. QED
          BY <4>2, <5>3, <5>4 DEF t
      <4>4. QED
        BY <1>0, <2>0, <3>0, <4>1, <4>3 DEF Readers
    <3>5. QED
      BY <2>6, <3>1, <3>2, <3>3, <3>4 DEF ReaderStep
  <2>7. QED
    BY <1>0, <1>2, <2>2, <2>3, <2>4, <2>5, <2>6 DEF GpuStep
<1>3. QED
  BY <1>1, <1>2, OthersLeaveIt DEF vars

-----------------------------------------------------------------------------
(* The invariant, and what follows from it                                 *)

LEMMA CtrlStart == Init => CtrlInv
<1> SUFFICES ASSUME Init PROVE CtrlInv
  OBVIOUS
<1>1. /\ hpc = "off" /\ start = 0 /\ life = "new" /\ flight = {} /\ out = 0 /\ queued = 0 /\ ppc = "look"
      /\ bar = [aqa |-> 0, asq |-> 0, acq |-> 0, cc |-> "off"] /\ old_bar = bar /\ rdy = FALSE
      /\ sq_mem = [i \in IoSlots |-> Blank] /\ dbs = [admin |-> 0, io |-> 0] /\ old_dbs = dbs
      /\ admin_q = NoQueue /\ sq = NoIoQueue /\ cq = NoIoQueue /\ dpc = "aqa"
  BY DEF Init
<1>2. Types /\ shst = FALSE
  BY TypesStart DEF Init
<1>3. Start(0) = NoStart /\ Start(-1) = NoStart
  <2>1. conf \in Configs
    BY DEF Init
  <2>2. 0 \notin 1 .. Len(conf.prog) /\ -1 \notin 1 .. Len(conf.prog)
    BY <2>1, StartIs
  <2>3. QED
    BY <2>1, <2>2, StartIs
<1>4. Written
  BY <1>1, <1>3 DEF Written, Now, Was, NoStart
<1>5. Seen
  BY <1>1 DEF Seen, Settled
<1>6. QueueAsSeen
  BY <1>1 DEF QueueAsSeen, NoQueue
<1>7. Resting /\ New /\ First /\ OncePlaced /\ InQueue /\ Phases
  <2>1. First
    BY <1>1, <1>2 DEF First, Making, NoQueue
  <2>2. QED
    BY <1>1, <2>1 DEF Resting, New, Making, OncePlaced, InQueue, Phases, AdminPlaces
<1>8. OneCommand /\ PairStage
  BY <1>1 DEF OneCommand, PairStage, Gone, NoIoQueue
<1>9. IoRing
  <2>1. Cells = {} /\ Cardinality({}) = 0
    BY <1>1, FS_EmptySet DEF Cells, Blank
  <2>2. QED
    BY <1>1, <2>1 DEF IoRing, PollAt
<1>10. Backed
  BY <1>1 DEF Backed, NoIoQueue
<1>11. QED
  BY <1>2, <1>4, <1>5, <1>6, <1>7, <1>8, <1>9, <1>10 DEF CtrlInv

LEMMA BoundedStart == Init => Bounded
<1> SUFFICES ASSUME Init PROVE Bounded
  OBVIOUS
<1>1. regions = <<>> /\ automap = <<>> /\ reader = [x \in conf.readers |-> Idle]
  BY DEF Init, GpuInit
<1>2. ToSet(automap) = {} /\ Len(regions) = 0 /\ Len(automap) = 0
  BY <1>1 DEF ToSet
<1>3. QED
  BY <1>1, <1>2, GpuAssumption DEF Bounded, Readers, Idle

ControllerInv == Sound /\ CtrlInv /\ RegistryInv /\ Bounded

LEMMA ControllerInvStep == ControllerInv /\ [Next]_vars => ControllerInv'
<1> SUFFICES ASSUME ControllerInv, [Next]_vars PROVE ControllerInv'
  OBVIOUS
<1>1. Sound /\ CtrlInv /\ RegistryInv /\ Bounded /\ conf \in Configs
  BY DEF ControllerInv, CtrlInv, Types, HostTypes
<1>2. Types'
  BY <1>1, HostTypesStep, RegTypesStep, MemTypesStep, PollTypesStep DEF Types
<1>3. Written' /\ Seen' /\ QueueAsSeen' /\ Resting' /\ New' /\ First'
  BY <1>1, WrittenStep, SeenStep, QueueAsSeenStep, RestingStep, NewStep, FirstStep
<1>4. OncePlaced' /\ InQueue' /\ Phases' /\ OneCommand' /\ PairStage' /\ IoRing' /\ Backed'
  BY <1>1, OncePlacedStep, InQueueStep, PhasesStep, OneCommandStep, PairStageStep, IoRingStep, BackedStep
<1>5. RegistryInv' /\ Bounded'
  BY <1>1, RegistryStep, BoundedStep
<1>6. Sound'
  BY <1>1 DEF Sound
<1>7. QED
  BY <1>2, <1>3, <1>4, <1>5, <1>6 DEF ControllerInv, CtrlInv

LEMMA ControllerHolds == Sound => (Spec => []ControllerInv)
<1>1. Sound /\ Init => ControllerInv
  BY CtrlStart, RegistryStart, BoundedStart DEF ControllerInv
<1>2. QED
  BY <1>1, ControllerInvStep, PTL DEF Spec

LEMMA InStep == CtrlInv => AdminInStep
<1> SUFFICES ASSUME CtrlInv, hpc = "ready"
             PROVE  /\ admin_q.exists /\ admin_q.sq = Prog.place /\ admin_q.cq = Prog.place
                    /\ admin_q.depth = Prog.depth
                    /\ {asq_mem[Prog.place][i] : i \in Elements(Taken, h_tail, Prog.depth)}
                         \cup {acq_mem[Prog.place][i].op : i \in Elements(h_head, admin_q.head, Prog.depth)} = flight
                    /\ Cardinality(Elements(Taken, h_tail, Prog.depth))
                         + Cardinality(Elements(h_head, admin_q.head, Prog.depth)) = Cardinality(flight)
                    /\ \A i \in Elements(h_head, admin_q.head, Prog.depth) :
                         acq_mem[Prog.place][i].phase = IF i >= h_head THEN h_phase ELSE 1 - h_phase
                    /\ NewCqe <=> Elements(h_head, admin_q.head, Prog.depth) # {}
  BY DEF AdminInStep
<1>1. /\ Prog = Now /\ admin_q.exists /\ admin_q.depth = Now.depth /\ admin_q.sq = Now.place /\ admin_q.cq = Now.place
      /\ Elements(h_head, admin_q.head, Now.depth) = Unread /\ Elements(Taken, h_tail, Now.depth) = Waiting
  BY ReadyIs
<1>2. /\ Asked \cup Answered = flight
      /\ Cardinality(Waiting) + Cardinality(Unread) = Cardinality(flight)
  BY DEF CtrlInv, OncePlaced
<1>3. Asked = {asq_mem[Now.place][i] : i \in Waiting} /\ Answered = {acq_mem[Now.place][i].op : i \in Unread}
  BY DEF Asked, AskedAt, Answered, AnsweredAt
<1>4. \A i \in Unread : acq_mem[Now.place][i].phase = IF i >= h_head THEN h_phase ELSE 1 - h_phase
  <2>1. Unread \subseteq 0 .. Now.depth - 1
    BY Sizes
  <2>2. QED
    BY <2>1 DEF CtrlInv, Phases
<1>5. NewCqe <=> Unread # {}
  BY NewCqeIs
<1>6. QED
  BY <1>1, <1>2, <1>3, <1>4, <1>5

LEMMA Live == CtrlInv => QueuesLive
<1> SUFFICES ASSUME CtrlInv PROVE QueuesLive
  OBVIOUS
<1>t. IoRing /\ PairStage /\ Backed
  BY DEF CtrlInv
<1>1. out # 0 => life = "up"
  BY <1>t DEF IoRing
<1>2. queued > 0 => cq.live
  <2>1. queued > 0 => out # 0
    BY OutIs
  <2>2. QED
    BY <1>1, <1>t, <2>1 DEF PairStage, Up
<1>3. ppc = "take" => sq.live /\ cq.live
  <2>1. CASE conf.fast
    BY <1>t, <2>1 DEF IoRing, PairStage, Up
  <2>2. CASE ~conf.fast
    <3>1. ppc = "take" => sq.shown /\ dpc = "io"
      BY <1>t, <2>2 DEF IoRing
    <3>2. ppc = "take" => sq.live /\ life \in {"cq", "up", "closing"}
      BY <1>t, <3>1 DEF PairStage, Up, Gone, Hidden, CtrlInv, Types, HostTypes, Lives
    <3>3. QED
      BY <1>t, <3>2 DEF PairStage, Up
  <2>3. QED
    BY <2>1, <2>2
<1>4. life = "up" => Cells = Elements(PollAt, io_tail, IoDepth)
  <2>1. Elements(PollAt, io_tail, IoDepth) = Between(PollAt, io_tail, IoDepth)
    BY IoTypes, ElementsAre
  <2>2. QED
    BY <1>t, <2>1 DEF IoRing
<1>5. ppc = "take" => \A i \in Elements(pat, pnew, IoDepth) : sq_mem[i] = "cmd"
  <2> SUFFICES ASSUME ppc = "take", NEW i \in Elements(pat, pnew, IoDepth) PROVE sq_mem[i] = "cmd"
    OBVIOUS
  <2>1. PollAt = pat /\ i \in Between(pat, pnew, IoDepth)
    BY IoTypes, ElementsAre DEF PollAt
  <2>2. i \in Between(PollAt, dbs.io, IoDepth)
    BY <1>t, <2>1 DEF IoRing
  <2>3. pat # pnew
    BY <2>1, IoTypes, Stretch
  <2>4. life = "up"
    BY <2>3, TakesCell
  <2>5. i \in Cells
    BY <1>t, <2>2, <2>4 DEF IoRing
  <2>6. QED
    BY <2>5 DEF Cells
<1>6. out = Cardinality(Cells) + queued
  BY OutIs
<1>7. QED
  BY <1>2, <1>3, <1>4, <1>5, <1>6, <1>t DEF QueuesLive, Cells, PollAt, Backed

LEMMA Typed == CtrlInv /\ RegistryInv /\ Bounded => CtrlTypeOK
<1> SUFFICES ASSUME CtrlInv, RegistryInv, Bounded PROVE CtrlTypeOK
  OBVIOUS
<1>t. HostTypes /\ RegTypes /\ PollTypes
  BY DEF CtrlInv, Types
<1>1. /\ region \in [Regions -> [stage : {"unused", "pinned", "mapped", "listed", "unlinked", "freed"},
                                 addr : Addrs \cup {NoRegion}, valid : BOOLEAN]]
      /\ ToSet(regions) \subseteq Regions /\ Len(regions) <= MaxRegions
      /\ lookup \subseteq Regions
      /\ grace \in [Regions -> SUBSET Readers]
      /\ reader \in [conf.readers -> [at : {"out", "in", "use", "scan", "lock"},
                                      addr : Addrs \cup {NoRegion}, found : Regions \cup {NoRegion}]]
      /\ ToSet(automap) \subseteq Addrs /\ Len(automap) <= AutoMax
  <2>1. ToSet(regions) \subseteq Regions
    BY Elems DEF RegistryInv, RegistryType
  <2>2. QED
    BY <2>1 DEF RegistryInv, RegistryType, Bounded, Region, Stages, ReaderState
<1>2. hpc = "ready" => admin_q.head < admin_q.depth /\ h_tail < Prog.depth /\ h_head < Prog.depth
  <2> SUFFICES ASSUME hpc = "ready" PROVE admin_q.head < admin_q.depth /\ h_tail < Prog.depth /\ h_head < Prog.depth
    OBVIOUS
  <2>1. Prog = Now /\ admin_q.depth = Now.depth
    BY ReadyIs
  <2>2. QED
    BY <2>1 DEF CtrlInv, InQueue
<1>3. admin_q.head < MaxDepth /\ dnew < MaxDepth /\ dat < MaxDepth
  <2>1. \A i \in Slots : i < MaxDepth
    BY Constants DEF Slots
  <2>2. QED
    BY <1>t, <2>1 DEF RegTypes, PollTypes
<1>4. dpc \in {"admin", "reset_db", "reset_old", "free_sq", "free_cq"} => Op \in Ops \/ dat = dnew
  BY OpIs DEF AdminPlaces
<1>5. out \in 0 .. IoDepth - 1 /\ queued \in 0 .. out
  <2>1. out \in IoSlots
    BY <1>t DEF HostTypes
  <2>2. queued \in 0 .. out
    BY OutIs
  <2>3. QED
    BY <2>1, <2>2 DEF IoSlots
<1>6. {sq.ptr, cq.ptr} \subseteq Regions \cup {"host"} /\ flight \subseteq Ops
  BY <1>t DEF PollTypes, IoQueue, HostTypes
<1>7. QED
  BY <1>1, <1>2, <1>3, <1>4, <1>5, <1>6 DEF CtrlTypeOK

\* While the host is at work the dispatcher's admin queue is the host's of this start, each command sent and not
\* yet dealt with is in one of the two rings, once, and the host finds by the phase exactly the completions posted
\* (nvmev_proc_bars, nvmev_proc_admin_sq), however often and wherever the controller was started before.
THEOREM AdminStaysInStep == Sound => (Spec => []AdminInStep)
BY ControllerHolds, InStep, PTL DEF ControllerInv

\* Whoever polls the I/O doorbell or answers a command finds a queue that is there, whose memory is registered, and
\* commands the host has written; each I/O is in the queue or on a work list (nvmev_proc_io_sq, __worker_poll_fast_path
\* against creation and deletion in admin.c).
THEOREM QueuesStayLive == Sound => (Spec => []QueuesLive)
BY ControllerHolds, Live, PTL DEF ControllerInv

\* Positions stay within the queue of this start, the registry within its table and cache, and the dispatcher never
\* meets a command it does not know, so that it gets through each admin command it has begun.
THEOREM ControllerTyped == Sound => (Spec => []CtrlTypeOK)
BY ControllerHolds, Typed, PTL DEF ControllerInv
=============================================================================
