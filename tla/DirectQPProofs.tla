--------------------------- MODULE DirectQPProofs ---------------------------
(***************************************************************************)
(* What holds of a queue pair of the direct provider for every number of   *)
(* reads and entries: the pages the controller may still write are mapped, *)
(* the count of reads under way is right, and the queue pair implements    *)
(* the provider's promise.                                                 *)
(***************************************************************************)
EXTENDS DirectQP, CursorTheorems, FiniteSetTheorems

Optional(S) == S \cup {None}

QpType ==
  /\ created \in BOOLEAN /\ free \in SUBSET Cids /\ mapped \in SUBSET Reads
  /\ cid_cookie \in [Cids -> Optional(Reads)]
  /\ ipc \in {"idle", "map", "doorbell"} /\ icid \in Cids /\ iread \in Optional(Reads)
  /\ sq \in [Entries -> [cid : Cids, of : Optional(Reads)]]
  /\ sq_tail \in Entries /\ sq_db \in Entries /\ sq_fetched \in Entries
  /\ commands \in SUBSET [cid : Cids, of : Reads]
  /\ cq \in [Entries -> [cid : Cids, of : Optional(Reads), phase : {0, 1}]]
  /\ cq_tail \in Entries /\ cq_head \in Entries /\ cq_db \in Entries
  /\ cq_tail_phase \in {0, 1} /\ cq_phase \in {0, 1}
  /\ rpc \in {"poll", "free", "upcall"} /\ rcid \in Cids
  /\ rdone \in Optional(Reads) /\ rof \in Optional(Reads) /\ advanced \in BOOLEAN
  /\ nv_inflight \in Int /\ answered \in SUBSET Reads

\* From one entry of a ring on to another.
Dist(a, b) == IF b >= a THEN b - a ELSE b - a + Qd

\* The entries with a command are those from the next to fetch up to the tail,
\* and the doorbell is at most the command being submitted behind.
SqRing ==
  /\ \A e \in Entries : sq[e].of # None <=> Dist(sq_fetched, e) < Dist(sq_fetched, sq_tail)
  /\ IF ipc = "doorbell" THEN After(sq_db) = sq_tail /\ sq_fetched # sq_tail ELSE sq_db = sq_tail

\* The entries with a completion are those from the reaper's head up to the tail,
\* the doorbell is behind the head, and the phase tells the lap.
CqRing ==
  /\ \A e \in Entries : cq[e].of # None <=> Dist(cq_head, e) < Dist(cq_head, cq_tail)
  /\ Dist(cq_db, cq_head) <= Dist(cq_db, cq_tail)
  /\ \A e \in Entries : cq[e].phase = IF e < cq_tail THEN cq_tail_phase ELSE 1 - cq_tail_phase
  /\ created => cq_phase = IF cq_head <= cq_tail THEN cq_tail_phase ELSE 1 - cq_tail_phase

\* Before the first read there is nothing.
Uncreated ==
  ~created => /\ free = {} /\ ipc = "idle" /\ rpc = "poll" /\ commands = {}
              /\ sq_fetched = sq_tail /\ cq_head = cq_tail /\ cq_tail_phase = 1

\* Where the reads under way are.
SqReads == {sq[e].of : e \in Entries} \ {None}
CommandReads == {c.of : c \in commands}
CqReads == {cq[e].of : e \in Entries} \ {None}

\* Each read under way is in one place only, and none is answered yet.
OnePlace ==
  /\ \A e, f \in Entries : sq[e].of # None /\ sq[e].of = sq[f].of => e = f
  /\ \A c, d \in commands : c.of = d.of => c = d
  /\ \A e, f \in Entries : cq[e].of # None /\ cq[e].of = cq[f].of => e = f
  /\ SqReads \cap CommandReads = {}
  /\ SqReads \cap CqReads = {}
  /\ CommandReads \cap CqReads = {}
  /\ rof \notin SqReads \cup CommandReads \cup CqReads
  /\ Held \cap answered = {}

\* The identifier of a command leads back to its read, and is not free.
CidsLive ==
  /\ \A e \in Entries : sq[e].of # None =>
       sq[e].cid \notin free /\ cid_cookie[sq[e].cid] = sq[e].of
  /\ \A c \in commands : c.cid \notin free /\ cid_cookie[c.cid] = c.of
  /\ \A e \in Entries : cq[e].of # None =>
       cq[e].cid \notin free /\ cid_cookie[cq[e].cid] = cq[e].of

\* What the issuer and the reaper have at hand.
HandsRight ==
  /\ ipc = "map" => /\ iread \in Reads \ (Held \cup answered)
                    /\ icid \notin free /\ cid_cookie[icid] = iread
  /\ rdone = rof /\ (rof = None <=> rpc = "poll")
  /\ rpc = "free" => rcid \notin free /\ cid_cookie[rcid] = rof

QpInv ==
  /\ QpType
  /\ SqRing
  /\ CqRing
  /\ Uncreated
  /\ OnePlace
  /\ CidsLive
  /\ HandsRight
  /\ MappedUntilReaped
  /\ InflightCounts
-----------------------------------------------------------------------------
(* Entries of a ring.                                                      *)

LEMMA Numbers ==
  /\ Qd \in Nat /\ Qd > 1 /\ Cids \subseteq Nat /\ Entries \subseteq Nat
  /\ 0 \in Cids /\ 0 \in Entries /\ Cids \subseteq Entries
  /\ IsFiniteSet(Reads) /\ None \notin Reads
BY QpAssumption DEF Cids, Entries

LEMMA AfterIs ==
  ASSUME NEW x \in Entries
  PROVE  After(x) \in Entries /\ After(x) = IF x + 1 < Qd THEN x + 1 ELSE 0
<1>1. x \in 0 .. Qd - 1 /\ 1 \in 0 .. Qd - 1 /\ Qd \in Nat \ {0}
  BY QpAssumption DEF Entries
<1>2. (x + 1) % Qd = IF x + 1 < Qd THEN x + 1 ELSE x + 1 - Qd
  BY <1>1, ModStep
<1>3. QED
  BY <1>1, <1>2 DEF After, Entries

LEMMA DistType ==
  ASSUME NEW a \in Entries, NEW b \in Entries
  PROVE  Dist(a, b) \in Entries
BY QpAssumption DEF Dist, Entries

\* A ring of tickets f..t that takes one more, and one that gives up its first.
LEMMA RingGrows ==
  ASSUME NEW f \in Entries, NEW t \in Entries, Dist(f, t) + 1 < Qd
  PROVE  /\ Dist(f, After(t)) = Dist(f, t) + 1
         /\ \A e \in Entries : Dist(f, e) < Dist(f, After(t)) <=> Dist(f, e) < Dist(f, t) \/ e = t
         /\ ~ (Dist(f, t) < Dist(f, t))
<1>1. After(t) \in Entries /\ After(t) = IF t + 1 < Qd THEN t + 1 ELSE 0
  BY AfterIs
<1>2. Dist(f, After(t)) = Dist(f, t) + 1
  BY <1>1, QpAssumption DEF Dist, Entries
<1>3. ASSUME NEW e \in Entries
      PROVE  Dist(f, e) < Dist(f, After(t)) <=> Dist(f, e) < Dist(f, t) \/ e = t
  BY <1>2, QpAssumption DEF Dist, Entries
<1>4. QED
  BY <1>2, <1>3, DistType DEF Entries

LEMMA RingShrinks ==
  ASSUME NEW f \in Entries, NEW t \in Entries, f # t
  PROVE  /\ Dist(After(f), t) = Dist(f, t) - 1
         /\ \A e \in Entries : Dist(After(f), e) < Dist(After(f), t) <=>
                               Dist(f, e) < Dist(f, t) /\ e # f
         /\ Dist(f, f) < Dist(f, t)
<1>1. After(f) \in Entries /\ After(f) = IF f + 1 < Qd THEN f + 1 ELSE 0
  BY AfterIs
<1>2. Dist(After(f), t) = Dist(f, t) - 1
  BY <1>1, QpAssumption DEF Dist, Entries
<1>3. ASSUME NEW e \in Entries
      PROVE  Dist(After(f), e) < Dist(After(f), t) <=> Dist(f, e) < Dist(f, t) /\ e # f
  <2>1. CASE e = f
    BY <1>1, <2>1, QpAssumption DEF Dist, Entries
  <2>2. CASE e # f
    BY <1>1, <1>2, <2>2, QpAssumption DEF Dist, Entries
  <2>3. QED
    BY <2>1, <2>2
<1>4. Dist(f, f) < Dist(f, t)
  BY QpAssumption DEF Dist, Entries
<1>5. QED
  BY <1>2, <1>3, <1>4
-----------------------------------------------------------------------------
(* The reads under way.                                                    *)

LEMMA HeldIs == Held = (SqReads \cup CommandReads \cup CqReads \cup {rof}) \ {None}
BY DEF Held, SqReads, CommandReads, CqReads

LEMMA HeldFinite ==
  ASSUME QpType
  PROVE  Held \subseteq Reads /\ IsFiniteSet(Held) /\ Cardinality(Held) \in Nat
<1>1. Held \subseteq Reads
  BY DEF Held, QpType, Optional
<1>2. QED
  BY <1>1, QpAssumption, FS_Subset, FS_CardinalityType

\* The submission queue never fills: its commands have identifiers of their own,
\* and the command being submitted one more (io_qd - 1 of them, qp_create).
LEMMA SqHasRoom ==
  ASSUME QpInv, ipc = "map"
  PROVE  Dist(sq_fetched, sq_tail) + 1 < Qd
<1> DEFINE Full == {e \in Entries : sq[e].of # None}
           n == Dist(sq_fetched, sq_tail)
           f == [e \in Full |-> sq[e].cid]
<1>0. /\ QpType /\ SqRing /\ OnePlace /\ CidsLive /\ HandsRight
      /\ n \in Entries /\ icid \in Cids
  BY DistType DEF QpInv, QpType
<1>1. IsFiniteSet(Entries) /\ IsFiniteSet(Cids) /\ Cardinality(Cids) = Qd - 1
  BY QpAssumption, FS_Interval DEF Entries, Cids
<1>2. /\ IsFiniteSet(Cids \ {icid}) /\ Cardinality(Cids \ {icid}) = Qd - 2
  <2>1. /\ IsFiniteSet(Cids \ {icid})
        /\ Cardinality(Cids \ {icid}) = Cardinality(Cids) - 1
    BY <1>0, <1>1, FS_RemoveElement
  <2>2. QED
    BY <1>1, <2>1, QpAssumption
<1>3. f \in Injection(Full, Cids \ {icid})
  <2>1. \A e \in Full : f[e] \in Cids \ {icid}
    <3>1. SUFFICES ASSUME NEW e \in Full PROVE sq[e].cid \in Cids /\ sq[e].cid # icid
      OBVIOUS
    <3>2. sq[e].of \in Held
      BY <3>1 DEF Held
    <3>3. iread # sq[e].of /\ cid_cookie[icid] = iread
      BY <1>0, <3>2 DEF HandsRight
    <3>4. QED
      BY <1>0, <3>1, <3>3 DEF QpType, CidsLive
  <2>2. \A d, e \in Full : f[d] = f[e] => d = e
    BY <1>0 DEF CidsLive, OnePlace
  <2>3. QED
    BY <2>1, <2>2, Zenon DEF Injection, IsInjective
<1>4. Cardinality(Full) <= Qd - 2 /\ IsFiniteSet(Full)
  BY <1>2, <1>3, FS_Injection
<1> DEFINE g == [e \in Full |-> Dist(sq_fetched, e)]
<1>5. g \in Surjection(Full, 0 .. n - 1)
  <2>1. g \in [Full -> 0 .. n - 1]
    <3>1. ASSUME NEW e \in Full PROVE Dist(sq_fetched, e) \in 0 .. n - 1
      <4>1. Dist(sq_fetched, e) \in Entries /\ Dist(sq_fetched, e) < n
        BY <1>0, DistType DEF SqRing, QpType
      <4>2. QED
        BY <1>0, <4>1 DEF Entries
    <3>2. QED
      BY <3>1
  <2>2. ASSUME NEW d \in 0 .. n - 1
        PROVE  \E e \in Full : g[e] = d
    <3> DEFINE e == IF sq_fetched + d < Qd THEN sq_fetched + d ELSE sq_fetched + d - Qd
    <3>1. e \in Entries /\ Dist(sq_fetched, e) = d /\ d < n
      BY <1>0, QpAssumption DEF Dist, Entries, QpType
    <3> HIDE DEF e, n
    <3>2. e \in Full
      BY <1>0, <3>1 DEF SqRing, n
    <3>3. QED
      BY <3>1, <3>2
  <2>3. QED
    BY <2>1, <2>2, Zenon DEF Surjection
<1>6. Cardinality(0 .. n - 1) <= Cardinality(Full)
  BY <1>4, <1>5, FS_Surjection
<1>7. Cardinality(0 .. n - 1) = n
  BY <1>0, FS_Interval DEF Entries
<1>8. Cardinality(Full) \in Nat
  BY <1>4, FS_CardinalityType
<1> HIDE DEF Full, n
<1>9. n + 1 < Qd
  BY <1>0, <1>4, <1>6, <1>7, <1>8, QpAssumption DEF Entries
<1>10. QED
  BY <1>9 DEF n
-----------------------------------------------------------------------------
(* A ring whose entry changes hands, seen as the set of reads in it.       *)

LEMMA Put ==
  ASSUME NEW q, NEW p, NEW e \in Entries, NEW r,
         q[e].of = None, p[e].of = r, r # None,
         \A x \in Entries \ {e} : p[x].of = q[x].of
  PROVE  {p[x].of : x \in Entries} \ {None} =
           ({q[x].of : x \in Entries} \ {None}) \cup {r}
<1>1. \A x \in Entries : p[x].of = IF x = e THEN r ELSE q[x].of
  OBVIOUS
<1>2. QED
  BY <1>1

LEMMA Take ==
  ASSUME NEW q, NEW p, NEW e \in Entries, q[e].of # None, p[e].of = None,
         \A x \in Entries \ {e} : p[x].of = q[x].of,
         \A x, y \in Entries : q[x].of # None /\ q[x].of = q[y].of => x = y
  PROVE  {p[x].of : x \in Entries} \ {None} =
           ({q[x].of : x \in Entries} \ {None}) \ {q[e].of}
<1>1. \A x \in Entries : p[x].of = IF x = e THEN None ELSE q[x].of
  OBVIOUS
<1>2. QED
  BY <1>1

\* What the invariant says of the places, in terms of the reads in them.
PlacesView ==
  /\ Held = SqReads \cup CommandReads \cup CqReads \cup ({rof} \ {None})
  /\ MappedUntilReaped <=> SqReads \cup CommandReads \cup CqReads \subseteq mapped
  /\ None \notin SqReads \cup CommandReads \cup CqReads
  /\ Held \subseteq Reads /\ IsFiniteSet(Held) /\ Cardinality(Held) \in Nat

LEMMA Places == QpType => PlacesView
<1> SUFFICES ASSUME QpType PROVE PlacesView
  OBVIOUS
<1>1. None \notin CommandReads
  BY QpAssumption DEF CommandReads, QpType
<1>2. Held = SqReads \cup CommandReads \cup CqReads \cup ({rof} \ {None})
  BY <1>1, HeldIs DEF SqReads, CqReads
<1>3. AtController \ {None} = SqReads \cup CommandReads \cup CqReads
  BY <1>1 DEF AtController, SqReads, CommandReads, CqReads
<1>4. QED
  BY <1>1, <1>2, <1>3, HeldFinite DEF PlacesView, SqReads, CqReads, MappedUntilReaped

LEMMA PlacesNext == QpType' => PlacesView'
BY Places, PTL

\* While a read waits to be mapped its identifier belongs to no other command.
LEMMA IcidApart ==
  ASSUME QpInv, ipc = "map"
  PROVE  /\ \A e \in Entries : sq[e].of # None => sq[e].cid # icid
         /\ \A c \in commands : c.cid # icid
         /\ \A e \in Entries : cq[e].of # None => cq[e].cid # icid
         /\ rpc = "free" => rcid # icid
<1>1. \A r \in Held : r # cid_cookie[icid]
  BY DEF QpInv, HandsRight
<1>2. QpType /\ CidsLive /\ HandsRight
  BY DEF QpInv
<1>3. \A e \in Entries : sq[e].of # None => sq[e].of \in Held
  BY DEF Held
<1>4. \A c \in commands : c.of \in Held
  BY <1>2, QpAssumption DEF Held, QpType
<1>5. \A e \in Entries : cq[e].of # None => cq[e].of \in Held
  BY DEF Held
<1>6. rpc = "free" => rof \in Held
  BY <1>2 DEF Held, HandsRight
<1>7. QED
  BY <1>1, <1>2, <1>3, <1>4, <1>5, <1>6 DEF CidsLive, HandsRight
-----------------------------------------------------------------------------
(* The invariant is inductive.                                             *)

LEMMA InitOk == Init => QpInv
<1> SUFFICES ASSUME Init PROVE QpInv
  OBVIOUS
<1>0. NoSqe \in [cid : Cids, of : Optional(Reads)]
      /\ NoCqe \in [cid : Cids, of : Optional(Reads), phase : {0, 1}]
  BY Numbers DEF Optional, NoSqe, NoCqe
<1>1. QpType
  <2>1. cid_cookie \in [Cids -> Optional(Reads)]
    BY DEF Init, Optional
  <2>2. /\ sq \in [Entries -> [cid : Cids, of : Optional(Reads)]]
        /\ cq \in [Entries -> [cid : Cids, of : Optional(Reads), phase : {0, 1}]]
    BY <1>0 DEF Init
  <2>3. free \in SUBSET Cids /\ mapped \in SUBSET Reads /\ answered \in SUBSET Reads
        /\ commands \in SUBSET [cid : Cids, of : Reads]
    BY DEF Init
  <2>4. /\ created \in BOOLEAN /\ advanced \in BOOLEAN
        /\ ipc \in {"idle", "map", "doorbell"} /\ icid \in Cids /\ iread \in Optional(Reads)
        /\ rpc \in {"poll", "free", "upcall"} /\ rcid \in Cids
        /\ rdone \in Optional(Reads) /\ rof \in Optional(Reads)
    BY Numbers DEF Init, Optional
  <2>5. /\ sq_tail \in Entries /\ sq_db \in Entries /\ sq_fetched \in Entries
        /\ cq_tail \in Entries /\ cq_head \in Entries /\ cq_db \in Entries
        /\ cq_tail_phase \in {0, 1} /\ cq_phase \in {0, 1} /\ nv_inflight \in Int
    BY Numbers DEF Init
  <2>6. QED
    BY <2>1, <2>2, <2>3, <2>4, <2>5 DEF QpType
<1>2. SqReads = {} /\ CommandReads = {} /\ CqReads = {} /\ rof = None
  BY DEF Init, SqReads, CommandReads, CqReads, NoSqe, NoCqe
<1>3. Held = {}
  BY <1>1, <1>2, Places DEF PlacesView
<1>4. SqRing /\ CqRing
  BY Numbers DEF Init, SqRing, CqRing, Dist, NoSqe, NoCqe
<1>5. Uncreated
  BY DEF Init, Uncreated
<1>6. OnePlace
  BY <1>2, <1>3 DEF Init, OnePlace, NoSqe, NoCqe
<1>7. CidsLive /\ HandsRight
  BY DEF Init, CidsLive, HandsRight, NoSqe, NoCqe
<1>8. MappedUntilReaped
  BY <1>1, <1>2, Places DEF PlacesView
<1>9. InflightCounts
  BY <1>3, FS_EmptySet DEF Init, InflightCounts
<1>10. QED
  BY <1>1, <1>4, <1>5, <1>6, <1>7, <1>8, <1>9 DEF QpInv

\* The reads in a place that a step leaves alone.
LEMMA PlacesFrame ==
  /\ UNCHANGED sq => SqReads' = SqReads
  /\ UNCHANGED commands => CommandReads' = CommandReads
  /\ UNCHANGED cq => CqReads' = CqReads
  /\ UNCHANGED <<sq, commands, cq, rof>> =>
       Held' = Held /\ Cardinality(Held)' = Cardinality(Held)
<1>1. UNCHANGED <<sq, commands, cq, rof>> => Held' = Held
  BY DEF Held
<1>2. QED
  BY <1>1 DEF SqReads, CommandReads, CqReads

\* Where a step moves no read, the places stay right.
LEMMA PlacesKept ==
  ASSUME QpInv, UNCHANGED <<sq, commands, cq, rof, answered, mapped, nv_inflight>>
  PROVE  OnePlace' /\ MappedUntilReaped' /\ InflightCounts' /\ Held' = Held
<1>1. /\ SqReads' = SqReads /\ CommandReads' = CommandReads /\ CqReads' = CqReads
      /\ Held' = Held /\ Cardinality(Held)' = Cardinality(Held)
  BY PlacesFrame
<1>2. OnePlace'
  BY <1>1 DEF QpInv, OnePlace
<1>3. MappedUntilReaped'
  BY DEF QpInv, MappedUntilReaped, AtController
<1>4. QED
  BY <1>1, <1>2, <1>3 DEF QpInv, InflightCounts

\* A ring whose cursors meet is empty.
LEMMA EmptyRings ==
  ASSUME QpInv
  PROVE  /\ sq_fetched = sq_tail => \A e \in Entries : sq[e].of = None
         /\ cq_head = cq_tail => \A e \in Entries : cq[e].of = None
<1>1. \A a, b \in Entries : ~ (Dist(a, b) < Dist(a, a))
  BY QpAssumption DEF Dist, Entries
<1>2. QED
  BY <1>1 DEF QpInv, QpType, SqRing, CqRing

LEMMA CreateKeeps ==
  ASSUME QpInv, Create
  PROVE  QpInv'
<1>1. QpType'
  BY DEF QpInv, QpType, Create, issuerVars, deviceVars
<1>2. SqRing'
  BY DEF QpInv, Create, issuerVars, deviceVars, SqRing
<1>3. /\ ~created /\ rpc = "poll" /\ commands = {} /\ cq_head = cq_tail /\ cq_tail_phase = 1
      /\ \A e \in Entries : sq[e].of = None /\ cq[e].of = None
  BY EmptyRings DEF QpInv, Create, Uncreated
<1>4. CqRing'
  BY <1>3, Numbers DEF QpInv, QpType, Create, deviceVars, CqRing
<1>5. Uncreated'
  BY DEF Create, Uncreated
<1>6. OnePlace' /\ MappedUntilReaped' /\ InflightCounts'
  BY PlacesKept DEF Create, issuerVars, deviceVars
<1>7. CidsLive' /\ HandsRight'
  BY <1>3 DEF QpInv, Create, issuerVars, deviceVars, CidsLive, HandsRight
<1>8. QED
  BY <1>1, <1>2, <1>4, <1>5, <1>6, <1>7 DEF QpInv

LEMMA AllocCidKeeps ==
  ASSUME QpInv, NEW r \in Reads, AllocCid(r)
  PROVE  QpInv'
<1>1. PICK cid \in free : /\ free' = free \ {cid}
                          /\ cid_cookie' = [cid_cookie EXCEPT ![cid] = r]
                          /\ icid' = cid
  BY DEF AllocCid
<1>2. QpType'
  BY <1>1 DEF QpInv, QpType, AllocCid, deviceVars, reaperVars, Optional
<1>3. SqRing' /\ CqRing' /\ Uncreated'
  BY DEF QpInv, AllocCid, deviceVars, reaperVars, SqRing, CqRing, Uncreated
<1>4. /\ OnePlace' /\ MappedUntilReaped' /\ InflightCounts'
      /\ Held' = Held
  BY PlacesKept DEF AllocCid, deviceVars, reaperVars
<1>5. cid \in Cids /\ \A c \in Cids : c # cid => cid_cookie'[c] = cid_cookie[c]
  BY <1>1 DEF QpInv, QpType
<1>6. CidsLive'
  BY <1>1, <1>5 DEF QpInv, QpType, AllocCid, deviceVars, CidsLive
<1>7. HandsRight'
  BY <1>1, <1>4, <1>5 DEF QpInv, QpType, AllocCid, reaperVars, HandsRight
<1>8. QED
  BY <1>2, <1>3, <1>4, <1>6, <1>7 DEF QpInv

LEMMA MapFailsKeeps ==
  ASSUME QpInv, MapFails
  PROVE  QpInv'
<1>1. QpType'
  BY Numbers DEF QpInv, QpType, MapFails, deviceVars, reaperVars, Optional
<1>2. SqRing' /\ CqRing' /\ Uncreated'
  BY DEF QpInv, MapFails, deviceVars, reaperVars, SqRing, CqRing, Uncreated
<1>3. OnePlace' /\ MappedUntilReaped' /\ InflightCounts'
  BY PlacesKept DEF MapFails, deviceVars, reaperVars
<1>4. CidsLive' /\ HandsRight'
  BY IcidApart DEF QpInv, MapFails, deviceVars, reaperVars, CidsLive, HandsRight
<1>5. QED
  BY <1>1, <1>2, <1>3, <1>4 DEF QpInv

LEMMA DoorbellKeeps ==
  ASSUME QpInv, Doorbell
  PROVE  QpInv'
<1>1. QpType'
  BY Numbers DEF QpInv, QpType, Doorbell, deviceVars, reaperVars, Optional
<1>2. SqRing' /\ CqRing' /\ Uncreated'
  BY DEF QpInv, Doorbell, deviceVars, reaperVars, SqRing, CqRing, Uncreated
<1>3. OnePlace' /\ MappedUntilReaped' /\ InflightCounts'
  BY PlacesKept DEF Doorbell, deviceVars, reaperVars
<1>4. CidsLive' /\ HandsRight'
  BY DEF QpInv, Doorbell, deviceVars, reaperVars, CidsLive, HandsRight
<1>5. QED
  BY <1>1, <1>2, <1>3, <1>4 DEF QpInv

LEMMA MapKeeps ==
  ASSUME QpInv, Map
  PROVE  QpInv' /\ Held' = Held \cup {iread} /\ iread \in Reads \ (Held \cup answered)
<1>0. /\ QpType /\ ipc = "map" /\ ipc' = "doorbell" /\ PlacesView
      /\ iread \in Reads \ (Held \cup answered) /\ iread # None
      /\ icid \notin free /\ cid_cookie[icid] = iread
  BY Places, QpAssumption DEF QpInv, Map, HandsRight
<1> DEFINE new == [cid |-> icid, of |-> iread]
<1>1. /\ new \in [cid : Cids, of : Optional(Reads)] /\ new.of = iread /\ new.cid = icid
      /\ sq' = [sq EXCEPT ![sq_tail] = new] /\ sq_tail \in Entries
  BY <1>0 DEF QpType, Optional, Map
<1> HIDE DEF new
<1>2. /\ sq'[sq_tail] = new
      /\ \A e \in Entries : e # sq_tail => sq'[e] = sq[e]
      /\ sq' \in [Entries -> [cid : Cids, of : Optional(Reads)]]
  BY <1>0, <1>1 DEF QpType
<1>3. QpType'
  BY <1>0, <1>2, AfterIs DEF QpType, Map, NextTail, deviceVars, reaperVars
<1>4. Dist(sq_fetched, sq_tail) + 1 < Qd /\ sq_tail' = After(sq_tail)
  BY <1>0, SqHasRoom DEF Map, NextTail
<1>5. /\ Dist(sq_fetched, sq_tail') = Dist(sq_fetched, sq_tail) + 1
      /\ \A e \in Entries : Dist(sq_fetched, e) < Dist(sq_fetched, sq_tail') <=>
                            Dist(sq_fetched, e) < Dist(sq_fetched, sq_tail) \/ e = sq_tail
      /\ sq[sq_tail].of = None
  BY <1>0, <1>4, RingGrows DEF QpType, QpInv, SqRing
<1>6. SqRing'
  <2>1. UNCHANGED <<sq_fetched, sq_db>>
    BY DEF Map, deviceVars
  <2>2. \A e \in Entries : sq'[e].of # None <=> Dist(sq_fetched, e) < Dist(sq_fetched, sq_tail')
    BY <1>0, <1>1, <1>2, <1>5 DEF QpInv, SqRing
  <2>3. sq_fetched # sq_tail'
    BY <1>0, <1>5, DistType, QpAssumption DEF Dist, Entries, QpType
  <2>4. QED
    BY <1>0, <1>4, <2>1, <2>2, <2>3 DEF QpInv, SqRing
<1>7. CqRing' /\ Uncreated'
  BY DEF QpInv, Map, deviceVars, reaperVars, CqRing, Uncreated
<1>8. SqReads' = SqReads \cup {iread}
  BY <1>0, <1>1, <1>2, <1>5, Put DEF SqReads
<1>9. CommandReads' = CommandReads /\ CqReads' = CqReads /\ UNCHANGED <<commands, cq, rof, answered>>
  BY PlacesFrame DEF Map, deviceVars, reaperVars
<1>10. PlacesView'
  BY <1>3, PlacesNext
<1>11. Held' = Held \cup {iread}
  BY <1>0, <1>8, <1>9, <1>10 DEF PlacesView
<1>12. OnePlace'
  <2>1. \A e \in Entries : sq[e].of = iread => FALSE
    BY <1>0 DEF PlacesView, SqReads
  <2>2. \A e, f \in Entries : sq'[e].of # None /\ sq'[e].of = sq'[f].of => e = f
    BY <1>1, <1>2, <2>1 DEF QpInv, OnePlace
  <2>3. iread \notin CommandReads \cup CqReads /\ iread # rof
    BY <1>0 DEF PlacesView
  <2>4. QED
    BY <1>0, <1>8, <1>9, <1>11, <2>2, <2>3 DEF QpInv, OnePlace
<1>13. CidsLive'
  BY <1>0, <1>1, <1>2, <1>9 DEF QpInv, CidsLive, Map
<1>14. HandsRight'
  BY <1>0 DEF QpInv, HandsRight, Map, reaperVars
<1>15. MappedUntilReaped'
  BY <1>0, <1>8, <1>9, <1>10 DEF QpInv, PlacesView, Map
<1>16. InflightCounts'
  <2>1. Cardinality(Held \cup {iread}) = Cardinality(Held) + 1
    BY <1>0, FS_AddElement DEF PlacesView
  <2>2. QED
    BY <1>11, <2>1 DEF QpInv, InflightCounts, Map
<1>17. QED
  BY <1>0, <1>3, <1>6, <1>7, <1>11, <1>12, <1>13, <1>14, <1>15, <1>16 DEF QpInv

LEMMA FetchKeeps ==
  ASSUME QpInv, Fetch
  PROVE  QpInv' /\ Held' = Held
<1>0. QpType /\ PlacesView /\ sq_fetched \in Entries /\ sq_tail \in Entries /\ sq_db \in Entries
  BY Places DEF QpInv, QpType
<1>1. sq_fetched # sq_tail /\ sq_fetched # sq_db
  BY DEF QpInv, Fetch, SqRing
<1>2. /\ \A e \in Entries : Dist(After(sq_fetched), e) < Dist(After(sq_fetched), sq_tail) <=>
                            Dist(sq_fetched, e) < Dist(sq_fetched, sq_tail) /\ e # sq_fetched
      /\ Dist(sq_fetched, sq_fetched) < Dist(sq_fetched, sq_tail)
  BY <1>0, <1>1, RingShrinks
<1> DEFINE c == sq[sq_fetched]
<1>3. c.of # None /\ c \in [cid : Cids, of : Reads]
  <2>1. c.of # None /\ c \in [cid : Cids, of : Optional(Reads)]
    BY <1>0, <1>2 DEF QpInv, SqRing, QpType
  <2>2. QED
    BY <2>1 DEF Optional
<1>4. /\ sq'[sq_fetched] = NoSqe
      /\ \A e \in Entries : e # sq_fetched => sq'[e] = sq[e]
      /\ sq' \in [Entries -> [cid : Cids, of : Optional(Reads)]]
      /\ commands' = commands \cup {c}
      /\ NoSqe.of = None
  <2>1. NoSqe \in [cid : Cids, of : Optional(Reads)] /\ NoSqe.of = None
    BY Numbers DEF NoSqe, Optional
  <2>2. QED
    BY <1>0, <2>1 DEF Fetch, QpType
<1> HIDE DEF c
<1>5. QpType'
  BY <1>0, <1>3, <1>4, AfterIs DEF QpType, Fetch, reaperVars
<1>6. SqRing'
  <2>1. /\ sq_fetched' = After(sq_fetched)
        /\ UNCHANGED <<sq_tail, sq_db, ipc>>
    BY DEF Fetch
  <2>2. \A e \in Entries : sq'[e].of # None <=>
                           Dist(After(sq_fetched), e) < Dist(After(sq_fetched), sq_tail)
    BY <1>2, <1>4 DEF QpInv, SqRing
  <2>3. ipc = "doorbell" => After(sq_fetched) # sq_tail
    <3>1. SUFFICES ASSUME ipc = "doorbell" PROVE After(sq_fetched) # sq_tail
      OBVIOUS
    <3>2. After(sq_db) = sq_tail
      BY <3>1 DEF QpInv, SqRing
    <3>3. QED
      BY <1>0, <1>1, <3>2, AfterIs, QpAssumption DEF Entries
  <2>4. QED
    BY <2>1, <2>2, <2>3 DEF QpInv, SqRing
<1>7. CqRing' /\ Uncreated'
  BY <1>1 DEF QpInv, Fetch, reaperVars, CqRing, Uncreated
<1>8. SqReads' = SqReads \ {c.of}
  BY <1>0, <1>3, <1>4, Take DEF SqReads, QpInv, OnePlace, c
<1>9. CommandReads' = CommandReads \cup {c.of} /\ c.of \in SqReads
  BY <1>0, <1>3, <1>4 DEF CommandReads, SqReads, c
<1>10. CqReads' = CqReads /\ UNCHANGED <<cq, rof, answered, mapped>>
  BY PlacesFrame DEF Fetch, reaperVars
<1>11. PlacesView'
  BY <1>5, PlacesNext
<1>12. Held' = Held
  BY <1>0, <1>8, <1>9, <1>10, <1>11 DEF PlacesView
<1>13. OnePlace'
  <2>1. \A e, f \in Entries : sq'[e].of # None /\ sq'[e].of = sq'[f].of => e = f
    BY <1>4 DEF QpInv, OnePlace
  <2>2. \A a \in commands : a.of # c.of
    BY <1>9 DEF QpInv, OnePlace, CommandReads
  <2>3. \A a, b \in commands' : a.of = b.of => a = b
    BY <1>4, <2>2 DEF QpInv, OnePlace
  <2>4. QED
    BY <1>8, <1>9, <1>10, <1>12, <2>1, <2>3 DEF QpInv, OnePlace
<1>14. CidsLive'
  BY <1>0, <1>3, <1>4, <1>10 DEF QpInv, CidsLive, Fetch, c
<1>15. HandsRight'
  BY <1>12 DEF QpInv, HandsRight, Fetch, reaperVars
<1>16. MappedUntilReaped'
  BY <1>0, <1>8, <1>9, <1>10, <1>11 DEF QpInv, PlacesView
<1>17. InflightCounts'
  BY <1>12 DEF QpInv, InflightCounts, Fetch
<1>18. QED
  BY <1>5, <1>6, <1>7, <1>12, <1>13, <1>14, <1>15, <1>16, <1>17 DEF QpInv

\* The completion queue takes one more: the phase of the entry written is new.
LEMMA PostRing ==
  ASSUME QpInv, NEW c \in commands, Post(c)
  PROVE  CqRing' /\ cq[cq_tail].of = None
<1>0. /\ QpType /\ cq_tail \in Entries /\ cq_head \in Entries /\ cq_db \in Entries
      /\ CqRing
  BY DEF QpInv, QpType
<1>1. /\ After(cq_tail) # cq_db /\ cq_tail' = After(cq_tail)
      /\ cq_tail_phase' = IF After(cq_tail) = 0 THEN 1 - cq_tail_phase ELSE cq_tail_phase
      /\ UNCHANGED <<cq_head, cq_db, cq_phase, created>>
  BY DEF Post, reaperVars
<1>2. After(cq_tail) = IF cq_tail + 1 < Qd THEN cq_tail + 1 ELSE 0
  BY <1>0, AfterIs
<1>3. Dist(cq_head, cq_tail) + 1 < Qd
  BY <1>0, <1>1, <1>2, QpAssumption DEF CqRing, Dist, Entries
<1>4. /\ \A e \in Entries : Dist(cq_head, e) < Dist(cq_head, After(cq_tail)) <=>
                            Dist(cq_head, e) < Dist(cq_head, cq_tail) \/ e = cq_tail
      /\ ~ (Dist(cq_head, cq_tail) < Dist(cq_head, cq_tail))
  BY <1>0, <1>3, RingGrows
<1>5. /\ cq'[cq_tail].of = c.of /\ cq'[cq_tail].phase = cq_tail_phase
      /\ \A e \in Entries : e # cq_tail => cq'[e] = cq[e]
      /\ c.of # None
  BY <1>0, QpAssumption DEF Post, QpType
<1>6. \A e \in Entries : cq'[e].of # None <=> Dist(cq_head, e) < Dist(cq_head, After(cq_tail))
  BY <1>0, <1>4, <1>5 DEF CqRing
<1>7. Dist(cq_db, cq_head) <= Dist(cq_db, After(cq_tail))
  BY <1>0, <1>1, <1>2, QpAssumption DEF CqRing, Dist, Entries
<1>8. ASSUME NEW e \in Entries
      PROVE  cq'[e].phase = IF e < cq_tail' THEN cq_tail_phase' ELSE 1 - cq_tail_phase'
  <2>1. cq[e].phase = IF e < cq_tail THEN cq_tail_phase ELSE 1 - cq_tail_phase
    BY <1>0 DEF CqRing
  <2>2. CASE e = cq_tail
    BY <1>0, <1>1, <1>2, <1>5, <2>2, QpAssumption DEF Entries, QpType
  <2>3. CASE e # cq_tail
    BY <1>0, <1>1, <1>2, <1>5, <2>1, <2>3, QpAssumption DEF Entries, QpType
  <2>4. QED
    BY <2>2, <2>3
<1>9. created => cq_phase = IF cq_head <= cq_tail' THEN cq_tail_phase' ELSE 1 - cq_tail_phase'
  <2>1. created => cq_phase = IF cq_head <= cq_tail THEN cq_tail_phase ELSE 1 - cq_tail_phase
    BY <1>0 DEF CqRing
  <2>2. QED
    BY <1>0, <1>1, <1>2, <1>3, <2>1, QpAssumption DEF Entries, Dist, QpType
<1>10. cq[cq_tail].of = None
  BY <1>0, <1>4 DEF CqRing
<1>11. QED
  BY <1>1, <1>6, <1>7, <1>8, <1>9, <1>10 DEF CqRing

LEMMA PostKeeps ==
  ASSUME QpInv, NEW c \in commands, Post(c)
  PROVE  QpInv' /\ Held' = Held
<1>0. /\ QpType /\ PlacesView /\ cq_tail \in Entries /\ c \in [cid : Cids, of : Reads]
      /\ c.of # None /\ c.of \in CommandReads
  BY Places, QpAssumption DEF QpInv, QpType, CommandReads
<1> DEFINE new == [cid |-> c.cid, of |-> c.of, phase |-> cq_tail_phase]
<1>1. /\ new \in [cid : Cids, of : Optional(Reads), phase : {0, 1}]
      /\ new.of = c.of /\ new.cid = c.cid
      /\ cq' = [cq EXCEPT ![cq_tail] = new] /\ commands' = commands \ {c}
  BY <1>0 DEF QpType, Optional, Post
<1> HIDE DEF new
<1>2. /\ cq'[cq_tail] = new
      /\ \A e \in Entries : e # cq_tail => cq'[e] = cq[e]
      /\ cq' \in [Entries -> [cid : Cids, of : Optional(Reads), phase : {0, 1}]]
  BY <1>0, <1>1 DEF QpType
<1>3. QpType'
  <2>1. cq_tail_phase' \in {0, 1} /\ cq_tail' \in Entries
    BY <1>0, AfterIs DEF Post, QpType
  <2>2. QED
    BY <1>0, <1>1, <1>2, <2>1 DEF QpType, Post, issuerVars, reaperVars
<1>4. CqRing' /\ cq[cq_tail].of = None
  BY PostRing
<1>5. SqRing'
  BY DEF QpInv, SqRing, Post, issuerVars
<1>6. Uncreated'
  BY DEF QpInv, Uncreated, Post
<1>7. CqReads' = CqReads \cup {c.of}
  BY <1>0, <1>1, <1>2, <1>4, Put DEF CqReads
<1>8. CommandReads' = CommandReads \ {c.of}
  BY <1>1 DEF CommandReads, QpInv, OnePlace
<1>9. SqReads' = SqReads /\ UNCHANGED <<sq, rof, answered, mapped>>
  BY PlacesFrame DEF Post, issuerVars, reaperVars
<1>10. PlacesView'
  BY <1>3, PlacesNext
<1>11. Held' = Held
  BY <1>0, <1>7, <1>8, <1>9, <1>10 DEF PlacesView
<1>12. OnePlace'
  <2>1. \A e \in Entries : cq[e].of # c.of
    BY <1>0 DEF QpInv, OnePlace, CqReads
  <2>2. \A e, f \in Entries : cq'[e].of # None /\ cq'[e].of = cq'[f].of => e = f
    BY <1>1, <1>2, <2>1 DEF QpInv, OnePlace
  <2>3. c.of \notin SqReads \cup CqReads /\ c.of # rof
    BY <1>0 DEF QpInv, OnePlace
  <2>4. QED
    BY <1>1, <1>7, <1>8, <1>9, <1>11, <2>2, <2>3 DEF QpInv, OnePlace
<1>13. CidsLive'
  BY <1>0, <1>1, <1>2, <1>9 DEF QpInv, CidsLive, Post
<1>14. HandsRight'
  BY <1>11 DEF QpInv, HandsRight, Post, issuerVars, reaperVars
<1>15. MappedUntilReaped'
  BY <1>0, <1>7, <1>8, <1>9, <1>10 DEF QpInv, PlacesView
<1>16. InflightCounts'
  BY <1>11 DEF QpInv, InflightCounts, Post
<1>17. QED
  BY <1>3, <1>4, <1>5, <1>6, <1>11, <1>12, <1>13, <1>14, <1>15, <1>16 DEF QpInv

\* The phase tells the reaper that there is a completion, and the identifier
\* leads to its read.
LEMMA HitIsRight ==
  ASSUME QpInv, PollHit
  PROVE  /\ cq_head # cq_tail /\ rof = None
         /\ cq[cq_head].of # None /\ cq[cq_head].of \in CqReads
         /\ cq[cq_head].cid \notin free /\ cid_cookie[cq[cq_head].cid] = cq[cq_head].of
<1>0. /\ QpType /\ CqRing /\ cq_head \in Entries /\ cq_tail \in Entries
      /\ created /\ cq[cq_head].phase = cq_phase
  BY DEF QpInv, QpType, PollHit, Hit
<1>1. cq_head # cq_tail
  <2>1. cq[cq_head].phase = IF cq_head < cq_tail THEN cq_tail_phase ELSE 1 - cq_tail_phase
    BY <1>0 DEF CqRing
  <2>2. cq_phase = IF cq_head <= cq_tail THEN cq_tail_phase ELSE 1 - cq_tail_phase
    BY <1>0 DEF CqRing
  <2>3. cq_tail \in Int /\ cq_head \in Int /\ cq_tail_phase \in {0, 1}
    BY <1>0, QpAssumption DEF QpType, Entries
  <2>4. ASSUME cq_head = cq_tail PROVE FALSE
    <3>1. ~ (cq_head < cq_tail) /\ cq_head <= cq_tail
      BY <2>3, <2>4
    <3>2. cq[cq_head].phase = 1 - cq_tail_phase /\ cq_phase = cq_tail_phase
      BY <2>1, <2>2, <3>1, Zenon
    <3>3. cq_tail_phase = 1 - cq_tail_phase
      BY <1>0, <3>2, Zenon
    <3>4. QED
      BY <2>3, <3>3
  <2>5. QED
    BY <2>4
<1>2. cq[cq_head].of # None
  BY <1>0, <1>1, RingShrinks DEF CqRing
<1>3. QED
  BY <1>0, <1>1, <1>2 DEF QpInv, CidsLive, CqReads, HandsRight, PollHit

LEMMA PollHitRing ==
  ASSUME QpInv, PollHit
  PROVE  CqRing'
<1>0. /\ QpType /\ CqRing /\ cq_head \in Entries /\ cq_tail \in Entries /\ cq_db \in Entries
      /\ cq_head # cq_tail
  BY HitIsRight DEF QpInv, QpType
<1>1. /\ cq_head' = After(cq_head)
      /\ cq_phase' = IF After(cq_head) = 0 THEN 1 - cq_phase ELSE cq_phase
      /\ UNCHANGED <<cq_tail, cq_tail_phase, cq_db, created>>
  BY DEF PollHit, NextPhase
<1>2. After(cq_head) = IF cq_head + 1 < Qd THEN cq_head + 1 ELSE 0
  BY <1>0, AfterIs
<1>3. /\ Dist(After(cq_head), cq_tail) = Dist(cq_head, cq_tail) - 1
      /\ \A e \in Entries : Dist(After(cq_head), e) < Dist(After(cq_head), cq_tail) <=>
                            Dist(cq_head, e) < Dist(cq_head, cq_tail) /\ e # cq_head
  BY <1>0, RingShrinks
<1>4. /\ cq'[cq_head].of = None
      /\ \A e \in Entries : cq'[e].phase = cq[e].phase
      /\ \A e \in Entries : e # cq_head => cq'[e] = cq[e]
  BY <1>0 DEF PollHit, QpType
<1>5. \A e \in Entries : cq'[e].of # None <=>
                         Dist(After(cq_head), e) < Dist(After(cq_head), cq_tail)
  BY <1>0, <1>3, <1>4 DEF CqRing
<1>6. Dist(cq_db, After(cq_head)) <= Dist(cq_db, cq_tail)
  BY <1>0, <1>2, QpAssumption DEF CqRing, Dist, Entries
<1>7. created => cq_phase' = IF cq_head' <= cq_tail THEN cq_tail_phase ELSE 1 - cq_tail_phase
  BY <1>0, <1>1, <1>2, QpAssumption DEF CqRing, Entries, QpType
<1>8. QED
  BY <1>0, <1>1, <1>4, <1>5, <1>6, <1>7 DEF CqRing

LEMMA PollHitKeeps ==
  ASSUME QpInv, PollHit
  PROVE  QpInv' /\ Held' = Held
<1> DEFINE r == cq[cq_head].of
<1>0. /\ QpType /\ PlacesView /\ cq_head \in Entries /\ rof = None
      /\ r # None /\ r \in CqReads /\ r \in Reads
      /\ cq[cq_head].cid \in Cids \ free /\ cid_cookie[cq[cq_head].cid] = r
  BY HitIsRight, Places DEF QpInv, QpType, PlacesView
<1>1. /\ cq'[cq_head].of = None
      /\ \A e \in Entries : e # cq_head => cq'[e] = cq[e]
      /\ cq' \in [Entries -> [cid : Cids, of : Optional(Reads), phase : {0, 1}]]
  <2> DEFINE old == [cid |-> 0, of |-> None, phase |-> cq[cq_head].phase]
  <2>1. cq' = [cq EXCEPT ![cq_head] = old]
    BY <1>0 DEF PollHit, QpType
  <2>2. old \in [cid : Cids, of : Optional(Reads), phase : {0, 1}] /\ old.of = None
    BY <1>0, Numbers DEF QpType, Optional
  <2> HIDE DEF old
  <2>3. QED
    BY <1>0, <2>1, <2>2 DEF QpType
<1>2. /\ rpc' = "free" /\ rof' = r /\ rdone' = r /\ mapped' = mapped \ {r}
      /\ rcid' = cq[cq_head].cid
  BY <1>0 DEF PollHit
<1>3. CqReads' = CqReads \ {r}
  BY <1>0, <1>1, Take DEF CqReads, QpInv, OnePlace
<1> HIDE DEF r
<1>4. QpType'
  <2>1. cq_head' \in Entries /\ cq_phase' \in {0, 1}
    BY <1>0, AfterIs DEF PollHit, NextPhase, QpType
  <2>2. QED
    BY <1>0, <1>1, <1>2, <2>1 DEF QpType, PollHit, issuerVars, Optional
<1>5. CqRing'
  BY PollHitRing
<1>6. SqRing'
  BY DEF QpInv, SqRing, PollHit, issuerVars
<1>7. Uncreated'
  BY DEF QpInv, Uncreated, PollHit, Hit
<1>8. /\ SqReads' = SqReads /\ CommandReads' = CommandReads
      /\ UNCHANGED <<sq, commands, answered, free, cid_cookie>>
  BY PlacesFrame DEF PollHit, issuerVars
<1>9. PlacesView'
  BY <1>4, PlacesNext
<1>10. Held' = Held
  BY <1>0, <1>2, <1>3, <1>8, <1>9 DEF PlacesView
<1>11. r \notin SqReads \cup CommandReads
  BY <1>0 DEF QpInv, OnePlace
<1>12. OnePlace'
  <2>1. \A e, f \in Entries : cq'[e].of # None /\ cq'[e].of = cq'[f].of => e = f
    BY <1>1 DEF QpInv, OnePlace
  <2>2. QED
    BY <1>2, <1>3, <1>8, <1>10, <1>11, <2>1 DEF QpInv, OnePlace
<1>13. CidsLive'
  BY <1>1, <1>8 DEF QpInv, CidsLive
<1>14. HandsRight'
  <2>1. UNCHANGED <<ipc, iread, icid>>
    BY DEF PollHit, issuerVars
  <2>2. QED
    BY <1>0, <1>2, <1>8, <1>10, <2>1 DEF QpInv, HandsRight
<1>15. MappedUntilReaped'
  BY <1>0, <1>2, <1>3, <1>8, <1>9, <1>11 DEF QpInv, PlacesView
<1>16. InflightCounts'
  BY <1>10 DEF QpInv, InflightCounts, PollHit
<1>17. QED
  BY <1>4, <1>5, <1>6, <1>7, <1>10, <1>12, <1>13, <1>14, <1>15, <1>16 DEF QpInv

\* The identifier in the reaper's hand is of no command.
LEMMA RcidApart ==
  ASSUME QpInv, rpc = "free"
  PROVE  /\ \A e \in Entries : sq[e].of # None => sq[e].cid # rcid
         /\ \A c \in commands : c.cid # rcid
         /\ \A e \in Entries : cq[e].of # None => cq[e].cid # rcid
         /\ ipc = "map" => icid # rcid
<1>1. cid_cookie[rcid] = rof /\ rof \notin SqReads \cup CommandReads \cup CqReads
  BY DEF QpInv, HandsRight, OnePlace
<1>2. ipc = "map" => icid # rcid
  BY IcidApart
<1>3. QED
  BY <1>1, <1>2 DEF QpInv, CidsLive, SqReads, CommandReads, CqReads

LEMMA FreeCidKeeps ==
  ASSUME QpInv, FreeCid
  PROVE  QpInv' /\ Held' = Held
<1>1. QpType'
  BY DEF QpInv, QpType, FreeCid, issuerVars, deviceVars
<1>2. SqRing' /\ CqRing' /\ Uncreated'
  BY DEF QpInv, FreeCid, issuerVars, deviceVars, SqRing, CqRing, Uncreated
<1>3. OnePlace' /\ MappedUntilReaped' /\ InflightCounts' /\ Held' = Held
  BY PlacesKept DEF FreeCid, issuerVars, deviceVars
<1>4. CidsLive' /\ HandsRight'
  BY <1>3, RcidApart DEF QpInv, FreeCid, issuerVars, deviceVars, CidsLive, HandsRight
<1>5. QED
  BY <1>1, <1>2, <1>3, <1>4 DEF QpInv

LEMMA UpcallKeeps ==
  ASSUME QpInv, Upcall
  PROVE  QpInv' /\ rof \in Held /\ Held' = Held \ {rof} /\ answered' = answered \cup {rof}
<1>0. /\ QpType /\ PlacesView /\ rof # None /\ rdone = rof /\ rof' = None /\ rdone' = None
      /\ rof \notin SqReads \cup CommandReads \cup CqReads
      /\ UNCHANGED <<sq, commands, cq, mapped, free, cid_cookie, ipc, icid, iread>>
      /\ rpc' = "poll"
  BY Places DEF QpInv, HandsRight, Upcall, issuerVars, deviceVars, OnePlace
<1>1. QpType'
  BY <1>0, Numbers DEF QpType, Upcall, issuerVars, deviceVars, Optional
<1>2. SqRing' /\ CqRing' /\ Uncreated'
  BY DEF QpInv, Upcall, issuerVars, deviceVars, SqRing, CqRing, Uncreated
<1>3. SqReads' = SqReads /\ CommandReads' = CommandReads /\ CqReads' = CqReads
  BY <1>0, PlacesFrame
<1>4. PlacesView'
  BY <1>1, PlacesNext
<1>5. rof \in Held /\ Held' = Held \ {rof} /\ answered' = answered \cup {rof}
  BY <1>0, <1>3, <1>4 DEF PlacesView, Upcall
<1>6. OnePlace'
  BY <1>0, <1>3, <1>4, <1>5 DEF QpInv, OnePlace, PlacesView
<1>7. CidsLive'
  BY <1>0 DEF QpInv, CidsLive
<1>8. HandsRight'
  BY <1>0, <1>5 DEF QpInv, HandsRight
<1>9. MappedUntilReaped'
  BY <1>0, <1>3, <1>4 DEF QpInv, PlacesView
<1>10. InflightCounts'
  <2>0. IsFiniteSet(Held) /\ rof \in Held
    BY <1>0, <1>5 DEF PlacesView
  <2>1. Cardinality(Held \ {rof}) = Cardinality(Held) - 1
    BY <2>0, FS_RemoveElement
  <2>2. QED
    BY <1>5, <2>1 DEF QpInv, InflightCounts, Upcall
<1>11. QED
  BY <1>1, <1>2, <1>5, <1>6, <1>7, <1>8, <1>9, <1>10 DEF QpInv

LEMMA PollMissKeeps ==
  ASSUME QpInv, PollMiss
  PROVE  QpInv' /\ Held' = Held
<1>1. QpType'
  BY DEF QpInv, QpType, PollMiss, issuerVars, deviceVars
<1>2. SqRing' /\ Uncreated'
  BY DEF QpInv, PollMiss, issuerVars, deviceVars, SqRing, Uncreated
<1>3. CqRing'
  <2>1. Dist(cq_head, cq_head) <= Dist(cq_head, cq_tail)
    BY QpAssumption DEF QpInv, QpType, Dist, Entries
  <2>2. QED
    BY <2>1 DEF QpInv, PollMiss, deviceVars, CqRing
<1>4. OnePlace' /\ MappedUntilReaped' /\ InflightCounts' /\ Held' = Held
  BY PlacesKept DEF PollMiss, issuerVars, deviceVars
<1>5. CidsLive' /\ HandsRight'
  BY <1>4 DEF QpInv, PollMiss, issuerVars, deviceVars, CidsLive, HandsRight
<1>6. QED
  BY <1>1, <1>2, <1>3, <1>4, <1>5 DEF QpInv

LEMMA ReuseKeeps ==
  ASSUME QpInv, NEW r \in Reads, Reuse(r)
  PROVE  QpInv' /\ Held' = Held
<1>1. /\ answered' = answered \ {r}
      /\ UNCHANGED <<created, free, cid_cookie, mapped, ipc, icid, iread, sq, sq_tail, sq_db,
           sq_fetched, commands, cq, cq_tail, cq_tail_phase, cq_head, cq_phase, cq_db,
           rpc, rcid, rdone, rof, advanced, nv_inflight>>
  BY DEF Reuse, issuerVars, deviceVars, reaperVars
<1>2. QpType'
  BY <1>1 DEF QpInv, QpType
<1>3. SqRing' /\ CqRing' /\ Uncreated' /\ CidsLive'
  BY <1>1 DEF QpInv, SqRing, CqRing, Uncreated, CidsLive
<1>4. /\ SqReads' = SqReads /\ CommandReads' = CommandReads /\ CqReads' = CqReads
      /\ Held' = Held /\ Cardinality(Held)' = Cardinality(Held)
  BY <1>1, PlacesFrame
<1>5. OnePlace' /\ HandsRight' /\ MappedUntilReaped' /\ InflightCounts'
  BY <1>1, <1>4 DEF QpInv, OnePlace, HandsRight, MappedUntilReaped, AtController, InflightCounts
<1>6. QED
  BY <1>2, <1>3, <1>4, <1>5 DEF QpInv

LEMMA NextKeeps == QpInv /\ [Next]_vars => QpInv'
<1> SUFFICES ASSUME QpInv, [Next]_vars PROVE QpInv'
  OBVIOUS
<1>1. CASE Create
  BY <1>1, CreateKeeps
<1>2. CASE Issuer
  BY <1>2, MapFailsKeeps, MapKeeps, DoorbellKeeps DEF Issuer
<1>3. CASE Reaper
  BY <1>3, PollHitKeeps, FreeCidKeeps, UpcallKeeps, PollMissKeeps DEF Reaper
<1>4. CASE Fetch
  BY <1>4, FetchKeeps
<1>5. CASE \E r \in Reads : AllocCid(r) \/ Reuse(r)
  BY <1>5, AllocCidKeeps, ReuseKeeps
<1>6. CASE \E c \in commands : Post(c)
  BY <1>6, PostKeeps
<1>7. CASE UNCHANGED vars
  <2>1. UNCHANGED <<created, free, cid_cookie, mapped, ipc, icid, iread, sq, sq_tail, sq_db,
          sq_fetched, commands, cq, cq_tail, cq_tail_phase, cq_head, cq_phase, cq_db,
          rpc, rcid, rdone, rof, advanced, nv_inflight, answered>>
    BY <1>7 DEF vars, issuerVars, deviceVars, reaperVars
  <2>2. QpType' /\ SqRing' /\ CqRing' /\ Uncreated' /\ CidsLive'
    BY <2>1 DEF QpInv, QpType, SqRing, CqRing, Uncreated, CidsLive
  <2>3. OnePlace' /\ MappedUntilReaped' /\ InflightCounts' /\ Held' = Held
    BY <2>1, PlacesKept
  <2>4. HandsRight'
    BY <2>1, <2>3 DEF QpInv, HandsRight
  <2>5. QED
    BY <2>2, <2>3, <2>4 DEF QpInv
<1>8. QED
  BY <1>1, <1>2, <1>3, <1>4, <1>5, <1>6, <1>7 DEF Next

LEMMA InvHolds == Spec => []QpInv
BY InitOk, NextKeeps, PTL DEF Spec

\* A page stays mapped for DMA as long as the controller may write it: the
\* submission queue never wraps onto a command not fetched, no identifier is
\* handed out twice, and so the reaper unmaps the page of the read completed.
THEOREM PagesMapped == Spec => []MappedUntilReaped
<1>1. QpInv => MappedUntilReaped
  BY DEF QpInv
<1>2. QED
  BY <1>1, InvHolds, PTL

\* The count backend_direct_exit waits on is the number of reads under way in
\* every state; it is never negative and never misses a read.
THEOREM CountRight == Spec => []InflightCounts
<1>1. QpInv => InflightCounts
  BY DEF QpInv
<1>2. QED
  BY <1>1, InvHolds, PTL
-----------------------------------------------------------------------------
(* The provider's promise.                                                 *)

\* Mapping the page accepts the read, the upcall answers it with its own cookie;
\* every other step but the reuse of an answered read is none of the promise's.
LEMMA StepPromised ==
  ASSUME QpInv, [Next]_vars
  PROVE  [Backend!Next]_<<Held, answered>>
<1>1. CASE Create \/ MapFails \/ Doorbell
  <2>1. UNCHANGED <<sq, commands, cq, rof, answered>>
    BY <1>1 DEF Create, MapFails, Doorbell, issuerVars, deviceVars, reaperVars
  <2>2. QED
    BY <2>1, PlacesFrame
<1>2. CASE Map
  <2>1. Held' = Held \cup {iread} /\ iread \in Reads \ (Held \cup answered)
    BY <1>2, MapKeeps
  <2>2. UNCHANGED answered
    BY <1>2 DEF Map
  <2>3. Backend!Accept(iread)
    BY <2>1, <2>2 DEF Backend!Accept
  <2>4. QED
    BY <2>1, <2>3 DEF Backend!Next
<1>3. CASE PollHit \/ FreeCid \/ PollMiss
  <2>1. Held' = Held
    BY <1>3, PollHitKeeps, FreeCidKeeps, PollMissKeeps
  <2>2. UNCHANGED answered
    BY <1>3 DEF PollHit, FreeCid, PollMiss
  <2>3. QED
    BY <2>1, <2>2
<1>4. CASE Upcall
  <2>1. rof \in Held /\ Held' = Held \ {rof} /\ answered' = answered \cup {rof}
    BY <1>4, UpcallKeeps
  <2>2. rof \in Reads
    BY <2>1, Places DEF QpInv, PlacesView
  <2>3. Backend!Answer(rof)
    BY <2>1 DEF Backend!Answer
  <2>4. QED
    BY <2>2, <2>3 DEF Backend!Next
<1>5. CASE Fetch
  <2>1. Held' = Held /\ UNCHANGED answered
    BY <1>5, FetchKeeps DEF Fetch
  <2>2. QED
    BY <2>1
<1>6. ASSUME NEW r \in Reads, AllocCid(r) PROVE UNCHANGED <<Held, answered>>
  <2>1. UNCHANGED <<sq, commands, cq, rof, answered>>
    BY <1>6 DEF AllocCid, deviceVars, reaperVars
  <2>2. QED
    BY <2>1, PlacesFrame
<1>7. ASSUME NEW r \in Reads, Reuse(r) PROVE Backend!Reuse(r)
  BY <1>7, ReuseKeeps DEF Reuse, Backend!Reuse
<1>8. ASSUME NEW c \in commands, Post(c) PROVE UNCHANGED <<Held, answered>>
  BY <1>8, PostKeeps DEF Post
<1>9. CASE UNCHANGED vars
  <2>1. UNCHANGED <<sq, commands, cq, rof, answered>>
    BY <1>9 DEF vars, issuerVars, deviceVars, reaperVars
  <2>2. QED
    BY <2>1, PlacesFrame
<1>10. QED
  BY <1>1, <1>2, <1>3, <1>4, <1>5, <1>6, <1>7, <1>8, <1>9
    DEF Next, Issuer, Reaper, Backend!Next

LEMMA InitPromised == Init => Backend!Init
<1> SUFFICES ASSUME Init PROVE Backend!Init
  OBVIOUS
<1>1. Held = {}
  BY DEF Init, Held, NoSqe, NoCqe
<1>2. QED
  BY <1>1 DEF Init, Backend!Init

\* The queue pair implements the provider's promise for every number of reads
\* and entries: each read accepted gets one upcall, with its own cookie.
THEOREM BackendImplemented == Spec => ImplementsBackend
<1>1. Init => Backend!Init
  BY InitPromised
<1>2. QpInv /\ [Next]_vars => [Backend!Next]_(Backend!vars)
  BY StepPromised DEF Backend!vars
<1>3. QED
  BY <1>1, <1>2, InvHolds, PTL DEF Spec, ImplementsBackend, Backend!Spec
=============================================================================
