--------------------------- MODULE GpuPullProofs ----------------------------
(***************************************************************************)
(* Theorems about the GPU-pull plane, for any number of rows, shards,      *)
(* output slots, staging buffers and warps and for cursors that wrap: a    *)
(* drained batch has landed whole, each row from its own page, unless its  *)
(* own read failed or was refused, and a staging buffer is not reused      *)
(* while the GPU will read it for a descriptor it has not gathered.  They  *)
(* need a descriptor ring with one producer: split roles with a provider   *)
(* that refuses reads are left out.                                        *)
(***************************************************************************)
EXTENDS GpuPull, CursorTheorems, FiniteSetTheorems, WellFoundedInduction

\* Distances along a shard's ring: from the published tail to the block's own,
\* from there to the head, and to the head the block knows of.
Lag(sh) == Wrap(s_tail[sh] - tail[sh])
Live(sh) == Wrap(head[sh] - s_tail[sh])
Known(sh) == Wrap(s_head[sh] - s_tail[sh])
CellOf(sh, i) == Wrap(s_tail[sh] + i) % Ring

\* Tail, block and head follow each other within one lap of the ring; what a
\* block knows of the head is between its tail and the head, or read again.
CursorsOrdered(sh) ==
  /\ Lag(sh) + Live(sh) <= Ring
  /\ bpc[sh] = "off" => s_tail[sh] = tail[sh]
  /\ bpc[sh] = "look" => s_tail[sh] >= s_head[sh] \/ Known(sh) <= Live(sh)
  /\ bpc[sh] \in {"gather", "advance"} => Known(sh) \in 1 .. Live(sh)
  /\ bpc[sh] = "gather" => todo[sh] \subseteq 0 .. Gathered(sh) - 1

\* The cells that hold a descriptor are those of rows not gathered yet.
CellsFilled(sh) ==
  \A c \in Cells : gdesc[sh][c] # NoDesc <=> \E i \in Ungathered(sh) : c = CellOf(sh, i)

\* What TypeOK says, without the bound on what a slot counts.
Typed ==
  /\ HostType /\ ModuleType
  /\ tail \in [Shards -> 0 .. conf.modulus - 1] /\ s_tail \in [Shards -> 0 .. conf.modulus - 1]
  /\ s_head \in [Shards -> 0 .. conf.modulus - 1] /\ pub \in [Shards -> 0 .. conf.modulus - 1]
  /\ bpc \in [Shards -> {"off", "look", "gather", "advance"}]
  /\ todo \in [Shards -> SUBSET (0 .. Warps - 1)]
  /\ g_done \in [0 .. Depth - 1 -> Nat]
  /\ out \in [Rows -> Pages \cup {Stale, NoPage}] /\ failed \subseteq Rows

RingInv == Typed /\ \A sh \in Shards : CursorsOrdered(sh) /\ CellsFilled(sh)

\* The rows that wait for a read or to be delivered, and those on the ring.
Asked(sh) == {r \in Rows : \E b \in Bufs : r \in buf[sh][b].waiters}
OnRing(sh) == {r \in Rows : \E c \in Cells : gdesc[sh][c].row = r}
Under(sh) == rq[sh] \cup Asked(sh) \cup OnRing(sh)
Out == toPush \cup {r \in Rows : \E sh \in Shards : r \in Under(sh)}

\* Each row under way is in one place, of its own shard.
Placed(sh) ==
  /\ \A r \in Under(sh) : r \in conf.rows /\ ShardOf(r) = sh /\ r \notin toPush
  /\ rq[sh] \cap Asked(sh) = {} /\ rq[sh] \cap OnRing(sh) = {} /\ Asked(sh) \cap OnRing(sh) = {}
  /\ \A b, x \in Bufs : b # x => buf[sh][b].waiters \cap buf[sh][x].waiters = {}
  /\ \A c, d \in Cells : gdesc[sh][c].row = gdesc[sh][d].row /\ gdesc[sh][c] # NoDesc => c = d

\* Rows wait for a buffer exactly from issue to delivery.
WaitersKept(sh) ==
  \A b \in Bufs : buf[sh][b].waiters = {} <=> buf[sh][b].state \in {"free", "held"}

PlaceInv ==
  /\ RingInv
  /\ toPush \subseteq RowsOf(slot) /\ (toPush # {} => hpc = "push")
  /\ \A sh \in Shards : Placed(sh) /\ WaitersKept(sh)

\* An output slot in use: being pushed, or pushed and not drained.  Its count
\* is the number of its rows that are no longer under way.
Busy(s) == s \in pending \/ (hpc = "push" /\ slot = s)
Remaining(s) == Cardinality(Out \cap RowsOf(s))
Counted ==
  \A s \in 0 .. Depth - 1 :
    /\ ~Busy(s) => Out \cap RowsOf(s) = {}
    /\ g_done[s] + Remaining(s) <= Cardinality(RowsOf(s))
    /\ Busy(s) => g_done[s] + Remaining(s) = Cardinality(RowsOf(s))

\* The kernel runs while a batch is drained, or fetched; a block that has left
\* it has seen the batch complete.
KernelRuns == hpc = "pull" \/ (hpc = "push" /\ conf.overlap)
BlocksLeave ==
  /\ ~KernelRuns => AllBlocksLeft
  /\ hpc = "pull" => slot \in pending
  /\ KernelRuns => \A sh \in Shards : bpc[sh] = "off" => TargetReached

\* With split roles the reaper and the issuer both have rows to enqueue only if
\* an asynchronous provider refuses reads.
OneProducer == \A c \in Configs : c.split => c.sync \/ ~c.refuse

\* Then one of them at a time has a page to deliver, and knows the head.
Alone(sh) ==
  /\ \A by \in Producers : seen[sh][by] \subseteq {head[sh]}
  /\ seen[sh]["issuer"] = {} \/ seen[sh]["reaper"] = {}
  /\ ilist[sh] = <<>> => seen[sh]["issuer"] = {}
  /\ rlist[sh] = <<>> => seen[sh]["reaper"] = {}
  /\ kpc[sh] = "issue" => rlist[sh] = <<>>
  /\ ilist[sh] # <<>> => IF conf.split THEN conf.sync ELSE kpc[sh] = "issue"
  /\ conf.sync => /\ rlist[sh] = <<>> /\ done_list[sh] = <<>>
                  /\ \A b \in Bufs : buf[sh][b].state # "reading"

\* What a lap takes up is still waiting.
Windowed(sh) == window[sh] \subseteq rq[sh]

PullInv == PlaceInv /\ Counted /\ BlocksLeave /\ \A sh \in Shards : Alone(sh) /\ Windowed(sh)

\* No provider that reads at once: there a buffer is free as soon as its last
\* row is on the ring, and the run gpu_pull_sync shows it reused too early.
Asynchronous == \A c \in Configs : ~c.sync

\* What is completed or refused and not delivered is in one list, once; its
\* data, if the read went well, are its waiters' page.
ListsKept(sh) ==
  /\ DOMAIN ilist[sh] \subseteq {1}
  /\ \A i \in DOMAIN ilist[sh] : buf[sh][ilist[sh][i]].state = "error"
  /\ \A i \in DOMAIN ilist[sh], j \in DOMAIN rlist[sh] : ilist[sh][i] # rlist[sh][j]
  /\ \A i \in DOMAIN ilist[sh], j \in DOMAIN done_list[sh] : ilist[sh][i] # done_list[sh][j]
  /\ \A i \in DOMAIN rlist[sh] : buf[sh][rlist[sh][i]].state \in {"done", "error"}
  /\ \A i \in DOMAIN done_list[sh] : buf[sh][done_list[sh][i]].state \in {"done", "error"}
  /\ \A i, j \in DOMAIN rlist[sh] : rlist[sh][i] = rlist[sh][j] => i = j
  /\ \A i, j \in DOMAIN done_list[sh] : done_list[sh][i] = done_list[sh][j] => i = j
  /\ \A i \in DOMAIN rlist[sh], j \in DOMAIN done_list[sh] : rlist[sh][i] # done_list[sh][j]

DataKept(sh) ==
  \A b \in Bufs :
    /\ \A r, q \in buf[sh][b].waiters : PageOf[r] = PageOf[q]
    /\ buf[sh][b].state = "done" => \A r \in buf[sh][b].waiters : buf[sh][b].data = PageOf[r]
    /\ buf[sh][b].state = "error" => buf[sh][b].waiters \subseteq failed

\* The buffer a row not gathered yet will be read from is in delivery, or held
\* with a watermark beyond that row.
Kept(sh, i, d) ==
  /\ buf[sh][d.buf].state \in {"held", "done"}
  /\ buf[sh][d.buf].state = "held" => Wrap(buf[sh][d.buf].wm - s_tail[sh]) \in i + 1 .. Live(sh)
  /\ buf[sh][d.buf].data = PageOf[d.row]

Watermarked(sh) ==
  \A i \in Ungathered(sh) :
    LET d == gdesc[sh][CellOf(sh, i)]
    IN  IF d.ok THEN Kept(sh, i, d) ELSE d.row \in failed

\* A row of a slot in use has landed as soon as it is no longer under way.
Landed ==
  \A s \in 0 .. Depth - 1 : Busy(s) =>
    \A r \in RowsOf(s) : IF r \in Out THEN out[r] = Stale
                         ELSE out[r] = PageOf[r] \/ (r \in failed /\ out[r] = Stale)

HeldInv ==
  /\ PullInv
  /\ \A sh \in Shards : ListsKept(sh) /\ DataKept(sh) /\ Watermarked(sh)
  /\ Landed
-----------------------------------------------------------------------------
(* Cursors.                                                                 *)

LEMMA ConfFacts ==
  ASSUME HostType
  PROVE  /\ conf.modulus \in Nat \ {0} /\ Ring \in Nat \ {0}
         /\ conf.modulus % Ring = 0 /\ conf.modulus >= 2 * Ring
         /\ conf.rows \in SUBSET Rows /\ conf.overlap \in BOOLEAN
<1>1. conf \in Configs /\ conf \in Config
  BY PullAssumption DEF HostType
<1>2. conf.modulus % conf.ring = 0 /\ conf.modulus >= 2 * conf.ring
  BY <1>1, PullAssumption
<1>3. conf.modulus \in Nat \ {0} /\ conf.ring \in Nat \ {0} /\ conf.rows \in SUBSET Rows /\ conf.overlap \in BOOLEAN
  BY <1>1 DEF Config
<1>4. QED
  BY <1>2, <1>3 DEF Ring

\* Distances without division.
LEMMA Distance ==
  ASSUME NEW m \in Nat \ {0}, NEW a \in 0 .. m - 1, NEW b \in 0 .. m - 1
  PROVE  (a - b) % m = IF a >= b THEN a - b ELSE a - b + m
BY ModStep

LEMMA Onward ==
  ASSUME NEW m \in Nat \ {0}, NEW a \in 0 .. m - 1, NEW x \in 0 .. m - 1
  PROVE  /\ (a + x) % m = IF a + x < m THEN a + x ELSE a + x - m
         /\ (a + x) % m \in 0 .. m - 1
<1>1. (a + x) % m = IF a + x < m THEN a + x ELSE a + x - m
  BY ModStep
<1>2. QED
  BY <1>1

\* The leading cursor moves on, the trailing one does, and a third between.
LEMMA Ahead ==
  ASSUME NEW m \in Nat \ {0}, NEW a \in 0 .. m - 1, NEW b \in 0 .. m - 1, NEW x \in 0 .. m - 1,
         ((a - b) % m) + x < m
  PROVE  (((a + x) % m) - b) % m = ((a - b) % m) + x
<1> DEFINE c == (a + x) % m
<1>1. c \in 0 .. m - 1 /\ c = IF a + x < m THEN a + x ELSE a + x - m
  BY Onward
<1>2. (a - b) % m = IF a >= b THEN a - b ELSE a - b + m
  BY Distance
<1> HIDE DEF c
<1>3. (c - b) % m = IF c >= b THEN c - b ELSE c - b + m
  BY <1>1, Distance
<1>4. (c - b) % m = ((a - b) % m) + x
  BY <1>1, <1>2, <1>3
<1>5. QED
  BY <1>4 DEF c

LEMMA Behind ==
  ASSUME NEW m \in Nat \ {0}, NEW a \in 0 .. m - 1, NEW b \in 0 .. m - 1, NEW x \in 0 .. m - 1,
         x <= (a - b) % m
  PROVE  (a - ((b + x) % m)) % m = ((a - b) % m) - x
<1> DEFINE c == (b + x) % m
<1>1. c \in 0 .. m - 1 /\ c = IF b + x < m THEN b + x ELSE b + x - m
  BY Onward
<1>2. (a - b) % m = IF a >= b THEN a - b ELSE a - b + m
  BY Distance
<1> HIDE DEF c
<1>3. (a - c) % m = IF a >= c THEN a - c ELSE a - c + m
  BY <1>1, Distance
<1>4. (a - c) % m = ((a - b) % m) - x
  BY <1>1, <1>2, <1>3
<1>5. QED
  BY <1>4 DEF c

LEMMA LiesBetween ==
  ASSUME NEW m \in Nat \ {0}, NEW a \in 0 .. m - 1, NEW b \in 0 .. m - 1, NEW c \in 0 .. m - 1,
         ((c - b) % m) + ((a - c) % m) < m
  PROVE  (a - b) % m = ((c - b) % m) + ((a - c) % m)
<1>1. (a - b) % m = IF a >= b THEN a - b ELSE a - b + m
  BY Distance
<1>2. (c - b) % m = IF c >= b THEN c - b ELSE c - b + m
  BY Distance
<1>3. (a - c) % m = IF a >= c THEN a - c ELSE a - c + m
  BY Distance
<1>4. QED
  BY <1>1, <1>2, <1>3

\* The way back is what the way there leaves of a turn.
LEMMA Opposite ==
  ASSUME NEW m \in Nat \ {0}, NEW a \in 0 .. m - 1, NEW b \in 0 .. m - 1, (a - b) % m > 0
  PROVE  (b - a) % m = m - ((a - b) % m)
<1>1. (a - b) % m = IF a >= b THEN a - b ELSE a - b + m
  BY Distance
<1>2. (b - a) % m = IF b >= a THEN b - a ELSE b - a + m
  BY Distance
<1>3. QED
  BY <1>1, <1>2

\* A turn is a whole number of laps: wrapping a position does not move its cell.
LEMMA CellWraps ==
  ASSUME NEW e \in Nat \ {0}, NEW m \in Nat \ {0}, m % e = 0, NEW x \in Int
  PROVE  (x % m) % e = x % e
<1>1. PICK k \in Int : m = e * k
  BY LapsPerTurn
<1>2. PICK q \in Int, r \in 0 .. m - 1 : x = m * q + r /\ x % m = r
  BY ModSplit, Zenon
<1>3. x = r + e * (k * q) /\ r \in Int /\ k * q \in Int
  <2>1. m * q = e * (k * q)
    BY <1>1
  <2>2. k * q \in Int /\ r \in Int
    OBVIOUS
  <2>3. e * (k * q) \in Int
    BY <2>2
  <2>4. QED
    BY <1>2, <2>1, <2>2, <2>3
<1>4. (r + e * (k * q)) % e = r % e
  BY <1>3, ModTurn, Zenon
<1>5. QED
  BY <1>2, <1>3, <1>4, Zenon

\* Cells of a shard's ring: in it, apart within a lap, and the one at the head.
LEMMA CellIs ==
  ASSUME Typed, NEW sh \in Shards, NEW i \in Int
  PROVE  CellOf(sh, i) = (s_tail[sh] + i) % Ring /\ CellOf(sh, i) \in Cells
<1>1. conf.modulus \in Nat \ {0} /\ Ring \in Nat \ {0} /\ conf.modulus % Ring = 0
  BY ConfFacts DEF Typed
<1>2. s_tail[sh] + i \in Int
  BY <1>1 DEF Typed
<1>3. ((s_tail[sh] + i) % conf.modulus) % Ring = (s_tail[sh] + i) % Ring
  BY <1>1, <1>2, CellWraps
<1>4. (s_tail[sh] + i) % Ring \in 0 .. Ring - 1
  BY <1>1, <1>2, ModRange
<1>5. QED
  BY <1>3, <1>4, Zenon DEF CellOf, Wrap, Cells

LEMMA CellsApart ==
  ASSUME Typed, NEW sh \in Shards, NEW i \in 0 .. Ring - 1, NEW j \in 0 .. Ring - 1, i # j
  PROVE  CellOf(sh, i) # CellOf(sh, j)
<1>1. conf.modulus \in Nat \ {0} /\ Ring \in Nat \ {0}
  BY ConfFacts DEF Typed
<1>2. ASSUME NEW x \in 0 .. Ring - 1, NEW y \in 0 .. Ring - 1, x < y
      PROVE  CellOf(sh, x) # CellOf(sh, y)
  <2>1. /\ s_tail[sh] + x \in Int /\ s_tail[sh] + y \in Int
        /\ s_tail[sh] + x < s_tail[sh] + y /\ s_tail[sh] + y < s_tail[sh] + x + Ring
    BY <1>1, <1>2 DEF Typed
  <2>2. (s_tail[sh] + x) % Ring # (s_tail[sh] + y) % Ring
    BY <1>1, <2>1, ModApart
  <2>3. x \in Int /\ y \in Int
    BY <1>1
  <2>4. QED
    BY <2>2, <2>3, CellIs, Zenon
<1>3. i < j \/ j < i
  BY <1>1
<1>4. QED
  BY <1>2, <1>3

LEMMA HeadCell ==
  ASSUME Typed, NEW sh \in Shards
  PROVE  head[sh] % Ring = CellOf(sh, Live(sh))
<1> DEFINE m == conf.modulus
           a == head[sh]
           b == s_tail[sh]
<1>1. m \in Nat \ {0} /\ a \in 0 .. m - 1 /\ b \in 0 .. m - 1
  BY ConfFacts DEF Typed, ModuleType
<1>2. (a - b) % m = IF a >= b THEN a - b ELSE a - b + m
  BY <1>1, Distance
<1>3. (a - b) % m \in 0 .. m - 1
  BY <1>1, <1>2
<1>4. (b + ((a - b) % m)) % m = a
  <2>1. PICK x \in 0 .. m - 1 : x = (a - b) % m
    BY <1>3
  <2>2. (b + x) % m = IF b + x < m THEN b + x ELSE b + x - m
    BY <1>1, Onward
  <2>3. x = IF a >= b THEN a - b ELSE a - b + m
    BY <1>2, <2>1, Zenon
  <2>4. (IF b + x < m THEN b + x ELSE b + x - m) = a
    BY <1>1, <2>3
  <2>5. QED
    BY <2>1, <2>2, <2>4, Zenon
<1>5. QED
  BY <1>4, Zenon DEF CellOf, Live, Wrap

\* The three distances of a shard, for the steps that follow.
LEMMA Distances ==
  ASSUME Typed, NEW sh \in Shards, CursorsOrdered(sh)
  PROVE  /\ conf.modulus \in Nat \ {0} /\ Ring \in Nat \ {0} /\ 2 * Ring <= conf.modulus
         /\ head[sh] \in 0 .. conf.modulus - 1 /\ tail[sh] \in 0 .. conf.modulus - 1
         /\ s_tail[sh] \in 0 .. conf.modulus - 1 /\ s_head[sh] \in 0 .. conf.modulus - 1
         /\ Lag(sh) \in 0 .. Ring /\ Live(sh) \in 0 .. Ring /\ Known(sh) \in 0 .. conf.modulus - 1
         /\ Wrap(head[sh] - tail[sh]) = Lag(sh) + Live(sh)
         /\ Warps \in Nat \ {0}
<1>1. conf.modulus \in Nat \ {0} /\ Ring \in Nat \ {0} /\ 2 * Ring <= conf.modulus
  BY ConfFacts DEF Typed
<1>2. /\ head[sh] \in 0 .. conf.modulus - 1 /\ tail[sh] \in 0 .. conf.modulus - 1
      /\ s_tail[sh] \in 0 .. conf.modulus - 1 /\ s_head[sh] \in 0 .. conf.modulus - 1
  BY DEF Typed, ModuleType
<1>3. head[sh] - s_tail[sh] \in Int /\ s_tail[sh] - tail[sh] \in Int /\ s_head[sh] - s_tail[sh] \in Int
  BY <1>1, <1>2
<1>4. /\ Lag(sh) \in 0 .. conf.modulus - 1 /\ Live(sh) \in 0 .. conf.modulus - 1
      /\ Known(sh) \in 0 .. conf.modulus - 1
  BY <1>1, <1>3, ModRange DEF Lag, Live, Known, Wrap
<1>5. Lag(sh) + Live(sh) <= Ring
  BY DEF CursorsOrdered
<1>6. Lag(sh) \in 0 .. Ring /\ Live(sh) \in 0 .. Ring /\ Lag(sh) + Live(sh) < conf.modulus
  BY <1>1, <1>4, <1>5
<1>7. Wrap(head[sh] - tail[sh]) = Lag(sh) + Live(sh)
  BY <1>1, <1>2, <1>6, LiesBetween DEF Lag, Live, Wrap
<1>8. QED
  BY <1>1, <1>2, <1>4, <1>6, <1>7, PullAssumption
-----------------------------------------------------------------------------
(* What each step changes.                                                  *)

\* One buffer, or one waiting set.
LEMMA BufSet ==
  ASSUME Typed, conf' = conf, NEW sh \in Shards, NEW b \in Bufs, NEW v \in Buf,
         buf' = [buf EXCEPT ![sh][b] = v]
  PROVE  /\ buf' \in [Shards -> [Bufs -> Buf']]
         /\ \A z \in Shards, x \in Bufs : buf'[z][x] = IF z = sh /\ x = b THEN v ELSE buf[z][x]
<1>1. Buf' = Buf
  BY DEF Buf, Pages
<1>2. buf \in [Shards -> [Bufs -> Buf]]
  BY DEF Typed, ModuleType
<1>3. QED
  BY <1>1, <1>2

LEMMA BufIs ==
  ASSUME Typed, NEW sh \in Shards, NEW b \in Bufs
  PROVE  /\ buf[sh][b] \in Buf
         /\ buf[sh][b].state \in {"free", "reading", "done", "error", "held"}
         /\ buf[sh][b].data \in Pages \cup {NoPage}
         /\ buf[sh][b].waiters \in SUBSET Rows
         /\ buf[sh][b].wm \in 0 .. conf.modulus - 1
<1>1. buf[sh][b] \in Buf
  BY DEF Typed, ModuleType
<1>2. QED
  BY <1>1 DEF Buf

LEMMA ShardIs ==
  ASSUME NEW r \in Rows
  PROVE  ShardOf(r) \in Shards /\ PageOf[r] \in Pages /\ BatchOf[r] \in 0 .. Depth - 1
BY PullAssumption DEF ShardOf, Pages

\* The read a shard issues: a free buffer, and some waiting requests of a page.
Issued(sh, b, R, v) ==
  /\ buf[sh][b].state = "free" /\ R \in SUBSET Waiting(sh) /\ R # {}
  /\ \A r, q \in R : PageOf[r] = PageOf[q]
  /\ v \in Buf /\ v.waiters = R /\ v.wm = buf[sh][b].wm
  /\ \/ /\ v.state = "reading" /\ ~conf.sync
        /\ UNCHANGED <<ilist, seen, failed>>
     \/ /\ (v.state = "done" /\ conf.sync) \/ (v.state = "error" /\ conf.refuse)
        /\ ilist' = [ilist EXCEPT ![sh] = <<b>>]
        /\ seen' = [seen EXCEPT ![sh]["issuer"] = {head[sh]}]
        /\ failed' = IF v.state = "error" THEN failed \cup R ELSE failed
  /\ buf' = [buf EXCEPT ![sh][b] = v]
  /\ rq' = [rq EXCEPT ![sh] = @ \ R] /\ window' = [window EXCEPT ![sh] = @ \ R]

LEMMA IssueIs ==
  ASSUME Typed, NEW sh \in Shards, Issue(sh)
  PROVE  \E b \in Bufs, R \in SUBSET Rows, v \in Buf : Issued(sh, b, R, v)
<1> DEFINE b == CHOOSE b \in FreeBufs(sh) : TRUE
<1>1. b \in FreeBufs(sh)
  BY DEF Issue
<1>2. b \in Bufs /\ buf[sh][b].state = "free"
  BY <1>1 DEF FreeBufs
<1> DEFINE v(p, R, taken) ==
             [buf[sh][b] EXCEPT !.state = IF taken /\ conf.sync THEN "done"
                                          ELSE IF taken THEN "reading" ELSE "error",
                                !.data = IF taken /\ conf.sync THEN p ELSE buf[sh][b].data,
                                !.waiters = R]
<1>3. PICK p \in Pages : \E R \in SUBSET {r \in Waiting(sh) : PageOf[r] = p}, taken \in {TRUE, ~conf.refuse} :
        /\ R # {}
        /\ rq' = [rq EXCEPT ![sh] = @ \ R] /\ window' = [window EXCEPT ![sh] = @ \ R]
        /\ buf' = [buf EXCEPT ![sh][b] = v(p, R, taken)]
        /\ failed' = IF taken THEN failed ELSE failed \cup R
        /\ IF taken /\ ~conf.sync THEN UNCHANGED <<ilist, seen>>
           ELSE /\ ilist' = [ilist EXCEPT ![sh] = <<b>>]
                /\ seen' = [seen EXCEPT ![sh]["issuer"] = {head[sh]}]
  BY Zenon DEF Issue
<1>4. PICK R \in SUBSET {r \in Waiting(sh) : PageOf[r] = p}, taken \in {TRUE, ~conf.refuse} :
        /\ R # {}
        /\ rq' = [rq EXCEPT ![sh] = @ \ R] /\ window' = [window EXCEPT ![sh] = @ \ R]
        /\ buf' = [buf EXCEPT ![sh][b] = v(p, R, taken)]
        /\ failed' = IF taken THEN failed ELSE failed \cup R
        /\ IF taken /\ ~conf.sync THEN UNCHANGED <<ilist, seen>>
           ELSE /\ ilist' = [ilist EXCEPT ![sh] = <<b>>]
                /\ seen' = [seen EXCEPT ![sh]["issuer"] = {head[sh]}]
  BY <1>3
<1>5. /\ buf[sh][b] \in Buf /\ R \in SUBSET Rows /\ R \in SUBSET Waiting(sh)
      /\ conf.sync \in BOOLEAN /\ conf.refuse \in BOOLEAN /\ taken \in BOOLEAN /\ (~taken => conf.refuse)
      /\ \A r, q \in R : PageOf[r] = PageOf[q]
  BY <1>2, <1>4, BufIs, PullAssumption DEF Typed, ModuleType, HostType, Config, Waiting
<1> HIDE DEF b
<1>6. v(p, R, taken) \in Buf
  BY <1>4, <1>5 DEF Buf
<1>7. /\ v(p, R, taken).waiters = R /\ v(p, R, taken).wm = buf[sh][b].wm
      /\ v(p, R, taken).state = IF taken /\ conf.sync THEN "done" ELSE IF taken THEN "reading" ELSE "error"
  BY <1>5 DEF Buf
<1> HIDE DEF v
<1>8. Issued(sh, b, R, v(p, R, taken))
  <2>0. PICK w \in Buf : w = v(p, R, taken)
    BY <1>6
  <2> SUFFICES Issued(sh, b, R, w)
    BY <2>0
  <2>1. w.waiters = R /\ w.wm = buf[sh][b].wm /\ buf' = [buf EXCEPT ![sh][b] = w]
    BY <1>4, <1>7, <2>0
  <2>2. CASE taken
    <3>1. w.state = IF conf.sync THEN "done" ELSE "reading"
      BY <1>7, <2>0, <2>2
    <3>2. failed' = failed
      BY <1>4, <2>2
    <3>3. IF ~conf.sync THEN UNCHANGED <<ilist, seen>>
          ELSE /\ ilist' = [ilist EXCEPT ![sh] = <<b>>]
               /\ seen' = [seen EXCEPT ![sh]["issuer"] = {head[sh]}]
      BY <1>4, <2>2
    <3>4. QED
      BY <1>2, <1>4, <1>5, <2>1, <3>1, <3>2, <3>3 DEF Issued
  <2>3. CASE ~taken
    <3>1. w.state = "error" /\ conf.refuse
      BY <1>5, <1>7, <2>0, <2>3
    <3>2. failed' = failed \cup R
      BY <1>4, <2>3
    <3>3. /\ ilist' = [ilist EXCEPT ![sh] = <<b>>]
          /\ seen' = [seen EXCEPT ![sh]["issuer"] = {head[sh]}]
      BY <1>4, <2>3
    <3>4. QED
      BY <1>2, <1>4, <1>5, <2>1, <3>1, <3>2, <3>3 DEF Issued
  <2>4. QED
    BY <2>2, <2>3
<1>9. QED
  BY <1>2, <1>5, <1>6, <1>8

\* A read that completes, well or not.
Completed(sh, b, v) ==
  /\ buf[sh][b].state = "reading"
  /\ v.waiters = buf[sh][b].waiters /\ v.wm = buf[sh][b].wm
  /\ \/ v.state = "done" /\ v.data = PageRead(sh, b) /\ failed' = failed
     \/ v.state = "error" /\ v.data = buf[sh][b].data /\ failed' = failed \cup v.waiters
  /\ buf' = [buf EXCEPT ![sh][b] = v]

LEMMA CompleteIs ==
  ASSUME Typed, NEW sh \in Shards, NEW b \in Bufs, Complete(sh, b), WaitersKept(sh)
  PROVE  \E v \in Buf : Completed(sh, b, v)
<1> DEFINE v(good) == [buf[sh][b] EXCEPT !.state = IF good THEN "done" ELSE "error",
                                         !.data = IF good THEN PageRead(sh, b) ELSE buf[sh][b].data]
<1>1. PICK good \in {TRUE, ~conf.errors} :
        /\ buf' = [buf EXCEPT ![sh][b] = v(good)]
        /\ failed' = IF good THEN failed ELSE failed \cup buf[sh][b].waiters
  BY DEF Complete
<1>2. buf[sh][b] \in Buf /\ buf[sh][b].state = "reading"
  BY BufIs DEF Complete
<1>3. PageRead(sh, b) \in Pages
  <2>1. buf[sh][b].waiters # {} /\ buf[sh][b].waiters \in SUBSET Rows
    BY <1>2, BufIs DEF WaitersKept
  <2>2. QED
    BY <2>1, ShardIs DEF PageRead
<1>4. conf.errors \in BOOLEAN
  BY PullAssumption DEF Typed, HostType, Config
<1>5. v(good) \in Buf
  BY <1>1, <1>2, <1>3, <1>4 DEF Buf
<1>6. /\ v(good).waiters = buf[sh][b].waiters /\ v(good).wm = buf[sh][b].wm
      /\ \/ good /\ v(good).state = "done" /\ v(good).data = PageRead(sh, b)
         \/ ~good /\ v(good).state = "error" /\ v(good).data = buf[sh][b].data
  BY <1>1, <1>2, <1>4 DEF Buf
<1>7. QED
  BY <1>1, <1>2, <1>5, <1>6 DEF Completed

\* A descriptor put at the head; with the page's last row the buffer the reaper
\* delivers is held, the issuer's is free again.
ListOf(sh, by) == IF by = "issuer" THEN ilist[sh] ELSE rlist[sh]

Delivered(sh, by, b, r, v) ==
  /\ by \in Producers /\ ListOf(sh, by) # <<>> /\ b = Head(ListOf(sh, by))
  /\ seen[sh][by] # {} /\ HasRoom(sh, head[sh]) /\ r \in buf[sh][b].waiters
  /\ gdesc' = [gdesc EXCEPT ![sh][head[sh] % Ring] =
                 [row |-> r, buf |-> b, ok |-> buf[sh][b].state = "done"]]
  /\ head' = [head EXCEPT ![sh] = Wrap(head[sh] + 1)]
  /\ v.waiters = buf[sh][b].waiters \ {r} /\ v.data = buf[sh][b].data
  /\ v.waiters # {} => v.state = buf[sh][b].state
  /\ v.waiters = {} => v.state = IF by = "issuer" THEN "free" ELSE "held"
  /\ v.waiters = {} /\ by = "reaper" => v.wm = Watermark(head[sh])
  /\ buf' = [buf EXCEPT ![sh][b] = v]
  /\ rlist' = [rlist EXCEPT ![sh] = IF v.waiters = {} /\ by = "reaper" THEN Tail(@) ELSE @]
  /\ ilist' = [ilist EXCEPT ![sh] = IF v.waiters = {} /\ by = "issuer" THEN Tail(@) ELSE @]
  /\ seen' = [seen EXCEPT ![sh] = [x \in Producers |->
                IF x = by THEN IF v.waiters = {} /\ Len(ListOf(sh, by)) = 1 THEN {} ELSE {Wrap(head[sh] + 1)}
                ELSE IF @[x] = {} THEN {} ELSE @[x] \cup {Wrap(head[sh] + 1)}]]

LEMMA DeliverIs ==
  ASSUME Typed, NEW sh \in Shards, Alone(sh), NEW by \in Producers, DeliverRow(sh, by)
  PROVE  \E b \in Bufs, r \in Rows, v \in Buf : Delivered(sh, by, b, r, v)
<1> DEFINE b == Head(ListOf(sh, by))
           last(r) == buf[sh][b].waiters = {r}
           v(r, h) == [buf[sh][b] EXCEPT !.waiters = buf[sh][b].waiters \ {r},
                         !.state = IF ~last(r) THEN buf[sh][b].state
                                   ELSE IF by = "issuer" THEN "free" ELSE "held",
                         !.wm = IF last(r) /\ by = "reaper" THEN Watermark(h) ELSE buf[sh][b].wm]
<1>1. ListOf(sh, by) \in Seq(Bufs) /\ ListOf(sh, by) # <<>>
  BY DEF DeliverRow, Typed, ModuleType, ListOf
<1>2. b \in Bufs
  BY <1>1
<1>3. PICK h \in seen[sh][by], r \in buf[sh][b].waiters :
        /\ HasRoom(sh, h)
        /\ gdesc' = [gdesc EXCEPT ![sh][h % Ring] =
                       [row |-> r, buf |-> b, ok |-> buf[sh][b].state = "done"]]
        /\ head' = [head EXCEPT ![sh] = Wrap(h + 1)]
        /\ buf' = [buf EXCEPT ![sh][b] = v(r, h)]
        /\ rlist' = [rlist EXCEPT ![sh] = IF last(r) /\ by = "reaper" THEN Tail(@) ELSE @]
        /\ ilist' = [ilist EXCEPT ![sh] = IF last(r) /\ by = "issuer" THEN Tail(@) ELSE @]
        /\ seen' = [seen EXCEPT ![sh] = [x \in Producers |->
             IF x = by THEN IF last(r) /\ Len(ListOf(sh, by)) = 1 THEN {} ELSE {Wrap(h + 1)}
             ELSE IF @[x] = {} THEN {} ELSE @[x] \cup {Wrap(h + 1)}]]
  BY Zenon DEF DeliverRow, ListOf
<1>4. buf[sh][b] \in Buf /\ r \in Rows /\ h = head[sh]
  BY <1>2, <1>3, BufIs DEF Alone
<1>5. Watermark(h) \in 0 .. conf.modulus - 1
  <2>1. conf.modulus \in Nat \ {0} /\ head[sh] + 1 \in Int
    BY ConfFacts DEF Typed, ModuleType
  <2>2. QED
    BY <1>4, <2>1, ModRange DEF Watermark, Wrap
<1> HIDE DEF b
<1>6. v(r, h) \in Buf
  BY <1>4, <1>5 DEF Buf
<1>7. last(r) <=> buf[sh][b].waiters \ {r} = {}
  BY <1>3
<1>8. /\ v(r, h).waiters = buf[sh][b].waiters \ {r} /\ v(r, h).data = buf[sh][b].data
      /\ ~last(r) => v(r, h).state = buf[sh][b].state
      /\ last(r) => v(r, h).state = IF by = "issuer" THEN "free" ELSE "held"
      /\ last(r) /\ by = "reaper" => v(r, h).wm = Watermark(h)
  BY <1>4 DEF Buf
<1> HIDE DEF v, last
<1>9. Delivered(sh, by, b, r, v(r, h))
  BY <1>1, <1>3, <1>4, <1>7, <1>8 DEF Delivered, b
<1>10. QED
  BY <1>2, <1>4, <1>6, <1>9

\* Buffers whose watermark the tail has passed are free.
LEMMA ReclaimIs ==
  ASSUME Typed, NEW sh \in Shards, Reclaim(sh)
  PROVE  /\ buf' \in [Shards -> [Bufs -> Buf']]
         /\ \A z \in Shards, x \in Bufs :
              IF z = sh /\ buf[z][x].state = "held" /\ Passed(z, x)
              THEN buf'[z][x].state = "free" /\ buf'[z][x].waiters = buf[z][x].waiters
              ELSE buf'[z][x] = buf[z][x]
<1>1. Buf' = Buf /\ buf \in [Shards -> [Bufs -> Buf]] /\ 0 \in 0 .. conf.modulus - 1
  <2>1. conf.modulus \in Nat \ {0}
    BY ConfFacts DEF Typed
  <2>2. conf' = conf /\ buf \in [Shards -> [Bufs -> Buf]]
    BY DEF Reclaim, Typed, ModuleType
  <2>3. Buf' = Buf
    BY <2>2 DEF Buf, Pages
  <2>4. QED
    BY <2>1, <2>2, <2>3
<1> DEFINE v(x) == [buf[sh][x] EXCEPT !.state = "free", !.data = NoPage, !.wm = 0]
           w(x) == IF buf[sh][x].state = "held" /\ Passed(sh, x) THEN v(x) ELSE buf[sh][x]
<1>2. buf' = [buf EXCEPT ![sh] = [x \in Bufs |-> w(x)]]
  BY DEF Reclaim
<1>3. ASSUME NEW x \in Bufs
      PROVE  v(x) \in Buf /\ v(x).state = "free" /\ v(x).waiters = buf[sh][x].waiters
  <2>1. buf[sh][x] \in Buf
    BY <1>1
  <2>2. QED
    BY <1>1, <2>1 DEF Buf
<1> HIDE DEF v
<1>4. \A x \in Bufs : w(x) \in Buf
  BY <1>1, <1>3
<1>5. QED
  BY <1>1, <1>2, <1>3, <1>4

\* The row a warp gathers.
Gathers(sh, w) ==
  LET d == gdesc[sh][CellOf(sh, w)]
  IN  /\ w \in todo[sh]
      /\ out' = IF d.ok THEN [out EXCEPT ![d.row] = buf[sh][d.buf].data] ELSE out
      /\ g_done' = [g_done EXCEPT ![BatchOf[d.row]] = @ + 1]
      /\ gdesc' = [gdesc EXCEPT ![sh][CellOf(sh, w)] = NoDesc]
      /\ todo' = [todo EXCEPT ![sh] = @ \ {w}]
      /\ bpc' = [bpc EXCEPT ![sh] = IF todo[sh] = {w} THEN "advance" ELSE @]

LEMMA GatherIs ==
  ASSUME Typed, NEW sh \in Shards, GatherRow(sh)
  PROVE  \E w \in todo[sh] : Gathers(sh, w)
BY DEF GatherRow, Gathers, CellOf
-----------------------------------------------------------------------------
(* The state stays well formed.                                             *)

LEMMA TypedInit == Init => Typed
<1> SUFFICES ASSUME Init PROVE Typed
  OBVIOUS
<1>1. /\ Depth \in Nat \ {0} /\ Warps \in Nat \ {0}
      /\ conf \in Configs /\ conf \in Config
  BY PullAssumption DEF Init
<1>2. conf.modulus \in Nat \ {0} /\ 0 \in 0 .. conf.modulus - 1 /\ 0 \in 0 .. Depth - 1
  BY <1>1 DEF Config
<1>3. HostType
  BY <1>1, <1>2 DEF Init, HostType
<1>4. \A b \in Bufs : [state |-> "free", data |-> NoPage, waiters |-> {}, wm |-> 0] \in Buf
  BY <1>2 DEF Buf
<1>5. buf \in [Shards -> [Bufs -> Buf]]
  BY <1>4 DEF Init
<1>6. <<>> \in Seq(Bufs)
  OBVIOUS
<1>7. ModuleType
  BY <1>2, <1>5, <1>6 DEF Init, ModuleType
<1>8. QED
  BY <1>1, <1>2, <1>3, <1>7 DEF Init, Typed

\* The oldest pending slot is one.
LEMMA OldestPending ==
  ASSUME HostType, pending # {}
  PROVE  Oldest \in pending
<1>1. Depth \in Nat \ {0} /\ newest \in 0 .. Depth - 1 /\ pending \in SUBSET (0 .. Depth - 1)
  BY PullAssumption DEF HostType
<1> DEFINE K == {k \in 0 .. Depth - 1 : (newest + k) % Depth \in pending}
           Before == {ss \in Nat \X Nat : ss[1] < ss[2]}
<1>2. K # {} /\ K \in SUBSET Nat
  <2>1. PICK s \in 0 .. Depth - 1 : s \in pending
    BY <1>1
  <2>2. PICK k \in 0 .. Depth - 1 : k = (s - newest) % Depth
    BY <1>1, ModRange
  <2>3. k = IF s >= newest THEN s - newest ELSE s - newest + Depth
    BY <1>1, <2>2, Distance
  <2>4. (newest + k) % Depth = IF newest + k < Depth THEN newest + k ELSE newest + k - Depth
    BY <1>1, Onward
  <2>5. (newest + k) % Depth = s
    BY <1>1, <2>3, <2>4
  <2>6. k \in K
    BY <2>1, <2>5
  <2>7. K \in SUBSET (0 .. Depth - 1) /\ 0 .. Depth - 1 \in SUBSET Nat
    BY <1>1
  <2>8. QED
    BY <2>6, <2>7, Zenon
<1>3. IsWellFoundedOn(Before, Nat)
  BY NatLessThanWellFounded DEF OpToRel
<1>4. \E x \in K : \A y \in K : ~ (<<y, x>> \in Before)
  BY <1>2, <1>3, WFMin
<1>5. PICK x \in K : \A y \in K : ~ (<<y, x>> \in Before)
  BY <1>4
<1>6. \A j \in 0 .. x - 1 : (newest + j) % Depth \notin pending
  <2>1. TAKE j \in 0 .. x - 1
  <2>2. j \in Nat /\ x \in Nat /\ j < x /\ j \in 0 .. Depth - 1
    BY <1>1, <1>5
  <2>3. <<j, x>> \in Before
    BY <2>2
  <2>4. QED
    BY <1>5, <2>2, <2>3
<1>7. \E s \in pending : \E k \in 0 .. Depth - 1 :
         /\ s = (newest + k) % Depth
         /\ \A j \in 0 .. k - 1 : (newest + j) % Depth \notin pending
  BY <1>5, <1>6
<1>8. QED
  BY <1>7, Zenon DEF Oldest

LEMMA LaunchTyped ==
  ASSUME Typed, conf' = conf, Launch
  PROVE  /\ bpc' \in [Shards -> {"off", "look", "gather", "advance"}]
         /\ s_tail' \in [Shards -> 0 .. conf'.modulus - 1]
         /\ s_head' \in [Shards -> 0 .. conf'.modulus - 1]
         /\ pub' \in [Shards -> 0 .. conf'.modulus - 1]
<1>1. conf.modulus \in Nat \ {0}
  BY ConfFacts DEF Typed
<1>2. 0 \in 0 .. conf.modulus - 1
  BY <1>1
<1>3. QED
  BY <1>2 DEF Typed, Launch

LEMMA HostTyped ==
  ASSUME Typed, HostStep
  PROVE  Typed'
<1> USE DEF Typed, HostType
<1>1. conf' = conf
  BY DEF HostStep, StartPush, PushRow, PushOver, StartDrain, DrainOver
<1>2. Depth \in Nat \ {0} /\ newest \in 0 .. Depth - 1
  BY PullAssumption
<1>3. CASE StartPush
  <2>1. (newest + 1) % Depth \in 0 .. Depth - 1
    BY <1>2, ModRange
  <2>2. RowsOf(newest) \subseteq Rows /\ failed' \subseteq Rows
    BY <1>3, ConfFacts DEF RowsOf, StartPush
  <2>3. HostType'
    BY <1>1, <1>2, <1>3, <2>1, <2>2 DEF StartPush
  <2>4. ModuleType'
    BY <1>3 DEF StartPush, ModuleType, kernelVars, ringVars, Buf, Pages, Cells, Ring
  <2>5. g_done' \in [0 .. Depth - 1 -> Nat] /\ out' \in [Rows -> Pages \cup {Stale, NoPage}]
    BY <1>3 DEF StartPush
  <2>6. /\ tail' \in [Shards -> 0 .. conf'.modulus - 1] /\ s_tail' \in [Shards -> 0 .. conf'.modulus - 1]
        /\ s_head' \in [Shards -> 0 .. conf'.modulus - 1] /\ pub' \in [Shards -> 0 .. conf'.modulus - 1]
        /\ bpc' \in [Shards -> {"off", "look", "gather", "advance"}]
        /\ todo' \in [Shards -> SUBSET (0 .. Warps - 1)]
    BY <1>1, <1>3, LaunchTyped DEF StartPush
  <2>7. QED
    BY <2>2, <2>3, <2>4, <2>5, <2>6 DEF Pages
<1>4. CASE PushRow
  <2>1. PICK r \in toPush : rq' = [rq EXCEPT ![ShardOf(r)] = @ \cup {r}] /\ toPush' = toPush \ {r}
    BY <1>4 DEF PushRow
  <2>2. ModuleType'
    <3>1. Buf' = Buf /\ Cells' = Cells
      BY <1>1 DEF Buf, Pages, Cells, Ring
    <3>2. r \in Rows /\ rq' \in [Shards -> SUBSET Rows]
      BY <2>1 DEF ModuleType
    <3>3. UNCHANGED <<window, buf, kpc, rlist, ilist, done_list, gdesc, head, seen>>
      BY <1>4 DEF PushRow, ringVars
    <3>4. QED
      BY <1>1, <3>1, <3>2, <3>3 DEF ModuleType
  <2>3. HostType'
    BY <1>4, <2>1 DEF PushRow
  <2>4. QED
    BY <1>4, <2>2, <2>3 DEF PushRow, blockVars, Pages
<1>5. CASE PushOver
  BY <1>5 DEF PushOver, ModuleType, kernelVars, ringVars, blockVars, Buf, Pages, Cells, Ring
<1>6. CASE StartDrain
  <2>1. Oldest \in 0 .. Depth - 1
    BY <1>6, OldestPending DEF StartDrain
  <2>2. HostType'
    BY <1>6, <2>1 DEF StartDrain
  <2>3. ModuleType'
    BY <1>6 DEF StartDrain, ModuleType, kernelVars, ringVars, Buf, Pages, Cells, Ring
  <2>4. /\ s_tail' \in [Shards -> 0 .. conf'.modulus - 1]
        /\ s_head' \in [Shards -> 0 .. conf'.modulus - 1] /\ pub' \in [Shards -> 0 .. conf'.modulus - 1]
        /\ bpc' \in [Shards -> {"off", "look", "gather", "advance"}]
    BY <1>1, <1>6, LaunchTyped DEF StartDrain
  <2>5. QED
    BY <1>6, <2>2, <2>3, <2>4 DEF StartDrain, Pages
<1>7. CASE DrainOver
  BY <1>7 DEF DrainOver, ModuleType, kernelVars, ringVars, blockVars, Buf, Pages, Cells, Ring
<1>8. QED
  BY <1>3, <1>4, <1>5, <1>6, <1>7 DEF HostStep

LEMMA ModuleTyped ==
  ASSUME Typed, \A z \in Shards : WaitersKept(z) /\ Alone(z), NEW sh \in Shards,
         \/ Issue(sh) \/ KernelStep(sh) \/ DeliverRow(sh, "issuer")
         \/ \E b \in Bufs : Complete(sh, b)
  PROVE  Typed'
<1> USE DEF Typed
<1>1. /\ conf' = conf /\ UNCHANGED <<hostVars, blockVars>>
  BY DEF Issue, KernelStep, Lap, DeliverRow, Reclaim, Complete
<1>2. HostType'
  BY <1>1 DEF HostType, hostVars
<1>3. SUFFICES ModuleType' /\ failed' \subseteq Rows
  BY <1>1, <1>2 DEF blockVars, Pages
<1>4. /\ rq \in [Shards -> SUBSET Rows] /\ window \in [Shards -> SUBSET Rows]
      /\ buf \in [Shards -> [Bufs -> Buf]] /\ kpc \in [Shards -> {"reap", "issue"}]
      /\ rlist \in [Shards -> Seq(Bufs)] /\ ilist \in [Shards -> Seq(Bufs)]
      /\ done_list \in [Shards -> Seq(Bufs)]
      /\ gdesc \in [Shards -> [Cells -> Desc \cup {NoDesc}]] /\ head \in [Shards -> 0 .. conf.modulus - 1]
      /\ seen \in [Shards -> [Producers -> SUBSET (0 .. conf.modulus - 1)]]
  BY DEF ModuleType
<1>5. Buf' = Buf /\ Cells' = Cells
  BY <1>1 DEF Buf, Pages, Cells, Ring
<1>6. {head[sh]} \in SUBSET (0 .. conf.modulus - 1) /\ {} \in SUBSET (0 .. conf.modulus - 1)
  BY <1>4
<1>7. CASE Issue(sh)
  <2>1. PICK b \in Bufs, R \in SUBSET Rows, v \in Buf : Issued(sh, b, R, v)
    BY <1>7, IssueIs
  <2>2. buf' \in [Shards -> [Bufs -> Buf']]
    BY <1>1, <2>1, BufSet DEF Issued
  <2>3. rq' \in [Shards -> SUBSET Rows] /\ window' \in [Shards -> SUBSET Rows] /\ failed' \subseteq Rows
    BY <1>4, <2>1 DEF Issued
  <2>4. ilist' \in [Shards -> Seq(Bufs)]
    <3>1. PICK q \in Seq(Bufs) : q = <<b>>
      <4>1. <<b>> \in Seq(Bufs)
        OBVIOUS
      <4>2. QED
        BY <4>1, Zenon
    <3>2. ilist' = ilist \/ ilist' = [ilist EXCEPT ![sh] = q]
      BY <2>1, <3>1, Zenon DEF Issued
    <3>3. QED
      BY <1>4, <3>1, <3>2
  <2>5. seen' \in [Shards -> [Producers -> SUBSET (0 .. conf.modulus - 1)]]
    <3>1. seen' = seen \/ seen' = [seen EXCEPT ![sh]["issuer"] = {head[sh]}]
      BY <2>1 DEF Issued
    <3>2. PICK h \in SUBSET (0 .. conf.modulus - 1) : h = {head[sh]}
      BY <1>6
    <3>3. seen' = seen \/ seen' = [seen EXCEPT ![sh]["issuer"] = h]
      BY <3>1, <3>2
    <3>4. "issuer" \in Producers /\ seen[sh] \in [Producers -> SUBSET (0 .. conf.modulus - 1)]
      BY <1>4 DEF Producers
    <3>5. PICK k \in [Producers -> SUBSET (0 .. conf.modulus - 1)] : k = [seen[sh] EXCEPT !["issuer"] = h]
      BY <3>4
    <3>6. QED
      BY <1>4, <3>3, <3>5
  <2>6. UNCHANGED <<kpc, rlist, done_list, gdesc, head>>
    BY <1>7 DEF Issue
  <2>7. QED
    BY <1>1, <1>4, <1>5, <2>2, <2>3, <2>4, <2>5, <2>6 DEF ModuleType
<1>8. CASE Lap(sh)
  <2>1. <<>> \in Seq(Bufs) /\ done_list[sh] \in Seq(Bufs)
    BY <1>4
  <2>2. rlist' \in [Shards -> Seq(Bufs)] /\ done_list' \in [Shards -> Seq(Bufs)]
    BY <1>4, <1>8, <2>1 DEF Lap
  <2>3. kpc' \in [Shards -> {"reap", "issue"}]
    BY <1>4, <1>8 DEF Lap
  <2>4. seen' \in [Shards -> [Producers -> SUBSET (0 .. conf.modulus - 1)]]
    BY <1>4, <1>6, <1>8 DEF Lap
  <2>5. QED
    BY <1>1, <1>4, <1>5, <1>8, <2>2, <2>3, <2>4 DEF Lap, ModuleType
<1>9. ASSUME NEW by \in Producers, DeliverRow(sh, by)
      PROVE  ModuleType' /\ failed' \subseteq Rows
  <2>1. PICK b \in Bufs, r \in Rows, v \in Buf : Delivered(sh, by, b, r, v)
    BY <1>9, DeliverIs
  <2>2. buf' \in [Shards -> [Bufs -> Buf']]
    BY <1>1, <2>1, BufSet DEF Delivered
  <2>3. /\ by = "reaper" => rlist[sh] # <<>>
        /\ by = "issuer" => ilist[sh] # <<>>
    BY <2>1 DEF Delivered, ListOf
  <2>4. rlist' \in [Shards -> Seq(Bufs)] /\ ilist' \in [Shards -> Seq(Bufs)]
    <3>1. PICK q \in Seq(Bufs) : q = IF v.waiters = {} /\ by = "reaper" THEN Tail(rlist[sh]) ELSE rlist[sh]
      <4>1. by = "reaper" => Tail(rlist[sh]) \in Seq(Bufs)
        BY <1>4, <2>3
      <4>2. QED
        BY <1>4, <4>1
    <3>2. PICK p \in Seq(Bufs) : p = IF v.waiters = {} /\ by = "issuer" THEN Tail(ilist[sh]) ELSE ilist[sh]
      <4>1. by = "issuer" => Tail(ilist[sh]) \in Seq(Bufs)
        BY <1>4, <2>3
      <4>2. QED
        BY <1>4, <4>1
    <3>3. rlist' = [rlist EXCEPT ![sh] = q] /\ ilist' = [ilist EXCEPT ![sh] = p]
      BY <2>1, <3>1, <3>2 DEF Delivered
    <3>4. QED
      BY <1>4, <3>3
  <2>5. conf.modulus \in Nat \ {0} /\ head[sh] + 1 \in Int
    BY <1>4, ConfFacts
  <2>6. Wrap(head[sh] + 1) \in 0 .. conf.modulus - 1
    BY <2>5, ModRange DEF Wrap
  <2>7. head' \in [Shards -> 0 .. conf.modulus - 1]
    BY <1>4, <2>1, <2>6 DEF Delivered
  <2>8. gdesc' \in [Shards -> [Cells -> Desc \cup {NoDesc}]]
    <3>1. [row |-> r, buf |-> b, ok |-> buf[sh][b].state = "done"] \in Desc
      BY DEF Desc
    <3>2. QED
      BY <1>4, <2>1, <3>1 DEF Delivered
  <2>9. seen' \in [Shards -> [Producers -> SUBSET (0 .. conf.modulus - 1)]]
    BY <1>4, <2>1, <2>6 DEF Delivered, Producers
  <2>10. UNCHANGED <<rq, window, kpc, done_list, failed>>
    BY <1>9 DEF DeliverRow
  <2>11. QED
    BY <1>1, <1>4, <1>5, <2>2, <2>4, <2>7, <2>8, <2>9, <2>10 DEF ModuleType
<1>10. CASE Reclaim(sh)
  <2>1. buf' \in [Shards -> [Bufs -> Buf']]
    BY <1>10, ReclaimIs
  <2>2. kpc' \in [Shards -> {"reap", "issue"}] /\ window' \in [Shards -> SUBSET Rows]
    BY <1>4, <1>10 DEF Reclaim
  <2>3. QED
    BY <1>1, <1>4, <1>5, <1>10, <2>1, <2>2 DEF Reclaim, ModuleType, ringVars
<1>11. CASE \E b \in Bufs : Complete(sh, b)
  <2>1. PICK b \in Bufs : Complete(sh, b)
    BY <1>11
  <2>2. PICK v \in Buf : Completed(sh, b, v)
    BY <2>1, CompleteIs
  <2>3. buf' \in [Shards -> [Bufs -> Buf']]
    BY <1>1, <2>2, BufSet DEF Completed
  <2>4. Append(done_list[sh], b) \in Seq(Bufs)
    BY <1>4
  <2>5. done_list' \in [Shards -> Seq(Bufs)]
    BY <1>4, <2>1, <2>4 DEF Complete
  <2>6. failed' \subseteq Rows
    BY <2>2, BufIs DEF Completed
  <2>7. QED
    BY <1>1, <1>4, <1>5, <2>1, <2>3, <2>5, <2>6 DEF Complete, ModuleType, ringVars
<1>12. QED
  BY <1>7, <1>8, <1>9, <1>10, <1>11 DEF KernelStep, Producers

LEMMA LastOne ==
  ASSUME NEW S, NEW q \in Seq(S), q # <<>>, Tail(q) = <<>>
  PROVE  Len(q) = 1
<1>1. Len(q) \in Nat /\ Len(q) # 0
  BY EmptySeq
<1>2. Len(Tail(q)) = Len(q) - 1
  BY <1>1
<1>3. Len(<<>>) = 0
  OBVIOUS
<1>4. Len(Tail(q)) = 0
  BY <1>3, Zenon
<1>5. QED
  BY <1>1, <1>2, <1>4

LEMMA TailOfOne ==
  ASSUME NEW S, NEW q \in Seq(S), DOMAIN q \subseteq {1}, 1 \in DOMAIN q
  PROVE  DOMAIN Tail(q) = {}
<1>1. Len(q) \in Nat /\ DOMAIN q = 1 .. Len(q)
  OBVIOUS
<1>2. Len(q) >= 1
  BY <1>1
<1>3. ~(Len(q) >= 2)
  <2>1. SUFFICES ASSUME Len(q) >= 2 PROVE FALSE
    OBVIOUS
  <2>2. 2 \in DOMAIN q
    BY <1>1, <2>1
  <2>3. 2 \in {1}
    BY <2>2
  <2>4. QED
    BY <2>3
<1>4. Len(q) = 1
  BY <1>1, <1>2, <1>3
<1>5. q # <<>>
  <2>1. Len(<<>>) = 0
    OBVIOUS
  <2>2. 1 # 0
    OBVIOUS
  <2>3. QED
    BY <1>4, <2>1, <2>2, Zenon
<1>6. Tail(q) \in Seq(S) /\ Len(Tail(q)) = 0
  BY <1>4, <1>5
<1>7. DOMAIN Tail(q) = 1 .. Len(Tail(q))
  BY <1>6
<1>8. 1 .. 0 = {}
  OBVIOUS
<1>9. QED
  BY <1>6, <1>7, <1>8, Zenon

\* One producer at a time, step by step: without split roles the issuer's page
\* is delivered before the next lap; with them the reaper has pages only of an
\* asynchronous provider, the issuer only of a synchronous one.
LEMMA AloneNext ==
  ASSUME OneProducer, Typed, \A z \in Shards : Alone(z) /\ Windowed(z) /\ WaitersKept(z), [Next]_vars
  PROVE  \A z \in Shards : Alone(z)' /\ Windowed(z)'
<1> SUFFICES ASSUME NEW z \in Shards PROVE Alone(z)' /\ Windowed(z)'
  OBVIOUS
<1>0. Alone(z) /\ Windowed(z) /\ (conf.split => conf.sync \/ ~conf.refuse)
      /\ conf.split \in BOOLEAN /\ conf.sync \in BOOLEAN /\ conf.refuse \in BOOLEAN
  BY PullAssumption DEF OneProducer, Typed, HostType, Config
<1>t. /\ rq \in [Shards -> SUBSET Rows] /\ window \in [Shards -> SUBSET Rows]
      /\ buf \in [Shards -> [Bufs -> Buf]] /\ kpc \in [Shards -> {"reap", "issue"}]
      /\ rlist \in [Shards -> Seq(Bufs)] /\ ilist \in [Shards -> Seq(Bufs)]
      /\ done_list \in [Shards -> Seq(Bufs)]
      /\ head \in [Shards -> 0 .. conf.modulus - 1]
      /\ seen \in [Shards -> [Producers -> SUBSET (0 .. conf.modulus - 1)]]
  BY DEF Typed, ModuleType
<1>1. ASSUME conf' = conf, head'[z] = head[z], seen'[z] = seen[z], ilist'[z] = ilist[z],
             rlist'[z] = rlist[z], done_list'[z] = done_list[z], kpc'[z] = kpc[z],
             \A b \in Bufs : buf'[z][b].state = "reading" => buf[z][b].state = "reading"
      PROVE  Alone(z)'
  BY <1>0, <1>1 DEF Alone
<1>2. CASE HostStep
  <2>1. UNCHANGED <<conf, window, buf, kpc, rlist, ilist, done_list, ringVars>>
    BY <1>2 DEF HostStep, StartPush, PushRow, PushOver, StartDrain, DrainOver, kernelVars
  <2>2. rq[z] \subseteq rq'[z]
    <3>1. CASE PushRow
      BY <1>t, <3>1 DEF PushRow
    <3>2. CASE ~PushRow
      BY <1>2, <3>2 DEF HostStep, StartPush, PushOver, StartDrain, DrainOver, kernelVars
    <3>3. QED
      BY <3>1, <3>2
  <2>3. QED
    BY <1>0, <1>1, <2>1, <2>2 DEF Windowed, ringVars
<1>3. ASSUME NEW sh \in Shards, Issue(sh)
      PROVE  Alone(z)' /\ Windowed(z)'
  <2>1. PICK b \in Bufs, R \in SUBSET Rows, v \in Buf : Issued(sh, b, R, v)
    BY <1>3, IssueIs
  <2>2. UNCHANGED <<conf, kpc, rlist, done_list, head>> /\ ilist[sh] = <<>> /\ (kpc[sh] = "issue" \/ conf.split)
    BY <1>3 DEF Issue
  <2>3. Windowed(z)'
    BY <1>0, <1>t, <2>1 DEF Issued, Windowed
  <2>4. CASE z # sh
    <3>1. ilist'[z] = ilist[z] /\ seen'[z] = seen[z] /\ buf'[z] = buf[z]
      BY <1>t, <2>1, <2>4 DEF Issued
    <3>2. QED
      BY <1>1, <2>2, <2>3, <3>1
  <2>5. CASE z = sh
    <3>1. \A x \in Bufs : buf'[z][x] = IF x = b THEN v ELSE buf[z][x]
      BY <1>t, <2>1, <2>5 DEF Issued
    <3>2. CASE v.state = "reading" /\ ~conf.sync /\ UNCHANGED <<ilist, seen>>
      BY <1>0, <2>2, <2>3, <3>2 DEF Alone
    <3>3. CASE /\ (v.state = "done" /\ conf.sync) \/ (v.state = "error" /\ conf.refuse)
               /\ ilist' = [ilist EXCEPT ![sh] = <<b>>]
               /\ seen' = [seen EXCEPT ![sh]["issuer"] = {head[sh]}]
      <4>1. /\ ilist'[z] # <<>> /\ seen'[z]["issuer"] = {head[z]}
            /\ seen'[z]["reaper"] = seen[z]["reaper"]
        BY <1>t, <2>5, <3>3 DEF Producers
      <4>2. rlist[z] = <<>>
        BY <1>0, <2>2, <2>5, <3>3 DEF Alone
      <4>3. \A x \in Bufs : buf'[z][x].state = "reading" => buf[z][x].state = "reading"
        BY <3>1, <3>3
      <4>4. QED
        BY <1>0, <2>2, <2>3, <2>5, <3>3, <4>1, <4>2, <4>3 DEF Alone, Producers
    <3>4. QED
      BY <2>1, <3>2, <3>3 DEF Issued
  <2>6. QED
    BY <2>4, <2>5
<1>4. ASSUME NEW sh \in Shards, Lap(sh)
      PROVE  Alone(z)' /\ Windowed(z)'
  <2>1. UNCHANGED <<conf, rq, window, buf, ilist, head>> /\ kpc[sh] = "issue" /\ (ilist[sh] = <<>> \/ conf.split)
    BY <1>4 DEF Lap
  <2>2. CASE z # sh
    <3>1. UNCHANGED <<rlist[z], done_list[z], kpc[z], seen[z]>>
      BY <1>4, <2>2 DEF Lap
    <3>2. QED
      BY <1>0, <1>1, <2>1, <3>1 DEF Windowed
  <2>3. CASE z = sh
    <3>1. /\ rlist'[z] = done_list[z] /\ done_list'[z] = <<>> /\ kpc'[z] = "reap"
          /\ seen'[z]["issuer"] = seen[z]["issuer"]
          /\ seen'[z]["reaper"] = IF done_list[z] = <<>> THEN {} ELSE {head[z]}
      BY <1>4, <1>t, <2>3 DEF Lap, Producers
    <3>2. done_list[z] # <<>> => ilist[z] = <<>> /\ seen[z]["issuer"] = {}
      BY <1>0, <2>1, <2>3 DEF Alone
    <3>3. QED
      BY <1>0, <2>1, <2>3, <3>1, <3>2 DEF Alone, Windowed, Producers
  <2>4. QED
    BY <2>2, <2>3
<1>5. ASSUME NEW sh \in Shards, NEW by \in Producers, DeliverRow(sh, by)
      PROVE  Alone(z)' /\ Windowed(z)'
  <2>1. PICK b \in Bufs, r \in Rows, v \in Buf : Delivered(sh, by, b, r, v)
    BY <1>5, DeliverIs
  <2>2. UNCHANGED <<conf, rq, window, kpc, done_list>> /\ ListOf(sh, by) # <<>>
    BY <1>5, <2>1 DEF DeliverRow, Delivered
  <2>3. CASE z # sh
    <3>1. UNCHANGED <<rlist[z], ilist[z], head[z], seen[z], buf[z]>>
      BY <1>t, <2>1, <2>3 DEF Delivered
    <3>2. QED
      BY <1>0, <1>1, <2>2, <3>1 DEF Windowed
  <2>4. CASE z = sh
    <3>1. \A x \in Bufs : buf'[z][x].state = "reading" => buf[z][x].state = "reading"
      <4>1. \A x \in Bufs : buf'[z][x] = IF x = b THEN v ELSE buf[z][x]
        BY <1>t, <2>1, <2>4 DEF Delivered
      <4>2. v.state \in {buf[z][b].state, "free", "held"}
        BY <2>1, <2>4 DEF Delivered
      <4>3. QED
        BY <4>1, <4>2
    <3>2. head'[z] = Wrap(head[z] + 1)
      BY <1>t, <2>1, <2>4 DEF Delivered
    <3>3. \A x \in Producers : seen'[z][x] =
             IF x = by THEN IF v.waiters = {} /\ Len(ListOf(z, by)) = 1 THEN {} ELSE {Wrap(head[z] + 1)}
             ELSE IF seen[z][x] = {} THEN {} ELSE seen[z][x] \cup {Wrap(head[z] + 1)}
      BY <1>t, <2>1, <2>4 DEF Delivered
    <3>4. CASE by = "issuer"
      <4>1. seen[z]["reaper"] = {}
        BY <1>0, <2>1, <2>4, <3>4 DEF Alone, Delivered
      <4>2. rlist'[z] = rlist[z] /\ ilist'[z] = IF v.waiters = {} THEN Tail(ilist[z]) ELSE ilist[z]
        BY <1>t, <2>1, <2>4, <3>4 DEF Delivered
      <4>3. ilist[z] \in Seq(Bufs) /\ ilist[z] # <<>>
        BY <1>t, <2>2, <2>4, <3>4 DEF ListOf
      <4>4. ilist'[z] = <<>> => v.waiters = {} /\ Len(ilist[z]) = 1
        <5>1. Tail(ilist[z]) = <<>> => Len(ilist[z]) = 1
          BY <4>3, LastOne
        <5>2. QED
          BY <4>2, <4>3, <5>1
      <4>5. QED
        BY <1>0, <2>2, <3>1, <3>2, <3>3, <3>4, <4>1, <4>2, <4>3, <4>4 DEF Alone, Windowed, Producers, ListOf
    <3>5. CASE by = "reaper"
      <4>1. seen[z]["issuer"] = {}
        BY <1>0, <2>1, <2>4, <3>5 DEF Alone, Delivered
      <4>2. ilist'[z] = ilist[z] /\ rlist'[z] = IF v.waiters = {} THEN Tail(rlist[z]) ELSE rlist[z]
        BY <1>t, <2>1, <2>4, <3>5 DEF Delivered
      <4>3. rlist[z] \in Seq(Bufs) /\ rlist[z] # <<>>
        BY <1>t, <2>2, <2>4, <3>5 DEF ListOf
      <4>4. rlist'[z] = <<>> => v.waiters = {} /\ Len(rlist[z]) = 1
        <5>1. Tail(rlist[z]) = <<>> => Len(rlist[z]) = 1
          BY <4>3, LastOne
        <5>2. QED
          BY <4>2, <4>3, <5>1
      <4>5. QED
        BY <1>0, <2>2, <3>1, <3>2, <3>3, <3>5, <4>1, <4>2, <4>3, <4>4 DEF Alone, Windowed, Producers, ListOf
    <3>6. QED
      BY <3>4, <3>5 DEF Producers
  <2>5. QED
    BY <2>3, <2>4
<1>6. ASSUME NEW sh \in Shards, Reclaim(sh)
      PROVE  Alone(z)' /\ Windowed(z)'
  <2>1. UNCHANGED <<conf, rq, rlist, ilist, done_list, seen, head>> /\ rlist[sh] = <<>> /\ kpc[sh] = "reap"
    BY <1>6 DEF Reclaim, ringVars
  <2>2. \A x \in Bufs : buf'[z][x].state = "reading" => buf[z][x].state = "reading"
    BY <1>6, ReclaimIs
  <2>3. window'[z] \in {window[z], rq[z]} /\ (kpc'[z] = kpc[z] \/ (z = sh /\ kpc'[z] = "issue"))
    BY <1>6, <1>t DEF Reclaim
  <2>4. QED
    BY <1>0, <2>1, <2>2, <2>3 DEF Alone, Windowed
<1>7. ASSUME NEW sh \in Shards, NEW b \in Bufs, Complete(sh, b)
      PROVE  Alone(z)' /\ Windowed(z)'
  <2>1. PICK v \in Buf : Completed(sh, b, v)
    BY <1>7, CompleteIs
  <2>2. UNCHANGED <<conf, rq, window, kpc, rlist, ilist, seen, head>> /\ buf[sh][b].state = "reading"
    BY <1>7 DEF Complete, ringVars
  <2>3. \A x \in Bufs : buf'[z][x].state = "reading" => buf[z][x].state = "reading"
    <3>1. \A x \in Bufs : buf'[z][x] = IF z = sh /\ x = b THEN v ELSE buf[z][x]
      BY <1>t, <2>1 DEF Completed
    <3>2. QED
      BY <2>1, <3>1 DEF Completed
  <2>4. done_list'[z] = done_list[z] \/ z = sh
    BY <1>7 DEF Complete
  <2>5. z = sh => ~conf.sync
    BY <1>0, <2>2 DEF Alone
  <2>6. QED
    BY <1>0, <2>2, <2>3, <2>4, <2>5 DEF Alone, Windowed
<1>8. ASSUME NEW sh \in Shards, BlockStep(sh)
      PROVE  Alone(z)' /\ Windowed(z)'
  <2>1. UNCHANGED <<conf, kernelVars, head, seen>>
    BY <1>8 DEF BlockStep, Take, GatherRow, Advance, Leave, ringVars
  <2>2. QED
    BY <1>0, <1>1, <2>1 DEF kernelVars, Windowed
<1>9. CASE UNCHANGED vars
  BY <1>0, <1>1, <1>9 DEF vars, kernelVars, ringVars, Windowed
<1>10. QED
  BY <1>2, <1>3, <1>4, <1>5, <1>6, <1>7, <1>8, <1>9 DEF Next, KernelStep, Producers
-----------------------------------------------------------------------------
(* The cells of a shard's ring, step by step.                               *)

RingOk(sh) == CursorsOrdered(sh) /\ CellsFilled(sh)

\* Rows not gathered are between the block and the head, and their cells hold
\* descriptors.
LEMMA UngatheredIs ==
  ASSUME Typed, NEW sh \in Shards, RingOk(sh)
  PROVE  /\ Ungathered(sh) \subseteq 0 .. Live(sh) - 1
         /\ Ungathered(sh) \subseteq 0 .. Ring - 1
         /\ \A i \in Ungathered(sh) : /\ CellOf(sh, i) \in Cells
                                      /\ gdesc[sh][CellOf(sh, i)] \in Desc
                                      /\ gdesc[sh][CellOf(sh, i)] # NoDesc
         /\ \A i \in Ungathered(sh), j \in 0 .. Ring - 1 : i # j => CellOf(sh, i) # CellOf(sh, j)
         /\ bpc[sh] = "gather" => todo[sh] \subseteq Ungathered(sh)
<1>1. /\ Live(sh) \in 0 .. Ring /\ Ring \in Nat \ {0} /\ Known(sh) \in Int /\ Warps \in Nat \ {0}
  BY Distances DEF RingOk
<1>2. Ungathered(sh) \subseteq 0 .. Live(sh) - 1
  BY DEF Ungathered, Live
<1>3. Ungathered(sh) \subseteq 0 .. Ring - 1
  BY <1>1, <1>2
<1>4. ASSUME NEW i \in Ungathered(sh)
      PROVE  /\ CellOf(sh, i) \in Cells
             /\ gdesc[sh][CellOf(sh, i)] \in Desc
             /\ gdesc[sh][CellOf(sh, i)] # NoDesc
  <2>1. i \in Int
    BY <1>1, <1>3
  <2>2. CellOf(sh, i) \in Cells
    BY <2>1, CellIs
  <2>3. gdesc[sh][CellOf(sh, i)] # NoDesc
    BY <2>2 DEF RingOk, CellsFilled
  <2>4. QED
    BY <2>2, <2>3 DEF Typed, ModuleType
<1>5. \A i \in Ungathered(sh), j \in 0 .. Ring - 1 : i # j => CellOf(sh, i) # CellOf(sh, j)
  BY <1>3, CellsApart
<1>6. ASSUME bpc[sh] = "gather" PROVE todo[sh] \subseteq Ungathered(sh)
  <2>1. todo[sh] \subseteq 0 .. Gathered(sh) - 1 /\ Known(sh) \in 1 .. Live(sh)
    BY <1>6 DEF RingOk, CursorsOrdered
  <2>2. Gathered(sh) = IF Known(sh) < Warps THEN Known(sh) ELSE Warps
    BY DEF Gathered, Known
  <2>3. todo[sh] \subseteq 0 .. Live(sh) - 1
    BY <1>1, <2>1, <2>2
  <2>4. QED
    BY <1>6, <2>3 DEF Ungathered, Live
<1>7. QED
  BY <1>2, <1>3, <1>4, <1>5, <1>6

\* A shard whose ring a step leaves alone.
LEMMA RingSame ==
  ASSUME NEW z \in Shards, conf' = conf, gdesc'[z] = gdesc[z], head'[z] = head[z],
         tail'[z] = tail[z], s_tail'[z] = s_tail[z], s_head'[z] = s_head[z],
         bpc'[z] = bpc[z], todo'[z] = todo[z]
  PROVE  /\ RingOk(z) => RingOk(z)'
         /\ Live(z)' = Live(z) /\ Ungathered(z)' = Ungathered(z)
         /\ \A i : CellOf(z, i)' = CellOf(z, i)
<1>1. /\ Lag(z)' = Lag(z) /\ Live(z)' = Live(z) /\ Known(z)' = Known(z) /\ Gathered(z)' = Gathered(z)
      /\ Ring' = Ring /\ Cells' = Cells /\ \A i : CellOf(z, i)' = CellOf(z, i)
  BY DEF Lag, Live, Known, Gathered, Wrap, Ring, Cells, CellOf
<1>2. Ungathered(z)' = Ungathered(z)
  <2>1. 0 .. Wrap(head[z] - s_tail[z])' - 1 = 0 .. Wrap(head[z] - s_tail[z]) - 1
    BY DEF Wrap
  <2>2. QED
    BY <1>1, <2>1 DEF Ungathered, Wrap
<1>3. QED
  BY <1>1, <1>2 DEF RingOk, CursorsOrdered, CellsFilled

\* With room, the cell at the head is empty.
LEMMA HeadFree ==
  ASSUME Typed, NEW sh \in Shards, RingOk(sh), HasRoom(sh, head[sh])
  PROVE  /\ Lag(sh) + Live(sh) < Ring /\ Live(sh) \in 0 .. Ring - 1
         /\ CellOf(sh, Live(sh)) \in Cells
         /\ gdesc[sh][CellOf(sh, Live(sh))] = NoDesc
<1>1. /\ Live(sh) \in 0 .. Ring /\ Lag(sh) \in 0 .. Ring /\ Ring \in Nat \ {0}
      /\ Wrap(head[sh] - tail[sh]) = Lag(sh) + Live(sh)
  BY Distances DEF RingOk
<1>2. Lag(sh) + Live(sh) < Ring /\ Live(sh) \in 0 .. Ring - 1
  BY <1>1 DEF HasRoom
<1>3. Live(sh) \notin Ungathered(sh)
  BY <1>1, UngatheredIs
<1>4. CellOf(sh, Live(sh)) \in Cells
  BY <1>1, CellIs
<1>5. \A i \in Ungathered(sh) : CellOf(sh, i) # CellOf(sh, Live(sh))
  BY <1>2, <1>3, UngatheredIs
<1>6. QED
  BY <1>2, <1>4, <1>5 DEF RingOk, CellsFilled

LEMMA RingDeliver ==
  ASSUME Typed, NEW sh \in Shards, RingOk(sh), Alone(sh), NEW by \in Producers, DeliverRow(sh, by)
  PROVE  /\ RingOk(sh)'
         /\ Live(sh)' = Live(sh) + 1 /\ Ungathered(sh)' = Ungathered(sh) \cup {Live(sh)}
         /\ \A i : CellOf(sh, i)' = CellOf(sh, i)
<1>1. PICK b \in Bufs, r \in Rows, v \in Buf : Delivered(sh, by, b, r, v)
  BY DeliverIs
<1>2. /\ conf' = conf /\ s_tail' = s_tail /\ tail' = tail /\ s_head' = s_head /\ bpc' = bpc /\ todo' = todo
      /\ head' = [head EXCEPT ![sh] = Wrap(head[sh] + 1)] /\ HasRoom(sh, head[sh])
  BY <1>1 DEF DeliverRow, blockVars, Delivered
<1>3. /\ Ring' = Ring /\ Cells' = Cells /\ Lag(sh)' = Lag(sh) /\ Known(sh)' = Known(sh)
      /\ Gathered(sh)' = Gathered(sh) /\ \A i : CellOf(sh, i)' = CellOf(sh, i)
  BY <1>2 DEF Ring, Cells, Lag, Known, Gathered, CellOf, Wrap
<1>4. /\ Lag(sh) + Live(sh) < Ring /\ Live(sh) \in 0 .. Ring - 1
      /\ gdesc[sh][CellOf(sh, Live(sh))] = NoDesc /\ CellOf(sh, Live(sh)) \in Cells
  BY <1>2, HeadFree
<1>5. /\ conf.modulus \in Nat \ {0} /\ 2 * Ring <= conf.modulus /\ Ring \in Nat \ {0}
      /\ head[sh] \in 0 .. conf.modulus - 1 /\ s_tail[sh] \in 0 .. conf.modulus - 1
      /\ Known(sh) \in 0 .. conf.modulus - 1 /\ Lag(sh) \in 0 .. Ring /\ Warps \in Nat \ {0}
  BY Distances DEF RingOk
<1>6. Live(sh)' = Live(sh) + 1
  <2>1. 1 \in 0 .. conf.modulus - 1
    BY <1>5
  <2>2. ((head[sh] - s_tail[sh]) % conf.modulus) + 1 < conf.modulus
    BY <1>4, <1>5 DEF Live, Wrap
  <2>3. (((head[sh] + 1) % conf.modulus) - s_tail[sh]) % conf.modulus
           = ((head[sh] - s_tail[sh]) % conf.modulus) + 1
    BY <1>5, <2>1, <2>2, Ahead
  <2>4. head'[sh] = (head[sh] + 1) % conf.modulus
    BY <1>2 DEF Wrap, Typed, ModuleType
  <2>5. QED
    BY <1>2, <2>3, <2>4, Zenon DEF Live, Wrap
<1>7. CursorsOrdered(sh)'
  BY <1>2, <1>3, <1>4, <1>5, <1>6 DEF CursorsOrdered, RingOk
<1>8. Ungathered(sh)' = Ungathered(sh) \cup {Live(sh)}
  <2>1. bpc[sh] \in {"gather", "advance"} => Gathered(sh) <= Live(sh)
    <3>1. Gathered(sh) = IF Known(sh) < Warps THEN Known(sh) ELSE Warps
      BY DEF Gathered, Known
    <3>2. QED
      BY <1>4, <1>5, <3>1 DEF RingOk, CursorsOrdered
  <2>2. Gathered(sh) \in Int
    BY <1>5 DEF Gathered, Known
  <2>3. 0 .. Live(sh)' - 1 = (0 .. Live(sh) - 1) \cup {Live(sh)}
    BY <1>4, <1>5, <1>6
  <2>4. CASE bpc[sh] = "gather"
    <3>1. Ungathered(sh) = {i \in 0 .. Live(sh) - 1 : i >= Gathered(sh) \/ i \in todo[sh]}
      BY <2>4 DEF Ungathered, Live
    <3>2. Ungathered(sh)' = {i \in 0 .. Live(sh)' - 1 : i >= Gathered(sh)' \/ i \in todo'[sh]}
      BY <1>2, <2>4 DEF Ungathered, Live
    <3>3. QED
      BY <1>2, <1>3, <2>1, <2>3, <2>4, <3>1, <3>2
  <2>5. CASE bpc[sh] = "advance"
    <3>1. Ungathered(sh) = {i \in 0 .. Live(sh) - 1 : i >= Gathered(sh)}
      BY <2>5 DEF Ungathered, Live
    <3>2. Ungathered(sh)' = {i \in 0 .. Live(sh)' - 1 : i >= Gathered(sh)'}
      BY <1>2, <2>5 DEF Ungathered, Live
    <3>3. QED
      BY <1>3, <2>1, <2>3, <2>5, <3>1, <3>2
  <2>6. CASE bpc[sh] \notin {"gather", "advance"}
    <3>1. Ungathered(sh) = 0 .. Live(sh) - 1
      BY <2>6 DEF Ungathered, Live
    <3>2. Ungathered(sh)' = 0 .. Live(sh)' - 1
      BY <1>2, <2>6 DEF Ungathered, Live
    <3>3. QED
      BY <2>3, <3>1, <3>2
  <2>7. QED
    BY <2>4, <2>5, <2>6
<1>9. CellsFilled(sh)'
  <2>1. head[sh] % Ring = CellOf(sh, Live(sh))
    BY HeadCell
  <2>2. gdesc[sh] \in [Cells -> Desc \cup {NoDesc}] /\ gdesc \in [Shards -> [Cells -> Desc \cup {NoDesc}]]
    BY DEF Typed, ModuleType
  <2>3. \A c \in Cells : gdesc'[sh][c] = IF c = CellOf(sh, Live(sh))
                           THEN [row |-> r, buf |-> b, ok |-> buf[sh][b].state = "done"]
                           ELSE gdesc[sh][c]
    BY <1>1, <2>1, <2>2 DEF Delivered
  <2>4. [row |-> r, buf |-> b, ok |-> buf[sh][b].state = "done"] # NoDesc
    BY PullAssumption DEF NoDesc
  <2>5. \A c \in Cells : gdesc[sh][c] # NoDesc <=> \E i \in Ungathered(sh) : c = CellOf(sh, i)
    BY DEF RingOk, CellsFilled
  <2>6. \A c \in Cells : gdesc'[sh][c] # NoDesc
                           <=> c = CellOf(sh, Live(sh)) \/ \E i \in Ungathered(sh) : c = CellOf(sh, i)
    BY <1>4, <2>3, <2>4, <2>5
  <2>7. \A c \in Cells : (\E i \in Ungathered(sh)' : c = CellOf(sh, i)')
                           <=> c = CellOf(sh, Live(sh)) \/ \E i \in Ungathered(sh) : c = CellOf(sh, i)
    BY <1>3, <1>8
  <2>8. QED
    BY <1>3, <2>6, <2>7 DEF CellsFilled
<1>10. QED
  BY <1>3, <1>6, <1>7, <1>8, <1>9 DEF RingOk

\* The kernel is launched, with every block where its last one left.
LEMMA RingLaunch ==
  ASSUME Typed, NEW sh \in Shards, RingOk(sh), AllBlocksLeft, Launch,
         UNCHANGED <<conf, gdesc, head, tail, todo>>
  PROVE  /\ RingOk(sh)' /\ Live(sh)' = Live(sh) /\ Ungathered(sh)' = Ungathered(sh)
         /\ \A i : CellOf(sh, i)' = CellOf(sh, i)
         /\ s_tail'[sh] = s_tail[sh] /\ bpc'[sh] = "look"
<1>1. /\ bpc[sh] = "off" /\ bpc'[sh] = "look" /\ s_tail'[sh] = tail[sh] /\ s_tail[sh] = tail[sh]
      /\ s_head'[sh] = 0
  BY DEF AllBlocksLeft, Launch, RingOk, CursorsOrdered
<1>2. s_tail[sh] \in 0 .. conf.modulus - 1 /\ conf.modulus \in Nat \ {0}
  BY ConfFacts DEF Typed
<1>3. /\ Ring' = Ring /\ Cells' = Cells /\ Lag(sh)' = Lag(sh) /\ Live(sh)' = Live(sh)
      /\ \A i : CellOf(sh, i)' = CellOf(sh, i)
  BY <1>1 DEF Ring, Cells, Lag, Live, CellOf, Wrap
<1>4. Ungathered(sh) = 0 .. Live(sh) - 1 /\ Ungathered(sh)' = 0 .. Live(sh)' - 1
  BY <1>1 DEF Ungathered, Live
<1>5. CursorsOrdered(sh)'
  BY <1>1, <1>2, <1>3 DEF CursorsOrdered, RingOk
<1>6. QED
  BY <1>1, <1>3, <1>4, <1>5 DEF RingOk, CellsFilled

LEMMA RingTake ==
  ASSUME Typed, NEW sh \in Shards, RingOk(sh), Take(sh)
  PROVE  /\ Typed' /\ RingOk(sh)'
         /\ Live(sh)' = Live(sh) /\ Ungathered(sh)' = Ungathered(sh)
         /\ \A i : CellOf(sh, i)' = CellOf(sh, i)
<1>1. /\ conf' = conf /\ s_tail' = s_tail /\ tail' = tail /\ head' = head /\ gdesc' = gdesc
      /\ bpc[sh] = "look" /\ Avail(sh) > 0
      /\ s_head' = [s_head EXCEPT ![sh] = KnownHead(sh)]
      /\ todo' = [todo EXCEPT ![sh] = 0 .. Avail(sh) - 1]
      /\ bpc' = [bpc EXCEPT ![sh] = "gather"]
      /\ UNCHANGED <<hostVars, kernelVars, seen, pub, g_done, out, failed>>
  BY DEF Take, ringVars
<1>2. /\ conf.modulus \in Nat \ {0} /\ Ring \in Nat \ {0}
      /\ head[sh] \in 0 .. conf.modulus - 1 /\ s_tail[sh] \in 0 .. conf.modulus - 1
      /\ s_head[sh] \in 0 .. conf.modulus - 1 /\ Live(sh) \in 0 .. Ring
      /\ Known(sh) \in 0 .. conf.modulus - 1 /\ Lag(sh) \in 0 .. Ring /\ Warps \in Nat \ {0}
  BY Distances DEF RingOk
<1> DEFINE av == Wrap(KnownHead(sh) - s_tail[sh])
<1>3. KnownHead(sh) \in 0 .. conf.modulus - 1 /\ av \in 0 .. Live(sh)
  <2>1. CASE s_tail[sh] >= s_head[sh]
    <3>1. KnownHead(sh) = head[sh]
      BY <2>1 DEF KnownHead
    <3>2. av = Live(sh)
      BY <3>1 DEF Live
    <3>3. QED
      BY <1>2, <3>1, <3>2
  <2>2. CASE ~(s_tail[sh] >= s_head[sh])
    <3>1. KnownHead(sh) = s_head[sh]
      BY <2>2 DEF KnownHead
    <3>2. av = Known(sh) /\ Known(sh) <= Live(sh)
      BY <1>1, <2>2, <3>1 DEF Known, RingOk, CursorsOrdered
    <3>3. QED
      BY <1>2, <3>1, <3>2
  <2>3. QED
    BY <2>1, <2>2
<1>4. Avail(sh) = IF av < Warps THEN av ELSE Warps
  BY DEF Avail
<1>5. av > 0 /\ Avail(sh) \in 1 .. Warps
  BY <1>1, <1>2, <1>3, <1>4
<1>6. s_head'[sh] = KnownHead(sh) /\ todo'[sh] = 0 .. Avail(sh) - 1 /\ bpc'[sh] = "gather"
  BY <1>1 DEF Typed
<1>7. /\ Ring' = Ring /\ Cells' = Cells /\ Lag(sh)' = Lag(sh) /\ Live(sh)' = Live(sh)
      /\ \A i : CellOf(sh, i)' = CellOf(sh, i)
  BY <1>1 DEF Ring, Cells, Lag, Live, CellOf, Wrap
<1>8. Known(sh)' = av /\ Gathered(sh)' = Avail(sh)
  BY <1>1, <1>6 DEF Known, Gathered, Avail, Wrap
<1>9. Ungathered(sh)' = Ungathered(sh)
  <2>1. Ungathered(sh) = 0 .. Live(sh) - 1
    BY <1>1 DEF Ungathered, Live
  <2>2. Ungathered(sh)' = {i \in 0 .. Live(sh)' - 1 : i >= Gathered(sh)' \/ i \in todo'[sh]}
    BY <1>6 DEF Ungathered, Live
  <2>3. \A i \in 0 .. Live(sh) - 1 : i >= Avail(sh) \/ i \in 0 .. Avail(sh) - 1
    BY <1>2, <1>5
  <2>4. QED
    BY <1>6, <1>7, <1>8, <2>1, <2>2, <2>3
<1>10. CursorsOrdered(sh)'
  BY <1>2, <1>3, <1>5, <1>6, <1>7, <1>8 DEF CursorsOrdered, RingOk
<1>11. CellsFilled(sh)'
  BY <1>1, <1>7, <1>9 DEF CellsFilled, RingOk
<1>12. Typed'
  <2>1. 0 .. Avail(sh) - 1 \in SUBSET (0 .. Warps - 1)
    BY <1>2, <1>5
  <2>2. todo' \in [Shards -> SUBSET (0 .. Warps - 1)]
    BY <1>1, <2>1 DEF Typed
  <2>3. s_head' \in [Shards -> 0 .. conf.modulus - 1]
    BY <1>1, <1>3 DEF Typed
  <2>4. bpc' \in [Shards -> {"off", "look", "gather", "advance"}]
    BY <1>1 DEF Typed
  <2>5. HostType'
    BY <1>1 DEF HostType, Typed, hostVars
  <2>6. ModuleType'
    BY <1>1 DEF ModuleType, Typed, kernelVars, Buf, Pages, Cells, Ring
  <2>7. QED
    BY <1>1, <2>2, <2>3, <2>4, <2>5, <2>6 DEF Typed, Pages
<1>13. QED
  BY <1>7, <1>9, <1>10, <1>11, <1>12 DEF RingOk

LEMMA RingGather ==
  ASSUME Typed, NEW sh \in Shards, RingOk(sh), NEW w \in todo[sh], GatherRow(sh), Gathers(sh, w)
  PROVE  /\ Typed' /\ RingOk(sh)'
         /\ w \in Ungathered(sh) /\ Live(sh)' = Live(sh) /\ Ungathered(sh)' = Ungathered(sh) \ {w}
         /\ \A i : CellOf(sh, i)' = CellOf(sh, i)
         /\ gdesc[sh][CellOf(sh, w)] \in Desc /\ CellOf(sh, w) \in Cells
         /\ \A c \in Cells : gdesc'[sh][c] = IF c = CellOf(sh, w) THEN NoDesc ELSE gdesc[sh][c]
<1>1. /\ UNCHANGED <<conf, hostVars, kernelVars, head, seen, tail, s_tail, s_head, pub, failed>>
      /\ bpc[sh] = "gather"
  BY DEF GatherRow
<1>2. /\ w \in Ungathered(sh) /\ CellOf(sh, w) \in Cells
      /\ gdesc[sh][CellOf(sh, w)] \in Desc /\ gdesc[sh][CellOf(sh, w)] # NoDesc
      /\ \A i \in Ungathered(sh) : i # w => CellOf(sh, i) # CellOf(sh, w)
      /\ todo[sh] \subseteq Ungathered(sh)
  BY <1>1, UngatheredIs
<1>3. PICK d \in Desc : d = gdesc[sh][CellOf(sh, w)]
  BY <1>2
<1>4. d.row \in Rows /\ d.buf \in Bufs /\ BatchOf[d.row] \in 0 .. Depth - 1
  <2>1. d.row \in Rows /\ d.buf \in Bufs
    BY <1>3 DEF Desc
  <2>2. QED
    BY <2>1, ShardIs
<1>5. /\ out' = IF d.ok THEN [out EXCEPT ![d.row] = buf[sh][d.buf].data] ELSE out
      /\ g_done' = [g_done EXCEPT ![BatchOf[d.row]] = @ + 1]
      /\ gdesc' = [gdesc EXCEPT ![sh][CellOf(sh, w)] = NoDesc]
      /\ todo' = [todo EXCEPT ![sh] = @ \ {w}]
      /\ bpc' = [bpc EXCEPT ![sh] = IF todo[sh] = {w} THEN "advance" ELSE @]
  BY <1>3 DEF Gathers
<1>6. /\ todo'[sh] = todo[sh] \ {w} /\ bpc'[sh] = IF todo[sh] = {w} THEN "advance" ELSE "gather"
  BY <1>1, <1>5 DEF Typed
<1>7. /\ Ring' = Ring /\ Cells' = Cells /\ Lag(sh)' = Lag(sh) /\ Live(sh)' = Live(sh)
      /\ Known(sh)' = Known(sh) /\ Gathered(sh)' = Gathered(sh) /\ \A i : CellOf(sh, i)' = CellOf(sh, i)
  BY <1>1 DEF Ring, Cells, Lag, Live, Known, Gathered, CellOf, Wrap
<1>8. \A c \in Cells : gdesc'[sh][c] = IF c = CellOf(sh, w) THEN NoDesc ELSE gdesc[sh][c]
  BY <1>5 DEF Typed, ModuleType
<1>9. CursorsOrdered(sh)'
  BY <1>1, <1>6, <1>7 DEF CursorsOrdered, RingOk
<1>10. Ungathered(sh)' = Ungathered(sh) \ {w}
  <2>1. Ungathered(sh) = {i \in 0 .. Live(sh) - 1 : i >= Gathered(sh) \/ i \in todo[sh]}
    BY <1>1 DEF Ungathered, Live
  <2>2. w < Gathered(sh) /\ w \in Int /\ Gathered(sh) \in Int
    <3>1. Gathered(sh) \in Int /\ Warps \in Nat /\ Known(sh) \in Int
      BY Distances DEF Gathered, Known, RingOk
    <3>2. QED
      BY <1>1, <3>1 DEF CursorsOrdered, RingOk
  <2>3. CASE todo[sh] = {w}
    <3>1. Ungathered(sh)' = {i \in 0 .. Live(sh)' - 1 : i >= Gathered(sh)'}
      BY <1>6, <2>3 DEF Ungathered, Live
    <3>2. \A i \in 0 .. Live(sh) - 1 : i \in Int
      BY Distances DEF RingOk
    <3>3. QED
      BY <1>7, <2>1, <2>2, <2>3, <3>1, <3>2
  <2>4. CASE todo[sh] # {w}
    <3>1. Ungathered(sh)' = {i \in 0 .. Live(sh)' - 1 : i >= Gathered(sh)' \/ i \in todo'[sh]}
      BY <1>6, <2>4 DEF Ungathered, Live
    <3>2. QED
      BY <1>6, <1>7, <2>1, <2>2, <3>1
  <2>5. QED
    BY <2>3, <2>4
<1>11. CellsFilled(sh)'
  <2>1. \A c \in Cells : gdesc[sh][c] # NoDesc <=> \E i \in Ungathered(sh) : c = CellOf(sh, i)
    BY DEF RingOk, CellsFilled
  <2>2. \A c \in Cells : (\E i \in Ungathered(sh) \ {w} : c = CellOf(sh, i))
                           <=> c # CellOf(sh, w) /\ \E i \in Ungathered(sh) : c = CellOf(sh, i)
    BY <1>2
  <2>3. \A c \in Cells : gdesc'[sh][c] # NoDesc <=> \E i \in Ungathered(sh) \ {w} : c = CellOf(sh, i)
    BY <1>8, <2>1, <2>2
  <2>4. QED
    BY <1>7, <1>10, <2>3 DEF CellsFilled
<1>12. Typed'
  <2>1. buf[sh][d.buf].data \in Pages \cup {NoPage}
    BY <1>4, BufIs
  <2>2. out' \in [Rows -> Pages \cup {Stale, NoPage}]
    BY <1>4, <1>5, <2>1 DEF Typed
  <2>3. g_done' \in [0 .. Depth - 1 -> Nat]
    BY <1>4, <1>5 DEF Typed
  <2>4. gdesc' \in [Shards -> [Cells -> Desc \cup {NoDesc}]]
    BY <1>2, <1>5 DEF Typed, ModuleType
  <2>5. todo' \in [Shards -> SUBSET (0 .. Warps - 1)]
    BY <1>5 DEF Typed
  <2>6. bpc' \in [Shards -> {"off", "look", "gather", "advance"}]
    BY <1>5 DEF Typed
  <2>7. HostType'
    BY <1>1 DEF HostType, Typed, hostVars
  <2>8. ModuleType'
    BY <1>1, <1>7, <2>4 DEF ModuleType, Typed, kernelVars, Buf, Pages
  <2>9. QED
    BY <1>1, <2>2, <2>3, <2>5, <2>6, <2>7, <2>8 DEF Typed, Pages
<1>13. QED
  BY <1>2, <1>7, <1>8, <1>9, <1>10, <1>11, <1>12 DEF RingOk

LEMMA RingAdvance ==
  ASSUME Typed, NEW sh \in Shards, RingOk(sh), Advance(sh)
  PROVE  /\ Typed' /\ RingOk(sh)'
         /\ \E g \in Nat :
              /\ Live(sh)' = Live(sh) - g /\ g <= Live(sh)
              /\ Ungathered(sh) = {i + g : i \in Ungathered(sh)'}
              /\ \A i \in Int : CellOf(sh, i)' = CellOf(sh, i + g)
              /\ s_tail'[sh] = Wrap(s_tail[sh] + g)
<1> DEFINE g == Gathered(sh)
           t == NextTail(sh)
<1>1. /\ conf' = conf /\ head' = head /\ gdesc' = gdesc /\ s_head' = s_head /\ todo' = todo
      /\ bpc[sh] = "advance" /\ bpc' = [bpc EXCEPT ![sh] = "look"]
      /\ s_tail' = [s_tail EXCEPT ![sh] = t]
      /\ tail' = [tail EXCEPT ![sh] = IF PublishNow(sh, t) THEN t ELSE @]
      /\ pub' = [pub EXCEPT ![sh] = IF PublishNow(sh, t) THEN t ELSE @]
      /\ UNCHANGED <<hostVars, kernelVars, seen, g_done, out, failed>>
  BY DEF Advance, ringVars
<1>2. /\ conf.modulus \in Nat \ {0} /\ Ring \in Nat \ {0} /\ 2 * Ring <= conf.modulus
      /\ head[sh] \in 0 .. conf.modulus - 1 /\ s_tail[sh] \in 0 .. conf.modulus - 1
      /\ tail[sh] \in 0 .. conf.modulus - 1
      /\ s_head[sh] \in 0 .. conf.modulus - 1 /\ Live(sh) \in 0 .. Ring
      /\ Known(sh) \in 0 .. conf.modulus - 1 /\ Lag(sh) \in 0 .. Ring /\ Warps \in Nat \ {0}
  BY Distances DEF RingOk
<1>3. Known(sh) \in 1 .. Live(sh) /\ Lag(sh) + Live(sh) <= Ring
  BY <1>1 DEF RingOk, CursorsOrdered
<1>4. g = IF Known(sh) < Warps THEN Known(sh) ELSE Warps
  BY DEF Gathered, Known
<1>5. g \in Nat /\ g <= Known(sh) /\ g <= Live(sh) /\ g \in 0 .. conf.modulus - 1
      /\ Lag(sh) + g < conf.modulus
  BY <1>2, <1>3, <1>4
<1>6. t = Wrap(s_tail[sh] + g)
  BY DEF NextTail
<1> HIDE DEF g, t
<1>7. t \in 0 .. conf.modulus - 1
  BY <1>2, <1>5, <1>6, Onward DEF Wrap
<1>8. Wrap(head[sh] - t) = Live(sh) - g
  <2>1. g <= (head[sh] - s_tail[sh]) % conf.modulus
    BY <1>5 DEF Live, Wrap
  <2>2. (head[sh] - ((s_tail[sh] + g) % conf.modulus)) % conf.modulus
          = ((head[sh] - s_tail[sh]) % conf.modulus) - g
    <3>1. /\ head[sh] \in 0 .. conf.modulus - 1 /\ s_tail[sh] \in 0 .. conf.modulus - 1
          /\ conf.modulus \in Nat \ {0} /\ g \in 0 .. conf.modulus - 1
      BY <1>2, <1>5
    <3>2. QED
      BY <2>1, <3>1, Behind, Zenon
  <2>3. QED
    BY <1>6, <2>2, Zenon DEF Live, Wrap
<1>9. Wrap(s_head[sh] - t) = Known(sh) - g
  <2>1. g <= (s_head[sh] - s_tail[sh]) % conf.modulus
    BY <1>5 DEF Known, Wrap
  <2>2. (s_head[sh] - ((s_tail[sh] + g) % conf.modulus)) % conf.modulus
          = ((s_head[sh] - s_tail[sh]) % conf.modulus) - g
    BY <1>2, <1>5, <2>1, Behind
  <2>3. QED
    BY <1>6, <2>2, Zenon DEF Known, Wrap
<1>10. Wrap(t - tail[sh]) = Lag(sh) + g
  <2>1. ((s_tail[sh] - tail[sh]) % conf.modulus) + g < conf.modulus
    BY <1>5 DEF Lag, Wrap
  <2>2. (((s_tail[sh] + g) % conf.modulus) - tail[sh]) % conf.modulus
          = ((s_tail[sh] - tail[sh]) % conf.modulus) + g
    BY <1>2, <1>5, <2>1, Ahead
  <2>3. QED
    BY <1>6, <2>2, Zenon DEF Lag, Wrap
<1>11. Wrap(t - t) = 0
  <2>1. t - t = 0
    BY <1>7, <1>2
  <2>2. QED
    BY <1>2, <2>1, ModSmall DEF Wrap
<1>12. /\ s_tail'[sh] = t /\ bpc'[sh] = "look" /\ tail'[sh] \in {t, tail[sh]} /\ todo'[sh] = todo[sh]
  BY <1>1 DEF Typed
<1>13. /\ Ring' = Ring /\ Cells' = Cells /\ Live(sh)' = Live(sh) - g /\ Known(sh)' = Known(sh) - g
       /\ Lag(sh)' \in {0, Lag(sh) + g}
  BY <1>1, <1>8, <1>9, <1>10, <1>11, <1>12 DEF Ring, Cells, Lag, Live, Known, Wrap
<1>14. CursorsOrdered(sh)'
  BY <1>2, <1>3, <1>5, <1>12, <1>13 DEF CursorsOrdered
<1>15. \A i \in Int : CellOf(sh, i)' = CellOf(sh, i + g)
  <2>1. SUFFICES ASSUME NEW i \in Int PROVE CellOf(sh, i)' = CellOf(sh, i + g)
    OBVIOUS
  <2>2. CellOf(sh, i)' = Wrap(t + i) % Ring
    BY <1>1, <1>12 DEF CellOf, Wrap, Ring
  <2>3. Wrap(t + i) = Wrap((s_tail[sh] + g) + i)
    <3>1. s_tail[sh] + g \in Int /\ i \in Int
      BY <1>2, <1>5
    <3>2. (((s_tail[sh] + g) % conf.modulus) + i) % conf.modulus
            = ((s_tail[sh] + g) + i) % conf.modulus
      BY <1>2, <3>1, ModPlus
    <3>3. QED
      BY <1>6, <3>2 DEF Wrap
  <2>4. (s_tail[sh] + g) + i = s_tail[sh] + (i + g)
    BY <1>2, <1>5
  <2>5. QED
    BY <2>2, <2>3, <2>4, Zenon DEF CellOf
<1>16. Ungathered(sh) = {i + g : i \in Ungathered(sh)'}
  <2>1. Ungathered(sh) = {i \in 0 .. Live(sh) - 1 : i >= g}
    BY <1>1 DEF Ungathered, Live, g
  <2>2. Ungathered(sh)' = 0 .. Live(sh) - g - 1
    <3>1. Ungathered(sh)' = 0 .. Live(sh)' - 1
      BY <1>12 DEF Ungathered, Live
    <3>2. QED
      BY <1>13, <3>1
  <2>3. ASSUME NEW i \in 0 .. Live(sh) - 1, i >= g
        PROVE  i - g \in 0 .. Live(sh) - g - 1 /\ i = (i - g) + g
    BY <1>2, <1>5, <2>3
  <2>4. ASSUME NEW i \in 0 .. Live(sh) - g - 1
        PROVE  i + g \in 0 .. Live(sh) - 1 /\ i + g >= g
    BY <1>2, <1>5
  <2>5. QED
    BY <2>1, <2>2, <2>3, <2>4
<1>17. CellsFilled(sh)'
  <2>1. \A c \in Cells : gdesc[sh][c] # NoDesc <=> \E i \in Ungathered(sh) : c = CellOf(sh, i)
    BY DEF RingOk, CellsFilled
  <2>2. \A i \in Ungathered(sh)' : i \in Int
    <3>1. Ungathered(sh)' = 0 .. Live(sh)' - 1
      BY <1>12 DEF Ungathered, Live
    <3>2. QED
      BY <1>2, <1>5, <1>13, <3>1
  <2>3. \A i \in Ungathered(sh)' : CellOf(sh, i)' = CellOf(sh, i + g)
    BY <1>15, <2>2
  <2>4. \A c \in Cells : (\E i \in Ungathered(sh) : c = CellOf(sh, i))
                           <=> \E i \in Ungathered(sh)' : c = CellOf(sh, i + g)
    BY <1>16
  <2>5. \A c \in Cells : (\E i \in Ungathered(sh)' : c = CellOf(sh, i + g))
                           <=> \E i \in Ungathered(sh)' : c = CellOf(sh, i)'
    BY <2>3
  <2>6. QED
    BY <1>1, <1>13, <2>1, <2>4, <2>5 DEF CellsFilled
<1>18. Typed'
  <2>1. s_tail' \in [Shards -> 0 .. conf.modulus - 1] /\ tail' \in [Shards -> 0 .. conf.modulus - 1]
        /\ pub' \in [Shards -> 0 .. conf.modulus - 1]
    BY <1>1, <1>7 DEF Typed
  <2>2. bpc' \in [Shards -> {"off", "look", "gather", "advance"}]
    BY <1>1 DEF Typed
  <2>3. HostType'
    BY <1>1 DEF HostType, Typed, hostVars
  <2>4. ModuleType'
    BY <1>1 DEF ModuleType, Typed, kernelVars, Buf, Pages, Cells, Ring
  <2>5. QED
    BY <1>1, <2>1, <2>2, <2>3, <2>4 DEF Typed, Pages
<1>19. QED
  BY <1>5, <1>6, <1>12, <1>13, <1>14, <1>15, <1>16, <1>17, <1>18 DEF RingOk

LEMMA RingLeave ==
  ASSUME Typed, NEW sh \in Shards, RingOk(sh), Leave(sh)
  PROVE  /\ Typed' /\ RingOk(sh)'
         /\ Live(sh)' = Live(sh) /\ Ungathered(sh)' = Ungathered(sh)
         /\ \A i : CellOf(sh, i)' = CellOf(sh, i)
<1>1. /\ conf' = conf /\ head' = head /\ gdesc' = gdesc /\ s_tail' = s_tail /\ todo' = todo
      /\ bpc[sh] = "look" /\ bpc' = [bpc EXCEPT ![sh] = "off"]
      /\ tail' = [tail EXCEPT ![sh] = s_tail[sh]] /\ pub' = [pub EXCEPT ![sh] = s_tail[sh]]
      /\ s_head' = [s_head EXCEPT ![sh] = 0]
      /\ UNCHANGED <<hostVars, kernelVars, seen, g_done, out, failed>>
  BY DEF Leave, ringVars
<1>2. /\ conf.modulus \in Nat \ {0} /\ Ring \in Nat \ {0}
      /\ s_tail[sh] \in 0 .. conf.modulus - 1 /\ Live(sh) \in 0 .. Ring /\ Lag(sh) \in 0 .. Ring
  BY Distances DEF RingOk
<1>3. /\ tail'[sh] = s_tail[sh] /\ bpc'[sh] = "off"
  BY <1>1 DEF Typed
<1>4. /\ Ring' = Ring /\ Cells' = Cells /\ Live(sh)' = Live(sh)
      /\ \A i : CellOf(sh, i)' = CellOf(sh, i)
  BY <1>1 DEF Ring, Cells, Live, CellOf, Wrap
<1>5. Lag(sh)' = 0
  <2>1. Lag(sh)' = (s_tail[sh] - s_tail[sh]) % conf.modulus
    BY <1>1, <1>3 DEF Lag, Wrap
  <2>2. s_tail[sh] - s_tail[sh] = 0
    BY <1>2
  <2>3. QED
    BY <1>2, <2>1, <2>2, ModSmall
<1>6. CursorsOrdered(sh)'
  BY <1>1, <1>2, <1>3, <1>4, <1>5 DEF CursorsOrdered
<1>7. Ungathered(sh)' = Ungathered(sh)
  <2>1. Ungathered(sh) = 0 .. Live(sh) - 1 /\ Ungathered(sh)' = 0 .. Live(sh)' - 1
    BY <1>1, <1>3 DEF Ungathered, Live
  <2>2. QED
    BY <1>4, <2>1
<1>8. CellsFilled(sh)'
  BY <1>1, <1>4, <1>7 DEF CellsFilled, RingOk
<1>9. Typed'
  <2>1. /\ tail' \in [Shards -> 0 .. conf.modulus - 1] /\ pub' \in [Shards -> 0 .. conf.modulus - 1]
        /\ s_head' \in [Shards -> 0 .. conf.modulus - 1]
    <3>1. 0 \in 0 .. conf.modulus - 1
      BY <1>2
    <3>2. QED
      BY <1>1, <1>2, <3>1 DEF Typed
  <2>2. bpc' \in [Shards -> {"off", "look", "gather", "advance"}]
    BY <1>1 DEF Typed
  <2>3. HostType'
    BY <1>1 DEF HostType, Typed, hostVars
  <2>4. ModuleType'
    BY <1>1 DEF ModuleType, Typed, kernelVars, Buf, Pages, Cells, Ring
  <2>5. QED
    BY <1>1, <2>1, <2>2, <2>3, <2>4 DEF Typed, Pages
<1>10. QED
  BY <1>4, <1>6, <1>7, <1>8, <1>9 DEF RingOk
-----------------------------------------------------------------------------
(* Where the rows are.                                                      *)

\* A shard whose rows a step leaves where they are.
LEMMA UnderSame ==
  ASSUME NEW z \in Shards, conf' = conf, rq'[z] = rq[z], gdesc'[z] = gdesc[z],
         \A b \in Bufs : buf'[z][b].waiters = buf[z][b].waiters
  PROVE  /\ Asked(z)' = Asked(z) /\ OnRing(z)' = OnRing(z) /\ Under(z)' = Under(z)
         /\ Placed(z) /\ (\A r \in Under(z) : r \notin toPush') => Placed(z)'
<1>1. Cells' = Cells
  BY DEF Cells, Ring
<1>2. Asked(z)' = Asked(z)
  BY DEF Asked
<1>3. OnRing(z)' = OnRing(z)
  BY <1>1 DEF OnRing
<1>4. Under(z)' = Under(z)
  BY <1>2, <1>3 DEF Under
<1>5. ASSUME Placed(z), \A r \in Under(z) : r \notin toPush'
      PROVE  Placed(z)'
  BY <1>1, <1>2, <1>3, <1>4, <1>5 DEF Placed
<1>6. QED
  BY <1>2, <1>3, <1>4, <1>5

LEMMA OutSame ==
  ASSUME toPush' = toPush, \A z \in Shards : Under(z)' = Under(z)
  PROVE  Out' = Out
BY DEF Out

\* A row that waits on a ring, in a set or for a buffer is a row.
LEMMA UnderRows ==
  ASSUME Typed, NEW z \in Shards
  PROVE  /\ Under(z) \subseteq Rows /\ rq[z] \subseteq Rows
         /\ Asked(z) \subseteq Rows /\ OnRing(z) \subseteq Rows
         /\ \A b \in Bufs : buf[z][b].waiters \subseteq Asked(z)
<1>1. rq[z] \subseteq Rows /\ Asked(z) \subseteq Rows /\ OnRing(z) \subseteq Rows
  BY DEF Typed, ModuleType, Asked, OnRing
<1>2. \A b \in Bufs : buf[z][b].waiters \subseteq Asked(z)
  BY BufIs DEF Asked
<1>3. QED
  BY <1>1, <1>2 DEF Under

LEMMA PlaceInit == Init => PlaceInv /\ Out = {}
<1> SUFFICES ASSUME Init PROVE PlaceInv /\ Out = {}
  OBVIOUS
<1>1. Typed
  BY TypedInit
<1>2. conf.modulus \in Nat \ {0} /\ Ring \in Nat \ {0}
  BY <1>1, ConfFacts DEF Typed
<1>3. ASSUME NEW sh \in Shards
      PROVE  RingOk(sh) /\ Placed(sh) /\ WaitersKept(sh) /\ Under(sh) = {}
  <2>1. /\ head[sh] = 0 /\ tail[sh] = 0 /\ s_tail[sh] = 0 /\ bpc[sh] = "off"
        /\ \A c \in Cells : gdesc[sh][c] = NoDesc
        /\ \A b \in Bufs : buf[sh][b].waiters = {} /\ buf[sh][b].state = "free"
        /\ rq[sh] = {} /\ toPush = {}
    BY DEF Init
  <2>2. Wrap(0) = 0
    BY <1>2, ModSmall DEF Wrap
  <2>3. Lag(sh) = 0 /\ Live(sh) = 0
    BY <2>1, <2>2 DEF Lag, Live
  <2>4. Ungathered(sh) = {}
    BY <2>1, <2>2 DEF Ungathered
  <2>5. RingOk(sh)
    BY <1>2, <2>1, <2>3, <2>4 DEF RingOk, CursorsOrdered, CellsFilled
  <2>6. Asked(sh) = {}
    BY <2>1 DEF Asked
  <2>7. OnRing(sh) = {}
    BY <2>1, PullAssumption DEF OnRing, NoDesc
  <2>8. Under(sh) = {}
    BY <2>1, <2>6, <2>7 DEF Under
  <2>9. Placed(sh) /\ WaitersKept(sh)
    BY <2>1, <2>6, <2>7, <2>8 DEF Placed, WaitersKept
  <2>10. QED
    BY <2>5, <2>8, <2>9
<1>4. Out = {}
  BY <1>3 DEF Out, Init
<1>5. QED
  BY <1>1, <1>3, <1>4 DEF PlaceInv, RingInv, RingOk, Init

\* Requests pushed: from the caller to its shard.
LEMMA PlacePushRow ==
  ASSUME PlaceInv, PushRow
  PROVE  PlaceInv' /\ Out' = Out
<1> USE DEF PlaceInv, RingInv
<1>1. PICK r \in toPush : rq' = [rq EXCEPT ![ShardOf(r)] = @ \cup {r}] /\ toPush' = toPush \ {r}
  BY DEF PushRow
<1>2. /\ UNCHANGED <<conf, hpc, slot, buf, ringVars, blockVars>>
      /\ r \in Rows /\ ShardOf(r) \in Shards /\ r \in conf.rows
  <2>1. r \in Rows /\ r \in conf.rows
    BY DEF RowsOf, Typed, HostType
  <2>2. QED
    BY <2>1, ShardIs DEF PushRow
<1>3. Typed'
  BY HostTyped DEF HostStep
<1>4. \A z \in Shards : RingOk(z)'
  BY <1>2, RingSame DEF RingOk, ringVars, blockVars
<1>5. ASSUME NEW z \in Shards
      PROVE  /\ Placed(z)' /\ WaitersKept(z)'
             /\ Under(z)' = IF z = ShardOf(r) THEN Under(z) \cup {r} ELSE Under(z)
  <2>1. WaitersKept(z)'
    BY <1>2 DEF WaitersKept
  <2>2. CASE z # ShardOf(r)
    <3>1. rq'[z] = rq[z]
      BY <1>1, <2>2 DEF Typed, ModuleType
    <3>2. QED
      BY <1>1, <1>2, <2>1, <2>2, <3>1, UnderSame DEF ringVars, Placed
  <2>3. CASE z = ShardOf(r)
    <3>1. rq'[z] = rq[z] \cup {r}
      BY <1>1, <1>2, <2>3 DEF Typed, ModuleType
    <3>2. Cells' = Cells /\ Asked(z)' = Asked(z) /\ OnRing(z)' = OnRing(z) /\ gdesc' = gdesc
      BY <1>2 DEF Cells, Ring, Asked, OnRing, ringVars
    <3>3. Under(z)' = Under(z) \cup {r}
      BY <3>1, <3>2 DEF Under
    <3>4. r \notin Under(z)
      BY DEF Placed
    <3>5. Placed(z)'
      <4>1. \A q \in Under(z)' : q \in conf.rows' /\ ShardOf(q)' = z /\ q \notin toPush'
        BY <1>1, <1>2, <2>3, <3>3, <3>4 DEF Placed, ShardOf
      <4>2. rq'[z] \cap Asked(z)' = {} /\ rq'[z] \cap OnRing(z)' = {}
        BY <3>1, <3>2, <3>4 DEF Placed, Under
      <4>3. QED
        BY <1>2, <3>2, <4>1, <4>2 DEF Placed
    <3>6. QED
      BY <2>1, <2>3, <3>3, <3>5
  <2>4. QED
    BY <2>2, <2>3
<1>6. toPush' \subseteq RowsOf(slot)' /\ (toPush' # {} => hpc' = "push")
  BY <1>1, <1>2 DEF RowsOf
<1>7. Out' = Out
  BY <1>1, <1>2, <1>5 DEF Out
<1>8. QED
  BY <1>3, <1>4, <1>5, <1>6, <1>7 DEF RingOk

\* The other steps of the host, with the slot's own rows to push or none.
LEMMA PlaceHost ==
  ASSUME PlaceInv, HostStep, ~PushRow, BlocksLeave,
         StartPush => Out \cap RowsOf(newest) = {}
  PROVE  PlaceInv' /\ Out' = IF StartPush THEN Out \cup RowsOf(newest) ELSE Out
<1> USE DEF PlaceInv, RingInv
<1>1. Typed'
  BY HostTyped
<1>2. /\ UNCHANGED <<conf, rq, buf, ringVars, todo>>
  BY DEF HostStep, StartPush, PushOver, StartDrain, DrainOver, kernelVars, blockVars
<1>3. \A z \in Shards : RingOk(z)'
  <2>1. CASE Launch /\ AllBlocksLeft /\ tail' = tail
    BY <1>2, <2>1, RingLaunch DEF RingOk, ringVars
  <2>2. CASE UNCHANGED <<bpc, s_tail, s_head, tail>>
    BY <1>2, <2>2, RingSame DEF RingOk, ringVars
  <2>3. (Launch /\ AllBlocksLeft /\ tail' = tail) \/ UNCHANGED <<bpc, s_tail, s_head, tail>>
    BY DEF HostStep, StartPush, PushOver, StartDrain, DrainOver, blockVars, BlocksLeave, KernelRuns
  <2>4. QED
    BY <2>1, <2>2, <2>3
<1>4. CASE StartPush
  <2>1. toPush = {} /\ toPush' = RowsOf(newest) /\ slot' = newest /\ hpc' = "push"
    BY <1>4 DEF StartPush
  <2>2. ASSUME NEW z \in Shards
        PROVE  Under(z)' = Under(z) /\ Placed(z)' /\ WaitersKept(z)'
    <3>1. \A r \in Under(z) : r \notin toPush'
      BY <1>4, <2>1, UnderRows DEF Out
    <3>2. QED
      BY <1>2, <3>1, UnderSame DEF ringVars, WaitersKept
  <2>3. Out' = Out \cup RowsOf(newest)
    BY <2>1, <2>2 DEF Out
  <2>4. toPush' \subseteq RowsOf(slot)'
    BY <1>2, <2>1 DEF RowsOf
  <2>5. QED
    BY <1>1, <1>3, <1>4, <2>1, <2>2, <2>3, <2>4 DEF RingOk
<1>5. CASE ~StartPush
  <2>1. toPush = {} /\ toPush' = {}
    BY <1>5 DEF HostStep, PushOver, StartDrain, DrainOver
  <2>2. ASSUME NEW z \in Shards
        PROVE  Under(z)' = Under(z) /\ Placed(z)' /\ WaitersKept(z)'
    BY <1>2, <2>1, UnderSame DEF ringVars, WaitersKept
  <2>3. Out' = Out
    BY <2>1, <2>2, OutSame
  <2>4. QED
    BY <1>1, <1>3, <1>5, <2>1, <2>2, <2>3 DEF RingOk
<1>6. QED
  BY <1>4, <1>5

\* Steps that move a row within its shard, or none.
LEMMA PlaceIssue ==
  ASSUME PlaceInv, \A z \in Shards : Alone(z) /\ Windowed(z), NEW sh \in Shards, Issue(sh)
  PROVE  PlaceInv' /\ Out' = Out
<1> USE DEF PlaceInv, RingInv
<1>1. PICK b \in Bufs, R \in SUBSET Rows, v \in Buf : Issued(sh, b, R, v)
  BY IssueIs
<1>2. UNCHANGED <<conf, toPush, hpc, slot, gdesc, head, blockVars>>
  BY DEF Issue, hostVars
<1>3. Typed'
  BY ModuleTyped
<1>4. \A z \in Shards : RingOk(z)'
  BY <1>2, RingSame DEF RingOk, blockVars
<1>5. /\ buf[sh][b].state = "free" /\ R # {} /\ R \subseteq rq[sh] /\ buf[sh][b].waiters = {}
      /\ v.waiters = R /\ v.state \in {"reading", "done", "error"}
  BY <1>1 DEF Issued, WaitersKept, Waiting, Windowed
<1>6. \A z \in Shards, x \in Bufs : buf'[z][x] = IF z = sh /\ x = b THEN v ELSE buf[z][x]
  BY <1>1, <1>2, BufSet DEF Issued
<1>7. \A z \in Shards : rq'[z] = IF z = sh THEN rq[z] \ R ELSE rq[z]
  BY <1>1 DEF Issued, Typed, ModuleType
<1>8. ASSUME NEW z \in Shards
      PROVE  Under(z)' = Under(z) /\ Placed(z)' /\ WaitersKept(z)'
  <2>1. WaitersKept(z)'
    BY <1>5, <1>6 DEF WaitersKept
  <2>2. CASE z # sh
    BY <1>2, <1>6, <1>7, <2>1, <2>2, UnderSame DEF Placed
  <2>3. CASE z = sh
    <3>1. Cells' = Cells /\ OnRing(z)' = OnRing(z) /\ gdesc' = gdesc
      BY <1>2 DEF Cells, Ring, OnRing
    <3>2. Asked(z)' = Asked(z) \cup R
      <4>1. \A r \in Rows : (\E x \in Bufs : r \in buf'[z][x].waiters)
                              <=> r \in R \/ \E x \in Bufs : r \in buf[z][x].waiters
        BY <1>5, <1>6, <2>3
      <4>2. QED
        BY <4>1 DEF Asked
    <3>3. rq'[z] = rq[z] \ R
      BY <1>7, <2>3
    <3>4. Under(z)' = Under(z)
      BY <1>5, <2>3, <3>1, <3>2, <3>3 DEF Under
    <3>5. \A x, y \in Bufs : x # y => buf'[z][x].waiters \cap buf'[z][y].waiters = {}
      <4>1. \A x \in Bufs : R \cap buf[z][x].waiters = {}
        BY <1>5, <2>3, UnderRows DEF Placed
      <4>2. QED
        BY <1>5, <1>6, <2>3, <4>1 DEF Placed
    <3>6. rq'[z] \cap Asked(z)' = {} /\ rq'[z] \cap OnRing(z)' = {} /\ Asked(z)' \cap OnRing(z)' = {}
      BY <1>5, <2>3, <3>1, <3>2, <3>3 DEF Placed
    <3>7. \A r \in Under(z)' : r \in conf.rows' /\ ShardOf(r)' = z /\ r \notin toPush'
      BY <1>2, <3>4 DEF Placed, ShardOf
    <3>8. Placed(z)'
      BY <1>2, <3>1, <3>5, <3>6, <3>7 DEF Placed
    <3>9. QED
      BY <2>1, <3>4, <3>8
  <2>4. QED
    BY <2>2, <2>3
<1>9. Out' = Out
  BY <1>2, <1>8, OutSame
<1>10. QED
  BY <1>2, <1>3, <1>4, <1>8, <1>9 DEF RingOk, RowsOf

LEMMA PlaceReading ==
  ASSUME PlaceInv, \A z \in Shards : Alone(z), NEW sh \in Shards,
         Lap(sh) \/ Reclaim(sh) \/ \E b \in Bufs : Complete(sh, b)
  PROVE  PlaceInv' /\ Out' = Out
<1> USE DEF PlaceInv, RingInv
<1>1. UNCHANGED <<conf, toPush, hpc, slot, rq, gdesc, head, blockVars>>
  BY DEF Lap, Reclaim, Complete, hostVars, ringVars
<1>2. Typed'
  BY ModuleTyped DEF KernelStep
<1>3. \A z \in Shards : RingOk(z)'
  BY <1>1, RingSame DEF RingOk, blockVars
<1>4. \A z \in Shards : \A x \in Bufs :
        /\ buf'[z][x].waiters = buf[z][x].waiters
        /\ buf'[z][x].state \in {"free", "held"} <=> buf[z][x].state \in {"free", "held"}
  <2>1. CASE Lap(sh)
    BY <2>1 DEF Lap
  <2>2. CASE Reclaim(sh)
    BY <2>2, ReclaimIs
  <2>3. CASE \E b \in Bufs : Complete(sh, b)
    <3>1. PICK b \in Bufs : Complete(sh, b)
      BY <2>3
    <3>2. PICK v \in Buf : Completed(sh, b, v)
      BY <3>1, CompleteIs
    <3>3. \A z \in Shards, x \in Bufs : buf'[z][x] = IF z = sh /\ x = b THEN v ELSE buf[z][x]
      BY <1>1, <3>2, BufSet DEF Completed
    <3>4. QED
      BY <3>2, <3>3 DEF Completed
  <2>4. QED
    BY <2>1, <2>2, <2>3
<1>5. \A z \in Shards : Under(z)' = Under(z) /\ Placed(z)' /\ WaitersKept(z)'
  <2>1. \A z \in Shards : WaitersKept(z)'
    BY <1>4 DEF WaitersKept
  <2>2. \A z \in Shards : \A r \in Under(z) : r \notin toPush'
    BY <1>1 DEF Placed
  <2>3. QED
    BY <1>1, <1>4, <2>1, <2>2, UnderSame
<1>6. Out' = Out
  BY <1>1, <1>5, OutSame
<1>7. QED
  BY <1>1, <1>2, <1>3, <1>5, <1>6 DEF RingOk, RowsOf

LEMMA PlaceDeliver ==
  ASSUME PlaceInv, \A z \in Shards : Alone(z), NEW sh \in Shards, NEW by \in Producers,
         DeliverRow(sh, by)
  PROVE  PlaceInv' /\ Out' = Out
<1> USE DEF PlaceInv, RingInv
<1>1. PICK b \in Bufs, r \in Rows, v \in Buf : Delivered(sh, by, b, r, v)
  BY DeliverIs
<1>2. /\ UNCHANGED <<conf, toPush, hpc, slot, rq, blockVars>>
      /\ head' = [head EXCEPT ![sh] = Wrap(@ + 1)] /\ HasRoom(sh, head[sh])
  BY <1>1 DEF DeliverRow, hostVars, Delivered
<1>3. Typed'
  BY ModuleTyped DEF KernelStep, Producers
<1> DEFINE c0 == head[sh] % Ring
           d == [row |-> r, buf |-> b, ok |-> buf[sh][b].state = "done"]
<1>4. c0 \in Cells /\ gdesc[sh][c0] = NoDesc
  <2>1. c0 = CellOf(sh, Live(sh))
    BY HeadCell
  <2>2. RingOk(sh)
    BY DEF RingOk
  <2>3. QED
    BY <1>2, <2>1, <2>2, HeadFree
<1>5. /\ r \in buf[sh][b].waiters /\ v.waiters = buf[sh][b].waiters \ {r}
      /\ v.waiters # {} => v.state = buf[sh][b].state
      /\ v.waiters = {} => v.state \in {"free", "held"}
  BY <1>1 DEF Delivered
<1>6. \A z \in Shards, x \in Bufs : buf'[z][x] = IF z = sh /\ x = b THEN v ELSE buf[z][x]
  BY <1>1, <1>2, BufSet DEF Delivered
<1>7. \A z \in Shards, c \in Cells : gdesc'[z][c] = IF z = sh /\ c = c0 THEN d ELSE gdesc[z][c]
  BY <1>1, <1>4 DEF Delivered, Typed, ModuleType
<1>8. \A z \in Shards : z # sh => gdesc'[z] = gdesc[z] /\ head'[z] = head[z]
  BY <1>1, <1>2 DEF Delivered, Typed, ModuleType
<1> HIDE DEF c0
<1>9. ASSUME NEW z \in Shards
      PROVE  RingOk(z)'
  <2>1. RingOk(z)
    BY DEF RingOk
  <2>2. CASE z = sh
    BY <2>1, <2>2, RingDeliver
  <2>3. CASE z # sh
    BY <1>2, <1>8, <2>1, <2>3, RingSame DEF blockVars
  <2>4. QED
    BY <2>2, <2>3
<1>10. ASSUME NEW z \in Shards
       PROVE  Under(z)' = Under(z) /\ Placed(z)' /\ WaitersKept(z)'
  <2>1. WaitersKept(z)'
    BY <1>5, <1>6 DEF WaitersKept
  <2>2. CASE z # sh
    BY <1>2, <1>6, <1>8, <2>1, <2>2, UnderSame DEF Placed
  <2>3. CASE z = sh
    <3>1. Cells' = Cells /\ rq' = rq
      BY <1>2 DEF Cells, Ring
    <3>2. r \in Asked(z) /\ r \notin OnRing(z) /\ r \notin rq[z]
      BY <1>5, <2>3, UnderRows DEF Placed
    <3>3. NoDesc.row \notin Rows /\ d.row = r
      BY PullAssumption DEF NoDesc
    <3>4. Asked(z)' = Asked(z) \ {r}
      <4>1. \A x \in Bufs : x # b => r \notin buf[z][x].waiters
        BY <1>5, <2>3 DEF Placed
      <4>2. \A q \in Rows : (\E x \in Bufs : q \in buf'[z][x].waiters)
                              <=> q # r /\ \E x \in Bufs : q \in buf[z][x].waiters
        BY <1>5, <1>6, <2>3, <4>1
      <4>3. QED
        BY <4>2 DEF Asked
    <3>5. OnRing(z)' = OnRing(z) \cup {r}
      <4>1. \A q \in Rows : (\E c \in Cells : gdesc'[z][c].row = q)
                              <=> q = r \/ \E c \in Cells : gdesc[z][c].row = q
        BY <1>4, <1>7, <2>3, <3>3
      <4>2. QED
        BY <3>1, <4>1 DEF OnRing
    <3>6. Under(z)' = Under(z)
      BY <3>1, <3>2, <3>4, <3>5 DEF Under
    <3>7. \A x, y \in Bufs : x # y => buf'[z][x].waiters \cap buf'[z][y].waiters = {}
      BY <1>5, <1>6, <2>3 DEF Placed
    <3>8. rq'[z] \cap Asked(z)' = {} /\ rq'[z] \cap OnRing(z)' = {} /\ Asked(z)' \cap OnRing(z)' = {}
      BY <3>1, <3>2, <3>4, <3>5 DEF Placed
    <3>9. \A q \in Under(z)' : q \in conf.rows' /\ ShardOf(q)' = z /\ q \notin toPush'
      BY <1>2, <3>6 DEF Placed, ShardOf
    <3>10. \A c \in Cells : gdesc[z][c].row # r
      BY <3>2 DEF OnRing
    <3>11. \A c, e \in Cells : gdesc'[z][c].row = gdesc'[z][e].row /\ gdesc'[z][c] # NoDesc => c = e
      BY <1>7, <2>3, <3>3, <3>10 DEF Placed
    <3>12. Placed(z)'
      BY <3>1, <3>7, <3>8, <3>9, <3>11 DEF Placed
    <3>13. QED
      BY <2>1, <3>6, <3>12
  <2>4. QED
    BY <2>2, <2>3
<1>11. Out' = Out
  BY <1>2, <1>10, OutSame
<1>12. QED
  BY <1>2, <1>3, <1>9, <1>10, <1>11 DEF RingOk, RowsOf

\* A row gathered is no longer under way; the block's other steps move none.
LEMMA PlaceGather ==
  ASSUME PlaceInv, NEW sh \in Shards, GatherRow(sh), NEW w \in todo[sh], Gathers(sh, w),
         NEW r, r = gdesc[sh][CellOf(sh, w)].row
  PROVE  PlaceInv' /\ r \in Out /\ r \in conf.rows /\ r \in Rows /\ Out' = Out \ {r}
<1> USE DEF PlaceInv, RingInv
<1>1. /\ UNCHANGED <<conf, hostVars, kernelVars, head, tail, s_tail, s_head, pub>>
  BY DEF GatherRow
<1>2. UNCHANGED <<toPush, hpc, slot, rq, buf>>
  BY <1>1 DEF hostVars, kernelVars
<1>3. RingOk(sh)
  BY DEF RingOk
<1> DEFINE c0 == CellOf(sh, w)
<1>4. /\ Typed' /\ RingOk(sh)' /\ c0 \in Cells /\ gdesc[sh][c0] \in Desc
      /\ \A c \in Cells : gdesc'[sh][c] = IF c = c0 THEN NoDesc ELSE gdesc[sh][c]
      /\ w \in Ungathered(sh)
  BY <1>3, RingGather
<1>5. /\ \A z \in Shards : z # sh => /\ gdesc'[z] = gdesc[z] /\ todo'[z] = todo[z] /\ bpc'[z] = bpc[z]
  BY DEF Gathers, Typed, ModuleType
<1>6. \A z \in Shards : RingOk(z)'
  <2>1. SUFFICES ASSUME NEW z \in Shards, z # sh PROVE RingOk(z)'
    BY <1>4
  <2>2. RingOk(z)
    BY DEF RingOk
  <2>3. QED
    BY <1>1, <1>5, <2>1, <2>2, RingSame
<1>7. r \in Rows /\ gdesc[sh][c0] # NoDesc /\ r \in OnRing(sh) /\ r \in Under(sh)
  <2>1. r \in Rows /\ gdesc[sh][c0] # NoDesc
    BY <1>3, <1>4, UngatheredIs DEF Desc
  <2>2. r \in OnRing(sh)
    BY <1>4, <2>1 DEF OnRing
  <2>3. QED
    BY <2>1, <2>2 DEF Under
<1>8. r \in conf.rows /\ ShardOf(r) = sh /\ r \notin toPush /\ r \notin rq[sh] /\ r \notin Asked(sh)
  BY <1>7 DEF Placed
<1> HIDE DEF c0
<1>9. ASSUME NEW z \in Shards
      PROVE  Under(z)' = Under(z) \ {r} /\ Placed(z)' /\ WaitersKept(z)'
  <2>1. WaitersKept(z)'
    BY <1>2 DEF WaitersKept
  <2>2. CASE z # sh
    <3>1. r \notin Under(z)
      BY <1>8, <2>2 DEF Placed
    <3>2. QED
      BY <1>1, <1>2, <1>5, <2>1, <2>2, <3>1, UnderSame DEF Placed
  <2>3. CASE z = sh
    <3>1. Cells' = Cells /\ rq' = rq /\ Asked(z)' = Asked(z)
      BY <1>1, <1>2 DEF Cells, Ring, Asked
    <3>2. NoDesc.row \notin Rows
      BY PullAssumption DEF NoDesc
    <3>3. OnRing(z)' = OnRing(z) \ {r}
      <4>1. \A c \in Cells : gdesc[z][c].row = r => c = c0
        BY <1>4, <1>7, <2>3 DEF Placed, c0
      <4>2. \A q \in Rows : (\E c \in Cells : gdesc'[z][c].row = q)
                              <=> q # r /\ \E c \in Cells : gdesc[z][c].row = q
        BY <1>4, <1>7, <2>3, <3>2, <4>1 DEF c0
      <4>3. QED
        BY <3>1, <4>2 DEF OnRing
    <3>4. Under(z)' = Under(z) \ {r}
      BY <1>8, <2>3, <3>1, <3>3 DEF Under
    <3>5. \A q \in Under(z)' : q \in conf.rows' /\ ShardOf(q)' = z /\ q \notin toPush'
      BY <1>1, <1>2, <3>4 DEF Placed, ShardOf
    <3>6. \A c, e \in Cells : gdesc'[z][c].row = gdesc'[z][e].row /\ gdesc'[z][c] # NoDesc => c = e
      <4>1. SUFFICES ASSUME NEW c \in Cells, NEW e \in Cells,
                            gdesc'[z][c].row = gdesc'[z][e].row, gdesc'[z][c] # NoDesc
                     PROVE  c = e
        OBVIOUS
      <4>2. c # c0 /\ gdesc'[z][c] = gdesc[z][c] /\ gdesc[z][c] \in Desc
        BY <1>4, <2>3, <4>1 DEF Typed, ModuleType
      <4>3. gdesc'[z][e] # NoDesc
        BY <3>2, <4>1, <4>2 DEF Desc
      <4>4. gdesc'[z][e] = gdesc[z][e]
        BY <1>4, <2>3, <4>3
      <4>5. QED
        BY <4>1, <4>2, <4>4 DEF Placed
    <3>7. Placed(z)'
      BY <1>2, <3>1, <3>3, <3>5, <3>6 DEF Placed
    <3>8. QED
      BY <2>1, <3>4, <3>7
  <2>4. QED
    BY <2>2, <2>3
<1>10. Out' = Out \ {r}
  BY <1>2, <1>8, <1>9 DEF Out
<1>11. r \in Out
  BY <1>7 DEF Out
<1>12. QED
  BY <1>1, <1>2, <1>4, <1>6, <1>7, <1>8, <1>9, <1>10, <1>11 DEF RingOk, RowsOf

LEMMA PlaceBlock ==
  ASSUME PlaceInv, NEW sh \in Shards, Take(sh) \/ Advance(sh) \/ Leave(sh)
  PROVE  PlaceInv' /\ Out' = Out
<1> USE DEF PlaceInv, RingInv
<1>1. UNCHANGED <<conf, hostVars, kernelVars, ringVars>>
  BY DEF Take, Advance, Leave
<1>2. UNCHANGED <<toPush, hpc, slot, rq, buf, gdesc, head>>
  BY <1>1 DEF hostVars, kernelVars, ringVars
<1>3. RingOk(sh)
  BY DEF RingOk
<1>4. Typed' /\ RingOk(sh)'
  BY <1>3, RingTake, RingAdvance, RingLeave
<1>5. \A z \in Shards : RingOk(z)'
  <2>1. SUFFICES ASSUME NEW z \in Shards, z # sh PROVE RingOk(z)'
    BY <1>4
  <2>2. RingOk(z)
    BY DEF RingOk
  <2>3. /\ tail'[z] = tail[z] /\ s_tail'[z] = s_tail[z] /\ s_head'[z] = s_head[z]
        /\ bpc'[z] = bpc[z] /\ todo'[z] = todo[z]
    BY <2>1 DEF Take, Advance, Leave, Typed
  <2>4. QED
    BY <1>1, <1>2, <2>1, <2>2, <2>3, RingSame
<1>6. ASSUME NEW z \in Shards
      PROVE  Under(z)' = Under(z) /\ Placed(z)' /\ WaitersKept(z)'
  BY <1>1, <1>2, UnderSame DEF Placed, WaitersKept
<1>7. Out' = Out
  BY <1>2, <1>6, OutSame
<1>8. QED
  BY <1>1, <1>2, <1>4, <1>5, <1>6, <1>7 DEF RingOk, RowsOf
-----------------------------------------------------------------------------
(* Counting what a slot has received.                                       *)

LEMMA SlotRows ==
  ASSUME HostType, NEW s, NEW T \in SUBSET RowsOf(s)
  PROVE  /\ IsFiniteSet(T) /\ Cardinality(T) \in Nat
         /\ Cardinality(T) <= Cardinality(RowsOf(s)) /\ Cardinality(RowsOf(s)) \in Nat
         /\ Cardinality(RowsOf(s)) <= Cardinality(Rows) /\ Cardinality(Rows) \in Nat
         /\ Cardinality(T) = 0 <=> T = {}
<1>1. IsFiniteSet(Rows) /\ RowsOf(s) \in SUBSET Rows
  BY ConfFacts, PullAssumption DEF RowsOf
<1>2. IsFiniteSet(RowsOf(s)) /\ Cardinality(RowsOf(s)) <= Cardinality(Rows)
  BY <1>1, FS_Subset
<1>3. IsFiniteSet(T) /\ Cardinality(T) <= Cardinality(RowsOf(s))
  BY <1>2, FS_Subset
<1>4. QED
  BY <1>1, <1>2, <1>3, FS_CardinalityType, FS_EmptySet

\* A slot's count and what remains of its rows, as numbers.
LEMMA CountIs ==
  ASSUME Typed, NEW s \in 0 .. Depth - 1
  PROVE  /\ Remaining(s) \in Nat /\ g_done[s] \in Nat /\ Cardinality(RowsOf(s)) \in Nat
         /\ Remaining(s) = 0 <=> Out \cap RowsOf(s) = {}
         /\ Remaining(s) <= Cardinality(RowsOf(s))
         /\ Cardinality(RowsOf(s)) <= Cardinality(Rows) /\ Cardinality(Rows) \in Nat
<1>1. Out \cap RowsOf(s) \in SUBSET RowsOf(s)
  OBVIOUS
<1>2. QED
  BY <1>1, SlotRows DEF Typed, Remaining

LEMMA CountInit == Init => Counted
<1> SUFFICES ASSUME Init, NEW s \in 0 .. Depth - 1
             PROVE  /\ Out \cap RowsOf(s) = {} /\ ~Busy(s)
                    /\ g_done[s] + Remaining(s) <= Cardinality(RowsOf(s))
  BY DEF Counted
<1>1. Out = {} /\ Typed
  BY PlaceInit, TypedInit
<1>2. g_done[s] = 0 /\ ~Busy(s)
  BY DEF Init, Busy
<1>3. QED
  BY <1>1, <1>2, CountIs

\* Nothing gathered, and the same slots in use.
LEMMA CountSame ==
  ASSUME Counted, conf' = conf, g_done' = g_done, Out' = Out,
         \A s \in 0 .. Depth - 1 : Busy(s)' = Busy(s)
  PROVE  Counted'
<1>1. \A s : RowsOf(s)' = RowsOf(s)
  BY DEF RowsOf
<1>2. \A s : Remaining(s)' = Remaining(s)
  BY <1>1 DEF Remaining
<1>3. QED
  BY <1>1, <1>2 DEF Counted

LEMMA CountStartPush ==
  ASSUME PullInv, StartPush
  PROVE  Counted'
<1> USE DEF PullInv, PlaceInv, RingInv
<1>1. /\ hpc = "idle" /\ newest \notin pending /\ newest \in 0 .. Depth - 1
      /\ conf' = conf /\ hpc' = "push" /\ slot' = newest /\ pending' = pending
      /\ g_done' = [g_done EXCEPT ![newest] = 0]
  BY DEF StartPush, Typed, HostType
<1>2. ~Busy(newest) /\ Out \cap RowsOf(newest) = {}
  BY <1>1 DEF Busy, Counted
<1>3. Out' = Out \cup RowsOf(newest) /\ Typed'
  BY <1>2, PlaceHost DEF HostStep, PushRow, StartPush
<1>4. \A s : RowsOf(s)' = RowsOf(s)
  BY <1>1 DEF RowsOf
<1>5. SUFFICES ASSUME NEW s \in 0 .. Depth - 1
               PROVE  /\ ~Busy(s)' => Out' \cap RowsOf(s) = {}
                      /\ g_done'[s] + Cardinality(Out' \cap RowsOf(s)) <= Cardinality(RowsOf(s))
                      /\ Busy(s)' => g_done'[s] + Cardinality(Out' \cap RowsOf(s)) = Cardinality(RowsOf(s))
  BY <1>4 DEF Counted, Remaining
<1>6. CASE s = newest
  <2>1. Busy(s)' /\ g_done'[s] = 0 /\ Out' \cap RowsOf(s) = RowsOf(s)
    BY <1>1, <1>3, <1>6 DEF Busy, Typed
  <2>2. Cardinality(RowsOf(s)) \in Nat
    BY CountIs
  <2>3. QED
    BY <2>1, <2>2
<1>7. CASE s # newest
  <2>1. RowsOf(s) \cap RowsOf(newest) = {}
    BY <1>7 DEF RowsOf
  <2>2. Out' \cap RowsOf(s) = Out \cap RowsOf(s)
    BY <1>3, <2>1
  <2>3. Busy(s)' = Busy(s) /\ g_done'[s] = g_done[s]
    BY <1>1, <1>7 DEF Busy, Typed
  <2>4. QED
    BY <2>2, <2>3 DEF Counted, Remaining
<1>8. QED
  BY <1>6, <1>7

\* The batch is complete when every block has seen it so.
LEMMA DrainedComplete ==
  ASSUME PullInv, hpc = "pull", AllBlocksLeft
  PROVE  Out \cap RowsOf(slot) = {}
<1> USE DEF PullInv, PlaceInv, RingInv
<1>1. slot \in 0 .. Depth - 1 /\ slot \in pending
  BY DEF Typed, HostType, BlocksLeave
<1>2. CASE Shards # {}
  <2>1. PICK z \in Shards : TRUE
    BY <1>2
  <2>2. g_done[slot] >= Cardinality(RowsOf(slot))
    BY <2>1 DEF BlocksLeave, KernelRuns, AllBlocksLeft, TargetReached
  <2>3. g_done[slot] + Remaining(slot) = Cardinality(RowsOf(slot))
    BY <1>1 DEF Counted, Busy
  <2>4. Remaining(slot) = 0
    BY <1>1, <2>2, <2>3, CountIs
  <2>5. QED
    BY <1>1, <2>4, CountIs
<1>3. CASE Shards = {}
  <2>1. RowsOf(slot) \subseteq Rows
    BY ConfFacts DEF RowsOf, Typed
  <2>2. Rows = {}
    BY <1>3, ShardIs
  <2>3. QED
    BY <2>1, <2>2
<1>4. QED
  BY <1>2, <1>3

LEMMA CountHost ==
  ASSUME PullInv, HostStep
  PROVE  Counted'
<1> USE DEF PullInv, PlaceInv, RingInv
<1>1. CASE StartPush
  BY <1>1, CountStartPush
<1>2. CASE PushRow
  <2>1. Out' = Out
    BY <1>2, PlacePushRow
  <2>2. conf' = conf /\ g_done' = g_done /\ \A s \in 0 .. Depth - 1 : Busy(s)' = Busy(s)
    BY <1>2 DEF PushRow, blockVars, Busy
  <2>3. QED
    BY <2>1, <2>2, CountSame
<1>3. CASE PushOver \/ StartDrain
  <2>1. Out' = Out
    BY <1>3, PlaceHost DEF HostStep, PushOver, StartDrain, StartPush, PushRow
  <2>2. conf' = conf /\ g_done' = g_done /\ \A s \in 0 .. Depth - 1 : Busy(s)' = Busy(s)
    BY <1>3 DEF PushOver, StartDrain, blockVars, Busy
  <2>3. QED
    BY <2>1, <2>2, CountSame
<1>4. CASE DrainOver
  <2>1. Out' = Out
    BY <1>4, PlaceHost DEF HostStep, DrainOver, StartPush, PushRow
  <2>2. /\ conf' = conf /\ g_done' = g_done /\ hpc = "pull" /\ hpc' = "idle" /\ AllBlocksLeft
        /\ pending' = pending \ {slot} /\ slot \in 0 .. Depth - 1 /\ slot' = slot
    BY <1>4 DEF DrainOver, blockVars, Typed, HostType
  <2>3. Out \cap RowsOf(slot) = {}
    BY <2>2, DrainedComplete
  <2>4. \A s : RowsOf(s)' = RowsOf(s)
    BY <2>2 DEF RowsOf
  <2>5. \A s : Remaining(s)' = Remaining(s)
    BY <2>1, <2>4 DEF Remaining
  <2>6. \A s \in 0 .. Depth - 1 : s # slot => Busy(s)' = Busy(s)
    BY <2>2 DEF Busy
  <2>7. ~Busy(slot)'
    BY <2>2 DEF Busy
  <2>8. QED
    BY <2>1, <2>2, <2>3, <2>4, <2>5, <2>6, <2>7 DEF Counted
<1>5. QED
  BY <1>1, <1>2, <1>3, <1>4 DEF HostStep

LEMMA CountGather ==
  ASSUME PullInv, NEW sh \in Shards, GatherRow(sh)
  PROVE  Counted' /\ \A s \in 0 .. Depth - 1 : g_done'[s] >= g_done[s]
<1> USE DEF PullInv, PlaceInv, RingInv
<1>1. PICK w \in todo[sh] : Gathers(sh, w)
  BY GatherIs
<1>2. PICK r : r = gdesc[sh][CellOf(sh, w)].row
  OBVIOUS
<1>3. r \in Out /\ r \in conf.rows /\ r \in Rows /\ Out' = Out \ {r}
  BY <1>1, <1>2, PlaceGather
<1>4. PICK k : k = BatchOf[r]
  OBVIOUS
<1>5. k \in 0 .. Depth - 1 /\ r \in RowsOf(k)
  BY <1>3, <1>4, ShardIs DEF RowsOf
<1>6. UNCHANGED <<conf, hpc, slot, pending>>
  BY DEF GatherRow, hostVars
<1>7. g_done' = [g_done EXCEPT ![k] = @ + 1]
  BY <1>1, <1>2, <1>4 DEF Gathers
<1>8. \A s : RowsOf(s)' = RowsOf(s) /\ Busy(s)' = Busy(s)
  BY <1>6 DEF RowsOf, Busy
<1>9. SUFFICES ASSUME NEW s \in 0 .. Depth - 1
               PROVE  /\ ~Busy(s) => Out' \cap RowsOf(s) = {}
                      /\ g_done'[s] + Cardinality(Out' \cap RowsOf(s)) <= Cardinality(RowsOf(s))
                      /\ Busy(s) => g_done'[s] + Cardinality(Out' \cap RowsOf(s)) = Cardinality(RowsOf(s))
                      /\ g_done'[s] >= g_done[s]
  BY <1>8 DEF Counted, Remaining
<1>10. /\ g_done[s] \in Nat /\ Remaining(s) \in Nat /\ Cardinality(RowsOf(s)) \in Nat
  BY CountIs
<1>11. /\ ~Busy(s) => Out \cap RowsOf(s) = {}
       /\ g_done[s] + Remaining(s) <= Cardinality(RowsOf(s))
       /\ Busy(s) => g_done[s] + Remaining(s) = Cardinality(RowsOf(s))
  BY DEF Counted
<1>12. CASE s = k
  <2>1. g_done'[s] = g_done[s] + 1
    BY <1>7, <1>12 DEF Typed
  <2>2. PICK T : T = Out \cap RowsOf(s)
    OBVIOUS
  <2>3. IsFiniteSet(T) /\ r \in T /\ Out' \cap RowsOf(s) = T \ {r}
    BY <1>3, <1>5, <1>12, <2>2, SlotRows DEF Typed
  <2>4. Cardinality(T \ {r}) = Cardinality(T) - 1
    BY <2>3, FS_RemoveElement
  <2>5. Cardinality(Out' \cap RowsOf(s)) = Remaining(s) - 1
    BY <2>2, <2>3, <2>4 DEF Remaining
  <2>6. Busy(s)
    BY <1>11, <2>2, <2>3
  <2>7. QED
    BY <1>10, <1>11, <2>1, <2>5, <2>6
<1>13. CASE s # k
  <2>1. g_done'[s] = g_done[s]
    BY <1>7, <1>13 DEF Typed
  <2>2. r \notin RowsOf(s)
    BY <1>4, <1>13 DEF RowsOf
  <2>3. Out' \cap RowsOf(s) = Out \cap RowsOf(s)
    BY <1>3, <2>2
  <2>4. Cardinality(Out' \cap RowsOf(s)) = Remaining(s)
    BY <2>3, Zenon DEF Remaining
  <2>5. QED
    BY <1>10, <1>11, <2>1, <2>3, <2>4
<1>14. QED
  BY <1>12, <1>13

\* The blocks and the host agree who runs.
LEMMA LeaveNext ==
  ASSUME PullInv, [Next]_vars
  PROVE  BlocksLeave'
<1> USE DEF PullInv, PlaceInv, RingInv
<1>0. slot \in 0 .. Depth - 1 /\ bpc \in [Shards -> {"off", "look", "gather", "advance"}]
  BY DEF Typed, HostType
<1>1. CASE StartPush \/ StartDrain
  <2>1. conf' = conf /\ pending' = pending /\ hpc = "idle"
    BY <1>1 DEF StartPush, StartDrain
  <2>2. CASE StartDrain \/ conf.overlap
    <3>0. Launch
      BY <1>1, <2>2 DEF StartPush, StartDrain
    <3>1. \A sh \in Shards : bpc'[sh] # "off"
      BY <3>0 DEF Launch
    <3>2. hpc' = "pull" => slot' \in pending'
      BY <1>1, <2>1, OldestPending DEF StartPush, StartDrain, Typed
    <3>3. KernelRuns'
      BY <1>1, <2>1, <2>2 DEF KernelRuns, StartPush, StartDrain
    <3>4. QED
      BY <3>1, <3>2, <3>3 DEF BlocksLeave
  <2>3. CASE ~(StartDrain \/ conf.overlap)
    <3>1. StartPush /\ ~conf.overlap /\ bpc' = bpc /\ hpc' = "push"
      BY <1>1, <2>3 DEF StartPush
    <3>2. ~KernelRuns' /\ ~KernelRuns
      BY <2>1, <3>1 DEF KernelRuns
    <3>3. QED
      BY <3>1, <3>2 DEF BlocksLeave, AllBlocksLeft
  <2>4. QED
    BY <2>2, <2>3
<1>2. CASE PushRow
  <2>1. UNCHANGED <<conf, hpc, slot, pending, bpc, g_done>>
    BY <1>2 DEF PushRow, blockVars
  <2>2. QED
    BY <2>1 DEF BlocksLeave, KernelRuns, AllBlocksLeft, TargetReached, RowsOf
<1>3. CASE PushOver
  <2>1. UNCHANGED <<conf, slot, bpc, g_done>> /\ slot \in pending' /\ KernelRuns' = KernelRuns
    BY <1>3 DEF PushOver, blockVars, KernelRuns
  <2>2. QED
    BY <2>1 DEF BlocksLeave, AllBlocksLeft, TargetReached, RowsOf
<1>4. CASE DrainOver
  <2>1. bpc' = bpc /\ AllBlocksLeft /\ ~KernelRuns' /\ hpc' = "idle"
    BY <1>4 DEF DrainOver, blockVars, KernelRuns
  <2>2. QED
    BY <2>1 DEF BlocksLeave, AllBlocksLeft
<1>5. ASSUME UNCHANGED <<conf, hpc, slot, pending>>, NEW sh \in Shards, bpc[sh] # "off",
             \A z \in Shards : bpc'[z] # bpc[z] => z = sh,
             g_done'[slot] >= g_done[slot], g_done'[slot] \in Nat, bpc'[sh] = "off" => TargetReached
      PROVE  BlocksLeave'
  <2>1. KernelRuns /\ KernelRuns'
    BY <1>5 DEF BlocksLeave, AllBlocksLeft, KernelRuns
  <2>2. RowsOf(slot)' = RowsOf(slot)
    BY <1>5 DEF RowsOf
  <2>3. g_done[slot] \in Nat /\ Cardinality(RowsOf(slot)) \in Nat
    BY <1>0, CountIs
  <2>4. TargetReached => TargetReached'
    BY <1>5, <2>2, <2>3 DEF TargetReached
  <2>5. \A z \in Shards : bpc'[z] = "off" => TargetReached
    BY <1>5, <2>1 DEF BlocksLeave
  <2>6. QED
    BY <1>5, <2>1, <2>4, <2>5 DEF BlocksLeave
<1>6. ASSUME NEW sh \in Shards, BlockStep(sh)
      PROVE  BlocksLeave'
  <2>1. UNCHANGED <<conf, hpc, slot, pending>> /\ bpc[sh] # "off"
    BY <1>6 DEF BlockStep, Take, GatherRow, Advance, Leave, hostVars
  <2>2. g_done'[slot] >= g_done[slot] /\ g_done'[slot] \in Nat
    <3>1. CASE GatherRow(sh)
      <4>1. PICK w \in todo[sh] : Gathers(sh, w)
        BY <3>1, GatherIs
      <4>2. RingOk(sh)
        BY DEF RingOk
      <4>3. Typed'
        BY <3>1, <4>1, <4>2, RingGather
      <4>4. QED
        BY <1>0, <3>1, <4>3, CountGather DEF Typed
    <3>2. CASE ~GatherRow(sh)
      <4>1. g_done' = g_done
        BY <1>6, <3>2 DEF BlockStep, Take, Advance, Leave
      <4>2. QED
        BY <1>0, <4>1 DEF Typed
    <3>3. QED
      BY <3>1, <3>2
  <2>3. \A z \in Shards : bpc'[z] # bpc[z] => z = sh
    BY <1>0, <1>6 DEF BlockStep, Take, GatherRow, Advance, Leave
  <2>4. bpc'[sh] = "off" => TargetReached
    BY <1>0, <1>6 DEF BlockStep, Take, GatherRow, Advance, Leave
  <2>5. QED
    BY <1>5, <2>1, <2>2, <2>3, <2>4
<1>7. CASE \/ UNCHANGED vars
           \/ \E sh \in Shards : \/ KernelStep(sh) \/ Issue(sh) \/ DeliverRow(sh, "issuer")
                                 \/ \E b \in Bufs : Complete(sh, b)
  <2>1. UNCHANGED <<conf, hpc, slot, pending, bpc, g_done>>
    BY <1>7 DEF vars, KernelStep, Lap, DeliverRow, Reclaim, Issue, Complete, hostVars, blockVars
  <2>2. QED
    BY <2>1 DEF BlocksLeave, KernelRuns, AllBlocksLeft, TargetReached, RowsOf
<1>8. QED
  BY <1>1, <1>2, <1>3, <1>4, <1>6, <1>7 DEF Next, HostStep

LEMMA PullNext ==
  ASSUME OneProducer, PullInv, [Next]_vars
  PROVE  PullInv'
<1>1. BlocksLeave' /\ \A z \in Shards : Alone(z)' /\ Windowed(z)'
  BY LeaveNext, AloneNext DEF PullInv, PlaceInv, RingInv
<1>2. PlaceInv /\ \A z \in Shards : Alone(z) /\ Windowed(z)
  BY DEF PullInv
<1>3. CASE HostStep
  <2>1. Counted'
    BY <1>3, CountHost
  <2>2. CASE PushRow
    BY <1>1, <1>2, <2>1, <2>2, PlacePushRow DEF PullInv
  <2>3. CASE ~PushRow
    <3>1. StartPush => Out \cap RowsOf(newest) = {}
      BY DEF PullInv, Counted, Busy, StartPush, PlaceInv, RingInv, Typed, HostType
    <3>2. QED
      BY <1>1, <1>2, <1>3, <2>1, <2>3, <3>1, PlaceHost DEF PullInv
  <2>4. QED
    BY <2>2, <2>3
<1>4. ASSUME NEW sh \in Shards, GatherRow(sh)
      PROVE  PullInv'
  <2>1. PICK w \in todo[sh] : Gathers(sh, w)
    BY <1>2, <1>4, GatherIs DEF PlaceInv, RingInv
  <2>2. PICK r : r = gdesc[sh][CellOf(sh, w)].row
    OBVIOUS
  <2>3. PlaceInv'
    BY <1>2, <1>4, <2>1, <2>2, PlaceGather
  <2>4. QED
    BY <1>1, <1>4, <2>3, CountGather DEF PullInv
<1>5. ASSUME NEW sh \in Shards,
             \/ KernelStep(sh) \/ Issue(sh) \/ DeliverRow(sh, "issuer")
             \/ Take(sh) \/ Advance(sh) \/ Leave(sh)
             \/ \E b \in Bufs : Complete(sh, b)
      PROVE  PullInv'
  <2>1. PlaceInv' /\ Out' = Out
    BY <1>2, <1>5, PlaceIssue, PlaceReading, PlaceDeliver, PlaceBlock DEF KernelStep, Producers
  <2>2. UNCHANGED <<conf, hpc, slot, pending, g_done>>
    BY <1>5 DEF KernelStep, Lap, DeliverRow, Reclaim, Issue, Take, Advance, Leave, Complete,
      hostVars, blockVars
  <2>3. Counted'
    BY <2>1, <2>2, CountSame DEF PullInv, Busy
  <2>4. QED
    BY <1>1, <2>1, <2>3 DEF PullInv
<1>6. CASE UNCHANGED vars
  <2>1. UNCHANGED <<conf, hpc, slot, pending, toPush, g_done, rq, buf>>
    BY <1>6 DEF vars, hostVars, kernelVars, blockVars
  <2>2. Typed'
    BY <1>2, <1>6, <2>1 DEF PlaceInv, RingInv, Typed, HostType, ModuleType, vars, hostVars,
      kernelVars, ringVars, blockVars, Buf, Pages, Cells, Ring
  <2>3. \A z \in Shards : RingOk(z)'
    BY <1>2, <1>6, RingSame DEF PlaceInv, RingInv, RingOk, vars, ringVars, blockVars
  <2>4. \A z \in Shards : Under(z)' = Under(z) /\ Placed(z)' /\ WaitersKept(z)'
    BY <1>2, <1>6, <2>1, UnderSame DEF PlaceInv, vars, ringVars, WaitersKept, Placed
  <2>5. PlaceInv'
    BY <1>2, <2>1, <2>2, <2>3, <2>4 DEF PlaceInv, RingInv, RingOk, RowsOf
  <2>6. Out' = Out
    BY <2>1, <2>4, OutSame
  <2>7. Counted'
    BY <2>1, <2>6, CountSame DEF PullInv, Busy
  <2>8. QED
    BY <1>1, <2>5, <2>7 DEF PullInv
<1>7. QED
  BY <1>3, <1>4, <1>5, <1>6 DEF Next, BlockStep

LEMMA PullInit == Init => PullInv
<1> SUFFICES ASSUME Init PROVE PullInv
  OBVIOUS
<1>1. PlaceInv /\ Counted
  BY PlaceInit, CountInit
<1>2. AllBlocksLeft /\ ~KernelRuns /\ hpc = "idle"
  BY DEF Init, AllBlocksLeft, KernelRuns
<1>3. \A z \in Shards : Alone(z) /\ Windowed(z)
  BY DEF Init, Alone, Windowed, Producers
<1>4. QED
  BY <1>1, <1>2, <1>3 DEF PullInv, BlocksLeave

LEMMA PullTyped == PullInv => TypeOK
<1> SUFFICES ASSUME PullInv PROVE TypeOK
  OBVIOUS
<1>1. Typed
  BY DEF PullInv, PlaceInv, RingInv
<1>2. ASSUME NEW s \in 0 .. Depth - 1
      PROVE  g_done[s] \in 0 .. Cardinality(Rows)
  <2>1. g_done[s] + Remaining(s) <= Cardinality(RowsOf(s))
    BY DEF PullInv, Counted
  <2>2. QED
    BY <1>1, <2>1, CountIs
<1>3. g_done \in [0 .. Depth - 1 -> 0 .. Cardinality(Rows)]
  BY <1>1, <1>2 DEF Typed
<1>4. QED
  BY <1>1, <1>3 DEF Typed, TypeOK, BlockType

\* The plane's state stays well formed for any rows, shards, slots, buffers,
\* warps and cursors that wrap, for a provider of either kind whose reads fail or
\* are refused, as long as the ring has one producer: in particular a slot never
\* counts more rows than it asked for, which is what lets a block leave.
THEOREM PullTypeCorrect ==
  ASSUME OneProducer
  PROVE  Spec => []TypeOK
<1>1. PullInv /\ [Next]_vars => PullInv'
  BY PullNext
<1>2. QED
  BY <1>1, PullInit, PullTyped, PTL DEF Spec
-----------------------------------------------------------------------------
(* Buffers and the rows that refer to them, for an asynchronous provider.   *)

BufsKept(sh) == ListsKept(sh) /\ DataKept(sh) /\ Watermarked(sh)

\* The data of a page that is kept, at a place a row reads it from.
LEMMA NotSync ==
  ASSUME Asynchronous, Typed
  PROVE  ~conf.sync
BY DEF Asynchronous, Typed, HostType

\* A row on a shard's ring is under way.
LEMMA RowOnRing ==
  ASSUME Typed, NEW z \in Shards, RingOk(z), NEW i \in Ungathered(z)
  PROVE  gdesc[z][CellOf(z, i)].row \in Under(z) /\ gdesc[z][CellOf(z, i)].buf \in Bufs
<1>1. CellOf(z, i) \in Cells /\ gdesc[z][CellOf(z, i)] \in Desc
  BY UngatheredIs
<1>2. QED
  BY <1>1 DEF Desc, OnRing, Under

\* A shard whose ring a step leaves alone, and whose buffers in use it does.
LEMMA WatermarkedSame ==
  ASSUME Typed, NEW z \in Shards, RingOk(z), Watermarked(z),
         conf' = conf, gdesc'[z] = gdesc[z], s_tail'[z] = s_tail[z],
         Live(z)' = Live(z), Ungathered(z)' \subseteq Ungathered(z),
         \A i : CellOf(z, i)' = CellOf(z, i), failed \cap Under(z) \subseteq failed',
         \A i \in Ungathered(z) : LET d == gdesc[z][CellOf(z, i)]
                                 IN  d.ok => buf'[z][d.buf] = buf[z][d.buf]
  PROVE  Watermarked(z)'
<1>1. ASSUME NEW i \in Ungathered(z)', NEW d, d = gdesc'[z][CellOf(z, i)']
      PROVE  IF d.ok THEN Kept(z, i, d)' ELSE d.row \in failed'
  <2>1. i \in Ungathered(z) /\ d = gdesc[z][CellOf(z, i)]
    BY <1>1
  <2>2. d.ok => buf'[z][d.buf] = buf[z][d.buf] /\ Kept(z, i, d)
    BY <2>1 DEF Watermarked
  <2>3. (Wrap(buf[z][d.buf].wm - s_tail[z]))' = Wrap(buf'[z][d.buf].wm - s_tail[z])
    BY <1>1 DEF Wrap
  <2>4. d.ok => Kept(z, i, d)'
    BY <2>2, <2>3 DEF Kept
  <2>5. ~d.ok => d.row \in failed /\ d.row \in Under(z)
    BY <2>1, RowOnRing DEF Watermarked
  <2>6. QED
    BY <2>4, <2>5
<1>2. QED
  BY <1>1 DEF Watermarked

LEMMA BufsSame ==
  ASSUME Typed, NEW z \in Shards, RingOk(z), BufsKept(z),
         conf' = conf, buf'[z] = buf[z], gdesc'[z] = gdesc[z], s_tail'[z] = s_tail[z],
         rlist'[z] = rlist[z], ilist'[z] = ilist[z], done_list'[z] = done_list[z],
         Live(z)' = Live(z), Ungathered(z)' \subseteq Ungathered(z),
         \A i : CellOf(z, i)' = CellOf(z, i), failed \cap Under(z) \subseteq failed'
  PROVE  BufsKept(z)'
<1>1. Watermarked(z)'
  BY WatermarkedSame DEF BufsKept
<1>2. \A b \in Bufs : buf[z][b].waiters \subseteq Under(z)
  BY UnderRows DEF Under
<1>3. ListsKept(z)' /\ DataKept(z)'
  BY <1>2 DEF BufsKept, ListsKept, DataKept
<1>4. QED
  BY <1>1, <1>3 DEF BufsKept

LEMMA BufsHost ==
  ASSUME PullInv, NEW z \in Shards, BufsKept(z), HostStep
  PROVE  BufsKept(z)'
<1>1. Typed /\ RingOk(z)
  BY DEF PullInv, PlaceInv, RingInv, RingOk
<1>2. UNCHANGED <<conf, buf, rlist, ilist, done_list, gdesc, head, tail, todo>>
  BY DEF HostStep, StartPush, PushRow, PushOver, StartDrain, DrainOver, kernelVars, ringVars, blockVars
<1>3. (Launch /\ AllBlocksLeft /\ tail' = tail) \/ UNCHANGED <<bpc, s_tail, s_head, tail>>
  BY DEF PullInv, HostStep, StartPush, PushRow, PushOver, StartDrain, DrainOver, blockVars, BlocksLeave,
    KernelRuns
<1>4. /\ s_tail'[z] = s_tail[z] /\ Live(z)' = Live(z) /\ Ungathered(z)' = Ungathered(z)
      /\ \A i : CellOf(z, i)' = CellOf(z, i)
  <2>1. CASE Launch /\ AllBlocksLeft /\ tail' = tail
    BY <1>1, <1>2, <2>1, RingLaunch
  <2>2. CASE UNCHANGED <<bpc, s_tail, s_head, tail>>
    BY <1>2, <2>2, RingSame
  <2>3. QED
    BY <1>3, <2>1, <2>2
<1>5. failed \cap Under(z) \subseteq failed'
  <2>1. CASE StartPush
    <3>1. failed' = failed \ RowsOf(newest) /\ hpc = "idle" /\ newest \notin pending /\ newest \in 0 .. Depth - 1
      BY <1>1, <2>1 DEF StartPush, Typed, HostType
    <3>2. Out \cap RowsOf(newest) = {}
      BY <3>1 DEF PullInv, Counted, Busy
    <3>3. Under(z) \subseteq Out
      BY <1>1, UnderRows DEF Out
    <3>4. QED
      BY <3>1, <3>2, <3>3
  <2>2. CASE ~StartPush
    BY <2>2 DEF HostStep, PushRow, PushOver, StartDrain, DrainOver
  <2>3. QED
    BY <2>1, <2>2
<1>6. QED
  BY <1>1, <1>2, <1>4, <1>5, BufsSame

\* A step of one shard leaves the others alone.
LEMMA BufsOther ==
  ASSUME PullInv, NEW sh \in Shards, NEW z \in Shards, z # sh, BufsKept(z),
         \/ KernelStep(sh) \/ Issue(sh) \/ DeliverRow(sh, "issuer") \/ BlockStep(sh)
         \/ \E b \in Bufs : Complete(sh, b)
  PROVE  BufsKept(z)'
<1>1. Typed /\ RingOk(z) /\ Alone(sh) /\ WaitersKept(sh)
  BY DEF PullInv, PlaceInv, RingInv, RingOk
<1> DEFINE Same ==
             /\ conf' = conf /\ gdesc'[z] = gdesc[z] /\ head'[z] = head[z] /\ tail'[z] = tail[z]
             /\ s_tail'[z] = s_tail[z] /\ s_head'[z] = s_head[z] /\ bpc'[z] = bpc[z] /\ todo'[z] = todo[z]
             /\ buf'[z] = buf[z] /\ rlist'[z] = rlist[z] /\ ilist'[z] = ilist[z] /\ done_list'[z] = done_list[z]
             /\ failed \subseteq failed'
<1>2. Same
  <2> USE <1>1 DEF Typed, ModuleType
  <2>1. CASE Lap(sh) \/ Reclaim(sh)
    BY <2>1 DEF Lap, Reclaim, ringVars, blockVars
  <2>2. ASSUME NEW by \in Producers, DeliverRow(sh, by) PROVE Same
    <3>1. PICK b \in Bufs, r \in Rows, v \in Buf : Delivered(sh, by, b, r, v)
      BY <1>1, <2>2, DeliverIs
    <3>2. UNCHANGED <<conf, tail, s_tail, s_head, bpc, todo, done_list, failed>>
      BY <2>2 DEF DeliverRow, blockVars
    <3>3. /\ gdesc'[z] = gdesc[z] /\ buf'[z] = buf[z] /\ rlist'[z] = rlist[z]
          /\ ilist'[z] = ilist[z] /\ head'[z] = head[z]
      BY <3>1 DEF Delivered
    <3>4. QED
      BY <3>2, <3>3
  <2>3. CASE Issue(sh)
    <3>1. PICK b \in Bufs, R \in SUBSET Rows, v \in Buf : Issued(sh, b, R, v)
      BY <1>1, <2>3, IssueIs
    <3>2. UNCHANGED <<conf, gdesc, head, tail, s_tail, s_head, bpc, todo, rlist, done_list>>
      BY <2>3 DEF Issue, blockVars
    <3>3. buf'[z] = buf[z] /\ failed \subseteq failed' /\ ilist'[z] = ilist[z]
      BY <3>1 DEF Issued
    <3>4. QED
      BY <3>2, <3>3
  <2>4. CASE \E b \in Bufs : Complete(sh, b)
    BY <2>4 DEF Complete, ringVars, blockVars
  <2>5. CASE Take(sh)
    BY <2>5 DEF Take, kernelVars, ringVars
  <2>6. CASE GatherRow(sh)
    BY <2>6 DEF GatherRow, kernelVars
  <2>7. CASE Advance(sh)
    BY <2>7 DEF Advance, kernelVars, ringVars
  <2>8. CASE Leave(sh)
    BY <2>8 DEF Leave, kernelVars, ringVars
  <2>9. QED
    BY <2>1, <2>2, <2>3, <2>4, <2>5, <2>6, <2>7, <2>8 DEF KernelStep, BlockStep, Producers
<1>3. /\ Live(z)' = Live(z) /\ Ungathered(z)' = Ungathered(z)
      /\ \A i : CellOf(z, i)' = CellOf(z, i)
  BY <1>2, RingSame
<1>4. QED
  BY <1>1, <1>2, <1>3, BufsSame

\* The buffers rows not gathered yet will be read from are not free, nor being
\* read or in error.
LEMMA InUse ==
  ASSUME Typed, NEW z \in Shards, RingOk(z), Watermarked(z), NEW b \in Bufs,
         buf[z][b].state \in {"free", "reading", "error"}
  PROVE  \A i \in Ungathered(z) : LET d == gdesc[z][CellOf(z, i)] IN d.buf \in Bufs /\ (d.ok => d.buf # b)
BY RowOnRing DEF Watermarked, Kept

\* What is free, held or being read is in no list.
LEMMA InLists ==
  ASSUME Typed, NEW z \in Shards, ListsKept(z), NEW b \in Bufs, buf[z][b].state \notin {"done", "error"}
  PROVE  /\ \A i \in DOMAIN rlist[z] : rlist[z][i] \in Bufs /\ rlist[z][i] # b
         /\ \A i \in DOMAIN ilist[z] : ilist[z][i] \in Bufs /\ ilist[z][i] # b
         /\ \A i \in DOMAIN done_list[z] : done_list[z][i] \in Bufs /\ done_list[z][i] # b
<1>1. rlist[z] \in Seq(Bufs) /\ ilist[z] \in Seq(Bufs) /\ done_list[z] \in Seq(Bufs)
  BY DEF Typed, ModuleType
<1>2. \A i \in DOMAIN rlist[z] : rlist[z][i] \in Bufs
  BY <1>1
<1>3. \A i \in DOMAIN done_list[z] : done_list[z][i] \in Bufs
  BY <1>1
<1>4. \A i \in DOMAIN ilist[z] : ilist[z][i] \in Bufs
  BY <1>1
<1>5. \A i \in DOMAIN rlist[z] : rlist[z][i] # b
  BY DEF ListsKept
<1>6. \A i \in DOMAIN done_list[z] : done_list[z][i] # b
  BY DEF ListsKept
<1>7. \A i \in DOMAIN ilist[z] : ilist[z][i] # b
  BY DEF ListsKept
<1>8. QED
  BY <1>2, <1>3, <1>4, <1>5, <1>6, <1>7

LEMMA BufsIssue ==
  ASSUME PullInv, Asynchronous, NEW sh \in Shards, BufsKept(sh), Issue(sh)
  PROVE  BufsKept(sh)'
<1>1. Typed /\ RingOk(sh) /\ ~conf.sync
  BY NotSync DEF PullInv, PlaceInv, RingInv, RingOk
<1>2. PICK b \in Bufs, R \in SUBSET Rows, v \in Buf : Issued(sh, b, R, v)
  BY <1>1, IssueIs
<1>3. /\ buf[sh][b].state = "free" /\ v.waiters = R
      /\ \A r, q \in R : PageOf[r] = PageOf[q]
      /\ \A x \in Bufs : buf'[sh][x] = IF x = b THEN v ELSE buf[sh][x]
  <2>1. conf' = conf /\ buf' = [buf EXCEPT ![sh][b] = v]
    BY <1>2 DEF Issue, Issued
  <2>2. \A x \in Bufs : buf'[sh][x] = IF x = b THEN v ELSE buf[sh][x]
    BY <1>1, <2>1, BufSet
  <2>3. QED
    BY <1>2, <2>2 DEF Issued
<1>4. /\ UNCHANGED <<conf, rlist, done_list, gdesc, head, tail, s_tail, s_head, bpc, todo>>
      /\ ilist[sh] = <<>>
  BY DEF Issue, blockVars
<1>5. /\ v.state \in {"reading", "error"} /\ failed \subseteq failed'
      /\ v.state = "error" => R \subseteq failed' /\ ilist'[sh] = <<b>>
      /\ v.state = "reading" => ilist'[sh] = <<>>
  BY <1>1, <1>2, <1>4 DEF Issued, Typed, ModuleType
<1>6. /\ Live(sh)' = Live(sh) /\ Ungathered(sh)' = Ungathered(sh)
      /\ \A i : CellOf(sh, i)' = CellOf(sh, i)
  BY <1>4, RingSame
<1>7. Watermarked(sh)'
  <2>1. \A i \in Ungathered(sh) : LET d == gdesc[sh][CellOf(sh, i)] IN d.buf \in Bufs /\ (d.ok => d.buf # b)
    BY <1>1, <1>3, InUse DEF BufsKept
  <2>2. \A i \in Ungathered(sh) : LET d == gdesc[sh][CellOf(sh, i)] IN d.ok => buf'[sh][d.buf] = buf[sh][d.buf]
    BY <1>3, <2>1
  <2>3. QED
    BY <1>1, <1>4, <1>5, <1>6, <2>2, WatermarkedSame DEF BufsKept
<1>8. DataKept(sh)'
  BY <1>3, <1>4, <1>5 DEF BufsKept, DataKept
<1>9. ListsKept(sh)'
  <2>1. \A i \in DOMAIN rlist[sh] : rlist[sh][i] \in Bufs /\ rlist[sh][i] # b
    BY <1>1, <1>3, InLists DEF BufsKept
  <2>2. \A i \in DOMAIN done_list[sh] : done_list[sh][i] \in Bufs /\ done_list[sh][i] # b
    BY <1>1, <1>3, InLists DEF BufsKept
  <2>3. DOMAIN ilist'[sh] \subseteq {1} /\ \A i \in DOMAIN ilist'[sh] : ilist'[sh][i] = b /\ v.state = "error"
    BY <1>5
  <2>4. QED
    BY <1>3, <1>4, <2>1, <2>2, <2>3 DEF BufsKept, ListsKept
<1>10. QED
  BY <1>7, <1>8, <1>9 DEF BufsKept

LEMMA BufsComplete ==
  ASSUME PullInv, NEW sh \in Shards, BufsKept(sh), NEW b \in Bufs, Complete(sh, b)
  PROVE  BufsKept(sh)'
<1>1. Typed /\ RingOk(sh) /\ WaitersKept(sh)
  BY DEF PullInv, PlaceInv, RingInv, RingOk
<1>2. PICK v \in Buf : Completed(sh, b, v)
  BY <1>1, CompleteIs
<1>3. /\ buf[sh][b].state = "reading" /\ v.waiters = buf[sh][b].waiters
      /\ \/ v.state = "done" /\ v.data = PageRead(sh, b)
         \/ v.state = "error" /\ v.waiters \subseteq failed'
      /\ failed \subseteq failed'
      /\ \A x \in Bufs : buf'[sh][x] = IF x = b THEN v ELSE buf[sh][x]
  <2>1. conf' = conf /\ buf' = [buf EXCEPT ![sh][b] = v]
    BY <1>2 DEF Complete, Completed
  <2>2. \A x \in Bufs : buf'[sh][x] = IF x = b THEN v ELSE buf[sh][x]
    BY <1>1, <2>1, BufSet
  <2>3. QED
    BY <1>2, <2>2 DEF Completed
<1>4. /\ UNCHANGED <<conf, rlist, ilist, gdesc, head, tail, s_tail, s_head, bpc, todo>>
      /\ done_list'[sh] = Append(done_list[sh], b)
  BY <1>1 DEF Complete, ringVars, blockVars, Typed, ModuleType
<1>5. /\ Live(sh)' = Live(sh) /\ Ungathered(sh)' = Ungathered(sh)
      /\ \A i : CellOf(sh, i)' = CellOf(sh, i)
  BY <1>4, RingSame
<1>6. Watermarked(sh)'
  <2>1. \A i \in Ungathered(sh) : LET d == gdesc[sh][CellOf(sh, i)] IN d.buf \in Bufs /\ (d.ok => d.buf # b)
    BY <1>1, <1>3, InUse DEF BufsKept
  <2>2. \A i \in Ungathered(sh) : LET d == gdesc[sh][CellOf(sh, i)] IN d.ok => buf'[sh][d.buf] = buf[sh][d.buf]
    BY <1>3, <2>1
  <2>3. QED
    BY <1>1, <1>3, <1>4, <1>5, <2>2, WatermarkedSame DEF BufsKept
<1>7. DataKept(sh)'
  <2>1. \A r \in buf[sh][b].waiters : PageRead(sh, b) = PageOf[r]
    <3>1. \A r, q \in buf[sh][b].waiters : PageOf[r] = PageOf[q]
      BY DEF BufsKept, DataKept
    <3>2. QED
      BY <3>1 DEF PageRead
  <2>2. QED
    BY <1>3, <1>4, <2>1 DEF BufsKept, DataKept
<1>8. ListsKept(sh)'
  <2> DEFINE l == done_list[sh]
  <2>1. \A i \in DOMAIN rlist[sh] : rlist[sh][i] \in Bufs /\ rlist[sh][i] # b
    BY <1>1, <1>3, InLists DEF BufsKept
  <2>2. \A i \in DOMAIN l : l[i] \in Bufs /\ l[i] # b
    BY <1>1, <1>3, InLists DEF BufsKept
  <2>3. l \in Seq(Bufs)
    BY <1>1 DEF Typed, ModuleType
  <2>4. \A i \in DOMAIN done_list'[sh] : \/ i \in DOMAIN l /\ done_list'[sh][i] = l[i]
                                         \/ i = Len(l) + 1 /\ done_list'[sh][i] = b
    BY <1>4, <2>3
  <2>5. buf'[sh][b].state \in {"done", "error"}
    BY <1>3
  <2>6. \A x \in Bufs : x # b => buf'[sh][x] = buf[sh][x]
    BY <1>3
  <2>7. rlist'[sh] = rlist[sh] /\ ilist'[sh] = ilist[sh]
    BY <1>4
  <2>8. /\ \A i \in DOMAIN rlist'[sh] : buf'[sh][rlist'[sh][i]].state \in {"done", "error"}
        /\ \A i, j \in DOMAIN rlist'[sh] : rlist'[sh][i] = rlist'[sh][j] => i = j
    BY <2>1, <2>6, <2>7 DEF BufsKept, ListsKept
  <2>9. \A i \in DOMAIN done_list'[sh] : buf'[sh][done_list'[sh][i]].state \in {"done", "error"}
    BY <2>2, <2>4, <2>5, <2>6 DEF BufsKept, ListsKept
  <2>10. \A i, j \in DOMAIN done_list'[sh] : done_list'[sh][i] = done_list'[sh][j] => i = j
    BY <2>2, <2>4 DEF BufsKept, ListsKept
  <2>11. \A i \in DOMAIN rlist'[sh], j \in DOMAIN done_list'[sh] : rlist'[sh][i] # done_list'[sh][j]
    BY <2>1, <2>4, <2>7 DEF BufsKept, ListsKept
  <2>12. /\ DOMAIN ilist'[sh] \subseteq {1}
         /\ \A i \in DOMAIN ilist'[sh] : buf'[sh][ilist'[sh][i]].state = "error"
         /\ \A i \in DOMAIN ilist'[sh], j \in DOMAIN rlist'[sh] : ilist'[sh][i] # rlist'[sh][j]
         /\ \A i \in DOMAIN ilist'[sh], j \in DOMAIN done_list'[sh] : ilist'[sh][i] # done_list'[sh][j]
    <3>1. \A i \in DOMAIN ilist[sh] : ilist[sh][i] \in Bufs /\ ilist[sh][i] # b
      BY <1>1, <1>3, InLists DEF BufsKept
    <3>2. QED
      BY <2>4, <2>6, <2>7, <3>1 DEF BufsKept, ListsKept
  <2>13. QED
    BY <2>8, <2>9, <2>10, <2>11, <2>12 DEF ListsKept
<1>9. QED
  BY <1>6, <1>7, <1>8 DEF BufsKept

LEMMA BufsLap ==
  ASSUME PullInv, NEW sh \in Shards, BufsKept(sh), Lap(sh)
  PROVE  BufsKept(sh)'
<1>1. Typed /\ RingOk(sh)
  BY DEF PullInv, PlaceInv, RingInv, RingOk
<1>2. /\ UNCHANGED <<conf, buf, ilist, gdesc, head, tail, s_tail, s_head, bpc, todo, failed>>
      /\ rlist'[sh] = done_list[sh] /\ done_list'[sh] = <<>>
  BY <1>1 DEF Lap, blockVars, Typed, ModuleType
<1>3. /\ Live(sh)' = Live(sh) /\ Ungathered(sh)' = Ungathered(sh)
      /\ \A i : CellOf(sh, i)' = CellOf(sh, i)
  BY <1>2, RingSame
<1>4. Watermarked(sh)'
  BY <1>1, <1>2, <1>3, WatermarkedSame DEF BufsKept
<1>5. DOMAIN done_list'[sh] = {}
  BY <1>2
<1>6. ListsKept(sh)' /\ DataKept(sh)'
  BY <1>2, <1>5 DEF BufsKept, ListsKept, DataKept
<1>7. QED
  BY <1>4, <1>6 DEF BufsKept

\* The last descriptor of a page ends at its watermark, and its buffer is out
\* of the list; before that it stays in front.
LEMMA BufsDeliver ==
  ASSUME PullInv, NEW sh \in Shards, BufsKept(sh), NEW by \in Producers, DeliverRow(sh, by)
  PROVE  BufsKept(sh)'
<1>1. Typed /\ RingOk(sh) /\ WaitersKept(sh) /\ Alone(sh)
  BY DEF PullInv, PlaceInv, RingInv, RingOk
<1>2. PICK b \in Bufs, r \in Rows, v \in Buf : Delivered(sh, by, b, r, v)
  BY <1>1, DeliverIs
<1>3. conf' = conf /\ done_list' = done_list /\ s_tail' = s_tail /\ failed' = failed
  BY DEF DeliverRow, blockVars
<1>4. /\ by = "reaper" => rlist[sh] \in Seq(Bufs) /\ rlist[sh] # <<>> /\ 1 \in DOMAIN rlist[sh] /\ b = rlist[sh][1]
      /\ by = "issuer" => ilist[sh] \in Seq(Bufs) /\ ilist[sh] # <<>> /\ 1 \in DOMAIN ilist[sh] /\ b = ilist[sh][1]
  BY <1>1, <1>2 DEF Delivered, ListOf, Typed, ModuleType
<1>5. /\ buf[sh][b].state \in {"done", "error"}
      /\ by = "issuer" => buf[sh][b].state = "error"
  BY <1>4 DEF BufsKept, ListsKept, Producers
<1>6. /\ v.waiters \subseteq buf[sh][b].waiters /\ r \in buf[sh][b].waiters /\ v.data = buf[sh][b].data
      /\ v.waiters # {} => v.state = buf[sh][b].state
      /\ v.waiters = {} => v.state = IF by = "issuer" THEN "free" ELSE "held"
      /\ v.waiters = {} /\ by = "reaper" => v.wm = Watermark(head[sh])
      /\ rlist'[sh] = IF v.waiters = {} /\ by = "reaper" THEN Tail(rlist[sh]) ELSE rlist[sh]
      /\ ilist'[sh] = IF v.waiters = {} /\ by = "issuer" THEN Tail(ilist[sh]) ELSE ilist[sh]
  BY <1>1, <1>2 DEF Delivered, Typed, ModuleType
<1>7. \A x \in Bufs : buf'[sh][x] = IF x = b THEN v ELSE buf[sh][x]
  BY <1>1, <1>2, <1>3, BufSet DEF Delivered
<1>8. DataKept(sh)'
  BY <1>3, <1>6, <1>7 DEF BufsKept, DataKept
<1>9. ListsKept(sh)'
  <2> DEFINE l == rlist[sh]
             n == ilist[sh]
             d == done_list[sh]
  <2>1. l \in Seq(Bufs) /\ n \in Seq(Bufs) /\ d \in Seq(Bufs)
    BY <1>1 DEF Typed, ModuleType
  <2>2. /\ \A i \in DOMAIN l : l[i] \in Bufs
        /\ \A i \in DOMAIN n : n[i] \in Bufs
        /\ \A i \in DOMAIN d : d[i] \in Bufs
    BY <2>1
  <2>3. /\ DOMAIN n \subseteq {1}
        /\ \A i \in DOMAIN n : buf[sh][n[i]].state = "error"
        /\ \A i \in DOMAIN n, j \in DOMAIN l : n[i] # l[j]
        /\ \A i \in DOMAIN n, j \in DOMAIN d : n[i] # d[j]
        /\ \A i \in DOMAIN l : buf[sh][l[i]].state \in {"done", "error"}
        /\ \A i \in DOMAIN d : buf[sh][d[i]].state \in {"done", "error"}
        /\ \A i, j \in DOMAIN l : l[i] = l[j] => i = j
        /\ \A i, j \in DOMAIN d : d[i] = d[j] => i = j
        /\ \A i \in DOMAIN l, j \in DOMAIN d : l[i] # d[j]
    BY DEF BufsKept, ListsKept
  <2>4. done_list'[sh] = d /\ \A x \in Bufs \ {b} : buf'[sh][x] = buf[sh][x]
    BY <1>3, <1>7
  <2>5. CASE v.waiters # {}
    <3>1. rlist'[sh] = l /\ ilist'[sh] = n
      BY <1>6, <2>5
    <3>2. \A x \in Bufs : buf'[sh][x].state = buf[sh][x].state
      BY <1>6, <1>7, <2>5
    <3> HIDE DEF l, n, d
    <3>3. QED
      BY <2>2, <2>3, <2>4, <3>1, <3>2 DEF ListsKept
  <2>6. CASE v.waiters = {} /\ by = "reaper"
    <3> DEFINE t == Tail(l)
    <3>1. rlist'[sh] = t /\ ilist'[sh] = n
      BY <1>6, <2>6
    <3>2. /\ \A i \in DOMAIN t : i + 1 \in DOMAIN l /\ i + 1 # 1 /\ t[i] = l[i + 1]
          /\ \A i \in DOMAIN t : i \in Nat
      BY <1>4, <2>6
    <3>3. b = l[1] /\ 1 \in DOMAIN l
      BY <1>4, <2>6
    <3> HIDE DEF l, n, d, t
    <3>4. \A i \in DOMAIN t : t[i] \in Bufs /\ t[i] # b
      BY <2>2, <2>3, <3>2, <3>3
    <3>5. /\ \A i \in DOMAIN d : d[i] # b
          /\ \A i \in DOMAIN n : n[i] # b
      BY <2>3, <3>3
    <3>6. \A i, j \in DOMAIN t : t[i] = t[j] => i = j
      <4>1. \A i, j \in DOMAIN t : l[i + 1] = l[j + 1] => i + 1 = j + 1
        BY <2>3, <3>2
      <4>2. QED
        BY <3>2, <4>1
    <3>7. \A i \in DOMAIN t : /\ buf[sh][t[i]].state \in {"done", "error"}
                              /\ \A j \in DOMAIN d : t[i] # d[j]
                              /\ \A j \in DOMAIN n : n[j] # t[i]
      BY <2>3, <3>2
    <3>8. QED
      BY <2>2, <2>3, <2>4, <3>1, <3>4, <3>5, <3>6, <3>7 DEF ListsKept
  <2>7. CASE v.waiters = {} /\ by = "issuer"
    <3>1. rlist'[sh] = l /\ ilist'[sh] = Tail(n) /\ b = n[1] /\ 1 \in DOMAIN n
      BY <1>4, <1>6, <2>7
    <3> HIDE DEF l, n, d
    <3>2. DOMAIN Tail(n) = {}
      BY <2>1, <2>3, <3>1, TailOfOne
    <3>3. /\ \A i \in DOMAIN d : d[i] # b
          /\ \A i \in DOMAIN l : l[i] # b
      BY <2>3, <3>1
    <3>4. QED
      BY <2>2, <2>3, <2>4, <3>1, <3>2, <3>3 DEF ListsKept
  <2>8. QED
    BY <2>5, <2>6, <2>7 DEF Producers
<1>10. Watermarked(sh)'
  <2>1. /\ Live(sh)' = Live(sh) + 1 /\ Ungathered(sh)' = Ungathered(sh) \cup {Live(sh)}
        /\ \A i : CellOf(sh, i)' = CellOf(sh, i)
    BY <1>1, RingDeliver
  <2>2. /\ Live(sh) \in 0 .. Ring - 1 /\ CellOf(sh, Live(sh)) \in Cells /\ Live(sh) \notin Ungathered(sh)
        /\ HasRoom(sh, head[sh]) /\ head[sh] % Ring = CellOf(sh, Live(sh))
    <3>1. HasRoom(sh, head[sh])
      BY <1>2 DEF Delivered
    <3>2. Live(sh) \in 0 .. Ring - 1 /\ CellOf(sh, Live(sh)) \in Cells
      BY <1>1, <3>1, HeadFree
    <3>3. Ungathered(sh) \subseteq 0 .. Live(sh) - 1 /\ Ring \in Nat
      BY <1>1, UngatheredIs, Distances DEF RingOk
    <3>4. QED
      BY <1>1, <3>1, <3>2, <3>3, HeadCell
  <2> DEFINE new == [row |-> r, buf |-> b, ok |-> buf[sh][b].state = "done"]
  <2>3. \A c \in Cells : gdesc'[sh][c] = IF c = CellOf(sh, Live(sh)) THEN new ELSE gdesc[sh][c]
    BY <1>1, <1>2, <2>2 DEF Delivered, Typed, ModuleType
  <2>4. v.waiters = {} /\ by = "reaper" => Wrap(v.wm - s_tail[sh]) = Live(sh) + 1
    <3>1. /\ conf.modulus \in Nat \ {0} /\ head[sh] \in 0 .. conf.modulus - 1
          /\ s_tail[sh] \in 0 .. conf.modulus - 1 /\ 1 \in 0 .. conf.modulus - 1
          /\ ((head[sh] - s_tail[sh]) % conf.modulus) + 1 < conf.modulus
      BY <1>1, <2>2, Distances DEF RingOk, Live, Wrap
    <3>2. (((head[sh] + 1) % conf.modulus) - s_tail[sh]) % conf.modulus
             = ((head[sh] - s_tail[sh]) % conf.modulus) + 1
      BY <3>1, Ahead
    <3>3. QED
      BY <1>6, <3>2 DEF Watermark, Wrap, Live
  <2>5. buf[sh][b].state = "done" => v.data = PageOf[r]
    BY <1>6 DEF BufsKept, DataKept
  <2>6. buf[sh][b].state # "done" => r \in failed
    BY <1>5, <1>6 DEF BufsKept, DataKept
  <2>7. Live(sh) \in Nat /\ \A i \in Ungathered(sh) : i \in 0 .. Live(sh) - 1
    BY <1>1, <2>2, UngatheredIs, Distances DEF RingOk
  <2>8. \A x : (Wrap(buf[sh][x].wm - s_tail[sh]))' = Wrap(buf'[sh][x].wm - s_tail[sh])
    BY <1>3 DEF Wrap
  <2>9. ASSUME buf[sh][b].state = "done"
        PROVE  /\ v.state \in {"held", "done"}
               /\ v.state = "held" => Wrap(v.wm - s_tail[sh]) = Live(sh) + 1
    BY <1>5, <1>6, <2>4, <2>9 DEF Producers
  <2>10. ASSUME NEW i \in Ungathered(sh)', NEW d, d = gdesc'[sh][CellOf(sh, i)]
         PROVE  IF d.ok THEN Kept(sh, i, d)' ELSE d.row \in failed
    <3>1. CASE i = Live(sh)
      <4>1. d = new
        BY <2>2, <2>3, <2>10, <3>1
      <4>2. d.row = r /\ d.buf = b /\ (d.ok <=> buf[sh][b].state = "done")
        BY <4>1
      <4>3. buf'[sh][d.buf] = v
        BY <1>7, <4>2
      <4>4. i + 1 .. Live(sh) + 1 = {Live(sh) + 1}
        BY <2>7, <3>1
      <4>5. d.ok => Kept(sh, i, d)'
        BY <2>1, <2>5, <2>8, <2>9, <4>2, <4>3, <4>4 DEF Kept
      <4>6. QED
        BY <2>6, <4>2, <4>5
    <3>2. CASE i # Live(sh)
      <4>1. i \in Ungathered(sh)
        BY <2>1, <3>2
      <4>2. CellOf(sh, i) \in Cells /\ CellOf(sh, i) # CellOf(sh, Live(sh)) /\ gdesc[sh][CellOf(sh, i)] \in Desc
        BY <1>1, <2>2, <4>1, <3>2, UngatheredIs
      <4>3. d = gdesc[sh][CellOf(sh, i)] /\ d.buf \in Bufs
        BY <2>3, <2>10, <4>2 DEF Desc
      <4>4. IF d.ok THEN Kept(sh, i, d) ELSE d.row \in failed
        BY <4>1, <4>3 DEF BufsKept, Watermarked
      <4>5. CASE d.ok /\ d.buf = b
        <5>1. buf'[sh][d.buf] = v /\ buf[sh][b].state = "done"
          BY <1>5, <1>7, <4>4, <4>5 DEF Kept
        <5>2. Live(sh) + 1 \in i + 1 .. Live(sh) + 1
          BY <2>7, <4>1
        <5>3. v.data = PageOf[d.row]
          BY <1>6, <4>4, <4>5 DEF Kept
        <5>4. Kept(sh, i, d)'
          BY <2>1, <2>8, <2>9, <4>5, <5>1, <5>2, <5>3 DEF Kept
        <5>5. QED
          BY <4>5, <5>4
      <4>6. CASE d.ok /\ d.buf # b
        <5>1. buf'[sh][d.buf] = buf[sh][d.buf]
          BY <1>7, <4>3, <4>6
        <5>2. i + 1 .. Live(sh) \subseteq i + 1 .. Live(sh) + 1
          BY <2>7, <4>1
        <5>3. Kept(sh, i, d)'
          BY <2>1, <2>8, <4>4, <4>6, <5>1, <5>2 DEF Kept
        <5>4. QED
          BY <4>6, <5>3
      <4>7. QED
        BY <4>4, <4>5, <4>6
    <3>3. QED
      BY <3>1, <3>2
  <2>11. QED
    BY <1>3, <2>1, <2>10 DEF Watermarked
<1>11. QED
  BY <1>8, <1>9, <1>10 DEF BufsKept

\* A buffer whose watermark is ahead of the tail is not taken back.
LEMMA NotPassed ==
  ASSUME Typed, NEW z \in Shards, RingOk(z), NEW b \in Bufs,
         Wrap(buf[z][b].wm - s_tail[z]) \in 1 .. Live(z)
  PROVE  ~Passed(z, b)
<1> DEFINE m == conf.modulus
           t == tail[z]
           s == s_tail[z]
           a == buf[z][b].wm
<1>1. /\ m \in Nat \ {0} /\ Ring \in Nat \ {0} /\ 2 * Ring <= m
      /\ t \in 0 .. m - 1 /\ s \in 0 .. m - 1 /\ a \in 0 .. m - 1
      /\ (s - t) % m \in 0 .. Ring /\ Live(z) \in 0 .. Ring /\ ((s - t) % m) + Live(z) <= Ring
  BY Distances, BufIs DEF RingOk, CursorsOrdered, Lag, Wrap
<1>2. (a - s) % m \in 1 .. Live(z)
  BY DEF Wrap
<1>3. Passed(z, b) <=> (t - a) % m < m \div 2
  BY DEF Passed, Wrap
<1> HIDE DEF m, t, s, a
<1>4. ((s - t) % m) + ((a - s) % m) <= Ring /\ ((s - t) % m) + ((a - s) % m) < m
  BY <1>1, <1>2
<1>5. (a - t) % m = ((s - t) % m) + ((a - s) % m)
  BY <1>1, <1>4, LiesBetween
<1>6. (a - t) % m > 0 /\ (a - t) % m <= Ring /\ (a - t) % m \in Int
  BY <1>1, <1>2, <1>4, <1>5
<1>7. (t - a) % m = m - ((a - t) % m)
  BY <1>1, <1>6, Opposite
<1>8. ~ ((t - a) % m < m \div 2)
  <2>1. (t - a) % m >= Ring /\ 2 * ((t - a) % m) >= m /\ (t - a) % m \in Int
    BY <1>1, <1>6, <1>7
  <2>2. 2 * (m \div 2) <= m /\ m \div 2 \in Int
    BY <1>1
  <2>3. QED
    BY <1>1, <2>1, <2>2
<1>9. QED
  BY <1>3, <1>8

LEMMA BufsReclaim ==
  ASSUME PullInv, NEW sh \in Shards, BufsKept(sh), Reclaim(sh)
  PROVE  BufsKept(sh)'
<1>1. Typed /\ RingOk(sh)
  BY DEF PullInv, PlaceInv, RingInv, RingOk
<1>2. UNCHANGED <<conf, rlist, ilist, done_list, gdesc, head, tail, s_tail, s_head, bpc, todo, failed>>
  BY DEF Reclaim, ringVars, blockVars
<1>3. \A x \in Bufs : IF buf[sh][x].state = "held" /\ Passed(sh, x)
                      THEN buf'[sh][x].state = "free" /\ buf'[sh][x].waiters = buf[sh][x].waiters
                      ELSE buf'[sh][x] = buf[sh][x]
  BY <1>1, ReclaimIs
<1>4. /\ Live(sh)' = Live(sh) /\ Ungathered(sh)' = Ungathered(sh)
      /\ \A i : CellOf(sh, i)' = CellOf(sh, i)
  BY <1>2, RingSame
<1>5. Watermarked(sh)'
  <2>1. ASSUME NEW i \in Ungathered(sh), gdesc[sh][CellOf(sh, i)].ok,
               NEW x, x = gdesc[sh][CellOf(sh, i)].buf
        PROVE  buf'[sh][x] = buf[sh][x]
    <3>1. i \in 0 .. Live(sh) - 1 /\ x \in Bufs /\ Live(sh) \in Nat
      BY <1>1, <2>1, UngatheredIs, Distances DEF Desc, RingOk
    <3>2. buf[sh][x].state = "held" => Wrap(buf[sh][x].wm - s_tail[sh]) \in i + 1 .. Live(sh)
      BY <2>1 DEF BufsKept, Watermarked, Kept
    <3>3. i + 1 .. Live(sh) \subseteq 1 .. Live(sh)
      BY <3>1
    <3>4. buf[sh][x].state = "held" => ~Passed(sh, x)
      BY <1>1, <3>1, <3>2, <3>3, NotPassed
    <3>5. QED
      BY <1>3, <3>1, <3>4
  <2>2. QED
    BY <1>1, <1>2, <1>4, <2>1, WatermarkedSame DEF BufsKept
<1>6. DataKept(sh)'
  BY <1>2, <1>3 DEF BufsKept, DataKept
<1>7. ListsKept(sh)'
  <2>1. rlist[sh] \in Seq(Bufs) /\ ilist[sh] \in Seq(Bufs) /\ done_list[sh] \in Seq(Bufs)
    BY <1>1 DEF Typed, ModuleType
  <2>2. /\ \A i \in DOMAIN rlist[sh] : rlist[sh][i] \in Bufs
        /\ \A i \in DOMAIN ilist[sh] : ilist[sh][i] \in Bufs
        /\ \A i \in DOMAIN done_list[sh] : done_list[sh][i] \in Bufs
    BY <2>1
  <2>3. QED
    BY <1>2, <1>3, <2>2 DEF BufsKept, ListsKept
<1>8. QED
  BY <1>5, <1>6, <1>7 DEF BufsKept

\* A block that moves on is as much nearer to the watermarks ahead of it.
LEMMA BufsAdvance ==
  ASSUME PullInv, NEW sh \in Shards, BufsKept(sh), Advance(sh)
  PROVE  BufsKept(sh)'
<1>1. Typed /\ RingOk(sh)
  BY DEF PullInv, PlaceInv, RingInv, RingOk
<1>2. UNCHANGED <<conf, buf, rlist, ilist, done_list, gdesc, head, failed>>
  BY DEF Advance, kernelVars, ringVars
<1>3. PICK g \in Nat :
        /\ Live(sh)' = Live(sh) - g /\ g <= Live(sh)
        /\ Ungathered(sh) = {i + g : i \in Ungathered(sh)'}
        /\ \A i \in Int : CellOf(sh, i)' = CellOf(sh, i + g)
        /\ s_tail'[sh] = Wrap(s_tail[sh] + g)
  BY <1>1, RingAdvance
<1>4. /\ Live(sh) \in Nat /\ Live(sh) < conf.modulus /\ conf.modulus \in Nat \ {0}
      /\ s_tail[sh] \in 0 .. conf.modulus - 1
  BY <1>1, Distances DEF RingOk
<1>5. Ungathered(sh)' \subseteq 0 .. Live(sh)' - 1
  BY DEF Ungathered, Live
<1>6. ASSUME NEW i \in Ungathered(sh)', NEW d, d = gdesc'[sh][CellOf(sh, i)']
      PROVE  IF d.ok THEN Kept(sh, i, d)' ELSE d.row \in failed'
  <2>1. i \in Nat /\ i + g \in Ungathered(sh) /\ i \in Int
    BY <1>3, <1>4, <1>5
  <2>2. CellOf(sh, i)' = CellOf(sh, i + g)
    BY <1>3, <2>1
  <2>3. d = gdesc[sh][CellOf(sh, i + g)]
    BY <1>2, <1>6, <2>2
  <2>4. IF d.ok THEN Kept(sh, i + g, d) ELSE d.row \in failed
    BY <2>1, <2>3 DEF BufsKept, Watermarked
  <2>5. ASSUME d.ok, buf[sh][d.buf].state = "held"
        PROVE  (Wrap(buf[sh][d.buf].wm - s_tail[sh]))' \in i + 1 .. Live(sh)'
    <3>1. PICK a \in 0 .. conf.modulus - 1 : a = buf[sh][d.buf].wm
      <4>1. d \in Desc /\ d.buf \in Bufs
        BY <1>1, <2>1, <2>3, UngatheredIs DEF Desc
      <4>2. QED
        BY <1>1, <4>1, BufIs
    <3>2. PICK y \in i + g + 1 .. Live(sh) : y = (a - s_tail[sh]) % conf.modulus
      BY <2>4, <2>5, <3>1 DEF Wrap, Kept
    <3>3. g \in 0 .. conf.modulus - 1 /\ g <= (a - s_tail[sh]) % conf.modulus
      BY <1>3, <1>4, <2>1, <3>2
    <3>4. (a - ((s_tail[sh] + g) % conf.modulus)) % conf.modulus = ((a - s_tail[sh]) % conf.modulus) - g
      BY <1>4, <3>3, Behind
    <3>5. (Wrap(buf[sh][d.buf].wm - s_tail[sh]))' = y - g
      <4>1. (Wrap(buf[sh][d.buf].wm - s_tail[sh]))' = (a - ((s_tail[sh] + g) % conf.modulus)) % conf.modulus
        BY <1>2, <1>3, <1>6, <3>1 DEF Wrap
      <4>2. QED
        BY <3>2, <3>4, <4>1
    <3>6. y - g \in i + 1 .. Live(sh) - g
      BY <1>3, <1>4, <2>1, <3>2
    <3>7. QED
      BY <1>3, <3>5, <3>6
  <2>6. d.ok => Kept(sh, i, d)'
    BY <1>2, <2>4, <2>5 DEF Kept
  <2>7. QED
    BY <1>2, <2>4, <2>6
<1>7. Watermarked(sh)'
  BY <1>6 DEF Watermarked
<1>8. ListsKept(sh)' /\ DataKept(sh)'
  BY <1>2 DEF BufsKept, ListsKept, DataKept
<1>9. QED
  BY <1>7, <1>8 DEF BufsKept

LEMMA BufsGather ==
  ASSUME PullInv, NEW sh \in Shards, BufsKept(sh), GatherRow(sh)
  PROVE  BufsKept(sh)'
<1>1. Typed /\ RingOk(sh)
  BY DEF PullInv, PlaceInv, RingInv, RingOk
<1>2. UNCHANGED <<conf, buf, rlist, ilist, done_list, head, tail, s_tail, s_head, failed>>
  BY DEF GatherRow, kernelVars
<1>3. PICK w \in todo[sh] : Gathers(sh, w)
  BY <1>1, GatherIs
<1>4. /\ w \in Ungathered(sh) /\ Live(sh)' = Live(sh) /\ Ungathered(sh)' = Ungathered(sh) \ {w}
      /\ \A i : CellOf(sh, i)' = CellOf(sh, i)
      /\ \A c \in Cells : gdesc'[sh][c] = IF c = CellOf(sh, w) THEN NoDesc ELSE gdesc[sh][c]
  BY <1>1, <1>3, RingGather
<1>5. ASSUME NEW i \in Ungathered(sh)', NEW d, d = gdesc'[sh][CellOf(sh, i)']
      PROVE  IF d.ok THEN Kept(sh, i, d)' ELSE d.row \in failed'
  <2>1. i \in Ungathered(sh) /\ i # w /\ w \in 0 .. Ring - 1
    BY <1>1, <1>4, UngatheredIs
  <2>2. CellOf(sh, i) \in Cells /\ CellOf(sh, i) # CellOf(sh, w)
    BY <1>1, <2>1, UngatheredIs
  <2>3. d = gdesc[sh][CellOf(sh, i)]
    BY <1>4, <1>5, <2>2
  <2>4. IF d.ok THEN Kept(sh, i, d) ELSE d.row \in failed
    BY <2>1, <2>3 DEF BufsKept, Watermarked
  <2>5. (Wrap(buf[sh][d.buf].wm - s_tail[sh]))' = Wrap(buf[sh][d.buf].wm - s_tail[sh])
    BY <1>2, <1>5 DEF Wrap
  <2>6. d.ok => Kept(sh, i, d)'
    BY <1>2, <1>4, <2>4, <2>5 DEF Kept
  <2>7. QED
    BY <1>2, <2>4, <2>6
<1>6. Watermarked(sh)'
  BY <1>5 DEF Watermarked
<1>7. ListsKept(sh)' /\ DataKept(sh)'
  BY <1>2 DEF BufsKept, ListsKept, DataKept
<1>8. QED
  BY <1>6, <1>7 DEF BufsKept

LEMMA BufsBlock ==
  ASSUME PullInv, NEW sh \in Shards, BufsKept(sh), Take(sh) \/ Leave(sh)
  PROVE  BufsKept(sh)'
<1>1. Typed /\ RingOk(sh)
  BY DEF PullInv, PlaceInv, RingInv, RingOk
<1>2. UNCHANGED <<conf, buf, rlist, ilist, done_list, gdesc, s_tail, failed>>
  BY DEF Take, Leave, kernelVars, ringVars
<1>3. /\ Live(sh)' = Live(sh) /\ Ungathered(sh)' = Ungathered(sh)
      /\ \A i : CellOf(sh, i)' = CellOf(sh, i)
  BY <1>1, RingTake, RingLeave
<1>4. QED
  BY <1>1, <1>2, <1>3, BufsSame

LEMMA BufsNext ==
  ASSUME PullInv, Asynchronous, NEW z \in Shards, BufsKept(z), [Next]_vars
  PROVE  BufsKept(z)'
<1>1. CASE HostStep
  BY <1>1, BufsHost
<1>2. ASSUME NEW sh \in Shards,
             \/ KernelStep(sh) \/ Issue(sh) \/ DeliverRow(sh, "issuer") \/ BlockStep(sh)
             \/ \E b \in Bufs : Complete(sh, b)
      PROVE  BufsKept(z)'
  <2>1. CASE z # sh
    BY <1>2, <2>1, BufsOther
  <2>2. CASE z = sh
    <3>1. CASE Lap(sh) \/ Reclaim(sh) \/ DeliverRow(sh, "reaper") \/ DeliverRow(sh, "issuer")
      BY <2>2, <3>1, BufsLap, BufsDeliver, BufsReclaim DEF Producers
    <3>2. CASE Issue(sh) \/ \E b \in Bufs : Complete(sh, b)
      BY <2>2, <3>2, BufsIssue, BufsComplete
    <3>3. CASE Take(sh) \/ GatherRow(sh) \/ Advance(sh) \/ Leave(sh)
      BY <2>2, <3>3, BufsBlock, BufsGather, BufsAdvance
    <3>4. QED
      BY <1>2, <3>1, <3>2, <3>3 DEF KernelStep, BlockStep
  <2>3. QED
    BY <2>1, <2>2
<1>3. CASE UNCHANGED vars
  <2>1. UNCHANGED <<conf, buf, rlist, ilist, done_list, gdesc, head, tail, s_tail, s_head, bpc, todo, failed>>
    BY <1>3 DEF vars, kernelVars, ringVars, blockVars
  <2>2. Typed /\ RingOk(z)
    BY DEF PullInv, PlaceInv, RingInv, RingOk
  <2>3. /\ Live(z)' = Live(z) /\ Ungathered(z)' = Ungathered(z)
        /\ \A i : CellOf(z, i)' = CellOf(z, i)
    BY <2>1, RingSame
  <2>4. QED
    BY <2>1, <2>2, <2>3, BufsSame
<1>4. QED
  BY <1>1, <1>2, <1>3 DEF Next

\* A slot's rows, apart from another's.
LEMMA LandedHost ==
  ASSUME PullInv, Landed, HostStep
  PROVE  Landed'
<1>1. PlaceInv /\ Typed /\ HostType
  BY DEF PullInv, PlaceInv, RingInv, Typed
<1>2. conf' = conf
  BY DEF HostStep, StartPush, PushRow, PushOver, StartDrain, DrainOver
<1>3. \A s : RowsOf(s)' = RowsOf(s)
  BY <1>2 DEF RowsOf
<1>4. CASE StartPush
  <2>1. /\ out' = [r \in Rows |-> IF r \in RowsOf(newest) THEN Stale ELSE out[r]]
        /\ failed' = failed \ RowsOf(newest)
        /\ \A s : Busy(s)' => Busy(s) \/ s = newest
    BY <1>4 DEF StartPush, Busy
  <2>2. Out \cap RowsOf(newest) = {}
    BY <1>1, <1>4 DEF PullInv, Counted, Busy, StartPush, HostType
  <2>3. Out' = Out \cup RowsOf(newest)
    BY <1>1, <1>4, <2>2, PlaceHost DEF PullInv, HostStep, StartPush, PushRow
  <2>4. ASSUME NEW s \in 0 .. Depth - 1, Busy(s)', NEW r \in RowsOf(s)
        PROVE  IF r \in Out' THEN out'[r] = Stale
               ELSE out'[r] = PageOf[r] \/ (r \in failed' /\ out'[r] = Stale)
    <3>1. r \in Rows
      BY <1>1, ConfFacts DEF RowsOf
    <3>2. CASE r \in RowsOf(newest)
      BY <2>1, <2>3, <3>1, <3>2
    <3>3. CASE r \notin RowsOf(newest)
      <4>1. Busy(s)
        BY <2>1, <2>4, <3>3
      <4>2. out'[r] = out[r] /\ (r \in Out' <=> r \in Out) /\ (r \in failed => r \in failed')
        BY <2>1, <2>3, <3>1, <3>3
      <4>3. QED
        BY <4>1, <4>2 DEF Landed
    <3>4. QED
      BY <3>2, <3>3
  <2>5. QED
    BY <1>2, <1>3, <2>4 DEF Landed
<1>5. CASE ~StartPush
  <2>1. Out' = Out
    BY <1>1, <1>5, PlaceHost, PlacePushRow DEF PullInv
  <2>2. out' = out /\ failed' = failed
    BY <1>5 DEF HostStep, PushRow, PushOver, StartDrain, DrainOver, blockVars
  <2>3. \A s : Busy(s)' => Busy(s)
    BY <1>5 DEF HostStep, PushRow, PushOver, StartDrain, DrainOver, Busy
  <2>4. QED
    BY <1>2, <1>3, <2>1, <2>2, <2>3 DEF Landed
<1>6. QED
  BY <1>4, <1>5

\* The row a warp gathers lands, or its read had failed.
LEMMA LandedGather ==
  ASSUME PullInv, Landed, NEW sh \in Shards, BufsKept(sh), GatherRow(sh)
  PROVE  Landed'
<1>1. PlaceInv /\ Typed /\ RingOk(sh)
  BY DEF PullInv, PlaceInv, RingInv, RingOk
<1>2. conf' = conf /\ hpc' = hpc /\ slot' = slot /\ pending' = pending /\ failed' = failed
  BY DEF GatherRow, hostVars
<1>3. PICK w \in todo[sh] : Gathers(sh, w)
  BY <1>1, GatherIs
<1>4. PICK d : d = gdesc[sh][CellOf(sh, w)]
  OBVIOUS
<1>5. PICK r : r = d.row
  OBVIOUS
<1>6. r \in Out /\ r \in conf.rows /\ r \in Rows /\ Out' = Out \ {r}
  BY <1>1, <1>3, <1>4, <1>5, PlaceGather
<1>7. IF d.ok THEN buf[sh][d.buf].data = PageOf[r] ELSE r \in failed
  <2>1. w \in Ungathered(sh)
    BY <1>1, <1>3, UngatheredIs DEF GatherRow
  <2>2. QED
    BY <1>4, <1>5, <2>1 DEF BufsKept, Watermarked, Kept
<1>8. \A q \in Rows : out'[q] = IF q = r /\ d.ok THEN PageOf[r] ELSE out[q]
  <2>1. out' = IF d.ok THEN [out EXCEPT ![r] = buf[sh][d.buf].data] ELSE out
    BY <1>3, <1>4, <1>5 DEF Gathers
  <2>2. QED
    BY <1>1, <1>7, <2>1 DEF Typed
<1>9. ASSUME NEW s \in 0 .. Depth - 1, Busy(s), NEW q \in RowsOf(s)
      PROVE  IF q \in Out' THEN out'[q] = Stale
             ELSE out'[q] = PageOf[q] \/ (q \in failed /\ out'[q] = Stale)
  <2>1. q \in Rows
    BY <1>1, ConfFacts DEF RowsOf, Typed
  <2>2. IF q \in Out THEN out[q] = Stale ELSE out[q] = PageOf[q] \/ (q \in failed /\ out[q] = Stale)
    BY <1>9 DEF Landed
  <2>3. QED
    BY <1>6, <1>7, <1>8, <2>1, <2>2
<1>10. \A s : Busy(s)' = Busy(s) /\ RowsOf(s)' = RowsOf(s)
  BY <1>2 DEF Busy, RowsOf
<1>11. QED
  BY <1>2, <1>9, <1>10 DEF Landed

LEMMA LandedSame ==
  ASSUME Landed, UNCHANGED <<conf, hpc, slot, pending, out>>, Out' = Out, failed \subseteq failed'
  PROVE  Landed'
<1>1. \A s : Busy(s)' = Busy(s) /\ RowsOf(s)' = RowsOf(s)
  BY DEF Busy, RowsOf
<1>2. QED
  BY <1>1 DEF Landed

LEMMA LandedNext ==
  ASSUME HeldInv, [Next]_vars
  PROVE  Landed'
<1>1. PullInv /\ PlaceInv /\ Landed /\ \A z \in Shards : BufsKept(z)
  BY DEF HeldInv, PullInv, BufsKept
<1>2. CASE HostStep
  BY <1>1, <1>2, LandedHost
<1>3. ASSUME NEW sh \in Shards, GatherRow(sh)
      PROVE  Landed'
  BY <1>1, <1>3, LandedGather
<1>4. ASSUME NEW sh \in Shards,
             \/ KernelStep(sh) \/ Issue(sh) \/ DeliverRow(sh, "issuer")
             \/ Take(sh) \/ Advance(sh) \/ Leave(sh)
             \/ \E b \in Bufs : Complete(sh, b)
      PROVE  Landed'
  <2>0. \A z \in Shards : Alone(z) /\ Windowed(z)
    BY <1>1 DEF PullInv
  <2>1. Out' = Out
    BY <1>1, <1>4, <2>0, PlaceIssue, PlaceReading, PlaceDeliver, PlaceBlock DEF KernelStep, Producers
  <2>2. UNCHANGED <<conf, hpc, slot, pending, out>>
    BY <1>4 DEF KernelStep, Lap, DeliverRow, Reclaim, Issue, Take, Advance, Leave, Complete,
      hostVars, blockVars
  <2>3. failed \subseteq failed'
    <3>1. CASE Issue(sh)
      <4>1. Typed
        BY <1>1 DEF PlaceInv, RingInv
      <4>2. QED
        BY <3>1, <4>1, IssueIs DEF Issued
    <3>2. CASE ~Issue(sh)
      BY <1>4, <3>2 DEF KernelStep, Lap, DeliverRow, Reclaim, Take, Advance, Leave, Complete
    <3>3. QED
      BY <3>1, <3>2
  <2>4. QED
    BY <1>1, <2>1, <2>2, <2>3, LandedSame
<1>5. CASE UNCHANGED vars
  <2>1. UNCHANGED <<conf, hpc, slot, pending, toPush, out, rq, buf, gdesc, failed>>
    BY <1>5 DEF vars, hostVars, kernelVars, ringVars, blockVars
  <2>2. \A z \in Shards : Under(z)' = Under(z)
    BY <2>1, UnderSame
  <2>3. Out' = Out
    BY <2>1, <2>2, OutSame
  <2>4. QED
    BY <1>1, <2>1, <2>3, LandedSame
<1>6. QED
  BY <1>2, <1>3, <1>4, <1>5 DEF Next, BlockStep

LEMMA HeldInit == Init => HeldInv
<1> SUFFICES ASSUME Init PROVE HeldInv
  OBVIOUS
<1>1. PullInv
  BY PullInit
<1>2. ASSUME NEW z \in Shards
      PROVE  ListsKept(z) /\ DataKept(z) /\ Watermarked(z)
  <2>1. /\ DOMAIN rlist[z] = {} /\ DOMAIN ilist[z] = {} /\ DOMAIN done_list[z] = {}
        /\ \A b \in Bufs : buf[z][b].state = "free" /\ buf[z][b].waiters = {}
    BY <1>2 DEF Init
  <2>2. Ungathered(z) = {}
    <3>1. head[z] = 0 /\ s_tail[z] = 0 /\ bpc[z] = "off"
      BY DEF Init
    <3>2. conf.modulus \in Nat \ {0}
      BY <1>1, ConfFacts DEF PullInv, PlaceInv, RingInv, Typed
    <3>3. (0 - 0) % conf.modulus = 0
      <4>1. 0 \in 0 .. conf.modulus - 1
        BY <3>2
      <4>2. QED
        BY <3>2, <4>1, Distance
    <3>4. Wrap(head[z] - s_tail[z]) = 0
      BY <3>1, <3>3 DEF Wrap
    <3>5. QED
      BY <3>1, <3>4 DEF Ungathered
  <2>3. QED
    BY <2>1, <2>2 DEF ListsKept, DataKept, Watermarked
<1>3. Landed
  BY DEF Init, Landed, Busy
<1>4. QED
  BY <1>1, <1>2, <1>3 DEF HeldInv

LEMMA HeldNext ==
  ASSUME Asynchronous, OneProducer, HeldInv, [Next]_vars
  PROVE  HeldInv'
<1>1. PullInv /\ \A z \in Shards : BufsKept(z)
  BY DEF HeldInv, BufsKept
<1>2. PullInv'
  BY <1>1, PullNext
<1>3. \A z \in Shards : BufsKept(z)'
  BY <1>1, BufsNext
<1>4. Landed'
  BY LandedNext
<1>5. QED
  BY <1>2, <1>3, <1>4 DEF HeldInv, BufsKept

\* A staging buffer is not reused while the GPU has a descriptor to gather that
\* it will be read for, and it holds that row's page: the watermark a buffer is
\* held at lies beyond its descriptors, and since a ring is at most half the
\* range of a cursor, co_gpu_reclaim's signed difference tells ahead from behind.
\* A refused read's buffer is free at once, but none of its descriptors is read.
THEOREM BuffersHeld ==
  ASSUME Asynchronous, OneProducer
  PROVE  Spec => []HeldUntilGathered
<1>1. HeldInv /\ [Next]_vars => HeldInv'
  BY HeldNext
<1>2. HeldInv => HeldUntilGathered
  <2> SUFFICES ASSUME HeldInv, NEW sh \in Shards, NEW i \in Ungathered(sh),
                      NEW d, d = gdesc[sh][Wrap(s_tail[sh] + i) % Ring], d.ok
               PROVE  /\ buf[sh][d.buf].state \in {"held", "done"}
                      /\ buf[sh][d.buf].data = PageOf[d.row]
    BY DEF HeldUntilGathered
  <2>1. Watermarked(sh) /\ d = gdesc[sh][CellOf(sh, i)]
    BY DEF HeldInv, CellOf
  <2>2. QED
    BY <2>1 DEF Watermarked, Kept
<1>3. QED
  BY <1>1, <1>2, HeldInit, PTL DEF Spec

\* When the kernel has left, the batch it drained lies whole in the output
\* buffer, each row from its own page; only a row whose own read failed or was
\* refused is left as it was.  A block leaves when the batch's count is full,
\* and the count is that of the rows not under way any more.
THEOREM DrainedLanded ==
  ASSUME Asynchronous, OneProducer
  PROVE  Spec => []DrainedHasLanded
<1>1. HeldInv /\ [Next]_vars => HeldInv'
  BY HeldNext
<1>2. HeldInv => DrainedHasLanded
  <2> SUFFICES ASSUME HeldInv, hpc = "pull", AllBlocksLeft, NEW r \in RowsOf(slot)
               PROVE  out[r] = PageOf[r] \/ (r \in failed /\ out[r] = Stale)
    BY DEF DrainedHasLanded
  <2>1. PullInv /\ Landed
    BY DEF HeldInv
  <2>2. Out \cap RowsOf(slot) = {}
    BY <2>1, DrainedComplete
  <2>3. slot \in 0 .. Depth - 1 /\ Busy(slot)
    BY <2>1 DEF PullInv, PlaceInv, RingInv, Typed, HostType, BlocksLeave, Busy
  <2>4. QED
    BY <2>1, <2>2, <2>3 DEF Landed
<1>3. QED
  BY <1>1, <1>2, HeldInit, PTL DEF Spec
=============================================================================
