------------------------------ MODULE ZnsFtl ------------------------------
(***************************************************************************)
(* The zoned namespace FTL (zns_ftl.c, zns_read_write.c, zns_mgmt_send.c): *)
(* the states and write pointers of the zones, the counts of open and      *)
(* active zones, and the write buffer a write takes space from and a       *)
(* finished wordline gives it back to.  Every command is handled whole by  *)
(* the dispatcher; the releases come from the workers.                     *)
(*                                                                         *)
(* Zones and writes are measured in logical blocks (512 bytes in the zoned *)
(* builds), wordlines end at pages of several, and the releases go by the  *)
(* pages a write touches.                                                  *)
(*                                                                         *)
(* Left out is the random write area.  No build has one (MAX_ZRWA_ZONES is *)
(* 0, so identify does not offer it), but a host that sets its bit in an   *)
(* open command all the same is not refused: ZRWA_ZONE's total_cnt is the  *)
(* number of zones.  The hosts here do not set it.  No zone becomes read-  *)
(* only, hence none offline.                                               *)
(***************************************************************************)
EXTENDS Integers, FiniteSets

CONSTANTS
  Zones,
  ZoneCap,        \* zone_size, in pages
  ZnsOneshot,     \* pgs_per_oneshotpg
  ZnsSecsPerPg,   \* logical blocks of a page
  MaxWrite,       \* the longest write, in logical blocks
  MaxZnsSurplus,  \* bound: what sub-page writes may add to a buffer
  ZnsConfigs      \* the write unit and the size of a buffer, whether each zone has one
                  \* (ZONE_WB_SIZE # 0) or all share it; careful: a host that errs in
                  \* no write and leaves no wordline half written in a reset or finish

ZnsConfig == [unit : Nat \ {0}, size : Nat, own : BOOLEAN, careful : BOOLEAN]

ZoneLbas == ZoneCap * ZnsSecsPerPg
WordlineLbas == ZnsOneshot * ZnsSecsPerPg

\* The zones that may have begun a wordline and take from one buffer.
Sharers(k) ==
  IF k.unit % WordlineLbas = 0 THEN 0 ELSE IF k.own THEN 1 ELSE Cardinality(Zones)

\* Of the two zoned builds one writes whole wordlines, from a buffer that all zones
\* share, the other single blocks, from a buffer of each zone (ssd_config.h): in both,
\* what begun wordlines hold leaves room for a write.
ASSUME ZnsAssumption ==
  /\ IsFiniteSet(Zones)
  /\ {ZoneCap, ZnsOneshot, ZnsSecsPerPg, MaxWrite} \subseteq Nat \ {0}
  /\ MaxZnsSurplus \in Nat
  /\ ZnsConfigs \subseteq ZnsConfig
  /\ \A k \in ZnsConfigs : Sharers(k) * (WordlineLbas - 1) + MaxWrite <= k.size

VARIABLES
  zconf,
  state, wp_of,             \* of each zone
  open_cnt, active_cnt,     \* acquired_cnt of OPEN_ZONE and ACTIVE_ZONE
  space,                    \* buffers: what remains
  due_full, due_tail        \* buffers: releases scheduled, of a wordline and of what
                            \* a zone's end leaves of one

znsVars == <<zconf, state, wp_of, open_cnt, active_cnt, space, due_full, due_tail>>

Opened == {"impl", "expl"}
Total == Cardinality(Zones)
Shared == "shared"
Buffers == IF zconf.own THEN Zones ELSE {Shared}
BufferOf(z) == IF zconf.own THEN z ELSE Shared
TailSize == ZoneLbas % WordlineLbas   \* unaligned_space
LbaToLpn(lba) == lba \div ZnsSecsPerPg

\* zns_init_namespace
ZnsInit ==
  /\ zconf \in ZnsConfigs
  /\ state = [z \in Zones |-> "empty"] /\ wp_of = [z \in Zones |-> 0]
  /\ open_cnt = 0 /\ active_cnt = 0
  /\ space = [b \in Buffers |-> zconf.size]
  /\ due_full = [b \in Buffers |-> 0] /\ due_tail = [b \in Buffers |-> 0]

\* The wordlines a write of the blocks from .. from + n - 1 is taken to finish: those in
\* whose last page it writes, if only a part of it, and the shorter one at the zone's end.
PagesAt(from, n) == LbaToLpn(from) .. LbaToLpn(from + n - 1)
Whole(from, n) == Cardinality({p \in PagesAt(from, n) : p % ZnsOneshot = ZnsOneshot - 1})

\* The tail of a zone is not released.
EndsShort_Never(from, n) == 0

EndsShort(from, n) == IF ZoneCap - 1 \in PagesAt(from, n) /\ TailSize > 0 THEN 1 ELSE 0

\* What buffer b has when the releases scheduled are done.
Returning(b) == space[b] + due_full[b] * WordlineLbas + due_tail[b] * TailSize

Writable(z, from, n) ==
  /\ n % zconf.unit = 0
  /\ from + n <= ZoneLbas
  /\ from = wp_of[z]
  /\ state[z] # "full"
  /\ state[z] = "empty" => active_cnt < Total /\ open_cnt < Total
  /\ state[z] = "closed" => open_cnt < Total

\* __zns_write: a write where the write pointer is, or an append.
ZnsWrite(z, n) ==
  LET from == wp_of[z]
      filled == from + n = ZoneLbas
      released == Whole(from, n) * WordlineLbas + EndsShort(from, n) * TailSize
      opens == IF state[z] \in Opened THEN 0 ELSE 1
      activates == IF state[z] = "empty" THEN 1 ELSE 0
      closes == IF filled THEN 1 ELSE 0
  IN /\ space[BufferOf(z)] >= n
     /\ Writable(z, from, n)
     /\ Returning(BufferOf(z)) - n + released <= zconf.size + MaxZnsSurplus
     /\ wp_of' = [wp_of EXCEPT ![z] = from + n]
     /\ state' = [state EXCEPT ![z] = IF filled THEN "full" ELSE IF opens = 1 THEN "impl" ELSE @]
     /\ open_cnt' = open_cnt + opens - closes
     /\ active_cnt' = active_cnt + activates - closes
     /\ space' = [space EXCEPT ![BufferOf(z)] = @ - n]
     /\ due_full' = [due_full EXCEPT ![BufferOf(z)] = @ + Whole(from, n)]
     /\ due_tail' = [due_tail EXCEPT ![BufferOf(z)] = @ + EndsShort(from, n)]
     /\ UNCHANGED zconf

\* A write the zone refuses; the buffer space it took is not given back.
ZnsWriteError(z, from, n) ==
  /\ ~zconf.careful
  /\ space[BufferOf(z)] >= n
  /\ ~Writable(z, from, n)
  /\ space' = [space EXCEPT ![BufferOf(z)] = @ - n]
  /\ UNCHANGED <<zconf, state, wp_of, open_cnt, active_cnt, due_full, due_tail>>

\* A worker carries out a scheduled release.
ReleaseWordline(b) ==
  /\ due_full[b] > 0
  /\ due_full' = [due_full EXCEPT ![b] = @ - 1]
  /\ space' = [space EXCEPT ![b] = @ + WordlineLbas]
  /\ UNCHANGED <<zconf, state, wp_of, open_cnt, active_cnt, due_tail>>

ReleaseTail(b) ==
  /\ due_tail[b] > 0
  /\ due_tail' = [due_tail EXCEPT ![b] = @ - 1]
  /\ space' = [space EXCEPT ![b] = @ + TailSize]
  /\ UNCHANGED <<zconf, state, wp_of, open_cnt, active_cnt, due_full>>
-----------------------------------------------------------------------------
(* Zone management: one zone, or all of them by turns (select_all); a zone *)
(* whose state does not allow the action is left as it is.                 *)

OpenAmong(S) == Cardinality({z \in S : state[z] \in Opened})
ActiveAmong(S) == Cardinality({z \in S : state[z] \in Opened \cup {"closed"}})

CloseZones(S) ==
  /\ state' = [z \in Zones |-> IF z \in S /\ state[z] \in Opened THEN "closed" ELSE state[z]]
  /\ open_cnt' = open_cnt - OpenAmong(S)
  /\ UNCHANGED <<zconf, wp_of, active_cnt, space, due_full, due_tail>>

AtWordline(S) == \A z \in S : wp_of[z] % WordlineLbas = 0 \/ wp_of[z] = ZoneLbas

\* A closed zone keeps its place among the active ones.
FinishZones_KeepsClosed(S) ==
  /\ zconf.careful => AtWordline(S)
  /\ state' = [z \in Zones |-> IF z \in S THEN "full" ELSE state[z]]
  /\ open_cnt' = open_cnt - OpenAmong(S)
  /\ active_cnt' = active_cnt - OpenAmong(S)
  /\ UNCHANGED <<zconf, wp_of, space, due_full, due_tail>>

FinishZones(S) ==
  /\ zconf.careful => AtWordline(S)
  /\ state' = [z \in Zones |-> IF z \in S THEN "full" ELSE state[z]]
  /\ open_cnt' = open_cnt - OpenAmong(S)
  /\ active_cnt' = active_cnt - ActiveAmong(S)
  /\ UNCHANGED <<zconf, wp_of, space, due_full, due_tail>>

\* A zone opened implicitly is counted again.
OpenZones_CountsTwice(S) ==
  LET opening == {z \in S : state[z] \in {"empty", "closed", "impl"}}
  IN /\ state' = [z \in Zones |-> IF z \in S /\ state[z] # "full" THEN "expl" ELSE state[z]]
     /\ open_cnt' = open_cnt + Cardinality(opening)
     /\ active_cnt' = active_cnt + Cardinality({z \in opening : state[z] = "empty"})
     /\ UNCHANGED <<zconf, wp_of, space, due_full, due_tail>>

\* There are as many resources as zones, so none is refused for want of one.
OpenZones(S) ==
  LET opening == {z \in S : state[z] \in {"empty", "closed"}}
  IN /\ state' = [z \in Zones |-> IF z \in S /\ state[z] # "full" THEN "expl" ELSE state[z]]
     /\ open_cnt' = open_cnt + Cardinality(opening)
     /\ active_cnt' = active_cnt + Cardinality({z \in opening : state[z] = "empty"})
     /\ UNCHANGED <<zconf, wp_of, space, due_full, due_tail>>

ResetZones(S) ==
  /\ zconf.careful => AtWordline(S)
  /\ state' = [z \in Zones |-> IF z \in S THEN "empty" ELSE state[z]]
  /\ wp_of' = [z \in Zones |-> IF z \in S THEN 0 ELSE wp_of[z]]
  /\ open_cnt' = open_cnt - OpenAmong(S)
  /\ active_cnt' = active_cnt - ActiveAmong(S)
  /\ UNCHANGED <<zconf, space, due_full, due_tail>>

Selections == {{z} : z \in Zones} \cup {Zones}

ZnsNext ==
  \/ \E z \in Zones, n \in 1 .. MaxWrite : ZnsWrite(z, n)
  \/ \E z \in Zones, from \in 0 .. ZoneLbas - 1, n \in 1 .. MaxWrite : ZnsWriteError(z, from, n)
  \/ \E b \in Buffers : ReleaseWordline(b) \/ ReleaseTail(b)
  \/ \E S \in Selections : CloseZones(S) \/ FinishZones(S) \/ OpenZones(S) \/ ResetZones(S)

ZnsSpec == ZnsInit /\ [][ZnsNext]_znsVars
-----------------------------------------------------------------------------
\* Every variable keeps its type; no count passes the number of zones.
ZnsTypeOK ==
  /\ zconf \in ZnsConfigs
  /\ state \in [Zones -> Opened \cup {"empty", "closed", "full"}]
  /\ wp_of \in [Zones -> 0 .. ZoneLbas]
  /\ open_cnt \in 0 .. Total /\ active_cnt \in 0 .. Total
  /\ space \in [Buffers -> 0 .. zconf.size + MaxZnsSurplus]
  /\ due_full \in [Buffers -> Nat] /\ due_tail \in [Buffers -> Nat]

\* The counts of resources are those of the zones in the states that hold them, and
\* states agree with write pointers: a zone written through is full, an empty one
\* starts at its beginning.
ZoneCounts ==
  /\ open_cnt = OpenAmong(Zones)
  /\ active_cnt = ActiveAmong(Zones)
  /\ \A z \in Zones : /\ wp_of[z] = ZoneLbas => state[z] = "full"
                      /\ state[z] = "empty" => wp_of[z] = 0

\* The blocks in a buffer of wordlines that have begun and are not finished.
Begun(b) ==
  {p \in Zones \X (0 .. ZoneLbas - 1) :
     /\ BufferOf(p[1]) = b
     /\ wp_of[p[1]] # ZoneLbas
     /\ p[2] < wp_of[p[1]] /\ p[2] \div WordlineLbas = wp_of[p[1]] \div WordlineLbas}

\* Every block a careful host takes is in a wordline begun, in a release to come or back,
\* and once the releases are done its longest write finds room in every buffer; and
\* whatever a host gets wrong, a buffer gets no more than was taken, unless writes may end
\* within a page.
ZoneBufferReturns ==
  \A b \in Buffers :
    /\ zconf.careful => /\ Returning(b) + Cardinality(Begun(b)) >= zconf.size
                        /\ due_full[b] + due_tail[b] = 0 => space[b] >= MaxWrite
    /\ zconf.unit % ZnsSecsPerPg = 0 => Returning(b) + Cardinality(Begun(b)) <= zconf.size
=============================================================================
