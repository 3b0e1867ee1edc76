------------------------------ MODULE ConvFtl ------------------------------
(***************************************************************************)
(* The conventional FTL (conv_ftl.c, with the write buffer of ssd.c): the  *)
(* page map and its reverse, the lines (superblocks) with their counts and *)
(* lists, the write pointers of host and garbage collection, the credits   *)
(* that decide when to collect, and the buffer space of writes.  A command *)
(* is handled by the dispatcher alone, page by page; only the releases of  *)
(* the write buffer come from elsewhere.                                   *)
(*                                                                         *)
(* One partition.  A page of a line is named by its place in the order in  *)
(* which the write pointer visits it: the pages of a wordline, then the    *)
(* next unit (channel and lun), then the next wordline.  Counts per block  *)
(* serve assertions only and are left out, and so is time.                 *)
(***************************************************************************)
EXTENDS Integers, Sequences, FiniteSets, FiniteSetsExt

CONSTANTS
  Lines,
  Units,      \* blocks of a line: channels times luns
  PgsPerBlk, PgsPerFlashpg, PgsPerOneshot,
  SecsPerPg,
  NLpns,      \* logical pages
  MaxNlb,     \* the longest command, in sectors
  WbSize,     \* the write buffer, in sectors
  MaxSurplus  \* bound: what sub-page writes may add to the buffer

PgsPerLine == Units * PgsPerBlk
GcThresLinesHigh == 2
NoLine == "none"

\* Over-provisioning (7 % of the flash): with too few spare lines the writer runs out of free ones.
ASSUME ConvAssumption ==
  /\ IsFiniteSet(Lines) /\ NoLine \notin Lines
  /\ {Units, PgsPerBlk, PgsPerFlashpg, PgsPerOneshot, SecsPerPg, NLpns, MaxNlb} \subseteq Nat \ {0}
  /\ {WbSize, MaxSurplus} \subseteq Nat
  /\ PgsPerOneshot % PgsPerFlashpg = 0 /\ PgsPerBlk % PgsPerOneshot = 0
  /\ NLpns < (Cardinality(Lines) - 4) * PgsPerLine
  /\ MaxNlb + (PgsPerOneshot - 1) * SecsPerPg <= WbSize

Lpns == 0 .. NLpns - 1
Places == 0 .. PgsPerLine - 1
Ppas == Lines \X Places
Unmapped == <<NoLine, -1>>
InvalidLpn == -1

VARIABLES
  vpc, ipc,                       \* of each line
  free_lines, victims, fulls,     \* free_line_list, victim_line_pq, full_line_list
  status,                         \* of each page
  maptbl, rmap,
  wp, gc_wp,                      \* write pointers of host and collection
  write_credits, credits_to_refill,
  cpc, cur, last,                 \* the command: place, next page, last page
  victim, gpos,                   \* the collection: its line and how far it is
  remaining, due                  \* write buffer: space, releases scheduled

lineVars == <<vpc, ipc, free_lines, victims, fulls>>
mapVars == <<status, maptbl, rmap>>
gcVars == <<victim, gpos>>
bufVars == <<remaining, due>>
convVars == <<lineVars, mapVars, wp, gc_wp, write_credits, credits_to_refill, cpc, cur, last,
              gcVars, bufVars>>

\* conv_init_ftl.  Lines are alike, so their first order is any.
ConvInit ==
  /\ vpc = [l \in Lines |-> 0] /\ ipc = [l \in Lines |-> 0]
  /\ \E order \in [1 .. Cardinality(Lines) -> Lines] :
       /\ \A i, j \in DOMAIN order : order[i] = order[j] => i = j
       /\ free_lines = SubSeq(order, 3, Len(order))
       /\ wp = <<order[1], 0>>
       /\ gc_wp = <<order[2], 0>>
  /\ victims = {} /\ fulls = {}
  /\ status = [p \in Ppas |-> "free"]
  /\ maptbl = [lpn \in Lpns |-> Unmapped]
  /\ rmap = [p \in Ppas |-> InvalidLpn]
  /\ write_credits = PgsPerLine /\ credits_to_refill = PgsPerLine
  /\ cpc = "idle" /\ cur = 0 /\ last = 0
  /\ victim = NoLine /\ gpos = 0
  /\ remaining = WbSize /\ due = 0

\* An overwritten page is not marked.
LostBy_Never(lpn) == {}

\* What a line loses when the page lpn is mapped to is overwritten (mark_page_invalid).
LostBy(lpn) == IF maptbl[lpn] = Unmapped THEN {} ELSE {maptbl[lpn]}

LastInWordline(ppa) == ppa[2] % PgsPerOneshot = PgsPerOneshot - 1

\* The page behind a write pointer in its line; at the line's end the first of the
\* next free line, which leaves the list (advance_write_pointer).
LineDone(ptr) == ptr[2] = PgsPerLine - 1

Advanced(ptr) ==
  IF ~LineDone(ptr) THEN <<ptr[1], ptr[2] + 1>>
  ELSE IF free_lines = <<>> THEN <<NoLine, 0>>
  ELSE <<Head(free_lines), 0>>

\* The line stays on the free list.
FreeAfter_Kept(ptr) == free_lines

FreeAfter(ptr) ==
  IF LineDone(ptr) /\ free_lines # <<>> THEN Tail(free_lines) ELSE free_lines

\* The list a line that is written through goes to.
NowFull(ptr, valid) == {l \in {ptr[1]} : LineDone(ptr) /\ valid[l] = PgsPerLine}
NowVictim(ptr, valid) == {l \in {ptr[1]} : LineDone(ptr) /\ valid[l] # PgsPerLine}
-----------------------------------------------------------------------------
\* buffer_allocate takes the command's sectors; a whole page goes back for each page
\* written, so a shorter write leaves a surplus.
Owed == (due * PgsPerOneshot + (wp[2] % PgsPerOneshot)) * SecsPerPg
Surplus == remaining + Owed - WbSize

\* A write of nlb sectors from slba: refused unless the buffer has room.  The host keeps to
\* the namespace it was told of, NLpns pages; the code refuses only what passes the flash,
\* spare pages included.
ConvWrite(slba, nlb) ==
  LET first == slba \div SecsPerPg
      end == (slba + nlb - 1) \div SecsPerPg
  IN /\ cpc = "idle"
     /\ end < NLpns
     /\ remaining >= nlb
     /\ Surplus + (end - first + 1) * SecsPerPg - nlb <= MaxSurplus
     /\ remaining' = remaining - nlb
     /\ cpc' = "page" /\ cur' = first /\ last' = end
     /\ UNCHANGED <<lineVars, mapVars, wp, gc_wp, write_credits, credits_to_refill, gcVars, due>>

\* One page of it: the old page dies, the next one of the line takes its place.
WritePage ==
  LET lost == LostBy(cur)
      less(l) == Cardinality({p \in lost : p[1] = l})
      wasFull == {l \in fulls : less(l) = 1}
      valid == [l \in Lines |-> vpc[l] - less(l) + IF l = wp[1] THEN 1 ELSE 0]
  IN /\ cpc = "page"
     /\ status' = [p \in Ppas |-> IF p = wp THEN "valid"
                                  ELSE IF p \in lost THEN "invalid" ELSE status[p]]
     /\ maptbl' = [maptbl EXCEPT ![cur] = wp]
     /\ rmap' = [p \in Ppas |-> IF p = wp THEN cur
                                ELSE IF p \in lost THEN InvalidLpn ELSE rmap[p]]
     /\ vpc' = valid
     /\ ipc' = [l \in Lines |-> ipc[l] + less(l)]
     /\ fulls' = (fulls \ wasFull) \cup NowFull(wp, valid)
     /\ victims' = victims \cup wasFull \cup NowVictim(wp, valid)
     /\ wp' = Advanced(wp)
     /\ free_lines' = FreeAfter(wp)
     /\ due' = IF LastInWordline(wp) THEN due + 1 ELSE due
     /\ write_credits' = write_credits - 1
     /\ cpc' = "credit"
     /\ UNCHANGED <<gc_wp, credits_to_refill, cur, last, gcVars, remaining>>

\* The next page of the command, if there is one.
NextPage ==
  /\ cpc' = IF cur = last THEN "idle" ELSE "page"
  /\ cur' = IF cur = last THEN 0 ELSE cur + 1
  /\ last' = IF cur = last THEN 0 ELSE last

\* check_and_refill_write_credit: credits left; or none, and enough lines or no
\* victim, so what the last collection gained is granted once more.
NoCollection ==
  \/ write_credits > 0
  \/ Len(free_lines) > GcThresLinesHigh
  \/ victims = {}

CreditPage ==
  /\ cpc = "credit"
  /\ NoCollection
  /\ write_credits' = IF write_credits > 0 THEN write_credits ELSE credits_to_refill
  /\ NextPage
  /\ UNCHANGED <<lineVars, mapVars, wp, gc_wp, credits_to_refill, gcVars, bufVars>>

\* What the collection gains is not noted.
StartGc_KeepsCredits ==
  /\ cpc = "credit" /\ ~NoCollection
  /\ \E v \in victims :
       /\ \A l \in victims : vpc[v] <= vpc[l]
       /\ victims' = victims \ {v} /\ victim' = v
  /\ gpos' = 0 /\ cpc' = "gc"
  /\ UNCHANGED <<vpc, ipc, free_lines, fulls, mapVars, wp, gc_wp, write_credits, credits_to_refill,
                 cur, last, bufVars>>

\* select_victim_line: a line with the fewest valid pages; do_gc starts on it.
StartGc ==
  /\ cpc = "credit"
  /\ ~NoCollection
  /\ \E v \in victims :
       /\ \A l \in victims : vpc[v] <= vpc[l]
       /\ victims' = victims \ {v}
       /\ victim' = v
       /\ credits_to_refill' = ipc[v]
  /\ gpos' = 0
  /\ cpc' = "gc"
  /\ UNCHANGED <<vpc, ipc, free_lines, fulls, mapVars, wp, gc_wp, write_credits, cur, last,
                 bufVars>>

\* The collection goes through flash pages, and for each through the units.
GcPage(n) ==
  LET flashpg == n \div (Units * PgsPerFlashpg)
      unit == (n \div PgsPerFlashpg) % Units
      pg == flashpg * PgsPerFlashpg + (n % PgsPerFlashpg)
  IN <<victim, (pg \div PgsPerOneshot) * PgsPerOneshot * Units + unit * PgsPerOneshot
               + (pg % PgsPerOneshot)>>

BlockOf(ppa) ==
  {q \in Ppas : q[1] = ppa[1] /\ (q[2] \div PgsPerOneshot) % Units = (ppa[2] \div PgsPerOneshot) % Units}

\* The last page of a block the collection visits: the block is erased
\* (mark_block_free).  The code leaves rmap as it was; nobody reads it of a page that
\* is not valid, and the model forgets it.
ErasedAt(n) == IF n \div (Units * PgsPerFlashpg) = PgsPerBlk \div PgsPerFlashpg - 1
                  /\ n % PgsPerFlashpg = PgsPerFlashpg - 1
               THEN BlockOf(GcPage(n)) ELSE {}

\* gc_write_page of a valid page, or nothing; the old page stays as it is.
CopyPage ==
  LET old == GcPage(gpos)
      moved == status[old] = "valid"
      valid == IF moved THEN [vpc EXCEPT ![gc_wp[1]] = @ + 1] ELSE vpc
      wiped == ErasedAt(gpos)
  IN /\ cpc = "gc"
     /\ gpos < PgsPerLine
     /\ maptbl' = IF moved THEN [maptbl EXCEPT ![rmap[old]] = gc_wp] ELSE maptbl
     /\ rmap' = [p \in Ppas |-> IF p \in wiped THEN InvalidLpn
                                ELSE IF moved /\ p = gc_wp THEN rmap[old] ELSE rmap[p]]
     /\ status' = [p \in Ppas |-> IF p \in wiped THEN "free"
                                  ELSE IF moved /\ p = gc_wp THEN "valid" ELSE status[p]]
     /\ vpc' = valid
     /\ fulls' = IF moved THEN fulls \cup NowFull(gc_wp, valid) ELSE fulls
     /\ victims' = IF moved THEN victims \cup NowVictim(gc_wp, valid) ELSE victims
     /\ gc_wp' = IF moved THEN Advanced(gc_wp) ELSE gc_wp
     /\ free_lines' = IF moved THEN FreeAfter(gc_wp) ELSE free_lines
     /\ gpos' = gpos + 1
     /\ UNCHANGED <<ipc, wp, write_credits, credits_to_refill, cpc, cur, last, victim, bufVars>>

\* mark_line_free, and the credits the collection gained.
FreeLine ==
  /\ cpc = "gc"
  /\ gpos = PgsPerLine
  /\ vpc' = [vpc EXCEPT ![victim] = 0]
  /\ ipc' = [ipc EXCEPT ![victim] = 0]
  /\ free_lines' = Append(free_lines, victim)
  /\ write_credits' = write_credits + credits_to_refill
  /\ victim' = NoLine /\ gpos' = 0
  /\ NextPage
  /\ UNCHANGED <<victims, fulls, mapVars, wp, gc_wp, credits_to_refill, bufVars>>

\* A page is given back for a wordline.
ReleaseBuffer_OnePage ==
  /\ due > 0
  /\ due' = due - 1
  /\ remaining' = remaining + SecsPerPg
  /\ UNCHANGED <<lineVars, mapVars, wp, gc_wp, write_credits, credits_to_refill, cpc, cur, last,
                 gcVars>>

\* A worker carries out a scheduled release (buffer_release).
ReleaseBuffer ==
  /\ due > 0
  /\ due' = due - 1
  /\ remaining' = remaining + PgsPerOneshot * SecsPerPg
  /\ UNCHANGED <<lineVars, mapVars, wp, gc_wp, write_credits, credits_to_refill, cpc, cur, last,
                 gcVars>>

ConvNext ==
  \/ \E slba \in 0 .. NLpns * SecsPerPg - 1, nlb \in 1 .. MaxNlb : ConvWrite(slba, nlb)
  \/ WritePage
  \/ CreditPage
  \/ StartGc
  \/ CopyPage
  \/ FreeLine
  \/ ReleaseBuffer

ConvSpec == ConvInit /\ [][ConvNext]_convVars
-----------------------------------------------------------------------------
\* Every variable keeps its type; credits and buffer stay in their bounds.
ConvTypeOK ==
  /\ vpc \in [Lines -> 0 .. PgsPerLine] /\ ipc \in [Lines -> 0 .. PgsPerLine]
  /\ free_lines \in Seq(Lines) /\ victims \subseteq Lines /\ fulls \subseteq Lines
  /\ status \in [Ppas -> {"free", "valid", "invalid"}]
  /\ maptbl \in [Lpns -> Ppas \cup {Unmapped}]
  /\ rmap \in [Ppas -> Lpns \cup {InvalidLpn}]
  /\ wp \in Ppas /\ gc_wp \in Ppas
  /\ write_credits \in 0 .. PgsPerLine /\ credits_to_refill \in 1 .. PgsPerLine
  /\ cpc \in {"idle", "page", "credit", "gc"} /\ cur \in Lpns /\ last \in Lpns
  /\ victim \in Lines \cup {NoLine} /\ gpos \in 0 .. PgsPerLine
  /\ remaining \in 0 .. WbSize + MaxSurplus /\ due \in Nat

\* A page of the victim that has been copied: still marked valid, mapped no more.
Copied(ppa) == \E n \in 0 .. gpos - 1 : victim # NoLine /\ ppa = GcPage(n)

\* The map and its reverse agree: a mapped logical page is at a valid page that maps
\* back to it, and every valid page but those just copied is some logical page's.
MapsAgree ==
  /\ \A lpn \in Lpns : maptbl[lpn] # Unmapped =>
       status[maptbl[lpn]] = "valid" /\ rmap[maptbl[lpn]] = lpn
  /\ \A ppa \in Ppas : status[ppa] = "valid" /\ ~Copied(ppa) =>
       rmap[ppa] \in Lpns /\ maptbl[rmap[ppa]] = ppa

Count(l, s) == Cardinality({p \in Ppas : p[1] = l /\ status[p] = s})

\* Every line is in one place only, with the right counts: free and empty, full of valid
\* pages, a victim with some invalid, being written from the front, or collected.
LinesAccounted ==
  LET inFree(l) == Cardinality({i \in DOMAIN free_lines : free_lines[i] = l})
      in(l, S) == IF l \in S THEN 1 ELSE 0
      open(ptr) == \A i \in Places : (status[<<ptr[1], i>>] = "free") <=> i >= ptr[2]
  IN /\ \A l \in Lines :
          /\ inFree(l) + in(l, fulls) + in(l, victims) + in(l, {wp[1]}) + in(l, {gc_wp[1]})
               + in(l, {victim}) = 1
          /\ l # victim => vpc[l] = Count(l, "valid") /\ ipc[l] = Count(l, "invalid")
          /\ inFree(l) = 1 => Count(l, "free") = PgsPerLine
          /\ l \in fulls <=> Count(l, "valid") = PgsPerLine /\ l # victim /\ l # wp[1] /\ l # gc_wp[1]
          /\ l \in victims => ipc[l] > 0 /\ Count(l, "free") = 0
     /\ open(wp) /\ open(gc_wp)

\* Host and collection always find the free line they take without looking.
LineForWriter == wp[1] # NoLine /\ gc_wp[1] # NoLine

\* Buffer space taken comes back: what is left, what releases will return and what
\* the wordline begun holds never fall short of the buffer, and once the
\* releases are done a command of any length finds room.
BufferReturns ==
  LET promised == IF cpc = "page" THEN (last - cur + 1) * SecsPerPg ELSE
                  IF cpc \in {"credit", "gc"} THEN (last - cur) * SecsPerPg ELSE 0
  IN /\ Surplus + promised >= 0
     /\ cpc = "idle" /\ due = 0 => remaining >= MaxNlb
=============================================================================
