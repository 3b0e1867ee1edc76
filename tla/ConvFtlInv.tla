----------------------------- MODULE ConvFtlInv -----------------------------
(***************************************************************************)
(* What is true of the conventional FTL between any two steps: the         *)
(* inductive invariant of map, lines, writers and buffer, part by part.    *)
(***************************************************************************)
EXTENDS ConvFtl

\* The place of the n-th page a collection visits.
PlaceAt(n) ==
  LET pg == (n \div (Units * PgsPerFlashpg)) * PgsPerFlashpg + (n % PgsPerFlashpg)
  IN (pg \div PgsPerOneshot) * PgsPerOneshot * Units
       + ((n \div PgsPerFlashpg) % Units) * PgsPerOneshot + (pg % PgsPerOneshot)
UnitOf(i) == (i \div PgsPerOneshot) % Units
EndsBlock(n) ==
  /\ n \div (Units * PgsPerFlashpg) = PgsPerBlk \div PgsPerFlashpg - 1
  /\ n % PgsPerFlashpg = PgsPerFlashpg - 1

\* The pages of a line in a state; the lines on the free list; those being written.
PagesIn(st, l, s) == {p \in Ppas : p[1] = l /\ st[p] = s}
PagesOf(l, s) == PagesIn(status, l, s)
Elems(s) == {s[i] : i \in 1 .. Len(s)}
Distinct(s) == \A i, j \in 1 .. Len(s) : s[i] = s[j] => i = j
Freed == Elems(free_lines)
Opens == {wp[1], gc_wp[1]}
Open(st, ptr) == \A i \in Places : (st[<<ptr[1], i>>] = "free") <=> i >= ptr[2]
States == {"free", "valid", "invalid"}

\* What belongs to the stages of a command.
Phases ==
  /\ victim = NoLine <=> cpc # "gc"
  /\ victim = NoLine => gpos = 0
  /\ cpc # "idle" => cur <= last
  /\ cpc \in {"idle", "page"} => write_credits > 0
  /\ cpc = "gc" => write_credits = 0

\* Every line is in one place.
LinesApart ==
  /\ Distinct(free_lines)
  /\ wp[1] # gc_wp[1]
  /\ victim \notin Freed \cup fulls \cup victims \cup Opens
  /\ Freed \cap fulls = {} /\ Freed \cap victims = {} /\ fulls \cap victims = {}
  /\ Opens \cap (Freed \cup fulls \cup victims) = {}
  /\ Lines \subseteq Freed \cup fulls \cup victims \cup Opens \cup {victim}

\* What the pages of a line are, by the place it is in.
LinesFilled ==
  /\ \A l \in Freed, i \in Places : status[<<l, i>>] = "free"
  /\ \A l \in fulls, i \in Places : status[<<l, i>>] = "valid"
  /\ \A l \in victims : ipc[l] > 0 /\ \A i \in Places : status[<<l, i>>] # "free"
  /\ Open(status, wp) /\ Open(status, gc_wp)

LinesCounted ==
  \A l \in Lines \ {victim} :
    vpc[l] = Cardinality(PagesOf(l, "valid")) /\ ipc[l] = Cardinality(PagesOf(l, "invalid"))

\* What a collection has not erased yet, it will.
WillErase ==
  cpc = "gc" =>
    \A i \in Places : status[<<victim, i>>] # "free" =>
      \E n \in gpos .. PgsPerLine - 1 : EndsBlock(n) /\ UnitOf(PlaceAt(n)) = UnitOf(i)

MappedApart == \A lpn \in Lpns : maptbl[lpn] # Unmapped => ~Copied(maptbl[lpn])

\* Pages a writer can take, and those the collection may have to copy still.
Room == Len(free_lines) * PgsPerLine + (PgsPerLine - wp[2]) + (PgsPerLine - gc_wp[2])
Left == {n \in gpos .. PgsPerLine - 1 : status[<<victim, PlaceAt(n)>>] = "valid"}

\* Beyond what the credits allow there are two lines and two pages.
Enough ==
  IF cpc = "gc"
  THEN Room + PgsPerLine - Cardinality(Left) - credits_to_refill >= 2 * PgsPerLine + 2
  ELSE Room - write_credits >= 2 * PgsPerLine + 2

Promised ==
  IF cpc = "page" THEN (last - cur + 1) * SecsPerPg
  ELSE IF cpc \in {"credit", "gc"} THEN (last - cur) * SecsPerPg ELSE 0

BufferKept == Surplus + Promised \in 0 .. MaxSurplus

ConvInv ==
  /\ ConvTypeOK /\ Phases
  /\ LinesApart /\ LinesFilled /\ LinesCounted /\ WillErase
  /\ MapsAgree /\ MappedApart
  /\ Enough
  /\ BufferKept
=============================================================================
