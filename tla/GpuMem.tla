------------------------------- MODULE GpuMem -------------------------------
(***************************************************************************)
(* The registry of GPU memory (gpu_mem.c) and those who translate through  *)
(* it (__nvmev_map_prp, co_deliver_cpu_row).  Regions are pinned and       *)
(* unpinned through procfs, by any number of writers at once; translations *)
(* are read without a lock, in RCU sections, from a table that is rebuilt  *)
(* and replaced as a whole; the NVIDIA driver may reclaim a region's pages *)
(* at any time.  Addresses that are not registered are mapped on first use *)
(* and kept (nvmev_gpu_auto_map).                                          *)
(*                                                                         *)
(* A region is one GPU page, named by its address.  The array that is      *)
(* searched is the set of its entries: with two for one address, the       *)
(* search may find either.                                                 *)
(***************************************************************************)
EXTENDS Integers, Sequences, FiniteSets, SequencesExt

CONSTANTS
  Addrs,       \* GPU pages
  Regions,     \* region objects
  MaxRegions,  \* NVMEV_GPU_MAX_REGIONS
  AutoMax      \* NVMEV_AUTOMAP_MAX

ASSUME GpuAssumption ==
  /\ IsFiniteSet(Addrs) /\ IsFiniteSet(Regions)
  /\ MaxRegions \in Nat /\ AutoMax \in Nat

VARIABLES
  region,    \* the stage each region is in, its address, whether the driver reclaimed it
  regions,   \* gpu_mgr.regions
  lookup,    \* gpu_mgr.lookup: the regions it has an entry of
  grace,     \* the readers an unregister still waits for
  reader,    \* who translates: in which stage, what address, the region found
  automap    \* automap_cache: what is mapped

gpuVars == <<region, regions, lookup, grace, reader, automap>>

NoRegion == "none"
Unused == [stage |-> "unused", addr |-> NoRegion, valid |-> FALSE]
Idle == [at |-> "out", addr |-> NoRegion, found |-> NoRegion]
Readers == DOMAIN reader

\* nvmev_gpu_mem_init; Who are the threads that translate.
GpuInit(Who) ==
  /\ region = [r \in Regions |-> Unused]
  /\ regions = <<>>
  /\ lookup = {}
  /\ grace = [r \in Regions |-> {}]
  /\ reader = [x \in Who |-> Idle]
  /\ automap = <<>>

\* __rebuild_lookup_table, of the regions in the list that have not been reclaimed.  Where
\* memory is scarce there may be none for the new table, and the old one stays; an empty
\* table takes none.
Rebuilt(list) == {r \in ToSet(list) : region[r].valid}

Rebuild(list, scarce) ==
  \/ lookup' = Rebuilt(list)
  \/ scarce /\ Rebuilt(list) # {} /\ UNCHANGED lookup
-----------------------------------------------------------------------------
(* nvmev_gpu_mem_register, up to the lock and under it.  A failure of      *)
(* nvidia_p2p_get_pages changes nothing.                                   *)

GetPages(r, a) ==
  /\ region[r].stage = "unused"
  /\ region' = [region EXCEPT ![r] = [stage |-> "pinned", addr |-> a, valid |-> TRUE]]
  /\ UNCHANGED <<regions, lookup, grace, reader, automap>>

\* ioremap_wc succeeds or the pages are given back.
MapPages(r) ==
  /\ region[r].stage = "pinned"
  /\ \/ region' = [region EXCEPT ![r].stage = "mapped"]
     \/ region' = [region EXCEPT ![r] = Unused]
  /\ UNCHANGED <<regions, lookup, grace, reader, automap>>

Publish(r, scarce) ==
  /\ region[r].stage = "mapped"
  /\ IF Len(regions) >= MaxRegions
     THEN /\ region' = [region EXCEPT ![r] = Unused]
          /\ UNCHANGED <<regions, lookup>>
     ELSE /\ region' = [region EXCEPT ![r].stage = "listed"]
          /\ regions' = Append(regions, r)
          /\ Rebuild(regions', scarce)
  /\ UNCHANGED <<grace, reader, automap>>

\* nvmev_gpu_free_callback: marked only; the table keeps the entry.
Reclaim(r) ==
  /\ region[r].stage # "unused"
  /\ region[r].valid
  /\ region' = [region EXCEPT ![r].valid = FALSE]
  /\ UNCHANGED <<regions, lookup, grace, reader, automap>>

\* The first region of the list at an address.
FirstAt(a) == SelectInSeq(regions, LAMBDA r : region[r].addr = a)

Inside == {x \in Readers : reader[x].at \in {"in", "use"}}

\* The table is replaced before the region is off the list.
Unlink_TableFirst(a, scarce) ==
  LET i == FirstAt(a)
      r == regions[i]
  IN /\ i > 0
     /\ regions' = RemoveAt(regions, i)
     /\ Rebuild(regions, scarce)
     /\ region' = [region EXCEPT ![r].stage = "unlinked"]
     /\ grace' = [grace EXCEPT ![r] = Inside]
     /\ UNCHANGED <<reader, automap>>

\* nvmev_gpu_mem_unregister under the lock.  synchronize_rcu then waits for those who
\* are inside a section.
Unlink(a, scarce) ==
  LET i == FirstAt(a)
      r == regions[i]
  IN /\ i > 0
     /\ regions' = RemoveAt(regions, i)
     /\ Rebuild(regions', scarce)
     /\ region' = [region EXCEPT ![r].stage = "unlinked"]
     /\ grace' = [grace EXCEPT ![r] = Inside]
     /\ UNCHANGED <<reader, automap>>

\* An entry that is still in the table keeps the address of the region it was made of.
Freed(r) ==
  IF r \in lookup THEN [region[r] EXCEPT !.stage = "freed", !.valid = FALSE] ELSE Unused

\* synchronize_rcu is left out.
FreeRegion_NoGrace(r) ==
  /\ region[r].stage = "unlinked"
  /\ region' = [region EXCEPT ![r] = Freed(r)]
  /\ grace' = [grace EXCEPT ![r] = {}]
  /\ UNCHANGED <<regions, lookup, reader, automap>>

\* __free_region: unmapped, and the pages given back.
FreeRegion(r) ==
  /\ region[r].stage = "unlinked"
  /\ grace[r] = {}
  /\ region' = [region EXCEPT ![r] = Freed(r)]
  /\ UNCHANGED <<regions, lookup, grace, reader, automap>>
-----------------------------------------------------------------------------
(* A translation: in an RCU section that lasts as long as the pointer is   *)
(* used, or, if nothing is found, by the cache of automatic mappings.      *)

Enter(x, a) ==
  /\ reader[x] = Idle
  /\ reader' = [reader EXCEPT ![x] = [at |-> "in", addr |-> a, found |-> NoRegion]]
  /\ UNCHANGED <<region, regions, lookup, grace, automap>>

Leaving(x, there) ==
  /\ reader' = [reader EXCEPT ![x] = IF there = "out" THEN Idle ELSE [@ EXCEPT !.at = there]]
  /\ grace' = [r \in Regions |-> grace[r] \ {x}]

\* nvmev_gpu_kmap
Lookup(x) ==
  LET hits == {r \in lookup : region[r].addr = reader[x].addr}
  IN /\ reader[x].at = "in"
     /\ IF hits = {} THEN Leaving(x, "scan")
        ELSE /\ \E r \in hits : reader' = [reader EXCEPT ![x].at = "use", ![x].found = r]
             /\ UNCHANGED grace
     /\ UNCHANGED <<region, regions, lookup, automap>>

\* The copy is done (__nvmev_unmap_prp).
Leave(x) ==
  /\ reader[x].at = "use"
  /\ Leaving(x, "out")
  /\ UNCHANGED <<region, regions, lookup, automap>>

\* nvmev_gpu_auto_map: the scan without the lock.
Scan(x) ==
  /\ reader[x].at = "scan"
  /\ reader' = [reader EXCEPT ![x] = IF reader[x].addr \in ToSet(automap) THEN Idle
                                     ELSE [@ EXCEPT !.at = "lock"]]
  /\ UNCHANGED <<region, regions, lookup, grace, automap>>

\* Somebody else's mapping is not looked for.
AutoMap_NoRecheck(x) ==
  /\ reader[x].at = "lock"
  /\ automap' = IF Len(automap) >= AutoMax THEN automap ELSE Append(automap, reader[x].addr)
  /\ reader' = [reader EXCEPT ![x] = Idle]
  /\ UNCHANGED <<region, regions, lookup, grace>>

\* Under it: with the cache full the page is mapped for this one use (memremap).
AutoMap(x) ==
  /\ reader[x].at = "lock"
  /\ automap' = IF reader[x].addr \in ToSet(automap) \/ Len(automap) >= AutoMax THEN automap
                ELSE Append(automap, reader[x].addr)
  /\ reader' = [reader EXCEPT ![x] = Idle]
  /\ UNCHANGED <<region, regions, lookup, grace>>

ReaderStep(x) == Lookup(x) \/ Leave(x) \/ Scan(x) \/ AutoMap(x)
-----------------------------------------------------------------------------
\* What the list and the cache keep, and where memory is not scarce the table too.
Registered(scarce) ==
  /\ \A r \in Regions : region[r].stage = "listed" <=> r \in ToSet(regions)
  /\ \A i, j \in DOMAIN automap : automap[i] = automap[j] => i = j
  /\ ~scarce =>
       /\ \A x \in Readers : reader[x].at = "use" =>
            /\ region[reader[x].found].stage \in {"listed", "unlinked"}
            /\ region[reader[x].found].addr = reader[x].addr
       /\ lookup \subseteq ToSet(regions)
       /\ \A r \in Regions : region[r].stage = "listed" /\ region[r].valid => r \in lookup
=============================================================================
