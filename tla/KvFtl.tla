------------------------------- MODULE KvFtl -------------------------------
(***************************************************************************)
(* The key-value FTL (kv_ftl.c with the append-only allocator it is built  *)
(* with): a hash table whose slots hold a key, the place and length of its *)
(* value and the next slot of the chain it collided into; values appended  *)
(* to the storage and overwritten in place; iterators that walk the slots. *)
(* Commands are carried out whole by a worker.  One worker: with several,  *)
(* the code has no lock between them.                                      *)
(*                                                                         *)
(* Keys have one length.  Lengths are in units; all of them are small      *)
(* (at most SMALL_LENGTH), where an update may change the length.          *)
(***************************************************************************)
EXTENDS Integers, Sequences, FiniteSets, FiniteSetsExt

CONSTANTS
  Keys, Vals,     \* Vals: contents of one unit
  Slots,          \* hash_slots
  Storage,        \* bound: units ever allocated (storage_size)
  IterRoom,       \* keys that fit an iterator's reply
  KvConfigs       \* what keys hash to; the longest value, the number of
                  \* iterator handles (16 in the code), whether keys are deleted

KvConfig == [homes : SUBSET [Keys -> 0 .. Slots - 1], maxlen : Nat \ {0},
             handles : Nat, deletes : BOOLEAN]

ASSUME KvAssumption ==
  /\ IsFiniteSet(Keys) /\ IsFiniteSet(Vals)
  /\ {Slots, Storage, IterRoom} \subseteq Nat \ {0}
  /\ KvConfigs \subseteq KvConfig

VARIABLES
  kconf,
  home,       \* hash_function(key) % hash_slots
  table,      \* kv_mapping_table
  latest,     \* append_only: the next unit to give out
  mem,        \* contents of the storage
  cell,       \* host: the length a key was first stored with
  iter        \* iter_handle

kvVars == <<kconf, home, table, latest, mem, cell, iter>>

SlotIds == 0 .. Slots - 1
Nil == -1
NoKey == "none"
NullIter == [open |-> FALSE, wild |-> FALSE]
WildIter == [open |-> FALSE, wild |-> TRUE]
EmptyEntry == [key |-> NoKey, off |-> Nil, len |-> Nil, next |-> Nil]

\* kv_init_namespace.  Only the handles below the last are set to NULL: what the last
\* one holds is whatever the memory held.
KvInit ==
  /\ kconf \in KvConfigs
  /\ home \in kconf.homes
  /\ table = [s \in SlotIds |-> EmptyEntry]
  /\ latest = 0
  /\ mem = [u \in 0 .. Storage - 1 |-> NoKey]
  /\ cell = [k \in Keys |-> 0]
  /\ \E last \in {NullIter, WildIter} :
       iter = [h \in 1 .. kconf.handles |-> IF h = kconf.handles THEN last ELSE NullIter]

Used(s) == s \in SlotIds /\ table[s].off # Nil

\* The used slots of the chain from s.
Chain(s) ==
  LET upto[n \in 0 .. Slots] ==
        IF n = 0 THEN {s}
        ELSE LET c == upto[n - 1] IN c \cup {table[t].next : t \in {u \in c : Used(u)}}
  IN {t \in upto[Slots] : Used(t)}

\* get_mapping_entry: the slot of a key, or Nil.  A chain holds a key once.
Find(k) ==
  LET hits == {t \in Chain(home[k]) : table[t].key = k}
  IN IF hits = {} THEN Nil ELSE CHOOSE t \in hits : TRUE

\* find_next_slot: the last used slot of the chain, and the first free slot behind it.
ChainEnd(s) == CHOOSE t \in Chain(s) : table[t].next \notin Chain(s)
FreeBehind(t) ==
  LET free == {d \in 1 .. Slots - 1 : ~Used((t + d) % Slots)}
  IN (t + Min(free)) % Slots

\* The new slot is linked behind the home slot, whatever follows it.
Inserted_AtHome(k, off, len) ==
  LET h == home[k]
      slot == IF Used(h) THEN FreeBehind(ChainEnd(h)) ELSE h
      filled == [table EXCEPT ![slot].key = k, ![slot].off = off, ![slot].len = len]
  IN IF Used(h) THEN [filled EXCEPT ![h].next = slot] ELSE filled

\* new_mapping_entry: the home slot if it is free, else a slot linked to the chain's end.
\* The next link of the new entry is left as it was.
Inserted(k, off, len) ==
  LET h == home[k]
      slot == IF Used(h) THEN FreeBehind(ChainEnd(h)) ELSE h
      filled == [table EXCEPT ![slot].key = k, ![slot].off = off, ![slot].len = len]
  IN IF Used(h) THEN [filled EXCEPT ![ChainEnd(h)].next = slot] ELSE filled

TableHasRoom == \E s \in SlotIds : ~Used(s)

Written(off, v, n) == [u \in DOMAIN mem |-> IF u \in off .. off + n - 1 THEN v ELSE mem[u]]

Gone(slot) == [table EXCEPT ![slot] = EmptyEntry]
-----------------------------------------------------------------------------
\* append_only_allocate: units are given out in order and never taken back.
Allocate_OneUnit(n) == latest' = latest + 1
Allocate(n) == latest' = latest + n

\* A store of a key that is not there, in a command or a batch: the value is written to
\* newly allocated units.  The host leaves a slot free (the search for one never ends
\* in a full table) and stays within the storage.
Insert(k, v, n) ==
  /\ Find(k) = Nil
  /\ TableHasRoom
  /\ latest + n <= Storage
  /\ Allocate(n)
  /\ mem' = Written(latest, v, n)
  /\ table' = Inserted(k, latest, n)
  /\ cell' = [cell EXCEPT ![k] = n]
  /\ UNCHANGED <<kconf, home, iter>>

\* A store of a key that is there: overwritten in place.  The host does not store a value
\* longer than the first: it would run into the next one's units.
Update(k, v, n) ==
  /\ Find(k) # Nil
  /\ n <= cell[k]
  /\ mem' = Written(table[Find(k)].off, v, n)
  /\ table' = [table EXCEPT ![Find(k)].len = n]
  /\ UNCHANGED <<kconf, home, latest, cell, iter>>

\* In a batch the length is not updated.
BatchUpdate(k, v, n) ==
  /\ Find(k) # Nil
  /\ n <= cell[k]
  /\ mem' = Written(table[Find(k)].off, v, n)
  /\ UNCHANGED <<kconf, home, table, latest, cell, iter>>

Content(slot) == [i \in 1 .. table[slot].len |-> mem[table[slot].off + i - 1]]

\* delete_mapping_entry: the whole entry is wiped, its link too.
Delete(k) ==
  /\ kconf.deletes
  /\ Find(k) # Nil
  /\ table' = Gone(Find(k))
  /\ cell' = [cell EXCEPT ![k] = 0]
  /\ UNCHANGED <<kconf, home, latest, mem, iter>>
-----------------------------------------------------------------------------
(* Iterators.  listed and owed are what the host has been given and what   *)
(* was there when it opened the iterator.                                  *)

FreshIter == [open |-> TRUE, wild |-> FALSE, pos |-> 0, end |-> FALSE,
              owed |-> {k \in Keys : Find(k) # Nil}, listed |-> {}, twice |-> FALSE]

IterOpen ==
  /\ \E h \in 1 .. kconf.handles : iter[h] = NullIter
  /\ iter' = [iter EXCEPT ![Min({h \in 1 .. kconf.handles : iter[h] = NullIter})] = FreshIter]
  /\ UNCHANGED <<kconf, home, table, latest, mem, cell>>

IterClose(h) ==
  /\ iter[h].open
  /\ iter' = [iter EXCEPT ![h] = NullIter]
  /\ UNCHANGED <<kconf, home, table, latest, mem, cell>>

\* The key that did not fit is passed over.
IterRead_SkipsOne(h) ==
  LET pos == iter[h].pos
      ahead == {s \in pos .. Slots - 1 : Used(s)}
      before(s) == Cardinality({t \in ahead : t < s})
      taken == {s \in ahead : before(s) < IterRoom}
      left == ahead \ taken
  IN /\ iter[h].open
     /\ iter' = [iter EXCEPT ![h] =
          [iter[h] EXCEPT !.pos = IF left = {} THEN Slots ELSE Min(left) + 1,
                    !.end = left = {} /\ pos < Slots,
                    !.listed = iter[h].listed \cup ({table[s].key : s \in taken} \cap iter[h].owed),
                    !.twice = iter[h].twice \/ \E s \in taken : table[s].key \in iter[h].listed]]
     /\ UNCHANGED <<kconf, home, table, latest, mem, cell>>

\* The used slots from pos on, as many as fit; the cursor stops at the first that does
\* not, or behind the table's end, which alone is reported.
IterRead(h) ==
  LET pos == iter[h].pos
      ahead == {s \in pos .. Slots - 1 : Used(s)}
      before(s) == Cardinality({t \in ahead : t < s})
      taken == {s \in ahead : before(s) < IterRoom}
      left == ahead \ taken
  IN /\ iter[h].open
     /\ iter' = [iter EXCEPT ![h] =
          [iter[h] EXCEPT !.pos = IF left = {} THEN Slots ELSE Min(left),
                    !.end = left = {} /\ pos < Slots,
                    !.listed = iter[h].listed \cup ({table[s].key : s \in taken} \cap iter[h].owed),
                    !.twice = iter[h].twice \/ \E s \in taken : table[s].key \in iter[h].listed]]
     /\ UNCHANGED <<kconf, home, table, latest, mem, cell>>

KvNext ==
  \/ \E k \in Keys, v \in Vals, n \in 1 .. kconf.maxlen :
       Insert(k, v, n) \/ Update(k, v, n) \/ BatchUpdate(k, v, n)
  \/ \E k \in Keys : Delete(k)
  \/ IterOpen
  \/ \E h \in 1 .. kconf.handles : IterClose(h) \/ IterRead(h)

KvSpec == KvInit /\ [][KvNext]_kvVars
-----------------------------------------------------------------------------
Iterator == {NullIter, WildIter}
  \cup [open : {TRUE}, wild : {FALSE}, pos : 0 .. Slots, end : BOOLEAN,
        owed : SUBSET Keys, listed : SUBSET Keys, twice : BOOLEAN]

\* Every variable keeps its type; offsets stay in the storage.
KvTypeOK ==
  /\ kconf \in KvConfigs
  /\ home \in [Keys -> SlotIds]
  /\ table \in [SlotIds -> [key : Keys \cup {NoKey}, off : Nil .. Storage - 1,
                            len : {Nil} \cup 1 .. kconf.maxlen, next : Nil .. Slots - 1]]
  /\ latest \in 0 .. Storage
  /\ mem \in [0 .. Storage - 1 -> Vals \cup {NoKey}]
  /\ cell \in [Keys -> 0 .. kconf.maxlen]
  /\ iter \in [1 .. kconf.handles -> Iterator]

\* The dictionary a host sees: what is found along the chains.
Seen == [k \in Keys |-> IF Find(k) = Nil THEN <<>> ELSE Content(Find(k))]
Values == UNION {[1 .. n -> {v}] : n \in 1 .. Storage, v \in Vals}

Map == INSTANCE KvMap WITH dict <- Seen

\* The namespace is a dictionary.
KvIsMap == Map!MapSpec

\* An iterator that reports its end has listed every key that was there when it was
\* opened once, as long as nothing was deleted: stores during the scan move no key.
ScanComplete ==
  \A h \in 1 .. kconf.handles : iter[h].open /\ iter[h].end /\ ~kconf.deletes =>
    iter[h].listed = iter[h].owed /\ ~iter[h].twice

\* A chain ends and holds no key twice, and two keys found share no unit.
CellsApart ==
  /\ \A s \in SlotIds : Used(s) => \E t \in Chain(s) : table[t].next \notin Chain(s)
  /\ \A k \in Keys : \A s, t \in Chain(home[k]) :
       table[s].key = k /\ table[t].key = k => s = t
  /\ \A j, k \in Keys : j # k /\ Find(j) # Nil /\ Find(k) # Nil =>
       table[Find(j)].off + cell[j] <= table[Find(k)].off
       \/ table[Find(k)].off + cell[k] <= table[Find(j)].off
=============================================================================
