------------------------------- MODULE L1Ring -------------------------------
(***************************************************************************)
(* The request ring of one L1 shard: many GPU threads push                 *)
(* (l1_push_req and l1_push_req_dev, nvmev_l1.h), one kernel thread pops   *)
(* (pop_req, coalesce.c).  Every cell carries a sequence word; a cursor is *)
(* a 32-bit counter that wraps, here modulo Modulus.                       *)
(*                                                                         *)
(* A request is named by the producer that pushes it: what the ring has to *)
(* tell apart is whose request sits in which cell.                         *)
(***************************************************************************)
EXTENDS Integers, FiniteSets, Sequences

CONSTANTS
  Producers,  \* the threads that push
  Entries,    \* rq_entries, a power of two
  Modulus     \* the cursors are counted modulo this; 2^32 in the code

ASSUME RingAssumption ==
  /\ IsFiniteSet(Producers)
  /\ Entries \in Nat \ {0}
  /\ Modulus \in Nat \ {0}
  /\ Modulus % Entries = 0
  \* the tickets in flight never span a whole turn of the counters
  /\ Modulus > Entries + Cardinality(Producers)

VARIABLES
  rq_head,  \* next ticket to hand out
  rq_tail,  \* next ticket to pop
  rq_seq,   \* the sequence word of every cell
  rq,       \* the request stored in every cell
  pc, pos,  \* of each producer: where it is, and the ticket it holds
  cpc, out  \* of the consumer: where it is, and the request it copied last

producerVars == <<pc, pos>>
consumerVars == <<cpc, out>>
vars == <<rq_head, rq_tail, rq_seq, rq, pc, pos, cpc, out>>

None == "none"
Cells == 0 .. Entries - 1
Cursor == 0 .. Modulus - 1
CellOf(x) == x % Entries

\* The mutation of a cursor that outgrows its 32 bits.
Wrap_Unbounded(x) == x
Wrap(x) == x % Modulus

\* The cell's sequence word names ticket x: its previous lap was drained.
\* The mutation only checks that the cell does not hold x's request yet.
CellDrained_NotMine(x) == rq_seq[CellOf(x)] # Wrap(x + 1)
CellDrained(x) == rq_seq[CellOf(x)] = x

\* The request of ticket x is complete; the mutation takes any reserved cell.
CellFilled_Reserved(x) == rq_head # x /\ rq_seq[CellOf(x)] \in {x, Wrap(x + 1)}
CellFilled(x) == rq_seq[CellOf(x)] = Wrap(x + 1)

\* The word that hands the cell to the ticket one lap ahead, and the mutation
\* that hands it to the next ticket.
NextLapOf_NextTicket(x) == Wrap(x + 1)
NextLapOf(x) == Wrap(x + Entries)

Init ==
  /\ rq_head = 0 /\ rq_tail = 0
  /\ rq_seq = [c \in Cells |-> c]
  /\ rq = [c \in Cells |-> None]
  /\ pc = [p \in Producers |-> "idle"]
  /\ pos = [p \in Producers |-> 0]
  /\ cpc = "poll" /\ out = None

\* fetch_add on rq_head: the ticket is taken before there is room for it.
Reserve(p) ==
  /\ pc[p] = "idle"
  /\ pos' = [pos EXCEPT ![p] = rq_head]
  /\ rq_head' = Wrap(rq_head + 1)
  /\ pc' = [pc EXCEPT ![p] = "wait"]
  /\ UNCHANGED <<rq_tail, rq_seq, rq, consumerVars>>

\* The spin on seq[cell] ends when the cell's previous lap was drained.
Write(p) ==
  /\ pc[p] = "wait"
  /\ CellDrained(pos[p])
  /\ rq' = [rq EXCEPT ![CellOf(pos[p])] = p]
  /\ pc' = [pc EXCEPT ![p] = "publish"]
  /\ UNCHANGED <<rq_head, rq_tail, rq_seq, pos, consumerVars>>

Publish(p) ==
  /\ pc[p] = "publish"
  /\ rq_seq' = [rq_seq EXCEPT ![CellOf(pos[p])] = Wrap(pos[p] + 1)]
  /\ pc' = [pc EXCEPT ![p] = "idle"]
  /\ UNCHANGED <<rq_head, rq_tail, rq, pos, consumerVars>>

\* pop_req up to the copy out of the cell.
PopCopy ==
  /\ cpc = "poll"
  /\ CellFilled(rq_tail)
  /\ out' = rq[CellOf(rq_tail)]
  /\ cpc' = "free"
  /\ UNCHANGED <<rq_head, rq_tail, rq_seq, rq, producerVars>>

\* The rest of pop_req: the cell is free for the producer one lap ahead.
PopFree ==
  /\ cpc = "free"
  /\ rq_seq' = [rq_seq EXCEPT ![CellOf(rq_tail)] = NextLapOf(rq_tail)]
  /\ rq_tail' = Wrap(rq_tail + 1)
  /\ cpc' = "poll"
  /\ UNCHANGED <<rq_head, rq, producerVars, out>>

Next ==
  \/ \E p \in Producers : Reserve(p) \/ Write(p) \/ Publish(p)
  \/ PopCopy
  \/ PopFree

\* A thread that reserved keeps running (the push loops never give up), and
\* the consumer kthread keeps polling.
Fairness ==
  /\ \A p \in Producers : WF_vars(Write(p)) /\ WF_vars(Publish(p))
  /\ WF_vars(PopCopy \/ PopFree)

Spec == Init /\ [][Next]_vars /\ Fairness
-----------------------------------------------------------------------------
TypeOK ==
  /\ rq_head \in Cursor /\ rq_tail \in Cursor
  /\ rq_seq \in [Cells -> Cursor]
  /\ rq \in [Cells -> Producers \cup {None}]
  /\ pc \in [Producers -> {"idle", "wait", "publish"}]
  /\ pos \in [Producers -> Cursor]
  /\ cpc \in {"poll", "free"}
  /\ out \in Producers \cup {None}

\* The ring seen as the queue of L1Queue: the tickets from the one to be
\* taken next up to rq_head, each filled once its producer published it.
NextToTake == IF cpc = "free" THEN Wrap(rq_tail + 1) ELSE rq_tail

Ticket(i) == Wrap(NextToTake + i - 1)

Holder(t) == {p \in Producers : pc[p] # "idle" /\ pos[p] = t}

QueueView ==
  [i \in 1 .. Wrap(rq_head - NextToTake) |->
     IF Holder(Ticket(i)) = {}
     THEN [who |-> rq[CellOf(Ticket(i))], filled |-> TRUE]
     ELSE [who |-> CHOOSE p \in Holder(Ticket(i)) : TRUE, filled |-> FALSE]]

Abstract == INSTANCE L1Queue WITH queue <- QueueView, taken <- out

\* The ring implements the bounded queue: FIFO in reservation order, nothing
\* lost, repeated or read before it is complete (l1_push_req against pop_req).
ImplementsQueue == Abstract!Spec

\* Two threads are never inside the same cell: a producer that was let in
\* excludes every other producer and the consumer's copy (the payload is
\* written and read with plain accesses, so an overlap would be a torn request).
NoSharedCell ==
  \A p \in Producers : pc[p] = "publish" =>
    /\ \A q \in Producers \ {p} :
         pc[q] = "publish" => CellOf(pos[q]) # CellOf(pos[p])
    /\ cpc = "free" => CellOf(rq_tail) # CellOf(pos[p])

\* A push that took a ticket returns, however full the ring was when it did.
PushReturns == \A p \in Producers : pc[p] = "wait" ~> pc[p] = "idle"
=============================================================================
