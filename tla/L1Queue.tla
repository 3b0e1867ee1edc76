------------------------------ MODULE L1Queue ------------------------------
(***************************************************************************)
(* What the request half of an L1 ring promises (nvmev_l1.h, coalesce.h):  *)
(* a bounded queue of requests.  A producer takes its place in the queue   *)
(* when it reserves, it is served in the order of the reservations, and    *)
(* the single consumer takes a request only after its producer filled it.  *)
(* Nothing is lost, repeated or overtaken.                                 *)
(***************************************************************************)
EXTENDS Naturals, Sequences

CONSTANTS Producers, Entries

VARIABLES queue,   \* places in reservation order: [who, filled]
          taken    \* the producer whose request the consumer took last

vars == <<queue, taken>>

None == "none"

Place == [who : Producers, filled : BOOLEAN]

Init == queue = <<>> /\ taken = None

Reserve(p) ==
  /\ \A i \in DOMAIN queue : queue[i].who = p => queue[i].filled
  /\ queue' = Append(queue, [who |-> p, filled |-> FALSE])
  /\ UNCHANGED taken

\* Only the first Entries places have room to be filled.
Fill(i) ==
  /\ i <= Entries
  /\ ~queue[i].filled
  /\ queue' = [queue EXCEPT ![i].filled = TRUE]
  /\ UNCHANGED taken

Take ==
  /\ queue # <<>>
  /\ Head(queue).filled
  /\ taken' = Head(queue).who
  /\ queue' = Tail(queue)

Next ==
  \/ \E p \in Producers : Reserve(p)
  \/ \E i \in DOMAIN queue : Fill(i)
  \/ Take

Spec == Init /\ [][Next]_vars
=============================================================================
