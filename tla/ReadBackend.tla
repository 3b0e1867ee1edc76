----------------------------- MODULE ReadBackend ----------------------------
(***************************************************************************)
(* What a read provider promises the coalescer (co_backend_ops, coalesce_  *)
(* backend.h): a read it accepted is answered by one upcall, its own.      *)
(***************************************************************************)
CONSTANT Reads

VARIABLES
  held,     \* accepted, not answered
  answered  \* upcall received, staging buffer not yet issued again

vars == <<held, answered>>

Init == held = {} /\ answered = {}

Accept(c) ==
  /\ c \notin held \cup answered
  /\ held' = held \cup {c}
  /\ UNCHANGED answered

Answer(c) ==
  /\ c \in held
  /\ held' = held \ {c}
  /\ answered' = answered \cup {c}

Reuse(c) ==
  /\ c \in answered
  /\ answered' = answered \ {c}
  /\ UNCHANGED held

Next == \E c \in Reads : Accept(c) \/ Answer(c) \/ Reuse(c)

Spec == Init /\ [][Next]_vars
=============================================================================
