\* Three producers on two cells: more tickets than cells, and cursors that
\* wrap every eight tickets.
SPECIFICATION Spec
CONSTANTS
  Producers = {p1, p2, p3}
  Entries = 2
  Modulus = 8
INVARIANTS
  TypeOK
  NoSharedCell
PROPERTIES
  ImplementsQueue
  PushReturns
