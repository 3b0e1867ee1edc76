---------------------------- MODULE MCNamespaces ----------------------------
EXTENDS Namespaces, TLC

CONSTANTS k1, k2, k3

\* All keys in one chain; a chain that wraps round the table into the home slot of a
\* third key.
MCHomes == {
  (k1 :> 0) @@ (k2 :> 0) @@ (k3 :> 0),
  (k1 :> 2) @@ (k2 :> 2) @@ (k3 :> 0)}

\* Values of two lengths with deletes; scans beside stores.
MCKvConfigs == {
  [homes |-> MCHomes, maxlen |-> 2, handles |-> 0, deletes |-> TRUE],
  [homes |-> MCHomes, maxlen |-> 1, handles |-> 1, deletes |-> FALSE]}

\* Careful hosts: one that writes any blocks and one that writes whole wordlines, on a
\* shared buffer, and one that writes whole pages, on a buffer of each zone.  And one that
\* errs.
MCZnsConfigs == {
  [unit |-> 1, size |-> 10, own |-> FALSE, careful |-> TRUE],
  [unit |-> 4, size |-> 4, own |-> FALSE, careful |-> TRUE],
  [unit |-> 2, size |-> 7, own |-> TRUE, careful |-> TRUE],
  [unit |-> 2, size |-> 10, own |-> FALSE, careful |-> FALSE]}

NsSymmetry == Permutations(Lines)
=============================================================================
