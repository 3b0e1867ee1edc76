----------------------------- MODULE MCGpuPull ------------------------------
EXTENDS GpuPull, TLC

CONSTANTS a0, a1, a2, b0, b1, s0, s1, x1, x2

\* Two slots on two shards: pages 0 and 2 are of shard s0, page 1 of shard s1.
MCBatchOf == (a0 :> 0) @@ (a1 :> 0) @@ (a2 :> 0) @@ (b0 :> 1) @@ (b1 :> 1)
MCPageOf == (a0 :> 0) @@ (a1 :> 0) @@ (a2 :> 2) @@ (b0 :> 2) @@ (b1 :> 1)

MCShardOfPage == (0 :> s0) @@ (1 :> s1) @@ (2 :> s0)

Plain == [sync |-> FALSE, errors |-> FALSE, refuse |-> FALSE, split |-> FALSE, overlap |-> FALSE,
          ring |-> 2, modulus |-> 4, rows |-> {b0, b1}]

\* The pipeline of isefs.py: a batch spread over two shards, two batches on
\* shards of their own, two on one shard with reads that fail or are refused;
\* igp_fetch, which gathers while it pushes, on a ring its batch overfills.
MCConfigs ==
  {Plain,
   [Plain EXCEPT !.rows = {a0, b1}],
   [Plain EXCEPT !.rows = {a0, b0}, !.errors = TRUE, !.refuse = TRUE],
   [Plain EXCEPT !.rows = {a0, a1, a2}, !.modulus = 6, !.overlap = TRUE, !.split = TRUE]}

SyncConfigs == {[Plain EXCEPT !.rows = {a0, b0, b1}, !.sync = TRUE]}
=============================================================================
