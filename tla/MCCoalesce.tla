----------------------------- MODULE MCCoalesce -----------------------------
(***************************************************************************)
(* A shard with three requests on two pages, two slots, a window of two    *)
(* and a completion ring of one: credits, window and rings all run out.    *)
(***************************************************************************)
EXTENDS Coalesce, TLC

CONSTANTS r1, r2, r3, s1, s2

MCPageOf == [r \in Reqs |-> IF r = r3 THEN 1 ELSE 0]

\* Slots are alike, and so are the two requests of one page.
Symmetric == {f @@ g : f \in Permutations({s1, s2}), g \in Permutations({r1, r2})}

Plain == [split |-> FALSE, kind |-> "model", timeouts |-> FALSE, lossy |-> FALSE,
          errors |-> FALSE, echo |-> FALSE, refuse |-> FALSE, sort |-> "sorted", stride |-> 1]

SafetyConfigs == {
  \* two threads; a device whose queue fills and that fires completions twice
  [Plain EXCEPT !.split = TRUE, !.kind = "device", !.echo = TRUE],
  \* one thread; reads time out and complete too late
  [Plain EXCEPT !.timeouts = TRUE],
  \* one thread; a device whose reads fail or are refused; runs in arrival order
  [Plain EXCEPT !.kind = "device", !.errors = TRUE, !.refuse = TRUE, !.sort = "hash"],
  \* one thread; the synchronous provider, without merging
  [Plain EXCEPT !.kind = "sync", !.sort = "no_merge"],
  \* one thread; in and out of bucket mode, all pages in one bucket
  [Plain EXCEPT !.sort = "switched", !.stride = 2],
  \* one thread; a bucket for every page
  [Plain EXCEPT !.sort = "bucket"]}

\* Two threads, and a provider that may refuse a read.
SplitRefuseConfigs == {[Plain EXCEPT !.split = TRUE, !.kind = "device", !.refuse = TRUE]}

\* Two threads, and reads that time out.
SplitTimeoutConfigs == {[Plain EXCEPT !.split = TRUE, !.kind = "device", !.timeouts = TRUE]}

LiveConfigs == {
  [Plain EXCEPT !.split = TRUE, !.kind = "device"],
  [Plain EXCEPT !.timeouts = TRUE, !.lossy = TRUE, !.refuse = TRUE],
  [Plain EXCEPT !.sort = "bucket", !.stride = 2]}
=============================================================================
