----------------------------- MODULE MCIoWorker -----------------------------
EXTENDS IoWorker, TLC

CONSTANTS c1, c2, c3, d1

\* c1, c2 and d1 go to the first worker's queue, c3 to the second's; d1 writes.
MCQueueOf == (c1 :> 1) @@ (c2 :> 1) @@ (c3 :> 2) @@ (d1 :> 1)

Plain == [workers |-> 1, entries |-> 3, fast |-> FALSE, switch |-> "never", cmds |-> {c1, c2},
          load |-> 3]

\* Two reads on one list that they fill; a write, with its release, on a list that
\* holds both and on one that does not; two workers that share the completion
\* queue; both paths by turns.
MCConfigs == {
  Plain,
  [Plain EXCEPT !.cmds = {d1}, !.load = 4],
  [Plain EXCEPT !.cmds = {d1}, !.entries = 2],
  [Plain EXCEPT !.workers = 2, !.cmds = {c1, c3}, !.load = 2],
  [Plain EXCEPT !.workers = 2, !.cmds = {c1, c3}, !.load = 2, !.fast = TRUE, !.switch = "quiet"]}

SwitchConfigs == {[Plain EXCEPT !.cmds = {c1}, !.load = 2, !.switch = "any"]}
=============================================================================
