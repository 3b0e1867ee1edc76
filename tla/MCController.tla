---------------------------- MODULE MCController ----------------------------
(* Small controllers for TLC; each behaviour is one of these. *)
EXTENDS Controller

One == {CHOOSE r \in Regions : TRUE}
Idles == [prog |-> <<>>, admins |-> 0, ios |-> 0, fast |-> FALSE, pairs |-> 0, gpu |-> FALSE,
          readers |-> {}, pins |-> {}, objects |-> Regions, scarce |-> FALSE]
Start(depth, place) == [depth |-> depth, place |-> place]

MCConfigs ==
  { \* the registry alone: a page pinned twice; two that translate what is not pinned
    [Idles EXCEPT !.readers = {"worker"}, !.pins = {QueueAddr}],
    [Idles EXCEPT !.readers = {"copier", "worker"}],
    \* memory for the table lacks at times
    [Idles EXCEPT !.pins = {QueueAddr}, !.scarce = TRUE],
    \* a queue pair on each path; on the dispatcher's it is deleted and created again
    [Idles EXCEPT !.prog = <<Start(3, 1)>>, !.admins = 5, !.ios = 3, !.fast = TRUE, !.pairs = 1],
    [Idles EXCEPT !.prog = <<Start(3, 1)>>, !.admins = 7, !.ios = 3, !.pairs = 2],
    \* three starts: then elsewhere, then deeper at the same place
    [Idles EXCEPT !.prog = <<Start(2, 1), Start(2, 2), Start(3, 2)>>, !.admins = 3],
    \* a start at the same place: the phase is not reset, so it may not have turned
    [Idles EXCEPT !.prog = <<Start(4, 1), Start(4, 1)>>, !.admins = 1],
    \* queues in pinned memory, whose registrations come and go
    [Idles EXCEPT !.prog = <<Start(2, 1)>>, !.admins = 5, !.ios = 1, !.pairs = 1, !.gpu = TRUE,
                  !.pins = {QueueAddr}, !.objects = One] }
=============================================================================
