--------------------------- MODULE ControllerInv ---------------------------
(***************************************************************************)
(* What is true of a controller between any two steps: the inductive       *)
(* invariant of registers, admin queue and I/O queues, part by part.       *)
(***************************************************************************)
EXTENDS Controller, CursorTheorems

(* A start at the depth and place of the one before writes registers that the dispatcher
   sees unchanged.  Only the second start is like that, and only when the commands of the
   first did not fill a completion queue. *)
Sound ==
  \A k \in Configs : \A i \in 1 .. Len(k.prog) - 1 :
    k.prog[i] = k.prog[i + 1] => i = 1 /\ k.admins < k.prog[1].depth

HostStages == {"off", "asq", "acq", "enable", "starting", "ready", "stopping", "stopped", "resetting"}
Lives == {"new", "counted", "cq", "up", "closing", "sq_gone", "down"}
AdminPlaces == {"admin", "reset_db", "reset_old", "free_sq", "free_cq"}
DispPlaces == {"aqa", "asq", "acq", "cc", "doorbell", "io"} \cup AdminPlaces
NoStart == [depth |-> 0, place |-> 0]
Start(n) == IF n \in DOMAIN conf.prog THEN conf.prog[n] ELSE NoStart
Now == Start(start)
Was == Start(start - 1)

IoQueue == [shown : BOOLEAN, live : BOOLEAN, ptr : Regions \cup {"host"}]
Cqe == [op : Ops \cup {Blank}, phase : {0, 1}]

HostTypes ==
  /\ conf \in Configs
  /\ hpc \in HostStages /\ start \in 0 .. Len(conf.prog) /\ life \in Lives
  /\ h_tail \in Slots /\ h_head \in Slots /\ h_phase \in {0, 1}
  /\ flight \in SUBSET Ops /\ admins_left \in Nat /\ pairs_left \in Nat
  /\ out \in IoSlots /\ ios_left \in Nat /\ io_tail \in IoSlots

RegTypes ==
  /\ bar \in [aqa : Nat, asq : Nat, acq : Nat, cc : {"off", "on", "shut"}]
  /\ old_bar \in [aqa : Nat, asq : Nat, acq : Nat, cc : {"off", "on", "shut"}]
  /\ rdy \in BOOLEAN /\ shst \in BOOLEAN
  /\ dbs \in [admin : Slots, io : IoSlots] /\ old_dbs \in [admin : Slots, io : IoSlots]
  /\ admin_q \in [exists : BOOLEAN, sq : Nat, cq : Nat, depth : 2 .. MaxDepth, head : Slots, phase : {0, 1}]

MemTypes ==
  /\ asq_mem \in [Places -> [Slots -> Ops \cup {Blank}]]
  /\ acq_mem \in [Places -> [Slots -> Cqe]]
  /\ sq_mem \in [IoSlots -> {Blank, "cmd", "done"}]

PollTypes ==
  /\ dpc \in DispPlaces /\ dat \in Slots /\ dnew \in Slots
  /\ ppc \in {"look", "compare", "take"} /\ pat \in IoSlots /\ pnew \in IoSlots /\ queued \in Nat
  /\ sq \in IoQueue /\ cq \in IoQueue

Types == HostTypes /\ RegTypes /\ MemTypes /\ PollTypes

\* Registers: what the host has written so far, what of it was seen.
Written ==
  /\ start = 0 => hpc = "off"
  /\ bar.aqa = Now.depth
  /\ bar.asq = (IF hpc = "asq" THEN Was ELSE Now).place
  /\ bar.acq = (IF hpc \in {"asq", "acq"} THEN Was ELSE Now).place
  /\ bar.cc = IF hpc \in {"starting", "ready"} THEN "on"
              ELSE IF hpc \in {"stopping", "stopped"} THEN "shut" ELSE "off"

Settled == old_bar.aqa = bar.aqa /\ old_bar.asq = bar.asq /\ old_bar.acq = bar.acq

Seen ==
  /\ hpc \in {"off", "ready", "stopping", "stopped", "resetting"} => Settled
  /\ hpc = "starting" /\ rdy => Settled
  /\ hpc \in {"asq", "acq"} => old_bar.acq = bar.acq
  /\ hpc = "asq" => old_bar.asq = bar.asq
  /\ hpc = "starting" =>
       /\ dpc \in {"asq", "acq", "cc"} => old_bar.aqa = bar.aqa
       /\ dpc \in {"acq", "cc"} => old_bar.asq = bar.asq
       /\ dpc = "cc" => old_bar.acq = bar.acq
  /\ hpc \in {"off", "asq", "acq", "enable"} => old_bar.cc = "off"
  /\ hpc = "starting" => old_bar.cc \in {"off", "on"}
  /\ hpc = "ready" => old_bar.cc = "on"
  /\ hpc \in {"stopping", "stopped"} => old_bar.cc \in {"on", "shut"}
  /\ rdy <=> old_bar.cc # "off"

\* The dispatcher's admin queue is as the registers it has seen.
QueueAsSeen ==
  /\ admin_q.exists <=> old_bar.aqa # 0
  /\ admin_q.sq = old_bar.asq /\ admin_q.cq = old_bar.acq
  /\ admin_q.exists /\ old_bar.aqa = bar.aqa => admin_q.depth = bar.aqa

\* While the host is not at work the admin queue rests, and what a start needs of new
\* queues is so as soon as the register that changed is seen.
Resting ==
  hpc # "ready" =>
    /\ flight = {} /\ life \in {"new", "down"}
    /\ dbs.admin = old_dbs.admin /\ dpc \notin AdminPlaces

Making == {"asq", "acq", "enable", "starting"}

New ==
  hpc \in Making =>
    /\ h_tail = 0 /\ h_head = 0 /\ h_phase = 1
    /\ acq_mem[Now.place] = [i \in Slots |-> NoCqe]
    /\ Now = Was => dbs.admin = 0 /\ admin_q.head = 0 /\ admin_q.phase = 1
    /\ Now.depth # Was.depth /\ old_bar.aqa = bar.aqa =>
         dbs.admin = 0 /\ admin_q.head = 0 /\ admin_q.phase = 1
    /\ Now.place # Was.place /\ hpc # "asq" /\ old_bar.asq = bar.asq => dbs.admin = 0
    /\ Now.place # Was.place /\ hpc \in {"enable", "starting"} /\ old_bar.acq = bar.acq =>
         admin_q.head = 0 /\ admin_q.phase = 1

\* What waits in the submission queue, and what is unread in the completion queue.
Waiting == Between(Taken, h_tail, Now.depth)
Unread == Between(h_head, admin_q.head, Now.depth)
AskedAt(i) == asq_mem[Now.place][i]
AnsweredAt(i) == acq_mem[Now.place][i].op
Asked == {AskedAt(i) : i \in Waiting}
Answered == {AnsweredAt(i) : i \in Unread}

\* Each command under way is in one place, once.
OncePlaced ==
  hpc = "ready" =>
    /\ Asked \cap Answered = {} /\ Asked \cup Answered = flight
    /\ \A i, j \in Waiting : AskedAt(i) = AskedAt(j) => i = j
    /\ \A i, j \in Unread : AnsweredAt(i) = AnsweredAt(j) => i = j
    /\ Cardinality(Waiting) + Cardinality(Unread) = Cardinality(flight)
    /\ Cardinality(flight) < Now.depth

\* The first start ends in a shutdown the dispatcher sees, which leaves the admin queue as
\* it began; if too few commands were sent to fill the completion queue its phase is the first.
First ==
  start <= 1 =>
    /\ start = 0 \/ hpc \in Making \cup {"ready"} => ~shst
    /\ hpc = "stopping" /\ shst => old_bar.cc = "shut"
    /\ hpc = "stopped" => old_bar.cc = "shut"
    /\ hpc \in {"stopped", "resetting", "off"} \/ (hpc = "stopping" /\ old_bar.cc = "shut") =>
         dbs.admin = 0 /\ admin_q.head = 0
    /\ hpc \in Making => admins_left = conf.admins
    /\ conf.admins < Now.depth /\ hpc \notin Making => admin_q.phase = 1
    /\ hpc = "ready" /\ conf.admins < Now.depth =>
         admin_q.head + Cardinality(Waiting) + admins_left <= conf.admins

\* The dispatcher works within what waits.
InQueue ==
  hpc = "ready" =>
    /\ h_tail < Now.depth /\ h_head < Now.depth /\ admin_q.head < Now.depth
    /\ Taken < Now.depth
    /\ dbs.admin = h_tail
    /\ dpc \in AdminPlaces =>
         /\ dnew < Now.depth
         /\ Between(dat, dnew, Now.depth) \subseteq Waiting
         /\ dpc # "admin" => dat # dnew
    /\ dpc \in {"reset_db", "reset_old"} => Op = "create_sq"
    /\ dpc = "free_sq" => Op = "delete_sq"
    /\ dpc = "free_cq" => Op = "delete_cq"

\* The phase of each entry of the completion queue tells whether it is unread.
Phases ==
  hpc = "ready" =>
    /\ \A i \in 0 .. Now.depth - 1 :
         acq_mem[Now.place][i].phase =
           IF (i \in Unread) <=> (i >= h_head) THEN h_phase ELSE 1 - h_phase
    /\ admin_q.phase = IF admin_q.head >= h_head THEN h_phase ELSE 1 - h_phase

\* The stage of the queue pair, with the command under way and where that is.
Done(op) == hpc = "ready" /\ op \in Answered

Up(q) == q.shown /\ q.live
Gone(q) == ~q.shown /\ ~q.live
Hidden(q) == ~q.shown /\ q.live

OneCommand ==
  /\ "num_queues" \in flight => life = "new"
  /\ "create_cq" \in flight => life = "counted"
  /\ "create_sq" \in flight => life = "cq"
  /\ "delete_sq" \in flight <=> life = "closing"
  /\ "delete_cq" \in flight => life = "sq_gone"

PairStage ==
  /\ life \in {"new", "counted", "sq_gone", "down"} => Gone(sq)
  /\ life = "cq" => IF dpc \in {"reset_db", "reset_old"} \/ Done("create_sq") THEN Up(sq) ELSE Gone(sq)
  /\ life = "up" => Up(sq)
  /\ life = "closing" => IF dpc = "free_sq" THEN Hidden(sq) ELSE IF Done("delete_sq") THEN Gone(sq) ELSE Up(sq)
  /\ life \in {"new", "down"} => Gone(cq)
  /\ life = "counted" => IF Done("create_cq") THEN Up(cq) ELSE Gone(cq)
  /\ life \in {"cq", "up", "closing"} => Up(cq)
  /\ life = "sq_gone" => IF dpc = "free_cq" THEN Hidden(cq) ELSE IF Done("delete_cq") THEN Gone(cq) ELSE Up(cq)

\* The I/O doorbell: what the poller has dealt with, what it works on.
PollAt == IF ppc = "take" THEN pat ELSE old_dbs.io
Cells == {i \in IoSlots : sq_mem[i] = "cmd"}

IoRing ==
  /\ out = Cardinality(Cells) + queued
  /\ conf.fast => queued = 0
  /\ life # "up" => out = 0
  /\ life = "up" => Cells = Between(PollAt, io_tail, IoDepth) /\ dbs.io = io_tail
  /\ life # "up" =>
       \/ PollAt = dbs.io
       \/ ~conf.fast /\ dpc = "reset_old" /\ dbs.io = 0
  /\ life = "cq" /\ "create_sq" \in flight =>
       /\ io_tail = 0
       /\ conf.fast \/ dpc = "reset_old" \/ Done("create_sq") => dbs.io = 0
  /\ ppc # "look" => Between(PollAt, pnew, IoDepth) \subseteq Between(PollAt, dbs.io, IoDepth)
  /\ ~conf.fast /\ ppc # "look" => dpc = "io"
  /\ ppc = "take" => IF conf.fast THEN life = "up" ELSE sq.shown
  /\ life = "closing" /\ conf.fast => ppc # "take"

\* A queue in GPU memory lies in a listed region.
Backed ==
  \A q \in {sq, cq} : q.live /\ q.ptr \in Regions => conf.gpu /\ region[q.ptr].stage = "listed"

CtrlInv ==
  /\ Types /\ Written /\ Seen /\ QueueAsSeen /\ Resting /\ New /\ First /\ OncePlaced /\ InQueue /\ Phases
  /\ OneCommand /\ PairStage /\ IoRing /\ Backed
=============================================================================
