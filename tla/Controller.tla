----------------------------- MODULE Controller -----------------------------
(***************************************************************************)
(* The controller as the host's driver sees it (pci.c, admin.c, main.c):   *)
(* registers that the dispatcher polls and compares with what it saw last  *)
(* (nvmev_proc_bars), the admin queue, and the creation and deletion of a  *)
(* pair of I/O queues while doorbells are polled: by the dispatcher, or,   *)
(* with io_lat_ns # 0, by a worker.  Queues may lie in GPU memory, whose   *)
(* registry is GpuMem.  What I/O commands do is in IoWorker and the FTLs;  *)
(* here one is taken from its queue and answered.                          *)
(*                                                                         *)
(* An admin command is known by what it does, and the host has one of each *)
(* under way at most.  Doorbells of completion queues only feed statistics *)
(* and are left out.                                                       *)
(***************************************************************************)
EXTENDS GpuMem

CONSTANTS
  IoDepth,   \* entries of the I/O submission queue
  MaxDepth,  \* the deepest an admin queue is made (AQA): its commands lie in one page
  Configs

\* What each start programs: the depth of the admin queues and where they are.  The
\* admin commands and the I/Os of a start; io_lat_ns # 0; how often
\* the queue pair is created; where it lies; who translates; what the host
\* pins, as which objects; whether memory for the table may lack, which a host whose
\* queues are pinned is spared.
Config == [prog : Seq([depth : 2 .. MaxDepth, place : Nat \ {0}]), admins : Nat, ios : Nat,
           fast : BOOLEAN, pairs : Nat, gpu : BOOLEAN, readers : SUBSET STRING,
           pins : SUBSET Addrs, objects : SUBSET Regions, scarce : BOOLEAN]

ASSUME ControllerAssumption ==
  /\ IoDepth \in Nat \ {0, 1} /\ MaxDepth \in 2 .. 64
  /\ "host" \notin Regions
  /\ Configs \subseteq Config
  /\ \A k \in Configs : k.scarce => ~k.gpu

VARIABLES
  conf,
  hpc, start, life,              \* host: stage, starts so far, its queue pair
  h_tail, h_head, h_phase,       \* its positions in the admin queues
  flight, admins_left, pairs_left,
  out, ios_left, io_tail,        \* I/Os unanswered and to come, its submission tail
  bar, old_bar, rdy, shst,       \* registers, those seen last, csts
  asq_mem, acq_mem, sq_mem,      \* memory: admin queues by place, I/O submission queue
  dbs, old_dbs,                  \* doorbells, those dealt with
  admin_q, nr_sq,
  sq, cq,                        \* sqes, cqes and what they point to
  dpc, dat, dnew,                \* dispatcher: place, admin command, doorbell as read
  ppc, pat, pnew,                \* who polls the I/O doorbell: the same
  queued                         \* commands on work lists

hostVars == <<hpc, start, life, h_tail, h_head, h_phase, flight, admins_left, pairs_left>>
ioHostVars == <<out, ios_left, io_tail>>
regVars == <<bar, old_bar, rdy, shst>>
memVars == <<asq_mem, acq_mem>>
queueVars == <<admin_q, nr_sq, sq, cq>>
dispVars == <<dpc, dat, dnew>>
pollVars == <<ppc, pat, pnew, queued>>
vars == <<conf, hostVars, ioHostVars, regVars, memVars, sq_mem, dbs, old_dbs, queueVars, dispVars,
          pollVars, gpuVars>>

Ops == {"identify", "num_queues", "create_cq", "create_sq", "delete_sq", "delete_cq"}
Blank == "blank"
NoCqe == [op |-> Blank, phase |-> 0]
NoQueue == [exists |-> FALSE, sq |-> 0, cq |-> 0, depth |-> 2, head |-> 0, phase |-> 1]
\* shown: the entry of sqes or cqes is not NULL; live: what it points to exists;
\* ptr: where its memory is, a region or the host's.
NoIoQueue == [shown |-> FALSE, live |-> FALSE, ptr |-> "host"]
Places == {p.place : p \in ToSet(conf.prog)}
Slots == 0 .. MaxDepth - 1
IoSlots == 0 .. IoDepth - 1
QueueAddr == CHOOSE a \in Addrs : TRUE
Prog == conf.prog[start]

\* VDEV_INIT and __init_nvme_ctrl_regs.
Init ==
  /\ conf \in Configs
  /\ hpc = "off" /\ start = 0 /\ life = "new"
  /\ h_tail = 0 /\ h_head = 0 /\ h_phase = 1 /\ flight = {}
  /\ admins_left = 0 /\ pairs_left = 0
  /\ out = 0 /\ ios_left = 0 /\ io_tail = 0
  /\ bar = [aqa |-> 0, asq |-> 0, acq |-> 0, cc |-> "off"] /\ old_bar = bar
  /\ rdy = FALSE /\ shst = FALSE
  /\ asq_mem = [p \in Places |-> [i \in Slots |-> Blank]]
  /\ acq_mem = [p \in Places |-> [i \in Slots |-> NoCqe]]
  /\ sq_mem = [i \in IoSlots |-> Blank]
  /\ dbs = [admin |-> 0, io |-> 0] /\ old_dbs = dbs
  /\ admin_q = NoQueue /\ nr_sq = 0 /\ sq = NoIoQueue /\ cq = NoIoQueue
  /\ dpc = "aqa" /\ dat = 0 /\ dnew = 0
  /\ ppc = "look" /\ pat = 0 /\ pnew = 0 /\ queued = 0
  /\ GpuInit(conf.readers)
-----------------------------------------------------------------------------
(* The host's driver: registers.  It takes new memory, cleared, for the    *)
(* admin queues.  CC it writes between two passes of the dispatcher over   *)
(* the registers: a pass reads them in the order they are written and CC   *)
(* several times, so it may see the last write of a sequence only.         *)

UNCHANGED_device == UNCHANGED <<old_bar, rdy, shst, old_dbs, queueVars, dispVars, pollVars, gpuVars>>

WriteAqa ==
  /\ hpc = "off"
  /\ start < Len(conf.prog)
  /\ start' = start + 1
  /\ bar' = [bar EXCEPT !.aqa = conf.prog[start + 1].depth]
  /\ asq_mem' = [asq_mem EXCEPT ![conf.prog[start + 1].place] = [i \in Slots |-> Blank]]
  /\ acq_mem' = [acq_mem EXCEPT ![conf.prog[start + 1].place] = [i \in Slots |-> NoCqe]]
  /\ h_tail' = 0 /\ h_head' = 0 /\ h_phase' = 1
  /\ admins_left' = conf.admins /\ pairs_left' = conf.pairs /\ ios_left' = conf.ios
  /\ hpc' = "asq" /\ life' = "new"
  /\ UNCHANGED <<conf, flight, out, io_tail, sq_mem, dbs>> /\ UNCHANGED_device

WriteAsq ==
  /\ hpc = "asq"
  /\ bar' = [bar EXCEPT !.asq = Prog.place]
  /\ hpc' = "acq"
  /\ UNCHANGED <<conf, start, life, h_tail, h_head, h_phase, flight, admins_left, pairs_left, ioHostVars,
                 memVars, sq_mem, dbs>> /\ UNCHANGED_device

WriteAcq ==
  /\ hpc = "acq"
  /\ bar' = [bar EXCEPT !.acq = Prog.place]
  /\ hpc' = "enable"
  /\ UNCHANGED <<conf, start, life, h_tail, h_head, h_phase, flight, admins_left, pairs_left, ioHostVars,
                 memVars, sq_mem, dbs>> /\ UNCHANGED_device

WriteCc(from, cc, to) ==
  /\ hpc = from
  /\ dpc = "aqa"
  /\ bar' = [bar EXCEPT !.cc = cc]
  /\ hpc' = to
  /\ UNCHANGED <<conf, start, life, h_tail, h_head, h_phase, flight, admins_left, pairs_left, ioHostVars,
                 memVars, sq_mem, dbs>> /\ UNCHANGED_device

SeeCsts(from, seen, to) ==
  /\ hpc = from
  /\ seen
  /\ hpc' = to
  /\ UNCHANGED <<conf, start, life, h_tail, h_head, h_phase, flight, admins_left, pairs_left, ioHostVars,
                 memVars, sq_mem, dbs, bar>> /\ UNCHANGED_device

Enable == WriteCc("enable", "on", "starting")
SeeReady == SeeCsts("starting", rdy, "ready")
Shutdown == flight = {} /\ life \in {"new", "down"} /\ WriteCc("ready", "shut", "stopping")
SeeShutdown == SeeCsts("stopping", shst, "stopped")
Disable == WriteCc("stopped", "off", "resetting")
SeeDisabled == SeeCsts("resetting", ~rdy, "off")
-----------------------------------------------------------------------------
(* The host's driver: admin commands.                                      *)

\* In which stage of its queue pair the host sends a command, and the next stage.
Before == [num_queues |-> "new", create_cq |-> "counted", create_sq |-> "cq",
           delete_sq |-> "up", delete_cq |-> "sq_gone"]
After == [num_queues |-> "counted", create_cq |-> "cq", create_sq |-> "up",
          delete_sq |-> "sq_gone", delete_cq |-> "down"]

\* A queue is deleted when its I/Os are answered.  On the fast path the host also gives
\* the worker the time to leave it, and uses its identifier again when the doorbell
\* is back at 0: the worker takes no part in creation and deletion.
MaySend(op) ==
  /\ op # "identify" => life = Before[op]
  /\ op = "create_cq" => pairs_left > 0 /\ (conf.gpu => lookup # {})
  /\ op = "create_sq" /\ conf.fast => dbs.io = 0
  /\ op = "delete_sq" => out = 0 /\ (conf.fast => ppc = "look")

SendAdmin(op) ==
  /\ hpc = "ready"
  /\ op \notin flight
  /\ Cardinality(flight) < Prog.depth - 1
  /\ admins_left > 0
  /\ MaySend(op)
  /\ flight' = flight \cup {op}
  /\ admins_left' = admins_left - 1
  /\ pairs_left' = IF op = "create_cq" THEN pairs_left - 1 ELSE pairs_left
  /\ life' = IF op = "delete_sq" THEN "closing" ELSE life
  /\ asq_mem' = [asq_mem EXCEPT ![Prog.place][h_tail] = op]
  /\ h_tail' = (h_tail + 1) % Prog.depth
  /\ dbs' = [dbs EXCEPT !.admin = h_tail']
  /\ sq_mem' = IF op = "create_sq" THEN [i \in IoSlots |-> Blank] ELSE sq_mem
  /\ io_tail' = IF op = "create_sq" THEN 0 ELSE io_tail
  /\ UNCHANGED <<conf, hpc, start, h_head, h_phase, out, ios_left, acq_mem, bar>>
  /\ UNCHANGED_device

NewCqe == acq_mem[Prog.place][h_head].phase = h_phase

TakeCqe ==
  LET op == acq_mem[Prog.place][h_head].op
  IN /\ hpc = "ready"
     /\ NewCqe
     /\ flight' = flight \ {op}
     /\ life' = IF op = "identify" THEN life
                ELSE IF op = "delete_cq" /\ pairs_left > 0 THEN "counted" ELSE After[op]
     /\ h_head' = (h_head + 1) % Prog.depth
     /\ h_phase' = IF h_head' = 0 THEN 1 - h_phase ELSE h_phase
     /\ UNCHANGED <<conf, hpc, start, h_tail, admins_left, pairs_left, ioHostVars, memVars, sq_mem,
                    dbs, bar>>
     /\ UNCHANGED_device

SubmitIo ==
  /\ hpc = "ready" /\ life = "up"
  /\ ios_left > 0
  /\ out < IoDepth - 1
  /\ out' = out + 1
  /\ ios_left' = ios_left - 1
  /\ sq_mem' = [sq_mem EXCEPT ![io_tail] = "cmd"]
  /\ io_tail' = (io_tail + 1) % IoDepth
  /\ dbs' = [dbs EXCEPT !.io = io_tail']
  /\ UNCHANGED <<conf, hostVars, memVars, bar>> /\ UNCHANGED_device
-----------------------------------------------------------------------------
(* The dispatcher: registers (nvmev_proc_bars), one change in each pass.   *)

UNCHANGED_host == UNCHANGED <<conf, hostVars, ioHostVars, sq_mem, bar, gpuVars>>

\* A register that has not changed: on to the next.
Same(reg, at, next) ==
  /\ dpc = at
  /\ bar[reg] = old_bar[reg]
  /\ dpc' = next
  /\ UNCHANGED <<old_bar, rdy, shst, memVars, dbs, old_dbs, queueVars, dat, dnew, pollVars>>
  /\ UNCHANGED_host

SeeAqa ==
  /\ dpc = "aqa"
  /\ bar.aqa # old_bar.aqa
  /\ old_bar' = [old_bar EXCEPT !.aqa = bar.aqa]
  /\ admin_q' = [admin_q EXCEPT !.exists = TRUE, !.depth = bar.aqa, !.head = 0, !.phase = 1]
  /\ dbs' = [dbs EXCEPT !.admin = 0] /\ old_dbs' = [old_dbs EXCEPT !.admin = 0]
  /\ dpc' = "doorbell"
  /\ UNCHANGED <<rdy, shst, memVars, nr_sq, sq, cq, dat, dnew, pollVars>> /\ UNCHANGED_host

\* Seen before AQA: left for a later pass.
SeeAsq ==
  /\ dpc = "asq"
  /\ bar.asq # old_bar.asq
  /\ IF ~admin_q.exists THEN UNCHANGED <<old_bar, admin_q, dbs, old_dbs>>
     ELSE /\ old_bar' = [old_bar EXCEPT !.asq = bar.asq]
          /\ admin_q' = [admin_q EXCEPT !.sq = bar.asq, !.depth = bar.aqa]
          /\ dbs' = [dbs EXCEPT !.admin = 0] /\ old_dbs' = [old_dbs EXCEPT !.admin = 0]
  /\ dpc' = "doorbell"
  /\ UNCHANGED <<rdy, shst, memVars, nr_sq, sq, cq, dat, dnew, pollVars>> /\ UNCHANGED_host

\* The phase is left as it was.
SeeAcq_KeepsPhase ==
  /\ dpc = "acq" /\ bar.acq # old_bar.acq
  /\ IF ~admin_q.exists THEN UNCHANGED <<old_bar, admin_q>>
     ELSE /\ old_bar' = [old_bar EXCEPT !.acq = bar.acq]
          /\ admin_q' = [admin_q EXCEPT !.cq = bar.acq, !.depth = bar.aqa, !.head = 0]
  /\ dpc' = "doorbell"
  /\ UNCHANGED <<rdy, shst, memVars, dbs, old_dbs, nr_sq, sq, cq, dat, dnew, pollVars>>
  /\ UNCHANGED_host

SeeAcq ==
  /\ dpc = "acq"
  /\ bar.acq # old_bar.acq
  /\ IF ~admin_q.exists THEN UNCHANGED <<old_bar, admin_q>>
     ELSE /\ old_bar' = [old_bar EXCEPT !.acq = bar.acq]
          /\ admin_q' = [admin_q EXCEPT !.cq = bar.acq, !.depth = bar.aqa, !.head = 0, !.phase = 1]
  /\ dpc' = "doorbell"
  /\ UNCHANGED <<rdy, shst, memVars, dbs, old_dbs, nr_sq, sq, cq, dat, dnew, pollVars>>
  /\ UNCHANGED_host

\* Enable, disable and shutdown.  Nothing is done to the I/O queues, and of the admin
\* queue a shutdown resets doorbells and head only.
SeeCc ==
  /\ dpc = "cc"
  /\ bar.cc # old_bar.cc
  /\ old_bar' = [old_bar EXCEPT !.cc = bar.cc]
  /\ rdy' = IF bar.cc = "off" THEN FALSE ELSE rdy \/ admin_q.exists
  /\ IF bar.cc = "shut"
     THEN /\ shst' = TRUE
          /\ dbs' = [dbs EXCEPT !.admin = 0] /\ old_dbs' = [old_dbs EXCEPT !.admin = 0]
          /\ admin_q' = [admin_q EXCEPT !.head = 0]
     ELSE UNCHANGED <<shst, dbs, old_dbs, admin_q>>
  /\ dpc' = "doorbell"
  /\ UNCHANGED <<memVars, nr_sq, sq, cq, dat, dnew, pollVars>> /\ UNCHANGED_host

BarStep ==
  \/ Same("aqa", "aqa", "asq") \/ Same("asq", "asq", "acq") \/ Same("acq", "acq", "cc")
  \/ Same("cc", "cc", "doorbell")
  \/ SeeAqa \/ SeeAsq \/ SeeAcq \/ SeeCc
-----------------------------------------------------------------------------
(* The dispatcher: the admin queue (nvmev_proc_dbs, nvmev_proc_admin_sq).  *)

\* The end of a round of the dispatcher; on the slow path it polls the I/O doorbell first.
Onward == IF conf.fast THEN "aqa" ELSE "io"

SeeAdminDb ==
  /\ dpc = "doorbell"
  /\ IF dbs.admin # old_dbs.admin
     THEN dpc' = "admin" /\ dat' = old_dbs.admin /\ dnew' = dbs.admin
     ELSE dpc' = Onward /\ UNCHANGED <<dat, dnew>>
  /\ UNCHANGED <<old_bar, rdy, shst, memVars, dbs, old_dbs, queueVars, pollVars>> /\ UNCHANGED_host

\* The doorbell is read again when it is stored.
AdminDone_Rereads ==
  /\ dpc = "admin" /\ dat = dnew
  /\ old_dbs' = [old_dbs EXCEPT !.admin = dbs.admin]
  /\ dat' = 0 /\ dnew' = 0
  /\ dpc' = Onward
  /\ UNCHANGED <<old_bar, rdy, shst, memVars, dbs, queueVars, pollVars>> /\ UNCHANGED_host

AdminDone ==
  /\ dpc = "admin"
  /\ dat = dnew
  /\ old_dbs' = [old_dbs EXCEPT !.admin = dnew]
  /\ dat' = 0 /\ dnew' = 0
  /\ dpc' = Onward
  /\ UNCHANGED <<old_bar, rdy, shst, memVars, dbs, queueVars, pollVars>> /\ UNCHANGED_host

Op == asq_mem[admin_q.sq][dat]

\* __make_cq_entry, and the next command; the place wraps at another depth's end.
Post_AtMaxDepth ==
  /\ acq_mem' = [acq_mem EXCEPT ![admin_q.cq][admin_q.head] = [op |-> Op, phase |-> admin_q.phase]]
  /\ admin_q' = [admin_q EXCEPT !.head = (@ + 1) % MaxDepth,
                                !.phase = IF admin_q.head = MaxDepth - 1 THEN 1 - @ ELSE @]
  /\ dat' = (dat + 1) % admin_q.depth

\* __make_cq_entry, and the next command.
Post ==
  /\ acq_mem' = [acq_mem EXCEPT ![admin_q.cq][admin_q.head] = [op |-> Op, phase |-> admin_q.phase]]
  /\ admin_q' = [admin_q EXCEPT !.head = (@ + 1) % admin_q.depth,
                                !.phase = IF admin_q.head = admin_q.depth - 1 THEN 1 - @ ELSE @]
  /\ dat' = (dat + 1) % admin_q.depth

AtCommand(op) == dpc = "admin" /\ dat # dnew /\ Op = op

Identify ==
  /\ AtCommand("identify")
  /\ Post
  /\ UNCHANGED <<old_bar, rdy, shst, asq_mem, dbs, old_dbs, nr_sq, sq, cq, dpc, dnew, pollVars>>
  /\ UNCHANGED_host

\* __nvmev_admin_set_features
NumQueues ==
  /\ AtCommand("num_queues")
  /\ nr_sq' = 1
  /\ Post
  /\ UNCHANGED <<old_bar, rdy, shst, asq_mem, dbs, old_dbs, sq, cq, dpc, dnew, pollVars>>
  /\ UNCHANGED_host

\* Where the memory of a queue is found to be: nvmev_is_gpu_addr and nvmev_gpu_kmap.
Resolved(ptr) ==
  LET hits == {r \in lookup : region[r].addr = QueueAddr}
  IN IF conf.gpu /\ hits # {} THEN ptr \in hits ELSE ptr = "host"

\* __nvmev_admin_create_cq: the doorbell it resets is the completion queue's.
CreateCq ==
  /\ AtCommand("create_cq")
  /\ \E ptr \in Regions \cup {"host"} :
       /\ Resolved(ptr)
       /\ cq' = [shown |-> TRUE, live |-> TRUE, ptr |-> ptr]
  /\ Post
  /\ UNCHANGED <<old_bar, rdy, shst, asq_mem, dbs, old_dbs, nr_sq, sq, dpc, dnew, pollVars>>
  /\ UNCHANGED_host

\* __nvmev_admin_create_sq: the queue is shown, then each doorbell is reset.
CreateSq ==
  /\ AtCommand("create_sq")
  /\ \E ptr \in Regions \cup {"host"} :
       /\ Resolved(ptr)
       /\ sq' = [shown |-> TRUE, live |-> TRUE, ptr |-> ptr]
  /\ dpc' = "reset_db"
  /\ UNCHANGED <<old_bar, rdy, shst, memVars, dbs, old_dbs, admin_q, nr_sq, cq, dat, dnew, pollVars>>
  /\ UNCHANGED_host

ResetDb ==
  /\ dpc = "reset_db"
  /\ dbs' = [dbs EXCEPT !.io = 0]
  /\ dpc' = "reset_old"
  /\ UNCHANGED <<old_bar, rdy, shst, memVars, old_dbs, queueVars, dat, dnew, pollVars>>
  /\ UNCHANGED_host

\* What was dealt with is not reset.
ResetOldDb_Kept ==
  /\ dpc = "reset_old"
  /\ Post
  /\ dpc' = "admin"
  /\ UNCHANGED <<old_bar, rdy, shst, asq_mem, dbs, old_dbs, nr_sq, sq, cq, dnew, pollVars>>
  /\ UNCHANGED_host

ResetOldDb ==
  /\ dpc = "reset_old"
  /\ old_dbs' = [old_dbs EXCEPT !.io = 0]
  /\ Post
  /\ dpc' = "admin"
  /\ UNCHANGED <<old_bar, rdy, shst, asq_mem, dbs, nr_sq, sq, cq, dnew, pollVars>>
  /\ UNCHANGED_host

\* __nvmev_admin_delete_sq and __nvmev_admin_delete_cq: hidden, then freed.
HideSq ==
  /\ AtCommand("delete_sq")
  /\ sq' = [sq EXCEPT !.shown = FALSE]
  /\ dpc' = "free_sq"
  /\ UNCHANGED <<old_bar, rdy, shst, memVars, dbs, old_dbs, admin_q, nr_sq, cq, dat, dnew, pollVars>>
  /\ UNCHANGED_host

FreeSq ==
  /\ dpc = "free_sq"
  /\ sq' = NoIoQueue
  /\ Post
  /\ dpc' = "admin"
  /\ UNCHANGED <<old_bar, rdy, shst, asq_mem, dbs, old_dbs, nr_sq, cq, dnew, pollVars>>
  /\ UNCHANGED_host

HideCq ==
  /\ AtCommand("delete_cq")
  /\ cq' = [cq EXCEPT !.shown = FALSE]
  /\ dpc' = "free_cq"
  /\ UNCHANGED <<old_bar, rdy, shst, memVars, dbs, old_dbs, admin_q, nr_sq, sq, dat, dnew, pollVars>>
  /\ UNCHANGED_host

FreeCq ==
  /\ dpc = "free_cq"
  /\ cq' = NoIoQueue
  /\ Post
  /\ dpc' = "admin"
  /\ UNCHANGED <<old_bar, rdy, shst, asq_mem, dbs, old_dbs, nr_sq, sq, dnew, pollVars>>
  /\ UNCHANGED_host

AdminStep ==
  \/ SeeAdminDb \/ AdminDone \/ Identify \/ NumQueues
  \/ CreateCq \/ CreateSq \/ ResetDb \/ ResetOldDb \/ HideSq \/ FreeSq \/ HideCq \/ FreeCq
-----------------------------------------------------------------------------
(* The I/O doorbell: a worker's loop (__worker_poll_fast_path) or the end  *)
(* of the dispatcher's round (nvmev_proc_dbs).                             *)

UNCHANGED_but_poll == UNCHANGED <<conf, hostVars, ios_left, io_tail, regVars, memVars, dbs, queueVars,
                                  dat, dnew, gpuVars>>

Polling == conf.fast \/ dpc = "io"
RoundOver == IF conf.fast THEN dpc ELSE "aqa"

\* The queue is there; its doorbell is read.
Look ==
  /\ Polling /\ ppc = "look"
  /\ IF nr_sq > 0 /\ sq.shown
     THEN pnew' = dbs.io /\ ppc' = "compare" /\ UNCHANGED dpc
     ELSE ~conf.fast /\ dpc' = RoundOver /\ UNCHANGED <<ppc, pnew>>
  /\ UNCHANGED <<out, sq_mem, old_dbs, pat, queued>> /\ UNCHANGED_but_poll

\* Compared with what was dealt with; a queue that is gone by now is left alone
\* (nvmev_proc_io_sq).
Compare ==
  /\ Polling /\ ppc = "compare"
  /\ IF pnew # old_dbs.io /\ sq.shown
     THEN pat' = old_dbs.io /\ ppc' = "take" /\ UNCHANGED <<pnew, dpc>>
     ELSE pnew' = 0 /\ ppc' = "look" /\ dpc' = RoundOver /\ UNCHANGED pat
  /\ UNCHANGED <<out, sq_mem, old_dbs, queued>> /\ UNCHANGED_but_poll

\* A command: answered at once on the fast path (__fast_path_io), put on a work list on
\* the other (__nvmev_proc_io).
Take ==
  /\ Polling /\ ppc = "take"
  /\ pat # pnew
  /\ sq_mem' = [sq_mem EXCEPT ![pat] = "done"]
  /\ IF conf.fast THEN out' = out - 1 /\ UNCHANGED queued
     ELSE queued' = queued + 1 /\ UNCHANGED out
  /\ pat' = (pat + 1) % IoDepth
  /\ UNCHANGED <<old_dbs, ppc, pnew, dpc>> /\ UNCHANGED_but_poll

\* The queue's statistics are written, and the doorbell dealt with is stored.
TakeOver ==
  /\ Polling /\ ppc = "take"
  /\ pat = pnew
  /\ old_dbs' = [old_dbs EXCEPT !.io = pnew]
  /\ ppc' = "look" /\ pat' = 0 /\ pnew' = 0
  /\ dpc' = RoundOver
  /\ UNCHANGED <<out, sq_mem, queued>> /\ UNCHANGED_but_poll

\* A worker posts the completion (__fill_cq_result).
Answer ==
  /\ queued > 0
  /\ queued' = queued - 1
  /\ out' = out - 1
  /\ UNCHANGED <<sq_mem, old_dbs, ppc, pat, pnew, dpc>> /\ UNCHANGED_but_poll

PollStep == Look \/ Compare \/ Take \/ TakeOver
-----------------------------------------------------------------------------
(* The registry beside it.  The host unpins a queue's memory when no queue *)
(* lies there and none is being created.                                   *)

NoQueues == life \in {"new", "counted", "down"} /\ flight \cap {"create_cq", "delete_cq"} = {}

UNCHANGED_controller == UNCHANGED <<conf, hostVars, ioHostVars, regVars, memVars, sq_mem, dbs, old_dbs,
                                    queueVars, dispVars, pollVars>>

GpuStep ==
  /\ \/ \E r \in conf.objects, a \in conf.pins : GetPages(r, a)
     \/ \E r \in Regions : MapPages(r) \/ Publish(r, conf.scarce) \/ Reclaim(r) \/ FreeRegion(r)
     \/ \E a \in conf.pins : (conf.gpu => NoQueues) /\ Unlink(a, conf.scarce)
     \/ \E x \in Readers, a \in Addrs : Enter(x, a)
     \/ \E x \in Readers : ReaderStep(x)
  /\ UNCHANGED_controller

HostRegisters ==
  \/ WriteAqa \/ WriteAsq \/ WriteAcq \/ Enable \/ SeeReady
  \/ Shutdown \/ SeeShutdown \/ Disable \/ SeeDisabled

Next ==
  \/ HostRegisters
  \/ \E op \in Ops : SendAdmin(op)
  \/ TakeCqe
  \/ SubmitIo
  \/ BarStep
  \/ AdminStep
  \/ PollStep
  \/ Answer
  \/ GpuStep

\* The dispatcher and the worker never stop; the host reads what it is told and goes on
\* with a start it has begun; those who translate end their sections.
Fairness ==
  /\ WF_vars(BarStep \/ AdminStep \/ (~conf.fast /\ PollStep))
  /\ WF_vars(conf.fast /\ PollStep)
  /\ WF_vars(Answer)
  /\ WF_vars(TakeCqe)
  /\ SF_vars(Enable)
  /\ WF_vars(WriteAsq \/ WriteAcq \/ SeeReady \/ SeeShutdown \/ SeeDisabled)
  /\ \A r \in Regions : WF_vars(FreeRegion(r) /\ UNCHANGED_controller)
  /\ \A x \in UNION {k.readers : k \in Configs} :
       WF_vars(x \in Readers /\ ReaderStep(x) /\ UNCHANGED_controller)

Spec == Init /\ [][Next]_vars /\ Fairness
-----------------------------------------------------------------------------
Elements(from, to, depth) == {i \in 0 .. depth - 1 : (i - from) % depth < (to - from) % depth}

\* Every variable keeps its type, positions stay inside their queues, and the
\* dispatcher is in one place at a time with what belongs there.
CtrlTypeOK ==
  /\ region \in [Regions -> [stage : {"unused", "pinned", "mapped", "listed", "unlinked", "freed"},
                             addr : Addrs \cup {NoRegion}, valid : BOOLEAN]]
  /\ ToSet(regions) \subseteq Regions /\ Len(regions) <= MaxRegions
  /\ lookup \subseteq Regions
  /\ grace \in [Regions -> SUBSET Readers]
  /\ reader \in [conf.readers -> [at : {"out", "in", "use", "scan", "lock"},
                                  addr : Addrs \cup {NoRegion}, found : Regions \cup {NoRegion}]]
  /\ ToSet(automap) \subseteq Addrs /\ Len(automap) <= AutoMax
  /\ flight \subseteq Ops
  /\ admin_q.head < MaxDepth
  /\ hpc = "ready" => /\ admin_q.head < admin_q.depth
                      /\ h_tail < Prog.depth /\ h_head < Prog.depth
  /\ dnew < MaxDepth /\ dat < MaxDepth
  /\ dpc \in {"admin", "reset_db", "reset_old", "free_sq", "free_cq"} => Op \in Ops \/ dat = dnew
  /\ out \in 0 .. IoDepth - 1 /\ queued \in 0 .. out
  /\ {sq.ptr, cq.ptr} \subseteq Regions \cup {"host"}

\* Where the dispatcher is in the admin queue.
Taken == IF dpc \in {"admin", "reset_db", "reset_old", "free_sq", "free_cq"} THEN dat
         ELSE old_dbs.admin

\* A translation in use stays mapped until its section ends, whatever is unregistered
\* meanwhile; the table has the entries of listed regions only, and of each that was not
\* reclaimed, as long as there is memory to rebuild it; no page is mapped twice by the
\* cache (gpu_mem.c).
RegistryHolds == Registered(conf.scarce)

\* Once the host has seen RDY, it and the dispatcher agree about the admin queues of this
\* start, whatever the last one left behind: where they are and how deep, and that each
\* command under way is either still to be taken or in a completion still to be read,
\* once; the completions to be read are those whose phase the host waits for
\* (nvmev_proc_bars, __nvmev_proc_admin_req).
AdminInStep ==
  hpc = "ready" =>
    LET waiting == Elements(Taken, h_tail, Prog.depth)
        unread == Elements(h_head, admin_q.head, Prog.depth)
        asked == {asq_mem[Prog.place][i] : i \in waiting}
        answered == {acq_mem[Prog.place][i].op : i \in unread}
    IN /\ admin_q.exists /\ admin_q.sq = Prog.place /\ admin_q.cq = Prog.place
       /\ admin_q.depth = Prog.depth
       /\ asked \cup answered = flight
       /\ Cardinality(waiting) + Cardinality(unread) = Cardinality(flight)
       /\ \A i \in unread :
            acq_mem[Prog.place][i].phase = IF i >= h_head THEN h_phase ELSE 1 - h_phase
       /\ NewCqe <=> unread # {}

\* Who polls the I/O doorbell takes the commands the host has written and it has not taken
\* yet, each once, from queues that exist, over their deletion and creation
\* again; what waits on a work list has a queue to be answered to; a queue's memory is
\* of a region that is still listed
\* (__nvmev_admin_create_sq, nvmev_proc_dbs, __worker_poll_fast_path).
QueuesLive ==
  /\ ppc = "take" =>
       /\ sq.live /\ cq.live
       /\ \A i \in Elements(pat, pnew, IoDepth) : sq_mem[i] = "cmd"
  /\ queued > 0 => cq.live
  /\ life = "up" =>
       LET at == IF ppc = "take" THEN pat ELSE old_dbs.io
       IN {i \in IoSlots : sq_mem[i] = "cmd"} = Elements(at, io_tail, IoDepth)
  /\ out = Cardinality({i \in IoSlots : sq_mem[i] = "cmd"}) + queued
  /\ \A q \in {sq, cq} : q.live /\ q.ptr \in Regions => region[q.ptr].stage = "listed"

\* A start or shutdown the host waits for is reported, each admin command is answered,
\* each I/O is, and an unregister gets to its end: although the dispatcher handles
\* one register in a pass, and the host rings while it is at work.
HostServed ==
  /\ hpc = "starting" ~> hpc = "ready"
  /\ hpc = "stopping" ~> hpc = "stopped"
  /\ \A op \in Ops : op \in flight ~> op \notin flight
  /\ out > 0 ~> out = 0
  /\ \A r \in Regions : region[r].stage = "unlinked" ~> region[r].stage # "unlinked"
=============================================================================
