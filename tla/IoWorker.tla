------------------------------ MODULE IoWorker ------------------------------
(***************************************************************************)
(* The I/O path of the emulated controller (io.c, main.c).  The dispatcher *)
(* polls doorbells (nvmev_proc_dbs), asks the FTL when a command will be   *)
(* done, and puts it on the list of the worker of its submission queue,    *)
(* sorted by that time.  The worker walks its list over and over           *)
(* (nvmev_io_worker), copies the data of new commands, posts the           *)
(* completions of those whose time has come, and then interrupts the host. *)
(* The dispatcher takes completed entries back to the free list.  The list *)
(* has no lock: only the dispatcher writes links, only the worker marks    *)
(* entries.  With io_lat_ns # 0 the workers poll the doorbells themselves  *)
(* and complete commands at once.                                          *)
(*                                                                         *)
(* Time is relative: an entry knows how far its target is still away, and  *)
(* targets that have passed are alike.  A command is named by its          *)
(* identifier; all queues share one completion queue.                      *)
(*                                                                         *)
(* An entry is filled and put on its list in one step, and taken back in   *)
(* one.  So it is to a worker, except to one that still stands on an entry *)
(* handed out again, which may find it half filled; and it is so with one  *)
(* thread that enqueues.  That is the dispatcher, as long as the path is   *)
(* not switched under load and only reads and writes are sent while it is  *)
(* fast: any other command a worker would put on the list itself.          *)
(***************************************************************************)
EXTENDS Integers, FiniteSets

CONSTANTS
  Cmds, Writes,  \* command identifiers of the host; those that write
  QueueOf,       \* the submission queue a command is sent to
  SqSize, CqSize,
  MaxDue,        \* how far away the FTL may put a target
  BufSize,       \* the write buffer, in writes
  Configs

Queues == {QueueOf[c] : c \in Cmds}

\* The number of workers; entries of a work list (NR_MAX_PARALLEL_IO); io_lat_ns # 0
\* at load; when it is changed; the commands used;
\* the bound on how many the host sends in all.
Config == [workers : Nat \ {0}, entries : Nat \ {0}, fast : BOOLEAN,
           switch : {"never", "quiet", "any"}, cmds : SUBSET Cmds, load : Nat]

ASSUME IoAssumption ==
  /\ IsFiniteSet(Cmds) /\ Writes \subseteq Cmds
  \* whether an entry is a command or internal is a flag of its own
  /\ Cmds \cap {"none", "internal"} = {}
  /\ QueueOf \in [Cmds -> Nat \ {0}]
  /\ SqSize \in Nat /\ CqSize \in Nat
  /\ MaxDue \in Nat /\ BufSize \in Nat
  /\ Configs \subseteq Config
  \* the host never has more commands under way than its queues hold
  /\ \A k \in Configs : SqSize > Cardinality(k.cmds) /\ CqSize > Cardinality(k.cmds)

VARIABLES
  conf, lat,                  \* lat: nvmev_io_lat_ns # 0
  fate, left,                 \* host: what became of each command; how many to go
  sq, dbs, old_dbs,           \* submission queues, doorbells, those dealt with
  cq, cq_head, cq_phase,      \* the completion queue
  interrupt_ready, irq,       \* a completion not signalled; interrupt pending
  hpc, host_head, host_phase, \* the host's interrupt handler
  apc, aq, at, anew,          \* of dispatcher and workers: place, queue at hand,
                              \* next command, doorbell as read
  due_at,                     \* the target the FTL gave
  work, next, prev,           \* work_queue: of each worker, its entries
  io_seq, io_seq_end, free_seq, free_seq_end,
  wpc, curr, seen_due,        \* worker: place, entry, was it due when looked at
  buf                         \* write buffer space left

hostVars == <<fate, left, sq, dbs, hpc, host_head, host_phase>>
cqVars == <<cq, cq_head, cq_phase, interrupt_ready>>
dbVars == <<old_dbs, apc, aq, at, anew, due_at>>
linkVars == <<next, prev, io_seq, io_seq_end, free_seq, free_seq_end>>
walkVars == <<wpc, curr, seen_due>>
vars == <<conf, lat, hostVars, cqVars, irq, dbVars, linkVars, work, walkVars, buf>>

None == "none"
Internal == "internal"   \* a write-buffer release of the FTL
Nil == -1
Workers == 1 .. conf.workers
Dispatcher == 0
Actors == 0 .. conf.workers
Entries == 0 .. conf.entries - 1

\* __get_io_worker
WorkerOf(q) == ((q - 1) % conf.workers) + 1

Blank == [op |-> None, due |-> 0, completed |-> FALSE, copied |-> FALSE]
Entry == [op : Cmds \cup {Internal, None}, due : 0 .. MaxDue,
          completed : BOOLEAN, copied : BOOLEAN]
NoCqe == [cmd |-> None, phase |-> 0]

\* NVMEV_IO_WORKER_INIT; queues as created by the admin commands.
Init ==
  /\ conf \in Configs
  /\ lat = conf.fast
  /\ fate = [c \in Cmds |-> "idle"] /\ left = conf.load
  /\ sq = [q \in Queues |-> [i \in 0 .. SqSize - 1 |-> None]]
  /\ dbs = [q \in Queues |-> 0] /\ old_dbs = [q \in Queues |-> 0]
  /\ cq = [i \in 0 .. CqSize - 1 |-> NoCqe] /\ cq_head = 0 /\ cq_phase = 1
  /\ interrupt_ready = FALSE /\ irq = FALSE
  /\ hpc = "idle" /\ host_head = 0 /\ host_phase = 1
  /\ apc = [a \in Actors |-> "poll"] /\ aq = [a \in Actors |-> 0]
  /\ at = [a \in Actors |-> 0] /\ anew = [a \in Actors |-> 0]
  /\ due_at = [a \in Actors |-> 0]
  /\ work = [w \in Workers |-> [e \in Entries |-> Blank]]
  /\ next = [w \in Workers |-> [e \in Entries |-> IF e = conf.entries - 1 THEN Nil ELSE e + 1]]
  /\ prev = [w \in Workers |-> [e \in Entries |-> e - 1]]
  /\ io_seq = [w \in Workers |-> Nil] /\ io_seq_end = [w \in Workers |-> Nil]
  /\ free_seq = [w \in Workers |-> 0]
  /\ free_seq_end = [w \in Workers |-> conf.entries - 1]
  /\ wpc = [w \in Workers |-> "top"] /\ curr = [w \in Workers |-> Nil]
  /\ seen_due = [w \in Workers |-> FALSE]
  /\ buf = BufSize
-----------------------------------------------------------------------------
(* The host.                                                               *)

AfterSq(i) == (i + 1) % SqSize

Submit(c) ==
  /\ fate[c] = "idle"
  /\ left > 0
  /\ left' = left - 1
  /\ fate' = [fate EXCEPT ![c] = "sent"]
  /\ sq' = [sq EXCEPT ![QueueOf[c]][dbs[QueueOf[c]]] = c]
  /\ dbs' = [dbs EXCEPT ![QueueOf[c]] = AfterSq(@)]
  /\ UNCHANGED <<conf, lat, hpc, host_head, host_phase, cqVars, irq, dbVars, linkVars,
                 work, walkVars, buf>>

TakeInterrupt ==
  /\ hpc = "idle"
  /\ irq
  /\ irq' = FALSE
  /\ hpc' = "handler"
  /\ UNCHANGED <<conf, lat, fate, left, sq, dbs, host_head, host_phase, cqVars, dbVars, linkVars,
                 work, walkVars, buf>>

NewCqe == cq[host_head].phase = host_phase

\* Of an entry that has been read only the phase matters.
TakeCqe ==
  /\ hpc = "handler"
  /\ NewCqe
  /\ cq' = [cq EXCEPT ![host_head].cmd = None]
  /\ fate' = [fate EXCEPT ![cq[host_head].cmd] = "idle"]
  /\ host_head' = (host_head + 1) % CqSize
  /\ host_phase' = IF host_head' = 0 THEN 1 - host_phase ELSE host_phase
  /\ UNCHANGED <<conf, lat, left, sq, dbs, hpc, cq_head, cq_phase, interrupt_ready, irq, dbVars,
                 linkVars, work, walkVars, buf>>

HandlerOver ==
  /\ hpc = "handler"
  /\ ~NewCqe
  /\ hpc' = "idle"
  /\ UNCHANGED <<conf, lat, fate, left, sq, dbs, host_head, host_phase, cqVars, irq, dbVars, linkVars,
                 work, walkVars, buf>>

\* A write to /proc/nvmev/io_lat_ns; "quiet" is an administrator who stops all
\* I/O first, and for a polling round after it: what dispatcher and workers read of
\* it at the start of a round is then its value.
Quiet ==
  /\ \A c \in Cmds : fate[c] # "sent"
  /\ \A a \in Actors : apc[a] = "poll"
  /\ \A w \in Workers : wpc[w] = "top"

SwitchPath ==
  /\ conf.switch # "never"
  /\ conf.switch = "quiet" => Quiet
  /\ lat' = ~lat
  /\ UNCHANGED <<conf, hostVars, cqVars, irq, dbVars, linkVars, work, walkVars, buf>>
-----------------------------------------------------------------------------
(* Doorbells, for the dispatcher and for a worker on the fast path.        *)

\* nvmev_proc_dbs skips the submission queues when it finds io_lat_ns # 0;
\* a worker polls its own (__worker_poll_fast_path) when it does.
MayPoll(a, q) ==
  IF a = Dispatcher THEN ~lat ELSE lat /\ wpc[a] = "top" /\ WorkerOf(q) = a

SeeDoorbell(a) ==
  /\ apc[a] = "poll"
  /\ \E q \in Queues :
       /\ MayPoll(a, q)
       /\ dbs[q] # old_dbs[q]
       /\ aq' = [aq EXCEPT ![a] = q]
       /\ at' = [at EXCEPT ![a] = old_dbs[q]]
       /\ anew' = [anew EXCEPT ![a] = dbs[q]]
  /\ apc' = [apc EXCEPT ![a] = "cmd"]
  /\ UNCHANGED <<conf, lat, hostVars, cqVars, irq, old_dbs, due_at, linkVars, work, walkVars, buf>>

DoorbellDone_Unstored(a) ==
  /\ apc[a] = "cmd" /\ at[a] = anew[a]
  /\ apc' = [apc EXCEPT ![a] = "poll"]
  /\ UNCHANGED <<conf, lat, hostVars, cqVars, irq, old_dbs, aq, at, anew, due_at, linkVars, work,
                 walkVars, buf>>

DoorbellDone(a) ==
  /\ apc[a] = "cmd"
  /\ at[a] = anew[a]
  /\ old_dbs' = [old_dbs EXCEPT ![aq[a]] = at[a]]
  /\ apc' = [apc EXCEPT ![a] = "poll"]
  /\ aq' = [aq EXCEPT ![a] = 0] /\ at' = [at EXCEPT ![a] = 0] /\ anew' = [anew EXCEPT ![a] = 0]
  /\ UNCHANGED <<conf, lat, hostVars, cqVars, irq, due_at, linkVars, work, walkVars, buf>>

Fetched(a) == sq[aq[a]][at[a]]

\* The completion queue is written under its lock, and not checked for room.
PostCqe(c) ==
  /\ cq' = [cq EXCEPT ![cq_head] = [cmd |-> c, phase |-> cq_phase]]
  /\ cq_head' = (cq_head + 1) % CqSize
  /\ cq_phase' = IF cq_head' = 0 THEN 1 - cq_phase ELSE cq_phase

\* __fast_path_io
FastIo(a) ==
  /\ apc[a] = "cmd"
  /\ at[a] # anew[a]
  /\ lat
  /\ PostCqe(Fetched(a))
  /\ irq' = TRUE
  /\ at' = [at EXCEPT ![a] = AfterSq(@)]
  /\ UNCHANGED <<conf, lat, hostVars, interrupt_ready, old_dbs, apc, aq, anew, due_at, linkVars,
                 work, walkVars, buf>>

AskFtl_Unchecked(a) ==
  /\ apc[a] = "cmd" /\ at[a] # anew[a] /\ ~lat
  /\ buf' = IF Fetched(a) \in Writes THEN buf - 1 ELSE buf
  /\ \E d \in 0 .. MaxDue : due_at' = [due_at EXCEPT ![a] = d]
  /\ apc' = [apc EXCEPT ![a] = IF Fetched(a) \in Writes THEN "internal" ELSE "enqueue"]
  /\ UNCHANGED <<conf, lat, hostVars, cqVars, irq, old_dbs, aq, at, anew, linkVars, work, walkVars>>

\* __nvmev_proc_io up to the answer of the FTL.  A write without room in the
\* buffer is refused and the command is skipped; one that gets room has it
\* released by an internal operation later (a write here fills a wordline).
AskFtl(a) ==
  /\ apc[a] = "cmd"
  /\ at[a] # anew[a]
  /\ ~lat
  /\ Fetched(a) \in Writes => buf > 0
  /\ buf' = IF Fetched(a) \in Writes THEN buf - 1 ELSE buf
  /\ \E d \in 0 .. MaxDue : due_at' = [due_at EXCEPT ![a] = d]
  /\ apc' = [apc EXCEPT ![a] = IF Fetched(a) \in Writes THEN "internal" ELSE "enqueue"]
  /\ UNCHANGED <<conf, lat, hostVars, cqVars, irq, old_dbs, aq, at, anew, linkVars, work, walkVars>>

Refused(a) ==
  /\ apc[a] = "cmd"
  /\ at[a] # anew[a]
  /\ ~lat
  /\ Fetched(a) \in Writes /\ buf = 0
  /\ fate' = [fate EXCEPT ![Fetched(a)] = "refused"]
  /\ at' = [at EXCEPT ![a] = AfterSq(@)]
  /\ UNCHANGED <<conf, lat, left, sq, dbs, hpc, host_head, host_phase, cqVars, irq, old_dbs, apc, aq,
                 anew, due_at, linkVars, work, walkVars, buf>>
-----------------------------------------------------------------------------
(* The work list, as the dispatcher changes it.  The worker reads io_seq    *)
(* and next only, and each change shows in one of these stores, the last.  *)

\* The entries from start on along link, ended by Nil.
Chain(start, link) ==
  LET c[n \in 0 .. conf.entries] ==
        IF n = 0 THEN start ELSE IF c[n - 1] = Nil THEN Nil ELSE link[c[n - 1]]
  IN  c

Members(start, link) == {Chain(start, link)[n] : n \in 0 .. conf.entries - 1} \ {Nil}

\* __insert_req_sorted walks back from the end to an entry that is due no
\* later; of two targets that have passed either may be the later one, but a
\* completed entry's is not after latest_nsecs, where the walk stops.
NotAfter(w, e, d) == work[w][e].due <= d
MayPass(w, e, d) == work[w][e].due > d \/ (d = 0 /\ ~work[w][e].completed)

InsertPoints_AtEnd(w, d) == {io_seq_end[w]}
InsertPoints(w, d) ==
  LET back == Chain(io_seq_end[w], prev[w])
  IN  {back[n] : n \in {m \in 0 .. conf.entries :
         /\ back[m] = Nil \/ NotAfter(w, back[m], d)
         /\ \A k \in 0 .. m - 1 : back[k] # Nil /\ MayPass(w, back[k], d)}}

LinkFirst(w, e) ==
  /\ io_seq' = [io_seq EXCEPT ![w] = e]
  /\ io_seq_end' = [io_seq_end EXCEPT ![w] = e]
  /\ next' = [next EXCEPT ![w][e] = Nil]
  /\ prev' = [prev EXCEPT ![w][e] = Nil]

LinkBehind_KeepEnd(w, e, p) ==
  LET succ == IF p = Nil THEN io_seq[w] ELSE next[w][p]
  IN  /\ io_seq' = IF p = Nil THEN [io_seq EXCEPT ![w] = e] ELSE io_seq
      /\ next' = [next EXCEPT ![w] = [x \in Entries |->
                    IF x = e THEN succ ELSE IF x = p THEN e ELSE @[x]]]
      /\ prev' = [prev EXCEPT ![w] = [x \in Entries |->
                    IF x = e THEN p ELSE IF x = succ THEN e ELSE @[x]]]
      /\ UNCHANGED io_seq_end

LinkBehind(w, e, p) ==
  LET succ == IF p = Nil THEN io_seq[w] ELSE next[w][p]
  IN  /\ io_seq' = IF p = Nil THEN [io_seq EXCEPT ![w] = e] ELSE io_seq
      /\ io_seq_end' = IF succ = Nil THEN [io_seq_end EXCEPT ![w] = e] ELSE io_seq_end
      /\ next' = [next EXCEPT ![w] = [x \in Entries |->
                    IF x = e THEN succ ELSE IF x = p THEN e ELSE @[x]]]
      /\ prev' = [prev EXCEPT ![w] = [x \in Entries |->
                    IF x = e THEN p ELSE IF x = succ THEN e ELSE @[x]]]

\* __allocate_work_queue_entry keeps the last free entry.
ListFull(w) == next[w][free_seq[w]] = Nil

\* The entry may be one the worker still stands on, which it then meets on the list.
Enqueue(w, op, d) ==
  LET e == free_seq[w]
  IN  /\ free_seq' = [free_seq EXCEPT ![w] = next[w][e]]
      /\ work' = [work EXCEPT ![w][e] = [op |-> op, due |-> d, completed |-> FALSE,
                                         copied |-> op = Internal]]
      /\ IF io_seq[w] = Nil THEN LinkFirst(w, e)
         ELSE \E p \in InsertPoints(w, d) : LinkBehind(w, e, p)
      /\ UNCHANGED free_seq_end

\* schedule_internal_operation
EnqueueInternal(a) ==
  /\ apc[a] = "internal"
  /\ IF ListFull(WorkerOf(aq[a])) THEN UNCHANGED <<work, linkVars>>
     ELSE \E d \in due_at[a] .. MaxDue : Enqueue(WorkerOf(aq[a]), Internal, d)
  /\ apc' = [apc EXCEPT ![a] = "enqueue"]
  /\ UNCHANGED <<conf, lat, hostVars, cqVars, irq, old_dbs, aq, at, anew, due_at, walkVars, buf>>

\* __enqueue_io_req: with the list full the command is forgotten.
EnqueueCmd(a) ==
  /\ apc[a] = "enqueue"
  /\ IF ListFull(WorkerOf(aq[a]))
     THEN /\ fate' = [fate EXCEPT ![Fetched(a)] = "lost"]
          /\ UNCHANGED <<work, linkVars>>
     ELSE /\ Enqueue(WorkerOf(aq[a]), Fetched(a), due_at[a])
          /\ UNCHANGED fate
  /\ apc' = [apc EXCEPT ![a] = "reclaim"]
  /\ due_at' = [due_at EXCEPT ![a] = 0]
  /\ UNCHANGED <<conf, lat, left, sq, dbs, hpc, host_head, host_phase, cqVars, irq, old_dbs, aq, at,
                 anew, walkVars, buf>>

\* __reclaim_completed_reqs: of each list the completed entries in front of the
\* first that is not go behind the free ones.  (A completed entry's target is
\* not after latest_nsecs: the worker has just compared it.)
Reclaimable_Due(w, e) == work[w][e].due = 0 /\ work[w][e].copied
Reclaimable(w, e) == work[w][e].completed /\ work[w][e].copied

DonePrefix(w) ==
  LET list == Chain(io_seq[w], next[w])
      Done(n) == \A m \in 0 .. n : list[m] # Nil /\ Reclaimable(w, list[m])
  IN  {n \in 0 .. conf.entries - 1 : Done(n)}

LastDone(w) == Chain(io_seq[w], next[w])[Cardinality(DonePrefix(w)) - 1]

Reclaim(a) ==
  /\ apc[a] = "reclaim"
  /\ LET R == {w \in Workers : DonePrefix(w) # {}}
     IN  /\ io_seq' = [w \in Workers |-> IF w \in R THEN next[w][LastDone(w)] ELSE io_seq[w]]
         /\ next' = [w \in Workers |-> IF w \notin R THEN next[w] ELSE
              [next[w] EXCEPT ![free_seq_end[w]] = io_seq[w], ![LastDone(w)] = Nil]]
         /\ prev' = [w \in Workers |-> IF w \notin R THEN prev[w] ELSE
              [e \in Entries |-> IF e = next[w][LastDone(w)] THEN Nil
                                 ELSE IF e = io_seq[w] THEN free_seq_end[w] ELSE prev[w][e]]]
         /\ free_seq_end' = [w \in Workers |-> IF w \in R THEN LastDone(w) ELSE free_seq_end[w]]
  /\ apc' = [apc EXCEPT ![a] = "cmd"]
  /\ at' = [at EXCEPT ![a] = AfterSq(@)]
  /\ UNCHANGED <<conf, lat, hostVars, cqVars, irq, old_dbs, aq, anew, due_at, io_seq_end, free_seq,
                 work, walkVars, buf>>
-----------------------------------------------------------------------------
(* The worker's pass.                                                      *)

StartPass(w) ==
  /\ wpc[w] = "top"
  /\ apc[w] = "poll"
  /\ ~lat
  /\ wpc' = [wpc EXCEPT ![w] = "look"]
  /\ curr' = [curr EXCEPT ![w] = io_seq[w]]
  /\ UNCHANGED <<conf, lat, hostVars, cqVars, irq, dbVars, linkVars, work, seen_due, buf>>

At(w) == work[w][curr[w]]

Skip(w) ==
  /\ wpc[w] = "look"
  /\ curr[w] # Nil
  /\ At(w).completed
  /\ curr' = [curr EXCEPT ![w] = next[w][curr[w]]]
  /\ UNCHANGED <<conf, lat, hostVars, cqVars, irq, dbVars, linkVars, work, wpc, seen_due, buf>>

\* The clock is read before the data is copied.
Look(w) ==
  /\ wpc[w] = "look"
  /\ curr[w] # Nil
  /\ ~At(w).completed
  /\ seen_due' = [seen_due EXCEPT ![w] = At(w).due = 0]
  /\ work' = [work EXCEPT ![w][curr[w]].copied = TRUE]
  /\ wpc' = [wpc EXCEPT ![w] = "copied"]
  /\ UNCHANGED <<conf, lat, hostVars, cqVars, irq, dbVars, linkVars, curr, buf>>

NotYet(w) ==
  /\ wpc[w] = "copied"
  /\ ~seen_due[w]
  /\ curr' = [curr EXCEPT ![w] = next[w][curr[w]]]
  /\ wpc' = [wpc EXCEPT ![w] = "look"]
  /\ UNCHANGED <<conf, lat, hostVars, cqVars, irq, dbVars, linkVars, work, seen_due, buf>>

Complete_ReleasesTwice(w) ==
  /\ wpc[w] = "copied" /\ seen_due[w]
  /\ IF At(w).op = Internal
     THEN buf' = buf + 1 /\ UNCHANGED cqVars
     ELSE /\ PostCqe(At(w).op) /\ interrupt_ready' = TRUE
          /\ buf' = IF At(w).op \in Writes THEN buf + 1 ELSE buf
  /\ wpc' = [wpc EXCEPT ![w] = "mark"]
  /\ UNCHANGED <<conf, lat, hostVars, irq, dbVars, linkVars, work, curr, seen_due>>

\* __fill_cq_result, or the release of the write buffer.
Complete(w) ==
  /\ wpc[w] = "copied"
  /\ seen_due[w]
  /\ IF At(w).op = Internal
     THEN buf' = buf + 1 /\ UNCHANGED cqVars
     ELSE PostCqe(At(w).op) /\ interrupt_ready' = TRUE /\ UNCHANGED buf
  /\ wpc' = [wpc EXCEPT ![w] = "mark"]
  /\ UNCHANGED <<conf, lat, hostVars, irq, dbVars, linkVars, work, curr, seen_due>>

\* What a completed entry was for is forgotten.
Mark(w) ==
  /\ wpc[w] = "mark"
  /\ work' = [work EXCEPT ![w][curr[w]] = [@ EXCEPT !.completed = TRUE, !.op = None]]
  /\ curr' = [curr EXCEPT ![w] = next[w][curr[w]]]
  /\ seen_due' = [seen_due EXCEPT ![w] = FALSE]
  /\ wpc' = [wpc EXCEPT ![w] = "look"]
  /\ UNCHANGED <<conf, lat, hostVars, cqVars, irq, dbVars, linkVars, buf>>

PassOver_AnyWorker(w) ==
  /\ wpc[w] = "look" /\ curr[w] = Nil
  /\ interrupt_ready' = FALSE
  /\ wpc' = [wpc EXCEPT ![w] = IF interrupt_ready /\ WorkerOf(1) = w THEN "signal" ELSE "top"]
  /\ UNCHANGED <<conf, lat, hostVars, cq, cq_head, cq_phase, irq, dbVars, linkVars, work, curr,
                 seen_due, buf>>

\* The pass over the completion queues: each is signalled by one worker only.
PassOver(w) ==
  /\ wpc[w] = "look"
  /\ curr[w] = Nil
  /\ IF interrupt_ready /\ WorkerOf(1) = w
     THEN interrupt_ready' = FALSE /\ wpc' = [wpc EXCEPT ![w] = "signal"]
     ELSE wpc' = [wpc EXCEPT ![w] = "top"] /\ UNCHANGED interrupt_ready
  /\ UNCHANGED <<conf, lat, hostVars, cq, cq_head, cq_phase, irq, dbVars, linkVars, work, curr,
                 seen_due, buf>>

Signal(w) ==
  /\ wpc[w] = "signal"
  /\ irq' = TRUE
  /\ wpc' = [wpc EXCEPT ![w] = "top"]
  /\ UNCHANGED <<conf, lat, hostVars, cqVars, dbVars, linkVars, work, curr, seen_due, buf>>

\* Time passes.
Tick ==
  /\ \E w \in Workers, e \in Entries : work[w][e].due > 0
  /\ work' = [w \in Workers |-> [e \in Entries |->
                [work[w][e] EXCEPT !.due = IF @ > 0 THEN @ - 1 ELSE 0]]]
  /\ UNCHANGED <<conf, lat, hostVars, cqVars, irq, dbVars, linkVars, walkVars, buf>>
-----------------------------------------------------------------------------
DoorbellStep(a) ==
  \/ SeeDoorbell(a) \/ DoorbellDone(a) \/ FastIo(a) \/ AskFtl(a) \/ Refused(a)
  \/ EnqueueInternal(a) \/ EnqueueCmd(a) \/ Reclaim(a)

PassStep(w) ==
  \/ StartPass(w) \/ Skip(w) \/ Look(w) \/ NotYet(w) \/ Complete(w) \/ Mark(w)
  \/ PassOver(w) \/ Signal(w)

HandlerStep == TakeInterrupt \/ TakeCqe \/ HandlerOver

Next ==
  \/ \E c \in conf.cmds : Submit(c)
  \/ HandlerStep
  \/ SwitchPath
  \/ \E a \in Actors : DoorbellStep(a)
  \/ \E w \in Workers : PassStep(w)
  \/ Tick

\* The dispatcher and the workers keep polling, the host handles interrupts,
\* time passes.  New commands may never come.
Fairness ==
  /\ WF_vars(DoorbellStep(Dispatcher))
  /\ \A w \in UNION {1 .. c.workers : c \in Configs} :
       WF_vars(w \in Workers /\ (PassStep(w) \/ DoorbellStep(w)))
  /\ WF_vars(HandlerStep)
  /\ WF_vars(Tick)

Spec == Init /\ [][Next]_vars
FairSpec == Spec /\ Fairness
-----------------------------------------------------------------------------
HostType ==
  /\ conf \in Configs /\ lat \in BOOLEAN
  /\ fate \in [Cmds -> {"idle", "sent", "refused", "lost"}]
  /\ left \in 0 .. conf.load
  /\ sq \in [Queues -> [0 .. SqSize - 1 -> Cmds \cup {None}]]
  /\ dbs \in [Queues -> 0 .. SqSize - 1] /\ old_dbs \in [Queues -> 0 .. SqSize - 1]
  /\ hpc \in {"idle", "handler"} /\ host_head \in 0 .. CqSize - 1 /\ host_phase \in {0, 1}

CqType ==
  /\ cq \in [0 .. CqSize - 1 -> [cmd : Cmds \cup {None}, phase : {0, 1}]]
  /\ cq_head \in 0 .. CqSize - 1 /\ cq_phase \in {0, 1}
  /\ interrupt_ready \in BOOLEAN /\ irq \in BOOLEAN

DoorbellType ==
  /\ apc \in [Actors -> {"poll", "cmd", "internal", "enqueue", "reclaim"}]
  /\ aq \in [Actors -> Queues \cup {0}] /\ due_at \in [Actors -> 0 .. MaxDue]
  /\ at \in [Actors -> 0 .. SqSize - 1] /\ anew \in [Actors -> 0 .. SqSize - 1]

ListType ==
  /\ work \in [Workers -> [Entries -> Entry]]
  /\ next \in [Workers -> [Entries -> Entries \cup {Nil}]]
  /\ prev \in [Workers -> [Entries -> Entries \cup {Nil}]]
  /\ io_seq \in [Workers -> Entries \cup {Nil}] /\ io_seq_end \in [Workers -> Entries \cup {Nil}]
  /\ free_seq \in [Workers -> Entries] /\ free_seq_end \in [Workers -> Entries]
  /\ wpc \in [Workers -> {"top", "look", "copied", "mark", "signal"}]
  /\ curr \in [Workers -> Entries \cup {Nil}] /\ seen_due \in [Workers -> BOOLEAN]
  /\ buf \in 0 .. BufSize

TypeOK == HostType /\ CqType /\ DoorbellType /\ ListType

Live(w) == Members(io_seq[w], next[w])
Free(w) == Members(free_seq[w], next[w])

\* Every entry is on exactly one of the two lists of its worker, whose ends are
\* known, and the live one reads the same in both directions
\* (__insert_req_sorted and __reclaim_completed_reqs, entry by entry).
ListsIntact ==
  \A w \in Workers :
    /\ Live(w) \cap Free(w) = {} /\ Live(w) \cup Free(w) = Entries
    /\ next[w][free_seq_end[w]] = Nil /\ free_seq_end[w] \in Free(w)
    /\ io_seq[w] # Nil => io_seq_end[w] \in Live(w) /\ next[w][io_seq_end[w]] = Nil
    /\ \A e \in Live(w) : prev[w][e] = Nil <=> e = io_seq[w]
    /\ \A e \in Live(w) : next[w][e] # Nil => prev[w][next[w][e]] = e

\* The worker, which follows links without a lock, never stands on an entry that
\* is free and not completed: it would carry out a command that is not there.
NeverStrays ==
  \A w \in Workers : curr[w] # Nil => curr[w] \in Live(w) \/ At(w).completed

\* Buffer space an internal operation is still to release.
Unreleased ==
  {x \in Workers \X Entries :
     LET e == work[x[1]][x[2]]
     IN  e.op = Internal /\ ~e.completed /\ ~(wpc[x[1]] = "mark" /\ curr[x[1]] = x[2])}

\* Buffer space leaks only with the command that took it: a write is refused or
\* lost as a whole, never completed with its release missing, and none is released
\* twice (schedule_internal_operation and __enqueue_io_req fail separately).
HalfLost(a) == apc[a] = "enqueue" /\ Fetched(a) \in Writes /\ ListFull(WorkerOf(aq[a]))

BufferKept ==
  LET leaked == BufSize - buf - Cardinality(Unreleased)
                  - Cardinality({a \in Actors : apc[a] = "internal"})
  IN  /\ leaked >= 0
      /\ leaked <= Cardinality({c \in Writes : fate[c] = "lost"})
                     + Cardinality({a \in Actors : HalfLost(a)})

\* The completions the host has not read.
Unread == {(host_head + k) % CqSize : k \in 0 .. ((cq_head - host_head) % CqSize) - 1}

\* Each is of a command under way, no command has two, and the phase bit tells the
\* host exactly which entries these are.
CompletedOnce ==
  /\ \A i \in Unread : /\ fate[cq[i].cmd] = "sent"
                        /\ \A j \in Unread \ {i} : cq[j].cmd # cq[i].cmd
  /\ NewCqe <=> Unread # {}

\* A command is completed to the host unless the FTL refused it or the list was full:
\* none is forgotten on a list, and no completion is left unsignalled.
EveryCommandEnds ==
  \A c \in Cmds : fate[c] = "sent" ~> fate[c] # "sent"
=============================================================================
