------------------------------ MODULE GpuPull -------------------------------
(***************************************************************************)
(* The GPU-pull delivery plane (coalesce_deliver = 1).  The module no      *)
(* longer copies rows: for every finished row it puts a descriptor on its  *)
(* shard's ring (co_deliver_gpupull_deliver, coalesce.c) and holds the     *)
(* staging buffer until the GPU's tail has passed it (co_gpu_reclaim).     *)
(* A kernel with one block per shard (igp_puller, igp_puller_pipe,         *)
(* isefs_gpupull.cu) gathers the rows and publishes its tail now and then. *)
(* The application pushes batches into output slots and drains them in     *)
(* order (isefs.py), or pushes and drains at once (igp_fetch).             *)
(*                                                                         *)
(* What Coalesce models in detail is coarse here: a shard's requests wait  *)
(* in one set, and any waiting requests of one page may be the next run.   *)
(* The buffers the reaper hands back are free at once.                     *)
(*                                                                         *)
(* Who enqueues: the reaper what was read; the issuer what the provider    *)
(* read at once or refused to read.  Without split roles they are one      *)
(* thread.  With them, two producers share a head that neither reads and   *)
(* stores in one step (seen, below).                                       *)
(***************************************************************************)
EXTENDS Integers, FiniteSets, Sequences

CONSTANTS
  Rows,      \* rows of the output buffer (dst)
  BatchOf,   \* the output slot a row lies in
  PageOf,    \* the page its node's feature is on
  Shards,
  ShardOfPage,  \* where l1_shard_of hashes a page
  Depth,     \* output slots
  Bufs,      \* staging buffers of one shard (g_pend_cap)
  Warps,     \* gather warps per block
  Publish,   \* rows a block gathers before it publishes its tail: 64
  Configs

\* A synchronous provider; read errors; reads the provider refuses for good
\* (issue_read fails); split roles; push and pull at once;
\* coalesce_ring, the depth of the request and of the descriptor ring; what the
\* cursors are counted modulo, 2^32; the rows the batches ask for.
Config == [sync : BOOLEAN, errors : BOOLEAN, refuse : BOOLEAN, split : BOOLEAN, overlap : BOOLEAN,
           ring : Nat \ {0}, modulus : Nat \ {0}, rows : SUBSET Rows]

ShardOf(r) == ShardOfPage[PageOf[r]]

\* _pipe_guard, for requests spread as it supposes: what the slots hold of one
\* shard fits its ring.
PipeGuard(c) == c.overlap \/ \A sh \in Shards : Cardinality({r \in c.rows : ShardOf(r) = sh}) <= c.ring

ASSUME PullAssumption ==
  /\ IsFiniteSet(Rows) /\ IsFiniteSet(Bufs) /\ "none" \notin Rows
  /\ ShardOfPage \in [{PageOf[r] : r \in Rows} -> Shards]
  /\ Depth \in Nat \ {0} /\ Warps \in Nat \ {0} /\ Publish \in Nat \ {0}
  /\ BatchOf \in [Rows -> 0 .. Depth - 1] /\ PageOf \in [Rows -> Nat]
  /\ Configs \subseteq Config
  /\ \A c \in Configs : PipeGuard(c) /\ c.modulus % c.ring = 0
  \* a ring is a power of two that fits a word
  /\ \A c \in Configs : c.modulus >= 2 * c.ring
  \* a tail and a watermark are never half a turn apart
  /\ \A c \in Configs, sh \in Shards : c.modulus >= 2 * Cardinality({r \in c.rows : ShardOf(r) = sh})
  \* Without these a block keeps its gathered rows to itself while the module
  \* waits for their buffers or their cells.  The code does not check them.
  /\ Publish <= Cardinality(Bufs)
  /\ \A c \in Configs : Publish <= c.ring

VARIABLES
  conf,
  hpc, slot, toPush,   \* host: what it does, to which slot, requests to push
  pending, newest,     \* slots pushed and not drained; the slot to push next
  rq,                  \* of each shard: requests waiting to be issued
  window,              \* the requests of this lap's window not issued yet
  buf,                 \* staging buffers and their pending pages
  kpc, rlist,          \* consumer: where it is, the pages it is delivering
  ilist,               \* the page the issuer is delivering
  seen,                \* of each producer: what it may have read as the head for its row
  done_list,           \* completed pages
  gdesc, head, tail,   \* the descriptor ring
  bpc, s_tail, s_head, \* of each block: where it is, its own cursors,
  pub, todo,           \* the tail it published, the cells its warps gather
  g_done,              \* rows delivered per output slot
  out,                 \* the output buffer: the page each row came from
  failed               \* history: rows whose read failed or was refused

hostVars == <<hpc, slot, toPush, pending, newest>>
kernelVars == <<rq, window, buf, kpc, rlist, ilist, done_list>>
ringVars == <<gdesc, head, seen>>
blockVars == <<tail, bpc, s_tail, s_head, pub, todo, g_done, out>>
vars == <<conf, hostVars, kernelVars, ringVars, blockVars, failed>>

Stale == -2   \* left over from the slot's last batch
NoPage == -1
NoDesc == [row |-> "none", buf |-> "none", ok |-> FALSE]
Producers == {"reaper", "issuer"}
Pages == {PageOf[r] : r \in Rows}
Ring == conf.ring
RowsOf(s) == {r \in conf.rows : BatchOf[r] = s}
Cells == 0 .. Ring - 1

Wrap(x) == x % conf.modulus

Buf == [state : {"free", "reading", "done", "error", "held"}, data : Pages \cup {NoPage},
        waiters : SUBSET Rows, wm : 0 .. conf.modulus - 1]
Desc == [row : Rows, buf : Bufs, ok : BOOLEAN]

Init ==
  /\ conf \in Configs
  /\ hpc = "idle" /\ slot = 0 /\ toPush = {} /\ pending = {} /\ newest = 0
  /\ rq = [sh \in Shards |-> {}] /\ window = [sh \in Shards |-> {}]
  /\ buf = [sh \in Shards |-> [b \in Bufs |->
              [state |-> "free", data |-> NoPage, waiters |-> {}, wm |-> 0]]]
  /\ kpc = [sh \in Shards |-> "issue"]
  /\ rlist = [sh \in Shards |-> <<>>] /\ ilist = [sh \in Shards |-> <<>>]
  /\ done_list = [sh \in Shards |-> <<>>]
  /\ gdesc = [sh \in Shards |-> [c \in Cells |-> NoDesc]]
  /\ seen = [sh \in Shards |-> [by \in Producers |-> {}]]
  /\ head = [sh \in Shards |-> 0] /\ tail = [sh \in Shards |-> 0]
  /\ bpc = [sh \in Shards |-> "off"]
  /\ s_tail = [sh \in Shards |-> 0] /\ s_head = [sh \in Shards |-> 0]
  /\ pub = [sh \in Shards |-> 0] /\ todo = [sh \in Shards |-> {}]
  /\ g_done = [s \in 0 .. Depth - 1 |-> 0]
  /\ out = [r \in Rows |-> Stale] /\ failed = {}
-----------------------------------------------------------------------------
(* The application.                                                        *)

\* The kernel's blocks resume from the ring tails.
Launch ==
  /\ bpc' = [sh \in Shards |-> "look"]
  /\ s_tail' = tail /\ pub' = tail
  /\ s_head' = [sh \in Shards |-> 0]

\* igp_push_slot, igp_push_slot_dev and igp_fetch, up to the first request.
\* The caller is done with the slot's rows.  igp_fetch launches first.
StartPush_NoReset ==
  /\ hpc = "idle" /\ newest \notin pending
  /\ conf.overlap => pending = {}
  /\ hpc' = "push" /\ slot' = newest /\ toPush' = RowsOf(newest)
  /\ newest' = (newest + 1) % Depth
  /\ out' = [r \in Rows |-> IF r \in RowsOf(newest) THEN Stale ELSE out[r]]
  /\ failed' = failed \ RowsOf(newest)
  /\ IF conf.overlap THEN Launch ELSE UNCHANGED <<bpc, s_tail, pub, s_head>>
  /\ UNCHANGED <<conf, pending, kernelVars, ringVars, tail, todo, g_done>>

StartPush ==
  /\ hpc = "idle"
  /\ newest \notin pending
  /\ conf.overlap => pending = {}
  /\ hpc' = "push" /\ slot' = newest /\ toPush' = RowsOf(newest)
  /\ newest' = (newest + 1) % Depth
  /\ g_done' = [g_done EXCEPT ![newest] = 0]
  /\ out' = [r \in Rows |-> IF r \in RowsOf(newest) THEN Stale ELSE out[r]]
  /\ failed' = failed \ RowsOf(newest)
  /\ IF conf.overlap THEN Launch ELSE UNCHANGED <<bpc, s_tail, pub, s_head>>
  /\ UNCHANGED <<conf, pending, kernelVars, ringVars, tail, todo>>

PushRow ==
  /\ hpc = "push"
  /\ \E r \in toPush :
       /\ Cardinality(rq[ShardOf(r)]) < Ring
       /\ rq' = [rq EXCEPT ![ShardOf(r)] = @ \cup {r}]
       /\ toPush' = toPush \ {r}
  /\ UNCHANGED <<conf, hpc, slot, pending, newest, window, buf, kpc, rlist, ilist, done_list, ringVars, blockVars, failed>>

PushOver ==
  /\ hpc = "push"
  /\ toPush = {}
  /\ hpc' = IF conf.overlap THEN "pull" ELSE "idle"
  /\ pending' = pending \cup {slot}
  /\ UNCHANGED <<conf, slot, toPush, newest, kernelVars, ringVars, blockVars, failed>>

\* igp_drain_slot: the oldest batch, the one next in turn that is pending.
Oldest == CHOOSE s \in pending :
            \E k \in 0 .. Depth - 1 :
              /\ s = (newest + k) % Depth
              /\ \A j \in 0 .. k - 1 : (newest + j) % Depth \notin pending

StartDrain ==
  /\ hpc = "idle"
  /\ pending # {}
  /\ hpc' = "pull" /\ slot' = Oldest
  /\ Launch
  /\ UNCHANGED <<conf, toPush, pending, newest, kernelVars, ringVars, tail, todo, g_done, out, failed>>

\* stream_wait: every block has left.
AllBlocksLeft == \A sh \in Shards : bpc[sh] = "off"

DrainOver ==
  /\ hpc = "pull"
  /\ AllBlocksLeft
  /\ hpc' = "idle" /\ pending' = pending \ {slot}
  /\ UNCHANGED <<conf, slot, toPush, newest, kernelVars, ringVars, blockVars, failed>>
-----------------------------------------------------------------------------
(* The module, shard by shard.                                             *)

\* Which buffer the stack gives is all one: they are alike.
FreeBufs(sh) == {b \in Bufs : buf[sh][b].state = "free"}

Waiting(sh) == IF conf.split THEN rq[sh] ELSE window[sh]

\* co_flush_issue: a run of requests of one page and a free buffer.  A
\* synchronous provider fills it at once; one that fails for good (rc < 0)
\* leaves it as it was; in both cases the issuer delivers the rows itself.
\* With -EAGAIN nothing is left of the attempt and the run waits for a later lap.
\* Without split roles one window is issued in a lap.
Issue(sh) ==
  /\ kpc[sh] = "issue" \/ conf.split
  /\ ilist[sh] = <<>>
  /\ FreeBufs(sh) # {}
  /\ \E p \in Pages : \E R \in SUBSET {r \in Waiting(sh) : PageOf[r] = p}, taken \in {TRUE, ~conf.refuse} :
     LET b == CHOOSE b \in FreeBufs(sh) : TRUE
         ready == taken /\ conf.sync
     IN
       /\ R # {}
       /\ rq' = [rq EXCEPT ![sh] = @ \ R] /\ window' = [window EXCEPT ![sh] = @ \ R]
       /\ buf' = [buf EXCEPT ![sh][b] =
                    [@ EXCEPT !.state = IF ready THEN "done" ELSE IF taken THEN "reading" ELSE "error",
                              !.data = IF ready THEN p ELSE buf[sh][b].data,
                              !.waiters = R]]
       /\ failed' = IF taken THEN failed ELSE failed \cup R
       /\ IF taken /\ ~conf.sync THEN UNCHANGED <<ilist, seen>>
          ELSE /\ ilist' = [ilist EXCEPT ![sh] = <<b>>]
               /\ seen' = [seen EXCEPT ![sh]["issuer"] = {head[sh]}]
  /\ UNCHANGED <<conf, hostVars, kpc, rlist, done_list, gdesc, head, blockVars>>

\* The page of a read: the one its waiters ask for.
PageRead(sh, b) == PageOf[CHOOSE r \in buf[sh][b].waiters : TRUE]

Complete(sh, b) ==
  /\ buf[sh][b].state = "reading"
  /\ \E good \in {TRUE, ~conf.errors} :
       /\ buf' = [buf EXCEPT ![sh][b] =
                    [@ EXCEPT !.state = IF good THEN "done" ELSE "error",
                              !.data = IF good THEN PageRead(sh, b) ELSE buf[sh][b].data]]
       /\ failed' = IF good THEN failed ELSE failed \cup buf[sh][b].waiters
  /\ done_list' = [done_list EXCEPT ![sh] = Append(@, b)]
  /\ UNCHANGED <<conf, hostVars, rq, window, kpc, rlist, ilist, ringVars, blockVars>>

\* The next lap: co_reap takes all that is done.
Lap(sh) ==
  /\ kpc[sh] = "issue"
  /\ ilist[sh] = <<>> \/ conf.split
  /\ rlist' = [rlist EXCEPT ![sh] = done_list[sh]]
  /\ done_list' = [done_list EXCEPT ![sh] = <<>>]
  /\ kpc' = [kpc EXCEPT ![sh] = "reap"]
  /\ seen' = [seen EXCEPT ![sh]["reaper"] = IF done_list[sh] = <<>> THEN {} ELSE {head[sh]}]
  /\ UNCHANGED <<conf, hostVars, rq, window, buf, ilist, gdesc, head, blockVars, failed>>

\* co_deliver_gpupull_deliver: spins while the ring is full.  After the page's
\* last row co_reap holds it, at the head its descriptors end at; co_flush_issue
\* frees it.  The head h a producer stores behind is the one it read for this
\* row: any it could have read since its last, if another producer moves it.
HasRoom(sh, h) == Wrap(h - tail[sh]) < Ring

Watermark_Before(h) == h
Watermark(h) == Wrap(h + 1)

DeliverRow(sh, by) ==
  LET list == IF by = "issuer" THEN ilist[sh] ELSE rlist[sh]
      b == Head(list)
      p == buf[sh][b]
  IN /\ list # <<>>
     /\ \E h \in seen[sh][by], r \in p.waiters :
          LET last == p.waiters = {r}
          IN /\ HasRoom(sh, h)
             /\ gdesc' = [gdesc EXCEPT ![sh][h % Ring] = [row |-> r, buf |-> b, ok |-> p.state = "done"]]
             /\ head' = [head EXCEPT ![sh] = Wrap(h + 1)]
             /\ seen' = [seen EXCEPT ![sh] = [x \in Producers |->
                           IF x = by THEN IF last /\ Len(list) = 1 THEN {} ELSE {Wrap(h + 1)}
                           ELSE IF @[x] = {} THEN {} ELSE @[x] \cup {Wrap(h + 1)}]]
             /\ buf' = [buf EXCEPT ![sh][b] =
                  [p EXCEPT !.waiters = p.waiters \ {r},
                            !.state = IF ~last THEN p.state ELSE IF by = "issuer" THEN "free" ELSE "held",
                            !.wm = IF last /\ by = "reaper" THEN Watermark(h) ELSE p.wm]]
             /\ rlist' = [rlist EXCEPT ![sh] = IF last /\ by = "reaper" THEN Tail(@) ELSE @]
             /\ ilist' = [ilist EXCEPT ![sh] = IF last /\ by = "issuer" THEN Tail(@) ELSE @]
  /\ UNCHANGED <<conf, hostVars, rq, window, kpc, done_list, blockVars, failed>>

\* co_gpu_reclaim: (s32)(tail - gpu_wm) >= 0.  What a free buffer holds is
\* nobody's, and forgotten.
Passed(sh, b) == Wrap(tail[sh] - buf[sh][b].wm) < conf.modulus \div 2

Reclaim(sh) ==
  /\ kpc[sh] = "reap"
  /\ rlist[sh] = <<>>
  /\ buf' = [buf EXCEPT ![sh] = [b \in Bufs |->
               IF @[b].state = "held" /\ Passed(sh, b)
               THEN [@[b] EXCEPT !.state = "free", !.data = NoPage, !.wm = 0] ELSE @[b]]]
  /\ kpc' = [kpc EXCEPT ![sh] = "issue"]
  /\ window' = [window EXCEPT ![sh] = rq[sh]]
  /\ UNCHANGED <<conf, hostVars, rq, rlist, ilist, done_list, ringVars, blockVars, failed>>
-----------------------------------------------------------------------------
(* The kernel: one block per shard.                                        *)

\* The head is read again only when the rows known of are gathered.
KnownHead(sh) == IF s_tail[sh] >= s_head[sh] THEN head[sh] ELSE s_head[sh]
Avail(sh) == LET av == Wrap(KnownHead(sh) - s_tail[sh])
             IN  IF av < Warps THEN av ELSE Warps

TargetReached == g_done[slot] >= Cardinality(RowsOf(slot))

Take(sh) ==
  /\ bpc[sh] = "look"
  /\ ~TargetReached
  /\ Avail(sh) > 0
  /\ s_head' = [s_head EXCEPT ![sh] = KnownHead(sh)]
  /\ todo' = [todo EXCEPT ![sh] = 0 .. Avail(sh) - 1]
  /\ bpc' = [bpc EXCEPT ![sh] = "gather"]
  /\ UNCHANGED <<conf, hostVars, kernelVars, ringVars, tail, s_tail, pub, g_done, out, failed>>

\* One warp copies its row, unless the read failed, and credits its batch.
GatherRow(sh) ==
  /\ bpc[sh] = "gather"
  /\ \E w \in todo[sh] :
       LET d == gdesc[sh][Wrap(s_tail[sh] + w) % Ring]
       IN /\ out' = IF d.ok THEN [out EXCEPT ![d.row] = buf[sh][d.buf].data] ELSE out
          /\ g_done' = [g_done EXCEPT ![BatchOf[d.row]] = @ + 1]
          /\ gdesc' = [gdesc EXCEPT ![sh][Wrap(s_tail[sh] + w) % Ring] = NoDesc]  \* forgotten
          /\ todo' = [todo EXCEPT ![sh] = @ \ {w}]
          /\ bpc' = [bpc EXCEPT ![sh] = IF todo[sh] = {w} THEN "advance" ELSE @]
  /\ UNCHANGED <<conf, hostVars, kernelVars, head, seen, tail, s_tail, s_head, pub, failed>>

\* What the block gathered is Avail: nothing changed its cursors since Take.
Gathered(sh) == LET av == Wrap(s_head[sh] - s_tail[sh])
                IN  IF av < Warps THEN av ELSE Warps

NextTail_Wide(sh) == s_tail[sh] + Gathered(sh)
NextTail(sh) == Wrap(s_tail[sh] + Gathered(sh))

PublishNow_OnlyAtExit(sh, t) == FALSE
PublishNow(sh, t) == Wrap(t - pub[sh]) >= Publish

Advance(sh) ==
  /\ bpc[sh] = "advance"
  /\ LET t == NextTail(sh)
     IN /\ s_tail' = [s_tail EXCEPT ![sh] = t]
        /\ tail' = [tail EXCEPT ![sh] = IF PublishNow(sh, t) THEN t ELSE @]
        /\ pub' = [pub EXCEPT ![sh] = IF PublishNow(sh, t) THEN t ELSE @]
  /\ bpc' = [bpc EXCEPT ![sh] = "look"]
  /\ UNCHANGED <<conf, hostVars, kernelVars, ringVars, s_head, todo, g_done, out, failed>>

Leave(sh) ==
  /\ bpc[sh] = "look"
  /\ TargetReached
  /\ tail' = [tail EXCEPT ![sh] = s_tail[sh]]
  /\ pub' = [pub EXCEPT ![sh] = s_tail[sh]]
  /\ bpc' = [bpc EXCEPT ![sh] = "off"]
  /\ s_head' = [s_head EXCEPT ![sh] = 0]  \* what a block knew is forgotten
  /\ UNCHANGED <<conf, hostVars, kernelVars, ringVars, s_tail, todo, g_done, out, failed>>
-----------------------------------------------------------------------------
HostStep == StartPush \/ PushRow \/ PushOver \/ StartDrain \/ DrainOver
KernelStep(sh) == Lap(sh) \/ DeliverRow(sh, "reaper") \/ Reclaim(sh)
BlockStep(sh) == Take(sh) \/ GatherRow(sh) \/ Advance(sh) \/ Leave(sh)

Next ==
  \/ HostStep
  \/ \E sh \in Shards :
       \/ KernelStep(sh) \/ Issue(sh) \/ DeliverRow(sh, "issuer")
       \/ BlockStep(sh) \/ \E b \in Bufs : Complete(sh, b)

\* What was begun goes on: the pushers, the consumers and the blocks run, reads
\* complete, a window of age is issued.  New batches and drains may never come.
Fairness ==
  /\ WF_vars(PushRow \/ PushOver \/ DrainOver)
  /\ \A sh \in Shards :
       /\ WF_vars(KernelStep(sh)) /\ WF_vars(DeliverRow(sh, "issuer"))
       /\ WF_vars(BlockStep(sh)) /\ SF_vars(Issue(sh))
       /\ \A b \in Bufs : WF_vars(Complete(sh, b))

Spec == Init /\ [][Next]_vars
FairSpec == Spec /\ Fairness
-----------------------------------------------------------------------------
HostType ==
  /\ conf \in Configs
  /\ hpc \in {"idle", "push", "pull"} /\ slot \in 0 .. Depth - 1 /\ newest \in 0 .. Depth - 1
  /\ toPush \subseteq Rows /\ pending \subseteq 0 .. Depth - 1

ModuleType ==
  /\ rq \in [Shards -> SUBSET Rows] /\ window \in [Shards -> SUBSET Rows]
  /\ buf \in [Shards -> [Bufs -> Buf]]
  /\ kpc \in [Shards -> {"reap", "issue"}]
  /\ rlist \in [Shards -> Seq(Bufs)] /\ ilist \in [Shards -> Seq(Bufs)]
  /\ done_list \in [Shards -> Seq(Bufs)]
  /\ gdesc \in [Shards -> [Cells -> Desc \cup {NoDesc}]]
  /\ head \in [Shards -> 0 .. conf.modulus - 1]
  /\ seen \in [Shards -> [Producers -> SUBSET (0 .. conf.modulus - 1)]]

BlockType ==
  /\ tail \in [Shards -> 0 .. conf.modulus - 1] /\ s_tail \in [Shards -> 0 .. conf.modulus - 1]
  /\ s_head \in [Shards -> 0 .. conf.modulus - 1] /\ pub \in [Shards -> 0 .. conf.modulus - 1]
  /\ bpc \in [Shards -> {"off", "look", "gather", "advance"}]
  /\ todo \in [Shards -> SUBSET (0 .. Warps - 1)]
  /\ g_done \in [0 .. Depth - 1 -> 0 .. Cardinality(Rows)]
  /\ out \in [Rows -> Pages \cup {Stale, NoPage}] /\ failed \subseteq Rows

TypeOK == HostType /\ ModuleType /\ BlockType

\* The descriptors no warp has dealt with yet, as offsets from the block's tail.
Ungathered(sh) ==
  LET live == 0 .. Wrap(head[sh] - s_tail[sh]) - 1
  IN  CASE bpc[sh] = "gather" -> {i \in live : i >= Gathered(sh) \/ i \in todo[sh]}
        [] bpc[sh] = "advance" -> {i \in live : i >= Gathered(sh)}
        [] OTHER -> live

\* A buffer is not reused until the GPU has gathered every descriptor it will
\* read the buffer for (coalesce_backend.h, gpu_wm): a descriptor that reports an
\* error is gathered without a look at its buffer, which a refused read leaves free.
HeldUntilGathered ==
  \A sh \in Shards : \A i \in Ungathered(sh) :
    LET d == gdesc[sh][Wrap(s_tail[sh] + i) % Ring]
    IN  d.ok => buf[sh][d.buf].state \in {"held", "done"} /\ buf[sh][d.buf].data = PageOf[d.row]

\* When the kernel has left, each row of its batch lies in the output buffer,
\* from its own page, unless the read of that very row failed or was refused:
\* then it is silently left as it was.
DrainedHasLanded ==
  hpc = "pull" /\ AllBlocksLeft =>
    \A r \in RowsOf(slot) : out[r] = PageOf[r] \/ (r \in failed /\ out[r] = Stale)

\* A push or drain that has begun ends.
PushAndDrainReturn == hpc # "idle" ~> hpc = "idle"
=============================================================================
