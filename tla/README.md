# Specifications of gpu-fpga-dma

A GPU application reads rows of a feature table that lives on (emulated)
storage. It pushes 24-byte row requests into shared rings; a kernel module, the
*middle layer*, sorts and merges them into page reads, gives the reads to a
storage provider, and delivers each row when its page is there. Underneath sits
an emulated NVMe controller (NVMeVirt) with several flash translation layers.

This directory holds TLA+ modules of the parts whose correctness depends on
order, failure or exhaustion, configurations that check them with TLC, and
proofs checked with TLAPS. Paths below are relative to the repository root;
`N/` stands for `src/control/nvmevirt/`.

    tlc -workers 2 -config MCCoalesce.cfg MCCoalesce.tla    # check a run
    tlapm CoalesceProofs.tla                                # check the proofs of a module (likewise the others of section 4)

`PROJECT.json` lists the runs, the source lines every definition stands for,
the hazards with the properties that watch them, and for each property a
mutation of the modelled code that violates it.

## 1. The system

### 1.1 How the parts interact

    GPU threads / isefs.c --push--> L1 request ring --pop--> coalescer shard
        ^                                                     |      ^
        |                                         issue_read  v      | nvmev_co_backend_done
        +--pop-- completion ring <--post--+                provider (model | nvme | direct)
        |                                 |
        +--rows-- dst_phys (CPU plane) <--+-- staging buffers
        +--rows-- igp_puller kernel   <---- descriptor ring (GPU-pull plane)

    host NVMe driver --doorbells--> dispatcher --> FTL (conv | zns | kv | simple)
                                       |               |
                                       +-> work queues of the I/O workers --> CQ, MSI

Everything on the left of the first picture is user or device code that shares
memory with the kernel and takes no kernel lock. A shard belongs to one kernel
thread (`co_consumer`), or to two when `coalesce_split` is set (`co_consumer`
issues, `co_reaper` reaps). The provider calls back from any context.

### 1.2 Components: state, operations, hard behaviour, correctness

**L1 rings** (`src/src/nvmev_l1.h`, `N/coalesce.h`, `N/coalesce.c:222-264`).
State: request cells, each with a sequence word; cursors `rq_head`, `rq_tail`;
completion cells with `cq_head`, `cq_tail`. Operations: `l1_push_req` (many
producers), `pop_req`, `push_cqe`, `l1_pop_cqe`. Hard: producers take a ticket
before there is room; cursors wrap at 2^32; payload accesses are plain.
Correct if: FIFO in ticket order, nothing lost, repeated or read half-written,
every push returns.

**Coalescer shard** (`N/coalesce.c`). State: the window, the pending slots with
their staging buffers and generation words, the arena of waiter nodes, the
list of completed slots, the list of slots to give back. Operations: fill,
seal (`co_sort_window`), issue (`co_flush_issue`), `nvmev_co_backend_done`,
`co_timeout_scan`, `co_reap`, `co_drain_returns`. Hard: two threads and a
completer without a common lock; completions late, repeated, lost; `-EAGAIN`
and hard errors in the middle of a window; slots, nodes and both rings run out;
timeouts race the answers. Correct if: every request is answered exactly once,
with its own row or an error; every slot and buffer has one owner; no node leaks.

**Bucket mode** (`N/coalesce.c:824-946`). Second issue policy of a shard: requests wait in
buckets by page range; a full bucket is evicted at once, the fullest one when its oldest
request is old or when nothing else happens. `coalesce_sort` may be written at run time.
Hard: a request in a bucket that is never the fullest; what one mode left when the other
takes over. Correct as the shard is.

**GPU-pull delivery** (`N/coalesce.c:387-414,607-625`, `src/src/isefs_gpupull.cu`,
`src/src/isefs.py`). State: descriptor ring with `head`/`tail`, watermark of every
held staging buffer, the block's private cursors, per-batch counters. Hard: the
GPU reads a staging buffer on its own time and publishes its tail rarely; 32-bit
cursors compared as signed; batches in flight share rings. Correct if: a buffer is
not reused before it was gathered; a drained batch has landed; push and drain return.

**Providers** (`N/backend_model.c`, `N/backend_nvme.c`, `N/backend_direct.c`).
`co_backend_ops`: `issue_read`, `poll`. Model: a sorted ring of deadlines, or
inline completion. Block layer: a bio per read. Direct: an NVMe queue pair of its
own, polled. State of the latter: identifier stack and cookie table, DMA mappings,
SQ tail, CQ head and phase, doorbells, outstanding count. Hard: the reaper frees an
identifier the issuer takes again while it still handles the completion; rings
wrap; ordering between phase bit, upcall and doorbell. Correct if: an accepted read
is answered by its own upcall once; a page stays mapped while the device may write.

**Client library** (`src/src/isefs.c`, `isefs.py`): post, poll, fetch-and-wait with
a bound on what is outstanding. **Lifecycle and control** (`N/coalesce.c:1117-1620`):
init, exit, mmap, ioctl, proc files; teardown must answer or force every read.

**GPU memory registry** (`N/gpu_mem.c`). State: the list of pinned regions, the sorted table
that translations search, a cache of pages mapped on first use. Operations: register and
unregister (procfs, any number of writers), the driver's free callback, translation. Hard:
translations read the table without a lock, in RCU sections, while it is replaced; the
driver takes pages back in between. Correct if: what was translated stays mapped until the
section ends; the table has exactly the regions that are listed and not reclaimed.

**Dispatcher and I/O workers** (`N/io.c`, `N/main.c:86-175`). State: doorbell copies,
a time-sorted list and a free list per worker, completion queues. Hard: the
dispatcher inserts and reclaims while the worker walks the same list without a lock;
full queues; the fast path and its switch at run time. Correct if: every command
accepted completes once, not before its time, and its copy was done.

**Controller registers and admin queue** (`N/main.c`, `N/pci.c`, `N/admin.c`). State: the
registers and what was last seen of them, the admin queue pair, the tables `sqes` and `cqes`
of I/O queues, doorbells. The dispatcher finds changes by comparison, one register in a pass.
Hard: order of the comparisons; restarts elsewhere or at the same place; queues created and
deleted while doorbells are polled, on the fast path by another thread. Correct if: after each
start both sides agree where in the admin queues they are; who polls takes each command once,
from a queue that exists; the host is answered.

**Conventional FTL** (`N/conv_ftl.c`, `N/pqueue/`). State: the page map and its reverse, lines
with counts and lists (free, victims, full), write pointers of host and collection, credits.
Operations: write, collect, copy a page, erase, release buffer space. Hard: long histories of
overwrites; a collection that itself needs a free line. Correct if: the maps stay inverse, lines
are counted right and each is in one place, a free line is there when one is taken.

**NAND timing and buffer** (`N/ssd.c`, `N/channel_model.c`): write-buffer space taken by the FTL
and given back by a worker when a wordline is programmed; credits of a ring of time slots.

**Zoned namespace FTL** (`N/zns_*.c`). State: zone states and write pointers, counts of open and
active zones, one write buffer or one per zone. Operations: write, the four management commands
on a zone or all. Correct if: the counts are those of the states; buffer space comes back.

**Key-value FTL** (`N/kv_ftl.c`, `N/append_only.c`). State: a hash table whose colliding keys are
chained, values at places given out in order, iterators. Operations: store, batch, retrieve, delete,
iterate. Hard: chains that wrap and are cut; scans beside stores. Correct if: it is a dictionary, a value
keeps to its own units, a scan returns what was there.

**Simple NVM** (`N/simple_ftl.c`), **DMA engine** (`N/dma.c`), **copy routines**
(`N/gpu_memcpy.c`), **build files**: see section 5.

## 2. The modules

| module | kind | models |
|---|---|---|
| `L1Queue` | abstract | a bounded queue with places taken in order |
| `L1Ring` | detailed, implements `L1Queue` | request ring, both ends |
| `FeatureStore` | abstract | what the application is promised |
| `Coalesce` | detailed, implements `FeatureStore` | one shard, CPU delivery, any provider |
| `MCCoalesce` | instance | requests, slots, configurations for TLC |
| `CursorTheorems` | lemmas | cursors that wrap: remainders, distances, stretches of a ring; counting steps; for the modules of proofs |
| `L1RingProofs` | proofs | `L1Ring` is sound and implements `L1Queue` |
| `CoalesceProofs` | proofs | `Coalesce` is sound and implements `FeatureStore` |
| `GpuPullProofs` | proofs | theorems about `GpuPull` |
| `DirectQPProofs` | proofs | `DirectQP` is sound and implements `ReadBackend` |
| `GpuPull`, `MCGpuPull` | detailed | GPU-pull plane: host, module, kernel blocks |
| `ReadBackend` | abstract | what a provider promises |
| `DirectQP` | detailed, implements `ReadBackend` | one queue pair of the direct provider |
| `IoWorker`, `MCIoWorker` | detailed | dispatcher, I/O workers, completion queue, host driver |
| `GpuMem` | detailed | registry of GPU memory and who translates through it |
| `Controller`, `MCController` | detailed, composes `GpuMem` | registers, admin queue, I/O queues that come and go |
| `ConvFtl` | detailed | conventional FTL with its write buffer |
| `KvMap` | abstract | what the key-value namespace promises: a dictionary |
| `KvFtl` | detailed, implements `KvMap` | key-value FTL |
| `ZnsFtl` | detailed | zoned FTL with its write buffers |
| `Namespaces`, `MCNamespaces` | composition | a device with one of the three FTLs |
| `ControllerInv`, `ControllerProofs` | proofs | the inductive invariant of `Controller`; theorems about it and the registry under it |
| `ConvFtlInv`, `NamespacesProofs` | proofs | the inductive invariant of `ConvFtl`; theorems about the namespaces of a device |
| `IoWorkerInv`, `IoWorkerProofs` | proofs | the inductive invariant of `IoWorker`; theorems about it |

`Coalesce` composes the shard with the queue `L1Ring` is shown to implement (a FIFO),
and with an abstract provider that may do anything a real one does; `DirectQP` shows
for one real provider that it stays within `ReadBackend`. `Controller` composes registers, admin queue and
registry; an I/O command is only taken and answered there, what happens to it between is in `IoWorker`, and
what it does to a medium in the FTLs. `IoWorker` in turn takes an FTL for its answer.

### 2.1 L1Ring

`rq_head`, `rq_tail`, `rq_seq`, `rq` are the ring; `pc`/`pos` a producer between
`fetch_add` (`Reserve`), the spin and the payload write (`Write`) and the store of the
sequence word (`Publish`); `PopCopy` and `PopFree` are the two halves of `pop_req`.
Cursors are counted modulo `Modulus`, so the run wraps them.

### 2.2 Coalesce

One shard under one of `Configs` (split or not, kind of provider, timeouts, errors,
lost or repeated completions, refusals, grouping). Atomic steps are what lies between
two accesses another thread can see:

| action | code |
|---|---|
| `Push`, `Collect` | application; `l1_pop_cqe` |
| `DrainReturns`, `PopReq`, `FillOver`, `Seal`, `KeepFilling` | `co_drain_returns`, `co_issue_lap` |
| `Bin`, `BinOver`, `EvictFull`, `EvictFullest`, `KeepBinned` | `co_bucket_lap`: the budget of a lap, a full bucket, the fullest |
| `Issue`, `Defer`, `Accept`, `Again`, `Refuse`, `FillSync`, `InlineDone`, `WindowDone` | `co_flush_issue`, before and after `issue_read` |
| `CopyRow`, `ReadCqHead`, `PostCqe` | `deliver_row`, `push_cqe`, in either thread |
| `ReaperLap`, `ReapPage`, `PageDone`, `ReaperLapDone` | `co_reaper_lap`: timeout scan, `co_reap` |
| `Complete`, `Lose`, `Echo` | provider; the `cmpxchg` of `nvmev_co_backend_done` |

Kept: every guard and order above, the generation check, the split of
`issue_read`'s call from its return (so a completion or a timeout may come first).
Abstracted: lists are sets, a chain is the set of its requests, the arena is a count,
latencies and ages are choices. A buffer's content is the page number it holds.

`bkt` are the buckets; `BucketOf` is the page divided by `stride` (`coalesce_bucket_shift`), wrapped to the number
of buckets. An evicted bucket becomes the window and is issued like one. With `sort = "switched"` each lap may be of
either mode (`coalesce_sort` is read once a lap): a window left by one mode is finished by the other, buckets wait
until bucket mode is back.

### 2.3 GpuPull

The shard is coarse (requests in a set; a run is any of one page); descriptor
ring, watermark, blocks and host are as in the code: `co_deliver_gpupull_deliver`,
`co_gpu_reclaim`, `igp_puller`'s loop (`Take`, `GatherRow`, `Advance`, `Leave`), the
push and drain calls and the pipeline of `isefs.py`. Cursors wrap.

`Issue` has the outcomes of `issue_read`: accepted, filled at once (a synchronous provider) or refused for good; of `-EAGAIN`
nothing is left, and it is as if `Issue` had not been taken. Filled and refused pages the issuer delivers itself (`ilist`) and
frees at once, without a watermark; what was read the reaper delivers (`rlist`) and holds. Both are `DeliverRow(sh, by)`. With
split roles both may be at it, and the head each stores behind is any it may have read since its last row (`seen`), since
`head` is read and stored in two steps (`N/coalesce.c:402-407`). Without split roles the issuer starts
a lap with a window of what has been pushed. `failed` is a history: the rows whose read failed or was refused.

### 2.4 DirectQP

The issuer (`qp_create`, identifier, mapping, command, doorbell), the controller
(external: fetch, complete in any order, write the CQ with a phase bit), the reaper
(`direct_poll`: phase test, unmap, identifier back, head, upcall, doorbell),
interleaved at each shared access.

### 2.5 IoWorker

`SeeDoorbell` ... `DoorbellDone` is one turn of `nvmev_proc_io_sq`, by the dispatcher or, on the fast
path, by a worker; per command `AskFtl` (or `Refused`), `EnqueueInternal` for a write, `EnqueueCmd`, `Reclaim`;
or `FastIo`. `StartPass` ... `Signal` is one pass of `nvmev_io_worker`, a step per access the dispatcher can
see. `work`, `next`, `prev`, `io_seq`, `free_seq` are the arrays and indices of the code; `Chain` follows
links. Targets are relative (`due`), a passed one is 0, and `Tick` is the passing of time; of two targets that have
both passed either may be the later. The sorted insertion therefore chooses among the places the
comparison with `latest_nsecs` allows. The FTL is its answer: a target, or a refusal when the write buffer has no room.
All queues share one completion queue, which the worker of queue 1 signals (`CONFIG_NVMEV_IO_WORKER_BY_SQ`).

`Enqueue` fills an entry and links it in one step, `Reclaim` takes entries back in one. The links before and behind a walking worker
change under it, and the entry it stands on may be reclaimed, handed out again and put elsewhere in the list. Three things these single steps do not show:
- an entry half filled, seen by a worker that still stands on it: the code says of its barrier that the worker sees the entry at once
  (`N/io.c:445`), which is so for a worker that comes to it by the links;
- two threads that insert or reclaim at once. As long as the path is switched with nothing under way, or never, only the dispatcher does either. Under load
  (`io_switch`) a worker may be in the middle of a doorbell too; the theorems of section 4 exclude that case (`Steady`);
- on the fast path, commands that are neither reads nor writes. A worker would put them on its own list and reclaim from all lists (`N/io.c:723-760`); the
  hosts here send reads and writes.

### 2.6 GpuMem

`GetPages`, `MapPages`, `Publish` are the three steps of `nvmev_gpu_mem_register`, of which only the last is under the
lock; `Unlink` takes a region out of list and table, `FreeRegion` is what follows `synchronize_rcu`: it waits for the
readers in `grace`. `Reclaim` is the driver's free callback. `Enter`, `Lookup`, `Leave` are a reader's section; on a miss
`Scan` and `AutoMap` look in the cache without the lock and again with it.

`Rebuild` makes the new table. In a configuration with `scarce` there may be no memory for it, and the old one stays (`N/gpu_mem.c:81-85`); then
a region may be `freed` with its entry still in the table. A region in use may be one the driver has reclaimed: its callback waits for no reader,
and nothing here says such a page may be touched.

### 2.7 Controller

The host's driver (external): `WriteAqa`, `WriteAsq`, `WriteAcq`, `Enable`, `SeeReady`, later `Shutdown`, `Disable`, and
in between admin commands in the order drivers use (`Before`, `After`), completions and I/O. The dispatcher: `SeeAqa` ... `SeeCc`
are the comparisons of `nvmev_proc_bars` (the first that finds a change ends the pass), `SeeAdminDb` ... `AdminDone` are
`nvmev_proc_admin_sq`, where `CreateSq`/`ResetDb`/`ResetOldDb` and `HideSq`/`FreeSq` keep the order of the assignments in `N/admin.c`.
`Look`, `Compare`, `Take`, `TakeOver` poll the I/O doorbell, by the dispatcher or, on the fast path, by a worker.
Assumed of the host, because the code does not check it:
- it writes `CC` between two passes over the registers: a pass reads them in the order hosts write them, and `CC` more than once;
- on the fast path it deletes a queue when the worker has left it, and creates one of the same number when the
  doorbell is back at 0: `N/admin.c:186-190` shows the queue before it resets the doorbells;
- it does not unpin memory a queue lies in;
- restarted with the same depth at the same place, it is the second start, and the completion queue did not turn in the first (`Sound` in
  `ControllerInv`): registers written with their old values are not noticed, so that only the shutdown before has reset head
  and doorbells (`N/pci.c:276-286`), and nothing the phase. `CSTS.SHST` is set by the first shutdown and never cleared, so the
  next shutdown is seen as done at once and `CC` may change again before the dispatcher has looked: then nothing is reset. With
  `<<Start(4, 2), Start(4, 1), Start(4, 1)>>` and one admin command each, TLC finds `AdminInStep` violated.

### 2.8 ConvFtl

`ConvWrite` is the checks of `conv_write`, `WritePage` its loop body, `CreditPage` `check_and_refill_write_credit`,
`StartGc`, `CopyPage`, `FreeLine` `do_gc`, `ReleaseBuffer` a worker's release. A page of a line is named by
its place in the order the write pointer visits (`advance_write_pointer`); `GcPage(n)` is the n-th page in the
order `do_gc` visits, which is another. `status`, `maptbl`, `rmap`, `vpc`, `ipc` are the code's; the heap of victims is the
choice of one with fewest valid pages. Assumed of the host: it writes within the namespace it was told of (`NLpns` pages). The code
refuses only what passes the flash, spare pages included (`N/conv_ftl.c:955`), so a host that does not would use the spares up.

### 2.9 KvFtl and KvMap

`table` is `kv_mapping_table`; `Find` follows a chain as `get_mapping_entry` does, `Inserted` finds the end of the chain and the
next free slot as `find_next_slot`. `Insert`, `Update`, `BatchUpdate`, `Delete`, `IterOpen`, `IterRead`, `IterClose` are the commands. The
refinement maps each key to the content its entry points to. `KvMap` promises what the code keeps: a delete may take colliding
keys along (it cuts the chain), a store in a batch keeps the old length. Assumed of the host: it
leaves a slot free (the search for one has no other end), stays within the storage and stores no value longer than the first of its
key (it would run into the next one's units), and reads or closes only an iterator it has open.

### 2.10 ZnsFtl and Namespaces

`ZnsWrite` and `ZnsWriteError` are the outcomes of `zns_write`, `CloseZones`, `FinishZones`, `OpenZones`, `ResetZones` those of
`__zmgmt_send`, on one zone or all; the releases come from the workers. Writes, zones and buffers are measured in logical blocks (512 bytes),
wordlines in pages of `ZnsSecsPerPg` blocks. A write releases a wordline for each last page of one that it touches, if only with a block
(`LbaToLpn`, `Whole`), and what the zone's end leaves (`EndsShort`). `careful` is a host
that errs in no write and resets or finishes no zone in the middle of a wordline: otherwise the buffer space taken is not
returned, and that none is lost is stated for that host only; that no buffer gets more than was taken, for every host that writes whole
pages; the counts hold for every host. `ZnsAssumption` says that what begun wordlines hold leaves room for the longest write. One zoned build writes whole
wordlines only (`WRITE_UNIT_SIZE` is `ONESHOT_PAGE_SIZE`, `N/ssd_config.h:139`), so that its shared buffer holds no begun ones however many zones there are
(`Sharers`); in the other each zone has a buffer of ten wordlines (`N/ssd_config.h:225`). The hosts set no ZRWA bit when they open a zone: no build offers the area
(`MAX_ZRWA_ZONES` is 0, `N/admin.c:417`), but a host that asks for it all the same would be let have it (`N/zns_mgmt_send.c:80-86`, with the
total of `N/zns_ftl.c:78-81`). `Namespaces` picks one FTL per behaviour, as the device does when it is initialised.

## 3. The runs

| run | shows |
|---|---|
| `l1_ring` | three producers on two cells and wrapping cursors: implements the queue, no cell shared, pushes return |
| `coalesce` | safety under six configurations (split and not, three window modes, bucket mode, in and out of it): one owner per slot, nodes conserved, nothing lost or repeated, rows of the own page |
| `coalesce_live` | the shard, in window and in bucket mode, implements `FeatureStore`, and every request is answered |
| `coalesce_split_refuse` | *violation*: with split roles the issuer's error path is a second producer of the completion ring |
| `coalesce_split_timeout` | *violation*: with split roles and a timeout a slot is freed that is still to be reaped |
| `gpu_pull` | pipeline and overlapped fetch, two shards, reads that fail or are refused: buffers held, batches landed, calls return |
| `gpu_pull_sync` | *violation*: under a synchronous provider a buffer is reused before it was gathered |
| `direct_qp` | three reads on a ring of three (two identifiers): implements `ReadBackend`, mappings, count, answers |
| `io_worker` | five configurations of the I/O path: lists intact under the worker's walk, no free entry carried out, buffer space kept, each command completed once and signalled |
| `io_switch` | *violation*: `io_lat_ns` written under load lets dispatcher and worker complete one command twice |
| `namespaces` | the three FTLs: maps inverse, lines and zones counted, a free line and buffer space when needed, values apart, scans complete; the key-value FTL implements `KvMap` |
| `controller` | eight configurations: both sides in step after every start, queues exist when polled and each command is taken once, mappings outlive their use, the host is answered |

### 3.1 What the four violations mean, and other disagreements

*Refusal with split roles.* The completion ring has a single producer by the comments
`N/coalesce.h:130` and `N/coalesce.c:385`, yet `co_flush_issue` posts error
completions from the issuer while the reaper posts its own; both read the same
`cq_head` and one completion is overwritten. One thread: the run `coalesce` includes
refusals and holds.

*Timeout with split roles.* The comment on `pend_free` (`N/coalesce.c:454`) says that no completer still holds a slot
that is freed. The timeout scan may claim a slot between `pend_alloc` and a return of
`-EAGAIN`; the undo then frees a slot that is on the done list. One thread: holds.

*GPU-pull with a synchronous provider.* `src/control/README.md:110` calls delivery and provider
orthogonal; the inline path frees the page at once, without the watermark. The issuer's error path does the same under any provider: the
comment at `N/coalesce_backend.h:136` (a page's staging must not be reused until the GPU has gathered *every* descriptor that references it)
does not hold of a read that was refused. That does no harm, as the GPU reads no buffer for a descriptor that reports an error
(`src/src/isefs_gpupull.cu:308`); `HeldUntilGathered` therefore speaks of the descriptors it does read one for.

*Two producers of the descriptor ring.* This is the first disagreement again, in the GPU-pull plane; it has no run of its own. With split roles and an asynchronous provider that
refuses a read (`backend_direct.c:559-588`, `backend_nvme.c:109-130`) the issuer enqueues descriptors (`N/coalesce.c:752-764`) beside the reaper, on a `head` that is read and stored
in two steps (`N/coalesce.c:402-407`); `N/coalesce.c:385` says there is a single producer. With
`[Plain EXCEPT !.rows = {a0, b0}, !.split = TRUE, !.refuse = TRUE]` for `MCConfigs` TLC finds `PushAndDrainReturn` violated in `gpu_pull`: one descriptor
is overwritten, the block never reaches its target and the drain does not return. With `!.rows = {a0, a2, b0}, !.ring = 4, !.modulus = 8` in
the same place it finds `HeldUntilGathered` violated: the head goes back, and a watermark lies before descriptors
still to come. The theorems about `GpuPull` exclude these configurations (`OneProducer`), and the run has split roles without refusals and refusals without split roles.

*Switching paths.* The comment at `N/main.c:442-446` says that workers poll doorbells when `io_lat_ns` is set and
that writing 0 restores the simulated path. `old_dbs` is stored only after the whole doorbell was handled, and both
sides test the value for themselves, so after a write both may read one doorbell. Switched while nothing is under
way, as in `io_worker`, it is safe.

*Starving in a bucket.* One more disagreement has no run of its own. The comment at `N/coalesce.c:924-927` says age always
evicts, so that latency is bounded; a lap evicts only the fullest bucket. With `[Plain EXCEPT !.sort = "bucket"]` (one bucket per
page) added to `LiveConfigs` TLC finds `EveryRequestAnswered` violated in `coalesce_live`: a request stays in its bucket
while another page is asked for again in every lap. The live run therefore has bucket mode with all pages in
one bucket. Likewise what waits in buckets stays there when `coalesce_sort` leaves bucket mode.

*A ring of one cell.* `coalesce_ring=1` is accepted (`N/coalesce.c:1372` only rounds up to a power of two). There the word a
producer publishes, its ticket plus one, is also the word the next ticket waits for: a second producer overwrites a request that
was not read and publishes ticket plus two, which `pop_req` (`N/coalesce.c:229`) never accepts at that tail; the comment at
`src/src/nvmev_l1.h:112` says a push blocks if the ring is full. This is why the theorems about `L1Ring` suppose `Entries > 1`. With
`Entries = 1`, two producers and `Modulus = 4` in `L1Ring.cfg` TLC finds `ImplementsQueue` violated.

*A lookup table that could not be built.* The comment in `nvmev_gpu_mem_unregister` (`N/gpu_mem.c:376-380`) says that new lookups will not find
the region after the table was rebuilt. When there is no memory for the new table the old one stays (`N/gpu_mem.c:81-85`) and nobody
is told; the region is freed, and a lookup returns its entry. With `Registered(FALSE)` as the definition of `RegistryHolds` TLC finds list and table
apart in `controller`; and with a reader in the configuration with `scarce`, and the table left out of `Registered`, the lookup: two regions pinned at the same address,
the first unregistered while memory lacks, freed, looked up. `RegistryHolds` says of a configuration with `scarce` only what list and cache keep.

*Wordlines released more than once.* With a write unit of one block (`N/ssd_config.h:204`) a host may end its writes within a page. Each write
of a part of a wordline's last page counts as the one that finishes it (`N/zns_read_write.c:92-93`, `178-211`) and gives the whole
wordline back, so that a buffer comes to hold more than its size; nothing limits `remaining` (`N/ssd.c:39-47`), so that writes are then not
held back as they should be. Without the condition on `unit` in the last conjunct of `ZoneBufferReturns` TLC finds it violated in `namespaces` after one write.
`MaxZnsSurplus` bounds the surplus in the model.

*Other places* where the model needed an assumption about the host or the load that the code does not check are named
in 2.7, 2.9, 2.10 and 3.2.

The exact lines are in `PROJECT.json` under `findings`.

### 3.2 Bounds, and why they suffice

- `l1_ring`: two cells and three producers give a producer that waits a lap and one
  that waits behind it; `Modulus` 8 is four laps and wraps several times.
- `coalesce`: three requests, two of a page (a run with two waiters beside another
  run), two slots, window of two, arena of three (nodes run out before slots do
  and after), completion ring of one. `Gens = 2`, so a generation comes back after two
  uses. `GenIsFresh` excludes the one thing a finite generation cannot tell: a completion
  delayed by a whole turn (2^16 uses in the code). At most one repeated completion
  waits at a time. Slots and the two requests of a page are symmetric; the liveness
  run uses no symmetry.
- Bucket mode: two buckets of two (`NBuckets`, `BucketCap`), so that with three requests one fills, and the fullest is a choice.
  `BucketCap <= Arena` is assumed: a bucket has one waiter per request when it is issued, and the code does not bound `g_bucket_cap` by it.
- `coalesce_live`: one slot and two pages, so a window is always issued in part and resumed.
- `gpu_pull`: at most three rows, rings of two, two buffers per shard; a configuration
  overfills a ring, one wraps it, one has reads that fail or are refused. The two assumptions that `Publish`
  (64 rows) is at most the number of buffers and the ring depth are needed for liveness;
  no line of the code checks them, and `PullAssumption` names them. It also says that a ring is at most half the range of a cursor: a power of two
  in 32 bits (`N/coalesce.c:1372`).
- `io_worker`: lists of three entries (two usable, so two reads fill one) and of two (a write's release
  takes the only one and its command is lost), up to four commands (`load`), so that entries, queues of three
  and the phase bit come round again. On such short lists an entry is soon handed out again while the worker still stands on it; on
  the 16384 entries of the code that takes a list nearly full.
- `direct_qp`: two identifiers, three reads: the stack empties, both rings wrap, phases turn.
- `namespaces`, conventional: five lines of four pages and three logical pages, the most that `ConvAssumption` allows: four lines are
  spares. With two the writers do run out of lines; with three no run was seen to, but the proof of 4 needs the fourth. The code sets aside 7 %
  of thousands of lines (`OP_AREA_PERCENT`, `N/ssd_config.h`). Collections
  start after a few overwrites; a write may begin or end within a page, and be of one page or two; `MaxSurplus` bounds what such writes add to the buffer
  (space is taken by sectors and returned by pages). Lines are alike, hence the symmetry.
- `namespaces`, key-value: three keys on three slots, in one chain or in a chain that wraps round into another key's home; values of one or
  two units; storage of four units, so a key stored again after a delete takes new ones. An iterator's reply holds one key, so every scan is continued.
- `namespaces`, zoned: two zones of three pages of two blocks, with wordlines of two pages, so each zone ends in a short one. Careful hosts that write by
  block, by page and by wordline, and one that errs; writes of up to a wordline; `MaxZnsSurplus` is a wordline.
- `controller`: admin queues of two, three and four entries, up to three starts, and I/O queues of three: each wraps. Configurations
  separate what does not interact, and one has no memory for the table at times; `MaxDepth` is 4 (64 commands fill the page a queue is mapped by); the last one puts the queues in pinned memory whose registrations come and go.

### 3.3 Fairness, and why the code justifies it

Kernel threads loop until stopped and are scheduled (`WF` on their steps). Producers that hold
a ticket, the application draining completions and the GPU blocks keep running; new requests are
never assumed. A provider finishes or loses what it accepted; losses are only with a timeout.
`SF(Seal)` is the passing of time: the age test is made every lap and becomes true for good
once `coalesce_flush_us` has passed; likewise the strong fairness of the timeout and, in
`GpuPull`, of `Issue`. In `IoWorker` the threads
poll for ever, the host handles interrupts and time passes (`WF` each). In `DirectQP`, `SF(Post(c))` says the controller does not
starve a command for others.
`SF(EvictFullest)`: the age test again. In `Controller` the dispatcher, the worker, the answering of what is queued, the
reading of completions, the host's steps of a start or shutdown begun, and the end of a reader's section are `WF`, `Enable` is `SF` since
it waits for a pass to begin; no admin command, start or shutdown is assumed to come. `Namespaces` has no liveness.

## 4. Proofs

Every theorem holds for all values of the constants that satisfy the module's named assumptions. Hypotheses beyond those are
complements of the disagreements of 3.1, or the assumption on restarts of 2.7: where they fail, TLC shows that a property fails. (Of the work lists it does not,
since there two threads that insert at once are beyond what the steps of `IoWorker` show; see 2.5.)

`CursorTheorems` has no state: division with remainder, positions modulo a ring that stay apart within a lap, distances that
step; and for the key-value store, what stands in for induction over data: a set of numbers that holds 0 and each next one holds all, as it
has no least gap (`LeastNumber`, `NumbersReached`); hence a recursive function along `0 .. n` exists (`Iterates`), and a sequence of overwrites
is what its last writes say (`Overwritten`). SMT knows little of `%` by a variable, so the other modules cite instances of these.

`L1RingProofs`, for any finite set of producers and `Entries > 1` (3.1 says why not one): `RingTypeCorrect`, `NoTornRequest` and
`RingImplementsQueue`, the refinement `Spec => ImplementsQueue`. `RingInv` says of each ticket, by its distance from the tail, what the
sequence word of its cell is: a filled cell carries its ticket plus one (`FilledCells`), one to be filled carries its ticket
(`DrainedCells`), and who was let in is less than a lap ahead (`WritersLetIn`). Two tickets of one cell are then a lap apart, and only one
is let in. For the refinement `Places` counts from the tail; pushing moves the producers' places, popping all of them.

`CoalesceProofs`, for any finite sets of requests and slots, any window, arena, ring sizes, moduli, generations and configurations:

- `TypeCorrect`: `Spec => []TypeOK`. `TypeOK` is not inductive: that a thread which delivers
  has a slot at hand is needed to type `pend[cur[t]]`. `Hands` adds it (which program counters go
  with which slot in hand); `TypeInv == TypeOK /\ Hands` is inductive.
- `SlotsHaveOneOwner`: `Sound => (Spec => []OneOwner)`. The invariant `OwnInv` says for each place (free,
  issuer, backend, done, reaper, return) which states a slot there may have and that the
  places exclude each other; `OneOwner` follows. The lemma `FreeSlots` gives back only slots held.
- `ArenaConserved`: `Sound => (Spec => []WaitersConserved)`. Counting pairs (slot, request) gives
  `CreditInv`; a free slot has an empty chain, so giving it waiters removes exactly
  their number from the arena, by cardinalities of disjoint unions.

And of what the application sees:

- `RowsOwn`: `Sound => (Spec => []RowsAreOwn)`. `RowInv` follows a page from the command to the row: waiters want their slot's page
  (`Chains`), a completion that still counts is for that page (`Landing`: the generation rules out any other), and the buffer of a slot that
  is delivered holds it (`Staged`).
- `NoneLostOrRepeated`: `Sound /\ OneWriter => (Spec => []NothingLostOrRepeated)`. `Once` says a request is at most once in each place,
  `Parted` that the places exclude each other; `RingKept`, that the cells between the cursors are the answered
  ones. That only one thread posts at a time is `OnePoster`.
- `StoreImplemented`: under the same two, `Spec => ImplementsStore`: each step changes the application's view as `FeatureStore` allows, or not at all.

`Sound` says no configuration combines split roles with a timeout, `OneWriter` none combines split roles with refusals: the
runs `coalesce_split_timeout` and `coalesce_split_refuse` are those configurations.

`GpuPullProofs`, for any rows, shards, output slots, buffers and warps, and cursors that wrap:

- `PullTypeCorrect`: `OneProducer => (Spec => []TypeOK)`, for any provider. The bound in `TypeOK` on what a slot counts is the point: it holds because the count and the
  rows under way add up to the batch (`Counted`), which needs that each row is in one place (`Placed`), that the cells
  of the descriptor ring are filled exactly where not yet gathered (`CellsFilled`), and that tail, block and head stay
  within one lap (`CursorsOrdered`). The same count shows that a block that left saw the batch complete (`BlocksLeave`).
- `BuffersHeld`: `Asynchronous /\ OneProducer => (Spec => []HeldUntilGathered)`. `Watermarked` places the watermark of a held buffer beyond each of
  its descriptors, seen from the block's tail; `NotPassed` is the arithmetic of the signed comparison: no more than half a turn lies between,
  since a ring is at most half the range of a cursor (`PullAssumption`).
- `DrainedLanded`: `Asynchronous /\ OneProducer => (Spec => []DrainedHasLanded)`. `Landed` says which row of the output buffer may still be
  stale: one under way, or one that `failed`; `DrainedComplete`, that none is under way when all blocks have left.

`Asynchronous` excludes the provider of the run `gpu_pull_sync`, `OneProducer` split roles with an asynchronous provider that refuses (3.1). Under `OneProducer` one
of reaper and issuer has rows to enqueue at a time, and what it read as the head is the head (`Alone`); without split roles what the issuer issues
is of its window, which has nothing that was not pushed (`Windowed`).

`DirectQPProofs`, for any reads and entries: `PagesMapped`, `CountRight` and `BackendImplemented`, the refinement `Spec => ImplementsBackend`.
`QpInv` has the two rings (`SqRing`, `CqRing`: which entries are in use, by distance from the cursors, and what phase each carries),
that a read is in one place (`OnePlace`), that an identifier under way leads back to its read and is not free (`CidsLive`), and what
each thread has at hand (`HandsRight`). That the submission queue has room is counted: one identifier fewer than
entries. That the reaper's phase test accepts exactly the entries that were written is the lemma about `CqRing`.

`ControllerProofs`, for any addresses, regions, readers and configurations that satisfy the two assumptions; `Spec` is the controller's, so
that queues come and go beside the registry:

- `TranslationsHold`: `Spec => []RegistryHolds`, of which the part about translations and table is for configurations where memory for the table is found. That a region unlinked is not freed under a reader follows from the grace period, which
  `UsesHold` adds (what a reader uses is listed, or unlinked with that reader among those waited for), and
  that unlinking takes the right entry out from the list having no region twice (`RegistryType`). `Removed` and `Appended` are
  the facts about sequences, `Least` that the first region at an address exists.
- `AdminStaysInStep`, `QueuesStayLive` and `ControllerTyped`: `Sound => (Spec => []P)` for `AdminInStep`, `QueuesLive` and `CtrlTypeOK`. None is
  inductive; `CtrlInv` (in `ControllerInv`, checked by TLC part by part before it was proved) says what holds between any two steps:
  - a start is several writes, seen one at a time: `Written` is what the host has written at each stage, `Seen` what of it can still
    be unseen there (nothing, once RDY is), `QueueAsSeen` that the admin queue is the one of the registers seen;
  - `New`: each register seen leaves head, phase or doorbell as of new queues, according to what changed since the last start; `First`
    is the case where nothing did, by counting the commands sent. `Resting`: without the host at work no admin command is about;
  - at work, `OncePlaced` puts each command in one place of the two rings, once, and counts; `InQueue` is where in them the dispatcher is;
    `Phases`, the phase of every entry of the completion queue, read or not, from which `NewCqe` follows;
  - `OneCommand` and `PairStage` tell the stage of the queue pair from the command under way and where it is; `IoRing` does so for the I/O
    doorbell, which is reset in two steps while others may poll, and counts the I/Os in the ring and on work lists; `Backed` keeps
    a queue's memory listed, with the invariant of the registry.
  Four lemmas of `CursorTheorems` on stretches of a ring (`StretchGrows`, `StretchShrinks`, `StretchRoom`, `StretchPart`) carry both rings.

`Sound` is the assumption on restarts of 2.7, where TLC shows that it is needed; every configuration of the run `controller` satisfies it.

`NamespacesProofs`, of the zoned FTL. `ZonesCounted`: `NsSpec => []ZoneCounts`, for any number of zones, capacity and configuration of the zoned FTL. `ZoneInv`
adds types. A write changes each count by the one zone it moves (`WriteCounts`); a management command on a set of zones takes away or
adds exactly the zones it moves (`ManagementCounts`, with `CountLess` and `CountMore` for differences and disjoint unions).
`ZoneBuffersComeBack`: `NsSpec => []ZoneBufferReturns`. `RoomInv` has its balance (`Accounted`): what has come back or will, and what begun wordlines hold, is at
least the size for a careful host, and at most the size where the unit is whole pages. A write of `n` blocks moves it: `WordlineEnds` counts the
wordlines that end among `n` blocks from any position, `PagesEnd` compares them with the last pages touched, one for one if the write ends with a
page (`LastBlock`), `WriteUse` adds the end of a zone, `BegunMoves` says what the buffers then hold of begun
wordlines and `BegunBounded` that this is less than a wordline per zone, and nothing where whole wordlines are written (`Multiples`), so that the longest write finds room.

Of the conventional FTL, for any geometry, lines, commands and buffer within `ConvAssumption`: `MapsKept`, `LinesKept`,
`WritersFindLines` and `BufferComesBack`, from the invariant `ConvInv` (in `ConvFtlInv`):

- `MapsAgree` is not inductive: that erasing a block loses nothing needs that each valid page in it was copied before. `VisitsAll` proves of
  `GcPage`, from the digits of a page's number (`VisitDigits`, `PlaceDigits`), that a collection visits every page of the line once, and
  a block's last page last. So what is erased is `Copied`, and no logical page is mapped there (`MappedApart`).
- `LinesAccounted` follows from `LinesApart` (a line is in one place), `LinesFilled` (what its pages are there) and `LinesCounted`; that a victim is
  empty when it is freed, from `WillErase`: what is not erased yet has its block's end ahead.
- `LineForWriter` holds by `Enough`: the pages the writers can take (`Room`) exceed the credits by two lines and two pages. A write takes a page and a
  credit; a collection copies the valid pages of its victim (`Left`), returns the whole line and grants credits for the invalid ones. Credits granted
  without a collection are safe as three lines are free: by the test, or, when there is no victim, because lines full of mapped
  pages cannot fill the flash (`FreeWithoutVictims`): this is where over-provisioning enters.
- `BufferReturns` is the upper and lower bound of `BufferKept`, kept through wordlines begun and due.

Of the key-value FTL, for any keys, values, slots, homes, handles and configuration; its invariant is `KvInv`:

- `Chain` is a recursive function. `UptoIs` shows that it is what its definition says, and `ChainFacts` by counting (a set of slots that grows with each
  link followed is full after as many links as there are slots) that a chain is the least set that links do not leave. `ChainGrows` and `ChainShrinks`
  are what an insertion and a deletion do to every other chain.
- `CellsKeptApart`: `NsSpec => []CellsApart`. Chains end because units of storage are handed out in the order slots are linked: along links the offset
  grows (`SlotsInOrder`). No key is on its chain twice (`KeysOnce`), and the units of a stored value lie before those of any slot filled later (`CellsHeld`).
- `ScansComplete`: `NsSpec => []ScanComplete`. `IterInv` says that what an iterator has listed is what it owes in the slots its cursor has passed.
  A key moves between slots only by being deleted, and `ScanComplete` excludes deletes by name.
- `StoreIsMap`: `NsSpec => KvIsMap`, the refinement of `KvMap`: `SeenIs` gives the dictionary of a state; `InsertMaps`, `UpdateMaps` and `DeleteMaps` say what a
  store or delete makes of it, the value overwritten unit by unit included; all else leaves it alone.
- `NamespacesTyped`: `NsSpec => []NsTypeOK`, from the three invariants.

`IoWorkerProofs`, for any workers, entries, queues, commands, depths and load that `IoAssumption` admits. The invariant `IInv` (in
`IoWorkerInv`, checked by TLC part by part and as a whole before it was proved) has two halves. All theorems are under `Steady`: the path is
switched with nothing under way, or never, so that one thread enqueues and reclaims; it is the complement of the disagreement shown by `io_switch`. The steps that
keep the first half, `Inv1`, do not look at switching:

- `IoTypeCorrect`, `IoListsIntact`, `IoNeverStrays`: `Steady => (Spec => []P)` for `TypeOK`, `ListsIntact` and `NeverStrays`. The properties speak of what one
  reaches by following links, which no step changes in an obvious way. `ListsAre` says instead that there is an order `s` of all entries of a
  worker, the first `m` of them live and the rest free, and that `next`, `prev` and the four ends are those of that order (`Linked`, `Ends`).
  `__insert_req_sorted` then takes the first free entry to a place among the live (`Inserted`, `InsertLinked`), wherever the search
  ends (`PointsAre`), and `__reclaim_completed_reqs` turns the order by as many entries as it takes back (`Rotated`, `RotateLinked`, `DoneIs`).
  `ChainFollows` says what following the links of such an order gives; `Chain` being a recursive function, it rests on `Iterates`.
- Where a worker is between two looks is the part `Standing`: at a live entry not completed while it works on one; on its way to the next,
  perhaps at one that was taken back under it, and then all that follow in the order are completed. This, with `Loaded` (what has something to do is
  live and not completed), is why the walk without a lock does nothing on the free list. When the entry a worker stands on is handed out
  again, it stands on a live one (`InsertStanding`).
- `NoneTwice`: buffer space left, still to be released by an entry, and in an actor's hands is not more than there was; counted entry
  by entry (`OwedMore`, `OwedLess`).

The second, `Inv2`:

- `IoOnePlace`: `Steady => (Spec => []Places)`. A command under way is in one place of three: asked in its queue and not
  dealt with (from `Pos`, which follows the actor through its loop before `old_dbs` is stored), on the list of a worker, or answered and not
  read by the host. `Roles` says that one actor reads a queue at a time, `Reading` that what it is at lies within what is waiting. Six lemmas
  (`AskedToListed`, `ListedToAnswered`, ...) move a command from place to place in functions of any kind; the steps cite them.
- `IoCompletedOnce`: `Steady => (Spec => []CompletedOnce)`. `Phases` gives the phase of every entry of the completion queue, read or not; that
  a completion finds a free entry is counted, fewer commands than entries being under way each in one place (`Fewer`, `PostNew`).
- `IoBufferKept`: `Steady => (Spec => []BufferKept)`. Its upper half is `NoneTwice`; the lower, `OnlyWithWrites`: space is lost only with a
  write that is lost, or while the dispatcher is between the two enqueue calls of one (`HalfIs`).

Only model-checked: liveness (`EveryRequestAnswered`, pushes and drains that return, and so on). Every invariant, refinement and action property of a
passing run is stated by a theorem. TLAPS as installed has no proof rule for liveness under fairness or `ENABLED`.

## 5. Not modelled, and why

- Enabling and disabling the module at run time and teardown against reads in flight: exit waits a bounded time and then answers by
  force; the hazard at `N/coalesce.c:1097` stands without a property.
- A failed row copy (status 2): it changes the status of the answer only.
- A device that writes a buffer after its read timed out: excluded from `RowsAreOwn` by name, the code
  relies on a device that stops.
- The admin queue of the direct provider (`N/backend_direct.c:120-180`), used by one thread at load and unload; a creation
  that fails leaves nothing behind in `DirectQP`.
- Abort, which does nothing and posts no completion (`N/admin.c:626`): no driver action of the model sends it. Polled
  completion queues, interrupts of the admin queue, contents of identify pages and logs.
- Statistics, proc files, ioctl formatting, mmap arithmetic, PCI capability tables, latency
  formulas, bandwidth credits (`N/channel_model.c`): data without order or ownership.
- In `IoWorker`: the points of 2.5, data copies, completion queues in GPU memory or without interrupts; deletion of queues is in `Controller`, without work lists.
- In `ConvFtl`: several partitions (they share nothing but the buffer), counts per block (used in assertions only), reads.
- In `ZnsFtl`: random write areas (2.10), reports and reads, which change nothing.
- In `GpuPull`: split roles with refused reads are configurations of the module, but of no run and no theorem (3.1).
- In `KvFtl`: several workers (the code has no lock between them, so nothing holds), the bitmap allocator, which no build chooses,
  keys of several lengths, prefix filters. `IterOpen` with all handles busy answers with success and changes nothing.
- Weak memory: the modules are sequentially consistent; the code's acquire and release pairs are taken to work.
- `N/dma.c` (nothing switches it on), `N/simple_ftl.c` (a latency formula), `N/gpu_memcpy.c`, build files.

## 6. Plan

1. An abstract specification of the I/O path (each accepted command completes once, after its copy and not before its
   target) that `IoWorker` implements; the places of `IoOnePlace` are most of the refinement mapping.
2. Teardown of the shard as further actions over the state of `Coalesce`; the direct provider's admin queue with its timeout.
