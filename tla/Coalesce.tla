------------------------------ MODULE Coalesce ------------------------------
(***************************************************************************)
(* One shard of the coalescer (coalesce.c), CPU delivery plane.            *)
(*                                                                         *)
(* The issuer (co_consumer, co_issue_lap) pops requests into a window,     *)
(* or in bucket mode into buckets by page of which one at a time becomes    *)
(* the window; seals it, and issues a backend read per run of one page,     *)
(* each into a pending slot that owns a staging buffer.  The backend       *)
(* completes reads at its own pace through nvmev_co_backend_done.  The     *)
(* reaper (co_reaper, co_reaper_lap) copies every waiter's row out of the  *)
(* staging buffer, posts its completion, and hands the slot back; only the *)
(* issuer touches the free lists.  With coalesce_split the two are threads *)
(* of their own, otherwise one thread alternates their laps.               *)
(*                                                                         *)
(* The request ring is the FIFO that L1Ring is shown to implement.  A slot *)
(* list (llist, free stack) is the set of its slots: their order carries   *)
(* no promise.  A waiter chain is the set of its requests; the arena is    *)
(* the count of its free nodes.  Time is a choice: a window may be        *)
(* of age when it is checked, and a read may be overdue when the reaper    *)
(* looks.                                                                  *)
(*                                                                         *)
(* An operator D_Bug, just before a definition D, is D with a plausible    *)
(* bug; the checks use it to see that the properties notice.               *)
(***************************************************************************)
EXTENDS Integers, FiniteSets, Sequences

CONSTANTS
  Reqs,       \* the requests a client may have under way, by req_id
  Pages,      \* page numbers of the feature space (line_tag)
  PageOf,     \* the page of each request's node
  Slots,      \* pending slots = staging buffers (g_pend_cap)
  Window,     \* coalesce_window, at most g_wcap
  FlushMin,   \* coalesce_flush_min
  NBuckets,   \* g_nbuckets, a power of two
  BucketCap,  \* g_bucket_cap
  Arena,      \* g_warena_cap, waiter nodes
  RqEntries,  \* depth of the request ring
  CqEntries,  \* depth of the completion ring, a power of two
  Modulus,    \* the completion cursors are counted modulo this; 2^32
  Gens,       \* generations of a slot; 2^16
  Configs     \* the load-time configurations to consider

\* coalesce_split; the provider's kind; coalesce_timeout_us # 0; whether reads
\* may fail, be lost, be completed twice or be refused; coalesce_sort, which is
\* "switched" between sorting and bucket mode where it changes at run time;
\* pages per bucket, 2^coalesce_bucket_shift.
Config ==
  [split : BOOLEAN, kind : {"sync", "model", "device"}, timeouts : BOOLEAN,
   errors : BOOLEAN, lossy : BOOLEAN, echo : BOOLEAN, refuse : BOOLEAN,
   sort : {"sorted", "hash", "no_merge", "bucket", "switched"}, stride : Nat \ {0}]

None == "none"
NoPage == -1

ASSUME CoalesceAssumption ==
  /\ IsFiniteSet(Reqs) /\ IsFiniteSet(Slots)
  /\ None \notin Reqs \cup Slots
  /\ Pages \subseteq Nat
  /\ PageOf \in [Reqs -> Pages]
  /\ Window \in Nat \ {0} /\ FlushMin \in Nat
  /\ Arena \in Nat /\ Arena >= Window /\ Arena >= BucketCap
  /\ NBuckets \in Nat \ {0} /\ BucketCap \in Nat \ {0}
  /\ RqEntries \in Nat \ {0} /\ CqEntries \in Nat \ {0}
  /\ Modulus \in Nat /\ Modulus > CqEntries /\ Modulus % CqEntries = 0
  /\ Gens \in Nat /\ Gens > 1
  /\ Configs \subseteq Config

VARIABLES
  conf,         \* the module parameters this load was given
  outst,        \* client: requests pushed and not yet collected
  rq,           \* the request ring, oldest first
  win, sealed,  \* the window; win_sorted
  todo,         \* window entries from issue_pos on
  bkt, binned,  \* requests in buckets; how many this lap binned
  ipc,          \* where the issuer is
  pend_free, wfree_n,        \* free slots; number of free waiter nodes
  pend,         \* slot -> genstate, line_tag and waiter chain
  staging,      \* slot -> the page its buffer holds
  io, echoes,   \* reads the backend holds; completions it fires again
  done_list, pend_return,    \* completed pages; pages handed back
  rpc, rlist,   \* where the reaper is; pages it took off done_list
  cur, dpc, left, ok,        \* of each thread: slot at hand, delivery step,
  cqe, h,                    \* waiters to serve, row or error, completion,
                             \* cq_head as read
  cq, cq_head, cq_tail       \* the completion ring

bucketVars == <<bkt, binned>>
windowVars == <<win, sealed, todo, bucketVars>>
creditVars == <<pend_free, wfree_n>>
slotVars == <<pend, staging>>
backendVars == <<io, echoes>>
reaperVars == <<rpc, rlist>>
deliverVars == <<cur, dpc, left, ok, cqe, h>>
cqVars == <<cq, cq_head, cq_tail>>
vars == <<conf, outst, rq, windowVars, ipc, creditVars, slotVars, backendVars,
          done_list, pend_return, reaperVars, deliverVars, cqVars>>

Threads == {"issuer", "reaper"}
Cells == 0 .. CqEntries - 1
Wrap(x) == x % Modulus

NoCqe == [req |-> None, ok |-> FALSE, data |-> NoPage]
Cqe == [req : Reqs, ok : BOOLEAN, data : Pages \cup {NoPage}]
Read == [slot : Slots, gen : 0 .. Gens - 1, page : Pages]
Pend == [state : {"FREE", "ISSUED", "DONE", "ERROR"}, gen : 0 .. Gens - 1,
         tag : Pages \cup {NoPage}, waiters : SUBSET Reqs]

\* nvmev_coalesce_init with co_shard_pools_alloc.
Init ==
  /\ conf \in Configs
  /\ outst = {} /\ rq = <<>>
  /\ win = {} /\ sealed = FALSE /\ todo = {}
  /\ bkt = {} /\ binned = 0
  /\ ipc = "lap"
  /\ pend_free = Slots /\ wfree_n = Arena
  /\ pend = [s \in Slots |-> [state |-> "FREE", gen |-> 0, tag |-> NoPage, waiters |-> {}]]
  /\ staging = [s \in Slots |-> NoPage]
  /\ io = {} /\ echoes = {}
  /\ done_list = {} /\ pend_return = {}
  /\ rpc = "lap" /\ rlist = {}
  /\ cur = [t \in Threads |-> None] /\ dpc = [t \in Threads |-> None]
  /\ left = [t \in Threads |-> {}] /\ ok = [t \in Threads |-> FALSE]
  /\ cqe = [t \in Threads |-> NoCqe]
  /\ h = [t \in Threads |-> 0]
  /\ cq = [c \in Cells |-> NoCqe] /\ cq_head = 0 /\ cq_tail = 0
-----------------------------------------------------------------------------
(* The GPU application.                                                    *)

Push(r) ==
  /\ r \notin outst
  /\ Len(rq) < RqEntries
  /\ outst' = outst \cup {r}
  /\ rq' = Append(rq, r)
  /\ UNCHANGED <<conf, windowVars, ipc, creditVars, slotVars, backendVars,
                 done_list, pend_return, reaperVars, deliverVars, cqVars>>

\* l1_pop_cqe.
Collect ==
  /\ cq_head # cq_tail
  /\ outst' = outst \ {cq[cq_tail % CqEntries].req}
  /\ cq' = [cq EXCEPT ![cq_tail % CqEntries] = NoCqe]  \* a cell read is forgotten
  /\ cq_tail' = Wrap(cq_tail + 1)
  /\ UNCHANGED <<conf, rq, windowVars, ipc, creditVars, slotVars, backendVars,
                 done_list, pend_return, reaperVars, deliverVars, cq_head>>
-----------------------------------------------------------------------------
(* The issuer.                                                             *)

\* One thread alternates the two laps; two threads run theirs side by side.
IssuerLapOver == IF conf.split THEN "lap" ELSE "reap"

\* The waiter nodes chained to the slots of S.
NodesOf(S) == {n \in S \X Reqs : n[2] \in pend[n[1]].waiters}

\* waiter_free_chain and pend_free on a set of slots.  What a free slot's
\* chain and buffer hold is nobody's, and forgotten.
FreeSlots(S) ==
  /\ staging' = [s \in Slots |-> IF s \in S THEN NoPage ELSE staging[s]]
  /\ pend_free' = pend_free \cup S
  /\ wfree_n' = wfree_n + Cardinality(NodesOf(S))
  /\ pend' = [s \in Slots |->
                IF s \in S THEN [pend[s] EXCEPT !.state = "FREE", !.tag = NoPage, !.waiters = {}]
                           ELSE pend[s]]

\* coalesce_sort = CO_SORT_BUCKET, as this lap reads it.
BucketLap == {b \in BOOLEAN : \/ conf.sort = "switched"
                              \/ b <=> conf.sort = "bucket"}

DrainReturns ==
  /\ ipc = "lap"
  /\ FreeSlots(pend_return)
  /\ pend_return' = {}
  /\ \E b \in BucketLap :
       ipc' = IF sealed THEN "issue" ELSE IF b THEN "bin" ELSE "fill"
  /\ UNCHANGED <<conf, outst, rq, windowVars, backendVars,
                 done_list, reaperVars, deliverVars, cqVars>>

PopReq ==
  /\ ipc = "fill"
  /\ Cardinality(win) < Window
  /\ rq # <<>>
  /\ win' = win \cup {Head(rq)}
  /\ rq' = Tail(rq)
  /\ UNCHANGED <<conf, outst, sealed, todo, bucketVars, ipc, creditVars, slotVars, backendVars,
                 done_list, pend_return, reaperVars, deliverVars, cqVars>>

FillOver ==
  /\ ipc = "fill"
  /\ Cardinality(win) >= Window \/ rq = <<>>
  /\ ipc' = "check"
  /\ UNCHANGED <<conf, outst, rq, windowVars, creditVars, slotVars, backendVars,
                 done_list, pend_return, reaperVars, deliverVars, cqVars>>

MustSeal ==
  /\ win # {}
  /\ \/ Cardinality(win) >= Window
     \/ rq = <<>> /\ Cardinality(win) >= FlushMin

Seal_NotByAge ==
  /\ ipc = "check"
  /\ MustSeal
  /\ sealed' = TRUE /\ todo' = win
  /\ ipc' = "issue"
  /\ UNCHANGED <<conf, outst, rq, win, bucketVars, creditVars, slotVars, backendVars,
                 done_list, pend_return, reaperVars, deliverVars, cqVars>>

\* co_sort_window.  A window that need not be sealed may be of age; in bucket
\* mode it is what another mode has left.
Seal ==
  /\ ipc \in {"check", "bin"}
  /\ win # {}
  /\ sealed' = TRUE /\ todo' = win
  /\ ipc' = "issue"
  /\ UNCHANGED <<conf, outst, rq, win, bucketVars, creditVars, slotVars, backendVars,
                 done_list, pend_return, reaperVars, deliverVars, cqVars>>

KeepFilling ==
  /\ ipc = "check"
  /\ ~MustSeal
  /\ ipc' = IssuerLapOver
  /\ UNCHANGED <<conf, outst, rq, windowVars, creditVars, slotVars, backendVars,
                 done_list, pend_return, reaperVars, deliverVars, cqVars>>

\* co_bucket_lap: requests are binned, and a whole bucket is the next window.
BucketOf(p) == (p \div conf.stride) % NBuckets
InBucket(b) == {r \in bkt : BucketOf(PageOf[r]) = b}
BucketOfHead == BucketOf(PageOf[Head(rq)])

Binning == ipc = "bin" /\ win = {} /\ binned < Window /\ rq # <<>>

Bin ==
  /\ Binning
  /\ Cardinality(InBucket(BucketOfHead)) < BucketCap
  /\ bkt' = bkt \cup {Head(rq)}
  /\ binned' = binned + 1
  /\ rq' = Tail(rq)
  /\ UNCHANGED <<conf, outst, win, sealed, todo, ipc, creditVars, slotVars, backendVars,
                 done_list, pend_return, reaperVars, deliverVars, cqVars>>

\* co_bucket_evict: S becomes the sealed window, and binning stops.
Evict(S) ==
  /\ win' = S /\ todo' = S /\ sealed' = TRUE
  /\ binned' = 0
  /\ ipc' = "issue"

\* The bucket of the next request is full.
EvictFull ==
  /\ Binning
  /\ Cardinality(InBucket(BucketOfHead)) >= BucketCap
  /\ Evict(InBucket(BucketOfHead))
  /\ bkt' = (bkt \ InBucket(BucketOfHead)) \cup {Head(rq)}
  /\ rq' = Tail(rq)
  /\ UNCHANGED <<conf, outst, creditVars, slotVars, backendVars,
                 done_list, pend_return, reaperVars, deliverVars, cqVars>>

BinOver ==
  /\ ipc = "bin"
  /\ win = {}
  /\ binned >= Window \/ rq = <<>>
  /\ binned' = 0
  /\ ipc' = "evict"
  /\ UNCHANGED <<conf, outst, rq, win, sealed, todo, bkt, creditVars, slotVars, backendVars,
                 done_list, pend_return, reaperVars, deliverVars, cqVars>>

\* co_bucket_fullest, the first of the largest.
Fuller(b, c) ==
  \/ Cardinality(InBucket(b)) > Cardinality(InBucket(c))
  \/ Cardinality(InBucket(b)) = Cardinality(InBucket(c)) /\ b <= c
Fullest == CHOOSE b \in 0 .. NBuckets - 1 : \A c \in 0 .. NBuckets - 1 : Fuller(b, c)

MustEvict == rq = <<>> /\ Cardinality(InBucket(Fullest)) >= FlushMin

\* A bucket that need not be evicted may be of age.
EvictFullest ==
  /\ ipc = "evict"
  /\ bkt # {}
  /\ Evict(InBucket(Fullest))
  /\ bkt' = bkt \ InBucket(Fullest)
  /\ UNCHANGED <<conf, outst, rq, creditVars, slotVars, backendVars,
                 done_list, pend_return, reaperVars, deliverVars, cqVars>>

KeepBinned ==
  /\ ipc = "evict"
  /\ bkt = {} \/ ~MustEvict
  /\ ipc' = IssuerLapOver
  /\ UNCHANGED <<conf, outst, rq, windowVars, creditVars, slotVars, backendVars,
                 done_list, pend_return, reaperVars, deliverVars, cqVars>>

\* The run the issue loop takes next.  The sorting modes bring a page's
\* requests together, in page order; hash leaves the window in arrival order,
\* where neighbours may or may not be of one page; no_merge takes one each.
OfPage(p) == {r \in todo : PageOf[r] = p}

NextRuns ==
  {R \in SUBSET todo :
     /\ R # {}
     /\ \E p \in Pages : R \subseteq OfPage(p)
     /\ conf.sort \notin {"hash", "no_merge"} =>
          \A r \in R : /\ OfPage(PageOf[r]) \subseteq R
                       /\ \A q \in todo : PageOf[r] <= PageOf[q]
     /\ conf.sort = "no_merge" => Cardinality(R) = 1}

Credits_SlotOnly(R) == pend_free # {}
Credits(R) == pend_free # {} /\ wfree_n >= Cardinality(R)

\* Bound: no completion is delayed by a whole turn of its slot's generations.
NextGen(s) == (pend[s].gen + 1) % Gens
GenIsFresh(s) == \A c \in io \cup echoes : c.slot = s => c.gen # NextGen(s)

\* pend_alloc and the waiter chain, up to the call of issue_read.
Issue ==
  /\ ipc = "issue"
  /\ todo # {}
  /\ \E R \in NextRuns, s \in pend_free :
       /\ Credits(R)
       /\ GenIsFresh(s)
       /\ pend_free' = pend_free \ {s}
       /\ wfree_n' = wfree_n - Cardinality(R)
       /\ pend' = [pend EXCEPT ![s] = [state |-> "ISSUED", gen |-> NextGen(s),
                                       tag |-> PageOf[CHOOSE r \in R : TRUE], waiters |-> R]]
       /\ cur' = [cur EXCEPT !["issuer"] = s]
  /\ ipc' = "submit"
  /\ UNCHANGED <<conf, outst, rq, windowVars, staging, backendVars,
                 done_list, pend_return, reaperVars, dpc, left, ok, cqe, h, cqVars>>

\* Out of credits: the rest of the window waits for the next lap.
Defer ==
  /\ ipc = "issue"
  /\ todo # {}
  /\ \E R \in NextRuns : ~Credits(R)
  /\ ipc' = IssuerLapOver
  /\ UNCHANGED <<conf, outst, rq, windowVars, creditVars, slotVars, backendVars,
                 done_list, pend_return, reaperVars, deliverVars, cqVars>>

Issued == cur["issuer"]
IssuedRead == [slot |-> Issued, gen |-> pend[Issued].gen, page |-> pend[Issued].tag]

\* issue_read returned 0.  The model provider copies the page at once and
\* completes later; a device writes the buffer when it completes.
Accept ==
  /\ ipc = "submit"
  /\ conf.kind # "sync"
  /\ io' = io \cup {IssuedRead}
  /\ staging' = IF conf.kind = "model"
                THEN [staging EXCEPT ![Issued] = pend[Issued].tag] ELSE staging
  /\ todo' = todo \ pend[Issued].waiters
  /\ cur' = [cur EXCEPT !["issuer"] = None]
  /\ ipc' = "issue"
  /\ UNCHANGED <<conf, outst, rq, win, sealed, bucketVars, creditVars, pend, echoes,
                 done_list, pend_return, reaperVars, dpc, left, ok, cqe, h, cqVars>>

\* -EAGAIN, the provider's queue is full: undo, retry next lap.
QueueFull == IF conf.kind = "model" THEN Cardinality(io) >= Cardinality(Slots) ELSE io # {}

Again_KeepChain ==
  /\ ipc = "submit" /\ conf.kind # "sync" /\ QueueFull
  /\ pend_free' = pend_free \cup {Issued}
  /\ pend' = [pend EXCEPT ![Issued] = [@ EXCEPT !.state = "FREE", !.waiters = {}]]
  /\ cur' = [cur EXCEPT !["issuer"] = None]
  /\ ipc' = IssuerLapOver
  /\ UNCHANGED <<conf, outst, rq, windowVars, wfree_n, staging, backendVars,
                 done_list, pend_return, reaperVars, dpc, left, ok, cqe, h, cqVars>>

Again ==
  /\ ipc = "submit"
  /\ conf.kind # "sync"
  /\ QueueFull
  /\ FreeSlots({Issued})
  /\ cur' = [cur EXCEPT !["issuer"] = None]
  /\ ipc' = IssuerLapOver
  /\ UNCHANGED <<conf, outst, rq, windowVars, backendVars,
                 done_list, pend_return, reaperVars, dpc, left, ok, cqe, h, cqVars>>

\* Thread t starts on the waiters of slot s, to be answered with a row or not.
StartDelivery(t, s, good) ==
  /\ cur' = [cur EXCEPT ![t] = s]
  /\ dpc' = [dpc EXCEPT ![t] = "row"]
  /\ left' = [left EXCEPT ![t] = pend[s].waiters]
  /\ ok' = [ok EXCEPT ![t] = good]

ChainServed(t) == dpc[t] = "row" /\ left[t] = {}

EndDelivery(t) ==
  /\ cur' = [cur EXCEPT ![t] = None]
  /\ dpc' = [dpc EXCEPT ![t] = None]
  /\ ok' = [ok EXCEPT ![t] = FALSE]

\* A hard error: the issuer answers the run with errors.
Refuse ==
  /\ ipc = "submit"
  /\ conf.refuse
  /\ StartDelivery("issuer", Issued, FALSE)
  /\ ipc' = "deliver"
  /\ UNCHANGED <<conf, outst, rq, windowVars, creditVars, slotVars, backendVars,
                 done_list, pend_return, reaperVars, cqe, h, cqVars>>

\* A synchronous provider filled the buffer: the issuer delivers the rows.
FillSync ==
  /\ ipc = "submit"
  /\ conf.kind = "sync"
  /\ staging' = [staging EXCEPT ![Issued] = pend[Issued].tag]
  /\ StartDelivery("issuer", Issued, TRUE)
  /\ ipc' = "deliver"
  /\ UNCHANGED <<conf, outst, rq, windowVars, creditVars, pend, backendVars,
                 done_list, pend_return, reaperVars, cqe, h, cqVars>>

InlineDone_NoAdvance ==
  /\ ipc = "deliver"
  /\ ChainServed("issuer")
  /\ FreeSlots({Issued})
  /\ EndDelivery("issuer")
  /\ ipc' = "issue"
  /\ UNCHANGED <<conf, outst, rq, windowVars, backendVars,
                 done_list, pend_return, reaperVars, left, cqe, h, cqVars>>

InlineDone ==
  /\ ipc = "deliver"
  /\ ChainServed("issuer")
  /\ todo' = todo \ pend[Issued].waiters
  /\ FreeSlots({Issued})
  /\ EndDelivery("issuer")
  /\ ipc' = "issue"
  /\ UNCHANGED <<conf, outst, rq, win, sealed, bucketVars, backendVars,
                 done_list, pend_return, reaperVars, left, cqe, h, cqVars>>

\* The whole window is issued.
WindowDone ==
  /\ ipc = "issue"
  /\ todo = {}
  /\ win' = {} /\ sealed' = FALSE
  /\ ipc' = IssuerLapOver
  /\ UNCHANGED <<conf, outst, rq, todo, bucketVars, creditVars, slotVars, backendVars,
                 done_list, pend_return, reaperVars, deliverVars, cqVars>>
-----------------------------------------------------------------------------
(* deliver_row and push_cqe, run by either thread.                         *)

\* The row is copied out of the staging buffer as it is now.
CopyRow(t) ==
  /\ dpc[t] = "row"
  /\ \E r \in left[t] :
       /\ left' = [left EXCEPT ![t] = @ \ {r}]
       /\ cqe' = [cqe EXCEPT ![t] = [req |-> r, ok |-> ok[t],
                                     data |-> IF ok[t] THEN staging[cur[t]] ELSE NoPage]]
  /\ dpc' = [dpc EXCEPT ![t] = "post"]
  /\ UNCHANGED <<conf, outst, rq, windowVars, ipc, creditVars, slotVars, backendVars,
                 done_list, pend_return, reaperVars, cur, ok, h, cqVars>>

\* The spin on a full ring ends: cq_head is read here and stored by PostCqe.
CqHasRoom_OffByOne == Wrap(cq_head - cq_tail) <= CqEntries
CqHasRoom == Wrap(cq_head - cq_tail) < CqEntries

ReadCqHead(t) ==
  /\ dpc[t] = "post"
  /\ CqHasRoom
  /\ h' = [h EXCEPT ![t] = cq_head]
  /\ dpc' = [dpc EXCEPT ![t] = "store"]
  /\ UNCHANGED <<conf, outst, rq, windowVars, ipc, creditVars, slotVars, backendVars,
                 done_list, pend_return, reaperVars, cur, left, ok, cqe, cqVars>>

PostCqe(t) ==
  /\ dpc[t] = "store"
  /\ cq' = [cq EXCEPT ![h[t] % CqEntries] = cqe[t]]
  /\ cq_head' = Wrap(h[t] + 1)
  /\ cqe' = [cqe EXCEPT ![t] = NoCqe]
  /\ h' = [h EXCEPT ![t] = 0]
  /\ dpc' = [dpc EXCEPT ![t] = "row"]
  /\ UNCHANGED <<conf, outst, rq, windowVars, ipc, creditVars, slotVars, backendVars,
                 done_list, pend_return, reaperVars, cur, left, ok, cq_tail>>
-----------------------------------------------------------------------------
(* The reaper.                                                             *)

ReaperTurn == conf.split \/ ipc = "reap"

\* co_timeout_scan and the start of co_reap.  Which reads are old enough by
\* now is the clock's choice (a read issued while another thread scans counts
\* as old too: its unsigned age wraps); a completion that comes between the scan and
\* llist_del_all might as well come before the scan.
ReaperLap ==
  /\ rpc = "lap"
  /\ ReaperTurn
  /\ \E old \in SUBSET {s \in Slots : conf.timeouts /\ pend[s].state = "ISSUED"} :
       /\ pend' = [s \in Slots |-> IF s \in old THEN [pend[s] EXCEPT !.state = "ERROR"]
                                                ELSE pend[s]]
       /\ rlist' = done_list \cup old
  /\ done_list' = {}
  /\ rpc' = "page"
  /\ UNCHANGED <<conf, outst, rq, windowVars, ipc, creditVars, staging, backendVars,
                 pend_return, deliverVars, cqVars>>

ReapPage ==
  /\ rpc = "page"
  /\ \E s \in rlist : StartDelivery("reaper", s, pend[s].state # "ERROR")
  /\ rpc' = "deliver"
  /\ UNCHANGED <<conf, outst, rq, windowVars, ipc, creditVars, slotVars, backendVars,
                 done_list, pend_return, rlist, cqe, h, cqVars>>

PageDone ==
  /\ rpc = "deliver"
  /\ ChainServed("reaper")
  /\ pend_return' = pend_return \cup {cur["reaper"]}
  /\ rlist' = rlist \ {cur["reaper"]}
  /\ EndDelivery("reaper")
  /\ rpc' = "page"
  /\ UNCHANGED <<conf, outst, rq, windowVars, ipc, creditVars, slotVars, backendVars,
                 done_list, left, cqe, h, cqVars>>

ReaperLapDone ==
  /\ rpc = "page"
  /\ rlist = {}
  /\ rpc' = "lap"
  /\ ipc' = IF conf.split THEN ipc ELSE "lap"
  /\ UNCHANGED <<conf, outst, rq, windowVars, creditVars, slotVars, backendVars,
                 done_list, pend_return, rlist, deliverVars, cqVars>>
-----------------------------------------------------------------------------
(* The backend.                                                            *)

\* The cmpxchg of nvmev_co_backend_done wants this generation, still ISSUED.
Wins_NoState(s, gen) == pend[s].gen = gen
Wins_NoGen(s, gen) == pend[s].state = "ISSUED"
Wins(s, gen) == pend[s].state = "ISSUED" /\ pend[s].gen = gen

Upcall(s, gen, good) ==
  IF Wins(s, gen)
  THEN /\ pend' = [pend EXCEPT ![s].state = IF good THEN "DONE" ELSE "ERROR"]
       /\ done_list' = done_list \cup {s}
  ELSE UNCHANGED <<pend, done_list>>

\* A read completes; a device wrote the staging buffer before it says so.
Complete(c) ==
  /\ c \in io
  /\ \E good \in {TRUE, ~conf.errors} :
       /\ Upcall(c.slot, c.gen, good)
       /\ staging' = IF conf.kind = "device" /\ good
                     THEN [staging EXCEPT ![c.slot] = c.page] ELSE staging
  /\ io' = io \ {c}
  /\ echoes' = IF conf.echo /\ echoes = {} THEN {c} ELSE echoes  \* bound: one at a time
  /\ UNCHANGED <<conf, outst, rq, windowVars, ipc, creditVars, 
                 pend_return, reaperVars, deliverVars, cqVars>>

\* A completion is lost: dropped by the model, or swallowed by the device.
Lose(c) ==
  /\ c \in io
  /\ conf.lossy
  /\ io' = io \ {c}
  /\ UNCHANGED <<conf, outst, rq, windowVars, ipc, creditVars, slotVars, echoes,
                 done_list, pend_return, reaperVars, deliverVars, cqVars>>

\* The backend fires a completion it has fired before.
Echo(c) ==
  /\ c \in echoes
  /\ \E good \in {TRUE, ~conf.errors} : Upcall(c.slot, c.gen, good)
  /\ echoes' = echoes \ {c}
  /\ UNCHANGED <<conf, outst, rq, windowVars, ipc, creditVars, staging, io,
                 pend_return, reaperVars, deliverVars, cqVars>>
-----------------------------------------------------------------------------
IssuerStep ==
  \/ DrainReturns \/ PopReq \/ FillOver \/ Seal \/ KeepFilling
  \/ Bin \/ EvictFull \/ BinOver \/ EvictFullest \/ KeepBinned
  \/ Issue \/ Defer \/ Accept \/ Again \/ Refuse \/ FillSync \/ InlineDone \/ WindowDone
  \/ CopyRow("issuer") \/ ReadCqHead("issuer") \/ PostCqe("issuer")

ReaperStep ==
  \/ ReaperLap \/ ReapPage \/ PageDone \/ ReaperLapDone
  \/ CopyRow("reaper") \/ ReadCqHead("reaper") \/ PostCqe("reaper")

Next ==
  \/ \E r \in Reqs : Push(r)
  \/ Collect
  \/ IssuerStep
  \/ ReaperStep
  \/ \E c \in io : Complete(c) \/ Lose(c)
  \/ \E c \in echoes : Echo(c)

\* Both threads keep running, the application keeps draining completions, the
\* backend finishes or loses what it accepted, and time passes.  Nothing is
\* assumed of new requests or of completions fired twice.
Fairness ==
  /\ WF_vars(IssuerStep)
  /\ WF_vars(ReaperStep)
  /\ WF_vars(Collect)
  /\ \A c \in Read : WF_vars(Complete(c) \/ Lose(c))
  /\ SF_vars(Seal) /\ SF_vars(EvictFullest)
  /\ \A s \in Slots : SF_vars(ReaperLap /\ s \in rlist')

Spec == Init /\ [][Next]_vars
FairSpec == Spec /\ Fairness
-----------------------------------------------------------------------------
ClientType == conf \in Configs /\ outst \subseteq Reqs /\ rq \in Seq(Reqs)

WindowType ==
  /\ win \subseteq Reqs /\ sealed \in BOOLEAN /\ todo \subseteq Reqs
  /\ bkt \subseteq Reqs /\ binned \in 0 .. Window
  /\ ipc \in {"lap", "fill", "check", "bin", "evict", "issue", "submit", "deliver", "reap"}

SlotType ==
  /\ pend_free \subseteq Slots /\ wfree_n \in Nat
  /\ pend \in [Slots -> Pend]
  /\ staging \in [Slots -> Pages \cup {NoPage}]

BackendType == io \subseteq Read /\ echoes \subseteq Read

ReaperType ==
  /\ done_list \subseteq Slots /\ pend_return \subseteq Slots
  /\ rpc \in {"lap", "page", "deliver"} /\ rlist \subseteq Slots

DeliverType ==
  /\ cur \in [Threads -> Slots \cup {None}]
  /\ dpc \in [Threads -> {None, "row", "post", "store"}]
  /\ left \in [Threads -> SUBSET Reqs] /\ ok \in [Threads -> BOOLEAN]
  /\ cqe \in [Threads -> Cqe \cup {NoCqe}] /\ h \in [Threads -> 0 .. Modulus - 1]

CqType ==
  /\ cq \in [Cells -> Cqe \cup {NoCqe}]
  /\ cq_head \in 0 .. Modulus - 1 /\ cq_tail \in 0 .. Modulus - 1

TypeOK ==
  /\ ClientType /\ WindowType /\ SlotType /\ BackendType
  /\ ReaperType /\ DeliverType /\ CqType

\* Where a slot can be: on the free stack, in the issuer's hands, at the
\* backend, on the done list, with the reaper, or on its way back.
Places(s) ==
  {p \in {"free", "issuer", "backend", "done", "reaper", "return"} :
     \/ p = "free" /\ s \in pend_free
     \/ p = "issuer" /\ cur["issuer"] = s
     \/ p = "backend" /\ pend[s].state = "ISSUED" /\ cur["issuer"] # s
     \/ p = "done" /\ s \in done_list
     \/ p = "reaper" /\ s \in rlist
     \/ p = "return" /\ s \in pend_return}

\* Every slot, with its staging buffer, has exactly one owner: no completion,
\* timeout, undo or return ever gives a slot to two hands or drops it
\* (pend_alloc, pend_free, nvmev_co_backend_done, co_timeout_scan, co_reap).
OneOwner == \A s \in Slots : \E p \in Places(s) : Places(s) = {p}

\* A slot is freed only after its one completion was reaped, so no completer
\* still holds it: what pend_free's comment says of its plain store.
FreeSlotIsReaped ==
  \A s \in pend_free : s \notin done_list \cup rlist /\ pend[s].state = "FREE"

\* No waiter node leaks and none is freed twice.
WaitersConserved == wfree_n + Cardinality(NodesOf(Slots)) = Arena

\* The completions in the ring, oldest first.
Posted == [i \in 1 .. Wrap(cq_head - cq_tail) |-> cq[Wrap(cq_tail + i - 1) % CqEntries]]

\* The waiters of a slot that were not answered yet.
Unserved(s) ==
  IF s \in pend_return THEN {}
  ELSE IF \E t \in Threads : cur[t] = s /\ dpc[t] # None
  THEN LET t == CHOOSE t \in Threads : cur[t] = s /\ dpc[t] # None
       IN  left[t] \cup (IF cqe[t] = NoCqe THEN {} ELSE {cqe[t].req})
  ELSE pend[s].waiters

InHand == IF cur["issuer"] = None THEN {} ELSE pend[cur["issuer"]].waiters

\* How often request r is somewhere between Push and Collect.
Copies(r) ==
  Cardinality({i \in DOMAIN rq : rq[i] = r})
  + (IF r \in IF sealed THEN todo \ InHand ELSE win THEN 1 ELSE 0)
  + (IF r \in bkt THEN 1 ELSE 0)
  + Cardinality({s \in Slots : r \in Unserved(s)})
  + Cardinality({i \in DOMAIN Posted : Posted[i].req = r})

\* A request under way is in exactly one place, any other in none: nothing is
\* lost or answered twice, whatever the backend and the timeout do.
NothingLostOrRepeated == \A r \in Reqs : Copies(r) = IF r \in outst THEN 1 ELSE 0

\* A completion without error carries the row of the request's own page.
\* Excluded: a device that completes a read after the timeout gave its buffer
\* to another page.
LateDmaPossible == conf.kind = "device" /\ conf.timeouts
OwnPage(c) == c.ok => c.data = PageOf[c.req]
RowsAreOwn ==
  LateDmaPossible \/ \A i \in DOMAIN Posted : OwnPage(Posted[i])

\* The shard as FeatureStore sees it.
StatusView ==
  [r \in Reqs |->
     LET mine == {i \in DOMAIN Posted : Posted[i].req = r}
     IN  IF r \notin outst THEN "idle"
         ELSE IF mine = {} THEN "pending"
         ELSE LET c == Posted[CHOOSE i \in mine : TRUE]
              IN  IF ~c.ok THEN "error" ELSE IF OwnPage(c) \/ LateDmaPossible THEN "row" ELSE "garbage"]

Store == INSTANCE FeatureStore WITH status <- StatusView

\* The shard implements the promise made to the application.
ImplementsStore == Store!Spec

\* Every request pushed is answered and collected.
EveryRequestAnswered == \A r \in Reqs : r \in outst ~> r \notin outst
=============================================================================
