------------------------------ MODULE DirectQP ------------------------------
(***************************************************************************)
(* One poll-mode queue pair of the direct provider (backend_direct.c): the *)
(* issuer submits reads (backend_direct_issue_read), the controller        *)
(* fetches and completes them in any order, the reaper polls completions   *)
(* (direct_poll).  With the roles split the two are threads; the stack of  *)
(* command identifiers is all they share under a lock.                     *)
(*                                                                         *)
(* A read is named by its cookie, which stands for its staging buffer too. *)
(* A set of free identifiers stands for the stack.  The queue pair is      *)
(* created by the first read; a creation that fails leaves nothing behind. *)
(***************************************************************************)
EXTENDS Integers, FiniteSets

CONSTANTS
  Reads,  \* cookies the shard may have in flight
  Qd      \* io_qd, entries of the submission and of the completion queue

None == "none"

ASSUME QpAssumption == IsFiniteSet(Reads) /\ None \notin Reads /\ Qd \in Nat /\ Qd > 1

VARIABLES
  created,           \* the queue pair is there, published to the reaper
  free, cid_cookie,  \* free command identifiers; the cookie of each
  mapped,            \* reads whose staging page is mapped for DMA
  ipc, icid, iread,  \* the issuer: where it is, its identifier and read
  sq, sq_tail, sq_db,         \* submission queue, tail, doorbell
  sq_fetched, commands,       \* controller: next entry to fetch, reads it works on
  cq, cq_tail, cq_tail_phase, \* completion queue, the controller's tail and phase
  cq_head, cq_phase, cq_db,   \* the reaper's head and phase, doorbell
  rpc, rcid, rdone, rof, advanced, \* the reaper: where it is, the completion at
                     \* hand: its identifier, that one's cookie, the read it is for
  nv_inflight,
  answered           \* reads whose upcall came and whose buffer is not reused

issuerVars == <<ipc, icid, iread, sq, sq_tail, sq_db>>
deviceVars == <<sq_fetched, commands, cq, cq_tail, cq_tail_phase>>
reaperVars == <<cq_head, cq_phase, cq_db, rpc, rcid, rdone, rof, advanced>>
vars == <<created, free, cid_cookie, mapped, issuerVars, deviceVars, reaperVars,
          nv_inflight, answered>>

Cids == 0 .. Qd - 2   \* one entry stays unused: a full ring is not an empty one
Entries == 0 .. Qd - 1
After(x) == (x + 1) % Qd

NoSqe == [cid |-> 0, of |-> None]
NoCqe == [cid |-> 0, of |-> None, phase |-> 0]

\* of: the read the command is for (its PRP); in a completion the host does not
\* see it, and has the identifier only.
Sqe == [cid : Cids, of : Reads] \cup {NoSqe}
Cqe == [cid : Cids, of : Reads \cup {None}, phase : {0, 1}] \cup {NoCqe}

Init ==
  /\ created = FALSE
  /\ free = {} /\ cid_cookie = [c \in Cids |-> None] /\ mapped = {}
  /\ ipc = "idle" /\ icid = 0 /\ iread = None
  /\ sq = [e \in Entries |-> NoSqe] /\ sq_tail = 0 /\ sq_db = 0
  /\ sq_fetched = 0 /\ commands = {}
  /\ cq = [e \in Entries |-> NoCqe] /\ cq_tail = 0 /\ cq_tail_phase = 1
  /\ cq_head = 0 /\ cq_phase = 0 /\ cq_db = 0
  /\ rpc = "poll" /\ rcid = 0 /\ rdone = None /\ rof = None /\ advanced = FALSE
  /\ nv_inflight = 0 /\ answered = {}
-----------------------------------------------------------------------------
(* The issuer.                                                             *)

\* qp_create.
Create ==
  /\ ipc = "idle"
  /\ ~created
  /\ created' = TRUE
  /\ free' = Cids
  /\ cq_phase' = 1
  /\ UNCHANGED <<cid_cookie, mapped, issuerVars, deviceVars, cq_head, cq_db,
                 rpc, rcid, rdone, rof, advanced, nv_inflight, answered>>

\* The reads in the hardware's or the reaper's hands.
Held == ({sq[e].of : e \in Entries} \cup {c.of : c \in commands}
         \cup {cq[e].of : e \in Entries} \cup {rof}) \ {None}

\* The coalescer issues a read into a slot that is free.  With no identifier
\* left it is told -EAGAIN, and nothing changes.
AllocCid(r) ==
  /\ ipc = "idle"
  /\ created
  /\ r \notin answered \cup Held
  /\ \E cid \in free :
       /\ free' = free \ {cid}
       /\ cid_cookie' = [cid_cookie EXCEPT ![cid] = r]
       /\ icid' = cid
  /\ iread' = r
  /\ ipc' = "map"
  /\ UNCHANGED <<created, mapped, sq, sq_tail, sq_db, deviceVars, reaperVars,
                 nv_inflight, answered>>

MapFails ==
  /\ ipc = "map"
  /\ free' = free \cup {icid}
  /\ ipc' = "idle" /\ icid' = 0 /\ iread' = None
  /\ UNCHANGED <<created, cid_cookie, mapped, sq, sq_tail, sq_db, deviceVars, reaperVars,
                 nv_inflight, answered>>

\* The command is written and counted, then the doorbell tells the controller.
NextTail == After(sq_tail)

Map_NotCounted ==
  /\ ipc = "map"
  /\ mapped' = mapped \cup {iread}
  /\ sq' = [sq EXCEPT ![sq_tail] = [cid |-> icid, of |-> iread]]
  /\ sq_tail' = NextTail
  /\ ipc' = "doorbell"
  /\ UNCHANGED <<created, free, cid_cookie, icid, iread, sq_db, deviceVars, reaperVars,
                 nv_inflight, answered>>

Map ==
  /\ ipc = "map"
  /\ mapped' = mapped \cup {iread}
  /\ sq' = [sq EXCEPT ![sq_tail] = [cid |-> icid, of |-> iread]]
  /\ sq_tail' = NextTail
  /\ nv_inflight' = nv_inflight + 1
  /\ ipc' = "doorbell"
  /\ UNCHANGED <<created, free, cid_cookie, icid, iread, sq_db, deviceVars, reaperVars, answered>>

Doorbell ==
  /\ ipc = "doorbell"
  /\ sq_db' = sq_tail
  /\ ipc' = "idle" /\ icid' = 0 /\ iread' = None
  /\ UNCHANGED <<created, free, cid_cookie, mapped, sq, sq_tail,
                 deviceVars, reaperVars, nv_inflight, answered>>
-----------------------------------------------------------------------------
(* The controller.                                                         *)

Fetch ==
  /\ sq_fetched # sq_db
  /\ commands' = commands \cup {sq[sq_fetched]}
  /\ sq' = [sq EXCEPT ![sq_fetched] = NoSqe]  \* an entry fetched is forgotten
  /\ sq_fetched' = After(sq_fetched)
  /\ UNCHANGED <<created, free, cid_cookie, mapped, ipc, icid, iread, sq_tail, sq_db,
                 cq, cq_tail, cq_tail_phase, reaperVars, nv_inflight, answered>>

\* It posts a completion when its completion queue has room.
Post(c) ==
  /\ c \in commands
  /\ After(cq_tail) # cq_db
  /\ commands' = commands \ {c}
  /\ cq' = [cq EXCEPT ![cq_tail] = [cid |-> c.cid, of |-> c.of, phase |-> cq_tail_phase]]
  /\ cq_tail' = After(cq_tail)
  /\ cq_tail_phase' = IF After(cq_tail) = 0 THEN 1 - cq_tail_phase ELSE cq_tail_phase
  /\ UNCHANGED <<created, free, cid_cookie, mapped, issuerVars, sq_fetched, reaperVars,
                 nv_inflight, answered>>
-----------------------------------------------------------------------------
(* The reaper: direct_poll.                                                *)

NextPhase_Stuck == cq_phase
NextPhase == IF After(cq_head) = 0 THEN 1 - cq_phase ELSE cq_phase

Hit == created /\ cq[cq_head].phase = cq_phase

PollHit ==
  /\ rpc = "poll"
  /\ Hit
  /\ rcid' = cq[cq_head].cid
  /\ rdone' = cid_cookie[cq[cq_head].cid] /\ rof' = cq[cq_head].of
  /\ mapped' = mapped \ {cid_cookie[cq[cq_head].cid]}
  /\ cq' = [cq EXCEPT ![cq_head] = [cid |-> 0, of |-> None, phase |-> @.phase]]
                                      \* forgotten, but for its phase
  /\ cq_head' = After(cq_head) /\ cq_phase' = NextPhase
  /\ advanced' = TRUE
  /\ rpc' = "free"
  /\ UNCHANGED <<created, free, cid_cookie, issuerVars, sq_fetched, commands, cq_tail, cq_tail_phase,
                 cq_db, nv_inflight, answered>>

FreeCid ==
  /\ rpc = "free"
  /\ free' = free \cup {rcid}
  /\ rpc' = "upcall"
  /\ UNCHANGED <<created, cid_cookie, mapped, issuerVars, deviceVars,
                 cq_head, cq_phase, cq_db, rcid, rdone, rof, advanced, nv_inflight, answered>>

Upcall_CookieReadLate ==
  /\ rpc = "upcall"
  /\ nv_inflight' = nv_inflight - 1
  /\ answered' = answered \cup {cid_cookie[rcid]}
  /\ rcid' = 0 /\ rdone' = None /\ rof' = None
  /\ rpc' = "poll"
  /\ UNCHANGED <<created, free, cid_cookie, mapped, issuerVars, deviceVars,
                 cq_head, cq_phase, cq_db, advanced>>

Upcall ==
  /\ rpc = "upcall"
  /\ nv_inflight' = nv_inflight - 1
  /\ answered' = answered \cup {rdone}
  /\ rcid' = 0 /\ rdone' = None /\ rof' = None
  /\ rpc' = "poll"
  /\ UNCHANGED <<created, free, cid_cookie, mapped, issuerVars, deviceVars,
                 cq_head, cq_phase, cq_db, advanced>>

PollMiss_NoDoorbell ==
  /\ rpc = "poll" /\ ~Hit /\ advanced
  /\ advanced' = FALSE
  /\ UNCHANGED <<created, free, cid_cookie, mapped, issuerVars, deviceVars,
                 cq_head, cq_phase, cq_db, rpc, rcid, rdone, rof, nv_inflight, answered>>

PollMiss ==
  /\ rpc = "poll"
  /\ ~Hit
  /\ advanced
  /\ cq_db' = cq_head
  /\ advanced' = FALSE
  /\ UNCHANGED <<created, free, cid_cookie, mapped, issuerVars, deviceVars,
                 cq_head, cq_phase, rpc, rcid, rdone, rof, nv_inflight, answered>>

\* The coalescer delivered the rows and may issue the slot again.
Reuse(r) ==
  /\ r \in answered
  /\ answered' = answered \ {r}
  /\ UNCHANGED <<created, free, cid_cookie, mapped, issuerVars, deviceVars, reaperVars, nv_inflight>>
-----------------------------------------------------------------------------
Issuer == MapFails \/ Map \/ Doorbell
Reaper == PollHit \/ FreeCid \/ Upcall \/ PollMiss

Next ==
  \/ Create \/ Issuer \/ Reaper \/ Fetch
  \/ \E r \in Reads : AllocCid(r) \/ Reuse(r)
  \/ \E c \in commands : Post(c)

Spec == Init /\ [][Next]_vars

\* The issuer finishes what it began, the reaper polls, and the controller does
\* not pass over a command for ever, though its queue may be full now and then.
Commands == [cid : Cids, of : Reads]
Fairness == /\ WF_vars(Issuer) /\ WF_vars(Reaper) /\ WF_vars(Fetch)
            /\ \A c \in Commands : SF_vars(Post(c))
FairSpec == Spec /\ Fairness
-----------------------------------------------------------------------------
\* A page stays mapped for DMA until the controller is done with it
\* (dma_map_page in backend_direct_issue_read, dma_unmap_page in direct_poll).
AtController ==
  {sq[e].of : e \in Entries} \cup {c.of : c \in commands} \cup {cq[e].of : e \in Entries}
MappedUntilReaped == AtController \ {None} \subseteq mapped

\* The counter that backend_direct_exit waits on is the number of reads under
\* way, and so never negative: the completion of a read cannot outrun its count.
InflightCounts == nv_inflight = Cardinality(Held)

\* The queue pair implements the provider's promise: each read accepted is
\* answered once, by the upcall with its own cookie, whatever the order of
\* completions and the reuse of identifiers.
Backend == INSTANCE ReadBackend WITH held <- Held
ImplementsBackend == Backend!Spec

\* Every read the issuer submitted is answered.
EveryReadAnswered == \A r \in Reads : r \in Held ~> r \in answered
=============================================================================
